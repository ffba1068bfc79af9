---------------------------- MODULE MCDownload ----------------------------
(***************************************************************************)
(* TLC instances of Download.                                              *)
(***************************************************************************)
EXTENDS Download

CONSTANTS v1, v2, v3, m1, m2, f1, c1, c2

(* v1 and v3 are the same content, uploaded with different block sizes.    *)
Twins == [v \in Versions |-> IF v = v2 THEN m2 ELSE m1]
Counts == [v \in Versions |-> IF v = v3 THEN 1 ELSE 2]

Pure == {r \in Record : \A i \in DOMAIN r.from : r.from[i] = r.version}

(* Besides these, an index in which v2 took over a block of v1.             *)
Mixed == Pure \cup {[version |-> v2, from |-> <<v1, v2>>]}
=============================================================================
