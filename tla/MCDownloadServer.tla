--------------------------- MODULE MCDownloadServer ---------------------------
(***************************************************************************)
(* TLC instances of DownloadServer: one file whose blocks are read by all  *)
(* the clients, so that they meet in the cache and in the prefetch queue.  *)
(***************************************************************************)
EXTENDS DownloadServer, TLC

CONSTANTS k1, k2, k3, f1

TwoBlocks == f1 :> <<k1, k2>>
ThreeBlocks == f1 :> <<k1, k2, k3>>

(* Clients, session ids and load objects are interchangeable; the keys are *)
(* ordered by the file.                                                     *)
Symmetry == Permutations(Clients) \cup Permutations(Sessions) \cup Permutations(Loads)

(* What a load object that nothing refers to holds is never read.           *)
LiveState ==
    <<block_cache_, block_cache_order_, block_loads_, threadVars, serverVars,
      [l \in Loads |-> IF Referenced(l) THEN load[l] ELSE NewLoad]>>
=============================================================================
