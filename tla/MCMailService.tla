---------------------------- MODULE MCMailService ----------------------------
(***************************************************************************)
(* TLC instances of MailService.                                           *)
(***************************************************************************)
EXTENDS MailService, TLC

CONSTANTS p1, p2, x1, c1, d1, v1, v2

Plain == [p \in Paths |-> p]
Encrypted == p1 :> x1
Half == p1 :> p1 @@ p2 :> x1
Alone == c1 :> d1
OneTwo == v1 :> 1 @@ v2 :> 2
Everything == {Names}
Selections == {Names, {p1}}
=============================================================================
