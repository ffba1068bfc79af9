--------------------------- MODULE MCAndroidBridge ---------------------------
(***************************************************************************)
(* TLC instances of AndroidBridge: two threads share the object that starts *)
(* and stops, a third has an object of its own for commands.                *)
(***************************************************************************)
EXTENDS AndroidBridge, TLC

CONSTANTS main, other, shell, service, console

Own == main :> service @@ other :> service @@ shell :> console
=============================================================================
