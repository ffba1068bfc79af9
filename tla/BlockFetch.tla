------------------------------ MODULE BlockFetch ------------------------------
(***************************************************************************)
(* What HttpImapDownloadServer::load_block promises its callers, without   *)
(* owners, waiters, load objects or an eviction order: a call is answered  *)
(* from the cache, or by the one download of its block that is going on.   *)
(* One download settles every call waiting for that block at once, and its *)
(* outcome stands until the download is retired.                           *)
(***************************************************************************)
EXTENDS Naturals, FiniteSets

CONSTANTS Threads, Keys, Capacity

NoKey == "no key"

VARIABLES
    cached,     \* the keys whose block is cached
    download,   \* key -> the state of its download
    wanted,     \* thread -> the key its call asked for, or NoKey
    outcome     \* thread -> the outcome of its call

vars == <<cached, download, wanted, outcome>>

None == "none"        \* no download, no call
Pending == "pending"  \* downloading, waiting
Ok == "ok"
Failed == "failed"

Init ==
    /\ cached = {}
    /\ download = [k \in Keys |-> None]
    /\ wanted = [t \in Threads |-> NoKey]
    /\ outcome = [t \in Threads |-> None]

(* A call is answered by the cache, else it takes part in the download of   *)
(* its block, which it starts if there is none.                             *)
Ask(t, k) ==
    /\ outcome[t] = None
    /\ wanted' = [wanted EXCEPT ![t] = k]
    /\ cached' = cached
    /\ \/ /\ k \in cached
          /\ outcome' = [outcome EXCEPT ![t] = Ok]
          /\ UNCHANGED download
       \/ /\ k \notin cached
          /\ download[k] # None
          /\ outcome' = [outcome EXCEPT ![t] = download[k]]
          /\ UNCHANGED download
       \/ /\ k \notin cached
          /\ download[k] = None
          /\ outcome' = [outcome EXCEPT ![t] = Pending]
          /\ download' = [download EXCEPT ![k] = Pending]

(* The download of k ends: every call pending on k has its outcome.         *)
Settle(k, o) ==
    /\ download[k] = Pending
    /\ download' = [download EXCEPT ![k] = o]
    /\ outcome' = [t \in Threads |->
                     IF wanted[t] = k /\ outcome[t] = Pending THEN o ELSE outcome[t]]
    /\ UNCHANGED <<cached, wanted>>

(* The download of k is forgotten; a block that arrived is cached, and may  *)
(* push one other block out.                                                *)
Retire(k) ==
    /\ download[k] \in {Ok, Failed}
    /\ download' = [download EXCEPT ![k] = None]
    /\ IF download[k] = Ok
       THEN /\ \E out \in {{}} \cup {{x} : x \in cached} : cached' = (cached \ out) \cup {k}
            /\ Cardinality(cached') <= Capacity
       ELSE cached' = cached
    /\ UNCHANGED <<wanted, outcome>>

Return(t) ==
    /\ outcome[t] \in {Ok, Failed}
    /\ outcome' = [outcome EXCEPT ![t] = None]
    /\ wanted' = [wanted EXCEPT ![t] = NoKey]
    /\ UNCHANGED <<cached, download>>

Next ==
    \/ \E t \in Threads, k \in Keys : Ask(t, k)
    \/ \E k \in Keys : Settle(k, Ok) \/ Settle(k, Failed) \/ Retire(k)
    \/ \E t \in Threads : Return(t)

Spec == Init /\ [][Next]_vars

(* A download that has begun ends and is forgotten; an answered call returns. *)
FairSpec ==
    /\ Spec
    /\ \A k \in Keys : WF_vars(Settle(k, Ok) \/ Settle(k, Failed)) /\ WF_vars(Retire(k))
    /\ \A t \in Threads : WF_vars(Return(t))
=============================================================================
