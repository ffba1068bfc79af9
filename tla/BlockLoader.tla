----------------------------- MODULE BlockLoader -----------------------------
(***************************************************************************)
(* HttpImapDownloadServer::load_block_impl: the block cache every client   *)
(* thread and the prefetch worker go through.  A block is looked up in an  *)
(* LRU cache; on a miss, one thread becomes the owner of the load and      *)
(* downloads the block while the others wait on the same BlockLoadState.   *)
(*                                                                         *)
(* One action is one critical section of the code.  A BlockLoadState is a  *)
(* member of Loads: an object of the pool is allocated again only when no  *)
(* shared_ptr refers to it (the map entry, the owner, the waiters).        *)
(***************************************************************************)
EXTENDS Naturals, Sequences, FiniteSets

CONSTANTS
    Threads,    \* threads that call load_block
    Keys,       \* cache keys, "mailbox|uid"; also stands for the block's data
    Loads,      \* BlockLoadState objects
    Capacity    \* kDefaultBlockCacheEntries

ASSUME CapacityAssumption == Capacity \in Nat \ {0}

NoLoad == "no load"
NoKey  == "no key"

ASSUME SentinelAssumption == NoLoad \notin Loads /\ NoKey \notin Keys

VARIABLES
    block_cache_,        \* key -> the data cached for it, or NoKey
    block_cache_order_,  \* keys, most recently used first
    block_loads_,        \* key -> its BlockLoadState, or NoLoad
    load,                \* the BlockLoadState objects
    pc,                  \* where each thread is in load_block_impl
    key,                 \* the key each thread asked for
    load_state,          \* the local load_state of each thread, or NoLoad
    answer               \* what the call returned: a key's data, or NoKey for a throw

cacheVars == <<block_cache_, block_cache_order_>>
threadVars == <<pc, key, load_state, answer>>
vars == <<block_cache_, block_cache_order_, block_loads_, load, threadVars>>

Idle == "idle"            \* not in load_block_impl
Waiting == "waiting"      \* in load_state->cv.wait
Fetching == "fetching"    \* owner, in provider->fetch_block
Installing == "installing"   \* owner, data published, cache not yet updated
Withdrawing == "withdrawing" \* owner, error published, load not yet erased
Returned == "returned"    \* the call has returned or thrown

OwnerStates == {Fetching, Installing, Withdrawing}
States == OwnerStates \cup {Idle, Waiting, Returned}

LoadState == [done : BOOLEAN, data : Keys \cup {NoKey}]
NewLoad == [done |-> FALSE, data |-> NoKey]

Cached(k) == block_cache_[k] # NoKey

(* Mutant of Referenced: the map alone owns the load object. *)
ReferencedByMap(l) == \E k \in Keys : block_loads_[k] = l

(* A load object some shared_ptr still refers to. *)
Referenced(l) == \/ \E k \in Keys : block_loads_[k] = l
                 \/ \E t \in Threads : load_state[t] = l

(* list.splice(begin, list, it): the i-th key moves to the front.           *)
Splice(order, i) ==
    [j \in 1..Len(order) |->
        IF j = 1 THEN order[i] ELSE IF j <= i THEN order[j - 1] ELSE order[j]]

Init ==
    /\ block_cache_ = [k \in Keys |-> NoKey]
    /\ block_cache_order_ = <<>>
    /\ block_loads_ = [k \in Keys |-> NoLoad]
    /\ load = [l \in Loads |-> NewLoad]
    /\ pc = [t \in Threads |-> Idle]
    /\ key = [t \in Threads |-> NoKey]
    /\ load_state = [t \in Threads |-> NoLoad]
    /\ answer = [t \in Threads |-> NoKey]

-----------------------------------------------------------------------------
(* The thread t asks for k: the first critical section, in three outcomes. *)

(* Mutant of Hit: the entry is not spliced to the front. *)
HitInPlace(t, k) ==
    /\ Cached(k)
    /\ pc' = [pc EXCEPT ![t] = Returned]
    /\ answer' = [answer EXCEPT ![t] = block_cache_[k]]
    /\ UNCHANGED <<cacheVars, block_loads_, load, load_state>>

Hit(t, k) ==
    /\ Cached(k)
    /\ \E i \in 1..Len(block_cache_order_) :
         /\ block_cache_order_[i] = k
         /\ block_cache_order_' = Splice(block_cache_order_, i)
    /\ pc' = [pc EXCEPT ![t] = Returned]
    /\ answer' = [answer EXCEPT ![t] = block_cache_[k]]
    /\ UNCHANGED <<block_cache_, block_loads_, load, load_state>>

Join(t, k) ==
    /\ ~Cached(k)
    /\ block_loads_[k] # NoLoad
    /\ load_state' = [load_state EXCEPT ![t] = block_loads_[k]]
    /\ pc' = [pc EXCEPT ![t] = Waiting]
    /\ UNCHANGED <<cacheVars, block_loads_, load, answer>>

(* Mutant of Own: a load already in flight is replaced. *)
OwnAnyway(t, k) ==
    /\ ~Cached(k)
    /\ \E l \in Loads :
         /\ ~Referenced(l)
         /\ load' = [load EXCEPT ![l] = NewLoad]
         /\ block_loads_' = [block_loads_ EXCEPT ![k] = l]
         /\ load_state' = [load_state EXCEPT ![t] = l]
    /\ pc' = [pc EXCEPT ![t] = Fetching]
    /\ UNCHANGED <<cacheVars, answer>>

Own(t, k) ==
    /\ ~Cached(k)
    /\ block_loads_[k] = NoLoad
    /\ \E l \in Loads :
         /\ ~Referenced(l)
         /\ load' = [load EXCEPT ![l] = NewLoad]
         /\ block_loads_' = [block_loads_ EXCEPT ![k] = l]
         /\ load_state' = [load_state EXCEPT ![t] = l]
    /\ pc' = [pc EXCEPT ![t] = Fetching]
    /\ UNCHANGED <<cacheVars, answer>>

Ask(t, k) ==
    /\ pc[t] = Idle
    /\ key' = [key EXCEPT ![t] = k]
    /\ Hit(t, k) \/ Join(t, k) \/ Own(t, k)

(* The waiter's cv.wait ends once the load is done; without data it throws. *)
Wake(t) ==
    /\ pc[t] = Waiting
    /\ load[load_state[t]].done
    /\ pc' = [pc EXCEPT ![t] = Returned]
    /\ answer' = [answer EXCEPT ![t] = load[load_state[t]].data]
    /\ load_state' = [load_state EXCEPT ![t] = NoLoad]
    /\ UNCHANGED <<cacheVars, block_loads_, load, key>>

(* fetch_block returned: the data is published to the waiters. *)
FetchSucceeds(t) ==
    /\ pc[t] = Fetching
    /\ load' = [load EXCEPT ![load_state[t]] = [done |-> TRUE, data |-> key[t]]]
    /\ pc' = [pc EXCEPT ![t] = Installing]
    /\ UNCHANGED <<cacheVars, block_loads_, key, load_state, answer>>

(* Mutant of FetchFails: the error is not published. *)
FetchFailsSilently(t) ==
    /\ pc[t] = Fetching
    /\ pc' = [pc EXCEPT ![t] = Withdrawing]
    /\ UNCHANGED <<cacheVars, block_loads_, load, key, load_state, answer>>

(* fetch_block threw: the error is published to the waiters. *)
FetchFails(t) ==
    /\ pc[t] = Fetching
    /\ load' = [load EXCEPT ![load_state[t]] = [done |-> TRUE, data |-> NoKey]]
    /\ pc' = [pc EXCEPT ![t] = Withdrawing]
    /\ UNCHANGED <<cacheVars, block_loads_, key, load_state, answer>>

(* Mutants of Insert: nothing is evicted; the evicted key stays in the     *)
(* list; the evicted entry is overwritten by a load object's sentinel.      *)
InsertOnly(k, d) ==
    /\ block_cache_order_' = <<k>> \o block_cache_order_
    /\ block_cache_' = [block_cache_ EXCEPT ![k] = IF Cached(k) THEN @ ELSE d]

InsertKeepsOrder(k, d) ==
    LET cache == [block_cache_ EXCEPT ![k] = d]
        order == <<k>> \o block_cache_order_
        held == {x \in Keys : cache[x] # NoKey}
    IN  /\ block_cache_order_' = order
        /\ block_cache_' = IF Cardinality(held) > Capacity
                           THEN [cache EXCEPT ![order[Len(order)]] = NoKey] ELSE cache

InsertClearsWithNoLoad(k, d) ==
    LET cache == [block_cache_ EXCEPT ![k] = d]
        order == <<k>> \o block_cache_order_
    IN  IF Cardinality({x \in Keys : cache[x] # NoKey}) > Capacity
        THEN /\ block_cache_order_' = SubSeq(order, 1, Len(order) - 1)
             /\ block_cache_' = [cache EXCEPT ![order[Len(order)]] = NoLoad]
        ELSE /\ block_cache_order_' = order
             /\ block_cache_' = cache

(* push_front and emplace, then evict from the back while the cache is too  *)
(* large.  emplace keeps an entry that is already there.  The loop runs at  *)
(* most once: an install adds at most one entry to a cache within Capacity. *)
Insert(k, d) ==
    LET cache == [block_cache_ EXCEPT ![k] = IF Cached(k) THEN @ ELSE d]
        order == <<k>> \o block_cache_order_
        stale == order[Len(order)]
    IN  IF Cardinality({x \in Keys : cache[x] # NoKey}) > Capacity
        THEN /\ block_cache_order_' = SubSeq(order, 1, Len(order) - 1)
             /\ block_cache_' = [cache EXCEPT ![stale] = NoKey]
        ELSE /\ block_cache_order_' = order
             /\ block_cache_' = cache

(* The owner leaves the second critical section and returns. *)
Leave(t) ==
    /\ block_loads_' = [block_loads_ EXCEPT ![key[t]] = NoLoad]
    /\ pc' = [pc EXCEPT ![t] = Returned]
    /\ load_state' = [load_state EXCEPT ![t] = NoLoad]

Install(t) ==
    /\ pc[t] = Installing
    /\ Leave(t)
    /\ Insert(key[t], load[load_state[t]].data)
    /\ answer' = [answer EXCEPT ![t] = load[load_state[t]].data]
    /\ UNCHANGED <<load, key>>

(* Mutant of Withdraw: the failed load stays in the map. *)
WithdrawKeepsLoad(t) ==
    /\ pc[t] = Withdrawing
    /\ pc' = [pc EXCEPT ![t] = Returned]
    /\ load_state' = [load_state EXCEPT ![t] = NoLoad]
    /\ answer' = [answer EXCEPT ![t] = NoKey]
    /\ UNCHANGED <<cacheVars, block_loads_, load, key>>

Withdraw(t) ==
    /\ pc[t] = Withdrawing
    /\ Leave(t)
    /\ answer' = [answer EXCEPT ![t] = NoKey]
    /\ UNCHANGED <<cacheVars, load, key>>

(* The caller has taken the result of its call. *)
Return(t) ==
    /\ pc[t] = Returned
    /\ pc' = [pc EXCEPT ![t] = Idle]
    /\ key' = [key EXCEPT ![t] = NoKey]
    /\ answer' = [answer EXCEPT ![t] = NoKey]
    /\ UNCHANGED <<cacheVars, block_loads_, load, load_state>>

(* A step inside load_block_impl after the first critical section. *)
LoadStep(t) ==
    \/ Wake(t)
    \/ FetchSucceeds(t)
    \/ FetchFails(t)
    \/ Install(t)
    \/ Withdraw(t)

Next ==
    \E t \in Threads :
        \/ \E k \in Keys : Ask(t, k)
        \/ LoadStep(t)
        \/ Return(t)

Spec == Init /\ [][Next]_vars

(* A thread inside the function keeps running: the mutexes are held for     *)
(* short sections, notify_all follows done, and fetch_block returns or      *)
(* throws.  Nothing obliges a caller to call again.                         *)
Fairness == \A t \in Threads : WF_vars(LoadStep(t)) /\ WF_vars(Return(t))

FairSpec == Spec /\ Fairness

-----------------------------------------------------------------------------
(* Every variable has its type. *)
TypeOK ==
    /\ block_cache_ \in [Keys -> Keys \cup {NoKey}]
    /\ block_cache_order_ \in Seq(Keys)
    /\ block_loads_ \in [Keys -> Loads \cup {NoLoad}]
    /\ load \in [Loads -> LoadState]
    /\ pc \in [Threads -> States]
    /\ key \in [Threads -> Keys \cup {NoKey}]
    /\ load_state \in [Threads -> Loads \cup {NoLoad}]
    /\ answer \in [Threads -> Keys \cup {NoKey}]

Owner(t) == pc[t] \in OwnerStates

(* Single flight: a block is downloaded by one thread at a time, and never  *)
(* while the cache holds it.  load_block_impl checks cache and block_loads_ *)
(* in one critical section and erases the load in the one that caches it.   *)
SingleFlight ==
    \A t \in Threads : Owner(t) =>
        /\ ~Cached(key[t])
        /\ \A u \in Threads : Owner(u) /\ key[u] = key[t] => u = t

(* The LRU list and the cache agree: the list names every cached key once   *)
(* and nothing else, so an eviction always removes an entry; and the cache  *)
(* stays within its bound.                                                  *)
OrderMirrorsCache ==
    /\ \A k \in Keys : Cached(k) <=> \E i \in 1..Len(block_cache_order_) : block_cache_order_[i] = k
    /\ \A i, j \in 1..Len(block_cache_order_) :
            block_cache_order_[i] = block_cache_order_[j] => i = j
    /\ Len(block_cache_order_) <= Capacity

(* A failed download does not poison its key: every load in the map belongs *)
(* to a thread still inside its call, which will erase it, so a call that   *)
(* begins after the failing one has returned starts a download of its own.  *)
LoadsHaveOwners ==
    \A k \in Keys : block_loads_[k] # NoLoad =>
        \E t \in Threads : Owner(t) /\ key[t] = k /\ load_state[t] = block_loads_[k]

(* A thread that waits has someone to wake it: its load is done already, or *)
(* the owner of that very load is still fetching.                           *)
WaitersAreServed ==
    \A t \in Threads : pc[t] = Waiting =>
        \/ load[load_state[t]].done
        \/ \E u \in Threads : pc[u] = Fetching /\ load_state[u] = load_state[t]

(* A call answers with the block it was asked for, whichever thread fetched *)
(* it and whatever happened to the cache since; otherwise it throws.        *)
AnswersMatch ==
    \A t \in Threads : answer[t] # NoKey => answer[t] = key[t]

(* load_block_impl keeps the promise of BlockFetch: with owners, waiters    *)
(* and load objects hidden, every behaviour is one in which a single        *)
(* download settles all the calls waiting for its block, and under fairness *)
(* every call is settled.                                                   *)
LoadOutcome(l) ==
    IF ~load[l].done THEN "pending" ELSE IF load[l].data = NoKey THEN "failed" ELSE "ok"

CachedKeys == {k \in Keys : Cached(k)}

Downloads ==
    [k \in Keys |-> IF block_loads_[k] = NoLoad THEN "none" ELSE LoadOutcome(block_loads_[k])]

Outcomes ==
    [t \in Threads |->
        IF pc[t] = Idle THEN "none"
        ELSE IF pc[t] = Returned THEN IF answer[t] = NoKey THEN "failed" ELSE "ok"
        ELSE LoadOutcome(load_state[t])]

Fetch == INSTANCE BlockFetch WITH
    cached <- CachedKeys, download <- Downloads, wanted <- key, outcome <- Outcomes

ImplementsBlockFetch == Fetch!Spec
ImplementsFairBlockFetch == Fetch!FairSpec
=============================================================================
