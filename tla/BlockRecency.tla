---------------------------- MODULE BlockRecency ----------------------------
(***************************************************************************)
(* BlockLoader with a history of use, for stating that block_cache_ is a   *)
(* least-recently-used cache.  A key is used when a call is answered from  *)
(* the cache or when its block is installed in it; a waiter that wakes     *)
(* takes its block from the load and leaves the cache alone.  The history  *)
(* only watches: it never disables a step of BlockLoader.                  *)
(***************************************************************************)
EXTENDS BlockLoader

VARIABLES
    used,   \* the keys used so far, evicted ones included
    newer   \* the pairs <<x, y>> of used keys, x's last use later than y's

history == <<used, newer>>

RecencyInit == Init /\ used = {} /\ newer = {}

(* The step is a use of k: a hit, or the owner's install. *)
Uses(k) == \E t \in Threads : pc[t] \in {Idle, Installing} /\ pc'[t] = Returned /\ key'[t] = k

Note(k) ==
    /\ used' = used \cup {k}
    /\ newer' = {p \in newer : p[2] # k} \cup {<<k, x>> : x \in used \ {k}}

RecencyNext ==
    /\ Next
    /\ \/ \E k \in Keys : Uses(k) /\ Note(k)
       \/ (\A k \in Keys : ~Uses(k)) /\ UNCHANGED history

RecencySpec == RecencyInit /\ [][RecencyNext]_<<vars, history>>

FairRecencySpec == RecencySpec /\ Fairness

-----------------------------------------------------------------------------
(* The cache is a least-recently-used one: the list is in the order of last *)
(* use, latest first; a cached block was used later than every block the    *)
(* cache no longer holds; and a block that was used is only missing while   *)
(* the cache is full (splice on a hit, push_front on an install, pop_back   *)
(* while the cache is over kDefaultBlockCacheEntries).                      *)
CacheHoldsMostRecent ==
    /\ \A i, j \in 1..Len(block_cache_order_) :
            i < j => <<block_cache_order_[i], block_cache_order_[j]>> \in newer
    /\ \A k \in Keys, x \in used : Cached(k) /\ ~Cached(x) => <<k, x>> \in newer
    /\ (\E x \in used : ~Cached(x)) => Len(block_cache_order_) = Capacity
=============================================================================
