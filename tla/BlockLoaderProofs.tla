-------------------------- MODULE BlockLoaderProofs --------------------------
(***************************************************************************)
(* Proofs about BlockLoader, and about the order of use that BlockRecency  *)
(* adds to it, for every set of threads, keys and load objects and every   *)
(* capacity.                                                               *)
(***************************************************************************)
EXTENDS BlockRecency, SequenceTheorems, FiniteSetTheorems, TLAPS

(* What a thread's locals say at each place of load_block_impl. *)
LocalsInv ==
    \A t \in Threads :
        /\ pc[t] = Idle => key[t] = NoKey
        /\ pc[t] # Idle => key[t] \in Keys
        /\ pc[t] \in {Idle, Returned} <=> load_state[t] = NoLoad
        /\ pc[t] # Returned => answer[t] = NoKey
        /\ answer[t] \in {key[t], NoKey}

(* An owner's load is the one in the map for its key, in the state its      *)
(* place in the function implies.                                           *)
OwnerInv(t) ==
    /\ block_loads_[key[t]] = load_state[t]
    /\ block_cache_[key[t]] = NoKey
    /\ pc[t] = Fetching => load[load_state[t]] = NewLoad
    /\ pc[t] = Installing => load[load_state[t]] = [done |-> TRUE, data |-> key[t]]
    /\ pc[t] = Withdrawing => load[load_state[t]] = [done |-> TRUE, data |-> NoKey]

OwnersInv == \A t \in Threads : Owner(t) => OwnerInv(t)

(* No two owners share a load or a key. *)
OwnersDistinct ==
    \A t, u \in Threads : Owner(t) /\ Owner(u)
        /\ (load_state[t] = load_state[u] \/ key[t] = key[u]) => t = u

(* A waiter's load has an answer to its call, or is still the current one. *)
WaiterInv(t) ==
    \/ load[load_state[t]].done /\ load[load_state[t]].data \in {key[t], NoKey}
    \/ ~load[load_state[t]].done /\ block_loads_[key[t]] = load_state[t]

WaitersInv == \A t \in Threads : pc[t] = Waiting => WaiterInv(t)

CacheInv == \A k \in Keys : block_cache_[k] \in {k, NoKey}

IInv ==
    /\ TypeOK
    /\ LocalsInv
    /\ OwnersInv
    /\ OwnersDistinct
    /\ WaitersInv
    /\ LoadsHaveOwners
    /\ CacheInv
    /\ OrderMirrorsCache

-----------------------------------------------------------------------------
(* Splicing a key to the front keeps a list of keys a list of keys of the   *)
(* same length, with the same members, each as often as before.             *)
LEMMA SpliceLemma ==
    ASSUME NEW o \in Seq(Keys), NEW i \in 1..Len(o)
    PROVE  /\ Splice(o, i) \in Seq(Keys)
           /\ Len(Splice(o, i)) = Len(o)
           /\ \A k \in Keys : (\E j \in 1..Len(o) : o[j] = k)
                                <=> (\E j \in 1..Len(o) : Splice(o, i)[j] = k)
           /\ (\A a, b \in 1..Len(o) : o[a] = o[b] => a = b)
                 => (\A a, b \in 1..Len(o) : Splice(o, i)[a] = Splice(o, i)[b] => a = b)
<1> DEFINE s == Splice(o, i)
           from(j) == IF j = 1 THEN i ELSE IF j <= i THEN j - 1 ELSE j
<1>1. Len(o) \in Nat /\ \A j \in 1..Len(o) : o[j] \in Keys
  BY ElementOfSeq
<1>2. \A j \in 1..Len(o) : from(j) \in 1..Len(o) /\ s[j] = o[from(j)]
  BY <1>1 DEF Splice
<1>3. s \in [1..Len(o) -> Keys]
  BY <1>1, <1>2 DEF Splice
<1>4. s \in Seq(Keys) /\ Len(s) = Len(o)
  BY <1>1, <1>3, IsASeq, LenProperties
<1>5. \A a, b \in 1..Len(o) : from(a) = from(b) => a = b
  BY <1>1
<1>6. \A j \in 1..Len(o) : \E m \in 1..Len(o) : from(m) = j
  <2> TAKE j \in 1..Len(o)
  <2>1. CASE j = i
    <3>1. 1 \in 1..Len(o) /\ from(1) = j   BY <2>1, <1>1
    <3> QED BY <3>1
  <2>2. CASE j < i
    <3>1. j + 1 \in 1..Len(o) /\ from(j + 1) = j   BY <2>2, <1>1
    <3> QED BY <3>1
  <2>3. CASE j > i
    <3>1. from(j) = j   BY <2>3, <1>1
    <3> QED BY <3>1
  <2> QED BY <2>1, <2>2, <2>3, <1>1
<1>7. \A k \in Keys : (\E j \in 1..Len(o) : o[j] = k) <=> (\E j \in 1..Len(o) : s[j] = k)
  <2> TAKE k \in Keys
  <2>1. ASSUME NEW j \in 1..Len(o), o[j] = k
        PROVE  \E m \in 1..Len(o) : s[m] = k
    BY <2>1, <1>2, <1>6
  <2>2. ASSUME NEW j \in 1..Len(o), s[j] = k
        PROVE  \E m \in 1..Len(o) : o[m] = k
    BY <2>2, <1>2
  <2> QED BY <2>1, <2>2
<1>8. (\A a, b \in 1..Len(o) : o[a] = o[b] => a = b)
        => (\A a, b \in 1..Len(o) : s[a] = s[b] => a = b)
  <2> HAVE \A a, b \in 1..Len(o) : o[a] = o[b] => a = b
  <2> TAKE a, b \in 1..Len(o)
  <2> HAVE s[a] = s[b]
  <2>1. from(a) = from(b)   BY <1>2, ZenonT(60)
  <2> QED BY <2>1, <1>5
<1> QED BY <1>4, <1>7, <1>8

(* A list that names every member of a set exactly once is as long as the   *)
(* set is large.                                                            *)
LEMMA EnumerationLemma ==
    ASSUME NEW o \in Seq(Keys), NEW T \in SUBSET Keys,
           \A k \in Keys : k \in T <=> \E j \in 1..Len(o) : o[j] = k,
           \A a, b \in 1..Len(o) : o[a] = o[b] => a = b
    PROVE  Cardinality(T) = Len(o)
<1>1. Len(o) \in Nat /\ (\A j \in 1..Len(o) : o[j] \in Keys) /\ DOMAIN o = 1..Len(o)
  BY ElementOfSeq, LenProperties
<1>2. IsFiniteSet(1..Len(o)) /\ Cardinality(1..Len(o)) = Len(o)
  <2>1. \A n \in Nat : IsFiniteSet(1..n) /\ Cardinality(1..n) = n
    BY FS_Interval
  <2> QED BY <2>1, <1>1
<1>3. o \in [1..Len(o) -> T]
  BY <1>1, IsASeq, LenProperties
<1>4. o \in Surjection(1..Len(o), T) /\ o \in Injection(1..Len(o), T)
  <2>1. \A k \in T : \E j \in 1..Len(o) : o[j] = k   OBVIOUS
  <2>2. o \in Injection(1..Len(o), T)   BY <1>3 DEF Injection, IsInjective
  <2>3. o \in Surjection(1..Len(o), T)   BY <1>3, <2>1 DEF Surjection
  <2> QED BY <2>2, <2>3
<1> QED BY <1>2, <1>4, FS_Surjection

-----------------------------------------------------------------------------
(* Inserting a block the cache does not hold keeps the list and the cache   *)
(* in step and within the bound, and brings in no other block.              *)
LEMMA InsertLemma ==
    ASSUME TypeOK, CacheInv, OrderMirrorsCache,
           NEW k \in Keys, ~Cached(k), Insert(k, k)
    PROVE  /\ block_cache_' \in [Keys -> Keys \cup {NoKey}]
           /\ block_cache_order_' \in Seq(Keys)
           /\ CacheInv' /\ OrderMirrorsCache'
           /\ \A x \in Keys : x # k /\ ~Cached(x) => ~Cached(x)'
           /\ \E out \in {{}} \cup {{x} : x \in CachedKeys} :
                CachedKeys' = (CachedKeys \ out) \cup {k}
           /\ Cardinality(CachedKeys') <= Capacity
<1> DEFINE old == block_cache_order_
           order == <<k>> \o old
           cache == [block_cache_ EXCEPT ![k] = IF Cached(k) THEN @ ELSE k]
           held == {x \in Keys : cache[x] # NoKey}
           n == Len(old)
<1>1. old \in Seq(Keys) /\ n \in Nat /\ \A i \in 1..n : old[i] \in Keys
  BY ElementOfSeq, LenProperties DEF TypeOK
<1>2. /\ order \in Seq(Keys) /\ Len(order) = n + 1
      /\ order[1] = k /\ \A i \in 2..(n + 1) : order[i] = old[i - 1]
  BY <1>1
<1>3. NoKey \notin Keys   BY SentinelAssumption
<1>4. cache \in [Keys -> Keys \cup {NoKey}] /\ \A x \in Keys : cache[x] = IF x = k THEN k ELSE block_cache_[x]
  BY DEF TypeOK, Cached
<1>5. \A x \in Keys : x \in held <=> \E i \in 1..Len(order) : order[i] = x
  <2> TAKE x \in Keys
  <2>1. CASE x = k
    <3>1. x \in held   BY <2>1, <1>3, <1>4
    <3>2. 1 \in 1..Len(order) /\ order[1] = x   BY <2>1, <1>1, <1>2
    <3> QED BY <3>1, <3>2
  <2>2. CASE x # k
    <3>1. x \in held <=> \E i \in 1..n : old[i] = x
      BY <2>2, <1>4 DEF OrderMirrorsCache, Cached
    <3>2. ASSUME NEW i \in 1..n, old[i] = x
          PROVE  \E j \in 1..Len(order) : order[j] = x
      <4>1. i + 1 \in 2..(n + 1) /\ (i + 1) - 1 = i   BY <1>1
      <4>2. order[i + 1] = x   BY <4>1, <3>2, <1>2
      <4>3. i + 1 \in 1..Len(order)   BY <4>1, <1>1, <1>2
      <4> QED BY <4>2, <4>3
    <3>3. ASSUME NEW j \in 1..Len(order), order[j] = x
          PROVE  \E i \in 1..n : old[i] = x
      <4>1. j # 1   BY <3>3, <2>2, <1>2
      <4>2. j \in 2..(n + 1) /\ j - 1 \in 1..n   BY <4>1, <1>1, <1>2
      <4> QED BY <4>2, <3>3, <1>2
    <3> QED BY <3>1, <3>2, <3>3
  <2> QED BY <2>1, <2>2
<1>6. \A a, b \in 1..Len(order) : order[a] = order[b] => a = b
  <2>1. \A i \in 1..n : old[i] # k
    BY DEF OrderMirrorsCache
  <2>2. \A i, j \in 1..n : old[i] = old[j] => i = j
    BY DEF OrderMirrorsCache
  <2>3. \A i \in 1..Len(order) : i = 1 \/ (i - 1 \in 1..n /\ order[i] = old[i - 1])
    BY <1>1, <1>2
  <2> TAKE a, b \in 1..Len(order)
  <2> HAVE order[a] = order[b]
  <2>4. CASE a = 1   BY <2>4, <2>1, <2>3, <1>2
  <2>5. CASE b = 1   BY <2>5, <2>1, <2>3, <1>2
  <2>6. CASE a # 1 /\ b # 1
    <3>1. a - 1 = b - 1   BY <2>6, <2>2, <2>3
    <3> QED BY <3>1, <1>1, <1>2
  <2> QED BY <2>4, <2>5, <2>6
<1>7. CASE ~(Cardinality(held) > Capacity)
  <2>1. block_cache_order_' = order /\ block_cache_' = cache
    BY <1>7 DEF Insert
  <2>2. Cardinality(held) = Len(order)
    BY <1>2, <1>5, <1>6, EnumerationLemma
  <2>3. Len(order) <= Capacity
    BY <1>1, <1>2, <1>7, <2>2, CapacityAssumption
  <2>4. CacheInv'   BY <2>1, <1>4 DEF CacheInv
  <2>5. \A x \in Keys : Cached(x)' <=> x \in held
    BY <2>1 DEF Cached
  <2>6. OrderMirrorsCache'
    BY <2>1, <2>3, <2>5, <1>5, <1>6 DEF OrderMirrorsCache
  <2>7. CachedKeys' = held /\ held = (CachedKeys \ {}) \cup {k}
    BY <2>1, <1>3, <1>4 DEF CachedKeys, Cached
  <2>8. Cardinality(CachedKeys') <= Capacity
    BY <2>2, <2>3, <2>7
  <2> QED BY <1>2, <1>4, <2>1, <2>4, <2>6, <2>7, <2>8 DEF Cached
<1>8. CASE Cardinality(held) > Capacity
  <2> DEFINE stale == order[n + 1]
             kept == SubSeq(order, 1, n)
  <2>1. block_cache_order_' = kept /\ block_cache_' = [cache EXCEPT ![stale] = NoKey]
    BY <1>1, <1>2, <1>8 DEF Insert
  <2>2. /\ kept \in Seq(Keys) /\ Len(kept) = n
        /\ \A i \in 1..n : kept[i] = order[i]
    BY <1>1, <1>2, SubSeqProperties
  <2>3. stale \in Keys   BY <1>1, <1>2, ElementOfSeq
  <2>4. n <= Capacity   BY DEF OrderMirrorsCache
  <2>5. \A x \in Keys : Cached(x)' <=> x \in held /\ x # stale
    BY <2>1, <2>3, <1>4 DEF Cached
  <2>6. \A x \in Keys : Cached(x)' <=> \E i \in 1..n : kept[i] = x
    <3> TAKE x \in Keys
    <3>1. ASSUME Cached(x)'
          PROVE  \E i \in 1..n : kept[i] = x
      <4>1. PICK i \in 1..Len(order) : order[i] = x   BY <3>1, <2>5, <1>5
      <4>2. i # n + 1   BY <4>1, <3>1, <2>5
      <4>3. i \in 1..n   BY <4>1, <4>2, <1>1, <1>2
      <4> QED BY <4>1, <4>3, <2>2
    <3>2. ASSUME NEW i \in 1..n, kept[i] = x
          PROVE  Cached(x)'
      <4>1. i \in 1..Len(order) /\ n + 1 \in 1..Len(order) /\ i # n + 1   BY <1>1, <1>2
      <4>2. order[i] = x   BY <3>2, <2>2
      <4>3. x # stale   BY <4>1, <4>2, <1>6
      <4> QED BY <4>1, <4>2, <4>3, <1>5, <2>5
    <3> QED BY <3>1, <3>2
  <2>7. \A a, b \in 1..n : kept[a] = kept[b] => a = b
    BY <2>2, <1>1, <1>2, <1>6
  <2>8. CacheInv'   BY <2>1, <2>3, <1>4 DEF CacheInv
  <2>9. OrderMirrorsCache'
    BY <2>1, <2>2, <2>4, <2>6, <2>7 DEF OrderMirrorsCache
  <2>10. n >= 1 /\ stale \in CachedKeys /\ stale # k
    <3>1. Cardinality(held) = n + 1
      BY <1>2, <1>5, <1>6, EnumerationLemma
    <3>2. n >= 1 /\ n \in 1..n   BY <3>1, <1>1, <1>8, CapacityAssumption
    <3>3. stale = old[n]   BY <3>2, <1>1, <1>2
    <3> QED BY <3>2, <3>3, <1>1 DEF OrderMirrorsCache, CachedKeys
  <2>11. CachedKeys' = (CachedKeys \ {stale}) \cup {k}
    BY <2>1, <2>3, <2>5, <2>10, <1>3, <1>4 DEF CachedKeys, Cached
  <2>12. Cardinality(CachedKeys') <= Capacity
    <3>1. \A x \in Keys : x \in CachedKeys' <=> \E i \in 1..n : kept[i] = x
      BY <2>6 DEF CachedKeys
    <3>2. CachedKeys' \in SUBSET Keys   BY DEF CachedKeys
    <3>3. Cardinality(CachedKeys') = n   BY <3>1, <3>2, <2>2, <2>7, EnumerationLemma
    <3> QED BY <3>3, <2>4
  <2>13. block_cache_' \in [Keys -> Keys \cup {NoKey}]
    BY <2>1, <2>3, <1>4
  <2>14. \A x \in Keys : x # k /\ ~Cached(x) => ~Cached(x)'
    BY <2>5, <1>4 DEF Cached
  <2>15. \E out \in {{}} \cup {{x} : x \in CachedKeys} : CachedKeys' = (CachedKeys \ out) \cup {k}
    <3>1. {stale} \in {{}} \cup {{x} : x \in CachedKeys}   BY <2>10
    <3> QED BY <3>1, <2>11
  <2> QED BY <2>1, <2>2, <2>8, <2>9, <2>12, <2>13, <2>14, <2>15
<1> QED BY <1>7, <1>8

(* A hit only reorders the list. *)
LEMMA HitLemma ==
    ASSUME TypeOK, OrderMirrorsCache, NEW k \in Keys, NEW i \in 1..Len(block_cache_order_),
           block_cache_order_' = Splice(block_cache_order_, i),
           block_cache_' = block_cache_
    PROVE  block_cache_order_' \in Seq(Keys) /\ OrderMirrorsCache'
<1> DEFINE o == block_cache_order_
<1>1. o \in Seq(Keys)   BY DEF TypeOK
<1>2. /\ Splice(o, i) \in Seq(Keys) /\ Len(Splice(o, i)) = Len(o)
      /\ \A x \in Keys : (\E j \in 1..Len(o) : o[j] = x)
                           <=> (\E j \in 1..Len(o) : Splice(o, i)[j] = x)
      /\ (\A a, b \in 1..Len(o) : o[a] = o[b] => a = b)
           => (\A a, b \in 1..Len(o) : Splice(o, i)[a] = Splice(o, i)[b] => a = b)
  BY <1>1, SpliceLemma
<1>3. \A x \in Keys : Cached(x)' <=> \E j \in 1..Len(o') : o'[j] = x
  BY <1>2 DEF OrderMirrorsCache, Cached
<1>4. \A a, b \in 1..Len(o') : o'[a] = o'[b] => a = b
  BY <1>2 DEF OrderMirrorsCache
<1>5. Len(o') <= Capacity
  BY <1>2 DEF OrderMirrorsCache
<1> QED BY <1>2, <1>3, <1>4, <1>5 DEF OrderMirrorsCache

-----------------------------------------------------------------------------
LEMMA InitInv == Init => IInv
<1> SUFFICES ASSUME Init PROVE IInv
  OBVIOUS
<1>1. TypeOK
  BY EmptySeq DEF Init, TypeOK, NewLoad, LoadState, States, OwnerStates
<1>2. OrderMirrorsCache
  BY CapacityAssumption, EmptySeq, SentinelAssumption DEF Init, OrderMirrorsCache, Cached
<1>3. \A t \in Threads : pc[t] = Idle /\ ~Owner(t)
  BY DEF Init, Owner, OwnerStates, Idle, Fetching, Installing, Withdrawing
<1>4. LocalsInv
  BY DEF Init, LocalsInv, Idle, Returned
<1>5. OwnersInv /\ OwnersDistinct /\ WaitersInv
  BY <1>3 DEF OwnersInv, OwnersDistinct, WaitersInv, Idle, Waiting
<1>6. LoadsHaveOwners /\ CacheInv
  BY DEF Init, LoadsHaveOwners, CacheInv
<1> QED BY <1>1, <1>2, <1>4, <1>5, <1>6 DEF IInv

(***************************************************************************)
(* The steps.  Each keeps every conjunct of IInv; the facts a step uses    *)
(* about the other threads are that an owner is the only one of its key    *)
(* and of its load.                                                        *)
(***************************************************************************)

(* What a step must leave alone for a thread to keep its part of IInv. *)
SameLocals(u) ==
    pc'[u] = pc[u] /\ key'[u] = key[u] /\ load_state'[u] = load_state[u] /\ answer'[u] = answer[u]

LEMMA OwnerFrame ==
    ASSUME NEW u \in Threads, OwnerInv(u), SameLocals(u),
           block_loads_'[key[u]] = block_loads_[key[u]],
           block_cache_'[key[u]] = block_cache_[key[u]],
           load'[load_state[u]] = load[load_state[u]]
    PROVE  OwnerInv(u)'
BY DEF OwnerInv, SameLocals

LEMMA WaiterFrame ==
    ASSUME NEW u \in Threads, WaiterInv(u), SameLocals(u),
           load'[load_state[u]] = load[load_state[u]],
           ~load[load_state[u]].done => block_loads_'[key[u]] = block_loads_[key[u]]
    PROVE  WaiterInv(u)'
BY DEF WaiterInv, SameLocals

(* The load of an owner is referred to by its waiters for the same key only. *)
LEMMA WaiterKey ==
    ASSUME IInv, NEW t \in Threads, Owner(t), NEW u \in Threads, pc[u] = Waiting,
           load_state[u] = load_state[t], ~load[load_state[u]].done
    PROVE  key[u] = key[t]
<1>1. key[u] \in Keys /\ load_state[u] \in Loads /\ block_loads_[key[u]] = load_state[u]
  BY DEF IInv, TypeOK, LocalsInv, WaitersInv, WaiterInv, Waiting, Idle, Returned
<1>2. PICK w \in Threads : Owner(w) /\ key[w] = key[u] /\ load_state[w] = load_state[u]
  BY <1>1, SentinelAssumption DEF IInv, LoadsHaveOwners
<1> QED BY <1>2 DEF IInv, OwnersDistinct

LEMMA HitInv ==
    ASSUME IInv, NEW t \in Threads, NEW k \in Keys, pc[t] = Idle,
           key' = [key EXCEPT ![t] = k], Hit(t, k)
    PROVE  IInv'
<1> USE DEF Idle, Waiting, Fetching, Installing, Withdrawing, Returned, OwnerStates, Owner
<1>1. PICK i \in 1..Len(block_cache_order_) : block_cache_order_' = Splice(block_cache_order_, i)
  BY DEF Hit
<1>2. block_cache_order_' \in Seq(Keys) /\ OrderMirrorsCache'
  BY <1>1, HitLemma DEF Hit, IInv
<1>3. block_cache_[k] = k
  BY DEF Hit, IInv, CacheInv, Cached
<1>4. TypeOK'
  BY <1>2, <1>3 DEF Hit, IInv, TypeOK, States
<1>5. LocalsInv'
  BY <1>3, SentinelAssumption DEF Hit, IInv, TypeOK, LocalsInv
<1>6. \A u \in Threads : u # t => SameLocals(u)
  BY DEF Hit, IInv, TypeOK, SameLocals
<1>7. pc'[t] = Returned
  BY DEF Hit, IInv, TypeOK
<1>8. block_cache_' = block_cache_ /\ block_loads_' = block_loads_ /\ load' = load
  BY DEF Hit
<1>9. OwnersInv'
  BY <1>6, <1>7, <1>8, OwnerFrame DEF IInv, OwnersInv, SameLocals
<1>10. WaitersInv'
  BY <1>6, <1>7, <1>8, WaiterFrame DEF IInv, WaitersInv, SameLocals
<1>11. OwnersDistinct'
  BY <1>6, <1>7 DEF IInv, OwnersDistinct, SameLocals
<1>12. LoadsHaveOwners' /\ CacheInv'
  BY <1>6, <1>8 DEF IInv, LoadsHaveOwners, CacheInv, SameLocals
<1> QED BY <1>2, <1>4, <1>5, <1>9, <1>10, <1>11, <1>12 DEF IInv

LEMMA JoinInv ==
    ASSUME IInv, NEW t \in Threads, NEW k \in Keys, pc[t] = Idle,
           key' = [key EXCEPT ![t] = k], Join(t, k)
    PROVE  IInv'
<1> USE DEF Idle, Waiting, Fetching, Installing, Withdrawing, Returned, OwnerStates, Owner
<1>1. PICK o \in Threads : Owner(o) /\ key[o] = k /\ load_state[o] = block_loads_[k]
  BY DEF Join, IInv, LoadsHaveOwners
<1>2. block_loads_[k] \in Loads
  BY DEF Join, IInv, TypeOK
<1> DEFINE l == block_loads_[k]
<1>3. load[l] \in {NewLoad, [done |-> TRUE, data |-> k], [done |-> TRUE, data |-> NoKey]}
  BY <1>1 DEF IInv, OwnersInv, OwnerInv
<1>4. ~load[l].done \/ (load[l].done /\ load[l].data \in {k, NoKey})
  BY <1>3 DEF NewLoad
<1>5. /\ UNCHANGED <<block_cache_, block_cache_order_, block_loads_, load>>
      /\ pc'[t] = Waiting /\ key'[t] = k /\ load_state'[t] = l
  BY DEF Join, IInv, TypeOK, cacheVars
<1>6. \A u \in Threads : u # t => SameLocals(u)
  BY DEF Join, IInv, TypeOK, SameLocals
<1>7. TypeOK' /\ OrderMirrorsCache' /\ CacheInv'
  BY <1>2, <1>5 DEF Join, IInv, TypeOK, States, OrderMirrorsCache, Cached, CacheInv
<1>8. LocalsInv'
  BY <1>2, SentinelAssumption DEF Join, IInv, TypeOK, LocalsInv
<1>9. OwnersInv'
  BY <1>5, <1>6, OwnerFrame DEF IInv, OwnersInv, SameLocals
<1>10. WaitersInv'
  <2>1. WaiterInv(t)'   BY <1>4, <1>5 DEF WaiterInv
  <2> QED BY <2>1, <1>5, <1>6, WaiterFrame DEF IInv, WaitersInv, SameLocals
<1>11. OwnersDistinct'
  BY <1>5, <1>6 DEF IInv, OwnersDistinct, SameLocals
<1>12. LoadsHaveOwners'
  BY <1>5, <1>6 DEF IInv, LoadsHaveOwners, SameLocals
<1> QED BY <1>7, <1>8, <1>9, <1>10, <1>11, <1>12 DEF IInv

LEMMA OwnInv ==
    ASSUME IInv, NEW t \in Threads, NEW k \in Keys, pc[t] = Idle,
           key' = [key EXCEPT ![t] = k], Own(t, k)
    PROVE  IInv'
<1> USE DEF Idle, Waiting, Fetching, Installing, Withdrawing, Returned, OwnerStates, Owner
<1>1. PICK l \in Loads :
        /\ ~Referenced(l)
        /\ load' = [load EXCEPT ![l] = NewLoad]
        /\ block_loads_' = [block_loads_ EXCEPT ![k] = l]
        /\ load_state' = [load_state EXCEPT ![t] = l]
  BY DEF Own
<1>2. \A u \in Threads : load_state[u] # l
  BY <1>1 DEF Referenced
<1>3. TypeOK' /\ OrderMirrorsCache' /\ CacheInv'
  BY <1>1 DEF Own, IInv, TypeOK, States, NewLoad, LoadState, cacheVars, OrderMirrorsCache, Cached, CacheInv
<1>4. LocalsInv'
  BY <1>1, SentinelAssumption DEF Own, IInv, TypeOK, LocalsInv
<1>5. \A u \in Threads : u # t => SameLocals(u)
  BY <1>1 DEF Own, IInv, TypeOK, SameLocals
<1>6. /\ pc'[t] = Fetching /\ key'[t] = k /\ load_state'[t] = l
      /\ block_loads_'[k] = l /\ load'[l] = NewLoad
      /\ block_cache_' = block_cache_ /\ block_cache_[k] = NoKey
  BY <1>1 DEF Own, IInv, TypeOK, cacheVars, Cached
<1>7. \A u \in Threads : pc[u] \notin {Idle, Returned} => load_state[u] \in Loads /\ key[u] \in Keys
  BY DEF IInv, TypeOK, LocalsInv
<1>8. \A u \in Threads : pc[u] \notin {Idle, Returned} => load'[load_state[u]] = load[load_state[u]]
  BY <1>1, <1>2, <1>7 DEF IInv, TypeOK
<1>9. \A u \in Threads : pc[u] \notin {Idle, Returned} /\ block_loads_[key[u]] = load_state[u]
        => key[u] # k /\ block_loads_'[key[u]] = block_loads_[key[u]]
  BY <1>1, <1>7, SentinelAssumption DEF Own, IInv, TypeOK
<1>10. OwnersInv'
  <2>1. OwnerInv(t)'   BY <1>6 DEF OwnerInv
  <2>2. ASSUME NEW u \in Threads, u # t, Owner(u)'
        PROVE  OwnerInv(u)'
    <3>1. Owner(u) /\ OwnerInv(u) /\ SameLocals(u)
      BY <2>2, <1>5 DEF SameLocals, IInv, OwnersInv
    <3>2. block_loads_'[key[u]] = block_loads_[key[u]] /\ load'[load_state[u]] = load[load_state[u]]
      BY <3>1, <1>8, <1>9 DEF OwnerInv
    <3>3. block_cache_'[key[u]] = block_cache_[key[u]]   BY <1>6
    <3> QED BY <3>1, <3>2, <3>3, OwnerFrame
  <2> QED BY <2>1, <2>2 DEF OwnersInv
<1>11. WaitersInv'
  <2> SUFFICES ASSUME NEW u \in Threads, pc'[u] = Waiting PROVE WaiterInv(u)'
    BY DEF WaitersInv
  <2>1. pc[u] = Waiting /\ WaiterInv(u) /\ SameLocals(u)
    BY <1>5, <1>6 DEF SameLocals, IInv, WaitersInv
  <2>2. ~load[load_state[u]].done => block_loads_'[key[u]] = block_loads_[key[u]]
    BY <2>1, <1>9 DEF WaiterInv
  <2> QED BY <2>1, <2>2, <1>8, WaiterFrame
<1>12. OwnersDistinct'
  <2>1. \A u \in Threads : Owner(u) => key[u] # k
    BY <1>9 DEF IInv, OwnersInv, OwnerInv
  <2> QED BY <2>1, <1>2, <1>5, <1>6 DEF IInv, OwnersDistinct, SameLocals
<1>13. LoadsHaveOwners'
  <2> SUFFICES ASSUME NEW x \in Keys, block_loads_'[x] # NoLoad
               PROVE  \E u \in Threads : Owner(u)' /\ key'[u] = x /\ load_state'[u] = block_loads_'[x]
    BY DEF LoadsHaveOwners
  <2>1. CASE x = k   BY <2>1, <1>6
  <2>2. CASE x # k
    <3>1. block_loads_'[x] = block_loads_[x]   BY <2>2, <1>1 DEF IInv, TypeOK
    <3>2. PICK u \in Threads : Owner(u) /\ key[u] = x /\ load_state[u] = block_loads_[x]
      BY <3>1 DEF IInv, LoadsHaveOwners
    <3> QED BY <3>1, <3>2, <1>5 DEF SameLocals
  <2> QED BY <2>1, <2>2
<1> QED BY <1>3, <1>4, <1>10, <1>11, <1>12, <1>13 DEF IInv

(* Steps that end a call without an owner, or take its result: the map, the *)
(* loads and the cache stay, and the thread's place is none that IInv's     *)
(* other parts speak of.                                                    *)
LEMMA QuietInv ==
    ASSUME IInv, NEW t \in Threads, ~Owner(t), pc'[t] \in {Idle, Returned},
           UNCHANGED <<block_cache_, block_cache_order_, block_loads_, load>>,
           \A u \in Threads : u # t => SameLocals(u)
    PROVE  OwnersInv' /\ OwnersDistinct' /\ WaitersInv' /\ LoadsHaveOwners' /\ CacheInv' /\ OrderMirrorsCache'
<1> USE DEF Idle, Waiting, Fetching, Installing, Withdrawing, Returned, OwnerStates, Owner
<1>1. OwnersInv'
  BY OwnerFrame DEF IInv, OwnersInv, SameLocals
<1>2. WaitersInv'
  BY WaiterFrame DEF IInv, WaitersInv, SameLocals
<1>3. OwnersDistinct'
  BY DEF IInv, OwnersDistinct, SameLocals
<1>4. LoadsHaveOwners'
  BY DEF IInv, LoadsHaveOwners, SameLocals
<1>5. CacheInv' /\ OrderMirrorsCache'
  BY DEF IInv, CacheInv, OrderMirrorsCache, Cached
<1> QED BY <1>1, <1>2, <1>3, <1>4, <1>5

LEMMA WakeInv ==
    ASSUME IInv, NEW t \in Threads, Wake(t)
    PROVE  IInv'
<1> USE DEF Idle, Waiting, Fetching, Installing, Withdrawing, Returned, OwnerStates, Owner
<1>1. load_state[t] \in Loads /\ key[t] \in Keys /\ load[load_state[t]].data \in {key[t], NoKey}
  BY DEF Wake, IInv, TypeOK, LocalsInv, WaitersInv, WaiterInv
<1>2. TypeOK'
  BY <1>1 DEF Wake, IInv, TypeOK, States, cacheVars
<1>3. LocalsInv'
  BY <1>1, SentinelAssumption DEF Wake, IInv, TypeOK, LocalsInv
<1>4. \A u \in Threads : u # t => SameLocals(u)
  BY DEF Wake, IInv, TypeOK, SameLocals
<1>5. ~Owner(t) /\ pc'[t] = Returned
  BY DEF Wake, IInv, TypeOK
<1> QED BY <1>2, <1>3, <1>4, <1>5, QuietInv DEF Wake, cacheVars, IInv

LEMMA ReturnInv ==
    ASSUME IInv, NEW t \in Threads, Return(t)
    PROVE  IInv'
<1> USE DEF Idle, Waiting, Fetching, Installing, Withdrawing, Returned, OwnerStates, Owner
<1>1. TypeOK'
  BY DEF Return, IInv, TypeOK, States, cacheVars
<1>2. LocalsInv'
  BY SentinelAssumption DEF Return, IInv, TypeOK, LocalsInv
<1>3. \A u \in Threads : u # t => SameLocals(u)
  BY DEF Return, IInv, TypeOK, SameLocals
<1>4. ~Owner(t) /\ pc'[t] = Idle
  BY DEF Return, IInv, TypeOK
<1> QED BY <1>1, <1>2, <1>3, <1>4, QuietInv DEF Return, cacheVars, IInv

(* Publishing a result: the owner's load is done, with the data of its key  *)
(* or without any; its waiters asked for that key.                          *)
LEMMA PublishInv ==
    ASSUME IInv, NEW t \in Threads, pc[t] = Fetching,
           NEW d \in {key[t], NoKey}, NEW p \in {Installing, Withdrawing},
           p = Installing => d = key[t], p = Withdrawing => d = NoKey,
           load' = [load EXCEPT ![load_state[t]] = [done |-> TRUE, data |-> d]],
           pc' = [pc EXCEPT ![t] = p],
           UNCHANGED <<cacheVars, block_loads_, key, load_state, answer>>
    PROVE  IInv'
<1> USE DEF Idle, Waiting, Fetching, Installing, Withdrawing, Returned, OwnerStates, Owner
<1>1. /\ load_state[t] \in Loads /\ key[t] \in Keys
      /\ load[load_state[t]] = NewLoad /\ OwnerInv(t)
  BY DEF IInv, TypeOK, LocalsInv, OwnersInv, OwnerInv
<1>2. TypeOK'
  BY <1>1 DEF IInv, TypeOK, States, LoadState, cacheVars
<1>3. LocalsInv'
  BY DEF IInv, TypeOK, LocalsInv
<1>4. \A u \in Threads : u # t => SameLocals(u)
  BY DEF IInv, TypeOK, SameLocals
<1>5. /\ pc'[t] = p /\ load'[load_state[t]] = [done |-> TRUE, data |-> d]
      /\ UNCHANGED <<block_cache_, block_cache_order_, block_loads_, key, load_state>>
  BY <1>1 DEF IInv, TypeOK, cacheVars
<1>6. \A l \in Loads : l # load_state[t] => load'[l] = load[l]
  BY DEF IInv, TypeOK
<1>7. OwnersInv'
  <2>1. OwnerInv(t)'
    BY <1>1, <1>5 DEF OwnerInv
  <2>2. ASSUME NEW u \in Threads, u # t, Owner(u)'
        PROVE  OwnerInv(u)'
    <3>1. Owner(u) /\ OwnerInv(u) /\ SameLocals(u)
      BY <2>2, <1>4 DEF SameLocals, IInv, OwnersInv
    <3>2. load_state[u] \in Loads /\ load_state[u] # load_state[t]
      BY <2>2, <3>1 DEF IInv, TypeOK, LocalsInv, OwnersDistinct
    <3> QED BY <3>1, <3>2, <1>5, <1>6, OwnerFrame
  <2> QED BY <2>1, <2>2 DEF OwnersInv
<1>8. WaitersInv'
  <2> SUFFICES ASSUME NEW u \in Threads, pc'[u] = Waiting PROVE WaiterInv(u)'
    BY DEF WaitersInv
  <2>1. u # t /\ pc[u] = Waiting /\ WaiterInv(u) /\ SameLocals(u) /\ load_state[u] \in Loads
    BY <1>4, <1>5 DEF SameLocals, IInv, WaitersInv, TypeOK, LocalsInv
  <2>2. CASE load_state[u] = load_state[t]
    <3>1. ~load[load_state[u]].done   BY <2>2, <1>1 DEF NewLoad
    <3>2. key[u] = key[t]   BY <3>1, <2>1, <2>2, WaiterKey
    <3> QED BY <3>2, <2>1, <2>2, <1>5 DEF WaiterInv, SameLocals
  <2>3. CASE load_state[u] # load_state[t]
    BY <2>1, <2>3, <1>5, <1>6, WaiterFrame
  <2> QED BY <2>2, <2>3
<1>9. OwnersDistinct'
  BY <1>4, <1>5 DEF IInv, OwnersDistinct, SameLocals
<1>10. LoadsHaveOwners'
  <2>1. \A u \in Threads : Owner(u) => Owner(u)'
    BY <1>4, <1>5 DEF SameLocals
  <2> QED BY <2>1, <1>5 DEF IInv, LoadsHaveOwners
<1>11. CacheInv' /\ OrderMirrorsCache'
  BY <1>5 DEF IInv, CacheInv, OrderMirrorsCache, Cached
<1> QED BY <1>2, <1>3, <1>7, <1>8, <1>9, <1>10, <1>11 DEF IInv

(* The owner erases its load and returns.  Its load is done, so no waiter   *)
(* counts on the map entry any more.                                        *)
LEMMA LeaveInv ==
    ASSUME IInv, NEW t \in Threads, pc[t] \in {Installing, Withdrawing}, Leave(t),
           UNCHANGED <<load, key>>,
           NEW d \in {key[t], NoKey}, answer' = [answer EXCEPT ![t] = d],
           block_cache_' \in [Keys -> Keys \cup {NoKey}], block_cache_order_' \in Seq(Keys),
           CacheInv', OrderMirrorsCache',
           \A x \in Keys : x # key[t] /\ block_cache_[x] = NoKey => block_cache_'[x] = NoKey
    PROVE  IInv'
<1> USE DEF Idle, Waiting, Fetching, Installing, Withdrawing, Returned, OwnerStates, Owner
<1>1. /\ load_state[t] \in Loads /\ key[t] \in Keys /\ block_loads_[key[t]] = load_state[t]
      /\ load[load_state[t]].done
  <2>1. load_state[t] \in Loads /\ key[t] \in Keys /\ OwnerInv(t)
    BY DEF IInv, TypeOK, LocalsInv, OwnersInv
  <2>2. \E x : load[load_state[t]] = [done |-> TRUE, data |-> x]
    BY <2>1 DEF OwnerInv
  <2> QED BY <2>1, <2>2 DEF OwnerInv
<1>2. TypeOK'
  BY <1>1 DEF Leave, IInv, TypeOK, States
<1>3. LocalsInv'
  BY SentinelAssumption DEF Leave, IInv, TypeOK, LocalsInv
<1>4. \A u \in Threads : u # t => SameLocals(u)
  BY DEF Leave, IInv, TypeOK, SameLocals
<1>5. /\ pc'[t] = Returned /\ block_loads_'[key[t]] = NoLoad
      /\ \A x \in Keys : x # key[t] => block_loads_'[x] = block_loads_[x]
  BY <1>1 DEF Leave, IInv, TypeOK
<1>6. OwnersInv'
  <2> SUFFICES ASSUME NEW u \in Threads, Owner(u)' PROVE OwnerInv(u)'
    BY DEF OwnersInv
  <2>1. u # t /\ Owner(u) /\ OwnerInv(u) /\ SameLocals(u) /\ key[u] \in Keys
    BY <1>4, <1>5 DEF SameLocals, IInv, OwnersInv, LocalsInv
  <2>2. key[u] # key[t]   BY <2>1 DEF IInv, OwnersDistinct
  <2>3. block_cache_'[key[u]] = block_cache_[key[u]]   BY <2>1, <2>2 DEF OwnerInv
  <2> QED BY <2>1, <2>2, <2>3, <1>5, OwnerFrame
<1>7. WaitersInv'
  <2> SUFFICES ASSUME NEW u \in Threads, pc'[u] = Waiting PROVE WaiterInv(u)'
    BY DEF WaitersInv
  <2>1. u # t /\ pc[u] = Waiting /\ WaiterInv(u) /\ SameLocals(u) /\ key[u] \in Keys
    BY <1>4, <1>5 DEF SameLocals, IInv, WaitersInv, LocalsInv
  <2>2. ~load[load_state[u]].done => key[u] # key[t]
    BY <2>1, <1>1 DEF WaiterInv
  <2> QED BY <2>1, <2>2, <1>5, WaiterFrame
<1>8. OwnersDistinct'
  BY <1>4, <1>5 DEF IInv, OwnersDistinct, SameLocals
<1>9. LoadsHaveOwners'
  <2> SUFFICES ASSUME NEW x \in Keys, block_loads_'[x] # NoLoad
               PROVE  \E u \in Threads : Owner(u)' /\ key'[u] = x /\ load_state'[u] = block_loads_'[x]
    BY DEF LoadsHaveOwners
  <2>1. x # key[t] /\ block_loads_'[x] = block_loads_[x]   BY <1>5
  <2>2. PICK u \in Threads : Owner(u) /\ key[u] = x /\ load_state[u] = block_loads_[x]
    BY <2>1 DEF IInv, LoadsHaveOwners
  <2> QED BY <2>1, <2>2, <1>4 DEF SameLocals
<1> QED BY <1>2, <1>3, <1>6, <1>7, <1>8, <1>9 DEF IInv

LEMMA InstallInv ==
    ASSUME IInv, NEW t \in Threads, Install(t)
    PROVE  IInv'
<1>1. key[t] \in Keys /\ block_cache_[key[t]] = NoKey /\ load[load_state[t]].data = key[t]
  <2>1. key[t] \in Keys /\ Owner(t)
    BY DEF Install, IInv, LocalsInv, Owner, OwnerStates, Installing, Idle
  <2>2. /\ block_cache_[key[t]] = NoKey
        /\ load[load_state[t]] = [done |-> TRUE, data |-> key[t]]
    BY <2>1 DEF Install, IInv, OwnersInv, OwnerInv
  <2> QED BY <2>1, <2>2
<1>2. Insert(key[t], key[t])
  BY <1>1 DEF Install
<1>3. /\ block_cache_' \in [Keys -> Keys \cup {NoKey}] /\ block_cache_order_' \in Seq(Keys)
      /\ CacheInv' /\ OrderMirrorsCache'
      /\ \A x \in Keys : x # key[t] /\ ~Cached(x) => ~Cached(x)'
  BY <1>1, <1>2, InsertLemma DEF IInv, Cached
<1>4. \A x \in Keys : x # key[t] /\ block_cache_[x] = NoKey => block_cache_'[x] = NoKey
  BY <1>3 DEF Cached
<1> QED BY <1>1, <1>3, <1>4, LeaveInv DEF Install

LEMMA WithdrawInv ==
    ASSUME IInv, NEW t \in Threads, Withdraw(t)
    PROVE  IInv'
<1>1. /\ block_cache_' = block_cache_ /\ block_cache_order_' = block_cache_order_
      /\ CacheInv' /\ OrderMirrorsCache'
  BY DEF Withdraw, IInv, cacheVars, CacheInv, OrderMirrorsCache, Cached
<1>2. block_cache_' \in [Keys -> Keys \cup {NoKey}] /\ block_cache_order_' \in Seq(Keys)
  BY <1>1 DEF IInv, TypeOK
<1> QED BY <1>1, <1>2, LeaveInv DEF Withdraw

-----------------------------------------------------------------------------
LEMMA NextInv == IInv /\ [Next]_vars => IInv'
<1> SUFFICES ASSUME IInv, [Next]_vars PROVE IInv'
  OBVIOUS
<1>1. ASSUME NEW t \in Threads, NEW k \in Keys, Ask(t, k) PROVE IInv'
  BY <1>1, HitInv, JoinInv, OwnInv DEF Ask
<1>2. ASSUME NEW t \in Threads, LoadStep(t) PROVE IInv'
  <2>1. CASE Wake(t)   BY <2>1, WakeInv
  <2>2. CASE FetchSucceeds(t)
    <3>1. key[t] \in {key[t], NoKey} /\ Installing \in {Installing, Withdrawing} /\ Installing # Withdrawing
      BY DEF Installing, Withdrawing
    <3> QED BY <2>2, <3>1, PublishInv DEF FetchSucceeds
  <2>3. CASE FetchFails(t)
    <3>1. Withdrawing \in {Installing, Withdrawing} /\ Installing # Withdrawing
      BY DEF Installing, Withdrawing
    <3> QED BY <2>3, <3>1, PublishInv DEF FetchFails
  <2>4. CASE Install(t)    BY <2>4, InstallInv
  <2>5. CASE Withdraw(t)   BY <2>5, WithdrawInv
  <2> QED BY <1>2, <2>1, <2>2, <2>3, <2>4, <2>5 DEF LoadStep
<1>3. ASSUME NEW t \in Threads, Return(t) PROVE IInv'
  BY <1>3, ReturnInv
<1>4. CASE UNCHANGED vars
  BY <1>4 DEF vars, threadVars, IInv, TypeOK, LocalsInv, OwnersInv, OwnerInv, OwnersDistinct,
     WaitersInv, WaiterInv, LoadsHaveOwners, CacheInv, OrderMirrorsCache, Cached, Owner
<1> QED BY <1>1, <1>2, <1>3, <1>4 DEF Next

(* The inductive invariant holds in every reachable state. *)
THEOREM Inductive == Spec => []IInv
<1> QED BY InitInv, NextInv, PTL DEF Spec

(* Every variable of the loader keeps its type. *)
THEOREM TypeCorrect == Spec => []TypeOK
<1>1. IInv => TypeOK   BY DEF IInv
<1> QED BY <1>1, Inductive, PTL

(* A block is downloaded by one thread at a time, never while it is cached, *)
(* for any number of threads, keys and cache entries.                       *)
THEOREM SingleFlightHolds == Spec => []SingleFlight
<1>1. IInv => SingleFlight
  BY DEF IInv, SingleFlight, OwnersInv, OwnerInv, OwnersDistinct, Cached
<1> QED BY <1>1, Inductive, PTL

(* The LRU list mirrors the cache and both respect the bound, for any       *)
(* capacity.                                                                *)
THEOREM OrderMirrorsCacheHolds == Spec => []OrderMirrorsCache
<1>1. IInv => OrderMirrorsCache   BY DEF IInv
<1> QED BY <1>1, Inductive, PTL

(* No failed or finished load stays in the map after its owner's call.      *)
THEOREM LoadsHaveOwnersHolds == Spec => []LoadsHaveOwners
<1>1. IInv => LoadsHaveOwners   BY DEF IInv
<1> QED BY <1>1, Inductive, PTL

(* Every waiter's load is done or still has its fetching owner.             *)
THEOREM WaitersAreServedHolds == Spec => []WaitersAreServed
<1>1. IInv => WaitersAreServed
  <2> SUFFICES ASSUME IInv, NEW t \in Threads, pc[t] = Waiting, ~load[load_state[t]].done
               PROVE  \E u \in Threads : pc[u] = Fetching /\ load_state[u] = load_state[t]
    BY DEF WaitersAreServed
  <2>1. key[t] \in Keys /\ load_state[t] \in Loads /\ block_loads_[key[t]] = load_state[t]
    BY DEF IInv, TypeOK, LocalsInv, WaitersInv, WaiterInv, Waiting, Idle, Returned
  <2>2. PICK u \in Threads : Owner(u) /\ load_state[u] = load_state[t]
    BY <2>1, SentinelAssumption DEF IInv, LoadsHaveOwners
  <2>3. \A x : load[load_state[u]] # [done |-> TRUE, data |-> x]
    BY <2>2
  <2>4. pc[u] = Fetching
    BY <2>2, <2>3 DEF IInv, OwnersInv, OwnerInv, Owner, OwnerStates
  <2> QED BY <2>2, <2>4
<1> QED BY <1>1, Inductive, PTL

(* A call that returns data returns the data of the key it asked for.       *)
THEOREM AnswersMatchHolds == Spec => []AnswersMatch
<1>1. IInv => AnswersMatch   BY DEF IInv, LocalsInv, AnswersMatch
<1> QED BY <1>1, Inductive, PTL

-----------------------------------------------------------------------------
(***************************************************************************)
(* Refinement: the loader implements BlockFetch.                           *)
(***************************************************************************)
LEMMA FetchInit == Init => Fetch!Init
<1> SUFFICES ASSUME Init PROVE Fetch!Init
  OBVIOUS
<1>1. CachedKeys = {}
  BY DEF Init, CachedKeys, Cached
<1>2. Downloads = [k \in Keys |-> "none"]
  BY DEF Init, Downloads
<1>3. Outcomes = [t \in Threads |-> "none"]
  BY DEF Init, Outcomes, Idle
<1> QED BY <1>1, <1>2, <1>3 DEF Init, Fetch!Init, Fetch!None, Fetch!NoKey, NoKey

(* A step that leaves the map and the loads alone leaves the downloads      *)
(* alone, and the outcome of every call but the one it moves.               *)
LEMMA OutcomeFrame ==
    ASSUME NEW u \in Threads, SameLocals(u),
           pc[u] \notin {Idle, Returned} => load'[load_state[u]] = load[load_state[u]]
    PROVE  Outcomes'[u] = Outcomes[u]
BY DEF Outcomes, LoadOutcome, SameLocals, Idle, Returned

LEMMA DownloadsFrame ==
    ASSUME UNCHANGED <<block_loads_, load>>
    PROVE  Downloads' = Downloads
BY DEF Downloads, LoadOutcome

LEMMA CachedFrame ==
    ASSUME UNCHANGED block_cache_
    PROVE  CachedKeys' = CachedKeys
BY DEF CachedKeys, Cached

(* Two outcome functions that agree but at one thread. *)
LEMMA OutcomesExcept ==
    ASSUME NEW t \in Threads, NEW o, Outcomes'[t] = o,
           \A u \in Threads : u # t => Outcomes'[u] = Outcomes[u]
    PROVE  Outcomes' = [Outcomes EXCEPT ![t] = o]
BY DEF Outcomes

LEMMA FetchHit ==
    ASSUME IInv, NEW t \in Threads, NEW k \in Keys, pc[t] = Idle,
           key' = [key EXCEPT ![t] = k], Hit(t, k)
    PROVE  Fetch!Ask(t, k)
<1>1. k \in CachedKeys /\ block_cache_[k] \in Keys
  BY DEF Hit, CachedKeys, IInv, TypeOK, Cached
<1>2. Outcomes[t] = "none"
  BY DEF Outcomes
<1>3. Outcomes'[t] = "ok"
  BY <1>1, SentinelAssumption DEF Hit, IInv, TypeOK, Outcomes, Idle, Returned
<1>4. \A u \in Threads : u # t => SameLocals(u)
  BY DEF Hit, IInv, TypeOK, SameLocals
<1>5. UNCHANGED <<block_cache_, block_loads_, load>>
  BY DEF Hit
<1>6. Outcomes' = [Outcomes EXCEPT ![t] = "ok"]
  BY <1>3, <1>4, <1>5, OutcomeFrame, OutcomesExcept
<1>7. CachedKeys' = CachedKeys /\ Downloads' = Downloads
  BY <1>5, CachedFrame, DownloadsFrame
<1> QED BY <1>1, <1>2, <1>6, <1>7 DEF Fetch!Ask, Fetch!None, Fetch!Ok

LEMMA FetchJoin ==
    ASSUME IInv, NEW t \in Threads, NEW k \in Keys, pc[t] = Idle,
           key' = [key EXCEPT ![t] = k], Join(t, k)
    PROVE  Fetch!Ask(t, k)
<1>1. k \notin CachedKeys /\ Downloads[k] = LoadOutcome(block_loads_[k])
  BY DEF Join, CachedKeys, Downloads
<1>2. Outcomes[t] = "none"
  BY DEF Outcomes
<1>3. UNCHANGED <<block_cache_, block_loads_, load>>
  BY DEF Join, cacheVars
<1>4. Outcomes'[t] = Downloads[k]
  <2>1. pc'[t] = Waiting /\ load_state'[t] = block_loads_[k]
    BY DEF Join, IInv, TypeOK
  <2> QED BY <2>1, <1>1, <1>3 DEF Outcomes, LoadOutcome, Waiting, Idle, Returned
<1>5. \A u \in Threads : u # t => SameLocals(u)
  BY DEF Join, IInv, TypeOK, SameLocals
<1>6. Outcomes' = [Outcomes EXCEPT ![t] = Downloads[k]]
  BY <1>3, <1>4, <1>5, OutcomeFrame, OutcomesExcept
<1>7. CachedKeys' = CachedKeys /\ Downloads' = Downloads
  BY <1>3, CachedFrame, DownloadsFrame
<1>8. Downloads[k] # "none"
  BY <1>1 DEF LoadOutcome
<1> QED BY <1>1, <1>2, <1>6, <1>7, <1>8 DEF Fetch!Ask, Fetch!None

LEMMA FetchOwn ==
    ASSUME IInv, NEW t \in Threads, NEW k \in Keys, pc[t] = Idle,
           key' = [key EXCEPT ![t] = k], Own(t, k)
    PROVE  Fetch!Ask(t, k)
<1>1. PICK l \in Loads :
        /\ ~Referenced(l)
        /\ load' = [load EXCEPT ![l] = NewLoad]
        /\ block_loads_' = [block_loads_ EXCEPT ![k] = l]
        /\ load_state' = [load_state EXCEPT ![t] = l]
  BY DEF Own
<1>2. k \notin CachedKeys /\ Downloads[k] = "none" /\ Outcomes[t] = "none"
  BY DEF Own, CachedKeys, Downloads, Outcomes
<1>3. load'[l] = NewLoad /\ \A m \in Loads : m # l => load'[m] = load[m]
  BY <1>1 DEF IInv, TypeOK
<1>4. Outcomes'[t] = "pending"
  <2>1. pc'[t] = Fetching /\ load_state'[t] = l
    BY <1>1 DEF Own, IInv, TypeOK
  <2> QED BY <2>1, <1>3 DEF Outcomes, LoadOutcome, NewLoad, Fetching, Idle, Returned
<1>5. \A u \in Threads : u # t => SameLocals(u)
  BY <1>1 DEF Own, IInv, TypeOK, SameLocals
<1>6. \A u \in Threads : pc[u] \notin {Idle, Returned} => load'[load_state[u]] = load[load_state[u]]
  BY <1>1, <1>3 DEF Referenced, IInv, TypeOK, LocalsInv
<1>7. Outcomes' = [Outcomes EXCEPT ![t] = "pending"]
  BY <1>4, <1>5, <1>6, OutcomeFrame, OutcomesExcept
<1>8. Downloads' = [Downloads EXCEPT ![k] = "pending"]
  <2>1. block_loads_'[k] = l /\ l # NoLoad
    BY <1>1, SentinelAssumption DEF IInv, TypeOK
  <2>2. Downloads'[k] = "pending"
    BY <2>1, <1>3 DEF Downloads, LoadOutcome, NewLoad
  <2>3. ASSUME NEW x \in Keys, x # k PROVE Downloads'[x] = Downloads[x]
    <3>1. block_loads_'[x] = block_loads_[x]   BY <2>3, <1>1 DEF IInv, TypeOK
    <3>2. block_loads_[x] # NoLoad => block_loads_[x] \in Loads /\ block_loads_[x] # l
      BY <1>1 DEF Referenced, IInv, TypeOK
    <3> QED BY <3>1, <3>2, <1>3 DEF Downloads, LoadOutcome
  <2> QED BY <2>2, <2>3 DEF Downloads
<1>9. CachedKeys' = CachedKeys
  BY CachedFrame DEF Own, cacheVars
<1> QED BY <1>2, <1>7, <1>8, <1>9 DEF Fetch!Ask, Fetch!None, Fetch!Pending

LEMMA FetchWake ==
    ASSUME IInv, NEW t \in Threads, Wake(t)
    PROVE  UNCHANGED Fetch!vars
<1>1. UNCHANGED <<block_cache_, block_loads_, load, key>>
  BY DEF Wake, cacheVars
<1>2. \A u \in Threads : u # t => SameLocals(u)
  BY DEF Wake, IInv, TypeOK, SameLocals
<1>3. Outcomes'[t] = Outcomes[t]
  <2>1. pc[t] = Waiting /\ pc'[t] = Returned /\ answer'[t] = load[load_state[t]].data
    BY DEF Wake, IInv, TypeOK
  <2>2. load[load_state[t]].done
    BY DEF Wake
  <2> QED BY <2>1, <2>2 DEF Outcomes, LoadOutcome, Waiting, Idle, Returned
<1>4. Outcomes' = [Outcomes EXCEPT ![t] = Outcomes[t]]
  BY <1>1, <1>2, <1>3, OutcomeFrame, OutcomesExcept
<1>5. Outcomes' = Outcomes
  BY <1>4 DEF Outcomes
<1>6. CachedKeys' = CachedKeys /\ Downloads' = Downloads
  BY <1>1, CachedFrame, DownloadsFrame
<1> QED BY <1>1, <1>5, <1>6 DEF Fetch!vars

LEMMA FetchReturn ==
    ASSUME IInv, NEW t \in Threads, Return(t)
    PROVE  Fetch!Return(t)
<1>1. UNCHANGED <<block_cache_, block_loads_, load>>
  BY DEF Return, cacheVars
<1>2. \A u \in Threads : u # t => SameLocals(u)
  BY DEF Return, IInv, TypeOK, SameLocals
<1>3. Outcomes'[t] = "none"
  <2>1. pc'[t] = Idle   BY DEF Return, IInv, TypeOK
  <2> QED BY <2>1 DEF Outcomes
<1>4. Outcomes' = [Outcomes EXCEPT ![t] = "none"]
  BY <1>1, <1>2, <1>3, OutcomeFrame, OutcomesExcept
<1>5. Outcomes[t] \in {"ok", "failed"}
  BY DEF Return, Outcomes, Returned, Idle
<1>6. CachedKeys' = CachedKeys /\ Downloads' = Downloads
  BY <1>1, CachedFrame, DownloadsFrame
<1>7. key' = [key EXCEPT ![t] = NoKey]
  BY DEF Return
<1> QED BY <1>4, <1>5, <1>6, <1>7 DEF Fetch!Return, Fetch!Ok, Fetch!Failed, Fetch!None, Fetch!NoKey, NoKey

(* Publishing settles exactly the calls that are pending on the owner's key: *)
(* the waiters of its load are all of them, because no other load of that    *)
(* key is pending.                                                           *)
LEMMA FetchPublish ==
    ASSUME IInv, NEW t \in Threads, pc[t] = Fetching,
           NEW d \in {key[t], NoKey}, NEW p \in {Installing, Withdrawing},
           load' = [load EXCEPT ![load_state[t]] = [done |-> TRUE, data |-> d]],
           pc' = [pc EXCEPT ![t] = p],
           UNCHANGED <<cacheVars, block_loads_, key, load_state, answer>>
    PROVE  Fetch!Settle(key[t], IF d = NoKey THEN "failed" ELSE "ok")
<1> DEFINE l == load_state[t]
           k == key[t]
           o == IF d = NoKey THEN "failed" ELSE "ok"
<1> USE DEF Idle, Waiting, Fetching, Installing, Withdrawing, Returned, OwnerStates, Owner
<1>1. l \in Loads /\ k \in Keys /\ block_loads_[k] = l /\ load[l] = NewLoad /\ l # NoLoad
  BY SentinelAssumption DEF IInv, TypeOK, LocalsInv, OwnersInv, OwnerInv
<1>2. load'[l] = [done |-> TRUE, data |-> d] /\ \A m \in Loads : m # l => load'[m] = load[m]
  BY <1>1 DEF IInv, TypeOK
<1>3. UNCHANGED <<block_cache_, block_loads_, key, load_state, answer>> /\ pc'[t] = p
      /\ \A u \in Threads : u # t => pc'[u] = pc[u]
  BY DEF IInv, TypeOK, cacheVars
<1>4. Downloads[k] = "pending"
  BY <1>1 DEF Downloads, LoadOutcome, NewLoad
<1>5. Downloads' = [Downloads EXCEPT ![k] = o]
  <2>1. Downloads'[k] = o
    BY <1>1, <1>2, <1>3 DEF Downloads, LoadOutcome
  <2>2. ASSUME NEW x \in Keys, x # k PROVE Downloads'[x] = Downloads[x]
    <3>1. block_loads_[x] # NoLoad => block_loads_[x] # l
      BY <2>2 DEF IInv, LoadsHaveOwners, OwnersDistinct
    <3>2. block_loads_[x] # NoLoad => load'[block_loads_[x]] = load[block_loads_[x]]
      BY <3>1, <1>2 DEF IInv, TypeOK
    <3> QED BY <3>2, <1>3 DEF Downloads, LoadOutcome
  <2> QED BY <2>1, <2>2 DEF Downloads
<1>6. ASSUME NEW u \in Threads
      PROVE  Outcomes'[u] = IF key[u] = k /\ Outcomes[u] = "pending" THEN o ELSE Outcomes[u]
  <2>1. CASE load_state[u] = l
    <3>1. pc[u] \notin {Idle, Returned} /\ pc'[u] \notin {Idle, Returned}
      BY <2>1, <1>1, <1>3 DEF IInv, LocalsInv
    <3>2. Outcomes[u] = "pending"
      BY <2>1, <3>1, <1>1 DEF Outcomes, LoadOutcome, NewLoad
    <3>3. Outcomes'[u] = o
      BY <2>1, <3>1, <1>2, <1>3 DEF Outcomes, LoadOutcome
    <3>4. key[u] = k
      <4>1. CASE pc[u] = Waiting
        <5>1. ~load[load_state[u]].done   BY <2>1, <1>1 DEF NewLoad
        <5> QED BY <5>1, <4>1, <2>1, WaiterKey
      <4>2. CASE pc[u] # Waiting
        BY <4>2, <3>1, <2>1 DEF IInv, TypeOK, States, OwnersDistinct
      <4> QED BY <4>1, <4>2
    <3> QED BY <3>2, <3>3, <3>4
  <2>2. CASE load_state[u] # l
    <3>1. u # t /\ SameLocals(u)   BY <2>2, <1>3 DEF SameLocals
    <3>2. pc[u] \notin {Idle, Returned} => load_state[u] \in Loads
      BY DEF IInv, TypeOK, LocalsInv
    <3>3. Outcomes'[u] = Outcomes[u]
      BY <3>1, <3>2, <2>2, <1>2, OutcomeFrame
    <3>4. ~(key[u] = k /\ Outcomes[u] = "pending")
      <4> SUFFICES ASSUME key[u] = k, Outcomes[u] = "pending" PROVE FALSE
        OBVIOUS
      <4>1. pc[u] \notin {Idle, Returned} /\ ~load[load_state[u]].done
        BY DEF Outcomes, LoadOutcome
      <4>2. CASE pc[u] = Waiting
        BY <4>1, <4>2, <2>2, <1>1 DEF IInv, WaitersInv, WaiterInv
      <4>3. CASE pc[u] # Waiting
        BY <4>1, <4>3, <3>1 DEF IInv, TypeOK, States, OwnersDistinct
      <4> QED BY <4>2, <4>3
    <3> QED BY <3>3, <3>4
  <2> QED BY <2>1, <2>2
<1>7. Outcomes' = [u \in Threads |-> IF key[u] = k /\ Outcomes[u] = "pending" THEN o ELSE Outcomes[u]]
  <2>1. Outcomes' = [u \in Threads |-> Outcomes'[u]]   BY DEF Outcomes
  <2> QED BY <2>1, <1>6
<1>8. CachedKeys' = CachedKeys
  BY <1>3, CachedFrame
<1> QED BY <1>3, <1>4, <1>5, <1>7, <1>8 DEF Fetch!Settle, Fetch!Pending

(* Leaving retires the owner's download and no other, and gives the owner   *)
(* the outcome its load had.                                                *)
LEMMA FetchLeave ==
    ASSUME IInv, NEW t \in Threads, pc[t] \in {Installing, Withdrawing}, Leave(t),
           UNCHANGED <<load, key>>,
           answer' = [answer EXCEPT ![t] = load[load_state[t]].data]
    PROVE  /\ Downloads[key[t]] = IF pc[t] = Installing THEN "ok" ELSE "failed"
           /\ Downloads' = [Downloads EXCEPT ![key[t]] = "none"]
           /\ Outcomes' = Outcomes
<1> DEFINE l == load_state[t]
           k == key[t]
<1> USE DEF Idle, Waiting, Fetching, Installing, Withdrawing, Returned, OwnerStates, Owner
<1>1. l \in Loads /\ k \in Keys /\ OwnerInv(t)
  BY DEF IInv, TypeOK, LocalsInv, OwnersInv
<1>2. /\ block_loads_[k] = l /\ l # NoLoad /\ k # NoKey
      /\ load[l] = [done |-> TRUE, data |-> IF pc[t] = Installing THEN k ELSE NoKey]
  BY <1>1, SentinelAssumption DEF OwnerInv
<1>3. Downloads[k] = IF pc[t] = Installing THEN "ok" ELSE "failed"
  BY <1>1, <1>2 DEF Downloads, LoadOutcome
<1>4. Downloads' = [Downloads EXCEPT ![k] = "none"]
  <2>1. block_loads_' = [block_loads_ EXCEPT ![k] = NoLoad]   BY DEF Leave
  <2>2. block_loads_'[k] = NoLoad /\ \A x \in Keys : x # k => block_loads_'[x] = block_loads_[x]
    BY <2>1, <1>1 DEF IInv, TypeOK
  <2> QED BY <2>2 DEF Downloads, LoadOutcome
<1>5. Outcomes'[t] = Outcomes[t]
  <2>1. pc'[t] = Returned /\ answer'[t] = load[l].data
    BY DEF Leave, IInv, TypeOK
  <2> QED BY <2>1, <1>2 DEF Outcomes, LoadOutcome
<1>6. \A u \in Threads : u # t => SameLocals(u)
  BY DEF Leave, IInv, TypeOK, SameLocals
<1>7. \A u \in Threads : Outcomes'[u] = Outcomes[u]
  BY <1>5, <1>6, OutcomeFrame
<1>8. Outcomes' = Outcomes
  <2>1. Outcomes' = [u \in Threads |-> Outcomes'[u]] /\ Outcomes = [u \in Threads |-> Outcomes[u]]
    BY DEF Outcomes
  <2> QED BY <2>1, <1>7
<1> QED BY <1>3, <1>4, <1>8

LEMMA FetchInstall ==
    ASSUME IInv, NEW t \in Threads, Install(t)
    PROVE  Fetch!Retire(key[t])
<1>1. /\ Downloads[key[t]] = "ok"
      /\ Downloads' = [Downloads EXCEPT ![key[t]] = "none"]
      /\ Outcomes' = Outcomes
  BY FetchLeave DEF Install
<1>2. key[t] \in Keys /\ block_cache_[key[t]] = NoKey /\ load[load_state[t]].data = key[t]
  <2>1. key[t] \in Keys /\ Owner(t)
    BY DEF Install, IInv, LocalsInv, Owner, OwnerStates, Installing, Idle
  <2>2. /\ block_cache_[key[t]] = NoKey
        /\ load[load_state[t]] = [done |-> TRUE, data |-> key[t]]
    BY <2>1 DEF Install, IInv, OwnersInv, OwnerInv
  <2> QED BY <2>1, <2>2
<1>3. Insert(key[t], key[t])
  BY <1>2 DEF Install
<1>4. /\ \E out \in {{}} \cup {{x} : x \in CachedKeys} :
           CachedKeys' = (CachedKeys \ out) \cup {key[t]}
      /\ Cardinality(CachedKeys') <= Capacity
  BY <1>2, <1>3, InsertLemma DEF IInv, Cached
<1>5. key' = key
  BY DEF Install
<1>6. Fetch!Cardinality(CachedKeys') = Cardinality(CachedKeys')
  BY DEF Fetch!Cardinality, Cardinality
<1> QED BY <1>1, <1>4, <1>5, <1>6 DEF Fetch!Retire, Fetch!Ok, Fetch!Failed, Fetch!None

LEMMA FetchWithdraw ==
    ASSUME IInv, NEW t \in Threads, Withdraw(t)
    PROVE  Fetch!Retire(key[t])
<1>1. load[load_state[t]].data = NoKey
  <2>1. Owner(t)   BY DEF Withdraw, Owner, OwnerStates
  <2>2. load[load_state[t]] = [done |-> TRUE, data |-> NoKey]
    BY <2>1 DEF Withdraw, IInv, OwnersInv, OwnerInv
  <2> QED BY <2>2
<1>2. /\ Downloads[key[t]] = "failed"
      /\ Downloads' = [Downloads EXCEPT ![key[t]] = "none"]
      /\ Outcomes' = Outcomes
  BY <1>1, FetchLeave DEF Withdraw, Installing, Withdrawing
<1>3. CachedKeys' = CachedKeys /\ key' = key
  BY CachedFrame DEF Withdraw, cacheVars
<1> QED BY <1>2, <1>3 DEF Fetch!Retire, Fetch!Ok, Fetch!Failed, Fetch!None

LEMMA FetchNext == IInv /\ [Next]_vars => [Fetch!Next]_(Fetch!vars)
<1> SUFFICES ASSUME IInv, [Next]_vars PROVE [Fetch!Next]_(Fetch!vars)
  OBVIOUS
<1>1. ASSUME NEW t \in Threads, NEW k \in Keys, Ask(t, k) PROVE Fetch!Next
  BY <1>1, FetchHit, FetchJoin, FetchOwn DEF Ask, Fetch!Next
<1>2. ASSUME NEW t \in Threads, LoadStep(t) PROVE [Fetch!Next]_(Fetch!vars)
  <2>1. CASE Wake(t)   BY <2>1, FetchWake
  <2>2. pc[t] \in OwnerStates => key[t] \in Keys /\ key[t] # NoKey
    BY SentinelAssumption DEF IInv, LocalsInv, OwnerStates, Fetching, Installing, Withdrawing, Idle
  <2>3. CASE FetchSucceeds(t)
    <3>1. key[t] \in {key[t], NoKey} /\ Installing \in {Installing, Withdrawing} /\ key[t] \in Keys /\ key[t] # NoKey
      BY <2>2, <2>3 DEF FetchSucceeds, OwnerStates
    <3>2. Fetch!Settle(key[t], "ok")
      BY <2>3, <3>1, FetchPublish DEF FetchSucceeds
    <3> QED BY <3>1, <3>2 DEF Fetch!Next, Fetch!Ok
  <2>4. CASE FetchFails(t)
    <3>1. Withdrawing \in {Installing, Withdrawing} /\ key[t] \in Keys
      BY <2>2, <2>4 DEF FetchFails, OwnerStates
    <3>2. Fetch!Settle(key[t], "failed")
      BY <2>4, <3>1, FetchPublish DEF FetchFails
    <3> QED BY <3>1, <3>2 DEF Fetch!Next, Fetch!Failed
  <2>5. CASE Install(t)
    BY <2>2, <2>5, FetchInstall DEF Install, OwnerStates, Fetch!Next
  <2>6. CASE Withdraw(t)
    BY <2>2, <2>6, FetchWithdraw DEF Withdraw, OwnerStates, Fetch!Next
  <2> QED BY <1>2, <2>1, <2>3, <2>4, <2>5, <2>6 DEF LoadStep
<1>3. ASSUME NEW t \in Threads, Return(t) PROVE Fetch!Next
  BY <1>3, FetchReturn DEF Fetch!Next
<1>4. CASE UNCHANGED vars
  BY <1>4 DEF vars, threadVars, Fetch!vars, CachedKeys, Cached, Downloads, Outcomes, LoadOutcome
<1> QED BY <1>1, <1>2, <1>3, <1>4 DEF Next

(* The single-flight cache implements the abstract fetch: hidden owners,    *)
(* waiters and load objects never answer a call otherwise than its one      *)
(* download, or the cache, would.                                           *)
THEOREM Refinement == Spec => ImplementsBlockFetch
<1>1. Init => Fetch!Init   BY FetchInit
<1>2. IInv /\ [Next]_vars => [Fetch!Next]_(Fetch!vars)   BY FetchNext
<1> QED BY <1>1, <1>2, Inductive, PTL DEF Spec, ImplementsBlockFetch, Fetch!Spec

-----------------------------------------------------------------------------
(* The block cache is a least-recently-used one: BlockRecency's history of  *)
(* use, for every set of threads and keys and every capacity.               *)

(* What the history is: newer is a strict total order of the used keys, and *)
(* nothing gets into the cache without being used.                          *)
HistoryInv ==
    /\ used \subseteq Keys
    /\ newer \subseteq used \X used
    /\ \A x \in used : <<x, x>> \notin newer
    /\ \A x, y, z \in used : <<x, y>> \in newer /\ <<y, z>> \in newer => <<x, z>> \in newer
    /\ \A x, y \in used : x = y \/ <<x, y>> \in newer \/ <<y, x>> \in newer
    /\ CachedKeys \subseteq used

RecencyInv == IInv /\ HistoryInv /\ CacheHoldsMostRecent

-----------------------------------------------------------------------------
(* The order of use after k has been used: k is newer than everything else, *)
(* and the others stand as they stood.                                      *)
LEMMA NoteLemma ==
    ASSUME HistoryInv, NEW k \in Keys, Note(k)
    PROVE  /\ used' = used \cup {k}
           /\ \A x \in used' : x # k => <<k, x>> \in newer'
           /\ \A x, y : y # k /\ <<x, y>> \in newer => <<x, y>> \in newer'
           /\ \A x, y : <<x, y>> \in newer' => y # k /\ y \in used /\ (x = k \/ <<x, y>> \in newer)
<1>1. used' = used \cup {k}
  BY DEF Note
<1>2. \A x, y : <<x, y>> \in newer' <=> (y # k /\ <<x, y>> \in newer) \/ (x = k /\ y \in used \ {k})
  <2> TAKE x, y
  <2>1. <<x, y>>[1] = x /\ <<x, y>>[2] = y
    OBVIOUS
  <2>2. <<x, y>> \in {<<k, z>> : z \in used \ {k}} <=> x = k /\ y \in used \ {k}
    OBVIOUS
  <2>3. <<x, y>> \in {p \in newer : p[2] # k} <=> y # k /\ <<x, y>> \in newer
    BY <2>1
  <2> QED BY <2>2, <2>3 DEF Note
<1>3. \A x, y : <<x, y>> \in newer => x \in used /\ y \in used
  BY DEF HistoryInv
<1> QED BY <1>1, <1>2, <1>3

(* Using a key keeps newer a strict total order of the used keys.           *)
LEMMA NoteKeepsOrder ==
    ASSUME HistoryInv, NEW k \in Keys, Note(k), CachedKeys' \subseteq CachedKeys \cup {k}
    PROVE  HistoryInv'
<1>1. /\ used' = used \cup {k}
      /\ \A x \in used' : x # k => <<k, x>> \in newer'
      /\ \A x, y : y # k /\ <<x, y>> \in newer => <<x, y>> \in newer'
      /\ \A x, y : <<x, y>> \in newer' => y # k /\ y \in used /\ (x = k \/ <<x, y>> \in newer)
  BY NoteLemma
<1>2. used' \subseteq Keys /\ CachedKeys' \subseteq used'
  BY <1>1 DEF HistoryInv
<1>3. newer' \subseteq used' \X used'
  <2>1. newer \subseteq used' \X used'
    BY <1>1 DEF HistoryInv
  <2>2. {<<k, x>> : x \in used \ {k}} \subseteq used' \X used'
    BY <1>1
  <2> QED BY <2>1, <2>2 DEF Note
<1>4. \A x \in used' : <<x, x>> \notin newer'
  BY <1>1 DEF HistoryInv
<1>5. \A x, y, z \in used' : <<x, y>> \in newer' /\ <<y, z>> \in newer' => <<x, z>> \in newer'
  <2> TAKE x, y, z \in used'
  <2> HAVE <<x, y>> \in newer' /\ <<y, z>> \in newer'
  <2>1. y # k /\ y \in used /\ z # k /\ z \in used /\ <<y, z>> \in newer
    BY <1>1
  <2>2. CASE x = k
    BY <2>1, <2>2, <1>1
  <2>3. CASE x # k
    BY <2>1, <2>3, <1>1 DEF HistoryInv
  <2> QED BY <2>2, <2>3
<1>6. \A x, y \in used' : x = y \/ <<x, y>> \in newer' \/ <<y, x>> \in newer'
  BY <1>1 DEF HistoryInv
<1> QED BY <1>2, <1>3, <1>4, <1>5, <1>6 DEF HistoryInv

-----------------------------------------------------------------------------
(* A step in which the pc of no other thread changes uses at most the key   *)
(* of that thread.                                                          *)
LEMMA OneUser ==
    ASSUME NEW t \in Threads, NEW k \in Keys,
           pc[t] \in {Idle, Installing}, pc'[t] = Returned, key'[t] = k,
           \A u \in Threads : u # t => pc'[u] = pc[u],
           \/ \E x \in Keys : Uses(x) /\ Note(x)
           \/ (\A x \in Keys : ~Uses(x)) /\ UNCHANGED history
    PROVE  Note(k)
<1>1. \A x \in Keys : Uses(x) <=> x = k
  BY DEF Uses, Idle, Installing, Returned
<1> QED BY <1>1

(* The members of a list are finitely many. *)
LEMMA FiniteRange ==
    ASSUME NEW o \in Seq(Keys), NEW T,
           \A k \in T : \E j \in 1..Len(o) : o[j] = k
    PROVE  IsFiniteSet(T)
<1>1. Len(o) \in Nat
  BY LenProperties
<1>2. IsFiniteSet(1..Len(o))
  BY <1>1, FS_Interval
<1>3. T \subseteq {o[j] : j \in 1..Len(o)}
  OBVIOUS
<1>4. IsFiniteSet({o[j] : j \in 1..Len(o)})
  <2> DEFINE m == [j \in 1..Len(o) |-> o[j]]
  <2>1. m \in Surjection(1..Len(o), {o[j] : j \in 1..Len(o)})
    BY DEF Surjection
  <2> HIDE DEF m
  <2> QED BY <2>1, <1>2, FS_Surjection
<1> QED BY <1>3, <1>4, FS_Subset

(* A hit on the i-th key, noted as a use of it, keeps the list in the order *)
(* of last use.                                                             *)
LEMMA HitRecency ==
    ASSUME RecencyInv, NEW k \in Keys, Note(k),
           NEW i \in 1..Len(block_cache_order_), block_cache_order_[i] = k,
           block_cache_order_' = Splice(block_cache_order_, i),
           block_cache_' = block_cache_
    PROVE  HistoryInv' /\ CacheHoldsMostRecent'
<1> DEFINE o == block_cache_order_
           n == Len(o)
<1>1. o \in Seq(Keys) /\ n \in Nat
  BY LenProperties DEF RecencyInv, IInv, TypeOK
<1>2. /\ Len(o') = n
      /\ \A j \in 1..n : o'[j] = IF j = 1 THEN o[i] ELSE IF j <= i THEN o[j - 1] ELSE o[j]
  BY <1>1, SpliceLemma DEF Splice
<1>3. /\ used' = used \cup {k}
      /\ \A x \in used' : x # k => <<k, x>> \in newer'
      /\ \A x, y : y # k /\ <<x, y>> \in newer => <<x, y>> \in newer'
  BY NoteLemma DEF RecencyInv
<1>4. CachedKeys' = CachedKeys /\ k \in CachedKeys /\ k \in used
  BY DEF CachedKeys, Cached, RecencyInv, HistoryInv, IInv, OrderMirrorsCache
<1>5. HistoryInv'
  BY <1>4, NoteKeepsOrder DEF RecencyInv
<1>6. \A a, b \in 1..n : a < b => <<o'[a], o'[b]>> \in newer'
  <2> TAKE a, b \in 1..n
  <2> HAVE a < b
  <2> DEFINE was(j) == IF j <= i THEN j - 1 ELSE j
  <2>1. was(b) \in 1..n /\ o'[b] = o[was(b)] /\ was(b) # i
    BY <1>1, <1>2
  <2>2. o[was(b)] # k
    BY <2>1 DEF RecencyInv, IInv, OrderMirrorsCache
  <2>3. o[was(b)] \in used
    BY <2>1, <1>1, ElementOfSeq DEF RecencyInv, HistoryInv, IInv, OrderMirrorsCache, CachedKeys
  <2>4. CASE a = 1
    BY <2>1, <2>2, <2>3, <2>4, <1>2, <1>3
  <2>5. CASE a # 1
    <3>1. was(a) \in 1..n /\ o'[a] = o[was(a)] /\ was(a) < was(b)
      BY <2>5, <1>1, <1>2
    <3>2. <<o[was(a)], o[was(b)]>> \in newer
      BY <2>1, <3>1 DEF RecencyInv, CacheHoldsMostRecent
    <3> QED BY <2>1, <2>2, <3>1, <3>2, <1>3
  <2> QED BY <2>4, <2>5
<1>7. \A x \in Keys, y \in used' : Cached(x)' /\ ~Cached(y)' => <<x, y>> \in newer'
  <2> TAKE x \in Keys, y \in used'
  <2> HAVE Cached(x)' /\ ~Cached(y)'
  <2>1. Cached(x) /\ ~Cached(y) /\ y # k /\ y \in used
    BY <1>3, <1>4 DEF Cached, CachedKeys
  <2> QED BY <2>1, <1>3 DEF RecencyInv, CacheHoldsMostRecent
<1>8. (\E x \in used' : ~Cached(x)') => Len(o') = Capacity
  BY <1>2, <1>3, <1>4 DEF Cached, RecencyInv, CacheHoldsMostRecent
<1> QED BY <1>2, <1>5, <1>6, <1>7, <1>8 DEF CacheHoldsMostRecent

(* Installing a block the cache does not hold, noted as a use of it, keeps  *)
(* the list in the order of last use; what an eviction removes was used     *)
(* before everything that stays.                                            *)
LEMMA InstallRecency ==
    ASSUME RecencyInv, NEW k \in Keys, ~Cached(k), Note(k), Insert(k, k)
    PROVE  HistoryInv' /\ CacheHoldsMostRecent'
<1> DEFINE o == block_cache_order_
           n == Len(o)
           order == <<k>> \o o
           cache == [block_cache_ EXCEPT ![k] = IF Cached(k) THEN @ ELSE k]
           held == {x \in Keys : cache[x] # NoKey}
<1>1. o \in Seq(Keys) /\ n \in Nat /\ \A i \in 1..n : o[i] \in CachedKeys
  BY ElementOfSeq, LenProperties DEF RecencyInv, IInv, TypeOK, OrderMirrorsCache, CachedKeys
<1>2. /\ order \in Seq(Keys) /\ Len(order) = n + 1
      /\ order[1] = k /\ \A i \in 2..(n + 1) : order[i] = o[i - 1]
  BY <1>1
<1>3. held = CachedKeys \cup {k} /\ k \notin CachedKeys
  <2>1. \A x \in Keys : cache[x] = IF x = k THEN k ELSE block_cache_[x]
    BY DEF RecencyInv, IInv, TypeOK, Cached
  <2>2. k # NoKey   BY SentinelAssumption
  <2> QED BY <2>1, <2>2 DEF CachedKeys, Cached
<1>4. CachedKeys \subseteq used /\ n <= Capacity
  BY DEF RecencyInv, IInv, OrderMirrorsCache, HistoryInv
<1>5. /\ used' = used \cup {k}
      /\ \A x \in used' : x # k => <<k, x>> \in newer'
      /\ \A x, y : y # k /\ <<x, y>> \in newer => <<x, y>> \in newer'
  BY NoteLemma DEF RecencyInv
<1>6. \A a, b \in 1..(n + 1) : a < b => <<order[a], order[b]>> \in newer'
  <2> TAKE a, b \in 1..(n + 1)
  <2> HAVE a < b
  <2>1. b - 1 \in 1..n /\ order[b] = o[b - 1]
    BY <1>1, <1>2
  <2>2. order[b] \in used /\ order[b] # k
    BY <2>1, <1>1, <1>3, <1>4
  <2>3. CASE a = 1
    BY <2>2, <2>3, <1>2, <1>5
  <2>4. CASE a # 1
    <3>1. a - 1 \in 1..n /\ order[a] = o[a - 1] /\ a - 1 < b - 1
      BY <2>4, <1>1, <1>2
    <3>2. <<o[a - 1], o[b - 1]>> \in newer
      BY <2>1, <3>1 DEF RecencyInv, CacheHoldsMostRecent
    <3> QED BY <2>1, <2>2, <3>1, <3>2, <1>5
  <2> QED BY <2>3, <2>4
<1>7. Cardinality(CachedKeys) = n
  <2>1. CachedKeys \in SUBSET Keys
    BY DEF CachedKeys
  <2> QED BY <2>1, <1>1, EnumerationLemma DEF RecencyInv, IInv, OrderMirrorsCache, CachedKeys
<1>8. Cardinality(held) = n + 1
  <2>1. IsFiniteSet(CachedKeys)
    BY <1>1, FiniteRange DEF RecencyInv, IInv, OrderMirrorsCache, CachedKeys
  <2> QED BY <2>1, <1>3, <1>7, FS_AddElement
<1>9. CASE n < Capacity
  <2>1. ~(Cardinality(held) > Capacity)
    BY <1>8, <1>9, <1>1, CapacityAssumption
  <2>2. o' = order /\ block_cache_' = cache
    BY <2>1 DEF Insert
  <2>3. CachedKeys' = CachedKeys \cup {k}
    BY <2>2, <1>3 DEF CachedKeys, Cached
  <2>4. used \subseteq CachedKeys
    BY <1>9, CapacityAssumption DEF RecencyInv, HistoryInv, CacheHoldsMostRecent, CachedKeys
  <2>5. \A y \in used' : Cached(y)'
    BY <2>3, <2>4, <1>5 DEF CachedKeys
  <2>6. HistoryInv'
    BY <2>3, NoteKeepsOrder DEF RecencyInv
  <2> QED BY <2>2, <2>5, <2>6, <1>2, <1>6 DEF CacheHoldsMostRecent
<1>10. CASE n = Capacity
  <2> DEFINE stale == order[n + 1]
             kept == SubSeq(order, 1, n)
  <2>1. o' = kept /\ block_cache_' = [cache EXCEPT ![stale] = NoKey]
    <3>1. Cardinality(held) > Capacity
      BY <1>8, <1>10, <1>1, CapacityAssumption
    <3> QED BY <3>1, <1>1, <1>2 DEF Insert
  <2>2. Len(kept) = n /\ \A i \in 1..n : kept[i] = order[i]
    BY <1>1, <1>2, SubSeqProperties
  <2>3. n \in 1..n /\ n + 1 \in 1..(n + 1) /\ stale = o[n] /\ stale \in CachedKeys /\ stale # k
    <3>1. n \in 1..n /\ n + 1 \in 2..(n + 1)
      BY <1>10, <1>1, CapacityAssumption
    <3> QED BY <3>1, <1>1, <1>2, <1>3
  <2>4. CachedKeys' = (CachedKeys \ {stale}) \cup {k}
    <3>1. \A x \in Keys : block_cache_'[x] = IF x = stale THEN NoKey ELSE cache[x]
      BY <2>1, <2>3 DEF RecencyInv, IInv, TypeOK, CachedKeys
    <3>2. CachedKeys' = held \ {stale}
      BY <3>1 DEF CachedKeys, Cached
    <3> QED BY <3>2, <2>3, <1>3
  <2>5. HistoryInv'
    BY <2>4, NoteKeepsOrder DEF RecencyInv
  <2>6. \A a, b \in 1..Len(o') : a < b => <<o'[a], o'[b]>> \in newer'
    BY <2>1, <2>2, <1>1, <1>6
  <2>7. \A x \in Keys, y \in used' : Cached(x)' /\ ~Cached(y)' => <<x, y>> \in newer'
    <3> TAKE x \in Keys, y \in used'
    <3> HAVE Cached(x)' /\ ~Cached(y)'
    <3>1. y # k /\ y \in used /\ (y = stale \/ ~Cached(y))
      BY <2>4, <1>5 DEF CachedKeys, Cached, RecencyInv, HistoryInv
    <3>2. x = k \/ (x # stale /\ Cached(x))
      BY <2>4 DEF CachedKeys
    <3>3. CASE x = k
      BY <3>1, <3>3, <1>5
    <3>4. CASE x # stale /\ Cached(x) /\ y = stale
      <4>1. PICK i \in 1..n : o[i] = x
        BY <3>4 DEF RecencyInv, IInv, OrderMirrorsCache
      <4>2. i < n
        BY <4>1, <3>4, <2>3, <1>1
      <4>3. <<x, stale>> \in newer
        BY <4>1, <4>2, <2>3 DEF RecencyInv, CacheHoldsMostRecent
      <4> QED BY <4>3, <3>1, <3>4, <1>5
    <3>5. CASE Cached(x) /\ ~Cached(y)
      <4>1. <<x, y>> \in newer
        BY <3>1, <3>5 DEF RecencyInv, CacheHoldsMostRecent
      <4> QED BY <4>1, <3>1, <1>5
    <3> QED BY <3>1, <3>2, <3>3, <3>4, <3>5
  <2> QED BY <2>1, <2>2, <2>5, <2>6, <2>7, <1>10 DEF CacheHoldsMostRecent
<1> QED BY <1>1, <1>4, <1>9, <1>10, CapacityAssumption

(* A step that touches neither the cache nor the history. *)
LEMMA QuietRecency ==
    ASSUME RecencyInv, UNCHANGED <<cacheVars, history>>
    PROVE  HistoryInv' /\ CacheHoldsMostRecent'
<1>1. UNCHANGED <<block_cache_, block_cache_order_, used, newer>>
  BY DEF cacheVars, history
<1> QED BY <1>1 DEF RecencyInv, HistoryInv, CacheHoldsMostRecent, CachedKeys, Cached

-----------------------------------------------------------------------------
(* Every step of the loader under its history keeps the invariant.          *)
LEMMA RecencyNextInv == RecencyInv /\ [RecencyNext]_<<vars, history>> => RecencyInv'
<1> SUFFICES ASSUME RecencyInv, [RecencyNext]_<<vars, history>> PROVE RecencyInv'
  OBVIOUS
<1>1. IInv'
  BY NextInv DEF RecencyInv, RecencyNext, vars
<1>2. CASE UNCHANGED <<vars, history>>
  BY <1>1, <1>2, QuietRecency DEF vars, cacheVars, RecencyInv
<1>3. CASE RecencyNext
  <2> USE DEF Idle, Waiting, Fetching, Installing, Withdrawing, Returned
  <2>1. \/ \E k \in Keys : Uses(k) /\ Note(k)
        \/ (\A k \in Keys : ~Uses(k)) /\ UNCHANGED history
    BY <1>3 DEF RecencyNext
  <2>2. pc \in [Threads -> States] /\ key \in [Threads -> Keys \cup {NoKey}]
    BY DEF RecencyInv, IInv, TypeOK
  <2>3. ASSUME NEW t \in Threads, NEW k \in Keys, pc[t] = Idle,
               key' = [key EXCEPT ![t] = k], Hit(t, k)
        PROVE  HistoryInv' /\ CacheHoldsMostRecent'
    <3>1. pc'[t] = Returned /\ key'[t] = k /\ \A u \in Threads : u # t => pc'[u] = pc[u]
      BY <2>2, <2>3 DEF Hit
    <3>2. Note(k)
      BY <2>1, <2>3, <3>1, OneUser
    <3> QED BY <2>3, <3>2, HitRecency DEF Hit
  <2>4. ASSUME NEW t \in Threads, Install(t)
        PROVE  HistoryInv' /\ CacheHoldsMostRecent'
    <3>1. /\ key[t] \in Keys /\ ~Cached(key[t])
          /\ load[load_state[t]] = [done |-> TRUE, data |-> key[t]]
      BY <2>4 DEF Install, RecencyInv, IInv, LocalsInv, OwnersInv, OwnerInv, Owner, OwnerStates, Cached
    <3>2. Insert(key[t], key[t])
      BY <2>4, <3>1 DEF Install
    <3>3. pc[t] = Installing /\ pc'[t] = Returned /\ key'[t] = key[t]
          /\ \A u \in Threads : u # t => pc'[u] = pc[u]
      BY <2>2, <2>4 DEF Install, Leave
    <3>4. Note(key[t])
      BY <2>1, <3>1, <3>3, OneUser
    <3> QED BY <3>1, <3>2, <3>4, InstallRecency
  <2>5. ASSUME NEW t \in Threads, UNCHANGED cacheVars,
               \A u \in Threads : u # t => pc'[u] = pc[u],
               pc[t] \notin {Idle, Installing} \/ pc'[t] # Returned
        PROVE  HistoryInv' /\ CacheHoldsMostRecent'
    <3>1. \A k \in Keys : ~Uses(k)
      BY <2>5 DEF Uses
    <3>2. UNCHANGED history
      BY <2>1, <3>1
    <3> QED BY <2>5, <3>2, QuietRecency
  <2>6. ASSUME NEW t \in Threads, NEW k \in Keys, Ask(t, k)
        PROVE  HistoryInv' /\ CacheHoldsMostRecent'
    <3>1. pc[t] = Idle /\ key' = [key EXCEPT ![t] = k]
      BY <2>6 DEF Ask
    <3>2. CASE Hit(t, k)
      BY <3>1, <3>2, <2>3
    <3>3. CASE Join(t, k)
      <4>1. UNCHANGED cacheVars /\ pc'[t] = Waiting /\ \A u \in Threads : u # t => pc'[u] = pc[u]
        BY <3>3, <2>2 DEF Join
      <4> QED BY <4>1, <2>5
    <3>4. CASE Own(t, k)
      <4>1. UNCHANGED cacheVars /\ pc'[t] = Fetching /\ \A u \in Threads : u # t => pc'[u] = pc[u]
        BY <3>4, <2>2 DEF Own
      <4> QED BY <4>1, <2>5
    <3> QED BY <2>6, <3>2, <3>3, <3>4 DEF Ask
  <2>7. ASSUME NEW t \in Threads, LoadStep(t) \/ Return(t), ~Install(t)
        PROVE  HistoryInv' /\ CacheHoldsMostRecent'
    <3>1. UNCHANGED cacheVars
      BY <2>7 DEF LoadStep, Wake, FetchSucceeds, FetchFails, Withdraw, Return
    <3>2. pc[t] \in {Waiting, Fetching, Withdrawing, Returned}
      BY <2>7 DEF LoadStep, Wake, FetchSucceeds, FetchFails, Withdraw, Return
    <3>3. \A u \in Threads : u # t => pc'[u] = pc[u]
      BY <2>2, <2>7 DEF LoadStep, Wake, FetchSucceeds, FetchFails, Withdraw, Leave, Return
    <3> QED BY <3>1, <3>2, <3>3, <2>5
  <2>8. HistoryInv' /\ CacheHoldsMostRecent'
    BY <1>3, <2>4, <2>6, <2>7 DEF RecencyNext, Next, LoadStep
  <2> QED BY <1>1, <2>8 DEF RecencyInv
<1> QED BY <1>2, <1>3

(* Nothing is used, cached or evicted at the start. *)
LEMMA RecencyInitInv == RecencyInit => RecencyInv
<1> SUFFICES ASSUME RecencyInit PROVE RecencyInv
  OBVIOUS
<1>1. IInv /\ CachedKeys = {} /\ Len(block_cache_order_) = 0
  BY InitInv, EmptySeq DEF RecencyInit, Init, CachedKeys, Cached
<1>2. HistoryInv
  BY <1>1 DEF RecencyInit, HistoryInv
<1>3. CacheHoldsMostRecent
  BY <1>1 DEF RecencyInit, CacheHoldsMostRecent
<1> QED BY <1>1, <1>2, <1>3 DEF RecencyInv

(* The block cache keeps the most recently used blocks, in the order of     *)
(* their last use, and misses one only while it is full: whatever the calls *)
(* and however their sections interleave.                                   *)
THEOREM CacheHoldsMostRecentHolds == RecencySpec => []CacheHoldsMostRecent
<1>1. RecencyInv => CacheHoldsMostRecent   BY DEF RecencyInv
<1> QED BY <1>1, RecencyInitInv, RecencyNextInv, PTL DEF RecencySpec

(* The history observes the loader and nothing more: hiding it, every       *)
(* behaviour under the history is one of the loader.                        *)
THEOREM HistoryObserves == RecencySpec => Spec
<1>1. RecencyInit => Init   BY DEF RecencyInit
<1>2. [RecencyNext]_<<vars, history>> => [Next]_vars
  BY DEF RecencyNext, vars
<1> QED BY <1>1, <1>2, PTL DEF RecencySpec, Spec
=============================================================================
