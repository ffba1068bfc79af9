------------------------- MODULE DownloadServerProofs -------------------------
(***************************************************************************)
(* Proofs about DownloadServer for every number of clients, files, blocks, *)
(* sessions and load objects, every cache size and any number of requests. *)
(***************************************************************************)
EXTENDS DownloadServer, BlockLoaderProofs

Flag(s) == prefetch_sessions_[s].task_inflight_or_queued
Queued(s) == \E i \in DOMAIN prefetch_queue_ : prefetch_queue_[i].session_id = s

(* A client inside a request is at a block of its file; it has a session    *)
(* only while it streams.                                                   *)
ClientInv ==
    \A c \in Clients :
        /\ at[c] # "none" => req[c].file \in Files
        /\ at[c] \in {"probe", "open", "load"} =>
            req[c].block \in 1..Len(Blocks[req[c].file]) /\ req[c].left >= 1
        /\ session_id[c] # NoSession => at[c] \in {"load", "close"}

(* What a call of the loader is for. *)
CallInv ==
    /\ \A c \in Clients : pc[c] # Idle =>
        \/ at[c] = "probe" /\ key[c] = Blocks[req[c].file][1]
        \/ at[c] = "load" /\ key[c] = Blocks[req[c].file][req[c].block]
    /\ pc[Worker] # Idle => worker = "load" /\ key[Worker] = task.cache_key

(* Every live session is that of one client, and that client knows it.      *)
SessionInv ==
    /\ \A s \in Sessions : Live(s) =>
        prefetch_sessions_[s].next_block_index >= 1 /\ \E c \in Clients : session_id[c] = s
    /\ \A c \in Clients, s \in Sessions :
        ~stop_prefetch_worker_ /\ session_id[c] = s => Live(s)
    /\ \A c, d \in Clients : session_id[c] = session_id[d] /\ session_id[c] # NoSession => c = d

(* The tasks of a session: one queued or one running if its flag is set.    *)
TaskInv ==
    /\ worker = "load" <=> task # NoTask
    /\ \A s \in Sessions : Queued(s) => Live(s) /\ Flag(s) /\ task.session_id # s
    /\ \A i, j \in DOMAIN prefetch_queue_ :
        prefetch_queue_[i].session_id = prefetch_queue_[j].session_id => i = j
    /\ \A s \in Sessions : Live(s) /\ task.session_id = s => Flag(s)
    /\ \A s \in Sessions : Live(s) /\ Flag(s) => Queued(s) \/ task.session_id = s

(* The pending keys are those of the tasks, each of one task.               *)
PendingInv ==
    ~stop_prefetch_worker_ =>
        /\ prefetch_pending_keys_ = QueuedKeys \cup TaskKeys
        /\ QueuedKeys \cap TaskKeys = {}
        /\ \A i, j \in DOMAIN prefetch_queue_ :
            prefetch_queue_[i].cache_key = prefetch_queue_[j].cache_key => i = j

(* A session allows one block beyond the one its client is at.              *)
AheadInv ==
    /\ AtMostOneBlockAhead
    /\ \A c \in Clients, s \in Sessions : session_id[c] = s /\ Live(s) =>
        prefetch_sessions_[s].allowed_block_index <= req[c].block + 1

(* Who scans holds prefetch_mutex_, so its session cannot go meanwhile.     *)
ScanInv == prefetch_holder # Nobody => scanned \in Sessions /\ Live(scanned)

ServerPart ==
    /\ ServerTypeOK
    /\ ClientInv
    /\ CallInv
    /\ SessionInv
    /\ TaskInv
    /\ PendingInv
    /\ AheadInv
    /\ ScanInv

ServerInv == IInv /\ ServerPart

-----------------------------------------------------------------------------
LEMMA ServerConstants ==
    /\ Clients \subseteq Threads /\ Worker \in Threads /\ Worker \notin Clients
    /\ NoSession \notin Sessions /\ Nobody \notin Threads /\ NoKey \notin Keys
    /\ \A f \in Files : Blocks[f] \in Seq(Keys) /\ Len(Blocks[f]) \in Nat
    /\ \A f \in Files : \A b \in 1..Len(Blocks[f]) : Blocks[f][b] \in Keys
<1>1. \A f \in Files : Blocks[f] \in Seq(Keys)
  BY FilesAssumption
<1>2. \A f \in Files : \A b \in 1..Len(Blocks[f]) : Blocks[f][b] \in Keys
  BY <1>1, ElementOfSeq
<1> QED BY <1>1, <1>2, ThreadsAssumption, NobodyAssumption, SentinelAssumption

(* The keys a thread asks the loader for exist. *)
LEMMA AskedKeys ==
    ASSUME ServerInv
    PROVE  /\ \A c \in Clients : at[c] = "probe" =>
                Len(Blocks[req[c].file]) >= 1 /\ Blocks[req[c].file][1] \in Keys
           /\ \A c \in Clients : at[c] = "load" => Blocks[req[c].file][req[c].block] \in Keys
           /\ worker = "load" => task \in Task /\ task.cache_key \in Keys
<1>1. ASSUME NEW c \in Clients, at[c] = "probe"
      PROVE  Len(Blocks[req[c].file]) >= 1 /\ Blocks[req[c].file][1] \in Keys
  <2>1. req[c].file \in Files /\ req[c].block \in 1..Len(Blocks[req[c].file])
    BY <1>1 DEF ServerInv, ServerPart, ClientInv
  <2>2. 1 \in 1..Len(Blocks[req[c].file])
    BY <2>1, ServerConstants
  <2> QED BY <2>1, <2>2, ServerConstants
<1>2. ASSUME NEW c \in Clients, at[c] = "load"
      PROVE  Blocks[req[c].file][req[c].block] \in Keys
  BY <1>2, ServerConstants DEF ServerInv, ServerPart, ClientInv
<1>3. worker = "load" => task \in Task
  BY DEF ServerInv, ServerPart, TaskInv, ServerTypeOK
<1> QED BY <1>1, <1>2, <1>3 DEF Task

(* Every step of the server is one of the loader's, or none of its business.*)
LEMMA LoaderStep == ServerInv /\ [ServerNext]_allVars => [Next]_vars
<1> SUFFICES ASSUME ServerInv, [ServerNext]_allVars PROVE [Next]_vars
  OBVIOUS
<1>1. ASSUME NEW c \in Clients, ClientStep(c) PROVE [Next]_vars
  <2>1. c \in Threads   BY ServerConstants
  <2>2. CASE AskProbe(c)   BY <2>1, <2>2, AskedKeys DEF AskProbe, Next
  <2>3. CASE EndProbe(c)   BY <2>1, <2>3 DEF EndProbe, Next
  <2>4. CASE Open(c)   BY <2>4 DEF Open
  <2>5. CASE AskBlock(c)   BY <2>1, <2>5, AskedKeys DEF AskBlock, Next
  <2>6. CASE Deliver(c)   BY <2>1, <2>6 DEF Deliver, Next
  <2>7. CASE EndEarly(c)   BY <2>1, <2>7 DEF EndEarly, Next
  <2>8. CASE BodyThrows(c)   BY <2>8 DEF BodyThrows
  <2>9. CASE Close(c)   BY <2>9 DEF Close
  <2> QED BY <1>1, <2>2, <2>3, <2>4, <2>5, <2>6, <2>7, <2>8, <2>9 DEF ClientStep
<1>2. ASSUME WorkerStep PROVE [Next]_vars
  <2>1. CASE Take   BY <2>1 DEF Take
  <2>2. CASE AskPrefetch   BY <2>2, AskedKeys, ServerConstants DEF AskPrefetch, Next
  <2>3. CASE FinishTask   BY <2>3, ServerConstants DEF FinishTask, Next
  <2>4. CASE ExitWorker   BY <2>4 DEF ExitWorker
  <2> QED BY <1>2, <2>1, <2>2, <2>3, <2>4 DEF WorkerStep
<1>3. ASSUME NEW c \in Clients, NEW f \in Files, NEW b, NEW n, Request(c, f, b, n) PROVE [Next]_vars
  BY <1>3 DEF Request
<1>4. ASSUME NEW t \in Threads, Scan(t) \/ Load(t) PROVE [Next]_vars
  BY <1>4 DEF Scan, Load, Next
<1>5. CASE Stop \/ Destroy \/ Finished
  BY <1>5 DEF Stop, Destroy, Finished, allVars
<1>6. CASE UNCHANGED allVars   BY <1>6 DEF allVars
<1> QED BY <1>1, <1>2, <1>3, <1>4, <1>5, <1>6 DEF ServerNext

-----------------------------------------------------------------------------
(* Sequences of tasks. *)

LEMMA QueueFacts ==
    ASSUME ServerTypeOK
    PROVE  /\ Len(prefetch_queue_) \in Nat /\ DOMAIN prefetch_queue_ = 1..Len(prefetch_queue_)
           /\ \A i \in DOMAIN prefetch_queue_ :
                /\ prefetch_queue_[i] \in Task
                /\ prefetch_queue_[i].session_id \in Sessions
                /\ prefetch_queue_[i].cache_key \in Keys
                /\ prefetch_queue_[i].block_index \in Nat
<1>1. prefetch_queue_ \in Seq(Task)
  BY DEF ServerTypeOK
<1>2. \A i \in DOMAIN prefetch_queue_ : prefetch_queue_[i] \in Task
  BY <1>1, ElementOfSeq, LenProperties
<1> QED BY <1>1, <1>2, LenProperties DEF Task

(* Part is a part of queue, if each of its tasks is one of queue's.         *)
Picked(part, queue, from) ==
    /\ from \in [DOMAIN part -> DOMAIN queue]
    /\ \A i \in DOMAIN part : part[i] = queue[from[i]]
    /\ \A i, j \in DOMAIN part : from[i] = from[j] => i = j

LEMMA TailLemma ==
    ASSUME NEW queue \in Seq(Task), queue # <<>>
    PROVE  /\ Tail(queue) \in Seq(Task)
           /\ 1 \in DOMAIN queue /\ Head(queue) = queue[1]
           /\ \E from : /\ Picked(Tail(queue), queue, from)
                        /\ \A i \in DOMAIN queue : i # 1 <=> \E j \in DOMAIN Tail(queue) : from[j] = i
<1> DEFINE from == [j \in DOMAIN Tail(queue) |-> j + 1]
<1>1. /\ Tail(queue) \in Seq(Task) /\ Len(Tail(queue)) = Len(queue) - 1
      /\ Len(queue) \in Nat \ {0} /\ Head(queue) = queue[1]
      /\ \A i \in 1..Len(Tail(queue)) : Tail(queue)[i] = queue[i + 1]
  BY HeadTailProperties, LenProperties, EmptySeq
<1>2. DOMAIN queue = 1..Len(queue) /\ DOMAIN Tail(queue) = 1 .. Len(queue) - 1
  BY <1>1, LenProperties
<1>3. Picked(Tail(queue), queue, from)
  BY <1>1, <1>2 DEF Picked
<1>4. ASSUME NEW i \in DOMAIN queue
      PROVE  i # 1 <=> \E j \in DOMAIN Tail(queue) : from[j] = i
  <2>1. CASE i = 1
    BY <2>1, <1>1, <1>2
  <2>2. CASE i # 1
    <3>1. i - 1 \in DOMAIN Tail(queue) /\ from[i - 1] = i
      BY <2>2, <1>1, <1>2
    <3> QED BY <3>1, <2>2
  <2> QED BY <2>1, <2>2
<1> QED BY <1>1, <1>2, <1>3, <1>4

(* Without keeps each task of the other sessions, once.                     *)
LEMMA WithoutLemma ==
    ASSUME NEW queue \in Seq(Task), NEW s
    PROVE  /\ Without(queue, s) \in Seq(Task)
           /\ \E from : /\ Picked(Without(queue, s), queue, from)
                        /\ \A i \in DOMAIN queue : queue[i].session_id # s <=>
                            \E j \in DOMAIN Without(queue, s) : from[j] = i
<1> DEFINE left == {i \in DOMAIN queue : queue[i].session_id # s}
           upto(i) == {h \in left : h <= i}
           n == Cardinality(left)
           rank == [i \in left |-> Cardinality(upto(i))]
           place(j) == CHOOSE i \in left : Cardinality(upto(i)) = j
           part == [j \in 1..n |-> queue[place(j)]]
           from == [j \in 1..n |-> place(j)]
<1>1. DOMAIN queue = 1..Len(queue) /\ Len(queue) \in Nat /\ \A i \in DOMAIN queue : queue[i] \in Task
  BY LenProperties, ElementOfSeq
<1>2. IsFiniteSet(left) /\ n \in Nat
  <2>1. \A m \in Nat : IsFiniteSet(1..m)
    BY FS_Interval
  <2>2. IsFiniteSet(DOMAIN queue)
    BY <1>1, <2>1
  <2> QED BY <2>2, FS_Subset, FS_CardinalityType
<1>3. \A i \in left : IsFiniteSet(upto(i)) /\ upto(i) \subseteq left /\ rank[i] \in 1..n
  <2> TAKE i \in left
  <2>1. IsFiniteSet(upto(i)) /\ Cardinality(upto(i)) <= n
    BY <1>2, FS_Subset
  <2>2. Cardinality(upto(i)) \in Nat /\ i \in upto(i)
    BY <1>1, <2>1, FS_CardinalityType
  <2>3. Cardinality(upto(i)) # 0
    BY <2>1, <2>2, FS_EmptySet
  <2> QED BY <2>1, <2>2, <2>3, <1>2
<1>4. ASSUME NEW i \in left, NEW h \in left, h < i
      PROVE  rank[h] # rank[i]
  <2>1. upto(h) \subseteq upto(i) /\ i \in upto(i) /\ i \notin upto(h)
    BY <1>1, <1>4
  <2> QED BY <2>1, <1>3, FS_Subset
<1>5. \A i, h \in left : rank[h] = rank[i] => h = i
  <2> TAKE i, h \in left
  <2>1. i = h \/ i < h \/ h < i
    BY <1>1
  <2>2. i < h \/ h < i => rank[h] # rank[i]
    BY <1>4
  <2> QED BY <2>1, <2>2
<1>6. rank \in Injection(left, 1..n)
  BY <1>3, <1>5 DEF Injection, IsInjective
<1>7. \A j \in 1..n : \E i \in left : rank[i] = j
  <2>1. \A m \in Nat : IsFiniteSet(1..m) /\ Cardinality(1..m) = m
    BY FS_Interval
  <2>2. rank \in Surjection(left, 1..n)
    BY <1>2, <1>6, <2>1, FS_Injection
  <2> QED BY <2>2 DEF Surjection
<1>8. \A j \in 1..n : place(j) \in left /\ rank[place(j)] = j
  <2>1. \A j \in 1..n : \E i \in left : Cardinality(upto(i)) = j
    BY <1>7
  <2> QED BY <2>1
<1>9. part = Without(queue, s)
  BY DEF Without
<1> HIDE DEF place, left
<1>10. part \in Seq(Task) /\ DOMAIN part = 1..n
  <2>1. part \in [1..n -> Task]
    BY <1>1, <1>8 DEF left
  <2>2. part \in Seq(Task)
    BY <2>1, <1>2, IsASeq
  <2> QED BY <2>2
<1>11. Picked(part, queue, from)
  <2>1. from \in [1..n -> DOMAIN queue]
    BY <1>8 DEF left
  <2>2. ASSUME NEW i \in 1..n, NEW j \in 1..n, from[i] = from[j]
        PROVE  i = j
    <3>1. place(i) = place(j)
      BY <2>2
    <3> QED BY <3>1, <1>8
  <2> QED BY <2>1, <2>2, <1>10 DEF Picked
<1>12. ASSUME NEW i \in DOMAIN queue
       PROVE  queue[i].session_id # s <=> \E j \in DOMAIN part : from[j] = i
  <2>1. ASSUME queue[i].session_id # s
        PROVE  \E j \in DOMAIN part : from[j] = i
    <3>1. i \in left /\ rank[i] \in 1..n
      BY <2>1, <1>3 DEF left
    <3>2. from[rank[i]] = i
      BY <3>1, <1>8, <1>5
    <3> QED BY <3>1, <3>2, <1>10
  <2>2. ASSUME NEW j \in DOMAIN part, from[j] = i
        PROVE  queue[i].session_id # s
    BY <2>2, <1>8, <1>10 DEF left
  <2> QED BY <2>1, <2>2
<1> QED BY <1>9, <1>10, <1>11, <1>12

-----------------------------------------------------------------------------
LEMMA ServerInitInv == ServerInit => ServerInv
<1> SUFFICES ASSUME ServerInit PROVE ServerInv
  OBVIOUS
<1>1. IInv   BY InitInv DEF ServerInit
<1>2. prefetch_queue_ \in Seq(Task) /\ DOMAIN prefetch_queue_ = {}
  BY EmptySeq, LenProperties DEF ServerInit
<1>3. ServerTypeOK
  BY <1>2, ServerConstants DEF ServerInit, ServerTypeOK, NoRequest
<1>4. ClientInv /\ CallInv
  BY ServerConstants DEF ServerInit, ClientInv, CallInv, Init
<1>5. SessionInv
  BY ServerConstants DEF ServerInit, SessionInv, Live
<1>6. TaskInv
  BY <1>2, ServerConstants DEF ServerInit, TaskInv, Live, Queued, NoTask
<1>7. PendingInv
  BY <1>2 DEF ServerInit, PendingInv, QueuedKeys, TaskKeys
<1>8. AheadInv /\ ScanInv
  BY <1>2, ServerConstants DEF ServerInit, AheadInv, AtMostOneBlockAhead, ScanInv
<1> QED BY <1>1, <1>3, <1>4, <1>5, <1>6, <1>7, <1>8 DEF ServerInv, ServerPart

(* What the loader's actions do to its callers. *)
LEMMA AskEffect ==
    ASSUME TypeOK, NEW t \in Threads, NEW k, Ask(t, k)
    PROVE  /\ key'[t] = k
           /\ \A u \in Threads : u # t => pc'[u] = pc[u] /\ key'[u] = key[u]
  BY DEF TypeOK, Ask, Hit, Join, Own

LEMMA ReturnEffect ==
    ASSUME TypeOK, NEW t \in Threads, Return(t)
    PROVE  /\ pc'[t] = Idle
           /\ \A u \in Threads : u # t => pc'[u] = pc[u] /\ key'[u] = key[u]
  BY DEF TypeOK, Return

LEMMA LoadEffect ==
    ASSUME TypeOK, NEW t \in Threads, LoadStep(t)
    PROVE  key' = key /\ \A u \in Threads : pc'[u] # Idle => pc[u] # Idle
<1>1. pc[t] # Idle
  BY DEF LoadStep, Wake, FetchSucceeds, FetchFails, Install, Withdraw, Idle, Waiting, Fetching, Installing, Withdrawing
<1>2. key' = key /\ \A u \in Threads : u # t => pc'[u] = pc[u]
  BY DEF TypeOK, LoadStep, Wake, FetchSucceeds, FetchFails, Install, Withdraw, Leave
<1> QED BY <1>1, <1>2

(* Steps that leave the prefetch queue, its sessions and the worker alone.  *)
LEMMA QuietPrefetch ==
    ASSUME ServerPart, UNCHANGED <<prefetchVars, workerVars, session_id, stop_prefetch_worker_>>
    PROVE  SessionInv' /\ TaskInv' /\ PendingInv' /\ ScanInv'
<1> USE DEF ServerPart, prefetchVars, workerVars
<1>1. SessionInv'   BY DEF SessionInv, Live
<1>2. TaskInv'   BY DEF TaskInv, Live, Flag, Queued
<1>3. PendingInv'   BY DEF PendingInv, QueuedKeys, TaskKeys
<1>4. ScanInv'   BY DEF ScanInv, Live
<1> QED BY <1>1, <1>2, <1>3, <1>4

LEMMA QuietAhead ==
    ASSUME ServerPart, UNCHANGED <<prefetch_sessions_, prefetch_queue_, session_id>>,
           \A c \in Clients : session_id[c] # NoSession =>
                req'[c].block \in Nat /\ req'[c].block >= req[c].block
    PROVE  AheadInv'
<1> USE DEF ServerPart
<1>1. /\ \A i \in DOMAIN prefetch_queue_ :
            prefetch_queue_[i].session_id # NoSession /\ prefetch_queue_[i].block_index \in Nat
      /\ \A c \in Clients : req[c].block \in Nat
  BY QueueFacts, ServerConstants DEF ServerTypeOK
<1>2. AtMostOneBlockAhead'
  <2> SUFFICES ASSUME NEW c \in Clients, NEW i \in DOMAIN prefetch_queue_,
                      prefetch_queue_[i].session_id = session_id[c]
               PROVE  prefetch_queue_[i].block_index <= req'[c].block + 1
    BY DEF AtMostOneBlockAhead
  <2>1. prefetch_queue_[i].block_index <= req[c].block + 1
    BY DEF AheadInv, AtMostOneBlockAhead
  <2> QED BY <1>1, <2>1
<1>3. ASSUME NEW c \in Clients, NEW s \in Sessions, session_id[c] = s, Live(s)
      PROVE  prefetch_sessions_[s].allowed_block_index <= req'[c].block + 1
  <2>1. prefetch_sessions_[s].allowed_block_index <= req[c].block + 1
    BY <1>3 DEF AheadInv
  <2>2. prefetch_sessions_[s].allowed_block_index \in Nat
    BY <1>3 DEF ServerTypeOK, Session, Live
  <2> QED BY <1>1, <1>3, <2>1, <2>2, ServerConstants
<1> QED BY <1>2, <1>3 DEF AheadInv, Live

-----------------------------------------------------------------------------
(* Steps of a client that do not touch the prefetch. *)

LEMMA RequestInv ==
    ASSUME ServerInv, NEW c \in Clients, NEW f \in Files, NEW b \in 1..Len(Blocks[f]),
           NEW n \in 1..(Len(Blocks[f]) - b + 1), Request(c, f, b, n)
    PROVE  ServerPart'
<1> USE DEF ServerInv, ServerPart
<1>1. /\ at[c] = "none" /\ at'[c] \in {"probe", "open"}
      /\ req'[c] = [file |-> f, block |-> b, left |-> n]
      /\ \A d \in Clients : d # c => at'[d] = at[d] /\ req'[d] = req[d]
      /\ at' \in [Clients -> {"none", "probe", "open", "load", "close"}]
      /\ UNCHANGED <<vars, session_id, prefetchVars, workerVars, lifeVars>>
  BY DEF Request, ServerTypeOK
<1>2. b \in Nat /\ n \in Nat
  BY ServerConstants
<1>3. req' \in [Clients -> [file : Files \cup {"none"}, block : Nat, left : Nat]]
  <2>1. [file |-> f, block |-> b, left |-> n] \in [file : Files \cup {"none"}, block : Nat, left : Nat]
    BY <1>2
  <2> QED BY <2>1 DEF Request, ServerTypeOK
<1>4. ServerTypeOK'
  BY <1>1, <1>3 DEF ServerTypeOK, prefetchVars, workerVars
<1>5. ClientInv'
  BY <1>1, <1>2 DEF ClientInv
<1>6. CallInv'
  <2>1. pc[c] = Idle
    BY <1>1 DEF CallInv
  <2> QED BY <1>1, <2>1 DEF CallInv, vars, threadVars, workerVars
<1>7. session_id[c] = NoSession
  BY <1>1 DEF ClientInv
<1>8. AheadInv'
  <2>1. \A d \in Clients : session_id[d] # NoSession => req'[d] = req[d]
    BY <1>1, <1>7
  <2>2. \A d \in Clients : req[d].block \in Nat
    BY DEF ServerTypeOK
  <2> QED BY <1>1, <2>1, <2>2, QuietAhead DEF prefetchVars
<1> QED BY <1>1, <1>4, <1>5, <1>6, <1>8, QuietPrefetch DEF lifeVars

LEMMA AskClientInv ==
    ASSUME ServerInv, NEW c \in Clients, AskProbe(c) \/ AskBlock(c)
    PROVE  ServerPart'
<1> USE DEF ServerInv, ServerPart
<1>1. /\ UNCHANGED serverVars /\ c \in Threads /\ TypeOK
      /\ \/ at[c] = "probe" /\ Ask(c, Blocks[req[c].file][1])
         \/ at[c] = "load" /\ Ask(c, Blocks[req[c].file][req[c].block])
  BY ServerConstants DEF AskProbe, AskBlock, IInv
<1>2. UNCHANGED <<at, req, session_id, prefetchVars, workerVars, lifeVars>>
  BY <1>1 DEF serverVars, clientVars
<1>3. CallInv'
  <2>1. \A u \in Threads : u # c => pc'[u] = pc[u] /\ key'[u] = key[u]
    BY <1>1, AskEffect
  <2>2. \/ at[c] = "probe" /\ key'[c] = Blocks[req[c].file][1]
        \/ at[c] = "load" /\ key'[c] = Blocks[req[c].file][req[c].block]
    BY <1>1, AskEffect
  <2> QED BY <1>2, <2>1, <2>2, ServerConstants DEF CallInv, workerVars
<1>4. ServerTypeOK' /\ ClientInv'
  BY <1>2 DEF ServerTypeOK, ClientInv, prefetchVars, workerVars
<1>5. AheadInv'
  BY <1>2, QuietAhead DEF prefetchVars, ServerTypeOK
<1> QED BY <1>2, <1>3, <1>4, <1>5, QuietPrefetch DEF lifeVars

LEMMA EndProbeInv ==
    ASSUME ServerInv, NEW c \in Clients, EndProbe(c)
    PROVE  ServerPart'
<1> USE DEF ServerInv, ServerPart
<1>1. /\ at[c] = "probe" /\ Return(c) /\ c \in Threads /\ TypeOK
      /\ \A d \in Clients : d # c => at'[d] = at[d] /\ req'[d] = req[d]
      /\ \/ at'[c] = "none"
         \/ at'[c] = "open" /\ req' = req
      /\ UNCHANGED <<session_id, prefetchVars, workerVars, lifeVars>>
  BY ServerConstants DEF EndProbe, IInv, ServerTypeOK
<1>2. ServerTypeOK'
  <2>1. NoRequest \in [file : Files \cup {"none"}, block : Nat, left : Nat]
    BY DEF NoRequest
  <2>2. req' \in [Clients -> [file : Files \cup {"none"}, block : Nat, left : Nat]]
    BY <2>1 DEF EndProbe, ServerTypeOK
  <2>3. at' \in [Clients -> {"none", "probe", "open", "load", "close"}]
    BY DEF EndProbe, ServerTypeOK
  <2> QED BY <1>1, <2>2, <2>3 DEF ServerTypeOK, prefetchVars, workerVars
<1>3. session_id[c] = NoSession
  BY <1>1 DEF ClientInv
<1>4. ClientInv'
  BY <1>1, <1>3 DEF ClientInv
<1>5. CallInv'
  <2>1. pc'[c] = Idle /\ \A u \in Threads : u # c => pc'[u] = pc[u] /\ key'[u] = key[u]
    BY <1>1, ReturnEffect
  <2> QED BY <1>1, <2>1, ServerConstants DEF CallInv, workerVars
<1>6. AheadInv'
  BY <1>1, <1>3, QuietAhead DEF prefetchVars, ServerTypeOK
<1> QED BY <1>1, <1>2, <1>4, <1>5, <1>6, QuietPrefetch DEF lifeVars

LEMMA EndEarlyInv ==
    ASSUME ServerInv, NEW c \in Clients, EndEarly(c)
    PROVE  ServerPart'
<1> USE DEF ServerInv, ServerPart
<1>1. /\ at[c] = "load" /\ Return(c) /\ c \in Threads /\ TypeOK
      /\ at' = [at EXCEPT ![c] = "close"]
      /\ UNCHANGED <<req, session_id, prefetchVars, workerVars, lifeVars>>
  BY ServerConstants DEF EndEarly, IInv
<1>2. ServerTypeOK' /\ ClientInv'
  BY <1>1 DEF ServerTypeOK, ClientInv, prefetchVars, workerVars
<1>3. CallInv'
  <2>1. pc'[c] = Idle /\ \A u \in Threads : u # c => pc'[u] = pc[u] /\ key'[u] = key[u]
    BY <1>1, ReturnEffect
  <2>2. \A d \in Clients : d # c => at'[d] = at[d]
    BY <1>1 DEF ServerTypeOK
  <2> QED BY <1>1, <2>1, <2>2, ServerConstants DEF CallInv, workerVars
<1>4. AheadInv'
  BY <1>1, QuietAhead DEF prefetchVars, ServerTypeOK
<1> QED BY <1>1, <1>2, <1>3, <1>4, QuietPrefetch DEF lifeVars

(* A step inside the loader, and steps that change flags only.              *)
LEMMA LoadInv ==
    ASSUME ServerInv, NEW t \in Threads, Load(t)
    PROVE  ServerPart'
<1> USE DEF ServerInv, ServerPart
<1>1. LoadStep(t) /\ TypeOK /\ UNCHANGED <<at, req, session_id, prefetchVars, workerVars, lifeVars>>
  BY DEF Load, IInv, serverVars, clientVars
<1>2. CallInv'
  BY <1>1, LoadEffect, ServerConstants DEF CallInv, workerVars
<1>3. ServerTypeOK' /\ ClientInv'
  BY <1>1 DEF ServerTypeOK, ClientInv, prefetchVars, workerVars
<1>4. AheadInv'
  BY <1>1, QuietAhead DEF prefetchVars, ServerTypeOK
<1> QED BY <1>1, <1>2, <1>3, <1>4, QuietPrefetch DEF lifeVars

LEMMA FlagInv ==
    ASSUME ServerInv, UNCHANGED <<vars, at, req, session_id, prefetchVars, workerVars, stop_prefetch_worker_>>
    PROVE  ServerPart'
<1> USE DEF ServerInv, ServerPart
<1>1. ServerTypeOK' /\ ClientInv' /\ CallInv'
  BY DEF ServerTypeOK, ClientInv, CallInv, prefetchVars, workerVars, vars, threadVars
<1>2. AheadInv'
  BY QuietAhead DEF prefetchVars, ServerTypeOK
<1> QED BY <1>1, <1>2, QuietPrefetch

-----------------------------------------------------------------------------
(* Steps that start, advance or stop a session. *)

LEMMA LiveRecord ==
    ASSUME NEW r, r.next_block_index >= 1
    PROVE  r # Gone
  BY DEF Gone

(* The fields of a session. *)
LEMMA SessionFields ==
    ASSUME NEW s \in Session
    PROVE  /\ s = [file |-> s.file, next_block_index |-> s.next_block_index,
                   allowed_block_index |-> s.allowed_block_index,
                   task_inflight_or_queued |-> s.task_inflight_or_queued]
           /\ s.file \in Files /\ s.next_block_index \in Nat /\ s.allowed_block_index \in Nat
           /\ s.task_inflight_or_queued \in BOOLEAN
           /\ s.allowed_block_index <= Len(Blocks[s.file])
           /\ s.next_block_index <= s.allowed_block_index + 1
  BY DEF Session

(* A record whose indices fit its file is a session. *)
LEMMA SessionOf ==
    ASSUME NEW f \in Files, NEW n \in Nat, NEW a \in Nat, NEW flag \in BOOLEAN,
           a <= Len(Blocks[f]), n <= a + 1
    PROVE  [file |-> f, next_block_index |-> n, allowed_block_index |-> a,
            task_inflight_or_queued |-> flag] \in Session
  BY DEF Session

(* A turn of the scan goes on to the next block, with or without a task. *)
LEMMA SessionScanned ==
    ASSUME NEW s \in Session, s.next_block_index <= s.allowed_block_index
    PROVE  /\ [s EXCEPT !.next_block_index = s.next_block_index + 1] \in Session
           /\ [s EXCEPT !.next_block_index = s.next_block_index + 1,
                        !.task_inflight_or_queued = TRUE] \in Session
<1> DEFINE R == [file : Files, next_block_index : Nat, allowed_block_index : Nat,
                 task_inflight_or_queued : BOOLEAN]
           one == [s EXCEPT !.next_block_index = s.next_block_index + 1]
           two == [one EXCEPT !.task_inflight_or_queued = TRUE]
<1>1. /\ s \in R /\ s.allowed_block_index <= Len(Blocks[s.file])
      /\ s.next_block_index + 1 <= s.allowed_block_index + 1
  BY SessionFields DEF Session
<1>2. /\ one \in R /\ one.file = s.file /\ one.allowed_block_index = s.allowed_block_index
      /\ one.next_block_index = s.next_block_index + 1
  BY <1>1
<1>3. /\ two \in R /\ two.file = one.file /\ two.allowed_block_index = one.allowed_block_index
      /\ two.next_block_index = one.next_block_index
  <2> HIDE DEF one
  <2> QED BY <1>2
<1>4. one \in Session
  <2> HIDE DEF one
  <2> QED BY <1>1, <1>2 DEF Session
<1>5. two \in Session
  <2> HIDE DEF one, two
  <2> QED BY <1>1, <1>2, <1>3 DEF Session
<1>6. two = [s EXCEPT !.next_block_index = s.next_block_index + 1, !.task_inflight_or_queued = TRUE]
  OBVIOUS
<1> QED BY <1>4, <1>5, <1>6

(* A live session's record changes. *)
LEMMA SessionUpdate ==
    ASSUME ServerPart, NEW s \in Sessions, Live(s), NEW r \in Session, r.next_block_index >= 1,
           prefetch_sessions_' = [prefetch_sessions_ EXCEPT ![s] = r],
           UNCHANGED <<session_id, stop_prefetch_worker_>>
    PROVE  /\ prefetch_sessions_' \in [Sessions -> Session \cup {Gone}]
           /\ prefetch_sessions_'[s] = r
           /\ \A x \in Sessions : x # s => prefetch_sessions_'[x] = prefetch_sessions_[x]
           /\ \A x \in Sessions : Live(x)' <=> Live(x)
           /\ SessionInv'
<1> USE DEF ServerPart
<1>1. /\ prefetch_sessions_' \in [Sessions -> Session \cup {Gone}]
      /\ prefetch_sessions_'[s] = r
      /\ \A x \in Sessions : x # s => prefetch_sessions_'[x] = prefetch_sessions_[x]
  BY DEF ServerTypeOK
<1>2. \A x \in Sessions : Live(x)' <=> Live(x)
  BY <1>1, LiveRecord DEF Live
<1>3. \A c \in Clients : session_id[c] \in Sessions \cup {NoSession}
  BY DEF ServerTypeOK
<1>4. SessionInv'
  BY <1>1, <1>2, <1>3 DEF SessionInv
<1> QED BY <1>1, <1>2, <1>4

(* The flags of the sessions stay, and so does what is queued or running.   *)
LEMMA TaskFrame ==
    ASSUME ServerPart, UNCHANGED <<prefetch_queue_, task, worker>>,
           \A x \in Sessions : Live(x)' <=> Live(x),
           \A x \in Sessions : Live(x) => Flag(x)' = Flag(x)
    PROVE  TaskInv'
<1> USE DEF ServerPart
<1>1. \A x \in Sessions : Queued(x)' <=> Queued(x)
  BY DEF Queued
<1>2. /\ (worker = "load" <=> task # NoTask)'
      /\ \A i, j \in DOMAIN prefetch_queue_' :
            prefetch_queue_'[i].session_id = prefetch_queue_'[j].session_id => i = j
  BY DEF TaskInv
<1>3. \A x \in Sessions : Queued(x)' => Live(x)' /\ Flag(x)' /\ task'.session_id # x
  BY <1>1 DEF TaskInv
<1>4. /\ \A x \in Sessions : Live(x)' /\ task'.session_id = x => Flag(x)'
      /\ \A x \in Sessions : Live(x)' /\ Flag(x)' => Queued(x)' \/ task'.session_id = x
  BY <1>1 DEF TaskInv
<1> QED BY <1>2, <1>3, <1>4 DEF TaskInv

LEMMA PendingFrame ==
    ASSUME ServerPart, UNCHANGED <<prefetch_queue_, prefetch_pending_keys_, task, stop_prefetch_worker_>>
    PROVE  PendingInv'
  BY DEF ServerPart, PendingInv, QueuedKeys, TaskKeys

LEMMA OpenInv ==
    ASSUME ServerInv, NEW c \in Clients, Open(c)
    PROVE  ServerPart'
<1> USE DEF ServerInv, ServerPart
<1> DEFINE f == req[c].file
           first == req[c].block + 1
<1>1. /\ at[c] = "open" /\ at' = [at EXCEPT ![c] = "load"] /\ StartSession(c, f, first)
      /\ UNCHANGED <<vars, req, task, worker, stop_prefetch_worker_>>
  BY DEF Open, workerVars, lifeVars
<1>2. /\ session_id[c] = NoSession /\ f \in Files /\ req[c].block \in 1..Len(Blocks[f])
      /\ Len(Blocks[f]) \in Nat /\ c \in Threads
  BY <1>1, ServerConstants DEF ClientInv
<1>3. CallInv'
  BY <1>1 DEF CallInv, vars, threadVars, ServerTypeOK
<1>4. CASE first > Len(Blocks[f])
  <2>1. session_id' = session_id /\ UNCHANGED prefetchVars
    BY <1>1, <1>2, <1>4 DEF StartSession, ServerTypeOK
  <2>2. ServerTypeOK' /\ ClientInv'
    BY <1>1, <1>2, <2>1 DEF ServerTypeOK, ClientInv, prefetchVars
  <2>3. AheadInv'
    BY <1>1, <2>1, QuietAhead DEF prefetchVars, ServerTypeOK
  <2> QED BY <1>1, <1>3, <2>1, <2>2, <2>3, QuietPrefetch DEF workerVars
<1>5. CASE ~(first > Len(Blocks[f]))
  <2> DEFINE r == [file |-> f, next_block_index |-> first,
                   allowed_block_index |-> first, task_inflight_or_queued |-> FALSE]
  <2>1. PICK s \in Sessions :
            /\ Fresh(s)
            /\ session_id' = [session_id EXCEPT ![c] = s]
            /\ prefetch_sessions_' = [prefetch_sessions_ EXCEPT ![s] = r]
            /\ prefetch_holder' = c /\ scanned' = s
    BY <1>1, <1>5 DEF StartSession, EnterScan
  <2>2. UNCHANGED <<prefetch_queue_, prefetch_pending_keys_>>
    BY <1>1, <1>5 DEF StartSession
  <2>3. r \in Session /\ first \in Nat /\ first >= 1
    <3>1. first \in Nat /\ first >= 1 /\ first <= Len(Blocks[f]) /\ first <= first + 1
      BY <1>2, <1>5
    <3> HIDE DEF first, f
    <3> QED BY <1>2, <3>1, SessionOf
  <2>4. /\ prefetch_sessions_' \in [Sessions -> Session \cup {Gone}]
        /\ prefetch_sessions_'[s] = r
        /\ \A x \in Sessions : x # s => prefetch_sessions_'[x] = prefetch_sessions_[x]
        /\ session_id' \in [Clients -> Sessions \cup {NoSession}]
        /\ session_id'[c] = s
        /\ \A d \in Clients : d # c => session_id'[d] = session_id[d]
    BY <2>1, <2>3 DEF ServerTypeOK
  <2> HIDE DEF r
  <2>5. /\ r.next_block_index = first /\ r.allowed_block_index = first
        /\ r.task_inflight_or_queued = FALSE
    BY DEF r
  <2>6. r # Gone
    BY <2>3, <2>5, LiveRecord
  <2>7. Live(s)' /\ ~Live(s) /\ \A x \in Sessions : x # s => (Live(x)' <=> Live(x))
    BY <2>1, <2>4, <2>6 DEF Live, Fresh
  <2>8. ServerTypeOK'
    BY <1>1, <1>2, <2>1, <2>2, <2>4 DEF ServerTypeOK
  <2>9. ClientInv'
    BY <1>1, <1>2, <2>4 DEF ClientInv, ServerTypeOK
  <2>10. \A d \in Clients : session_id[d] # s
    BY <2>1 DEF Fresh
  <2>11. SessionInv'
    <3>1. ASSUME NEW x \in Sessions, Live(x)'
          PROVE  prefetch_sessions_'[x].next_block_index >= 1 /\ \E d \in Clients : session_id'[d] = x
      <4>1. CASE x = s
        BY <2>3, <2>4, <2>5, <4>1
      <4>2. CASE x # s
        <5>1. PICK d \in Clients : session_id[d] = x
          BY <2>7, <3>1, <4>2 DEF SessionInv
        <5>2. d # c
          BY <1>2, <5>1, ServerConstants
        <5> QED BY <2>4, <2>7, <3>1, <4>2, <5>1, <5>2 DEF SessionInv
      <4> QED BY <4>1, <4>2
    <3>2. ASSUME NEW d \in Clients, NEW x \in Sessions, ~stop_prefetch_worker_', session_id'[d] = x
          PROVE  Live(x)'
      BY <1>1, <2>4, <2>7, <3>2 DEF SessionInv
    <3>3. \A d, e \in Clients : session_id'[d] = session_id'[e] /\ session_id'[d] # NoSession => d = e
      BY <2>4, <2>10 DEF SessionInv
    <3> QED BY <3>1, <3>2, <3>3 DEF SessionInv
  <2>12. TaskInv'
    <3>1. ~Queued(s) /\ \A x \in Sessions : Queued(x)' <=> Queued(x)
      BY <2>1, <2>2 DEF Fresh, Queued
    <3>2. task.session_id # s
      BY <2>1 DEF Fresh
    <3>3. ~Flag(s)' /\ \A x \in Sessions : x # s => Flag(x)' = Flag(x)
      BY <2>4, <2>5 DEF Flag
    <3>4. /\ (worker = "load" <=> task # NoTask)'
          /\ \A i, j \in DOMAIN prefetch_queue_' :
                prefetch_queue_'[i].session_id = prefetch_queue_'[j].session_id => i = j
      BY <1>1, <2>2 DEF TaskInv
    <3>5. \A x \in Sessions : Queued(x)' => Live(x)' /\ Flag(x)' /\ task'.session_id # x
      BY <1>1, <2>7, <3>1, <3>3 DEF TaskInv
    <3>7. \A x \in Sessions : Live(x)' /\ task'.session_id = x => Flag(x)'
      BY <1>1, <2>7, <3>2, <3>3 DEF TaskInv
    <3>8. \A x \in Sessions : Live(x)' /\ Flag(x)' => Queued(x)' \/ task'.session_id = x
      BY <1>1, <2>7, <3>1, <3>3 DEF TaskInv
    <3> QED BY <3>4, <3>5, <3>7, <3>8 DEF TaskInv
  <2>13. PendingInv'
    BY <1>1, <2>2, PendingFrame
  <2>14. AheadInv'
    <3>1. AtMostOneBlockAhead'
      <4>1. \A i \in DOMAIN prefetch_queue_ : prefetch_queue_[i].session_id # s
        BY <2>1 DEF Fresh
      <4> QED BY <1>1, <2>2, <2>4, <4>1 DEF AheadInv, AtMostOneBlockAhead
    <3>2. ASSUME NEW d \in Clients, NEW x \in Sessions, session_id'[d] = x, Live(x)'
          PROVE  prefetch_sessions_'[x].allowed_block_index <= req'[d].block + 1
      <4>1. CASE d = c
        BY <1>1, <1>2, <2>3, <2>4, <2>5, <3>2, <4>1
      <4>2. CASE d # c
        <5>1. x # s /\ session_id[d] = x
          BY <2>4, <2>10, <3>2, <4>2
        <5> QED BY <1>1, <2>4, <2>7, <3>2, <5>1 DEF AheadInv
      <4> QED BY <4>1, <4>2
    <3> QED BY <3>1, <3>2 DEF AheadInv
  <2>15. ScanInv'
    BY <2>1, <2>7 DEF ScanInv
  <2> QED BY <1>3, <2>8, <2>9, <2>11, <2>12, <2>13, <2>14, <2>15
<1> QED BY <1>4, <1>5

LEMMA NextRequest ==
    ASSUME NEW F, NEW q \in [file : F, block : Nat, left : Nat], q.left >= 1,
           NEW next, next = [q EXCEPT !.block = @ + 1, !.left = @ - 1]
    PROVE  /\ next.file = q.file /\ next.block = q.block + 1 /\ next.left = q.left - 1
           /\ next \in [file : F, block : Nat, left : Nat]
<1>1. q.block + 1 \in Nat /\ q.left - 1 \in Nat
  OBVIOUS
<1>2. next.file = q.file /\ next.block = q.block + 1 /\ next.left = q.left - 1
  OBVIOUS
<1>3. next \in [file : F, block : Nat, left : Nat]
  BY <1>1
<1> QED BY <1>2, <1>3

LEMMA DeliverInv ==
    ASSUME ServerInv, NEW c \in Clients, Deliver(c)
    PROVE  ServerPart'
<1> USE DEF ServerInv, ServerPart
<1> DEFINE next == [req[c] EXCEPT !.block = @ + 1, !.left = @ - 1]
           s == session_id[c]
<1>1. /\ at[c] = "load" /\ Return(c) /\ c \in Threads /\ TypeOK
      /\ AdvanceSession(c, s)
      /\ at'[c] \in {"load", "close"} /\ req'[c] = next
      /\ at'[c] = "load" => next.left > 0 /\ next.block <= Len(Blocks[next.file])
      /\ \A d \in Clients : d # c => at'[d] = at[d] /\ req'[d] = req[d]
      /\ at' \in [Clients -> {"none", "probe", "open", "load", "close"}]
      /\ UNCHANGED <<session_id, task, worker, stop_prefetch_worker_>>
  BY ServerConstants DEF Deliver, IInv, ServerTypeOK, workerVars, lifeVars
<1>2. /\ req[c] \in [file : Files \cup {"none"}, block : Nat, left : Nat]
      /\ req[c].file \in Files /\ req[c].left >= 1
      /\ req[c].block \in 1..Len(Blocks[req[c].file])
  BY <1>1 DEF ClientInv, ServerTypeOK
<1>3. /\ next.file = req[c].file /\ next.block = req[c].block + 1 /\ next.left = req[c].left - 1
      /\ next \in [file : Files \cup {"none"}, block : Nat, left : Nat]
      /\ req[c].block \in Nat
  BY <1>2, NextRequest
<1> HIDE DEF next
<1>4. /\ req' \in [Clients -> [file : Files \cup {"none"}, block : Nat, left : Nat]]
      /\ req' = [req EXCEPT ![c] = next]
  BY <1>3 DEF Deliver, ServerTypeOK, next
<1>5. ClientInv'
  <2>1. at'[c] = "load" => next.left >= 1 /\ next.block \in 1..Len(Blocks[next.file])
    BY <1>1, <1>2, <1>3, ServerConstants
  <2> QED BY <1>1, <1>2, <1>3, <2>1 DEF ClientInv
<1>6. CallInv'
  <2>1. pc'[c] = Idle /\ \A u \in Threads : u # c => pc'[u] = pc[u] /\ key'[u] = key[u]
    BY <1>1, ReturnEffect
  <2> QED BY <1>1, <2>1, ServerConstants DEF CallInv
<1>7. CASE s = NoSession \/ ~Live(s)
  <2>1. UNCHANGED prefetchVars
    BY <1>1, <1>7 DEF AdvanceSession, prefetchVars
  <2>2. ServerTypeOK'
    BY <1>1, <1>4, <2>1 DEF ServerTypeOK, prefetchVars
  <2>3. AheadInv'
    BY <1>1, <1>2, <1>3, <2>1, QuietAhead DEF prefetchVars, ServerTypeOK
  <2> QED BY <1>1, <1>5, <1>6, <2>1, <2>2, <2>3, QuietPrefetch DEF workerVars
<1>8. CASE s # NoSession /\ Live(s)
  <2>1. s \in Sessions /\ prefetch_sessions_[s] \in Session /\ prefetch_sessions_[s].next_block_index >= 1
    BY <1>8 DEF ServerTypeOK, SessionInv, Live
  <2> DEFINE old == prefetch_sessions_[s]
             r == [old EXCEPT !.allowed_block_index = IF @ + 1 <= Len(Blocks[old.file]) THEN @ + 1 ELSE @]
  <2>2. /\ prefetch_sessions_' = [prefetch_sessions_ EXCEPT ![s] = r]
        /\ prefetch_holder' = c /\ scanned' = s
        /\ UNCHANGED <<prefetch_queue_, prefetch_pending_keys_>>
    BY <1>1, <1>8, <2>1 DEF AdvanceSession, EnterScan, ServerTypeOK
  <2>3. /\ r \in Session /\ r.next_block_index >= 1
        /\ r.allowed_block_index <= old.allowed_block_index + 1
        /\ r.task_inflight_or_queued = Flag(s)
    <3>1. /\ old \in [file : Files, next_block_index : Nat, allowed_block_index : Nat,
                      task_inflight_or_queued : BOOLEAN]
          /\ old.allowed_block_index <= Len(Blocks[old.file])
          /\ old.next_block_index <= old.allowed_block_index + 1
      BY <2>1 DEF Session
    <3>2. old.file \in Files /\ Len(Blocks[old.file]) \in Nat
      BY <3>1, ServerConstants
    <3>3. PICK a \in Nat : /\ a = old.allowed_block_index \/ a = old.allowed_block_index + 1
                          /\ a <= Len(Blocks[old.file])
                          /\ r = [old EXCEPT !.allowed_block_index = a]
      BY <3>1, <3>2
    <3> HIDE DEF r
    <3> QED BY <2>1, <3>1, <3>2, <3>3 DEF Session, Flag
  <2> HIDE DEF r
  <2>4. /\ prefetch_sessions_' \in [Sessions -> Session \cup {Gone}]
        /\ prefetch_sessions_'[s] = r
        /\ \A x \in Sessions : x # s => prefetch_sessions_'[x] = prefetch_sessions_[x]
        /\ \A x \in Sessions : Live(x)' <=> Live(x)
        /\ SessionInv'
    BY <1>1, <1>8, <2>1, <2>2, <2>3, SessionUpdate
  <2>5. ServerTypeOK'
    BY <1>1, <1>4, <2>1, <2>2, <2>4 DEF ServerTypeOK
  <2>6. TaskInv'
    <3>1. \A x \in Sessions : Live(x) => Flag(x)' = Flag(x)
      BY <2>3, <2>4 DEF Flag
    <3> QED BY <1>1, <2>2, <2>4, <3>1, TaskFrame
  <2>7. PendingInv'
    BY <1>1, <2>2, PendingFrame
  <2>8. AheadInv'
    <3>1. AtMostOneBlockAhead'
      <4>1. \A i \in DOMAIN prefetch_queue_ : prefetch_queue_[i].block_index \in Nat
        BY QueueFacts
      <4>2. ASSUME NEW d \in Clients, NEW i \in DOMAIN prefetch_queue_,
                   prefetch_queue_[i].session_id = session_id[d]
            PROVE  prefetch_queue_[i].block_index <= req'[d].block + 1
        <5>1. prefetch_queue_[i].block_index <= req[d].block + 1
          BY <4>2 DEF AheadInv, AtMostOneBlockAhead
        <5>2. req'[d].block >= req[d].block /\ req'[d].block \in Nat /\ req[d].block \in Nat
          <6>1. req[d].block \in Nat
            BY DEF ServerTypeOK
          <6>2. req'[d].block = req[d].block \/ req'[d].block = req[d].block + 1
            BY <1>1, <1>3
          <6> QED BY <6>1, <6>2
        <5> QED BY <4>1, <5>1, <5>2
      <4> QED BY <1>1, <2>2, <4>2 DEF AtMostOneBlockAhead
    <3>2. ASSUME NEW d \in Clients, NEW x \in Sessions, session_id'[d] = x, Live(x)'
          PROVE  prefetch_sessions_'[x].allowed_block_index <= req'[d].block + 1
      <4>1. session_id[d] = x /\ Live(x)
        BY <1>1, <2>4, <3>2
      <4>2. CASE d = c
        <5>1. x = s /\ old.allowed_block_index <= req[c].block + 1 /\ old.allowed_block_index \in Nat
          BY <2>1, <4>1, <4>2 DEF AheadInv, Session
        <5>2. r.allowed_block_index \in Nat
          BY <2>3 DEF Session
        <5>3. req'[c].block = req[c].block + 1
          BY <1>1, <1>3
        <5>4. r.allowed_block_index <= req[c].block + 2
          BY <1>3, <2>3, <5>1, <5>2
        <5> QED BY <1>3, <2>4, <4>2, <5>1, <5>2, <5>3, <5>4
      <4>3. CASE d # c
        <5>1. x # s
          BY <2>1, <4>1, <4>3, ServerConstants DEF SessionInv
        <5> QED BY <1>1, <2>4, <4>1, <4>3, <5>1 DEF AheadInv
      <4> QED BY <4>2, <4>3
    <3> QED BY <3>1, <3>2 DEF AheadInv
  <2>9. ScanInv'
    BY <1>8, <2>1, <2>2, <2>4 DEF ScanInv
  <2> QED BY <1>5, <1>6, <2>4, <2>5, <2>6, <2>7, <2>8, <2>9
<1> QED BY <1>7, <1>8

(* What is left of the queue when part of it is taken out.                  *)
LEMMA PartFacts ==
    ASSUME ServerTypeOK, NEW from, Picked(prefetch_queue_', prefetch_queue_, from)
    PROVE  /\ \A i \in DOMAIN prefetch_queue_' :
                /\ from[i] \in DOMAIN prefetch_queue_
                /\ prefetch_queue_'[i] = prefetch_queue_[from[i]]
                /\ prefetch_queue_'[i].session_id \in Sessions
           /\ \A i, j \in DOMAIN prefetch_queue_' : from[i] = from[j] => i = j
           /\ \A x : Queued(x)' => Queued(x)
           /\ QueuedKeys' \subseteq QueuedKeys
<1>1. /\ \A i \in DOMAIN prefetch_queue_' :
            /\ from[i] \in DOMAIN prefetch_queue_
            /\ prefetch_queue_'[i] = prefetch_queue_[from[i]]
      /\ \A i, j \in DOMAIN prefetch_queue_' : from[i] = from[j] => i = j
  BY DEF Picked
<1>2. \A i \in DOMAIN prefetch_queue_' : prefetch_queue_'[i].session_id \in Sessions
  BY <1>1, QueueFacts
<1>3. \A x : Queued(x)' => Queued(x)
  BY <1>1 DEF Queued
<1>4. QueuedKeys' \subseteq QueuedKeys
  BY <1>1 DEF QueuedKeys
<1> QED BY <1>1, <1>2, <1>3, <1>4

LEMMA CloseInv ==
    ASSUME ServerInv, NEW c \in Clients, Close(c)
    PROVE  ServerPart'
<1> USE DEF ServerInv, ServerPart
<1> DEFINE s == session_id[c]
<1>1. /\ at[c] = "close" /\ StopSession(s)
      /\ at' = [at EXCEPT ![c] = "none"]
      /\ req' = [req EXCEPT ![c] = NoRequest]
      /\ session_id' = [session_id EXCEPT ![c] = NoSession]
      /\ UNCHANGED <<vars, task, worker, stop_prefetch_worker_>>
  BY DEF Close, workerVars, lifeVars
<1>2. /\ session_id'[c] = NoSession /\ at'[c] = "none"
      /\ \A d \in Clients : d # c => /\ session_id'[d] = session_id[d]
                                   /\ at'[d] = at[d] /\ req'[d] = req[d]
      /\ s \in Sessions \cup {NoSession}
  BY <1>1 DEF ServerTypeOK
<1>3. /\ at' \in [Clients -> {"none", "probe", "open", "load", "close"}]
      /\ req' \in [Clients -> [file : Files \cup {"none"}, block : Nat, left : Nat]]
      /\ session_id' \in [Clients -> Sessions \cup {NoSession}]
  <2>1. NoRequest \in [file : Files \cup {"none"}, block : Nat, left : Nat]
    BY DEF NoRequest
  <2> QED BY <1>1, <2>1 DEF ServerTypeOK
<1>4. ClientInv'
  BY <1>2 DEF ClientInv
<1>5. CallInv'
  <2>1. pc[c] = Idle
    BY <1>1 DEF CallInv
  <2> QED BY <1>1, <1>2, <2>1 DEF CallInv, vars, threadVars
<1>6. CASE s = NoSession
  <2>1. session_id' = session_id /\ UNCHANGED prefetchVars
    BY <1>1, <1>6 DEF StopSession, ServerTypeOK
  <2>2. ServerTypeOK'
    BY <1>1, <1>3, <2>1 DEF ServerTypeOK, prefetchVars
  <2>3. AheadInv'
    <3>1. \A d \in Clients : session_id[d] # NoSession => req'[d] = req[d]
      BY <1>2, <1>6
    <3> QED BY <2>1, <3>1, QuietAhead DEF prefetchVars, ServerTypeOK
  <2> QED BY <1>1, <1>4, <1>5, <2>1, <2>2, <2>3, QuietPrefetch DEF workerVars
<1>7. CASE s # NoSession
  <2>1. /\ s \in Sessions /\ LockFree
        /\ prefetch_sessions_' = [prefetch_sessions_ EXCEPT ![s] = Gone]
        /\ prefetch_queue_' = Without(prefetch_queue_, s)
        /\ prefetch_pending_keys_' = prefetch_pending_keys_ \ KeysOf(prefetch_queue_, s)
        /\ UNCHANGED <<prefetch_holder, scanned>>
    BY <1>1, <1>2, <1>7 DEF StopSession
  <2>2. /\ prefetch_sessions_' \in [Sessions -> Session \cup {Gone}]
        /\ \A x \in Sessions : x # s => prefetch_sessions_'[x] = prefetch_sessions_[x]
        /\ \A x \in Sessions : Live(x)' <=> Live(x) /\ x # s
        /\ \A x \in Sessions : Live(x)' => (Flag(x)' <=> Flag(x))
    BY <2>1 DEF ServerTypeOK, Live, Flag
  <2>3. prefetch_queue_ \in Seq(Task)
    BY DEF ServerTypeOK
  <2>4. PICK from : /\ Picked(prefetch_queue_', prefetch_queue_, from)
                    /\ \A i \in DOMAIN prefetch_queue_ : prefetch_queue_[i].session_id # s <=>
                            \E j \in DOMAIN prefetch_queue_' : from[j] = i
    BY <2>1, <2>3, WithoutLemma
  <2>5. /\ \A i \in DOMAIN prefetch_queue_' :
             /\ from[i] \in DOMAIN prefetch_queue_
             /\ prefetch_queue_'[i] = prefetch_queue_[from[i]]
             /\ prefetch_queue_'[i].session_id \in Sessions
             /\ prefetch_queue_'[i].session_id # s
        /\ \A i, j \in DOMAIN prefetch_queue_' : from[i] = from[j] => i = j
        /\ \A x : Queued(x)' => Queued(x)
        /\ QueuedKeys' \subseteq QueuedKeys
    BY <2>4, PartFacts
  <2>6. ServerTypeOK'
    <3>1. prefetch_queue_' \in Seq(Task)
      BY <2>1, <2>3, WithoutLemma
    <3> QED BY <1>1, <1>3, <2>1, <2>2, <3>1 DEF ServerTypeOK
  <2>7. \A d \in Clients : d # c => session_id[d] # s
    BY <1>7 DEF SessionInv
  <2>8. SessionInv'
    <3>1. ASSUME NEW x \in Sessions, Live(x)'
          PROVE  prefetch_sessions_'[x].next_block_index >= 1 /\ \E d \in Clients : session_id'[d] = x
      <4>1. x # s /\ Live(x)
        BY <2>2, <3>1
      <4>2. PICK d \in Clients : session_id[d] = x
        BY <4>1 DEF SessionInv
      <4>3. d # c
        BY <4>1, <4>2
      <4> QED BY <1>2, <2>2, <4>1, <4>2, <4>3 DEF SessionInv
    <3>2. ASSUME NEW d \in Clients, NEW x \in Sessions, ~stop_prefetch_worker_', session_id'[d] = x
          PROVE  Live(x)'
      <4>1. d # c
        BY <1>2, <3>2, ServerConstants
      <4> QED BY <1>1, <1>2, <2>2, <2>7, <3>2, <4>1 DEF SessionInv
    <3>3. \A d, e \in Clients : session_id'[d] = session_id'[e] /\ session_id'[d] # NoSession => d = e
      BY <1>2 DEF SessionInv
    <3> QED BY <3>1, <3>2, <3>3 DEF SessionInv
  <2>9. TaskInv'
    <3>1. (worker = "load" <=> task # NoTask)'
      BY <1>1 DEF TaskInv
    <3>2. ASSUME NEW x \in Sessions, Queued(x)'
          PROVE  Live(x)' /\ Flag(x)' /\ task'.session_id # x
      <4>1. Queued(x) /\ x # s
        BY <2>5, <3>2 DEF Queued
      <4> QED BY <1>1, <2>2, <4>1 DEF TaskInv
    <3>3. \A i, j \in DOMAIN prefetch_queue_' :
            prefetch_queue_'[i].session_id = prefetch_queue_'[j].session_id => i = j
      BY <2>5 DEF TaskInv
    <3>4. \A x \in Sessions : Live(x)' /\ task'.session_id = x => Flag(x)'
      BY <1>1, <2>2 DEF TaskInv
    <3>5. ASSUME NEW x \in Sessions, Live(x)', Flag(x)', task'.session_id # x
          PROVE  Queued(x)'
      <4>1. Queued(x) /\ x # s
        BY <1>1, <2>2, <3>5 DEF TaskInv
      <4>2. PICK i \in DOMAIN prefetch_queue_ : prefetch_queue_[i].session_id = x
        BY <4>1 DEF Queued
      <4>3. PICK j \in DOMAIN prefetch_queue_' : from[j] = i
        BY <2>4, <4>1, <4>2
      <4> QED BY <2>5, <4>2, <4>3 DEF Queued
    <3> QED BY <3>1, <3>2, <3>3, <3>4, <3>5 DEF TaskInv
  <2>10. PendingInv'
    <3> SUFFICES ASSUME ~stop_prefetch_worker_
                 PROVE  /\ prefetch_pending_keys_' = QueuedKeys' \cup TaskKeys'
                        /\ QueuedKeys' \cap TaskKeys' = {}
                        /\ \A i, j \in DOMAIN prefetch_queue_' :
                            prefetch_queue_'[i].cache_key = prefetch_queue_'[j].cache_key => i = j
      BY <1>1 DEF PendingInv
    <3>1. TaskKeys' = TaskKeys
      BY <1>1 DEF TaskKeys
    <3>2. \A i, j \in DOMAIN prefetch_queue_ :
            prefetch_queue_[i].cache_key = prefetch_queue_[j].cache_key => i = j
      BY DEF PendingInv
    <3>3. QueuedKeys' = QueuedKeys \ KeysOf(prefetch_queue_, s)
      <4>1. ASSUME NEW k \in QueuedKeys'
            PROVE  k \in QueuedKeys /\ k \notin KeysOf(prefetch_queue_, s)
        <5>1. PICK j \in DOMAIN prefetch_queue_' : prefetch_queue_'[j].cache_key = k
          BY <4>1 DEF QueuedKeys
        <5>2. /\ from[j] \in DOMAIN prefetch_queue_ /\ prefetch_queue_[from[j]].cache_key = k
              /\ prefetch_queue_[from[j]].session_id # s
          BY <2>5, <5>1
        <5> QED BY <3>2, <5>2 DEF QueuedKeys, KeysOf
      <4>2. ASSUME NEW k \in QueuedKeys, k \notin KeysOf(prefetch_queue_, s)
            PROVE  k \in QueuedKeys'
        <5>1. PICK i \in DOMAIN prefetch_queue_ : prefetch_queue_[i].cache_key = k
          BY <4>2 DEF QueuedKeys
        <5>2. prefetch_queue_[i].session_id # s
          BY <4>2, <5>1 DEF KeysOf
        <5>3. PICK j \in DOMAIN prefetch_queue_' : from[j] = i
          BY <2>4, <5>1, <5>2
        <5> QED BY <2>5, <5>1, <5>3 DEF QueuedKeys
      <4> QED BY <4>1, <4>2
    <3>4. KeysOf(prefetch_queue_, s) \subseteq QueuedKeys
      BY DEF KeysOf, QueuedKeys
    <3>5. prefetch_pending_keys_ = QueuedKeys \cup TaskKeys /\ QueuedKeys \cap TaskKeys = {}
      BY DEF PendingInv
    <3>6. prefetch_pending_keys_' = QueuedKeys' \cup TaskKeys' /\ QueuedKeys' \cap TaskKeys' = {}
      BY <2>1, <3>1, <3>3, <3>4, <3>5
    <3>7. \A i, j \in DOMAIN prefetch_queue_' :
            prefetch_queue_'[i].cache_key = prefetch_queue_'[j].cache_key => i = j
      BY <2>5, <3>2
    <3> QED BY <3>6, <3>7
  <2>11. AheadInv'
    <3>1. ASSUME NEW d \in Clients, NEW i \in DOMAIN prefetch_queue_',
                 prefetch_queue_'[i].session_id = session_id'[d]
          PROVE  prefetch_queue_'[i].block_index <= req'[d].block + 1
      <4>1. d # c
        BY <1>2, <2>5, <3>1, ServerConstants
      <4> QED BY <1>2, <2>5, <3>1, <4>1 DEF AheadInv, AtMostOneBlockAhead
    <3>2. ASSUME NEW d \in Clients, NEW x \in Sessions, session_id'[d] = x, Live(x)'
          PROVE  prefetch_sessions_'[x].allowed_block_index <= req'[d].block + 1
      <4>1. d # c
        BY <1>2, <3>2, ServerConstants
      <4> QED BY <1>2, <2>2, <3>2, <4>1 DEF AheadInv
    <3> QED BY <3>1, <3>2 DEF AheadInv, AtMostOneBlockAhead
  <2>12. ScanInv'
    BY <2>1 DEF ScanInv, LockFree
  <2> QED BY <1>4, <1>5, <2>6, <2>8, <2>9, <2>10, <2>11, <2>12
<1> QED BY <1>6, <1>7

-----------------------------------------------------------------------------
(* enqueue_next_prefetch_locked. *)

LEMMA QuietCalls ==
    ASSUME ServerPart, UNCHANGED <<vars, at, req, session_id, task, worker>>
    PROVE  ClientInv' /\ CallInv'
  BY DEF ServerPart, ClientInv, CallInv, vars, threadVars

(* The sessions keep what they allow, and the queue its tasks.              *)
LEMMA AheadFrame ==
    ASSUME ServerPart, UNCHANGED <<prefetch_queue_, session_id, req>>,
           \A x \in Sessions : Live(x)' => Live(x),
           \A x \in Sessions : Live(x) =>
                prefetch_sessions_'[x].allowed_block_index = prefetch_sessions_[x].allowed_block_index
    PROVE  AheadInv'
<1>1. AtMostOneBlockAhead'
  BY DEF ServerPart, AheadInv, AtMostOneBlockAhead
<1>2. \A c \in Clients, s \in Sessions : session_id'[c] = s /\ Live(s)' =>
        prefetch_sessions_'[s].allowed_block_index <= req'[c].block + 1
  BY DEF ServerPart, AheadInv
<1> QED BY <1>1, <1>2 DEF AheadInv

LEMMA ScanStepInv ==
    ASSUME ServerInv, NEW t \in Threads, Scan(t)
    PROVE  ServerPart'
<1> USE DEF ServerInv, ServerPart
<1> DEFINE s == prefetch_sessions_[scanned]
           b == s.next_block_index
           k == Blocks[s.file][b]
<1>1. /\ prefetch_holder = t /\ UNCHANGED <<vars, at, req, session_id, task, worker, stop_prefetch_worker_>>
  BY DEF Scan, clientVars, workerVars, lifeVars
<1>2. /\ scanned \in Sessions /\ Live(scanned) /\ s \in Session
      /\ b \in Nat /\ b >= 1 /\ s.file \in Files /\ s.allowed_block_index \in Nat
  <2>1. scanned \in Sessions /\ Live(scanned)
    BY <1>1, ServerConstants DEF ScanInv
  <2>2. s \in Session /\ b >= 1
    BY <2>1 DEF ServerTypeOK, SessionInv, Live
  <2> QED BY <2>1, <2>2 DEF Session
<1>3. ClientInv' /\ CallInv'
  BY <1>1, QuietCalls
<1>4. CASE s.task_inflight_or_queued \/ b > Len(Blocks[s.file]) \/ b > s.allowed_block_index
  <2>1. LeaveScan /\ UNCHANGED <<prefetch_sessions_, prefetch_queue_, prefetch_pending_keys_>>
    BY <1>4 DEF Scan
  <2>2. ServerTypeOK' /\ SessionInv' /\ ScanInv'
    BY <1>1, <2>1 DEF LeaveScan, ServerTypeOK, SessionInv, ScanInv, Live
  <2>3. /\ \A x \in Sessions : Live(x)' <=> Live(x)
        /\ \A x \in Sessions : Live(x) => Flag(x)' = Flag(x)
    BY <2>1 DEF Live, Flag
  <2> QED BY <1>1, <1>3, <2>1, <2>2, <2>3, TaskFrame, PendingFrame, AheadFrame
<1>5. CASE /\ ~(s.task_inflight_or_queued \/ b > Len(Blocks[s.file]) \/ b > s.allowed_block_index)
           /\ k \in prefetch_pending_keys_ \/ Cached(k)
  <2> DEFINE r == [s EXCEPT !.next_block_index = b + 1]
  <2>1. /\ prefetch_sessions_' = [prefetch_sessions_ EXCEPT ![scanned] = r]
        /\ UNCHANGED <<prefetch_queue_, prefetch_pending_keys_, prefetch_holder, scanned>>
    BY <1>5 DEF Scan, ServerTypeOK
  <2>2. /\ r \in Session /\ r.next_block_index >= 1
        /\ r.allowed_block_index = s.allowed_block_index
        /\ r.task_inflight_or_queued = Flag(scanned)
    <3>1. b + 1 >= 1 /\ b <= s.allowed_block_index
      BY <1>2, <1>5
    <3>2. r \in Session
      BY <1>2, <3>1, SessionScanned
    <3> QED BY <1>2, <3>1, <3>2 DEF Session, Flag
  <2> HIDE DEF r
  <2>3. /\ prefetch_sessions_' \in [Sessions -> Session \cup {Gone}]
        /\ prefetch_sessions_'[scanned] = r
        /\ \A x \in Sessions : x # scanned => prefetch_sessions_'[x] = prefetch_sessions_[x]
        /\ \A x \in Sessions : Live(x)' <=> Live(x)
        /\ SessionInv'
    BY <1>1, <1>2, <2>1, <2>2, SessionUpdate
  <2>4. ServerTypeOK' /\ ScanInv'
    BY <1>1, <1>2, <2>1, <2>3 DEF ServerTypeOK, ScanInv
  <2>5. /\ \A x \in Sessions : Live(x) => Flag(x)' = Flag(x)
        /\ \A x \in Sessions : Live(x) =>
                prefetch_sessions_'[x].allowed_block_index = prefetch_sessions_[x].allowed_block_index
    BY <2>2, <2>3 DEF Flag
  <2>6. AheadInv'
    BY <1>1, <2>1, <2>3, <2>5, AheadFrame
  <2> QED BY <1>1, <1>3, <2>1, <2>3, <2>4, <2>5, <2>6, TaskFrame, PendingFrame
<1>6. CASE /\ ~(s.task_inflight_or_queued \/ b > Len(Blocks[s.file]) \/ b > s.allowed_block_index)
           /\ ~(k \in prefetch_pending_keys_ \/ Cached(k))
  <2> DEFINE r == [s EXCEPT !.next_block_index = b + 1, !.task_inflight_or_queued = TRUE]
             new == [session_id |-> scanned, cache_key |-> k, block_index |-> b]
             len == Len(prefetch_queue_)
  <2>1. /\ prefetch_sessions_' = [prefetch_sessions_ EXCEPT ![scanned] = r]
        /\ prefetch_pending_keys_' = prefetch_pending_keys_ \cup {k}
        /\ prefetch_queue_' = Append(prefetch_queue_, new)
        /\ prefetch_holder' = Nobody /\ scanned' = NoSession
    BY <1>6 DEF Scan, ServerTypeOK, LeaveScan
  <2>2. /\ r \in Session /\ r.next_block_index >= 1
        /\ r.allowed_block_index = s.allowed_block_index
        /\ r.task_inflight_or_queued = TRUE
    <3>1. b + 1 >= 1 /\ b <= s.allowed_block_index
      BY <1>2, <1>6
    <3>2. r \in Session
      BY <1>2, <3>1, SessionScanned
    <3> QED BY <1>2, <3>1, <3>2 DEF Session
  <2>3. k \in Keys /\ b <= s.allowed_block_index
    <3>1. Len(Blocks[s.file]) \in Nat
      BY <1>2, ServerConstants
    <3>2. b \in 1..Len(Blocks[s.file])
      BY <1>2, <1>6, <3>1
    <3> QED BY <1>2, <1>6, <3>2, ServerConstants
  <2>4. new \in Task
    BY <1>2, <2>3 DEF Task
  <2>5. /\ new.session_id = scanned /\ new.cache_key = k /\ new.block_index = b
        /\ ~Flag(scanned) /\ k \notin prefetch_pending_keys_
    BY <1>6 DEF Flag
  <2> HIDE DEF r, new, s, b, k
  <2>6. /\ prefetch_sessions_' \in [Sessions -> Session \cup {Gone}]
        /\ prefetch_sessions_'[scanned] = r
        /\ \A x \in Sessions : x # scanned => prefetch_sessions_'[x] = prefetch_sessions_[x]
        /\ \A x \in Sessions : Live(x)' <=> Live(x)
        /\ SessionInv'
    <3>1. UNCHANGED <<session_id, stop_prefetch_worker_>>
      BY <1>1
    <3> QED BY <1>2, <2>1, <2>2, <3>1, SessionUpdate
  <2>7. /\ len \in Nat /\ DOMAIN prefetch_queue_ = 1..len
        /\ DOMAIN prefetch_queue_' = 1 .. len + 1
        /\ prefetch_queue_'[len + 1] = new
        /\ \A i \in 1..len : prefetch_queue_'[i] = prefetch_queue_[i]
        /\ prefetch_queue_' \in Seq(Task)
    <3>1. prefetch_queue_ \in Seq(Task)
      BY DEF ServerTypeOK
    <3> QED BY <2>1, <2>4, <3>1, AppendProperties, LenProperties
  <2>8. ServerTypeOK'
    BY <1>1, <2>1, <2>3, <2>6, <2>7 DEF ServerTypeOK
  <2> PICK z \in Sessions : z = scanned
    BY <1>2
  <2>9. Flag(z)' /\ \A x \in Sessions : x # z => Flag(x)' = Flag(x)
    BY <2>2, <2>6 DEF Flag
  <2>10. \A x \in Sessions : Queued(x)' <=> Queued(x) \/ x = z
    BY <2>5, <2>7 DEF Queued
  <2>11. Live(z) /\ ~Queued(z) /\ task.session_id # z
    BY <1>2, <2>5 DEF TaskInv, Live, Flag
  <2>12. TaskInv'
    <3>1. (worker = "load" <=> task # NoTask)'
      BY <1>1 DEF TaskInv
    <3>2. \A x \in Sessions : Queued(x)' => Live(x)' /\ Flag(x)' /\ task'.session_id # x
      BY <1>1, <1>2, <2>6, <2>9, <2>10, <2>11 DEF TaskInv
    <3>3. ASSUME NEW i \in DOMAIN prefetch_queue_', NEW j \in DOMAIN prefetch_queue_',
                 prefetch_queue_'[i].session_id = prefetch_queue_'[j].session_id
          PROVE  i = j
      <4>1. \A h \in 1..len : prefetch_queue_'[h].session_id # z
        BY <2>7, <2>11 DEF Queued
      <4>2. CASE i \in 1..len /\ j \in 1..len
        BY <2>7, <3>3, <4>2 DEF TaskInv
      <4>3. CASE i \notin 1..len \/ j \notin 1..len
        BY <2>5, <2>7, <3>3, <4>1, <4>3
      <4> QED BY <4>2, <4>3
    <3>4. \A x \in Sessions : Live(x)' /\ task'.session_id = x => Flag(x)'
      BY <1>1, <2>6, <2>9 DEF TaskInv
    <3>5. \A x \in Sessions : Live(x)' /\ Flag(x)' => Queued(x)' \/ task'.session_id = x
      BY <1>1, <2>6, <2>9, <2>10 DEF TaskInv
    <3> QED BY <3>1, <3>2, <3>3, <3>4, <3>5 DEF TaskInv
  <2>13. PendingInv'
    <3> SUFFICES ASSUME ~stop_prefetch_worker_
                 PROVE  /\ prefetch_pending_keys_' = QueuedKeys' \cup TaskKeys'
                        /\ QueuedKeys' \cap TaskKeys' = {}
                        /\ \A i, j \in DOMAIN prefetch_queue_' :
                            prefetch_queue_'[i].cache_key = prefetch_queue_'[j].cache_key => i = j
      BY <1>1 DEF PendingInv
    <3>1. prefetch_pending_keys_ = QueuedKeys \cup TaskKeys /\ QueuedKeys \cap TaskKeys = {}
      BY DEF PendingInv
    <3>2. QueuedKeys' = QueuedKeys \cup {k} /\ TaskKeys' = TaskKeys
      BY <1>1, <2>5, <2>7 DEF QueuedKeys, TaskKeys
    <3>3. ASSUME NEW i \in DOMAIN prefetch_queue_', NEW j \in DOMAIN prefetch_queue_',
                 prefetch_queue_'[i].cache_key = prefetch_queue_'[j].cache_key
          PROVE  i = j
      <4>1. \A h \in 1..len : prefetch_queue_'[h].cache_key # k
        BY <2>5, <2>7, <3>1 DEF QueuedKeys
      <4>2. CASE i \in 1..len /\ j \in 1..len
        BY <2>7, <3>3, <4>2 DEF PendingInv
      <4>3. CASE i \notin 1..len \/ j \notin 1..len
        BY <2>5, <2>7, <3>3, <4>1, <4>3
      <4> QED BY <4>2, <4>3
    <3> QED BY <2>1, <2>5, <3>1, <3>2, <3>3
  <2>14. AheadInv'
    <3>1. ASSUME NEW c \in Clients, NEW i \in DOMAIN prefetch_queue_',
                 prefetch_queue_'[i].session_id = session_id'[c]
          PROVE  prefetch_queue_'[i].block_index <= req'[c].block + 1
      <4>1. CASE i \in 1..len
        BY <1>1, <2>7, <3>1, <4>1 DEF AheadInv, AtMostOneBlockAhead
      <4>2. CASE i \notin 1..len
        <5>1. i = len + 1 /\ session_id[c] = scanned /\ prefetch_queue_'[i].block_index = b
          BY <1>1, <2>5, <2>7, <3>1, <4>2
        <5>2. s.allowed_block_index <= req[c].block + 1
          BY <1>2, <5>1 DEF AheadInv, s
        <5>3. req[c].block \in Nat
          BY DEF ServerTypeOK
        <5> QED BY <1>1, <1>2, <2>3, <5>1, <5>2, <5>3
      <4> QED BY <4>1, <4>2
    <3>2. ASSUME NEW c \in Clients, NEW x \in Sessions, session_id'[c] = x, Live(x)'
          PROVE  prefetch_sessions_'[x].allowed_block_index <= req'[c].block + 1
      <4>1. prefetch_sessions_'[x].allowed_block_index = prefetch_sessions_[x].allowed_block_index
        BY <2>2, <2>6 DEF s
      <4> QED BY <1>1, <2>6, <3>2, <4>1 DEF AheadInv
    <3> QED BY <3>1, <3>2 DEF AheadInv, AtMostOneBlockAhead
  <2>15. ScanInv'
    BY <2>1 DEF ScanInv
  <2> QED BY <1>3, <2>6, <2>8, <2>12, <2>13, <2>14, <2>15
<1> QED BY <1>4, <1>5, <1>6

-----------------------------------------------------------------------------
(* The worker. *)

LEMMA TakeInv ==
    ASSUME ServerInv, Take
    PROVE  ServerPart'
<1> USE DEF ServerInv, ServerPart
<1> DEFINE head == prefetch_queue_[1]
<1>1. /\ worker = "wait" /\ task = NoTask /\ LockFree /\ prefetch_queue_ # <<>>
      /\ prefetch_queue_' = Tail(prefetch_queue_)
      /\ UNCHANGED <<vars, at, req, session_id, prefetch_sessions_, prefetch_holder, scanned,
                     stop_prefetch_worker_>>
  BY DEF Take, TaskInv, clientVars, lifeVars
<1>2. prefetch_queue_ \in Seq(Task)
  BY DEF ServerTypeOK
<1>3. /\ prefetch_queue_' \in Seq(Task)
      /\ 1 \in DOMAIN prefetch_queue_ /\ Head(prefetch_queue_) = head
  BY <1>1, <1>2, TailLemma
<1>4. PICK from : /\ Picked(prefetch_queue_', prefetch_queue_, from)
                  /\ \A i \in DOMAIN prefetch_queue_ : i # 1 <=>
                        \E j \in DOMAIN prefetch_queue_' : from[j] = i
  BY <1>1, <1>2, TailLemma
<1>5. /\ \A i \in DOMAIN prefetch_queue_' :
           /\ from[i] \in DOMAIN prefetch_queue_ /\ from[i] # 1
           /\ prefetch_queue_'[i] = prefetch_queue_[from[i]]
      /\ \A i, j \in DOMAIN prefetch_queue_' : from[i] = from[j] => i = j
      /\ \A x : Queued(x)' => Queued(x)
      /\ QueuedKeys' \subseteq QueuedKeys
  BY <1>4, PartFacts
<1> PICK z \in Sessions : z = head.session_id
  BY <1>3, QueueFacts
<1>6. Queued(z) /\ Live(z) /\ Flag(z)
  BY <1>3 DEF TaskInv, Queued
<1>7. task' = head /\ worker' = "load" /\ UNCHANGED prefetch_pending_keys_
  BY <1>3, <1>6 DEF Take, Live
<1>8. head \in Task /\ head # NoTask
  BY <1>3, QueueFacts, ServerConstants DEF NoTask
<1>9. ServerTypeOK' /\ ClientInv' /\ SessionInv' /\ ScanInv'
  BY <1>1, <1>3, <1>7, <1>8 DEF ServerTypeOK, ClientInv, SessionInv, ScanInv, Live, LockFree
<1>10. CallInv'
  BY <1>1, <1>7 DEF CallInv, vars, threadVars
<1>11. TaskInv'
  <2>1. /\ \A x \in Sessions : Live(x)' <=> Live(x)
        /\ \A x \in Sessions : Flag(x)' = Flag(x)
    BY <1>1 DEF Live, Flag
  <2>2. ASSUME NEW x \in Sessions, Queued(x)'
        PROVE  Live(x)' /\ Flag(x)' /\ task'.session_id # x
    <3>1. PICK i \in DOMAIN prefetch_queue_' : prefetch_queue_'[i].session_id = x
      BY <2>2 DEF Queued
    <3>2. head.session_id # x
      BY <1>3, <1>5, <3>1 DEF TaskInv
    <3> QED BY <1>5, <1>7, <2>1, <2>2, <3>2 DEF TaskInv
  <2>3. \A i, j \in DOMAIN prefetch_queue_' :
            prefetch_queue_'[i].session_id = prefetch_queue_'[j].session_id => i = j
    BY <1>5 DEF TaskInv
  <2>4. \A x \in Sessions : Live(x)' /\ task'.session_id = x => Flag(x)'
    BY <1>6, <1>7, <2>1
  <2>5. ASSUME NEW x \in Sessions, Live(x)', Flag(x)', task'.session_id # x
        PROVE  Queued(x)'
    <3>1. Queued(x)
      BY <1>1, <2>1, <2>5, ServerConstants DEF TaskInv, NoTask
    <3>2. PICK i \in DOMAIN prefetch_queue_ : prefetch_queue_[i].session_id = x
      BY <3>1 DEF Queued
    <3>3. PICK j \in DOMAIN prefetch_queue_' : from[j] = i
      BY <1>4, <1>7, <2>5, <3>2
    <3> QED BY <1>5, <3>2, <3>3 DEF Queued
  <2> QED BY <1>7, <1>8, <2>2, <2>3, <2>4, <2>5 DEF TaskInv
<1>12. PendingInv'
  <2> SUFFICES ASSUME ~stop_prefetch_worker_
               PROVE  /\ prefetch_pending_keys_' = QueuedKeys' \cup TaskKeys'
                      /\ QueuedKeys' \cap TaskKeys' = {}
                      /\ \A i, j \in DOMAIN prefetch_queue_' :
                          prefetch_queue_'[i].cache_key = prefetch_queue_'[j].cache_key => i = j
    BY <1>1 DEF PendingInv
  <2>1. /\ prefetch_pending_keys_ = QueuedKeys
        /\ \A i, j \in DOMAIN prefetch_queue_ :
             prefetch_queue_[i].cache_key = prefetch_queue_[j].cache_key => i = j
    BY <1>1 DEF PendingInv, TaskKeys
  <2>2. TaskKeys' = {head.cache_key}
    BY <1>7, <1>8 DEF TaskKeys
  <2>3. QueuedKeys' = QueuedKeys \ {head.cache_key}
    <3>1. ASSUME NEW k \in QueuedKeys'
          PROVE  k \in QueuedKeys /\ k # head.cache_key
      <4>1. PICK j \in DOMAIN prefetch_queue_' : prefetch_queue_'[j].cache_key = k
        BY <3>1 DEF QueuedKeys
      <4> QED BY <1>3, <1>5, <2>1, <4>1 DEF QueuedKeys
    <3>2. ASSUME NEW k \in QueuedKeys, k # head.cache_key
          PROVE  k \in QueuedKeys'
      <4>1. PICK i \in DOMAIN prefetch_queue_ : prefetch_queue_[i].cache_key = k
        BY <3>2 DEF QueuedKeys
      <4>2. PICK j \in DOMAIN prefetch_queue_' : from[j] = i
        BY <1>4, <3>2, <4>1
      <4> QED BY <1>5, <4>1, <4>2 DEF QueuedKeys
    <3> QED BY <3>1, <3>2
  <2>4. head.cache_key \in QueuedKeys
    BY <1>3 DEF QueuedKeys
  <2>5. prefetch_pending_keys_' = QueuedKeys' \cup TaskKeys' /\ QueuedKeys' \cap TaskKeys' = {}
    BY <1>7, <2>1, <2>2, <2>3, <2>4
  <2>6. \A i, j \in DOMAIN prefetch_queue_' :
            prefetch_queue_'[i].cache_key = prefetch_queue_'[j].cache_key => i = j
    BY <1>5, <2>1
  <2> QED BY <2>5, <2>6
<1>13. AheadInv'
  <2>1. AtMostOneBlockAhead'
    BY <1>1, <1>5 DEF AheadInv, AtMostOneBlockAhead
  <2>2. \A c \in Clients, s \in Sessions : session_id'[c] = s /\ Live(s)' =>
          prefetch_sessions_'[s].allowed_block_index <= req'[c].block + 1
    BY <1>1 DEF AheadInv, Live
  <2> QED BY <2>1, <2>2 DEF AheadInv
<1> QED BY <1>9, <1>10, <1>11, <1>12, <1>13

LEMMA AskPrefetchInv ==
    ASSUME ServerInv, AskPrefetch
    PROVE  ServerPart'
<1> USE DEF ServerInv, ServerPart
<1>1. /\ UNCHANGED serverVars /\ Worker \in Threads /\ TypeOK /\ worker = "load"
      /\ Ask(Worker, task.cache_key)
  BY ServerConstants DEF AskPrefetch, IInv
<1>2. UNCHANGED <<at, req, session_id, prefetchVars, workerVars, lifeVars>>
  BY <1>1 DEF serverVars, clientVars
<1>3. CallInv'
  <2>1. key'[Worker] = task.cache_key /\ \A u \in Threads : u # Worker => pc'[u] = pc[u] /\ key'[u] = key[u]
    BY <1>1, AskEffect
  <2> QED BY <1>1, <1>2, <2>1, ServerConstants DEF CallInv, workerVars
<1>4. ServerTypeOK' /\ ClientInv'
  BY <1>2 DEF ServerTypeOK, ClientInv, prefetchVars, workerVars
<1>5. AheadInv'
  BY <1>2, QuietAhead DEF prefetchVars, ServerTypeOK
<1> QED BY <1>2, <1>3, <1>4, <1>5, QuietPrefetch DEF lifeVars

LEMMA FinishTaskInv ==
    ASSUME ServerInv, FinishTask
    PROVE  ServerPart'
<1> USE DEF ServerInv, ServerPart
<1>1. /\ worker = "load" /\ TypeOK /\ Worker \in Threads
      /\ Return(Worker) \/ (pc[Worker] = Idle /\ UNCHANGED vars)
      /\ task' = NoTask /\ worker' = "wait"
      /\ prefetch_pending_keys_' = prefetch_pending_keys_ \ {task.cache_key}
      /\ UNCHANGED <<at, req, session_id, prefetch_queue_, stop_prefetch_worker_>>
  BY ServerConstants DEF FinishTask, IInv, clientVars, lifeVars
<1>2. task \in Task /\ task # NoTask /\ task.session_id \in Sessions
  BY <1>1, AskedKeys DEF TaskInv, Task
<1>3. CallInv'
  <2>1. pc'[Worker] = Idle /\ \A u \in Threads : u # Worker => pc'[u] = pc[u] /\ key'[u] = key[u]
    BY <1>1, ReturnEffect DEF vars, threadVars
  <2> QED BY <1>1, <2>1, ServerConstants DEF CallInv
<1>4. ClientInv'
  BY <1>1 DEF ClientInv
<1>5. PendingInv'
  <2>1. TaskKeys = {task.cache_key} /\ TaskKeys' = {} /\ QueuedKeys' = QueuedKeys
    BY <1>1, <1>2 DEF TaskKeys, QueuedKeys
  <2>2. ~stop_prefetch_worker_ => prefetch_pending_keys_' = QueuedKeys
    BY <1>1, <2>1 DEF PendingInv
  <2> QED BY <1>1, <2>1, <2>2 DEF PendingInv
<1> PICK z \in Sessions : z = task.session_id
  BY <1>2
<1>6. ~Queued(z) /\ \A x : Queued(x)' <=> Queued(x)
  BY <1>1 DEF TaskInv, Queued
<1>7. CASE ~Live(z)
  <2>1. UNCHANGED <<prefetch_sessions_, prefetch_holder, scanned>>
    BY <1>7 DEF FinishTask, Live
  <2>2. ServerTypeOK' /\ SessionInv' /\ ScanInv'
    BY <1>1, <2>1 DEF ServerTypeOK, SessionInv, ScanInv, Live
  <2>3. /\ \A x \in Sessions : Live(x)' <=> Live(x)
        /\ \A x \in Sessions : Flag(x)' = Flag(x)
    BY <2>1 DEF Live, Flag
  <2>4. TaskInv'
    <3>1. NoTask.session_id = NoSession
      BY DEF NoTask
    <3>2. (worker = "load" <=> task # NoTask)'
      BY <1>1
    <3>3. \A i, j \in DOMAIN prefetch_queue_' :
            prefetch_queue_'[i].session_id = prefetch_queue_'[j].session_id => i = j
      BY <1>1 DEF TaskInv
    <3>4. \A x \in Sessions : Queued(x)' => Live(x)' /\ Flag(x)' /\ task'.session_id # x
      BY <1>1, <1>6, <2>3, <3>1, ServerConstants DEF TaskInv
    <3>5. \A x \in Sessions : task'.session_id # x
      BY <1>1, <3>1, ServerConstants
    <3>6. \A x \in Sessions : Live(x)' /\ Flag(x)' => Queued(x)'
      BY <1>6, <1>7, <2>3 DEF TaskInv
    <3> QED BY <3>2, <3>3, <3>4, <3>5, <3>6 DEF TaskInv
  <2>5. AheadInv'
    BY <1>1, <2>1, <2>3, AheadFrame
  <2> QED BY <1>3, <1>4, <1>5, <2>2, <2>4, <2>5
<1>8. CASE Live(z)
  <2> DEFINE old == prefetch_sessions_[z]
             r == [old EXCEPT !.task_inflight_or_queued = FALSE]
  <2>1. /\ prefetch_sessions_' = [prefetch_sessions_ EXCEPT ![z] = r]
        /\ prefetch_holder' = Worker /\ scanned' = z
    BY <1>8 DEF FinishTask, EnterScan, ServerTypeOK, Live
  <2>2. old \in Session /\ old.next_block_index >= 1
    BY <1>8 DEF ServerTypeOK, SessionInv, Live
  <2>3. /\ r \in Session /\ r.next_block_index >= 1
        /\ r.allowed_block_index = old.allowed_block_index
        /\ r.task_inflight_or_queued = FALSE
    BY <2>2 DEF Session
  <2> HIDE DEF r
  <2>4. /\ prefetch_sessions_' \in [Sessions -> Session \cup {Gone}]
        /\ prefetch_sessions_'[z] = r
        /\ \A x \in Sessions : x # z => prefetch_sessions_'[x] = prefetch_sessions_[x]
        /\ \A x \in Sessions : Live(x)' <=> Live(x)
        /\ SessionInv'
    <3>1. UNCHANGED <<session_id, stop_prefetch_worker_>>
      BY <1>1
    <3> QED BY <1>8, <2>1, <2>3, <3>1, SessionUpdate
  <2>5. ServerTypeOK' /\ ScanInv'
    BY <1>1, <1>8, <2>1, <2>4 DEF ServerTypeOK, ScanInv
  <2>6. ~Flag(z)' /\ \A x \in Sessions : x # z => Flag(x)' = Flag(x)
    BY <2>3, <2>4 DEF Flag
  <2>7. TaskInv'
    <3>1. NoTask.session_id = NoSession
      BY DEF NoTask
    <3>2. (worker = "load" <=> task # NoTask)'
      BY <1>1
    <3>3. \A i, j \in DOMAIN prefetch_queue_' :
            prefetch_queue_'[i].session_id = prefetch_queue_'[j].session_id => i = j
      BY <1>1 DEF TaskInv
    <3>4. \A x \in Sessions : task'.session_id # x
      BY <1>1, <3>1, ServerConstants
    <3>5. \A x \in Sessions : Queued(x)' => Live(x)' /\ Flag(x)' /\ task'.session_id # x
      BY <1>6, <2>4, <2>6, <3>4 DEF TaskInv
    <3>6. \A x \in Sessions : Live(x)' /\ Flag(x)' => Queued(x)'
      BY <1>6, <2>4, <2>6 DEF TaskInv
    <3> QED BY <3>2, <3>3, <3>4, <3>5, <3>6 DEF TaskInv
  <2>8. AheadInv'
    <3>1. \A x \in Sessions : Live(x) =>
            prefetch_sessions_'[x].allowed_block_index = prefetch_sessions_[x].allowed_block_index
      BY <2>3, <2>4
    <3> QED BY <1>1, <2>4, <3>1, AheadFrame
  <2> QED BY <1>3, <1>4, <1>5, <2>4, <2>5, <2>7, <2>8
<1> QED BY <1>7, <1>8

LEMMA ExitWorkerInv ==
    ASSUME ServerInv, ExitWorker
    PROVE  ServerPart'
<1> USE DEF ServerInv, ServerPart
<1>1. /\ worker = "wait" /\ worker' = "exited"
      /\ UNCHANGED <<vars, at, req, session_id, prefetchVars, task, stop_prefetch_worker_>>
  BY DEF ExitWorker, clientVars, lifeVars
<1>2. ServerTypeOK' /\ ClientInv' /\ SessionInv' /\ PendingInv' /\ ScanInv'
  BY <1>1 DEF ServerTypeOK, ClientInv, SessionInv, PendingInv, ScanInv, Live, QueuedKeys, TaskKeys, prefetchVars
<1>3. CallInv'
  BY <1>1 DEF CallInv, vars, threadVars
<1>4. TaskInv'
  BY <1>1 DEF TaskInv, Live, Flag, Queued, prefetchVars
<1>5. AheadInv'
  BY <1>1, QuietAhead DEF prefetchVars, ServerTypeOK
<1> QED BY <1>2, <1>3, <1>4, <1>5

LEMMA DestroyInv ==
    ASSUME ServerInv, Destroy
    PROVE  ServerPart'
<1> USE DEF ServerInv, ServerPart
<1>1. /\ LockFree /\ stop_prefetch_worker_' = TRUE
      /\ prefetch_sessions_' = [s \in Sessions |-> Gone]
      /\ prefetch_queue_' = <<>> /\ prefetch_pending_keys_' = {}
      /\ UNCHANGED <<vars, at, req, session_id, prefetch_holder, scanned, task, worker>>
  BY DEF Destroy, clientVars, workerVars
<1>2. prefetch_queue_' \in Seq(Task) /\ DOMAIN prefetch_queue_' = {}
  BY <1>1, EmptySeq, LenProperties
<1>3. /\ \A x \in Sessions : ~Live(x)'
      /\ \A x : ~Queued(x)'
  BY <1>1, <1>2 DEF Live, Queued
<1>4. ServerTypeOK' /\ ClientInv' /\ CallInv'
  BY <1>1, <1>2, QuietCalls DEF ServerTypeOK
<1>5. SessionInv' /\ PendingInv'
  BY <1>1, <1>3 DEF SessionInv, PendingInv
<1>6. TaskInv'
  BY <1>1, <1>2, <1>3 DEF TaskInv
<1>7. AheadInv' /\ ScanInv'
  BY <1>1, <1>2, <1>3 DEF AheadInv, AtMostOneBlockAhead, ScanInv, LockFree
<1> QED BY <1>4, <1>5, <1>6, <1>7

-----------------------------------------------------------------------------
LEMMA ServerPartNext == ServerInv /\ [ServerNext]_allVars => ServerPart'
<1> SUFFICES ASSUME ServerInv, [ServerNext]_allVars PROVE ServerPart'
  OBVIOUS
<1>1. ASSUME NEW c \in Clients, ClientStep(c) PROVE ServerPart'
  <2>1. CASE AskProbe(c) \/ AskBlock(c)   BY <2>1, AskClientInv
  <2>2. CASE EndProbe(c)   BY <2>2, EndProbeInv
  <2>3. CASE Open(c)   BY <2>3, OpenInv
  <2>4. CASE Deliver(c)   BY <2>4, DeliverInv
  <2>5. CASE EndEarly(c)   BY <2>5, EndEarlyInv
  <2>6. CASE BodyThrows(c)   BY <2>6, FlagInv DEF BodyThrows, clientVars
  <2>7. CASE Close(c)   BY <2>7, CloseInv
  <2> QED BY <1>1, <2>1, <2>2, <2>3, <2>4, <2>5, <2>6, <2>7 DEF ClientStep
<1>2. ASSUME WorkerStep PROVE ServerPart'
  BY <1>2, TakeInv, AskPrefetchInv, FinishTaskInv, ExitWorkerInv DEF WorkerStep
<1>3. ASSUME NEW c \in Clients, NEW f \in Files, NEW b \in 1..Len(Blocks[f]),
             NEW n \in 1..(Len(Blocks[f]) - b + 1), Request(c, f, b, n)
      PROVE  ServerPart'
  BY <1>3, RequestInv
<1>4. ASSUME NEW t \in Threads, Scan(t) \/ Load(t) PROVE ServerPart'
  BY <1>4, ScanStepInv, LoadInv
<1>5. CASE Stop   BY <1>5, FlagInv DEF Stop, clientVars
<1>6. CASE Destroy   BY <1>6, DestroyInv
<1>7. CASE Finished   BY <1>7, FlagInv DEF Finished, allVars, serverVars, clientVars, lifeVars
<1>8. CASE UNCHANGED allVars   BY <1>8, FlagInv DEF allVars, serverVars, clientVars, lifeVars
<1> QED BY <1>1, <1>2, <1>3, <1>4, <1>5, <1>6, <1>7, <1>8 DEF ServerNext

LEMMA ServerInvNext == ServerInv /\ [ServerNext]_allVars => ServerInv'
  BY LoaderStep, NextInv, ServerPartNext DEF ServerInv

(* The inductive invariant holds in every reachable state of the server.    *)
THEOREM ServerInductive == ServerSpec => []ServerInv
<1> QED BY ServerInitInv, ServerInvNext, PTL DEF ServerSpec

(* Every variable of the server keeps its type.                             *)
THEOREM ServerTypeCorrect == ServerSpec => []ServerTypeOK
<1>1. ServerInv => ServerTypeOK   BY DEF ServerInv, ServerPart
<1> QED BY <1>1, ServerInductive, PTL

(* Clients and worker never use the loader but as it expects, so that each  *)
(* theorem of BlockLoaderProofs holds inside the server.                    *)
THEOREM UsesBlockLoaderHolds == ServerSpec => UsesBlockLoader
<1>1. ServerInit => Init   BY DEF ServerInit
<1> QED BY <1>1, LoaderStep, ServerInductive, PTL DEF ServerSpec, UsesBlockLoader, Spec

(* What the loader promises its callers it keeps for the clients and the    *)
(* worker of a server, through prefetching, early ends and shutdown: they   *)
(* see one shared download per block, none beside the cache, a bounded      *)
(* cache in step with its list, and no failure that stays with its block.   *)
THEOREM ServerSharesDownloads ==
    ServerSpec => /\ ImplementsBlockFetch
                  /\ [](SingleFlight /\ OrderMirrorsCache /\ AnswersMatch /\ LoadsHaveOwners)
<1>1. ServerSpec => Spec
  BY UsesBlockLoaderHolds DEF UsesBlockLoader
<1> QED
  BY <1>1, Refinement, SingleFlightHolds, OrderMirrorsCacheHolds, AnswersMatchHolds,
     LoadsHaveOwnersHolds, PTL

(* prefetch_pending_keys_ is what is queued or being prefetched, each key   *)
(* once, until the destructor clears it.                                    *)
THEOREM PendingIsQueuedOrRunningHolds == ServerSpec => []PendingIsQueuedOrRunning
<1>1. ServerInv => PendingIsQueuedOrRunning
  <2> SUFFICES ASSUME ServerInv, ~stop_prefetch_worker_
               PROVE  /\ prefetch_pending_keys_ = QueuedKeys \cup TaskKeys
                      /\ QueuedKeys \cap TaskKeys = {}
                      /\ Cardinality(QueuedKeys) = Len(prefetch_queue_)
    BY DEF PendingIsQueuedOrRunning
  <2> DEFINE len == Len(prefetch_queue_)
             keys == [i \in 1..len |-> prefetch_queue_[i].cache_key]
  <2>1. /\ len \in Nat /\ DOMAIN prefetch_queue_ = 1..len
        /\ \A i \in 1..len : prefetch_queue_[i].cache_key \in Keys
    BY QueueFacts DEF ServerInv, ServerPart
  <2>2. keys \in Seq(Keys) /\ Len(keys) = len
    BY <2>1, IsASeq, LenProperties
  <2>3. /\ prefetch_pending_keys_ = QueuedKeys \cup TaskKeys
        /\ QueuedKeys \cap TaskKeys = {}
        /\ \A i, j \in 1..len :
             prefetch_queue_[i].cache_key = prefetch_queue_[j].cache_key => i = j
    BY <2>1 DEF ServerInv, ServerPart, PendingInv
  <2>4. \A k \in Keys : k \in QueuedKeys <=> \E j \in 1..len : keys[j] = k
    BY <2>1 DEF QueuedKeys
  <2>5. QueuedKeys \subseteq Keys /\ \A i, j \in 1..len : keys[i] = keys[j] => i = j
    BY <2>1, <2>3 DEF QueuedKeys
  <2> HIDE DEF keys
  <2>6. Cardinality(QueuedKeys) = Len(keys)
    BY <2>2, <2>4, <2>5, EnumerationLemma
  <2> QED BY <2>2, <2>3, <2>6
<1> QED BY <1>1, ServerInductive, PTL

(* A session has at most one task, queued or running, and its flag says so. *)
THEOREM OneTaskPerSessionHolds == ServerSpec => []OneTaskPerSession
<1>1. ServerInv => OneTaskPerSession
  <2> SUFFICES ASSUME ServerInv, NEW s \in Sessions
               PROVE  LET queued == {i \in DOMAIN prefetch_queue_ : prefetch_queue_[i].session_id = s}
                          running == IF task.session_id = s THEN 1 ELSE 0
                      IN  IF Live(s)
                          THEN Cardinality(queued) + running =
                                 (IF prefetch_sessions_[s].task_inflight_or_queued THEN 1 ELSE 0)
                          ELSE queued = {}
    BY DEF OneTaskPerSession
  <2> DEFINE queued == {i \in DOMAIN prefetch_queue_ : prefetch_queue_[i].session_id = s}
  <2>1. /\ Queued(s) => Live(s) /\ Flag(s) /\ task.session_id # s
        /\ Live(s) /\ task.session_id = s => Flag(s)
        /\ Live(s) /\ Flag(s) => Queued(s) \/ task.session_id = s
        /\ \A i, j \in DOMAIN prefetch_queue_ :
             prefetch_queue_[i].session_id = prefetch_queue_[j].session_id => i = j
    BY DEF ServerInv, ServerPart, TaskInv
  <2>2. CASE Queued(s)
    <3>1. PICK i \in DOMAIN prefetch_queue_ : prefetch_queue_[i].session_id = s
      BY <2>2 DEF Queued
    <3>2. queued = {i}
      BY <2>1, <3>1
    <3>3. Cardinality(queued) = 1
      BY <3>2, FS_Singleton
    <3> QED BY <2>1, <2>2, <3>3 DEF Flag
  <2>3. CASE ~Queued(s)
    <3>1. queued = {}
      BY <2>3 DEF Queued
    <3>2. Cardinality(queued) = 0
      BY <3>1, FS_EmptySet
    <3> QED BY <2>1, <2>3, <3>1, <3>2 DEF Flag
  <2> QED BY <2>2, <2>3
<1> QED BY <1>1, ServerInductive, PTL

(* The live sessions are those of the bodies being streamed.                *)
THEOREM SessionsAreStreamsHolds == ServerSpec => []SessionsAreStreams
<1>1. ServerInv => SessionsAreStreams
  <2> SUFFICES ASSUME ServerInv, ~stop_prefetch_worker_
               PROVE  {s \in Sessions : Live(s)} = {session_id[c] : c \in Clients} \ {NoSession}
    BY DEF SessionsAreStreams
  <2>1. \A s \in Sessions : Live(s) <=> \E c \in Clients : session_id[c] = s
    BY DEF ServerInv, ServerPart, SessionInv
  <2>2. \A c \in Clients : session_id[c] \in Sessions \cup {NoSession}
    BY DEF ServerInv, ServerPart, ServerTypeOK
  <2> QED BY <2>1, <2>2, ServerConstants
<1> QED BY <1>1, ServerInductive, PTL

(* A queued task is for no block beyond the one after its client's.         *)
THEOREM AtMostOneBlockAheadHolds == ServerSpec => []AtMostOneBlockAhead
<1>1. ServerInv => AtMostOneBlockAhead   BY DEF ServerInv, ServerPart, AheadInv
<1> QED BY <1>1, ServerInductive, PTL

(* What a body is about to write is the block of its file it is at, though  *)
(* the download may have been another client's or the worker's.             *)
DeliversItsBlock ==
    \A c \in Clients : at[c] = "load" /\ pc[c] = Returned /\ answer[c] # NoKey =>
        answer[c] = Blocks[req[c].file][req[c].block]

(* Streams deliver the blocks they ask for, in whatever order loads finish. *)
THEOREM DeliversItsBlockHolds == ServerSpec => []DeliversItsBlock
<1>1. ServerInv => DeliversItsBlock
  <2> SUFFICES ASSUME ServerInv, NEW c \in Clients,
                      at[c] = "load", pc[c] = Returned, answer[c] # NoKey
               PROVE  answer[c] = Blocks[req[c].file][req[c].block]
    BY DEF DeliversItsBlock
  <2>1. key[c] = Blocks[req[c].file][req[c].block]
    BY DEF ServerInv, ServerPart, CallInv, Returned, Idle
  <2>2. answer[c] = key[c]
    BY ServerConstants DEF ServerInv, IInv, LocalsInv
  <2> QED BY <2>1, <2>2
<1> QED BY <1>1, ServerInductive, PTL
=============================================================================
