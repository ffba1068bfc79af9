---------------------------- MODULE DownloadServer ----------------------------
(***************************************************************************)
(* HttpImapDownloadServer: detached client threads stream files block by   *)
(* block, one worker prefetches the block after the one a client is at,    *)
(* and all of them load blocks through BlockLoader, whose variables this   *)
(* module shares.  A file is a sequence of blocks; a request is a range of *)
(* whole blocks of one file.                                               *)
(*                                                                         *)
(* One action is one critical section of prefetch_mutex_, joined with the  *)
(* thread-local steps before it.  enqueue_next_prefetch_locked takes       *)
(* block_cache_mutex_ once per block while it holds prefetch_mutex_, so    *)
(* each turn of its loop is an action of its own and prefetch_holder says  *)
(* who holds the mutex meanwhile.                                          *)
(***************************************************************************)
EXTENDS BlockLoader

CONSTANTS
    Clients,    \* client threads; each serves one request after another
    Worker,     \* the prefetch worker thread
    Files,      \* cached files
    Blocks,     \* file -> the keys of its blocks, in order
    Unsized,    \* files whose size the index does not know (file_size = 0)
    Sessions,   \* prefetch session ids
    MaxRequests \* requests a client makes: a bound on the runs, not of the code

ASSUME ThreadsAssumption == Threads = Clients \cup {Worker} /\ Worker \notin Clients
ASSUME FilesAssumption == Blocks \in [Files -> Seq(Keys)]

NoSession == "no session"
Nobody == "nobody"
NoTask == [session_id |-> NoSession, cache_key |-> NoKey, block_index |-> 0]
Gone == [file |-> "none", next_block_index |-> 0, allowed_block_index |-> 0,
         task_inflight_or_queued |-> FALSE]

ASSUME NobodyAssumption == NoSession \notin Sessions /\ Nobody \notin Threads

VARIABLES
    at,                     \* where each client thread is in its request
    req,                    \* its request: file, current block, blocks left
    session_id,             \* its prefetch_session_id, or NoSession
    requests,               \* requests it has made
    prefetch_sessions_,     \* id -> session, or Gone
    prefetch_queue_,
    prefetch_pending_keys_,
    prefetch_holder,        \* the thread inside enqueue_next_prefetch_locked, or Nobody
    scanned,                \* the session it looks for a block for
    task,                   \* the worker's task, or NoTask
    worker,                 \* "wait", "load", "exited"
    stop_serving_,
    stop_prefetch_worker_,
    terminated              \* std::terminate was called

clientVars == <<at, req, session_id, requests>>
prefetchVars == <<prefetch_sessions_, prefetch_queue_, prefetch_pending_keys_,
                  prefetch_holder, scanned>>
workerVars == <<task, worker>>
lifeVars == <<stop_serving_, stop_prefetch_worker_, terminated>>
serverVars == <<clientVars, prefetchVars, workerVars, lifeVars>>
allVars == <<vars, serverVars>>

NoRequest == [file |-> "none", block |-> 0, left |-> 0]

(* The server object exists and the process runs.  Once the destructor has  *)
(* joined the worker the object is gone: what a client thread that is still *)
(* inside does then is undefined, and the model says nothing of it.         *)
Alive == ~terminated /\ worker # "exited"

ServerInit ==
    /\ Init
    /\ at = [c \in Clients |-> "none"]
    /\ req = [c \in Clients |-> NoRequest]
    /\ session_id = [c \in Clients |-> NoSession]
    /\ requests = [c \in Clients |-> 0]
    /\ prefetch_sessions_ = [s \in Sessions |-> Gone]
    /\ prefetch_queue_ = <<>>
    /\ prefetch_pending_keys_ = {}
    /\ prefetch_holder = Nobody
    /\ scanned = NoSession
    /\ task = NoTask
    /\ worker = "wait"
    /\ stop_serving_ = FALSE
    /\ stop_prefetch_worker_ = FALSE
    /\ terminated = FALSE

Running(t) == Alive /\ prefetch_holder # t
LockFree == prefetch_holder = Nobody

-----------------------------------------------------------------------------
(* Prefetch sessions.  The flag "active" of a session is never cleared.     *)

Live(s) == prefetch_sessions_[s] # Gone

(* next_prefetch_session_id_++ never yields an id that is still in use. *)
Fresh(s) ==
    /\ ~Live(s)
    /\ \A c \in Clients : session_id[c] # s
    /\ \A i \in DOMAIN prefetch_queue_ : prefetch_queue_[i].session_id # s
    /\ task.session_id # s

EnterScan(t, s) == prefetch_holder' = t /\ scanned' = s
LeaveScan == prefetch_holder' = Nobody /\ scanned' = NoSession

(* Mutant of StartSession: one block too many may be prefetched. *)
StartSessionOneAhead(c, f, first) ==
    IF first > Len(Blocks[f])
    THEN /\ session_id' = [session_id EXCEPT ![c] = NoSession]
         /\ UNCHANGED prefetchVars
    ELSE /\ LockFree
         /\ \E s \in Sessions :
              /\ Fresh(s)
              /\ session_id' = [session_id EXCEPT ![c] = s]
              /\ prefetch_sessions_' = [prefetch_sessions_ EXCEPT ![s] =
                    [file |-> f, next_block_index |-> first,
                     allowed_block_index |-> first + 1, task_inflight_or_queued |-> FALSE]]
              /\ EnterScan(c, s)
         /\ UNCHANGED <<prefetch_queue_, prefetch_pending_keys_>>

(* start_prefetch_session; a first block past the end gives session id 0. *)
StartSession(c, f, first) ==
    IF first > Len(Blocks[f])
    THEN /\ session_id' = [session_id EXCEPT ![c] = NoSession]
         /\ UNCHANGED prefetchVars
    ELSE /\ LockFree
         /\ \E s \in Sessions :
              /\ Fresh(s)
              /\ session_id' = [session_id EXCEPT ![c] = s]
              /\ prefetch_sessions_' = [prefetch_sessions_ EXCEPT ![s] =
                    [file |-> f, next_block_index |-> first,
                     allowed_block_index |-> first, task_inflight_or_queued |-> FALSE]]
              /\ EnterScan(c, s)
         /\ UNCHANGED <<prefetch_queue_, prefetch_pending_keys_>>

(* What the loop that erases the tasks of s leaves: the others, in order    *)
(* (SelectSeq, in a form the proofs can expand).                            *)
Without(queue, s) ==
    LET left == {i \in DOMAIN queue : queue[i].session_id # s}
        Rank(i) == Cardinality({h \in left : h <= i})
    IN  [n \in 1..Cardinality(left) |-> queue[CHOOSE i \in left : Rank(i) = n]]

KeysOf(queue, s) ==
    {queue[i].cache_key : i \in {h \in DOMAIN queue : queue[h].session_id = s}}

(* Mutants of StopSession: the keys of the dropped tasks stay pending; the  *)
(* tasks stay queued.                                                       *)
StopSessionKeepsKeys(s) ==
    IF s = NoSession
    THEN UNCHANGED prefetchVars
    ELSE /\ LockFree
         /\ prefetch_sessions_' = [prefetch_sessions_ EXCEPT ![s] = Gone]
         /\ prefetch_queue_' = Without(prefetch_queue_, s)
         /\ UNCHANGED <<prefetch_pending_keys_, prefetch_holder, scanned>>

StopSessionKeepsTasks(s) ==
    IF s = NoSession
    THEN UNCHANGED prefetchVars
    ELSE /\ LockFree
         /\ prefetch_sessions_' = [prefetch_sessions_ EXCEPT ![s] = Gone]
         /\ UNCHANGED <<prefetch_queue_, prefetch_pending_keys_, prefetch_holder, scanned>>

(* stop_prefetch_session: the session and its queued tasks go; a task the   *)
(* worker has taken stays.                                                  *)
StopSession(s) ==
    IF s = NoSession
    THEN UNCHANGED prefetchVars
    ELSE /\ LockFree
         /\ prefetch_sessions_' = [prefetch_sessions_ EXCEPT ![s] = Gone]
         /\ prefetch_queue_' = Without(prefetch_queue_, s)
         /\ prefetch_pending_keys_' = prefetch_pending_keys_ \ KeysOf(prefetch_queue_, s)
         /\ UNCHANGED <<prefetch_holder, scanned>>

(* Mutant of AdvanceSession: the bound is <= where the code has <. *)
AdvanceSessionPastEnd(c, s) ==
    IF s = NoSession
    THEN UNCHANGED prefetchVars
    ELSE /\ LockFree
         /\ IF Live(s)
            THEN /\ prefetch_sessions_' =
                      [prefetch_sessions_ EXCEPT ![s].allowed_block_index =
                         IF @ <= Len(Blocks[prefetch_sessions_[s].file]) THEN @ + 1 ELSE @]
                 /\ EnterScan(c, s)
            ELSE UNCHANGED <<prefetch_sessions_, prefetch_holder, scanned>>
         /\ UNCHANGED <<prefetch_queue_, prefetch_pending_keys_>>

(* advance_prefetch_session: one more block may be prefetched. *)
AdvanceSession(c, s) ==
    IF s = NoSession
    THEN UNCHANGED prefetchVars
    ELSE /\ LockFree
         /\ IF Live(s)
            THEN /\ prefetch_sessions_' =
                      [prefetch_sessions_ EXCEPT ![s].allowed_block_index =
                         IF @ + 1 <= Len(Blocks[prefetch_sessions_[s].file]) THEN @ + 1 ELSE @]
                 /\ EnterScan(c, s)
            ELSE UNCHANGED <<prefetch_sessions_, prefetch_holder, scanned>>
         /\ UNCHANGED <<prefetch_queue_, prefetch_pending_keys_>>

(* One turn of the loop of enqueue_next_prefetch_locked, or its end.        *)
Scan(t) ==
    /\ Alive
    /\ prefetch_holder = t
    /\ LET s == prefetch_sessions_[scanned]
           b == s.next_block_index
           k == Blocks[s.file][b]
       IN  IF s.task_inflight_or_queued \/ b > Len(Blocks[s.file]) \/ b > s.allowed_block_index
           THEN LeaveScan /\ UNCHANGED <<prefetch_sessions_, prefetch_queue_, prefetch_pending_keys_>>
           ELSE IF k \in prefetch_pending_keys_ \/ Cached(k)
           THEN /\ prefetch_sessions_' = [prefetch_sessions_ EXCEPT ![scanned].next_block_index = b + 1]
                /\ UNCHANGED <<prefetch_queue_, prefetch_pending_keys_, prefetch_holder, scanned>>
           ELSE /\ prefetch_sessions_' = [prefetch_sessions_ EXCEPT
                      ![scanned].next_block_index = b + 1, ![scanned].task_inflight_or_queued = TRUE]
                /\ prefetch_pending_keys_' = prefetch_pending_keys_ \cup {k}
                /\ prefetch_queue_' = Append(prefetch_queue_,
                      [session_id |-> scanned, cache_key |-> k, block_index |-> b])
                /\ LeaveScan
    /\ UNCHANGED <<vars, clientVars, workerVars, lifeVars>>

-----------------------------------------------------------------------------
(* A client thread: handle_request, then the stream body.                   *)

(* A request for n blocks of f from block b on is accepted; a file whose    *)
(* size the index does not know is probed by loading its first block.       *)
Request(c, f, b, n) ==
    /\ Running(c) /\ ~stop_serving_
    /\ at[c] = "none"
    /\ requests[c] < MaxRequests
    /\ b + n - 1 <= Len(Blocks[f])
    /\ at' = [at EXCEPT ![c] = IF f \in Unsized THEN "probe" ELSE "open"]
    /\ req' = [req EXCEPT ![c] = [file |-> f, block |-> b, left |-> n]]
    /\ requests' = [requests EXCEPT ![c] = @ + 1]
    /\ UNCHANGED <<vars, session_id, prefetchVars, workerVars, lifeVars>>

AskProbe(c) ==
    /\ Running(c) /\ at[c] = "probe"
    /\ Ask(c, Blocks[req[c].file][1])
    /\ UNCHANGED serverVars

(* A failed probe is answered with status 500. *)
EndProbe(c) ==
    /\ Running(c) /\ at[c] = "probe"
    /\ Return(c)
    /\ at' = [at EXCEPT ![c] = IF answer[c] = NoKey THEN "none" ELSE "open"]
    /\ req' = IF answer[c] = NoKey THEN [req EXCEPT ![c] = NoRequest] ELSE req
    /\ UNCHANGED <<session_id, requests, prefetchVars, workerVars, lifeVars>>

Open(c) ==
    /\ Running(c) /\ at[c] = "open"
    /\ StartSession(c, req[c].file, req[c].block + 1)
    /\ at' = [at EXCEPT ![c] = "load"]
    /\ UNCHANGED <<vars, req, requests, workerVars, lifeVars>>

AskBlock(c) ==
    /\ Running(c) /\ at[c] = "load"
    /\ Ask(c, Blocks[req[c].file][req[c].block])
    /\ UNCHANGED serverVars

(* The block is written, the session advanced; the loop goes on while bytes *)
(* of the range and blocks of the file are left.                            *)
Deliver(c) ==
    /\ Running(c) /\ at[c] = "load"
    /\ Return(c) /\ answer[c] # NoKey
    /\ AdvanceSession(c, session_id[c])
    /\ LET next == [req[c] EXCEPT !.block = @ + 1, !.left = @ - 1]
           more == next.left > 0 /\ next.block <= Len(Blocks[next.file])
       IN  /\ req' = [req EXCEPT ![c] = next]
           /\ at' = [at EXCEPT ![c] = IF more THEN "load" ELSE "close"]
    /\ UNCHANGED <<session_id, requests, workerVars, lifeVars>>

(* The writer fails (the client is gone), or the block is shorter than the  *)
(* index says and has no byte at the offset: the body ends early.           *)
EndEarly(c) ==
    /\ Running(c) /\ at[c] = "load"
    /\ Return(c) /\ answer[c] # NoKey
    /\ at' = [at EXCEPT ![c] = "close"]
    /\ UNCHANGED <<req, session_id, requests, prefetchVars, workerVars, lifeVars>>

(* Mutant of Close: the body has no guard. *)
CloseUnguarded(c) ==
    /\ Running(c) /\ at[c] = "close"
    /\ at' = [at EXCEPT ![c] = "none"]
    /\ req' = [req EXCEPT ![c] = NoRequest]
    /\ session_id' = [session_id EXCEPT ![c] = NoSession]
    /\ UNCHANGED <<vars, requests, prefetchVars, workerVars, lifeVars>>

(* stop_prefetch_session of the failed writer, or ~PrefetchGuard. *)
Close(c) ==
    /\ Running(c) /\ at[c] = "close"
    /\ StopSession(session_id[c])
    /\ at' = [at EXCEPT ![c] = "none"]
    /\ req' = [req EXCEPT ![c] = NoRequest]
    /\ session_id' = [session_id EXCEPT ![c] = NoSession]
    /\ UNCHANGED <<vars, requests, workerVars, lifeVars>>

(* load_block throws inside the stream body: handle_client does not catch   *)
(* it, it leaves the detached thread, and std::terminate ends the process.  *)
BodyThrows(c) ==
    /\ Running(c) /\ at[c] = "load"
    /\ pc[c] = Returned /\ answer[c] = NoKey
    /\ terminated' = TRUE
    /\ UNCHANGED <<vars, clientVars, prefetchVars, workerVars, stop_serving_, stop_prefetch_worker_>>

-----------------------------------------------------------------------------
(* The prefetch worker. *)

Take ==
    /\ Running(Worker) /\ worker = "wait"
    /\ LockFree /\ ~stop_prefetch_worker_
    /\ prefetch_queue_ # <<>>
    /\ prefetch_queue_' = Tail(prefetch_queue_)
    /\ LET head == Head(prefetch_queue_) IN
         IF Live(head.session_id)
         THEN task' = head /\ worker' = "load" /\ UNCHANGED prefetch_pending_keys_
         ELSE /\ prefetch_pending_keys_' = prefetch_pending_keys_ \ {head.cache_key}
              /\ UNCHANGED workerVars
    /\ UNCHANGED <<vars, clientVars, prefetch_sessions_, prefetch_holder, scanned, lifeVars>>

AskPrefetch ==
    /\ Running(Worker) /\ worker = "load"
    /\ Ask(Worker, task.cache_key)
    /\ UNCHANGED serverVars

(* Mutants of FinishTask: the worker gives a load up while it is going on;  *)
(* the key of a task whose session has ended stays pending.                 *)
AbandonTask ==
    /\ Running(Worker) /\ worker = "load"
    /\ LockFree
    /\ pc' = [pc EXCEPT ![Worker] = Idle]
    /\ prefetch_pending_keys_' = prefetch_pending_keys_ \ {task.cache_key}
    /\ task' = NoTask
    /\ worker' = "wait"
    /\ UNCHANGED <<cacheVars, block_loads_, load, key, load_state, answer, clientVars,
                   prefetch_sessions_, prefetch_queue_, prefetch_holder, scanned, lifeVars>>

FinishTaskOfLiveSession ==
    /\ Running(Worker) /\ worker = "load"
    /\ Return(Worker) \/ (pc[Worker] = Idle /\ UNCHANGED vars)
    /\ LockFree
    /\ IF Live(task.session_id)
       THEN /\ prefetch_pending_keys_' = prefetch_pending_keys_ \ {task.cache_key}
            /\ prefetch_sessions_' =
                 [prefetch_sessions_ EXCEPT ![task.session_id].task_inflight_or_queued = FALSE]
            /\ EnterScan(Worker, task.session_id)
       ELSE UNCHANGED <<prefetch_sessions_, prefetch_pending_keys_, prefetch_holder, scanned>>
    /\ task' = NoTask
    /\ worker' = "wait"
    /\ UNCHANGED <<clientVars, prefetch_queue_, lifeVars>>

(* The load has returned or thrown, or provider_factory_ threw before it;   *)
(* either way the key is no longer pending and the session may go on.       *)
FinishTask ==
    /\ Running(Worker) /\ worker = "load"
    /\ Return(Worker) \/ (pc[Worker] = Idle /\ UNCHANGED vars)
    /\ LockFree
    /\ prefetch_pending_keys_' = prefetch_pending_keys_ \ {task.cache_key}
    /\ IF Live(task.session_id)
       THEN /\ prefetch_sessions_' =
                 [prefetch_sessions_ EXCEPT ![task.session_id].task_inflight_or_queued = FALSE]
            /\ EnterScan(Worker, task.session_id)
       ELSE UNCHANGED <<prefetch_sessions_, prefetch_holder, scanned>>
    /\ task' = NoTask
    /\ worker' = "wait"
    /\ UNCHANGED <<clientVars, prefetch_queue_, lifeVars>>

(* Mutant of ExitWorker: the worker waits for a task only. *)
ExitWorkerOnTask ==
    /\ Running(Worker) /\ worker = "wait"
    /\ LockFree /\ stop_prefetch_worker_ /\ prefetch_queue_ # <<>>
    /\ worker' = "exited"
    /\ UNCHANGED <<vars, clientVars, prefetchVars, task, lifeVars>>

ExitWorker ==
    /\ Running(Worker) /\ worker = "wait"
    /\ LockFree /\ stop_prefetch_worker_
    /\ worker' = "exited"
    /\ UNCHANGED <<vars, clientVars, prefetchVars, task, lifeVars>>

-----------------------------------------------------------------------------
(* stop() and the destructor, which then joins the worker. *)
Stop ==
    /\ Alive /\ ~stop_serving_
    /\ stop_serving_' = TRUE
    /\ UNCHANGED <<vars, clientVars, prefetchVars, workerVars, stop_prefetch_worker_, terminated>>

Destroy ==
    /\ Alive /\ stop_serving_ /\ ~stop_prefetch_worker_
    /\ LockFree
    /\ stop_prefetch_worker_' = TRUE
    /\ prefetch_sessions_' = [s \in Sessions |-> Gone]
    /\ prefetch_queue_' = <<>>
    /\ prefetch_pending_keys_' = {}
    /\ UNCHANGED <<vars, clientVars, prefetch_holder, scanned, workerVars, stop_serving_, terminated>>

(* A thread's step inside load_block. *)
Load(t) == Running(t) /\ LoadStep(t) /\ UNCHANGED serverVars

ClientStep(c) ==
    \/ AskProbe(c) \/ EndProbe(c) \/ Open(c)
    \/ AskBlock(c) \/ Deliver(c) \/ EndEarly(c) \/ BodyThrows(c) \/ Close(c)

WorkerStep == Take \/ AskPrefetch \/ FinishTask \/ ExitWorker

(* The process or the server is gone, or all requests are served. *)
Finished ==
    /\ \/ ~Alive
       \/ /\ \A c \in Clients : at[c] = "none" /\ requests[c] = MaxRequests
          /\ worker = "wait" /\ prefetch_queue_ = <<>> /\ ~stop_prefetch_worker_
    /\ UNCHANGED allVars

ServerNext ==
    \/ \E c \in Clients, f \in Files :
         \E b \in 1..Len(Blocks[f]) :
           \E n \in 1..(Len(Blocks[f]) - b + 1) : Request(c, f, b, n)
    \/ \E c \in Clients : ClientStep(c)
    \/ \E t \in Threads : Scan(t) \/ Load(t)
    \/ WorkerStep
    \/ Stop
    \/ Destroy
    \/ Finished

ServerSpec == ServerInit /\ [][ServerNext]_allVars

(* Every thread keeps running; a thread that wants prefetch_mutex_ gets it  *)
(* (it is held for a bounded scan only), and fetch_block returns or throws. *)
(* Requests, stop() and the destructor are the environment's.               *)
ServerFairness ==
    /\ \A c \in Clients : WF_allVars(ClientStep(c))
    /\ \A t \in Threads : WF_allVars(Scan(t)) /\ WF_allVars(Load(t))
    /\ WF_allVars(WorkerStep)

FairServerSpec == ServerSpec /\ ServerFairness

-----------------------------------------------------------------------------
(* A session's allowed_block_index is that of a block of its file, and its  *)
(* next_block_index at most the one after it.                               *)
Session ==
    {s \in [file : Files, next_block_index : Nat, allowed_block_index : Nat,
            task_inflight_or_queued : BOOLEAN] :
        /\ s.allowed_block_index <= Len(Blocks[s.file])
        /\ s.next_block_index <= s.allowed_block_index + 1}
Task == [session_id : Sessions, cache_key : Keys, block_index : Nat]

(* Every variable of the server has its type, the indices of a session are  *)
(* those of its file.                                                       *)
ServerTypeOK ==
    /\ at \in [Clients -> {"none", "probe", "open", "load", "close"}]
    /\ req \in [Clients -> [file : Files \cup {"none"}, block : Nat, left : Nat]]
    /\ session_id \in [Clients -> Sessions \cup {NoSession}]
    /\ prefetch_sessions_ \in [Sessions -> Session \cup {Gone}]
    /\ prefetch_queue_ \in Seq(Task)
    /\ prefetch_pending_keys_ \subseteq Keys
    /\ prefetch_holder \in Threads \cup {Nobody}
    /\ scanned \in Sessions \cup {NoSession}
    /\ task \in Task \cup {NoTask}
    /\ worker \in {"wait", "load", "exited"}

QueuedKeys == {prefetch_queue_[i].cache_key : i \in DOMAIN prefetch_queue_}
TaskKeys == IF task = NoTask THEN {} ELSE {task.cache_key}

(* Until the destructor runs, prefetch_pending_keys_ is exactly the keys of *)
(* the queued tasks and of the worker's task, each held by one task: a key  *)
(* that leaked would never be prefetched again, one lost early would be     *)
(* prefetched twice.                                                        *)
PendingIsQueuedOrRunning ==
    ~stop_prefetch_worker_ =>
        /\ prefetch_pending_keys_ = QueuedKeys \cup TaskKeys
        /\ QueuedKeys \cap TaskKeys = {}
        /\ Cardinality(QueuedKeys) = Len(prefetch_queue_)

(* A session has a task queued or running exactly when its flag says so,    *)
(* and never two; a queued task always has a live session.                  *)
OneTaskPerSession ==
    ~stop_prefetch_worker_ => \A s \in Sessions :
        LET queued == {i \in DOMAIN prefetch_queue_ : prefetch_queue_[i].session_id = s}
            running == IF task.session_id = s THEN 1 ELSE 0
        IN  IF Live(s)
            THEN Cardinality(queued) + running =
                   (IF prefetch_sessions_[s].task_inflight_or_queued THEN 1 ELSE 0)
            ELSE queued = {}

(* The live sessions are exactly those of the bodies being streamed: no     *)
(* early return of a body leaves its session behind.                        *)
SessionsAreStreams ==
    ~stop_prefetch_worker_ =>
        {s \in Sessions : Live(s)} = {session_id[c] : c \in Clients} \ {NoSession}

(* The prefetch runs at most one block ahead of the client it serves: a     *)
(* task of a session is for a block no later than the one after the block   *)
(* its client is at, so a client that leaves wastes one block at most.      *)
AtMostOneBlockAhead ==
    \A c \in Clients, i \in DOMAIN prefetch_queue_ :
        prefetch_queue_[i].session_id = session_id[c] =>
            prefetch_queue_[i].block_index <= req[c].block + 1

(* Every client and the worker use the loader as BlockLoader specifies, so  *)
(* that what holds of it holds here: a call once begun is always finished,  *)
(* and its result taken, before the thread goes on to anything else.        *)
UsesBlockLoader == Spec

(* A request ends, whatever its client does, unless the process or the      *)
(* server goes first: nobody waits for ever on another thread's load or for *)
(* a mutex.                                                                 *)
RequestsEnd == \A c \in Clients : at[c] # "none" ~> (at[c] = "none" \/ ~Alive)

(* A key does not stay pending for ever. *)
PendingKeysDrain ==
    \A k \in Keys : k \in prefetch_pending_keys_ ~> (k \notin prefetch_pending_keys_ \/ ~Alive)

(* The destructor's join of the worker returns. *)
DestructorJoins == stop_prefetch_worker_ ~> ~Alive
=============================================================================
