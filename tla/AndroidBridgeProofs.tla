-------------------------- MODULE AndroidBridgeProofs --------------------------
(***************************************************************************)
(* Proofs about AndroidBridge, for any callers, objects and servers: all    *)
(* its safety properties.                                                   *)
(***************************************************************************)
EXTENDS AndroidBridge, TLAPS

Busy(c) == pc[c] \notin {"idle"} \cup CommandPlaces

(* Whoever is in a call has the monitor of its object. *)
MonitorInv ==
    \A c \in Callers :
        /\ pc[c] # "idle" => monitor[Of[c]] = c
        /\ Busy(c) => c \in Starters

(* What a call has found or done so far, as long as it lasts. *)
PlaceInv ==
    \A c \in Callers :
        /\ pc[c] \in {"take", "join", "reset", "make", "publish"} => ~running
        /\ pc[c] \in {"join", "reset", "make", "publish", "spawn", "keep", "await", "clear"}
              => worker = None
        /\ pc[c] \in {"make", "publish"} => server = None
        /\ pc[c] = "publish" => made[c] \in alive
        /\ pc[c] = "spawn" => running /\ made[c] = server
        /\ pc[c] = "keep" => old[c] = server
        /\ pc[c] \in {"reset", "make", "publish", "spawn", "clear"}
              => \A g \in Servers : thread[g] = "none"
        /\ old[c] # None => pc[c] \in {"join", "keep", "await"}

(* There is no thread but that of the server, and somebody can join it. *)
ThreadInv ==
    /\ running => server # None
    /\ \A g \in Servers : thread[g] # "none" =>
          /\ g = server
          /\ running <=> thread[g] # "ended"
          /\ worker = g \/ \E c \in Callers : old[c] = g
    /\ worker # None => thread[worker] # "none"
    /\ \A c \in Callers : old[c] # None => thread[old[c]] # "none"

IInv == TypeOK /\ MonitorInv /\ PlaceInv /\ ThreadInv

LEMMA Initially == Init => IInv
BY CallersAssumption, NoneAssumption
   DEF Init, IInv, TypeOK, MonitorInv, PlaceInv, ThreadInv, Busy, Places, CommandPlaces

LEMMA OneIsBusy ==
    ASSUME MonitorInv, NEW c \in Callers, NEW d \in Callers, Busy(c), Busy(d)
    PROVE  c = d
BY OneStarterAssumption DEF MonitorInv, Busy

LEMMA CallLemma ==
    ASSUME IInv, NEW c \in Callers, Start(c) \/ Stop(c) \/ RunCommand(c)
    PROVE  IInv'
<1> USE DEF IInv, Start, Stop, RunCommand, Call, native, objects
<1>1. TypeOK'
  BY CallersAssumption DEF TypeOK, Places, CommandPlaces
<1>2. MonitorInv'
  BY CallersAssumption, NoneAssumption DEF MonitorInv, CommandPlaces, Busy, TypeOK
<1>3. PlaceInv'
  BY DEF PlaceInv, TypeOK
<1>4. ThreadInv'
  BY DEF ThreadInv, TypeOK
<1> QED BY <1>1, <1>2, <1>3, <1>4

(* A step of a caller leaves the monitors of those who are in calls alone.  *)
LEMMA MonitorLemma ==
    ASSUME IInv, NEW c \in Callers, pc[c] # "idle",
           \/ Return(c)
           \/ Busy(c) /\ \E place \in Places : Goto(c, place)
           \/ \E place \in CommandPlaces : Goto(c, place)
    PROVE  /\ MonitorInv'
           /\ monitor' \in [Objects -> Callers \cup {None}]
           /\ pc' \in [Callers -> Places]
BY CallersAssumption, NoneAssumption
   DEF IInv, MonitorInv, Busy, TypeOK, Return, Goto, Places, CommandPlaces

LEMMA CommandLemma ==
    ASSUME IInv, NEW c \in Callers, RunMailfsCommand(c) \/ CommandEnds(c)
    PROVE  IInv'
<1> USE DEF IInv, RunMailfsCommand, CommandEnds, At, native, objects
<1>1. MonitorInv' /\ TypeOK'
  BY MonitorLemma DEF Return, Goto, TypeOK, Places, CommandPlaces
<1>2. PlaceInv'
  BY DEF PlaceInv, TypeOK, Return, Goto
<1>3. ThreadInv'
  BY DEF ThreadInv, TypeOK, Return
<1> QED BY <1>1, <1>2, <1>3

LEMMA StartLemma ==
    ASSUME IInv, NEW c \in Callers,
           CheckRunning(c) \/ TakeOld(c) \/ ResetOld(c) \/ MakeServer(c)
    PROVE  IInv'
<1> USE DEF IInv, At
<1>0. \A d \in Callers : Busy(d) => d = c
  BY OneIsBusy DEF CheckRunning, TakeOld, ResetOld, MakeServer, Busy, CommandPlaces
<1>1. CASE CheckRunning(c)
  <2> USE <1>1 DEF CheckRunning, native, objects
  <2>1. MonitorInv' /\ TypeOK'
    BY MonitorLemma DEF Return, Goto, TypeOK, Places, CommandPlaces, Busy
  <2>2. PlaceInv'
    BY <1>0 DEF PlaceInv, TypeOK, Return, Goto, CommandPlaces, Busy
  <2>3. ThreadInv'
    BY DEF ThreadInv, TypeOK
  <2> QED BY <2>1, <2>2, <2>3
<1>2. CASE TakeOld(c)
  <2> USE <1>2 DEF TakeOld, objects
  <2>0. ~running /\ old[c] = None
    BY DEF PlaceInv
  <2>1. MonitorInv' /\ TypeOK'
    BY <2>0, MonitorLemma DEF Goto, TypeOK, Places, CommandPlaces, Busy, TakeWorker
  <2>2. PlaceInv'
    BY <1>0, <2>0 DEF PlaceInv, TypeOK, Goto, CommandPlaces, Busy, TakeWorker, ThreadInv
  <2>3. ThreadInv'
    BY <2>0 DEF ThreadInv, TypeOK, TakeWorker
  <2> QED BY <2>1, <2>2, <2>3
<1>3. CASE ResetOld(c)
  <2> USE <1>3 DEF ResetOld
  <2>0. ~running /\ \A g \in Servers : thread[g] = "none"
    BY DEF PlaceInv
  <2>1. MonitorInv' /\ TypeOK'
    BY <2>0, MonitorLemma DEF Goto, TypeOK, Places, CommandPlaces, Busy, Reset
  <2>2. PlaceInv'
    BY <1>0, <2>0 DEF PlaceInv, TypeOK, Goto, CommandPlaces, Busy, Reset
  <2>3. ThreadInv'
    BY <2>0 DEF ThreadInv, TypeOK, Reset
  <2> QED BY <2>1, <2>2, <2>3
<1>4. CASE MakeServer(c)
  <2> USE <1>4 DEF MakeServer
  <2>1. MonitorInv' /\ TypeOK'
    BY MonitorLemma DEF Goto, Throw, Return, TypeOK, Places, CommandPlaces, Busy
  <2>2. PlaceInv'
    BY <1>0 DEF PlaceInv, TypeOK, Goto, Throw, Return, CommandPlaces, Busy
  <2>3. ThreadInv'
    BY DEF ThreadInv, TypeOK
  <2> QED BY <2>1, <2>2, <2>3
<1> QED BY <1>1, <1>2, <1>3, <1>4

LEMMA PublishLemma ==
    ASSUME IInv, NEW c \in Callers, Publish(c) \/ Spawn(c) \/ KeepWorker(c)
    PROVE  IInv'
<1> USE DEF IInv, At
<1>0. \A d \in Callers : Busy(d) => d = c
  BY OneIsBusy DEF Publish, Spawn, KeepWorker, Busy, CommandPlaces
<1>1. CASE Publish(c)
  <2> USE <1>1 DEF Publish
  <2>0. server = None /\ made[c] \in alive /\ \A g \in Servers : thread[g] = "none"
    BY DEF PlaceInv
  <2>1. MonitorInv' /\ TypeOK'
    BY <2>0, MonitorLemma, NoneAssumption DEF Goto, TypeOK, Places, CommandPlaces, Busy
  <2>2. PlaceInv'
    BY <1>0, <2>0 DEF PlaceInv, TypeOK, Goto, CommandPlaces, Busy
  <2>3. ThreadInv'
    BY <2>0, NoneAssumption DEF ThreadInv, TypeOK, PlaceInv
  <2> QED BY <2>1, <2>2, <2>3
<1>2. CASE Spawn(c)
  <2> USE <1>2 DEF Spawn
  <2>0. /\ running /\ made[c] = server /\ server \in Servers /\ worker = None
        /\ \A g \in Servers : thread[g] = "none"
    BY DEF PlaceInv, ThreadInv, TypeOK
  <2>1. MonitorInv' /\ TypeOK'
    BY <2>0, MonitorLemma DEF Goto, Throw, Return, TypeOK, Places, CommandPlaces, Busy
  <2>2. PlaceInv'
    BY <1>0, <2>0 DEF PlaceInv, TypeOK, Goto, Throw, Return, CommandPlaces, Busy
  <2>3. ThreadInv'
    BY <2>0 DEF ThreadInv, TypeOK
  <2> QED BY <2>1, <2>2, <2>3
<1>3. CASE KeepWorker(c)
  <2> USE <1>3 DEF KeepWorker, objects
  <2>1. MonitorInv' /\ TypeOK'
    BY MonitorLemma DEF Return, TypeOK
  <2>2. PlaceInv'
    BY <1>0 DEF PlaceInv, TypeOK, Return, CommandPlaces, Busy
  <2>3. ThreadInv'
    BY DEF ThreadInv, TypeOK
  <2> QED BY <2>1, <2>2, <2>3
<1> QED BY <1>1, <1>2, <1>3

LEMMA JoinLemma ==
    ASSUME IInv, NEW c \in Callers, JoinOld(c) \/ JoinWorker(c)
    PROVE  IInv'
<1> USE DEF IInv, JoinOld, JoinWorker, Join, At, native
<1>0. \A d \in Callers : Busy(d) => d = c
  BY OneIsBusy DEF Busy, CommandPlaces
<1>1. MonitorInv' /\ TypeOK'
  BY MonitorLemma DEF Goto, TypeOK, Places, CommandPlaces, Busy
<1>2. worker = None /\ \A d \in Callers : old[d] # None => d = c
  BY <1>0 DEF PlaceInv, Busy, CommandPlaces
<1>3. \A g \in Servers : thread'[g] = "none"
  BY <1>2, NoneAssumption DEF ThreadInv, TypeOK
<1>4. PlaceInv'
  BY <1>0, <1>3 DEF PlaceInv, TypeOK, Goto, CommandPlaces, Busy
<1>5. ThreadInv'
  BY <1>2, <1>3, NoneAssumption DEF ThreadInv, TypeOK
<1> QED BY <1>1, <1>4, <1>5

LEMMA StopLemma ==
    ASSUME IInv, NEW c \in Callers, StopServer(c) \/ Clear(c)
    PROVE  IInv'
<1> USE DEF IInv, At
<1>0. \A d \in Callers : Busy(d) => d = c
  BY OneIsBusy DEF StopServer, Clear, Busy, CommandPlaces
<1>1. CASE StopServer(c)
  <2> USE <1>1 DEF StopServer
  <2>0. old[c] = None
    BY DEF PlaceInv
  <2>1. MonitorInv' /\ TypeOK'
    BY MonitorLemma DEF Goto, TypeOK, Places, CommandPlaces, Busy, TakeWorker
  <2>2. PlaceInv'
    BY <1>0 DEF PlaceInv, TypeOK, Goto, CommandPlaces, Busy, TakeWorker
  <2>3. ThreadInv'
    BY <2>0 DEF ThreadInv, TypeOK, TakeWorker
  <2> QED BY <2>1, <2>2, <2>3
<1>2. CASE Clear(c)
  <2> USE <1>2 DEF Clear, Reset
  <2>0. worker = None /\ \A g \in Servers : thread[g] = "none"
    BY DEF PlaceInv
  <2>1. MonitorInv' /\ TypeOK'
    BY MonitorLemma DEF Return, TypeOK
  <2>2. PlaceInv'
    BY <1>0, <2>0 DEF PlaceInv, TypeOK, Return, CommandPlaces, Busy
  <2>3. ThreadInv'
    BY <2>0 DEF ThreadInv, TypeOK
  <2> QED BY <2>1, <2>2, <2>3
<1> QED BY <1>1, <1>2

LEMMA WorkerLemma ==
    ASSUME IInv, NEW g \in Servers, ThreadGoesOn(g)
    PROVE  IInv'
<1> USE DEF IInv, native, callers, ThreadGoesOn,
            Serve, ServeFails, ServeReturns, SetLastError, End
<1>1. MonitorInv' /\ TypeOK'
  BY DEF MonitorInv, TypeOK, Busy
<1>2. thread[g] # "none" /\ thread[g] # "ended" /\ thread'[g] # "none"
  BY DEF TypeOK
<1>3. \A h \in Servers : h # g => thread'[h] = "none" /\ thread[h] = "none"
  BY <1>2 DEF ThreadInv, TypeOK
<1>4. running /\ (running' <=> thread'[g] # "ended")
  BY <1>2 DEF ThreadInv, TypeOK
<1>5. PlaceInv'
  BY <1>2, <1>4 DEF PlaceInv, TypeOK
<1>6. ThreadInv'
  <2>1. g = server /\ (worker = g \/ \E c \in Callers : old[c] = g)
    BY <1>2 DEF ThreadInv
  <2>2. UNCHANGED <<server, worker, old>>
    OBVIOUS
  <2>3. (worker # None => worker = g) /\ \A c \in Callers : old[c] # None => old[c] = g
    BY <1>2, <1>3 DEF ThreadInv, TypeOK
  <2> HIDE DEF Serve, ServeFails, ServeReturns, SetLastError, End, ThreadGoesOn
  <2> QED BY <1>2, <1>3, <1>4, <2>1, <2>2, <2>3, NoneAssumption DEF ThreadInv
<1> QED BY <1>1, <1>5, <1>6

LEMMA Inductive == IInv /\ [Next]_vars => IInv'
<1> SUFFICES ASSUME IInv, [Next]_vars PROVE IInv'
  OBVIOUS
<1>1. CASE UNCHANGED vars
  BY <1>1 DEF IInv, TypeOK, MonitorInv, PlaceInv, ThreadInv, Busy,
              vars, native, objects, callers
<1>2. CASE \E c \in Callers : Start(c) \/ Stop(c) \/ RunCommand(c) \/ CallerGoesOn(c)
  BY <1>2, CallLemma, CommandLemma, StartLemma, PublishLemma, JoinLemma, StopLemma
     DEF CallerGoesOn
<1>3. CASE \E g \in Servers : ThreadGoesOn(g)
  BY <1>3, WorkerLemma
<1> QED BY <1>1, <1>2, <1>3 DEF Next

LEMMA Invariance == Spec => []IInv
BY Initially, Inductive, PTL DEF Spec

(* The state of the bridge is well typed and its pointer to the server      *)
(* never dangles (ServerState).                                             *)
THEOREM TypeCorrect == Spec => []TypeOK
<1>1. IInv => TypeOK
  BY DEF IInv
<1> QED BY <1>1, Invariance, PTL

(* A server outlives its thread's stay in serve() (start, stop).            *)
THEOREM ServerOutlivesWorkerHolds == Spec => []ServerOutlivesWorker
<1>1. IInv => ServerOutlivesWorker
  BY NoneAssumption DEF IInv, TypeOK, ThreadInv, ServerOutlivesWorker, InServe
<1> QED BY <1>1, Invariance, PTL

(* No joinable thread object is assigned over or destroyed (start, stop).   *)
THEOREM NeverTerminatesHolds == Spec => []NeverTerminates
<1>1. IInv => NeverTerminates
  BY DEF IInv, PlaceInv, NeverTerminates
<1> QED BY <1>1, Invariance, PTL

(* isRunning tells the truth, but for a start that had no thread (running). *)
THEOREM RunningIsServedHolds == Spec => []RunningIsServed
<1>1. IInv => RunningIsServed
  BY NoneAssumption DEF IInv, TypeOK, ThreadInv, RunningIsServed, Unfinished, Settled
<1> QED BY <1>1, Invariance, PTL

(* Only a command or a new server takes away what the last server died of   *)
(* (last_error).                                                            *)
THEOREM ErrorStaysHolds == Spec => ErrorStays
<1>1. IInv /\ [Next]_vars =>
        [last_error = "serve" /\ last_error' = "none" =>
          \E c \in Callers : pc[c] \in {"succeeded", "publish"} /\ pc'[c] # pc[c]]_vars
  <2> SUFFICES ASSUME IInv, Next, last_error = "serve", last_error' = "none"
               PROVE  \E c \in Callers : pc[c] \in {"succeeded", "publish"} /\ pc'[c] # pc[c]
    BY DEF vars, native
  <2>1. PICK c \in Callers : CommandEnds(c) \/ Publish(c)
    BY DEF Next, CallerGoesOn, ThreadGoesOn, RunMailfsCommand, Start, Stop, RunCommand, Call, CheckRunning,
           TakeOld, JoinOld, JoinWorker, Join, ResetOld, MakeServer, Spawn, KeepWorker, Throw,
           StopServer, Clear, Serve, ServeFails, ServeReturns, SetLastError, End, native, vars
  <2> QED BY <2>1 DEF IInv, TypeOK, CommandEnds, Publish, At, Return, Goto
<1> QED BY <1>1, Invariance, PTL DEF Spec, ErrorStays
=============================================================================
