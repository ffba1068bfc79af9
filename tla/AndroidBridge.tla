---------------------------- MODULE AndroidBridge ----------------------------
(***************************************************************************)
(* The Android bridge: one server for the process, its thread, and the      *)
(* Java threads that start it, stop it and run commands through objects of  *)
(* MailfsHttpServer.  The methods are synchronized, each object has its own *)
(* monitor, and the native state below is shared by all objects.            *)
(*                                                                         *)
(* One action is one block under ServerState::mutex, or what lies between   *)
(* two of them.  A server and the thread that runs its serve() go by the    *)
(* same name, since a server gets at most one thread.                       *)
(***************************************************************************)
EXTENDS FiniteSets

CONSTANTS
    Callers,     \* Java threads
    Starters,    \* those that call start and stop; everyone runs commands
    Objects,     \* objects of MailfsHttpServer
    Of,          \* caller -> its object
    Servers,     \* storage for servers
    None

ASSUME CallersAssumption == Starters \subseteq Callers /\ Of \in [Callers -> Objects]
ASSUME NoneAssumption == None \notin Callers /\ None \notin Servers
(* The service of the demo owns the only object that starts and stops.      *)
ASSUME OneStarterAssumption == \A c, d \in Starters : Of[c] = Of[d]

VARIABLES
    monitor,      \* object -> the caller in one of its synchronized methods
    server, worker, running, last_error,    \* ServerState
    alive,        \* servers constructed and not destroyed
    stop_serving, \* those whose stop was called
    thread,       \* server -> what its thread does
    pc,           \* caller -> the place in its call
    old,          \* caller -> the thread in its local std::thread
    made          \* caller -> its raw_server

native == <<server, worker, running, last_error>>
objects == <<alive, stop_serving, thread>>
callers == <<monitor, pc, old, made>>
vars == <<native, objects, callers>>

Init ==
    /\ monitor = [o \in Objects |-> None]
    /\ server = None /\ worker = None /\ running = FALSE /\ last_error = "none"
    /\ alive = {} /\ stop_serving = {}
    /\ thread = [g \in Servers |-> "none"]
    /\ pc = [c \in Callers |-> "idle"]
    /\ old = [c \in Callers |-> None]
    /\ made = [c \in Callers |-> None]

-----------------------------------------------------------------------------
(* Calls from Java. *)

Call(c, place) ==
    /\ pc[c] = "idle" /\ monitor[Of[c]] = None
    /\ monitor' = [monitor EXCEPT ![Of[c]] = c]
    /\ pc' = [pc EXCEPT ![c] = place]
    /\ UNCHANGED <<native, objects, old, made>>

Start(c) == c \in Starters /\ Call(c, "check")
Stop(c) == c \in Starters /\ Call(c, "stop")
RunCommand(c) == Call(c, "command")

At(c, place) == pc[c] = place
Goto(c, place) == pc' = [pc EXCEPT ![c] = place] /\ UNCHANGED monitor

Return(c) ==
    /\ pc' = [pc EXCEPT ![c] = "idle"]
    /\ monitor' = [monitor EXCEPT ![Of[c]] = None]
    /\ made' = [made EXCEPT ![c] = None]

(* The catch handlers of start. *)
Throw(c) ==
    /\ last_error' = "start"
    /\ Return(c)

(* The body of a command is an operation of the mail service on a client    *)
(* and a repository of its own.                                             *)
RunMailfsCommand(c) ==
    /\ At(c, "command")
    /\ \E result \in {"succeeded", "failed"} : Goto(c, result)
    /\ UNCHANGED <<native, objects, old, made>>

(* Either way what lastError returned before is lost. *)
CommandEnds(c) ==
    /\ pc[c] \in {"succeeded", "failed"}
    /\ last_error' = IF At(c, "failed") THEN "command" ELSE "none"
    /\ Return(c)
    /\ UNCHANGED <<server, worker, running, objects, old>>

-----------------------------------------------------------------------------
(* start *)

(* Mutant: start goes on without join_old_worker_if_needed. *)
CheckRunningOnly(c) ==
    /\ At(c, "check")
    /\ IF running THEN Return(c) ELSE Goto(c, "make") /\ UNCHANGED made
    /\ UNCHANGED <<native, objects, old>>

CheckRunning(c) ==
    /\ At(c, "check")
    /\ IF running THEN Return(c) ELSE Goto(c, "take") /\ UNCHANGED made
    /\ UNCHANGED <<native, objects, old>>

TakeWorker(c) ==
    /\ old' = [old EXCEPT ![c] = worker]
    /\ worker' = None

(* join_old_worker_if_needed, in three parts. *)
TakeOld(c) ==
    /\ At(c, "take")
    /\ IF running THEN Goto(c, "make") /\ UNCHANGED <<worker, old>>
                  ELSE Goto(c, "join") /\ TakeWorker(c)
    /\ UNCHANGED <<server, running, last_error, objects, made>>

Join(c, place, next) ==
    /\ At(c, place)
    /\ old[c] # None => thread[old[c]] = "ended"
    /\ thread' = [g \in Servers |-> IF g = old[c] THEN "none" ELSE thread[g]]
    /\ old' = [old EXCEPT ![c] = None]
    /\ Goto(c, next)
    /\ UNCHANGED <<native, alive, stop_serving, made>>

JoinOld(c) == Join(c, "join", "reset")

Reset ==
    /\ alive' = alive \ {server}
    /\ stop_serving' = stop_serving \ {server}
    /\ server' = None

(* Mutant: the old server is destroyed and still pointed to. *)
ResetOldDangling(c) ==
    /\ At(c, "reset")
    /\ IF running THEN UNCHANGED <<alive, stop_serving>>
       ELSE alive' = alive \ {server} /\ stop_serving' = stop_serving \ {server}
    /\ Goto(c, "make")
    /\ UNCHANGED <<native, thread, old, made>>

ResetOld(c) ==
    /\ At(c, "reset")
    /\ IF running THEN UNCHANGED <<server, alive, stop_serving>> ELSE Reset
    /\ Goto(c, "make")
    /\ UNCHANGED <<worker, running, last_error, thread, old, made>>

(* Configuring the logger or the server may throw. *)
MakeServer(c) ==
    /\ At(c, "make")
    /\ \/ /\ \E g \in Servers \ alive :
                /\ thread[g] = "none"
                /\ made' = [made EXCEPT ![c] = g]
                /\ alive' = alive \cup {g}
          /\ Goto(c, "publish")
          /\ UNCHANGED last_error
       \/ Throw(c) /\ UNCHANGED alive
    /\ UNCHANGED <<server, worker, running, stop_serving, thread, old>>

(* A server that is still there is destroyed by the assignment. *)
Publish(c) ==
    /\ At(c, "publish")
    /\ alive' = alive \ {server}
    /\ stop_serving' = stop_serving \ {server}
    /\ server' = made[c]
    /\ last_error' = "none"
    /\ running' = TRUE
    /\ Goto(c, "spawn")
    /\ UNCHANGED <<worker, thread, old, made>>

(* Where no thread can be created start fails, and `running' stays TRUE.    *)
Spawn(c) ==
    /\ At(c, "spawn")
    /\ \/ /\ thread' = [thread EXCEPT ![made[c]] = "started"]
          /\ old' = [old EXCEPT ![c] = made[c]]
          /\ Goto(c, "keep")
          /\ UNCHANGED <<last_error, made>>
       \/ Throw(c) /\ UNCHANGED <<thread, old>>
    /\ UNCHANGED <<server, worker, running, alive, stop_serving>>

(* Mutant: the error is cleared once the server is up. *)
KeepWorkerAndClear(c) ==
    /\ At(c, "keep")
    /\ worker = None
    /\ worker' = old[c]
    /\ last_error' = "none"
    /\ old' = [old EXCEPT ![c] = None]
    /\ Return(c)
    /\ UNCHANGED <<server, running, objects>>

(* To assign over a joinable thread ends the program: see NeverTerminates.  *)
KeepWorker(c) ==
    /\ At(c, "keep")
    /\ worker = None
    /\ worker' = old[c]
    /\ old' = [old EXCEPT ![c] = None]
    /\ Return(c)
    /\ UNCHANGED <<server, running, last_error, objects>>

-----------------------------------------------------------------------------
(* stop *)

(* Mutant: the thread is taken, the server not told to stop. *)
TakeWorkerOnly(c) ==
    /\ At(c, "stop")
    /\ TakeWorker(c)
    /\ Goto(c, "await")
    /\ UNCHANGED <<server, running, last_error, objects, made>>

(* Mutant: the server is destroyed before its thread is joined. *)
StopAndReset(c) ==
    /\ At(c, "stop")
    /\ Reset
    /\ TakeWorker(c)
    /\ Goto(c, "await")
    /\ UNCHANGED <<running, last_error, thread, made>>

StopServer(c) ==
    /\ At(c, "stop")
    /\ stop_serving' = stop_serving \cup ({server} \ {None})
    /\ TakeWorker(c)
    /\ Goto(c, "await")
    /\ UNCHANGED <<server, running, last_error, alive, thread, made>>

JoinWorker(c) == Join(c, "await", "clear")

Clear(c) ==
    /\ At(c, "clear")
    /\ Reset
    /\ running' = FALSE
    /\ Return(c)
    /\ UNCHANGED <<worker, last_error, thread, old>>

-----------------------------------------------------------------------------
(* The thread of server g. *)

(* serve() cannot listen, or no thread can be created for a client. *)
ServeFails(g) ==
    /\ thread[g] \in {"started", "serving"}
    /\ thread' = [thread EXCEPT ![g] = "failed"]
    /\ UNCHANGED <<native, alive, stop_serving, callers>>

Serve(g) ==
    /\ thread[g] = "started"
    /\ thread' = [thread EXCEPT ![g] = "serving"]
    /\ UNCHANGED <<native, alive, stop_serving, callers>>

ServeReturns(g) ==
    /\ thread[g] = "serving" /\ g \in stop_serving
    /\ thread' = [thread EXCEPT ![g] = "returned"]
    /\ UNCHANGED <<native, alive, stop_serving, callers>>

SetLastError(g) ==
    /\ thread[g] = "failed"
    /\ thread' = [thread EXCEPT ![g] = "returned"]
    /\ last_error' = "serve"
    /\ UNCHANGED <<server, worker, running, alive, stop_serving, callers>>

(* Mutant: only a server that was stopped ends `running'. *)
EndIfStopped(g) ==
    /\ thread[g] = "returned"
    /\ thread' = [thread EXCEPT ![g] = "ended"]
    /\ running' = (running /\ g \notin stop_serving)
    /\ UNCHANGED <<server, worker, last_error, alive, stop_serving, callers>>

End(g) ==
    /\ thread[g] = "returned"
    /\ thread' = [thread EXCEPT ![g] = "ended"]
    /\ running' = FALSE
    /\ UNCHANGED <<server, worker, last_error, alive, stop_serving, callers>>

CallerGoesOn(c) ==
    \/ RunMailfsCommand(c) \/ CommandEnds(c)
    \/ CheckRunning(c) \/ TakeOld(c) \/ JoinOld(c) \/ ResetOld(c)
    \/ MakeServer(c) \/ Publish(c) \/ Spawn(c) \/ KeepWorker(c)
    \/ StopServer(c) \/ JoinWorker(c) \/ Clear(c)

ThreadGoesOn(g) ==
    \/ Serve(g) \/ ServeFails(g) \/ ServeReturns(g) \/ SetLastError(g) \/ End(g)

Next ==
    \/ \E c \in Callers : Start(c) \/ Stop(c) \/ RunCommand(c) \/ CallerGoesOn(c)
    \/ \E g \in Servers : ThreadGoesOn(g)

Spec == Init /\ [][Next]_vars

(* Calls and threads go on; a serving thread looks at its flag every 250 ms *)
(* but need never fail.                                                     *)
Fairness ==
    /\ \A c \in Callers : WF_vars(CallerGoesOn(c))
    /\ \A g \in Servers :
          WF_vars(Serve(g) \/ ServeReturns(g) \/ SetLastError(g) \/ End(g))

FairSpec == Spec /\ Fairness

-----------------------------------------------------------------------------
(* Properties *)

CommandPlaces == {"command", "succeeded", "failed"}
Places == CommandPlaces \cup
          {"idle", "check", "take", "join", "reset", "make", "publish", "spawn", "keep",
           "stop", "await", "clear"}

(* The state is well typed, and the pointer to the server is never dangling *)
(* (ServerState::server).                                                   *)
TypeOK ==
    /\ monitor \in [Objects -> Callers \cup {None}]
    /\ server \in alive \cup {None}
    /\ worker \in Servers \cup {None}
    /\ running \in BOOLEAN
    /\ last_error \in {"none", "start", "serve", "command"}
    /\ alive \subseteq Servers /\ stop_serving \subseteq alive
    /\ thread \in [Servers -> {"none", "started", "serving", "failed", "returned", "ended"}]
    /\ pc \in [Callers -> Places]
    /\ old \in [Callers -> Servers \cup {None}]
    /\ made \in [Callers -> Servers \cup {None}]

InServe(g) == thread[g] \in {"started", "serving"}
Unfinished(g) == thread[g] \notin {"none", "ended"}

(* No server is destroyed while its thread is in serve(), whatever starts,  *)
(* stops, failures and commands come together (start, stop and the worker's *)
(* lambda, which holds a raw pointer).                                      *)
ServerOutlivesWorker == \A g \in Servers : InServe(g) => g \in alive

(* No std::thread is assigned over or destroyed while it is joinable, which *)
(* would end the program (ServerState::worker and the locals of start and   *)
(* stop).                                                                   *)
NeverTerminates ==
    \A c \in Callers :
        /\ pc[c] = "keep" => worker = None
        /\ pc[c] \in {"idle", "reset", "make", "publish", "spawn", "clear"} => old[c] = None

Settled == \A c \in Starters : pc[c] \in {"idle"} \cup CommandPlaces

(* isRunning never denies a server whose thread is at work, and when no     *)
(* start or stop is on its way it claims one only if that thread has not    *)
(* ended, or if start had no thread for it and failed (running).            *)
RunningIsServed ==
    /\ \A g \in Servers : Unfinished(g) => running
    /\ Settled /\ running => server # None /\ (worker # None => Unfinished(worker))

(* What a server died of stays in lastError until a command ends or a new   *)
(* server is published (last_error).                                        *)
ErrorStays ==
    [][last_error = "serve" /\ last_error' = "none" =>
          \E c \in Callers : pc[c] \in {"succeeded", "publish"} /\ pc'[c] # pc[c]]_vars

(* Every call of start, stop and runCommand returns, the joins in them      *)
(* included.                                                                *)
CallsEnd == \A c \in Callers : pc[c] # "idle" ~> pc[c] = "idle"
=============================================================================
