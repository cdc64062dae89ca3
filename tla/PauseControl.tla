---------------------------- MODULE PauseControl ----------------------------
(***************************************************************************)
(* The pause protocol of src/control.cc: the simulator thread, which calls *)
(* into the runtime at every instrumented statement and clock edge and may *)
(* stop there, and the HTTP handlers that let it go on.                    *)
(*                                                                         *)
(* runtime_lock is a std::mutex used as a binary semaphore: the simulator  *)
(* locks it twice to stop itself and a handler thread, which never locked  *)
(* it, unlocks it.  The C++ standard leaves both uses undefined; the model *)
(* takes what the glibc mutex under std::mutex does: lock() waits until    *)
(* the mutex is free, whoever holds it, unlock() frees it, whoever calls,  *)
(* and unlocking a free mutex leaves it free.                              *)
(*                                                                         *)
(* One action is one access to shared state, so that handlers interleave   *)
(* with the simulator between any two accesses.  Which client talks to the *)
(* runtime is left open here: any request may arrive at any time.  The     *)
(* requests of the other modules only keep a thread of the pool, some of   *)
(* them for ever: they wait for a database or for vpi_lock (see Session).  *)
(* The modules DebuggerMock and EventDebugger close the system with a      *)
(* client that sends none of those.                                        *)
(***************************************************************************)
EXTENDS Naturals

CONSTANTS
    Workers,      \* the threads of the HTTP server's pool
    MaxReleases,  \* bound: no un-pausing request is taken after this many
    MaxSynch      \* bound: synch callbacks pending at one time

ASSUME BoundsAssumption == MaxReleases \in Nat /\ MaxSynch \in Nat

VARIABLES
    runtime_lock,        \* is the mutex locked
    paused,              \* "is the simulation paused"
    step_over,
    pause_clock_edge,
    has_paused_on_clock,
    use_client_request,
    http_client,         \* is there a client to post notifications to
    db_,                 \* is a debug database loaded
    synch_cbs,           \* cbNextSimTime callbacks registered and not yet run
    finish,              \* vpi_control(vpiFinish) has been called
    server,              \* state of http_server->listen()
    sim,                 \* where the simulator thread is
    cause,               \* what it is stopping for
    worker,              \* where each handler thread is
    releases,            \* history: un_pause_sim() calls of handlers so far
    passes               \* history: pause_sim() calls that returned so far

flags == <<step_over, pause_clock_edge, has_paused_on_clock,
           use_client_request, http_client, db_, synch_cbs, finish>>

vars == <<runtime_lock, paused, flags, server, sim, cause, worker,
          releases, passes>>

SimStates ==
    {"boot", "init_lock", "set_paused", "acquire",   \* initialize_runtime
     "running", "notify", "post", "decide",          \* callbacks
     "td_paused", "td_unlock", "td_stop", "td_join", "exited"}

Causes == {"init", "trace", "clock", "synch", "exception", "teardown"}

WorkerStates ==
    {"idle", "un_pause", "unlock",                   \* un_pause_sim
     "load_db", "drop_db", "clock_off",              \* /connect, /clock/synch
     "other"}                                        \* what is modelled elsewhere

FlagTypes ==
    /\ runtime_lock \in BOOLEAN
    /\ paused \in BOOLEAN
    /\ step_over \in BOOLEAN
    /\ pause_clock_edge \in BOOLEAN
    /\ has_paused_on_clock \in BOOLEAN
    /\ use_client_request \in BOOLEAN
    /\ http_client \in BOOLEAN
    /\ db_ \in BOOLEAN
    /\ finish \in BOOLEAN

ControlTypes ==
    /\ synch_cbs \in 0..MaxSynch
    /\ server \in {"none", "starting", "listening", "failed", "stopped"}
    /\ sim \in SimStates
    /\ cause \in Causes
    /\ worker \in [Workers -> WorkerStates]
    /\ releases \in Nat
    /\ passes \in Nat

TypeOK == FlagTypes /\ ControlTypes

Init ==
    /\ runtime_lock = FALSE
    /\ paused = FALSE
    /\ step_over = FALSE
    /\ pause_clock_edge = FALSE
    /\ has_paused_on_clock = FALSE
    /\ use_client_request = FALSE
    /\ http_client = FALSE
    /\ db_ = FALSE
    /\ synch_cbs = 0
    /\ finish = FALSE
    /\ server = "none"
    /\ sim = "boot"
    /\ cause = "init"
    /\ worker = [w \in Workers |-> "idle"]
    /\ releases = 0
    /\ passes = 0

-----------------------------------------------------------------------------
(* initialize_runtime: the server thread starts first, the lock comes      *)
(* after it, so that handlers may already run before the simulator stops.  *)

SpawnServer ==
    /\ sim = "boot"
    /\ sim' = "init_lock"
    /\ server' = "starting"
    /\ UNCHANGED <<runtime_lock, paused, flags, cause, worker, releases, passes>>

\* listen() binds the port, or cannot and the server thread returns.
Listen(ok) ==
    /\ server = "starting"
    /\ server' = IF ok THEN "listening" ELSE "failed"
    /\ UNCHANGED <<runtime_lock, paused, flags, sim, cause, worker, releases, passes>>

\* Mutant: the lock that makes the first pause_sim() wait is missing.
InitLockMissing ==
    /\ sim = "init_lock"
    /\ sim' = "set_paused"
    /\ UNCHANGED <<runtime_lock, paused, flags, server, cause, worker, releases, passes>>

\* "by default it's locked"
InitLock ==
    /\ sim = "init_lock"
    /\ ~runtime_lock
    /\ runtime_lock' = TRUE
    /\ sim' = "set_paused"
    /\ UNCHANGED <<paused, flags, server, cause, worker, releases, passes>>

-----------------------------------------------------------------------------
(* pause_sim: raise the flag, then wait for the mutex.                     *)

\* Mutant: the mutex is locked afresh on the way into the pause.
SetPausedRelocks ==
    /\ sim = "set_paused"
    /\ paused' = TRUE
    /\ runtime_lock' = TRUE
    /\ sim' = "acquire"
    /\ UNCHANGED <<flags, server, cause, worker, releases, passes>>

SetPaused ==
    /\ sim = "set_paused"
    /\ paused' = TRUE
    /\ sim' = "acquire"
    /\ UNCHANGED <<runtime_lock, flags, server, cause, worker, releases, passes>>

\* Mutant: the simulator waits for the mutex and does not keep it.
AcquireLeavesFree ==
    /\ sim = "acquire"
    /\ ~runtime_lock
    /\ sim' = "running"
    /\ passes' = passes + 1
    /\ UNCHANGED <<runtime_lock, paused, flags, server, cause, worker, releases>>

Acquire ==
    /\ sim = "acquire"
    /\ ~runtime_lock
    /\ runtime_lock' = TRUE
    /\ sim' = "running"
    /\ passes' = passes + 1
    /\ UNCHANGED <<paused, flags, server, cause, worker, releases>>

-----------------------------------------------------------------------------
(* The entry points the simulator calls while it runs.                     *)

\* The simulator enters a callback that is going to stop it.
Enter(why, next) ==
    /\ sim = "running"
    /\ sim' = next
    /\ cause' = why
    /\ UNCHANGED <<runtime_lock, paused, step_over, pause_clock_edge,
                   use_client_request, http_client, db_, finish, server,
                   worker, releases, passes>>

\* breakpoint_trace: "hit" is what the table of breakpoints says of the
\* statement, "holds" what its condition evaluates to (TRUE without one).
BreakpointTrace(hit, holds) ==
    /\ step_over \/ hit
    /\ holds
    /\ Enter("trace", "notify")
    /\ UNCHANGED <<has_paused_on_clock, synch_cbs>>

\* breakpoint_clock
BreakpointClock ==
    /\ pause_clock_edge
    /\ Enter("clock", "notify")
    /\ has_paused_on_clock' = TRUE
    /\ UNCHANGED synch_cbs

\* Mutant: the callback fires though it was not registered.
PauseAtSynchUnregistered ==
    /\ Enter("synch", "notify")
    /\ synch_cbs' = synch_cbs - 1
    /\ UNCHANGED has_paused_on_clock

\* cb_pause_at_synch: the callback registered for the next simulation time.
PauseAtSynch ==
    /\ synch_cbs > 0
    /\ Enter("synch", "notify")
    /\ synch_cbs' = synch_cbs - 1
    /\ UNCHANGED has_paused_on_clock

\* exception: only a connected client makes it stop.
Exception ==
    /\ http_client
    /\ Enter("exception", "post")
    /\ UNCHANGED <<has_paused_on_clock, synch_cbs>>

\* teardown_runtime, at the end of the simulation.
Teardown ==
    /\ Enter("teardown", "notify")
    /\ UNCHANGED <<has_paused_on_clock, synch_cbs>>

SimStep(from, to) ==
    /\ sim = from
    /\ sim' = to
    /\ UNCHANGED <<runtime_lock, paused, flags, server, cause, worker, releases, passes>>

\* Mutant: a stop at a synch callback is not posted.
PostsNoSynch == http_client /\ cause # "synch" /\ (cause = "clock" => db_)

\* A clock edge is posted with values from the database.
PostsNotification == http_client /\ (cause = "clock" => db_)

Notify == SimStep("notify", IF PostsNotification THEN "post" ELSE "decide")

\* The client has answered the notification, or the connection failed.
PostReturns == SimStep("post", "decide")

\* Mutant: only a client with a server of its own makes the simulator pause.
AfterNotifyServerOnly ==
    IF cause = "teardown" THEN "td_paused"
    ELSE IF cause \in {"trace", "clock"} /\ ~http_client
    THEN "running"
    ELSE "set_paused"

\* Mutant: only a client that sends requests makes the simulator pause.
AfterNotifyRequestsOnly ==
    IF cause = "teardown" THEN "td_paused"
    ELSE IF cause \in {"trace", "clock"} /\ ~use_client_request
    THEN "running"
    ELSE "set_paused"

\* "only pause when we know we can continue": breakpoint_trace and
\* breakpoint_clock look at the client once more, the others do not.
AfterNotify ==
    IF cause = "teardown" THEN "td_paused"
    ELSE IF cause \in {"trace", "clock"} /\ ~(http_client \/ use_client_request)
    THEN "running"
    ELSE "set_paused"

Decide == SimStep("decide", AfterNotify)

-----------------------------------------------------------------------------
(* teardown_runtime after its notification: un_pause_sim, stop the server, *)
(* join its thread, which waits for the handlers that are still running.   *)

TeardownClearPaused ==
    /\ sim = "td_paused"
    /\ paused' = FALSE
    /\ sim' = "td_unlock"
    /\ UNCHANGED <<runtime_lock, flags, server, cause, worker, releases, passes>>

TeardownUnlock ==
    /\ sim = "td_unlock"
    /\ runtime_lock' = FALSE
    /\ sim' = "td_stop"
    /\ UNCHANGED <<paused, flags, server, cause, worker, releases, passes>>

\* Mutant: the server is not stopped before its thread is joined.
StopServerForgotten == SimStep("td_stop", "td_join")

StopServer ==
    /\ sim = "td_stop"
    /\ server' = "stopped"
    /\ sim' = "td_join"
    /\ UNCHANGED <<runtime_lock, paused, flags, cause, worker, releases, passes>>

Join ==
    /\ server = "stopped"
    /\ \A w \in Workers : worker[w] = "idle"
    /\ SimStep("td_join", "exited")

-----------------------------------------------------------------------------
(* The handlers.  A request is taken by an idle thread of the pool while   *)
(* the server listens.                                                     *)

Takes(w, next) ==
    /\ server = "listening"
    /\ worker[w] = "idle"
    /\ worker' = [worker EXCEPT ![w] = next]
    /\ UNCHANGED <<runtime_lock, paused, server, sim, cause, releases, passes>>

\* The part of /continue, /step_over and /stop before un_pause_sim.
UnPauseRequest(w) == releases < MaxReleases /\ Takes(w, "un_pause")

Resume(w, step) ==                            \* POST /continue, /step_over
    /\ UnPauseRequest(w)
    /\ step_over' = step
    /\ UNCHANGED <<pause_clock_edge, has_paused_on_clock, use_client_request,
                   http_client, db_, synch_cbs, finish>>

Stop(w) ==                                    \* POST /stop
    /\ UnPauseRequest(w)
    /\ finish' = TRUE
    /\ UNCHANGED <<step_over, pause_clock_edge, has_paused_on_clock,
                   use_client_request, http_client, db_, synch_cbs>>

\* un_pause_sim: lower the flag, then unlock.
ClearPaused(w) ==
    /\ worker[w] = "un_pause"
    /\ paused' = FALSE
    /\ worker' = [worker EXCEPT ![w] = "unlock"]
    /\ UNCHANGED <<runtime_lock, flags, server, sim, cause, releases, passes>>

Unlock(w) ==
    /\ worker[w] = "unlock"
    /\ runtime_lock' = FALSE
    /\ worker' = [worker EXCEPT ![w] = "idle"]
    /\ releases' = releases + 1
    /\ UNCHANGED <<paused, flags, server, sim, cause, passes>>

\* Mutant: unlock first, lower the flag afterwards.
UnPauseUnlockFirst(w) ==
    \/ /\ worker[w] = "un_pause"
       /\ runtime_lock' = FALSE
       /\ worker' = [worker EXCEPT ![w] = "unlock"]
       /\ UNCHANGED <<paused, flags, server, sim, cause, releases, passes>>
    \/ /\ worker[w] = "unlock"
       /\ paused' = FALSE
       /\ worker' = [worker EXCEPT ![w] = "idle"]
       /\ releases' = releases + 1
       /\ UNCHANGED <<runtime_lock, flags, server, sim, cause, passes>>

UnPause(w) == ClearPaused(w) \/ Unlock(w)

Clock(w, value) ==                            \* POST /clock/on, /clock/off
    /\ Takes(w, "idle")
    /\ pause_clock_edge' = (value = "on")
    /\ UNCHANGED <<step_over, has_paused_on_clock, use_client_request,
                   http_client, db_, synch_cbs, finish>>

\* POST /clock/synch registers its callback first and then, as every value
\* that is not "on" does, ends the pausing on clock edges.
ClockSynch(w) ==
    /\ Takes(w, "clock_off")
    /\ synch_cbs < MaxSynch
    /\ synch_cbs' = synch_cbs + 1
    /\ UNCHANGED <<step_over, pause_clock_edge, has_paused_on_clock,
                   use_client_request, http_client, db_, finish>>

ClockOff(w) ==
    /\ worker[w] = "clock_off"
    /\ worker' = [worker EXCEPT ![w] = "idle"]
    /\ pause_clock_edge' = FALSE
    /\ UNCHANGED <<runtime_lock, paused, step_over, has_paused_on_clock,
                   use_client_request, http_client, db_, synch_cbs, finish,
                   server, sim, cause, releases, passes>>

ConnectClientRequest(w) ==                    \* POST /connect, 255.255.255.255
    /\ Takes(w, "idle")
    /\ use_client_request' = TRUE
    /\ UNCHANGED <<step_over, pause_clock_edge, has_paused_on_clock,
                   http_client, db_, synch_cbs, finish>>

Connect(w) ==                                 \* POST /connect, ip and port
    /\ Takes(w, "load_db")
    /\ http_client' = TRUE
    /\ UNCHANGED <<step_over, pause_clock_edge, has_paused_on_clock,
                   use_client_request, db_, synch_cbs, finish>>

\* The file is a database, or is none: then the client goes again, and after
\* it the database of an earlier /connect.
LoadDb(w, ok) ==
    /\ worker[w] = "load_db"
    /\ worker' = [worker EXCEPT ![w] = IF ok THEN "idle" ELSE "drop_db"]
    /\ db_' = (ok \/ db_)
    /\ http_client' = (ok /\ http_client)
    /\ UNCHANGED <<runtime_lock, paused, step_over, pause_clock_edge,
                   has_paused_on_clock, use_client_request, synch_cbs, finish,
                   server, sim, cause, releases, passes>>

DropDb(w) ==
    /\ worker[w] = "drop_db"
    /\ worker' = [worker EXCEPT ![w] = "idle"]
    /\ db_' = FALSE
    /\ UNCHANGED <<runtime_lock, paused, step_over, pause_clock_edge,
                   has_paused_on_clock, use_client_request, http_client, synch_cbs,
                   finish, server, sim, cause, releases, passes>>

\* A request of another module: it touches nothing here, and its answer may
\* never come, since GET /breakpoint and /context wait for a database.
OtherRequest(w) == Takes(w, "other") /\ UNCHANGED flags

OtherAnswer(w) ==
    /\ worker[w] = "other"
    /\ worker' = [worker EXCEPT ![w] = "idle"]
    /\ UNCHANGED <<runtime_lock, paused, flags, server, sim, cause, releases, passes>>

-----------------------------------------------------------------------------

ServerThread == \E ok \in BOOLEAN : Listen(ok)

Callback ==
    \/ \E hit, holds \in BOOLEAN : BreakpointTrace(hit, holds)
    \/ BreakpointClock
    \/ PauseAtSynch
    \/ Exception

\* What the simulator thread does on its own once it has entered the runtime.
SimProceeds ==
    \/ SpawnServer \/ InitLock
    \/ SetPaused \/ Acquire
    \/ Notify \/ PostReturns \/ Decide
    \/ TeardownClearPaused \/ TeardownUnlock \/ StopServer \/ Join

Request(w) ==
    \/ \E step \in BOOLEAN : Resume(w, step)
    \/ Stop(w)
    \/ \E value \in {"on", "off"} : Clock(w, value)
    \/ ClockSynch(w)
    \/ ConnectClientRequest(w)
    \/ Connect(w)

HandlerProceeds(w) ==
    \/ UnPause(w)
    \/ ClockOff(w)
    \/ \E ok \in BOOLEAN : LoadDb(w, ok)
    \/ DropDb(w)

Other(w) == OtherRequest(w) \/ OtherAnswer(w)

Next ==
    \/ ServerThread
    \/ Callback
    \/ Teardown
    \/ SimProceeds
    \/ \E w \in Workers : Request(w) \/ HandlerProceeds(w) \/ Other(w)

\* Threads that can go on do: the operating system schedules them.  Nothing
\* makes a client send a request, the design reach a statement, or a request
\* of another module get its answer.
Fairness ==
    /\ WF_vars(ServerThread)
    /\ WF_vars(SimProceeds)
    /\ \A w \in Workers : WF_vars(HandlerProceeds(w))

Spec == Init /\ [][Next]_vars

FairSpec == Spec /\ Fairness

-----------------------------------------------------------------------------
(* Properties.                                                             *)

\* A simulator stuck in pause_sim is reported as "Paused", unless a handler
\* is on its way to unlock it: a client that polls /status/simulation until
\* it says "Paused" cannot wait for ever on a simulator that waits for it.
BlockedIsVisible ==
    sim = "acquire" /\ runtime_lock /\ ~paused =>
        \E w \in Workers : worker[w] = "unlock"

\* "is the simulation paused": what /status/simulation calls "Paused" is a
\* simulator that waits for the mutex, and cannot have it.
PausedMeansStopped == paused => sim = "acquire" /\ runtime_lock

\* Every pause_sim() that returned had an un_pause_sim() of its own: the
\* simulator never gets past a stop, the initial one included, unless some
\* client asked for it, whatever requests come when it is not stopped.
EachPassHasItsRelease == passes <= releases

\* Where the simulator thread is after initialize_runtime took the mutex and
\* before teardown_runtime gives it back.
Gated == {"set_paused", "acquire", "running", "notify", "post", "decide",
          "td_paused", "td_unlock"}

\* A mutex that is free while the simulator is gated is a request to continue
\* that no stop has used yet; several such requests count as one, since
\* unlocking a free mutex leaves no trace.
FreeLockIsUnusedRelease ==
    sim \in Gated /\ ~runtime_lock => passes < releases

\* A handler about to unlock while the simulator stops makes it go on: no
\* request to continue is lost once the initial lock has been taken.
ReleaseResumes ==
    (sim \in {"set_paused", "acquire"} /\ \E w \in Workers : worker[w] = "unlock")
        ~> sim = "running"

\* teardown_runtime returns unless one of the handlers of the other modules
\* never answers: of the handlers here none holds up the join of the server's
\* thread, whatever they were doing when the simulation ended.
TeardownWaitsForOthers ==
    sim = "td_paused" ~> (sim = "exited" \/ [](\E w \in Workers : worker[w] = "other"))
=============================================================================
