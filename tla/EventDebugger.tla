---------------------------- MODULE EventDebugger ----------------------------
(***************************************************************************)
(* PauseControl closed with a debugger that has a server of its own, the   *)
(* client the http_client half of src/control.cc is written for: it        *)
(* connects while the simulator is stopped, waits for /status/simulation   *)
(* to say "Paused" before its first continue, and from then on answers     *)
(* every notification (/status/breakpoint, /step, /clock, /synch,          *)
(* /exception) with one POST /continue or /step_over, at any moment after  *)
(* the notification was sent.  Its user may pause on clock edges, ask for  *)
(* a stop at the next simulation time, or end the session with POST /stop. *)
(*                                                                         *)
(* The debugger is not part of the repository: it is modelled from the     *)
(* requests the runtime takes and the notifications it sends.  It sends no *)
(* request that could wait in the runtime for ever.                        *)
(***************************************************************************)
EXTENDS PauseControl

CONSTANT
    SimLength      \* bound: calls into the runtime before the simulation ends

ASSUME LengthAssumption == SimLength \in Nat

VARIABLES
    calls,         \* statements and clock edges the simulation has reached
    debugger,      \* what the debugger is doing
    inbox          \* notifications it has not answered yet

sessionVars == <<vars, calls, debugger, inbox>>

SessionInit ==
    /\ Init
    /\ calls = 0
    /\ debugger = "connect"
    /\ inbox = 0

-----------------------------------------------------------------------------
(* The simulator and the threads of the runtime.                           *)

\* A notification other than the one teardown_runtime sends.
Delivers == sim # "post" /\ sim' = "post" /\ cause' # "teardown"

Deliver ==
    /\ inbox' = IF Delivers /\ debugger = "serve" THEN inbox + 1 ELSE inbox
    /\ UNCHANGED debugger

\* The simulation reaches an instrumented statement, a clock edge or a new
\* simulation time; statements without a breakpoint, or whose condition is
\* false, let it run on.
Call ==
    /\ sim = "running"
    /\ calls < SimLength
    /\ calls' = calls + 1
    /\ Callback \/ UNCHANGED vars
    /\ Deliver

\* The simulator may obey vpi_control(vpiFinish); a test bench that never asks
\* for it, as tests/verilator/test.cc, runs to its own end.
EndOfSimulation ==
    /\ calls = SimLength \/ finish
    /\ Teardown
    /\ UNCHANGED <<calls, debugger, inbox>>

SimAdvances == SimProceeds /\ Deliver /\ UNCHANGED calls

ServerAdvances == ServerThread /\ UNCHANGED <<calls, debugger, inbox>>

HandlerAdvances(w) == HandlerProceeds(w) /\ UNCHANGED <<calls, debugger, inbox>>

-----------------------------------------------------------------------------
(* The debugger.                                                           *)

DebuggerConnects(w) ==
    /\ debugger = "connect"
    /\ Connect(w)
    /\ debugger' = "connecting"
    /\ UNCHANGED <<calls, inbox>>

\* The answer to /connect: 200, or 401 when the database could not be loaded.
ConnectReply ==
    /\ debugger = "connecting"
    /\ \A w \in Workers : worker[w] \notin {"load_db", "drop_db"}
    /\ debugger' = IF http_client THEN "launch" ELSE "gone"
    /\ UNCHANGED <<vars, calls, inbox>>

\* The first continue, once GET /status/simulation says "Paused".
Launch(w) ==
    /\ debugger = "launch"
    /\ paused
    /\ \E step \in BOOLEAN : Resume(w, step)
    /\ debugger' = "serve"
    /\ UNCHANGED <<calls, inbox>>

Answer(w) ==
    /\ debugger = "serve"
    /\ inbox > 0
    /\ \E step \in BOOLEAN : Resume(w, step)
    /\ inbox' = inbox - 1
    /\ UNCHANGED <<calls, debugger>>

PauseOn(w) ==
    /\ debugger = "serve"
    /\ (\E value \in {"on", "off"} : Clock(w, value)) \/ ClockSynch(w)
    /\ UNCHANGED <<calls, debugger, inbox>>

\* The user ends the session: the debugger posts /stop and goes away.
EndSession(w) ==
    /\ debugger = "serve"
    /\ Stop(w)
    /\ debugger' = "stopped"
    /\ UNCHANGED <<calls, inbox>>

-----------------------------------------------------------------------------

SessionNext ==
    \/ Call \/ EndOfSimulation \/ SimAdvances \/ ServerAdvances \/ ConnectReply
    \/ \E w \in Workers :
          \/ HandlerAdvances(w)
          \/ DebuggerConnects(w) \/ Launch(w) \/ Answer(w)
          \/ PauseOn(w) \/ EndSession(w)

SessionSpec == SessionInit /\ [][SessionNext]_sessionVars

\* The simulation runs, the threads are scheduled, and a debugger that has a
\* notification to answer answers it; its user need not do anything more.
SessionFairness ==
    /\ WF_sessionVars(Call \/ EndOfSimulation)
    /\ WF_sessionVars(SimAdvances)
    /\ WF_sessionVars(ServerAdvances)
    /\ WF_sessionVars(ConnectReply)
    /\ \A w \in Workers :
          /\ WF_sessionVars(HandlerAdvances(w))
          /\ WF_sessionVars(DebuggerConnects(w) \/ Launch(w) \/ Answer(w))

SessionFairSpec == SessionSpec /\ SessionFairness

-----------------------------------------------------------------------------
(* Properties.                                                             *)

UnPausing == \E w \in Workers : worker[w] \in {"un_pause", "unlock"}

\* While the simulation runs, every answer has been used by the stop it
\* answers: nothing is left that would let a later stop pass by itself, though
\* answers may overtake the stop they are for.
NothingOwedWhileRunning ==
    debugger = "serve" /\ sim = "running" =>
        runtime_lock /\ inbox = 0 /\ ~UnPausing

\* The simulator never waits for a debugger that was not told: "only pause
\* when we know we can continue".
NoSilentStop ==
    debugger = "serve" /\ sim = "acquire" /\ runtime_lock =>
        inbox > 0 \/ UnPausing

\* "is the simulation paused": a simulator that runs is not reported as
\* "Paused" by /status/simulation.
RunningIsNotPaused == sim = "running" => ~paused

\* As long as the debugger stays, it gets the simulation to its end.
DebugSessionEnds ==
    <>(sim = "exited" \/ server = "failed" \/ debugger \in {"stopped", "gone"})

\* POST /stop ends the simulation ("stop the simulation", "unlock it if it's
\* locked").
StopEnds == debugger = "stopped" ~> sim = "exited"
=============================================================================
