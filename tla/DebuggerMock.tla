---------------------------- MODULE DebuggerMock ----------------------------
(***************************************************************************)
(* PauseControl closed with its Python client, DebuggerMock of             *)
(* kratos_runtime/debugger.py, used the way tests/test_mock.py uses it:    *)
(* connect() in client-request mode, assert is_paused(), record_state().   *)
(*                                                                         *)
(* The client is one thread and every call of it is one HTTP request whose *)
(* answer it awaits; none of them waits for a database or takes vpi_lock.  *)
(* A request to a server that does not listen answers None.  The           *)
(* simulation is SimLength calls of breakpoint_clock followed by           *)
(* teardown_runtime, as in tests/test_state_dump/test.cc.in.               *)
(***************************************************************************)
EXTENDS PauseControl, Sequences, Functions

CONSTANTS
    Regs,          \* the registers the design has
    SimLength,     \* the clock edges of the simulation
    NumWaitReset   \* record_state's num_wait_reset

Trials == 5        \* attempts of connect()

ASSUME MockAssumption ==
    SimLength \in Nat /\ NumWaitReset \in 0..SimLength

VARIABLES
    edge,      \* clock edges the simulation has passed
    py,        \* where the client is
    trial,     \* failed attempts to connect
    waited,    \* resets waited for
    regs,      \* the values read at this stop
    states     \* the list record_state returns

clientVars == <<py, trial, waited, regs, states>>

mockVars == <<vars, edge, clientVars>>

MockInit ==
    /\ Init
    /\ edge = 0
    /\ py = "connect"
    /\ trial = 0
    /\ waited = 0
    /\ regs = <<>>
    /\ states = <<>>

-----------------------------------------------------------------------------
(* The simulation.                                                         *)

\* breakpoint_clock is called at every edge and stops it when asked to.
Edge ==
    /\ sim = "running"
    /\ edge < SimLength
    /\ edge' = edge + 1
    /\ BreakpointClock \/ (~pause_clock_edge /\ UNCHANGED vars)
    /\ UNCHANGED clientVars

EndOfSimulation ==
    /\ edge = SimLength
    /\ Teardown
    /\ UNCHANGED <<edge, clientVars>>

RuntimeProceeds ==
    /\ \/ SimProceeds
       \/ ServerThread
       \/ \E w \in Workers : HandlerProceeds(w)
    /\ UNCHANGED <<edge, clientVars>>

-----------------------------------------------------------------------------
(* The client.                                                             *)

Answered == \A w \in Workers : worker[w] = "idle"

Refused == server # "listening"

\* A GET that changes nothing in the runtime.
Get == ~Refused /\ Answered /\ UNCHANGED <<vars, edge>>

\* A GET or POST that finds nobody listening.
NoAnswer == Refused /\ UNCHANGED <<vars, edge>>

Goes(from, to) == py = from /\ py' = to

TryConnect ==
    /\ py = "connect"
    /\ \/ /\ \E w \in Workers : ConnectClientRequest(w)
          /\ py' = "is_paused"
          /\ UNCHANGED trial
       \/ /\ NoAnswer
          /\ trial' = trial + 1
          /\ py' = IF trial' = Trials THEN "failed" ELSE "connect"
    /\ UNCHANGED <<edge, waited, regs, states>>

\* "assert debugger.is_paused()"
AssertPaused ==
    /\ Get
    /\ Goes("is_paused", IF paused THEN "set_pause_on_clock" ELSE "failed")
    /\ UNCHANGED <<trial, waited, regs, states>>

SetPauseOnClock ==
    /\ \E w \in Workers : Clock(w, "on")
    /\ Goes("set_pause_on_clock", "skip")
    /\ UNCHANGED <<edge, trial, waited, regs, states>>

\* POST /continue; continue_ asserts that it is answered.
Continues(from, to) ==
    \/ (\E w \in Workers : Resume(w, FALSE)) /\ Goes(from, to)
    \/ NoAnswer /\ Goes(from, "failed")

SkipReset ==
    /\ waited < NumWaitReset
    /\ Continues("skip", "skip_reply")
    /\ UNCHANGED <<edge, trial, waited, regs, states>>

\* Mutant: one reset too few.
SkipsDoneEarly ==
    /\ waited + 1 >= NumWaitReset
    /\ Goes("skip", "check")
    /\ UNCHANGED <<vars, edge, trial, waited, regs, states>>

SkipsDone ==
    /\ waited = NumWaitReset
    /\ Goes("skip", "check")
    /\ UNCHANGED <<vars, edge, trial, waited, regs, states>>

\* The answer to a continue: the handler has returned.
Reply ==
    /\ Answered
    /\ Goes("skip_reply", "skip_wait") \/ Goes("reply", "wait")
    /\ UNCHANGED <<vars, edge, trial, waited, regs, states>>

\* Mutant: wait_till_pause does not wait.
WaitNot ==
    /\ Get \/ NoAnswer
    /\ \/ Goes("skip_wait", "skip") /\ waited' = waited + 1
       \/ Goes("wait", "check") /\ UNCHANGED waited
    /\ UNCHANGED <<trial, regs, states>>

\* wait_till_pause polls until it reads "Paused" or nobody answers.
WaitTillPause ==
    /\ (Get /\ paused) \/ NoAnswer
    /\ \/ Goes("skip_wait", "skip") /\ waited' = waited + 1
       \/ Goes("wait", "check") /\ UNCHANGED waited
    /\ UNCHANGED <<trial, regs, states>>

\* "while self.is_paused()"
WhilePaused ==
    /\ \/ Get /\ Goes("check", IF paused THEN "get_values" ELSE "wait_till_finish")
       \/ NoAnswer /\ Goes("check", "wait_till_finish")
    /\ UNCHANGED <<trial, waited, regs, states>>

\* get_all_reg_values: one GET /value per register.  None comes back for a
\* value that is no natural number, and raises.
GetValue(r, ok) ==
    /\ py = "get_values"
    /\ r \notin DOMAIN regs
    /\ \/ /\ Get /\ ok
          /\ regs' = [x \in DOMAIN regs \cup {r} |-> IF x = r THEN edge ELSE regs[x]]
          /\ UNCHANGED py
       \/ /\ (Get /\ ~ok) \/ NoAnswer
          /\ py' = "failed"
          /\ UNCHANGED regs
    /\ UNCHANGED <<trial, waited, states>>

AppendState ==
    /\ DOMAIN regs = Regs
    /\ Goes("get_values", "continue")
    /\ states' = Append(states, regs)
    /\ regs' = <<>>
    /\ UNCHANGED <<vars, edge, trial, waited>>

ContinueRecording ==
    /\ Continues("continue", "reply")
    /\ UNCHANGED <<edge, trial, waited, regs, states>>

WaitTillFinish ==
    /\ NoAnswer
    /\ Goes("wait_till_finish", "done")
    /\ UNCHANGED <<trial, waited, regs, states>>

Client ==
    \/ TryConnect \/ AssertPaused \/ SetPauseOnClock
    \/ SkipReset \/ SkipsDone \/ Reply \/ WaitTillPause
    \/ WhilePaused \/ (\E r \in Regs, ok \in BOOLEAN : GetValue(r, ok))
    \/ AppendState \/ ContinueRecording \/ WaitTillFinish

MockNext == Edge \/ EndOfSimulation \/ RuntimeProceeds \/ Client

\* The simulation runs, the runtime's threads are scheduled and the client's
\* loops go round.
MockFairness ==
    /\ WF_mockVars(Edge \/ EndOfSimulation)
    /\ WF_mockVars(SimProceeds /\ UNCHANGED <<edge, clientVars>>)
    /\ WF_mockVars(ServerThread /\ UNCHANGED <<edge, clientVars>>)
    /\ \A w \in Workers :
          WF_mockVars(HandlerProceeds(w) /\ UNCHANGED <<edge, clientVars>>)
    /\ WF_mockVars(Client)

MockSpec == MockInit /\ [][MockNext]_mockVars

MockFairSpec == MockSpec /\ MockFairness

-----------------------------------------------------------------------------
(* Properties.                                                             *)

\* The recording is in lockstep with the simulation: every snapshot holds the
\* values of one edge though it is read by several requests, no edge is
\* missing and none comes twice.
Abstract == INSTANCE Lockstep WITH Skipped <- NumWaitReset, recorded <- states

LockstepSpec == Abstract!Spec

\* A session that comes to its end has recorded every edge of the simulation
\* but the skipped ones ("assert len(states) == 4").
AllRecorded == py = "done" => Len(states) = SimLength - NumWaitReset + 1

\* The client is never left waiting: it fails by an assertion or it finishes,
\* and then the simulation has torn the runtime down and ends too.
SessionEnds == <>(py = "failed" \/ (py = "done" /\ sim = "exited"))
=============================================================================
