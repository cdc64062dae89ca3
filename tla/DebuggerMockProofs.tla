-------------------------- MODULE DebuggerMockProofs --------------------------
(***************************************************************************)
(* Proofs about DebuggerMock for any registers, any length of the          *)
(* simulation and any number of skipped edges: the recording implements    *)
(* Lockstep, a simulation that is reported as paused stands still, and a   *)
(* finished recording is complete.                                         *)
(***************************************************************************)
EXTENDS DebuggerMock, PauseControlProofs

\* Every step of a session is a step of PauseControl or leaves it alone.
LEMMA MockStep == [MockNext]_mockVars => [Next]_vars
<1> SUFFICES ASSUME [MockNext]_mockVars PROVE [Next]_vars
    OBVIOUS
<1>1. CASE UNCHANGED mockVars
    BY <1>1 DEF mockVars
<1>2. CASE Edge \/ EndOfSimulation \/ RuntimeProceeds
    BY <1>2, Zenon DEF Edge, EndOfSimulation, RuntimeProceeds, Next, Callback
<1>3. CASE Client
    BY <1>3, ZenonT(30)
    DEF Client, TryConnect, AssertPaused, SetPauseOnClock, SkipReset, SkipsDone, Reply,
        WaitTillPause, WhilePaused, GetValue, AppendState, ContinueRecording, WaitTillFinish,
        Continues, Get, NoAnswer, Next, Request
<1>4. QED BY <1>1, <1>2, <1>3 DEF MockNext

\* The session with the Python client implements the protocol with any
\* client, so that what is proved of PauseControl holds in it.
THEOREM MockImplements == MockSpec => Spec
<1>1. MockInit => Init
    BY DEF MockInit
<1>2. QED BY <1>1, MockStep, PTL DEF MockSpec, Spec

-----------------------------------------------------------------------------
(* The invariant: what the client knows of the simulator at each of its    *)
(* steps.                                                                  *)

NoUnPause == \A w \in Workers : worker[w] \notin {"un_pause", "unlock"}

\* On the way to the initial stop.
Booting ==
    /\ sim \in {"boot", "init_lock", "set_paused", "acquire"}
    /\ sim \in {"set_paused", "acquire"} => runtime_lock
    /\ paused <=> sim = "acquire"
    /\ NoUnPause

\* Stopped, and nobody lets it go on.
Held == sim = "acquire" /\ runtime_lock /\ paused /\ NoUnPause

\* A continue lets it go on, and it runs up to the next edge.
Released ==
    \/ /\ sim = "acquire" /\ runtime_lock
       /\ \E w \in Workers :
             /\ worker[w] \in {"un_pause", "unlock"}
             /\ paused <=> worker[w] = "un_pause"
             /\ \A v \in Workers \ {w} : worker[v] \notin {"un_pause", "unlock"}
    \/ sim = "acquire" /\ ~runtime_lock /\ ~paused /\ NoUnPause
    \/ sim = "running" /\ runtime_lock /\ ~paused /\ NoUnPause

\* On the way to the stop at an edge.
Arriving ==
    /\ sim \in {"notify", "decide", "set_paused", "acquire"}
    /\ cause = "clock"
    /\ runtime_lock
    /\ paused <=> sim = "acquire"
    /\ NoUnPause

\* After the last edge.
Ending ==
    /\ edge = SimLength
    /\ sim \in {"notify", "decide", "td_paused", "td_unlock", "td_stop", "td_join", "exited"}
    /\ cause = "teardown"
    /\ ~paused
    /\ NoUnPause

\* Snapshots of all edges up to the last one and up to this one.
Behind == edge >= NumWaitReset /\ Len(states) = edge - NumWaitReset
Level == edge >= NumWaitReset /\ Len(states) = edge - NumWaitReset + 1

Connecting ==
    py \in {"connect", "is_paused", "set_pause_on_clock"} =>
        /\ Booting /\ edge = 0 /\ waited = 0 /\ states = <<>>
        /\ py = "set_pause_on_clock" => sim = "acquire"

Skipping ==
    /\ py = "skip" => Held /\ edge = waited /\ waited <= NumWaitReset /\ states = <<>>
    /\ py \in {"skip_reply", "skip_wait"} =>
          /\ waited < NumWaitReset /\ states = <<>>
          /\ (edge = waited /\ Released) \/ (edge = waited + 1 /\ Arriving)
          /\ py = "skip_wait" => NoUnPause

Recording ==
    /\ py = "check" => (Held /\ Behind) \/ (Ending /\ Level /\ server = "stopped")
    /\ py = "get_values" => Held /\ Behind
    /\ py = "continue" => Held /\ Level
    /\ py \in {"reply", "wait"} =>
          /\ ((Released \/ Ending) /\ Level) \/ (Arriving /\ Behind)
          /\ py = "wait" => NoUnPause
    /\ py \in {"wait_till_finish", "done"} => Ending /\ Level /\ server = "stopped"

\* A client that failed leaves the simulator at a stop for good.
Failing == py = "failed" => Booting \/ Held

\* The registers read so far, all at this edge.
Reading ==
    /\ regs = [r \in DOMAIN regs |-> edge] \/ py = "failed"
    /\ DOMAIN regs \subseteq Regs
    /\ py \notin {"get_values", "failed"} => DOMAIN regs = {}

\* The server answers until teardown, and the client keeps its settings.
Serving ==
    /\ ~http_client
    /\ \A w \in Workers : worker[w] \in {"idle", "un_pause", "unlock"}
    /\ sim = "boot" => server = "none"
    /\ server = "stopped" => sim \in {"td_join", "exited"}
    /\ py \notin {"connect", "failed"} => server \in {"listening", "stopped"} /\ use_client_request
    /\ py \notin {"connect", "is_paused", "set_pause_on_clock", "failed"} => pause_clock_edge

ClientTypes ==
    /\ edge \in 0..SimLength
    /\ waited \in Nat
    /\ states \in Seq([Regs -> Nat])
    /\ py \in {"connect", "is_paused", "set_pause_on_clock", "skip", "skip_reply", "skip_wait",
               "check", "get_values", "continue", "reply", "wait", "wait_till_finish", "done",
               "failed"}

MockInv ==
    ClientTypes /\ Serving /\ Reading /\ Connecting /\ Skipping /\ Recording /\ Failing

\* The simulation.
LEMMA EdgeInv == ASSUME TypeOK, MockInv, Edge \/ EndOfSimulation PROVE MockInv'
<1> USE MockAssumption
    DEF MockAssumption, MockInv, ClientTypes, Serving, Reading, Connecting, Skipping, Recording,
        Failing, Behind, Level, Ending, Arriving, Released, Held, Booting, NoUnPause, flags,
        clientVars
<1>1. CASE Edge /\ BreakpointClock
    <2>1. sim = "running" /\ py \in {"skip_reply", "skip_wait", "reply", "wait"} /\ Released
        BY <1>1 DEF Edge
    <2>2. /\ edge' = edge + 1 /\ edge' \in 0..SimLength
          /\ cause' = "clock" /\ sim' = "notify"
          /\ UNCHANGED <<runtime_lock, paused, server, worker, http_client, use_client_request,
                        pause_clock_edge, py, waited, regs, states>>
        BY <1>1 DEF Edge, BreakpointClock, Enter
    <2>3. Reading'
        BY <2>1, <2>2
    <2>4. ClientTypes' /\ Serving'
        BY <2>1, <2>2
    <2>5. Connecting' /\ Skipping' /\ Failing'
        BY <2>1, <2>2
    <2>6. Recording'
        BY <2>1, <2>2
    <2>7. QED BY <2>3, <2>4, <2>5, <2>6
<1>2. CASE Edge /\ ~pause_clock_edge
    BY <1>2 DEF Edge, BreakpointClock
<1>3. CASE EndOfSimulation
    BY <1>3 DEF EndOfSimulation, Teardown, Enter
<1>4. QED BY <1>1, <1>2, <1>3 DEF Edge

\* The runtime.
LEMMA RuntimeInv == ASSUME TypeOK, MockInv, RuntimeProceeds PROVE MockInv'
<1> USE MockAssumption
    DEF MockAssumption, MockInv, ClientTypes, Serving, Reading, Connecting, Skipping, Recording,
        Failing, Behind, Level, Ending, Arriving, Released, Held, Booting, NoUnPause, flags,
        clientVars, TypeOK, ControlTypes
<1>1. CASE RuntimeProceeds /\ SimProceeds
    <2>1. CASE SpawnServer
        BY <1>1, <2>1 DEF RuntimeProceeds, SpawnServer
    <2>2. CASE InitLock
        BY <1>1, <2>2 DEF RuntimeProceeds, InitLock
    <2>3. CASE SetPaused
        BY <1>1, <2>3 DEF RuntimeProceeds, SetPaused
    <2>4. CASE Acquire
        BY <1>1, <2>4 DEF RuntimeProceeds, Acquire
    <2>5. CASE Notify \/ PostReturns
        BY <1>1, <2>5 DEF RuntimeProceeds, Notify, PostsNotification, PostReturns, SimStep
    <2>6. CASE Decide
        BY <1>1, <2>6 DEF RuntimeProceeds, Decide, AfterNotify, SimStep
    <2>7. CASE TeardownClearPaused \/ TeardownUnlock
        BY <1>1, <2>7 DEF RuntimeProceeds, TeardownClearPaused, TeardownUnlock
    <2>8. CASE StopServer \/ Join
        BY SMTT(60), <1>1, <2>8 DEF RuntimeProceeds, StopServer, Join, SimStep
    <2>9. QED BY <1>1, <2>1, <2>2, <2>3, <2>4, <2>5, <2>6, <2>7, <2>8 DEF SimProceeds
<1>2. CASE RuntimeProceeds /\ ServerThread
    BY <1>2 DEF RuntimeProceeds, ServerThread, Listen
<1>3. ASSUME NEW w \in Workers, RuntimeProceeds, HandlerProceeds(w) PROVE MockInv'
    <2>1. CASE ClearPaused(w)
        BY <1>3, <2>1 DEF RuntimeProceeds, ClearPaused
    <2>2. CASE Unlock(w)
        BY <1>3, <2>2 DEF RuntimeProceeds, Unlock
    <2>3. QED BY <1>3, <2>1, <2>2 DEF HandlerProceeds, UnPause, ClockOff, LoadDb, DropDb
<1>4. QED BY <1>1, <1>2, <1>3 DEF RuntimeProceeds

\* Requests whose answer the client does not wait for with them.
LEMMA RequestInv ==
    ASSUME TypeOK, MockInv, TryConnect \/ SetPauseOnClock \/ SkipReset \/ ContinueRecording
    PROVE  MockInv'
<1> USE MockAssumption
    DEF MockAssumption, MockInv, ClientTypes, Serving, Reading, Connecting, Skipping, Recording,
        Failing, Behind, Level, Ending, Arriving, Released, Held, Booting, NoUnPause, flags,
        TypeOK, ControlTypes, Takes, UnPauseRequest, Goes, NoAnswer, Refused, Continues, vars
<1>1. CASE TryConnect
    BY <1>1 DEF TryConnect, ConnectClientRequest
<1>2. CASE SetPauseOnClock
    <2>1. /\ py = "set_pause_on_clock" /\ py' = "skip" /\ Held
          /\ UNCHANGED <<edge, waited, states, regs, runtime_lock, paused, server, sim,
                        http_client, use_client_request, worker>>
        BY <1>2 DEF SetPauseOnClock, Clock
    <2>2. pause_clock_edge'
        BY <1>2, Zenon DEF SetPauseOnClock, Clock
    <2>3. Held' /\ Connecting' /\ Recording' /\ Failing' /\ Skipping'
        BY <2>1
    <2>4. QED BY <2>1, <2>2, <2>3
<1>3. CASE SkipReset
    BY <1>3 DEF SkipReset, Resume
<1>4. CASE ContinueRecording
    BY SMTT(60), <1>4 DEF ContinueRecording, Resume
<1>5. QED BY <1>1, <1>2, <1>3, <1>4

\* Requests that only read, and steps of the client itself.
LEMMA ReadInv ==
    ASSUME TypeOK, MockInv,
           \/ AssertPaused \/ SkipsDone \/ Reply \/ WaitTillPause \/ WhilePaused
           \/ WaitTillFinish
    PROVE  MockInv'
<1> USE MockAssumption
    DEF MockAssumption, MockInv, ClientTypes, Serving, Reading, Connecting, Skipping, Recording,
        Failing, Behind, Level, Ending, Arriving, Released, Held, Booting, NoUnPause, flags,
        TypeOK, ControlTypes, Goes, Get, NoAnswer, Refused, Answered, vars
<1>1. CASE AssertPaused
    BY <1>1 DEF AssertPaused
<1>2. CASE SkipsDone
    BY <1>2 DEF SkipsDone
<1>3. CASE Reply
    BY <1>3 DEF Reply
<1>4. CASE WaitTillPause
    <2>1. /\ py \in {"skip_wait", "wait"}
          /\ UNCHANGED <<vars, edge, states, regs>>
          /\ py = "skip_wait" => py' = "skip" /\ waited' = waited + 1
          /\ py = "wait" => py' = "check" /\ waited' = waited
          /\ paused \/ server = "stopped"
        BY <1>4 DEF WaitTillPause
    <2>2. UNCHANGED <<runtime_lock, paused, server, sim, cause, worker, http_client,
                     use_client_request, pause_clock_edge>>
        BY <2>1
    <2>3. CASE py = "skip_wait"
        <3>1. sim = "acquire" /\ paused /\ edge = waited + 1 /\ Held
            BY <2>1, <2>3
        <3>2. Held'
            BY <2>2, <3>1
        <3>3. QED BY <2>1, <2>2, <2>3, <3>1, <3>2
    <2>4. CASE py = "wait"
        <3>1. (Held /\ Behind) \/ (Ending /\ Level /\ server = "stopped")
            BY <2>1, <2>4
        <3>2. ((Held /\ Behind) \/ (Ending /\ Level /\ server = "stopped"))'
            BY <2>1, <2>2, <3>1
        <3>3. QED BY <2>1, <2>2, <2>4, <3>2
    <2>5. QED BY <2>1, <2>3, <2>4
<1>5. CASE WhilePaused
    <2>1. /\ py = "check"
          /\ UNCHANGED <<vars, edge, waited, states, regs>>
          /\ \/ paused /\ py' = "get_values"
             \/ (~paused \/ server # "listening") /\ py' = "wait_till_finish"
        BY <1>5 DEF WhilePaused
    <2>2. UNCHANGED <<runtime_lock, paused, server, sim, cause, worker, http_client,
                     use_client_request, pause_clock_edge>>
        BY <2>1
    <2>3. CASE Held /\ Behind
        <3>1. py' = "get_values" /\ Held' /\ Behind'
            BY <2>1, <2>2, <2>3
        <3>2. QED BY <2>1, <2>2, <3>1
    <2>4. CASE Ending /\ Level /\ server = "stopped"
        <3>1. py' = "wait_till_finish" /\ Ending' /\ Level' /\ server' = "stopped"
            BY <2>1, <2>2, <2>4
        <3>2. QED BY <2>1, <2>2, <3>1
    <2>5. QED BY <2>1, <2>3, <2>4
<1>6. CASE WaitTillFinish
    BY <1>6 DEF WaitTillFinish
<1>7. QED BY <1>1, <1>2, <1>3, <1>4, <1>5, <1>6

\* One snapshot.
LEMMA SnapshotInv ==
    ASSUME TypeOK, MockInv, AppendState \/ \E r \in Regs, ok \in BOOLEAN : GetValue(r, ok)
    PROVE  MockInv'
<1> USE MockAssumption
    DEF MockAssumption, MockInv, ClientTypes, Serving, Reading, Connecting, Skipping, Recording,
        Failing, Behind, Level, Ending, Arriving, Released, Held, Booting, NoUnPause, flags,
        Goes, Get, NoAnswer, Refused, Answered, vars
<1>1. CASE AppendState
    BY <1>1 DEF AppendState
<1>2. ASSUME NEW r \in Regs, NEW ok \in BOOLEAN, GetValue(r, ok) PROVE MockInv'
    <2>1. /\ py = "get_values" /\ Held /\ Behind
          /\ UNCHANGED <<vars, edge, waited, states>>
          /\ \/ regs' = [x \in DOMAIN regs \cup {r} |-> IF x = r THEN edge ELSE regs[x]]
                /\ py' = py
             \/ regs' = regs /\ py' = "failed"
        BY <1>2 DEF GetValue
    <2>2. UNCHANGED <<runtime_lock, paused, server, sim, cause, worker, http_client,
                     use_client_request, pause_clock_edge>>
        BY <2>1
    <2>3. Reading'
        <3>1. \A x \in DOMAIN regs : regs[x] = edge
            BY <2>1
        <3>2. QED BY <2>1, <3>1
    <2>4. Held' /\ Behind'
        BY <2>1, <2>2
    <2>5. ClientTypes' /\ Serving'
        BY <2>1, <2>2
    <2>6. QED BY <2>1, <2>3, <2>4, <2>5
<1>3. QED BY <1>1, <1>2

\* The inductive invariant.
THEOREM MockInvariance == MockSpec => [](TypeOK /\ MockInv)
<1>1. MockInit => MockInv
    BY MockAssumption
    DEF MockAssumption, MockInit, Init, MockInv, ClientTypes, Serving, Reading, Connecting,
        Skipping, Recording, Failing, Booting, NoUnPause
<1>2. ASSUME TypeOK, MockInv, [MockNext]_mockVars PROVE MockInv'
    <2>1. CASE UNCHANGED mockVars
        BY <1>2, <2>1
        DEF mockVars, vars, flags, clientVars, MockInv, ClientTypes, Serving, Reading, Connecting,
            Skipping, Recording, Failing, Behind, Level, Ending, Arriving, Released, Held,
            Booting, NoUnPause
    <2>2. CASE Edge \/ EndOfSimulation \/ RuntimeProceeds
        BY <1>2, <2>2, EdgeInv, RuntimeInv
    <2>3. CASE Client
        BY <1>2, <2>3, RequestInv, ReadInv, SnapshotInv DEF Client
    <2>4. QED BY <1>2, <2>1, <2>2, <2>3 DEF MockNext
<1>3. QED BY <1>1, <1>2, MockImplements, TypeCorrect, PTL DEF MockSpec

\* What is reported as paused is a simulator that waits for the mutex.
THEOREM PausedStopped == MockSpec => []PausedMeansStopped
<1>1. MockInv => PausedMeansStopped
    BY DEF MockInv, ClientTypes, Connecting, Skipping, Recording, Failing, Ending, Arriving,
        Released, Held, Booting, PausedMeansStopped
<1>2. QED BY <1>1, MockInvariance, PTL

\* A recording that is done has every edge but the skipped ones.
THEOREM Complete == MockSpec => []AllRecorded
<1>1. MockInv => AllRecorded
    BY DEF MockInv, ClientTypes, Recording, Level, Ending, AllRecorded
<1>2. QED BY <1>1, MockInvariance, PTL

\* A snapshot is recorded at the edge it was read at, and the simulation goes
\* past no edge before that.
LEMMA LockstepStep ==
    ASSUME TypeOK, MockInv, [MockNext]_mockVars
    PROVE  [Abstract!Next]_<<edge, states>>
<1>1. CASE AppendState
    <2>1. py = "get_values" /\ regs = [r \in Regs |-> edge]
        <3>1. DOMAIN regs = Regs /\ py = "get_values"
            BY <1>1 DEF AppendState, Goes
        <3>2. regs = [r \in DOMAIN regs |-> edge]
            BY <3>1 DEF MockInv, Reading
        <3>3. QED BY <3>1, <3>2
    <2>2. edge >= NumWaitReset /\ Len(states) = edge - NumWaitReset
        BY <2>1 DEF MockInv, Recording, Behind
    <2>3. Len(states) = Abstract!PastEdges
        BY <2>2, MockAssumption DEF MockAssumption, MockInv, ClientTypes, Abstract!PastEdges
    <2>4. states' = Append(states, Abstract!Snapshot) /\ edge' = edge
        BY <1>1, <2>1 DEF AppendState, Abstract!Snapshot
    <2>5. Abstract!Record
        BY <2>2, <2>3, <2>4 DEF Abstract!Record
    <2>6. QED BY <2>5 DEF Abstract!Next
<1>2. CASE Edge
    <2>1. Abstract!Advance
        BY <1>2, MockAssumption
        DEF MockAssumption, Edge, clientVars, Abstract!Advance, Abstract!PastEdges, MockInv,
            ClientTypes, Connecting, Skipping, Recording, Failing, Behind, Level, Ending,
            Arriving, Released, Held, Booting
    <2>2. QED BY <2>1 DEF Abstract!Next
<1>3. CASE UNCHANGED mockVars \/ EndOfSimulation \/ RuntimeProceeds
    BY <1>3 DEF mockVars, clientVars, EndOfSimulation, RuntimeProceeds
<1>4. CASE Client /\ ~AppendState
    BY <1>4
    DEF Client, TryConnect, AssertPaused, SetPauseOnClock, SkipReset, SkipsDone, Reply,
        WaitTillPause, WhilePaused, GetValue, ContinueRecording, WaitTillFinish, Get, NoAnswer
<1>5. QED BY <1>1, <1>2, <1>3, <1>4 DEF MockNext

\* The recording implements Lockstep.
THEOREM MockIsInLockstep == MockSpec => LockstepSpec
<1>1. MockInit => Abstract!Init
    BY DEF MockInit, Abstract!Init
<1>2. QED
    BY <1>1, LockstepStep, MockInvariance, PTL DEF MockSpec, LockstepSpec, Abstract!Spec
=============================================================================
