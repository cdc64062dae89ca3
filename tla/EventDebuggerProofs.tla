------------------------- MODULE EventDebuggerProofs -------------------------
(***************************************************************************)
(* Proofs about EventDebugger for any length of the simulation, any pool   *)
(* and any bounds: a session is a behaviour of PauseControl, and a token   *)
(* goes from each notification to its answer, the release it makes and the *)
(* stop that takes it.                                                     *)
(***************************************************************************)
EXTENDS EventDebugger, PauseControlProofs

\* Every step of a session is a step of PauseControl or leaves it alone.
LEMMA SessionStep == [SessionNext]_sessionVars => [Next]_vars
<1> SUFFICES ASSUME [SessionNext]_sessionVars PROVE [Next]_vars
    OBVIOUS
<1>1. CASE UNCHANGED sessionVars
    BY <1>1 DEF sessionVars
<1>2. CASE Call \/ EndOfSimulation \/ SimAdvances \/ ServerAdvances \/ ConnectReply
    BY <1>2, Zenon DEF Call, EndOfSimulation, SimAdvances, ServerAdvances, ConnectReply, Next
<1>3. ASSUME NEW w \in Workers,
             \/ HandlerAdvances(w)
             \/ DebuggerConnects(w) \/ Launch(w) \/ Answer(w)
             \/ PauseOn(w) \/ EndSession(w)
      PROVE  Next
    BY <1>3, Zenon
    DEF HandlerAdvances, DebuggerConnects, Launch, Answer, PauseOn, EndSession, Next, Request
<1>4. QED BY <1>1, <1>2, <1>3 DEF SessionNext

\* The session with a debugger implements the protocol with any client, so
\* that what is proved of PauseControl holds in it.
THEOREM SessionImplements == SessionSpec => Spec
<1>1. SessionInit => Init
    BY DEF SessionInit
<1>2. QED BY <1>1, SessionStep, PTL DEF SessionSpec, Spec

-----------------------------------------------------------------------------
(* The invariant.                                                          *)

Loading(w) == worker[w] \in {"load_db", "drop_db"}

\* The client stays connected, with its database, from the launch on.
ClientInv ==
    /\ debugger = "connect" =>
          ~http_client /\ \A w \in Workers : ~Loading(w)
    /\ debugger = "connecting" =>
          /\ \A w, v \in Workers : Loading(w) /\ Loading(v) => w = v
          /\ \A w \in Workers : worker[w] = "drop_db" => ~http_client
          /\ http_client /\ (\A w \in Workers : ~Loading(w)) => db_
    /\ debugger \in {"launch", "serve"} =>
          http_client /\ db_ /\ \A w \in Workers : ~Loading(w)

\* Until the launch the simulator goes to its initial stop, and nobody lets it
\* go on.
LaunchInv ==
    debugger \in {"connect", "connecting", "launch"} =>
        /\ sim \in {"boot", "init_lock", "set_paused", "acquire"}
        /\ sim \in {"set_paused", "acquire"} => runtime_lock
        /\ paused => sim = "acquire"
        /\ inbox = 0
        /\ ~UnPausing

\* The one token: a notification, its answer at work, or the free mutex.
Token ==
    \/ inbox = 1 /\ runtime_lock /\ ~UnPausing
    \/ /\ inbox = 0 /\ runtime_lock
       /\ \E w \in Workers :
             /\ worker[w] \in {"un_pause", "unlock"}
             /\ \A v \in Workers \ {w} : worker[v] \notin {"un_pause", "unlock"}
    \/ inbox = 0 /\ ~runtime_lock /\ ~UnPausing

\* A simulator on its way through a stop has a token, one that runs has none.
TokenInv ==
    debugger = "serve" =>
        /\ sim \notin {"boot", "init_lock"}
        /\ sim \in {"running", "notify"} => runtime_lock /\ inbox = 0 /\ ~UnPausing
        /\ sim \in {"set_paused", "acquire"} => Token
        /\ sim \in {"post", "decide"} /\ cause # "teardown" => Token

SessionInv == ClientInv /\ LaunchInv /\ TokenInv

\* The simulator: a notification makes a token, Acquire takes it.
LEMMA SimStepInv ==
    ASSUME TypeOK, SessionInv, Call \/ EndOfSimulation \/ SimAdvances \/ ServerAdvances
    PROVE  SessionInv'
<1> USE DEF SessionInv, ClientInv, Loading, LaunchInv, TokenInv, Token, UnPausing, Deliver, Delivers, flags
<1>1. CASE Call
    <2>1. CASE UNCHANGED vars
        BY <1>1, <2>1 DEF Call, vars
    <2>2. CASE Callback
        BY <1>1, <2>2 DEF Call, Callback, BreakpointTrace, BreakpointClock, PauseAtSynch,
                Exception, Enter
    <2>3. QED BY <1>1, <2>1, <2>2 DEF Call
<1>2. CASE EndOfSimulation
    BY <1>2 DEF EndOfSimulation, Teardown, Enter
<1>3. CASE SimAdvances
    BY <1>3 DEF SimAdvances, SimProceeds, SpawnServer, InitLock, SetPaused, Acquire,
            Notify, PostsNotification, PostReturns, Decide, SimStep, AfterNotify,
            TeardownClearPaused, TeardownUnlock, StopServer, Join
<1>4. CASE ServerAdvances
    BY <1>4 DEF ServerAdvances, ServerThread, Listen
<1>5. QED BY <1>1, <1>2, <1>3, <1>4

\* The handlers pass the token on.
LEMMA HandlerStepInv ==
    ASSUME TypeOK, SessionInv, NEW w \in Workers, HandlerAdvances(w)
    PROVE  SessionInv'
<1> USE DEF SessionInv, ClientInv, Loading, LaunchInv, TokenInv, Token, UnPausing, flags,
            TypeOK, ControlTypes, HandlerAdvances
<1>1. CASE ClearPaused(w)
    BY <1>1 DEF ClearPaused
<1>2. CASE Unlock(w)
    BY <1>2 DEF Unlock
<1>3. CASE \E ok \in BOOLEAN : LoadDb(w, ok)
    BY <1>3 DEF LoadDb
<1>4. CASE ClockOff(w)
    BY <1>4 DEF ClockOff
<1>5. CASE DropDb(w)
    BY <1>5 DEF DropDb
<1>6. QED BY <1>1, <1>2, <1>3, <1>4, <1>5 DEF HandlerProceeds, UnPause

\* So does the debugger.
LEMMA DebuggerStepInv ==
    ASSUME TypeOK, SessionInv, NEW w \in Workers,
           \/ ConnectReply \/ DebuggerConnects(w) \/ Launch(w) \/ Answer(w)
           \/ PauseOn(w) \/ EndSession(w)
    PROVE  SessionInv'
<1> USE DEF SessionInv, ClientInv, Loading, LaunchInv, TokenInv, Token, UnPausing, flags,
            TypeOK, ControlTypes, UnPauseRequest, Takes
<1>1. CASE ConnectReply
    BY <1>1 DEF ConnectReply, vars
<1>2. CASE DebuggerConnects(w)
    BY <1>2 DEF DebuggerConnects, Connect
<1>3. CASE Launch(w)
    BY <1>3 DEF Launch, Resume
<1>4. CASE Answer(w)
    BY <1>4 DEF Answer, Resume
<1>5. CASE PauseOn(w)
    <2>1. CASE \E value \in {"on", "off"} : Clock(w, value)
        BY <1>5, <2>1 DEF PauseOn, Clock
    <2>2. CASE ClockSynch(w)
        BY <1>5, <2>2 DEF PauseOn, ClockSynch
    <2>3. QED BY <1>5, <2>1, <2>2 DEF PauseOn
<1>6. CASE EndSession(w)
    BY <1>6 DEF EndSession, Stop
<1>7. QED BY <1>1, <1>2, <1>3, <1>4, <1>5, <1>6

\* The inductive invariant of a session.
THEOREM SessionInvariance == SessionSpec => [](TypeOK /\ SessionInv)
<1>1. SessionInit => SessionInv
    BY DEF SessionInit, Init, SessionInv, ClientInv, Loading, LaunchInv, TokenInv, UnPausing
<1>2. ASSUME TypeOK, SessionInv, [SessionNext]_sessionVars PROVE SessionInv'
    <2>1. CASE UNCHANGED sessionVars
        BY <1>2, <2>1 DEF sessionVars, vars, flags, SessionInv, ClientInv, Loading, LaunchInv, TokenInv,
            Token, UnPausing
    <2>2. CASE Call \/ EndOfSimulation \/ SimAdvances \/ ServerAdvances
        BY <1>2, <2>2, SimStepInv
    <2>3. CASE ConnectReply
        BY <1>2, <2>3 DEF ConnectReply, vars, flags, SessionInv, ClientInv, Loading, LaunchInv, TokenInv,
            Token, UnPausing
    <2>4. ASSUME NEW w \in Workers,
                 \/ HandlerAdvances(w)
                 \/ DebuggerConnects(w) \/ Launch(w) \/ Answer(w)
                 \/ PauseOn(w) \/ EndSession(w)
          PROVE  SessionInv'
        BY <1>2, <2>4, HandlerStepInv, DebuggerStepInv
    <2>5. QED BY <1>2, <2>1, <2>2, <2>3, <2>4 DEF SessionNext
<1>3. QED BY <1>1, <1>2, SessionImplements, TypeCorrect, PTL DEF SessionSpec

\* While the simulation runs, no answer is left that would let a later stop
\* pass by itself.
THEOREM NothingOwed == SessionSpec => []NothingOwedWhileRunning
<1>1. SessionInv => NothingOwedWhileRunning
    BY DEF SessionInv, TokenInv, NothingOwedWhileRunning
<1>2. QED BY <1>1, SessionInvariance, PTL

\* A simulator that waits has told the debugger, or is about to go on.
THEOREM NotSilent == SessionSpec => []NoSilentStop
<1>1. SessionInv => NoSilentStop
    BY DEF SessionInv, TokenInv, Token, UnPausing, NoSilentStop
<1>2. QED BY <1>1, SessionInvariance, PTL
=============================================================================
