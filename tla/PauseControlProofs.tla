------------------------- MODULE PauseControlProofs -------------------------
(***************************************************************************)
(* Proofs about PauseControl for any pool of threads and any bounds: the   *)
(* types, that a blocked simulator is reported as paused, and that every   *)
(* pass through pause_sim() has an un_pause_sim() of its own.              *)
(***************************************************************************)
EXTENDS PauseControl, TLAPS

\* Neither conjunct is inductive alone: Acquire, which counts a pass, is safe
\* only because the free mutex it takes is a release that has no pass yet.
GateInv == EachPassHasItsRelease /\ FreeLockIsUnusedRelease

IInv == TypeOK /\ BlockedIsVisible /\ GateInv

-----------------------------------------------------------------------------

\* The types are kept by the server's thread and by the simulator's.  The
\* flags are left to Zenon, which handles Boolean variables better than SMT.
LEMMA SimTypes ==
    ASSUME TypeOK, ServerThread \/ Callback \/ Teardown \/ SimProceeds
    PROVE  TypeOK'
<1>1. FlagTypes /\ ControlTypes
    BY DEF TypeOK
<1>2. CASE ServerThread
    BY <1>1, <1>2 DEF TypeOK, FlagTypes, ControlTypes, flags, ServerThread, Listen
<1>3. CASE Callback \/ Teardown
    <2> USE <1>1, <1>3 DEF flags, Callback, BreakpointTrace, BreakpointClock,
                PauseAtSynch, Exception, Teardown, Enter
    <2>1. FlagTypes'
        BY ZenonT(60) DEF FlagTypes
    <2>2. ControlTypes'
        BY BoundsAssumption DEF BoundsAssumption, ControlTypes, SimStates, Causes
    <2>3. QED BY <2>1, <2>2 DEF TypeOK
<1>4. CASE SimProceeds
    <2> USE <1>1, <1>4 DEF flags, SimProceeds, SpawnServer, InitLock, SetPaused,
                Acquire, Notify, PostReturns, Decide, SimStep, AfterNotify,
                TeardownClearPaused, TeardownUnlock, StopServer, Join
    <2>1. FlagTypes'
        BY ZenonT(30) DEF FlagTypes
    <2>2. ControlTypes'
        BY DEF ControlTypes, SimStates, Causes
    <2>3. QED BY <2>1, <2>2 DEF TypeOK
<1>5. QED BY <1>2, <1>3, <1>4

\* The same for the handlers.
LEMMA HandlerTypes ==
    ASSUME TypeOK, NEW w \in Workers, Request(w) \/ HandlerProceeds(w) \/ Other(w)
    PROVE  TypeOK'
<1>1. FlagTypes /\ ControlTypes
    BY DEF TypeOK
<1>2. CASE Request(w) \/ Other(w)
    <2> USE <1>1, <1>2 DEF flags, Request, Resume, Stop, Clock, ClockSynch, Connect,
                ConnectClientRequest, UnPauseRequest, Takes, Other, OtherRequest, OtherAnswer
    <2>1. FlagTypes'
        BY ZenonT(30) DEF FlagTypes
    <2>2. ControlTypes'
        BY BoundsAssumption DEF BoundsAssumption, ControlTypes, WorkerStates
    <2>3. QED BY <2>1, <2>2 DEF TypeOK
<1>3. CASE HandlerProceeds(w)
    <2> USE <1>1, <1>3 DEF flags, HandlerProceeds, UnPause, ClearPaused, Unlock, ClockOff,
                LoadDb, DropDb
    <2>1. FlagTypes'
        BY Zenon DEF FlagTypes
    <2>2. ControlTypes'
        BY DEF ControlTypes, WorkerStates
    <2>3. QED BY <2>1, <2>2 DEF TypeOK
<1>4. QED BY <1>2, <1>3

\* Every variable keeps its type, whatever the clients ask for.
THEOREM TypeCorrect == Spec => []TypeOK
<1>1. Init => TypeOK
    <2>1. Init => FlagTypes
        BY Zenon DEF Init, FlagTypes
    <2>2. Init => ControlTypes
        BY BoundsAssumption DEF BoundsAssumption, Init, ControlTypes, SimStates,
                                Causes, WorkerStates
    <2>3. QED BY <2>1, <2>2 DEF TypeOK
<1>2. TypeOK /\ [Next]_vars => TypeOK'
    <2> SUFFICES ASSUME TypeOK, [Next]_vars PROVE TypeOK'
        OBVIOUS
    <2>1. CASE UNCHANGED vars
        <3>1. FlagTypes'
            BY <2>1, Zenon DEF vars, flags, TypeOK, FlagTypes
        <3>2. ControlTypes'
            BY <2>1 DEF vars, flags, TypeOK, ControlTypes
        <3>3. QED BY <3>1, <3>2 DEF TypeOK
    <2>2. CASE Next
        BY <2>2, SimTypes, HandlerTypes DEF Next
    <2>3. QED BY <2>1, <2>2
<1>3. QED BY <1>1, <1>2, PTL DEF Spec

-----------------------------------------------------------------------------

\* The order in pause_sim() and in un_pause_sim() keeps a blocked simulator
\* visible: only ClearPaused can hide it, and it leaves its thread at unlock.
LEMMA VisibleStep ==
    ASSUME TypeOK, BlockedIsVisible, [Next]_vars
    PROVE  BlockedIsVisible'
<1> USE DEF BlockedIsVisible
<1>1. CASE UNCHANGED vars
    BY <1>1 DEF vars
<1>2. CASE ServerThread
    BY <1>2 DEF ServerThread, Listen
<1>3. CASE Callback \/ Teardown
    BY <1>3 DEF Callback, BreakpointTrace, BreakpointClock, PauseAtSynch,
                Exception, Teardown, Enter
<1>4. CASE SimProceeds
    BY <1>4 DEF SimProceeds, SpawnServer, InitLock, SetPaused, Acquire,
                Notify, PostReturns, Decide, SimStep, AfterNotify,
                TeardownClearPaused, TeardownUnlock, StopServer, Join
<1>5. ASSUME NEW w \in Workers, Request(w) \/ HandlerProceeds(w) \/ Other(w)
      PROVE  BlockedIsVisible'
    <2>1. CASE Request(w) \/ Other(w)
        BY <1>5, <2>1 DEF TypeOK, ControlTypes, Request, Resume, Stop, Clock, ClockSynch,
                    Connect, ConnectClientRequest, UnPauseRequest, Takes, Other, OtherRequest,
                    OtherAnswer
    <2>2. CASE ClearPaused(w)
        BY <1>5, <2>2 DEF TypeOK, ControlTypes, ClearPaused
    <2>3. CASE Unlock(w)
        BY <2>3 DEF Unlock
    <2>4. CASE ClockOff(w) \/ (\E ok \in BOOLEAN : LoadDb(w, ok)) \/ DropDb(w)
        BY <1>5, <2>4 DEF TypeOK, ControlTypes, ClockOff, LoadDb, DropDb
    <2>5. QED BY <1>5, <2>1, <2>2, <2>3, <2>4 DEF HandlerProceeds, UnPause
<1>6. QED BY <1>1, <1>2, <1>3, <1>4, <1>5 DEF Next

\* Only a handler's unlock frees the gate while the simulator is gated, and
\* it counts; only Acquire counts a pass, and it closes the gate.
LEMMA GateStep ==
    ASSUME TypeOK, GateInv, [Next]_vars
    PROVE  GateInv'
<1> USE DEF GateInv, EachPassHasItsRelease, FreeLockIsUnusedRelease, Gated,
            TypeOK, ControlTypes
<1>1. CASE UNCHANGED vars
    BY <1>1 DEF vars
<1>2. CASE ServerThread
    BY <1>2 DEF ServerThread, Listen
<1>3. CASE Callback \/ Teardown
    BY <1>3 DEF Callback, BreakpointTrace, BreakpointClock, PauseAtSynch,
                Exception, Teardown, Enter
<1>4. CASE SimProceeds
    BY <1>4 DEF SimProceeds, SpawnServer, InitLock, SetPaused, Acquire,
                Notify, PostReturns, Decide, SimStep, AfterNotify,
                TeardownClearPaused, TeardownUnlock, StopServer, Join
<1>5. ASSUME NEW w \in Workers, Request(w) \/ HandlerProceeds(w) \/ Other(w)
      PROVE  GateInv'
    BY <1>5 DEF Request, Resume, Stop, Clock, ClockSynch, Connect, ConnectClientRequest,
                UnPauseRequest, Takes, HandlerProceeds, UnPause, ClearPaused, Unlock,
                ClockOff, LoadDb, DropDb, Other, OtherRequest, OtherAnswer
<1>6. QED BY <1>1, <1>2, <1>3, <1>4, <1>5 DEF Next

\* The inductive invariant.
THEOREM Invariance == Spec => []IInv
<1>1. Init => BlockedIsVisible /\ GateInv
    BY DEF Init, BlockedIsVisible, GateInv, EachPassHasItsRelease,
           FreeLockIsUnusedRelease, Gated
<1>2. TypeOK /\ BlockedIsVisible /\ GateInv /\ [Next]_vars
        => BlockedIsVisible' /\ GateInv'
    BY VisibleStep, GateStep
<1>3. QED BY <1>1, <1>2, TypeCorrect, PTL DEF Spec, IInv

\* A simulator waiting in pause_sim() is reported as "Paused" unless a handler
\* is about to unlock it.
THEOREM BlockedVisible == Spec => []BlockedIsVisible
<1>1. IInv => BlockedIsVisible
    BY DEF IInv
<1>2. QED BY <1>1, Invariance, PTL

\* No pause is passed, the initial one included, without its own release.
THEOREM PassesNeedReleases == Spec => []EachPassHasItsRelease
<1>1. IInv => EachPassHasItsRelease
    BY DEF IInv, GateInv
<1>2. QED BY <1>1, Invariance, PTL

\* A free mutex, while the simulator is gated, is a release nobody used yet.
THEOREM FreeLockMeansRelease == Spec => []FreeLockIsUnusedRelease
<1>1. IInv => FreeLockIsUnusedRelease
    BY DEF IInv, GateInv
<1>2. QED BY <1>1, Invariance, PTL
=============================================================================
