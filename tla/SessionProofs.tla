--------------------------- MODULE SessionProofs ----------------------------
(***************************************************************************)
(* Proofs about Session for any finite set of requests and any pool: the   *)
(* types, that client and database are those of the last /connect as long  *)
(* as no two overlap, and that a single good /connect is safe.             *)
(***************************************************************************)
EXTENDS Session, TLAPS, FiniteSetTheorems

-----------------------------------------------------------------------------
(* Types.                                                                  *)

SimStates == {"running", "frame", "use_db", "in_db", "post", "posting", "join", "exited"}

Typed ==
    /\ queue \in Seq(Requests)
    /\ state \in [Requests -> {"new", "queued"} \cup InHandler \cup Finished]
    /\ vpi_lock \in Requests \cup {Free}
    /\ http_client \in Connects \cup {None}
    /\ db_ \in Connects \cup {None}
    /\ sim \in SimStates
    /\ using \in [Requests \cup {Sim} -> Connects \cup {None}]
    /\ undefined \in BOOLEAN
    /\ last \in Connects \cup {None}
    /\ overlapped \in BOOLEAN

\* What Next does besides /connect leaves its history alone.
LEMMA OtherSteps ==
    ASSUME Next
    PROVE  /\ ~undefined
           /\ \/ /\ Take \/ Simulates \/ \E r \in Requests : Accept(r) \/ Handles(r) \/ Refuse(r)
                 /\ UNCHANGED history
              \/ \E r \in Requests : Connect(r)
BY Zenon DEF Next

\* The pool is never exceeded.
Bounded == Cardinality(Busy) <= PoolSize

\* Every step keeps the types.
LEMMA TypedStep == ASSUME Typed, [Next]_vars PROVE Typed'
<1> USE SessionAssumption
    DEF SessionAssumption, Typed, Connects, InHandler, Finished, SimStates, objects, history
<1>1. CASE UNCHANGED vars
    BY <1>1 DEF vars
<1>2. ASSUME NEW r \in Requests, Accept(r) \/ Refuse(r), UNCHANGED history PROVE Typed'
    <2>1. CASE Accept(r)
        BY <1>2, <2>1 DEF Accept, Goes, NoCall
    <2>2. CASE Refuse(r)
        BY <1>2, <2>2 DEF Refuse, Goes, NoCall
    <2>3. QED BY <1>2, <2>1, <2>2
<1>3. CASE Take /\ UNCHANGED history
    BY <1>3 DEF Take, Goes, NoCall
<1>4. ASSUME NEW r \in Requests, Handles(r), UNCHANGED history PROVE Typed'
    <2>1. CASE Lock(r) \/ Context(r) \/ DbFound(r) \/ DbGone(r) \/ Read(r) \/ Unlock(r)
        <3>1. CASE Lock(r)
            BY <1>4, <3>1 DEF Lock, Goes, NoCall
        <3>2. CASE Context(r) \/ DbFound(r)
            BY <1>4, <3>2 DEF Context, DbFound, Goes, NoCall
        <3>3. CASE DbGone(r) \/ Read(r) \/ Unlock(r)
            BY <1>4, <3>3 DEF DbGone, Read, Unlock, Goes, NoCall
        <3>4. QED BY <2>1, <3>1, <3>2, <3>3
    <2>2. CASE UseDb(r) \/ UsedDb(r)
        <3>1. undefined' \in BOOLEAN
            BY <2>2, Zenon DEF UseDb, UsedDb, Enter, Leave
        <3>2. CASE UseDb(r)
            BY <1>4, <3>1, <3>2 DEF UseDb, Enter, Goes
        <3>3. CASE UsedDb(r)
            BY <1>4, <3>1, <3>3 DEF UsedDb, Leave, Goes
        <3>4. QED BY <2>2, <3>2, <3>3
    <2>3. CASE LoadDb(r) \/ LoadFails(r) \/ DropDb(r)
        BY <1>4, <2>3 DEF LoadDb, LoadFails, DropDb, Goes, NoCall
    <2>4. QED BY <1>4, <2>1, <2>2, <2>3 DEF Handles
<1>5. CASE Simulates /\ UNCHANGED history
    <2>1. CASE SimStop \/ SimFrame \/ SimClock \/ StopServer \/ Join
        BY <1>5, <2>1 DEF SimStop, SimFrame, SimClock, StopServer, Join, SimGoes, NoCall
    <2>2. undefined' \in BOOLEAN
        BY <1>5, Zenon DEF Simulates, SimStop, SimFrame, SimClock, SimUseDb, SimUsedDb, SimPost,
            SimPosted, StopServer, Join, Enter, Leave, NoCall
    <2>3. CASE SimUseDb \/ SimPost
        BY <1>5, <2>2, <2>3 DEF SimUseDb, SimPost, SimGoes, Enter
    <2>4. CASE SimUsedDb \/ SimPosted
        BY <1>5, <2>2, <2>4 DEF SimUsedDb, SimPosted, SimGoes, Leave
    <2>5. QED BY <1>5, <2>1, <2>3, <2>4 DEF Simulates
<1>6. ASSUME NEW r \in Requests, Connect(r) PROVE Typed'
    <2>1. overlapped' \in BOOLEAN
        BY <1>6, Zenon DEF Connect, Remembers
    <2>2. QED BY <1>6, <2>1 DEF Connect, Remembers, Goes, NoCall
<1>7. QED BY <1>1, <1>2, <1>3, <1>4, <1>5, <1>6, OtherSteps

\* A handler's step leaves the set of busy handlers as it was, or smaller.
LEMMA HandlersStayBusy ==
    ASSUME Typed, NEW r \in Requests, Handles(r) \/ Refuse(r) \/ Connect(r)
    PROVE  Busy' \subseteq Busy
BY DEF Typed, Busy, InHandler, Finished, Refuse, Handles, Goes, Lock, Context, DbFound, DbGone, Read, UseDb,
       UsedDb, Unlock, Connect, LoadDb, LoadFails, DropDb

\* Only Take makes a handler busy, and only while the pool has a thread left.
LEMMA BoundedStep == ASSUME Typed, Bounded, [Next]_vars PROVE Bounded'
<1>1. IsFiniteSet(Busy) /\ Cardinality(Busy) \in Nat
    BY FS_Subset, FS_CardinalityType, SessionAssumption DEF SessionAssumption, Busy
<1>2. ASSUME Busy' \subseteq Busy PROVE Bounded'
    <2>1. IsFiniteSet(Busy') /\ Cardinality(Busy') <= Cardinality(Busy)
        BY <1>1, <1>2, FS_Subset
    <2>2. Cardinality(Busy') \in Nat
        BY <2>1, FS_CardinalityType
    <2>3. QED BY <1>1, <2>1, <2>2, SessionAssumption DEF SessionAssumption, Bounded
<1>3. CASE Take
    <2> DEFINE r == Head(queue)
    <2>1. Busy' \subseteq Busy \cup {r}
        BY <1>3 DEF Take, Goes, Busy, Typed
    <2>2. IsFiniteSet(Busy \cup {r}) /\ Cardinality(Busy \cup {r}) <= Cardinality(Busy) + 1
        BY <1>1, FS_AddElement
    <2>3. /\ IsFiniteSet(Busy')
          /\ Cardinality(Busy') <= Cardinality(Busy \cup {r})
        BY <2>1, <2>2, FS_Subset
    <2>4. Cardinality(Busy') \in Nat /\ Cardinality(Busy \cup {r}) \in Nat
        BY <2>2, <2>3, FS_CardinalityType
    <2>5. Cardinality(Busy) < PoolSize
        BY <1>3 DEF Take
    <2>6. QED BY <1>1, <2>2, <2>3, <2>4, <2>5, SessionAssumption DEF SessionAssumption, Bounded
<1>4. ASSUME NEW r \in Requests, Accept(r) PROVE Busy' \subseteq Busy
    BY <1>4 DEF Accept, Goes, Busy, Typed, InHandler
<1>5. CASE UNCHANGED vars \/ Simulates
    BY <1>2, <1>5 DEF Busy, vars, Simulates, SimStop, SimFrame, SimClock, SimUseDb, SimUsedDb,
                SimPost, SimPosted, StopServer, Join, SimGoes
<1>6. QED BY <1>2, <1>3, <1>4, <1>5, HandlersStayBusy, OtherSteps

\* The types hold at first.
LEMMA TypedInitially == Init => Typed
<1> SUFFICES ASSUME Init PROVE Typed
    OBVIOUS
<1>1. undefined \in BOOLEAN /\ overlapped \in BOOLEAN
    BY Zenon DEF Init
<1>2. queue \in Seq(Requests) /\ sim \in SimStates
    BY DEF Init, SimStates
<1>3. state \in [Requests -> {"new", "queued"} \cup InHandler \cup Finished]
    BY DEF Init
<1>4. using \in [Requests \cup {Sim} -> Connects \cup {None}]
    BY DEF Init
<1>5. QED BY <1>1, <1>2, <1>3, <1>4 DEF Init, Typed

\* Every variable keeps its type, and no more handlers run than there are
\* threads in the pool.
THEOREM TypeCorrect == Spec => []TypeOK
<1>1. Init => Typed
    BY TypedInitially
<1>2. Init => Bounded
    <2> SUFFICES ASSUME Init PROVE Bounded
        OBVIOUS
    <2>1. Busy = {}
        BY DEF Init, Busy, InHandler
    <2>2. QED BY <2>1, FS_EmptySet, SessionAssumption DEF SessionAssumption, Bounded
<1>3. Typed /\ Bounded /\ [Next]_vars => Typed' /\ Bounded'
    BY TypedStep, BoundedStep
<1>4. Typed /\ Bounded => TypeOK
    BY DEF Typed, Bounded, TypeOK, SimStates, Busy
<1>5. QED BY <1>1, <1>2, <1>3, <1>4, PTL DEF Spec

-----------------------------------------------------------------------------
(* Requests that connect.                                                  *)

\* Requests that connect do nothing else.  As long as no two of them were at
\* work at a time, the one that is was the last to make a client, and what it
\* has done so far is still there when it goes on.
ConnectInv ==
    /\ \A c \in Connects :
          state[c] \in {"new", "queued", "start", "load_db", "drop_db", "done", "refused"}
    /\ \A r \in Requests :
          state[r] = "drop_db" => r \in Connects /\ Kind[r] = "broken"
    /\ ~overlapped => \A c \in Connects :
          /\ state[c] \in {"load_db", "drop_db"} => c = last
          /\ state[c] = "load_db" => http_client = c
          /\ state[c] = "drop_db" => http_client = None
    /\ IdleMeansConsistent

\* Handlers that do not connect change neither object and no such request.
LEMMA OthersConnectInv ==
    ASSUME Typed, ConnectInv, NEW r \in Requests,
           Lock(r) \/ Context(r) \/ DbFound(r) \/ DbGone(r) \/ Read(r) \/ UseDb(r)
             \/ UsedDb(r) \/ Unlock(r) \/ Refuse(r),
           UNCHANGED history
    PROVE  ConnectInv'
<1>1. CASE Refuse(r)
    BY <1>1 DEF Refuse, Goes, Typed, ConnectInv, IdleMeansConsistent, AtWork, Connects, objects,
                history
<1>2. ASSUME ~Refuse(r) PROVE ConnectInv'
    <2>1. r \notin Connects /\ UNCHANGED objects
        BY <1>2 DEF Lock, Context, DbFound, DbGone, Read, UseDb, UsedDb, Unlock, Goes, Connects,
               ConnectInv, objects
    <2>2. \A c \in Connects : state'[c] = state[c]
        BY <1>2, <2>1 DEF Lock, Context, DbFound, DbGone, Read, UseDb, UsedDb, Unlock, Goes,
                          Typed, Connects
    <2>3. \A q \in Requests : state'[q] = "drop_db" => state[q] = "drop_db"
        BY <1>2 DEF Lock, Context, DbFound, DbGone, Read, UseDb, UsedDb, Unlock, Goes, Typed
    <2>4. QED BY <2>1, <2>2, <2>3 DEF ConnectInv, IdleMeansConsistent, AtWork, objects, history
<1>3. QED BY <1>1, <1>2

\* The four steps of /connect.
LEMMA ConnectsConnectInv ==
    ASSUME Typed, ConnectInv, NEW r \in Requests,
           Connect(r) \/ ((LoadDb(r) \/ LoadFails(r) \/ DropDb(r)) /\ UNCHANGED history)
    PROVE  ConnectInv'
<1> USE DEF Typed, ConnectInv, IdleMeansConsistent, AtWork, Connects, Goes, history
<1>1. CASE Connect(r)
    BY <1>1 DEF Connect, Remembers
<1>2. CASE LoadDb(r) /\ UNCHANGED history
    BY <1>2 DEF LoadDb
<1>3. CASE LoadFails(r) /\ UNCHANGED history
    BY <1>3 DEF LoadFails
<1>4. CASE DropDb(r) /\ UNCHANGED history
    BY <1>4 DEF DropDb
<1>5. QED BY <1>1, <1>2, <1>3, <1>4

LEMMA ConnectInvStep == ASSUME Typed, ConnectInv, [Next]_vars PROVE ConnectInv'
<1> USE DEF ConnectInv, IdleMeansConsistent, AtWork, Connects, objects, history
<1>1. CASE UNCHANGED vars
    BY <1>1 DEF vars
<1>2. ASSUME NEW r \in Requests, Accept(r), UNCHANGED history PROVE ConnectInv'
    BY <1>2 DEF Accept, Goes, Typed
<1>3. CASE Take /\ UNCHANGED history
    BY <1>3 DEF Take, Goes, Typed
<1>4. CASE Simulates /\ UNCHANGED history
    BY <1>4 DEF Simulates, SimStop, SimFrame, SimClock, SimUseDb, SimUsedDb, SimPost,
                SimPosted, StopServer, Join, SimGoes
<1>5. ASSUME NEW r \in Requests, ((Handles(r) \/ Refuse(r)) /\ UNCHANGED history) \/ Connect(r)
      PROVE  ConnectInv'
    BY <1>5, OthersConnectInv, ConnectsConnectInv, Zenon DEF Handles
<1>6. QED BY <1>1, <1>2, <1>3, <1>4, <1>5, OtherSteps

\* The types and what /connect keeps, together: an inductive invariant.
THEOREM ConnectInvariance == Spec => [](Typed /\ ConnectInv)
<1>1. Init => ConnectInv
    BY DEF Init, ConnectInv, IdleMeansConsistent, AtWork, Connects
<1>2. Typed /\ ConnectInv /\ [Next]_vars => Typed' /\ ConnectInv'
    BY TypedStep, ConnectInvStep
<1>3. QED BY <1>1, <1>2, TypedInitially, PTL DEF Spec

\* As long as no two /connect requests have overlapped, client and database are,
\* between them, those of the last one that was not refused, or both gone.
THEOREM Consistent == Spec => []IdleMeansConsistent
<1>1. ConnectInv => IdleMeansConsistent
    BY DEF ConnectInv
<1>2. QED BY <1>1, ConnectInvariance, PTL

-----------------------------------------------------------------------------
(* A single good /connect.                                                 *)

\* One /connect has been handled, or is, and its database loads.
Single == \A c, d \in Handled : c = d /\ Kind[c] # "broken"

\* Then client and database come one after the other and stay, so that who has
\* seen one of them uses it as long as he likes.
SafeInv ==
    /\ http_client # None => http_client \in Handled
    /\ db_ # None => db_ \in Handled /\ state[db_] = "done"
    /\ Single =>
          /\ ~undefined
          /\ \A r \in Requests :
                /\ state[r] \in {"test_db", "use_db", "in_db"} => db_ # None
                /\ state[r] = "in_db" => using[r] = db_
          /\ sim \in {"frame", "use_db", "in_db", "post", "posting"} => http_client # None
          /\ sim \in {"use_db", "in_db"} => db_ # None
          /\ sim = "in_db" => using[Sim] = db_
          /\ sim = "posting" => using[Sim] = http_client

\* What has been handled stays so, and what is done.
LEMMA HandledGrows ==
    ASSUME Typed, [Next]_vars
    PROVE  /\ Handled \subseteq Handled'
           /\ \A c \in Requests : state[c] = "done" => state'[c] = "done"
<1> USE DEF Typed, Handled, Connects, Goes
<1>1. CASE UNCHANGED vars \/ Simulates
    BY <1>1 DEF vars, Simulates, SimStop, SimFrame, SimClock, SimUseDb, SimUsedDb, SimPost,
                SimPosted, StopServer, Join, SimGoes
<1>2. ASSUME NEW r \in Requests, Accept(r) \/ Refuse(r)
      PROVE  /\ Handled \subseteq Handled'
             /\ \A c \in Requests : state[c] = "done" => state'[c] = "done"
    BY <1>2 DEF Accept, Refuse
<1>3. CASE Take
    BY <1>3 DEF Take
<1>4. ASSUME NEW r \in Requests, Handles(r) \/ Connect(r)
      PROVE  /\ Handled \subseteq Handled'
             /\ \A c \in Requests : state[c] = "done" => state'[c] = "done"
    BY <1>4 DEF Handles, Lock, Context, DbFound, DbGone, Read, UseDb, UsedDb, Unlock, Connect,
                LoadDb, LoadFails, DropDb
<1>5. QED BY <1>1, <1>2, <1>3, <1>4, OtherSteps

\* What a request that does not connect may find.
LEMMA OthersSafe ==
    ASSUME Typed, ConnectInv, SafeInv, Single, NEW r \in Requests, ~undefined,
           Lock(r) \/ Context(r) \/ DbFound(r) \/ DbGone(r) \/ Read(r) \/ UseDb(r)
             \/ UsedDb(r) \/ Unlock(r) \/ Refuse(r)
    PROVE  /\ ~undefined'
           /\ \A q \in Requests :
                 /\ state'[q] \in {"test_db", "use_db", "in_db"} => db_ # None
                 /\ state'[q] = "in_db" => using'[q] = db_
           /\ using'[Sim] = using[Sim]
           /\ UNCHANGED <<objects, sim>>
<1> USE SessionAssumption DEF SessionAssumption, Typed, SafeInv, Goes, objects
<1>1. CASE UseDb(r)
    BY <1>1 DEF UseDb, Enter
<1>2. CASE UsedDb(r)
    BY <1>2 DEF UsedDb, Leave
<1>3. CASE Lock(r)
    BY <1>3 DEF Lock, NoCall
<1>4. CASE Context(r) \/ DbFound(r) \/ DbGone(r) \/ Read(r) \/ Unlock(r) \/ Refuse(r)
    BY <1>4 DEF Context, DbFound, DbGone, Read, Unlock, Refuse, NoCall
<1>5. QED BY <1>1, <1>2, <1>3, <1>4

\* The steps of /connect: a good one after another, or a broken one, is not
\* single any more; the first one finds that nobody has seen a database.
LEMMA ConnectsSafe ==
    ASSUME Typed, ConnectInv, SafeInv, [Next]_vars, NEW r \in Requests, ~undefined,
           Connect(r) \/ LoadDb(r) \/ LoadFails(r) \/ DropDb(r)
    PROVE  SafeInv'
<1> USE DEF Goes
<1>1. r \in Connects /\ r \in Handled'
    BY DEF Typed, ConnectInv, Connects, Handled, Connect, LoadDb, LoadFails, DropDb
<1>2. Single' => Single
    BY HandledGrows DEF Single
<1>3. CASE Connect(r)
    <2>1. r \notin Handled /\ state'[r] = "load_db" /\ http_client' = r
        BY <1>3 DEF Connect, Handled, Typed
    <2>2. Single' => http_client = None /\ db_ = None
        BY <1>1, <2>1, HandledGrows DEF Single, SafeInv
    <2>3. \A q \in Requests : state'[q] \in {"test_db", "use_db", "in_db"} => state'[q] = state[q]
        BY <1>3 DEF Connect, Typed
    <2>4. db_' = db_ /\ sim' = sim /\ undefined' = undefined
        BY <1>3 DEF Connect, NoCall
    <2>5. http_client' # None => http_client' \in Handled'
        BY <1>1, <2>1
    <2>6. db_' # None => db_' \in Handled' /\ state'[db_'] = "done"
        BY <2>4, HandledGrows DEF SafeInv, Typed, Connects
    <2>7. QED BY <1>2, <2>2, <2>3, <2>4, <2>5, <2>6 DEF SafeInv
<1>4. CASE LoadDb(r)
    <2>1. r \in Handled /\ state[r] = "load_db" /\ state'[r] = "done" /\ db_' = r
        BY <1>1, <1>4 DEF LoadDb, Handled, Typed
    <2>2. Single' => db_ = None
        BY <2>1, <1>2 DEF Single, SafeInv
    <2>3. \A q \in Requests : state'[q] \in {"test_db", "use_db", "in_db"} => state'[q] = state[q]
        BY <1>4 DEF LoadDb, Typed
    <2>4. http_client' = http_client /\ sim' = sim /\ undefined' = undefined /\ using' = using
        BY <1>4 DEF LoadDb, NoCall
    <2>5. http_client' # None => http_client' \in Handled'
        BY <2>4, HandledGrows DEF SafeInv
    <2>6. db_' # None => db_' \in Handled' /\ state'[db_'] = "done"
        BY <1>1, <2>1
    <2>7. QED BY <1>2, <2>2, <2>3, <2>4, <2>5, <2>6 DEF SafeInv
<1>5. CASE LoadFails(r) \/ DropDb(r)
    <2>1. Kind[r] = "broken"
        BY <1>1, <1>5 DEF LoadFails, DropDb, ConnectInv
    <2>2. ~Single'
        BY <1>1, <2>1 DEF Single
    <2>3. http_client' # None => http_client' \in Handled'
        BY <1>5, HandledGrows DEF LoadFails, DropDb, SafeInv
    <2>4. db_' # None => db_' \in Handled' /\ state'[db_'] = "done"
        BY <1>5, HandledGrows DEF LoadFails, DropDb, SafeInv, Typed, Connects
    <2>5. QED BY <2>2, <2>3, <2>4 DEF SafeInv
<1>6. QED BY <1>3, <1>4, <1>5

\* The simulator: each callback looks before it uses.
LEMMA SimulatesSafe ==
    ASSUME Typed, SafeInv, Single, ~undefined, Simulates
    PROVE  /\ ~undefined'
           /\ sim' \in {"frame", "use_db", "in_db", "post", "posting"} => http_client # None
           /\ sim' \in {"use_db", "in_db"} => db_ # None
           /\ sim' = "in_db" => using'[Sim] = db_
           /\ sim' = "posting" => using'[Sim] = http_client
           /\ UNCHANGED <<objects, state>>
           /\ \A q \in Requests : using'[q] = using[q]
<1> USE SessionAssumption
    DEF SessionAssumption, Typed, SafeInv, SimGoes, SimStates, Enter, Leave, NoCall, objects
<1>1. CASE SimStop \/ SimFrame \/ SimClock \/ StopServer \/ Join
    BY <1>1 DEF SimStop, SimFrame, SimClock, StopServer, Join
<1>2. CASE SimUseDb \/ SimUsedDb
    BY <1>2 DEF SimUseDb, SimUsedDb
<1>3. CASE SimPost \/ SimPosted
    BY <1>3 DEF SimPost, SimPosted
<1>4. QED BY <1>1, <1>2, <1>3 DEF Simulates

LEMMA SafeInvStep ==
    ASSUME Typed, ConnectInv, SafeInv, [Next]_vars
    PROVE  SafeInv'
<1>1. Single' => Single
    BY HandledGrows DEF Single
<1>2. ASSUME UNCHANGED objects
      PROVE  /\ http_client' # None => http_client' \in Handled'
             /\ db_' # None => db_' \in Handled' /\ state'[db_'] = "done"
    BY <1>2, HandledGrows DEF SafeInv, objects, Typed, Connects
<1>3. CASE UNCHANGED vars
    BY <1>1, <1>2, <1>3 DEF vars, objects, SafeInv
<1>4. ASSUME NEW r \in Requests, Accept(r) PROVE SafeInv'
    BY <1>1, <1>2, <1>4 DEF Accept, Goes, NoCall, SafeInv, Typed, objects
<1>5. CASE Take
    BY <1>1, <1>2, <1>5 DEF Take, Goes, NoCall, SafeInv, Typed, objects
<1>6. CASE Simulates /\ ~undefined
    <2>1. UNCHANGED objects
        BY <1>6 DEF Simulates, SimStop, SimFrame, SimClock, SimUseDb, SimUsedDb, SimPost,
                    SimPosted, StopServer, Join, SimGoes
    <2>2. QED BY <1>1, <1>2, <1>6, <2>1, SimulatesSafe DEF SafeInv, objects
<1>7. ASSUME NEW r \in Requests, Handles(r) \/ Refuse(r) \/ Connect(r), ~undefined
      PROVE  SafeInv'
    <2>1. CASE Connect(r) \/ LoadDb(r) \/ LoadFails(r) \/ DropDb(r)
        BY <1>7, <2>1, ConnectsSafe
    <2>2. CASE Lock(r) \/ Context(r) \/ DbFound(r) \/ DbGone(r) \/ Read(r) \/ UseDb(r)
                 \/ UsedDb(r) \/ Unlock(r) \/ Refuse(r)
        <3>1. UNCHANGED <<objects, sim>>
            BY <2>2 DEF Lock, Context, DbFound, DbGone, Read, UseDb, UsedDb, Unlock, Refuse
        <3>2. QED BY <1>1, <1>2, <1>7, <2>2, <3>1, OthersSafe DEF SafeInv, objects
    <2>3. QED BY <1>7, <2>1, <2>2 DEF Handles
<1>8. QED BY <1>3, <1>4, <1>5, <1>6, <1>7, OtherSteps

\* As long as only one /connect is handled, and its database loads, no thread
\* uses a client or a database that is gone.
THEOREM OneConnectSafe == Spec => []OneConnectIsSafe
<1>1. Init => SafeInv
    BY SessionAssumption DEF SessionAssumption, Init, SafeInv, Single
<1>2. Typed /\ ConnectInv /\ SafeInv /\ [Next]_vars => SafeInv'
    BY SafeInvStep
<1>3. SafeInv => OneConnectIsSafe
    BY DEF SafeInv, Single, OneConnectIsSafe
<1>4. QED BY <1>1, <1>2, <1>3, ConnectInvariance, PTL DEF Spec
=============================================================================
