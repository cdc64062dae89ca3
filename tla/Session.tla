------------------------------ MODULE Session ------------------------------
(***************************************************************************)
(* The requests of src/control.cc that wait, and the two objects that      *)
(* /connect replaces while others use them.                                *)
(*                                                                         *)
(* Handlers wait for vpi_lock, which some hold for their whole run, and    *)
(* for the database, which GET /breakpoint (with vpi_lock held) and GET    *)
(* /context poll for until a /connect has loaded it.  All of them share    *)
(* the threads of the server's pool, and teardown_runtime joins that pool. *)
(* /connect takes no mutex: it may put another client and another database *)
(* in the place of those that a handler, or the simulator in a callback,   *)
(* is using, or take them away, and two of them may be at work at a time.  *)
(* Using an object that is gone is undefined: whatever the program does    *)
(* then, the model stops.                                                  *)
(*                                                                         *)
(* GET /breakpoint parses its line number with vpi_lock held and no guard: *)
(* std::stoul throws at more digits than an unsigned long has, httplib     *)
(* (external) catches that and answers 500, and the mutex stays locked.    *)
(*                                                                         *)
(* A request is followed from the queue of accepted requests to its        *)
(* answer.  What it computes, and the stops of the simulator, are left to  *)
(* the other modules.                                                      *)
(***************************************************************************)
EXTENDS Naturals, FiniteSets, Sequences

CONSTANTS
    Requests,    \* what clients may send, each once
    Kind,        \* Requests -> Kinds
    PoolSize,    \* the threads of the server's pool
    Free,        \* the state of a mutex nobody holds
    None,        \* no client, no database
    Sim          \* the simulator thread

\* "breakpoint": GET /breakpoint; "update": what else holds vpi_lock (POST and
\* DELETE /breakpoint, /monitor); "read": what reads the database without the
\* mutex (GET /context, /hierarchy, /connection and /files); "connect": with a
\* database that loads; "broken": with one that does not.
Kinds == {"breakpoint", "update", "read", "connect", "broken"}

ASSUME SessionAssumption ==
    /\ IsFiniteSet(Requests)
    /\ Kind \in [Requests -> Kinds]
    /\ PoolSize \in Nat \ {0}
    /\ Free \notin Requests
    /\ None \notin Requests
    /\ Sim \notin Requests

VARIABLES
    queue,        \* requests accepted and not yet taken by a thread
    state,        \* where each request is
    vpi_lock,     \* the request whose handler holds the mutex, or Free
    http_client,  \* the client, by the /connect that made it
    db_,          \* the database, likewise
    sim,          \* where the simulator thread is
    using,        \* the object that a thread is in a call of
    undefined,    \* a thread used an object that was gone
    last,         \* history: the /connect that made the last client
    overlapped    \* history: it did so while another /connect was at work

objects == <<http_client, db_>>

history == <<last, overlapped>>

vars == <<queue, state, vpi_lock, objects, sim, using, undefined, history>>

InHandler ==
    {"start", "wait_db", "test_db", "use_db", "in_db", "load_db", "drop_db", "unlock"}

\* Answered as it should be, by /connect before it does anything, or with 500
\* and the mutex locked.
Finished == {"done", "refused", "threw"}

Connects == {r \in Requests : Kind[r] \in {"connect", "broken"}}

TypeOK ==
    /\ queue \in Seq(Requests)
    /\ state \in [Requests -> {"new", "queued"} \cup InHandler \cup Finished]
    /\ vpi_lock \in Requests \cup {Free}
    /\ http_client \in Connects \cup {None}
    /\ db_ \in Connects \cup {None}
    /\ sim \in {"running", "frame", "use_db", "in_db", "post", "posting", "join", "exited"}
    /\ using \in [Requests \cup {Sim} -> Connects \cup {None}]
    /\ undefined \in BOOLEAN
    /\ last \in Connects \cup {None}
    /\ overlapped \in BOOLEAN
    /\ Cardinality({r \in Requests : state[r] \in InHandler}) <= PoolSize

Init ==
    /\ queue = <<>>
    /\ state = [r \in Requests |-> "new"]
    /\ vpi_lock = Free
    /\ http_client = None
    /\ db_ = None
    /\ sim = "running"
    /\ using = [t \in Requests \cup {Sim} |-> None]
    /\ undefined = FALSE
    /\ last = None
    /\ overlapped = FALSE

Goes(r, from, to) ==
    /\ state[r] = from
    /\ state' = [state EXCEPT ![r] = to]

Busy == {r \in Requests : state[r] \in InHandler}

\* Thread t calls into an object, and has returned from the call.
Enter(t, object) ==
    /\ using' = [using EXCEPT ![t] = object]
    /\ undefined' = (object = None)

Leave(t, object) ==
    /\ using' = [using EXCEPT ![t] = None]
    /\ undefined' = (object # using[t])

NoCall == UNCHANGED <<using, undefined>>

-----------------------------------------------------------------------------

\* The server accepts requests until it is stopped.
Accept(r) ==
    /\ sim \notin {"join", "exited"}
    /\ Goes(r, "new", "queued")
    /\ queue' = Append(queue, r)
    /\ UNCHANGED <<vpi_lock, objects, sim>> /\ NoCall

\* Mutant: a thread is started for every request.
TakeUnbounded ==
    /\ queue # <<>>
    /\ Goes(Head(queue), "queued", "start")
    /\ queue' = Tail(queue)
    /\ UNCHANGED <<vpi_lock, objects, sim>> /\ NoCall

\* A thread of the pool takes the oldest accepted request.
Take ==
    /\ queue # <<>>
    /\ Cardinality(Busy) < PoolSize
    /\ Goes(Head(queue), "queued", "start")
    /\ queue' = Tail(queue)
    /\ UNCHANGED <<vpi_lock, objects, sim>> /\ NoCall

\* vpi_lock.lock() of the handlers that take it.  GET /breakpoint polls for the
\* database with the mutex held, unless what it is asked for is no location or
\* the line number is too long: then it leaves with the mutex locked.
Lock(r) ==
    /\ vpi_lock = Free
    /\ vpi_lock' = r
    /\ \/ /\ Kind[r] = "breakpoint"
          /\ \E next \in {"wait_db", "unlock", "threw"} : Goes(r, "start", next)
       \/ Kind[r] = "update" /\ db_ # None /\ Goes(r, "start", "use_db")
       \/ Kind[r] = "update" /\ Goes(r, "start", "unlock")
    /\ UNCHANGED <<queue, objects, sim>> /\ NoCall

\* GET /context polls for the database with no mutex, unless what it is asked
\* for is no location.
Context(r) ==
    /\ Kind[r] = "read"
    /\ \E next \in {"wait_db", "done"} : Goes(r, "start", next)
    /\ UNCHANGED <<queue, vpi_lock, objects, sim>> /\ NoCall

\* "while (!db_)"
DbFound(r) ==
    /\ db_ # None
    /\ Goes(r, "wait_db", "test_db")
    /\ UNCHANGED <<queue, vpi_lock, objects, sim>> /\ NoCall

\* "if (db_)" after the wait: the database that was found may be gone again, or
\* go right after the test.
DbGone(r) ==
    /\ db_ = None
    /\ Goes(r, "test_db", IF vpi_lock = r THEN "unlock" ELSE "done")
    /\ UNCHANGED <<queue, vpi_lock, objects, sim>> /\ NoCall

\* Handlers that do not wait: "if (db_)", or an error is answered.
Read(r) ==
    /\ Kind[r] = "read"
    /\ Goes(r, "start", IF db_ = None THEN "done" ELSE "use_db")
    /\ UNCHANGED <<queue, vpi_lock, objects, sim>> /\ NoCall

\* "db_->", of a handler that has seen a database.
UseDb(r) ==
    /\ \E from \in {"test_db", "use_db"} : Goes(r, from, "in_db")
    /\ Enter(r, db_)
    /\ UNCHANGED <<queue, vpi_lock, objects, sim>>

UsedDb(r) ==
    /\ Goes(r, "in_db", IF vpi_lock = r THEN "unlock" ELSE "done")
    /\ Leave(r, db_)
    /\ UNCHANGED <<queue, vpi_lock, objects, sim>>

\* Mutant: a way out of the handler that does not unlock.
UnlockForgotten(r) ==
    /\ Goes(r, "unlock", "done")
    /\ UNCHANGED <<queue, vpi_lock, objects, sim>> /\ NoCall

Unlock(r) ==
    /\ Goes(r, "unlock", "done")
    /\ vpi_lock' = Free
    /\ UNCHANGED <<queue, objects, sim>> /\ NoCall

\* /connect with a field missing or of another type, or a file that is not
\* there: an error is answered and nothing done.
Refuse(r) ==
    /\ r \in Connects
    /\ Goes(r, "start", "refused")
    /\ UNCHANGED <<queue, vpi_lock, objects, sim>> /\ NoCall

AtWork == {c \in Connects : state[c] \in {"load_db", "drop_db"}}

Remembers(r) ==
    /\ last' = r
    /\ overlapped' = (overlapped \/ AtWork # {})

\* Mutant: /connect excludes the other handlers, as they do each other.
ConnectLocked(r) ==
    /\ r \in Connects
    /\ vpi_lock = Free
    /\ Goes(r, "start", "load_db")
    /\ http_client' = r
    /\ Remembers(r)
    /\ UNCHANGED <<queue, vpi_lock, db_, sim>> /\ NoCall

\* /connect takes no mutex: the client first, the database when it is loaded.
Connect(r) ==
    /\ r \in Connects
    /\ Goes(r, "start", "load_db")
    /\ http_client' = r
    /\ Remembers(r)
    /\ UNCHANGED <<queue, vpi_lock, db_, sim>> /\ NoCall

LoadDb(r) ==
    /\ Kind[r] = "connect"
    /\ Goes(r, "load_db", "done")
    /\ db_' = r
    /\ UNCHANGED <<queue, vpi_lock, http_client, sim>> /\ NoCall

\* Mutant: the client stays.
LoadFailsKeepsClient(r) ==
    /\ Kind[r] = "broken"
    /\ Goes(r, "load_db", "drop_db")
    /\ UNCHANGED <<queue, vpi_lock, objects, sim>> /\ NoCall

\* "catch (...)": the client and the database of before are gone.
LoadFails(r) ==
    /\ Kind[r] = "broken"
    /\ Goes(r, "load_db", "drop_db")
    /\ http_client' = None
    /\ UNCHANGED <<queue, vpi_lock, db_, sim>> /\ NoCall

DropDb(r) ==
    /\ Goes(r, "drop_db", "done")
    /\ db_' = None
    /\ UNCHANGED <<queue, vpi_lock, http_client, sim>> /\ NoCall

-----------------------------------------------------------------------------
(* The simulator's callbacks, as far as they use the two objects.          *)

SimGoes(from, to) ==
    /\ sim = from
    /\ sim' = to
    /\ UNCHANGED <<queue, state, vpi_lock, objects>>

\* breakpoint_trace and exception: "if (http_client)", then the frame.
SimStop == http_client # None /\ SimGoes("running", "frame") /\ NoCall

\* get_breakpoint_value: "if (db_)".
SimFrame == SimGoes("frame", IF db_ = None THEN "post" ELSE "use_db") /\ NoCall

\* Mutant: a client means that there is a database.
SimClockNoDb == http_client # None /\ SimGoes("running", "use_db") /\ NoCall

\* breakpoint_clock: "if (http_client && db_)"; get_graph_value looks no more.
SimClock ==
    /\ http_client # None
    /\ db_ # None
    /\ SimGoes("running", "use_db") /\ NoCall

SimUseDb == SimGoes("use_db", "in_db") /\ Enter(Sim, db_)

SimUsedDb == SimGoes("in_db", "post") /\ Leave(Sim, db_)

\* "http_client->Post", and its return.
SimPost == SimGoes("post", "posting") /\ Enter(Sim, http_client)

SimPosted == SimGoes("posting", "running") /\ Leave(Sim, http_client)

\* teardown_runtime: stop the server, then join its thread, which answers the
\* requests that were accepted.
StopServer == SimGoes("running", "join") /\ NoCall

Join ==
    /\ queue = <<>>
    /\ Busy = {}
    /\ SimGoes("join", "exited") /\ NoCall

-----------------------------------------------------------------------------

Handles(r) ==
    \/ Lock(r) \/ Context(r) \/ DbFound(r) \/ DbGone(r) \/ Read(r)
    \/ UseDb(r) \/ UsedDb(r) \/ Unlock(r)
    \/ LoadDb(r) \/ LoadFails(r) \/ DropDb(r)

Simulates ==
    \/ SimStop \/ SimFrame \/ SimClock \/ SimUseDb \/ SimUsedDb \/ SimPost \/ SimPosted
    \/ StopServer \/ Join

Next ==
    /\ ~undefined
    /\ \/ /\ \/ Take \/ Simulates
             \/ \E r \in Requests : Accept(r) \/ Handles(r) \/ Refuse(r)
          /\ UNCHANGED history
       \/ \E r \in Requests : Connect(r)

Spec == Init /\ [][Next]_vars

\* What goes on as long as it can: the pool, its handlers and the teardown that
\* waits for them, and the debugger that has yet to send its /connect.  Refuse
\* is left out, since Connect goes on whenever it could: which of them is taken
\* is up to what was sent.
Progress ==
    \/ /\ \/ Take \/ Join
          \/ \E r \in Requests : Handles(r)
          \/ \E c \in Connects : Accept(c)
       /\ UNCHANGED history
    \/ \E r \in Requests : Connect(r)

\* Some thread that can go on is scheduled.  Each request is sent once, so that
\* none can be passed over for ever.  The other requests, the callbacks, and the
\* end of the simulation, come or do not.
Fairness == WF_vars(~undefined /\ Progress)

FairSpec == Spec /\ Fairness

-----------------------------------------------------------------------------
(* Properties.                                                             *)

WaitsForDb(r) == state[r] = "wait_db" /\ db_ = None

WaitsForLock(r) ==
    state[r] = "start" /\ Kind[r] \in {"breakpoint", "update"} /\ vpi_lock # Free

\* A GET /breakpoint has thrown, and nobody will unlock what it locked.
LeftLocked == vpi_lock # Free /\ state[vpi_lock] = "threw"

\* Every /connect there will be has been answered, and none left a database.
NoDbComes ==
    /\ db_ = None
    /\ \A c \in Connects :
          state[c] \in Finished \/ (state[c] = "new" /\ sim \in {"join", "exited"})

PoolOfWaiters ==
    /\ Cardinality(Busy) = PoolSize
    /\ \A q \in Busy : WaitsForDb(q) \/ WaitsForLock(q)

\* A request that was accepted is answered, GET /breakpoint and /context sent
\* before the database is there included, and those behind them: their wait
\* does not keep the /connect they wait for from running.  What can keep an
\* answer away are these four: waiting requests take all the threads, so that
\* no /connect gets one; no database comes; a GET /breakpoint that waits for it
\* holds the mutex; or one that threw has left it locked.
Answered ==
    \A r \in Requests :
        state[r] = "queued" ~>
            \/ state[r] \in Finished \/ undefined
            \/ PoolOfWaiters
            \/ WaitsForDb(r) /\ NoDbComes
            \/ WaitsForLock(r) /\ WaitsForDb(vpi_lock) /\ NoDbComes
            \/ WaitsForLock(r) /\ LeftLocked

\* teardown_runtime returns once a database is loaded and not dropped again,
\* unless a handler that it joins waits for the mutex that a GET /breakpoint
\* left locked: no other wait lasts.
ConnectedTeardownReturns ==
    (sim = "join" /\ db_ # None) ~>
        \/ sim = "exited" \/ db_ = None \/ undefined
        \/ LeftLocked /\ \E r \in Requests : WaitsForLock(r)

\* A /connect that was not refused, from the moment it makes its client.
Handled == {c \in Connects : state[c] \notin {"new", "queued", "start", "refused"}}

\* With a single /connect that is not refused, and loads its database, nothing
\* is used that is not there, whatever handlers and callbacks run while it is
\* at work: the client comes before the database, and each looks for what it
\* uses.
OneConnectIsSafe ==
    undefined => \E c, d \in Handled : c # d \/ Kind[c] = "broken"

\* While no two /connect requests have been at work at a time, client and
\* database are, whenever none is at work, both those of the last one that was
\* not refused, and both gone if its database did not load.
IdleMeansConsistent ==
    ~overlapped /\ AtWork = {} =>
        LET current == IF last # None /\ Kind[last] = "connect" THEN last ELSE None
        IN  http_client = current /\ db_ = current

\* "this may take some time due to system resource allocation": joining the
\* server's thread takes some time, and ends.
TeardownReturns == sim = "join" ~> (sim = "exited" \/ undefined)
=============================================================================
