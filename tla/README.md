# Verification of kratos-runtime

kratos-runtime is a shared library loaded into an RTL simulator.  The simulator
calls it at every instrumented statement and at clock edges; the library can stop
the simulator there.  An HTTP server in a thread of its own serves the debugger,
which sets breakpoints, reads values and lets the simulation go on.  This directory
holds TLA+ models of that protocol, the TLC runs that check them and TLAPS proofs.

Paths below are relative to the repository; `control.cc` is `src/control.cc`.

## 1. Inventory

| Component | State | Operations | Talks to |
|---|---|---|---|
| Pause protocol (`control.cc` 71-79, 160-181, 236-280, 658-664, 861-890, 945-1021, 1062-1101) | `runtime_lock`, `paused`, `step_over`, `pause_clock_edge`, `has_paused_on_clock`, `use_client_request`, `http_client`, pending synch callbacks | `initialize_runtime`, `breakpoint_trace`, `breakpoint_clock`, `cb_pause_at_synch`, `exception`, `teardown_runtime`; POST `/continue`, `/step_over`, `/stop`, `/clock`, `/connect` | simulator thread and the server's pool share the flags without a lock; the mutex is a binary semaphore |
| Breakpoints (`sim.cc`) | `break_points` | `add_break_point`, `remove_break_point`, `should_continue_simulation` | written by handlers under `vpi_lock`, read by the simulator without |
| Conditions (`expr.cc`, `control.cc` 334-425) | `symbol_table`, `breakpoint_symbol_mapping` | `add_breakpoint_expr`, `add_expr`, `evaluate`, `remove_expr` | same |
| Values (`control.cc` 453-500, 768-823, 875-880) | `vpi_handle_map`, `top_name_` | `get_value`, `get_simulation_time`; GET `/value`, `/values`, `/time`, POST `/top_name` | VPI, from any thread |
| Monitors (`control.cc` 502-580, 825-861) | `cb_handle_map` | `setup_monitor`, `remove_monitor`, `remove_all_monitor`, `monitor_signal` | VPI callbacks; handlers under `vpi_lock` |
| Session (`control.cc` 208-234, 307-332, 663-766, 945-1032) | `db_`, `http_client`, `src_path`, `dst_path`, `vpi_lock`, pool threads | `/connect`, `/breakpoint`, `/context`, `/files`, `/status` | handlers wait for `db_` in a loop, one with `vpi_lock` held |
| Graph (`control.cc` 183-206, 582-606, 892-943) | `current_scope`, `has_paused_on_clock` | `/hierarchy`, `/connection`, `get_graph_value` | database and values |
| Database (`db.cc`) | SQLite file | selections | handlers and simulator |
| String helpers (`util.cc`, `control.cc` 148-158, 608-651) | none | `get_tokens`, `get_handle_name`, `is_expr_symbol`, `replace`, `join`, `get_fn_ln` | everyone |
| Python client (`kratos_runtime/debugger.py`) | program counter, `values`, `states` | `connect`, `continue_`, `wait_till_pause`, `record_state`, ... | HTTP |
| Testers (`kratos_runtime/tester.py`) | list of processes | start, kill | operating system |

What is hard here: two kinds of threads with plain globals between them; a mutex
locked twice by one thread and unlocked by another; a server that accepts requests
before the simulator has made its first stop; a notification that is posted *before*
the stop it announces, so that the answer can overtake it; handlers that wait for a
database another handler loads; updates of several tables in several steps, read by a
thread that takes no lock; a teardown that joins threads which may be waiting.

What makes each component correct:

* Pause protocol: the simulator does not run past a stop unless somebody asked for it;
  a request to go on that comes while it stops makes it go on; what is reported as
  paused is paused; it never waits for somebody who was not told; teardown ends.
* Python client: one consistent snapshot per clock edge, none missing, none twice.
* Conditions: three tables agree whenever no handler is at work; an accepted condition
  is evaluated with the present values of the signals it reads; an evaluation does not
  throw into the simulator.
* Monitors: a signal reports its changes exactly while it is monitored.
* Session: a request waits for no other than the `/connect` it needs, and does not keep that one
  from running; teardown ends; no thread uses a client or a database that is gone.
* Answers (database, graph, values, helpers): what the debugger is told at a stop, and sends
  back, is understood as it was meant: file names are translated both ways, names lead to the
  signals they name, a frame is that of its instance, a graph and a walk miss nothing.

`PROJECT.json` lists the hazards line by line with the properties that cover them.

## 2. Modules

| Module | Models |
|---|---|
| `PauseControl` | the pause protocol with any client: every request at any time |
| `<Module>Proofs` | the theorems about `PauseControl`, `DebuggerMock`, `EventDebugger`, `Session`, `Conditions`, `Monitors`, `Util` and `Requests` |
| `Lockstep` | abstract: a recording with one snapshot per edge |
| `DebuggerMock` | `PauseControl` closed with the Python client; implements `Lockstep` |
| `EventDebugger` | `PauseControl` closed with a debugger that receives notifications |
| `Session`, `MCSession` | requests that wait for `vpi_lock`, the database or a thread of the pool; the client and the database that `/connect` replaces; teardown |
| `Util` | the string helpers, on sequences of characters |
| `DebugDb` | the selections over the debug database, and the answers assembled from them |
| `Requests`, `MCRequests` | the requests answered from the database and the simulator, and what is posted at stops; the second gives a design and two databases |
| `Monitors`, `MCMonitors` | value change callbacks, their blocks and the map to them |
| `Conditions`, `MCConditions` | breakpoints and conditions; the second gives three conditions for TLC |

### PauseControl

`sim` is the program counter of the simulator thread, `worker[w]` that of a thread of the
server's pool, `server` the state of `listen()`.  One action is one access to shared state.

| Code | Actions |
|---|---|
| `initialize_runtime` 1062-1084 | `SpawnServer`, `Listen`, `InitLock`, then `pause_sim` |
| `pause_sim` 71-74 | `SetPaused`, `Acquire` |
| `un_pause_sim` 76-79 | `ClearPaused`, `Unlock` (handlers); `TeardownClearPaused`, `TeardownUnlock` |
| `breakpoint_trace`, `breakpoint_clock`, `cb_pause_at_synch`, `exception` | entry (`BreakpointTrace` ...), `Notify` (is there a client to post to), `PostReturns`, `Decide` (is there anybody who could continue), then `pause_sim` |
| `teardown_runtime` | `Teardown`, `Notify`, `PostReturns`, `TeardownClearPaused`, `TeardownUnlock`, `StopServer`, `Join` |
| POST `/continue`, `/step_over`, `/stop` | `Resume`, `Stop`: the writes before `un_pause_sim`, which follows |
| POST `/clock/on`, `/clock/off` | `Clock` |
| POST `/clock/synch` | `ClockSynch` registers the callback, `ClockOff` then writes `pause_clock_edge` |
| POST `/connect` | `ConnectClientRequest`; `Connect`, then `LoadDb`, and `DropDb` when it failed (the `catch` writes `http_client` first, then `db_`) |
| every other request | `OtherRequest`, `OtherAnswer`: a thread of the pool is kept, perhaps for ever |

`std::mutex` does not define unlocking by a thread that did not lock; the model takes the
behaviour of the glibc mutex: `lock` waits until it is free, `unlock` frees it, unlocking a
free one leaves it free.  The flags are plain globals read and written concurrently, a
data race by the standard; the model takes each access as atomic and in program order,
which the calls in between (HTTP, mutex) impose on the builds the repository makes.

The requests of the other modules touch nothing here, but `join` waits for them too, and some
never answer (see `Session`).  `TeardownWaitsForOthers` therefore says only that no handler of this
module holds up teardown.  The two closed systems below send none of them.

`releases` and `passes` are history variables that count what handlers unlocked and what
stops let through.

### DebuggerMock and Lockstep

The client is one thread; a call is a request whose answer it awaits.  A refused connection
answers `None`, which `connect` retries (five times), `wait_till_pause` takes for the end,
`continue_` asserts against.  `states` is the list `record_state` returns; a register's
value is represented by the number of the edge that gave it, so that a snapshot read across
two edges would not be `Lockstep`'s.  Refinement: `recorded <- states`, `edge <- edge`,
`Skipped <- NumWaitReset`; every other step is a stutter.  A simulation is `SimLength` calls
of `breakpoint_clock`, then teardown, as the test benches of the repository.

### EventDebugger

The debugger connects during the initial stop, waits for "Paused", continues once, and then
answers each notification with one continue or step, at any time after the POST was sent,
which may be before the simulator has stopped.  Its user may change `/clock` at any time and
end the session with `/stop`.  `inbox` counts the notifications not yet answered.

### Conditions

Handlers hold `vpi_lock` for their whole run; the simulator reads the same tables without
it.  An action is one access to one table: `add_break_point`, `ClearMapping` and
`MapSymbols` (the first and second half of `add_breakpoint_expr`), `add_expr` (variables),
`Compile`, `remove_break_point`, `remove_expr`; on the other side `has_expr_breakpoint`,
`CopySymbols`, `GetValues`, `Evaluate`.  `GetValues` goes through the symbols in any order, as an
`unordered_map` does: a signal without a handle ends it with a stop (line 419), and `std::stoi`
throws at a simulation time beyond an `int` (line 421), which `TimePasses` makes the time become.
The value of a signal is an `int` in decimal (lines 453-478), at which it does not throw.  A condition is known by the signals it reads
(`Inputs`) and those `is_expr_symbol` finds (`Recognised`, at the start of the text only,
`util.cc` 45-48).  exprtk is outside the repository: an unknown name makes `compile` fail and
leave the expression as it was, adding a variable twice changes nothing, as
`tests/test_expr_eval.cc` uses it.  A rehash of a hash table under a concurrent reader is not
modelled: an access to a table is atomic.  An expression that was never compiled yields a
NaN whose conversion to `int` is undefined: either outcome.

### Session

A request goes from the queue of accepted connections through a thread of the pool to its
answer.  The pool and the queue are httplib's: jobs in order, a bounded number of threads,
and a join that drains what was accepted.  httplib is a submodule and not in the repository; an
exception that leaves a handler is taken to be answered with 500 by its thread, which goes on, as
its versions do that catch them.  `http_client` and `db_` are objects known by the
`/connect` that made them; `using[t]` is the one that thread `t` is in a call of.

| Code | Actions |
|---|---|
| GET `/breakpoint` 663-674, GET `/context` 1045-1060 | `Lock` or `Context`, `DbFound` (`while (!db_)`), `DbGone` or `UseDb`, `UsedDb`, `Unlock` |
| GET `/breakpoint` with a line of more than 64 bits (615, 625) | `Lock` to `"threw"`: answered with 500, and `vpi_lock` is never unlocked |
| the other users of `vpi_lock` | `Lock`, with or without `UseDb`, `Unlock` |
| `/files`, `/hierarchy`, `/connection` | `Read` (`if (db_)`, tested once), `UseDb`, `UsedDb` |
| `/connect` 945-1010, which takes no mutex, so that several are at work at a time | `Refuse` (974-988), or `Connect` (the client), then `LoadDb`, or `LoadFails` and `DropDb` (the `catch`) |
| `breakpoint_trace`, `exception` | `SimStop`, `SimFrame` (`if (db_)` in `get_breakpoint_value`), `SimUseDb`, `SimUsedDb`, `SimPost`, `SimPosted` |
| `breakpoint_clock` | `SimClock` (`if (http_client && db_)`), and the same calls |
| `teardown_runtime` | `StopServer`, `Join` |

A thread that calls into an object that is not there, or returns from one that was replaced
meanwhile, is undefined behaviour: `undefined` is set and the behaviour ends.
`OneConnectIsSafe` says when that cannot happen: as long as a single `/connect`, with a
database that loads, has been handled.  The other way round is possible, and no document
forbids it; `tests/` never connects twice.

`last` and `overlapped` are history variables: the last `/connect` that made a client, and whether
one did so while another was between its client and its end.  If so, the client may be of one and the
database of the other; `IdleMeansConsistent` is about the sessions where that did not happen.
`Answered` lists all that can keep an answer away: a pool full of requests that wait
(`PoolOfWaiters`), no `/connect` left that could bring a database, and a mutex that stayed locked
(`LeftLocked`); the last of these is also what `ConnectedTeardownReturns` excepts.

### Util, DebugDb and Requests

A string is a sequence of elements of `Character`, so that the helpers can be translated
position by position; `Monitors` and `Conditions` get their names from them in their MC
modules.  The two loops over a text and over tokens are recursive functions: `Scan`, whose
step `Cut` is the body of the loop in `get_tokens` (with the test for empty tokens taken in),
and `Joined`.  A database is a record of tables, each a set of rows; `IsDatabase` is the schema
of `docs/README.md` with its three primary keys.  A selection of `db.cc` is a set
comprehension with the joins and conditions of its `where`.  Only the instance set is a
sequence: `get_instance_id` takes the first row.  The order of the other rows is open: where an
`emplace` makes an answer depend on it, the operator is the set of the outcomes that some order gives
(`get_graph_value`, `SymbolMappings`), and the action takes any of them.  `env` holds what else an answer is made
from: the top name, the two folders, the map of handles, the signals.

`Requests` has one action per request: the whole handler, since how handlers interleave is in
`Session`, `Conditions` and `Monitors`.  A GET `/breakpoint` at which `std::stoul` throws is answered
with 500 here; the mutex it leaves locked is in `Session`.  `answer` is the last answer or notification, with its status and
its content as a set of records; its JSON is left out.  `Stop` and `ClockStop` are the
notifications; a stop is for any pair of instance and breakpoint that the instrumented code
calls `breakpoint_trace` with.  Numbers are those of a `uint32_t` with `Modulus` values.

| Code | Operators and actions |
|---|---|
| `get_fn_ln` 608-633, GET `/breakpoint` | `get_fn_ln` (with `stoul_throws`, `AtLine`, `Thrown`), `AtBreakpoint`, `GetBreakpoint` |
| DELETE `/breakpoint` 691-712 | `DeleteBreakpointAt`: always refused, its route has no group |
| DELETE `/breakpoint/file` | `get_breakpoint_filename`, `InFile`, `DeleteFile` (the removal itself is in `Conditions`) |
| GET `/context` | `get_context_value`, `InContext`, `GetContext` |
| `get_breakpoint_value` 84-147 | `get_breakpoint_value`, with `FrameNames` the look-ups it makes |
| `get_value` 453-478 | `MapKey`, `Mapped`, `get_value`; every action that looks up changes `vpi_handle_map` (`LooksUp`) |
| `get_graph_value` 183-206, `/hierarchy`, `/connection` | `GraphConnections`, `Shown`, `GraphInOrder` (the first value of a name stays), `get_graph_value`, `Hierarchy`, `GetConnection` |
| `/connect` 966-1010 | `Connect`: folders first, which stay when the rest is refused |
| `add_breakpoint_expr` 334-407 | `SelfSymbols`, `ContextSymbols`, `TimeSymbols`, together `SymbolHandles`; `SymbolMappings` (what is mapped when a constant is no integer, 367 and 385, ends a loop half way); `PostCondition` |

The order in which an answer lists its rows, and the time in a graph, are left out.

The properties of `Requests` name the inputs for which they hold, and the proofs of section 4
show that nothing else is needed.  These are the limits of the code that they name:

* `Translatable` (`ShownInTheUsersFolder`, `ContextShowsTheStop`, `DeletedWhereShown`): `replace`
  takes the first occurrence of a folder's name, wherever it is.  A path is translated back
  when it lies in the folder of the server, or has neither folder's name in it.
* `WellParted` (`BreakpointIsFound`): `get_tokens` drops empty tokens, so that a colon at an end
  of a file's name, or two in a row, are lost.
* A name has the top name in its middle, as "STOP.x" has "TOP." (`ValueIsOfTheNamedSignal`,
  `FrameIsOfItsInstance`): `get_handle_name` (`util.cc` 26) then takes it for a full name.
* `place.line_num < Modulus \div 2` (`ContextShowsTheStop`): `std::stoi` reads an `int` where
  the database has a `uint32_t`.
* A name that only one generator variable has (`ConditionReadsItsInstance`).
* The present top name in front of a full name makes no signal's name (`ConditionKeepsItsSignal`):
  the handle kept with a condition is a full name under the old top name, and `get_handle_name` puts
  the new one in front of it.
* The line is less than `Modulus * Modulus` (`FileLineColumn`), which stands for the values of an
  `unsigned long` as `Modulus` does for those of a `uint32_t`; beyond, `std::stoul` throws.
* A name that is an end of several connections shows the value of one of their sources
  (`GraphShowsConnections`): which one is not known, since `emplace` keeps the first.

### Monitors

`cb_handle_map` leads from a full name to a `CbHandle`, a block of the heap that is freed
and allocated again; the simulator's callback keeps the block's address as its
`user_data`.  `SetupListed`, `SetupNew`, `SetupAdd` are `setup_monitor`; `RemoveFind` and
`RemoveAll` take the callbacks back and `RemoveFree` the memory, all under `vpi_lock`;
`ValueChange` and `MonitorSignal` are the simulator's, which takes no lock.  `remove_monitor`
never erases the entry: using it again is undefined as long as the block is free
(`RemoveStale`, `RemoveAllStale`), and reaches another signal's monitor once it is
not.  Behaviours end where they become undefined.  Nothing in the repository says how
the requests are to be used, so the properties say what holds after such a removal
(`OnlyWantedReports`, `OneReportPerChange`) and what only without (`WantedAreReported`,
`FreedIsNotUsed`).  Registering a callback is taken to succeed; `tests/vpi_impl.hh` has a
stub.

The name's buffer is asked for with `calloc(0, ...)` (line 537), which is no bytes, and `strncpy`
ends before the NUL (538).  What that does is up to the C library.  The model takes glibc's:
its smallest block has room for 24 bytes and comes zeroed, so that a name of up to 23 characters
(`Short`) is kept with its NUL.  A longer one is written over what follows: it may happen to read
right, read as something else (`Garbled`), or have destroyed the heap (`SetupOverrun`), where the
behaviour ends.  `overrun` records that it happened, and `FreedIsNotUsed` and
`ReportNamesItsSignal` are stated for sessions in which it did not.

## 3. Runs

| Run | Bounds | Shows |
|---|---|---|
| `pause_protocol` | 2 handlers, 1 release counted (another may be in flight), 1 synch callback | `BlockedIsVisible`, `EachPassHasItsRelease`, `FreeLockIsUnusedRelease`, `ReleaseResumes`, `TeardownWaitsForOthers` |
| `mock_session` | 4 edges, 1 skipped, 2 registers | `LockstepSpec`, `AllRecorded`, `PausedMeansStopped`, `SessionEnds` |
| `events_session` | 3 calls, 2 handlers, 1 synch | `NothingOwedWhileRunning`, `NoSilentStop`, `DebugSessionEnds` |
| `running_reported_paused` | same | finding: `RunningIsNotPaused` fails |
| `stop_request` | same | finding: `StopEnds` fails |
| `conditions_safety` | 2 breakpoints, 3 conditions on a signal and the time, 2 handlers, symmetric in both | `SymbolsAreMapped`, `NoOrphanCondition`, `AcceptedReadsItsSymbols`, `ThrowsOnlyWhenChanged` |
| `condition_inputs` | same | finding: `AcceptedReadsItsInputs` fails |
| `monitors` | 3 signals, one with two spellings and one with a long name, 2 top names, 3 blocks, 2 handlers | `OnlyWantedReports`, `WantedAreReported`, `OneReportPerChange`, `FreedIsNotUsed`, `ReportNamesItsSignal` |
| `session` | 5 requests, two of them `/connect`, 3 threads | `OneConnectIsSafe`, `IdleMeansConsistent`, `Answered`, `ConnectedTeardownReturns` |
| `session_teardown` | same | finding: `TeardownReturns` fails |
| `requests` | 5 requests and stops, 4 instances, 2 breakpoints, 2 databases and a broken one, 2 pairs of folders, 2 top names, numbers up to 31 | `ContextShowsTheStop`, `ShownInTheUsersFolder`, `BreakpointIsFound`, `DeletedWhereShown`, `FrameIsOfItsInstance`, `ValueIsOfTheNamedSignal`, `GraphShowsConnections`, `WalkReachesAll`, `ConditionKeepsItsSignal`, `ConditionReadsItsInstance` |
| `condition_frame` | same | finding: `ConditionReadsItsFrame` fails |

Why the bounds are enough to be interesting: two handlers are what it takes for two
un-pauses, or an un-pause and a connect, to interleave; one release that is counted and another
in flight are enough for the initial stop and a spurious, early or second request (a greater
`MaxReleases` makes the liveness properties, which TLC checks on the whole graph of states, slow); three calls let a stop be
answered early, another be a synch callback registered meanwhile, and a third follow.
In the closed systems `MaxReleases` is above what the client can send, so its guard never
binds.  Two breakpoints let a handler work on one while the simulator evaluates the other;
the three conditions are one that is recognised fully, one in part and one not at all, and
the second reads the time.  In `session` three requests can be kept waiting and there are three threads,
so that they can fill the pool before a `/connect` gets one, and leave one free when only two
wait; two `/connect` are enough for one to overlap, follow or undo the other.  In `requests` the longest of the cases needs four steps: a
`/connect`, a look-up or a condition, a change of the top name or another `/connect`, and
the stop or look-up that follows; the walk needs five.  The two pairs of folders end with a slash on the one
side or the other, one file's name has a colon, one module's an index, two instances share
a breakpoint, and the second database has only the tables that the documentation requires.
`Modulus` is 32, so that one breakpoint's line has two digits; `Numerals` are texts of one and two
digits, one of them with a leading zero; the text "/s/f:31" has the line that stands for none and is
too large for an `int`, and "/s/f:1024" one at which `std::stoul` throws.  One signal ends two
connections with different sources, so that the order of the rows matters to the graph, and one constant is no
integer, so that a condition is refused half way.

Deadlock is not checked: the simulator is finished after teardown, an open client may send
nothing, a session may end by an assertion, and an exception ends the program.

Fairness is weak fairness only: of the threads of the process, which the operating system
schedules (`SimProceeds`, `ServerThread`, `HandlerProceeds`), of the answer to a
notification, which comes or times out (`PostReturns`), and in the closed systems of the
simulation, which runs by itself, and of a client that has something to do.  In `Session` one
weak fairness says that while a thread of the pool, a handler, the debugger with its
`/connect` or the joining simulator can go on, one of them does (what is in the requests, so whether a
`/connect` is refused, is open): each request is sent once
and a handler takes finitely many steps, so that none can be passed over for ever.  The
simulator's callbacks and its end have no fairness: they come or do not.  No fairness
makes an open client send a request or a mutex favour anybody: the simulator is the only
thread that locks it.

### Findings

1. `control.cc` 72: an answer that overtakes the stop leaves "Paused" behind for a running
   simulation.  The stop itself is let through once, as it should: `events_session`.
2. `control.cc` 1018: `/stop` frees the simulator once; a later breakpoint stops it for good.
3. `util.cc` 46: a signal is recognised only at the start of a condition; with an earlier
   condition's variables in the table the condition is accepted and reads a frozen value.
4. `control.cc` 1100: teardown joins a handler that waits for a database nobody will load.
5. `control.cc` 377: a context variable in a condition is looked up without its instance.

## 4. Proofs

The theorems hold for every value of the constants: any pool of threads, any set of
requests, breakpoints, conditions, signals and blocks, any length of a simulation.  What is
assumed of them is in the modules: `BoundsAssumption`, `LengthAssumption` and `MockAssumption`
(numbers), `SessionAssumption` (a finite set of requests of known kinds, and at least one thread for
them), `ConditionsAssumption` (what is recognised is read and is a known name, and so is the time),
`MonitorsAssumption` (full names are not special values, some of them are short), `CharacterAssumption` (the characters
that the code itself writes into a text), `RequestsAssumption` (clients send texts, a file that
loads is a database of the schema, `InitTop` ends with a dot as in `control.cc`, a signal has a
name).  Each proof module has a typing
lemma per group of variables, an invariant in named parts, one lemma per group of actions
that it is kept, and the theorems that follow.

`PauseControlProofs`: `TypeOK`, `BlockedIsVisible`, `EachPassHasItsRelease`,
`FreeLockIsUnusedRelease`.  The inductive invariant is `IInv`: types, `BlockedIsVisible` and
`GateInv`.  `passes <= releases` is not inductive by itself: `Acquire` counts a pass, and is
harmless only because the free mutex it takes is a release not yet matched, which is the
second conjunct.  That one holds because between the initial lock and teardown only `Unlock`
frees the mutex, and it counts.  `BlockedIsVisible` is inductive because `pause_sim` raises
the flag before it locks and `un_pause_sim` lowers it before it unlocks.

`DebuggerMockProofs`: `MockSpec => Spec`, so that the theorems above hold in a session;
`PausedMeansStopped`, `AllRecorded`; and the refinement `MockSpec => LockstepSpec`.
`PausedMeansStopped` fails with an open client, and holds here because of the order of this
one: `MockInv` says for each of its steps where the simulator can be (`Booting`, `Held`,
`Released`, `Arriving`, `Ending`) and by how much the recording is behind the edge
(`Behind`, `Level`).  `Edge` maps to `Advance` because a released simulation has its snapshot;
`AppendState` maps to `Record` because the edge stands still while registers are read; all other
steps stutter.

`EventDebuggerProofs`: `SessionSpec => Spec`, `NothingOwedWhileRunning`, `NoSilentStop`.  The
invariant is `TokenInv`: from a stop's notification to the stop's end there is exactly one of
a notification, an answer at work, or a free mutex, though they may come before the simulator
waits; while it runs there is none.  `LaunchInv` shows that the session begins without one,
and `ClientInv` that the client and the database stay, so that every stop is posted.

`SessionProofs`: `TypeOK`, `IdleMeansConsistent`, `OneConnectIsSafe`.  `ConnectInv` says that, as
long as no two `/connect` were at work at a time, the one that is made the last client, and finds what
it has done so far when it goes on: nothing in the code makes them take turns, so this is a fact
about some behaviours and not of all; `SafeInv`,
under the assumption of one `/connect` with a database that loads, that `http_client` and `db_`
only appear, so that what a thread has seen stays.

`ConditionsProofs`: `TypeOK`, `SymbolsAreMapped`, `NoOrphanCondition`, `AcceptedReadsItsSymbols`,
`ThrowsOnlyWhenChanged`.  `TypeOK` is not inductive without `Prepared`: a step of POST counts on
the entry of the step before.  `TableInv` describes the tables while a handler is at work:
`Mapped` (a condition has its mapping, which is never erased) gives the first property, `Owned`
the second, `Accepted` the third.  `SimInv` adds what the simulator may count on without a lock:
as long as its breakpoint is untouched, the symbols it copied are those of the entry, so that exprtk
knows them and only the time can throw.

`MonitorsProofs`: `TypeOK`, `OnlyWantedReports`, `WantedAreReported`, `OneReportPerChange`,
`FreedIsNotUsed`, `ReportNamesItsSignal`.  `Registered` ties the three structures: a callback's
block holds its name, unless some name was too long for its buffer, and its entry leads to the block.  Stale entries break neither this nor
the first and third property, since a removal takes back every callback of the block it
frees.  `Working` keeps a block that is about to be freed away from callbacks; `Complete` and
`Running` say what only holds without removals by name or during a report.

`UtilProofs`: `FileAndLine` and `FileLineColumn` (what a client puts together with colons is taken
apart as it was meant, or throws when the line is beyond an `unsigned long`), `JoinTokens` (joining what was split), `ReplaceFolder` (from one folder to
the other, for every way the two can end) and `HandleName`.  These are facts about loops, for texts
of every length, and need induction.  The library's induction theorems take an operator and
cannot be used, but the well-foundedness of the finite subsets of a set can: from it
`LeastElement` gets a least number, `Induction` the step from each number to the next, stated
for a set instead of an operator, and `Recursion` that a recursive function on `0..n` is what its
definition says.  `ScanDefined` and `JoinedDefined` are its two uses; `TokensSplit` (a last token
follows the tokens of what is before it) and `JoinAppend` are what everything else rests on.
`StoiOfDigits` and its lemmas say what `std::stoi` makes of digits, with no blank or sign before
them.  `JoinTokens` takes a shortest name for which it fails, and cuts it at its last colon.

`RequestsProofs`: `TypeOK` and the ten properties of the run `requests`.  None of them is inductive:
each relates the last answer to what would be answered now.  `IInv` adds what makes that
relation last:

* `HandlesMatch`: `vpi_handle_map` has, under any key, what the simulator would say, so that a
  value, a frame and a graph do not depend on the look-ups before (`ValueNow`, `FrameNow`,
  `GraphNow`).  It holds across a change of the top name because the keys are full names.
* `AnswerIsPresent`: the last frame, graph or values are those of the present database, folders,
  scope and top name; whatever changes one of these also gives another answer.
* `ConditionsAreStored`: the symbols kept for a condition are among those of the database and the top
  name it was sent under, whatever order the rows had and wherever a loop ended.

The properties follow state by state.  The three about places compose `ReplaceFolder` in both
directions with what `UtilProofs` says of "file:line"; `FrameIsOfItsInstance` needs that an id has
one name and that a signal's name gets the prefix its instance's would; `WalkReachesAll` takes an
instance with a shortest name among those not reached; `GraphShowsConnections` takes, for a name of the graph,
the connection of least rank that it ends (`GraphHasEnds`), whatever the order of the rows is;
`ConditionKeepsItsSignal` needs that a kept handle is a full name under the top name of then, or the
time (`SymbolHandle`), and `ConditionReadsItsInstance` rests on `SymbolOrigin`, which says where a
symbol can come from.
An earlier form of some of them was false outside the run's bounds: the attempt to prove it led to
the limits listed in section 2.

The parts of the inductive invariants were checked by TLC on the bounds of section 3 before
they were proved.

Only model-checked: `ReleaseResumes`, `TeardownWaitsForOthers`, `ConnectedTeardownReturns`, `Answered`,
`SessionEnds`, `DebugSessionEnds`: temporal reasoning with fairness is out of the prover's reach.
Every other property of a passing run is a theorem.

## 5. Plan

Done: all modules above.  Next, in this order:

1. Values that change between the stops of `Requests`: an answer is then of the time it was made.
2. More of `get_value`: the format of values and the number a condition makes of one, where now only the
   time can be too large.
3. A theorem that ties `Requests` to `Session`: a handler that is one step here is one there while it
   holds what it uses.

## 6. Not modelled

`PROJECT.json` gives the reason for each component.  In short: the text of answers, JSON and
SQL; exceptions of sqlite, which an answer takes for no rows; the width of values; two
threads inside one hash table or string at a time; the port of the server and the registration of the
start and end of the simulation; the Python testers that start processes.  Two disagreements
seen while modelling have no run: `has_paused_on_clock` is set at line 238 even when nothing
stops, and a client can connect before the initial stop has raised `paused`, so that the
first assertion of `tests/test_mock.py` can fail.

## 7. Running

    tlc -config PauseControl.cfg PauseControl.tla
    tlc -config MCRequests.cfg MCRequests.tla
    tlapm PauseControlProofs.tla
    tlapm DebuggerMockProofs.tla
    tlapm RequestsProofs.tla
