------------------------------ MODULE Monitors ------------------------------
(***************************************************************************)
(* The monitors of src/control.cc: handlers, under vpi_lock, register a    *)
(* value change callback per signal and keep a CbHandle for it on the      *)
(* heap, while the simulator thread, which takes no lock, runs             *)
(* monitor_signal with the name that CbHandle holds.                       *)
(*                                                                         *)
(* A CbHandle is a block of the heap, its name's buffer included.  A freed *)
(* block may be allocated again.  Reading, or freeing, a block that is     *)
(* free is undefined: whatever the program does then, the model stops.     *)
(*                                                                         *)
(* The buffer of a name is asked for with calloc(0, ...), no bytes at all, *)
(* and filled by a strncpy that ends before the NUL.  glibc, the C library *)
(* of the build, gives its smallest block, zeroed: it holds a name of up   *)
(* to 23 characters and its NUL.  A longer one is written over what comes  *)
(* after the block: it may read right, or as more than was written, or the *)
(* heap is destroyed and the model stops.                                  *)
(***************************************************************************)
EXTENDS FiniteSets, Functions

CONSTANTS
    Workers,      \* the threads of the HTTP server's pool
    Names,        \* what clients write for a signal
    Tops,         \* the values of top_name_
    InitTop,      \* "TOP."
    Paths,        \* full names
    Full,         \* get_handle_name: Tops \X Names -> Paths
    Short,        \* the paths that fit the smallest block of the heap
    Signals,      \* the paths the simulator has a handle for
    Blocks,       \* heap blocks
    Freed,        \* what a block holds that is not allocated
    Garbled,      \* what is read of a name that does not end
    Free,         \* the state of a mutex nobody holds
    NoReport

ASSUME MonitorsAssumption ==
    /\ InitTop \in Tops
    /\ Full \in [Tops \X Names -> Paths]
    /\ Short \subseteq Paths
    /\ Signals \subseteq Paths
    /\ Freed \notin Paths \cup {Garbled}
    /\ Garbled \notin Paths
    /\ Free \notin Workers
    /\ NoReport \notin [block : Blocks, signal : Signals]

VARIABLES
    top_name_,       \* set by POST /top_name
    cb_handle_map,   \* path -> block
    heap,            \* block -> the name in it, or Freed
    callbacks,       \* what the simulator has registered
    vpi_lock,        \* the handler that holds the mutex, or Free
    worker,          \* what each handler thread is doing
    sim,             \* the callback monitor_signal was called for, or NoReport
    report,          \* the last report: the signal, and the name sent with it
    undefined,       \* a block was used after it was freed
    monitored,       \* history: the paths POST was answered "Okay" for, less
                     \* those for which a DELETE was
    removed_one,     \* history: a monitor was removed by its name
    overlapped,      \* history: a callback was removed while it ran
    overrun          \* history: a name was written that is not short

tables == <<cb_handle_map, heap, callbacks>>
history == <<monitored, removed_one, overlapped, overrun>>
simulator == <<sim, report>>

vars == <<top_name_, tables, vpi_lock, worker, simulator, undefined, history>>

\* A callback keeps the address of the block with its name.
Callbacks == [block : Blocks, signal : Signals]

Idle == [pc |-> "idle"]

Jobs ==
    {Idle} \cup [pc : {"add"}, path : Signals] \cup [pc : {"free"}, blocks : SUBSET Blocks]

TypeOK ==
    /\ top_name_ \in Tops
    /\ DOMAIN cb_handle_map \subseteq Signals
    /\ Range(cb_handle_map) \subseteq Blocks
    /\ heap \in [Blocks -> Paths \cup {Garbled, Freed}]
    /\ callbacks \subseteq Callbacks
    /\ vpi_lock \in Workers \cup {Free}
    /\ worker \in [Workers -> Jobs]
    /\ \A w \in Workers : worker[w] # Idle <=> vpi_lock = w
    /\ sim \in Callbacks \cup {NoReport}
    /\ report \in [signal : Signals, name : Paths \cup {Garbled}] \cup {NoReport}
    /\ undefined \in BOOLEAN
    /\ monitored \subseteq Signals
    /\ removed_one \in BOOLEAN
    /\ overlapped \in BOOLEAN
    /\ overrun \in BOOLEAN

Init ==
    /\ top_name_ = InitTop
    /\ cb_handle_map = <<>>
    /\ heap = [b \in Blocks |-> Freed]
    /\ callbacks = {}
    /\ vpi_lock = Free
    /\ worker = [w \in Workers |-> Idle]
    /\ sim = NoReport
    /\ report = NoReport
    /\ undefined = FALSE
    /\ monitored = {}
    /\ removed_one = FALSE
    /\ overlapped = FALSE
    /\ overrun = FALSE

-----------------------------------------------------------------------------
(* Helpers.                                                                *)

Path(n) == Full[top_name_, n]

\* Mutant: the handler takes no mutex.
BeginUnlocked(w, job) ==
    /\ worker[w] = Idle
    /\ vpi_lock' = vpi_lock
    /\ worker' = [worker EXCEPT ![w] = job]

\* A handler takes vpi_lock and goes on with job.
Begin(w, job) ==
    /\ vpi_lock = Free
    /\ worker[w] = Idle
    /\ vpi_lock' = w
    /\ worker' = [worker EXCEPT ![w] = job]

\* A handler that takes vpi_lock and gives it back in one step.
Whole(w) ==
    /\ vpi_lock = Free
    /\ worker[w] = Idle
    /\ UNCHANGED <<vpi_lock, worker>>

\* Mutant: the answer is sent without giving vpi_lock back.
EndLocked(w) ==
    /\ worker' = [worker EXCEPT ![w] = Idle]
    /\ UNCHANGED vpi_lock

End(w) ==
    /\ vpi_lock' = Free
    /\ worker' = [worker EXCEPT ![w] = Idle]

\* The callbacks that vpi_remove_cb removes, given the handles in blocks.
Held(blocks) == {c \in callbacks : c.block \in blocks}

\* Mutant: the memory is given back and the callback left.
UnregisterForgotten(blocks) ==
    /\ overlapped' = overlapped
    /\ callbacks' = callbacks

\* vpi_remove_cb, also of the callback that is running.
Unregister(blocks) ==
    /\ callbacks' = callbacks \ Held(blocks)
    /\ overlapped' = (overlapped \/ sim \in Held(blocks))

\* Use of a block that was freed.
Undefined ==
    /\ undefined' = TRUE
    /\ UNCHANGED <<top_name_, tables, vpi_lock, worker, simulator, history>>

-----------------------------------------------------------------------------
(* POST /monitor/name: setup_monitor.                                      *)

\* It has an entry: nothing to do, "Okay".  A name without a handle is
\* refused, which changes nothing.
SetupListed(w, n) ==
    /\ Path(n) \in DOMAIN cb_handle_map
    /\ Whole(w)
    /\ monitored' = monitored \cup {Path(n)}
    /\ UNCHANGED <<top_name_, tables, simulator, undefined, removed_one, overlapped, overrun>>

SetupNew(w, n) ==
    /\ Path(n) \in Signals \ DOMAIN cb_handle_map
    /\ Begin(w, [pc |-> "add", path |-> Path(n)])
    /\ UNCHANGED <<top_name_, tables, simulator, undefined, history>>

\* emplace, which does not replace an entry.
Emplaced(map, p, b) ==
    [q \in DOMAIN map \cup {p} |-> IF q \in DOMAIN map THEN map[q] ELSE b]

\* What strncpy leaves to be read where the name should be.
Stored(p) == IF p \in Short THEN {p} ELSE {p, Garbled}

\* A new CbHandle, its entry and its callback.
SetupAdd(w) ==
    /\ worker[w].pc = "add"
    /\ \E b \in Blocks, name \in Stored(worker[w].path) :
          LET p == worker[w].path IN
          /\ heap[b] = Freed
          /\ heap' = [heap EXCEPT ![b] = name]
          /\ overrun' = (overrun \/ p \notin Short)
          /\ cb_handle_map' = Emplaced(cb_handle_map, p, b)
          /\ callbacks' = callbacks \cup {[block |-> b, signal |-> p]}
          /\ monitored' = monitored \cup {p}
    /\ End(w)
    /\ UNCHANGED <<top_name_, simulator, undefined, removed_one, overlapped>>

\* The name is written over what the heap needs.
SetupOverrun(w) ==
    /\ worker[w].pc = "add"
    /\ worker[w].path \notin Short
    /\ overrun' = TRUE
    /\ undefined' = TRUE
    /\ UNCHANGED <<top_name_, tables, vpi_lock, worker, simulator,
                   monitored, removed_one, overlapped>>

-----------------------------------------------------------------------------
(* DELETE /monitor/name: remove_monitor.  The entry stays; the answer is   *)
(* "Okay" when vpi_remove_cb removed something.                            *)

RemoveFind(w, n) ==
    /\ Path(n) \in DOMAIN cb_handle_map
    /\ heap[cb_handle_map[Path(n)]] # Freed
    /\ LET b == cb_handle_map[Path(n)] IN
       /\ Begin(w, [pc |-> "free", blocks |-> {b}])
       /\ Unregister({b})
       /\ monitored' = IF Held({b}) = {} THEN monitored ELSE monitored \ {Path(n)}
    /\ removed_one' = TRUE
    /\ UNCHANGED <<top_name_, cb_handle_map, heap, simulator, undefined, overrun>>

\* The entry of a monitor that was removed before.
RemoveStale(w, n) ==
    /\ Path(n) \in DOMAIN cb_handle_map
    /\ heap[cb_handle_map[Path(n)]] = Freed
    /\ vpi_lock = Free
    /\ worker[w] = Idle
    /\ Undefined

-----------------------------------------------------------------------------
(* DELETE /monitor: remove_all_monitor.                                    *)

\* Mutant: the map is not cleared.
ClearForgotten == UNCHANGED cb_handle_map

Clear == cb_handle_map' = <<>>

RemoveAll(w) ==
    /\ \A b \in Range(cb_handle_map) : heap[b] # Freed
    /\ Begin(w, [pc |-> "free", blocks |-> Range(cb_handle_map)])
    /\ Unregister(Range(cb_handle_map))
    /\ Clear
    /\ monitored' = {}
    /\ UNCHANGED <<top_name_, heap, simulator, undefined, removed_one, overrun>>

RemoveAllStale(w) ==
    /\ \E b \in Range(cb_handle_map) : heap[b] = Freed
    /\ vpi_lock = Free
    /\ worker[w] = Idle
    /\ Undefined

\* free and delete, of either request.  A set: no block is freed twice.
RemoveFree(w) ==
    /\ worker[w].pc = "free"
    /\ heap' = [b \in Blocks |-> IF b \in worker[w].blocks THEN Freed ELSE heap[b]]
    /\ End(w)
    /\ UNCHANGED <<top_name_, cb_handle_map, callbacks, simulator, undefined, history>>

-----------------------------------------------------------------------------

\* POST /top_name takes no mutex.  Entries keep their full names.
SetTopName(t) ==
    /\ top_name_' = t
    /\ UNCHANGED <<tables, vpi_lock, worker, simulator, undefined, history>>

\* A signal changes and the simulator calls monitor_signal ...
ValueChange ==
    /\ sim = NoReport
    /\ sim' \in callbacks
    /\ UNCHANGED <<top_name_, tables, vpi_lock, worker, report, undefined, history>>

\* ... which reads the name from the block and sends it with the value.
MonitorSignal ==
    /\ sim # NoReport
    /\ heap[sim.block] # Freed
    /\ report' = [signal |-> sim.signal, name |-> heap[sim.block]]
    /\ sim' = NoReport
    /\ UNCHANGED <<top_name_, tables, vpi_lock, worker, undefined, history>>

MonitorSignalStale ==
    /\ sim # NoReport
    /\ heap[sim.block] = Freed
    /\ Undefined

-----------------------------------------------------------------------------

Handles(w) ==
    \/ \E n \in Names :
          SetupListed(w, n) \/ SetupNew(w, n) \/ RemoveFind(w, n) \/ RemoveStale(w, n)
    \/ SetupAdd(w) \/ SetupOverrun(w) \/ RemoveAll(w) \/ RemoveAllStale(w) \/ RemoveFree(w)

Next ==
    /\ ~undefined
    /\ \/ \E w \in Workers : Handles(w)
       \/ \E t \in Tops : SetTopName(t)
       \/ ValueChange \/ MonitorSignal \/ MonitorSignalStale

Spec == Init /\ [][Next]_vars

-----------------------------------------------------------------------------
(* Properties.                                                             *)

Reported == {c.signal : c \in callbacks}

\* A signal whose removal was answered "Okay" reports no more changes, and
\* none but the requested ones ever do, whatever top_name_ was meanwhile and
\* however entries that were left behind share their blocks with new ones.
OnlyWantedReports == Reported \subseteq monitored

\* "Okay" means that the signal is monitored, as long as no monitor is removed
\* by its name: after such a removal the entry that stays makes POST answer
\* "Okay" and do nothing.
WantedAreReported == ~removed_one => monitored \subseteq Reported

\* A change is reported once, also when two clients ask for the same signal
\* at once or write it in two ways.
OneReportPerChange ==
    \A c, d \in callbacks : c.signal = d.signal => c = d

\* As long as all names are short: without removals by name, and with removals
\* only while the simulator is not in the callback, no block is used after it
\* was freed.
FreedIsNotUsed == undefined => removed_one \/ overlapped \/ overrun

\* A report carries the name of the signal that changed, however blocks were
\* given back and taken again: as long as all names are short, and no monitor
\* was removed while a report was being sent, whose block may then hold
\* another's name.
ReportNamesItsSignal ==
    report # NoReport /\ ~overlapped /\ ~overrun => report.name = report.signal
=============================================================================
