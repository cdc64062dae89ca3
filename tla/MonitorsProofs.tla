--------------------------- MODULE MonitorsProofs ---------------------------
(***************************************************************************)
(* Proofs about Monitors for any signals, spellings, heap and pool of      *)
(* handlers.                                                               *)
(***************************************************************************)
EXTENDS Monitors, TLAPS

\* vpi_lock is held by the one handler that is at work.
LockTypes ==
    /\ vpi_lock \in Workers \cup {Free}
    /\ worker \in [Workers -> Jobs]
    /\ \A w \in Workers : worker[w] # Idle <=> vpi_lock = w

TableTypes ==
    /\ top_name_ \in Tops
    /\ DOMAIN cb_handle_map \subseteq Signals
    /\ \A p \in DOMAIN cb_handle_map : cb_handle_map[p] \in Blocks
    /\ heap \in [Blocks -> Paths \cup {Garbled, Freed}]
    /\ callbacks \subseteq Callbacks
    /\ sim \in Callbacks \cup {NoReport}
    /\ report \in [signal : Signals, name : Paths \cup {Garbled}] \cup {NoReport}
    /\ monitored \subseteq Signals

FlagTypes ==
    /\ undefined \in BOOLEAN
    /\ removed_one \in BOOLEAN
    /\ overlapped \in BOOLEAN
    /\ overrun \in BOOLEAN

Typed == LockTypes /\ TableTypes /\ FlagTypes

\* The jobs by their program counter.
LEMMA JobFields ==
    ASSUME NEW j \in Jobs
    PROVE  /\ j.pc \in {"idle", "add", "free"}
           /\ j.pc = "idle" <=> j = Idle
           /\ j.pc = "add" => j.path \in Signals
           /\ j.pc = "free" => j.blocks \subseteq Blocks
BY DEF Jobs, Idle

LEMMA LockStep == ASSUME Typed, [Next]_vars PROVE LockTypes'
<1> USE MonitorsAssumption DEF MonitorsAssumption, LockTypes, Typed, Jobs, Idle
<1>1. CASE UNCHANGED vars
    BY <1>1 DEF vars
<1>2. ASSUME NEW w \in Workers, Handles(w) PROVE LockTypes'
    <2>1. ASSUME NEW n \in Names, SetupListed(w, n) \/ RemoveStale(w, n) PROVE LockTypes'
        BY <2>1 DEF SetupListed, RemoveStale, Whole, Undefined
    <2>2. ASSUME NEW n \in Names, SetupNew(w, n) PROVE LockTypes'
        BY <2>2 DEF SetupNew, Begin
    <2>3. ASSUME NEW n \in Names, RemoveFind(w, n) PROVE LockTypes'
        BY <2>3 DEF RemoveFind, Begin, TableTypes
    <2>4. CASE SetupAdd(w)
        BY <2>4 DEF SetupAdd, End
    <2>5. CASE RemoveAll(w)
        BY <2>5 DEF RemoveAll, Begin, TableTypes, Range
    <2>6. CASE RemoveAllStale(w) \/ SetupOverrun(w)
        BY <2>6 DEF RemoveAllStale, SetupOverrun, Undefined
    <2>7. CASE RemoveFree(w)
        BY <2>7 DEF RemoveFree, End
    <2>8. QED BY <1>2, <2>1, <2>2, <2>3, <2>4, <2>5, <2>6, <2>7 DEF Handles
<1>3. CASE ValueChange \/ MonitorSignal \/ MonitorSignalStale \/ \E t \in Tops : SetTopName(t)
    BY <1>3 DEF ValueChange, MonitorSignal, MonitorSignalStale, SetTopName, Undefined
<1>4. QED BY <1>1, <1>2, <1>3 DEF Next

LEMMA FlagStep == ASSUME Typed, [Next]_vars PROVE FlagTypes'
<1> USE DEF FlagTypes, Typed
<1>1. CASE UNCHANGED vars
    BY <1>1, Zenon DEF vars, history
<1>2. ASSUME NEW w \in Workers, Handles(w) PROVE FlagTypes'
    BY <1>2, ZenonT(30) DEF Handles, SetupListed, SetupNew, RemoveFind, RemoveStale, SetupAdd,
        SetupOverrun, RemoveAll, RemoveAllStale, RemoveFree, Unregister, Undefined, history
<1>3. CASE ValueChange \/ MonitorSignal \/ MonitorSignalStale \/ \E t \in Tops : SetTopName(t)
    BY <1>3, Zenon DEF ValueChange, MonitorSignal, MonitorSignalStale, SetTopName, Undefined, history
<1>4. QED BY <1>1, <1>2, <1>3 DEF Next

\* A path that has an entry or gets one is a signal.
LEMMA TableStep == ASSUME Typed, [Next]_vars PROVE TableTypes'
<1> USE MonitorsAssumption DEF MonitorsAssumption, TableTypes, Typed, Callbacks,
        tables, simulator, history
<1>1. CASE UNCHANGED vars
    BY <1>1 DEF vars
<1>2. ASSUME NEW w \in Workers, Handles(w) PROVE TableTypes'
    <2>1. ASSUME NEW n \in Names, SetupListed(w, n) \/ RemoveStale(w, n) PROVE TableTypes'
        BY <2>1 DEF SetupListed, RemoveStale, Undefined
    <2>2. ASSUME NEW n \in Names, SetupNew(w, n) PROVE TableTypes'
        BY <2>2 DEF SetupNew
    <2>3. ASSUME NEW n \in Names, RemoveFind(w, n) PROVE TableTypes'
        BY <2>3 DEF RemoveFind, Unregister, Held
    <2>4. CASE SetupAdd(w)
        <3>1. worker[w].path \in Signals
            BY <2>4, JobFields DEF SetupAdd, LockTypes
        <3>2. PICK b \in Blocks, name \in Stored(worker[w].path) :
                  /\ heap' = [heap EXCEPT ![b] = name]
                  /\ cb_handle_map' = Emplaced(cb_handle_map, worker[w].path, b)
                  /\ callbacks' = callbacks \cup {[block |-> b, signal |-> worker[w].path]}
                  /\ monitored' = monitored \cup {worker[w].path}
            BY <2>4 DEF SetupAdd
        <3>3. name \in Paths \cup {Garbled}
            BY <3>1, <3>2 DEF Stored
        <3>4. QED BY <2>4, <3>1, <3>2, <3>3 DEF SetupAdd, Emplaced
    <2>5. CASE RemoveAll(w)
        BY <2>5 DEF RemoveAll, Unregister, Held, Clear
    <2>6. CASE RemoveAllStale(w) \/ SetupOverrun(w)
        BY <2>6 DEF RemoveAllStale, SetupOverrun, Undefined
    <2>7. CASE RemoveFree(w)
        BY <2>7 DEF RemoveFree
    <2>8. QED BY <1>2, <2>1, <2>2, <2>3, <2>4, <2>5, <2>6, <2>7 DEF Handles
<1>3. CASE ValueChange \/ MonitorSignal \/ MonitorSignalStale \/ \E t \in Tops : SetTopName(t)
    BY <1>3 DEF ValueChange, MonitorSignal, MonitorSignalStale, SetTopName, Undefined
<1>4. QED BY <1>1, <1>2, <1>3 DEF Next

\* The types hold at first.
LEMMA TypedInitially == Init => Typed
<1> SUFFICES ASSUME Init PROVE Typed
    OBVIOUS
<1>1. FlagTypes
    BY Zenon DEF Init, FlagTypes
<1>2. LockTypes
    BY MonitorsAssumption DEF MonitorsAssumption, Init, LockTypes, Jobs
<1>3. TableTypes
    BY MonitorsAssumption DEF MonitorsAssumption, Init, TableTypes
<1>4. QED BY <1>1, <1>2, <1>3 DEF Typed

\* Every variable keeps its type, and one handler at a time holds vpi_lock.
THEOREM TypeCorrect == Spec => []TypeOK
<1>1. Init => Typed
    BY TypedInitially
<1>2. Typed /\ [Next]_vars => Typed'
    BY LockStep, TableStep, FlagStep DEF Typed
<1>3. Typed => TypeOK
    BY DEF Typed, LockTypes, TableTypes, FlagTypes, TypeOK, Range
<1>4. QED BY <1>1, <1>2, <1>3, PTL DEF Spec

-----------------------------------------------------------------------------
(* The invariant.                                                          *)

\* A registered callback has a block that is allocated, with its name in it if
\* all names are short, and the entry of its signal leads to that block.
Registered ==
    \A c \in callbacks :
        /\ heap[c.block] # Freed
        /\ ~overrun => heap[c.block] = c.signal
        /\ c.signal \in DOMAIN cb_handle_map
        /\ cb_handle_map[c.signal] = c.block

\* The path to be added has no entry yet, and no callback has a block that is
\* about to be freed.
Working ==
    \A w \in Workers :
        /\ worker[w].pc = "add" => worker[w].path \notin DOMAIN cb_handle_map
        /\ worker[w].pc = "free" => \A c \in callbacks : c.block \notin worker[w].blocks

\* Entries are left without a callback only by a removal by name.
Complete == ~removed_one => DOMAIN cb_handle_map \subseteq Reported

\* The callback that is running is removed only when that is recorded.
Running == ~overlapped /\ sim # NoReport => sim \in callbacks

Inv ==
    /\ Registered /\ Working /\ Complete /\ Running
    /\ OnlyWantedReports /\ WantedAreReported /\ FreedIsNotUsed /\ ReportNamesItsSignal

\* An entry leads to a freed block only after a removal by name.
LEMMA EntriesAreLive ==
    ASSUME Typed, Inv, ~removed_one, NEW p \in DOMAIN cb_handle_map
    PROVE  heap[cb_handle_map[p]] # Freed
<1>1. PICK c \in callbacks : c.signal = p
    BY DEF Inv, Complete, Reported
<1>2. QED BY <1>1 DEF Inv, Registered

\* POST: an answer without a new callback, and the beginning of one with.
LEMMA SetupInv ==
    ASSUME Typed, Inv, NEW w \in Workers, NEW n \in Names, SetupListed(w, n) \/ SetupNew(w, n)
    PROVE  Inv'
<1> USE DEF Inv, Registered, Working, Complete, Running, Reported, OnlyWantedReports,
        WantedAreReported, FreedIsNotUsed, ReportNamesItsSignal, tables, simulator, history
<1>1. CASE SetupListed(w, n)
    BY <1>1 DEF SetupListed, Whole
<1>2. CASE SetupNew(w, n)
    <2>1. worker' = [worker EXCEPT ![w] = [pc |-> "add", path |-> Path(n)]]
          /\ Path(n) \notin DOMAIN cb_handle_map
        BY <1>2 DEF SetupNew, Begin
    <2>2. Working'
        BY <1>2, <2>1 DEF SetupNew, Typed, LockTypes
    <2>3. QED BY <1>2, <2>2 DEF SetupNew
<1>3. QED BY <1>1, <1>2

\* The new block is one that no callback has.
LEMMA AddInv ==
    ASSUME Typed, Inv, NEW w \in Workers, SetupAdd(w)
    PROVE  Inv'
<1> DEFINE p == worker[w].path
<1>1. p \in Signals /\ p \in Paths /\ p \notin DOMAIN cb_handle_map /\ worker[w].pc = "add"
    BY JobFields, MonitorsAssumption
    DEF MonitorsAssumption, SetupAdd, Typed, LockTypes, Inv, Working
<1>2. PICK b \in Blocks, name \in Stored(p) :
          /\ heap[b] = Freed
          /\ heap' = [heap EXCEPT ![b] = name]
          /\ overrun' = (overrun \/ p \notin Short)
          /\ cb_handle_map' = Emplaced(cb_handle_map, p, b)
          /\ callbacks' = callbacks \cup {[block |-> b, signal |-> p]}
          /\ monitored' = monitored \cup {p}
    BY DEF SetupAdd
<1>3. \A c \in callbacks : c.block # b
    BY <1>2 DEF Inv, Registered
<1>4. /\ DOMAIN cb_handle_map' = DOMAIN cb_handle_map \cup {p}
      /\ cb_handle_map'[p] = b
      /\ \A q \in DOMAIN cb_handle_map : cb_handle_map'[q] = cb_handle_map[q]
    BY <1>1, <1>2 DEF Emplaced
<1>5. /\ heap'[b] = name /\ name # Freed
      /\ ~overrun' => ~overrun /\ name = p
      /\ \A d \in Blocks \ {b} : heap'[d] = heap[d]
    BY <1>1, <1>2, MonitorsAssumption DEF MonitorsAssumption, Stored, Typed, TableTypes
<1>6. Registered'
    BY <1>2, <1>3, <1>4, <1>5 DEF Inv, Registered, Typed, TableTypes, Callbacks
<1>7. \A v \in Workers : worker'[v] = Idle
    BY <1>1 DEF SetupAdd, End, Typed, LockTypes, Idle
<1>8. Working'
    BY <1>7 DEF Working, Idle
<1>9. Complete' /\ OnlyWantedReports' /\ WantedAreReported'
    <2>1. Reported' = Reported \cup {p}
        <3> DEFINE new == [block |-> b, signal |-> p]
        <3>1. new.signal = p /\ callbacks' = callbacks \cup {new}
            BY <1>2
        <3> HIDE DEF new, p
        <3>2. QED BY <3>1 DEF Reported
    <2>2. removed_one' = removed_one
        BY DEF SetupAdd
    <2>3. QED BY <1>2, <1>4, <2>1, <2>2
        DEF Inv, Complete, OnlyWantedReports, WantedAreReported
<1>10. Running' /\ FreedIsNotUsed' /\ ReportNamesItsSignal'
    BY <1>2 DEF Inv, Running, FreedIsNotUsed, ReportNamesItsSignal, SetupAdd, simulator
<1>11. QED BY <1>6, <1>8, <1>9, <1>10 DEF Inv

\* DELETE of one monitor: the callback of its path, if any, has the block of
\* its entry and is removed, whatever else is.
LEMMA RemoveFindInv ==
    ASSUME Typed, Inv, NEW w \in Workers, NEW n \in Names, RemoveFind(w, n)
    PROVE  Inv'
<1> DEFINE b == cb_handle_map[Path(n)]
<1>1. /\ callbacks' = {c \in callbacks : c.block # b}
      /\ monitored' = IF Held({b}) = {} THEN monitored ELSE monitored \ {Path(n)}
      /\ overlapped' = (overlapped \/ sim \in Held({b}))
      /\ removed_one'
      /\ worker' = [worker EXCEPT ![w] = [pc |-> "free", blocks |-> {b}]]
      /\ UNCHANGED <<cb_handle_map, heap, sim, report, undefined, overrun>>
    BY DEF RemoveFind, Unregister, Held, Begin, simulator
<1>2. Registered'
    BY <1>1 DEF Inv, Registered
<1>3. Working'
    BY <1>1 DEF Inv, Working, Typed, LockTypes
<1>4. Complete' /\ WantedAreReported' /\ FreedIsNotUsed'
    BY <1>1 DEF Complete, WantedAreReported, FreedIsNotUsed
<1>5. \A c \in callbacks : c.signal = Path(n) => c.block = b
    BY DEF Inv, Registered
<1>6. OnlyWantedReports'
    BY <1>1, <1>5 DEF Inv, OnlyWantedReports, Reported
<1>7. Running'
    BY <1>1 DEF Inv, Running, Held
<1>8. ReportNamesItsSignal'
    BY <1>1 DEF Inv, ReportNamesItsSignal
<1>9. QED BY <1>2, <1>3, <1>4, <1>6, <1>7, <1>8 DEF Inv

\* DELETE of all: no callback is left, since each is found by its entry.
LEMMA RemoveAllInv ==
    ASSUME Typed, Inv, NEW w \in Workers, RemoveAll(w)
    PROVE  Inv'
<1>1. \A c \in callbacks : c.block \in Range(cb_handle_map)
    BY DEF Inv, Registered, Range
<1>2. callbacks' = {} /\ monitored' = {} /\ DOMAIN cb_handle_map' = {}
    BY <1>1 DEF RemoveAll, Unregister, Held, Clear
<1>3. /\ overlapped' = (overlapped \/ sim \in callbacks)
      /\ worker' = [worker EXCEPT ![w] = [pc |-> "free", blocks |-> Range(cb_handle_map)]]
      /\ UNCHANGED <<sim, report, undefined, removed_one, overrun>>
    BY <1>1 DEF RemoveAll, Unregister, Held, Begin, simulator
<1>4. Registered' /\ Complete' /\ OnlyWantedReports' /\ WantedAreReported'
    BY <1>2 DEF Registered, Complete, OnlyWantedReports, WantedAreReported, Reported
<1>5. Working'
    BY <1>2, <1>3 DEF Inv, Working, Typed, LockTypes
<1>6. Running' /\ FreedIsNotUsed' /\ ReportNamesItsSignal'
    BY <1>3 DEF Inv, Running, FreedIsNotUsed, ReportNamesItsSignal
<1>7. QED BY <1>4, <1>5, <1>6 DEF Inv

\* The memory goes when no callback has it any more.
LEMMA RemoveFreeInv ==
    ASSUME Typed, Inv, NEW w \in Workers, RemoveFree(w)
    PROVE  Inv'
<1>1. worker[w].pc = "free" /\ \A c \in callbacks : c.block \notin worker[w].blocks
    BY DEF RemoveFree, Inv, Working
<1>2. /\ \A b \in Blocks : b \notin worker[w].blocks => heap'[b] = heap[b]
      /\ UNCHANGED <<cb_handle_map, callbacks, sim, report, undefined, monitored,
                     removed_one, overlapped, overrun>>
    BY DEF RemoveFree, simulator, history
<1>3. Registered'
    BY <1>1, <1>2 DEF Inv, Registered, Typed, TableTypes, Callbacks
<1>4. \A v \in Workers : worker'[v] = Idle
    BY <1>1 DEF RemoveFree, End, Typed, LockTypes, Idle
<1>5. Working'
    BY <1>4 DEF Working, Idle
<1>6. QED
    BY <1>2, <1>3, <1>5 DEF Inv, Complete, Running, OnlyWantedReports, WantedAreReported,
        FreedIsNotUsed, ReportNamesItsSignal, Reported

\* Use of an entry whose block is free.
LEMMA StaleInv ==
    ASSUME Typed, Inv, NEW w \in Workers,
           RemoveAllStale(w) \/ \E n \in Names : RemoveStale(w, n)
    PROVE  Inv'
<1>1. removed_one
    BY EntriesAreLive DEF RemoveAllStale, RemoveStale, Range
<1>2. UNCHANGED <<tables, worker, simulator, history>>
    BY DEF RemoveAllStale, RemoveStale, Undefined
<1>3. QED
    BY <1>1, <1>2 DEF Inv, Registered, Working, Complete, Running, OnlyWantedReports,
        WantedAreReported, FreedIsNotUsed, ReportNamesItsSignal, Reported, tables, simulator, history

\* A name too long that destroys the heap.
LEMMA OverrunInv ==
    ASSUME Typed, Inv, NEW w \in Workers, SetupOverrun(w)
    PROVE  Inv'
BY DEF SetupOverrun, Inv, Registered, Working, Complete, Running, OnlyWantedReports,
    WantedAreReported, FreedIsNotUsed, ReportNamesItsSignal, Reported, tables, simulator

\* The simulator: the callback it runs has its block unless it was removed.
LEMMA SimInv ==
    ASSUME Typed, Inv, ValueChange \/ MonitorSignal \/ MonitorSignalStale
    PROVE  Inv'
<1> USE DEF tables, simulator, history
<1>1. UNCHANGED <<tables, worker, history>>
    BY DEF ValueChange, MonitorSignal, MonitorSignalStale, Undefined
<1>2. Registered' /\ Working' /\ Complete' /\ OnlyWantedReports' /\ WantedAreReported'
    BY <1>1 DEF Inv, Registered, Working, Complete, OnlyWantedReports, WantedAreReported, Reported
<1>3. sim # NoReport /\ ~overlapped =>
          /\ sim \in callbacks /\ heap[sim.block] # Freed
          /\ ~overrun => heap[sim.block] = sim.signal
    BY DEF Inv, Running, Registered
<1>4. Running'
    BY <1>1 DEF Inv, Running, ValueChange, MonitorSignal, MonitorSignalStale, Undefined
<1>5. ReportNamesItsSignal'
    BY <1>1, <1>3 DEF Inv, ReportNamesItsSignal, ValueChange, MonitorSignal,
        MonitorSignalStale, Undefined
<1>6. FreedIsNotUsed'
    <2>1. CASE ValueChange \/ MonitorSignal
        BY <2>1 DEF Inv, FreedIsNotUsed, ValueChange, MonitorSignal
    <2>2. CASE MonitorSignalStale
        <3>1. overlapped
            BY <1>3, <2>2 DEF MonitorSignalStale
        <3>2. QED BY <1>1, <3>1 DEF FreedIsNotUsed
    <2>3. QED BY <2>1, <2>2
<1>7. QED BY <1>2, <1>4, <1>5, <1>6 DEF Inv

\* The inductive invariant.
THEOREM Invariance == Spec => [](Typed /\ Inv)
<1>1. Init => Inv
    BY DEF Init, Inv, Registered, Working, Complete, Running, OnlyWantedReports,
           WantedAreReported, FreedIsNotUsed, ReportNamesItsSignal, Reported, Idle
<1>2. Typed /\ Inv /\ [Next]_vars => Inv'
    <2> SUFFICES ASSUME Typed, Inv, [Next]_vars PROVE Inv'
        OBVIOUS
    <2>1. CASE UNCHANGED vars \/ \E t \in Tops : SetTopName(t)
        BY <2>1 DEF vars, SetTopName, Inv, Registered, Working, Complete, Running,
            OnlyWantedReports, WantedAreReported, FreedIsNotUsed, ReportNamesItsSignal,
            Reported, tables, simulator, history
    <2>2. ASSUME NEW w \in Workers, Handles(w) PROVE Inv'
        BY <2>2, SetupInv, AddInv, RemoveFindInv, RemoveAllInv, RemoveFreeInv, StaleInv,
           OverrunInv
        DEF Handles
    <2>3. QED BY <2>1, <2>2, SimInv DEF Next
<1>3. Typed /\ [Next]_vars => Typed'
    BY LockStep, TableStep, FlagStep DEF Typed
<1>4. QED BY <1>1, <1>2, <1>3, TypedInitially, PTL DEF Spec

\* Only what was asked for, and not taken back, reports its changes.
THEOREM OnlyWanted == Spec => []OnlyWantedReports
<1>1. Inv => OnlyWantedReports
    BY DEF Inv
<1>2. QED BY <1>1, Invariance, PTL

\* Without removals by name, what was asked for reports.
THEOREM WantedReported == Spec => []WantedAreReported
<1>1. Inv => WantedAreReported
    BY DEF Inv
<1>2. QED BY <1>1, Invariance, PTL

\* A signal has one callback: two for one signal would have the same entry,
\* and so the same block.
THEOREM OneReport == Spec => []OneReportPerChange
<1>1. Typed /\ Inv => OneReportPerChange
    <2> SUFFICES ASSUME Typed, Inv, NEW c \in callbacks, NEW d \in callbacks,
                        c.signal = d.signal
                 PROVE  c = d
        BY DEF OneReportPerChange
    <2>1. c.block = d.block
        BY DEF Inv, Registered
    <2>2. QED BY <2>1 DEF Typed, TableTypes, Callbacks
<1>2. QED BY <1>1, Invariance, PTL

\* No freed block is used without a removal by name, one during a report, or a
\* name too long for its buffer.
THEOREM FreedNotUsed == Spec => []FreedIsNotUsed
<1>1. Inv => FreedIsNotUsed
    BY DEF Inv
<1>2. QED BY <1>1, Invariance, PTL

\* A report carries its signal's name unless a monitor was removed during a
\* report, or a name was too long for its buffer.
THEOREM ReportNamed == Spec => []ReportNamesItsSignal
<1>1. Inv => ReportNamesItsSignal
    BY DEF Inv
<1>2. QED BY <1>1, Invariance, PTL
=============================================================================
