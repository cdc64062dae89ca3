-------------------------- MODULE ConditionsProofs --------------------------
(***************************************************************************)
(* Proofs about Conditions for any breakpoints, conditions and handlers.   *)
(***************************************************************************)
EXTENDS Conditions, TLAPS

\* vpi_lock is held by the one handler that is at work.
LockTypes ==
    /\ vpi_lock \in Workers \cup {Free}
    /\ worker \in [Workers -> Jobs]
    /\ \A w \in Workers : worker[w] # Idle <=> vpi_lock = w

TableTypes ==
    /\ break_points \subseteq Ids
    /\ DOMAIN breakpoint_symbol_mapping \subseteq Ids
    /\ \A id \in DOMAIN breakpoint_symbol_mapping :
          breakpoint_symbol_mapping[id] \subseteq Symbols
    /\ DOMAIN symbol_table \subseteq Ids
    /\ \A id \in DOMAIN symbol_table :
          symbol_table[id] \in [vars : SUBSET Symbols, expr : Exprs \cup {NoExpr}]
    /\ refused \subseteq Ids

\* Past its first step, POST has a condition, and then the entries it made.
Prepared ==
    \A w \in Workers :
        /\ worker[w].pc \in {"expr", "symbols", "table", "compile"} => worker[w].expr \in Exprs
        /\ worker[w].pc \in {"symbols", "table", "compile"} =>
              worker[w].id \in DOMAIN breakpoint_symbol_mapping
        /\ worker[w].pc = "compile" => worker[w].id \in DOMAIN symbol_table

Typed ==
    /\ LockTypes /\ TableTypes /\ Prepared
    /\ sim \in SimStates
    /\ late \in BOOLEAN /\ touched \in BOOLEAN

\* The steps of POST.
Posts == {"add", "expr", "symbols", "table", "compile"}

\* A job of POST is on a breakpoint and a condition, one of DELETE on several.
LEMMA JobFields ==
    ASSUME NEW j \in Jobs
    PROVE  /\ j.pc \in Posts \cup {"idle", "remove", "remove_expr"}
           /\ j.pc = "idle" <=> j = Idle
           /\ j.pc \in Posts => /\ j.id \in Ids
                                /\ j.expr \in Exprs \cup {NoExpr}
                                /\ j = [pc |-> j.pc, id |-> j.id, expr |-> j.expr]
           /\ j.pc = "remove" => j.ids \subseteq Ids
           /\ j.pc = "remove_expr" => j.id \in Ids /\ j.ids \subseteq Ids
BY DEF Jobs, Idle, Posts

\* The states of the simulator by their program counter.
LEMMA SimFields ==
    ASSUME NEW s \in SimStates
    PROVE  /\ s.pc \in {"idle", "has_expr", "mapping", "stop", "threw", "values", "evaluate"}
           /\ s.pc = "idle" <=> s = Idle
           /\ s # Idle => s.id \in Ids
           /\ s.pc \in {"values", "evaluate", "threw"} =>
                  /\ s.symbols \subseteq Symbols
                  /\ s = [pc |-> s.pc, id |-> s.id, symbols |-> s.symbols]
BY DEF SimStates, Idle

\* The steps of a handler that is at work.
Proceeds(w) ==
    \/ add_break_point(w)
    \/ NotInDatabase(w) \/ ClearMapping(w) \/ MapSymbols(w) \/ NotAnInteger(w)
    \/ add_expr(w) \/ Compile(w)
    \/ \E id \in Ids : remove_break_point(w, id)
    \/ remove_expr(w)

\* A handler at work is alone.
LEMMA Alone ==
    ASSUME LockTypes, NEW w \in Workers, worker[w].pc # "idle"
    PROVE  \A v \in Workers \ {w} : worker[v] = Idle
BY DEF LockTypes, Idle

\* What a handler at work does with its job.
LEMMA JobStep ==
    ASSUME LockTypes, NEW w \in Workers, Proceeds(w)
    PROVE  /\ worker[w] # Idle
           /\ \E job \in Jobs :
                 /\ worker' = [worker EXCEPT ![w] = job]
                 /\ vpi_lock' = IF job = Idle THEN Free ELSE vpi_lock
           /\ UNCHANGED <<sim, late, touched>>
<1> DEFINE job == worker[w]
<1>1. /\ job \in Jobs
      /\ Idle \in Jobs
    BY DEF LockTypes, Jobs
<1>2. \A to \in Posts : job.pc \in Posts =>
          [job EXCEPT !.pc = to] \in Jobs /\ [job EXCEPT !.pc = to] # Idle
    BY <1>1, JobFields DEF Jobs, Posts, Idle
<1>3. CASE add_break_point(w)
    BY <1>1, <1>2, <1>3, JobFields DEF add_break_point, At, Finish, Continue, Posts, Idle
<1>4. CASE NotInDatabase(w) \/ NotAnInteger(w) \/ Compile(w)
    BY <1>1, <1>4 DEF NotInDatabase, NotAnInteger, Compile, Refuse, At, Finish, Idle
<1>5. CASE ClearMapping(w) \/ MapSymbols(w) \/ add_expr(w)
    BY <1>1, <1>2, <1>5 DEF ClearMapping, MapSymbols, add_expr, At, Continue, Posts, Idle
<1>6. ASSUME NEW id \in Ids, remove_break_point(w, id) PROVE
          \E to \in Jobs : to # Idle /\ worker' = [worker EXCEPT ![w] = to]
    <2>1. job.pc = "remove" /\ job.ids \subseteq Ids
        BY <1>1, <1>6, JobFields DEF remove_break_point, At
    <2>2. [pc |-> "remove_expr", id |-> id, ids |-> job.ids] \in Jobs
        BY <2>1 DEF Jobs
    <2>3. QED BY <1>6, <2>2 DEF remove_break_point, Continue, Idle
<1>7. CASE \E id \in Ids : remove_break_point(w, id)
    <2>1. job # Idle /\ UNCHANGED <<vpi_lock, sim, late, touched>>
        BY <1>7 DEF remove_break_point, At, Continue, Idle
    <2>2. QED BY <1>6, <1>7, <2>1
<1>8. CASE remove_expr(w)
    <2>1. job.pc = "remove_expr" /\ job.ids \subseteq Ids
        BY <1>1, <1>8, JobFields DEF remove_expr, At
    <2>2. [pc |-> "remove", ids |-> job.ids \ {job.id}] \in Jobs
        BY <2>1 DEF Jobs
    <2>3. QED BY <1>1, <1>8, <2>1, <2>2 DEF remove_expr, NextRemoval, Continue, Finish, Idle
<1>9. QED BY <1>3, <1>4, <1>5, <1>7, <1>8 DEF Proceeds

\* A handler begins with a job on the breakpoints ids.
Begins(w, job, ids) ==
    /\ Begin(w, job, ids)
    /\ \/ job.pc = "add" /\ ids = {job.id} /\ job # Idle
       \/ job.pc = "remove" /\ ids = job.ids /\ job # Idle

\* It takes the mutex.
LEMMA BeginStep ==
    ASSUME Typed, NEW w \in Workers, NEW job \in Jobs, NEW ids, Begins(w, job, ids)
    PROVE  /\ LockTypes' /\ TableTypes' /\ Prepared'
           /\ UNCHANGED <<sim, late>>
           /\ touched' \in BOOLEAN
<1>1. LockTypes'
    BY ConditionsAssumption DEF ConditionsAssumption, Typed, LockTypes, Begin, Begins
<1>2. TableTypes' /\ UNCHANGED <<sim, late>>
    BY DEF Typed, TableTypes, Begin, Begins, tables
<1>3. touched' \in BOOLEAN
    BY Zenon DEF Typed, Begin, Begins
<1>4. Prepared'
    BY DEF Typed, LockTypes, Prepared, Begin, Begins, tables
<1>5. QED BY <1>1, <1>2, <1>3, <1>4

\* A handler that takes a step begins or proceeds.
LEMMA HandlerCases ==
    ASSUME NEW w \in Workers, Handler(w)
    PROVE  Proceeds(w) \/ \E job \in Jobs, ids \in SUBSET Ids : Begins(w, job, ids)
<1>1. ASSUME NEW id \in Ids, NEW expr \in Exprs \cup {NoExpr}, PostBreakpoint(w, id, expr)
      PROVE  \E job \in Jobs, ids \in SUBSET Ids : Begins(w, job, ids)
    <2> DEFINE job == [pc |-> "add", id |-> id, expr |-> expr]
    <2>1. job \in Jobs /\ job # Idle /\ {id} \in SUBSET Ids
        BY DEF Jobs, Idle
    <2>2. Begins(w, job, {id})
        BY <1>1, <2>1 DEF PostBreakpoint, Begins
    <2>3. QED BY <2>1, <2>2
<1>2. ASSUME NEW ids \in SUBSET Ids, DeleteBreakpoints(w, ids)
      PROVE  \E job \in Jobs, i \in SUBSET Ids : Begins(w, job, i)
    <2> DEFINE job == [pc |-> "remove", ids |-> ids]
    <2>1. job \in Jobs /\ job # Idle
        BY DEF Jobs, Idle
    <2>2. Begins(w, job, ids)
        BY <1>2, <2>1 DEF DeleteBreakpoints, Begins
    <2>3. QED BY <2>1, <2>2
<1>3. QED BY <1>1, <1>2, Zenon DEF Handler, Proceeds

\* What a handler at work does to the tables keeps their types.
LEMMA TableStep == ASSUME Typed, NEW w \in Workers, Proceeds(w) PROVE TableTypes'
<1> DEFINE job == worker[w]
<1>1. job \in Jobs
    BY DEF Typed, LockTypes
<1>2. job.pc \in Posts => job.id \in Ids /\ job.expr \in Exprs \cup {NoExpr}
    BY <1>1, JobFields
<1> USE DEF Typed, TableTypes, Prepared, At, Posts
<1>3. CASE add_break_point(w)
    BY <1>2, <1>3 DEF add_break_point
<1>4. CASE NotInDatabase(w)
    BY <1>2, <1>4 DEF NotInDatabase, Refuse, tables
<1>5. CASE ClearMapping(w)
    BY <1>2, <1>5 DEF ClearMapping, Put
<1>6. CASE MapSymbols(w)
    BY <1>2, <1>6, ConditionsAssumption DEF ConditionsAssumption, MapSymbols, Maps, Put
<1>7. CASE NotAnInteger(w)
    BY <1>2, <1>7, ConditionsAssumption DEF ConditionsAssumption, NotAnInteger, Maps, Put, Refuse
<1>8. CASE add_expr(w)
    <2> DEFINE old == IF job.id \in DOMAIN symbol_table THEN symbol_table[job.id]
                      ELSE [vars |-> {}, expr |-> NoExpr]
               new == [old EXCEPT !.vars = @ \cup Recognised[job.expr]]
    <2>1. old \in [vars : SUBSET Symbols, expr : Exprs \cup {NoExpr}]
        OBVIOUS
    <2>2. Recognised[job.expr] \subseteq Symbols
        BY <1>8, ConditionsAssumption DEF ConditionsAssumption, add_expr
    <2>3. new \in [vars : SUBSET Symbols, expr : Exprs \cup {NoExpr}]
        BY <2>1, <2>2
    <2>4. symbol_table' = Put(symbol_table, job.id, new)
        BY <1>8 DEF add_expr
    <2> HIDE DEF old, new
    <2>5. QED BY <1>2, <1>8, <2>3, <2>4 DEF add_expr, Put
<1>9. CASE Compile(w)
    BY <1>2, <1>9 DEF Compile, Refuse
<1>10. CASE \E id \in Ids : remove_break_point(w, id)
    BY <1>10 DEF remove_break_point
<1>11. CASE remove_expr(w)
    BY <1>11 DEF remove_expr, Restrict
<1>12. QED BY <1>3, <1>4, <1>5, <1>6, <1>7, <1>8, <1>9, <1>10, <1>11 DEF Proceeds

\* The entries of the one that is at work are there when it needs them.
LEMMA PreparedStep == ASSUME Typed, NEW w \in Workers, Proceeds(w) PROVE Prepared'
<1> DEFINE job == worker[w]
<1>1. job \in Jobs /\ \A v \in Workers \ {w} : worker'[v] = Idle
    BY JobStep, Alone, JobFields DEF Typed, LockTypes
<1>2. job.pc \in Posts =>
          /\ job.expr \in Exprs \cup {NoExpr}
          /\ job = [pc |-> job.pc, id |-> job.id, expr |-> job.expr]
    BY <1>1, JobFields
<1>3. worker \in [Workers -> Jobs]
    BY DEF Typed, LockTypes
<1> USE DEF Typed, Prepared, At, Posts, Idle
<1>4. CASE add_break_point(w)
    BY <1>1, <1>2, <1>3, <1>4 DEF add_break_point, Finish, Continue
<1>5. CASE NotInDatabase(w) \/ NotAnInteger(w) \/ Compile(w)
    BY <1>1, <1>3, <1>5 DEF NotInDatabase, NotAnInteger, Compile, Refuse, Finish
<1>6. CASE ClearMapping(w)
    BY <1>1, <1>2, <1>3, <1>6 DEF ClearMapping, Continue, Put
<1>7. CASE MapSymbols(w)
    BY <1>1, <1>2, <1>3, <1>7 DEF MapSymbols, Maps, Continue, Put
<1>8. CASE add_expr(w)
    BY <1>1, <1>2, <1>3, <1>8 DEF add_expr, Continue, Put
<1>9. CASE \E id \in Ids : remove_break_point(w, id)
    BY <1>1, <1>3, <1>9 DEF remove_break_point, Continue
<1>10. CASE remove_expr(w)
    BY <1>1, <1>3, <1>10 DEF remove_expr, NextRemoval, Continue, Finish
<1>11. QED BY <1>4, <1>5, <1>6, <1>7, <1>8, <1>9, <1>10 DEF Proceeds

\* The simulator keeps its own types and changes nothing else.
LEMMA SimTypes ==
    ASSUME Typed, Simulator
    PROVE  /\ sim' \in SimStates
           /\ late' \in BOOLEAN /\ touched' \in BOOLEAN
           /\ UNCHANGED <<tables, vpi_lock, worker, refused>>
<1>0. late' \in BOOLEAN
    BY Zenon DEF Simulator, BreakpointTrace, has_expr_breakpoint, CopySymbols, GetValues,
        Evaluate, Resumed, Sim, TimePasses, Typed
<1> SUFFICES /\ sim' \in SimStates
             /\ touched' \in BOOLEAN
             /\ UNCHANGED <<tables, vpi_lock, worker, refused>>
    BY <1>0
<1>1. CASE \E id \in Ids, step_over \in BOOLEAN : BreakpointTrace(id, step_over)
    BY <1>1 DEF BreakpointTrace, Sim, SimStates, BeingChanged
<1>2. CASE has_expr_breakpoint
    BY <1>2, SimFields, Zenon DEF has_expr_breakpoint, Sim, SimStates, Typed
<1>3. CASE CopySymbols
    BY <1>3, SimFields DEF CopySymbols, Sim, SimStates, Typed, TableTypes
<1>4. CASE GetValues
    BY <1>4, SimFields DEF GetValues, Sim, SimStates, Typed
<1>5. CASE \E value \in BOOLEAN : Evaluate(value)
    <2>1. touched' \in BOOLEAN
        BY <1>5, Zenon DEF Evaluate, Typed
    <2>2. sim' \in SimStates /\ UNCHANGED <<tables, vpi_lock, worker, refused>>
        BY <1>5, SimFields DEF Evaluate, Sim, SimStates, Typed
    <2>3. QED BY <2>1, <2>2
<1>6. CASE Resumed
    BY <1>6 DEF Resumed, Sim, SimStates
<1>7. CASE TimePasses
    <2>1. touched' \in BOOLEAN
        BY <1>7, Zenon DEF TimePasses, Typed
    <2>2. QED BY <1>7, <2>1 DEF TimePasses, Typed
<1>8. QED BY <1>1, <1>2, <1>3, <1>4, <1>5, <1>6, <1>7 DEF Simulator

\* Every step keeps the types.
LEMMA TypedStep == ASSUME Typed, [Next]_vars PROVE Typed'
<1>1. CASE UNCHANGED vars
    BY <1>1 DEF vars, tables, Typed, LockTypes, TableTypes, Prepared
<1>2. CASE Simulator
    BY <1>2, SimTypes DEF Typed, LockTypes, TableTypes, Prepared, tables
<1>3. ASSUME NEW w \in Workers, Handler(w) PROVE Typed'
    <2>1. CASE Proceeds(w)
        <3>1. LockTypes'
            BY <2>1, JobStep, ConditionsAssumption DEF ConditionsAssumption, Typed, LockTypes
        <3>2. QED BY <2>1, <3>1, JobStep, TableStep, PreparedStep DEF Typed
    <2>2. CASE \E job \in Jobs, ids \in SUBSET Ids : Begins(w, job, ids)
        BY <2>2, BeginStep DEF Typed
    <2>3. QED BY <1>3, <2>1, <2>2, HandlerCases
<1>4. QED BY <1>1, <1>2, <1>3 DEF Next

\* The types hold at first.
LEMMA TypedInitially == Init => Typed
<1> SUFFICES ASSUME Init PROVE Typed
    OBVIOUS
<1>1. touched \in BOOLEAN /\ late \in BOOLEAN
    BY Zenon DEF Init
<1>2. LockTypes
    BY ConditionsAssumption DEF ConditionsAssumption, Init, LockTypes, Jobs
<1>3. TableTypes /\ Prepared /\ sim \in SimStates
    BY DEF Init, TableTypes, Prepared, SimStates, Idle
<1>4. QED BY <1>1, <1>2, <1>3 DEF Typed

\* Every variable keeps its type, and one handler at a time holds vpi_lock.
THEOREM TypeCorrect == Spec => []TypeOK
<1>1. Typed => TypeOK
    BY DEF Typed, LockTypes, TableTypes, TypeOK
<1>2. QED BY <1>1, TypedInitially, TypedStep, PTL DEF Spec

-----------------------------------------------------------------------------
(* The invariant.                                                          *)

\* A condition is being sent for the breakpoint.
Posting(id) ==
    \E w \in Workers :
        worker[w].pc \in {"expr", "symbols", "table", "compile"} /\ worker[w].id = id

\* What POST has done so far is still there.
AtWork ==
    \A w \in Workers :
        /\ worker[w].pc \in {"expr", "symbols", "table", "compile"} =>
              worker[w].id \in break_points
        /\ worker[w].pc = "symbols" => breakpoint_symbol_mapping[worker[w].id] = {}
        /\ worker[w].pc \in {"table", "compile"} =>
              breakpoint_symbol_mapping[worker[w].id] = Recognised[worker[w].expr]
        /\ worker[w].pc = "compile" =>
              Recognised[worker[w].expr] \subseteq symbol_table[worker[w].id].vars

\* Symbols are mapped before a condition is stored, and stay.
Mapped == DOMAIN symbol_table \subseteq DOMAIN breakpoint_symbol_mapping

\* A condition without its breakpoint is the next to be removed.
Owned ==
    \A id \in DOMAIN symbol_table :
        id \in break_points \/ \E w \in Workers : worker[w].pc = "remove_expr" /\ worker[w].id = id

\* An entry of the three tables as an accepted condition leaves it.
Reads(id) ==
    /\ symbol_table[id].expr \in Exprs
    /\ breakpoint_symbol_mapping[id] = Recognised[symbol_table[id].expr]
    /\ Recognised[symbol_table[id].expr] \subseteq symbol_table[id].vars

Accepted == \A id \in DOMAIN symbol_table \ refused : Posting(id) \/ Reads(id)

TableInv == AtWork /\ Mapped /\ Owned /\ Accepted

\* Without a change since its call, no handler is at work on the simulator's
\* breakpoint ...
Untouched == sim # Idle /\ ~touched => ~BeingChanged(sim.id)

\* ... and the symbols it copied are those of the entry.
Copied ==
    sim.pc \in {"values", "evaluate"} /\ ~touched
          /\ sim.id \in DOMAIN symbol_table /\ sim.id \notin refused =>
        sim.symbols \subseteq symbol_table[sim.id].vars

SimInv == SymbolsAreMapped /\ ThrowsOnlyWhenChanged /\ Untouched /\ Copied

\* What a handler at work leaves alone.
LEMMA OthersKept ==
    ASSUME Typed, NEW w \in Workers, Proceeds(w), NEW id, ~BeingChanged(id)
    PROVE  /\ ~BeingChanged(id)'
           /\ id \in DOMAIN symbol_table' <=> id \in DOMAIN symbol_table
           /\ id \in DOMAIN symbol_table => symbol_table'[id] = symbol_table[id]
           /\ id \in refused' <=> id \in refused
           /\ id \in DOMAIN breakpoint_symbol_mapping =>
                 breakpoint_symbol_mapping'[id] = breakpoint_symbol_mapping[id]
           /\ id \in break_points' <=> id \in break_points
<1> DEFINE job == worker[w]
<1>1. /\ job \in Jobs
      /\ \A v \in Workers \ {w} : worker'[v] = Idle
      /\ worker \in [Workers -> Jobs]
    BY JobStep, Alone, JobFields DEF Typed, LockTypes
<1>2. job.pc \in Posts =>
          /\ job.expr \in Exprs \cup {NoExpr}
          /\ job = [pc |-> job.pc, id |-> job.id, expr |-> job.expr]
    BY <1>1, JobFields
<1> USE <1>1 DEF BeingChanged, At, Posts, Idle
<1>3. CASE add_break_point(w)
    BY <1>2, <1>3 DEF add_break_point, Finish, Continue
<1>4. CASE NotInDatabase(w)
    BY <1>4 DEF NotInDatabase, Refuse, Finish, tables
<1>5. CASE ClearMapping(w)
    BY <1>2, <1>5 DEF ClearMapping, Continue, Put
<1>6. CASE MapSymbols(w)
    BY <1>2, <1>6 DEF MapSymbols, Maps, Continue, Put
<1>7. CASE NotAnInteger(w)
    BY <1>7 DEF NotAnInteger, Maps, Put, Refuse, Finish
<1>8. CASE add_expr(w)
    BY <1>2, <1>8 DEF add_expr, Continue, Put
<1>9. CASE Compile(w)
    BY <1>9 DEF Compile, Refuse, Finish
<1>10. CASE \E i \in Ids : remove_break_point(w, i)
    BY <1>10 DEF remove_break_point, Continue
<1>11. CASE remove_expr(w)
    BY <1>11 DEF remove_expr, NextRemoval, Continue, Finish, Restrict
<1>12. QED BY <1>3, <1>4, <1>5, <1>6, <1>7, <1>8, <1>9, <1>10, <1>11 DEF Proceeds

\* A handler at work keeps the tables consistent.
LEMMA TableInvStep == ASSUME Typed, TableInv, NEW w \in Workers, Proceeds(w) PROVE TableInv'
<1> DEFINE job == worker[w]
<1>1. /\ job \in Jobs
      /\ \A v \in Workers \ {w} : worker[v] = Idle /\ worker'[v] = Idle
      /\ worker \in [Workers -> Jobs]
    BY JobStep, Alone, JobFields DEF Typed, LockTypes
<1>2. job.pc \in Posts =>
          /\ job.expr \in Exprs \cup {NoExpr}
          /\ job = [pc |-> job.pc, id |-> job.id, expr |-> job.expr]
    BY <1>1, JobFields
<1> USE <1>1 DEF TableInv, AtWork, Mapped, Owned, Accepted, Posting, Reads, Prepared, Typed,
        At, Posts, Idle
<1>3. CASE add_break_point(w)
    BY <1>2, <1>3 DEF add_break_point, Finish, Continue
<1>4. CASE NotInDatabase(w)
    BY <1>4 DEF NotInDatabase, Refuse, Finish, tables
<1>5. CASE ClearMapping(w)
    BY <1>2, <1>5 DEF ClearMapping, Continue, Put
<1>6. CASE MapSymbols(w)
    <2>1. breakpoint_symbol_mapping[job.id] \cup Recognised[job.expr] = Recognised[job.expr]
        BY <1>6 DEF MapSymbols
    <2>2. breakpoint_symbol_mapping' = Put(breakpoint_symbol_mapping, job.id, Recognised[job.expr])
        BY <1>6, <2>1 DEF MapSymbols, Maps
    <2>3. QED BY <1>2, <1>6, <2>2 DEF MapSymbols, Continue, Put
<1>7. CASE NotAnInteger(w)
    BY <1>7 DEF NotAnInteger, Maps, Put, Refuse, Finish
<1>8. CASE add_expr(w)
    BY <1>2, <1>8, SMTT(60) DEF add_expr, Continue, Put
<1>9. CASE Compile(w)
    <2>1. PICK id : id = job.id
        OBVIOUS
    <2>2. /\ worker' = [worker EXCEPT ![w] = Idle]
          /\ UNCHANGED <<break_points, breakpoint_symbol_mapping>>
          /\ DOMAIN symbol_table' = DOMAIN symbol_table
          /\ \A i \in DOMAIN symbol_table \ {id} :
                symbol_table'[i] = symbol_table[i] /\ (i \in refused' <=> i \in refused)
        BY <1>9, <2>1 DEF Compile, Refuse, Finish
    <2>3. id \in refused' \/ Reads(id)'
        BY <1>9, <2>1 DEF Compile, Refuse, TableTypes
    <2>4. \A v \in Workers : worker'[v] = Idle
        BY <2>2
    <2>5. AtWork' /\ Mapped' /\ Owned'
        BY <1>9, <2>1, <2>2, <2>4 DEF Compile
    <2>6. Accepted'
        BY <1>9, <2>1, <2>2, <2>3 DEF Compile
    <2>7. QED BY <2>5, <2>6
<1>10. CASE \E i \in Ids : remove_break_point(w, i)
    BY <1>10 DEF remove_break_point, Continue
<1>11. CASE remove_expr(w)
    BY <1>11 DEF remove_expr, NextRemoval, Continue, Finish, Restrict
<1>12. QED BY <1>3, <1>4, <1>5, <1>6, <1>7, <1>8, <1>9, <1>10, <1>11 DEF Proceeds

\* So does one that begins.
LEMMA BeginInv ==
    ASSUME Typed, TableInv, SimInv, NEW w \in Workers, NEW job \in Jobs, NEW ids,
           Begins(w, job, ids)
    PROVE  TableInv' /\ SimInv'
<1>1. /\ \A v \in Workers \ {w} : worker'[v] = worker[v]
      /\ worker'[w] = job
      /\ worker[w] = Idle
      /\ UNCHANGED <<break_points, breakpoint_symbol_mapping, symbol_table, refused, sim>>
      /\ late' <=> late
      /\ touched' = (touched \/ (sim # Idle /\ sim.id \in ids))
    BY DEF Begins, Begin, tables, Typed, LockTypes
<1>2. TableInv'
    BY <1>1 DEF TableInv, AtWork, Mapped, Owned, Accepted, Posting, Reads, Begins, Idle
<1>3. \A id : id \notin ids /\ ~BeingChanged(id) => ~BeingChanged(id)'
    BY <1>1 DEF BeingChanged, Begins, Idle
<1>4. touched => touched'
    BY <1>1
<1>5. ~touched' => sim = Idle \/ sim.id \notin ids
    BY <1>1
<1>6. SimInv'
    BY <1>1, <1>3, <1>4, <1>5
    DEF SimInv, SymbolsAreMapped, ThrowsOnlyWhenChanged, Untouched, Copied
<1>7. QED BY <1>2, <1>6

\* A handler at work does not touch what the simulator counts on.
LEMMA SimInvHandler ==
    ASSUME Typed, SimInv, NEW w \in Workers, Proceeds(w), sim.pc # "threw"
    PROVE  SimInv'
<1>1. sim' = sim /\ touched' = touched
    BY JobStep DEF Typed
<1>2. DOMAIN breakpoint_symbol_mapping \subseteq DOMAIN breakpoint_symbol_mapping'
    BY DEF Proceeds, add_break_point, NotInDatabase, ClearMapping, MapSymbols, NotAnInteger,
        add_expr, Compile, remove_break_point, remove_expr, Maps, Put, tables
<1>3. SymbolsAreMapped'
    BY <1>1, <1>2 DEF SimInv, SymbolsAreMapped
<1>4. ThrowsOnlyWhenChanged'
    BY <1>1 DEF ThrowsOnlyWhenChanged
<1>5. CASE touched \/ sim = Idle
    BY <1>1, <1>3, <1>4, <1>5 DEF SimInv, Untouched, Copied, Idle
<1>6. CASE ~touched /\ sim # Idle
    BY <1>1, <1>3, <1>4, <1>6, OthersKept DEF SimInv, Untouched, Copied
<1>7. QED BY <1>5, <1>6

\* The simulator copies symbols of an entry that is as its condition left it,
\* unless the condition was refused or a handler is at work on it.
LEMMA SimInvStep == ASSUME Typed, TableInv, SimInv, Simulator PROVE TableInv' /\ SimInv'
<1>1. UNCHANGED <<break_points, breakpoint_symbol_mapping, symbol_table, worker, refused>>
    BY SimTypes DEF tables
<1>2. TableInv'
    BY <1>1 DEF TableInv, AtWork, Mapped, Owned, Accepted, Posting, Reads
<1> SUFFICES SimInv'
    BY <1>2
<1>3. worker' = worker /\ symbol_table' = symbol_table /\ refused' = refused
      /\ breakpoint_symbol_mapping' = breakpoint_symbol_mapping
    BY <1>1
<1>4. CASE \E id \in Ids, step_over \in BOOLEAN : BreakpointTrace(id, step_over)
    <2>1. PICK id \in Ids : sim' = [pc |-> "has_expr", id |-> id]
                            /\ (touched' <=> BeingChanged(id))
        BY <1>4, Zenon DEF BreakpointTrace, Sim
    <2>2. Untouched'
        BY <1>3, <2>1 DEF Untouched, BeingChanged
    <2>3. QED BY <2>1, <2>2 DEF SimInv, SymbolsAreMapped, ThrowsOnlyWhenChanged, Copied
<1>5. CASE has_expr_breakpoint
    <2>1. touched' <=> touched
        BY <1>5, Zenon DEF has_expr_breakpoint
    <2>2. /\ sim.id = sim'.id /\ sim # Idle
          /\ sim'.pc \in {"mapping", "stop"}
          /\ sim'.pc = "mapping" => sim.id \in DOMAIN breakpoint_symbol_mapping
        BY <1>5 DEF has_expr_breakpoint, Sim, Idle, TableInv, Mapped
    <2>3. Untouched'
        BY <1>3, <2>1, <2>2 DEF SimInv, Untouched, BeingChanged
    <2>4. QED BY <1>3, <2>1, <2>2, <2>3 DEF SimInv, SymbolsAreMapped, ThrowsOnlyWhenChanged, Copied
<1>6. CASE CopySymbols
    <2>1. touched' <=> touched
        BY <1>6, Zenon DEF CopySymbols
    <2>2. /\ sim # Idle
          /\ sim' = [pc |-> "values", id |-> sim.id,
                    symbols |-> breakpoint_symbol_mapping[sim.id]]
        BY <1>6 DEF CopySymbols, Sim, Idle, SimInv, SymbolsAreMapped
    <2>3. sim.id \in DOMAIN symbol_table \ refused /\ ~BeingChanged(sim.id) =>
              breakpoint_symbol_mapping[sim.id] \subseteq symbol_table[sim.id].vars
        BY DEF TableInv, Accepted, Reads, Posting, BeingChanged
    <2>4. Untouched'
        BY <1>3, <2>1, <2>2 DEF SimInv, Untouched, BeingChanged
    <2>5. Copied'
        BY <1>3, <2>1, <2>2, <2>3 DEF SimInv, Untouched, Copied
    <2>6. QED BY <2>2, <2>4, <2>5 DEF SimInv, SymbolsAreMapped, ThrowsOnlyWhenChanged
<1>7. CASE GetValues
    <2>1. touched' <=> touched
        BY <1>7, Zenon DEF GetValues
    <2>2. late' = late
        BY <1>7 DEF GetValues, Sim
    <2>3. /\ sim # Idle /\ sim.pc = "values" /\ sim'.id = sim.id
          /\ \/ sim'.pc = "evaluate" /\ sim'.symbols = sim.symbols
             \/ sim'.pc = "stop"
             \/ sim'.pc = "threw" /\ sim'.symbols = sim.symbols /\ late /\ Time \in sim.symbols
        BY <1>7, SimFields DEF GetValues, Sim, Idle, Typed
    <2>4. Untouched'
        BY <1>3, <2>1, <2>3 DEF SimInv, Untouched, BeingChanged
    <2>5. ThrowsOnlyWhenChanged'
        BY <2>2, <2>3 DEF ThrowsOnlyWhenChanged
    <2>6. QED BY <1>3, <2>1, <2>3, <2>4, <2>5 DEF SimInv, SymbolsAreMapped, Copied
<1>8. CASE \E value \in BOOLEAN : Evaluate(value)
    <2>1. sim' = Idle \/ (touched' <=> touched)
        BY <1>8, Zenon DEF Evaluate, Sim
    <2>2. /\ sim # Idle /\ sim.pc = "evaluate"
          /\ \/ sim' = Idle
             \/ sim' = [pc |-> "stop", id |-> sim.id]
             \/ /\ sim'.pc = "threw" /\ sim'.id = sim.id
                /\ sim.id \in DOMAIN symbol_table
                /\ ~(sim.symbols \subseteq symbol_table[sim.id].vars)
        BY <1>8, SimFields DEF Evaluate, Sim, Idle, Typed
    <2>3. Untouched'
        BY <1>3, <2>1, <2>2 DEF SimInv, Untouched, BeingChanged
    <2>4. ThrowsOnlyWhenChanged'
        BY <1>3, <2>1, <2>2 DEF SimInv, Copied, ThrowsOnlyWhenChanged, Idle
    <2>5. QED BY <2>2, <2>3, <2>4 DEF SimInv, SymbolsAreMapped, Copied, Idle
<1>9. CASE Resumed
    BY <1>9
    DEF Resumed, Sim, SimInv, SymbolsAreMapped, ThrowsOnlyWhenChanged, Untouched, Copied, Idle
<1>10. CASE TimePasses
    <2>1. touched' <=> touched
        BY <1>10, Zenon DEF TimePasses
    <2>2. QED BY <1>3, <1>10, <2>1
        DEF TimePasses, SimInv, SymbolsAreMapped, ThrowsOnlyWhenChanged, Untouched, Copied,
            BeingChanged, Idle
<1>11. QED BY <1>4, <1>5, <1>6, <1>7, <1>8, <1>9, <1>10 DEF Simulator

\* The inductive invariant.
THEOREM Invariance == Spec => [](Typed /\ TableInv /\ SimInv)
<1>1. Init => TableInv /\ SimInv
    BY DEF Init, TableInv, AtWork, Mapped, Owned, Accepted, SimInv, SymbolsAreMapped,
        ThrowsOnlyWhenChanged, Untouched, Copied, Idle
<1>2. ASSUME Typed, TableInv, SimInv, [Next]_vars PROVE TableInv' /\ SimInv'
    <2>1. CASE UNCHANGED vars
        BY <1>2, <2>1 DEF vars, tables, TableInv, AtWork, Mapped, Owned, Accepted, Posting,
            Reads, SimInv, SymbolsAreMapped, ThrowsOnlyWhenChanged, Untouched, Copied, BeingChanged
    <2>2. CASE Simulator
        BY <1>2, <2>2, SimInvStep
    <2>3. ASSUME NEW w \in Workers, Handler(w), sim.pc # "threw" PROVE TableInv' /\ SimInv'
        BY <1>2, <2>3, HandlerCases, BeginInv, TableInvStep, SimInvHandler
    <2>4. QED BY <1>2, <2>1, <2>2, <2>3 DEF Next
<1>3. QED BY <1>1, <1>2, TypedInitially, TypedStep, PTL DEF Spec

\* The symbols of a condition that the simulator has seen can be looked up.
THEOREM SymbolsMapped == Spec => []SymbolsAreMapped
<1>1. SimInv => SymbolsAreMapped
    BY DEF SimInv
<1>2. QED BY <1>1, Invariance, PTL

\* Between two handlers every condition has its breakpoint.
THEOREM NoOrphan == Spec => []NoOrphanCondition
<1>1. Typed /\ TableInv => NoOrphanCondition
    BY ConditionsAssumption
    DEF ConditionsAssumption, Typed, LockTypes, TableInv, Owned, NoOrphanCondition, Idle
<1>2. QED BY <1>1, Invariance, PTL

\* Between two handlers the three tables agree about an accepted condition.
THEOREM AcceptedConsistent == Spec => []AcceptedReadsItsSymbols
<1>1. Typed /\ TableInv => AcceptedReadsItsSymbols
    BY ConditionsAssumption
    DEF ConditionsAssumption, Typed, LockTypes, TableInv, Accepted, Posting, Reads,
        AcceptedReadsItsSymbols, Idle
<1>2. QED BY <1>1, Invariance, PTL

\* An evaluation throws only after a refused condition or during a change.
THEOREM ThrowsWhenChanged == Spec => []ThrowsOnlyWhenChanged
<1>1. SimInv => ThrowsOnlyWhenChanged
    BY DEF SimInv
<1>2. QED BY <1>1, Invariance, PTL
=============================================================================
