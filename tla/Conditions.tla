----------------------------- MODULE Conditions -----------------------------
(***************************************************************************)
(* Breakpoints and their conditions: the tables of src/sim.cc, src/expr.cc *)
(* and src/control.cc that handlers change while the simulator thread,     *)
(* which takes no lock, reads them in breakpoint_trace.                    *)
(*                                                                         *)
(* Handlers exclude each other by vpi_lock.  One action is one access to a *)
(* table; the accesses of the two sides interleave, each taken as atomic.  *)
(* A condition is a member of Exprs, known by the signals it reads and by  *)
(* those among them that is_expr_symbol recognises in its text.            *)
(***************************************************************************)
EXTENDS FiniteSets, Functions

CONSTANTS
    Ids,          \* breakpoint ids
    Workers,      \* the threads of the HTTP server's pool
    Symbols,      \* the names of the signals visible at the breakpoints
    Time,         \* and the one that stands for the simulation time
    Exprs,        \* conditions a client may send
    Inputs,       \* the signals a condition reads
    Recognised,   \* those is_expr_symbol finds in it
    NoExpr,       \* no condition
    Free          \* the state of a mutex nobody holds

ASSUME ConditionsAssumption ==
    /\ NoExpr \notin Exprs
    /\ Time \in Symbols
    /\ Free \notin Workers
    /\ Recognised \in [Exprs -> SUBSET Symbols]
    /\ \A e \in Exprs : Recognised[e] \subseteq Inputs[e]

VARIABLES
    break_points,                \* the set of sim.cc
    breakpoint_symbol_mapping,   \* id -> the signals to read for its condition
    symbol_table,                \* id -> its compiled condition
    vpi_lock,                    \* the handler that holds the mutex, or Free
    worker,                      \* what each handler thread is doing
    sim,                         \* what the simulator thread is doing
    late,                        \* the simulation time has outgrown an int
    refused,                     \* history: ids whose last condition was refused
    touched                      \* history: sim's id was changed since its call

tables == <<break_points, breakpoint_symbol_mapping, symbol_table>>

vars == <<tables, vpi_lock, worker, sim, late, refused, touched>>

Idle == [pc |-> "idle"]

\* A job on one breakpoint, for POST, or on several, for DELETE.
Jobs ==
    {Idle}
    \cup [pc : {"add", "expr", "symbols", "table", "compile"},
          id : Ids, expr : Exprs \cup {NoExpr}]
    \cup [pc : {"remove"}, ids : SUBSET Ids]
    \cup [pc : {"remove_expr"}, id : Ids, ids : SUBSET Ids]

SimStates ==
    {Idle}
    \cup [pc : {"has_expr", "mapping", "stop"}, id : Ids]
    \cup [pc : {"values", "evaluate", "threw"}, id : Ids, symbols : SUBSET Symbols]

TypeOK ==
    /\ break_points \subseteq Ids
    /\ DOMAIN breakpoint_symbol_mapping \subseteq Ids
    /\ \A id \in DOMAIN breakpoint_symbol_mapping :
          breakpoint_symbol_mapping[id] \subseteq Symbols
    /\ DOMAIN symbol_table \subseteq Ids
    /\ \A id \in DOMAIN symbol_table :
          symbol_table[id] \in [vars : SUBSET Symbols, expr : Exprs \cup {NoExpr}]
    /\ vpi_lock \in Workers \cup {Free}
    /\ worker \in [Workers -> Jobs]
    /\ \A w \in Workers : worker[w] # Idle <=> vpi_lock = w
    /\ sim \in SimStates
    /\ late \in BOOLEAN
    /\ refused \subseteq Ids
    /\ touched \in BOOLEAN

Init ==
    /\ break_points = {}
    /\ breakpoint_symbol_mapping = <<>>
    /\ symbol_table = <<>>
    /\ vpi_lock = Free
    /\ worker = [w \in Workers |-> Idle]
    /\ sim = Idle
    /\ late = FALSE
    /\ refused = {}
    /\ touched = FALSE

\* f with k bound to v.
Put(f, k, v) == [x \in DOMAIN f \cup {k} |-> IF x = k THEN v ELSE f[x]]

-----------------------------------------------------------------------------
(* The handlers.                                                           *)

\* Mutant: the handler does not take vpi_lock first.
BeginUnlocked(w, job, ids) ==
    /\ worker[w] = Idle
    /\ vpi_lock' = w
    /\ worker' = [worker EXCEPT ![w] = job]
    /\ touched' = (touched \/ (sim # Idle /\ sim.id \in ids))
    /\ UNCHANGED <<tables, sim, late, refused>>

Begin(w, job, ids) ==
    /\ vpi_lock = Free
    /\ worker[w] = Idle
    /\ vpi_lock' = w
    /\ worker' = [worker EXCEPT ![w] = job]
    /\ touched' = (touched \/ (sim # Idle /\ sim.id \in ids))
    /\ UNCHANGED <<tables, sim, late, refused>>

\* POST /breakpoint
PostBreakpoint(w, id, expr) == Begin(w, [pc |-> "add", id |-> id, expr |-> expr], {id})

\* DELETE /breakpoint/<id>, or of all the breakpoints of a file
DeleteBreakpoints(w, ids) == Begin(w, [pc |-> "remove", ids |-> ids], ids)

Continue(w, job) ==
    /\ worker' = [worker EXCEPT ![w] = job]
    /\ UNCHANGED <<vpi_lock, sim, late, touched>>

\* The handler unlocks vpi_lock and answers, "Okay" even for a refused condition.
Finish(w) ==
    /\ worker' = [worker EXCEPT ![w] = Idle]
    /\ vpi_lock' = Free
    /\ UNCHANGED <<sim, late, touched>>

\* Goes on with the job at pc "from".
At(w, from) == worker[w].pc = from

Refuse(w) == refused' = refused \cup {worker[w].id} /\ Finish(w)

add_break_point(w) ==
    /\ At(w, "add")
    /\ break_points' = break_points \cup {worker[w].id}
    /\ IF worker[w].expr = NoExpr
       THEN Finish(w)
       ELSE Continue(w, [worker[w] EXCEPT !.pc = "expr"])
    /\ UNCHANGED <<breakpoint_symbol_mapping, symbol_table, refused>>

\* add_breakpoint_expr, first half: no database, or no instance has the id.
NotInDatabase(w) ==
    /\ At(w, "expr")
    /\ Refuse(w)
    /\ UNCHANGED tables

\* Mutant: the symbols of the condition before are kept.
KeepMapping(w) ==
    /\ At(w, "expr")
    /\ breakpoint_symbol_mapping' =
          IF worker[w].id \in DOMAIN breakpoint_symbol_mapping
          THEN breakpoint_symbol_mapping
          ELSE Put(breakpoint_symbol_mapping, worker[w].id, {})
    /\ Continue(w, [worker[w] EXCEPT !.pc = "symbols"])
    /\ UNCHANGED <<break_points, symbol_table, refused>>

\* "initialize the mapping"
ClearMapping(w) ==
    /\ At(w, "expr")
    /\ breakpoint_symbol_mapping' = Put(breakpoint_symbol_mapping, worker[w].id, {})
    /\ Continue(w, [worker[w] EXCEPT !.pc = "symbols"])
    /\ UNCHANGED <<break_points, symbol_table, refused>>

Maps(w, symbols) ==
    breakpoint_symbol_mapping' =
        Put(breakpoint_symbol_mapping, worker[w].id,
            breakpoint_symbol_mapping[worker[w].id] \cup symbols)

MapSymbols(w) ==
    /\ At(w, "symbols")
    /\ Maps(w, Recognised[worker[w].expr])
    /\ Continue(w, [worker[w] EXCEPT !.pc = "table"])
    /\ UNCHANGED <<break_points, symbol_table, refused>>

\* A constant that is no integer ends the loop half way.
NotAnInteger(w) ==
    /\ At(w, "symbols")
    /\ \E symbols \in SUBSET Recognised[worker[w].expr] : Maps(w, symbols)
    /\ Refuse(w)
    /\ UNCHANGED <<break_points, symbol_table>>

\* add_expr up to the compilation: variables are added, never taken away.
add_expr(w) ==
    /\ At(w, "table")
    /\ LET id  == worker[w].id
           old == IF id \in DOMAIN symbol_table THEN symbol_table[id]
                  ELSE [vars |-> {}, expr |-> NoExpr]
       IN  symbol_table' =
             Put(symbol_table, id,
                 [old EXCEPT !.vars = @ \cup Recognised[worker[w].expr]])
    /\ Continue(w, [worker[w] EXCEPT !.pc = "compile"])
    /\ UNCHANGED <<break_points, breakpoint_symbol_mapping, refused>>

Compiles(w) == Inputs[worker[w].expr] \subseteq symbol_table[worker[w].id].vars

\* Mutant: the result of parser.compile is not looked at.
CompileUnchecked(w) ==
    /\ At(w, "compile")
    /\ IF Compiles(w)
       THEN symbol_table' = [symbol_table EXCEPT ![worker[w].id].expr = worker[w].expr]
       ELSE UNCHANGED symbol_table
    /\ refused' = refused \ {worker[w].id}
    /\ Finish(w)
    /\ UNCHANGED <<break_points, breakpoint_symbol_mapping>>

\* parser.compile: an unknown name makes it fail and leaves the entry with
\* the condition it had, or with none.
Compile(w) ==
    /\ At(w, "compile")
    /\ \/ /\ Compiles(w)
          /\ symbol_table' = [symbol_table EXCEPT ![worker[w].id].expr = worker[w].expr]
          /\ refused' = refused \ {worker[w].id}
          /\ Finish(w)
       \/ ~Compiles(w) /\ Refuse(w) /\ UNCHANGED symbol_table
    /\ UNCHANGED <<break_points, breakpoint_symbol_mapping>>

remove_break_point(w, id) ==
    /\ At(w, "remove")
    /\ id \in worker[w].ids
    /\ break_points' = break_points \ {id}
    /\ Continue(w, [pc |-> "remove_expr", id |-> id, ids |-> worker[w].ids])
    /\ UNCHANGED <<breakpoint_symbol_mapping, symbol_table, refused>>

NextRemoval(w) ==
    LET rest == worker[w].ids \ {worker[w].id}
    IN  IF rest = {} THEN Finish(w)
        ELSE Continue(w, [pc |-> "remove", ids |-> rest])

\* Mutant: the condition outlives the breakpoint.
RemoveExprForgotten(w) ==
    /\ At(w, "remove_expr")
    /\ refused' = refused \ {worker[w].id}
    /\ NextRemoval(w)
    /\ UNCHANGED tables

\* Mutant: the mapping is erased with the condition.
RemoveExprAndMapping(w) ==
    /\ At(w, "remove_expr")
    /\ symbol_table' = Restrict(symbol_table, DOMAIN symbol_table \ {worker[w].id})
    /\ breakpoint_symbol_mapping' =
          Restrict(breakpoint_symbol_mapping,
                   DOMAIN breakpoint_symbol_mapping \ {worker[w].id})
    /\ refused' = refused \ {worker[w].id}
    /\ NextRemoval(w)
    /\ UNCHANGED break_points

remove_expr(w) ==
    /\ At(w, "remove_expr")
    /\ symbol_table' = Restrict(symbol_table, DOMAIN symbol_table \ {worker[w].id})
    /\ refused' = refused \ {worker[w].id}
    /\ NextRemoval(w)
    /\ UNCHANGED <<break_points, breakpoint_symbol_mapping>>

-----------------------------------------------------------------------------
(* The simulator thread: breakpoint_trace and evaluate_breakpoint_expr.    *)

Sim(next) ==
    /\ sim' = next
    /\ UNCHANGED <<tables, vpi_lock, worker, late, refused>>

\* A handler is at work on the breakpoint.
BeingChanged(id) ==
    \E w \in Workers :
        \/ worker[w].pc \in {"add", "expr", "symbols", "table", "compile", "remove_expr"}
           /\ worker[w].id = id
        \/ worker[w].pc \in {"remove", "remove_expr"} /\ id \in worker[w].ids

\* breakpoint_trace, stepping or at a breakpoint.
BreakpointTrace(id, step_over) ==
    /\ sim = Idle
    /\ step_over \/ id \in break_points
    /\ touched' = BeingChanged(id)
    /\ Sim([pc |-> "has_expr", id |-> id])

has_expr_breakpoint ==
    /\ sim.pc = "has_expr"
    /\ Sim([pc |-> IF sim.id \in DOMAIN symbol_table THEN "mapping" ELSE "stop",
            id |-> sim.id])
    /\ UNCHANGED touched

\* breakpoint_symbol_mapping.at(breakpoint_id), copied
CopySymbols ==
    /\ sim.pc = "mapping"
    /\ IF sim.id \in DOMAIN breakpoint_symbol_mapping
       THEN Sim([pc |-> "values", id |-> sim.id,
                 symbols |-> breakpoint_symbol_mapping[sim.id]])
       ELSE Sim([pc |-> "threw", id |-> sim.id, symbols |-> {}])
    /\ UNCHANGED touched

\* get_value and std::stoi of every symbol, in no given order: "by default
\* break" at a signal with no handle, an exception at a time beyond an int.
GetValues ==
    /\ sim.pc = "values"
    /\ \/ /\ sim.symbols \ {Time} # {}
          /\ Sim([pc |-> "stop", id |-> sim.id])
       \/ /\ late /\ Time \in sim.symbols
          /\ Sim([sim EXCEPT !.pc = "threw"])
       \/ /\ ~(late /\ Time \in sim.symbols)
          /\ Sim([sim EXCEPT !.pc = "evaluate"])
    /\ UNCHANGED touched

\* evaluate: FALSE when the entry has gone, var_mapping.at throws for a symbol
\* the entry does not have, an entry with no expression yields a NaN, whose
\* conversion to int is undefined.
Evaluate(value) ==
    /\ sim.pc = "evaluate"
    /\ \/ /\ sim.id \notin DOMAIN symbol_table
          /\ Sim(Idle)
          /\ touched' = FALSE
       \/ /\ sim.id \in DOMAIN symbol_table
          /\ ~(sim.symbols \subseteq symbol_table[sim.id].vars)
          /\ Sim([sim EXCEPT !.pc = "threw"])
          /\ UNCHANGED touched
       \/ /\ sim.id \in DOMAIN symbol_table
          /\ sim.symbols \subseteq symbol_table[sim.id].vars
          /\ Sim(IF value THEN [pc |-> "stop", id |-> sim.id] ELSE Idle)
          /\ touched' = (value /\ touched)

\* The stop itself is the business of PauseControl.
Resumed ==
    /\ sim.pc = "stop"
    /\ Sim(Idle)
    /\ touched' = FALSE

\* The simulation goes on between two callbacks.
TimePasses ==
    /\ sim = Idle
    /\ late' = TRUE
    /\ UNCHANGED <<tables, vpi_lock, worker, sim, refused, touched>>

-----------------------------------------------------------------------------

Handler(w) ==
    \/ \E id \in Ids, expr \in Exprs \cup {NoExpr} : PostBreakpoint(w, id, expr)
    \/ \E ids \in SUBSET Ids \ {{}} : DeleteBreakpoints(w, ids)
    \/ add_break_point(w)
    \/ NotInDatabase(w) \/ ClearMapping(w) \/ MapSymbols(w) \/ NotAnInteger(w)
    \/ add_expr(w) \/ Compile(w)
    \/ \E id \in Ids : remove_break_point(w, id)
    \/ remove_expr(w)

Simulator ==
    \/ \E id \in Ids, step_over \in BOOLEAN : BreakpointTrace(id, step_over)
    \/ has_expr_breakpoint
    \/ CopySymbols
    \/ GetValues
    \/ \E value \in BOOLEAN : Evaluate(value)
    \/ Resumed
    \/ TimePasses

\* An exception in the simulator's callback ends the program.
Next == sim.pc # "threw" /\ (Simulator \/ \E w \in Workers : Handler(w))

Spec == Init /\ [][Next]_vars

-----------------------------------------------------------------------------
(* Properties.                                                             *)

\* "we assume we already check if the system contains the breakpoint": when
\* the simulator has seen that there is a condition, its symbols are there to
\* be looked up, though a handler may remove the condition in between.
SymbolsAreMapped ==
    sim.pc = "mapping" => sim.id \in DOMAIN breakpoint_symbol_mapping

\* Between two handlers no condition is left of a breakpoint that is gone: in
\* step-over mode it would hide a statement without a breakpoint.
NoOrphanCondition == vpi_lock = Free => DOMAIN symbol_table \subseteq break_points

\* Between two handlers, a condition that was accepted is read with exactly
\* the signals recognised in it, whatever conditions were sent before it.
AcceptedReadsItsSymbols ==
    vpi_lock = Free =>
        \A id \in DOMAIN symbol_table \ refused :
            LET entry == symbol_table[id]
            IN  /\ entry.expr \in Exprs
                /\ breakpoint_symbol_mapping[id] = Recognised[entry.expr]
                /\ Recognised[entry.expr] \subseteq entry.vars

\* Evaluating a condition ends the simulation by an exception only after a
\* condition sent for the same breakpoint was refused, while one is sent, or
\* when it reads the time and that has outgrown an int.
ThrowsOnlyWhenChanged ==
    sim.pc = "threw" =>
        touched \/ sim.id \in refused \/ (late /\ Time \in sim.symbols)

\* "retrieve symbol values": an accepted condition is evaluated with the values
\* the signals it reads have now, not with those of an earlier evaluation.
AcceptedReadsItsInputs ==
    vpi_lock = Free =>
        \A id \in DOMAIN symbol_table \ refused :
            Inputs[symbol_table[id].expr] \subseteq breakpoint_symbol_mapping[id]
=============================================================================
