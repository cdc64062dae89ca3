------------------------------ MODULE DebugDb -------------------------------
(***************************************************************************)
(* The debug database: the selections of src/db.cc over its tables, and    *)
(* what src/control.cc assembles from them for the debugger.               *)
(*                                                                         *)
(* A database is a record of its tables, each a set of rows; instance_set  *)
(* is a sequence, since the first of its rows is chosen.  The order of the *)
(* other results is open: what depends on it is a set of outcomes.  env is *)
(* what else an answer depends on: the top name, the two paths of the last *)
(* /connect, the map of handles, the simulator's signals with their        *)
(* values, and its time.                                                   *)
(***************************************************************************)
EXTENDS Util, FiniteSets

NoInstance == -1

\* The schema of docs/README.md: columns of ids, of unsigned integers of the
\* build's width, of texts.
Tables(modulus) ==
    LET Id == Nat
        UInt == 0..modulus - 1
    IN [breakpoint : SUBSET [id : Id, filename : String, line_num : UInt, column_num : UInt],
        instance : SUBSET [id : Id, handle_name : String],
        instance_set : Seq([instance_id : Id, breakpoint_id : Id]),
        variable : SUBSET [id : Id, handle : Id, value : String, is_var : BOOLEAN],
        generator_variable : SUBSET [variable_id : Id, name : String],
        context : SUBSET [variable_id : Id, breakpoint_id : Id, name : String],
        hierarchy : SUBSET [parent_handle : Id, child : String],
        connection : SUBSET [handle_from : Id, var_from : String, handle_to : Id, var_to : String],
        top_name : String]

\* Of the three tables that it gives a primary key.
PrimaryKey(table) == \A r, s \in table : r.id = s.id => r = s

IsDatabase(db, modulus) ==
    /\ db \in Tables(modulus)
    /\ PrimaryKey(db.breakpoint)
    /\ PrimaryKey(db.instance)
    /\ PrimaryKey(db.variable)

\* "{0}.{1}"
Dot(a, b) == a \o <<".">> \o b

-----------------------------------------------------------------------------
(* Selections.                                                             *)

\* Column 0 is any column.
At(db, filename, line_num, column) ==
    {bp \in db.breakpoint :
        /\ bp.filename = filename
        /\ bp.line_num = line_num
        /\ column > 0 => bp.column_num = column}

get_breakpoint_id(db, filename, line_num, column) ==
    {bp.id : bp \in At(db, filename, line_num, column)}

\* Mutant: an instance for a breakpoint is enough.
BreakpointsOfOne(db, filename, line_num, column) ==
    LET rows ==
            {row \in ToSet(db.instance_set) \X At(db, filename, line_num, column) :
                /\ row[1].breakpoint_id = row[2].id
                /\ \A e \in ToSet(db.instance_set) :
                      e.breakpoint_id = row[2].id => row[1].instance_id <= e.instance_id}
    IN {[instance_id |-> row[1].instance_id, breakpoint_id |-> row[2].id,
         column |-> row[2].column_num] : row \in rows}

get_breakpoints(db, filename, line_num, column) ==
    LET rows ==
            {row \in ToSet(db.instance_set) \X At(db, filename, line_num, column) :
                row[1].breakpoint_id = row[2].id}
    IN {[instance_id |-> row[1].instance_id, breakpoint_id |-> row[2].id,
         column |-> row[2].column_num] : row \in rows}

get_breakpoint_column(db, id) ==
    LET rows == {bp \in db.breakpoint : bp.id = id}
    IN IF rows = {} THEN 0 ELSE (CHOOSE bp \in rows : TRUE).column_num

get_all_breakpoints(db, filename) ==
    {bp.id : bp \in {b \in db.breakpoint : b.filename = filename}}

get_all_files(db) == {bp.filename : bp \in db.breakpoint}

\* id is a primary key: no row, or one.
get_breakpoint_info(db, id) ==
    {[filename |-> bp.filename, line_num |-> bp.line_num] :
        bp \in {b \in db.breakpoint : b.id = id}}

Variable(name, v, inst) ==
    [name |-> name, value |-> v.value, handle |-> inst.handle_name, is_var |-> v.is_var]

\* Mutant: the instance is not joined.
LinkedAnyInstance(db, row, instance_id) ==
    {Variable(row.name, vi[1], vi[2]) :
        vi \in {x \in db.variable \X db.instance :
                  x[1].id = row.variable_id /\ x[1].handle = instance_id}}

\* The variable and instance that a row of context or of generator_variable
\* leads to, for one instance.
Linked(db, row, instance_id) ==
    {Variable(row.name, vi[1], vi[2]) :
        vi \in {x \in db.variable \X db.instance :
                  /\ x[1].id = row.variable_id
                  /\ x[1].handle = instance_id
                  /\ x[2].id = instance_id}}

get_variable_mapping(db, instance_id, breakpoint_id) ==
    IF get_breakpoint_info(db, breakpoint_id) = {} THEN {}
    ELSE UNION {Linked(db, row, instance_id) : row \in db.generator_variable}

get_context_variable(db, instance_id, id) ==
    UNION {Linked(db, row, instance_id) :
              row \in {r \in db.context : r.breakpoint_id = id}}

\* Mutant: the instance named is the child's, not the parent's.
HierarchyOfChild(db, handle_name) ==
    {[parent_handle |-> handle_name, child |-> row.child] :
        row \in {r \in db.hierarchy :
                   \E inst \in db.instance :
                      inst.handle_name = handle_name /\ inst.id # r.parent_handle}}

\* An empty name is that of the design's top, from the metadata.
get_hierarchy(db, handle_name) ==
    LET parent == IF handle_name = <<>> THEN db.top_name ELSE handle_name
    IN {[parent_handle |-> parent, child |-> row.child] :
           row \in {r \in db.hierarchy :
                      \E inst \in db.instance :
                         inst.handle_name = parent /\ inst.id = r.parent_handle}}

\* A connection with its two instances.
Connections(db) ==
    {[handle_from |-> x[2].handle_name, var_from |-> x[1].var_from,
      handle_to |-> x[3].handle_name, var_to |-> x[1].var_to] :
        x \in {y \in db.connection \X db.instance \X db.instance :
                 y[2].id = y[1].handle_from /\ y[3].id = y[1].handle_to}}

get_connection_to(db, handle_name) ==
    {conn \in Connections(db) : conn.handle_to = handle_name}

get_connection_from(db, handle_name) ==
    {conn \in Connections(db) : conn.handle_from = handle_name}

\* The first row of the instance set.
get_instance_id(db, breakpoint_id) ==
    LET rows == {i \in DOMAIN db.instance_set : db.instance_set[i].breakpoint_id = breakpoint_id}
        first == CHOOSE i \in rows : \A j \in rows : i <= j
    IN IF rows = {} THEN NoInstance ELSE db.instance_set[first].instance_id

get_instance_name(db, instance_id) ==
    LET rows == {inst \in db.instance : inst.id = instance_id}
    IN IF rows = {} THEN <<>> ELSE (CHOOSE inst \in rows : TRUE).handle_name

-----------------------------------------------------------------------------
(* Answers.                                                                *)

Time == <<"t", "i", "m", "e">>

TimeNames == {Time, <<"$">> \o Time}

\* What callers make of a value that is missing.
NoValue == <<"E", "R", "R", "O", "R">>

\* A name the simulator does not know.
NoHandle == <<>>

vpi_handle_by_name(env, name) == IF name \in DOMAIN env.signals THEN name ELSE NoHandle

\* Mutant: the map is searched for the name as it was written.
MapKeyShort(env, name) == name

\* The name under which vpi_handle_map keeps a handle.
MapKey(env, name) == get_handle_name(env.top_name, name)

\* The map after the handles of some names were looked up, those that do not
\* exist included.
Mapped(env, names) ==
    LET new == names \ TimeNames
        found(key) ==
            LET n == CHOOSE x \in new : MapKey(env, x) = key
            IN vpi_handle_by_name(env, get_handle_name(env.top_name, n))
    IN [key \in DOMAIN env.vpi_handle_map \cup {MapKey(env, n) : n \in new} |->
           IF key \in DOMAIN env.vpi_handle_map THEN env.vpi_handle_map[key] ELSE found(key)]

get_value(env, name) ==
    IF name \in TimeNames THEN env.time
    ELSE LET vh == Mapped(env, {name})[MapKey(env, name)]
         IN IF vh = NoHandle THEN NoValue ELSE env.signals[vh]

\* From the user's folder to the server's, and back.
ToServer(env, filename) ==
    IF env.src_path # <<>> /\ env.dst_path # <<>>
    THEN replace(filename, env.src_path, env.dst_path) ELSE filename

ToUser(env, filename) ==
    IF env.src_path # <<>> /\ env.dst_path # <<>>
    THEN replace(filename, env.dst_path, env.src_path) ELSE filename

\* The frame of one instance at one breakpoint.  A generator variable that is
\* a signal is shown under the signal's name.
get_breakpoint_value(db, env, instance_id, id) ==
    LET shown(name, v) ==
            [name |-> name,
             value |-> IF v.is_var THEN get_value(env, Dot(v.handle, v.value)) ELSE v.value]
        generator(v) ==
            shown(IF v.is_var THEN process_var_front_name(v.value) ELSE v.name, v)
    IN [id |-> id,
        instance_id |-> instance_id,
        instance_name |-> get_instance_name(db, instance_id),
        generator |-> {generator(v) : v \in get_variable_mapping(db, instance_id, id)},
        local |-> {shown(v.name, v) : v \in get_context_variable(db, instance_id, id)},
        place |-> {[filename |-> ToUser(env, info.filename), line_num |-> info.line_num] :
                      info \in get_breakpoint_info(db, id)}]

\* The names get_value is called with on the way.
FrameNames(db, instance_id, id) ==
    {Dot(v.handle, v.value) :
        v \in {w \in get_variable_mapping(db, instance_id, id)
                      \cup get_context_variable(db, instance_id, id) : w.is_var}}

\* GET /context
get_context_value(db, env, filename, line_num) ==
    {get_breakpoint_value(db, env, bp.instance_id, bp.breakpoint_id) :
        bp \in get_breakpoints(db, ToServer(env, filename), line_num, 0)}

\* GET /breakpoint: the path is taken as it comes.
get_breakpoint(db, filename, line_num) ==
    {[id |-> id, col |-> get_breakpoint_column(db, id)] :
        id \in get_breakpoint_id(db, filename, line_num, 0)}

\* Mutant: the path is taken as it comes.
FilenameUntranslated(db, env, filename) == get_all_breakpoints(db, filename)

\* DELETE /breakpoint/file
get_breakpoint_filename(db, env, filename) ==
    get_all_breakpoints(db, ToServer(env, filename))

\* The connections that leave the modules of the scope.  Those that enter them
\* are selected too, and not used.
GraphConnections(db, scope) ==
    UNION {get_connection_from(db, Dot(h.parent_handle, h.child)) : h \in get_hierarchy(db, scope)}

FromName(conn) == Dot(conn.handle_from, conn.var_from)

ToName(conn) == Dot(conn.handle_to, conn.var_to)

Ends(conn) == {FromName(conn), ToName(conn)}

\* Mutant: the two ends are looked up one by one.
GraphValuesSplit(db, env, scope) ==
    LET ends == UNION {Ends(conn) : conn \in GraphConnections(db, scope)}
    IN {[name \in {n \in ends : get_value(env, n) # NoValue} |-> get_value(env, name)]}

\* The connections whose source has a value.
Shown(db, env, scope) ==
    {conn \in GraphConnections(db, scope) : get_value(env, FromName(conn)) # NoValue}

\* "from and to are the same": the value of the one is sent for both.
\* std::map::emplace keeps the first value of a name, by the order of the rows.
GraphInOrder(env, shown, rank) ==
    LET first(name) ==
            CHOOSE conn \in shown :
                /\ name \in Ends(conn)
                /\ \A other \in shown : name \in Ends(other) => rank[conn] <= rank[other]
    IN [name \in UNION {Ends(conn) : conn \in shown} |-> get_value(env, FromName(first(name)))]

\* One graph for each order of the rows.
get_graph_value(db, env, scope) ==
    LET shown == Shown(db, env, scope)
    IN {GraphInOrder(env, shown, rank) : rank \in Injection(shown, 1..Cardinality(shown))}

-----------------------------------------------------------------------------
(* add_breakpoint_expr: where a condition reads its symbols.               *)

Symbol(name, handle) == [name |-> name, handle |-> handle]

\* The variables that a condition uses are those of the first instance.
SelfVariables(db, id, expr, word) ==
    {v \in get_variable_mapping(db, get_instance_id(db, id), id) :
        v.name # <<>> /\ is_expr_symbol(expr, v.name, word)}

ContextVariables(db, id, expr, word) ==
    {v \in get_context_variable(db, get_instance_id(db, id), id) :
        is_expr_symbol(expr, v.name, word)}

\* Mutant: the instance is left out, as it is for context variables.
SelfSymbolsAlone(db, top_name, id, expr, word) ==
    {Symbol(v.name, get_handle_name(top_name, v.value)) :
        v \in {w \in SelfVariables(db, id, expr, word) : w.is_var}}

\* Mutant: the name is left as it is.
SelfSymbolsShort(db, top_name, id, expr, word) ==
    {Symbol(v.name, Dot(v.handle, v.value)) :
        v \in {w \in SelfVariables(db, id, expr, word) : w.is_var}}

SelfSymbols(db, top_name, id, expr, word) ==
    {Symbol(v.name, get_handle_name(top_name, Dot(v.handle, v.value))) :
        v \in {w \in SelfVariables(db, id, expr, word) : w.is_var}}

\* The symbols of more that emplace adds to some: those of another name.
NewSymbols(some, more) == {s \in more : \A t \in some : t.name # s.name}

\* The handle of a context variable is its value alone.
ContextSymbols(db, top_name, id, expr, word) ==
    NewSymbols(SelfSymbols(db, top_name, id, expr, word),
               {Symbol(v.name, get_handle_name(top_name, v.value)) :
                   v \in {w \in ContextVariables(db, id, expr, word) : w.is_var}})

\* The time is "time_" next to a context variable "time".
TimeSymbols(db, top_name, id, expr, word) ==
    LET signals == SelfSymbols(db, top_name, id, expr, word)
                   \cup ContextSymbols(db, top_name, id, expr, word)
        time == IF \E v \in ContextVariables(db, id, expr, word) : v.name = Time
                THEN Append(Time, "_") ELSE Time
    IN IF is_expr_symbol(expr, time, word)
       THEN NewSymbols(signals, {Symbol(time, <<"$">> \o Time)}) ELSE {}

SymbolHandles(db, top_name, id, expr, word) ==
    SelfSymbols(db, top_name, id, expr, word)
    \cup ContextSymbols(db, top_name, id, expr, word)
    \cup TimeSymbols(db, top_name, id, expr, word)

\* Constants are not mapped, and one that is no integer ends the loop.
Refuses(variables, modulus) == \E v \in variables : ~v.is_var /\ stoi_throws(v.value, modulus)

\* The mapping that is left: emplace keeps one handle of each name, by the order
\* of the rows, and a loop that ends early has mapped some of its symbols.
SymbolMappings(db, top_name, id, expr, word, modulus) ==
    LET self == SelfSymbols(db, top_name, id, expr, word)
        all == SymbolHandles(db, top_name, id, expr, word)
        done == CASE Refuses(SelfVariables(db, id, expr, word), modulus) -> {}
                  [] Refuses(ContextVariables(db, id, expr, word), modulus) -> self
                  [] OTHER -> all
        tried == CASE Refuses(SelfVariables(db, id, expr, word), modulus) -> self
                   [] Refuses(ContextVariables(db, id, expr, word), modulus) ->
                         self \cup ContextSymbols(db, top_name, id, expr, word)
                   [] OTHER -> all
    IN {mapping \in SUBSET tried :
           /\ \A s, t \in mapping : s.name = t.name => s = t
           /\ \A s \in done : \E t \in mapping : t.name = s.name}
=============================================================================
