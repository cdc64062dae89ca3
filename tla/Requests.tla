------------------------------ MODULE Requests ------------------------------
(***************************************************************************)
(* What the debugger is told: the requests of src/control.cc that are      *)
(* answered from the database and the simulator, and what the simulator    *)
(* posts at its stops.                                                     *)
(*                                                                         *)
(* A handler is one step here; how handlers wait for each other, for the   *)
(* database, and for a mutex left locked is the business of Session.       *)
(* http_client is set whenever a database is loaded, which holds between   *)
(* two /connect requests that do not overlap.                              *)
(***************************************************************************)
EXTENDS DebugDb

CONSTANTS
    Files,        \* path on the server -> the database in it, or Broken
    Broken,       \* a file that is no database
    NoDb,
    Signals,      \* full name -> the value the simulator has for it
    Now,          \* the simulation time
    Tops,         \* what clients send for the top name
    InitTop,      \* "TOP."
    Databases,    \* paths clients send for the database
    Folders,      \* pairs src_path, dst_path that clients send
    Texts,        \* what they write behind /breakpoint/ and /context/
    FileNames,    \* behind /breakpoint/file/
    Names,        \* behind /value/ and /connection/
    Calls,        \* the pairs breakpoint_trace is called with
    Scopes,       \* behind /hierarchy/
    Posted,       \* the conditions posted: pairs of id and text
    MaxServed,    \* bound on requests and stops
    Numerals,     \* texts that spell numbers
    Word,         \* the characters of \w
    Modulus       \* uint32_t holds 0 to Modulus - 1

ASSUME RequestsAssumption ==
    /\ Broken # NoDb
    /\ NoDb \notin Range(Files)
    /\ \A file \in DOMAIN Files : Files[file] = Broken \/ IsDatabase(Files[file], Modulus)
    /\ Modulus \in Nat \ {0}
    /\ MaxServed \in Nat
    /\ DOMAIN Signals \subseteq String \ {<<>>}
    /\ Folders \subseteq String \X String
    /\ InitTop \in String /\ InitTop # <<>> /\ Last(InitTop) = "."
    /\ Tops \subseteq String
    /\ Names \subseteq String
    /\ Posted \subseteq Nat \X String
    /\ Numerals \subseteq Seq(Digit) \ {<<>>}

VARIABLES
    db_,                         \* the database loaded, or NoDb
    src_path, dst_path,          \* the user's folder and the server's
    top_name_,
    current_scope,               \* of the last /hierarchy
    has_paused_on_clock,
    vpi_handle_map,              \* full name -> handle
    breakpoint_symbol_mapping,   \* id -> the symbols of its condition
    answer,                      \* the last answer or notification
    condition,                   \* history: id -> its condition, and the top
                                 \* name it was set under
    asked,                       \* history: the scopes asked for in this database
    served                       \* bound: the requests and stops so far

paths == <<src_path, dst_path>>
conditions == <<breakpoint_symbol_mapping, condition>>

vars == <<db_, paths, top_name_, current_scope, has_paused_on_clock, vpi_handle_map,
          conditions, answer, asked, served>>

Env ==
    [top_name |-> top_name_, src_path |-> src_path, dst_path |-> dst_path,
     vpi_handle_map |-> vpi_handle_map, signals |-> Signals, time |-> Now]

Answer(request, status, content) ==
    [request |-> request, status |-> status, content |-> content]

TypeOK ==
    /\ db_ \in (Range(Files) \ {Broken}) \cup {NoDb}
    /\ paths \in Folders \cup {<<<<>>, <<>>>>}
    /\ top_name_ \in {InitTop} \cup {Append(t, ".") : t \in Tops}
    /\ has_paused_on_clock \in BOOLEAN
    /\ Range(vpi_handle_map) \subseteq DOMAIN Signals \cup {NoHandle}
    /\ DOMAIN condition = DOMAIN breakpoint_symbol_mapping
    /\ answer.status \in {200, 401, 403, 500}
    /\ served \in 0..MaxServed

Init ==
    /\ db_ = NoDb
    /\ src_path = <<>>
    /\ dst_path = <<>>
    /\ top_name_ = InitTop
    /\ current_scope = <<>>
    /\ has_paused_on_clock = FALSE
    /\ vpi_handle_map = <<>>
    /\ breakpoint_symbol_mapping = <<>>
    /\ condition = <<>>
    /\ answer = Answer("none", 200, {})
    /\ asked = {}
    /\ served = 0

-----------------------------------------------------------------------------
(* Requests that only read.                                                *)

\* get_value of the names, which leaves their handles in the map.
LooksUp(names) == vpi_handle_map' = Mapped(Env, names)

Keep == UNCHANGED <<db_, paths, top_name_, current_scope, has_paused_on_clock, conditions, asked>>

\* What is answered to GET /breakpoint.
AtBreakpoint(text) ==
    LET at == get_fn_ln(text, Modulus)
    IN CASE at = NoLocation -> Answer("breakpoint", 401, {})
         [] at = Thrown -> Answer("breakpoint", 500, {})
         [] OTHER -> Answer("breakpoint", 200, get_breakpoint(db_, at.filename, at.line_num))

\* Without a database the handler waits, once it has a location to look for.
GetBreakpoint(text) ==
    /\ db_ # NoDb \/ get_fn_ln(text, Modulus) \in {NoLocation, Thrown}
    /\ answer' = AtBreakpoint(text)
    /\ Keep /\ UNCHANGED vpi_handle_map

\* DELETE /breakpoint: its route has no group, and an empty text no location.
DeleteBreakpointAt ==
    /\ get_fn_ln(<<>>, Modulus) = NoLocation
    /\ answer' = Answer("delete", 401, {})
    /\ Keep /\ UNCHANGED vpi_handle_map

\* DELETE /breakpoint/file: the ids it removes.
InFile(filename) ==
    IF filename # <<>> /\ db_ # NoDb
    THEN Answer("delete file", 200, get_breakpoint_filename(db_, Env, filename))
    ELSE Answer("delete file", 401, {})

DeleteFile(filename) ==
    /\ answer' = InFile(filename)
    /\ Keep /\ UNCHANGED vpi_handle_map

GetFiles ==
    /\ answer' = IF db_ # NoDb THEN Answer("files", 200, get_all_files(db_))
                 ELSE Answer("files", 401, {})
    /\ Keep /\ UNCHANGED vpi_handle_map

GetStatus ==
    /\ answer' = Answer("status", 200, db_ # NoDb)
    /\ Keep /\ UNCHANGED vpi_handle_map

\* GET /context: two tokens, or nothing.  When std::stoi throws the server
\* answers for the handler.
InContext(text) ==
    LET tokens == get_tokens(text, {":"})
    IN CASE Len(tokens) # 2 -> Answer("context", 401, {})
         [] Len(tokens) = 2 /\ stoi_throws(tokens[2], Modulus) -> Answer("context", 500, {})
         [] OTHER ->
              Answer("context", 200,
                     get_context_value(db_, Env, tokens[1], stoi(tokens[2]) % Modulus))

GetContext(text) ==
    LET tokens == get_tokens(text, {":"})
        frames == InContext(text)
    IN /\ db_ = NoDb /\ Len(tokens) = 2 => stoi_throws(tokens[2], Modulus)
       /\ answer' = frames
       /\ LooksUp(UNION {FrameNames(db_, f.instance_id, f.id) : f \in frames.content})
       /\ Keep

\* The route takes words, dots and dollars.
Routed(name) == name # <<>> /\ ToSet(name) \subseteq Word \cup {".", "$"}

ValueAnswer(name) ==
    LET value == get_value(Env, name)
    IN Answer("value", IF value = NoValue THEN 401 ELSE 200, {<<name, value>>})

GetValue(name) ==
    /\ Routed(name)
    /\ answer' = ValueAnswer(name)
    /\ LooksUp({name})
    /\ Keep

\* GET /values: the names in its body.
GetValues(names) ==
    /\ answer' = Answer("value", 200, {<<name, get_value(Env, name)>> : name \in names})
    /\ LooksUp(names)
    /\ Keep

GetTime ==
    /\ answer' = Answer("time", 200, Now)
    /\ Keep /\ UNCHANGED vpi_handle_map

GetConnection(name, is_from) ==
    /\ Routed(name)
    /\ answer' = IF db_ = NoDb THEN Answer("connection", 403, {})
                 ELSE Answer("connection", 200,
                             IF is_from THEN get_connection_from(db_, name)
                             ELSE get_connection_to(db_, name))
    /\ Keep /\ UNCHANGED vpi_handle_map

-----------------------------------------------------------------------------
(* Requests that change something.                                         *)

Modules(db, scope) == {Dot(h.parent_handle, h.child) : h \in get_hierarchy(db, scope)}

GraphNames(scope) == {FromName(conn) : conn \in GraphConnections(db_, scope)}

\* POST /hierarchy: "$" is the top.  Values are sent once the clock has
\* stopped the simulation.
Hierarchy(name) ==
    LET scope == IF name = <<"$">> THEN <<>> ELSE name
        graphs == IF has_paused_on_clock THEN get_graph_value(db_, Env, scope) ELSE {<<>>}
    IN /\ Routed(name)
       /\ db_ # NoDb
       /\ current_scope' = scope
       /\ \E graph \in graphs :
             answer' = Answer("hierarchy", 200, [name |-> Modules(db_, scope), value |-> graph])
       /\ LooksUp(IF has_paused_on_clock THEN GraphNames(scope) ELSE {})
       /\ asked' = asked \cup {scope}
       /\ UNCHANGED <<db_, paths, top_name_, has_paused_on_clock, conditions>>

HierarchyWithoutDb(name) ==
    /\ Routed(name)
    /\ db_ = NoDb
    /\ answer' = Answer("hierarchy", 403, {})
    /\ Keep /\ UNCHANGED vpi_handle_map

\* POST /top_name.  The map of handles and the conditions keep full names.
SetTopName(value) ==
    /\ top_name_' = Append(value, ".")
    /\ answer' = Answer("top", 200, {})
    /\ UNCHANGED <<db_, paths, current_scope, has_paused_on_clock, vpi_handle_map, conditions, asked>>

\* Mutant: nothing is known of what went wrong while loading.
LoadUnchecked(file) == Files[file]

Load(file) == IF Files[file] = Broken THEN NoDb ELSE Files[file]

\* POST /connect.  The paths stay even when it is refused: it lacks a field,
\* names no file, or one that cannot be loaded, which drops the database of
\* before.
Connect(database, folders) ==
    LET src == folders[1]
        dst == folders[2]
        file == IF src # <<>> /\ dst # <<>> THEN replace(database, src, dst) ELSE database
        loaded == IF file \in DOMAIN Files THEN Load(file) ELSE db_
        fails == file \notin DOMAIN Files \/ loaded = NoDb
    IN /\ src_path' = src
       /\ dst_path' = dst
       /\ db_' = loaded
       /\ asked' = IF loaded = db_ THEN asked ELSE {}
       /\ answer' = Answer("connect", IF fails THEN 401 ELSE 200, {})
       /\ UNCHANGED <<top_name_, current_scope, has_paused_on_clock, vpi_handle_map, conditions>>

\* POST /breakpoint with a condition; the breakpoint itself is in Conditions.
\* A condition that is refused is answered in the same way.
PostCondition(id, expr) ==
    LET mapped == db_ # NoDb /\ get_instance_id(db_, id) # NoInstance
        put(f, v) == [i \in DOMAIN f \cup {id} |-> IF i = id THEN v ELSE f[i]]
    IN /\ \/ /\ ~mapped
             /\ UNCHANGED conditions
          \/ /\ mapped
             /\ \E mapping \in SymbolMappings(db_, top_name_, id, expr, Word, Modulus) :
                   breakpoint_symbol_mapping' = put(breakpoint_symbol_mapping, mapping)
             /\ condition' = put(condition, [expr |-> expr, top |-> top_name_, db |-> db_])
       /\ answer' = Answer("condition", 200, {})
       /\ UNCHANGED <<db_, paths, top_name_, current_scope, has_paused_on_clock, vpi_handle_map, asked>>

-----------------------------------------------------------------------------
(* The simulator.                                                          *)

SymbolsAt(id) ==
    IF id \in DOMAIN breakpoint_symbol_mapping THEN breakpoint_symbol_mapping[id] ELSE {}

\* breakpoint_trace or exception with a debugger to tell.  When there is a
\* condition, which Conditions says, its symbols are read first, up to one that
\* has no value.
Stop(instance_id, id) ==
    /\ db_ # NoDb
    /\ answer' = Answer("stop", 200, get_breakpoint_value(db_, Env, instance_id, id))
    /\ \E symbols \in SUBSET SymbolsAt(id) :
          LooksUp({s.handle : s \in symbols} \cup FrameNames(db_, instance_id, id))
    /\ Keep

\* breakpoint_clock with /clock/on.
ClockStop ==
    /\ has_paused_on_clock' = TRUE
    /\ IF db_ = NoDb THEN UNCHANGED <<answer, vpi_handle_map>>
       ELSE /\ \E graph \in get_graph_value(db_, Env, current_scope) :
                  answer' = Answer("clock", 200, graph)
            /\ LooksUp(GraphNames(current_scope))
    /\ UNCHANGED <<db_, paths, top_name_, current_scope, conditions, asked>>

-----------------------------------------------------------------------------

Reads ==
    \/ \E text \in Texts : GetBreakpoint(text) \/ GetContext(text)
    \/ \E filename \in FileNames : DeleteFile(filename)
    \/ DeleteBreakpointAt \/ GetFiles \/ GetStatus \/ GetTime
    \/ \E name \in Names : GetValue(name)
    \/ \E name \in Names, is_from \in BOOLEAN : GetConnection(name, is_from)
    \/ GetValues(Names)

Changes ==
    \/ \E name \in Scopes : Hierarchy(name) \/ HierarchyWithoutDb(name)
    \/ \E value \in Tops : SetTopName(value)
    \/ \E database \in Databases, folders \in Folders \cup {paths} : Connect(database, folders)
    \/ \E post \in Posted : PostCondition(post[1], post[2])

Stops == ClockStop \/ \E call \in Calls : Stop(call[1], call[2])

Next ==
    /\ served < MaxServed
    /\ served' = served + 1
    /\ Reads \/ Changes \/ Stops

Spec == Init /\ [][Next]_vars

-----------------------------------------------------------------------------
(* Properties.                                                             *)

\* The simulator has just stopped in an instance the database lists.
Stopped ==
    /\ answer.request = "stop"
    /\ \E entry \in ToSet(db_.instance_set) :
          entry.instance_id = answer.content.instance_id /\ entry.breakpoint_id = answer.content.id

InFolder(filename, path) ==
    LET rest == From(filename, Len(Slashed(path)) + 1)
    IN IsPrefix(Slashed(path), filename) /\ (rest # <<>> => rest[1] # "/")

\* The server's file is in the folder that is translated, or has neither
\* folder's name in its own.
Translatable(filename) ==
    \/ src_path = <<>> \/ dst_path = <<>>
    \/ InFolder(filename, dst_path)
    \/ find(filename, dst_path) = 0 /\ find(filename, src_path) = 0

\* The debugger that asks for the context of the place a stop was reported at,
\* by the file and line it was shown, is given the frame of that stop among
\* those of all the instances that share the breakpoint.  The line has to be one
\* that std::stoi can read, the file one that translation leads back to.
ContextShowsTheStop ==
    Stopped =>
        \A info \in get_breakpoint_info(db_, answer.content.id), place \in answer.content.place :
            /\ Translatable(info.filename)
            /\ place.filename # <<>> /\ ":" \notin ToSet(place.filename)
            /\ place.line_num < Modulus \div 2
            => \A line \in {text \in Numerals : Number(text) = place.line_num} :
                  answer.content \in InContext(place.filename \o <<":">> \o line).content

\* The file shown with a stop is the server's file in the user's folder: the
\* rest of its path follows after one slash, however the two folders end.
ShownInTheUsersFolder ==
    answer.request = "stop" /\ src_path # <<>> /\ dst_path # <<>> =>
        \A info \in get_breakpoint_info(db_, answer.content.id) :
            InFolder(info.filename, dst_path) =>
                \A place \in answer.content.place :
                    place.filename =
                        Slashed(src_path) \o From(info.filename, Len(Slashed(dst_path)) + 1)

\* Without a translation of paths, GET /breakpoint with the file, line and
\* column of a stop finds its breakpoint, colons in the file's name included.
\* The line 0xFFFFFFFF stands for none.
BreakpointIsFound ==
    Stopped /\ (src_path = <<>> \/ dst_path = <<>>) =>
        \A place \in answer.content.place, line, column \in Numerals :
            /\ WellParted(place.filename)
            /\ Number(line) = place.line_num /\ place.line_num # Modulus - 1
            /\ Number(column) = get_breakpoint_column(db_, answer.content.id)
            => LET text == place.filename \o <<":">> \o line \o <<":">> \o column
               IN \E bp \in AtBreakpoint(text).content : bp.id = answer.content.id

\* Deleting the breakpoints of the file that a stop was shown in removes the
\* breakpoint of that stop.
DeletedWhereShown ==
    Stopped =>
        \A info \in get_breakpoint_info(db_, answer.content.id), place \in answer.content.place :
            place.filename # <<>> /\ Translatable(info.filename) =>
                answer.content.id \in InFile(place.filename).content

\* Every value in a frame is a constant of the database, or that of a signal of
\* the frame's own instance, though other instances run the same statement and
\* share its rows.  The top name must not occur in the names of the instance.
FrameIsOfItsInstance ==
    answer.request = "stop" =>
        LET name == answer.content.instance_name
            rows == {v \in db_.variable : v.handle = answer.content.instance_id}
            own == Dot(get_handle_name(top_name_, name), <<>>)
        IN (\A v \in rows : find(Dot(name, v.value), top_name_) = 0) =>
              \A x \in answer.content.local \cup answer.content.generator :
                  \/ \E v \in rows : ~v.is_var /\ v.value = x.value
                  \/ x.value = NoValue
                  \/ \E signal \in DOMAIN Signals :
                        IsPrefix(own, signal) /\ Signals[signal] = x.value

\* A value is that of the signal named, under the present top name, whatever
\* was looked up while the top name was another, and there is none only when
\* the simulator knows no such signal.  A name that has the top name in its
\* middle is left as it is.
ValueIsOfTheNamedSignal ==
    answer.request = "value" =>
        \A x \in answer.content :
            LET name == IF IsPrefix(top_name_, x[1]) THEN x[1] ELSE top_name_ \o x[1]
            IN x[1] \notin TimeNames /\ find(x[1], top_name_) \in {0, 1} =>
                  x[2] = IF name \in DOMAIN Signals THEN Signals[name] ELSE NoValue

\* The graph shows both ends of every connection between two modules of the
\* scope, asked for from either side, that has a value at its source.  A name is
\* shown with the value of such a source, its own when no other connection ends
\* or begins there.
GraphShowsConnections ==
    answer.request = "clock" =>
        LET scope == Modules(db_, current_scope)
            HasValue(conn) == get_value(Env, FromName(conn)) # NoValue
        IN \A conn \in UNION {get_connection_to(db_, n) : n \in scope} :
              conn.handle_from \in scope /\ HasValue(conn) =>
                  \A name \in Ends(conn) :
                      /\ name \in DOMAIN answer.content
                      /\ \E c \in Connections(db_) :
                            /\ c.handle_from \in scope /\ HasValue(c)
                            /\ name \in Ends(c)
                            /\ answer.content[name] = get_value(Env, FromName(c))

\* Every instance but the top is the child of one with a name the route of
\* /hierarchy takes, and every child is an instance.
IsTree(db) ==
    LET Child(inst, row, parent) ==
            parent.id = row.parent_handle /\ inst.handle_name = Dot(parent.handle_name, row.child)
    IN /\ \E inst \in db.instance : inst.handle_name = db.top_name
       /\ \A inst \in db.instance :
             \/ inst.handle_name = db.top_name
             \/ \E row \in db.hierarchy, parent \in db.instance : Child(inst, row, parent)
       /\ \A row \in db.hierarchy, parent \in db.instance :
             parent.id = row.parent_handle =>
                 /\ parent.handle_name = db.top_name \/ Routed(parent.handle_name)
                 /\ \E inst \in db.instance : Child(inst, row, parent)

\* A debugger that has asked for the modules of the top and of every module it
\* was told of, as far as the route takes the name, knows all the instances of a
\* design whose table of the hierarchy is filled.
WalkReachesAll ==
    LET told == UNION {Modules(db_, scope) : scope \in asked}
        walked == <<>> \in asked /\ {name \in told : Routed(name)} \subseteq asked
    IN db_ # NoDb /\ db_.top_name # <<>> /\ IsTree(db_) /\ walked =>
           {inst.handle_name : inst \in db_.instance} = told \cup {db_.top_name}

\* A condition goes on reading the signal it was set for when the top name
\* becomes another, under which a signal of the same name may exist.  It may then
\* find no value, but never another signal's, unless the present top name in
\* front of the full name makes a signal's name too.
ConditionKeepsItsSignal ==
    \A id \in DOMAIN condition :
        \A s \in breakpoint_symbol_mapping[id] :
            LET full == get_handle_name(condition[id].top, s.handle)
            IN s.handle \notin TimeNames /\ top_name_ \o full \notin DOMAIN Signals =>
                  get_value(Env, s.handle) \in
                      {NoValue, IF full \in DOMAIN Signals THEN Signals[full] ELSE NoValue}

\* A generator variable in the condition of a breakpoint that only one instance
\* has is read from the signal its frame shows, while neither the database nor
\* the top name changes.  Its name must be that of no other.
ConditionReadsItsInstance ==
    Stopped /\ answer.content.id \in DOMAIN condition =>
        LET id == answer.content.id
            i == answer.content.instance_id
            alone == \A entry \in ToSet(db_.instance_set) :
                        entry.breakpoint_id = id => entry.instance_id = i
            same == condition[id].top = top_name_ /\ condition[id].db = db_
            variables == get_variable_mapping(db_, i, id)
        IN alone /\ same =>
              \A v \in variables, s \in breakpoint_symbol_mapping[id] :
                  /\ v.is_var /\ s.name = v.name /\ v.name # <<>>
                  /\ \A w \in variables : w.name = v.name => w = v
                  => get_value(Env, s.handle) = get_value(Env, Dot(v.handle, v.value))

\* "we will prefix it with the linked instance `handle_name`": at a stop a
\* condition reads the value that the stop's frame shows under that name.
ConditionReadsItsFrame ==
    Stopped /\ answer.content.id \in DOMAIN condition =>
        LET id == answer.content.id
        IN condition[id].top = top_name_ /\ condition[id].db = db_ =>
              \A v \in answer.content.local, s \in breakpoint_symbol_mapping[id] :
                  s.name = v.name => get_value(Env, s.handle) = v.value
=============================================================================
