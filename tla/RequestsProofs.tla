--------------------------- MODULE RequestsProofs ---------------------------
(***************************************************************************)
(* Proofs about Requests: what the debugger is told agrees with what it    *)
(* asks next, for every database, design, pair of folders and top name     *)
(* that the assumptions of Requests allow.                                 *)
(***************************************************************************)
EXTENDS Requests, UtilProofs

-----------------------------------------------------------------------------
(* The map of handles never matters.                                       *)

Environment(map, top, src, dst) ==
    [top_name |-> top, src_path |-> src, dst_path |-> dst,
     vpi_handle_map |-> map, signals |-> Signals, time |-> Now]

\* What the map has is what the simulator would say.
Matches(map) ==
    \A key \in DOMAIN map : map[key] = IF key \in DOMAIN Signals THEN key ELSE NoHandle

\* The value of a name, without the map.
Read(top, name) ==
    IF name \in TimeNames THEN Now
    ELSE IF get_handle_name(top, name) \in DOMAIN Signals
         THEN Signals[get_handle_name(top, name)] ELSE NoValue

\* What answers depend on, before anything was looked up.
Fresh == Environment(<<>>, top_name_, src_path, dst_path)

HandlesMatch == Matches(vpi_handle_map)

\* An empty map says nothing wrong.
LEMMA NothingMatches == Matches(<<>>)
BY DEF Matches

\* Looking names up adds what the simulator says.
LEMMA MappedMatches ==
    ASSUME NEW map, Matches(map), NEW top, NEW src, NEW dst, NEW names
    PROVE  LET m == Mapped(Environment(map, top, src, dst), names)
           IN /\ Matches(m)
              /\ \A n \in names \ TimeNames : get_handle_name(top, n) \in DOMAIN m
<1> DEFINE env == Environment(map, top, src, dst)
           new == names \ TimeNames
           m == Mapped(env, names)
           keys == DOMAIN map \cup {MapKey(env, n) : n \in new}
           found(key) ==
              LET n == CHOOSE x \in new : MapKey(env, x) = key
              IN vpi_handle_by_name(env, get_handle_name(env.top_name, n))
<1>1. m = [key \in keys |-> IF key \in DOMAIN map THEN map[key] ELSE found(key)]
    BY DEF Mapped, Environment
<1>2. \A n : MapKey(env, n) = get_handle_name(top, n)
    BY DEF MapKey, Environment
<1>3. \A key : vpi_handle_by_name(env, key) = IF key \in DOMAIN Signals THEN key ELSE NoHandle
    BY DEF vpi_handle_by_name, Environment
<1>4. env.top_name = top
    BY DEF Environment
<1> HIDE DEF env, new, m
<1>5. ASSUME NEW key \in keys, key \notin DOMAIN map
      PROVE  found(key) = IF key \in DOMAIN Signals THEN key ELSE NoHandle
    <2> DEFINE n == CHOOSE x \in new : MapKey(env, x) = key
    <2>1. \E x \in new : MapKey(env, x) = key
        BY <1>5
    <2>2. MapKey(env, n) = key
        BY <2>1
    <2> HIDE DEF n
    <2>3. get_handle_name(env.top_name, n) = key
        BY <1>2, <1>4, <2>2
    <2> QED BY <1>3, <2>3 DEF n
<1> HIDE DEF found
<1>6. DOMAIN m = keys
    BY <1>1
<1>7. ASSUME NEW key \in DOMAIN m
      PROVE  m[key] = IF key \in DOMAIN Signals THEN key ELSE NoHandle
    BY <1>1, <1>5, <1>6 DEF Matches
<1>8. Matches(m)
    BY <1>7 DEF Matches
<1>9. \A n \in new : get_handle_name(top, n) \in DOMAIN m
    BY <1>2, <1>6
<1> QED BY <1>8, <1>9 DEF m, env, new

\* With a map that matches, a value is that without one.
LEMMA ValueRead ==
    ASSUME NEW map, Matches(map), NEW top, NEW src, NEW dst, NEW name
    PROVE  get_value(Environment(map, top, src, dst), name) = Read(top, name)
<1> DEFINE env == Environment(map, top, src, dst)
           m == Mapped(env, {name})
           key == get_handle_name(top, name)
<1>1. env.time = Now /\ env.signals = Signals /\ MapKey(env, name) = key
    BY DEF Environment, MapKey
<1>2. CASE name \in TimeNames
    BY <1>1, <1>2 DEF get_value, Read
<1>3. CASE name \notin TimeNames
    <2>1. Matches(m) /\ key \in DOMAIN m
        BY <1>3, MappedMatches
    <2> HIDE DEF m, key
    <2>2. m[key] = IF key \in DOMAIN Signals THEN key ELSE NoHandle
        BY <2>1 DEF Matches
    <2>3. NoHandle \notin DOMAIN Signals
        BY RequestsAssumption DEF NoHandle
    <2>4. get_value(env, name) = IF m[key] = NoHandle THEN NoValue ELSE Signals[m[key]]
        BY <1>1, <1>3 DEF get_value, m
    <2> QED BY <1>3, <2>2, <2>3, <2>4 DEF Read, key
<1> QED BY <1>2, <1>3

\* A frame depends on the values and the folders.
LEMMA SameFrame ==
    ASSUME NEW e, NEW f, e.src_path = f.src_path, e.dst_path = f.dst_path,
           \A n : get_value(e, n) = get_value(f, n), NEW db, NEW i, NEW id
    PROVE  get_breakpoint_value(db, e, i, id) = get_breakpoint_value(db, f, i, id)
<1>1. \A filename : ToUser(e, filename) = ToUser(f, filename)
    BY DEF ToUser
<1> DEFINE Value(env, v) == IF v.is_var THEN get_value(env, Dot(v.handle, v.value)) ELSE v.value
           local(env) ==
              {[name |-> v.name, value |-> Value(env, v)] : v \in get_context_variable(db, i, id)}
           generator(env) ==
              {[name |-> IF v.is_var THEN process_var_front_name(v.value) ELSE v.name,
                value |-> Value(env, v)] : v \in get_variable_mapping(db, i, id)}
           place(env) ==
              {[filename |-> ToUser(env, info.filename), line_num |-> info.line_num] :
                  info \in get_breakpoint_info(db, id)}
<1>2. \A v : Value(e, v) = Value(f, v)
    OBVIOUS
<1>3. place(e) = place(f)
    BY <1>1
<1>4. local(e) = local(f) /\ generator(e) = generator(f)
    <2> HIDE DEF Value
    <2> QED BY <1>2
<1>5. \A env : get_breakpoint_value(db, env, i, id) =
        [id |-> id, instance_id |-> i, instance_name |-> get_instance_name(db, i),
         generator |-> generator(env), local |-> local(env), place |-> place(env)]
    BY DEF get_breakpoint_value
<1> HIDE DEF local, generator, place
<1> QED BY <1>3, <1>4, <1>5

\* The graphs depend on the values.
LEMMA SameGraph ==
    ASSUME NEW e, NEW f, \A n : get_value(e, n) = get_value(f, n), NEW db, NEW scope
    PROVE  get_graph_value(db, e, scope) = get_graph_value(db, f, scope)
<1>1. Shown(db, e, scope) = Shown(db, f, scope)
    BY DEF Shown
<1>2. \A shown, rank : GraphInOrder(e, shown, rank) = GraphInOrder(f, shown, rank)
    BY DEF GraphInOrder
<1> QED BY <1>1, <1>2 DEF get_graph_value

\* What answers depend on now.
LEMMA EnvironmentNow ==
    Env = Environment(vpi_handle_map, top_name_, src_path, dst_path)
BY DEF Env, Environment

\* A value, a frame or a graph is the same whatever was looked up before.
LEMMA ValueNow ==
    ASSUME HandlesMatch, NEW name
    PROVE  get_value(Env, name) = Read(top_name_, name)
BY EnvironmentNow, ValueRead DEF HandlesMatch

\* The same, before anything was looked up.
LEMMA ValueFresh ==
    ASSUME NEW name
    PROVE  get_value(Fresh, name) = Read(top_name_, name)
BY NothingMatches, ValueRead DEF Fresh

\* So is a frame,
LEMMA FrameNow ==
    ASSUME HandlesMatch, NEW i, NEW id
    PROVE  get_breakpoint_value(db_, Env, i, id) = get_breakpoint_value(db_, Fresh, i, id)
<1>1. Env.src_path = Fresh.src_path /\ Env.dst_path = Fresh.dst_path
    BY DEF Env, Fresh, Environment
<1>2. \A n : get_value(Env, n) = get_value(Fresh, n)
    BY ValueNow, ValueFresh
<1> QED BY <1>1, <1>2, SameFrame

\* and a graph.
LEMMA GraphNow ==
    ASSUME HandlesMatch, NEW scope
    PROVE  get_graph_value(db_, Env, scope) = get_graph_value(db_, Fresh, scope)
<1>1. \A n : get_value(Env, n) = get_value(Fresh, n)
    BY ValueNow, ValueFresh
<1> QED BY <1>1, SameGraph

-----------------------------------------------------------------------------
(* The inductive invariant.                                                *)

\* What was last reported is still so: of the database, the top name and the
\* folders nothing changes without another answer.
AnswerIsPresent ==
    /\ answer.request = "stop" =>
          /\ db_ # NoDb
          /\ answer.content =
                get_breakpoint_value(db_, Fresh, answer.content.instance_id, answer.content.id)
    /\ answer.request = "clock" =>
          db_ # NoDb /\ answer.content \in get_graph_value(db_, Fresh, current_scope)
    /\ answer.request = "value" =>
          \A x \in answer.content : x[1] \in String /\ x[2] = Read(top_name_, x[1])

\* The symbols of a condition are of those found when it was sent.
ConditionIsStored(id) ==
    /\ IsDatabase(condition[id].db, Modulus)
    /\ IsTop(condition[id].top)
    /\ breakpoint_symbol_mapping[id] \subseteq
          SymbolHandles(condition[id].db, condition[id].top, id, condition[id].expr, Word)

ConditionsAreStored == \A id \in DOMAIN condition : ConditionIsStored(id)

IInv == TypeOK /\ HandlesMatch /\ AnswerIsPresent /\ ConditionsAreStored

Counted == served < MaxServed /\ served' = served + 1

Statuses == {200, 401, 403, 500}

\* The database that is loaded, the folders and the top name are such as the
\* clients and files have.
LEMMA TypesNow ==
    ASSUME TypeOK
    PROVE  /\ db_ # NoDb => IsDatabase(db_, Modulus)
           /\ src_path \in String /\ dst_path \in String
           /\ IsTop(top_name_)
<1>1. db_ # NoDb => IsDatabase(db_, Modulus)
    BY RequestsAssumption DEF TypeOK, Range
<1>2. src_path \in String /\ dst_path \in String
    <2>1. <<src_path, dst_path>> \in Folders \cup {<<<<>>, <<>>>>}
        BY DEF TypeOK, paths
    <2>2. CASE <<src_path, dst_path>> \in Folders
        BY <2>2, RequestsAssumption
    <2>3. CASE src_path = <<>> /\ dst_path = <<>>
        BY <2>3, ConcatEmpty, EmptySeq DEF String
    <2> QED BY <2>1, <2>2, <2>3
<1>3. IsTop(top_name_)
    <2>1. CASE top_name_ = InitTop
        BY <2>1, RequestsAssumption DEF IsTop
    <2>2. ASSUME NEW t \in Tops, top_name_ = Append(t, ".") PROVE IsTop(top_name_)
        <3>1. t \in Seq(Character) /\ "." \in Character
            BY RequestsAssumption, CharacterAssumption DEF String
        <3> DEFINE top == Append(t, ".")
        <3>2. top \in Seq(Character) /\ Len(top) = Len(t) + 1 /\ top[Len(t) + 1] = "." /\ Len(t) \in Nat
            BY <3>1, AppendProperties
        <3> HIDE DEF top
        <3>3. top # <<>> /\ Last(top) = "."
            BY <3>2 DEF Last
        <3> QED BY <2>2, <3>2, <3>3 DEF IsTop, String, top
    <2> QED BY <2>1, <2>2 DEF TypeOK
<1> QED BY <1>1, <1>2, <1>3

\* The map has handles of signals, or none.
LEMMA RangeMatches ==
    ASSUME HandlesMatch
    PROVE  Range(vpi_handle_map) \subseteq DOMAIN Signals \cup {NoHandle}
BY DEF HandlesMatch, Matches, Range

\* The invariant holds at the start.
LEMMA InitInv == Init => IInv
<1> SUFFICES ASSUME Init PROVE IInv
    OBVIOUS
<1> USE DEF Init
<1>1. HandlesMatch
    BY NothingMatches DEF HandlesMatch
<1>2. TypeOK
    <2>1. Range(vpi_handle_map) \subseteq DOMAIN Signals \cup {NoHandle}
        BY <1>1, RangeMatches
    <2>2. served \in 0..MaxServed
        BY RequestsAssumption
    <2> QED BY <2>1, <2>2 DEF TypeOK, paths, Answer
<1>3. AnswerIsPresent
    BY DEF AnswerIsPresent, Answer
<1>4. ConditionsAreStored
    BY DEF ConditionsAreStored
<1> QED BY <1>1, <1>2, <1>3, <1>4 DEF IInv

\* The map of handles is left alone or grows by names that are looked up.
LEMMA StepLooksUp ==
    ASSUME Next
    PROVE  \/ UNCHANGED vpi_handle_map
           \/ \E names : LooksUp(names)
<1>1. CASE Reads
    <2>1. ASSUME NEW text \in Texts, GetBreakpoint(text) \/ GetContext(text)
          PROVE UNCHANGED vpi_handle_map \/ \E names : LooksUp(names)
        BY <2>1 DEF GetBreakpoint, GetContext
    <2>2. ASSUME NEW filename \in FileNames, DeleteFile(filename) PROVE UNCHANGED vpi_handle_map
        BY <2>2 DEF DeleteFile
    <2>3. CASE DeleteBreakpointAt \/ GetFiles \/ GetStatus \/ GetTime
        BY <2>3 DEF DeleteBreakpointAt, GetFiles, GetStatus, GetTime
    <2>4. ASSUME NEW name \in Names, GetValue(name) PROVE \E names : LooksUp(names)
        BY <2>4 DEF GetValue
    <2>5. ASSUME NEW name \in Names, NEW is_from \in BOOLEAN, GetConnection(name, is_from)
          PROVE UNCHANGED vpi_handle_map
        BY <2>5 DEF GetConnection
    <2>6. CASE GetValues(Names)
        BY <2>6 DEF GetValues
    <2> QED BY <1>1, <2>1, <2>2, <2>3, <2>4, <2>5, <2>6 DEF Reads
<1>2. CASE Changes
    <2>1. ASSUME NEW name \in Scopes, Hierarchy(name) \/ HierarchyWithoutDb(name)
          PROVE UNCHANGED vpi_handle_map \/ \E names : LooksUp(names)
        BY <2>1 DEF Hierarchy, HierarchyWithoutDb
    <2>2. ASSUME NEW value \in Tops, SetTopName(value) PROVE UNCHANGED vpi_handle_map
        BY <2>2 DEF SetTopName
    <2>3. ASSUME NEW database \in Databases, NEW folders \in Folders \cup {paths},
                 Connect(database, folders)
          PROVE  UNCHANGED vpi_handle_map
        BY <2>3 DEF Connect
    <2>4. ASSUME NEW post \in Posted, PostCondition(post[1], post[2])
          PROVE  UNCHANGED vpi_handle_map
        BY <2>4 DEF PostCondition
    <2> QED BY <1>2, <2>1, <2>2, <2>3, <2>4 DEF Changes
<1>3. CASE Stops
    <2>1. CASE ClockStop
        BY <2>1 DEF ClockStop
    <2>2. ASSUME NEW call \in Calls, Stop(call[1], call[2]) PROVE \E names : LooksUp(names)
        BY <2>2 DEF Stop
    <2> QED BY <1>3, <2>1, <2>2 DEF Stops
<1> QED BY <1>1, <1>2, <1>3 DEF Next

\* HandlesMatch is kept by every step.
LEMMA StepHandles ==
    ASSUME HandlesMatch, [Next]_vars
    PROVE  HandlesMatch'
<1>1. CASE UNCHANGED vpi_handle_map
    BY <1>1 DEF HandlesMatch, Matches
<1>2. ASSUME NEW names, LooksUp(names) PROVE HandlesMatch'
    <2>1. vpi_handle_map' = Mapped(Env, names)
        BY <1>2 DEF LooksUp
    <2>2. Matches(Mapped(Env, names))
        BY EnvironmentNow, MappedMatches DEF HandlesMatch
    <2>3. Matches(vpi_handle_map')
        BY <2>1, <2>2
    <2> QED BY <2>3 DEF HandlesMatch, Matches
<1>3. CASE UNCHANGED vars
    BY <1>1, <1>3 DEF vars
<1> QED BY <1>1, <1>2, <1>3, StepLooksUp

\* A request that only reads changes nothing but the handles and the answer.
LEMMA ReadKeeps ==
    ASSUME IInv, Counted, HandlesMatch', Keep, answer'.status \in Statuses
    PROVE  TypeOK' /\ ConditionsAreStored'
<1> USE DEF Keep, conditions, paths, IInv
<1>1. TypeOK'
    <2>1. (Range(vpi_handle_map) \subseteq DOMAIN Signals \cup {NoHandle})'
        BY RangeMatches, PTL
    <2>2. served' \in 0..MaxServed
        BY RequestsAssumption DEF Counted, TypeOK
    <2> QED BY <2>1, <2>2 DEF TypeOK, Statuses
<1>2. ConditionsAreStored'
    BY DEF ConditionsAreStored, ConditionIsStored
<1> QED BY <1>1, <1>2

\* Of other answers the invariant says nothing.
LEMMA OtherAnswer ==
    ASSUME answer'.request \notin {"stop", "clock", "value"}
    PROVE  AnswerIsPresent'
BY DEF AnswerIsPresent

\* The requests that only read keep the invariant.
LEMMA ReadsKeep ==
    ASSUME IInv, Counted, HandlesMatch', Reads
    PROVE  IInv'
<1> DEFINE Quiet == /\ Keep
                    /\ answer'.status \in Statuses
                    /\ answer'.request \notin {"stop", "clock", "value"}
<1>1. ASSUME Quiet PROVE IInv'
    BY <1>1, ReadKeeps, OtherAnswer DEF IInv
<1>2. ASSUME NEW text \in Texts, GetBreakpoint(text) PROVE Quiet
    BY <1>2 DEF GetBreakpoint, AtBreakpoint, Answer, Statuses
<1>3. ASSUME NEW text \in Texts, GetContext(text) PROVE Quiet
    <2>1. answer' = InContext(text) /\ Keep
        BY <1>3 DEF GetContext
    <2>2. InContext(text).status \in Statuses /\ InContext(text).request = "context"
        BY DEF InContext, Answer, Statuses
    <2> QED BY <2>1, <2>2
<1>4. ASSUME NEW filename \in FileNames, DeleteFile(filename) PROVE Quiet
    BY <1>4 DEF DeleteFile, InFile, Answer, Statuses
<1>5. CASE DeleteBreakpointAt \/ GetFiles \/ GetStatus \/ GetTime
    <2>1. Quiet
        BY <1>5 DEF DeleteBreakpointAt, GetFiles, GetStatus, GetTime, Answer, Statuses
    <2> QED BY <1>1, <2>1
<1>6. ASSUME NEW name \in Names, GetValue(name) PROVE IInv'
    <2>1. answer' = ValueAnswer(name) /\ Keep
        BY <1>6 DEF GetValue
    <2>2. /\ ValueAnswer(name).status \in Statuses
          /\ ValueAnswer(name).request = "value"
          /\ ValueAnswer(name).content = {<<name, Read(top_name_, name)>>}
        BY ValueNow DEF ValueAnswer, Answer, Statuses, IInv
    <2>3. AnswerIsPresent'
        BY <2>1, <2>2, RequestsAssumption DEF AnswerIsPresent, Keep
    <2> QED BY <2>1, <2>2, <2>3, ReadKeeps DEF IInv
<1>7. ASSUME NEW name \in Names, NEW is_from \in BOOLEAN, GetConnection(name, is_from)
      PROVE  Quiet
    BY <1>7 DEF GetConnection, Answer, Statuses
<1>8. CASE GetValues(Names)
    <2>1. answer' = Answer("value", 200, {<<name, get_value(Env, name)>> : name \in Names}) /\ Keep
        BY <1>8 DEF GetValues
    <2>2. /\ answer'.status \in Statuses
          /\ answer'.request = "value"
          /\ answer'.content = {<<name, get_value(Env, name)>> : name \in Names}
        BY <2>1 DEF Answer, Statuses
    <2>3. \A x \in answer'.content : x[1] \in String /\ x[2] = Read(top_name_, x[1])
        BY <2>2, ValueNow, RequestsAssumption DEF IInv
    <2>4. AnswerIsPresent'
        BY <2>1, <2>2, <2>3 DEF AnswerIsPresent, Keep
    <2> QED BY <2>1, <2>2, <2>4, ReadKeeps DEF IInv
<1> HIDE DEF Quiet
<1> QED BY <1>1, <1>2, <1>3, <1>4, <1>5, <1>6, <1>7, <1>8 DEF Reads

\* What is mapped are symbols of the condition.
LEMMA MappingIsOfSymbols ==
    ASSUME NEW db, NEW top, NEW id, NEW expr,
           NEW mapping \in SymbolMappings(db, top, id, expr, Word, Modulus)
    PROVE  mapping \subseteq SymbolHandles(db, top, id, expr, Word)
BY DEF SymbolMappings, SymbolHandles

\* So do the requests that change something: a condition is stored with the
\* database and the top name it was compiled for.
LEMMA ChangesKeep ==
    ASSUME IInv, Counted, HandlesMatch', Changes
    PROVE  IInv'
<1> USE DEF conditions, paths
<1>1. (Range(vpi_handle_map) \subseteq DOMAIN Signals \cup {NoHandle})'
    BY RangeMatches, PTL
<1>2. served' \in 0..MaxServed
    BY RequestsAssumption DEF Counted, TypeOK, IInv
<1>3. TypeOK /\ ConditionsAreStored
    BY DEF IInv
<1>4. ASSUME UNCHANGED conditions PROVE ConditionsAreStored'
    BY <1>3, <1>4 DEF ConditionsAreStored, ConditionIsStored
<1> USE DEF Answer
<1>5. ASSUME NEW name \in Scopes, Hierarchy(name) PROVE IInv'
    <2>1. AnswerIsPresent'
        BY <1>5, OtherAnswer DEF Hierarchy
    <2>2. TypeOK'
        BY <1>1, <1>2, <1>3, <1>5 DEF Hierarchy, TypeOK
    <2> QED BY <1>4, <1>5, <2>1, <2>2 DEF Hierarchy, IInv
<1>6. ASSUME NEW name \in Scopes, HierarchyWithoutDb(name) PROVE IInv'
    BY <1>6, ReadKeeps, OtherAnswer DEF HierarchyWithoutDb, IInv, Statuses
<1>7. ASSUME NEW value \in Tops, SetTopName(value) PROVE IInv'
    <2>1. AnswerIsPresent'
        BY <1>7, OtherAnswer DEF SetTopName
    <2>2. TypeOK'
        BY <1>1, <1>2, <1>3, <1>7 DEF SetTopName, TypeOK
    <2> QED BY <1>4, <1>7, <2>1, <2>2 DEF SetTopName, IInv
<1>8. ASSUME NEW database \in Databases, NEW folders \in Folders \cup {paths},
             Connect(database, folders)
      PROVE  IInv'
    <2>1. AnswerIsPresent'
        BY <1>8, OtherAnswer DEF Connect
    <2>2. db_' \in (Range(Files) \ {Broken}) \cup {NoDb}
        <3>1. \A file \in DOMAIN Files : Load(file) \in (Range(Files) \ {Broken}) \cup {NoDb}
            BY DEF Load, Range
        <3>2. db_' = db_ \/ \E file \in DOMAIN Files : db_' = Load(file)
            BY <1>8 DEF Connect
        <3> QED BY <1>3, <3>1, <3>2 DEF TypeOK
    <2>3. paths' \in Folders \cup {<<<<>>, <<>>>>}
        <3>1. paths' = <<folders[1], folders[2]>>
            BY <1>8 DEF Connect
        <3>2. folders \in Folders => folders = <<folders[1], folders[2]>>
            BY RequestsAssumption
        <3>3. folders = paths => <<folders[1], folders[2]>> = paths
            OBVIOUS
        <3> QED BY <1>3, <3>1, <3>2, <3>3 DEF TypeOK
    <2>4. answer'.status \in Statuses
        BY <1>8 DEF Connect, Statuses
    <2>5. TypeOK'
        BY <1>1, <1>2, <1>3, <1>8, <2>2, <2>3, <2>4 DEF Connect, TypeOK, Statuses
    <2> QED BY <1>4, <1>8, <2>1, <2>5 DEF Connect, IInv
<1>9. ASSUME NEW post \in Posted, PostCondition(post[1], post[2]) PROVE IInv'
    <2> DEFINE id == post[1]
               expr == post[2]
               mapped == db_ # NoDb /\ get_instance_id(db_, id) # NoInstance
               new == [expr |-> expr, top |-> top_name_, db |-> db_]
               mappings == SymbolMappings(db_, top_name_, id, expr, Word, Modulus)
    <2>1. AnswerIsPresent'
        BY <1>9, OtherAnswer DEF PostCondition
    <2>2. UNCHANGED <<db_, src_path, dst_path, top_name_, has_paused_on_clock>> /\ answer'.status \in Statuses
        BY <1>9 DEF PostCondition, Statuses
    <2>3. IsTop(top_name_)
        BY <1>3, TypesNow
    <2>4. CASE mapped
        <3>1. PICK symbols \in mappings :
              /\ condition' = [i \in DOMAIN condition \cup {id} |-> IF i = id THEN new ELSE condition[i]]
              /\ breakpoint_symbol_mapping' =
                    [i \in DOMAIN breakpoint_symbol_mapping \cup {id} |->
                        IF i = id THEN symbols ELSE breakpoint_symbol_mapping[i]]
            BY <1>9, <2>4 DEF PostCondition
        <3>2. DOMAIN condition = DOMAIN breakpoint_symbol_mapping
            BY <1>3 DEF TypeOK
        <3>3. IsDatabase(db_, Modulus)
            BY <1>3, <2>4, TypesNow
        <3>3a. symbols \subseteq SymbolHandles(db_, top_name_, id, expr, Word)
            <4> HIDE DEF id, expr
            <4> QED BY MappingIsOfSymbols
        <3> HIDE DEF id, expr, mappings
        <3>4. DOMAIN condition' = DOMAIN breakpoint_symbol_mapping'
            BY <3>1, <3>2
        <3>5. TypeOK'
            BY <1>1, <1>2, <1>3, <2>2, <3>4 DEF TypeOK, Statuses
        <3>6. ASSUME NEW i \in DOMAIN condition' PROVE ConditionIsStored(i)'
            <4>1. CASE i = id
                <5>1. condition'[i] = new /\ breakpoint_symbol_mapping'[i] = symbols
                    BY <3>1, <3>2, <4>1
                <5> QED BY <2>3, <3>3, <3>3a, <4>1, <5>1 DEF ConditionIsStored
            <4>2. CASE i # id
                <5>1. /\ condition'[i] = condition[i]
                      /\ breakpoint_symbol_mapping'[i] = breakpoint_symbol_mapping[i]
                      /\ i \in DOMAIN condition
                    BY <3>1, <3>2, <4>2
                <5> QED BY <1>3, <5>1 DEF ConditionsAreStored, ConditionIsStored
            <4> QED BY <4>1, <4>2
        <3>7. ConditionsAreStored'
            BY <3>6 DEF ConditionsAreStored
        <3> QED BY <2>1, <3>5, <3>7 DEF IInv
    <2>5. CASE ~mapped
        <3>1. UNCHANGED conditions
            BY <1>9, <2>5 DEF PostCondition
        <3>2. TypeOK'
            BY <1>1, <1>2, <1>3, <2>2, <3>1 DEF TypeOK, Statuses
        <3> QED BY <1>4, <2>1, <3>1, <3>2 DEF IInv
    <2> QED BY <2>4, <2>5
<1> QED BY <1>5, <1>6, <1>7, <1>8, <1>9 DEF Changes

\* So do the stops of the simulator.
LEMMA StopsKeep ==
    ASSUME IInv, Counted, HandlesMatch', Stops
    PROVE  IInv'
<1> USE DEF conditions, paths
<1>1. CASE ClockStop
    <2>1. UNCHANGED <<db_, paths, top_name_, current_scope, conditions, asked>>
        BY <1>1 DEF ClockStop
    <2>2. has_paused_on_clock' = TRUE
        BY <1>1 DEF ClockStop
    <2>3. answer'.status \in Statuses /\ AnswerIsPresent'
        <3>1. CASE db_ = NoDb
            BY <1>1, <2>1, <3>1
               DEF ClockStop, AnswerIsPresent, Fresh, Environment, IInv, TypeOK, Statuses
        <3>2. CASE db_ # NoDb
            <4>1. \E graph \in get_graph_value(db_, Env, current_scope) :
                     answer' = Answer("clock", 200, graph)
                BY <1>1, <3>2 DEF ClockStop
            <4>2. get_graph_value(db_, Env, current_scope) = get_graph_value(db_, Fresh, current_scope)
                BY GraphNow DEF IInv
            <4>3. Fresh' = Fresh
                BY <2>1 DEF Fresh, Environment
            <4> QED BY <2>1, <3>2, <4>1, <4>2, <4>3 DEF AnswerIsPresent, Answer, Statuses
        <3> QED BY <3>1, <3>2
    <2>4. (Range(vpi_handle_map) \subseteq DOMAIN Signals \cup {NoHandle})'
        BY RangeMatches, PTL
    <2>5. served' \in 0..MaxServed
        BY RequestsAssumption DEF Counted, TypeOK, IInv
    <2>6. TypeOK'
        BY <2>1, <2>2, <2>3, <2>4, <2>5 DEF TypeOK, IInv, Statuses
    <2>7. ConditionsAreStored'
        BY <2>1 DEF ConditionsAreStored, ConditionIsStored, IInv
    <2> QED BY <2>3, <2>6, <2>7 DEF IInv
<1>2. ASSUME NEW call \in Calls, Stop(call[1], call[2]) PROVE IInv'
    <2> DEFINE i == call[1]
               id == call[2]
               frame == get_breakpoint_value(db_, Env, i, id)
    <2>1. Keep /\ db_ # NoDb /\ answer' = Answer("stop", 200, frame)
        BY <1>2 DEF Stop
    <2>2. frame = get_breakpoint_value(db_, Fresh, i, id)
        BY FrameNow DEF IInv
    <2>3. frame.instance_id = i /\ frame.id = id
        BY DEF get_breakpoint_value
    <2>4. Fresh' = Fresh /\ db_' = db_
        BY <2>1 DEF Fresh, Environment, Keep
    <2> HIDE DEF frame, i, id
    <2>5. AnswerIsPresent' /\ answer'.status \in Statuses
        BY <2>1, <2>2, <2>3, <2>4 DEF AnswerIsPresent, Answer, Statuses
    <2> QED BY <2>1, <2>5, ReadKeeps DEF IInv
<1> QED BY <1>1, <1>2 DEF Stops

\* Every step keeps the invariant.
LEMMA StepInv == IInv /\ [Next]_vars => IInv'
<1> SUFFICES ASSUME IInv, [Next]_vars PROVE IInv'
    OBVIOUS
<1>1. HandlesMatch'
    BY StepHandles DEF IInv
<1>2. CASE Next
    BY <1>1, <1>2, ReadsKeep, ChangesKeep, StopsKeep DEF Next, Counted
<1>3. CASE UNCHANGED vars
    BY <1>1, <1>3 DEF vars, conditions, paths, IInv, TypeOK, AnswerIsPresent, Fresh, Environment,
                     ConditionsAreStored, ConditionIsStored
<1> QED BY <1>2, <1>3

\* Whatever requests and stops there were, what was reported last is what the
\* database and the simulator say now, and what was looked up does not matter.
THEOREM Invariant == Spec => []IInv
<1> QED BY InitInv, StepInv, PTL DEF Spec

\* The variables have the types that Requests gives them.
THEOREM TypesAreCorrect == Spec => []TypeOK
<1>1. IInv => TypeOK
    BY DEF IInv
<1> QED BY <1>1, Invariant, PTL

-----------------------------------------------------------------------------
(* The place of a stop.                                                    *)

\* What a stop told is the frame of the breakpoint and instance in it.
LEMMA StopAnswer ==
    ASSUME IInv, answer.request = "stop"
    PROVE  /\ IsDatabase(db_, Modulus)
           /\ answer.content =
                get_breakpoint_value(db_, Fresh, answer.content.instance_id, answer.content.id)
BY TypesNow DEF IInv, AnswerIsPresent

\* The database has one file and line for a breakpoint.
LEMMA BreakpointInfo ==
    ASSUME NEW db, IsDatabase(db, Modulus), NEW id, NEW info \in get_breakpoint_info(db, id)
    PROVE  /\ info.filename \in String
           /\ info.line_num \in 0..Modulus - 1
           /\ get_breakpoint_info(db, id) = {info}
           /\ \E bp \in db.breakpoint :
                 bp.id = id /\ bp.filename = info.filename /\ bp.line_num = info.line_num
<1>1. db.breakpoint \subseteq
        [id : Nat, filename : String, line_num : 0..Modulus - 1, column_num : 0..Modulus - 1]
    BY DEF IsDatabase, Tables
<1>2. PICK bp \in db.breakpoint :
        bp.id = id /\ info = [filename |-> bp.filename, line_num |-> bp.line_num]
    BY DEF get_breakpoint_info
<1>3. \A b \in db.breakpoint : b.id = id => b = bp
    BY <1>2 DEF IsDatabase, PrimaryKey
<1>4. get_breakpoint_info(db, id) = {info}
    BY <1>2, <1>3 DEF get_breakpoint_info
<1> QED BY <1>1, <1>2, <1>4

\* The place of a stop is that of its breakpoint in the folder of the user.
LEMMA PlacesOfStop ==
    ASSUME IInv, answer.request = "stop"
    PROVE  answer.content.place =
             {[filename |-> ToUser(Fresh, info.filename), line_num |-> info.line_num] :
                 info \in get_breakpoint_info(db_, answer.content.id)}
<1> DEFINE frame == get_breakpoint_value(db_, Fresh, answer.content.instance_id, answer.content.id)
<1>1. frame.place =
        {[filename |-> ToUser(Fresh, info.filename), line_num |-> info.line_num] :
            info \in get_breakpoint_info(db_, answer.content.id)}
    BY DEF get_breakpoint_value
<1>2. answer.content = frame
    BY StopAnswer
<1> HIDE DEF frame
<1> QED BY <1>1, <1>2

\* There is one.
LEMMA PlaceOfStop ==
    ASSUME IInv, answer.request = "stop",
           NEW info \in get_breakpoint_info(db_, answer.content.id),
           NEW place \in answer.content.place
    PROVE  place = [filename |-> ToUser(Fresh, info.filename), line_num |-> info.line_num]
<1>1. get_breakpoint_info(db_, answer.content.id) = {info}
    BY StopAnswer, BreakpointInfo
<1> QED BY <1>1, PlacesOfStop

\* The two translations of a path.
LEMMA Translations ==
    ASSUME NEW filename
    PROVE  /\ ToUser(Fresh, filename) =
                IF src_path # <<>> /\ dst_path # <<>>
                THEN replace(filename, dst_path, src_path) ELSE filename
           /\ ToServer(Fresh, filename) =
                IF src_path # <<>> /\ dst_path # <<>>
                THEN replace(filename, src_path, dst_path) ELSE filename
           /\ ToServer(Env, filename) = ToServer(Fresh, filename)
BY DEF ToUser, ToServer, Fresh, Env, Environment

\* A file in the folder of the server is shown in that of the user, and back.
LEMMA InTheFolder ==
    ASSUME TypeOK, src_path # <<>>, dst_path # <<>>, NEW filename \in String,
           InFolder(filename, dst_path)
    PROVE  LET rest == From(filename, Len(Slashed(dst_path)) + 1)
           IN /\ ToUser(Fresh, filename) = Slashed(src_path) \o rest
              /\ ToServer(Fresh, Slashed(src_path) \o rest) = filename
              /\ Slashed(src_path) \o rest \in String
<1> DEFINE rest == From(filename, Len(Slashed(dst_path)) + 1)
<1>1. src_path \in String /\ dst_path \in String
    BY TypesNow
<1>2. rest \in String /\ filename = Slashed(dst_path) \o rest
    BY <1>1, SlashedType, PrefixRest DEF InFolder
<1>3. rest # <<>> => rest[1] # "/"
    BY DEF InFolder
<1> HIDE DEF rest
<1>4. replace(filename, dst_path, src_path) = Slashed(src_path) \o rest
    BY <1>1, <1>2, <1>3, ReplaceFolder
<1>5. replace(Slashed(src_path) \o rest, src_path, dst_path) = filename
    BY <1>1, <1>2, <1>3, ReplaceFolder
<1>6. /\ ToUser(Fresh, filename) = Slashed(src_path) \o rest
      /\ ToServer(Fresh, Slashed(src_path) \o rest) = filename
    BY <1>4, <1>5, Translations
<1>7. Slashed(src_path) \o rest \in String
    BY <1>1, <1>2, SlashedType, Concat
<1> QED BY <1>6, <1>7 DEF rest

\* A file that is shown to the user and comes back is the same.
LEMMA ThereAndBack ==
    ASSUME TypeOK, NEW filename \in String, Translatable(filename)
    PROVE  /\ ToServer(Env, ToUser(Fresh, filename)) = filename
           /\ ToUser(Fresh, filename) \in String
<1>1. CASE src_path = <<>> \/ dst_path = <<>>
    BY <1>1, Translations
<1>2. CASE src_path # <<>> /\ dst_path # <<>> /\ InFolder(filename, dst_path)
    BY <1>2, InTheFolder, Translations
<1>3. CASE /\ src_path # <<>> /\ dst_path # <<>>
           /\ find(filename, dst_path) = 0 /\ find(filename, src_path) = 0
    <2>1. replace(filename, dst_path, src_path) = filename
        BY <1>3 DEF replace
    <2>2. replace(filename, src_path, dst_path) = filename
        BY <1>3 DEF replace
    <2> QED BY <1>3, <2>1, <2>2, Translations
<1> QED BY <1>1, <1>2, <1>3 DEF Translatable

\* ShownInTheUsersFolder follows from the invariant, by ReplaceFolder.
LEMMA ShownInv == IInv => ShownInTheUsersFolder
<1> SUFFICES ASSUME IInv, answer.request = "stop", src_path # <<>>, dst_path # <<>>,
                    NEW info \in get_breakpoint_info(db_, answer.content.id),
                    InFolder(info.filename, dst_path),
                    NEW place \in answer.content.place
             PROVE  place.filename =
                        Slashed(src_path) \o From(info.filename, Len(Slashed(dst_path)) + 1)
    BY DEF ShownInTheUsersFolder
<1>1. info.filename \in String
    BY StopAnswer, BreakpointInfo
<1>2. place.filename = ToUser(Fresh, info.filename)
    BY PlaceOfStop
<1> QED BY <1>1, <1>2, InTheFolder DEF IInv

\* The file shown at a stop is the server's in the user's folder, the rest of its
\* path after one slash, however the two folders of /connect end.
THEOREM ShownInFolder == Spec => []ShownInTheUsersFolder
<1>1. IInv => ShownInTheUsersFolder
    BY ShownInv
<1> QED BY <1>1, Invariant, PTL

\* DeletedWhereShown: the file that was shown leads back to that of the stop.
LEMMA DeletedInv == IInv => DeletedWhereShown
<1> SUFFICES ASSUME IInv, Stopped,
                    NEW info \in get_breakpoint_info(db_, answer.content.id),
                    NEW place \in answer.content.place,
                    place.filename # <<>>, Translatable(info.filename)
             PROVE  answer.content.id \in InFile(place.filename).content
    BY DEF DeletedWhereShown
<1> DEFINE id == answer.content.id
           file == place.filename
<1>1. answer.request = "stop" /\ db_ # NoDb /\ IsDatabase(db_, Modulus)
    BY StopAnswer DEF Stopped, IInv, AnswerIsPresent
<1>2. info.filename \in String /\ \E bp \in db_.breakpoint : bp.id = id /\ bp.filename = info.filename
    BY <1>1, BreakpointInfo
<1>3. file = ToUser(Fresh, info.filename)
    BY <1>1, PlaceOfStop
<1>4. ToServer(Env, file) = info.filename
    BY <1>2, <1>3, ThereAndBack DEF IInv
<1>5. id \in get_all_breakpoints(db_, info.filename)
    BY <1>2 DEF get_all_breakpoints
<1>6. InFile(file).content = get_all_breakpoints(db_, info.filename)
    BY <1>1, <1>4 DEF InFile, get_breakpoint_filename, Answer
<1> QED BY <1>5, <1>6

\* Deleting the breakpoints of the file a stop was shown in removes the one of
\* the stop.
THEOREM DeletesWhatWasShown == Spec => []DeletedWhereShown
<1>1. IInv => DeletedWhereShown
    BY DeletedInv
<1> QED BY <1>1, Invariant, PTL

\* A line that uint32_t holds is not changed by it.
LEMMA SmallRemainder ==
    ASSUME NEW a \in Nat, NEW b \in Nat, a < b
    PROVE  a % b = a
OBVIOUS

\* ContextShowsTheStop: the text is taken apart as it was put together, and the
\* frame does not depend on what was looked up since.
LEMMA ContextInv == IInv => ContextShowsTheStop
<1> SUFFICES ASSUME IInv, Stopped,
                    NEW info \in get_breakpoint_info(db_, answer.content.id),
                    NEW place \in answer.content.place,
                    Translatable(info.filename),
                    place.filename # <<>>, ":" \notin ToSet(place.filename),
                    place.line_num < Modulus \div 2,
                    NEW line \in Numerals, Number(line) = place.line_num
             PROVE  answer.content \in InContext(place.filename \o <<":">> \o line).content
    BY DEF ContextShowsTheStop
<1> DEFINE id == answer.content.id
           file == place.filename
           text == file \o <<":">> \o line
           tokens == get_tokens(text, {":"})
<1>1. answer.request = "stop" /\ IsDatabase(db_, Modulus)
    BY StopAnswer DEF Stopped
<1>2. /\ info.filename \in String
      /\ \E bp \in db_.breakpoint :
            bp.id = id /\ bp.filename = info.filename /\ bp.line_num = info.line_num
    BY <1>1, BreakpointInfo
<1>3. file = ToUser(Fresh, info.filename) /\ place.line_num = info.line_num
    BY <1>1, PlaceOfStop
<1>4. file \in String /\ ToServer(Env, file) = info.filename
    BY <1>2, <1>3, ThereAndBack DEF IInv
<1>5. line \in Seq(Digit) \ {<<>>}
    BY RequestsAssumption
<1>6. tokens = <<file, line>>
    <2>1. \A i \in 1..Len(file) : file[i] \notin {":"}
        BY <1>4 DEF ToSet, String
    <2> HIDE DEF file
    <2>2. file # <<>>
        BY DEF file
    <2> QED BY <1>4, <1>5, <2>1, <2>2, FileAndLine
<1>7. Unsigned(line) = line /\ stoi(line) = Number(line)
    BY <1>5, StoiOfDigits
<1>8. ~stoi_throws(line, Modulus) /\ stoi(line) % Modulus = info.line_num
    <2>1. stoi(line) = info.line_num /\ info.line_num < Modulus \div 2
        BY <1>3, <1>7
    <2>2. /\ Modulus \in Nat \ {0} /\ Modulus \div 2 \in Nat
          /\ info.line_num \in Nat /\ info.line_num < Modulus
        <3>1. info.line_num \in 0..Modulus - 1
            BY <1>1, BreakpointInfo
        <3> QED BY <3>1, RequestsAssumption
    <2>3. ~(info.line_num >= Modulus \div 2) /\ ~(info.line_num < -(Modulus \div 2))
        BY <2>1, <2>2
    <2>4. info.line_num % Modulus = info.line_num
        BY <2>2, SmallRemainder
    <2>5. Unsigned(line) # <<>>
        BY <1>5, <1>7
    <2> QED BY <2>1, <2>3, <2>4, <2>5 DEF stoi_throws
<1> HIDE DEF tokens, text
<1>9. InContext(text).content = get_context_value(db_, Env, file, info.line_num)
    <2>1. Len(tokens) = 2 /\ tokens[1] = file /\ tokens[2] = line
        <3> HIDE DEF file
        <3> QED BY <1>6
    <2> HIDE DEF file
    <2>2. InContext(text) = Answer("context", 200, get_context_value(db_, Env, file, info.line_num))
        BY <1>8, <2>1 DEF InContext, tokens
    <2> QED BY <2>2 DEF Answer
<1>10. PICK bp \in get_breakpoints(db_, info.filename, info.line_num, 0) :
          bp.instance_id = answer.content.instance_id /\ bp.breakpoint_id = id
    <2>1. PICK entry \in ToSet(db_.instance_set) :
              entry.instance_id = answer.content.instance_id /\ entry.breakpoint_id = id
        BY DEF Stopped
    <2>2. PICK b \in At(db_, info.filename, info.line_num, 0) : b.id = id
        BY <1>2 DEF At
    <2> DEFINE at == At(db_, info.filename, info.line_num, 0)
               rows == {row \in ToSet(db_.instance_set) \X at : row[1].breakpoint_id = row[2].id}
               found == [instance_id |-> entry.instance_id, breakpoint_id |-> b.id,
                         column |-> b.column_num]
    <2>3. <<entry, b>> \in rows
        <3> HIDE DEF at
        <3> QED BY <2>1, <2>2 DEF at
    <2>4. found \in get_breakpoints(db_, info.filename, info.line_num, 0)
        BY <2>3 DEF get_breakpoints
    <2>5. found.instance_id = answer.content.instance_id /\ found.breakpoint_id = id
        BY <2>1, <2>2
    <2> HIDE DEF found
    <2> QED BY <2>4, <2>5
<1>11. answer.content = get_breakpoint_value(db_, Env, bp.instance_id, bp.breakpoint_id)
    BY <1>1, <1>10, StopAnswer, FrameNow DEF IInv
<1>12. answer.content \in get_context_value(db_, Env, file, info.line_num)
    BY <1>4, <1>10, <1>11 DEF get_context_value
<1> QED BY <1>9, <1>12 DEF text

\* GET /context for the file and line a stop was shown at has the frame of that
\* stop, for every file name that translation leads back to.
THEOREM ContextHasTheStop == Spec => []ContextShowsTheStop
<1>1. IInv => ContextShowsTheStop
    BY ContextInv
<1> QED BY <1>1, Invariant, PTL

\* BreakpointIsFound: file, line and column lead to the file and the line.
LEMMA BreakpointInv == IInv => BreakpointIsFound
<1> SUFFICES ASSUME IInv, Stopped, src_path = <<>> \/ dst_path = <<>>,
                    NEW place \in answer.content.place, NEW line \in Numerals, NEW column \in Numerals,
                    WellParted(place.filename),
                    Number(line) = place.line_num, place.line_num # Modulus - 1
             PROVE  LET text == place.filename \o <<":">> \o line \o <<":">> \o column
                    IN \E bp \in AtBreakpoint(text).content : bp.id = answer.content.id
    BY DEF BreakpointIsFound
<1> DEFINE id == answer.content.id
           text == place.filename \o <<":">> \o line \o <<":">> \o column
<1>1. answer.request = "stop" /\ IsDatabase(db_, Modulus)
    BY StopAnswer DEF Stopped
<1>2. PICK info \in get_breakpoint_info(db_, id) : TRUE
    <2>1. answer.content.place =
            {[filename |-> ToUser(Fresh, x.filename), line_num |-> x.line_num] :
                x \in get_breakpoint_info(db_, id)}
        BY <1>1, PlacesOfStop
    <2> QED BY <2>1
<1>3. place = [filename |-> info.filename, line_num |-> info.line_num]
    BY <1>1, <1>2, PlaceOfStop, Translations
<1>4. PICK bp \in db_.breakpoint :
        bp.id = id /\ bp.filename = info.filename /\ bp.line_num = info.line_num
    BY <1>1, <1>2, BreakpointInfo
<1>5. info.filename \in String /\ info.line_num \in 0..Modulus - 1
    BY <1>1, <1>2, BreakpointInfo
<1>6. stoul(line, Modulus) = info.line_num
    <2>1. Number(line) = info.line_num
        BY <1>3
    <2>2. info.line_num % Modulus = info.line_num
        <3>1. Modulus \in Nat /\ info.line_num \in Nat /\ info.line_num < Modulus
            BY <1>5, RequestsAssumption
        <3> QED BY <3>1, SmallRemainder
    <2> QED BY <2>1, <2>2 DEF stoul
<1>6a. ~stoul_throws(line, Modulus)
    <2>1. Number(line) = info.line_num
        BY <1>3
    <2>2. Modulus \in Nat \ {0} /\ info.line_num \in Nat /\ info.line_num < Modulus
        BY <1>5, RequestsAssumption
    <2>3. Modulus <= Modulus * Modulus
        <3>1. \A m \in Nat \ {0} : m <= m * m
            OBVIOUS
        <3> QED BY <2>2, <3>1
    <2>4. ~(info.line_num >= Modulus * Modulus)
        <3>1. Modulus * Modulus \in Nat
            BY <2>2
        <3> QED BY <2>2, <2>3, <3>1
    <2> QED BY <2>1, <2>4 DEF stoul_throws
<1>7. get_fn_ln(text, Modulus) = [filename |-> info.filename, line_num |-> info.line_num]
    <2>1. line \in Seq(Digit) \ {<<>>} /\ column \in Seq(Digit) \ {<<>>}
        BY RequestsAssumption
    <2>2. get_fn_ln(text, Modulus) = Location(place.filename, stoul(line, Modulus), Modulus)
        BY <1>3, <1>5, <1>6a, <2>1, FileLineColumn
    <2>3. place.filename # <<>>
        BY DEF WellParted
    <2> HIDE DEF text
    <2> QED BY <1>3, <1>6, <2>2, <2>3 DEF Location
<1>8. get_fn_ln(text, Modulus) \notin {NoLocation, Thrown}
    <2>1. info.line_num # -1 /\ info.line_num # -2
        BY <1>5, RequestsAssumption
    <2> HIDE DEF text
    <2> QED BY <1>7, <2>1 DEF NoLocation, Thrown
<1> HIDE DEF text
<1>9. AtBreakpoint(text).content = get_breakpoint(db_, info.filename, info.line_num)
    BY <1>7, <1>8 DEF AtBreakpoint, Answer
<1>10. id \in get_breakpoint_id(db_, info.filename, info.line_num, 0)
    BY <1>4 DEF get_breakpoint_id, At
<1>11. [id |-> id, col |-> get_breakpoint_column(db_, id)]
            \in get_breakpoint(db_, info.filename, info.line_num)
    BY <1>10 DEF get_breakpoint
<1>12. \E b \in AtBreakpoint(text).content : b.id = id
    BY <1>9, <1>11
<1> QED BY <1>12 DEF text

\* GET /breakpoint with the file, line and column of a stop finds its breakpoint,
\* wherever the colons of the file's name are.
THEOREM FindsBreakpoint == Spec => []BreakpointIsFound
<1>1. IInv => BreakpointIsFound
    BY BreakpointInv
<1> QED BY <1>1, Invariant, PTL

-----------------------------------------------------------------------------
(* Values, frames and the graph.                                           *)

\* ValueIsOfTheNamedSignal: the map has what the simulator would say.
LEMMA ValueInv == IInv => ValueIsOfTheNamedSignal
<1> DEFINE name(x) == IF IsPrefix(top_name_, x[1]) THEN x[1] ELSE top_name_ \o x[1]
<1> SUFFICES ASSUME IInv, answer.request = "value", NEW x \in answer.content,
                    x[1] \notin TimeNames, find(x[1], top_name_) \in {0, 1}
             PROVE  x[2] = IF name(x) \in DOMAIN Signals THEN Signals[name(x)] ELSE NoValue
    BY DEF ValueIsOfTheNamedSignal
<1>1. x[2] = Read(top_name_, x[1])
    BY DEF IInv, AnswerIsPresent
<1>2. IsTop(top_name_)
    BY TypesNow DEF IInv
<1>3. x[1] \in String
    BY DEF IInv, AnswerIsPresent
<1>4. get_handle_name(top_name_, x[1]) = name(x)
    <2>1. get_handle_name(top_name_, x[1]) =
            IF find(x[1], top_name_) = 0 THEN top_name_ \o x[1] ELSE x[1]
        BY <1>2, <1>3, HandleName
    <2>2. IsPrefix(top_name_, x[1]) <=> find(x[1], top_name_) = 1
        BY <1>2, <1>3, PrefixIsFoundFirst DEF IsTop
    <2> QED BY <2>1, <2>2
<1> QED BY <1>1, <1>4 DEF Read

\* A value is that of the signal named under the present top name, whatever was
\* looked up before.
THEOREM ValuesAreCurrent == Spec => []ValueIsOfTheNamedSignal
<1>1. IInv => ValueIsOfTheNamedSignal
    BY ValueInv
<1> QED BY <1>1, Invariant, PTL

\* A name with a dot is not that of the time.
LEMMA DotIsNoTime ==
    ASSUME NEW a \in String, NEW b \in String
    PROVE  Dot(a, b) \in String /\ Dot(a, b) \notin TimeNames
<1> DEFINE name == a \o <<".">> \o b
           k == Len(a) + 1
<1>1. /\ name \in String
      /\ name[k] = "." /\ k \in 1..Len(name)
    <2>1. "." \in Character
        BY CharacterAssumption
    <2> QED BY <2>1, Between
<1> HIDE DEF name
<1>2. \A i \in 1..Len(Time) : Time[i] # "."
    BY DEF Time
<1>3. \A i \in 1..Len(<<"$">> \o Time) : (<<"$">> \o Time)[i] # "."
    BY DEF Time
<1> HIDE DEF k
<1>4. name # Time /\ name # <<"$">> \o Time
    BY <1>1, <1>2, <1>3
<1> QED BY <1>1, <1>4 DEF name, Dot, TimeNames

\* An id has one name.
LEMMA InstanceName ==
    ASSUME NEW db, IsDatabase(db, Modulus), NEW inst \in db.instance
    PROVE  get_instance_name(db, inst.id) = inst.handle_name
<1> DEFINE rows == {x \in db.instance : x.id = inst.id}
<1>1. rows = {inst}
    BY DEF IsDatabase, PrimaryKey
<1>2. (CHOOSE x \in rows : TRUE) = inst
    BY <1>1
<1>3. rows # {}
    BY <1>1
<1> HIDE DEF rows
<1>4. get_instance_name(db, inst.id) = IF rows = {} THEN <<>> ELSE (CHOOSE x \in rows : TRUE).handle_name
    BY DEF get_instance_name, rows
<1> QED BY <1>2, <1>3, <1>4

\* The variables of a frame are those of its instance.
LEMMA LinkedVariable ==
    ASSUME NEW db, IsDatabase(db, Modulus), NEW i, NEW id,
           NEW w \in get_variable_mapping(db, i, id) \cup get_context_variable(db, i, id)
    PROVE  /\ w.handle = get_instance_name(db, i)
           /\ w.handle \in String /\ w.value \in String
           /\ \E v \in db.variable : v.handle = i /\ v.value = w.value /\ v.is_var = w.is_var
<1>1. PICK row : w \in Linked(db, row, i)
    BY DEF get_variable_mapping, get_context_variable
<1>2. PICK v \in db.variable, inst \in db.instance :
        v.handle = i /\ inst.id = i /\ w = Variable(row.name, v, inst)
    BY <1>1 DEF Linked
<1>3. w.handle = inst.handle_name /\ w.value = v.value /\ w.is_var = v.is_var
    BY <1>2 DEF Variable
<1>4. inst.handle_name \in String /\ v.value \in String
    BY DEF IsDatabase, Tables
<1> QED BY <1>2, <1>3, <1>4, InstanceName

\* The full names of an instance's signals begin with its own.
LEMMA OwnPrefix ==
    ASSUME NEW top, IsTop(top), NEW name \in String, NEW value \in String,
           find(Dot(name, value), top) = 0
    PROVE  IsPrefix(Dot(get_handle_name(top, name), <<>>), top \o Dot(name, value))
<1>0. "." \in Character /\ <<".">> \in String /\ top \in String /\ <<>> \in String
    <2>1. "." \in Character
        BY CharacterAssumption
    <2> QED BY <2>1 DEF String, IsTop
<1>1. Dot(name, value) = name \o (<<".">> \o value) /\ <<".">> \o value \in String
    BY <1>0, Concat, ConcatAssociative DEF Dot, String
<1>2. find(name, top) = 0
    <2>1. find(name, top) # 0 => find(name \o (<<".">> \o value), top) # 0
        BY <1>0, <1>1, FindWithin
    <2>2. find(name \o (<<".">> \o value), top) = 0
        BY <1>1
    <2> QED BY <2>1, <2>2
<1>3. get_handle_name(top, name) = top \o name
    BY <1>2, HandleName
<1> DEFINE own == (top \o name) \o <<".">>
<1>4. top \o name \in String /\ own \in String
    BY <1>0, Concat
<1>5. Dot(top \o name, <<>>) = own
    <2>1. own \o <<>> = own
        <3> HIDE DEF own
        <3> QED BY <1>4, ConcatEmpty
    <2> QED BY <2>1 DEF Dot
<1>6. top \o Dot(name, value) = own \o value
    <2>1. top \o ((name \o <<".">>) \o value) = (top \o (name \o <<".">>)) \o value
        BY <1>0, Concat, ConcatAssociative DEF String
    <2>2. top \o (name \o <<".">>) = own
        BY <1>0, ConcatAssociative DEF String
    <2> HIDE DEF own
    <2> QED BY <2>1, <2>2 DEF Dot
<1> HIDE DEF own
<1>7. IsPrefix(own, own \o value)
    <2>1. own \o value \in String /\ find(own \o value, own) = 1
        BY <1>4, Concat, FindPrefix
    <2> QED BY <1>4, <2>1, PrefixIsFoundFirst
<1> QED BY <1>3, <1>5, <1>6, <1>7

\* FrameIsOfItsInstance: the rows that a breakpoint shares are joined with the
\* instance, and a signal's name gets the prefix that the instance's would get.
LEMMA FrameInv == IInv => FrameIsOfItsInstance
<1> DEFINE i == answer.content.instance_id
           id == answer.content.id
           name == answer.content.instance_name
           rows == {v \in db_.variable : v.handle = i}
           own == Dot(get_handle_name(top_name_, name), <<>>)
           variables == get_variable_mapping(db_, i, id) \cup get_context_variable(db_, i, id)
           Value(w) == IF w.is_var THEN get_value(Fresh, Dot(w.handle, w.value)) ELSE w.value
<1> SUFFICES ASSUME IInv, answer.request = "stop",
                    \A v \in rows : find(Dot(name, v.value), top_name_) = 0,
                    NEW x \in answer.content.local \cup answer.content.generator
             PROVE  \/ \E v \in rows : ~v.is_var /\ v.value = x.value
                    \/ x.value = NoValue
                    \/ \E signal \in DOMAIN Signals :
                          IsPrefix(own, signal) /\ Signals[signal] = x.value
    BY DEF FrameIsOfItsInstance
<1>1. IsDatabase(db_, Modulus) /\ IsTop(top_name_)
    BY StopAnswer, TypesNow DEF IInv
<1>2. name = get_instance_name(db_, i)
    <2> DEFINE frame == get_breakpoint_value(db_, Fresh, i, id)
    <2>1. frame.instance_name = get_instance_name(db_, i)
        BY DEF get_breakpoint_value
    <2>2. answer.content = frame
        BY StopAnswer
    <2> HIDE DEF frame
    <2> QED BY <2>1, <2>2
<1>3. PICK w \in variables : x.value = Value(w)
    <2> DEFINE frame == get_breakpoint_value(db_, Fresh, i, id)
    <2>1. \A y \in frame.local \cup frame.generator : \E w \in variables : y.value = Value(w)
        BY DEF get_breakpoint_value
    <2>2. answer.content = frame
        BY StopAnswer
    <2> HIDE DEF frame, Value, variables
    <2> QED BY <2>1, <2>2
<1> HIDE DEF variables
<1>4. /\ w.handle = name /\ name \in String /\ w.value \in String
      /\ \E v \in rows : v.value = w.value /\ v.is_var = w.is_var
    BY <1>1, <1>2, LinkedVariable DEF variables
<1> HIDE DEF rows
<1>5. CASE ~w.is_var
    BY <1>3, <1>4, <1>5
<1>6. CASE w.is_var
    <2> DEFINE full == Dot(name, w.value)
    <2>1. full \in String /\ full \notin TimeNames
        BY <1>4, DotIsNoTime
    <2>2. x.value = Read(top_name_, full)
        BY <1>3, <1>4, <1>6, ValueFresh
    <2>3. find(full, top_name_) = 0
        BY <1>4
    <2>4. get_handle_name(top_name_, full) = top_name_ \o full
        <3> HIDE DEF full
        <3> QED BY <1>1, <2>1, <2>3, HandleName
    <2>5. IsPrefix(own, top_name_ \o full)
        BY <1>1, <1>4, <2>3, OwnPrefix
    <2> HIDE DEF full, own
    <2> QED BY <2>1, <2>2, <2>4, <2>5 DEF Read
<1> QED BY <1>5, <1>6

\* The values of a frame are constants, or signals of the frame's own instance.
THEOREM FramesAreOfOneInstance == Spec => []FrameIsOfItsInstance
<1>1. IInv => FrameIsOfItsInstance
    BY FrameInv
<1> QED BY <1>1, Invariant, PTL

\* What leaves a module of a scope is what its graph is made of.
LEMMA GraphOfScope ==
    ASSUME NEW db, NEW scope, NEW conn
    PROVE  conn \in GraphConnections(db, scope)
              <=> conn \in Connections(db) /\ conn.handle_from \in Modules(db, scope)
BY DEF GraphConnections, get_connection_from, Modules

\* In a graph each end of a connection that is shown has the value of one of the
\* sources that meet there, the first of them.
LEMMA GraphHasEnds ==
    ASSUME NEW env, NEW shown, NEW rank \in [shown -> Nat], NEW conn \in shown,
           NEW name \in Ends(conn)
    PROVE  LET graph == GraphInOrder(env, shown, rank)
           IN /\ name \in DOMAIN graph
              /\ \E c \in shown : name \in Ends(c) /\ graph[name] = get_value(env, FromName(c))
<1> DEFINE at == {c \in shown : name \in Ends(c)}
           Least(c) == /\ name \in Ends(c)
                       /\ \A other \in shown : name \in Ends(other) => rank[c] <= rank[other]
           first == CHOOSE c \in shown : Least(c)
           ranks == {rank[c] : c \in at}
<1>1. \E c \in shown : Least(c)
    <2>1. ranks \in SUBSET Nat /\ ranks # {}
        OBVIOUS
    <2>2. PICK n \in ranks : \A m \in ranks : n <= m
        <3> HIDE DEF ranks
        <3> QED BY <2>1, LeastElement
    <2>3. PICK c \in at : n = rank[c]
        OBVIOUS
    <2>4. \A other \in shown : name \in Ends(other) => rank[other] \in ranks
        OBVIOUS
    <2>5. \A other \in shown : name \in Ends(other) => rank[c] <= rank[other]
        <3> HIDE DEF ranks
        <3> QED BY <2>2, <2>3, <2>4
    <2> QED BY <2>3, <2>5
<1>2. first \in shown /\ name \in Ends(first)
    <2>1. first \in shown /\ Least(first)
        <3> HIDE DEF Least
        <3> QED BY <1>1
    <2> QED BY <2>1
<1>3. name \in UNION {Ends(c) : c \in shown}
    OBVIOUS
<1>4. /\ name \in DOMAIN GraphInOrder(env, shown, rank)
      /\ GraphInOrder(env, shown, rank)[name] = get_value(env, FromName(first))
    BY <1>3 DEF GraphInOrder
<1> HIDE DEF first
<1> QED BY <1>2, <1>4

\* GraphShowsConnections: a connection that enters a module leaves another.
LEMMA GraphInv == IInv => GraphShowsConnections
<1> DEFINE scope == Modules(db_, current_scope)
           HasValue(conn) == get_value(Env, FromName(conn)) # NoValue
           shown == Shown(db_, Env, current_scope)
<1> SUFFICES ASSUME IInv, answer.request = "clock",
                    NEW n \in scope, NEW conn \in get_connection_to(db_, n),
                    conn.handle_from \in scope, HasValue(conn),
                    NEW name \in Ends(conn)
             PROVE  /\ name \in DOMAIN answer.content
                    /\ \E c \in Connections(db_) :
                          /\ c.handle_from \in scope /\ HasValue(c)
                          /\ name \in Ends(c)
                          /\ answer.content[name] = get_value(Env, FromName(c))
    BY DEF GraphShowsConnections
<1>1. answer.content \in get_graph_value(db_, Env, current_scope)
    BY GraphNow DEF IInv, AnswerIsPresent
<1>2. PICK rank \in Injection(shown, 1..Cardinality(shown)) :
        answer.content = GraphInOrder(Env, shown, rank)
    BY <1>1 DEF get_graph_value
<1>3. rank \in [shown -> Nat]
    <2>1. 1..Cardinality(shown) \subseteq Nat
        OBVIOUS
    <2>2. rank \in [shown -> 1..Cardinality(shown)]
        BY <1>2 DEF Injection
    <2> HIDE DEF shown
    <2> QED BY <2>1, <2>2
<1>4. \A c : c \in shown <=> c \in Connections(db_) /\ c.handle_from \in scope /\ HasValue(c)
    BY GraphOfScope DEF Shown
<1>5. conn \in shown
    BY <1>4 DEF get_connection_to
<1> HIDE DEF shown
<1>6. /\ name \in DOMAIN answer.content
      /\ \E c \in shown : name \in Ends(c) /\ answer.content[name] = get_value(Env, FromName(c))
    BY <1>2, <1>3, <1>5, GraphHasEnds
<1> HIDE DEF HasValue
<1> QED BY <1>4, <1>6

\* The graph posted at a clock stop shows both ends of every connection between two
\* modules of its scope, each with the value of a source that meets there.
THEOREM GraphIsComplete == Spec => []GraphShowsConnections
<1>1. IInv => GraphShowsConnections
    BY GraphInv
<1> QED BY <1>1, Invariant, PTL

-----------------------------------------------------------------------------
(* The hierarchy.                                                          *)

\* The module behind a row of the hierarchy is told of when its parent is asked
\* for, the top by the empty name.
LEMMA ChildIsTold ==
    ASSUME NEW db, NEW row \in db.hierarchy, NEW parent \in db.instance,
           parent.id = row.parent_handle, NEW scope,
           parent.handle_name = IF scope = <<>> THEN db.top_name ELSE scope
    PROVE  Dot(parent.handle_name, row.child) \in Modules(db, scope)
<1> DEFINE h == [parent_handle |-> parent.handle_name, child |-> row.child]
<1>1. h \in get_hierarchy(db, scope)
    BY DEF get_hierarchy
<1>2. h.parent_handle = parent.handle_name /\ h.child = row.child
    OBVIOUS
<1> HIDE DEF h
<1>3. Dot(h.parent_handle, h.child) \in Modules(db, scope)
    BY <1>1 DEF Modules
<1> QED BY <1>2, <1>3

\* What is told of is the child of an instance.
LEMMA ModuleIsChild ==
    ASSUME NEW db, NEW scope, NEW name \in Modules(db, scope)
    PROVE  \E row \in db.hierarchy, parent \in db.instance :
              parent.id = row.parent_handle /\ name = Dot(parent.handle_name, row.child)
<1>1. PICK h \in get_hierarchy(db, scope) : name = Dot(h.parent_handle, h.child)
    BY DEF Modules
<1> DEFINE parent_name == IF scope = <<>> THEN db.top_name ELSE scope
<1>2. PICK row \in db.hierarchy :
        /\ h = [parent_handle |-> parent_name, child |-> row.child]
        /\ \E inst \in db.instance : inst.handle_name = parent_name /\ inst.id = row.parent_handle
    BY DEF get_hierarchy
<1> QED BY <1>1, <1>2

\* WalkReachesAll: of the instances that were not told of, one with the shortest
\* name would have a parent that was.
LEMMA WalkInv == IInv => WalkReachesAll
<1> DEFINE told == UNION {Modules(db_, scope) : scope \in asked}
           top == db_.top_name
           Known(name) == name \in told \cup {top}
<1> SUFFICES ASSUME IInv, db_ # NoDb, IsTree(db_),
                    <<>> \in asked, {name \in told : Routed(name)} \subseteq asked
             PROVE  {inst.handle_name : inst \in db_.instance} = told \cup {top}
    BY DEF WalkReachesAll
<1>1. /\ \A inst \in db_.instance : inst.handle_name \in String
      /\ \A row \in db_.hierarchy : row.child \in String
    BY TypesNow DEF IInv, IsDatabase, Tables
<1>2. ASSUME NEW name, Known(name) PROVE \E inst \in db_.instance : inst.handle_name = name
    <2>1. CASE name = top
        BY <2>1 DEF IsTree
    <2>2. ASSUME NEW scope \in asked, name \in Modules(db_, scope)
          PROVE  \E inst \in db_.instance : inst.handle_name = name
        <3>1. PICK row \in db_.hierarchy, parent \in db_.instance :
                parent.id = row.parent_handle /\ name = Dot(parent.handle_name, row.child)
            BY <2>2, ModuleIsChild
        <3> QED BY <3>1 DEF IsTree
    <2> QED BY <1>2, <2>1, <2>2
<1>3. ASSUME NEW inst \in db_.instance PROVE Known(inst.handle_name)
    <2> DEFINE Others == {x \in db_.instance : ~Known(x.handle_name)}
               Lengths == {Len(x.handle_name) : x \in Others}
    <2> SUFFICES ASSUME Others # {} PROVE FALSE
        OBVIOUS
    <2> HIDE DEF Known
    <2>1. PICK f \in Others : \A g \in Others : Len(f.handle_name) <= Len(g.handle_name)
        <3>1. Lengths \in SUBSET Nat /\ Lengths # {}
            <4>1. \A x \in Others : Len(x.handle_name) \in Nat
                BY <1>1 DEF String
            <4> HIDE DEF Others
            <4> QED BY <4>1
        <3> HIDE DEF Others, Lengths
        <3>2. PICK n \in Lengths : \A m \in Lengths : n <= m
            BY <3>1, LeastElement
        <3> QED BY <3>2 DEF Lengths
    <2>2. f \in db_.instance /\ ~Known(f.handle_name) /\ f.handle_name # top
        BY <2>1 DEF Known
    <2>3. PICK row \in db_.hierarchy, parent \in db_.instance :
            parent.id = row.parent_handle /\ f.handle_name = Dot(parent.handle_name, row.child)
        BY <2>2 DEF IsTree
    <2>4. Known(parent.handle_name)
        <3>1. Len(parent.handle_name) < Len(f.handle_name)
            <4>1. parent.handle_name \in String /\ row.child \in String /\ "." \in Character
                BY <1>1, CharacterAssumption
            <4> DEFINE a == parent.handle_name
                       b == row.child
            <4>2. /\ Len(a \o <<".">> \o b) = Len(a) + 1 + Len(b)
                  /\ Len(a) \in Nat /\ Len(b) \in Nat
                <5> HIDE DEF a, b
                <5> QED BY <4>1, Between DEF a, b
            <4>3. Len(f.handle_name) = Len(a) + 1 + Len(b)
                BY <2>3, <4>2 DEF Dot
            <4> HIDE DEF a, b
            <4>4. Len(a) < Len(f.handle_name)
                BY <4>2, <4>3
            <4> QED BY <4>4 DEF a
        <3>2. Len(parent.handle_name) \in Nat /\ Len(f.handle_name) \in Nat
            BY <1>1, <2>2 DEF String
        <3>3. parent \notin Others
            <4> HIDE DEF Others
            <4> QED BY <2>1, <3>1, <3>2
        <3> QED BY <3>3
    <2>5. CASE parent.handle_name = top
        <3>1. f.handle_name \in Modules(db_, <<>>)
            BY <2>3, <2>5, ChildIsTold
        <3> QED BY <2>2, <3>1 DEF Known
    <2>6. CASE parent.handle_name # top
        <3>1. Routed(parent.handle_name)
            BY <2>3, <2>6 DEF IsTree
        <3>2. parent.handle_name \in asked /\ parent.handle_name # <<>>
            BY <2>4, <2>6, <3>1 DEF Known, Routed
        <3>3. f.handle_name \in Modules(db_, parent.handle_name)
            BY <2>3, <3>2, ChildIsTold
        <3> QED BY <2>2, <3>2, <3>3 DEF Known
    <2> QED BY <2>5, <2>6
<1> HIDE DEF told
<1> QED BY <1>2, <1>3

\* A walk through /hierarchy reaches every instance, however deep the design is.
THEOREM WalksReachAll == Spec => []WalkReachesAll
<1>1. IInv => WalkReachesAll
    BY WalkInv
<1> QED BY <1>1, Invariant, PTL

-----------------------------------------------------------------------------
(* Conditions.                                                             *)

\* A symbol of a condition is a generator variable, or bears the name of none.
LEMMA SymbolOrigin ==
    ASSUME NEW db, NEW top, NEW id, NEW expr,
           NEW s \in SymbolHandles(db, top, id, expr, Word)
    PROVE  LET self == SelfSymbols(db, top, id, expr, Word)
           IN /\ is_expr_symbol(expr, s.name, Word)
              /\ s \in self \/ \A t \in self : t.name # s.name
<1> DEFINE self == SelfSymbols(db, top, id, expr, Word)
           context == ContextSymbols(db, top, id, expr, Word)
<1>1. CASE s \in self
    <2>1. PICK v \in SelfVariables(db, id, expr, Word) : s.name = v.name
        BY <1>1 DEF SelfSymbols, Symbol
    <2> QED BY <1>1, <2>1 DEF SelfVariables
<1>2. CASE s \in context
    <2>1. PICK v \in ContextVariables(db, id, expr, Word) : s.name = v.name
        BY <1>2 DEF ContextSymbols, NewSymbols, Symbol
    <2>2. \A t \in self : t.name # s.name
        BY <1>2 DEF ContextSymbols, NewSymbols
    <2> QED BY <2>1, <2>2 DEF ContextVariables
<1>3. CASE s \in TimeSymbols(db, top, id, expr, Word)
    <2> HIDE DEF self, context
    <2>1. PICK time :
            /\ is_expr_symbol(expr, time, Word)
            /\ s \in NewSymbols(self \cup context, {Symbol(time, <<"$">> \o Time)})
        BY <1>3 DEF TimeSymbols, self, context
    <2>2. s.name = time /\ \A t \in self : t.name # s.name
        BY <2>1 DEF NewSymbols, Symbol
    <2> QED BY <2>1, <2>2 DEF self
<1> QED BY <1>1, <1>2, <1>3 DEF SymbolHandles

\* Its handle is a full name, or the time.
LEMMA SymbolHandle ==
    ASSUME NEW db, IsDatabase(db, Modulus), NEW top, NEW id, NEW expr,
           NEW s \in SymbolHandles(db, top, id, expr, Word)
    PROVE  s.handle \in TimeNames \/ \E name \in String : s.handle = get_handle_name(top, name)
<1>1. ASSUME s \in SelfSymbols(db, top, id, expr, Word)
      PROVE  \E name \in String : s.handle = get_handle_name(top, name)
    <2>1. PICK v \in SelfVariables(db, id, expr, Word) :
            s = Symbol(v.name, get_handle_name(top, Dot(v.handle, v.value)))
        BY <1>1 DEF SelfSymbols
    <2>2. v.handle \in String /\ v.value \in String
        <3>1. v \in get_variable_mapping(db, get_instance_id(db, id), id)
            BY DEF SelfVariables
        <3> QED BY <3>1, LinkedVariable
    <2>3. Dot(v.handle, v.value) \in String
        BY <2>2, DotIsNoTime
    <2> QED BY <2>1, <2>3 DEF Symbol
<1>2. ASSUME s \in ContextSymbols(db, top, id, expr, Word)
      PROVE  \E name \in String : s.handle = get_handle_name(top, name)
    <2>1. PICK v \in ContextVariables(db, id, expr, Word) :
            s = Symbol(v.name, get_handle_name(top, v.value))
        BY <1>2 DEF ContextSymbols, NewSymbols
    <2>2. v.value \in String
        <3>1. v \in get_context_variable(db, get_instance_id(db, id), id)
            BY DEF ContextVariables
        <3> QED BY <3>1, LinkedVariable
    <2> QED BY <2>1, <2>2 DEF Symbol
<1>3. ASSUME s \in TimeSymbols(db, top, id, expr, Word) PROVE s.handle \in TimeNames
    <2>1. PICK some, time : s \in NewSymbols(some, {Symbol(time, <<"$">> \o Time)})
        BY <1>3 DEF TimeSymbols
    <2>2. s.handle = <<"$">> \o Time
        BY <2>1 DEF NewSymbols, Symbol
    <2> QED BY <2>2, Zenon DEF TimeNames
<1> QED BY <1>1, <1>2, <1>3 DEF SymbolHandles

\* ConditionKeepsItsSignal: a full name stays one, and another top name is put in
\* front of it or is not.
LEMMA KeepsInv == IInv => ConditionKeepsItsSignal
<1> SUFFICES ASSUME IInv, NEW id \in DOMAIN condition, NEW s \in breakpoint_symbol_mapping[id],
                    s.handle \notin TimeNames,
                    top_name_ \o get_handle_name(condition[id].top, s.handle) \notin DOMAIN Signals
             PROVE  LET full == get_handle_name(condition[id].top, s.handle)
                    IN get_value(Env, s.handle) \in
                          {NoValue, IF full \in DOMAIN Signals THEN Signals[full] ELSE NoValue}
    BY DEF ConditionKeepsItsSignal
<1> DEFINE top == condition[id].top
           handle == s.handle
<1>1. ConditionIsStored(id) /\ IsTop(top_name_)
    BY TypesNow DEF IInv, ConditionsAreStored
<1>2. PICK name \in String : handle = get_handle_name(top, name)
    BY <1>1, SymbolHandle DEF ConditionIsStored
<1>3. IsTop(top)
    BY <1>1 DEF ConditionIsStored
<1>4. get_value(Env, handle) = Read(top_name_, handle)
    BY ValueNow DEF IInv
<1> HIDE DEF top, handle
<1>5. handle \in String /\ get_handle_name(top, handle) = handle
    BY <1>2, <1>3, HandleName
<1>6. get_handle_name(top_name_, handle) \in {top_name_ \o handle, handle}
    BY <1>1, <1>5, HandleName
<1>7. handle \notin TimeNames /\ top_name_ \o handle \notin DOMAIN Signals
    BY <1>5 DEF top, handle
<1>8. Read(top_name_, handle) \in
        {NoValue, IF handle \in DOMAIN Signals THEN Signals[handle] ELSE NoValue}
    BY <1>6, <1>7 DEF Read
<1> QED BY <1>4, <1>5, <1>8 DEF top, handle

\* A condition never reads another signal than the one it was set for, whatever
\* the top name becomes.
THEOREM ConditionsKeepTheirSignal == Spec => []ConditionKeepsItsSignal
<1>1. IInv => ConditionKeepsItsSignal
    BY KeepsInv
<1> QED BY <1>1, Invariant, PTL

\* A breakpoint that one instance has leads to that instance.
LEMMA OnlyInstance ==
    ASSUME NEW db, IsDatabase(db, Modulus), NEW id, NEW i,
           \E entry \in ToSet(db.instance_set) : entry.breakpoint_id = id,
           \A entry \in ToSet(db.instance_set) : entry.breakpoint_id = id => entry.instance_id = i
    PROVE  get_instance_id(db, id) = i
<1> DEFINE table == db.instance_set
           rows == {k \in DOMAIN table : table[k].breakpoint_id = id}
           first == CHOOSE k \in rows : \A j \in rows : k <= j
<1>1. table \in Seq([instance_id : Nat, breakpoint_id : Nat])
    BY DEF IsDatabase, Tables
<1>2. ToSet(table) = {table[k] : k \in DOMAIN table}
    BY DEF ToSet
<1>3. rows \in SUBSET Nat /\ rows # {}
    <2>1. DOMAIN table \in SUBSET Nat
        <3> HIDE DEF table
        <3> QED BY <1>1
    <2> QED BY <1>2, <2>1
<1>4. first \in rows
    <2> HIDE DEF rows
    <2>1. \E k \in rows : \A j \in rows : k <= j
        BY <1>3, LeastElement
    <2> QED BY <2>1
<1>5. table[first].instance_id = i
    <2>1. first \in DOMAIN table /\ table[first].breakpoint_id = id
        BY <1>4
    <2> HIDE DEF first, rows
    <2> QED BY <1>2, <2>1
<1>6. get_instance_id(db, id) = IF rows = {} THEN NoInstance ELSE table[first].instance_id
    BY DEF get_instance_id
<1> HIDE DEF first, rows, table
<1> QED BY <1>3, <1>5, <1>6

\* At a stop of a breakpoint of one instance the condition is of that instance.
LEMMA LoneInstance ==
    ASSUME IsDatabase(db_, Modulus), Stopped,
           \A entry \in ToSet(db_.instance_set) :
              entry.breakpoint_id = answer.content.id =>
                 entry.instance_id = answer.content.instance_id
    PROVE  get_instance_id(db_, answer.content.id) = answer.content.instance_id
<1>1. \E entry \in ToSet(db_.instance_set) : entry.breakpoint_id = answer.content.id
    BY DEF Stopped
<1> QED BY <1>1, OnlyInstance

\* The full name of a signal is read like the name itself.
LEMMA ReadFullName ==
    ASSUME NEW top, IsTop(top), NEW a \in String, NEW b \in String
    PROVE  Read(top, get_handle_name(top, Dot(a, b))) = Read(top, Dot(a, b))
<1> DEFINE name == Dot(a, b)
           full == get_handle_name(top, name)
<1>1. name \in String /\ name \notin TimeNames
    BY DotIsNoTime
<1>2. top \in String /\ "." \in Character
    BY CharacterAssumption DEF IsTop
<1>3. top \o name = Dot(top \o a, b) /\ top \o a \in String
    <2>1. <<".">> \in Seq(Character)
        BY <1>2
    <2>2. top \o a \in String /\ a \o <<".">> \in String
        BY <1>2, <2>1, Concat DEF String
    <2>3. top \o ((a \o <<".">>) \o b) = ((top \o a) \o <<".">>) \o b
        <3>1. top \o ((a \o <<".">>) \o b) = (top \o (a \o <<".">>)) \o b
            BY <1>2, <2>2, ConcatAssociative DEF String
        <3>2. top \o (a \o <<".">>) = (top \o a) \o <<".">>
            BY <1>2, <2>1, ConcatAssociative DEF String
        <3> QED BY <3>1, <3>2
    <2> QED BY <2>2, <2>3 DEF Dot
<1>4. top \o name \notin TimeNames
    BY <1>3, DotIsNoTime
<1> HIDE DEF name
<1>5. full = IF find(name, top) = 0 THEN top \o name ELSE name
    BY <1>1, HandleName
<1>6. get_handle_name(top, full) = full
    BY <1>1, HandleName
<1>7. full \notin TimeNames
    BY <1>1, <1>4, <1>5
<1> HIDE DEF full
<1>8. Read(top, full) = Read(top, name)
    BY <1>1, <1>6, <1>7 DEF Read, full
<1> QED BY <1>8 DEF full, name

\* ConditionReadsItsInstance: the symbol is the generator variable of its name.
LEMMA ConditionInv == IInv => ConditionReadsItsInstance
<1> DEFINE id == answer.content.id
           i == answer.content.instance_id
           expr == condition[id].expr
           variables == get_variable_mapping(db_, i, id)
<1> SUFFICES ASSUME IInv, Stopped, id \in DOMAIN condition,
                    \A entry \in ToSet(db_.instance_set) :
                        entry.breakpoint_id = id => entry.instance_id = i,
                    condition[id].top = top_name_, condition[id].db = db_,
                    NEW v \in variables, NEW s \in breakpoint_symbol_mapping[id],
                    v.is_var, s.name = v.name, v.name # <<>>,
                    \A w \in variables : w.name = v.name => w = v
             PROVE  get_value(Env, s.handle) = get_value(Env, Dot(v.handle, v.value))
    BY DEF ConditionReadsItsInstance
<1>1. answer.request = "stop" /\ IsDatabase(db_, Modulus) /\ IsTop(top_name_)
    BY StopAnswer, TypesNow DEF Stopped, IInv
<1>2. get_instance_id(db_, id) = i
    BY <1>1, LoneInstance
<1> DEFINE self == SelfSymbols(db_, top_name_, id, expr, Word)
<1>3. s \in SymbolHandles(db_, top_name_, id, expr, Word)
    BY DEF IInv, ConditionsAreStored, ConditionIsStored
<1>4. v.handle \in String /\ v.value \in String
    BY <1>1, LinkedVariable
<1>5. is_expr_symbol(expr, s.name, Word) /\ (s \in self \/ \A t \in self : t.name # s.name)
    <2> HIDE DEF id, expr
    <2> QED BY <1>3, SymbolOrigin
<1>6. s \in self
    <2> DEFINE t == Symbol(v.name, get_handle_name(top_name_, Dot(v.handle, v.value)))
    <2>1. v \in SelfVariables(db_, id, expr, Word)
        BY <1>2, <1>5 DEF SelfVariables
    <2>2. t \in self /\ t.name = v.name
        BY <2>1 DEF SelfSymbols, Symbol
    <2> HIDE DEF t, self
    <2> QED BY <1>5, <2>2
<1>7. PICK w \in SelfVariables(db_, id, expr, Word) :
        /\ s.name = w.name
        /\ s.handle = get_handle_name(top_name_, Dot(w.handle, w.value))
    BY <1>6 DEF SelfSymbols, Symbol
<1>8. w = v
    BY <1>2, <1>7 DEF SelfVariables
<1>9. get_value(Env, s.handle) = Read(top_name_, s.handle)
    BY ValueNow DEF IInv
<1>10. get_value(Env, Dot(v.handle, v.value)) = Read(top_name_, Dot(v.handle, v.value))
    BY ValueNow DEF IInv
<1>11. s.handle = get_handle_name(top_name_, Dot(v.handle, v.value))
    BY <1>7, <1>8
<1> QED BY <1>1, <1>4, <1>9, <1>10, <1>11, ReadFullName

\* A condition reads the generator variable of the one instance that has its
\* breakpoint.
THEOREM ConditionsReadTheirInstance == Spec => []ConditionReadsItsInstance
<1>1. IInv => ConditionReadsItsInstance
    BY ConditionInv
<1> QED BY <1>1, Invariant, PTL
=============================================================================
