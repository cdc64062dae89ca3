----------------------------- MODULE MCRequests -----------------------------
(* A design "d" with two instances of one module, one of them also alone   *)
(* at a breakpoint, and one instance whose name has an index.  A database  *)
(* with every table, one with only those the documentation requires, and a *)
(* file that is none.                                                      *)
EXTENDS Requests

\* A text as a sequence of its characters.
Chars(s) == [i \in 1..Len(s) |-> SubSeq(s, i, i)]

MCCharacter == ToSet(Chars("0123456789./:$_ +-[]<>abdefghimstuxyTOP"))

MCWord == ToSet(Chars("0123456789abdefghimstuxyTOP_"))

Inst(id, name) == [id |-> id, handle_name |-> Chars(name)]

Var(id, instance, value, is_var) ==
    [id |-> id, handle |-> instance, value |-> value, is_var |-> is_var]

Instances == {Inst(1, "d"), Inst(2, "d.a"), Inst(3, "d.b"), Inst(4, "d.m[0]")}

Breakpoints ==
    {[id |-> 1, filename |-> Chars("/s/f"), line_num |-> 1, column_num |-> 2],
     [id |-> 2, filename |-> Chars("/s/g:h"), line_num |-> 12, column_num |-> 1]}

Variables ==
    {Var(1, 2, Chars("x"), TRUE), Var(2, 3, Chars("x"), TRUE),
     Var(3, 2, Chars("y[0]"), TRUE), Var(4, 2, Chars("x8"), FALSE)}

Full ==
    [breakpoint |-> Breakpoints,
     instance |-> Instances,
     instance_set |->
         <<[instance_id |-> 2, breakpoint_id |-> 1], [instance_id |-> 3, breakpoint_id |-> 1],
           [instance_id |-> 2, breakpoint_id |-> 2]>>,
     variable |-> Variables,
     generator_variable |->
         {[variable_id |-> 1, name |-> Chars("x")], [variable_id |-> 2, name |-> Chars("x")],
          [variable_id |-> 3, name |-> Chars("y.0")]},
     context |->
         {[variable_id |-> 1, breakpoint_id |-> 1, name |-> Chars("b")],
          [variable_id |-> 2, breakpoint_id |-> 1, name |-> Chars("b")],
          [variable_id |-> 1, breakpoint_id |-> 2, name |-> Chars("x")],
          [variable_id |-> 4, breakpoint_id |-> 2, name |-> Chars("time")]},
     hierarchy |->
         {[parent_handle |-> 1, child |-> Chars("a")], [parent_handle |-> 1, child |-> Chars("b")],
          [parent_handle |-> 1, child |-> Chars("m[0]")]},
     connection |->
         {[handle_from |-> 2, var_from |-> Chars("x"), handle_to |-> 3, var_to |-> Chars("i")],
          [handle_from |-> 3, var_from |-> Chars("x"), handle_to |-> 3, var_to |-> Chars("i")],
          [handle_from |-> 1, var_from |-> Chars("i"), handle_to |-> 2, var_to |-> Chars("i")]},
     top_name |-> Chars("d")]

Minimal ==
    [Full EXCEPT !.instance_set = <<>>, !.generator_variable = {}, !.context = {},
                 !.hierarchy = {}, !.connection = {}, !.top_name = <<>>]

CONSTANTS broken, none

MCFiles ==
    [file \in {Chars("/s/1"), Chars("/s/2"), Chars("/s/3")} |->
        CASE file = Chars("/s/1") -> Full
          [] file = Chars("/s/2") -> Minimal
          [] OTHER -> broken]

MCSignals ==
    [name \in {Chars("TOP.d.a.x"), Chars("TOP.d.a.y[0]"), Chars("TOP.d.b.x"), Chars("t.d.a.x")} |->
        CASE name = Chars("TOP.d.a.x") -> Chars("1")
          [] name = Chars("TOP.d.b.x") -> Chars("2")
          [] name = Chars("t.d.a.x") -> Chars("3")
          [] OTHER -> Chars("4")]

MCNow == Chars("9")
MCTops == {Chars("TOP"), Chars("t")}
MCInitTop == Chars("TOP.")
MCDatabases == {Chars("/u/1"), Chars("/s/1"), Chars("/s/2"), Chars("/u/3")}

MCFolders == {<<Chars("/u"), Chars("/s/")>>, <<Chars("/u/"), Chars("/s")>>}

MCTexts == {Chars("/u/f:1"), Chars("/s/f:1:2"), Chars("/s/f:x"), Chars("/s/f:31"), Chars("/s/f:1024")}
MCFileNames == {Chars("/u/f"), <<>>}
MCNames == {Chars("d.a"), Chars("d.a.x"), Chars("TOP.d.a.x")}
MCScopes == {Chars("$"), Chars("d.a"), Chars("d.b")}
MCPosted ==
    {<<2, Chars("x>2")>>, <<1, Chars("time>1")>>, <<1, Chars("b<x")>>, <<2, Chars("y.0>1")>>,
     <<2, Chars("time>1")>>}
MCNumerals == {Chars("1"), Chars("01"), Chars("2"), Chars("12"), Chars("31")}
MCCalls == {<<2, 1>>, <<3, 1>>, <<2, 2>>}
=============================================================================
