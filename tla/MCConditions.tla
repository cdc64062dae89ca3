---------------------------- MODULE MCConditions ----------------------------
(* Conditions on a signal and the time.  is_expr_symbol recognises a name  *)
(* only at the very beginning of the text.                                 *)
EXTENDS Conditions, TLC, Naturals, Sequences

H == INSTANCE Util WITH Character <- STRING

Chars(s) == [i \in 1..Len(s) |-> SubSeq(s, i, i)]

MCTime == Chars("time")

MCSymbols == {Chars("a"), MCTime}

MCExprs == {Chars("a>2"), Chars("time>a"), Chars("2<a")}

\* The signals exprtk reads: those whose name occurs.
MCInputs == [e \in MCExprs |-> {s \in MCSymbols : H!Occurrences(e, s) # {}}]

MCRecognised ==
    [e \in MCExprs |-> {s \in MCSymbols : H!is_expr_symbol(e, s, {"a", "t", "i", "m", "e", "2"})}]

Symmetry == Permutations(Ids) \cup Permutations(Workers)
=============================================================================
