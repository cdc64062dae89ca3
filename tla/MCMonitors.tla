----------------------------- MODULE MCMonitors -----------------------------
(* Three signals under "TOP.", one of them with two spellings and one of   *)
(* more than 23 characters, and none under the other top name.             *)
EXTENDS Monitors, Naturals, Sequences, TLC

H == INSTANCE Util WITH Character <- STRING

Chars(s) == [i \in 1..Len(s) |-> SubSeq(s, i, i)]

MCInitTop == Chars("TOP.")

MCTops == {MCInitTop, Chars("dut.")}

Long == "a_register_with_a_name"

MCNames == {Chars("a"), Chars("TOP.a"), Chars("b"), Chars(Long)}

MCFull == [tn \in MCTops \X MCNames |-> H!get_handle_name(tn[1], tn[2])]

MCPaths == Range(MCFull)

MCShort == {p \in MCPaths : Len(p) <= 23}

MCSignals == {Chars("TOP.a"), Chars("TOP.b"), Chars("TOP." \o Long)}

Symmetry == Permutations(Workers) \cup Permutations(Blocks)
=============================================================================
