------------------------------ MODULE Lockstep ------------------------------
(***************************************************************************)
(* What DebuggerMock.record_state promises: the registers of the design    *)
(* after every clock edge but the skipped ones, one consistent snapshot    *)
(* per edge, in order and without a gap, because the simulation does not   *)
(* pass an edge before its snapshot is complete.                           *)
(***************************************************************************)
EXTENDS Integers, Sequences

CONSTANTS
    Regs,       \* the registers of the design
    SimLength,  \* the clock edges of the simulation
    Skipped     \* edges passed before the recording starts

VARIABLES
    edge,       \* clock edges the simulation has passed
    recorded    \* the snapshots taken so far

\* A register is known by the edge that gave it its value.
Snapshot == [r \in Regs |-> edge]

\* The snapshots of the edges before the current one.
PastEdges == IF edge < Skipped THEN 0 ELSE edge - Skipped

Init ==
    /\ edge = 0
    /\ recorded = <<>>

Record ==
    /\ edge >= Skipped
    /\ Len(recorded) = PastEdges
    /\ recorded' = Append(recorded, Snapshot)
    /\ UNCHANGED edge

Advance ==
    /\ edge < SimLength
    /\ edge >= Skipped => Len(recorded) = PastEdges + 1
    /\ edge' = edge + 1
    /\ UNCHANGED recorded

Next == Record \/ Advance

Spec == Init /\ [][Next]_<<edge, recorded>>
=============================================================================
