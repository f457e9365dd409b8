---------------------------- MODULE MCEntryPanel ----------------------------
(* A page whose deadline is extended while its Entry is read.                *)
EXTENDS EntryPanel, TLC

MCDeadline == <<1, 2>>
SlotSymmetry == Permutations(Slot)
=============================================================================
