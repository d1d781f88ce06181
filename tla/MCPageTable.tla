---------------------------- MODULE MCPageTable ----------------------------
(* The page table with two processes, three levels and tables of two slots. *)
EXTENDS PageTable, TLC

CONSTANTS proc0, proc1

MCProcs  == {proc0, proc1}
MCSymmetry == Permutations(MCProcs)

MCWeight == [l \in 1..3 |-> 2^(3 - l)]
MCFpns    == {{3, 13}}
MCSwpOffs == {{1, 20}}
=============================================================================
