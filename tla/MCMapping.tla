----------------------------- MODULE MCMapping -----------------------------
(* Growths and faults of three processes, with two frames and five pages. *)
EXTENDS Mapping, TLC

CONSTANTS proc0, proc1, proc2

MCProcs    == {proc0, proc1, proc2}
MCSymmetry == Permutations(MCProcs)
=============================================================================
