------------------------------ MODULE MCMemory ------------------------------
(* The memory of one process, with two names. *)
EXTENDS Memory, TLC

CONSTANTS proc0, name0, name1

MCProcs == {proc0}
MCNames == {name0, name1}
MCSymmetry == Permutations(MCNames)

(* Bound: regions of one byte start at address 0.  One of them is enough   *)
(* for the regions behind it to lie across frames.                         *)
OneByteFirst ==
  /\ \A r \in RgIds : LET rg == symrgtbl'[r]
                      IN  rg.rg_end = rg.rg_start + 1 => rg.rg_start = 0
  /\ \A p \in Procs : call'[p].size = 1 => call'[p].old_sbrk = 0

(* Bound: data are written while DataKept has something to say of them;    *)
(* what a write does to pages and frames, a read does as well.             *)
WritesObserved == \/ regular /\ RamSuffices
                  \/ \A r \in RgIds : last'[r] \in {last[r], NoData}

MCMemSpec == MemInit /\ [][MemNext /\ OneByteFirst /\ WritesObserved]_memVars
=============================================================================
