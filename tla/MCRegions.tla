----------------------------- MODULE MCRegions -----------------------------
(* The regions with two processes and two names. *)
EXTENDS Regions, TLC

CONSTANTS proc0, proc1

MCProcs      == {proc0, proc1}
MCOneProc    == {proc0}
MCTwoNames   == {0, 1}
=============================================================================
