------------------------------ MODULE MCMemmap ------------------------------
(* The look-up with two CPU threads and three processes. *)
EXTENDS Memmap, TLC

CONSTANTS cpu0, cpu1, p1, p2, p3

MCCPUs    == {cpu0, cpu1}
MCProcs   == {p1, p2, p3}
=============================================================================
