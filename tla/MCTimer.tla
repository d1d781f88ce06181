------------------------------ MODULE MCTimer ------------------------------
(* Timer with two CPU threads and the loader thread. *)
EXTENDS Timer, TLC

CONSTANTS cpu0, cpu1, loader

MCDevices == {cpu0, cpu1, loader}
=============================================================================
