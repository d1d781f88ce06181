-------------------------------- MODULE MCOS --------------------------------
(***************************************************************************)
(* The OS with one or two CPU threads.  The start times are taken in       *)
(* order: the loader takes the processes in the order of the file, so one  *)
(* that starts before its predecessor is loaded right behind it all the    *)
(* same.  One program may be empty, and priority tells two from the third. *)
(***************************************************************************)
EXTENDS OS, TLC

CONSTANTS cpu0, cpu1

MCCPUs   == {cpu0, cpu1}
MCOneCPU == {cpu0}

MCInit == /\ Init
          /\ \A p, q \in Procs : p < q => start_time[p] <= start_time[q]
          /\ \A p, q \in Procs : size[p] = 0 /\ size[q] = 0 => p = q
          /\ priority = [p \in Procs |-> p % 2]

MCSpec == MCInit /\ [][Next]_vars /\ Fairness
=============================================================================
