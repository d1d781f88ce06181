------------------------------- MODULE Sched -------------------------------
(***************************************************************************)
(* src/sched.c, the build with MLQ_SCHED: one ready queue per priority,    *)
(* each with a budget of slots, and the list of the running processes.     *)
(* Every operation holds queue_lock from its first access to its last, so  *)
(* each is one action.                                                     *)
(***************************************************************************)
EXTENDS Queue

CONSTANTS
  N,         \* num_processes
  MaxPrio    \* MAX_PRIO, 140 in the code

ASSUME SchedAssumption == N \in Nat /\ MaxPrio \in Nat \ {0}

Procs == 1..N
Prios == 0..(MaxPrio - 1)
NULL  == 0

VARIABLES
  prio,              \* proc->prio, from the configuration file
  priority,          \* proc->priority, from the program file
  slot,
  mlq_ready_queue,
  running_list

schedVars == <<slot, mlq_ready_queue, running_list>>

FullSlots == [i \in Prios |-> MaxPrio - i]

(* init_scheduler *)
SchedInit == /\ slot = FullSlots
             /\ mlq_ready_queue = [i \in Prios |-> <<>>]
             /\ running_list = <<>>

-----------------------------------------------------------------------------
(* has_slot *)
HasSlot == \E i \in Prios : slot[i] > 0 /\ mlq_ready_queue[i] # <<>>

(* Faulty variant: the budgets are never reset. *)
Budget_NoReset == slot

(* The budgets get_mlq_proc works with: reset_slot when none is usable. *)
Budget == IF HasSlot THEN slot ELSE FullSlots

(* The queues it may serve; it serves the one of the lowest number. *)
Usable == {i \in Prios : mlq_ready_queue[i] # <<>> /\ Budget[i] > 0}
Served == CHOOSE i \in Usable : \A j \in Usable : i <= j

(* get_mlq_proc returns NULL. *)
GetNone == /\ Usable = {}
           /\ slot' = Budget
           /\ UNCHANGED <<mlq_ready_queue, running_list>>

(* Faulty variant: the slot is not taken. *)
GetProc_FreeSlot(p) ==
  /\ Usable # {}
  /\ p = Best(mlq_ready_queue[Served], priority)
  /\ mlq_ready_queue' = [mlq_ready_queue EXCEPT ![Served] = Dequeue(@, priority)]
  /\ slot' = Budget
  /\ running_list' = Enqueue(running_list, p)

(* Faulty variant: the reset of the budgets is not kept. *)
GetProc_ResetLost(p) ==
  /\ Usable # {}
  /\ p = Best(mlq_ready_queue[Served], priority)
  /\ mlq_ready_queue' = [mlq_ready_queue EXCEPT ![Served] = Dequeue(@, priority)]
  /\ slot' = [slot EXCEPT ![Served] = @ - 1]
  /\ running_list' = Enqueue(running_list, p)

(* Faulty variant: the process stays in its queue. *)
GetProc_Stays(p) ==
  /\ Usable # {}
  /\ p = Best(mlq_ready_queue[Served], priority)
  /\ slot' = [Budget EXCEPT ![Served] = @ - 1]
  /\ running_list' = Enqueue(running_list, p)
  /\ UNCHANGED mlq_ready_queue

(* get_mlq_proc returns p. *)
GetProc(p) ==
  /\ Usable # {}
  /\ p = Best(mlq_ready_queue[Served], priority)
  /\ mlq_ready_queue' = [mlq_ready_queue EXCEPT ![Served] = Dequeue(@, priority)]
  /\ slot' = [Budget EXCEPT ![Served] = @ - 1]
  /\ running_list' = Enqueue(running_list, p)

(* Faulty variant: the process is not purged from running_list. *)
PutProc_NoPurge(p) ==
  /\ slot' = [slot EXCEPT ![prio[p]] = @ + 1]
  /\ running_list' = running_list
  /\ mlq_ready_queue' = [mlq_ready_queue EXCEPT ![prio[p]] = Enqueue(@, p)]

(* put_mlq_proc *)
PutProc(p) ==
  /\ slot' = [slot EXCEPT ![prio[p]] = @ + 1]
  /\ running_list' = Purge(running_list, p)
  /\ mlq_ready_queue' = [mlq_ready_queue EXCEPT ![prio[p]] = Enqueue(@, p)]

(* add_mlq_proc *)
AddProc(p) ==
  /\ mlq_ready_queue' = [mlq_ready_queue EXCEPT ![prio[p]] = Enqueue(@, p)]
  /\ UNCHANGED <<slot, running_list>>

-----------------------------------------------------------------------------
(* The processes that wait in a ready queue. *)
Queued == UNION {ToSet(mlq_ready_queue[i]) : i \in Prios}

SchedTypeOK == /\ prio \in [Procs -> Prios]
               /\ priority \in [Procs -> Nat]
               /\ slot \in [Prios -> Nat]
               /\ mlq_ready_queue \in [Prios -> Seq(Procs)]
               /\ running_list \in Seq(Procs)
=============================================================================
