--------------------------------- MODULE OS ---------------------------------
(***************************************************************************)
(* src/os.c: the CPU threads (cpu_routine) and the loader thread           *)
(* (ld_routine), with the scheduler they share and the timer that paces    *)
(* them.  The timer is taken as the slot barrier it implements (module     *)
(* Timer): next_slot is Arrive, detach_event is Leave.                     *)
(*                                                                         *)
(* A thread acts only inside its slot.  Each call into the scheduler is an *)
(* action of its own, because another thread can take queue_lock between   *)
(* two of them; the code that touches only the thread's own variables, and *)
(* the next_slot or detach_event that ends a round, go with the action     *)
(* they follow.                                                            *)
(***************************************************************************)
EXTENDS Sched, FiniteSets

CONSTANTS
  CPUs,       \* the CPU threads
  Loader,     \* the loader thread
  TimeSlots,  \* bound: the values of time_slot in the configuration
  Sizes,      \* bound: the lengths of the programs
  Priorities, \* bound: the priorities of the program files
  LastStart,  \* bound: the latest start time
  Unreadable  \* bound: the programs that load may fail to read, NULL for none

ASSUME OSAssumption == /\ IsFiniteSet(CPUs)
                       /\ CPUs # {}
                       /\ Loader \notin CPUs
                       /\ TimeSlots \subseteq Nat
                       /\ Sizes \subseteq Nat
                       /\ Priorities \subseteq Nat
                       /\ LastStart \in Nat
                       /\ Unreadable \subseteq Procs \cup {NULL}

VARIABLES
  start_time,   \* ld_processes.start_time
  size,         \* proc->code->size
  time_slot,    \* instructions a process runs per dispatch
  missing,      \* the first program that load cannot read, NULL: none
  pc,           \* proc->pc
  cpc,          \* where each CPU thread is
  proc,         \* its local proc, while the process is its own
  time_left,    \* its local time_left
  i,            \* the loader's local i, counted from 1
  done,         \* the flag "every process is loaded"
  time, st,     \* the slot barrier
  exited,       \* exit(1) has ended the program
  freed,        \* the processes whose PCB has been freed (history)
  ran,          \* the processes that ran in the present slot (history)
  used          \* the calls of run a CPU's process has had of it (history)

Devices == CPUs \cup {Loader}

Barrier == INSTANCE SlotBarrier WITH Horizon <- LastStart

input    == <<prio, priority, start_time, size, time_slot, missing>>
cpuVars  == <<cpc, proc, time_left>>
ldVars   == <<i, done, exited>>
history  == <<freed, ran, used>>
vars == <<input, schedVars, pc, cpuVars, ldVars, time, st, history>>

(***************************************************************************)
(* The configuration and the programs are arbitrary within the bounds.     *)
(***************************************************************************)
Init ==
  /\ prio \in [Procs -> Prios]
  /\ priority \in [Procs -> Priorities]
  /\ start_time \in [Procs -> 0..LastStart]
  /\ size \in [Procs -> Sizes]
  /\ time_slot \in TimeSlots
  /\ missing \in Unreadable
  /\ SchedInit
  /\ pc = [p \in Procs |-> 0]
  /\ cpc = [c \in CPUs |-> "top"]
  /\ proc = [c \in CPUs |-> NULL]
  /\ time_left = [c \in CPUs |-> 0]
  /\ i = 1
  /\ done = FALSE
  /\ exited = FALSE
  /\ freed = {}
  /\ ran = {}
  /\ used = [c \in CPUs |-> 0]
  /\ Barrier!Init

-----------------------------------------------------------------------------
(* cpu_routine *)

InSlot(d) == ~exited /\ st[d] = "work"

(* proc = get_proc(), from the top of the loop: nothing to run, next slot. *)
TopIdle(c) ==
  /\ InSlot(c) /\ cpc[c] = "top" /\ proc[c] = NULL
  /\ GetNone
  /\ Barrier!Arrive(c)
  /\ UNCHANGED <<input, pc, cpuVars, ldVars, history>>

(* proc = get_proc(), from the top of the loop: a process to run. *)
TopGet(c) ==
  /\ InSlot(c) /\ cpc[c] = "top" /\ proc[c] = NULL
  /\ \E p \in Procs : GetProc(p) /\ proc' = [proc EXCEPT ![c] = p]
  /\ cpc' = [cpc EXCEPT ![c] = "check"]
  /\ UNCHANGED <<input, pc, time_left, ldVars, time, st, history>>

(* Faulty variant: the next process inherits what is left of the quantum. *)
Finish_KeepQuantum(c) ==
  /\ InSlot(c) /\ cpc[c] = "top" /\ proc[c] # NULL
  /\ pc[proc[c]] = size[proc[c]]
  /\ freed' = freed \cup {proc[c]}
  /\ proc' = [proc EXCEPT ![c] = NULL]
  /\ used' = [used EXCEPT ![c] = 0]
  /\ cpc' = [cpc EXCEPT ![c] = "get"]
  /\ UNCHANGED <<input, schedVars, pc, time_left, ldVars, time, st, ran>>

(* The process has finished its job: free it. *)
Finish(c) ==
  /\ InSlot(c) /\ cpc[c] = "top" /\ proc[c] # NULL
  /\ pc[proc[c]] = size[proc[c]]
  /\ freed' = freed \cup {proc[c]}
  /\ proc' = [proc EXCEPT ![c] = NULL]
  /\ time_left' = [time_left EXCEPT ![c] = 0]
  /\ used' = [used EXCEPT ![c] = 0]
  /\ cpc' = [cpc EXCEPT ![c] = "get"]
  /\ UNCHANGED <<input, schedVars, pc, ldVars, time, st, ran>>

(* Faulty variant: time_left is looked at before the end of the program. *)
Preempt_Finished(c) ==
  /\ InSlot(c) /\ cpc[c] = "top" /\ proc[c] # NULL
  /\ time_left[c] = 0
  /\ PutProc(proc[c])
  /\ proc' = [proc EXCEPT ![c] = NULL]
  /\ used' = [used EXCEPT ![c] = 0]
  /\ cpc' = [cpc EXCEPT ![c] = "get"]
  /\ UNCHANGED <<input, pc, time_left, ldVars, time, st, freed, ran>>

(* The process has used up its time slot: put_proc. *)
Preempt(c) ==
  /\ InSlot(c) /\ cpc[c] = "top" /\ proc[c] # NULL
  /\ pc[proc[c]] # size[proc[c]] /\ time_left[c] = 0
  /\ PutProc(proc[c])
  /\ proc' = [proc EXCEPT ![c] = NULL]
  /\ used' = [used EXCEPT ![c] = 0]
  /\ cpc' = [cpc EXCEPT ![c] = "get"]
  /\ UNCHANGED <<input, pc, time_left, ldVars, time, st, freed, ran>>

(* proc = get_proc(), after a process has finished or was put back. *)
GetNext(c) ==
  /\ InSlot(c) /\ cpc[c] = "get"
  /\ \/ GetNone /\ UNCHANGED proc
     \/ \E p \in Procs : GetProc(p) /\ proc' = [proc EXCEPT ![c] = p]
  /\ cpc' = [cpc EXCEPT ![c] = "check"]
  /\ UNCHANGED <<input, pc, time_left, ldVars, time, st, history>>

(* The recheck: no process to run, and none will come. *)
Stop(c) ==
  /\ InSlot(c) /\ cpc[c] = "check" /\ proc[c] = NULL
  /\ done
  /\ cpc' = [cpc EXCEPT ![c] = "stopped"]
  /\ Barrier!Leave(c)
  /\ UNCHANGED <<input, schedVars, pc, proc, time_left, ldVars, history>>

(* The recheck: new processes may come, skip this slot. *)
Skip(c) ==
  /\ InSlot(c) /\ cpc[c] = "check" /\ proc[c] = NULL
  /\ ~done
  /\ cpc' = [cpc EXCEPT ![c] = "top"]
  /\ Barrier!Arrive(c)
  /\ UNCHANGED <<input, schedVars, pc, proc, time_left, ldVars, history>>

(* The CPU goes on to run its process: just got it, or kept it. *)
Runs(c) == \/ cpc[c] = "check" /\ proc[c] # NULL
           \/ /\ cpc[c] = "top" /\ proc[c] # NULL
              /\ pc[proc[c]] # size[proc[c]] /\ time_left[c] # 0

(* Faulty variant: no next_slot behind run. *)
Run_NoNextSlot(c) ==
  /\ InSlot(c) /\ Runs(c)
  /\ pc' = [pc EXCEPT ![proc[c]] = IF @ < size[proc[c]] THEN @ + 1 ELSE @]
  /\ ran' = ran \cup {proc[c]}
  /\ used' = [used EXCEPT ![c] = @ + 1]
  /\ time_left' = [time_left EXCEPT ![c] = (IF @ = 0 THEN time_slot ELSE @) - 1]
  /\ cpc' = [cpc EXCEPT ![c] = "top"]
  /\ UNCHANGED <<input, schedVars, proc, ldVars, freed, time, st>>

(* run: one instruction, unless the program is empty; then next_slot. *)
Run(c) ==
  /\ InSlot(c) /\ Runs(c)
  /\ pc' = [pc EXCEPT ![proc[c]] = IF @ < size[proc[c]] THEN @ + 1 ELSE @]
  /\ ran' = ran \cup {proc[c]}
  /\ used' = [used EXCEPT ![c] = @ + 1]
  /\ time_left' = [time_left EXCEPT ![c] = (IF @ = 0 THEN time_slot ELSE @) - 1]
  /\ cpc' = [cpc EXCEPT ![c] = "top"]
  /\ Barrier!Arrive(c)
  /\ UNCHANGED <<input, schedVars, proc, ldVars, freed>>

CPUNext(c) == \/ TopIdle(c) \/ TopGet(c) \/ Finish(c) \/ Preempt(c)
              \/ GetNext(c) \/ Stop(c) \/ Skip(c) \/ Run(c)

-----------------------------------------------------------------------------
(* ld_routine *)

(* Faulty variant: a program that cannot be read is left out. *)
LoaderExit_Skip ==
  /\ InSlot(Loader) /\ i <= N /\ i = missing
  /\ i' = i + 1
  /\ UNCHANGED <<input, schedVars, pc, cpuVars, done, exited, time, st, history>>

(* load cannot open the program, or meets an unknown opcode: exit(1), at the *)
(* top of the loop and thus before the start time, whatever the CPUs do.     *)
LoaderExit ==
  /\ InSlot(Loader) /\ i <= N /\ i = missing
  /\ exited' = TRUE
  /\ UNCHANGED <<input, schedVars, pc, cpuVars, i, done, time, st, history>>

(* The next process starts later. *)
LoaderWait ==
  /\ InSlot(Loader) /\ i <= N /\ i # missing /\ time < start_time[i]
  /\ Barrier!Arrive(Loader)
  /\ UNCHANGED <<input, schedVars, pc, cpuVars, ldVars, history>>

(* It starts now. *)
LoaderAdd ==
  /\ InSlot(Loader) /\ i <= N /\ i # missing /\ time >= start_time[i]
  /\ AddProc(i)
  /\ i' = i + 1
  /\ Barrier!Arrive(Loader)
  /\ UNCHANGED <<input, pc, cpuVars, done, exited, history>>

(* Faulty variant: the loop of the loader ends one process early. *)
LoaderDone_OneLess ==
  /\ InSlot(Loader) /\ i >= N
  /\ done' = TRUE
  /\ Barrier!Leave(Loader)
  /\ UNCHANGED <<input, schedVars, pc, cpuVars, i, exited, history>>

(* Every process is loaded. *)
LoaderDone ==
  /\ InSlot(Loader) /\ i > N
  /\ done' = TRUE
  /\ Barrier!Leave(Loader)
  /\ UNCHANGED <<input, schedVars, pc, cpuVars, i, exited, history>>

LoaderNext == LoaderExit \/ LoaderWait \/ LoaderAdd \/ LoaderDone

-----------------------------------------------------------------------------
(* timer_routine *)

Tick ==
  /\ ~exited
  /\ Barrier!Tick
  /\ ran' = {}
  /\ UNCHANGED <<input, schedVars, pc, cpuVars, ldVars, freed, used>>

Enter(d) ==
  /\ ~exited
  /\ Barrier!Enter(d)
  /\ UNCHANGED <<input, schedVars, pc, cpuVars, ldVars, history>>

(* The program has ended, and every thread of it. *)
Exited == exited /\ UNCHANGED vars

Next == \/ \E c \in CPUs : CPUNext(c)
        \/ LoaderNext
        \/ Tick
        \/ \E d \in Devices : Enter(d)
        \/ Exited

Spec == Init /\ [][Next]_vars

(* Every thread goes on while it can; the timer keeps its promises. *)
Fairness == /\ \A c \in CPUs : WF_vars(CPUNext(c))
            /\ WF_vars(LoaderNext)
            /\ WF_vars(Tick /\ \E d \in Devices : st[d] = "arrived")
            /\ \A d \in Devices : WF_vars(Enter(d))

FairSpec == Spec /\ Fairness

-----------------------------------------------------------------------------
(* Properties *)

Held == {proc[c] : c \in CPUs} \ {NULL}

(* Every variable holds a value of its kind. *)
TypeOK ==
  /\ SchedTypeOK
  /\ start_time \in [Procs -> 0..LastStart]
  /\ size \in [Procs -> Nat]
  /\ time_slot \in Nat
  /\ missing \in Procs \cup {NULL}
  /\ pc \in [Procs -> Nat]
  /\ cpc \in [CPUs -> {"top", "get", "check", "stopped"}]
  /\ proc \in [CPUs -> Procs \cup {NULL}]
  /\ time_left \in [CPUs -> Int]
  /\ i \in 1..(N + 1)
  /\ done \in BOOLEAN
  /\ exited \in BOOLEAN
  /\ freed \subseteq Procs
  /\ ran \subseteq Procs
  /\ used \in [CPUs -> Nat]
  /\ Barrier!TypeOK

(***************************************************************************)
(* No process is lost or duplicated by the CPUs that fetch and put back    *)
(* processes concurrently: a loaded process is in exactly one place, one   *)
(* entry of the ready queue of its own prio, one CPU, or freed.            *)
(***************************************************************************)
OneHome ==
  /\ \A q \in Prios : /\ IsInjective(mlq_ready_queue[q])
                      /\ \A p \in ToSet(mlq_ready_queue[q]) : prio[p] = q
  /\ \A c, d \in CPUs : proc[c] = proc[d] /\ proc[c] # NULL => c = d
  /\ Queued \cap Held = {} /\ Queued \cap freed = {} /\ Held \cap freed = {}
  /\ Queued \cup Held \cup freed = 1..(i - 1)

(***************************************************************************)
(* running_list names every process a CPU runs: __sys_memmap looks the     *)
(* caller of a memory system call up there.                                *)
(***************************************************************************)
RunningListed == Held \subseteq ToSet(running_list)

(***************************************************************************)
(* The budgets: put_mlq_proc gives a slot back whatever reset_slot did in  *)
(* the meantime, so a budget can exceed its full value, but only by the    *)
(* processes the other CPUs held then.                                     *)
(***************************************************************************)
HeldAt(q) == {c \in CPUs : proc[c] # NULL /\ prio[proc[c]] = q}

SlotBound ==
  \A q \in Prios :
    slot[q] + Cardinality(HeldAt(q)) <= (MaxPrio - q) + (Cardinality(CPUs) - 1)

(***************************************************************************)
(* The CPUs do not all leave while there is work, although a CPU decides   *)
(* to stop from an empty get_proc and a later look at done.                *)
(***************************************************************************)
NoneAbandoned ==
  (\A c \in CPUs : cpc[c] = "stopped") => freed = Procs

(***************************************************************************)
(* A process runs at most one instruction per slot, even when it moves     *)
(* from one CPU to another.                                                *)
(***************************************************************************)
OnePerSlot == [][\A p \in Procs : pc'[p] # pc[p] => p \notin ran]_vars

(***************************************************************************)
(* No CPU idles through a slot next to a waiting process: when a slot ends *)
(* with an idle CPU, only the process the loader added in that slot may be *)
(* left in the ready queues.                                               *)
(***************************************************************************)
WorkConserving ==
  [][Tick /\ (\E c \in CPUs : proc[c] = NULL)
       => Cardinality(Queued) <= (IF done THEN 0 ELSE 1)]_vars

(***************************************************************************)
(* The OS implements the life of a process: a process is ready while a     *)
(* ready queue has it and running while a CPU has it.                      *)
(***************************************************************************)
StatusOf(p) == IF p \in freed THEN "finished"
               ELSE IF p \in Held THEN "running"
               ELSE IF p \in Queued THEN "ready"
               ELSE IF p >= i THEN "new"
               ELSE "lost"

Life == INSTANCE ProcessLife
          WITH status <- [p \in Procs |-> StatusOf(p)],
               left <- [p \in Procs |-> size[p] - pc[p]]

(* Every behaviour of the OS is one of its processes' lives. *)
ImplementsLife == Life!Spec

(***************************************************************************)
(* A process keeps its CPU until its end or for exactly time_slot calls of *)
(* run, also when the CPU got it right behind one that finished early.  A  *)
(* time_slot of 0 is no quantum at all: time_left goes below zero and the  *)
(* process keeps its CPU to its end.                                       *)
(***************************************************************************)
FullQuantum ==
  [][\A c \in CPUs :
       /\ proc[c] # NULL /\ proc'[c] # proc[c] =>
            pc[proc[c]] = size[proc[c]] \/ used[c] = time_slot
       /\ used'[c] > time_slot => time_slot = 0]_vars

(* Every process runs to its end, whatever its prio and its start time, if *)
(* the loader can read all the programs.                                   *)
EveryProcessFinishes == missing = NULL => <>(freed = Procs)

(***************************************************************************)
(* A program that cannot be read ends the whole simulation, however long   *)
(* the loader waits for the programs before it, and the CPUs never         *)
(* conclude that the work is done.                                         *)
(***************************************************************************)
MissingProgramEnds ==
  missing # NULL => <>(exited /\ \A c \in CPUs : cpc[c] # "stopped")

-----------------------------------------------------------------------------
(* What the repository says of the program and the program does not do. *)

(***************************************************************************)
(* os.c:265, "Wait for CPU and loader finishing": every CPU thread ends.   *)
(***************************************************************************)
EveryCPUStops == <>(\A c \in CPUs : cpc[c] = "stopped")
=============================================================================
