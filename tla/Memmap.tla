------------------------------- MODULE Memmap -------------------------------
(***************************************************************************)
(* src/sys_mem.c: __sys_memmap looks its caller up by PID in the running   *)
(* list without queue_lock, while put_mlq_proc of another CPU shifts the   *)
(* entries of that list one by one.  The list is therefore kept here as    *)
(* the array and the size of queue_t, and purgequeue and the look-up go    *)
(* entry by entry; all else of a scheduler call is one step.               *)
(*                                                                         *)
(* The process that makes the call is the one its CPU holds, so it is in   *)
(* no ready queue: the look-up fails exactly when the running list does    *)
(* not give it.                                                            *)
(***************************************************************************)
EXTENDS Integers, FiniteSets

CONSTANTS
  CPUs,          \* the CPU threads
  Procs,         \* the processes
  NULL,
  MaxQueueSize   \* MAX_QUEUE_SIZE

ASSUME MemmapAssumption == /\ NULL \notin Procs
                           /\ NULL \notin CPUs
                           /\ IsFiniteSet(Procs)
                           /\ MaxQueueSize \in Nat
                           /\ Cardinality(Procs) <= MaxQueueSize

VARIABLES
  entry, size,   \* running_list: proc[] and size
  queue_lock,    \* the CPU that holds queue_lock
  waiting,       \* the processes in the ready queues
  pc,            \* where each CPU thread is
  held,          \* the process of each CPU
  i,             \* the loop index of purgequeue or of the look-up
  caller,        \* what the look-up of the CPU gave
  disturbed      \* a purge overlapped that look-up (history)

list == <<entry, size>>
vars == <<list, queue_lock, waiting, pc, held, i, caller, disturbed>>

Init == /\ entry = [n \in 0..(MaxQueueSize - 1) |-> NULL]
        /\ size = 0
        /\ queue_lock = NULL
        /\ waiting = Procs
        /\ pc = [c \in CPUs |-> "top"]
        /\ held = [c \in CPUs |-> NULL]
        /\ i = [c \in CPUs |-> 0]
        /\ caller = [c \in CPUs |-> NULL]
        /\ disturbed = [c \in CPUs |-> FALSE]

Goto(c, label) == pc' = [pc EXCEPT ![c] = label]
Step(c)        == i' = [i EXCEPT ![c] = @ + 1]

InLookup(c) == pc[c] \in {"test", "read"}

-----------------------------------------------------------------------------
(* The CPU: keep the process, put it back, or free it; then get one. *)

Keep(c) == /\ pc[c] = "top" /\ held[c] # NULL
           /\ Goto(c, "run")
           /\ UNCHANGED <<list, queue_lock, waiting, held, i, caller, disturbed>>

Finish(c) == /\ pc[c] = "top" /\ held[c] # NULL
             /\ held' = [held EXCEPT ![c] = NULL]
             /\ Goto(c, "get")
             /\ UNCHANGED <<list, queue_lock, waiting, i, caller, disturbed>>

(* put_mlq_proc takes the lock and purgequeue starts its search. *)
PutBegin(c) == /\ pc[c] = "top" /\ held[c] # NULL
               /\ queue_lock = NULL
               /\ queue_lock' = c
               /\ i' = [i EXCEPT ![c] = 0]
               /\ Goto(c, "search")
               /\ UNCHANGED <<list, waiting, held, caller, disturbed>>

PurgeSearch(c) == /\ pc[c] = "search" /\ i[c] < size
                  /\ IF entry[i[c]] = held[c]
                       THEN Goto(c, "shift") /\ UNCHANGED i
                       ELSE Step(c) /\ UNCHANGED pc
                  /\ UNCHANGED <<list, queue_lock, waiting, held, caller, disturbed>>

(* Faulty variant: the entries are moved down instead of up. *)
PurgeShift_Down(c) ==
  /\ pc[c] = "shift" /\ i[c] < size - 1
  /\ entry' = [entry EXCEPT ![i[c] + 1] = entry[i[c]]]
  /\ disturbed' = [d \in CPUs |-> disturbed[d] \/ InLookup(d)]
  /\ Step(c)
  /\ UNCHANGED <<size, queue_lock, waiting, pc, held, caller>>

(* One turn of the loop that moves the entries up. *)
PurgeShift(c) ==
  /\ pc[c] = "shift" /\ i[c] < size - 1
  /\ entry' = [entry EXCEPT ![i[c]] = entry[i[c] + 1]]
  /\ disturbed' = [d \in CPUs |-> disturbed[d] \/ InLookup(d)]
  /\ Step(c)
  /\ UNCHANGED <<size, queue_lock, waiting, pc, held, caller>>

(* The loop of purgequeue is over; it found the entry or it did not. *)
Purged(c) == /\ pc[c] \in {"shift", "search"}
             /\ i[c] >= size - (IF pc[c] = "shift" THEN 1 ELSE 0)
             /\ size' = size - (IF pc[c] = "shift" THEN 1 ELSE 0)
             /\ disturbed' = [d \in CPUs |-> disturbed[d] \/ InLookup(d)]

(* Faulty variant: proc is set to NULL before it is put back. *)
PutEnd_NullFirst(c) ==
  /\ Purged(c)
  /\ waiting' = waiting \cup {NULL}
  /\ held' = [held EXCEPT ![c] = NULL]
  /\ queue_lock' = NULL
  /\ Goto(c, "get")
  /\ UNCHANGED <<entry, i, caller>>

(* size--, then enqueue to the ready queue and release the lock. *)
PutEnd(c) ==
  /\ Purged(c)
  /\ waiting' = waiting \cup {held[c]}
  /\ held' = [held EXCEPT ![c] = NULL]
  /\ queue_lock' = NULL
  /\ Goto(c, "get")
  /\ UNCHANGED <<entry, i, caller>>

(* The two places of cpu_routine that call get_proc. *)
WantsProc(c) == \/ pc[c] = "get"
                \/ pc[c] = "top" /\ held[c] = NULL

(* Faulty variant: get_mlq_proc does not list the process. *)
Get_Unlisted(c) ==
  /\ WantsProc(c)
  /\ queue_lock = NULL
  /\ \E p \in waiting : /\ held' = [held EXCEPT ![c] = p]
                        /\ waiting' = waiting \ {p}
  /\ Goto(c, "run")
  /\ UNCHANGED <<list, queue_lock, i, caller, disturbed>>

(* get_mlq_proc; which process it takes is the matter of module Sched. *)
Get(c) ==
  /\ WantsProc(c)
  /\ queue_lock = NULL
  /\ \E p \in waiting :
       /\ held' = [held EXCEPT ![c] = p]
       /\ waiting' = waiting \ {p}
       /\ IF size < MaxQueueSize
            THEN /\ entry' = [entry EXCEPT ![size] = p]
                 /\ size' = size + 1
            ELSE UNCHANGED list
  /\ Goto(c, "run")
  /\ UNCHANGED <<queue_lock, i, caller, disturbed>>

GetNone(c) ==
  /\ WantsProc(c)
  /\ queue_lock = NULL
  /\ waiting = {}
  /\ Goto(c, "arrived")
  /\ UNCHANGED <<list, queue_lock, waiting, held, i, caller, disturbed>>

(* An instruction without a memory system call. *)
RunPlain(c) == /\ pc[c] = "run"
               /\ Goto(c, "arrived")
               /\ UNCHANGED <<list, queue_lock, waiting, held, i, caller, disturbed>>

-----------------------------------------------------------------------------
(* __sys_memmap *)

LookupBegin(c) == /\ pc[c] = "run"
                  /\ i' = [i EXCEPT ![c] = 0]
                  /\ caller' = [caller EXCEPT ![c] = NULL]
                  /\ disturbed' = [disturbed EXCEPT ![c] = FALSE]
                  /\ Goto(c, "test")
                  /\ UNCHANGED <<list, queue_lock, waiting, held>>

(* i < krnl->running_list->size *)
LookupTest(c) == /\ pc[c] = "test"
                 /\ Goto(c, IF i[c] < size THEN "read" ELSE "looked")
                 /\ UNCHANGED <<list, queue_lock, waiting, held, i, caller, disturbed>>

(* Faulty variant: the index does not go on. *)
LookupRead_Stuck(c) ==
  /\ pc[c] = "read"
  /\ IF entry[i[c]] = held[c]
       THEN /\ caller' = [caller EXCEPT ![c] = held[c]]
            /\ Goto(c, "looked")
       ELSE Goto(c, "test") /\ UNCHANGED caller
  /\ UNCHANGED <<list, queue_lock, waiting, held, i, disturbed>>

(* p && p->pid == pid *)
LookupRead(c) ==
  /\ pc[c] = "read"
  /\ IF entry[i[c]] = held[c]
       THEN /\ caller' = [caller EXCEPT ![c] = held[c]]
            /\ Goto(c, "looked")
            /\ UNCHANGED i
       ELSE Step(c) /\ Goto(c, "test") /\ UNCHANGED caller
  /\ UNCHANGED <<list, queue_lock, waiting, held, disturbed>>

(* An entry of a freed PCB: whatever its memory holds now can be the pid. *)
LookupStale(c) ==
  /\ pc[c] = "read"
  /\ entry[i[c]] \in Procs \ (waiting \cup {held[d] : d \in CPUs})
  /\ caller' = [caller EXCEPT ![c] = entry[i[c]]]
  /\ Goto(c, "looked")
  /\ UNCHANGED <<list, queue_lock, waiting, held, i, disturbed>>

(* The operation, or "PID not found"; the end of the slot. *)
LookupEnd(c) == /\ pc[c] = "looked"
                /\ Goto(c, "arrived")
                /\ UNCHANGED <<list, queue_lock, waiting, held, i, caller, disturbed>>

-----------------------------------------------------------------------------
CPUNext(c) == \/ Keep(c) \/ Finish(c) \/ PutBegin(c) \/ PurgeSearch(c)
              \/ PurgeShift(c) \/ PutEnd(c) \/ Get(c) \/ GetNone(c)
              \/ RunPlain(c) \/ LookupBegin(c) \/ LookupTest(c)
              \/ LookupRead(c) \/ LookupStale(c) \/ LookupEnd(c)

(* The next slot (module SlotBarrier). *)
Tick == /\ \A c \in CPUs : pc[c] = "arrived"
        /\ pc' = [c \in CPUs |-> "top"]
        /\ UNCHANGED <<list, queue_lock, waiting, held, i, caller, disturbed>>

Next == (\E c \in CPUs : CPUNext(c)) \/ Tick

Spec == Init /\ [][Next]_vars

(* Every CPU thread goes on while it can. *)
FairSpec == Spec /\ \A c \in CPUs : WF_vars(CPUNext(c))

-----------------------------------------------------------------------------
(* Properties *)

(* Every variable holds a value of its kind. *)
TypeOK == /\ entry \in [0..(MaxQueueSize - 1) -> Procs \cup {NULL}]
          /\ size \in 0..MaxQueueSize
          /\ queue_lock \in CPUs \cup {NULL}
          /\ waiting \subseteq Procs
          /\ pc \in [CPUs -> {"top", "get", "search", "shift", "run", "test",
                              "read", "looked", "arrived"}]
          /\ held \in [CPUs -> Procs \cup {NULL}]
          /\ i \in [CPUs -> 0..MaxQueueSize]
          /\ caller \in [CPUs -> Procs \cup {NULL}]
          /\ disturbed \in [CPUs -> BOOLEAN]

(***************************************************************************)
(* A process that runs is in running_list at every instant, also between   *)
(* two turns of the loop that shifts the entries for another process.      *)
(***************************************************************************)
ListedThroughout ==
  \A c \in CPUs : pc[c] \in {"run", "test", "read", "looked", "arrived"} /\ held[c] # NULL
    => \E n \in 0..(size - 1) : entry[n] = held[c]

(***************************************************************************)
(* The look-up can miss its caller only when another CPU purges the list   *)
(* while it reads it.                                                      *)
(***************************************************************************)
MissedOnlyByRace ==
  \A c \in CPUs : pc[c] = "looked" /\ caller[c] = NULL => disturbed[c]

(***************************************************************************)
(* The loop of the look-up reads size anew in every turn, while others     *)
(* change it: it ends.                                                     *)
(***************************************************************************)
LookupEnds == \A c \in CPUs : InLookup(c) ~> pc[c] = "looked"

(***************************************************************************)
(* sys_mem.c:30, "Find caller PCB by PID in kernel queues": the look-up    *)
(* finds a process.                                                        *)
(***************************************************************************)
LookupFinds == \A c \in CPUs : pc[c] = "looked" => caller[c] # NULL
=============================================================================
