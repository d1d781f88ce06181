------------------------------ MODULE OSProofs ------------------------------
(***************************************************************************)
(* Proofs about the CPUs, the loader and the scheduler, for any number of  *)
(* CPUs, processes and priorities and any configuration.  The theorems     *)
(* that follow a process through the queues assume that a queue can hold   *)
(* every process: enqueue drops a process otherwise.                       *)
(***************************************************************************)
EXTENDS OS, SeqLemmas

-----------------------------------------------------------------------------
(* What the operations of the scheduler (module Sched) do to the processes. *)

(* Every queue holds distinct processes of its own priority. *)
QueuesOK ==
  \A q \in Prios : /\ Distinct(mlq_ready_queue[q])
                   /\ \A p \in ToSet(mlq_ready_queue[q]) : prio[p] = q

LEMMA QueueMembers ==
  ASSUME SchedTypeOK
  PROVE  /\ \A p : p \in Queued <=> \E q \in Prios : p \in ToSet(mlq_ready_queue[q])
         /\ Queued \subseteq Procs
<1>1. \A p : p \in Queued <=> \E q \in Prios : p \in ToSet(mlq_ready_queue[q])
  BY DEF Queued
<1>2. \A q \in Prios : ToSet(mlq_ready_queue[q]) \subseteq Procs
  BY ToSetMembers DEF SchedTypeOK
<1>3. QED
  BY <1>1, <1>2

LEMMA BudgetType == SchedTypeOK => Budget \in [Prios -> Nat]
BY SchedAssumption DEF SchedTypeOK, Budget, FullSlots, Prios

(* get_proc finds nothing exactly when nothing is queued. *)
LEMMA NothingUsable ==
  ASSUME SchedTypeOK
  PROVE  Usable = {} <=> Queued = {}
<1>1. \A q \in Prios : mlq_ready_queue[q] = <<>> <=> ToSet(mlq_ready_queue[q]) = {}
  <2>1. ASSUME NEW q \in Prios
        PROVE  mlq_ready_queue[q] = <<>> <=> ToSet(mlq_ready_queue[q]) = {}
    <3>1. mlq_ready_queue[q] \in Seq(Procs)
      BY DEF SchedTypeOK
    <3>2. QED
      BY <3>1, ToSetEmpty, HeadTailDistinct
  <2>2. QED
    BY <2>1
<1>2. ASSUME NEW q \in Prios, mlq_ready_queue[q] # <<>> PROVE Usable # {}
  <2>1. CASE HasSlot
    BY <2>1 DEF HasSlot, Usable, Budget
  <2>2. CASE ~HasSlot
    <3>1. FullSlots[q] > 0
      BY SchedAssumption DEF FullSlots, Prios
    <3>2. q \in Usable
      BY <1>2, <2>2, <3>1 DEF Usable, Budget
    <3>3. QED
      BY <3>2
  <2>3. QED
    BY <2>1, <2>2
<1>3. Queued = {} <=> \A q \in Prios : ToSet(mlq_ready_queue[q]) = {}
  BY DEF Queued
<1>4. Usable # {} => \E q \in Prios : mlq_ready_queue[q] # <<>>
  BY DEF Usable
<1>5. QED
  BY <1>1, <1>2, <1>3, <1>4

(* The scans of get_mlq_proc and dequeue end at an entry. *)
LEMMA ServedUsable ==
  ASSUME Usable # {}
  PROVE  Served \in Usable
<1>1. Usable \subseteq Nat
  BY SchedAssumption DEF Usable, Prios
<1>2. \E q \in Usable : \A r \in Usable : q <= r
  BY <1>1, LeastNumber
<1>3. QED
  BY <1>2 DEF Served

LEMMA BestEntry ==
  ASSUME SchedTypeOK, NEW s \in Seq(Procs), s # <<>>
  PROVE  BestIndex(s, priority) \in 1..Len(s)
<1>1. priority \in [Procs -> Nat]
  BY DEF SchedTypeOK
<1>2. DOMAIN s = 1..Len(s)
  OBVIOUS
<1>3. \E n \in 1..Len(s) : \A k \in 1..Len(s) :
        \/ priority[s[n]] < priority[s[k]]
        \/ priority[s[n]] = priority[s[k]] /\ n <= k
  BY <1>1, FirstOfLowest
<1>4. QED
  BY <1>2, <1>3 DEF BestIndex

-----------------------------------------------------------------------------
LEMMA EnqueueType ==
  ASSUME NEW s \in Seq(Procs), NEW p \in Procs
  PROVE  Enqueue(s, p) \in Seq(Procs)
BY DEF Enqueue

(* enqueue does not drop a process when the queue can hold every process. *)
LEMMA EnqueueKeeps ==
  ASSUME N <= MaxQueueSize, NEW s \in Seq(Procs), NEW p \in Procs,
         Distinct(s), p \notin ToSet(s)
  PROVE  /\ Enqueue(s, p) \in Seq(Procs)
         /\ Distinct(Enqueue(s, p))
         /\ ToSet(Enqueue(s, p)) = ToSet(s) \cup {p}
<1>1. IsFiniteSet(Procs) /\ Cardinality(Procs) = N
  BY SchedAssumption, FS_Interval DEF Procs
<1>2. Len(s) < N
  BY <1>1, DistinctRoom
<1>3. Len(s) < MaxQueueSize
  BY <1>2, SchedAssumption, MaxQueueSizeAssumption
<1>4. QED
  BY <1>3, AppendDistinct DEF Enqueue

(* get_mlq_proc takes a queued process out of the queue of its prio. *)
LEMMA GetEffect ==
  ASSUME SchedTypeOK, QueuesOK, NEW p \in Procs, GetProc(p)
  PROVE  /\ p \in Queued
         /\ prio[p] = Served /\ Served \in Prios /\ Budget[Served] > 0
         /\ slot' = [Budget EXCEPT ![Served] = @ - 1]
         /\ mlq_ready_queue' \in [Prios -> Seq(Procs)]
         /\ \A q \in Prios : /\ Distinct(mlq_ready_queue'[q])
                             /\ ToSet(mlq_ready_queue'[q])
                                  = ToSet(mlq_ready_queue[q]) \ {p}
         /\ Queued' = Queued \ {p}
<1> DEFINE s == mlq_ready_queue[Served]
           n == BestIndex(s, priority)
<1>1. Served \in Usable
  BY ServedUsable DEF GetProc
<1>2. Served \in Prios /\ s \in Seq(Procs) /\ s # <<>> /\ Budget[Served] > 0
  BY <1>1 DEF Usable, SchedTypeOK
<1>3. n \in 1..Len(s) /\ p = s[n]
  BY <1>2, BestEntry DEF GetProc, Best
<1>4. Distinct(s) /\ p \in ToSet(s)
  BY <1>2, <1>3, ToSetMembers DEF QueuesOK
<1>5. prio[p] = Served /\ p \in Queued
  BY <1>2, <1>4 DEF QueuesOK, Queued
<1>6. /\ Dequeue(s, priority) \in Seq(Procs)
      /\ Distinct(Dequeue(s, priority))
      /\ ToSet(Dequeue(s, priority)) = ToSet(s) \ {p}
  BY <1>2, <1>3, <1>4, RemoveAtDistinct DEF Dequeue
<1>7. mlq_ready_queue' = [mlq_ready_queue EXCEPT ![Served] = Dequeue(s, priority)]
  BY DEF GetProc
<1> HIDE DEF s, n
<1>8. mlq_ready_queue' \in [Prios -> Seq(Procs)]
  BY <1>2, <1>6, <1>7 DEF SchedTypeOK
<1>9. \A q \in Prios : mlq_ready_queue'[q] =
        IF q = Served THEN Dequeue(s, priority) ELSE mlq_ready_queue[q]
  BY <1>7 DEF SchedTypeOK
<1>10. \A q \in Prios : /\ Distinct(mlq_ready_queue'[q])
                        /\ ToSet(mlq_ready_queue'[q])
                             = ToSet(mlq_ready_queue[q]) \ {p}
  <2>1. ASSUME NEW q \in Prios, q # Served
        PROVE  /\ Distinct(mlq_ready_queue[q])
               /\ p \notin ToSet(mlq_ready_queue[q])
    BY <2>1, <1>5 DEF QueuesOK
  <2>2. QED
    BY <2>1, <1>6, <1>9 DEF s
<1>11. Queued' = Queued \ {p}
  BY <1>10 DEF Queued
<1>12. QED
  BY <1>2, <1>5, <1>8, <1>10, <1>11 DEF GetProc

(* Entering a process in the queue of its prio. *)
LEMMA EntersQueue ==
  ASSUME N <= MaxQueueSize, SchedTypeOK, QueuesOK,
         NEW p \in Procs, p \notin Queued,
         mlq_ready_queue' = [mlq_ready_queue EXCEPT ![prio[p]] = Enqueue(@, p)],
         prio' = prio
  PROVE  /\ QueuesOK'
         /\ Queued' = Queued \cup {p}
<1> DEFINE r == prio[p]
           s == mlq_ready_queue[r]
<1>1. r \in Prios /\ s \in Seq(Procs)
  BY DEF SchedTypeOK
<1>2. Distinct(s) /\ p \notin ToSet(s)
  BY <1>1 DEF QueuesOK, Queued
<1>3. /\ Distinct(Enqueue(s, p))
      /\ ToSet(Enqueue(s, p)) = ToSet(s) \cup {p}
  BY <1>1, <1>2, EnqueueKeeps
<1>4. \A q \in Prios : mlq_ready_queue'[q] =
        IF q = r THEN Enqueue(s, p) ELSE mlq_ready_queue[q]
  BY DEF SchedTypeOK
<1>5. \A q \in Prios : /\ Distinct(mlq_ready_queue'[q])
                       /\ ToSet(mlq_ready_queue'[q]) =
                            ToSet(mlq_ready_queue[q]) \cup (IF q = r THEN {p} ELSE {})
  BY <1>3, <1>4 DEF QueuesOK
<1>6. QueuesOK'
  BY <1>5 DEF QueuesOK
<1>7. Queued' = Queued \cup {p}
  <2>1. \A x : x \in Queued' <=> \E q \in Prios : x \in ToSet(mlq_ready_queue'[q])
    BY DEF Queued
  <2>2. \A x : x \in Queued <=> \E q \in Prios : x \in ToSet(mlq_ready_queue[q])
    BY DEF Queued
  <2> HIDE DEF r, s
  <2>3. QED
    BY <1>1, <1>5, <2>1, <2>2
<1>8. QED
  BY <1>6, <1>7

(* Every operation of the scheduler keeps the types. *)
LEMMA SchedType ==
  ASSUME SchedTypeOK, UNCHANGED <<prio, priority>>,
         \/ UNCHANGED schedVars
         \/ GetNone
         \/ \E p \in Procs : GetProc(p) \/ PutProc(p) \/ AddProc(p)
  PROVE  SchedTypeOK'
<1>1. CASE UNCHANGED schedVars
  BY <1>1 DEF schedVars, SchedTypeOK
<1>2. CASE GetNone
  BY <1>2, BudgetType DEF GetNone, SchedTypeOK
<1>3. ASSUME NEW p \in Procs, GetProc(p) PROVE SchedTypeOK'
  <2> DEFINE s == mlq_ready_queue[Served]
  <2>1. Served \in Prios /\ Budget[Served] > 0 /\ s # <<>>
    BY <1>3, ServedUsable DEF GetProc, Usable
  <2>2. slot' \in [Prios -> Nat]
    BY <1>3, <2>1, BudgetType DEF GetProc
  <2>3. mlq_ready_queue' \in [Prios -> Seq(Procs)]
    <3>1. s \in Seq(Procs) /\ BestIndex(s, priority) \in 1..Len(s)
      BY <2>1, BestEntry DEF SchedTypeOK
    <3>2. Dequeue(s, priority) \in Seq(Procs)
      BY <3>1, RemoveAtType DEF Dequeue
    <3>3. QED
      BY <1>3, <2>1, <3>2 DEF GetProc, SchedTypeOK
  <2>4. running_list' \in Seq(Procs)
    BY <1>3, EnqueueType DEF GetProc, SchedTypeOK
  <2>5. QED
    BY <2>2, <2>3, <2>4 DEF SchedTypeOK
<1>4. ASSUME NEW p \in Procs, PutProc(p) PROVE SchedTypeOK'
  <2>1. prio[p] \in Prios /\ mlq_ready_queue[prio[p]] \in Seq(Procs)
    BY DEF SchedTypeOK
  <2>2. mlq_ready_queue' \in [Prios -> Seq(Procs)]
    BY <1>4, <2>1, EnqueueType DEF PutProc, SchedTypeOK
  <2>3. running_list' \in Seq(Procs)
    BY <1>4, RemoveFirstType DEF PutProc, Purge, SchedTypeOK
  <2>4. slot' \in [Prios -> Nat]
    BY <1>4, <2>1 DEF PutProc, SchedTypeOK
  <2>5. QED
    BY <2>2, <2>3, <2>4 DEF SchedTypeOK
<1>5. ASSUME NEW p \in Procs, AddProc(p) PROVE SchedTypeOK'
  <2>1. prio[p] \in Prios /\ mlq_ready_queue[prio[p]] \in Seq(Procs)
    BY DEF SchedTypeOK
  <2>2. mlq_ready_queue' \in [Prios -> Seq(Procs)]
    BY <1>5, <2>1, EnqueueType DEF AddProc, SchedTypeOK
  <2>3. QED
    BY <1>5, <2>2 DEF AddProc, SchedTypeOK
<1>6. QED
  BY <1>1, <1>2, <1>3, <1>4, <1>5

-----------------------------------------------------------------------------
(* The inductive invariant *)

(* The place of each CPU against what it holds and where its slot is. *)
PhaseInv ==
  \A c \in CPUs : /\ cpc[c] \in {"get", "stopped"} => proc[c] = NULL
                  /\ cpc[c] \in {"get", "check"} => st[c] = "work"
                  /\ cpc[c] = "stopped" <=> st[c] = "gone"
                  /\ cpc[c] = "stopped" => done

(* done is the loader's last word. *)
LoadInv == /\ done <=> st[Loader] = "gone"
           /\ done => i = N + 1

(* Every loaded process has one home, and running_list is never purged of  *)
(* the finished ones.                                                      *)
HomeInv ==
  /\ QueuesOK
  /\ \A c, d \in CPUs : proc[c] = proc[d] /\ proc[c] # NULL => c = d
  /\ Queued \cap Held = {} /\ Queued \cap freed = {} /\ Held \cap freed = {}
  /\ Queued \cup Held \cup freed = 1..(i - 1)
  /\ Distinct(running_list)
  /\ ToSet(running_list) = Held \cup freed

(* A CPU that is about to take, or has, a process. *)
Busy == \E c \in CPUs : cpc[c] = "get" \/ proc[c] # NULL

(* Nobody concludes from an empty get_proc that the work is done while     *)
(* queued processes have nobody left to take them.                         *)
WorkInv ==
  \/ \A c \in CPUs : /\ cpc[c] # "stopped"
                     /\ st[Loader] # "arrived" =>
                          ~(cpc[c] = "check" /\ proc[c] = NULL)
  \/ Queued = {}
  \/ Busy

(* A process that ran in this slot is held by a CPU that is through with   *)
(* the slot.                                                               *)
RanInv == \A p \in ran : \E c \in CPUs : proc[c] = p /\ st[c] = "arrived"

(* No process runs past its end, and only ended ones are freed. *)
PcInv == /\ \A p \in Procs : pc[p] <= size[p]
         /\ \A p \in freed : pc[p] = size[p]

IInv == TypeOK /\ PhaseInv /\ LoadInv /\ HomeInv /\ WorkInv /\ RanInv /\ PcInv

-----------------------------------------------------------------------------
(* Type correctness *)

LEMMA InitType == Init => TypeOK
<1> SUFFICES ASSUME Init PROVE TypeOK
  OBVIOUS
<1>1. SchedTypeOK
  <2>1. FullSlots \in [Prios -> Nat]
    BY SchedAssumption DEF FullSlots, Prios
  <2>2. /\ prio \in [Procs -> Prios]
        /\ priority \in [Procs -> Nat]
    BY OSAssumption DEF Init
  <2>3. /\ slot \in [Prios -> Nat]
        /\ mlq_ready_queue \in [Prios -> Seq(Procs)]
        /\ running_list \in Seq(Procs)
    BY <2>1 DEF Init, SchedInit
  <2>4. QED
    BY <2>2, <2>3 DEF SchedTypeOK
<1>2. /\ start_time \in [Procs -> 0..LastStart]
      /\ size \in [Procs -> Nat]
      /\ time_slot \in Nat
      /\ missing \in Procs \cup {NULL}
      /\ pc \in [Procs -> Nat]
  BY OSAssumption DEF Init
<1>3. /\ cpc \in [CPUs -> {"top", "get", "check", "stopped"}]
      /\ proc \in [CPUs -> Procs \cup {NULL}]
      /\ time_left \in [CPUs -> Int]
      /\ used \in [CPUs -> Nat]
  BY OSAssumption DEF Init
<1>4. /\ i \in 1..(N + 1)
      /\ done \in BOOLEAN
      /\ exited \in BOOLEAN
      /\ freed \subseteq Procs
      /\ ran \subseteq Procs
  <2>1. i \in 1..(N + 1)
    BY SchedAssumption DEF Init
  <2>2. done \in BOOLEAN /\ exited \in BOOLEAN
    BY Zenon DEF Init
  <2>3. freed \subseteq Procs /\ ran \subseteq Procs
    BY DEF Init
  <2>4. QED
    BY <2>1, <2>2, <2>3
<1>5. Barrier!TypeOK
  BY DEF Init, Barrier!Init, Barrier!TypeOK, Barrier!State
<1>6. QED
  BY <1>1, <1>2, <1>3, <1>4, <1>5 DEF TypeOK

(* The barrier's steps keep its types. *)
LEMMA BarrierType ==
  ASSUME Barrier!TypeOK,
         \/ Barrier!Tick
         \/ UNCHANGED <<time, st>>
         \/ \E d \in Devices : Barrier!Arrive(d) \/ Barrier!Leave(d) \/ Barrier!Enter(d)
  PROVE  Barrier!TypeOK'
<1>1. CASE Barrier!Tick
  BY <1>1, OSAssumption DEF Barrier!Tick, Barrier!TypeOK, Barrier!State
<1>2. CASE UNCHANGED <<time, st>>
  BY <1>2 DEF Barrier!TypeOK
<1>3. ASSUME NEW d \in Devices,
             Barrier!Arrive(d) \/ Barrier!Leave(d) \/ Barrier!Enter(d)
      PROVE  Barrier!TypeOK'
  BY <1>3 DEF Barrier!Arrive, Barrier!Leave, Barrier!Enter, Barrier!TypeOK,
              Barrier!State
<1>4. QED
  BY <1>1, <1>2, <1>3

LEMMA StepType == TypeOK /\ [Next]_vars => TypeOK'
<1> SUFFICES ASSUME TypeOK, [Next]_vars PROVE TypeOK'
  OBVIOUS
<1> DEFINE Rest == /\ start_time \in [Procs -> 0..LastStart]
                   /\ size \in [Procs -> Nat]
                   /\ time_slot \in Nat
                   /\ missing \in Procs \cup {NULL}
                   /\ pc \in [Procs -> Nat]
                   /\ cpc \in [CPUs -> {"top", "get", "check", "stopped"}]
                   /\ proc \in [CPUs -> Procs \cup {NULL}]
                   /\ time_left \in [CPUs -> Int]
                   /\ used \in [CPUs -> Nat]
                   /\ i \in 1..(N + 1)
                   /\ done \in BOOLEAN
                   /\ exited \in BOOLEAN
                   /\ freed \subseteq Procs
                   /\ ran \subseteq Procs
<1> USE DEF input, cpuVars, ldVars, history
<1>0. SchedTypeOK /\ Rest /\ Barrier!TypeOK /\ NULL \notin Procs
  BY SchedAssumption DEF TypeOK, NULL, Procs
<1>1. ASSUME NEW c \in CPUs, CPUNext(c) PROVE TypeOK'
  <2>1. c \in Devices
    BY DEF Devices
  <2>2. CASE TopIdle(c)
    <3>1. SchedTypeOK' /\ Barrier!TypeOK'
      BY <1>0, <2>1, <2>2, SchedType, BarrierType DEF TopIdle
    <3>2. QED
      BY <1>0, <2>2, <3>1 DEF TopIdle, TypeOK
  <2>3. CASE TopGet(c)
    <3>1. SchedTypeOK' /\ Barrier!TypeOK'
      BY <1>0, <2>3, SchedType, BarrierType DEF TopGet
    <3>2. QED
      BY <1>0, <2>3, <3>1 DEF TopGet, TypeOK
  <2>4. CASE Finish(c)
    <3>1. SchedTypeOK' /\ Barrier!TypeOK'
      BY <1>0, <2>4, SchedType, BarrierType DEF Finish
    <3>2. proc[c] \in Procs
      BY <1>0, <2>4 DEF Finish
    <3>3. QED
      BY <1>0, <2>4, <3>1, <3>2 DEF Finish, TypeOK
  <2>5. CASE Preempt(c)
    <3>1. proc[c] \in Procs
      BY <1>0, <2>5 DEF Preempt
    <3>2. SchedTypeOK' /\ Barrier!TypeOK'
      BY <1>0, <2>5, <3>1, SchedType, BarrierType DEF Preempt
    <3>3. QED
      BY <1>0, <2>5, <3>2 DEF Preempt, TypeOK
  <2>6. CASE GetNext(c)
    <3>1. SchedTypeOK' /\ Barrier!TypeOK'
      BY <1>0, <2>6, SchedType, BarrierType DEF GetNext
    <3>2. proc' \in [CPUs -> Procs \cup {NULL}]
      BY <1>0, <2>6 DEF GetNext
    <3>3. QED
      BY <1>0, <2>6, <3>1, <3>2 DEF GetNext, TypeOK
  <2>7. CASE Stop(c)
    <3>1. SchedTypeOK' /\ Barrier!TypeOK'
      BY <1>0, <2>1, <2>7, SchedType, BarrierType DEF Stop
    <3>2. QED
      BY <1>0, <2>7, <3>1 DEF Stop, TypeOK
  <2>8. CASE Skip(c)
    <3>1. SchedTypeOK' /\ Barrier!TypeOK'
      BY <1>0, <2>1, <2>8, SchedType, BarrierType DEF Skip
    <3>2. QED
      BY <1>0, <2>8, <3>1 DEF Skip, TypeOK
  <2>9. CASE Run(c)
    <3>1. SchedTypeOK' /\ Barrier!TypeOK'
      BY <1>0, <2>1, <2>9, SchedType, BarrierType DEF Run
    <3>2. proc[c] \in Procs
      BY <1>0, <2>9 DEF Run, Runs
    <3>3. time_left' \in [CPUs -> Int] /\ used' \in [CPUs -> Nat]
      BY <1>0, <2>9 DEF Run
    <3>4. pc' \in [Procs -> Nat] /\ ran' \subseteq Procs
      BY <1>0, <2>9, <3>2 DEF Run
    <3>5. QED
      BY <1>0, <2>9, <3>1, <3>3, <3>4 DEF Run, TypeOK
  <2>10. QED
    BY <1>1, <2>2, <2>3, <2>4, <2>5, <2>6, <2>7, <2>8, <2>9 DEF CPUNext
<1>2. CASE LoaderNext
  <2>1. Loader \in Devices
    BY DEF Devices
  <2>2. CASE LoaderWait
    <3>1. SchedTypeOK' /\ Barrier!TypeOK'
      BY <1>0, <2>1, <2>2, SchedType, BarrierType DEF LoaderWait
    <3>2. QED
      BY <1>0, <2>2, <3>1 DEF LoaderWait, TypeOK
  <2>3. CASE LoaderAdd
    <3>1. i \in Procs /\ i + 1 \in 1..(N + 1)
      BY <1>0, <2>3, SchedAssumption DEF LoaderAdd, Procs
    <3>2. SchedTypeOK' /\ Barrier!TypeOK'
      BY <1>0, <2>1, <2>3, <3>1, SchedType, BarrierType DEF LoaderAdd
    <3>3. QED
      BY <1>0, <2>3, <3>1, <3>2 DEF LoaderAdd, TypeOK
  <2>4. CASE LoaderDone
    <3>1. SchedTypeOK' /\ Barrier!TypeOK'
      BY <1>0, <2>1, <2>4, SchedType, BarrierType DEF LoaderDone
    <3>2. QED
      BY <1>0, <2>4, <3>1 DEF LoaderDone, TypeOK
  <2>5. CASE LoaderExit
    <3>1. SchedTypeOK' /\ Barrier!TypeOK'
      BY <1>0, <2>5, SchedType, BarrierType DEF LoaderExit
    <3>2. exited' \in BOOLEAN
      BY <2>5, Zenon DEF LoaderExit
    <3>3. QED
      BY <1>0, <2>5, <3>1, <3>2 DEF LoaderExit, TypeOK
  <2>6. QED
    BY <1>2, <2>2, <2>3, <2>4, <2>5 DEF LoaderNext
<1>3. CASE Tick
  <2>1. SchedTypeOK' /\ Barrier!TypeOK'
    BY <1>0, <1>3, SchedType, BarrierType DEF Tick
  <2>2. QED
    BY <1>0, <1>3, <2>1 DEF Tick, TypeOK
<1>4. ASSUME NEW d \in Devices, Enter(d) PROVE TypeOK'
  <2>1. SchedTypeOK' /\ Barrier!TypeOK'
    BY <1>0, <1>4, SchedType, BarrierType DEF Enter
  <2>2. QED
    BY <1>0, <1>4, <2>1 DEF Enter, TypeOK
<1>5. CASE UNCHANGED vars
  <2>1. SchedTypeOK' /\ Barrier!TypeOK'
    BY <1>0, <1>5, SchedType, BarrierType DEF vars
  <2>2. QED
    BY <1>0, <1>5, <2>1 DEF vars, TypeOK
<1>6. QED
  BY <1>1, <1>2, <1>3, <1>4, <1>5 DEF Next, Exited

(***************************************************************************)
(* Type correctness of the CPUs, the loader and the scheduler: no budget   *)
(* falls below zero.                                                       *)
(***************************************************************************)
THEOREM TypeCorrect == Spec => []TypeOK
<1>1. QED
  BY InitType, StepType, PTL DEF Spec

-----------------------------------------------------------------------------
(* The inductive step, one lemma per part of the invariant *)

LEMMA NullIsNoProc == NULL \notin Procs
BY SchedAssumption DEF NULL, Procs

LEMMA PhaseStep ==
  ASSUME TypeOK, PhaseInv, LoadInv, [Next]_vars
  PROVE  PhaseInv' /\ LoadInv'
<1> USE DEF PhaseInv, LoadInv, input, cpuVars, ldVars, history, InSlot, TypeOK,
            Barrier!TypeOK, Devices
<1>1. ASSUME NEW c \in CPUs, CPUNext(c) PROVE PhaseInv' /\ LoadInv'
  <2>0. c # Loader
    BY OSAssumption
  <2>1. CASE TopIdle(c)
    BY <2>0, <2>1 DEF TopIdle, Barrier!Arrive
  <2>2. CASE TopGet(c)
    BY <2>0, <2>2 DEF TopGet
  <2>3. CASE Finish(c)
    BY <2>0, <2>3 DEF Finish
  <2>4. CASE Preempt(c)
    BY <2>0, <2>4 DEF Preempt
  <2>5. CASE GetNext(c)
    BY <2>0, <2>5 DEF GetNext
  <2>6. CASE Stop(c)
    BY <2>0, <2>6 DEF Stop, Barrier!Leave
  <2>7. CASE Skip(c)
    BY <2>0, <2>7 DEF Skip, Barrier!Arrive
  <2>8. CASE Run(c)
    BY <2>0, <2>8 DEF Run, Runs, Barrier!Arrive
  <2>9. QED
    BY <1>1, <2>1, <2>2, <2>3, <2>4, <2>5, <2>6, <2>7, <2>8 DEF CPUNext
<1>2. CASE LoaderWait
  BY <1>2, OSAssumption DEF LoaderWait, Barrier!Arrive
<1>3. CASE LoaderAdd
  BY <1>3, OSAssumption DEF LoaderAdd, Barrier!Arrive
<1>4. CASE LoaderDone
  BY <1>4, OSAssumption, SchedAssumption DEF LoaderDone, Barrier!Leave
<1>5. CASE Tick
  BY <1>5 DEF Tick, Barrier!Tick
<1>6. ASSUME NEW d \in Devices, Enter(d) PROVE PhaseInv' /\ LoadInv'
  BY <1>6 DEF Enter, Barrier!Enter
<1>7. CASE LoaderExit
  BY <1>7 DEF LoaderExit
<1>8. CASE UNCHANGED vars
  BY <1>8 DEF vars
<1>9. QED
  BY <1>1, <1>2, <1>3, <1>4, <1>5, <1>6, <1>7, <1>8 DEF Next, LoaderNext, Exited

(* What the CPUs hold after one of them gets or gives up a process. *)
LEMMA HeldAfter ==
  ASSUME proc \in [CPUs -> Procs \cup {NULL}],
         \A d, e \in CPUs : proc[d] = proc[e] /\ proc[d] # NULL => d = e,
         NEW c \in CPUs, NEW p \in Procs \cup {NULL},
         p \notin Held, proc' = [proc EXCEPT ![c] = p]
  PROVE  /\ Held' = (Held \ {proc[c]}) \cup ({p} \ {NULL})
         /\ \A d, e \in CPUs : proc'[d] = proc'[e] /\ proc'[d] # NULL => d = e
<1>1. \A d \in CPUs : proc'[d] = IF d = c THEN p ELSE proc[d]
  OBVIOUS
<1>2. \A x : x \in Held <=> x # NULL /\ \E d \in CPUs : proc[d] = x
  BY DEF Held
<1>3. \A x : x \in Held' <=> x # NULL /\ \E d \in CPUs : proc'[d] = x
  BY DEF Held
<1>4. ASSUME NEW x \in Held \ {proc[c]} PROVE x \in Held'
  <2>1. PICK d \in CPUs : proc[d] = x
    BY <1>2
  <2>2. d # c
    BY <2>1
  <2>3. QED
    BY <1>1, <1>2, <1>3, <2>1, <2>2
<1>5. ASSUME NEW x \in {p} \ {NULL} PROVE x \in Held'
  BY <1>1, <1>3
<1>6. ASSUME NEW x \in Held' PROVE x \in (Held \ {proc[c]}) \cup ({p} \ {NULL})
  <2>1. PICK d \in CPUs : proc'[d] = x
    BY <1>3
  <2>2. x # NULL
    BY <1>3
  <2>3. CASE d = c
    BY <2>1, <2>2, <2>3, <1>1
  <2>4. CASE d # c
    BY <2>1, <2>2, <2>4, <1>1, <1>2
  <2>5. QED
    BY <2>3, <2>4
<1>7. Held' = (Held \ {proc[c]}) \cup ({p} \ {NULL})
  BY <1>4, <1>5, <1>6
<1>8. \A d, e \in CPUs : proc'[d] = proc'[e] /\ proc'[d] # NULL => d = e
  BY <1>1, <1>2
<1>9. QED
  BY <1>7, <1>8

LEMMA HomesUntouched ==
  ASSUME HomeInv,
         UNCHANGED <<prio, mlq_ready_queue, running_list, proc, freed, i>>
  PROVE  HomeInv' /\ Queued' = Queued
<1>1. QueuesOK' /\ Queued' = Queued /\ Held' = Held
  BY DEF HomeInv, QueuesOK, Queued, Held
<1>2. QED
  BY <1>1 DEF HomeInv

LEMMA HomesGet ==
  ASSUME N <= MaxQueueSize, TypeOK, HomeInv,
         NEW c \in CPUs, proc[c] = NULL, NEW p \in Procs,
         GetProc(p), proc' = [proc EXCEPT ![c] = p],
         UNCHANGED <<input, freed, i>>
  PROVE  HomeInv'
<1>1. SchedTypeOK /\ QueuesOK /\ prio' = prio
  BY DEF TypeOK, HomeInv, input
<1>2. /\ p \in Queued
      /\ Queued' = Queued \ {p}
      /\ \A q \in Prios : /\ Distinct(mlq_ready_queue'[q])
                          /\ ToSet(mlq_ready_queue'[q])
                               = ToSet(mlq_ready_queue[q]) \ {p}
  BY <1>1, GetEffect
<1>3. QueuesOK'
  BY <1>1, <1>2 DEF QueuesOK
<1>4. p \notin Held /\ p \notin freed /\ p # NULL
  BY <1>2, NullIsNoProc DEF HomeInv
<1>5. /\ Held' = Held \cup {p}
      /\ \A d, e \in CPUs : proc'[d] = proc'[e] /\ proc'[d] # NULL => d = e
  <2>1. NULL \notin Held
    BY DEF Held
  <2>2. /\ proc \in [CPUs -> Procs \cup {NULL}]
        /\ \A d, e \in CPUs : proc[d] = proc[e] /\ proc[d] # NULL => d = e
    BY DEF TypeOK, HomeInv
  <2>3. /\ Held' = (Held \ {proc[c]}) \cup ({p} \ {NULL})
        /\ \A d, e \in CPUs : proc'[d] = proc'[e] /\ proc'[d] # NULL => d = e
    BY <1>4, <2>2, HeldAfter
  <2>4. QED
    BY <1>4, <2>1, <2>3
<1>6. Distinct(running_list') /\ ToSet(running_list') = ToSet(running_list) \cup {p}
  <2>1. running_list' = Enqueue(running_list, p)
    BY DEF GetProc
  <2>2. running_list \in Seq(Procs) /\ Distinct(running_list)
        /\ p \notin ToSet(running_list)
    BY <1>4 DEF TypeOK, SchedTypeOK, HomeInv
  <2>3. QED
    BY <2>1, <2>2, EnqueueKeeps
<1>7. QED
  BY <1>2, <1>3, <1>4, <1>5, <1>6 DEF HomeInv

LEMMA HomeStep ==
  ASSUME N <= MaxQueueSize, TypeOK, PhaseInv, HomeInv, [Next]_vars
  PROVE  HomeInv'
<1> USE DEF input, cpuVars, ldVars, history
<1>1. ASSUME NEW c \in CPUs, CPUNext(c) PROVE HomeInv'
  <2>1. CASE TopIdle(c)
    BY <2>1, HomesUntouched DEF TopIdle, GetNone
  <2>2. CASE TopGet(c)
    BY <2>2, HomesGet DEF TopGet
  <2>3. CASE GetNext(c)
    <3>1. proc[c] = NULL
      BY <2>3 DEF GetNext, PhaseInv
    <3>2. CASE GetNone /\ UNCHANGED proc
      BY <2>3, <3>2, HomesUntouched DEF GetNext, GetNone
    <3>3. CASE \E p \in Procs : GetProc(p) /\ proc' = [proc EXCEPT ![c] = p]
      BY <2>3, <3>1, <3>3, HomesGet DEF GetNext
    <3>4. QED
      BY <2>3, <3>2, <3>3 DEF GetNext
  <2>4. CASE Finish(c)
    <3>1. proc[c] \in Held /\ NULL \notin Held
      BY <2>4 DEF Finish, Held
    <3>2. /\ Held' = Held \ {proc[c]}
          /\ \A d, e \in CPUs : proc'[d] = proc'[e] /\ proc'[d] # NULL => d = e
      <4>1. /\ proc \in [CPUs -> Procs \cup {NULL}]
            /\ \A d, e \in CPUs : proc[d] = proc[e] /\ proc[d] # NULL => d = e
        BY DEF TypeOK, HomeInv
      <4>2. NULL \in Procs \cup {NULL} /\ proc' = [proc EXCEPT ![c] = NULL]
        BY <2>4 DEF Finish
      <4>3. /\ Held' = (Held \ {proc[c]}) \cup ({NULL} \ {NULL})
            /\ \A d, e \in CPUs : proc'[d] = proc'[e] /\ proc'[d] # NULL => d = e
        BY <3>1, <4>1, <4>2, HeldAfter
      <4>4. QED
        BY <4>3
    <3>3. QueuesOK' /\ Queued' = Queued
      BY <2>4 DEF Finish, schedVars, HomeInv, QueuesOK, Queued
    <3>4. QED
      BY <2>4, <3>1, <3>2, <3>3 DEF Finish, schedVars, HomeInv
  <2>5. CASE Preempt(c)
    <3> DEFINE p == proc[c]
    <3>1. p \in Held /\ NULL \notin Held /\ p \in Procs
      BY <2>5 DEF Preempt, Held, TypeOK
    <3>2. /\ Held' = Held \ {p}
          /\ \A d, e \in CPUs : proc'[d] = proc'[e] /\ proc'[d] # NULL => d = e
      <4>1. /\ proc \in [CPUs -> Procs \cup {NULL}]
            /\ \A d, e \in CPUs : proc[d] = proc[e] /\ proc[d] # NULL => d = e
        BY DEF TypeOK, HomeInv
      <4>2. NULL \in Procs \cup {NULL} /\ proc' = [proc EXCEPT ![c] = NULL]
        BY <2>5 DEF Preempt
      <4>3. /\ Held' = (Held \ {proc[c]}) \cup ({NULL} \ {NULL})
            /\ \A d, e \in CPUs : proc'[d] = proc'[e] /\ proc'[d] # NULL => d = e
        BY <3>1, <4>1, <4>2, HeldAfter
      <4>4. QED
        BY <4>3
    <3>3. QueuesOK' /\ Queued' = Queued \cup {p}
      <4>1. /\ mlq_ready_queue' =
                 [mlq_ready_queue EXCEPT ![prio[p]] = Enqueue(@, p)]
            /\ prio' = prio
        BY <2>5 DEF Preempt, PutProc
      <4>2. p \notin Queued /\ SchedTypeOK /\ QueuesOK
        BY <3>1 DEF HomeInv, TypeOK
      <4> HIDE DEF p
      <4>3. QED
        BY <3>1, <4>1, <4>2, EntersQueue
    <3>4. Distinct(running_list') /\ ToSet(running_list') = ToSet(running_list) \ {p}
      BY <2>5, RemoveFirstDistinct DEF Preempt, PutProc, Purge, TypeOK,
         SchedTypeOK, HomeInv
    <3>5. freed' = freed /\ i' = i
      BY <2>5 DEF Preempt
    <3> HIDE DEF p
    <3>6. QED
      BY <3>1, <3>2, <3>3, <3>4, <3>5 DEF HomeInv
  <2>6. CASE Stop(c)
    BY <2>6, HomesUntouched DEF Stop, schedVars
  <2>7. CASE Skip(c)
    BY <2>7, HomesUntouched DEF Skip, schedVars
  <2>8. CASE Run(c)
    BY <2>8, HomesUntouched DEF Run, schedVars
  <2>9. QED
    BY <1>1, <2>1, <2>2, <2>3, <2>4, <2>5, <2>6, <2>7, <2>8 DEF CPUNext
<1>2. CASE LoaderAdd
  <2>1. i \in Procs /\ i' = i + 1
    BY <1>2, SchedAssumption DEF LoaderAdd, TypeOK, Procs
  <2>2. i \notin Queued /\ i \notin Held /\ i \notin freed
    BY <2>1, SchedAssumption DEF HomeInv, Procs
  <2>3. QueuesOK' /\ Queued' = Queued \cup {i}
    BY <1>2, <2>1, <2>2, EntersQueue DEF LoaderAdd, AddProc, TypeOK, HomeInv
  <2>4. Held' = Held /\ freed' = freed /\ proc' = proc /\ running_list' = running_list
    BY <1>2 DEF LoaderAdd, AddProc, Held
  <2>5. 1..(i' - 1) = 1..(i - 1) \cup {i}
    BY <2>1, SchedAssumption DEF Procs
  <2>6. QED
    BY <2>2, <2>3, <2>4, <2>5 DEF HomeInv
<1>3. CASE LoaderWait \/ LoaderDone \/ LoaderExit
  BY <1>3, HomesUntouched DEF LoaderWait, LoaderDone, LoaderExit, schedVars
<1>4. CASE Tick
  BY <1>4, HomesUntouched DEF Tick, schedVars
<1>5. ASSUME NEW d \in Devices, Enter(d) PROVE HomeInv'
  BY <1>5, HomesUntouched DEF Enter, schedVars
<1>6. CASE UNCHANGED vars
  BY <1>6, HomesUntouched DEF vars, schedVars
<1>7. QED
  BY <1>1, <1>2, <1>3, <1>4, <1>5, <1>6 DEF Next, LoaderNext, Exited

LEMMA WorkStep ==
  ASSUME TypeOK, PhaseInv, LoadInv, WorkInv, [Next]_vars
  PROVE  WorkInv'
<1> USE DEF input, cpuVars, ldVars, history, InSlot, Devices
<1>0. /\ cpc \in [CPUs -> {"top", "get", "check", "stopped"}]
      /\ proc \in [CPUs -> Procs \cup {NULL}]
      /\ st \in [Devices -> Barrier!State]
      /\ SchedTypeOK
      /\ NULL \notin Procs
  BY NullIsNoProc DEF TypeOK, Barrier!TypeOK
<1>1. ASSUME NEW c \in CPUs, CPUNext(c) PROVE WorkInv'
  <2>0. c # Loader
    BY OSAssumption
  <2>1. ASSUME GetNone PROVE Queued' = {}
    <3>1. Queued = {}
      BY <2>1, <1>0, NothingUsable DEF GetNone
    <3>2. QED
      BY <2>1, <3>1 DEF GetNone, Queued
  <2>2. ASSUME \E p \in Procs : GetProc(p) /\ proc' = [proc EXCEPT ![c] = p]
        PROVE  Busy'
    BY <2>2, <1>0 DEF Busy
  <2>3. CASE TopIdle(c) \/ TopGet(c) \/ GetNext(c)
    BY <2>1, <2>2, <2>3 DEF TopIdle, TopGet, GetNext, WorkInv
  <2>4. CASE Finish(c) \/ Preempt(c)
    <3>1. cpc'[c] = "get"
      BY <2>4, <1>0 DEF Finish, Preempt
    <3>2. QED
      BY <3>1 DEF WorkInv, Busy
  <2>5. CASE Run(c)
    <3>1. proc'[c] # NULL
      BY <2>5 DEF Run, Runs
    <3>2. QED
      BY <3>1 DEF WorkInv, Busy
  <2>6. CASE Stop(c)
    <3>1. Queued = {} \/ Busy
      BY <2>6 DEF Stop, WorkInv, LoadInv
    <3>2. Queued' = Queued
      BY <2>6 DEF Stop, schedVars, Queued
    <3>3. Busy => Busy'
      BY <2>6, <1>0 DEF Stop, Busy
    <3>4. QED
      BY <3>1, <3>2, <3>3 DEF WorkInv
  <2>7. CASE Skip(c)
    <3>1. Queued' = Queued
      BY <2>7 DEF Skip, schedVars, Queued
    <3>2. Busy => Busy'
      BY <2>7, <1>0 DEF Skip, Busy
    <3>3. st'[Loader] = st[Loader]
      BY <2>0, <2>7, <1>0 DEF Skip, Barrier!Arrive
    <3>4. \A e \in CPUs : cpc'[e] = IF e = c THEN "top" ELSE cpc[e]
      BY <2>7, <1>0 DEF Skip
    <3>5. proc' = proc
      BY <2>7 DEF Skip
    <3>6. QED
      BY <3>1, <3>2, <3>3, <3>4, <3>5 DEF WorkInv
  <2>8. QED
    BY <1>1, <2>3, <2>4, <2>5, <2>6, <2>7 DEF CPUNext
<1>2. CASE LoaderWait
  <2>1. st'[Loader] = "arrived" /\ Queued' = Queued /\ (Busy => Busy')
    BY <1>2, <1>0 DEF LoaderWait, Barrier!Arrive, schedVars, Queued, Busy
  <2>2. cpc' = cpc /\ proc' = proc
    BY <1>2 DEF LoaderWait
  <2>3. QED
    BY <2>1, <2>2 DEF WorkInv
<1>3. CASE LoaderAdd
  <2>1. st'[Loader] = "arrived" /\ cpc' = cpc
    BY <1>3, <1>0 DEF LoaderAdd, Barrier!Arrive
  <2>2. \A c \in CPUs : cpc[c] # "stopped"
    BY <1>3 DEF LoaderAdd, PhaseInv, LoadInv
  <2>3. QED
    BY <2>1, <2>2 DEF WorkInv
<1>4. CASE LoaderDone
  <2>1. st[Loader] # "arrived" /\ Queued' = Queued /\ (Busy => Busy')
    BY <1>4, <1>0 DEF LoaderDone, schedVars, Queued, Busy
  <2>2. cpc' = cpc /\ proc' = proc
    BY <1>4 DEF LoaderDone
  <2>3. QED
    BY <2>1, <2>2 DEF WorkInv
<1>5. CASE Tick
  <2>1. Queued' = Queued /\ (Busy => Busy') /\ cpc' = cpc /\ proc' = proc
    BY <1>5 DEF Tick, schedVars, Queued, Busy
  <2>2. \A c \in CPUs : cpc[c] # "check"
    BY <1>5 DEF Tick, Barrier!Tick, PhaseInv
  <2>3. QED
    BY <2>1, <2>2 DEF WorkInv
<1>6. ASSUME NEW d \in Devices, Enter(d) PROVE WorkInv'
  <2>1. Queued' = Queued /\ (Busy => Busy') /\ cpc' = cpc /\ proc' = proc
    BY <1>6 DEF Enter, schedVars, Queued, Busy
  <2>2. st'[Loader] # "arrived" => st[Loader] # "arrived"
    BY <1>6, <1>0 DEF Enter, Barrier!Enter
  <2>3. QED
    BY <2>1, <2>2 DEF WorkInv
<1>7. CASE UNCHANGED vars \/ LoaderExit
  BY <1>7 DEF vars, LoaderExit, schedVars, WorkInv, Queued, Busy
<1>8. QED
  BY <1>1, <1>2, <1>3, <1>4, <1>5, <1>6, <1>7 DEF Next, LoaderNext, Exited

LEMMA RanStep ==
  ASSUME TypeOK, RanInv, [Next]_vars
  PROVE  RanInv'
<1> USE DEF input, cpuVars, ldVars, history, InSlot, Devices
<1>0. /\ proc \in [CPUs -> Procs \cup {NULL}]
      /\ st \in [Devices -> Barrier!State]
  BY DEF TypeOK, Barrier!TypeOK
<1>1. ASSUME NEW c \in CPUs, CPUNext(c) PROVE RanInv'
  <2>1. CASE Run(c)
    <3>1. st[c] = "work" /\ st' = [st EXCEPT ![c] = "arrived"] /\ proc' = proc
          /\ ran' = ran \cup {proc[c]}
      BY <2>1 DEF Run, Barrier!Arrive
    <3>2. QED
      BY <3>1, <1>0 DEF RanInv
  <2>2. CASE ~Run(c)
    <3>1. /\ ran' = ran /\ st[c] = "work"
          /\ \A e \in CPUs \ {c} : proc'[e] = proc[e] /\ st'[e] = st[e]
      BY <1>1, <2>2, <1>0
      DEF CPUNext, TopIdle, TopGet, Finish, Preempt, GetNext, Stop, Skip,
          Barrier!Arrive, Barrier!Leave
    <3>2. QED
      BY <3>1 DEF RanInv
  <2>3. QED
    BY <2>1, <2>2
<1>2. CASE LoaderNext
  <2>1. /\ ran' = ran /\ proc' = proc
        /\ \A e \in CPUs : st'[e] = st[e]
    BY <1>2, <1>0, OSAssumption
    DEF LoaderNext, LoaderExit, LoaderWait, LoaderAdd, LoaderDone, Barrier!Arrive,
        Barrier!Leave
  <2>2. QED
    BY <2>1 DEF RanInv
<1>3. CASE Tick
  BY <1>3 DEF Tick, RanInv
<1>4. ASSUME NEW d \in Devices, Enter(d) PROVE RanInv'
  <2>1. /\ ran' = ran /\ proc' = proc /\ st[d] = "blocked"
        /\ \A e \in CPUs \ {d} : st'[e] = st[e]
    BY <1>4, <1>0 DEF Enter, Barrier!Enter
  <2>2. QED
    BY <2>1 DEF RanInv
<1>5. CASE UNCHANGED vars
  BY <1>5 DEF vars, RanInv
<1>6. QED
  BY <1>1, <1>2, <1>3, <1>4, <1>5 DEF Next, Exited

LEMMA PcStep ==
  ASSUME TypeOK, HomeInv, PcInv, [Next]_vars
  PROVE  PcInv'
<1> USE DEF input, cpuVars, ldVars, history
<1>0. /\ pc \in [Procs -> Nat] /\ size \in [Procs -> Nat]
      /\ proc \in [CPUs -> Procs \cup {NULL}] /\ freed \subseteq Procs
  BY DEF TypeOK
<1>1. ASSUME NEW c \in CPUs, Run(c) PROVE PcInv'
  <2>1. proc[c] \in Procs /\ proc[c] \notin freed
    BY <1>1, <1>0 DEF Run, Runs, HomeInv, Held
  <2>2. /\ pc' = [pc EXCEPT ![proc[c]] = IF @ < size[proc[c]] THEN @ + 1 ELSE @]
        /\ size' = size /\ freed' = freed
    BY <1>1 DEF Run
  <2>3. QED
    BY <2>1, <2>2, <1>0 DEF PcInv
<1>2. ASSUME NEW c \in CPUs, Finish(c) PROVE PcInv'
  BY <1>2 DEF Finish, PcInv
<1>3. ASSUME UNCHANGED <<pc, size, freed>> PROVE PcInv'
  BY <1>3 DEF PcInv
<1>4. ASSUME NEW c \in CPUs, CPUNext(c), ~Run(c), ~Finish(c)
      PROVE  UNCHANGED <<pc, size, freed>>
  BY <1>4 DEF CPUNext, TopIdle, TopGet, Preempt, GetNext, Stop, Skip
<1>5. ASSUME LoaderNext \/ Tick \/ (\E d \in Devices : Enter(d)) \/ UNCHANGED vars
      PROVE  UNCHANGED <<pc, size, freed>>
  BY <1>5 DEF LoaderNext, LoaderExit, LoaderWait, LoaderAdd, LoaderDone, Tick,
              Enter, vars
<1>6. QED
  BY <1>1, <1>2, <1>3, <1>4, <1>5 DEF Next, Exited

-----------------------------------------------------------------------------
LEMMA InitIInv == Init => IInv
<1> SUFFICES ASSUME Init PROVE IInv
  OBVIOUS
<1>1. TypeOK
  BY InitType
<1>2. PhaseInv /\ LoadInv /\ RanInv
  BY OSAssumption
  DEF Init, Barrier!Init, Devices, PhaseInv, LoadInv, RanInv
<1>3. Queued = {} /\ QueuesOK
  BY ToSetEmpty DEF Init, SchedInit, Queued, QueuesOK
<1>4. Held = {}
  BY DEF Init, Held
<1>5. HomeInv
  <2>1. 1..(i - 1) = {} /\ \A c \in CPUs : proc[c] = NULL
    BY DEF Init
  <2>2. Distinct(running_list) /\ ToSet(running_list) = {} /\ freed = {}
    BY ToSetEmpty DEF Init, SchedInit
  <2>3. QED
    BY <1>3, <1>4, <2>1, <2>2 DEF HomeInv
<1>6. WorkInv
  BY <1>3 DEF WorkInv
<1>7. PcInv
  <2>1. \A p \in Procs : pc[p] = 0 /\ size[p] \in Nat
    BY <1>1 DEF Init, TypeOK
  <2>2. freed = {}
    BY DEF Init
  <2>3. QED
    BY <2>1, <2>2 DEF PcInv
<1>8. QED
  BY <1>1, <1>2, <1>5, <1>6, <1>7 DEF IInv

(* The invariant holds in every reachable state. *)
THEOREM Invariance ==
  ASSUME N <= MaxQueueSize
  PROVE  Spec => []IInv
<1>1. IInv /\ [Next]_vars => IInv'
  BY StepType, PhaseStep, HomeStep, WorkStep, RanStep, PcStep DEF IInv
<1>2. QED
  BY <1>1, InitIInv, PTL DEF Spec

(***************************************************************************)
(* No process is lost or duplicated: get_proc, put_proc and add_proc, as   *)
(* the CPUs and the loader interleave them, keep every loaded process in   *)
(* exactly one place.                                                      *)
(***************************************************************************)
THEOREM OneHomeHolds ==
  ASSUME N <= MaxQueueSize
  PROVE  Spec => []OneHome
<1>1. IInv => OneHome
  <2>1. ASSUME IInv, NEW q \in Prios PROVE IsInjective(mlq_ready_queue[q])
    <3>1. DOMAIN mlq_ready_queue[q] = 1..Len(mlq_ready_queue[q])
      BY <2>1 DEF IInv, TypeOK, SchedTypeOK
    <3>2. QED
      BY <2>1, <3>1 DEF IInv, HomeInv, QueuesOK, Distinct, IsInjective
  <2>2. QED
    BY <2>1 DEF IInv, HomeInv, QueuesOK, OneHome
<1>2. QED
  BY <1>1, Invariance, PTL

(***************************************************************************)
(* running_list names every process that runs, so the look-up in           *)
(* __sys_memmap can find the caller there.                                 *)
(***************************************************************************)
THEOREM RunningAreListed ==
  ASSUME N <= MaxQueueSize
  PROVE  Spec => []RunningListed
<1>1. IInv => RunningListed
  BY DEF IInv, HomeInv, RunningListed
<1>2. QED
  BY <1>1, Invariance, PTL

(***************************************************************************)
(* When the last CPU leaves cpu_routine, every process has finished.       *)
(***************************************************************************)
THEOREM NobodyIsAbandoned ==
  ASSUME N <= MaxQueueSize
  PROVE  Spec => []NoneAbandoned
<1>1. ASSUME IInv, \A c \in CPUs : cpc[c] = "stopped" PROVE freed = Procs
  <2>1. PICK c \in CPUs : TRUE
    BY OSAssumption
  <2>2. done /\ i = N + 1
    BY <1>1, <2>1 DEF IInv, PhaseInv, LoadInv
  <2>3. Held = {} /\ ~Busy
    BY <1>1 DEF IInv, PhaseInv, Held, Busy
  <2>4. Queued = {}
    BY <1>1, <2>1, <2>3 DEF IInv, WorkInv
  <2>5. 1..(i - 1) = Procs
    BY <2>2, SchedAssumption DEF Procs
  <2>6. QED
    BY <1>1, <2>3, <2>4, <2>5 DEF IInv, HomeInv
<1>2. IInv => NoneAbandoned
  BY <1>1 DEF NoneAbandoned
<1>3. QED
  BY <1>2, Invariance, PTL

(***************************************************************************)
(* No process runs two instructions in one slot, whichever CPUs it visits  *)
(* (run and next_slot in cpu_routine).                                     *)
(***************************************************************************)
THEOREM OneInstructionPerSlot ==
  ASSUME N <= MaxQueueSize
  PROVE  Spec => OnePerSlot
<1> DEFINE Once == \A p \in Procs : pc'[p] # pc[p] => p \notin ran
<1>1. ASSUME IInv, [Next]_vars PROVE Once
  <2>1. ASSUME NEW c \in CPUs, Run(c) PROVE Once
    <3>1. /\ st[c] = "work" /\ proc[c] # NULL
          /\ pc' = [pc EXCEPT ![proc[c]] = IF @ < size[proc[c]] THEN @ + 1 ELSE @]
      BY <2>1 DEF Run, Runs, InSlot
    <3>2. pc \in [Procs -> Nat] /\ proc[c] \in Procs
      BY <1>1, <3>1 DEF IInv, TypeOK
    <3>3. proc[c] \notin ran
      BY <1>1, <3>1 DEF IInv, RanInv, HomeInv
    <3>4. QED
      BY <3>1, <3>2, <3>3
  <2>2. CASE UNCHANGED pc
    BY <2>2
  <2>3. ASSUME \A c \in CPUs : ~Run(c) PROVE UNCHANGED pc
    BY <1>1, <2>3
    DEF Next, vars, CPUNext, TopIdle, TopGet, Finish, Preempt, GetNext, Stop,
        Skip, LoaderNext, LoaderExit, LoaderWait, LoaderAdd, LoaderDone, Tick,
        Enter, Exited
  <2>4. QED
    BY <2>1, <2>2, <2>3
<1>2. IInv /\ [Next]_vars => [Once]_vars
  BY <1>1
<1>3. QED
  BY <1>2, Invariance, PTL DEF Spec, OnePerSlot

-----------------------------------------------------------------------------
(* The quantum *)

(* time_left counts the quantum down from the dispatch; a time_slot of 0 is *)
(* never met again on the way down.                                         *)
QuantumInv ==
  \A c \in CPUs :
    /\ proc[c] = NULL \/ cpc[c] = "check" => time_left[c] = 0 /\ used[c] = 0
    /\ cpc[c] = "top" /\ proc[c] # NULL =>
         /\ used[c] > 0
         /\ time_left[c] = time_slot - used[c]
         /\ time_slot = 0 \/ used[c] <= time_slot

LEMMA QuantumRun ==
  ASSUME TypeOK, PhaseInv, QuantumInv, NEW c \in CPUs, Run(c)
  PROVE  /\ QuantumInv'
         /\ proc' = proc
         /\ used'[c] > time_slot => time_slot = 0
         /\ \A e \in CPUs \ {c} : used'[e] = used[e]
<1>1. /\ used \in [CPUs -> Nat] /\ time_left \in [CPUs -> Int] /\ time_slot \in Nat
      /\ cpc \in [CPUs -> {"top", "get", "check", "stopped"}]
  BY DEF TypeOK
<1>2. /\ used' = [used EXCEPT ![c] = @ + 1]
      /\ time_left' = [time_left EXCEPT
                         ![c] = (IF @ = 0 THEN time_slot ELSE @) - 1]
      /\ cpc' = [cpc EXCEPT ![c] = "top"]
      /\ proc' = proc /\ time_slot' = time_slot
      /\ proc[c] # NULL
  BY DEF Run, Runs, input
<1>3. \/ used[c] = 0 /\ time_left[c] = 0
      \/ /\ used[c] > 0 /\ time_left[c] # 0
         /\ time_left[c] = time_slot - used[c]
         /\ time_slot = 0 \/ used[c] <= time_slot
  BY DEF Run, Runs, QuantumInv
<1>4. /\ used'[c] > 0
      /\ time_left'[c] = time_slot - used'[c]
      /\ time_slot = 0 \/ used'[c] <= time_slot
  BY <1>1, <1>2, <1>3
<1>5. \A e \in CPUs \ {c} : /\ used'[e] = used[e] /\ time_left'[e] = time_left[e]
                             /\ cpc'[e] = cpc[e]
  BY <1>1, <1>2
<1>6. cpc'[c] = "top" /\ proc'[c] # NULL
  BY <1>1, <1>2
<1>7. QuantumInv'
  BY <1>2, <1>4, <1>5, <1>6 DEF QuantumInv
<1>8. QED
  BY <1>1, <1>2, <1>4, <1>5, <1>7

(* A CPU's own steps other than run: they give the process up, take one, or *)
(* leave both as they are.                                                  *)
LEMMA QuantumOther ==
  ASSUME TypeOK, PhaseInv, QuantumInv, NEW c \in CPUs, CPUNext(c), ~Run(c)
  PROVE  /\ QuantumInv'
         /\ \A e \in CPUs : used'[e] = used[e] \/ used'[e] = 0
         /\ \A e \in CPUs \ {c} : proc'[e] = proc[e]
         /\ proc[c] # NULL /\ proc'[c] # proc[c] =>
              pc[proc[c]] = size[proc[c]] \/ used[c] = time_slot
<1> USE DEF input, cpuVars, ldVars, history, TypeOK, QuantumInv, PhaseInv
<1>1. CASE TopIdle(c)
  BY <1>1 DEF TopIdle
<1>2. CASE TopGet(c)
  BY <1>2, NullIsNoProc DEF TopGet
<1>3. CASE Finish(c)
  BY <1>3 DEF Finish
<1>4. CASE Preempt(c)
  BY <1>4 DEF Preempt
<1>5. CASE GetNext(c)
  BY <1>5, NullIsNoProc DEF GetNext
<1>6. CASE Stop(c)
  BY <1>6 DEF Stop
<1>7. CASE Skip(c)
  BY <1>7 DEF Skip
<1>8. QED
  BY <1>1, <1>2, <1>3, <1>4, <1>5, <1>6, <1>7 DEF CPUNext

(***************************************************************************)
(* A process leaves its CPU finished or after exactly time_slot calls of   *)
(* run, and with time_slot = 0 only finished, for every time_slot.         *)
(***************************************************************************)
THEOREM QuantumIsFull == Spec => FullQuantum
<1> DEFINE Full == \A c \in CPUs :
                     /\ proc[c] # NULL /\ proc'[c] # proc[c] =>
                          pc[proc[c]] = size[proc[c]] \/ used[c] = time_slot
                     /\ used'[c] > time_slot => time_slot = 0
<1> DEFINE QInv == TypeOK /\ PhaseInv /\ LoadInv /\ QuantumInv
<1>1. Init => QInv
  BY InitIInv DEF IInv, Init, QuantumInv
<1>2. ASSUME QInv, [Next]_vars PROVE QInv' /\ [Full]_vars
  <2>1. TypeOK' /\ PhaseInv' /\ LoadInv'
    BY <1>2, StepType, PhaseStep
  <2>2. /\ used \in [CPUs -> Nat] /\ time_slot \in Nat
        /\ \A c \in CPUs : used[c] > time_slot => time_slot = 0
    <3>1. used \in [CPUs -> Nat] /\ time_slot \in Nat
      BY <1>2 DEF TypeOK
    <3>2. ASSUME NEW c \in CPUs PROVE used[c] > time_slot => time_slot = 0
      BY <1>2, <3>1 DEF TypeOK, PhaseInv, QuantumInv
    <3>3. QED
      BY <3>1, <3>2
  <2>3. ASSUME NEW c \in CPUs, Run(c) PROVE QuantumInv' /\ Full
    BY <1>2, <2>2, <2>3, QuantumRun
  <2>4. ASSUME NEW c \in CPUs, CPUNext(c), ~Run(c) PROVE QuantumInv' /\ Full
    BY <1>2, <2>2, <2>4, QuantumOther
  <2>5. CASE LoaderNext \/ Tick \/ (\E d \in Devices : Enter(d)) \/ UNCHANGED vars
    <3>1. UNCHANGED <<cpuVars, used, time_slot>>
      BY <2>5 DEF LoaderNext, LoaderExit, LoaderWait, LoaderAdd, LoaderDone,
         Tick, Enter, vars, input, history
    <3>2. QED
      BY <1>2, <2>1, <2>2, <3>1 DEF QuantumInv, cpuVars
  <2>6. QED
    BY <1>2, <2>1, <2>3, <2>4, <2>5 DEF Next, Exited
<1>3. QED
  BY <1>1, <1>2, PTL DEF Spec, FullQuantum

-----------------------------------------------------------------------------
(* The budgets *)

LEMMA HeldAtFinite ==
  ASSUME NEW q, NEW c \in CPUs
  PROVE  /\ IsFiniteSet(HeldAt(q)) /\ Cardinality(HeldAt(q)) \in Nat
         /\ Cardinality(CPUs) \in Nat \ {0}
         /\ proc[c] = NULL => Cardinality(HeldAt(q)) <= Cardinality(CPUs) - 1
<1>1. IsFiniteSet(CPUs) /\ HeldAt(q) \subseteq CPUs
  BY OSAssumption DEF HeldAt
<1>2. IsFiniteSet(HeldAt(q))
  BY <1>1, FS_Subset
<1>3. Cardinality(HeldAt(q)) \in Nat /\ Cardinality(CPUs) \in Nat
  BY <1>1, <1>2, FS_CardinalityType
<1>4. IsFiniteSet(CPUs \ {c}) /\ Cardinality(CPUs \ {c}) = Cardinality(CPUs) - 1
  BY <1>1, FS_RemoveElement
<1>5. Cardinality(CPUs \ {c}) \in Nat
  BY <1>4, FS_CardinalityType
<1>6. ASSUME proc[c] = NULL
      PROVE  Cardinality(HeldAt(q)) <= Cardinality(CPUs) - 1
  <2>1. HeldAt(q) \subseteq CPUs \ {c}
    BY <1>6 DEF HeldAt
  <2>2. QED
    BY <1>4, <2>1, FS_Subset
<1>7. QED
  BY <1>2, <1>3, <1>4, <1>5, <1>6

(* The bound holds for the budgets get_proc works with: reset_slot restores *)
(* the full budget, and the CPU that calls it holds nothing.               *)
LEMMA BudgetBound ==
  ASSUME TypeOK, SlotBound, NEW c \in CPUs, proc[c] = NULL, NEW q \in Prios
  PROVE  Budget[q] + Cardinality(HeldAt(q))
           <= (MaxPrio - q) + (Cardinality(CPUs) - 1)
<1>1. CASE HasSlot
  BY <1>1 DEF Budget, SlotBound
<1>2. CASE ~HasSlot
  <2>1. Budget[q] = MaxPrio - q
    BY <1>2 DEF Budget, FullSlots
  <2>2. Cardinality(HeldAt(q)) <= Cardinality(CPUs) - 1
    BY HeldAtFinite
  <2>3. MaxPrio - q \in Int
    BY SchedAssumption DEF Prios
  <2>4. QED
    BY <2>1, <2>2, <2>3, HeldAtFinite
<1>3. QED
  BY <1>1, <1>2

LEMMA SlotGet ==
  ASSUME TypeOK, QueuesOK, SlotBound, NEW c \in CPUs, proc[c] = NULL,
         NEW p \in Procs, GetProc(p), proc' = [proc EXCEPT ![c] = p],
         prio' = prio
  PROVE  SlotBound'
<1> SUFFICES ASSUME NEW q \in Prios
             PROVE  slot'[q] + Cardinality(HeldAt(q)')
                      <= (MaxPrio - q) + (Cardinality(CPUs) - 1)
  BY DEF SlotBound
<1>1. /\ prio[p] = Served /\ Served \in Prios
      /\ slot' = [Budget EXCEPT ![Served] = @ - 1]
  BY GetEffect DEF TypeOK
<1>2. Budget \in [Prios -> Nat]
  BY BudgetType DEF TypeOK
<1>3. slot'[q] = IF q = Served THEN Budget[q] - 1 ELSE Budget[q]
  BY <1>1, <1>2
<1>4. HeldAt(q)' = IF q = Served THEN HeldAt(q) \cup {c} ELSE HeldAt(q)
  BY <1>1, NullIsNoProc DEF HeldAt, TypeOK
<1>5. c \notin HeldAt(q)
  BY DEF HeldAt
<1>6. Cardinality(HeldAt(q)') = IF q = Served THEN Cardinality(HeldAt(q)) + 1
                                             ELSE Cardinality(HeldAt(q))
  BY <1>4, <1>5, HeldAtFinite, FS_AddElement
<1>7. /\ Budget[q] \in Nat /\ Cardinality(HeldAt(q)) \in Nat
      /\ Budget[q] + Cardinality(HeldAt(q))
           <= (MaxPrio - q) + (Cardinality(CPUs) - 1)
  BY <1>2, HeldAtFinite, BudgetBound
<1>8. (MaxPrio - q) + (Cardinality(CPUs) - 1) \in Int
  BY HeldAtFinite, SchedAssumption DEF Prios
<1>9. QED
  BY <1>3, <1>6, <1>7, <1>8

LEMMA SlotStep ==
  ASSUME IInv, SlotBound, [Next]_vars
  PROVE  SlotBound'
<1> USE DEF input, cpuVars, ldVars, history
<1>0. /\ TypeOK /\ QueuesOK /\ SchedTypeOK
      /\ proc \in [CPUs -> Procs \cup {NULL}]
      /\ prio \in [Procs -> Prios] /\ slot \in [Prios -> Nat]
  BY DEF IInv, TypeOK, SchedTypeOK, HomeInv
<1>1. ASSUME UNCHANGED <<slot, proc, prio>> PROVE SlotBound'
  BY <1>1 DEF SlotBound, HeldAt
<1>2. ASSUME NEW c \in CPUs, proc[c] = NULL, GetNone, UNCHANGED <<proc, prio>>
      PROVE  SlotBound'
  <2>1. slot' = Budget /\ \A q : HeldAt(q)' = HeldAt(q)
    BY <1>2 DEF GetNone, HeldAt
  <2>2. QED
    BY <1>0, <1>2, <2>1, BudgetBound DEF SlotBound
<1>3. ASSUME NEW c \in CPUs, CPUNext(c) PROVE SlotBound'
  <2>1. CASE TopIdle(c)
    BY <2>1, <1>2 DEF TopIdle
  <2>2. CASE TopGet(c)
    BY <2>2, <1>0, SlotGet DEF TopGet
  <2>3. CASE GetNext(c)
    <3>1. proc[c] = NULL
      BY <2>3 DEF GetNext, IInv, PhaseInv
    <3>2. QED
      BY <2>3, <3>1, <1>0, <1>2, SlotGet DEF GetNext
  <2>4. CASE Finish(c) \/ Preempt(c)
    <3>1. /\ proc[c] \in Procs /\ proc' = [proc EXCEPT ![c] = NULL] /\ prio' = prio
      BY <2>4, <1>0 DEF Finish, Preempt
    <3>2. SUFFICES ASSUME NEW q \in Prios
                   PROVE  slot'[q] + Cardinality(HeldAt(q)')
                            <= (MaxPrio - q) + (Cardinality(CPUs) - 1)
      BY DEF SlotBound
    <3>3. HeldAt(q)' = HeldAt(q) \ {c}
      BY <3>1, <1>0 DEF HeldAt
    <3>4. c \in HeldAt(q) <=> q = prio[proc[c]]
      BY <3>1, NullIsNoProc DEF HeldAt
    <3>5. Cardinality(HeldAt(q)') = IF q = prio[proc[c]]
                                      THEN Cardinality(HeldAt(q)) - 1
                                      ELSE Cardinality(HeldAt(q))
      BY <3>3, <3>4, HeldAtFinite, FS_RemoveElement
    <3>6. slot'[q] = slot[q] \/ (q = prio[proc[c]] /\ slot'[q] = slot[q] + 1)
      BY <2>4, <1>0 DEF Finish, schedVars, Preempt, PutProc
    <3>7. /\ slot[q] \in Nat /\ Cardinality(HeldAt(q)) \in Nat
          /\ slot[q] + Cardinality(HeldAt(q))
               <= (MaxPrio - q) + (Cardinality(CPUs) - 1)
          /\ (MaxPrio - q) + (Cardinality(CPUs) - 1) \in Int
      BY <1>0, HeldAtFinite, SchedAssumption DEF SlotBound, Prios
    <3>8. QED
      BY <3>5, <3>6, <3>7
  <2>5. CASE Stop(c) \/ Skip(c) \/ Run(c)
    BY <2>5, <1>1 DEF Stop, Skip, Run, schedVars
  <2>6. QED
    BY <1>3, <2>1, <2>2, <2>3, <2>4, <2>5 DEF CPUNext
<1>4. CASE LoaderNext \/ Tick \/ \E d \in Devices : Enter(d)
  BY <1>1, <1>4
  DEF LoaderNext, LoaderExit, LoaderWait, LoaderAdd, LoaderDone, AddProc, Tick,
      Enter, schedVars
<1>5. CASE UNCHANGED vars
  BY <1>1, <1>5 DEF vars, schedVars
<1>6. QED
  BY <1>3, <1>4, <1>5 DEF Next, Exited

LEMMA InitSlotBound == Init => SlotBound
<1> SUFFICES ASSUME Init, NEW q \in Prios
             PROVE  slot[q] + Cardinality(HeldAt(q))
                      <= (MaxPrio - q) + (Cardinality(CPUs) - 1)
  BY DEF SlotBound
<1>1. PICK c \in CPUs : TRUE
  BY OSAssumption
<1>2. Cardinality(HeldAt(q)) = 0
  <2>1. HeldAt(q) = {}
    BY DEF Init, HeldAt
  <2>2. QED
    BY <2>1, FS_EmptySet
<1>3. slot[q] = MaxPrio - q /\ MaxPrio - q \in Int
  BY SchedAssumption DEF Init, SchedInit, FullSlots, Prios
<1>4. Cardinality(CPUs) \in Nat \ {0}
  BY <1>1, HeldAtFinite
<1>5. QED
  BY <1>2, <1>3, <1>4

(***************************************************************************)
(* The budget of a priority, with the slots its running processes will     *)
(* give back (put_mlq_proc), exceeds the full budget MAX_PRIO - prio by    *)
(* less than the number of CPUs.                                           *)
(***************************************************************************)
THEOREM SlotsAreBounded ==
  ASSUME N <= MaxQueueSize
  PROVE  Spec => []SlotBound
<1>1. IInv /\ SlotBound /\ [Next]_vars => SlotBound'
  BY SlotStep
<1>2. QED
  BY <1>1, InitSlotBound, Invariance, PTL DEF Spec

-----------------------------------------------------------------------------
(* The life of a process *)

(* Where a process is, as the sets of OneHome tell it. *)
LEMMA StatusIs ==
  ASSUME HomeInv, TypeOK, NEW p \in Procs
  PROVE  /\ p \in freed  => StatusOf(p) = "finished"
         /\ p \in Held   => StatusOf(p) = "running"
         /\ p \in Queued => StatusOf(p) = "ready"
         /\ p >= i       => StatusOf(p) = "new"
<1>1. p >= i => p \notin Queued /\ p \notin Held /\ p \notin freed
  BY SchedAssumption DEF HomeInv, TypeOK, Procs
<1>2. QED
  BY <1>1 DEF StatusOf, HomeInv

(* A step that moves one process moves it in the life of the processes. *)
LEMMA LifeMoves ==
  ASSUME NEW p \in Procs, NEW a, NEW b,
         StatusOf(p) = a, StatusOf(p)' = b,
         \A q \in Procs \ {p} : StatusOf(q)' = StatusOf(q)
  PROVE  Life!Move(p, a, b)
<1> DEFINE s == [q \in Procs |-> StatusOf(q)]
<1>1. s[p] = a
  OBVIOUS
<1>2. s' = [q \in Procs |-> StatusOf(q)']
  OBVIOUS
<1>3. ASSUME NEW q \in Procs PROVE StatusOf(q)' = [s EXCEPT ![p] = b][q]
  OBVIOUS
<1>4. s' = [s EXCEPT ![p] = b]
  BY <1>2, <1>3
<1>5. QED
  BY <1>1, <1>4 DEF Life!Move

LEMMA LifeStays ==
  ASSUME UNCHANGED <<mlq_ready_queue, proc, freed, i>>
  PROVE  \A q \in Procs : StatusOf(q)' = StatusOf(q)
<1>1. Queued' = Queued /\ Held' = Held
  BY DEF Queued, Held
<1>2. QED
  BY <1>1 DEF StatusOf

(* get_proc *)
LEMMA LifeGet ==
  ASSUME N <= MaxQueueSize, IInv, NEW c \in CPUs, proc[c] = NULL, NEW p \in Procs,
         GetProc(p), proc' = [proc EXCEPT ![c] = p], UNCHANGED <<input, freed, i, pc>>
  PROVE  Life!Dispatch(p)
<1>1. TypeOK /\ HomeInv /\ SchedTypeOK /\ QueuesOK
  BY DEF IInv, TypeOK, HomeInv
<1>2. p \in Queued /\ Queued' = Queued \ {p}
  BY <1>1, GetEffect
<1>3. p \notin Held /\ p \notin freed /\ p # NULL
  BY <1>1, <1>2, NullIsNoProc DEF HomeInv
<1>4. Held' = Held \cup {p}
  <2>1. /\ proc \in [CPUs -> Procs \cup {NULL}]
        /\ \A d, e \in CPUs : proc[d] = proc[e] /\ proc[d] # NULL => d = e
    BY <1>1 DEF TypeOK, HomeInv
  <2>2. Held' = (Held \ {proc[c]}) \cup ({p} \ {NULL})
    BY <1>3, <2>1, HeldAfter
  <2>3. QED
    BY <1>3, <2>2 DEF Held
<1>5. StatusOf(p) = "ready"
  BY <1>1, <1>2, StatusIs
<1>6. StatusOf(p)' = "running"
  BY <1>3, <1>4 DEF StatusOf
<1>7. \A q \in Procs \ {p} : StatusOf(q)' = StatusOf(q)
  BY <1>2, <1>4 DEF StatusOf
<1>8. Life!Move(p, "ready", "running")
  BY <1>5, <1>6, <1>7, LifeMoves
<1>9. QED
  BY <1>8 DEF Life!Dispatch, input

(* A CPU gives up its process: to the end of its life, or to its queue. *)
LEMMA LifeFinish ==
  ASSUME IInv, NEW c \in CPUs, Finish(c), NEW p \in Procs, p = proc[c]
  PROVE  Life!Exit(p)
<1>1. /\ p \in Procs /\ p \in Held /\ pc[p] = size[p] /\ TypeOK /\ HomeInv
      /\ pc \in [Procs -> Nat]
  BY DEF Finish, Held, IInv, TypeOK
<1>2. freed' = freed \cup {p} /\ proc' = [proc EXCEPT ![c] = NULL] /\ i' = i
  BY DEF Finish, ldVars
<1>3. Held' = Held \ {p}
  <2>1. /\ proc \in [CPUs -> Procs \cup {NULL}] /\ NULL \notin Held
        /\ \A d, e \in CPUs : proc[d] = proc[e] /\ proc[d] # NULL => d = e
    BY <1>1 DEF TypeOK, HomeInv, Held
  <2>2. Held' = (Held \ {proc[c]}) \cup ({NULL} \ {NULL})
    BY <1>2, <2>1, HeldAfter
  <2>3. QED
    BY <2>2
<1>4. Queued' = Queued
  BY DEF Finish, schedVars, Queued
<1>5. UNCHANGED <<size, pc>>
  BY DEF Finish, input
<1>6. StatusOf(p) = "running"
  BY <1>1, StatusIs
<1>7. StatusOf(p)' = "finished"
  BY <1>2 DEF StatusOf
<1>8. \A q \in Procs \ {p} : StatusOf(q)' = StatusOf(q)
  BY <1>2, <1>3, <1>4 DEF StatusOf
<1>9. Life!Move(p, "running", "finished")
  BY <1>1, <1>6, <1>7, <1>8, LifeMoves
<1>10. QED
  BY <1>1, <1>5, <1>9 DEF Life!Exit

LEMMA LifePreempt ==
  ASSUME N <= MaxQueueSize, IInv, NEW c \in CPUs, Preempt(c), NEW p \in Procs, p = proc[c]
  PROVE  Life!Preempt(p)
<1>1. /\ p \in Procs /\ p \in Held /\ pc[p] # size[p] /\ TypeOK /\ HomeInv
      /\ pc \in [Procs -> Nat] /\ size \in [Procs -> Nat] /\ pc[p] <= size[p]
  BY DEF Preempt, Held, IInv, TypeOK, PcInv
<1>2. freed' = freed /\ proc' = [proc EXCEPT ![c] = NULL] /\ i' = i
  BY DEF Preempt, ldVars
<1>3. Held' = Held \ {p}
  <2>1. /\ proc \in [CPUs -> Procs \cup {NULL}] /\ NULL \notin Held
        /\ \A d, e \in CPUs : proc[d] = proc[e] /\ proc[d] # NULL => d = e
    BY <1>1 DEF TypeOK, HomeInv, Held
  <2>2. Held' = (Held \ {proc[c]}) \cup ({NULL} \ {NULL})
    BY <1>2, <2>1, HeldAfter
  <2>3. QED
    BY <2>2
<1>4. Queued' = Queued \cup {p}
  <2>1. /\ mlq_ready_queue' = [mlq_ready_queue EXCEPT ![prio[p]] = Enqueue(@, p)]
        /\ prio' = prio
    BY DEF Preempt, PutProc, input
  <2>2. p \notin Queued /\ SchedTypeOK /\ QueuesOK
    BY <1>1 DEF HomeInv, TypeOK
  <2>3. QED
    BY <1>1, <2>1, <2>2, EntersQueue
<1>5. UNCHANGED <<size, pc>>
  BY DEF Preempt, input
<1>6. StatusOf(p) = "running" /\ p \notin freed
  BY <1>1, StatusIs DEF HomeInv
<1>7. StatusOf(p)' = "ready"
  BY <1>2, <1>3, <1>4, <1>6 DEF StatusOf
<1>8. \A q \in Procs \ {p} : StatusOf(q)' = StatusOf(q)
  BY <1>2, <1>3, <1>4 DEF StatusOf
<1>9. Life!Move(p, "running", "ready")
  BY <1>1, <1>6, <1>7, <1>8, LifeMoves
<1>10. QED
  BY <1>1, <1>5, <1>9 DEF Life!Preempt

(* add_proc *)
LEMMA LifeLoad ==
  ASSUME N <= MaxQueueSize, IInv, LoaderAdd, NEW p \in Procs, p = i
  PROVE  Life!Load(p)
<1>1. i' = i + 1 /\ TypeOK /\ HomeInv
  BY DEF LoaderAdd, IInv
<1>2. p \notin Queued /\ p \notin Held /\ p \notin freed
  BY <1>1, SchedAssumption DEF HomeInv, Procs
<1>3. Queued' = Queued \cup {p}
  <2>1. /\ mlq_ready_queue' = [mlq_ready_queue EXCEPT ![prio[p]] = Enqueue(@, p)]
        /\ prio' = prio
    BY DEF LoaderAdd, AddProc, input
  <2>2. SchedTypeOK /\ QueuesOK
    BY <1>1 DEF HomeInv, TypeOK
  <2>3. QED
    BY <1>2, <2>1, <2>2, EntersQueue
<1>4. Held' = Held /\ freed' = freed /\ UNCHANGED <<size, pc>>
  BY DEF LoaderAdd, Held, input, cpuVars, history
<1>5. StatusOf(p) = "new"
  BY <1>1, StatusIs, SchedAssumption DEF Procs
<1>6. StatusOf(p)' = "ready"
  BY <1>2, <1>3, <1>4 DEF StatusOf
<1>7. \A q \in Procs : q # p => (q >= i' <=> q >= i)
  BY <1>1, SchedAssumption DEF Procs
<1>8. \A q \in Procs \ {p} : StatusOf(q)' = StatusOf(q)
  BY <1>3, <1>4, <1>7 DEF StatusOf
<1>9. Life!Move(p, "new", "ready")
  BY <1>5, <1>6, <1>8, LifeMoves
<1>10. QED
  BY <1>4, <1>9 DEF Life!Load

(* run *)
LEMMA LifeRun ==
  ASSUME IInv, NEW c \in CPUs, Run(c), NEW p \in Procs, p = proc[c]
  PROVE  Life!Execute(p) \/ UNCHANGED Life!vars
<1>1. /\ pc' = [pc EXCEPT ![p] = IF @ < size[p] THEN @ + 1 ELSE @]
      /\ UNCHANGED <<size, mlq_ready_queue, proc, freed, i>>
  BY DEF Run, schedVars, ldVars, input
<1>2. /\ pc \in [Procs -> Nat] /\ size \in [Procs -> Nat] /\ TypeOK /\ HomeInv
      /\ p \in Held
  BY NullIsNoProc DEF IInv, TypeOK, Held
<1>3. [q \in Procs |-> StatusOf(q)]' = [q \in Procs |-> StatusOf(q)]
  BY <1>1, LifeStays
<1>4. CASE pc[p] < size[p]
  <2>1. \A q \in Procs : size'[q] - pc'[q] = IF q = p THEN (size[q] - pc[q]) - 1
                                                      ELSE size[q] - pc[q]
    BY <1>1, <1>2, <1>4
  <2>2. [q \in Procs |-> size[q] - pc[q]]'
          = [[q \in Procs |-> size[q] - pc[q]] EXCEPT ![p] = @ - 1]
    BY <2>1
  <2>3. StatusOf(p) = "running"
    BY <1>2, StatusIs
  <2>4. size[p] - pc[p] > 0
    BY <1>2, <1>4
  <2>5. QED
    BY <1>3, <2>2, <2>3, <2>4 DEF Life!Execute
<1>5. CASE ~(pc[p] < size[p])
  <2>1. pc' = pc
    BY <1>1, <1>2, <1>5
  <2>2. QED
    BY <1>1, <1>3, <2>1 DEF Life!vars
<1>6. QED
  BY <1>4, <1>5

LEMMA LifeStep ==
  ASSUME N <= MaxQueueSize, IInv, [Next]_vars
  PROVE  [Life!Next]_(Life!vars)
<1> USE DEF input, cpuVars, ldVars, history
<1>1. UNCHANGED <<mlq_ready_queue, proc, freed, i, size, pc>> => UNCHANGED Life!vars
  BY LifeStays DEF Life!vars
<1>2. ASSUME NEW c \in CPUs, CPUNext(c) PROVE [Life!Next]_(Life!vars)
  <2>1. CASE TopIdle(c) \/ Stop(c) \/ Skip(c)
    BY <1>1, <2>1 DEF TopIdle, Stop, Skip, GetNone, schedVars
  <2>2. ASSUME NEW p \in Procs, GetProc(p), proc[c] = NULL,
               proc' = [proc EXCEPT ![c] = p], UNCHANGED <<input, freed, i, pc>>
        PROVE  Life!Next
    BY <2>2, LifeGet DEF Life!Next
  <2>3. CASE TopGet(c)
    BY <2>2, <2>3 DEF TopGet
  <2>4. CASE GetNext(c)
    <3>1. proc[c] = NULL
      BY <2>4 DEF GetNext, IInv, PhaseInv
    <3>2. CASE GetNone /\ UNCHANGED proc
      BY <1>1, <2>4, <3>2 DEF GetNext, GetNone
    <3>3. CASE \E p \in Procs : GetProc(p) /\ proc' = [proc EXCEPT ![c] = p]
      BY <2>2, <2>4, <3>1, <3>3 DEF GetNext
    <3>4. QED
      BY <2>4, <3>2, <3>3 DEF GetNext
  <2>5. CASE Finish(c)
    <3>1. proc[c] \in Procs
      BY <2>5 DEF Finish, IInv, TypeOK
    <3>2. QED
      BY <2>5, <3>1, LifeFinish DEF Life!Next
  <2>6. CASE Preempt(c)
    <3>1. proc[c] \in Procs
      BY <2>6 DEF Preempt, IInv, TypeOK
    <3>2. QED
      BY <2>6, <3>1, LifePreempt DEF Life!Next
  <2>7. CASE Run(c)
    <3>1. proc[c] \in Procs
      BY <2>7 DEF Run, Runs, IInv, TypeOK
    <3>2. QED
      BY <2>7, <3>1, LifeRun DEF Life!Next
  <2>8. QED
    BY <1>2, <2>1, <2>3, <2>4, <2>5, <2>6, <2>7 DEF CPUNext
<1>3. CASE LoaderAdd
  <2>1. i \in Procs
    BY <1>3, SchedAssumption DEF LoaderAdd, IInv, TypeOK, Procs
  <2>2. QED
    BY <1>3, <2>1, LifeLoad DEF Life!Next
<1>4. CASE LoaderWait \/ LoaderDone \/ LoaderExit
  BY <1>1, <1>4 DEF LoaderWait, LoaderDone, LoaderExit, schedVars
<1>5. CASE Tick \/ \E d \in Devices : Enter(d)
  BY <1>1, <1>5 DEF Tick, Enter, schedVars
<1>6. CASE UNCHANGED vars
  BY <1>1, <1>6 DEF vars, schedVars
<1>7. QED
  BY <1>2, <1>3, <1>4, <1>5, <1>6 DEF Next, LoaderNext, Exited

LEMMA LifeInit == Init => Life!Init
<1> SUFFICES ASSUME Init PROVE Life!Init
  OBVIOUS
<1>1. TypeOK /\ HomeInv
  BY InitIInv DEF IInv
<1>2. \A p \in Procs : StatusOf(p) = "new"
  BY <1>1, StatusIs DEF Init, Procs
<1>3. \A p \in Procs : size[p] - pc[p] \in Nat
  BY <1>1 DEF Init, TypeOK
<1>4. QED
  BY <1>2, <1>3 DEF Life!Init

(***************************************************************************)
(* cpu_routine and ld_routine implement the life of a process (module      *)
(* ProcessLife): it is loaded once, executes each of its instructions once *)
(* and only on a CPU, is put back only before its end and freed only at    *)
(* it, whatever the CPUs, the queues and the loader interleave.            *)
(***************************************************************************)
THEOREM OSImplementsLife ==
  ASSUME N <= MaxQueueSize
  PROVE  Spec => ImplementsLife
<1>1. IInv /\ [Next]_vars => [Life!Next]_(Life!vars)
  BY LifeStep
<1>2. QED
  BY <1>1, LifeInit, Invariance, PTL DEF Spec, ImplementsLife, Life!Spec

-----------------------------------------------------------------------------
(* No CPU idles next to waiting work *)

(* A CPU that has found no process in this slot, or for good. *)
Idle(c) == /\ proc[c] = NULL
           /\ \/ cpc[c] \in {"check", "stopped"}
              \/ cpc[c] = "top" /\ st[c] = "arrived"

(* The CPUs that will take a process, if there is one. *)
Getting == {c \in CPUs : cpc[c] = "get"}

(* The process that the loader has added in this slot, if it has. *)
Added == IF st[Loader] = "arrived" THEN 1 ELSE 0

(***************************************************************************)
(* Next to an idle CPU, what waits has been put back by a CPU that will    *)
(* take one process for it, or was added by the loader in this slot: when  *)
(* the CPU found nothing, nothing was waiting.                             *)
(***************************************************************************)
IdleInv == (\E c \in CPUs : Idle(c)) => Cardinality(Queued) <= Cardinality(Getting) + Added

LEMMA CountsFinite ==
  TypeOK => /\ IsFiniteSet(Queued) /\ Cardinality(Queued) \in Nat
            /\ IsFiniteSet(Getting) /\ Cardinality(Getting) \in Nat
            /\ Added \in {0, 1}
<1> SUFFICES ASSUME TypeOK
             PROVE  /\ IsFiniteSet(Queued) /\ Cardinality(Queued) \in Nat
                    /\ IsFiniteSet(Getting) /\ Cardinality(Getting) \in Nat
                    /\ Added \in {0, 1}
  OBVIOUS
<1>1. IsFiniteSet(Procs)
  BY SchedAssumption, FS_Interval DEF Procs
<1>2. Queued \subseteq Procs
  BY QueueMembers DEF TypeOK
<1>3. IsFiniteSet(Queued) /\ IsFiniteSet(Getting)
  BY <1>1, <1>2, OSAssumption, FS_Subset DEF Getting
<1>4. QED
  BY <1>3, FS_CardinalityType DEF Added

(* What a CPU that goes to "get", or comes from there, adds. *)
LEMMA GettingAfter ==
  ASSUME TypeOK, NEW c \in CPUs, NEW x, cpc' = [cpc EXCEPT ![c] = x]
  PROVE  /\ cpc[c] # "get" /\ x # "get" => Getting' = Getting
         /\ cpc[c] # "get" /\ x = "get" =>
              Cardinality(Getting') = Cardinality(Getting) + 1
         /\ cpc[c] = "get" /\ x # "get" =>
              Cardinality(Getting') = Cardinality(Getting) - 1
<1>1. \A d \in CPUs : cpc'[d] = IF d = c THEN x ELSE cpc[d]
  BY DEF TypeOK
<1>2. IsFiniteSet(Getting)
  BY CountsFinite
<1>3. cpc[c] # "get" /\ x # "get" => Getting' = Getting
  BY <1>1 DEF Getting
<1>4. ASSUME cpc[c] # "get", x = "get" PROVE Cardinality(Getting') = Cardinality(Getting) + 1
  <2>1. Getting' = Getting \cup {c} /\ c \notin Getting
    BY <1>1, <1>4 DEF Getting
  <2>2. QED
    BY <1>2, <2>1, FS_AddElement
<1>5. ASSUME cpc[c] = "get", x # "get" PROVE Cardinality(Getting') = Cardinality(Getting) - 1
  <2>1. Getting' = Getting \ {c} /\ c \in Getting
    BY <1>1, <1>5 DEF Getting
  <2> HIDE DEF Getting
  <2>2. Cardinality(Getting \ {c}) = Cardinality(Getting) - 1
    BY <1>2, <2>1, FS_RemoveElement
  <2>3. QED
    BY <2>1, <2>2
<1>6. QED
  BY <1>3, <1>4, <1>5

LEMMA IdleCPU ==
  ASSUME N <= MaxQueueSize, IInv, IdleInv, NEW c \in CPUs, CPUNext(c), IInv'
  PROVE  IdleInv'
<1> USE DEF input, cpuVars, ldVars, history, InSlot
<1> DEFINE Bounded == Cardinality(Queued) <= Cardinality(Getting) + Added
<1>0. /\ TypeOK /\ TypeOK' /\ HomeInv /\ SchedTypeOK /\ QueuesOK /\ PhaseInv /\ PhaseInv'
      /\ cpc \in [CPUs -> {"top", "get", "check", "stopped"}]
      /\ proc \in [CPUs -> Procs \cup {NULL}] /\ st \in [Devices -> Barrier!State]
      /\ c # Loader /\ c \in Devices /\ Loader \in Devices
  BY OSAssumption DEF IInv, TypeOK, HomeInv, Barrier!TypeOK, Devices
<1>1. /\ IsFiniteSet(Queued) /\ Cardinality(Queued) \in Nat /\ Cardinality(Getting) \in Nat
      /\ Added \in {0, 1} /\ Cardinality(Getting') \in Nat /\ Added' \in {0, 1}
  <2>1. (TypeOK => /\ IsFiniteSet(Queued) /\ Cardinality(Queued) \in Nat
                    /\ IsFiniteSet(Getting) /\ Cardinality(Getting) \in Nat
                    /\ Added \in {0, 1})'
    BY CountsFinite, PTL
  <2>2. QED
    BY <1>0, <2>1, CountsFinite
<1>2. Added' = Added
  <2>1. st'[Loader] = st[Loader]
    BY <1>0 DEF CPUNext, TopIdle, TopGet, Finish, Preempt, GetNext, Stop, Skip, Run,
                Barrier!Arrive, Barrier!Leave
  <2>2. QED
    BY <2>1 DEF Added
<1>3. ASSUME GetNone PROVE IdleInv'
  <2>1. Queued' = {}
    <3>1. Queued = {}
      BY <1>0, <1>3, NothingUsable DEF GetNone
    <3>2. QED
      BY <1>3, <3>1 DEF GetNone, Queued
  <2>2. Cardinality(Queued') = 0
    BY <2>1, FS_EmptySet
  <2>3. QED
    BY <1>1, <2>2 DEF IdleInv
<1>4. ASSUME NEW p \in Procs, GetProc(p)
      PROVE  Cardinality(Queued') = Cardinality(Queued) - 1
  <2>1. p \in Queued /\ Queued' = Queued \ {p}
    BY <1>0, <1>4, GetEffect
  <2>2. QED
    BY <1>1, <2>1, FS_RemoveElement
<1>5. ASSUME proc'[c] # NULL \/ cpc'[c] = "get" \/ Idle(c),
             \A d \in CPUs \ {c} : proc'[d] = proc[d] /\ cpc'[d] = cpc[d] /\ st'[d] = st[d],
             \E d \in CPUs : Idle(d)'
      PROVE  Bounded
  <2>1. ~(proc'[c] # NULL \/ cpc'[c] = "get") => Idle(c)
    BY <1>5
  <2>2. PICK d \in CPUs : Idle(d)'
    BY <1>5
  <2>3. CASE d = c
    BY <2>1, <2>2, <2>3 DEF Idle, IdleInv
  <2>4. CASE d # c
    <3>1. Idle(d)
      BY <1>5, <2>2, <2>4 DEF Idle
    <3>2. QED
      BY <3>1 DEF IdleInv
  <2>5. QED
    BY <2>3, <2>4
<1>6. \A d \in CPUs \ {c} : proc'[d] = proc[d] /\ cpc'[d] = cpc[d] /\ st'[d] = st[d]
  <2>1. CASE TopIdle(c)
    BY <1>0, <2>1 DEF TopIdle, Barrier!Arrive
  <2>2. CASE TopGet(c)
    BY <1>0, <2>2 DEF TopGet
  <2>3. CASE Finish(c) \/ Preempt(c)
    BY <1>0, <2>3 DEF Finish, Preempt
  <2>4. CASE GetNext(c)
    BY <1>0, <2>4 DEF GetNext
  <2>5. CASE Stop(c)
    BY <1>0, <2>5 DEF Stop, Barrier!Leave
  <2>6. CASE Skip(c)
    BY <1>0, <2>6 DEF Skip, Barrier!Arrive
  <2>7. CASE Run(c)
    BY <1>0, <2>7 DEF Run, Barrier!Arrive
  <2>8. QED
    BY <2>1, <2>2, <2>3, <2>4, <2>5, <2>6, <2>7 DEF CPUNext
<1> HIDE DEF Bounded
<1>7. CASE TopIdle(c)
  BY <1>3, <1>7 DEF TopIdle
<1>8. CASE TopGet(c)
  <2>1. PICK p \in Procs : GetProc(p) /\ proc' = [proc EXCEPT ![c] = p]
    BY <1>8 DEF TopGet
  <2>2. proc'[c] # NULL
    BY <1>0, <2>1, NullIsNoProc
  <2>3. Cardinality(Queued') = Cardinality(Queued) - 1
    BY <1>4, <2>1
  <2>4. Getting' = Getting
    <3>1. PICK x \in {"check"} : cpc' = [cpc EXCEPT ![c] = x] /\ cpc[c] # "get"
      BY <1>8 DEF TopGet
    <3>2. QED
      BY <1>0, <3>1, GettingAfter
  <2>5. ASSUME Bounded PROVE Cardinality(Queued') <= Cardinality(Getting') + Added'
    BY <1>1, <1>2, <2>3, <2>4, <2>5 DEF Bounded
  <2>6. QED
    BY <1>5, <1>6, <2>2, <2>5 DEF IdleInv
<1>9. CASE GetNext(c)
  <2>1. CASE GetNone
    BY <1>3, <2>1
  <2>2. CASE \E p \in Procs : GetProc(p) /\ proc' = [proc EXCEPT ![c] = p]
    <3>1. PICK p \in Procs : GetProc(p) /\ proc' = [proc EXCEPT ![c] = p]
      BY <2>2
    <3>2. proc'[c] # NULL
      BY <1>0, <3>1, NullIsNoProc
    <3>3. Cardinality(Queued') = Cardinality(Queued) - 1
      BY <1>4, <3>1
    <3>4. Cardinality(Getting') = Cardinality(Getting) - 1
      <4>1. PICK x \in {"check"} : cpc' = [cpc EXCEPT ![c] = x] /\ cpc[c] = "get"
        BY <1>9 DEF GetNext
      <4>2. QED
        BY <1>0, <4>1, GettingAfter
    <3>5. ASSUME Bounded PROVE Cardinality(Queued') <= Cardinality(Getting') + Added'
      BY <1>1, <1>2, <3>3, <3>4, <3>5 DEF Bounded
    <3>6. QED
      BY <1>5, <1>6, <3>2, <3>5 DEF IdleInv
  <2>3. QED
    BY <1>9, <2>1, <2>2 DEF GetNext
<1>10. CASE Finish(c) \/ Preempt(c)
  <2>1. cpc'[c] = "get"
    BY <1>0, <1>10 DEF Finish, Preempt
  <2>2. Cardinality(Getting') = Cardinality(Getting) + 1
    <3>1. cpc' = [cpc EXCEPT ![c] = "get"] /\ cpc[c] # "get"
      BY <1>10 DEF Finish, Preempt
    <3>2. QED
      BY <1>0, <3>1, GettingAfter
  <2>3. Cardinality(Queued') \in Nat /\ Cardinality(Queued') <= Cardinality(Queued) + 1
    <3>1. CASE Finish(c)
      <4>1. Queued' = Queued
        BY <3>1 DEF Finish, schedVars, Queued
      <4>2. QED
        BY <1>1, <4>1
    <3>2. CASE Preempt(c)
      <4>1. proc[c] \in Procs /\ proc[c] \notin Queued
        BY <1>0, <3>2 DEF Preempt, Held, HomeInv
      <4>2. /\ mlq_ready_queue' =
                 [mlq_ready_queue EXCEPT ![prio[proc[c]]] = Enqueue(@, proc[c])]
            /\ prio' = prio
        BY <3>2 DEF Preempt, PutProc
      <4>3. Queued' = Queued \cup {proc[c]}
        BY <1>0, <4>1, <4>2, EntersQueue
      <4>4. Cardinality(Queued') = Cardinality(Queued) + 1
        BY <1>1, <4>1, <4>3, FS_AddElement
      <4>5. QED
        BY <1>1, <4>4
    <3>3. QED
      BY <1>10, <3>1, <3>2
  <2>4. ASSUME Bounded PROVE Cardinality(Queued') <= Cardinality(Getting') + Added'
    BY <1>1, <1>2, <2>2, <2>3, <2>4 DEF Bounded
  <2>5. QED
    BY <1>5, <1>6, <2>1, <2>4 DEF IdleInv
<1>11. CASE Stop(c) \/ Skip(c) \/ Run(c)
  <2>1. Queued' = Queued
    BY <1>11 DEF Stop, Skip, Run, schedVars, Queued
  <2>2. Getting' = Getting
    <3>1. PICK x \in {"stopped", "top"} : cpc' = [cpc EXCEPT ![c] = x]
      BY <1>11 DEF Stop, Skip, Run
    <3>2. cpc[c] # "get"
      BY <1>11 DEF Stop, Skip, Run, Runs
    <3>3. QED
      BY <1>0, <3>1, <3>2, GettingAfter
  <2>3. proc'[c] # NULL \/ Idle(c)
    BY <1>11 DEF Stop, Skip, Run, Runs, Idle
  <2>4. ASSUME Bounded PROVE Cardinality(Queued') <= Cardinality(Getting') + Added'
    BY <1>2, <2>1, <2>2, <2>4 DEF Bounded
  <2>5. QED
    BY <1>5, <1>6, <2>3, <2>4 DEF IdleInv
<1>12. QED
  BY <1>7, <1>8, <1>9, <1>10, <1>11 DEF CPUNext

(* The loader's process is the one it may leave waiting in this slot. *)
LEMMA IdleLoader ==
  ASSUME N <= MaxQueueSize, IInv, IInv', IdleInv, LoaderNext
  PROVE  IdleInv'
<1> USE DEF input, cpuVars, ldVars, history, InSlot
<1>0. /\ TypeOK /\ TypeOK' /\ HomeInv /\ SchedTypeOK /\ QueuesOK
      /\ st \in [Devices -> Barrier!State] /\ Loader \in Devices
      /\ Loader \notin CPUs
  BY OSAssumption DEF IInv, TypeOK, HomeInv, Barrier!TypeOK, Devices
<1>1. /\ IsFiniteSet(Queued) /\ Cardinality(Queued) \in Nat /\ Cardinality(Getting) \in Nat
      /\ Added \in {0, 1} /\ Added' \in {0, 1}
  <2>1. (TypeOK => /\ IsFiniteSet(Queued) /\ Cardinality(Queued) \in Nat
                   /\ IsFiniteSet(Getting) /\ Cardinality(Getting) \in Nat
                   /\ Added \in {0, 1})'
    BY CountsFinite, PTL
  <2>2. QED
    BY <1>0, <2>1, CountsFinite
<1>2. Getting' = Getting
  BY DEF LoaderNext, LoaderExit, LoaderWait, LoaderAdd, LoaderDone, Getting
<1>3. (\E c \in CPUs : Idle(c)') => \E c \in CPUs : Idle(c)
  <2>1. \A c \in CPUs : proc'[c] = proc[c] /\ cpc'[c] = cpc[c] /\ st'[c] = st[c]
    <3>1. CASE LoaderExit
      BY <3>1 DEF LoaderExit
    <3>2. CASE LoaderWait
      BY <1>0, <3>2 DEF LoaderWait, Barrier!Arrive
    <3>3. CASE LoaderAdd
      BY <1>0, <3>3 DEF LoaderAdd, Barrier!Arrive
    <3>4. CASE LoaderDone
      BY <1>0, <3>4 DEF LoaderDone, Barrier!Leave
    <3>5. QED
      BY <3>1, <3>2, <3>3, <3>4 DEF LoaderNext
  <2>2. QED
    BY <2>1 DEF Idle
<1>4. CASE LoaderAdd
  <2>1. i \in Procs
    BY <1>0, <1>4, SchedAssumption DEF LoaderAdd, TypeOK, Procs
  <2>2. i \notin Queued
    BY <1>0, <2>1, SchedAssumption DEF HomeInv, Procs
  <2>3. /\ mlq_ready_queue' = [mlq_ready_queue EXCEPT ![prio[i]] = Enqueue(@, i)]
        /\ prio' = prio
    BY <1>4 DEF LoaderAdd, AddProc
  <2>4. Queued' = Queued \cup {i}
    BY <1>0, <2>1, <2>2, <2>3, EntersQueue
  <2>5. Cardinality(Queued') = Cardinality(Queued) + 1
    BY <1>1, <2>2, <2>4, FS_AddElement
  <2>6. Added = 0 /\ Added' = 1
    BY <1>0, <1>4 DEF LoaderAdd, Barrier!Arrive, Added
  <2>7. QED
    BY <1>1, <1>2, <1>3, <2>5, <2>6 DEF IdleInv
<1>5. CASE LoaderExit \/ LoaderWait \/ LoaderDone
  <2>1. Queued' = Queued
    BY <1>5 DEF LoaderExit, LoaderWait, LoaderDone, schedVars, Queued
  <2>2. Added <= Added'
    <3>1. st'[Loader] = st[Loader] \/ st[Loader] = "work"
      BY <1>5 DEF LoaderExit, LoaderWait, LoaderDone
    <3>2. QED
      BY <1>1, <3>1 DEF Added
  <2>3. QED
    BY <1>1, <1>2, <1>3, <2>1, <2>2 DEF IdleInv
<1>6. QED
  BY <1>4, <1>5 DEF LoaderNext

(* The timer: a CPU that is still idle in the next slot has stopped, and   *)
(* the loader before it.                                                   *)
LEMMA IdleTimer ==
  ASSUME IInv, IInv', IdleInv, Tick \/ \E d \in Devices : Enter(d)
  PROVE  IdleInv'
<1> USE DEF input, cpuVars, ldVars, history
<1>0. /\ TypeOK /\ PhaseInv /\ LoadInv /\ PhaseInv' /\ LoadInv'
      /\ st \in [Devices -> Barrier!State] /\ Loader \in Devices /\ CPUs \subseteq Devices
      /\ cpc \in [CPUs -> {"top", "get", "check", "stopped"}]
  BY OSAssumption DEF IInv, TypeOK, Barrier!TypeOK, Devices
<1>1. Queued' = Queued /\ Getting' = Getting /\ proc' = proc /\ cpc' = cpc
  BY DEF Tick, Enter, schedVars, Queued, Getting
<1>2. CASE Tick
  <2>1. ASSUME NEW c \in CPUs, Idle(c)' PROVE Idle(c) /\ done'
    <3>1. st'[c] # "arrived" /\ st'[c] # "work"
      BY <1>0, <1>2 DEF Tick, Barrier!Tick, Barrier!State
    <3>2. cpc'[c] = "stopped"
      BY <1>0, <2>1, <3>1 DEF Idle, PhaseInv
    <3>3. QED
      BY <1>0, <1>1, <2>1, <3>2 DEF Idle, PhaseInv
  <2>2. done' => Added' = Added
    BY <1>0, <1>2 DEF LoadInv, Added, Tick
  <2>3. QED
    BY <1>1, <2>1, <2>2 DEF IdleInv
<1>3. ASSUME NEW d \in Devices, Enter(d) PROVE IdleInv'
  <2>1. /\ st[d] = "blocked" /\ st'[d] = "work"
        /\ \A e \in Devices \ {d} : st'[e] = st[e]
    BY <1>0, <1>3 DEF Enter, Barrier!Enter
  <2>2. Added' = Added
    BY <1>0, <2>1 DEF Added
  <2>3. \A c \in CPUs : Idle(c)' => Idle(c)
    BY <1>0, <1>1, <2>1 DEF Idle
  <2>4. QED
    BY <1>1, <2>2, <2>3 DEF IdleInv
<1>4. QED
  BY <1>2, <1>3

LEMMA IdleStep ==
  ASSUME N <= MaxQueueSize
  PROVE  IInv /\ IInv' /\ IdleInv /\ [Next]_vars => IdleInv'
<1> SUFFICES ASSUME IInv, IInv', IdleInv, [Next]_vars PROVE IdleInv'
  OBVIOUS
<1>1. ASSUME NEW c \in CPUs, CPUNext(c) PROVE IdleInv'
  BY <1>1, IdleCPU
<1>2. CASE LoaderNext
  BY <1>2, IdleLoader
<1>3. CASE Tick \/ \E d \in Devices : Enter(d)
  BY <1>3, IdleTimer
<1>4. CASE UNCHANGED vars
  <2>1. UNCHANGED <<cpc, proc, st, mlq_ready_queue>>
    BY <1>4 DEF vars, cpuVars, schedVars
  <2>2. Queued' = Queued /\ Getting' = Getting /\ Added' = Added
    BY <2>1 DEF Queued, Getting, Added
  <2>3. \A c \in CPUs : Idle(c)' <=> Idle(c)
    BY <2>1 DEF Idle
  <2>4. QED
    BY <2>2, <2>3 DEF IdleInv
<1>5. QED
  BY <1>1, <1>2, <1>3, <1>4 DEF Next, Exited

LEMMA IdleInit == Init => IdleInv
<1> SUFFICES ASSUME Init, NEW c \in CPUs, Idle(c) PROVE FALSE
  BY DEF IdleInv
<1>1. cpc[c] = "top" /\ st[c] = "work"
  BY DEF Init, Barrier!Init, Devices
<1>2. QED
  BY <1>1 DEF Idle

(* When a slot ends, an idle CPU has looked in vain, and no CPU is on its  *)
(* way to a process.                                                       *)
LEMMA IdleSlotEnd ==
  ASSUME IInv, IdleInv, Tick, NEW c \in CPUs, proc[c] = NULL
  PROVE  Cardinality(Queued) <= (IF done THEN 0 ELSE 1)
<1>0. /\ TypeOK /\ PhaseInv /\ LoadInv /\ CPUs \subseteq Devices
      /\ cpc \in [CPUs -> {"top", "get", "check", "stopped"}]
  BY DEF IInv, TypeOK, Devices
<1>1. \A d \in CPUs : st[d] \in {"arrived", "gone"}
  BY <1>0 DEF Tick, Barrier!Tick
<1>2. Getting = {}
  BY <1>0, <1>1 DEF PhaseInv, Getting
<1>3. Idle(c)
  BY <1>0, <1>1 DEF PhaseInv, Idle
<1>4. Cardinality(Getting) = 0
  BY <1>2, FS_EmptySet
<1>5. Cardinality(Queued) \in Nat /\ Cardinality(Queued) <= 0 + Added
  BY <1>0, <1>3, <1>4, CountsFinite DEF IdleInv
<1>6. Added = (IF st[Loader] = "arrived" THEN 1 ELSE 0) /\ (done => Added = 0)
  BY <1>0 DEF LoadInv, Added
<1>7. QED
  BY <1>5, <1>6

(***************************************************************************)
(* No CPU idles through a slot next to a waiting process: get_proc fails   *)
(* only on empty queues, a process put back is behind a CPU that goes on   *)
(* to get_proc itself, and the loader adds one process a slot.             *)
(***************************************************************************)
THEOREM WorkIsConserved ==
  ASSUME N <= MaxQueueSize
  PROVE  Spec => WorkConserving
<1> DEFINE Claim == Tick /\ (\E c \in CPUs : proc[c] = NULL)
                      => Cardinality(Queued) <= (IF done THEN 0 ELSE 1)
<1>1. IInv /\ IdleInv => Claim
  BY IdleSlotEnd
<1>2. IInv /\ IInv' /\ IdleInv /\ [Next]_vars => IdleInv'
  BY IdleStep
<1>3. Spec => []IdleInv
  BY <1>2, IdleInit, Invariance, PTL DEF Spec
<1> HIDE DEF Claim
<1>4. Spec => [][Claim]_vars
  BY <1>1, <1>3, Invariance, PTL DEF Spec
<1>5. QED
  BY <1>4 DEF WorkConserving, Claim
=============================================================================
