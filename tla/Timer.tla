------------------------------- MODULE Timer -------------------------------
(***************************************************************************)
(* src/timer.c: the thread that paces the simulation, the threads that     *)
(* attached to it, and main's use of attach_event, start_timer and         *)
(* stop_timer (src/os.c).                                                  *)
(*                                                                         *)
(* Each device has two mutexes and two condition variables.  No thread     *)
(* takes a mutex while it holds another and pthread_cond_wait gives up the *)
(* one it waits under, so the code between a lock and its unlock (or its   *)
(* wait) is one action.  The flag done is written under event_lock by the  *)
(* device and under timer_lock by the timer: the two sections are separate *)
(* actions and interleave freely.  A wait is modelled as the state         *)
(* "asleep"; a signal, or a spurious wake-up, takes the thread back to the *)
(* test of its predicate.                                                  *)
(***************************************************************************)
EXTENDS Integers, Sequences, SequencesExt

CONSTANTS
  Devices,   \* the CPU threads and the loader thread
  MaxSlots   \* bound: a device calls next_slot at most MaxSlots times

ASSUME MaxSlotsAssumption == MaxSlots \in Nat

VARIABLES
  mpc,            \* main
  dev_list,       \* the attached devices, in list order
  timer_started, timer_stop,
  tpc,            \* the timer thread
  temp,           \* its list pointer: the part of dev_list still to visit
  nfsh, nevent,   \* its locals fsh and event
  time,           \* _time
  done, fsh,      \* the flags of each device
  dpc,            \* the device threads
  calls           \* calls[d]: how often d has called next_slot (history)

mainVars  == <<mpc, dev_list, timer_started, timer_stop>>
timerVars == <<tpc, temp, nfsh, nevent, time>>
devVars   == <<done, fsh, dpc, calls>>
vars      == <<mainVars, timerVars, devVars>>

Init ==
  /\ mpc = "attach"
  /\ dev_list = <<>>
  /\ timer_started = FALSE
  /\ timer_stop = FALSE
  /\ tpc = "off"
  /\ temp = <<>>
  /\ nfsh = 0
  /\ nevent = 0
  /\ time = 0
  /\ done = [d \in Devices |-> FALSE]
  /\ fsh = [d \in Devices |-> FALSE]
  /\ dpc = [d \in Devices |-> "new"]
  /\ calls = [d \in Devices |-> 0]

-----------------------------------------------------------------------------
(* main *)

(* attach_event: refused once the timer runs; puts the device in front. *)
Attach(d) ==
  /\ mpc = "attach"
  /\ ~timer_started
  /\ d \notin ToSet(dev_list)
  /\ dev_list' = <<d>> \o dev_list
  /\ UNCHANGED <<mpc, timer_started, timer_stop, timerVars, devVars>>

(* start_timer, once every device is attached. *)
StartTimer ==
  /\ mpc = "attach"
  /\ ToSet(dev_list) = Devices
  /\ mpc' = "create"
  /\ timer_started' = TRUE
  /\ tpc' = "top"
  /\ UNCHANGED <<dev_list, timer_stop, temp, nfsh, nevent, time, devVars>>

(* pthread_create of the thread that owns d: the timer already runs. *)
Create(d) ==
  /\ mpc = "create"
  /\ dpc[d] = "new"
  /\ dpc' = [dpc EXCEPT ![d] = "work"]
  /\ mpc' = IF \A e \in Devices : dpc'[e] # "new" THEN "join" ELSE mpc
  /\ UNCHANGED <<dev_list, timer_started, timer_stop, timerVars,
                 done, fsh, calls>>

(* The joins of every thread, then the first line of stop_timer. *)
StopTimer ==
  /\ mpc = "join"
  /\ \A d \in Devices : dpc[d] = "gone"
  /\ mpc' = "stop"
  /\ timer_stop' = TRUE
  /\ UNCHANGED <<dev_list, timer_started, timerVars, devVars>>

(* Faulty variant: stop_timer does not join the timer thread. *)
JoinTimer_NoJoin ==
  /\ mpc = "stop"
  /\ mpc' = "free"
  /\ UNCHANGED <<dev_list, timer_started, timer_stop, timerVars, devVars>>

(* stop_timer joins the timer thread ... *)
JoinTimer ==
  /\ mpc = "stop"
  /\ tpc = "exit"
  /\ mpc' = "free"
  /\ UNCHANGED <<dev_list, timer_started, timer_stop, timerVars, devVars>>

(* ... and frees the list node by node. *)
FreeNode ==
  /\ mpc = "free"
  /\ IF dev_list = <<>>
       THEN mpc' = "end" /\ UNCHANGED dev_list
       ELSE dev_list' = Tail(dev_list) /\ UNCHANGED mpc
  /\ UNCHANGED <<timer_started, timer_stop, timerVars, devVars>>

-----------------------------------------------------------------------------
(* timer_routine *)

(* Faulty variant: the scan starts behind the head of the list. *)
TimerTop_SkipHead ==
  /\ tpc = "top"
  /\ IF timer_stop
       THEN tpc' = "exit" /\ UNCHANGED <<temp, nfsh, nevent>>
       ELSE /\ tpc' = "scan"
            /\ temp' = Tail(dev_list)
            /\ nfsh' = 0
            /\ nevent' = 0
  /\ UNCHANGED <<time, mainVars, devVars>>

(* The head of the loop, with the test of timer_stop. *)
TimerTop ==
  /\ tpc = "top"
  /\ IF timer_stop
       THEN tpc' = "exit" /\ UNCHANGED <<temp, nfsh, nevent>>
       ELSE tpc' = "scan" /\ temp' = dev_list /\ nfsh' = 0 /\ nevent' = 0
  /\ UNCHANGED <<time, mainVars, devVars>>

(* The device at temp has not finished its slot: wait for event_cond. *)
TimerSleep ==
  /\ tpc = "scan"
  /\ temp # <<>>
  /\ ~done[Head(temp)] /\ ~fsh[Head(temp)]
  /\ tpc' = "asleep"
  /\ UNCHANGED <<temp, nfsh, nevent, time, mainVars, devVars>>

(* Faulty variant: finished devices are counted down. *)
TimerCount_Down ==
  /\ tpc = "scan"
  /\ temp # <<>>
  /\ done[Head(temp)] \/ fsh[Head(temp)]
  /\ nfsh' = IF fsh[Head(temp)] THEN nfsh - 1 ELSE nfsh
  /\ nevent' = nevent + 1
  /\ temp' = Tail(temp)
  /\ UNCHANGED <<tpc, time, mainVars, devVars>>

(* It has: count it and go to the next one. *)
TimerCount ==
  /\ tpc = "scan"
  /\ temp # <<>>
  /\ done[Head(temp)] \/ fsh[Head(temp)]
  /\ nfsh' = IF fsh[Head(temp)] THEN nfsh + 1 ELSE nfsh
  /\ nevent' = nevent + 1
  /\ temp' = Tail(temp)
  /\ UNCHANGED <<tpc, time, mainVars, devVars>>

(* Every device has finished: increase the time and start the second pass. *)
TimerTick ==
  /\ tpc = "scan"
  /\ temp = <<>>
  /\ time' = time + 1
  /\ temp' = dev_list
  /\ tpc' = "release"
  /\ UNCHANGED <<nfsh, nevent, mainVars, devVars>>

(* Faulty variant: done is cleared without a signal. *)
TimerRelease_NoSignal ==
  /\ tpc = "release"
  /\ temp # <<>>
  /\ done' = [done EXCEPT ![Head(temp)] = FALSE]
  /\ temp' = Tail(temp)
  /\ UNCHANGED <<tpc, nfsh, nevent, time, mainVars, dpc, fsh, calls>>

(* Clear done of the device at temp and signal its timer_cond. *)
TimerRelease ==
  /\ tpc = "release"
  /\ temp # <<>>
  /\ done' = [done EXCEPT ![Head(temp)] = FALSE]
  /\ dpc' = [dpc EXCEPT ![Head(temp)] = IF @ = "asleep" THEN "wait" ELSE @]
  /\ temp' = Tail(temp)
  /\ UNCHANGED <<tpc, nfsh, nevent, time, mainVars, fsh, calls>>

TimerEndRound ==
  /\ tpc = "release"
  /\ temp = <<>>
  /\ tpc' = IF nfsh = nevent THEN "exit" ELSE "top"
  /\ UNCHANGED <<temp, nfsh, nevent, time, mainVars, devVars>>

TimerSpurious ==
  /\ tpc = "asleep"
  /\ tpc' = "scan"
  /\ UNCHANGED <<temp, nfsh, nevent, time, mainVars, devVars>>

(* Faulty variant: the device does not signal event_cond. *)
SignalTimer_None(d) == tpc' = tpc

(* pthread_cond_signal on event_cond of d: only the timer waits there. *)
SignalTimer(d) ==
  tpc' = IF tpc = "asleep" /\ Head(temp) = d THEN "scan" ELSE tpc

-----------------------------------------------------------------------------
(* The device threads *)

(* next_slot: the section under event_lock. *)
NextSlot(d) ==
  /\ dpc[d] = "work"
  /\ calls[d] < MaxSlots
  /\ done' = [done EXCEPT ![d] = TRUE]
  /\ calls' = [calls EXCEPT ![d] = @ + 1]
  /\ dpc' = [dpc EXCEPT ![d] = "wait"]
  /\ SignalTimer(d)
  /\ UNCHANGED <<temp, nfsh, nevent, time, mainVars, fsh>>

(* next_slot: the test of done under timer_lock, which sleeps or returns. *)
TestDone(d) ==
  /\ dpc[d] = "wait"
  /\ dpc' = [dpc EXCEPT ![d] = IF done[d] THEN "asleep" ELSE "work"]
  /\ UNCHANGED <<done, fsh, calls, timerVars, mainVars>>

(* Faulty variant: an if in place of the while around the wait. *)
DeviceSpurious_NoRetest(d) ==
  /\ dpc[d] = "asleep"
  /\ dpc' = [dpc EXCEPT ![d] = "work"]
  /\ UNCHANGED <<done, fsh, calls, timerVars, mainVars>>

DeviceSpurious(d) ==
  /\ dpc[d] = "asleep"
  /\ dpc' = [dpc EXCEPT ![d] = "wait"]
  /\ UNCHANGED <<done, fsh, calls, timerVars, mainVars>>

(* Faulty variant: detach_event does not signal event_cond. *)
Detach_NoSignal(d) ==
  /\ dpc[d] = "work"
  /\ fsh' = [fsh EXCEPT ![d] = TRUE]
  /\ dpc' = [dpc EXCEPT ![d] = "gone"]
  /\ UNCHANGED <<done, calls, timerVars, mainVars>>

(* detach_event, the last thing a thread does. *)
Detach(d) ==
  /\ dpc[d] = "work"
  /\ fsh' = [fsh EXCEPT ![d] = TRUE]
  /\ dpc' = [dpc EXCEPT ![d] = "gone"]
  /\ SignalTimer(d)
  /\ UNCHANGED <<done, calls, temp, nfsh, nevent, time, mainVars>>

-----------------------------------------------------------------------------
(* main has returned: nothing is left to happen. *)
Finished == mpc = "end" /\ UNCHANGED vars

MainNext == StartTimer \/ StopTimer \/ JoinTimer \/ FreeNode

TimerNext == \/ TimerTop \/ TimerSleep \/ TimerCount \/ TimerTick
             \/ TimerRelease \/ TimerEndRound

DeviceNext(d) == NextSlot(d) \/ TestDone(d) \/ Detach(d)

Next == \/ MainNext
        \/ TimerNext
        \/ TimerSpurious
        \/ Finished
        \/ \E d \in Devices : \/ Attach(d) \/ Create(d)
                              \/ DeviceNext(d) \/ DeviceSpurious(d)

Spec == Init /\ [][Next]_vars

(***************************************************************************)
(* The operating system runs every thread that can run.  The client's part *)
(* of the contract is that a thread in a slot ends it: WF of DeviceNext.   *)
(* No fairness of the spurious wake-ups: they may never happen.            *)
(***************************************************************************)
Fairness == /\ WF_vars(MainNext)
            /\ \A d \in Devices : WF_vars(Attach(d)) /\ WF_vars(Create(d))
            /\ WF_vars(TimerNext)
            /\ \A d \in Devices : WF_vars(DeviceNext(d))

FairSpec == Spec /\ Fairness

-----------------------------------------------------------------------------
(* Properties *)

(* Every variable holds a value of its kind. *)
TypeOK ==
  /\ mpc \in {"attach", "create", "join", "stop", "free", "end"}
  /\ dev_list \in Seq(Devices)
  /\ timer_started \in BOOLEAN
  /\ timer_stop \in BOOLEAN
  /\ tpc \in {"off", "top", "scan", "asleep", "release", "exit"}
  /\ temp \in Seq(Devices)
  /\ nfsh \in Nat
  /\ nevent \in Nat
  /\ time \in Nat
  /\ done \in [Devices -> BOOLEAN]
  /\ fsh \in [Devices -> BOOLEAN]
  /\ dpc \in [Devices -> {"new", "work", "wait", "asleep", "gone"}]
  /\ calls \in [Devices -> Nat]

(***************************************************************************)
(* A thread that works in a slot works in the slot the clock shows: it has *)
(* passed exactly as many barriers as there were ticks, whatever the order *)
(* in which the timer and the devices took their mutexes.                  *)
(***************************************************************************)
Lockstep == \A d \in Devices : dpc[d] = "work" => calls[d] = time

(***************************************************************************)
(* No wake-up is lost: nobody sleeps on a condition variable while the     *)
(* predicate it waits for already holds.                                   *)
(***************************************************************************)
NoLostWakeup ==
  /\ \A d \in Devices : dpc[d] = "asleep" => done[d]
  /\ tpc = "asleep" => temp # <<>> /\ ~done[Head(temp)] /\ ~fsh[Head(temp)]

(***************************************************************************)
(* stop_timer frees a list node only when neither the timer thread nor the *)
(* thread that owns the node can touch it again.                           *)
(***************************************************************************)
FreedIsUnused ==
  /\ tpc \in {"scan", "asleep", "release"} => ToSet(temp) \subseteq ToSet(dev_list)
  /\ \A d \in Devices : dpc[d] \notin {"new", "gone"} => d \in ToSet(dev_list)

(***************************************************************************)
(* The clock moves only when every thread has finished the slot: it waits  *)
(* in next_slot or has detached.                                           *)
(***************************************************************************)
TickAtBarrier ==
  [][time' # time =>
       \A d \in Devices : /\ dpc[d] \in {"wait", "asleep", "gone"}
                          /\ dpc[d] # "gone" => done[d]]_vars

(* stop_timer returns, so main ends, once every thread has detached; for   *)
(* that each next_slot returns, for every thread and in every slot.        *)
MainEnds == <>(mpc = "end")

(***************************************************************************)
(* The timer implements the slot barrier.  A device is in its slot while   *)
(* its done flag is clear; with the flag set it has arrived, or is blocked *)
(* while the timer, having moved the clock, has not yet come to its node.  *)
(***************************************************************************)
BarrierState ==
  [d \in Devices |->
     CASE dpc[d] = "gone" -> "gone"
       [] dpc[d] # "gone" /\ ~done[d] -> "work"
       [] dpc[d] # "gone" /\ done[d] /\ tpc = "release" /\ d \in ToSet(temp)
            -> "blocked"
       [] OTHER -> "arrived"]

Barrier == INSTANCE SlotBarrier WITH st <- BarrierState, Horizon <- -1

(* Every behaviour of the timer is one of the barrier. *)
ImplementsBarrier == Barrier!Spec

(* Under the threads' fairness the timer also keeps the barrier's promises. *)
ImplementsBarrierFair == Barrier!Fairness
=============================================================================
