---------------------------- MODULE TimerProofs ----------------------------
(***************************************************************************)
(* Proofs about the timer, for any set of devices and any number of slots: *)
(* no wake-up is lost, threads stay in lockstep with the clock, the list   *)
(* is not freed under anybody's feet, and the timer implements the slot    *)
(* barrier.                                                                *)
(***************************************************************************)
EXTENDS Timer, SeqLemmas

(***************************************************************************)
(* The inductive invariant.                                                *)
(***************************************************************************)

(* dev_list and the timer's remaining part of it list distinct devices. *)
ListInv ==
  /\ Distinct(dev_list)
  /\ Distinct(temp)
  /\ tpc \in {"scan", "asleep", "release"} => ToSet(temp) \subseteq ToSet(dev_list)

(* Where main is says which threads exist and what dev_list holds. *)
MainInv ==
  /\ mpc = "attach" <=> tpc = "off"
  /\ mpc = "attach" => ~timer_started
  /\ mpc = "attach" => \A d \in Devices : dpc[d] = "new"
  /\ mpc \in {"create", "join", "stop"} => \A d \in Devices : d \in ToSet(dev_list)
  /\ mpc \in {"stop", "free", "end"} => \A d \in Devices : dpc[d] = "gone"
  /\ mpc \in {"free", "end"} => tpc = "exit"

(* The flags against the place of the thread that owns them. *)
FlagInv ==
  \A d \in Devices : /\ fsh[d] <=> dpc[d] = "gone"
                     /\ done[d] => dpc[d] \in {"wait", "asleep"}
                     /\ dpc[d] = "asleep" => done[d]

(* The timer's two passes over the list. *)
PassInv ==
  /\ tpc = "asleep" => temp # <<>> /\ ~done[Head(temp)] /\ ~fsh[Head(temp)]
  /\ tpc \in {"scan", "asleep"} =>
       \A d \in Devices : d \in ToSet(temp) \/ done[d] \/ fsh[d]
  /\ tpc = "release" =>
       \A d \in Devices : d \in ToSet(temp) => done[d] \/ fsh[d]

(* The slots a thread has finished, against the clock. *)
CallsInv ==
  \A d \in Devices : dpc[d] # "gone" =>
    calls[d] = IF done[d] /\ ~(tpc = "release" /\ d \in ToSet(temp))
                 THEN time + 1
                 ELSE time

IInv == TypeOK /\ ListInv /\ MainInv /\ FlagInv /\ PassInv /\ CallsInv

-----------------------------------------------------------------------------
LEMMA InitIInv == Init => IInv
<1> SUFFICES ASSUME Init PROVE IInv
  OBVIOUS
<1>1. ToSet(<<>>) = {} /\ Distinct(<<>>)
  BY ToSetEmpty
<1>2. TypeOK
  <2>1. dev_list \in Seq(Devices) /\ temp \in Seq(Devices)
    BY DEF Init
  <2>2. /\ done \in [Devices -> BOOLEAN]
        /\ fsh \in [Devices -> BOOLEAN]
        /\ timer_started \in BOOLEAN
        /\ timer_stop \in BOOLEAN
    BY Zenon DEF Init
  <2>3. /\ dpc \in [Devices -> {"new", "work", "wait", "asleep", "gone"}]
        /\ calls \in [Devices -> Nat]
    BY DEF Init
  <2>4. QED
    BY <2>1, <2>2, <2>3 DEF Init, TypeOK
<1>3. ListInv
  BY <1>1 DEF Init, ListInv
<1>4. MainInv /\ FlagInv /\ PassInv /\ CallsInv
  BY DEF Init, MainInv, FlagInv, PassInv, CallsInv
<1>5. QED
  BY <1>2, <1>3, <1>4 DEF IInv

(* One lemma per group of actions. *)
LEMMA MainStep ==
  ASSUME IInv, MainNext \/ \E d \in Devices : Attach(d) \/ Create(d)
  PROVE  IInv'
<1> USE DEF IInv, timerVars, devVars
<1>1. ASSUME NEW d \in Devices, Attach(d) PROVE IInv'
  <2>1. /\ <<d>> \o dev_list \in Seq(Devices)
        /\ ToSet(dev_list) \subseteq ToSet(<<d>> \o dev_list)
        /\ Distinct(<<d>> \o dev_list)
    BY <1>1, PrependDistinct DEF Attach, TypeOK, ListInv
  <2>2. QED
    BY <1>1, <2>1
    DEF Attach, TypeOK, ListInv, MainInv, FlagInv, PassInv, CallsInv
<1>2. CASE StartTimer
  BY <1>2
  DEF StartTimer, TypeOK, ListInv, MainInv, FlagInv, PassInv, CallsInv
<1>3. ASSUME NEW d \in Devices, Create(d) PROVE IInv'
  BY <1>3
  DEF Create, TypeOK, ListInv, MainInv, FlagInv, PassInv, CallsInv
<1>4. CASE StopTimer
  BY <1>4
  DEF StopTimer, TypeOK, ListInv, MainInv, FlagInv, PassInv, CallsInv
<1>5. CASE JoinTimer
  BY <1>5
  DEF JoinTimer, TypeOK, ListInv, MainInv, FlagInv, PassInv, CallsInv
<1>6. CASE FreeNode
  <2>1. dev_list' \in Seq(Devices) /\ Distinct(dev_list')
    <3>1. CASE dev_list = <<>>
      BY <1>6, <3>1 DEF FreeNode, TypeOK, ListInv
    <3>2. CASE dev_list # <<>>
      <4>1. dev_list' = Tail(dev_list)
        BY <1>6, <3>2 DEF FreeNode
      <4>2. dev_list \in Seq(Devices) /\ Distinct(dev_list)
        BY DEF TypeOK, ListInv
      <4>3. QED
        BY <3>2, <4>1, <4>2, HeadTailDistinct
    <3>3. QED
      BY <3>1, <3>2
  <2>2. QED
    BY <1>6, <2>1
    DEF FreeNode, TypeOK, ListInv, MainInv, FlagInv, PassInv, CallsInv
<1>7. QED
  BY <1>1, <1>2, <1>3, <1>4, <1>5, <1>6 DEF MainNext

LEMMA TimerStep ==
  ASSUME IInv, TimerNext \/ TimerSpurious
  PROVE  IInv'
<1> USE DEF IInv, mainVars, devVars
<1>1. CASE TimerTop
  BY <1>1
  DEF TimerTop, TypeOK, ListInv, MainInv, FlagInv, PassInv, CallsInv
<1>2. CASE TimerSleep
  BY <1>2
  DEF TimerSleep, TypeOK, ListInv, MainInv, FlagInv, PassInv, CallsInv
<1>3. CASE TimerCount
  <2>1. /\ Tail(temp) \in Seq(Devices)
        /\ ToSet(temp) = {Head(temp)} \cup ToSet(Tail(temp))
        /\ Distinct(Tail(temp))
    BY <1>3, HeadTailDistinct DEF TimerCount, TypeOK, ListInv
  <2>2. QED
    BY <1>3, <2>1
    DEF TimerCount, TypeOK, ListInv, MainInv, FlagInv, PassInv, CallsInv
<1>4. CASE TimerTick
  <2>1. \A d \in Devices : done[d] \/ fsh[d]
    BY <1>4, ToSetEmpty DEF TimerTick, PassInv
  <2>2. \A d \in Devices : d \in ToSet(dev_list)
    BY <1>4 DEF TimerTick, MainInv, TypeOK
  <2>3. QED
    BY <1>4, <2>1, <2>2
    DEF TimerTick, TypeOK, ListInv, MainInv, FlagInv, PassInv, CallsInv
<1>5. CASE TimerRelease
  <2>1. /\ Head(temp) \in Devices
        /\ Tail(temp) \in Seq(Devices)
        /\ ToSet(temp) = {Head(temp)} \cup ToSet(Tail(temp))
        /\ Distinct(Tail(temp))
        /\ Head(temp) \notin ToSet(Tail(temp))
    BY <1>5, HeadTailDistinct DEF TimerRelease, TypeOK, ListInv
  <2>2. QED
    BY <1>5, <2>1
    DEF TimerRelease, TypeOK, ListInv, MainInv, FlagInv, PassInv, CallsInv
<1>6. CASE TimerEndRound
  <2>1. ToSet(temp) = {}
    BY <1>6, ToSetEmpty DEF TimerEndRound
  <2>2. QED
    BY <1>6, <2>1
    DEF TimerEndRound, TypeOK, ListInv, MainInv, FlagInv, PassInv, CallsInv
<1>7. CASE TimerSpurious
  BY <1>7
  DEF TimerSpurious, TypeOK, ListInv, MainInv, FlagInv, PassInv, CallsInv
<1>8. QED
  BY <1>1, <1>2, <1>3, <1>4, <1>5, <1>6, <1>7 DEF TimerNext

LEMMA DeviceStep ==
  ASSUME IInv, NEW d \in Devices, DeviceNext(d) \/ DeviceSpurious(d)
  PROVE  IInv'
<1> USE DEF IInv, mainVars
<1>1. CASE NextSlot(d)
  BY <1>1
  DEF NextSlot, SignalTimer, TypeOK, ListInv, MainInv, FlagInv, PassInv, CallsInv
<1>2. CASE TestDone(d)
  BY <1>2
  DEF TestDone, timerVars, TypeOK, ListInv, MainInv, FlagInv, PassInv, CallsInv
<1>3. CASE DeviceSpurious(d)
  BY <1>3
  DEF DeviceSpurious, timerVars, TypeOK, ListInv, MainInv, FlagInv, PassInv,
      CallsInv
<1>4. CASE Detach(d)
  BY <1>4
  DEF Detach, SignalTimer, TypeOK, ListInv, MainInv, FlagInv, PassInv, CallsInv
<1>5. QED
  BY <1>1, <1>2, <1>3, <1>4 DEF DeviceNext

LEMMA NextIInv == IInv /\ [Next]_vars => IInv'
<1> SUFFICES ASSUME IInv, [Next]_vars PROVE IInv'
  OBVIOUS
<1>1. CASE UNCHANGED vars
  BY <1>1 DEF vars, mainVars, timerVars, devVars, IInv, TypeOK, ListInv,
              MainInv, FlagInv, PassInv, CallsInv
<1>2. CASE Finished
  BY <1>1, <1>2 DEF Finished
<1>3. QED
  BY <1>1, <1>2, MainStep, TimerStep, DeviceStep DEF Next

(* The invariant holds in every reachable state. *)
THEOREM Invariance == Spec => []IInv
<1>1. QED
  BY InitIInv, NextIInv, PTL DEF Spec

(***************************************************************************)
(* Type correctness: every variable of the timer and of the device threads *)
(* keeps to its kind.                                                      *)
(***************************************************************************)
THEOREM TypeCorrect == Spec => []TypeOK
<1>1. IInv => TypeOK
  BY DEF IInv
<1>2. QED
  BY <1>1, Invariance, PTL

(***************************************************************************)
(* Lockstep: a thread that works has ended as many slots (next_slot) as    *)
(* timer_routine has counted.                                              *)
(***************************************************************************)
THEOREM LockstepHolds == Spec => []Lockstep
<1>1. IInv => Lockstep
  BY DEF IInv, CallsInv, FlagInv, Lockstep
<1>2. QED
  BY <1>1, Invariance, PTL

(***************************************************************************)
(* No lost wake-up: next_slot, detach_event and timer_routine never leave  *)
(* a thread asleep whose predicate holds.                                  *)
(***************************************************************************)
THEOREM NoWakeupIsLost == Spec => []NoLostWakeup
<1>1. IInv => NoLostWakeup
  BY DEF IInv, FlagInv, PassInv, NoLostWakeup
<1>2. QED
  BY <1>1, Invariance, PTL

(***************************************************************************)
(* stop_timer frees no node that timer_routine or the node's own thread    *)
(* still uses.                                                             *)
(***************************************************************************)
THEOREM NoUseAfterFree == Spec => []FreedIsUnused
<1>1. IInv => FreedIsUnused
  <2>1. ASSUME IInv, NEW d \in Devices, dpc[d] \notin {"new", "gone"}
        PROVE  d \in ToSet(dev_list)
    BY <2>1 DEF IInv, TypeOK, MainInv
  <2>2. QED
    BY <2>1 DEF IInv, ListInv, FreedIsUnused
<1>2. QED
  BY <1>1, Invariance, PTL

-----------------------------------------------------------------------------
(* What TimerTick finds: everybody has finished the slot. *)
LEMMA TickFinds ==
  ASSUME IInv, TimerTick
  PROVE  \A d \in Devices : /\ done[d] \/ fsh[d]
                            /\ d \in ToSet(dev_list)
<1>1. \A d \in Devices : done[d] \/ fsh[d]
  BY ToSetEmpty DEF TimerTick, IInv, PassInv
<1>2. \A d \in Devices : d \in ToSet(dev_list)
  BY DEF TimerTick, IInv, MainInv, TypeOK
<1>3. QED
  BY <1>1, <1>2

(* Only TimerTick moves the clock. *)
LEMMA OnlyTickMovesTime ==
  ASSUME [Next]_vars, time' # time
  PROVE  TimerTick
BY DEF Next, vars, mainVars, timerVars, devVars, Finished, MainNext, StartTimer,
       StopTimer, JoinTimer, FreeNode, TimerNext, TimerTop, TimerSleep,
       TimerCount, TimerRelease, TimerEndRound, TimerSpurious, Attach, Create,
       DeviceNext, NextSlot, TestDone, Detach, DeviceSpurious

(***************************************************************************)
(* The clock moves only when every thread waits in next_slot or has called *)
(* detach_event.                                                           *)
(***************************************************************************)
THEOREM TicksAtBarrier == Spec => TickAtBarrier
<1> DEFINE AtBarrier == \A d \in Devices :
                          /\ dpc[d] \in {"wait", "asleep", "gone"}
                          /\ dpc[d] # "gone" => done[d]
<1>1. ASSUME IInv, [Next]_vars, time' # time PROVE AtBarrier
  BY <1>1, OnlyTickMovesTime, TickFinds DEF IInv, FlagInv
<1>2. IInv /\ [Next]_vars => [time' # time => AtBarrier]_vars
  BY <1>1
<1>3. QED
  BY <1>2, Invariance, PTL DEF Spec, TickAtBarrier

-----------------------------------------------------------------------------
(* Refinement of the slot barrier *)

(* The barrier's view of one device, before and after a step. *)
ViewOf(d) == IF dpc[d] = "gone" THEN "gone"
             ELSE IF ~done[d] THEN "work"
             ELSE IF tpc = "release" /\ d \in ToSet(temp) THEN "blocked"
             ELSE "arrived"

LEMMA BarrierStateOf ==
  /\ BarrierState = [d \in Devices |-> ViewOf(d)]
  /\ BarrierState' = [d \in Devices |-> ViewOf(d)']
  /\ \A d \in Devices : BarrierState[d] = ViewOf(d) /\ BarrierState'[d] = ViewOf(d)'
BY DEF BarrierState, ViewOf

(* A step that leaves the clock and every device where it was stutters. *)
LEMMA Stutter ==
  ASSUME time' = time, \A d \in Devices : BarrierState'[d] = BarrierState[d]
  PROVE  UNCHANGED Barrier!vars
<1>1. BarrierState' = BarrierState
  BY DEF BarrierState
<1>2. QED
  BY <1>1 DEF Barrier!vars

(* A step of one device alone. *)
LEMMA OneMoves ==
  ASSUME NEW d \in Devices,
         \A e \in Devices \ {d} : BarrierState'[e] = BarrierState[e]
  PROVE  BarrierState' = [BarrierState EXCEPT ![d] = BarrierState'[d]]
BY DEF BarrierState

LEMMA InitRefines == Init => Barrier!Init
<1> SUFFICES ASSUME Init PROVE Barrier!Init
  OBVIOUS
<1>1. \A d \in Devices : BarrierState[d] = "work"
  BY BarrierStateOf DEF ViewOf, Init
<1>2. BarrierState = [d \in Devices |-> "work"]
  BY <1>1, BarrierStateOf DEF ViewOf
<1>3. QED
  BY <1>2 DEF Init, Barrier!Init

(* main's steps and the spurious wake-ups are not seen by the barrier. *)
LEMMA MainRefines ==
  ASSUME IInv, MainNext \/ \E d \in Devices : Attach(d) \/ Create(d)
  PROVE  UNCHANGED Barrier!vars
<1>1. /\ time' = time /\ temp' = temp /\ done' = done
      /\ tpc' = "release" <=> tpc = "release"
      /\ \A d \in Devices : dpc'[d] = "gone" <=> dpc[d] = "gone"
  <2>1. CASE StartTimer
    BY <2>1 DEF StartTimer, devVars, IInv, MainInv
  <2>2. ASSUME NEW d \in Devices, Create(d)
        PROVE  /\ time' = time /\ temp' = temp /\ done' = done
               /\ tpc' = tpc
               /\ \A e \in Devices : dpc'[e] = "gone" <=> dpc[e] = "gone"
    BY <2>2 DEF Create, timerVars, IInv, TypeOK
  <2>3. QED
    BY <2>1, <2>2
    DEF MainNext, StopTimer, JoinTimer, FreeNode, Attach, timerVars, devVars
<1>2. QED
  BY <1>1, BarrierStateOf, Stutter DEF ViewOf

LEMMA TimerRefines ==
  ASSUME IInv, TimerNext \/ TimerSpurious
  PROVE  [Barrier!Next]_(Barrier!vars)
<1> USE DEF IInv
<1>1. CASE TimerTick
  <2>1. \A d \in Devices : /\ done[d] \/ dpc[d] = "gone"
                           /\ d \in ToSet(dev_list)
    BY <1>1, TickFinds DEF FlagInv
  <2>2. \A d \in Devices :
          /\ BarrierState[d] \in {"arrived", "gone"}
          /\ BarrierState'[d] = IF BarrierState[d] = "arrived"
                                  THEN "blocked" ELSE BarrierState[d]
    BY <1>1, <2>1, BarrierStateOf DEF ViewOf, TimerTick, devVars
  <2>3. BarrierState' = [d \in Devices |-> IF BarrierState[d] = "arrived"
                                             THEN "blocked" ELSE BarrierState[d]]
    BY <2>2 DEF BarrierState
  <2>4. time' = IF time = -1 THEN time ELSE time + 1
    BY <1>1 DEF TimerTick, TypeOK
  <2>5. Barrier!Tick
    BY <2>2, <2>3, <2>4 DEF Barrier!Tick
  <2>6. QED
    BY <2>5 DEF Barrier!Next
<1>2. CASE TimerRelease
  <2> DEFINE d == Head(temp)
  <2>1. /\ d \in Devices
        /\ ToSet(temp) = {d} \cup ToSet(Tail(temp))
        /\ d \notin ToSet(Tail(temp))
    BY <1>2, HeadTailDistinct DEF TimerRelease, TypeOK, ListInv
  <2>2. done[d] \/ dpc[d] = "gone"
    BY <1>2, <2>1 DEF TimerRelease, PassInv, FlagInv
  <2>3. \A e \in Devices \ {d} : BarrierState'[e] = BarrierState[e]
    BY <1>2, <2>1, BarrierStateOf DEF ViewOf, TimerRelease, TypeOK
  <2>4. CASE dpc[d] = "gone"
    <3>1. BarrierState'[d] = BarrierState[d]
      BY <1>2, <2>1, <2>4, BarrierStateOf DEF ViewOf, TimerRelease, TypeOK
    <3>2. QED
      BY <1>2, <2>3, <3>1, Stutter DEF TimerRelease
  <2>5. CASE dpc[d] # "gone"
    <3>1. BarrierState[d] = "blocked" /\ BarrierState'[d] = "work"
      BY <1>2, <2>1, <2>2, <2>5, BarrierStateOf DEF ViewOf, TimerRelease, TypeOK
    <3>2. BarrierState' = [BarrierState EXCEPT ![d] = "work"]
      BY <2>1, <2>3, <3>1, OneMoves
    <3>3. Barrier!Enter(d)
      BY <1>2, <3>1, <3>2 DEF TimerRelease, Barrier!Enter
    <3>4. QED
      BY <2>1, <3>3 DEF Barrier!Next
  <2>6. QED
    BY <2>4, <2>5
<1>3. CASE TimerEndRound
  <2>1. ToSet(temp) = {}
    BY <1>3, ToSetEmpty DEF TimerEndRound
  <2>2. QED
    BY <1>3, <2>1, BarrierStateOf, Stutter DEF ViewOf, TimerEndRound, devVars
<1>4. CASE TimerTop
  BY <1>4, BarrierStateOf, Stutter DEF ViewOf, TimerTop, devVars
<1>5. CASE TimerSleep \/ TimerCount \/ TimerSpurious
  BY <1>5, BarrierStateOf, Stutter
  DEF ViewOf, TimerSleep, TimerCount, TimerSpurious, devVars
<1>6. QED
  BY <1>1, <1>2, <1>3, <1>4, <1>5 DEF TimerNext

LEMMA DeviceRefines ==
  ASSUME IInv, NEW d \in Devices, DeviceNext(d) \/ DeviceSpurious(d)
  PROVE  [Barrier!Next]_(Barrier!vars)
<1> USE DEF IInv
<1>1. CASE NextSlot(d)
  <2>1. tpc' = "release" <=> tpc = "release"
    BY <1>1 DEF NextSlot, SignalTimer
  <2>2. \A e \in Devices \ {d} : BarrierState'[e] = BarrierState[e]
    BY <1>1, <2>1, BarrierStateOf DEF ViewOf, NextSlot, TypeOK
  <2>3. ~done[d] /\ ~fsh[d]
    BY <1>1 DEF NextSlot, FlagInv
  <2>4. BarrierState[d] = "work" /\ BarrierState'[d] = "arrived"
    BY <1>1, <2>1, <2>3, BarrierStateOf DEF ViewOf, NextSlot, PassInv, TypeOK
  <2>5. Barrier!Arrive(d)
    BY <1>1, <2>2, <2>4, OneMoves DEF NextSlot, Barrier!Arrive
  <2>6. QED
    BY <2>5 DEF Barrier!Next
<1>2. CASE Detach(d)
  <2>1. tpc' = "release" <=> tpc = "release"
    BY <1>2 DEF Detach, SignalTimer
  <2>2. \A e \in Devices \ {d} : BarrierState'[e] = BarrierState[e]
    BY <1>2, <2>1, BarrierStateOf DEF ViewOf, Detach, TypeOK
  <2>3. BarrierState[d] = "work" /\ BarrierState'[d] = "gone"
    BY <1>2, BarrierStateOf DEF ViewOf, Detach, FlagInv, TypeOK
  <2>4. Barrier!Leave(d)
    BY <1>2, <2>2, <2>3, OneMoves DEF Detach, Barrier!Leave
  <2>5. QED
    BY <2>4 DEF Barrier!Next
<1>3. CASE TestDone(d)
  BY <1>3, BarrierStateOf, Stutter DEF ViewOf, TestDone, timerVars, TypeOK
<1>4. CASE DeviceSpurious(d)
  BY <1>4, BarrierStateOf, Stutter DEF ViewOf, DeviceSpurious, timerVars, TypeOK
<1>5. QED
  BY <1>1, <1>2, <1>3, <1>4 DEF DeviceNext

LEMMA NextRefines == IInv /\ [Next]_vars => [Barrier!Next]_(Barrier!vars)
<1> SUFFICES ASSUME IInv, [Next]_vars PROVE [Barrier!Next]_(Barrier!vars)
  OBVIOUS
<1>1. CASE UNCHANGED vars
  BY <1>1 DEF vars, mainVars, timerVars, devVars, Barrier!vars, BarrierState
<1>2. QED
  BY <1>1, MainRefines, TimerRefines, DeviceRefines DEF Next, Finished

(***************************************************************************)
(* src/timer.c implements the slot barrier: its two passes over the list,  *)
(* its locks and its signals amount to Arrive, Leave, Tick and Enter.      *)
(***************************************************************************)
THEOREM TimerRefinesBarrier == Spec => ImplementsBarrier
<1>1. QED
  BY InitRefines, NextRefines, Invariance, PTL
  DEF Spec, ImplementsBarrier, Barrier!Spec
=============================================================================
