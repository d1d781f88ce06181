---------------------------- MODULE SlotBarrier ----------------------------
(***************************************************************************)
(* What the timer (src/timer.c) promises to the threads that attached to   *)
(* it: simulated time moves in slots, every thread works in every slot     *)
(* until it leaves, and the clock moves only when nobody is working.       *)
(*                                                                         *)
(* The threads are not let into the new slot all at once: the timer clears *)
(* their flags one after the other, so a quick thread may already have     *)
(* finished the new slot when a slow one has not yet entered it.           *)
(***************************************************************************)
EXTENDS Integers

CONSTANTS
  Devices,   \* the attached threads: the CPUs and the loader
  Horizon    \* a time after which slots are not told apart (-1: none)

VARIABLES
  time,      \* the clock the threads read with current_time()
  st         \* st[d]: where d is with respect to the slot

vars == <<time, st>>

State == {"work",     \* in the current slot
          "arrived",  \* has called next_slot, the slot is not over
          "blocked",  \* the clock has moved, d is not yet in the new slot
          "gone"}     \* has called detach_event

TypeOK == /\ time \in Nat
          /\ st \in [Devices -> State]

Init == /\ time = 0
        /\ st = [d \in Devices |-> "work"]

(* next_slot, up to the wait. *)
Arrive(d) == /\ st[d] = "work"
             /\ st' = [st EXCEPT ![d] = "arrived"]
             /\ UNCHANGED time

(* detach_event: d takes no part in later slots. *)
Leave(d) == /\ st[d] = "work"
            /\ st' = [st EXCEPT ![d] = "gone"]
            /\ UNCHANGED time

(* The slot is over. *)
Tick == /\ \A d \in Devices : st[d] \in {"arrived", "gone"}
        /\ time' = IF time = Horizon THEN time ELSE time + 1
        /\ st' = [d \in Devices |->
                    IF st[d] = "arrived" THEN "blocked" ELSE st[d]]

(* next_slot returns. *)
Enter(d) == /\ st[d] = "blocked"
            /\ st' = [st EXCEPT ![d] = "work"]
            /\ UNCHANGED time

Next == \/ Tick
        \/ \E d \in Devices : Arrive(d) \/ Leave(d) \/ Enter(d)

Spec == Init /\ [][Next]_vars

(***************************************************************************)
(* The timer's half of the fairness: it ends a slot that somebody waits    *)
(* for, and it lets everybody into the new one.  Whether a thread ever     *)
(* calls next_slot or detach_event is that thread's affair.                *)
(***************************************************************************)
Fairness == /\ WF_vars(Tick /\ \E d \in Devices : st[d] = "arrived")
            /\ \A d \in Devices : WF_vars(Enter(d))

FairSpec == Spec /\ Fairness
=============================================================================
