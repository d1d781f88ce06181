---------------------------- MODULE ProcessLife ----------------------------
(***************************************************************************)
(* What the system promises about one process, whatever CPUs, queues and   *)
(* locks do: it is loaded once, is dispatched and preempted any number of  *)
(* times, executes its instructions only while it is dispatched, each of   *)
(* them once, and is finished exactly when the last one is done.           *)
(***************************************************************************)
EXTENDS Integers

CONSTANT Procs

VARIABLES
  status,   \* status[p]: where p is in its life
  left      \* left[p]: the instructions p still has to execute

vars == <<status, left>>

Status == {"new", "ready", "running", "finished"}

Init == /\ status = [p \in Procs |-> "new"]
        /\ left \in [Procs -> Nat]

Move(p, from, to) == /\ status[p] = from
                     /\ status' = [status EXCEPT ![p] = to]

Load(p)     == Move(p, "new", "ready") /\ UNCHANGED left
Dispatch(p) == Move(p, "ready", "running") /\ UNCHANGED left
Preempt(p)  == Move(p, "running", "ready") /\ left[p] > 0 /\ UNCHANGED left
Exit(p)     == Move(p, "running", "finished") /\ left[p] = 0 /\ UNCHANGED left

Execute(p) == /\ status[p] = "running"
              /\ left[p] > 0
              /\ left' = [left EXCEPT ![p] = @ - 1]
              /\ UNCHANGED status

Next == \E p \in Procs :
          Load(p) \/ Dispatch(p) \/ Preempt(p) \/ Execute(p) \/ Exit(p)

Spec == Init /\ [][Next]_vars
=============================================================================
