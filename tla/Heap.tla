-------------------------------- MODULE Heap --------------------------------
(***************************************************************************)
(* What an allocator of named regions promises: a region that is handed    *)
(* out has the size that was asked for and no byte of another one, and     *)
(* nothing moves or shrinks it until its name is freed or used anew.       *)
(***************************************************************************)
EXTENDS Integers

CONSTANTS RgIds, Sizes

VARIABLE live   \* live[r]: the region of the name r, empty if it has none

NoRegion == [rg_start |-> 0, rg_end |-> 0]

Bytes(rg) == rg.rg_start..(rg.rg_end - 1)

Init == live = [r \in RgIds |-> NoRegion]

(* The region from a on, of n bytes, is disjoint from the others. *)
Alloc(r, a, n) ==
  /\ \A q \in RgIds \ {r} : Bytes(live[q]) \cap (a..(a + n - 1)) = {}
  /\ live' = [live EXCEPT ![r] = [rg_start |-> a, rg_end |-> a + n]]

Free(r) == live' = [live EXCEPT ![r] = NoRegion]

Next == \E r \in RgIds : \/ \E n \in Sizes : Alloc(r, live'[r].rg_start, n)
                         \/ Free(r)

Spec == Init /\ [][Next]_live
=============================================================================
