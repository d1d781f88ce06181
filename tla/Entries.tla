------------------------------ MODULE Entries ------------------------------
(***************************************************************************)
(* A page table entry as its users see it (include/mm.h): the flags        *)
(* PRESENT and SWAPPED, and the number in the bits 0..25, where the frame  *)
(* number has the bits 0..12 and the swap offset the bits 5..25, so that   *)
(* each of the two reads part of the other.  Module PageTable has the bits *)
(* of the words; this is what it is shown to implement.                    *)
(***************************************************************************)
EXTENDS Integers

FpnField  == 8192
SwpOffLow == 32

Entry == [present : BOOLEAN, swapped : BOOLEAN, low : Nat]

NoPte == [present |-> FALSE, swapped |-> FALSE, low |-> 0]

PAGING_FPN(e) == e.low % FpnField
PAGING_SWP(e) == e.low \div SwpOffLow

(* pte_set_fpn; of a frame number beyond the field the low bits stay. *)
SetFpn(e, f) == [present |-> TRUE, swapped |-> FALSE,
                 low |-> e.low - PAGING_FPN(e) + (f % FpnField)]

(* pte_set_swap, with swap type 0; the page stays present. *)
SetSwap(s) == [present |-> TRUE, swapped |-> TRUE, low |-> s * SwpOffLow]

(* vmap_pgd_memset writes 0xdeadbeef: both flags and these 26 bits. *)
PatternPte == [present |-> TRUE, swapped |-> TRUE, low |-> 44941039]
=============================================================================
