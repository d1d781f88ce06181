------------------------------- MODULE Words -------------------------------
(***************************************************************************)
(* include/mm.h and include/bitops.h: the words of the page table and the  *)
(* macros that read and change their fields.  A word is the set of the     *)
(* positions of its bits; a mask is an unsigned int of 32 bits, so that    *)
(* its complement clears the upper half of a word of 64.                   *)
(***************************************************************************)
EXTENDS Integers

Bits64 == 0..63
Bits32 == 0..31
Word   == SUBSET Bits64

(* GENMASK(h, l) *)
GENMASK(h, l) == l..h

Mask == SUBSET Bits32

(* ~mask, as an unsigned int *)
Complement(mask) == Bits32 \ mask

SETBIT(v, mask) == v \cup mask
CLRBIT(v, mask) == v \cap Complement(mask)

(* value << offst and (v & mask) >> offst *)
ShiftLeft(value, offst) == {b \in Bits64 : b - offst \in value}
GETVAL(v, mask, offst) == {b \in Bits64 : b + offst \in v \cap mask}

SETVAL(v, value, mask, offst) ==
  (v \cap Complement(mask)) \cup (ShiftLeft(value, offst) \cap mask)

PresentMask == {31}
SwappedMask == {30}
FpnMask     == GENMASK(12, 0)
SwpTypMask  == GENMASK(4, 0)
SwpOffMask  == GENMASK(25, 5)
FpnLobit    == 0
SwpTypLobit == 0
SwpOffLobit == 5

-----------------------------------------------------------------------------
(* What pte_set_fpn and pte_set_swap do to the entry v they have found. *)

(* Faulty variant: SWAPPED stays set. *)
FpnWord_KeepSwapped(v, fpn) ==
  SETVAL(SETBIT(v, PresentMask), fpn, FpnMask, FpnLobit)

FpnWord(v, fpn) ==
  SETVAL(CLRBIT(SETBIT(v, PresentMask), SwappedMask), fpn, FpnMask, FpnLobit)

SwapWord(v, swptyp, swpoff) ==
  SETVAL(SETVAL(SETBIT(SETBIT(v, PresentMask), SwappedMask),
                swptyp, SwpTypMask, SwpTypLobit),
         swpoff, SwpOffMask, SwpOffLobit)

(* vmap_pgd_memset: 0xdeadbeef *)
PatternWord == {0, 1, 2, 3, 5, 6, 7, 9, 10, 11, 12, 13, 15, 16, 18, 19, 21,
                23, 25, 26, 27, 28, 30, 31}
=============================================================================
