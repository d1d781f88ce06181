------------------------------- MODULE Pages -------------------------------
(***************************************************************************)
(* src/mm64.c, src/mm-memphy.c and the paging half of src/libmem.c: the    *)
(* page table, the frames of RAM and of the active swap device, and the    *)
(* FIFO of the pages in RAM.  The page table is one entry per page, which  *)
(* the tree of module PageTable implements.                                *)
(*                                                                         *)
(* Page numbers come from two page sizes: memory is mapped in pages of     *)
(* PAGING64_PAGESZ bytes (the caller's part) and is accessed in pages of   *)
(* FrameSz bytes, PAGING_PAGESZ; both use the same page table.             *)
(***************************************************************************)
EXTENDS Entries, Sequences, SequencesExt

CONSTANTS
  FrameSz,      \* PAGING_PAGESZ, 256 in the code
  RamFrames,    \* frames of RAM
  SwapFrames,   \* frames of the active swap device
  BusPgns,      \* the pages that PAGING_PGN tells apart: 1 << (22 - 8), for
                \* a bus of PAGING_CPU_BUS_WIDTH bits
  MaxPgn,       \* bound: the highest page number
  Values        \* bound: the values of a byte

(* MEMPHY_format leaves the list of a device of no frame, or of one, with  *)
(* a pointer it never sets: such devices are left out.  With               *)
(* MM_FIXED_MEMSZ, RAM has 4096 frames of 256 bytes.                       *)
ASSUME PagesAssumption == /\ FrameSz \in Nat \ {0}
                          /\ RamFrames \in 2..FpnField
                          /\ SwapFrames \in Nat \ {0, 1}
                          /\ BusPgns \in Nat /\ BusPgns >= RamFrames
                          /\ MaxPgn \in Nat
                          /\ 0 \in Values

VARIABLES
  pte,                  \* the page table
  fifo_pgn,             \* mm->fifo_pgn, from its head
  ram_free, swap_free,  \* free_fp_list of RAM and of the swap device
  ram                   \* the storage of RAM, by frame and offset; that of
                        \* the swap device is written to and never read

pageVars == <<pte, fifo_pgn, ram_free, swap_free, ram>>

Pgns    == 0..MaxPgn
Offsets == 0..(FrameSz - 1)
Frame   == [Offsets -> Values]

-----------------------------------------------------------------------------
Online == {g \in Pgns : pte[g].present /\ ~pte[g].swapped}
Swapped == {g \in Pgns : pte[g].swapped}

-----------------------------------------------------------------------------
(* init_mm, and MEMPHY_format for both devices. *)
PagesInit == /\ pte = [g \in Pgns |-> NoPte]
             /\ fifo_pgn = <<>>
             /\ ram_free = [n \in 1..RamFrames |-> n - 1]
             /\ swap_free = [n \in 1..SwapFrames |-> n - 1]
             /\ ram = [f \in 0..(RamFrames - 1) |-> [o \in Offsets |-> 0]]

(* vm_map_ram: the n pages from first on get a frame each, in the order in *)
(* which alloc_pages_range has stacked them; with too few free frames it   *)
(* gives them all back, no page is mapped and no failure is reported.      *)
MapRam(first, n) ==
  IF n <= Len(ram_free)
    THEN LET frame(g) == ram_free[n - (g - first)]
         IN  /\ pte' = [g \in Pgns |-> IF g \in first..(first + n - 1)
                                         THEN SetFpn(pte[g], frame(g))
                                         ELSE pte[g]]
             /\ fifo_pgn' = [k \in 1..n |-> first + n - k] \o fifo_pgn
             /\ ram_free' = SubSeq(ram_free, n + 1, Len(ram_free))
             /\ UNCHANGED <<swap_free, ram>>
    ELSE UNCHANGED pageVars

-----------------------------------------------------------------------------
(* pg_getpage; what the access then does to ram is the caller's part. *)

(* The page counts as present, also when it is swapped out. *)
Hit(g) == pte[g].present

(* find_victim_page: the last of the list, which it takes off the list. *)
Victim == Last(fifo_pgn)

(* The page table once the victim's entry has its swap frame. *)
Evicted == [pte EXCEPT ![Victim] = SetSwap(Head(swap_free))]

(* Faulty variant: the swap frame stays in the list of free frames. *)
SwapOut_KeepFree(g) ==
  /\ ~Hit(g) /\ fifo_pgn # <<>> /\ swap_free # <<>>
  /\ pte' = [Evicted EXCEPT ![g] = SetFpn(@, PAGING_FPN(pte[Victim]))]
  /\ fifo_pgn' = <<g>> \o Front(fifo_pgn)
  /\ UNCHANGED <<swap_free, ram_free>>

(* Faulty variant: the victim is not marked as swapped out. *)
SwapOut_KeepVictim(g) ==
  /\ ~Hit(g) /\ fifo_pgn # <<>> /\ swap_free # <<>>
  /\ pte' = [pte EXCEPT ![g] = SetFpn(@, PAGING_FPN(pte[Victim]))]
  /\ fifo_pgn' = <<g>> \o Front(fifo_pgn)
  /\ swap_free' = Tail(swap_free)
  /\ UNCHANGED ram_free

(* A fault: the victim goes to swap, where __swap_cp_page copies it, and   *)
(* its frame to the page.                                                  *)
SwapOut(g) ==
  /\ ~Hit(g) /\ fifo_pgn # <<>> /\ swap_free # <<>>
  /\ pte' = [Evicted EXCEPT ![g] = SetFpn(@, PAGING_FPN(pte[Victim]))]
  /\ fifo_pgn' = <<g>> \o Front(fifo_pgn)
  /\ swap_free' = Tail(swap_free)
  /\ UNCHANGED ram_free

GetPage(g) == \/ Hit(g) /\ UNCHANGED <<pte, fifo_pgn, ram_free, swap_free>>
              \/ SwapOut(g)

(* The fault fails: no page to swap out, or no swap frame for the victim,  *)
(* which is off the list by then.                                          *)
FaultFails(g) ==
  /\ ~Hit(g)
  /\ \/ fifo_pgn = <<>> /\ UNCHANGED fifo_pgn
     \/ fifo_pgn # <<>> /\ swap_free = <<>> /\ fifo_pgn' = Front(fifo_pgn)
  /\ UNCHANGED <<pte, ram_free, swap_free, ram>>

-----------------------------------------------------------------------------
InRam(e) == PAGING_FPN(e) \in DOMAIN ram

(* MEMPHY_write at the frame of entry e; beyond RAM it hits other memory. *)
Stored(e, off, v) ==
  IF InRam(e) THEN [ram EXCEPT ![PAGING_FPN(e)][off] = v] ELSE ram

(* Faulty variant: the highest page of the bus reads as a low one. *)
PageOf_NarrowBus(addr) == (addr \div FrameSz) % (BusPgns - 1)

(* Beyond the bus, addresses read as low ones again. *)
PageOf(addr)   == (addr \div FrameSz) % BusPgns
OffsetOf(addr) == addr % FrameSz

(* The byte at addr, as a read that does not fault gives it. *)
ByteAt(addr) == LET e == pte[PageOf(addr)] IN ram[PAGING_FPN(e)][OffsetOf(addr)]

PagesTypeOK == /\ pte \in [Pgns -> Entry]
               /\ fifo_pgn \in Seq(Pgns)
               /\ ram_free \in Seq(0..(RamFrames - 1))
               /\ swap_free \in Seq(0..(SwapFrames - 1))
               /\ ram \in [0..(RamFrames - 1) -> Frame]
=============================================================================
