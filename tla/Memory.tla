------------------------------- MODULE Memory -------------------------------
(***************************************************************************)
(* The memory of the system, from the instructions alloc, free, read,      *)
(* write and syscall 17 of a program down to the frames: the regions       *)
(* (module Regions) over the pages (module Pages).  mmvm_lock is held      *)
(* through the first four, so each is atomic but for the growth of the     *)
(* area, where Regions shows the accesses that the lock does not cover.    *)
(***************************************************************************)
EXTENDS Regions, Pages, FiniteSets

CONSTANTS
  UserMaps,   \* bound: the pages programs pass to SYSMEM_MAP_OP
  UserAddrs   \* bound: the addresses in RAM they pass to SYSMEM_IO_WRITE

(* Bound: the area grows over the pages there are, and not beyond. *)
Room == (MaxPgn + 1) * PageSz

(* Without the lock, two processes that map pages at once race for the     *)
(* free frames, which is the subject of module Mapping.  Here, programs    *)
(* do not make system call 17 themselves, or one process runs.             *)
ASSUME MemoryAssumption ==
  /\ BusPgns <= MaxPgn + 1
  /\ MaxEnd <= Room
  /\ UserMaps \subseteq Pgns
  /\ UserAddrs \subseteq 0..(RamFrames * FrameSz - 1)
  /\ (UserIncs = {} /\ UserMaps = {} /\ UserAddrs = {})
     \/ \A p, q \in Procs : p = q

VARIABLES
  last,   \* last[r][n]: what was last written at offset n of region r, if
          \* anything was since the region was allocated (history)
  regular \* no allocation was larger than a frame, no system call of an
          \* allocation has failed, and no program has written to the page
          \* table or to RAM by system call 17 (history)

memVars == <<vars, pageVars, last, regular>>

NoData == [n \in 0..(MaxSbrk - 1) |-> NULL]

MemInit == /\ Init
           /\ PagesInit
           /\ last = [r \in RgIds |-> NoData]
           /\ regular = TRUE

Forget(r) == last' = [last EXCEPT ![r] = NoData]

-----------------------------------------------------------------------------
(* liballoc and libfree: the pages come with system call 17 only. *)

MemAllocReuse(p, r, n) == /\ AllocReuse(p, r, n)
                          /\ Forget(r)
                          /\ UNCHANGED <<pageVars, regular>>

MemAllocGrow(p, r, n) == /\ AllocGrow(p, r, n)
                         /\ vm_end + AlignSz((n \div PageSz) + 1) <= Room
                         /\ regular' = (regular /\ n <= FrameSz)
                         /\ UNCHANGED <<pageVars, last>>

MemAllocEnd(p) == /\ AllocEnd(p)
                  /\ Forget(call[p].rgid)
                  /\ UNCHANGED <<pageVars, regular>>

MemFree(p, r) == /\ Free(p, r)
                 /\ Forget(r)
                 /\ UNCHANGED <<pageVars, regular>>

MemUserInc(p, n) == UserInc(p, n) /\ UNCHANGED <<pageVars, last, regular>>

(* The pages of the growth, from the old limit on. *)
GrowthPages(p) == AlignSz(call[p].inc_sz) \div PageSz

(* Faulty variant: the address is not shifted to a page number. *)
MemIncMap_NoShift(p) ==
  /\ IncMap(p)
  /\ MapRam(call[p].old_vm_end, GrowthPages(p))
  /\ UNCHANGED <<last, regular>>

(* Faulty variant: the page number is that of the accesses. *)
MemIncMap_AccessPgn(p) ==
  /\ IncMap(p)
  /\ MapRam(call[p].old_vm_end \div FrameSz, GrowthPages(p))
  /\ UNCHANGED <<last, regular>>

MemIncMap(p) == /\ IncMap(p)
                /\ MapRam(call[p].old_vm_end \div PageSz, GrowthPages(p))
                /\ UNCHANGED <<last, regular>>

MemNotFound(p) == /\ NotFound(p)
                  /\ regular' = (regular /\ call[p].rgid = NULL)
                  /\ UNCHANGED <<pageVars, last>>

MemSysOther(p) == /\ IncRead(p) \/ IncAdd(p) \/ IncWrite(p) \/ UserIncEnd(p)
                  /\ UNCHANGED <<pageVars, last, regular>>

-----------------------------------------------------------------------------
(* The other operations of system call 17, which only programs make.       *)
(* SYSMEM_SWP_OP copies a frame to the swap device and SYSMEM_IO_READ a    *)
(* byte to the registers of the call: nothing here changes, as when the    *)
(* look-up fails.                                                          *)

(* SYSMEM_MAP_OP, vmap_pgd_memset: the pattern instead of an entry, which  *)
(* reads as a page in RAM at a frame that is not there.  A call for more   *)
(* pages does this for one page after the other.                           *)
UserMap(p, g) ==
  /\ pc[p] = "run"
  /\ pte' = [pte EXCEPT ![g] = PatternPte]
  /\ regular' = FALSE
  /\ UNCHANGED <<vars, fifo_pgn, ram_free, swap_free, ram, last>>

(* SYSMEM_IO_WRITE: a byte of RAM, by its address there. *)
UserIoWrite(p, addr, v) ==
  /\ pc[p] = "run"
  /\ ram' = [ram EXCEPT ![addr \div FrameSz][addr % FrameSz] = v]
  /\ regular' = FALSE
  /\ UNCHANGED <<vars, pte, fifo_pgn, ram_free, swap_free, last>>

-----------------------------------------------------------------------------
(* __read and __write: the checks they share. *)
Accesses(p, r, n) ==
  /\ pc[p] = "run" /\ mmvm_lock = NULL
  /\ n \in 0..(symrgtbl[r].rg_end - symrgtbl[r].rg_start - 1)

Addr(r, n) == symrgtbl[r].rg_start + n

Read(p, r, n) ==
  /\ Accesses(p, r, n)
  /\ GetPage(PageOf(Addr(r, n)))
  /\ UNCHANGED <<vars, ram, last, regular>>

Write(p, r, n, v) ==
  /\ Accesses(p, r, n)
  /\ LET g == PageOf(Addr(r, n))
     IN  /\ GetPage(g)
         /\ ram' = Stored(pte'[g], OffsetOf(Addr(r, n)), v)
  /\ last' = [last EXCEPT ![r][n] = v]
  /\ UNCHANGED <<vars, regular>>

(* A read or a write that fails in pg_getpage. *)
AccessFails(p, r, n) ==
  /\ Accesses(p, r, n)
  /\ FaultFails(PageOf(Addr(r, n)))
  /\ UNCHANGED <<vars, last, regular>>

-----------------------------------------------------------------------------
MemNext ==
  \E p \in Procs :
    \/ \E r \in RgIds, n \in Sizes : MemAllocReuse(p, r, n) \/ MemAllocGrow(p, r, n)
    \/ MemAllocEnd(p)
    \/ \E r \in RgIds : MemFree(p, r)
    \/ \E n \in UserIncs : MemUserInc(p, n)
    \/ MemIncMap(p)
    \/ MemNotFound(p)
    \/ MemSysOther(p)
    \/ \E g \in UserMaps : UserMap(p, g)
    \/ \E addr \in UserAddrs, v \in Values : UserIoWrite(p, addr, v)
    \/ \E r \in RgIds, n \in 0..(MaxSbrk - 1) :
         \/ Read(p, r, n)
         \/ \E v \in Values : Write(p, r, n, v)
         \/ AccessFails(p, r, n)

MemSpec == MemInit /\ [][MemNext]_memVars

-----------------------------------------------------------------------------
(* Properties *)

(* Every variable holds a value of its kind. *)
MemTypeOK == /\ TypeOK
             /\ PagesTypeOK
             /\ last \in [RgIds -> [0..(MaxSbrk - 1) -> Values \cup {NULL}]]
             /\ regular \in BOOLEAN

(* RAM has a frame for every page of the area. *)
RamSuffices == vm_end <= RamFrames * PageSz

(***************************************************************************)
(* A byte that was written is read back, whatever was allocated, freed and *)
(* written in between: two bytes of memory never share a cell of RAM.  It  *)
(* takes the conditions under which the pages that are mapped cover the    *)
(* regions (regular), and a frame for every page; then no address is       *)
(* beyond the bus either.                                                  *)
(***************************************************************************)
DataKept ==
  regular /\ RamSuffices =>
    \A r \in RgIds, n \in 0..(MaxSbrk - 1) :
      last[r][n] # NULL => /\ pte[PageOf(Addr(r, n))].present
                            /\ InRam(pte[PageOf(Addr(r, n))])
                            /\ ByteAt(Addr(r, n)) = last[r][n]

(***************************************************************************)
(* Under the same conditions, every address of a region is on a page in    *)
(* RAM, although the area is mapped in pages of another size than it is    *)
(* accessed in: an access never faults.                                    *)
(***************************************************************************)
Backed ==
  regular /\ RamSuffices =>
    \A r \in RgIds : \A b \in Bytes(symrgtbl[r]) : PageOf(b) \in Online

(***************************************************************************)
(* A frame of RAM is free, once, or it belongs to one page in RAM: none is *)
(* given to two pages and none is lost, also after RAM has run out of      *)
(* frames, growths have given back what they got and pages have been       *)
(* swapped out.                                                            *)
(***************************************************************************)
FramesAccounted ==
  regular => /\ IsInjective(ram_free)
             /\ \A f \in DOMAIN ram :
                  IF f \in ToSet(ram_free)
                    THEN \A g \in Online : PAGING_FPN(pte[g]) # f
                    ELSE Cardinality({g \in Online : PAGING_FPN(pte[g]) = f}) = 1

(***************************************************************************)
(* The pages that were swapped out own their swap frames, one each, and    *)
(* none of these is free: what is swapped out is not overwritten there by  *)
(* another page.  The pattern is no page that was swapped out.             *)
(***************************************************************************)
SwapOwned ==
  LET out == {g \in Swapped : pte[g] # PatternPte}
  IN  /\ \A g, h \in out : PAGING_SWP(pte[g]) = PAGING_SWP(pte[h]) => g = h
      /\ \A g \in out : PAGING_SWP(pte[g]) \notin ToSet(swap_free)

-----------------------------------------------------------------------------
(* What the repository says of the program and the program does not do. *)

(***************************************************************************)
(* libmem.c:376 (in Vietnamese): "make sure that the page has been loaded *)
(* into RAM (with a fault if necessary)": a byte is written only to a page *)
(* that is in RAM by then.                                                 *)
(***************************************************************************)
SwappedIn ==
  [][\A p \in Procs, r \in RgIds, n \in 0..(MaxSbrk - 1), v \in Values :
       Write(p, r, n, v) => PageOf(Addr(r, n)) \in Online']_memVars

(***************************************************************************)
(* mm64.c:392-394, "map range of frame to address space [addr to addr +    *)
(* pgnum*PAGING_PAGESZ in page table caller->krnl->mm->pgd": while RAM has *)
(* had frames for all, the first byte of each page of the area is mapped.  *)
(***************************************************************************)
RangeMapped ==
  ram_free # <<>> =>
    \A p \in Procs, k \in 0..((vm_end \div PageSz) - 1) :
      pc[p] = "back" => pte[PageOf(k * PageSz)].present
=============================================================================
