------------------------------ MODULE Regions ------------------------------
(***************************************************************************)
(* src/libmem.c and src/mm-vm.c: the regions of the one memory area (VMA   *)
(* 0) of the one mm that all processes share.  A region has the register   *)
(* number of the instruction that allocated it for its name; freed regions *)
(* go to a list and are used again, first fit, or the area grows by system *)
(* call 17.                                                                *)
(*                                                                         *)
(* mmvm_lock is held through __alloc and __free, but a program can make    *)
(* the system call itself, without the lock.  The system call is therefore *)
(* taken apart into the accesses to vm_end.  Reading and writing memory    *)
(* leaves the regions alone (module Memory).                               *)
(***************************************************************************)
EXTENDS Integers, Sequences, SequencesExt

CONSTANTS
  Procs,          \* the processes that run at the same time
  NULL,
  RgIds,          \* the region names: 0..29, PAGING_MAX_SYMTBL_SZ of them
  Sizes,          \* bound: the sizes the programs allocate
  UserIncs,       \* the increments programs pass to system call 17 directly
  LookupMisses,   \* whether the look-up of the caller can fail (Memmap)
  PageSz,         \* PAGING64_PAGESZ, 4096 in the code
  MaxSbrk,        \* bound: allocations move the break no further
  MaxEnd          \* bound: programs move the limit no further

ASSUME RegionsAssumption == /\ NULL \notin Procs \cup RgIds
                            /\ Sizes \subseteq Nat
                            /\ UserIncs \subseteq Nat \ {0}
                            /\ LookupMisses \in BOOLEAN
                            /\ PageSz \in Nat \ {0}
                            /\ MaxSbrk \in Nat /\ MaxEnd \in Nat

VARIABLES
  symrgtbl,         \* mm->symrgtbl
  vm_freerg_list,   \* the list of freed regions, from its head
  sbrk, vm_end,     \* the break and the limit of the area
  mmvm_lock,        \* the process that holds mmvm_lock
  pc,               \* where each process is in a call
  call,             \* the arguments and locals of its call
  lost              \* the bytes whose name was used anew unfreed (history)

area   == <<symrgtbl, vm_freerg_list, sbrk, lost>>
vars   == <<area, vm_end, mmvm_lock, pc, call>>

Region(a, b) == [rg_start |-> a, rg_end |-> b]
NoRegion     == Region(0, 0)
Bytes(rg)    == rg.rg_start..(rg.rg_end - 1)

NoCall == [rgid |-> NULL, size |-> 0, inc_sz |-> 0,
           old_sbrk |-> 0, old_vm_end |-> 0, new_vm_end |-> 0]

(* init_mm; its list holds one empty region. *)
Init == /\ symrgtbl = [r \in RgIds |-> NoRegion]
        /\ vm_freerg_list = <<NoRegion>>
        /\ sbrk = 0
        /\ vm_end = 0
        /\ mmvm_lock = NULL
        /\ pc = [p \in Procs |-> "run"]
        /\ call = [p \in Procs |-> NoCall]
        /\ lost = {}

Goto(p, label) == pc' = [pc EXCEPT ![p] = label]

-----------------------------------------------------------------------------
(* get_free_vmrg_area *)

Fits(rg, n) == rg.rg_start + n <= rg.rg_end

FirstFit(list, n) == CHOOSE j \in DOMAIN list :
                       /\ Fits(list[j], n)
                       /\ \A k \in 1..(j - 1) : ~Fits(list[k], n)

(* Faulty variant: a region with room to spare leaves the list whole. *)
Carve_DropRest(list, j, n) ==
  IF j < Len(list) THEN RemoveAt(list, j)
  ELSE [list EXCEPT ![j] = Region(list[j].rg_end, list[j].rg_end)]

(* Faulty variant: what is left of the region starts where it did. *)
Carve_KeepStart(list, j, n) ==
  IF list[j].rg_start + n < list[j].rg_end THEN list
  ELSE IF j < Len(list) THEN RemoveAt(list, j)
  ELSE [list EXCEPT ![j] = Region(list[j].rg_end, list[j].rg_end)]

(* The first n bytes of entry j are taken: what is left of it stays, an    *)
(* exact fit goes, but the last entry of the list stays as an empty one.   *)
Carve(list, j, n) ==
  IF list[j].rg_start + n < list[j].rg_end
    THEN [list EXCEPT ![j] = Region(@.rg_start + n, @.rg_end)]
  ELSE IF j < Len(list) THEN RemoveAt(list, j)
  ELSE [list EXCEPT ![j] = Region(@.rg_end, @.rg_end)]

HasFit(n) == \E j \in DOMAIN vm_freerg_list : Fits(vm_freerg_list[j], n)

(* symrgtbl[r] becomes rg; the region it named before is forgotten. *)
SetSymbol(r, rg) ==
  /\ lost' = lost \cup Bytes(symrgtbl[r])
  /\ symrgtbl' = [symrgtbl EXCEPT ![r] = rg]

-----------------------------------------------------------------------------
(* __alloc finds room in the list of freed regions. *)
AllocReuse(p, r, n) ==
  /\ pc[p] = "run" /\ mmvm_lock = NULL
  /\ HasFit(n)
  /\ LET j == FirstFit(vm_freerg_list, n)
         a == vm_freerg_list[j].rg_start
     IN  /\ SetSymbol(r, Region(a, a + n))
         /\ vm_freerg_list' = Carve(vm_freerg_list, j, n)
  /\ UNCHANGED <<sbrk, vm_end, mmvm_lock, pc, call>>

AllocCall(r, n, pages) == [NoCall EXCEPT !.rgid = r, !.size = n,
                                         !.inc_sz = pages, !.old_sbrk = sbrk]

(* Faulty variant: mmvm_lock is not held over the system call. *)
AllocGrow_NoLock(p, r, n) ==
  /\ pc[p] = "run"
  /\ ~HasFit(n) /\ sbrk + n <= MaxSbrk
  /\ call' = [call EXCEPT ![p] = AllocCall(r, n, (n \div PageSz) + 1)]
  /\ Goto(p, "inc")
  /\ UNCHANGED <<area, vm_end, mmvm_lock>>

(* __alloc finds none and makes the system call with a number of pages. *)
AllocGrow(p, r, n) ==
  /\ pc[p] = "run" /\ mmvm_lock = NULL
  /\ ~HasFit(n) /\ sbrk + n <= MaxSbrk
  /\ mmvm_lock' = p
  /\ call' = [call EXCEPT ![p] = AllocCall(r, n, (n \div PageSz) + 1)]
  /\ Goto(p, "inc")
  /\ UNCHANGED <<area, vm_end>>

NewRegion(p) == Region(call[p].old_sbrk, call[p].old_sbrk + call[p].size)

(* Whatever the system call returned, the region is at the old break. *)
AllocEnd(p) ==
  /\ pc[p] = "back" /\ call[p].rgid # NULL
  /\ SetSymbol(call[p].rgid, NewRegion(p))
  /\ sbrk' = NewRegion(p).rg_end
  /\ mmvm_lock' = NULL
  /\ call' = [call EXCEPT ![p] = NoCall]
  /\ Goto(p, "run")
  /\ UNCHANGED <<vm_freerg_list, vm_end>>

(* __free; a name without a region changes nothing. *)
Free(p, r) ==
  /\ pc[p] = "run" /\ mmvm_lock = NULL
  /\ symrgtbl[r].rg_start < symrgtbl[r].rg_end
  /\ vm_freerg_list' = <<symrgtbl[r]>> \o vm_freerg_list
  /\ symrgtbl' = [symrgtbl EXCEPT ![r] = NoRegion]
  /\ UNCHANGED <<lost, sbrk, vm_end, mmvm_lock, pc, call>>

-----------------------------------------------------------------------------
(* System call 17 with SYSMEM_INC_OP: inc_vma_limit. *)

AlignSz(n) == ((n + PageSz - 1) \div PageSz) * PageSz

(* A program makes the call itself. *)
UserInc(p, n) ==
  /\ pc[p] = "run"
  /\ vm_end + AlignSz(n) <= MaxEnd
  /\ call' = [call EXCEPT ![p] = [NoCall EXCEPT !.inc_sz = n]]
  /\ Goto(p, "inc")
  /\ UNCHANGED <<area, vm_end, mmvm_lock>>

UserIncEnd(p) ==
  /\ pc[p] = "back" /\ call[p].rgid = NULL
  /\ call' = [call EXCEPT ![p] = NoCall]
  /\ Goto(p, "run")
  /\ UNCHANGED <<area, vm_end, mmvm_lock>>

(* __sys_memmap does not find its caller. *)
NotFound(p) ==
  /\ pc[p] = "inc" /\ LookupMisses
  /\ Goto(p, "back")
  /\ UNCHANGED <<area, vm_end, mmvm_lock, call>>

(* old_vm_end = area->vm_end *)
IncRead(p) ==
  /\ pc[p] = "inc"
  /\ call' = [call EXCEPT ![p].old_vm_end = vm_end]
  /\ Goto(p, "add")
  /\ UNCHANGED <<area, vm_end, mmvm_lock>>

(* new_vm_end = area->vm_end + aligned_sz; there is no area to overlap. *)
IncAdd(p) ==
  /\ pc[p] = "add"
  /\ call' = [call EXCEPT ![p].new_vm_end = vm_end + AlignSz(call[p].inc_sz)]
  /\ Goto(p, "limit")
  /\ UNCHANGED <<area, vm_end, mmvm_lock>>

(* area->vm_end = new_vm_end *)
IncWrite(p) ==
  /\ pc[p] = "limit"
  /\ vm_end' = call[p].new_vm_end
  /\ Goto(p, "map")
  /\ UNCHANGED <<area, mmvm_lock, call>>

(* vm_map_ram, which never reports a failure, so the limit stays. *)
IncMap(p) ==
  /\ pc[p] = "map"
  /\ Goto(p, "back")
  /\ UNCHANGED <<area, vm_end, mmvm_lock, call>>

-----------------------------------------------------------------------------
SysNext(p) == \/ NotFound(p) \/ IncRead(p) \/ IncAdd(p)
              \/ IncWrite(p) \/ IncMap(p)

Next == \E p \in Procs :
          \/ \E r \in RgIds, n \in Sizes : AllocReuse(p, r, n) \/ AllocGrow(p, r, n)
          \/ \E r \in RgIds : Free(p, r)
          \/ \E n \in UserIncs : UserInc(p, n)
          \/ AllocEnd(p)
          \/ UserIncEnd(p)
          \/ SysNext(p)

Spec == Init /\ [][Next]_vars

-----------------------------------------------------------------------------
(* Properties *)

(* Every variable holds a value of its kind. *)
TypeOK ==
  /\ symrgtbl \in [RgIds -> [rg_start : Nat, rg_end : Nat]]
  /\ vm_freerg_list \in Seq([rg_start : Nat, rg_end : Nat])
  /\ sbrk \in Nat
  /\ vm_end \in Nat
  /\ mmvm_lock \in Procs \cup {NULL}
  /\ pc \in [Procs -> {"run", "inc", "add", "limit", "map", "back"}]
  /\ call \in [Procs -> [rgid : RgIds \cup {NULL}, size : Nat, inc_sz : Nat,
                          old_sbrk : Nat, old_vm_end : Nat, new_vm_end : Nat]]
  /\ lost \subseteq Nat

Apart(a, b) == a.rg_end <= b.rg_start \/ b.rg_end <= a.rg_start

(***************************************************************************)
(* No byte belongs to two names, to a name and the list of freed regions,  *)
(* or to two entries of that list, and none of them reaches beyond the     *)
(* break, from where the next region is cut: whatever __alloc and __free   *)
(* did before, whoever grows the area, and whether the system call works.  *)
(***************************************************************************)
NamesApart == \A r, q \in RgIds : r # q => Apart(symrgtbl[r], symrgtbl[q])
ListApart  == \A j, k \in DOMAIN vm_freerg_list :
                j # k => Apart(vm_freerg_list[j], vm_freerg_list[k])
FreeApart  == \A r \in RgIds, j \in DOMAIN vm_freerg_list :
                Apart(symrgtbl[r], vm_freerg_list[j])
BelowBreak == /\ \A r \in RgIds : symrgtbl[r].rg_end <= sbrk
              /\ \A j \in DOMAIN vm_freerg_list : vm_freerg_list[j].rg_end <= sbrk

NoOverlap == NamesApart /\ ListApart /\ FreeApart /\ BelowBreak

(***************************************************************************)
(* No byte below the break disappears: it belongs to a name or to the list *)
(* of freed regions, unless its name was used anew before it was freed.    *)
(***************************************************************************)
Accounted ==
  \A b \in 0..(sbrk - 1) :
    \/ \E r \in RgIds : b \in Bytes(symrgtbl[r])
    \/ \E j \in DOMAIN vm_freerg_list : b \in Bytes(vm_freerg_list[j])
    \/ b \in lost

(***************************************************************************)
(* The break stays within the limit of the area, although __alloc counts   *)
(* pages and inc_vma_limit bytes.                                          *)
(***************************************************************************)
WithinLimit == sbrk <= vm_end

(* The regions implement the promise of an allocator (module Heap). *)
Promise == INSTANCE Heap WITH live <- symrgtbl
ImplementsHeap == Promise!Spec
-----------------------------------------------------------------------------
(* What the repository says of the program and the program does not do. *)

(***************************************************************************)
(* libmem.c:131, "Successful increase limit": when __alloc is back from    *)
(* the system call, the new region is within the limit of the area.        *)
(***************************************************************************)
IncreasedLimit ==
  \A p \in Procs : pc[p] = "back" /\ call[p].rgid # NULL
                    => NewRegion(p).rg_end <= vm_end
=============================================================================
