---------------------------- MODULE MemoryProofs ----------------------------
(***************************************************************************)
(* Proofs about the memory as a whole, for any names, sizes, page sizes,   *)
(* frames and values: where the frames of RAM and of the swap device are,  *)
(* that the regions are backed by pages in RAM, and that what is written   *)
(* stays.                                                                  *)
(***************************************************************************)
EXTENDS Memory, RegionsProofs

-----------------------------------------------------------------------------
(* Numbers *)

(* A number of bytes as pages, and one that is whole pages. *)
PageCount(x) == x \div PageSz
Whole(x)     == x = PageCount(x) * PageSz

(* Division and remainder by a positive number. *)
LEMMA Division ==
  ASSUME NEW a \in Nat, NEW m \in Nat, m # 0
  PROVE  /\ a \div m \in Nat
         /\ a % m \in 0..(m - 1)
         /\ a = (a \div m) * m + (a % m)
OBVIOUS

(* What the quotient is below, and when two numbers are the same. *)
LEMMA QuotientBelow ==
  ASSUME NEW a \in Nat, NEW k \in Nat, NEW m \in Nat, m # 0
  PROVE  a < k * m <=> a \div m < k
<1> DEFINE q == a \div m
<1>1. q \in Nat /\ a % m \in 0..(m - 1) /\ a = q * m + (a % m)
  BY Division
<1> HIDE DEF q
<1>2. ASSUME q < k PROVE a < k * m
  <2>1. (q + 1) * m <= k * m
    BY <1>1, <1>2
  <2>2. QED
    BY <1>1, <2>1
<1>3. ASSUME ~(q < k) PROVE ~(a < k * m)
  <2>1. k * m <= q * m
    BY <1>1, <1>3
  <2>2. QED
    BY <1>1, <2>1
<1>4. QED
  BY <1>2, <1>3 DEF q

LEMMA SameNumber ==
  ASSUME NEW a \in Nat, NEW b \in Nat, NEW m \in Nat, m # 0,
         a \div m = b \div m, a % m = b % m
  PROVE  a = b
<1> DEFINE q == a \div m
           r == a % m
<1>1. a = q * m + r
  BY Division
<1>2. b = q * m + r
  BY Division
<1> HIDE DEF q, r
<1>3. QED
  BY <1>1, <1>2

LEMMA QuotientOfMultiple ==
  ASSUME NEW k \in Nat, NEW m \in Nat, m # 0
  PROVE  (k * m) \div m = k
<1>1. k * m \in Nat /\ k * m < (k + 1) * m /\ k + 1 \in Nat
  OBVIOUS
<1>2. (k * m) \div m < k + 1
  BY <1>1, QuotientBelow
<1>3. (k * m) \div m \in Nat
  BY <1>1, Division
<1>4. ASSUME (k * m) \div m < k PROVE FALSE
  <2>1. k * m < k * m
    BY <1>1, <1>4, QuotientBelow
  <2>2. QED
    BY <1>1, <2>1
<1>5. QED
  BY <1>2, <1>3, <1>4

LEMMA WholePages ==
  ASSUME NEW k \in Nat
  PROVE  k * PageSz \in Nat /\ Whole(k * PageSz) /\ PageCount(k * PageSz) = k
<1>1. PageSz \in Nat /\ PageSz # 0
  BY RegionsAssumption
<1>2. k * PageSz \in Nat
  BY <1>1
<1>3. QED
  BY <1>1, <1>2, QuotientOfMultiple DEF Whole, PageCount

LEMMA PageCountType ==
  ASSUME NEW x \in Nat
  PROVE  PageCount(x) \in Nat
BY Division, RegionsAssumption DEF PageCount

LEMMA WholeSum ==
  ASSUME NEW x \in Nat, NEW y \in Nat, Whole(x), Whole(y)
  PROVE  Whole(x + y) /\ PageCount(x + y) = PageCount(x) + PageCount(y)
<1> DEFINE j == PageCount(x)
           k == PageCount(y)
<1>1. PageSz \in Nat /\ j \in Nat /\ k \in Nat /\ x = j * PageSz /\ y = k * PageSz
  BY PageCountType, RegionsAssumption DEF Whole
<1> HIDE DEF j, k
<1>2. x + y = (j + k) * PageSz /\ j + k \in Nat
  BY <1>1
<1>3. QED
  BY <1>2, WholePages DEF j, k

LEMMA WholeAtMost ==
  ASSUME NEW x \in Nat, Whole(x), NEW k \in Nat, x <= k * PageSz
  PROVE  PageCount(x) <= k
<1>1. PageSz \in Nat /\ PageSz # 0 /\ PageCount(x) \in Nat /\ x = PageCount(x) * PageSz
  BY PageCountType, RegionsAssumption DEF Whole
<1>2. x < (k + 1) * PageSz /\ k + 1 \in Nat
  BY <1>1
<1>3. PageCount(x) < k + 1
  BY <1>1, <1>2, QuotientBelow DEF PageCount
<1>4. QED
  BY <1>1, <1>3

(* The system call grows the area by whole pages, by one at least. *)
LEMMA AlignSzWhole ==
  ASSUME NEW n \in Nat
  PROVE  /\ AlignSz(n) \in Nat /\ Whole(AlignSz(n)) /\ PageCount(AlignSz(n)) \in Nat
         /\ n >= 1 => PageCount(AlignSz(n)) >= 1
<1> DEFINE k == (n + PageSz - 1) \div PageSz
<1>1. PageSz \in Nat /\ PageSz # 0 /\ n + PageSz - 1 \in Nat
  BY RegionsAssumption
<1>2. k \in Nat
  BY <1>1, Division
<1>3. AlignSz(n) = k * PageSz
  BY DEF AlignSz
<1>4. ASSUME n >= 1, k < 1 PROVE FALSE
  <2>1. n + PageSz - 1 < 1 * PageSz
    BY <1>1, <1>4, QuotientBelow
  <2>2. QED
    BY <1>1, <1>4, <2>1
<1> HIDE DEF k
<1>5. QED
  BY <1>2, <1>3, <1>4, WholePages

-----------------------------------------------------------------------------
(* Entries, frames and pages *)

Frames == 0..(RamFrames - 1)

LEMMA Bounds ==
  /\ FrameSz \in Nat /\ FrameSz # 0 /\ PageSz \in Nat /\ PageSz # 0
  /\ RamFrames \in Nat /\ RamFrames >= 2 /\ RamFrames <= 8192
  /\ SwapFrames \in Nat /\ SwapFrames >= 2
  /\ BusPgns \in Nat /\ BusPgns >= RamFrames /\ BusPgns <= MaxPgn + 1
  /\ MaxPgn \in Nat /\ MaxSbrk \in Nat /\ Room \in Nat /\ MaxEnd <= Room
<1>1. /\ FrameSz \in Nat /\ FrameSz # 0 /\ PageSz \in Nat /\ PageSz # 0
      /\ RamFrames \in Nat /\ RamFrames >= 2 /\ RamFrames <= 8192
      /\ SwapFrames \in Nat /\ SwapFrames >= 2
      /\ BusPgns \in Nat /\ BusPgns >= RamFrames /\ BusPgns <= MaxPgn + 1
      /\ MaxPgn \in Nat /\ MaxSbrk \in Nat /\ MaxEnd <= Room
  BY RegionsAssumption, PagesAssumption, MemoryAssumption DEF FpnField
<1>2. Room \in Nat
  BY <1>1 DEF Room
<1>3. QED
  BY <1>1, <1>2

(* What is written into the page table is an entry. *)
LEMMA EntryTypes ==
  /\ NoPte \in Entry /\ PatternPte \in Entry
  /\ \A e \in Entry, f \in Nat : SetFpn(e, f) \in Entry
  /\ \A s \in Nat : SetSwap(s) \in Entry
  /\ \A e \in Entry : PAGING_FPN(e) \in Nat
<1>1. ASSUME NEW e \in Entry, NEW f \in Nat PROVE e.low - (e.low % 8192) + (f % 8192) \in Nat
  BY DEF Entry
<1>2. \A e \in Entry, f \in Nat : SetFpn(e, f) \in Entry
  BY <1>1 DEF SetFpn, PAGING_FPN, FpnField, Entry
<1>3. \A s \in Nat : SetSwap(s) \in Entry
  BY DEF SetSwap, SwpOffLow, Entry
<1>4. \A e \in Entry : PAGING_FPN(e) \in Nat
  BY DEF PAGING_FPN, FpnField, Entry
<1>5. NoPte \in Entry /\ PatternPte \in Entry
  BY DEF NoPte, PatternPte, Entry
<1>6. QED
  BY <1>2, <1>3, <1>4, <1>5

(* A frame number of RAM and a swap offset are read back. *)
LEMMA FpnOfSet ==
  ASSUME NEW e \in Entry, NEW f \in Frames
  PROVE  /\ PAGING_FPN(SetFpn(e, f)) = f
         /\ SetFpn(e, f).present /\ ~SetFpn(e, f).swapped
<1>1. f \in 0..8191 /\ e.low \in Nat
  BY Bounds DEF Frames, Entry
<1>2. (e.low - (e.low % 8192) + (f % 8192)) % 8192 = f
  BY <1>1
<1>3. QED
  BY <1>2 DEF SetFpn, PAGING_FPN, FpnField

LEMMA SwpOfSet ==
  ASSUME NEW s \in Nat
  PROVE  PAGING_SWP(SetSwap(s)) = s /\ SetSwap(s).present /\ SetSwap(s).swapped
<1>1. (s * 32) \div 32 = s
  OBVIOUS
<1>2. QED
  BY <1>1 DEF PAGING_SWP, SetSwap, SwpOffLow

LEMMA PageOfType ==
  ASSUME NEW a \in Nat
  PROVE  PageOf(a) \in Pgns /\ OffsetOf(a) \in Offsets
<1>1. \A q \in Nat : /\ q \div FrameSz \in Nat
                     /\ q % FrameSz \in 0..(FrameSz - 1)
                     /\ q % BusPgns \in 0..(BusPgns - 1)
  BY Bounds
<1>2. a \div FrameSz \in Nat
  BY <1>1
<1>3. QED
  BY <1>1, <1>2, Bounds DEF PageOf, OffsetOf, Pgns, Offsets

-----------------------------------------------------------------------------
(* The types of the pages *)

(* vm_map_ram enters the pages into the FIFO from the first one on. *)
Entered(first, n) == [k \in 1..n |-> first + n - k]

LEMMA EnteredPages ==
  ASSUME NEW first \in Nat, NEW n \in Nat, first + n <= MaxPgn + 1
  PROVE  /\ Entered(first, n) \in Seq(Pgns) /\ Len(Entered(first, n)) = n
         /\ \A k \in 1..n : Entered(first, n)[k] = first + n - k
<1>1. \A k \in 1..n : first + n - k \in Pgns
  BY Bounds DEF Pgns
<1>2. Entered(first, n) \in [1..n -> Pgns]
  BY <1>1 DEF Entered
<1>3. Entered(first, n) \in Seq(Pgns)
  BY <1>2, SeqDef
<1>4. QED
  BY <1>2, <1>3, LenProperties DEF Entered

LEMMA MapRamTypes ==
  ASSUME PagesTypeOK, NEW first \in Nat, NEW n \in Nat,
         first + n <= MaxPgn + 1, MapRam(first, n)
  PROVE  PagesTypeOK'
<1>1. CASE ~(n <= Len(ram_free))
  BY <1>1 DEF MapRam, pageVars, PagesTypeOK
<1>2. CASE n <= Len(ram_free)
  <2> DEFINE frame(g) == ram_free[n - (g - first)]
  <2>1. /\ pte' = [g \in Pgns |-> IF g \in first..(first + n - 1)
                                    THEN SetFpn(pte[g], frame(g)) ELSE pte[g]]
        /\ fifo_pgn' = Entered(first, n) \o fifo_pgn
        /\ ram_free' = SubSeq(ram_free, n + 1, Len(ram_free))
        /\ swap_free' = swap_free /\ ram' = ram
    BY <1>2 DEF MapRam, Entered
  <2>2. ram_free \in Seq(Frames) /\ Len(ram_free) \in Nat
    BY LenProperties DEF PagesTypeOK, Frames
  <2>3. \A k \in 1..Len(ram_free) : ram_free[k] \in Nat
    <3>1. \A k \in 1..Len(ram_free) : ram_free[k] \in Frames
      BY <2>2, ElementOfSeq
    <3>2. QED
      BY <3>1, Bounds DEF Frames
  <2>4. ASSUME NEW g \in Pgns, g \in first..(first + n - 1)
        PROVE  SetFpn(pte[g], frame(g)) \in Entry
    <3>1. n - (g - first) \in 1..Len(ram_free)
      BY <1>2, <2>2, <2>4
    <3>2. pte[g] \in Entry
      BY DEF PagesTypeOK
    <3>3. QED
      BY <2>3, <3>1, <3>2, EntryTypes
  <2>5. pte' \in [Pgns -> Entry]
    BY <2>1, <2>4 DEF PagesTypeOK
  <2>6. fifo_pgn' \in Seq(Pgns)
    BY <2>1, EnteredPages, ConcatProperties DEF PagesTypeOK
  <2>7. ram_free' \in Seq(Frames)
    BY <1>2, <2>1, <2>2, SubSeqProperties
  <2>8. QED
    BY <2>1, <2>5, <2>6, <2>7 DEF PagesTypeOK, Frames
<1>3. QED
  BY <1>1, <1>2

LEMMA SwapOutTypes ==
  ASSUME PagesTypeOK, NEW g \in Pgns, SwapOut(g),
         ram' \in [0..(RamFrames - 1) -> Frame]
  PROVE  PagesTypeOK'
<1>1. /\ fifo_pgn # <<>> /\ swap_free # <<>>
      /\ pte' = [Evicted EXCEPT ![g] = SetFpn(@, PAGING_FPN(pte[Victim]))]
      /\ fifo_pgn' = <<g>> \o Front(fifo_pgn)
      /\ swap_free' = Tail(swap_free) /\ ram_free' = ram_free
  BY DEF SwapOut
<1>2. Victim \in Pgns /\ Front(fifo_pgn) \in Seq(Pgns)
  BY <1>1, FrontEntries DEF Victim, PagesTypeOK
<1>3. /\ Head(swap_free) \in 0..(SwapFrames - 1)
      /\ Tail(swap_free) \in Seq(0..(SwapFrames - 1))
  BY <1>1, HeadTailDistinct DEF PagesTypeOK
<1>4. SetSwap(Head(swap_free)) \in Entry
  <2>1. Head(swap_free) \in Nat
    BY <1>3, Bounds
  <2>2. QED
    BY <2>1, EntryTypes
<1>5. PAGING_FPN(pte[Victim]) \in Nat
  BY <1>2, EntryTypes DEF PagesTypeOK
<1>6. Evicted \in [Pgns -> Entry]
  BY <1>2, <1>4 DEF Evicted, PagesTypeOK
<1>7. SetFpn(Evicted[g], PAGING_FPN(pte[Victim])) \in Entry
  BY <1>5, <1>6, EntryTypes
<1>8. pte' \in [Pgns -> Entry]
  BY <1>1, <1>6, <1>7
<1>9. fifo_pgn' \in Seq(Pgns)
  BY <1>1, <1>2, PrependDistinct
<1>10. QED
  BY <1>1, <1>3, <1>8, <1>9 DEF PagesTypeOK

LEMMA FaultFailsTypes ==
  ASSUME PagesTypeOK, NEW g \in Pgns, FaultFails(g)
  PROVE  PagesTypeOK'
<1>1. fifo_pgn' \in Seq(Pgns)
  BY FrontEntries DEF FaultFails, PagesTypeOK
<1>2. QED
  BY <1>1 DEF FaultFails, PagesTypeOK

(* A byte of RAM is written, or nothing that is modelled. *)
LEMMA StoredType ==
  ASSUME PagesTypeOK, NEW e, NEW off \in Offsets, NEW v \in Values
  PROVE  Stored(e, off, v) \in [0..(RamFrames - 1) -> Frame]
<1>1. CASE ~InRam(e)
  BY <1>1 DEF Stored, PagesTypeOK
<1>2. CASE InRam(e)
  <2> DEFINE f == PAGING_FPN(e)
  <2>1. f \in 0..(RamFrames - 1) /\ ram[f] \in Frame
    BY <1>2 DEF InRam, PagesTypeOK
  <2>2. [ram[f] EXCEPT ![off] = v] \in Frame
    BY <2>1 DEF Frame
  <2>3. Stored(e, off, v) = [ram EXCEPT ![f] = [ram[f] EXCEPT ![off] = v]]
    BY <1>2 DEF Stored
  <2> HIDE DEF f
  <2>4. QED
    BY <2>1, <2>2, <2>3 DEF PagesTypeOK
<1>3. QED
  BY <1>1, <1>2

-----------------------------------------------------------------------------
(* The growth of the area *)

(* One system call is made at a time, with the lock or by the only process. *)
OneCall == \A p, q \in Procs : pc[p] # "run" /\ pc[q] # "run" => p = q

(* What the process in the system call has read and written of the limit. *)
GrowthOf(p) ==
  /\ pc[p] # "run" => call[p].rgid # NULL \/ UserIncs # {}
  /\ pc[p] \in {"inc", "add", "limit"} => vm_end + AlignSz(call[p].inc_sz) <= Room
  /\ pc[p] = "add" => call[p].old_vm_end = vm_end
  /\ pc[p] = "limit" => /\ call[p].old_vm_end = vm_end
                        /\ call[p].new_vm_end = vm_end + AlignSz(call[p].inc_sz)
  /\ pc[p] = "map" => /\ Whole(call[p].old_vm_end)
                      /\ vm_end = call[p].old_vm_end + AlignSz(call[p].inc_sz)

CallsInv == /\ OneCall
            /\ Whole(vm_end) /\ vm_end <= Room
            /\ \A p \in Procs : GrowthOf(p)

(* The pages that the area has, or had until the growth that now comes to  *)
(* map its own: vm_map_ram has been asked for these.                       *)
Asked == IF \E p \in Procs : pc[p] = "map"
           THEN PageCount(call[CHOOSE p \in Procs : pc[p] = "map"].old_vm_end)
           ELSE PageCount(vm_end)

(* The steps of the memory are steps of the regions. *)
LEMMA MemoryIsRegions == [MemNext]_memVars => [Next]_vars
<1>1. ASSUME NEW p \in Procs, NEW r \in RgIds, NEW n \in Sizes,
             MemAllocReuse(p, r, n) \/ MemAllocGrow(p, r, n)
      PROVE  [Next]_vars
  BY <1>1 DEF MemAllocReuse, MemAllocGrow, Next
<1>2. ASSUME NEW p \in Procs, MemAllocEnd(p) \/ MemIncMap(p) \/ MemNotFound(p) \/ MemSysOther(p)
      PROVE  [Next]_vars
  BY <1>2 DEF MemAllocEnd, MemIncMap, MemNotFound, MemSysOther, Next, SysNext
<1>3. ASSUME NEW p \in Procs, NEW r \in RgIds, MemFree(p, r)
      PROVE  [Next]_vars
  BY <1>3 DEF MemFree, Next
<1>4. ASSUME NEW p \in Procs, NEW n \in UserIncs, MemUserInc(p, n)
      PROVE  [Next]_vars
  BY <1>4 DEF MemUserInc, Next
<1>5. ASSUME NEW p \in Procs, \/ \E g \in UserMaps : UserMap(p, g)
                              \/ \E addr \in UserAddrs, v \in Values : UserIoWrite(p, addr, v)
                              \/ \E r \in RgIds, n \in 0..(MaxSbrk - 1) :
                                   \/ Read(p, r, n)
                                   \/ \E v \in Values : Write(p, r, n, v)
                                   \/ AccessFails(p, r, n)
      PROVE  UNCHANGED vars
  BY <1>5 DEF UserMap, UserIoWrite, Read, Write, AccessFails
<1>6. UNCHANGED memVars => UNCHANGED vars
  BY DEF memVars
<1>7. QED
  BY <1>1, <1>2, <1>3, <1>4, <1>5, <1>6 DEF MemNext

LEMMA MemoryRegions == MemSpec => []IInv
<1>1. MemInit => IInv
  BY InitIInv DEF MemInit
<1>2. IInv /\ [MemNext]_memVars => IInv'
  BY MemoryIsRegions, NextStep
<1>3. QED
  BY <1>1, <1>2, PTL DEF MemSpec

(* When the others make no call, what is asked is told by p. *)
LEMMA AskedBy ==
  \A p \in Procs :
    (\A q \in Procs \ {p} : pc[q] = "run") =>
      Asked = IF pc[p] = "map" THEN PageCount(call[p].old_vm_end) ELSE PageCount(vm_end)
<1> SUFFICES ASSUME NEW p \in Procs, \A q \in Procs \ {p} : pc[q] = "run"
             PROVE  Asked = IF pc[p] = "map" THEN PageCount(call[p].old_vm_end)
                                             ELSE PageCount(vm_end)
  OBVIOUS
<1>1. CASE pc[p] = "map"
  <2>1. \A q \in Procs : pc[q] = "map" => q = p
    OBVIOUS
  <2>2. (CHOOSE q \in Procs : pc[q] = "map") = p
    BY <1>1, <2>1
  <2>3. QED
    BY <1>1, <2>2 DEF Asked
<1>2. CASE pc[p] # "map"
  BY <1>2 DEF Asked
<1>3. QED
  BY <1>1, <1>2

LEMMA AskedThen ==
  \A p \in Procs :
    (\A q \in Procs \ {p} : pc'[q] = "run") =>
      Asked' = IF pc'[p] = "map" THEN PageCount(call'[p].old_vm_end) ELSE PageCount(vm_end')
<1>1. (\A p \in Procs :
        (\A q \in Procs \ {p} : pc[q] = "run") =>
          Asked = IF pc[p] = "map" THEN PageCount(call[p].old_vm_end)
                                   ELSE PageCount(vm_end))'
  BY AskedBy, PTL
<1>2. QED
  BY <1>1 DEF PageCount

(* Who starts a call, or is in one, is alone with it. *)
LEMMA OthersRun ==
  ASSUME IInv, CallsInv, NEW p \in Procs,
         pc[p] # "run" \/ mmvm_lock = NULL \/ UserIncs # {}
  PROVE  \A q \in Procs \ {p} : pc[q] = "run"
<1> SUFFICES ASSUME NEW q \in Procs, q # p, pc[q] # "run" PROVE FALSE
  OBVIOUS
<1>1. UserIncs = {}
  BY MemoryAssumption
<1>2. pc[p] = "run" /\ mmvm_lock = NULL
  BY <1>1 DEF CallsInv, OneCall
<1>3. call[q].rgid # NULL
  BY <1>1 DEF CallsInv, GrowthOf
<1>4. mmvm_lock = q
  BY <1>3 DEF IInv, AllocInv
<1>5. QED
  BY <1>2, <1>4, RegionsAssumption

(* A step of the only process in a call. *)
LEMMA CallsOf ==
  ASSUME CallsInv, NEW p \in Procs, \A q \in Procs \ {p} : pc'[q] = "run",
         GrowthOf(p)', Whole(vm_end)', (vm_end <= Room)'
  PROVE  CallsInv'
<1>1. OneCall'
  BY DEF OneCall
<1>2. ASSUME NEW q \in Procs, q # p PROVE GrowthOf(q)'
  BY <1>2 DEF GrowthOf
<1>3. QED
  BY <1>1, <1>2 DEF CallsInv

(* What the invariants say of the process in the call. *)
LEMMA CallTypes ==
  ASSUME IInv, NEW p \in Procs
  PROVE  /\ vm_end \in Nat /\ sbrk \in Nat
         /\ call[p].inc_sz \in Nat /\ call[p].size \in Nat
         /\ call[p].old_vm_end \in Nat /\ call[p].new_vm_end \in Nat
         /\ call[p].rgid \in RgIds \cup {NULL}
         /\ AlignSz(call[p].inc_sz) \in Nat /\ Whole(AlignSz(call[p].inc_sz))
         /\ PageCount(AlignSz(call[p].inc_sz)) \in Nat
         /\ PageCount(vm_end) \in Nat /\ PageCount(call[p].old_vm_end) \in Nat
<1>1. /\ vm_end \in Nat /\ sbrk \in Nat
      /\ call[p].inc_sz \in Nat /\ call[p].size \in Nat
      /\ call[p].old_vm_end \in Nat /\ call[p].new_vm_end \in Nat
      /\ call[p].rgid \in RgIds \cup {NULL}
  BY DEF IInv, TypeOK
<1>2. QED
  BY <1>1, AlignSzWhole, PageCountType

LEMMA QuietCalls ==
  ASSUME CallsInv, UNCHANGED <<vm_end, pc, call>>
  PROVE  CallsInv' /\ Asked' = Asked
BY DEF CallsInv, OneCall, GrowthOf, Asked, PageCount, Whole, AlignSz

(* A call starts: nobody else is in one, and there is room for its growth. *)
LEMMA StartCalls ==
  ASSUME IInv, CallsInv, NEW p \in Procs, NEW c,
         pc[p] = "run", mmvm_lock = NULL \/ UserIncs # {},
         c.rgid # NULL \/ UserIncs # {}, vm_end + AlignSz(c.inc_sz) <= Room,
         pc' = [pc EXCEPT ![p] = "inc"], call' = [call EXCEPT ![p] = c], vm_end' = vm_end
  PROVE  CallsInv' /\ Asked' = Asked
<1>1. \A q \in Procs \ {p} : pc[q] = "run"
  BY OthersRun
<1>2. pc'[p] = "inc" /\ call'[p] = c /\ \A q \in Procs \ {p} : pc'[q] = "run"
  BY <1>1 DEF IInv, TypeOK
<1>3. GrowthOf(p)'
  BY <1>2 DEF GrowthOf, AlignSz
<1>4. Whole(vm_end)' /\ (vm_end <= Room)'
  BY DEF CallsInv, Whole, PageCount
<1>5. CallsInv'
  BY <1>2, <1>3, <1>4, CallsOf
<1>6. Asked = PageCount(vm_end) /\ Asked' = PageCount(vm_end')
  BY <1>1, <1>2, AskedBy, AskedThen
<1>7. QED
  BY <1>5, <1>6

(* A call ends, or fails. *)
LEMMA EndCalls ==
  ASSUME IInv, CallsInv, NEW p \in Procs,
         pc[p] # "run", pc[p] # "map",
         \/ pc' = [pc EXCEPT ![p] = "run"]
         \/ pc' = [pc EXCEPT ![p] = "back"] /\ call' = call,
         vm_end' = vm_end
  PROVE  CallsInv' /\ Asked' = Asked
<1>1. \A q \in Procs \ {p} : pc[q] = "run"
  BY OthersRun
<1>2. /\ pc'[p] \in {"run", "back"} /\ \A q \in Procs \ {p} : pc'[q] = "run"
      /\ pc'[p] = "back" => call' = call
  BY <1>1 DEF IInv, TypeOK
<1>3. GrowthOf(p)'
  BY <1>2 DEF CallsInv, GrowthOf
<1>4. Whole(vm_end)' /\ (vm_end <= Room)'
  BY DEF CallsInv, Whole, PageCount
<1>5. CallsInv'
  BY <1>2, <1>3, <1>4, CallsOf
<1>6. Asked = PageCount(vm_end) /\ Asked' = PageCount(vm_end')
  BY <1>1, <1>2, AskedBy, AskedThen
<1>7. QED
  BY <1>5, <1>6

(* inc_vma_limit reads the limit, twice, and writes it. *)
LEMMA LimitCalls ==
  ASSUME IInv, CallsInv, NEW p \in Procs, IncRead(p) \/ IncAdd(p) \/ IncWrite(p)
  PROVE  CallsInv' /\ Asked' = Asked
<1>1. pc[p] # "run" /\ pc[p] # "map"
  BY DEF IncRead, IncAdd, IncWrite
<1>2. \A q \in Procs \ {p} : pc[q] = "run"
  BY <1>1, OthersRun
<1>3. \A q \in Procs \ {p} : pc'[q] = "run"
  BY <1>2 DEF IncRead, IncAdd, IncWrite, Goto, IInv, TypeOK
<1>4. Asked = PageCount(vm_end)
  BY <1>1, <1>2, AskedBy
<1>5. GrowthOf(p) /\ Whole(vm_end) /\ vm_end <= Room
  BY DEF CallsInv
<1> DEFINE grown == AlignSz(call[p].inc_sz)
<1>6. vm_end \in Nat /\ grown \in Nat /\ Whole(grown)
  BY CallTypes
<1>7. CASE IncRead(p)
  <2>1. /\ pc[p] = "inc" /\ vm_end' = vm_end
        /\ call' = [call EXCEPT ![p].old_vm_end = vm_end]
        /\ pc' = [pc EXCEPT ![p] = "add"]
    BY <1>7 DEF IncRead, Goto
  <2>2. /\ pc'[p] = "add" /\ call'[p].old_vm_end = vm_end
        /\ call'[p].rgid = call[p].rgid /\ call'[p].inc_sz = call[p].inc_sz
    BY <2>1 DEF IInv, TypeOK
  <2>3. GrowthOf(p)'
    BY <1>5, <2>1, <2>2 DEF GrowthOf, AlignSz
  <2>4. Whole(vm_end)' /\ (vm_end <= Room)'
    BY <1>5, <2>1 DEF Whole, PageCount
  <2>5. Asked' = PageCount(vm_end')
    BY <1>3, <2>2, AskedThen
  <2>6. QED
    BY <1>3, <1>4, <2>1, <2>3, <2>4, <2>5, CallsOf
<1>8. CASE IncAdd(p)
  <2>1. /\ pc[p] = "add" /\ vm_end' = vm_end
        /\ call' = [call EXCEPT ![p].new_vm_end = vm_end + grown]
        /\ pc' = [pc EXCEPT ![p] = "limit"]
    BY <1>8 DEF IncAdd, Goto
  <2>2. /\ pc'[p] = "limit" /\ call'[p].old_vm_end = call[p].old_vm_end
        /\ call'[p].new_vm_end = vm_end + grown
        /\ call'[p].rgid = call[p].rgid /\ call'[p].inc_sz = call[p].inc_sz
    BY <2>1 DEF IInv, TypeOK
  <2>3. GrowthOf(p)'
    BY <1>5, <2>1, <2>2 DEF GrowthOf, AlignSz
  <2>4. Whole(vm_end)' /\ (vm_end <= Room)'
    BY <1>5, <2>1 DEF Whole, PageCount
  <2>5. Asked' = PageCount(vm_end')
    BY <1>3, <2>2, AskedThen
  <2>6. QED
    BY <1>3, <1>4, <2>1, <2>3, <2>4, <2>5, CallsOf
<1>9. CASE IncWrite(p)
  <2>1. /\ pc[p] = "limit" /\ vm_end' = call[p].new_vm_end /\ call' = call
        /\ pc' = [pc EXCEPT ![p] = "map"]
    BY <1>9 DEF IncWrite, Goto
  <2>2. /\ call[p].old_vm_end = vm_end /\ vm_end' = vm_end + grown
        /\ vm_end + grown <= Room /\ pc'[p] = "map"
        /\ call[p].rgid # NULL \/ UserIncs # {}
    BY <1>5, <2>1 DEF GrowthOf, IInv, TypeOK
  <2>3. GrowthOf(p)'
    BY <1>5, <2>1, <2>2 DEF GrowthOf, AlignSz, Whole, PageCount
  <2>4. Whole(vm_end)' /\ (vm_end <= Room)'
    <3>1. Whole(vm_end + grown)
      BY <1>5, <1>6, WholeSum
    <3>2. QED
      BY <2>2, <3>1 DEF Whole, PageCount
  <2>5. Asked' = PageCount(call'[p].old_vm_end)
    BY <1>3, <2>2, AskedThen
  <2>6. Asked' = PageCount(vm_end)
    BY <2>1, <2>2, <2>5
  <2>7. QED
    BY <1>3, <1>4, <2>3, <2>4, <2>6, CallsOf
<1>10. QED
  BY <1>7, <1>8, <1>9

(* vm_map_ram maps the pages of the growth, from those on that there were. *)
LEMMA MapCalls ==
  ASSUME IInv, CallsInv, NEW p \in Procs, MemIncMap(p)
  PROVE  /\ CallsInv'
         /\ Asked \in Nat /\ GrowthPages(p) \in Nat
         /\ MapRam(Asked, GrowthPages(p))
         /\ Asked + GrowthPages(p) = PageCount(vm_end)
         /\ Asked' = Asked + GrowthPages(p)
         /\ \A q \in Procs : pc[q] # "run" => q = p
         /\ vm_end' = vm_end
<1>1. /\ pc[p] = "map" /\ call' = call /\ vm_end' = vm_end
      /\ pc' = [pc EXCEPT ![p] = "back"]
      /\ MapRam(call[p].old_vm_end \div PageSz, GrowthPages(p))
  BY DEF MemIncMap, IncMap, Goto
<1>2. \A q \in Procs \ {p} : pc[q] = "run"
  BY <1>1, OthersRun
<1>3. pc'[p] = "back" /\ \A q \in Procs \ {p} : pc'[q] = "run"
  BY <1>1, <1>2 DEF IInv, TypeOK
<1>4. Asked = PageCount(call[p].old_vm_end) /\ Asked' = PageCount(vm_end)
  <2>1. Asked = PageCount(call[p].old_vm_end)
    BY <1>1, <1>2, AskedBy
  <2>2. Asked' = PageCount(vm_end')
    BY <1>3, AskedThen
  <2>3. QED
    BY <1>1, <2>1, <2>2
<1>5. GrowthPages(p) = PageCount(AlignSz(call[p].inc_sz))
  BY DEF GrowthPages, PageCount
<1>6. /\ Whole(call[p].old_vm_end)
      /\ vm_end = call[p].old_vm_end + AlignSz(call[p].inc_sz)
  BY <1>1 DEF CallsInv, GrowthOf
<1>7. PageCount(vm_end) = PageCount(call[p].old_vm_end) + GrowthPages(p)
  BY <1>5, <1>6, CallTypes, WholeSum
<1>8. GrowthOf(p)'
  BY <1>1, <1>3 DEF CallsInv, GrowthOf
<1>9. Whole(vm_end)' /\ (vm_end <= Room)'
  BY <1>1 DEF CallsInv, Whole, PageCount
<1>10. CallsInv'
  BY <1>3, <1>8, <1>9, CallsOf
<1>11. Asked \in Nat /\ GrowthPages(p) \in Nat
  BY <1>4, <1>5, CallTypes
<1>12. QED
  BY <1>1, <1>2, <1>4, <1>7, <1>10, <1>11 DEF PageCount

LEMMA CallsStep ==
  ASSUME IInv, CallsInv, [MemNext]_memVars
  PROVE  CallsInv' /\ (Asked' = Asked \/ \E p \in Procs : MemIncMap(p))
<1>1. ASSUME NEW p \in Procs, NEW r \in RgIds, NEW n \in Sizes, MemAllocGrow(p, r, n)
      PROVE  CallsInv' /\ Asked' = Asked
  <2> DEFINE c == AllocCall(r, n, (n \div PageSz) + 1)
  <2>1. c.rgid = r /\ c.inc_sz = (n \div PageSz) + 1
    BY DEF AllocCall, NoCall
  <2>2. /\ pc[p] = "run" /\ mmvm_lock = NULL /\ vm_end' = vm_end
        /\ vm_end + AlignSz((n \div PageSz) + 1) <= Room
        /\ pc' = [pc EXCEPT ![p] = "inc"] /\ call' = [call EXCEPT ![p] = c]
    BY <1>1 DEF MemAllocGrow, AllocGrow, Goto
  <2> HIDE DEF c
  <2>3. vm_end + AlignSz(c.inc_sz) <= Room /\ c.rgid # NULL
    BY <2>1, <2>2, RegionsAssumption
  <2>4. QED
    BY <2>2, <2>3, StartCalls
<1>2. ASSUME NEW p \in Procs, NEW n \in UserIncs, MemUserInc(p, n)
      PROVE  CallsInv' /\ Asked' = Asked
  <2> DEFINE c == [NoCall EXCEPT !.inc_sz = n]
  <2>1. c.inc_sz = n
    BY DEF NoCall
  <2>2. /\ pc[p] = "run" /\ vm_end' = vm_end /\ vm_end + AlignSz(n) <= MaxEnd
        /\ pc' = [pc EXCEPT ![p] = "inc"] /\ call' = [call EXCEPT ![p] = c]
    BY <1>2 DEF MemUserInc, UserInc, Goto
  <2> HIDE DEF c
  <2>3. vm_end + AlignSz(n) <= Room
    <3>1. vm_end \in Nat /\ AlignSz(n) \in Nat /\ MaxEnd \in Nat
      BY CallTypes, RegionsAssumption, AlignSzWhole
    <3>2. QED
      BY <2>2, <3>1, Bounds
  <2>4. QED
    BY <2>1, <2>2, <2>3, StartCalls
<1>3. ASSUME NEW p \in Procs, MemAllocEnd(p) \/ MemNotFound(p) \/ UserIncEnd(p)
      PROVE  CallsInv' /\ Asked' = Asked
  <2>1. /\ pc[p] # "run" /\ pc[p] # "map" /\ vm_end' = vm_end
        /\ \/ pc' = [pc EXCEPT ![p] = "run"]
           \/ pc' = [pc EXCEPT ![p] = "back"] /\ call' = call
    BY <1>3 DEF MemAllocEnd, AllocEnd, MemNotFound, NotFound, UserIncEnd, Goto
  <2>2. QED
    BY <2>1, EndCalls
<1>4. ASSUME NEW p \in Procs, IncRead(p) \/ IncAdd(p) \/ IncWrite(p)
      PROVE  CallsInv' /\ Asked' = Asked
  BY <1>4, LimitCalls
<1>5. ASSUME NEW p \in Procs, MemIncMap(p)
      PROVE  CallsInv'
  BY <1>5, MapCalls
<1>6. ASSUME NEW p \in Procs,
             \/ \E r \in RgIds, n \in Sizes : MemAllocReuse(p, r, n)
             \/ \E r \in RgIds : MemFree(p, r)
             \/ \E g \in UserMaps : UserMap(p, g)
             \/ \E addr \in UserAddrs, v \in Values : UserIoWrite(p, addr, v)
             \/ \E r \in RgIds, n \in 0..(MaxSbrk - 1) :
                  \/ Read(p, r, n)
                  \/ \E v \in Values : Write(p, r, n, v)
                  \/ AccessFails(p, r, n)
      PROVE  UNCHANGED <<vm_end, pc, call>>
  BY <1>6 DEF MemAllocReuse, AllocReuse, MemFree, Free, UserMap, UserIoWrite,
              Read, Write, AccessFails, vars
<1>7. ASSUME UNCHANGED memVars PROVE UNCHANGED <<vm_end, pc, call>>
  BY <1>7 DEF memVars, vars
<1>8. QED
  BY <1>1, <1>2, <1>3, <1>4, <1>5, <1>6, <1>7, QuietCalls DEF MemNext, MemSysOther

LEMMA CallsInit == MemInit => CallsInv /\ Asked = 0
<1> SUFFICES ASSUME MemInit PROVE CallsInv /\ Asked = 0
  OBVIOUS
<1>1. vm_end = 0 /\ \A p \in Procs : pc[p] = "run"
  BY DEF MemInit, Init
<1>2. Whole(0) /\ PageCount(0) = 0
  <2>1. 0 * PageSz = 0
    BY Bounds
  <2>2. QED
    BY <2>1, WholePages
<1>3. QED
  BY <1>1, <1>2, Bounds DEF CallsInv, OneCall, GrowthOf, Asked

-----------------------------------------------------------------------------
(* Types *)

(* The address of a byte of a region. *)
LEMMA AddrType ==
  ASSUME IInv, NEW p \in Procs, NEW r \in RgIds, NEW n \in 0..(MaxSbrk - 1),
         Accesses(p, r, n)
  PROVE  /\ n \in Nat /\ Addr(r, n) \in Nat /\ Addr(r, n) < sbrk
         /\ n < symrgtbl[r].rg_end - symrgtbl[r].rg_start
         /\ Addr(r, n) \in Bytes(symrgtbl[r])
<1>1. /\ symrgtbl[r] \in Rgs /\ sbrk \in Nat /\ symrgtbl[r].rg_end <= sbrk
  BY DEF IInv, TypeOK, Rgs, NoOverlap, BelowBreak
<1>2. n \in Nat /\ n <= symrgtbl[r].rg_end - symrgtbl[r].rg_start - 1
  BY <1>1 DEF Accesses, Rgs
<1>3. QED
  BY <1>1, <1>2 DEF Addr, Bytes, Rgs

(* A growth fits into the page table. *)
LEMMA GrowthFits ==
  ASSUME IInv, CallsInv, NEW p \in Procs, MemIncMap(p)
  PROVE  Asked + GrowthPages(p) <= MaxPgn + 1
<1>1. Asked + GrowthPages(p) = PageCount(vm_end)
  BY MapCalls
<1>2. vm_end \in Nat /\ Whole(vm_end) /\ vm_end <= (MaxPgn + 1) * PageSz
  BY CallTypes DEF CallsInv, Room
<1>3. MaxPgn + 1 \in Nat
  BY Bounds
<1>4. QED
  BY <1>1, <1>2, <1>3, WholeAtMost

LEMMA InitTypes == MemInit => MemTypeOK
<1> SUFFICES ASSUME MemInit PROVE MemTypeOK
  OBVIOUS
<1>1. TypeOK
  BY InitIInv DEF MemInit, IInv
<1>2. ram_free \in Seq(Frames) /\ swap_free \in Seq(0..(SwapFrames - 1))
  <2>1. \A k \in 1..RamFrames : k - 1 \in Frames
    BY Bounds DEF Frames
  <2>2. \A k \in 1..SwapFrames : k - 1 \in 0..(SwapFrames - 1)
    BY Bounds
  <2>3. /\ [k \in 1..RamFrames |-> k - 1] \in [1..RamFrames -> Frames]
        /\ [k \in 1..SwapFrames |-> k - 1] \in [1..SwapFrames -> 0..(SwapFrames - 1)]
    BY <2>1, <2>2
  <2>4. QED
    BY Bounds, <2>3, SeqDef DEF MemInit, PagesInit
<1>3. pte \in [Pgns -> Entry] /\ fifo_pgn \in Seq(Pgns)
  BY EntryTypes DEF MemInit, PagesInit
<1>4. ram \in [0..(RamFrames - 1) -> Frame]
  BY PagesAssumption DEF MemInit, PagesInit, Frame
<1>5. last \in [RgIds -> [0..(MaxSbrk - 1) -> Values \cup {NULL}]] /\ regular \in BOOLEAN
  BY DEF MemInit, NoData
<1>6. QED
  BY <1>1, <1>2, <1>3, <1>4, <1>5 DEF MemTypeOK, PagesTypeOK, Frames

(* A page in RAM or a fault, and then perhaps a byte written. *)
LEMMA AccessTypes ==
  ASSUME PagesTypeOK, NEW g \in Pgns, GetPage(g),
         ram' \in [0..(RamFrames - 1) -> Frame]
  PROVE  PagesTypeOK'
BY SwapOutTypes DEF GetPage, PagesTypeOK

LEMMA TypesStep ==
  ASSUME IInv, CallsInv, MemTypeOK, [MemNext]_memVars
  PROVE  MemTypeOK'
<1>1. TypeOK'
  BY MemoryIsRegions, NextStep DEF IInv
<1>2. /\ PagesTypeOK /\ regular \in BOOLEAN
      /\ last \in [RgIds -> [0..(MaxSbrk - 1) -> Values \cup {NULL}]]
  BY DEF MemTypeOK
<1>3. UNCHANGED pageVars => PagesTypeOK'
  BY <1>2 DEF pageVars, PagesTypeOK
<1>4. NoData \in [0..(MaxSbrk - 1) -> Values \cup {NULL}]
  BY DEF NoData
<1> DEFINE DataOK == /\ last \in [RgIds -> [0..(MaxSbrk - 1) -> Values \cup {NULL}]]
                     /\ regular \in BOOLEAN
<1>5. ASSUME NEW p \in Procs, NEW r \in RgIds, NEW n \in Sizes,
             MemAllocReuse(p, r, n) \/ MemAllocGrow(p, r, n)
      PROVE  PagesTypeOK' /\ DataOK'
  BY <1>2, <1>3, <1>4, <1>5 DEF MemAllocReuse, MemAllocGrow, Forget
<1>6. ASSUME NEW p \in Procs,
             \/ MemAllocEnd(p)
             \/ \E r \in RgIds : MemFree(p, r)
             \/ \E n \in UserIncs : MemUserInc(p, n)
             \/ MemNotFound(p) \/ MemSysOther(p)
      PROVE  PagesTypeOK' /\ DataOK'
  BY <1>2, <1>3, <1>4, <1>6
     DEF MemAllocEnd, MemFree, MemUserInc, MemNotFound, MemSysOther, Forget
<1>7. ASSUME NEW p \in Procs, MemIncMap(p)
      PROVE  PagesTypeOK' /\ DataOK'
  <2>1. Asked \in Nat /\ GrowthPages(p) \in Nat /\ MapRam(Asked, GrowthPages(p))
    BY <1>7, MapCalls
  <2>2. Asked + GrowthPages(p) <= MaxPgn + 1
    BY <1>7, GrowthFits
  <2>3. PagesTypeOK'
    BY <1>2, <2>1, <2>2, MapRamTypes
  <2>4. UNCHANGED <<last, regular>>
    BY <1>7 DEF MemIncMap
  <2>5. QED
    BY <1>2, <2>3, <2>4
<1>8. ASSUME NEW p \in Procs, NEW g \in UserMaps, UserMap(p, g)
      PROVE  PagesTypeOK' /\ DataOK'
  <2>1. /\ pte' = [pte EXCEPT ![g] = PatternPte] /\ regular' = FALSE
        /\ UNCHANGED <<fifo_pgn, ram_free, swap_free, ram, last>>
    BY <1>8 DEF UserMap
  <2>2. pte' \in [Pgns -> Entry]
    BY <1>2, <2>1, EntryTypes DEF PagesTypeOK
  <2>3. QED
    BY <1>2, <2>1, <2>2 DEF PagesTypeOK
<1>9. ASSUME NEW p \in Procs, NEW addr \in UserAddrs, NEW v \in Values,
             UserIoWrite(p, addr, v)
      PROVE  PagesTypeOK' /\ DataOK'
  <2> DEFINE f   == addr \div FrameSz
             off == addr % FrameSz
  <2>1. /\ ram' = [ram EXCEPT ![f][off] = v] /\ regular' = FALSE
        /\ UNCHANGED <<pte, fifo_pgn, ram_free, swap_free, last>>
    BY <1>9 DEF UserIoWrite
  <2>2. addr \in Nat /\ addr < RamFrames * FrameSz
    <3>1. RamFrames * FrameSz \in Nat
      BY Bounds
    <3>2. addr \in 0..(RamFrames * FrameSz - 1)
      BY MemoryAssumption
    <3>3. QED
      BY <3>1, <3>2
  <2>3. f \in 0..(RamFrames - 1) /\ off \in Offsets
    <3>1. f \in Nat /\ f < RamFrames
      <4>1. f \in Nat
        BY <2>2, Bounds
      <4>2. f < RamFrames
        BY <2>2, Bounds, QuotientBelow
      <4>3. QED
        BY <4>1, <4>2
    <3>2. off \in Offsets
      BY <2>2, PageOfType DEF OffsetOf
    <3>3. QED
      BY <3>1, <3>2, Bounds
  <2> HIDE DEF f, off
  <2>4. ram \in [0..(RamFrames - 1) -> Frame]
    BY <1>2 DEF PagesTypeOK
  <2>5. [ram[f] EXCEPT ![off] = v] \in Frame
    BY <2>3, <2>4 DEF Frame
  <2>6. ram' \in [0..(RamFrames - 1) -> Frame]
    BY <2>1, <2>3, <2>4, <2>5
  <2>7. QED
    BY <1>2, <2>1, <2>6 DEF PagesTypeOK
<1>10. ASSUME NEW p \in Procs, NEW r \in RgIds, NEW n \in 0..(MaxSbrk - 1), Read(p, r, n)
       PROVE  PagesTypeOK' /\ DataOK'
  <2>1. PageOf(Addr(r, n)) \in Pgns
    BY <1>10, AddrType, PageOfType DEF Read
  <2>2. GetPage(PageOf(Addr(r, n))) /\ UNCHANGED <<ram, last, regular>>
    BY <1>10 DEF Read
  <2>3. QED
    BY <1>2, <2>1, <2>2, AccessTypes DEF PagesTypeOK
<1>11. ASSUME NEW p \in Procs, NEW r \in RgIds, NEW n \in 0..(MaxSbrk - 1), NEW v \in Values,
              Write(p, r, n, v)
       PROVE  PagesTypeOK' /\ DataOK'
  <2> DEFINE g   == PageOf(Addr(r, n))
             off == OffsetOf(Addr(r, n))
  <2>1. g \in Pgns /\ off \in Offsets
    BY <1>11, AddrType, PageOfType DEF Write
  <2>2. /\ GetPage(g) /\ ram' = Stored(pte'[g], off, v)
        /\ last' = [last EXCEPT ![r][n] = v] /\ regular' = regular
    BY <1>11 DEF Write
  <2> HIDE DEF g, off
  <2>3. ram' \in [0..(RamFrames - 1) -> Frame]
    BY <1>2, <2>1, <2>2, StoredType
  <2>4. PagesTypeOK'
    BY <1>2, <2>1, <2>2, <2>3, AccessTypes
  <2>5. DataOK'
    BY <1>2, <2>2
  <2>6. QED
    BY <2>4, <2>5
<1>12. ASSUME NEW p \in Procs, NEW r \in RgIds, NEW n \in 0..(MaxSbrk - 1),
              AccessFails(p, r, n)
       PROVE  PagesTypeOK' /\ DataOK'
  <2>1. PageOf(Addr(r, n)) \in Pgns
    BY <1>12, AddrType, PageOfType DEF AccessFails
  <2>2. FaultFails(PageOf(Addr(r, n))) /\ UNCHANGED <<last, regular>>
    BY <1>12 DEF AccessFails
  <2>3. QED
    BY <1>2, <2>1, <2>2, FaultFailsTypes
<1>13. ASSUME UNCHANGED memVars
       PROVE  PagesTypeOK' /\ DataOK'
  BY <1>2, <1>3, <1>13 DEF memVars
<1>14. PagesTypeOK' /\ DataOK'
  BY <1>5, <1>6, <1>7, <1>8, <1>9, <1>10, <1>11, <1>12, <1>13 DEF MemNext
<1>15. QED
  BY <1>1, <1>14 DEF MemTypeOK

-----------------------------------------------------------------------------
(* The frames of the swap device *)

(* The pages that pg_getpage has swapped out. *)
Out == {g \in Swapped : pte[g] # PatternPte}

SwapInv == /\ Distinct(swap_free)
           /\ \A g, h \in Out : PAGING_SWP(pte[g]) = PAGING_SWP(pte[h]) => g = h
           /\ \A g \in Out : PAGING_SWP(pte[g]) \notin ToSet(swap_free)

LEMMA SwapInvOwned == SwapInv => SwapOwned
BY DEF SwapInv, SwapOwned, Out

LEMMA SwapInit == MemInit => SwapInv
<1> SUFFICES ASSUME MemInit PROVE SwapInv
  OBVIOUS
<1>1. Out = {}
  BY DEF MemInit, PagesInit, Out, Swapped, NoPte
<1>2. Distinct(swap_free)
  <2>1. swap_free = [k \in 1..SwapFrames |-> k - 1]
    BY DEF MemInit, PagesInit
  <2>2. Len(swap_free) = SwapFrames
    <3>1. swap_free \in Seq(0..(SwapFrames - 1))
      BY InitTypes DEF MemTypeOK, PagesTypeOK
    <3>2. DOMAIN swap_free = 1..SwapFrames
      BY <2>1
    <3>3. QED
      BY <3>1, <3>2, LenProperties, Bounds
  <2>3. QED
    BY <2>1, <2>2, Bounds DEF Distinct
<1>3. QED
  BY <1>1, <1>2 DEF SwapInv

(* Pages that are not swapped out now. *)
LEMMA SwapKept ==
  ASSUME SwapInv, swap_free' = swap_free,
         \A g \in Pgns : pte'[g] = pte[g] \/ ~pte'[g].swapped \/ pte'[g] = PatternPte
  PROVE  SwapInv'
<1>1. \A g \in Out' : g \in Out /\ pte'[g] = pte[g]
  BY DEF Out, Swapped
<1>2. QED
  BY <1>1 DEF SwapInv

(* The victim of a fault gets a swap frame that nobody has. *)
LEMMA SwapOutOwned ==
  ASSUME SwapInv, PagesTypeOK, NEW g \in Pgns, SwapOut(g)
  PROVE  SwapInv'
<1> DEFINE s == Head(swap_free)
           v == Victim
<1>1. /\ fifo_pgn # <<>> /\ swap_free # <<>>
      /\ pte' = [Evicted EXCEPT ![g] = SetFpn(@, PAGING_FPN(pte[v]))]
      /\ swap_free' = Tail(swap_free)
  BY DEF SwapOut
<1>2. /\ s \in 0..(SwapFrames - 1)
      /\ ToSet(swap_free) = {s} \cup ToSet(Tail(swap_free))
      /\ Distinct(Tail(swap_free)) /\ s \notin ToSet(Tail(swap_free))
  BY <1>1, HeadTailDistinct DEF SwapInv, PagesTypeOK
<1>3. v \in Pgns
  BY <1>1, FrontEntries DEF Victim, PagesTypeOK
<1> HIDE DEF s, v
<1>4. PAGING_SWP(SetSwap(s)) = s
  BY <1>2, SwpOfSet, Bounds
<1>5. ASSUME NEW h \in Pgns
      PROVE  pte'[h] = IF h = g THEN SetFpn(Evicted[g], PAGING_FPN(pte[v]))
                       ELSE IF h = v THEN SetSwap(s) ELSE pte[h]
  BY <1>1, <1>3 DEF Evicted, PagesTypeOK, s, v
<1>6. ASSUME NEW h \in Out'
      PROVE  /\ h \in Pgns
             /\ \/ h = v /\ pte'[h] = SetSwap(s)
                \/ h \in Out /\ pte'[h] = pte[h]
  <2>1. h \in Pgns /\ pte'[h].swapped /\ pte'[h] # PatternPte
    BY <1>6 DEF Out, Swapped
  <2>2. h # g
    BY <1>5, <2>1 DEF SetFpn
  <2>3. QED
    BY <1>5, <2>1, <2>2 DEF Out, Swapped
<1>7. \A h \in Out : PAGING_SWP(pte[h]) # s
  BY <1>2 DEF SwapInv
<1>8. ASSUME NEW h \in Out', NEW k \in Out', PAGING_SWP(pte'[h]) = PAGING_SWP(pte'[k])
      PROVE  h = k
  BY <1>4, <1>6, <1>7, <1>8 DEF SwapInv
<1>9. ASSUME NEW h \in Out' PROVE PAGING_SWP(pte'[h]) \notin ToSet(Tail(swap_free))
  BY <1>2, <1>4, <1>6, <1>9 DEF SwapInv
<1>10. QED
  BY <1>1, <1>2, <1>8, <1>9 DEF SwapInv

(* A growth maps pages with frames: they are in RAM. *)
LEMMA MapRamOwned ==
  ASSUME SwapInv, NEW first, NEW n, MapRam(first, n)
  PROVE  SwapInv'
<1>1. swap_free' = swap_free
  BY DEF MapRam, pageVars
<1>2. ASSUME NEW g \in Pgns PROVE pte'[g] = pte[g] \/ ~pte'[g].swapped
  <2>1. CASE n <= Len(ram_free)
    <3>1. pte' = [h \in Pgns |-> IF h \in first..(first + n - 1)
                                   THEN SetFpn(pte[h], ram_free[n - (h - first)])
                                   ELSE pte[h]]
      BY <2>1 DEF MapRam
    <3>2. QED
      BY <3>1 DEF SetFpn
  <2>2. CASE ~(n <= Len(ram_free))
    BY <2>2 DEF MapRam, pageVars
  <2>3. QED
    BY <2>1, <2>2
<1>3. QED
  BY <1>1, <1>2, SwapKept

LEMMA SwapStep ==
  ASSUME IInv, CallsInv, MemTypeOK, SwapInv, [MemNext]_memVars
  PROVE  SwapInv'
<1>1. UNCHANGED <<pte, swap_free>> => SwapInv'
  BY SwapKept
<1>2. ASSUME NEW p \in Procs,
             \/ \E r \in RgIds, n \in Sizes : MemAllocReuse(p, r, n) \/ MemAllocGrow(p, r, n)
             \/ MemAllocEnd(p)
             \/ \E r \in RgIds : MemFree(p, r)
             \/ \E n \in UserIncs : MemUserInc(p, n)
             \/ MemNotFound(p) \/ MemSysOther(p)
             \/ \E addr \in UserAddrs, v \in Values : UserIoWrite(p, addr, v)
             \/ \E r \in RgIds, n \in 0..(MaxSbrk - 1) : AccessFails(p, r, n)
      PROVE  UNCHANGED <<pte, swap_free>>
  BY <1>2 DEF MemAllocReuse, MemAllocGrow, MemAllocEnd, MemFree, MemUserInc,
              MemNotFound, MemSysOther, UserIoWrite, AccessFails, FaultFails, pageVars
<1>3. ASSUME NEW p \in Procs, MemIncMap(p)
      PROVE  SwapInv'
  BY <1>3, MapRamOwned DEF MemIncMap
<1>4. ASSUME NEW p \in Procs, NEW g \in UserMaps, UserMap(p, g)
      PROVE  SwapInv'
  <2>1. pte' = [pte EXCEPT ![g] = PatternPte] /\ swap_free' = swap_free
    BY <1>4 DEF UserMap
  <2>2. QED
    BY <2>1, SwapKept DEF MemTypeOK, PagesTypeOK
<1>5. ASSUME NEW p \in Procs, NEW r \in RgIds, NEW n \in 0..(MaxSbrk - 1),
             Read(p, r, n) \/ \E v \in Values : Write(p, r, n, v)
      PROVE  SwapInv'
  <2>1. GetPage(PageOf(Addr(r, n))) /\ Accesses(p, r, n)
    BY <1>5 DEF Read, Write
  <2>2. PageOf(Addr(r, n)) \in Pgns
    BY <2>1, AddrType, PageOfType
  <2>3. QED
    BY <1>1, <2>1, <2>2, SwapOutOwned DEF GetPage, MemTypeOK
<1>6. ASSUME UNCHANGED memVars PROVE UNCHANGED <<pte, swap_free>>
  BY <1>6 DEF memVars, pageVars
<1>7. QED
  BY <1>1, <1>2, <1>3, <1>4, <1>5, <1>6 DEF MemNext

-----------------------------------------------------------------------------
(* The frames of RAM *)

FrameOf(g) == PAGING_FPN(pte[g])

(* A frame is free, once, or at one page in RAM, and the FIFO has pages    *)
(* that are in RAM, each once.                                             *)
FramesOK ==
  /\ Distinct(ram_free)
  /\ Distinct(fifo_pgn) /\ ToSet(fifo_pgn) \subseteq Online
  /\ \A g \in Online : FrameOf(g) \in Frames /\ FrameOf(g) \notin ToSet(ram_free)
  /\ \A g, h \in Online : FrameOf(g) = FrameOf(h) => g = h
  /\ \A f \in Frames : f \in ToSet(ram_free) \/ \E g \in Online : FrameOf(g) = f

(* The pages in RAM are pages of the area: vm_map_ram never meets one.     *)
FrameInv == regular => FramesOK /\ \A g \in Online : g < Asked

(* vm_map_ram with frames enough: what becomes of the pages and the lists. *)
LEMMA MapRamEntries ==
  ASSUME PagesTypeOK, NEW first \in Nat, NEW n \in Nat,
         first + n <= MaxPgn + 1, MapRam(first, n), n <= Len(ram_free)
  PROVE  /\ \A g \in Pgns : IF first <= g /\ g < first + n
                              THEN /\ pte'[g].present /\ ~pte'[g].swapped
                                   /\ n - (g - first) \in 1..n
                                   /\ PAGING_FPN(pte'[g]) = ram_free[n - (g - first)]
                              ELSE pte'[g] = pte[g]
         /\ ram_free' \in Seq(Frames) /\ Len(ram_free') = Len(ram_free) - n
         /\ \A k \in 1..(Len(ram_free) - n) : ram_free'[k] = ram_free[n + k]
         /\ fifo_pgn' \in Seq(Pgns) /\ Len(fifo_pgn') = n + Len(fifo_pgn)
         /\ \A k \in 1..(n + Len(fifo_pgn)) :
              fifo_pgn'[k] = IF k <= n THEN first + n - k ELSE fifo_pgn[k - n]
<1>1. /\ pte' = [g \in Pgns |-> IF g \in first..(first + n - 1)
                                  THEN SetFpn(pte[g], ram_free[n - (g - first)])
                                  ELSE pte[g]]
      /\ fifo_pgn' = Entered(first, n) \o fifo_pgn
      /\ ram_free' = SubSeq(ram_free, n + 1, Len(ram_free))
  BY DEF MapRam, Entered
<1>2. /\ ram_free \in Seq(Frames) /\ Len(ram_free) \in Nat
      /\ \A k \in 1..Len(ram_free) : ram_free[k] \in Frames
      /\ fifo_pgn \in Seq(Pgns) /\ Len(fifo_pgn) \in Nat
  BY LenProperties, ElementOfSeq DEF PagesTypeOK, Frames
<1>3. ASSUME NEW g \in Pgns
      PROVE  IF first <= g /\ g < first + n
               THEN /\ pte'[g].present /\ ~pte'[g].swapped
                    /\ n - (g - first) \in 1..n
                    /\ PAGING_FPN(pte'[g]) = ram_free[n - (g - first)]
               ELSE pte'[g] = pte[g]
  <2>1. g \in Nat /\ pte[g] \in Entry
    BY Bounds DEF Pgns, PagesTypeOK
  <2>2. CASE first <= g /\ g < first + n
    <3>1. n - (g - first) \in 1..n /\ g \in first..(first + n - 1)
      BY <2>1, <2>2
    <3>2. ram_free[n - (g - first)] \in Frames
      BY <1>2, <3>1
    <3>3. pte'[g] = SetFpn(pte[g], ram_free[n - (g - first)])
      BY <1>1, <3>1
    <3>4. QED
      BY <2>1, <2>2, <3>1, <3>2, <3>3, FpnOfSet
  <2>3. CASE ~(first <= g /\ g < first + n)
    BY <1>1, <2>1, <2>3
  <2>4. QED
    BY <2>2, <2>3
<1>4. /\ ram_free' \in Seq(Frames) /\ Len(ram_free') = Len(ram_free) - n
      /\ \A k \in 1..(Len(ram_free) - n) : ram_free'[k] = ram_free[n + k]
  <2>1. /\ n + 1 \in Int /\ Len(ram_free) \in Int
        /\ \A k \in (n + 1)..Len(ram_free) : ram_free[k] \in Frames
    BY <1>2
  <2>2. /\ ram_free' \in Seq(Frames)
        /\ Len(ram_free') = IF n + 1 <= Len(ram_free) THEN Len(ram_free) - (n + 1) + 1 ELSE 0
        /\ \A k \in 1..(Len(ram_free) - (n + 1) + 1) : ram_free'[k] = ram_free[(n + 1) + k - 1]
    BY <1>1, <2>1, SubSeqProperties
  <2>3. QED
    BY <1>2, <2>2
<1>5. /\ fifo_pgn' \in Seq(Pgns) /\ Len(fifo_pgn') = n + Len(fifo_pgn)
      /\ \A k \in 1..(n + Len(fifo_pgn)) :
           fifo_pgn'[k] = IF k <= n THEN first + n - k ELSE fifo_pgn[k - n]
  <2>1. /\ Entered(first, n) \in Seq(Pgns) /\ Len(Entered(first, n)) = n
        /\ \A k \in 1..n : Entered(first, n)[k] = first + n - k
    BY EnteredPages
  <2>2. /\ fifo_pgn' \in Seq(Pgns) /\ Len(fifo_pgn') = n + Len(fifo_pgn)
        /\ \A k \in 1..(n + Len(fifo_pgn)) :
             fifo_pgn'[k] = IF k <= n THEN Entered(first, n)[k] ELSE fifo_pgn[k - n]
    <3> DEFINE t == Entered(first, n)
    <3>1. t \in Seq(Pgns) /\ Len(t) = n /\ fifo_pgn \in Seq(Pgns) /\ fifo_pgn' = t \o fifo_pgn
      BY <1>1, <1>2, <2>1
    <3> HIDE DEF t
    <3>2. /\ t \o fifo_pgn \in Seq(Pgns)
          /\ Len(t \o fifo_pgn) = Len(t) + Len(fifo_pgn)
          /\ \A k \in 1..(Len(t) + Len(fifo_pgn)) :
               (t \o fifo_pgn)[k] = IF k <= Len(t) THEN t[k] ELSE fifo_pgn[k - Len(t)]
      BY <3>1, ConcatProperties
    <3>3. QED
      BY <3>1, <3>2 DEF t
  <2>3. QED
    BY <1>2, <2>1, <2>2
<1>6. QED
  BY <1>3, <1>4, <1>5

(* The pages in RAM after it are those before and the ones it maps. *)
LEMMA MapRamOnline ==
  ASSUME PagesTypeOK, NEW first \in Nat, NEW n \in Nat,
         first + n <= MaxPgn + 1, MapRam(first, n), n <= Len(ram_free),
         \A g \in Online : g < first
  PROVE  /\ \A g \in Online' : \/ g \in Online /\ g < first /\ pte'[g] = pte[g]
                               \/ /\ first <= g /\ g < first + n
                                  /\ n - (g - first) \in 1..n
                                  /\ FrameOf(g)' = ram_free[n - (g - first)]
         /\ \A g \in Online : g \in Online' /\ pte'[g] = pte[g]
         /\ \A g \in Nat : first <= g /\ g < first + n => g \in Online'
<1>1. \A g \in Pgns : IF first <= g /\ g < first + n
                        THEN /\ pte'[g].present /\ ~pte'[g].swapped
                             /\ n - (g - first) \in 1..n
                             /\ PAGING_FPN(pte'[g]) = ram_free[n - (g - first)]
                        ELSE pte'[g] = pte[g]
  BY MapRamEntries
<1>2. Online \subseteq Pgns /\ Online' \subseteq Pgns
  BY DEF Online
<1>3. \A g \in Pgns : g \in Nat
  BY Bounds DEF Pgns
<1>4. ASSUME NEW g \in Online'
      PROVE  \/ g \in Online /\ g < first /\ pte'[g] = pte[g]
             \/ /\ first <= g /\ g < first + n
                /\ n - (g - first) \in 1..n
                /\ FrameOf(g)' = ram_free[n - (g - first)]
  <2>1. g \in Pgns /\ pte'[g].present /\ ~pte'[g].swapped
    BY <1>4 DEF Online
  <2>2. CASE first <= g /\ g < first + n
    BY <1>1, <2>1, <2>2 DEF FrameOf
  <2>3. CASE ~(first <= g /\ g < first + n)
    <3>1. pte'[g] = pte[g]
      BY <1>1, <2>1, <2>3
    <3>2. g \in Online
      BY <2>1, <3>1 DEF Online
    <3>3. QED
      BY <3>1, <3>2
  <2>4. QED
    BY <2>2, <2>3
<1>5. ASSUME NEW g \in Online PROVE g \in Online' /\ pte'[g] = pte[g]
  <2>1. g \in Pgns /\ g \in Nat /\ g < first
    BY <1>2, <1>3
  <2>2. pte'[g] = pte[g]
    BY <1>1, <2>1
  <2>3. QED
    BY <2>1, <2>2 DEF Online
<1>6. ASSUME NEW g \in Nat, first <= g, g < first + n PROVE g \in Online'
  <2>1. g \in Pgns
    BY <1>6, Bounds DEF Pgns
  <2>2. QED
    BY <1>1, <1>6, <2>1 DEF Online
<1>7. QED
  BY <1>4, <1>5, <1>6

LEMMA MapRamFrames ==
  ASSUME PagesTypeOK, FramesOK, NEW first \in Nat, NEW n \in Nat,
         first + n <= MaxPgn + 1, MapRam(first, n), \A g \in Online : g < first
  PROVE  FramesOK' /\ \A g \in Online' : g < first + n
<1>1. CASE ~(n <= Len(ram_free))
  <2>1. UNCHANGED pageVars
    BY <1>1 DEF MapRam
  <2>2. Online' = Online
    BY <2>1 DEF pageVars, Online
  <2>3. \A g \in Online : g \in Nat /\ g < first + n
    BY Bounds DEF Online, Pgns
  <2>4. QED
    BY <2>1, <2>2, <2>3 DEF FramesOK, FrameOf, pageVars
<1>2. CASE n <= Len(ram_free)
  <2>1. /\ ram_free \in Seq(Frames) /\ Len(ram_free) \in Nat
        /\ fifo_pgn \in Seq(Pgns) /\ Len(fifo_pgn) \in Nat
    BY LenProperties DEF PagesTypeOK, Frames
  <2>2. /\ ram_free' \in Seq(Frames) /\ Len(ram_free') = Len(ram_free) - n
        /\ \A k \in 1..(Len(ram_free) - n) : ram_free'[k] = ram_free[n + k]
    BY <1>2, MapRamEntries
  <2>3. /\ fifo_pgn' \in Seq(Pgns) /\ Len(fifo_pgn') = n + Len(fifo_pgn)
        /\ \A k \in 1..(n + Len(fifo_pgn)) :
             fifo_pgn'[k] = IF k <= n THEN first + n - k ELSE fifo_pgn[k - n]
    BY <1>2, MapRamEntries
  <2>4. /\ \A g \in Online' : \/ g \in Online /\ g < first /\ pte'[g] = pte[g]
                              \/ /\ first <= g /\ g < first + n
                                 /\ n - (g - first) \in 1..n
                                 /\ FrameOf(g)' = ram_free[n - (g - first)]
        /\ \A g \in Online : g \in Online' /\ pte'[g] = pte[g]
        /\ \A g \in Nat : first <= g /\ g < first + n => g \in Online'
    BY <1>2, MapRamOnline
  <2>5. \A g \in Online : g \in Nat /\ g < first
    BY Bounds DEF Online, Pgns
  <2>6. \A g \in Online' : g \in Nat
    BY Bounds DEF Online, Pgns
  <2>7. \A f : f \in ToSet(ram_free) <=> \E k \in 1..Len(ram_free) : ram_free[k] = f
    BY <2>1, ToSetMembers
  <2>8. \A f : f \in ToSet(ram_free') <=> \E k \in 1..(Len(ram_free) - n) : ram_free[n + k] = f
    <3>1. \A f : f \in ToSet(ram_free') <=> \E k \in 1..Len(ram_free') : ram_free'[k] = f
      BY <2>2, ToSetMembers
    <3>2. QED
      BY <2>2, <3>1
  <2>9. \A g : g \in ToSet(fifo_pgn) <=> \E k \in 1..Len(fifo_pgn) : fifo_pgn[k] = g
    BY <2>1, ToSetMembers
  <2>10. /\ \A j, k \in 1..Len(ram_free) : ram_free[j] = ram_free[k] => j = k
         /\ \A j, k \in 1..Len(fifo_pgn) : fifo_pgn[j] = fifo_pgn[k] => j = k
         /\ \A k \in 1..Len(fifo_pgn) : fifo_pgn[k] \in Online
    BY <2>9 DEF FramesOK, Distinct
  <2>11. Distinct(ram_free)'
    <3>1. ASSUME NEW j \in 1..Len(ram_free'), NEW k \in 1..Len(ram_free'),
                 ram_free'[j] = ram_free'[k]
          PROVE  j = k
      <4>1. /\ j \in 1..(Len(ram_free) - n) /\ k \in 1..(Len(ram_free) - n)
            /\ n + j \in 1..Len(ram_free) /\ n + k \in 1..Len(ram_free)
        BY <1>2, <2>1, <2>2
      <4>2. ram_free[n + j] = ram_free[n + k]
        BY <2>2, <3>1, <4>1
      <4>3. n + j = n + k
        BY <2>10, <4>1, <4>2
      <4>4. QED
        BY <4>1, <4>3
    <3>2. QED
      BY <3>1 DEF Distinct
  <2>12. Distinct(fifo_pgn)'
    <3>1. ASSUME NEW j \in 1..Len(fifo_pgn'), NEW k \in 1..Len(fifo_pgn'),
                 fifo_pgn'[j] = fifo_pgn'[k]
          PROVE  j = k
      <4>1. j \in 1..(n + Len(fifo_pgn)) /\ k \in 1..(n + Len(fifo_pgn))
        BY <2>3
      <4>2. \A i \in 1..(n + Len(fifo_pgn)) :
              i > n => /\ i - n \in 1..Len(fifo_pgn)
                       /\ fifo_pgn'[i] = fifo_pgn[i - n]
                       /\ fifo_pgn'[i] \in Nat /\ fifo_pgn'[i] < first
        BY <2>1, <2>3, <2>5, <2>10
      <4>3. \A i \in 1..(n + Len(fifo_pgn)) :
              i <= n => fifo_pgn'[i] = first + n - i /\ fifo_pgn'[i] >= first
        BY <2>1, <2>3
      <4>4. CASE j > n /\ k > n
        <5>1. j - n \in 1..Len(fifo_pgn) /\ k - n \in 1..Len(fifo_pgn)
              /\ fifo_pgn[j - n] = fifo_pgn[k - n]
          BY <3>1, <4>1, <4>2, <4>4
        <5>2. j - n = k - n
          BY <2>10, <5>1
        <5>3. QED
          BY <2>1, <4>1, <5>2
      <4>5. CASE j <= n /\ k <= n
        BY <2>1, <3>1, <4>1, <4>3, <4>5
      <4>6. CASE ~(j <= n) /\ k <= n
        BY <2>1, <3>1, <4>1, <4>2, <4>3, <4>6
      <4>7. CASE j <= n /\ ~(k <= n)
        BY <2>1, <3>1, <4>1, <4>2, <4>3, <4>7
      <4>8. QED
        BY <2>1, <4>1, <4>4, <4>5, <4>6, <4>7
    <3>2. QED
      BY <3>1 DEF Distinct
  <2>13. (ToSet(fifo_pgn) \subseteq Online)'
    <3>1. ASSUME NEW k \in 1..Len(fifo_pgn') PROVE fifo_pgn'[k] \in Online'
      <4>1. k \in 1..(n + Len(fifo_pgn))
        BY <2>3
      <4>2. CASE k <= n
        <5>1. first + n - k \in Nat /\ first <= first + n - k /\ first + n - k < first + n
          BY <2>1, <4>1, <4>2
        <5>2. first + n - k \in Online'
          BY <2>4, <5>1
        <5>3. QED
          BY <2>3, <4>1, <4>2, <5>2
      <4>3. CASE ~(k <= n)
        <5>1. k - n \in 1..Len(fifo_pgn) /\ fifo_pgn'[k] = fifo_pgn[k - n]
          BY <2>1, <2>3, <4>1, <4>3
        <5>2. QED
          BY <2>4, <2>10, <5>1
      <4>4. QED
        BY <4>2, <4>3
    <3>2. \A g : g \in ToSet(fifo_pgn') <=> \E k \in 1..Len(fifo_pgn') : fifo_pgn'[k] = g
      BY <2>3, ToSetMembers
    <3>3. QED
      BY <3>1, <3>2
  <2>14. \A g \in Online : FrameOf(g)' = FrameOf(g)
    BY <2>4 DEF FrameOf
  <2>15. \A k \in 1..n : k \in 1..Len(ram_free) /\ ram_free[k] \notin ToSet(ram_free')
    <3>1. ASSUME NEW k \in 1..n
          PROVE  k \in 1..Len(ram_free) /\ ram_free[k] \notin ToSet(ram_free')
      <4>1. k \in 1..Len(ram_free)
        BY <1>2, <2>1
      <4>2. \A j \in 1..(Len(ram_free) - n) : n + j \in 1..Len(ram_free) /\ n + j # k
        BY <1>2, <2>1
      <4>3. \A j \in 1..(Len(ram_free) - n) : ram_free[n + j] # ram_free[k]
        BY <2>10, <4>1, <4>2
      <4>4. QED
        BY <2>8, <4>1, <4>3
    <3>2. QED
      BY <3>1
  <2>16. \A f : f \in ToSet(ram_free') => f \in ToSet(ram_free)
    BY <1>2, <2>1, <2>7, <2>8
  <2>17. ASSUME NEW g \in Online'
         PROVE  FrameOf(g)' \in Frames /\ FrameOf(g)' \notin ToSet(ram_free')
    <3>1. CASE g \in Online
      BY <2>14, <2>16, <3>1 DEF FramesOK
    <3>2. CASE g \notin Online
      <4>1. n - (g - first) \in 1..n /\ FrameOf(g)' = ram_free[n - (g - first)]
        BY <2>4, <3>2
      <4>2. \A k \in 1..n : ram_free[k] \in Frames
        BY <2>1, <2>15, ElementOfSeq
      <4>3. QED
        BY <2>15, <4>1, <4>2
    <3>3. QED
      BY <3>1, <3>2
  <2>18. ASSUME NEW g \in Online', NEW h \in Online', FrameOf(g)' = FrameOf(h)'
         PROVE  g = h
    <3>1. \A x \in Online' : x \notin Online =>
            /\ n - (x - first) \in 1..Len(ram_free)
            /\ FrameOf(x)' = ram_free[n - (x - first)]
            /\ FrameOf(x)' \in ToSet(ram_free)
      BY <2>4, <2>7, <2>15
    <3>2. CASE g \in Online /\ h \in Online
      BY <2>14, <2>18, <3>2 DEF FramesOK
    <3>3. CASE g \in Online /\ h \notin Online
      BY <2>14, <2>18, <3>1, <3>3 DEF FramesOK
    <3>4. CASE g \notin Online /\ h \in Online
      BY <2>14, <2>18, <3>1, <3>4 DEF FramesOK
    <3>5. CASE g \notin Online /\ h \notin Online
      <4>1. n - (g - first) = n - (h - first)
        BY <2>10, <2>18, <3>1, <3>5
      <4>2. QED
        BY <2>6, <4>1
    <3>6. QED
      BY <3>2, <3>3, <3>4, <3>5
  <2>19. ASSUME NEW f \in Frames
         PROVE  f \in ToSet(ram_free') \/ \E g \in Online' : FrameOf(g)' = f
    <3>1. CASE \E g \in Online : FrameOf(g) = f
      BY <2>4, <2>14, <3>1
    <3>2. CASE f \in ToSet(ram_free)
      <4>1. PICK k \in 1..Len(ram_free) : ram_free[k] = f
        BY <2>7, <3>2
      <4>2. CASE k <= n
        <5>1. /\ first + n - k \in Nat /\ first <= first + n - k /\ first + n - k < first + n
              /\ n - ((first + n - k) - first) = k
          BY <2>1, <4>2
        <5>2. first + n - k \in Online' /\ first + n - k \notin Online
          BY <2>4, <2>5, <5>1
        <5>3. FrameOf(first + n - k)' = f
          BY <2>4, <4>1, <5>1, <5>2
        <5>4. QED
          BY <5>2, <5>3
      <4>3. CASE ~(k <= n)
        <5>1. k - n \in 1..(Len(ram_free) - n) /\ n + (k - n) = k
          BY <2>1, <4>3
        <5>2. QED
          BY <2>8, <4>1, <5>1
      <4>4. QED
        BY <4>2, <4>3
    <3>3. QED
      BY <3>1, <3>2 DEF FramesOK
  <2>20. \A g \in Online' : g < first + n
    BY <2>4, <2>6
  <2>21. QED
    BY <2>11, <2>12, <2>13, <2>17, <2>18, <2>19, <2>20 DEF FramesOK
<1>3. QED
  BY <1>1, <1>2

(* A fault gives the frame of the victim to the page, which had none. *)
LEMMA SwapOutFrames ==
  ASSUME PagesTypeOK, FramesOK, NEW g \in Pgns, SwapOut(g)
  PROVE  FramesOK' /\ Online' \subseteq Online \cup {g}
<1> DEFINE v == Victim
           f == PAGING_FPN(pte[v])
<1>1. /\ ~pte[g].present /\ fifo_pgn # <<>>
      /\ pte' = [Evicted EXCEPT ![g] = SetFpn(@, f)]
      /\ fifo_pgn' = <<g>> \o Front(fifo_pgn) /\ ram_free' = ram_free
  BY DEF SwapOut, Hit
<1>2. /\ v = Last(fifo_pgn) /\ v \in Pgns
      /\ Front(fifo_pgn) \in Seq(Pgns)
      /\ Distinct(Front(fifo_pgn))
      /\ ToSet(Front(fifo_pgn)) = ToSet(fifo_pgn) \ {v}
      /\ v \in ToSet(fifo_pgn)
  <2>1. fifo_pgn \in Seq(Pgns) /\ Distinct(fifo_pgn)
    BY DEF PagesTypeOK, FramesOK
  <2>2. /\ Len(fifo_pgn) \in Nat \ {0} /\ Last(fifo_pgn) = fifo_pgn[Len(fifo_pgn)]
        /\ Last(fifo_pgn) \in Pgns /\ Front(fifo_pgn) \in Seq(Pgns)
    BY <1>1, <2>1, FrontEntries
  <2>3. Last(fifo_pgn) \in ToSet(fifo_pgn)
    BY <2>1, <2>2, ToSetMembers
  <2>4. QED
    BY <1>1, <2>1, <2>2, <2>3, FrontDistinct DEF Victim
<1>3. v \in Online /\ g \notin Online /\ g # v
  BY <1>1, <1>2 DEF FramesOK, Online
<1>4. f \in Frames
  BY <1>3 DEF FramesOK, FrameOf
<1>5. SetSwap(Head(swap_free)).swapped
  BY DEF SetSwap
<1> HIDE DEF v
<1>6. ASSUME NEW h \in Pgns
      PROVE  pte'[h] = IF h = g THEN SetFpn(pte[g], f)
                       ELSE IF h = v THEN SetSwap(Head(swap_free)) ELSE pte[h]
  BY <1>1, <1>2, <1>3 DEF Evicted, PagesTypeOK, v
<1> HIDE DEF f
<1>7. PAGING_FPN(pte'[g]) = f /\ pte'[g].present /\ ~pte'[g].swapped
  BY <1>4, <1>6, FpnOfSet DEF PagesTypeOK
<1>8. \A h \in Pgns : h \in Online' <=> h = g \/ (h \in Online /\ h # v)
  BY <1>3, <1>5, <1>6, <1>7 DEF Online
<1>9. Online \subseteq Pgns /\ Online' \subseteq Pgns
  BY DEF Online
<1>10. \A h \in Online : h # v => FrameOf(h)' = FrameOf(h)
  BY <1>3, <1>6, <1>9 DEF FrameOf
<1>11. FrameOf(g)' = f /\ FrameOf(v) = f
  BY <1>7 DEF FrameOf, f
<1>12. Distinct(fifo_pgn)' /\ (ToSet(fifo_pgn) \subseteq Online)'
  <2>1. ToSet(Front(fifo_pgn)) \subseteq Online \ {v}
    BY <1>2 DEF FramesOK
  <2>2. /\ ToSet(<<g>> \o Front(fifo_pgn)) = {g} \cup ToSet(Front(fifo_pgn))
        /\ Distinct(<<g>> \o Front(fifo_pgn))
    BY <1>2, <1>3, <2>1, PrependDistinct
  <2>3. Distinct(fifo_pgn)'
    BY <1>1, <2>2 DEF Distinct
  <2>4. ToSet(fifo_pgn') = {g} \cup ToSet(Front(fifo_pgn))
    BY <1>1, <2>2
  <2>5. QED
    BY <1>8, <1>9, <2>1, <2>3, <2>4
<1>13. \A h \in Online' : FrameOf(h)' \in Frames /\ FrameOf(h)' \notin ToSet(ram_free)
  BY <1>3, <1>4, <1>8, <1>9, <1>10, <1>11 DEF FramesOK
<1>14. ASSUME NEW h \in Online', NEW k \in Online', FrameOf(h)' = FrameOf(k)'
       PROVE  h = k
  <2>1. \A x \in Online : x # v => FrameOf(x) # f
    BY <1>3, <1>11 DEF FramesOK
  <2>2. CASE h = g
    BY <1>8, <1>9, <1>10, <1>11, <1>14, <2>1, <2>2
  <2>3. CASE k = g
    BY <1>8, <1>9, <1>10, <1>11, <1>14, <2>1, <2>3
  <2>4. CASE h # g /\ k # g
    <3>1. h \in Online /\ k \in Online /\ FrameOf(h) = FrameOf(k)
      BY <1>8, <1>9, <1>10, <1>14, <2>4
    <3>2. QED
      BY <3>1 DEF FramesOK
  <2>5. QED
    BY <2>2, <2>3, <2>4
<1>15. ASSUME NEW x \in Frames, x \notin ToSet(ram_free)
       PROVE  \E h \in Online' : FrameOf(h)' = x
  <2>1. PICK h \in Online : FrameOf(h) = x
    BY <1>15 DEF FramesOK
  <2>2. CASE h = v
    BY <1>8, <1>11, <2>1, <2>2
  <2>3. CASE h # v
    BY <1>8, <1>9, <1>10, <2>1, <2>3
  <2>4. QED
    BY <2>2, <2>3
<1>16. Distinct(ram_free)'
  BY <1>1 DEF FramesOK, Distinct
<1>17. QED
  BY <1>1, <1>8, <1>9, <1>12, <1>13, <1>14, <1>15, <1>16 DEF FramesOK

LEMMA FaultFailsFrames ==
  ASSUME PagesTypeOK, FramesOK, NEW g \in Pgns, FaultFails(g)
  PROVE  FramesOK' /\ Online' = Online
<1>1. UNCHANGED <<pte, ram_free>>
  BY DEF FaultFails
<1>2. Online' = Online /\ \A h : FrameOf(h)' = FrameOf(h)
  BY <1>1 DEF Online, FrameOf
<1>3. Distinct(fifo_pgn') /\ ToSet(fifo_pgn') \subseteq ToSet(fifo_pgn)
  <2>1. CASE fifo_pgn' = fifo_pgn
    BY <2>1 DEF FramesOK
  <2>2. CASE fifo_pgn # <<>> /\ fifo_pgn' = Front(fifo_pgn)
    BY <2>2, FrontDistinct DEF FramesOK, PagesTypeOK
  <2>3. QED
    BY <2>1, <2>2 DEF FaultFails
<1>4. QED
  BY <1>1, <1>2, <1>3 DEF FramesOK, Distinct

-----------------------------------------------------------------------------
(* The break *)

(***************************************************************************)
(* As long as no region is larger than a frame and no growth has failed,   *)
(* each growth brings a page for the region it is for: the break is within *)
(* as many frames as pages have been asked for, although pages and frames  *)
(* have different sizes.                                                   *)
(***************************************************************************)
BreakOf(p) == call[p].rgid # NULL =>
                /\ call[p].size <= FrameSz
                /\ call[p].inc_sz >= 1
                /\ pc[p] = "back" => sbrk + call[p].size <= Asked * FrameSz

BreakInv == regular => /\ sbrk <= Asked * FrameSz
                       /\ \A p \in Procs : BreakOf(p)

LEMMA MoreFrames ==
  ASSUME NEW k \in Nat, NEW n \in Nat
  PROVE  /\ k * FrameSz \in Nat /\ (k + n) * FrameSz \in Nat
         /\ k * FrameSz <= (k + n) * FrameSz
         /\ n >= 1 => k * FrameSz + FrameSz <= (k + n) * FrameSz
<1>1. FrameSz \in Nat
  BY Bounds
<1>2. k * FrameSz \in Nat /\ n * FrameSz \in Nat
  BY <1>1
<1>3. (k + n) * FrameSz = k * FrameSz + n * FrameSz
  BY <1>1
<1>4. n >= 1 => n * FrameSz >= FrameSz
  BY <1>1
<1>5. QED
  BY <1>1, <1>2, <1>3, <1>4

LEMMA AskedType ==
  ASSUME IInv, CallsInv
  PROVE  Asked \in Nat /\ Asked <= PageCount(vm_end) /\ PageCount(vm_end) \in Nat
<1>1. vm_end \in Nat /\ PageCount(vm_end) \in Nat
  BY PageCountType DEF IInv, TypeOK
<1>2. CASE \A p \in Procs : pc[p] # "map"
  BY <1>1, <1>2 DEF Asked
<1>3. ASSUME NEW p \in Procs, pc[p] = "map"
      PROVE  Asked \in Nat /\ Asked <= PageCount(vm_end)
  <2>1. Asked = PageCount(call[p].old_vm_end)
    BY <1>3, OthersRun, AskedBy
  <2>2. /\ Whole(call[p].old_vm_end)
        /\ vm_end = call[p].old_vm_end + AlignSz(call[p].inc_sz)
    BY <1>3 DEF CallsInv, GrowthOf
  <2>3. PageCount(vm_end) = Asked + PageCount(AlignSz(call[p].inc_sz))
    BY <2>1, <2>2, CallTypes, WholeSum
  <2>4. Asked \in Nat /\ PageCount(AlignSz(call[p].inc_sz)) \in Nat
    BY <2>1, CallTypes
  <2>5. QED
    BY <2>3, <2>4
<1>4. QED
  BY <1>1, <1>2, <1>3

(* What happens once is regular no more. *)
LEMMA RegularThen ==
  ASSUME [MemNext]_memVars, regular'
  PROVE  /\ regular
         /\ ~\E p \in Procs, g \in UserMaps : UserMap(p, g)
         /\ ~\E p \in Procs, addr \in UserAddrs, v \in Values : UserIoWrite(p, addr, v)
<1>1. ASSUME NEW p \in Procs,
             \/ \E r \in RgIds, n \in Sizes : MemAllocReuse(p, r, n) \/ MemAllocGrow(p, r, n)
             \/ MemAllocEnd(p)
             \/ \E r \in RgIds : MemFree(p, r)
             \/ \E n \in UserIncs : MemUserInc(p, n)
             \/ MemIncMap(p) \/ MemNotFound(p) \/ MemSysOther(p)
             \/ \E r \in RgIds, n \in 0..(MaxSbrk - 1) :
                  \/ Read(p, r, n)
                  \/ \E v \in Values : Write(p, r, n, v)
                  \/ AccessFails(p, r, n)
      PROVE  regular
  BY <1>1 DEF MemAllocReuse, MemAllocGrow, MemAllocEnd, MemFree, MemUserInc, MemIncMap,
              MemNotFound, MemSysOther, Read, Write, AccessFails
<1>2. ASSUME NEW p \in Procs, NEW g \in UserMaps, UserMap(p, g) PROVE FALSE
  BY <1>2 DEF UserMap
<1>3. ASSUME NEW p \in Procs, NEW addr \in UserAddrs, NEW v \in Values, UserIoWrite(p, addr, v)
      PROVE  FALSE
  BY <1>3 DEF UserIoWrite
<1>4. UNCHANGED memVars => regular
  BY DEF memVars
<1>5. QED
  BY <1>1, <1>2, <1>3, <1>4 DEF MemNext

LEMMA BreakInit == MemInit => BreakInv
<1> SUFFICES ASSUME MemInit PROVE BreakInv
  OBVIOUS
<1>1. sbrk = 0 /\ \A p \in Procs : call[p].rgid = NULL
  BY DEF MemInit, Init, NoCall
<1>2. Asked * FrameSz = 0
  BY CallsInit, Bounds
<1>3. QED
  BY <1>1, <1>2 DEF BreakInv, BreakOf

(* The region that __alloc wants is no larger than a frame. *)
LEMMA BreakStart ==
  ASSUME IInv, CallsInv, BreakInv, regular,
         NEW p \in Procs, NEW r \in RgIds, NEW n \in Sizes, MemAllocGrow(p, r, n),
         regular', Asked' = Asked
  PROVE  sbrk' <= Asked' * FrameSz /\ \A q \in Procs : BreakOf(q)'
<1> DEFINE pages == (n \div PageSz) + 1
           c     == AllocCall(r, n, pages)
<1>1. /\ mmvm_lock = NULL /\ n <= FrameSz /\ sbrk' = sbrk
      /\ call' = [call EXCEPT ![p] = c] /\ pc' = [pc EXCEPT ![p] = "inc"]
  BY DEF MemAllocGrow, AllocGrow, Goto, area
<1>2. pages >= 1
  <2>1. n \in Nat
    BY RegionsAssumption
  <2>2. n \div PageSz \in Nat
    BY <2>1, PageCountType DEF PageCount
  <2>3. QED
    BY <2>2
<1>3. c.size = n /\ c.inc_sz = pages
  BY DEF AllocCall, NoCall
<1> HIDE DEF c, pages
<1>4. ASSUME NEW q \in Procs PROVE BreakOf(q)'
  <2>1. CASE q = p
    BY <1>1, <1>2, <1>3, <2>1 DEF BreakOf, IInv, TypeOK
  <2>2. CASE q # p
    <3>1. call[q].rgid = NULL
      BY <1>1, RegionsAssumption DEF IInv, AllocInv
    <3>2. QED
      BY <1>1, <2>2, <3>1 DEF BreakOf, IInv, TypeOK
  <2>3. QED
    BY <2>1, <2>2
<1>5. QED
  BY <1>1, <1>4 DEF BreakInv

(* The region is cut from the break, within what has been asked for. *)
LEMMA BreakEnd ==
  ASSUME IInv, CallsInv, BreakInv, regular, NEW p \in Procs, MemAllocEnd(p), Asked' = Asked
  PROVE  sbrk' <= Asked' * FrameSz /\ \A q \in Procs : BreakOf(q)'
<1>1. /\ pc[p] = "back" /\ call[p].rgid # NULL
      /\ sbrk' = NewRegion(p).rg_end /\ call' = [call EXCEPT ![p] = NoCall]
  BY DEF MemAllocEnd, AllocEnd
<1>2. sbrk' = sbrk + call[p].size /\ mmvm_lock = p
  BY <1>1 DEF NewRegion, Region, IInv, AllocInv
<1>3. BreakOf(p)
  BY DEF BreakInv
<1>4. sbrk' <= Asked' * FrameSz
  BY <1>1, <1>2, <1>3 DEF BreakOf
<1>5. ASSUME NEW q \in Procs PROVE call'[q].rgid = NULL
  <2>1. CASE q = p
    BY <1>1, <2>1 DEF NoCall, IInv, TypeOK
  <2>2. CASE q # p
    BY <1>1, <1>2, <2>2 DEF IInv, AllocInv, TypeOK
  <2>3. QED
    BY <2>1, <2>2
<1>6. QED
  BY <1>4, <1>5 DEF BreakOf

(* A growth brings a page at least, which is as much as the region needs. *)
LEMMA BreakGrown ==
  ASSUME IInv, CallsInv, BreakInv, regular, NEW p \in Procs, MemIncMap(p)
  PROVE  sbrk' <= Asked' * FrameSz /\ \A q \in Procs : BreakOf(q)'
<1>1. /\ Asked \in Nat /\ GrowthPages(p) \in Nat
      /\ Asked' = Asked + GrowthPages(p)
      /\ \A q \in Procs : pc[q] # "run" => q = p
  BY MapCalls
<1>2. call' = call /\ sbrk' = sbrk /\ pc' = [pc EXCEPT ![p] = "back"]
  BY DEF MemIncMap, IncMap, Goto, area
<1>3. /\ Asked * FrameSz \in Nat /\ Asked' * FrameSz \in Nat
      /\ Asked * FrameSz <= Asked' * FrameSz
      /\ GrowthPages(p) >= 1 => Asked * FrameSz + FrameSz <= Asked' * FrameSz
  BY <1>1, MoreFrames
<1>4. sbrk \in Nat /\ sbrk <= Asked * FrameSz
  BY DEF BreakInv, IInv, TypeOK
<1>5. sbrk' <= Asked' * FrameSz
  BY <1>2, <1>3, <1>4
<1>6. ASSUME NEW q \in Procs, call[q].rgid # NULL PROVE BreakOf(q)'
  <2>1. call[q].size <= FrameSz /\ call[q].inc_sz >= 1
    BY <1>6 DEF BreakInv, BreakOf
  <2>2. CASE q = p
    <3>1. GrowthPages(p) >= 1
      BY <2>1, <2>2, CallTypes, AlignSzWhole DEF GrowthPages, PageCount
    <3>2. call[q].size \in Nat
      BY CallTypes
    <3>3. sbrk' + call[q].size <= Asked' * FrameSz
      BY <1>2, <1>3, <1>4, <2>1, <3>1, <3>2, Bounds
    <3>4. QED
      BY <1>2, <2>1, <3>3 DEF BreakOf
  <2>3. CASE q # p
    <3>1. pc'[q] = "run"
      BY <1>1, <1>2, <2>3 DEF IInv, TypeOK
    <3>2. QED
      BY <1>2, <2>1, <3>1 DEF BreakOf
  <2>4. QED
    BY <2>2, <2>3
<1>7. QED
  BY <1>2, <1>5, <1>6 DEF BreakOf

LEMMA BreakStep ==
  ASSUME IInv, CallsInv, BreakInv, [MemNext]_memVars
  PROVE  BreakInv'
<1> SUFFICES ASSUME regular' PROVE sbrk' <= Asked' * FrameSz /\ \A q \in Procs : BreakOf(q)'
  BY DEF BreakInv
<1>1. regular
  BY RegularThen
<1>2. Asked' = Asked \/ \E p \in Procs : MemIncMap(p)
  BY CallsStep
<1>3. CASE \E p \in Procs : MemIncMap(p)
  BY <1>1, <1>3, BreakGrown
<1>4. CASE Asked' = Asked
  <2>1. sbrk <= Asked * FrameSz /\ \A q \in Procs : BreakOf(q)
    BY <1>1 DEF BreakInv
  <2>2. ASSUME sbrk' = sbrk, NEW p \in Procs,
               \/ call' = call /\ \A q \in Procs : q # p => pc'[q] = pc[q]
               \/ /\ call'[p].rgid = NULL
                  /\ \A q \in Procs : q # p => pc'[q] = pc[q] /\ call'[q] = call[q],
               pc'[p] # "back" \/ call'[p].rgid = NULL \/ pc'[p] = pc[p]
        PROVE  sbrk' <= Asked' * FrameSz /\ \A q \in Procs : BreakOf(q)'
    BY <1>4, <2>1, <2>2 DEF BreakOf
  <2>3. ASSUME NEW p \in Procs, NEW r \in RgIds, NEW n \in Sizes, MemAllocReuse(p, r, n)
        PROVE  sbrk' = sbrk /\ call' = call /\ pc' = pc
    BY <2>3 DEF MemAllocReuse, AllocReuse
  <2>4. ASSUME NEW p \in Procs,
               \/ \E r \in RgIds : MemFree(p, r)
               \/ \E g \in UserMaps : UserMap(p, g)
               \/ \E addr \in UserAddrs, v \in Values : UserIoWrite(p, addr, v)
               \/ \E r \in RgIds, n \in 0..(MaxSbrk - 1) :
                    \/ Read(p, r, n)
                    \/ \E v \in Values : Write(p, r, n, v)
                    \/ AccessFails(p, r, n)
        PROVE  sbrk' = sbrk /\ call' = call /\ pc' = pc
    BY <2>4 DEF MemFree, Free, UserMap, UserIoWrite, Read, Write, AccessFails, vars, area
  <2>5. UNCHANGED memVars => sbrk' = sbrk /\ call' = call /\ pc' = pc
    BY DEF memVars, vars, area
  <2>6. ASSUME NEW p \in Procs, NEW n \in UserIncs, MemUserInc(p, n)
        PROVE  /\ sbrk' = sbrk /\ call'[p].rgid = NULL
               /\ \A q \in Procs : q # p => pc'[q] = pc[q] /\ call'[q] = call[q]
    BY <2>6 DEF MemUserInc, UserInc, Goto, area, NoCall, IInv, TypeOK
  <2>7. ASSUME NEW p \in Procs, UserIncEnd(p)
        PROVE  /\ sbrk' = sbrk /\ call'[p].rgid = NULL
               /\ \A q \in Procs : q # p => pc'[q] = pc[q] /\ call'[q] = call[q]
    BY <2>7 DEF UserIncEnd, Goto, area, NoCall, IInv, TypeOK
  <2>8. ASSUME NEW p \in Procs, MemNotFound(p)
        PROVE  /\ sbrk' = sbrk /\ call' = call /\ call'[p].rgid = NULL
               /\ \A q \in Procs : q # p => pc'[q] = pc[q]
    <3>1. call[p].rgid = NULL
      BY <2>8 DEF MemNotFound
    <3>2. QED
      BY <2>8, <3>1 DEF MemNotFound, NotFound, Goto, area, IInv, TypeOK
  <2>9. ASSUME NEW p \in Procs, IncRead(p) \/ IncAdd(p) \/ IncWrite(p)
        PROVE  sbrk' <= Asked' * FrameSz /\ \A q \in Procs : BreakOf(q)'
    <3>1. sbrk' = sbrk
      BY <2>9 DEF IncRead, IncAdd, IncWrite, area
    <3>2. /\ pc'[p] # "back" /\ \A q \in Procs : q # p => pc'[q] = pc[q]
          /\ \A q \in Procs : /\ call'[q].rgid = call[q].rgid
                              /\ call'[q].size = call[q].size
                              /\ call'[q].inc_sz = call[q].inc_sz
      <4>1. CASE IncRead(p)
        BY <4>1 DEF IncRead, Goto, IInv, TypeOK
      <4>2. CASE IncAdd(p)
        BY <4>2 DEF IncAdd, Goto, IInv, TypeOK
      <4>3. CASE IncWrite(p)
        BY <4>3 DEF IncWrite, Goto, IInv, TypeOK
      <4>4. QED
        BY <2>9, <4>1, <4>2, <4>3
    <3>3. QED
      BY <1>4, <2>1, <3>1, <3>2 DEF BreakOf
  <2>10. ASSUME NEW p \in Procs, NEW r \in RgIds, NEW n \in Sizes, MemAllocGrow(p, r, n)
         PROVE  sbrk' <= Asked' * FrameSz /\ \A q \in Procs : BreakOf(q)'
    BY <1>1, <1>4, <2>10, BreakStart
  <2>11. ASSUME NEW p \in Procs, MemAllocEnd(p)
         PROVE  sbrk' <= Asked' * FrameSz /\ \A q \in Procs : BreakOf(q)'
    BY <1>1, <1>4, <2>11, BreakEnd
  <2>12. sbrk' = sbrk /\ call' = call /\ pc' = pc
           => sbrk' <= Asked' * FrameSz /\ \A q \in Procs : BreakOf(q)'
    BY <1>4, <2>1 DEF BreakOf
  <2>13. QED
    BY <1>3, <2>2, <2>3, <2>4, <2>5, <2>6, <2>7, <2>8, <2>9, <2>10, <2>11, <2>12
       DEF MemNext, MemSysOther
<1>5. QED
  BY <1>2, <1>3, <1>4

-----------------------------------------------------------------------------
(* Frames, pages and accesses *)

(* The page of an address, below the k-th frame. *)
LEMMA PageBelow ==
  ASSUME NEW a \in Nat, NEW k \in Nat, a < k * FrameSz
  PROVE  /\ PageOf(a) < k
         /\ k <= BusPgns => PageOf(a) = a \div FrameSz
<1>1. \A q \in Nat : q \div FrameSz \in Nat
  BY Bounds
<1>2. \A q \in Nat : q % BusPgns \in Nat /\ q % BusPgns <= q
  BY Bounds
<1>3. \A q \in Nat : q < BusPgns => q % BusPgns = q
  BY Bounds
<1>4. a \div FrameSz \in Nat /\ a \div FrameSz < k
  BY <1>1, Bounds, QuotientBelow
<1> HIDE DEF PageOf
<1> DEFINE q == a \div FrameSz
<1>5. PageOf(a) = q % BusPgns
  BY DEF PageOf
<1> HIDE DEF q
<1>6. q \in Nat /\ q < k
  BY <1>4 DEF q
<1>7. PageOf(a) < k
  BY <1>2, <1>5, <1>6
<1>8. k <= BusPgns => PageOf(a) = q
  BY <1>3, <1>5, <1>6, Bounds
<1>9. QED
  BY <1>7, <1>8 DEF q

(* An access is to a page that has been asked for. *)
LEMMA AccessPage ==
  ASSUME IInv, CallsInv, BreakInv, regular,
         NEW p \in Procs, NEW r \in RgIds, NEW n \in 0..(MaxSbrk - 1), Accesses(p, r, n)
  PROVE  PageOf(Addr(r, n)) \in Pgns /\ PageOf(Addr(r, n)) < Asked
<1>1. Addr(r, n) \in Nat /\ Addr(r, n) < sbrk
  BY AddrType
<1>2. sbrk \in Nat /\ sbrk <= Asked * FrameSz /\ Asked \in Nat
  BY AskedType DEF BreakInv, IInv, TypeOK
<1>3. Asked * FrameSz \in Nat
  BY <1>2, Bounds
<1>4. Addr(r, n) < Asked * FrameSz
  BY <1>1, <1>2, <1>3
<1>5. QED
  BY <1>1, <1>2, <1>4, PageBelow, PageOfType

(* The steps that leave the page table and the lists alone. *)
LEMMA PagesKept ==
  ASSUME [MemNext]_memVars, regular',
         ~\E p \in Procs : MemIncMap(p),
         ~\E p \in Procs, r \in RgIds, n \in 0..(MaxSbrk - 1) :
            \/ Read(p, r, n)
            \/ \E v \in Values : Write(p, r, n, v)
            \/ AccessFails(p, r, n)
  PROVE  UNCHANGED pageVars
<1>1. /\ ~\E p \in Procs, g \in UserMaps : UserMap(p, g)
      /\ ~\E p \in Procs, addr \in UserAddrs, v \in Values : UserIoWrite(p, addr, v)
  BY RegularThen
<1>2. ASSUME NEW p \in Procs,
             \/ \E r \in RgIds, n \in Sizes : MemAllocReuse(p, r, n) \/ MemAllocGrow(p, r, n)
             \/ MemAllocEnd(p)
             \/ \E r \in RgIds : MemFree(p, r)
             \/ \E n \in UserIncs : MemUserInc(p, n)
             \/ MemNotFound(p) \/ MemSysOther(p)
      PROVE  UNCHANGED pageVars
  BY <1>2 DEF MemAllocReuse, MemAllocGrow, MemAllocEnd, MemFree, MemUserInc,
              MemNotFound, MemSysOther
<1>3. UNCHANGED memVars => UNCHANGED pageVars
  BY DEF memVars
<1>4. QED
  BY <1>1, <1>2, <1>3 DEF MemNext

LEMMA FrameInit == MemInit => FrameInv
<1> SUFFICES ASSUME MemInit PROVE FrameInv
  OBVIOUS
<1>1. Online = {} /\ fifo_pgn = <<>>
  BY DEF MemInit, PagesInit, Online, NoPte
<1>2. ram_free = [k \in 1..RamFrames |-> k - 1]
  BY DEF MemInit, PagesInit
<1>3. Len(ram_free) = RamFrames
  <2>1. ram_free \in Seq(Frames)
    BY InitTypes DEF MemTypeOK, PagesTypeOK, Frames
  <2>2. DOMAIN ram_free = 1..RamFrames
    BY <1>2
  <2>3. QED
    BY <2>1, <2>2, LenProperties, Bounds
<1>4. Distinct(ram_free)
  BY <1>2, <1>3, Bounds DEF Distinct
<1>5. Distinct(fifo_pgn) /\ ToSet(fifo_pgn) = {}
  BY <1>1 DEF Distinct, ToSet
<1>6. ASSUME NEW f \in Frames PROVE f \in ToSet(ram_free)
  <2>1. f + 1 \in 1..RamFrames /\ ram_free[f + 1] = f
    BY <1>2, Bounds DEF Frames
  <2>2. DOMAIN ram_free = 1..RamFrames
    BY <1>2
  <2>3. QED
    BY <2>1, <2>2 DEF ToSet
<1>7. QED
  BY <1>1, <1>4, <1>5, <1>6 DEF FrameInv, FramesOK

LEMMA FrameStep ==
  ASSUME IInv, CallsInv, BreakInv, MemTypeOK, FrameInv, [MemNext]_memVars
  PROVE  FrameInv'
<1> SUFFICES ASSUME regular' PROVE FramesOK' /\ \A g \in Online' : g < Asked'
  BY DEF FrameInv
<1>1. regular
  BY RegularThen
<1>2. FramesOK /\ \A g \in Online : g < Asked
  BY <1>1 DEF FrameInv
<1>3. PagesTypeOK
  BY DEF MemTypeOK
<1>4. ASSUME NEW p \in Procs, MemIncMap(p)
      PROVE  FramesOK' /\ \A g \in Online' : g < Asked'
  <2>1. /\ Asked \in Nat /\ GrowthPages(p) \in Nat /\ MapRam(Asked, GrowthPages(p))
        /\ Asked' = Asked + GrowthPages(p)
    BY <1>4, MapCalls
  <2>2. Asked + GrowthPages(p) <= MaxPgn + 1
    BY <1>4, GrowthFits
  <2>3. QED
    BY <1>2, <1>3, <2>1, <2>2, MapRamFrames
<1>5. ASSUME NEW p \in Procs, NEW r \in RgIds, NEW n \in 0..(MaxSbrk - 1),
             \/ Read(p, r, n)
             \/ \E v \in Values : Write(p, r, n, v)
             \/ AccessFails(p, r, n)
      PROVE  FramesOK' /\ \A g \in Online' : g < Asked'
  <2> DEFINE g == PageOf(Addr(r, n))
  <2>1. Accesses(p, r, n) /\ (GetPage(g) \/ FaultFails(g)) /\ UNCHANGED vars
    BY <1>5 DEF Read, Write, AccessFails
  <2>2. g \in Pgns /\ g < Asked
    BY <1>1, <2>1, AccessPage
  <2>3. Asked' = Asked
    BY <2>1, QuietCalls DEF vars
  <2> HIDE DEF g
  <2>4. CASE SwapOut(g)
    BY <1>2, <1>3, <2>2, <2>3, <2>4, SwapOutFrames
  <2>5. CASE FaultFails(g)
    BY <1>2, <1>3, <2>2, <2>3, <2>5, FaultFailsFrames
  <2>6. CASE UNCHANGED <<pte, fifo_pgn, ram_free, swap_free>>
    BY <1>2, <2>3, <2>6 DEF FramesOK, FrameOf, Online
  <2>7. QED
    BY <2>1, <2>4, <2>5, <2>6 DEF GetPage
<1>6. CASE /\ ~\E p \in Procs : MemIncMap(p)
           /\ ~\E p \in Procs, r \in RgIds, n \in 0..(MaxSbrk - 1) :
                 \/ Read(p, r, n)
                 \/ \E v \in Values : Write(p, r, n, v)
                 \/ AccessFails(p, r, n)
  <2>1. UNCHANGED pageVars
    BY <1>6, PagesKept
  <2>2. Asked' = Asked
    BY <1>6, CallsStep
  <2>3. QED
    BY <1>2, <2>1, <2>2 DEF FramesOK, FrameOf, Online, pageVars
<1>7. QED
  BY <1>4, <1>5, <1>6

(* One page has a frame: the pages with it are a set of one element. *)
LEMMA FramesAreAccounted ==
  ASSUME PagesTypeOK, FrameInv
  PROVE  FramesAccounted
<1> SUFFICES ASSUME regular
             PROVE  /\ IsInjective(ram_free)
                    /\ \A f \in DOMAIN ram :
                         IF f \in ToSet(ram_free)
                           THEN \A g \in Online : PAGING_FPN(pte[g]) # f
                           ELSE Cardinality({g \in Online : PAGING_FPN(pte[g]) = f}) = 1
  BY DEF FramesAccounted
<1>1. FramesOK /\ DOMAIN ram = Frames
  BY DEF FrameInv, PagesTypeOK, Frames
<1>2. IsInjective(ram_free)
  <2>1. ram_free \in Seq(Frames)
    BY DEF PagesTypeOK, Frames
  <2>2. DOMAIN ram_free = 1..Len(ram_free)
    BY <2>1, LenProperties
  <2>3. QED
    BY <1>1, <2>2 DEF FramesOK, Distinct, IsInjective
<1>3. ASSUME NEW f \in Frames, f \notin ToSet(ram_free)
      PROVE  Cardinality({g \in Online : PAGING_FPN(pte[g]) = f}) = 1
  <2>1. PICK h \in Online : FrameOf(h) = f
    BY <1>1, <1>3 DEF FramesOK
  <2>2. \A g \in Online : FrameOf(g) = f => g = h
    BY <1>1, <2>1 DEF FramesOK
  <2>3. {g \in Online : PAGING_FPN(pte[g]) = f} = {h}
    BY <2>1, <2>2 DEF FrameOf
  <2>4. QED
    BY <2>3, FS_Singleton
<1>4. QED
  BY <1>1, <1>2, <1>3 DEF FramesOK, FrameOf

-----------------------------------------------------------------------------
(* What the area is backed by *)

(* While RAM has a frame for every page, the pages that have been asked    *)
(* for are in RAM, and the frames that are left are free.                  *)
CoverInv ==
  regular /\ RamSuffices => /\ \A g \in 0..(Asked - 1) : g \in Online
                            /\ Len(ram_free) + Asked = RamFrames

LEMMA AskedFits ==
  ASSUME IInv, CallsInv, RamSuffices
  PROVE  Asked \in Nat /\ Asked <= RamFrames /\ PageCount(vm_end) <= RamFrames
<1>1. vm_end \in Nat /\ Whole(vm_end) /\ vm_end <= RamFrames * PageSz
  BY DEF IInv, TypeOK, CallsInv, RamSuffices
<1>2. PageCount(vm_end) <= RamFrames
  BY <1>1, WholeAtMost, Bounds
<1>3. QED
  BY <1>2, AskedType, Bounds

(* The bytes below the break, and so those of the regions. *)
LEMMA BytesBacked ==
  ASSUME IInv, CallsInv, BreakInv, CoverInv, regular, RamSuffices,
         NEW a \in Nat, a < sbrk
  PROVE  PageOf(a) \in Online /\ PageOf(a) = a \div FrameSz
<1>1. Asked \in Nat /\ Asked <= RamFrames /\ Asked <= BusPgns
  BY AskedFits, Bounds
<1>2. sbrk \in Nat /\ sbrk <= Asked * FrameSz /\ Asked * FrameSz \in Nat
  BY <1>1, Bounds DEF BreakInv, IInv, TypeOK
<1>3. a < Asked * FrameSz
  BY <1>2
<1>4. PageOf(a) < Asked /\ PageOf(a) = a \div FrameSz
  BY <1>1, <1>3, PageBelow
<1>5. PageOf(a) \in Nat
  BY PageOfType, Bounds DEF Pgns
<1>6. PageOf(a) \in 0..(Asked - 1)
  BY <1>1, <1>4, <1>5
<1>7. QED
  BY <1>4, <1>6 DEF CoverInv

(* The limit of the area is never lowered. *)
LEMMA LimitGrows ==
  ASSUME IInv, CallsInv, [MemNext]_memVars
  PROVE  vm_end' \in Nat /\ vm_end <= vm_end'
<1>1. vm_end \in Nat
  BY DEF IInv, TypeOK
<1>2. ASSUME NEW p \in Procs, IncWrite(p)
      PROVE  vm_end' \in Nat /\ vm_end <= vm_end'
  <2>1. vm_end' = vm_end + AlignSz(call[p].inc_sz)
    BY <1>2 DEF IncWrite, CallsInv, GrowthOf
  <2>2. QED
    BY <1>1, <2>1, CallTypes
<1>3. CASE vm_end' = vm_end
  BY <1>1, <1>3
<1>4. ASSUME NEW p \in Procs,
             \/ \E r \in RgIds, n \in Sizes : AllocReuse(p, r, n) \/ AllocGrow(p, r, n)
             \/ \E r \in RgIds : Free(p, r)
             \/ \E n \in UserIncs : UserInc(p, n)
             \/ AllocEnd(p) \/ UserIncEnd(p)
             \/ NotFound(p) \/ IncRead(p) \/ IncAdd(p) \/ IncMap(p)
      PROVE  vm_end' = vm_end
  BY <1>4 DEF AllocReuse, AllocGrow, Free, UserInc, AllocEnd, UserIncEnd,
              NotFound, IncRead, IncAdd, IncMap
<1>5. UNCHANGED vars => vm_end' = vm_end
  BY DEF vars
<1>6. [Next]_vars
  BY MemoryIsRegions
<1>7. QED
  BY <1>2, <1>3, <1>4, <1>5, <1>6 DEF Next, SysNext

LEMMA RamSufficed ==
  ASSUME IInv, CallsInv, [MemNext]_memVars, RamSuffices'
  PROVE  RamSuffices
<1>1. vm_end \in Nat /\ vm_end' \in Nat /\ vm_end <= vm_end'
  BY LimitGrows DEF IInv, TypeOK
<1>2. RamFrames * PageSz \in Nat
  BY Bounds
<1>3. QED
  BY <1>1, <1>2 DEF RamSuffices

LEMMA CoverInit == MemInit => CoverInv
<1> SUFFICES ASSUME MemInit PROVE CoverInv
  OBVIOUS
<1>1. Asked = 0
  BY CallsInit
<1>2. Len(ram_free) = RamFrames
  <2>1. ram_free \in Seq(Frames)
    BY InitTypes DEF MemTypeOK, PagesTypeOK, Frames
  <2>2. DOMAIN ram_free = 1..RamFrames
    BY DEF MemInit, PagesInit
  <2>3. QED
    BY <2>1, <2>2, LenProperties, Bounds
<1>3. QED
  BY <1>1, <1>2, Bounds DEF CoverInv

(* An access finds its page, and leaves the lists as they are. *)
LEMMA AccessHits ==
  ASSUME IInv, CallsInv, BreakInv, CoverInv, regular, RamSuffices,
         NEW p \in Procs, NEW r \in RgIds, NEW n \in 0..(MaxSbrk - 1), Accesses(p, r, n)
  PROVE  LET g == PageOf(Addr(r, n))
         IN  /\ g \in Online /\ ~FaultFails(g)
             /\ GetPage(g) => UNCHANGED <<pte, fifo_pgn, ram_free, swap_free>>
<1>1. PageOf(Addr(r, n)) \in Online
  BY AddrType, BytesBacked
<1>2. Hit(PageOf(Addr(r, n)))
  BY <1>1 DEF Hit, Online
<1>3. QED
  BY <1>1, <1>2 DEF FaultFails, GetPage, SwapOut

(* A growth gets all the frames it asks for. *)
LEMMA GrowthServed ==
  ASSUME IInv, CallsInv, CoverInv, regular, RamSuffices, NEW p \in Procs, MemIncMap(p)
  PROVE  GrowthPages(p) <= Len(ram_free)
<1>1. /\ Asked \in Nat /\ GrowthPages(p) \in Nat
      /\ Asked + GrowthPages(p) = PageCount(vm_end)
  BY MapCalls
<1>2. PageCount(vm_end) <= RamFrames
  BY AskedFits
<1>3. Len(ram_free) + Asked = RamFrames
  BY DEF CoverInv
<1>4. Len(ram_free) = RamFrames - Asked
  BY <1>1, <1>3, Bounds
<1>5. QED
  BY <1>1, <1>2, <1>4, Bounds

LEMMA CoverStep ==
  ASSUME IInv, CallsInv, BreakInv, MemTypeOK, FrameInv, CoverInv, [MemNext]_memVars
  PROVE  CoverInv'
<1> SUFFICES ASSUME regular', RamSuffices'
             PROVE  /\ \A g \in 0..(Asked' - 1) : g \in Online'
                    /\ Len(ram_free') + Asked' = RamFrames
  BY DEF CoverInv
<1>1. regular /\ RamSuffices
  BY RegularThen, RamSufficed
<1>2. /\ \A g \in 0..(Asked - 1) : g \in Online
      /\ Len(ram_free) + Asked = RamFrames
  BY <1>1 DEF CoverInv
<1>3. PagesTypeOK
  BY DEF MemTypeOK
<1>4. CASE UNCHANGED <<pte, ram_free>> /\ Asked' = Asked
  BY <1>2, <1>4 DEF Online
<1>5. ASSUME NEW p \in Procs, MemIncMap(p)
      PROVE  /\ \A g \in 0..(Asked' - 1) : g \in Online'
             /\ Len(ram_free') + Asked' = RamFrames
  <2> DEFINE k == GrowthPages(p)
  <2>1. /\ Asked \in Nat /\ k \in Nat /\ MapRam(Asked, k)
        /\ Asked' = Asked + k
    BY <1>5, MapCalls
  <2>2. Asked + k <= MaxPgn + 1 /\ k <= Len(ram_free)
    BY <1>1, <1>5, GrowthFits, GrowthServed
  <2>3. \A g \in Online : g < Asked
    BY <1>1 DEF FrameInv
  <2> HIDE DEF k
  <2>4. Len(ram_free') = Len(ram_free) - k
    BY <1>3, <2>1, <2>2, MapRamEntries
  <2>5. /\ \A g \in Online : g \in Online'
        /\ \A g \in Nat : Asked <= g /\ g < Asked + k => g \in Online'
    BY <1>3, <2>1, <2>2, <2>3, MapRamOnline
  <2>6. ASSUME NEW g \in 0..(Asked' - 1) PROVE g \in Online'
    <3>1. g \in Nat /\ g < Asked + k
      BY <2>1
    <3>2. CASE g < Asked
      BY <1>2, <2>1, <2>5, <3>1, <3>2
    <3>3. CASE ~(g < Asked)
      BY <2>1, <2>5, <3>1, <3>3
    <3>4. QED
      BY <3>2, <3>3
  <2>7. Len(ram_free') + Asked' = RamFrames
    <3>1. Len(ram_free) \in Nat
      BY <1>3, LenProperties DEF PagesTypeOK
    <3>2. QED
      BY <1>2, <2>1, <2>4, <3>1, Bounds
  <2>8. QED
    BY <2>6, <2>7
<1>6. ASSUME NEW p \in Procs, NEW r \in RgIds, NEW n \in 0..(MaxSbrk - 1),
             \/ Read(p, r, n)
             \/ \E v \in Values : Write(p, r, n, v)
             \/ AccessFails(p, r, n)
      PROVE  UNCHANGED <<pte, ram_free>> /\ Asked' = Asked
  <2> DEFINE g == PageOf(Addr(r, n))
  <2>1. Accesses(p, r, n) /\ (GetPage(g) \/ FaultFails(g)) /\ UNCHANGED vars
    BY <1>6 DEF Read, Write, AccessFails
  <2>2. Asked' = Asked
    BY <2>1, QuietCalls DEF vars
  <2>3. QED
    BY <1>1, <2>1, <2>2, AccessHits
<1>7. CASE /\ ~\E p \in Procs : MemIncMap(p)
           /\ ~\E p \in Procs, r \in RgIds, n \in 0..(MaxSbrk - 1) :
                 \/ Read(p, r, n)
                 \/ \E v \in Values : Write(p, r, n, v)
                 \/ AccessFails(p, r, n)
  <2>1. UNCHANGED pageVars
    BY <1>7, PagesKept
  <2>2. Asked' = Asked
    BY <1>7, CallsStep
  <2>3. QED
    BY <1>4, <2>1, <2>2 DEF pageVars
<1>8. QED
  BY <1>4, <1>5, <1>6, <1>7

LEMMA RegionsBacked ==
  ASSUME IInv, CallsInv, BreakInv, CoverInv
  PROVE  Backed
<1> SUFFICES ASSUME regular, RamSuffices, NEW r \in RgIds, NEW b \in Bytes(symrgtbl[r])
             PROVE  PageOf(b) \in Online
  BY DEF Backed
<1>1. symrgtbl[r] \in Rgs /\ symrgtbl[r].rg_end <= sbrk /\ sbrk \in Nat
  BY DEF IInv, TypeOK, Rgs, NoOverlap, BelowBreak
<1>2. b \in Nat /\ b < sbrk
  BY <1>1 DEF Bytes, Rgs
<1>3. QED
  BY <1>2, BytesBacked

-----------------------------------------------------------------------------
(* What was written *)

(* What a region remembers was written within it. *)
WithinInv == \A r \in RgIds, n \in 0..(MaxSbrk - 1) :
               last[r][n] # NULL => n < symrgtbl[r].rg_end - symrgtbl[r].rg_start

(* While the regions are backed, it is what RAM has at its address. *)
BytesInv == regular /\ RamSuffices =>
              \A r \in RgIds, n \in 0..(MaxSbrk - 1) :
                last[r][n] # NULL => ByteAt(Addr(r, n)) = last[r][n]

LEMMA DataInit == MemInit => WithinInv /\ BytesInv
BY DEF MemInit, NoData, WithinInv, BytesInv

(* Regions change only when what was written to them is forgotten. *)
LEMMA RegionsChanged ==
  ASSUME IInv, MemTypeOK, [MemNext]_memVars,
         ~\E p \in Procs, r \in RgIds, n \in 0..(MaxSbrk - 1), v \in Values : Write(p, r, n, v),
         NEW r \in RgIds, NEW n \in 0..(MaxSbrk - 1), last'[r][n] # NULL
  PROVE  last'[r][n] = last[r][n] /\ symrgtbl'[r] = symrgtbl[r]
<1> DEFINE Goal == last'[r][n] = last[r][n] /\ symrgtbl'[r] = symrgtbl[r]
<1>1. /\ last \in [RgIds -> [0..(MaxSbrk - 1) -> Values \cup {NULL}]]
      /\ symrgtbl \in [RgIds -> Rgs]
  BY DEF MemTypeOK, IInv, TypeOK, Rgs
<1>2. NoData[n] = NULL
  BY DEF NoData
<1>3. ASSUME NEW q \in RgIds, NEW rg,
             symrgtbl' = [symrgtbl EXCEPT ![q] = rg], Forget(q)
      PROVE  Goal
  <2>1. last' = [last EXCEPT ![q] = NoData]
    BY <1>3 DEF Forget
  <2>2. r # q
    BY <1>1, <1>2, <2>1
  <2>3. QED
    BY <1>1, <1>3, <2>1, <2>2
<1>4. ASSUME NEW p \in Procs, NEW q \in RgIds, NEW m \in Sizes, MemAllocReuse(p, q, m)
      PROVE  Goal
  BY <1>3, <1>4 DEF MemAllocReuse, AllocReuse, SetSymbol
<1>5. ASSUME NEW p \in Procs, MemAllocEnd(p) PROVE Goal
  <2>1. call[p].rgid \in RgIds
    BY <1>5 DEF MemAllocEnd, AllocEnd, IInv, TypeOK
  <2>2. Forget(call[p].rgid) /\ SetSymbol(call[p].rgid, NewRegion(p))
    BY <1>5 DEF MemAllocEnd, AllocEnd
  <2>3. QED
    BY <1>3, <2>1, <2>2 DEF SetSymbol
<1>6. ASSUME NEW p \in Procs, NEW q \in RgIds, MemFree(p, q) PROVE Goal
  BY <1>3, <1>6 DEF MemFree, Free
<1>7. ASSUME NEW p \in Procs,
             \/ \E q \in RgIds, m \in Sizes : MemAllocGrow(p, q, m)
             \/ \E m \in UserIncs : MemUserInc(p, m)
             \/ MemIncMap(p) \/ MemNotFound(p)
             \/ IncRead(p) \/ IncAdd(p) \/ IncWrite(p) \/ UserIncEnd(p)
      PROVE  symrgtbl' = symrgtbl
  BY <1>7 DEF MemAllocGrow, MemUserInc, MemIncMap, MemNotFound, AllocGrow, UserInc, IncMap,
              NotFound, IncRead, IncAdd, IncWrite, UserIncEnd, area
<1>8. ASSUME NEW p \in Procs,
             \/ \E q \in RgIds, m \in Sizes : MemAllocGrow(p, q, m)
             \/ \E m \in UserIncs : MemUserInc(p, m)
             \/ MemIncMap(p) \/ MemNotFound(p) \/ MemSysOther(p)
      PROVE  last' = last
  BY <1>8 DEF MemAllocGrow, MemUserInc, MemIncMap, MemNotFound, MemSysOther
<1>9. ASSUME NEW p \in Procs,
             \/ \E g \in UserMaps : UserMap(p, g)
             \/ \E addr \in UserAddrs, v \in Values : UserIoWrite(p, addr, v)
             \/ \E q \in RgIds, m \in 0..(MaxSbrk - 1) : Read(p, q, m) \/ AccessFails(p, q, m)
      PROVE  Goal
  BY <1>9 DEF UserMap, UserIoWrite, Read, AccessFails, vars, area
<1>10. UNCHANGED memVars => Goal
  BY DEF memVars, vars, area
<1> HIDE DEF Goal
<1>11. last' = last /\ symrgtbl' = symrgtbl => Goal
  BY DEF Goal
<1>12. Goal
  BY <1>4, <1>5, <1>6, <1>7, <1>8, <1>9, <1>10, <1>11 DEF MemNext, MemSysOther
<1>13. QED
  BY <1>12 DEF Goal

LEMMA WithinStep ==
  ASSUME IInv, MemTypeOK, WithinInv, [MemNext]_memVars
  PROVE  WithinInv'
<1> SUFFICES ASSUME NEW r \in RgIds, NEW n \in 0..(MaxSbrk - 1), last'[r][n] # NULL
             PROVE  n < symrgtbl'[r].rg_end - symrgtbl'[r].rg_start
  BY DEF WithinInv
<1>1. CASE ~\E p \in Procs, q \in RgIds, m \in 0..(MaxSbrk - 1), v \in Values : Write(p, q, m, v)
  BY <1>1, RegionsChanged DEF WithinInv
<1>2. ASSUME NEW p \in Procs, NEW q \in RgIds, NEW m \in 0..(MaxSbrk - 1), NEW v \in Values,
             Write(p, q, m, v)
      PROVE  n < symrgtbl'[r].rg_end - symrgtbl'[r].rg_start
  <2>1. symrgtbl' = symrgtbl /\ last' = [last EXCEPT ![q][m] = v] /\ Accesses(p, q, m)
    BY <1>2 DEF Write, vars, area
  <2>2. last \in [RgIds -> [0..(MaxSbrk - 1) -> Values \cup {NULL}]]
    BY DEF MemTypeOK
  <2>3. CASE r = q /\ n = m
    BY <2>1, <2>3, AddrType
  <2>4. CASE ~(r = q /\ n = m)
    <3>1. last'[r][n] = last[r][n]
      BY <2>1, <2>2, <2>4
    <3>2. QED
      BY <2>1, <3>1 DEF WithinInv
  <2>5. QED
    BY <2>3, <2>4
<1>3. QED
  BY <1>1, <1>2

(* The address of what is remembered of a region. *)
LEMMA WrittenAddr ==
  ASSUME IInv, WithinInv, NEW r \in RgIds, NEW n \in 0..(MaxSbrk - 1), last[r][n] # NULL
  PROVE  /\ n \in Nat /\ Addr(r, n) \in Nat /\ Addr(r, n) < sbrk
         /\ Addr(r, n) \in Bytes(symrgtbl[r])
<1>1. symrgtbl[r] \in Rgs /\ sbrk \in Nat /\ symrgtbl[r].rg_end <= sbrk
  BY DEF IInv, TypeOK, Rgs, NoOverlap, BelowBreak
<1>2. n \in Nat /\ n < symrgtbl[r].rg_end - symrgtbl[r].rg_start
  BY Bounds DEF WithinInv
<1>3. QED
  BY <1>1, <1>2 DEF Addr, Bytes, Rgs

(* The pages in RAM and RAM itself stay: so do the bytes. *)
LEMMA BytesKept ==
  ASSUME IInv, CallsInv, BreakInv, CoverInv, WithinInv, BytesInv, regular, RamSuffices,
         ram' = ram, \A g \in Online : pte'[g] = pte[g],
         NEW r \in RgIds, NEW n \in 0..(MaxSbrk - 1), last'[r][n] # NULL,
         last'[r][n] = last[r][n], symrgtbl'[r] = symrgtbl[r]
  PROVE  ByteAt(Addr(r, n))' = last'[r][n]
<1>1. PageOf(Addr(r, n)) \in Online
  BY WrittenAddr, BytesBacked
<1>2. ByteAt(Addr(r, n)) = last[r][n]
  BY DEF BytesInv
<1>3. Addr(r, n)' = Addr(r, n)
  BY DEF Addr
<1>4. ByteAt(Addr(r, n))' = ByteAt(Addr(r, n))
  BY <1>1, <1>3 DEF ByteAt, PageOf, OffsetOf
<1>5. QED
  BY <1>2, <1>4

(* Two bytes of regions are two cells of RAM. *)
LEMMA CellsApart ==
  ASSUME IInv, CallsInv, BreakInv, FrameInv, CoverInv, regular, RamSuffices,
         NEW a \in Nat, NEW b \in Nat, a < sbrk, b < sbrk, a # b
  PROVE  FrameOf(PageOf(a)) # FrameOf(PageOf(b)) \/ OffsetOf(a) # OffsetOf(b)
<1> SUFFICES ASSUME FrameOf(PageOf(a)) = FrameOf(PageOf(b)), OffsetOf(a) = OffsetOf(b)
             PROVE  FALSE
  OBVIOUS
<1>1. /\ PageOf(a) \in Online /\ PageOf(a) = a \div FrameSz
      /\ PageOf(b) \in Online /\ PageOf(b) = b \div FrameSz
  BY BytesBacked
<1>2. PageOf(a) = PageOf(b)
  BY <1>1 DEF FrameInv, FramesOK
<1>3. a \div FrameSz = b \div FrameSz
  BY <1>1, <1>2
<1>4. a % FrameSz = b % FrameSz
  BY DEF OffsetOf
<1>5. a = b
  <2>1. FrameSz \in Nat /\ FrameSz # 0
    BY Bounds
  <2>2. QED
    BY <1>3, <1>4, <2>1, SameNumber, Zenon
<1>6. QED
  BY <1>5

(* A write changes one cell, which no other byte of a region has. *)
LEMMA BytesWritten ==
  ASSUME IInv, CallsInv, BreakInv, MemTypeOK, FrameInv, CoverInv, WithinInv, BytesInv,
         regular, RamSuffices,
         NEW p \in Procs, NEW q \in RgIds, NEW m \in 0..(MaxSbrk - 1), NEW v \in Values,
         Write(p, q, m, v),
         NEW r \in RgIds, NEW n \in 0..(MaxSbrk - 1), last'[r][n] # NULL
  PROVE  ByteAt(Addr(r, n))' = last'[r][n]
<1> DEFINE a   == Addr(q, m)
           f   == FrameOf(PageOf(a))
           off == OffsetOf(a)
           b   == Addr(r, n)
<1>1. /\ Accesses(p, q, m) /\ GetPage(PageOf(a))
      /\ ram' = Stored(pte'[PageOf(a)], off, v)
      /\ last' = [last EXCEPT ![q][m] = v] /\ symrgtbl' = symrgtbl
  BY DEF Write, vars, area
<1>2. pte' = pte /\ PageOf(a) \in Online
  BY <1>1, AccessHits
<1>3. a \in Nat /\ a < sbrk /\ a \in Bytes(symrgtbl[q]) /\ m \in Nat
  BY <1>1, AddrType
<1>4. /\ ram \in [0..(RamFrames - 1) -> Frame]
      /\ last \in [RgIds -> [0..(MaxSbrk - 1) -> Values \cup {NULL}]]
  BY DEF MemTypeOK, PagesTypeOK
<1>5. f \in 0..(RamFrames - 1) /\ off \in Offsets
  BY <1>2, <1>3, PageOfType DEF FrameInv, FramesOK, Frames
<1>6. ram' = [ram EXCEPT ![f][off] = v]
  BY <1>1, <1>2, <1>4, <1>5 DEF Stored, InRam, FrameOf
<1>7. Addr(r, n)' = b
  BY <1>1 DEF Addr
<1>8. ByteAt(Addr(r, n))' = ram'[FrameOf(PageOf(b))][OffsetOf(b)]
  BY <1>2, <1>7 DEF ByteAt, FrameOf, PageOf, OffsetOf
<1>9. CASE r = q /\ n = m
  <2>1. last'[r][n] = v
    BY <1>1, <1>4, <1>9
  <2>2. ram'[f][off] = v
    BY <1>4, <1>5, <1>6 DEF Frame
  <2>3. QED
    BY <1>8, <1>9, <2>1, <2>2
<1>10. CASE ~(r = q /\ n = m)
  <2>1. last'[r][n] = last[r][n]
    BY <1>1, <1>4, <1>10
  <2>2. /\ n \in Nat /\ b \in Nat /\ b < sbrk /\ b \in Bytes(symrgtbl[r])
        /\ PageOf(b) \in Online
    BY <2>1, WrittenAddr, BytesBacked
  <2>3. a # b
    <3>1. symrgtbl[q] \in Rgs /\ symrgtbl[r] \in Rgs
      BY DEF IInv, TypeOK, Rgs
    <3>2. CASE q # r
      BY <1>3, <2>2, <3>1, <3>2, ApartBytes DEF IInv, NoOverlap, NamesApart
    <3>3. CASE q = r
      BY <1>3, <1>10, <2>2, <3>1, <3>3 DEF Addr, Rgs
    <3>4. QED
      BY <3>2, <3>3
  <2>4. f # FrameOf(PageOf(b)) \/ off # OffsetOf(b)
    BY <1>3, <2>2, <2>3, CellsApart
  <2>5. FrameOf(PageOf(b)) \in 0..(RamFrames - 1) /\ OffsetOf(b) \in Offsets
    BY <2>2, PageOfType DEF FrameInv, FramesOK, Frames
  <2> HIDE DEF f, off, b
  <2>6. ram'[FrameOf(PageOf(b))][OffsetOf(b)] = ram[FrameOf(PageOf(b))][OffsetOf(b)]
    BY <1>4, <1>5, <1>6, <2>4, <2>5 DEF Frame
  <2>7. ByteAt(b) = last[r][n]
    BY <2>1 DEF BytesInv, b
  <2>8. QED
    BY <1>8, <2>1, <2>6, <2>7 DEF ByteAt, FrameOf
<1>11. QED
  BY <1>9, <1>10

LEMMA BytesStep ==
  ASSUME IInv, CallsInv, BreakInv, MemTypeOK, FrameInv, CoverInv, WithinInv, BytesInv,
         [MemNext]_memVars
  PROVE  BytesInv'
<1> SUFFICES ASSUME regular', RamSuffices',
                    NEW r \in RgIds, NEW n \in 0..(MaxSbrk - 1), last'[r][n] # NULL
             PROVE  ByteAt(Addr(r, n))' = last'[r][n]
  BY DEF BytesInv
<1>1. regular /\ RamSuffices
  BY RegularThen, RamSufficed
<1>2. CASE \E p \in Procs, q \in RgIds, m \in 0..(MaxSbrk - 1), v \in Values : Write(p, q, m, v)
  BY <1>1, <1>2, BytesWritten
<1>3. CASE ~\E p \in Procs, q \in RgIds, m \in 0..(MaxSbrk - 1), v \in Values : Write(p, q, m, v)
  <2>1. last'[r][n] = last[r][n] /\ symrgtbl'[r] = symrgtbl[r]
    BY <1>3, RegionsChanged
  <2>2. ram' = ram /\ \A g \in Online : pte'[g] = pte[g]
    <3>1. ASSUME NEW p \in Procs, MemIncMap(p)
          PROVE  ram' = ram /\ \A g \in Online : pte'[g] = pte[g]
      <4> DEFINE k == GrowthPages(p)
      <4>1. Asked \in Nat /\ k \in Nat /\ MapRam(Asked, k)
        BY <3>1, MapCalls
      <4>2. Asked + k <= MaxPgn + 1 /\ k <= Len(ram_free)
        BY <1>1, <3>1, GrowthFits, GrowthServed
      <4>3. PagesTypeOK /\ \A g \in Online : g < Asked
        BY <1>1 DEF FrameInv, MemTypeOK
      <4> HIDE DEF k
      <4>4. \A g \in Online : pte'[g] = pte[g]
        BY <4>1, <4>2, <4>3, MapRamOnline
      <4>5. ram' = ram
        BY <4>1, <4>2 DEF MapRam
      <4>6. QED
        BY <4>4, <4>5
    <3>2. ASSUME NEW p \in Procs, NEW q \in RgIds, NEW m \in 0..(MaxSbrk - 1),
                 Read(p, q, m) \/ AccessFails(p, q, m)
          PROVE  ram' = ram /\ pte' = pte
      <4> DEFINE g == PageOf(Addr(q, m))
      <4>1. /\ Accesses(p, q, m)
            /\ \/ GetPage(g) /\ ram' = ram
               \/ FaultFails(g)
        BY <3>2 DEF Read, AccessFails
      <4>2. QED
        BY <1>1, <4>1, AccessHits
    <3>3. CASE /\ ~\E p \in Procs : MemIncMap(p)
               /\ ~\E p \in Procs, q \in RgIds, m \in 0..(MaxSbrk - 1) :
                     \/ Read(p, q, m)
                     \/ \E v \in Values : Write(p, q, m, v)
                     \/ AccessFails(p, q, m)
      BY <3>3, PagesKept DEF pageVars
    <3>4. QED
      BY <1>3, <3>1, <3>2, <3>3
  <2>3. QED
    BY <1>1, <2>1, <2>2, BytesKept
<1>4. QED
  BY <1>2, <1>3

LEMMA DataIsKept ==
  ASSUME IInv, CallsInv, BreakInv, MemTypeOK, FrameInv, CoverInv, WithinInv, BytesInv
  PROVE  DataKept
<1> SUFFICES ASSUME regular, RamSuffices,
                    NEW r \in RgIds, NEW n \in 0..(MaxSbrk - 1), last[r][n] # NULL
             PROVE  /\ pte[PageOf(Addr(r, n))].present
                    /\ InRam(pte[PageOf(Addr(r, n))])
                    /\ ByteAt(Addr(r, n)) = last[r][n]
  BY DEF DataKept
<1>1. PageOf(Addr(r, n)) \in Online
  BY WrittenAddr, BytesBacked
<1>2. PAGING_FPN(pte[PageOf(Addr(r, n))]) \in Frames
  BY <1>1 DEF FrameInv, FramesOK, FrameOf
<1>3. DOMAIN ram = Frames
  BY DEF MemTypeOK, PagesTypeOK, Frames
<1>4. QED
  BY <1>1, <1>2, <1>3 DEF Online, InRam, BytesInv

-----------------------------------------------------------------------------
(* The theorems *)

(***************************************************************************)
(* The inductive invariant: the regions and the system call, what has been *)
(* asked of vm_map_ram, the frames of both devices, and the bytes.         *)
(***************************************************************************)
MemInv == /\ IInv /\ CallsInv /\ BreakInv
          /\ MemTypeOK /\ SwapInv /\ FrameInv /\ CoverInv
          /\ WithinInv /\ BytesInv

LEMMA MemInvInit == MemInit => MemInv
BY InitIInv, CallsInit, BreakInit, InitTypes, SwapInit, FrameInit, CoverInit, DataInit
   DEF MemInit, MemInv

LEMMA MemInvStep == MemInv /\ [MemNext]_memVars => MemInv'
<1> SUFFICES ASSUME MemInv, [MemNext]_memVars PROVE MemInv'
  OBVIOUS
<1>1. IInv'
  BY MemoryIsRegions, NextStep DEF MemInv
<1>2. CallsInv' /\ BreakInv'
  BY CallsStep, BreakStep DEF MemInv
<1>3. MemTypeOK' /\ SwapInv' /\ FrameInv' /\ CoverInv'
  BY TypesStep, SwapStep, FrameStep, CoverStep DEF MemInv
<1>4. WithinInv' /\ BytesInv'
  BY WithinStep, BytesStep DEF MemInv
<1>5. QED
  BY <1>1, <1>2, <1>3, <1>4 DEF MemInv

LEMMA MemoryInvariance == MemSpec => []MemInv
BY MemInvInit, MemInvStep, PTL DEF MemSpec

(***************************************************************************)
(* Every variable holds a value of its kind: no page number, frame number  *)
(* or swap offset leaves the device it is of, whatever the programs        *)
(* allocate, free, access and ask of system call 17 (src/libmem.c,         *)
(* src/mm-vm.c, src/mm64.c).                                               *)
(***************************************************************************)
THEOREM MemoryTypes == MemSpec => []MemTypeOK
BY MemoryInvariance, PTL DEF MemInv

(***************************************************************************)
(* A frame of RAM is free, once, or it belongs to one page in RAM: growths *)
(* that RAM cannot serve, faults that take a victim's frame and faults     *)
(* that fail neither lose a frame nor give it to a second page             *)
(* (alloc_pages_range and vm_map_ram in src/mm64.c, pg_getpage in          *)
(* src/libmem.c), until an allocation is larger than a frame, its system   *)
(* call fails, or a program writes to the page table or to RAM itself.     *)
(***************************************************************************)
THEOREM EveryFrameHasOneOwner == MemSpec => []FramesAccounted
<1>1. MemInv => FramesAccounted
  BY FramesAreAccounted DEF MemInv, MemTypeOK
<1>2. QED
  BY <1>1, MemoryInvariance, PTL

(***************************************************************************)
(* What is swapped out is not overwritten in the swap device by another    *)
(* page, unconditionally: find_victim_page and MEMPHY_get_freefp hand out  *)
(* each swap frame once (src/libmem.c, src/mm-memphy.c).                   *)
(***************************************************************************)
THEOREM EverySwapFrameHasOneOwner == MemSpec => []SwapOwned
<1>1. MemInv => SwapOwned
  BY SwapInvOwned DEF MemInv
<1>2. QED
  BY <1>1, MemoryInvariance, PTL

(***************************************************************************)
(* The regions are backed by pages in RAM, although inc_vma_limit maps     *)
(* pages of PAGING64_PAGESZ bytes and pg_getval and pg_setval look for     *)
(* pages of PAGING_PAGESZ bytes (src/mm64.c, src/libmem.c): for all page   *)
(* sizes, as long as no region is larger than a frame.                     *)
(***************************************************************************)
THEOREM RegionsAreBacked == MemSpec => []Backed
<1>1. MemInv => Backed
  BY RegionsBacked DEF MemInv
<1>2. QED
  BY <1>1, MemoryInvariance, PTL

(***************************************************************************)
(* A byte that was written is read back (__write and __read in             *)
(* src/libmem.c), whatever is allocated, freed, mapped and written in      *)
(* between: regions that are apart are on frames that are apart.           *)
(***************************************************************************)
THEOREM WhatIsWrittenIsReadBack == MemSpec => []DataKept
<1>1. MemInv => DataKept
  BY DataIsKept DEF MemInv
<1>2. QED
  BY <1>1, MemoryInvariance, PTL
=============================================================================
