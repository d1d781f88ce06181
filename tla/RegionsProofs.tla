--------------------------- MODULE RegionsProofs ---------------------------
(***************************************************************************)
(* Proofs about the memory regions, for any processes, names, sizes and    *)
(* page size: no byte has two owners, the allocator keeps the promise of   *)
(* module Heap, and the break stays within the limit when no region is     *)
(* larger than a page and the system call cannot go wrong.                 *)
(***************************************************************************)
EXTENDS Regions, SeqLemmas

Rgs == [rg_start : Nat, rg_end : Nat]

(***************************************************************************)
(* The inductive invariant: the process that is inside __alloc holds the   *)
(* lock, so that the break it has read is still the break.                 *)
(***************************************************************************)
AllocInv ==
  \A p \in Procs : call[p].rgid # NULL => /\ mmvm_lock = p
                                          /\ call[p].size \in Sizes
                                          /\ call[p].old_sbrk = sbrk

IInv == TypeOK /\ NoOverlap /\ AllocInv

-----------------------------------------------------------------------------
(* Lemmas about regions and lists of regions *)

(* Every byte of the region a is one of b. *)
Inside(a, b) == b.rg_start <= a.rg_start /\ a.rg_end <= b.rg_end

(* What is apart from a region is apart from every part of it. *)
LEMMA InsideApart ==
  ASSUME NEW a \in Rgs, NEW b \in Rgs, NEW x \in Rgs, Inside(a, b)
  PROVE  /\ Apart(b, x) => Apart(a, x)
         /\ Apart(x, b) => Apart(x, a)
BY DEF Inside, Apart, Rgs

LEMMA ApartSymmetric ==
  ASSUME NEW a, NEW b
  PROVE  Apart(a, b) <=> Apart(b, a)
BY DEF Apart

(* Regions that are apart have no byte in common. *)
LEMMA ApartBytes ==
  ASSUME NEW a \in Rgs, NEW b \in Rgs, Apart(a, b)
  PROVE  Bytes(a) \cap Bytes(b) = {}
BY DEF Apart, Bytes, Rgs

LEMMA RegionType ==
  ASSUME NEW a \in Nat, NEW b \in Nat
  PROVE  Region(a, b) \in Rgs /\ Region(a, b).rg_start = a /\ Region(a, b).rg_end = b
BY DEF Region, Rgs

(* A list with room has a first entry with room. *)
LEMMA FirstFitFits ==
  ASSUME NEW list \in Seq(Rgs), NEW n \in Nat,
         \E j \in DOMAIN list : Fits(list[j], n)
  PROVE  /\ FirstFit(list, n) \in 1..Len(list)
         /\ Fits(list[FirstFit(list, n)], n)
<1> DEFINE T == {j \in 1..Len(list) : Fits(list[j], n)}
<1>1. Len(list) \in Nat /\ DOMAIN list = 1..Len(list)
  BY LenProperties
<1>2. PICK j \in T : \A k \in T : j <= k
  <2>1. T \subseteq Nat /\ T # {}
    BY <1>1
  <2> HIDE DEF T
  <2>2. QED
    BY <2>1, LeastNumber
<1>3. \A k \in 1..(j - 1) : ~Fits(list[k], n)
  <2>1. ASSUME NEW k \in 1..(j - 1), Fits(list[k], n) PROVE FALSE
    <3>1. k \in T /\ ~(j <= k)
      BY <2>1, <1>1, <1>2
    <3>2. QED
      BY <3>1, <1>2
  <2>2. QED
    BY <2>1
<1>4. j \in DOMAIN list /\ Fits(list[j], n)
  BY <1>1, <1>2
<1>5. /\ FirstFit(list, n) \in DOMAIN list
      /\ Fits(list[FirstFit(list, n)], n)
  BY <1>3, <1>4 DEF FirstFit
<1>6. QED
  BY <1>1, <1>5

(***************************************************************************)
(* Carving n bytes out of entry j: the new entries are parts of the old    *)
(* ones, different new entries of different old ones, and none meets the   *)
(* bytes taken out.                                                        *)
(***************************************************************************)
LEMMA CarveEntries ==
  ASSUME NEW list \in Seq(Rgs), NEW j \in 1..Len(list), NEW n \in Nat,
         Fits(list[j], n)
  PROVE  LET new   == Carve(list, j, n)
             taken == Region(list[j].rg_start, list[j].rg_start + n)
         IN  /\ new \in Seq(Rgs)
             /\ Inside(taken, list[j])
             /\ \E from \in [1..Len(new) -> 1..Len(list)] :
                  /\ \A k, m \in 1..Len(new) : from[k] = from[m] => k = m
                  /\ \A k \in 1..Len(new) :
                       /\ Inside(new[k], list[from[k]])
                       /\ from[k] = j => Apart(taken, new[k])
<1> DEFINE new   == Carve(list, j, n)
           a     == list[j].rg_start
           b     == list[j].rg_end
           taken == Region(a, a + n)
<1>1. /\ Len(list) \in Nat /\ DOMAIN list = 1..Len(list)
      /\ \A k \in 1..Len(list) : list[k] \in Rgs
      /\ a \in Nat /\ b \in Nat /\ a + n <= b
  <2>1. Len(list) \in Nat /\ DOMAIN list = 1..Len(list)
    BY LenProperties
  <2>2. \A k \in 1..Len(list) : list[k] \in Rgs
    BY ElementOfSeq
  <2>3. list[j] \in Rgs
    BY <2>2
  <2>4. a \in Nat /\ b \in Nat
    BY <2>3 DEF Rgs
  <2>5. a + n <= b
    BY DEF Fits
  <2>6. QED
    BY <2>1, <2>2, <2>4, <2>5
<1>2. Inside(taken, list[j])
  BY <1>1, RegionType DEF Inside
<1>3. ASSUME NEW x \in Rgs, new = [list EXCEPT ![j] = x],
             Inside(x, list[j]), Apart(taken, x)
      PROVE  /\ new \in Seq(Rgs)
             /\ \E from \in [1..Len(new) -> 1..Len(list)] :
                  /\ \A k, m \in 1..Len(new) : from[k] = from[m] => k = m
                  /\ \A k \in 1..Len(new) :
                       /\ Inside(new[k], list[from[k]])
                       /\ from[k] = j => Apart(taken, new[k])
  <2>1. /\ new \in Seq(Rgs) /\ Len(new) = Len(list)
        /\ \A k \in 1..Len(list) : new[k] = IF k = j THEN x ELSE list[k]
    BY <1>1, <1>3, ExceptSeq
  <2> HIDE DEF new, taken
  <2> DEFINE from == [k \in 1..Len(new) |-> k]
  <2>2. from \in [1..Len(new) -> 1..Len(list)]
    BY <2>1
  <2>3. ASSUME NEW k \in 1..Len(new)
        PROVE  /\ Inside(new[k], list[from[k]])
               /\ from[k] = j => Apart(taken, new[k])
    <3>1. \A y \in Rgs : Inside(y, y)
      BY DEF Inside, Rgs
    <3>2. QED
      BY <1>1, <1>3, <2>1, <3>1
  <2>4. \A k, m \in 1..Len(new) : from[k] = from[m] => k = m
    OBVIOUS
  <2> HIDE DEF from
  <2>5. QED
    BY <2>1, <2>2, <2>3, <2>4
<1>4. CASE a + n < b
  <2>1. new = [list EXCEPT ![j] = Region(a + n, b)]
    BY <1>1, <1>4 DEF Carve
  <2>2. Region(a + n, b) \in Rgs
    BY <1>1, RegionType
  <2>3. Inside(Region(a + n, b), list[j]) /\ Apart(taken, Region(a + n, b))
    BY <1>1, <1>4, RegionType DEF Inside, Apart
  <2>4. QED
    BY <1>2, <1>3, <2>1, <2>2, <2>3
<1>5. CASE ~(a + n < b) /\ ~(j < Len(list))
  <2>1. new = [list EXCEPT ![j] = Region(b, b)]
    BY <1>1, <1>5 DEF Carve
  <2>2. Region(b, b) \in Rgs
    BY <1>1, RegionType
  <2>3. Inside(Region(b, b), list[j]) /\ Apart(taken, Region(b, b))
    BY <1>1, RegionType DEF Inside, Apart
  <2>4. QED
    BY <1>2, <1>3, <2>1, <2>2, <2>3
<1>6. CASE ~(a + n < b) /\ j < Len(list)
  <2>1. new = RemoveAt(list, j)
    BY <1>1, <1>6 DEF Carve
  <2>2. /\ new \in Seq(Rgs) /\ Len(new) = Len(list) - 1
        /\ \A k \in 1..(Len(list) - 1) :
             new[k] = IF k < j THEN list[k] ELSE list[k + 1]
    BY <2>1, RemoveAtEntries
  <2> HIDE DEF new, taken
  <2> DEFINE from == [k \in 1..Len(new) |-> IF k < j THEN k ELSE k + 1]
  <2>3. from \in [1..Len(new) -> 1..Len(list)]
    BY <2>2, <1>1
  <2>4. \A k, m \in 1..Len(new) : from[k] = from[m] => k = m
    BY <2>2, <1>1
  <2>5. ASSUME NEW k \in 1..Len(new)
        PROVE  Inside(new[k], list[from[k]]) /\ from[k] # j
    <3>1. \A y \in Rgs : Inside(y, y)
      BY DEF Inside, Rgs
    <3>2. new[k] = list[from[k]] /\ from[k] \in 1..Len(list) /\ from[k] # j
      BY <2>2, <1>1
    <3>3. QED
      BY <1>1, <3>1, <3>2
  <2> HIDE DEF from
  <2>6. QED
    BY <1>2, <2>2, <2>3, <2>4, <2>5 DEF new, taken
<1>7. QED
  BY <1>4, <1>5, <1>6

-----------------------------------------------------------------------------
(* Every operation keeps the invariant *)

LEMMA ArithmeticType ==
  ASSUME NEW n \in Nat
  PROVE  /\ n \div PageSz \in Nat
         /\ AlignSz(n) \in Nat
<1>1. PageSz \in Nat \ {0}
  BY RegionsAssumption
<1>2. \A m \in Nat : m \div PageSz \in Nat
  BY <1>1
<1>3. n + PageSz - 1 \in Nat
  BY <1>1
<1>4. (n + PageSz - 1) \div PageSz \in Nat
  BY <1>2, <1>3
<1>5. \A m \in Nat : m * PageSz \in Nat
  BY <1>1
<1>6. QED
  BY <1>2, <1>4, <1>5 DEF AlignSz

LEMMA InitIInv == Init => IInv
<1> SUFFICES ASSUME Init PROVE IInv
  OBVIOUS
<1>1. NoRegion \in Rgs /\ NoRegion.rg_end = 0 /\ NoRegion.rg_start = 0
  BY RegionType DEF NoRegion
<1>2. Len(<<NoRegion>>) = 1 /\ <<NoRegion>>[1] = NoRegion /\ <<NoRegion>> \in Seq(Rgs)
  BY <1>1
<1>3. TypeOK
  <2>1. NoCall \in [rgid : RgIds \cup {NULL}, size : Nat, inc_sz : Nat,
                   old_sbrk : Nat, old_vm_end : Nat, new_vm_end : Nat]
    BY DEF NoCall
  <2>2. symrgtbl \in [RgIds -> Rgs]
    BY <1>1 DEF Init
  <2>3. QED
    BY <1>2, <2>1, <2>2 DEF Init, TypeOK, Rgs
<1>4. NoOverlap
  <2>1. \A r \in RgIds : symrgtbl[r] = NoRegion
    BY DEF Init
  <2>2. DOMAIN vm_freerg_list = {1} /\ vm_freerg_list[1] = NoRegion
    BY <1>2 DEF Init
  <2>3. sbrk = 0
    BY DEF Init
  <2>4. QED
    BY <1>1, <2>1, <2>2, <2>3
    DEF NoOverlap, NamesApart, ListApart, FreeApart, BelowBreak, Apart
<1>5. AllocInv
  BY DEF Init, AllocInv, NoCall
<1>6. QED
  BY <1>3, <1>4, <1>5 DEF IInv

(* The regions change as a name r gets the region rg: what is apart from   *)
(* everything else may be handed out.                                      *)
LEMMA HandOut ==
  ASSUME TypeOK, NEW r \in RgIds, NEW n \in Sizes, NEW a \in Nat,
         SetSymbol(r, Region(a, a + n)),
         \A q \in RgIds \ {r} : Apart(symrgtbl[q], Region(a, a + n))
  PROVE  Promise!Next
<1> DEFINE new == Region(a, a + n)
<1>1. new \in Rgs /\ new.rg_start = a /\ new.rg_end = a + n
  BY RegionType, RegionsAssumption
<1> HIDE DEF new
<1>2. ASSUME NEW q \in RgIds \ {r}
      PROVE  Bytes(symrgtbl[q]) \cap (a..(a + n - 1)) = {}
  <2>1. symrgtbl[q] \in Rgs
    BY DEF TypeOK, Rgs
  <2>2. Bytes(symrgtbl[q]) \cap Bytes(new) = {}
    BY <1>1, <2>1, ApartBytes DEF new
  <2>3. Bytes(new) = a..(a + n - 1)
    BY <1>1, RegionsAssumption DEF Bytes
  <2>4. QED
    BY <2>2, <2>3
<1>3. symrgtbl'[r] = new /\ symrgtbl' = [symrgtbl EXCEPT ![r] = new]
  BY DEF SetSymbol, TypeOK, new
<1>4. Promise!Alloc(r, symrgtbl'[r].rg_start, n)
  BY <1>1, <1>2, <1>3 DEF Promise!Alloc, Promise!Bytes, Bytes, Region, new
<1>5. QED
  BY <1>4 DEF Promise!Next

(* A region is taken out of the list of freed ones. *)
LEMMA ReuseStep ==
  ASSUME IInv, NEW p \in Procs, NEW r \in RgIds, NEW n \in Sizes,
         AllocReuse(p, r, n)
  PROVE  IInv' /\ Promise!Next
<1> DEFINE list  == vm_freerg_list
           j     == FirstFit(list, n)
           a     == list[j].rg_start
           taken == Region(a, a + n)
<1>1. /\ list \in Seq(Rgs) /\ symrgtbl \in [RgIds -> Rgs]
      /\ sbrk \in Nat /\ n \in Nat /\ DOMAIN list = 1..Len(list)
  BY RegionsAssumption, LenProperties DEF IInv, TypeOK, Rgs
<1>2. j \in 1..Len(list) /\ Fits(list[j], n)
  BY <1>1, FirstFitFits DEF AllocReuse, HasFit
<1>3. list[j] \in Rgs /\ a \in Nat /\ taken \in Rgs
  <2>1. list[j] \in Rgs
    BY <1>1, <1>2, ElementOfSeq
  <2>2. a \in Nat /\ a + n \in Nat
    BY <1>1, <2>1 DEF Rgs
  <2>3. QED
    BY <2>1, <2>2, RegionType
<1>4. /\ vm_freerg_list' \in Seq(Rgs)
      /\ Inside(taken, list[j])
      /\ \E from \in [1..Len(vm_freerg_list') -> 1..Len(list)] :
           /\ \A k, m \in 1..Len(vm_freerg_list') : from[k] = from[m] => k = m
           /\ \A k \in 1..Len(vm_freerg_list') :
                /\ Inside(vm_freerg_list'[k], list[from[k]])
                /\ from[k] = j => Apart(taken, vm_freerg_list'[k])
  <2>1. vm_freerg_list' = Carve(list, j, n)
    BY DEF AllocReuse
  <2> HIDE DEF list, j
  <2>2. /\ Carve(list, j, n) \in Seq(Rgs)
        /\ Inside(taken, list[j])
        /\ \E from \in [1..Len(Carve(list, j, n)) -> 1..Len(list)] :
             /\ \A k, m \in 1..Len(Carve(list, j, n)) : from[k] = from[m] => k = m
             /\ \A k \in 1..Len(Carve(list, j, n)) :
                  /\ Inside(Carve(list, j, n)[k], list[from[k]])
                  /\ from[k] = j => Apart(taken, Carve(list, j, n)[k])
    BY <1>1, <1>2, CarveEntries
  <2>3. QED
    BY <2>1, <2>2
<1>5. PICK from \in [1..Len(vm_freerg_list') -> 1..Len(list)] :
           /\ \A k, m \in 1..Len(vm_freerg_list') : from[k] = from[m] => k = m
           /\ \A k \in 1..Len(vm_freerg_list') :
                /\ Inside(vm_freerg_list'[k], list[from[k]])
                /\ from[k] = j => Apart(taken, vm_freerg_list'[k])
  BY <1>4
<1>6. /\ SetSymbol(r, taken)
      /\ UNCHANGED <<sbrk, vm_end, mmvm_lock, pc, call>>
      /\ symrgtbl' = [symrgtbl EXCEPT ![r] = taken]
  BY DEF AllocReuse, SetSymbol
<1> DEFINE new == vm_freerg_list'
<1>7. /\ DOMAIN new = 1..Len(new)
      /\ \A k \in 1..Len(new) : new[k] \in Rgs
      /\ \A k \in 1..Len(list) : list[k] \in Rgs
  BY <1>1, <1>4, ElementOfSeq, LenProperties
<1> HIDE DEF taken, j, a, list
<1>8. ASSUME NEW q \in RgIds \ {r} PROVE Apart(symrgtbl[q], taken)
  <2>1. Apart(symrgtbl[q], list[j])
    BY <1>1, <1>2 DEF IInv, NoOverlap, FreeApart, list
  <2>2. QED
    BY <1>1, <1>3, <1>4, <2>1, InsideApart
<1>9. ASSUME NEW k \in 1..Len(new) PROVE Apart(taken, new[k])
  <2>1. CASE from[k] = j
    BY <1>5, <2>1
  <2>2. CASE from[k] # j
    <3>1. from[k] \in 1..Len(list) /\ Inside(new[k], list[from[k]])
      BY <1>5
    <3>2. Apart(list[j], list[from[k]])
      BY <1>1, <1>2, <2>2, <3>1 DEF IInv, NoOverlap, ListApart, list
    <3>3. Apart(taken, list[from[k]])
      BY <1>3, <1>4, <1>7, <3>1, <3>2, InsideApart
    <3>4. QED
      BY <1>3, <1>7, <3>1, <3>3, InsideApart
  <2>3. QED
    BY <2>1, <2>2
<1>10. NamesApart'
  <2>1. ASSUME NEW q \in RgIds, NEW s \in RgIds, q # s
        PROVE  Apart(symrgtbl'[q], symrgtbl'[s])
    <3>1. CASE q = r
      BY <1>1, <1>6, <1>8, <2>1, <3>1, ApartSymmetric
    <3>2. CASE s = r
      BY <1>1, <1>6, <1>8, <2>1, <3>2
    <3>3. CASE q # r /\ s # r
      BY <1>1, <1>6, <2>1, <3>3 DEF IInv, NoOverlap, NamesApart
    <3>4. QED
      BY <3>1, <3>2, <3>3
  <2>2. QED
    BY <2>1 DEF NamesApart, Apart
<1>11. ListApart'
  <2>1. ASSUME NEW k \in 1..Len(new), NEW m \in 1..Len(new), k # m
        PROVE  Apart(new[k], new[m])
    <3>1. /\ from[k] \in 1..Len(list) /\ from[m] \in 1..Len(list)
          /\ from[k] # from[m]
          /\ Inside(new[k], list[from[k]]) /\ Inside(new[m], list[from[m]])
      BY <1>5, <2>1
    <3>2. Apart(list[from[k]], list[from[m]])
      BY <1>1, <3>1 DEF IInv, NoOverlap, ListApart, list
    <3>3. Apart(new[k], list[from[m]])
      BY <1>7, <3>1, <3>2, InsideApart
    <3>4. QED
      BY <1>7, <3>1, <3>3, InsideApart
  <2>2. QED
    BY <1>7, <2>1 DEF ListApart, Apart
<1>12. FreeApart'
  <2>1. ASSUME NEW q \in RgIds, NEW k \in 1..Len(new)
        PROVE  Apart(symrgtbl'[q], new[k])
    <3>1. CASE q = r
      BY <1>1, <1>6, <1>9, <3>1
    <3>2. CASE q # r
      <4>1. from[k] \in 1..Len(list) /\ Inside(new[k], list[from[k]])
        BY <1>5
      <4>2. Apart(symrgtbl[q], list[from[k]])
        BY <1>1, <4>1 DEF IInv, NoOverlap, FreeApart, list
      <4>3. QED
        BY <1>1, <1>6, <1>7, <3>2, <4>1, <4>2, InsideApart
    <3>3. QED
      BY <3>1, <3>2
  <2>2. QED
    BY <1>7, <2>1 DEF FreeApart, Apart
<1>13. BelowBreak'
  <2>1. \A k \in 1..Len(list) : list[k].rg_end <= sbrk
    BY <1>1 DEF IInv, NoOverlap, BelowBreak, list
  <2>2. ASSUME NEW k \in 1..Len(new) PROVE new[k].rg_end <= sbrk
    <3>1. from[k] \in 1..Len(list) /\ Inside(new[k], list[from[k]])
      BY <1>5
    <3>2. QED
      BY <1>1, <1>7, <2>1, <3>1 DEF Inside, Rgs
  <2>3. taken.rg_end <= sbrk
    BY <1>1, <1>2, <1>3, <1>4, <2>1 DEF Inside, Rgs
  <2>4. ASSUME NEW q \in RgIds PROVE symrgtbl'[q].rg_end <= sbrk
    BY <1>1, <1>6, <2>3 DEF IInv, NoOverlap, BelowBreak
  <2>5. QED
    BY <1>6, <1>7, <2>2, <2>4 DEF BelowBreak
<1>14. TypeOK'
  <2>1. lost' = lost \cup Bytes(symrgtbl[r])
    BY <1>6 DEF SetSymbol
  <2>2. Bytes(symrgtbl[r]) \subseteq Nat
    BY <1>1 DEF Bytes, Rgs
  <2>3. symrgtbl' \in [RgIds -> Rgs]
    BY <1>1, <1>3, <1>6
  <2>4. QED
    BY <1>4, <1>6, <2>1, <2>2, <2>3 DEF IInv, TypeOK, Rgs
<1>15. AllocInv'
  BY <1>6 DEF IInv, AllocInv
<1>16. Promise!Next
  <2>1. TypeOK
    BY DEF IInv
  <2>2. QED
    BY <1>3, <1>6, <1>8, <2>1, HandOut DEF taken
<1>17. QED
  BY <1>10, <1>11, <1>12, <1>13, <1>14, <1>15, <1>16 DEF IInv, NoOverlap

(* __alloc starts to grow the area: it takes the lock, nobody had it. *)
LEMMA GrowStep ==
  ASSUME IInv, NEW p \in Procs, NEW r \in RgIds, NEW n \in Sizes,
         AllocGrow(p, r, n)
  PROVE  IInv' /\ UNCHANGED symrgtbl
<1>1. /\ mmvm_lock = NULL /\ mmvm_lock' = p
      /\ UNCHANGED <<symrgtbl, vm_freerg_list, sbrk, lost, vm_end>>
      /\ call' = [call EXCEPT ![p] = AllocCall(r, n, (n \div PageSz) + 1)]
      /\ pc' = [pc EXCEPT ![p] = "inc"]
  BY DEF AllocGrow, Goto, area
<1> DEFINE new == AllocCall(r, n, (n \div PageSz) + 1)
<1>2. /\ new.rgid = r /\ new.size = n /\ new.old_sbrk = sbrk
      /\ new \in [rgid : RgIds \cup {NULL}, size : Nat, inc_sz : Nat,
                  old_sbrk : Nat, old_vm_end : Nat, new_vm_end : Nat]
  <2>1. n \in Nat /\ sbrk \in Nat
    BY RegionsAssumption DEF IInv, TypeOK
  <2>2. n \div PageSz \in Nat
    BY <2>1, ArithmeticType
  <2>3. (n \div PageSz) + 1 \in Nat
    BY <2>2
  <2>4. QED
    BY <2>1, <2>3 DEF AllocCall, NoCall
<1> HIDE DEF new
<1>3. TypeOK'
  BY <1>1, <1>2 DEF IInv, TypeOK, new
<1>4. NoOverlap'
  BY <1>1 DEF IInv, NoOverlap, NamesApart, ListApart, FreeApart, BelowBreak, Apart
<1>5. AllocInv'
  <2>1. ASSUME NEW q \in Procs, q # p, call[q].rgid # NULL PROVE FALSE
    BY <1>1, <2>1, RegionsAssumption DEF IInv, AllocInv
  <2>2. ASSUME NEW q \in Procs, call'[q].rgid # NULL
        PROVE  mmvm_lock' = q /\ call'[q].size \in Sizes /\ call'[q].old_sbrk = sbrk'
    <3>1. q = p
      BY <1>1, <2>1, <2>2 DEF IInv, TypeOK
    <3>2. call'[p] = new
      BY <1>1 DEF IInv, TypeOK, new
    <3>3. QED
      BY <1>1, <1>2, <3>1, <3>2
  <2>3. QED
    BY <2>2 DEF AllocInv
<1>6. QED
  BY <1>1, <1>3, <1>4, <1>5 DEF IInv

(* __alloc cuts the new region off the break, where nothing is yet. *)
LEMMA EndStep ==
  ASSUME IInv, NEW p \in Procs, AllocEnd(p)
  PROVE  IInv' /\ Promise!Next
<1> DEFINE r   == call[p].rgid
           n   == call[p].size
           new == Region(sbrk, sbrk + n)
<1>1. /\ r \in RgIds /\ n \in Sizes /\ n \in Nat /\ sbrk \in Nat
      /\ mmvm_lock = p /\ call[p].old_sbrk = sbrk
      /\ symrgtbl \in [RgIds -> Rgs] /\ vm_freerg_list \in Seq(Rgs)
  BY RegionsAssumption DEF IInv, TypeOK, AllocInv, AllocEnd, Rgs
<1>2. new \in Rgs /\ new.rg_start = sbrk /\ new.rg_end = sbrk + n
  BY <1>1, RegionType
<1>3. /\ SetSymbol(r, new)
      /\ symrgtbl' = [symrgtbl EXCEPT ![r] = new]
      /\ sbrk' = sbrk + n
      /\ mmvm_lock' = NULL
      /\ call' = [call EXCEPT ![p] = NoCall]
      /\ pc' = [pc EXCEPT ![p] = "run"]
      /\ UNCHANGED <<vm_freerg_list, vm_end>>
  BY <1>1, <1>2 DEF AllocEnd, NewRegion, SetSymbol, Goto
<1>4. /\ DOMAIN vm_freerg_list = 1..Len(vm_freerg_list)
      /\ \A k \in DOMAIN vm_freerg_list : vm_freerg_list[k] \in Rgs
  BY <1>1, ElementOfSeq, LenProperties
<1> HIDE DEF new, r, n
<1>5. ASSUME NEW x \in Rgs, x.rg_end <= sbrk PROVE Apart(x, new) /\ Apart(new, x)
  BY <1>2, <1>5 DEF Apart
<1>6. ASSUME NEW q \in RgIds PROVE Apart(symrgtbl[q], new) /\ Apart(new, symrgtbl[q])
  <2>1. symrgtbl[q] \in Rgs /\ symrgtbl[q].rg_end <= sbrk
    BY <1>1 DEF IInv, NoOverlap, BelowBreak
  <2>2. QED
    BY <1>5, <2>1
<1>7. ASSUME NEW k \in DOMAIN vm_freerg_list PROVE Apart(new, vm_freerg_list[k])
  <2>1. vm_freerg_list[k] \in Rgs /\ vm_freerg_list[k].rg_end <= sbrk
    BY <1>4 DEF IInv, NoOverlap, BelowBreak
  <2>2. QED
    BY <1>5, <2>1
<1>8. NamesApart'
  <2>1. ASSUME NEW q \in RgIds, NEW s \in RgIds, q # s
        PROVE  Apart(symrgtbl'[q], symrgtbl'[s])
    <3>1. CASE q = r \/ s = r
      BY <1>1, <1>3, <1>6, <2>1, <3>1
    <3>2. CASE q # r /\ s # r
      BY <1>1, <1>3, <2>1, <3>2 DEF IInv, NoOverlap, NamesApart
    <3>3. QED
      BY <3>1, <3>2
  <2>2. QED
    BY <2>1 DEF NamesApart, Apart
<1>9. ListApart'
  BY <1>3 DEF IInv, NoOverlap, ListApart, Apart
<1>10. FreeApart'
  <2>1. ASSUME NEW q \in RgIds, NEW k \in DOMAIN vm_freerg_list
        PROVE  Apart(symrgtbl'[q], vm_freerg_list[k])
    <3>1. CASE q = r
      BY <1>1, <1>3, <1>7, <3>1
    <3>2. CASE q # r
      BY <1>1, <1>3, <3>2 DEF IInv, NoOverlap, FreeApart
    <3>3. QED
      BY <3>1, <3>2
  <2>2. QED
    BY <1>3, <2>1 DEF FreeApart, Apart
<1>11. BelowBreak'
  <2>1. ASSUME NEW q \in RgIds PROVE symrgtbl'[q].rg_end <= sbrk + n
    <3>1. symrgtbl[q] \in Rgs /\ symrgtbl[q].rg_end <= sbrk
      BY <1>1 DEF IInv, NoOverlap, BelowBreak
    <3>2. QED
      BY <1>1, <1>2, <1>3, <3>1 DEF Rgs
  <2>2. ASSUME NEW k \in DOMAIN vm_freerg_list
        PROVE  vm_freerg_list[k].rg_end <= sbrk + n
    <3>1. vm_freerg_list[k] \in Rgs /\ vm_freerg_list[k].rg_end <= sbrk
      BY <1>4 DEF IInv, NoOverlap, BelowBreak
    <3>2. QED
      BY <1>1, <3>1 DEF Rgs
  <2>3. QED
    BY <1>3, <2>1, <2>2 DEF BelowBreak
<1>12. TypeOK'
  <2>1. lost' = lost \cup Bytes(symrgtbl[r])
    BY <1>3 DEF SetSymbol
  <2>2. Bytes(symrgtbl[r]) \subseteq Nat
    BY <1>1 DEF Bytes, Rgs
  <2>3. symrgtbl' \in [RgIds -> Rgs] /\ sbrk + n \in Nat
    BY <1>1, <1>2, <1>3
  <2>4. NoCall \in [rgid : RgIds \cup {NULL}, size : Nat, inc_sz : Nat,
                   old_sbrk : Nat, old_vm_end : Nat, new_vm_end : Nat]
    BY DEF NoCall
  <2>5. QED
    BY <1>3, <2>1, <2>2, <2>3, <2>4 DEF IInv, TypeOK, Rgs
<1>13. AllocInv'
  <2>1. ASSUME NEW q \in Procs PROVE call'[q].rgid = NULL
    <3>1. CASE q = p
      BY <1>3, <3>1 DEF IInv, TypeOK, NoCall
    <3>2. CASE q # p
      BY <1>1, <1>3, <3>2 DEF IInv, TypeOK, AllocInv
    <3>3. QED
      BY <3>1, <3>2
  <2>2. QED
    BY <2>1 DEF AllocInv
<1>14. Promise!Next
  <2>1. TypeOK
    BY DEF IInv
  <2>2. \A q \in RgIds \ {r} : Apart(symrgtbl[q], new)
    BY <1>6
  <2>3. QED
    BY <1>1, <1>3, <2>1, <2>2, HandOut DEF new
<1>15. QED
  BY <1>8, <1>9, <1>10, <1>11, <1>12, <1>13, <1>14 DEF IInv, NoOverlap

(* __free gives a region to the list. *)
LEMMA FreeStep ==
  ASSUME IInv, NEW p \in Procs, NEW r \in RgIds, Free(p, r)
  PROVE  IInv' /\ Promise!Next
<1> DEFINE list == vm_freerg_list
           rg   == symrgtbl[r]
           new  == <<rg>> \o list
<1>1. /\ symrgtbl \in [RgIds -> Rgs] /\ list \in Seq(Rgs) /\ rg \in Rgs
      /\ Len(list) \in Nat /\ DOMAIN list = 1..Len(list) /\ sbrk \in Nat
  BY LenProperties DEF IInv, TypeOK, Rgs
<1>2. /\ vm_freerg_list' = new
      /\ symrgtbl' = [symrgtbl EXCEPT ![r] = NoRegion]
      /\ UNCHANGED <<lost, sbrk, vm_end, mmvm_lock, pc, call>>
  BY DEF Free
<1>3. /\ new \in Seq(Rgs) /\ Len(new) = Len(list) + 1
      /\ \A k \in 1..Len(new) : new[k] = IF k = 1 THEN rg ELSE list[k - 1]
  <2>1. <<rg>> \in Seq(Rgs) /\ Len(<<rg>>) = 1 /\ <<rg>>[1] = rg
    BY <1>1
  <2> HIDE DEF list, rg
  <2>2. QED
    BY <1>1, <2>1, ConcatProperties, LenProperties
<1> HIDE DEF new, list
<1>4. /\ DOMAIN new = 1..Len(new)
      /\ \A k \in 1..Len(new) : new[k] \in Rgs
  BY <1>3, ElementOfSeq, LenProperties
<1>5. NoRegion \in Rgs /\ \A x \in Rgs : Apart(NoRegion, x) /\ Apart(x, NoRegion)
  <2>1. NoRegion \in Rgs /\ NoRegion.rg_end = 0 /\ NoRegion.rg_start = 0
    BY RegionType DEF NoRegion
  <2>2. QED
    BY <2>1 DEF Apart, Rgs
<1>6. \A k \in 1..Len(list) : Apart(rg, list[k]) /\ Apart(list[k], rg)
  BY <1>1, ApartSymmetric DEF IInv, NoOverlap, FreeApart, list
<1>7. ASSUME NEW q \in RgIds \ {r}, NEW k \in 1..Len(new)
      PROVE  Apart(symrgtbl[q], new[k])
  <2>1. CASE k = 1
    BY <1>1, <1>3, <2>1 DEF IInv, NoOverlap, NamesApart
  <2>2. CASE k # 1
    <3>1. k - 1 \in 1..Len(list) /\ new[k] = list[k - 1]
      BY <1>1, <1>3, <2>2
    <3>2. QED
      BY <1>1, <3>1 DEF IInv, NoOverlap, FreeApart, list
  <2>3. QED
    BY <2>1, <2>2
<1>8. NamesApart'
  <2>1. ASSUME NEW q \in RgIds, NEW s \in RgIds, q # s
        PROVE  Apart(symrgtbl'[q], symrgtbl'[s])
    <3>1. CASE q = r \/ s = r
      BY <1>1, <1>2, <1>5, <2>1, <3>1
    <3>2. CASE q # r /\ s # r
      BY <1>1, <1>2, <2>1, <3>2 DEF IInv, NoOverlap, NamesApart
    <3>3. QED
      BY <3>1, <3>2
  <2>2. QED
    BY <2>1 DEF NamesApart, Apart
<1>9. ListApart'
  <2>1. ASSUME NEW k \in 1..Len(new), NEW m \in 1..Len(new), k # m
        PROVE  Apart(new[k], new[m])
    <3>1. CASE k = 1
      <4>1. m - 1 \in 1..Len(list) /\ new[m] = list[m - 1] /\ new[k] = rg
        BY <1>1, <1>3, <2>1, <3>1
      <4>2. QED
        BY <1>6, <4>1
    <3>2. CASE m = 1
      <4>1. k - 1 \in 1..Len(list) /\ new[k] = list[k - 1] /\ new[m] = rg
        BY <1>1, <1>3, <2>1, <3>2
      <4>2. QED
        BY <1>6, <4>1
    <3>3. CASE k # 1 /\ m # 1
      <4>1. /\ k - 1 \in 1..Len(list) /\ new[k] = list[k - 1]
            /\ m - 1 \in 1..Len(list) /\ new[m] = list[m - 1]
            /\ k - 1 # m - 1
        BY <1>1, <1>3, <2>1, <3>3
      <4>2. QED
        BY <1>1, <4>1 DEF IInv, NoOverlap, ListApart, list
    <3>4. QED
      BY <3>1, <3>2, <3>3
  <2>2. QED
    BY <1>2, <1>4, <2>1 DEF ListApart, Apart
<1>10. FreeApart'
  <2>1. ASSUME NEW q \in RgIds, NEW k \in 1..Len(new)
        PROVE  Apart(symrgtbl'[q], new[k])
    <3>1. CASE q = r
      BY <1>1, <1>2, <1>4, <1>5, <3>1
    <3>2. CASE q # r
      BY <1>1, <1>2, <1>7, <3>2
    <3>3. QED
      BY <3>1, <3>2
  <2>2. QED
    BY <1>2, <1>4, <2>1 DEF FreeApart, Apart
<1>11. BelowBreak'
  <2>1. ASSUME NEW q \in RgIds PROVE symrgtbl'[q].rg_end <= sbrk
    BY <1>1, <1>2 DEF IInv, NoOverlap, BelowBreak, NoRegion, Region
  <2>2. ASSUME NEW k \in 1..Len(new) PROVE new[k].rg_end <= sbrk
    <3>1. CASE k = 1
      BY <1>3, <3>1 DEF IInv, NoOverlap, BelowBreak
    <3>2. CASE k # 1
      <4>1. k - 1 \in 1..Len(list) /\ new[k] = list[k - 1]
        BY <1>1, <1>3, <3>2
      <4>2. QED
        BY <1>1, <4>1 DEF IInv, NoOverlap, BelowBreak, list
    <3>3. QED
      BY <3>1, <3>2
  <2>3. QED
    BY <1>2, <1>4, <2>1, <2>2 DEF BelowBreak
<1>12. TypeOK'
  <2>1. symrgtbl' \in [RgIds -> Rgs]
    BY <1>1, <1>2, <1>5
  <2>2. QED
    BY <1>2, <1>3, <2>1 DEF IInv, TypeOK, Rgs
<1>13. AllocInv'
  BY <1>2 DEF IInv, AllocInv
<1>14. Promise!Next
  <2>1. Promise!Free(r)
    BY <1>2 DEF Promise!Free, Promise!NoRegion, NoRegion, Region
  <2>2. QED
    BY <2>1 DEF Promise!Next
<1>15. QED
  BY <1>8, <1>9, <1>10, <1>11, <1>12, <1>13, <1>14 DEF IInv, NoOverlap

(* The steps of the system call leave the regions alone. *)
LEMMA CallStep ==
  ASSUME IInv, NEW p \in Procs,
         \/ \E n \in UserIncs : UserInc(p, n)
         \/ UserIncEnd(p)
         \/ SysNext(p)
  PROVE  IInv' /\ UNCHANGED symrgtbl
<1>1. UNCHANGED area /\ UNCHANGED mmvm_lock
  BY DEF UserInc, UserIncEnd, SysNext, NotFound, IncRead, IncAdd, IncWrite, IncMap
<1>2. NoOverlap'
  BY <1>1 DEF area, IInv, NoOverlap, NamesApart, ListApart, FreeApart, BelowBreak, Apart
<1>3. TypeOK' /\ AllocInv'
  <2>1. CASE \E n \in UserIncs : UserInc(p, n)
    <3>1. PICK n \in UserIncs : UserInc(p, n)
      BY <2>1
    <3>2. n \in Nat
      BY RegionsAssumption
    <3>3. /\ call' = [call EXCEPT ![p] = [NoCall EXCEPT !.inc_sz = n]]
          /\ pc' = [pc EXCEPT ![p] = "inc"] /\ vm_end' = vm_end
      BY <3>1 DEF UserInc, Goto
    <3>4. QED
      BY <1>1, <3>2, <3>3 DEF area, IInv, TypeOK, AllocInv, NoCall
  <2>2. CASE UserIncEnd(p)
    <3>1. /\ call' = [call EXCEPT ![p] = NoCall]
          /\ pc' = [pc EXCEPT ![p] = "run"] /\ vm_end' = vm_end
      BY <2>2 DEF UserIncEnd, Goto
    <3>2. QED
      BY <1>1, <3>1 DEF area, IInv, TypeOK, AllocInv, NoCall
  <2>3. CASE NotFound(p) \/ IncMap(p)
    BY <1>1, <2>3 DEF area, IInv, TypeOK, AllocInv, NotFound, IncMap, Goto
  <2>4. CASE IncRead(p)
    <3>1. /\ call' = [call EXCEPT ![p].old_vm_end = vm_end]
          /\ pc' = [pc EXCEPT ![p] = "add"] /\ vm_end' = vm_end
      BY <2>4 DEF IncRead, Goto
    <3>2. QED
      BY <1>1, <3>1 DEF area, IInv, TypeOK, AllocInv
  <2>5. CASE IncAdd(p)
    <3>1. /\ call' = [call EXCEPT ![p].new_vm_end = vm_end + AlignSz(call[p].inc_sz)]
          /\ pc' = [pc EXCEPT ![p] = "limit"] /\ vm_end' = vm_end
      BY <2>5 DEF IncAdd, Goto
    <3>2. vm_end \in Nat /\ call[p].inc_sz \in Nat
      BY DEF IInv, TypeOK
    <3>3. vm_end + AlignSz(call[p].inc_sz) \in Nat
      BY <3>2, ArithmeticType
    <3>4. QED
      BY <1>1, <3>1, <3>3 DEF area, IInv, TypeOK, AllocInv
  <2>6. CASE IncWrite(p)
    <3>1. /\ vm_end' = call[p].new_vm_end
          /\ pc' = [pc EXCEPT ![p] = "map"] /\ call' = call
      BY <2>6 DEF IncWrite, Goto
    <3>2. QED
      BY <1>1, <3>1 DEF area, IInv, TypeOK, AllocInv
  <2>7. QED
    BY <2>1, <2>2, <2>3, <2>4, <2>5, <2>6 DEF SysNext
<1>4. QED
  BY <1>1, <1>2, <1>3 DEF IInv, area

(* A step keeps the invariant and is one of the promise, or a stutter. *)
LEMMA NextStep ==
  ASSUME IInv, [Next]_vars
  PROVE  IInv' /\ [Promise!Next]_symrgtbl
<1>1. ASSUME NEW p \in Procs, NEW r \in RgIds, NEW n \in Sizes, AllocReuse(p, r, n)
      PROVE  IInv' /\ [Promise!Next]_symrgtbl
  BY <1>1, ReuseStep
<1>2. ASSUME NEW p \in Procs, NEW r \in RgIds, NEW n \in Sizes, AllocGrow(p, r, n)
      PROVE  IInv' /\ [Promise!Next]_symrgtbl
  BY <1>2, GrowStep
<1>3. ASSUME NEW p \in Procs, NEW r \in RgIds, Free(p, r)
      PROVE  IInv' /\ [Promise!Next]_symrgtbl
  BY <1>3, FreeStep
<1>4. ASSUME NEW p \in Procs, AllocEnd(p)
      PROVE  IInv' /\ [Promise!Next]_symrgtbl
  BY <1>4, EndStep
<1>5. ASSUME NEW p \in Procs,
             \/ \E n \in UserIncs : UserInc(p, n)
             \/ UserIncEnd(p)
             \/ SysNext(p)
      PROVE  IInv' /\ [Promise!Next]_symrgtbl
  BY <1>5, CallStep
<1>6. CASE UNCHANGED vars
  BY <1>6 DEF vars, area, IInv, TypeOK, AllocInv, NoOverlap, NamesApart,
              ListApart, FreeApart, BelowBreak, Apart
<1>7. QED
  BY <1>1, <1>2, <1>3, <1>4, <1>5, <1>6 DEF Next

(* The inductive invariant holds in every reachable state. *)
LEMMA Invariance == Spec => []IInv
BY InitIInv, NextStep, PTL DEF Spec

-----------------------------------------------------------------------------
(***************************************************************************)
(* Every variable holds a value of its kind, whatever the programs         *)
(* allocate, free and ask of the system (src/libmem.c, src/mm-vm.c).       *)
(***************************************************************************)
THEOREM TypeCorrect == Spec => []TypeOK
BY Invariance, PTL DEF IInv

(***************************************************************************)
(* No byte has two owners among the names and the entries of the list of   *)
(* freed regions, and all are below the break (get_free_vmrg_area, __alloc *)
(* and __free in src/libmem.c), though programs make the system call       *)
(* without the lock and the call can fail.                                 *)
(***************************************************************************)
THEOREM NoByteHasTwoOwners == Spec => []NoOverlap
BY Invariance, PTL DEF IInv

(***************************************************************************)
(* The regions of src/libmem.c implement the allocator of module Heap: a   *)
(* region handed out has the size asked for and meets no other one.        *)
(***************************************************************************)
THEOREM RegionsImplementHeap == Spec => ImplementsHeap
<1>1. Init => Promise!Init
  BY DEF Init, Promise!Init, NoRegion, Promise!NoRegion, Region
<1>2. QED
  BY <1>1, Invariance, NextStep, PTL DEF Spec, ImplementsHeap, Promise!Spec

-----------------------------------------------------------------------------
(* No byte disappears *)

(* The bytes below the break that have an owner, or lost their name. *)
Owned(b) == \/ \E r \in RgIds : b \in Bytes(symrgtbl[r])
            \/ \E j \in DOMAIN vm_freerg_list : b \in Bytes(vm_freerg_list[j])
            \/ b \in lost

(* Carving n bytes out of entry j loses none: a byte of the old list is    *)
(* among the bytes taken out or in the new list.                           *)
LEMMA CarveCovers ==
  ASSUME NEW list \in Seq(Rgs), NEW j \in 1..Len(list), NEW n \in Nat,
         Fits(list[j], n),
         NEW k \in 1..Len(list), NEW b \in Bytes(list[k])
  PROVE  \/ b \in Bytes(Region(list[j].rg_start, list[j].rg_start + n))
         \/ \E m \in DOMAIN Carve(list, j, n) : b \in Bytes(Carve(list, j, n)[m])
<1> DEFINE new   == Carve(list, j, n)
           from  == list[j].rg_start
           to    == list[j].rg_end
           taken == Region(from, from + n)
<1>1. /\ Len(list) \in Nat /\ DOMAIN list = 1..Len(list)
      /\ list[j] \in Rgs /\ list[k] \in Rgs
  BY ElementOfSeq, LenProperties
<1>2. from \in Nat /\ to \in Nat /\ from + n <= to
  BY <1>1 DEF Fits, Rgs
<1>3. b \in Nat /\ list[k].rg_start <= b /\ b < list[k].rg_end
  BY <1>1 DEF Bytes, Rgs
<1>4. taken.rg_start = from /\ taken.rg_end = from + n
  BY <1>2, RegionType
<1>5. ASSUME NEW x \in Rgs, new = [list EXCEPT ![j] = x],
             x.rg_start <= from + n, x.rg_end = to
      PROVE  b \in Bytes(taken) \/ \E m \in DOMAIN new : b \in Bytes(new[m])
  <2>1. k \in DOMAIN new /\ new[k] = IF k = j THEN x ELSE list[k]
    BY <1>1, <1>5
  <2>2. CASE k # j
    BY <2>1, <2>2
  <2>3. CASE k = j
    <3>1. from <= b /\ b < to
      BY <1>3, <2>3
    <3>2. CASE b < from + n
      <4>1. b \in Bytes(taken)
        BY <1>2, <1>3, <1>4, <3>1, <3>2 DEF Bytes
      <4>2. QED
        BY <4>1
    <3>3. CASE ~(b < from + n)
      <4>1. x.rg_start \in Nat /\ x.rg_start <= b /\ b < x.rg_end
        BY <1>2, <1>3, <1>5, <3>1, <3>3 DEF Rgs
      <4>2. b \in Bytes(x)
        BY <1>2, <1>3, <1>5, <4>1 DEF Bytes
      <4>3. QED
        BY <2>1, <2>3, <4>2
    <3>4. QED
      BY <3>2, <3>3
  <2>4. QED
    BY <2>2, <2>3
<1>6. CASE from + n < to
  <2>1. new = [list EXCEPT ![j] = Region(from + n, to)]
    BY <1>1, <1>6 DEF Carve
  <2>2. /\ Region(from + n, to) \in Rgs
        /\ Region(from + n, to).rg_start <= from + n /\ Region(from + n, to).rg_end = to
    BY <1>2, RegionType
  <2>3. QED
    BY <1>5, <2>1, <2>2
<1>7. CASE ~(from + n < to) /\ ~(j < Len(list))
  <2>1. new = [list EXCEPT ![j] = Region(to, to)]
    BY <1>1, <1>7 DEF Carve
  <2>2. to <= from + n
    BY <1>2, <1>7
  <2>3. QED
    BY <1>2, <1>5, <2>1, <2>2, RegionType
<1>8. CASE ~(from + n < to) /\ j < Len(list)
  <2>1. /\ new \in Seq(Rgs) /\ Len(new) = Len(list) - 1
        /\ \A i \in 1..(Len(list) - 1) :
             new[i] = IF i < j THEN list[i] ELSE list[i + 1]
    BY <1>1, <1>8, RemoveAtEntries DEF Carve
  <2>2. DOMAIN new = 1..(Len(list) - 1)
    BY <2>1, LenProperties
  <2> HIDE DEF new
  <2>3. CASE k = j
    <3>1. b \in Bytes(taken)
      BY <1>2, <1>3, <1>4, <1>8, <2>3 DEF Bytes
    <3>2. QED
      BY <3>1 DEF taken
  <2>4. CASE k < j
    <3>1. k \in DOMAIN new /\ new[k] = list[k]
      BY <1>1, <2>1, <2>2, <2>4
    <3>2. QED
      BY <3>1 DEF new
  <2>5. CASE k > j
    <3>1. k - 1 \in DOMAIN new /\ new[k - 1] = list[k]
      BY <1>1, <2>1, <2>2, <2>5
    <3>2. QED
      BY <3>1 DEF new
  <2>6. QED
    BY <1>1, <2>3, <2>4, <2>5
<1>9. QED
  BY <1>6, <1>7, <1>8

(* What an operation does not take from its owner stays owned, and the     *)
(* region it cuts off the break has a name.                                *)
LEMMA OwnedStep ==
  ASSUME IInv, Accounted, [Next]_vars
  PROVE  Accounted'
<1>1. /\ symrgtbl \in [RgIds -> Rgs] /\ vm_freerg_list \in Seq(Rgs)
      /\ sbrk \in Nat /\ DOMAIN vm_freerg_list = 1..Len(vm_freerg_list)
  BY LenProperties DEF IInv, TypeOK, Rgs
<1>2. \A b \in 0..(sbrk - 1) : Owned(b)
  BY DEF Accounted, Owned
<1>3. ASSUME \A b \in 0..(sbrk' - 1) : Owned(b)' PROVE Accounted'
  BY <1>3 DEF Accounted, Owned
<1>4. ASSUME NEW p \in Procs, NEW r \in RgIds, NEW n \in Sizes, AllocReuse(p, r, n)
      PROVE  Accounted'
  <2> DEFINE list  == vm_freerg_list
             j     == FirstFit(list, n)
             taken == Region(list[j].rg_start, list[j].rg_start + n)
  <2>1. n \in Nat /\ j \in 1..Len(list) /\ Fits(list[j], n)
    BY <1>1, <1>4, FirstFitFits, RegionsAssumption DEF AllocReuse, HasFit
  <2>2. /\ vm_freerg_list' = Carve(list, j, n) /\ sbrk' = sbrk
        /\ lost' = lost \cup Bytes(symrgtbl[r])
        /\ symrgtbl' = [symrgtbl EXCEPT ![r] = taken]
    BY <1>4 DEF AllocReuse, SetSymbol
  <2> HIDE DEF j, list, taken
  <2>3. symrgtbl'[r] = taken /\ \A q \in RgIds \ {r} : symrgtbl'[q] = symrgtbl[q]
    BY <1>1, <2>2
  <2>4. ASSUME NEW k \in 1..Len(list), NEW b \in Bytes(list[k]) PROVE Owned(b)'
    <3>1. \/ b \in Bytes(taken)
          \/ \E m \in DOMAIN Carve(list, j, n) : b \in Bytes(Carve(list, j, n)[m])
      BY <1>1, <2>1, CarveCovers DEF list, taken
    <3>2. QED
      BY <2>2, <2>3, <3>1 DEF Owned, Bytes
  <2>5. ASSUME NEW b \in 0..(sbrk - 1) PROVE Owned(b)'
    <3>1. CASE \E q \in RgIds : b \in Bytes(symrgtbl[q])
      BY <2>2, <2>3, <3>1 DEF Owned, Bytes
    <3>2. CASE \E k \in DOMAIN list : b \in Bytes(list[k])
      BY <1>1, <2>4, <3>2 DEF list
    <3>3. CASE b \in lost
      BY <2>2, <3>3 DEF Owned
    <3>4. QED
      BY <1>2, <3>1, <3>2, <3>3 DEF Owned, list
  <2>6. QED
    BY <1>3, <2>2, <2>5
<1>5. ASSUME NEW p \in Procs, AllocEnd(p)
      PROVE  Accounted'
  <2> DEFINE r   == call[p].rgid
             n   == call[p].size
             new == Region(sbrk, sbrk + n)
  <2>1. r \in RgIds /\ n \in Nat /\ call[p].old_sbrk = sbrk
    BY <1>5 DEF IInv, TypeOK, AllocInv, AllocEnd
  <2>2. new \in Rgs /\ new.rg_start = sbrk /\ new.rg_end = sbrk + n
    BY <1>1, <2>1, RegionType
  <2>3. /\ lost' = lost \cup Bytes(symrgtbl[r])
        /\ symrgtbl' = [symrgtbl EXCEPT ![r] = new]
        /\ sbrk' = sbrk + n /\ vm_freerg_list' = vm_freerg_list
    BY <1>5, <2>1, <2>2 DEF AllocEnd, NewRegion, SetSymbol
  <2> HIDE DEF r, n, new
  <2>4. symrgtbl'[r] = new /\ \A q \in RgIds \ {r} : symrgtbl'[q] = symrgtbl[q]
    BY <1>1, <2>1, <2>3
  <2>5. ASSUME NEW b \in 0..(sbrk - 1) PROVE Owned(b)'
    <3>1. Owned(b)
      BY <1>2
    <3>2. QED
      BY <2>1, <2>3, <2>4, <3>1 DEF Owned, Bytes
  <2>6. ASSUME NEW b \in sbrk..(sbrk + n - 1) PROVE Owned(b)'
    <3>1. b \in Bytes(new)
      BY <1>1, <2>1, <2>2 DEF Bytes
    <3>2. QED
      BY <2>1, <2>4, <3>1 DEF Owned, Bytes
  <2>7. \A b \in 0..(sbrk' - 1) : b \in 0..(sbrk - 1) \/ b \in sbrk..(sbrk + n - 1)
    BY <1>1, <2>1, <2>3
  <2>8. QED
    BY <1>3, <2>5, <2>6, <2>7
<1>6. ASSUME NEW p \in Procs, NEW r \in RgIds, Free(p, r)
      PROVE  Accounted'
  <2> DEFINE list == vm_freerg_list
             new  == <<symrgtbl[r]>> \o list
  <2>1. /\ vm_freerg_list' = new /\ UNCHANGED <<lost, sbrk>>
        /\ symrgtbl' = [symrgtbl EXCEPT ![r] = NoRegion]
    BY <1>6 DEF Free
  <2>2. /\ new \in Seq(Rgs) /\ Len(new) = Len(list) + 1 /\ Len(list) \in Nat
        /\ \A k \in 1..Len(new) : new[k] = IF k = 1 THEN symrgtbl[r] ELSE list[k - 1]
    BY <1>1, PrependEntries, LenProperties
  <2> HIDE DEF new
  <2>3. /\ 1 \in DOMAIN new /\ new[1] = symrgtbl[r]
        /\ \A k \in DOMAIN list : k + 1 \in DOMAIN new /\ new[k + 1] = list[k]
    BY <1>1, <2>2, LenProperties
  <2>4. \A q \in RgIds \ {r} : symrgtbl'[q] = symrgtbl[q]
    BY <1>1, <2>1
  <2> HIDE DEF list
  <2>5. ASSUME NEW b \in 0..(sbrk - 1) PROVE Owned(b)'
    <3>1. CASE \E q \in RgIds : b \in Bytes(symrgtbl[q])
      BY <2>1, <2>3, <2>4, <3>1 DEF Owned, Bytes
    <3>2. CASE \E k \in DOMAIN list : b \in Bytes(list[k])
      BY <2>1, <2>3, <3>2 DEF Owned, Bytes
    <3>3. CASE b \in lost
      BY <2>1, <3>3 DEF Owned
    <3>4. QED
      BY <1>2, <3>1, <3>2, <3>3 DEF Owned, list
  <2>6. QED
    BY <1>3, <2>1, <2>5
<1>7. ASSUME UNCHANGED area PROVE Accounted'
  BY <1>2, <1>3, <1>7 DEF area, Owned, Bytes
<1>8. ASSUME NEW p \in Procs, NEW r \in RgIds, NEW n \in Sizes, AllocGrow(p, r, n)
      PROVE  UNCHANGED area
  BY <1>8 DEF AllocGrow
<1>9. ASSUME NEW p \in Procs,
             \/ \E n \in UserIncs : UserInc(p, n)
             \/ UserIncEnd(p)
             \/ SysNext(p)
      PROVE  UNCHANGED area
  BY <1>9 DEF UserInc, UserIncEnd, SysNext, NotFound, IncRead, IncAdd, IncWrite, IncMap
<1>10. QED
  BY <1>4, <1>5, <1>6, <1>7, <1>8, <1>9 DEF Next, vars

(***************************************************************************)
(* No byte below the break disappears in src/libmem.c: it belongs to a     *)
(* name or to the list of freed regions, unless its name was used anew     *)
(* before it was freed.                                                    *)
(***************************************************************************)
THEOREM NoByteDisappears == Spec => []Accounted
<1>1. Init => Accounted
  BY DEF Init, Accounted
<1>2. QED
  BY <1>1, Invariance, OwnedStep, PTL DEF Spec

-----------------------------------------------------------------------------
(* The limit of the area *)

(***************************************************************************)
(* When nothing but __alloc grows the area, the process in the system call *)
(* is the one that holds the lock: the limit it read is still the limit,   *)
(* and once it has written the new one there is room for its region.       *)
(***************************************************************************)
CallInv ==
  \A p \in Procs :
    /\ pc[p] # "run" => call[p].rgid # NULL /\ call[p].inc_sz >= 1
    /\ pc[p] = "limit" => call[p].new_vm_end = vm_end + AlignSz(call[p].inc_sz)
    /\ pc[p] \in {"map", "back"} => sbrk + call[p].size <= vm_end

LimitInv == IInv /\ WithinLimit /\ CallInv

(* The system call grows the area by a page at least. *)
LEMMA AlignSzPage ==
  ASSUME NEW n \in Nat, n >= 1
  PROVE  AlignSz(n) \in Nat /\ AlignSz(n) >= PageSz
<1>1. PageSz \in Nat \ {0}
  BY RegionsAssumption
<1> DEFINE m == n + PageSz - 1
<1>2. m \in Nat /\ m >= PageSz
  BY <1>1
<1> HIDE DEF m
<1>3. m \div PageSz \in Nat /\ m \div PageSz >= 1
  BY <1>1, <1>2
<1>4. \A k \in Nat : k >= 1 => k * PageSz >= PageSz /\ k * PageSz \in Nat
  BY <1>1
<1>5. QED
  BY <1>3, <1>4 DEF AlignSz, m

LEMMA LimitStep ==
  ASSUME UserIncs = {}, ~LookupMisses, \A n \in Sizes : n <= PageSz,
         LimitInv, [Next]_vars
  PROVE  LimitInv'
<1>1. IInv /\ IInv'
  BY NextStep DEF LimitInv
<1>2. \A p, q \in Procs : pc[p] # "run" /\ pc[q] # "run" => p = q
  BY DEF LimitInv, IInv, AllocInv, CallInv
<1>3. \A p \in Procs : mmvm_lock = NULL => pc[p] = "run"
  BY RegionsAssumption DEF LimitInv, IInv, AllocInv, CallInv
<1>4. ASSUME NEW p \in Procs, NEW r \in RgIds, NEW n \in Sizes, AllocReuse(p, r, n)
      PROVE  (WithinLimit /\ CallInv)'
  BY <1>4 DEF AllocReuse, LimitInv, WithinLimit, CallInv
<1>5. ASSUME NEW p \in Procs, NEW r \in RgIds, Free(p, r)
      PROVE  (WithinLimit /\ CallInv)'
  BY <1>5 DEF Free, LimitInv, WithinLimit, CallInv
<1>6. ASSUME NEW p \in Procs, NEW r \in RgIds, NEW n \in Sizes, AllocGrow(p, r, n)
      PROVE  (WithinLimit /\ CallInv)'
  <2>1. /\ mmvm_lock = NULL
        /\ UNCHANGED <<sbrk, vm_end>>
        /\ call' = [call EXCEPT ![p] = AllocCall(r, n, (n \div PageSz) + 1)]
        /\ pc' = [pc EXCEPT ![p] = "inc"]
    BY <1>6 DEF AllocGrow, Goto, area
  <2>2. (n \div PageSz) + 1 >= 1
    <3>1. n \in Nat
      BY RegionsAssumption
    <3>2. n \div PageSz \in Nat
      BY <3>1, ArithmeticType
    <3>3. QED
      BY <3>2
  <2>3. ASSUME NEW q \in Procs
        PROVE  IF q = p
                 THEN /\ pc'[q] = "inc" /\ call'[q].rgid = r
                      /\ call'[q].inc_sz = (n \div PageSz) + 1
                 ELSE pc'[q] = "run"
    BY <1>1, <1>3, <2>1 DEF IInv, TypeOK, AllocCall, NoCall
  <2>4. r # NULL
    BY RegionsAssumption
  <2>5. CallInv'
    BY <2>2, <2>3, <2>4 DEF CallInv
  <2>6. QED
    BY <2>1, <2>5 DEF LimitInv, WithinLimit
<1>7. ASSUME NEW p \in Procs, AllocEnd(p)
      PROVE  (WithinLimit /\ CallInv)'
  <2>1. /\ pc[p] = "back" /\ vm_end' = vm_end /\ pc' = [pc EXCEPT ![p] = "run"]
        /\ sbrk' = call[p].old_sbrk + call[p].size /\ call[p].old_sbrk = sbrk
    BY <1>1, <1>7 DEF AllocEnd, NewRegion, Region, Goto, IInv, AllocInv
  <2>2. \A q \in Procs : pc'[q] = "run"
    BY <1>1, <1>2, <2>1 DEF IInv, TypeOK
  <2>3. CallInv'
    BY <2>2 DEF CallInv
  <2>4. sbrk + call[p].size <= vm_end
    BY <2>1 DEF LimitInv, CallInv
  <2>5. QED
    BY <2>1, <2>3, <2>4 DEF WithinLimit
<1>8. ASSUME NEW p \in Procs,
             \/ \E n \in UserIncs : UserInc(p, n)
             \/ UserIncEnd(p)
             \/ NotFound(p)
      PROVE  FALSE
  BY <1>8 DEF UserIncEnd, NotFound, LimitInv, CallInv
<1>9. ASSUME NEW p \in Procs, IncRead(p)
      PROVE  (WithinLimit /\ CallInv)'
  <2>1. /\ pc[p] = "inc" /\ UNCHANGED <<sbrk, vm_end>>
        /\ call' = [call EXCEPT ![p].old_vm_end = vm_end]
        /\ pc' = [pc EXCEPT ![p] = "add"]
    BY <1>9 DEF IncRead, Goto, area
  <2>2. ASSUME NEW q \in Procs
        PROVE  /\ call'[q].rgid = call[q].rgid /\ call'[q].inc_sz = call[q].inc_sz
               /\ pc'[q] = IF q = p THEN "add" ELSE pc[q]
               /\ q # p => pc[q] = "run"
    BY <1>1, <1>2, <2>1 DEF IInv, TypeOK
  <2>3. CallInv'
    BY <2>1, <2>2 DEF LimitInv, CallInv
  <2>4. QED
    BY <2>1, <2>3 DEF LimitInv, WithinLimit
<1>10. ASSUME NEW p \in Procs, IncAdd(p)
       PROVE  (WithinLimit /\ CallInv)'
  <2>1. /\ pc[p] = "add" /\ UNCHANGED <<sbrk, vm_end>>
        /\ call' = [call EXCEPT ![p].new_vm_end = vm_end + AlignSz(call[p].inc_sz)]
        /\ pc' = [pc EXCEPT ![p] = "limit"]
    BY <1>10 DEF IncAdd, Goto, area
  <2>2. ASSUME NEW q \in Procs
        PROVE  /\ call'[q].rgid = call[q].rgid /\ call'[q].inc_sz = call[q].inc_sz
               /\ pc'[q] = IF q = p THEN "limit" ELSE pc[q]
               /\ q = p => call'[q].new_vm_end = vm_end + AlignSz(call[q].inc_sz)
               /\ q # p => pc[q] = "run"
    BY <1>1, <1>2, <2>1 DEF IInv, TypeOK
  <2>3. \A q \in Procs : AlignSz(call[q].inc_sz)' = AlignSz(call[q].inc_sz)
    BY <2>2 DEF AlignSz
  <2>4. CallInv'
    BY <2>1, <2>2, <2>3 DEF LimitInv, CallInv
  <2>5. QED
    BY <2>1, <2>4 DEF LimitInv, WithinLimit
<1>11. ASSUME NEW p \in Procs, IncWrite(p)
       PROVE  (WithinLimit /\ CallInv)'
  <2>1. /\ pc[p] = "limit" /\ UNCHANGED <<sbrk, call>>
        /\ vm_end' = call[p].new_vm_end
        /\ pc' = [pc EXCEPT ![p] = "map"]
    BY <1>11 DEF IncWrite, Goto, area
  <2>2. /\ call[p].rgid # NULL /\ call[p].inc_sz \in Nat /\ call[p].inc_sz >= 1
        /\ call[p].new_vm_end = vm_end + AlignSz(call[p].inc_sz)
        /\ call[p].size \in Nat /\ call[p].size <= PageSz
        /\ sbrk \in Nat /\ vm_end \in Nat /\ sbrk <= vm_end
    <3>1. /\ call[p].rgid # NULL /\ call[p].inc_sz >= 1
          /\ call[p].new_vm_end = vm_end + AlignSz(call[p].inc_sz)
      BY <2>1 DEF LimitInv, CallInv
    <3>2. call[p].size \in Sizes
      BY <1>1, <3>1 DEF IInv, AllocInv
    <3>3. QED
      BY <1>1, <3>1, <3>2 DEF IInv, TypeOK, LimitInv, WithinLimit
  <2>3. AlignSz(call[p].inc_sz) \in Nat /\ AlignSz(call[p].inc_sz) >= PageSz
    BY <2>2, AlignSzPage
  <2>4. PageSz \in Nat
    BY RegionsAssumption
  <2>5. sbrk <= vm_end' /\ sbrk + call[p].size <= vm_end'
    BY <2>1, <2>2, <2>3, <2>4
  <2>6. ASSUME NEW q \in Procs
        PROVE  IF q = p THEN pc'[q] = "map" ELSE pc'[q] = "run"
    BY <1>1, <1>2, <2>1 DEF IInv, TypeOK
  <2>7. CallInv'
    BY <2>1, <2>2, <2>5, <2>6 DEF CallInv
  <2>8. QED
    BY <2>1, <2>5, <2>7 DEF WithinLimit
<1>12. ASSUME NEW p \in Procs, IncMap(p)
       PROVE  (WithinLimit /\ CallInv)'
  <2>1. /\ pc[p] = "map" /\ UNCHANGED <<sbrk, vm_end, call>>
        /\ pc' = [pc EXCEPT ![p] = "back"]
    BY <1>12 DEF IncMap, Goto, area
  <2>2. ASSUME NEW q \in Procs
        PROVE  pc'[q] = IF q = p THEN "back" ELSE pc[q]
    BY <1>1, <2>1 DEF IInv, TypeOK
  <2>3. CallInv'
    BY <2>1, <2>2 DEF LimitInv, CallInv
  <2>4. QED
    BY <2>1, <2>3 DEF LimitInv, WithinLimit
<1>13. ASSUME UNCHANGED vars
       PROVE  (WithinLimit /\ CallInv)'
  BY <1>13 DEF vars, area, LimitInv, WithinLimit, CallInv
<1>14. (WithinLimit /\ CallInv)'
  BY <1>4, <1>5, <1>6, <1>7, <1>8, <1>9, <1>10, <1>11, <1>12, <1>13 DEF Next, SysNext
<1>15. QED
  BY <1>1, <1>14 DEF LimitInv

(***************************************************************************)
(* The break stays within the limit that inc_vma_limit writes, although    *)
(* __alloc passes pages where bytes are meant, as long as no region is     *)
(* larger than a page, no program grows the area itself and __sys_memmap   *)
(* finds its caller.  The run of MCRegionsPage.cfg breaks the first.       *)
(***************************************************************************)
THEOREM BreakWithinLimit ==
  ASSUME UserIncs = {}, ~LookupMisses, \A n \in Sizes : n <= PageSz
  PROVE  Spec => []WithinLimit
<1>1. Init => LimitInv
  <2>1. Init => IInv
    BY InitIInv
  <2>2. Init => WithinLimit /\ CallInv
    BY DEF Init, WithinLimit, CallInv
  <2>3. QED
    BY <2>1, <2>2 DEF LimitInv
<1>2. LimitInv /\ [Next]_vars => LimitInv'
  BY LimitStep
<1>3. LimitInv => WithinLimit
  BY DEF LimitInv
<1>4. QED
  BY <1>1, <1>2, <1>3, PTL DEF Spec
=============================================================================
