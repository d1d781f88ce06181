-------------------------- MODULE PageTableProofs --------------------------
(***************************************************************************)
(* Proofs about the page table, for any number of levels, width of tables, *)
(* processes and page numbers: what the fields of an entry give back, and  *)
(* that the walks of different pages end at different entries.             *)
(***************************************************************************)
EXTENDS PageTable, SeqLemmas

-----------------------------------------------------------------------------
(* The macros of mm.h *)

(* A field gives back the value it was set to, if the value fits. *)
LEMMA FieldReadBack ==
  ASSUME NEW v \in Word, NEW h \in Bits32, NEW l \in Bits32,
         NEW value \in SUBSET (0..(h - l))
  PROVE  GETVAL(SETVAL(v, value, GENMASK(h, l), l), GENMASK(h, l), l) = value
<1> DEFINE w == SETVAL(v, value, GENMASK(h, l), l)
<1>1. \A c \in l..h : c \in w <=> c - l \in value
  BY DEF SETVAL, GENMASK, ShiftLeft, Complement, Bits32, Bits64
<1> HIDE DEF w
<1>2. \A b : b \in GETVAL(w, GENMASK(h, l), l) <=> b \in 0..(h - l) /\ b + l \in w
  BY DEF GETVAL, GENMASK, Bits32, Bits64
<1>3. \A b \in 0..(h - l) : b + l \in l..h /\ (b + l) - l = b
  BY DEF Bits32
<1>4. \A b \in 0..(h - l) : b + l \in w <=> b \in value
  BY <1>1, <1>3
<1>5. \A b : b \in GETVAL(w, GENMASK(h, l), l) <=> b \in value
  BY <1>2, <1>4
<1>6. QED
  BY <1>5 DEF w

(* Setting a field leaves the bits beside it, of the lower half, alone. *)
LEMMA FieldApart ==
  ASSUME NEW v, NEW value, NEW mask \in Mask, NEW offst,
         NEW b \in Bits32 \ mask
  PROVE  b \in SETVAL(v, value, mask, offst) <=> b \in v
BY DEF SETVAL, Complement

(***************************************************************************)
(* pte_set_fpn of src/mm64.c: the entry is then present, not swapped, and  *)
(* PAGING_FPN gives the frame number, whatever the entry held before.      *)
(***************************************************************************)
THEOREM FpnReadBack ==
  ASSUME NEW v \in Word, NEW fpn \in SUBSET (0..12)
  PROVE  /\ PresentMask \subseteq FpnWord(v, fpn)
         /\ SwappedMask \cap FpnWord(v, fpn) = {}
         /\ GETVAL(FpnWord(v, fpn), FpnMask, FpnLobit) = fpn
<1> DEFINE w == CLRBIT(SETBIT(v, PresentMask), SwappedMask)
<1>1. w \in Word /\ 31 \in w /\ 30 \notin w
  BY DEF CLRBIT, SETBIT, PresentMask, SwappedMask, Complement, Word, Bits64, Bits32
<1>2. FpnWord(v, fpn) = SETVAL(w, fpn, GENMASK(12, 0), 0)
  BY DEF FpnWord, FpnMask, FpnLobit
<1> HIDE DEF w
<1>3. /\ 31 \in SETVAL(w, fpn, GENMASK(12, 0), 0)
      /\ 30 \notin SETVAL(w, fpn, GENMASK(12, 0), 0)
  BY <1>1 DEF SETVAL, GENMASK, Complement, Bits32
<1>4. GETVAL(SETVAL(w, fpn, GENMASK(12, 0), 0), GENMASK(12, 0), 0) = fpn
  <2>1. 12 \in Bits32 /\ 0 \in Bits32 /\ fpn \in SUBSET (0..(12 - 0))
    BY DEF Bits32
  <2>2. QED
    BY <1>1, <2>1, FieldReadBack
<1>5. QED
  BY <1>2, <1>3, <1>4 DEF PresentMask, SwappedMask, FpnMask, FpnLobit

(***************************************************************************)
(* pte_set_swap of src/mm64.c: PAGING_SWP gives the swap offset, the entry *)
(* stays present, and PAGING_FPN, which pg_getpage takes of an entry that  *)
(* is present, gives the low bits of the offset: bit b is bit b + 5.       *)
(***************************************************************************)
THEOREM SwapReadBack ==
  ASSUME NEW v \in Word, NEW swpoff \in SUBSET (0..20)
  PROVE  LET w == SwapWord(v, {}, swpoff)
         IN  /\ (PresentMask \cup SwappedMask) \subseteq w
             /\ GETVAL(w, SwpOffMask, SwpOffLobit) = swpoff
             /\ GETVAL(w, FpnMask, FpnLobit) = {b + 5 : b \in swpoff \cap (0..7)}
<1> DEFINE w == SwapWord(v, {}, swpoff)
<1>1. \A b \in 0..4 : b \notin w
  BY DEF SwapWord, SETVAL, SETBIT, GENMASK, ShiftLeft, Complement, Bits32, Bits64,
         SwpTypMask, SwpTypLobit, SwpOffMask, SwpOffLobit
<1>2. \A b \in 5..25 : b \in w <=> b - 5 \in swpoff
  BY DEF SwapWord, SETVAL, SETBIT, GENMASK, ShiftLeft, Complement, Bits32, Bits64,
         SwpTypMask, SwpTypLobit, SwpOffMask, SwpOffLobit
<1>3. 31 \in w /\ 30 \in w
  BY DEF SwapWord, SETVAL, SETBIT, GENMASK, Complement, Bits32,
         SwpTypMask, SwpTypLobit, SwpOffMask, SwpOffLobit, PresentMask, SwappedMask
<1> HIDE DEF w
<1>4. GETVAL(w, SwpOffMask, SwpOffLobit) = swpoff
  <2>1. \A b : b \in GETVAL(w, SwpOffMask, SwpOffLobit) <=> b \in 0..20 /\ b + 5 \in w
    BY DEF GETVAL, GENMASK, SwpOffMask, SwpOffLobit, Bits64
  <2>2. \A b \in 0..20 : b + 5 \in w <=> b \in swpoff
    BY <1>2
  <2>3. QED
    BY <2>1, <2>2
<1>5. GETVAL(w, FpnMask, FpnLobit) = {b + 5 : b \in swpoff \cap (0..7)}
  <2>1. \A b : b \in GETVAL(w, FpnMask, FpnLobit) <=> b \in 0..12 /\ b \in w
    BY DEF GETVAL, GENMASK, FpnMask, FpnLobit, Bits64
  <2>2. \A b : b \in 0..12 /\ b \in w <=> b \in 5..12 /\ b - 5 \in swpoff
    BY <1>1, <1>2
  <2>3. \A b : b \in 5..12 /\ b - 5 \in swpoff
                 <=> \E c \in swpoff \cap (0..7) : b = c + 5
    OBVIOUS
  <2>4. QED
    BY <2>1, <2>2, <2>3
<1>6. QED
  BY <1>3, <1>4, <1>5 DEF w, PresentMask, SwappedMask
-----------------------------------------------------------------------------
(* Page numbers and their parts *)

(* Quotient and remainder are determined by the equation. *)
LEMMA Division ==
  ASSUME NEW a \in Nat, NEW b \in Nat \ {0}
  PROVE  /\ a \div b \in Nat /\ a % b \in 0..(b - 1)
         /\ a = b * (a \div b) + (a % b)
OBVIOUS

LEMMA DivisionUnique ==
  ASSUME NEW b \in Nat \ {0}, NEW q \in Nat, NEW r \in 0..(b - 1)
  PROVE  (b * q + r) \div b = q /\ (b * q + r) % b = r
<1> DEFINE a == b * q + r
<1>1. b * q \in Nat /\ a \in Nat
  OBVIOUS
<1> DEFINE d == a \div b
           m == a % b
<1>2. d \in Nat /\ m \in 0..(b - 1) /\ a = b * d + m
  BY <1>1, Division
<1> HIDE DEF a, d, m
<1>3. b * q + r = b * d + m
  BY <1>2 DEF a
<1>4. ASSUME d < q PROVE FALSE
  <2>1. q = d + (q - d) /\ q - d \in Nat /\ q - d >= 1
    BY <1>2, <1>4
  <2>2. b * q = b * d + b * (q - d)
    BY <1>2, <2>1
  <2>3. b * (q - d) >= b
    BY <2>1
  <2>4. b * d \in Nat /\ b * (q - d) \in Nat /\ b * q \in Nat
    BY <1>2, <2>1
  <2>5. QED
    BY <1>2, <1>3, <2>2, <2>3, <2>4
<1>5. ASSUME q < d PROVE FALSE
  <2>1. d = q + (d - q) /\ d - q \in Nat /\ d - q >= 1
    BY <1>2, <1>5
  <2>2. b * d = b * q + b * (d - q)
    BY <1>2, <2>1
  <2>3. b * (d - q) >= b
    BY <2>1
  <2>4. b * d \in Nat /\ b * (d - q) \in Nat /\ b * q \in Nat
    BY <1>2, <2>1
  <2>5. QED
    BY <1>2, <1>3, <2>2, <2>3, <2>4
<1>6. d = q
  BY <1>2, <1>4, <1>5
<1>7. m = r
  BY <1>1, <1>2, <1>3, <1>6
<1>8. QED
  BY <1>6, <1>7 DEF a, d, m

(* Dividing twice is dividing by the product. *)
LEMMA DivideTwice ==
  ASSUME NEW g \in Nat, NEW w \in Nat \ {0}, NEW f \in Nat \ {0}
  PROVE  /\ f * w \in Nat \ {0}
         /\ g \div (f * w) = (g \div w) \div f
         /\ f * (g \div (f * w)) + ((g \div w) % f) = g \div w
<1> DEFINE q == g \div w
           r == g % w
           q1 == q \div f
           r1 == q % f
<1>1. q \in Nat /\ r \in 0..(w - 1) /\ g = w * q + r
  BY Division
<1> HIDE DEF q, r
<1>2. q1 \in Nat /\ r1 \in 0..(f - 1) /\ q = f * q1 + r1
  BY <1>1, Division
<1> HIDE DEF q1, r1
<1>3. f * w \in Nat \ {0}
  OBVIOUS
<1>4. g = (f * w) * q1 + (w * r1 + r)
  <2>1. w * q = w * (f * q1) + w * r1
    BY <1>1, <1>2
  <2>2. w * (f * q1) = (f * w) * q1
    BY <1>2
  <2>3. QED
    BY <1>1, <1>2, <2>1, <2>2
<1>5. w * r1 + r \in 0..((f * w) - 1)
  <2>1. w * r1 \in Nat /\ w * r1 <= w * (f - 1)
    BY <1>2
  <2>2. w * (f - 1) = f * w - w
    OBVIOUS
  <2>3. QED
    BY <1>1, <1>3, <2>1, <2>2
<1>6. g \div (f * w) = q1
  BY <1>2, <1>3, <1>4, <1>5, DivisionUnique
<1>7. QED
  BY <1>2, <1>3, <1>6 DEF q, q1, r1

(* The digit above a multiple of the base is that of the rest. *)
LEMMA DigitOfSum ==
  ASSUME NEW f \in Nat \ {0}, NEW m \in Nat, NEW q \in Nat
  PROVE  (f * m + q) % f = q % f
<1> DEFINE q1 == q \div f
           r1 == q % f
<1>1. q1 \in Nat /\ r1 \in 0..(f - 1) /\ q = f * q1 + r1
  BY Division
<1> HIDE DEF q1, r1
<1>2. f * m + q = f * (m + q1) + r1 /\ m + q1 \in Nat
  BY <1>1
<1>3. (f * (m + q1) + r1) % f = r1
  BY <1>1, <1>2, DivisionUnique
<1>4. QED
  BY <1>2, <1>3 DEF r1

(* The weight of the first level is a multiple of every other one. *)
LEMMA WeightDivides ==
  ASSUME NEW l \in 1..Levels
  PROVE  \E k \in Nat \ {0} : Weight[1] = k * Weight[l]
<1> DEFINE T == {m \in 1..Levels : ~ \E k \in Nat \ {0} : Weight[1] = k * Weight[m]}
<1>1. SUFFICES T = {}
  OBVIOUS
<1>2. SUFFICES ASSUME T # {} PROVE FALSE
  OBVIOUS
<1>3. PICK m \in T : \A x \in T : m <= x
  <2>1. T \subseteq Nat
    OBVIOUS
  <2> HIDE DEF T
  <2>2. QED
    BY <1>2, <2>1, LeastNumber
<1>4. Weight \in [1..Levels -> Nat \ {0}] /\ Fan \in Nat \ {0} /\ Levels \in Nat
  BY PageTableAssumption
<1>5. m # 1
  <2>1. Weight[1] \in Nat \ {0} /\ Weight[1] = 1 * Weight[1]
    BY <1>4
  <2>2. QED
    BY <2>1
<1>6. m - 1 \in 1..Levels /\ m \in 2..Levels /\ m - 1 \notin T
  BY <1>3, <1>4, <1>5
<1>7. PICK k \in Nat \ {0} : Weight[1] = k * Weight[m - 1]
  BY <1>6
<1>8. Weight[m - 1] = Fan * Weight[m]
  BY <1>6, PageTableAssumption
<1>9. Weight[m] \in Nat \ {0}
  BY <1>4, <1>6
<1>10. k * Fan \in Nat \ {0} /\ k * (Fan * Weight[m]) = (k * Fan) * Weight[m]
  BY <1>4, <1>9
<1>11. QED
  BY <1>3, <1>7, <1>8, <1>10

(* The number of page g without the digits of level l and below. *)
PartOf(g, l) == OnBus(g) \div (Fan * Weight[l])

(* One level further on a walk, the number has one digit more. *)
LEMMA PartOfPage ==
  ASSUME NEW g \in Nat
  PROVE  /\ OnBus(g) \in Nat
         /\ PartOf(g, 1) = 0
         /\ \A l \in 1..Levels : Index(g, l) \in Slots
         /\ \A l \in 1..Levels :
              Fan * PartOf(g, l) + Index(g, l)
                = IF l < Levels THEN PartOf(g, l + 1) ELSE OnBus(g)
<1>1. /\ Levels \in Nat \ {0, 1} /\ Fan \in Nat \ {0}
      /\ \A l \in 1..Levels : Weight[l] \in Nat \ {0}
      /\ Weight[Levels] = 1
      /\ \A l \in 1..Levels : l < Levels => Weight[l] = Fan * Weight[l + 1]
  <2>1. /\ Levels \in Nat \ {0, 1} /\ Fan \in Nat \ {0}
        /\ Weight \in [1..Levels -> Nat \ {0}]
        /\ Weight[Levels] = 1
        /\ \A l \in 2..Levels : Weight[l - 1] = Fan * Weight[l]
    BY PageTableAssumption
  <2>2. ASSUME NEW l \in 1..Levels, l < Levels
        PROVE  Weight[l] = Fan * Weight[l + 1]
    <3>1. l + 1 \in 2..Levels /\ (l + 1) - 1 = l
      BY <2>1, <2>2
    <3>2. QED
      BY <2>1, <3>1
  <2>3. QED
    BY <2>1, <2>2
<1>2. BusPages \in Nat \ {0} /\ OnBus(g) \in 0..(BusPages - 1)
  <2>1. 1 \in 1..Levels
    BY <1>1
  <2>2. BusPages \in Nat \ {0}
    BY <1>1, <2>1 DEF BusPages
  <2>3. QED
    BY <2>2, Division DEF OnBus
<1>3. PartOf(g, 1) = 0
  <2>1. BusPages * 0 + OnBus(g) = OnBus(g)
    BY <1>2
  <2>2. (BusPages * 0 + OnBus(g)) \div BusPages = 0
    BY <1>2, DivisionUnique
  <2>3. QED
    BY <2>1, <2>2 DEF PartOf, BusPages
<1>4. ASSUME NEW l \in 1..Levels
      PROVE  /\ Index(g, l) \in Slots
             /\ Fan * PartOf(g, l) + Index(g, l) = OnBus(g) \div Weight[l]
  <2>1. PICK k \in Nat \ {0} : Weight[1] = k * Weight[l]
    BY WeightDivides
  <2>2. Weight[l] \in Nat \ {0} /\ Weight[1] \in Nat \ {0}
    BY <1>1
  <2>3. BusPages = k * (Fan * Weight[l])
    BY <1>1, <2>1, <2>2 DEF BusPages
  <2>4. Index(g, l) = (OnBus(g) \div Weight[l]) % Fan
    <3> DEFINE w == Weight[l]
               h == OnBus(g)
               c == g \div BusPages
    <3>1. w \in Nat \ {0} /\ Fan \in Nat \ {0}
      BY <1>1, <2>2
    <3>2. c \in Nat /\ h \in Nat /\ g = BusPages * c + h
      <4>1. g \div BusPages \in Nat /\ g % BusPages \in 0..(BusPages - 1)
            /\ g = BusPages * (g \div BusPages) + (g % BusPages)
        BY <1>2, Division
      <4>2. QED
        BY <1>2, <4>1 DEF OnBus
    <3>3. BusPages = k * (Fan * w)
      BY <2>3
    <3> HIDE DEF w, h, c
    <3> DEFINE q == h \div w
               r == h % w
               m == k * c
    <3>4. q \in Nat /\ r \in 0..(w - 1) /\ h = w * q + r
      BY <3>1, <3>2, Division
    <3> HIDE DEF q, r
    <3>5. m \in Nat /\ BusPages * c = w * (Fan * m)
      BY <2>1, <3>1, <3>2, <3>3
    <3> HIDE DEF m
    <3>6. g = w * (Fan * m + q) + r /\ Fan * m + q \in Nat
      <4>1. w * (Fan * m + q) = w * (Fan * m) + w * q
        BY <3>1, <3>4, <3>5
      <4>2. Fan * m \in Nat /\ w * q \in Nat /\ w * (Fan * m) \in Nat
        BY <3>1, <3>4, <3>5
      <4>3. g = w * (Fan * m) + h
        BY <3>2, <3>5
      <4>4. w * (Fan * m) + (w * q + r) = (w * (Fan * m) + w * q) + r
        BY <3>4, <4>2
      <4>5. QED
        BY <3>4, <4>1, <4>2, <4>3, <4>4
    <3>7. g \div w = Fan * m + q
      BY <3>1, <3>4, <3>6, DivisionUnique
    <3>8. (Fan * m + q) % Fan = q % Fan
      BY <3>1, <3>4, <3>5, DigitOfSum
    <3>9. QED
      BY <3>7, <3>8 DEF Index, w, h, q
  <2>5. OnBus(g) \in Nat
    BY <1>2
  <2>6. Fan * (OnBus(g) \div (Fan * Weight[l])) + ((OnBus(g) \div Weight[l]) % Fan)
          = OnBus(g) \div Weight[l]
    BY <1>1, <2>2, <2>5, DivideTwice
  <2>7. OnBus(g) \div Weight[l] \in Nat
    BY <2>2, <2>5, Division
  <2>8. (OnBus(g) \div Weight[l]) % Fan \in 0..(Fan - 1)
    BY <1>1, <2>7, Division
  <2>9. QED
    BY <2>4, <2>6, <2>8 DEF PartOf, Slots
<1>5. ASSUME NEW l \in 1..Levels
      PROVE  OnBus(g) \div Weight[l]
               = IF l < Levels THEN PartOf(g, l + 1) ELSE OnBus(g)
  <2>1. CASE l < Levels
    BY <1>1, <2>1 DEF PartOf
  <2>2. CASE ~(l < Levels)
    <3>1. l = Levels /\ Weight[l] = 1
      BY <1>1, <2>2
    <3>2. OnBus(g) \div 1 = OnBus(g)
      BY <1>2
    <3>3. QED
      BY <2>2, <3>1, <3>2
  <2>3. QED
    BY <2>1, <2>2
<1>6. QED
  BY <1>2, <1>3, <1>4, <1>5

-----------------------------------------------------------------------------
(* The inductive invariant *)

LevelInv ==
  \A p \in Procs : pc[p] \in {"allocate", "clear", "follow"} => level[p] < Levels

(***************************************************************************)
(* The tables are numbered as they are allocated, and part tells for each  *)
(* the way to it; a walk is at the table of its page, also when another    *)
(* walk has replaced that table in the tree.                               *)
(***************************************************************************)
TreeInv ==
  /\ part[Root] = 0
  /\ \A t \in Tables, i \in Slots :
       slot[t][i] \in Tables => /\ t < slot[t][i] /\ slot[t][i] <= tables
                               /\ part[slot[t][i]] = Fan * part[t] + i

WalkInv ==
  \A p \in Procs : /\ cur[p] <= tables
                    /\ part[cur[p]] = PartOf(op[p].pgn, level[p])

IInv == TypeOK /\ LevelInv /\ TreeInv /\ WalkInv

LEMMA InitIInv == Init => IInv
<1> SUFFICES ASSUME Init PROVE IInv
  OBVIOUS
<1>1. /\ Levels \in Nat \ {0, 1} /\ Fan \in Nat \ {0} /\ MaxTables \in Nat \ {0}
      /\ MaxCalls \in Nat \ {0} /\ Root \in Tables /\ 1 \in 1..Levels
  BY PageTableAssumption DEF Root, Tables
<1>2. NoCall \in [kind : Kinds, pgn : Nat, n : Nat, value : Word]
  BY DEF NoCall, Call, Kinds, Word
<1>3. TypeOK
  <2>1. tables \in Tables /\ calls \in 0..MaxCalls
    BY <1>1 DEF Init, Tables
  <2>2. Zero(Unset) \in [Slots -> Tables \cup {Unset, Wild}]
    BY DEF Zero
  <2>3. Zero({}) \in [Slots -> Word]
    BY DEF Zero, Word
  <2>4. slot \in [Tables -> [Slots -> Tables \cup {Unset, Wild}]]
    BY <2>2 DEF Init
  <2>5. word \in [Tables -> [Slots -> Word]]
    BY <2>3 DEF Init
  <2>6. QED
    BY <1>1, <1>2, <2>1, <2>4, <2>5 DEF Init, TypeOK
<1>4. LevelInv /\ TreeInv
  BY <1>1 DEF Init, LevelInv, TreeInv, Zero, Unset, Tables
<1>5. WalkInv
  <2>1. \A p \in Procs : op[p].pgn = 0 /\ level[p] = 1 /\ cur[p] = Root
    BY DEF Init, NoCall, Call
  <2>2. PartOf(0, 1) = 0
    BY PartOfPage
  <2>3. tables = 1 /\ part[Root] = 0
    BY <1>1 DEF Init
  <2>4. QED
    BY <2>1, <2>2, <2>3 DEF WalkInv, Root
<1>6. QED
  BY <1>3, <1>4, <1>5 DEF IInv

(* The calls are of their kind. *)
LEMMA CallTypes ==
  /\ LockedCalls \cup UserCalls \subseteq [kind : Kinds, pgn : Nat, n : Nat, value : Word]
  /\ NoCall \in [kind : Kinds, pgn : Nat, n : Nat, value : Word]
<1>1. {} \in Word
  BY DEF Word
<1>2. \A k \in Kinds, g \in Pages, n \in Nat, v \in Word :
        Call(k, g, n, v) \in [kind : Kinds, pgn : Nat, n : Nat, value : Word]
  BY PageTableAssumption DEF Call
<1>3. Fpns \subseteq Word /\ SwpOffs \subseteq Word /\ 1..MaxRange \subseteq Nat
  BY PageTableAssumption DEF Word, Bits64
<1>4. {"range", "memset"} \subseteq Kinds /\ {"range", "print"} \subseteq Kinds /\ {"get", "fpn", "swap"} \subseteq Kinds
  BY DEF Kinds
<1>5. NoCall \in [kind : Kinds, pgn : Nat, n : Nat, value : Word]
  BY <1>1 DEF NoCall, Call, Kinds
<1>6. \A K \in SUBSET Kinds :
        RangeCalls(K) \subseteq [kind : Kinds, pgn : Nat, n : Nat, value : Word]
  BY <1>1, <1>2, <1>3 DEF RangeCalls
<1>7. UserCalls \subseteq [kind : Kinds, pgn : Nat, n : Nat, value : Word]
  BY <1>4, <1>6 DEF UserCalls
<1>8. RangeCalls({"range", "print"}) \subseteq [kind : Kinds, pgn : Nat, n : Nat, value : Word]
  BY <1>4, <1>6
<1>9. LockedCalls \subseteq [kind : Kinds, pgn : Nat, n : Nat, value : Word]
  BY <1>1, <1>2, <1>3, <1>4, <1>8 DEF LockedCalls
<1>10. QED
  BY <1>5, <1>7, <1>9

(* A walk starts at the root, whose part is nothing. *)
LEMMA AtRoot ==
  ASSUME IInv, NEW p \in Procs, FromRoot(p), UNCHANGED <<tables, slot, part>>,
         op' \in [Procs -> [kind : Kinds, pgn : Nat, n : Nat, value : Word]],
         \A q \in Procs \ {p} : op'[q] = op[q],
         \A q \in Procs \ {p} : pc'[q] = pc[q],
         pc'[p] \in {"run", "test"}
  PROVE  LevelInv' /\ TreeInv' /\ WalkInv'
         /\ level' \in [Procs -> 1..Levels] /\ cur' \in [Procs -> Tables]
<1>1. Root \in Tables /\ 1 \in 1..Levels /\ Root <= tables
  BY PageTableAssumption DEF Root, Tables, IInv, TypeOK
<1>2. /\ level' = [level EXCEPT ![p] = 1] /\ cur' = [cur EXCEPT ![p] = Root]
      /\ level \in [Procs -> 1..Levels] /\ cur \in [Procs -> Tables]
  BY DEF FromRoot, IInv, TypeOK
<1>3. /\ level'[p] = 1 /\ cur'[p] = Root
      /\ \A q \in Procs \ {p} : level'[q] = level[q] /\ cur'[q] = cur[q]
  BY <1>2
<1>4. LevelInv'
  BY <1>3 DEF IInv, LevelInv
<1>5. TreeInv'
  BY DEF IInv, TreeInv
<1>6. PartOf(op'[p].pgn, 1) = 0
  BY PartOfPage
<1>7. part[Root] = 0
  BY DEF IInv, TreeInv
<1>8. WalkInv'
  <2>1. ASSUME NEW q \in Procs
        PROVE  cur'[q] <= tables' /\ part'[cur'[q]] = PartOf(op'[q].pgn, level'[q])
    <3>1. CASE q = p
      BY <1>1, <1>3, <1>6, <1>7, <3>1
    <3>2. CASE q # p
      BY <1>3, <3>2 DEF IInv, WalkInv
    <3>3. QED
      BY <3>1, <3>2
  <2>2. QED
    BY <2>1 DEF WalkInv, PartOf, OnBus, BusPages
<1>9. QED
  BY <1>1, <1>2, <1>4, <1>5, <1>8

(* What the calls put into an entry is a word. *)
LEMMA NewWords ==
  ASSUME IInv, NEW p \in Procs, op[p].kind \in {"fpn", "swap", "memset"}
  PROVE  NewWord(p) \in Word
<1> DEFINE v == EntryWord(p)
           f == op[p].value
<1>1. /\ cur[p] \in Tables /\ SlotOf(p) \in Slots
      /\ op[p].value \in Word
  BY PartOfPage DEF IInv, TypeOK, SlotOf
<1>2. v \in Word /\ f \in Word
  BY <1>1 DEF IInv, TypeOK, EntryWord
<1>3. NewWord(p) \in {FpnWord(v, f), SwapWord(v, {}, f), PatternWord}
  BY DEF NewWord
<1> HIDE DEF v, f
<1>4. FpnWord(v, f) \in Word
  BY <1>2 DEF FpnWord, SETVAL, CLRBIT, SETBIT, ShiftLeft, GENMASK, Complement,
       Word, Bits64, Bits32, PresentMask, FpnMask, FpnLobit
<1>5. SwapWord(v, {}, f) \in Word
  BY <1>2 DEF SwapWord, SETVAL, SETBIT, ShiftLeft, GENMASK, Complement,
       Word, Bits64, Bits32, PresentMask, SwappedMask, SwpTypMask, SwpTypLobit,
       SwpOffMask, SwpOffLobit
<1>6. PatternWord \in Word
  BY DEF PatternWord, Word, Bits64
<1>7. QED
  BY <1>3, <1>4, <1>5, <1>6

(* Where a walk is. *)
LEMMA AtTypes ==
  ASSUME IInv, NEW p \in Procs
  PROVE  /\ cur[p] \in Tables /\ SlotOf(p) \in Slots /\ level[p] \in 1..Levels
         /\ op[p].pgn \in Nat /\ cur[p] <= tables
         /\ AtSlot(p) \in Tables \cup {Unset, Wild}
         /\ part[cur[p]] = PartOf(op[p].pgn, level[p])
<1>1. op[p].pgn \in Nat /\ level[p] \in 1..Levels /\ cur[p] \in Tables
  BY DEF IInv, TypeOK
<1>2. SlotOf(p) \in Slots
  BY <1>1, PartOfPage DEF SlotOf
<1>3. AtSlot(p) \in Tables \cup {Unset, Wild}
  BY <1>1, <1>2 DEF IInv, TypeOK, AtSlot
<1>4. QED
  BY <1>1, <1>2, <1>3 DEF IInv, WalkInv

LEMMA EnterStep ==
  ASSUME IInv, NEW p \in Procs, NEW o \in LockedCalls \cup UserCalls,
         LockedCall(p, o) \/ UserCall(p, o)
  PROVE  IInv'
<1>1. /\ Enter(p, o) /\ UNCHANGED <<memory, entry, crashed>>
      /\ mmvm_lock' \in Procs \cup {NULL}
  BY DEF LockedCall, UserCall, IInv, TypeOK
<1>2. o \in [kind : Kinds, pgn : Nat, n : Nat, value : Word]
  BY CallTypes
<1>3. op' \in [Procs -> [kind : Kinds, pgn : Nat, n : Nat, value : Word]]
  BY <1>1, <1>2 DEF Enter, IInv, TypeOK
<1>4. pc' \in [Procs -> {"run", "test", "allocate", "clear", "follow"}]
  BY <1>1 DEF Enter, Goto, IInv, TypeOK
<1>5. calls' \in 0..MaxCalls
  BY <1>1, PageTableAssumption DEF Enter, IInv, TypeOK
<1>6. raced' \in BOOLEAN
  BY <1>1, Zenon DEF Enter
<1>7. LevelInv' /\ TreeInv' /\ WalkInv'
      /\ level' \in [Procs -> 1..Levels] /\ cur' \in [Procs -> Tables]
  <2>1. \A q \in Procs \ {p} : op'[q] = op[q] /\ pc'[q] = pc[q]
    BY <1>1 DEF Enter, Goto, IInv, TypeOK
  <2>2. pc'[p] = "test"
    BY <1>1 DEF Enter, Goto, IInv, TypeOK
  <2>3. FromRoot(p) /\ UNCHANGED <<tables, slot, part>>
    BY <1>1 DEF Enter, memory
  <2>4. QED
    BY <1>3, <2>1, <2>2, <2>3, AtRoot
<1>8. UNCHANGED <<tables, slot, word, part, entry, crashed>>
  BY <1>1 DEF memory
<1>9. TypeOK'
  BY <1>1, <1>3, <1>4, <1>5, <1>6, <1>7, <1>8 DEF IInv, TypeOK, Tables
<1>10. QED
  BY <1>7, <1>9 DEF IInv

(* Steps that only choose where to go on at a level. *)
LEMMA TestStep ==
  ASSUME IInv, NEW p \in Procs, SlotSet(p) \/ SlotZero(p)
  PROVE  IInv'
<1>1. /\ level[p] < Levels
      /\ UNCHANGED <<memory, op, level, cur, mmvm_lock, entry, calls, raced, crashed>>
      /\ pc' = [pc EXCEPT ![p] = "follow"] \/ pc' = [pc EXCEPT ![p] = "allocate"]
  BY DEF SlotSet, SlotZero, Goto
<1>2. pc' \in [Procs -> {"run", "test", "allocate", "clear", "follow"}]
  BY <1>1 DEF IInv, TypeOK
<1>3. TypeOK'
  BY <1>1, <1>2 DEF IInv, TypeOK, memory, Tables
<1>4. LevelInv'
  BY <1>1 DEF IInv, TypeOK, LevelInv
<1>5. TreeInv'
  BY <1>1 DEF IInv, TreeInv, memory
<1>6. WalkInv'
  BY <1>1 DEF IInv, WalkInv, memory, PartOf, OnBus, BusPages
<1>7. QED
  BY <1>3, <1>4, <1>5, <1>6 DEF IInv

(* The call is over. *)
LEMMA ReturnStep ==
  ASSUME IInv, NEW p \in Procs, Return(p), UNCHANGED <<tables, slot, part, calls, raced, crashed>>,
         entry' \in SUBSET Bits32,
         word' \in [Tables -> [Slots -> Word]]
  PROVE  IInv'
<1>1. op' \in [Procs -> [kind : Kinds, pgn : Nat, n : Nat, value : Word]]
  BY CallTypes DEF Return, IInv, TypeOK
<1>2. pc' \in [Procs -> {"run", "test", "allocate", "clear", "follow"}]
  BY DEF Return, Goto, IInv, TypeOK
<1>3. LevelInv' /\ TreeInv' /\ WalkInv'
      /\ level' \in [Procs -> 1..Levels] /\ cur' \in [Procs -> Tables]
  <2>1. \A q \in Procs \ {p} : op'[q] = op[q] /\ pc'[q] = pc[q]
    BY DEF Return, Goto, IInv, TypeOK
  <2>2. pc'[p] = "run" /\ FromRoot(p)
    BY DEF Return, Goto, IInv, TypeOK
  <2>3. QED
    BY <1>1, <2>1, <2>2, AtRoot
<1>4. mmvm_lock' \in Procs \cup {NULL}
  BY DEF Return, IInv, TypeOK
<1>5. TypeOK'
  BY <1>1, <1>2, <1>3, <1>4 DEF IInv, TypeOK, Tables
<1>6. QED
  BY <1>3, <1>5 DEF IInv

LEMMA GetStep ==
  ASSUME IInv, NEW p \in Procs, GetNothing(p) \/ GetEntry(p)
  PROVE  IInv'
<1>1. Return(p) /\ UNCHANGED <<memory, calls, raced, crashed>>
  BY DEF GetNothing, GetEntry
<1>2. entry' \in SUBSET Bits32
  BY DEF GetNothing, GetEntry
<1>3. word' \in [Tables -> [Slots -> Word]]
  BY <1>1 DEF memory, IInv, TypeOK
<1>4. QED
  BY <1>1, <1>2, <1>3, ReturnStep DEF memory

LEMMA AllocateStep ==
  ASSUME IInv, NEW p \in Procs, AllocateTable(p)
  PROVE  IInv'
<1> DEFINE c == cur[p]
           s == SlotOf(p)
<1>1. /\ c \in Tables /\ s \in Slots /\ c <= tables /\ c \in Nat /\ tables \in Nat
      /\ level[p] < Levels /\ MaxTables \in Nat
  <2>1. c \in Tables /\ s \in Slots /\ c <= tables
    BY AtTypes
  <2>2. tables \in Tables /\ MaxTables \in Nat
    BY PageTableAssumption DEF IInv, TypeOK
  <2>3. level[p] < Levels
    BY DEF AllocateTable, Walking, IInv, LevelInv
  <2>4. QED
    BY <2>1, <2>2, <2>3 DEF Tables
<1>2. UNCHANGED <<op, level, cur, mmvm_lock, entry, calls, raced, crashed>>
      /\ pc' = [pc EXCEPT ![p] = "clear"]
  BY DEF AllocateTable, Goto
<1>3. pc' \in [Procs -> {"run", "test", "allocate", "clear", "follow"}]
  BY <1>2 DEF IInv, TypeOK
<1>4. LevelInv'
  BY <1>1, <1>2 DEF LevelInv, IInv, TypeOK
<1>5. Zero(Wild) \in [Slots -> Tables \cup {Unset, Wild}] /\ Zero(Bits64) \in [Slots -> Word]
  BY DEF Zero, Word
<1>6. CASE tables < MaxTables
  <2> DEFINE n == tables'
  <2>1. n = tables + 1 /\ n \in Tables /\ c # n /\ c < n
    BY <1>1, <1>6 DEF AllocateTable, NewTable, Tables
  <2>2. /\ part' = [part EXCEPT ![n] = Fan * part[c] + s]
        /\ slot' = [slot EXCEPT ![c][s] = n, ![n] = Zero(Wild)]
        /\ word' = [word EXCEPT ![n] = Zero(Bits64)]
    BY <1>6 DEF AllocateTable, NewTable
  <2>3. part[c] \in Nat /\ Fan * part[c] + s \in Nat
    <3>1. part[c] \in Nat /\ s \in Nat
      BY <1>1 DEF IInv, TypeOK, Slots
    <3>2. Fan \in Nat
      BY PageTableAssumption
    <3>3. QED
      BY <3>1, <3>2
  <2>4. slot' \in [Tables -> [Slots -> Tables \cup {Unset, Wild}]]
    BY <1>1, <1>5, <2>1, <2>2 DEF IInv, TypeOK
  <2>5. part' \in [Tables -> Nat] /\ word' \in [Tables -> [Slots -> Word]]
    BY <1>5, <2>1, <2>2, <2>3 DEF IInv, TypeOK
  <2>6. TypeOK'
    BY <1>2, <1>3, <2>1, <2>4, <2>5 DEF IInv, TypeOK, Tables
  <2>7. /\ \A t \in Tables : t # n => part'[t] = part[t]
        /\ part'[n] = Fan * part[c] + s
    BY <2>1, <2>2 DEF IInv, TypeOK
  <2>8. /\ \A t \in Tables, i \in Slots :
             t # n /\ ~(t = c /\ i = s) => slot'[t][i] = slot[t][i]
        /\ slot'[c][s] = n
        /\ \A i \in Slots : slot'[n][i] = Wild
    BY <1>1, <2>1, <2>2 DEF IInv, TypeOK, Zero
  <2> HIDE DEF n
  <2>9. TreeInv'
    <3>1. part'[Root] = 0
      BY <1>1, <2>1, <2>7 DEF IInv, TreeInv, Root, Tables
    <3>2. ASSUME NEW t \in Tables, NEW i \in Slots, slot'[t][i] \in Tables
          PROVE  /\ t < slot'[t][i] /\ slot'[t][i] <= n
                 /\ part'[slot'[t][i]] = Fan * part'[t] + i
      <4>1. t # n
        BY <2>8, <3>2 DEF Wild, Tables
      <4>2. CASE t = c /\ i = s
        BY <1>1, <2>1, <2>7, <2>8, <4>2
      <4>3. CASE ~(t = c /\ i = s)
        <5>1. slot'[t][i] = slot[t][i]
          BY <2>8, <4>1, <4>3
        <5>2. /\ t < slot[t][i] /\ slot[t][i] <= tables
              /\ part[slot[t][i]] = Fan * part[t] + i
          BY <3>2, <5>1 DEF IInv, TreeInv
        <5>3. slot[t][i] # n /\ slot[t][i] \in Tables
          BY <1>1, <2>1, <3>2, <5>1, <5>2 DEF Tables
        <5>4. part'[slot[t][i]] = part[slot[t][i]] /\ part'[t] = part[t]
          BY <2>7, <4>1, <5>3
        <5>5. slot[t][i] <= n
          BY <1>1, <2>1, <5>2, <5>3 DEF Tables
        <5>6. QED
          BY <5>1, <5>2, <5>4, <5>5
      <4>4. QED
        BY <4>2, <4>3
    <3>3. QED
      BY <3>1, <3>2 DEF TreeInv, n
  <2>10. WalkInv'
    <3>1. ASSUME NEW q \in Procs
          PROVE  cur[q] <= n /\ part'[cur[q]] = PartOf(op[q].pgn, level[q])
      <4>1. cur[q] \in Tables /\ cur[q] <= tables
            /\ part[cur[q]] = PartOf(op[q].pgn, level[q])
        BY AtTypes
      <4>2. cur[q] # n /\ cur[q] <= n
        BY <1>1, <2>1, <4>1 DEF Tables
      <4>3. QED
        BY <2>7, <4>1, <4>2
    <3>2. QED
      BY <1>2, <3>1 DEF WalkInv, PartOf, OnBus, BusPages, n
  <2>11. QED
    BY <1>4, <2>6, <2>9, <2>10 DEF IInv
<1>7. CASE ~(tables < MaxTables)
  <2>1. /\ slot' = [slot EXCEPT ![c][s] = Unset]
        /\ UNCHANGED <<tables, part, word>>
    BY <1>7 DEF AllocateTable, NewTable
  <2>2. slot' \in [Tables -> [Slots -> Tables \cup {Unset, Wild}]]
    BY <1>1, <2>1 DEF IInv, TypeOK
  <2>3. TypeOK'
    BY <1>2, <1>3, <2>1, <2>2 DEF IInv, TypeOK, Tables
  <2>4. \A t \in Tables, i \in Slots :
          slot'[t][i] \in Tables => slot'[t][i] = slot[t][i]
    BY <1>1, <2>1 DEF IInv, TypeOK, Unset, Tables
  <2>5. TreeInv'
    BY <2>1, <2>4 DEF IInv, TreeInv
  <2>6. WalkInv'
    BY <1>2, <2>1 DEF IInv, WalkInv, PartOf, OnBus, BusPages
  <2>7. QED
    BY <1>4, <2>3, <2>5, <2>6 DEF IInv
<1>8. QED
  BY <1>6, <1>7

LEMMA ClearStep ==
  ASSUME IInv, NEW p \in Procs, ClearTable(p)
  PROVE  IInv'
<1> DEFINE n == AtSlot(p)
<1>1. /\ n \in Tables /\ level[p] < Levels
      /\ slot' = [slot EXCEPT ![n] = Zero(Unset)]
      /\ word' = [word EXCEPT ![n] = Zero({})]
      /\ pc' = [pc EXCEPT ![p] = "follow"]
      /\ UNCHANGED <<tables, part, op, level, cur, mmvm_lock, entry, calls, raced, crashed>>
  BY DEF ClearTable, Goto, Walking, IInv, LevelInv
<1> HIDE DEF n
<1>2. Zero(Unset) \in [Slots -> Tables \cup {Unset, Wild}] /\ Zero({}) \in [Slots -> Word]
  BY DEF Zero, Word
<1>3. /\ slot' \in [Tables -> [Slots -> Tables \cup {Unset, Wild}]]
      /\ word' \in [Tables -> [Slots -> Word]]
      /\ pc' \in [Procs -> {"run", "test", "allocate", "clear", "follow"}]
  BY <1>1, <1>2 DEF IInv, TypeOK
<1>4. TypeOK'
  BY <1>1, <1>3 DEF IInv, TypeOK, Tables
<1>5. LevelInv'
  BY <1>1 DEF IInv, LevelInv, TypeOK
<1>6. \A t \in Tables, i \in Slots :
        slot'[t][i] \in Tables => slot'[t][i] = slot[t][i]
  BY <1>1 DEF IInv, TypeOK, Zero, Unset, Tables
<1>7. TreeInv'
  BY <1>1, <1>6 DEF IInv, TreeInv
<1>8. WalkInv'
  BY <1>1 DEF IInv, WalkInv, PartOf, OnBus, BusPages
<1>9. QED
  BY <1>4, <1>5, <1>7, <1>8 DEF IInv

(* One level down, the part of the page has one digit more. *)
LEMMA FollowStep ==
  ASSUME IInv, NEW p \in Procs, FollowSlot(p)
  PROVE  IInv'
<1> DEFINE n == AtSlot(p)
<1>1. /\ n \in Tables /\ level[p] < Levels
      /\ cur' = [cur EXCEPT ![p] = n]
      /\ level' = [level EXCEPT ![p] = level[p] + 1]
      /\ pc' = [pc EXCEPT ![p] = "test"]
      /\ UNCHANGED <<memory, op, mmvm_lock, entry, calls, raced, crashed>>
  BY DEF FollowSlot, Goto, Walking, IInv, LevelInv
<1>2. /\ cur[p] \in Tables /\ SlotOf(p) \in Slots /\ level[p] \in 1..Levels
      /\ op[p].pgn \in Nat
      /\ part[cur[p]] = PartOf(op[p].pgn, level[p])
  BY AtTypes
<1>3. n <= tables /\ part[n] = Fan * part[cur[p]] + SlotOf(p)
  BY <1>1, <1>2 DEF IInv, TreeInv, AtSlot
<1> HIDE DEF n
<1>4. level[p] + 1 \in 1..Levels
  BY <1>1, <1>2, PageTableAssumption
<1>5. part[n] = PartOf(op[p].pgn, level[p] + 1)
  BY <1>1, <1>2, <1>3, PartOfPage DEF SlotOf
<1>6. /\ level' \in [Procs -> 1..Levels] /\ cur' \in [Procs -> Tables]
      /\ pc' \in [Procs -> {"run", "test", "allocate", "clear", "follow"}]
  BY <1>1, <1>4 DEF IInv, TypeOK
<1>7. TypeOK'
  BY <1>1, <1>6 DEF IInv, TypeOK, memory, Tables
<1>8. LevelInv'
  BY <1>1 DEF IInv, LevelInv, TypeOK
<1>9. TreeInv'
  BY <1>1 DEF IInv, TreeInv, memory
<1>10. WalkInv'
  <2>1. ASSUME NEW q \in Procs
        PROVE  cur'[q] <= tables /\ part[cur'[q]] = PartOf(op[q].pgn, level'[q])
    <3>1. CASE q = p
      BY <1>1, <1>3, <1>5, <3>1 DEF IInv, TypeOK
    <3>2. CASE q # p
      BY <1>1, <3>2, AtTypes DEF IInv, TypeOK
    <3>3. QED
      BY <3>1, <3>2
  <2>2. QED
    BY <1>1, <2>1 DEF WalkInv, memory, PartOf, OnBus, BusPages
<1>11. QED
  BY <1>7, <1>8, <1>9, <1>10 DEF IInv

LEMMA CrashStep ==
  ASSUME IInv, NEW p \in Procs, Crash(p)
  PROVE  IInv'
<1>1. /\ crashed' = TRUE
      /\ UNCHANGED <<memory, walk, mmvm_lock, entry, calls, raced>>
  BY DEF Crash
<1>2. TypeOK'
  BY <1>1 DEF IInv, TypeOK, memory, walk, Tables
<1>3. LevelInv' /\ TreeInv'
  BY <1>1 DEF IInv, LevelInv, TreeInv, memory, walk
<1>4. WalkInv'
  BY <1>1 DEF IInv, WalkInv, memory, walk, PartOf, OnBus, BusPages
<1>5. QED
  BY <1>2, <1>3, <1>4 DEF IInv

LEMMA SetFrameStep ==
  ASSUME IInv, NEW p \in Procs, SetFrame(p)
  PROVE  IInv'
<1>1. /\ FromRoot(p)
      /\ UNCHANGED <<memory, pc, mmvm_lock, entry, calls, raced, crashed>>
  BY DEF SetFrame
<1>2. PICK f \in Fpns : op' = [op EXCEPT ![p].kind = "fpn", ![p].value = f]
  BY DEF SetFrame
<1>3. f \in Word /\ "fpn" \in Kinds
  BY PageTableAssumption DEF Kinds
<1>4. op' \in [Procs -> [kind : Kinds, pgn : Nat, n : Nat, value : Word]]
  BY <1>2, <1>3 DEF IInv, TypeOK
<1>5. LevelInv' /\ TreeInv' /\ WalkInv'
      /\ level' \in [Procs -> 1..Levels] /\ cur' \in [Procs -> Tables]
  <2>1. \A q \in Procs \ {p} : op'[q] = op[q] /\ pc'[q] = pc[q]
    BY <1>1, <1>2 DEF IInv, TypeOK
  <2>2. pc'[p] \in {"run", "test"}
    BY <1>1 DEF SetFrame, AtEntry, Walking
  <2>3. UNCHANGED <<tables, slot, part>>
    BY <1>1 DEF memory
  <2>4. QED
    BY <1>1, <1>4, <2>1, <2>2, <2>3, AtRoot
<1>6. TypeOK'
  BY <1>1, <1>4, <1>5 DEF IInv, TypeOK, memory, Tables
<1>7. QED
  BY <1>5, <1>6 DEF IInv

(* The next page starts at the root again. *)
LEMMA NextPageStep ==
  ASSUME IInv, NEW p \in Procs, NextPage(p), pc[p] = "test",
         UNCHANGED <<tables, slot, part, calls, raced, crashed>>,
         entry' \in SUBSET Bits32,
         word' \in [Tables -> [Slots -> Word]]
  PROVE  IInv'
<1>1. CASE op[p].n > 1
  <2>1. /\ op' = [op EXCEPT ![p].pgn = @ + 1, ![p].n = @ - 1,
                            ![p].kind = IF @ = "fpn" THEN "range" ELSE @]
        /\ FromRoot(p) /\ UNCHANGED <<pc, mmvm_lock>>
    BY <1>1 DEF NextPage
  <2>2. op[p].pgn + 1 \in Nat /\ op[p].n - 1 \in Nat
        /\ (IF op[p].kind = "fpn" THEN "range" ELSE op[p].kind) \in Kinds
    BY <1>1 DEF IInv, TypeOK, Kinds
  <2>3. op' \in [Procs -> [kind : Kinds, pgn : Nat, n : Nat, value : Word]]
    <3> DEFINE k == IF op[p].kind = "fpn" THEN "range" ELSE op[p].kind
               call == [kind |-> k, pgn |-> op[p].pgn + 1, n |-> op[p].n - 1,
                        value |-> op[p].value]
    <3>1. k \in Kinds
      BY <2>2
    <3>2. op' = [op EXCEPT ![p].pgn = op[p].pgn + 1, ![p].n = op[p].n - 1, ![p].kind = k]
      BY <2>1
    <3> HIDE DEF k
    <3>3. op' = [op EXCEPT ![p] = call]
      BY <3>2 DEF IInv, TypeOK
    <3>4. call \in [kind : Kinds, pgn : Nat, n : Nat, value : Word]
      BY <2>2, <3>1 DEF IInv, TypeOK
    <3> HIDE DEF call
    <3>5. QED
      BY <3>3, <3>4 DEF IInv, TypeOK
  <2>4. LevelInv' /\ TreeInv' /\ WalkInv'
        /\ level' \in [Procs -> 1..Levels] /\ cur' \in [Procs -> Tables]
    <3>1. \A q \in Procs \ {p} : op'[q] = op[q] /\ pc'[q] = pc[q]
      BY <2>1 DEF IInv, TypeOK
    <3>2. pc'[p] \in {"run", "test"}
      BY <2>1
    <3>3. QED
      BY <2>1, <2>3, <3>1, <3>2, AtRoot
  <2>5. TypeOK'
    BY <2>1, <2>3, <2>4 DEF IInv, TypeOK, Tables
  <2>6. QED
    BY <2>4, <2>5 DEF IInv
<1>2. CASE ~(op[p].n > 1)
  <2>1. Return(p)
    BY <1>2 DEF NextPage
  <2>2. QED
    BY <2>1, ReturnStep
<1>3. QED
  BY <1>1, <1>2

LEMMA PrintStep ==
  ASSUME IInv, NEW p \in Procs, PrintPage(p)
  PROVE  IInv'
<1>1. NextPage(p) /\ pc[p] = "test" /\ UNCHANGED <<memory, entry, calls, raced, crashed>>
  BY DEF PrintPage, Walking
<1>2. entry' \in SUBSET Bits32 /\ word' \in [Tables -> [Slots -> Word]]
  BY <1>1 DEF memory, IInv, TypeOK
<1>3. QED
  BY <1>1, <1>2, NextPageStep DEF memory

LEMMA SetEntryStep ==
  ASSUME IInv, NEW p \in Procs, SetEntry(p)
  PROVE  IInv'
<1>1. /\ op[p].kind \in {"fpn", "swap", "memset"} /\ pc[p] = "test" /\ NextPage(p)
      /\ word' = [word EXCEPT ![cur[p]][SlotOf(p)] = NewWord(p)]
      /\ UNCHANGED <<tables, slot, part, entry, calls, raced, crashed>>
  BY DEF SetEntry, AtEntry, Walking
<1>2. word' \in [Tables -> [Slots -> Word]]
  <2>1. NewWord(p) \in Word
    BY <1>1, NewWords
  <2>2. cur[p] \in Tables /\ SlotOf(p) \in Slots
    BY AtTypes
  <2> HIDE DEF Word
  <2>3. QED
    BY <1>1, <2>1, <2>2 DEF IInv, TypeOK
<1>3. entry' \in SUBSET Bits32
  BY <1>1 DEF IInv, TypeOK
<1>4. QED
  BY <1>1, <1>2, <1>3, NextPageStep

LEMMA NextStep == IInv /\ [Next]_vars => IInv'
<1> SUFFICES ASSUME IInv, [Next]_vars PROVE IInv'
  OBVIOUS
<1>1. ASSUME NEW p \in Procs, NEW o \in LockedCalls \cup UserCalls,
             LockedCall(p, o) \/ UserCall(p, o)
      PROVE  IInv'
  BY <1>1, EnterStep
<1>2. ASSUME NEW p \in Procs, Step(p) PROVE IInv'
  BY <1>2, TestStep, GetStep, PrintStep, AllocateStep, ClearStep, FollowStep, CrashStep,
     SetFrameStep, SetEntryStep DEF Step
<1>3. CASE UNCHANGED vars
  <2>1. UNCHANGED <<memory, walk, mmvm_lock, entry, calls, raced, crashed>>
    BY <1>3 DEF vars
  <2>2. TypeOK' /\ LevelInv' /\ TreeInv'
    BY <2>1 DEF IInv, TypeOK, LevelInv, TreeInv, memory, walk, Tables
  <2>3. WalkInv'
    BY <2>1 DEF IInv, WalkInv, memory, walk, PartOf, OnBus, BusPages
  <2>4. QED
    BY <2>2, <2>3 DEF IInv
<1>4. QED
  BY <1>1, <1>2, <1>3 DEF Next, Stopped

(***************************************************************************)
(* Every variable holds a value of its kind, whatever walks overlap.       *)
(***************************************************************************)
THEOREM TypeCorrect == Spec => []TypeOK
<1>1. IInv => TypeOK
  BY DEF IInv
<1>2. QED
  BY InitIInv, NextStep, <1>1, PTL DEF Spec

(* The entries of two pages are the same only if the pages are. *)
LEMMA EntryOfPageHolds == IInv => EntryOfPage
<1> SUFFICES ASSUME IInv, NEW p \in Procs, NEW q \in Procs,
                    AtEntry(p), AtEntry(q), cur[p] = cur[q], SlotOf(p) = SlotOf(q)
             PROVE  OnBus(op[p].pgn) = OnBus(op[q].pgn)
  BY DEF EntryOfPage
<1>1. ASSUME NEW r \in Procs, AtEntry(r)
      PROVE  OnBus(op[r].pgn) = Fan * part[cur[r]] + SlotOf(r)
  <2>1. level[r] = Levels
    BY <1>1 DEF AtEntry
  <2>2. op[r].pgn \in Nat /\ part[cur[r]] = PartOf(op[r].pgn, level[r])
        /\ level[r] \in 1..Levels
    BY AtTypes
  <2>3. ~(level[r] < Levels)
    BY <2>1, <2>2
  <2>4. QED
    BY <2>2, <2>3, PartOfPage DEF SlotOf
<1>2. QED
  BY <1>1

(***************************************************************************)
(* No page ever gets the entry of another one (get_pd_from_address and the *)
(* walks of src/mm64.c), for any number of levels and slots, with or       *)
(* without mmvm_lock.                                                      *)
(***************************************************************************)
THEOREM PagesApart == Spec => []EntryOfPage
BY InitIInv, NextStep, EntryOfPageHolds, PTL DEF Spec

-----------------------------------------------------------------------------
(* Walks that do not overlap *)

(***************************************************************************)
(* Without a race one process walks at a time, and what it has read in a   *)
(* slot is still there; what malloc left in a table is cleared before      *)
(* anything looks at it, and nothing is cleared that leads to a table.     *)
(***************************************************************************)
AloneInv == \A p, q \in Procs : pc[p] # "run" /\ pc[q] # "run" => p = q

NoTableIn(t) == \A i \in Slots : slot[t][i] \notin Tables

StageInv ==
  \A p \in Procs :
    /\ pc[p] = "allocate" => AtSlot(p) = Unset
    /\ pc[p] = "clear"    => \/ AtSlot(p) = Unset /\ tables = MaxTables
                             \/ AtSlot(p) \in Tables /\ NoTableIn(AtSlot(p))
    /\ pc[p] = "follow"   => AtSlot(p) \in Tables

WildInv ==
  \A t \in Tables, i \in Slots :
    slot[t][i] = Wild => \E p \in Procs : pc[p] = "clear" /\ AtSlot(p) = t

Listed ==
  \A t \in 2..tables :
    \E u \in 1..tables, i \in Slots :
      /\ slot[u][i] = t
      /\ \A v \in 1..tables, j \in Slots : slot[v][j] = t => v = u /\ j = i

OrderInv == AloneInv /\ StageInv /\ WildInv /\ Listed
RaceInv  == /\ ~raced => OrderInv
            /\ crashed => raced \/ tables = MaxTables

(* Only p walks. *)
LEMMA Alone ==
  ASSUME AloneInv, NEW p \in Procs, pc[p] # "run",
         \A q \in Procs \ {p} : pc'[q] = pc[q]
  PROVE  /\ AloneInv'
         /\ \A q \in Procs \ {p} : pc[q] = "run" /\ pc'[q] = "run"
BY DEF AloneInv

LEMMA InitRaceInv == Init => RaceInv
<1> SUFFICES ASSUME Init PROVE RaceInv
  OBVIOUS
<1>1. AloneInv /\ StageInv /\ WildInv
  BY DEF Init, AloneInv, StageInv, WildInv, Zero, Unset, Wild
<1>2. Listed
  BY DEF Init, Listed
<1>3. QED
  BY <1>1, <1>2 DEF RaceInv, OrderInv, Init

(* A step that leaves the tables alone and ends at a test or at no walk. *)
LEMMA QuietStep ==
  ASSUME IInv, OrderInv, NEW p \in Procs,
         UNCHANGED <<tables, slot>>,
         \A q \in Procs \ {p} : pc[q] = "run" /\ pc'[q] = "run",
         pc[p] \in {"run", "test", "follow"}, pc'[p] \in {"run", "test"}
  PROVE  OrderInv'
<1>1. AloneInv' /\ StageInv'
  BY DEF AloneInv, StageInv
<1>2. \A t \in Tables, i \in Slots : slot[t][i] # Wild
  BY DEF OrderInv, WildInv
<1>3. WildInv'
  BY <1>2 DEF WildInv
<1>4. Listed'
  BY DEF OrderInv, Listed
<1>5. QED
  BY <1>1, <1>3, <1>4 DEF OrderInv

(* A slot that is set leads to a table, one that is zero is unset. *)
LEMMA TestOrder ==
  ASSUME IInv, OrderInv, NEW p \in Procs, SlotSet(p) \/ SlotZero(p)
  PROVE  OrderInv'
<1>1. /\ pc[p] = "test"
      /\ UNCHANGED <<tables, slot, op, level, cur>>
      /\ \/ pc' = [pc EXCEPT ![p] = "follow"] /\ AtSlot(p) # Unset
         \/ pc' = [pc EXCEPT ![p] = "allocate"] /\ AtSlot(p) \in {Unset, Wild}
  BY DEF SlotSet, SlotZero, Goto, Walking, memory, ReadsZero, ReadsNonzero
<1>2. AloneInv' /\ \A q \in Procs \ {p} : pc[q] = "run" /\ pc'[q] = "run"
  <2>1. \A q \in Procs \ {p} : pc'[q] = pc[q]
    BY <1>1 DEF IInv, TypeOK
  <2>2. QED
    BY <1>1, <2>1, Alone DEF OrderInv
<1>3. \A t \in Tables, i \in Slots : slot[t][i] # Wild
  BY <1>1, <1>2 DEF OrderInv, WildInv
<1>4. AtSlot(p) \in Tables \cup {Unset} /\ AtSlot(p)' = AtSlot(p)
  <2>1. cur[p] \in Tables /\ SlotOf(p) \in Slots /\ AtSlot(p) \in Tables \cup {Unset, Wild}
    BY AtTypes
  <2>2. AtSlot(p) # Wild
    BY <1>3, <2>1 DEF AtSlot
  <2>3. QED
    BY <1>1, <2>1, <2>2 DEF AtSlot, SlotOf, Index
<1>5. /\ pc'[p] \in {"follow", "allocate"}
      /\ pc'[p] = "follow" => AtSlot(p) \in Tables
      /\ pc'[p] = "allocate" => AtSlot(p) = Unset
  <2>1. pc'[p] \in {"follow", "allocate"}
        /\ (pc'[p] = "follow" => AtSlot(p) # Unset)
        /\ (pc'[p] = "allocate" => AtSlot(p) \in {Unset, Wild})
    BY <1>1 DEF IInv, TypeOK
  <2>2. Wild \notin Tables \cup {Unset}
    BY DEF Tables, Unset, Wild
  <2>3. QED
    BY <1>4, <2>1, <2>2
<1>6. StageInv'
  BY <1>2, <1>4, <1>5 DEF StageInv, Tables
<1>7. WildInv'
  BY <1>1, <1>3 DEF WildInv
<1>8. Listed'
  BY <1>1 DEF OrderInv, Listed
<1>9. QED
  BY <1>2, <1>6, <1>7, <1>8 DEF OrderInv

(* The one new table is listed at the slot that was unset. *)
LEMMA AllocateOrder ==
  ASSUME IInv, OrderInv, NEW p \in Procs, AllocateTable(p)
  PROVE  OrderInv'
<1> DEFINE c == cur[p]
           s == SlotOf(p)
<1>1. /\ c \in Tables /\ s \in Slots /\ c <= tables /\ c \in Nat /\ tables \in Nat
      /\ MaxTables \in Nat /\ tables <= MaxTables /\ tables \in 1..MaxTables
  <2>1. c \in Tables /\ s \in Slots /\ c <= tables
    BY AtTypes
  <2>2. tables \in Tables /\ MaxTables \in Nat
    BY PageTableAssumption DEF IInv, TypeOK
  <2>3. QED
    BY <2>1, <2>2 DEF Tables
<1>2. /\ pc[p] = "allocate" /\ pc' = [pc EXCEPT ![p] = "clear"]
      /\ UNCHANGED <<op, level, cur>>
  BY DEF AllocateTable, Goto, Walking
<1>3. AloneInv' /\ \A q \in Procs \ {p} : pc[q] = "run" /\ pc'[q] = "run"
  <2>1. \A q \in Procs \ {p} : pc'[q] = pc[q]
    BY <1>2 DEF IInv, TypeOK
  <2>2. QED
    BY <1>2, <2>1, Alone DEF OrderInv
<1>4. /\ slot[c][s] = Unset
      /\ \A t \in Tables, i \in Slots : slot[t][i] # Wild
  BY <1>2, <1>3 DEF OrderInv, StageInv, WildInv, AtSlot
<1>5. AtSlot(p)' = slot'[c][s] /\ pc'[p] = "clear"
  BY <1>2 DEF AtSlot, SlotOf, Index, IInv, TypeOK
<1>6. CASE tables < MaxTables
  <2> DEFINE n == tables'
  <2>1. n = tables + 1 /\ n \in Tables /\ c # n /\ n \notin 1..tables
        /\ 1..n = 1..tables \cup {n}
    BY <1>1, <1>6 DEF AllocateTable, NewTable, Tables
  <2>2. slot' = [slot EXCEPT ![c][s] = n, ![n] = Zero(Wild)]
    BY <1>6 DEF AllocateTable, NewTable
  <2>3. /\ \A t \in Tables, i \in Slots :
             t # n /\ ~(t = c /\ i = s) => slot'[t][i] = slot[t][i]
        /\ slot'[c][s] = n
        /\ \A i \in Slots : slot'[n][i] = Wild
    BY <1>1, <2>1, <2>2 DEF IInv, TypeOK, Zero
  <2>4. \A t \in Tables, i \in Slots : slot[t][i] # n
    BY <1>1, <2>1 DEF IInv, TreeInv, Tables
  <2> HIDE DEF n
  <2>5. Wild \notin Tables /\ Unset \notin Tables /\ 1..tables \subseteq Tables
    BY <1>1 DEF Wild, Unset, Tables
  <2>6. StageInv'
    <3>1. AtSlot(p)' \in Tables
      BY <1>5, <2>1, <2>3
    <3>2. NoTableIn(AtSlot(p))'
      BY <1>5, <2>3, <2>5 DEF NoTableIn, Tables
    <3>3. QED
      BY <1>3, <1>5, <3>1, <3>2 DEF StageInv, Tables
  <2>7. WildInv'
    <3>1. ASSUME NEW t \in Tables, NEW i \in Slots, slot'[t][i] = Wild
          PROVE  t = n
      BY <1>4, <2>1, <2>3, <2>5, <3>1
    <3>2. AtSlot(p)' = n
      BY <1>5, <2>3
    <3>3. QED
      BY <1>5, <3>1, <3>2 DEF WildInv, Tables
  <2>8. Listed'
    <3>1. ASSUME NEW t \in 2..n
          PROVE  \E u \in 1..n, i \in Slots :
                   /\ slot'[u][i] = t
                   /\ \A v \in 1..n, j \in Slots : slot'[v][j] = t => v = u /\ j = i
      <4>1. CASE t = n
        <5>1. c \in 1..n /\ slot'[c][s] = t
          <6>1. c \in 1..tables
            BY <1>1 DEF Tables
          <6>2. QED
            BY <2>1, <2>3, <4>1, <6>1
        <5>2. \A v \in 1..n, j \in Slots : slot'[v][j] = t => v = c /\ j = s
          BY <2>1, <2>3, <2>4, <2>5, <4>1
        <5>3. QED
          BY <1>1, <5>1, <5>2
      <4>2. CASE t # n
        <5>1. t \in 2..tables /\ t \in Tables
          BY <1>1, <2>1, <4>2, <2>5
        <5>2. PICK u \in 1..tables, i \in Slots :
                /\ slot[u][i] = t
                /\ \A v \in 1..tables, j \in Slots : slot[v][j] = t => v = u /\ j = i
          BY <5>1 DEF OrderInv, Listed
        <5>3. ~(u = c /\ i = s)
          BY <1>4, <2>5, <5>1, <5>2
        <5>4. u \in 1..n /\ slot'[u][i] = t
          BY <2>1, <2>3, <2>5, <5>2, <5>3
        <5>5. \A v \in 1..n, j \in Slots : slot'[v][j] = t => v = u /\ j = i
          BY <2>1, <2>3, <2>5, <4>2, <5>1, <5>2
        <5>6. QED
          BY <5>4, <5>5
      <4>3. QED
        BY <4>1, <4>2
    <3>2. QED
      BY <3>1 DEF Listed, n
  <2>9. QED
    BY <1>3, <2>6, <2>7, <2>8 DEF OrderInv
<1>7. CASE ~(tables < MaxTables)
  <2>1. slot' = [slot EXCEPT ![c][s] = Unset] /\ tables' = tables /\ tables = MaxTables
    BY <1>1, <1>7 DEF AllocateTable, NewTable
  <2>2. slot' = slot
    BY <1>1, <1>4, <2>1 DEF IInv, TypeOK
  <2>3. AtSlot(p)' = Unset
    BY <1>4, <1>5, <2>2
  <2>4. StageInv'
    BY <1>3, <1>5, <2>1, <2>3 DEF StageInv
  <2>5. WildInv'
    BY <1>4, <2>2 DEF WildInv
  <2>6. Listed'
    BY <2>1, <2>2 DEF OrderInv, Listed
  <2>7. QED
    BY <1>3, <2>4, <2>5, <2>6 DEF OrderInv
<1>8. QED
  BY <1>6, <1>7

(* The table that is cleared led to no other. *)
LEMMA ClearOrder ==
  ASSUME IInv, OrderInv, NEW p \in Procs, ClearTable(p)
  PROVE  OrderInv'
<1> DEFINE n == AtSlot(p)
<1>1. /\ pc[p] = "clear" /\ n \in Tables /\ n = slot[cur[p]][SlotOf(p)]
      /\ slot' = [slot EXCEPT ![n] = Zero(Unset)]
      /\ pc' = [pc EXCEPT ![p] = "follow"]
      /\ UNCHANGED <<tables, op, level, cur>>
  BY DEF ClearTable, Goto, Walking, AtSlot
<1>2. AtSlot(p)' = slot'[cur[p]][SlotOf(p)]
  BY <1>1 DEF AtSlot, SlotOf, Index
<1>3. cur[p] \in Tables /\ SlotOf(p) \in Slots /\ cur[p] # n
  <2>1. cur[p] \in Tables /\ SlotOf(p) \in Slots
    BY AtTypes
  <2>2. cur[p] < n
    BY <1>1, <2>1 DEF IInv, TreeInv
  <2>3. QED
    BY <2>1, <2>2 DEF Tables
<1>4. NoTableIn(n)
  BY <1>1 DEF OrderInv, StageInv, Unset, Tables
<1>5. \A t \in Tables, i \in Slots : slot[t][i] = Wild => t = n
  <2>1. \A q \in Procs : pc[q] = "clear" => q = p
    BY <1>1 DEF OrderInv, AloneInv
  <2>2. QED
    BY <2>1 DEF OrderInv, WildInv
<1> HIDE DEF n
<1>6. /\ \A t \in Tables, i \in Slots : t # n => slot'[t][i] = slot[t][i]
      /\ \A i \in Slots : slot'[n][i] = Unset
  BY <1>1 DEF IInv, TypeOK, Zero
<1>7. AloneInv' /\ \A q \in Procs \ {p} : pc[q] = "run" /\ pc'[q] = "run"
  <2>1. \A q \in Procs \ {p} : pc'[q] = pc[q]
    BY <1>1 DEF IInv, TypeOK
  <2>2. QED
    BY <1>1, <2>1, Alone DEF OrderInv
<1>8. StageInv'
  <2>1. AtSlot(p)' \in Tables
    BY <1>1, <1>2, <1>3, <1>6
  <2>2. pc'[p] = "follow"
    BY <1>1 DEF IInv, TypeOK
  <2>3. QED
    BY <1>7, <2>1, <2>2 DEF StageInv, Tables
<1>9. \A t \in Tables, i \in Slots : slot'[t][i] # Wild
  BY <1>5, <1>6 DEF Unset, Wild
<1>10. WildInv'
  BY <1>9 DEF WildInv
<1>11. \A t \in Tables, i \in Slots, m \in Tables :
         slot'[t][i] = m <=> slot[t][i] = m
  <2>1. Unset \notin Tables
    BY DEF Unset, Tables
  <2>2. QED
    BY <1>4, <1>6, <2>1 DEF NoTableIn
<1>12. Listed'
  <2>1. tables \in Nat /\ 1..tables \subseteq Tables /\ 2..tables \subseteq Tables
    BY PageTableAssumption DEF IInv, TypeOK, Tables
  <2>2. ASSUME NEW t \in 2..tables
        PROVE  \E u \in 1..tables, i \in Slots :
                 /\ slot'[u][i] = t
                 /\ \A v \in 1..tables, j \in Slots : slot'[v][j] = t => v = u /\ j = i
    <3>1. PICK u \in 1..tables, i \in Slots :
            /\ slot[u][i] = t
            /\ \A v \in 1..tables, j \in Slots : slot[v][j] = t => v = u /\ j = i
      BY DEF OrderInv, Listed
    <3>2. QED
      BY <1>11, <2>1, <3>1
  <2>3. QED
    BY <1>1, <2>2 DEF Listed
<1>13. QED
  BY <1>7, <1>8, <1>10, <1>12 DEF OrderInv

LEMMA CallOrder ==
  ASSUME IInv, OrderInv, NEW p \in Procs, NEW o \in LockedCalls \cup UserCalls,
         LockedCall(p, o) \/ UserCall(p, o), ~raced'
  PROVE  OrderInv'
<1>1. /\ pc[p] = "run" /\ pc' = [pc EXCEPT ![p] = "test"]
      /\ raced' = (raced \/ \E q \in Procs \ {p} : pc[q] # "run")
      /\ UNCHANGED <<tables, slot>>
  BY DEF LockedCall, UserCall, Enter, Goto, memory
<1>2. \A q \in Procs \ {p} : pc[q] = "run"
  BY <1>1
<1>3. pc'[p] = "test" /\ \A q \in Procs \ {p} : pc'[q] = "run"
  BY <1>1, <1>2 DEF IInv, TypeOK
<1>4. QED
  BY <1>1, <1>2, <1>3, QuietStep

LEMMA SameOrder ==
  ASSUME UNCHANGED <<tables, slot, pc, op, level, cur>>
  PROVE  OrderInv' <=> OrderInv
<1>1. AloneInv' <=> AloneInv
  BY DEF AloneInv
<1>2. StageInv' <=> StageInv
  BY DEF StageInv, NoTableIn, AtSlot, SlotOf, Index, Tables
<1>3. WildInv' <=> WildInv
  BY DEF WildInv, AtSlot, SlotOf, Index, Tables
<1>4. Listed' <=> Listed
  BY DEF Listed
<1>5. QED
  BY <1>1, <1>2, <1>3, <1>4 DEF OrderInv

LEMMA StepOrder ==
  ASSUME IInv, OrderInv, NEW p \in Procs, Step(p)
  PROVE  OrderInv'
<1>1. CASE SlotSet(p) \/ SlotZero(p)
  BY <1>1, TestOrder
<1>2. CASE AllocateTable(p)
  BY <1>2, AllocateOrder
<1>3. CASE ClearTable(p)
  BY <1>3, ClearOrder
<1>4. CASE Crash(p)
  <2>1. UNCHANGED <<tables, slot, pc, op, level, cur>>
    BY <1>4 DEF Crash, memory, walk
  <2>2. QED
    BY <2>1, SameOrder
<1>5. CASE \/ GetNothing(p) \/ PrintPage(p) \/ FollowSlot(p) \/ GetEntry(p)
           \/ SetFrame(p) \/ SetEntry(p)
  <2>1. pc[p] \in {"test", "follow"} /\ UNCHANGED <<tables, slot>>
    BY <1>5 DEF GetNothing, PrintPage, FollowSlot, GetEntry, SetFrame, SetEntry, AtEntry,
         Walking, memory
  <2>2. \/ pc' = [pc EXCEPT ![p] = "run"]
        \/ pc' = [pc EXCEPT ![p] = "test"]
        \/ pc' = pc /\ pc[p] = "test"
    BY <1>5 DEF GetNothing, PrintPage, FollowSlot, GetEntry, SetFrame, SetEntry, AtEntry,
         Walking, NextPage, Return, Goto
  <2>3. pc'[p] \in {"run", "test"} /\ \A q \in Procs \ {p} : pc'[q] = pc[q]
    BY <2>2 DEF IInv, TypeOK
  <2>4. \A q \in Procs \ {p} : pc[q] = "run" /\ pc'[q] = "run"
    BY <2>1, <2>3, Alone DEF OrderInv
  <2>5. QED
    BY <2>1, <2>3, <2>4, QuietStep
<1>6. QED
  BY <1>1, <1>2, <1>3, <1>4, <1>5 DEF Step

LEMMA RaceStep == IInv /\ RaceInv /\ [Next]_vars => RaceInv'
<1> SUFFICES ASSUME IInv, RaceInv, [Next]_vars PROVE RaceInv'
  OBVIOUS
<1>1. ASSUME NEW p \in Procs, NEW o \in LockedCalls \cup UserCalls,
             LockedCall(p, o) \/ UserCall(p, o)
      PROVE  RaceInv'
  <2>1. UNCHANGED <<tables, crashed>> /\ (raced => raced')
    BY <1>1 DEF LockedCall, UserCall, Enter, memory
  <2>2. ~raced' => OrderInv'
    BY <1>1, <2>1, CallOrder DEF RaceInv
  <2>3. QED
    BY <2>1, <2>2 DEF RaceInv
<1>2. ASSUME NEW p \in Procs, Step(p) PROVE RaceInv'
  <2>1. raced' = raced
    BY <1>2 DEF Step, SlotSet, SlotZero, GetNothing, PrintPage, AllocateTable, ClearTable,
         FollowSlot, Crash, GetEntry, SetFrame, SetEntry
  <2>2. ~raced' => OrderInv'
    BY <1>2, <2>1, StepOrder DEF RaceInv
  <2>3. CASE Crash(p)
    <3>1. tables' = tables /\ pc[p] \in {"clear", "follow"} /\ AtSlot(p) \notin Tables
      BY <2>3 DEF Crash, memory
    <3>2. OrderInv => tables = MaxTables
      BY <3>1 DEF OrderInv, StageInv
    <3>3. QED
      BY <2>1, <2>2, <3>1, <3>2 DEF RaceInv
  <2>4. CASE ~Crash(p)
    <3>1. ~crashed
      BY <1>2 DEF Step, SlotSet, SlotZero, GetNothing, PrintPage, AllocateTable, ClearTable,
           FollowSlot, Crash, GetEntry, SetFrame, SetEntry, AtEntry, Walking
    <3>2. crashed' = crashed
      BY <1>2, <2>4 DEF Step, SlotSet, SlotZero, GetNothing, PrintPage, AllocateTable, ClearTable,
           FollowSlot, GetEntry, SetFrame, SetEntry
    <3>3. QED
      BY <2>2, <3>1, <3>2 DEF RaceInv
  <2>5. QED
    BY <2>3, <2>4
<1>3. CASE UNCHANGED vars
  <2>1. UNCHANGED <<tables, slot, pc, op, level, cur, raced, crashed>>
    BY <1>3 DEF vars, memory, walk
  <2>2. OrderInv' <=> OrderInv
    BY <2>1, SameOrder
  <2>3. QED
    BY <2>1, <2>2 DEF RaceInv
<1>4. QED
  BY <1>1, <1>2, <1>3 DEF Next, Stopped

(***************************************************************************)
(* The walks of src/mm64.c follow pointers to tables only, as long as no   *)
(* two of them overlap and malloc has memory: a table that malloc has not  *)
(* cleared is never looked at.                                             *)
(***************************************************************************)
THEOREM NoCrashWithoutRace == Spec => []CrashOnlyByRace
<1>1. RaceInv => CrashOnlyByRace
  BY DEF RaceInv, CrashOnlyByRace
<1>2. QED
  BY InitIInv, NextStep, InitRaceInv, RaceStep, <1>1, PTL DEF Spec

(***************************************************************************)
(* As long as no two walks of src/mm64.c overlap, no table is replaced and *)
(* each is at one slot of one table: the tables are a tree.                *)
(***************************************************************************)
THEOREM TablesAreATree == Spec => []EveryTableListed
<1>1. RaceInv => EveryTableListed
  BY DEF RaceInv, OrderInv, Listed, EveryTableListed
<1>2. QED
  BY InitIInv, NextStep, InitRaceInv, RaceStep, <1>1, PTL DEF Spec

-----------------------------------------------------------------------------
(* The values of words *)

(* f is a at lo, and goes on from there by F. *)
Follows(f, F, a, lo, hi) ==
  f[lo] = a /\ \A k \in (lo + 1)..hi : f[k] = F[k][f[k - 1]]

(* A function may be defined by what it is at lo and how it goes on. *)
LEMMA GoesOn ==
  ASSUME NEW S, NEW a \in S, NEW lo \in Nat, NEW hi \in Nat, lo <= hi,
         NEW F \in [lo..hi -> [S -> S]]
  PROVE  \E f \in [lo..hi -> S] : Follows(f, F, a, lo, hi)
<1> USE DEF Follows
<1> DEFINE Up(m) == \E f \in [lo..m -> S] :
                      f[lo] = a /\ \A k \in (lo + 1)..m : f[k] = F[k][f[k - 1]]
           T == {m \in lo..hi : ~Up(m)}
<1>1. SUFFICES ASSUME T # {} PROVE FALSE
  <2>1. hi \in lo..hi
    OBVIOUS
  <2> HIDE DEF Up
  <2>2. T = {} => Up(hi)
    BY <2>1
  <2> USE DEF Up
  <2>3. QED
    BY <2>2
<1>2. PICK m \in T : \A x \in T : m <= x
  <2>1. T \subseteq Nat
    OBVIOUS
  <2> HIDE DEF T
  <2>2. QED
    BY <1>1, <2>1, LeastNumber
<1>3. m # lo
  <2> DEFINE h == [k \in lo..lo |-> a]
  <2>1. h \in [lo..lo -> S] /\ h[lo] = a
    OBVIOUS
  <2>2. (lo + 1)..lo = {}
    OBVIOUS
  <2> HIDE DEF h
  <2>3. Up(lo)
    BY <2>1, <2>2
  <2> HIDE DEF Up
  <2>4. QED
    BY <1>2, <2>3
<1>4. m - 1 \in lo..hi /\ Up(m - 1)
  <2> HIDE DEF Up
  <2>1. m \in lo..hi /\ m - 1 \in lo..hi
    BY <1>2, <1>3
  <2>2. m - 1 \notin T
    BY <1>2, <2>1
  <2>3. QED
    BY <2>1, <2>2
<1>5. PICK f \in [lo..(m - 1) -> S] :
        f[lo] = a /\ \A k \in (lo + 1)..(m - 1) : f[k] = F[k][f[k - 1]]
  BY <1>4
<1> DEFINE h == [k \in lo..m |-> IF k = m THEN F[m][f[m - 1]] ELSE f[k]]
<1>6. F[m][f[m - 1]] \in S
  <2>1. F[m] \in [S -> S] /\ f[m - 1] \in S
    BY <1>2, <1>3, <1>4, <1>5
  <2>2. QED
    BY <2>1
<1>7. h \in [lo..m -> S]
  BY <1>2, <1>5, <1>6
<1>8. h[lo] = a
  BY <1>2, <1>3, <1>5
<1>9. ASSUME NEW k \in (lo + 1)..m PROVE h[k] = F[k][h[k - 1]]
  <2>1. h[k - 1] = f[k - 1]
    BY <1>2, <1>3
  <2>2. CASE k = m
    BY <2>1, <2>2
  <2>3. CASE k # m
    BY <1>5, <2>1, <2>3
  <2>4. QED
    BY <2>2, <2>3
<1>10. Up(m)
  BY <1>7, <1>8, <1>9
<1>11. QED
  BY <1>2, <1>10

Bit(b, bits) == IF b \in bits THEN 1 ELSE 0

(* The number of a word, bit by bit. *)
LEMMA NumSteps ==
  ASSUME NEW bits
  PROVE  \E v \in [0..26 -> Nat] :
           /\ v[0] = 0
           /\ \A n \in 1..26 : v[n] = 2 * v[n - 1] + Bit(26 - n, bits)
           /\ Num(bits) = v[26]
<1> DEFINE F == [n \in 0..26 |-> [x \in Nat |-> 2 * x + Bit(26 - n, bits)]]
<1>1. F \in [0..26 -> [Nat -> Nat]]
  BY DEF Bit
<1> HIDE DEF F
<1>2. PICK f \in [0..26 -> Nat] : f[0] = 0 /\ \A n \in (0 + 1)..26 : f[n] = F[n][f[n - 1]]
  <2>1. 0 \in Nat /\ 26 \in Nat /\ 0 <= 26
    OBVIOUS
  <2>2. \E f \in [0..26 -> Nat] : Follows(f, F, 0, 0, 26)
    BY <1>1, <2>1, GoesOn, Zenon
  <2>3. QED
    BY <2>2 DEF Follows
<1>3. \A n \in 1..26 : f[n] = 2 * f[n - 1] + Bit(26 - n, bits)
  BY <1>2 DEF F
<1>4. f = [n \in 0..26 |->
             IF n = 0 THEN 0 ELSE 2 * f[n - 1] + (IF 26 - n \in bits THEN 1 ELSE 0)]
  BY <1>2, <1>3 DEF Bit
<1> DEFINE v == CHOOSE value : value = [n \in 0..26 |->
             IF n = 0 THEN 0 ELSE 2 * value[n - 1] + (IF 26 - n \in bits THEN 1 ELSE 0)]
<1>5. v = [n \in 0..26 |->
             IF n = 0 THEN 0 ELSE 2 * v[n - 1] + (IF 26 - n \in bits THEN 1 ELSE 0)]
  BY <1>4
<1>6. Num(bits) = v[26]
  BY DEF Num
<1> HIDE DEF v
<1>7. v[0] = 0 /\ \A n \in 1..26 : v[n] = 2 * v[n - 1] + Bit(26 - n, bits)
  BY <1>5 DEF Bit
<1>8. \A n \in 0..26 : v[n] \in Nat
  <2> DEFINE T == {n \in 0..26 : v[n] \notin Nat}
  <2>1. SUFFICES ASSUME T # {} PROVE FALSE
    OBVIOUS
  <2>2. PICK m \in T : \A x \in T : m <= x
    <3>1. T \subseteq Nat
      OBVIOUS
    <3> HIDE DEF T
    <3>2. QED
      BY <2>1, <3>1, LeastNumber
  <2>3. m # 0
    BY <1>7, <2>2
  <2>4. m - 1 \in 0..26 /\ v[m - 1] \in Nat
    BY <2>2, <2>3
  <2>5. m \in 1..26 /\ Bit(26 - m, bits) \in Nat
    BY <2>2, <2>3 DEF Bit
  <2>6. v[m] = 2 * v[m - 1] + Bit(26 - m, bits)
    BY <1>7, <2>5
  <2>7. v[m] \in Nat
    BY <2>4, <2>5, <2>6
  <2>8. QED
    BY <2>2, <2>7
<1>9. v \in [0..26 -> Nat]
  BY <1>5, <1>8
<1>10. QED
  BY <1>6, <1>7, <1>9

(* value[n] of a word: the number of its n highest bits. *)
Digits(v, bits) == /\ v \in [0..26 -> Nat]
                   /\ v[0] = 0
                   /\ \A n \in 1..26 : v[n] = 2 * v[n - 1] + Bit(26 - n, bits)

(* What a bit adds. *)
LEMMA NextDigit ==
  ASSUME NEW bits, NEW v, Digits(v, bits), NEW n \in 0..25
  PROVE  /\ v[n] \in Nat /\ v[n + 1] \in Nat
         /\ v[n + 1] = 2 * v[n] \/ v[n + 1] = 2 * v[n] + 1
         /\ v[n + 1] = 2 * v[n] + (IF 25 - n \in bits THEN 1 ELSE 0)
<1>1. n + 1 \in 1..26 /\ (n + 1) - 1 = n /\ 26 - (n + 1) = 25 - n
  OBVIOUS
<1>2. v[n + 1] = 2 * v[n] + Bit(25 - n, bits)
  BY <1>1 DEF Digits
<1>3. v[n] \in Nat /\ v[n + 1] \in Nat
  BY <1>1 DEF Digits
<1>4. QED
  BY <1>2, <1>3 DEF Bit

(* Words whose bits agree, k places apart, have the same number there. *)
LEMMA SameDigits ==
  ASSUME NEW a, NEW b, NEW v, NEW w, Digits(v, a), Digits(w, b),
         NEW m \in 0..26, NEW k \in Nat, m + k <= 26, v[0] = w[k],
         \A n \in 0..(m - 1) : 25 - n \in a <=> 25 - (n + k) \in b
  PROVE  v[m] = w[m + k]
<1> DEFINE T == {n \in 0..m : v[n] # w[n + k]}
<1>1. SUFFICES ASSUME T # {} PROVE FALSE
  OBVIOUS
<1>2. PICK x \in T : \A y \in T : x <= y
  <2>1. T \subseteq Nat
    OBVIOUS
  <2> HIDE DEF T
  <2>2. QED
    BY <1>1, <2>1, LeastNumber
<1>3. x # 0
  BY <1>2
<1>4. x - 1 \in 0..(m - 1) /\ v[x - 1] = w[(x - 1) + k]
  BY <1>2, <1>3
<1>5. PICK n \in 0..(m - 1) : n = x - 1
  BY <1>4
<1>6. n \in 0..25 /\ n + k \in 0..25 /\ v[n] = w[n + k] /\ (25 - n \in a <=> 25 - (n + k) \in b)
  BY <1>4, <1>5
<1>7. v[n + 1] = 2 * v[n] + (IF 25 - n \in a THEN 1 ELSE 0)
  BY <1>6, NextDigit
<1>8. w[(n + k) + 1] = 2 * w[n + k] + (IF 25 - (n + k) \in b THEN 1 ELSE 0)
  BY <1>6, NextDigit
<1>9. v[n + 1] = w[(n + k) + 1] /\ n + 1 = x /\ (n + k) + 1 = x + k
  BY <1>2, <1>5, <1>6, <1>7, <1>8
<1>10. QED
  BY <1>2, <1>9

(* The lower half of the number is its remainder. *)
LEMMA LowNumber ==
  ASSUME NEW bits, NEW v, Digits(v, bits)
  PROVE  v[26] % 8192 = v[26] - 8192 * v[13]
<1>1. ASSUME NEW n \in 14..26
      PROVE  /\ v[n] \in Nat /\ v[n - 1] \in Nat
             /\ v[n] = 2 * v[n - 1] \/ v[n] = 2 * v[n - 1] + 1
  <2>1. n - 1 \in 0..25 /\ (n - 1) + 1 = n
    OBVIOUS
  <2>2. QED
    BY <2>1, NextDigit
<1>2. 2 * v[13] <= v[14] /\ v[14] <= 2 * v[13] + 1
  BY <1>1, SMT
<1>3. 4 * v[13] <= v[15] /\ v[15] <= 4 * v[13] + 3
  BY <1>1, <1>2, SMT
<1>4. 8 * v[13] <= v[16] /\ v[16] <= 8 * v[13] + 7
  BY <1>1, <1>3, SMT
<1>5. 16 * v[13] <= v[17] /\ v[17] <= 16 * v[13] + 15
  BY <1>1, <1>4, SMT
<1>6. 32 * v[13] <= v[18] /\ v[18] <= 32 * v[13] + 31
  BY <1>1, <1>5, SMT
<1>7. 64 * v[13] <= v[19] /\ v[19] <= 64 * v[13] + 63
  BY <1>1, <1>6, SMT
<1>8. 128 * v[13] <= v[20] /\ v[20] <= 128 * v[13] + 127
  BY <1>1, <1>7, SMT
<1>9. 256 * v[13] <= v[21] /\ v[21] <= 256 * v[13] + 255
  BY <1>1, <1>8, SMT
<1>10. 512 * v[13] <= v[22] /\ v[22] <= 512 * v[13] + 511
  BY <1>1, <1>9, SMT
<1>11. 1024 * v[13] <= v[23] /\ v[23] <= 1024 * v[13] + 1023
  BY <1>1, <1>10, SMT
<1>12. 2048 * v[13] <= v[24] /\ v[24] <= 2048 * v[13] + 2047
  BY <1>1, <1>11, SMT
<1>13. 4096 * v[13] <= v[25] /\ v[25] <= 4096 * v[13] + 4095
  BY <1>1, <1>12, SMT
<1>14. 8192 * v[13] <= v[26] /\ v[26] <= 8192 * v[13] + 8191
  BY <1>1, <1>13, SMT
<1>15. v[13] \in Nat /\ v[26] \in Nat
  BY <1>1
<1>16. PICK b \in Nat \ {0} : b = 8192
  BY SMT
<1> DEFINE h == v[13]
           l == v[26] - 8192 * v[13]
<1>17. h \in Nat /\ l \in 0..(b - 1) /\ v[26] = b * h + l
  <2>1. h \in Nat /\ l \in Int /\ 0 <= l /\ l <= 8191 /\ v[26] = 8192 * h + l
    BY <1>14, <1>15, SMT
  <2> HIDE DEF h, l
  <2>2. l \in 0..(b - 1)
    BY <1>16, <2>1, SMT
  <2>3. b * h = 8192 * h
    BY <1>16, SMT
  <2>4. QED
    BY <2>1, <2>2, <2>3, SMT
<1> HIDE DEF h, l
<1>18. (b * h + l) % b = l
  BY <1>17, DivisionUnique, SMT
<1>19. QED
  BY <1>16, <1>17, <1>18, SMT DEF l

(* Two words of the same lower half differ in the upper half alone. *)
LEMMA LowDifference ==
  ASSUME NEW a, NEW b, NEW v, NEW w, Digits(v, a), Digits(w, b),
         \A n \in 0..12 : n \in a <=> n \in b
  PROVE  v[26] - w[26] = 8192 * (v[13] - w[13])
<1>1. ASSUME NEW n \in 14..26
      PROVE  /\ v[n] \in Nat /\ v[n - 1] \in Nat /\ w[n] \in Nat /\ w[n - 1] \in Nat
             /\ v[n] - w[n] = 2 * (v[n - 1] - w[n - 1])
  <2>1. n - 1 \in 0..25 /\ (n - 1) + 1 = n /\ 25 - (n - 1) \in 0..12
    OBVIOUS
  <2>2. /\ v[n - 1] \in Nat /\ v[n] \in Nat
        /\ v[n] = 2 * v[n - 1] + (IF 25 - (n - 1) \in a THEN 1 ELSE 0)
    BY <2>1, NextDigit
  <2>3. /\ w[n - 1] \in Nat /\ w[n] \in Nat
        /\ w[n] = 2 * w[n - 1] + (IF 25 - (n - 1) \in b THEN 1 ELSE 0)
    BY <2>1, NextDigit
  <2>4. 25 - (n - 1) \in a <=> 25 - (n - 1) \in b
    BY <2>1
  <2>5. QED
    BY <2>2, <2>3, <2>4
<1>2. v[14] - w[14] = 2 * (v[13] - w[13])
  BY <1>1, SMT
<1>3. v[15] - w[15] = 4 * (v[13] - w[13])
  BY <1>1, <1>2, SMT
<1>4. v[16] - w[16] = 8 * (v[13] - w[13])
  BY <1>1, <1>3, SMT
<1>5. v[17] - w[17] = 16 * (v[13] - w[13])
  BY <1>1, <1>4, SMT
<1>6. v[18] - w[18] = 32 * (v[13] - w[13])
  BY <1>1, <1>5, SMT
<1>7. v[19] - w[19] = 64 * (v[13] - w[13])
  BY <1>1, <1>6, SMT
<1>8. v[20] - w[20] = 128 * (v[13] - w[13])
  BY <1>1, <1>7, SMT
<1>9. v[21] - w[21] = 256 * (v[13] - w[13])
  BY <1>1, <1>8, SMT
<1>10. v[22] - w[22] = 512 * (v[13] - w[13])
  BY <1>1, <1>9, SMT
<1>11. v[23] - w[23] = 1024 * (v[13] - w[13])
  BY <1>1, <1>10, SMT
<1>12. v[24] - w[24] = 2048 * (v[13] - w[13])
  BY <1>1, <1>11, SMT
<1>13. v[25] - w[25] = 4096 * (v[13] - w[13])
  BY <1>1, <1>12, SMT
<1>14. v[26] - w[26] = 8192 * (v[13] - w[13])
  BY <1>1, <1>13, SMT
<1>15. QED
  BY <1>14, SMT

(* What a frame number in the bits 0..12 does to the number of an entry. *)
LEMMA NumFpn ==
  ASSUME NEW v \in Word, NEW f \in Word
  PROVE  Num(FpnWord(v, f)) = Num(v) - (Num(v) % 8192) + (Num(f) % 8192)
<1> DEFINE w == FpnWord(v, f)
<1>1. \A b \in 0..12 : b \in w <=> b \in f
  BY DEF FpnWord, SETVAL, SETBIT, CLRBIT, GENMASK, ShiftLeft, Complement, Bits32, Bits64,
         FpnMask, FpnLobit, PresentMask, SwappedMask
<1>2. \A b \in 13..25 : b \in v <=> b \in w
  BY DEF FpnWord, SETVAL, SETBIT, CLRBIT, GENMASK, ShiftLeft, Complement, Bits32, Bits64,
         FpnMask, FpnLobit, PresentMask, SwappedMask
<1> HIDE DEF w
<1>3. PICK x : Digits(x, v) /\ Num(v) = x[26]
  BY NumSteps DEF Digits
<1>4. PICK y : Digits(y, f) /\ Num(f) = y[26]
  BY NumSteps DEF Digits
<1>5. PICK z : Digits(z, w) /\ Num(w) = z[26]
  BY NumSteps DEF Digits
<1>6. x[13] = z[13]
  <2>1. \A n \in 0..(13 - 1) : 25 - n \in v <=> 25 - (n + 0) \in w
    BY <1>2
  <2>2. x[0] = z[0] /\ 13 \in 0..26 /\ 0 \in Nat /\ 13 + 0 <= 26 /\ 13 + 0 = 13
    BY <1>3, <1>5 DEF Digits
  <2>3. x[13] = z[13 + 0]
    BY <1>3, <1>5, <2>1, <2>2, SameDigits
  <2>4. QED
    BY <2>2, <2>3
<1>7. z[26] - y[26] = 8192 * (z[13] - y[13])
  BY <1>1, <1>4, <1>5, LowDifference, SMT
<1>8. x[26] % 8192 = x[26] - 8192 * x[13] /\ y[26] % 8192 = y[26] - 8192 * y[13]
  BY <1>3, <1>4, LowNumber, SMT
<1>9. /\ x[13] \in Nat /\ x[26] \in Nat /\ y[13] \in Nat /\ y[26] \in Nat
      /\ z[13] \in Nat /\ z[26] \in Nat
  BY <1>3, <1>4, <1>5 DEF Digits
<1>10. QED
  BY <1>3, <1>4, <1>5, <1>6, <1>7, <1>8, <1>9, SMT DEF w

(* The swap offset is the number without its lowest five bits. *)
LEMMA NumSwap ==
  ASSUME NEW v, NEW s \in SUBSET (0..20)
  PROVE  Num(SwapWord(v, {}, s)) = 32 * Num(s)
<1> DEFINE w == SwapWord(v, {}, s)
<1>1. \A b \in 0..4 : b \notin w
  BY DEF SwapWord, SETVAL, SETBIT, GENMASK, ShiftLeft, Complement, Bits32, Bits64,
         SwpTypMask, SwpTypLobit, SwpOffMask, SwpOffLobit
<1>2. \A b \in 5..25 : b \in w <=> b - 5 \in s
  BY DEF SwapWord, SETVAL, SETBIT, GENMASK, ShiftLeft, Complement, Bits32, Bits64,
         SwpTypMask, SwpTypLobit, SwpOffMask, SwpOffLobit
<1> HIDE DEF w
<1>3. PICK y : Digits(y, s) /\ Num(s) = y[26]
  BY NumSteps DEF Digits
<1>4. PICK z : Digits(z, w) /\ Num(w) = z[26]
  BY NumSteps DEF Digits
<1>5. y[5] = 0
  <2>1. \A n \in 1..5 : y[n - 1] \in Nat /\ y[n] = 2 * y[n - 1]
    <3>1. ASSUME NEW n \in 1..5 PROVE y[n - 1] \in Nat /\ y[n] = 2 * y[n - 1]
      <4>1. n - 1 \in 0..25 /\ (n - 1) + 1 = n /\ 25 - (n - 1) \notin s
        OBVIOUS
      <4>2. QED
        BY <1>3, <4>1, NextDigit
    <3>2. QED
      BY <3>1
  <2>2. y[0] = 0
    BY <1>3 DEF Digits
  <2>3. QED
    BY <2>1, <2>2, SMT
<1>6. z[21] = y[26]
  <2>1. ASSUME NEW n \in 0..(21 - 1) PROVE 25 - n \in w <=> 25 - (n + 5) \in s
    <3>1. 25 - n \in 5..25 /\ (25 - n) - 5 = 25 - (n + 5)
      OBVIOUS
    <3>2. QED
      BY <1>2, <3>1
  <2>2. z[0] = y[5] /\ 21 \in 0..26 /\ 5 \in Nat /\ 21 + 5 <= 26 /\ 21 + 5 = 26
    BY <1>4, <1>5 DEF Digits
  <2>3. z[21] = y[21 + 5]
    BY <1>3, <1>4, <2>1, <2>2, SameDigits
  <2>4. QED
    BY <2>2, <2>3
<1>7. z[26] = 32 * z[21]
  <2>1. \A n \in 22..26 : z[n - 1] \in Nat /\ z[n] = 2 * z[n - 1]
    <3>1. ASSUME NEW n \in 22..26 PROVE z[n - 1] \in Nat /\ z[n] = 2 * z[n - 1]
      <4>1. n - 1 \in 0..25 /\ (n - 1) + 1 = n /\ 25 - (n - 1) \in 0..4
        OBVIOUS
      <4>2. 25 - (n - 1) \notin w
        BY <1>1, <4>1
      <4>3. QED
        BY <1>4, <4>1, <4>2, NextDigit
    <3>2. QED
      BY <3>1
  <2>2. QED
    BY <2>1, SMT
<1>8. QED
  BY <1>3, <1>4, <1>6, <1>7, SMT DEF w

(* 0xdeadbeef, without its highest six bits. *)
LEMMA NumPattern == Num(PatternWord) = 44941039
<1>1. PICK v : Digits(v, PatternWord) /\ Num(PatternWord) = v[26]
  BY NumSteps DEF Digits
<1>2. ASSUME NEW n \in 1..26
      PROVE  /\ v[n - 1] \in Nat
             /\ v[n] = 2 * v[n - 1] + (IF n \in {2, 4, 6, 9, 12, 18, 22} THEN 0 ELSE 1)
  <2>1. n - 1 \in 0..25 /\ (n - 1) + 1 = n /\ 25 - (n - 1) = 26 - n
    OBVIOUS
  <2>2. 26 - n \in PatternWord <=> n \notin {2, 4, 6, 9, 12, 18, 22}
    BY DEF PatternWord
  <2>3. QED
    BY <1>1, <2>1, <2>2, NextDigit, SMT
<1>3. v[0] = 0
  BY <1>1 DEF Digits
<1>4. v[4] = 10
  BY <1>2, <1>3, SMT
<1>5. v[8] = 171
  BY <1>2, <1>4, SMT
<1>6. v[12] = 2742
  BY <1>2, <1>5, SMT
<1>7. v[16] = 43887
  BY <1>2, <1>6, SMT
<1>8. v[20] = 702203
  BY <1>2, <1>7, SMT
<1>9. v[23] = 5617629
  BY <1>2, <1>8, SMT
<1>10. v[26] = 44941039
  BY <1>2, <1>9, SMT
<1>11. QED
  BY <1>1, <1>10, SMT

LEMMA NumZero == Num({}) = 0
<1>1. PICK v : Digits(v, {}) /\ Num({}) = v[26]
  BY NumSteps DEF Digits
<1>2. ASSUME NEW n \in 1..26 PROVE v[n - 1] \in Nat /\ v[n] = 2 * v[n - 1]
  <2>1. n - 1 \in 0..25 /\ (n - 1) + 1 = n
    OBVIOUS
  <2>2. QED
    BY <1>1, <2>1, NextDigit
<1>3. v[0] = 0
  BY <1>1 DEF Digits
<1>4. v[13] = 0
  BY <1>2, <1>3, SMT
<1>5. v[26] = 0
  BY <1>2, <1>4, SMT
<1>6. QED
  BY <1>1, <1>5

(* pte_get_entry loses nothing by returning the lower half. *)
LEMMA NumLower == \A v \in Word : Num(v \cap Bits32) = Num(v)
<1> SUFFICES ASSUME NEW v \in Word PROVE Num(v \cap Bits32) = Num(v)
  OBVIOUS
<1> DEFINE w == v \cap Bits32
<1>1. ASSUME NEW n \in 0..(26 - 1) PROVE 25 - n \in w <=> 25 - (n + 0) \in v
  BY DEF Bits32
<1> HIDE DEF w
<1>2. PICK x : Digits(x, w) /\ Num(w) = x[26]
  BY NumSteps DEF Digits
<1>3. PICK y : Digits(y, v) /\ Num(v) = y[26]
  BY NumSteps DEF Digits
<1>4. x[0] = y[0] /\ 26 \in 0..26 /\ 0 \in Nat /\ 26 + 0 <= 26 /\ 26 + 0 = 26
  BY <1>2, <1>3 DEF Digits
<1>5. x[26] = y[26 + 0]
  BY <1>1, <1>2, <1>3, <1>4, SameDigits
<1>6. QED
  BY <1>2, <1>3, <1>4, <1>5 DEF w

(***************************************************************************)
(* The assignments to *pte of src/mm64.c, as those who read the entries    *)
(* see them (module Entries).                                              *)
(***************************************************************************)
LEMMA DecodeEntries ==
  /\ Decode({}) = Flat!NoPte
  /\ \A v \in Word, f \in Word : Decode(FpnWord(v, f)) = Flat!SetFpn(Decode(v), Num(f))
  /\ \A v \in Word, s \in SUBSET (0..20) : Decode(SwapWord(v, {}, s)) = Flat!SetSwap(Num(s))
  /\ Decode(PatternWord) = Flat!PatternPte
  /\ \A v \in Word : Decode(v \cap Bits32) = Decode(v)
<1>1. Decode({}) = Flat!NoPte
  <2>1. (PresentMask \subseteq {}) = FALSE /\ (SwappedMask \subseteq {}) = FALSE
    BY DEF PresentMask, SwappedMask
  <2>2. QED
    BY <2>1, NumZero DEF Decode, Flat!NoPte
<1>2. ASSUME NEW v \in Word, NEW f \in Word
      PROVE  Decode(FpnWord(v, f)) = Flat!SetFpn(Decode(v), Num(f))
  <2> DEFINE w == FpnWord(v, f)
  <2>1. 31 \in w /\ 30 \notin w
    BY DEF FpnWord, SETVAL, SETBIT, CLRBIT, GENMASK, ShiftLeft, Complement, Bits32, Bits64,
           FpnMask, FpnLobit, PresentMask, SwappedMask
  <2>2. Num(w) = Num(v) - (Num(v) % 8192) + (Num(f) % 8192)
    BY NumFpn
  <2> HIDE DEF w
  <2>3. (PresentMask \subseteq w) = TRUE /\ (SwappedMask \subseteq w) = FALSE
    BY <2>1 DEF PresentMask, SwappedMask
  <2>4. Decode(w) = [present |-> TRUE, swapped |-> FALSE, low |-> Num(w)]
    BY <2>3 DEF Decode
  <2>5. Flat!SetFpn(Decode(v), Num(f)) =
          [present |-> TRUE, swapped |-> FALSE,
           low |-> Num(v) - (Num(v) % 8192) + (Num(f) % 8192)]
    BY DEF Flat!SetFpn, Decode, Flat!PAGING_FPN, Flat!FpnField
  <2>6. QED
    BY <2>2, <2>4, <2>5 DEF w
<1>3. ASSUME NEW v, NEW s \in SUBSET (0..20)
      PROVE  Decode(SwapWord(v, {}, s)) = Flat!SetSwap(Num(s))
  <2> DEFINE w == SwapWord(v, {}, s)
  <2>1. 31 \in w /\ 30 \in w
    BY DEF SwapWord, SETVAL, SETBIT, GENMASK, Complement, Bits32,
           SwpTypMask, SwpTypLobit, SwpOffMask, SwpOffLobit, PresentMask, SwappedMask
  <2>2. Num(w) = 32 * Num(s)
    BY NumSwap
  <2> HIDE DEF w
  <2>3. (PresentMask \subseteq w) = TRUE /\ (SwappedMask \subseteq w) = TRUE
    BY <2>1 DEF PresentMask, SwappedMask
  <2>4. Decode(w) = [present |-> TRUE, swapped |-> TRUE, low |-> Num(w)]
    BY <2>3 DEF Decode
  <2>5. Num(s) \in Nat
    BY NumSteps
  <2>6. 32 * Num(s) = Num(s) * Flat!SwpOffLow
    BY <2>5 DEF Flat!SwpOffLow
  <2>7. QED
    BY <2>2, <2>4, <2>6 DEF Flat!SetSwap, w
<1>4. Decode(PatternWord) = Flat!PatternPte
  <2>1. (PresentMask \subseteq PatternWord) = TRUE /\ (SwappedMask \subseteq PatternWord) = TRUE
    BY DEF PresentMask, SwappedMask, PatternWord
  <2>2. Decode(PatternWord) = [present |-> TRUE, swapped |-> TRUE, low |-> Num(PatternWord)]
    BY <2>1 DEF Decode
  <2>3. QED
    BY <2>2, NumPattern, SMT DEF Flat!PatternPte
<1>5. ASSUME NEW v \in Word PROVE Decode(v \cap Bits32) = Decode(v)
  <2>1. /\ (PresentMask \subseteq v \cap Bits32) = (PresentMask \subseteq v)
        /\ (SwappedMask \subseteq v \cap Bits32) = (SwappedMask \subseteq v)
    BY DEF PresentMask, SwappedMask, Bits32
  <2>2. QED
    BY <2>1, NumLower DEF Decode
<1>6. QED
  BY <1>1, <1>2, <1>3, <1>4, <1>5, Zenon

-----------------------------------------------------------------------------
(* The way to the entry of a page *)

(* The tables on the way to a page, one after the other. *)
LEMMA WayOf ==
  TypeOK =>
    \A g \in Nat :
      /\ TableOf(g, 1) = Root
      /\ \A l \in 1..Levels :
           /\ TableOf(g, l) \in Tables \cup {Unset, Wild}
           /\ l < Levels => TableOf(g, l + 1) = Below(TableOf(g, l), Index(g, l))
<1> SUFFICES ASSUME TypeOK, NEW g \in Nat
             PROVE  /\ TableOf(g, 1) = Root
                    /\ \A l \in 1..Levels :
                         /\ TableOf(g, l) \in Tables \cup {Unset, Wild}
                         /\ l < Levels => TableOf(g, l + 1) = Below(TableOf(g, l), Index(g, l))
  OBVIOUS
<1> DEFINE S == Tables \cup {Unset, Wild}
           F == [k \in 1..Levels |->
                   [x \in S |-> IF k = 1 THEN x ELSE Below(x, Index(g, k - 1))]]
<1>1. Levels \in Nat /\ 1 <= Levels /\ 1 \in Nat /\ Root \in S
  BY PageTableAssumption DEF Root, Tables
<1>2. \A k \in 1..Levels : k # 1 => k - 1 \in 1..Levels /\ Index(g, k - 1) \in Slots
  BY <1>1, PartOfPage
<1>3. \A t \in S, i \in Slots : Below(t, i) \in S
  BY DEF TypeOK, Below
<1>4. F \in [1..Levels -> [S -> S]]
  BY <1>2, <1>3
<1> HIDE DEF F
<1>5. PICK f \in [1..Levels -> S] :
        f[1] = Root /\ \A k \in (1 + 1)..Levels : f[k] = F[k][f[k - 1]]
  <2> HIDE DEF S
  <2>1. \E f \in [1..Levels -> S] : Follows(f, F, Root, 1, Levels)
    BY <1>1, <1>4, GoesOn, Zenon
  <2>2. QED
    BY <2>1 DEF Follows
<1>6. \A k \in 2..Levels : f[k] = Below(f[k - 1], Index(g, k - 1))
  <2>1. ASSUME NEW k \in 2..Levels PROVE f[k] = Below(f[k - 1], Index(g, k - 1))
    <3>1. k \in 1..Levels /\ k - 1 \in 1..Levels /\ k # 1 /\ k \in (1 + 1)..Levels
      BY <1>1
    <3>2. f[k - 1] \in S
      BY <1>5, <3>1
    <3>3. F[k][f[k - 1]] = Below(f[k - 1], Index(g, k - 1))
      BY <3>1, <3>2 DEF F
    <3>4. QED
      BY <1>5, <3>1, <3>3
  <2>2. QED
    BY <2>1
<1>7. f = [k \in 1..Levels |-> IF k = 1 THEN Root ELSE Below(f[k - 1], Index(g, k - 1))]
  BY <1>1, <1>5, <1>6
<1> DEFINE v == CHOOSE table :
                  table = [k \in 1..Levels |->
                             IF k = 1 THEN Root ELSE Below(table[k - 1], Index(g, k - 1))]
<1>8. v = [k \in 1..Levels |-> IF k = 1 THEN Root ELSE Below(v[k - 1], Index(g, k - 1))]
  BY <1>7
<1>9. \A l : TableOf(g, l) = v[l]
  BY DEF TableOf
<1> HIDE DEF v
<1>10. v[1] = Root
  BY <1>1, <1>8
<1>11. \A l \in 1..Levels : l < Levels => v[l + 1] = Below(v[l], Index(g, l))
  <2>1. ASSUME NEW l \in 1..Levels, l < Levels PROVE v[l + 1] = Below(v[l], Index(g, l))
    <3>1. l + 1 \in 1..Levels /\ l + 1 # 1 /\ (l + 1) - 1 = l
      BY <1>1, <2>1
    <3>2. QED
      BY <1>8, <3>1
  <2>2. QED
    BY <2>1
<1>12. \A l \in 1..Levels : v[l] \in S
  <2> DEFINE T == {l \in 1..Levels : v[l] \notin S}
  <2>1. SUFFICES ASSUME T # {} PROVE FALSE
    OBVIOUS
  <2>2. PICK m \in T : \A x \in T : m <= x
    <3>1. T \subseteq Nat
      OBVIOUS
    <3> HIDE DEF T
    <3>2. QED
      BY <2>1, <3>1, LeastNumber
  <2>3. m # 1
    BY <1>1, <1>10, <2>2
  <2>4. m - 1 \in 1..Levels /\ m - 1 < Levels /\ (m - 1) + 1 = m /\ v[m - 1] \in S
    BY <1>1, <2>2, <2>3
  <2>5. v[m] = Below(v[m - 1], Index(g, m - 1)) /\ Index(g, m - 1) \in Slots
    BY <1>11, <2>4, PartOfPage
  <2>6. v[m] \in S
    BY <1>3, <2>4, <2>5
  <2>7. QED
    BY <2>2, <2>6
<1>13. QED
  BY <1>9, <1>10, <1>11, <1>12

(* A property of level 1 that each level hands on is one of every level. *)
LEMMA DownTheLevels ==
  ASSUME NEW P, P \subseteq 1..Levels, 1 \in P,
         \A l \in P : l < Levels => l + 1 \in P
  PROVE  P = 1..Levels
<1>1. Levels \in Nat
  BY PageTableAssumption
<1> DEFINE T == (1..Levels) \ P
<1>2. SUFFICES ASSUME T # {} PROVE FALSE
  OBVIOUS
<1>3. PICK m \in T : \A x \in T : m <= x
  <2>1. T \subseteq Nat
    OBVIOUS
  <2> HIDE DEF T
  <2>2. QED
    BY <1>2, <2>1, LeastNumber
<1>4. m # 1
  BY <1>3
<1>5. m - 1 \in P /\ m - 1 < Levels /\ (m - 1) + 1 = m
  BY <1>1, <1>3, <1>4
<1>6. QED
  BY <1>3, <1>5

LEMMA BusPage ==
  ASSUME NEW g \in Nat
  PROVE  /\ BusPages \in Nat \ {0}
         /\ OnBus(g) \in 0..(BusPages - 1) /\ OnBus(OnBus(g)) = OnBus(g)
         /\ g < BusPages => OnBus(g) = g
<1>1. 1 \in 1..Levels /\ Fan \in Nat \ {0} /\ Weight \in [1..Levels -> Nat \ {0}]
  BY PageTableAssumption
<1>2. BusPages \in Nat \ {0}
  BY <1>1 DEF BusPages
<1>3. OnBus(g) \in 0..(BusPages - 1)
  BY <1>2, Division DEF OnBus
<1>4. \A r \in 0..(BusPages - 1) : r % BusPages = r
  <2>1. ASSUME NEW r \in 0..(BusPages - 1) PROVE r % BusPages = r
    <3>1. 0 \in Nat /\ BusPages * 0 + r = r
      BY <1>2
    <3>2. (BusPages * 0 + r) % BusPages = r
      BY <1>2, <3>1, DivisionUnique
    <3>3. QED
      BY <3>1, <3>2
  <2>2. QED
    BY <2>1
<1>5. QED
  BY <1>2, <1>3, <1>4 DEF OnBus

(* Two pages of the same number on the bus have the same way. *)
LEMMA SameWay ==
  ASSUME TypeOK, NEW g \in Nat, NEW h \in Nat, OnBus(g) = OnBus(h)
  PROVE  /\ \A l \in 1..Levels : /\ Index(g, l) = Index(h, l)
                                 /\ TableOf(g, l) = TableOf(h, l)
         /\ WordOf(g) = WordOf(h)
<1>1. Levels \in Nat /\ 1 \in 1..Levels /\ Levels \in 1..Levels /\ Fan \in Nat
  BY PageTableAssumption
<1>2. ASSUME NEW l \in 1..Levels PROVE Index(g, l) = Index(h, l)
  <2> DEFINE k == PartOf(g, l)
             n == IF l < Levels THEN PartOf(g, l + 1) ELSE OnBus(g)
  <2>1. PartOf(h, l) = k /\ n = IF l < Levels THEN PartOf(h, l + 1) ELSE OnBus(h)
    BY DEF PartOf
  <2>2. k \in Nat
    <3>1. Fan \in Nat \ {0} /\ Weight[l] \in Nat \ {0}
      BY PageTableAssumption
    <3>2. Fan * Weight[l] \in Nat \ {0} /\ OnBus(g) \in Nat
      BY <3>1, PartOfPage
    <3>3. QED
      BY <3>2, Division DEF PartOf
  <2> HIDE DEF k, n
  <2>3. Fan * k + Index(g, l) = n /\ Index(g, l) \in Slots
    BY PartOfPage DEF k, n
  <2>4. Fan * k + Index(h, l) = n /\ Index(h, l) \in Slots
    BY <2>1, PartOfPage
  <2>5. QED
    BY <1>1, <2>2, <2>3, <2>4 DEF Slots
<1> DEFINE P == {l \in 1..Levels : TableOf(g, l) = TableOf(h, l)}
<1>3. 1 \in P
  BY <1>1, WayOf
<1>4. ASSUME NEW l \in P, l < Levels PROVE l + 1 \in P
  <2>1. l \in 1..Levels /\ l + 1 \in 1..Levels
    BY <1>1, <1>4
  <2>2. TableOf(g, l + 1) = Below(TableOf(g, l), Index(g, l))
        /\ TableOf(h, l + 1) = Below(TableOf(h, l), Index(h, l))
    BY <1>4, <2>1, WayOf
  <2>3. QED
    BY <1>2, <2>1, <2>2
<1>5. P = 1..Levels
  <2>1. P \subseteq 1..Levels
    OBVIOUS
  <2> HIDE DEF P
  <2>2. QED
    BY <1>3, <1>4, <2>1, DownTheLevels
<1>6. \A l \in 1..Levels : TableOf(g, l) = TableOf(h, l)
  BY <1>5
<1>7. QED
  BY <1>1, <1>2, <1>6 DEF WordOf

(* The table of a page on a level is the one with the part of the page. *)
LEMMA WayParts ==
  ASSUME IInv, NEW g \in Nat, NEW l \in 1..Levels, TableOf(g, l) \in Tables
  PROVE  TableOf(g, l) <= tables /\ part[TableOf(g, l)] = PartOf(g, l)
<1> DEFINE P == {m \in 1..Levels :
                   TableOf(g, m) \in Tables
                     => TableOf(g, m) <= tables /\ part[TableOf(g, m)] = PartOf(g, m)}
<1>1. TypeOK /\ Levels \in Nat /\ 1 \in 1..Levels /\ tables \in Nat /\ 1 <= tables
  <2>1. TypeOK
    BY DEF IInv
  <2>2. tables \in Tables
    BY <2>1 DEF TypeOK
  <2>3. QED
    BY <2>1, <2>2, PageTableAssumption DEF Tables
<1>2. 1 \in P
  <2>1. TableOf(g, 1) = Root /\ part[Root] = 0 /\ PartOf(g, 1) = 0
    BY <1>1, WayOf, PartOfPage DEF IInv, TreeInv
  <2>2. QED
    BY <1>1, <2>1 DEF Root
<1>3. ASSUME NEW m \in P, m < Levels PROVE m + 1 \in P
  <2> DEFINE t == TableOf(g, m)
             i == Index(g, m)
  <2>1. m \in 1..Levels /\ m + 1 \in 1..Levels
    BY <1>1, <1>3
  <2>2. TableOf(g, m + 1) = Below(t, i)
    BY <1>1, <1>3, <2>1, WayOf
  <2>3. i \in Slots /\ Fan * PartOf(g, m) + i = PartOf(g, m + 1)
    BY <1>3, <2>1, PartOfPage
  <2>4. t \in Tables => part[t] = PartOf(g, m)
    BY <1>3
  <2> HIDE DEF t, i
  <2>5. ASSUME Below(t, i) \in Tables
        PROVE  Below(t, i) <= tables /\ part[Below(t, i)] = PartOf(g, m + 1)
    <3>1. t \in Tables /\ Below(t, i) = slot[t][i]
      BY <2>5 DEF Below, Unset, Tables
    <3>2. slot[t][i] <= tables /\ part[slot[t][i]] = Fan * part[t] + i
      BY <2>3, <2>5, <3>1 DEF IInv, TreeInv
    <3>3. QED
      BY <2>3, <2>4, <3>1, <3>2
  <2>6. QED
    BY <2>1, <2>2, <2>5
<1>4. P = 1..Levels
  <2>1. P \subseteq 1..Levels
    OBVIOUS
  <2> HIDE DEF P
  <2>2. QED
    BY <1>2, <1>3, <2>1, DownTheLevels
<1>5. QED
  BY <1>4

(* Each page has an entry of its own. *)
LEMMA OneEntry ==
  ASSUME IInv, NEW g \in Nat, NEW h \in Nat,
         TableOf(g, Levels) \in Tables, TableOf(g, Levels) = TableOf(h, Levels),
         Index(g, Levels) = Index(h, Levels)
  PROVE  OnBus(g) = OnBus(h)
<1>1. Levels \in 1..Levels /\ ~(Levels < Levels)
  BY PageTableAssumption
<1>2. PartOf(g, Levels) = PartOf(h, Levels)
  BY <1>1, WayParts
<1>3. Fan * PartOf(g, Levels) + Index(g, Levels) = OnBus(g)
      /\ Fan * PartOf(h, Levels) + Index(h, Levels) = OnBus(h)
  BY <1>1, PartOfPage
<1>4. QED
  BY <1>2, <1>3

(* Where there is no table, there is none further down. *)
LEMMA NothingBelow ==
  ASSUME TypeOK, NEW g \in Nat, NEW l \in 1..Levels, TableOf(g, l) \notin Tables, l > 1
  PROVE  TableOf(g, Levels) \notin Tables
<1> DEFINE P == {m \in 1..Levels : m >= l => TableOf(g, m) \notin Tables}
<1>1. Levels \in Nat /\ Levels >= l /\ Levels \in 1..Levels
  BY PageTableAssumption
<1>2. 1 \in P
  BY <1>1
<1>3. ASSUME NEW m \in P, m < Levels PROVE m + 1 \in P
  <2>1. m \in 1..Levels /\ m + 1 \in 1..Levels
    BY <1>1, <1>3
  <2>2. CASE m >= l
    <3>1. TableOf(g, m + 1) = Below(TableOf(g, m), Index(g, m)) /\ TableOf(g, m) \notin Tables
      BY <1>3, <2>1, <2>2, WayOf
    <3>2. TableOf(g, m + 1) \notin Tables
      BY <3>1 DEF Below, Unset, Tables
    <3>3. QED
      BY <2>1, <3>2
  <2>3. CASE m + 1 = l
    BY <2>1, <2>3
  <2>4. CASE m + 1 < l
    BY <2>1, <2>4
  <2>5. QED
    BY <2>1, <2>2, <2>3, <2>4
<1>4. P = 1..Levels
  <2>1. P \subseteq 1..Levels
    OBVIOUS
  <2> HIDE DEF P
  <2>2. QED
    BY <1>2, <1>3, <2>1, DownTheLevels
<1>5. QED
  BY <1>1, <1>4

Ways ==
  \A g \in Nat :
    /\ TableOf(g, 1) = Root
    /\ \A l \in 1..Levels : TableOf(g, l) \in Tables \cup {Unset, Wild}
    /\ \A l \in 1..Levels, t \in Tables \cup {Unset, Wild} :
         l < Levels /\ TableOf(g, l) = t => TableOf(g, l + 1) = Below(t, Index(g, l))

LEMMA WaysHold == TypeOK => Ways
BY WayOf DEF Ways

LEMMA WayAfter ==
  ASSUME TypeOK', NEW g \in Nat
  PROVE  /\ TableOf(g, 1)' = Root
         /\ \A l \in 1..Levels : TableOf(g, l)' \in Tables \cup {Unset, Wild}
         /\ \A l \in 1..Levels, t \in Tables \cup {Unset, Wild} :
              l < Levels /\ TableOf(g, l)' = t
                => TableOf(g, l + 1)' = Below(t, Index(g, l))'
<1>1. Ways'
  BY WaysHold, PTL
<1>2. QED
  BY <1>1 DEF Ways, Tables

(* A step that changes no slot keeps the ways. *)
LEMMA WayKept ==
  ASSUME IInv, TypeOK',
         \A t \in Tables, i \in Slots : t <= tables => Below(t, i)' = Below(t, i)
  PROVE  \A g \in Nat, l \in 1..Levels : TableOf(g, l)' = TableOf(g, l)
<1> SUFFICES ASSUME NEW g \in Nat
             PROVE  \A l \in 1..Levels : TableOf(g, l)' = TableOf(g, l)
  OBVIOUS
<1> DEFINE P == {m \in 1..Levels : TableOf(g, m)' = TableOf(g, m)}
<1>1. TypeOK /\ Levels \in Nat /\ 1 \in 1..Levels
  BY PageTableAssumption DEF IInv
<1>2. 1 \in P
  BY <1>1, WayOf, WayAfter
<1>3. ASSUME NEW m \in P, m < Levels PROVE m + 1 \in P
  <2>1. m \in 1..Levels /\ m + 1 \in 1..Levels /\ TableOf(g, m)' = TableOf(g, m)
    BY <1>1, <1>3
  <2>2. PICK t \in Tables \cup {Unset, Wild} : t = TableOf(g, m)
    BY <1>1, <2>1, WayOf
  <2>3. PICK i \in Slots : i = Index(g, m)
    BY <2>1, PartOfPage
  <2>4. TableOf(g, m + 1) = Below(t, i)
    BY <1>1, <1>3, <2>1, <2>2, <2>3, WayOf
  <2>5. TableOf(g, m + 1)' = Below(t, i)'
    <3>1. TableOf(g, m + 1)' = Below(t, Index(g, m))'
      BY <1>3, <2>1, <2>2, WayAfter
    <3>2. Index(g, m)' = Index(g, m)
      BY DEF Index
    <3>3. QED
      BY <2>3, <3>1, <3>2 DEF Below, InMaking
  <2>6. Below(t, i)' = Below(t, i)
    <3>1. CASE t \in Tables
      <4>1. t <= tables
        BY <2>1, <2>2, <3>1, WayParts
      <4>2. QED
        BY <3>1, <4>1
    <3>2. CASE t \notin Tables
      BY <3>2 DEF Below, Tables
    <3>3. QED
      BY <3>1, <3>2
  <2>7. QED
    BY <2>1, <2>4, <2>5, <2>6
<1>4. P = 1..Levels
  <2>1. P \subseteq 1..Levels
    OBVIOUS
  <2> HIDE DEF P
  <2>2. QED
    BY <1>2, <1>3, <2>1, DownTheLevels
<1>5. QED
  BY <1>4

WaysStay  == \A g \in Nat, l \in 1..Levels : TableOf(g, l)' = TableOf(g, l)
WordsStay == \A g \in Nat : WordOf(g)' = WordOf(g)

(* The entries stay if the ways to them and the words do. *)
LEMMA WordsKept ==
  ASSUME IInv, WaysStay,
         \A t \in Tables, i \in Slots : t <= tables => word'[t][i] = word[t][i]
  PROVE  WordsStay
<1> SUFFICES ASSUME NEW g \in Nat PROVE WordOf(g)' = WordOf(g)
  BY DEF WordsStay
<1>1. Levels \in 1..Levels
  BY PageTableAssumption
<1> DEFINE t == TableOf(g, Levels)
           i == Index(g, Levels)
<1>2. t' = t /\ i' = i /\ i \in Slots /\ (t \in Tables => t <= tables)
  BY <1>1, WayParts, PartOfPage DEF WaysStay, Index
<1>3. /\ WordOf(g) = IF t \in Tables THEN word[t][i] ELSE {}
      /\ WordOf(g)' = IF t' \in Tables THEN word'[t'][i'] ELSE {}
  BY DEF WordOf, Tables
<1> HIDE DEF t, i
<1>4. t \in Tables => word'[t][i] = word[t][i]
  BY <1>2
<1>5. QED
  BY <1>2, <1>3, <1>4

(* Steps that change no slot, and have no table in the making. *)
LEMMA QuietWays ==
  ASSUME IInv, TypeOK', UNCHANGED slot,
         \A q \in Procs : pc[q] # "clear" /\ pc'[q] # "clear"
  PROVE  WaysStay
<1>1. \A t \in Tables, i \in Slots : Below(t, i) = slot[t][i] /\ Below(t, i)' = slot[t][i]
  BY DEF Below, InMaking, Tables
<1>2. QED
  BY <1>1, WayKept DEF WaysStay

(* A new table is not yet in the tree. *)
LEMMA AllocateWays ==
  ASSUME IInv, TypeOK', OrderInv, NEW p \in Procs, AllocateTable(p)
  PROVE  WaysStay /\ WordsStay
<1> DEFINE c == cur[p]
           s == SlotOf(p)
<1>1. /\ pc[p] = "allocate" /\ pc' = [pc EXCEPT ![p] = "clear"]
      /\ UNCHANGED <<op, level, cur>>
  BY DEF AllocateTable, Goto, Walking
<1>2. \A q \in Procs \ {p} : pc[q] = "run" /\ pc'[q] = "run"
  <2>1. \A q \in Procs \ {p} : pc'[q] = pc[q]
    BY <1>1 DEF IInv, TypeOK
  <2>2. QED
    BY <1>1, <2>1, Alone DEF OrderInv
<1>3. pc'[p] = "clear" /\ SlotOf(p)' = s
  BY <1>1 DEF IInv, TypeOK, SlotOf, Index
<1>4. c \in Tables /\ s \in Slots /\ slot[c][s] = Unset
  BY <1>1, AtTypes DEF OrderInv, StageInv, AtSlot
<1>5. /\ \A t \in Tables, i \in Slots : Below(t, i) = slot[t][i]
      /\ \A t \in Tables, i \in Slots :
           Below(t, i)' = IF t = c /\ i = s THEN Unset ELSE slot'[t][i]
  <2>1. \A t, i : ~InMaking(t, i)
    BY <1>1, <1>2 DEF InMaking
  <2>2. \A t, i : InMaking(t, i)' <=> t = c /\ i = s
    BY <1>1, <1>2, <1>3 DEF InMaking
  <2>3. QED
    BY <2>1, <2>2 DEF Below, Tables
<1>6. \A t \in Tables, i \in Slots :
        t <= tables => /\ (t = c /\ i = s) \/ slot'[t][i] = slot[t][i]
                       /\ word'[t][i] = word[t][i]
  <2>1. tables \in Tables /\ MaxTables \in Nat
    BY PageTableAssumption DEF IInv, TypeOK
  <2>2. CASE tables < MaxTables
    <3>1. tables' = tables + 1 /\ tables' \in Tables
      BY <2>1, <2>2 DEF AllocateTable, NewTable, Tables
    <3>2. /\ slot' = [slot EXCEPT ![c][s] = tables', ![tables'] = Zero(Wild)]
          /\ word' = [word EXCEPT ![tables'] = Zero(Bits64)]
      BY <2>2 DEF AllocateTable, NewTable
    <3>3. \A t \in Tables : t <= tables => t # tables'
      BY <2>1, <3>1 DEF Tables
    <3>4. c <= tables /\ c # tables'
      BY <1>4, <3>3, AtTypes
    <3>5. ASSUME NEW t \in Tables, NEW i \in Slots, t # tables'
          PROVE  (t = c /\ i = s) \/ slot'[t][i] = slot[t][i]
      <4> DEFINE row == [slot[c] EXCEPT ![s] = tables']
      <4>1. slot' = [[slot EXCEPT ![c] = row] EXCEPT ![tables'] = Zero(Wild)]
        BY <3>2
      <4>2. slot \in [Tables -> [Slots -> Tables \cup {Unset, Wild}]]
        BY DEF IInv, TypeOK
      <4>3. i # s => row[i] = slot[c][i]
        BY <1>4, <4>2
      <4> HIDE DEF row
      <4>4. slot'[t] = IF t = c THEN row ELSE slot[t]
        BY <1>4, <3>5, <4>1, <4>2
      <4>5. QED
        BY <4>3, <4>4
    <3>6. ASSUME NEW t \in Tables, NEW i \in Slots, t # tables'
          PROVE  word'[t][i] = word[t][i]
      BY <3>1, <3>2, <3>6 DEF IInv, TypeOK
    <3>7. QED
      BY <3>3, <3>5, <3>6
  <2>3. CASE ~(tables < MaxTables)
    <3>1. slot' = [slot EXCEPT ![c][s] = Unset] /\ word' = word
      BY <2>3 DEF AllocateTable, NewTable
    <3>2. QED
      BY <1>4, <3>1 DEF IInv, TypeOK
  <2>4. QED
    BY <2>2, <2>3
<1> HIDE DEF c, s
<1>7. \A t \in Tables, i \in Slots : t <= tables => Below(t, i)' = Below(t, i)
  <2>1. ASSUME NEW t \in Tables, NEW i \in Slots, t <= tables
        PROVE  (IF t = c /\ i = s THEN Unset ELSE slot'[t][i]) = slot[t][i]
    BY <1>4, <1>6, <2>1
  <2>2. QED
    BY <1>5, <2>1
<1>8. WaysStay
  BY <1>7, WayKept DEF WaysStay
<1>9. QED
  BY <1>6, <1>8, WordsKept

(* The table that is cleared comes into the tree, empty, where none was. *)
LEMMA ClearWays ==
  ASSUME IInv, TypeOK', OrderInv, NEW p \in Procs, ClearTable(p)
  PROVE  /\ \A g \in Nat, l \in 1..Levels :
              TableOf(g, l) # Unset => TableOf(g, l)' = TableOf(g, l)
         /\ WordsStay
<1> DEFINE n == AtSlot(p)
           c == cur[p]
           s == SlotOf(p)
<1>1. /\ pc[p] = "clear" /\ n \in Tables /\ n = slot[c][s]
      /\ slot' = [slot EXCEPT ![n] = Zero(Unset)]
      /\ word' = [word EXCEPT ![n] = Zero({})]
      /\ pc' = [pc EXCEPT ![p] = "follow"]
      /\ UNCHANGED <<tables, op, level, cur>>
  BY DEF ClearTable, Goto, Walking, AtSlot
<1>2. \A q \in Procs \ {p} : pc[q] = "run" /\ pc'[q] = "run"
  <2>1. \A q \in Procs \ {p} : pc'[q] = pc[q]
    BY <1>1 DEF IInv, TypeOK
  <2>2. QED
    BY <1>1, <2>1, Alone DEF OrderInv
<1>3. pc'[p] = "follow"
  BY <1>1 DEF IInv, TypeOK
<1>4. tables \in Nat /\ tables <= MaxTables /\ MaxTables \in Nat /\ Levels \in Nat
      /\ 1 \in 1..Levels /\ Levels \in 1..Levels
  <2>1. tables \in Tables
    BY DEF IInv, TypeOK
  <2>2. QED
    BY <2>1, PageTableAssumption DEF Tables
<1>5. c \in Tables /\ s \in Slots /\ c <= tables /\ c < n /\ n <= tables
  <2>1. c \in Tables /\ s \in Slots /\ c <= tables
    BY AtTypes
  <2>2. c < n /\ n <= tables
    BY <1>1, <2>1 DEF IInv, TreeInv
  <2>3. QED
    BY <2>1, <2>2
<1>6. \A t, i : /\ InMaking(t, i) <=> t = c /\ i = s
                /\ ~InMaking(t, i)'
  BY <1>1, <1>2, <1>3 DEF InMaking
<1>7. \A t \in Tables, i \in Slots :
        Below(t, i) = IF t = c /\ i = s THEN Unset ELSE slot[t][i]
  BY <1>6 DEF Below
<1> HIDE DEF n, c, s
<1>8. /\ \A t \in Tables, i \in Slots : slot'[t][i] = IF t = n THEN Unset ELSE slot[t][i]
      /\ \A t \in Tables, i \in Slots : word'[t][i] = IF t = n THEN {} ELSE word[t][i]
  BY <1>1 DEF IInv, TypeOK, Zero
<1>9. \A t \in Tables, i \in Slots :
        Below(t, i)' = IF t = n THEN Unset ELSE slot[t][i]
  <2>1. \A t \in Tables, i \in Slots : Below(t, i)' = slot'[t][i]
    BY <1>6 DEF Below, Tables
  <2>2. QED
    BY <1>8, <2>1
<1>10. \A t \in Tables, i \in Slots : t <= tables => Below(t, i) # n
  <2>1. ASSUME NEW t \in Tables, NEW i \in Slots, t <= tables, slot[t][i] = n
        PROVE  t = c /\ i = s
    <3>1. n \in 2..tables /\ t \in 1..tables /\ c \in 1..tables
      BY <1>1, <1>4, <1>5, <2>1 DEF Tables
    <3>2. PICK u \in 1..tables, j \in Slots :
            \A v \in 1..tables, k \in Slots : slot[v][k] = n => v = u /\ k = j
      <4>1. Listed
        BY DEF OrderInv
      <4>2. PICK u \in 1..tables, j \in Slots :
              /\ slot[u][j] = n
              /\ \A v \in 1..tables, k \in Slots : slot[v][k] = n => v = u /\ k = j
        BY <3>1, <4>1, Zenon DEF Listed
      <4>3. QED
        BY <4>2
    <3>3. QED
      BY <1>1, <1>5, <2>1, <3>1, <3>2
  <2>2. n # Unset
    BY <1>1 DEF Unset, Tables
  <2>3. QED
    BY <1>7, <2>1, <2>2
<1>11. ASSUME NEW g \in Nat, NEW l \in 1..Levels
       PROVE  \/ TableOf(g, l)' = TableOf(g, l) /\ TableOf(g, l) # n
              \/ TableOf(g, l) = Unset /\ TableOf(g, l)' \in {n, Unset}
  <2> DEFINE Good(m) == \/ TableOf(g, m)' = TableOf(g, m) /\ TableOf(g, m) # n
                        \/ TableOf(g, m) = Unset /\ TableOf(g, m)' \in {n, Unset}
             P == {m \in 1..Levels : Good(m)}
  <2>1. 1 \in P
    <3>1. TableOf(g, 1)' = Root /\ TableOf(g, 1) = Root
      BY WayOf, WayAfter DEF IInv
    <3>2. Root # n
      BY <1>1, <1>5 DEF Root, Tables
    <3>3. QED
      BY <1>4, <3>1, <3>2
  <2>2. ASSUME NEW m \in P, m < Levels PROVE m + 1 \in P
    <3>1. m \in 1..Levels /\ m + 1 \in 1..Levels /\ Good(m)
      BY <1>4, <2>2
    <3>2. PICK i \in Slots : i = Index(g, m)
      BY <3>1, PartOfPage
    <3>3. PICK t \in Tables \cup {Unset, Wild} : t = TableOf(g, m)
      BY <3>1, WayOf DEF IInv
    <3>4. PICK u \in Tables \cup {Unset, Wild} : u = TableOf(g, m)'
      BY <3>1, WayAfter DEF Tables
    <3>5. TableOf(g, m + 1) = Below(t, i)
      BY <2>2, <3>1, <3>2, <3>3, WayOf DEF IInv
    <3>6. TableOf(g, m + 1)' = Below(u, i)'
      <4>1. TableOf(g, m + 1)' = Below(u, Index(g, m))'
        BY <2>2, <3>1, <3>4, WayAfter
      <4>2. Index(g, m)' = i
        BY <3>2 DEF Index
      <4>3. QED
        BY <4>1, <4>2 DEF Below, InMaking
    <3>7. (t = u /\ t # n) \/ (t = Unset /\ u \in {n, Unset})
      BY <3>1, <3>3, <3>4
    <3>8. t \in Tables => t <= tables
      BY <3>1, <3>3, WayParts
    <3>9. \A x : x \notin Tables => Below(x, i) = Unset /\ Below(x, i)' = Unset
      BY DEF Below, Tables
    <3>10. Unset \notin Tables /\ n # Unset
      BY <1>1 DEF Unset, Tables
    <3>11. \/ Below(u, i)' = Below(t, i) /\ Below(t, i) # n
           \/ Below(t, i) = Unset /\ Below(u, i)' \in {n, Unset}
      <4>1. CASE t \in Tables
        <5>1. t = u /\ t # n
          BY <3>7, <3>10, <4>1
        <5>2. Below(t, i) # n
          BY <1>10, <3>8, <4>1
        <5>3. Below(t, i)' = slot[t][i]
          BY <1>9, <4>1, <5>1
        <5>4. Below(t, i) = IF t = c /\ i = s THEN Unset ELSE slot[t][i]
          BY <1>7, <4>1
        <5>5. Below(u, i)' = Below(t, i)'
          BY <5>1
        <5>6. QED
          BY <1>1, <5>2, <5>3, <5>4, <5>5
      <4>2. CASE t \notin Tables
        <5>1. Below(t, i) = Unset
          BY <3>9, <4>2
        <5>2. Below(u, i)' = Unset
          <6>1. CASE u = n
            BY <1>1, <1>9, <6>1
          <6>2. CASE u # n
            <7>1. u \notin Tables
              BY <3>7, <3>10, <4>2, <6>2
            <7>2. QED
              BY <3>9, <7>1
          <6>3. QED
            BY <6>1, <6>2
        <5>3. QED
          BY <5>1, <5>2
      <4>3. QED
        BY <4>1, <4>2
    <3>12. QED
      BY <3>1, <3>5, <3>6, <3>11
  <2>3. P = 1..Levels
    <3>1. P \subseteq 1..Levels
      OBVIOUS
    <3> HIDE DEF P
    <3>2. QED
      BY <2>1, <2>2, <3>1, DownTheLevels
  <2>4. QED
    BY <2>3
<1>12. ASSUME NEW g \in Nat PROVE WordOf(g)' = WordOf(g)
  <2> DEFINE t == TableOf(g, Levels)
             i == Index(g, Levels)
  <2>1. (t' = t /\ t # n) \/ (t = Unset /\ t' \in {n, Unset})
    BY <1>4, <1>11
  <2>2. i' = i /\ i \in Slots
    BY <1>4, PartOfPage DEF Index
  <2>3. /\ WordOf(g) = IF t \in Tables THEN word[t][i] ELSE {}
        /\ WordOf(g)' = IF t' \in Tables THEN word'[t'][i'] ELSE {}
    BY DEF WordOf, Tables
  <2>4. Unset \notin Tables
    BY DEF Unset, Tables
  <2> HIDE DEF t, i
  <2>5. CASE t' = t /\ t # n
    BY <1>8, <2>2, <2>3, <2>5
  <2>6. CASE t = Unset /\ t' \in {n, Unset}
    BY <1>1, <1>8, <2>2, <2>3, <2>4, <2>6
  <2>7. QED
    BY <2>1, <2>5, <2>6
<1>13. QED
  BY <1>11, <1>12 DEF WordsStay

LEMMA StillWays ==
  ASSUME IInv, TypeOK', UNCHANGED <<slot, word, pc, op, level, cur>>
  PROVE  WaysStay /\ WordsStay
<1>1. \A t \in Tables, i \in Slots : Below(t, i)' = Below(t, i)
  BY DEF Below, InMaking, SlotOf, Index, Tables
<1>2. WaysStay
  BY <1>1, WayKept DEF WaysStay
<1>3. QED
  BY <1>2, WordsKept

LEMMA CallWays ==
  ASSUME IInv, IInv', NEW p \in Procs, NEW o \in LockedCalls \cup UserCalls,
         LockedCall(p, o) \/ UserCall(p, o), ~raced'
  PROVE  /\ WaysStay /\ WordsStay
         /\ \A q \in Procs \ {p} : pc[q] = "run" /\ pc'[q] = "run"
<1>1. /\ pc[p] = "run" /\ pc' = [pc EXCEPT ![p] = "test"]
      /\ raced' = (raced \/ \E q \in Procs \ {p} : pc[q] # "run")
      /\ UNCHANGED <<slot, word>>
  BY DEF LockedCall, UserCall, Enter, Goto, memory
<1>2. \A q \in Procs \ {p} : pc[q] = "run"
  BY <1>1
<1>3. pc'[p] = "test" /\ \A q \in Procs \ {p} : pc'[q] = "run"
  BY <1>1, <1>2 DEF IInv, TypeOK
<1>4. WaysStay
  <2>1. \A q \in Procs : pc[q] # "clear" /\ pc'[q] # "clear"
    BY <1>1, <1>2, <1>3
  <2>2. QED
    BY <1>1, <2>1, QuietWays DEF IInv
<1>5. QED
  BY <1>1, <1>2, <1>3, <1>4, WordsKept

(* What a step of a walk does to the ways and the entries. *)
LEMMA StepWays ==
  ASSUME IInv, IInv', OrderInv, NEW p \in Procs, Step(p)
  PROVE  /\ \A g \in Nat, l \in 1..Levels :
              TableOf(g, l) # Unset => TableOf(g, l)' = TableOf(g, l)
         /\ ~ClearTable(p) => WaysStay
         /\ ~SetEntry(p) => WordsStay
<1>1. CASE AllocateTable(p)
  BY <1>1, AllocateWays DEF WaysStay, IInv
<1>2. CASE ClearTable(p)
  BY <1>2, ClearWays DEF IInv
<1>3. CASE Crash(p)
  BY <1>3, StillWays DEF WaysStay, IInv, Crash, memory, walk
<1>4. CASE \/ SlotSet(p) \/ SlotZero(p) \/ GetNothing(p) \/ PrintPage(p) \/ FollowSlot(p)
           \/ GetEntry(p) \/ SetFrame(p) \/ SetEntry(p)
  <2>1. pc[p] \in {"test", "follow"} /\ UNCHANGED slot /\ (SetEntry(p) \/ UNCHANGED word)
    BY <1>4 DEF SlotSet, SlotZero, GetNothing, PrintPage, FollowSlot, GetEntry, SetFrame,
         SetEntry, AtEntry, Walking, memory
  <2>2. \/ \E l \in {"run", "test", "follow", "allocate"} : pc' = [pc EXCEPT ![p] = l]
        \/ pc' = pc /\ pc[p] = "test"
    BY <1>4 DEF SlotSet, SlotZero, GetNothing, PrintPage, FollowSlot, GetEntry, SetFrame,
         SetEntry, AtEntry, Walking, NextPage, Return, Goto
  <2>3. pc'[p] # "clear" /\ \A q \in Procs \ {p} : pc'[q] = pc[q]
    BY <2>2 DEF IInv, TypeOK
  <2>4. \A q \in Procs \ {p} : pc[q] = "run" /\ pc'[q] = "run"
    BY <2>1, <2>3, Alone DEF OrderInv
  <2>5. WaysStay
    <3>1. \A q \in Procs : pc[q] # "clear" /\ pc'[q] # "clear"
      BY <2>1, <2>3, <2>4
    <3>2. QED
      BY <2>1, <3>1, QuietWays DEF IInv
  <2>6. ~SetEntry(p) => WordsStay
    BY <2>1, <2>5, WordsKept
  <2>7. QED
    BY <2>5, <2>6 DEF WaysStay
<1>5. QED
  BY <1>1, <1>2, <1>3, <1>4 DEF Step

(* What a call enters is what calls are made with. *)
ValueInv ==
  \A p \in Procs : /\ op[p].kind = "fpn"  => op[p].value \in Fpns
                   /\ op[p].kind = "swap" => op[p].value \in SwpOffs

(* Without a race a walk is on the way to its page. *)
OnTheWay ==
  \A p \in Procs, g \in Nat, l \in 1..Levels :
    pc[p] # "run" /\ op[p].pgn = g /\ level[p] = l => cur[p] = TableOf(g, l)

Fitting(o) == /\ o.kind = "fpn"  => o.value \in Fpns
              /\ o.kind = "swap" => o.value \in SwpOffs

LEMMA CallsFit ==
  /\ \A o \in LockedCalls \cup UserCalls : Fitting(o)
  /\ Fitting(NoCall)
<1>1. \A k, g, n, v : LET o == Call(k, g, n, v)
                      IN  o.kind = k /\ o.value = v
  BY DEF Call
<1>2. \A K : "fpn" \notin K /\ "swap" \notin K => \A o \in RangeCalls(K) : Fitting(o)
  BY <1>1 DEF RangeCalls, Fitting
<1>3. \A o \in {Call("get", g, 1, {}) : g \in Pages} : Fitting(o)
  BY <1>1 DEF Fitting
<1>4. \A o \in {Call("fpn", g, 1, f) : g \in Pages, f \in Fpns} : Fitting(o)
  BY <1>1 DEF Fitting
<1>5. \A o \in {Call("swap", g, 1, s) : g \in Pages, s \in SwpOffs} : Fitting(o)
  BY <1>1 DEF Fitting
<1>6. /\ \A o \in RangeCalls({"range", "print"}) : Fitting(o)
      /\ \A o \in RangeCalls({"range", "memset"}) : Fitting(o)
  BY <1>2
<1>7. Fitting(NoCall)
  BY <1>1 DEF NoCall, Fitting
<1>8. QED
  BY <1>3, <1>4, <1>5, <1>6, <1>7 DEF LockedCalls, UserCalls

(* The next page of a call has the value of the last, or none. *)
LEMMA NextFits ==
  ASSUME IInv, ValueInv, NEW p \in Procs, NextPage(p)
  PROVE  ValueInv'
<1>1. \A q \in Procs : Fitting(op[q])
  BY DEF ValueInv, Fitting
<1>2. op \in [Procs -> [kind : Kinds, pgn : Nat, n : Nat, value : Word]]
  BY DEF IInv, TypeOK
<1>3. Fitting(op'[p]) /\ \A q \in Procs \ {p} : op'[q] = op[q]
  <2>1. CASE op[p].n > 1
    <3>1. op' = [op EXCEPT ![p].pgn = @ + 1, ![p].n = @ - 1,
                           ![p].kind = IF @ = "fpn" THEN "range" ELSE @]
      BY <2>1 DEF NextPage
    <3>2. /\ op'[p].kind = IF op[p].kind = "fpn" THEN "range" ELSE op[p].kind
          /\ op'[p].value = op[p].value
          /\ \A q \in Procs \ {p} : op'[q] = op[q]
      BY <1>2, <3>1
    <3>3. QED
      BY <1>1, <3>2 DEF Fitting
  <2>2. CASE ~(op[p].n > 1)
    <3>1. op' = [op EXCEPT ![p] = NoCall]
      BY <2>2 DEF NextPage, Return
    <3>2. QED
      BY <1>2, <3>1, CallsFit
  <2>3. QED
    BY <2>1, <2>2
<1>4. \A q \in Procs : Fitting(op'[q])
  BY <1>1, <1>3
<1>5. QED
  BY <1>4 DEF ValueInv, Fitting

LEMMA ValueStep == IInv /\ ValueInv /\ [Next]_vars => ValueInv'
<1> SUFFICES ASSUME IInv, ValueInv, [Next]_vars PROVE ValueInv'
  OBVIOUS
<1>1. op \in [Procs -> [kind : Kinds, pgn : Nat, n : Nat, value : Word]]
  BY DEF IInv, TypeOK
<1>2. \A q \in Procs : Fitting(op[q])
  BY DEF ValueInv, Fitting
<1>3. CASE UNCHANGED op
  BY <1>3 DEF ValueInv
<1>4. ASSUME NEW p \in Procs, NEW o, Fitting(o), op' = [op EXCEPT ![p] = o]
      PROVE  ValueInv'
  <2>1. \A q \in Procs : Fitting(op'[q])
    BY <1>1, <1>2, <1>4
  <2>2. QED
    BY <2>1 DEF ValueInv, Fitting
<1>5. ASSUME NEW p \in Procs, NEW o \in LockedCalls \cup UserCalls,
             LockedCall(p, o) \/ UserCall(p, o)
      PROVE  ValueInv'
  <2>1. op' = [op EXCEPT ![p] = o]
    BY <1>5 DEF LockedCall, UserCall, Enter
  <2>2. QED
    BY <1>4, <2>1, CallsFit
<1>6. ASSUME NEW p \in Procs, Step(p) PROVE ValueInv'
  <2>1. CASE GetNothing(p) \/ GetEntry(p)
    <3>1. op' = [op EXCEPT ![p] = NoCall]
      BY <2>1 DEF GetNothing, GetEntry, Return
    <3>2. QED
      BY <1>4, <3>1, CallsFit
  <2>2. CASE PrintPage(p) \/ SetEntry(p)
    BY <2>2, NextFits DEF PrintPage, SetEntry
  <2>3. CASE SetFrame(p)
    <3>1. PICK f \in Fpns : op' = [op EXCEPT ![p].kind = "fpn", ![p].value = f]
      BY <2>3 DEF SetFrame
    <3> DEFINE o == [op[p] EXCEPT !.kind = "fpn", !.value = f]
    <3>2. op' = [op EXCEPT ![p] = o]
      BY <1>1, <3>1
    <3>3. o.kind = "fpn" /\ o.value = f
      BY <1>1
    <3> HIDE DEF o
    <3>4. Fitting(o)
      BY <3>3 DEF Fitting
    <3>5. QED
      BY <1>4, <3>2, <3>4
  <2>4. CASE \/ SlotSet(p) \/ SlotZero(p) \/ AllocateTable(p) \/ ClearTable(p)
             \/ FollowSlot(p) \/ Crash(p)
    BY <1>3, <2>4 DEF SlotSet, SlotZero, AllocateTable, ClearTable, FollowSlot, Crash, walk
  <2>5. QED
    BY <1>6, <2>1, <2>2, <2>3, <2>4 DEF Step
<1>7. CASE UNCHANGED vars
  BY <1>3, <1>7 DEF vars, walk
<1>8. QED
  BY <1>5, <1>6, <1>7 DEF Next, Stopped

LEMMA WalkOn ==
  ASSUME IInv, IInv', OrderInv, OnTheWay, NEW p \in Procs, Step(p)
  PROVE  OnTheWay'
<1>1. /\ pc[p] # "run"
      /\ \A q \in Procs \ {p} : pc[q] = "run" /\ pc'[q] = "run"
  <2>1. pc[p] # "run"
    BY DEF Step, SlotSet, SlotZero, GetNothing, PrintPage, AllocateTable, ClearTable,
         FollowSlot, Crash, GetEntry, SetFrame, SetEntry, AtEntry, Walking
  <2>2. CASE pc' = pc
    BY <2>1, <2>2 DEF OrderInv, AloneInv
  <2>3. CASE \E l : pc' = [pc EXCEPT ![p] = l]
    <3>1. \A q \in Procs \ {p} : pc'[q] = pc[q]
      BY <2>3 DEF IInv, TypeOK
    <3>2. QED
      BY <2>1, <3>1, Alone DEF OrderInv
  <2>4. pc' = pc \/ \E l : pc' = [pc EXCEPT ![p] = l]
    BY DEF Step, SlotSet, SlotZero, GetNothing, PrintPage, AllocateTable, ClearTable,
         FollowSlot, Crash, GetEntry, SetFrame, SetEntry, walk, NextPage, Return, Goto
  <2>5. QED
    BY <2>1, <2>2, <2>3, <2>4
<1>2. SUFFICES ASSUME NEW g \in Nat, NEW l \in 1..Levels, op'[p].pgn = g, level'[p] = l
               PROVE  cur'[p] = TableOf(g, l)'
  BY <1>1 DEF OnTheWay
<1>3. level \in [Procs -> 1..Levels] /\ cur \in [Procs -> Tables]
  BY DEF IInv, TypeOK
<1>4. CASE FromRoot(p)
  <2>1. l = 1 /\ cur'[p] = Root
    BY <1>2, <1>3, <1>4 DEF FromRoot
  <2>2. TableOf(g, 1)' = Root
    BY WayAfter DEF IInv
  <2>3. QED
    BY <2>1, <2>2
<1>5. CASE UNCHANGED <<op, level, cur>>
  <2>1. cur[p] = TableOf(g, l)
    BY <1>1, <1>2, <1>5 DEF OnTheWay
  <2>2. TableOf(g, l) # Unset
    BY <1>3, <2>1 DEF Unset, Tables
  <2>3. QED
    BY <1>5, <2>1, <2>2, StepWays
<1>6. CASE FollowSlot(p)
  <2>1. /\ op' = op /\ pc[p] = "follow" /\ level[p] < Levels /\ AtSlot(p) \in Tables
        /\ cur' = [cur EXCEPT ![p] = AtSlot(p)]
        /\ level' = [level EXCEPT ![p] = level[p] + 1]
    BY <1>6 DEF FollowSlot, Walking, IInv, LevelInv
  <2>2. l = level[p] + 1 /\ cur'[p] = AtSlot(p)
    BY <1>2, <1>3, <2>1
  <2>3. PICK k \in 1..Levels : k = level[p]
    BY <1>3
  <2>4. cur[p] = TableOf(g, k) /\ k < Levels /\ l = k + 1
    BY <1>1, <1>2, <2>1, <2>2, <2>3 DEF OnTheWay
  <2>5. TableOf(g, l) = Below(cur[p], Index(g, k))
    BY <2>4, WayOf DEF IInv
  <2>6. Index(g, k) = SlotOf(p) /\ cur[p] \in Tables
    BY <1>2, <1>3, <2>1, <2>3 DEF SlotOf
  <2>7. Below(cur[p], SlotOf(p)) = AtSlot(p)
    <3>1. ~InMaking(cur[p], SlotOf(p))
      BY <1>1, <2>1 DEF InMaking
    <3>2. QED
      BY <2>6, <3>1 DEF Below, AtSlot
  <2>8. TableOf(g, l) = AtSlot(p)
    BY <2>5, <2>6, <2>7
  <2>9. AtSlot(p) # Unset
    BY <2>1 DEF Unset, Tables
  <2>10. QED
    BY <2>2, <2>8, <2>9, StepWays
<1>7. FromRoot(p) \/ UNCHANGED <<op, level, cur>> \/ FollowSlot(p)
  BY DEF Step, SlotSet, SlotZero, GetNothing, PrintPage, AllocateTable, ClearTable,
       Crash, GetEntry, SetFrame, SetEntry, walk, NextPage, Return
<1>8. QED
  BY <1>4, <1>5, <1>6, <1>7

LEMMA CallOn ==
  ASSUME IInv, IInv', NEW p \in Procs, NEW o \in LockedCalls \cup UserCalls,
         LockedCall(p, o) \/ UserCall(p, o), ~raced'
  PROVE  OnTheWay'
<1>1. FromRoot(p) /\ \A q \in Procs \ {p} : pc'[q] = "run"
  BY CallWays DEF LockedCall, UserCall, Enter
<1>2. level'[p] = 1 /\ cur'[p] = Root
  BY <1>1 DEF FromRoot, IInv, TypeOK
<1>3. \A g \in Nat : TableOf(g, 1)' = Root
  BY WayAfter DEF IInv
<1>4. QED
  BY <1>1, <1>2, <1>3 DEF OnTheWay

LEMMA StillOn ==
  ASSUME IInv, IInv', OnTheWay, UNCHANGED vars
  PROVE  OnTheWay' /\ WordsStay
<1>1. UNCHANGED <<slot, word, pc, op, level, cur>>
  BY DEF vars, memory, walk
<1>2. WaysStay /\ WordsStay
  BY <1>1, StillWays DEF IInv
<1>3. QED
  BY <1>1, <1>2 DEF OnTheWay, WaysStay

LEMMA OnStep ==
  IInv /\ RaceInv /\ (~raced => OnTheWay) /\ [Next]_vars => (~raced' => OnTheWay')
<1> SUFFICES ASSUME IInv, RaceInv, ~raced => OnTheWay, [Next]_vars, ~raced' PROVE OnTheWay'
  OBVIOUS
<1>1. IInv'
  BY NextStep
<1>2. ASSUME NEW p \in Procs, NEW o \in LockedCalls \cup UserCalls,
             LockedCall(p, o) \/ UserCall(p, o)
      PROVE  OnTheWay'
  BY <1>1, <1>2, CallOn
<1>3. ASSUME NEW p \in Procs, Step(p) PROVE OnTheWay'
  <2>1. ~raced
    BY <1>3 DEF Step, SlotSet, SlotZero, GetNothing, PrintPage, AllocateTable, ClearTable,
         FollowSlot, Crash, GetEntry, SetFrame, SetEntry
  <2>2. QED
    BY <1>1, <1>3, <2>1, WalkOn DEF RaceInv
<1>4. CASE UNCHANGED vars
  <2>1. ~raced
    BY <1>4 DEF vars
  <2>2. QED
    BY <1>1, <1>4, <2>1, StillOn
<1>5. QED
  BY <1>2, <1>3, <1>4 DEF Next, Stopped

-----------------------------------------------------------------------------
(* The tree as one entry per page *)

BusNumbers == 0..(BusPages - 1)

(* A walk that has come to an entry is at the entry of its page. *)
LEMMA EntryHere ==
  ASSUME IInv, OnTheWay, NEW p \in Procs, AtEntry(p)
  PROVE  LET h == OnBus(op[p].pgn)
         IN  /\ h \in BusNumbers /\ OnBus(h) = h
             /\ TableOf(h, Levels) = cur[p] /\ Index(h, Levels) = SlotOf(p)
             /\ WordOf(h) = EntryWord(p)
<1> DEFINE g == op[p].pgn
           h == OnBus(g)
<1>1. /\ g \in Nat /\ level[p] = Levels /\ pc[p] # "run" /\ Levels \in 1..Levels
      /\ cur[p] \in Tables
  BY AtTypes, PageTableAssumption DEF AtEntry, Walking
<1>2. cur[p] = TableOf(g, Levels) /\ SlotOf(p) = Index(g, Levels)
  BY <1>1 DEF OnTheWay, SlotOf
<1> HIDE DEF g
<1>3. h \in BusNumbers /\ h \in Nat /\ OnBus(h) = h
  BY <1>1, BusPage DEF BusNumbers
<1> HIDE DEF h
<1>4. OnBus(g) = OnBus(h)
  BY <1>3 DEF h
<1>5. TableOf(h, Levels) = cur[p] /\ Index(h, Levels) = SlotOf(p)
  BY <1>1, <1>2, <1>3, <1>4, SameWay DEF IInv
<1>6. WordOf(h) = EntryWord(p)
  BY <1>1, <1>5 DEF WordOf, EntryWord
<1>7. QED
  BY <1>3, <1>5, <1>6 DEF h, g

LEMMA FlatStays ==
  ASSUME WordsStay, entry' = entry
  PROVE  UNCHANGED <<flatTable, flatResult>>
BY DEF WordsStay, flatTable, flatResult, BusPages

(* pte_get_entry reads the entry of the page. *)
LEMMA GetIsFlat ==
  ASSUME IInv, OnTheWay, WordsStay, NEW p \in Procs, GetEntry(p)
  PROVE  Flat!Next
<1> DEFINE h == OnBus(op[p].pgn)
<1>1. /\ AtEntry(p) /\ entry' = EntryWord(p) \cap Bits32
  BY DEF GetEntry
<1>2. h \in BusNumbers /\ WordOf(h) = EntryWord(p)
  BY <1>1, EntryHere
<1> HIDE DEF h
<1>3. EntryWord(p) \in Word
  BY AtTypes DEF EntryWord, IInv, TypeOK
<1>4. flatTable' = flatTable
  BY DEF WordsStay, flatTable, BusPages
<1>5. flatTable[h] = Decode(EntryWord(p))
  BY <1>2 DEF flatTable, BusNumbers
<1>6. flatResult' = Decode(EntryWord(p) \cap Bits32)
  BY <1>1 DEF flatResult
<1>7. flatResult' = flatTable[h]
  BY <1>3, <1>5, <1>6, DecodeEntries
<1>8. Flat!Get(h)
  BY <1>4, <1>7 DEF Flat!Get
<1>9. QED
  BY <1>2, <1>8 DEF Flat!Next, BusNumbers

(* Where a table is missing, pte_get_entry reads the entry as zero. *)
LEMMA NothingIsFlat ==
  ASSUME IInv, OrderInv, OnTheWay, WordsStay, NEW p \in Procs, GetNothing(p)
  PROVE  Flat!Next
<1> DEFINE g == op[p].pgn
           h == OnBus(g)
<1>1. /\ pc[p] = "test" /\ level[p] < Levels /\ AtSlot(p) \in {Unset, Wild} /\ entry' = {}
  BY DEF GetNothing, Walking, ReadsZero
<1>2. /\ g \in Nat /\ level[p] \in 1..Levels /\ cur[p] \in Tables /\ SlotOf(p) \in Slots
      /\ Levels \in Nat
  BY AtTypes, PageTableAssumption
<1>3. \A q \in Procs : pc[q] # "clear"
  BY <1>1 DEF OrderInv, AloneInv
<1>4. AtSlot(p) = Unset
  BY <1>1, <1>2, <1>3 DEF OrderInv, WildInv, AtSlot
<1>5. PICK l \in 1..Levels : l = level[p]
  BY <1>2
<1>6. l < Levels /\ l + 1 \in 1..Levels /\ l + 1 > 1
  BY <1>1, <1>2, <1>5
<1>7. TableOf(g, l) = cur[p] /\ Index(g, l) = SlotOf(p)
  BY <1>1, <1>2, <1>5 DEF OnTheWay, SlotOf
<1>8. TableOf(g, l + 1) = Below(cur[p], SlotOf(p))
  BY <1>2, <1>6, <1>7, WayOf DEF IInv
<1>9. TableOf(g, l + 1) \notin Tables
  BY <1>2, <1>4, <1>8 DEF Below, AtSlot, Unset, Tables
<1>10. TableOf(g, Levels) \notin Tables
  BY <1>2, <1>6, <1>9, NothingBelow DEF IInv
<1> HIDE DEF g
<1>11. h \in BusNumbers /\ h \in Nat /\ OnBus(g) = OnBus(h)
  BY <1>2, BusPage DEF BusNumbers
<1> HIDE DEF h
<1>12. WordOf(h) = {}
  <2>1. WordOf(g) = {}
    BY <1>10 DEF WordOf
  <2>2. QED
    BY <1>2, <1>11, <2>1, SameWay DEF IInv
<1>13. flatTable' = flatTable
  BY DEF WordsStay, flatTable, BusPages
<1>14. flatTable[h] = Decode({}) /\ flatResult' = Decode({})
  BY <1>1, <1>11, <1>12 DEF flatTable, flatResult, BusNumbers
<1>15. Flat!Get(h)
  BY <1>13, <1>14 DEF Flat!Get
<1>16. QED
  BY <1>11, <1>15 DEF Flat!Next, BusNumbers

(* The assignment to *pte changes the entry of the page, and no other. *)
LEMMA SetIsFlat ==
  ASSUME IInv, OnTheWay, ValueInv, WaysStay, NEW p \in Procs, SetEntry(p)
  PROVE  Flat!Next
<1> DEFINE h == OnBus(op[p].pgn)
           c == cur[p]
           s == SlotOf(p)
           w == NewWord(p)
           v == EntryWord(p)
<1>1. /\ AtEntry(p) /\ op[p].kind \in {"fpn", "swap", "memset"}
      /\ word' = [word EXCEPT ![c][s] = w] /\ entry' = entry
  BY DEF SetEntry
<1>2. /\ h \in BusNumbers /\ OnBus(h) = h
      /\ TableOf(h, Levels) = c /\ Index(h, Levels) = s /\ WordOf(h) = v
  BY <1>1, EntryHere
<1>3. c \in Tables /\ s \in Slots /\ Levels \in 1..Levels /\ op[p].value \in Word
  BY AtTypes, PageTableAssumption DEF IInv, TypeOK
<1>4. v \in Word
  BY <1>3 DEF EntryWord, IInv, TypeOK
<1>5. BusNumbers \subseteq Nat
  BY DEF BusNumbers
<1> DEFINE x == op[p].value
<1>6. \/ w = FpnWord(v, x) /\ x \in Fpns
      \/ w = SwapWord(v, {}, x) /\ x \in SwpOffs
      \/ w = PatternWord
  BY <1>1 DEF ValueInv, NewWord
<1> HIDE DEF h, c, s, w, v, x
<1>7. \A t \in Tables, i \in Slots :
        word'[t][i] = IF t = c /\ i = s THEN w ELSE word[t][i]
  BY <1>1, <1>3 DEF IInv, TypeOK
<1>8. ASSUME NEW g \in BusNumbers PROVE WordOf(g)' = IF g = h THEN w ELSE WordOf(g)
  <2> DEFINE t == TableOf(g, Levels)
             i == Index(g, Levels)
  <2>1. t' = t /\ i' = i /\ i \in Slots
    BY <1>3, <1>5, PartOfPage DEF WaysStay, Index
  <2>2. /\ WordOf(g) = IF t \in Tables THEN word[t][i] ELSE {}
        /\ WordOf(g)' = IF t' \in Tables THEN word'[t'][i'] ELSE {}
    BY DEF WordOf, Tables
  <2>3. t = c /\ i = s => g = h
    <3>1. g \in Nat /\ h \in Nat /\ OnBus(g) = g
      BY <1>2, <1>5, BusPage DEF BusNumbers
    <3>2. QED
      BY <1>2, <1>3, <3>1, OneEntry
  <2>4. g = h => t = c /\ i = s
    BY <1>2
  <2> HIDE DEF t, i
  <2>5. CASE g = h
    BY <1>3, <1>7, <2>1, <2>2, <2>4, <2>5
  <2>6. CASE g # h
    BY <1>7, <2>1, <2>2, <2>3, <2>6
  <2>7. QED
    BY <2>5, <2>6
<1>9. flatTable = [g \in BusNumbers |-> Decode(WordOf(g))]
  BY DEF flatTable, BusNumbers
<1>10. flatTable' = [g \in BusNumbers |-> Decode(IF g = h THEN w ELSE WordOf(g))]
  <2>1. flatTable' = [g \in BusNumbers |-> Decode(WordOf(g)')]
    BY DEF flatTable, BusNumbers, BusPages
  <2>2. QED
    BY <1>8, <2>1
<1>11. flatTable' = [flatTable EXCEPT ![h] = Decode(w)] /\ flatTable[h] = Decode(v)
  BY <1>2, <1>9, <1>10
<1>12. UNCHANGED flatResult
  BY <1>1 DEF flatResult
<1>13. Flat!Change(h, Decode(w))
  BY <1>11, <1>12 DEF Flat!Change
<1>14. CASE w = FpnWord(v, x) /\ x \in Fpns
  <2>1. Decode(w) = Flat!SetFpn(flatTable[h], Num(x))
    BY <1>4, <1>11, <1>14, DecodeEntries, PageTableAssumption
  <2>2. QED
    BY <1>2, <1>13, <1>14, <2>1 DEF Flat!Next, BusNumbers
<1>15. CASE w = SwapWord(v, {}, x) /\ x \in SwpOffs
  <2>1. Decode(w) = Flat!SetSwap(Num(x))
    BY <1>4, <1>15, DecodeEntries, PageTableAssumption
  <2>2. QED
    BY <1>2, <1>13, <1>15, <2>1 DEF Flat!Next, BusNumbers
<1>16. CASE w = PatternWord
  BY <1>2, <1>13, <1>16, DecodeEntries DEF Flat!Next, BusNumbers
<1>17. QED
  BY <1>6, <1>14, <1>15, <1>16

LEMMA FlatStep ==
  IInv /\ RaceInv /\ ValueInv /\ (~raced => OnTheWay) /\ [Next]_vars
    => [FlatUntilRaced]_vars
<1> SUFFICES ASSUME IInv, RaceInv, ValueInv, ~raced => OnTheWay, [Next]_vars, ~raced'
             PROVE  [Flat!Next]_<<flatTable, flatResult>>
  BY DEF FlatUntilRaced
<1>1. IInv'
  BY NextStep
<1>2. ASSUME NEW p \in Procs, NEW o \in LockedCalls \cup UserCalls,
             LockedCall(p, o) \/ UserCall(p, o)
      PROVE  UNCHANGED <<flatTable, flatResult>>
  <2>1. entry' = entry
    BY <1>2 DEF LockedCall, UserCall
  <2>2. WordsStay
    BY <1>1, <1>2, CallWays
  <2>3. QED
    BY <2>1, <2>2, FlatStays
<1>3. ASSUME NEW p \in Procs, Step(p) PROVE [Flat!Next]_<<flatTable, flatResult>>
  <2>1. ~raced
    BY <1>3 DEF Step, SlotSet, SlotZero, GetNothing, PrintPage, AllocateTable, ClearTable,
         FollowSlot, Crash, GetEntry, SetFrame, SetEntry
  <2>2. OrderInv /\ OnTheWay
    BY <2>1 DEF RaceInv
  <2>3. (~ClearTable(p) => WaysStay) /\ (~SetEntry(p) => WordsStay)
    BY <1>1, <1>3, <2>2, StepWays
  <2>4. CASE SetEntry(p)
    <3>1. ~ClearTable(p)
      BY <2>4 DEF SetEntry, AtEntry, ClearTable, Walking
    <3>2. QED
      BY <2>2, <2>3, <2>4, <3>1, SetIsFlat
  <2>5. CASE GetEntry(p)
    <3>1. ~SetEntry(p)
      BY <2>5 DEF GetEntry, SetEntry
    <3>2. QED
      BY <2>2, <2>3, <2>5, <3>1, GetIsFlat
  <2>6. CASE GetNothing(p)
    <3>1. ~SetEntry(p)
      BY <2>6 DEF GetNothing, SetEntry
    <3>2. QED
      BY <2>2, <2>3, <2>6, <3>1, NothingIsFlat
  <2>7. CASE ~SetEntry(p) /\ ~GetEntry(p) /\ ~GetNothing(p)
    <3>1. entry' = entry
      BY <1>3, <2>7 DEF Step, SlotSet, SlotZero, PrintPage, AllocateTable, ClearTable,
           FollowSlot, Crash, SetFrame
    <3>2. QED
      BY <2>3, <2>7, <3>1, FlatStays
  <2>8. QED
    BY <2>4, <2>5, <2>6, <2>7
<1>4. CASE UNCHANGED vars
  <2>1. ~raced /\ entry' = entry
    BY <1>4 DEF vars
  <2>2. WordsStay
    BY <1>1, <1>4, <2>1, StillOn
  <2>3. QED
    BY <2>1, <2>2, FlatStays
<1>5. QED
  BY <1>2, <1>3, <1>4 DEF Next, Stopped

LEMMA FlatInit == Init => Flat!Init /\ ValueInv /\ OnTheWay
<1> SUFFICES ASSUME Init PROVE Flat!Init /\ ValueInv /\ OnTheWay
  OBVIOUS
<1>1. ValueInv /\ OnTheWay
  <2>1. Fitting(NoCall)
    BY CallsFit
  <2>2. QED
    BY <2>1 DEF Init, ValueInv, OnTheWay, Fitting
<1>2. \A g \in BusNumbers : WordOf(g) = {}
  <2>1. Levels \in 1..Levels
    BY PageTableAssumption
  <2>2. \A g \in BusNumbers : Index(g, Levels) \in Slots
    BY <2>1, PartOfPage DEF BusNumbers
  <2>3. \A t \in Tables, i \in Slots : word[t][i] = {}
    BY DEF Init, Zero
  <2>4. QED
    BY <2>2, <2>3 DEF WordOf
<1>3. flatTable = [g \in BusNumbers |-> Decode({})]
  BY <1>2 DEF flatTable, BusNumbers
<1>4. flatResult = Decode({})
  BY DEF Init, flatResult
<1>5. Flat!Init
  BY <1>3, <1>4, DecodeEntries DEF Flat!Init, BusNumbers
<1>6. QED
  BY <1>1, <1>5

(***************************************************************************)
(* As long as no two walks of src/mm64.c overlap, the page table is one    *)
(* entry per page of the bus: pte_set_fpn, pte_set_swap and                *)
(* vmap_pgd_memset change the entry of their page at one step, in the bits *)
(* the macros of mm.h name, and leave all others alone, and pte_get_entry  *)
(* returns what was left there, for any number of levels and width of      *)
(* tables.                                                                 *)
(***************************************************************************)
THEOREM TreeIsFlat == Spec => ImplementsFlat
<1> DEFINE Inv == IInv /\ RaceInv /\ ValueInv /\ (~raced => OnTheWay)
<1>1. Init => Inv /\ Flat!Init
  BY InitIInv, InitRaceInv, FlatInit
<1>2. Inv /\ [Next]_vars => Inv'
  BY NextStep, RaceStep, ValueStep, OnStep
<1>3. Inv /\ [Next]_vars => [FlatUntilRaced]_vars
  BY FlatStep
<1>4. QED
  BY <1>1, <1>2, <1>3, PTL DEF Spec, ImplementsFlat
=============================================================================
