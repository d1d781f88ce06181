---------------------------- MODULE MappingProofs ----------------------------
(***************************************************************************)
(* Theorems about module Mapping, for any number of processes, frames and  *)
(* pages: where the frames of RAM are, which pages the FIFO has, and that  *)
(* no freed node is used, each under the overlaps it excludes.             *)
(***************************************************************************)
EXTENDS Mapping, SeqLemmas

Places13 == {"run", "get", "take", "free", "put", "putback", "set", "enlist",
             "link", "victim", "unlink", "evict", "give"}

OpType == [kind : {"none", "grow", "fault"}, pgn : Nat, n : Nat, victim : Pgns, fpn : Nat]

(* What a process has at each place. *)
LocalOf(p) ==
  /\ pc[p] = "run" => op[p] = NoOp /\ frames[p] = <<>>
  /\ pc[p] \in {"get", "take", "free", "put", "putback", "set"} => op[p].kind = "grow"
  /\ pc[p] \in {"victim", "unlink", "evict", "give"} => op[p].kind = "fault"
  /\ pc[p] \in {"enlist", "link"} => op[p].kind \in {"grow", "fault"}
  /\ pc[p] # "run" => op[p].n # 0 /\ op[p].pgn + op[p].n <= next_pgn
  /\ op[p].kind = "fault" => mmvm_lock = p /\ op[p].n = 1 /\ frames[p] = <<>>
  /\ pc[p] \in {"get", "take", "free"} => Len(frames[p]) < op[p].n
  /\ pc[p] = "putback" => frames[p] # <<>>
  /\ pc[p] = "set" => Len(frames[p]) = op[p].n
  /\ pc[p] \in {"enlist", "link"} => Len(frames[p]) = op[p].n - 1
  /\ pc[p] \in {"take", "putback", "free"} => hold[p] \in Seq(Frames)
  /\ pc[p] \in {"take", "free", "unlink"} => hold[p] # <<>>
  /\ pc[p] \in {"link", "unlink"} => hold[p] \in Seq(Pgns)

LocalInv == \A p \in Procs : LocalOf(p)

(* As long as nobody else is at the head of a list, it is as it was read.  *)
FreeHead ==
  "frames" \notin raced =>
    /\ \A p, q \in Procs : pc[p] \in AtFree /\ pc[q] \in AtFree => p = q
    /\ \A p \in Procs : pc[p] \in AtFree => hold[p] = free

FifoHead ==
  "fifo" \notin raced =>
    /\ \A p, q \in Procs : pc[p] \in AtFifo /\ pc[q] \in AtFifo => p = q
    /\ \A p \in Procs : pc[p] \in AtFifo => hold[p] = fifo

(* The frames that a growth has got. *)
Has(p, f) == f \in ToSet(frames[p]) \/ (pc[p] = "free" /\ Head(hold[p]) = f)

(* A frame is in the list once, or one growth has it, once. *)
FreeInv ==
  "frames" \notin raced =>
    /\ Distinct(free)
    /\ \A p \in Procs : /\ Distinct(frames[p])
                        /\ pc[p] = "free" => Head(hold[p]) \notin ToSet(frames[p])
    /\ \A p \in Procs, f \in Frames : Has(p, f) => f \notin ToSet(free)
    /\ \A p, q \in Procs, f \in Frames : Has(p, f) /\ Has(q, f) => p = q

(* The pages that a process is going to enter. *)
Own(p) == op[p].pgn..(op[p].pgn + op[p].n - 1)

IsEntering(p, g) == pc[p] \in {"enlist", "link"} /\ op[p].pgn = g

(* The FIFO, and what the processes at its head have read of it. *)
Lists == {fifo} \cup {hold[p] : p \in {q \in Procs : pc[q] \in AtFifo}}

(* A page has the same successor in all lists. *)
SameNext(s, t) ==
  \A j \in 1..Len(s), k \in 1..Len(t) :
    s[j] = t[k] /\ j < Len(s) => k < Len(t) /\ s[j + 1] = t[k + 1]

PageInv ==
  ~undefined /\ "page" \notin raced =>
    /\ \A p, q \in Procs : p # q => Own(p) \cap Own(q) = {}
    /\ \A p \in Procs : \A g \in Own(p) : IF IsEntering(p, g) THEN g \in Online
                                                              ELSE ~pte[g].present
    /\ \A g \in Pgns : pte[g].present => g < next_pgn

ListInv ==
  ~undefined /\ "page" \notin raced =>
    /\ \A s \in Lists : /\ Distinct(s) /\ ToSet(s) \subseteq Online
                        /\ \A p \in Procs : Own(p) \cap ToSet(s) = {}
    /\ \A s, t \in Lists : SameNext(s, t)
    /\ \A p \in Procs :
         pc[p] = "evict" => /\ op[p].victim \in Online
                            /\ \A s \in Lists : op[p].victim \notin ToSet(s)
                            /\ \A q \in Procs : op[p].victim \notin Own(q)

(* A frame that is at a page is there only, and no frame is nowhere. *)
FrameOf(g) == PAGING_FPN(pte[g])

FrameInv ==
  ~undefined /\ raced \cap {"frames", "page"} = {} =>
    /\ \A g, h \in Online : FrameOf(g) = FrameOf(h) => g = h
    /\ \A g \in Online : /\ FrameOf(g) \in Frames
                         /\ FrameOf(g) \notin ToSet(free)
                         /\ \A p \in Procs : ~InHand(p, FrameOf(g))
    /\ \A p \in Procs : pc[p] = "give" => /\ op[p].fpn \in Frames
                                          /\ op[p].fpn \notin ToSet(free)
                                          /\ \A q \in Procs : ~Has(q, op[p].fpn)
    /\ \A f \in Frames : \/ f \in ToSet(free)
                         \/ \E p \in Procs : InHand(p, f)
                         \/ \E g \in Online : FrameOf(g) = f

(* Every page in RAM is in the FIFO or on its way out of or into it. *)
OnlineInv ==
  ~undefined /\ "fifo" \notin raced =>
    \A g \in Online : \/ g \in ToSet(fifo) \cup passed
                      \/ \E p \in Procs : \/ pc[p] = "evict" /\ op[p].victim = g
                                          \/ IsEntering(p, g)

Safe == /\ FreeHead /\ FifoHead /\ FreeInv /\ FreedOnlyByRace
        /\ PageInv /\ ListInv /\ FrameInv /\ OnlineInv

IInv == TypeOK /\ LocalInv /\ Safe

-----------------------------------------------------------------------------
(* Entries and lists. *)

(* What is written into the page table is an entry. *)
LEMMA EntryTypes ==
  /\ NoPte \in Entry
  /\ \A e \in Entry, f \in Nat : SetFpn(e, f) \in Entry
  /\ \A s \in Nat : SetSwap(s) \in Entry
  /\ \A e \in Entry : PAGING_FPN(e) \in Nat
<1>1. ASSUME NEW e \in Entry, NEW f \in Nat PROVE e.low - (e.low % 8192) + (f % 8192) \in Nat
  BY DEF Entry
<1>2. \A e \in Entry, f \in Nat : SetFpn(e, f) \in Entry
  BY <1>1 DEF SetFpn, PAGING_FPN, FpnField, Entry
<1>3. \A s \in Nat : SetSwap(s) \in Entry
  BY DEF SetSwap, SwpOffLow, Entry
<1>4. \A e \in Entry : PAGING_FPN(e) \in Nat
  BY DEF PAGING_FPN, FpnField, Entry
<1>5. QED
  BY <1>2, <1>3, <1>4 DEF NoPte, Entry

(* A frame number that the field holds is read back. *)
LEMMA FpnOfSet ==
  ASSUME NEW e \in Entry, NEW f \in Frames
  PROVE  /\ PAGING_FPN(SetFpn(e, f)) = f
         /\ SetFpn(e, f).present /\ ~SetFpn(e, f).swapped
<1>1. f \in 0..8191 /\ e.low \in Nat
  BY MappingAssumption DEF Frames, FpnField, Entry
<1>2. (e.low - (e.low % 8192) + (f % 8192)) % 8192 = f
  BY <1>1
<1>3. QED
  BY <1>2 DEF SetFpn, PAGING_FPN, FpnField

(* A process without a call. *)
LEMMA NoOpType == NoOp \in OpType /\ NoOp.kind = "none" /\ NoOp.n = 0
<1>1. 0 \in Pgns
  BY MappingAssumption DEF Pgns
<1>2. QED
  BY <1>1 DEF NoOp, OpType

(* The bounds. *)
LEMMA Bounds == /\ RamFrames \in Nat /\ SwapFrames \in Nat /\ MaxPgn \in Nat
                /\ MaxRange \in Nat /\ MaxCalls \in Nat
                /\ Frames \subseteq Nat /\ Pgns \subseteq Nat
                /\ NULL \notin Procs
BY MappingAssumption DEF FpnField, Frames, Pgns

(* The types of what a process has. *)
LEMMA OfProcess ==
  ASSUME TypeOK, NEW q \in Procs
  PROVE  /\ pc[q] \in Places13 /\ op[q] \in OpType
         /\ hold[q] \in Seq(Nat) /\ frames[q] \in Seq(Frames)
         /\ op[q].kind \in {"none", "grow", "fault"} /\ op[q].pgn \in Nat
         /\ op[q].n \in Nat /\ op[q].victim \in Pgns /\ op[q].fpn \in Nat
<1>1. /\ pc[q] \in Places13 /\ op[q] \in OpType
      /\ hold[q] \in Seq(Nat) /\ frames[q] \in Seq(Frames)
  BY DEF TypeOK, Places13, OpType
<1>2. QED
  BY <1>1 DEF OpType

-----------------------------------------------------------------------------
(* Types, and what a process has at each place. *)

(* The first state. *)
LEMMA InitTypes == Init => TypeOK /\ LocalInv
<1> SUFFICES ASSUME Init PROVE TypeOK /\ LocalInv
  OBVIOUS
<1>1. free \in Seq(Frames) /\ swap_free \in Seq(0..(SwapFrames - 1))
  <2>1. \A k \in 1..RamFrames : k - 1 \in Frames
    BY Bounds DEF Frames
  <2>2. \A k \in 1..SwapFrames : k - 1 \in 0..(SwapFrames - 1)
    BY Bounds
  <2>3. /\ [k \in 1..RamFrames |-> k - 1] \in [1..RamFrames -> Frames]
        /\ [k \in 1..SwapFrames |-> k - 1] \in [1..SwapFrames -> 0..(SwapFrames - 1)]
    BY <2>1, <2>2
  <2>4. QED
    BY Bounds, <2>3, SeqDef DEF Init
<1>2. /\ pte \in [Pgns -> Entry] /\ fifo \in Seq(Pgns)
      /\ next_pgn \in 0..(MaxPgn + 1) /\ calls \in 0..MaxCalls
  BY Bounds, EntryTypes DEF Init
<1>3. /\ pc \in [Procs -> Places13] /\ mmvm_lock \in Procs \cup {NULL}
      /\ hold \in [Procs -> Seq(Nat)] /\ frames \in [Procs -> Seq(Frames)]
  BY DEF Init, Places13
<1>4. op \in [Procs -> OpType]
  BY NoOpType DEF Init
<1>5. TypeOK
  BY <1>1, <1>2, <1>3, <1>4 DEF Init, TypeOK, Places13, OpType
<1>6. LocalInv
  BY DEF Init, LocalInv, LocalOf, NoOp
<1>7. QED
  BY <1>5, <1>6

(* Nothing changes for other processes. *)
Others(p) == \A q \in Procs \ {p} : /\ pc'[q] = pc[q] /\ op'[q] = op[q]
                                     /\ frames'[q] = frames[q] /\ hold'[q] = hold[q]

(* A step of p changes nothing for the others, who may keep what they have. *)
LEMMA LocalStep ==
  ASSUME TypeOK, LocalInv, NEW p \in Procs, Others(p), LocalOf(p)',
         next_pgn' \in Nat, next_pgn <= next_pgn',
         mmvm_lock' = mmvm_lock \/ mmvm_lock \in {p, NULL}
  PROVE  LocalInv'
<1> SUFFICES ASSUME NEW q \in Procs, q # p PROVE LocalOf(q)'
  BY DEF LocalInv
<1>1. /\ pc'[q] = pc[q] /\ op'[q] = op[q]
      /\ frames'[q] = frames[q] /\ hold'[q] = hold[q]
      /\ op[q].pgn \in Nat /\ op[q].n \in Nat /\ next_pgn \in Nat
  <2>1. next_pgn \in Nat
    BY Bounds DEF TypeOK
  <2>2. QED
    BY <2>1, OfProcess DEF Others
<1>2. op[q].kind = "fault" => mmvm_lock' = mmvm_lock
  BY Bounds DEF LocalInv, LocalOf
<1>3. LocalOf(q)
  BY DEF LocalInv
<1>4. pc[q] # "run" => op[q].pgn + op[q].n <= next_pgn'
  BY <1>1, <1>3 DEF LocalOf
<1>5. QED
  BY <1>1, <1>2, <1>3, <1>4 DEF LocalOf

(* Lists of frames and of pages are lists of numbers. *)
LEMMA SeqsOfNat == Seq(Frames) \subseteq Seq(Nat) /\ Seq(Pgns) \subseteq Seq(Nat)
<1>1. ASSUME NEW S, S \subseteq Nat, NEW s \in Seq(S) PROVE s \in Seq(Nat)
  <2>1. PICK n \in Nat : s \in [1..n -> S]
    BY SeqDef
  <2>2. s \in [1..n -> Nat]
    BY <1>1, <2>1
  <2>3. QED
    BY <2>2, SeqDef
<1>2. QED
  BY <1>1, Bounds

(* The start of a growth. *)
LEMMA GrowTypes ==
  ASSUME TypeOK, LocalInv, NEW p \in Procs, NEW n \in 1..MaxRange, NEW locked \in BOOLEAN,
         Grow(p, n, locked)
  PROVE  TypeOK' /\ LocalInv'
<1> DEFINE o == [NoOp EXCEPT !.kind = "grow", !.pgn = next_pgn, !.n = n]
<1>1. next_pgn \in Nat /\ n \in Nat \ {0} /\ calls \in Nat
  BY Bounds DEF TypeOK
<1>2. o \in OpType /\ o.kind = "grow" /\ o.pgn = next_pgn /\ o.n = n
  BY <1>1, NoOpType DEF OpType
<1>3. /\ pc[p] = "run" /\ calls < MaxCalls /\ next_pgn + n <= MaxPgn + 1
      /\ mmvm_lock' = IF locked THEN p ELSE mmvm_lock
      /\ locked => mmvm_lock = NULL
      /\ op' = [op EXCEPT ![p] = o] /\ next_pgn' = next_pgn + n /\ calls' = calls + 1
      /\ pc' = [pc EXCEPT ![p] = "get"]
      /\ UNCHANGED <<free, swap_free, fifo, pte, hold, frames, raced, passed, undefined>>
  BY DEF Grow, At, Goto, lists
<1> HIDE DEF o
<1>4. TypeOK'
  <2>1. next_pgn' \in 0..(MaxPgn + 1) /\ calls' \in 0..MaxCalls
    BY <1>1, <1>3, Bounds
  <2>2. op' \in [Procs -> OpType]
    BY <1>2, <1>3 DEF TypeOK, OpType
  <2>3. QED
    BY <1>3, <2>1, <2>2 DEF TypeOK, OpType
<1>5. LocalInv'
  <2>1. Others(p)
    BY <1>3 DEF Others, TypeOK
  <2>2. pc'[p] = "get" /\ op'[p] = o /\ frames'[p] = <<>>
    BY <1>3 DEF TypeOK, LocalInv, LocalOf
  <2>3. LocalOf(p)'
    BY <1>1, <1>2, <1>3, <2>2 DEF LocalOf
  <2>4. next_pgn' \in Nat /\ next_pgn <= next_pgn'
    BY <1>1, <1>3
  <2>5. QED
    BY <1>3, <2>1, <2>3, <2>4, LocalStep
<1>6. QED
  BY <1>4, <1>5

(* The start of a fault. *)
LEMMA FaultTypes ==
  ASSUME TypeOK, LocalInv, NEW p \in Procs, NEW g \in Pgns, Fault(p, g)
  PROVE  TypeOK' /\ LocalInv'
<1> DEFINE o == [NoOp EXCEPT !.kind = "fault", !.pgn = g, !.n = 1]
<1>1. next_pgn \in Nat /\ g \in Nat /\ calls \in Nat
  BY Bounds DEF TypeOK
<1>2. o \in OpType /\ o.kind = "fault" /\ o.pgn = g /\ o.n = 1
  BY <1>1, NoOpType DEF OpType
<1>3. /\ pc[p] = "run" /\ calls < MaxCalls /\ g < next_pgn
      /\ mmvm_lock = NULL /\ mmvm_lock' = p
      /\ op' = [op EXCEPT ![p] = o] /\ calls' = calls + 1
      /\ raced' \subseteq raced \cup {"page"}
      /\ pc' = [pc EXCEPT ![p] = "victim"]
      /\ UNCHANGED <<free, swap_free, fifo, pte, next_pgn, hold, frames, passed, undefined>>
  BY DEF Fault, At, Goto, lists
<1> HIDE DEF o
<1>4. TypeOK'
  <2>1. calls' \in 0..MaxCalls
    BY <1>1, <1>3, Bounds
  <2>2. op' \in [Procs -> OpType]
    BY <1>2, <1>3 DEF TypeOK, OpType
  <2>3. QED
    BY <1>3, <2>1, <2>2 DEF TypeOK, OpType
<1>5. LocalInv'
  <2>1. Others(p)
    BY <1>3 DEF Others, TypeOK
  <2>2. pc'[p] = "victim" /\ op'[p] = o /\ frames'[p] = <<>>
    BY <1>3 DEF TypeOK, LocalInv, LocalOf
  <2>3. LocalOf(p)'
    BY <1>1, <1>2, <1>3, <2>2 DEF LocalOf
  <2>4. QED
    BY <1>1, <1>3, <2>1, <2>3, LocalStep
<1>6. QED
  BY <1>4, <1>5

(* A process reads the head of a list: its place and what it holds change. *)
LEMMA ReadTypes ==
  ASSUME TypeOK, LocalInv, NEW p \in Procs,
         ReadFree(p) \/ PutRead(p) \/ Enlist(p) \/ ReadFifo(p)
  PROVE  TypeOK' /\ LocalInv'
<1>1. PICK label \in {"take", "putback", "link", "unlink"}, list \in {free, fifo} :
        /\ hold' = [hold EXCEPT ![p] = list]
        /\ pc' = [pc EXCEPT ![p] = label]
        /\ label = "take" => pc[p] = "get" /\ list = free /\ list # <<>>
        /\ label = "putback" => pc[p] = "put" /\ list = free /\ frames[p] # <<>>
        /\ label = "link" => pc[p] = "enlist" /\ list = fifo
        /\ label = "unlink" => pc[p] = "victim" /\ list = fifo /\ list # <<>>
  BY DEF ReadFree, PutRead, Enlist, ReadFifo, At, Goto
<1>2. /\ raced' \subseteq raced \cup {"frames", "fifo"}
      /\ UNCHANGED <<lists, op, frames, pte, next_pgn, mmvm_lock, calls, passed, undefined>>
  BY DEF ReadFree, PutRead, Enlist, ReadFifo, Overlap
<1>3. TypeOK'
  <2>1. list \in Seq(Nat)
    BY SeqsOfNat DEF TypeOK
  <2>2. QED
    BY <1>1, <1>2, <2>1 DEF TypeOK, lists
<1>4. LocalInv'
  <2>1. Others(p)
    BY <1>1, <1>2 DEF Others, TypeOK
  <2>2. pc'[p] = label /\ hold'[p] = list
    BY <1>1 DEF TypeOK
  <2>3. LocalOf(p)'
    BY <1>1, <1>2, <2>2 DEF LocalInv, LocalOf, TypeOK
  <2>4. next_pgn \in Nat
    BY Bounds DEF TypeOK
  <2>5. QED
    BY <1>2, <2>1, <2>3, <2>4, LocalStep
<1>5. QED
  BY <1>3, <1>4

(* The return from a call. *)
LEMMA ReturnTypes ==
  ASSUME TypeOK, LocalInv, NEW p \in Procs, Return(p), frames[p] = <<>>,
         UNCHANGED <<lists, hold, frames, pte, next_pgn, calls, raced, undefined>>,
         passed' \subseteq Pgns
  PROVE  TypeOK' /\ LocalInv'
<1>1. /\ op' = [op EXCEPT ![p] = NoOp]
      /\ mmvm_lock' = IF mmvm_lock = p THEN NULL ELSE mmvm_lock
      /\ pc' = [pc EXCEPT ![p] = "run"]
  BY DEF Return, Goto
<1>2. TypeOK'
  BY <1>1, NoOpType DEF TypeOK, OpType, lists
<1>3. LocalInv'
  <2>1. Others(p)
    BY <1>1 DEF Others, TypeOK
  <2>2. pc'[p] = "run" /\ op'[p] = NoOp /\ frames'[p] = <<>>
    BY <1>1 DEF TypeOK
  <2>3. LocalOf(p)'
    BY <2>2, NoOpType DEF LocalOf
  <2>4. next_pgn \in Nat
    BY Bounds DEF TypeOK
  <2>5. QED
    BY <1>1, <2>1, <2>3, <2>4, LocalStep
<1>4. QED
  BY <1>2, <1>3

(* A growth that gave everything back. *)
LEMMA GrowFailsTypes ==
  ASSUME TypeOK, LocalInv, NEW p \in Procs, GrowFails(p)
  PROVE  TypeOK' /\ LocalInv'
<1>1. passed' \subseteq Pgns
  BY DEF GrowFails, TypeOK
<1>2. QED
  BY <1>1, ReturnTypes DEF GrowFails

(* A fault without a victim. *)
LEMMA NoVictimTypes ==
  ASSUME TypeOK, LocalInv, NEW p \in Procs, NoVictim(p)
  PROVE  TypeOK' /\ LocalInv'
<1>1. passed' \subseteq Pgns /\ frames[p] = <<>>
  BY DEF NoVictim, TypeOK, LocalInv, LocalOf, At
<1>2. QED
  BY <1>1, ReturnTypes DEF NoVictim

(* A fault without a frame of swap. *)
LEMMA NoSwapTypes ==
  ASSUME TypeOK, LocalInv, NEW p \in Procs, NoSwap(p)
  PROVE  TypeOK' /\ LocalInv'
<1>1. frames[p] = <<>>
  BY DEF NoSwap, TypeOK, LocalInv, LocalOf, At
<1>2. passed' \subseteq Pgns
  BY OfProcess DEF NoSwap, TypeOK
<1>3. QED
  BY <1>1, <1>2, ReturnTypes DEF NoSwap

(* A growth that finds no frame. *)
LEMMA NoneFreeTypes ==
  ASSUME TypeOK, LocalInv, NEW p \in Procs, NoneFree(p)
  PROVE  TypeOK' /\ LocalInv'
<1>1. /\ pc[p] = "get" /\ pc' = [pc EXCEPT ![p] = "put"]
      /\ UNCHANGED <<lists, op, hold, frames, pte, next_pgn, mmvm_lock, calls, raced,
                     passed, undefined>>
  BY DEF NoneFree, At, Goto
<1>2. TypeOK'
  BY <1>1 DEF TypeOK, lists
<1>3. LocalInv'
  <2>1. Others(p)
    BY <1>1 DEF Others, TypeOK
  <2>2. pc'[p] = "put"
    BY <1>1 DEF TypeOK
  <2>3. LocalOf(p)'
    BY <1>1, <2>2 DEF LocalInv, LocalOf
  <2>4. next_pgn \in Nat
    BY Bounds DEF TypeOK
  <2>5. QED
    BY <1>1, <2>1, <2>3, <2>4, LocalStep
<1>4. QED
  BY <1>2, <1>3

(* The head of the list of free frames goes. *)
LEMMA TakeTypes ==
  ASSUME TypeOK, LocalInv, NEW p \in Procs, Take(p)
  PROVE  TypeOK' /\ LocalInv'
<1>1. /\ pc[p] = "take" /\ pc' = [pc EXCEPT ![p] = "free"]
      /\ free' = Tail(hold[p])
      /\ UNCHANGED <<swap_free, fifo, op, hold, frames, pte, next_pgn, mmvm_lock, calls,
                     raced, passed, undefined>>
  BY DEF Take, At, Goto
<1>2. hold[p] \in Seq(Frames) /\ hold[p] # <<>>
  BY <1>1 DEF LocalInv, LocalOf
<1>3. TypeOK'
  <2>1. free' \in Seq(Frames)
    BY <1>1, <1>2, HeadTailProperties
  <2>2. QED
    BY <1>1, <2>1 DEF TypeOK
<1>4. LocalInv'
  <2>1. Others(p)
    BY <1>1 DEF Others, TypeOK
  <2>2. pc'[p] = "free"
    BY <1>1 DEF TypeOK
  <2>3. LocalOf(p)'
    BY <1>1, <2>2 DEF LocalInv, LocalOf
  <2>4. next_pgn \in Nat
    BY Bounds DEF TypeOK
  <2>5. QED
    BY <1>1, <2>1, <2>3, <2>4, LocalStep
<1>5. QED
  BY <1>3, <1>4

(* Its node is freed and the frame kept. *)
LEMMA FreeNodeTypes ==
  ASSUME TypeOK, LocalInv, NEW p \in Procs, FreeNode(p)
  PROVE  TypeOK' /\ LocalInv'
<1> DEFINE got == <<Head(hold[p])>> \o frames[p]
           label == IF Len(got) < op[p].n THEN "get" ELSE "set"
<1>1. pc[p] = "free"
  BY DEF FreeNode, At
<1>2. hold[p] \in Seq(Frames) /\ hold[p] # <<>> /\ frames[p] \in Seq(Frames)
  BY <1>1, OfProcess DEF LocalInv, LocalOf
<1>3. Head(hold[p]) \in Frames
  BY <1>2, HeadTailProperties
<1>4. got \in Seq(Frames) /\ Len(got) = Len(frames[p]) + 1 /\ Len(frames[p]) \in Nat
  BY <1>2, <1>3, PrependEntries, LenProperties
<1>5. /\ frames' = [frames EXCEPT ![p] = got]
      /\ undefined' \in BOOLEAN
      /\ UNCHANGED <<lists, op, hold, pte, next_pgn, mmvm_lock, calls, raced, passed>>
  BY DEF FreeNode, InUse
<1>6. frames'[p] = got
  BY <1>5 DEF TypeOK
<1>7. pc' = [pc EXCEPT ![p] = label]
  BY <1>6 DEF FreeNode, Goto
<1> HIDE DEF got
<1>8. TypeOK'
  BY <1>4, <1>5, <1>7 DEF TypeOK, lists
<1>9. LocalInv'
  <2>1. Others(p)
    BY <1>5, <1>7 DEF Others, TypeOK
  <2>2. pc'[p] = label
    BY <1>7 DEF TypeOK
  <2>3. op[p].n \in Nat /\ Len(frames[p]) < op[p].n
    BY <1>1, OfProcess DEF LocalInv, LocalOf
  <2>4. label = "set" => Len(got) = op[p].n
    BY <1>4, <2>3
  <2>5. LocalOf(p)'
    BY <1>1, <1>5, <1>6, <2>2, <2>4 DEF LocalInv, LocalOf
  <2>6. next_pgn \in Nat
    BY Bounds DEF TypeOK
  <2>7. QED
    BY <1>5, <2>1, <2>5, <2>6, LocalStep
<1>10. QED
  BY <1>8, <1>9

(* A frame goes back to the list. *)
LEMMA PutBackTypes ==
  ASSUME TypeOK, LocalInv, NEW p \in Procs, PutBack(p)
  PROVE  TypeOK' /\ LocalInv'
<1>1. /\ pc[p] = "putback" /\ pc' = [pc EXCEPT ![p] = "put"]
      /\ free' = <<Head(frames[p])>> \o hold[p]
      /\ frames' = [frames EXCEPT ![p] = Tail(frames[p])]
      /\ UNCHANGED <<swap_free, fifo, op, hold, pte, next_pgn, mmvm_lock, calls, raced,
                     passed, undefined>>
  BY DEF PutBack, At, Goto
<1>2. hold[p] \in Seq(Frames) /\ frames[p] # <<>> /\ frames[p] \in Seq(Frames)
  BY <1>1, OfProcess DEF LocalInv, LocalOf
<1>3. Head(frames[p]) \in Frames /\ Tail(frames[p]) \in Seq(Frames)
  BY <1>2, HeadTailProperties
<1>4. free' \in Seq(Frames)
  BY <1>1, <1>2, <1>3, PrependEntries
<1>5. TypeOK'
  BY <1>1, <1>3, <1>4 DEF TypeOK
<1>6. LocalInv'
  <2>1. Others(p)
    BY <1>1 DEF Others, TypeOK
  <2>2. pc'[p] = "put"
    BY <1>1 DEF TypeOK
  <2>3. op[p].kind = "grow"
    BY <1>1 DEF LocalInv, LocalOf
  <2>4. LocalOf(p)'
    BY <1>1, <2>2, <2>3 DEF LocalInv, LocalOf
  <2>5. next_pgn \in Nat
    BY Bounds DEF TypeOK
  <2>6. QED
    BY <1>1, <2>1, <2>4, <2>5, LocalStep
<1>7. QED
  BY <1>5, <1>6

(* A page gets its frame. *)
LEMMA SetPageTypes ==
  ASSUME TypeOK, LocalInv, NEW p \in Procs, SetPage(p)
  PROVE  TypeOK' /\ LocalInv' /\ op[p].pgn \in Pgns
<1>1. /\ pc[p] = "set" /\ pc' = [pc EXCEPT ![p] = "enlist"]
      /\ pte' = [pte EXCEPT ![op[p].pgn] = SetFpn(pte[op[p].pgn], Head(frames[p]))]
      /\ frames' = [frames EXCEPT ![p] = Tail(frames[p])]
      /\ UNCHANGED <<lists, op, hold, next_pgn, mmvm_lock, calls, raced, passed, undefined>>
  BY DEF SetPage, At, Goto
<1>2. /\ op[p].kind = "grow" /\ op[p].n # 0 /\ op[p].n \in Nat /\ op[p].pgn \in Nat
      /\ op[p].pgn + op[p].n <= next_pgn /\ Len(frames[p]) = op[p].n
      /\ frames[p] \in Seq(Frames)
  BY <1>1, OfProcess DEF LocalInv, LocalOf
<1>3. op[p].pgn \in Pgns
  <2>1. next_pgn \in 0..(MaxPgn + 1)
    BY DEF TypeOK
  <2>2. QED
    BY <1>2, <2>1, Bounds DEF Pgns
<1>4. frames[p] # <<>>
  BY <1>2, EmptySeq
<1>5. /\ Head(frames[p]) \in Nat /\ Tail(frames[p]) \in Seq(Frames)
      /\ Len(Tail(frames[p])) = Len(frames[p]) - 1
  BY <1>2, <1>4, HeadTailProperties, Bounds
<1>6. TypeOK'
  <2>1. SetFpn(pte[op[p].pgn], Head(frames[p])) \in Entry
    BY <1>3, <1>5, EntryTypes DEF TypeOK
  <2>2. QED
    BY <1>1, <1>5, <2>1 DEF TypeOK, lists
<1>7. LocalInv'
  <2>1. Others(p)
    BY <1>1 DEF Others, TypeOK
  <2>2. pc'[p] = "enlist" /\ frames'[p] = Tail(frames[p])
    BY <1>1 DEF TypeOK
  <2>3. LocalOf(p)'
    BY <1>1, <1>2, <1>5, <2>2 DEF LocalInv, LocalOf
  <2>4. next_pgn \in Nat
    BY Bounds DEF TypeOK
  <2>5. QED
    BY <1>1, <2>1, <2>3, <2>4, LocalStep
<1>8. QED
  BY <1>3, <1>6, <1>7

(* The page that is entered, and the next one of the call, if there is.    *)
LEMMA LinkTypes ==
  ASSUME TypeOK, LocalInv, NEW p \in Procs, Link(p)
  PROVE  TypeOK' /\ LocalInv' /\ op[p].pgn \in Pgns
<1>1. /\ pc[p] = "link" /\ fifo' = <<op[p].pgn>> \o hold[p]
      /\ UNCHANGED <<free, swap_free, hold, frames, pte, next_pgn, calls, raced, passed,
                     undefined>>
  BY DEF Link, At
<1>2. /\ op[p].kind \in {"grow", "fault"}
      /\ op[p].n # 0 /\ op[p].n \in Nat /\ op[p].pgn \in Nat
      /\ op[p].pgn + op[p].n <= next_pgn /\ Len(frames[p]) = op[p].n - 1
      /\ frames[p] \in Seq(Frames) /\ hold[p] \in Seq(Pgns)
      /\ op[p].kind = "fault" => op[p].n = 1
  BY <1>1, OfProcess DEF LocalInv, LocalOf
<1>3. op[p].pgn \in Pgns
  <2>1. next_pgn \in 0..(MaxPgn + 1)
    BY DEF TypeOK
  <2>2. QED
    BY <1>2, <2>1, Bounds DEF Pgns
<1>4. fifo' \in Seq(Pgns)
  BY <1>1, <1>2, <1>3, PrependEntries
<1>5. CASE op[p].n > 1
  <2> DEFINE o == [op[p] EXCEPT !.pgn = @ + 1, !.n = @ - 1]
  <2>1. /\ op' = [op EXCEPT ![p] = o] /\ pc' = [pc EXCEPT ![p] = "set"]
        /\ mmvm_lock' = mmvm_lock
    BY <1>5 DEF Link, Goto
  <2>2. /\ o \in OpType /\ o.pgn = op[p].pgn + 1 /\ o.n = op[p].n - 1
        /\ o.kind = "grow"
    <3>1. op[p].pgn + 1 \in Nat /\ op[p].n - 1 \in Nat
      BY <1>2, <1>5
    <3>2. op[p].kind = "grow"
      BY <1>2, <1>5
    <3>3. QED
      BY <3>1, <3>2, OfProcess DEF OpType
  <2> HIDE DEF o
  <2>3. TypeOK'
    BY <1>1, <1>4, <2>1, <2>2 DEF TypeOK, OpType
  <2>4. LocalInv'
    <3>1. Others(p)
      BY <1>1, <2>1 DEF Others, TypeOK
    <3>2. pc'[p] = "set" /\ op'[p] = o
      BY <2>1 DEF TypeOK
    <3>3. LocalOf(p)'
      <4>0. /\ op[p].pgn \in Nat /\ op[p].n \in Nat /\ op[p].n > 1
            /\ o.pgn = op[p].pgn + 1 /\ o.n = op[p].n - 1
        BY <1>2, <1>5, <2>2
      <4>1. o.n # 0 /\ o.pgn + o.n = op[p].pgn + op[p].n
        BY <4>0
      <4>2. /\ frames'[p] = frames[p] /\ next_pgn' = next_pgn
            /\ Len(frames[p]) = o.n
        BY <1>1, <1>2, <2>2
      <4>3. QED
        BY <1>2, <2>2, <3>2, <4>1, <4>2 DEF LocalOf
    <3>4. next_pgn \in Nat
      BY Bounds DEF TypeOK
    <3>5. QED
      BY <1>1, <2>1, <3>1, <3>3, <3>4, LocalStep
  <2>5. QED
    BY <1>3, <2>3, <2>4
<1>6. CASE ~(op[p].n > 1)
  <2>1. /\ op' = [op EXCEPT ![p] = NoOp] /\ pc' = [pc EXCEPT ![p] = "run"]
        /\ mmvm_lock' = IF mmvm_lock = p THEN NULL ELSE mmvm_lock
    BY <1>6 DEF Link, Return, Goto
  <2>2. frames[p] = <<>>
    BY <1>2, <1>6, EmptySeq
  <2>3. TypeOK'
    BY <1>1, <1>4, <2>1, NoOpType DEF TypeOK, OpType
  <2>4. LocalInv'
    <3>1. Others(p)
      BY <1>1, <2>1 DEF Others, TypeOK
    <3>2. pc'[p] = "run" /\ op'[p] = NoOp
      BY <2>1 DEF TypeOK
    <3>3. LocalOf(p)'
      BY <1>1, <2>2, <3>2, NoOpType DEF LocalOf
    <3>4. next_pgn \in Nat
      BY Bounds DEF TypeOK
    <3>5. QED
      BY <1>1, <2>1, <3>1, <3>3, <3>4, LocalStep
  <2>5. QED
    BY <1>3, <2>3, <2>4
<1>7. QED
  BY <1>5, <1>6

(* A victim goes to swap. *)
LEMMA EvictTypes ==
  ASSUME TypeOK, LocalInv, NEW p \in Procs, Evict(p)
  PROVE  TypeOK' /\ LocalInv'
<1> DEFINE f == PAGING_FPN(pte[op[p].victim])
           o == [op[p] EXCEPT !.fpn = f]
<1>1. /\ pc[p] = "evict" /\ pc' = [pc EXCEPT ![p] = "give"]
      /\ swap_free # <<>> /\ swap_free' = Tail(swap_free)
      /\ op' = [op EXCEPT ![p] = o]
      /\ pte' = [pte EXCEPT ![op[p].victim] = SetSwap(Head(swap_free))]
      /\ UNCHANGED <<free, fifo, hold, frames, next_pgn, mmvm_lock, calls, raced, passed,
                     undefined>>
  BY DEF Evict, At, Goto
<1>2. f \in Nat
  BY OfProcess, EntryTypes DEF TypeOK
<1> HIDE DEF f
<1>3. /\ o \in OpType /\ o.kind = op[p].kind /\ o.pgn = op[p].pgn /\ o.n = op[p].n
  BY <1>2, OfProcess DEF OpType
<1> HIDE DEF o
<1>4. /\ Head(swap_free) \in 0..(SwapFrames - 1)
      /\ Tail(swap_free) \in Seq(0..(SwapFrames - 1))
  BY <1>1, HeadTailProperties DEF TypeOK
<1>5. TypeOK'
  <2>1. Head(swap_free) \in Nat
    BY <1>4, Bounds
  <2>2. SetSwap(Head(swap_free)) \in Entry
    BY <2>1, EntryTypes
  <2>3. QED
    BY <1>1, <1>3, <1>4, <2>2 DEF TypeOK, OpType
<1>6. LocalInv'
  <2>1. Others(p)
    BY <1>1 DEF Others, TypeOK
  <2>2. pc'[p] = "give" /\ op'[p] = o
    BY <1>1 DEF TypeOK
  <2>3. LocalOf(p)'
    BY <1>1, <1>3, <2>2 DEF LocalInv, LocalOf
  <2>4. next_pgn \in Nat
    BY Bounds DEF TypeOK
  <2>5. QED
    BY <1>1, <2>1, <2>3, <2>4, LocalStep
<1>7. QED
  BY <1>5, <1>6

(* The page of the fault gets the frame of the victim. *)
LEMMA GiveTypes ==
  ASSUME TypeOK, LocalInv, NEW p \in Procs, Give(p)
  PROVE  TypeOK' /\ LocalInv' /\ op[p].pgn \in Pgns
<1>1. /\ pc[p] = "give" /\ pc' = [pc EXCEPT ![p] = "enlist"]
      /\ pte' = [pte EXCEPT ![op[p].pgn] = SetFpn(pte[op[p].pgn], op[p].fpn)]
      /\ UNCHANGED <<lists, op, hold, frames, next_pgn, mmvm_lock, calls, raced, passed,
                     undefined>>
  BY DEF Give, At, Goto
<1>2. /\ op[p].kind = "fault" /\ op[p].n = 1 /\ op[p].pgn \in Nat /\ op[p].fpn \in Nat
      /\ op[p].pgn + op[p].n <= next_pgn /\ frames[p] = <<>>
  BY <1>1, OfProcess DEF LocalInv, LocalOf
<1>3. op[p].pgn \in Pgns
  <2>1. next_pgn \in 0..(MaxPgn + 1)
    BY DEF TypeOK
  <2>2. QED
    BY <1>2, <2>1, Bounds DEF Pgns
<1>4. TypeOK'
  <2>1. SetFpn(pte[op[p].pgn], op[p].fpn) \in Entry
    BY <1>2, <1>3, EntryTypes DEF TypeOK
  <2>2. QED
    BY <1>1, <2>1 DEF TypeOK, lists
<1>5. LocalInv'
  <2>1. Others(p)
    BY <1>1 DEF Others, TypeOK
  <2>2. pc'[p] = "enlist"
    BY <1>1 DEF TypeOK
  <2>3. LocalOf(p)'
    BY <1>1, <1>2, <2>2 DEF LocalInv, LocalOf
  <2>4. next_pgn \in Nat
    BY Bounds DEF TypeOK
  <2>5. QED
    BY <1>1, <2>1, <2>3, <2>4, LocalStep
<1>6. QED
  BY <1>3, <1>4, <1>5

(* What is left of a list without the victim. *)
LEMMA WithoutSeq ==
  ASSUME NEW S, NEW s \in Seq(S), NEW g
  PROVE  Without(s, g) \in Seq(S)
BY FrontEntries DEF Without

(* The victim leaves the FIFO, whoever has read it. *)
LEMMA UnlinkTypes ==
  ASSUME TypeOK, LocalInv, NEW p \in Procs, Unlink(p)
  PROVE  TypeOK' /\ LocalInv'
<1> DEFINE g == Last(hold[p])
           o == [op[p] EXCEPT !.victim = g]
<1>1. /\ pc[p] = "unlink" /\ pc' = [pc EXCEPT ![p] = "evict"]
      /\ op' = [op EXCEPT ![p] = o]
      /\ UNCHANGED <<free, swap_free, frames, pte, next_pgn, mmvm_lock, calls, raced, passed>>
  BY DEF Unlink, At, Goto
<1>2. /\ op[p].kind = "fault" /\ mmvm_lock = p
      /\ hold[p] \in Seq(Pgns) /\ hold[p] # <<>>
  BY <1>1 DEF LocalInv, LocalOf
<1>3. g \in Pgns
  BY <1>2, FrontEntries
<1>4. fifo' \in Seq(Pgns) /\ undefined' \in BOOLEAN
  <2>1. fifo \in Seq(Pgns) /\ undefined \in BOOLEAN
    BY DEF TypeOK
  <2>2. Without(fifo, g) \in Seq(Pgns)
    BY <2>1, WithoutSeq
  <2>3. /\ fifo' \in {<<>>, Without(fifo, g)}
        /\ \/ undefined' = undefined
           \/ undefined' = \E q \in Procs \ {p} : pc[q] = "link" /\ g \in ToSet(hold[q])
    BY DEF Unlink
  <2>4. undefined' \in BOOLEAN
    BY <2>1, <2>3
  <2>5. fifo' \in Seq(Pgns)
    <3>1. <<>> \in Seq(Pgns)
      OBVIOUS
    <3> HIDE DEF g
    <3>2. QED
      BY <2>2, <2>3, <3>1
  <2>6. QED
    BY <2>4, <2>5
<1>5. /\ hold' \in [Procs -> Seq(Nat)]
      /\ \A q \in Procs : hold'[q] = hold[q] \/ (pc[q] \in AtFifo /\ hold'[q] = Without(hold[q], g))
  <2>1. \A q \in Procs : Without(hold[q], g) \in Seq(Nat)
    BY OfProcess, WithoutSeq
  <2>2. CASE hold' = hold
    BY <2>2 DEF TypeOK
  <2>3. CASE hold' = [q \in Procs |-> IF pc[q] \in AtFifo THEN Without(hold[q], g)
                                      ELSE hold[q]]
    BY <2>1, <2>3, OfProcess
  <2>4. QED
    BY <2>2, <2>3 DEF Unlink
<1>6. /\ o \in OpType /\ o.kind = op[p].kind /\ o.pgn = op[p].pgn /\ o.n = op[p].n
  BY <1>3, OfProcess DEF OpType
<1> HIDE DEF o, g
<1>7. TypeOK'
  BY <1>1, <1>4, <1>5, <1>6 DEF TypeOK, OpType
<1>8. ASSUME NEW q \in Procs PROVE LocalOf(q)'
  <2>1. CASE q = p
    <3>1. pc'[p] = "evict" /\ op'[p] = o /\ frames'[p] = frames[p]
      BY <1>1 DEF TypeOK
    <3>2. QED
      BY <1>1, <1>2, <1>6, <2>1, <3>1 DEF LocalInv, LocalOf
  <2>2. CASE q # p
    <3>1. /\ pc'[q] = pc[q] /\ op'[q] = op[q] /\ frames'[q] = frames[q]
          /\ next_pgn' = next_pgn /\ mmvm_lock' = mmvm_lock
      BY <1>1, <2>2 DEF TypeOK
    <3>2. pc[q] # "unlink"
      BY <1>2, <2>2 DEF LocalInv, LocalOf
    <3>3. pc[q] = "link" => hold'[q] \in Seq(Pgns)
      BY <1>5, WithoutSeq DEF LocalInv, LocalOf
    <3>4. pc[q] # "link" => hold'[q] = hold[q]
      BY <1>5, <3>2 DEF AtFifo
    <3>5. QED
      BY <3>1, <3>2, <3>3, <3>4 DEF LocalInv, LocalOf
  <2>3. QED
    BY <2>1, <2>2
<1>9. QED
  BY <1>7, <1>8 DEF LocalInv

(* The types hold throughout. *)
LEMMA StepTypes == TypeOK /\ LocalInv /\ [Next]_vars => TypeOK' /\ LocalInv'
<1> SUFFICES ASSUME TypeOK, LocalInv, [Next]_vars PROVE TypeOK' /\ LocalInv'
  OBVIOUS
<1>1. CASE UNCHANGED vars
  BY <1>1 DEF vars, lists, locals, TypeOK, LocalInv, LocalOf
<1>2. ASSUME NEW p \in Procs, NEW n \in 1..MaxRange, NEW locked \in BOOLEAN,
             Grow(p, n, locked)
      PROVE  TypeOK' /\ LocalInv'
  BY <1>2, GrowTypes
<1>3. ASSUME NEW p \in Procs, NEW g \in Pgns, Fault(p, g) PROVE TypeOK' /\ LocalInv'
  BY <1>3, FaultTypes
<1>4. ASSUME NEW p \in Procs, Step(p) PROVE TypeOK' /\ LocalInv'
  BY <1>4, ReadTypes, NoneFreeTypes, TakeTypes, FreeNodeTypes, PutBackTypes,
     GrowFailsTypes, SetPageTypes, LinkTypes, NoVictimTypes, UnlinkTypes, EvictTypes,
     NoSwapTypes, GiveTypes DEF Step
<1>5. QED
  BY <1>1, <1>2, <1>3, <1>4 DEF Next, Stopped

-----------------------------------------------------------------------------
(* What a step leaves alone keeps the parts of the invariant.              *)

(* No process comes to the head of the list of free frames. *)
LEMMA FreeHeadKept ==
  ASSUME FreeHead, raced \subseteq raced', free' = free,
         \A q \in Procs : pc'[q] \in AtFree => pc[q] \in AtFree /\ hold'[q] = hold[q]
  PROVE  FreeHead'
BY DEF FreeHead, AtFree

(* No process comes to the head of the FIFO. *)
LEMMA FifoHeadKept ==
  ASSUME FifoHead, raced \subseteq raced', fifo' = fifo,
         \A q \in Procs : pc'[q] \in AtFifo => pc[q] \in AtFifo /\ hold'[q] = hold[q]
  PROVE  FifoHead'
BY DEF FifoHead, AtFifo

(* The list and what the growths have got stay. *)
LEMMA FreeKept ==
  ASSUME FreeInv, raced \subseteq raced', free' = free,
         \A q \in Procs : /\ frames'[q] = frames[q]
                          /\ pc'[q] = "free" => pc[q] = "free" /\ hold'[q] = hold[q]
  PROVE  FreeInv'
<1>1. \A q \in Procs, f \in Frames : Has(q, f)' => Has(q, f)
  BY DEF Has
<1>2. QED
  BY <1>1 DEF FreeInv

(* The page table stays, and no process gets pages to enter. *)
LEMMA PageKept ==
  ASSUME PageInv, ~undefined, raced \subseteq raced', pte' = pte, next_pgn' = next_pgn,
         \A q \in Procs : /\ Own(q)' \subseteq Own(q)
                          /\ \A g \in Own(q)' : IsEntering(q, g)' = IsEntering(q, g)
  PROVE  PageInv'
<1>1. Online' = Online
  BY DEF Online
<1>2. QED
  BY <1>1 DEF PageInv

(* No list gets new pages and no page leaves the RAM. *)
LEMMA ListKept ==
  ASSUME ListInv, ~undefined, raced \subseteq raced',
         Online \subseteq Online', Lists' \subseteq Lists,
         \A q \in Procs : /\ Own(q)' \subseteq Own(q)
                          /\ pc'[q] = "evict" => /\ pc[q] = "evict"
                                                 /\ op'[q].victim = op[q].victim
  PROVE  ListInv'
<1> SUFFICES ASSUME ~undefined', "page" \notin raced'
             PROVE  /\ \A s \in Lists' : /\ Distinct(s) /\ ToSet(s) \subseteq Online'
                                         /\ \A p \in Procs : Own(p)' \cap ToSet(s) = {}
                    /\ \A s, t \in Lists' : SameNext(s, t)
                    /\ \A p \in Procs :
                         pc'[p] = "evict" => /\ op'[p].victim \in Online'
                                             /\ \A s \in Lists' : op'[p].victim \notin ToSet(s)
                                             /\ \A q \in Procs : op'[p].victim \notin Own(q)'
  BY DEF ListInv
<1>1. /\ \A s \in Lists : /\ Distinct(s) /\ ToSet(s) \subseteq Online
                          /\ \A p \in Procs : Own(p) \cap ToSet(s) = {}
      /\ \A s, t \in Lists : SameNext(s, t)
      /\ \A p \in Procs :
           pc[p] = "evict" => /\ op[p].victim \in Online
                              /\ \A s \in Lists : op[p].victim \notin ToSet(s)
                              /\ \A q \in Procs : op[p].victim \notin Own(q)
  BY DEF ListInv
<1>2. QED
  BY <1>1

(* Frames stay where they are. *)
LEMMA FrameKept ==
  ASSUME FrameInv, ~undefined, raced \subseteq raced', pte' = pte, free' = free,
         \A q \in Procs : /\ frames'[q] = frames[q]
                          /\ (pc'[q] = "free") = (pc[q] = "free")
                          /\ pc'[q] = "free" => hold'[q] = hold[q]
                          /\ (pc'[q] = "give") = (pc[q] = "give")
                          /\ pc'[q] = "give" => op'[q].fpn = op[q].fpn
  PROVE  FrameInv'
<1>1. Online' = Online /\ \A g : FrameOf(g)' = FrameOf(g)
  BY DEF Online, FrameOf
<1>2. \A q \in Procs : \A f : InHand(q, f)' = InHand(q, f) /\ Has(q, f)' = Has(q, f)
  BY DEF InHand, Has
<1>3. QED
  BY <1>1, <1>2 DEF FrameInv

(* No page comes into RAM or leaves the FIFO. *)
LEMMA OnlineKept ==
  ASSUME OnlineInv, ~undefined, raced \subseteq raced', fifo' = fifo,
         Online' \subseteq Online, passed \subseteq passed',
         \A q \in Procs :
           /\ pc[q] = "evict" => pc'[q] = "evict" /\ op'[q].victim = op[q].victim
           /\ pc[q] \in {"enlist", "link"} => /\ pc'[q] \in {"enlist", "link"}
                                              /\ op'[q].pgn = op[q].pgn
  PROVE  OnlineInv'
BY DEF OnlineInv, IsEntering

(* A process that comes to no list adds none. *)
LEMMA ListsKept ==
  ASSUME fifo' = fifo,
         \A q \in Procs : pc'[q] \in AtFifo => pc[q] \in AtFifo /\ hold'[q] = hold[q]
  PROVE  Lists' \subseteq Lists
BY DEF Lists

(* No step but two frees nodes. *)
LEMMA FreedKept == undefined' = FALSE => FreedOnlyByRace'
BY DEF FreedOnlyByRace

(* Nothing is left to be entered at the end of a call. *)
LEMMA NoneOwned ==
  ASSUME NEW q \in Procs
  PROVE  /\ op[q] = NoOp => Own(q) = {}
         /\ op'[q] = NoOp => Own(q)' = {}
<1>1. 0..(0 + 0 - 1) = {}
  OBVIOUS
<1>2. QED
  BY <1>1 DEF Own, NoOp

(* What is owned is below next_pgn, with the call it belongs to. *)
LEMMA OwnBelow ==
  ASSUME TypeOK, LocalInv, NEW q \in Procs
  PROVE  /\ \A g \in Own(q) : g \in Pgns /\ g < next_pgn
         /\ op[q].n = 1 => Own(q) = {op[q].pgn}
         /\ op[q].n # 0 => op[q].pgn \in Own(q)
         /\ op[q].kind = "none" => Own(q) = {}
         /\ op[q].kind = "grow" => Pending(q) = Own(q)
<1>1. op[q].pgn \in Nat /\ op[q].n \in Nat /\ op[q].kind \in {"none", "grow", "fault"}
  BY OfProcess
<1>2. next_pgn \in 0..(MaxPgn + 1) /\ next_pgn \in Nat
  BY Bounds DEF TypeOK
<1>3. pc[q] = "run" => Own(q) = {}
  BY NoneOwned DEF LocalInv, LocalOf
<1>4. ASSUME NEW g \in Own(q) PROVE g \in Pgns /\ g < next_pgn
  <2>1. op[q].pgn + op[q].n <= next_pgn
    BY <1>3 DEF LocalInv, LocalOf
  <2>2. QED
    BY <1>1, <1>2, <2>1, Bounds DEF Own, Pgns
<1>5. op[q].n = 1 => Own(q) = {op[q].pgn}
  BY <1>1 DEF Own
<1>6. op[q].n # 0 => op[q].pgn \in Own(q)
  BY <1>1 DEF Own
<1>7. op[q].kind = "none" => Own(q) = {}
  <2>1. op[q].kind = "none" => pc[q] = "run"
    BY OfProcess DEF LocalInv, LocalOf, Places13
  <2>2. QED
    BY <1>3, <2>1
<1>8. op[q].kind = "grow" => Pending(q) = Own(q)
  BY DEF Pending, Own
<1>9. QED
  BY <1>4, <1>5, <1>6, <1>7, <1>8

(* Steps that change no list, no entry and no frame. *)
LEMMA QuietStep ==
  ASSUME IInv, NEW p \in Procs,
         ~undefined, pc[p] \in {"get", "put", "victim"},
         \/ op' = op /\ pc' = [pc EXCEPT ![p] = "put"]
         \/ op' = [op EXCEPT ![p] = NoOp] /\ pc' = [pc EXCEPT ![p] = "run"],
         UNCHANGED <<lists, hold, frames, pte, next_pgn, raced, passed, undefined>>
  PROVE  Safe'
<1>1. pc'[p] \in {"put", "run"} /\ \A q \in Procs \ {p} : pc'[q] = pc[q] /\ op'[q] = op[q]
  BY DEF IInv, TypeOK
<1>2. op'[p] = op[p] \/ op'[p] = NoOp
  BY DEF IInv, TypeOK
<1>3. \A q \in Procs : Own(q)' = Own(q) \/ Own(q)' = {}
  BY <1>1, <1>2, NoneOwned DEF Own
<1>4. FreeHead' /\ FifoHead'
  <2>1. \A q \in Procs : /\ pc'[q] \in AtFree => pc[q] \in AtFree
                         /\ pc'[q] \in AtFifo => pc[q] \in AtFifo
    BY <1>1 DEF AtFree, AtFifo
  <2>2. QED
    BY <2>1, FreeHeadKept, FifoHeadKept DEF IInv, Safe, lists
<1>5. FreeInv'
  BY <1>1, FreeKept DEF IInv, Safe, lists
<1>6. PageInv'
  <2>1. \A q \in Procs : \A g \in Own(q)' : IsEntering(q, g)' = IsEntering(q, g)
    <3>1. \A g : IsEntering(p, g)' = FALSE /\ IsEntering(p, g) = FALSE
      BY <1>1 DEF IsEntering
    <3>2. \A q \in Procs \ {p} : \A g : IsEntering(q, g)' = IsEntering(q, g)
      BY <1>1 DEF IsEntering
    <3>3. QED
      BY <3>1, <3>2
  <2>2. QED
    BY <1>3, <2>1, PageKept DEF IInv, Safe
<1>7. ListInv'
  <2>1. Online' = Online
    BY DEF Online
  <2>2. Lists' \subseteq Lists
    BY <1>1, ListsKept DEF AtFifo, lists
  <2>3. QED
    BY <1>1, <1>3, <2>1, <2>2, ListKept DEF IInv, Safe
<1>8. FrameInv'
  BY <1>1, FrameKept DEF IInv, Safe, lists
<1>9. OnlineInv'
  <2>1. Online' = Online
    BY DEF Online
  <2>2. QED
    BY <1>1, <2>1, OnlineKept DEF IInv, Safe, lists
<1>10. QED
  BY <1>4, <1>5, <1>6, <1>7, <1>8, <1>9, FreedKept DEF Safe

(* A growth without frames, its end, and a fault without a victim. *)
LEMMA QuietSteps ==
  ASSUME IInv, NEW p \in Procs, NoneFree(p) \/ GrowFails(p) \/ NoVictim(p)
  PROVE  Safe'
<1>1. ~undefined /\ pc[p] \in {"get", "put", "victim"}
  BY DEF NoneFree, GrowFails, NoVictim, At
<1>2. \/ op' = op /\ pc' = [pc EXCEPT ![p] = "put"]
      \/ op' = [op EXCEPT ![p] = NoOp] /\ pc' = [pc EXCEPT ![p] = "run"]
  BY DEF NoneFree, GrowFails, NoVictim, Return, Goto
<1>3. UNCHANGED <<lists, hold, frames, pte, next_pgn, raced, passed, undefined>>
  BY DEF NoneFree, GrowFails, NoVictim
<1>4. QED
  BY <1>1, <1>2, <1>3, QuietStep

-----------------------------------------------------------------------------
(* The reading of a head. *)

(* Of the list of free frames. *)
LEMMA ReadFreeStep ==
  ASSUME IInv, NEW p \in Procs, ReadFree(p) \/ PutRead(p)
  PROVE  Safe'
<1>1. /\ ~undefined /\ pc[p] \in {"get", "put"}
      /\ hold' = [hold EXCEPT ![p] = free]
      /\ raced' = raced \cup {w \in {"frames"} : \E q \in Procs \ {p} : pc[q] \in AtFree}
      /\ \/ pc' = [pc EXCEPT ![p] = "take"]
         \/ pc' = [pc EXCEPT ![p] = "putback"]
      /\ UNCHANGED <<lists, op, frames, pte, next_pgn, passed, undefined>>
  BY DEF ReadFree, PutRead, At, Goto, Overlap
<1>2. /\ pc'[p] \in {"take", "putback"} /\ hold'[p] = free
      /\ \A q \in Procs \ {p} : pc'[q] = pc[q] /\ hold'[q] = hold[q]
  BY <1>1 DEF IInv, TypeOK
<1>3. FreeHead'
  <2>1. SUFFICES ASSUME "frames" \notin raced'
                 PROVE  /\ \A q \in Procs \ {p} : pc'[q] \notin AtFree
                        /\ hold'[p] = free'
    BY <1>1, <1>2 DEF FreeHead, AtFree, lists
  <2>2. QED
    BY <1>1, <1>2, <2>1 DEF lists
<1>4. FifoHead'
  <2>1. \A q \in Procs : pc'[q] \in AtFifo => pc[q] \in AtFifo /\ hold'[q] = hold[q]
    BY <1>2 DEF AtFifo
  <2>2. QED
    BY <1>1, <2>1, FifoHeadKept DEF IInv, Safe, lists
<1>5. FreeInv'
  BY <1>1, <1>2, FreeKept DEF IInv, Safe, lists
<1>6. \A q \in Procs : /\ Own(q)' = Own(q)
                       /\ \A g : IsEntering(q, g)' = IsEntering(q, g)
  <2>1. \A q \in Procs : Own(q)' = Own(q)
    BY <1>1 DEF Own
  <2>2. \A g : IsEntering(p, g)' = FALSE /\ IsEntering(p, g) = FALSE
    BY <1>1, <1>2 DEF IsEntering
  <2>3. \A q \in Procs \ {p} : \A g : IsEntering(q, g)' = IsEntering(q, g)
    BY <1>1, <1>2 DEF IsEntering
  <2>4. QED
    BY <2>1, <2>2, <2>3
<1>7. PageInv'
  BY <1>1, <1>6, PageKept DEF IInv, Safe
<1>8. Online' = Online
  BY <1>1 DEF Online
<1>9. ListInv'
  <2>1. Lists' \subseteq Lists
    BY <1>1, <1>2, ListsKept DEF AtFifo, lists
  <2>2. QED
    BY <1>1, <1>2, <1>6, <1>8, <2>1, ListKept DEF IInv, Safe
<1>10. FrameInv'
  BY <1>1, <1>2, FrameKept DEF IInv, Safe, lists
<1>11. OnlineInv'
  BY <1>1, <1>2, <1>8, OnlineKept DEF IInv, Safe, lists
<1>12. QED
  BY <1>1, <1>3, <1>4, <1>5, <1>7, <1>9, <1>10, <1>11, FreedKept DEF Safe

(* Of the FIFO. *)
LEMMA ReadFifoStep ==
  ASSUME IInv, NEW p \in Procs, ReadFifo(p) \/ Enlist(p)
  PROVE  Safe'
<1>1. /\ ~undefined
      /\ hold' = [hold EXCEPT ![p] = fifo]
      /\ raced' = raced \cup {w \in {"fifo"} : \E q \in Procs \ {p} : pc[q] \in AtFifo}
      /\ \/ pc[p] = "victim" /\ pc' = [pc EXCEPT ![p] = "unlink"]
         \/ pc[p] = "enlist" /\ pc' = [pc EXCEPT ![p] = "link"]
      /\ UNCHANGED <<lists, op, frames, pte, next_pgn, passed, undefined>>
  BY DEF ReadFifo, Enlist, At, Goto, Overlap
<1>2. /\ \/ pc[p] = "victim" /\ pc'[p] = "unlink"
         \/ pc[p] = "enlist" /\ pc'[p] = "link"
      /\ hold'[p] = fifo
      /\ \A q \in Procs \ {p} : pc'[q] = pc[q] /\ hold'[q] = hold[q]
  BY <1>1 DEF IInv, TypeOK
<1>3. FifoHead'
  <2>1. SUFFICES ASSUME "fifo" \notin raced'
                 PROVE  /\ \A q \in Procs \ {p} : pc'[q] \notin AtFifo
                        /\ hold'[p] = fifo'
    BY <1>1, <1>2 DEF FifoHead, AtFifo, lists
  <2>2. QED
    BY <1>1, <1>2, <2>1 DEF lists
<1>4. FreeHead'
  <2>1. \A q \in Procs : pc'[q] \in AtFree => pc[q] \in AtFree /\ hold'[q] = hold[q]
    BY <1>2 DEF AtFree
  <2>2. QED
    BY <1>1, <2>1, FreeHeadKept DEF IInv, Safe, lists
<1>5. FreeInv'
  BY <1>1, <1>2, FreeKept DEF IInv, Safe, lists
<1>6. \A q \in Procs : /\ Own(q)' = Own(q)
                       /\ \A g : IsEntering(q, g)' = IsEntering(q, g)
  <2>1. \A q \in Procs : Own(q)' = Own(q)
    BY <1>1 DEF Own
  <2>2. \A q \in Procs : (pc'[q] \in {"enlist", "link"}) = (pc[q] \in {"enlist", "link"})
    BY <1>2
  <2>3. \A q \in Procs : \A g : IsEntering(q, g)' = IsEntering(q, g)
    BY <1>1, <2>2 DEF IsEntering
  <2>4. QED
    BY <2>1, <2>3
<1>7. PageInv'
  BY <1>1, <1>6, PageKept DEF IInv, Safe
<1>8. Online' = Online
  BY <1>1 DEF Online
<1>9. ListInv'
  <2>1. Lists' \subseteq Lists
    BY <1>1, <1>2 DEF Lists, lists
  <2>2. QED
    BY <1>1, <1>2, <1>6, <1>8, <2>1, ListKept DEF IInv, Safe
<1>10. FrameInv'
  BY <1>1, <1>2, FrameKept DEF IInv, Safe, lists
<1>11. OnlineInv'
  BY <1>1, <1>2, <1>8, OnlineKept DEF IInv, Safe, lists
<1>12. QED
  BY <1>1, <1>3, <1>4, <1>5, <1>7, <1>9, <1>10, <1>11, FreedKept DEF Safe

-----------------------------------------------------------------------------
(* The list of free frames. *)

(* Every process has the frames that it had. *)
LEMMA FrameSame ==
  ASSUME FrameInv, ~undefined, raced \subseteq raced', pte' = pte, free' = free,
         \A q \in Procs : /\ \A f : Has(q, f)' = Has(q, f) /\ InHand(q, f)' = InHand(q, f)
                          /\ (pc'[q] = "give") = (pc[q] = "give")
                          /\ pc'[q] = "give" => op'[q].fpn = op[q].fpn
  PROVE  FrameInv'
<1>1. Online' = Online /\ \A g : FrameOf(g)' = FrameOf(g)
  BY DEF Online, FrameOf
<1>2. QED
  BY <1>1 DEF FrameInv

(* What only the list of free frames and the hands have to do with. *)
LEMMA FramesOnly ==
  ASSUME IInv, NEW p \in Procs, ~undefined,
         pc[p] \in {"take", "free", "putback"}, pc'[p] \in {"free", "get", "put", "set"},
         \A q \in Procs \ {p} : pc'[q] = pc[q],
         UNCHANGED <<fifo, op, hold, pte, next_pgn, raced, passed>>
  PROVE  FifoHead' /\ PageInv' /\ ListInv' /\ OnlineInv'
<1>1. Online' = Online
  BY DEF Online
<1>2. \A q \in Procs : /\ Own(q)' = Own(q)
                       /\ \A g : IsEntering(q, g)' = IsEntering(q, g)
  <2>1. \A q \in Procs : Own(q)' = Own(q)
    BY DEF Own
  <2>2. \A q \in Procs : (pc'[q] \in {"enlist", "link"}) = (pc[q] \in {"enlist", "link"})
    OBVIOUS
  <2>3. \A q \in Procs : \A g : IsEntering(q, g)' = IsEntering(q, g)
    BY <2>2 DEF IsEntering
  <2>4. QED
    BY <2>1, <2>3
<1>3. FifoHead'
  BY FifoHeadKept DEF IInv, Safe, AtFifo
<1>4. PageInv'
  BY <1>2, PageKept DEF IInv, Safe
<1>5. ListInv'
  <2>1. Lists' \subseteq Lists
    BY ListsKept DEF AtFifo
  <2>2. QED
    BY <1>1, <1>2, <2>1, ListKept DEF IInv, Safe
<1>6. OnlineInv'
  BY <1>1, OnlineKept DEF IInv, Safe
<1>7. QED
  BY <1>3, <1>4, <1>5, <1>6

(* A frame goes from the list to the process at its head. *)
LEMMA TakeStep ==
  ASSUME IInv, NEW p \in Procs, Take(p)
  PROVE  Safe'
<1> DEFINE h == Head(hold[p])
<1>1. /\ ~undefined /\ pc[p] = "take" /\ pc' = [pc EXCEPT ![p] = "free"]
      /\ free' = Tail(hold[p])
      /\ UNCHANGED <<swap_free, fifo, op, hold, frames, pte, next_pgn, raced, passed, undefined>>
  BY DEF Take, At, Goto
<1>2. pc'[p] = "free" /\ \A q \in Procs \ {p} : pc'[q] = pc[q]
  BY <1>1 DEF IInv, TypeOK
<1>3. hold[p] \in Seq(Frames) /\ hold[p] # <<>>
  BY <1>1 DEF IInv, LocalInv, LocalOf
<1>4. /\ h \in Frames
      /\ ToSet(hold[p]) = {h} \cup ToSet(free')
      /\ Distinct(hold[p]) => Distinct(free') /\ h \notin ToSet(free')
  BY <1>1, <1>3, HeadTailDistinct
<1>5. "frames" \notin raced =>
        /\ hold[p] = free
        /\ \A q \in Procs \ {p} : pc[q] \notin AtFree
  BY <1>1 DEF IInv, Safe, FreeHead, AtFree
<1>6. FreeHead'
  BY <1>1, <1>2, <1>5 DEF FreeHead, AtFree
<1>7. FifoHead' /\ PageInv' /\ ListInv' /\ OnlineInv'
  BY <1>1, <1>2, FramesOnly
<1>8. /\ \A f : Has(p, f)' <=> Has(p, f) \/ f = h
      /\ \A q \in Procs \ {p} : \A f : Has(q, f)' <=> Has(q, f)
      /\ \A f : InHand(p, f)' <=> InHand(p, f) \/ f = h
      /\ \A q \in Procs \ {p} : \A f : InHand(q, f)' <=> InHand(q, f)
  BY <1>1, <1>2 DEF Has, InHand
<1> HIDE DEF h
<1>9. ASSUME "frames" \notin raced
      PROVE  /\ Distinct(free') /\ h \notin ToSet(free')
             /\ ToSet(free) = {h} \cup ToSet(free')
             /\ \A q \in Procs : ~Has(q, h)
  BY <1>4, <1>5, <1>9 DEF IInv, Safe, FreeInv
<1>10. FreeInv'
  <2> SUFFICES ASSUME "frames" \notin raced
               PROVE  /\ Distinct(free')
                      /\ \A q \in Procs : /\ Distinct(frames[q])
                                          /\ pc'[q] = "free"
                                               => Head(hold[q]) \notin ToSet(frames[q])
                      /\ \A q \in Procs, f \in Frames : Has(q, f)' => f \notin ToSet(free')
                      /\ \A q, r \in Procs, f \in Frames : Has(q, f)' /\ Has(r, f)' => q = r
    BY <1>1 DEF FreeInv
  <2>1. /\ \A q \in Procs : /\ Distinct(frames[q])
                            /\ pc[q] = "free" => Head(hold[q]) \notin ToSet(frames[q])
        /\ \A q \in Procs, f \in Frames : Has(q, f) => f \notin ToSet(free)
        /\ \A q, r \in Procs, f \in Frames : Has(q, f) /\ Has(r, f) => q = r
    BY DEF IInv, Safe, FreeInv
  <2>2. Head(hold[p]) \notin ToSet(frames[p])
    BY <1>9 DEF Has, h
  <2>3. \A q \in Procs, f \in Frames : Has(q, f)' => f \notin ToSet(free')
    BY <1>8, <1>9, <2>1
  <2>4. \A q, r \in Procs, f \in Frames : Has(q, f)' /\ Has(r, f)' => q = r
    BY <1>8, <1>9, <2>1
  <2>5. QED
    BY <1>2, <1>9, <2>1, <2>2, <2>3, <2>4
<1>11. FrameInv'
  <2>1. CASE raced \cap {"frames", "page"} # {}
    BY <1>1, <2>1 DEF FrameInv
  <2>2. CASE raced \cap {"frames", "page"} = {}
    <3>1. Online' = Online /\ \A g : FrameOf(g)' = FrameOf(g)
      BY <1>1 DEF Online, FrameOf
    <3>2. /\ \A g, k \in Online : FrameOf(g) = FrameOf(k) => g = k
          /\ \A g \in Online : /\ FrameOf(g) \in Frames
                               /\ FrameOf(g) \notin ToSet(free)
                               /\ \A q \in Procs : ~InHand(q, FrameOf(g))
          /\ \A q \in Procs : pc[q] = "give" => /\ op[q].fpn \in Frames
                                                /\ op[q].fpn \notin ToSet(free)
                                                /\ \A r \in Procs : ~Has(r, op[q].fpn)
          /\ \A f \in Frames : \/ f \in ToSet(free)
                               \/ \E q \in Procs : InHand(q, f)
                               \/ \E g \in Online : FrameOf(g) = f
      BY <1>1, <2>2 DEF IInv, Safe, FrameInv
    <3>3. "frames" \notin raced
      BY <2>2
    <3>4. \A g \in Online : /\ FrameOf(g) \notin ToSet(free')
                            /\ \A q \in Procs : ~InHand(q, FrameOf(g))'
      <4>1. \A g \in Online : FrameOf(g) # h
        BY <1>9, <3>2, <3>3
      <4>2. QED
        BY <1>8, <1>9, <3>1, <3>2, <3>3, <4>1
    <3>5. \A q \in Procs : pc'[q] = "give" => /\ op[q].fpn \in Frames
                                              /\ op[q].fpn \notin ToSet(free')
                                              /\ \A r \in Procs : ~Has(r, op[q].fpn)'
      <4>1. \A q \in Procs : pc[q] = "give" => op[q].fpn # h
        BY <1>9, <3>2, <3>3
      <4>2. QED
        BY <1>1, <1>2, <1>8, <1>9, <3>2, <3>3, <4>1
    <3>6. \A f \in Frames : \/ f \in ToSet(free')
                            \/ \E q \in Procs : InHand(q, f)'
                            \/ \E g \in Online : FrameOf(g) = f
      BY <1>8, <1>9, <3>2, <3>3
    <3>7. QED
      BY <1>1, <3>1, <3>2, <3>4, <3>5, <3>6 DEF FrameInv
  <2>3. QED
    BY <2>1, <2>2
<1>12. QED
  BY <1>1, <1>6, <1>7, <1>10, <1>11, FreedKept DEF Safe

(* The node is freed: nobody else has it, as it is in no list. *)
LEMMA FreeNodeStep ==
  ASSUME IInv, NEW p \in Procs, FreeNode(p)
  PROVE  Safe'
<1> DEFINE h   == Head(hold[p])
           got == <<h>> \o frames[p]
<1>1. /\ ~undefined /\ pc[p] = "free" /\ undefined' = InUse(p)
      /\ frames' = [frames EXCEPT ![p] = got]
      /\ UNCHANGED <<free, swap_free, fifo, op, hold, pte, next_pgn, raced, passed>>
  BY DEF FreeNode, At, lists
<1>2. /\ pc'[p] \in {"get", "set"} /\ \A q \in Procs \ {p} : pc'[q] = pc[q]
      /\ frames'[p] = got /\ \A q \in Procs \ {p} : frames'[q] = frames[q]
  BY <1>1 DEF FreeNode, Goto, IInv, TypeOK
<1>3. hold[p] \in Seq(Frames) /\ hold[p] # <<>> /\ frames[p] \in Seq(Frames)
  BY <1>1, OfProcess DEF IInv, LocalInv, LocalOf
<1>4. /\ h \in Frames
      /\ ToSet(got) = {h} \cup ToSet(frames[p])
      /\ Distinct(frames[p]) /\ h \notin ToSet(frames[p]) => Distinct(got)
  BY <1>3, HeadTailDistinct, PrependDistinct
<1>5. \A q \in Procs : \A f : Has(q, f)' = Has(q, f) /\ InHand(q, f)' = InHand(q, f)
  <2>1. \A f : Has(p, f)' = Has(p, f) /\ InHand(p, f)' = InHand(p, f)
    BY <1>1, <1>2, <1>4 DEF Has, InHand
  <2>2. \A q \in Procs \ {p} : \A f : Has(q, f)' = Has(q, f) /\ InHand(q, f)' = InHand(q, f)
    BY <1>1, <1>2 DEF Has, InHand
  <2>3. QED
    BY <2>1, <2>2
<1>6. FreeHead'
  <2>1. \A q \in Procs : pc'[q] \in AtFree => pc[q] \in AtFree /\ hold'[q] = hold[q]
    BY <1>1, <1>2 DEF AtFree
  <2>2. QED
    BY <1>1, <2>1, FreeHeadKept DEF IInv, Safe
<1>7. FifoHead' /\ PageInv' /\ ListInv' /\ OnlineInv'
  BY <1>1, <1>2, FramesOnly
<1>8. FrameInv'
  BY <1>1, <1>2, <1>5, FrameSame DEF IInv, Safe
<1> HIDE DEF got
<1>9. FreeInv'
  <2> SUFFICES ASSUME "frames" \notin raced
               PROVE  /\ Distinct(free)
                      /\ \A q \in Procs : /\ Distinct(frames'[q])
                                          /\ pc'[q] = "free"
                                               => Head(hold[q]) \notin ToSet(frames'[q])
                      /\ \A q \in Procs, f \in Frames : Has(q, f)' => f \notin ToSet(free)
                      /\ \A q, r \in Procs, f \in Frames : Has(q, f)' /\ Has(r, f)' => q = r
    BY <1>1 DEF FreeInv
  <2>1. /\ Distinct(free)
        /\ \A q \in Procs : /\ Distinct(frames[q])
                            /\ pc[q] = "free" => Head(hold[q]) \notin ToSet(frames[q])
        /\ \A q \in Procs, f \in Frames : Has(q, f) => f \notin ToSet(free)
        /\ \A q, r \in Procs, f \in Frames : Has(q, f) /\ Has(r, f) => q = r
    BY DEF IInv, Safe, FreeInv
  <2>2. Distinct(got)
    BY <1>1, <1>4, <2>1
  <2>3. QED
    BY <1>2, <1>5, <2>1, <2>2
<1>10. FreedOnlyByRace'
  <2> SUFFICES ASSUME "frames" \notin raced PROVE ~InUse(p)
    BY <1>1 DEF FreedOnlyByRace
  <2>1. Has(p, h)
    BY <1>1 DEF Has
  <2>2. h \notin ToSet(free)
    BY <1>4, <2>1 DEF IInv, Safe, FreeInv
  <2>3. ASSUME NEW q \in Procs \ {p}, pc[q] \in AtFree, hold[q] # <<>> PROVE Head(hold[q]) # h
    <3>1. hold[q] = free /\ free \in Seq(Frames)
      BY <2>3 DEF IInv, Safe, FreeHead, TypeOK
    <3>2. Head(hold[q]) \in ToSet(free)
      BY <2>3, <3>1, HeadTailDistinct
    <3>3. QED
      BY <2>2, <3>2
  <2>4. ASSUME NEW q \in Procs \ {p}, pc[q] = "free" PROVE Head(hold[q]) # h
    <3>1. Has(q, Head(hold[q]))
      BY <2>4 DEF Has
    <3>2. QED
      BY <1>4, <2>1, <3>1 DEF IInv, Safe, FreeInv
  <2>5. QED
    BY <2>2, <2>3, <2>4 DEF InUse
<1>11. QED
  BY <1>6, <1>7, <1>8, <1>9, <1>10 DEF Safe

(* A frame goes from a process to the head of the list. *)
LEMMA PutBackStep ==
  ASSUME IInv, NEW p \in Procs, PutBack(p)
  PROVE  Safe'
<1> DEFINE h == Head(frames[p])
<1>1. /\ ~undefined /\ pc[p] = "putback" /\ pc' = [pc EXCEPT ![p] = "put"]
      /\ free' = <<h>> \o hold[p]
      /\ frames' = [frames EXCEPT ![p] = Tail(frames[p])]
      /\ UNCHANGED <<swap_free, fifo, op, hold, pte, next_pgn, raced, passed, undefined>>
  BY DEF PutBack, At, Goto
<1>2. /\ pc'[p] = "put" /\ \A q \in Procs \ {p} : pc'[q] = pc[q]
      /\ frames'[p] = Tail(frames[p]) /\ \A q \in Procs \ {p} : frames'[q] = frames[q]
  BY <1>1 DEF IInv, TypeOK
<1>3. hold[p] \in Seq(Frames) /\ frames[p] # <<>> /\ frames[p] \in Seq(Frames)
  BY <1>1, OfProcess DEF IInv, LocalInv, LocalOf
<1>4. /\ h \in Frames
      /\ ToSet(frames[p]) = {h} \cup ToSet(frames'[p])
      /\ Distinct(frames[p]) => Distinct(frames'[p]) /\ h \notin ToSet(frames'[p])
      /\ ToSet(free') = {h} \cup ToSet(hold[p])
      /\ Distinct(hold[p]) /\ h \notin ToSet(hold[p]) => Distinct(free')
  <2>1. /\ h \in Frames
        /\ ToSet(frames[p]) = {h} \cup ToSet(frames'[p])
        /\ Distinct(frames[p]) => Distinct(frames'[p]) /\ h \notin ToSet(frames'[p])
    BY <1>2, <1>3, HeadTailDistinct
  <2>2. QED
    BY <1>1, <1>3, <2>1, PrependDistinct
<1>5. "frames" \notin raced =>
        /\ hold[p] = free
        /\ \A q \in Procs \ {p} : pc[q] \notin AtFree
  BY <1>1 DEF IInv, Safe, FreeHead, AtFree
<1>6. FreeHead'
  BY <1>1, <1>2, <1>5 DEF FreeHead, AtFree
<1>7. FifoHead' /\ PageInv' /\ ListInv' /\ OnlineInv'
  BY <1>1, <1>2, FramesOnly
<1>8. /\ \A f : Has(p, f) <=> Has(p, f)' \/ f = h
      /\ \A q \in Procs \ {p} : \A f : Has(q, f)' <=> Has(q, f)
      /\ \A f : InHand(p, f) <=> InHand(p, f)' \/ f = h
      /\ \A q \in Procs \ {p} : \A f : InHand(q, f)' <=> InHand(q, f)
  BY <1>1, <1>2, <1>4 DEF Has, InHand
<1> HIDE DEF h
<1>9. ASSUME "frames" \notin raced
      PROVE  /\ Distinct(free') /\ Distinct(frames'[p])
             /\ h \notin ToSet(free)
             /\ ToSet(free') = {h} \cup ToSet(free)
             /\ \A q \in Procs, f \in Frames : Has(q, f)' => f # h
  <2>1. h \notin ToSet(free) /\ Distinct(free) /\ Distinct(frames[p])
    BY <1>4, <1>8, <1>9 DEF IInv, Safe, FreeInv
  <2>2. \A f : Has(p, f)' => f # h
    BY <1>2, <1>4, <2>1 DEF Has
  <2>3. \A q \in Procs \ {p}, f \in Frames : Has(q, f)' => f # h
    BY <1>4, <1>8, <1>9 DEF IInv, Safe, FreeInv
  <2>4. QED
    BY <1>4, <1>5, <1>9, <2>1, <2>2, <2>3
<1>10. FreeInv'
  <2> SUFFICES ASSUME "frames" \notin raced
               PROVE  /\ Distinct(free')
                      /\ \A q \in Procs : /\ Distinct(frames'[q])
                                          /\ pc'[q] = "free"
                                               => Head(hold[q]) \notin ToSet(frames'[q])
                      /\ \A q \in Procs, f \in Frames : Has(q, f)' => f \notin ToSet(free')
                      /\ \A q, r \in Procs, f \in Frames : Has(q, f)' /\ Has(r, f)' => q = r
    BY <1>1 DEF FreeInv
  <2>1. /\ \A q \in Procs : /\ Distinct(frames[q])
                            /\ pc[q] = "free" => Head(hold[q]) \notin ToSet(frames[q])
        /\ \A q \in Procs, f \in Frames : Has(q, f) => f \notin ToSet(free)
        /\ \A q, r \in Procs, f \in Frames : Has(q, f) /\ Has(r, f) => q = r
    BY DEF IInv, Safe, FreeInv
  <2>2. \A q \in Procs, f \in Frames : Has(q, f)' => f \notin ToSet(free')
    BY <1>8, <1>9, <2>1
  <2>3. \A q, r \in Procs, f \in Frames : Has(q, f)' /\ Has(r, f)' => q = r
    BY <1>8, <2>1
  <2>4. QED
    BY <1>2, <1>9, <2>1, <2>2, <2>3
<1>11. FrameInv'
  <2>1. CASE raced \cap {"frames", "page"} # {}
    BY <1>1, <2>1 DEF FrameInv
  <2>2. CASE raced \cap {"frames", "page"} = {}
    <3>1. Online' = Online /\ \A g : FrameOf(g)' = FrameOf(g)
      BY <1>1 DEF Online, FrameOf
    <3>2. /\ \A g, k \in Online : FrameOf(g) = FrameOf(k) => g = k
          /\ \A g \in Online : /\ FrameOf(g) \in Frames
                               /\ FrameOf(g) \notin ToSet(free)
                               /\ \A q \in Procs : ~InHand(q, FrameOf(g))
          /\ \A q \in Procs : pc[q] = "give" => /\ op[q].fpn \in Frames
                                                /\ op[q].fpn \notin ToSet(free)
                                                /\ \A r \in Procs : ~Has(r, op[q].fpn)
          /\ \A f \in Frames : \/ f \in ToSet(free)
                               \/ \E q \in Procs : InHand(q, f)
                               \/ \E g \in Online : FrameOf(g) = f
      BY <1>1, <2>2 DEF IInv, Safe, FrameInv
    <3>3. "frames" \notin raced
      BY <2>2
    <3>4. \A g \in Online : /\ FrameOf(g) \notin ToSet(free')
                            /\ \A q \in Procs : ~InHand(q, FrameOf(g))'
      <4>1. \A g \in Online : FrameOf(g) # h
        BY <1>8, <3>2
      <4>2. QED
        BY <1>8, <1>9, <3>1, <3>2, <3>3, <4>1
    <3>5. \A q \in Procs : pc'[q] = "give" => /\ op[q].fpn \in Frames
                                              /\ op[q].fpn \notin ToSet(free')
                                              /\ \A r \in Procs : ~Has(r, op[q].fpn)'
      <4>1. \A q \in Procs : pc[q] = "give" => op[q].fpn # h
        BY <1>8, <3>2
      <4>2. QED
        BY <1>1, <1>2, <1>8, <1>9, <3>2, <3>3, <4>1
    <3>6. \A f \in Frames : \/ f \in ToSet(free')
                            \/ \E q \in Procs : InHand(q, f)'
                            \/ \E g \in Online : FrameOf(g) = f
      BY <1>8, <1>9, <3>2, <3>3
    <3>7. QED
      BY <1>1, <3>1, <3>2, <3>4, <3>5, <3>6 DEF FrameInv
  <2>3. QED
    BY <2>1, <2>2
<1>12. QED
  BY <1>1, <1>6, <1>7, <1>10, <1>11, FreedKept DEF Safe

-----------------------------------------------------------------------------
(* The entries of the page table. *)

(* A process maps a page to frame F, which only it has. *)
LEMMA MapStep ==
  ASSUME IInv, NEW p \in Procs, NEW F \in Nat,
         ~undefined, pc[p] \in {"set", "give"}, pc'[p] = "enlist",
         \A q \in Procs \ {p} : pc'[q] = pc[q] /\ frames'[q] = frames[q],
         op[p].pgn \in Pgns,
         pte' = [pte EXCEPT ![op[p].pgn] = SetFpn(pte[op[p].pgn], F)],
         UNCHANGED <<free, fifo, op, hold, next_pgn, raced, passed, undefined>>,
         \A f : InHand(p, f) <=> InHand(p, f)' \/ f = F,
         \A f : Has(p, f)' => Has(p, f),
         raced \cap {"frames", "page"} = {} =>
           /\ F \in Frames
           /\ \A f \in Frames : InHand(p, f)' => f # F
           /\ F \notin ToSet(free)
           /\ \A q \in Procs \ {p} : ~InHand(q, F)
  PROVE  /\ FreeHead' /\ FifoHead' /\ FreedOnlyByRace'
         /\ PageInv' /\ ListInv' /\ FrameInv' /\ OnlineInv'
<1> DEFINE g == op[p].pgn
<1>1. /\ g \in Pgns /\ pte \in [Pgns -> Entry] /\ g \in Own(p)
      /\ g < next_pgn
  <2>1. op[p].n # 0
    BY DEF IInv, LocalInv, LocalOf
  <2>2. QED
    BY <2>1, OwnBelow DEF IInv, TypeOK
<1>2. /\ F \in Frames => PAGING_FPN(pte'[g]) = F
      /\ pte'[g].present /\ ~pte'[g].swapped
      /\ \A k \in Pgns \ {g} : pte'[k] = pte[k]
  <2>1. pte'[g] = SetFpn(pte[g], F) /\ pte[g] \in Entry
    BY <1>1
  <2>2. pte'[g].present /\ ~pte'[g].swapped
    BY <2>1 DEF SetFpn
  <2>3. QED
    BY <1>1, <2>1, <2>2, FpnOfSet
<1>3. Online' = Online \cup {g}
  BY <1>1, <1>2 DEF Online
<1>4. \A q \in Procs : Own(q)' = Own(q)
  BY DEF Own
<1>5. /\ \A k : IsEntering(p, k)' <=> k = g
      /\ \A k : ~IsEntering(p, k)
      /\ \A q \in Procs \ {p} : \A k : IsEntering(q, k)' = IsEntering(q, k)
  BY DEF IsEntering
<1>6. FreeHead' /\ FifoHead'
  BY FreeHeadKept, FifoHeadKept DEF IInv, Safe, AtFree, AtFifo
<1>7. g \in Pgns /\ g' = g
  BY <1>1
<1> HIDE DEF g
<1>8. ASSUME "page" \notin raced
      PROVE  /\ \A q, r \in Procs : q # r => Own(q) \cap Own(r) = {}
             /\ \A k \in Own(p) : ~pte[k].present
             /\ \A q \in Procs : \A k \in Own(q) : IF IsEntering(q, k) THEN k \in Online
                                                   ELSE ~pte[k].present
             /\ \A k \in Pgns : pte[k].present => k < next_pgn
  BY <1>5, <1>8 DEF IInv, Safe, PageInv
<1>9. PageInv'
  <2> SUFFICES ASSUME "page" \notin raced
               PROVE  /\ \A q, r \in Procs : q # r => Own(q) \cap Own(r) = {}
                      /\ \A q \in Procs : \A k \in Own(q) : IF IsEntering(q, k)' THEN k \in Online'
                                                            ELSE ~pte'[k].present
                      /\ \A k \in Pgns : pte'[k].present => k < next_pgn
    BY <1>4 DEF PageInv
  <2>1. ASSUME NEW q \in Procs, NEW k \in Own(q)
        PROVE  IF IsEntering(q, k)' THEN k \in Online' ELSE ~pte'[k].present
    <3>1. k \in Pgns
      BY OwnBelow DEF IInv
    <3>2. CASE q = p
      BY <1>2, <1>3, <1>5, <1>8, <3>1, <3>2
    <3>3. CASE q # p
      <4>1. k # g
        BY <1>1, <1>8, <3>3
      <4>2. pte'[k] = pte[k] /\ (k \in Online => k \in Online')
        BY <1>2, <1>3, <3>1, <4>1
      <4>3. IsEntering(q, k)' = IsEntering(q, k)
        BY <1>5, <3>3
      <4>4. QED
        BY <1>8, <4>2, <4>3
    <3>4. QED
      BY <3>2, <3>3
  <2>2. \A k \in Pgns : pte'[k].present => k < next_pgn
    BY <1>1, <1>2, <1>8
  <2>3. QED
    BY <1>8, <2>1, <2>2
<1>10. ListInv'
  <2>1. Lists' \subseteq Lists
    BY ListsKept DEF AtFifo
  <2>2. QED
    BY <1>3, <1>4, <2>1, ListKept DEF IInv, Safe
<1>11. OnlineInv'
  <2> SUFFICES ASSUME "fifo" \notin raced, NEW k \in Online'
               PROVE  \/ k \in ToSet(fifo) \cup passed
                      \/ \E q \in Procs : \/ pc'[q] = "evict" /\ op[q].victim = k
                                          \/ IsEntering(q, k)'
    BY DEF OnlineInv
  <2>1. CASE k = g
    BY <1>5, <2>1
  <2>2. CASE k # g
    <3>1. \/ k \in ToSet(fifo) \cup passed
          \/ \E q \in Procs : \/ pc[q] = "evict" /\ op[q].victim = k
                              \/ IsEntering(q, k)
      BY <1>3, <2>2 DEF IInv, Safe, OnlineInv
    <3>2. QED
      BY <1>5, <3>1
  <2>3. QED
    BY <2>1, <2>2
<1>12. FrameInv'
  <2> SUFFICES ASSUME raced \cap {"frames", "page"} = {} PROVE FrameInv'
    BY DEF FrameInv
  <2>1. /\ \A i, k \in Online : FrameOf(i) = FrameOf(k) => i = k
        /\ \A i \in Online : /\ FrameOf(i) \in Frames
                             /\ FrameOf(i) \notin ToSet(free)
                             /\ \A q \in Procs : ~InHand(q, FrameOf(i))
        /\ \A q \in Procs : pc[q] = "give" => /\ op[q].fpn \in Frames
                                              /\ op[q].fpn \notin ToSet(free)
                                              /\ \A r \in Procs : ~Has(r, op[q].fpn)
        /\ \A f \in Frames : \/ f \in ToSet(free)
                             \/ \E q \in Procs : InHand(q, f)
                             \/ \E i \in Online : FrameOf(i) = f
    BY DEF IInv, Safe, FrameInv
  <2>2. ~pte[g].present /\ g \notin Online
    BY <1>1, <1>8 DEF Online
  <2>3. /\ \A f : InHand(p, f)' => InHand(p, f)
        /\ InHand(p, F)
        /\ \A q \in Procs \ {p} : \A f : InHand(q, f)' = InHand(q, f)
        /\ \A q \in Procs : \A f : Has(q, f)' => Has(q, f)
    BY DEF InHand, Has
  <2>4. PAGING_FPN(pte'[g]) = F /\ \A i \in Online : pte'[i] = pte[i]
    BY <1>2, <2>2 DEF Online
  <2>5. \A i, k \in Online' : PAGING_FPN(pte'[i]) = PAGING_FPN(pte'[k]) => i = k
    BY <1>3, <2>1, <2>3, <2>4 DEF FrameOf
  <2>6. ASSUME NEW i \in Online'
        PROVE  /\ PAGING_FPN(pte'[i]) \in Frames
               /\ PAGING_FPN(pte'[i]) \notin ToSet(free)
               /\ \A q \in Procs, f \in Frames : InHand(q, f)' => PAGING_FPN(pte'[i]) # f
    <3>1. CASE i = g
      BY <2>3, <2>4, <3>1
    <3>2. CASE i # g
      <4>1. i \in Online /\ PAGING_FPN(pte'[i]) = FrameOf(i)
        BY <1>3, <2>4, <3>2 DEF FrameOf
      <4>2. QED
        BY <2>1, <2>3, <4>1
    <3>3. QED
      BY <3>1, <3>2
  <2>7. \A q \in Procs : pc'[q] = "give" => /\ op[q].fpn \in Frames
                                            /\ op[q].fpn \notin ToSet(free)
                                            /\ \A r \in Procs : ~Has(r, op[q].fpn)'
    <3>1. \A q \in Procs : pc'[q] = "give" => pc[q] = "give"
      OBVIOUS
    <3>2. QED
      BY <2>1, <2>3, <3>1
  <2>8. \A f \in Frames : \/ f \in ToSet(free)
                          \/ \E q \in Procs : InHand(q, f)'
                          \/ \E i \in Online' : PAGING_FPN(pte'[i]) = f
    <3>1. \A i \in Online : i \in Online' /\ PAGING_FPN(pte'[i]) = FrameOf(i)
      BY <1>3, <2>4 DEF FrameOf
    <3>2. \A f : (\E q \in Procs : InHand(q, f)) => f = F \/ \E q \in Procs : InHand(q, f)'
      BY <2>3
    <3>3. \E i \in Online' : PAGING_FPN(pte'[i]) = F
      BY <1>3, <2>4
    <3>4. QED
      BY <2>1, <3>1, <3>2, <3>3
  <2>9. QED
    BY <2>5, <2>6, <2>7, <2>8 DEF FrameInv, FrameOf
<1>13. QED
  BY <1>6, <1>9, <1>10, <1>11, <1>12, FreedKept

(* mmvm_lock admits one fault at a time. *)
LEMMA OneFault ==
  ASSUME LocalInv, NEW p \in Procs, NEW q \in Procs,
         pc[p] \in {"victim", "unlink", "evict", "give"},
         pc[q] \in {"victim", "unlink", "evict", "give"}
  PROVE  p = q
BY DEF LocalInv, LocalOf

(* A growth maps its page to a frame that it has got. *)
LEMMA SetPageStep ==
  ASSUME IInv, NEW p \in Procs, SetPage(p)
  PROVE  Safe'
<1> DEFINE F == Head(frames[p])
<1>1. /\ ~undefined /\ pc[p] = "set" /\ pc' = [pc EXCEPT ![p] = "enlist"]
      /\ pte' = [pte EXCEPT ![op[p].pgn] = SetFpn(pte[op[p].pgn], F)]
      /\ frames' = [frames EXCEPT ![p] = Tail(frames[p])]
      /\ UNCHANGED <<free, fifo, op, hold, next_pgn, raced, passed, undefined>>
  BY DEF SetPage, At, Goto, lists
<1>2. /\ pc'[p] = "enlist" /\ frames'[p] = Tail(frames[p])
      /\ \A q \in Procs \ {p} : pc'[q] = pc[q] /\ frames'[q] = frames[q]
  BY <1>1 DEF IInv, TypeOK
<1>3. frames[p] \in Seq(Frames) /\ frames[p] # <<>>
  <2>1. op[p].n # 0 /\ Len(frames[p]) = op[p].n /\ frames[p] \in Seq(Frames)
    BY <1>1, OfProcess DEF IInv, LocalInv, LocalOf
  <2>2. QED
    BY <2>1, EmptySeq
<1>4. /\ F \in Frames
      /\ ToSet(frames[p]) = {F} \cup ToSet(frames'[p])
      /\ Distinct(frames[p]) => Distinct(frames'[p]) /\ F \notin ToSet(frames'[p])
  BY <1>2, <1>3, HeadTailDistinct
<1>5. op[p].pgn \in Pgns
  BY SetPageTypes DEF IInv
<1>6. /\ \A f : InHand(p, f) <=> InHand(p, f)' \/ f = F
      /\ \A q \in Procs : \A f : Has(q, f)' => Has(q, f)
      /\ Has(p, F)
      /\ \A f : InHand(p, f)' <=> f \in ToSet(frames'[p])
  BY <1>1, <1>2, <1>4 DEF InHand, Has
<1> HIDE DEF F
<1>7. ASSUME "frames" \notin raced
      PROVE  /\ Distinct(free) /\ \A q \in Procs : Distinct(frames[q])
             /\ \A q \in Procs : pc[q] = "free" => Head(hold[q]) \notin ToSet(frames[q])
             /\ \A q \in Procs, f \in Frames : Has(q, f) => f \notin ToSet(free)
             /\ \A q, r \in Procs, f \in Frames : Has(q, f) /\ Has(r, f) => q = r
  BY <1>7 DEF IInv, Safe, FreeInv
<1>8. ASSUME raced \cap {"frames", "page"} = {}
      PROVE  /\ \A f \in Frames : InHand(p, f)' => f # F
             /\ F \notin ToSet(free)
             /\ \A q \in Procs \ {p} : ~InHand(q, F)
  <2>1. \A f \in Frames : InHand(p, f)' => f # F
    BY <1>4, <1>6, <1>7, <1>8
  <2>2. F \notin ToSet(free)
    BY <1>4, <1>6, <1>7, <1>8
  <2>3. \A q \in Procs \ {p} : ~Has(q, F)
    BY <1>4, <1>6, <1>7, <1>8
  <2>4. \A q \in Procs : pc[q] = "give" => op[q].fpn # F
    BY <1>1, <1>6, <1>8 DEF IInv, Safe, FrameInv
  <2>5. QED
    BY <2>1, <2>2, <2>3, <2>4 DEF InHand, Has
<1>9. /\ FreeHead' /\ FifoHead' /\ FreedOnlyByRace'
      /\ PageInv' /\ ListInv' /\ FrameInv' /\ OnlineInv'
  BY <1>1, <1>2, <1>4, <1>5, <1>6, <1>8, Bounds, MapStep
<1>10. FreeInv'
  <2> SUFFICES ASSUME "frames" \notin raced
               PROVE  /\ Distinct(free)
                      /\ \A q \in Procs : /\ Distinct(frames'[q])
                                          /\ pc'[q] = "free"
                                               => Head(hold[q]) \notin ToSet(frames'[q])
                      /\ \A q \in Procs, f \in Frames : Has(q, f)' => f \notin ToSet(free)
                      /\ \A q, r \in Procs, f \in Frames : Has(q, f)' /\ Has(r, f)' => q = r
    BY <1>1 DEF FreeInv
  <2>1. \A q \in Procs : /\ Distinct(frames'[q])
                         /\ pc'[q] = "free" => Head(hold[q]) \notin ToSet(frames'[q])
    BY <1>2, <1>4, <1>7
  <2>2. QED
    BY <1>6, <1>7, <2>1
<1>11. QED
  BY <1>9, <1>10 DEF Safe

(* A fault maps its page to the frame of the victim. *)
LEMMA GiveStep ==
  ASSUME IInv, NEW p \in Procs, Give(p)
  PROVE  Safe'
<1> DEFINE F == op[p].fpn
<1>1. /\ ~undefined /\ pc[p] = "give" /\ pc' = [pc EXCEPT ![p] = "enlist"]
      /\ pte' = [pte EXCEPT ![op[p].pgn] = SetFpn(pte[op[p].pgn], F)]
      /\ UNCHANGED <<free, fifo, op, hold, frames, next_pgn, raced, passed, undefined>>
  BY DEF Give, At, Goto, lists
<1>2. pc'[p] = "enlist" /\ \A q \in Procs \ {p} : pc'[q] = pc[q]
  BY <1>1 DEF IInv, TypeOK
<1>3. op[p].pgn \in Pgns
  BY GiveTypes DEF IInv
<1>4. /\ \A f : InHand(p, f) <=> InHand(p, f)' \/ f = F
      /\ \A f : Has(p, f)' => Has(p, f)
      /\ \A f : InHand(p, f)' => Has(p, f)
  BY <1>1, <1>2 DEF InHand, Has
<1>5. FreeHead' /\ FifoHead' /\ FreedOnlyByRace'
  BY <1>1, <1>2, FreeHeadKept, FifoHeadKept, FreedKept DEF IInv, Safe, AtFree, AtFifo
<1>6. FreeInv'
  BY <1>1, <1>2, FreeKept DEF IInv, Safe
<1>7. ASSUME raced \cap {"frames", "page"} = {}
      PROVE  /\ F \in Frames
             /\ \A f \in Frames : InHand(p, f)' => f # F
             /\ F \notin ToSet(free)
             /\ \A q \in Procs \ {p} : ~InHand(q, F)
  <2>1. F \in Frames /\ F \notin ToSet(free) /\ \A q \in Procs : ~Has(q, F)
    BY <1>1, <1>7 DEF IInv, Safe, FrameInv
  <2>2. \A q \in Procs \ {p} : pc[q] # "give"
    BY <1>1, OneFault DEF IInv
  <2>3. \A q \in Procs \ {p} : ~InHand(q, F)
    BY <2>1, <2>2 DEF InHand, Has
  <2>4. QED
    BY <1>4, <2>1, <2>3
<1>8. F \in Nat
  BY OfProcess DEF IInv
<1>9. PageInv' /\ ListInv' /\ FrameInv' /\ OnlineInv'
  <2> HIDE DEF F
  <2>1. QED
    BY <1>1, <1>2, <1>3, <1>4, <1>7, <1>8, MapStep
<1>10. QED
  BY <1>5, <1>6, <1>9 DEF Safe

(* The victim leaves the RAM, and its frame is with the fault. *)
LEMMA EvictStep ==
  ASSUME IInv, NEW p \in Procs, Evict(p)
  PROVE  Safe'
<1> DEFINE v == op[p].victim
<1>1. /\ ~undefined /\ pc[p] = "evict" /\ pc' = [pc EXCEPT ![p] = "give"]
      /\ op' = [op EXCEPT ![p] = [op[p] EXCEPT !.fpn = PAGING_FPN(pte[v])]]
      /\ pte' = [pte EXCEPT ![v] = SetSwap(Head(swap_free))]
      /\ UNCHANGED <<free, fifo, hold, frames, next_pgn, raced, passed, undefined>>
  BY DEF Evict, At, Goto
<1>2. pc'[p] = "give" /\ \A q \in Procs \ {p} : pc'[q] = pc[q] /\ op'[q] = op[q]
  BY <1>1 DEF IInv, TypeOK
<1>3. /\ op'[p].kind = op[p].kind /\ op'[p].pgn = op[p].pgn /\ op'[p].n = op[p].n
      /\ op'[p].victim = v /\ op'[p].fpn = FrameOf(v)
  <2>1. op[p] \in OpType /\ op'[p] = [op[p] EXCEPT !.fpn = PAGING_FPN(pte[v])]
    BY <1>1, OfProcess DEF IInv, TypeOK
  <2>2. QED
    BY <2>1 DEF OpType, FrameOf
<1>4. /\ v \in Pgns /\ pte'[v].present /\ pte'[v].swapped
      /\ \A k \in Pgns \ {v} : pte'[k] = pte[k]
  <2>1. v \in Pgns /\ pte \in [Pgns -> Entry]
    BY OfProcess DEF IInv, TypeOK
  <2>2. pte'[v] = SetSwap(Head(swap_free)) /\ \A k \in Pgns \ {v} : pte'[k] = pte[k]
    BY <1>1, <2>1
  <2>3. QED
    BY <2>1, <2>2 DEF SetSwap
<1>5. Online' = Online \ {v}
  BY <1>4 DEF Online
<1> HIDE DEF v
<1>6. \A q \in Procs : Own(q)' = Own(q)
  BY <1>2, <1>3 DEF Own
<1>7. /\ \A k : ~IsEntering(p, k) /\ ~IsEntering(p, k)'
      /\ \A q \in Procs \ {p} : \A k : IsEntering(q, k)' = IsEntering(q, k)
  BY <1>1, <1>2 DEF IsEntering
<1>8. FreeHead' /\ FifoHead' /\ FreeInv'
  BY <1>1, <1>2, FreeHeadKept, FifoHeadKept, FreeKept DEF IInv, Safe, AtFree, AtFifo
<1>9. ASSUME "page" \notin raced
      PROVE  /\ v \in Online
             /\ \A s \in Lists : v \notin ToSet(s)
             /\ \A q \in Procs : v \notin Own(q)
  BY <1>1, <1>9 DEF IInv, Safe, ListInv, v
<1>10. PageInv'
  <2> SUFFICES ASSUME "page" \notin raced
               PROVE  /\ \A q, r \in Procs : q # r => Own(q) \cap Own(r) = {}
                      /\ \A q \in Procs : \A k \in Own(q) : IF IsEntering(q, k)' THEN k \in Online'
                                                            ELSE ~pte'[k].present
                      /\ \A k \in Pgns : pte'[k].present => k < next_pgn
    BY <1>1, <1>6 DEF PageInv
  <2>1. /\ \A q, r \in Procs : q # r => Own(q) \cap Own(r) = {}
        /\ \A q \in Procs : \A k \in Own(q) : IF IsEntering(q, k) THEN k \in Online
                                              ELSE ~pte[k].present
        /\ \A k \in Pgns : pte[k].present => k < next_pgn
    BY <1>1 DEF IInv, Safe, PageInv
  <2>2. \A q \in Procs : \A k \in Own(q) : k \in Pgns \ {v}
    BY <1>9, OwnBelow DEF IInv
  <2>3. \A q \in Procs : \A k \in Own(q) : IF IsEntering(q, k)' THEN k \in Online'
                                           ELSE ~pte'[k].present
    BY <1>4, <1>5, <1>7, <2>1, <2>2
  <2>4. \A k \in Pgns : pte'[k].present => k < next_pgn
    BY <1>4, <1>9, <2>1 DEF Online
  <2>5. QED
    BY <2>1, <2>3, <2>4
<1>11. ListInv'
  <2> SUFFICES ASSUME "page" \notin raced
               PROVE  /\ \A s \in Lists' : /\ Distinct(s) /\ ToSet(s) \subseteq Online'
                                           /\ \A q \in Procs : Own(q)' \cap ToSet(s) = {}
                      /\ \A s, t \in Lists' : SameNext(s, t)
                      /\ \A q \in Procs : pc'[q] # "evict"
    BY <1>1 DEF ListInv
  <2>1. Lists' \subseteq Lists
    BY <1>1, <1>2, ListsKept DEF AtFifo
  <2>2. /\ \A s \in Lists : /\ Distinct(s) /\ ToSet(s) \subseteq Online
                            /\ \A q \in Procs : Own(q) \cap ToSet(s) = {}
        /\ \A s, t \in Lists : SameNext(s, t)
    BY <1>1 DEF IInv, Safe, ListInv
  <2>3. \A q \in Procs : pc'[q] # "evict"
    BY <1>1, <1>2, OneFault DEF IInv
  <2>4. QED
    BY <1>5, <1>6, <1>9, <2>1, <2>2, <2>3
<1>12. OnlineInv'
  <2> SUFFICES ASSUME "fifo" \notin raced, NEW k \in Online'
               PROVE  \/ k \in ToSet(fifo) \cup passed
                      \/ \E q \in Procs : \/ pc'[q] = "evict" /\ op'[q].victim = k
                                          \/ IsEntering(q, k)'
    BY <1>1 DEF OnlineInv
  <2>1. k \in Online /\ k # v
    BY <1>5
  <2>2. \/ k \in ToSet(fifo) \cup passed
        \/ \E q \in Procs : \/ pc[q] = "evict" /\ op[q].victim = k
                            \/ IsEntering(q, k)
    BY <1>1, <2>1 DEF IInv, Safe, OnlineInv
  <2>3. QED
    BY <1>2, <1>7, <2>1, <2>2 DEF v
<1>13. FrameInv'
  <2> SUFFICES ASSUME raced \cap {"frames", "page"} = {} PROVE FrameInv'
    BY <1>1 DEF FrameInv
  <2>1. /\ \A i, k \in Online : FrameOf(i) = FrameOf(k) => i = k
        /\ \A i \in Online : /\ FrameOf(i) \in Frames
                             /\ FrameOf(i) \notin ToSet(free)
                             /\ \A q \in Procs : ~InHand(q, FrameOf(i))
        /\ \A f \in Frames : \/ f \in ToSet(free)
                             \/ \E q \in Procs : InHand(q, f)
                             \/ \E i \in Online : FrameOf(i) = f
    BY <1>1 DEF IInv, Safe, FrameInv
  <2>2. v \in Online
    BY <1>9
  <2>3. \A i \in Online' : i \in Online /\ i # v /\ PAGING_FPN(pte'[i]) = FrameOf(i)
    BY <1>4, <1>5 DEF FrameOf, Online
  <2>4. /\ \A q \in Procs : \A f : Has(q, f)' = Has(q, f)
        /\ \A q \in Procs \ {p} : \A f : InHand(q, f)' = InHand(q, f)
        /\ \A f : InHand(p, f)' <=> InHand(p, f) \/ f = FrameOf(v)
    BY <1>1, <1>2, <1>3 DEF Has, InHand
  <2>5. \A q \in Procs : \A f : Has(q, f) => InHand(q, f)
    BY DEF Has, InHand
  <2>6. \A i, k \in Online' : PAGING_FPN(pte'[i]) = PAGING_FPN(pte'[k]) => i = k
    BY <2>1, <2>3
  <2>7. \A i \in Online' : /\ PAGING_FPN(pte'[i]) \in Frames
                           /\ PAGING_FPN(pte'[i]) \notin ToSet(free)
                           /\ \A q \in Procs, f \in Frames : InHand(q, f)'
                                => PAGING_FPN(pte'[i]) # f
    BY <2>1, <2>2, <2>3, <2>4
  <2>8. \A q \in Procs : pc'[q] = "give" => /\ op'[q].fpn \in Frames
                                            /\ op'[q].fpn \notin ToSet(free)
                                            /\ \A r \in Procs, f \in Frames : Has(r, f)'
                                                 => op'[q].fpn # f
    <3>1. \A q \in Procs : pc'[q] = "give" => q = p
      BY <1>1, <1>2, OneFault DEF IInv
    <3>2. QED
      BY <1>3, <2>1, <2>2, <2>4, <2>5, <3>1
  <2>9. \A f \in Frames : \/ f \in ToSet(free)
                          \/ \E q \in Procs : InHand(q, f)'
                          \/ \E i \in Online' : PAGING_FPN(pte'[i]) = f
    <3>1. \A i \in Online \ {v} : i \in Online' /\ PAGING_FPN(pte'[i]) = FrameOf(i)
      BY <1>5, <2>3
    <3>2. QED
      BY <2>1, <2>4, <3>1
  <2>10. QED
    BY <1>1, <2>6, <2>7, <2>8, <2>9 DEF FrameInv, FrameOf
<1>14. QED
  BY <1>1, <1>8, <1>10, <1>11, <1>12, <1>13, FreedKept DEF Safe

(* The victim stays in RAM, and is noted as passed over. *)
LEMMA NoSwapStep ==
  ASSUME IInv, NEW p \in Procs, NoSwap(p)
  PROVE  Safe'
<1>1. /\ ~undefined /\ pc[p] = "evict" /\ pc' = [pc EXCEPT ![p] = "run"]
      /\ op' = [op EXCEPT ![p] = NoOp]
      /\ passed' = passed \cup {op[p].victim}
      /\ UNCHANGED <<lists, hold, frames, pte, next_pgn, raced, undefined>>
  BY DEF NoSwap, At, Goto, Return
<1>2. /\ pc'[p] = "run" /\ op'[p] = NoOp
      /\ \A q \in Procs \ {p} : pc'[q] = pc[q] /\ op'[q] = op[q]
  BY <1>1 DEF IInv, TypeOK
<1>3. Own(p)' = {} /\ \A q \in Procs \ {p} : Own(q)' = Own(q)
  BY <1>2, NoneOwned DEF Own
<1>4. /\ \A k : ~IsEntering(p, k) /\ ~IsEntering(p, k)'
      /\ \A q \in Procs \ {p} : \A k : IsEntering(q, k)' = IsEntering(q, k)
  BY <1>1, <1>2 DEF IsEntering
<1>5. Online' = Online
  BY <1>1 DEF Online
<1>6. FreeHead' /\ FifoHead' /\ FreeInv' /\ FrameInv'
  BY <1>1, <1>2, FreeHeadKept, FifoHeadKept, FreeKept, FrameKept
  DEF IInv, Safe, AtFree, AtFifo, lists
<1>7. PageInv'
  BY <1>1, <1>3, <1>4, PageKept DEF IInv, Safe
<1>8. ListInv'
  <2>1. Lists' \subseteq Lists
    BY <1>1, <1>2, ListsKept DEF AtFifo, lists
  <2>2. QED
    BY <1>1, <1>2, <1>3, <1>5, <2>1, ListKept DEF IInv, Safe
<1>9. OnlineInv'
  BY <1>1, <1>2, <1>4, <1>5 DEF IInv, Safe, OnlineInv, lists
<1>10. QED
  BY <1>1, <1>6, <1>7, <1>8, <1>9, FreedKept DEF Safe

-----------------------------------------------------------------------------
(* The start of a call: it owns pages that nobody else does, not present. *)

(* What the start of every call keeps. *)
LEMMA CallStep ==
  ASSUME IInv, NEW p \in Procs, ~undefined, pc[p] = "run", pc'[p] \in {"get", "victim"},
         \A q \in Procs \ {p} : pc'[q] = pc[q] /\ op'[q] = op[q],
         UNCHANGED <<lists, hold, frames, pte, passed, undefined>>,
         raced \subseteq raced', next_pgn \in Nat, next_pgn' \in Nat, next_pgn <= next_pgn',
         "page" \notin raced' =>
           \A g \in Own(p)' : /\ g \in Pgns /\ ~pte[g].present
                              /\ \A q \in Procs \ {p} : g \notin Own(q)
  PROVE  Safe'
<1>1. \A q \in Procs \ {p} : Own(q)' = Own(q)
  BY DEF Own
<1>2. /\ \A k : ~IsEntering(p, k) /\ ~IsEntering(p, k)'
      /\ \A q \in Procs \ {p} : \A k : IsEntering(q, k)' = IsEntering(q, k)
  BY DEF IsEntering
<1>3. Online' = Online
  BY DEF Online
<1>4. FreeHead' /\ FifoHead' /\ FreeInv' /\ FrameInv'
  BY FreeHeadKept, FifoHeadKept, FreeKept, FrameKept
  DEF IInv, Safe, AtFree, AtFifo, lists
<1>5. OnlineInv'
  BY <1>3, OnlineKept DEF IInv, Safe, lists
<1>6. PageInv'
  <2> SUFFICES ASSUME "page" \notin raced'
               PROVE  /\ \A q, r \in Procs : q # r => Own(q)' \cap Own(r)' = {}
                      /\ \A q \in Procs : \A k \in Own(q)' : IF IsEntering(q, k)' THEN k \in Online'
                                                             ELSE ~pte'[k].present
                      /\ \A k \in Pgns : pte'[k].present => k < next_pgn'
    BY DEF PageInv
  <2>1. /\ \A q, r \in Procs : q # r => Own(q) \cap Own(r) = {}
        /\ \A q \in Procs : \A k \in Own(q) : IF IsEntering(q, k) THEN k \in Online
                                              ELSE ~pte[k].present
        /\ \A k \in Pgns : pte[k].present => k < next_pgn
    BY DEF IInv, Safe, PageInv
  <2>2. \A q, r \in Procs : q # r => Own(q)' \cap Own(r)' = {}
    BY <1>1, <2>1
  <2>3. \A q \in Procs : \A k \in Own(q)' : IF IsEntering(q, k)' THEN k \in Online'
                                            ELSE ~pte'[k].present
    BY <1>1, <1>2, <1>3, <2>1
  <2>4. \A k \in Pgns : pte'[k].present => k < next_pgn'
    <3>1. \A k \in Pgns : k \in Nat
      BY Bounds
    <3>2. \A k \in Nat : k < next_pgn => k < next_pgn'
      OBVIOUS
    <3>3. QED
      BY <2>1, <3>1, <3>2
  <2>5. QED
    BY <2>2, <2>3, <2>4
<1>7. ListInv'
  <2> SUFFICES ASSUME "page" \notin raced'
               PROVE  /\ \A s \in Lists' : /\ Distinct(s) /\ ToSet(s) \subseteq Online'
                                           /\ \A q \in Procs : Own(q)' \cap ToSet(s) = {}
                      /\ \A s, t \in Lists' : SameNext(s, t)
                      /\ \A q \in Procs :
                           pc'[q] = "evict" => /\ op'[q].victim \in Online'
                                               /\ \A s \in Lists' : op'[q].victim \notin ToSet(s)
                                               /\ \A r \in Procs : op'[q].victim \notin Own(r)'
    BY DEF ListInv
  <2>1. Lists' \subseteq Lists
    BY ListsKept DEF AtFifo, lists
  <2>2. /\ \A s \in Lists : /\ Distinct(s) /\ ToSet(s) \subseteq Online
                            /\ \A q \in Procs : Own(q) \cap ToSet(s) = {}
        /\ \A s, t \in Lists : SameNext(s, t)
        /\ \A q \in Procs :
             pc[q] = "evict" => /\ op[q].victim \in Online
                                /\ \A s \in Lists : op[q].victim \notin ToSet(s)
                                /\ \A r \in Procs : op[q].victim \notin Own(r)
    BY DEF IInv, Safe, ListInv
  <2>3. \A k \in Own(p)' : k \notin Online
    BY DEF Online
  <2>4. \A s \in Lists' : /\ Distinct(s) /\ ToSet(s) \subseteq Online'
                          /\ \A q \in Procs : Own(q)' \cap ToSet(s) = {}
    BY <1>1, <1>3, <2>1, <2>2, <2>3
  <2>5. \A q \in Procs :
           pc'[q] = "evict" => /\ op'[q].victim \in Online'
                               /\ \A s \in Lists' : op'[q].victim \notin ToSet(s)
                               /\ \A r \in Procs : op'[q].victim \notin Own(r)'
    <3> SUFFICES ASSUME NEW q \in Procs, pc'[q] = "evict"
                 PROVE  /\ op'[q].victim \in Online'
                        /\ \A s \in Lists' : op'[q].victim \notin ToSet(s)
                        /\ \A r \in Procs : op'[q].victim \notin Own(r)'
      OBVIOUS
    <3>1. q # p /\ pc[q] = "evict" /\ op'[q] = op[q]
      OBVIOUS
    <3>2. QED
      BY <1>1, <1>3, <2>1, <2>2, <2>3, <3>1
  <2>6. QED
    BY <2>1, <2>2, <2>4, <2>5
<1>8. QED
  BY <1>4, <1>5, <1>6, <1>7, FreedKept DEF Safe

(* The pages of a growth are beyond all others. *)
LEMMA GrowStep ==
  ASSUME IInv, NEW p \in Procs, NEW n \in 1..MaxRange, NEW locked \in BOOLEAN,
         Grow(p, n, locked)
  PROVE  Safe'
<1> DEFINE o == [NoOp EXCEPT !.kind = "grow", !.pgn = next_pgn, !.n = n]
<1>1. next_pgn \in Nat /\ n \in Nat \ {0}
  BY Bounds DEF IInv, TypeOK
<1>2. o.pgn = next_pgn /\ o.n = n
  BY NoOpType DEF OpType
<1>3. /\ ~undefined /\ pc[p] = "run" /\ next_pgn + n <= MaxPgn + 1
      /\ op' = [op EXCEPT ![p] = o] /\ next_pgn' = next_pgn + n
      /\ pc' = [pc EXCEPT ![p] = "get"]
      /\ UNCHANGED <<lists, pte, hold, frames, raced, passed, undefined>>
  BY DEF Grow, At, Goto
<1> HIDE DEF o
<1>4. /\ pc'[p] = "get" /\ op'[p] = o
      /\ \A q \in Procs \ {p} : pc'[q] = pc[q] /\ op'[q] = op[q]
  BY <1>3 DEF IInv, TypeOK
<1>5. \A g \in Own(p)' : g \in Nat /\ next_pgn <= g /\ g <= MaxPgn
  BY <1>1, <1>2, <1>3, <1>4, Bounds DEF Own
<1>6. ASSUME "page" \notin raced', NEW g \in Own(p)'
      PROVE  /\ g \in Pgns /\ ~pte[g].present
             /\ \A q \in Procs \ {p} : g \notin Own(q)
  <2>1. g \in Pgns /\ ~(g < next_pgn)
    BY <1>1, <1>5, Bounds DEF Pgns
  <2>2. ~pte[g].present
    BY <1>3, <1>6, <2>1 DEF IInv, Safe, PageInv
  <2>3. \A q \in Procs : g \notin Own(q)
    BY <2>1, OwnBelow DEF IInv
  <2>4. QED
    BY <2>1, <2>2, <2>3
<1>7. next_pgn' \in Nat /\ next_pgn <= next_pgn'
  BY <1>1, <1>3
<1>8. QED
  BY <1>1, <1>3, <1>4, <1>6, <1>7, CallStep

(* The page of a fault is no one else's, or the two have raced. *)
LEMMA FaultStep ==
  ASSUME IInv, NEW p \in Procs, NEW g \in Pgns, Fault(p, g)
  PROVE  Safe'
<1> DEFINE o == [NoOp EXCEPT !.kind = "fault", !.pgn = g, !.n = 1]
<1>1. next_pgn \in Nat /\ g \in Nat
  BY Bounds DEF IInv, TypeOK
<1>2. o.pgn = g /\ o.n = 1
  BY NoOpType DEF OpType
<1>3. /\ ~undefined /\ pc[p] = "run" /\ ~pte[g].present /\ mmvm_lock = NULL
      /\ op' = [op EXCEPT ![p] = o]
      /\ raced' = raced \cup {w \in {"page"} : \E q \in Procs : g \in Pending(q)}
      /\ pc' = [pc EXCEPT ![p] = "victim"]
      /\ UNCHANGED <<lists, pte, next_pgn, hold, frames, passed, undefined>>
  BY DEF Fault, At, Goto
<1> HIDE DEF o
<1>4. /\ pc'[p] = "victim" /\ op'[p] = o
      /\ \A q \in Procs \ {p} : pc'[q] = pc[q] /\ op'[q] = op[q]
  BY <1>3 DEF IInv, TypeOK
<1>5. Own(p)' = {g}
  BY <1>1, <1>2, <1>4 DEF Own
<1>6. ASSUME "page" \notin raced' PROVE \A q \in Procs : g \notin Own(q)
  <2>1. \A q \in Procs : op[q].kind # "fault"
    BY <1>3, Bounds DEF IInv, LocalInv, LocalOf
  <2>2. \A q \in Procs : Own(q) = {} \/ Own(q) = Pending(q)
    BY <2>1, OfProcess, OwnBelow DEF IInv
  <2>3. QED
    BY <1>3, <1>6, <2>2
<1>7. QED
  BY <1>1, <1>3, <1>4, <1>5, <1>6, CallStep

-----------------------------------------------------------------------------
(* The FIFO. *)

(* Who is at the head of the FIFO holds a list of pages. *)
LEMMA ListTypes ==
  ASSUME TypeOK, LocalInv
  PROVE  \A s \in Lists : s \in Seq(Pgns)
BY DEF Lists, TypeOK, LocalInv, LocalOf, AtFifo

(* A new page in front of a list. *)
LEMMA PrependNext ==
  ASSUME NEW S, NEW s \in Seq(S), NEW t \in Seq(S), NEW g \in S, SameNext(s, t), SameNext(t, s),
         g \notin ToSet(t)
  PROVE  SameNext(<<g>> \o s, t) /\ SameNext(t, <<g>> \o s)
<1> DEFINE u == <<g>> \o s
<1>1. /\ Len(u) = Len(s) + 1 /\ Len(s) \in Nat /\ Len(t) \in Nat
      /\ \A k \in 1..Len(u) : u[k] = IF k = 1 THEN g ELSE s[k - 1]
  BY PrependEntries, LenProperties
<1>2. \A k \in 1..Len(t) : t[k] # g
  BY ToSetMembers
<1> HIDE DEF u
<1>3. ASSUME NEW j \in 1..Len(u), NEW k \in 1..Len(t), u[j] = t[k], j < Len(u)
      PROVE  k < Len(t) /\ u[j + 1] = t[k + 1]
  <2>1. j # 1
    BY <1>1, <1>2, <1>3
  <2>2. /\ j - 1 \in 1..Len(s) /\ j - 1 < Len(s) /\ s[j - 1] = t[k]
        /\ u[j + 1] = s[(j - 1) + 1]
    <3>1. j + 1 \in 1..Len(u) /\ j + 1 # 1 /\ (j + 1) - 1 = (j - 1) + 1
      BY <1>1, <1>3
    <3>2. j - 1 \in 1..Len(s) /\ j - 1 < Len(s)
      BY <1>1, <1>3, <2>1
    <3>3. u[j] = s[j - 1] /\ u[j + 1] = s[(j + 1) - 1]
      BY <1>1, <2>1, <3>1
    <3>4. QED
      BY <1>3, <3>1, <3>2, <3>3
  <2>3. QED
    BY <2>2 DEF SameNext
<1>4. ASSUME NEW j \in 1..Len(t), NEW k \in 1..Len(u), t[j] = u[k], j < Len(t)
      PROVE  k < Len(u) /\ t[j + 1] = u[k + 1]
  <2>1. k # 1
    BY <1>1, <1>2, <1>4
  <2>2. k - 1 \in 1..Len(s) /\ t[j] = s[k - 1]
    BY <1>1, <1>4, <2>1
  <2>3. k - 1 < Len(s) /\ t[j + 1] = s[(k - 1) + 1]
    BY <1>4, <2>2 DEF SameNext
  <2>4. k < Len(u) /\ k + 1 \in 1..Len(u) /\ k + 1 # 1 /\ (k + 1) - 1 = (k - 1) + 1
    BY <1>1, <2>2, <2>3
  <2>5. u[k + 1] = s[(k + 1) - 1]
    BY <1>1, <2>4
  <2>6. QED
    BY <2>3, <2>4, <2>5
<1>5. QED
  BY <1>3, <1>4 DEF SameNext, u

(* A list of distinct pages goes with itself. *)
LEMMA SameNextSelf ==
  ASSUME NEW S, NEW s \in Seq(S), Distinct(s)
  PROVE  SameNext(s, s)
<1>1. Len(s) \in Nat
  BY LenProperties
<1>2. QED
  BY <1>1 DEF SameNext, Distinct

(* A page comes to the head of the list that the process has read. *)
LEMMA LinkStep ==
  ASSUME IInv, NEW p \in Procs, Link(p)
  PROVE  Safe'
<1> DEFINE g == op[p].pgn
           s == <<g>> \o hold[p]
<1>1. /\ ~undefined /\ pc[p] = "link" /\ fifo' = s
      /\ \/ pc' = [pc EXCEPT ![p] = "set"] /\ op[p].n > 1
            /\ op' = [op EXCEPT ![p] = [op[p] EXCEPT !.pgn = @ + 1, !.n = @ - 1]]
         \/ pc' = [pc EXCEPT ![p] = "run"] /\ op' = [op EXCEPT ![p] = NoOp]
      /\ UNCHANGED <<free, hold, frames, pte, next_pgn, raced, passed, undefined>>
  BY DEF Link, At, Goto, Return
<1>2. /\ pc'[p] \in {"set", "run"}
      /\ \A q \in Procs \ {p} : pc'[q] = pc[q] /\ op'[q] = op[q]
      /\ \/ op'[p] = NoOp
         \/ op[p].n > 1 /\ op'[p] = [op[p] EXCEPT !.pgn = @ + 1, !.n = @ - 1]
  BY <1>1 DEF IInv, TypeOK
<1>3. g \in Pgns /\ hold[p] \in Seq(Pgns) /\ g \in Own(p)
  <2>1. op[p].n # 0 /\ hold[p] \in Seq(Pgns)
    BY <1>1 DEF IInv, LocalInv, LocalOf
  <2>2. QED
    BY <2>1, OwnBelow, LinkTypes DEF IInv
<1>4. s \in Seq(Pgns) /\ ToSet(s) = {g} \cup ToSet(hold[p])
      /\ (Distinct(hold[p]) /\ g \notin ToSet(hold[p]) => Distinct(s))
  BY <1>3, PrependDistinct
<1>5. /\ \A k \in Own(p)' : k \in Own(p) /\ k # g
      /\ \A q \in Procs \ {p} : Own(q)' = Own(q)
  <2>1. CASE op'[p] = NoOp
    BY <1>2, <2>1, NoneOwned DEF Own
  <2>2. CASE op[p].n > 1 /\ op'[p] = [op[p] EXCEPT !.pgn = @ + 1, !.n = @ - 1]
    <3>1. op[p] \in OpType /\ op[p].pgn \in Nat /\ op[p].n \in Nat
      BY OfProcess DEF IInv
    <3>2. op'[p].pgn = op[p].pgn + 1 /\ op'[p].n = op[p].n - 1
      BY <2>2, <3>1 DEF OpType
    <3>3. QED
      BY <1>2, <3>1, <3>2 DEF Own
  <2>3. QED
    BY <1>2, <2>1, <2>2
<1> HIDE DEF g, s
<1>6. /\ \A k \in Own(p)' : ~IsEntering(p, k) /\ ~IsEntering(p, k)'
      /\ \A q \in Procs \ {p} : \A k : IsEntering(q, k)' = IsEntering(q, k)
  BY <1>1, <1>2, <1>5 DEF IsEntering, g
<1>7. Online' = Online
  BY <1>1 DEF Online
<1>8. "fifo" \notin raced =>
        /\ hold[p] = fifo
        /\ \A q \in Procs \ {p} : pc[q] \notin AtFifo
  BY <1>1 DEF IInv, Safe, FifoHead, AtFifo
<1>9. FifoHead'
  BY <1>1, <1>2, <1>8 DEF FifoHead, AtFifo
<1>10. FreeHead' /\ FreeInv' /\ FrameInv'
  <2>1. FreeHead' /\ FreeInv'
    BY <1>1, <1>2, FreeHeadKept, FreeKept DEF IInv, Safe, AtFree
  <2>2. FrameInv'
    BY <1>1, <1>2, FrameKept DEF IInv, Safe
  <2>3. QED
    BY <2>1, <2>2
<1>11. PageInv'
  <2>1. \A q \in Procs : /\ Own(q)' \subseteq Own(q)
                         /\ \A k \in Own(q)' : IsEntering(q, k)' = IsEntering(q, k)
    <3>1. \A k \in Own(p)' : IsEntering(p, k)' = FALSE /\ IsEntering(p, k) = FALSE
      BY <1>6 DEF IsEntering
    <3>2. QED
      BY <1>5, <1>6, <3>1
  <2>2. QED
    BY <1>1, <2>1, PageKept DEF IInv, Safe
<1>12. OnlineInv'
  <2> SUFFICES ASSUME "fifo" \notin raced, NEW k \in Online
               PROVE  \/ k \in ToSet(fifo') \cup passed
                      \/ \E q \in Procs : \/ pc'[q] = "evict" /\ op'[q].victim = k
                                          \/ IsEntering(q, k)'
    BY <1>1, <1>7 DEF OnlineInv
  <2>1. \/ k \in ToSet(fifo) \cup passed
        \/ \E q \in Procs : \/ pc[q] = "evict" /\ op[q].victim = k
                            \/ IsEntering(q, k)
    BY <1>1 DEF IInv, Safe, OnlineInv
  <2>2. ToSet(fifo') = {g} \cup ToSet(fifo)
    BY <1>1, <1>4, <1>8
  <2>3. IsEntering(p, k) => k = g
    BY DEF IsEntering, g
  <2>4. QED
    BY <1>1, <1>2, <1>6, <2>1, <2>2, <2>3
<1>13. ListInv'
  <2> SUFFICES ASSUME "page" \notin raced
               PROVE  /\ \A t \in Lists' : /\ Distinct(t) /\ ToSet(t) \subseteq Online
                                           /\ \A q \in Procs : Own(q)' \cap ToSet(t) = {}
                      /\ \A t, u \in Lists' : SameNext(t, u)
                      /\ \A q \in Procs :
                           pc'[q] = "evict" => /\ op'[q].victim \in Online
                                               /\ \A t \in Lists' : op'[q].victim \notin ToSet(t)
                                               /\ \A r \in Procs : op'[q].victim \notin Own(r)'
    BY <1>1, <1>7 DEF ListInv
  <2>1. /\ \A t \in Lists : /\ Distinct(t) /\ ToSet(t) \subseteq Online
                            /\ \A q \in Procs : Own(q) \cap ToSet(t) = {}
        /\ \A t, u \in Lists : SameNext(t, u)
        /\ \A q \in Procs :
             pc[q] = "evict" => /\ op[q].victim \in Online
                                /\ \A t \in Lists : op[q].victim \notin ToSet(t)
                                /\ \A r \in Procs : op[q].victim \notin Own(r)
    BY <1>1 DEF IInv, Safe, ListInv
  <2>2. hold[p] \in Lists /\ Lists' \subseteq Lists \cup {s}
    BY <1>1, <1>2 DEF Lists, AtFifo
  <2>3. /\ g \in Online
        /\ \A t \in Lists : g \notin ToSet(t)
        /\ \A q \in Procs : g \notin Own(q)'
    <3>1. g \in Online /\ \A q \in Procs \ {p} : g \notin Own(q)
      BY <1>1, <1>3 DEF IInv, Safe, PageInv, IsEntering, g
    <3>2. QED
      BY <1>3, <1>5, <2>1, <3>1
  <2>4. \A t \in Lists' : /\ Distinct(t) /\ ToSet(t) \subseteq Online
                          /\ \A q \in Procs : Own(q)' \cap ToSet(t) = {}
    <3>1. \A q \in Procs : Own(q)' \subseteq Own(q)
      BY <1>5
    <3>2. /\ Distinct(s) /\ ToSet(s) \subseteq Online
          /\ \A q \in Procs : Own(q)' \cap ToSet(s) = {}
      BY <1>4, <2>1, <2>2, <2>3, <3>1
    <3>3. QED
      BY <2>1, <2>2, <3>1, <3>2
  <2>5. \A t, u \in Lists' : SameNext(t, u)
    <3>1. \A t \in Lists : t \in Seq(Pgns)
      BY ListTypes DEF IInv
    <3>2. \A t \in Lists : SameNext(s, t) /\ SameNext(t, s)
      <4> SUFFICES ASSUME NEW t \in Lists PROVE SameNext(s, t) /\ SameNext(t, s)
        OBVIOUS
      <4>1. /\ SameNext(hold[p], t) /\ SameNext(t, hold[p]) /\ g \notin ToSet(t)
            /\ t \in Seq(Pgns)
        BY <2>1, <2>2, <2>3, <3>1
      <4>2. QED
        BY <1>3, <4>1, PrependNext DEF s
    <3>3. SameNext(s, s)
      BY <1>4, <2>1, <2>2, <2>3, SameNextSelf
    <3>4. QED
      BY <2>1, <2>2, <3>2, <3>3
  <2>6. ASSUME NEW q \in Procs, pc'[q] = "evict"
        PROVE  /\ op'[q].victim \in Online
               /\ \A t \in Lists' : op'[q].victim \notin ToSet(t)
               /\ \A r \in Procs : op'[q].victim \notin Own(r)'
    <3>1. pc[q] = "evict" /\ op'[q] = op[q]
      BY <1>2, <2>6
    <3>2. op[q].victim # g
      BY <1>3, <2>1, <3>1
    <3>3. op[q].victim \notin ToSet(s)
      BY <1>4, <2>1, <2>2, <3>1, <3>2
    <3>4. QED
      BY <1>5, <2>1, <2>2, <3>1, <3>3
  <2>7. QED
    BY <2>4, <2>5, <2>6
<1>14. QED
  BY <1>1, <1>9, <1>10, <1>11, <1>12, <1>13, FreedKept DEF Safe

(* The last page of one list is, in the others, last as well or absent. *)
LEMMA WithoutLast ==
  ASSUME NEW S, NEW s \in Seq(S), NEW t \in Seq(S), t # <<>>, NEW g, g = Last(t),
         Distinct(s), SameNext(s, t)
  PROVE  /\ Without(s, g) \in Seq(S) /\ Distinct(Without(s, g))
         /\ ToSet(Without(s, g)) = ToSet(s) \ {g}
         /\ \A k \in 1..Len(Without(s, g)) : k \in 1..Len(s) /\ Without(s, g)[k] = s[k]
         /\ \A k \in 1..Len(s) : s[k] # g => k \in 1..Len(Without(s, g))
<1>1. Len(t) \in Nat \ {0} /\ g = t[Len(t)]
  BY FrontEntries
<1>2. CASE s # <<>> /\ Last(s) = g
  <2>1. /\ Len(s) \in Nat \ {0} /\ s[Len(s)] = g
        /\ Front(s) \in Seq(S) /\ Len(Front(s)) = Len(s) - 1
        /\ \A k \in 1..(Len(s) - 1) : Front(s)[k] = s[k]
        /\ Distinct(Front(s)) /\ ToSet(Front(s)) = ToSet(s) \ {g}
    BY <1>2, FrontEntries, FrontDistinct
  <2>2. \A k \in 1..Len(s) : s[k] # g => k \in 1..(Len(s) - 1)
    BY <2>1
  <2>3. \A k \in 1..(Len(s) - 1) : k \in 1..Len(s)
    BY <2>1
  <2>4. Without(s, g) = Front(s)
    BY <1>2 DEF Without
  <2>5. QED
    BY <2>1, <2>2, <2>3, <2>4
<1>3. CASE ~(s # <<>> /\ Last(s) = g)
  <2>1. Without(s, g) = s
    BY <1>3 DEF Without
  <2>2. ASSUME NEW j \in 1..Len(s), s[j] = g PROVE FALSE
    <3>1. ~(j < Len(s))
      BY <1>1, <2>2 DEF SameNext
    <3>2. Len(s) \in Nat
      BY LenProperties
    <3>3. s # <<>> /\ j = Len(s)
      BY <2>2, <3>1, <3>2, EmptySeq
    <3>4. QED
      BY <1>3, <2>2, <3>3, FrontEntries
  <2>3. g \notin ToSet(s)
    BY <2>2, ToSetMembers
  <2>4. QED
    BY <2>1, <2>3
<1>4. QED
  BY <1>2, <1>3

(* The lists still agree on what follows a page. *)
LEMMA WithoutNext ==
  ASSUME NEW S, NEW s \in Seq(S), NEW u \in Seq(S), NEW t \in Seq(S), t # <<>>,
         NEW g, g = Last(t), Distinct(s), Distinct(u),
         SameNext(s, t), SameNext(u, t), SameNext(s, u)
  PROVE  SameNext(Without(s, g), Without(u, g))
<1> DEFINE a == Without(s, g)
           b == Without(u, g)
<1>1. /\ a \in Seq(S) /\ ToSet(a) = ToSet(s) \ {g}
      /\ \A k \in 1..Len(a) : k \in 1..Len(s) /\ a[k] = s[k]
  BY WithoutLast
<1>2. /\ b \in Seq(S)
      /\ \A k \in 1..Len(b) : k \in 1..Len(u) /\ b[k] = u[k]
      /\ \A k \in 1..Len(u) : u[k] # g => k \in 1..Len(b)
  BY WithoutLast
<1> HIDE DEF a, b
<1>3. Len(a) \in Nat /\ Len(s) \in Nat /\ Len(b) \in Nat /\ Len(u) \in Nat
  BY <1>1, <1>2, LenProperties
<1>4. ASSUME NEW j \in 1..Len(a), NEW k \in 1..Len(b), a[j] = b[k], j < Len(a)
      PROVE  k < Len(b) /\ a[j + 1] = b[k + 1]
  <2>1. j + 1 \in 1..Len(a) /\ j + 1 \in 1..Len(s)
    BY <1>1, <1>3, <1>4
  <2>2. a[j] = s[j] /\ a[j + 1] = s[j + 1] /\ b[k] = u[k] /\ k \in 1..Len(u) /\ j \in 1..Len(s)
    BY <1>1, <1>2, <2>1
  <2>3. k < Len(u) /\ s[j + 1] = u[k + 1]
    <3>1. s[j] = u[k]
      BY <1>4, <2>2
    <3>2. j < Len(s)
      BY <1>3, <2>1
    <3>3. QED
      BY <2>2, <3>1, <3>2 DEF SameNext
  <2>4. a[j + 1] # g
    BY <1>1, <2>1, ToSetMembers
  <2>5. k + 1 \in 1..Len(u) /\ u[k + 1] # g
    BY <1>3, <2>2, <2>3, <2>4
  <2>6. k + 1 \in 1..Len(b)
    BY <1>2, <2>5
  <2>7. b[k + 1] = u[k + 1]
    BY <1>2, <2>6
  <2>8. QED
    BY <1>3, <2>2, <2>3, <2>6, <2>7
<1>5. QED
  BY <1>4 DEF SameNext, a, b

(* The lists without the last page of one of them. *)
LEMMA UnlinkLists ==
  ASSUME NEW L, \A s \in L : s \in Seq(Pgns) /\ Distinct(s), \A s, u \in L : SameNext(s, u),
         NEW t \in L, t # <<>>
  PROVE  /\ \A s \in L : /\ Without(s, Last(t)) \in Seq(Pgns) /\ Distinct(Without(s, Last(t)))
                         /\ ToSet(Without(s, Last(t))) = ToSet(s) \ {Last(t)}
         /\ \A s, u \in L : SameNext(Without(s, Last(t)), Without(u, Last(t)))
<1>1. ASSUME NEW s \in L
      PROVE  /\ Without(s, Last(t)) \in Seq(Pgns) /\ Distinct(Without(s, Last(t)))
             /\ ToSet(Without(s, Last(t))) = ToSet(s) \ {Last(t)}
  BY <1>1, WithoutLast
<1>2. ASSUME NEW s \in L, NEW u \in L
      PROVE  SameNext(Without(s, Last(t)), Without(u, Last(t)))
  BY <1>2, WithoutNext
<1>3. QED
  BY <1>1, <1>2

(* The last page leaves all lists, or the only list that has it. *)
LEMMA UnlinkStep ==
  ASSUME IInv, NEW p \in Procs, Unlink(p)
  PROVE  Safe'
<1> DEFINE g == Last(hold[p])
<1>1. /\ ~undefined /\ pc[p] = "unlink" /\ pc' = [pc EXCEPT ![p] = "evict"]
      /\ op' = [op EXCEPT ![p] = [op[p] EXCEPT !.victim = g]]
      /\ UNCHANGED <<free, frames, pte, next_pgn, raced, passed>>
  BY DEF Unlink, At, Goto
<1>2. pc'[p] = "evict" /\ \A q \in Procs \ {p} : pc'[q] = pc[q] /\ op'[q] = op[q]
  BY <1>1 DEF IInv, TypeOK
<1>3. hold[p] \in Seq(Pgns) /\ hold[p] # <<>> /\ g \in Pgns /\ g \in ToSet(hold[p])
  <2>1. hold[p] \in Seq(Pgns) /\ hold[p] # <<>>
    BY <1>1 DEF IInv, LocalInv, LocalOf
  <2>2. Len(hold[p]) \in Nat \ {0} /\ g = hold[p][Len(hold[p])] /\ g \in Pgns
    BY <2>1, FrontEntries
  <2>3. Len(hold[p]) \in 1..Len(hold[p])
    BY <2>2
  <2>4. QED
    BY <2>1, <2>2, <2>3, ToSetMembers
<1>4. /\ op'[p].kind = op[p].kind /\ op'[p].pgn = op[p].pgn /\ op'[p].n = op[p].n
      /\ op'[p].fpn = op[p].fpn /\ op'[p].victim = g
  <2>1. op[p] \in OpType /\ op'[p] = [op[p] EXCEPT !.victim = g]
    BY <1>1, OfProcess DEF IInv, TypeOK
  <2>2. QED
    BY <1>3, <2>1 DEF OpType
<1>5. \/ /\ Len(hold[p]) = 1 /\ fifo' = <<>> /\ hold' = hold
         /\ undefined' = \E q \in Procs \ {p} : pc[q] = "link" /\ g \in ToSet(hold[q])
      \/ /\ Len(hold[p]) # 1 /\ fifo' = Without(fifo, g) /\ undefined' = undefined
         /\ hold' = [q \in Procs |-> IF pc[q] \in AtFifo THEN Without(hold[q], g) ELSE hold[q]]
  BY DEF Unlink
<1> HIDE DEF g
<1>6. \A q \in Procs : pc[q] \notin AtFifo => hold'[q] = hold[q]
  BY <1>5
<1>7. \A q \in Procs \ {p} : pc[q] # "unlink" /\ pc[q] # "evict"
  BY <1>1, OneFault DEF IInv
<1>8. \A q \in Procs : Own(q)' = Own(q)
  BY <1>2, <1>4 DEF Own
<1>9. /\ \A k : ~IsEntering(p, k) /\ ~IsEntering(p, k)'
      /\ \A q \in Procs \ {p} : \A k : IsEntering(q, k)' = IsEntering(q, k)
  BY <1>1, <1>2 DEF IsEntering
<1>10. Online' = Online
  BY <1>1 DEF Online
<1>11. "fifo" \notin raced =>
         /\ hold[p] = fifo
         /\ \A q \in Procs \ {p} : pc[q] \notin AtFifo
  BY <1>1 DEF IInv, Safe, FifoHead, AtFifo
<1>12. FifoHead'
  BY <1>1, <1>2, <1>11 DEF FifoHead, AtFifo
<1>13. FreeHead' /\ FreeInv' /\ FrameInv'
  <2>1. \A q \in Procs : /\ pc'[q] \in AtFree => pc[q] \in AtFree /\ hold'[q] = hold[q]
                         /\ pc'[q] = "free" => pc[q] = "free" /\ hold'[q] = hold[q]
    BY <1>2, <1>6 DEF AtFree, AtFifo
  <2>2. FreeHead' /\ FreeInv'
    BY <1>1, <2>1, FreeHeadKept, FreeKept DEF IInv, Safe
  <2>3. \A q \in Procs : /\ frames'[q] = frames[q]
                         /\ (pc'[q] = "free") = (pc[q] = "free")
                         /\ (pc'[q] = "give") = (pc[q] = "give")
                         /\ op'[q].fpn = op[q].fpn
    BY <1>1, <1>2, <1>4
  <2>4. FrameInv'
    BY <1>1, <2>1, <2>3, FrameKept DEF IInv, Safe
  <2>5. QED
    BY <2>2, <2>4
<1>14. FreedOnlyByRace'
  <2>1. CASE "fifo" \in raced
    BY <1>1, <2>1 DEF FreedOnlyByRace
  <2>2. CASE "fifo" \notin raced
    BY <1>1, <1>5, <1>11, <2>2 DEF FreedOnlyByRace, AtFifo
  <2>3. QED
    BY <2>1, <2>2
<1>15. PageInv'
  <2>1. \A q \in Procs : /\ Own(q)' \subseteq Own(q)
                         /\ \A k \in Own(q)' : IsEntering(q, k)' = IsEntering(q, k)
    <3>1. \A k : IsEntering(p, k)' = FALSE /\ IsEntering(p, k) = FALSE
      BY <1>9 DEF IsEntering
    <3>2. QED
      BY <1>8, <1>9, <3>1
  <2>2. QED
    BY <1>1, <2>1, PageKept DEF IInv, Safe
<1>16. OnlineInv'
  <2> SUFFICES ASSUME "fifo" \notin raced, NEW k \in Online
               PROVE  \/ k \in ToSet(fifo') \cup passed
                      \/ \E q \in Procs : \/ pc'[q] = "evict" /\ op'[q].victim = k
                                          \/ IsEntering(q, k)'
    BY <1>1, <1>10 DEF OnlineInv
  <2>1. \/ k \in ToSet(fifo) \cup passed
        \/ \E q \in Procs : \/ pc[q] = "evict" /\ op[q].victim = k
                            \/ IsEntering(q, k)
    BY <1>1 DEF IInv, Safe, OnlineInv
  <2>2. ToSet(fifo) \subseteq {g} \cup ToSet(fifo')
    <3>0. fifo \in Seq(Pgns) /\ fifo # <<>> /\ g = Last(fifo)
      BY <1>3, <1>11 DEF g
    <3>1. CASE Len(hold[p]) = 1
      <4>1. fifo[1] = g /\ Len(fifo) = 1
        BY <1>11, <3>0, <3>1, FrontEntries
      <4>2. \A e \in ToSet(fifo) : \E j \in 1..1 : fifo[j] = e
        BY <3>0, <4>1, ToSetMembers
      <4>3. \A e \in ToSet(fifo) : e = g
        BY <4>1, <4>2
      <4>4. QED
        BY <4>3
    <3>2. CASE Len(hold[p]) # 1
      <4>1. fifo' = Front(fifo)
        BY <1>5, <3>0, <3>2 DEF Without
      <4>2. /\ Len(fifo) \in Nat \ {0} /\ g = fifo[Len(fifo)]
            /\ Front(fifo) \in Seq(Pgns) /\ Len(Front(fifo)) = Len(fifo) - 1
            /\ \A j \in 1..(Len(fifo) - 1) : Front(fifo)[j] = fifo[j]
        BY <3>0, FrontEntries
      <4>3. ASSUME NEW e \in ToSet(fifo), e # g PROVE e \in ToSet(Front(fifo))
        <5>1. PICK j \in 1..Len(fifo) : fifo[j] = e
          BY <3>0, ToSetMembers
        <5>2. j \in 1..(Len(fifo) - 1)
          BY <4>2, <4>3, <5>1
        <5>3. j \in 1..Len(Front(fifo)) /\ Front(fifo)[j] = e
          BY <4>2, <5>1, <5>2
        <5>4. QED
          BY <4>2, <5>3, ToSetMembers
      <4>4. QED
        BY <4>1, <4>3
    <3>3. QED
      BY <3>1, <3>2
  <2>3. QED
    BY <1>1, <1>2, <1>4, <1>9, <2>1, <2>2
<1>17. ListInv'
  <2> SUFFICES ASSUME ~undefined', "page" \notin raced
               PROVE  /\ \A t \in Lists' : /\ Distinct(t) /\ ToSet(t) \subseteq Online
                                           /\ \A q \in Procs : Own(q) \cap ToSet(t) = {}
                      /\ \A t, u \in Lists' : SameNext(t, u)
                      /\ \A q \in Procs :
                           pc'[q] = "evict" => /\ op'[q].victim \in Online
                                               /\ \A t \in Lists' : op'[q].victim \notin ToSet(t)
                                               /\ \A r \in Procs : op'[q].victim \notin Own(r)
    BY <1>1, <1>8, <1>10 DEF ListInv
  <2>1. /\ \A t \in Lists : /\ Distinct(t) /\ ToSet(t) \subseteq Online
                            /\ \A q \in Procs : Own(q) \cap ToSet(t) = {}
        /\ \A t, u \in Lists : SameNext(t, u)
    BY <1>1 DEF IInv, Safe, ListInv
  <2>2. hold[p] \in Lists /\ \A t \in Lists : t \in Seq(Pgns)
    BY <1>1, ListTypes DEF Lists, AtFifo, IInv
  <2>3. g \in Online /\ \A r \in Procs : g \notin Own(r)
    BY <1>3, <2>1, <2>2
  <2>4. \A q \in Procs : pc'[q] = "evict" => q = p
    BY <1>2, <1>7
  <2>5. CASE Len(hold[p]) = 1
    <3>1. fifo' = <<>> /\ hold' = hold
      BY <1>5, <2>5
    <3>2. \A q \in Procs \ {p} : pc[q] \in AtFifo => g \notin ToSet(hold[q])
      BY <1>5, <1>7, <2>5 DEF AtFifo
    <3>3. Lists' = {<<>>} \cup {hold[q] : q \in {q \in Procs \ {p} : pc[q] \in AtFifo}}
      BY <1>2, <3>1 DEF Lists, AtFifo
    <3>4. \A t \in Lists' : t = <<>> \/ (t \in Lists /\ g \notin ToSet(t))
      BY <3>2, <3>3 DEF Lists
    <3>5. /\ ToSet(<<>>) = {} /\ Distinct(<<>>)
          /\ \A t \in Lists : SameNext(<<>>, t) /\ SameNext(t, <<>>)
          /\ SameNext(<<>>, <<>>)
      BY ToSetEmpty DEF SameNext
    <3>6. QED
      BY <1>4, <2>1, <2>3, <2>4, <3>4, <3>5
  <2>6. CASE Len(hold[p]) # 1
    <3>1. /\ fifo' = Without(fifo, g)
          /\ hold' = [q \in Procs |-> IF pc[q] \in AtFifo THEN Without(hold[q], g) ELSE hold[q]]
      BY <1>5, <2>6
    <3>2. \A t \in Lists' : \E s \in Lists : t = Without(s, g)
      BY <1>2, <3>1 DEF Lists, AtFifo
    <3>3. /\ \A s \in Lists : /\ Without(s, g) \in Seq(Pgns) /\ Distinct(Without(s, g))
                              /\ ToSet(Without(s, g)) = ToSet(s) \ {g}
          /\ \A s, u \in Lists : SameNext(Without(s, g), Without(u, g))
      <4>1. g = Last(hold[p])
        BY DEF g
      <4>2. /\ \A s \in Lists : s \in Seq(Pgns) /\ Distinct(s)
            /\ \A s, u \in Lists : SameNext(s, u)
        BY <2>1, <2>2
      <4>3. QED
        BY <1>3, <2>2, <4>1, <4>2, UnlinkLists
    <3>4. \A t \in Lists' : /\ Distinct(t) /\ ToSet(t) \subseteq Online /\ g \notin ToSet(t)
                            /\ \A q \in Procs : Own(q) \cap ToSet(t) = {}
      BY <2>1, <3>2, <3>3
    <3>5. \A t, u \in Lists' : SameNext(t, u)
      BY <3>2, <3>3
    <3>6. QED
      BY <1>4, <2>3, <2>4, <3>4, <3>5
  <2>7. QED
    BY <2>5, <2>6
<1>18. QED
  BY <1>12, <1>13, <1>14, <1>15, <1>16, <1>17 DEF Safe

-----------------------------------------------------------------------------
(* The inductive invariant. *)

(* All frames are free, and no page is in RAM. *)
LEMMA InitSafe == Init => Safe
<1> SUFFICES ASSUME Init PROVE Safe
  OBVIOUS
<1>1. free = [k \in 1..RamFrames |-> k - 1] /\ RamFrames \in Nat
  BY Bounds DEF Init
<1>2. Len(free) = RamFrames /\ \A k \in 1..RamFrames : free[k] = k - 1
  BY <1>1
<1>3. free \in Seq(Frames)
  BY InitTypes DEF TypeOK
<1>4. Distinct(free)
  BY <1>1, <1>2 DEF Distinct
<1>5. \A f \in Frames : f \in ToSet(free)
  <2>1. ASSUME NEW f \in Frames PROVE f + 1 \in 1..Len(free) /\ free[f + 1] = f
    BY <1>1, <1>2 DEF Frames
  <2>2. QED
    BY <1>3, <2>1, ToSetMembers
<1>6. /\ \A g \in Pgns : ~pte[g].present
      /\ \A p \in Procs : pc[p] = "run" /\ frames[p] = <<>> /\ op[p] = NoOp
      /\ fifo = <<>> /\ undefined = FALSE
  BY DEF Init, NoPte
<1>7. Online = {}
  BY <1>6 DEF Online
<1>8. \A p \in Procs : /\ Own(p) = {}
                       /\ \A g : ~IsEntering(p, g)
                       /\ \A f : ~Has(p, f) /\ ~InHand(p, f)
  BY <1>6, ToSetEmpty, NoneOwned DEF IsEntering, Has, InHand
<1>9. FreeHead /\ FifoHead /\ FreedOnlyByRace /\ OnlineInv
  BY <1>6, <1>7 DEF FreeHead, FifoHead, FreedOnlyByRace, OnlineInv, AtFree, AtFifo
<1>10. FreeInv
  BY <1>4, <1>6, <1>8, ToSetEmpty DEF FreeInv
<1>11. PageInv
  BY <1>6, <1>8 DEF PageInv
<1>12. ListInv
  <2>1. Lists = {<<>>}
    BY <1>6 DEF Lists, AtFifo
  <2>2. SameNext(<<>>, <<>>)
    BY DEF SameNext
  <2>3. QED
    BY <1>6, <1>8, <2>1, <2>2, ToSetEmpty DEF ListInv
<1>13. FrameInv
  BY <1>5, <1>6, <1>7 DEF FrameInv
<1>14. QED
  BY <1>9, <1>10, <1>11, <1>12, <1>13 DEF Safe

(* Every step keeps the invariant. *)
LEMMA StepSafe == IInv /\ [Next]_vars => Safe'
<1> SUFFICES ASSUME IInv, [Next]_vars PROVE Safe'
  OBVIOUS
<1>1. CASE UNCHANGED vars
  <2>1. /\ Online' = Online /\ Lists' = Lists
        /\ \A q : Own(q)' = Own(q)
        /\ \A q, g : IsEntering(q, g)' = IsEntering(q, g)
        /\ \A q, f : Has(q, f)' = Has(q, f) /\ InHand(q, f)' = InHand(q, f)
        /\ \A g : FrameOf(g)' = FrameOf(g)
    BY <1>1 DEF vars, lists, locals, Online, Lists, Own, IsEntering, Has, InHand, FrameOf
  <2>2. UNCHANGED <<free, fifo, pte, next_pgn, pc, op, hold, frames, raced, passed, undefined>>
    BY <1>1 DEF vars, lists, locals
  <2>3. FreeHead' /\ FifoHead' /\ FreeInv' /\ FreedOnlyByRace'
    BY <2>1, <2>2 DEF IInv, Safe, FreeHead, FifoHead, FreeInv, FreedOnlyByRace
  <2>4. PageInv' /\ ListInv' /\ FrameInv' /\ OnlineInv'
    BY <2>1, <2>2 DEF IInv, Safe, PageInv, ListInv, FrameInv, OnlineInv
  <2>5. QED
    BY <2>3, <2>4 DEF Safe
<1>2. ASSUME NEW p \in Procs, NEW n \in 1..MaxRange, NEW locked \in BOOLEAN,
             Grow(p, n, locked)
      PROVE  Safe'
  BY <1>2, GrowStep
<1>3. ASSUME NEW p \in Procs, NEW g \in Pgns, Fault(p, g) PROVE Safe'
  BY <1>3, FaultStep
<1>4. ASSUME NEW p \in Procs, Step(p) PROVE Safe'
  BY <1>4, QuietSteps, ReadFreeStep, TakeStep, FreeNodeStep, PutBackStep, SetPageStep,
     ReadFifoStep, LinkStep, UnlinkStep, EvictStep, NoSwapStep, GiveStep DEF Step
<1>5. QED
  BY <1>1, <1>2, <1>3, <1>4 DEF Next, Stopped

(* The invariant holds in every reachable state. *)
LEMMA Invariant == Spec => []IInv
<1>1. Init => IInv
  BY InitTypes, InitSafe DEF IInv
<1>2. IInv /\ [Next]_vars => IInv'
  BY StepTypes, StepSafe DEF IInv
<1>3. QED
  BY <1>1, <1>2, PTL DEF Spec

-----------------------------------------------------------------------------
(* The theorems. *)

(* Every list holds frames, or pages, every process is at a place of its   *)
(* call, and every entry is an entry, whatever the interleaving.           *)
THEOREM TypeCorrect == Spec => []TypeOK
<1>1. IInv => TypeOK
  BY DEF IInv
<1>2. QED
  BY <1>1, Invariant, PTL

(* MEMPHY_get_freefp and find_victim_page free a node that another process *)
(* uses, or that a list has, only after two were at the head of a list.    *)
THEOREM FreedNodesUnused == Spec => []FreedOnlyByRace
<1>1. IInv => FreedOnlyByRace
  BY DEF IInv, Safe
<1>2. QED
  BY <1>1, Invariant, PTL

(* fifo_pgn has every page once, and only pages that are in RAM, unless a  *)
(* fault met a page that a growth had still to map.                        *)
THEOREM VictimsStayInRam == Spec => []VictimsInRam
<1>1. IInv => VictimsInRam
  <2> SUFFICES ASSUME IInv, ~undefined, "page" \notin raced
               PROVE  IsInjective(fifo) /\ ToSet(fifo) \subseteq Online
    BY DEF VictimsInRam
  <2>1. Distinct(fifo) /\ ToSet(fifo) \subseteq Online
    BY DEF IInv, Safe, ListInv, Lists
  <2>2. DOMAIN fifo = 1..Len(fifo)
    BY LenProperties DEF IInv, TypeOK
  <2>3. IsInjective(fifo)
    BY <2>1, <2>2 DEF IsInjective, Distinct
  <2>4. QED
    BY <2>1, <2>3
<1>2. QED
  BY <1>1, Invariant, PTL

(* Every page in RAM can be chosen as a victim, is about to be entered, or *)
(* stayed as swap was full, unless two were at the head of fifo_pgn.       *)
THEOREM PagesStayListed == Spec => []EveryPageListed
<1>1. IInv => EveryPageListed
  <2> SUFFICES ASSUME IInv, ~undefined, "fifo" \notin raced, NEW g \in Online
               PROVE  \/ g \in ToSet(fifo) \cup passed
                      \/ \E p \in Procs : Leaving(p, g) \/ Entering(p, g)
    BY DEF EveryPageListed
  <2>1. \/ g \in ToSet(fifo) \cup passed
        \/ \E p \in Procs : (pc[p] = "evict" /\ op[p].victim = g) \/ IsEntering(p, g)
    BY DEF IInv, Safe, OnlineInv
  <2>2. QED
    BY <2>1 DEF Leaving, Entering, IsEntering
<1>2. QED
  BY <1>1, Invariant, PTL

(* Every frame of RAM is at one place: free, with one process or at one    *)
(* page, unless two were at the head of the list of free frames or a fault *)
(* met a page that a growth had still to map.                              *)
THEOREM FramesStayApart == Spec => []FramesApart
<1>1. IInv => FramesApart
  <2> SUFFICES ASSUME IInv, ~undefined, raced \cap {"frames", "page"} = {}, NEW f \in Frames
               PROVE  Cardinality(Places(f)) = 1
    BY DEF FramesApart
  <2>1. /\ \A i, k \in Online : FrameOf(i) = FrameOf(k) => i = k
        /\ \A i \in Online : /\ FrameOf(i) \notin ToSet(free)
                             /\ \A q \in Procs : ~InHand(q, FrameOf(i))
        /\ \A q \in Procs : pc[q] = "give" => /\ op[q].fpn \notin ToSet(free)
                                              /\ \A r \in Procs : ~Has(r, op[q].fpn)
        /\ \/ f \in ToSet(free)
           \/ \E q \in Procs : InHand(q, f)
           \/ \E i \in Online : FrameOf(i) = f
    BY DEF IInv, Safe, FrameInv
  <2>2. /\ Distinct(free)
        /\ \A q \in Procs : Has(q, f) => f \notin ToSet(free)
        /\ \A q, r \in Procs : Has(q, f) /\ Has(r, f) => q = r
    BY DEF IInv, Safe, FreeInv
  <2>3. \A q \in Procs : InHand(q, f) <=> Has(q, f) \/ (pc[q] = "give" /\ op[q].fpn = f)
    BY DEF InHand, Has
  <2>4. \A q \in Procs : InHand(q, f) => f \notin ToSet(free)
    BY <2>1, <2>2, <2>3
  <2>5. ASSUME NEW q \in Procs, NEW r \in Procs, InHand(q, f), InHand(r, f) PROVE q = r
    BY <2>1, <2>2, <2>3, <2>5, OneFault DEF IInv
  <2>6. DOMAIN free = 1..Len(free) /\ free \in Seq(Frames)
    BY LenProperties DEF IInv, TypeOK
  <2>7. \E x : Places(f) = {x}
    <3>1. CASE f \in ToSet(free)
      <4>1. PICK k \in 1..Len(free) : free[k] = f
        BY <2>6, <3>1, ToSetMembers
      <4>2. {j \in DOMAIN free : free[j] = f} = {k}
        BY <2>2, <2>6, <4>1 DEF Distinct
      <4>3. {q \in Procs : InHand(q, f)} = {} /\ {g \in Online : FrameOf(g) = f} = {}
        BY <2>1, <2>4, <3>1
      <4>4. Places(f) = {<<"free", k>>}
        BY <4>2, <4>3 DEF Places, FrameOf
      <4>5. QED
        BY <4>4
    <3>2. CASE \E q \in Procs : InHand(q, f)
      <4>1. PICK q \in Procs : InHand(q, f)
        BY <3>2
      <4>2. {r \in Procs : InHand(r, f)} = {q}
        BY <2>5, <4>1
      <4>3. {j \in DOMAIN free : free[j] = f} = {}
        BY <2>4, <2>6, <4>1, ToSetMembers
      <4>4. {g \in Online : FrameOf(g) = f} = {}
        BY <2>1, <4>1
      <4>5. Places(f) = {<<"hand", q>>}
        BY <4>2, <4>3, <4>4 DEF Places, FrameOf
      <4>6. QED
        BY <4>5
    <3>3. CASE \E i \in Online : FrameOf(i) = f
      <4>1. PICK i \in Online : FrameOf(i) = f
        BY <3>3
      <4>2. {g \in Online : FrameOf(g) = f} = {i}
        BY <2>1, <4>1
      <4>3. {j \in DOMAIN free : free[j] = f} = {}
        BY <2>1, <2>6, <4>1, ToSetMembers
      <4>4. {q \in Procs : InHand(q, f)} = {}
        BY <2>1, <4>1
      <4>5. Places(f) = {<<"page", i>>}
        BY <4>2, <4>3, <4>4 DEF Places, FrameOf
      <4>6. QED
        BY <4>5
    <3>4. QED
      BY <2>1, <3>1, <3>2, <3>3
  <2>8. QED
    BY <2>7, FS_Singleton
<1>2. QED
  BY <1>1, Invariant, PTL
=============================================================================
