----------------------------- MODULE PageTable -----------------------------
(***************************************************************************)
(* src/mm64.c: the page table as a tree of tables that is built as pages   *)
(* are entered.  Each level of a walk looks at a slot, allocates a table   *)
(* when it is zero, clears it and follows the slot; the code reads the     *)
(* slot anew each time.                                                    *)
(*                                                                         *)
(* pg_getpage and __alloc hold mmvm_lock over their walks.  A program that *)
(* makes system call 17 itself enters pages without the lock (MAP and      *)
(* INC): then walks overlap, which the history variable raced remembers.   *)
(***************************************************************************)
EXTENDS Words

CONSTANTS
  Procs,      \* the processes
  NULL,
  Levels,     \* the levels of tables: 5 in the code
  Fan,        \* the slots of a table: 512
  Weight,     \* Weight[l]: the pages below a slot of level l, the powers of
              \* Fan: 1 << (PAGING64_ADDR_PT_LOBIT - 12) for the last, ...
  Pages,      \* bound: the page numbers that calls are made with
  Fpns,       \* bound: frame numbers, as words
  SwpOffs,    \* bound: swap offsets, as words within their field
  MaxCalls,   \* bound: the calls, one after the other or at once
  MaxRange,   \* bound: the pages of one range
  MaxTables   \* the tables malloc has memory for

ASSUME PageTableAssumption ==
  /\ NULL \notin Procs
  /\ Levels \in Nat \ {0, 1} /\ Fan \in Nat \ {0}
  /\ Weight \in [1..Levels -> Nat \ {0}]
  /\ Weight[Levels] = 1
  /\ \A l \in 2..Levels : Weight[l - 1] = Fan * Weight[l]
  /\ Pages \subseteq Nat
  /\ Fpns \subseteq Word /\ SwpOffs \subseteq SUBSET (0..20)
  /\ MaxCalls \in Nat \ {0}
  /\ MaxRange \in Nat \ {0} /\ MaxTables \in Nat \ {0}

VARIABLES
  tables,      \* how many tables there are
  slot,        \* slot[t][i]: the table that slot i of table t points to
  word,        \* word[t][i]: the entry i of table t, if t is of the last level
  mmvm_lock,   \* the process that holds mmvm_lock
  pc,          \* where each process is in a walk
  op,          \* the call it is in
  level, cur,  \* the level it is at and its table there
  entry,       \* what pte_get_entry has returned last
  calls,       \* how many calls there have been (a bound)
  part,        \* part[t]: the pages below table t, by number (history)
  raced,       \* two walks have overlapped (history)
  crashed      \* a pointer that is none has been followed

memory == <<tables, slot, word, part>>
walk   == <<pc, op, level, cur>>
vars   == <<memory, walk, mmvm_lock, entry, calls, raced, crashed>>

Root   == 1
Unset  == 0    \* the null pointer
Wild   == -1   \* what malloc has left in a slot: no table, zero or not
Slots  == 0..(Fan - 1)
Tables == 1..MaxTables

(* Faulty variant: PAGING64_ADDR_PT_LOBIT is one too high. *)
Index_HighPt(g, l) == (g \div (IF l = Levels THEN 2 ELSE Weight[l])) % Fan

(* get_pd_from_address: the slot of page g at level l.  Of the page number *)
(* the bits beyond the first level are not looked at.                      *)
Index(g, l) == (g \div Weight[l]) % Fan

SlotOf(p) == Index(op[p].pgn, level[p])

(* The calls: pgn is the page, n the pages left, value what is entered. *)
Call(kind, g, n, value) == [kind |-> kind, pgn |-> g, n |-> n, value |-> value]
NoCall == Call("none", 0, 0, {})
Kinds  == {"none", "get", "fpn", "swap", "range", "memset", "print"}

(* Under the lock come pg_getpage, print_pgtbl after each instruction on   *)
(* the memory and, for __alloc, vmap_page_range.  A program that makes     *)
(* system call 17 comes to vmap_page_range ("range") and vmap_pgd_memset   *)
(* ("memset") without it.  In a range every page is walked to twice: by    *)
(* vmap_page_range, and by pte_set_fpn ("fpn").                            *)
RangeCalls(kinds) ==
  {Call(k, g, n, {}) : k \in kinds, g \in Pages, n \in 1..MaxRange}

LockedCalls == {Call("get", g, 1, {}) : g \in Pages}
               \cup {Call("fpn", g, 1, f) : g \in Pages, f \in Fpns}
               \cup {Call("swap", g, 1, s) : g \in Pages, s \in SwpOffs}
               \cup RangeCalls({"range", "print"})
UserCalls   == RangeCalls({"range", "memset"})

Zero(value) == [i \in Slots |-> value]

(* init_mm: the table of the first level. *)
Init == /\ tables = 1
        /\ slot = [t \in Tables |-> Zero(Unset)]
        /\ word = [t \in Tables |-> Zero({})]
        /\ part = [t \in Tables |-> 0]
        /\ mmvm_lock = NULL
        /\ pc = [p \in Procs |-> "run"]
        /\ op = [p \in Procs |-> NoCall]
        /\ level = [p \in Procs |-> 1]
        /\ cur = [p \in Procs |-> Root]
        /\ entry = {}
        /\ calls = 0
        /\ raced = FALSE
        /\ crashed = FALSE

Goto(p, label) == pc' = [pc EXCEPT ![p] = label]

-----------------------------------------------------------------------------
FromRoot(p) == /\ level' = [level EXCEPT ![p] = 1]
               /\ cur' = [cur EXCEPT ![p] = Root]

Enter(p, o) ==
  /\ calls < MaxCalls
  /\ calls' = calls + 1
  /\ op' = [op EXCEPT ![p] = o]
  /\ FromRoot(p)
  /\ raced' = (raced \/ \E q \in Procs \ {p} : pc[q] # "run")
  /\ Goto(p, "test")

LockedCall(p, o) ==
  /\ ~crashed /\ pc[p] = "run" /\ mmvm_lock = NULL
  /\ mmvm_lock' = p
  /\ Enter(p, o)
  /\ UNCHANGED <<memory, entry, crashed>>

UserCall(p, o) ==
  /\ ~crashed /\ pc[p] = "run"
  /\ Enter(p, o)
  /\ UNCHANGED <<memory, mmvm_lock, entry, crashed>>

Return(p) ==
  /\ op' = [op EXCEPT ![p] = NoCall]
  /\ FromRoot(p)
  /\ mmvm_lock' = IF mmvm_lock = p THEN NULL ELSE mmvm_lock
  /\ Goto(p, "run")

(* The next page of a range, or the end of the call. *)
NextPage(p) ==
  IF op[p].n > 1
    THEN /\ op' = [op EXCEPT ![p].pgn = @ + 1, ![p].n = @ - 1,
                             ![p].kind = IF @ = "fpn" THEN "range" ELSE @]
         /\ FromRoot(p)
         /\ UNCHANGED <<pc, mmvm_lock>>
    ELSE Return(p)

-----------------------------------------------------------------------------
(* One level of the walk. *)

AtSlot(p) == slot[cur[p]][SlotOf(p)]
Walking(p, label) == ~crashed /\ pc[p] = label

(* What malloc has left in a slot may be zero or not. *)
ReadsZero(p)    == AtSlot(p) \in {Unset, Wild}
ReadsNonzero(p) == AtSlot(p) # Unset

(* print_pgtbl shows the pointer to a table of entries, not the entries.   *)
(* It keeps what it has read of a slot; only overlapping walks could tell. *)
Shown(p) == op[p].kind = "print" /\ level[p] = Levels - 1

(* Faulty variant: a table is allocated although there is one. *)
SlotSet_Ignored(p) ==
  /\ Walking(p, "test") /\ level[p] < Levels /\ ReadsNonzero(p) /\ ~Shown(p)
  /\ Goto(p, IF op[p].kind \in {"get", "print"} THEN "follow" ELSE "allocate")
  /\ UNCHANGED <<memory, op, level, cur, mmvm_lock, entry, calls, raced, crashed>>

SlotSet(p) ==
  /\ Walking(p, "test") /\ level[p] < Levels /\ ReadsNonzero(p) /\ ~Shown(p)
  /\ Goto(p, "follow")
  /\ UNCHANGED <<memory, op, level, cur, mmvm_lock, entry, calls, raced, crashed>>

(* The page is entered: there will be a table. *)
SlotZero(p) ==
  /\ Walking(p, "test") /\ level[p] < Levels /\ ReadsZero(p)
  /\ op[p].kind \notin {"get", "print"}
  /\ Goto(p, "allocate")
  /\ UNCHANGED <<memory, op, level, cur, mmvm_lock, entry, calls, raced, crashed>>

(* pte_get_entry at a slot that is zero: the entry reads as zero. *)
GetNothing(p) ==
  /\ Walking(p, "test") /\ level[p] < Levels /\ ReadsZero(p)
  /\ op[p].kind = "get"
  /\ entry' = {}
  /\ Return(p)
  /\ UNCHANGED <<memory, calls, raced, crashed>>

(* print_pgtbl has shown the tables of a page, as far as they go. *)
PrintPage(p) ==
  /\ Walking(p, "test") /\ level[p] < Levels
  /\ op[p].kind = "print"
  /\ Shown(p) \/ ReadsZero(p)
  /\ NextPage(p)
  /\ UNCHANGED <<memory, entry, calls, raced, crashed>>

(* malloc does not clear the table; the null pointer it returns when there *)
(* is no memory is not looked at.                                          *)
NewTable(p) ==
  IF tables < MaxTables
    THEN /\ tables' = tables + 1
         /\ part' = [part EXCEPT ![tables'] = Fan * part[cur[p]] + SlotOf(p)]
         /\ slot' = [slot EXCEPT ![cur[p]][SlotOf(p)] = tables',
                                 ![tables'] = Zero(Wild)]
         /\ word' = [word EXCEPT ![tables'] = Zero(Bits64)]
    ELSE /\ slot' = [slot EXCEPT ![cur[p]][SlotOf(p)] = Unset]
         /\ UNCHANGED <<tables, part, word>>

(* Faulty variant: the new table is not cleared. *)
AllocateTable_NoClear(p) ==
  /\ Walking(p, "allocate")
  /\ NewTable(p)
  /\ Goto(p, "follow")
  /\ UNCHANGED <<op, level, cur, mmvm_lock, entry, calls, raced, crashed>>

AllocateTable(p) ==
  /\ Walking(p, "allocate")
  /\ NewTable(p)
  /\ Goto(p, "clear")
  /\ UNCHANGED <<op, level, cur, mmvm_lock, entry, calls, raced, crashed>>

(* memset of the table the slot points to, by now. *)
ClearTable(p) ==
  /\ Walking(p, "clear") /\ AtSlot(p) \in Tables
  /\ slot' = [slot EXCEPT ![AtSlot(p)] = Zero(Unset)]
  /\ word' = [word EXCEPT ![AtSlot(p)] = Zero({})]
  /\ Goto(p, "follow")
  /\ UNCHANGED <<tables, part, op, level, cur, mmvm_lock, entry, calls, raced, crashed>>

FollowSlot(p) ==
  /\ Walking(p, "follow") /\ AtSlot(p) \in Tables
  /\ cur' = [cur EXCEPT ![p] = AtSlot(p)]
  /\ level' = [level EXCEPT ![p] = @ + 1]
  /\ Goto(p, "test")
  /\ UNCHANGED <<memory, op, mmvm_lock, entry, calls, raced, crashed>>

(* The slot is null or points to no table, since malloc had no memory or   *)
(* another walk changed it: the access ends the program.                   *)
Crash(p) ==
  /\ ~crashed /\ pc[p] \in {"clear", "follow"}
  /\ AtSlot(p) \notin Tables
  /\ crashed' = TRUE
  /\ UNCHANGED <<memory, walk, mmvm_lock, entry, calls, raced>>

(* Nothing happens any more. *)
Stopped == /\ crashed \/ (calls = MaxCalls /\ \A p \in Procs : pc[p] = "run")
           /\ UNCHANGED vars

-----------------------------------------------------------------------------
(* The entry has been found. *)

AtEntry(p) == /\ Walking(p, "test") /\ level[p] = Levels

EntryWord(p) == word[cur[p]][SlotOf(p)]

(* Faulty variant: pte_get_entry returns the whole word. *)
GetEntry_Whole(p) ==
  /\ AtEntry(p) /\ op[p].kind = "get"
  /\ entry' = EntryWord(p)
  /\ Return(p)
  /\ UNCHANGED <<memory, calls, raced, crashed>>

(* pte_get_entry returns the lower half of the word. *)
GetEntry(p) ==
  /\ AtEntry(p) /\ op[p].kind = "get"
  /\ entry' = EntryWord(p) \cap Bits32
  /\ Return(p)
  /\ UNCHANGED <<memory, calls, raced, crashed>>

(* The tables of the page are there: pte_set_fpn, with the next frame. *)
SetFrame(p) ==
  /\ AtEntry(p) /\ op[p].kind = "range"
  /\ \E f \in Fpns :
       op' = [op EXCEPT ![p].kind = "fpn", ![p].value = f]
  /\ FromRoot(p)
  /\ UNCHANGED <<memory, pc, mmvm_lock, entry, calls, raced, crashed>>

(* The assignments to *pte, or the pattern. *)
NewWord(p) == CASE op[p].kind = "fpn"    -> FpnWord(EntryWord(p), op[p].value)
                [] op[p].kind = "swap"   -> SwapWord(EntryWord(p), {}, op[p].value)
                [] op[p].kind = "memset" -> PatternWord

(* The entry is set. *)
SetEntry(p) ==
  /\ AtEntry(p) /\ op[p].kind \in {"fpn", "swap", "memset"}
  /\ word' = [word EXCEPT ![cur[p]][SlotOf(p)] = NewWord(p)]
  /\ NextPage(p)
  /\ UNCHANGED <<tables, slot, part, entry, calls, raced, crashed>>

-----------------------------------------------------------------------------
Step(p) == \/ SlotSet(p) \/ SlotZero(p) \/ GetNothing(p) \/ PrintPage(p)
           \/ AllocateTable(p) \/ ClearTable(p) \/ FollowSlot(p) \/ Crash(p)
           \/ GetEntry(p) \/ SetFrame(p) \/ SetEntry(p)

Next == \/ \E p \in Procs : \/ \E o \in LockedCalls : LockedCall(p, o)
                            \/ \E o \in UserCalls : UserCall(p, o)
                            \/ Step(p)
        \/ Stopped

Spec == Init /\ [][Next]_vars

-----------------------------------------------------------------------------
(* Properties *)

(* Every variable holds a value of its kind. *)
TypeOK ==
  /\ tables \in Tables
  /\ slot \in [Tables -> [Slots -> Tables \cup {Unset, Wild}]]
  /\ word \in [Tables -> [Slots -> Word]]
  /\ part \in [Tables -> Nat]
  /\ mmvm_lock \in Procs \cup {NULL}
  /\ pc \in [Procs -> {"run", "test", "allocate", "clear", "follow"}]
  /\ op \in [Procs -> [kind : Kinds, pgn : Nat, n : Nat, value : Word]]
  /\ level \in [Procs -> 1..Levels]
  /\ cur \in [Procs -> Tables]
  /\ entry \in SUBSET Bits32
  /\ calls \in 0..MaxCalls
  /\ raced \in BOOLEAN /\ crashed \in BOOLEAN

(* The bus is as wide as the page numbers the levels tell apart. *)
BusPages == Fan * Weight[1]
OnBus(g) == g % BusPages

(***************************************************************************)
(* Two walks end at the same entry only for the same page, whatever other  *)
(* walks do to the tables in between, without the lock too: what is lost   *)
(* in a race is lost, but no page ever gets the entry of another one.      *)
(***************************************************************************)
EntryOfPage ==
  \A p, q \in Procs :
    AtEntry(p) /\ AtEntry(q) /\ cur[p] = cur[q] /\ SlotOf(p) = SlotOf(q)
      => OnBus(op[p].pgn) = OnBus(op[q].pgn)

(***************************************************************************)
(* As long as no two walks have overlapped and malloc has memory, a walk   *)
(* follows pointers to tables only, never what malloc left in a table.     *)
(***************************************************************************)
CrashOnlyByRace == crashed => raced \/ tables = MaxTables

(***************************************************************************)
(* As long as no two walks have overlapped, every table that was allocated *)
(* is in the tree, at one slot: none is replaced by another.               *)
(***************************************************************************)
EveryTableListed ==
  ~raced => \A t \in 2..tables :
              \E u \in 1..tables, i \in Slots :
                /\ slot[u][i] = t
                /\ \A v \in 1..tables, j \in Slots :
                     slot[v][j] = t => v = u /\ j = i

-----------------------------------------------------------------------------
(* The tree implements one entry per page (module FlatTable). *)

(* A slot whose new table is not cleared yet counts as zero. *)
InMaking(t, i) == \E p \in Procs : pc[p] = "clear" /\ cur[p] = t /\ SlotOf(p) = i

Below(t, i) == IF t \notin Tables \/ InMaking(t, i) THEN Unset ELSE slot[t][i]

(* The table of level l on the way to page g, or Unset. *)
TableOf(g, l) ==
  LET table[k \in 1..Levels] ==
        IF k = 1 THEN Root ELSE Below(table[k - 1], Index(g, k - 1))
  IN  table[l]

WordOf(g) == LET t == TableOf(g, Levels)
             IN  IF t \in Tables THEN word[t][Index(g, Levels)] ELSE {}

(* The number in the bits 0..25: value[n] is that of the n highest ones. *)
Num(bits) ==
  LET value[n \in 0..26] ==
        IF n = 0 THEN 0 ELSE 2 * value[n - 1] + (IF 26 - n \in bits THEN 1 ELSE 0)
  IN  value[26]

(* A word as a record of the flags and the number. *)
Decode(w) == [present |-> PresentMask \subseteq w, swapped |-> SwappedMask \subseteq w,
              low |-> Num(w)]

flatTable  == [g \in 0..(BusPages - 1) |-> Decode(WordOf(g))]
flatResult == Decode(entry)

Flat == INSTANCE FlatTable
          WITH AllPages <- 0..(BusPages - 1),
               Fpns     <- {Num(f) : f \in Fpns},
               SwpOffs  <- {Num(s) : s \in SwpOffs},
               table    <- flatTable,
               result   <- flatResult

(***************************************************************************)
(* As long as no two walks have overlapped, the tree of tables and the bit *)
(* fields of its words are one entry per page: each call changes the entry *)
(* of its page at one step, and all other entries keep what they hold.     *)
(***************************************************************************)
FlatUntilRaced == raced' \/ [Flat!Next]_<<flatTable, flatResult>>
ImplementsFlat == Flat!Init /\ [][FlatUntilRaced]_vars
=============================================================================
