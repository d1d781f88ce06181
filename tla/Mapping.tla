------------------------------ MODULE Mapping ------------------------------
(***************************************************************************)
(* The growth of the memory and the page fault, access by access:          *)
(* vm_map_ram of src/mm64.c with the list of free frames (mm-memphy.c),    *)
(* and pg_getpage of src/libmem.c with the FIFO of the pages in RAM.       *)
(*                                                                         *)
(* Both lists are linked lists without a lock of their own.  __alloc and   *)
(* pg_getpage hold mmvm_lock; a program that makes system call 17 itself   *)
(* maps pages without it, so that its steps come between theirs and those  *)
(* of other such programs.  Nodes do not change but for the last of the    *)
(* FIFO, so a pointer to a node is the list from there on.                 *)
(***************************************************************************)
EXTENDS Entries, Sequences, SequencesExt, FiniteSets

CONSTANTS
  Procs,       \* the processes that run at the same time
  NULL,
  RamFrames,   \* frames of RAM
  SwapFrames,  \* frames of the active swap device
  MaxPgn,      \* bound: the highest page number
  MaxRange,    \* bound: the pages of one growth
  MaxCalls     \* bound: the calls

ASSUME MappingAssumption == /\ NULL \notin Procs
                            /\ RamFrames \in 2..FpnField
                            /\ SwapFrames \in Nat \ {0, 1}
                            /\ MaxPgn \in Nat
                            /\ MaxRange \in Nat \ {0}
                            /\ MaxCalls \in Nat

VARIABLES
  free,        \* mram->free_fp_list, from its head: frame numbers
  swap_free,   \* that of the active swap device
  pte,         \* the page table
  fifo,        \* mm->fifo_pgn, from its head: page numbers
  next_pgn,    \* the first page beyond vm_end
  mmvm_lock,   \* the process that holds mmvm_lock
  pc, op,      \* where each process is in which call
  hold,        \* the list it has read the head of
  frames,      \* frm_lst, the frames it has got
  calls,       \* how many calls there have been (a bound)
  raced,       \* what two processes have been at, at once (history)
  passed,      \* victims that stayed in RAM, as swap was full (history)
  undefined    \* freed memory is in use, or a list leads there

lists  == <<free, swap_free, fifo>>
locals == <<pc, op, hold, frames>>
vars   == <<lists, locals, pte, next_pgn, mmvm_lock, calls, raced, passed, undefined>>

Frames == 0..(RamFrames - 1)
Pgns   == 0..MaxPgn

NoOp == [kind |-> "none", pgn |-> 0, n |-> 0, victim |-> 0, fpn |-> 0]

Init == /\ free = [k \in 1..RamFrames |-> k - 1]
        /\ swap_free = [k \in 1..SwapFrames |-> k - 1]
        /\ pte = [g \in Pgns |-> NoPte]
        /\ fifo = <<>>
        /\ next_pgn = 0
        /\ mmvm_lock = NULL
        /\ pc = [p \in Procs |-> "run"]
        /\ op = [p \in Procs |-> NoOp]
        /\ hold = [p \in Procs |-> <<>>]
        /\ frames = [p \in Procs |-> <<>>]
        /\ calls = 0
        /\ raced = {}
        /\ passed = {}
        /\ undefined = FALSE

At(p, label)   == ~undefined /\ pc[p] = label
Goto(p, label) == pc' = [pc EXCEPT ![p] = label]

(* A process reads the head of a list to change it: another may have read  *)
(* it for the same reason and not yet written it.                          *)
AtFree == {"take", "putback"}
AtFifo == {"unlink", "link"}

Overlap(p, labels, what) ==
  raced' = raced \cup {w \in {what} : \E q \in Procs \ {p} : pc[q] \in labels}

-----------------------------------------------------------------------------
(* The calls. *)

(* inc_vma_limit, from __alloc with the lock or from a program without it: *)
(* each call has pages of its own (module Regions has the accesses to      *)
(* vm_end).                                                                *)
Grow(p, n, locked) ==
  /\ At(p, "run") /\ calls < MaxCalls
  /\ next_pgn + n <= MaxPgn + 1
  /\ locked => mmvm_lock = NULL
  /\ mmvm_lock' = IF locked THEN p ELSE mmvm_lock
  /\ op' = [op EXCEPT ![p] = [NoOp EXCEPT !.kind = "grow", !.pgn = next_pgn, !.n = n]]
  /\ next_pgn' = next_pgn + n
  /\ calls' = calls + 1
  /\ Goto(p, "get")
  /\ UNCHANGED <<lists, pte, hold, frames, raced, passed, undefined>>

(* The pages that a call in progress will map. *)
Pending(q) == IF op[q].kind = "grow" THEN op[q].pgn..(op[q].pgn + op[q].n - 1) ELSE {}

(* An access to a page that is not present, below vm_end. *)
Fault(p, g) ==
  /\ At(p, "run") /\ calls < MaxCalls
  /\ g < next_pgn /\ ~pte[g].present
  /\ mmvm_lock = NULL /\ mmvm_lock' = p
  /\ op' = [op EXCEPT ![p] = [NoOp EXCEPT !.kind = "fault", !.pgn = g, !.n = 1]]
  /\ calls' = calls + 1
  /\ raced' = raced \cup {w \in {"page"} : \E q \in Procs : g \in Pending(q)}
  /\ Goto(p, "victim")
  /\ UNCHANGED <<lists, pte, next_pgn, hold, frames, passed, undefined>>

Return(p) == /\ op' = [op EXCEPT ![p] = NoOp]
             /\ mmvm_lock' = IF mmvm_lock = p THEN NULL ELSE mmvm_lock
             /\ Goto(p, "run")

-----------------------------------------------------------------------------
(* alloc_pages_range and MEMPHY_get_freefp *)

(* fp = mp->free_fp_list *)
ReadFree(p) ==
  /\ At(p, "get") /\ free # <<>>
  /\ hold' = [hold EXCEPT ![p] = free]
  /\ Overlap(p, AtFree, "frames")
  /\ Goto(p, "take")
  /\ UNCHANGED <<lists, op, frames, pte, next_pgn, mmvm_lock, calls, passed, undefined>>

(* There is none: what was got goes back. *)
NoneFree(p) ==
  /\ At(p, "get") /\ free = <<>>
  /\ Goto(p, "put")
  /\ UNCHANGED <<lists, op, hold, frames, pte, next_pgn, mmvm_lock, calls, raced,
                 passed, undefined>>

(* Faulty variant: the list keeps its head. *)
Take_KeepHead(p) ==
  /\ At(p, "take")
  /\ Goto(p, "free")
  /\ UNCHANGED <<lists, op, hold, frames, pte, next_pgn, mmvm_lock, calls, raced,
                 passed, undefined>>

(* *retfpn = fp->fpn; mp->free_fp_list = fp->fp_next *)
Take(p) ==
  /\ At(p, "take")
  /\ free' = Tail(hold[p])
  /\ Goto(p, "free")
  /\ UNCHANGED <<swap_free, fifo, op, hold, frames, pte, next_pgn, mmvm_lock, calls,
                 raced, passed, undefined>>

(* The node that p frees is held by another process, or it is in the list. *)
InUse(p) == LET f == Head(hold[p])
            IN  \/ f \in ToSet(free)
                \/ \E q \in Procs \ {p} : /\ pc[q] \in AtFree \cup {"free"}
                                          /\ hold[q] # <<>> /\ Head(hold[q]) = f

(* free(fp); the frame comes to the front of frm_lst. *)
FreeNode(p) ==
  /\ At(p, "free")
  /\ undefined' = InUse(p)
  /\ frames' = [frames EXCEPT ![p] = <<Head(hold[p])>> \o @]
  /\ Goto(p, IF Len(frames'[p]) < op[p].n THEN "get" ELSE "set")
  /\ UNCHANGED <<lists, op, hold, pte, next_pgn, mmvm_lock, calls, raced, passed>>

(* Rollback, MEMPHY_put_freefp: fp = mp->free_fp_list. *)
PutRead(p) ==
  /\ At(p, "put") /\ frames[p] # <<>>
  /\ hold' = [hold EXCEPT ![p] = free]
  /\ Overlap(p, AtFree, "frames")
  /\ Goto(p, "putback")
  /\ UNCHANGED <<lists, op, frames, pte, next_pgn, mmvm_lock, calls, passed, undefined>>

(* Faulty variant: the rest of the frames are forgotten. *)
PutBack_First(p) ==
  /\ At(p, "putback")
  /\ free' = <<Head(frames[p])>> \o hold[p]
  /\ frames' = [frames EXCEPT ![p] = <<>>]
  /\ Goto(p, "put")
  /\ UNCHANGED <<swap_free, fifo, op, hold, pte, next_pgn, mmvm_lock, calls, raced,
                 passed, undefined>>

(* newnode->fp_next = fp; mp->free_fp_list = newnode *)
PutBack(p) ==
  /\ At(p, "putback")
  /\ free' = <<Head(frames[p])>> \o hold[p]
  /\ frames' = [frames EXCEPT ![p] = Tail(@)]
  /\ Goto(p, "put")
  /\ UNCHANGED <<swap_free, fifo, op, hold, pte, next_pgn, mmvm_lock, calls, raced,
                 passed, undefined>>

(* All are back: vmap_page_range has no frame to map. *)
GrowFails(p) ==
  /\ At(p, "put") /\ frames[p] = <<>>
  /\ Return(p)
  /\ UNCHANGED <<lists, hold, frames, pte, next_pgn, calls, raced, passed, undefined>>

-----------------------------------------------------------------------------
(* vmap_page_range: pte_set_fpn, then enlist_pgn_node, page after page. *)

SetPage(p) ==
  /\ At(p, "set")
  /\ pte' = [pte EXCEPT ![op[p].pgn] = SetFpn(@, Head(frames[p]))]
  /\ frames' = [frames EXCEPT ![p] = Tail(@)]
  /\ Goto(p, "enlist")
  /\ UNCHANGED <<lists, op, hold, next_pgn, mmvm_lock, calls, raced, passed, undefined>>

(* pnode->pg_next = *plist *)
Enlist(p) ==
  /\ At(p, "enlist")
  /\ hold' = [hold EXCEPT ![p] = fifo]
  /\ Overlap(p, AtFifo, "fifo")
  /\ Goto(p, "link")
  /\ UNCHANGED <<lists, op, frames, pte, next_pgn, mmvm_lock, calls, passed, undefined>>

(* Faulty variant: the page number moves on before the page is entered. *)
Link_Later(p) ==
  /\ At(p, "link")
  /\ fifo' = <<op[p].pgn + 1>> \o hold[p]
  /\ IF op[p].n > 1
       THEN /\ op' = [op EXCEPT ![p].pgn = @ + 1, ![p].n = @ - 1]
            /\ Goto(p, "set")
            /\ UNCHANGED mmvm_lock
       ELSE Return(p)
  /\ UNCHANGED <<free, swap_free, hold, frames, pte, next_pgn, calls, raced, passed,
                 undefined>>

(* Faulty variant: a page enters the FIFO instead of the others. *)
Link_Alone(p) ==
  /\ At(p, "link")
  /\ fifo' = <<op[p].pgn>>
  /\ IF op[p].n > 1
       THEN /\ op' = [op EXCEPT ![p].pgn = @ + 1, ![p].n = @ - 1]
            /\ Goto(p, "set")
            /\ UNCHANGED mmvm_lock
       ELSE Return(p)
  /\ UNCHANGED <<free, swap_free, hold, frames, pte, next_pgn, calls, raced, passed,
                 undefined>>

(* *plist = pnode; then the next page, or the end of the call. *)
Link(p) ==
  /\ At(p, "link")
  /\ fifo' = <<op[p].pgn>> \o hold[p]
  /\ IF op[p].n > 1
       THEN /\ op' = [op EXCEPT ![p].pgn = @ + 1, ![p].n = @ - 1]
            /\ Goto(p, "set")
            /\ UNCHANGED mmvm_lock
       ELSE Return(p)
  /\ UNCHANGED <<free, swap_free, hold, frames, pte, next_pgn, calls, raced, passed,
                 undefined>>

-----------------------------------------------------------------------------
(* pg_getpage: find_victim_page, a frame of swap, and the two entries. *)

(* pg = mm->fifo_pgn *)
ReadFifo(p) ==
  /\ At(p, "victim") /\ fifo # <<>>
  /\ hold' = [hold EXCEPT ![p] = fifo]
  /\ Overlap(p, AtFifo, "fifo")
  /\ Goto(p, "unlink")
  /\ UNCHANGED <<lists, op, frames, pte, next_pgn, mmvm_lock, calls, passed, undefined>>

NoVictim(p) ==
  /\ At(p, "victim") /\ fifo = <<>>
  /\ Return(p)
  /\ UNCHANGED <<lists, hold, frames, pte, next_pgn, calls, raced, passed, undefined>>

(* A list without the last node of the FIFO, if that is in it. *)
Without(list, g) == IF list # <<>> /\ Last(list) = g THEN Front(list) ELSE list

(* Faulty variant: the node before the last is not told. *)
Unlink_Keep(p) ==
  LET g == Last(hold[p])
  IN  /\ At(p, "unlink")
      /\ fifo' = IF Len(hold[p]) = 1 THEN <<>> ELSE fifo
      /\ op' = [op EXCEPT ![p].victim = g]
      /\ Goto(p, "evict")
      /\ UNCHANGED <<free, swap_free, hold, frames, pte, next_pgn, mmvm_lock, calls, raced,
                     passed, undefined>>

(* The last node goes: from the node before it, in whatever list that is   *)
(* by now, or, when there was none, with all that is in the FIFO.  Then it *)
(* is freed, also when another process has just read it as the head.       *)
Unlink(p) ==
  LET g == Last(hold[p])
  IN  /\ At(p, "unlink")
      /\ IF Len(hold[p]) = 1
           THEN /\ fifo' = <<>>
                /\ undefined' = \E q \in Procs \ {p} : pc[q] = "link" /\ g \in ToSet(hold[q])
                /\ UNCHANGED hold
           ELSE /\ fifo' = Without(fifo, g)
                /\ hold' = [q \in Procs |-> IF pc[q] \in AtFifo THEN Without(hold[q], g)
                                            ELSE hold[q]]
                /\ UNCHANGED undefined
      /\ op' = [op EXCEPT ![p].victim = g]
      /\ Goto(p, "evict")
      /\ UNCHANGED <<free, swap_free, frames, pte, next_pgn, mmvm_lock, calls, raced, passed>>

(* The victim goes to a frame of swap: pte_set_swap. *)
Evict(p) ==
  /\ At(p, "evict") /\ swap_free # <<>>
  /\ swap_free' = Tail(swap_free)
  /\ op' = [op EXCEPT ![p].fpn = PAGING_FPN(pte[op[p].victim])]
  /\ pte' = [pte EXCEPT ![op[p].victim] = SetSwap(Head(swap_free))]
  /\ Goto(p, "give")
  /\ UNCHANGED <<free, fifo, hold, frames, next_pgn, mmvm_lock, calls, raced, passed,
                 undefined>>

(* No frame of swap is free: the victim stays in RAM, off the list. *)
NoSwap(p) ==
  /\ At(p, "evict") /\ swap_free = <<>>
  /\ passed' = passed \cup {op[p].victim}
  /\ Return(p)
  /\ UNCHANGED <<lists, hold, frames, pte, next_pgn, calls, raced, undefined>>

(* Its frame goes to the page: pte_set_fpn. *)
Give(p) ==
  /\ At(p, "give")
  /\ pte' = [pte EXCEPT ![op[p].pgn] = SetFpn(@, op[p].fpn)]
  /\ Goto(p, "enlist")
  /\ UNCHANGED <<lists, op, hold, frames, next_pgn, mmvm_lock, calls, raced, passed,
                 undefined>>

(* Nothing happens any more. *)
Stopped == /\ undefined \/ \A p \in Procs : pc[p] = "run"
           /\ undefined \/ calls = MaxCalls \/ next_pgn > MaxPgn
           /\ UNCHANGED vars

-----------------------------------------------------------------------------
Step(p) == \/ ReadFree(p) \/ NoneFree(p) \/ Take(p) \/ FreeNode(p)
           \/ PutRead(p) \/ PutBack(p) \/ GrowFails(p)
           \/ SetPage(p) \/ Enlist(p) \/ Link(p)
           \/ ReadFifo(p) \/ NoVictim(p) \/ Unlink(p)
           \/ Evict(p) \/ NoSwap(p) \/ Give(p)

Next == \/ \E p \in Procs : \/ \E n \in 1..MaxRange, locked \in BOOLEAN : Grow(p, n, locked)
                            \/ \E g \in Pgns : Fault(p, g)
                            \/ Step(p)
        \/ Stopped

Spec == Init /\ [][Next]_vars

-----------------------------------------------------------------------------
(* Properties *)

(* Every variable holds a value of its kind. *)
TypeOK ==
  /\ free \in Seq(Frames)
  /\ swap_free \in Seq(0..(SwapFrames - 1))
  /\ pte \in [Pgns -> Entry]
  /\ fifo \in Seq(Pgns)
  /\ next_pgn \in 0..(MaxPgn + 1)
  /\ mmvm_lock \in Procs \cup {NULL}
  /\ pc \in [Procs -> {"run", "get", "take", "free", "put", "putback", "set", "enlist",
                       "link", "victim", "unlink", "evict", "give"}]
  /\ op \in [Procs -> [kind : {"none", "grow", "fault"}, pgn : Nat, n : Nat,
                        victim : Pgns, fpn : Nat]]
  /\ hold \in [Procs -> Seq(Nat)]
  /\ frames \in [Procs -> Seq(Frames)]
  /\ calls \in 0..MaxCalls
  /\ raced \subseteq {"frames", "fifo", "page"}
  /\ passed \subseteq Pgns
  /\ undefined \in BOOLEAN

Online == {g \in Pgns : pte[g].present /\ ~pte[g].swapped}

(* Where frame f is: in the list, in the hands of a process, at a page. *)
InHand(p, f) == \/ f \in ToSet(frames[p])
                \/ pc[p] = "free" /\ Head(hold[p]) = f
                \/ pc[p] = "give" /\ op[p].fpn = f

Places(f) == {<<"free", k>> : k \in {k \in DOMAIN free : free[k] = f}}
             \cup {<<"hand", p>> : p \in {p \in Procs : InHand(p, f)}}
             \cup {<<"page", g>> : g \in {g \in Online : PAGING_FPN(pte[g]) = f}}

(***************************************************************************)
(* A frame of RAM is at one place at any instant: free, in the hands of    *)
(* one process, or at one page; none is given twice and none gets lost, by *)
(* calls that take frames, give them back and swap pages out at once.      *)
(* Only two that are at the head of the list at once, or a fault for a     *)
(* page that is still to be mapped, can break this.                        *)
(***************************************************************************)
FramesApart ==
  ~undefined /\ raced \cap {"frames", "page"} = {}
    => \A f \in Frames : Cardinality(Places(f)) = 1

(***************************************************************************)
(* A page is a victim to be only while it is in RAM, and once, also when   *)
(* two are at the head of the FIFO at once; only a fault for a page that   *)
(* is still to be mapped can break this.                                   *)
(***************************************************************************)
VictimsInRam ==
  ~undefined /\ "page" \notin raced => IsInjective(fifo) /\ ToSet(fifo) \subseteq Online

(***************************************************************************)
(* Every page in RAM is a victim to be, or a process is about to enter it, *)
(* or swap was full when it was chosen: no frame is out of reach of the    *)
(* replacement, unless two have been at the head of the FIFO at once.      *)
(***************************************************************************)
Leaving(p, g)  == pc[p] \in {"evict", "give"} /\ op[p].victim = g
Entering(p, g) == pc[p] \in {"enlist", "link"} /\ op[p].pgn = g

EveryPageListed ==
  ~undefined /\ "fifo" \notin raced
    => \A g \in Online :
         \/ g \in ToSet(fifo) \cup passed
         \/ \E p \in Procs : Leaving(p, g) \/ Entering(p, g)

(***************************************************************************)
(* No freed node is used or left in a list, unless two have been at the    *)
(* head of the same list at once.                                          *)
(***************************************************************************)
FreedOnlyByRace == undefined => raced \cap {"frames", "fifo"} # {}
=============================================================================
