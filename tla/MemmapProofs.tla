---------------------------- MODULE MemmapProofs ----------------------------
(***************************************************************************)
(* Theorems about module Memmap: its types, that a process that runs is in *)
(* running_list at every instant, and that the look-up of system call 17   *)
(* misses its caller only when a purge overlaps it, for any number of CPUs *)
(* and of processes that running_list has room for.                        *)
(***************************************************************************)
EXTENDS Memmap, FiniteSetTheorems, TLAPS

Index == 0..(MaxQueueSize - 1)

(* Types that TypeOK leaves open: who holds the lock, who has a process.   *)
PlaceInv ==
  \A c \in CPUs :
    /\ pc[c] \in {"search", "shift"} <=> queue_lock = c
    /\ pc[c] \in {"search", "shift", "run", "test", "read", "looked"} => held[c] \in Procs
    /\ pc[c] = "get" => held[c] = NULL
    /\ pc[c] = "read" => i[c] < MaxQueueSize

(* A process is in the ready queues or with one CPU, not both. *)
HeldInv ==
  /\ \A c \in CPUs : held[c] \notin waiting
  /\ \A c, d \in CPUs : held[c] = held[d] /\ held[c] # NULL => c = d

(* The entries of running_list but for the one that a purge has found: the *)
(* index of the purge is a hole, whose entry counts no more.               *)
Live == {n \in 0..(size - 1) : \A c \in CPUs : pc[c] = "shift" => i[c] # n}

(* The live entries are distinct processes outside the ready queues.       *)
EntryInv ==
  /\ \A n \in Live : entry[n] \in Procs \ waiting
  /\ \A m, n \in Live : entry[m] = entry[n] => m = n

(* Every process that a CPU holds is a live entry, but for one that is     *)
(* being purged.                                                           *)
ListedInv ==
  \A c \in CPUs : held[c] # NULL /\ pc[c] # "shift" => \E n \in Live : entry[n] = held[c]

(* A purge has not passed the entry of its process, or it has removed it.  *)
PurgeInv ==
  \A c \in CPUs :
    /\ pc[c] = "search" => /\ i[c] <= size
                           /\ \A n \in 0..(i[c] - 1) : entry[n] # held[c]
    /\ pc[c] = "shift" => /\ i[c] < size
                          /\ \A n \in Live : entry[n] # held[c]

(* A look-up that nobody has disturbed has not passed the entry of its     *)
(* caller.                                                                 *)
LookInv ==
  \A c \in CPUs :
    /\ InLookup(c) /\ ~disturbed[c] =>
         /\ i[c] <= size
         /\ pc[c] = "read" => i[c] < size
         /\ \A n \in 0..(i[c] - 1) : entry[n] # held[c]
    /\ pc[c] = "looked" /\ caller[c] = NULL => disturbed[c]

IInv == /\ TypeOK /\ PlaceInv /\ HeldInv
        /\ EntryInv /\ ListedInv /\ PurgeInv /\ LookInv

-----------------------------------------------------------------------------
(* The invariant holds of the empty lists at the start. *)
THEOREM InitInv == Init => IInv
<1>1. SUFFICES ASSUME Init PROVE IInv
  OBVIOUS
<1>2. MaxQueueSize \in Nat /\ NULL \notin Procs /\ NULL \notin CPUs
  BY MemmapAssumption
<1>3. TypeOK
  BY <1>1, <1>2 DEF Init, TypeOK
<1>4. PlaceInv /\ HeldInv /\ PurgeInv /\ LookInv /\ ListedInv
  BY <1>1, <1>2 DEF Init, PlaceInv, HeldInv, PurgeInv, LookInv, ListedInv, InLookup
<1>5. Live = {}
  BY <1>1 DEF Init, Live
<1>6. EntryInv
  BY <1>5 DEF EntryInv
<1>7. QED
  BY <1>3, <1>4, <1>6 DEF IInv

(* The steps that change neither the list nor who has which process, and   *)
(* that no purge takes: a CPU goes from one place to another.              *)
LEMMA QuietStep ==
  ASSUME IInv, UNCHANGED <<list, queue_lock, waiting, held>>,
         pc' \in [CPUs -> {"top", "get", "search", "shift", "run", "test", "read",
                           "looked", "arrived"}],
         \A c \in CPUs : pc'[c] # pc[c] => {pc[c], pc'[c]} \cap {"search", "shift"} = {},
         \A c \in CPUs : pc[c] \in {"search", "shift"} => i'[c] = i[c]
  PROVE  /\ Live' = Live
         /\ HeldInv' /\ EntryInv' /\ ListedInv' /\ PurgeInv'
<1>1. \A c \in CPUs : /\ pc'[c] \in {"search", "shift"} => pc'[c] = pc[c]
                      /\ pc[c] \in {"search", "shift"} => pc'[c] = pc[c]
  OBVIOUS
<1>2. \A c \in CPUs : /\ pc'[c] = "shift" <=> pc[c] = "shift"
                      /\ pc'[c] = "search" <=> pc[c] = "search"
  BY <1>1
<1>3. Live' = Live
  BY <1>2 DEF Live, list
<1>4. HeldInv' /\ EntryInv' /\ ListedInv' /\ PurgeInv'
  BY <1>2, <1>3 DEF IInv, HeldInv, EntryInv, ListedInv, PurgeInv, list
<1>5. QED
  BY <1>3, <1>4

(* What the look-up of c needs: every entry of its list that it has not    *)
(* passed is ahead of it.                                                  *)
LEMMA NotPassed ==
  ASSUME IInv, NEW c \in CPUs, pc[c] = "test", ~disturbed[c]
  PROVE  i[c] < size
<1>1. held[c] \in Procs /\ held[c] # NULL /\ pc[c] # "shift"
  BY MemmapAssumption DEF IInv, PlaceInv
<1>2. PICK n \in Live : entry[n] = held[c]
  BY <1>1 DEF IInv, ListedInv
<1>3. n \in 0..(size - 1) /\ size \in Nat /\ i[c] \in Nat
  BY <1>2 DEF Live, IInv, TypeOK
<1>4. n \notin 0..(i[c] - 1)
  BY <1>2 DEF IInv, LookInv, InLookup
<1>5. QED
  BY <1>3, <1>4

LEMMA LookupSteps ==
  ASSUME IInv, NEW c \in CPUs,
         LookupBegin(c) \/ LookupTest(c) \/ LookupRead(c) \/ LookupStale(c) \/ LookupEnd(c)
  PROVE  IInv'
<1>1. TypeOK /\ PlaceInv /\ LookInv /\ MaxQueueSize \in Nat
  BY MemmapAssumption DEF IInv
<1>2. UNCHANGED <<list, queue_lock, waiting, held>>
  BY DEF LookupBegin, LookupTest, LookupRead, LookupStale, LookupEnd
<1>3. /\ \A d \in CPUs \ {c} : /\ pc'[d] = pc[d] /\ i'[d] = i[d]
                               /\ caller'[d] = caller[d] /\ disturbed'[d] = disturbed[d]
      /\ {pc[c], pc'[c]} \subseteq {"run", "test", "read", "looked", "arrived"}
      /\ pc' \in [CPUs -> {"top", "get", "search", "shift", "run", "test", "read",
                           "looked", "arrived"}]
  BY <1>1 DEF TypeOK, Goto, Step, LookupBegin, LookupTest, LookupRead, LookupStale, LookupEnd
<1>4. HeldInv' /\ EntryInv' /\ ListedInv' /\ PurgeInv'
  <2>1. /\ \A d \in CPUs : pc'[d] # pc[d] => {pc[d], pc'[d]} \cap {"search", "shift"} = {}
        /\ \A d \in CPUs : pc[d] \in {"search", "shift"} => i'[d] = i[d]
    BY <1>3
  <2>2. QED
    BY <1>2, <1>3, <2>1, QuietStep
<1>5. CASE LookupBegin(c)
  <2>1. TypeOK'
    BY <1>1, <1>2, <1>5 DEF TypeOK, LookupBegin, Goto, list
  <2>2. PlaceInv'
    BY <1>1, <1>2, <1>5 DEF TypeOK, PlaceInv, LookupBegin, Goto, list
  <2>3. LookInv'
    BY <1>1, <1>2, <1>5 DEF TypeOK, LookInv, InLookup, LookupBegin, Goto, list
  <2>4. QED
    BY <1>4, <2>1, <2>2, <2>3 DEF IInv
<1>6. CASE LookupTest(c)
  <2>1. TypeOK'
    BY <1>1, <1>2, <1>6 DEF TypeOK, LookupTest, Goto, list
  <2>2. PlaceInv'
    BY <1>1, <1>2, <1>6 DEF TypeOK, PlaceInv, LookupTest, Goto, list
  <2>3. disturbed[c] \/ i[c] < size
    BY <1>6, NotPassed DEF LookupTest
  <2>4. LookInv'
    BY <1>1, <1>2, <1>6, <2>3 DEF TypeOK, LookInv, InLookup, LookupTest, Goto, list
  <2>5. QED
    BY <1>4, <2>1, <2>2, <2>4 DEF IInv
<1>7. CASE LookupRead(c)
  <2>1. i[c] < MaxQueueSize /\ held[c] \in Procs /\ held[c] # NULL
    BY <1>1, <1>7, MemmapAssumption DEF PlaceInv, LookupRead
  <2>2. TypeOK'
    <3>1. i[c] + 1 \in 0..MaxQueueSize
      BY <1>1, <2>1 DEF TypeOK
    <3>2. i' \in [CPUs -> 0..MaxQueueSize]
      BY <1>1, <1>7, <3>1 DEF TypeOK, LookupRead, Step
    <3>3. caller' \in [CPUs -> Procs \cup {NULL}] /\ disturbed' = disturbed
      BY <1>1, <1>7, <2>1 DEF TypeOK, LookupRead
    <3>4. QED
      BY <1>1, <1>2, <1>3, <3>2, <3>3 DEF TypeOK, list
  <2>3. PlaceInv'
    BY <1>1, <1>2, <1>7 DEF TypeOK, PlaceInv, LookupRead, Goto, Step, list
  <2>4. LookInv'
    <3>1. ASSUME NEW d \in CPUs, d # c
          PROVE  /\ InLookup(d)' /\ ~disturbed'[d] =>
                      /\ i'[d] <= size'
                      /\ pc'[d] = "read" => i'[d] < size'
                      /\ \A n \in 0..(i'[d] - 1) : entry'[n] # held'[d]
                 /\ pc'[d] = "looked" /\ caller'[d] = NULL => disturbed'[d]
      BY <1>1, <1>2, <1>3, <3>1 DEF LookInv, InLookup, list
    <3>2. CASE entry[i[c]] = held[c]
      <4>1. pc'[c] = "looked" /\ caller'[c] # NULL
        BY <1>1, <1>7, <2>1, <3>2 DEF LookupRead, Goto, TypeOK
      <4>2. QED
        BY <3>1, <4>1 DEF LookInv, InLookup
    <3>3. CASE entry[i[c]] # held[c]
      <4>1. pc'[c] = "test" /\ i'[c] = i[c] + 1 /\ pc[c] = "read" /\ disturbed' = disturbed
        BY <1>1, <1>7, <3>3 DEF LookupRead, Goto, Step, TypeOK
      <4>2. i[c] \in Nat /\ size \in Nat
        BY <1>1 DEF TypeOK
      <4>3. ~disturbed[c] => /\ i[c] < size
                             /\ \A n \in 0..(i[c] - 1) : entry[n] # held[c]
        BY <1>1, <4>1 DEF LookInv, InLookup
      <4>4. ~disturbed[c] => \A n \in 0..i[c] : entry[n] # held[c]
        BY <3>3, <4>2, <4>3
      <4>5. InLookup(c)' /\ ~disturbed'[c] =>
              /\ i'[c] <= size'
              /\ pc'[c] = "read" => i'[c] < size'
              /\ \A n \in 0..(i'[c] - 1) : entry'[n] # held'[c]
        BY <1>2, <4>1, <4>2, <4>3, <4>4 DEF list
      <4>6. QED
        BY <3>1, <4>1, <4>5 DEF LookInv
    <3>4. QED
      BY <3>2, <3>3
  <2>5. QED
    BY <1>4, <2>2, <2>3, <2>4 DEF IInv
<1>8. CASE LookupStale(c)
  <2>1. entry[i[c]] \in Procs /\ entry[i[c]] # NULL
    BY <1>8, MemmapAssumption DEF LookupStale
  <2>2. TypeOK'
    BY <1>1, <1>2, <1>8, <2>1 DEF TypeOK, LookupStale, Goto, list
  <2>3. PlaceInv'
    BY <1>1, <1>2, <1>8 DEF TypeOK, PlaceInv, LookupStale, Goto, list
  <2>4. LookInv'
    BY <1>1, <1>2, <1>8, <2>1 DEF TypeOK, LookInv, InLookup, LookupStale, Goto, list
  <2>5. QED
    BY <1>4, <2>2, <2>3, <2>4 DEF IInv
<1>9. CASE LookupEnd(c)
  <2>1. TypeOK'
    BY <1>1, <1>2, <1>9 DEF TypeOK, LookupEnd, Goto, list
  <2>2. PlaceInv'
    BY <1>1, <1>2, <1>9 DEF TypeOK, PlaceInv, LookupEnd, Goto, list
  <2>3. LookInv'
    BY <1>1, <1>2, <1>9 DEF TypeOK, LookInv, InLookup, LookupEnd, Goto, list
  <2>4. QED
    BY <1>4, <2>1, <2>2, <2>3 DEF IInv
<1>10. QED
  BY <1>5, <1>6, <1>7, <1>8, <1>9

(* Keep, GetNone, RunPlain and the tick go from one place to another. *)
LEMMA PlaceSteps ==
  ASSUME IInv, (\E c \in CPUs : Keep(c) \/ GetNone(c) \/ RunPlain(c)) \/ Tick
  PROVE  IInv'
<1>1. TypeOK /\ PlaceInv /\ LookInv /\ MaxQueueSize \in Nat
  BY MemmapAssumption DEF IInv
<1>2. UNCHANGED <<list, queue_lock, waiting, held, i, caller, disturbed>>
  BY DEF Keep, GetNone, RunPlain, Tick
<1>3. /\ pc' \in [CPUs -> {"top", "get", "run", "search", "shift", "test", "read", "looked",
                           "arrived"}]
      /\ \A c \in CPUs : \/ pc'[c] = pc[c]
                         \/ /\ pc[c] \in {"top", "get", "run", "arrived"}
                            /\ pc'[c] \in {"top", "run", "arrived"}
                            /\ pc'[c] = "run" => held[c] # NULL
  BY <1>1 DEF TypeOK, WantsProc, Keep, GetNone, RunPlain, Tick, Goto
<1>4. HeldInv' /\ EntryInv' /\ ListedInv' /\ PurgeInv'
  <2>1. /\ \A d \in CPUs : pc'[d] # pc[d] => {pc[d], pc'[d]} \cap {"search", "shift"} = {}
        /\ \A d \in CPUs : pc[d] \in {"search", "shift"} => i'[d] = i[d]
    BY <1>2, <1>3
  <2>2. QED
    BY <1>2, <1>3, <2>1, QuietStep
<1>5. TypeOK'
  BY <1>1, <1>2, <1>3 DEF TypeOK, list
<1>6. PlaceInv'
  BY <1>1, <1>2, <1>3 DEF TypeOK, PlaceInv, list
<1>7. LookInv'
  BY <1>1, <1>2, <1>3 DEF LookInv, InLookup, list
<1>8. QED
  BY <1>4, <1>5, <1>6, <1>7 DEF IInv

-----------------------------------------------------------------------------
(* Only the CPU that holds the lock purges. *)
LEMMA OnePurge ==
  ASSUME IInv, NEW c \in CPUs, queue_lock = c
  PROVE  \A d \in CPUs : pc[d] \in {"search", "shift"} => d = c
BY DEF IInv, PlaceInv

LEMMA FinishStep ==
  ASSUME IInv, NEW c \in CPUs, Finish(c)
  PROVE  IInv'
<1>1. TypeOK /\ PlaceInv /\ HeldInv /\ MaxQueueSize \in Nat
  BY MemmapAssumption DEF IInv
<1>2. /\ pc[c] = "top" /\ pc' = [pc EXCEPT ![c] = "get"]
      /\ held' = [held EXCEPT ![c] = NULL]
      /\ UNCHANGED <<entry, size, queue_lock, waiting, i, caller, disturbed>>
  BY DEF Finish, Goto, list
<1>3. TypeOK'
  BY <1>1, <1>2 DEF TypeOK
<1>4. PlaceInv'
  BY <1>1, <1>2 DEF TypeOK, PlaceInv
<1>5. HeldInv'
  <2>1. NULL \notin waiting
    BY <1>1, MemmapAssumption DEF TypeOK
  <2>2. QED
    BY <1>1, <1>2, <2>1 DEF TypeOK, HeldInv
<1>6. Live' = Live
  BY <1>1, <1>2 DEF TypeOK, Live
<1>7. EntryInv'
  BY <1>2, <1>6 DEF IInv, EntryInv
<1>8. ListedInv'
  BY <1>1, <1>2, <1>6 DEF IInv, TypeOK, ListedInv
<1>9. PurgeInv'
  BY <1>1, <1>2, <1>6 DEF IInv, TypeOK, PurgeInv
<1>10. LookInv'
  BY <1>1, <1>2 DEF IInv, TypeOK, LookInv, InLookup
<1>11. QED
  BY <1>3, <1>4, <1>5, <1>7, <1>8, <1>9, <1>10 DEF IInv

LEMMA PutBeginStep ==
  ASSUME IInv, NEW c \in CPUs, PutBegin(c)
  PROVE  IInv'
<1>1. TypeOK /\ PlaceInv /\ MaxQueueSize \in Nat
  BY MemmapAssumption DEF IInv
<1>2. /\ pc[c] = "top" /\ held[c] # NULL /\ queue_lock = NULL /\ queue_lock' = c
      /\ pc' = [pc EXCEPT ![c] = "search"]
      /\ i' = [i EXCEPT ![c] = 0]
      /\ UNCHANGED <<entry, size, waiting, held, caller, disturbed>>
  BY DEF PutBegin, Goto, list
<1>3. TypeOK'
  BY <1>1, <1>2 DEF TypeOK
<1>4. PlaceInv'
  <2>1. held[c] \in Procs
    BY <1>1, <1>2 DEF TypeOK
  <2>2. \A d \in CPUs : pc[d] \notin {"search", "shift"}
    BY <1>1, <1>2, MemmapAssumption DEF PlaceInv
  <2>3. QED
    BY <1>1, <1>2, <2>1, <2>2 DEF TypeOK, PlaceInv
<1>5. HeldInv'
  BY <1>2 DEF IInv, HeldInv
<1>6. Live' = Live
  BY <1>1, <1>2 DEF TypeOK, Live
<1>7. EntryInv'
  BY <1>2, <1>6 DEF IInv, EntryInv
<1>8. ListedInv'
  BY <1>1, <1>2, <1>6 DEF IInv, TypeOK, ListedInv
<1>9. PurgeInv'
  BY <1>1, <1>2, <1>6 DEF IInv, TypeOK, PurgeInv
<1>10. LookInv'
  BY <1>1, <1>2 DEF IInv, TypeOK, LookInv, InLookup
<1>11. QED
  BY <1>3, <1>4, <1>5, <1>7, <1>8, <1>9, <1>10 DEF IInv

LEMMA PurgeSearchStep ==
  ASSUME IInv, NEW c \in CPUs, PurgeSearch(c)
  PROVE  IInv'
<1>1. TypeOK /\ PlaceInv /\ MaxQueueSize \in Nat
  BY MemmapAssumption DEF IInv
<1>2. /\ pc[c] = "search" /\ i[c] < size /\ held[c] \in Procs /\ held[c] # NULL
      /\ i[c] \in Nat /\ size \in 0..MaxQueueSize
      /\ UNCHANGED <<entry, size, queue_lock, waiting, held, caller, disturbed>>
  BY <1>1, MemmapAssumption DEF PurgeSearch, list, PlaceInv, TypeOK
<1>3. queue_lock = c /\ \A d \in CPUs : pc[d] \in {"search", "shift"} => d = c
  BY <1>1, <1>2, OnePurge DEF PlaceInv
<1>4. HeldInv'
  BY <1>2 DEF IInv, HeldInv
<1>5. CASE entry[i[c]] = held[c]
  <2>1. pc' = [pc EXCEPT ![c] = "shift"] /\ i' = i
    BY <1>5 DEF PurgeSearch, Goto
  <2>2. TypeOK'
    BY <1>1, <1>2, <2>1 DEF TypeOK
  <2>3. PlaceInv'
    BY <1>1, <1>2, <1>3, <2>1 DEF TypeOK, PlaceInv
  <2>4. i[c] \in Live /\ Live' = Live \ {i[c]}
    BY <1>1, <1>2, <1>3, <2>1 DEF TypeOK, Live
  <2>5. EntryInv'
    BY <1>2, <2>4 DEF IInv, EntryInv
  <2>6. ListedInv'
    <3>1. SUFFICES ASSUME NEW d \in CPUs, held[d] # NULL, pc'[d] # "shift"
                   PROVE  \E n \in Live' : entry[n] = held[d]
      BY <1>2 DEF ListedInv
    <3>2. d # c /\ pc[d] # "shift"
      BY <1>1, <1>3, <2>1, <3>1 DEF TypeOK
    <3>3. held[d] # held[c]
      BY <1>2, <3>1, <3>2 DEF IInv, HeldInv
    <3>4. PICK n \in Live : entry[n] = held[d]
      BY <3>1, <3>2 DEF IInv, ListedInv
    <3>5. QED
      BY <1>5, <2>4, <3>3, <3>4
  <2>7. PurgeInv'
    <3>1. \A n \in Live' : entry[n] # held[c]
      BY <1>5, <2>4 DEF IInv, EntryInv
    <3>2. \A d \in CPUs \ {c} : pc'[d] \notin {"search", "shift"}
      BY <1>1, <1>3, <2>1 DEF TypeOK
    <3>3. pc'[c] = "shift" /\ i'[c] < size'
      BY <1>1, <1>2, <2>1 DEF TypeOK
    <3>4. QED
      BY <1>2, <3>1, <3>2, <3>3 DEF PurgeInv
  <2>8. LookInv'
    BY <1>1, <1>2, <2>1 DEF IInv, TypeOK, LookInv, InLookup
  <2>9. QED
    BY <1>4, <2>2, <2>3, <2>5, <2>6, <2>7, <2>8 DEF IInv
<1>6. CASE entry[i[c]] # held[c]
  <2>1. i' = [i EXCEPT ![c] = i[c] + 1] /\ pc' = pc
    BY <1>6 DEF PurgeSearch, Step
  <2>2. TypeOK'
    <3>1. i[c] + 1 \in 0..MaxQueueSize
      BY <1>1, <1>2
    <3>2. i' \in [CPUs -> 0..MaxQueueSize]
      BY <1>1, <2>1, <3>1 DEF TypeOK
    <3>3. QED
      BY <1>1, <1>2, <2>1, <3>2 DEF TypeOK
  <2>3. \A d \in CPUs \ {c} : i'[d] = i[d]
    BY <1>1, <2>1 DEF TypeOK
  <2>4. PlaceInv'
    BY <1>1, <1>2, <2>1, <2>3 DEF PlaceInv
  <2>5. Live' = Live
    BY <1>2, <1>3, <2>1, <2>3 DEF Live
  <2>6. EntryInv' /\ ListedInv'
    BY <1>2, <2>1, <2>5 DEF IInv, EntryInv, ListedInv
  <2>7. PurgeInv'
    <3>1. i'[c] = i[c] + 1
      BY <1>1, <2>1 DEF TypeOK
    <3>2. \A n \in 0..(i[c] - 1) : entry[n] # held[c]
      BY <1>2 DEF IInv, PurgeInv
    <3>3. i'[c] <= size' /\ \A n \in 0..(i'[c] - 1) : entry'[n] # held'[c]
      BY <1>2, <1>6, <3>1, <3>2
    <3>4. QED
      BY <1>2, <1>3, <2>1, <3>3 DEF PurgeInv
  <2>8. LookInv'
    <3>1. ~InLookup(c)
      BY <1>2 DEF InLookup
    <3>2. QED
      BY <1>2, <2>1, <2>3, <3>1 DEF IInv, LookInv, InLookup
  <2>9. QED
    BY <1>4, <2>2, <2>4, <2>6, <2>7, <2>8 DEF IInv
<1>7. QED
  BY <1>5, <1>6

LEMMA PurgeShiftStep ==
  ASSUME IInv, NEW c \in CPUs, PurgeShift(c)
  PROVE  IInv'
<1>1. TypeOK /\ PlaceInv /\ MaxQueueSize \in Nat
  BY MemmapAssumption DEF IInv
<1> DEFINE k == i[c]
<1>2. /\ pc[c] = "shift" /\ k < size - 1
      /\ k \in Nat /\ size \in 0..MaxQueueSize
      /\ entry' = [entry EXCEPT ![k] = entry[k + 1]]
      /\ i' = [i EXCEPT ![c] = k + 1]
      /\ disturbed' = [d \in CPUs |-> disturbed[d] \/ InLookup(d)]
      /\ UNCHANGED <<size, queue_lock, waiting, pc, held, caller>>
  BY <1>1 DEF PurgeShift, TypeOK, Step
<1>3. queue_lock = c /\ \A d \in CPUs : pc[d] \in {"search", "shift"} => d = c
  BY <1>1, <1>2, OnePurge DEF PlaceInv
<1>4. i'[c] = k + 1 /\ \A d \in CPUs \ {c} : i'[d] = i[d]
  BY <1>1, <1>2 DEF TypeOK
<1>5. TypeOK'
  <2>1. k \in Index /\ k + 1 \in Index /\ k + 1 \in 0..MaxQueueSize
    BY <1>1, <1>2 DEF Index
  <2>2. entry' \in [Index -> Procs \cup {NULL}]
    BY <1>1, <1>2, <2>1 DEF TypeOK, Index
  <2>3. i' \in [CPUs -> 0..MaxQueueSize]
    BY <1>1, <1>2, <2>1 DEF TypeOK
  <2>4. disturbed' \in [CPUs -> BOOLEAN]
    BY <1>1, <1>2 DEF TypeOK, InLookup
  <2>5. QED
    BY <1>1, <1>2, <2>2, <2>3, <2>4 DEF TypeOK, Index
<1>6. PlaceInv'
  BY <1>1, <1>2, <1>4 DEF PlaceInv
<1>7. HeldInv'
  BY <1>2 DEF IInv, HeldInv
<1>8. /\ Live = (0..(size - 1)) \ {k}
      /\ Live' = (0..(size - 1)) \ {k + 1}
  BY <1>1, <1>2, <1>3, <1>4 DEF Live
(* Each live entry is the one that was live here, or one further. *)
<1> DEFINE from(n) == IF n = k THEN k + 1 ELSE n
<1>9. \A n \in Live' : from(n) \in Live /\ entry'[n] = entry[from(n)]
  BY <1>1, <1>2, <1>8 DEF TypeOK
<1>10. EntryInv'
  <2>1. \A n \in Live' : entry'[n] \in Procs \ waiting
    BY <1>9 DEF IInv, EntryInv
  <2>2. \A m, n \in Live' : entry'[m] = entry'[n] => from(m) = from(n)
    BY <1>9 DEF IInv, EntryInv
  <2>3. \A m, n \in Live' : from(m) = from(n) => m = n
    BY <1>8
  <2> HIDE DEF from
  <2>4. QED
    BY <1>2, <2>1, <2>2, <2>3 DEF EntryInv
<1>11. ListedInv'
  <2>1. SUFFICES ASSUME NEW d \in CPUs, held[d] # NULL, pc[d] # "shift"
                 PROVE  \E n \in Live' : entry'[n] = held[d]
    BY <1>2 DEF ListedInv
  <2>2. PICK n \in Live : entry[n] = held[d]
    BY <2>1 DEF IInv, ListedInv
  <2>3. CASE n = k + 1
    BY <1>2, <1>8, <1>9, <2>2, <2>3
  <2>4. CASE n # k + 1
    BY <1>2, <1>8, <1>9, <2>2, <2>4
  <2>5. QED
    BY <2>3, <2>4
<1>12. PurgeInv'
  <2>1. \A n \in Live : entry[n] # held[c]
    BY <1>2 DEF IInv, PurgeInv
  <2>2. \A n \in Live' : entry'[n] # held'[c]
    BY <1>2, <1>9, <2>1
  <2>3. \A d \in CPUs : pc'[d] \in {"search", "shift"} => d = c
    BY <1>2, <1>3
  <2>4. i'[c] < size' /\ pc'[c] = "shift"
    BY <1>2, <1>4
  <2>5. QED
    BY <2>2, <2>3, <2>4 DEF PurgeInv
<1>13. LookInv'
  <2>1. \A d \in CPUs : InLookup(d)' => disturbed'[d]
    BY <1>2 DEF InLookup
  <2>2. \A d \in CPUs : disturbed[d] => disturbed'[d]
    BY <1>2
  <2>3. QED
    BY <1>2, <2>1, <2>2 DEF IInv, LookInv
<1>14. QED
  BY <1>5, <1>6, <1>7, <1>10, <1>11, <1>12, <1>13 DEF IInv

LEMMA PutEndStep ==
  ASSUME IInv, NEW c \in CPUs, PutEnd(c)
  PROVE  IInv'
<1>1. TypeOK /\ PlaceInv /\ MaxQueueSize \in Nat
  BY MemmapAssumption DEF IInv
<1>2. /\ pc[c] \in {"search", "shift"} /\ held[c] \in Procs /\ held[c] # NULL
      /\ i[c] \in Nat /\ size \in 0..MaxQueueSize
      /\ pc' = [pc EXCEPT ![c] = "get"]
      /\ waiting' = waiting \cup {held[c]}
      /\ held' = [held EXCEPT ![c] = NULL]
      /\ queue_lock' = NULL
      /\ disturbed' = [d \in CPUs |-> disturbed[d] \/ InLookup(d)]
      /\ UNCHANGED <<entry, i, caller>>
  BY <1>1, MemmapAssumption DEF PutEnd, Purged, Goto, PlaceInv, TypeOK
<1>3. queue_lock = c /\ \A d \in CPUs : pc[d] \in {"search", "shift"} => d = c
  BY <1>1, <1>2, OnePurge DEF PlaceInv
(* The search cannot have failed. *)
<1>4. pc[c] = "shift"
  <2>1. SUFFICES ASSUME pc[c] = "search" PROVE FALSE
    BY <1>2
  <2>2. i[c] >= size
    BY <1>2, <2>1 DEF PutEnd, Purged
  <2>3. PICK n \in Live : entry[n] = held[c]
    BY <1>2, <2>1 DEF IInv, ListedInv
  <2>4. n \in 0..(i[c] - 1)
    BY <1>2, <2>2 DEF Live
  <2>5. QED
    BY <2>1, <2>3, <2>4 DEF IInv, PurgeInv
<1>5. i[c] = size - 1 /\ size' = size - 1 /\ size \in Nat \ {0}
  <2>1. i[c] < size
    BY <1>4 DEF IInv, PurgeInv
  <2>2. i[c] >= size - 1 /\ size' = size - 1
    BY <1>4 DEF PutEnd, Purged
  <2>3. QED
    BY <1>2, <2>1, <2>2
<1>6. /\ \A d \in CPUs \ {c} : pc'[d] = pc[d] /\ held'[d] = held[d]
      /\ pc'[c] = "get" /\ held'[c] = NULL
  BY <1>1, <1>2 DEF TypeOK
<1>7. TypeOK'
  <2>1. disturbed' \in [CPUs -> BOOLEAN]
    BY <1>1, <1>2 DEF TypeOK, InLookup
  <2>2. size' \in 0..MaxQueueSize
    BY <1>1, <1>2, <1>5
  <2>3. QED
    BY <1>1, <1>2, <2>1, <2>2 DEF TypeOK
<1>8. PlaceInv'
  BY <1>1, <1>2, <1>3, <1>6, MemmapAssumption DEF PlaceInv
<1>9. HeldInv'
  <2>1. NULL \notin waiting'
    BY <1>1, <1>2, MemmapAssumption DEF TypeOK
  <2>2. \A d \in CPUs \ {c} : held[d] # held[c]
    BY <1>2 DEF IInv, HeldInv
  <2>3. QED
    BY <1>2, <1>6, <2>1, <2>2 DEF IInv, HeldInv
<1>10. Live = 0..(size - 2) /\ Live' = Live
  <2>1. Live = {n \in 0..(size - 1) : n # i[c]}
    BY <1>3, <1>4 DEF Live
  <2>2. \A d \in CPUs : pc'[d] # "shift"
    BY <1>3, <1>6
  <2>3. Live' = 0..(size' - 1)
    BY <2>2 DEF Live
  <2>4. QED
    BY <1>5, <2>1, <2>3
<1>11. EntryInv'
  <2>1. \A n \in Live : entry[n] # held[c]
    BY <1>4 DEF IInv, PurgeInv
  <2>2. QED
    BY <1>2, <1>10, <2>1 DEF IInv, EntryInv
<1>12. ListedInv'
  <2>1. \A d \in CPUs \ {c} : pc[d] # "shift"
    BY <1>3
  <2>2. QED
    BY <1>2, <1>6, <1>10, <2>1 DEF IInv, ListedInv
<1>13. PurgeInv'
  <2>1. \A d \in CPUs : pc'[d] \notin {"search", "shift"}
    BY <1>3, <1>6
  <2>2. QED
    BY <2>1 DEF PurgeInv
<1>14. LookInv'
  <2>1. \A d \in CPUs : /\ disturbed[d] => disturbed'[d]
                        /\ InLookup(d) => disturbed'[d]
                        /\ InLookup(d)' => InLookup(d)
                        /\ pc'[d] = "looked" => pc[d] = "looked"
    BY <1>2, <1>6 DEF InLookup
  <2>2. QED
    BY <1>2, <2>1 DEF IInv, LookInv
<1>15. QED
  BY <1>7, <1>8, <1>9, <1>11, <1>12, <1>13, <1>14 DEF IInv

(* As long as there are no more processes than entries, the list has room  *)
(* for one that waits.                                                     *)
LEMMA Room ==
  ASSUME IInv, queue_lock = NULL, NEW p \in waiting
  PROVE  /\ size < MaxQueueSize
         /\ Live = 0..(size - 1)
<1>1. \A c \in CPUs : pc[c] # "shift"
  BY MemmapAssumption DEF IInv, PlaceInv
<1>2. Live = 0..(size - 1)
  BY <1>1 DEF Live
<1>3. /\ size \in Nat /\ size <= MaxQueueSize /\ MaxQueueSize \in Nat
      /\ entry \in [Index -> Procs \cup {NULL}]
      /\ p \in Procs
  BY MemmapAssumption DEF IInv, TypeOK, Index
<1>4. ASSUME size = MaxQueueSize PROVE FALSE
  <2> DEFINE S == 0..(size - 1)
             T == Procs \ {p}
  <2>1. IsFiniteSet(S) /\ Cardinality(S) = size
    BY <1>3, FS_Interval
  <2>2. IsFiniteSet(T) /\ Cardinality(T) = Cardinality(Procs) - 1
    BY <1>3, MemmapAssumption, FS_RemoveElement
  <2>3. Cardinality(Procs) \in Nat /\ Cardinality(Procs) <= MaxQueueSize
    BY MemmapAssumption, FS_CardinalityType
  <2>4. entry \in [S -> T]
    <3>1. S = Index
      BY <1>4 DEF Index
    <3>2. \A n \in S : entry[n] \in T
      BY <1>2 DEF IInv, EntryInv
    <3>3. QED
      BY <1>3, <3>1, <3>2
  <2>5. \E m, n \in S : m # n /\ entry[m] = entry[n]
    <3>1. Cardinality(T) < Cardinality(S)
      BY <1>3, <1>4, <2>1, <2>2, <2>3
    <3> HIDE DEF S, T
    <3>2. QED
      BY <2>1, <2>2, <2>4, <3>1, FS_PigeonHole
  <2>6. QED
    BY <1>2, <2>5 DEF IInv, EntryInv
<1>5. QED
  BY <1>2, <1>3, <1>4

LEMMA GetStep ==
  ASSUME IInv, NEW c \in CPUs, Get(c)
  PROVE  IInv'
<1>1. TypeOK /\ PlaceInv /\ MaxQueueSize \in Nat
  BY MemmapAssumption DEF IInv
<1>2. PICK p \in waiting : /\ held' = [held EXCEPT ![c] = p]
                           /\ waiting' = waiting \ {p}
                           /\ IF size < MaxQueueSize
                                THEN /\ entry' = [entry EXCEPT ![size] = p]
                                     /\ size' = size + 1
                                ELSE UNCHANGED list
  BY DEF Get
<1>3. /\ queue_lock = NULL /\ pc' = [pc EXCEPT ![c] = "run"]
      /\ UNCHANGED <<queue_lock, i, caller, disturbed>>
      /\ pc[c] \in {"get", "top"} /\ held[c] = NULL
  BY <1>1 DEF Get, Goto, WantsProc, PlaceInv
<1>4. size < MaxQueueSize /\ Live = 0..(size - 1)
  BY <1>3, Room
<1>5. /\ entry' = [entry EXCEPT ![size] = p] /\ size' = size + 1
      /\ size \in Nat /\ size \in Index /\ p \in Procs /\ p # NULL
  BY <1>1, <1>2, <1>4, MemmapAssumption DEF TypeOK, Index
<1>6. /\ entry'[size] = p
      /\ \A n \in Index \ {size} : entry'[n] = entry[n]
  BY <1>1, <1>5 DEF TypeOK, Index
<1>7. /\ \A d \in CPUs \ {c} : pc'[d] = pc[d] /\ held'[d] = held[d]
      /\ pc'[c] = "run" /\ held'[c] = p
  BY <1>1, <1>2, <1>3 DEF TypeOK
<1>8. \A d \in CPUs : pc[d] \notin {"search", "shift"}
  BY <1>1, <1>3, MemmapAssumption DEF PlaceInv
<1>9. TypeOK'
  <2>1. entry' \in [Index -> Procs \cup {NULL}]
    BY <1>1, <1>5 DEF TypeOK, Index
  <2>2. size' \in 0..MaxQueueSize
    BY <1>1, <1>4, <1>5
  <2>3. held' \in [CPUs -> Procs \cup {NULL}] /\ waiting' \subseteq Procs
    BY <1>1, <1>2, <1>5 DEF TypeOK
  <2>4. QED
    BY <1>1, <1>3, <2>1, <2>2, <2>3 DEF TypeOK, Index
<1>10. PlaceInv'
  BY <1>1, <1>3, <1>5, <1>7, <1>8 DEF PlaceInv
<1>11. HeldInv'
  BY <1>2, <1>5, <1>7 DEF IInv, HeldInv
<1>12. Live' = Live \cup {size} /\ size \notin Live /\ Live \subseteq Index
  <2>1. \A d \in CPUs : pc'[d] # "shift"
    BY <1>7, <1>8
  <2>2. Live' = 0..(size' - 1)
    BY <2>1 DEF Live
  <2>3. QED
    BY <1>1, <1>4, <1>5, <2>2 DEF Index
<1>13. \A n \in Live : entry'[n] = entry[n] /\ entry[n] \in Procs \ waiting
  BY <1>6, <1>12 DEF IInv, EntryInv
<1>14. EntryInv'
  <2>1. \A n \in Live' : entry'[n] \in Procs \ waiting'
    BY <1>2, <1>5, <1>6, <1>12, <1>13
  <2>2. \A n \in Live : entry'[n] # p
    BY <1>13
  <2>3. \A m, n \in Live : entry'[m] = entry'[n] => m = n
    BY <1>13 DEF IInv, EntryInv
  <2>4. QED
    BY <1>6, <1>12, <2>1, <2>2, <2>3 DEF EntryInv
<1>15. ListedInv'
  <2>1. \A d \in CPUs \ {c} : held[d] # NULL => \E n \in Live : entry[n] = held[d]
    BY <1>8 DEF IInv, ListedInv
  <2>2. QED
    BY <1>6, <1>7, <1>12, <1>13, <2>1 DEF ListedInv
<1>16. PurgeInv'
  BY <1>7, <1>8 DEF PurgeInv
<1>17. LookInv'
  <2>1. \A d \in CPUs : InLookup(d)' => d # c /\ InLookup(d)
    BY <1>7 DEF InLookup
  <2>2. ASSUME NEW d \in CPUs, InLookup(d)', ~disturbed'[d]
        PROVE  /\ i'[d] <= size'
               /\ pc'[d] = "read" => i'[d] < size'
               /\ \A n \in 0..(i'[d] - 1) : entry'[n] # held'[d]
    <3>1. d # c /\ i'[d] = i[d] /\ i[d] \in Nat /\ pc'[d] = pc[d] /\ held'[d] = held[d]
      BY <1>1, <1>3, <1>7, <2>1, <2>2 DEF TypeOK
    <3>2. /\ i[d] <= size
          /\ pc[d] = "read" => i[d] < size
          /\ \A n \in 0..(i[d] - 1) : entry[n] # held[d]
      BY <1>3, <2>1, <2>2 DEF IInv, LookInv
    <3>3. \A n \in 0..(i[d] - 1) : n \in Index \ {size}
      BY <1>1, <1>4, <1>5, <3>1, <3>2 DEF Index
    <3>4. \A n \in 0..(i[d] - 1) : entry'[n] = entry[n]
      BY <1>6, <3>3
    <3>5. QED
      BY <1>5, <3>1, <3>2, <3>4
  <2>3. \A d \in CPUs : pc'[d] = "looked" /\ caller'[d] = NULL => disturbed'[d]
    BY <1>3, <1>7 DEF IInv, LookInv
  <2>4. QED
    BY <2>2, <2>3 DEF LookInv
<1>18. QED
  BY <1>9, <1>10, <1>11, <1>14, <1>15, <1>16, <1>17 DEF IInv

-----------------------------------------------------------------------------
(* Every step of a CPU, in sched.c, purgequeue or the look-up, preserves it. *)
THEOREM StepInv == IInv /\ [Next]_vars => IInv'
<1>1. SUFFICES ASSUME IInv, [Next]_vars PROVE IInv'
  OBVIOUS
<1>2. CASE UNCHANGED vars
  BY <1>1, <1>2 DEF vars, list, IInv, TypeOK, PlaceInv, HeldInv, EntryInv, ListedInv, PurgeInv,
     LookInv, Live, InLookup
<1>3. CASE Tick
  BY <1>1, <1>3, PlaceSteps
<1>4. ASSUME NEW c \in CPUs, CPUNext(c) PROVE IInv'
  <2>1. CASE Keep(c) \/ GetNone(c) \/ RunPlain(c)
    BY <1>1, <2>1, PlaceSteps
  <2>2. CASE LookupBegin(c) \/ LookupTest(c) \/ LookupRead(c) \/ LookupStale(c) \/ LookupEnd(c)
    BY <1>1, <2>2, LookupSteps
  <2>3. CASE Finish(c)
    BY <1>1, <2>3, FinishStep
  <2>4. CASE PutBegin(c)
    BY <1>1, <2>4, PutBeginStep
  <2>5. CASE PurgeSearch(c)
    BY <1>1, <2>5, PurgeSearchStep
  <2>6. CASE PurgeShift(c)
    BY <1>1, <2>6, PurgeShiftStep
  <2>7. CASE PutEnd(c)
    BY <1>1, <2>7, PutEndStep
  <2>8. CASE Get(c)
    BY <1>1, <2>8, GetStep
  <2>9. QED
    BY <1>4, <2>1, <2>2, <2>3, <2>4, <2>5, <2>6, <2>7, <2>8 DEF CPUNext
<1>5. QED
  BY <1>1, <1>2, <1>3, <1>4 DEF Next

(* The invariant holds in every reachable state. *)
THEOREM Invariant == Spec => []IInv
<1>1. Init => IInv
  BY InitInv
<1>2. IInv /\ [Next]_vars => IInv'
  BY StepInv
<1>3. QED
  BY <1>1, <1>2, PTL DEF Spec

(* Every variable holds a value of its kind. *)
THEOREM TypeCorrect == Spec => []TypeOK
<1>1. IInv => TypeOK
  BY DEF IInv
<1>2. QED
  BY <1>1, Invariant, PTL

(* A process that runs is in running_list at every instant, whatever other *)
(* CPUs purge: the shift of purgequeue never leaves it out.                *)
THEOREM ListedAlways == Spec => []ListedThroughout
<1>1. IInv => ListedThroughout
  <2>1. SUFFICES ASSUME IInv, NEW c \in CPUs, held[c] # NULL,
                        pc[c] \in {"run", "test", "read", "looked", "arrived"}
                 PROVE  \E n \in 0..(size - 1) : entry[n] = held[c]
    BY DEF ListedThroughout
  <2>2. \E n \in Live : entry[n] = held[c]
    BY <2>1 DEF IInv, ListedInv
  <2>3. QED
    BY <2>2 DEF Live
<1>2. QED
  BY <1>1, Invariant, PTL

(* The look-up of __sys_memmap misses its caller only when a purge has     *)
(* overlapped it.                                                          *)
THEOREM MissesOnlyByRace == Spec => []MissedOnlyByRace
<1>1. IInv => MissedOnlyByRace
  BY DEF IInv, LookInv, MissedOnlyByRace
<1>2. QED
  BY <1>1, Invariant, PTL
=============================================================================
