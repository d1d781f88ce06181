------------------------------- MODULE Queue -------------------------------
(***************************************************************************)
(* src/queue.c: a queue_t is an array of MAX_QUEUE_SIZE process pointers   *)
(* and a size, here the sequence of its first size entries.                *)
(***************************************************************************)
EXTENDS Integers, Sequences, SequencesExt

CONSTANT MaxQueueSize   \* MAX_QUEUE_SIZE, 50 in the code

ASSUME MaxQueueSizeAssumption == MaxQueueSize \in Nat \ {0}

(* enqueue: a full queue is left as it is and nobody is told. *)
Enqueue(q, p) == IF Len(q) < MaxQueueSize THEN Append(q, p) ELSE q

(* The scan of dequeue: the first of the entries with the lowest key. *)
BestIndex(q, key) ==
  CHOOSE i \in DOMAIN q :
    \A j \in DOMAIN q : \/ key[q[i]] < key[q[j]]
                        \/ key[q[i]] = key[q[j]] /\ i <= j

(* What dequeue returns and what it leaves (q is not empty). *)
Best(q, key) == q[BestIndex(q, key)]
Dequeue(q, key) == RemoveAt(q, BestIndex(q, key))

(* purgequeue: the first entry that is p goes. *)
Purge(q, p) == RemoveFirst(q, p)
=============================================================================
