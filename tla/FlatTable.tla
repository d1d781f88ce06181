----------------------------- MODULE FlatTable -----------------------------
(***************************************************************************)
(* What a page table promises: one entry per page, changed by one call for *)
(* one page at a time, and read as it was left.                            *)
(***************************************************************************)
EXTENDS Entries

CONSTANTS
  AllPages,  \* the pages
  Fpns,      \* frame numbers
  SwpOffs    \* swap offsets

VARIABLES
  table,   \* the entry of every page
  result   \* what was read last

Init == /\ table = [g \in AllPages |-> NoPte]
        /\ result = NoPte

Change(g, e) == /\ table' = [table EXCEPT ![g] = e]
                /\ UNCHANGED result

Get(g) == /\ result' = table[g]
          /\ UNCHANGED table

Next == \E g \in AllPages :
          \/ \E f \in Fpns : Change(g, SetFpn(table[g], f))
          \/ \E s \in SwpOffs : Change(g, SetSwap(s))
          \/ Change(g, PatternPte)
          \/ Get(g)

Spec == Init /\ [][Next]_<<table, result>>
=============================================================================
