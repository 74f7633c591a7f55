------------------------------- MODULE MCLists -------------------------------
(* Lists on small arrays, and the mapping of its links to ListOrder.       *)
EXTENDS Lists

(* The slots met by following next from the marker of l, k = 0 .. len[l].  *)
Chain(l) ==
  LET at[k \in 0 .. N] == IF k = 0 THEN EndOf(l) ELSE next[at[k - 1]] IN at

OrderOf(l) == LET at == Chain(l) IN [k \in 1 .. len[l] |-> at[k]]
TurnOf(l) == LET at == Chain(l) IN CHOOSE k \in 0 .. len[l] : at[k] = cursor[l]

Order == INSTANCE ListOrder WITH
           order <- [l \in ListSet |-> OrderOf(l)],
           turn <- [l \in ListSet |-> TurnOf(l)],
           worth <- [i \in Items |-> value[i]]

(* The linked rings do, call for call and answer for answer, what the      *)
(* sequences of ListOrder do; a search under way is invisible.             *)
ImplementsOrder == Order!Spec
=============================================================================
