------------------------------ MODULE ListOrder ------------------------------
(***************************************************************************)
(* What the lists promise, as list.c promises it: per list, a sequence of  *)
(* items and the position of the last turn in it (0 is the end marker,     *)
(* where a new list starts); per item, a value. No link, no slot, no       *)
(* count: every call is one step on the sequences.                         *)
(***************************************************************************)
EXTENDS Integers, Sequences

CONSTANTS Items, ListSet, MaxValue, Values, ItemIds, ListIds

S == INSTANCE SequencesExt

VARIABLES
  order,    \* order[l]: the items of list l, first to last
  turn,     \* turn[l]: the position that had the last turn, 0 .. Len(order[l])
  worth,    \* worth[i]: what item i sorts by
  ret

vars == <<order, turn, worth, ret>>

Ok(n) == [status |-> "Ok", answer |-> n]
Err(e) == [status |-> e, answer |-> 0]

Held(i) == {l \in ListSet : i \in S!ToSet(order[l])}
Place(l, i) == CHOOSE k \in DOMAIN order[l] : order[l][k] = i

(* The place in front of the first item above v; the last place if none is. *)
AfterNotAbove(l, v) ==
  LET k == S!SelectInSeq(order[l], LAMBDA i : worth[i] > v)
  IN IF k = 0 THEN Len(order[l]) + 1 ELSE k

Init ==
  /\ order = [l \in ListSet |-> <<>>]
  /\ turn = [l \in ListSet |-> 0]
  /\ worth = [i \in Items |-> 0]
  /\ ret = Ok(0)

Refuse(e) == ret' = Err(e) /\ UNCHANGED <<order, turn, worth>>

(* Item i enters list l at place k; the last turn stays with its item.     *)
Enter(l, i, k, v) ==
  \/ i \notin Items /\ Refuse("InvalidArgument")
  \/ i \in Items /\ Held(i) # {} /\ Refuse("Busy")
  \/ /\ i \in Items /\ Held(i) = {}
     /\ order' = [order EXCEPT ![l] = S!InsertAt(@, k, i)]
     /\ turn' = [turn EXCEPT ![l] = IF k <= @ THEN @ + 1 ELSE @]
     /\ worth' = [worth EXCEPT ![i] = v]
     /\ ret' = Ok(0)

ValueOf(i) == IF i \in Items THEN worth[i] ELSE 0

Insert(l, i, v) ==
  \/ l \notin ListSet /\ Refuse("InvalidArgument")
  \/ l \in ListSet /\ Enter(l, i, AfterNotAbove(l, v), v)

InsertKeepingValue(l, i) == Insert(l, i, ValueOf(i))

InsertSorted(l, i, v) ==
  \/ l \notin ListSet /\ Refuse("InvalidArgument")
  \/ /\ l \in ListSet
     /\ LET isLast == order[l] # <<>> /\ v >= worth[S!Last(order[l])]
        IN Enter(l, i, IF isLast THEN Len(order[l]) + 1 ELSE AfterNotAbove(l, v), v)

(* The furthest place from the next turn: in front of the last turn.       *)
InsertEnd(l, i) ==
  \/ l \notin ListSet /\ Refuse("InvalidArgument")
  \/ /\ l \in ListSet
     /\ Enter(l, i, IF turn[l] = 0 THEN Len(order[l]) + 1 ELSE turn[l], ValueOf(i))

Remove(i) ==
  \/ i \notin Items /\ Refuse("InvalidArgument")
  \/ i \in Items /\ Held(i) = {} /\ Refuse("NotActive")
  \/ /\ i \in Items
     /\ \E l \in Held(i) :
          /\ order' = [order EXCEPT ![l] = S!RemoveAt(@, Place(l, i))]
          /\ turn' = [turn EXCEPT ![l] = IF Place(l, i) <= @ THEN @ - 1 ELSE @]
          /\ ret' = Ok(Len(order[l]) - 1)
     /\ UNCHANGED worth

(* A removal and an insert_end into the same list.                         *)
MoveToEnd(l, i) ==
  \/ (l \notin ListSet \/ i \notin Items) /\ Refuse("InvalidArgument")
  \/ /\ l \in ListSet /\ i \in Items /\ l \notin Held(i)
     /\ ret' = Ok(0)
     /\ UNCHANGED <<order, turn, worth>>
  \/ /\ l \in ListSet /\ i \in Items /\ l \in Held(i)
     /\ LET rest == S!RemoveAt(order[l], Place(l, i))
            t == IF Place(l, i) <= turn[l] THEN turn[l] - 1 ELSE turn[l]
        IN IF t = 0
           THEN /\ order' = [order EXCEPT ![l] = Append(rest, i)]
                /\ turn' = [turn EXCEPT ![l] = 0]
           ELSE /\ order' = [order EXCEPT ![l] = S!InsertAt(rest, t, i)]
                /\ turn' = [turn EXCEPT ![l] = t + 1]
     /\ ret' = Ok(1)
     /\ UNCHANGED worth

SetValue(i, v) ==
  \/ i \notin Items /\ Refuse("InvalidArgument")
  \/ i \in Items /\ worth' = [worth EXCEPT ![i] = v] /\ ret' = Ok(0) /\ UNCHANGED <<order, turn>>

NextRoundRobin(l) ==
  \/ l \notin ListSet /\ Refuse("InvalidArgument")
  \/ l \in ListSet /\ order[l] = <<>> /\ Refuse("None")
  \/ /\ l \in ListSet /\ order[l] # <<>>
     /\ LET t == (turn[l] % Len(order[l])) + 1
        IN turn' = [turn EXCEPT ![l] = t] /\ ret' = Ok(order[l][t])
     /\ UNCHANGED <<order, worth>>

Next ==
  \/ \E l \in ListIds, i \in ItemIds, v \in Values : Insert(l, i, v) \/ InsertSorted(l, i, v)
  \/ \E l \in ListIds, i \in ItemIds :
       InsertKeepingValue(l, i) \/ InsertEnd(l, i) \/ MoveToEnd(l, i)
  \/ \E i \in ItemIds : Remove(i)
  \/ \E i \in ItemIds, v \in Values : SetValue(i, v)
  \/ \E l \in ListIds : NextRoundRobin(l)

Spec == Init /\ [][Next]_vars
=============================================================================
