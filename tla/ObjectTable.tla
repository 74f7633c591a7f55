---------------------------- MODULE ObjectTable ----------------------------
(***************************************************************************)
(* What the arena promises its callers: a table of objects under handles,  *)
(* one object to a slot. A call under one handle never touches the object  *)
(* of another; a new object never takes a handle that is in use.           *)
(***************************************************************************)
EXTENDS Integers

CONSTANTS N, GenMax, MaxIndex, Payloads

VARIABLES
  objects,   \* objects[h]: the object handle h names, for the handles in use
  ret

vars == <<objects, ret>>

Handles == [index : 0 .. MaxIndex, generation : 0 .. GenMax]
InUse == DOMAIN objects
SlotUsed(s) == \E g \in InUse : g.index = s

Why(h) == IF h.index >= N \/ h.generation = 0 THEN "InvalidHandle" ELSE "Gone"

Init == objects = [h \in {} |-> 0] /\ ret = [status |-> "New"]

Place(v) ==
  \/ /\ \A s \in 0 .. N - 1 : SlotUsed(s)
     /\ ret' = [status |-> "NoRoom", object |-> v]
     /\ UNCHANGED objects
  \/ \E h \in Handles :
       /\ h.index < N /\ h.generation # 0 /\ ~SlotUsed(h.index)
       /\ objects' = [g \in InUse \cup {h} |-> IF g = h THEN v ELSE objects[g]]
       /\ ret' = [status |-> "Issued", handle |-> h]

Replace(h, v) ==
  \/ /\ h \in InUse
     /\ objects' = [objects EXCEPT ![h] = v]
     /\ ret' = [status |-> "Found", object |-> v]
  \/ h \notin InUse /\ ret' = [status |-> Why(h)] /\ UNCHANGED objects

(* The object leaves the table; remove hands it back, discard does not.    *)
Drop(h, answer) ==
  \/ /\ h \in InUse
     /\ objects' = [g \in InUse \ {h} |-> objects[g]]
     /\ ret' = answer
  \/ h \notin InUse /\ ret' = [status |-> "None"] /\ UNCHANGED objects

Next ==
  \/ \E v \in Payloads : Place(v)
  \/ \E h \in Handles, v \in Payloads : Replace(h, v)
  \/ \E h \in Handles :
       \/ h \in InUse /\ Drop(h, [status |-> "Found", object |-> objects[h]])
       \/ Drop(h, [status |-> "Discarded"])

Spec == Init /\ [][Next]_vars
=============================================================================
