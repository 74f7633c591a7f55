------------------------------- MODULE Arena -------------------------------
(***************************************************************************)
(* The generational arena (arena.rs) and the handles it issues (handle.rs):*)
(* N slots, each with a generation whose top bit says the slot is free and *)
(* whose low bits count how often it has been occupied. A handle is a slot *)
(* index and a generation; it names an object while the two match. A call  *)
(* has the arena to itself (`&mut self`) and is one step.                  *)
(***************************************************************************)
EXTENDS Integers, FiniteSets

CONSTANTS
  N,          \* slots; the type parameter N
  GenMax,     \* the largest generation a handle carries: u16::MAX in the code
  MaxIndex,   \* the largest index the C ABI carries: u16::MAX in the code
  Payloads,   \* the objects the callers place
  Default,    \* T::default()
  NeedsDrop   \* needs_drop::<T>()

(* A handle's index goes up to one less than the C ABI carries, and an     *)
(* arena with more slots than that is not built.                           *)
MAX_INDEX == MaxIndex - 1
CAPACITY_FITS == N <= MAX_INDEX

ASSUME ArenaFits ==
  /\ N \in Nat /\ MaxIndex \in Nat /\ CAPACITY_FITS
  /\ GenMax \in Nat \ {0}
  /\ NeedsDrop \in BOOLEAN

FREE == GenMax + 1                                   \* the bit above the generation's bits
Live(g) == g < FREE                                  \* g & FREE == 0
Counter(g) == IF Live(g) THEN g ELSE g - FREE        \* g & 0xFFFF
WithFree(g) == IF Live(g) THEN g + FREE ELSE g       \* g | FREE

Slots == 0 .. N - 1

(* The handles an arena issues, or a C caller's word makes, and whether    *)
(* one is null.                                                            *)
Handles == [index : 0 .. MaxIndex, generation : 0 .. GenMax]
Handle(i, g) == [index |-> i, generation |-> g]
NULL == Handle(0, 0)
IsNull(h) == h.generation = 0

(* The one word a C caller holds: the generation above the index. to_raw   *)
(* packs it; from_raw takes whatever word there is, and refuses none.      *)
Raws == 0 .. (GenMax + 1) * (MaxIndex + 1) - 1
ToRaw(h) == h.generation * (MaxIndex + 1) + h.index
FromRaw(raw) == Handle(raw % (MaxIndex + 1), raw \div (MaxIndex + 1))

(* from_parts itself checks nothing: an index and a generation of a whole  *)
(* word each. "The arena is the only intended caller" (handle.rs:103), and *)
(* the operations below are called with Handles alone.                     *)
Parts == [index : Raws, generation : Raws]

VARIABLES
  generation, value,   \* the fields of slots[s]
  len,
  ret                  \* what the last call answered

slots == <<generation, value>>
vars == <<generation, value, len, ret>>

Issued(h) == [status |-> "Issued", handle |-> h]
Found(v) == [status |-> "Found", object |-> v]
NoRoom(v) == [status |-> "NoRoom", object |-> v]
Answer(s) == [status |-> s]

Init ==
  /\ generation = [s \in Slots |-> WithFree(1)]
  /\ value = [s \in Slots |-> Default]
  /\ len = 0
  /\ ret = Answer("New")

FreeSlots == {s \in Slots : ~Live(generation[s])}

(* Slips: the counter goes back to 0, the generation of the null handle;   *)
(* the slot keeps its generation, and its last handle its meaning.         *)
AdvanceToZero(g) == (Counter(g) + 1) % FREE
AdvanceNot(g) == Counter(g)

(* Occupying a slot advances its counter, past the largest back to 1.      *)
Advance(g) == IF Counter(g) + 1 > GenMax THEN 1 ELSE Counter(g) + 1

(* Slip: only the counters are compared, and a free slot matches.          *)
MatchesCounter(h) == h.index \in Slots /\ Counter(generation[h.index]) = h.generation

(* Whether a slot's generation is a handle's: every access begins with it. *)
Matches(h) == h.index \in Slots /\ generation[h.index] = h.generation

Why(h) == IF h.index \notin Slots \/ IsNull(h) THEN "InvalidHandle" ELSE "Gone"

(* resolve: the object, or why there is none. contains: whether there is.  *)
Resolve(h) == IF Matches(h) THEN Found(value[h.index]) ELSE Answer(Why(h))
Contains(h) == Matches(h)

(* What is asked of a handle before any arena is: that it is not null.     *)
NonNull(h) == IF IsNull(h) THEN Answer("InvalidHandle") ELSE Issued(h)

IsEmpty == len = 0

(* iter, handle_at: the handles of the slots that are live.                *)
LiveHandles == {Handle(s, generation[s]) : s \in Slots \ FreeSlots}

-----------------------------------------------------------------------------
(* insert and try_insert: the first free slot, or the value handed back.   *)
TryInsert(v) ==
  \/ /\ FreeSlots = {}
     /\ ret' = NoRoom(v)
     /\ UNCHANGED <<slots, len>>
  \/ \E s \in FreeSlots :
       /\ \A t \in FreeSlots : s <= t
       /\ generation' = [generation EXCEPT ![s] = Advance(@)]
       /\ value' = [value EXCEPT ![s] = v]
       /\ len' = len + 1
       /\ ret' = Issued(Handle(s, Advance(generation[s])))

(* get_mut and resolve_mut: a write through the handle.                    *)
Write(h, v) ==
  \/ /\ Matches(h)
     /\ value' = [value EXCEPT ![h.index] = v]
     /\ ret' = Found(v)
     /\ UNCHANGED <<generation, len>>
  \/ /\ ~Matches(h)
     /\ ret' = Answer(Why(h))
     /\ UNCHANGED <<slots, len>>

(* remove takes the object out; discard leaves it unless it owns something.*)
Remove(h) ==
  \/ /\ Matches(h)
     /\ generation' = [generation EXCEPT ![h.index] = WithFree(@)]
     /\ value' = [value EXCEPT ![h.index] = Default]
     /\ len' = len - 1
     /\ ret' = Found(value[h.index])
  \/ /\ ~Matches(h)
     /\ ret' = Answer("None")
     /\ UNCHANGED <<slots, len>>

(* Slip: the count goes down though nothing was there.                     *)
DiscardUncounted(h) ==
  /\ h.index \in Slots
  /\ generation' = [generation EXCEPT ![h.index] = WithFree(@)]
  /\ len' = len - 1
  /\ ret' = Answer("Discarded")
  /\ UNCHANGED value

Discard(h) ==
  \/ /\ Matches(h)
     /\ generation' = [generation EXCEPT ![h.index] = WithFree(@)]
     /\ value' = IF NeedsDrop THEN [value EXCEPT ![h.index] = Default] ELSE value
     /\ len' = len - 1
     /\ ret' = Answer("Discarded")
  \/ /\ ~Matches(h)
     /\ ret' = Answer("None")
     /\ UNCHANGED <<slots, len>>

Next ==
  \/ \E v \in Payloads : TryInsert(v)
  \/ \E h \in Handles : Remove(h) \/ Discard(h)
  \/ \E h \in Handles, v \in Payloads : Write(h, v)

Spec == Init /\ [][Next]_vars

-----------------------------------------------------------------------------
(* Properties.                                                             *)

(* Types. A counter is never 0, so that no handle issued is null.          *)
TypeOK ==
  /\ generation \in [Slots -> 1 .. GenMax \cup FREE + 1 .. FREE + GenMax]
  /\ value \in [Slots -> Payloads \cup {Default}]
  /\ len \in 0 .. N

(* The count is the number of live slots, so that its wrapping arithmetic  *)
(* (arena.rs:161-163, 274-276, 296-298) never wraps, and the arena says it *)
(* is empty exactly when iter finds nobody.                                *)
LenCounts ==
  /\ len = Cardinality(Slots \ FreeSlots)
  /\ IsEmpty <=> LiveHandles = {}

(* Whatever word a C caller presents, it resolves only to a live object,   *)
(* and then it is the word of the very handle iter gives it (so that each  *)
(* live object has one word); NULL, whose word is 0, never does, nor does  *)
(* a handle that non_null refuses, with the same answer; and the word of a *)
(* slot that is free or taken over is Gone. Of handles made by from_parts  *)
(* of any index, this is true below the FREE bit, which the arena leaves   *)
(* out of every handle (arena.rs:37-53): only above it could one match a   *)
(* slot that is free.                                                      *)
OnlyLiveResolves ==
  /\ \A raw \in Raws :
       LET h == FromRaw(raw) IN
       /\ Resolve(h).status = "Found" <=> \E g \in LiveHandles : raw = ToRaw(g)
       /\ raw = 0 <=> h = NULL
       /\ h \in LiveHandles => ~IsNull(h)
       /\ NonNull(h).status = "InvalidHandle" => Resolve(h) = NonNull(h)
       /\ Resolve(h).status = "Gone" <=>
            h \notin LiveHandles /\ h.index \in Slots /\ ~IsNull(h)
  /\ \A h \in Parts :
       /\ Live(h.generation) => (Contains(h) <=> h \in LiveHandles)
       /\ Contains(h) => h \in LiveHandles \/ h.index \in FreeSlots

(* "odd while occupied, even while free" (arena.rs:18, on Slot).           *)
OddWhileOccupied == \A s \in Slots : Live(generation[s]) => Counter(generation[s]) % 2 = 1
=============================================================================
