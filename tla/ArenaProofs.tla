---------------------------- MODULE ArenaProofs ----------------------------
(* Proofs about the arena and the handles kept by its callers, for every   *)
(* number of slots, every width of the generation and every object.        *)
EXTENDS StaleHandle, NumberFacts, FiniteSetTheorems, TLAPS

USE DEF MAX_INDEX, CAPACITY_FITS

-----------------------------------------------------------------------------
(* Generations: what marking, unmarking and advancing them gives.          *)

Generations == 1 .. GenMax \cup FREE + 1 .. FREE + GenMax

(* What marking a generation free, unmarking and advancing it give.        *)
LEMMA GenerationFacts ==
  ASSUME NEW g \in Generations
  PROVE  /\ Live(g) <=> g \in 1 .. GenMax
         /\ WithFree(g) \in Generations /\ ~Live(WithFree(g))
         /\ Live(g) => Counter(WithFree(g)) = g
         /\ Advance(g) \in 1 .. GenMax /\ Advance(g) \in Generations /\ Live(Advance(g))
         /\ Advance(g) = IF Counter(g) = GenMax THEN 1 ELSE Counter(g) + 1
         /\ Counter(g) \in 1 .. GenMax
         /\ Live(g) => Counter(g) = g
BY ArenaFits DEF Generations, Live, WithFree, Counter, Advance, FREE

(* Any set of slots is finite and no larger than N.                        *)
LEMMA FiniteSlots ==
  ASSUME NEW T \in SUBSET Slots
  PROVE  IsFiniteSet(T) /\ Cardinality(T) \in 0 .. N
<1>1. IsFiniteSet(Slots) /\ Cardinality(Slots) <= N
  <2>1. CASE N = 0
    <3>1. Slots = {}
      BY <2>1 DEF Slots
    <3>2. QED BY <2>1, <3>1, FS_EmptySet
  <2>2. CASE N # 0
    <3>1. 0 \in Int /\ N - 1 \in Int /\ ~(0 > N - 1)
      BY <2>2, ArenaFits
    <3>2. IsFiniteSet(0 .. N - 1) /\ Cardinality(0 .. N - 1) = (N - 1) - 0 + 1
      BY <3>1, FS_Interval, Zenon
    <3>3. QED BY <3>2, ArenaFits DEF Slots
  <2>3. QED BY <2>1, <2>2
<1>2. IsFiniteSet(T) /\ Cardinality(T) <= Cardinality(Slots)
  BY <1>1, FS_Subset
<1>3. Cardinality(T) \in Nat /\ Cardinality(Slots) \in Nat
  BY <1>1, <1>2, FS_CardinalityType
<1>4. QED BY <1>1, <1>2, <1>3, ArenaFits

-----------------------------------------------------------------------------
(* The invariant: types, and the count of the live slots.                  *)

Typed ==
  /\ generation \in [Slots -> Generations]
  /\ value \in [Slots -> Payloads \cup {Default}]

Counted == len = Cardinality(Slots \ FreeSlots)

IInv == Typed /\ Counted

LiveSlots == Slots \ FreeSlots

(* A new arena satisfies the invariant.                                    *)
LEMMA InitIInv == Init => IInv
<1> SUFFICES ASSUME Init PROVE IInv
  OBVIOUS
<1>1. 1 \in Generations
  BY ArenaFits DEF Generations
<1>2. Typed
  BY <1>1, GenerationFacts DEF Init, Typed
<1>3. Slots \ FreeSlots = {}
  BY <1>1, GenerationFacts DEF Init, FreeSlots
<1>4. Counted
  BY <1>3, FS_EmptySet DEF Counted, Init
<1>5. QED BY <1>2, <1>4 DEF IInv

(* A call that only answers keeps it.                                      *)
LEMMA SameStep ==
  ASSUME IInv, UNCHANGED <<slots, len>>
  PROVE  IInv'
BY DEF IInv, Typed, Counted, FreeSlots, slots

(* Taking a free slot makes one more live slot.                            *)
LEMMA InsertStep ==
  ASSUME IInv, NEW v \in Payloads, TryInsert(v)
  PROVE  IInv'
<1>1. CASE UNCHANGED <<slots, len>>
  BY <1>1, SameStep
<1>2. ASSUME NEW s \in FreeSlots,
             generation' = [generation EXCEPT ![s] = Advance(@)],
             value' = [value EXCEPT ![s] = v],
             len' = len + 1
      PROVE  IInv'
  <2>1. s \in Slots /\ generation[s] \in Generations /\ ~Live(generation[s])
    BY <1>2 DEF FreeSlots, IInv, Typed
  <2>2. Advance(generation[s]) \in Generations /\ Live(Advance(generation[s]))
    BY <2>1, GenerationFacts
  <2>3. Typed'
    BY <1>2, <2>1, <2>2 DEF IInv, Typed
  <2>4. LiveSlots' = LiveSlots \cup {s} /\ s \notin LiveSlots
    BY <1>2, <2>1, <2>2 DEF LiveSlots, FreeSlots, IInv, Typed
  <2>5. IsFiniteSet(LiveSlots)
    BY FiniteSlots DEF LiveSlots
  <2>6. Cardinality(LiveSlots') = Cardinality(LiveSlots) + 1
    BY <2>4, <2>5, FS_AddElement
  <2>7. QED BY <1>2, <2>3, <2>6 DEF IInv, Counted, LiveSlots
<1>3. QED BY <1>1, <1>2 DEF TryInsert

(* remove and discard: the slot of a handle that matched becomes free.     *)
LEMMA FreeStep ==
  ASSUME IInv, NEW h, Matches(h),
         generation' = [generation EXCEPT ![h.index] = WithFree(@)],
         value' \in [Slots -> Payloads \cup {Default}],
         len' = len - 1,
         Live(generation[h.index])
  PROVE  IInv'
<1>1. h.index \in Slots /\ generation[h.index] \in Generations
  BY DEF Matches, IInv, Typed
<1>2. WithFree(generation[h.index]) \in Generations /\ ~Live(WithFree(generation[h.index]))
  BY <1>1, GenerationFacts
<1>3. Typed'
  BY <1>1, <1>2 DEF IInv, Typed
<1>4. LiveSlots' = LiveSlots \ {h.index} /\ h.index \in LiveSlots
  BY <1>1, <1>2 DEF LiveSlots, FreeSlots, IInv, Typed
<1>5. IsFiniteSet(LiveSlots)
  BY FiniteSlots DEF LiveSlots
<1>6. Cardinality(LiveSlots') = Cardinality(LiveSlots) - 1
  BY <1>4, <1>5, FS_RemoveElement
<1>7. QED BY <1>3, <1>6 DEF IInv, Counted, LiveSlots

(* A handle that came through the C ABI matches live slots only: its       *)
(* generation is below the bit that marks a free slot.                     *)
LEMMA MatchIsLive ==
  ASSUME NEW h \in Handles, Matches(h)
  PROVE  Live(generation[h.index])
BY ArenaFits DEF Handles, Matches, Live, FREE

(* remove, discard and writes keep it, whatever handle is presented.       *)
LEMMA CallStep ==
  ASSUME IInv, NEW h \in Handles, Remove(h) \/ Discard(h) \/ (\E v \in Payloads : Write(h, v))
  PROVE  IInv'
<1>1. CASE UNCHANGED <<slots, len>>
  BY <1>1, SameStep
<1>2. ASSUME Matches(h),
             generation' = [generation EXCEPT ![h.index] = WithFree(@)],
             \/ value' = [value EXCEPT ![h.index] = Default]
             \/ value' = value,
             len' = len - 1
      PROVE  IInv'
  <2>1. value' \in [Slots -> Payloads \cup {Default}]
    BY <1>2 DEF IInv, Typed
  <2>2. QED BY <1>2, <2>1, MatchIsLive, FreeStep
<1>3. ASSUME NEW v \in Payloads, Matches(h), value' = [value EXCEPT ![h.index] = v],
             UNCHANGED <<generation, len>>
      PROVE  IInv'
  BY <1>3 DEF IInv, Typed, Counted, FreeSlots
<1>4. CASE Remove(h)
  BY <1>1, <1>2, <1>4 DEF Remove
<1>5. CASE Discard(h)
  BY <1>1, <1>2, <1>5 DEF Discard
<1>6. CASE \E v \in Payloads : Write(h, v)
  BY <1>1, <1>3, <1>6 DEF Write
<1>7. QED BY <1>4, <1>5, <1>6

(* So does every step.                                                     *)
LEMMA NextIInv == IInv /\ [Next]_vars => IInv'
<1> SUFFICES ASSUME IInv, [Next]_vars PROVE IInv'
  OBVIOUS
<1>1. ASSUME NEW v \in Payloads, TryInsert(v) PROVE IInv'
  BY <1>1, InsertStep
<1>2. ASSUME NEW h \in Handles, Remove(h) \/ Discard(h) PROVE IInv'
  BY <1>2, CallStep
<1>3. ASSUME NEW h \in Handles, NEW v \in Payloads, Write(h, v) PROVE IInv'
  BY <1>3, CallStep
<1>4. CASE UNCHANGED vars
  BY <1>4, SameStep DEF vars, slots
<1>5. QED BY <1>1, <1>2, <1>3, <1>4 DEF Next

(* So it holds in every state.                                             *)
LEMMA Inductive == Spec => []IInv
BY InitIInv, NextIInv, PTL DEF Spec

-----------------------------------------------------------------------------
(* The types of the slots and of the count hold for ever.                  *)
THEOREM ArenaTypes == Spec => []TypeOK
<1>1. IInv => TypeOK
  BY FiniteSlots DEF IInv, Typed, Generations, Counted, TypeOK
<1>2. QED BY <1>1, Inductive, PTL

(* The count is the number of live slots, so neither its increment nor its *)
(* decrement wraps, and is_empty answers that iter finds nobody.           *)
THEOREM CountHolds == Spec => []LenCounts
<1>1. IInv => LenCounts
  <2> SUFFICES ASSUME IInv PROVE LenCounts
    OBVIOUS
  <2>1. IsFiniteSet(LiveSlots) /\ len = Cardinality(LiveSlots)
    BY FiniteSlots DEF IInv, Counted, LiveSlots
  <2>2. len = 0 <=> LiveSlots = {}
    BY <2>1, FS_EmptySet
  <2>3. LiveSlots = {} <=> LiveHandles = {}
    BY DEF LiveSlots, LiveHandles
  <2>4. QED BY <2>1, <2>2, <2>3 DEF LenCounts, IsEmpty, LiveSlots
<1>2. QED BY <1>1, Inductive, PTL

(* A handle of any 32 bits resolves exactly if it is one of a live slot,   *)
(* and then it is not null.                                                *)
LEMMA LiveHandleFacts ==
  ASSUME IInv, NEW h \in Handles
  PROVE  /\ Matches(h) <=> h \in LiveHandles
         /\ h \in LiveHandles => ~IsNull(h)
<1>1. h = Handle(h.index, h.generation)
  BY DEF Handles, Handle
<1>2. ASSUME Matches(h) PROVE h \in LiveHandles
  BY <1>1, <1>2, MatchIsLive DEF LiveHandles, FreeSlots, Matches
<1>3. ASSUME h \in LiveHandles PROVE Matches(h) /\ ~IsNull(h)
  <2>1. PICK s \in Slots : h = Handle(s, generation[s])
    BY <1>3 DEF LiveHandles
  <2>2. h.index = s /\ h.generation = generation[s]
    BY <2>1 DEF Handle
  <2>3. generation[s] # 0
    BY ArenaFits DEF IInv, Typed, Generations, FREE
  <2>4. QED BY <2>2, <2>3 DEF Matches, IsNull
<1>4. QED BY <1>2, <1>3

(* The live handles are one to a live slot, under that slot's generation.  *)
LEMMA LiveHandleFields ==
  ASSUME IInv
  PROVE  /\ LiveHandles \subseteq Handles
         /\ \A s \in Slots : ~(s \in FreeSlots) <=> \E g \in LiveHandles : g.index = s
         /\ \A g \in LiveHandles : g.index \in Slots /\ generation[g.index] = g.generation
         /\ \A g, h \in LiveHandles : g.index = h.index => g = h
<1>1. ASSUME NEW s \in Slots \ FreeSlots
      PROVE  /\ Handle(s, generation[s]) \in Handles
             /\ Handle(s, generation[s]).index = s
             /\ Handle(s, generation[s]).generation = generation[s]
  <2>1. generation[s] \in Generations /\ Live(generation[s])
    BY DEF FreeSlots, IInv, Typed
  <2>2. generation[s] \in 0 .. GenMax
    BY <2>1, GenerationFacts, ArenaFits
  <2>3. s \in 0 .. MaxIndex
    BY ArenaFits DEF Slots
  <2>4. QED BY <2>2, <2>3 DEF Handle, Handles
<1>2. QED BY <1>1 DEF LiveHandles

(* A word and the handle from_raw makes of it are the same information:    *)
(* to_raw gives the word back, and no other handle has it.                 *)
THEOREM RawRoundTrip ==
  /\ \A raw \in Raws : FromRaw(raw) \in Handles /\ ToRaw(FromRaw(raw)) = raw
  /\ \A h \in Handles : ToRaw(h) \in Raws /\ FromRaw(ToRaw(h)) = h
<1> DEFINE W == MaxIndex + 1
<1>0. W \in Nat \ {0} /\ GenMax \in Nat
  BY ArenaFits
<1>1. ASSUME NEW raw \in Raws
      PROVE  FromRaw(raw) \in Handles /\ ToRaw(FromRaw(raw)) = raw
  <2> DEFINE g == raw \div W
             i == raw % W
             top == (GenMax + 1) * W
  <2>1. top \in Int /\ raw \in Nat /\ raw < top
    BY <1>0 DEF Raws
  <2>2. g \in Nat /\ i \in Nat /\ i < W /\ raw = g * W + i
    BY <1>0, <2>1, DivParts
  <2>3. ~(g >= GenMax + 1)
    <3>1. g >= GenMax + 1 <=> raw >= (GenMax + 1) * W
      BY <1>0, <2>1, DivAtLeast
    <3> HIDE DEF g
    <3>2. QED BY <2>1, <3>1
  <2>4. FromRaw(raw) = Handle(i, g)
    BY DEF FromRaw
  <2> HIDE DEF g, i
  <2>5. g \in Nat /\ i \in Nat /\ i < MaxIndex + 1
    BY <2>2
  <2>6. g \in 0 .. GenMax /\ i \in 0 .. MaxIndex
    BY <2>3, <2>5, ArenaFits
  <2>7. QED BY <2>2, <2>4, <2>6 DEF Handle, Handles, ToRaw
<1>2. ASSUME NEW h \in Handles
      PROVE  ToRaw(h) \in Raws /\ FromRaw(ToRaw(h)) = h
  <2> DEFINE g == h.generation
             i == h.index
             x == g * W + i
  <2>1. g \in 0 .. GenMax /\ i \in 0 .. MaxIndex /\ h = Handle(i, g)
    BY DEF Handles, Handle
  <2>2. ToRaw(h) = x /\ FromRaw(x) = Handle(x % W, x \div W)
    BY DEF ToRaw, FromRaw
  <2> HIDE DEF g, i
  <2>3. g * W \in Nat /\ g * W <= GenMax * W /\ (GenMax + 1) * W = GenMax * W + W
        /\ GenMax * W \in Nat
    BY <1>0, <2>1, SMTT(30)
  <2>4. x \in Int /\ x \in 0 .. (GenMax + 1) * W - 1
    <3> DEFINE p == g * W
               q == GenMax * W
    <3>1. p \in Nat /\ p <= q /\ q \in Nat /\ i \in 0 .. W - 1
          /\ x = p + i /\ (GenMax + 1) * W = q + W
      BY <1>0, <2>1, <2>3, ArenaFits
    <3> HIDE DEF p, q, W, x
    <3>2. QED BY <1>0, <3>1
  <2>5. x = g * W + i
    OBVIOUS
  <2> HIDE DEF x
  <2>6. x \div W = g /\ x % W = i
    <3>0. i \in Nat /\ i < W /\ g \in Int
      BY <1>0, <2>1, ArenaFits
    <3>1. i \in Nat /\ i < W /\ g \in Int /\ x \in Int
      BY <2>4, <3>0
    <3> HIDE DEF W
    <3>2. QED BY <1>0, <2>5, <3>1, DivUnique
  <2>7. x \in Raws
    BY <2>4 DEF Raws
  <2>8. QED BY <2>1, <2>2, <2>6, <2>7
<1>3. QED BY <1>1, <1>2

(* The word 0 is the null handle's and nobody else's.                      *)
LEMMA NullWord ==
  ASSUME NEW raw \in Raws
  PROVE  raw = 0 <=> FromRaw(raw) = NULL
<1>1. NULL \in Handles
  BY ArenaFits DEF NULL, Handle, Handles
<1>2. ToRaw(NULL) = 0
  BY ArenaFits DEF ToRaw, NULL, Handle
<1>3. raw = 0 => FromRaw(raw) = NULL
  BY <1>1, <1>2, RawRoundTrip
<1>4. FromRaw(raw) = NULL => raw = 0
  BY <1>2, RawRoundTrip
<1>5. QED BY <1>3, <1>4

(* A handle of any two words, too, matches only a live slot or a free one, *)
(* and below the FREE bit only the live slot it is the handle of.          *)
LEMMA PartsMatch ==
  ASSUME IInv, NEW h \in Parts
  PROVE  /\ Live(h.generation) => (Matches(h) <=> h \in LiveHandles)
         /\ Matches(h) => h \in LiveHandles \/ h.index \in FreeSlots
<1>1. h = Handle(h.index, h.generation)
  BY DEF Parts, Handle
<1>2. ASSUME Matches(h), ~(h.index \in FreeSlots) PROVE h \in LiveHandles
  BY <1>1, <1>2 DEF LiveHandles, Matches
<1>3. ASSUME Matches(h), Live(h.generation) PROVE ~(h.index \in FreeSlots)
  BY <1>3 DEF FreeSlots, Matches
<1>4. h \in LiveHandles => Matches(h)
  BY LiveHandleFields DEF Matches
<1>5. QED BY <1>2, <1>3, <1>4

(* Whatever word is presented, it resolves exactly when it is the word of  *)
(* the handle of a live object; otherwise the answer says truly why.       *)
THEOREM LookupsHold == Spec => []OnlyLiveResolves
<1>1. ASSUME IInv, NEW raw \in Raws, NEW h, h = FromRaw(raw)
      PROVE  /\ Resolve(h).status = "Found" <=> \E g \in LiveHandles : raw = ToRaw(g)
             /\ raw = 0 <=> h = NULL
             /\ h \in LiveHandles => ~IsNull(h)
             /\ NonNull(h).status = "InvalidHandle" => Resolve(h) = NonNull(h)
             /\ Resolve(h).status = "Gone" <=>
                  h \notin LiveHandles /\ h.index \in Slots /\ ~IsNull(h)
  <2>0. h \in Handles /\ raw = ToRaw(h)
    BY <1>1, RawRoundTrip
  <2>1. /\ Matches(h) <=> h \in LiveHandles
        /\ h \in LiveHandles => ~IsNull(h)
    BY <1>1, <2>0, LiveHandleFacts
  <2>2. /\ Matches(h) => Resolve(h).status = "Found"
        /\ ~Matches(h) => Resolve(h) = Answer(Why(h)) /\ Resolve(h).status = Why(h)
    BY DEF Resolve, Found, Answer
  <2>3. /\ Why(h) # "Found"
        /\ Why(h) = "Gone" <=> h.index \in Slots /\ ~IsNull(h)
        /\ IsNull(h) => Why(h) = "InvalidHandle"
    BY DEF Why
  <2>4. h \in LiveHandles <=> \E g \in LiveHandles : raw = ToRaw(g)
    <3>1. ASSUME NEW g \in LiveHandles, raw = ToRaw(g) PROVE g = h
      BY <1>1, <2>0, <3>1, LiveHandleFields, RawRoundTrip
    <3>2. QED BY <2>0, <3>1
  <2>5. NonNull(h).status = "InvalidHandle" => IsNull(h) /\ NonNull(h) = Answer("InvalidHandle")
    BY DEF NonNull, Issued
  <2>6. NonNull(h).status = "InvalidHandle" => Resolve(h) = NonNull(h)
    BY <2>1, <2>2, <2>3, <2>5
  <2>7. raw = 0 <=> h = NULL
    BY <1>1, NullWord
  <2>8. QED BY <2>1, <2>2, <2>3, <2>4, <2>6, <2>7
<1>2. IInv => OnlyLiveResolves
  BY <1>1, PartsMatch DEF OnlyLiveResolves, Contains
<1>3. QED BY <1>2, Inductive, PTL

-----------------------------------------------------------------------------
(* The arena implements the table of objects.                              *)

Objects == [h \in LiveHandles |-> value[h.index]]

(* A new arena is an empty table.                                          *)
LEMMA TableInit == Init => Table!Init
<1> SUFFICES ASSUME Init PROVE Table!Init
  OBVIOUS
<1>1. FreeSlots = Slots
  <2>1. 1 \in Generations
    BY ArenaFits DEF Generations
  <2>2. QED BY <2>1, GenerationFacts DEF Init, FreeSlots
<1>2. LiveHandles = {}
  BY <1>1 DEF LiveHandles
<1>3. [h \in LiveHandles |-> value[h.index]] = [h \in {} |-> 0]
  BY <1>2
<1>4. QED BY <1>3 DEF Init, Answer, Table!Init

(* A new object takes a slot that no handle in use names.                  *)
LEMMA TablePlace ==
  ASSUME IInv, NEW v \in Payloads, TryInsert(v)
  PROVE  Table!Place(v)
<1>1. CASE FreeSlots = {} /\ ret' = NoRoom(v) /\ UNCHANGED <<slots, len>>
  <2>1. \A s \in 0 .. N - 1 : \E g \in LiveHandles : g.index = s
    BY <1>1, LiveHandleFields DEF Slots
  <2>2. Objects' = Objects
    BY <1>1 DEF Objects, LiveHandles, FreeSlots, slots
  <2>3. QED
    BY <1>1, <2>1, <2>2 DEF Table!Place, Table!SlotUsed, Table!InUse, Objects, NoRoom
<1>2. ASSUME NEW s \in FreeSlots,
             generation' = [generation EXCEPT ![s] = Advance(@)],
             value' = [value EXCEPT ![s] = v],
             ret' = Issued(Handle(s, Advance(generation[s])))
      PROVE  Table!Place(v)
  <2> DEFINE h == Handle(s, Advance(generation[s]))
  <2>1. s \in Slots /\ generation[s] \in Generations
    BY DEF FreeSlots, IInv, Typed
  <2>2. Advance(generation[s]) \in 1 .. GenMax /\ Live(Advance(generation[s]))
    BY <2>1, GenerationFacts
  <2>3. h \in Handles /\ h.index = s /\ h.generation # 0 /\ h.index < N
    BY <2>1, <2>2, ArenaFits DEF Handle, Handles, Slots
  <2>4. ~(\E g \in LiveHandles : g.index = s)
    BY <2>1, LiveHandleFields
  <2>5. FreeSlots' = FreeSlots \ {s}
    BY <1>2, <2>1, <2>2 DEF FreeSlots, IInv, Typed
  <2>6. generation'[s] = Advance(generation[s]) /\ value'[s] = v
        /\ \A t \in Slots : t # s => generation'[t] = generation[t] /\ value'[t] = value[t]
    BY <1>2, <2>1 DEF IInv, Typed
  <2>7. LiveHandles' = LiveHandles \cup {h}
    <3>1. s \notin Slots \ FreeSlots /\ Slots \ FreeSlots' = (Slots \ FreeSlots) \cup {s}
      BY <2>1, <2>5
    <3>2. \A t \in Slots \ FreeSlots : Handle(t, generation'[t]) = Handle(t, generation[t])
      BY <2>6, <3>1
    <3>3. Handle(s, generation'[s]) = h
      BY <2>6
    <3>4. LiveHandles' = {Handle(t, generation'[t]) : t \in Slots \ FreeSlots'}
      BY DEF LiveHandles, Handle
    <3> HIDE DEF h
    <3>5. QED BY <3>1, <3>2, <3>3, <3>4 DEF LiveHandles
  <2>8. Objects' = [g \in LiveHandles \cup {h} |-> IF g = h THEN v ELSE Objects[g]]
    <3>1. \A g \in LiveHandles : g # h /\ value'[g.index] = value[g.index] /\ Objects[g] = value[g.index]
      BY <2>3, <2>4, <2>6, LiveHandleFields DEF Objects
    <3>2. value'[h.index] = v
      BY <2>3, <2>6
    <3>3. Objects' = [g \in LiveHandles' |-> value'[g.index]]
      BY DEF Objects
    <3> HIDE DEF h
    <3>4. QED BY <2>7, <3>1, <3>2, <3>3
  <2>9. ret' = [status |-> "Issued", handle |-> h]
    BY <1>2 DEF Issued
  <2> HIDE DEF h
  <2>10. QED
    BY <2>3, <2>4, <2>8, <2>9
    DEF Table!Place, Table!SlotUsed, Table!InUse, Table!Handles, Handles, Objects
<1>3. QED BY <1>1, <1>2 DEF TryInsert

(* A write through a handle replaces that object in the table and no       *)
(* other.                                                                  *)
LEMMA TableReplace ==
  ASSUME IInv, NEW h \in Handles, NEW v \in Payloads, Write(h, v)
  PROVE  Table!Replace(h, v)
<1>1. CASE Matches(h) /\ value' = [value EXCEPT ![h.index] = v] /\ ret' = Found(v)
           /\ UNCHANGED <<generation, len>>
  <2>1. h \in LiveHandles
    BY <1>1, LiveHandleFacts
  <2>2. LiveHandles' = LiveHandles
    BY <1>1 DEF LiveHandles, FreeSlots
  <2>3. \A g \in LiveHandles : value'[g.index] = IF g = h THEN v ELSE value[g.index]
    BY <1>1, <2>1, LiveHandleFields DEF IInv, Typed
  <2>4. Objects' = [Objects EXCEPT ![h] = v]
    BY <2>1, <2>2, <2>3 DEF Objects
  <2>5. QED BY <1>1, <2>1, <2>4 DEF Table!Replace, Table!InUse, Objects, Found
<1>2. CASE ~Matches(h) /\ ret' = Answer(Why(h)) /\ UNCHANGED <<slots, len>>
  <2>1. h \notin LiveHandles
    BY <1>2, LiveHandleFacts
  <2>2. Objects' = Objects
    BY <1>2 DEF Objects, LiveHandles, FreeSlots, slots
  <2>3. Why(h) = Table!Why(h)
    BY ArenaFits DEF Why, Table!Why, IsNull, Slots, Handles
  <2>4. QED BY <1>2, <2>1, <2>2, <2>3 DEF Table!Replace, Table!InUse, Objects, Answer
<1>3. QED BY <1>1, <1>2 DEF Write

(* remove and discard, whatever becomes of the value in the freed slot.    *)
LEMMA TableDrop ==
  ASSUME IInv, NEW h \in Handles, Matches(h),
         generation' = [generation EXCEPT ![h.index] = WithFree(@)],
         \A t \in Slots : t # h.index => value'[t] = value[t]
  PROVE  /\ h \in LiveHandles
         /\ Objects' = [g \in LiveHandles \ {h} |-> Objects[g]]
<1>1. h \in LiveHandles /\ h.index \in Slots
  BY LiveHandleFacts DEF Matches
<1>2. ~Live(WithFree(generation[h.index]))
  BY <1>1, GenerationFacts DEF IInv, Typed
<1>3. FreeSlots' = FreeSlots \cup {h.index}
  BY <1>1, <1>2 DEF FreeSlots, IInv, Typed
<1>4. \A t \in Slots : t # h.index => generation'[t] = generation[t]
  BY DEF IInv, Typed
<1>5. LiveHandles' = LiveHandles \ {h}
  <2>1. LiveHandles' = {Handle(t, generation'[t]) : t \in Slots \ FreeSlots'}
    BY DEF LiveHandles, Handle
  <2>2. \A t \in Slots \ FreeSlots' : t # h.index /\ t \notin FreeSlots
                                       /\ generation'[t] = generation[t]
    BY <1>3, <1>4
  <2>3. \A t \in Slots \ FreeSlots : Handle(t, generation[t]) = h <=> t = h.index
    <3>1. \A t \in Slots \ FreeSlots : Handle(t, generation[t]) \in LiveHandles
      BY DEF LiveHandles
    <3>2. \A t : Handle(t, generation[t]).index = t
      BY DEF Handle
    <3>3. QED BY <1>1, <3>1, <3>2, LiveHandleFields
  <2>4. LiveHandles = {Handle(t, generation[t]) : t \in Slots \ FreeSlots}
    BY DEF LiveHandles
  <2>5. Slots \ FreeSlots' = (Slots \ FreeSlots) \ {h.index}
    BY <1>3
  <2>6. ASSUME NEW g \in LiveHandles' PROVE g \in LiveHandles \ {h}
    <3>1. PICK t \in Slots \ FreeSlots' : g = Handle(t, generation'[t])
      BY <2>1, <2>6
    <3>2. QED BY <2>2, <2>3, <2>4, <3>1
  <2>7. ASSUME NEW g \in LiveHandles \ {h} PROVE g \in LiveHandles'
    <3>1. PICK t \in Slots \ FreeSlots : g = Handle(t, generation[t])
      BY <2>4, <2>7
    <3>2. QED BY <1>4, <2>1, <2>3, <2>5, <3>1
  <2>8. QED BY <2>6, <2>7
<1>6. Objects' = [g \in LiveHandles \ {h} |-> Objects[g]]
  <2>1. \A g \in LiveHandles \ {h} : value'[g.index] = value[g.index] /\ Objects[g] = value[g.index]
    BY <1>1, LiveHandleFields DEF Objects
  <2>2. Objects' = [g \in LiveHandles' |-> value'[g.index]]
    BY DEF Objects
  <2>3. QED BY <1>5, <2>1, <2>2
<1>7. QED BY <1>1, <1>6

(* A removal that finds nothing leaves the table alone.                    *)
LEMMA TableNothing ==
  ASSUME IInv, NEW h \in Handles, ~Matches(h), NEW answer,
         ret' = Answer("None"), UNCHANGED <<slots, len>>
  PROVE  Table!Drop(h, answer)
<1>1. h \notin LiveHandles
  BY LiveHandleFacts
<1>2. Objects' = Objects
  BY DEF Objects, LiveHandles, FreeSlots, slots
<1>3. QED BY <1>1, <1>2 DEF Table!Drop, Table!InUse, Objects, Answer

(* remove and discard drop the object from the table.                      *)
LEMMA TableFree ==
  ASSUME IInv, NEW h \in Handles, Remove(h) \/ Discard(h)
  PROVE  \/ h \in Table!InUse /\ Table!Drop(h, [status |-> "Found", object |-> Objects[h]])
         \/ Table!Drop(h, [status |-> "Discarded"])
<1>1. CASE ~Matches(h)
  BY <1>1, TableNothing DEF Remove, Discard
<1>2. CASE Matches(h) /\ Remove(h)
  <2>1. /\ generation' = [generation EXCEPT ![h.index] = WithFree(@)]
        /\ value' = [value EXCEPT ![h.index] = Default]
        /\ ret' = Found(value[h.index])
    BY <1>2 DEF Remove
  <2>2. \A t \in Slots : t # h.index => value'[t] = value[t]
    BY <2>1 DEF IInv, Typed
  <2>3. /\ h \in LiveHandles
        /\ Objects' = [g \in LiveHandles \ {h} |-> Objects[g]]
    BY <1>2, <2>1, <2>2, TableDrop
  <2>4. ret' = [status |-> "Found", object |-> Objects[h]]
    BY <2>1, <2>3 DEF Found, Objects
  <2>5. QED BY <2>3, <2>4 DEF Table!Drop, Table!InUse, Objects
<1>3. CASE Matches(h) /\ Discard(h)
  <2>1. /\ generation' = [generation EXCEPT ![h.index] = WithFree(@)]
        /\ value' = [value EXCEPT ![h.index] = Default] \/ value' = value
        /\ ret' = Answer("Discarded")
    BY <1>3 DEF Discard
  <2>2. \A t \in Slots : t # h.index => value'[t] = value[t]
    BY <2>1 DEF IInv, Typed
  <2>3. /\ h \in LiveHandles
        /\ Objects' = [g \in LiveHandles \ {h} |-> Objects[g]]
    BY <1>3, <2>1, <2>2, TableDrop
  <2>4. QED BY <2>1, <2>3 DEF Table!Drop, Table!InUse, Objects, Answer
<1>4. QED BY <1>1, <1>2, <1>3

(* Every step of the arena is a step of the table or leaves it alone.      *)
LEMMA TableNext == IInv /\ [Next]_vars => [Table!Next]_(Table!vars)
<1> SUFFICES ASSUME IInv, [Next]_vars PROVE [Table!Next]_(Table!vars)
  OBVIOUS
<1>1. ASSUME NEW v \in Payloads, TryInsert(v) PROVE Table!Next
  BY <1>1, TablePlace DEF Table!Next
<1>2. ASSUME NEW h \in Handles, Remove(h) \/ Discard(h) PROVE Table!Next
  <2>1. h \in Table!Handles
    BY DEF Handles, Table!Handles
  <2>2. QED BY <1>2, <2>1, TableFree DEF Table!Next, Objects
<1>3. ASSUME NEW h \in Handles, NEW v \in Payloads, Write(h, v) PROVE Table!Next
  <2>1. h \in Table!Handles
    BY DEF Handles, Table!Handles
  <2>2. QED BY <1>3, <2>1, TableReplace DEF Table!Next
<1>4. CASE UNCHANGED vars
  BY <1>4 DEF vars, Table!vars, LiveHandles, FreeSlots
<1>5. QED BY <1>1, <1>2, <1>3, <1>4 DEF Next

(* Every behaviour of the arena is one of the table: a call under one      *)
(* handle leaves the objects of all others alone, and a new object takes a *)
(* slot no handle in use names.                                            *)
THEOREM TableImplemented == Spec => ImplementsTable
<1>1. Spec => Table!Spec
  BY TableInit, TableNext, Inductive, PTL DEF Spec, Table!Spec
<1>2. QED BY <1>1 DEF ImplementsTable

-----------------------------------------------------------------------------
(* A handle kept while its slot is used again.                             *)

(* The generation k occupations after g.                                   *)
Ahead(g, k) == IF g + k > GenMax THEN g + k - GenMax ELSE g + k

KeptInv ==
  /\ kept \in Handles
  /\ reuses \in 0 .. GenMax
  /\ gone \in BOOLEAN
  /\ IF kept = NoHandle
     THEN ~gone /\ reuses = 0
     ELSE /\ kept.index \in Slots /\ kept.generation \in 1 .. GenMax
          /\ ~gone => reuses = 0 /\ generation[kept.index] = kept.generation
          /\ gone /\ reuses = 0 => ~Live(generation[kept.index])
          /\ gone /\ reuses < GenMax =>
               Counter(generation[kept.index]) = Ahead(kept.generation, reuses)

ClientInv == IInv /\ KeptInv

(* Fewer than GenMax occupations later, the generation is another one.     *)
LEMMA AheadFacts ==
  ASSUME NEW g \in 1 .. GenMax, NEW k \in 0 .. GenMax - 1
  PROVE  /\ k # 0 => Ahead(g, k) # g
         /\ Ahead(g, 0) = g
         /\ Ahead(g, k) \in 1 .. GenMax
         /\ Ahead(g, k + 1) = IF Ahead(g, k) = GenMax THEN 1 ELSE Ahead(g, k) + 1
BY ArenaFits DEF Ahead

(* Within a round of generations a stale handle matches nothing.           *)
LEMMA StaleNoMatch ==
  ASSUME ClientInv, kept # NoHandle, gone, reuses < GenMax
  PROVE  ~Matches(kept)
<1>1. /\ kept.generation \in 1 .. GenMax /\ kept.index \in Slots
      /\ generation[kept.index] \in Generations
      /\ reuses \in 0 .. GenMax - 1
  BY ArenaFits DEF ClientInv, KeptInv, IInv, Typed
<1>2. CASE ~Live(generation[kept.index])
  BY <1>1, <1>2, GenerationFacts DEF Matches
<1>3. CASE Live(generation[kept.index])
  <2>1. /\ reuses # 0
        /\ Counter(generation[kept.index]) = generation[kept.index]
        /\ Counter(generation[kept.index]) = Ahead(kept.generation, reuses)
    BY <1>1, <1>3, GenerationFacts DEF ClientInv, KeptInv
  <2>2. QED BY <1>1, <2>1, AheadFacts DEF Matches
<1>4. QED BY <1>2, <1>3

(* Placing an object keeps the kept handle's distance to its slot's        *)
(* generation counted.                                                     *)
LEMMA PlaceStep ==
  ASSUME ClientInv, NEW v \in Payloads, Place(v)
  PROVE  ClientInv'
<1>1. IInv'
  BY InsertStep DEF ClientInv, Place
<1>2. CASE FreeSlots = {} /\ ret' = NoRoom(v) /\ UNCHANGED <<slots, len>>
  <2>1. ret'.status # "Issued"
    BY <1>2 DEF NoRoom
  <2>2. UNCHANGED <<kept, gone, reuses, generation>>
    BY <1>2, <2>1 DEF Place, slots
  <2>3. KeptInv'
    BY <2>2 DEF ClientInv, KeptInv
  <2>4. QED BY <1>1, <2>3 DEF ClientInv
<1>3. ASSUME NEW s \in FreeSlots,
             generation' = [generation EXCEPT ![s] = Advance(@)],
             ret' = Issued(Handle(s, Advance(generation[s])))
      PROVE  ClientInv'
  <2> DEFINE a == Advance(generation[s])
  <2>1. s \in Slots /\ generation[s] \in Generations /\ ~Live(generation[s])
    BY <1>3 DEF FreeSlots, ClientInv, IInv, Typed
  <2>2. /\ a \in 1 .. GenMax /\ Live(a) /\ Counter(a) = a /\ a \in Generations
        /\ a = IF Counter(generation[s]) = GenMax THEN 1 ELSE Counter(generation[s]) + 1
    <3>1. a \in 1 .. GenMax /\ Live(a) /\ a \in Generations
          /\ a = IF Counter(generation[s]) = GenMax THEN 1 ELSE Counter(generation[s]) + 1
      BY <2>1, GenerationFacts
    <3>2. QED BY <3>1, GenerationFacts
  <2>3. /\ generation'[s] = a
        /\ \A t \in Slots : t # s => generation'[t] = generation[t]
    BY <1>3, <2>1 DEF ClientInv, IInv, Typed
  <2>4. /\ ret'.status = "Issued" /\ ret'.handle = Handle(s, a)
        /\ Handle(s, a).index = s /\ Handle(s, a).generation = a
        /\ Handle(s, a) \in Handles /\ Handle(s, a) # NoHandle
    <3>1. Handle(s, a) \in Handles
      BY <2>1, <2>2, ArenaFits DEF Handle, Handles, Slots
    <3>2. Handle(s, a).index = s /\ Handle(s, a).generation = a /\ NoHandle.generation = 0
      BY DEF Handle, NoHandle, NULL
    <3>3. QED BY <1>3, <2>2, <3>1, <3>2 DEF Issued
  <2> HIDE DEF a
  <2>5. CASE kept = NoHandle /\ kept' = ret'.handle /\ UNCHANGED <<gone, reuses>>
    <3>1. KeptInv'
      BY <2>1, <2>2, <2>3, <2>4, <2>5 DEF ClientInv, KeptInv, NoHandle, NULL, Handle, Handles, Slots
    <3>2. QED BY <1>1, <3>1 DEF ClientInv
  <2>6. CASE kept # NoHandle /\ kept' = kept /\ UNCHANGED gone /\ s = kept.index
             /\ reuses' = IF reuses < GenMax THEN reuses + 1 ELSE reuses
    <3>1. gone /\ reuses \in 0 .. GenMax /\ kept.generation \in 1 .. GenMax
      BY <2>1, <2>6, GenerationFacts, ArenaFits DEF ClientInv, KeptInv, Live, FREE
    <3>2. CASE reuses + 1 < GenMax
      <4>1. Counter(generation[s]) = Ahead(kept.generation, reuses) /\ reuses' = reuses + 1
            /\ reuses \in 0 .. GenMax - 1
        BY <2>6, <3>1, <3>2, ArenaFits DEF ClientInv, KeptInv
      <4>2. a = Ahead(kept.generation, reuses + 1)
        BY <2>2, <3>1, <4>1, AheadFacts
      <4>3. reuses' \in 0 .. GenMax /\ reuses' # 0
        BY <3>1, <3>2, <4>1, ArenaFits
      <4>4. KeptInv'
        BY <2>2, <2>3, <2>6, <3>1, <4>1, <4>2, <4>3
        DEF ClientInv, KeptInv, NoHandle, NULL, Handle, Handles, Slots
      <4>5. QED BY <1>1, <4>4 DEF ClientInv
    <3>3. CASE ~(reuses + 1 < GenMax)
      <4>1. reuses' = GenMax /\ reuses' # 0
        BY <2>6, <3>1, <3>3, ArenaFits
      <4>2. KeptInv'
        BY <2>3, <2>6, <3>1, <4>1, ArenaFits
        DEF ClientInv, KeptInv, NoHandle, NULL, Handle, Handles, Slots
      <4>3. QED BY <1>1, <4>2 DEF ClientInv
    <3>4. QED BY <3>2, <3>3
  <2>7. CASE /\ kept' = kept /\ UNCHANGED <<gone, reuses>>
             /\ kept # NoHandle => s # kept.index
    <3>1. kept # NoHandle => generation'[kept.index] = generation[kept.index]
      BY <2>3, <2>7 DEF ClientInv, KeptInv
    <3>2. KeptInv'
      BY <2>7, <3>1 DEF ClientInv, KeptInv, NoHandle, NULL, Handle, Handles, Slots
    <3>3. QED BY <1>1, <3>2 DEF ClientInv
  <2>8. QED BY <2>4, <2>5, <2>6, <2>7 DEF Place
<1>4. QED BY <1>2, <1>3 DEF Place, TryInsert

(* A handle of the slot that matches while the object is there is the kept *)
(* one, so nobody else can have removed it unnoticed.                      *)
LEMMA FreeingStep ==
  ASSUME ClientInv, NEW h \in Handles, Free(h)
  PROVE  ClientInv'
<1>1. IInv'
  BY CallStep DEF ClientInv, Free
<1>2. CASE ~Matches(h)
  <2>1. UNCHANGED <<generation, kept, reuses>> /\ ret'.status = "None"
    BY <1>2 DEF Free, Remove, Discard, Answer, slots
  <2>2. gone' = gone
    BY <2>1 DEF Free, ClientInv, KeptInv
  <2>3. KeptInv'
    BY <2>1, <2>2 DEF ClientInv, KeptInv
  <2>4. QED BY <1>1, <2>3 DEF ClientInv
<1>3. CASE Matches(h)
  <2>1. /\ generation' = [generation EXCEPT ![h.index] = WithFree(@)]
        /\ ret'.status # "None"
        /\ UNCHANGED <<kept, reuses>>
        /\ gone' = (gone \/ (kept # NoHandle /\ h = kept))
    <3>1. /\ generation' = [generation EXCEPT ![h.index] = WithFree(@)]
          /\ ret'.status # "None"
      BY <1>3 DEF Free, Remove, Discard, Answer, Found
    <3>2. QED BY <3>1 DEF Free
  <2>2. /\ h.index \in Slots /\ generation[h.index] = h.generation
        /\ generation[h.index] \in Generations
    BY <1>3 DEF Matches, ClientInv, IInv, Typed
  <2>3. /\ generation'[h.index] = WithFree(generation[h.index])
        /\ \A t \in Slots : t # h.index => generation'[t] = generation[t]
    BY <2>1, <2>2 DEF ClientInv, IInv, Typed
  <2>4. /\ ~Live(generation'[h.index])
        /\ Counter(generation'[h.index]) = Counter(generation[h.index])
        /\ Counter(generation[h.index]) = generation[h.index]
    BY <2>2, <2>3, MatchIsLive, <1>3, GenerationFacts
  <2>5. CASE kept = NoHandle
    BY <1>1, <2>1, <2>5 DEF ClientInv, KeptInv, NoHandle, NULL, Handle, Handles, Slots
  <2>6. CASE kept # NoHandle /\ kept.index # h.index
    <3>1. generation'[kept.index] = generation[kept.index] /\ gone' = gone
      BY <2>1, <2>3, <2>6 DEF ClientInv, KeptInv
    <3>2. KeptInv'
      BY <2>1, <2>6, <3>1 DEF ClientInv, KeptInv, NoHandle, NULL, Handle, Handles, Slots
    <3>3. QED BY <1>1, <3>2 DEF ClientInv
  <2>7. CASE kept # NoHandle /\ kept.index = h.index
    <3>1. ~gone => h = kept /\ reuses = 0 /\ Ahead(kept.generation, 0) = kept.generation
      <4>1. ~gone => h.generation = kept.generation /\ reuses = 0
        BY <2>2, <2>7 DEF ClientInv, KeptInv
      <4>2. h.generation = kept.generation => h = kept
        BY <2>7 DEF ClientInv, KeptInv, Handles
      <4>3. Ahead(kept.generation, 0) = kept.generation
        BY <2>7, AheadFacts, ArenaFits DEF ClientInv, KeptInv
      <4>4. QED BY <4>1, <4>2, <4>3
    <3>2. gone'
      BY <2>1, <2>7, <3>1
    <3>3. reuses < GenMax => Counter(generation'[kept.index]) = Ahead(kept.generation, reuses)
      <4>1. CASE gone
        BY <2>4, <2>7, <4>1 DEF ClientInv, KeptInv
      <4>2. CASE ~gone
        BY <2>2, <2>4, <2>7, <3>1, <4>2
      <4>3. QED BY <4>1, <4>2
    <3>4. KeptInv'
      BY <2>1, <2>4, <2>7, <3>2, <3>3 DEF ClientInv, KeptInv, NoHandle, NULL, Handle, Handles, Slots
    <3>5. QED BY <1>1, <3>4 DEF ClientInv
  <2>8. QED BY <2>5, <2>6, <2>7
<1>4. QED BY <1>2, <1>3

(* Every step of the callers keeps the invariant.                          *)
LEMMA ClientNextInv == ClientInv /\ [ClientNext]_clientVars => ClientInv'
<1> SUFFICES ASSUME ClientInv, [ClientNext]_clientVars PROVE ClientInv'
  OBVIOUS
<1>1. ASSUME NEW v \in Payloads, Place(v) PROVE ClientInv'
  BY <1>1, PlaceStep
<1>2. ASSUME NEW h \in Handles, Free(h) PROVE ClientInv'
  BY <1>2, FreeingStep
<1>3. ASSUME NEW h \in Handles, NEW v \in Payloads, Change(h, v)
      PROVE  ClientInv'
  <2>1. IInv'
    BY <1>3, CallStep DEF ClientInv, Change
  <2>2. UNCHANGED <<generation, kept, gone, reuses>>
    BY <1>3 DEF Change, Write, slots
  <2>3. KeptInv'
    BY <2>2 DEF ClientInv, KeptInv
  <2>4. QED BY <2>1, <2>3 DEF ClientInv
<1>4. CASE UNCHANGED clientVars
  <2>1. UNCHANGED <<slots, len, kept, gone, reuses>>
    BY <1>4 DEF clientVars, vars, slots
  <2>2. IInv'
    BY <2>1, SameStep DEF ClientInv
  <2>3. KeptInv'
    BY <2>1 DEF ClientInv, KeptInv, slots
  <2>4. QED BY <2>2, <2>3 DEF ClientInv
<1>5. QED BY <1>1, <1>2, <1>3, <1>4 DEF ClientNext

(* So it holds in every state.                                             *)
LEMMA ClientInductive == ClientSpec => []ClientInv
<1>1. ClientInit => ClientInv
  <2> SUFFICES ASSUME ClientInit PROVE ClientInv
    OBVIOUS
  <2>1. IInv
    BY InitIInv DEF ClientInit
  <2>2. NoHandle \in Handles
    BY ArenaFits DEF NoHandle, NULL, Handle, Handles
  <2>3. KeptInv
    <3>1. 0 \in 0 .. GenMax
      BY ArenaFits
    <3>2. QED BY <2>2, <3>1, Zenon DEF ClientInit, KeptInv
  <2>4. QED BY <2>1, <2>3 DEF ClientInv
<1>2. QED BY <1>1, ClientNextInv, PTL DEF ClientSpec

(* However often the slot of a removed object is used again, its handle    *)
(* resolves to nothing until GenMax occupations have gone by.              *)
THEOREM StaleHandlesStayDead == ClientSpec => []StaleStaysDead
<1>1. ClientInv => StaleStaysDead
  <2> SUFFICES ASSUME ClientInv, kept # NoHandle
               PROVE  /\ ~gone => Matches(kept) /\ reuses = 0
                      /\ gone /\ reuses < GenMax => Resolve(kept).status = "Gone"
    BY DEF StaleStaysDead
  <2>1. ~gone => Matches(kept) /\ reuses = 0
    BY DEF ClientInv, KeptInv, Matches
  <2>2. ASSUME gone, reuses < GenMax PROVE Resolve(kept).status = "Gone"
    <3>1. ~Matches(kept)
      BY <2>2, StaleNoMatch
    <3>2. kept.index \in Slots /\ kept.generation # 0
      BY DEF ClientInv, KeptInv
    <3>3. QED BY <3>1, <3>2 DEF Resolve, Why, IsNull, Answer
  <2>3. QED BY <2>1, <2>2
<1>2. QED BY <1>1, ClientInductive, PTL

(* Until then it changes and removes nothing either.                       *)
THEOREM StaleHandlesTouchNothing == ClientSpec => StaleTouchesNothing
<1> DEFINE A == \A v \in Payloads :
                  Stale /\ reuses < GenMax /\ (Free(kept) \/ Change(kept, v)) =>
                    UNCHANGED <<slots, len>>
<1>1. ClientInv => A
  <2> SUFFICES ASSUME ClientInv, NEW v \in Payloads, Stale, reuses < GenMax,
                      Free(kept) \/ Change(kept, v)
               PROVE  UNCHANGED <<slots, len>>
    OBVIOUS
  <2>1. ~Matches(kept)
    BY StaleNoMatch DEF Stale
  <2>2. QED BY <2>1 DEF Free, Remove, Discard, Change, Write
<1>2. ClientSpec => [][A]_clientVars
  <2> HIDE DEF A
  <2>1. ClientInv /\ [ClientNext]_clientVars => [A]_clientVars
    BY <1>1
  <2>2. QED BY <2>1, ClientInductive, PTL DEF ClientSpec
<1>3. QED BY <1>2 DEF StaleTouchesNothing

(* The callers do nothing but call the arena, so all that is proved above  *)
(* of the arena holds of them: its types, its count, its lookups and the   *)
(* table it implements.                                                    *)
THEOREM ClientsCallTheArena == ClientSpec => Spec
<1>1. ClientInit => Init
  BY DEF ClientInit
<1>2. [ClientNext]_clientVars => [Next]_vars
  <2>1. ASSUME NEW v \in Payloads, Place(v) PROVE Next
    BY <2>1 DEF Place, Next
  <2>2. ASSUME NEW h \in Handles, Free(h) PROVE Next
    BY <2>2 DEF Free, Next
  <2>3. ASSUME NEW h \in Handles, NEW v \in Payloads, Change(h, v) PROVE Next
    BY <2>3 DEF Change, Next
  <2>4. QED BY <2>1, <2>2, <2>3 DEF ClientNext, clientVars
<1>3. QED BY <1>1, <1>2, PTL DEF ClientSpec, Spec
=============================================================================
