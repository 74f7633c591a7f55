------------------------------- MODULE Lists -------------------------------
(***************************************************************************)
(* The index-threaded lists of the kernel (list.rs): a doubly linked ring  *)
(* per list over one array of N slots, items first, then one end marker    *)
(* per list; a round-robin cursor and a count per list.                    *)
(*                                                                         *)
(* A call has the lists to itself (`&mut self`), so an operation is one    *)
(* step, except the ordered insert: its search loop takes one step per     *)
(* iteration, and no other operation starts before it has answered.        *)
(***************************************************************************)
EXTENDS Integers, FiniteSets

CONSTANTS
  N,          \* slots; the type parameter N
  L,          \* lists; the type parameter L
  MaxValue,   \* V::MAX, the value of a marker
  Values,     \* values the callers pass
  ItemIds,    \* item ids the callers pass, good and bad (u16)
  ListIds,    \* list ids the callers pass, good and bad (u8)
  DebugBuild  \* debug_assertions: the search counts its turns and gives up

NONE == 65535      \* u16::MAX, the links of an item never inserted
NO_LIST == 255     \* u8::MAX, the container of an item in no list
U16 == 0 .. NONE

ASSUME SizesFit ==
  /\ N \in Nat /\ (\E k \in 0 .. 15 : N = 2^k) /\ N <= 32768
  /\ L \in Nat /\ 0 < L /\ L < N /\ L <= 255

ASSUME CallsFit ==
  /\ MaxValue \in Nat /\ Values \subseteq 0 .. MaxValue
  /\ ItemIds \subseteq U16
  /\ ListIds \subseteq 0 .. NO_LIST
  /\ DebugBuild \in BOOLEAN

CAPACITY == N - L

Slots == 0 .. N - 1
Items == 0 .. CAPACITY - 1
ListSet == 0 .. L - 1

EndOf(list) == CAPACITY + list
IsEnd(link) == link >= CAPACITY

(* Following a link masks it with N - 1, which is `% N` as N is a power of *)
(* two, and changes nothing on a link that is a slot.                      *)
At(link) == IF link \in Slots THEN link ELSE link % N

VARIABLES
  value, prev, next, container,   \* the fields of nodes[s]
  cursor, len,                    \* the fields of meta[l]
  walk,                           \* the search loop of insert_inner
  ret                             \* what the last call answered

nodes == <<value, prev, next, container>>
meta == <<cursor, len>>
vars == <<value, prev, next, container, cursor, len, walk, ret>>

NoWalk == [on |-> FALSE, list |-> 0, item |-> 0, value |-> 0, write |-> FALSE,
           before |-> 0, after |-> 0, guard |-> 0]

Ok(n) == [status |-> "Ok", answer |-> n]
Err(e) == [status |-> e, answer |-> 0]
Nothing == Err("None")            \* Ok(None)

(* ListValue::ZERO, which an item carries until it is first inserted, and  *)
(* Node::EMPTY, an item then.                                              *)
ZERO == 0
EMPTY == [value |-> ZERO, prev |-> NONE, next |-> NONE, container |-> NO_LIST]

(* Slip: the marker is made with the least value, not the greatest.        *)
InitZeroMarker ==
  /\ value = [s \in Slots |-> EMPTY.value]
  /\ prev = [s \in Slots |-> IF IsEnd(s) THEN s ELSE NONE]
  /\ next = [s \in Slots |-> IF IsEnd(s) THEN s ELSE NONE]
  /\ container = [s \in Slots |-> NO_LIST]
  /\ cursor = [l \in ListSet |-> EndOf(l)]
  /\ len = [l \in ListSet |-> 0]
  /\ walk = NoWalk
  /\ ret = Ok(0)

Init ==
  /\ value = [s \in Slots |-> IF IsEnd(s) THEN MaxValue ELSE EMPTY.value]
  /\ prev = [s \in Slots |-> IF IsEnd(s) THEN s ELSE EMPTY.prev]
  /\ next = [s \in Slots |-> IF IsEnd(s) THEN s ELSE EMPTY.next]
  /\ container = [s \in Slots |-> EMPTY.container]
  /\ cursor = [l \in ListSet |-> EndOf(l)]
  /\ len = [l \in ListSet |-> 0]
  /\ walk = NoWalk
  /\ ret = Ok(0)

-----------------------------------------------------------------------------
(* What the calls that only read answer. Callers that may be wrong about   *)
(* an id are told so, but is_empty_of calls a list that is not one empty.  *)

LenOf(list) == IF list \in ListSet THEN Ok(len[list]) ELSE Err("InvalidArgument")
CursorOf(list) == IF list \in ListSet THEN Ok(cursor[list]) ELSE Err("InvalidArgument")

IsEmptyOf(list) == list \in ListSet => len[list] = 0
IsEmpty(list) ==
  IF list \in ListSet THEN Ok(IF len[list] = 0 THEN 1 ELSE 0) ELSE Err("InvalidArgument")

ItemValue(item) == IF item \in Items THEN Ok(value[item]) ELSE Err("InvalidArgument")

ContainerOf(item) ==
  IF item \notin Items THEN Err("InvalidArgument")
  ELSE IF container[item] = NO_LIST THEN Nothing ELSE Ok(container[item])

NextAndValue(item) ==
  IF item \notin Items THEN Err("InvalidArgument")
  ELSE IF container[item] = NO_LIST THEN Err("NotActive")
  ELSE [next |-> IF IsEnd(next[item]) THEN Nothing ELSE Ok(next[item]),
        value |-> value[item]]

(* The rest, for a list and an item that are.                              *)

Head(list) ==
  LET first == next[At(EndOf(list))]
  IN IF len[list] > 0 /\ ~IsEnd(first) THEN Ok(first) ELSE Nothing

HeadValue(list) == value[At(next[At(EndOf(list))])]
TailValue(list) == value[At(prev[At(EndOf(list))])]

NextOf(item) ==
  IF container[item] = NO_LIST THEN Err("NotActive")
  ELSE IF IsEnd(next[item]) THEN Nothing ELSE Ok(next[item])

(* The slots that following next from the marker meets, one after another. *)
Walked(list) ==
  LET at[k \in 1 .. N + 1] == next[At(IF k = 1 THEN EndOf(list) ELSE at[k - 1])] IN at

(* iter: as many of them as the count says, whatever they are.             *)
Iterated(list) == LET at == Walked(list) IN [k \in 1 .. len[list] |-> at[k]]

(* is_sorted: the walk stops at a marker, at a value below the one before, *)
(* or, giving up, when it has passed more than N items.                    *)
IsSorted(list) ==
  LET at == Walked(list)
      Marker(k) == IsEnd(at[k])
      Falls(k) == k > 1 /\ value[At(at[k])] < value[At(at[k - 1])]
      StopsAt(k) == /\ Marker(k) \/ Falls(k)
                    /\ \A j \in 1 .. k - 1 : ~Marker(j) /\ ~Falls(j)
  IN IF \E k \in 1 .. N + 1 : StopsAt(k) /\ Marker(k) THEN Ok(1)
     ELSE IF \E k \in 1 .. N + 1 : StopsAt(k) THEN Ok(0)
     ELSE Err("InvalidArgument")

-----------------------------------------------------------------------------
(* Link surgery, on the two link fields given as functions.                *)

LinkNext(nx, item, before, after) == [nx EXCEPT ![item] = after, ![At(before)] = item]
LinkPrev(pv, item, before, after) == [pv EXCEPT ![item] = before, ![At(after)] = item]

(* Slip: the link into the item that leaves is not rewritten.              *)
SkipLeavesLink(nx, pv, item) == nx
SkipLeavesBackLink(nx, pv, item) == pv

SkipNext(nx, pv, item) == [nx EXCEPT ![At(pv[item])] = nx[item]]
SkipPrev(nx, pv, item) == [pv EXCEPT ![At(nx[item])] = pv[item]]

Refuse(error) ==
  /\ ret' = Err(error)
  /\ UNCHANGED <<nodes, meta>>

(* Slip: an item already in a list is linked again.                        *)
LinkBusy(list, item, before, after, write, v) ==
  /\ item \in Items
  /\ value' = IF write THEN [value EXCEPT ![item] = v] ELSE value
  /\ next' = LinkNext(next, item, before, after)
  /\ prev' = LinkPrev(prev, item, before, after)
  /\ container' = [container EXCEPT ![item] = list]
  /\ len' = [len EXCEPT ![list] = (@ + 1) % (NONE + 1)]
  /\ ret' = Ok(0)
  /\ UNCHANGED cursor

LinkBetween(list, item, before, after, write, v) ==
  \/ item \notin Items /\ Refuse("InvalidArgument")
  \/ item \in Items /\ container[item] # NO_LIST /\ Refuse("Busy")
  \/ /\ item \in Items /\ container[item] = NO_LIST
     /\ value' = IF write THEN [value EXCEPT ![item] = v] ELSE value
     /\ next' = LinkNext(next, item, before, after)
     /\ prev' = LinkPrev(prev, item, before, after)
     /\ container' = [container EXCEPT ![item] = list]
     /\ len' = [len EXCEPT ![list] = (@ + 1) % (NONE + 1)]
     /\ ret' = Ok(0)
     /\ UNCHANGED cursor

-----------------------------------------------------------------------------
(* The ordered insert. The list has been checked; a value of MaxValue goes *)
(* in front of the marker, any other is searched for.                      *)

InsertInner(list, item, v, write) ==
  LET end == EndOf(list) IN
  \/ /\ v = MaxValue
     /\ LinkBetween(list, item, prev[At(end)], end, write, v)
     /\ UNCHANGED walk
  \/ /\ v # MaxValue
     /\ walk' = [on |-> TRUE, list |-> list, item |-> item, value |-> v, write |-> write,
                 before |-> end, after |-> next[At(end)], guard |-> 0]
     /\ UNCHANGED <<nodes, meta, ret>>

(* Slip: `<`, so that a tie is put in front of its equals.                 *)
PassesOnlyLess == value[At(walk.after)] < walk.value

Passes == value[At(walk.after)] <= walk.value

OneMore(turns) == IF turns < N THEN turns + 1 ELSE N

(* Slip: the trailing neighbour is not moved along.                        *)
WalkLeavesBefore ==
  /\ walk.on /\ Passes
  /\ walk' = [walk EXCEPT !.after = next[At(walk.after)],
                          !.guard = OneMore(@)]
  /\ UNCHANGED <<nodes, meta, ret>>

(* One turn of the search loop that goes on. Debug builds answer           *)
(* InvalidArgument when the turns pass N; no other build counts them, and  *)
(* there `guard`, which nothing reads, stops counting at N.                *)
WalkOn ==
  /\ walk.on /\ Passes
  /\ IF DebugBuild /\ walk.guard + 1 > N
     THEN walk' = NoWalk /\ ret' = Err("InvalidArgument")
     ELSE /\ walk' = [walk EXCEPT !.before = walk.after,
                                  !.after = next[At(walk.after)],
                                  !.guard = OneMore(@)]
          /\ UNCHANGED ret
  /\ UNCHANGED <<nodes, meta>>

(* The turn that meets a greater value ends the search and links.          *)
WalkStop ==
  /\ walk.on /\ ~Passes
  /\ LinkBetween(walk.list, walk.item, walk.before, walk.after, walk.write, walk.value)
  /\ walk' = NoWalk

-----------------------------------------------------------------------------
(* The calls that change state. None starts while a search is running.     *)

Insert(list, item, v) ==
  /\ ~walk.on
  /\ \/ list \notin ListSet /\ Refuse("InvalidArgument") /\ UNCHANGED walk
     \/ list \in ListSet /\ InsertInner(list, item, v, TRUE)

InsertKeepingValue(list, item) ==
  /\ ~walk.on
  /\ \/ /\ list \notin ListSet \/ item \notin Items
        /\ Refuse("InvalidArgument")
        /\ UNCHANGED walk
     \/ /\ list \in ListSet /\ item \in Items
        /\ InsertInner(list, item, value[item], FALSE)

(* Slip: the append is an insert_end, which links in front of the cursor.  *)
InsertSortedAtCursor(list, item, v) ==
  /\ ~walk.on
  /\ list \in ListSet
  /\ IF v >= TailValue(list)
     THEN /\ LinkBetween(list, item, prev[At(cursor[list])], cursor[list], TRUE, v)
          /\ UNCHANGED walk
     ELSE InsertInner(list, item, v, TRUE)

InsertSorted(list, item, v) ==
  LET end == EndOf(list)
      tail == prev[At(end)]
  IN
  /\ ~walk.on
  /\ \/ list \notin ListSet /\ Refuse("InvalidArgument") /\ UNCHANGED walk
     \/ /\ list \in ListSet
        /\ v >= value[At(tail)]
        /\ LinkBetween(list, item, tail, end, TRUE, v)
        /\ UNCHANGED walk
     \/ /\ list \in ListSet
        /\ v < value[At(tail)]
        /\ InsertInner(list, item, v, TRUE)

(* Slip: linked behind the cursor, so that the newcomer has the next turn. *)
InsertBehindCursor(list, item) ==
  /\ ~walk.on
  /\ list \in ListSet
  /\ LinkBetween(list, item, cursor[list], next[At(cursor[list])], FALSE, 0)
  /\ UNCHANGED walk

InsertEnd(list, item) ==
  /\ ~walk.on
  /\ \/ list \notin ListSet /\ Refuse("InvalidArgument")
     \/ /\ list \in ListSet
        /\ LinkBetween(list, item, prev[At(cursor[list])], cursor[list], FALSE, 0)
  /\ UNCHANGED walk

(* Slip: the list is checked last, so that a free item passes as a member  *)
(* of NO_LIST and its old neighbours are relinked (list.rs:766-770).       *)
MoveToEndLateCheck(list, item) ==
  /\ ~walk.on
  /\ item \in Items /\ container[item] = list
  /\ IF list \notin ListSet
     THEN /\ next' = SkipNext(next, prev, item)
          /\ prev' = SkipPrev(next, prev, item)
          /\ ret' = Err("InvalidArgument")
          /\ UNCHANGED <<value, container, meta, walk>>
     ELSE ret' = Ok(1) /\ UNCHANGED <<nodes, meta, walk>>

(* Slip: the new neighbour is read before the item is unlinked.            *)
MoveToEndReadsEarly(list, item) ==
  /\ ~walk.on
  /\ list \in ListSet /\ item \in Items /\ container[item] = list
  /\ LET c == IF cursor[list] = item THEN prev[item] ELSE cursor[list]
         before == prev[At(c)]
     IN /\ next' = LinkNext(SkipNext(next, prev, item), item, before, c)
        /\ prev' = LinkPrev(SkipPrev(next, prev, item), item, before, c)
        /\ cursor' = [cursor EXCEPT ![list] = c]
  /\ ret' = Ok(1)
  /\ UNCHANGED <<value, container, len, walk>>

MoveToEnd(list, item) ==
  /\ ~walk.on
  /\ \/ (list \notin ListSet \/ item \notin Items) /\ Refuse("InvalidArgument")
     \/ /\ list \in ListSet /\ item \in Items /\ container[item] # list
        /\ ret' = Ok(0)
        /\ UNCHANGED <<nodes, meta>>
     \/ /\ list \in ListSet /\ item \in Items /\ container[item] = list
        /\ LET c == IF cursor[list] = item THEN prev[item] ELSE cursor[list]
               nx == SkipNext(next, prev, item)
               pv == SkipPrev(next, prev, item)
               before == pv[At(c)]
           IN /\ next' = LinkNext(nx, item, before, c)
              /\ prev' = LinkPrev(pv, item, before, c)
              /\ cursor' = [cursor EXCEPT ![list] = c]
        /\ ret' = Ok(1)
        /\ UNCHANGED <<value, container, len>>
  /\ UNCHANGED walk

(* Slips: the cursor stays on the item that leaves, or steps forward.      *)
RemoveLeavesCursor(item) ==
  /\ ~walk.on
  /\ item \in Items /\ container[item] # NO_LIST
  /\ next' = SkipNext(next, prev, item)
  /\ prev' = SkipPrev(next, prev, item)
  /\ container' = [container EXCEPT ![item] = NO_LIST]
  /\ len' = [len EXCEPT ![container[item]] = @ - 1]
  /\ ret' = Ok(len'[container[item]])
  /\ UNCHANGED <<value, cursor, walk>>

RemoveStepsForward(item) ==
  /\ ~walk.on
  /\ item \in Items /\ container[item] # NO_LIST
  /\ next' = SkipNext(next, prev, item)
  /\ prev' = SkipPrev(next, prev, item)
  /\ container' = [container EXCEPT ![item] = NO_LIST]
  /\ len' = [len EXCEPT ![container[item]] = @ - 1]
  /\ cursor' = [cursor EXCEPT ![container[item]] = IF @ = item THEN next[item] ELSE @]
  /\ ret' = Ok(len'[container[item]])
  /\ UNCHANGED <<value, walk>>

Remove(item) ==
  /\ ~walk.on
  /\ \/ item \notin Items /\ Refuse("InvalidArgument")
     \/ item \in Items /\ container[item] = NO_LIST /\ Refuse("NotActive")
     \/ /\ item \in Items /\ container[item] # NO_LIST
        /\ next' = SkipNext(next, prev, item)
        /\ prev' = SkipPrev(next, prev, item)
        /\ container' = [container EXCEPT ![item] = NO_LIST]
        /\ LET list == container[item]
               left == (len[list] - 1) % (NONE + 1)
           IN /\ cursor' = [cursor EXCEPT ![list] = IF @ = item THEN prev[item] ELSE @]
              /\ len' = [len EXCEPT ![list] = left]
              /\ ret' = Ok(left)
        /\ UNCHANGED value
  /\ UNCHANGED walk

(* Slip: the item is masked like a link, not checked like an id.           *)
SetValueUnchecked(item, v) ==
  /\ ~walk.on
  /\ value' = [value EXCEPT ![At(item)] = v]
  /\ ret' = Ok(0)
  /\ UNCHANGED <<prev, next, container, cursor, len, walk>>

SetValue(item, v) ==
  /\ ~walk.on
  /\ \/ item \notin Items /\ Refuse("InvalidArgument")
     \/ /\ item \in Items
        /\ value' = [value EXCEPT ![item] = v]
        /\ ret' = Ok(0)
        /\ UNCHANGED <<prev, next, container, cursor, len>>
  /\ UNCHANGED walk

(* Slips: the marker has its turn; the turn is not stored.                 *)
NextRoundRobinOnMarker(list) ==
  /\ ~walk.on
  /\ list \in ListSet /\ len[list] # 0
  /\ LET nxt == next[At(cursor[list])]
     IN cursor' = [cursor EXCEPT ![list] = nxt] /\ ret' = Ok(nxt)
  /\ UNCHANGED <<nodes, len, walk>>

NextRoundRobinForgets(list) ==
  /\ ~walk.on
  /\ list \in ListSet /\ len[list] # 0
  /\ LET first == next[At(cursor[list])]
     IN ret' = Ok(IF first = EndOf(list) THEN next[At(first)] ELSE first)
  /\ UNCHANGED <<nodes, meta, walk>>

NextRoundRobin(list) ==
  /\ ~walk.on
  /\ \/ list \notin ListSet /\ Refuse("InvalidArgument")
     \/ list \in ListSet /\ len[list] = 0 /\ ret' = Nothing /\ UNCHANGED <<nodes, meta>>
     \/ /\ list \in ListSet /\ len[list] # 0
        /\ LET first == next[At(cursor[list])]
               nxt == IF first = EndOf(list) THEN next[At(first)] ELSE first
           IN cursor' = [cursor EXCEPT ![list] = nxt] /\ ret' = Ok(nxt)
        /\ UNCHANGED <<nodes, len>>
  /\ UNCHANGED walk

Next ==
  \/ \E list \in ListIds, item \in ItemIds, v \in Values :
       Insert(list, item, v) \/ InsertSorted(list, item, v)
  \/ \E list \in ListIds, item \in ItemIds :
       InsertKeepingValue(list, item) \/ InsertEnd(list, item) \/ MoveToEnd(list, item)
  \/ \E item \in ItemIds : Remove(item)
  \/ \E item \in ItemIds, v \in Values : SetValue(item, v)
  \/ \E list \in ListIds : NextRoundRobin(list)
  \/ WalkOn
  \/ WalkStop

Spec == Init /\ [][Next]_vars

(* A call that has begun runs to its answer: the loop is sequential code.  *)
FairSpec == Spec /\ WF_vars(WalkOn \/ WalkStop)

-----------------------------------------------------------------------------
(* Properties.                                                             *)

Members(list) == {i \in Items : container[i] = list}
Ring(list) == Members(list) \cup {EndOf(list)}

(* The two links of every slot of R are inverse and stay in R.             *)
Doubly(nx, pv, R) ==
  \A s \in R : /\ nx[s] \in R /\ pv[nx[s]] = s
               /\ pv[s] \in R /\ nx[pv[s]] = s

(* Following nx from any slot of R reaches all of R: no part closes early. *)
OneCycle(nx, R) ==
  \A S \in SUBSET R : S # {} /\ (\A s \in S : nx[s] \in S) => S = R

Searches == [on : BOOLEAN, list : ListSet, item : U16, value : 0 .. MaxValue,
             write : BOOLEAN, before : Slots, after : Slots, guard : 0 .. N]
Replies == [status : {"Ok", "None", "InvalidArgument", "Busy", "NotActive"},
            answer : U16]

(* Types of the nodes, the cursors, the counts and the search: every link  *)
(* that can be followed is a slot, so masking it never changes it.         *)
TypeOK ==
  /\ value \in [Slots -> 0 .. MaxValue]
  /\ prev \in [Slots -> Slots \cup {NONE}]
  /\ next \in [Slots -> Slots \cup {NONE}]
  /\ container \in [Slots -> ListSet \cup {NO_LIST}]
  /\ cursor \in [ListSet -> Slots]
  /\ len \in [ListSet -> 0 .. CAPACITY]
  /\ walk \in Searches
  /\ ret \in Replies

(* The marker and the members of a list are one ring, read the same way    *)
(* forwards and backwards, whatever calls were made, refused ones included. *)
OneRing ==
  \A l \in ListSet : Doubly(next, prev, Ring(l)) /\ OneCycle(next, Ring(l))

(* The count of a list is the number of items it holds, and its cursor     *)
(* never rests on an item that has left (list.rs:1103: "The count alone    *)
(* ends the walk").                                                        *)
CountAndCursor ==
  \A l \in ListSet : len[l] = Cardinality(Members(l)) /\ cursor[l] \in Ring(l)

(* A marker keeps V::MAX and belongs to no list: what ends every search.   *)
MarkersIntact ==
  \A s \in Slots \ Items : value[s] = MaxValue /\ container[s] = NO_LIST

RingInv == OneRing /\ CountAndCursor /\ MarkersIntact

(* A search stands between two neighbours, has passed `guard` members that *)
(* are not above its value and meets none twice: the debug guard of        *)
(* insert_inner never fires.                                               *)
SearchInv ==
  walk.on =>
    /\ walk.value # MaxValue
    /\ walk.write \/ (walk.item \in Items /\ value[walk.item] = walk.value)
    /\ walk.before \in Ring(walk.list)
    /\ walk.after = next[walk.before]
    /\ walk.before \notin Items \/ value[walk.before] <= walk.value
    /\ \E passed \in SUBSET Members(walk.list) :
         /\ Cardinality(passed) = walk.guard
         /\ walk.before \in passed \cup {EndOf(walk.list)}
         /\ walk.after \notin passed
         /\ \A s \in passed : prev[s] \in passed \cup {EndOf(walk.list)}

(* The ways to see that a list is empty agree: its count, its head, the    *)
(* link of its marker (list.rs:143), and what its items say of where they  *)
(* are. Nobody is ever in a list that is not one, NO_LIST among them: that *)
(* is_empty_of calls it empty hides nothing (list.rs:886-887).             *)
EmptyAgrees ==
  /\ \A l \in ListSet :
       LET there == {i \in Items : ContainerOf(i) = Ok(l)}
       IN /\ LenOf(l) = Ok(Cardinality(there))
          /\ IsEmpty(l) = Ok(IF there = {} THEN 1 ELSE 0)
          /\ there = {} <=> next[EndOf(l)] = EndOf(l)
          /\ there = {} <=> Head(l) = Nothing
  /\ \A l \in ListIds : IsEmptyOf(l) <=> \A i \in Items : ContainerOf(i) # Ok(l)

(* An iterator that stops by the count meets every member once and then    *)
(* stands at the marker, following `next` item by item agrees with it, by  *)
(* the call that answers the value in the same lookup too, and is_sorted,  *)
(* which stops by the marker, gives the right answer and never gives up.   *)
WalksAgree ==
  \A l \in ListSet :
    LET at == Walked(l)
        met == Iterated(l)
        sorted == \A s \in Members(l) : ~IsEnd(next[s]) => value[s] <= value[next[s]]
    IN /\ {met[k] : k \in DOMAIN met} = Members(l)
       /\ \A j, k \in DOMAIN met : met[j] = met[k] => j = k
       /\ at[len[l] + 1] = EndOf(l)
       /\ \A k \in DOMAIN met :
            LET following == IF k = len[l] THEN Nothing ELSE Ok(met[k + 1])
            IN /\ NextOf(met[k]) = following
               /\ NextAndValue(met[k]) =
                    [next |-> following, value |-> ItemValue(met[k]).answer]
       /\ IsSorted(l) = Ok(IF sorted THEN 1 ELSE 0)

(* In a list in order every member is at most the next one.                *)
InOrder(l) == \A s \in Members(l) : value[s] <= value[next[s]]

(* In a list in order, the head has the least value and the tail the       *)
(* greatest, which is what a tick that looks only at the head relies on.   *)
HeadIsLeast ==
  \A l \in ListSet : InOrder(l) =>
    \A s \in Members(l) : HeadValue(l) <= value[s] /\ value[s] <= TailValue(l)

(* Only the operations that do not look at values can break the order of a *)
(* list: insert_end, move_to_end and set_value.                            *)
OnlyEndOpsUnsort ==
  [][\A l \in ListSet : InOrder(l) /\ ~InOrder(l)' =>
       \/ \E i \in ItemIds : InsertEnd(l, i) \/ MoveToEnd(l, i)
       \/ \E i \in ItemIds, v \in Values : SetValue(i, v)]_vars

(* An ordered insert, by search, by tail or in front of the marker, puts   *)
(* the item behind a member that is not above it and in front of one that  *)
(* is: in a list in order, ties keep the order of arrival.                 *)
StableInsert ==
  [][\A l \in ListSet : \A i \in Members(l)' \ Members(l) : ~InsertEnd(l, i) =>
       /\ IsEnd(prev'[i]) \/ value[prev'[i]] <= value'[i]
       /\ IsEnd(next'[i]) \/ value[next'[i]] > value'[i]]_vars

(* The round robin of a list that is not empty gives the turn to a member, *)
(* never to a marker (the debug_assert at list.rs:1031), to another member *)
(* than the one at the cursor when there are two, and cursor_of then says  *)
(* whose turn it was.                                                      *)
TurnGoesToMember ==
  [][\A l \in ListIds : NextRoundRobin(l) /\ l \in ListSet /\ len[l] # 0 =>
       /\ ret'.answer \in Members(l)
       /\ len[l] > 1 => CursorOf(l)' # CursorOf(l)
       /\ CursorOf(l)' = ret']_vars

(* Every search ends: the call that began it answers.                      *)
SearchEnds == walk.on ~> ~walk.on
=============================================================================
