---------------------------- MODULE StaleHandle ----------------------------
(***************************************************************************)
(* A caller that keeps a copy of a handle while everybody uses the arena:  *)
(* the object under it may be removed by another holder of the handle, and *)
(* its slot occupied again by somebody else, any number of times.          *)
(***************************************************************************)
EXTENDS MCArena

VARIABLES
  kept,    \* the handle kept, or NoHandle
  gone,    \* whether its object has been removed
  reuses   \* how often its slot was occupied again; counted up to GenMax

clientVars == <<vars, kept, gone, reuses>>

NoHandle == NULL

ClientInit == Init /\ kept = NoHandle /\ gone = FALSE /\ reuses = 0

(* An object is placed, and its handle kept if the caller has none yet.    *)
Place(v) ==
  /\ TryInsert(v)
  /\ \/ /\ kept = NoHandle /\ ret'.status = "Issued"
        /\ kept' = ret'.handle
        /\ UNCHANGED <<gone, reuses>>
     \/ /\ kept' = kept
        /\ reuses' = IF /\ kept # NoHandle /\ ret'.status = "Issued"
                        /\ ret'.handle.index = kept.index /\ reuses < GenMax
                     THEN reuses + 1 ELSE reuses
        /\ UNCHANGED gone

(* An object is removed, the kept one perhaps, by whoever has its handle.  *)
Free(h) ==
  /\ Remove(h) \/ Discard(h)
  /\ gone' = (gone \/ (kept # NoHandle /\ h = kept /\ ret'.status # "None"))
  /\ UNCHANGED <<kept, reuses>>

Change(h, v) == Write(h, v) /\ UNCHANGED <<kept, gone, reuses>>

(* The callers present any handle at all: one they were given, or made up. *)
ClientNext ==
  \/ \E v \in Payloads : Place(v)
  \/ \E h \in Handles : Free(h)
  \/ \E h \in Handles, v \in Payloads : Change(h, v)

ClientSpec == ClientInit /\ [][ClientNext]_clientVars

-----------------------------------------------------------------------------
Stale == gone /\ kept # NoHandle

(* A kept handle names its object until that is removed, and then nothing, *)
(* whatever becomes of its slot, until the slot has been occupied GenMax   *)
(* more times (65,535, arena.rs:51).                                       *)
StaleStaysDead ==
  kept # NoHandle =>
    /\ ~gone => Matches(kept) /\ reuses = 0
    /\ gone /\ reuses < GenMax => Resolve(kept).status = "Gone"

(* A stale handle removes and changes nothing, of the slot's next occupant *)
(* or of any other object, until its generation comes round again.         *)
StaleTouchesNothing ==
  [][\A v \in Payloads :
       Stale /\ reuses < GenMax /\ (Free(kept) \/ Change(kept, v)) =>
         UNCHANGED <<slots, len>>]_clientVars

(* "so no copy of this handle resolves again" (arena.rs:283-284).          *)
NoCopyResolvesAgain == Stale => ~Matches(kept)
=============================================================================
