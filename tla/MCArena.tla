------------------------------ MODULE MCArena ------------------------------
(* Arena on a few slots, and the table of objects it implements.           *)
EXTENDS Arena

Table == INSTANCE ObjectTable WITH
           objects <- [h \in LiveHandles |-> value[h.index]]

(* The generations and the marks of the slots give each caller a table of  *)
(* its own objects, call for call and answer for answer.                   *)
ImplementsTable == Table!Spec
=============================================================================
