--------------------------- MODULE MCQueryHandles ---------------------------
(***************************************************************************)
(* Two statements for TLC: one whose rows fill a page and a half, and one    *)
(* whose rows fill a page exactly.                                          *)
(***************************************************************************)
EXTENDS QueryHandles

RowsIn == [three |-> 3, two |-> 2]
MCRows == [q \in Queries |-> RowsIn[q]]
=============================================================================
