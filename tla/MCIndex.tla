------------------------------- MODULE MCIndex -------------------------------
(***************************************************************************)
(* Bounds of the model checker for Index: behaviours with a cursor in use  *)
(* stop short of those without.                                            *)
(***************************************************************************)
EXTENDS Index

InUse == {c \in Cursors : cur[c] # <<>>}

\* While a cursor is in use nobody has died yet, and there are three puts; two
\* when both are.
CursorBound == InUse # {} => deaths = 0 /\ puts + Cardinality(InUse) <= 4
=============================================================================
