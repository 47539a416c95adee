------------------------------- MODULE MCLogs -------------------------------
(***************************************************************************)
(* Rows of two lengths for the model checker.                              *)
(***************************************************************************)
EXTENDS Logs

CONSTANTS a, b

MCSize(c) == IF c = a THEN 2 ELSE 3
=============================================================================
