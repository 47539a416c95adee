------------------------------- MODULE MCSocket -------------------------------
(* Instances of Socket: what the program does, and in which events.        *)
EXTENDS Socket

\* Everything anywhere, but not end() in 'drain'.
MayWild == (Contexts \X Calls) \ {<<"drain", "end">>}
=============================================================================
