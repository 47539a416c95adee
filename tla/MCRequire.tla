------------------------------ MODULE MCRequire ------------------------------
(***************************************************************************)
(* Bounds of the model checker for Require: the loader runs in the first   *)
(* process, while there is no other; the races of the extraction are run   *)
(* with the loader at rest.                                                *)
(***************************************************************************)
EXTENDS Require

AtRest == memo = [k \in Keys |-> "none"] /\ cache = {} /\ ~throws /\ edits = 0
OnePid == CHOOSE i \in Pids : TRUE

LoaderBound ==
    /\ starts > 1 => AtRest /\ own = {}
    /\ ~AtRest => proc[Main].pid = OnePid /\ tmp = [i \in Pids |-> NoDir]
=============================================================================
