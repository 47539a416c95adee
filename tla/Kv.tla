---------------------------------- MODULE Kv ----------------------------------
(***************************************************************************)
(* What abc.index promises on its keyed lane: a map from keys to the value *)
(* put last, and a saved copy, the sealed runs.  A death of the process    *)
(* may lose what was not saved; nothing else does, not even a close.  A    *)
(* value is the number of its put.                                         *)
(***************************************************************************)
EXTENDS Naturals

CONSTANT Keys

VARIABLES
    view,   \* key -> what get answers, None if undefined
    saved,  \* key -> what is in the sealed runs
    puts,   \* puts so far
    drops,  \* calls of drop so far
    deaths  \* deaths of the process so far

vars == <<view, saved, puts, drops, deaths>>

None == 0

Init ==
    /\ view = [k \in Keys |-> None] /\ saved = view
    /\ puts = 0 /\ drops = 0 /\ deaths = 0

\* put may find its page full, and seal a run on the way.
Put(k) ==
    /\ puts' = puts + 1
    /\ view' = [view EXCEPT ![k] = puts + 1]
    /\ saved' \in {saved, view'}
    /\ UNCHANGED <<drops, deaths>>

\* commit seals everything put so far.
Commit == saved' = view /\ UNCHANGED <<view, puts, drops, deaths>>

\* The process dies; within a put or a commit, before or after the run is in
\* place.  Each key falls back to some value it had since it was saved.
Lose ==
    /\ deaths' = deaths + 1
    /\ saved' \in {saved, view}
    /\ view' \in [Keys -> 0 .. puts]
    /\ \A k \in Keys : saved'[k] <= view'[k] /\ view'[k] <= view[k]
    /\ UNCHANGED <<puts, drops>>

\* The runs, or one of them, are dropped: older values come to light, and what
\* the memtable holds stays.
Drop ==
    /\ drops' = drops + 1
    /\ saved' \in [Keys -> 0 .. puts]
    /\ view' \in [Keys -> 0 .. puts]
    /\ \A k \in Keys : saved'[k] <= saved[k] /\ view'[k] \in {view[k], saved'[k]}
    /\ UNCHANGED <<puts, deaths>>

Next == (\E k \in Keys : Put(k)) \/ Commit \/ Lose \/ Drop

Spec == Init /\ [][Next]_vars
=============================================================================
