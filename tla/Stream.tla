-------------------------------- MODULE Stream --------------------------------
(***************************************************************************)
(* What a connected Socket promises the program that writes to it, with    *)
(* buffers, masks and handlers left out: bytes accepted are sent in order, *)
(* nothing is accepted after end(), the FIN follows the last byte, and an  *)
(* undisturbed connection closes only when both directions are finished.   *)
(***************************************************************************)
EXTENDS Integers

VARIABLES
    acc,    \* bytes accepted from the program
    out,    \* bytes handed to the network
    ended,  \* the program (or the peer's FIN) ended the write side
    fin,    \* our FIN was sent
    eof,    \* the peer's FIN was read
    open,   \* the fd is open
    torn    \* destroyed by the program, or reset

vars == <<acc, out, ended, fin, eof, open, torn>>

Init ==
    /\ acc = 0 /\ out = 0
    /\ ended = FALSE /\ fin = FALSE /\ eof = FALSE
    /\ open = TRUE /\ torn = FALSE

Accept ==
    /\ open /\ ~ended
    /\ acc' = acc + 1
    /\ UNCHANGED <<out, ended, fin, eof, open, torn>>

Transmit ==
    /\ open /\ ~fin
    /\ out' \in out + 1 .. acc
    /\ UNCHANGED <<acc, ended, fin, eof, open, torn>>

End ==
    /\ ended' = TRUE
    /\ UNCHANGED <<acc, out, fin, eof, open, torn>>

Finish ==
    /\ open
    /\ ended /\ out = acc
    /\ fin' = TRUE
    /\ UNCHANGED <<acc, out, ended, eof, open, torn>>

PeerEnds ==
    /\ eof' = TRUE
    /\ UNCHANGED <<acc, out, ended, fin, open, torn>>

Close ==
    /\ torn \/ (fin /\ eof)
    /\ open' = FALSE
    /\ UNCHANGED <<acc, out, ended, fin, eof, torn>>

Reset ==
    /\ torn' = TRUE
    /\ UNCHANGED <<acc, out, ended, fin, eof, open>>

Destroy ==
    /\ torn' = TRUE /\ ended' = TRUE /\ open' = FALSE
    /\ UNCHANGED <<acc, out, fin, eof>>

Next == Accept \/ Transmit \/ End \/ Finish \/ PeerEnds \/ Close \/ Reset
        \/ Destroy

Spec == Init /\ [][Next]_vars
=============================================================================
