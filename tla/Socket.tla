-------------------------------- MODULE Socket --------------------------------
(***************************************************************************)
(* One TCP Socket of net.cpp (the JS class: _poll, _readEnd, _flush,       *)
(* _mask, _doClose, write, end, destroy) registered with the pol loop,     *)
(* between a user program that may act in every event it is sent, and a    *)
(* kernel that delivers bytes, a FIN or a reset between any two steps.     *)
(*                                                                         *)
(* Bytes are counted, not named: the write FIFO, the kernel's send buffer  *)
(* and its receive queue are all in order.  A handler is cut at every      *)
(* system call and at every emit, the places where the kernel or the user  *)
(* code can change what the next line sees.                                *)
(***************************************************************************)
EXTENDS Integers

CONSTANTS
    SndBuf,   \* bytes the kernel's send buffer takes before EAGAIN
    MaxOut,   \* bound: bytes the program writes
    MaxIn,    \* bound: bytes the peer sends
    Resets,   \* TRUE if the peer may reset the connection
    May       \* <<context, call>> pairs: what the program does, and where

Contexts == {"idle", "error", "drain", "data", "end"}
Calls == {"write", "end", "destroy", "throw"}

ASSUME ConstantsAssumption ==
    /\ SndBuf \in Nat /\ SndBuf > 0
    /\ MaxOut \in Nat
    /\ MaxIn \in Nat
    /\ Resets \in BOOLEAN
    /\ May \subseteq Contexts \X Calls

VARIABLES
    wb,         \* _wb.size: bytes accepted by write and not yet sent
    readEnded,  \* _readEnded: the peer's FIN was seen
    ending,     \* _ending: end() was called
    wrShut,     \* _wrShut: our FIN was sent
    closed,     \* _closed: the fd was closed
    mask,       \* the interest POL tracks for the fd
    tracked,    \* POL has the fd
    pc,         \* "idle", a point inside _poll, or "dead": the loop is stopped
    rev,        \* the revents of the _poll under way
    rx,         \* kernel: bytes received and not yet read
    rxFin,      \* kernel: the peer's FIN arrived
    tx,         \* kernel: bytes in the send buffer
    txFin,      \* kernel: shutdown(SHUT_WR) was called
    rst,        \* kernel: the connection was reset
    written,    \* history: bytes accepted by write
    got,        \* history: bytes the peer sent
    destroyed   \* history: destroy() was called

sock == <<wb, readEnded, ending, wrShut, closed>>
reg == <<mask, tracked>>
kernel == <<rx, rxFin, tx, txFin, rst, got>>
vars == <<sock, reg, kernel, pc, rev, written, destroyed>>

polIN == "IN"
polOUT == "OUT"

TypeOK ==
    /\ wb \in 0 .. MaxOut
    /\ readEnded \in BOOLEAN /\ ending \in BOOLEAN /\ wrShut \in BOOLEAN
    /\ closed \in BOOLEAN /\ tracked \in BOOLEAN
    /\ mask \subseteq {polIN, polOUT}
    /\ pc \in {"idle", "error", "flush", "drain", "in", "data", "end",
               "mask", "dead"}
    /\ rev \subseteq {polIN, polOUT, "ERR", "HUP", "NVAL"}
    /\ rx \in 0 .. MaxIn /\ got \in 0 .. MaxIn
    /\ tx \in 0 .. SndBuf
    /\ rxFin \in BOOLEAN /\ txFin \in BOOLEAN /\ rst \in BOOLEAN
    /\ written \in 0 .. MaxOut
    /\ destroyed \in BOOLEAN

\* A fresh Socket just after _register: pol.watch(fd, pol.IN, ...).
Init ==
    /\ wb = 0 /\ written = 0
    /\ readEnded = FALSE /\ ending = FALSE /\ wrShut = FALSE
    /\ closed = FALSE /\ destroyed = FALSE
    /\ mask = {polIN} /\ tracked = TRUE
    /\ pc = "idle" /\ rev = {}
    /\ rx = 0 /\ got = 0 /\ tx = 0
    /\ rxFin = FALSE /\ txFin = FALSE /\ rst = FALSE

-----------------------------------------------------------------------------
(* The calls of the program, from other code ("idle") or inside an event.  *)

Calling(call) == pc \in Contexts /\ <<pc, call>> \in May

\* pol.more(fd, pol.OUT)
MoreOut == mask' = IF tracked THEN mask \cup {polOUT} ELSE mask

\* A throw inside _poll: the trampoline stops the loop and drops the fd.
LoopBreaks ==
    /\ pc' = "dead"
    /\ rev' = {}
    /\ tracked' = FALSE
    /\ mask' = {}

\* write(data): refused once closed or ending.
write ==
    /\ Calling("write")
    /\ written < MaxOut
    /\ ~closed /\ ~ending
    /\ wb' = wb + 1
    /\ written' = written + 1
    /\ MoreOut
    /\ UNCHANGED <<readEnded, ending, wrShut, closed, tracked, kernel, pc, rev,
                   destroyed>>

\* end(): finish writing; ask for a tick to do it in.
end ==
    /\ Calling("end")
    /\ ending' = TRUE
    /\ IF closed THEN UNCHANGED mask ELSE MoreOut
    /\ UNCHANGED <<wb, readEnded, wrShut, closed, tracked, kernel, pc, rev,
                   written, destroyed>>

\* destroy(): close now.  pol is not told.
destroy ==
    /\ Calling("destroy")
    /\ ending' = TRUE
    /\ closed' = TRUE
    /\ destroyed' = TRUE
    /\ UNCHANGED <<wb, readEnded, wrShut, reg, kernel, pc, rev, written>>

\* The event handler throws (code outside the handlers is not ours to break).
throw ==
    /\ Calling("throw")
    /\ pc # "idle"
    /\ LoopBreaks
    /\ UNCHANGED <<sock, kernel, written, destroyed>>

-----------------------------------------------------------------------------
(* _poll                                                                   *)

\* poll(2): the requested bits that are ready, and what is never asked for.
Ready ==
    IF closed THEN {"NVAL"}
    ELSE {b \in mask : \/ b = polIN /\ (rx > 0 \/ rxFin \/ rst)
                       \/ b = polOUT /\ (tx < SndBuf \/ rst)}
         \cup {b \in {"ERR"} : rst}
         \cup {b \in {"HUP"} : rst \/ (rxFin /\ txFin)}

\* A system may also report a FIN behind no data as a bare hang-up.
BareHup ==
    IF ~closed /\ ~rst /\ rxFin /\ rx = 0
    THEN {(Ready \ {polIN}) \cup {"HUP"}} ELSE {}

\* Or a readiness with nothing behind it (poll(2): "spurious readiness").
Spurious ==
    IF ~closed /\ ~rst /\ ~rxFin /\ rx = 0 /\ polIN \in mask
    THEN {Ready \cup {polIN}} ELSE {}

\* POL calls the handler: _poll(revents) up to its first emit or system call.
poll ==
    /\ pc = "idle"
    /\ tracked
    /\ \E r \in {Ready} \cup BareHup \cup Spurious :
         /\ r # {}
         /\ rev' = r
         /\ pc' = IF r \cap {"ERR", "NVAL"} # {} THEN "error"
                  ELSE IF polOUT \in r THEN "flush" ELSE "in"
    /\ UNCHANGED <<sock, reg, kernel, written, destroyed>>

\* After the 'error' event: _doClose(), return 0.
afterError ==
    /\ pc = "error"
    /\ closed' = TRUE
    /\ tracked' = FALSE /\ mask' = {}
    /\ pc' = "idle" /\ rev' = {}
    /\ UNCHANGED <<wb, readEnded, ending, wrShut, kernel, written, destroyed>>

\* What a short write leaves in the FIFO.
Unsent(n) == wb - n

\* net._send in the loop of _flush: a part goes out, the buffer is full, or
\* the call fails with an errno that becomes an exception.
send ==
    /\ pc = "flush" /\ wb > 0
    /\ \/ /\ ~closed /\ ~rst /\ ~txFin
          /\ \E n \in 1 .. wb :
               /\ tx + n <= SndBuf
               /\ wb' = Unsent(n)
               /\ tx' = tx + n
          /\ UNCHANGED <<reg, pc, rev>>
       \/ /\ ~closed /\ ~rst /\ ~txFin
          /\ tx = SndBuf
          /\ pc' = "in"
          /\ UNCHANGED <<wb, tx, reg, rev>>
       \/ /\ closed \/ rst \/ txFin
          /\ LoopBreaks
          /\ UNCHANGED <<wb, tx>>
    /\ UNCHANGED <<readEnded, ending, wrShut, closed, rx, rxFin, txFin, rst,
                   got, written, destroyed>>

\* The FIFO is empty: emit 'drain'.
flushed ==
    /\ pc = "flush" /\ wb = 0
    /\ pc' = "drain"
    /\ UNCHANGED <<sock, reg, kernel, rev, written, destroyed>>

FinDue == ending /\ ~wrShut

\* After 'drain': send the FIN that end() asked for.
afterDrain ==
    /\ pc = "drain"
    /\ wrShut' = (wrShut \/ FinDue)
    /\ txFin' = (txFin \/ (FinDue /\ ~closed))
    /\ pc' = "in"
    /\ UNCHANGED <<wb, readEnded, ending, closed, reg, rx, rxFin, tx, rst, got,
                   rev, written, destroyed>>

HupEnds == "HUP" \in rev /\ polIN \notin rev

\* _readEnd() up to its 'end' event; nothing the second time.
readEnd ==
    /\ readEnded' = TRUE
    /\ pc' = IF readEnded THEN "mask" ELSE "end"
    /\ UNCHANGED <<rx, reg, rev>>

\* The IN and HUP arms: net._recv gives bytes, EOF, -1 or an exception.
recv ==
    /\ pc = "in"
    /\ \/ /\ polIN \in rev /\ ~closed /\ ~rst /\ rx > 0
          /\ \E n \in 1 .. rx : rx' = rx - n
          /\ pc' = "data"
          /\ UNCHANGED <<readEnded, reg, rev>>
       \/ /\ polIN \in rev /\ ~closed /\ ~rst /\ rx = 0 /\ rxFin
          /\ readEnd
       \/ /\ polIN \in rev /\ ~closed /\ ~rst /\ rx = 0 /\ ~rxFin
          /\ pc' = "mask"
          /\ UNCHANGED <<readEnded, rx, reg, rev>>
       \/ /\ polIN \in rev /\ (closed \/ rst)
          /\ LoopBreaks
          /\ UNCHANGED <<readEnded, rx>>
       \/ /\ HupEnds
          /\ readEnd
       \/ /\ polIN \notin rev /\ ~HupEnds
          /\ pc' = "mask"
          /\ UNCHANGED <<readEnded, rx, reg, rev>>
    /\ UNCHANGED <<wb, ending, wrShut, closed, rxFin, tx, txFin, rst, got,
                   written, destroyed>>

afterData ==
    /\ pc = "data"
    /\ pc' = "mask"
    /\ UNCHANGED <<sock, reg, kernel, rev, written, destroyed>>

\* After 'end': this.end(), so that our side finishes too.
afterEnd ==
    /\ pc = "end"
    /\ ending' = TRUE
    /\ IF closed THEN UNCHANGED mask ELSE MoreOut
    /\ pc' = "mask"
    /\ UNCHANGED <<wb, readEnded, wrShut, closed, tracked, kernel, rev,
                   written, destroyed>>

\* Mutant: only unsent data asks for OUT, not a pending FIN.
Wanted_NoFin ==
    (IF readEnded THEN {} ELSE {polIN}) \cup (IF wb > 0 THEN {polOUT} ELSE {})

\* Mutant: reading resumes only once the FIFO is empty.
Wanted_OneWay ==
    IF wb > 0 \/ FinDue THEN {polOUT} ELSE {polIN}

\* Mutant: writing waits for the end of the input.
Wanted_InFirst == IF readEnded THEN {polOUT} ELSE {polIN}

\* The interest _mask computes for a socket that stays open.
Wanted ==
    LET m == (IF readEnded THEN {} ELSE {polIN})
             \cup (IF wb > 0 \/ FinDue THEN {polOUT} ELSE {})
    IN IF m = {} THEN {polIN} ELSE m

\* Mutant: a half-closed socket is closed.
BothDone_Half == readEnded \/ wrShut

BothDone == readEnded /\ wrShut

\* return this._mask(): close when both sides are done.
returnMask ==
    /\ pc = "mask"
    /\ closed' = (closed \/ BothDone)
    /\ tracked' = ~closed'
    /\ mask' = IF closed' THEN {} ELSE Wanted
    /\ pc' = "idle" /\ rev' = {}
    /\ UNCHANGED <<wb, readEnded, ending, wrShut, kernel, written, destroyed>>

-----------------------------------------------------------------------------
(* The kernel and the peer (external).                                     *)

PeerReads ==
    /\ tx > 0
    /\ tx' = tx - 1
    /\ UNCHANGED <<sock, reg, rx, rxFin, txFin, rst, got, pc, rev, written,
                   destroyed>>

PeerSends ==
    /\ got < MaxIn /\ ~rxFin /\ ~rst
    /\ rx' = rx + 1
    /\ got' = got + 1
    /\ UNCHANGED <<sock, reg, rxFin, tx, txFin, rst, pc, rev, written,
                   destroyed>>

PeerFin ==
    /\ ~rxFin /\ ~rst
    /\ rxFin' = TRUE
    /\ UNCHANGED <<sock, reg, rx, tx, txFin, rst, got, pc, rev, written,
                   destroyed>>

PeerReset ==
    /\ Resets /\ ~rst
    /\ rst' = TRUE
    /\ UNCHANGED <<sock, reg, rx, rxFin, tx, txFin, got, pc, rev, written,
                   destroyed>>

-----------------------------------------------------------------------------

User == write \/ end \/ destroy \/ throw

Handler == \/ poll \/ afterError \/ send \/ flushed \/ afterDrain \/ recv
           \/ afterData \/ afterEnd \/ returnMask

Net == PeerReads \/ PeerSends \/ PeerFin \/ PeerReset

Next == User \/ Handler \/ Net

\* The loop keeps polling and handlers return; the peer keeps reading.
\* Neither the program nor the peer has to write, end, or reset anything.
Fairness == WF_vars(Handler) /\ WF_vars(PeerReads)

Spec == Init /\ [][Next]_vars /\ Fairness

-----------------------------------------------------------------------------
(* Properties.                                                             *)

\* Between two handler calls an open socket is polled for all it still has to
\* do: reading until the peer's FIN, writing while bytes or our own FIN are
\* pending.  A bit missing here is a wake-up that never comes.
NoLostWakeup ==
    pc = "idle" /\ ~closed =>
        /\ tracked
        /\ ~readEnded => polIN \in mask
        /\ wb > 0 \/ FinDue => polOUT \in mask

\* The FIN goes out after everything write() accepted: end() flushes, then
\* half-closes.
FinAfterData == txFin => wb = 0

\* A socket nobody destroyed and no reset hit closes only when both
\* directions are complete: all input was read up to the peer's FIN, all
\* output was sent, and our FIN after it.
GracefulClose ==
    closed /\ ~destroyed /\ ~rst =>
        rxFin /\ readEnded /\ rx = 0 /\ wb = 0 /\ txFin

\* 'end' is emitted after all the input, unless the connection was reset.
DataBeforeEnd == pc = "end" /\ ~rst => rxFin /\ rx = 0

\* Once the peer has sent its FIN the fd eventually closes.
FinCloses == rxFin ~> (closed \/ pc = "dead")

\* Accepted bytes are eventually sent, or the connection is gone.
Drains == wb > 0 ~> (wb = 0 \/ closed \/ pc = "dead")

\* What a program must leave undone for the order of data and FIN to hold.
NoEndInDrain == <<"drain", "end">> \notin May

\* Seen without its buffers and its handlers, the socket is a Stream.
Promise == INSTANCE Stream WITH
             acc <- written, out <- written - wb, ended <- ending,
             fin <- txFin, eof <- readEnded, open <- ~closed,
             torn <- destroyed \/ rst

ImplementsStream == Promise!Spec
=============================================================================
