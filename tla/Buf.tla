-------------------------------- MODULE Buf --------------------------------
(***************************************************************************)
(* The Buf of buf.cpp: an array of bytes and two cursors that cut it into  *)
(* PAST, DATA and IDLE; its methods, the reads and writes of a file        *)
(* descriptor that move the cursors, and the one native call that takes a  *)
(* whole Buf, the ingest of a pack stream (pack.hpp).                      *)
(*                                                                         *)
(* Bytes are numbered in the order in which they enter.                    *)
(*                                                                         *)
(* An ingest works on cursors of its own and calls a progress handler in   *)
(* between, which sees the Buf with the cursors it had when the ingest     *)
(* began, and may call all of its methods.  What the Buf holds after an    *)
(* ingest whose handler did is nobody's promise: the history starts anew.  *)
(* A handler that begins another ingest on the Buf is left out.            *)
(***************************************************************************)
EXTENDS Integers, Sequences

CONSTANTS
    Cap,       \* bytes of a new Buf
    MaxCap,    \* bound: capacity a Buf grows to
    MaxBytes   \* bound: bytes that ever enter the Buf

VARIABLES
    bytes,     \* the array
    data,      \* _data: where DATA begins
    idle,      \* _idle: where IDLE begins
    entered,   \* bytes that entered so far
    content,   \* history: the live payload, as the calls made it
    taken,     \* history: the bytes of the last view take() handed out, and
               \* where the view is
    run,       \* the ingest that is on, if any
    meddled    \* history: its handler has worked on the Buf

bufVars == <<bytes, data, idle, entered, content, taken, run, meddled>>

NoView == [from |-> 0, val |-> <<>>]
NoRun == [on |-> FALSE, own |-> FALSE, past |-> 0, busy |-> 0, cap |-> 0]
Byte == 0 .. MaxBytes

BufTypeOK ==
    /\ bytes \in Seq(Byte) /\ Len(bytes) <= MaxCap
    /\ data \in 0 .. idle /\ idle \in 0 .. Len(bytes)
    /\ entered \in Byte
    /\ content \in Seq(Byte)
    /\ taken \in [from : 0 .. MaxCap, val : Seq(Byte)]
    /\ run \in [on : BOOLEAN, own : BOOLEAN, past : 0 .. run.busy, busy : 0 .. run.cap,
                cap : 0 .. Len(bytes)]
    /\ meddled \in BOOLEAN

\* Buf.into: all IDLE.  Buf.over: all DATA.
BufInit ==
    /\ bytes = [i \in 1 .. Cap |-> 0]
    /\ data = 0 /\ idle \in {0, Cap}
    /\ entered = 0
    /\ content = [i \in 1 .. idle |-> 0]
    /\ taken = NoView
    /\ run = NoRun /\ meddled = FALSE

Data == SubSeq(bytes, data + 1, idle)
Size == idle - data
Room == Len(bytes) - idle

\* The next n bytes to enter.
Fresh(n) == [i \in 1 .. n |-> entered + i]

\* bytes.set(s, off).
SetAt(b, s, off) ==
    [i \in 1 .. Len(b) |-> IF i - off \in 1 .. Len(s) THEN s[i - off] ELSE b[i]]

\* bytes.copyWithin(to, start, end).
CopyWithin(b, to, start, end) == SetAt(b, SubSeq(b, start + 1, end), to)

\* The histories of a call, which end when a handler makes it.
Told(c) == IF run.on THEN <<>> ELSE c
Shown(v) == IF run.on THEN NoView ELSE v

-----------------------------------------------------------------------------
(* Bytes in and out at the ends.                                           *)

\* n bytes are put into IDLE, and committed.
Filled(n) ==
    /\ bytes' = SetAt(bytes, Fresh(n), idle)
    /\ idle' = idle + n
    /\ entered' = entered + n
    /\ content' = Told(content \o Fresh(n))
    /\ taken' = Shown(taken)
    /\ UNCHANGED data

\* feed, feed1, feedStr, and a write into idle() with fed(n): NOROOM or BADARG
\* when it does not fit, but for feedStr, which stops where IDLE ends.
feed(n) == n \in 1 .. Room /\ entered + n <= MaxBytes /\ Filled(n)

\* io.read: what the fd has, at most IDLE; io.readAll and io.readv repeat it.
read == \E n \in 1 .. Room : entered + n <= MaxBytes /\ Filled(n)

\* take, skip: the front of DATA becomes PAST; take hands out a view of it.
take(n) ==
    /\ n \in 0 .. Size
    /\ data' = data + n
    /\ taken' = Shown([from |-> data, val |-> SubSeq(content, 1, n)])
    /\ content' = Told(SubSeq(content, n + 1, Len(content)))
    /\ UNCHANGED <<bytes, idle, entered>>

\* io.write: the fd takes some of DATA; io.writeAll and io.writev repeat it.
write ==
    \E n \in 1 .. Size :
        /\ data' = data + n
        /\ content' = Told(SubSeq(content, n + 1, Len(content)))
        /\ taken' = Shown(taken)
        /\ UNCHANGED <<bytes, idle, entered>>

\* shed, pop: the end of DATA becomes IDLE.
shed(n) ==
    /\ n \in 0 .. Size
    /\ idle' = idle - n
    /\ content' = Told(SubSeq(content, 1, Len(content) - n))
    /\ taken' = Shown(taken)
    /\ UNCHANGED <<bytes, data, entered>>

reset ==
    /\ data' = 0 /\ idle' = 0
    /\ content' = <<>> /\ taken' = NoView
    /\ UNCHANGED <<bytes, entered>>

-----------------------------------------------------------------------------
(* Moving bytes.                                                           *)

\* shift(): PAST is dropped, and what a view of it shows with it.
shift ==
    /\ data > 0
    /\ bytes' = CopyWithin(bytes, 0, data, idle)
    /\ data' = 0 /\ idle' = idle - data
    /\ content' = Told(content) /\ taken' = NoView
    /\ UNCHANGED entered

\* splice(off, cut, paste): paste is n bytes of another Buf, or this Buf, whose
\* bytes are looked at when the tail has moved already.
splice(off, cut, n, self) ==
    /\ off + cut <= Size
    /\ n - cut <= Room /\ (self \/ entered + n <= MaxBytes)
    /\ LET at == data + off
           moved == CopyWithin(bytes, at + n, at + cut, idle)
           p == IF self THEN SubSeq(moved, data + 1, idle) ELSE Fresh(n) IN
         bytes' = SetAt(moved, p, at)
    /\ idle' = idle + n - cut
    /\ entered' = IF self THEN entered ELSE entered + n
    /\ content' = Told(SubSeq(content, 1, off) \o (IF self THEN content ELSE Fresh(n))
                         \o SubSeq(content, off + cut + 1, Len(content)))
    /\ taken' = Shown(taken)
    /\ UNCHANGED data

\* grow(n): a new array with PAST and DATA; views stay with the old one.
grow(n) ==
    /\ n > Len(bytes) /\ n <= MaxCap
    /\ bytes' = [i \in 1 .. n |-> IF i <= idle THEN bytes[i] ELSE 0]
    /\ content' = Told(content) /\ taken' = NoView
    /\ UNCHANGED <<data, idle, entered>>

-----------------------------------------------------------------------------
(* The ingest.                                                             *)

\* JABCBufOf: the cursors are within the array and in order.
BufOf == data <= idle /\ idle <= Len(bytes)

\* Mutant: a run that failed does not tell the Buf.
BufBack_Ok(ok, d, i) == IF ok THEN data' = d /\ idle' = i ELSE UNCHANGED <<data, idle>>

\* JABCBufBack: the cursors after the run, on every exit.
BufBack(ok, d, i) == data' = d /\ idle' = i

\* git.pack(fd, buf, shard, opts) takes the array and the cursors.
repackBegin ==
    /\ ~run.on /\ BufOf
    /\ run' = [on |-> TRUE, own |-> TRUE, past |-> data, busy |-> idle, cap |-> Len(bytes)]
    /\ UNCHANGED <<bytes, data, idle, entered, content, taken, meddled>>

\* REPACKRun, up to the next call of onStep: it drops PAST where it needs the
\* room, reads n bytes from the fd and eats m of what it has; in the array that
\* it began with, which is the Buf's no more when a handler grew it.
repackStep ==
    /\ run.on
    /\ \E drop \in {0, run.past} :
       \E n \in 0 .. run.cap - run.busy + drop : \E m \in 0 .. run.busy - run.past + n :
         /\ n + m > 0 /\ entered + n <= MaxBytes
         /\ run' = [run EXCEPT !.past = @ - drop + m, !.busy = @ - drop + n]
         /\ bytes' = IF ~run.own THEN bytes
                     ELSE SetAt(IF drop = 0 THEN bytes
                                ELSE CopyWithin(bytes, 0, run.past, run.busy),
                                Fresh(n), run.busy - drop)
         /\ content' = IF meddled THEN <<>>
                       ELSE SubSeq(content \o Fresh(n), m + 1, Len(content) + n)
         /\ taken' = IF drop = 0 THEN taken ELSE NoView
         /\ entered' = entered + n
    /\ UNCHANGED <<data, idle, meddled>>

\* It ends well, with an error, or because the handler threw.
repackEnd(ok) ==
    /\ run.on
    /\ BufBack(ok, run.past, run.busy)
    /\ run' = NoRun /\ meddled' = FALSE
    /\ content' = IF meddled THEN SubSeq(bytes, run.past + 1, run.busy) ELSE content
    /\ UNCHANGED <<bytes, entered, taken>>

\* The calls that stay within the array.
Calls ==
    \/ \E n \in 1 .. 2 : feed(n) \/ take(n) \/ shed(n)
    \/ read \/ write \/ reset \/ shift
    \/ \E off \in 0 .. Size, cut \in 0 .. Size :
          \/ \E n \in 0 .. 2 : splice(off, cut, n, FALSE)
          \/ splice(off, cut, Size, TRUE)

\* The program, or the handler of an ingest that is on, works on the Buf.
BufNext ==
    \/ Calls /\ meddled' = run.on /\ UNCHANGED run
    \/ \E n \in Cap .. MaxCap :
          grow(n) /\ meddled' = run.on /\ run' = [run EXCEPT !.own = FALSE]
    \/ repackBegin \/ repackStep
    \/ \E ok \in BOOLEAN : repackEnd(ok)

-----------------------------------------------------------------------------
(* Properties.                                                             *)

\* DATA is the payload that the calls made: no byte is lost, doubled or put out
\* of order by compaction, growth, an edit in the middle (of the Buf's own
\* bytes, too), a short read or write, or an ingest that failed on the way; in
\* the middle of an ingest it is what the ingest has, until a handler works on
\* the Buf.
DataExact ==
    ~meddled => content = IF run.on THEN SubSeq(bytes, run.past + 1, run.busy) ELSE Data

\* The bytes a view of take() shows stay as they are while the Buf is fed, read
\* into, written from, edited or grown; until shift(), reset() or an ingest
\* reuses PAST.
TakenIntact == SubSeq(bytes, taken.from + 1, taken.from + Len(taken.val)) = taken.val

\* The bytes a Buf hands out are the bytes it was given, in DATA and in views.
BufExact == DataExact /\ TakenIntact
=============================================================================
