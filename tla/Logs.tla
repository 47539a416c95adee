-------------------------------- MODULE Logs --------------------------------
(***************************************************************************)
(* The append-only logs: the ULOG and HUNK containers of cont.cpp over the *)
(* row leaves of ulog.hpp and hunk.hpp, and the booked log of ulog.hpp.    *)
(* A behaviour is about one log of one of these kinds.                     *)
(*                                                                         *)
(* A container is a view object (its clock _lastTs and its cursor _read,   *)
(* _rec) over a buffer whose write head, the watermark, is shared by all   *)
(* views of the buffer.  Bytes are cells: the k-th cell of a row, so that  *)
(* an offset may fall inside a row or on the remains of an overwritten     *)
(* one.  The last cell of a row is its newline.  Rows differ in length.    *)
(*                                                                         *)
(* The row codecs and ULOGOpen, ULOGAppendAt and ULOGClose are external:   *)
(* draining what is not a whole row fails and does not move, an append     *)
(* needs a later time than the last row's and writes the row, then its     *)
(* entry in the sidecar index; opening a booked log gives back everything  *)
(* up to the last newline, and rebuilds the index unless the sentinel of   *)
(* the last close vouches for it.                                          *)
(***************************************************************************)
EXTENDS Integers, Sequences, FiniteSets, FiniteSetsExt

CONSTANTS
    Views,     \* view objects
    Contents,  \* contents of a row: verb and uri, or a hunk
    Size(_),   \* content -> cells of its row
    Bulky,     \* contents whose uri text is longer than the scan's pad
    Cap,       \* cells of the buffer
    MaxTs,     \* bound: latest time a caller of feed asks for
    MaxBuilds  \* bound: views built over the buffer, or opens of the booked log

\* The empty uri prefix.
AnyUri == "any"

ASSUME ConstantsAssumption ==
    /\ Cap \in Nat /\ MaxTs \in Nat \ {0} /\ MaxBuilds \in Nat
    /\ \A c \in Contents : Size(c) \in Nat \ {0}
    /\ AnyUri \notin Contents

VARIABLES
    family,    \* the kind of log: "ULOG", "HUNK" or "BOOK"
    bytes,     \* the cells written, from offset 0
    watermark, \* the write head
    view,      \* the view objects
    builds,    \* views built, or opens, so far
    opened,    \* booked: the process holds the handle
    idx,       \* booked: the sidecar, an offset for each row
    flushed,   \* booked: the sidecar's sentinel, the end of the rows it is for
    log,       \* history: the rows fed since the last build, or ever appended
    stale,     \* history: views whose buffer was built over again
    got        \* history: the row each view's cursor was last put on

book == <<opened, idx, flushed>>
vars == <<family, bytes, watermark, view, builds, book, log, stale, got>>
JS == family \in {"ULOG", "HUNK"}

NoTs == 0
Offs == 0 .. Cap
Times == 1 .. MaxTs + 1
NoSentinel == -1
NoView == [last |-> NoTs, read |-> -1, rec |-> -1]
NoRow == [ts |-> NoTs, what |-> "none"]
Rows == [ts : {NoTs} \cup Times, what : Contents]
Cells == [row : Rows, k : Nat \ {0}]

TypeOK ==
    /\ family \in {"ULOG", "HUNK", "BOOK"}
    /\ bytes \in Seq(Cells) /\ Len(bytes) <= Cap
    /\ watermark \in 0 .. Len(bytes)
    /\ view \in [Views -> [last : {NoTs} \cup Times, read : -1 .. Cap, rec : -1 .. Cap]]
    /\ builds \in 0 .. MaxBuilds
    /\ opened \in BOOLEAN /\ (opened => family = "BOOK")
    /\ idx \in Seq(Offs) /\ flushed \in {NoSentinel} \cup Offs
    /\ log \in Seq([row : Rows, at : Offs, by : Views \cup {"book"}])
    /\ stale \subseteq Views
    /\ got \in [Views -> Rows \cup {NoRow}]

Init ==
    /\ family \in {"ULOG", "HUNK", "BOOK"}
    /\ bytes = <<>> /\ watermark = 0
    /\ view = [v \in Views |-> NoView]
    /\ builds = 0 /\ opened = FALSE /\ idx = <<>> /\ flushed = NoSentinel
    /\ log = <<>> /\ stale = {} /\ got = [v \in Views |-> NoRow]

-----------------------------------------------------------------------------
(* The row leaves: bytes and an offset in, an offset out.                  *)

RowCells(r) == [k \in 1 .. Size(r.what) |-> [row |-> r, k |-> k]]
Newline(c) == c.k = Size(c.row.what)

\* A row is drained at offset o of the first dl cells when all of it is there.
Drains(o, dl) ==
    /\ o < dl
    /\ bytes[o + 1].k = 1
    /\ LET cells == RowCells(bytes[o + 1].row) IN
         /\ o + Len(cells) <= dl
         /\ SubSeq(bytes, o + 1, o + Len(cells)) = cells
RowAt(o) == bytes[o + 1].row

\* _ulog_next, _hunk_next: the end of the row at o, or -1.
EndOf(o, dl) == IF Drains(o, dl) THEN o + Size(RowAt(o).what) ELSE -1

\* The bytes with the cells written at offset o.
Written(o, cells) ==
    [i \in 1 .. Max({o + Len(cells), Len(bytes)}) |->
        IF i \in o + 1 .. o + Len(cells) THEN cells[i - o] ELSE bytes[i]]

\* Mutant: the byte before the row is not looked at.
PrevRow_Off1(off) ==
    LET nl == {i \in 1 .. off - 2 : Newline(bytes[i])} IN
    IF nl = {} THEN 0 ELSE Max(nl) - 1

\* JABCulogPrevRow: back from the newline before off to the newline before it.
PrevRow(off) ==
    LET nl == {i \in 1 .. off - 1 : Newline(bytes[i])} IN
    IF nl = {} THEN 0 ELSE Max(nl)

\* What may be looked for: a time, a verb, a uri prefix that may be empty.
Args(kind) ==
    CASE kind = "time" -> 1 .. MaxTs
      [] kind = "verb" -> Contents
      [] kind = "uri" -> Contents \cup {AnyUri}
Kinds == {"time", "verb", "uri"}

\* What JABCulogScan looks for: a time at or after the one asked for (backwards:
\* at or before), a verb, or a uri prefix; a uri longer than the pad reads as
\* empty there.
Hits(r, rev, kind, arg) ==
    CASE kind = "time" -> IF rev THEN r.ts <= arg ELSE r.ts >= arg
      [] kind = "verb" -> r.what = arg
      [] kind = "uri"  -> arg = AnyUri \/ (r.what = arg /\ r.what \notin Bulky)

\* JABCulogScan: row by row, forward to dl or backward to 0.
Scan(off, dl, rev, kind, arg) ==
    LET fwd[cur \in 0 .. dl] ==
            IF ~Drains(cur, dl) THEN -1
            ELSE IF Hits(RowAt(cur), rev, kind, arg) THEN cur
            ELSE fwd[EndOf(cur, dl)]
        bwd[cur \in 0 .. dl] ==
            IF cur = 0 THEN -1
            ELSE LET rs == PrevRow(cur) IN
                 IF Drains(rs, dl) /\ Hits(RowAt(rs), rev, kind, arg) THEN rs
                 ELSE bwd[rs]
    IN  IF rev THEN bwd[off] ELSE fwd[off]

-----------------------------------------------------------------------------
(* The container.                                                          *)

\* abc.ram, abc.mmap, abc.over: build a view over the buffer.  Building over
\* a view object again keeps its other properties.
build(v) ==
    /\ JS /\ builds < MaxBuilds
    /\ builds' = builds + 1
    /\ view' = [view EXCEPT ![v].read = 0, ![v].rec = -1]
    /\ watermark' = 0
    /\ log' = <<>>
    /\ stale' = (stale \cup {u \in Views : view[u].read >= 0}) \ {v}
    /\ got' = [got EXCEPT ![v] = NoRow]
    /\ UNCHANGED <<family, bytes, book>>

\* A row goes in at the write head.
Fed(r, by) ==
    /\ bytes' = Written(watermark, RowCells(r))
    /\ watermark' = watermark + Size(r.what)
    /\ log' = Append(log, [row |-> r, at |-> watermark, by |-> by])

\* The bounds check of the feeds.
Fits(c) == watermark + Size(c) <= Cap

\* Mutant: a time equal to the last one is let through.
Stamp_Equal(v, t) ==
    IF view[v].last # NoTs /\ t < view[v].last THEN view[v].last + 1 ELSE t

\* The time feed() uses: later than the last one this view used.
Stamp(v, t) ==
    IF view[v].last # NoTs /\ t <= view[v].last THEN view[v].last + 1 ELSE t

\* ULOG feed(verb, uri, ts): the clock moves first, then the native feed may
\* throw (a malformed uri, a full buffer).
feed(v, c, t) ==
    /\ family = "ULOG" /\ view[v].read >= 0
    /\ LET ts == Stamp(v, t) IN
         /\ ts <= MaxTs + 1
         /\ view' = [view EXCEPT ![v].last = ts]
         /\ \/ Fits(c) /\ Fed([ts |-> ts, what |-> c], v)
            \/ UNCHANGED <<bytes, watermark, log>>
    /\ UNCHANGED <<family, builds, book, stale, got>>

\* HUNK feed() and dogenize(): all or nothing.
feedHunk(v, c) ==
    /\ family = "HUNK" /\ view[v].read >= 0 /\ Fits(c)
    /\ Fed([ts |-> NoTs, what |-> c], v)
    /\ UNCHANGED <<family, view, builds, book, stale, got>>

rewind(v) ==
    /\ JS /\ view[v].read >= 0
    /\ view' = [view EXCEPT ![v].read = 0, ![v].rec = -1]
    /\ stale' = stale \ {v}
    /\ got' = [got EXCEPT ![v] = NoRow]
    /\ UNCHANGED <<family, bytes, watermark, builds, book, log>>

\* Mutant: the cursor stays on the record the walk came from.
Onto_Old(v, off) == [view EXCEPT ![v].rec = @, ![v].read = EndOf(off, watermark)]

\* The cursor put on the row at off.
Onto(v, off) == [view EXCEPT ![v].rec = off, ![v].read = EndOf(off, watermark)]

\* next(): FALSE, without a change, when there is no row at _read.
next(v) ==
    /\ JS /\ view[v].read >= 0
    /\ EndOf(view[v].read, watermark) >= 0
    /\ view' = Onto(v, view[v].read)
    /\ got' = [got EXCEPT ![v] = RowAt(view[v].read)]
    /\ UNCHANGED <<family, bytes, watermark, builds, book, log, stale>>

\* seek(off), and seekVerb, seekTime, seekURI and their Rev forms on a hit.
\* A miss leaves the cursor where it was.
seek(v, off) ==
    /\ family = "ULOG" /\ view[v].read >= 0
    /\ EndOf(off, watermark) >= 0
    /\ view' = Onto(v, off)
    /\ got' = [got EXCEPT ![v] = RowAt(off)]
    /\ stale' = stale \ {v}
    /\ UNCHANGED <<family, bytes, watermark, builds, book, log>>

\* The offsets a program has: 0, end, after, offset, and one less than an
\* offset, to step back.
KnownOffs(v) ==
    {0, watermark, view[v].read, view[v].rec, view[v].rec - 1} \cap (0 .. watermark)

seekBy(v, rev) ==
    \E off \in KnownOffs(v), kind \in Kinds :
       \E arg \in Args(kind) :
          LET o == Scan(off, watermark, rev, kind, arg) IN o >= 0 /\ seek(v, o)

-----------------------------------------------------------------------------
(* The booked log.                                                         *)

\* ULOGOpen: the rows end at the last newline of the file, the rest is room.
Recovered ==
    LET nl == {i \in 1 .. Len(bytes) : Newline(bytes[i])} IN
    IF nl = {} THEN 0 ELSE Max(nl)

\* The offsets of the rows in the first dl cells, from the first on.
Starts(dl) ==
    LET from[o \in Offs] ==
            IF Drains(o, dl) THEN <<o>> \o from[EndOf(o, dl)] ELSE <<>>
    IN  from[0]

\* _ulog_open(path): the sidecar is used if its sentinel is the end of the
\* rows, and rebuilt otherwise.
openBook ==
    /\ family = "BOOK" /\ ~opened /\ builds < MaxBuilds
    /\ opened' = TRUE /\ builds' = builds + 1
    /\ watermark' = Recovered
    /\ idx' = IF flushed = Recovered THEN idx ELSE Starts(Recovered)
    /\ UNCHANGED <<family, bytes, view, flushed, log, stale, got>>

\* The time of the last row of the file.
LastTs == IF watermark = 0 THEN NoTs ELSE bytes[watermark].row.ts

\* Mutant: ULOGAppendAt's answer that the log is full is dropped.
append_Unchecked(c, t) ==
    /\ family = "BOOK" /\ opened /\ t > LastTs
    /\ IF Fits(c)
       THEN Fed([ts |-> t, what |-> c], "book") /\ idx' = Append(idx, watermark)
       ELSE /\ Len(log) < Cap
            /\ log' = Append(log, [row |-> [ts |-> t, what |-> c], at |-> watermark,
                                   by |-> "book"])
            /\ UNCHANGED <<bytes, watermark, idx>>
    /\ UNCHANGED <<family, view, builds, opened, flushed, stale, got>>

\* _ulog_append(handle, ts, verb, uri): refused, with no change, for a
\* malformed uri, a time that is not later, or no room.
append(c, t) ==
    /\ family = "BOOK" /\ opened
    /\ t > LastTs /\ Fits(c)
    /\ Fed([ts |-> t, what |-> c], "book")
    /\ idx' = Append(idx, watermark)
    /\ UNCHANGED <<family, view, builds, opened, flushed, stale, got>>

\* _ulog_count, _ulog_rowUri, _ulog_rowTime: the rows a reader of the handle
\* finds, through the sidecar.
BookRows ==
    [i \in 1 .. Len(idx) |-> IF Drains(idx[i], watermark) THEN RowAt(idx[i]) ELSE NoRow]

\* _ulog_close(handle): the file is trimmed to its rows, the sentinel flushed.
closeBook ==
    /\ family = "BOOK" /\ opened
    /\ opened' = FALSE
    /\ bytes' = SubSeq(bytes, 1, watermark)
    /\ flushed' = watermark
    /\ UNCHANGED <<family, watermark, view, builds, idx, log, stale, got>>

\* The process dies and the files keep what was written: at rest; within an
\* append, with a part of the row, or with all of it and its entry or none; or
\* within a close, before the sentinel.
die ==
    /\ family = "BOOK" /\ opened
    /\ opened' = FALSE
    /\ \/ UNCHANGED <<bytes, watermark, idx, log>>
       \/ \E c \in Contents, t \in 1 .. MaxTs + 1 :
             /\ t > LastTs /\ Fits(c)
             /\ \/ \E n \in 1 .. Size(c) - 1 :
                      /\ bytes' = Written(watermark,
                                          SubSeq(RowCells([ts |-> t, what |-> c]), 1, n))
                      /\ UNCHANGED <<watermark, idx, log>>
                \/ /\ Fed([ts |-> t, what |-> c], "book")
                   /\ idx' \in {idx, Append(idx, watermark)}
       \/ bytes' = SubSeq(bytes, 1, watermark) /\ UNCHANGED <<watermark, idx, log>>
    /\ UNCHANGED <<family, view, builds, flushed, stale, got>>

\* The sidecar file goes: nothing but open needs it to be there.
loseSidecar ==
    /\ family = "BOOK" /\ ~opened
    /\ idx # <<>> \/ flushed # NoSentinel
    /\ idx' = <<>> /\ flushed' = NoSentinel
    /\ UNCHANGED <<family, bytes, watermark, view, builds, opened, log, stale, got>>

\* The operations of a HUNK container; its getters read the row at _rec.
HunkNext(v) ==
    family = "HUNK" /\ (rewind(v) \/ next(v) \/ \E c \in Contents : feedHunk(v, c))

\* The operations of a ULOG container.
UlogNext(v) ==
    /\ family = "ULOG"
    /\ \/ rewind(v) \/ next(v)
       \/ \E off \in KnownOffs(v) : seek(v, off)
       \/ \E rev \in BOOLEAN : seekBy(v, rev)
       \/ \E c \in Contents, t \in 1 .. MaxTs : feed(v, c, t)

Next ==
    \/ \E v \in Views : build(v) \/ HunkNext(v) \/ UlogNext(v)
    \/ openBook \/ closeBook \/ die \/ loseSidecar
    \/ \E c \in Contents, t \in 1 .. MaxTs + 1 : append(c, t)

Spec == Init /\ [][Next]_vars

-----------------------------------------------------------------------------
(* Properties.                                                             *)

\* The times one view feeds strictly increase, whatever times its caller asks
\* for and whichever feeds fail in between, and those of a booked log do over
\* all its openings: what P.feed's clock and ULOGCLOCK are for.
Ascending ==
    \A i, j \in 1 .. Len(log) :
        i < j /\ log[i].by = log[j].by /\ family # "HUNK"
            => log[i].row.ts < log[j].row.ts

\* The rows the caller of a search asks for.
Asked(r, rev, kind, arg) ==
    IF kind = "time" THEN (IF rev THEN r.ts <= arg ELSE r.ts >= arg)
    ELSE arg \in {r.what, AnyUri}

\* A search from off answers the nearest row of the log that is asked for.
Finds(off, rev, kind, arg) ==
    LET at == {log[i].at : i \in {j \in 1 .. Len(log) :
                  /\ Asked(log[j].row, rev, kind, arg)
                  /\ IF rev THEN log[j].at < off ELSE log[j].at >= off}} IN
    Scan(off, watermark, rev, kind, arg) =
        IF at = {} THEN -1 ELSE IF rev THEN Max(at) ELSE Min(at)

RowStarts == {log[i].at : i \in 1 .. Len(log)}
SeekFrom(rev) == IF rev THEN 0 .. watermark ELSE RowStarts \cup {watermark}

\* A search returns the nearest row that matches: forward from a row boundary
\* the first at or after it, backward from any offset the last that starts
\* before it, and -1 exactly when there is none (JABCulogScan); but for the uris
\* longer than the scan's pad, which a search by uri takes no row for.
SeekExact ==
    family = "ULOG" =>
    \A kind \in Kinds, rev \in BOOLEAN : \A off \in SeekFrom(rev), arg \in Args(kind) :
        (kind = "uri" => arg \notin Bulky) => Finds(off, rev, kind, arg)

\* Until the buffer is built over again, a view's cursor stands on the row
\* that next() or a seek delivered, whatever was fed since and through which
\* view, and next() goes on with the row right after it.
CursorOnRow ==
    \A v \in Views : JS /\ view[v].read >= 0 /\ v \notin stale =>
        IF view[v].rec < 0 THEN view[v].read = 0
        ELSE \E i \in 1 .. Len(log) :
                /\ log[i].at = view[v].rec /\ log[i].row = got[v]
                /\ Drains(view[v].rec, Len(bytes)) /\ RowAt(view[v].rec) = got[v]
                /\ view[v].read = IF i < Len(log) THEN log[i + 1].at ELSE watermark

\* Every row whose append was answered is read back from the booked log, in
\* order and through its sidecar, after any number of deaths and openings,
\* whatever they left of the sidecar; and nothing else is, but a row that a
\* death in the append left whole.
AckedSurvive ==
    opened => BookRows = [i \in 1 .. Len(log) |-> log[i].row]
=============================================================================
