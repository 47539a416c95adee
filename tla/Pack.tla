-------------------------------- MODULE Pack --------------------------------
(***************************************************************************)
(* The pack log of cont.cpp (PACK_PROTO, git.pack) over the leaves of      *)
(* pack.hpp: objects appended raw or as a delta against an earlier one,    *)
(* their index entries, the scratch that grows until a delta chain fits,   *)
(* the header's object count and the cursor.  The bytes themselves go      *)
(* through a Buf, and a stream of them is ingested there (module Buf): a   *)
(* behaviour is about a pack log or about a Buf.                           *)
(*                                                                         *)
(* An offset counts records: the record at 1 is the first after the        *)
(* header, the write head is the offset of the next one.  At 0 are the     *)
(* header's bytes; a feed to a view whose write head was never set puts a  *)
(* record there, and a header written later tears it.  No record is of the *)
(* header's 12 bytes exactly: one that is read from there on is read       *)
(* whole, or not at all.  An object is named by its size, so that two      *)
(* objects are equal when their sizes are.  The codec (dog/git) is         *)
(* external: a delta applies to the base it was made from and to no other, *)
(* and resolving a record needs scratch for the largest object of its      *)
(* chain.                                                                  *)
(***************************************************************************)
EXTENDS Integers, Sequences, FiniteSets, FiniteSetsExt

CONSTANTS
    Objects,   \* objects, named by their sizes
    DeltaSizes, \* sizes of deltas
    MaxRecs,   \* records the buffer holds
    MaxOut,    \* entries the index Buf holds
    MaxInt,    \* the largest number of the | 0 of JS (2^31 - 1 in the code)
    SCRATCH_MIN, \* the least scratch (2^16 in the code)
    MaxTries,  \* tries of _grow (40 in the code)
    MaxWalks,  \* bound: rewrites of the pack (header) and reopenings
    Families,  \* what programs work on: a pack log ("log"), a Buf ("buf")
    Cap, MaxCap, MaxBytes \* of the Buf

ASSUME ConstantsAssumption ==
    /\ Objects \subseteq Nat \ {0} /\ DeltaSizes \subseteq Nat
    /\ MaxRecs \in Nat /\ MaxOut \in Nat /\ MaxInt \in Nat
    /\ SCRATCH_MIN \in 1 .. MaxInt /\ MaxWalks \in Nat
    /\ Cap \in Nat /\ MaxCap \in Nat /\ MaxBytes \in Nat /\ Cap <= MaxCap
    /\ MaxTries \in Nat \ {0} /\ Families \subseteq {"log", "buf"}

\* The least scratch, doubled at every try.
Doubled[t \in 0 .. MaxTries] == IF t = 0 THEN SCRATCH_MIN ELSE 2 * Doubled[t - 1]

\* The tries are enough to get beyond the largest number (2^16 doubled 39 times).
ASSUME TriesAssumption == 2 * Doubled[MaxTries - 1] > MaxInt

VARIABLES
    mem,       \* the records in the bytes, by offset
    hdr,       \* the object count of the header, or NoHdr
    watermark, \* the write head
    end,       \* where the bytes end: what a program sets a write head to
    count,     \* _count | 0
    read, rec, \* the cursor
    scratch,   \* length of the base scratch, 0 before the first use
    out,       \* the entries in the index Buf
    walks,     \* headers and reopenings so far
    grown,     \* history: header() began what the view holds
    wanted,    \* history: the offsets whose entries the Buf must hold
    family,    \* what the program works on
    bytes, data, idle, entered, content, taken, run, meddled \* of the Buf

B == INSTANCE Buf

pack == <<mem, hdr, watermark, end, count>>
cursor == <<read, rec>>
apart == <<family, bytes, data, idle, entered, content, taken, run, meddled>>
vars == <<mem, hdr, watermark, end, count, read, rec, scratch, out, walks, grown,
          wanted, family, bytes, data, idle, entered, content, taken, run, meddled>>

NoHdr == -1
NoBase == -1
Offsets == 0 .. MaxRecs
None == [kind |-> "none", base |-> NoBase, from |-> 0, object |-> 0, size |-> 0]
Recs == [kind : {"raw", "ofs", "ref", "torn"}, base : {NoBase} \cup Offsets,
         from : Objects \cup {0}, object : Objects, size : Nat]
Entries == [key : Objects, off : Offsets]
Raw(o) == [kind |-> "raw", base |-> NoBase, from |-> 0, object |-> o, size |-> o]

\* The offsets of the records below w.
LiveIn(m, w) == {o \in 0 .. w - 1 : m[o] # None}
Live == LiveIn(mem, watermark)
Held == LiveIn(mem, end)

TypeOK ==
    /\ mem \in [Offsets -> Recs \cup {None}]
    /\ \A o \in 1 .. watermark - 1 : o \in Live
    /\ hdr \in NoHdr .. MaxRecs + 1
    /\ end \in 0 .. MaxRecs + 1 /\ watermark \in {0, end}
    /\ count \in 0 .. MaxRecs + 1
    /\ read \in 0 .. MaxRecs + 1 /\ rec \in {-1} \cup Offsets
    /\ scratch \in 0 .. MaxInt
    /\ out \in Seq(Entries) /\ Len(out) <= MaxOut
    /\ walks \in 0 .. MaxWalks
    /\ family \in Families /\ B!BufTypeOK
    /\ grown \in BOOLEAN /\ wanted \subseteq Offsets

\* packBuild over fresh bytes, or over a pack that came with a reference delta;
\* or no pack log at all.
Init ==
    /\ \/ mem = [i \in Offsets |-> None] /\ hdr = NoHdr /\ end = 0
       \/ \E o \in Objects, p \in Objects, d \in DeltaSizes :
             /\ mem = [i \in Offsets |->
                         IF i = 1 THEN Raw(o)
                         ELSE IF i = 2 THEN [Raw(p) EXCEPT !.kind = "ref", !.size = d]
                         ELSE None]
             /\ hdr = 2 /\ end = 3 /\ 2 <= MaxRecs /\ family = "log"
    /\ watermark = 0 /\ count = 0 /\ read = 0 /\ rec = -1 /\ scratch = 0
    /\ out = <<>> /\ walks = 0
    /\ family \in Families
    /\ B!BufInit /\ (family = "log" => idle = 0)
    /\ grown = FALSE /\ wanted = {}

-----------------------------------------------------------------------------
(* The scratch.                                                            *)

\* x | 0: the low bits of x, with the sign of the top one.
Int32(x) == LET m == x % (2 * (MaxInt + 1)) IN
            IF m > MaxInt THEN m - 2 * (MaxInt + 1) ELSE m

\* _scratch(need): it only ever grows.
Scratch(s, need) == Max({Int32(need), SCRATCH_MIN, s})

\* Mutant: the scratch is sized once, off the record's own size.
Tried_Once(s, need) == {Scratch(s, need)}

\* The scratches that _grow(need, op) tries op with: every NOROOM doubles it.
Tried(s, need) ==
    LET at[t \in 0 .. MaxTries] ==
            IF t = 0 THEN Scratch(s, need) ELSE Scratch(at[t - 1], 2 * at[t - 1])
    IN  {at[t] : t \in 0 .. MaxTries - 1}

\* Those in which op runs, which takes as much.
Fits(s, need, takes) == {n \in Tried(s, need) : n >= takes}

\* The scratch after _grow: the first that fits, or, when none did and it
\* throws, one that doubled once more.
Grow(s, need, takes) ==
    IF Fits(s, need, takes) # {} THEN Min(Fits(s, need, takes))
    ELSE Scratch(Max(Tried(s, need)), 2 * Max(Tried(s, need)))

-----------------------------------------------------------------------------
(* Delta chains (PACKResolveOfs).                                          *)

\* The offsets a record's resolution reads.
ChainOf(m, off) ==
    LET chain[o \in Offsets] ==
            {o} \cup IF m[o].kind = "ofs" /\ m[o].base < o THEN chain[m[o].base] ELSE {}
    IN  chain[off]
Takes(m, off) == Max({m[o].object : o \in ChainOf(m, off)})

\* A chain that the resolver refuses: at a reference delta, or where a header was
\* written over the record.
Broken(m, off) == \E o \in ChainOf(m, off) : m[o].kind \in {"ref", "torn"}

Garbage == 0

\* The object at off: deltas applied from the raw record up.
Resolved(m, off) ==
    LET object[o \in Offsets] ==
            IF m[o].kind = "raw" THEN m[o].object
            ELSE IF /\ m[o].kind = "ofs" /\ m[o].base < o
                    /\ object[m[o].base] = m[o].from
                 THEN m[o].object
            ELSE Garbage
    IN  object[off]

\* A record that is whole at off.
Whole(off) == off \in Live /\ mem[off].kind # "torn"

-----------------------------------------------------------------------------
(* Writing.                                                                *)

\* The header is written over what is at 0.
Headed(m) == IF m[0] = None THEN m ELSE [m EXCEPT ![0].kind = "torn"]

\* header(), by a program that then starts with an empty index Buf.
header ==
    /\ walks < MaxWalks /\ walks' = walks + 1
    /\ mem' = [mem EXCEPT ![0] = None]
    /\ hdr' = 0 /\ watermark' = 1 /\ end' = 1 /\ count' = 0
    /\ read' = 0 /\ rec' = -1
    /\ grown' = TRUE /\ wanted' = {}
    /\ out' = <<>>
    /\ UNCHANGED <<scratch, apart>>

\* A record of the object as a delta against the one at base, of an object from.
OfDelta(object, base, from, d) ==
    [kind |-> "ofs", base |-> base, from |-> from, object |-> object, size |-> d]

\* Mutant: the delta is said to be against the record before it.
Record_PrevRec(off, object, prev, base) ==
    {Raw(object)} \cup
    IF prev = NoBase THEN {}
    ELSE {OfDelta(object, off - 1, base, d) : d \in {n \in DeltaSizes : n < object}}

\* _pack_feed: the writer chooses raw, or a delta that is smaller, against the
\* base it is given both as bytes and as an offset.
Record(off, object, prev, base) ==
    {Raw(object)} \cup
    IF prev = NoBase THEN {}
    ELSE {OfDelta(object, prev, base, d) : d \in {n \in DeltaSizes : n < object}}

\* Mutant: the entry has the write head after the append.
Entry_After(off, object) == [key |-> object, off |-> off + 1]

\* _pack_feed_emit: the entry of the object just fed.
Entry(off, object) == [key |-> object, off |-> off]

\* feed(type, content, prevOff, out): resolve the base, size the scratch, write,
\* count, then emit the entry.  The first two may throw, the write may find no
\* room, and the emit may throw when the record is in already.  At 0 it begins
\* the bytes anew, and so does the program with its index Buf.
feed(object, prev, emit) ==
    /\ prev # NoBase => Whole(prev)
    /\ LET off == watermark
           full == off > MaxRecs
           old == IF off = 0 THEN <<>> ELSE out
           due == IF off = 0 THEN {} ELSE wanted
           s1 == IF prev = NoBase THEN scratch
                 ELSE Grow(scratch, mem[prev].size, Takes(mem, prev))
           refused == prev # NoBase /\ (Broken(mem, prev)
                                         \/ Fits(scratch, mem[prev].size, Takes(mem, prev)) = {})
           base == IF prev = NoBase THEN 0 ELSE Resolved(mem, prev) IN
       \/ /\ refused /\ scratch' = s1
          /\ UNCHANGED <<pack, cursor, out, wanted>>
       \/ /\ ~refused /\ full /\ scratch' = Scratch(s1, object)
          /\ UNCHANGED <<pack, cursor, out, wanted>>
       \/ /\ ~refused /\ ~full /\ scratch' = Scratch(s1, object)
          /\ \E r \in Record(off, object, prev, base) : mem' = [mem EXCEPT ![off] = r]
          /\ hdr' = IF off = 0 THEN NoHdr ELSE hdr
          /\ watermark' = off + 1 /\ end' = off + 1
          /\ count' = count + 1
          /\ IF emit /\ Len(old) < MaxOut
             THEN out' = Append(old, Entry(off, object)) /\ wanted' = due \cup {off}
             ELSE out' = old /\ wanted' = due
          /\ UNCHANGED cursor
    /\ UNCHANGED <<walks, apart, grown>>

\* finish(): the header with the number of objects fed through this view.
finish ==
    /\ hdr' = count /\ mem' = Headed(mem)
    /\ end' = IF end = 0 THEN 1 ELSE end
    /\ UNCHANGED <<watermark, count, cursor, scratch, out, walks, apart, grown, wanted>>

\* git.pack.over and git.pack.mmap (packBuild) over what there is: the write head
\* is at 0.
build ==
    /\ walks < MaxWalks /\ walks' = walks + 1
    /\ watermark' = 0 /\ count' = 0 /\ read' = 0 /\ rec' = -1 /\ scratch' = 0
    /\ grown' = FALSE
    /\ UNCHANGED <<mem, hdr, end, out, apart, wanted>>

\* The program sets the write head of a view it built to the end of the bytes.
setHead ==
    /\ watermark = 0 /\ watermark' = end
    /\ UNCHANGED <<mem, hdr, end, count, cursor, scratch, out, walks, apart, grown, wanted>>

-----------------------------------------------------------------------------
(* Reading.                                                                *)

\* The records after the header, up to the write head.
Walk == 1 .. watermark - 1

\* scan(out): every record resolved, its entries written at once; a pack without
\* a header, a chain that is refused, too little scratch or too little room
\* throws, and adds no entry.
scan ==
    /\ LET headed == hdr # NoHdr /\ watermark >= 1 /\ mem[0] = None
           takes == Max({0} \cup {Takes(mem, o) : o \in Walk}) IN
       \/ /\ headed
          /\ scratch' = Grow(scratch, 0, takes)
          /\ IF /\ Max({hdr, watermark - 1}) <= MaxOut - Len(out)
                /\ \A o \in Walk : ~Broken(mem, o)
                /\ Fits(scratch, 0, takes) # {}
             THEN /\ out' = out \o [i \in Walk |-> [key |-> Resolved(mem, i), off |-> i]]
                  /\ wanted' = wanted \cup Walk
             ELSE UNCHANGED <<out, wanted>>
       \/ /\ ~headed
          /\ scratch' = Scratch(scratch, 0)
          /\ UNCHANGED <<out, wanted>>
    /\ UNCHANGED <<pack, cursor, walks, apart, grown>>

\* _at(): the cursor is on a record, whose getters are then defined.
Positioned == rec >= 0

\* resolve(out), on a positioned cursor.
resolve ==
    /\ Positioned /\ Whole(rec)
    /\ scratch' = Grow(scratch, mem[rec].size, Takes(mem, rec))
    /\ UNCHANGED <<pack, cursor, out, walks, apart, grown, wanted>>

rewind == read' = 0 /\ rec' = -1 /\ UNCHANGED <<pack, scratch, out, walks, apart, grown, wanted>>

\* next(), from the byte after the header (read = 0) or after a record: nothing
\* happens at the write head, and in the middle of a record.
next ==
    /\ read = 0 => mem[0] = None
    /\ LET off == IF read = 0 THEN 1 ELSE read IN
         Whole(off) /\ rec' = off /\ read' = off + 1
    /\ UNCHANGED <<pack, scratch, out, walks, apart, grown, wanted>>

\* seek(off): an offset with no record unpositions the cursor.
seek(off) ==
    /\ IF Whole(off) THEN rec' = off /\ read' = off + 1
       ELSE rec' = -1 /\ UNCHANGED read
    /\ UNCHANGED <<pack, scratch, out, walks, apart, grown, wanted>>

-----------------------------------------------------------------------------

\* The program writes and reads a pack log, or moves bytes through a Buf.
Next ==
    \/ /\ family = "log"
       /\ \/ header \/ finish \/ build \/ setHead \/ scan \/ resolve \/ rewind \/ next
          \/ \E o \in Objects, prev \in {NoBase} \cup Live, emit \in BOOLEAN :
                feed(o, prev, emit)
          \/ \E off \in {0, 1, watermark} : seek(off)
    \/ /\ family = "buf" /\ B!BufNext
       /\ UNCHANGED <<pack, cursor, scratch, out, walks, grown, wanted, family>>

Spec == Init /\ [][Next]_vars

-----------------------------------------------------------------------------
(* Properties.                                                             *)

Entry1(o) == {i \in 1 .. Len(out) : out[i].off = o}

\* Every record resolves to the object that was fed at its offset, through any
\* chain of deltas and any rewriting of the pack from its start on; unless the
\* chain has a reference delta, or a record that a header was written over.
ResolveExact ==
    \A o \in Live : ~Broken(mem, o) => Resolved(mem, o) = mem[o].object

\* The scratch loop finds room for every chain whose objects are below half of
\* the largest 32-bit number, whatever scratch was there and whatever size the
\* record says: _grow gives up only where doubling would overflow | 0.
GrowEnough ==
    \A o \in Live : 2 * Takes(mem, o) <= MaxInt + 1 =>
        Fits(scratch, mem[o].size, Takes(mem, o)) # {}

\* The index Buf has an entry for every record that a feed with a Buf or a scan
\* answered for, and every entry names the object its offset holds.
IndexExact ==
    /\ \A o \in wanted : Entry1(o) # {}
    /\ \A i \in 1 .. Len(out) :
          out[i].off \in Held /\ out[i].key = mem[out[i].off].object

\* In a pack begun with header(), the count that finish() will write is the
\* number of records, whatever feeds threw and wherever.
CountExact == grown => count = watermark - 1

\* What the builder keeps about the records it appended, the index entries it
\* handed out and the count for the header, agrees with the records.
BooksExact == IndexExact /\ CountExact

\* What a Buf hands out (see Buf): DATA is the payload the calls made, and views
\* of take() keep their bytes until PAST is reused.
BufExact == B!BufExact
=============================================================================
