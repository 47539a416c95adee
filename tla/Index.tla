-------------------------------- MODULE Index --------------------------------
(***************************************************************************)
(* abc.index on its keyed lane (kv64): the handle of pup.hpp, with the     *)
(* sort / dedup / collapse and the merge it supplies to the run stack, the *)
(* point lookup, the in-frame range scan and the pull cursor, which keep   *)
(* pointers into runs and memtable.  The stack itself (run files, memtable *)
(* file, ladder) is outside the repository: what the comments of pup.hpp   *)
(* and cont.cpp say of it, and no more, is assumed here.  Run files and    *)
(* memtable file outlive the handle; a death of the process may catch them *)
(* anywhere around the sealing of a run.                                   *)
(*                                                                         *)
(* A run is a function on its keys; a value is the number of its put, so   *)
(* that the newest row of a key can be told.                               *)
(***************************************************************************)
EXTENDS Integers, Sequences, FiniteSets, SequencesExt

CONSTANTS
    Keys,     \* keys, numbers
    Cursors,  \* cursors in use: the handle's "seek", a "range" scan
    MemMax,   \* rows the memtable page holds
    MaxRuns,  \* runs a query merges, and cells of a handle's dict: HIT_MAX_RUNS
    MaxPut,   \* bound: puts in one behaviour
    MaxDrop,  \* bound: drops in one behaviour
    MaxDeath  \* bound: deaths of the process in one behaviour

ASSUME ConstantsAssumption ==
    /\ Keys \subseteq Nat /\ IsFiniteSet(Keys)
    /\ Cursors \subseteq {"seek", "range"}
    /\ MemMax \in Nat \ {0} /\ MaxRuns \in Nat \ {0}
    /\ MaxPut \in Nat /\ MaxDrop \in Nat /\ MaxDeath \in Nat

VARIABLES
    runs,    \* the run files, oldest first
    past,    \* memtable PAST: sorted, collapsed rows
    data,    \* memtable DATA: rows in the order of the puts, or sorted
    live,    \* the handle is open
    rw,      \* it was not opened with mode "r"
    cur,     \* cursor -> its pointers: one slice per source
    cb,      \* the range scan is in its callback
    puts,    \* puts so far
    drops,   \* drops so far
    deaths,  \* deaths so far
    want,    \* history: cursor -> the rows it has yet to deliver
    moved,   \* history: cursors with rows a sort moved in place
    gone     \* history: cursors with rows that were rewritten or unmapped

store == <<runs, past, data, puts, drops, deaths>>
vars == <<store, live, rw, cur, cb, want, moved, gone>>

None == 0
Empty == [k \in {} |-> None]
Vals == 1 .. MaxPut
Rows == Keys \X Vals
Tables == UNION {[ks -> Vals] : ks \in SUBSET Keys}

\* Where rows lie: a run, by its number, PAST or DATA.
Past == 0
Data == -1

\* A slice: the rows of a source from the pointer at up to, without, end.
Slices == [src : Data .. MaxRuns, at : Nat, end : Nat]

\* The dict cell of the memtable: one as soon as it has rows.
Cell == IF past = Empty /\ data = <<>> THEN 0 ELSE 1

\* A handle's runs and memtable have a cell each; a death within a seal leaves
\* up to one file more than fits.
TypeOK ==
    /\ runs \in Seq(Tables) /\ Len(runs) <= MaxRuns + 1
    /\ live => Len(runs) + Cell <= MaxRuns
    /\ live \in BOOLEAN /\ rw \in BOOLEAN /\ cb \in BOOLEAN
    /\ past \in Tables
    /\ data \in Seq(Rows) /\ Cardinality(DOMAIN past) + Len(data) <= MemMax
    /\ cur \in [Cursors -> Seq(Slices)]
    /\ puts \in 0 .. MaxPut /\ drops \in 0 .. MaxDrop /\ deaths \in 0 .. MaxDeath
    /\ want \in [Cursors -> Tables]
    /\ moved \subseteq Cursors /\ gone \subseteq Cursors

Init ==
    /\ runs = <<>>
    /\ live = FALSE /\ rw = FALSE /\ cb = FALSE
    /\ past = Empty /\ data = <<>>
    /\ cur = [c \in Cursors |-> <<>>]
    /\ puts = 0 /\ drops = 0 /\ deaths = 0
    /\ want = [c \in Cursors |-> Empty] /\ moved = {} /\ gone = {}

-----------------------------------------------------------------------------
(* What the lane supplies.                                                 *)

\* The rows of a table in key order.
Ordered(t) ==
    CHOOSE s \in [1 .. Cardinality(DOMAIN t) -> {<<k, t[k]>> : k \in DOMAIN t}] :
        \A i, j \in DOMAIN s : i < j => s[i][1] < s[j][1]

\* Mutant: dedup keeps the first row of a key.
KeptRow_First(s, i) == \A j \in 1 .. i - 1 : s[j][1] # s[i][1]

\* Stable sort and dedup: of the rows of a key, the last one stays.
KeptRow(s, i) == \A j \in i + 1 .. Len(s) : s[j][1] # s[i][1]

\* The rows sorted and deduped, as a table.
Deduped(s) ==
    LET kept == {i \in 1 .. Len(s) : KeptRow(s, i)} IN
    [k \in {s[i][1] : i \in kept} |->
        s[CHOOSE i \in kept : s[i][1] = k][2]]

\* DATA needs no sorting: the keys ascend.
Clean(s) == \A i \in 1 .. Len(s) - 1 : s[i][1] < s[i + 1][1]

\* The lane's sync without collapse: DATA as a query finds it.
Sorted == IF Clean(data) THEN data ELSE Ordered(Deduped(data))

\* The fold of DATA over PAST: equal keys go to DATA.
Over(young, old) ==
    [k \in DOMAIN young \cup DOMAIN old |->
        IF k \in DOMAIN young THEN young[k] ELSE old[k]]

\* Sync with collapse folds DATA over PAST.
Collapsed(s) == Over(Deduped(s), past)

\* Mutant: equal keys go to the oldest run.
Winner_Old(is) == CHOOSE i \in is : \A j \in is : i <= j

\* The merge of runs: equal keys go to the youngest.
Winner(is) == CHOOSE i \in is : \A j \in is : j <= i

\* The merge of the runs i .. Len(rs).
MergedFrom(rs, i) ==
    LET having(k) == {j \in i .. Len(rs) : k \in DOMAIN rs[j]} IN
    [k \in {j \in Keys : having(j) # {}} |-> rs[Winner(having(k))][k]]

\* The query sources, oldest first: runs, PAST, DATA.
Sources == [i \in 1 .. Len(runs) |-> [src |-> i, tab |-> runs[i]]]
               \o << [src |-> 0, tab |-> past], [src |-> 0, tab |-> Deduped(data)] >>

\* The newest source that has the key.
Found(k, is) == CHOOSE i \in is : \A j \in is : j <= i

\* _get: newest source first, the first row at or after the key, if it is its.
Get(k) ==
    LET ss == Sources
        is == {i \in 1 .. Len(ss) : k \in DOMAIN ss[i].tab} IN
    IF is = {} THEN None ELSE ss[Found(k, is)].tab[k]

-----------------------------------------------------------------------------
(* Cursors.                                                                *)

\* The rows at a source's addresses, DATA being d; nothing where a file was
\* unmapped.
RowsAt(s, d) ==
    CASE s = Data -> d
      [] s = Past -> Ordered(past)
      [] s \in 1 .. Len(runs) -> Ordered(runs[s])
      [] OTHER -> <<>>

\* The sources of a query, oldest first: runs, PAST, DATA.
SourceAt(i) == IF i <= Len(runs) THEN i ELSE Len(runs) + 1 - i

\* The first position with a key at or after k.
FindGE(s, k) ==
    CHOOSE i \in 1 .. Len(s) + 1 :
        (\A j \in 1 .. i - 1 : s[j][1] < k) /\ (i <= Len(s) => k <= s[i][1])

\* Every source, after the sort, cut to the rows with keys in lo .. hi - 1.
Cut(lo, hi) ==
    [i \in 1 .. Len(runs) + 2 |->
        LET s == RowsAt(SourceAt(i), Sorted) IN
        [src |-> SourceAt(i), at |-> FindGE(s, lo), end |-> FindGE(s, hi)]]

\* A query past the cap of sources throws.
Fits == Len(runs) + (IF past = Empty THEN 0 ELSE 1) + (IF data = <<>> THEN 0 ELSE 1)
            <= MaxRuns

\* The slices that are not used up: the heap.
Left(ss) == {i \in 1 .. Len(ss) : ss[i].at < ss[i].end}

\* The row under a slice's pointer, read now.
HeadRow(sl) ==
    LET s == RowsAt(sl.src, data) IN
    IF sl.at \in 1 .. Len(s) THEN s[sl.at] ELSE <<None, None>>

\* The slices that stand at a key.
Having(ss, k) == {i \in Left(ss) : HeadRow(ss[i])[1] = k}

\* The row on top of the heap: the least key, from the youngest that has it.
Least(ks) == CHOOSE k \in ks : \A j \in ks : k <= j
TopKey(ss) == Least({HeadRow(ss[i])[1] : i \in Left(ss)})
Top(ss) == HeadRow(ss[Winner(Having(ss, TopKey(ss)))])

\* Mutant: only the slice the row came from moves on.
Moves_Winner(i, ss) == i = Winner(Having(ss, TopKey(ss)))

\* Slices that move past the row just taken: all that stand at its key.
Moves(i, ss) == i \in Having(ss, TopKey(ss))

\* Tops, AdvanceTops and the loop behind them.
Advanced(ss) ==
    [i \in 1 .. Len(ss) |-> IF Moves(i, ss) THEN [ss[i] EXCEPT !.at = @ + 1] ELSE ss[i]]

\* What a reader of the index expects in lo .. hi - 1: its keys, each with what
\* get answers.
Expected(lo, hi) ==
    [k \in {j \in Keys : lo <= j /\ j < hi /\ Get(j) # None} |-> Get(k)]
Without(t, k) == [j \in DOMAIN t \ {k} |-> t[j]]

\* The cursors that still point into one of the given sources.
Pointing(srcs) ==
    {c \in Cursors : \E i \in Left(cur[c]) : cur[c][i].src \in srcs}

\* Every query first sorts DATA in place, under the pointers of open cursors.
Moved == IF Clean(data) THEN moved ELSE moved \cup Pointing({Data})

-----------------------------------------------------------------------------
(* The operations of the handle.                                           *)

\* open, "r" or "rw": the files of the directory are mapped, if they fit the
\* dict.
open(mode) ==
    /\ ~live
    /\ Len(runs) + Cell <= MaxRuns
    /\ live' = TRUE
    /\ rw' = (mode = "rw")
    /\ cur' = [cur EXCEPT !["seek"] = <<>>]
    /\ want' = [want EXCEPT !["seek"] = Empty]
    /\ moved' = moved \ {"seek"} /\ gone' = gone \ {"seek"}
    /\ UNCHANGED <<store, cb>>

\* The page is collapsed: DATA, with these rows, goes into PAST.
Collapses(rows) ==
    /\ past' = Collapsed(rows) /\ data' = <<>>
    /\ gone' = gone \cup Pointing({Past, Data})
    /\ UNCHANGED <<runs, moved>>

\* The stack with the memtable's rows t sealed into a run, and the ladder's
\* choice of youngest runs merged: from the i-th on.
Sealed(t, i) ==
    LET rs == Append(runs, t) IN Append(SubSeq(rs, 1, i - 1), MergedFrom(rs, i))

\* Seal: the memtable becomes a run, runs from the i-th on become one.
Seals(t, i) ==
    /\ i \in 1 .. Len(runs) + 1 /\ i <= MaxRuns
    /\ runs' = Sealed(t, i)
    /\ past' = Empty /\ data' = <<>>
    /\ gone' = gone \cup Pointing({Past, Data} \cup i .. Len(runs))
    /\ UNCHANGED moved

\* put: a row into DATA; a page that fills up is collapsed, or sealed.
put(k) ==
    /\ live /\ rw
    /\ Len(runs) < MaxRuns
    /\ puts < MaxPut
    /\ puts' = puts + 1
    /\ LET rows == Append(data, <<k, puts + 1>>)
           full == Cardinality(DOMAIN past) + Len(rows) >= MemMax IN
         \/ ~full /\ data' = rows /\ UNCHANGED <<runs, past, moved, gone>>
         \/ /\ full /\ Cardinality(DOMAIN Collapsed(rows)) < MemMax
            /\ Collapses(rows)
         \/ full /\ \E i \in 1 .. Len(runs) + 1 : Seals(Collapsed(rows), i)
    /\ UNCHANGED <<live, rw, cur, cb, drops, deaths, want>>

\* put throws: the row is in, and the page it filled is collapsed or not, but
\* not sealed.
putFails(k) ==
    /\ live /\ rw
    /\ Len(runs) < MaxRuns
    /\ puts < MaxPut
    /\ puts' = puts + 1
    /\ LET rows == Append(data, <<k, puts + 1>>) IN
         \/ /\ Cardinality(DOMAIN past) + Len(rows) = MemMax
            /\ data' = rows /\ UNCHANGED <<runs, past, moved, gone>>
         \/ Cardinality(DOMAIN Collapsed(rows)) = MemMax /\ Collapses(rows)
    /\ UNCHANGED <<live, rw, cur, cb, drops, deaths, want>>

\* There is something to seal.
Unsealed == DOMAIN Collapsed(data) # {}

\* commit throws: the page is collapsed but not sealed.
commitFails ==
    /\ live /\ rw /\ Unsealed
    /\ Collapses(data)
    /\ UNCHANGED <<live, rw, cur, cb, puts, drops, deaths, want>>

\* Mutant: a seal that fails is not thrown.
commit_Silent == commitFails

\* commit: collapse, seal, and run the ladder; nothing to seal, no run.
commit ==
    /\ live /\ rw
    /\ \/ Unsealed /\ \E i \in 1 .. Len(runs) + 1 : Seals(Collapsed(data), i)
       \/ ~Unsealed /\ UNCHANGED <<runs, past, data, moved, gone>>
    /\ UNCHANGED <<live, rw, cur, cb, puts, drops, deaths, want>>

\* get changes nothing but the order of DATA.
get ==
    /\ live
    /\ data' = Sorted /\ moved' = Moved
    /\ UNCHANGED <<runs, past, live, rw, cur, cb, puts, drops, deaths, want, gone>>

\* Cursor c is placed on the rows with keys in lo .. hi - 1.
Places(c, lo, hi) ==
    /\ c \in Cursors
    /\ live /\ Fits
    /\ data' = Sorted
    /\ cur' = [cur EXCEPT ![c] = Cut(lo, hi)]
    /\ want' = [want EXCEPT ![c] = Expected(lo, hi)]
    /\ moved' = Moved \ {c} /\ gone' = gone \ {c}
    /\ UNCHANGED <<runs, past, live, rw, cb, puts, drops, deaths>>

\* seek(k): the handle's one cursor at the first rows at or after k.
Beyond == 1 + CHOOSE k \in Keys : \A j \in Keys : j <= k
seek(k) == Places("seek", k, Beyond)

\* range(lo, hi, cb) begins.
range(lo, hi) == ~cb /\ Places("range", lo, hi) /\ Left(cur["range"]) = {}

\* _next, and one turn of the range scan, which then calls back.
pull(c) ==
    /\ c \notin moved \cup gone
    /\ Left(cur[c]) # {}
    /\ c = "seek" => live
    /\ c = "range" => ~cb
    /\ cb' = (c = "range" \/ cb)
    /\ cur' = [cur EXCEPT ![c] = Advanced(@)]
    /\ want' = [want EXCEPT ![c] = Without(@, Least(DOMAIN @))]
    /\ UNCHANGED <<store, live, rw, moved, gone>>

\* The same with rows that are no longer what the pointers were set to: which
\* slices move on, and how often, depends on what is read there.
pullBad(c) ==
    /\ c \in moved \cup gone
    /\ Left(cur[c]) # {}
    /\ c = "seek" => live
    /\ c = "range" => ~cb
    /\ cb' = (c = "range" \/ cb)
    /\ \E i \in Left(cur[c]) : \E p \in cur[c][i].at + 1 .. cur[c][i].end :
           cur' = [cur EXCEPT ![c][i].at = p]
    /\ UNCHANGED <<store, live, rw, want, moved, gone>>

\* The callback returns: on with the scan, or "enough", or it threw.
cbReturns(enough) ==
    /\ cb
    /\ cb' = FALSE
    /\ IF enough
       THEN /\ cur' = [cur EXCEPT !["range"] = <<>>]
            /\ want' = [want EXCEPT !["range"] = Empty]
            /\ moved' = moved \ {"range"} /\ gone' = gone \ {"range"}
       ELSE UNCHANGED <<cur, want, moved, gone>>
    /\ UNCHANGED <<store, live, rw>>

\* drop(), drop(i): all runs go, or one, and the handle's cursor with them; a
\* drop() that throws has unlinked some from the young end.
drop(rs) ==
    /\ live /\ rw
    /\ drops < MaxDrop
    /\ drops' = drops + 1
    /\ runs' = rs
    /\ cur' = [cur EXCEPT !["seek"] = <<>>]
    /\ want' = [want EXCEPT !["seek"] = Empty]
    /\ moved' = moved \ {"seek"}
    /\ gone' = (gone \cup Pointing(1 .. MaxRuns)) \ {"seek"}
    /\ UNCHANGED <<past, data, puts, deaths, live, rw, cb>>

\* close: runs and memtable are unmapped; their files stay.
close ==
    /\ live
    /\ live' = FALSE
    /\ cur' = [cur EXCEPT !["seek"] = <<>>]
    /\ want' = [want EXCEPT !["seek"] = Empty]
    /\ moved' = moved \ {"seek"}
    /\ gone' = (gone \cup Pointing(Data .. MaxRuns)) \ {"seek"}
    /\ UNCHANGED <<store, rw, cb>>

\* Of these rows some are in the memtable file after a death, at most one of
\* each key that a query would answer; each whole or not at all.
PageRows == {<<k, past[k]>> : k \in DOMAIN past} \cup {data[i] : i \in 1 .. Len(data)}
Survives(rows) ==
    /\ \E t \in Tables : (\A k \in DOMAIN t : <<k, t[k]>> \in rows) /\ data' = Ordered(t)
    /\ past' = Empty

\* The process dies, maybe within a commit: before the new run is renamed into
\* place, after it, with the memtable file still there, or with the merged run
\* in place and the old ones not yet unlinked.
crash ==
    /\ deaths < MaxDeath
    /\ deaths' = deaths + 1
    /\ \/ UNCHANGED runs /\ Survives(PageRows)
       \/ /\ live /\ rw /\ Unsealed
          /\ LET rs == Append(runs, Collapsed(data)) IN
               runs' \in {rs} \cup {Append(rs, MergedFrom(rs, i)) : i \in 1 .. Len(rs)}
          /\ Survives({<<k, Collapsed(data)[k]>> : k \in DOMAIN Collapsed(data)})
    /\ live' = FALSE /\ rw' = FALSE /\ cb' = FALSE
    /\ cur' = [c \in Cursors |-> <<>>]
    /\ want' = [c \in Cursors |-> Empty]
    /\ moved' = {} /\ gone' = {}
    /\ UNCHANGED <<puts, drops>>

-----------------------------------------------------------------------------

Next ==
    \/ open("r") \/ open("rw") \/ commit \/ commitFails \/ get \/ close \/ crash
    \/ \E k \in Keys : put(k) \/ putFails(k) \/ seek(k) \/ \E h \in Keys : range(k, h)
    \/ \E c \in Cursors : pull(c) \/ pullBad(c)
    \/ cbReturns(TRUE) \/ cbReturns(FALSE)
    \/ \E i \in 0 .. Len(runs) : drop(SubSeq(runs, 1, i))
    \/ \E i \in 1 .. Len(runs) : drop(RemoveAt(runs, i))

Spec == Init /\ [][Next]_vars

-----------------------------------------------------------------------------
(* Properties.                                                             *)

\* What get answers through runs, PAST and DATA is what a plain map would: the
\* value put last, whatever was sorted, collapsed, sealed or merged on the
\* way, and over closings and failures; a death of the process, and nothing
\* else, loses rows, and only such as no commit or full page had sealed.
Saved ==
    LET t == MergedFrom(runs, 1) IN
    [k \in Keys |-> IF k \in DOMAIN t THEN t[k] ELSE None]
Abstract == INSTANCE Kv WITH view <- [k \in Keys |-> Get(k)], saved <- Saved
ImplementsMap == Abstract!Spec

\* A commit that does not throw puts all that get answered before it into the
\* runs, where no death loses it.
CommitSaves == [][commit => Saved' = [k \in Keys |-> Get(k)]]_vars

\* The cursor's next row, read through its pointers, is the first it owes; it
\* ends when it owes none.
OnRow(c) ==
    /\ Left(cur[c]) = {} <=> DOMAIN want[c] = {}
    /\ Left(cur[c]) # {} =>
         LET k == Least(DOMAIN want[c]) IN Top(cur[c]) = <<k, want[c][k]>>

\* A cursor delivers the rows the index had when it was placed, each key once,
\* in order, with its newest value, also when puts come in between; until the
\* memtable is sorted or collapsed, or what it points into merged or dropped.
CursorExact == \A c \in Cursors \ (moved \cup gone) : OnRow(c)
=============================================================================
