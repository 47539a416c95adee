--------------------------------- MODULE Fsw ---------------------------------
(***************************************************************************)
(* The directory watcher of fsw.cpp: one kernel watcher shared by all      *)
(* directories, its bounded queue, the drain into a bounded Buf, and the   *)
(* JS loop that attributes records to directories by watch descriptor.     *)
(* Callbacks of the program run in the middle of that loop and may watch,  *)
(* unwatch, stop or throw.                                                 *)
(*                                                                         *)
(* The kernel numbers the watches of one watcher 1, 2, ... and a new       *)
(* watcher starts again at 1.                                              *)
(***************************************************************************)
EXTENDS Integers, Sequences, SequencesExt

CONSTANTS
    Dirs,      \* directories
    Names,     \* file names in them
    QMax,      \* events the kernel queue holds before it overflows
    BufMax,    \* records one Buf takes
    MaxCalls   \* bound: calls of watch, unwatch, stop and onoverflow

ASSUME FswAssumption ==
    QMax \in Nat \ {0} /\ BufMax \in Nat \ {0} /\ MaxCalls \in Nat

VARIABLES
    open,     \* wfd >= 0
    kwd,      \* kernel: the directories of the current watcher, by wd
    queue,    \* kernel: its event queue
    dirs,     \* the Map dirs: the directory of each claimed wd
    subs,     \* the Map subs: the wds with a handler
    over,     \* fsw.onoverflow has a callback
    polled,   \* the watcher's fd is registered with pol
    at,       \* where the handler is: "pol" (not running), "loop" (about to
              \* drain), "rows", "lost" (in forEach), or in a callback, from
              \* forEach ("each") or not ("cb")
    fresh,    \* the handler's fd is the watcher's current one
    rows,     \* the drained records still to be handed out
    rescan,   \* lost(): the wds forEach has yet to visit
    quits,    \* lost() was called on a failed drain: leave the loop after it
    calls,    \* calls of the program so far
    dirty,    \* history: changes in claimed directories not yet reported
    restarted,\* history: the watcher was stopped inside the running handler
    broken    \* history: a callback threw, or pol refused the registration,
              \* and the watcher was not stopped since

fswVars == <<open, kwd, queue, dirs, subs, over, polled, at, fresh, rows, rescan,
             quits, calls, dirty, restarted, broken>>

inotify == <<open, kwd, queue>>
claims == <<dirs, subs>>
program == <<over, calls>>

OVERFLOW == -1

\* A record; of is the directory the change was in (history).
Record(wd, n, d) == [wd |-> wd, name |-> n, of |-> d]
Nowhere == "nowhere"
Lost == [wd |-> OVERFLOW, name |-> Nowhere, of |-> Nowhere]
Wds == 1 .. MaxCalls
Records == {Lost} \cup [wd : Wds, name : Names, of : Dirs \cup {Nowhere}]

\* What the bytes of some other file may look like.
Garbage == {r \in Records : r.of = Nowhere}

FswTypeOK ==
    /\ open \in BOOLEAN /\ over \in BOOLEAN /\ polled \in BOOLEAN
    /\ kwd \in Seq(Dirs) /\ IsInjective(kwd)
    /\ queue \in Seq(Records) /\ Len(queue) <= QMax + 1
    /\ dirs \in [subs -> Dirs]
    /\ subs \subseteq Wds /\ rescan \subseteq Wds
    /\ at \in {"pol", "loop", "rows", "lost", "each", "cb"}
    /\ rows \in Seq(Records) /\ Len(rows) <= BufMax
    /\ fresh \in BOOLEAN /\ quits \in BOOLEAN
    /\ calls \in 0 .. MaxCalls
    /\ dirty \subseteq Dirs \X Names
    /\ restarted \in BOOLEAN /\ broken \in BOOLEAN

FswInit ==
    /\ open = FALSE /\ kwd = <<>> /\ queue = <<>>
    /\ dirs = <<>> /\ subs = {} /\ over = FALSE /\ polled = FALSE
    /\ at = "pol" /\ fresh = TRUE
    /\ rows = <<>> /\ rescan = {} /\ quits = FALSE
    /\ calls = 0
    /\ dirty = {} /\ restarted = FALSE /\ broken = FALSE

FswTurn == at \in {"pol", "each", "cb"} /\ calls < MaxCalls
Claimed(d) == \E w \in subs : w <= Len(kwd) /\ kwd[w] = d
WdOf(ks, d) == CHOOSE w \in 1 .. Len(ks) : ks[w] = d

\* fsw.init(): a new watcher has no directories and no events.
Watcher == IF open THEN <<kwd, queue>> ELSE <<<<>>, <<>>>>

\* fsw.close(wfd): the kernel forgets both.
CloseWatcher == open' = FALSE /\ kwd' = <<>> /\ queue' = <<>>

-----------------------------------------------------------------------------
(* The calls of the program.                                               *)

\* fsw.watch(dir, fn): the watcher is opened on the first call, and pol may
\* refuse it; then the kernel names the directory, or refuses it.
watch(d) ==
    /\ FswTurn
    /\ calls' = calls + 1
    /\ open' = TRUE
    /\ LET ks == Watcher[1]
           qs == Watcher[2] IN
         \/ LET kds == IF Contains(ks, d) THEN ks ELSE Append(ks, d)
                w == WdOf(kds, d) IN
            /\ kwd' = kds /\ queue' = qs
            /\ polled' = IF open THEN polled ELSE TRUE
            /\ dirs' = [v \in subs \cup {w} |-> IF v = w THEN d ELSE dirs[v]]
            /\ subs' = subs \cup {w}
            /\ rescan' = IF at = "each" /\ w \notin subs THEN rescan \cup {w}
                         ELSE rescan
            /\ UNCHANGED broken
         \/ /\ kwd' = ks /\ queue' = qs
            /\ polled' = IF open THEN polled ELSE TRUE
            /\ UNCHANGED <<dirs, subs, rescan, broken>>
         \/ /\ ~open
            /\ kwd' = <<>> /\ queue' = <<>> /\ broken' = TRUE
            /\ UNCHANGED <<polled, dirs, subs, rescan>>
    /\ fresh' \in IF open \/ at = "pol" THEN {fresh} ELSE BOOLEAN
    /\ UNCHANGED <<over, at, rows, quits, dirty, restarted>>

\* fsw.unwatch(wd): the claim goes, the kernel's watch stays.
unwatch(w) ==
    /\ FswTurn
    /\ w \in subs
    /\ calls' = calls + 1
    /\ dirs' = [v \in subs \ {w} |-> dirs[v]]
    /\ subs' = subs \ {w}
    /\ rescan' = rescan \ {w}
    /\ dirty' = {c \in dirty : c[1] # dirs[w]}
    /\ UNCHANGED <<inotify, over, polled, at, fresh, rows, quits, restarted,
                   broken>>

\* fsw.stop(): the watcher and all claims go.  A watcher that pol refused, or
\* whose callback threw, is given up this way (after pol.init, in the second
\* case), and the next fsw.watch begins a new one.
stop ==
    /\ FswTurn
    /\ open
    /\ calls' = calls + 1
    /\ CloseWatcher
    /\ polled' = FALSE
    /\ dirs' = <<>> /\ subs' = {} /\ rescan' = {}
    /\ dirty' = {}
    /\ restarted' = (at # "pol")
    /\ broken' = FALSE
    /\ UNCHANGED <<over, at, fresh, rows, quits>>

\* fsw.onoverflow(fn).
onoverflow ==
    /\ FswTurn
    /\ calls' = calls + 1
    /\ over' = ~over
    /\ UNCHANGED <<inotify, claims, polled, at, fresh, rows, rescan, quits, dirty,
                   restarted, broken>>

-----------------------------------------------------------------------------
(* The kernel.                                                             *)

\* A file changes: the event is queued, or an overflow mark is, once.
change(d, n) ==
    /\ open /\ Contains(kwd, d)
    /\ queue' = IF Len(queue) < QMax THEN Append(queue, Record(WdOf(kwd, d), n, d))
                ELSE IF Last(queue) # Lost THEN Append(queue, Lost)
                ELSE queue
    /\ dirty' = IF Claimed(d) THEN dirty \cup {<<d, n>>} ELSE dirty
    /\ UNCHANGED <<open, kwd, claims, program, polled, at, fresh, rows, rescan,
                   quits, restarted, broken>>

-----------------------------------------------------------------------------
(* The handler.                                                            *)

\* pol calls the handler of a readable watcher.
dispatch ==
    /\ at = "pol"
    /\ polled /\ queue # <<>>
    /\ at' = "loop" /\ fresh' = TRUE
    /\ restarted' = FALSE
    /\ UNCHANGED <<inotify, claims, program, polled, rows, rescan, quits, dirty,
                   broken>>

\* Mutant: only the first directory is told.
Visited_First == IF subs = {} THEN {} ELSE {CHOOSE w \in subs : TRUE}

\* dirs.forEach: every claimed wd; the order of the Map does not matter here.
Visited == subs

\* lost(): the overflow callback if there is one, else a rescan of every dir
\* that is claimed, as forEach comes to it.
lost(leave) ==
    /\ at' = IF over THEN "cb" ELSE "lost"
    /\ rescan' = IF over THEN {} ELSE Visited
    /\ dirty' = IF over THEN {} ELSE dirty
    /\ quits' = leave

\* Mutant: a Buf that ran full ends the loop and is not reported.
DrainFails_Silent ==
    /\ at' = "pol"
    /\ UNCHANGED <<rescan, dirty, quits>>

\* The drain threw: lost(), then break.
DrainFails == lost(TRUE)

\* One bite of the loop.  The drain reads some of the queue, and what it read
\* beyond the room of the Buf is gone; it fails likewise once the watcher was
\* stopped (buf is null) or the handler's number is no file's any more.
drain ==
    /\ at = "loop"
    /\ \/ /\ open /\ fresh /\ queue = <<>>
          /\ at' = "pol"
          /\ UNCHANGED <<queue, rows, rescan, dirty, quits>>
       \/ /\ open /\ fresh /\ queue # <<>>
          /\ \E m \in 1 .. Len(queue) :
                /\ queue' = SubSeq(queue, m + 1, Len(queue))
                /\ IF m <= BufMax
                   THEN /\ rows' = SubSeq(queue, 1, m)
                        /\ at' = "rows"
                        /\ UNCHANGED <<rescan, dirty, quits>>
                   ELSE /\ UNCHANGED rows
                        /\ DrainFails
       \/ /\ ~(open /\ fresh)
          /\ DrainFails
          /\ UNCHANGED <<queue, rows>>
    /\ UNCHANGED <<open, kwd, claims, program, polled, fresh, restarted, broken>>

\* The handler's number is some other file's by now, and that one is read:
\* there is nothing in it, or there is anything.
drainOther(rs) ==
    /\ at = "loop" /\ open /\ ~fresh
    /\ rows' = rs
    /\ at' = IF rs = <<>> THEN "pol" ELSE "rows"
    /\ UNCHANGED <<inotify, claims, program, polled, fresh, rescan, quits, dirty,
                   restarted, broken>>

\* Mutant: the first dir of a row's batch serves all of it.
DirOf_First(w) == dirs[CHOOSE v \in subs : \A u \in subs : v <= u]

\* dirs.get(wd), at the time the row's turn comes.
DirOf(w) == dirs[w]

\* One row: an overflow is lost(); else the handler the wd has by now.
row ==
    /\ at = "rows"
    /\ IF rows = <<>>
       THEN at' = "loop" /\ UNCHANGED <<rows, rescan, dirty, quits>>
       ELSE LET r == Head(rows) IN
            /\ rows' = Tail(rows)
            /\ IF r = Lost
               THEN lost(FALSE)
               ELSE IF r.wd \in subs
                    THEN /\ at' = "cb"
                         /\ dirty' = dirty \ {<<DirOf(r.wd), r.name>>}
                         /\ UNCHANGED <<rescan, quits>>
                    ELSE UNCHANGED <<at, rescan, dirty, quits>>
    /\ UNCHANGED <<inotify, claims, program, polled, fresh, restarted, broken>>

\* forEach comes to the next claimed wd: its handler is told to rescan.
rescanNext ==
    /\ at = "lost"
    /\ \/ /\ rescan = {}
          /\ at' = IF quits THEN "pol" ELSE "rows"
          /\ UNCHANGED <<rescan, dirty>>
       \/ \E w \in rescan :
          /\ at' = "each"
          /\ rescan' = rescan \ {w}
          /\ dirty' = {c \in dirty : c[1] # dirs[w]}
    /\ quits' = (quits /\ rescan # {})
    /\ UNCHANGED <<inotify, claims, program, polled, fresh, rows, restarted, broken>>

\* A callback returns into the rescan, the failed drain or the rows.
callbackReturns ==
    /\ at \in {"each", "cb"}
    /\ at' = IF at = "each" THEN "lost" ELSE IF quits THEN "pol" ELSE "rows"
    /\ quits' = (quits /\ at = "each")
    /\ UNCHANGED <<inotify, claims, program, polled, fresh, rows, rescan, dirty,
                   restarted, broken>>

\* A callback throws: rows and rescan are dropped, and pol drops the fd.
callbackThrows ==
    /\ at \in {"each", "cb"}
    /\ at' = "pol"
    /\ rows' = <<>> /\ rescan' = {} /\ quits' = FALSE
    /\ polled' = FALSE
    /\ broken' = TRUE
    /\ UNCHANGED <<inotify, claims, program, fresh, dirty, restarted>>

-----------------------------------------------------------------------------

OtherRows == {<<>>} \cup {<<r>> : r \in Garbage}

FswHandler == \/ dispatch \/ drain \/ row \/ rescanNext \/ callbackReturns
              \/ \E rs \in OtherRows : drainOther(rs)

FswNext ==
    \/ \E d \in Dirs : watch(d) \/ \E n \in Names : change(d, n)
    \/ \E w \in Wds : unwatch(w)
    \/ stop \/ onoverflow
    \/ FswHandler \/ callbackThrows

\* The loop runs and callbacks return; another file that is read in place of
\* the watcher is not endless.
FswSpec == /\ FswInit /\ [][FswNext]_fswVars
           /\ WF_fswVars(FswHandler) /\ SF_fswVars(drainOther(<<>>))

-----------------------------------------------------------------------------
(* Properties.                                                             *)

\* A change in a watched directory that nobody was told of is still on its
\* way: in the kernel queue, among the rows drained, behind an overflow mark
\* or under a rescan in progress; no overflow, full Buf, unwatch or stop in
\* the middle of a batch drops it silently.
OnItsWay(d, n) ==
    \/ \E q \in {queue, rows} : \E i \in 1 .. Len(q) :
          q[i] = Lost \/ (q[i].of = d /\ q[i].name = n)
    \/ \E w \in rescan : dirs[w] = d
NothingMissed == broken \/ \A c \in dirty : OnItsWay(c[1], c[2])

\* Each row goes to the directory the change was in, although directories are
\* claimed and given up between the drain and the row; unless the watcher was
\* stopped within the same handler call, when the descriptors of the rows are
\* those of a watcher that is gone.
RightDirectory ==
    [][(row /\ at' = "cb" /\ rows # <<>> /\ Head(rows) # Lost) =>
           DirOf(Head(rows).wd) = Head(rows).of \/ restarted]_fswVars

\* Every change in a watched directory is reported to it, by name or by a
\* rescan, or to the overflow callback.
Reported ==
    \A d \in Dirs, n \in Names : (<<d, n>> \in dirty) ~>
                                    (<<d, n>> \notin dirty \/ broken)
=============================================================================
