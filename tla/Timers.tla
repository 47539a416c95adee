-------------------------------- MODULE Timers --------------------------------
(***************************************************************************)
(* The setTimeout/setInterval wheel of net.cpp (the JS bundle, twTick,     *)
(* twArm and the global functions) over the one timer of the pol loop      *)
(* (pol.cpp: pol.timer, pol.sooner, pol._timer and the C trampoline).      *)
(*                                                                         *)
(* Time is counted in ticks, MS of them to a millisecond, so that the two  *)
(* conversions of the code (Math.ceil in twTick, `| 0' in twArm) really    *)
(* round.  It is relative: due is dueNs - now, which stops at -MaxLate     *)
(* (the code asks only whether dueNs <= now, and takes the larger of the   *)
(* remaining time and 1 ms, so how late a timer is makes no difference).   *)
(* A timer id is its creation rank, as twId is; a JS Map iterates in       *)
(* insertion order, so the ids of a set are visited smallest first.        *)
(***************************************************************************)
EXTENDS Integers

CONSTANTS
    MS,        \* ticks in a millisecond (the code counts 1e6 ns)
    HOUR,      \* milliseconds at which POL removes a timer (3600000)
    MaxInt,    \* the first number `| 0' makes negative (2^31)
    Delays,    \* the delays, in ticks, that callers ask for
    MaxId,     \* bound: timers created in one behaviour
    MaxFirst,  \* bound: ticks before POL's own first wake-up of a new timer
    MaxLate    \* bound: ticks of lateness that are told apart

ASSUME WheelAssumption ==
    /\ MS \in Nat /\ MS > 0
    /\ HOUR \in Nat
    /\ MaxInt \in Nat /\ HOUR < MaxInt
    /\ Delays \subseteq Nat
    /\ MaxId \in Nat
    /\ MaxFirst \in Nat
    /\ MaxLate \in Nat

Ids == 1 .. MaxId
None == -1

VARIABLES
    tw,       \* TW: live timer id -> [due, period]
    twId,     \* the next id
    twOn,     \* the wheel believes the pol timer is armed
    timer,    \* the pol bundle's `timer': None, "wheel" or "user"
    polLeft,  \* POL's heap: ticks to the timer's deadline, None if untracked
    fds,      \* the program has an fd watched
    stopped,  \* POLStop is sticky until pol.init
    turn,     \* whose turn it is: "script", "poll", "tick", "cb", "fd",
              \* "usercb", "out" (the loop was stopped) or "done"
    batch,    \* twTick's `due': ids still to fire in this tick
    cur,      \* the id whose callback is running, None otherwise
    cleared,  \* history: ids given to clearTimeout / clearInterval
    spent,    \* history: one-shot ids whose callback was called
    upset     \* history: what the program did that the wheel cannot stand:
              \* nothing ("no"), a timer of an hour or more ("long"), or a call
              \* to pol's own timer, pol.stop, pol.init, or a throw ("other")

wheelVars == <<tw, twId, twOn, timer, polLeft, fds, stopped, turn, batch,
               cur, cleared, spent, upset>>

wheel == <<tw, twId, twOn, batch, cur, cleared, spent>>

Live == DOMAIN tw

-----------------------------------------------------------------------------

MinOf(a, b) == IF a < b THEN a ELSE b
AtLeast1(m) == IF m < 1 THEN 1 ELSE m
CeilMs(t) == (t + MS - 1) \div MS       \* Math.ceil(ns / MS)

\* n | 0, of a number that is not negative.
Int32(n) ==
    LET r == n % (2 * MaxInt) IN IF r < MaxInt THEN r ELSE r - 2 * MaxInt

\* ms < 1 ? 1 : ms | 0, of a delay in ticks.
TruncMs(t) == IF t < MS THEN 1 ELSE Int32(t \div MS)

MaxOf0(t) == IF t < 0 THEN 0 ELSE t

\* Mutant: the call to pol.sooner is lost.
Sooner_Lost(left, t) == left

\* POLAddTime: bring the deadline forward, nothing when no timer is tracked.
Sooner(left, t) == IF left = None THEN None ELSE MinOf(left, t)

\* The ticks POLAddTime takes so many milliseconds for.  What it makes of a
\* negative number is its own affair: a deadline gone by, or one very far.
Ticks(ms) == IF ms >= 0 THEN {ms * MS} ELSE {0, MaxInt * MS}

\* JABCPolTimer: an answer below zero removes the timer.
Answered(ms) == IF ms < 0 THEN HOUR ELSE ms

\* What the milliseconds a timer callback returns make of the heap entry: an
\* entry dropped meanwhile (pol.untimer) stays dropped.
Rescheduled(left, ms) == IF left = None \/ ms >= HOUR THEN None ELSE ms * MS

UserTurn == turn \in {"script", "cb", "fd", "usercb"}

WheelTypeOK ==
    /\ Live \subseteq Ids
    /\ tw \in [Live -> [due : Int, period : Nat]]
    /\ twId \in 1 .. MaxId + 1
    /\ twOn \in BOOLEAN
    /\ timer \in {"none", "wheel", "user"}
    /\ polLeft \in Nat \cup {None}
    /\ fds \in BOOLEAN
    /\ stopped \in BOOLEAN
    /\ turn \in {"script", "poll", "tick", "cb", "fd", "usercb", "out", "done"}
    /\ batch \subseteq Ids
    /\ cur \in Ids \cup {None}
    /\ cleared \subseteq Ids
    /\ spent \subseteq Ids
    /\ upset \in {"no", "long", "other"}

WheelInit ==
    /\ tw = [i \in {} |-> [due |-> 0, period |-> 0]]
    /\ twId = 1
    /\ twOn = FALSE
    /\ timer = "none"
    /\ polLeft = None
    /\ fds \in BOOLEAN
    /\ stopped = FALSE
    /\ turn = "script"
    /\ batch = {}
    /\ cur = None
    /\ cleared = {}
    /\ spent = {}
    /\ upset = "no"

-----------------------------------------------------------------------------
(* The calls a program makes, from the script or from any callback.        *)

\* POLTrackTime, then POLAddTime(ms).  Where POL puts the deadline of a new
\* timer is its own affair: any point up to MaxFirst.
ArmFresh(t) == \E first \in 0 .. MaxFirst : polLeft' = Sooner(first, t)

twArm(ms) ==
    \E t \in Ticks(ms) :
        \/ /\ ~twOn
           /\ twOn' = TRUE
           /\ timer' = "wheel"
           /\ ArmFresh(t)
        \/ /\ twOn
           /\ polLeft' = Sooner(polLeft, t)
           /\ UNCHANGED <<twOn, timer>>

NextId == twId + 1

Entered(delay, period) ==
    [i \in Live \cup {twId} |->
        IF i = twId THEN [due |-> delay, period |-> period] ELSE tw[i]]

\* twTick asks for so many milliseconds that POL removes the timer.
TooLong(delay) == AtLeast1(CeilMs(delay)) >= HOUR

Register(delay, period) ==
    /\ UserTurn
    /\ twId \in Ids
    /\ tw' = Entered(delay, period)
    /\ twId' = NextId
    /\ twArm(TruncMs(delay))
    /\ upset' = IF upset = "no" /\ TooLong(delay) THEN "long" ELSE upset
    /\ UNCHANGED <<fds, stopped, turn, batch, cur, cleared, spent>>

\* setTimeout(fn, ms), and setImmediate(fn) when the delay is 0.
setTimeout(d) == Register(d, 0)

\* setInterval(fn, ms): Math.max(1, ms).
setInterval(d) == LET p == IF d < MS THEN MS ELSE d IN Register(p, p)

\* clearTimeout and clearInterval: TW.delete(id), and nothing else: neither
\* the tick's `due' array nor the pol timer hears of it.
clearTimeout(i) ==
    /\ UserTurn
    /\ i \in Live
    /\ tw' = [j \in Live \ {i} |-> tw[j]]
    /\ cleared' = cleared \cup {i}
    /\ UNCHANGED <<twId, twOn, timer, polLeft, fds, stopped, turn, batch, cur,
                   spent, upset>>

\* pol.every(ms, fn) or pol.after(ms, fn), on the program's own account: the
\* single `timer' variable is overwritten whoever owned it.
polEvery ==
    /\ UserTurn
    /\ timer' = "user"
    /\ polLeft' \in 0 .. MaxFirst
    /\ upset' = "other"
    /\ UNCHANGED <<wheel, fds, stopped, turn>>

polUntimer ==
    /\ UserTurn
    /\ timer' = "none"
    /\ polLeft' = None
    /\ upset' = "other"
    /\ UNCHANGED <<wheel, fds, stopped, turn>>

\* pol.stop(), from a callback.
polStop ==
    /\ turn \in {"cb", "usercb", "fd"}
    /\ stopped' = TRUE
    /\ upset' = "other"
    /\ UNCHANGED <<wheel, timer, polLeft, fds, turn>>

\* pol.init(), outside the loop: the one call that clears the sticky stop.
polInit ==
    /\ turn \in {"script", "out"}
    /\ upset' = "other"
    /\ timer' = "none"
    /\ polLeft' = None
    /\ fds' = FALSE
    /\ stopped' = FALSE
    /\ turn' = "script"
    /\ UNCHANGED wheel

-----------------------------------------------------------------------------
(* The loop.                                                               *)

\* The script returns (or calls pol.run): main drives the loop.
run ==
    /\ turn = "script"
    /\ turn' = "poll"
    /\ UNCHANGED <<wheel, timer, polLeft, fds, stopped, upset>>

\* POLLoop returns when stopped or when nothing is tracked any more.
LoopEnds ==
    /\ turn = "poll"
    /\ stopped \/ (polLeft = None /\ ~fds)
    /\ turn' = IF stopped THEN "out" ELSE "done"
    /\ UNCHANGED <<wheel, timer, polLeft, fds, stopped, upset>>

\* Some fd handler runs; ready timers go first.
FdReady ==
    /\ turn = "poll" /\ ~stopped
    /\ fds
    /\ polLeft # 0
    /\ turn' = "fd"
    /\ UNCHANGED <<wheel, timer, polLeft, fds, stopped, upset>>

FdReturns ==
    /\ turn = "fd"
    /\ turn' = "poll"
    /\ fds' \in BOOLEAN      \* it keeps its fd, or drops the last one
    /\ UNCHANGED <<wheel, timer, polLeft, stopped, upset>>

\* Mutant: a timer due right now is not due.
Due_Strict == {i \in Live : tw[i].due < 0}

Due == {i \in Live : tw[i].due <= 0}

\* The deadline passed and pol._timer calls the wheel: twTick collects `due'.
twTick ==
    /\ turn = "poll" /\ ~stopped
    /\ polLeft = 0
    /\ timer = "wheel"
    /\ turn' = "tick"
    /\ batch' = Due
    /\ UNCHANGED <<tw, twId, twOn, timer, polLeft, fds, stopped, cur,
                   cleared, spent, upset>>

\* Mutant: a one-shot stays in the wheel.
Rearmed_KeepsOneShot(i) ==
    IF i \notin Live THEN tw
    ELSE [tw EXCEPT ![i].due = tw[i].period]

\* Mutant: the re-arming writes the entry back even if it was cleared.
Rearmed_Reinserts(i) ==
    IF i \notin Live
    THEN [j \in Live \cup {i} |->
            IF j = i THEN [due |-> MS, period |-> MS] ELSE tw[j]]
    ELSE IF tw[i].period > 0
         THEN [tw EXCEPT ![i].due = tw[i].period]
         ELSE [j \in Live \ {i} |-> tw[j]]

\* An interval is due again one period from now; a one-shot leaves the Map.
\* The entry of a timer cleared meanwhile is an orphan: nothing to see.
Rearmed(i) ==
    IF i \notin Live THEN tw
    ELSE IF tw[i].period > 0
         THEN [tw EXCEPT ![i].due = tw[i].period]
         ELSE [j \in Live \ {i} |-> tw[j]]

\* One round of the loop over `due': re-arm or delete, then call fn.
Fire(i) ==
    /\ turn = "tick"
    /\ i \in batch
    /\ \A j \in batch : i <= j
    /\ batch' = batch \ {i}
    /\ cur' = i
    /\ turn' = "cb"
    /\ tw' = Rearmed(i)
    /\ spent' = IF i \in Live /\ tw[i].period = 0 THEN spent \cup {i} ELSE spent
    /\ UNCHANGED <<twId, twOn, timer, polLeft, fds, stopped, cleared, upset>>

Returns ==
    /\ turn = "cb"
    /\ cur' = None
    /\ turn' = "tick"
    /\ UNCHANGED <<tw, twId, twOn, timer, polLeft, fds, stopped, batch, cleared,
                   spent, upset>>

\* A callback throws: JABCPolCall stops the loop.  From a timer callback the
\* rest of twTick is lost and JABCPolTimer answers 3600000, at which POL
\* removes the timer; the bundle's `timer' and twOn are not reached.
Throws ==
    /\ turn \in {"cb", "usercb", "fd"}
    /\ upset' = "other"
    /\ cur' = None
    /\ batch' = {}
    /\ turn' = "poll"
    /\ stopped' = TRUE
    /\ polLeft' = IF turn = "fd" THEN polLeft ELSE Rescheduled(polLeft, HOUR)
    /\ UNCHANGED <<tw, twId, twOn, timer, fds, cleared, spent>>

WheelEmpty == Live = {}

\* The end of twTick, seen through pol._timer: no timer left, remove the pol
\* timer; otherwise come back for the soonest one, through `| 0'.
TickEmpty ==
    /\ turn = "tick" /\ batch = {}
    /\ WheelEmpty
    /\ twOn' = FALSE
    /\ timer' = "none"
    /\ polLeft' = Rescheduled(polLeft, HOUR + 1)
    /\ turn' = "poll"
    /\ UNCHANGED <<tw, twId, fds, stopped, batch, cur, cleared, spent, upset>>

TickAgain ==
    /\ turn = "tick" /\ batch = {}
    /\ ~WheelEmpty
    /\ \E soon \in {tw[i].due : i \in Live} :
         /\ \A i \in Live : soon <= tw[i].due
         /\ LET ms == Int32(AtLeast1(CeilMs(soon))) IN
              /\ timer' = IF ms >= HOUR THEN "none" ELSE timer
              /\ polLeft' = Rescheduled(polLeft, Answered(ms))
    /\ turn' = "poll"
    /\ UNCHANGED <<tw, twId, twOn, fds, stopped, batch, cur, cleared, spent, upset>>

\* The program's own timer handler runs and names its next period, a
\* millisecond or never; without a handler the timer removes itself.
UserTick ==
    /\ turn = "poll" /\ ~stopped
    /\ polLeft = 0
    /\ timer # "wheel"
    /\ \/ /\ timer = "user"
          /\ turn' = "usercb"
          /\ UNCHANGED polLeft
       \/ /\ timer = "none"
          /\ polLeft' = Rescheduled(polLeft, HOUR + 1)
          /\ UNCHANGED turn
    /\ UNCHANGED <<wheel, timer, fds, stopped, upset>>

UserTickReturns ==
    /\ turn = "usercb"
    /\ \E ms \in {1, HOUR + 1} :
         /\ timer' = IF ms >= HOUR THEN "none" ELSE timer
         /\ polLeft' = Rescheduled(polLeft, ms)
    /\ turn' = "poll"
    /\ UNCHANGED <<wheel, fds, stopped, upset>>

\* Time passes, during callbacks too.
Advance ==
    /\ tw' = [i \in Live |->
                [tw[i] EXCEPT !.due = IF @ > -MaxLate THEN @ - 1 ELSE @]]
    /\ polLeft' = IF polLeft > 0 THEN polLeft - 1 ELSE polLeft
    /\ UNCHANGED <<twId, twOn, timer, fds, stopped, turn, batch, cur, cleared, spent, upset>>

-----------------------------------------------------------------------------

UserStep ==
    \/ \E d \in Delays : setTimeout(d) \/ setInterval(d)
    \/ \E i \in Ids : clearTimeout(i)
    \/ polEvery \/ polUntimer \/ polStop \/ polInit

LoopStep ==
    \/ run \/ LoopEnds \/ FdReturns
    \/ twTick \/ (\E i \in Ids : Fire(i)) \/ Returns \/ TickEmpty \/ TickAgain
    \/ UserTick \/ UserTickReturns

WheelNext == UserStep \/ LoopStep \/ FdReady \/ Throws \/ Advance

\* The single thread goes on, callbacks return, time passes.  Nothing obliges
\* a program to call anything, an fd to get ready, or a callback to throw.
WheelFairness == WF_wheelVars(LoopStep) /\ WF_wheelVars(Advance)

WheelSpec == WheelInit /\ [][WheelNext]_wheelVars /\ WheelFairness

-----------------------------------------------------------------------------
(* Properties.                                                             *)

\* Whenever no tick is under way, a live timer is backed by POL's timer: the
\* wheel owns it and its deadline is at most a millisecond (the rounding of
\* twTick and twArm) past the timer's due time.  Otherwise the loop would
\* oversleep, or never wake, for a timer somebody is waiting for.
WheelArmed ==
    upset = "no" /\ turn \in {"script", "poll", "fd"} =>
        \A i \in Live : /\ timer = "wheel"
                        /\ polLeft # None
                        /\ polLeft <= MaxOf0(tw[i].due) + MS

\* A timer that was cleared, or a one-shot that was called, is out of the
\* wheel for good: neither the re-arming of an interval around its own
\* callback nor a late delete brings it back, whatever else happens.
DeadStayDead == (cleared \cup spent) \cap Live = {}

\* The callback of a one-shot timer is called at most once, stops, throws and
\* re-entries notwithstanding.
FiresOnce == [][cur' \notin {cur, None} => cur' \notin spent]_wheelVars

\* Every live timer is eventually called or cleared.
EventuallyFires ==
    \A i \in Ids : i \in Live ~> (i \notin Live \/ cur = i \/ upset # "no")
=============================================================================
