--------------------------------- MODULE Pol ---------------------------------
(***************************************************************************)
(* The pol event loop of pol.cpp: the fd -> handler table and the routers  *)
(* of the JS bundle, the C trampoline, and pol.run / stop / init, over the *)
(* POL poller (external: a set of tracked fds, a sticky stop flag, a loop  *)
(* that calls back).  Handlers run on the loop's stack and may call        *)
(* anything, pol.run included.  Interest masks and the timer are left to   *)
(* Socket and Timers.                                                      *)
(*                                                                         *)
(* Each registration gets its own handler number, so that it can be told   *)
(* which handler an event reaches.                                         *)
(***************************************************************************)
EXTENDS Integers, Sequences, FiniteSets

CONSTANTS
    Fds,       \* file descriptors
    MaxFds,    \* pollers POL has room for
    MaxReg,    \* bound: registrations in one behaviour
    MaxThrow,  \* bound: exceptions thrown by handlers
    MaxRun     \* bound: pol.run calls on the stack

ASSUME ConstantsAssumption ==
    /\ Fds \subseteq Nat \ {0}
    /\ MaxFds \in Nat /\ MaxReg \in Nat /\ MaxThrow \in Nat /\ MaxRun \in Nat

VARIABLES
    table,    \* the JS Map: fd -> handler number, None if absent
    dflt,     \* pol.default: Default if set, else None
    tracked,  \* POL: the fds with a poller
    stopped,  \* POL: POLStop was called; only POLInit resets it
    running,  \* JABC_POL_RUNNING
    exc,      \* JABC_POL_EXC: the stashed exception, None if NULL
    stack,    \* the frames above the script: a POLLoop, waiting ("loop") or
              \* delivering what one poll(2) found ("round"), or a handler
    regs,     \* registrations made so far
    thrown,   \* exceptions thrown so far
    claim,    \* history: fd -> the handler its watcher counts on
    out,      \* history: what the last pol.run to return threw
    said,     \* history: for each depth of nesting, what the handlers of the
              \* POLLoop there have thrown
    freed,    \* history: POLFree happened with a POLLoop on the stack
    loose,    \* history: fds whose entry a throw or a refused watch left behind
    meddled   \* history: pol.init was refused, or a handler watched its own
              \* fd anew

vars == <<table, dflt, tracked, stopped, running, exc, stack, regs, thrown,
          claim, out, said, freed, loose, meddled>>

None == 0
Default == -1

Handlers == 1 .. MaxReg
Throws == 1 .. MaxThrow
LoopFrame(k) == [kind |-> k, fd |-> None, h |-> None]
Frames ==
    {LoopFrame("loop"), LoopFrame("round")} \cup
    [kind : {"handler"}, fd : Fds, h : Handlers \cup {Default}]

TypeOK ==
    /\ table \in [Fds -> Handlers \cup {None}]
    /\ dflt \in {None, Default}
    /\ tracked \subseteq Fds
    /\ stopped \in BOOLEAN /\ running \in BOOLEAN /\ freed \in BOOLEAN
    /\ exc \in Throws \cup {None}
    /\ stack \in Seq(Frames)
    /\ regs \in 0 .. MaxReg /\ thrown \in 0 .. MaxThrow
    /\ claim \in [Fds -> Handlers \cup {None, Default}]
    /\ out \in Throws \cup {None}
    /\ said \in [1 .. MaxRun -> SUBSET Throws]
    /\ loose \subseteq Fds /\ meddled \in BOOLEAN

Init ==
    /\ table = [f \in Fds |-> None]
    /\ dflt = None
    /\ tracked = {}
    /\ stopped = FALSE /\ running = FALSE /\ freed = FALSE
    /\ exc = None
    /\ stack = <<>>
    /\ regs = 0 /\ thrown = 0
    /\ claim = [f \in Fds |-> None]
    /\ out = None
    /\ said = [d \in 1 .. MaxRun |-> {}]
    /\ loose = {} /\ meddled = FALSE

Top == IF stack = <<>> THEN LoopFrame("script") ELSE stack[Len(stack)]
Pop == SubSeq(stack, 1, Len(stack) - 1)
Loops == {i \in 1 .. Len(stack) : stack[i].kind # "handler"}
Depth == Cardinality(Loops)

\* JS code is running: the script or a handler, never the loop itself.
UserTurn == Top.kind \in {"script", "handler"} /\ ~freed
Handling(f) == \E i \in 1 .. Len(stack) : stack[i].fd = f

-----------------------------------------------------------------------------
(* The calls of the program.                                               *)

\* POLTrackEvents: update the poller, or add one while there is room.
CanTrack(f) == f \in tracked \/ Cardinality(tracked) < MaxFds

\* pol.watch(fd, events, fn): the table entry first, then the poller, which
\* may be refused with an exception.
watch(f) ==
    /\ UserTurn
    /\ regs < MaxReg
    /\ regs' = regs + 1
    /\ table' = [table EXCEPT ![f] = regs + 1]
    /\ IF CanTrack(f)
       THEN /\ tracked' = tracked \cup {f}
            /\ claim' = [claim EXCEPT ![f] = regs + 1]
            /\ loose' = loose \ {f}
       ELSE /\ loose' = loose \cup {f}
            /\ UNCHANGED <<tracked, claim>>
    /\ meddled' = (meddled \/ Handling(f))
    /\ UNCHANGED <<dflt, stopped, running, exc, stack, thrown, out, said,
                   freed>>

\* pol.watch(fd, events): without a handler of its own the fd is for
\* pol.default, or for the handler it already has.
watchDefault(f) ==
    /\ UserTurn
    /\ CanTrack(f)
    /\ tracked' = tracked \cup {f}
    /\ claim' = [claim EXCEPT ![f] = IF @ = None THEN Default ELSE @]
    /\ UNCHANGED <<table, dflt, stopped, running, exc, stack, regs, thrown, out,
                   said, freed, loose, meddled>>

\* Mutant: only the poller is dropped.
unwatch_KeepsEntry(f) ==
    /\ UserTurn
    /\ tracked' = tracked \ {f}
    /\ claim' = [claim EXCEPT ![f] = None]
    /\ UNCHANGED <<table, dflt, stopped, running, exc, stack, regs, thrown, out,
                   said, freed, loose, meddled>>

unwatch(f) ==
    /\ UserTurn
    /\ table' = [table EXCEPT ![f] = None]
    /\ tracked' = tracked \ {f}
    /\ claim' = [claim EXCEPT ![f] = None]
    /\ loose' = loose \ {f}
    /\ UNCHANGED <<dflt, stopped, running, exc, stack, regs, thrown, out, said,
                   freed, meddled>>

\* pol.default = fn, or null.
setDefault ==
    /\ UserTurn
    /\ dflt' \in {None, Default}
    /\ UNCHANGED <<table, tracked, stopped, running, exc, stack, regs, thrown,
                   claim, out, said, freed, loose, meddled>>

\* pol.stop()
stop ==
    /\ UserTurn
    /\ stopped' = TRUE
    /\ UNCHANGED <<table, dflt, tracked, running, exc, stack, regs, thrown,
                   claim, out, said, freed, loose, meddled>>

\* Mutant: the re-entrancy check is dropped.
InitRefused_Never == FALSE

InitRefused == running

\* pol.init(): the bundle forgets every handler, and only then does the C side
\* refuse (an exception) or replace POL's heap.
init ==
    /\ UserTurn
    /\ table' = [f \in Fds |-> None]
    /\ dflt' = None
    /\ IF InitRefused
       THEN UNCHANGED <<tracked, stopped, claim, freed>>
       ELSE /\ tracked' = {}
            /\ stopped' = FALSE
            /\ claim' = [f \in Fds |-> None]
            /\ freed' = (Loops # {})
    /\ loose' = {}
    /\ meddled' = (meddled \/ InitRefused)
    /\ UNCHANGED <<running, exc, stack, regs, thrown, out, said>>

\* pol.run(ns)
run ==
    /\ UserTurn
    /\ Depth < MaxRun
    /\ running' = TRUE
    /\ stack' = Append(stack, LoopFrame("loop"))
    /\ said' = [said EXCEPT ![Depth + 1] = {}]
    /\ UNCHANGED <<table, dflt, tracked, stopped, exc, regs, thrown, claim, out,
                   freed, loose, meddled>>

-----------------------------------------------------------------------------
(* The loop and its two routers.                                           *)

Routed(f) == IF table[f] # None THEN table[f] ELSE dflt

\* poll(2) found something ready.
newRound ==
    /\ Top.kind = "loop" /\ ~stopped
    /\ tracked # {}
    /\ stack' = Append(Pop, LoopFrame("round"))
    /\ UNCHANGED <<table, dflt, tracked, stopped, running, exc, regs, thrown,
                   claim, out, said, freed, loose, meddled>>

\* pol._fd looks the handler of a ready fd up and calls it.  A stop need not
\* take effect before the end of the round.
dispatch(f) ==
    /\ Top.kind = "round"
    /\ f \in tracked
    /\ Routed(f) # None
    /\ stack' = Append(stack, [kind |-> "handler", fd |-> f, h |-> Routed(f)])
    /\ UNCHANGED <<table, dflt, tracked, stopped, running, exc, regs, thrown,
                   claim, out, said, freed, loose, meddled>>

\* Nobody claims the fd: drop it.
dropUnclaimed(f) ==
    /\ Top.kind = "round"
    /\ f \in tracked
    /\ Routed(f) = None
    /\ table' = [table EXCEPT ![f] = None]
    /\ tracked' = tracked \ {f}
    /\ claim' = [claim EXCEPT ![f] = IF @ = Default THEN None ELSE @]
    /\ loose' = loose \ {f}
    /\ UNCHANGED <<dflt, stopped, running, exc, stack, regs, thrown, out, said,
                   freed, meddled>>

roundEnds ==
    /\ Top.kind = "round"
    /\ stack' = Append(Pop, LoopFrame("loop"))
    /\ UNCHANGED <<table, dflt, tracked, stopped, running, exc, regs, thrown,
                   claim, out, said, freed, loose, meddled>>

\* The handler returns a mask that keeps the fd, if it is still there.
returnMask ==
    /\ Top.kind = "handler" /\ ~freed
    /\ stack' = Pop
    /\ UNCHANGED <<table, dflt, tracked, stopped, running, exc, regs, thrown,
                   claim, out, said, freed, loose, meddled>>

\* Mutant: the whole table is cleared.
Released_All(f) == [g \in Fds |-> None]

\* The handler is released: whichever handler the fd has by now.
Released(f) == [table EXCEPT ![f] = None]

\* The handler returns 0: the router and POL drop the fd, by its number.
returnZero ==
    /\ Top.kind = "handler" /\ ~freed
    /\ LET f == Top.fd IN
         /\ table' = Released(f)
         /\ tracked' = tracked \ {f}
         /\ claim' = [claim EXCEPT ![f] = IF @ \in {Top.h, Default} THEN None
                                           ELSE @]
    /\ stack' = Pop
    /\ loose' = loose \ {Top.fd}
    /\ UNCHANGED <<dflt, stopped, running, exc, regs, thrown, out, said, freed, meddled>>

\* Mutant: the last exception is kept.
Stashed_Last(e) == e

\* JABCPolCall keeps the first throw.
Stashed(e) == IF exc = None THEN e ELSE exc

\* The handler throws: stash, stop, and a trampoline that answers 0.
throw ==
    /\ Top.kind = "handler" /\ ~freed
    /\ thrown < MaxThrow
    /\ thrown' = thrown + 1
    /\ exc' = Stashed(thrown + 1)
    /\ said' = [said EXCEPT ![Depth] = @ \cup {thrown + 1}]
    /\ stopped' = TRUE
    /\ tracked' = tracked \ {Top.fd}
    /\ claim' = [claim EXCEPT ![Top.fd] = None]
    /\ stack' = Pop
    /\ loose' = loose \cup {Top.fd}
    /\ UNCHANGED <<table, dflt, running, regs, out, freed, meddled>>

\* POLLoop returns: stopped, timed out, or nothing left to wait for; pol.run
\* re-throws what was stashed.
runReturns ==
    /\ Top.kind = "loop"
    /\ running' = FALSE
    /\ out' = exc
    /\ exc' = None
    /\ stack' = Pop
    /\ UNCHANGED <<table, dflt, tracked, stopped, regs, thrown, claim, said,
                   freed, loose, meddled>>

-----------------------------------------------------------------------------

Next ==
    \/ \E f \in Fds : \/ watch(f) \/ watchDefault(f) \/ unwatch(f)
                      \/ dispatch(f) \/ dropUnclaimed(f)
    \/ setDefault \/ stop \/ init \/ run \/ newRound \/ roundEnds
    \/ returnMask \/ returnZero \/ throw \/ runReturns

Spec == Init /\ [][Next]_vars

-----------------------------------------------------------------------------
(* Properties.                                                             *)

\* Every registration somebody counts on is in place: a call of pol takes away
\* only what it was asked to, a refused one nothing.
ClaimAlwaysHonoured ==
    \A f \in Fds : claim[f] # None =>
        /\ f \in tracked
        /\ claim[f] \in Handlers => table[f] = claim[f]

\* JABC_POL_RUNNING is up whenever a POLLoop is on the stack, so pol.init
\* cannot free the heap under a running loop.
NeverFreedUnderLoop == ~freed

\* A handler that somebody counts on is the one in the table, and its fd is
\* tracked, as long as no pol.init was refused and no handler watched its own
\* fd anew: no other call takes away a registration it was not asked to.
ClaimHonoured == ~meddled => ClaimAlwaysHonoured

\* An event never reaches the handler of an earlier registration of the fd,
\* except one left behind that way.
NoStaleHandler ==
    [][\A f \in Fds : dispatch(f) => \/ Routed(f) \in {claim[f], dflt}
                                     \/ f \in loose]_vars

\* pol.run throws to its caller the first exception of the handlers that its
\* own loop called, and returns if they threw none.
FirstThrowSurfaces ==
    [][runReturns => IF said[Depth] = {}
                     THEN out' = None
                     ELSE /\ out' \in said[Depth]
                          /\ \A e \in said[Depth] : out' <= e]_vars
=============================================================================
