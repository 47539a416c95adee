--------------------------------- MODULE Maps ---------------------------------
(***************************************************************************)
(* Memory mappings handed to JavaScript (io.cpp: io._mmap, io._ram,        *)
(* io._munmap, the finalizers and the pin counters; cont.cpp: abc.close).  *)
(*                                                                         *)
(* A wrapper is the typed array that owns a mapping.  "slot" mappings      *)
(* ("rw" and "c") also book an fd and its entry of FILE_WANT_BUFS; "ro"    *)
(* and "ram" mappings have an address only.  Addresses and fds are reused  *)
(* by the kernel as soon as they are free, while the garbage collector     *)
(* runs the finalizer of a dead wrapper whenever it likes: the generation  *)
(* packed into the finalizer's context is what tells the two apart.        *)
(***************************************************************************)
EXTENDS Integers, FiniteSets

CONSTANTS
    Bases,    \* addresses mmap may return
    Fds,      \* file descriptors (slots of FILE_WANT_BUFS)
    MaxWrap,  \* bound: _mmap and _ram calls in one behaviour
    PIN_MAPS, \* JABC_PIN_MAPS: mappings tolerated before a collection
    PIN_FDS   \* JABC_PIN_FDS: booked fds tolerated before a collection

ASSUME ConstantsAssumption ==
    /\ Bases \subseteq Nat \ {0}
    /\ Fds \subseteq Nat \ {0}
    /\ MaxWrap \in Nat
    /\ PIN_MAPS \in Nat \ {0}
    /\ PIN_FDS \in Nat \ {0}

None == 0
Wraps == 1 .. MaxWrap
Kinds == {"slot", "ro", "ram"}

VARIABLES
    wrap,     \* the wrappers: [kind, base, fd, gen, st]; st is "none", "new"
              \* (mapped, not yet wrapped), "live", "dead" (unreachable, not
              \* yet finalized) or "gone"
    next,     \* the next wrapper
    slot,     \* FILE_WANT_BUFS: fd -> the mapped base, None if not booked
    gen,      \* JABC_MAP_GEN: fd -> generation
    owner,    \* the kernel's map: base -> the wrapper mapped there, or None
    pinMap, pinFd,    \* JABC_PIN_MAP, JABC_PIN_FD
    mapMark, fdMark,  \* JABC_PIN_MAP_MARK, JABC_PIN_FD_MARK
    pc,       \* "js"; "gc": inside a forced collection; "map": past the
              \* sweep; "wrap": mapped, the engine is making the typed array
    kind,     \* what the _mmap or _ram call under way maps
    raw,      \* history: the program called io._munmap itself
    left      \* history: the fds the last forced collection left pinned

vars == <<wrap, next, slot, gen, owner, pinMap, pinFd, mapMark, fdMark, pc,
          kind, raw, left>>

States == {"none", "new", "live", "dead", "gone"}
Wrapper == [kind : Kinds, base : Bases \cup {None}, fd : Fds \cup {None},
            gen : Nat, st : States]

TypeOK ==
    /\ wrap \in [Wraps -> Wrapper]
    /\ next \in 1 .. MaxWrap + 1
    /\ slot \in [Fds -> Bases \cup {None}]
    /\ gen \in [Fds -> Nat]
    /\ owner \in [Bases -> Wraps \cup {None}]
    /\ pinMap \in Nat /\ pinFd \in Nat
    /\ mapMark \in Nat /\ fdMark \in Nat
    /\ pc \in {"js", "gc", "map", "wrap"}
    /\ kind \in Kinds
    /\ raw \in BOOLEAN
    /\ left \in Nat

Init ==
    /\ wrap = [w \in Wraps |-> [kind |-> "ram", base |-> None, fd |-> None,
                                gen |-> 0, st |-> "none"]]
    /\ next = 1
    /\ slot = [f \in Fds |-> None]
    /\ gen = [f \in Fds |-> 0]
    /\ owner = [b \in Bases |-> None]
    /\ pinMap = 0 /\ pinFd = 0
    /\ mapMark = PIN_MAPS /\ fdMark = PIN_FDS
    /\ pc = "js"
    /\ kind = "ram"
    /\ raw = FALSE
    /\ left = 0

In(st) == {w \in Wraps : wrap[w].st = st}

-----------------------------------------------------------------------------
(* Creating a mapping.                                                     *)

SweepDue == pinMap >= mapMark \/ pinFd >= fdMark

\* Mutant: one descriptor late.
Forced_Late == SweepDue /\ pinFd > PIN_FDS

Forced == SweepDue /\ pinFd >= PIN_FDS

\* JABCPinSweep: below both marks nothing happens; above the fd floor the
\* collection is forced, and the marks are set from what it left.
sweep(k) ==
    /\ pc = "js"
    /\ next \in Wraps
    /\ kind' = k
    /\ LET priced == SweepDue /\ ~Forced IN
         /\ pc' = IF Forced THEN "gc" ELSE "map"
         /\ mapMark' = IF priced THEN pinMap + PIN_MAPS ELSE mapMark
         /\ fdMark' = IF priced THEN pinFd + PIN_FDS ELSE fdMark
    /\ UNCHANGED <<wrap, next, slot, gen, owner, pinMap, pinFd, raw, left>>

\* The forced collection is over; it need not have found every dead wrapper.
gcEnds ==
    /\ pc = "gc"
    /\ pc' = "map"
    /\ mapMark' = pinMap + PIN_MAPS
    /\ fdMark' = pinFd + PIN_FDS
    /\ left' = pinFd
    /\ UNCHANGED <<wrap, next, slot, gen, owner, pinMap, pinFd, kind, raw>>

\* JABCMapCtx: a new generation of the slot.
Bumped(f) == [gen EXCEPT ![f] = @ + 1]

\* Mutant: the fd of a slotted map is not counted.
Taken_NoFd(k) == 0

\* JABCPinTake(fd)
Taken(k) == IF k = "slot" THEN 1 ELSE 0

\* JABCPinDrop never counts below zero.
Dropped(n, k) == IF n > 0 THEN n - k ELSE n

\* FILEMapRW / FILEMapCreate book an fd and a slot, of a size that is not too
\* big; the finalizer's context is made before the engine is called.
mapSlot(f, b) ==
    /\ pc = "map" /\ kind = "slot"
    /\ slot[f] = None /\ owner[b] = None
    /\ slot' = [slot EXCEPT ![f] = b]
    /\ gen' = Bumped(f)
    /\ owner' = [owner EXCEPT ![b] = next]
    /\ wrap' = [wrap EXCEPT ![next] = [kind |-> "slot", base |-> b, fd |-> f,
                                       gen |-> gen'[f], st |-> "new"]]
    /\ pc' = "wrap"
    /\ UNCHANGED <<next, pinMap, pinFd, mapMark, fdMark, kind, raw, left>>

\* FILEMapOnce, or the anonymous mmap of io._ram: an address, no fd.
mapPlain(b) ==
    /\ pc = "map" /\ kind # "slot"
    /\ owner[b] = None
    /\ owner' = [owner EXCEPT ![b] = next]
    /\ wrap' = [wrap EXCEPT ![next] = [kind |-> kind, base |-> b, fd |-> None,
                                       gen |-> 0, st |-> "new"]]
    /\ pc' = "wrap"
    /\ UNCHANGED <<next, slot, gen, pinMap, pinFd, mapMark, fdMark, kind, raw,
                   left>>

\* Nothing could be mapped, the file is empty, or the mapping was too big and
\* was undone at once: no wrapper owns anything.
mapFails ==
    /\ pc = "map"
    /\ next' = next + 1
    /\ pc' = "js"
    /\ UNCHANGED <<wrap, slot, gen, owner, pinMap, pinFd, mapMark, fdMark,
                   kind, raw, left>>

\* The typed array owns the mapping from here on.
wrapped ==
    /\ pc = "wrap"
    /\ wrap' = [wrap EXCEPT ![next].st = "live"]
    /\ next' = next + 1
    /\ pinMap' = pinMap + 1
    /\ pinFd' = pinFd + Taken(kind)
    /\ pc' = "js"
    /\ UNCHANGED <<slot, gen, owner, mapMark, fdMark, kind, raw, left>>

\* The engine throws, or there is no memory for the length: undone.
wrapFails ==
    /\ pc = "wrap"
    /\ wrap' = [wrap EXCEPT ![next].st = "gone"]
    /\ next' = next + 1
    /\ owner' = [owner EXCEPT ![wrap[next].base] = None]
    /\ slot' = [f \in Fds |-> IF kind = "slot" /\ f = wrap[next].fd THEN None
                              ELSE slot[f]]
    /\ pc' = "js"
    /\ UNCHANGED <<gen, pinMap, pinFd, mapMark, fdMark, kind, raw, left>>

-----------------------------------------------------------------------------
(* Releasing it.                                                           *)

\* FILEUnMapBase(base): release the slotted mapping at this address, if any.
UnMapBase(b) ==
    IF \E f \in Fds : slot[f] = b
    THEN /\ slot' = [f \in Fds |-> IF slot[f] = b THEN None ELSE slot[f]]
         /\ owner' = [owner EXCEPT ![b] = None]
    ELSE UNCHANGED <<slot, owner>>

\* The program lets go of a container without closing it.
drop(w) ==
    /\ pc = "js"
    /\ wrap[w].st = "live"
    /\ wrap' = [wrap EXCEPT ![w].st = "dead"]
    /\ UNCHANGED <<next, slot, gen, owner, pinMap, pinFd, mapMark, fdMark, pc,
                   kind, raw, left>>

\* Mutant: abc.close releases the mapping without detaching the views first.
Detached_Not(w) == wrap

\* b.transfer(): the views go empty, the husk that keeps the finalizer is a
\* local of close.
Detached(w) == [wrap EXCEPT ![w].st = "dead"]

\* abc.close(c): detach, then flush, trim and release through the moved husk.
\* If the trim throws (the file is gone), the release waits for the collector.
close(w) ==
    /\ pc = "js"
    /\ wrap[w].st = "live"
    /\ wrap' = Detached(w)
    /\ \/ UnMapBase(wrap[w].base)
       \/ wrap[w].kind = "slot" /\ UNCHANGED <<slot, owner>>
    /\ UNCHANGED <<next, gen, pinMap, pinFd, mapMark, fdMark, pc, kind, raw,
                   left>>

\* io._munmap(view) called directly: the view stays as it was.
munmap(w) ==
    /\ pc = "js"
    /\ wrap[w].st = "live"
    /\ UnMapBase(wrap[w].base)
    /\ raw' = TRUE
    /\ UNCHANGED <<wrap, next, gen, pinMap, pinFd, mapMark, fdMark, pc, kind,
                   left>>

\* Mutant: the address alone identifies the mapping (the ABA this guards).
StillOwns_ByBase(w) == slot[wrap[w].fd] = wrap[w].base

\* Mutant: only an older generation is released.
StillOwns_Older(w) ==
    /\ slot[wrap[w].fd] = wrap[w].base
    /\ wrap[w].gen < gen[wrap[w].fd]

\* The test of JABCMapFree.
StillOwns(w) ==
    /\ slot[wrap[w].fd] = wrap[w].base
    /\ wrap[w].gen = gen[wrap[w].fd]

\* JABCMapFree: the collector finalizes a dead slotted wrapper.
reapSlot(w) ==
    /\ wrap[w].st = "dead" /\ wrap[w].kind = "slot"
    /\ wrap' = [wrap EXCEPT ![w].st = "gone"]
    /\ pinMap' = Dropped(pinMap, 1)
    /\ pinFd' = Dropped(pinFd, Taken("slot"))
    /\ IF StillOwns(w)
       THEN /\ slot' = [slot EXCEPT ![wrap[w].fd] = None]
            /\ owner' = [owner EXCEPT ![wrap[w].base] = None]
       ELSE UNCHANGED <<slot, owner>>
    /\ UNCHANGED <<next, gen, mapMark, fdMark, pc, kind, raw, left>>

\* JABCMapROFree, JABCRamFree: one munmap of the whole region.
reapPlain(w) ==
    /\ wrap[w].st = "dead" /\ wrap[w].kind # "slot"
    /\ wrap' = [wrap EXCEPT ![w].st = "gone"]
    /\ pinMap' = Dropped(pinMap, 1)
    /\ pinFd' = Dropped(pinFd, Taken(wrap[w].kind))
    /\ owner' = [owner EXCEPT ![wrap[w].base] = None]
    /\ UNCHANGED <<next, slot, gen, mapMark, fdMark, pc, kind, raw, left>>

-----------------------------------------------------------------------------

Next ==
    \/ \E k \in Kinds : sweep(k)
    \/ gcEnds \/ mapFails \/ wrapped \/ wrapFails
    \/ \E f \in Fds, b \in Bases : mapSlot(f, b)
    \/ \E b \in Bases : mapPlain(b)
    \/ \E w \in Wraps : \/ drop(w) \/ close(w) \/ munmap(w)
                        \/ reapSlot(w) \/ reapPlain(w)

Spec == Init /\ [][Next]_vars

-----------------------------------------------------------------------------
(* Properties.                                                             *)

\* A view the program can still reach points into its own mapping: no
\* finalizer, and no close of another container, ever unmaps it, however the
\* kernel reuses addresses and fds, in a program that leaves the raw call
\* io._munmap alone.
LiveIsMapped ==
    ~raw => \A w \in Wraps : wrap[w].st = "live" => owner[wrap[w].base] = w

\* A live "rw" or "c" container also keeps the fd slot it booked.
LiveKeepsSlot ==
    ~raw => \A w \in Wraps : wrap[w].st = "live" /\ wrap[w].kind = "slot" =>
                slot[wrap[w].fd] = wrap[w].base

\* Once the finalizer has run nothing of the mapping is left: no address
\* stays mapped, and no fd stays booked, for a wrapper that is gone.
NoLeak ==
    /\ \A b \in Bases : owner[b] # None => wrap[owner[b]].st # "gone"
    /\ \A f \in Fds : slot[f] # None => owner[slot[f]] # None

\* One take per wrapper handed out, one drop per finalizer: the counters are
\* the numbers of wrappers, and of slotted ones, not finalized yet, although
\* many of those were released long ago.
PinsExact ==
    LET held == In("live") \cup In("dead") IN
    /\ pinMap = Cardinality(held)
    /\ pinFd = Cardinality({w \in held : wrap[w].kind = "slot"})

\* Booked descriptors cannot run away: between two forced collections their
\* number grows by less than two floors, whatever the collector does on its own
\* and however marks are moved by the other counter.
SweptInTime == pinFd < left + 2 * PIN_FDS
=============================================================================
