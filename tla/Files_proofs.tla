---------------------------- MODULE Files_proofs ----------------------------
(***************************************************************************)
(* Proofs about the two file leaves that run code of the user or of the    *)
(* collector in the middle of their work: the memory mappings, for any     *)
(* number of addresses, fds and mappings and for every order in which the  *)
(* collector runs the finalizers; and io.readdir, for every tree of any    *)
(* size, all options and every answer of the callback.                     *)
(***************************************************************************)
EXTENDS Maps, Readdir, FiniteSetTheorems, SequenceTheorems, NaturalsInduction,
        WellFoundedInduction, TLAPS

-----------------------------------------------------------------------------
(***************************************************************************)
(* The mappings.                                                           *)
(***************************************************************************)

\* A call under way has a wrapper number to give out.
CallInv == pc # "js" => next \in Wraps

\* Moving a wrapper to another state leaves a table of wrappers.
LEMMA SetState ==
    ASSUME TypeOK, NEW w \in Wraps, NEW s \in States
    PROVE  [wrap EXCEPT ![w].st = s] \in [Wraps -> Wrapper]
<1>1. wrap \in [Wraps -> Wrapper]
  BY DEF TypeOK
<1>2. [wrap[w] EXCEPT !.st = s] \in Wrapper
  BY <1>1 DEF Wrapper
<1> QED BY <1>1, <1>2

\* A step keeps the types.
LEMMA TypeStep ==
    ASSUME TypeOK, CallInv, [Next]_vars
    PROVE  TypeOK' /\ CallInv'
<1> USE ConstantsAssumption DEF TypeOK, CallInv, Wraps
<1>1. CASE \E k \in Kinds : sweep(k)
  BY <1>1 DEF sweep
<1>2. CASE gcEnds
  BY <1>2 DEF gcEnds
<1>3. CASE mapFails
  BY <1>3 DEF mapFails
<1>4. CASE wrapped
  <2>1. wrap' \in [Wraps -> Wrapper]
    BY <1>4, SetState DEF wrapped, States
  <2> QED BY <1>4, <2>1 DEF wrapped, Taken
<1>5. CASE wrapFails
  <2>1. wrap' \in [Wraps -> Wrapper]
    BY <1>5, SetState DEF wrapFails, States
  <2>2. slot' \in [Fds -> Bases \cup {None}] /\ owner' \in [Bases -> Wraps \cup {None}]
    BY <1>5 DEF wrapFails
  <2> QED BY <1>5, <2>1, <2>2 DEF wrapFails
<1>6. ASSUME NEW f \in Fds, NEW b \in Bases, mapSlot(f, b)
      PROVE  TypeOK' /\ CallInv'
  BY <1>6 DEF mapSlot, Bumped, Wrapper, Kinds, States
<1>7. ASSUME NEW b \in Bases, mapPlain(b)
      PROVE  TypeOK' /\ CallInv'
  BY <1>7 DEF mapPlain, Wrapper, Kinds, States
<1>8. ASSUME NEW w \in Wraps, drop(w) \/ close(w) \/ munmap(w)
      PROVE  TypeOK' /\ CallInv'
  <2>1. wrap' \in [Wraps -> Wrapper]
    BY <1>8, SetState DEF drop, close, munmap, Detached, States
  <2>2. slot' \in [Fds -> Bases \cup {None}] /\ owner' \in [Bases -> Wraps \cup {None}]
    BY <1>8 DEF drop, close, munmap, UnMapBase
  <2> QED BY <1>8, <2>1, <2>2 DEF drop, close, munmap
<1>9. ASSUME NEW w \in Wraps, reapSlot(w) \/ reapPlain(w)
      PROVE  TypeOK' /\ CallInv'
  <2>1. wrap' \in [Wraps -> Wrapper]
    BY <1>9, SetState DEF reapSlot, reapPlain, States
  <2>2. slot' \in [Fds -> Bases \cup {None}] /\ owner' \in [Bases -> Wraps \cup {None}]
    BY <1>9 DEF reapSlot, reapPlain
  <2>3. pinMap' \in Nat /\ pinFd' \in Nat
    BY <1>9 DEF reapSlot, reapPlain, Dropped, Taken
  <2> QED BY <1>9, <2>1, <2>2, <2>3 DEF reapSlot, reapPlain
<1>10. CASE UNCHANGED vars
  BY <1>10 DEF vars
<1> QED
  BY <1>1, <1>2, <1>3, <1>4, <1>5, <1>6, <1>7, <1>8, <1>9, <1>10 DEF Next

\* They hold at the start.
LEMMA InitTypes == Init => TypeOK /\ CallInv
<1> SUFFICES ASSUME Init PROVE TypeOK /\ CallInv
  OBVIOUS
<1>1. wrap \in [Wraps -> Wrapper]
  BY DEF Init, Wrapper, Kinds, States
<1>2. /\ slot \in [Fds -> Bases \cup {None}]
      /\ gen \in [Fds -> Nat]
      /\ owner \in [Bases -> Wraps \cup {None}]
  BY DEF Init
<1>3. /\ next = 1 /\ pinMap = 0 /\ pinFd = 0
      /\ mapMark \in Nat /\ fdMark \in Nat
      /\ pc = "js" /\ kind \in Kinds
  BY ConstantsAssumption DEF Init, Kinds
<1>4. raw \in BOOLEAN /\ left = 0
  BY DEF Init
<1> QED
  BY <1>1, <1>2, <1>3, <1>4, ConstantsAssumption DEF TypeOK, CallInv

\* The variables of the mapping layer keep their types.
THEOREM TypeCorrect == Spec => []TypeOK
<1>1. Init => TypeOK /\ CallInv
  BY InitTypes
<1>2. TypeOK /\ CallInv /\ [Next]_vars => (TypeOK /\ CallInv)'
  BY TypeStep
<1> QED
  BY <1>1, <1>2, PTL DEF Spec

-----------------------------------------------------------------------------
(* The inductive invariant.  Held(w): the mapping of w is not given back by *)
(* a finalizer yet.                                                         *)

Held(w) == wrap[w].st \in {"new", "live", "dead"}

\* Wrappers are numbered in creation order, the one being made last.
NumberInv ==
    /\ \A w \in Wraps : wrap[w].st # "none" =>
          w < next \/ (w = next /\ pc = "wrap")
    /\ \A w \in Wraps : wrap[w].st = "new" <=> (w = next /\ pc = "wrap")
    /\ pc = "wrap" => wrap[next].kind = kind

\* Addresses and fds of a wrapper are real ones.
RealInv ==
    \A w \in Wraps : wrap[w].st # "none" =>
        /\ wrap[w].base \in Bases
        /\ wrap[w].kind = "slot" => wrap[w].fd \in Fds

\* No two slotted wrappers share an fd and a generation, and the slot's
\* counter is at the newest of them.
GenInv ==
    \A w \in Wraps : wrap[w].st # "none" /\ wrap[w].kind = "slot" =>
        /\ wrap[w].gen <= gen[wrap[w].fd]
        /\ \A v \in Wraps :
              /\ wrap[v].st # "none" /\ wrap[v].kind = "slot"
              /\ wrap[v].fd = wrap[w].fd
              /\ wrap[v].gen = wrap[w].gen
              => v = w

\* Until it is released, a mapping is where its wrapper says.  A direct
\* io._munmap can take a slotted mapping from under its view; it never takes
\* one without an fd, or one that is still being made.
Keeps(w) ==
    \/ wrap[w].st = "new"
    \/ wrap[w].st \in {"live", "dead"} /\ wrap[w].kind # "slot"
    \/ wrap[w].st = "live" /\ ~raw
OwnInv == \A w \in Wraps : Keeps(w) => owner[wrap[w].base] = w

\* What is mapped belongs to a wrapper not finalized, which, if slotted, has
\* its slot still; and a booked slot belongs to the wrapper mapped there.
MapInv ==
    /\ \A b \in Bases : owner[b] # None =>
          /\ owner[b] \in Wraps
          /\ Held(owner[b])
          /\ wrap[owner[b]].base = b
          /\ wrap[owner[b]].kind = "slot" => slot[wrap[owner[b]].fd] = b
    /\ \A f \in Fds : slot[f] # None =>
          LET w == owner[slot[f]] IN
          /\ w # None
          /\ wrap[w].kind = "slot"
          /\ wrap[w].fd = f
          /\ wrap[w].gen = gen[f]

Inv == TypeOK /\ CallInv /\ NumberInv /\ RealInv /\ GenInv /\ OwnInv /\ MapInv

\* The invariant holds before anything is mapped.
LEMMA InitInv == Init => Inv
<1> SUFFICES ASSUME Init PROVE Inv
  OBVIOUS
<1>1. TypeOK /\ CallInv
  BY InitTypes
<1>2. \A w \in Wraps : wrap[w].st = "none"
  BY DEF Init
<1>3. (\A b \in Bases : owner[b] = None) /\ (\A f \in Fds : slot[f] = None)
  BY DEF Init
<1>4. pc = "js"
  BY DEF Init
<1> QED
  BY <1>1, <1>2, <1>3, <1>4
     DEF Inv, NumberInv, RealInv, GenInv, OwnInv, Keeps, MapInv

\* The steps that touch neither the wrappers nor what is mapped.
LEMMA QuietStep ==
    ASSUME Inv, UNCHANGED <<wrap, slot, gen, owner, raw>>,
           NumberInv', TypeOK', CallInv'
    PROVE  Inv'
BY DEF Inv, RealInv, GenInv, OwnInv, Keeps, MapInv, Held

\* Booking: the new generation is above every older one of the slot.
LEMMA MapSlotStep ==
    ASSUME Inv, TypeOK', CallInv', NEW f \in Fds, NEW b \in Bases, mapSlot(f, b)
    PROVE  Inv'
<1> USE ConstantsAssumption DEF Inv, TypeOK, CallInv
<1> DEFINE n == next
<1>1. /\ n \in Wraps /\ n' = n /\ pc = "map" /\ pc' = "wrap"
      /\ kind = "slot" /\ kind' = kind
  BY DEF mapSlot
<1>2. /\ wrap'[n] = [kind |-> "slot", base |-> b, fd |-> f,
                     gen |-> gen[f] + 1, st |-> "new"]
      /\ \A w \in Wraps \ {n} : wrap'[w] = wrap[w]
  BY <1>1 DEF mapSlot, Bumped
<1>3. wrap[n].st = "none"
  BY <1>1 DEF NumberInv, Wraps
<1>4. /\ gen'[f] = gen[f] + 1
      /\ \A g \in Fds \ {f} : gen'[g] = gen[g]
  BY DEF mapSlot, Bumped
<1>5. /\ slot[f] = None /\ slot'[f] = b
      /\ \A g \in Fds \ {f} : slot'[g] = slot[g]
  BY DEF mapSlot
<1>6. /\ owner[b] = None /\ owner'[b] = n
      /\ \A c \in Bases \ {b} : owner'[c] = owner[c]
  BY DEF mapSlot
<1>7. NumberInv'
  BY <1>1, <1>2, <1>3 DEF NumberInv
<1>8. RealInv'
  BY <1>2, <1>3 DEF RealInv
<1>9. GenInv'
  <2>1. \A w \in Wraps \ {n} :
          wrap[w].st # "none" /\ wrap[w].kind = "slot" =>
            wrap[w].fd \in Fds /\ wrap[w].gen <= gen[wrap[w].fd]
    BY DEF GenInv, RealInv
  <2>2. gen[f] \in Nat /\ \A w \in Wraps : wrap[w].gen \in Nat
    BY DEF Wrapper
  <2>3. \A w \in Wraps \ {n} :
          wrap[w].st # "none" /\ wrap[w].kind = "slot" /\ wrap[w].fd = f =>
            wrap[w].gen < gen[f] + 1
    BY <2>1, <2>2
  <2>4. \A w, v \in Wraps \ {n} :
          /\ wrap[w].st # "none" /\ wrap[w].kind = "slot"
          /\ wrap[v].st # "none" /\ wrap[v].kind = "slot"
          /\ wrap[v].fd = wrap[w].fd /\ wrap[v].gen = wrap[w].gen
          => v = w
    BY DEF GenInv
  <2>5. SUFFICES ASSUME NEW w \in Wraps,
                        wrap'[w].st # "none", wrap'[w].kind = "slot"
                 PROVE  /\ wrap'[w].gen <= gen'[wrap'[w].fd]
                        /\ \A v \in Wraps :
                              /\ wrap'[v].st # "none" /\ wrap'[v].kind = "slot"
                              /\ wrap'[v].fd = wrap'[w].fd
                              /\ wrap'[v].gen = wrap'[w].gen
                              => v = w
    BY <2>5 DEF GenInv
  <2>6. wrap'[w].gen <= gen'[wrap'[w].fd]
    <3>1. CASE w = n
      BY <1>2, <1>4, <2>2, <3>1
    <3>2. CASE w # n
      <4>1. wrap'[w] = wrap[w] /\ wrap[w].fd \in Fds
        BY <1>2, <2>1, <2>5, <3>2
      <4>2. wrap[w].gen <= gen[wrap[w].fd] /\ gen[wrap[w].fd] \in Nat
        BY <2>1, <2>5, <3>2, <4>1
      <4>3. \A g \in Fds : gen[g] \in Nat /\ gen'[g] \in Nat /\ gen[g] <= gen'[g]
        BY <1>4
      <4>4. wrap[w].gen \in Nat
        BY <2>2
      <4>5. \A g \in Fds, k \in Nat : k <= gen[g] => k <= gen'[g]
        BY <4>3
      <4>6. wrap[w].gen <= gen'[wrap[w].fd]
        BY ONLY <4>1, <4>2, <4>4, <4>5, Zenon
      <4> QED BY <4>1, <4>6
    <3> QED BY <3>1, <3>2
  <2>7. ASSUME NEW v \in Wraps,
               wrap'[v].st # "none", wrap'[v].kind = "slot",
               wrap'[v].fd = wrap'[w].fd, wrap'[v].gen = wrap'[w].gen
        PROVE  v = w
    <3>1. CASE v # n /\ w # n
      BY <1>2, <2>4, <2>5, <2>7, <3>1
    <3>2. CASE v = n /\ w # n
      BY <1>2, <2>2, <2>3, <2>5, <2>7, <3>2
    <3>3. CASE v # n /\ w = n
      BY <1>2, <2>2, <2>3, <2>5, <2>7, <3>3
    <3> QED BY <3>1, <3>2, <3>3
  <2> QED BY <2>6, <2>7
<1>10. OwnInv'
  <2>1. ASSUME NEW w \in Wraps \ {n}, Keeps(w)
        PROVE  wrap[w].base \in Bases \ {b} /\ owner[wrap[w].base] = w
    BY <1>6, <2>1 DEF OwnInv, Keeps, RealInv, Wraps, None
  <2>2. SUFFICES ASSUME NEW w \in Wraps, Keeps(w)'
                 PROVE  owner'[wrap'[w].base] = w
    BY <2>2 DEF OwnInv
  <2>3. CASE w = n
    BY <1>2, <1>6, <2>3
  <2>4. CASE w # n
    <3>1. Keeps(w)
      BY <1>2, <2>2, <2>4 DEF Keeps, mapSlot
    <3> QED BY <1>2, <1>6, <2>1, <2>4, <3>1
  <2> QED BY <2>3, <2>4
<1>11. MapInv'
  <2>1. ASSUME NEW c \in Bases, owner'[c] # None
        PROVE  /\ owner'[c] \in Wraps
               /\ wrap'[owner'[c]].st \in {"new", "live", "dead"}
               /\ wrap'[owner'[c]].base = c
               /\ wrap'[owner'[c]].kind = "slot" => slot'[wrap'[owner'[c]].fd] = c
    <3>1. CASE c = b
      BY <1>1, <1>2, <1>5, <1>6, <3>1
    <3>2. CASE c # b
      <4>1. /\ owner'[c] = owner[c] /\ owner[c] \in Wraps \ {n}
            /\ wrap'[owner[c]] = wrap[owner[c]]
            /\ Held(owner[c]) /\ wrap[owner[c]].base = c
            /\ wrap[owner[c]].kind = "slot" => slot[wrap[owner[c]].fd] = c
        BY <1>2, <1>3, <1>6, <2>1, <3>2 DEF MapInv, Held
      <4>2. wrap[owner[c]].kind = "slot" => wrap[owner[c]].fd \in Fds \ {f}
        BY <1>5, <4>1, ConstantsAssumption DEF RealInv, Held, None
      <4> QED BY <1>5, <4>1, <4>2 DEF Held
    <3> QED BY <3>1, <3>2
  <2>2. ASSUME NEW g \in Fds, slot'[g] # None
        PROVE  LET w == owner'[slot'[g]] IN
               /\ w # None
               /\ wrap'[w].kind = "slot"
               /\ wrap'[w].fd = g
               /\ wrap'[w].gen = gen'[g]
    <3>1. CASE g = f
      BY <1>1, <1>2, <1>4, <1>5, <1>6, <3>1 DEF Wraps, None
    <3>2. CASE g # f
      <4>1. /\ slot'[g] = slot[g] /\ slot[g] \in Bases
            /\ owner[slot[g]] # None
        BY <1>5, <2>2, <3>2 DEF MapInv
      <4>2. slot[g] # b /\ owner'[slot[g]] = owner[slot[g]]
        BY <1>6, <4>1
      <4>3. owner[slot[g]] \in Wraps \ {n}
        BY <1>3, <4>1 DEF MapInv, Held
      <4> QED BY <1>2, <1>4, <2>2, <3>2, <4>1, <4>2, <4>3 DEF MapInv
    <3> QED BY <3>1, <3>2
  <2> QED BY <2>1, <2>2 DEF MapInv, Held
<1> QED
  BY <1>7, <1>8, <1>9, <1>10, <1>11

\* Mapping without an fd.
LEMMA MapPlainStep ==
    ASSUME Inv, TypeOK', CallInv', NEW b \in Bases, mapPlain(b)
    PROVE  Inv'
<1> USE ConstantsAssumption DEF Inv, TypeOK, CallInv
<1> DEFINE n == next
<1>1. /\ n \in Wraps /\ n' = n /\ pc = "map" /\ pc' = "wrap"
      /\ kind # "slot" /\ kind' = kind
      /\ slot' = slot /\ gen' = gen
  BY DEF mapPlain
<1>2. /\ wrap'[n] = [kind |-> kind, base |-> b, fd |-> None,
                     gen |-> 0, st |-> "new"]
      /\ \A w \in Wraps \ {n} : wrap'[w] = wrap[w]
  BY <1>1 DEF mapPlain
<1>3. wrap[n].st = "none"
  BY <1>1 DEF NumberInv, Wraps
<1>4. /\ owner[b] = None /\ owner'[b] = n
      /\ \A c \in Bases \ {b} : owner'[c] = owner[c]
  BY DEF mapPlain
<1>5. NumberInv'
  BY <1>1, <1>2, <1>3 DEF NumberInv
<1>6. RealInv'
  BY <1>1, <1>2, <1>3 DEF RealInv
<1>7. GenInv'
  BY <1>1, <1>2 DEF GenInv
<1>8. OwnInv'
  <2>1. ASSUME NEW w \in Wraps \ {n}, Keeps(w)
        PROVE  wrap[w].base \in Bases \ {b} /\ owner[wrap[w].base] = w
    BY <1>4, <2>1 DEF OwnInv, Keeps, RealInv, Wraps, None
  <2>2. SUFFICES ASSUME NEW w \in Wraps, Keeps(w)'
                 PROVE  owner'[wrap'[w].base] = w
    BY <2>2 DEF OwnInv
  <2>3. CASE w = n
    BY <1>2, <1>4, <2>3
  <2>4. CASE w # n
    <3>1. Keeps(w)
      BY <1>2, <2>2, <2>4 DEF Keeps, mapPlain
    <3> QED BY <1>2, <1>4, <2>1, <2>4, <3>1
  <2> QED BY <2>3, <2>4
<1>9. MapInv'
  <2>1. ASSUME NEW c \in Bases, owner'[c] # None
        PROVE  /\ owner'[c] \in Wraps
               /\ wrap'[owner'[c]].st \in {"new", "live", "dead"}
               /\ wrap'[owner'[c]].base = c
               /\ wrap'[owner'[c]].kind = "slot" => slot[wrap'[owner'[c]].fd] = c
    <3>1. CASE c = b
      BY <1>1, <1>2, <1>4, <3>1
    <3>2. CASE c # b
      <4>1. /\ owner'[c] = owner[c] /\ owner[c] \in Wraps \ {n}
            /\ wrap'[owner[c]] = wrap[owner[c]]
        BY <1>2, <1>3, <1>4, <2>1, <3>2 DEF MapInv, Held
      <4> QED BY <2>1, <4>1 DEF MapInv, Held
    <3> QED BY <3>1, <3>2
  <2>2. ASSUME NEW g \in Fds, slot[g] # None
        PROVE  LET w == owner'[slot[g]] IN
               /\ w # None
               /\ wrap'[w].kind = "slot"
               /\ wrap'[w].fd = g
               /\ wrap'[w].gen = gen[g]
    <3>1. slot[g] \in Bases /\ owner[slot[g]] # None
      BY <2>2 DEF MapInv
    <3>2. slot[g] # b /\ owner'[slot[g]] = owner[slot[g]]
      BY <1>4, <3>1
    <3>3. owner[slot[g]] \in Wraps \ {n}
      BY <1>3, <3>1 DEF MapInv, Held
    <3> QED BY <1>2, <2>2, <3>2, <3>3 DEF MapInv
  <2> QED BY <1>1, <2>1, <2>2 DEF MapInv, Held
<1> QED
  BY <1>5, <1>6, <1>7, <1>8, <1>9

-----------------------------------------------------------------------------
(* A wrapper moves on.  Its mapping stays, or goes with it.                 *)

Moves(w, s) == wrap' = [wrap EXCEPT ![w].st = s]

\* Only its state changes.
LEMMA MovesOne ==
    ASSUME TypeOK, NEW w \in Wraps, NEW s \in States, Moves(w, s)
    PROVE  /\ \A v \in Wraps : /\ wrap'[v].kind = wrap[v].kind
                               /\ wrap'[v].base = wrap[v].base
                               /\ wrap'[v].fd = wrap[v].fd
                               /\ wrap'[v].gen = wrap[v].gen
           /\ wrap'[w].st = s
           /\ \A v \in Wraps \ {w} : wrap'[v].st = wrap[v].st
<1>1. \A v \in Wraps : wrap[v] \in Wrapper
  BY DEF TypeOK
<1>2. wrap'[w] = [wrap[w] EXCEPT !.st = s]
  BY DEF TypeOK, Moves
<1>3. \A v \in Wraps \ {w} : wrap'[v] = wrap[v]
  BY DEF TypeOK, Moves
<1> QED
  BY <1>1, <1>2, <1>3 DEF Wrapper

\* Addresses, fds and generations are untouched.
LEMMA MovesKeeps ==
    ASSUME Inv, NEW w \in Wraps, NEW s \in States, Moves(w, s),
           wrap[w].st # "none", gen' = gen
    PROVE  RealInv' /\ GenInv'
<1>1. /\ \A v \in Wraps : /\ wrap'[v].kind = wrap[v].kind
                          /\ wrap'[v].base = wrap[v].base
                          /\ wrap'[v].fd = wrap[v].fd
                          /\ wrap'[v].gen = wrap[v].gen
      /\ \A v \in Wraps \ {w} : wrap'[v].st = wrap[v].st
  BY MovesOne DEF Inv
<1>2. \A v \in Wraps : wrap'[v].st # "none" => wrap[v].st # "none"
  BY <1>1
<1>3. RealInv'
  BY <1>1, <1>2 DEF Inv, RealInv
<1>4. GenInv'
  BY <1>1, <1>2 DEF Inv, GenInv
<1> QED BY <1>3, <1>4

\* The mapping stays where it is; a finalizer may leave only what is not
\* mapped for its wrapper any more.
LEMMA KeepStep ==
    ASSUME Inv, TypeOK', CallInv', NumberInv',
           NEW w \in Wraps, NEW s \in {"live", "dead", "gone"}, Moves(w, s),
           UNCHANGED <<slot, gen, owner, raw>>,
           \/ s # "gone" /\ wrap[w].st \in {"new", "live"}
           \/ s = "gone" /\ wrap[w].st = "dead" /\ \A b \in Bases : owner[b] # w
    PROVE  Inv'
<1>1. /\ \A v \in Wraps : /\ wrap'[v].kind = wrap[v].kind
                          /\ wrap'[v].base = wrap[v].base
                          /\ wrap'[v].fd = wrap[v].fd
                          /\ wrap'[v].gen = wrap[v].gen
      /\ wrap'[w].st = s
      /\ \A v \in Wraps \ {w} : wrap'[v].st = wrap[v].st
  BY MovesOne DEF Inv, States
<1>2. RealInv' /\ GenInv'
  BY MovesKeeps DEF States
<1>3. OwnInv'
  <2>1. \A v \in Wraps : Keeps(v)' => Keeps(v)
    BY <1>1 DEF Keeps
  <2> QED BY <1>1, <2>1 DEF Inv, OwnInv
<1>4. MapInv'
  <2>1. \A v \in Wraps : Held(v) /\ (\E b \in Bases : owner[b] = v) => Held(v)'
    BY <1>1 DEF Held
  <2>2. \A f \in Fds : slot[f] # None =>
          slot[f] \in Bases /\ owner[slot[f]] \in Wraps
    BY DEF Inv, TypeOK, MapInv
  <2> QED BY <1>1, <2>1, <2>2 DEF Inv, MapInv, Held
<1> QED BY <1>2, <1>3, <1>4 DEF Inv

\* A mapping goes: its address, and its slot if it has one.  It is that of the
\* wrapper that moves on, but for a release by an address that has been given to
\* another one meanwhile (io._munmap and abc.close go by the address alone).
LEMMA ReleaseStep ==
    ASSUME Inv, TypeOK', CallInv', NumberInv',
           NEW w \in Wraps, NEW s \in {"live", "dead", "gone"}, Moves(w, s),
           NEW v \in Wraps, Held(v), owner[wrap[v].base] = v, Held(w),
           s = "gone" => v = w,
           s # "gone" => /\ wrap[w].st = "live"
                         /\ wrap[v].kind = "slot" /\ wrap[v].st # "new",
           gen' = gen, raw => raw', ~raw' => v = w /\ s # "live",
           owner' = [owner EXCEPT ![wrap[v].base] = None],
           slot' = [f \in Fds |-> IF wrap[v].kind = "slot" /\ f = wrap[v].fd
                                  THEN None ELSE slot[f]]
    PROVE  Inv'
<1> USE DEF Inv
<1> DEFINE b == wrap[v].base
<1>1. /\ \A u \in Wraps : /\ wrap'[u].kind = wrap[u].kind
                          /\ wrap'[u].base = wrap[u].base
                          /\ wrap'[u].fd = wrap[u].fd
                          /\ wrap'[u].gen = wrap[u].gen
      /\ wrap'[w].st = s
      /\ \A u \in Wraps \ {w} : wrap'[u].st = wrap[u].st
  BY MovesOne DEF States
<1>2. RealInv' /\ GenInv'
  BY MovesKeeps DEF States, Held
<1>3. b \in Bases
  BY DEF RealInv, Held
<1>4. owner'[b] = None /\ \A c \in Bases \ {b} : owner'[c] = owner[c]
  BY <1>3 DEF TypeOK
<1>5. \A f \in Fds : slot'[f] = IF wrap[v].kind = "slot" /\ f = wrap[v].fd
                                THEN None ELSE slot[f]
  OBVIOUS
<1>6. wrap[v].kind = "slot" => slot[wrap[v].fd] = b
  BY <1>3 DEF MapInv, Wraps, None
<1>7. OwnInv'
  <2>1. SUFFICES ASSUME NEW u \in Wraps, Keeps(u)'
                 PROVE  owner'[wrap'[u].base] = u
    BY <2>1 DEF OwnInv
  <2>2. u # v
    BY <1>1, <2>1 DEF Keeps
  <2>3. Keeps(u)
    BY <1>1, <2>1, <2>2 DEF Keeps
  <2>4. owner[wrap[u].base] = u /\ wrap[u].base \in Bases
    BY <2>3 DEF OwnInv, RealInv, Keeps
  <2> QED BY <1>1, <1>4, <2>2, <2>4
<1>8. ASSUME NEW c \in Bases, owner'[c] # None
      PROVE  /\ owner'[c] \in Wraps
             /\ wrap'[owner'[c]].st \in {"new", "live", "dead"}
             /\ wrap'[owner'[c]].base = c
             /\ wrap'[owner'[c]].kind = "slot" => slot'[wrap'[owner'[c]].fd] = c
  <2>1. c # b /\ owner'[c] = owner[c]
    BY <1>4, <1>8
  <2>2. /\ owner[c] \in Wraps /\ Held(owner[c]) /\ wrap[owner[c]].base = c
        /\ wrap[owner[c]].kind = "slot" => slot[wrap[owner[c]].fd] = c
    BY <1>8, <2>1 DEF MapInv
  <2>3. owner[c] # v
    BY <2>1, <2>2
  <2>4. wrap[owner[c]].kind = "slot" => wrap[owner[c]].fd \in Fds
    BY <2>2 DEF RealInv, Held
  <2> QED BY <1>1, <1>5, <1>6, <2>1, <2>2, <2>3, <2>4 DEF Held
<1>9. ASSUME NEW g \in Fds, slot'[g] # None
      PROVE  LET u == owner'[slot'[g]] IN
             /\ u # None
             /\ wrap'[u].kind = "slot"
             /\ wrap'[u].fd = g
             /\ wrap'[u].gen = gen[g]
  <2>1. slot'[g] = slot[g] /\ ~(wrap[v].kind = "slot" /\ g = wrap[v].fd)
    BY <1>5, <1>9
  <2>2. /\ slot[g] \in Bases
        /\ owner[slot[g]] # None
        /\ wrap[owner[slot[g]]].kind = "slot"
        /\ wrap[owner[slot[g]]].fd = g
        /\ wrap[owner[slot[g]]].gen = gen[g]
    BY <1>9, <2>1 DEF MapInv, TypeOK
  <2>3. slot[g] # b
    BY <2>1, <2>2
  <2>4. owner[slot[g]] \in Wraps
    BY <2>2 DEF MapInv
  <2> QED BY <1>1, <1>4, <2>1, <2>2, <2>3, <2>4
<1>10. MapInv'
  BY <1>8, <1>9 DEF MapInv, Held
<1> QED BY <1>2, <1>7, <1>10

\* The finalizer's test is exact: it passes if and only if the kernel still
\* maps the wrapper's own mapping, whatever became of its address and its fd.
LEMMA StillOwnsExact ==
    ASSUME Inv, NEW w \in Wraps, Held(w), wrap[w].kind = "slot"
    PROVE  /\ StillOwns(w) => owner[wrap[w].base] = w
           /\ ~StillOwns(w) => \A b \in Bases : owner[b] # w
<1> USE DEF Inv
<1> DEFINE f == wrap[w].fd
<1>1. f \in Fds /\ wrap[w].base \in Bases /\ wrap[w].base # None
  BY ConstantsAssumption DEF RealInv, Held, None
<1>2. ASSUME StillOwns(w)
      PROVE  owner[wrap[w].base] = w
  <2> DEFINE v == owner[slot[f]]
  <2>1. slot[f] = wrap[w].base /\ wrap[w].gen = gen[f] /\ slot[f] # None
    BY <1>1, <1>2 DEF StillOwns
  <2>2. v # None /\ wrap[v].kind = "slot" /\ wrap[v].fd = f /\ wrap[v].gen = gen[f]
    BY <1>1, <2>1 DEF MapInv
  <2>3. v \in Wraps /\ Held(v)
    BY <1>1, <2>1, <2>2 DEF MapInv
  <2>4. v = w
    BY <2>1, <2>2, <2>3 DEF GenInv, Held
  <2> QED BY <2>1, <2>4
<1>3. ASSUME NEW b \in Bases, owner[b] = w
      PROVE  StillOwns(w)
  <2>1. wrap[w].base = b /\ slot[f] = b
    BY <1>3 DEF MapInv, Wraps, None
  <2>2. wrap[w].gen = gen[f]
    BY <1>1, <1>3, <2>1 DEF MapInv
  <2> QED BY <2>1, <2>2 DEF StillOwns
<1> QED BY <1>2, <1>3

\* A release by address takes the slotted mapping that is there, whoever's.
LEMMA UnmapStep ==
    ASSUME Inv, TypeOK', CallInv', NumberInv',
           NEW w \in Wraps, NEW s \in {"live", "dead"}, Moves(w, s),
           wrap[w].st = "live", pc = "js",
           UnMapBase(wrap[w].base), gen' = gen, raw => raw',
           ~raw' => s = "dead",
           s = "live" => raw', s = "dead" => raw' = raw
    PROVE  Inv'
<1> DEFINE b == wrap[w].base
<1>0. b \in Bases /\ b # None /\ Held(w)
  BY ConstantsAssumption DEF Inv, RealInv, None, Held
<1>1. CASE /\ \E f \in Fds : slot[f] = b
           /\ slot' = [f \in Fds |-> IF slot[f] = b THEN None ELSE slot[f]]
           /\ owner' = [owner EXCEPT ![b] = None]
  <2>1. PICK v : v = owner[b]
    OBVIOUS
  <2>2. /\ v # None /\ wrap[v].kind = "slot"
        /\ \A f \in Fds : slot[f] = b => wrap[v].fd = f
    BY <1>0, <1>1, <2>1 DEF Inv, MapInv
  <2>3. /\ v \in Wraps /\ Held(v) /\ wrap[v].base = b
        /\ slot[wrap[v].fd] = b
    BY <1>0, <2>1, <2>2 DEF Inv, MapInv
  <2>4. wrap[v].st # "new"
    BY <2>3 DEF Inv, NumberInv
  <2>5. ~raw' => v = w
    BY <2>1 DEF Inv, OwnInv, Keeps
  <2>6. slot' = [f \in Fds |-> IF wrap[v].kind = "slot" /\ f = wrap[v].fd
                               THEN None ELSE slot[f]]
    BY <1>1, <2>2, <2>3
  <2> QED BY <1>0, <1>1, <2>1, <2>2, <2>3, <2>4, <2>5, <2>6, ReleaseStep
<1>2. CASE UNCHANGED <<slot, owner>>
  <2>1. CASE raw' = raw
    BY <1>2, <2>1, KeepStep
  <2>2. CASE raw' # raw
    <3>1. /\ \A v \in Wraps : /\ wrap'[v].kind = wrap[v].kind
                              /\ wrap'[v].base = wrap[v].base
                              /\ wrap'[v].fd = wrap[v].fd
                              /\ wrap'[v].gen = wrap[v].gen
          /\ wrap'[w].st = s
          /\ \A v \in Wraps \ {w} : wrap'[v].st = wrap[v].st
      BY MovesOne DEF Inv, States
    <3>2. RealInv' /\ GenInv'
      BY MovesKeeps DEF States
    <3>3. OwnInv'
      <4>1. \A v \in Wraps : Keeps(v)' => Keeps(v)
        BY <2>2, <3>1 DEF Keeps, Inv, TypeOK
      <4> QED BY <1>2, <3>1, <4>1 DEF Inv, OwnInv
    <3>4. MapInv'
      <4>1. \A v \in Wraps : Held(v) => Held(v)'
        BY <3>1 DEF Held
      <4>2. \A f \in Fds : slot[f] # None =>
              slot[f] \in Bases /\ owner[slot[f]] \in Wraps
        BY DEF Inv, TypeOK, MapInv
      <4> QED BY <1>2, <3>1, <4>1, <4>2 DEF Inv, MapInv, Held
    <3> QED BY <3>2, <3>3, <3>4 DEF Inv
  <2> QED BY <2>1, <2>2
<1> QED BY <1>1, <1>2 DEF UnMapBase

\* Every step keeps the invariant.
LEMMA InvStep ==
    ASSUME Inv, [Next]_vars
    PROVE  Inv'
<1>1. TypeOK' /\ CallInv'
  BY TypeStep DEF Inv
<1> USE ConstantsAssumption
<1>2. CASE \E k \in Kinds : sweep(k)
  BY <1>1, <1>2, QuietStep DEF Inv, NumberInv, sweep
<1>3. CASE gcEnds
  BY <1>1, <1>3, QuietStep DEF Inv, NumberInv, gcEnds
<1>4. CASE mapFails
  <2>1. NumberInv'
    <3>1. /\ next \in Wraps /\ next' = next + 1 /\ wrap' = wrap
          /\ pc = "map" /\ pc' = "js"
      BY <1>4 DEF mapFails, Inv, CallInv
    <3>2. \A w \in Wraps : wrap[w].st # "none" => w < next + 1
      BY <3>1 DEF Inv, NumberInv, Wraps
    <3> QED BY <3>1, <3>2 DEF Inv, NumberInv
  <2> QED BY <1>1, <1>4, <2>1, QuietStep DEF mapFails
<1>5. CASE wrapped
  <2>1. next \in Wraps /\ Moves(next, "live") /\ wrap[next].st = "new"
    BY <1>5 DEF Inv, CallInv, NumberInv, wrapped, Moves
  <2>2. NumberInv'
    BY <1>5, <2>1, MovesOne DEF Inv, NumberInv, wrapped, TypeOK, Wraps, States
  <2> QED BY <1>1, <1>5, <2>1, <2>2, KeepStep DEF wrapped
<1>6. CASE wrapFails
  <2>1. /\ next \in Wraps /\ Moves(next, "gone") /\ wrap[next].st = "new"
        /\ kind = wrap[next].kind
    BY <1>6 DEF Inv, CallInv, NumberInv, wrapFails, Moves
  <2>2. NumberInv'
    BY <1>6, <2>1, MovesOne DEF Inv, NumberInv, wrapFails, TypeOK, Wraps, States
  <2>3. Held(next) /\ owner[wrap[next].base] = next
    BY <2>1 DEF Inv, OwnInv, Keeps, Held
  <2> QED BY <1>1, <1>6, <2>1, <2>2, <2>3, ReleaseStep DEF wrapFails
<1>7. ASSUME NEW f \in Fds, NEW b \in Bases, mapSlot(f, b)
      PROVE  Inv'
  BY <1>1, <1>7, MapSlotStep
<1>8. ASSUME NEW b \in Bases, mapPlain(b)
      PROVE  Inv'
  BY <1>1, <1>8, MapPlainStep
<1>9. ASSUME NEW w \in Wraps, drop(w)
      PROVE  Inv'
  <2>1. Moves(w, "dead") /\ wrap[w].st = "live"
    BY <1>9 DEF drop, Moves
  <2>2. NumberInv'
    BY <1>9, <2>1, MovesOne DEF Inv, NumberInv, drop, CallInv, States
  <2> QED BY <1>1, <1>9, <2>1, <2>2, KeepStep DEF drop
<1>10. ASSUME NEW w \in Wraps, close(w)
       PROVE  Inv'
  <2>1. Moves(w, "dead") /\ wrap[w].st = "live"
    BY <1>10 DEF close, Detached, Moves
  <2>2. NumberInv'
    BY <1>10, <2>1, MovesOne DEF Inv, NumberInv, close, CallInv, States
  <2>3. CASE UNCHANGED <<slot, owner>>
    BY <1>1, <1>10, <2>1, <2>2, <2>3, KeepStep DEF close
  <2>4. CASE UnMapBase(wrap[w].base)
    BY <1>1, <1>10, <2>1, <2>2, <2>4, UnmapStep DEF close
  <2> QED BY <1>10, <2>3, <2>4 DEF close
<1>11. ASSUME NEW w \in Wraps, reapSlot(w)
       PROVE  Inv'
  <2>1. /\ Moves(w, "gone") /\ wrap[w].st = "dead" /\ wrap[w].kind = "slot"
        /\ Held(w)
    BY <1>11 DEF reapSlot, Moves, Held
  <2>2. NumberInv'
    BY <1>11, <2>1, MovesOne DEF Inv, NumberInv, reapSlot, CallInv, States
  <2>3. CASE StillOwns(w)
    <3>1. owner[wrap[w].base] = w
      BY <2>1, <2>3, StillOwnsExact
    <3>2. slot' = [f \in Fds |-> IF wrap[w].kind = "slot" /\ f = wrap[w].fd
                                 THEN None ELSE slot[f]]
      BY <1>11, <2>1, <2>3 DEF reapSlot, Inv, TypeOK
    <3> QED
      BY <1>1, <1>11, <2>1, <2>2, <2>3, <3>1, <3>2, ReleaseStep DEF reapSlot
  <2>4. CASE ~StillOwns(w)
    <3>1. \A b \in Bases : owner[b] # w
      BY <2>1, <2>4, StillOwnsExact
    <3> QED BY <1>1, <1>11, <2>1, <2>2, <2>4, <3>1, KeepStep DEF reapSlot
  <2> QED BY <2>3, <2>4
<1>12. ASSUME NEW w \in Wraps, reapPlain(w)
       PROVE  Inv'
  <2>1. /\ Moves(w, "gone") /\ wrap[w].st = "dead" /\ wrap[w].kind # "slot"
        /\ Held(w) /\ owner[wrap[w].base] = w
    BY <1>12 DEF reapPlain, Moves, Held, Inv, OwnInv, Keeps
  <2>2. NumberInv'
    BY <1>12, <2>1, MovesOne DEF Inv, NumberInv, reapPlain, CallInv, States
  <2>3. slot' = [f \in Fds |-> IF wrap[w].kind = "slot" /\ f = wrap[w].fd
                               THEN None ELSE slot[f]]
    BY <1>12, <2>1 DEF reapPlain, Inv, TypeOK
  <2> QED BY <1>1, <1>12, <2>1, <2>2, <2>3, ReleaseStep DEF reapPlain
<1>13. ASSUME NEW w \in Wraps, munmap(w)
       PROVE  Inv'
  <2>1. /\ wrap' = wrap /\ wrap[w].st = "live" /\ wrap[w] \in Wrapper
        /\ wrap \in [Wraps -> Wrapper]
    BY <1>13 DEF munmap, Inv, TypeOK
  <2>2. [wrap[w] EXCEPT !.st = "live"] = wrap[w]
    BY <2>1 DEF Wrapper
  <2>3. Moves(w, "live")
    BY <2>1, <2>2 DEF Moves
  <2>4. NumberInv'
    BY <1>13 DEF munmap, Inv, NumberInv
  <2> QED BY <1>1, <1>13, <2>1, <2>3, <2>4, UnmapStep DEF munmap
<1>14. CASE UNCHANGED vars
  BY <1>1, <1>14, QuietStep DEF vars, Inv, NumberInv
<1> QED
  BY <1>2, <1>3, <1>4, <1>5, <1>6, <1>7, <1>8, <1>9, <1>10, <1>11, <1>12, <1>13,
     <1>14 DEF Next

\* The invariant holds in every state, also after the program has called
\* io._munmap itself.
LEMMA InvHolds == Spec => []Inv
<1>1. Init => Inv
  BY InitInv
<1>2. Inv /\ [Next]_vars => Inv'
  BY InvStep
<1> QED
  BY <1>1, <1>2, PTL DEF Spec

-----------------------------------------------------------------------------

\* Whatever addresses and fds the kernel reuses, and whenever the collector
\* runs the finalizers, a view the program holds points into its own mapping
\* (JABCMapFree, abc.close).
THEOREM LiveStaysMapped == Spec => []LiveIsMapped
<1>1. Inv => LiveIsMapped
  BY DEF Inv, OwnInv, Keeps, LiveIsMapped
<1> QED BY <1>1, InvHolds, PTL

\* And it keeps the fd slot it booked.
THEOREM LiveStaysBooked == Spec => []LiveKeepsSlot
<1>1. Inv => LiveKeepsSlot
  <2> SUFFICES ASSUME Inv, ~raw, NEW w \in Wraps,
                      wrap[w].st = "live", wrap[w].kind = "slot"
               PROVE  slot[wrap[w].fd] = wrap[w].base
    BY DEF LiveKeepsSlot
  <2>1. owner[wrap[w].base] = w /\ wrap[w].base \in Bases
    BY DEF Inv, OwnInv, Keeps, RealInv
  <2> QED BY <2>1 DEF Inv, MapInv, Wraps, None
<1> QED BY <1>1, InvHolds, PTL

\* A finalized wrapper leaves neither an address mapped nor an fd booked, also
\* in a program that calls io._munmap itself.
THEOREM NothingLeaks == Spec => []NoLeak
<1>1. Inv => NoLeak
  BY DEF Inv, MapInv, NoLeak, Held
<1> QED BY <1>1, InvHolds, PTL

-----------------------------------------------------------------------------
(* The pin counters.                                                       *)

\* Not finalized yet, and those of them with an fd.
Pinned == In("live") \cup In("dead")
PinnedFd == {w \in Pinned : wrap[w].kind = "slot"}

Counted == pinMap = Cardinality(Pinned) /\ pinFd = Cardinality(PinnedFd)

\* Counting needs no more of the wrappers than who is being made: what the
\* program does with io._munmap plays no part.
PinInv == TypeOK /\ CallInv /\ NumberInv /\ PinsExact

\* The wrappers pinned are finitely many, so that they can be counted.
LEMMA PinsFinite == IsFiniteSet(Pinned) /\ IsFiniteSet(PinnedFd)
<1>1. IsFiniteSet(1 .. MaxWrap)
  BY ConstantsAssumption, FS_Interval
<1>2. Pinned \in SUBSET (1 .. MaxWrap) /\ PinnedFd \in SUBSET (1 .. MaxWrap)
  BY DEF Pinned, PinnedFd, In, Wraps
<1> QED BY <1>1, <1>2, FS_Subset

\* The same, by name.
LEMMA PinsCount == PinsExact <=> Counted
BY DEF PinsExact, Pinned, PinnedFd, Counted

\* A wrapper changes its state; the others, and the rest of it, stay.
LEMMA StateOnly ==
    ASSUME TypeOK, NEW w \in Wraps, NEW s, wrap' = [wrap EXCEPT ![w].st = s]
    PROVE  /\ wrap'[w].st = s /\ wrap'[w].kind = wrap[w].kind
           /\ \A v \in Wraps : v # w => wrap'[v] = wrap[v]
BY DEF TypeOK, Wrapper

\* The numbering survives every step, also those of io._munmap.
LEMMA NumberStep ==
    ASSUME TypeOK, CallInv, NumberInv, [Next]_vars
    PROVE  NumberInv'
<1> USE DEF NumberInv
<1>1. /\ wrap \in [Wraps -> Wrapper] /\ next \in Nat /\ Wraps \subseteq Nat
      /\ pc # "js" => next \in Wraps
  BY ConstantsAssumption DEF TypeOK, CallInv, Wraps
<1>2. CASE (\E k \in Kinds : sweep(k)) \/ gcEnds \/ mapFails
  BY <1>1, <1>2 DEF sweep, gcEnds, mapFails
<1>3. ASSUME NEW f \in Fds, NEW b \in Bases, mapSlot(f, b)
      PROVE  NumberInv'
  <2>1. /\ pc = "map" /\ pc' = "wrap" /\ UNCHANGED <<next, kind>> /\ next \in Wraps
        /\ wrap'[next].st = "new" /\ wrap'[next].kind = kind
        /\ \A w \in Wraps : w # next => wrap'[w] = wrap[w]
    BY <1>1, <1>3 DEF mapSlot, mapPlain
  <2> QED BY <1>1, <2>1
<1>4. ASSUME NEW b \in Bases, mapPlain(b)
      PROVE  NumberInv'
  <2>1. /\ pc = "map" /\ pc' = "wrap" /\ UNCHANGED <<next, kind>> /\ next \in Wraps
        /\ wrap'[next].st = "new" /\ wrap'[next].kind = kind
        /\ \A w \in Wraps : w # next => wrap'[w] = wrap[w]
    BY <1>1, <1>4 DEF mapPlain
  <2> QED BY <1>1, <2>1
<1>5. CASE wrapped \/ wrapFails
  <2>1. /\ pc = "wrap" /\ pc' = "js" /\ next' = next + 1 /\ next \in Wraps
        /\ wrap'[next].st \in {"live", "gone"}
        /\ \A w \in Wraps : w # next => wrap'[w] = wrap[w]
    BY <1>1, <1>5, StateOnly DEF wrapped, wrapFails
  <2>2. ASSUME NEW w \in Wraps, wrap'[w].st # "none"
        PROVE  w < next'
    <3>1. w < next \/ w = next
      BY <2>1, <2>2
    <3>2. w \in Nat /\ next \in Nat
      BY <1>1
    <3>3. w < next + 1
      <4> HIDE DEF NumberInv
      <4> QED BY <3>1, <3>2
    <3> QED BY <2>1, <3>3
  <2>3. \A w \in Wraps : wrap'[w].st # "new"
    BY <1>1, <2>1
  <2> QED BY <2>1, <2>2, <2>3
<1>6. ASSUME NEW w \in Wraps,
             drop(w) \/ close(w) \/ munmap(w) \/ reapSlot(w) \/ reapPlain(w)
      PROVE  NumberInv'
  <2>1. /\ UNCHANGED <<next, kind, pc>>
        /\ wrap[w].st \in {"live", "dead"} /\ wrap'[w].st \in {"live", "dead", "gone"}
        /\ \A v \in Wraps : v # w => wrap'[v] = wrap[v]
    BY <1>1, <1>6, StateOnly DEF drop, close, munmap, reapSlot, reapPlain, Detached
  <2>2. w # next \/ pc # "wrap"
    BY <2>1
  <2> QED BY <1>1, <2>1, <2>2
<1>7. CASE UNCHANGED vars
  BY <1>7 DEF vars
<1> QED BY <1>2, <1>3, <1>4, <1>5, <1>6, <1>7 DEF Next

\* Every step counts what it pins and what it gives back (JABCPinTake,
\* JABCPinDrop).
LEMMA PinStep ==
    ASSUME PinInv, [Next]_vars
    PROVE  PinsExact'
<1>1. /\ wrap \in [Wraps -> Wrapper] /\ pinMap \in Nat /\ pinFd \in Nat
      /\ pc # "js" => next \in Wraps
  BY DEF PinInv, TypeOK, CallInv
<1>2. /\ pinMap = Cardinality(Pinned) /\ pinFd = Cardinality(PinnedFd)
      /\ IsFiniteSet(Pinned) /\ IsFiniteSet(PinnedFd)
  BY PinsCount, PinsFinite DEF PinInv, Counted
<1>3. SUFFICES Counted'
  BY DEF PinsExact, Pinned, PinnedFd, Counted
<1>4. /\ \A w : w \in Pinned <=> w \in Wraps /\ wrap[w].st \in {"live", "dead"}
      /\ \A w : w \in PinnedFd <=> w \in Pinned /\ wrap[w].kind = "slot"
      /\ \A w : w \in Pinned' <=> w \in Wraps /\ wrap'[w].st \in {"live", "dead"}
      /\ \A w : w \in PinnedFd' <=> w \in Pinned' /\ wrap'[w].kind = "slot"
  BY DEF Pinned, PinnedFd, In
<1>5. CASE Pinned' = Pinned /\ PinnedFd' = PinnedFd /\ UNCHANGED <<pinMap, pinFd>>
  BY <1>2, <1>5 DEF Counted
<1>6. CASE (\E k \in Kinds : sweep(k)) \/ gcEnds \/ mapFails \/ UNCHANGED vars
  <2>1. UNCHANGED <<wrap, pinMap, pinFd>>
    BY <1>6 DEF sweep, gcEnds, mapFails, vars
  <2> QED BY <1>4, <1>5, <2>1
<1>7. ASSUME pc = "map" \/ pc = "wrap", next \in Wraps, UNCHANGED <<pinMap, pinFd>>,
             wrap'[next].st \in {"new", "gone"},
             \A w \in Wraps : w # next => wrap'[w] = wrap[w]
      PROVE  Counted'
  <2>1. next \notin Pinned /\ next \notin Pinned'
    <3>1. ~(next < next)
      BY DEF PinInv, TypeOK
    <3> QED BY <1>1, <1>4, <1>7, <3>1 DEF PinInv, NumberInv
  <2>2. \A w : w \in Pinned <=> w \in Pinned'
    BY <1>4, <1>7, <2>1
  <2>3. \A w : w \in PinnedFd <=> w \in PinnedFd'
    BY <1>4, <1>7, <2>1, <2>2
  <2> QED BY <1>5, <1>7, <2>2, <2>3
<1>8. CASE (\E f \in Fds, b \in Bases : mapSlot(f, b)) \/ (\E b \in Bases : mapPlain(b))
           \/ wrapFails
  BY <1>1, <1>7, <1>8, StateOnly DEF mapSlot, mapPlain, wrapFails, PinInv
<1>9. CASE wrapped
  <2>1. /\ next \in Wraps /\ wrap[next].st = "new" /\ wrap[next].kind = kind
        /\ wrap'[next].st = "live" /\ wrap'[next].kind = kind
        /\ \A w \in Wraps : w # next => wrap'[w] = wrap[w]
        /\ pinMap' = pinMap + 1 /\ pinFd' = pinFd + Taken(kind)
    BY <1>1, <1>9, StateOnly DEF wrapped, PinInv, NumberInv
  <2>2. next \notin Pinned /\ Pinned' = Pinned \cup {next}
    BY <1>4, <2>1
  <2>3. PinnedFd' = IF kind = "slot" THEN PinnedFd \cup {next} ELSE PinnedFd
    <3>1. \A w : w \in PinnedFd' <=> w \in PinnedFd \/ (w = next /\ kind = "slot")
      BY <1>4, <2>1, <2>2
    <3> QED BY <3>1
  <2>4. next \notin PinnedFd
    BY <1>4, <2>2
  <2>5. Cardinality(Pinned \cup {next}) = pinMap + 1
    BY <1>2, <2>2, FS_AddElement
  <2>6. Cardinality(PinnedFd \cup {next}) = pinFd + 1
    BY <1>2, <2>4, FS_AddElement
  <2> QED BY <1>1, <1>2, <2>1, <2>2, <2>3, <2>5, <2>6 DEF Taken, Counted
<1>10. ASSUME NEW w \in Wraps, drop(w) \/ close(w) \/ munmap(w)
       PROVE  Counted'
  <2>1. /\ wrap[w].st = "live" /\ wrap'[w].st \in {"live", "dead"}
        /\ wrap'[w].kind = wrap[w].kind /\ UNCHANGED <<pinMap, pinFd>>
        /\ \A v \in Wraps : v # w => wrap'[v] = wrap[v]
    BY <1>1, <1>10, StateOnly DEF drop, close, munmap, Detached, PinInv
  <2>2. Pinned' = Pinned
    BY <1>4, <2>1
  <2>3. PinnedFd' = PinnedFd
    <3>1. \A v : v \in PinnedFd' <=> v \in PinnedFd
      BY <1>4, <2>1, <2>2
    <3> QED BY <3>1
  <2> QED BY <1>5, <2>1, <2>2, <2>3
<1>11. ASSUME NEW w \in Wraps, reapSlot(w) \/ reapPlain(w)
       PROVE  Counted'
  <2>1. /\ wrap[w].st = "dead" /\ wrap'[w].st = "gone"
        /\ \A v \in Wraps : v # w => wrap'[v] = wrap[v]
        /\ pinMap' = Dropped(pinMap, 1) /\ pinFd' = Dropped(pinFd, Taken(wrap[w].kind))
    BY <1>1, <1>11, StateOnly DEF reapSlot, reapPlain, PinInv, Taken
  <2>2. w \in Pinned /\ Pinned' = Pinned \ {w}
    BY <1>4, <2>1
  <2>3. PinnedFd' = PinnedFd \ {w} /\ (w \in PinnedFd <=> wrap[w].kind = "slot")
    BY <1>4, <2>1, <2>2
  <2>4. Cardinality(Pinned') = pinMap - 1 /\ pinMap # 0
    BY <1>2, <2>2, FS_RemoveElement, FS_EmptySet
  <2>5. /\ w \in PinnedFd => Cardinality(PinnedFd') = pinFd - 1 /\ pinFd # 0
        /\ w \notin PinnedFd => Cardinality(PinnedFd') = pinFd
    BY <1>2, <2>3, FS_RemoveElement, FS_EmptySet
  <2> QED BY <1>1, <2>1, <2>3, <2>4, <2>5 DEF Dropped, Taken, Counted
<1> QED BY <1>6, <1>8, <1>9, <1>10, <1>11 DEF Next

\* At first nothing is pinned.
LEMMA PinInit == Init => PinInv
<1> SUFFICES ASSUME Init PROVE PinInv
  OBVIOUS
<1>1. Pinned = {} /\ PinnedFd = {}
  BY DEF Init, Pinned, PinnedFd, In
<1>2. PinsExact
  BY <1>1, PinsCount, FS_EmptySet DEF Init, Counted
<1> QED BY <1>2, InitInv DEF PinInv, Inv

\* The counters that force a collection (JABCPinSweep) are exact: the wrappers
\* handed out and not finalized, and those of them that hold an fd, although
\* close and io._munmap release the mapping long before.
THEOREM PinsAlwaysExact == Spec => []PinsExact
<1>1. PinInv /\ [Next]_vars => PinInv'
  BY TypeStep, NumberStep, PinStep DEF PinInv
<1>2. PinInv => PinsExact
  BY DEF PinInv
<1> QED BY <1>1, <1>2, PinInit, PTL DEF Spec

\* The descriptors' mark is at the floor or above it, and less than two floors
\* above what the last forced collection left; while a mapping is made there is
\* room below it, and with a collection under way the counter does not grow.
SweepInv ==
    /\ PIN_FDS <= fdMark /\ fdMark < left + 2 * PIN_FDS
    /\ pinFd <= fdMark
    /\ pc \in {"map", "wrap"} => pinFd < fdMark

\* A finalizer only lowers the counter.
LEMMA DropLowers ==
    ASSUME NEW n \in Nat, NEW k \in {0, 1}
    PROVE  Dropped(n, k) \in Nat /\ Dropped(n, k) <= n
BY DEF Dropped

\* A sweep moves the mark ahead of the counter before a mapping is made.
LEMMA SweepStep ==
    ASSUME TypeOK, SweepInv, [Next]_vars
    PROVE  SweepInv'
<1>1. /\ pinFd \in Nat /\ fdMark \in Nat /\ left \in Nat
      /\ PIN_FDS \in Nat \ {0}
  BY ConstantsAssumption DEF TypeOK
<1>2. ASSUME NEW k \in Kinds, sweep(k)
      PROVE  SweepInv'
  BY <1>1, <1>2 DEF SweepInv, sweep, SweepDue, Forced
<1>3. CASE gcEnds
  BY <1>1, <1>3 DEF SweepInv, gcEnds
<1>4. CASE wrapped
  <2>1. Taken(kind) \in {0, 1}
    BY DEF Taken
  <2> QED BY <1>1, <1>4, <2>1 DEF SweepInv, wrapped
<1>5. CASE mapFails \/ wrapFails \/ UNCHANGED vars
  BY <1>1, <1>5 DEF SweepInv, mapFails, wrapFails, vars
<1>6. ASSUME NEW f \in Fds, NEW b \in Bases, mapSlot(f, b) \/ mapPlain(b)
      PROVE  SweepInv'
  BY <1>1, <1>6 DEF SweepInv, mapSlot, mapPlain
<1>7. ASSUME NEW b \in Bases, mapPlain(b)
      PROVE  SweepInv'
  BY <1>1, <1>7 DEF SweepInv, mapPlain
<1>8. ASSUME NEW w \in Wraps, drop(w) \/ close(w) \/ munmap(w)
      PROVE  SweepInv'
  BY <1>1, <1>8 DEF SweepInv, drop, close, munmap
<1>9. ASSUME NEW w \in Wraps, reapSlot(w) \/ reapPlain(w)
      PROVE  SweepInv'
  <2>1. PICK k \in {0, 1} : pinFd' = Dropped(pinFd, k)
    BY <1>9 DEF reapSlot, reapPlain, Taken
  <2>2. pinFd' \in Nat /\ pinFd' <= pinFd
    BY <1>1, <2>1, DropLowers
  <2>3. UNCHANGED <<fdMark, left, pc>>
    BY <1>9 DEF reapSlot, reapPlain
  <2> QED BY <1>1, <2>2, <2>3 DEF SweepInv
<1> QED BY <1>2, <1>3, <1>4, <1>5, <1>6, <1>7, <1>8, <1>9 DEF Next

\* Between two forced collections the wrappers that pin a descriptor grow by
\* less than two floors.
THEOREM DescriptorsSwept == Spec => []SweptInTime
<1>1. Init => SweepInv
  <2>1. PIN_FDS \in Nat \ {0}
    BY ConstantsAssumption
  <2> QED BY <2>1 DEF Init, SweepInv
<1>2. TypeOK /\ SweepInv /\ [Next]_vars => SweepInv'
  BY SweepStep
<1>3. TypeOK /\ SweepInv => SweptInTime
  BY ConstantsAssumption DEF TypeOK, SweepInv, SweptInTime
<1> QED BY <1>1, <1>2, <1>3, TypeCorrect, PTL DEF Spec

-----------------------------------------------------------------------------
(***************************************************************************)
(* io.readdir.                                                             *)
(***************************************************************************)

\* A set of numbers that is not empty has a least element.
LEMMA LeastIn ==
    ASSUME NEW S \in SUBSET Nat, S # {}
    PROVE  \E x \in S : \A y \in S : x <= y
<1> DEFINE R == {ss \in Nat \X Nat : ss[1] < ss[2]}
<1>1. IsWellFoundedOn(R, Nat)
  BY NatLessThanWellFounded, Zenon DEF OpToRel
<1>2. PICK x \in S : \A y \in S : ~(<<y, x>> \in R)
  BY <1>1, WFMin
<1>3. ASSUME NEW y \in S
      PROVE  x <= y
  <2>1. x \in Nat /\ y \in Nat /\ ~(<<y, x>> \in R) /\ <<y, x>> \in Nat \X Nat
    BY <1>2
  <2>2. y < x => <<y, x>> \in R
    BY <2>1
  <2> QED BY <2>1, <2>2
<1> QED BY <1>3

-----------------------------------------------------------------------------
(* Names: every entry has one path below the root.                         *)

\* A parent is a directory with a smaller number, or the root.
LEMMA TreeShape ==
    ASSUME NEW t \in Trees, NEW n \in Entries
    PROVE  /\ N \in Nat /\ n \in Nat /\ n >= 1 /\ n <= N
           /\ t.up[n] \in Nat /\ t.up[n] < n /\ t.up[n] # n
           /\ t.up[n] # Root => t.up[n] \in Entries /\ t.up[n] \in t.dir
<1>1. N \in Nat
  BY EntriesAssumption
<1>2. t.up \in [Entries -> Root .. N] /\ t.up[n] < n /\ t.up[n] \in t.dir \cup {Root}
  BY DEF Trees
<1>3. n \in 1 .. N /\ t.up[n] \in 0 .. N
  BY <1>2 DEF Entries, Root
<1>4. t.up[n] # Root => t.up[n] \in Entries /\ t.up[n] \in t.dir
  BY <1>1, <1>2, <1>3 DEF Entries, Root
<1> QED BY <1>1, <1>2, <1>3, <1>4

\* The path to n: each entry on it is in the one before it.
IsPath(t, p, n) ==
    /\ p \in Seq(Entries) /\ Len(p) >= 1 /\ p[Len(p)] = n
    /\ t.up[p[1]] = Root
    /\ \A i \in 2 .. Len(p) : t.up[p[i]] = p[i - 1]

\* The numbers on a path grow: it is no longer than the number of entries.
LEMMA PathShort ==
    ASSUME NEW t \in Trees, NEW n, NEW p, IsPath(t, p, n)
    PROVE  Len(p) \in 1 .. N
<1> DEFINE l == Len(p)
           S == {i \in 1 .. l : p[i] < i}
<1>1. l \in Nat /\ p \in Seq(Entries) /\ l >= 1
  BY LenProperties DEF IsPath
<1>2. \A i \in 1 .. l : p[i] \in Entries
  BY <1>1, ElementOfSeq
<1>3. S = {}
  <2> SUFFICES ASSUME S # {} PROVE FALSE
    OBVIOUS
  <2>1. S \in SUBSET Nat
    BY <1>1
  <2>2. PICK i \in S : \A j \in S : i <= j
    BY <2>1, LeastIn
  <2>3. i \in 1 .. l /\ p[i] < i /\ i \in Nat
    BY <1>1
  <2>4. p[i] \in Nat /\ p[i] >= 1
    BY <1>2, <2>3, TreeShape
  <2>5. i \in 2 .. l /\ i - 1 \in 1 .. l
    BY <1>1, <2>3, <2>4
  <2>6. t.up[p[i]] = p[i - 1] /\ p[i] \in Entries
    BY <1>2, <2>3, <2>5 DEF IsPath
  <2>7. p[i - 1] \in Nat /\ p[i - 1] < p[i]
    BY <2>6, TreeShape
  <2>8. p[i - 1] < i - 1
    BY <2>3, <2>4, <2>7
  <2>9. i - 1 \in S
    BY <2>5, <2>8
  <2>10. i <= i - 1
    BY <2>2, <2>9
  <2> QED BY <2>3, <2>10
<1>4. l \in 1 .. l
  BY <1>1
<1>5. ~(p[l] < l) /\ p[l] \in Entries
  BY <1>2, <1>3, <1>4
<1>6. p[l] \in Nat /\ p[l] <= N /\ N \in Nat
  BY <1>5, TreeShape
<1> QED BY <1>1, <1>5, <1>6

\* Below is the set of the paths.
LEMMA BelowIs ==
    ASSUME NEW t \in Trees, NEW n, NEW p
    PROVE  p \in Below(t, n) <=> IsPath(t, p, n)
<1>1. N \in Nat
  BY EntriesAssumption
<1>2. ASSUME p \in Below(t, n) PROVE IsPath(t, p, n)
  <2>1. /\ p \in SeqOf(Entries, N) /\ p # <<>> /\ p[Len(p)] = n /\ t.up[Head(p)] = Root
        /\ \A i \in 2 .. Len(p) : t.up[p[i]] = p[i - 1]
    BY <1>2 DEF Below, Last
  <2>2. PICK m \in 0 .. N : p \in [1 .. m -> Entries]
    BY <2>1 DEF SeqOf
  <2>3. m \in Nat
    BY <1>1
  <2>4. p \in Seq(Entries) /\ Len(p) = m
    BY <2>2, <2>3
  <2>5. Len(p) >= 1
    BY <2>1, <2>4, EmptySeq
  <2>6. Head(p) = p[1]
    BY <2>4, <2>5
  <2> QED BY <2>1, <2>4, <2>5, <2>6 DEF IsPath
<1>3. ASSUME IsPath(t, p, n) PROVE p \in Below(t, n)
  <2>1. /\ p \in Seq(Entries) /\ Len(p) >= 1 /\ p[Len(p)] = n
        /\ t.up[p[1]] = Root /\ \A i \in 2 .. Len(p) : t.up[p[i]] = p[i - 1]
    BY <1>3 DEF IsPath
  <2>2. Len(p) \in 1 .. N
    BY <1>3, PathShort
  <2>3. Len(p) \in 0 .. N /\ p \in [1 .. Len(p) -> Entries]
    BY <1>1, <2>1, <2>2, LenProperties
  <2>4. p \in SeqOf(Entries, N)
    BY <2>3 DEF SeqOf
  <2>5. p # <<>>
    BY <2>1, EmptySeq
  <2>6. Head(p) = p[1]
    BY <2>1
  <2> QED BY <2>1, <2>4, <2>5, <2>6 DEF Below, Last
<1> QED BY <1>2, <1>3

\* The path to an entry at the top, and to one further down.
LEMMA PathTop ==
    ASSUME NEW t \in Trees, NEW n \in Entries, t.up[n] = Root, NEW p
    PROVE  IsPath(t, p, n) <=> p = <<n>>
<1>1. ASSUME IsPath(t, p, n) PROVE p = <<n>>
  <2>1. /\ p \in Seq(Entries) /\ Len(p) >= 1 /\ p[Len(p)] = n /\ Len(p) \in Nat
        /\ \A i \in 2 .. Len(p) : t.up[p[i]] = p[i - 1]
    BY <1>1, LenProperties DEF IsPath
  <2>2. Len(p) = 1
    <3> SUFFICES ASSUME Len(p) # 1 PROVE FALSE
      OBVIOUS
    <3> DEFINE l == Len(p)
    <3>3. l \in Nat /\ l >= 1 /\ l # 1
      BY <2>1
    <3> HIDE DEF l
    <3>4. l \in 2 .. l /\ l - 1 \in 1 .. l
      BY <3>3
    <3>1. Len(p) \in 2 .. Len(p) /\ Len(p) - 1 \in 1 .. Len(p)
      BY <3>4 DEF l
    <3>2. p[Len(p) - 1] = Root /\ p[Len(p) - 1] \in Entries
      BY <2>1, <3>1, ElementOfSeq
    <3> QED BY <3>2 DEF Entries, Root
  <2>3. p[1] = n
    BY <2>1, <2>2
  <2>4. <<n>> \in Seq(Entries) /\ Len(<<n>>) = 1 /\ <<n>>[1] = n
    OBVIOUS
  <2>5. \A i \in 1 .. Len(p) : p[i] = <<n>>[i]
    BY <2>2, <2>3, <2>4
  <2> QED BY <2>1, <2>2, <2>4, <2>5, SeqEqual
<1>2. IsPath(t, <<n>>, n)
  <2> DEFINE q == <<n>>
  <2>1. q \in Seq(Entries) /\ Len(q) = 1 /\ q[1] = n
    OBVIOUS
  <2> HIDE DEF q
  <2>2. IsPath(t, q, n)
    BY <2>1 DEF IsPath
  <2> QED BY <2>2 DEF q
<1> QED BY <1>1, <1>2

\* The path to an entry in a directory is the path of the directory, and the entry.
LEMMA PathDown ==
    ASSUME NEW t \in Trees, NEW n \in Entries, NEW m, m = t.up[n], m # Root, NEW p
    PROVE  IsPath(t, p, n) <=> \E q : IsPath(t, q, m) /\ p = Append(q, n)
<1>1. ASSUME IsPath(t, p, n) PROVE \E q : IsPath(t, q, m) /\ p = Append(q, n)
  <2>1. /\ p \in Seq(Entries) /\ Len(p) >= 1 /\ p[Len(p)] = n /\ Len(p) \in Nat
        /\ t.up[p[1]] = Root
        /\ \A i \in 2 .. Len(p) : t.up[p[i]] = p[i - 1]
    BY <1>1, LenProperties DEF IsPath
  <2>2. Len(p) # 1
    BY <2>1
  <2>3. p # <<>>
    BY <2>1, EmptySeq
  <2>4. PICK q \in Seq(Entries), x \in Entries : p = Append(q, x)
    BY <2>1, <2>3, SequenceEmptyOrAppend
  <2>5. /\ Len(p) = Len(q) + 1 /\ Len(q) \in Nat
        /\ \A i \in 1 .. Len(q) : p[i] = q[i]
        /\ p[Len(q) + 1] = x
    BY <2>4, AppendProperties, LenProperties
  <2>6. Len(q) >= 1 /\ x = n
    BY <2>1, <2>2, <2>5
  <2>7. /\ 1 \in 1 .. Len(q) /\ Len(q) \in 1 .. Len(q) /\ Len(p) \in 2 .. Len(p)
        /\ Len(p) - 1 = Len(q)
        /\ \A i \in 2 .. Len(q) : i \in 2 .. Len(p) /\ i \in 1 .. Len(q) /\ i - 1 \in 1 .. Len(q)
    BY <2>1, <2>2, <2>5, <2>6
  <2>8. q[Len(q)] = m
    <3>1. p[Len(p) - 1] = t.up[n]
      BY <2>1, <2>7
    <3>2. p[Len(q)] = t.up[n]
      BY <2>7, <3>1
    <3> QED BY <2>5, <2>7, <3>2
  <2>9. t.up[q[1]] = Root
    BY <2>1, <2>5, <2>7
  <2>10. \A i \in 2 .. Len(q) : t.up[q[i]] = q[i - 1]
    BY <2>1, <2>5, <2>7
  <2>11. IsPath(t, q, m)
    BY <2>4, <2>6, <2>8, <2>9, <2>10 DEF IsPath
  <2> QED BY <2>4, <2>6, <2>11
<1>2. ASSUME NEW q, IsPath(t, q, m) PROVE IsPath(t, Append(q, n), n)
  <2> DEFINE r == Append(q, n)
  <2>1. /\ q \in Seq(Entries) /\ Len(q) >= 1 /\ q[Len(q)] = m /\ Len(q) \in Nat
        /\ t.up[q[1]] = Root
        /\ \A i \in 2 .. Len(q) : t.up[q[i]] = q[i - 1]
    BY <1>2, LenProperties DEF IsPath
  <2>2. /\ r \in Seq(Entries) /\ Len(r) = Len(q) + 1
        /\ \A i \in 1 .. Len(q) : r[i] = q[i]
        /\ r[Len(q) + 1] = n
    BY <2>1, AppendProperties
  <2> HIDE DEF r
  <2>3. /\ Len(r) >= 1 /\ r[Len(r)] = n /\ 1 \in 1 .. Len(q)
    BY <2>1, <2>2
  <2>4. t.up[r[1]] = Root
    BY <2>1, <2>2, <2>3
  <2>5. ASSUME NEW i \in 2 .. Len(r) PROVE t.up[r[i]] = r[i - 1]
    <3>1. CASE i \in 2 .. Len(q)
      <4>1. i \in 1 .. Len(q) /\ i - 1 \in 1 .. Len(q)
        BY <2>1, <3>1
      <4> QED BY <2>1, <2>2, <3>1, <4>1
    <3>2. CASE i \notin 2 .. Len(q)
      <4>1. i = Len(q) + 1 /\ i - 1 = Len(q) /\ Len(q) \in 1 .. Len(q)
        BY <2>1, <2>2, <3>2
      <4>2. r[i] = n /\ r[i - 1] = q[Len(q)]
        BY <2>2, <4>1
      <4> QED BY <2>1, <4>2
    <3> QED BY <3>1, <3>2
  <2>6. IsPath(t, r, n)
    BY <2>2, <2>3, <2>4, <2>5 DEF IsPath
  <2> QED BY <2>6 DEF r
<1> QED BY <1>1, <1>2

\* Every entry has one path.
Only(t, p, n) == \A q : IsPath(t, q, n) <=> q = p

\* By least counterexample: a parent has a smaller number.
LEMMA OnePath ==
    ASSUME NEW t \in Trees
    PROVE  \A n \in Entries : \E p : Only(t, p, n)
<1> DEFINE Good(n) == \E p : Only(t, p, n)
           S == {n \in Entries : ~Good(n)}
<1>1. ASSUME NEW n \in Entries, t.up[n] = Root PROVE Good(n)
  <2>1. \A q : IsPath(t, q, n) <=> q = <<n>>
    BY <1>1, PathTop
  <2>2. Only(t, <<n>>, n)
    BY <2>1 DEF Only
  <2> QED BY <2>2
<1>2. ASSUME NEW n \in Entries, t.up[n] # Root, Good(t.up[n]) PROVE Good(n)
  <2>1. PICK p : Only(t, p, t.up[n])
    BY <1>2
  <2>2. \A q : IsPath(t, q, n) <=> q = Append(p, n)
    BY <1>2, <2>1, PathDown DEF Only
  <2>3. Only(t, Append(p, n), n)
    BY <2>2 DEF Only
  <2> QED BY <2>3
<1>3. S = {}
  <2> SUFFICES ASSUME S # {} PROVE FALSE
    OBVIOUS
  <2>1. S \in SUBSET Nat
    BY TreeShape
  <2> HIDE DEF Good
  <2>2. PICK n \in S : \A k \in S : n <= k
    BY <2>1, LeastIn
  <2>3. n \in Entries /\ ~Good(n)
    OBVIOUS
  <2>4. t.up[n] # Root
    BY <1>1, <2>3
  <2>5. t.up[n] \in Entries /\ t.up[n] < n /\ t.up[n] \in Nat /\ n \in Nat
    BY <2>3, <2>4, TreeShape
  <2>6. t.up[n] \in S
    BY <1>2, <2>3, <2>4, <2>5
  <2> QED BY <2>2, <2>5, <2>6
<1>4. \A n \in Entries : Good(n)
  <2> HIDE DEF Good
  <2> QED BY <1>3
<1> QED BY <1>4

\* The name of an entry is its path.
LEMMA NameIs ==
    ASSUME tree \in Trees, NEW n \in Entries
    PROVE  /\ IsPath(tree, NameOf(n), n)
           /\ \A q : IsPath(tree, q, n) => q = NameOf(n)
<1>1. PICK p : Only(tree, p, n)
  BY OnePath
<1>2. \A q : q \in Below(tree, n) <=> q = p
  BY <1>1, BelowIs DEF Only
<1>3. NameOf(n) \in Below(tree, n)
  BY <1>2 DEF NameOf
<1>4. NameOf(n) = p
  BY <1>2, <1>3
<1> QED BY <1>1, <1>4 DEF Only

\* The name of an entry from the name of its directory.
LEMMA NameStep ==
    ASSUME tree \in Trees, NEW n \in Entries
    PROVE  /\ NameOf(n) \in Seq(Entries) /\ Len(NameOf(n)) \in Nat /\ Len(NameOf(n)) >= 1
           /\ NameOf(n)[Len(NameOf(n))] = n
           /\ tree.up[n] = Root => NameOf(n) = <<n>>
           /\ tree.up[n] # Root => NameOf(n) = Append(NameOf(tree.up[n]), n)
<1>1. IsPath(tree, NameOf(n), n) /\ \A q : IsPath(tree, q, n) => q = NameOf(n)
  BY NameIs
<1>2. /\ NameOf(n) \in Seq(Entries) /\ Len(NameOf(n)) \in Nat /\ Len(NameOf(n)) >= 1
      /\ NameOf(n)[Len(NameOf(n))] = n
  BY <1>1, LenProperties DEF IsPath
<1>3. ASSUME tree.up[n] = Root PROVE NameOf(n) = <<n>>
  BY <1>1, <1>3, PathTop
<1>4. ASSUME tree.up[n] # Root PROVE NameOf(n) = Append(NameOf(tree.up[n]), n)
  <2> DEFINE m == tree.up[n]
  <2>1. m \in Entries
    BY <1>4, TreeShape
  <2>2. IsPath(tree, NameOf(m), m)
    BY <2>1, NameIs
  <2>3. IsPath(tree, Append(NameOf(m), n), n)
    BY <1>4, <2>2, PathDown
  <2> QED BY <1>1, <2>3
<1> QED BY <1>2, <1>3, <1>4

\* An entry is reached when it is shown, and its directory is reached and entered.
LEMMA ReachedStep ==
    ASSUME tree \in Trees, NEW n \in Entries
    PROVE  n \in Reached <=>
             /\ Shown(n)
             /\ tree.up[n] # Root => tree.up[n] \in Reached /\ Entered(tree.up[n])
<1> DEFINE p == NameOf(n)
           l == Len(p)
           m == tree.up[n]
<1>1. /\ p \in Seq(Entries) /\ l \in Nat /\ l >= 1 /\ p[l] = n
      /\ m = Root => p = <<n>>
      /\ m # Root => p = Append(NameOf(m), n)
  BY NameStep
<1>2. n \in Reached <=> /\ \A i \in 1 .. l : Shown(p[i])
                        /\ \A i \in 1 .. l - 1 : Entered(p[i])
  BY DEF Reached
<1>3. CASE m = Root
  <2>1. l = 1 /\ p[1] = n
    BY <1>1, <1>3
  <2> HIDE DEF p, l, m
  <2>2. 1 .. l = {1} /\ 1 .. l - 1 = {}
    BY <2>1
  <2> QED BY <1>2, <1>3, <2>1, <2>2 DEF m
<1>4. CASE m # Root
  <2> DEFINE q == NameOf(m)
             k == Len(q)
  <2>1. m \in Entries
    BY <1>4, TreeShape
  <2>2. q \in Seq(Entries) /\ k \in Nat /\ k >= 1 /\ q[k] = m
    BY <2>1, NameStep
  <2>3. m \in Reached <=> /\ \A i \in 1 .. k : Shown(q[i])
                          /\ \A i \in 1 .. k - 1 : Entered(q[i])
    BY <2>1 DEF Reached
  <2>4. l = k + 1 /\ (\A i \in 1 .. k : p[i] = q[i]) /\ p[k + 1] = n
    BY <1>1, <1>4, <2>2, AppendProperties
  <2> HIDE DEF p, l, m, q, k
  <2>5. 1 .. l = 1 .. k \cup {k + 1} /\ 1 .. l - 1 = 1 .. k - 1 \cup {k}
        /\ k \in 1 .. k /\ \A i \in 1 .. k - 1 : i \in 1 .. k
    BY <2>2, <2>4
  <2>6. (\A i \in 1 .. l : Shown(p[i])) <=> (\A i \in 1 .. k : Shown(q[i])) /\ Shown(n)
    BY <2>4, <2>5
  <2>7. (\A i \in 1 .. l - 1 : Entered(p[i])) <=>
            (\A i \in 1 .. k - 1 : Entered(q[i])) /\ Entered(m)
    BY <2>2, <2>4, <2>5
  <2> QED BY <1>2, <1>4, <2>3, <2>6, <2>7 DEF m
<1> QED BY <1>3, <1>4

-----------------------------------------------------------------------------
(* What has been handed out, and the scans on the stack.                   *)

Handed(o) == {Last(o[i]) : i \in 1 .. Len(o)}

\* One more name hands out its last entry.
LEMMA HandedMore ==
    ASSUME NEW S, NEW o \in Seq(S), NEW p \in S
    PROVE  Handed(Append(o, p)) = Handed(o) \cup {Last(p)}
<1> DEFINE q == Append(o, p)
           l == Len(o)
<1>1. /\ Len(q) = l + 1 /\ l \in Nat /\ (\A i \in 1 .. l : q[i] = o[i]) /\ q[l + 1] = p
  BY AppendProperties, LenProperties
<1> HIDE DEF q, l
<1>2. 1 .. Len(q) = 1 .. l \cup {l + 1}
  BY <1>1
<1>3. {Last(q[i]) : i \in 1 .. Len(q)} = {Last(q[i]) : i \in 1 .. l} \cup {Last(q[l + 1])}
  BY <1>2
<1>4. {Last(q[i]) : i \in 1 .. l} = {Last(o[i]) : i \in 1 .. l}
  BY <1>1
<1> QED BY <1>1, <1>3, <1>4 DEF Handed, q, l

\* A path of a scan: the root, then the path of its directory.
AtPath(t, p, d) ==
    /\ p \in Seq(Root .. N) /\ p # <<>> /\ Head(p) = Root /\ Last(p) = d
    /\ IF d = Root THEN Tail(p) = <<>> ELSE d \in Entries /\ IsPath(t, Tail(p), d)

\* The path of an entry of that directory.
LEMMA PathNext ==
    ASSUME NEW t \in Trees, NEW p, NEW d, AtPath(t, p, d), NEW n \in Children(t, d)
    PROVE  /\ n \in Entries /\ t.up[n] = d
           /\ IsPath(t, Tail(Append(p, n)), n)
           /\ AtPath(t, Append(p, n), n)
<1>1. n \in Entries /\ t.up[n] = d
  BY DEF Children
<1>2. p \in Seq(Root .. N) /\ p # <<>> /\ Head(p) = Root /\ Last(p) = d
  BY DEF AtPath
<1>3. n \in Root .. N /\ n # Root
  BY <1>1, TreeShape DEF Root
<1>4. Tail(Append(p, n)) = Append(Tail(p), n) /\ Head(Append(p, n)) = Root
  BY <1>2, HeadTailAppend
<1>5. /\ Append(p, n) \in Seq(Root .. N) /\ Append(p, n) # <<>>
      /\ Len(Append(p, n)) = Len(p) + 1 /\ Append(p, n)[Len(p) + 1] = n
  BY <1>2, <1>3, AppendProperties
<1>6. Last(Append(p, n)) = n
  BY <1>5 DEF Last
<1>7. IsPath(t, Tail(Append(p, n)), n)
  <2>1. CASE d = Root
    <3>1. Tail(p) = <<>>
      BY <2>1 DEF AtPath
    <3>2. Append(<<>>, n) = <<n>>
      OBVIOUS
    <3>3. IsPath(t, <<n>>, n)
      BY <1>1, <2>1, PathTop
    <3> QED BY <1>4, <3>1, <3>2, <3>3
  <2>2. CASE d # Root
    <3>1. IsPath(t, Tail(p), d)
      BY <2>2 DEF AtPath
    <3>2. IsPath(t, Append(Tail(p), n), n)
      BY <1>1, <2>2, <3>1, PathDown
    <3> QED BY <1>4, <3>2
  <2> QED BY <2>1, <2>2
<1>8. AtPath(t, Append(p, n), n)
  BY <1>1, <1>3, <1>4, <1>5, <1>6, <1>7 DEF AtPath
<1> QED BY <1>1, <1>7, <1>8

ShownBy(t, h, n) == h \/ n \notin t.dot
EnteredBy(r, s, n) == IF r THEN s[n] # "skip" ELSE s[n] = "recur"

\* A directory whose scan has begun.
Opened(t, r, s, H, d) == d = Root \/ (d \in H /\ d \in t.dir /\ EnteredBy(r, s, d))

\* A scan on the stack: what it has still to deliver was not handed out, and
\* what it has delivered was, unless it is hidden.
ScanOf(t, h, r, s, H, f, d) ==
    /\ AtPath(t, f.path, d) /\ Opened(t, r, s, H, d)
    /\ f.left \subseteq Children(t, d) /\ f.left \cap H = {}
    /\ \A n \in Children(t, d) : n \in f.left \/ (ShownBy(t, h, n) => n \in H)

Frame == [path : Seq(Root .. N), left : SUBSET Entries]
Less(f, n) == [f EXCEPT !.left = @ \ {n}]

\* A scan with one entry fewer to deliver.
LEMMA LessShape ==
    ASSUME NEW f \in Frame, NEW n
    PROVE  Less(f, n) \in Frame /\ Less(f, n).path = f.path /\ Less(f, n).left = f.left \ {n}
BY DEF Frame, Less

\* A scan that another one's entry does not concern.
LEMMA OtherScan ==
    ASSUME NEW t, NEW h, NEW r, NEW s, NEW z, NEW H, NEW f, NEW d, NEW n,
           ScanOf(t, h, r, s, H, f, d), n \notin f.left, \A x \in H : z[x] = s[x]
    PROVE  ScanOf(t, h, r, z, H \cup {n}, f, d)
<1>1. Opened(t, r, z, H \cup {n}, d)
  BY DEF ScanOf, Opened, EnteredBy
<1> QED BY <1>1 DEF ScanOf

\* The scan whose entry is handed out, or left out because it is hidden.
LEMMA ThisScan ==
    ASSUME NEW t, NEW h, NEW r, NEW s, NEW z, NEW H, NEW f \in Frame, NEW d, NEW n,
           ScanOf(t, h, r, s, H, f, d), \A x \in H : z[x] = s[x]
    PROVE  /\ ScanOf(t, h, r, z, H \cup {n}, Less(f, n), d)
           /\ ~ShownBy(t, h, n) => ScanOf(t, h, r, s, H, Less(f, n), d)
<1>1. Opened(t, r, z, H \cup {n}, d)
  BY DEF ScanOf, Opened, EnteredBy
<1>2. Less(f, n).path = f.path /\ Less(f, n).left = f.left \ {n}
  BY LessShape
<1>3. ScanOf(t, h, r, z, H \cup {n}, Less(f, n), d)
  BY <1>1, <1>2 DEF ScanOf
<1>4. ASSUME ~ShownBy(t, h, n) PROVE ScanOf(t, h, r, s, H, Less(f, n), d)
  BY <1>2, <1>4 DEF ScanOf
<1> QED BY <1>3, <1>4

\* A scan that begins.
LEMMA NewScan ==
    ASSUME NEW t \in Trees, NEW h, NEW r, NEW z, NEW H, NEW f \in Frame, NEW n \in Entries,
           AtPath(t, f.path, n), f.left = Children(t, n), n \in t.dir, EnteredBy(r, z, n),
           \A x \in H : t.up[x] # n
    PROVE  ScanOf(t, h, r, z, H \cup {n}, f, n)
<1>1. Opened(t, r, z, H \cup {n}, n)
  BY DEF Opened
<1>2. n \notin Children(t, n)
  BY TreeShape DEF Children
<1>3. Children(t, n) \cap H = {}
  BY DEF Children
<1> QED BY <1>1, <1>2, <1>3 DEF ScanOf

\* The scans on a stack are of different directories.
Scans(t, h, r, s, H, S) ==
    /\ \A k \in 1 .. Len(S) : ScanOf(t, h, r, s, H, S[k], Last(S[k].path))
    /\ \A j, k \in 1 .. Len(S) : Last(S[j].path) = Last(S[k].path) => j = k

\* A sequence with one element more in front.
LEMMA PushShape ==
    ASSUME NEW T, NEW a \in T, NEW s \in Seq(T)
    PROVE  /\ <<a>> \o s \in Seq(T) /\ Len(<<a>> \o s) = Len(s) + 1 /\ Len(s) \in Nat
           /\ (<<a>> \o s)[1] = a
           /\ \A k \in 1 .. Len(s) : (<<a>> \o s)[k + 1] = s[k]
           /\ \A k \in 2 .. Len(s) + 1 : k - 1 \in 1 .. Len(s) /\ (<<a>> \o s)[k] = s[k - 1]
<1> DEFINE l == Len(s)
           q == <<a>> \o s
<1>1. <<a>> \in Seq(T) /\ Len(<<a>>) = 1 /\ <<a>>[1] = a /\ l \in Nat
  BY LenProperties
<1>2. /\ q \in Seq(T) /\ Len(q) = 1 + l
      /\ \A i \in 1 .. 1 + l : q[i] = IF i <= 1 THEN <<a>>[i] ELSE s[i - 1]
  BY <1>1, ConcatProperties
<1> HIDE DEF q, l
<1>3. Len(q) = l + 1 /\ 1 \in 1 .. 1 + l
  BY <1>1, <1>2
<1>4. q[1] = a
  BY <1>1, <1>2, <1>3
<1>5. ASSUME NEW k \in 1 .. l PROVE q[k + 1] = s[k]
  <2>1. k + 1 \in 1 .. 1 + l /\ ~(k + 1 <= 1) /\ (k + 1) - 1 = k
    BY <1>1
  <2> QED BY <1>2, <2>1
<1>6. ASSUME NEW k \in 2 .. l + 1 PROVE k - 1 \in 1 .. l /\ q[k] = s[k - 1]
  <2>1. k \in 1 .. 1 + l /\ ~(k <= 1) /\ k - 1 \in 1 .. l
    BY <1>1
  <2> QED BY <1>2, <2>1
<1> QED BY <1>1, <1>2, <1>3, <1>4, <1>5, <1>6 DEF q, l

\* A scan begins on top of a stack.
LEMMA PushScans ==
    ASSUME NEW t, NEW h, NEW r, NEW s, NEW H, NEW S \in Seq(Frame), Scans(t, h, r, s, H, S),
           NEW g \in Frame, ScanOf(t, h, r, s, H, g, Last(g.path)),
           \A k \in 1 .. Len(S) : Last(S[k].path) # Last(g.path)
    PROVE  Scans(t, h, r, s, H, <<g>> \o S)
<1> DEFINE Q == <<g>> \o S
           l == Len(S)
<1>1. /\ Len(Q) = l + 1 /\ l \in Nat /\ Q[1] = g
      /\ \A k \in 2 .. l + 1 : k - 1 \in 1 .. l /\ Q[k] = S[k - 1]
  BY PushShape
<1>2. /\ \A k \in 1 .. l : ScanOf(t, h, r, s, H, S[k], Last(S[k].path))
      /\ \A j, k \in 1 .. l : Last(S[j].path) = Last(S[k].path) => j = k
      /\ \A k \in 1 .. l : Last(S[k].path) # Last(g.path)
  BY DEF Scans
<1> HIDE DEF Q, l
<1>3. \A k \in 1 .. l + 1 : k = 1 \/ k \in 2 .. l + 1
  BY <1>1
<1>4. ASSUME NEW k \in 1 .. l + 1 PROVE ScanOf(t, h, r, s, H, Q[k], Last(Q[k].path))
  <2>1. CASE k = 1
    BY <1>1, <2>1
  <2>2. CASE k \in 2 .. l + 1
    BY <1>1, <1>2, <2>2
  <2> QED BY <1>3, <2>1, <2>2
<1>5. ASSUME NEW j \in 1 .. l + 1, NEW k \in 1 .. l + 1, Last(Q[j].path) = Last(Q[k].path)
      PROVE  j = k
  <2>1. CASE j = 1 /\ k = 1
    BY <2>1
  <2>2. CASE j = 1 /\ k \in 2 .. l + 1
    BY <1>1, <1>2, <1>5, <2>2
  <2>3. CASE j \in 2 .. l + 1 /\ k = 1
    BY <1>1, <1>2, <1>5, <2>3
  <2>4. CASE j \in 2 .. l + 1 /\ k \in 2 .. l + 1
    <3>1. j - 1 = k - 1
      BY <1>1, <1>2, <1>5, <2>4
    <3> QED BY <1>1, <3>1
  <2> QED BY <1>3, <2>1, <2>2, <2>3, <2>4
<1> QED BY <1>1, <1>4, <1>5 DEF Scans, Q

\* The scan on top ends: the others are as they were.
LEMMA PopScans ==
    ASSUME NEW t, NEW h, NEW r, NEW s, NEW H, NEW S \in Seq(Frame), Scans(t, h, r, s, H, S),
           S # <<>>
    PROVE  /\ Tail(S) \in Seq(Frame) /\ Scans(t, h, r, s, H, Tail(S))
           /\ Len(S) \in Nat /\ 1 \in 1 .. Len(S) /\ Head(S) = S[1]
           /\ \A k \in 1 .. Len(S) : k = 1 \/ \E j \in 1 .. Len(Tail(S)) : Tail(S)[j] = S[k]
<1> DEFINE Q == Tail(S)
           l == Len(S)
           m == Len(Q)
<1>1. Q \in Seq(Frame) /\ m = l - 1 /\ \A k \in 1 .. m : Q[k] = S[k + 1]
  BY HeadTailProperties
<1>2. l \in Nat /\ l # 0
  BY EmptySeq
<1>3. Head(S) = S[1]
  BY <1>2
<1>4. /\ \A k \in 1 .. l : ScanOf(t, h, r, s, H, S[k], Last(S[k].path))
      /\ \A j, k \in 1 .. l : Last(S[j].path) = Last(S[k].path) => j = k
  BY DEF Scans
<1> HIDE DEF Q, l, m
<1>5. 1 \in 1 .. l /\ m \in Nat /\ \A k \in 1 .. m : k + 1 \in 1 .. l
  BY <1>1, <1>2
<1>6. \A k \in 1 .. m : ScanOf(t, h, r, s, H, Q[k], Last(Q[k].path))
  BY <1>1, <1>4, <1>5
<1>7. ASSUME NEW j \in 1 .. m, NEW k \in 1 .. m, Last(Q[j].path) = Last(Q[k].path) PROVE j = k
  <2>1. j + 1 = k + 1
    BY <1>1, <1>4, <1>5, <1>7
  <2> QED BY <1>5, <2>1
<1>8. ASSUME NEW k \in 1 .. l, k # 1 PROVE \E j \in 1 .. m : Q[j] = S[k]
  <2>1. k - 1 \in 1 .. m /\ (k - 1) + 1 = k
    BY <1>1, <1>2, <1>8
  <2> QED BY <1>1, <2>1
<1>9. Scans(t, h, r, s, H, Q)
  BY <1>6, <1>7 DEF Scans, m
<1> QED BY <1>1, <1>2, <1>3, <1>5, <1>8, <1>9 DEF Q, l, m

\* The stack when the scan on top has delivered n.
After(S, n) == <<Less(Head(S), n)>> \o Tail(S)

\* Only the scan on top changes.
LEMMA AfterShape ==
    ASSUME NEW S \in Seq(Frame), S # <<>>, NEW n
    PROVE  /\ After(S, n) \in Seq(Frame) /\ Len(After(S, n)) = Len(S)
           /\ Len(S) \in Nat /\ 1 \in 1 .. Len(S) /\ Head(S) = S[1] /\ S[1] \in Frame
           /\ After(S, n)[1] = Less(S[1], n)
           /\ \A k \in 1 .. Len(S) : k # 1 => After(S, n)[k] = S[k]
           /\ \A k \in 1 .. Len(S) : After(S, n)[k].path = S[k].path
<1> DEFINE Q == Tail(S)
           l == Len(S)
           m == Len(Q)
           g == Less(S[1], n)
           A == <<g>> \o Q
<1>1. Q \in Seq(Frame) /\ m = l - 1 /\ \A k \in 1 .. m : Q[k] = S[k + 1]
  BY HeadTailProperties
<1>2. l \in Nat /\ l # 0
  BY EmptySeq
<1>3. Head(S) = S[1]
  BY <1>2
<1>4. 1 \in 1 .. l
  BY <1>2
<1>5. S[1] \in Frame
  BY <1>4, ElementOfSeq
<1>6. g \in Frame /\ g.path = S[1].path
  BY <1>5, LessShape
<1> HIDE DEF Q, l, m, g
<1>7. /\ A \in Seq(Frame) /\ Len(A) = m + 1 /\ m \in Nat /\ A[1] = g
      /\ \A k \in 2 .. m + 1 : k - 1 \in 1 .. m /\ A[k] = Q[k - 1]
  BY <1>1, <1>6, PushShape DEF m
<1>8. Len(A) = l
  BY <1>1, <1>2, <1>7
<1> HIDE DEF A
<1>9. ASSUME NEW k \in 1 .. l, k # 1 PROVE A[k] = S[k]
  <2>1. k \in 2 .. m + 1 /\ (k - 1) + 1 = k
    BY <1>1, <1>2, <1>9
  <2>2. k - 1 \in 1 .. m /\ A[k] = Q[k - 1]
    BY <1>7, <2>1
  <2> QED BY <1>1, <2>1, <2>2
<1>10. \A k \in 1 .. l : A[k].path = S[k].path
  <2> TAKE k \in 1 .. l
  <2>1. CASE k = 1
    BY <1>6, <1>7, <2>1
  <2>2. CASE k # 1
    BY <1>9, <2>2
  <2> QED BY <2>1, <2>2
<1>11. A = After(S, n)
  BY <1>3 DEF After, A, g, Q
<1> QED BY <1>2, <1>3, <1>4, <1>5, <1>7, <1>8, <1>9, <1>10, <1>11 DEF g, l

\* The scans when the one on top has delivered n, whether n is shown or hidden.
LEMMA AfterScans ==
    ASSUME NEW t, NEW h, NEW r, NEW s, NEW z, NEW H, NEW S \in Seq(Frame),
           Scans(t, h, r, s, H, S), S # <<>>, NEW n \in S[1].left, \A x \in H : z[x] = s[x]
    PROVE  /\ Scans(t, h, r, z, H \cup {n}, After(S, n))
           /\ ~ShownBy(t, h, n) => Scans(t, h, r, s, H, After(S, n))
<1> DEFINE l == Len(S)
           A == After(S, n)
           d(k) == Last(S[k].path)
<1>1. /\ Len(A) = l /\ l \in Nat /\ 1 \in 1 .. l /\ S[1] \in Frame
      /\ A[1] = Less(S[1], n)
  BY AfterShape
<1>2. \A k \in 1 .. l : k # 1 => A[k] = S[k]
  BY AfterShape
<1>3. \A k \in 1 .. l : A[k].path = S[k].path
  BY AfterShape
<1>4. /\ \A k \in 1 .. l : ScanOf(t, h, r, s, H, S[k], d(k))
      /\ \A j, k \in 1 .. l : d(j) = d(k) => j = k
  BY DEF Scans
<1> HIDE DEF l, A
<1>5. ASSUME NEW k \in 1 .. l, k # 1 PROVE n \notin S[k].left
  <2>1. /\ S[k].left \subseteq Children(t, d(k)) /\ S[1].left \subseteq Children(t, d(1))
    BY <1>1, <1>4 DEF ScanOf
  <2>2. d(k) # d(1)
    BY <1>1, <1>4, <1>5
  <2> QED BY <2>1, <2>2 DEF Children
<1>6. ASSUME NEW k \in 1 .. l PROVE ScanOf(t, h, r, z, H \cup {n}, A[k], Last(A[k].path))
  <2>1. Last(A[k].path) = d(k) /\ ScanOf(t, h, r, s, H, S[k], d(k))
    BY <1>3, <1>4
  <2> HIDE DEF d
  <2>2. CASE k = 1
    BY <1>1, <2>1, <2>2, ThisScan
  <2>3. CASE k # 1
    <3>1. A[k] = S[k] /\ n \notin S[k].left
      BY <1>2, <1>5, <2>3
    <3>2. ScanOf(t, h, r, z, H \cup {n}, S[k], d(k))
      BY <2>1, <3>1, OtherScan
    <3> QED BY <2>1, <3>1, <3>2
  <2> QED BY <2>2, <2>3
<1>7. ASSUME ~ShownBy(t, h, n), NEW k \in 1 .. l
      PROVE  ScanOf(t, h, r, s, H, A[k], Last(A[k].path))
  <2>1. Last(A[k].path) = d(k) /\ ScanOf(t, h, r, s, H, S[k], d(k))
    BY <1>3, <1>4
  <2> HIDE DEF d
  <2>2. CASE k = 1
    <3>1. ScanOf(t, h, r, s, H, Less(S[1], n), d(1))
      BY <1>1, <1>7, <2>1, <2>2, ThisScan
    <3> QED BY <1>1, <2>1, <2>2, <3>1
  <2>3. CASE k # 1
    BY <1>2, <2>1, <2>3
  <2> QED BY <2>2, <2>3
<1>8. \A j, k \in 1 .. l : Last(A[j].path) = Last(A[k].path) => j = k
  BY <1>3, <1>4
<1> HIDE DEF d
<1>9. Scans(t, h, r, z, H \cup {n}, A)
  BY <1>1, <1>6, <1>8 DEF Scans
<1>10. ~ShownBy(t, h, n) => Scans(t, h, r, s, H, A)
  BY <1>1, <1>7, <1>8 DEF Scans
<1> QED BY <1>9, <1>10 DEF A

\* A scan of n begins on top of the one that has just handed n out.
LEMMA DescendScans ==
    ASSUME NEW t \in Trees, NEW h, NEW r, NEW s, NEW z, NEW H, NEW S \in Seq(Frame),
           Scans(t, h, r, s, H, S), S # <<>>, NEW n \in S[1].left, n \in Entries,
           n \notin H, \A x \in H : z[x] = s[x] /\ t.up[x] # n,
           NEW g \in Frame, AtPath(t, g.path, n), g.left = Children(t, n),
           n \in t.dir, EnteredBy(r, z, n)
    PROVE  Scans(t, h, r, z, H \cup {n}, <<g>> \o After(S, n))
<1> DEFINE A == After(S, n)
<1>1. Scans(t, h, r, z, H \cup {n}, A)
  BY AfterScans
<1>2. Last(g.path) = n
  BY DEF AtPath
<1>3. ScanOf(t, h, r, z, H \cup {n}, g, n)
  BY NewScan
<1>4. A \in Seq(Frame) /\ Len(A) = Len(S)
  BY AfterShape
<1>5. \A k \in 1 .. Len(S) : A[k].path = S[k].path
  BY AfterShape
<1>6. ASSUME NEW k \in 1 .. Len(A) PROVE Last(A[k].path) # Last(g.path)
  <2> DEFINE d == Last(S[k].path)
  <2>1. Last(A[k].path) = d /\ k \in 1 .. Len(S)
    BY <1>4, <1>5
  <2>2. ScanOf(t, h, r, s, H, S[k], d)
    BY <2>1 DEF Scans
  <2>3. d = Root \/ d \in H
    BY <2>2 DEF ScanOf, Opened
  <2>4. n # Root
    BY EntriesAssumption DEF Entries, Root
  <2> QED BY <1>2, <2>1, <2>3, <2>4
<1> HIDE DEF A
<1>7. Scans(t, h, r, z, H \cup {n}, <<g>> \o A)
  BY <1>1, <1>2, <1>3, <1>4, <1>6, PushScans
<1> QED BY <1>7 DEF A

\* Every directory that was entered is being scanned or has delivered all.
Covered(t, h, r, s, H, S) ==
    \A d \in Root .. N : Opened(t, r, s, H, d) =>
        \/ \E k \in 1 .. Len(S) : Last(S[k].path) = d
        \/ \A n \in Children(t, d) : ShownBy(t, h, n) => n \in H

\* That stays so when n is handed out, if a scan of n begins when n is entered.
LEMMA HandCovers ==
    ASSUME NEW t, NEW h, NEW r, NEW s, NEW z, NEW H, NEW S \in Seq(Frame), S # <<>>,
           NEW n, \A x \in H : z[x] = s[x], Covered(t, h, r, s, H, S),
           NEW Q, NEW g \in Frame, Last(g.path) = n,
           \/ Q = <<g>> \o After(S, n)
           \/ Q = After(S, n) /\ ~(n \in t.dir /\ EnteredBy(r, z, n))
    PROVE  Covered(t, h, r, z, H \cup {n}, Q)
<1> DEFINE A == After(S, n)
           l == Len(S)
<1>1. A \in Seq(Frame) /\ Len(A) = l /\ l \in Nat
  BY AfterShape
<1>2. \A k \in 1 .. l : A[k].path = S[k].path
  BY AfterShape
<1>3. /\ Len(<<g>> \o A) = l + 1 /\ (<<g>> \o A)[1] = g
      /\ \A k \in 1 .. l : (<<g>> \o A)[k + 1] = A[k]
  BY <1>1, PushShape
<1>4. ASSUME NEW k \in 1 .. l
      PROVE  \E j \in 1 .. Len(Q) : Last(Q[j].path) = Last(S[k].path)
  <2>1. CASE Q = A
    BY <1>1, <1>2, <2>1
  <2>2. CASE Q = <<g>> \o A
    <3>1. k + 1 \in 1 .. Len(Q)
      <4> HIDE DEF l, A
      <4> QED BY <1>1, <1>3, <2>2
    <3>2. Q[k + 1].path = S[k].path
      BY <1>2, <1>3, <2>2
    <3> QED BY <3>1, <3>2
  <2> QED BY <2>1, <2>2
<1>5. ASSUME Q = <<g>> \o A PROVE \E j \in 1 .. Len(Q) : Last(Q[j].path) = n
  <2>1. 1 \in 1 .. Len(Q)
    <3> HIDE DEF l, A
    <3> QED BY <1>1, <1>3, <1>5
  <2> QED BY <1>3, <1>5, <2>1
<1> HIDE DEF A, l
<1>6. ASSUME NEW d \in Root .. N, Opened(t, r, z, H \cup {n}, d)
      PROVE  \/ \E k \in 1 .. Len(Q) : Last(Q[k].path) = d
             \/ \A m \in Children(t, d) : ShownBy(t, h, m) => m \in H \cup {n}
  <2>1. CASE Opened(t, r, s, H, d)
    <3>1. \/ \E k \in 1 .. Len(S) : Last(S[k].path) = d
          \/ \A m \in Children(t, d) : ShownBy(t, h, m) => m \in H
      BY <2>1 DEF Covered
    <3> QED BY <1>4, <3>1 DEF l
  <2>2. CASE ~Opened(t, r, s, H, d)
    <3>1. d # Root /\ d \in H \cup {n} /\ d \in t.dir /\ EnteredBy(r, z, d)
      BY <1>6, <2>2 DEF Opened
    <3>2. d \in H => EnteredBy(r, s, d)
      BY <3>1 DEF EnteredBy
    <3>3. d = n
      BY <2>2, <3>1, <3>2 DEF Opened
    <3>4. Q = <<g>> \o A
      BY <3>1, <3>3 DEF A
    <3> QED BY <1>5, <3>3, <3>4
  <2> QED BY <2>1, <2>2
<1> QED BY <1>6 DEF Covered

-----------------------------------------------------------------------------
(* The invariant.                                                          *)

StateInv ==
    /\ tree \in Trees
    /\ cb \in BOOLEAN /\ recursive \in BOOLEAN /\ hidden \in BOOLEAN
    /\ stack \in Seq(Frame)
    /\ code \in {"OK", "STOP", "FAIL"}
    /\ stop \in BOOLEAN /\ exception \in BOOLEAN
    /\ out \in Seq(Seq(Entries))
    /\ result \in {"idle", "scanning", "done", "threw", "failed"}
    /\ said \in [Entries -> Directives \cup {"-"}]

\* Every name handed out is the path of its last entry; the directory's name was
\* handed out before, and none after an answer that stops the scan.
NamesInv ==
    \A i \in 1 .. Len(out) :
        /\ IsPath(tree, out[i], Last(out[i]))
        /\ tree.up[Last(out[i])] # Root =>
             \E j \in 1 .. i - 1 : Last(out[j]) = tree.up[Last(out[i])]
        /\ said[Last(out[i])] \in {"enough", "throw"} => i = Len(out) /\ code = "STOP"

\* No entry is handed out twice.
OnceInv == \A i, j \in 1 .. Len(out) : Last(out[i]) = Last(out[j]) => i = j

\* Entries are shown, and the directory they are in was entered.
HandedInv ==
    \A n \in Handed(out) :
        /\ ShownBy(tree, hidden, n)
        /\ tree.up[n] # Root =>
             tree.up[n] \in Handed(out) /\ EnteredBy(recursive, said, tree.up[n])

\* The callback answers for what it was given.
SaidInv == \A n \in Entries : n \notin Handed(out) => said[n] = "-"

\* Every scan on the stack is one of its directory, and the only one.
StackInv == Scans(tree, hidden, recursive, said, Handed(out), stack)

\* While nothing stopped the scan, a directory that was entered is being scanned
\* or has delivered all.
WholeInv ==
    result # "idle" /\ code = "OK" =>
        Covered(tree, hidden, recursive, said, Handed(out), stack)

\* How the scan ends.
EndInv ==
    /\ result = "idle" => stack = <<>> /\ out = <<>> /\ code = "OK"
    /\ exception => code = "STOP"
    /\ code = "STOP" => stop \/ exception
    /\ result \notin {"idle", "scanning"} =>
         stack = <<>> /\ (exception => result = "threw") /\ (result = "done" => ~exception)
                      /\ (result = "done" => code # "FAIL")

ScanInv ==
    StateInv /\ NamesInv /\ OnceInv /\ HandedInv /\ SaidInv /\ StackInv /\ WholeInv /\ EndInv

-----------------------------------------------------------------------------
(* The steps.                                                              *)

\* The scan on top of the stack, and the entry it hands out.
LEMMA TopScan ==
    ASSUME ScanInv, stack # <<>>, NEW n \in Head(stack).left
    PROVE  LET e == Last(stack[1].path) IN
           /\ stack \in Seq(Frame) /\ stack[1] \in Frame /\ Head(stack) = stack[1]
           /\ Rest(n) = After(stack, n) /\ n \in stack[1].left
           /\ AtPath(tree, stack[1].path, e) /\ n \in Children(tree, e)
           /\ n \in Entries /\ tree.up[n] = e
           /\ n \notin Handed(out)
           /\ e # Root => e \in Handed(out) /\ EnteredBy(recursive, said, e)
           /\ Path(n) = Append(stack[1].path, n)
           /\ IsPath(tree, Rel(Path(n)), n) /\ AtPath(tree, Path(n), n)
<1> DEFINE f == stack[1]
           e == Last(f.path)
<1>1. stack \in Seq(Frame) /\ tree \in Trees
  BY DEF ScanInv, StateInv
<1>2. Head(stack) = f /\ f \in Frame /\ 1 \in 1 .. Len(stack)
  BY <1>1, AfterShape
<1>3. ScanOf(tree, hidden, recursive, said, Handed(out), f, e)
  BY <1>2 DEF ScanInv, StackInv, Scans
<1>4. Rest(n) = After(stack, n)
  BY DEF Rest, After, Less
<1>5. /\ AtPath(tree, f.path, e) /\ n \in Children(tree, e) /\ n \notin Handed(out)
      /\ e # Root => e \in Handed(out) /\ EnteredBy(recursive, said, e)
  BY <1>2, <1>3 DEF ScanOf, Opened
<1>6. Path(n) = Append(f.path, n)
  BY <1>2 DEF Path
<1>7. n \in Entries /\ tree.up[n] = e
  BY <1>5 DEF Children
<1> HIDE DEF e, f
<1>8. IsPath(tree, Tail(Append(f.path, n)), n) /\ AtPath(tree, Append(f.path, n), n)
  BY <1>1, <1>5, PathNext
<1>9. IsPath(tree, Rel(Path(n)), n) /\ AtPath(tree, Path(n), n)
  BY <1>6, <1>8 DEF Rel
<1> QED BY <1>1, <1>2, <1>4, <1>5, <1>6, <1>7, <1>9 DEF e, f

\* What was handed out are entries.
LEMMA HandedEntries ==
    ASSUME ScanInv
    PROVE  /\ Handed(out) \subseteq Entries /\ Len(out) \in Nat
           /\ \A i \in 1 .. Len(out) : Last(out[i]) \in Handed(out) /\ Last(out[i]) \in Entries
<1>1. out \in Seq(Seq(Entries)) /\ NamesInv
  BY DEF ScanInv, StateInv
<1>2. Len(out) \in Nat
  BY <1>1, LenProperties
<1>3. ASSUME NEW i \in 1 .. Len(out) PROVE Last(out[i]) \in Handed(out) /\ Last(out[i]) \in Entries
  <2> DEFINE p == out[i]
             l == Len(p)
  <2>1. p \in Seq(Entries) /\ l >= 1
    BY <1>1 DEF NamesInv, IsPath
  <2>2. l \in Nat
    BY <2>1, LenProperties
  <2>3. l \in 1 .. l
    BY <2>1, <2>2
  <2>4. p[l] \in Entries
    BY <2>1, <2>3, ElementOfSeq
  <2> QED BY <2>4 DEF Last, Handed
<1>4. Handed(out) \subseteq Entries
  BY <1>3 DEF Handed
<1> QED BY <1>2, <1>3, <1>4

\* The names after one more was handed out.
LEMMA NameHanded ==
    ASSUME ScanInv, NEW n \in Entries, NEW p, IsPath(tree, p, n), n \notin Handed(out),
           tree.up[n] # Root => tree.up[n] \in Handed(out) /\ EnteredBy(recursive, said, tree.up[n]),
           ShownBy(tree, hidden, n), NEW d \in Directives \cup {"-"}, code = "OK",
           d \in {"enough", "throw"} => code' = "STOP",
           UNCHANGED options, out' = Append(out, p), said' = [said EXCEPT ![n] = d]
    PROVE  /\ out' \in Seq(Seq(Entries)) /\ said' \in [Entries -> Directives \cup {"-"}]
           /\ Handed(out') = Handed(out) \cup {n}
           /\ said'[n] = d /\ \A x \in Handed(out) : said'[x] = said[x]
           /\ NamesInv' /\ OnceInv' /\ HandedInv' /\ SaidInv'
<1> DEFINE l == Len(out)
           q == Append(out, p)
           z == [said EXCEPT ![n] = d]
           H == Handed(out)
<1>1. /\ out \in Seq(Seq(Entries)) /\ said \in [Entries -> Directives \cup {"-"}]
      /\ tree \in Trees
  BY DEF ScanInv, StateInv
<1>2. /\ H \subseteq Entries /\ l \in Nat
      /\ \A i \in 1 .. l : Last(out[i]) \in H /\ Last(out[i]) \in Entries
  BY HandedEntries
<1>3. p \in Seq(Entries) /\ Last(p) = n
  BY DEF IsPath, Last
<1>4. /\ q \in Seq(Seq(Entries)) /\ Len(q) = l + 1
      /\ \A i \in 1 .. l : q[i] = out[i]
      /\ q[l + 1] = p
  BY <1>1, <1>3, AppendProperties
<1>5. Handed(q) = H \cup {n}
  BY <1>1, <1>3, HandedMore
<1>6. /\ z \in [Entries -> Directives \cup {"-"}] /\ z[n] = d
      /\ \A x \in Entries : x # n => z[x] = said[x]
  BY <1>1
<1>7. \A x \in H : z[x] = said[x] /\ x # n
  BY <1>2, <1>6
<1>8. tree' = tree /\ recursive' = recursive /\ hidden' = hidden /\ out' = q /\ said' = z
  BY DEF options
<1> HIDE DEF q, z, l
<1>9. \A i \in 1 .. l + 1 : i \in 1 .. l \/ i = l + 1
  BY <1>2
<1>10. ASSUME NEW i \in 1 .. l
       PROVE  /\ q[i] = out[i] /\ Last(q[i]) # n /\ Last(q[i]) \in H
              /\ z[Last(q[i])] = said[Last(q[i])]
              /\ i # l + 1
  BY <1>2, <1>4, <1>7
<1>11. NamesInv'
  <2>1. ASSUME NEW i \in 1 .. l + 1
        PROVE  /\ IsPath(tree, q[i], Last(q[i]))
               /\ tree.up[Last(q[i])] # Root =>
                    \E j \in 1 .. i - 1 : Last(q[j]) = tree.up[Last(q[i])]
               /\ z[Last(q[i])] \in {"enough", "throw"} => i = l + 1 /\ code' = "STOP"
    <3>1. CASE i \in 1 .. l
      <4>1. /\ IsPath(tree, out[i], Last(out[i]))
            /\ tree.up[Last(out[i])] # Root =>
                 \E j \in 1 .. i - 1 : Last(out[j]) = tree.up[Last(out[i])]
            /\ said[Last(out[i])] \in {"enough", "throw"} => i = l /\ code = "STOP"
        BY <3>1 DEF ScanInv, NamesInv, l
      <4>2. \A j \in 1 .. i - 1 : j \in 1 .. l
        BY <1>2, <3>1
      <4>3. \A j \in 1 .. i - 1 : q[j] = out[j]
        BY <1>4, <4>2
      <4> QED BY <1>10, <3>1, <4>1, <4>3
    <3>2. CASE i = l + 1
      <4>1. q[i] = p /\ Last(q[i]) = n
        BY <1>3, <1>4, <3>2
      <4>2. ASSUME tree.up[n] # Root PROVE \E j \in 1 .. i - 1 : Last(q[j]) = tree.up[n]
        <5>1. PICK j \in 1 .. l : Last(out[j]) = tree.up[n]
          BY <4>2 DEF Handed, l
        <5>2. j \in 1 .. i - 1
          BY <1>2, <3>2
        <5> QED BY <1>4, <5>1, <5>2
      <4> QED BY <1>6, <3>2, <4>1, <4>2
    <3> QED BY <1>9, <3>1, <3>2
  <2> QED BY <1>4, <1>8, <2>1 DEF NamesInv
<1>12. OnceInv'
  <2>1. ASSUME NEW i \in 1 .. l + 1, NEW j \in 1 .. l + 1, Last(q[i]) = Last(q[j])
        PROVE  i = j
    <3>1. CASE i \in 1 .. l /\ j \in 1 .. l
      <4>1. Last(out[i]) = Last(out[j])
        BY <1>4, <2>1, <3>1
      <4> QED BY <3>1, <4>1 DEF ScanInv, OnceInv, l
    <3>2. CASE i \in 1 .. l /\ j = l + 1
      BY <1>3, <1>4, <1>10, <2>1, <3>2
    <3>3. CASE i = l + 1 /\ j \in 1 .. l
      BY <1>3, <1>4, <1>10, <2>1, <3>3
    <3> QED BY <1>9, <3>1, <3>2, <3>3
  <2> QED BY <1>4, <1>8, <2>1 DEF OnceInv
<1>13. HandedInv'
  <2>1. \A x \in H : /\ ShownBy(tree, hidden, x)
                     /\ tree.up[x] # Root =>
                          tree.up[x] \in H /\ EnteredBy(recursive, said, tree.up[x])
    BY DEF ScanInv, HandedInv
  <2>2. \A x \in H : EnteredBy(recursive, said, x) => EnteredBy(recursive, z, x)
    BY <1>7 DEF EnteredBy
  <2>3. ASSUME NEW x \in H \cup {n}
        PROVE  /\ ShownBy(tree, hidden, x)
               /\ tree.up[x] # Root =>
                    tree.up[x] \in H \cup {n} /\ EnteredBy(recursive, z, tree.up[x])
    BY <2>1, <2>2
  <2> QED BY <1>5, <1>8, <2>3 DEF HandedInv
<1>14. SaidInv'
  <2>1. ASSUME NEW x \in Entries, x \notin H \cup {n} PROVE z[x] = "-"
    <3>1. said[x] = "-"
      BY <2>1 DEF ScanInv, SaidInv
    <3> QED BY <1>6, <2>1, <3>1
  <2> QED BY <1>5, <1>8, <2>1 DEF SaidInv
<1> QED BY <1>4, <1>5, <1>6, <1>7, <1>8, <1>11, <1>12, <1>13, <1>14


\* An entry is handed out, and its directory's scan begins or not.
LEMMA HandStep ==
    ASSUME ScanInv, NEW n \in Entries, Hands(n), ShownBy(tree, hidden, n),
           NEW d \in Directives \cup {"-"}, NEW push \in BOOLEAN,
           UNCHANGED <<options, result>>,
           out' = Append(out, Rel(Path(n))), said' = [said EXCEPT ![n] = d],
           stack' = IF push THEN <<Scan(Path(n))>> \o Rest(n) ELSE Rest(n),
           push => n \in tree.dir /\ EnteredBy(recursive, said', n),
           code' = "OK" /\ n \in tree.dir /\ EnteredBy(recursive, said', n) => push,
           code' \in {"OK", "STOP", "FAIL"}, d \in {"enough", "throw"} => code' = "STOP",
           stop' \in BOOLEAN, exception' \in BOOLEAN, exception' => code' = "STOP",
           code' = "STOP" => stop' \/ exception'
    PROVE  ScanInv'
<1> DEFINE H == Handed(out)
           g == Scan(Path(n))
           A == After(stack, n)
<1>1. /\ result = "scanning" /\ code = "OK" /\ stack # <<>> /\ n \in Head(stack).left
  BY DEF Hands
<1>2. /\ stack \in Seq(Frame) /\ Rest(n) = A /\ n \in stack[1].left
      /\ n \notin H /\ IsPath(tree, Rel(Path(n)), n) /\ AtPath(tree, Path(n), n)
  BY <1>1, TopScan
<1>3. tree.up[n] # Root => tree.up[n] \in H /\ EnteredBy(recursive, said, tree.up[n])
  BY <1>1, TopScan
<1>4. tree' = tree /\ cb' = cb /\ recursive' = recursive /\ hidden' = hidden /\ result' = result
  BY DEF options
<1>5. UNCHANGED options
  OBVIOUS
<1>6. /\ out' \in Seq(Seq(Entries)) /\ said' \in [Entries -> Directives \cup {"-"}]
      /\ NamesInv' /\ OnceInv' /\ HandedInv' /\ SaidInv'
  BY <1>1, <1>2, <1>3, <1>5, NameHanded
<1>7. Handed(out') = H \cup {n} /\ \A x \in H : said'[x] = said[x]
  BY <1>1, <1>2, <1>3, <1>5, NameHanded
<1>8. StateInv /\ StackInv /\ WholeInv /\ EndInv /\ HandedInv
  BY DEF ScanInv
<1>9. tree \in Trees /\ n # Root
  BY <1>8, EntriesAssumption DEF StateInv, Entries, Root
<1>10. \A x \in H : tree.up[x] # n
  BY <1>2, <1>8, <1>9 DEF HandedInv
<1>11. g \in Frame /\ g.path = Path(n) /\ g.left = Children(tree, n) /\ Last(g.path) = n
  <2>1. Path(n) \in Seq(Root .. N) /\ Last(Path(n)) = n
    BY <1>2 DEF AtPath
  <2>2. Children(tree, n) \in SUBSET Entries
    BY DEF Children
  <2> QED BY <2>1, <2>2 DEF Scan, Frame
<1>12. Scans(tree, hidden, recursive, said, H, stack)
  BY <1>8 DEF StackInv
<1>13. Covered(tree, hidden, recursive, said, H, stack)
  BY <1>1, <1>8 DEF WholeInv
<1>14. A \in Seq(Frame)
  BY <1>1, <1>2, AfterShape
<1> DEFINE Q == IF push THEN <<g>> \o A ELSE A
           z == [said EXCEPT ![n] = d]
<1>15. stack' = Q /\ said' = z
  BY <1>2
<1>16. /\ \A x \in H : z[x] = said[x]
       /\ push => n \in tree.dir /\ EnteredBy(recursive, z, n)
       /\ code' = "OK" /\ n \in tree.dir /\ EnteredBy(recursive, z, n) => push
  BY <1>7, <1>15
<1> HIDE DEF H, g, A, z
<1>17. Q \in Seq(Frame)
  BY <1>11, <1>14, PushShape
<1>18. Scans(tree, hidden, recursive, z, H \cup {n}, Q)
  <2>1. CASE push
    <3>1. Scans(tree, hidden, recursive, z, H \cup {n}, <<g>> \o After(stack, n))
      BY <1>1, <1>2, <1>9, <1>10, <1>11, <1>12, <1>16, <2>1, DescendScans
    <3> QED BY <2>1, <3>1 DEF A
  <2>2. CASE ~push
    <3>1. Scans(tree, hidden, recursive, z, H \cup {n}, After(stack, n))
      BY <1>1, <1>2, <1>12, <1>16, AfterScans
    <3> QED BY <2>2, <3>1 DEF A
  <2> QED BY <2>1, <2>2
<1>19. code' = "OK" => Covered(tree, hidden, recursive, z, H \cup {n}, Q)
  <2> HAVE code' = "OK"
  <2>1. \/ Q = <<g>> \o After(stack, n)
        \/ Q = After(stack, n) /\ ~(n \in tree.dir /\ EnteredBy(recursive, z, n))
    BY <1>16 DEF A
  <2> HIDE DEF Q
  <2> QED BY <1>1, <1>2, <1>11, <1>13, <1>16, <2>1, HandCovers
<1> HIDE DEF Q
<1>20. StateInv'
  BY <1>4, <1>6, <1>8, <1>15, <1>17 DEF StateInv
<1>21. StackInv'
  BY <1>4, <1>7, <1>15, <1>18 DEF StackInv
<1>22. WholeInv'
  BY <1>4, <1>7, <1>15, <1>19 DEF WholeInv
<1>23. EndInv'
  BY <1>1, <1>4 DEF EndInv
<1> QED BY <1>6, <1>20, <1>21, <1>22, <1>23 DEF ScanInv

\* io.readdir without a callback.
LEMMA EmitStep ==
    ASSUME ScanInv, NEW n \in Entries, emit(n)
    PROVE  ScanInv'
<1>1. /\ Hands(n) /\ (hidden \/ ~IsHidden(n)) /\ out' = Append(out, Rel(Path(n)))
      /\ stack' = IF Deep(n) THEN <<Scan(Path(n))>> \o Rest(n) ELSE Rest(n)
      /\ UNCHANGED <<options, code, stop, exception, result, said>>
  BY DEF emit
<1>2. StateInv /\ SaidInv /\ EndInv
  BY DEF ScanInv
<1>3. code = "OK" /\ stack # <<>> /\ n \in Head(stack).left
  BY <1>1 DEF Hands
<1>4. n \notin Handed(out)
  BY <1>3, TopScan
<1>5. said[n] = "-" /\ said \in [Entries -> Directives \cup {"-"}]
  BY <1>2, <1>4 DEF SaidInv, StateInv
<1>6. said' = [said EXCEPT ![n] = "-"] /\ said'[n] = "-"
  BY <1>1, <1>5
<1>7. ShownBy(tree, hidden, n)
  BY <1>1 DEF IsHidden, ShownBy
<1>8. EnteredBy(recursive, said', n) <=> recursive
  BY <1>2, <1>6 DEF EnteredBy, StateInv
<1>9. Deep(n) \in BOOLEAN /\ (Deep(n) <=> n \in tree.dir /\ EnteredBy(recursive, said', n))
  BY <1>8 DEF Deep
<1>10. "-" \in Directives \cup {"-"} /\ "-" \notin {"enough", "throw"} /\ UNCHANGED <<options, result>>
  BY <1>1
<1>11. /\ code' = "OK" /\ code' \in {"OK", "STOP", "FAIL"}
       /\ stop' \in BOOLEAN /\ exception' \in BOOLEAN /\ ~exception'
  BY <1>1, <1>2, <1>3 DEF StateInv, EndInv
<1> QED BY <1>1, <1>6, <1>7, <1>9, <1>10, <1>11, HandStep

\* A callback's answer.
LEMMA CallStep ==
    ASSUME ScanInv, NEW n \in Entries, NEW d \in Directives, call(n, d)
    PROVE  ScanInv'
<1>1. /\ Hands(n) /\ (hidden \/ ~IsHidden(n)) /\ out' = Append(out, Rel(Path(n)))
      /\ said' = [said EXCEPT ![n] = d]
      /\ stop' = (stop \/ d = "enough") /\ exception' = (exception \/ d = "throw")
      /\ code' = CASE d \in {"enough", "throw"} -> "STOP"
                   [] d = "recur" /\ ~recursive /\ n \notin tree.dir -> "FAIL"
                   [] OTHER -> "OK"
      /\ stack' = (IF Nested(n, d) THEN <<Scan(Path(n))>> ELSE <<>>)
                  \o (IF Deep(n) /\ d \in {"more", "recur"}
                      THEN <<Scan(Path(n))>> ELSE <<>>)
                  \o Rest(n)
      /\ UNCHANGED <<options, result>>
  BY DEF call
<1>2. StateInv /\ EndInv
  BY DEF ScanInv
<1>3. code = "OK" /\ stack # <<>> /\ n \in Head(stack).left
  BY <1>1 DEF Hands
<1>4. ShownBy(tree, hidden, n)
  BY <1>1 DEF IsHidden, ShownBy
<1>5. said'[n] = d
  BY <1>1, <1>2 DEF StateInv
<1> DEFINE push == n \in tree.dir /\ d \notin {"enough", "throw"} /\ EnteredBy(recursive, said', n)
<1>6. /\ push <=> (Nested(n, d) \/ (Deep(n) /\ d \in {"more", "recur"}))
      /\ ~(Nested(n, d) /\ Deep(n))
  BY <1>2, <1>5 DEF StateInv, EnteredBy, Nested, Deep, Directives
<1>7. Rest(n) \in Seq(Frame) /\ Path(n) \in Seq(Root .. N)
  <2>1. Rest(n) = After(stack, n) /\ stack \in Seq(Frame) /\ AtPath(tree, Path(n), n)
    BY <1>3, TopScan
  <2>2. After(stack, n) \in Seq(Frame)
    BY <1>3, <2>1, AfterShape
  <2> QED BY <2>1, <2>2 DEF AtPath
<1>8. Scan(Path(n)) \in Frame
  BY <1>7 DEF Scan, Frame, Children
<1>9. <<Scan(Path(n))>> \in Seq(Frame)
  BY <1>8
<1>10. stack' = IF push THEN <<Scan(Path(n))>> \o Rest(n) ELSE Rest(n)
  <2> DEFINE g == <<Scan(Path(n))>>
             R == Rest(n)
  <2>1. g \in Seq(Frame) /\ R \in Seq(Frame)
    BY <1>7, <1>9
  <2>2. stack' = (IF Nested(n, d) THEN g ELSE <<>>)
                 \o (IF Deep(n) /\ d \in {"more", "recur"} THEN g ELSE <<>>) \o R
    BY <1>1
  <2> HIDE DEF g, R, push
  <2>3. <<>> \o <<>> = <<>> /\ <<>> \o R = R /\ <<>> \o g = g /\ g \o <<>> = g
    BY <2>1, ConcatEmptySeq
  <2>4. stack' = IF push THEN g \o R ELSE R
    <3>1. CASE Nested(n, d)
      BY <1>6, <2>2, <2>3, <3>1
    <3>2. CASE ~Nested(n, d) /\ Deep(n) /\ d \in {"more", "recur"}
      BY <1>6, <2>2, <2>3, <3>2
    <3>3. CASE ~Nested(n, d) /\ ~(Deep(n) /\ d \in {"more", "recur"})
      BY <1>6, <2>2, <2>3, <3>3
    <3> QED BY <3>1, <3>2, <3>3
  <2> QED BY <2>4 DEF g, R
<1>11. code' = IF d \in {"enough", "throw"} THEN "STOP"
               ELSE IF d = "recur" /\ ~recursive /\ n \notin tree.dir THEN "FAIL" ELSE "OK"
  BY <1>1
<1>12. /\ code' \in {"OK", "STOP", "FAIL"} /\ (d \in {"enough", "throw"} => code' = "STOP")
       /\ code' = "STOP" => d \in {"enough", "throw"}
  BY <1>11
<1>13. /\ ~exception /\ stop' \in BOOLEAN /\ exception' \in BOOLEAN
       /\ exception' => d = "throw"
       /\ d \in {"enough", "throw"} => stop' \/ exception'
  BY <1>1, <1>2, <1>3 DEF StateInv, EndInv
<1>14. /\ exception' => code' = "STOP"
       /\ code' = "STOP" => stop' \/ exception'
  BY <1>12, <1>13
<1>15. push => n \in tree.dir /\ EnteredBy(recursive, said', n)
  OBVIOUS
<1>16. code' = "OK" /\ n \in tree.dir /\ EnteredBy(recursive, said', n) => push
  BY <1>12
<1>17. push \in BOOLEAN
  OBVIOUS
<1> HIDE DEF push
<1> QED BY <1>1, <1>4, <1>10, <1>12, <1>13, <1>14, <1>15, <1>16, <1>17, HandStep

\* A hidden entry is left out.
LEMMA SkipHiddenStep ==
    ASSUME ScanInv, NEW n \in Entries, skipHidden(n)
    PROVE  ScanInv'
<1> DEFINE H == Handed(out)
           A == After(stack, n)
<1>1. /\ result = "scanning" /\ code = "OK" /\ stack # <<>> /\ n \in Head(stack).left
      /\ ~hidden /\ IsHidden(n) /\ stack' = Rest(n)
  BY DEF skipHidden, Hands
<1>2. /\ tree' = tree /\ cb' = cb /\ recursive' = recursive /\ hidden' = hidden
      /\ code' = code /\ stop' = stop /\ exception' = exception /\ out' = out
      /\ result' = result /\ said' = said
  BY DEF skipHidden, options
<1>3. stack \in Seq(Frame) /\ Rest(n) = A /\ n \in stack[1].left /\ n \notin H
  BY <1>1, TopScan
<1>4. /\ StateInv /\ NamesInv /\ OnceInv /\ HandedInv /\ SaidInv /\ StackInv
      /\ WholeInv /\ EndInv
  BY DEF ScanInv
<1>5. ~ShownBy(tree, hidden, n)
  BY <1>1 DEF IsHidden, ShownBy
<1>6. A \in Seq(Frame) /\ Len(A) = Len(stack)
  BY <1>1, <1>3, AfterShape
<1>7. \A k \in 1 .. Len(stack) : A[k].path = stack[k].path
  BY <1>1, <1>3, AfterShape
<1>8. Scans(tree, hidden, recursive, said, H, stack)
  BY <1>4 DEF StackInv
<1>9. Scans(tree, hidden, recursive, said, H, A)
  BY <1>1, <1>3, <1>5, <1>8, AfterScans
<1>10. Covered(tree, hidden, recursive, said, H, stack)
  BY <1>1, <1>4 DEF WholeInv
<1>11. stack' = A
  BY <1>1, <1>3
<1> HIDE DEF A
<1>12. Covered(tree, hidden, recursive, said, H, A)
  BY <1>6, <1>7, <1>10 DEF Covered
<1>13. StateInv'
  BY <1>2, <1>4, <1>6, <1>11 DEF StateInv
<1>14. NamesInv' /\ OnceInv' /\ HandedInv' /\ SaidInv'
  BY <1>2, <1>4 DEF NamesInv, OnceInv, HandedInv, SaidInv
<1>15. StackInv' /\ WholeInv'
  BY <1>2, <1>9, <1>11, <1>12 DEF StackInv, WholeInv
<1>16. EndInv'
  BY <1>1, <1>2, <1>4 DEF EndInv
<1> QED BY <1>13, <1>14, <1>15, <1>16 DEF ScanInv

\* The stack loses the scan on top, which has delivered all when it ends by itself.
LEMMA PopStep ==
    ASSUME ScanInv, result = "scanning", stack # <<>>, stack' = Tail(stack),
           UNCHANGED <<options, code, stop, exception, out, result, said>>,
           code = "OK" => Head(stack).left = {}
    PROVE  ScanInv'
<1> DEFINE H == Handed(out)
           T == Tail(stack)
<1>1. /\ tree' = tree /\ cb' = cb /\ recursive' = recursive /\ hidden' = hidden
      /\ code' = code /\ stop' = stop /\ exception' = exception /\ out' = out
      /\ result' = result /\ said' = said
  BY DEF options
<1>2. /\ StateInv /\ NamesInv /\ OnceInv /\ HandedInv /\ SaidInv /\ StackInv
      /\ WholeInv /\ EndInv
  BY DEF ScanInv
<1>3. stack \in Seq(Frame) /\ Scans(tree, hidden, recursive, said, H, stack)
  BY <1>2 DEF StateInv, StackInv
<1>4. /\ T \in Seq(Frame) /\ Scans(tree, hidden, recursive, said, H, T)
      /\ 1 \in 1 .. Len(stack) /\ Head(stack) = stack[1]
  BY <1>3, PopScans
<1>5. \A k \in 1 .. Len(stack) : k = 1 \/ \E j \in 1 .. Len(T) : T[j] = stack[k]
  BY <1>3, PopScans
<1> HIDE DEF T
<1>6. ASSUME code = "OK" PROVE Covered(tree, hidden, recursive, said, H, T)
  <2>1. ScanOf(tree, hidden, recursive, said, H, stack[1], Last(stack[1].path))
    BY <1>3, <1>4 DEF Scans
  <2>2. \A m \in Children(tree, Last(stack[1].path)) : ShownBy(tree, hidden, m) => m \in H
    BY <1>4, <1>6, <2>1 DEF ScanOf
  <2>3. Covered(tree, hidden, recursive, said, H, stack)
    BY <1>2, <1>6 DEF WholeInv
  <2>4. ASSUME NEW d \in Root .. N, Opened(tree, recursive, said, H, d)
        PROVE  \/ \E k \in 1 .. Len(T) : Last(T[k].path) = d
               \/ \A m \in Children(tree, d) : ShownBy(tree, hidden, m) => m \in H
    <3>1. \/ \E k \in 1 .. Len(stack) : Last(stack[k].path) = d
          \/ \A m \in Children(tree, d) : ShownBy(tree, hidden, m) => m \in H
      BY <2>3, <2>4 DEF Covered
    <3>2. ASSUME NEW k \in 1 .. Len(stack), Last(stack[k].path) = d
          PROVE  \/ \E j \in 1 .. Len(T) : Last(T[j].path) = d
                 \/ \A m \in Children(tree, d) : ShownBy(tree, hidden, m) => m \in H
      BY <1>5, <2>2, <3>2
    <3> QED BY <3>1, <3>2
  <2> QED BY <2>4 DEF Covered
<1>7. stack' = T
  BY DEF T
<1>8. StateInv'
  BY <1>1, <1>2, <1>4, <1>7 DEF StateInv
<1>9. NamesInv' /\ OnceInv' /\ HandedInv' /\ SaidInv'
  BY <1>1, <1>2 DEF NamesInv, OnceInv, HandedInv, SaidInv
<1>10. StackInv' /\ WholeInv'
  BY <1>1, <1>4, <1>6, <1>7 DEF StackInv, WholeInv
<1>11. EndInv'
  BY <1>1, <1>2 DEF EndInv
<1> QED BY <1>8, <1>9, <1>10, <1>11 DEF ScanInv

\* The scan of the root begins.
LEMMA ReaddirStep ==
    ASSUME ScanInv, readdir
    PROVE  ScanInv'
<1> DEFINE g == Scan(<<Root>>)
<1>1. /\ tree' = tree /\ cb' = cb /\ recursive' = recursive /\ hidden' = hidden
      /\ code' = code /\ stop' = stop /\ exception' = exception /\ out' = out
      /\ said' = said /\ result = "idle" /\ result' = "scanning" /\ stack' = <<g>>
  BY DEF readdir, options
<1>2. /\ StateInv /\ NamesInv /\ OnceInv /\ HandedInv /\ SaidInv /\ EndInv
  BY DEF ScanInv
<1>3. out = <<>> /\ code = "OK" /\ N \in Nat
  BY <1>1, <1>2, EntriesAssumption DEF EndInv
<1>4. Len(out) = 0 /\ 1 .. Len(out) = {}
  BY <1>3
<1>5. Handed(out) = {}
  BY <1>4 DEF Handed
<1>6. /\ <<Root>> \in Seq(Root .. N) /\ <<Root>> # <<>> /\ Head(<<Root>>) = Root
      /\ Len(<<Root>>) = 1 /\ <<Root>>[1] = Root /\ Tail(<<Root>>) = <<>>
  <2>1. Root \in Root .. N
    BY <1>3 DEF Root
  <2> QED BY <2>1
<1>7. Last(<<Root>>) = Root
  BY <1>6 DEF Last
<1>8. AtPath(tree, <<Root>>, Root)
  BY <1>6, <1>7 DEF AtPath
<1>9. g \in Frame /\ g.path = <<Root>> /\ g.left = Children(tree, Root)
  BY <1>6, <1>7 DEF Frame, Scan, Children
<1> HIDE DEF g
<1>10. ScanOf(tree, hidden, recursive, said, {}, g, Root)
  BY <1>8, <1>9 DEF ScanOf, Opened
<1> DEFINE S == <<g>>
<1>11. S \in Seq(Frame) /\ Len(S) = 1 /\ S[1] = g /\ 1 .. Len(S) = {1}
  BY <1>9
<1> HIDE DEF S
<1>12. Last(S[1].path) = Root
  BY <1>7, <1>9, <1>11
<1>13. Scans(tree, hidden, recursive, said, {}, S)
  BY <1>10, <1>11, <1>12 DEF Scans
<1>14. Covered(tree, hidden, recursive, said, {}, S)
  BY <1>11, <1>12 DEF Covered, Opened
<1>15. stack' = S
  BY <1>1 DEF S
<1>16. StateInv'
  BY <1>1, <1>2, <1>11, <1>15 DEF StateInv
<1>17. NamesInv' /\ OnceInv' /\ HandedInv' /\ SaidInv'
  BY <1>1, <1>2 DEF NamesInv, OnceInv, HandedInv, SaidInv
<1>18. StackInv' /\ WholeInv'
  BY <1>1, <1>5, <1>13, <1>14, <1>15 DEF StackInv, WholeInv
<1>19. EndInv'
  BY <1>1, <1>2 DEF EndInv
<1> QED BY <1>16, <1>17, <1>18, <1>19 DEF ScanInv

\* io.readdir returns.
LEMMA ReturnStep ==
    ASSUME ScanInv, return
    PROVE  ScanInv'
<1>1. /\ tree' = tree /\ cb' = cb /\ recursive' = recursive /\ hidden' = hidden
      /\ code' = code /\ stop' = stop /\ exception' = exception /\ out' = out
      /\ said' = said /\ stack' = stack /\ result = "scanning" /\ stack = <<>>
      /\ result' = IF exception THEN "threw" ELSE IF code = "FAIL" THEN "failed" ELSE "done"
  BY DEF return, options
<1>2. /\ StateInv /\ NamesInv /\ OnceInv /\ HandedInv /\ SaidInv /\ StackInv
      /\ WholeInv /\ EndInv
  BY DEF ScanInv
<1>3. StateInv'
  BY <1>1, <1>2 DEF StateInv
<1>4. NamesInv' /\ OnceInv' /\ HandedInv' /\ SaidInv'
  BY <1>1, <1>2 DEF NamesInv, OnceInv, HandedInv, SaidInv
<1>5. StackInv' /\ WholeInv'
  BY <1>1, <1>2 DEF StackInv, WholeInv
<1>6. EndInv'
  BY <1>1, <1>2 DEF EndInv, StateInv
<1> QED BY <1>3, <1>4, <1>5, <1>6 DEF ScanInv

\* Nothing happens.
LEMMA RestStep ==
    ASSUME ScanInv, UNCHANGED readdirVars
    PROVE  ScanInv'
<1>1. /\ tree' = tree /\ cb' = cb /\ recursive' = recursive /\ hidden' = hidden
      /\ code' = code /\ stop' = stop /\ exception' = exception /\ out' = out
      /\ said' = said /\ stack' = stack /\ result' = result
  BY DEF readdirVars
<1>2. /\ StateInv /\ NamesInv /\ OnceInv /\ HandedInv /\ SaidInv /\ StackInv
      /\ WholeInv /\ EndInv
  BY DEF ScanInv
<1>3. StateInv' /\ NamesInv' /\ OnceInv'
  BY <1>1, <1>2 DEF StateInv, NamesInv, OnceInv
<1>4. HandedInv' /\ SaidInv' /\ StackInv' /\ WholeInv' /\ EndInv'
  BY <1>1, <1>2 DEF HandedInv, SaidInv, StackInv, WholeInv, EndInv
<1> QED BY <1>3, <1>4 DEF ScanInv

\* Before the call nothing is on the stack and nothing was handed out.
LEMMA ReaddirBegins == ReaddirInit => ScanInv
<1> SUFFICES ASSUME ReaddirInit PROVE ScanInv
  OBVIOUS
<1>1. Len(out) = 0 /\ 1 .. Len(out) = {} /\ Len(stack) = 0 /\ 1 .. Len(stack) = {}
  BY DEF ReaddirInit
<1>2. Handed(out) = {}
  BY <1>1 DEF Handed
<1>3. StateInv
  <2>1. stack \in Seq(Frame) /\ out \in Seq(Seq(Entries))
    BY DEF ReaddirInit
  <2>2. said \in [Entries -> Directives \cup {"-"}]
    BY DEF ReaddirInit
  <2> QED BY <2>1, <2>2 DEF ReaddirInit, StateInv
<1>4. NamesInv /\ OnceInv /\ HandedInv
  BY <1>1, <1>2 DEF NamesInv, OnceInv, HandedInv
<1>5. SaidInv
  BY DEF ReaddirInit, SaidInv
<1>6. StackInv
  BY <1>1 DEF StackInv, Scans
<1>7. WholeInv /\ EndInv
  BY DEF ReaddirInit, WholeInv, EndInv
<1> QED BY <1>3, <1>4, <1>5, <1>6, <1>7 DEF ScanInv

\* The invariant holds in every state.
LEMMA ScanHolds == ReaddirSpec => []ScanInv
<1>1. ScanInv /\ [ReaddirNext]_readdirVars => ScanInv'
  <2> SUFFICES ASSUME ScanInv, [ReaddirNext]_readdirVars PROVE ScanInv'
    OBVIOUS
  <2>1. CASE readdir
    BY <2>1, ReaddirStep
  <2>2. CASE leave
    BY <2>2, PopStep DEF leave
  <2>3. CASE unwind
    <3>1. code' = code /\ code # "OK" /\ result = "scanning" /\ stack # <<>>
          /\ stack' = Tail(stack)
          /\ UNCHANGED <<options, stop, exception, out, result, said>>
      BY <2>3 DEF unwind, Passed
    <3>2. UNCHANGED <<options, code, stop, exception, out, result, said>>
      BY <3>1
    <3> QED BY <3>1, <3>2, PopStep
  <2>4. CASE return
    BY <2>4, ReturnStep
  <2>5. ASSUME NEW n \in Entries, skipHidden(n) PROVE ScanInv'
    BY <2>5, SkipHiddenStep
  <2>6. ASSUME NEW n \in Entries, emit(n) PROVE ScanInv'
    BY <2>6, EmitStep
  <2>7. ASSUME NEW n \in Entries, NEW d \in Directives, call(n, d) PROVE ScanInv'
    BY <2>7, CallStep
  <2>8. CASE UNCHANGED readdirVars
    BY <2>8, RestStep
  <2> QED BY <2>1, <2>2, <2>3, <2>4, <2>5, <2>6, <2>7, <2>8 DEF ReaddirNext
<1> QED BY <1>1, ReaddirBegins, PTL DEF ReaddirSpec

-----------------------------------------------------------------------------
(* What the invariant says.                                                *)

\* The path of a scan is one of Paths.
LEMMA ScanPath ==
    ASSUME NEW t \in Trees, NEW p, NEW d, AtPath(t, p, d)
    PROVE  p \in Paths
<1> DEFINE q == Tail(p)
<1>1. p \in Seq(Root .. N) /\ p # <<>> /\ Head(p) = Root
  BY DEF AtPath
<1>2. q \in Seq(Root .. N) /\ Len(q) = Len(p) - 1 /\ \A i \in 1 .. Len(q) : q[i] = p[i + 1]
  BY <1>1, HeadTailProperties
<1>3. Len(p) \in Nat /\ Len(p) # 0 /\ p[1] = Root
  BY <1>1, EmptySeq, LenProperties
<1>4. q \in SeqOf(Entries, N)
  <2>1. CASE d = Root
    <3>1. q = <<>>
      BY <2>1 DEF AtPath
    <3>2. <<>> \in [1 .. 0 -> Entries] /\ 0 \in 0 .. N
      BY EntriesAssumption
    <3> QED BY <3>1, <3>2 DEF SeqOf
  <2>2. CASE d # Root
    <3>1. IsPath(t, q, d)
      BY <2>2 DEF AtPath
    <3>2. Len(q) \in 1 .. N /\ q \in Seq(Entries)
      BY <3>1, PathShort DEF IsPath
    <3>3. Len(q) \in 0 .. N
      BY <3>2, EntriesAssumption
    <3>4. q \in [1 .. Len(q) -> Entries]
      BY <3>2, LenProperties
    <3> QED BY <3>3, <3>4 DEF SeqOf
  <2> QED BY <2>1, <2>2
<1>5. Root \in Root .. N
  BY EntriesAssumption DEF Root
<1> DEFINE w == <<Root>> \o q
<1>6. /\ w \in Seq(Root .. N) /\ Len(w) = Len(q) + 1 /\ Len(q) \in Nat /\ w[1] = Root
      /\ \A k \in 2 .. Len(q) + 1 : k - 1 \in 1 .. Len(q) /\ w[k] = q[k - 1]
  BY <1>2, <1>5, PushShape
<1> HIDE DEF w, q
<1>7. Len(w) = Len(p)
  BY <1>2, <1>3, <1>6
<1>8. ASSUME NEW k \in 1 .. Len(p) PROVE p[k] = w[k]
  <2>1. CASE k = 1
    BY <1>3, <1>6, <2>1
  <2>2. CASE k # 1
    <3>1. k \in 2 .. Len(q) + 1 /\ (k - 1) + 1 = k
      BY <1>2, <1>3, <2>2
    <3>2. k - 1 \in 1 .. Len(q) /\ w[k] = q[k - 1]
      BY <1>6, <3>1
    <3> QED BY <1>2, <3>1, <3>2
  <2> QED BY <2>1, <2>2
<1>9. p = w
  BY <1>1, <1>6, <1>7, <1>8, SeqEqual
<1> QED BY <1>4, <1>9 DEF w, Paths

\* The paths on the stack are paths of the tree, the rest is in StateInv.
LEMMA ScanTyped == ScanInv => ReaddirTypeOK
<1> SUFFICES ASSUME ScanInv PROVE ReaddirTypeOK
  OBVIOUS
<1>1. StateInv /\ Scans(tree, hidden, recursive, said, Handed(out), stack)
  BY DEF ScanInv, StackInv
<1>2. stack \in Seq(Frame) /\ tree \in Trees
  BY <1>1 DEF StateInv
<1>3. ASSUME NEW k \in 1 .. Len(stack) PROVE stack[k] \in [path : Paths, left : SUBSET Entries]
  <2> DEFINE f == stack[k]
  <2>1. f \in Frame
    BY <1>2, ElementOfSeq
  <2>2. AtPath(tree, f.path, Last(f.path))
    BY <1>1 DEF Scans, ScanOf
  <2>3. f.path \in Paths
    BY <1>2, <2>2, ScanPath
  <2> HIDE DEF f
  <2>4. f \in [path : Paths, left : SUBSET Entries]
    BY <2>1, <2>3 DEF Frame
  <2> QED BY <2>4 DEF f
<1>4. stack \in Seq([path : Paths, left : SUBSET Entries])
  <2> DEFINE T == [path : Paths, left : SUBSET Entries]
             l == Len(stack)
  <2>1. l \in Nat /\ stack \in [1 .. l -> Frame]
    BY <1>2, LenProperties
  <2>2. \A k \in 1 .. l : stack[k] \in T
    BY <1>3
  <2> HIDE DEF T, l
  <2>3. stack \in [1 .. l -> T]
    BY <2>1, <2>2
  <2>4. stack \in Seq(T)
    BY <2>1, <2>3
  <2> QED BY <2>4 DEF T
<1> QED BY <1>1, <1>4 DEF StateInv, ReaddirTypeOK

\* What was handed out is reached.
LEMMA HandedReached ==
    ASSUME ScanInv
    PROVE  Handed(out) \subseteq Reached
<1> DEFINE S == {n \in Entries : n \in Handed(out) /\ n \notin Reached}
<1>1. tree \in Trees /\ Handed(out) \subseteq Entries
  BY HandedEntries DEF ScanInv, StateInv
<1>2. S = {}
  <2> SUFFICES ASSUME S # {} PROVE FALSE
    OBVIOUS
  <2>1. S \in SUBSET Nat
    BY EntriesAssumption DEF Entries
  <2>2. PICK n \in S : \A y \in S : n <= y
    BY <2>1, LeastIn
  <2>3. n \in Entries /\ n \in Handed(out) /\ n \notin Reached
    OBVIOUS
  <2>4. /\ ShownBy(tree, hidden, n)
        /\ tree.up[n] # Root =>
             tree.up[n] \in Handed(out) /\ EnteredBy(recursive, said, tree.up[n])
    BY <2>3 DEF ScanInv, HandedInv
  <2>5. ASSUME tree.up[n] # Root PROVE tree.up[n] \in Reached
    <3>1. tree.up[n] \in Entries /\ tree.up[n] < n /\ tree.up[n] \in Nat /\ n \in Nat
      BY <1>1, <2>3, <2>5, TreeShape
    <3>2. tree.up[n] \notin S
      BY <2>2, <3>1
    <3> QED BY <2>4, <2>5, <3>1, <3>2
  <2>6. Shown(n) /\ (tree.up[n] # Root => Entered(tree.up[n]))
    BY <2>4 DEF Shown, ShownBy, Entered, EnteredBy
  <2> QED BY <1>1, <2>3, <2>5, <2>6, ReachedStep
<1> QED BY <1>1, <1>2

\* A scan that ended by itself has handed out all that is reached.
LEMMA ReachedHanded ==
    ASSUME ScanInv, result = "done", ~stop
    PROVE  Reached \subseteq Handed(out)
<1> DEFINE S == {n \in Entries : n \in Reached /\ n \notin Handed(out)}
           H == Handed(out)
<1>1. tree \in Trees /\ EndInv /\ WholeInv /\ code \in {"OK", "STOP", "FAIL"}
  BY DEF ScanInv, StateInv
<1>2. stack = <<>> /\ code = "OK"
  BY <1>1 DEF EndInv
<1>3. Covered(tree, hidden, recursive, said, H, stack)
  BY <1>1, <1>2 DEF WholeInv
<1>4. 1 .. Len(stack) = {}
  BY <1>2
<1>5. \A d \in Root .. N : Opened(tree, recursive, said, H, d) =>
          \A n \in Children(tree, d) : ShownBy(tree, hidden, n) => n \in H
  BY <1>3, <1>4 DEF Covered
<1>6. S = {}
  <2> SUFFICES ASSUME S # {} PROVE FALSE
    OBVIOUS
  <2>1. S \in SUBSET Nat
    BY EntriesAssumption DEF Entries
  <2>2. PICK n \in S : \A y \in S : n <= y
    BY <2>1, LeastIn
  <2>3. n \in Entries /\ n \notin H /\ n \in Reached
    OBVIOUS
  <2> DEFINE d == tree.up[n]
  <2>4. Shown(n) /\ (d # Root => d \in Reached /\ Entered(d))
    BY <1>1, <2>3, ReachedStep
  <2>5. ShownBy(tree, hidden, n) /\ n \in Children(tree, d)
    BY <2>3, <2>4 DEF Shown, ShownBy, Children
  <2>6. d \in Root .. N
    BY <1>1, <2>3, EntriesAssumption DEF Trees
  <2>7. Opened(tree, recursive, said, H, d)
    <3>1. CASE d = Root
      BY <3>1 DEF Opened
    <3>2. CASE d # Root
      <4>1. d \in Entries /\ d \in tree.dir /\ d < n /\ d \in Nat /\ n \in Nat
        BY <1>1, <2>3, <3>2, TreeShape
      <4>2. d \notin S
        BY <2>2, <4>1
      <4>3. d \in H
        BY <2>4, <3>2, <4>1, <4>2
      <4>4. EnteredBy(recursive, said, d)
        BY <2>4, <3>2 DEF Entered, EnteredBy
      <4> QED BY <4>1, <4>3, <4>4 DEF Opened
    <3> QED BY <3>1, <3>2
  <2> QED BY <1>5, <2>3, <2>5, <2>6, <2>7
<1> QED BY <1>6 DEF Reached

\* A name without its last entry is the name of the directory.
LEMMA FrontIsUp ==
    ASSUME tree \in Trees, NEW n \in Entries, tree.up[n] # Root
    PROVE  Front(NameOf(n)) = NameOf(tree.up[n])
<1> DEFINE q == NameOf(tree.up[n])
           p == Append(q, n)
           l == Len(q)
           f == SubSeq(p, 1, Len(p) - 1)
<1>1. tree.up[n] \in Entries
  BY TreeShape
<1>2. q \in Seq(Entries) /\ l \in Nat /\ NameOf(n) = p
  BY <1>1, NameStep
<1>3. /\ p \in Seq(Entries) /\ Len(p) = l + 1 /\ \A i \in 1 .. l : p[i] = q[i]
  BY <1>2, AppendProperties
<1>4. \A i \in 1 .. l : q[i] \in Entries
  BY <1>2, ElementOfSeq
<1> HIDE DEF q, p, l
<1>5. Len(p) - 1 = l /\ l \in Int /\ 1 \in Int
  BY <1>2, <1>3
<1>6. \A i \in 1 .. l : p[i] \in Entries
  BY <1>3, <1>4
<1>7. /\ f \in Seq(Entries) /\ Len(f) = IF 1 <= l THEN l - 1 + 1 ELSE 0
      /\ \A i \in 1 .. l - 1 + 1 : f[i] = p[1 + i - 1]
  BY <1>5, <1>6, SubSeqProperties
<1> HIDE DEF f
<1>8. Len(f) = l
  BY <1>2, <1>7
<1>9. \A i \in 1 .. l : f[i] = q[i]
  <2> TAKE i \in 1 .. l
  <2>1. i \in 1 .. l - 1 + 1 /\ 1 + i - 1 = i
    BY <1>2
  <2> QED BY <1>3, <1>7, <2>1
<1>10. f = q
  BY <1>2, <1>7, <1>8, <1>9, SeqEqual DEF l
<1> QED BY <1>2, <1>10 DEF Front, f, q

\* The invariant gives the property.
LEMMA ScanIsExact == ScanInv => ScanExact
<1> SUFFICES ASSUME ScanInv PROVE ScanExact
  OBVIOUS
<1> DEFINE l == Len(out)
<1>1. /\ StateInv /\ NamesInv /\ OnceInv /\ EndInv
  BY DEF ScanInv
<1>2. tree \in Trees /\ out \in Seq(Seq(Entries))
  BY <1>1 DEF StateInv
<1>3. /\ l \in Nat /\ \A i \in 1 .. l : Last(out[i]) \in Handed(out) /\ Last(out[i]) \in Entries
  BY HandedEntries
<1>4. ASSUME NEW i \in 1 .. l
      PROVE  /\ out[i] = NameOf(Last(out[i])) /\ Len(out[i]) > 0
             /\ Last(out[i]) \in Reached
             /\ said[Last(out[i])] \in {"enough", "throw"} => i = l
  <2>1. /\ IsPath(tree, out[i], Last(out[i]))
        /\ said[Last(out[i])] \in {"enough", "throw"} => i = l
    BY <1>1 DEF NamesInv
  <2>2. out[i] = NameOf(Last(out[i]))
    BY <1>2, <1>3, <2>1, NameIs
  <2>3. out[i] \in Seq(Entries) /\ Len(out[i]) >= 1
    BY <2>1 DEF IsPath
  <2>4. Len(out[i]) \in Nat
    BY <2>3, LenProperties
  <2>5. Len(out[i]) > 0
    BY <2>3, <2>4
  <2> QED BY <1>3, <2>1, <2>2, <2>5, HandedReached
<1>5. ASSUME NEW i \in 1 .. l, Len(out[i]) > 1
      PROVE  \E j \in 1 .. i - 1 : out[j] = Front(out[i])
  <2> DEFINE n == Last(out[i])
  <2>1. n \in Entries /\ out[i] = NameOf(n)
    BY <1>3, <1>4
  <2>2. tree.up[n] # Root
    <3> SUFFICES ASSUME tree.up[n] = Root PROVE FALSE
      OBVIOUS
    <3>1. out[i] = <<n>>
      BY <1>2, <2>1, NameStep
    <3> HIDE DEF n
    <3>2. Len(out[i]) = 1
      BY <3>1
    <3> QED BY <1>5, <3>2
  <2>3. Front(out[i]) = NameOf(tree.up[n])
    BY <1>2, <2>1, <2>2, FrontIsUp
  <2>4. PICK j \in 1 .. i - 1 : Last(out[j]) = tree.up[n]
    BY <1>1, <2>2 DEF NamesInv
  <2>5. j \in 1 .. l
    <3> HIDE DEF l
    <3> QED BY <1>3
  <2>6. out[j] = NameOf(tree.up[n])
    BY <1>4, <2>4, <2>5
  <2> QED BY <2>3, <2>6
<1>6. IsInjective(out)
  <2>1. DOMAIN out = 1 .. l
    BY <1>2
  <2>2. ASSUME NEW i \in 1 .. l, NEW j \in 1 .. l, out[i] = out[j] PROVE i = j
    BY <1>1, <2>2 DEF OnceInv
  <2> QED BY <2>1, <2>2 DEF IsInjective
<1>7. ASSUME result = "done", ~stop PROVE {Last(out[i]) : i \in 1 .. l} = Reached
  <2>1. Handed(out) = Reached
    BY <1>7, HandedReached, ReachedHanded
  <2> QED BY <2>1 DEF Handed
<1>8. exception /\ result \notin {"idle", "scanning"} => result = "threw"
  BY <1>1 DEF EndInv
<1> QED BY <1>4, <1>5, <1>6, <1>7, <1>8 DEF ScanExact

\* JABCioReaddir keeps its types: in particular the path of every scan on the C
\* stack is a path of the tree.
THEOREM ReaddirTyped == ReaddirSpec => []ReaddirTypeOK
BY ScanHolds, ScanTyped, PTL

\* JABCioReaddir, JABCReaddirCall and JABCReaddirDirective: names come once each
\* and a directory before what is in it, a scan that ends by itself has handed
\* out exactly the entries its answers reach, nothing comes after a stop or a
\* throw from however deep a nested scan, and a throw is what the call ends with.
THEOREM ScansAreExact == ReaddirSpec => []ScanExact
BY ScanHolds, ScanIsExact, PTL
=============================================================================
