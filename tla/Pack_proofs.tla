----------------------------- MODULE Pack_proofs -----------------------------
(***************************************************************************)
(* The pack log and the Buf, for any objects, any number of records, any   *)
(* width of numbers and any capacity: every delta chain resolves to the    *)
(* object fed, the scratch loop finds the room it needs, the index entries *)
(* and the count agree with the records, and a Buf keeps its payload.      *)
(*                                                                         *)
(* The recursive functions of the model (chains, objects, the scratch      *)
(* loop) are shown to exist by writing down a solution that does not       *)
(* recurse: orbits of a function, as the smallest set closed under it.     *)
(***************************************************************************)
EXTENDS Pack, SequenceTheorems, NaturalsInduction, WellFoundedInduction, TLAPS

-----------------------------------------------------------------------------
(* Numbers and sequences.                                                  *)

\* A set of numbers that is not empty has a least element.
LEMMA SmallestIn ==
    ASSUME NEW S \in SUBSET Nat, S # {}
    PROVE  \E x \in S : \A y \in S : x <= y
<1> DEFINE R == {ss \in Nat \X Nat : ss[1] < ss[2]}
<1>1. IsWellFoundedOn(R, Nat)
  BY NatLessThanWellFounded, Zenon DEF OpToRel
<1>2. PICK x \in S : \A y \in S : ~(<<y, x>> \in R)
  BY <1>1, WFMin
<1>3. ASSUME NEW y \in S
      PROVE  x <= y
  <2>1. x \in Nat /\ y \in Nat /\ ~(<<y, x>> \in R) /\ <<y, x>> \in Nat \X Nat
    BY <1>2
  <2>2. y < x => <<y, x>> \in R
    BY <2>1
  <2> QED BY <2>1, <2>2
<1> QED BY <1>3

\* A bounded one has a greatest: the mirrored set's least.
LEMMA LargestIn ==
    ASSUME NEW n \in Nat, NEW S \in SUBSET (0 .. n), S # {}
    PROVE  \E x \in S : \A y \in S : y <= x
<1> DEFINE T == {i \in 0 .. n : n - i \in S}
<1>1. T \in SUBSET Nat
  OBVIOUS
<1>2. \A y \in S : n - y \in T /\ n - (n - y) = y
  <2> TAKE y \in S
  <2>1. y \in 0 .. n /\ n - y \in 0 .. n /\ n - (n - y) = y
    OBVIOUS
  <2> QED BY <2>1
<1>3. PICK i \in T : \A j \in T : i <= j
  <2>1. T # {}
    BY <1>2
  <2> HIDE DEF T
  <2> QED BY <1>1, <2>1, SmallestIn
<1>4. ASSUME NEW y \in S PROVE y <= n - i
  <2>1. n - y \in T /\ y \in 0 .. n
    BY <1>2
  <2>2. i <= n - y /\ i \in 0 .. n
    BY <1>3, <2>1
  <2> QED BY <2>1, <2>2
<1> QED BY <1>3, <1>4

\* Max is the largest, when there is one.
LEMMA MaxIs ==
    ASSUME NEW S \in SUBSET Int, NEW m \in S, \A y \in S : y <= m
    PROVE  Max(S) = m
<1>1. \A y \in S : m >= y
  OBVIOUS
<1>2. \A x \in S : (\A y \in S : x >= y) => x = m
  OBVIOUS
<1> QED BY <1>1, <1>2 DEF Max

\* A part of a sequence, n elements after the m-th.
LEMMA PartShape ==
    ASSUME NEW S, NEW s \in Seq(S), NEW m \in Nat, NEW n \in Nat, m + n <= Len(s)
    PROVE  /\ SubSeq(s, m + 1, m + n) \in Seq(S) /\ Len(SubSeq(s, m + 1, m + n)) = n
           /\ \A i \in 1 .. n : SubSeq(s, m + 1, m + n)[i] = s[m + i]
<1> DEFINE a == m + 1
           e == m + n
           q == SubSeq(s, a, e)
<1>1. a \in Int /\ e \in Int /\ Len(s) \in Nat
  BY LenProperties
<1>2. \A i \in a .. e : i \in 1 .. Len(s)
  BY <1>1
<1>3. (IF a <= e THEN e - a + 1 ELSE 0) = n /\ e - a + 1 = n
  OBVIOUS
<1>4. \A i \in 1 .. n : a + i - 1 = m + i
  OBVIOUS
<1> HIDE DEF a, e
<1>5. \A i \in a .. e : s[i] \in S
  BY <1>2, ElementOfSeq
<1>6. /\ q \in Seq(S) /\ Len(q) = IF a <= e THEN e - a + 1 ELSE 0
      /\ \A i \in 1 .. e - a + 1 : q[i] = s[a + i - 1]
  BY <1>1, <1>5, SubSeqProperties
<1> HIDE DEF q
<1>7. \A i \in 1 .. n : q[i] = s[m + i]
  BY <1>3, <1>4, <1>6
<1> QED BY <1>3, <1>6, <1>7 DEF q, a, e

-----------------------------------------------------------------------------
(* Orbits.                                                                 *)

\* What f reaches from n: the smallest set with n that f does not leave.
Orbit(D, f, n) ==
    {p \in D : \A S \in SUBSET D : n \in S /\ (\A q \in S : f[q] \in S) => p \in S}

\* The first step of an orbit.
LEMMA OrbitStep ==
    ASSUME NEW D, NEW f \in [D -> D], NEW n \in D
    PROVE  Orbit(D, f, n) = {n} \cup Orbit(D, f, f[n])
<1>1. ASSUME NEW p \in Orbit(D, f, n), p # n
      PROVE  p \in Orbit(D, f, f[n])
  <2> SUFFICES ASSUME NEW S \in SUBSET D, f[n] \in S, \A q \in S : f[q] \in S
               PROVE  p \in S
    BY DEF Orbit
  <2> DEFINE T == S \cup {n}
  <2>1. T \in SUBSET D /\ n \in T /\ \A q \in T : f[q] \in T
    OBVIOUS
  <2>2. p \in T
    BY <2>1 DEF Orbit
  <2> QED BY <1>1, <2>2
<1>2. ASSUME NEW p \in Orbit(D, f, f[n])
      PROVE  p \in Orbit(D, f, n)
  BY DEF Orbit
<1>3. n \in Orbit(D, f, n)
  BY DEF Orbit
<1> QED BY <1>1, <1>2, <1>3

\* Where f stops, so does the orbit.
LEMMA OrbitStop ==
    ASSUME NEW D, NEW f \in [D -> D], NEW n \in D, f[n] = n
    PROVE  Orbit(D, f, n) = {n}
<1>1. ASSUME NEW p \in Orbit(D, f, n)
      PROVE  p = n
  <2>1. {n} \in SUBSET D /\ n \in {n} /\ \A q \in {n} : f[q] \in {n}
    OBVIOUS
  <2>2. p \in {n}
    BY <2>1 DEF Orbit
  <2> QED BY <2>2
<1>2. n \in Orbit(D, f, n)
  BY DEF Orbit
<1> QED BY <1>1, <1>2

-----------------------------------------------------------------------------
(* Delta chains.                                                           *)

Memory == [Offsets -> Recs \cup {None}]

\* Every delta in the bytes, also in what is left of a pack written before, is
\* against an earlier record, and was made from an object.
Backward(m) ==
    \A o \in Offsets : m[o].kind = "ofs" => m[o].base \in 0 .. o - 1 /\ m[o].from \in Objects

\* The chain of a record: the record, and the chain of its base.
LEMMA ChainStep ==
    ASSUME NEW m \in Memory, Backward(m), NEW off \in Offsets
    PROVE  ChainOf(m, off) = {off} \cup IF m[off].kind = "ofs" THEN ChainOf(m, m[off].base) ELSE {}
<1> DEFINE D == Offsets
           f == [o \in D |-> IF m[o].kind = "ofs" /\ m[o].base < o THEN m[o].base ELSE o]
           W == [o \in D |-> Orbit(D, f, o)]
<1>1. \A o \in D : m[o].kind = "ofs" => m[o].base \in D /\ m[o].base < o
  <2> TAKE o \in D
  <2>1. m[o].kind = "ofs" => m[o].base \in 0 .. o - 1
    BY DEF Backward
  <2>2. o \in Int /\ MaxRecs \in Nat /\ o <= MaxRecs
    BY ConstantsAssumption DEF Offsets
  <2> QED BY <2>1, <2>2 DEF Offsets
<1> HIDE DEF D
<1>2. f \in [D -> D]
  BY <1>1
<1>3. \A o \in D : f[o] = IF m[o].kind = "ofs" /\ m[o].base < o THEN m[o].base ELSE o
  OBVIOUS
<1> HIDE DEF f
<1>4. \A o \in D : Orbit(D, f, o) =
          {o} \cup IF m[o].kind = "ofs" /\ m[o].base < o THEN W[m[o].base] ELSE {}
  <2> TAKE o \in D
  <2>1. CASE m[o].kind = "ofs" /\ m[o].base < o
    <3>1. f[o] = m[o].base /\ m[o].base \in D
      BY <1>1, <1>3, <2>1
    <3>2. Orbit(D, f, o) = {o} \cup Orbit(D, f, m[o].base)
      BY <1>2, <3>1, OrbitStep
    <3> QED BY <2>1, <3>1, <3>2
  <2>2. CASE ~(m[o].kind = "ofs" /\ m[o].base < o)
    <3>1. f[o] = o
      BY <1>3, <2>2
    <3>2. Orbit(D, f, o) = {o}
      BY <1>2, <3>1, OrbitStop
    <3> QED BY <2>2, <3>2
  <2> QED BY <2>1, <2>2
<1>5. W = [o \in D |-> {o} \cup IF m[o].kind = "ofs" /\ m[o].base < o THEN W[m[o].base] ELSE {}]
  BY <1>4
<1> HIDE DEF W
<1>6. PICK g : /\ g = [o \in D |-> {o} \cup IF m[o].kind = "ofs" /\ m[o].base < o
                                             THEN g[m[o].base] ELSE {}]
               /\ \A x : ChainOf(m, x) = g[x]
  BY <1>5, Zenon DEF ChainOf, D
<1>7. g[off] = {off} \cup IF m[off].kind = "ofs" /\ m[off].base < off THEN g[m[off].base] ELSE {}
  BY <1>6 DEF D
<1>8. ChainOf(m, off) = g[off] /\ ChainOf(m, m[off].base) = g[m[off].base]
  BY <1>6, Zenon
<1>9. m[off].kind = "ofs" => m[off].base < off
  BY <1>1 DEF D
<1> QED BY <1>7, <1>8, <1>9

\* What the deltas make at a record: its object, when the base gives the object
\* the delta was made from.
LEMMA ResolveStep ==
    ASSUME NEW m \in Memory, Backward(m), NEW off \in Offsets
    PROVE  Resolved(m, off) =
               IF m[off].kind = "raw" THEN m[off].object
               ELSE IF m[off].kind = "ofs" /\ Resolved(m, m[off].base) = m[off].from
               THEN m[off].object ELSE Garbage
<1> DEFINE D == Offsets
           Just(o, S) == \/ m[o].kind = "raw"
                         \/ /\ m[o].kind = "ofs" /\ m[o].base < o
                            /\ m[o].base \in S /\ m[m[o].base].object = m[o].from
           Closed(S) == \A o \in D : Just(o, S) => o \in S
           G == {p \in D : \A S \in SUBSET D : Closed(S) => p \in S}
           W == [o \in D |-> IF o \in G THEN m[o].object ELSE Garbage]
<1>1. \A o \in D : m[o].kind = "ofs" => m[o].base \in D /\ m[o].base < o /\ m[o].from # Garbage
  <2> TAKE o \in D
  <2>1. m[o].kind = "ofs" => m[o].base \in 0 .. o - 1 /\ m[o].from \in Objects
    BY DEF Backward
  <2>2. o \in Int /\ MaxRecs \in Nat /\ o <= MaxRecs /\ Garbage \notin Objects
    BY ConstantsAssumption DEF Garbage, Offsets
  <2> QED BY <2>1, <2>2 DEF Offsets
<1> HIDE DEF D
<1>2. ASSUME NEW o \in D
      PROVE  o \in G <=> Just(o, G)
  <2>1. ASSUME Just(o, G) PROVE o \in G
    <3> SUFFICES ASSUME NEW S \in SUBSET D, Closed(S) PROVE o \in S
      OBVIOUS
    <3>1. Just(o, S)
      BY <2>1
    <3> QED BY <3>1
  <2>2. ASSUME o \in G, ~Just(o, G) PROVE FALSE
    <3> DEFINE S == G \ {o}
    <3>1. S \in SUBSET D
      OBVIOUS
    <3>2. ASSUME NEW q \in D, Just(q, S) PROVE q \in S
      <4>1. Just(q, G)
        BY <3>2
      <4>2. q # o
        BY <2>2, <4>1
      <4>3. q \in G
        <5> SUFFICES ASSUME NEW R \in SUBSET D, Closed(R) PROVE q \in R
          OBVIOUS
        <5>1. Just(q, R)
          BY <4>1
        <5> QED BY <5>1
      <4> QED BY <4>2, <4>3
    <3>3. o \in S
      BY <2>2, <3>1, <3>2
    <3> QED BY <3>3
  <2> QED BY <2>1, <2>2
<1> HIDE DEF G
<1>3. \A o \in D : (IF o \in G THEN m[o].object ELSE Garbage) =
          IF m[o].kind = "raw" THEN m[o].object
          ELSE IF /\ m[o].kind = "ofs" /\ m[o].base < o /\ W[m[o].base] = m[o].from
          THEN m[o].object ELSE Garbage
  <2> TAKE o \in D
  <2>1. CASE m[o].kind = "raw"
    BY <1>2, <2>1
  <2>2. CASE m[o].kind = "ofs"
    <3>1. m[o].base \in D /\ m[o].base < o /\ m[o].from # Garbage
      BY <1>1, <2>2
    <3>2. W[m[o].base] = m[o].from <=> m[o].base \in G /\ m[m[o].base].object = m[o].from
      BY <3>1
    <3>3. o \in G <=> m[o].base \in G /\ m[m[o].base].object = m[o].from
      BY <1>2, <2>2, <3>1
    <3> HIDE DEF W
    <3> QED BY <2>2, <3>1, <3>2, <3>3
  <2>3. CASE m[o].kind # "raw" /\ m[o].kind # "ofs"
    BY <1>2, <2>3
  <2> QED BY <2>1, <2>2, <2>3
<1>4. W = [o \in D |-> IF m[o].kind = "raw" THEN m[o].object
                       ELSE IF /\ m[o].kind = "ofs" /\ m[o].base < o
                               /\ W[m[o].base] = m[o].from
                            THEN m[o].object
                       ELSE Garbage]
  BY <1>3
<1> HIDE DEF W
<1>5. PICK g : /\ g = [o \in D |-> IF m[o].kind = "raw" THEN m[o].object
                                   ELSE IF /\ m[o].kind = "ofs" /\ m[o].base < o
                                           /\ g[m[o].base] = m[o].from
                                        THEN m[o].object
                                   ELSE Garbage]
               /\ \A x : Resolved(m, x) = g[x]
  BY <1>4, Zenon DEF Resolved, D
<1>6. g[off] = IF m[off].kind = "raw" THEN m[off].object
               ELSE IF m[off].kind = "ofs" /\ m[off].base < off /\ g[m[off].base] = m[off].from
               THEN m[off].object ELSE Garbage
  BY <1>5 DEF D
<1>7. Resolved(m, off) = g[off] /\ Resolved(m, m[off].base) = g[m[off].base]
  BY <1>5, Zenon
<1>8. m[off].kind = "ofs" => m[off].base < off
  BY <1>1 DEF D
<1> QED BY <1>6, <1>7, <1>8

\* The objects along a chain: that of the record, and those along its base's.
Along(m, o) == {m[p].object : p \in ChainOf(m, o)}

\* The parts of a record.
LEMMA RecShape ==
    ASSUME NEW m \in Memory, NEW o \in Offsets
    PROVE  /\ m[o].object \in Nat /\ m[o].size \in Nat
           /\ m[o] # None => m[o].object \in Objects
           /\ m[o] # None => m[o].kind \in {"raw", "ofs", "ref", "torn"}
           /\ o \in Nat /\ o <= MaxRecs /\ MaxRecs \in Nat
<1>1. m[o] \in Recs \cup {None}
  BY DEF Memory
<1>2. \A x \in Objects : x \in Nat
  BY ConstantsAssumption
<1>3. o \in Nat /\ o <= MaxRecs /\ MaxRecs \in Nat
  BY ConstantsAssumption DEF Offsets
<1>4. CASE m[o] \in Recs
  BY <1>2, <1>3, <1>4 DEF Recs
<1>5. CASE m[o] = None
  BY <1>3, <1>5 DEF None
<1> QED BY <1>1, <1>4, <1>5

\* What a resolution takes is a number: the largest object of the chain.
LEMMA TakesIs ==
    ASSUME NEW m \in Memory, Backward(m), NEW off \in Offsets
    PROVE  Takes(m, off) \in Nat /\ m[off].object <= Takes(m, off)
<1> DEFINE D == Offsets
           Good(o) == /\ Along(m, o) \in SUBSET Nat
                      /\ \E x \in Along(m, o) : \A y \in Along(m, o) : y <= x
           S == {o \in D : ~Good(o)}
<1>1. ASSUME NEW o \in D, \A p \in D : p < o => Good(p)
      PROVE  Good(o)
  <2>1. m[o].object \in Nat /\ o \in Nat
    <3> HIDE DEF Good
    <3> QED BY RecShape
  <2>2. CASE m[o].kind = "ofs"
    <3> DEFINE p == m[o].base
    <3>1. p \in D /\ p < o
      <4>1. p \in 0 .. o - 1 /\ MaxRecs \in Nat /\ o <= MaxRecs
        BY <2>2, RecShape DEF Backward
      <4> QED BY <2>1, <4>1 DEF Offsets
    <3>2. ChainOf(m, o) = {o} \cup ChainOf(m, p)
      BY <2>2, ChainStep
    <3>3. Along(m, o) = {m[o].object} \cup Along(m, p)
      BY <3>2 DEF Along
    <3>4. Good(p)
      BY <1>1, <3>1
    <3>5. PICK x \in Along(m, p) : \A y \in Along(m, p) : y <= x
      BY <3>4
    <3>6. Along(m, o) \in SUBSET Nat /\ x \in Nat
      BY <2>1, <3>3, <3>4
    <3> HIDE DEF p
    <3>7. CASE m[o].object <= x
      BY <3>3, <3>5, <3>6, <3>7
    <3>8. CASE ~(m[o].object <= x)
      <4>1. \A y \in Along(m, p) : y <= m[o].object
        BY <2>1, <3>4, <3>5, <3>6, <3>8
      <4>2. m[o].object <= m[o].object
        BY <2>1
      <4> QED BY <3>3, <3>6, <4>1, <4>2
    <3> QED BY <3>7, <3>8
  <2>3. CASE m[o].kind # "ofs"
    <3>1. ChainOf(m, o) = {o}
      BY <2>3, ChainStep
    <3>2. Along(m, o) = {m[o].object}
      BY <3>1 DEF Along
    <3>3. m[o].object <= m[o].object
      BY <2>1
    <3> QED BY <2>1, <3>2, <3>3
  <2> QED BY <2>2, <2>3
<1>2. S = {}
  <2> SUFFICES ASSUME S # {} PROVE FALSE
    OBVIOUS
  <2>1. S \in SUBSET Nat /\ \A o \in D : o \in Nat
    <3>1. \A o \in D : o \in Nat
      BY DEF Offsets
    <3> HIDE DEF Good, D
    <3> QED BY <3>1
  <2>2. PICK o \in S : \A p \in S : o <= p
    <3> HIDE DEF S
    <3> QED BY <2>1, SmallestIn
  <2>3. ASSUME NEW p \in D, p < o PROVE Good(p)
    <3> SUFFICES ASSUME ~Good(p) PROVE FALSE
      OBVIOUS
    <3>1. p \in S
      OBVIOUS
    <3>2. o <= p /\ o \in Nat /\ p \in Nat
      BY <2>1, <2>2, <3>1
    <3> QED BY <2>3, <3>2
  <2>4. Good(o)
    <3>1. o \in D
      OBVIOUS
    <3> HIDE DEF Good, S
    <3> QED BY <1>1, <2>3, <3>1
  <2> QED BY <2>4
<1>3. Good(off)
  BY <1>2
<1>4. PICK x \in Along(m, off) : \A y \in Along(m, off) : y <= x
  BY <1>3
<1>5. Along(m, off) \in SUBSET Int /\ x \in Nat
  BY <1>3
<1>6. Takes(m, off) = x
  <2>1. Takes(m, off) = Max(Along(m, off))
    BY DEF Takes, Along
  <2> QED BY <1>4, <1>5, <2>1, MaxIs
<1>7. off \in ChainOf(m, off)
  BY ChainStep
<1>8. m[off].object \in Along(m, off)
  BY <1>7 DEF Along
<1> QED BY <1>4, <1>5, <1>6, <1>8

\* A chain is refused at a reference delta or a torn record, and where its base's
\* chain is.
LEMMA RefStep ==
    ASSUME NEW m \in Memory, Backward(m), NEW o \in Offsets
    PROVE  /\ m[o].kind \in {"ref", "torn"} => Broken(m, o)
           /\ m[o].kind = "ofs" /\ Broken(m, m[o].base) => Broken(m, o)
<1>1. ChainOf(m, o) = {o} \cup IF m[o].kind = "ofs" THEN ChainOf(m, m[o].base) ELSE {}
  BY ChainStep
<1> QED BY <1>1 DEF Broken

\* There is a record everywhere after the header, and the deltas of the records
\* below w were made from what their bases are.
Deltas(m, w) ==
    \A o \in 0 .. w - 1 :
        /\ o >= 1 => m[o] # None
        /\ m[o].kind = "ofs" => m[m[o].base] # None /\ m[o].from = m[m[o].base].object

\* Then every chain that is not refused resolves to the record's object.
LEMMA ResolvesTo ==
    ASSUME NEW m \in Memory, Backward(m), NEW w \in 0 .. MaxRecs + 1, Deltas(m, w),
           NEW off \in LiveIn(m, w), ~Broken(m, off)
    PROVE  Resolved(m, off) = m[off].object
<1> DEFINE D == LiveIn(m, w)
           S == {o \in D : ~Broken(m, o) /\ Resolved(m, o) # m[o].object}
<1>1. \A o \in D : o \in Offsets /\ o \in Nat /\ o \in 0 .. w - 1 /\ m[o] # None
  BY ConstantsAssumption DEF LiveIn, Offsets
<1> SUFFICES ASSUME S # {} PROVE FALSE
  OBVIOUS
<1>2. S \in SUBSET Nat
  BY <1>1
<1>3. PICK o \in S : \A p \in S : o <= p
  <2> HIDE DEF S
  <2> QED BY <1>2, SmallestIn
<1>4. /\ o \in D /\ o \in Offsets /\ o \in Nat /\ o \in 0 .. w - 1 /\ m[o] # None
      /\ ~Broken(m, o) /\ Resolved(m, o) # m[o].object
  BY <1>1
<1>5. m[o].kind \in {"raw", "ofs", "ref", "torn"}
  BY <1>4, RecShape
<1>6. m[o].kind = "ofs"
  BY <1>4, <1>5, RefStep, ResolveStep
<1> DEFINE p == m[o].base
<1>7. p \in 0 .. o - 1 /\ ~Broken(m, p) /\ m[o].from = m[p].object /\ m[p] # None
  BY <1>4, <1>6, RefStep DEF Backward, Deltas
<1>8. p \in D /\ p < o /\ p \in Nat
  BY <1>4, <1>7, ConstantsAssumption DEF LiveIn
<1>9. Resolved(m, p) = m[p].object
  <2>1. p \notin S
    <3> SUFFICES ASSUME p \in S PROVE FALSE
      OBVIOUS
    <3>1. o <= p
      BY <1>3
    <3> QED BY <1>4, <1>8, <3>1
  <2> QED BY <1>7, <1>8, <2>1
<1>10. Resolved(m, o) = m[o].object
  BY <1>4, <1>6, <1>7, <1>9, ResolveStep
<1> QED BY <1>4, <1>10

-----------------------------------------------------------------------------
(* The scratch.                                                            *)

\* x | 0 is at most the largest 32-bit number, and x where x is.
LEMMA Int32Is ==
    ASSUME NEW x \in Nat
    PROVE  /\ Int32(x) \in Int /\ Int32(x) <= MaxInt
           /\ x <= MaxInt => Int32(x) = x
<1> DEFINE K == 2 * (MaxInt + 1)
           m == x % K
<1>1. MaxInt \in Nat
  BY ConstantsAssumption
<1>2. K \in Nat /\ K > 0 /\ MaxInt < K /\ K = 2 * MaxInt + 2
  BY <1>1
<1> HIDE DEF K
<1>3. m \in 0 .. K - 1
  BY <1>2
<1>4. x <= MaxInt => m = x
  <2> SUFFICES ASSUME x <= MaxInt PROVE m = x
    OBVIOUS
  <2>1. x < K /\ 0 <= x
    BY <1>1, <1>2
  <2> QED BY <1>2, <2>1
<1>5. Int32(x) = IF m > MaxInt THEN m - K ELSE m
  BY DEF Int32, K
<1> HIDE DEF m
<1> QED BY <1>1, <1>2, <1>3, <1>4, <1>5

\* Max of three numbers.
LEMMA MaxOfThree ==
    ASSUME NEW a \in Int, NEW b \in Int, NEW c \in Int
    PROVE  /\ Max({a, b, c}) \in {a, b, c}
           /\ a <= Max({a, b, c}) /\ b <= Max({a, b, c}) /\ c <= Max({a, b, c})
<1> DEFINE S == {a, b, c}
<1>1. S \in SUBSET Int
  OBVIOUS
<1>2. \E x \in S : \A y \in S : y <= x
  <2>1. \/ a >= b /\ a >= c
        \/ b >= a /\ b >= c
        \/ c >= a /\ c >= b
    OBVIOUS
  <2>2. CASE a >= b /\ a >= c
    <3>1. \A y \in S : y <= a
      BY <2>2
    <3> QED BY <3>1
  <2>3. CASE b >= a /\ b >= c
    <3>1. \A y \in S : y <= b
      BY <2>3
    <3> QED BY <3>1
  <2>4. CASE c >= a /\ c >= b
    <3>1. \A y \in S : y <= c
      BY <2>4
    <3> QED BY <3>1
  <2> QED BY <2>1, <2>2, <2>3, <2>4
<1>3. PICK x \in S : \A y \in S : y <= x
  BY <1>2
<1>4. Max(S) = x
  <2> HIDE DEF S
  <2> QED BY <1>1, <1>3, MaxIs
<1>5. a \in S /\ b \in S /\ c \in S
  OBVIOUS
<1>6. Max(S) \in S /\ a <= Max(S) /\ b <= Max(S) /\ c <= Max(S)
  <2> HIDE DEF S
  <2> QED BY <1>3, <1>4, <1>5
<1> QED BY <1>6 DEF S

\* _scratch() never shrinks what there is, gives what it is asked for where | 0
\* keeps that, and stays in 32 bits.
LEMMA ScratchShape ==
    ASSUME NEW s \in 0 .. MaxInt, NEW need \in Nat
    PROVE  /\ Scratch(s, need) \in 1 .. MaxInt /\ Scratch(s, need) \in 0 .. MaxInt
           /\ s <= Scratch(s, need)
           /\ need <= MaxInt => need <= Scratch(s, need)
<1> DEFINE x == Int32(need)
           q == Scratch(s, need)
<1>1. x \in Int /\ x <= MaxInt /\ (need <= MaxInt => x = need)
  BY Int32Is
<1>2. MaxInt \in Nat /\ SCRATCH_MIN \in 1 .. MaxInt /\ SCRATCH_MIN \in Int /\ s \in Int
  BY ConstantsAssumption
<1> HIDE DEF x
<1>3. q = Max({x, SCRATCH_MIN, s})
  BY DEF Scratch, x
<1> HIDE DEF q
<1>4. q \in {x, SCRATCH_MIN, s} /\ x <= q /\ SCRATCH_MIN <= q /\ s <= q
  BY <1>1, <1>2, <1>3, MaxOfThree
<1>5. q \in Int /\ q <= MaxInt /\ 1 <= q
  BY <1>1, <1>2, <1>4
<1>6. q \in 1 .. MaxInt /\ q \in 0 .. MaxInt
  BY <1>2, <1>5
<1> QED BY <1>1, <1>4, <1>6 DEF q

\* What a function makes of a when it is applied again and again, n times.
Iterates(S, f, a, n) ==
    {g \in [0 .. n -> S] : g[0] = a /\ \A t \in 1 .. n : g[t] = f[g[t - 1]]}

\* It makes something.
LEMMA Iterate ==
    ASSUME NEW S, NEW f \in [S -> S], NEW a \in S, NEW n \in Nat
    PROVE  \E g : g \in Iterates(S, f, a, n)
<1> DEFINE Has(k) ==
             \E g \in [0 .. k -> S] : g[0] = a /\ \A t \in 1 .. k : g[t] = f[g[t - 1]]
           N == {k \in Nat : ~Has(k)}
<1> SUFFICES ASSUME N # {} PROVE FALSE
  BY DEF Iterates
<1>1. PICK k \in N : \A l \in N : k <= l
  <2>1. N \in SUBSET Nat
    OBVIOUS
  <2> HIDE DEF N
  <2> QED BY <2>1, SmallestIn
<1>2. k \in Nat /\ ~Has(k)
  OBVIOUS
<1>3. k # 0
  <2> DEFINE g == [t \in 0 .. 0 |-> a]
  <2>1. g \in [0 .. 0 -> S] /\ g[0] = a /\ \A t \in 1 .. 0 : g[t] = f[g[t - 1]]
    OBVIOUS
  <2>2. Has(0)
    BY <2>1
  <2> QED BY <1>2, <2>2
<1>4. k - 1 \in Nat /\ ~(k <= k - 1)
  BY <1>2, <1>3
<1>5. Has(k - 1)
  BY <1>1, <1>4
<1>6. PICK g \in [0 .. k - 1 -> S] :
          g[0] = a /\ \A t \in 1 .. k - 1 : g[t] = f[g[t - 1]]
  BY <1>5
<1> DEFINE h == [t \in 0 .. k |-> IF t = k THEN f[g[k - 1]] ELSE g[t]]
<1>7. g[k - 1] \in S
  BY <1>4
<1>8. h \in [0 .. k -> S]
  <2>1. \A t \in 0 .. k : t # k => t \in 0 .. k - 1
    BY <1>2
  <2> QED BY <1>7, <2>1
<1>9. h[0] = a
  BY <1>2, <1>3, <1>6
<1>10. ASSUME NEW t \in 1 .. k PROVE h[t] = f[h[t - 1]]
  <2>1. t \in 0 .. k /\ t - 1 \in 0 .. k /\ t - 1 # k /\ h[t - 1] = g[t - 1]
    BY <1>2
  <2>2. CASE t = k
    BY <2>1, <2>2
  <2>3. CASE t # k
    <3>1. t \in 1 .. k - 1
      BY <1>2, <2>3
    <3>2. h[t] = g[t]
      BY <2>1, <2>3
    <3> QED BY <1>6, <2>1, <3>1, <3>2
  <2> QED BY <2>2, <2>3
<1> HIDE DEF h
<1>11. Has(k)
  BY <1>8, <1>9, <1>10
<1> QED BY <1>2, <1>11

\* The least scratch, doubled at every try.
LEMMA DoubledIs ==
    /\ Doubled[0] = SCRATCH_MIN
    /\ \A t \in 1 .. MaxTries : Doubled[t] = 2 * Doubled[t - 1]
    /\ \A t \in 0 .. MaxTries : Doubled[t] \in Nat
<1> DEFINE f == [n \in Nat |-> 2 * n]
           D == 0 .. MaxTries
<1>1. MaxTries \in Nat /\ SCRATCH_MIN \in Nat
  BY ConstantsAssumption
<1>2. f \in [Nat -> Nat] /\ \A n \in Nat : f[n] = 2 * n
  OBVIOUS
<1> HIDE DEF f
<1>3. PICK g \in [D -> Nat] :
          g[0] = SCRATCH_MIN /\ \A t \in 1 .. MaxTries : g[t] = f[g[t - 1]]
  <2>1. f \in [Nat -> Nat]
    BY <1>2
  <2>2. PICK h : h \in Iterates(Nat, f, SCRATCH_MIN, MaxTries)
    BY <1>1, <2>1, Iterate
  <2> QED BY <2>2 DEF Iterates
<1>4. \A t \in D : t = 0 \/ (t \in 1 .. MaxTries /\ t - 1 \in D)
  BY <1>1
<1>5. \A t \in D : g[t] = IF t = 0 THEN SCRATCH_MIN ELSE 2 * g[t - 1]
  <2> TAKE t \in D
  <2>1. CASE t = 0
    BY <1>3, <2>1
  <2>2. CASE t # 0
    <3>1. t \in 1 .. MaxTries /\ t - 1 \in D
      BY <1>4, <2>2
    <3>2. g[t - 1] \in Nat
      BY <3>1
    <3> QED BY <1>2, <1>3, <2>2, <3>1, <3>2
  <2> QED BY <2>1, <2>2
<1>6. g = [t \in D |-> IF t = 0 THEN SCRATCH_MIN ELSE 2 * g[t - 1]]
  BY <1>5
<1>7. Doubled = [t \in D |-> IF t = 0 THEN SCRATCH_MIN ELSE 2 * Doubled[t - 1]]
  BY <1>6, Zenon DEF Doubled, D
<1>8. \A t \in D : Doubled[t] = IF t = 0 THEN SCRATCH_MIN ELSE 2 * Doubled[t - 1]
  BY <1>7
<1>9. 0 \in D /\ \A t \in 1 .. MaxTries : t \in D /\ t # 0
  BY <1>1
<1>10. \A t \in D : Doubled[t] \in Nat
  <2> DEFINE N == {t \in D : Doubled[t] \notin Nat}
  <2> SUFFICES ASSUME N # {} PROVE FALSE
    OBVIOUS
  <2>1. PICK t \in N : \A l \in N : t <= l
    <3>1. N \in SUBSET Nat
      OBVIOUS
    <3> HIDE DEF N
    <3> QED BY <3>1, SmallestIn
  <2>2. t \in D /\ Doubled[t] \notin Nat
    OBVIOUS
  <2>3. t # 0
    BY <1>1, <1>8, <2>2
  <2>4. t - 1 \in D /\ ~(t <= t - 1)
    BY <1>4, <2>2, <2>3
  <2>5. Doubled[t - 1] \in Nat
    BY <2>1, <2>4
  <2>6. Doubled[t] = 2 * Doubled[t - 1]
    BY <1>8, <2>2, <2>3
  <2> QED BY <2>2, <2>5, <2>6
<1> QED BY <1>8, <1>9, <1>10

\* The scratches of the tries, one after the other.
LEMMA TriedIs ==
    ASSUME NEW s \in 0 .. MaxInt, NEW need \in Nat
    PROVE  \E g \in [0 .. MaxTries -> 1 .. MaxInt] :
               /\ g[0] = Scratch(s, need)
               /\ \A t \in 1 .. MaxTries : g[t] = Scratch(g[t - 1], 2 * g[t - 1])
               /\ Tried(s, need) = {g[t] : t \in 0 .. MaxTries - 1}
<1> DEFINE D == 0 .. MaxTries
           S == 1 .. MaxInt
           f == [n \in S |-> Scratch(n, 2 * n)]
<1>1. MaxTries \in Nat
  BY ConstantsAssumption
<1>2. f \in [S -> S] /\ \A n \in S : f[n] = Scratch(n, 2 * n)
  <2>1. ASSUME NEW n \in S PROVE Scratch(n, 2 * n) \in S
    <3>1. n \in 0 .. MaxInt /\ 2 * n \in Nat
      OBVIOUS
    <3> QED BY <3>1, ScratchShape
  <2> QED BY <2>1
<1>3. Scratch(s, need) \in S
  BY ScratchShape
<1> HIDE DEF f, S
<1>4. PICK g \in [D -> S] :
          g[0] = Scratch(s, need) /\ \A t \in 1 .. MaxTries : g[t] = f[g[t - 1]]
  <2>1. f \in [S -> S]
    BY <1>2
  <2>2. PICK h : h \in Iterates(S, f, Scratch(s, need), MaxTries)
    BY <1>1, <1>3, <2>1, Iterate
  <2> QED BY <2>2 DEF Iterates
<1>5. \A t \in 1 .. MaxTries : g[t] = Scratch(g[t - 1], 2 * g[t - 1])
  <2> TAKE t \in 1 .. MaxTries
  <2>1. t - 1 \in D
    BY <1>1
  <2>2. g[t - 1] \in S
    BY <2>1
  <2> QED BY <1>2, <1>4, <2>2
<1>6. \A t \in D : g[t] = IF t = 0 THEN Scratch(s, need) ELSE Scratch(g[t - 1], 2 * g[t - 1])
  <2> TAKE t \in D
  <2>1. t = 0 \/ t \in 1 .. MaxTries
    BY <1>1
  <2> QED BY <1>4, <1>5, <2>1
<1>7. g = [t \in D |-> IF t = 0 THEN Scratch(s, need) ELSE Scratch(g[t - 1], 2 * g[t - 1])]
  BY <1>6
<1> HIDE DEF D
<1>8. PICK h : /\ h = [t \in D |-> IF t = 0 THEN Scratch(s, need)
                                   ELSE Scratch(h[t - 1], 2 * h[t - 1])]
               /\ Tried(s, need) = {h[t] : t \in 0 .. MaxTries - 1}
  BY <1>7, Zenon DEF Tried, D
<1>9. \A t \in D : h[t] = IF t = 0 THEN Scratch(s, need) ELSE Scratch(h[t - 1], 2 * h[t - 1])
  BY <1>8
<1>10. \A t \in D : h[t] = g[t]
  <2> DEFINE N == {t \in D : h[t] # g[t]}
  <2> SUFFICES ASSUME N # {} PROVE FALSE
    OBVIOUS
  <2>1. PICK t \in N : \A l \in N : t <= l
    <3>1. N \in SUBSET Nat
      BY DEF D
    <3> HIDE DEF N
    <3> QED BY <3>1, SmallestIn
  <2>2. t \in D /\ h[t] # g[t]
    OBVIOUS
  <2>3. t # 0
    BY <1>6, <1>9, <2>2
  <2>4. t - 1 \in D /\ ~(t <= t - 1)
    BY <1>1, <2>2, <2>3 DEF D
  <2>5. h[t - 1] = g[t - 1]
    BY <2>1, <2>4
  <2> QED BY <1>6, <1>9, <2>2, <2>3, <2>5
<1>11. h = g
  BY <1>7, <1>8, <1>10
<1>12. Tried(s, need) = {g[t] : t \in 0 .. MaxTries - 1}
  BY <1>8, <1>11
<1>13. g \in [0 .. MaxTries -> 1 .. MaxInt] /\ g[0] = Scratch(s, need)
  BY <1>4 DEF S, D
<1> QED BY <1>5, <1>12, <1>13, Zenon

\* The tries find room for what is below half of the largest 32-bit number.
LEMMA FitsReach ==
    ASSUME NEW s \in 0 .. MaxInt, NEW need \in Nat, NEW takes \in Nat, 2 * takes <= MaxInt + 1
    PROVE  Fits(s, need, takes) # {}
<1>1. MaxTries \in Nat /\ MaxTries >= 1 /\ MaxInt \in Nat
  BY ConstantsAssumption
<1>2. PICK g \in [0 .. MaxTries -> 1 .. MaxInt] :
               /\ g[0] = Scratch(s, need)
               /\ \A t \in 1 .. MaxTries : g[t] = Scratch(g[t - 1], 2 * g[t - 1])
               /\ Tried(s, need) = {g[t] : t \in 0 .. MaxTries - 1}
  BY TriedIs
<1> DEFINE Far(t) == g[t] >= takes \/ g[t] >= Doubled[t]
           N == {t \in 0 .. MaxTries : ~Far(t)}
<1>3. N = {}
  <2> SUFFICES ASSUME N # {} PROVE FALSE
    OBVIOUS
  <2>1. PICK t \in N : \A l \in N : t <= l
    <3>1. N \in SUBSET Nat
      OBVIOUS
    <3> HIDE DEF N
    <3> QED BY <3>1, SmallestIn
  <2>2. t \in 0 .. MaxTries /\ ~Far(t)
    OBVIOUS
  <2>3. t # 0
    <3> SUFFICES ASSUME t = 0 PROVE FALSE
      OBVIOUS
    <3>1. Scratch(s, need) = Max({Int32(need), SCRATCH_MIN, s})
      BY Zenon DEF Scratch
    <3>2. SCRATCH_MIN \in Int /\ Int32(need) \in Int /\ s \in Int
      BY ConstantsAssumption, Int32Is
    <3>5. SCRATCH_MIN <= Max({Int32(need), SCRATCH_MIN, s})
      BY <3>2, MaxOfThree
    <3>3. SCRATCH_MIN <= Scratch(s, need)
      BY <3>1, <3>5
    <3>4. Scratch(s, need) \in Int
      BY ScratchShape
    <3> QED BY <1>2, <2>2, <3>2, <3>3, <3>4, DoubledIs
  <2> DEFINE u == t - 1
  <2>4. u \in 0 .. MaxTries /\ t \in 1 .. MaxTries /\ ~(t <= u)
    BY <1>1, <2>2, <2>3
  <2>5. Far(u)
    BY <2>1, <2>4
  <2>6. /\ g[u] \in 1 .. MaxInt /\ g[t] \in 1 .. MaxInt /\ g[t] = Scratch(g[u], 2 * g[u])
        /\ Doubled[t] = 2 * Doubled[u] /\ Doubled[u] \in Nat
    BY <1>2, <2>2, <2>4, DoubledIs
  <2> HIDE DEF u
  <2>7. g[u] \in 0 .. MaxInt /\ 2 * g[u] \in Nat
    BY <2>6
  <2>8. g[u] <= g[t] /\ (2 * g[u] <= MaxInt => 2 * g[u] <= g[t])
    BY <2>6, <2>7, ScratchShape
  <2>9. CASE g[u] >= takes
    BY <2>2, <2>6, <2>8, <2>9
  <2>10. CASE ~(g[u] >= takes)
    <3>1. g[u] >= Doubled[u] /\ 2 * g[u] <= MaxInt
      BY <1>1, <2>5, <2>6, <2>10
    <3> QED BY <2>2, <2>6, <2>8, <3>1
  <2> QED BY <2>9, <2>10
<1> DEFINE l == MaxTries - 1
<1>4. l \in 0 .. MaxTries /\ l \in 0 .. MaxTries - 1
  BY <1>1
<1>5. Far(l) /\ g[l] \in 1 .. MaxInt /\ Doubled[l] \in Nat
  BY <1>3, <1>4, DoubledIs
<1>6. 2 * Doubled[l] > MaxInt
  BY TriesAssumption
<1> HIDE DEF l
<1>7. g[l] >= takes
  BY <1>1, <1>5, <1>6
<1>8. g[l] \in Tried(s, need)
  BY <1>2, <1>4
<1> QED BY <1>7, <1>8 DEF Fits

\* _grow stays in 32 bits.
LEMMA GrowShape ==
    ASSUME NEW s \in 0 .. MaxInt, NEW need \in Nat, NEW takes
    PROVE  Grow(s, need, takes) \in 0 .. MaxInt
<1> DEFINE T == Tried(s, need)
           F == Fits(s, need, takes)
<1>1. MaxTries \in Nat /\ MaxTries >= 1 /\ MaxInt \in Nat
  BY ConstantsAssumption
<1>2. T \in SUBSET (0 .. MaxInt) /\ T # {}
  <2>1. PICK g \in [0 .. MaxTries -> 1 .. MaxInt] : T = {g[t] : t \in 0 .. MaxTries - 1}
    BY TriedIs
  <2>2. \A t \in 0 .. MaxTries - 1 : g[t] \in 0 .. MaxInt
    <3> TAKE t \in 0 .. MaxTries - 1
    <3>1. t \in 0 .. MaxTries
      BY <1>1
    <3>2. g[t] \in 1 .. MaxInt
      BY <3>1
    <3> QED BY <1>1, <3>2
  <2>3. g[0] \in T
    BY <1>1, <2>1
  <2> HIDE DEF T
  <2> QED BY <2>1, <2>2, <2>3
<1>3. F \in SUBSET T
  BY DEF Fits
<1>4. Grow(s, need, takes) = IF F # {} THEN Min(F) ELSE Scratch(Max(T), 2 * Max(T))
  BY DEF Grow
<1> HIDE DEF T, F
<1>5. CASE F # {}
  <2>1. F \in SUBSET Nat
    BY <1>2, <1>3
  <2>2. PICK n \in F : \A y \in F : n <= y
    BY <1>5, <2>1, SmallestIn
  <2>3. Min(F) = n
    <3>1. \A x \in F : (\A y \in F : x <= y) => x = n
      BY <2>1, <2>2
    <3> QED BY <2>2, <3>1 DEF Min
  <2> QED BY <1>2, <1>3, <1>4, <1>5, <2>3
<1>6. CASE F = {}
  <2>1. PICK n \in T : \A y \in T : y <= n
    BY <1>1, <1>2, LargestIn
  <2>2. Max(T) = n
    <3>1. T \in SUBSET Int
      BY <1>2
    <3> QED BY <2>1, <3>1, MaxIs
  <2>3. n \in 0 .. MaxInt /\ 2 * n \in Nat
    BY <1>2
  <2> QED BY <1>4, <1>6, <2>2, <2>3, ScratchShape
<1> QED BY <1>5, <1>6

-----------------------------------------------------------------------------
(* What the operations on a pack log keep.                                 *)

LogTypeOK ==
    /\ mem \in Memory
    /\ hdr \in NoHdr .. MaxRecs + 1
    /\ end \in 0 .. MaxRecs + 1 /\ watermark \in {0, end} /\ count \in 0 .. MaxRecs + 1
    /\ read \in 0 .. MaxRecs + 1 /\ rec \in {-1} \cup Live
    /\ scratch \in 0 .. MaxInt
    /\ out \in Seq(Entries) /\ Len(out) <= MaxOut
    /\ walks \in 0 .. MaxWalks
    /\ family \in Families
    /\ grown \in BOOLEAN /\ wanted \subseteq Offsets

\* The records in the bytes hang together, and a view counts what it fed.
RecordInv == Backward(mem) /\ Deltas(mem, end) /\ count <= watermark

LogPart == LogTypeOK /\ RecordInv /\ BooksExact

\* The numbers of a pack log.
LEMMA LogNumbers ==
    ASSUME LogTypeOK
    PROVE  /\ MaxRecs \in Nat /\ MaxOut \in Nat /\ MaxInt \in Nat /\ MaxWalks \in Nat
           /\ watermark \in Nat /\ watermark <= MaxRecs + 1 /\ Len(out) \in Nat
           /\ end \in Nat /\ end <= MaxRecs + 1 /\ watermark <= end
           /\ \A o \in 0 .. MaxRecs : o \in Offsets
           /\ \A o \in Held : o \in Offsets /\ o \in Nat
           /\ \A o \in Live : o \in Held /\ o \in Offsets /\ o \in Nat /\ watermark = end
<1>1. MaxRecs \in Nat /\ MaxOut \in Nat /\ MaxInt \in Nat /\ MaxWalks \in Nat
  BY ConstantsAssumption
<1>2. end \in Nat /\ end <= MaxRecs + 1 /\ (watermark = 0 \/ watermark = end)
  BY <1>1 DEF LogTypeOK
<1>3. watermark \in Nat /\ watermark <= MaxRecs + 1 /\ watermark <= end
  BY <1>1, <1>2
<1>4. Len(out) \in Nat
  BY LenProperties DEF LogTypeOK
<1>5. \A o \in 0 .. MaxRecs : o \in Offsets
  BY DEF Offsets
<1>6. \A o \in Held : o \in Offsets /\ o \in Nat
  BY <1>1, <1>2 DEF Held, LiveIn, Offsets
<1>7. \A o \in Live : o \in Held /\ watermark = end
  BY <1>1, <1>2 DEF Live, Held, LiveIn
<1> QED BY <1>1, <1>2, <1>3, <1>4, <1>5, <1>6, <1>7

\* After the header there is a record at every offset.
LEMMA RecordsFollow ==
    ASSUME LogTypeOK, RecordInv
    PROVE  /\ \A o \in 1 .. end - 1 : o \in Held
           /\ \A o \in Walk : o \in Live
<1>1. end \in Nat /\ watermark \in Nat /\ watermark <= end
  BY LogNumbers
<1>2. ASSUME NEW o \in 1 .. end - 1 PROVE o \in 0 .. end - 1 /\ mem[o] # None
  <2>1. o \in 0 .. end - 1 /\ o >= 1
    BY <1>1
  <2> QED BY <2>1 DEF RecordInv, Deltas
<1>3. \A o \in Walk : o \in 1 .. end - 1 /\ o \in 0 .. watermark - 1
  BY <1>1 DEF Walk
<1> QED BY <1>2, <1>3 DEF Live, Held, LiveIn

\* The records of a pack log resolve, and their chains are measured.
LEMMA LogResolves ==
    ASSUME LogTypeOK, RecordInv, NEW o \in Live
    PROVE  /\ ~Broken(mem, o) => Resolved(mem, o) = mem[o].object
           /\ Takes(mem, o) \in Nat /\ mem[o].object \in Objects /\ mem[o].size \in Nat
<1>1. mem \in Memory /\ Backward(mem) /\ Deltas(mem, end) /\ end \in 0 .. MaxRecs + 1
  BY DEF LogTypeOK, RecordInv
<1>2. o \in Offsets /\ o \in LiveIn(mem, end)
  BY LogNumbers DEF Held
<1>3. mem[o] # None
  BY DEF Live, LiveIn
<1>4. mem[o].object \in Objects /\ mem[o].size \in Nat
  BY <1>1, <1>2, <1>3, RecShape
<1>5. ~Broken(mem, o) => Resolved(mem, o) = mem[o].object
  BY <1>1, <1>2, ResolvesTo
<1>6. Takes(mem, o) \in Nat
  BY <1>1, <1>2, TakesIs
<1> QED BY <1>4, <1>5, <1>6

\* What feed() may write at w: the object, or a delta from an earlier record.
NewRec(m, w, object, r) ==
    \/ r = Raw(object)
    \/ \E p \in LiveIn(m, w), d \in DeltaSizes : r = OfDelta(object, p, m[p].object, d)

\* A record that is written at the write head hangs together with the others.
LEMMA FedMem ==
    ASSUME NEW m \in Memory, Backward(m), NEW w \in Offsets, Deltas(m, w),
           NEW object \in Objects, NEW r, NewRec(m, w, object, r),
           NEW n, n = [m EXCEPT ![w] = r]
    PROVE  /\ n \in Memory /\ Backward(n) /\ Deltas(n, w + 1)
           /\ r # None /\ r.object = object
           /\ \A i \in 0 .. w - 1 : n[i] = m[i]
<1>1. MaxRecs \in Nat /\ w \in Nat /\ w <= MaxRecs
  BY ConstantsAssumption DEF Offsets
<1>2. ASSUME NEW p \in LiveIn(m, w)
      PROVE  p \in 0 .. w - 1 /\ p \in Offsets /\ m[p] # None /\ m[p].object \in Objects
  <2>1. p \in 0 .. w - 1 /\ p \in Offsets /\ m[p] # None
    BY <1>1 DEF LiveIn, Offsets
  <2> QED BY <2>1, RecShape
<1>3. /\ r \in Recs /\ r.object = object /\ r.kind \in {"raw", "ofs"}
      /\ r.kind = "ofs" => /\ r.base \in 0 .. w - 1 /\ r.from \in Objects
                           /\ m[r.base] # None /\ r.from = m[r.base].object
  <2>1. CASE r = Raw(object)
    <3>1. object \in Nat
      BY ConstantsAssumption
    <3>2. r = [kind |-> "raw", base |-> NoBase, from |-> 0, object |-> object,
               size |-> object]
      BY <2>1 DEF Raw
    <3>3. r \in Recs
      BY <3>1, <3>2 DEF Recs
    <3>4. r.kind = "raw" /\ r.object = object
      BY <3>2
    <3> QED BY <3>3, <3>4
  <2>2. ASSUME NEW p \in LiveIn(m, w), NEW d \in DeltaSizes,
               r = OfDelta(object, p, m[p].object, d)
        PROVE  /\ r \in Recs /\ r.object = object /\ r.kind \in {"raw", "ofs"}
               /\ r.kind = "ofs" => /\ r.base \in 0 .. w - 1 /\ r.from \in Objects
                                    /\ m[r.base] # None /\ r.from = m[r.base].object
    <3>1. p \in 0 .. w - 1 /\ p \in Offsets /\ m[p] # None /\ m[p].object \in Objects
      BY <1>2
    <3>2. d \in Nat
      BY ConstantsAssumption
    <3>3. r = [kind |-> "ofs", base |-> p, from |-> m[p].object, object |-> object,
               size |-> d]
      BY <2>2 DEF OfDelta
    <3>4. r \in Recs
      BY <3>1, <3>2, <3>3 DEF Recs
    <3>5. r.kind = "ofs" /\ r.base = p /\ r.from = m[p].object /\ r.object = object
      BY <3>3
    <3> QED BY <3>1, <3>4, <3>5
  <2> QED BY <2>1, <2>2 DEF NewRec
<1>4. m \in [Offsets -> Recs \cup {None}]
  BY DEF Memory
<1>5. n \in [Offsets -> Recs \cup {None}]
  BY <1>3, <1>4
<1>6. n[w] = r /\ \A i \in Offsets : i # w => n[i] = m[i]
  BY <1>4
<1>7. \A i \in 0 .. w - 1 : i \in Offsets /\ i # w
  BY <1>1 DEF Offsets
<1>8. \A i \in 0 .. w - 1 : n[i] = m[i]
  BY <1>6, <1>7
<1>9. r # None
  <2>1. None.kind = "none"
    BY DEF None
  <2> QED BY <1>3, <2>1
<1>10. Backward(n)
  <2> SUFFICES ASSUME NEW o \in Offsets, n[o].kind = "ofs"
               PROVE  n[o].base \in 0 .. o - 1 /\ n[o].from \in Objects
    BY DEF Backward
  <2>1. CASE o = w
    BY <1>3, <1>6, <2>1
  <2>2. CASE o # w
    BY <1>6, <2>2 DEF Backward
  <2> QED BY <2>1, <2>2
<1>11. Deltas(n, w + 1)
  <2> SUFFICES ASSUME NEW o \in 0 .. (w + 1) - 1
               PROVE  /\ o >= 1 => n[o] # None
                      /\ n[o].kind = "ofs" => /\ n[n[o].base] # None
                                              /\ n[o].from = n[n[o].base].object
    BY DEF Deltas
  <2>1. CASE o = w
    <3>1. ASSUME n[o].kind = "ofs"
          PROVE  n[n[o].base] # None /\ n[o].from = n[n[o].base].object
      <4>1. r.base \in 0 .. w - 1 /\ m[r.base] # None /\ r.from = m[r.base].object
        BY <1>3, <1>6, <2>1, <3>1
      <4>2. n[r.base] = m[r.base]
        BY <1>8, <4>1
      <4> QED BY <1>6, <2>1, <4>1, <4>2
    <3> QED BY <1>6, <1>9, <2>1, <3>1
  <2>2. CASE o # w
    <3>1. o \in 0 .. w - 1 /\ o \in Offsets
      BY <1>1, <2>2 DEF Offsets
    <3>2. /\ n[o] = m[o] /\ (o >= 1 => m[o] # None)
          /\ m[o].kind = "ofs" => m[m[o].base] # None /\ m[o].from = m[m[o].base].object
      BY <1>8, <3>1 DEF Deltas
    <3>3. m[o].kind = "ofs" => m[o].base \in 0 .. o - 1
      BY <3>1 DEF Backward
    <3>4. m[o].kind = "ofs" => m[o].base \in 0 .. w - 1
      BY <1>1, <3>1, <3>3
    <3> QED BY <1>8, <3>2, <3>4
  <2> QED BY <2>1, <2>2
<1> QED BY <1>3, <1>5, <1>6, <1>8, <1>9, <1>10, <1>11 DEF Memory

\* The entries in the index, and what they were made for.
LEMMA IndexShape ==
    ASSUME LogPart
    PROVE  /\ out \in Seq(Entries) /\ Len(out) \in Nat
           /\ \A o \in wanted : \E i \in 1 .. Len(out) : out[i].off = o
           /\ \A i \in 1 .. Len(out) :
                 out[i].off \in Held /\ out[i].key = mem[out[i].off].object
BY LogNumbers DEF LogPart, LogTypeOK, BooksExact, IndexExact, Entry1

\* A change at 0 that leaves no delta there.
LEMMA StartMem ==
    ASSUME NEW m \in Memory, Backward(m), NEW r \in Recs \cup {None}, r.kind # "ofs"
    PROVE  LET n == [m EXCEPT ![0] = r] IN
           n \in Memory /\ Backward(n) /\ n[0] = r /\ \A i \in Offsets : i # 0 => n[i] = m[i]
<1> DEFINE n == [m EXCEPT ![0] = r]
<1>1. 0 \in Offsets
  BY ConstantsAssumption DEF Offsets
<1>2. m \in [Offsets -> Recs \cup {None}]
  BY DEF Memory
<1>3. n \in [Offsets -> Recs \cup {None}] /\ n[0] = r
      /\ \A i \in Offsets : i # 0 => n[i] = m[i]
  BY <1>1, <1>2
<1> HIDE DEF n
<1>4. Backward(n)
  <2> SUFFICES ASSUME NEW o \in Offsets, n[o].kind = "ofs"
               PROVE  n[o].base \in 0 .. o - 1 /\ n[o].from \in Objects
    BY DEF Backward
  <2> QED BY <1>3 DEF Backward
<1> QED BY <1>3, <1>4 DEF Memory, n

\* header().
LEMMA HeaderStep ==
    ASSUME LogPart, header
    PROVE  LogPart'
<1>1. LogTypeOK /\ RecordInv
  BY DEF LogPart
<1>2. /\ walks < MaxWalks /\ walks' = walks + 1 /\ hdr' = 0 /\ watermark' = 1 /\ end' = 1
      /\ count' = 0 /\ read' = 0 /\ rec' = -1 /\ grown' = TRUE /\ wanted' = {}
      /\ out' = <<>> /\ UNCHANGED <<scratch, family>>
      /\ mem' = [mem EXCEPT ![0] = None]
  BY DEF header, apart
<1>3. MaxRecs \in Nat /\ MaxOut \in Nat /\ MaxWalks \in Nat
  BY <1>1, LogNumbers
<1>4. /\ hdr' \in NoHdr .. MaxRecs + 1 /\ end' \in 0 .. MaxRecs + 1
      /\ watermark' \in {0, end'} /\ count' \in 0 .. MaxRecs + 1
      /\ read' \in 0 .. MaxRecs + 1 /\ walks' \in 0 .. MaxWalks
  <2>1. walks \in 0 .. MaxWalks
    BY <1>1 DEF LogTypeOK
  <2> QED BY <1>2, <1>3, <2>1 DEF NoHdr
<1>5. out' \in Seq(Entries) /\ Len(out') = 0 /\ Len(out') <= MaxOut /\ 1 .. 0 = {}
  BY <1>2, <1>3
<1>6. mem' \in Memory /\ Backward(mem') /\ mem'[0] = None /\ None.kind = "none"
  <2>1. mem \in Memory /\ Backward(mem)
    BY <1>1 DEF LogTypeOK, RecordInv
  <2>2. None.kind = "none" /\ None.kind # "ofs" /\ None \in Recs \cup {None}
    BY DEF None
  <2> QED BY <1>2, <2>1, <2>2, StartMem
<1>7. LogTypeOK'
  BY <1>1, <1>2, <1>4, <1>5, <1>6 DEF LogTypeOK
<1>8. RecordInv'
  <2>1. \A o \in 0 .. 1 - 1 : o = 0
    OBVIOUS
  <2>2. Deltas(mem', 1)
    BY <1>6, <2>1 DEF Deltas
  <2> QED BY <1>2, <1>6, <2>2 DEF RecordInv
<1>9. BooksExact'
  BY <1>2, <1>5 DEF BooksExact, IndexExact, CountExact
<1> QED BY <1>7, <1>8, <1>9 DEF LogPart

\* A header that is written over what is at 0 leaves the objects what they are.
LEMMA HeadedMem ==
    ASSUME NEW m \in Memory, Backward(m), NEW w \in Nat, w <= MaxRecs + 1, Deltas(m, w)
    PROVE  /\ Headed(m) \in Memory /\ Backward(Headed(m)) /\ Deltas(Headed(m), w)
           /\ \A o \in Offsets : /\ Headed(m)[o].object = m[o].object
                                 /\ Headed(m)[o] # None <=> m[o] # None
<1> DEFINE n == Headed(m)
           r == [m[0] EXCEPT !.kind = "torn"]
<1>1. CASE m[0] = None
  BY <1>1 DEF Headed
<1>2. CASE m[0] # None
  <2>1. 0 \in Offsets /\ MaxRecs \in Nat
    BY ConstantsAssumption DEF Offsets
  <2>2. m[0] \in Recs
    BY <1>2, <2>1 DEF Memory
  <2>3. r \in Recs /\ r.kind = "torn" /\ r.object = m[0].object
    BY <2>2 DEF Recs
  <2>4. n = [m EXCEPT ![0] = r]
    BY <1>2 DEF Headed
  <2>5. r # None
    <3>1. None.kind = "none"
      BY DEF None
    <3> QED BY <2>3, <3>1
  <2> HIDE DEF n, r
  <2>6. /\ n \in Memory /\ Backward(n) /\ n[0] = r
        /\ \A i \in Offsets : i # 0 => n[i] = m[i]
    <3>1. r \in Recs \cup {None} /\ r.kind # "ofs"
      BY <2>3
    <3> DEFINE k == [m EXCEPT ![0] = r]
    <3>2. k \in Memory /\ Backward(k) /\ k[0] = r /\ \A i \in Offsets : i # 0 => k[i] = m[i]
      BY <3>1, StartMem
    <3>3. n = k
      BY <2>4
    <3> HIDE DEF k
    <3> QED BY <3>2, <3>3
  <2>7. ASSUME NEW o \in Offsets
        PROVE  n[o].object = m[o].object /\ (n[o] # None <=> m[o] # None)
    <3>1. CASE o = 0
      BY <1>2, <2>3, <2>5, <2>6, <3>1
    <3>2. CASE o # 0
      BY <2>6, <3>2
    <3> QED BY <3>1, <3>2
  <2>8. Deltas(n, w)
    <3> SUFFICES ASSUME NEW o \in 0 .. w - 1
                 PROVE  /\ o >= 1 => n[o] # None
                        /\ n[o].kind = "ofs" => /\ n[n[o].base] # None
                                                /\ n[o].from = n[n[o].base].object
      BY DEF Deltas
    <3>1. o \in Offsets
      BY <2>1 DEF Offsets
    <3>2. o >= 1 => n[o] # None
      BY <2>7, <3>1 DEF Deltas
    <3>3. ASSUME n[o].kind = "ofs"
          PROVE  n[n[o].base] # None /\ n[o].from = n[n[o].base].object
      <4>1. o # 0
        BY <2>3, <2>6, <3>3
      <4>2. n[o] = m[o]
        BY <2>6, <3>1, <4>1
      <4>3. /\ m[o].base \in 0 .. o - 1 /\ m[m[o].base] # None
            /\ m[o].from = m[m[o].base].object
        BY <3>1, <3>3, <4>2 DEF Backward, Deltas
      <4>4. m[o].base \in Offsets
        BY <2>1, <3>1, <4>3 DEF Offsets
      <4> QED BY <2>7, <4>2, <4>3, <4>4
    <3> QED BY <3>2, <3>3
  <2> QED BY <2>6, <2>7, <2>8 DEF n
<1> QED BY <1>1, <1>2

\* finish().
LEMMA FinishStep ==
    ASSUME LogPart, finish
    PROVE  LogPart'
<1>1. LogTypeOK /\ RecordInv
  BY DEF LogPart
<1>2. /\ hdr' = count /\ mem' = Headed(mem) /\ end' = IF end = 0 THEN 1 ELSE end
      /\ UNCHANGED <<watermark, count, read, rec, scratch, out, walks, family, grown, wanted>>
  BY DEF finish, apart, cursor
<1>3. /\ MaxRecs \in Nat /\ end \in Nat /\ end <= MaxRecs + 1 /\ watermark \in {0, end}
      /\ mem \in Memory /\ Backward(mem) /\ Deltas(mem, end) /\ count \in 0 .. MaxRecs + 1
      /\ 0 \in Offsets
  BY <1>1, LogNumbers DEF LogTypeOK, RecordInv
<1>4. hdr' \in NoHdr .. MaxRecs + 1 /\ end' \in 0 .. MaxRecs + 1 /\ watermark' \in {0, end'}
  BY <1>2, <1>3 DEF NoHdr
<1>5. Deltas(mem, end')
  <2>1. CASE end = 0
    <3>1. \A o \in 0 .. end' - 1 : o = 0 /\ ~(o >= 1)
      BY <1>2, <2>1
    <3>2. mem[0].kind # "ofs"
      <4>1. mem[0].kind = "ofs" => mem[0].base \in 0 .. 0 - 1
        BY <1>3 DEF Backward
      <4> QED BY <4>1
    <3> QED BY <3>1, <3>2 DEF Deltas
  <2>2. CASE end # 0
    BY <1>2, <1>3, <2>2
  <2> QED BY <2>1, <2>2
<1>6. /\ mem' \in Memory /\ Backward(mem') /\ Deltas(mem', end')
      /\ \A o \in Offsets : mem'[o].object = mem[o].object /\ (mem'[o] # None <=> mem[o] # None)
  <2>1. end' \in Nat /\ end' <= MaxRecs + 1
    BY <1>2, <1>3
  <2> QED BY <1>2, <1>3, <1>5, <2>1, HeadedMem
<1>7. \A o : (o \in Live => o \in LiveIn(mem', watermark')) /\ (o \in Held => o \in LiveIn(mem', end'))
  <2>1. \A o \in 0 .. end - 1 : o \in Offsets /\ o \in 0 .. end' - 1
    BY <1>2, <1>3 DEF Offsets
  <2>2. \A o \in 0 .. watermark - 1 : o \in Offsets
    BY <1>3 DEF Offsets
  <2> QED BY <1>2, <1>6, <2>1, <2>2 DEF Live, Held, LiveIn
<1>8. LogTypeOK'
  BY <1>1, <1>2, <1>4, <1>6, <1>7 DEF LogTypeOK, Live
<1>9. RecordInv'
  BY <1>1, <1>2, <1>6 DEF RecordInv
<1>10. BooksExact'
  <2>1. /\ \A o \in wanted : \E i \in 1 .. Len(out) : out[i].off = o
        /\ \A i \in 1 .. Len(out) :
                 out[i].off \in Held /\ out[i].key = mem[out[i].off].object
    BY IndexShape
  <2>2. \A o \in Held : o \in Offsets
    BY <1>1, LogNumbers
  <2>3. /\ \A o \in wanted' : \E i \in 1 .. Len(out') : out'[i].off = o
        /\ \A i \in 1 .. Len(out') :
                 out'[i].off \in LiveIn(mem', end') /\ out'[i].key = mem'[out'[i].off].object
    BY <1>2, <1>6, <1>7, <2>1, <2>2
  <2>4. CountExact'
    BY <1>2 DEF LogPart, BooksExact, CountExact
  <2> QED BY <2>3, <2>4 DEF BooksExact, IndexExact, Entry1, Held
<1> QED BY <1>8, <1>9, <1>10 DEF LogPart

\* git.pack.over, git.pack.mmap; and the write head that a program sets.
LEMMA OpenSteps ==
    ASSUME LogPart, build \/ setHead
    PROVE  LogPart'
<1>1. LogTypeOK /\ RecordInv
  BY DEF LogPart
<1>2. UNCHANGED <<mem, hdr, end, out, family, wanted>>
  BY DEF build, setHead, apart
<1>3. \/ /\ walks < MaxWalks /\ walks' = walks + 1 /\ watermark' = 0 /\ count' = 0
         /\ read' = 0 /\ rec' = -1 /\ scratch' = 0 /\ grown' = FALSE
      \/ /\ watermark = 0 /\ watermark' = end
         /\ UNCHANGED <<count, read, rec, scratch, walks, grown>>
  BY DEF build, setHead, cursor
<1>4. /\ MaxRecs \in Nat /\ MaxWalks \in Nat /\ MaxInt \in Nat /\ watermark \in Nat
      /\ end \in Nat /\ \A o \in Live : watermark = end
  BY <1>1, LogNumbers
<1>5. /\ count \in 0 .. MaxRecs + 1 /\ count <= watermark /\ rec \in {-1} \cup Live
      /\ read \in 0 .. MaxRecs + 1 /\ scratch \in 0 .. MaxInt /\ walks \in 0 .. MaxWalks
      /\ grown \in BOOLEAN
  BY <1>1 DEF LogTypeOK, RecordInv
<1>6. /\ watermark' \in {0, end'} /\ count' \in 0 .. MaxRecs + 1 /\ count' <= watermark'
      /\ read' \in 0 .. MaxRecs + 1 /\ scratch' \in 0 .. MaxInt /\ walks' \in 0 .. MaxWalks
      /\ grown' \in BOOLEAN
  <2>1. CASE /\ walks < MaxWalks /\ walks' = walks + 1 /\ watermark' = 0 /\ count' = 0
             /\ read' = 0 /\ scratch' = 0 /\ grown' = FALSE
    <3>1. walks' \in 0 .. MaxWalks
      BY <1>4, <1>5, <2>1
    <3>2. 0 \in 0 .. MaxRecs + 1 /\ 0 \in 0 .. MaxInt /\ 0 <= 0
      BY <1>4
    <3> QED BY <2>1, <3>1, <3>2
  <2>2. CASE /\ watermark = 0 /\ watermark' = end
             /\ UNCHANGED <<count, read, scratch, walks, grown>>
    BY <1>2, <1>4, <1>5, <2>2
  <2> QED BY <1>3, <2>1, <2>2
<1>7. rec' = -1 \/ rec' \in Live'
  <2>1. CASE rec' = -1
    BY <2>1
  <2>2. CASE watermark = 0 /\ rec' = rec
    <3>1. Live = {}
      <4>1. 0 .. watermark - 1 = {}
        BY <2>2
      <4> QED BY <4>1 DEF Live, LiveIn
    <3> QED BY <1>5, <2>2, <3>1
  <2> QED BY <1>3, <2>1, <2>2
<1>8. LogTypeOK'
  BY <1>1, <1>2, <1>6, <1>7 DEF LogTypeOK
<1>9. RecordInv'
  BY <1>1, <1>2, <1>6 DEF RecordInv
<1>10. CountExact'
  <2>1. grown => count = watermark - 1
    BY DEF LogPart, BooksExact, CountExact
  <2>2. ~(grown /\ watermark = 0)
    BY <1>5, <2>1
  <2> QED BY <1>3, <2>1, <2>2 DEF CountExact
<1>11. IndexExact'
  BY <1>2 DEF LogPart, BooksExact, IndexExact, Entry1, Held
<1> QED BY <1>8, <1>9, <1>10, <1>11 DEF LogPart, BooksExact

\* rewind(), next(), seek() and resolve(): the cursor and the scratch.
LEMMA ReadStep ==
    ASSUME LogPart, UNCHANGED <<pack, out, walks, apart, grown, wanted>>,
           read' \in 0 .. MaxRecs + 1, rec' \in {-1} \cup Live, scratch' \in 0 .. MaxInt
    PROVE  LogPart'
<1>1. UNCHANGED <<mem, hdr, watermark, end, count, out, walks, family, grown, wanted>>
  BY DEF pack, apart
<1>2. LogTypeOK'
  BY <1>1 DEF LogPart, LogTypeOK, Live
<1>3. RecordInv'
  BY <1>1 DEF LogPart, RecordInv
<1>4. BooksExact'
  BY <1>1 DEF LogPart, BooksExact, IndexExact, CountExact, Entry1, Held
<1> QED BY <1>2, <1>3, <1>4 DEF LogPart

\* The reads.
LEMMA ReadSteps ==
    ASSUME LogPart, rewind \/ next \/ resolve \/ \E off \in {0, 1, watermark} : seek(off)
    PROVE  LogPart'
<1>1. /\ LogTypeOK /\ RecordInv /\ MaxRecs \in Nat /\ MaxInt \in Nat
      /\ \A o \in Live : o \in Offsets
  BY LogNumbers DEF LogPart
<1>2. read \in 0 .. MaxRecs + 1 /\ rec \in {-1} \cup Live /\ scratch \in 0 .. MaxInt
  BY <1>1 DEF LogTypeOK
<1>3. ASSUME NEW off, Whole(off)
      PROVE  off \in {-1} \cup Live /\ off + 1 \in 0 .. MaxRecs + 1
  <2>1. off \in Live /\ off \in Offsets
    BY <1>1, <1>3 DEF Whole
  <2> QED BY <1>1, <2>1 DEF Offsets
<1>4. CASE rewind
  <2>1. read' \in 0 .. MaxRecs + 1
    BY <1>1, <1>4 DEF rewind
  <2> QED BY <1>2, <1>4, <2>1, ReadStep DEF rewind
<1>5. CASE next
  <2>1. PICK off : Whole(off) /\ rec' = off /\ read' = off + 1
    BY <1>5 DEF next
  <2> QED BY <1>2, <1>3, <1>5, <2>1, ReadStep DEF next
<1>6. CASE resolve
  <2>1. rec \in Live /\ scratch' = Grow(scratch, mem[rec].size, Takes(mem, rec))
    BY <1>6 DEF resolve, Whole
  <2>2. mem[rec].size \in Nat
    BY <1>1, <2>1, LogResolves
  <2>3. scratch' \in 0 .. MaxInt
    BY <1>2, <2>1, <2>2, GrowShape
  <2> QED BY <1>2, <1>6, <2>3, ReadStep DEF resolve, cursor
<1>7. ASSUME NEW off \in {0, 1, watermark}, seek(off) PROVE LogPart'
  <2>1. rec' \in {-1} \cup Live /\ read' \in 0 .. MaxRecs + 1
    <3>1. CASE Whole(off)
      BY <1>3, <1>7, <3>1 DEF seek
    <3>2. CASE ~Whole(off)
      BY <1>2, <1>7, <3>2 DEF seek
    <3> QED BY <3>1, <3>2
  <2> QED BY <1>2, <1>7, <2>1, ReadStep DEF seek
<1> QED BY <1>4, <1>5, <1>6, <1>7

\* The larger of two numbers is no smaller than the second.
LEMMA MaxOfTwo ==
    ASSUME NEW a \in Int, NEW b \in Int
    PROVE  b <= Max({a, b}) /\ Max({a, b}) \in Int
<1> DEFINE S == {a, b}
<1>1. S \in SUBSET Int
  OBVIOUS
<1>2. \E x \in S : \A y \in S : y <= x
  <2>1. CASE a >= b
    <3>1. \A y \in S : y <= a
      BY <2>1
    <3> QED BY <3>1
  <2>2. CASE ~(a >= b)
    <3>1. \A y \in S : y <= b
      BY <2>2
    <3> QED BY <3>1
  <2> QED BY <2>1, <2>2
<1>3. PICK x \in S : \A y \in S : y <= x
  BY <1>2
<1>4. b \in S
  OBVIOUS
<1>5. Max(S) = x
  <2> HIDE DEF S
  <2> QED BY <1>1, <1>3, MaxIs
<1>6. b <= Max(S) /\ Max(S) \in Int
  <2> HIDE DEF S
  <2> QED BY <1>1, <1>3, <1>4, <1>5
<1> QED BY <1>6 DEF S

\* scan().
LEMMA ScanStep ==
    ASSUME LogPart, scan
    PROVE  LogPart'
<1> DEFINE takes == Max({0} \cup {Takes(mem, o) : o \in Walk})
           q == [i \in Walk |-> [key |-> Resolved(mem, i), off |-> i]]
           n == watermark - 1
<1>1. /\ LogTypeOK /\ RecordInv /\ MaxRecs \in Nat /\ MaxInt \in Nat /\ MaxOut \in Nat
      /\ watermark \in Nat /\ watermark <= MaxRecs + 1 /\ Len(out) \in Nat
      /\ \A o \in Walk : o \in Live /\ o \in Held /\ o \in Offsets
  <2>1. LogTypeOK /\ RecordInv
    BY DEF LogPart
  <2>2. \A o \in Walk : o \in Live
    BY <2>1, RecordsFollow
  <2> QED BY <2>1, <2>2, LogNumbers
<1>2. /\ scratch' = Grow(scratch, 0, takes) \/ scratch' = Scratch(scratch, 0)
      /\ \/ /\ watermark >= 1 /\ Max({hdr, n}) <= MaxOut - Len(out)
            /\ \A o \in Walk : ~Broken(mem, o)
            /\ out' = out \o q /\ wanted' = wanted \cup Walk
         \/ UNCHANGED <<out, wanted>>
      /\ UNCHANGED <<mem, hdr, watermark, end, count, read, rec, walks, family, grown>>
  BY DEF scan, pack, cursor, apart
<1>3. scratch' \in 0 .. MaxInt
  <2>1. scratch \in 0 .. MaxInt /\ 0 \in Nat
    BY <1>1 DEF LogTypeOK
  <2> HIDE DEF takes
  <2>2. Grow(scratch, 0, takes) \in 0 .. MaxInt
    BY <2>1, GrowShape
  <2>3. Scratch(scratch, 0) \in 0 .. MaxInt
    BY <2>1, ScratchShape
  <2> QED BY <1>2, <2>2, <2>3
<1>4. Walk = 1 .. n
  BY DEF Walk
<1>5. /\ out \in Seq(Entries) /\ Len(out) <= MaxOut /\ wanted \subseteq Offsets
      /\ \A o \in wanted : \E i \in 1 .. Len(out) : out[i].off = o
      /\ \A i \in 1 .. Len(out) :
                 out[i].off \in Held /\ out[i].key = mem[out[i].off].object
  BY IndexShape DEF LogPart, LogTypeOK
<1> HIDE DEF q, takes
<1>6. CASE UNCHANGED <<out, wanted>>
  <2>1. LogTypeOK'
    BY <1>1, <1>2, <1>3, <1>6 DEF LogTypeOK, Live
  <2>2. RecordInv'
    BY <1>1, <1>2 DEF RecordInv
  <2>3. BooksExact'
    BY <1>2, <1>6 DEF LogPart, BooksExact, IndexExact, CountExact, Entry1, Held
  <2> QED BY <2>1, <2>2, <2>3 DEF LogPart
<1>7. CASE /\ watermark >= 1 /\ Max({hdr, n}) <= MaxOut - Len(out)
           /\ \A o \in Walk : ~Broken(mem, o)
           /\ out' = out \o q /\ wanted' = wanted \cup Walk
  <2> HIDE DEF n
  <2>0. n \in Nat
    BY <1>1, <1>7 DEF n
  <2>1. ASSUME NEW i \in 1 .. n
        PROVE  /\ q[i] \in Entries /\ q[i].off = i /\ q[i].key = mem[i].object
    <3>1. i \in Walk /\ i \in Live /\ i \in Offsets
      BY <1>1, <1>4
    <3>2. Resolved(mem, i) = mem[i].object /\ mem[i].object \in Objects
      BY <1>1, <1>7, <3>1, LogResolves
    <3>3. q[i] = [key |-> Resolved(mem, i), off |-> i]
      BY <3>1 DEF q
    <3> QED BY <3>1, <3>2, <3>3 DEF Entries
  <2>2. q \in Seq(Entries) /\ Len(q) = n
    <3>1. q = [i \in 1 .. n |-> [key |-> Resolved(mem, i), off |-> i]]
      BY <1>4 DEF q
    <3>2. q \in [1 .. n -> Entries]
      BY <2>1, <3>1
    <3> QED BY <2>0, <3>2
  <2>3. /\ out' \in Seq(Entries) /\ Len(out') = Len(out) + n
        /\ \A i \in 1 .. Len(out) : out'[i] = out[i]
        /\ \A i \in 1 .. n : out'[Len(out) + i] = q[i]
    <3>1. /\ out' \in Seq(Entries) /\ Len(out') = Len(out) + Len(q)
          /\ \A i \in 1 .. Len(out) + Len(q) :
                 out'[i] = IF i <= Len(out) THEN out[i] ELSE q[i - Len(out)]
      BY <1>5, <1>7, <2>2, ConcatProperties
    <3>2. ASSUME NEW i \in 1 .. Len(out) PROVE out'[i] = out[i]
      <4>1. i \in 1 .. Len(out) + Len(q) /\ i <= Len(out)
        BY <1>1, <2>0, <2>2
      <4> QED BY <3>1, <4>1
    <3>3. ASSUME NEW i \in 1 .. n PROVE out'[Len(out) + i] = q[i]
      <4>1. /\ Len(out) + i \in 1 .. Len(out) + Len(q) /\ ~(Len(out) + i <= Len(out))
            /\ Len(out) + i - Len(out) = i
        BY <1>1, <2>0, <2>2
      <4> QED BY <3>1, <4>1
    <3> QED BY <2>2, <3>1, <3>2, <3>3
  <2>4. Len(out') <= MaxOut
    <3>1. hdr \in Int
      BY <1>1 DEF LogTypeOK, NoHdr
    <3>2. n <= Max({hdr, n}) /\ Max({hdr, n}) \in Int
      BY <2>0, <3>1, MaxOfTwo
    <3>3. Max({hdr, n}) <= MaxOut - Len(out)
      BY <1>7 DEF n
    <3> QED BY <1>1, <2>0, <2>3, <3>2, <3>3
  <2>5. wanted' \subseteq Offsets
    BY <1>1, <1>5, <1>7
  <2>6. LogTypeOK'
    BY <1>1, <1>2, <1>3, <2>3, <2>4, <2>5 DEF LogTypeOK, Live
  <2>7. RecordInv'
    BY <1>1, <1>2 DEF RecordInv
  <2>8. ASSUME NEW i \in 1 .. Len(out')
        PROVE  i \in 1 .. Len(out) \/ (i - Len(out) \in 1 .. n /\ i = Len(out) + (i - Len(out)))
    BY <1>1, <2>0, <2>3
  <2>9. ASSUME NEW i \in 1 .. Len(out')
        PROVE  out'[i].off \in Held /\ out'[i].key = mem[out'[i].off].object
    <3>1. CASE i \in 1 .. Len(out)
      BY <1>5, <2>3, <3>1
    <3>2. CASE i - Len(out) \in 1 .. n /\ i = Len(out) + (i - Len(out))
      <4> DEFINE j == i - Len(out)
      <4>1. j \in 1 .. n /\ i = Len(out) + j
        BY <3>2
      <4> HIDE DEF j
      <4>2. out'[i] = q[j]
        BY <2>3, <4>1
      <4>3. j \in Held
        BY <1>1, <1>4, <4>1
      <4> QED BY <2>1, <4>1, <4>2, <4>3
    <3> QED BY <2>8, <3>1, <3>2
  <2>10. ASSUME NEW o \in wanted'
         PROVE  \E i \in 1 .. Len(out') : out'[i].off = o
    <3>1. CASE o \in wanted
      <4>1. PICK i \in 1 .. Len(out) : out[i].off = o
        BY <1>5, <3>1
      <4>2. i \in 1 .. Len(out')
        BY <1>1, <2>0, <2>3
      <4> QED BY <2>3, <4>1, <4>2
    <3>2. CASE o \in 1 .. n
      <4>1. Len(out) + o \in 1 .. Len(out')
        BY <1>1, <2>0, <2>3, <3>2
      <4>2. out'[Len(out) + o].off = o
        BY <2>1, <2>3, <3>2
      <4> QED BY <4>1, <4>2
    <3> QED BY <1>4, <1>7, <3>1, <3>2
  <2>11. BooksExact'
    <3>1. CountExact'
      BY <1>2 DEF LogPart, BooksExact, CountExact
    <3>2. IndexExact'
      BY <1>2, <2>9, <2>10 DEF IndexExact, Entry1, Held
    <3> QED BY <3>1, <3>2 DEF BooksExact
  <2> QED BY <2>6, <2>7, <2>11 DEF LogPart
<1> QED BY <1>2, <1>6, <1>7

\* What a feed's entry is added to: at 0 the program begins its index Buf anew.
Old == IF watermark = 0 THEN <<>> ELSE out
Due == IF watermark = 0 THEN {} ELSE wanted

\* What feed() decides: it is refused, finds no room, or writes.
LEMMA FeedCases ==
    ASSUME NEW object, NEW prev, NEW emit, feed(object, prev, emit),
           LogTypeOK, RecordInv, object \in Objects
    PROVE  /\ scratch' \in 0 .. MaxInt
           /\ UNCHANGED <<read, rec, walks, family, grown>>
           /\ \/ UNCHANGED <<mem, hdr, watermark, end, count, out, wanted>>
              \/ /\ watermark <= MaxRecs
                 /\ \E r : /\ NewRec(mem, watermark, object, r)
                           /\ mem' = [mem EXCEPT ![watermark] = r]
                 /\ hdr' \in {NoHdr, hdr} /\ watermark' = watermark + 1
                 /\ end' = watermark + 1 /\ count' = count + 1
                 /\ \/ /\ Len(Old) < MaxOut
                       /\ out' = Append(Old, [key |-> object, off |-> watermark])
                       /\ wanted' = Due \cup {watermark}
                    \/ out' = Old /\ wanted' = Due
<1> DEFINE s1 == IF prev = NoBase THEN scratch
                 ELSE Grow(scratch, mem[prev].size, Takes(mem, prev))
           refused == prev # NoBase /\ (Broken(mem, prev)
                         \/ Fits(scratch, mem[prev].size, Takes(mem, prev)) = {})
           base == IF prev = NoBase THEN 0 ELSE Resolved(mem, prev)
           written == /\ ~refused /\ ~(watermark > MaxRecs)
                      /\ \E r \in Record(watermark, object, prev, base) :
                            mem' = [mem EXCEPT ![watermark] = r]
                      /\ hdr' \in {NoHdr, hdr} /\ watermark' = watermark + 1
                      /\ end' = watermark + 1 /\ count' = count + 1
                      /\ \/ /\ Len(Old) < MaxOut /\ out' = Append(Old, Entry(watermark, object))
                            /\ wanted' = Due \cup {watermark}
                         \/ out' = Old /\ wanted' = Due
                      /\ UNCHANGED cursor
<1>1. prev # NoBase => prev \in Live
  BY DEF feed, Whole
<1>2. UNCHANGED <<walks, family, grown>>
  BY DEF feed, apart
<1>3. \/ scratch' = s1 /\ UNCHANGED <<pack, cursor, out, wanted>>
      \/ scratch' = Scratch(s1, object) /\ UNCHANGED <<pack, cursor, out, wanted>>
      \/ scratch' = Scratch(s1, object) /\ written
  BY DEF feed, Old, Due
<1>4. s1 \in 0 .. MaxInt
  <2>1. scratch \in 0 .. MaxInt
    BY DEF LogTypeOK
  <2>2. CASE prev = NoBase
    BY <2>1, <2>2
  <2>3. CASE prev # NoBase
    <3>1. mem[prev].size \in Nat
      BY <1>1, <2>3, LogResolves
    <3>2. Grow(scratch, mem[prev].size, Takes(mem, prev)) \in 0 .. MaxInt
      BY <2>1, <3>1, GrowShape
    <3> QED BY <2>3, <3>2
  <2> QED BY <2>2, <2>3
<1>5. prev # NoBase /\ ~refused => base = mem[prev].object
  <2> SUFFICES ASSUME prev # NoBase, ~refused PROVE base = mem[prev].object
    OBVIOUS
  <2>1. prev \in Live /\ ~Broken(mem, prev)
    BY <1>1
  <2>2. Resolved(mem, prev) = mem[prev].object
    BY <2>1, LogResolves
  <2> QED BY <2>2
<1> HIDE DEF s1, refused, base
<1>6. scratch' \in 0 .. MaxInt
  <2>1. object \in Nat
    BY ConstantsAssumption
  <2>2. Scratch(s1, object) \in 0 .. MaxInt
    BY <1>4, <2>1, ScratchShape
  <2> QED BY <1>3, <1>4, <2>2
<1>7. CASE UNCHANGED <<pack, cursor, out, wanted>>
  BY <1>2, <1>6, <1>7 DEF pack, cursor
<1>8. CASE written
  <2>1. PICK r \in Record(watermark, object, prev, base) : mem' = [mem EXCEPT ![watermark] = r]
    BY <1>8
  <2>2. NewRec(mem, watermark, object, r)
    <3>1. r = Raw(object) \/ (prev # NoBase /\ \E d \in DeltaSizes :
                                                   r = OfDelta(object, prev, base, d))
      BY <2>1 DEF Record
    <3>2. prev # NoBase => prev \in LiveIn(mem, watermark) /\ base = mem[prev].object
      BY <1>1, <1>5, <1>8 DEF Live
    <3> QED BY <3>1, <3>2 DEF NewRec
  <2>3. watermark <= MaxRecs
    BY <1>8, LogNumbers
  <2>4. Entry(watermark, object) = [key |-> object, off |-> watermark]
    BY DEF Entry
  <2>5. UNCHANGED <<read, rec>>
    BY <1>8 DEF cursor
  <2>6. \/ /\ Len(Old) < MaxOut
           /\ out' = Append(Old, [key |-> object, off |-> watermark])
           /\ wanted' = Due \cup {watermark}
        \/ out' = Old /\ wanted' = Due
    BY <1>8, <2>4
  <2>7. \E x : NewRec(mem, watermark, object, x) /\ mem' = [mem EXCEPT ![watermark] = x]
    BY <2>1, <2>2
  <2> QED BY <1>2, <1>6, <1>8, <2>3, <2>5, <2>6, <2>7
<1> HIDE DEF written
<1> QED BY <1>3, <1>7, <1>8

\* feed().
LEMMA FeedStep ==
    ASSUME LogPart, NEW object \in Objects, NEW prev, NEW emit, feed(object, prev, emit)
    PROVE  LogPart'
<1> DEFINE w == watermark
           e == [key |-> object, off |-> w]
<1>1. /\ LogTypeOK /\ RecordInv /\ MaxRecs \in Nat /\ MaxInt \in Nat /\ MaxOut \in Nat
      /\ w \in Nat /\ w <= MaxRecs + 1 /\ w \in {0, end}
  BY LogNumbers DEF LogPart, LogTypeOK
<1>2. /\ scratch' \in 0 .. MaxInt
      /\ UNCHANGED <<read, rec, walks, family, grown>>
      /\ \/ UNCHANGED <<mem, hdr, watermark, end, count, out, wanted>>
         \/ /\ w <= MaxRecs
            /\ \E r : NewRec(mem, w, object, r) /\ mem' = [mem EXCEPT ![w] = r]
            /\ hdr' \in {NoHdr, hdr} /\ watermark' = w + 1 /\ end' = w + 1
            /\ count' = count + 1
            /\ \/ Len(Old) < MaxOut /\ out' = Append(Old, e) /\ wanted' = Due \cup {w}
               \/ out' = Old /\ wanted' = Due
  BY <1>1, FeedCases
<1>3. CASE UNCHANGED <<mem, hdr, watermark, end, count, out, wanted>>
  <2>1. LogTypeOK'
    BY <1>1, <1>2, <1>3 DEF LogTypeOK, Live
  <2>2. RecordInv'
    BY <1>1, <1>2, <1>3 DEF RecordInv
  <2>3. BooksExact'
    BY <1>2, <1>3 DEF LogPart, BooksExact, IndexExact, CountExact, Entry1, Held
  <2> QED BY <2>1, <2>2, <2>3 DEF LogPart
<1>4. CASE /\ w <= MaxRecs
           /\ \E r : NewRec(mem, w, object, r) /\ mem' = [mem EXCEPT ![w] = r]
           /\ hdr' \in {NoHdr, hdr} /\ watermark' = w + 1 /\ end' = w + 1
           /\ count' = count + 1
           /\ \/ Len(Old) < MaxOut /\ out' = Append(Old, e) /\ wanted' = Due \cup {w}
              \/ out' = Old /\ wanted' = Due
  <2>1. PICK r : NewRec(mem, w, object, r) /\ mem' = [mem EXCEPT ![w] = r]
    BY <1>4
  <2> DEFINE n == [mem EXCEPT ![w] = r]
  <2>2. w \in Offsets /\ \A o \in 0 .. w - 1 : o \in Offsets /\ o # w /\ o \in 0 .. (w + 1) - 1
    BY <1>1, <1>4 DEF Offsets
  <2>3. mem \in Memory /\ Backward(mem) /\ Deltas(mem, w)
    <3>1. Deltas(mem, end)
      BY <1>1 DEF RecordInv
    <3>2. w = 0 => Deltas(mem, w)
      <4>1. w = 0 => 0 .. w - 1 = {}
        OBVIOUS
      <4> QED BY <4>1 DEF Deltas
    <3> QED BY <1>1, <3>1, <3>2 DEF LogTypeOK, RecordInv
  <2>4. /\ n \in Memory /\ Backward(n) /\ Deltas(n, w + 1)
        /\ n[w] # None /\ n[w].object = object /\ \A i \in 0 .. w - 1 : n[i] = mem[i]
    <3>1. n = [mem EXCEPT ![w] = r]
      OBVIOUS
    <3> HIDE DEF n, w
    <3>2. NewRec(mem, w, object, r)
      BY <2>1
    <3>3. n \in Memory /\ Backward(n) /\ Deltas(n, w + 1)
      BY <2>2, <2>3, <3>1, <3>2, FedMem
    <3>4. r # None /\ r.object = object
      BY <2>2, <2>3, <3>1, <3>2, FedMem
    <3>6. n[w] = r
      BY <2>2, <2>3, <3>1 DEF Memory
    <3>5. \A i \in 0 .. w - 1 : n[i] = mem[i]
      BY <2>2, <2>3, <3>1, <3>2, FedMem
    <3> QED BY <3>3, <3>4, <3>5, <3>6
  <2>5. mem' = n
    BY <2>1
  <2> HIDE DEF n
  <2>6. count \in Nat /\ count <= w /\ hdr \in NoHdr .. MaxRecs + 1
    BY <1>1 DEF LogTypeOK, RecordInv
  <2>7. /\ end' \in 0 .. MaxRecs + 1 /\ watermark' \in {0, end'}
        /\ count' \in 0 .. MaxRecs + 1 /\ count' <= watermark'
        /\ hdr' \in NoHdr .. MaxRecs + 1
        /\ watermark' - 1 = w /\ end' - 1 = w
    <3>1. NoHdr \in NoHdr .. MaxRecs + 1
      BY <1>1 DEF NoHdr
    <3> QED BY <1>1, <1>4, <2>6, <3>1
  <2>8. /\ w \in Live' /\ w \in Held'
        /\ \A o \in LiveIn(mem, w) : o \in Live' /\ o \in Held' /\ o \in 0 .. w - 1
    <3>1. Live' = LiveIn(n, w + 1) /\ Held' = LiveIn(n, w + 1)
      BY <1>4, <2>5 DEF Live, Held
    <3>2. w \in 0 .. (w + 1) - 1
      BY <1>1
    <3> QED BY <2>2, <2>4, <3>1, <3>2 DEF LiveIn
  <2>9. /\ Old \in Seq(Entries) /\ Len(Old) \in Nat /\ Len(Old) <= MaxOut /\ Due \subseteq Offsets
        /\ \A o \in Due : \E i \in 1 .. Len(Old) : Old[i].off = o
        /\ \A i \in 1 .. Len(Old) :
                   Old[i].off \in LiveIn(mem, w) /\ Old[i].key = mem[Old[i].off].object
    <3>1. CASE w = 0
      <4>1. Old = <<>> /\ Due = {}
        BY <3>1 DEF Old, Due
      <4>2. Old \in Seq(Entries) /\ Len(Old) = 0 /\ 1 .. 0 = {}
        BY <4>1
      <4> QED BY <1>1, <4>1, <4>2
    <3>2. CASE w # 0
      <4>1. Old = out /\ Due = wanted /\ w = end
        BY <1>1, <3>2 DEF Old, Due
      <4>2. out \in Seq(Entries) /\ Len(out) <= MaxOut /\ wanted \subseteq Offsets
        BY <1>1 DEF LogTypeOK
      <4> QED BY <4>1, <4>2, IndexShape DEF Held
    <3> QED BY <3>1, <3>2
  <2>10. ASSUME NEW i \in 1 .. Len(Old)
         PROVE  Old[i].off \in Held' /\ Old[i].key = n[Old[i].off].object
    <3>1. Old[i].off \in LiveIn(mem, w) /\ Old[i].key = mem[Old[i].off].object
      BY <2>9
    <3> QED BY <2>4, <2>8, <3>1
  <2>11. /\ out' \in Seq(Entries) /\ Len(out') <= MaxOut /\ wanted' \subseteq Offsets
         /\ \A o \in wanted' : \E i \in 1 .. Len(out') : out'[i].off = o
         /\ \A i \in 1 .. Len(out') : out'[i].off \in Held' /\ out'[i].key = n[out'[i].off].object
    <3>1. CASE out' = Old /\ wanted' = Due
      BY <2>9, <2>10, <3>1
    <3>2. CASE Len(Old) < MaxOut /\ out' = Append(Old, e) /\ wanted' = Due \cup {w}
      <4>1. e \in Entries /\ e.off = w /\ e.key = object
        BY <2>2 DEF Entries
      <4> HIDE DEF e
      <4>2. /\ out' \in Seq(Entries) /\ Len(out') = Len(Old) + 1 /\ out'[Len(Old) + 1] = e
            /\ \A i \in 1 .. Len(Old) : out'[i] = Old[i]
        <5>1. /\ out' \in Seq(Entries) /\ Len(out') = Len(Old) + 1 /\ out'[Len(Old) + 1] = e
          BY <2>9, <3>2, <4>1, AppendProperties
        <5>2. \A i \in 1 .. Len(Old) : out'[i] = Old[i]
          BY <2>9, <3>2, <4>1, AppendProperties
        <5> QED BY <5>1, <5>2
      <4>3. Len(out') <= MaxOut /\ wanted' \subseteq Offsets
        BY <1>1, <2>2, <2>9, <3>2, <4>2
      <4>4. \A i \in 1 .. Len(out') : i \in 1 .. Len(Old) \/ i = Len(Old) + 1
        BY <2>9, <4>2
      <4>5. \A i \in 1 .. Len(Old) : i \in 1 .. Len(out')
        BY <2>9, <4>2
      <4>6. Len(Old) + 1 \in 1 .. Len(out')
        BY <2>9, <4>2
      <4>7. ASSUME NEW i \in 1 .. Len(out')
            PROVE  out'[i].off \in Held' /\ out'[i].key = n[out'[i].off].object
        <5>1. CASE i \in 1 .. Len(Old)
          BY <2>10, <4>2, <5>1
        <5>2. CASE i = Len(Old) + 1
          BY <2>4, <2>8, <4>1, <4>2, <5>2
        <5> QED BY <4>4, <5>1, <5>2
      <4>8. ASSUME NEW o \in wanted' PROVE \E i \in 1 .. Len(out') : out'[i].off = o
        <5>1. CASE o \in Due
          BY <2>9, <4>2, <4>5, <5>1
        <5>2. CASE o = w
          BY <4>1, <4>2, <4>6, <5>2
        <5> QED BY <3>2, <5>1, <5>2
      <4> QED BY <4>2, <4>3, <4>7, <4>8
    <3> QED BY <1>4, <3>1, <3>2
  <2>12. rec' \in {-1} \cup Live'
    <3>1. rec \in {-1} \cup LiveIn(mem, w)
      BY <1>1 DEF LogTypeOK, Live
    <3> QED BY <1>2, <2>8, <3>1
  <2>13. LogTypeOK'
    BY <1>1, <1>2, <2>4, <2>5, <2>7, <2>11, <2>12 DEF LogTypeOK
  <2>14. RecordInv'
    <3>1. Deltas(mem', end')
      BY <1>4, <2>4, <2>5
    <3> QED BY <2>4, <2>5, <2>7, <3>1 DEF RecordInv
  <2>15. CountExact'
    <3>1. grown => count = w - 1
      BY DEF LogPart, BooksExact, CountExact
    <3>2. grown' => count' = watermark' - 1
      BY <1>1, <1>2, <1>4, <2>6, <2>7, <3>1
    <3> QED BY <3>2 DEF CountExact
  <2>16. IndexExact'
    BY <2>5, <2>11 DEF IndexExact, Entry1
  <2> QED BY <2>13, <2>14, <2>15, <2>16 DEF LogPart, BooksExact
<1> QED BY <1>2, <1>3, <1>4

-----------------------------------------------------------------------------
(* The Buf.                                                                *)

\* The cells d + 1 .. i of b are c.
Agrees(b, d, i, c) == Len(c) = i - d /\ \A k \in 1 .. Len(c) : c[k] = b[d + k]

\* That is what a part of the array is.
LEMMA CutIs ==
    ASSUME NEW S, NEW b \in Seq(S), NEW c \in Seq(S), NEW d \in Nat, NEW i \in Nat,
           d <= i, i <= Len(b)
    PROVE  SubSeq(b, d + 1, i) = c <=> Agrees(b, d, i, c)
<1> DEFINE n == i - d
           q == SubSeq(b, d + 1, i)
<1>1. n \in Nat /\ d + n = i /\ d + n <= Len(b) /\ Len(c) \in Nat
  BY LenProperties
<1> HIDE DEF n
<1>2. q \in Seq(S) /\ Len(q) = n /\ \A k \in 1 .. n : q[k] = b[d + k]
  <2>1. /\ SubSeq(b, d + 1, d + n) \in Seq(S) /\ Len(SubSeq(b, d + 1, d + n)) = n
        /\ \A k \in 1 .. n : SubSeq(b, d + 1, d + n)[k] = b[d + k]
    BY <1>1, PartShape
  <2> QED BY <1>1, <2>1
<1> HIDE DEF q
<1>3. ASSUME q = c PROVE Agrees(b, d, i, c)
  BY <1>2, <1>3 DEF Agrees, n
<1>4. ASSUME Agrees(b, d, i, c) PROVE q = c
  <2>1. Len(c) = n /\ \A k \in 1 .. n : c[k] = b[d + k]
    BY <1>4 DEF Agrees, n
  <2> QED BY <1>2, <2>1, SeqEqual
<1> QED BY <1>3, <1>4 DEF q

\* bytes.set(s, off).
LEMMA SetAtShape ==
    ASSUME NEW S, NEW b \in Seq(S), NEW s \in Seq(S), NEW off \in Nat
    PROVE  /\ B!SetAt(b, s, off) \in Seq(S) /\ Len(B!SetAt(b, s, off)) = Len(b)
           /\ \A k \in 1 .. Len(s) : off + k <= Len(b) => B!SetAt(b, s, off)[off + k] = s[k]
           /\ \A i \in 1 .. Len(b) :
                  i <= off \/ i > off + Len(s) => B!SetAt(b, s, off)[i] = b[i]
<1> DEFINE n == Len(b)
           m == Len(s)
           q == B!SetAt(b, s, off)
<1>1. n \in Nat /\ m \in Nat
  BY LenProperties
<1>2. q = [i \in 1 .. n |-> IF i - off \in 1 .. m THEN s[i - off] ELSE b[i]]
  BY DEF B!SetAt
<1> HIDE DEF q
<1>3. \A i \in 1 .. n : (IF i - off \in 1 .. m THEN s[i - off] ELSE b[i]) \in S
  <2> TAKE i \in 1 .. n
  <2>1. b[i] \in S
    BY ElementOfSeq
  <2>2. i - off \in 1 .. m => s[i - off] \in S
    BY ElementOfSeq
  <2> QED BY <2>1, <2>2
<1>4. q \in [1 .. n -> S]
  <2> HIDE DEF n, m
  <2> QED BY <1>2, <1>3
<1>5. q \in Seq(S) /\ Len(q) = n
  <2> HIDE DEF n
  <2> QED BY <1>1, <1>4
<1>6. ASSUME NEW k \in 1 .. m, off + k <= n PROVE q[off + k] = s[k]
  <2>1. off + k \in 1 .. n /\ (off + k) - off = k /\ (off + k) - off \in 1 .. m
    BY <1>1, <1>6
  <2> QED BY <1>2, <2>1
<1>7. ASSUME NEW i \in 1 .. n, i <= off \/ i > off + m PROVE q[i] = b[i]
  <2>1. i - off \notin 1 .. m
    BY <1>1, <1>7
  <2> QED BY <1>2, <2>1
<1> QED BY <1>5, <1>6, <1>7 DEF q

\* Two sequences, one after the other.
LEMMA ConcatShape ==
    ASSUME NEW S, NEW a \in Seq(S), NEW c \in Seq(S)
    PROVE  /\ a \o c \in Seq(S) /\ Len(a \o c) = Len(a) + Len(c)
           /\ Len(a) \in Nat /\ Len(c) \in Nat
           /\ \A k \in 1 .. Len(a) : (a \o c)[k] = a[k]
           /\ \A k \in 1 .. Len(c) : (a \o c)[Len(a) + k] = c[k]
<1> DEFINE m == Len(a)
           n == Len(c)
<1>1. m \in Nat /\ n \in Nat
  BY LenProperties
<1>2. /\ a \o c \in Seq(S) /\ Len(a \o c) = m + n
      /\ \A k \in 1 .. m + n : (a \o c)[k] = IF k <= m THEN a[k] ELSE c[k - m]
  BY ConcatProperties
<1>3. ASSUME NEW k \in 1 .. m PROVE (a \o c)[k] = a[k]
  <2>1. k \in 1 .. m + n /\ k <= m
    BY <1>1
  <2> QED BY <1>2, <2>1
<1>4. ASSUME NEW k \in 1 .. n PROVE (a \o c)[m + k] = c[k]
  <2>1. m + k \in 1 .. m + n /\ ~(m + k <= m) /\ (m + k) - m = k
    BY <1>1
  <2> QED BY <1>2, <2>1
<1> QED BY <1>1, <1>2, <1>3, <1>4

\* Bytes put at the end of a part make it longer, and leave what is before it.
LEMMA FilledAgrees ==
    ASSUME NEW S, NEW b \in Seq(S), NEW c \in Seq(S), NEW s \in Seq(S),
           NEW d \in Nat, NEW i \in Nat, d <= i, i + Len(s) <= Len(b), Agrees(b, d, i, c)
    PROVE  Agrees(B!SetAt(b, s, i), d, i + Len(s), c \o s)
<1> DEFINE q == B!SetAt(b, s, i)
           m == Len(c)
           n == Len(s)
           t == c \o s
<1>1. /\ Len(q) = Len(b)
      /\ \A k \in 1 .. n : i + k <= Len(b) => q[i + k] = s[k]
      /\ \A j \in 1 .. Len(b) : j <= i \/ j > i + n => q[j] = b[j]
  BY SetAtShape
<1>2. /\ t \in Seq(S) /\ Len(t) = m + n /\ m \in Nat /\ n \in Nat
      /\ \A k \in 1 .. m : t[k] = c[k]
      /\ \A k \in 1 .. n : t[m + k] = s[k]
  BY ConcatShape
<1>3. m = i - d /\ \A k \in 1 .. m : c[k] = b[d + k]
  BY DEF Agrees
<1>4. Len(b) \in Nat
  BY LenProperties
<1> HIDE DEF q, m, n, t
<1>5. m + n = (i + n) - d
  BY <1>2, <1>3
<1>6. ASSUME NEW k \in 1 .. m + n PROVE t[k] = q[d + k]
  <2>1. CASE k \in 1 .. m
    <3>1. d + k \in 1 .. Len(b) /\ d + k <= i
      BY <1>2, <1>3, <1>4, <2>1 DEF n
    <3>2. q[d + k] = b[d + k]
      BY <1>1, <3>1
    <3> QED BY <1>2, <1>3, <2>1, <3>2
  <2>2. CASE k \notin 1 .. m
    <3> DEFINE j == k - m
    <3>1. j \in 1 .. n /\ m + j = k /\ d + k = i + j
      BY <1>2, <1>3, <2>2
    <3> HIDE DEF j
    <3>2. i + j <= Len(b)
      BY <1>2, <1>4, <3>1 DEF n
    <3>3. q[i + j] = s[j]
      BY <1>1, <3>1, <3>2
    <3>4. t[m + j] = s[j]
      BY <1>2, <3>1
    <3> QED BY <3>1, <3>3, <3>4
  <2> QED BY <2>1, <2>2
<1>7. Len(t) = (i + n) - d /\ \A k \in 1 .. Len(t) : t[k] = q[d + k]
  BY <1>2, <1>5, <1>6
<1> QED BY <1>7 DEF Agrees, q, t, n

\* A part that an edit does not reach.
LEMMA ApartAgrees ==
    ASSUME NEW S, NEW b \in Seq(S), NEW q \in Seq(S), NEW c \in Seq(S), NEW d \in Nat,
           NEW i \in Nat, i <= Len(b), \A j \in 1 .. i : q[j] = b[j], Agrees(b, d, i, c)
    PROVE  Agrees(q, d, i, c)
<1>1. Len(c) \in Nat
  BY LenProperties
<1>2. Len(c) = i - d /\ \A k \in 1 .. Len(c) : c[k] = b[d + k]
  BY DEF Agrees
<1>3. \A k \in 1 .. Len(c) : d + k \in 1 .. i
  BY <1>1, <1>2
<1> QED BY <1>2, <1>3 DEF Agrees

\* The two ends of a part.
LEMMA EndsAgree ==
    ASSUME NEW S, NEW b \in Seq(S), NEW c \in Seq(S), NEW d \in Nat, NEW i \in Nat,
           Agrees(b, d, i, c), NEW m \in 0 .. i - d
    PROVE  /\ SubSeq(c, 1, m) \in Seq(S) /\ SubSeq(c, m + 1, Len(c)) \in Seq(S)
           /\ Agrees(b, d, d + m, SubSeq(c, 1, m))
           /\ Agrees(b, d + m, i, SubSeq(c, m + 1, Len(c)))
<1> DEFINE n == Len(c)
           l == n - m
           f == SubSeq(c, 1, m)
           t == SubSeq(c, m + 1, n)
<1>1. n \in Nat /\ n = i - d /\ \A k \in 1 .. n : c[k] = b[d + k]
  BY LenProperties DEF Agrees
<1>2. /\ m \in Nat /\ l \in Nat /\ m <= n /\ l <= n /\ m + l = n /\ 0 + m = m /\ 0 + 1 = 1
      /\ 0 \in Nat /\ 0 + m <= n /\ m + l <= n
      /\ l = i - (d + m) /\ m = (d + m) - d
  BY <1>1
<1> HIDE DEF l
<1>3. f \in Seq(S) /\ Len(f) = m /\ \A k \in 1 .. m : f[k] = c[k]
  <2>1. /\ SubSeq(c, 0 + 1, 0 + m) \in Seq(S) /\ Len(SubSeq(c, 0 + 1, 0 + m)) = m
        /\ \A k \in 1 .. m : SubSeq(c, 0 + 1, 0 + m)[k] = c[0 + k]
    BY <1>2, PartShape
  <2>2. \A k \in 1 .. m : 0 + k = k
    BY <1>2
  <2> QED BY <1>2, <2>1, <2>2
<1>4. t \in Seq(S) /\ Len(t) = l /\ \A k \in 1 .. l : t[k] = c[m + k]
  <2>1. /\ SubSeq(c, m + 1, m + l) \in Seq(S) /\ Len(SubSeq(c, m + 1, m + l)) = l
        /\ \A k \in 1 .. l : SubSeq(c, m + 1, m + l)[k] = c[m + k]
    BY <1>2, PartShape
  <2> QED BY <1>2, <2>1
<1> HIDE DEF f, t
<1>5. Agrees(b, d, d + m, f)
  <2>1. \A k \in 1 .. m : k \in 1 .. n
    BY <1>1, <1>2
  <2>2. \A k \in 1 .. m : f[k] = b[d + k]
    BY <1>1, <1>3, <2>1
  <2> QED BY <1>2, <1>3, <2>2 DEF Agrees
<1>6. Agrees(b, d + m, i, t)
  <2>1. \A k \in 1 .. l : m + k \in 1 .. n /\ d + (m + k) = (d + m) + k
    BY <1>1, <1>2
  <2>2. \A k \in 1 .. l : t[k] = b[(d + m) + k]
    BY <1>1, <1>4, <2>1
  <2> QED BY <1>2, <1>4, <2>2 DEF Agrees
<1> QED BY <1>3, <1>4, <1>5, <1>6 DEF f, t

\* Bytes put into an array are there.
LEMMA PutAgrees ==
    ASSUME NEW S, NEW b \in Seq(S), NEW s \in Seq(S), NEW off \in Nat,
           off + Len(s) <= Len(b)
    PROVE  Agrees(B!SetAt(b, s, off), off, off + Len(s), s)
<1> DEFINE q == B!SetAt(b, s, off)
           n == Len(s)
<1>1. \A k \in 1 .. n : off + k <= Len(b) => q[off + k] = s[k]
  BY SetAtShape
<1>2. n \in Nat /\ Len(b) \in Nat /\ off + n <= Len(b)
  BY LenProperties
<1> HIDE DEF q, n
<1>3. \A k \in 1 .. n : off + k <= Len(b)
  BY <1>2
<1>4. n = (off + n) - off /\ \A k \in 1 .. n : s[k] = q[off + k]
  BY <1>1, <1>2, <1>3
<1> QED BY <1>4 DEF Agrees, q, n

\* A part between two places that an edit does not touch.
LEMMA BetweenAgrees ==
    ASSUME NEW S, NEW b \in Seq(S), NEW q \in Seq(S), NEW c \in Seq(S), NEW d \in Nat,
           NEW i \in Nat, \A j \in d + 1 .. i : q[j] = b[j], Agrees(b, d, i, c)
    PROVE  Agrees(q, d, i, c)
<1>1. Len(c) \in Nat
  BY LenProperties
<1>2. Len(c) = i - d /\ \A k \in 1 .. Len(c) : c[k] = b[d + k]
  BY DEF Agrees
<1>3. \A k \in 1 .. Len(c) : d + k \in d + 1 .. i
  BY <1>1, <1>2
<1> QED BY <1>2, <1>3 DEF Agrees

\* Two parts that meet are one.
LEMMA JoinAgrees ==
    ASSUME NEW S, NEW b \in Seq(S), NEW a \in Seq(S), NEW c \in Seq(S), NEW d \in Nat,
           NEW x \in Nat, NEW y \in Nat, Agrees(b, d, x, a), Agrees(b, x, y, c)
    PROVE  Agrees(b, d, y, a \o c)
<1> DEFINE m == Len(a)
           n == Len(c)
           t == a \o c
<1>1. /\ Len(t) = m + n /\ m \in Nat /\ n \in Nat
      /\ \A k \in 1 .. m : t[k] = a[k]
      /\ \A k \in 1 .. n : t[m + k] = c[k]
  BY ConcatShape
<1>2. /\ m = x - d /\ \A k \in 1 .. m : a[k] = b[d + k]
      /\ n = y - x /\ \A k \in 1 .. n : c[k] = b[x + k]
  BY DEF Agrees
<1> HIDE DEF m, n, t
<1>3. ASSUME NEW k \in 1 .. m + n PROVE t[k] = b[d + k]
  <2>1. CASE k \in 1 .. m
    BY <1>1, <1>2, <2>1
  <2>2. CASE k \notin 1 .. m
    <3> DEFINE j == k - m
    <3>1. j \in 1 .. n /\ m + j = k /\ d + k = x + j
      BY <1>1, <1>2, <2>2
    <3> HIDE DEF j
    <3>2. t[m + j] = c[j] /\ c[j] = b[x + j]
      BY <1>1, <1>2, <3>1
    <3> QED BY <3>1, <3>2
  <2> QED BY <2>1, <2>2
<1>4. m + n = y - d
  BY <1>1, <1>2
<1>5. Len(t) = y - d /\ \A k \in 1 .. Len(t) : t[k] = b[d + k]
  BY <1>1, <1>3, <1>4
<1> QED BY <1>5 DEF Agrees, t

\* What a Buf is: DATA is the payload, and the last view is of bytes in PAST.
BufHolds(b, d, i, e, c, v) ==
    /\ b \in Seq(B!Byte) /\ Len(b) <= MaxCap
    /\ d \in Nat /\ i \in Nat /\ d <= i /\ i <= Len(b)
    /\ e \in B!Byte
    /\ c \in Seq(B!Byte) /\ Agrees(b, d, i, c)
    /\ v \in [from : 0 .. MaxCap, val : Seq(B!Byte)]
    /\ v.from + Len(v.val) <= d
    /\ Agrees(b, v.from, v.from + Len(v.val), v.val)

\* An array with two cursors, whatever is in it.
Shaped(b, d, i, e) ==
    /\ b \in Seq(B!Byte) /\ Len(b) <= MaxCap
    /\ d \in Nat /\ i \in Nat /\ d <= i /\ i <= Len(b)
    /\ e \in B!Byte

Runs == [on : BOOLEAN, own : BOOLEAN, past : Nat, busy : Nat, cap : Nat]

\* Between ingests; and while one is on, which goes by cursors of its own.
AtRest ==
    /\ run = B!NoRun /\ meddled = FALSE
    /\ BufHolds(bytes, data, idle, entered, content, taken)

Running ==
    /\ run \in Runs /\ run.on /\ meddled \in BOOLEAN
    /\ Shaped(bytes, data, idle, entered)
    /\ run.past <= run.busy /\ run.busy <= run.cap /\ run.cap <= Len(bytes)
    /\ run.own => run.cap = Len(bytes)
    /\ meddled => content = << >> /\ taken = B!NoView
    /\ ~meddled => run.own /\ BufHolds(bytes, run.past, run.busy, entered, content, taken)

BufInv == AtRest \/ Running

\* The bytes that enter after the first e.
New(e, n) == [k \in 1 .. n |-> e + k]

\* They are bytes, n of them.
LEMMA NewShape ==
    ASSUME NEW e \in B!Byte, NEW n \in Nat, e + n <= MaxBytes
    PROVE  New(e, n) \in Seq(B!Byte) /\ Len(New(e, n)) = n /\ e + n \in B!Byte
<1>1. MaxBytes \in Nat /\ e \in Nat
  BY ConstantsAssumption DEF B!Byte
<1>2. \A k \in 1 .. n : e + k \in 0 .. MaxBytes
  BY <1>1
<1>3. New(e, n) \in [1 .. n -> 0 .. MaxBytes]
  BY <1>2 DEF New
<1> QED BY <1>1, <1>3 DEF B!Byte

\* The numbers of a Buf, and of its view.
LEMMA BufNumbers ==
    ASSUME NEW b, NEW d, NEW i, NEW e, NEW c, NEW v, BufHolds(b, d, i, e, c, v)
    PROVE  /\ Len(b) \in Nat /\ d \in Nat /\ i \in Nat /\ d <= i /\ i <= Len(b)
           /\ Len(b) <= MaxCap /\ MaxCap \in Nat
           /\ Len(c) \in Nat /\ Len(c) = i - d
           /\ v.from \in Nat /\ Len(v.val) \in Nat /\ v.val \in Seq(B!Byte)
           /\ v.from + Len(v.val) <= d /\ v.from + Len(v.val) \in Nat
<1>1. MaxCap \in Nat
  BY ConstantsAssumption
<1>2. v.from \in 0 .. MaxCap /\ v.val \in Seq(B!Byte)
  BY DEF BufHolds
<1>3. Len(b) \in Nat /\ Len(c) \in Nat /\ Len(v.val) \in Nat
  BY <1>2, LenProperties DEF BufHolds
<1>4. v.from \in Nat
  BY <1>1, <1>2
<1>5. d \in Nat /\ i \in Nat /\ d <= i /\ i <= Len(b) /\ Len(b) <= MaxCap
  BY DEF BufHolds
<1>6. Len(c) = i - d /\ v.from + Len(v.val) <= d
  BY DEF BufHolds, Agrees
<1> QED BY <1>1, <1>2, <1>3, <1>4, <1>5, <1>6

\* A view outlives an edit that leaves PAST alone.
LEMMA ViewHolds ==
    ASSUME NEW b, NEW d, NEW i, NEW e, NEW c, NEW v, BufHolds(b, d, i, e, c, v),
           NEW q \in Seq(B!Byte), \A j \in 1 .. d : q[j] = b[j]
    PROVE  Agrees(q, v.from, v.from + Len(v.val), v.val)
<1> DEFINE f == v.from
           l == v.val
           t == f + Len(l)
<1>1. f \in Nat /\ t \in Nat /\ t <= d /\ d \in Nat /\ l \in Seq(B!Byte) /\ d <= Len(b)
      /\ Len(b) \in Nat
  <2>1. /\ Len(b) \in Nat /\ d \in Nat /\ i \in Nat /\ d <= i /\ i <= Len(b)
        /\ f \in Nat /\ l \in Seq(B!Byte) /\ t <= d /\ t \in Nat
    BY BufNumbers
  <2> QED BY <2>1
<1>2. b \in Seq(B!Byte) /\ Agrees(b, f, t, l)
  BY DEF BufHolds
<1> HIDE DEF f, l, t
<1>3. t <= Len(b) /\ \A j \in 1 .. t : j \in 1 .. d
  BY <1>1
<1>4. Agrees(q, f, t, l)
  BY <1>1, <1>2, <1>3, ApartAgrees
<1> QED BY <1>4 DEF f, l, t

\* Bytes are put into IDLE.
LEMMA FillHolds ==
    ASSUME NEW b, NEW d, NEW i, NEW e, NEW c, NEW v, BufHolds(b, d, i, e, c, v),
           NEW n \in Nat, i + n <= Len(b), e + n <= MaxBytes
    PROVE  BufHolds(B!SetAt(b, New(e, n), i), d, i + n, e + n, c \o New(e, n), v)
<1> DEFINE s == New(e, n)
           q == B!SetAt(b, s, i)
<1>1. b \in Seq(B!Byte) /\ c \in Seq(B!Byte) /\ e \in B!Byte /\ Agrees(b, d, i, c)
  BY DEF BufHolds
<1>2. s \in Seq(B!Byte) /\ Len(s) = n /\ e + n \in B!Byte
  BY <1>1, NewShape
<1>3. /\ Len(b) \in Nat /\ d \in Nat /\ i \in Nat /\ d <= i /\ i <= Len(b)
      /\ Len(b) <= MaxCap
  BY BufNumbers
<1> HIDE DEF s
<1>4. /\ q \in Seq(B!Byte) /\ Len(q) = Len(b)
      /\ \A j \in 1 .. Len(b) : j <= i \/ j > i + Len(s) => q[j] = b[j]
  BY <1>1, <1>2, <1>3, SetAtShape
<1>5. c \o s \in Seq(B!Byte)
  BY <1>1, <1>2, ConcatShape
<1>6. Agrees(q, d, i + n, c \o s)
  <2>1. i + Len(s) <= Len(b)
    BY <1>2
  <2>2. Agrees(q, d, i + Len(s), c \o s)
    BY <1>1, <1>2, <1>3, <2>1, FilledAgrees
  <2> QED BY <1>2, <2>2
<1> HIDE DEF q
<1>7. \A j \in 1 .. d : q[j] = b[j]
  <2>1. \A j \in 1 .. d : j \in 1 .. Len(b) /\ j <= i
    BY <1>3
  <2> QED BY <1>4, <2>1
<1>8. Agrees(q, v.from, v.from + Len(v.val), v.val)
  BY <1>4, <1>7, ViewHolds
<1>9. i + n \in Nat /\ d <= i + n /\ i + n <= Len(q) /\ Len(q) <= MaxCap
  BY <1>3, <1>4
<1>10. v \in [from : 0 .. MaxCap, val : Seq(B!Byte)] /\ v.from + Len(v.val) <= d
  BY DEF BufHolds
<1>11. BufHolds(q, d, i + n, e + n, c \o s, v)
  BY <1>2, <1>3, <1>4, <1>5, <1>6, <1>8, <1>9, <1>10 DEF BufHolds
<1> QED BY <1>11 DEF q, s

\* The front of DATA becomes PAST; a view of it may be handed out.
LEMMA DropHolds ==
    ASSUME NEW b, NEW d, NEW i, NEW e, NEW c, NEW v, BufHolds(b, d, i, e, c, v),
           NEW n \in 0 .. i - d
    PROVE  /\ BufHolds(b, d + n, i, e, SubSeq(c, n + 1, Len(c)), v)
           /\ BufHolds(b, d + n, i, e, SubSeq(c, n + 1, Len(c)),
                       [from |-> d, val |-> SubSeq(c, 1, n)])
<1> DEFINE f == SubSeq(c, 1, n)
           t == SubSeq(c, n + 1, Len(c))
           w == [from |-> d, val |-> f]
<1>1. b \in Seq(B!Byte) /\ c \in Seq(B!Byte) /\ e \in B!Byte /\ Agrees(b, d, i, c)
  BY DEF BufHolds
<1>2. /\ Len(b) \in Nat /\ d \in Nat /\ i \in Nat /\ d <= i /\ i <= Len(b)
      /\ Len(b) <= MaxCap /\ MaxCap \in Nat
      /\ v.from \in Nat /\ Len(v.val) \in Nat /\ v.from + Len(v.val) <= d
  BY BufNumbers
<1>3. f \in Seq(B!Byte) /\ t \in Seq(B!Byte)
  BY <1>1, <1>2, EndsAgree
<1>4. Agrees(b, d, d + n, f)
  BY <1>1, <1>2, EndsAgree
<1>5. Agrees(b, d + n, i, t)
  BY <1>1, <1>2, EndsAgree
<1> HIDE DEF f, t
<1>6. n \in Nat /\ d + n \in Nat /\ d + n <= i /\ d \in 0 .. MaxCap
  BY <1>2
<1>7. v.from + Len(v.val) <= d + n
  BY <1>2, <1>6
<1>8. v \in [from : 0 .. MaxCap, val : Seq(B!Byte)]
      /\ Agrees(b, v.from, v.from + Len(v.val), v.val)
  BY DEF BufHolds
<1>9. BufHolds(b, d + n, i, e, t, v)
  BY <1>1, <1>2, <1>3, <1>5, <1>6, <1>7, <1>8 DEF BufHolds
<1>10. Len(f) = n
  <2>1. Len(f) = (d + n) - d
    BY <1>4 DEF Agrees
  <2> QED BY <1>2, <1>6, <2>1
<1>11. w \in [from : 0 .. MaxCap, val : Seq(B!Byte)] /\ w.from = d /\ w.val = f
  BY <1>3, <1>6
<1> HIDE DEF w
<1>12. w.from + Len(w.val) <= d + n /\ Agrees(b, w.from, w.from + Len(w.val), w.val)
  BY <1>4, <1>6, <1>10, <1>11
<1>13. BufHolds(b, d + n, i, e, t, w)
  BY <1>1, <1>2, <1>3, <1>5, <1>6, <1>11, <1>12 DEF BufHolds
<1> QED BY <1>9, <1>13 DEF f, t, w

\* The end of DATA becomes IDLE.
LEMMA ShedHolds ==
    ASSUME NEW b, NEW d, NEW i, NEW e, NEW c, NEW v, BufHolds(b, d, i, e, c, v),
           NEW n \in 0 .. i - d
    PROVE  BufHolds(b, d, i - n, e, SubSeq(c, 1, Len(c) - n), v)
<1> DEFINE m == Len(c) - n
           f == SubSeq(c, 1, m)
<1>1. b \in Seq(B!Byte) /\ c \in Seq(B!Byte) /\ e \in B!Byte /\ Agrees(b, d, i, c)
  BY DEF BufHolds
<1>2. /\ Len(b) \in Nat /\ d \in Nat /\ i \in Nat /\ d <= i /\ i <= Len(b)
      /\ Len(b) <= MaxCap /\ Len(c) \in Nat /\ Len(c) = i - d
  BY BufNumbers
<1>3. m \in 0 .. i - d /\ d + m = i - n /\ i - n \in Nat /\ d <= i - n /\ i - n <= Len(b)
  BY <1>2
<1> HIDE DEF m
<1>4. f \in Seq(B!Byte)
  BY <1>1, <1>2, <1>3, EndsAgree
<1>5. Agrees(b, d, d + m, f)
  BY <1>1, <1>2, <1>3, EndsAgree
<1> HIDE DEF f
<1>6. Agrees(b, d, i - n, f)
  BY <1>3, <1>5
<1>7. /\ v \in [from : 0 .. MaxCap, val : Seq(B!Byte)] /\ v.from + Len(v.val) <= d
      /\ Agrees(b, v.from, v.from + Len(v.val), v.val)
  BY DEF BufHolds
<1>8. BufHolds(b, d, i - n, e, f, v)
  BY <1>1, <1>2, <1>3, <1>4, <1>6, <1>7 DEF BufHolds
<1> QED BY <1>8 DEF f, m

\* No view.
LEMMA NoViewHolds ==
    ASSUME NEW b, NEW d \in Nat
    PROVE  /\ B!NoView \in [from : 0 .. MaxCap, val : Seq(B!Byte)]
           /\ B!NoView.from + Len(B!NoView.val) <= d
           /\ Agrees(b, B!NoView.from, B!NoView.from + Len(B!NoView.val), B!NoView.val)
<1> DEFINE w == B!NoView
<1>1. MaxCap \in Nat
  BY ConstantsAssumption
<1>2. w.from = 0 /\ w.val = << >>
  BY DEF B!NoView
<1>3. w \in [from : 0 .. MaxCap, val : Seq(B!Byte)]
  <2>1. 0 \in 0 .. MaxCap /\ << >> \in Seq(B!Byte)
    BY <1>1
  <2> QED BY <2>1 DEF B!NoView
<1>4. Len(w.val) = 0
  BY <1>2
<1> HIDE DEF w
<1>5. w.from + Len(w.val) = 0
  BY <1>2, <1>4
<1>6. w.from + Len(w.val) <= d
  BY <1>5
<1>7. Agrees(b, w.from, w.from + Len(w.val), w.val)
  <2>1. Len(w.val) = (w.from + Len(w.val)) - w.from
    BY <1>2, <1>4, <1>5
  <2>2. \A k \in 1 .. Len(w.val) : w.val[k] = b[w.from + k]
    BY <1>4
  <2> QED BY <2>1, <2>2 DEF Agrees
<1> QED BY <1>3, <1>6, <1>7 DEF w

\* Every byte is IDLE again.
LEMMA ResetHolds ==
    ASSUME NEW b, NEW d, NEW i, NEW e, NEW c, NEW v, BufHolds(b, d, i, e, c, v)
    PROVE  BufHolds(b, 0, 0, e, << >>, B!NoView)
<1>1. /\ Len(b) \in Nat /\ Len(b) <= MaxCap
  BY BufNumbers
<1>2. b \in Seq(B!Byte) /\ e \in B!Byte
  BY DEF BufHolds
<1>3. 0 \in Nat /\ 0 <= 0 /\ 0 <= Len(b) /\ << >> \in Seq(B!Byte)
  BY <1>1
<1>4. Agrees(b, 0, 0, << >>)
  <2>1. Len(<< >>) = 0 - 0
    OBVIOUS
  <2>2. \A k \in 1 .. Len(<< >>) : << >>[k] = b[0 + k]
    <3>1. Len(<< >>) = 0
      OBVIOUS
    <3> QED BY <3>1
  <2> QED BY <2>1, <2>2 DEF Agrees
<1>5. B!NoView \in [from : 0 .. MaxCap, val : Seq(B!Byte)]
  BY NoViewHolds
<1>6. B!NoView.from + Len(B!NoView.val) <= 0
  BY <1>3, NoViewHolds
<1>7. Agrees(b, B!NoView.from, B!NoView.from + Len(B!NoView.val), B!NoView.val)
  BY NoViewHolds
<1> QED BY <1>1, <1>2, <1>3, <1>4, <1>5, <1>6, <1>7 DEF BufHolds

\* PAST is dropped.
LEMMA ShiftHolds ==
    ASSUME NEW b, NEW d, NEW i, NEW e, NEW c, NEW v, BufHolds(b, d, i, e, c, v)
    PROVE  /\ Len(B!CopyWithin(b, 0, d, i)) = Len(b)
           /\ BufHolds(B!CopyWithin(b, 0, d, i), 0, i - d, e, c, B!NoView)
<1> DEFINE s == SubSeq(b, d + 1, i)
           q == B!SetAt(b, s, 0)
<1>1. b \in Seq(B!Byte) /\ c \in Seq(B!Byte) /\ e \in B!Byte /\ Agrees(b, d, i, c)
  BY DEF BufHolds
<1>2. /\ Len(b) \in Nat /\ d \in Nat /\ i \in Nat /\ d <= i /\ i <= Len(b)
      /\ Len(b) <= MaxCap /\ Len(c) \in Nat /\ Len(c) = i - d
  BY BufNumbers
<1>3. s = c
  BY <1>1, <1>2, CutIs
<1> HIDE DEF s
<1>4. q \in Seq(B!Byte) /\ Len(q) = Len(b)
  BY <1>1, <1>3, SetAtShape
<1>5. 0 \in Nat /\ 0 + Len(s) = i - d /\ 0 + Len(s) <= Len(b) /\ i - d \in Nat
      /\ 0 <= i - d /\ i - d <= Len(b)
  BY <1>2, <1>3
<1>6. Agrees(q, 0, 0 + Len(s), s)
  BY <1>1, <1>3, <1>5, PutAgrees
<1>7. q = B!CopyWithin(b, 0, d, i)
  BY DEF B!CopyWithin, s
<1> HIDE DEF q
<1>8. Agrees(q, 0, i - d, c)
  BY <1>3, <1>5, <1>6
<1>9. B!NoView \in [from : 0 .. MaxCap, val : Seq(B!Byte)]
  BY NoViewHolds
<1>10. B!NoView.from + Len(B!NoView.val) <= 0
  BY <1>5, NoViewHolds
<1>11. Agrees(q, B!NoView.from, B!NoView.from + Len(B!NoView.val), B!NoView.val)
  BY NoViewHolds
<1>12. BufHolds(q, 0, i - d, e, c, B!NoView)
  <2>1. Len(q) <= MaxCap /\ i - d <= Len(q)
    BY <1>2, <1>4, <1>5
  <2> QED BY <1>1, <1>4, <1>5, <1>8, <1>9, <1>10, <1>11, <2>1 DEF BufHolds
<1> QED BY <1>4, <1>7, <1>12

\* PAST and DATA are copied into a larger array.
LEMMA GrowHolds ==
    ASSUME NEW b, NEW d, NEW i, NEW e, NEW c, NEW v, BufHolds(b, d, i, e, c, v),
           NEW n \in Nat, n > Len(b), n <= MaxCap
    PROVE  BufHolds([j \in 1 .. n |-> IF j <= i THEN b[j] ELSE 0], d, i, e, c, B!NoView)
<1> DEFINE q == [j \in 1 .. n |-> IF j <= i THEN b[j] ELSE 0]
<1>1. b \in Seq(B!Byte) /\ c \in Seq(B!Byte) /\ e \in B!Byte /\ Agrees(b, d, i, c)
  BY DEF BufHolds
<1>2. /\ Len(b) \in Nat /\ d \in Nat /\ i \in Nat /\ d <= i /\ i <= Len(b)
  BY BufNumbers
<1>3. 0 \in B!Byte
  BY ConstantsAssumption DEF B!Byte
<1>4. \A j \in 1 .. n : (IF j <= i THEN b[j] ELSE 0) \in B!Byte
  <2>1. ASSUME NEW j \in 1 .. n, j <= i PROVE b[j] \in B!Byte
    <3>1. j \in 1 .. Len(b)
      BY <1>2, <2>1
    <3> QED BY <1>1, <3>1, ElementOfSeq
  <2> QED BY <1>3, <2>1
<1>5. q \in [1 .. n -> B!Byte]
  BY <1>4
<1>6. q \in Seq(B!Byte) /\ Len(q) = n
  BY <1>5
<1>7. \A j \in 1 .. i : q[j] = b[j]
  <2>1. \A j \in 1 .. i : j \in 1 .. n /\ j <= i
    BY <1>2
  <2> QED BY <2>1
<1> HIDE DEF q
<1>8. Agrees(q, d, i, c)
  BY <1>1, <1>2, <1>6, <1>7, ApartAgrees
<1>9. B!NoView \in [from : 0 .. MaxCap, val : Seq(B!Byte)]
  BY NoViewHolds
<1>10. B!NoView.from + Len(B!NoView.val) <= d
  BY <1>2, NoViewHolds
<1>11. Agrees(q, B!NoView.from, B!NoView.from + Len(B!NoView.val), B!NoView.val)
  BY <1>2, NoViewHolds
<1>12. i <= n
  BY <1>2
<1>13. BufHolds(q, d, i, e, c, B!NoView)
  BY <1>1, <1>2, <1>6, <1>8, <1>9, <1>10, <1>11, <1>12 DEF BufHolds
<1> QED BY <1>13 DEF q

\* The array of a splice whose tail has moved.
Moved(b, d, i, off, cut, n) == B!CopyWithin(b, (d + off) + n, (d + off) + cut, i)

\* And that of one whose paste is the n bytes p.
Spliced(b, d, i, off, cut, n, p) ==
    B!SetAt(Moved(b, d, i, off, cut, n), p, d + off)

\* The tail moves first.  The bytes up to the place of the edit stay as they
\* are, and when the paste is as long as DATA, all of DATA does.
LEMMA MovedTail ==
    ASSUME NEW b, NEW d, NEW i, NEW e, NEW c, NEW v, BufHolds(b, d, i, e, c, v),
           NEW off \in Nat, NEW cut \in Nat, off + cut <= i - d,
           NEW n \in Nat, i + n - cut <= Len(b)
    PROVE  /\ Moved(b, d, i, off, cut, n) \in Seq(B!Byte)
           /\ Len(Moved(b, d, i, off, cut, n)) = Len(b)
           /\ \A j \in 1 .. (d + off) + n :
                  j <= Len(b) => Moved(b, d, i, off, cut, n)[j] = b[j]
           /\ SubSeq(c, (off + cut) + 1, Len(c)) \in Seq(B!Byte)
           /\ Agrees(Moved(b, d, i, off, cut, n), (d + off) + n, i + n - cut,
                     SubSeq(c, (off + cut) + 1, Len(c)))
<1> DEFINE m == off + cut
           q == Moved(b, d, i, off, cut, n)
           at == (d + off) + n
           t == SubSeq(c, m + 1, Len(c))
           s == SubSeq(b, (d + m) + 1, i)
<1>1. b \in Seq(B!Byte) /\ c \in Seq(B!Byte) /\ Agrees(b, d, i, c)
  BY DEF BufHolds
<1>2. /\ Len(b) \in Nat /\ d \in Nat /\ i \in Nat /\ d <= i /\ i <= Len(b)
      /\ Len(c) \in Nat /\ Len(c) = i - d
  BY BufNumbers
<1>3. m \in 0 .. i - d /\ d + m \in Nat /\ d + m <= i /\ (d + off) + cut = d + m
      /\ at \in Nat
  BY <1>2
<1>4. t \in Seq(B!Byte)
  <2> HIDE DEF m
  <2> QED BY <1>1, <1>2, <1>3, EndsAgree
<1>5. Agrees(b, d + m, i, t)
  <2> HIDE DEF m
  <2> QED BY <1>1, <1>2, <1>3, EndsAgree
<1>6. s = t
  <2> HIDE DEF t, m
  <2> QED BY <1>1, <1>2, <1>3, <1>4, <1>5, CutIs
<1>7. q = B!SetAt(b, s, at)
  BY <1>3 DEF Moved, B!CopyWithin
<1>8. Len(s) = i - (d + m)
  BY <1>5, <1>6 DEF Agrees
<1>9. at + Len(s) = i + n - cut
  BY <1>2, <1>3, <1>8
<1> HIDE DEF s, t, q
<1>10. /\ q \in Seq(B!Byte) /\ Len(q) = Len(b)
       /\ \A j \in 1 .. Len(b) : j <= at \/ j > at + Len(s) => q[j] = b[j]
  <2> HIDE DEF at
  <2> QED BY <1>1, <1>3, <1>4, <1>6, <1>7, SetAtShape
<1>11. Agrees(q, at, at + Len(s), s)
  <2>1. at + Len(s) <= Len(b)
    BY <1>9
  <2> HIDE DEF at
  <2> QED BY <1>1, <1>3, <1>4, <1>6, <1>7, <2>1, PutAgrees
<1>12. \A j \in 1 .. at : j <= Len(b) => q[j] = b[j]
  <2> HIDE DEF at
  <2>1. \A j \in 1 .. at : j <= Len(b) => j \in 1 .. Len(b) /\ j <= at
    BY <1>2, <1>3
  <2> QED BY <1>10, <2>1
<1>13. Agrees(q, at, i + n - cut, t)
  BY <1>6, <1>9, <1>11
<1> QED BY <1>4, <1>10, <1>12, <1>13 DEF t, q

\* An edit in the middle of DATA.
LEMMA SpliceHolds ==
    ASSUME NEW b, NEW d, NEW i, NEW e, NEW c, NEW v, BufHolds(b, d, i, e, c, v),
           NEW off \in Nat, NEW cut \in Nat, off + cut <= i - d,
           NEW n \in Nat, i + n - cut <= Len(b),
           NEW p \in Seq(B!Byte), Len(p) = n, NEW x \in B!Byte
    PROVE  BufHolds(Spliced(b, d, i, off, cut, n, p), d, i + n - cut, x,
                    SubSeq(c, 1, off) \o p \o SubSeq(c, (off + cut) + 1, Len(c)), v)
<1> DEFINE at == d + off
           z == i + n - cut
           q == Moved(b, d, i, off, cut, n)
           r == B!SetAt(q, p, at)
           f == SubSeq(c, 1, off)
           t == SubSeq(c, (off + cut) + 1, Len(c))
<1>1. b \in Seq(B!Byte) /\ c \in Seq(B!Byte) /\ Agrees(b, d, i, c)
  BY DEF BufHolds
<1>2. /\ Len(b) \in Nat /\ d \in Nat /\ i \in Nat /\ d <= i /\ i <= Len(b)
      /\ Len(b) <= MaxCap
  BY BufNumbers
<1>3. /\ q \in Seq(B!Byte) /\ Len(q) = Len(b)
      /\ \A j \in 1 .. at + n : j <= Len(b) => q[j] = b[j]
  <2>1. q \in Seq(B!Byte)
    BY MovedTail
  <2>2. Len(q) = Len(b)
    BY MovedTail
  <2>3. \A j \in 1 .. at + n : j <= Len(b) => q[j] = b[j]
    BY MovedTail
  <2> QED BY <2>1, <2>2, <2>3
<1>4. t \in Seq(B!Byte) /\ Agrees(q, at + n, z, t)
  BY MovedTail
<1>5. off \in 0 .. i - d /\ at \in Nat /\ at + n \in Nat /\ z \in Nat /\ at + n <= z
      /\ d <= at /\ at <= i /\ at + n <= Len(b) /\ d <= z /\ z <= Len(b)
  BY <1>2
<1>6. f \in Seq(B!Byte)
  BY <1>1, <1>2, <1>5, EndsAgree
<1>7. Agrees(b, d, at, f)
  BY <1>1, <1>2, <1>5, EndsAgree
<1> HIDE DEF at, z, q, f, t
<1>8. /\ r \in Seq(B!Byte) /\ Len(r) = Len(q)
      /\ \A j \in 1 .. Len(q) : j <= at \/ j > at + Len(p) => r[j] = q[j]
  BY <1>3, <1>5, SetAtShape
<1>9. Agrees(r, at, at + n, p)
  <2>1. Agrees(r, at, at + Len(p), p)
    BY <1>3, <1>5, PutAgrees
  <2> QED BY <2>1
<1>10. r = Spliced(b, d, i, off, cut, n, p)
  BY DEF Spliced, r, q, at
<1> HIDE DEF r
<1>11. \A j \in 1 .. at : r[j] = b[j]
  <2>1. \A j \in 1 .. at : j \in 1 .. Len(q) /\ j <= at /\ j \in 1 .. at + n /\ j <= Len(b)
    BY <1>2, <1>3, <1>5
  <2> QED BY <1>3, <1>8, <2>1
<1>12. Agrees(r, d, at, f)
  <2>1. at <= Len(b)
    BY <1>2, <1>5
  <2> QED BY <1>1, <1>2, <1>5, <1>6, <1>7, <1>8, <1>11, <2>1, ApartAgrees
<1>13. Agrees(r, at + n, z, t)
  <2>1. \A j \in (at + n) + 1 .. z : j \in 1 .. Len(q) /\ j > at + Len(p)
    BY <1>2, <1>3, <1>5
  <2>2. \A j \in (at + n) + 1 .. z : r[j] = q[j]
    BY <1>8, <2>1
  <2> QED BY <1>3, <1>4, <1>5, <1>8, <2>2, BetweenAgrees
<1>14. f \o p \in Seq(B!Byte)
  BY <1>6, ConcatShape
<1>15. (f \o p) \o t \in Seq(B!Byte)
  BY <1>4, <1>14, ConcatShape
<1>16. Agrees(r, d, at + n, f \o p)
  BY <1>2, <1>5, <1>6, <1>8, <1>9, <1>12, JoinAgrees
<1>17. Agrees(r, d, z, (f \o p) \o t)
  BY <1>2, <1>4, <1>5, <1>8, <1>13, <1>14, <1>16, JoinAgrees
<1>18. \A j \in 1 .. d : r[j] = b[j]
  <2>1. \A j \in 1 .. d : j \in 1 .. at
    BY <1>2, <1>5
  <2> QED BY <1>11, <2>1
<1>19. Agrees(r, v.from, v.from + Len(v.val), v.val)
  BY <1>8, <1>18, ViewHolds
<1>20. v \in [from : 0 .. MaxCap, val : Seq(B!Byte)] /\ v.from + Len(v.val) <= d
  BY DEF BufHolds
<1>21. Len(r) <= MaxCap /\ z <= Len(r)
  BY <1>2, <1>3, <1>5, <1>8
<1>22. BufHolds(r, d, z, x, (f \o p) \o t, v)
  BY <1>2, <1>5, <1>8, <1>15, <1>17, <1>19, <1>20, <1>21 DEF BufHolds
<1> QED BY <1>10, <1>22 DEF z, f, t

\* The bytes of the Buf itself are still there when its tail has moved.
LEMMA SelfPaste ==
    ASSUME NEW b, NEW d, NEW i, NEW e, NEW c, NEW v, BufHolds(b, d, i, e, c, v),
           NEW off \in Nat, NEW cut \in Nat, off + cut <= i - d,
           NEW n, n = i - d, i + n - cut <= Len(b)
    PROVE  SubSeq(Moved(b, d, i, off, cut, n), d + 1, i) = c
<1> DEFINE q == Moved(b, d, i, off, cut, n)
<1>1. b \in Seq(B!Byte) /\ c \in Seq(B!Byte) /\ Agrees(b, d, i, c)
  BY DEF BufHolds
<1>2. /\ Len(b) \in Nat /\ d \in Nat /\ i \in Nat /\ d <= i /\ i <= Len(b)
  BY BufNumbers
<1>3. n \in Nat
  BY <1>2
<1>4. /\ q \in Seq(B!Byte) /\ Len(q) = Len(b)
      /\ \A j \in 1 .. (d + off) + n : j <= Len(b) => q[j] = b[j]
  <2>1. q \in Seq(B!Byte) /\ Len(q) = Len(b)
    BY <1>3, MovedTail, SMTT(60)
  <2>2. \A j \in 1 .. (d + off) + n : j <= Len(b) => q[j] = b[j]
    BY <1>3, MovedTail, SMTT(60)
  <2> QED BY <2>1, <2>2
<1> HIDE DEF q
<1>5. \A j \in 1 .. i : j \in 1 .. (d + off) + n /\ j <= Len(b)
  BY <1>2, <1>3
<1>6. \A j \in 1 .. i : q[j] = b[j]
  BY <1>4, <1>5
<1>7. Agrees(q, d, i, c)
  BY <1>1, <1>2, <1>4, <1>6, ApartAgrees
<1>8. SubSeq(q, d + 1, i) = c
  BY <1>1, <1>2, <1>4, <1>7, CutIs
<1> QED BY <1>8 DEF q

\* What is between the cursors is as good a history as any.
LEMMA CutHolds ==
    ASSUME NEW b, NEW d, NEW i, NEW e, Shaped(b, d, i, e)
    PROVE  BufHolds(b, d, i, e, SubSeq(b, d + 1, i), B!NoView)
<1> DEFINE c == SubSeq(b, d + 1, i)
           n == i - d
<1>1. /\ b \in Seq(B!Byte) /\ Len(b) <= MaxCap /\ e \in B!Byte
      /\ d \in Nat /\ i \in Nat /\ d <= i /\ i <= Len(b)
  BY DEF Shaped
<1>2. n \in Nat /\ d + n = i /\ d + n <= Len(b)
  BY <1>1
<1>3. c \in Seq(B!Byte)
  <2>1. SubSeq(b, d + 1, d + n) \in Seq(B!Byte)
    <3> HIDE DEF n
    <3> QED BY <1>1, <1>2, PartShape
  <2> QED BY <1>2, <2>1
<1> HIDE DEF c
<1>4. Agrees(b, d, i, c)
  BY <1>1, <1>3, CutIs DEF c
<1>5. /\ B!NoView \in [from : 0 .. MaxCap, val : Seq(B!Byte)]
      /\ B!NoView.from + Len(B!NoView.val) <= d
      /\ Agrees(b, B!NoView.from, B!NoView.from + Len(B!NoView.val), B!NoView.val)
  BY <1>1, NoViewHolds
<1>6. BufHolds(b, d, i, e, c, B!NoView)
  BY <1>1, <1>3, <1>4, <1>5 DEF BufHolds
<1> QED BY <1>6 DEF c

\* What a history says of what is between the cursors, and of its view.
LEMMA HistoryIs ==
    ASSUME NEW b, NEW d, NEW i, NEW e, NEW c, NEW v, BufHolds(b, d, i, e, c, v)
    PROVE  /\ Shaped(b, d, i, e)
           /\ c \in Seq(B!Byte) /\ v \in [from : 0 .. MaxCap, val : Seq(B!Byte)]
           /\ SubSeq(b, d + 1, i) = c
           /\ SubSeq(b, v.from + 1, v.from + Len(v.val)) = v.val
<1> DEFINE f == v.from
           l == v.val
           t == f + Len(l)
<1>1. /\ Len(b) \in Nat /\ d \in Nat /\ i \in Nat /\ d <= i /\ i <= Len(b) /\ Len(b) <= MaxCap
      /\ f \in Nat /\ l \in Seq(B!Byte) /\ t <= d /\ t \in Nat /\ Len(l) \in Nat
  BY BufNumbers
<1>2. /\ b \in Seq(B!Byte) /\ e \in B!Byte /\ c \in Seq(B!Byte)
      /\ v \in [from : 0 .. MaxCap, val : Seq(B!Byte)]
      /\ Agrees(b, d, i, c) /\ Agrees(b, f, t, l)
  BY DEF BufHolds
<1>3. SubSeq(b, d + 1, i) = c
  BY <1>1, <1>2, CutIs
<1>4. SubSeq(b, f + 1, t) = l
  <2>1. f <= t /\ t <= Len(b)
    BY <1>1
  <2> HIDE DEF f, l, t
  <2> QED BY <1>1, <1>2, <2>1, CutIs
<1> QED BY <1>1, <1>2, <1>3, <1>4 DEF Shaped

\* What the invariant says of the Buf's type and of what it hands out.
LEMMA BufInvExact ==
    ASSUME BufInv
    PROVE  B!BufTypeOK /\ BufExact
<1>1. CASE AtRest
  <2>1. BufHolds(bytes, data, idle, entered, content, taken) /\ run = B!NoRun /\ meddled = FALSE
    BY <1>1 DEF AtRest
  <2>2. /\ Shaped(bytes, data, idle, entered) /\ content \in Seq(B!Byte)
        /\ taken \in [from : 0 .. MaxCap, val : Seq(B!Byte)]
        /\ SubSeq(bytes, data + 1, idle) = content
        /\ SubSeq(bytes, taken.from + 1, taken.from + Len(taken.val)) = taken.val
    BY <2>1, HistoryIs
  <2>3. ~run.on
    BY <2>1 DEF B!NoRun
  <2>4. data \in 0 .. idle /\ idle \in 0 .. Len(bytes) /\ 0 \in 0 .. 0 /\ 0 \in 0 .. Len(bytes)
    <3>1. Len(bytes) \in Nat
      BY <2>2, LenProperties DEF Shaped
    <3> QED BY <2>2, <3>1 DEF Shaped
  <2>5. run \in [on : BOOLEAN, own : BOOLEAN, past : 0 .. run.busy, busy : 0 .. run.cap,
                 cap : 0 .. Len(bytes)]
    BY <2>1, <2>4 DEF B!NoRun
  <2>6. B!BufTypeOK
    BY <2>1, <2>2, <2>4, <2>5 DEF B!BufTypeOK, Shaped
  <2> QED BY <2>2, <2>3, <2>6 DEF BufExact, B!BufExact, B!DataExact, B!TakenIntact, B!Data
<1>2. CASE Running
  <2>1. /\ run \in Runs /\ run.on /\ meddled \in BOOLEAN /\ Shaped(bytes, data, idle, entered)
        /\ run.past <= run.busy /\ run.busy <= run.cap /\ run.cap <= Len(bytes)
    BY <1>2 DEF Running
  <2>2. /\ run.past \in 0 .. run.busy /\ run.busy \in 0 .. run.cap /\ run.cap \in 0 .. Len(bytes)
        /\ data \in 0 .. idle /\ idle \in 0 .. Len(bytes)
    <3>1. Len(bytes) \in Nat
      BY <2>1, LenProperties DEF Shaped
    <3>2. run.past \in Nat /\ run.busy \in Nat /\ run.cap \in Nat
      BY <2>1 DEF Runs
    <3> QED BY <2>1, <3>1, <3>2 DEF Shaped
  <2>3. run \in [on : BOOLEAN, own : BOOLEAN, past : 0 .. run.busy, busy : 0 .. run.cap,
                 cap : 0 .. Len(bytes)]
    BY <2>1, <2>2 DEF Runs
  <2>4. /\ content \in Seq(B!Byte) /\ taken \in [from : 0 .. MaxCap, val : Seq(B!Byte)]
        /\ SubSeq(bytes, taken.from + 1, taken.from + Len(taken.val)) = taken.val
        /\ ~meddled => SubSeq(bytes, run.past + 1, run.busy) = content
    <3>1. CASE meddled
      <4>1. content = << >> /\ taken = B!NoView /\ << >> \in Seq(B!Byte)
        BY <1>2, <3>1 DEF Running
      <4>2. /\ B!NoView \in [from : 0 .. MaxCap, val : Seq(B!Byte)]
            /\ SubSeq(bytes, B!NoView.from + 1, B!NoView.from + Len(B!NoView.val)) = B!NoView.val
        BY <2>1, CutHolds, HistoryIs
      <4> QED BY <3>1, <4>1, <4>2
    <3>2. CASE ~meddled
      <4>1. BufHolds(bytes, run.past, run.busy, entered, content, taken)
        BY <1>2, <3>2 DEF Running
      <4> QED BY <4>1, HistoryIs
    <3> QED BY <3>1, <3>2
  <2>5. B!BufTypeOK
    BY <2>1, <2>2, <2>3, <2>4 DEF B!BufTypeOK, Shaped
  <2> QED BY <2>1, <2>4, <2>5 DEF BufExact, B!BufExact, B!DataExact, B!TakenIntact
<1> QED BY <1>1, <1>2 DEF BufInv

\* A new Buf, all IDLE or all DATA.
LEMMA BufInitHolds ==
    ASSUME B!BufInit
    PROVE  BufInv
<1>1. Cap \in Nat /\ MaxCap \in Nat /\ Cap <= MaxCap /\ 0 \in B!Byte
  BY ConstantsAssumption DEF B!Byte
<1>2. /\ bytes = [j \in 1 .. Cap |-> 0] /\ data = 0 /\ idle \in {0, Cap}
      /\ entered = 0 /\ content = [j \in 1 .. idle |-> 0] /\ taken = B!NoView
      /\ run = B!NoRun /\ meddled = FALSE
  BY DEF B!BufInit
<1>3. bytes \in Seq(B!Byte) /\ Len(bytes) = Cap
  <2>1. bytes \in [1 .. Cap -> B!Byte]
    BY <1>1, <1>2
  <2> QED BY <1>1, <2>1
<1>4. idle \in Nat /\ 0 <= idle /\ idle <= Cap
  BY <1>1, <1>2
<1>5. content \in Seq(B!Byte) /\ Len(content) = idle
  <2>1. content \in [1 .. idle -> B!Byte]
    BY <1>1, <1>2
  <2> QED BY <1>4, <2>1
<1>6. Agrees(bytes, data, idle, content)
  <2>1. Len(content) = idle - data
    BY <1>2, <1>4, <1>5
  <2>2. \A k \in 1 .. Len(content) : data + k \in 1 .. Cap /\ k \in 1 .. idle
    BY <1>1, <1>2, <1>4, <1>5
  <2>3. \A k \in 1 .. Len(content) : content[k] = bytes[data + k]
    BY <1>2, <2>2
  <2> QED BY <2>1, <2>3 DEF Agrees
<1>7. data \in Nat /\ data <= idle /\ idle <= Len(bytes) /\ Len(bytes) <= MaxCap
  BY <1>1, <1>2, <1>3, <1>4
<1>8. taken \in [from : 0 .. MaxCap, val : Seq(B!Byte)]
  BY <1>2, <1>7, NoViewHolds
<1>9. taken.from + Len(taken.val) <= data
  BY <1>2, <1>7, NoViewHolds
<1>10. Agrees(bytes, taken.from, taken.from + Len(taken.val), taken.val)
  BY <1>2, <1>7, NoViewHolds
<1>11. entered \in B!Byte
  BY <1>1, <1>2
<1>12. BufHolds(bytes, data, idle, entered, content, taken)
  BY <1>3, <1>4, <1>5, <1>6, <1>7, <1>8, <1>9, <1>10, <1>11 DEF BufHolds
<1> QED BY <1>2, <1>12 DEF BufInv, AtRest

\* The numbers of the Buf.
LEMMA BufSizes ==
    ASSUME NEW c, NEW v, BufHolds(bytes, data, idle, entered, c, v)
    PROVE  /\ Len(bytes) \in Nat /\ data \in Nat /\ idle \in Nat /\ data <= idle
           /\ idle <= Len(bytes) /\ Len(bytes) <= MaxCap /\ entered \in B!Byte
           /\ MaxBytes \in Nat /\ MaxCap \in Nat /\ Cap \in Nat
           /\ B!Size = idle - data /\ B!Size \in Nat
           /\ B!Room = Len(bytes) - idle /\ B!Room \in Nat
           /\ \A n : B!Fresh(n) = New(entered, n)
           /\ Len(c) = idle - data
<1>2. /\ Len(bytes) \in Nat /\ data \in Nat /\ idle \in Nat /\ data <= idle
      /\ idle <= Len(bytes) /\ Len(bytes) <= MaxCap
      /\ Len(c) = idle - data
  BY BufNumbers
<1>3. entered \in B!Byte
  BY DEF BufHolds
<1>4. MaxBytes \in Nat /\ MaxCap \in Nat /\ Cap \in Nat
  BY ConstantsAssumption
<1>5. B!Size = idle - data /\ B!Size \in Nat /\ B!Room = Len(bytes) - idle /\ B!Room \in Nat
  BY <1>2 DEF B!Size, B!Room
<1>6. \A n : B!Fresh(n) = New(entered, n)
  BY DEF B!Fresh, New
<1> QED BY <1>2, <1>3, <1>4, <1>5, <1>6

\* What a call makes of a history c with a view v: another one, in an array of
\* the same length, which is the Buf's when c and v were; unless a handler calls.
CallOf(c, v) ==
    /\ \E x, y : /\ BufHolds(bytes', data', idle', entered', x, y)
                 /\ ~run.on /\ c = content /\ v = taken => content' = x /\ taken' = y
    /\ run.on => content' = << >> /\ taken' = B!NoView
    /\ Len(bytes') >= Len(bytes)

\* feed and read put bytes into IDLE.
LEMMA FillStep ==
    ASSUME NEW c, NEW v, BufHolds(bytes, data, idle, entered, c, v),
           NEW n \in 1 .. B!Room, entered + n <= MaxBytes, B!Filled(n)
    PROVE  CallOf(c, v) /\ Len(bytes') = Len(bytes)
<1>1. /\ Len(bytes) \in Nat /\ idle \in Nat
      /\ B!Room = Len(bytes) - idle /\ B!Room \in Nat /\ B!Fresh(n) = New(entered, n)
  BY BufSizes
<1>2. n \in Nat /\ idle + n <= Len(bytes)
  BY <1>1
<1>3. BufHolds(B!SetAt(bytes, New(entered, n), idle), data, idle + n, entered + n,
               c \o New(entered, n), v)
  BY <1>1, <1>2, FillHolds
<1>4. Len(B!SetAt(bytes, New(entered, n), idle)) = Len(bytes)
  <2>1. bytes \in Seq(B!Byte) /\ entered \in B!Byte
    BY DEF BufHolds
  <2>2. New(entered, n) \in Seq(B!Byte)
    BY <1>2, <2>1, NewShape
  <2> QED BY <1>1, <2>1, <2>2, SetAtShape
<1>5. /\ bytes' = B!SetAt(bytes, New(entered, n), idle)
      /\ idle' = idle + n /\ entered' = entered + n
      /\ content' = B!Told(content \o New(entered, n))
      /\ data' = data /\ taken' = B!Shown(taken)
  BY <1>1 DEF B!Filled
<1>6. BufHolds(bytes', data', idle', entered', c \o New(entered, n), v)
  BY <1>3, <1>5
<1>7. ~run.on /\ c = content /\ v = taken => content' = c \o New(entered, n) /\ taken' = v
  BY <1>5 DEF B!Told, B!Shown
<1>8. run.on => content' = << >> /\ taken' = B!NoView
  BY <1>5 DEF B!Told, B!Shown
<1>9. Len(bytes') = Len(bytes) /\ Len(bytes') >= Len(bytes)
  BY <1>1, <1>4, <1>5
<1> DEFINE z == c \o New(entered, n)
<1>10. /\ BufHolds(bytes', data', idle', entered', z, v)
       /\ ~run.on /\ c = content /\ v = taken => content' = z /\ taken' = v
  BY <1>6, <1>7
<1> HIDE DEF z
<1> QED BY <1>8, <1>9, <1>10 DEF CallOf

\* take, write and shed move one end of DATA; reset and shift drop PAST.
LEMMA EndSteps ==
    ASSUME NEW c, NEW v, BufHolds(bytes, data, idle, entered, c, v),
           \/ \E n \in 1 .. 2 : B!take(n) \/ B!shed(n)
           \/ B!write \/ B!reset \/ B!shift
    PROVE  CallOf(c, v) /\ Len(bytes') = Len(bytes)
<1>1. /\ data \in Nat /\ idle \in Nat /\ B!Size = idle - data /\ B!Size \in Nat
      /\ Len(bytes) \in Nat
  BY BufSizes
<1>2. ASSUME NEW n \in 1 .. 2, B!take(n) PROVE CallOf(c, v) /\ Len(bytes') = Len(bytes)
  <2> DEFINE x == SubSeq(c, n + 1, Len(c))
             y == [from |-> data, val |-> SubSeq(c, 1, n)]
  <2>1. n \in 0 .. idle - data
    BY <1>1, <1>2 DEF B!take
  <2>2. BufHolds(bytes, data + n, idle, entered, x, y)
    BY <1>1, <2>1, DropHolds
  <2>3. /\ UNCHANGED <<bytes, idle, entered>> /\ data' = data + n
        /\ content' = B!Told(SubSeq(content, n + 1, Len(content)))
        /\ taken' = B!Shown([from |-> data, val |-> SubSeq(content, 1, n)])
    BY <1>2 DEF B!take
  <2>4. ~run.on /\ c = content /\ v = taken => content' = x /\ taken' = y
    BY <2>3 DEF B!Told, B!Shown
  <2>5. run.on => content' = << >> /\ taken' = B!NoView
    BY <2>3 DEF B!Told, B!Shown
  <2> HIDE DEF x, y
  <2> QED BY <1>1, <2>2, <2>3, <2>4, <2>5 DEF CallOf
<1>3. ASSUME B!write PROVE CallOf(c, v) /\ Len(bytes') = Len(bytes)
  <2>1. PICK n \in 1 .. B!Size :
            /\ data' = data + n
            /\ content' = B!Told(SubSeq(content, n + 1, Len(content)))
            /\ taken' = B!Shown(taken)
            /\ UNCHANGED <<bytes, idle, entered>>
    BY <1>3 DEF B!write
  <2> DEFINE x == SubSeq(c, n + 1, Len(c))
  <2>2. n \in 0 .. idle - data
    BY <1>1
  <2>3. BufHolds(bytes, data + n, idle, entered, x, v)
    BY <1>1, <2>2, DropHolds
  <2>4. ~run.on /\ c = content /\ v = taken => content' = x /\ taken' = v
    BY <2>1 DEF B!Told, B!Shown
  <2>5. run.on => content' = << >> /\ taken' = B!NoView
    BY <2>1 DEF B!Told, B!Shown
  <2> HIDE DEF x
  <2> QED BY <1>1, <2>1, <2>3, <2>4, <2>5 DEF CallOf
<1>4. ASSUME NEW n \in 1 .. 2, B!shed(n) PROVE CallOf(c, v) /\ Len(bytes') = Len(bytes)
  <2> DEFINE x == SubSeq(c, 1, Len(c) - n)
  <2>1. n \in 0 .. idle - data
    BY <1>1, <1>4 DEF B!shed
  <2>2. BufHolds(bytes, data, idle - n, entered, x, v)
    BY <1>1, <2>1, ShedHolds
  <2>3. /\ UNCHANGED <<bytes, data, entered>> /\ idle' = idle - n
        /\ content' = B!Told(SubSeq(content, 1, Len(content) - n))
        /\ taken' = B!Shown(taken)
    BY <1>4 DEF B!shed
  <2>4. ~run.on /\ c = content /\ v = taken => content' = x /\ taken' = v
    BY <2>3 DEF B!Told, B!Shown
  <2>5. run.on => content' = << >> /\ taken' = B!NoView
    BY <2>3 DEF B!Told, B!Shown
  <2> HIDE DEF x
  <2> QED BY <1>1, <2>2, <2>3, <2>4, <2>5 DEF CallOf
<1>5. ASSUME B!reset PROVE CallOf(c, v) /\ Len(bytes') = Len(bytes)
  <2>1. BufHolds(bytes, 0, 0, entered, << >>, B!NoView)
    BY <1>1, ResetHolds
  <2>2. /\ UNCHANGED <<bytes, entered>> /\ data' = 0 /\ idle' = 0
        /\ content' = << >> /\ taken' = B!NoView
    BY <1>5 DEF B!reset
  <2> QED BY <1>1, <2>1, <2>2 DEF CallOf
<1>6. ASSUME B!shift PROVE CallOf(c, v) /\ Len(bytes') = Len(bytes)
  <2>1. /\ BufHolds(B!CopyWithin(bytes, 0, data, idle), 0, idle - data, entered, c, B!NoView)
        /\ Len(B!CopyWithin(bytes, 0, data, idle)) = Len(bytes)
    BY <1>1, ShiftHolds
  <2>2. /\ bytes' = B!CopyWithin(bytes, 0, data, idle) /\ UNCHANGED entered
        /\ data' = 0 /\ idle' = idle - data
        /\ content' = B!Told(content) /\ taken' = B!NoView
    BY <1>6 DEF B!shift
  <2>3. ~run.on /\ c = content /\ v = taken => content' = c /\ taken' = B!NoView
    BY <2>2 DEF B!Told
  <2>4. run.on => content' = << >> /\ taken' = B!NoView
    BY <2>2 DEF B!Told
  <2> QED BY <1>1, <2>1, <2>2, <2>3, <2>4 DEF CallOf
<1> QED BY <1>2, <1>3, <1>4, <1>5, <1>6

\* splice keeps what the calls made: of another Buf's bytes, and of its own.
LEMMA SpliceStep ==
    ASSUME NEW c, NEW v, BufHolds(bytes, data, idle, entered, c, v),
           NEW off \in 0 .. B!Size, NEW cut \in 0 .. B!Size, NEW n \in Nat,
           NEW self \in BOOLEAN, self => n = B!Size, B!splice(off, cut, n, self)
    PROVE  CallOf(c, v) /\ Len(bytes') = Len(bytes)
<1> DEFINE F == New(entered, n)
           p == IF self THEN c ELSE F
           x == IF self THEN entered ELSE entered + n
           z == SubSeq(c, 1, off) \o p \o SubSeq(c, (off + cut) + 1, Len(c))
<1>1. /\ Len(bytes) \in Nat /\ data \in Nat /\ idle \in Nat /\ data <= idle
      /\ entered \in B!Byte
      /\ B!Size = idle - data /\ B!Size \in Nat
      /\ B!Room = Len(bytes) - idle /\ B!Room \in Nat
      /\ B!Fresh(n) = F /\ Len(c) = idle - data
  BY BufSizes
<1>2. off \in Nat /\ cut \in Nat
  BY <1>1
<1>3. off + cut <= idle - data /\ n - cut <= B!Room
      /\ (self \/ entered + n <= MaxBytes)
  BY <1>1 DEF B!splice
<1>4. idle + n - cut <= Len(bytes)
  BY <1>1, <1>2, <1>3
<1>5. p \in Seq(B!Byte) /\ Len(p) = n /\ x \in B!Byte
  <2>1. CASE self
    <3>1. c \in Seq(B!Byte)
      BY DEF BufHolds
    <3> QED BY <1>1, <2>1, <3>1
  <2>2. CASE ~self
    <3>1. F \in Seq(B!Byte) /\ Len(F) = n /\ entered + n \in B!Byte
      BY <1>1, <1>3, <2>2, NewShape
    <3> HIDE DEF F
    <3> QED BY <2>2, <3>1
  <2> QED BY <2>1, <2>2
<1>6. self => SubSeq(Moved(bytes, data, idle, off, cut, n), data + 1, idle) = c
  <2> SUFFICES ASSUME self
               PROVE  SubSeq(Moved(bytes, data, idle, off, cut, n), data + 1, idle) = c
    OBVIOUS
  <2>1. n = idle - data
    BY <1>1
  <2> QED BY <1>1, <1>2, <1>3, <1>4, <2>1, SelfPaste
<1>7. bytes' = Spliced(bytes, data, idle, off, cut, n, p)
  <2> DEFINE q == B!CopyWithin(bytes, (data + off) + n, (data + off) + cut, idle)
  <2>1. bytes' = B!SetAt(q, IF self THEN SubSeq(q, data + 1, idle) ELSE B!Fresh(n),
                         data + off)
    BY DEF B!splice
  <2>2. q = Moved(bytes, data, idle, off, cut, n)
    BY DEF Moved
  <2> HIDE DEF q, F
  <2>3. (IF self THEN SubSeq(q, data + 1, idle) ELSE B!Fresh(n)) = p
    BY <1>1, <1>6, <2>2
  <2> HIDE DEF p
  <2> QED BY <2>1, <2>2, <2>3 DEF Spliced
<1>8. Len(bytes') = Len(bytes)
  <2>1. /\ Moved(bytes, data, idle, off, cut, n) \in Seq(B!Byte)
        /\ Len(Moved(bytes, data, idle, off, cut, n)) = Len(bytes)
    BY <1>1, <1>2, <1>3, <1>4, MovedTail, SMTT(60)
  <2>2. data + off \in Nat
    BY <1>1, <1>2
  <2> HIDE DEF p
  <2>3. Len(B!SetAt(Moved(bytes, data, idle, off, cut, n), p, data + off)) = Len(bytes)
    BY <1>5, <2>1, <2>2, SetAtShape
  <2> QED BY <1>7, <2>3 DEF Spliced
<1>9. /\ content' = B!Told(SubSeq(content, 1, off) \o (IF self THEN content ELSE B!Fresh(n))
                             \o SubSeq(content, (off + cut) + 1, Len(content)))
      /\ idle' = idle + n - cut /\ entered' = x
      /\ data' = data /\ taken' = B!Shown(taken)
  <2>1. (off + cut) + 1 = off + cut + 1
    BY <1>2
  <2> QED BY <2>1 DEF B!splice
<1>10. ~run.on /\ c = content /\ v = taken => content' = z /\ taken' = v
  BY <1>1, <1>9 DEF B!Told, B!Shown
<1>11. run.on => content' = << >> /\ taken' = B!NoView
  BY <1>9 DEF B!Told, B!Shown
<1> HIDE DEF p, x
<1>12. BufHolds(Spliced(bytes, data, idle, off, cut, n, p), data, idle + n - cut, x, z, v)
  BY <1>1, <1>2, <1>3, <1>4, <1>5, SpliceHolds
<1>13. BufHolds(bytes', data', idle', entered', z, v)
  BY <1>7, <1>9, <1>12
<1> HIDE DEF z
<1> QED BY <1>1, <1>8, <1>10, <1>11, <1>13 DEF CallOf

\* grow.
LEMMA GrowStep ==
    ASSUME NEW c, NEW v, BufHolds(bytes, data, idle, entered, c, v),
           NEW n \in Cap .. MaxCap, B!grow(n)
    PROVE  CallOf(c, v)
<1> DEFINE q == [j \in 1 .. n |-> IF j <= idle THEN bytes[j] ELSE 0]
<1>1. n \in Nat /\ n > Len(bytes) /\ n <= MaxCap /\ Len(bytes) \in Nat
  BY BufSizes DEF B!grow
<1>2. BufHolds(q, data, idle, entered, c, B!NoView)
  BY <1>1, GrowHolds
<1>3. Len(q) = n
  <2>1. q \in Seq(B!Byte)
    BY <1>2 DEF BufHolds
  <2> QED BY <1>1, <2>1
<1>4. /\ bytes' = q /\ UNCHANGED <<data, idle, entered>>
      /\ content' = B!Told(content) /\ taken' = B!NoView
  BY DEF B!grow
<1>5. ~run.on /\ c = content /\ v = taken => content' = c /\ taken' = B!NoView
  BY <1>4 DEF B!Told
<1>6. run.on => content' = << >> /\ taken' = B!NoView
  BY <1>4 DEF B!Told
<1> HIDE DEF q
<1> QED BY <1>1, <1>2, <1>3, <1>4, <1>5, <1>6 DEF CallOf

\* Every call within the array.
LEMMA CallSteps ==
    ASSUME NEW c, NEW v, BufHolds(bytes, data, idle, entered, c, v), B!Calls
    PROVE  CallOf(c, v) /\ Len(bytes') = Len(bytes)
<1> DEFINE G == CallOf(c, v) /\ Len(bytes') = Len(bytes)
<1>1. B!Size \in Nat
  BY BufSizes
<1>2. ASSUME NEW n \in 1 .. 2, B!feed(n) PROVE G
  BY <1>2, FillStep DEF B!feed
<1>3. ASSUME B!read PROVE G
  BY <1>3, FillStep DEF B!read
<1>4. ASSUME NEW off \in 0 .. B!Size, NEW cut \in 0 .. B!Size, NEW n \in 0 .. 2,
             B!splice(off, cut, n, FALSE)
      PROVE  G
  <2>1. n \in Nat
    OBVIOUS
  <2> QED BY <1>4, <2>1, SpliceStep
<1>5. ASSUME NEW off \in 0 .. B!Size, NEW cut \in 0 .. B!Size,
             B!splice(off, cut, B!Size, TRUE)
      PROVE  G
  BY <1>1, <1>5, SpliceStep
<1>6. ASSUME \/ \E n \in 1 .. 2 : B!take(n) \/ B!shed(n)
             \/ B!write \/ B!reset \/ B!shift
      PROVE  G
  BY <1>6, EndSteps
<1> HIDE DEF G
<1>7. G
  BY <1>2, <1>3, <1>4, <1>5, <1>6 DEF B!Calls
<1> QED BY <1>7 DEF G

\* Part of an ingest, on the cursors it has: PAST may be dropped, bytes come in,
\* and the front is eaten.
Ingested(b, d, i, e, drop, n) ==
    B!SetAt(IF drop = 0 THEN b ELSE B!CopyWithin(b, 0, d, i), New(e, n), i - drop)

LEMMA RunHolds ==
    ASSUME NEW b, NEW d, NEW i, NEW e, NEW c, NEW v, BufHolds(b, d, i, e, c, v),
           NEW drop \in {0, d}, NEW n \in Nat, i - drop + n <= Len(b), e + n <= MaxBytes,
           NEW m \in 0 .. i - d + n
    PROVE  /\ BufHolds(Ingested(b, d, i, e, drop, n), d - drop + m, i - drop + n, e + n,
                       SubSeq(c \o New(e, n), m + 1, Len(c) + n),
                       IF drop = 0 THEN v ELSE B!NoView)
           /\ Len(Ingested(b, d, i, e, drop, n)) = Len(b)
<1> DEFINE a == IF drop = 0 THEN b ELSE B!CopyWithin(b, 0, d, i)
           f == d - drop
           k == i - drop
           w == IF drop = 0 THEN v ELSE B!NoView
           s == New(e, n)
           z == c \o s
           q == B!SetAt(a, s, k)
<1>1. /\ Len(b) \in Nat /\ d \in Nat /\ i \in Nat /\ d <= i /\ Len(c) = i - d /\ Len(c) \in Nat
  BY BufNumbers
<1>2. BufHolds(a, f, k, e, c, w) /\ Len(a) = Len(b)
  <2>1. CASE drop = 0
    <3>1. d - drop = d /\ i - drop = i
      BY <1>1, <2>1
    <3> QED BY <2>1, <3>1
  <2>2. CASE drop # 0
    <3>1. drop = d /\ d - drop = 0 /\ i - drop = i - d
      BY <1>1, <2>2
    <3>2. Len(B!CopyWithin(b, 0, d, i)) = Len(b)
      BY ShiftHolds
    <3>3. BufHolds(B!CopyWithin(b, 0, d, i), 0, i - d, e, c, B!NoView)
      BY ShiftHolds
    <3> QED BY <2>2, <3>1, <3>2, <3>3
  <2> QED BY <2>1, <2>2
<1>3. drop \in Nat /\ k + n <= Len(b) /\ m \in 0 .. (k + n) - f /\ k \in Nat
  BY <1>1
<1>4. /\ c \in Seq(B!Byte) /\ s \in Seq(B!Byte) /\ Len(s) = n /\ a \in Seq(B!Byte)
  <2>1. c \in Seq(B!Byte) /\ e \in B!Byte /\ a \in Seq(B!Byte)
    BY <1>2 DEF BufHolds
  <2>2. s \in Seq(B!Byte) /\ Len(s) = n
    BY <2>1, NewShape
  <2> QED BY <2>1, <2>2
<1>5. Len(z) = Len(c) + n
  <2> HIDE DEF s
  <2>1. Len(z) = Len(c) + Len(s)
    BY <1>4, ConcatShape
  <2> QED BY <1>4, <2>1
<1> HIDE DEF a, f, k, w
<1>6. BufHolds(q, f, k + n, e + n, z, w)
  <2>1. k + n <= Len(a)
    BY <1>2, <1>3
  <2> QED BY <1>2, <2>1, FillHolds
<1>7. Len(q) = Len(b)
  <2> HIDE DEF s
  <2> QED BY <1>2, <1>3, <1>4, SetAtShape
<1> HIDE DEF q, s, z
<1>8. BufHolds(q, f + m, k + n, e + n, SubSeq(z, m + 1, Len(z)), w)
  BY <1>3, <1>6, DropHolds
<1>9. q = Ingested(b, d, i, e, drop, n)
  BY DEF q, a, s, k, Ingested
<1> QED BY <1>5, <1>7, <1>8, <1>9 DEF f, k, w, z, s

\* An ingest begins.
LEMMA BeginStep ==
    ASSUME BufInv, B!repackBegin
    PROVE  BufInv'
<1>1. /\ ~run.on /\ UNCHANGED <<bytes, data, idle, entered, content, taken, meddled>>
      /\ run' = [on |-> TRUE, own |-> TRUE, past |-> data, busy |-> idle, cap |-> Len(bytes)]
  BY DEF B!repackBegin
<1>2. AtRest
  BY <1>1 DEF BufInv, Running
<1>3. BufHolds(bytes, data, idle, entered, content, taken) /\ meddled = FALSE
  BY <1>2 DEF AtRest
<1>4. /\ Len(bytes) \in Nat /\ data \in Nat /\ idle \in Nat /\ data <= idle /\ idle <= Len(bytes)
      /\ Shaped(bytes, data, idle, entered)
  BY <1>3, BufNumbers, HistoryIs
<1>5. /\ run' \in Runs /\ run'.on /\ run'.own /\ run'.past = data /\ run'.busy = idle
      /\ run'.cap = Len(bytes)
  BY <1>1, <1>4 DEF Runs
<1>6. BufHolds(bytes', run'.past, run'.busy, entered', content', taken')
  BY <1>1, <1>3, <1>5
<1>7. /\ run'.past <= run'.busy /\ run'.busy <= run'.cap /\ run'.cap <= Len(bytes')
      /\ run'.cap = Len(bytes') /\ Shaped(bytes', data', idle', entered')
      /\ meddled' = FALSE
  BY <1>1, <1>3, <1>4, <1>5
<1>8. Running'
  BY <1>5, <1>6, <1>7 DEF Running
<1> QED BY <1>8 DEF BufInv

\* It goes on, in the Buf's array or in the one that it had.
LEMMA RepackStep ==
    ASSUME BufInv, B!repackStep
    PROVE  BufInv'
<1>1. run.on /\ UNCHANGED <<data, idle, meddled>>
  BY DEF B!repackStep
<1>2. Running
  BY <1>1 DEF BufInv, AtRest, B!NoRun
<1>3. /\ run \in Runs /\ meddled \in BOOLEAN /\ Shaped(bytes, data, idle, entered)
      /\ run.past \in Nat /\ run.busy \in Nat /\ run.cap \in Nat
      /\ run.past <= run.busy /\ run.busy <= run.cap /\ run.cap <= Len(bytes)
      /\ run.own => run.cap = Len(bytes)
      /\ Len(bytes) \in Nat /\ bytes \in Seq(B!Byte) /\ entered \in B!Byte
      /\ \A n : B!Fresh(n) = New(entered, n)
  BY <1>2, LenProperties DEF Running, Shaped, Runs, B!Fresh, New
<1>4. PICK drop, n, m :
         /\ drop \in {0, run.past} /\ n \in 0 .. run.cap - run.busy + drop
         /\ m \in 0 .. run.busy - run.past + n
         /\ entered + n <= MaxBytes
         /\ run' = [run EXCEPT !.past = @ - drop + m, !.busy = @ - drop + n]
         /\ bytes' = IF ~run.own THEN bytes
                     ELSE Ingested(bytes, run.past, run.busy, entered, drop, n)
         /\ content' = IF meddled THEN << >>
                       ELSE SubSeq(content \o New(entered, n), m + 1, Len(content) + n)
         /\ taken' = IF drop = 0 THEN taken ELSE B!NoView
         /\ entered' = entered + n
  <2>1. \E drop \in {0, run.past} : \E n \in 0 .. run.cap - run.busy + drop :
          \E m \in 0 .. run.busy - run.past + n :
         /\ entered + n <= MaxBytes
         /\ run' = [run EXCEPT !.past = @ - drop + m, !.busy = @ - drop + n]
         /\ bytes' = IF ~run.own THEN bytes
                     ELSE Ingested(bytes, run.past, run.busy, entered, drop, n)
         /\ content' = IF meddled THEN << >>
                       ELSE SubSeq(content \o New(entered, n), m + 1, Len(content) + n)
         /\ taken' = IF drop = 0 THEN taken ELSE B!NoView
         /\ entered' = entered + n
    BY <1>3 DEF B!repackStep, Ingested
  <2> QED BY <2>1
<1>5. drop \in Nat /\ n \in Nat /\ m \in Nat /\ drop <= run.past
      /\ run.busy - drop + n <= run.cap
  BY <1>3, <1>4
<1>6. /\ run' \in Runs /\ run'.on /\ (run'.own <=> run.own) /\ run'.cap = run.cap
      /\ run'.past = run.past - drop + m /\ run'.busy = run.busy - drop + n
      /\ run'.past <= run'.busy /\ run'.busy <= run'.cap
  <2>1. /\ run.past - drop + m \in Nat /\ run.busy - drop + n \in Nat
        /\ run.past - drop + m <= run.busy - drop + n /\ run.busy - drop + n <= run.cap
    <3>1. run.past - drop \in Nat /\ run.busy - drop \in Nat
      BY <1>3, <1>5
    <3>2. run.past - drop + m <= run.busy - drop + n
      BY <1>3, <1>4, <1>5
    <3>3. run.past - drop + m \in Nat /\ run.busy - drop + n \in Nat
      BY <1>5, <3>1
    <3> QED BY <1>5, <3>2, <3>3
  <2>2. /\ run'.on = run.on /\ run'.own = run.own /\ run'.cap = run.cap
        /\ run'.past = run.past - drop + m /\ run'.busy = run.busy - drop + n
    BY <1>3, <1>4 DEF Runs
  <2>3. run' \in Runs
    BY <1>3, <1>4, <2>1 DEF Runs
  <2> QED BY <1>1, <2>1, <2>2, <2>3
<1>7. entered' \in B!Byte
  <2>1. MaxBytes \in Nat /\ entered \in Nat
    BY <1>3, ConstantsAssumption DEF B!Byte
  <2> QED BY <1>4, <1>5, <2>1 DEF B!Byte
\* What the ingest makes of any history of what it has in the Buf's array.
<1>8. ASSUME run.own, NEW c, NEW v, BufHolds(bytes, run.past, run.busy, entered, c, v)
      PROVE  /\ BufHolds(bytes', run'.past, run'.busy, entered',
                         SubSeq(c \o New(entered, n), m + 1, Len(c) + n),
                         IF drop = 0 THEN v ELSE B!NoView)
             /\ Len(bytes') = Len(bytes) /\ bytes' \in Seq(B!Byte)
  <2> DEFINE q == Ingested(bytes, run.past, run.busy, entered, drop, n)
             z == SubSeq(c \o New(entered, n), m + 1, Len(c) + n)
             w == IF drop = 0 THEN v ELSE B!NoView
             f == run.past
             k == run.busy
  <2>1. k - drop + n <= Len(bytes) /\ m \in 0 .. k - f + n /\ drop \in {0, f}
        /\ entered + n <= MaxBytes
    BY <1>3, <1>4, <1>5
  <2>2. bytes' = q /\ entered' = entered + n
    BY <1>4, <1>8
  <2>3. BufHolds(bytes, f, k, entered, c, v)
    BY <1>8
  <2> HIDE DEF f, k
  <2>4. /\ BufHolds(Ingested(bytes, f, k, entered, drop, n), f - drop + m, k - drop + n,
                    entered + n, z, w)
        /\ Len(Ingested(bytes, f, k, entered, drop, n)) = Len(bytes)
    BY <1>5, <2>1, <2>3, RunHolds
  <2>5. /\ BufHolds(q, run.past - drop + m, run.busy - drop + n, entered + n, z, w)
        /\ Len(q) = Len(bytes)
    BY <2>4 DEF f, k
  <2> HIDE DEF q, z, w
  <2>6. q \in Seq(B!Byte)
    BY <2>5 DEF BufHolds
  <2>7. BufHolds(bytes', run'.past, run'.busy, entered', z, w)
    BY <1>6, <2>2, <2>5
  <2> QED BY <2>2, <2>5, <2>6, <2>7 DEF z, w
<1>9. Len(bytes') = Len(bytes) /\ bytes' \in Seq(B!Byte)
  <2>1. CASE run.own
    <3>1. Shaped(bytes, run.past, run.busy, entered)
      BY <1>3 DEF Shaped
    <3>2. BufHolds(bytes, run.past, run.busy, entered,
                   SubSeq(bytes, run.past + 1, run.busy), B!NoView)
      BY <3>1, CutHolds
    <3> QED BY <1>8, <2>1, <3>2
  <2>2. CASE ~run.own
    BY <1>3, <1>4, <2>2
  <2> QED BY <2>1, <2>2
<1>10. Shaped(bytes', data', idle', entered')
  BY <1>1, <1>3, <1>7, <1>9 DEF Shaped
<1>11. meddled' => content' = << >> /\ taken' = B!NoView
  BY <1>1, <1>2, <1>4 DEF Running
<1>12. ~meddled' => run'.own /\ BufHolds(bytes', run'.past, run'.busy, entered', content', taken')
  <2> SUFFICES ASSUME ~meddled
               PROVE  run'.own /\ BufHolds(bytes', run'.past, run'.busy, entered', content', taken')
    BY <1>1
  <2>1. run.own /\ BufHolds(bytes, run.past, run.busy, entered, content, taken)
    BY <1>2 DEF Running
  <2>2. BufHolds(bytes', run'.past, run'.busy, entered',
                 SubSeq(content \o New(entered, n), m + 1, Len(content) + n),
                 IF drop = 0 THEN taken ELSE B!NoView)
    BY <1>8, <2>1
  <2> QED BY <1>4, <1>6, <2>1, <2>2
<1>13. run'.cap <= Len(bytes') /\ (run'.own => run'.cap = Len(bytes')) /\ meddled' \in BOOLEAN
  BY <1>1, <1>3, <1>6, <1>9
<1>14. Running'
  BY <1>6, <1>10, <1>11, <1>12, <1>13 DEF Running
<1> QED BY <1>14 DEF BufInv

\* It ends.
LEMMA EndStep ==
    ASSUME BufInv, NEW ok \in BOOLEAN, B!repackEnd(ok)
    PROVE  BufInv'
<1>1. /\ run.on /\ data' = run.past /\ idle' = run.busy /\ run' = B!NoRun /\ meddled' = FALSE
      /\ content' = IF meddled THEN SubSeq(bytes, run.past + 1, run.busy) ELSE content
      /\ UNCHANGED <<bytes, entered, taken>>
  BY DEF B!repackEnd, B!BufBack
<1>2. Running
  BY <1>1 DEF BufInv, AtRest, B!NoRun
<1>3. BufHolds(bytes, run.past, run.busy, entered, content', taken')
  <2>1. CASE meddled
    <3>1. Shaped(bytes, run.past, run.busy, entered)
      <4>1. /\ run \in Runs /\ run.past <= run.busy /\ run.busy <= run.cap
            /\ run.cap <= Len(bytes) /\ Shaped(bytes, data, idle, entered)
        BY <1>2 DEF Running
      <4>2. run.past \in Nat /\ run.busy \in Nat /\ run.cap \in Nat /\ Len(bytes) \in Nat
        BY <4>1, LenProperties DEF Runs, Shaped
      <4> QED BY <4>1, <4>2 DEF Shaped
    <3>2. BufHolds(bytes, run.past, run.busy, entered,
                   SubSeq(bytes, run.past + 1, run.busy), B!NoView)
      BY <3>1, CutHolds
    <3>3. taken = B!NoView
      BY <1>2, <2>1 DEF Running
    <3> QED BY <1>1, <2>1, <3>2, <3>3
  <2>2. CASE ~meddled
    BY <1>1, <1>2, <2>2 DEF Running
  <2> QED BY <2>1, <2>2
<1>4. BufHolds(bytes', data', idle', entered', content', taken')
  BY <1>1, <1>3
<1> QED BY <1>1, <1>4 DEF BufInv, AtRest

\* The program, or a handler, calls; a handler's call ends the histories.
LEMMA CalledStep ==
    ASSUME BufInv, meddled' = run.on,
           \/ B!Calls /\ run' = run
           \/ \E n \in Cap .. MaxCap : B!grow(n) /\ run' = [run EXCEPT !.own = FALSE]
    PROVE  BufInv'
<1>1. ASSUME NEW c, NEW v, BufHolds(bytes, data, idle, entered, c, v)
      PROVE  /\ CallOf(c, v)
             /\ (run' = run /\ Len(bytes') = Len(bytes)) \/ run' = [run EXCEPT !.own = FALSE]
  <2>1. ASSUME B!Calls PROVE CallOf(c, v) /\ Len(bytes') = Len(bytes)
    BY <1>1, <2>1, CallSteps
  <2>2. ASSUME NEW n \in Cap .. MaxCap, B!grow(n) PROVE CallOf(c, v)
    BY <1>1, <2>2, GrowStep
  <2> QED BY <2>1, <2>2
<1>2. CASE AtRest
  <2>1. /\ run = B!NoRun /\ ~run.on /\ BufHolds(bytes, data, idle, entered, content, taken)
    BY <1>2 DEF AtRest, B!NoRun
  <2>2. CallOf(content, taken)
    BY <1>1, <2>1
  <2>3. BufHolds(bytes', data', idle', entered', content', taken')
    BY <2>1, <2>2 DEF CallOf
  <2>4. run' = B!NoRun
    <3> DEFINE r == B!NoRun
               k == [r EXCEPT !.own = FALSE]
    <3>1. k = r
      <4>1. r \in Runs /\ r.own = FALSE
        BY DEF B!NoRun, Runs
      <4> HIDE DEF r
      <4>2. k \in Runs /\ k.own = r.own /\ k.on = r.on /\ k.past = r.past
            /\ k.busy = r.busy /\ k.cap = r.cap
        BY <4>1 DEF Runs
      <4> HIDE DEF k
      <4> QED BY <4>1, <4>2 DEF Runs
    <3>2. run' = run \/ run' = [run EXCEPT !.own = FALSE]
      BY <1>1, <2>1
    <3> QED BY <2>1, <3>1, <3>2
  <2>5. meddled' = FALSE
    BY <2>1 DEF B!NoRun
  <2> QED BY <2>3, <2>4, <2>5 DEF BufInv, AtRest
<1>3. CASE Running
  <2>1. /\ run \in Runs /\ run.on /\ Shaped(bytes, data, idle, entered)
        /\ run.past <= run.busy /\ run.busy <= run.cap /\ run.cap <= Len(bytes)
        /\ run.own => run.cap = Len(bytes)
    BY <1>3 DEF Running
  <2>2. BufHolds(bytes, data, idle, entered, SubSeq(bytes, data + 1, idle), B!NoView)
    BY <2>1, CutHolds
  <2>3. /\ CallOf(SubSeq(bytes, data + 1, idle), B!NoView)
        /\ (run' = run /\ Len(bytes') = Len(bytes)) \/ run' = [run EXCEPT !.own = FALSE]
    BY <1>1, <2>2
  <2>4. /\ content' = << >> /\ taken' = B!NoView /\ Len(bytes') >= Len(bytes)
        /\ Shaped(bytes', data', idle', entered')
    <3>1. PICK x, y : BufHolds(bytes', data', idle', entered', x, y)
      BY <2>3 DEF CallOf
    <3>2. Shaped(bytes', data', idle', entered')
      BY <3>1, HistoryIs
    <3> QED BY <2>1, <2>3, <3>2 DEF CallOf
  <2>5. /\ run' \in Runs /\ run'.on /\ run'.past = run.past /\ run'.busy = run.busy
        /\ run'.cap = run.cap /\ (run'.own => run.own /\ Len(bytes') = Len(bytes))
    <3>1. CASE run' = run /\ Len(bytes') = Len(bytes)
      BY <2>1, <3>1
    <3>2. CASE run' = [run EXCEPT !.own = FALSE]
      <4>1. run' \in Runs /\ run'.on = run.on /\ run'.own = FALSE
        BY <2>1, <3>2 DEF Runs
      <4>2. run'.past = run.past /\ run'.busy = run.busy /\ run'.cap = run.cap
        BY <2>1, <3>2 DEF Runs
      <4> QED BY <2>1, <4>1, <4>2
    <3> QED BY <2>3, <3>1, <3>2
  <2>6. run'.cap <= Len(bytes')
    <3>1. run.cap \in Nat /\ Len(bytes) \in Nat /\ Len(bytes') \in Nat
      BY <2>1, <2>4, LenProperties DEF Runs, Shaped
    <3> QED BY <2>1, <2>4, <2>5, <3>1
  <2>7. meddled' \in BOOLEAN /\ meddled'
    BY <2>1 DEF Runs
  <2>8. Running'
    BY <2>1, <2>4, <2>5, <2>6, <2>7 DEF Running
  <2> QED BY <2>8 DEF BufInv
<1> QED BY <1>2, <1>3 DEF BufInv

\* Every step of a program on a Buf keeps the invariant.
LEMMA BufStep ==
    ASSUME BufInv, B!BufNext
    PROVE  BufInv'
<1>1. ASSUME B!Calls /\ meddled' = run.on /\ UNCHANGED run PROVE BufInv'
  BY <1>1, CalledStep
<1>2. ASSUME NEW n \in Cap .. MaxCap,
             B!grow(n) /\ meddled' = run.on /\ run' = [run EXCEPT !.own = FALSE]
      PROVE  BufInv'
  BY <1>2, CalledStep
<1> QED BY <1>1, <1>2, BeginStep, RepackStep, EndStep DEF B!BufNext

-----------------------------------------------------------------------------
(* The invariant, and what follows from it.                                *)

PackInv == LogPart /\ BufInv

\* A program starts with no records, or with a raw record and a reference delta
\* that came in a pack: the write head is not set yet.
LEMMA InitHolds ==
    ASSUME Init
    PROVE  PackInv
<1>1. \/ mem = [i \in Offsets |-> None] /\ hdr = NoHdr /\ end = 0
      \/ \E o \in Objects, p \in Objects, d \in DeltaSizes :
            /\ mem = [i \in Offsets |->
                        IF i = 1 THEN Raw(o)
                        ELSE IF i = 2 THEN [Raw(p) EXCEPT !.kind = "ref", !.size = d]
                        ELSE None]
            /\ hdr = 2 /\ end = 3 /\ 2 <= MaxRecs
  BY DEF Init
<1>2. /\ watermark = 0 /\ count = 0 /\ read = 0 /\ rec = -1 /\ scratch = 0
      /\ out = <<>> /\ walks = 0 /\ family \in Families /\ grown = FALSE
      /\ wanted = {} /\ B!BufInit
  BY DEF Init
<1>3. MaxRecs \in Nat /\ MaxOut \in Nat /\ MaxInt \in Nat /\ MaxWalks \in Nat
  BY ConstantsAssumption
<1>4. None.kind = "none"
  BY DEF None
<1>5. /\ mem \in Memory /\ \A i \in Offsets : mem[i].kind # "ofs"
      /\ hdr \in NoHdr .. MaxRecs + 1 /\ end \in 0 .. MaxRecs + 1
      /\ \A i \in 0 .. end - 1 : i >= 1 => mem[i] # None
  <2>1. CASE mem = [i \in Offsets |-> None] /\ hdr = NoHdr /\ end = 0
    <3>1. mem \in Memory /\ \A i \in Offsets : mem[i] = None
      BY <2>1 DEF Memory
    <3>2. hdr \in NoHdr .. MaxRecs + 1 /\ end \in 0 .. MaxRecs + 1 /\ 0 .. end - 1 = {}
      BY <1>3, <2>1 DEF NoHdr
    <3> QED BY <1>4, <3>1, <3>2
  <2>2. ASSUME NEW o \in Objects, NEW p \in Objects, NEW d \in DeltaSizes,
               /\ mem = [i \in Offsets |->
                           IF i = 1 THEN Raw(o)
                           ELSE IF i = 2 THEN [Raw(p) EXCEPT !.kind = "ref", !.size = d]
                           ELSE None]
               /\ hdr = 2 /\ end = 3 /\ 2 <= MaxRecs
        PROVE  /\ mem \in Memory /\ \A i \in Offsets : mem[i].kind # "ofs"
               /\ hdr \in NoHdr .. MaxRecs + 1 /\ end \in 0 .. MaxRecs + 1
               /\ \A i \in 0 .. end - 1 : i >= 1 => mem[i] # None
    <3> DEFINE r == Raw(o)
               f == [Raw(p) EXCEPT !.kind = "ref", !.size = d]
    <3>1. o \in Nat /\ d \in Nat /\ p \in Nat
      BY ConstantsAssumption
    <3>2. r = [kind |-> "raw", base |-> NoBase, from |-> 0, object |-> o, size |-> o]
      BY DEF Raw
    <3>3. f = [kind |-> "ref", base |-> NoBase, from |-> 0, object |-> p, size |-> d]
      <4> DEFINE k == Raw(p)
      <4>1. k = [kind |-> "raw", base |-> NoBase, from |-> 0, object |-> p, size |-> p]
        BY DEF Raw
      <4>2. f = [k EXCEPT !.kind = "ref", !.size = d]
        OBVIOUS
      <4> HIDE DEF k, f
      <4> QED BY <4>1, <4>2
    <3> HIDE DEF r, f
    <3>4. r \in Recs /\ r.kind = "raw" /\ f \in Recs /\ f.kind = "ref"
      BY <3>1, <3>2, <3>3 DEF Recs
    <3>5. mem = [i \in Offsets |-> IF i = 1 THEN r ELSE IF i = 2 THEN f ELSE None]
      BY <2>2 DEF r, f
    <3>6. mem \in Memory /\ \A i \in Offsets : mem[i].kind # "ofs"
      BY <1>4, <3>4, <3>5 DEF Memory
    <3>7. ASSUME NEW i \in 0 .. end - 1, i >= 1 PROVE mem[i] # None
      <4>1. i \in Offsets /\ (i = 1 \/ i = 2)
        BY <1>3, <2>2, <3>7 DEF Offsets
      <4>2. mem[i] = r \/ mem[i] = f
        BY <3>5, <4>1
      <4> QED BY <1>4, <3>4, <4>2
    <3>8. hdr \in NoHdr .. MaxRecs + 1 /\ end \in 0 .. MaxRecs + 1
      BY <1>3, <2>2 DEF NoHdr
    <3> QED BY <3>6, <3>7, <3>8
  <2> QED BY <1>1, <2>1, <2>2
<1>6. LogTypeOK
  <2>1. /\ watermark \in {0, end} /\ count \in 0 .. MaxRecs + 1 /\ read \in 0 .. MaxRecs + 1
        /\ rec \in {-1} \cup Live /\ scratch \in 0 .. MaxInt /\ walks \in 0 .. MaxWalks
    BY <1>2, <1>3
  <2>2. out \in Seq(Entries) /\ Len(out) <= MaxOut
    BY <1>2, <1>3
  <2> QED BY <1>2, <1>5, <2>1, <2>2 DEF LogTypeOK
<1>7. RecordInv
  <2>1. Backward(mem)
    BY <1>5 DEF Backward
  <2>2. \A i \in 0 .. end - 1 : i \in Offsets
    BY <1>3, <1>5 DEF Offsets
  <2>3. Deltas(mem, end)
    BY <1>5, <2>2 DEF Deltas
  <2>4. count <= watermark
    BY <1>2
  <2> QED BY <2>1, <2>3, <2>4 DEF RecordInv
<1>8. BooksExact
  <2>1. Len(out) = 0 /\ 1 .. 0 = {}
    BY <1>2
  <2> QED BY <1>2, <2>1 DEF BooksExact, IndexExact, CountExact
<1>9. BufInv
  BY <1>2, BufInitHolds
<1> QED BY <1>6, <1>7, <1>8, <1>9 DEF PackInv, LogPart

\* A step that leaves the pack log alone, and one that leaves the Buf alone.
LEMMA LogKept ==
    ASSUME LogPart, UNCHANGED <<pack, cursor, scratch, out, walks, grown, wanted, family>>
    PROVE  LogPart'
<1>1. /\ mem' = mem /\ hdr' = hdr /\ watermark' = watermark /\ end' = end
      /\ count' = count /\ read' = read
      /\ rec' = rec /\ scratch' = scratch /\ out' = out /\ walks' = walks /\ grown' = grown
      /\ wanted' = wanted /\ family' = family
  BY DEF pack, cursor
<1>2. LogTypeOK'
  BY <1>1 DEF LogPart, LogTypeOK, Live
<1>3. RecordInv'
  BY <1>1 DEF LogPart, RecordInv
<1>4. BooksExact'
  BY <1>1 DEF LogPart, BooksExact, IndexExact, CountExact, Entry1, Held
<1> QED BY <1>2, <1>3, <1>4 DEF LogPart

\* A step about the log leaves the Buf alone.
LEMMA BufKept ==
    ASSUME BufInv, UNCHANGED apart
    PROVE  BufInv'
BY DEF BufInv, AtRest, Running, apart

\* Every step of the program keeps both.
LEMMA InvKept ==
    ASSUME PackInv, [Next]_vars
    PROVE  PackInv'
<1>1. LogPart /\ BufInv
  BY DEF PackInv
<1>2. ASSUME header \/ finish \/ build \/ setHead \/ scan \/ resolve \/ rewind \/ next
      PROVE  LogPart' /\ BufInv'
  <2>1. UNCHANGED apart
    BY <1>2 DEF header, finish, build, setHead, scan, resolve, rewind, next
  <2>2. BufInv'
    BY <1>1, <2>1, BufKept
  <2>3. LogPart'
    BY <1>1, <1>2, HeaderStep, FinishStep, OpenSteps, ScanStep, ReadSteps
  <2> QED BY <2>2, <2>3
<1>3. ASSUME NEW o \in Objects, NEW prev \in {NoBase} \cup Live, NEW emit \in BOOLEAN,
             feed(o, prev, emit)
      PROVE  LogPart' /\ BufInv'
  <2>1. UNCHANGED apart
    BY <1>3 DEF feed
  <2>2. BufInv'
    BY <1>1, <2>1, BufKept
  <2>3. LogPart'
    BY <1>1, <1>3, FeedStep
  <2> QED BY <2>2, <2>3
<1>4. ASSUME NEW off \in {0, 1, watermark}, seek(off) PROVE LogPart' /\ BufInv'
  <2>1. UNCHANGED apart
    BY <1>4 DEF seek
  <2>2. BufInv'
    BY <1>1, <2>1, BufKept
  <2>3. LogPart'
    BY <1>1, <1>4, ReadSteps
  <2> QED BY <2>2, <2>3
<1>5. ASSUME B!BufNext,
             UNCHANGED <<pack, cursor, scratch, out, walks, grown, wanted, family>>
      PROVE  LogPart' /\ BufInv'
  BY <1>1, <1>5, LogKept, BufStep
<1>6. ASSUME UNCHANGED vars PROVE LogPart' /\ BufInv'
  <2>1. UNCHANGED <<pack, cursor, scratch, out, walks, grown, wanted, family>>
    BY <1>6 DEF vars, pack, cursor
  <2>2. UNCHANGED apart
    BY <1>6 DEF vars, apart
  <2> QED BY <1>1, <2>1, <2>2, LogKept, BufKept
<1>7. LogPart' /\ BufInv'
  BY <1>2, <1>3, <1>4, <1>5, <1>6 DEF Next
<1> QED BY <1>7 DEF PackInv

\* The invariant holds in every state.
LEMMA InvHolds == Spec => []PackInv
<1>1. Init => PackInv
  BY InitHolds
<1>2. PackInv /\ [Next]_vars => PackInv'
  BY InvKept
<1> QED BY <1>1, <1>2, PTL DEF Spec

\* What the invariant says of the types and of the properties.
LEMMA InvTypes ==
    ASSUME PackInv
    PROVE  TypeOK
<1>1. LogTypeOK /\ RecordInv /\ BufInv
  BY DEF PackInv, LogPart
<1>2. mem \in [Offsets -> Recs \cup {None}]
  BY <1>1 DEF LogTypeOK, Memory
<1>3. \A o \in 1 .. watermark - 1 : o \in Live
  BY <1>1, RecordsFollow DEF Walk
<1>4. rec \in {-1} \cup Offsets
  <2>1. \A o \in Live : o \in Offsets
    BY <1>1, LogNumbers
  <2>2. rec \in {-1} \cup Live
    BY <1>1 DEF LogTypeOK
  <2> QED BY <2>1, <2>2
<1>5. B!BufTypeOK
  BY <1>1, BufInvExact
<1> QED BY <1>1, <1>2, <1>3, <1>4, <1>5 DEF LogTypeOK, TypeOK

\* What the invariant says of resolve and of grow.
LEMMA InvResolves ==
    ASSUME PackInv
    PROVE  ResolveExact /\ GrowEnough
<1>1. LogTypeOK /\ RecordInv
  BY DEF PackInv, LogPart
<1>2. ResolveExact
  BY <1>1, LogResolves DEF ResolveExact
<1>3. GrowEnough
  <2> SUFFICES ASSUME NEW o \in Live, 2 * Takes(mem, o) <= MaxInt + 1
               PROVE  Fits(scratch, mem[o].size, Takes(mem, o)) # {}
    BY DEF GrowEnough
  <2>1. Takes(mem, o) \in Nat /\ mem[o].size \in Nat
    BY <1>1, LogResolves
  <2>2. scratch \in 0 .. MaxInt
    BY <1>1 DEF LogTypeOK
  <2> QED BY <2>1, <2>2, FitsReach
<1> QED BY <1>2, <1>3

-----------------------------------------------------------------------------
(* Theorems.                                                               *)

\* The state of a pack log and of a Buf keeps its type: offsets within the
\* buffer, a scratch within 32-bit numbers, cursors of the Buf in order and
\* within its array (cont.cpp PACK_PROTO, buf.cpp).
THEOREM PackTyped == Spec => []TypeOK
BY InvHolds, InvTypes, PTL

\* Any chain of deltas that the resolver does not refuse (at a reference delta, or
\* where a header was written over a record) resolves to the object that was fed at
\* its offset, over any history of feeds, with a header and without one, rewrites
\* and reopenings (PACKResolveOfs, feed and header of the pack log).
THEOREM ChainsResolve == Spec => []ResolveExact
BY InvHolds, InvResolves, PTL

\* The loop of _grow finds room, within the tries it has, for every chain whose
\* objects are below half of the largest 32-bit number, from any scratch and
\* whatever size the record's header says.
THEOREM ScratchGrowsEnough == Spec => []GrowEnough
BY InvHolds, InvResolves, PTL

\* The index Buf has the entries that feed and scan answered for, each naming the
\* object at its offset, and the count that finish() writes is the number of
\* records of a pack begun with header().
THEOREM BooksAgree == Spec => []BooksExact
<1>1. PackInv => BooksExact
  BY DEF PackInv, LogPart
<1> QED BY <1>1, InvHolds, PTL

\* DATA of a Buf is the payload its calls made, and the last view of take() shows
\* the bytes it was handed out with until PAST is reused, through fills, edits in
\* the middle (of its own bytes, too), compaction, growth, and ingests that fail,
\* between any two calls of their progress handler.
THEOREM BufsAreExact == Spec => []BufExact
BY InvHolds, BufInvExact, PTL DEF PackInv
=============================================================================
