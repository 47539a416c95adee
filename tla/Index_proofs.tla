----------------------------- MODULE Index_proofs -----------------------------
(***************************************************************************)
(* The index is a map, for any set of keys, any page size and any choice   *)
(* of the runs to merge: the proof that Index implements Kv, that a commit *)
(* saves all that get answers, and that a cursor delivers the table it was *)
(* opened on.                                                              *)
(*                                                                         *)
(* Both rest on what runs and memtable mean, never on how their rows lie:  *)
(* Mem is the table the memtable stands for, SavedIn the value a stack of  *)
(* runs has for a key.  Sorts leave Mem alone, a collapse leaves it alone, *)
(* a seal moves it into SavedIn, a merge leaves SavedIn alone.  Only drop  *)
(* needs more: that the values of a key ascend along the stack.            *)
(***************************************************************************)
EXTENDS Index, FiniteSetTheorems, FunctionTheorems, SequenceTheorems,
        NaturalsInduction, WellFoundedInduction, TLAPS

\* The memtable as a table: DATA over PAST.
MemOf(d, p) == Over(Deduped(d), p)
Mem == MemOf(data, past)

\* What a stack of runs has for a key.
SavedIn(rs, k) ==
    LET t == MergedFrom(rs, 1) IN IF k \in DOMAIN t THEN t[k] ELSE None

\* What a stack and a memtable have for a key.
ViewIn(rs, m, k) == IF k \in DOMAIN m THEN m[k] ELSE SavedIn(rs, k)

\* The youngest run that has the key, if there is one.
Youngest(rs, lo, k, m) ==
    /\ m \in lo .. Len(rs) /\ k \in DOMAIN rs[m]
    /\ \A j \in lo .. Len(rs) : k \in DOMAIN rs[j] => j <= m

\* No value of the table is older than one the runs have for its key.
NewerThan(t, rs) ==
    \A i \in 1 .. Len(rs) : \A k \in DOMAIN rs[i] \cap DOMAIN t : rs[i][k] <= t[k]

\* Along the stack the values of a key ascend.
Ascend(rs) ==
    \A i, j \in 1 .. Len(rs) :
        i < j => \A k \in DOMAIN rs[i] \cap DOMAIN rs[j] : rs[i][k] <= rs[j][k]

\* The values of a table are numbers of puts that were made.
UpTo(t, n) == \A k \in DOMAIN t : t[k] <= n

\* A stack and a memtable over it, at the n-th put.
Ages(rs, m, n) ==
    /\ Ascend(rs) /\ NewerThan(m, rs)
    /\ UpTo(m, n) /\ \A i \in 1 .. Len(rs) : UpTo(rs[i], n)

StoreOK ==
    /\ runs \in Seq(Tables) /\ past \in Tables /\ data \in Seq(Rows)
    /\ puts \in 0 .. MaxPut /\ drops \in 0 .. MaxDrop /\ deaths \in 0 .. MaxDeath
AgeInv == Ages(runs, Mem, puts)

\* The rows of a page: none is newer than what the page has for its key, none
\* older than what the runs have.  A death may leave any of them.
PageOf(p, d) == {<<k, p[k]>> : k \in DOMAIN p} \cup {d[i] : i \in 1 .. Len(d)}
RowsOK(rows, rs, m) ==
    \A r \in rows :
        /\ r[1] \in DOMAIN m /\ r[2] <= m[r[1]]
        /\ \A i \in 1 .. Len(rs) : r[1] \in DOMAIN rs[i] => rs[i][r[1]] <= r[2]
RowInv == RowsOK(PageRows, runs, Mem)
IndexInv == StoreOK /\ AgeInv /\ RowInv

-----------------------------------------------------------------------------
(* Least and greatest.                                                     *)

\* A set of numbers that is not empty has a least element.
LEMMA LeastIn ==
    ASSUME NEW S \in SUBSET Nat, S # {}
    PROVE  \E x \in S : \A y \in S : x <= y
<1> DEFINE R == {ss \in Nat \X Nat : ss[1] < ss[2]}
<1>1. IsWellFoundedOn(R, Nat)
  BY NatLessThanWellFounded, Zenon DEF OpToRel
<1>2. PICK x \in S : \A y \in S : ~(<<y, x>> \in R)
  BY <1>1, WFMin
<1>3. ASSUME NEW y \in S
      PROVE  x <= y
  <2>1. x \in Nat /\ y \in Nat
    OBVIOUS
  <2>2. ~(<<y, x>> \in R)
    BY <1>2
  <2>3. <<y, x>> \in Nat \X Nat
    BY <2>1
  <2>4. y < x => <<y, x>> \in R
    BY <2>3
  <2> QED BY <2>1, <2>2, <2>4
<1> QED BY <1>3

\* A set of positions that is not empty has a greatest: the one the mirrored
\* set has as its least.
LEMMA GreatestIn ==
    ASSUME NEW n \in Nat, NEW S \in SUBSET (1 .. n), S # {}
    PROVE  \E x \in S : \A y \in S : y <= x
<1> DEFINE T == {i \in 0 .. n : n - i \in S}
<1>1. T \in SUBSET Nat
  OBVIOUS
<1>2. T # {}
  <2>1. PICK y \in S : TRUE
    OBVIOUS
  <2>2. y \in 1 .. n /\ n - y \in 0 .. n /\ n - (n - y) = y
    OBVIOUS
  <2> QED BY <2>2
<1>3. PICK i \in T : \A j \in T : i <= j
  <2> HIDE DEF T
  <2> QED BY <1>1, <1>2, LeastIn
<1>4. ASSUME NEW y \in S PROVE y <= n - i
  <2>1. y \in 1 .. n /\ n - y \in 0 .. n /\ n - (n - y) = y
    OBVIOUS
  <2>2. n - y \in T
    BY <2>1
  <2>3. i <= n - y /\ i \in 0 .. n
    BY <1>3, <2>2
  <2> QED BY <2>1, <2>3
<1> QED BY <1>3, <1>4

-----------------------------------------------------------------------------
(* Tables and their merge.                                                 *)

\* A table is a function from some keys to values, and any such function is.
LEMMA TableShape ==
    /\ \A t \in Tables : DOMAIN t \subseteq Keys /\ t \in [DOMAIN t -> Vals]
    /\ \A ks \in SUBSET Keys : \A t \in [ks -> Vals] : t \in Tables
BY DEF Tables

\* The members of a stack of tables.
LEMMA RunShape ==
    ASSUME NEW rs \in Seq(Tables), NEW i \in 1 .. Len(rs)
    PROVE  rs[i] \in Tables /\ DOMAIN rs[i] \subseteq Keys
           /\ \A k \in DOMAIN rs[i] : rs[i][k] \in Vals
BY TableShape, ElementOfSeq

\* A key that some run has is in a youngest one, and there is only one such.
LEMMA YoungestExists ==
    ASSUME NEW rs \in Seq(Tables), NEW lo \in Nat \ {0}, NEW k,
           NEW i \in lo .. Len(rs), k \in DOMAIN rs[i]
    PROVE  \E m \in lo .. Len(rs) : Youngest(rs, lo, k, m)
<1> DEFINE n == Len(rs)
           S == {j \in lo .. n : k \in DOMAIN rs[j]}
<1>1. n \in Nat
  BY LenProperties
<1>2. S \in SUBSET (1 .. n) /\ i \in S
  BY <1>1
<1>3. PICK m \in S : \A j \in S : j <= m
  <2> HIDE DEF S
  <2> QED BY <1>1, <1>2, GreatestIn
<1> QED BY <1>3 DEF Youngest

\* The merge has the keys of its runs and for each the youngest value: what
\* jpup_merge makes of equal keys.
LEMMA MergeShape ==
    ASSUME NEW rs \in Seq(Tables), NEW lo \in 1 .. Len(rs) + 1
    PROVE  /\ MergedFrom(rs, lo) \in Tables
           /\ \A k : k \in DOMAIN MergedFrom(rs, lo)
                         <=> \E i \in lo .. Len(rs) : k \in DOMAIN rs[i]
           /\ \A k, m : Youngest(rs, lo, k, m) => MergedFrom(rs, lo)[k] = rs[m][k]
<1> DEFINE H(k) == {j \in lo .. Len(rs) : k \in DOMAIN rs[j]}
           D == {j \in Keys : H(j) # {}}
           t == [k \in D |-> rs[Winner(H(k))][k]]
<1>0. t = MergedFrom(rs, lo)
  BY DEF MergedFrom
<1>1. Len(rs) \in Nat /\ lo \in Nat \ {0}
  BY LenProperties
<1>2. \A k : k \in D <=> \E i \in lo .. Len(rs) : k \in DOMAIN rs[i]
  <2> TAKE k
  <2>1. ASSUME NEW i \in lo .. Len(rs), k \in DOMAIN rs[i] PROVE k \in D
    <3>1. i \in 1 .. Len(rs)
      BY <1>1
    <3>2. k \in Keys
      BY <2>1, <3>1, RunShape
    <3> QED BY <2>1, <3>2
  <2> QED BY <2>1
<1>3. ASSUME NEW k, NEW m, Youngest(rs, lo, k, m)
      PROVE  k \in D /\ Winner(H(k)) = m
  <2>1. m \in H(k) /\ \A j \in H(k) : j <= m
    BY <1>3 DEF Youngest
  <2>2. \A j \in H(k) : j \in Nat
    BY <1>1
  <2>3. k \in D
    BY <2>1, <1>2
  <2>4. \A j \in H(k) : (\A i \in H(k) : i <= j) => j = m
    BY <2>1, <2>2
  <2> QED BY <2>1, <2>3, <2>4 DEF Winner
<1>4. \A k, m : Youngest(rs, lo, k, m) => t[k] = rs[m][k]
  BY <1>3
<1>5. ASSUME NEW k \in D PROVE t[k] \in Vals
  <2>1. PICK i \in lo .. Len(rs) : k \in DOMAIN rs[i]
    BY <1>2
  <2>2. PICK m \in lo .. Len(rs) : Youngest(rs, lo, k, m)
    BY <1>1, <2>1, YoungestExists
  <2>3. m \in 1 .. Len(rs) /\ k \in DOMAIN rs[m]
    BY <1>1, <2>2 DEF Youngest
  <2>4. t[k] = rs[m][k]
    BY <1>4, <2>2
  <2> HIDE DEF t
  <2> QED BY <2>3, <2>4, RunShape
<1>6. t \in [D -> Vals]
  BY <1>5
<1>7. D \in SUBSET Keys /\ DOMAIN t = D
  OBVIOUS
<1> HIDE DEF t, D
<1>8. t \in Tables
  BY <1>6, <1>7, TableShape
<1> QED BY <1>0, <1>2, <1>4, <1>7, <1>8

\* What a stack has for a key: the value of the youngest run with the key.
LEMMA SavedShape ==
    ASSUME NEW rs \in Seq(Tables), NEW k
    PROVE  /\ \A m : Youngest(rs, 1, k, m) => SavedIn(rs, k) = rs[m][k]
           /\ (\A i \in 1 .. Len(rs) : k \notin DOMAIN rs[i]) => SavedIn(rs, k) = None
           /\ \/ \A i \in 1 .. Len(rs) : k \notin DOMAIN rs[i]
              \/ \E m \in 1 .. Len(rs) : Youngest(rs, 1, k, m)
<1>1. Len(rs) \in Nat /\ 1 \in 1 .. Len(rs) + 1 /\ 1 \in Nat \ {0}
  BY LenProperties
<1>2. /\ k \in DOMAIN MergedFrom(rs, 1)
            <=> \E i \in 1 .. Len(rs) : k \in DOMAIN rs[i]
      /\ \A m : Youngest(rs, 1, k, m) => MergedFrom(rs, 1)[k] = rs[m][k]
  BY <1>1, MergeShape
<1>3. \A m : Youngest(rs, 1, k, m) => m \in 1 .. Len(rs) /\ k \in DOMAIN rs[m]
  BY DEF Youngest
<1>4. \A m : Youngest(rs, 1, k, m) => SavedIn(rs, k) = rs[m][k]
  BY <1>2, <1>3 DEF SavedIn
<1>5. (\A i \in 1 .. Len(rs) : k \notin DOMAIN rs[i]) => SavedIn(rs, k) = None
  BY <1>2 DEF SavedIn
<1>6. \/ \A i \in 1 .. Len(rs) : k \notin DOMAIN rs[i]
      \/ \E m \in 1 .. Len(rs) : Youngest(rs, 1, k, m)
  BY <1>1, YoungestExists
<1> QED BY <1>4, <1>5, <1>6

\* The shape of a stack with one more run.
LEMMA PushShape ==
    ASSUME NEW rs \in Seq(Tables), NEW t \in Tables
    PROVE  /\ Append(rs, t) \in Seq(Tables)
           /\ Len(rs) \in Nat /\ Len(Append(rs, t)) = Len(rs) + 1
           /\ \A i \in 1 .. Len(rs) : Append(rs, t)[i] = rs[i]
           /\ Append(rs, t)[Len(rs) + 1] = t
BY AppendProperties, LenProperties

\* The shape of a stack's older part.
LEMMA OlderShape ==
    ASSUME NEW rs \in Seq(Tables), NEW n \in 0 .. Len(rs)
    PROVE  /\ SubSeq(rs, 1, n) \in Seq(Tables)
           /\ Len(SubSeq(rs, 1, n)) = n
           /\ \A i \in 1 .. n : SubSeq(rs, 1, n)[i] = rs[i]
<1> DEFINE q == SubSeq(rs, 1, n)
<1>1. Len(rs) \in Nat /\ n \in Int /\ 1 \in Int /\ n \in Nat /\ n <= Len(rs)
  BY LenProperties
<1>2. \A i \in 1 .. n : rs[i] \in Tables
  BY <1>1, ElementOfSeq
<1>3. /\ q \in Seq(Tables) /\ Len(q) = IF 1 <= n THEN n - 1 + 1 ELSE 0
      /\ \A i \in 1 .. n - 1 + 1 : q[i] = rs[1 + i - 1]
  BY <1>1, <1>2, SubSeqProperties
<1> HIDE DEF q
<1>4. Len(q) = n
  BY <1>1, <1>3
<1>5. \A i \in 1 .. n : q[i] = rs[i]
  <2> TAKE i \in 1 .. n
  <2>1. 1 + i - 1 = i /\ n - 1 + 1 = n
    BY <1>1
  <2> QED BY <1>3, <2>1
<1> QED BY <1>3, <1>4, <1>5 DEF q

\* A stack with one more run has that run's values, and under them its own.
LEMMA PushSaved ==
    ASSUME NEW rs \in Seq(Tables), NEW t \in Tables, NEW k
    PROVE  SavedIn(Append(rs, t), k) = ViewIn(rs, t, k)
<1> DEFINE q == Append(rs, t)
           n == Len(rs)
<1>1. /\ q \in Seq(Tables) /\ n \in Nat /\ Len(q) = n + 1
      /\ \A i \in 1 .. n : q[i] = rs[i]
      /\ q[n + 1] = t
  BY PushShape
<1> HIDE DEF q
<1>2. CASE k \in DOMAIN t
  <2>1. Youngest(q, 1, k, n + 1)
    BY <1>1, <1>2 DEF Youngest
  <2>2. SavedIn(q, k) = q[n + 1][k]
    BY <1>1, <2>1, SavedShape
  <2> QED BY <1>1, <1>2, <2>2 DEF q, ViewIn
<1>3. CASE k \notin DOMAIN t
  <2>1. ASSUME NEW m \in 1 .. n, Youngest(rs, 1, k, m)
        PROVE  SavedIn(q, k) = SavedIn(rs, k)
    <3>1. k \in DOMAIN q[m] /\ m \in 1 .. n + 1
      BY <1>1, <2>1 DEF Youngest
    <3>2. ASSUME NEW j \in 1 .. n + 1, k \in DOMAIN q[j] PROVE j <= m
      <4>1. j # n + 1
        BY <1>1, <1>3, <3>2
      <4>2. j \in 1 .. n
        BY <1>1, <4>1
      <4> QED BY <1>1, <2>1, <3>2, <4>2 DEF Youngest
    <3>3. Youngest(q, 1, k, m)
      BY <1>1, <3>1, <3>2 DEF Youngest
    <3>4. SavedIn(q, k) = q[m][k] /\ SavedIn(rs, k) = rs[m][k]
      BY <1>1, <2>1, <3>3, SavedShape
    <3> QED BY <1>1, <3>4
  <2>2. ASSUME \A i \in 1 .. n : k \notin DOMAIN rs[i]
        PROVE  SavedIn(q, k) = SavedIn(rs, k)
    <3>1. ASSUME NEW j \in 1 .. n + 1 PROVE k \notin DOMAIN q[j]
      <4>1. j = n + 1 \/ j \in 1 .. n
        BY <1>1
      <4> QED BY <1>1, <1>3, <2>2, <4>1
    <3>2. SavedIn(q, k) = None /\ SavedIn(rs, k) = None
      BY <1>1, <2>2, <3>1, SavedShape
    <3> QED BY <3>2
  <2> QED BY <1>3, <2>1, <2>2, SavedShape DEF ViewIn, q
<1> QED BY <1>2, <1>3

\* A merge of the youngest runs has, for its keys, what the whole stack has.
LEMMA MergeAgrees ==
    ASSUME NEW rs \in Seq(Tables), NEW lo \in 1 .. Len(rs),
           NEW k \in DOMAIN MergedFrom(rs, lo)
    PROVE  \E m \in lo .. Len(rs) :
               /\ Youngest(rs, 1, k, m)
               /\ MergedFrom(rs, lo)[k] = rs[m][k] /\ SavedIn(rs, k) = rs[m][k]
<1>1. Len(rs) \in Nat /\ lo \in Nat \ {0} /\ lo \in 1 .. Len(rs) + 1
  BY LenProperties
<1>2. PICK i \in lo .. Len(rs) : k \in DOMAIN rs[i]
  BY <1>1, MergeShape
<1>3. PICK m \in lo .. Len(rs) : Youngest(rs, lo, k, m)
  BY <1>1, <1>2, YoungestExists
<1>4. Youngest(rs, 1, k, m)
  <2>1. m \in 1 .. Len(rs) /\ k \in DOMAIN rs[m]
    BY <1>1, <1>3 DEF Youngest
  <2>2. ASSUME NEW j \in 1 .. Len(rs), k \in DOMAIN rs[j] PROVE j <= m
    <3>1. CASE j < lo
      BY <1>1, <3>1
    <3>2. CASE j >= lo
      <4>1. j \in lo .. Len(rs)
        BY <1>1, <3>2
      <4> QED BY <1>3, <2>2, <4>1 DEF Youngest
    <3> QED BY <1>1, <3>1, <3>2
  <2> QED BY <2>1, <2>2 DEF Youngest
<1>5. MergedFrom(rs, lo)[k] = rs[m][k]
  BY <1>1, <1>3, MergeShape
<1>6. SavedIn(rs, k) = rs[m][k]
  BY <1>4, SavedShape
<1> QED BY <1>4, <1>5, <1>6

\* A merge pushed onto its own stack, as a crash may leave it, says nothing new.
LEMMA MergePushed ==
    ASSUME NEW rs \in Seq(Tables), NEW lo \in 1 .. Len(rs), NEW k
    PROVE  SavedIn(Append(rs, MergedFrom(rs, lo)), k) = SavedIn(rs, k)
<1>1. MergedFrom(rs, lo) \in Tables
  <2>1. Len(rs) \in Nat /\ lo \in 1 .. Len(rs) + 1
    BY LenProperties
  <2> QED BY <2>1, MergeShape
<1>2. k \in DOMAIN MergedFrom(rs, lo) => MergedFrom(rs, lo)[k] = SavedIn(rs, k)
  BY MergeAgrees
<1> QED BY <1>1, <1>2, PushSaved DEF ViewIn

\* The ladder: the youngest runs replaced by their merge say what they said.
LEMMA MergeSaved ==
    ASSUME NEW rs \in Seq(Tables), NEW lo \in 1 .. Len(rs), NEW k
    PROVE  SavedIn(Append(SubSeq(rs, 1, lo - 1), MergedFrom(rs, lo)), k)
               = SavedIn(rs, k)
<1> DEFINE q == SubSeq(rs, 1, lo - 1)
           t == MergedFrom(rs, lo)
           n == Len(rs)
<1>1. n \in Nat /\ lo \in Nat \ {0} /\ lo <= n /\ lo \in 1 .. n + 1 /\ lo - 1 \in 0 .. n
  BY LenProperties
<1>2. t \in Tables /\ (k \in DOMAIN t <=> \E i \in lo .. n : k \in DOMAIN rs[i])
  BY <1>1, MergeShape
<1>3. q \in Seq(Tables) /\ Len(q) = lo - 1 /\ \A i \in 1 .. lo - 1 : q[i] = rs[i]
  BY <1>1, OlderShape
<1>4. SavedIn(Append(q, t), k) = ViewIn(q, t, k)
  <2> HIDE DEF q, t
  <2> QED BY <1>2, <1>3, PushSaved
<1>5. CASE k \in DOMAIN t
  BY <1>4, <1>5, MergeAgrees DEF ViewIn
<1>6. CASE k \notin DOMAIN t
  <2> HIDE DEF q, t
  <2>1. SavedIn(Append(q, t), k) = SavedIn(q, k)
    BY <1>4, <1>6 DEF ViewIn
  <2>2. ASSUME NEW m \in 1 .. n, Youngest(rs, 1, k, m)
        PROVE  SavedIn(q, k) = SavedIn(rs, k)
    <3>1. m \notin lo .. n
      BY <1>2, <1>6, <2>2 DEF Youngest
    <3>2. m \in 1 .. lo - 1
      BY <1>1, <3>1
    <3>3. \A j \in 1 .. lo - 1 : j \in 1 .. n
      BY <1>1
    <3>4. Youngest(q, 1, k, m)
      BY <1>3, <2>2, <3>2, <3>3 DEF Youngest
    <3>5. SavedIn(q, k) = q[m][k] /\ SavedIn(rs, k) = rs[m][k]
      BY <1>3, <2>2, <3>4, SavedShape
    <3> QED BY <1>3, <3>2, <3>5
  <2>3. ASSUME \A i \in 1 .. n : k \notin DOMAIN rs[i]
        PROVE  SavedIn(q, k) = SavedIn(rs, k)
    <3>1. \A j \in 1 .. lo - 1 : j \in 1 .. n
      BY <1>1
    <3>2. SavedIn(q, k) = None /\ SavedIn(rs, k) = None
      BY <1>3, <2>3, <3>1, SavedShape
    <3> QED BY <3>2
  <2>4. SavedIn(q, k) = SavedIn(rs, k)
    BY <2>2, <2>3, SavedShape
  <2> QED BY <2>1, <2>4 DEF q, t
<1> QED BY <1>5, <1>6

-----------------------------------------------------------------------------
(* Ages: the order of the values of a key along the stack.                 *)

\* A run that is newer than the stack may be pushed onto it.
LEMMA PushAscends ==
    ASSUME NEW rs \in Seq(Tables), NEW t \in Tables, NEW p \in Nat,
           Ascend(rs), NewerThan(t, rs), UpTo(t, p),
           \A i \in 1 .. Len(rs) : UpTo(rs[i], p)
    PROVE  /\ Ascend(Append(rs, t))
           /\ \A i \in 1 .. Len(Append(rs, t)) : UpTo(Append(rs, t)[i], p)
<1> DEFINE q == Append(rs, t)
           n == Len(rs)
<1>1. /\ q \in Seq(Tables) /\ n \in Nat /\ Len(q) = n + 1
      /\ \A i \in 1 .. n : q[i] = rs[i]
      /\ q[n + 1] = t
  BY PushShape
<1> HIDE DEF q
<1>2. ASSUME NEW i \in 1 .. n + 1, NEW j \in 1 .. n + 1, i < j,
             NEW k \in DOMAIN q[i] \cap DOMAIN q[j]
      PROVE  q[i][k] <= q[j][k]
  <2>1. i \in 1 .. n /\ q[i] = rs[i]
    BY <1>1, <1>2
  <2>2. CASE j = n + 1
    BY <1>1, <1>2, <2>1, <2>2 DEF NewerThan
  <2>3. CASE j \in 1 .. n
    BY <1>1, <1>2, <2>1, <2>3 DEF Ascend
  <2> QED BY <1>1, <2>2, <2>3
<1>3. ASSUME NEW i \in 1 .. n + 1 PROVE UpTo(q[i], p)
  <2>1. i = n + 1 \/ i \in 1 .. n
    BY <1>1
  <2> QED BY <1>1, <2>1
<1>4. Ascend(q)
  BY <1>1, <1>2 DEF Ascend
<1> QED BY <1>1, <1>3, <1>4 DEF q

\* A merge takes the newest values the stack has, and no others.
LEMMA MergeNewest ==
    ASSUME NEW rs \in Seq(Tables), NEW lo \in 1 .. Len(rs), NEW p \in Nat,
           Ascend(rs), \A i \in 1 .. Len(rs) : UpTo(rs[i], p)
    PROVE  NewerThan(MergedFrom(rs, lo), rs) /\ UpTo(MergedFrom(rs, lo), p)
<1> DEFINE t == MergedFrom(rs, lo)
<1>1. Len(rs) \in Nat /\ lo \in Nat \ {0}
  BY LenProperties
<1>2. ASSUME NEW k \in DOMAIN t
      PROVE  /\ t[k] <= p
             /\ \A i \in 1 .. Len(rs) : k \in DOMAIN rs[i] => rs[i][k] <= t[k]
  <2>1. PICK m \in lo .. Len(rs) : Youngest(rs, 1, k, m) /\ t[k] = rs[m][k]
    BY MergeAgrees
  <2>2. m \in 1 .. Len(rs) /\ k \in DOMAIN rs[m]
    BY <2>1 DEF Youngest
  <2> HIDE DEF t
  <2>3. t[k] <= p
    BY <2>1, <2>2 DEF UpTo
  <2>4. ASSUME NEW i \in 1 .. Len(rs), k \in DOMAIN rs[i] PROVE rs[i][k] <= t[k]
    <3>1. i <= m
      BY <2>1, <2>4 DEF Youngest
    <3>2. CASE i = m
      <4>1. rs[m][k] \in Vals
        BY <2>2, RunShape
      <4>2. rs[m][k] \in Nat
        BY <4>1, ConstantsAssumption DEF Vals
      <4> QED BY <2>1, <3>2, <4>2
    <3>3. CASE i < m
      BY <2>1, <2>2, <2>4, <3>3 DEF Ascend
    <3> QED BY <1>1, <2>2, <3>1, <3>2, <3>3
  <2> QED BY <2>3, <2>4
<1> HIDE DEF t
<1>3. NewerThan(t, rs) /\ UpTo(t, p)
  BY <1>2 DEF NewerThan, UpTo
<1> QED BY <1>3 DEF t

\* A stack whose runs are runs of another one, in the same order.
Within(q, rs) ==
    \A i, j \in 1 .. Len(q) :
        i <= j => \E a, b \in 1 .. Len(rs) :
                      /\ q[i] = rs[a] /\ q[j] = rs[b]
                      /\ i < j => a < b

\* Losing runs brings older values to light, and none that was not there.
LEMMA WithinAges ==
    ASSUME NEW rs \in Seq(Tables), NEW q \in Seq(Tables), NEW p \in Nat,
           Within(q, rs), Ascend(rs), \A i \in 1 .. Len(rs) : UpTo(rs[i], p)
    PROVE  /\ Ascend(q) /\ \A i \in 1 .. Len(q) : UpTo(q[i], p)
           /\ \A t : NewerThan(t, rs) => NewerThan(t, q)
<1>1. Len(q) \in Nat /\ Len(rs) \in Nat
  BY LenProperties
<1>2. \A i \in 1 .. Len(q) : \E a \in 1 .. Len(rs) : q[i] = rs[a]
  BY <1>1 DEF Within
<1>3. Ascend(q)
  <2> SUFFICES ASSUME NEW i \in 1 .. Len(q), NEW j \in 1 .. Len(q), i < j,
                      NEW k \in DOMAIN q[i] \cap DOMAIN q[j]
               PROVE  q[i][k] <= q[j][k]
    BY DEF Ascend
  <2>1. i <= j
    BY <1>1
  <2>2. PICK a \in 1 .. Len(rs), b \in 1 .. Len(rs) :
            q[i] = rs[a] /\ q[j] = rs[b] /\ a < b
    BY <2>1 DEF Within
  <2> QED BY <2>2 DEF Ascend
<1>4. \A t : NewerThan(t, rs) => NewerThan(t, q)
  BY <1>2 DEF NewerThan
<1> QED BY <1>2, <1>3, <1>4

\* What a stack has for a key is the number of a put, or nothing.
LEMMA SavedRange ==
    ASSUME NEW rs \in Seq(Tables), NEW p \in Nat, NEW k,
           \A i \in 1 .. Len(rs) : UpTo(rs[i], p)
    PROVE  SavedIn(rs, k) \in 0 .. p
<1>1. CASE \A i \in 1 .. Len(rs) : k \notin DOMAIN rs[i]
  BY <1>1, SavedShape DEF None
<1>2. ASSUME NEW m \in 1 .. Len(rs), Youngest(rs, 1, k, m)
      PROVE  SavedIn(rs, k) \in 0 .. p
  <2>1. SavedIn(rs, k) = rs[m][k] /\ k \in DOMAIN rs[m]
    BY <1>2, SavedShape DEF Youngest
  <2>2. rs[m][k] \in Vals /\ rs[m][k] <= p
    BY <2>1, RunShape DEF UpTo
  <2>3. rs[m][k] \in Nat
    BY <2>2, ConstantsAssumption DEF Vals
  <2> QED BY <2>1, <2>2, <2>3
<1> QED BY <1>1, <1>2, SavedShape

\* Losing runs makes no value newer.
LEMMA WithinSaved ==
    ASSUME NEW rs \in Seq(Tables), NEW q \in Seq(Tables), NEW p \in Nat, NEW k,
           Within(q, rs), Ascend(rs), \A i \in 1 .. Len(rs) : UpTo(rs[i], p)
    PROVE  SavedIn(q, k) <= SavedIn(rs, k)
<1>0. Len(q) \in Nat /\ Len(rs) \in Nat /\ SavedIn(rs, k) \in 0 .. p
  BY LenProperties, SavedRange
<1>1. CASE \A i \in 1 .. Len(q) : k \notin DOMAIN q[i]
  <2>1. SavedIn(q, k) = 0
    BY <1>1, SavedShape DEF None
  <2> QED BY <1>0, <2>1
<1>2. ASSUME NEW m \in 1 .. Len(q), Youngest(q, 1, k, m)
      PROVE  SavedIn(q, k) <= SavedIn(rs, k)
  <2>1. SavedIn(q, k) = q[m][k] /\ k \in DOMAIN q[m]
    BY <1>2, SavedShape DEF Youngest
  <2>2. PICK a \in 1 .. Len(rs) : q[m] = rs[a]
    BY <1>0 DEF Within
  <2>3. PICK b \in 1 .. Len(rs) : Youngest(rs, 1, k, b)
    BY <2>1, <2>2, SavedShape
  <2>4. SavedIn(rs, k) = rs[b][k] /\ k \in DOMAIN rs[b] /\ a <= b
    BY <2>1, <2>2, <2>3, SavedShape DEF Youngest
  <2>5. CASE a = b
    <3>1. SavedIn(q, k) = SavedIn(rs, k)
      BY <2>1, <2>2, <2>4, <2>5
    <3> QED BY <1>0, <3>1
  <2>6. CASE a < b
    BY <2>1, <2>2, <2>4, <2>6 DEF Ascend
  <2> QED BY <2>4, <2>5, <2>6
<1> QED BY <1>1, <1>2, SavedShape

\* drop(i) leaves a stack within the old one, and so does drop().
LEMMA DropShape ==
    ASSUME NEW rs \in Seq(Tables)
    PROVE  /\ <<>> \in Seq(Tables) /\ Within(<<>>, rs)
           /\ \A i \in 1 .. Len(rs) :
                  /\ RemoveAt(rs, i) \in Seq(Tables) /\ Within(RemoveAt(rs, i), rs)
                  /\ Len(RemoveAt(rs, i)) = Len(rs) - 1
<1>1. <<>> \in Seq(Tables) /\ Within(<<>>, rs)
  BY DEF Within
<1>2. ASSUME NEW i \in 1 .. Len(rs)
      PROVE  /\ RemoveAt(rs, i) \in Seq(Tables) /\ Within(RemoveAt(rs, i), rs)
             /\ Len(RemoveAt(rs, i)) = Len(rs) - 1
  <2> DEFINE n == Len(rs)
             a == SubSeq(rs, 1, i - 1)
             b == SubSeq(rs, i + 1, n)
             q == a \o b
  <2>1. /\ n \in Nat /\ i \in Nat /\ i >= 1 /\ i <= n /\ i + 1 \in Int /\ n \in Int
        /\ i - 1 \in 0 .. n
    BY LenProperties
  <2>2. a \in Seq(Tables) /\ Len(a) = i - 1 /\ \A j \in 1 .. i - 1 : a[j] = rs[j]
    BY <2>1, OlderShape
  <2>3. /\ b \in Seq(Tables) /\ Len(b) = IF i + 1 <= n THEN n - (i + 1) + 1 ELSE 0
        /\ \A j \in 1 .. n - (i + 1) + 1 : b[j] = rs[i + 1 + j - 1]
    <3>1. \A j \in i + 1 .. n : rs[j] \in Tables
      BY <2>1, ElementOfSeq
    <3> QED BY <2>1, <3>1, SubSeqProperties
  <2> HIDE DEF n, a, b
  <2>4. Len(b) = n - i
    BY <2>1, <2>3
  <2>5. \A j \in 1 .. n - i : b[j] = rs[i + j]
    <3> TAKE j \in 1 .. n - i
    <3>1. n - (i + 1) + 1 = n - i /\ i + 1 + j - 1 = i + j
      BY <2>1
    <3> QED BY <2>3, <3>1
  <2>6. /\ q \in Seq(Tables) /\ Len(q) = Len(a) + Len(b)
        /\ \A j \in 1 .. Len(a) + Len(b) :
               q[j] = IF j <= Len(a) THEN a[j] ELSE b[j - Len(a)]
    BY <2>2, <2>3, ConcatProperties
  <2>7. Len(q) = n - 1
    BY <2>1, <2>2, <2>4, <2>6
  <2> HIDE DEF q
  <2>8. ASSUME NEW j \in 1 .. n - 1
        PROVE  q[j] = rs[IF j < i THEN j ELSE j + 1]
    <3>0. j \in 1 .. Len(a) + Len(b)
      BY <2>1, <2>2, <2>4
    <3>1. CASE j < i
      <4>1. j <= Len(a) /\ j \in 1 .. i - 1
        BY <2>1, <2>2, <3>1
      <4>2. q[j] = a[j] /\ a[j] = rs[j]
        BY <2>2, <2>6, <3>0, <4>1
      <4> QED BY <3>1, <4>2
    <3>2. CASE ~(j < i)
      <4>1. ~(j <= Len(a)) /\ j - Len(a) \in 1 .. n - i /\ i + (j - Len(a)) = j + 1
        BY <2>1, <2>2, <3>2
      <4>2. q[j] = b[j - Len(a)]
        BY <2>6, <3>0, <4>1
      <4>3. b[j - Len(a)] = rs[i + (j - Len(a))]
        BY <2>5, <4>1
      <4> QED BY <3>2, <4>1, <4>2, <4>3
    <3> QED BY <3>1, <3>2
  <2>9. Within(q, rs)
    <3> SUFFICES ASSUME NEW x \in 1 .. Len(q), NEW y \in 1 .. Len(q), x <= y
                 PROVE  \E u, v \in 1 .. Len(rs) :
                            /\ q[x] = rs[u] /\ q[y] = rs[v]
                            /\ x < y => u < v
      BY DEF Within
    <3>0. x \in 1 .. n - 1 /\ y \in 1 .. n - 1 /\ n = Len(rs)
      BY <2>7 DEF n
    <3> DEFINE P(z) == IF z < i THEN z ELSE z + 1
    <3>1. P(x) \in 1 .. n /\ P(y) \in 1 .. n /\ (x < y => P(x) < P(y))
      BY <2>1, <3>0
    <3>2. q[x] = rs[P(x)] /\ q[y] = rs[P(y)]
      BY <2>8, <3>0
    <3> HIDE DEF P
    <3> QED BY <3>0, <3>1, <3>2
  <2>10. RemoveAt(rs, i) = q
    BY DEF RemoveAt, q, a, b, n
  <2> QED BY <2>6, <2>7, <2>9, <2>10 DEF q, n
<1> QED BY <1>1, <1>2

-----------------------------------------------------------------------------
(* The memtable as a table.                                                *)

\* The last row of a key: the one dedup keeps.
LEMMA LastRow ==
    ASSUME NEW s \in Seq(Rows), NEW i \in 1 .. Len(s)
    PROVE  \E m \in 1 .. Len(s) : KeptRow(s, m) /\ s[m][1] = s[i][1]
<1> DEFINE n == Len(s)
           S == {j \in 1 .. n : s[j][1] = s[i][1]}
<1>1. n \in Nat
  BY LenProperties
<1>2. S \in SUBSET (1 .. n) /\ i \in S
  OBVIOUS
<1>3. PICK m \in S : \A j \in S : j <= m
  <2> HIDE DEF S
  <2> QED BY <1>1, <1>2, GreatestIn
<1>4. ASSUME NEW j \in m + 1 .. n, s[j][1] = s[m][1] PROVE FALSE
  <2>1. j \in 1 .. n /\ j > m
    BY <1>1
  <2>2. j \in S
    BY <1>4, <2>1
  <2> QED BY <1>1, <1>3, <2>1, <2>2
<1> QED BY <1>3, <1>4 DEF KeptRow

\* DATA as a table: the keys of its rows, each with its last row.
LEMMA DedupShape ==
    ASSUME NEW s \in Seq(Rows)
    PROVE  /\ Deduped(s) \in Tables
           /\ \A k : k \in DOMAIN Deduped(s) <=> \E i \in 1 .. Len(s) : s[i][1] = k
           /\ \A i \in 1 .. Len(s) : KeptRow(s, i) => Deduped(s)[s[i][1]] = s[i][2]
<1> DEFINE K == {i \in 1 .. Len(s) : KeptRow(s, i)}
           D == {s[i][1] : i \in K}
           t == [k \in D |-> s[CHOOSE i \in K : s[i][1] = k][2]]
<1>0. t = Deduped(s) /\ DOMAIN t = D
  BY DEF Deduped
<1>1. Len(s) \in Nat /\ \A i \in 1 .. Len(s) : s[i][1] \in Keys /\ s[i][2] \in Vals
  BY LenProperties, ElementOfSeq DEF Rows
<1>2. \A k : k \in D <=> \E i \in 1 .. Len(s) : s[i][1] = k
  BY LastRow
<1>3. ASSUME NEW i \in K, NEW j \in K, s[i][1] = s[j][1] PROVE i = j
  <2>1. ~(i < j) /\ ~(j < i)
    BY <1>1, <1>3 DEF KeptRow
  <2> QED BY <1>1, <2>1
<1>4. ASSUME NEW i \in K PROVE t[s[i][1]] = s[i][2]
  <2> DEFINE c == CHOOSE j \in K : s[j][1] = s[i][1]
  <2>1. c \in K /\ s[c][1] = s[i][1]
    OBVIOUS
  <2>2. c = i
    <3> HIDE DEF c, K
    <3> QED BY <1>3, <2>1
  <2>3. t[s[i][1]] = s[c][2]
    OBVIOUS
  <2> HIDE DEF c, t
  <2> QED BY <2>2, <2>3
<1>5. t \in [D -> Vals]
  <2>1. ASSUME NEW k \in D PROVE t[k] \in Vals
    <3>1. PICK i \in K : s[i][1] = k
      OBVIOUS
    <3>2. t[k] = s[i][2] /\ i \in 1 .. Len(s)
      BY <1>4, <3>1
    <3> HIDE DEF t
    <3> QED BY <1>1, <3>2
  <2> QED BY <2>1
<1>6. D \in SUBSET Keys
  BY <1>1
<1> HIDE DEF t, D
<1>7. t \in Tables
  BY <1>5, <1>6, TableShape
<1> QED BY <1>0, <1>2, <1>4, <1>7

\* DATA over PAST, as a table.
LEMMA MemShape ==
    ASSUME NEW d \in Seq(Rows), NEW p \in Tables
    PROVE  /\ MemOf(d, p) \in Tables
           /\ DOMAIN MemOf(d, p) = DOMAIN Deduped(d) \cup DOMAIN p
           /\ \A k \in DOMAIN Deduped(d) : MemOf(d, p)[k] = Deduped(d)[k]
           /\ \A k \in DOMAIN p \ DOMAIN Deduped(d) : MemOf(d, p)[k] = p[k]
<1> DEFINE y == Deduped(d)
           D == DOMAIN y \cup DOMAIN p
           t == [k \in D |-> IF k \in DOMAIN y THEN y[k] ELSE p[k]]
<1>1. t = MemOf(d, p)
  BY DEF MemOf, Over
<1>2. y \in Tables
  BY DedupShape
<1> HIDE DEF y
<1>3. /\ DOMAIN y \subseteq Keys /\ y \in [DOMAIN y -> Vals]
      /\ DOMAIN p \subseteq Keys /\ p \in [DOMAIN p -> Vals]
  BY <1>2, TableShape
<1>4. t \in [D -> Vals] /\ D \in SUBSET Keys
  BY <1>3
<1>5. t \in Tables
  <2> HIDE DEF t, D
  <2> QED BY <1>4, TableShape
<1>6. /\ DOMAIN t = D
      /\ \A k \in DOMAIN y : t[k] = y[k]
      /\ \A k \in DOMAIN p \ DOMAIN y : t[k] = p[k]
  OBVIOUS
<1> HIDE DEF t
<1> QED BY <1>1, <1>5, <1>6 DEF y, D

\* An empty DATA leaves PAST, as after a collapse; two empty ones are nothing.
LEMMA MemEmpty ==
    /\ Empty \in Tables /\ DOMAIN Empty = {}
    /\ \A p \in Tables : MemOf(<<>>, p) = p
<1>1. Empty \in [{} -> Vals] /\ DOMAIN Empty = {}
  BY DEF Empty
<1>2. Empty \in Tables
  BY <1>1, TableShape
<1>3. ASSUME NEW p \in Tables PROVE MemOf(<<>>, p) = p
  <2>1. <<>> \in Seq(Rows) /\ Len(<<>>) = 0
    OBVIOUS
  <2>2. DOMAIN Deduped(<<>>) = {}
    <3>1. \A k : k \in DOMAIN Deduped(<<>>)
                     <=> \E i \in 1 .. Len(<<>>) : <<>>[i][1] = k
      BY <2>1, DedupShape
    <3>2. 1 .. Len(<<>>) = {}
      BY <2>1
    <3>3. \A k : k \notin DOMAIN Deduped(<<>>)
      BY <3>1, <3>2, Zenon
    <3> QED BY <3>3
  <2>3. p = [k \in DOMAIN p |-> p[k]]
    BY TableShape
  <2> QED BY <2>2, <2>3 DEF MemOf, Over
<1> QED BY <1>1, <1>2, <1>3

\* A put changes the memtable's value of its key, and of no other.
LEMMA MemPut ==
    ASSUME NEW d \in Seq(Rows), NEW p \in Tables, NEW r \in Rows
    PROVE  /\ Append(d, r) \in Seq(Rows)
           /\ MemOf(Append(d, r), p) \in Tables
           /\ DOMAIN MemOf(Append(d, r), p) = DOMAIN MemOf(d, p) \cup {r[1]}
           /\ MemOf(Append(d, r), p)[r[1]] = r[2]
           /\ \A j \in DOMAIN MemOf(d, p) \ {r[1]} :
                  MemOf(Append(d, r), p)[j] = MemOf(d, p)[j]
<1> DEFINE e == Append(d, r)
           n == Len(d)
           k == r[1]
           v == r[2]
<1>0. r[1] = k /\ r[2] = v
  OBVIOUS
<1> HIDE DEF k, v
<1>1. /\ e \in Seq(Rows) /\ n \in Nat /\ Len(e) = n + 1
      /\ \A i \in 1 .. n : e[i] = d[i]
      /\ e[n + 1] = r
  BY <1>0, AppendProperties, LenProperties
<1> HIDE DEF e
<1>2. \A j : j \in DOMAIN Deduped(e) <=> j \in DOMAIN Deduped(d) \/ j = k
  <2> TAKE j
  <2>1. j \in DOMAIN Deduped(e) <=> \E i \in 1 .. n + 1 : e[i][1] = j
    BY <1>1, DedupShape
  <2>2. j \in DOMAIN Deduped(d) <=> \E i \in 1 .. n : d[i][1] = j
    BY DedupShape
  <2>3. ASSUME NEW i \in 1 .. n, d[i][1] = j PROVE \E h \in 1 .. n + 1 : e[h][1] = j
    BY <1>1, <2>3
  <2>4. ASSUME NEW i \in 1 .. n + 1, e[i][1] = j, j # k
        PROVE  \E h \in 1 .. n : d[h][1] = j
    <3>1. i # n + 1
      BY <1>0, <1>1, <2>4
    <3>2. i \in 1 .. n
      BY <1>1, <3>1
    <3> QED BY <1>1, <2>4, <3>2
  <2>5. e[n + 1][1] = k /\ n + 1 \in 1 .. n + 1
    BY <1>0, <1>1
  <2> QED BY <2>1, <2>2, <2>3, <2>4, <2>5
<1>3. Deduped(e)[k] = v
  <2>1. KeptRow(e, n + 1)
    BY <1>1 DEF KeptRow
  <2>2. n + 1 \in 1 .. Len(e)
    BY <1>1
  <2> QED BY <1>0, <1>1, <2>1, <2>2, DedupShape
<1>4. ASSUME NEW j \in DOMAIN Deduped(d), j # k
      PROVE  Deduped(e)[j] = Deduped(d)[j]
  <2>1. PICK i \in 1 .. n : d[i][1] = j
    BY DedupShape
  <2>2. PICK m \in 1 .. n : KeptRow(d, m) /\ d[m][1] = j
    BY <2>1, LastRow
  <2>3. Deduped(d)[j] = d[m][2]
    BY <2>2, DedupShape
  <2>4. ASSUME NEW h \in m + 1 .. n + 1 PROVE e[h][1] # e[m][1]
    <3>0. e[m] = d[m]
      BY <1>1
    <3>1. CASE h = n + 1
      BY <1>0, <1>1, <1>4, <2>2, <3>0, <3>1
    <3>2. CASE h # n + 1
      <4>1. h \in m + 1 .. n /\ h \in 1 .. n
        BY <1>1, <3>2
      <4> QED BY <1>1, <2>2, <3>0, <4>1 DEF KeptRow
    <3> QED BY <3>1, <3>2
  <2>5. KeptRow(e, m)
    BY <1>1, <2>4 DEF KeptRow
  <2>6. m \in 1 .. Len(e) /\ e[m] = d[m]
    BY <1>1
  <2> QED BY <1>1, <2>2, <2>3, <2>5, <2>6, DedupShape
<1>5. /\ DOMAIN MemOf(d, p) = DOMAIN Deduped(d) \cup DOMAIN p
      /\ \A j \in DOMAIN Deduped(d) : MemOf(d, p)[j] = Deduped(d)[j]
      /\ \A j \in DOMAIN p \ DOMAIN Deduped(d) : MemOf(d, p)[j] = p[j]
  BY MemShape
<1>6. /\ MemOf(e, p) \in Tables
      /\ DOMAIN MemOf(e, p) = DOMAIN Deduped(e) \cup DOMAIN p
      /\ \A j \in DOMAIN Deduped(e) : MemOf(e, p)[j] = Deduped(e)[j]
      /\ \A j \in DOMAIN p \ DOMAIN Deduped(e) : MemOf(e, p)[j] = p[j]
  BY <1>1, MemShape
<1>7. DOMAIN MemOf(e, p) = DOMAIN MemOf(d, p) \cup {k}
  BY <1>2, <1>5, <1>6
<1>8. MemOf(e, p)[k] = v
  BY <1>2, <1>3, <1>6
<1>9. ASSUME NEW j \in DOMAIN MemOf(d, p) \ {k}
      PROVE  MemOf(e, p)[j] = MemOf(d, p)[j]
  <2>1. CASE j \in DOMAIN Deduped(d)
    BY <1>2, <1>4, <1>5, <1>6, <2>1
  <2>2. CASE j \notin DOMAIN Deduped(d)
    BY <1>2, <1>5, <1>6, <2>2
  <2> QED BY <2>1, <2>2
<1> QED BY <1>0, <1>1, <1>6, <1>7, <1>8, <1>9 DEF e

-----------------------------------------------------------------------------
(* Sorting DATA does not change what it says.                              *)

\* A finite set of keys can be counted off in ascending order: its least key
\* first, then the others (by least counterexample on the number of keys).
LEMMA CountOff ==
    ASSUME NEW S \in SUBSET Nat, IsFiniteSet(S)
    PROVE  \E f \in [1 .. Cardinality(S) -> S] :
               \A i, j \in 1 .. Cardinality(S) : i < j => f[i] < f[j]
<1> DEFINE Good(T) == \E f \in [1 .. Cardinality(T) -> T] :
                          \A i, j \in 1 .. Cardinality(T) : i < j => f[i] < f[j]
           Bad == {n \in Nat : \E T \in SUBSET Nat : /\ IsFiniteSet(T)
                                                     /\ Cardinality(T) = n
                                                     /\ ~Good(T)}
<1> HIDE DEF Good
<1> SUFFICES ASSUME ~Good(S) PROVE FALSE
  BY DEF Good
<1>1. Cardinality(S) \in Bad
  BY FS_CardinalityType
<1>2. PICK n \in Bad : \A m \in Bad : n <= m
  <2>1. Bad \in SUBSET Nat /\ Bad # {}
    BY <1>1
  <2> HIDE DEF Bad
  <2> QED BY <2>1, LeastIn
<1>3. PICK T \in SUBSET Nat : IsFiniteSet(T) /\ Cardinality(T) = n /\ ~Good(T)
  BY <1>2
<1>4. n \in Nat
  BY <1>2
<1>5. T # {}
  <2> SUFFICES ASSUME T = {} PROVE FALSE
    OBVIOUS
  <2>1. Cardinality(T) = 0
    BY <1>3, FS_EmptySet
  <2>2. 1 .. Cardinality(T) = {}
    BY <2>1
  <2>3. [i \in {} |-> 0] \in [1 .. Cardinality(T) -> T]
    BY <2>2
  <2> QED BY <1>3, <2>2, <2>3 DEF Good
<1>6. PICK x \in T : \A y \in T : x <= y
  BY <1>5, LeastIn
<1> DEFINE U == T \ {x}
<1>7. IsFiniteSet(U) /\ Cardinality(U) = n - 1 /\ n - 1 \in Nat
  <2>1. IsFiniteSet(U) /\ Cardinality(U) = n - 1
    BY <1>3, <1>6, FS_RemoveElement
  <2>2. Cardinality(U) \in Nat
    BY <2>1, FS_CardinalityType
  <2> QED BY <2>1, <2>2
<1>8. Good(U)
  <2> SUFFICES ASSUME ~Good(U) PROVE FALSE
    OBVIOUS
  <2>1. U \in SUBSET Nat
    OBVIOUS
  <2>2. n - 1 \in Bad
    BY <1>7, <2>1
  <2>3. n <= n - 1
    BY <1>2, <2>2
  <2> QED BY <1>4, <2>3
<1>9. PICK g \in [1 .. n - 1 -> U] : \A i, j \in 1 .. n - 1 : i < j => g[i] < g[j]
  BY <1>7, <1>8 DEF Good
<1> DEFINE f == [i \in 1 .. n |-> IF i = 1 THEN x ELSE g[i - 1]]
<1>10. \A i \in 1 .. n : i # 1 => i - 1 \in 1 .. n - 1
  BY <1>4
<1>11. f \in [1 .. n -> T]
  BY <1>9, <1>10
<1>12. ASSUME NEW i \in 1 .. n, NEW j \in 1 .. n, i < j PROVE f[i] < f[j]
  <2>0. j # 1 /\ j - 1 \in 1 .. n - 1 /\ f[j] = g[j - 1]
    BY <1>4, <1>10, <1>12
  <2>1. CASE i = 1
    <3>1. f[i] = x /\ g[j - 1] \in U
      BY <1>9, <2>0, <2>1
    <3>2. x \in Nat /\ f[j] \in Nat /\ f[j] # x /\ x <= f[j]
      BY <1>6, <2>0, <3>1
    <3> HIDE DEF f
    <3> QED BY <3>1, <3>2
  <2>2. CASE i # 1
    <3>1. i - 1 \in 1 .. n - 1 /\ f[i] = g[i - 1] /\ i - 1 < j - 1
      BY <1>4, <1>10, <1>12, <2>2
    <3> HIDE DEF f
    <3> QED BY <1>9, <2>0, <3>1
  <2> QED BY <2>1, <2>2
<1>13. Good(T)
  <2> HIDE DEF f
  <2> QED BY <1>3, <1>11, <1>12 DEF Good
<1> QED BY <1>3, <1>13

\* The rows of a table in key order are rows of the table, one for each key.
LEMMA OrderedShape ==
    ASSUME NEW t \in Tables
    PROVE  /\ Ordered(t) \in Seq(Rows) /\ Len(Ordered(t)) = Cardinality(DOMAIN t)
           /\ \A i \in 1 .. Len(Ordered(t)) :
                  Ordered(t)[i][1] \in DOMAIN t /\ Ordered(t)[i][2] = t[Ordered(t)[i][1]]
           /\ \A k \in DOMAIN t : \E i \in 1 .. Len(Ordered(t)) : Ordered(t)[i][1] = k
           /\ \A i, j \in 1 .. Len(Ordered(t)) :
                  i < j => Ordered(t)[i][1] < Ordered(t)[j][1]
<1> DEFINE D == DOMAIN t
           n == Cardinality(D)
           R == {<<k, t[k]>> : k \in D}
           s == Ordered(t)
<1>1. D \in SUBSET Nat /\ IsFiniteSet(D) /\ n \in Nat /\ D \subseteq Keys
      /\ t \in [D -> Vals]
  <2>1. D \in SUBSET Keys /\ t \in [D -> Vals]
    BY TableShape
  <2>2. IsFiniteSet(D)
    BY <2>1, ConstantsAssumption, FS_Subset
  <2> QED BY <2>1, <2>2, ConstantsAssumption, FS_CardinalityType
<1> HIDE DEF n, D
<1>2. PICK f \in [1 .. n -> D] : \A i, j \in 1 .. n : i < j => f[i] < f[j]
  BY <1>1, CountOff DEF n
<1> DEFINE g == [i \in 1 .. n |-> <<f[i], t[f[i]]>>]
<1>3. g \in [1 .. n -> R] /\ \A i, j \in DOMAIN g : i < j => g[i][1] < g[j][1]
  BY <1>2
<1>4. s \in [1 .. n -> R] /\ \A i, j \in DOMAIN s : i < j => s[i][1] < s[j][1]
  <2> HIDE DEF g
  <2> QED BY <1>3 DEF Ordered, n, D
<1> HIDE DEF s, g
<1>5. R \subseteq Rows /\ \A r \in R : r[1] \in D /\ r[2] = t[r[1]]
  BY <1>1 DEF Rows
<1>6. s \in Seq(Rows) /\ Len(s) = n
  <2>1. s \in [1 .. n -> Rows]
    BY <1>4, <1>5
  <2> QED BY <1>1, <2>1
<1>7. \A i \in 1 .. n : s[i][1] \in D /\ s[i][2] = t[s[i][1]]
  BY <1>4, <1>5
<1>8. \A i, j \in 1 .. n : i < j => s[i][1] < s[j][1]
  BY <1>4
<1> DEFINE h == [i \in 1 .. n |-> s[i][1]]
<1>9. h \in Surjection(1 .. n, D)
  <2>1. h \in [1 .. n -> D]
    BY <1>7
  <2>2. \A i, j \in 1 .. n : h[i] = h[j] => i = j
    <3> TAKE i, j \in 1 .. n
    <3>1. h[i] = s[i][1] /\ h[j] = s[j][1] /\ h[i] \in Nat /\ h[j] \in Nat
      BY <1>1, <1>7
    <3>2. i < j => h[i] < h[j]
      BY <1>8, <3>1
    <3>3. j < i => h[j] < h[i]
      BY <1>8, <3>1
    <3> HIDE DEF h
    <3> QED BY <1>1, <3>1, <3>2, <3>3
  <2> HIDE DEF h
  <2>3. h \in Injection(1 .. n, D)
    BY <2>1, <2>2 DEF Injection, IsInjective
  <2>4. Cardinality(1 .. n) = n
    BY <1>1, FS_Interval
  <2> QED BY <1>1, <2>3, <2>4, FS_Injection DEF n
<1>10. \A k \in D : \E i \in 1 .. n : s[i][1] = k
  BY <1>9 DEF Surjection
<1> QED BY <1>6, <1>7, <1>8, <1>10 DEF s, D, n

\* The rows of a table in key order stand for the table.
LEMMA OrderedSame ==
    ASSUME NEW t \in Tables
    PROVE  /\ Ordered(t) \in Seq(Rows) /\ Deduped(Ordered(t)) = t
           /\ MemOf(Ordered(t), Empty) = t
<1> DEFINE s == Ordered(t)
<1>2. /\ s \in Seq(Rows)
      /\ \A i \in 1 .. Len(s) : s[i][1] \in DOMAIN t /\ s[i][2] = t[s[i][1]]
      /\ \A k \in DOMAIN t : \E i \in 1 .. Len(s) : s[i][1] = k
      /\ \A i, j \in 1 .. Len(s) : i < j => s[i][1] < s[j][1]
  BY OrderedShape
<1> HIDE DEF s
<1>3. /\ Deduped(s) \in Tables
      /\ \A k : k \in DOMAIN Deduped(s) <=> \E i \in 1 .. Len(s) : s[i][1] = k
      /\ \A i \in 1 .. Len(s) : KeptRow(s, i) => Deduped(s)[s[i][1]] = s[i][2]
  BY <1>2, DedupShape
<1>4. DOMAIN Deduped(s) = DOMAIN t
  BY <1>2, <1>3
<1>5. ASSUME NEW k \in DOMAIN t PROVE Deduped(s)[k] = t[k]
  <2>1. PICK i \in 1 .. Len(s) : s[i][1] = k
    BY <1>2
  <2>2. PICK m \in 1 .. Len(s) : KeptRow(s, m) /\ s[m][1] = k
    BY <1>2, <2>1, LastRow
  <2> QED BY <1>2, <1>3, <2>2
<1>6. /\ Deduped(s) = [k \in DOMAIN Deduped(s) |-> Deduped(s)[k]]
      /\ t = [k \in DOMAIN t |-> t[k]]
  BY <1>3, TableShape
<1>7. Deduped(s) = t
  BY <1>4, <1>5, <1>6
<1>8. MemOf(s, Empty) = t
  BY <1>6, <1>7, MemEmpty DEF MemOf, Over
<1> QED BY <1>2, <1>7, <1>8 DEF s

\* Sorting and deduping DATA in place, as every query does, leaves the table
\* it stands for as it was.
LEMMA SortedSame ==
    ASSUME NEW d \in Seq(Rows)
    PROVE  /\ Ordered(Deduped(d)) \in Seq(Rows)
           /\ Deduped(Ordered(Deduped(d))) = Deduped(d)
BY DedupShape, OrderedSame

-----------------------------------------------------------------------------
(* The rows of the page.                                                   *)

\* A page that is a table in key order has the table's rows, and so has one that
\* was collapsed.
LEMMA TableRows ==
    ASSUME NEW t \in Tables
    PROVE  /\ \A r \in PageOf(Empty, Ordered(t)) : r[1] \in DOMAIN t /\ r[2] = t[r[1]]
           /\ \A r \in PageOf(t, <<>>) : r[1] \in DOMAIN t /\ r[2] = t[r[1]]
<1>1. \A i \in 1 .. Len(Ordered(t)) :
          Ordered(t)[i][1] \in DOMAIN t /\ Ordered(t)[i][2] = t[Ordered(t)[i][1]]
  BY OrderedShape
<1>2. DOMAIN Empty = {} /\ Len(<<>>) = 0
  BY MemEmpty
<1>3. PageOf(Empty, Ordered(t)) = {Ordered(t)[i] : i \in 1 .. Len(Ordered(t))}
  BY <1>2 DEF PageOf
<1>4. PageOf(t, <<>>) = {<<k, t[k]>> : k \in DOMAIN t}
  BY <1>2 DEF PageOf
<1> QED BY <1>1, <1>3, <1>4

\* The rows of a table are as new as the table.
LEMMA OwnRows ==
    ASSUME NEW rs \in Seq(Tables), NEW t \in Tables, NewerThan(t, rs), NEW rows,
           \A r \in rows : r[1] \in DOMAIN t /\ r[2] = t[r[1]]
    PROVE  RowsOK(rows, rs, t)
<1> SUFFICES ASSUME NEW r \in rows
             PROVE  /\ r[1] \in DOMAIN t /\ r[2] <= t[r[1]]
                    /\ \A i \in 1 .. Len(rs) : r[1] \in DOMAIN rs[i] => rs[i][r[1]] <= r[2]
  BY DEF RowsOK
<1>1. r[1] \in DOMAIN t /\ r[2] = t[r[1]]
  OBVIOUS
<1>2. t[r[1]] \in Int
  BY <1>1, TableShape, ConstantsAssumption DEF Vals
<1> QED BY <1>1, <1>2 DEF NewerThan

\* A sort leaves the newest row of each key.
LEMMA SortRows ==
    ASSUME NEW rs \in Seq(Tables), NEW p \in Tables, NEW d \in Seq(Rows),
           NewerThan(MemOf(d, p), rs), RowsOK(PageOf(p, d), rs, MemOf(d, p))
    PROVE  RowsOK(PageOf(p, Ordered(Deduped(d))), rs, MemOf(d, p))
<1> DEFINE m == MemOf(d, p)
           y == Deduped(d)
           s == Ordered(y)
           old == {<<k, p[k]>> : k \in DOMAIN p}
           new == {s[i] : i \in 1 .. Len(s)}
<1>1. y \in Tables /\ m \in Tables /\ DOMAIN y \subseteq DOMAIN m
      /\ \A k \in DOMAIN y : m[k] = y[k]
  BY DedupShape, MemShape
<1>2. \A i \in 1 .. Len(s) : s[i][1] \in DOMAIN y /\ s[i][2] = y[s[i][1]]
  BY <1>1, OrderedShape
<1> HIDE DEF s, y, m
<1>3. \A r \in new : r[1] \in DOMAIN m /\ r[2] = m[r[1]]
  BY <1>1, <1>2
<1> HIDE DEF new
<1>4. RowsOK(new, rs, m)
  BY <1>1, <1>3, OwnRows DEF m
<1>5. RowsOK(old, rs, m)
  BY DEF RowsOK, PageOf, m
<1>6. PageOf(p, s) = old \cup new
  BY DEF PageOf, new
<1> HIDE DEF old
<1>7. RowsOK(PageOf(p, s), rs, m)
  BY <1>4, <1>5, <1>6 DEF RowsOK
<1> QED BY <1>7 DEF s, y, m

\* A put adds the newest row of all.
LEMMA PutRows ==
    ASSUME NEW rs \in Seq(Tables), NEW p \in Tables, NEW d \in Seq(Rows),
           NEW r \in Rows, NEW n \in Nat, r[2] = n + 1,
           Ages(rs, MemOf(d, p), n), RowsOK(PageOf(p, d), rs, MemOf(d, p))
    PROVE  RowsOK(PageOf(p, Append(d, r)), rs, MemOf(Append(d, r), p))
<1> DEFINE m == MemOf(d, p)
           e == Append(d, r)
           w == MemOf(e, p)
<1>1. /\ w \in Tables /\ DOMAIN w = DOMAIN m \cup {r[1]} /\ w[r[1]] = n + 1
      /\ \A j \in DOMAIN m \ {r[1]} : w[j] = m[j]
  BY MemPut
<1>2. m \in Tables /\ \A j \in DOMAIN m : m[j] \in Nat /\ m[j] <= n
  <2>1. m \in Tables
    BY MemShape
  <2>2. \A j \in DOMAIN m : m[j] \in Vals
    BY <2>1, TableShape
  <2> QED BY <2>1, <2>2, ConstantsAssumption DEF Ages, UpTo, Vals
<1>3. \A i \in 1 .. Len(rs) : \A j \in DOMAIN rs[i] : rs[i][j] <= n /\ rs[i][j] \in Nat
  <2> TAKE i \in 1 .. Len(rs)
  <2> TAKE j \in DOMAIN rs[i]
  <2>1. rs[i][j] \in Vals
    BY RunShape
  <2> QED BY <2>1, ConstantsAssumption DEF Ages, UpTo, Vals
<1>4. PageOf(p, e) = PageOf(p, d) \cup {r}
  <2>1. /\ Len(d) \in Nat /\ Len(e) = Len(d) + 1
        /\ \A i \in 1 .. Len(d) : e[i] = d[i]
        /\ e[Len(d) + 1] = r
    BY AppendProperties, LenProperties
  <2> HIDE DEF e
  <2>2. \A i : i \in 1 .. Len(e) <=> i \in 1 .. Len(d) \/ i = Len(d) + 1
    BY <2>1
  <2>3. {e[i] : i \in 1 .. Len(e)} = {d[i] : i \in 1 .. Len(d)} \cup {r}
    BY <2>1, <2>2
  <2> QED BY <2>3 DEF PageOf
<1> HIDE DEF m, w
<1>5. \A q \in PageOf(p, d) : q[2] \in Int
  <2>1. \A k \in DOMAIN p : p[k] \in Vals
    BY TableShape
  <2>2. \A i \in 1 .. Len(d) : d[i][2] \in Vals
    BY ElementOfSeq DEF Rows
  <2>3. \A q \in PageOf(p, d) : q[2] \in Vals
    BY <2>1, <2>2 DEF PageOf
  <2> QED BY <2>3, ConstantsAssumption DEF Vals
<1>6. ASSUME NEW q \in PageOf(p, d)
      PROVE  /\ q[1] \in DOMAIN w /\ q[2] <= w[q[1]]
             /\ \A i \in 1 .. Len(rs) : q[1] \in DOMAIN rs[i] => rs[i][q[1]] <= q[2]
  <2>1. /\ q[1] \in DOMAIN m /\ q[2] <= m[q[1]]
        /\ \A i \in 1 .. Len(rs) : q[1] \in DOMAIN rs[i] => rs[i][q[1]] <= q[2]
    BY DEF RowsOK, m
  <2>2. q[2] <= w[q[1]]
    <3>1. CASE q[1] = r[1]
      <4>1. m[q[1]] \in Nat /\ m[q[1]] <= n /\ q[2] \in Int
        BY <1>2, <1>5, <2>1
      <4> QED BY <1>1, <2>1, <3>1, <4>1
    <3>2. CASE q[1] # r[1]
      BY <1>1, <2>1, <3>2
    <3> QED BY <3>1, <3>2
  <2> QED BY <1>1, <2>1, <2>2
<1>7. /\ r[1] \in DOMAIN w /\ r[2] <= w[r[1]]
      /\ \A i \in 1 .. Len(rs) : r[1] \in DOMAIN rs[i] => rs[i][r[1]] <= r[2]
  BY <1>1, <1>3
<1>8. RowsOK(PageOf(p, e), rs, w)
  BY <1>4, <1>6, <1>7 DEF RowsOK
<1> QED BY <1>8 DEF w

\* Losing runs leaves the rows newer than the runs.
LEMMA WithinRows ==
    ASSUME NEW rs, NEW q, NEW m, NEW rows, Within(q, rs), RowsOK(rows, rs, m),
           Len(q) \in Nat
    PROVE  RowsOK(rows, q, m)
<1>1. \A i \in 1 .. Len(q) : \E a \in 1 .. Len(rs) : q[i] = rs[a]
  BY DEF Within
<1> QED BY <1>1 DEF RowsOK

-----------------------------------------------------------------------------
(* What get and the runs answer.                                           *)

\* get over given runs and memtable.
SourcesOf(rs, p, d) ==
    [i \in 1 .. Len(rs) |-> [src |-> i, tab |-> rs[i]]]
        \o << [src |-> 0, tab |-> p], [src |-> 0, tab |-> Deduped(d)] >>
GetOf(rs, p, d, k) ==
    LET ss == SourcesOf(rs, p, d)
        is == {i \in 1 .. Len(ss) : k \in DOMAIN ss[i].tab} IN
    IF is = {} THEN None ELSE ss[Found(k, is)].tab[k]

\* jpup_get, source by source from the newest, finds what the memtable as a
\* whole has for the key, and else what the stack of runs has.
LEMMA GetMeans ==
    ASSUME NEW rs \in Seq(Tables), NEW p \in Tables, NEW d \in Seq(Rows), NEW k
    PROVE  GetOf(rs, p, d, k) = ViewIn(rs, MemOf(d, p), k)
<1> DEFINE S == [src : Nat, tab : Tables]
           n == Len(rs)
           y == Deduped(d)
           a == [i \in 1 .. n |-> [src |-> i, tab |-> rs[i]]]
           b == << [src |-> 0, tab |-> p], [src |-> 0, tab |-> y] >>
           ss == a \o b
           is == {i \in 1 .. Len(ss) : k \in DOMAIN ss[i].tab}
<1>1. n \in Nat /\ y \in Tables
  BY LenProperties, DedupShape
<1> HIDE DEF y
<1>2. a \in Seq(S) /\ Len(a) = n /\ \A i \in 1 .. n : a[i].tab = rs[i]
  <2>1. \A i \in 1 .. n : [src |-> i, tab |-> rs[i]] \in S
    BY <1>1, RunShape
  <2>2. a \in [1 .. n -> S]
    BY <2>1
  <2>3. a \in Seq(S) /\ Len(a) = n
    BY <1>1, <2>2
  <2> QED BY <2>3
<1>3. b \in Seq(S) /\ Len(b) = 2 /\ b[1].tab = p /\ b[2].tab = y
  BY <1>1
<1> HIDE DEF a, b, n
<1>4. /\ Len(ss) = Len(a) + Len(b)
      /\ \A i \in 1 .. Len(a) + Len(b) :
             ss[i] = IF i <= Len(a) THEN a[i] ELSE b[i - Len(a)]
  BY <1>2, <1>3, ConcatProperties
<1> HIDE DEF ss
<1>5. Len(ss) = n + 2 /\ (n + 1) - n = 1 /\ (n + 2) - n = 2
  BY <1>1, <1>2, <1>3, <1>4
<1>6. \A i \in 1 .. n : ss[i].tab = rs[i]
  <2> TAKE i \in 1 .. n
  <2>1. i \in 1 .. Len(a) + Len(b) /\ i <= Len(a)
    BY <1>1, <1>2, <1>3
  <2> QED BY <1>2, <1>4, <2>1
<1>7. ss[n + 1].tab = p
  <2>1. n + 1 \in 1 .. Len(a) + Len(b) /\ ~(n + 1 <= Len(a))
    BY <1>1, <1>2, <1>3
  <2>2. (n + 1) - Len(a) = 1
    BY <1>2, <1>5
  <2> QED BY <1>3, <1>4, <2>1, <2>2
<1>8. ss[n + 2].tab = y
  <2>1. n + 2 \in 1 .. Len(a) + Len(b) /\ ~(n + 2 <= Len(a))
    BY <1>1, <1>2, <1>3
  <2>2. (n + 2) - Len(a) = 2
    BY <1>2, <1>5
  <2> QED BY <1>3, <1>4, <2>1, <2>2
<1>9. \A i : i \in is <=> \/ i \in 1 .. n /\ k \in DOMAIN rs[i]
                          \/ i = n + 1 /\ k \in DOMAIN p
                          \/ i = n + 2 /\ k \in DOMAIN y
  <2> TAKE i
  <2>1. i \in 1 .. n + 2 <=> i \in 1 .. n \/ i = n + 1 \/ i = n + 2
    BY <1>1
  <2> QED BY <1>5, <1>6, <1>7, <1>8, <2>1
<1>10. \A i \in is : i \in Nat /\ i <= n + 2
  BY <1>1, <1>9
<1>11. GetOf(rs, p, d, k) = IF is = {} THEN None ELSE ss[Found(k, is)].tab[k]
  BY DEF GetOf, SourcesOf, is, ss, a, b, n, y
<1> HIDE DEF is
<1>12. ASSUME NEW m \in is, \A j \in is : j <= m
       PROVE  GetOf(rs, p, d, k) = ss[m].tab[k]
  <2>1. \A i \in is : (\A j \in is : j <= i) => i = m
    BY <1>10, <1>12
  <2>2. Found(k, is) = m
    BY <1>12, <2>1 DEF Found
  <2> QED BY <1>11, <2>2
<1>13. /\ DOMAIN MemOf(d, p) = DOMAIN y \cup DOMAIN p
       /\ \A j \in DOMAIN y : MemOf(d, p)[j] = y[j]
       /\ \A j \in DOMAIN p \ DOMAIN y : MemOf(d, p)[j] = p[j]
  BY MemShape DEF y
<1>14. CASE k \in DOMAIN y
  <2>1. GetOf(rs, p, d, k) = ss[n + 2].tab[k]
    BY <1>9, <1>10, <1>12, <1>14
  <2> QED BY <1>8, <1>13, <1>14, <2>1 DEF ViewIn
<1>15. CASE k \notin DOMAIN y /\ k \in DOMAIN p
  <2>1. n + 1 \in is /\ \A j \in is : j <= n + 1
    BY <1>1, <1>9, <1>15
  <2>2. GetOf(rs, p, d, k) = ss[n + 1].tab[k]
    BY <1>12, <2>1
  <2> QED BY <1>7, <1>13, <1>15, <2>2 DEF ViewIn
<1>16. CASE k \notin DOMAIN y /\ k \notin DOMAIN p
  <2>1. ViewIn(rs, MemOf(d, p), k) = SavedIn(rs, k)
    BY <1>13, <1>16 DEF ViewIn
  <2>2. ASSUME NEW m \in 1 .. n, Youngest(rs, 1, k, m)
        PROVE  GetOf(rs, p, d, k) = SavedIn(rs, k)
    <3>1. m \in is /\ \A j \in is : j <= m
      BY <1>9, <1>16, <2>2 DEF Youngest, n
    <3>2. SavedIn(rs, k) = rs[m][k]
      BY <2>2, SavedShape
    <3> QED BY <1>6, <1>12, <3>1, <3>2
  <2>3. ASSUME \A i \in 1 .. n : k \notin DOMAIN rs[i]
        PROVE  GetOf(rs, p, d, k) = SavedIn(rs, k)
    <3>1. is = {}
      BY <1>9, <1>16, <2>3
    <3>2. SavedIn(rs, k) = None
      BY <2>3, SavedShape DEF n
    <3> QED BY <1>11, <3>1, <3>2
  <2> QED BY <2>1, <2>2, <2>3, SavedShape DEF n
<1> QED BY <1>14, <1>15, <1>16

\* The two variables of the map, in terms of stack and memtable.
ViewOf(rs, m) == [k \in Keys |-> ViewIn(rs, m, k)]
SavedOf(rs) == [k \in Keys |-> SavedIn(rs, k)]

\* The refinement mapping, before and after a step.
LEMMA Mapping ==
    /\ StoreOK => [k \in Keys |-> Get(k)] = ViewOf(runs, Mem)
    /\ StoreOK' => [k \in Keys |-> Get(k)]' = ViewOf(runs', Mem')
    /\ Saved = SavedOf(runs) /\ Saved' = SavedOf(runs')
<1>1. ASSUME StoreOK PROVE [k \in Keys |-> Get(k)] = ViewOf(runs, Mem)
  <2>1. \A k \in Keys : GetOf(runs, past, data, k) = ViewIn(runs, MemOf(data, past), k)
    BY <1>1, GetMeans DEF StoreOK
  <2>2. \A k \in Keys : Get(k) = GetOf(runs, past, data, k)
    BY DEF Get, GetOf, Sources, SourcesOf
  <2> QED BY <2>1, <2>2 DEF ViewOf, Mem
<1>2. ASSUME StoreOK' PROVE [k \in Keys |-> Get(k)]' = ViewOf(runs', Mem')
  <2>1. \A k \in Keys :
            GetOf(runs', past', data', k) = ViewIn(runs', MemOf(data', past'), k)
    BY <1>2, GetMeans DEF StoreOK
  <2>2. \A k \in Keys : Get(k)' = GetOf(runs', past', data', k)
    BY DEF Get, GetOf, Sources, SourcesOf
  <2> QED BY <2>1, <2>2 DEF ViewOf, Mem
<1>3. Saved = SavedOf(runs) /\ Saved' = SavedOf(runs')
  BY DEF Saved, SavedOf, SavedIn
<1> QED BY <1>1, <1>2, <1>3

-----------------------------------------------------------------------------
(* Steps of stack and memtable.                                            *)

\* The stack after a seal.
SealOf(rs, t, lo) ==
    Append(SubSeq(Append(rs, t), 1, lo - 1), MergedFrom(Append(rs, t), lo))

\* A seal moves the memtable's table into what the runs have, whichever of the
\* youngest runs the ladder merges with it.
LEMMA SealMeans ==
    ASSUME NEW rs \in Seq(Tables), NEW t \in Tables, NEW lo \in 1 .. Len(rs) + 1,
           NEW n \in Nat
    PROVE  /\ SealOf(rs, t, lo) \in Seq(Tables)
           /\ \A k : SavedIn(SealOf(rs, t, lo), k) = ViewIn(rs, t, k)
           /\ Ages(rs, t, n) => Ages(SealOf(rs, t, lo), Empty, n)
<1> DEFINE q == SealOf(rs, t, lo)
           u == Append(rs, t)
           a == SubSeq(u, 1, lo - 1)
           m == MergedFrom(u, lo)
<1>1. u \in Seq(Tables) /\ Len(u) = Len(rs) + 1 /\ Len(rs) \in Nat
  BY PushShape
<1>2. \A k : SavedIn(u, k) = ViewIn(rs, t, k)
  BY PushSaved
<1>3. Ages(rs, t, n) => Ascend(u) /\ \A i \in 1 .. Len(u) : UpTo(u[i], n)
  BY PushAscends DEF Ages
<1>4. q = Append(a, m)
  BY DEF SealOf
<1> HIDE DEF u, q
<1>5. /\ lo \in 1 .. Len(u) /\ lo \in 1 .. Len(u) + 1 /\ lo - 1 \in 0 .. Len(u)
      /\ Len(u) \in Nat
  BY <1>1
<1>6. m \in Tables
  BY <1>1, <1>5, MergeShape
<1>7. /\ a \in Seq(Tables) /\ Len(a) = lo - 1
      /\ \A i \in 1 .. lo - 1 : a[i] = u[i]
  BY <1>1, <1>5, OlderShape
<1>8. \A k : SavedIn(Append(a, m), k) = SavedIn(u, k)
  BY <1>1, <1>5, MergeSaved
<1>9. ASSUME Ages(rs, t, n) PROVE Ages(q, Empty, n)
  <2>1. Ascend(u) /\ \A i \in 1 .. Len(u) : UpTo(u[i], n)
    BY <1>3, <1>9
  <2>2. NewerThan(m, u) /\ UpTo(m, n)
    BY <1>1, <1>5, <2>1, MergeNewest
  <2> HIDE DEF a, m
  <2>3. \A i \in 1 .. lo - 1 : i \in 1 .. Len(u)
    BY <1>5
  <2>4. Within(a, u)
    BY <1>7, <2>3 DEF Within
  <2>5. Ascend(a) /\ (\A i \in 1 .. Len(a) : UpTo(a[i], n)) /\ NewerThan(m, a)
    BY <1>1, <1>7, <2>1, <2>2, <2>4, WithinAges
  <2>6. Ascend(q) /\ \A i \in 1 .. Len(q) : UpTo(q[i], n)
    BY <1>4, <1>6, <1>7, <2>2, <2>5, PushAscends
  <2> QED BY <2>6, MemEmpty DEF Ages, NewerThan, UpTo
<1>10. q \in Seq(Tables)
  <2> HIDE DEF a, m
  <2> QED BY <1>4, <1>6, <1>7, PushShape
<1> QED BY <1>2, <1>4, <1>8, <1>9, <1>10 DEF q

\* A put is the newest row of all.
LEMMA PutAges ==
    ASSUME NEW rs \in Seq(Tables), NEW p \in Tables, NEW d \in Seq(Rows),
           NEW r \in Rows, NEW n \in Nat, r[2] = n + 1,
           Ages(rs, MemOf(d, p), n)
    PROVE  Ages(rs, MemOf(Append(d, r), p), n + 1)
<1> DEFINE m == MemOf(d, p)
           w == MemOf(Append(d, r), p)
           k == r[1]
<1>1. /\ w \in Tables /\ DOMAIN w = DOMAIN m \cup {k} /\ w[k] = n + 1
      /\ \A j \in DOMAIN m \ {k} : w[j] = m[j]
  BY MemPut
<1>2. m \in Tables
  BY MemShape
<1> HIDE DEF m, w
<1>3. \A i \in 1 .. Len(rs) : \A j \in DOMAIN rs[i] : rs[i][j] \in Nat /\ rs[i][j] <= n
  <2> TAKE i \in 1 .. Len(rs)
  <2> TAKE j \in DOMAIN rs[i]
  <2>1. rs[i][j] \in Vals
    BY RunShape
  <2> QED BY <2>1, ConstantsAssumption DEF Vals, Ages, UpTo
<1>4. \A j \in DOMAIN m : m[j] \in Nat /\ m[j] <= n
  <2> TAKE j \in DOMAIN m
  <2>1. m[j] \in Vals
    BY <1>2, TableShape
  <2> QED BY <2>1, ConstantsAssumption DEF Vals, Ages, UpTo, m
<1>5. NewerThan(w, rs)
  <2> SUFFICES ASSUME NEW i \in 1 .. Len(rs), NEW j \in DOMAIN rs[i] \cap DOMAIN w
               PROVE  rs[i][j] <= w[j]
    BY DEF NewerThan
  <2>1. CASE j = k
    BY <1>1, <1>3, <2>1
  <2>2. CASE j # k
    <3>1. j \in DOMAIN m /\ w[j] = m[j]
      BY <1>1, <2>2
    <3> QED BY <3>1 DEF Ages, NewerThan, m
  <2> QED BY <2>1, <2>2
<1>6. UpTo(w, n + 1)
  <2> SUFFICES ASSUME NEW j \in DOMAIN w PROVE w[j] <= n + 1
    BY DEF UpTo
  <2>1. CASE j = k
    BY <1>1, <2>1
  <2>2. CASE j # k
    <3>1. j \in DOMAIN m /\ w[j] = m[j]
      BY <1>1, <2>2
    <3> QED BY <1>4, <3>1
  <2> QED BY <2>1, <2>2
<1>7. \A i \in 1 .. Len(rs) : UpTo(rs[i], n + 1)
  <2> SUFFICES ASSUME NEW i \in 1 .. Len(rs), NEW j \in DOMAIN rs[i]
               PROVE  rs[i][j] <= n + 1
    BY DEF UpTo
  <2> QED BY <1>3
<1> QED BY <1>5, <1>6, <1>7 DEF Ages, w

\* A put changes what get answers for its key, and for no other.
LEMMA PutView ==
    ASSUME NEW rs \in Seq(Tables), NEW p \in Tables, NEW d \in Seq(Rows),
           NEW r \in Rows
    PROVE  ViewOf(rs, MemOf(Append(d, r), p))
               = [ViewOf(rs, MemOf(d, p)) EXCEPT ![r[1]] = r[2]]
<1> DEFINE m == MemOf(d, p)
           w == MemOf(Append(d, r), p)
           k == r[1]
           v == r[2]
<1>1. /\ DOMAIN w = DOMAIN m \cup {k} /\ w[k] = v
      /\ \A j \in DOMAIN m \ {k} : w[j] = m[j]
  BY MemPut
<1> HIDE DEF m, w
<1>2. \A j \in Keys : ViewIn(rs, w, j) = IF j = k THEN v ELSE ViewIn(rs, m, j)
  BY <1>1 DEF ViewIn
<1>3. ViewOf(rs, w) = [ViewOf(rs, m) EXCEPT ![k] = v]
  BY <1>2 DEF ViewOf
<1> QED BY <1>3 DEF m, w

\* Nothing in the memtable: get answers what the runs have.
LEMMA EmptyView ==
    ASSUME NEW rs, NEW m, DOMAIN m = {}
    PROVE  ViewOf(rs, m) = SavedOf(rs)
BY DEF ViewOf, SavedOf, ViewIn

-----------------------------------------------------------------------------
(* The steps of the index are steps of the map.                            *)

\* A step of the map, or none.
MapStep == [Abstract!Next]_(Abstract!vars)

\* Nothing is put, sealed or dropped: no answer changes.
LEMMA SameStep ==
    ASSUME IndexInv, past' \in Tables, data' \in Seq(Rows), Mem' = Mem,
           RowsOK(PageRows', runs, Mem), UNCHANGED <<runs, puts, drops, deaths>>
    PROVE  IndexInv' /\ MapStep
<1>1. StoreOK' /\ AgeInv' /\ RowInv'
  BY DEF IndexInv, StoreOK, AgeInv, RowInv, RowsOK
<1>2. UNCHANGED Abstract!vars
  <2>1. [k \in Keys |-> Get(k)]' = [k \in Keys |-> Get(k)] /\ Saved' = Saved
    BY <1>1, Mapping DEF IndexInv
  <2> QED BY <2>1 DEF Abstract!vars
<1> QED BY <1>1, <1>2 DEF IndexInv, MapStep

\* open, close, the cursors and their callbacks touch no row.
LEMMA StillStep ==
    ASSUME IndexInv, UNCHANGED <<runs, past, data, puts, drops, deaths>>
    PROVE  IndexInv' /\ MapStep
<1>1. past' \in Tables /\ data' \in Seq(Rows) /\ Mem' = Mem /\ PageRows' = PageRows
  BY DEF IndexInv, StoreOK, Mem, PageRows
<1> QED BY <1>1, SameStep DEF IndexInv, RowInv

\* DATA as a query finds it stands for the same table.
LEMMA SortedShape ==
    ASSUME StoreOK
    PROVE  Sorted \in Seq(Rows) /\ Deduped(Sorted) = Deduped(data)
BY SortedSame DEF StoreOK, Sorted

\* get, seek and range sort DATA in place, which changes no answer.
LEMMA SortStep ==
    ASSUME IndexInv, data' = Sorted, UNCHANGED <<runs, past, puts, drops, deaths>>
    PROVE  IndexInv' /\ MapStep
<1>1. past' \in Tables /\ data' \in Seq(Rows) /\ Deduped(data') = Deduped(data)
  BY SortedShape DEF IndexInv, StoreOK
<1>2. Mem' = Mem
  BY <1>1 DEF Mem, MemOf
<1>3. CASE Clean(data)
  BY <1>3, StillStep DEF Sorted
<1>4. CASE ~Clean(data)
  <2>1. NewerThan(MemOf(data, past), runs) /\ RowsOK(PageOf(past, data), runs, MemOf(data, past))
    BY DEF IndexInv, AgeInv, RowInv, Ages, PageRows, PageOf, Mem
  <2>2. RowsOK(PageOf(past, Ordered(Deduped(data))), runs, Mem)
    BY <2>1, SortRows DEF IndexInv, StoreOK, Mem
  <2>3. PageRows' = PageOf(past, Ordered(Deduped(data)))
    BY <1>4 DEF PageRows, PageOf, Sorted
  <2> QED BY <1>1, <1>2, <2>2, <2>3, SameStep
<1> QED BY <1>3, <1>4

\* A commit that fails leaves the page collapsed.
LEMMA CollapseStep ==
    ASSUME IndexInv, commitFails
    PROVE  IndexInv' /\ MapStep
<1>1. Mem \in Tables /\ runs \in Seq(Tables) /\ NewerThan(Mem, runs)
  <2>1. MemOf(data, past) \in Tables
    BY MemShape DEF IndexInv, StoreOK
  <2> QED BY <2>1 DEF IndexInv, StoreOK, AgeInv, Ages, Mem
<1>2. past' = Mem /\ data' = <<>> /\ UNCHANGED <<runs, puts, drops, deaths>>
  BY DEF commitFails, Collapses, Collapsed, Mem, MemOf
<1>3. past' \in Tables /\ data' \in Seq(Rows) /\ Mem' = Mem
  <2>1. Mem' = MemOf(<<>>, Mem)
    BY <1>2 DEF Mem
  <2> QED BY <1>1, <1>2, <2>1, MemEmpty
<1>4. RowsOK(PageRows', runs, Mem)
  <2>1. PageRows' = PageOf(Mem, <<>>)
    BY <1>2 DEF PageRows, PageOf
  <2>2. \A r \in PageRows' : r[1] \in DOMAIN Mem /\ r[2] = Mem[r[1]]
    BY <1>1, <2>1, TableRows
  <2> QED BY <1>1, <2>2, OwnRows
<1> QED BY <1>2, <1>3, <1>4, SameStep

\* A seal, of a table at some put: the memtable is empty after it, and the runs
\* have what both had.
LEMMA SealStep ==
    ASSUME NEW t \in Tables, NEW n \in Nat, NEW i,
           runs \in Seq(Tables), Ages(runs, t, n), Seals(t, i)
    PROVE  /\ runs' \in Seq(Tables) /\ past' \in Tables /\ data' \in Seq(Rows)
           /\ Ages(runs', Mem', n) /\ RowInv'
           /\ ViewOf(runs', Mem') = ViewOf(runs, t)
           /\ SavedOf(runs') = ViewOf(runs, t)
<1>1. /\ i \in 1 .. Len(runs) + 1
      /\ runs' = SealOf(runs, t, i)
      /\ past' = Empty /\ data' = <<>>
  BY DEF Seals, Sealed, SealOf
<1>2. /\ runs' \in Seq(Tables)
      /\ \A k : SavedIn(runs', k) = ViewIn(runs, t, k)
      /\ Ages(runs', Empty, n)
  BY <1>1, SealMeans
<1>3. past' \in Tables /\ data' \in Seq(Rows) /\ Mem' = Empty
  BY <1>1, MemEmpty DEF Mem
<1>4. SavedOf(runs') = ViewOf(runs, t)
  BY <1>2 DEF SavedOf, ViewOf
<1>5. ViewOf(runs', Mem') = SavedOf(runs')
  BY <1>3, MemEmpty, EmptyView
<1>6. RowInv'
  <2>1. PageRows' = PageOf(Empty, <<>>)
    BY <1>1 DEF PageRows, PageOf
  <2>2. \A r \in PageRows' : FALSE
    BY <2>1, MemEmpty, TableRows
  <2> QED BY <2>2 DEF RowInv, RowsOK
<1> QED BY <1>2, <1>3, <1>4, <1>5, <1>6

\* put: its key gets the new value, whether the row stays in DATA, the page is
\* collapsed into PAST, or sealed, and also when the seal then fails.
LEMMA PutStep ==
    ASSUME IndexInv, NEW k \in Keys, put(k) \/ putFails(k)
    PROVE  IndexInv' /\ MapStep
<1> DEFINE r == <<k, puts + 1>>
           e == Append(data, r)
           w == MemOf(e, past)
           V == ViewOf(runs, Mem)
<1>1. puts \in Nat /\ puts + 1 \in 0 .. MaxPut /\ puts + 1 \in Vals
  BY ConstantsAssumption DEF IndexInv, StoreOK, put, putFails, Vals
<1>2. r \in Rows /\ r[1] = k /\ r[2] = puts + 1
  BY <1>1 DEF Rows
<1>3. /\ puts' = puts + 1 /\ UNCHANGED <<drops, deaths>>
      /\ \/ data' = e /\ UNCHANGED <<runs, past>>
         \/ past' = w /\ data' = <<>> /\ UNCHANGED runs
         \/ \E i \in 1 .. Len(runs) + 1 : Seals(w, i)
  BY DEF put, putFails, Collapses, Collapsed, MemOf
<1> HIDE DEF r
<1>4. e \in Seq(Rows) /\ w \in Tables
  BY <1>2, MemPut DEF IndexInv, StoreOK
<1>5. Ages(runs, w, puts + 1)
  BY <1>1, <1>2, PutAges DEF IndexInv, StoreOK, AgeInv, Mem
<1>6. ViewOf(runs, w) = [V EXCEPT ![k] = puts + 1]
  BY <1>2, PutView DEF IndexInv, StoreOK, Mem
<1>6a. RowsOK(PageOf(past, e), runs, w)
  <2>1. RowsOK(PageOf(past, data), runs, MemOf(data, past))
    BY DEF IndexInv, RowInv, PageRows, PageOf, Mem
  <2> QED BY <1>1, <1>2, <2>1, PutRows DEF IndexInv, StoreOK, AgeInv, Mem
<1> HIDE DEF e, w, V
<1>7. /\ runs' \in Seq(Tables) /\ past' \in Tables /\ data' \in Seq(Rows)
      /\ Ages(runs', Mem', puts + 1) /\ RowInv'
      /\ ViewOf(runs', Mem') = [V EXCEPT ![k] = puts + 1]
      /\ \/ SavedOf(runs') = SavedOf(runs)
         \/ SavedOf(runs') = [V EXCEPT ![k] = puts + 1]
  <2>1. CASE data' = e /\ UNCHANGED <<runs, past>>
    <3>1. Mem' = w /\ PageRows' = PageOf(past, e)
      BY <2>1 DEF Mem, w, PageRows, PageOf
    <3>2. RowInv'
      BY <1>6a, <2>1, <3>1 DEF RowInv, RowsOK
    <3> QED BY <1>4, <1>5, <1>6, <2>1, <3>1, <3>2 DEF IndexInv, StoreOK
  <2>2. CASE past' = w /\ data' = <<>> /\ UNCHANGED runs
    <3>1. Mem' = w /\ data' \in Seq(Rows)
      BY <1>4, <2>2, MemEmpty DEF Mem
    <3>2. PageRows' = PageOf(w, <<>>)
      BY <2>2 DEF PageRows, PageOf
    <3>3. \A q \in PageRows' : q[1] \in DOMAIN w /\ q[2] = w[q[1]]
      BY <1>4, <3>2, TableRows
    <3>4. RowsOK(PageRows', runs, w)
      BY <1>4, <1>5, <3>3, OwnRows DEF Ages, IndexInv, StoreOK
    <3>5. RowInv'
      BY <2>2, <3>1, <3>4 DEF RowInv, RowsOK
    <3> QED BY <1>4, <1>5, <1>6, <2>2, <3>1, <3>5 DEF IndexInv, StoreOK
  <2>3. ASSUME NEW i \in 1 .. Len(runs) + 1, Seals(w, i)
        PROVE  /\ runs' \in Seq(Tables) /\ past' \in Tables /\ data' \in Seq(Rows)
               /\ Ages(runs', Mem', puts + 1) /\ RowInv'
               /\ ViewOf(runs', Mem') = [V EXCEPT ![k] = puts + 1]
               /\ SavedOf(runs') = [V EXCEPT ![k] = puts + 1]
    <3>1. puts + 1 \in Nat /\ runs \in Seq(Tables)
      BY <1>1 DEF IndexInv, StoreOK
    <3>2. /\ runs' \in Seq(Tables) /\ past' \in Tables /\ data' \in Seq(Rows)
          /\ Ages(runs', Mem', puts + 1) /\ RowInv'
          /\ ViewOf(runs', Mem') = ViewOf(runs, w)
          /\ SavedOf(runs') = ViewOf(runs, w)
      BY <1>4, <1>5, <2>3, <3>1, SealStep
    <3> QED BY <1>6, <3>2
  <2> QED BY <1>3, <2>1, <2>2, <2>3
<1>8. StoreOK' /\ AgeInv' /\ RowInv'
  BY <1>1, <1>3, <1>7 DEF IndexInv, StoreOK, AgeInv
<1>9. Abstract!Put(k)
  <2>1. /\ [j \in Keys |-> Get(j)] = V /\ Saved = SavedOf(runs)
        /\ [j \in Keys |-> Get(j)]' = ViewOf(runs', Mem') /\ Saved' = SavedOf(runs')
    BY <1>8, Mapping DEF IndexInv, V
  <2>2. /\ [j \in Keys |-> Get(j)]' = [[j \in Keys |-> Get(j)] EXCEPT ![k] = puts + 1]
        /\ Saved' = Saved \/ Saved' = [j \in Keys |-> Get(j)]'
    BY <1>7, <2>1
  <2> QED BY <1>3, <2>2 DEF Abstract!Put
<1> QED BY <1>8, <1>9 DEF IndexInv, MapStep, Abstract!Next

\* What the invariant says of stack and memtable.
LEMMA StateFacts ==
    ASSUME IndexInv
    PROVE  /\ Mem \in Tables /\ puts \in Nat /\ runs \in Seq(Tables)
           /\ Ages(runs, Mem, puts)
<1>1. /\ runs \in Seq(Tables) /\ past \in Tables /\ data \in Seq(Rows)
      /\ puts \in 0 .. MaxPut
  BY DEF IndexInv, StoreOK
<1>2. MemOf(data, past) \in Tables
  BY <1>1, MemShape
<1>3. puts \in Nat
  BY <1>1, ConstantsAssumption
<1> QED BY <1>1, <1>2, <1>3 DEF Mem, IndexInv, AgeInv

\* commit: all get answered before it is saved after it, and get answers the
\* same.
LEMMA CommitStep ==
    ASSUME IndexInv, commit
    PROVE  /\ IndexInv' /\ MapStep
           /\ Saved' = [k \in Keys |-> Get(k)]
<1>1. Mem \in Tables /\ puts \in Nat /\ runs \in Seq(Tables)
  BY StateFacts
<1>2. /\ UNCHANGED <<puts, drops, deaths>>
      /\ \/ \E i \in 1 .. Len(runs) + 1 : Seals(Mem, i)
         \/ DOMAIN Mem = {} /\ UNCHANGED <<runs, past, data>>
  BY DEF commit, Unsealed, Collapsed, Mem, MemOf
<1>3. ASSUME NEW i \in 1 .. Len(runs) + 1, Seals(Mem, i)
      PROVE  /\ IndexInv' /\ MapStep
             /\ Saved' = [k \in Keys |-> Get(k)]
  <2>1. /\ runs' \in Seq(Tables) /\ past' \in Tables /\ data' \in Seq(Rows)
        /\ Ages(runs', Mem', puts) /\ RowInv'
        /\ ViewOf(runs', Mem') = ViewOf(runs, Mem)
        /\ SavedOf(runs') = ViewOf(runs, Mem)
    BY <1>1, <1>3, SealStep DEF IndexInv, AgeInv
  <2>2. StoreOK' /\ AgeInv' /\ RowInv'
    BY <1>2, <2>1 DEF IndexInv, StoreOK, AgeInv
  <2>3. /\ [k \in Keys |-> Get(k)]' = [k \in Keys |-> Get(k)]
        /\ Saved' = [k \in Keys |-> Get(k)]
    BY <2>1, <2>2, Mapping DEF IndexInv
  <2>4. Abstract!Commit
    BY <1>2, <2>3 DEF Abstract!Commit
  <2> QED BY <2>2, <2>3, <2>4 DEF IndexInv, MapStep, Abstract!Next
<1>4. CASE DOMAIN Mem = {} /\ UNCHANGED <<runs, past, data>>
  <2>1. IndexInv' /\ MapStep
    BY <1>2, <1>4, StillStep
  <2>2. ViewOf(runs, Mem) = SavedOf(runs)
    BY <1>4, EmptyView
  <2>3. SavedOf(runs') = SavedOf(runs)
    BY <1>4
  <2> QED BY <2>1, <2>2, <2>3, Mapping DEF IndexInv
<1> QED BY <1>2, <1>3, <1>4

\* drop: what the memtable holds stays, and for the other keys the runs that
\* are left have older values or none.
LEMMA DropStep ==
    ASSUME IndexInv, NEW rs \in Seq(Tables), Within(rs, runs), drop(rs)
    PROVE  IndexInv' /\ MapStep
<1>1. /\ Mem \in Tables /\ puts \in Nat /\ runs \in Seq(Tables)
      /\ UpTo(Mem, puts)
  BY StateFacts DEF Ages
<1>2. /\ runs' = rs /\ drops' = drops + 1 /\ UNCHANGED <<past, data, puts, deaths>>
      /\ drops + 1 \in 0 .. MaxDrop
  BY ConstantsAssumption DEF drop, IndexInv, StoreOK
<1>3. Mem' = Mem
  BY <1>2 DEF Mem
<1>4. Ages(rs, Mem, puts)
  BY <1>1, WithinAges DEF IndexInv, AgeInv, Ages
<1>5. StoreOK' /\ AgeInv' /\ RowInv'
  <2>1. PageRows' = PageRows
    BY <1>2 DEF PageRows
  <2>2. RowsOK(PageRows, rs, Mem)
    BY LenProperties, WithinRows DEF IndexInv, RowInv
  <2>3. RowInv'
    BY <1>2, <1>3, <2>1, <2>2 DEF RowInv, RowsOK
  <2> QED BY <1>2, <1>3, <1>4, <2>3 DEF IndexInv, StoreOK, AgeInv
<1>6. ASSUME NEW k \in Keys
      PROVE  /\ SavedIn(rs, k) \in 0 .. puts /\ SavedIn(rs, k) <= SavedIn(runs, k)
             /\ ViewIn(rs, Mem, k) \in 0 .. puts
             /\ ViewIn(rs, Mem, k) \in {ViewIn(runs, Mem, k), SavedIn(rs, k)}
  <2>1. SavedIn(rs, k) \in 0 .. puts
    BY <1>1, <1>4, SavedRange DEF Ages
  <2>2. SavedIn(rs, k) <= SavedIn(runs, k)
    BY <1>1, WithinSaved DEF IndexInv, AgeInv, Ages
  <2>3. CASE k \in DOMAIN Mem
    <3>1. Mem[k] \in Vals /\ Mem[k] <= puts
      BY <1>1, <2>3, TableShape DEF UpTo
    <3>2. Mem[k] \in 0 .. puts
      BY <1>1, <3>1, ConstantsAssumption DEF Vals
    <3> QED BY <2>1, <2>2, <2>3, <3>2 DEF ViewIn
  <2>4. CASE k \notin DOMAIN Mem
    BY <2>1, <2>2, <2>4 DEF ViewIn
  <2> QED BY <2>3, <2>4
<1>7. /\ [k \in Keys |-> Get(k)] = ViewOf(runs, Mem) /\ Saved = SavedOf(runs)
      /\ [k \in Keys |-> Get(k)]' = ViewOf(rs, Mem) /\ Saved' = SavedOf(rs)
  BY <1>2, <1>3, <1>5, Mapping DEF IndexInv
<1>8. /\ SavedOf(rs) \in [Keys -> 0 .. puts] /\ ViewOf(rs, Mem) \in [Keys -> 0 .. puts]
      /\ \A k \in Keys : /\ SavedOf(rs)[k] <= SavedOf(runs)[k]
                         /\ ViewOf(rs, Mem)[k] \in {ViewOf(runs, Mem)[k], SavedOf(rs)[k]}
  BY <1>6 DEF SavedOf, ViewOf
<1>9. Abstract!Drop
  BY <1>2, <1>7, <1>8 DEF Abstract!Drop
<1> QED BY <1>5, <1>9 DEF IndexInv, MapStep, Abstract!Next

\* After a death: the memtable file is a table t of rows that were in the page,
\* over runs that saved all the page had, or over those there were.
LEMMA LoseStep ==
    ASSUME IndexInv, NEW t \in Tables, past' = Empty, data' = Ordered(t),
           runs' \in Seq(Tables), Ages(runs', Empty, puts), NewerThan(t, runs'),
           \/ SavedOf(runs') = SavedOf(runs)
           \/ SavedOf(runs') = ViewOf(runs, Mem),
           \A k \in DOMAIN t : k \in DOMAIN Mem /\ t[k] <= Mem[k],
           \A k \in Keys : SavedIn(runs', k) <= ViewIn(runs', t, k)
                           /\ SavedIn(runs', k) <= ViewIn(runs, Mem, k),
           deaths < MaxDeath, deaths' = deaths + 1, UNCHANGED <<puts, drops>>
    PROVE  IndexInv' /\ MapStep
<1>1. Mem' = t /\ past' \in Tables /\ data' \in Seq(Rows)
  BY OrderedSame, MemEmpty DEF Mem
<1>2. puts \in Nat /\ Mem \in Tables /\ \A k \in DOMAIN Mem : Mem[k] <= puts
  BY StateFacts DEF Ages, UpTo
<1>3. \A k \in DOMAIN t : t[k] \in Nat /\ t[k] <= puts
  <2> TAKE k \in DOMAIN t
  <2>1. t[k] \in Vals /\ Mem[k] \in Vals /\ t[k] <= Mem[k] /\ Mem[k] <= puts
    BY <1>2, TableShape
  <2> QED BY <1>2, <2>1, ConstantsAssumption DEF Vals
<1>4. Ages(runs', t, puts)
  BY <1>3 DEF Ages, UpTo
<1>5. RowInv'
  <2>1. PageRows' = PageOf(Empty, Ordered(t))
    BY DEF PageRows, PageOf
  <2>2. \A r \in PageRows' : r[1] \in DOMAIN t /\ r[2] = t[r[1]]
    BY <2>1, TableRows
  <2>3. RowsOK(PageRows', runs', t)
    BY <2>2, OwnRows
  <2> QED BY <1>1, <2>3 DEF RowInv, RowsOK
<1>6. StoreOK' /\ AgeInv'
  BY <1>1, <1>4, ConstantsAssumption DEF IndexInv, StoreOK, AgeInv
<1>7. ASSUME NEW k \in Keys
      PROVE  /\ ViewIn(runs', t, k) \in 0 .. puts
             /\ SavedIn(runs', k) <= ViewIn(runs', t, k)
             /\ ViewIn(runs', t, k) <= ViewIn(runs, Mem, k)
  <2>1. SavedIn(runs', k) \in 0 .. puts
    BY <1>2, SavedRange DEF Ages
  <2>2. CASE k \in DOMAIN t
    <3>1. ViewIn(runs', t, k) = t[k] /\ ViewIn(runs, Mem, k) = Mem[k]
      BY <2>2 DEF ViewIn
    <3> QED BY <1>2, <1>3, <2>2, <3>1
  <2>3. CASE k \notin DOMAIN t
    <3>1. ViewIn(runs', t, k) = SavedIn(runs', k)
      BY <2>3 DEF ViewIn
    <3> QED BY <2>1, <3>1
  <2> QED BY <2>2, <2>3
<1>8. /\ [k \in Keys |-> Get(k)] = ViewOf(runs, Mem) /\ Saved = SavedOf(runs)
      /\ [k \in Keys |-> Get(k)]' = ViewOf(runs', t) /\ Saved' = SavedOf(runs')
  BY <1>1, <1>6, Mapping DEF IndexInv
<1>9. /\ ViewOf(runs', t) \in [Keys -> 0 .. puts]
      /\ \A k \in Keys : /\ SavedOf(runs')[k] <= ViewOf(runs', t)[k]
                         /\ ViewOf(runs', t)[k] <= ViewOf(runs, Mem)[k]
  BY <1>7 DEF SavedOf, ViewOf
<1>10. Abstract!Lose
  BY <1>8, <1>9 DEF Abstract!Lose
<1> QED BY <1>5, <1>6, <1>10 DEF IndexInv, MapStep, Abstract!Next

\* An empty memtable is no older than any stack.
LEMMA EmptyAges ==
    ASSUME NEW rs, NEW m, NEW n, Ages(rs, m, n)
    PROVE  Ages(rs, Empty, n)
BY MemEmpty DEF Ages, NewerThan, UpTo

\* What a page has is no older than what the runs have under it.
LEMMA NewerView ==
    ASSUME NEW rs \in Seq(Tables), NEW t \in Tables, NEW n \in Nat,
           NewerThan(t, rs), \A i \in 1 .. Len(rs) : UpTo(rs[i], n)
    PROVE  \A k : SavedIn(rs, k) <= ViewIn(rs, t, k)
<1> TAKE k
<1>0. SavedIn(rs, k) \in 0 .. n
  BY SavedRange
<1>1. CASE k \notin DOMAIN t
  BY <1>0, <1>1 DEF ViewIn
<1>2. CASE k \in DOMAIN t
  <2>0. ViewIn(rs, t, k) = t[k] /\ t[k] \in Vals
    BY <1>2, TableShape DEF ViewIn
  <2>1. CASE \A i \in 1 .. Len(rs) : k \notin DOMAIN rs[i]
    <3>1. SavedIn(rs, k) = 0
      BY <2>1, SavedShape DEF None
    <3> QED BY <2>0, <3>1, ConstantsAssumption DEF Vals
  <2>2. ASSUME NEW m \in 1 .. Len(rs), Youngest(rs, 1, k, m)
        PROVE  SavedIn(rs, k) <= ViewIn(rs, t, k)
    <3>1. SavedIn(rs, k) = rs[m][k] /\ k \in DOMAIN rs[m]
      BY <2>2, SavedShape DEF Youngest
    <3> QED BY <1>2, <2>0, <3>1 DEF NewerThan
  <2> QED BY <2>1, <2>2, SavedShape
<1> QED BY <1>1, <1>2

\* crash: the files as they were, but for rows of the memtable.
LEMMA LostRows ==
    ASSUME IndexInv, UNCHANGED <<runs, puts, drops>>, Survives(PageRows),
           deaths < MaxDeath, deaths' = deaths + 1
    PROVE  IndexInv' /\ MapStep
<1>1. PICK t \in Tables : (\A k \in DOMAIN t : <<k, t[k]>> \in PageRows) /\ data' = Ordered(t)
  BY DEF Survives
<1>2. past' = Empty
  BY DEF Survives
<1>3. Mem \in Tables /\ puts \in Nat /\ runs \in Seq(Tables) /\ Ages(runs, Mem, puts)
  BY StateFacts
<1>4. ASSUME NEW k \in DOMAIN t
      PROVE  /\ k \in DOMAIN Mem /\ t[k] <= Mem[k]
             /\ \A i \in 1 .. Len(runs) : k \in DOMAIN runs[i] => runs[i][k] <= t[k]
  <2> DEFINE r == <<k, t[k]>>
  <2>1. r \in PageRows /\ r[1] = k /\ r[2] = t[k]
    BY <1>1
  <2> HIDE DEF r
  <2>2. /\ r[1] \in DOMAIN Mem /\ r[2] <= Mem[r[1]]
        /\ \A i \in 1 .. Len(runs) : r[1] \in DOMAIN runs[i] => runs[i][r[1]] <= r[2]
    BY <2>1 DEF IndexInv, RowInv, RowsOK
  <2> QED BY <2>1, <2>2
<1>5. NewerThan(t, runs)
  BY <1>4 DEF NewerThan
<1>6. \A k : SavedIn(runs, k) <= ViewIn(runs, t, k) /\ SavedIn(runs, k) <= ViewIn(runs, Mem, k)
  BY <1>3, <1>5, NewerView DEF Ages
<1>7. Ages(runs', Empty, puts) /\ runs' \in Seq(Tables) /\ NewerThan(t, runs')
      /\ SavedOf(runs') = SavedOf(runs)
  BY <1>3, <1>5, EmptyAges DEF Ages
<1>8. \A k \in Keys : SavedIn(runs', k) <= ViewIn(runs', t, k)
                      /\ SavedIn(runs', k) <= ViewIn(runs, Mem, k)
  BY <1>6
<1> QED BY <1>1, <1>2, <1>4, <1>7, <1>8, LoseStep

\* crash: the run q of the whole page, or a merge with it, is in place, and the
\* memtable file has what it had, or less.
LEMMA LostSealed ==
    ASSUME IndexInv, UNCHANGED <<puts, drops>>, deaths < MaxDeath, deaths' = deaths + 1,
           Survives({<<k, Mem[k]>> : k \in DOMAIN Mem}),
           runs' \in Seq(Tables), Ages(runs', Mem, puts),
           \A k : SavedIn(runs', k) = ViewIn(runs, Mem, k)
    PROVE  IndexInv' /\ MapStep
<1>1. PICK t \in Tables : /\ \A k \in DOMAIN t : <<k, t[k]>> \in {<<j, Mem[j]>> : j \in DOMAIN Mem}
                          /\ data' = Ordered(t)
  BY DEF Survives
<1>2. past' = Empty
  BY DEF Survives
<1>3. Mem \in Tables /\ puts \in Nat
  BY StateFacts
<1>4. \A k \in DOMAIN t : k \in DOMAIN Mem /\ t[k] = Mem[k] /\ t[k] <= Mem[k]
  <2> TAKE k \in DOMAIN t
  <2>1. k \in DOMAIN Mem /\ t[k] = Mem[k]
    BY <1>1
  <2>2. t[k] \in Int
    BY TableShape, ConstantsAssumption DEF Vals
  <2> QED BY <2>1, <2>2
<1>5. NewerThan(t, runs') /\ Ages(runs', Empty, puts)
  BY <1>4, EmptyAges DEF Ages, NewerThan
<1>6. \A k : SavedIn(runs', k) \in 0 .. puts
  BY <1>3, SavedRange DEF Ages
<1>7. \A k : SavedIn(runs', k) <= ViewIn(runs', t, k)
  BY <1>3, <1>5, NewerView DEF Ages
<1>8. \A k \in Keys : SavedIn(runs', k) <= ViewIn(runs', t, k)
                      /\ SavedIn(runs', k) <= ViewIn(runs, Mem, k)
  BY <1>6, <1>7
<1>9. SavedOf(runs') = ViewOf(runs, Mem)
  BY DEF SavedOf, ViewOf
<1> QED BY <1>1, <1>2, <1>4, <1>5, <1>8, <1>9, LoseStep

\* The table that was pushed last is no older than any run.
LEMMA PushedAges ==
    ASSUME NEW rs \in Seq(Tables), NEW t \in Tables, NEW n \in Nat, Ages(rs, t, n)
    PROVE  Ages(Append(rs, t), t, n)
<1> DEFINE u == Append(rs, t)
<1>1. /\ Len(rs) \in Nat /\ Len(u) = Len(rs) + 1
      /\ \A i \in 1 .. Len(rs) : u[i] = rs[i]
      /\ u[Len(rs) + 1] = t
  BY PushShape
<1>2. Ascend(u) /\ \A i \in 1 .. Len(u) : UpTo(u[i], n)
  BY PushAscends DEF Ages
<1> HIDE DEF u
<1>3. NewerThan(t, u)
  <2> SUFFICES ASSUME NEW i \in 1 .. Len(u), NEW k \in DOMAIN u[i] \cap DOMAIN t
               PROVE  u[i][k] <= t[k]
    BY DEF NewerThan
  <2>1. CASE i \in 1 .. Len(rs)
    BY <1>1, <2>1 DEF Ages, NewerThan
  <2>2. CASE i = Len(rs) + 1
    <3>1. t[k] \in Int
      BY TableShape, ConstantsAssumption DEF Vals
    <3> QED BY <1>1, <2>2, <3>1
  <2> QED BY <1>1, <2>1, <2>2
<1> QED BY <1>2, <1>3 DEF Ages, u

\* crash: also within a commit, with the merged run on top of those it merges.
LEMMA CrashStep ==
    ASSUME IndexInv, crash
    PROVE  IndexInv' /\ MapStep
<1> DEFINE u == Append(runs, Mem)
<1>1. /\ UNCHANGED <<puts, drops>> /\ deaths < MaxDeath /\ deaths' = deaths + 1
      /\ \/ runs' = runs /\ Survives(PageRows)
         \/ /\ runs' = u \/ \E i \in 1 .. Len(u) : runs' = Append(u, MergedFrom(u, i))
            /\ Survives({<<k, Mem[k]>> : k \in DOMAIN Mem})
  BY DEF crash, Collapsed, Mem, MemOf
<1>2. Mem \in Tables /\ puts \in Nat /\ runs \in Seq(Tables) /\ Ages(runs, Mem, puts)
  BY StateFacts
<1>3. /\ u \in Seq(Tables)
      /\ \A k : SavedIn(u, k) = ViewIn(runs, Mem, k)
      /\ Ages(u, Mem, puts)
  BY <1>2, PushShape, PushSaved, PushedAges
<1>4. CASE runs' = runs /\ Survives(PageRows)
  BY <1>1, <1>4, LostRows
<1> HIDE DEF u
<1>5. CASE runs' = u /\ Survives({<<k, Mem[k]>> : k \in DOMAIN Mem})
  BY <1>1, <1>3, <1>5, LostSealed
<1>6. ASSUME NEW i \in 1 .. Len(u), runs' = Append(u, MergedFrom(u, i)),
             Survives({<<k, Mem[k]>> : k \in DOMAIN Mem})
      PROVE  IndexInv' /\ MapStep
  <2> DEFINE m == MergedFrom(u, i)
  <2>1. m \in Tables
    <3>1. Len(u) \in Nat /\ i \in 1 .. Len(u) + 1
      BY <1>3, LenProperties
    <3> QED BY <1>3, <3>1, MergeShape
  <2>2. NewerThan(m, u) /\ UpTo(m, puts)
    BY <1>2, <1>3, MergeNewest DEF Ages
  <2>3. \A k : SavedIn(Append(u, m), k) = SavedIn(u, k)
    BY <1>3, MergePushed
  <2>4. \A k \in DOMAIN m \cap DOMAIN Mem : m[k] <= Mem[k]
    <3> TAKE k \in DOMAIN m \cap DOMAIN Mem
    <3>1. /\ Len(u) \in Nat /\ i \in 1 .. Len(u) + 1 /\ i \in Nat \ {0}
          /\ k \in DOMAIN m <=> \E j \in i .. Len(u) : k \in DOMAIN u[j]
          /\ \A q : Youngest(u, i, k, q) => m[k] = u[q][k]
      BY <1>3, LenProperties, MergeShape
    <3>2. PICK j \in i .. Len(u) : k \in DOMAIN u[j]
      BY <3>1
    <3>3. PICK q \in i .. Len(u) : Youngest(u, i, k, q)
      BY <1>3, <3>1, <3>2, YoungestExists
    <3>4. q \in 1 .. Len(u) /\ k \in DOMAIN u[q] /\ m[k] = u[q][k]
      BY <3>1, <3>3 DEF Youngest
    <3> HIDE DEF m
    <3> QED BY <1>3, <3>4 DEF Ages, NewerThan
  <2> HIDE DEF m
  <2>5. /\ Append(u, m) \in Seq(Tables) /\ Ascend(Append(u, m))
        /\ \A j \in 1 .. Len(Append(u, m)) : UpTo(Append(u, m)[j], puts)
    BY <1>2, <1>3, <2>1, <2>2, PushShape, PushAscends DEF Ages
  <2>6. NewerThan(Mem, Append(u, m))
    <3>1. /\ Len(u) \in Nat /\ Len(Append(u, m)) = Len(u) + 1
          /\ \A j \in 1 .. Len(u) : Append(u, m)[j] = u[j]
          /\ Append(u, m)[Len(u) + 1] = m
      BY <1>3, <2>1, PushShape
    <3> SUFFICES ASSUME NEW j \in 1 .. Len(Append(u, m)),
                        NEW k \in DOMAIN Append(u, m)[j] \cap DOMAIN Mem
                 PROVE  Append(u, m)[j][k] <= Mem[k]
      BY DEF NewerThan
    <3>2. CASE j \in 1 .. Len(u)
      BY <1>3, <3>1, <3>2 DEF Ages, NewerThan
    <3>3. CASE j = Len(u) + 1
      BY <2>4, <3>1, <3>3
    <3> QED BY <3>1, <3>2, <3>3
  <2>7. Ages(Append(u, m), Mem, puts)
    BY <1>2, <2>5, <2>6 DEF Ages
  <2>8. runs' = Append(u, m)
    BY <1>6 DEF m
  <2> QED BY <1>1, <1>3, <1>6, <2>3, <2>5, <2>7, <2>8, LostSealed
<1> QED BY <1>1, <1>4, <1>5, <1>6

-----------------------------------------------------------------------------
(* The theorems.                                                           *)

\* What is left when a drop() stops is the old part of the stack.
LEMMA ThinShape ==
    ASSUME NEW rs \in Seq(Tables), NEW n \in 0 .. Len(rs)
    PROVE  /\ SubSeq(rs, 1, n) \in Seq(Tables) /\ Within(SubSeq(rs, 1, n), rs)
           /\ Len(SubSeq(rs, 1, n)) = n
<1> DEFINE q == SubSeq(rs, 1, n)
<1>1. q \in Seq(Tables) /\ Len(q) = n /\ \A i \in 1 .. n : q[i] = rs[i]
  BY OlderShape
<1>2. Len(rs) \in Nat
  BY LenProperties
<1> HIDE DEF q
<1>3. \A i \in 1 .. n : i \in 1 .. Len(rs)
  BY <1>2
<1>4. Within(q, rs)
  BY <1>1, <1>3 DEF Within
<1> QED BY <1>1, <1>4 DEF q

\* Every step of the index keeps the invariant and is a step of the map.
LEMMA IndexStep ==
    ASSUME IndexInv, [Next]_vars
    PROVE  IndexInv' /\ MapStep
<1>1. CASE UNCHANGED vars
  BY <1>1, StillStep DEF vars, store
<1>2. CASE open("r") \/ open("rw")
  BY <1>2, StillStep DEF open, store
<1>3. CASE commit
  BY <1>3, CommitStep
<1>3a. CASE commitFails
  BY <1>3a, CollapseStep
<1>4. CASE get
  BY <1>4, SortStep DEF get
<1>5. CASE close
  BY <1>5, StillStep DEF close, store
<1>6. CASE crash
  BY <1>6, CrashStep
<1>7. ASSUME NEW k \in Keys, put(k) \/ putFails(k) PROVE IndexInv' /\ MapStep
  BY <1>7, PutStep
<1>8. ASSUME NEW k \in Keys, seek(k) PROVE IndexInv' /\ MapStep
  BY <1>8, SortStep DEF seek, Places
<1>9. ASSUME NEW k \in Keys, NEW h \in Keys, range(k, h) PROVE IndexInv' /\ MapStep
  BY <1>9, SortStep DEF range, Places
<1>10. ASSUME NEW c \in Cursors, pull(c) \/ pullBad(c) PROVE IndexInv' /\ MapStep
  BY <1>10, StillStep DEF pull, pullBad, store
<1>11. CASE cbReturns(TRUE) \/ cbReturns(FALSE)
  BY <1>11, StillStep DEF cbReturns, store
<1>12. ASSUME NEW i \in 0 .. Len(runs), drop(SubSeq(runs, 1, i))
       PROVE  IndexInv' /\ MapStep
  BY <1>12, ThinShape, DropStep DEF IndexInv, StoreOK
<1>13. ASSUME NEW i \in 1 .. Len(runs), drop(RemoveAt(runs, i))
       PROVE  IndexInv' /\ MapStep
  BY <1>13, DropShape, DropStep DEF IndexInv, StoreOK
<1> QED BY <1>1, <1>2, <1>3, <1>3a, <1>4, <1>5, <1>6, <1>7, <1>8, <1>9, <1>10, <1>11,
           <1>12, <1>13 DEF Next

\* An index that was never opened is an empty map.
LEMMA IndexInit ==
    ASSUME Init
    PROVE  IndexInv /\ Abstract!Init
<1>1. runs = <<>> /\ past = Empty /\ data = <<>> /\ puts = 0 /\ drops = 0 /\ deaths = 0
  BY DEF Init
<1>2. Mem = Empty /\ StoreOK
  BY <1>1, MemEmpty, ConstantsAssumption DEF Mem, StoreOK
<1>3. AgeInv
  BY <1>1, <1>2, MemEmpty DEF AgeInv, Ages, Ascend, NewerThan, UpTo
<1>3a. RowInv
  <2>1. PageRows = PageOf(Empty, <<>>)
    BY <1>1 DEF PageRows, PageOf
  <2>2. \A r \in PageRows : FALSE
    BY <2>1, MemEmpty, TableRows
  <2> QED BY <2>2 DEF RowInv, RowsOK
<1>4. ViewOf(runs, Mem) = SavedOf(runs)
  BY <1>2, MemEmpty, EmptyView
<1>5. SavedOf(runs) = [k \in Keys |-> None]
  <2>1. runs \in Seq(Tables) /\ \A i \in 1 .. Len(runs) : FALSE
    BY <1>1
  <2>2. \A k \in Keys : SavedIn(runs, k) = None
    BY <2>1, SavedShape
  <2> QED BY <2>2 DEF SavedOf
<1>6. [k \in Keys |-> Get(k)] = [k \in Keys |-> 0] /\ Saved = [k \in Keys |-> 0]
  BY <1>2, <1>4, <1>5, Mapping DEF None
<1> QED BY <1>1, <1>2, <1>3, <1>3a, <1>6 DEF IndexInv, Abstract!Init, Abstract!None

\* The values of a key ascend from the oldest run to the memtable, in every
\* state: a crash that leaves a merged run beside those it merges, and a drop
\* from the middle of the stack, do not disturb it.
THEOREM RunsAscend == Spec => []IndexInv
<1>1. Init => IndexInv
  BY IndexInit
<1>2. IndexInv /\ [Next]_vars => IndexInv'
  BY IndexStep
<1> QED BY <1>1, <1>2, PTL DEF Spec

\* What get answers through runs, PAST and DATA is what a plain map would, for
\* any keys, any page size and any choice of the ladder: sorts, collapses,
\* seals, merges, closings and failing commits change no answer; only a death of
\* the process loses rows, and only such as were not sealed.
THEOREM IndexIsAMap == Spec => ImplementsMap
<1>1. Init => Abstract!Init
  BY IndexInit
<1>2. IndexInv /\ [Next]_vars => [Abstract!Next]_(Abstract!vars)
  BY IndexStep DEF MapStep
<1> QED BY <1>1, <1>2, RunsAscend, PTL DEF Spec, ImplementsMap, Abstract!Spec

\* A commit that does not throw puts all that get answered before it into the
\* runs.
THEOREM CommitIsDurable == Spec => CommitSaves
<1>1. IndexInv /\ [Next]_vars => [commit => Saved' = [k \in Keys |-> Get(k)]]_vars
  BY CommitStep
<1> QED BY <1>1, RunsAscend, PTL DEF Spec, CommitSaves

-----------------------------------------------------------------------------
(* The bounds.                                                             *)

\* The page and the stack stay within their bounds.
PageOK(p, d) == Cardinality(DOMAIN p) + Len(d) <= MemMax
BoundInv ==
    /\ Len(runs) <= MaxRuns + 1 /\ (live => Len(runs) + Cell <= MaxRuns)
    /\ PageOK(past, data)
    /\ live \in BOOLEAN /\ rw \in BOOLEAN /\ cb \in BOOLEAN
    /\ moved \subseteq Cursors /\ gone \subseteq Cursors

\* Dedup never makes DATA longer.
LEMMA DedupShorter ==
    ASSUME NEW d \in Seq(Rows)
    PROVE  /\ IsFiniteSet(DOMAIN Deduped(d)) /\ Cardinality(DOMAIN Deduped(d)) \in Nat
           /\ Cardinality(DOMAIN Deduped(d)) <= Len(d)
           /\ Len(Ordered(Deduped(d))) <= Len(d)
<1> DEFINE n == Len(d)
           D == DOMAIN Deduped(d)
           f == [i \in 1 .. n |-> d[i][1]]
<1>1. n \in Nat
  BY LenProperties
<1>2. Deduped(d) \in Tables /\ \A k : k \in D <=> \E i \in 1 .. n : d[i][1] = k
  BY DedupShape
<1>3. Len(Ordered(Deduped(d))) = Cardinality(D)
  BY <1>2, OrderedShape
<1>4. IsFiniteSet(D)
  BY <1>2, TableShape, ConstantsAssumption, FS_Subset
<1> HIDE DEF n, D
<1>5. f \in Surjection(1 .. n, D)
  BY <1>2 DEF Surjection
<1>6. Cardinality(D) <= n
  BY <1>1, <1>5, FS_SurjCardinalityBound DEF ExistsSurjection
<1> QED BY <1>3, <1>4, <1>6, FS_CardinalityType DEF n, D

\* A page after the lane's sync without collapse, and an empty one.
LEMMA PageSorted ==
    ASSUME StoreOK, PageOK(past, data)
    PROVE  PageOK(past, Sorted)
<1> DEFINE c == Cardinality(DOMAIN past)
           n == Len(data)
           m == Len(Ordered(Deduped(data)))
<1>1. CASE Clean(data)
  BY <1>1 DEF Sorted
<1>2. CASE ~Clean(data)
  <2>1. past \in Tables /\ data \in Seq(Rows)
    BY DEF StoreOK
  <2>2. IsFiniteSet(DOMAIN past)
    BY <2>1, TableShape, ConstantsAssumption, FS_Subset
  <2>3. c \in Nat /\ MemMax \in Nat /\ n \in Nat /\ m \in Nat
    BY <2>1, <2>2, FS_CardinalityType, LenProperties, SortedSame, ConstantsAssumption
  <2>4. m <= n /\ c + n <= MemMax
    BY <2>1, DedupShorter DEF PageOK
  <2> HIDE DEF c, n, m
  <2>5. c + m <= MemMax
    BY <2>3, <2>4
  <2> QED BY <1>2, <2>5 DEF PageOK, c, m, Sorted
<1> QED BY <1>1, <1>2

\* An empty page is within any bound.
LEMMA PageEmpty == PageOK(Empty, <<>>)
<1>1. Cardinality(DOMAIN Empty) = 0
  BY MemEmpty, FS_EmptySet
<1> QED BY <1>1, ConstantsAssumption DEF PageOK

\* What a death leaves of a page is no larger than the page was.
LEMMA PageLost ==
    ASSUME StoreOK, PageOK(past, data), NEW t \in Tables, DOMAIN t \subseteq DOMAIN Mem
    PROVE  PageOK(Empty, Ordered(t))
<1> DEFINE P == DOMAIN past
           D == DOMAIN Deduped(data)
           T == DOMAIN t
<1>1. past \in Tables /\ data \in Seq(Rows)
  BY DEF StoreOK
<1>2. IsFiniteSet(P) /\ IsFiniteSet(D) /\ Cardinality(D) <= Len(data)
      /\ Cardinality(D) \in Nat /\ Len(data) \in Nat
  BY <1>1, TableShape, ConstantsAssumption, FS_Subset, DedupShorter, LenProperties
<1>3. T \subseteq D \cup P
  BY <1>1, MemShape DEF Mem
<1>4. Cardinality(P) + Len(data) <= MemMax /\ MemMax \in Nat
  BY ConstantsAssumption DEF PageOK
<1>5. Len(Ordered(t)) = Cardinality(T)
  BY OrderedShape
<1>6. Cardinality(DOMAIN Empty) = 0
  BY MemEmpty, FS_EmptySet
<1> HIDE DEF P, D, T
<1>7. /\ IsFiniteSet(D \cup P) /\ Cardinality(P) \in Nat
      /\ Cardinality(D \cup P) = Cardinality(D) + Cardinality(P) - Cardinality(D \cap P)
  BY <1>2, FS_Union, FS_CardinalityType
<1>8. Cardinality(D \cap P) \in Nat
  BY <1>2, FS_Intersection, FS_CardinalityType
<1>9. Cardinality(T) \in Nat /\ Cardinality(T) <= Cardinality(D \cup P)
  BY <1>3, <1>7, FS_Subset, FS_CardinalityType
<1>10. 0 + Cardinality(T) <= MemMax
  BY <1>2, <1>4, <1>7, <1>8, <1>9
<1> QED BY <1>5, <1>6, <1>10 DEF PageOK

\* Where there is something to seal, the memtable has its cell.
LEMMA UnsealedCell ==
    /\ Cell \in {0, 1}
    /\ Unsealed => Cell = 1
<1>1. Cell \in {0, 1}
  BY DEF Cell
<1>2. ASSUME past = Empty, data = <<>> PROVE ~Unsealed
  BY <1>2, MemEmpty DEF Unsealed, Collapsed, MemOf
<1> QED BY <1>1, <1>2 DEF Cell

\* The stack and the page after a seal: the runs below the i-th are what they
\* were.
LEMMA SealLength ==
    ASSUME runs \in Seq(Tables), NEW t \in Tables, NEW i, Seals(t, i)
    PROVE  /\ i \in 1 .. Len(runs) + 1 /\ Len(runs) \in Nat
           /\ Len(runs') = i /\ i <= MaxRuns
           /\ PageOK(past', data') /\ Cell' = 0
           /\ \A j \in 1 .. i - 1 : runs'[j] = runs[j]
<1> DEFINE u == Append(runs, t)
           a == SubSeq(u, 1, i - 1)
           m == MergedFrom(u, i)
<1>1. i \in 1 .. Len(runs) + 1 /\ i <= MaxRuns /\ runs' = Append(a, m)
      /\ past' = Empty /\ data' = <<>>
  BY DEF Seals, Sealed
<1>2. u \in Seq(Tables) /\ Len(u) = Len(runs) + 1 /\ Len(runs) \in Nat
      /\ \A j \in 1 .. Len(runs) : u[j] = runs[j]
  BY PushShape
<1> HIDE DEF u
<1>3. i \in 1 .. Len(u) + 1 /\ i - 1 \in 0 .. Len(u) /\ i \in Nat
  BY <1>1, <1>2
<1>4. a \in Seq(Tables) /\ Len(a) = i - 1 /\ m \in Tables
      /\ \A j \in 1 .. i - 1 : a[j] = u[j]
  BY <1>2, <1>3, OlderShape, MergeShape
<1> HIDE DEF a, m
<1>5. Len(Append(a, m)) = Len(a) + 1 /\ \A j \in 1 .. Len(a) : Append(a, m)[j] = a[j]
  BY <1>4, PushShape
<1>6. Len(runs') = i
  BY <1>1, <1>3, <1>4, <1>5
<1>7. ASSUME NEW j \in 1 .. i - 1 PROVE runs'[j] = runs[j]
  <2>1. j \in 1 .. Len(a) /\ j \in 1 .. Len(runs)
    BY <1>1, <1>2, <1>4
  <2> QED BY <1>1, <1>2, <1>4, <1>5, <2>1
<1>8. Cell' = 0
  BY <1>1 DEF Cell
<1> QED BY <1>1, <1>2, <1>6, <1>7, <1>8, PageEmpty

\* A put that keeps the page: as it is, or collapsed.
LEMMA PutBounds ==
    ASSUME IndexInv, BoundInv, NEW k \in Keys, put(k) \/ putFails(k)
    PROVE  /\ Len(runs') <= MaxRuns + 1 /\ Len(runs') + Cell' <= MaxRuns
           /\ PageOK(past', data')
<1> DEFINE rows == Append(data, <<k, puts + 1>>)
           p == Cardinality(DOMAIN past)
           t == Collapsed(rows)
<1>1. /\ runs \in Seq(Tables) /\ past \in Tables /\ data \in Seq(Rows)
      /\ Len(runs) \in Nat /\ MaxRuns \in Nat /\ MemMax \in Nat /\ Len(runs) < MaxRuns
  BY LenProperties, ConstantsAssumption DEF IndexInv, StoreOK, put, putFails
<1>2. rows \in Seq(Rows)
  <2>1. puts + 1 \in Vals
    BY ConstantsAssumption DEF put, putFails, IndexInv, StoreOK, Vals
  <2>2. <<k, puts + 1>> \in Rows
    BY <2>1 DEF Rows
  <2> QED BY <1>1, <2>2, AppendProperties
<1>3. t \in Tables
  <2> HIDE DEF rows
  <2> QED BY <1>1, <1>2, MemShape DEF Collapsed, MemOf
<1>4. p \in Nat /\ Len(rows) \in Nat /\ Cardinality(DOMAIN t) \in Nat
  <2>1. IsFiniteSet(DOMAIN past) /\ IsFiniteSet(DOMAIN t)
    BY <1>1, <1>3, TableShape, ConstantsAssumption, FS_Subset
  <2> QED BY <1>2, <2>1, FS_CardinalityType, LenProperties
<1>5. \/ runs' = runs /\ past' = past /\ data' = rows /\ ~(p + Len(rows) > MemMax)
      \/ runs' = runs /\ past' = t /\ data' = <<>> /\ Cardinality(DOMAIN t) <= MemMax
      \/ \E i \in 1 .. Len(runs) + 1 : Seals(t, i)
  <2> HIDE DEF rows
  <2>1. CASE put(k)
    <3>1. \/ ~(p + Len(rows) >= MemMax) /\ data' = rows /\ UNCHANGED <<runs, past>>
          \/ Cardinality(DOMAIN t) < MemMax /\ Collapses(rows)
          \/ \E i \in 1 .. Len(runs) + 1 : Seals(t, i)
      BY <2>1 DEF put, rows
    <3> HIDE DEF p, t
    <3> QED BY <1>1, <1>4, <3>1 DEF Collapses, t
  <2>2. CASE putFails(k)
    <3>1. \/ p + Len(rows) = MemMax /\ data' = rows /\ UNCHANGED <<runs, past>>
          \/ Cardinality(DOMAIN t) = MemMax /\ Collapses(rows)
      BY <2>2 DEF putFails, rows
    <3> HIDE DEF p, t
    <3> QED BY <1>1, <1>4, <3>1 DEF Collapses, t
  <2> QED BY <2>1, <2>2
<1> HIDE DEF rows, t
<1>6. CASE runs' = runs /\ past' = past /\ data' = rows /\ ~(p + Len(rows) > MemMax)
  <2>1. p + Len(rows) <= MemMax
    <3> HIDE DEF p
    <3> QED BY <1>1, <1>4, <1>6
  <2>2. Cell' \in {0, 1}
    BY DEF Cell
  <2>3. Len(runs') <= MaxRuns + 1 /\ Len(runs') + Cell' <= MaxRuns
    BY <1>1, <1>6, <2>2
  <2> QED BY <1>6, <2>1, <2>3 DEF PageOK
<1>7. CASE runs' = runs /\ past' = t /\ data' = <<>> /\ Cardinality(DOMAIN t) <= MemMax
  <2>1. Cell' \in {0, 1}
    BY DEF Cell
  <2>2. Len(runs') <= MaxRuns + 1 /\ Len(runs') + Cell' <= MaxRuns
    BY <1>1, <1>7, <2>1
  <2>3. Cardinality(DOMAIN t) + Len(<<>>) <= MemMax
    BY <1>1, <1>4, <1>7
  <2> QED BY <1>7, <2>2, <2>3 DEF PageOK
<1>8. ASSUME NEW i \in 1 .. Len(runs) + 1, Seals(t, i)
      PROVE  /\ Len(runs') <= MaxRuns + 1 /\ Len(runs') + Cell' <= MaxRuns
             /\ PageOK(past', data')
  <2>1. Len(runs') = i /\ i <= MaxRuns /\ Cell' = 0 /\ PageOK(past', data')
    BY <1>1, <1>3, <1>8, SealLength
  <2> QED BY <1>1, <2>1
<1> QED BY <1>5, <1>6, <1>7, <1>8

\* A commit keeps them, whether it seals, has nothing to seal or throws.
LEMMA CommitBounds ==
    ASSUME IndexInv, BoundInv, commit \/ commitFails
    PROVE  /\ Len(runs') <= MaxRuns + 1 /\ Len(runs') + Cell' <= MaxRuns
           /\ PageOK(past', data')
<1> DEFINE t == Collapsed(data)
<1>1. /\ runs \in Seq(Tables) /\ past \in Tables /\ data \in Seq(Rows) /\ StoreOK
      /\ Len(runs) \in Nat /\ MaxRuns \in Nat /\ MemMax \in Nat /\ live
      /\ Len(runs) + Cell <= MaxRuns /\ PageOK(past, data)
  BY LenProperties, ConstantsAssumption
     DEF IndexInv, StoreOK, BoundInv, commit, commitFails
<1>2. t \in Tables /\ t = Mem
  BY <1>1, MemShape DEF Collapsed, MemOf, Mem
<1>3. ASSUME NEW i \in 1 .. Len(runs) + 1, Seals(t, i)
      PROVE  /\ Len(runs') <= MaxRuns + 1 /\ Len(runs') + Cell' <= MaxRuns
             /\ PageOK(past', data')
  <2> HIDE DEF t
  <2>1. Len(runs') = i /\ i <= MaxRuns /\ Cell' = 0 /\ PageOK(past', data')
    BY <1>1, <1>2, <1>3, SealLength
  <2> QED BY <1>1, <2>1
<1>4. CASE UNCHANGED <<runs, past, data>>
  <2>1. Cell' = Cell /\ Cell \in {0, 1}
    BY <1>4, UnsealedCell DEF Cell
  <2> QED BY <1>1, <1>4, <2>1
<1>5. CASE Unsealed /\ Collapses(data)
  <2>1. runs' = runs /\ past' = t /\ data' = <<>>
    BY <1>5 DEF Collapses
  <2>2. Cell' \in {0, 1} /\ Cell = 1
    BY <1>5, UnsealedCell DEF Cell
  <2>3. PageOK(Empty, Ordered(t))
    BY <1>1, <1>2, PageLost
  <2>4. Cardinality(DOMAIN t) + 0 <= MemMax
    <3>1. Cardinality(DOMAIN Empty) = 0
      BY MemEmpty, FS_EmptySet
    <3>2. Len(Ordered(t)) = Cardinality(DOMAIN t) /\ Len(Ordered(t)) \in Nat
      BY <1>2, OrderedShape, LenProperties
    <3> HIDE DEF t
    <3> QED BY <1>1, <2>3, <3>1, <3>2 DEF PageOK
  <2> HIDE DEF t
  <2>5. PageOK(past', data')
    BY <2>1, <2>4 DEF PageOK
  <2>6. Len(runs') + Cell' <= MaxRuns /\ Len(runs') <= MaxRuns + 1
    BY <1>1, <2>1, <2>2
  <2> QED BY <2>5, <2>6
<1> QED BY <1>3, <1>4, <1>5 DEF commit, commitFails

\* A death leaves at most one file more than the dict has cells.
LEMMA CrashBounds ==
    ASSUME IndexInv, BoundInv, crash
    PROVE  Len(runs') <= MaxRuns + 1 /\ PageOK(past', data')
<1> DEFINE t == Collapsed(data)
           u == Append(runs, t)
<1>1. /\ runs \in Seq(Tables) /\ past \in Tables /\ data \in Seq(Rows) /\ StoreOK
      /\ Len(runs) \in Nat /\ MaxRuns \in Nat /\ Len(runs) <= MaxRuns + 1
      /\ (live => Len(runs) + Cell <= MaxRuns) /\ PageOK(past, data)
  BY LenProperties, ConstantsAssumption DEF IndexInv, StoreOK, BoundInv
<1>2. t \in Tables /\ t = Mem
  BY <1>1, MemShape DEF Collapsed, MemOf, Mem
<1>3. ASSUME NEW rows, Survives(rows), \A r \in rows : r[1] \in DOMAIN Mem
      PROVE  PageOK(past', data')
  <2>1. PICK q \in Tables : (\A k \in DOMAIN q : <<k, q[k]>> \in rows) /\ data' = Ordered(q)
    BY <1>3 DEF Survives
  <2>2. DOMAIN q \subseteq DOMAIN Mem
    <3> SUFFICES ASSUME NEW k \in DOMAIN q PROVE k \in DOMAIN Mem
      OBVIOUS
    <3>1. <<k, q[k]>>[1] = k
      OBVIOUS
    <3> QED BY <1>3, <2>1, <3>1
  <2> QED BY <1>1, <1>3, <2>1, <2>2, PageLost DEF Survives
<1>4. CASE UNCHANGED runs /\ Survives(PageRows)
  <2>1. \A r \in PageRows : r[1] \in DOMAIN Mem
    BY DEF IndexInv, RowInv, RowsOK
  <2> QED BY <1>1, <1>3, <1>4, <2>1
<1>5. CASE /\ live /\ Unsealed
           /\ runs' \in {u} \cup {Append(u, MergedFrom(u, i)) : i \in 1 .. Len(u)}
           /\ Survives({<<k, t[k]>> : k \in DOMAIN t})
  <2>1. \A r \in {<<k, t[k]>> : k \in DOMAIN t} : r[1] \in DOMAIN Mem
    BY <1>2
  <2>2. PageOK(past', data')
    BY <1>3, <1>5, <2>1
  <2>3. Len(runs) + 1 <= MaxRuns
    BY <1>1, <1>5, UnsealedCell
  <2>4. u \in Seq(Tables) /\ Len(u) = Len(runs) + 1
    BY <1>1, <1>2, PushShape
  <2> HIDE DEF u
  <2>5. \A i \in 1 .. Len(u) : Len(Append(u, MergedFrom(u, i))) = Len(u) + 1
    BY <2>4, MergeShape, PushShape
  <2>6. Len(runs') <= Len(runs) + 2
    BY <1>1, <1>5, <2>4, <2>5
  <2> QED BY <1>1, <2>2, <2>3, <2>4, <2>5, <2>6, LenProperties
<1> QED BY <1>4, <1>5 DEF crash

\* Every step keeps the bounds: a put that fills the page collapses or seals it,
\* a query that sorts DATA never makes it longer, and a handle never has more
\* files than cells.
LEMMA BoundStep ==
    ASSUME IndexInv, BoundInv, [Next]_vars
    PROVE  BoundInv'
<1>1. /\ StoreOK /\ runs \in Seq(Tables) /\ Len(runs) \in Nat /\ MaxRuns \in Nat
  BY LenProperties, ConstantsAssumption DEF IndexInv, StoreOK
<1>2. /\ Len(runs) <= MaxRuns + 1 /\ (live => Len(runs) + Cell <= MaxRuns)
      /\ PageOK(past, data)
      /\ live \in BOOLEAN /\ rw \in BOOLEAN /\ cb \in BOOLEAN
      /\ moved \subseteq Cursors /\ gone \subseteq Cursors
  BY DEF BoundInv
<1>3. PageOK(past, Sorted) /\ (Cell = 0 => Sorted = <<>>)
  <2>1. Cell = 0 => data = <<>>
    BY DEF Cell
  <2>2. Clean(<<>>)
    BY DEF Clean
  <2> QED BY <1>1, <1>2, <2>1, <2>2, PageSorted DEF Sorted
<1>4. (\A srcs : Pointing(srcs) \subseteq Cursors) /\ Moved \subseteq Cursors
  BY <1>2 DEF Pointing, Moved
<1>5. Cell \in {0, 1}
  BY UnsealedCell
<1> DEFINE Stack == /\ Len(runs') <= MaxRuns + 1 /\ (live' => Len(runs') + Cell' <= MaxRuns)
                    /\ PageOK(past', data')
           Flags == live' \in BOOLEAN /\ rw' \in BOOLEAN /\ cb' \in BOOLEAN
                    /\ moved' \subseteq Cursors /\ gone' \subseteq Cursors
<1>6. SUFFICES Stack /\ Flags
  BY DEF BoundInv, PageOK
<1>7. ASSUME UNCHANGED <<runs, past, data>>, live' => live PROVE Stack
  <2>1. Cell' = Cell
    BY <1>7 DEF Cell
  <2> QED BY <1>2, <1>7, <2>1
<1>8. ASSUME UNCHANGED <<runs, past, live>>, data' = Sorted PROVE Stack
  <2>1. Cell' <= Cell
    <3>1. Cell = 0 => Cell' = 0
      BY <1>3, <1>8 DEF Cell
    <3>2. Cell' \in {0, 1}
      BY DEF Cell
    <3> QED BY <1>5, <3>1, <3>2
  <2>2. Cell' \in {0, 1}
    BY DEF Cell
  <2> QED BY <1>1, <1>2, <1>3, <1>5, <1>8, <2>1, <2>2
<1>9. CASE UNCHANGED vars
  BY <1>2, <1>7, <1>9 DEF vars, store
<1>10. ASSUME NEW mode, open(mode) PROVE Stack /\ Flags
  <2>1. UNCHANGED <<runs, past, data>> /\ Len(runs) + Cell <= MaxRuns
    BY <1>10 DEF open, store
  <2>2. Cell' = Cell
    BY <2>1 DEF Cell
  <2>3. Stack
    BY <1>2, <2>1, <2>2
  <2> QED BY <1>2, <1>10, <2>3 DEF open
<1>11. CASE commit \/ commitFails
  <2>1. Stack
    BY <1>11, CommitBounds
  <2>2. Flags
    BY <1>2, <1>4, <1>11 DEF commit, commitFails, Seals, Collapses
  <2> QED BY <2>1, <2>2
<1>12. ASSUME NEW k \in Keys, put(k) \/ putFails(k) PROVE Stack /\ Flags
  <2>1. Stack
    BY <1>12, PutBounds
  <2>2. Flags
    BY <1>2, <1>4, <1>12 DEF put, putFails, Seals, Collapses
  <2> QED BY <2>1, <2>2
<1>13. CASE get
  <2>1. Stack
    BY <1>8, <1>13 DEF get
  <2> QED BY <1>2, <1>4, <1>13, <2>1 DEF get
<1>14. ASSUME NEW c, NEW lo, NEW hi, Places(c, lo, hi) PROVE Stack /\ Flags
  <2>1. Stack
    BY <1>8, <1>14 DEF Places
  <2> QED BY <1>2, <1>4, <1>14, <2>1 DEF Places
<1>15. ASSUME NEW c \in Cursors, pull(c) \/ pullBad(c) PROVE Stack /\ Flags
  <2>1. UNCHANGED <<runs, past, data, live, rw, moved, gone>> /\ cb' \in BOOLEAN
    BY <1>2, <1>15 DEF pull, pullBad, store
  <2>2. Stack
    BY <1>7, <2>1
  <2> QED BY <1>2, <2>1, <2>2
<1>16. ASSUME NEW e \in BOOLEAN, cbReturns(e) PROVE Stack /\ Flags
  <2>1. Stack
    BY <1>7, <1>16 DEF cbReturns, store
  <2> QED BY <1>2, <1>16, <2>1 DEF cbReturns
<1>17. ASSUME NEW rs, drop(rs), Len(rs) \in Nat, Len(rs) <= Len(runs) PROVE Stack /\ Flags
  <2>1. runs' = rs /\ UNCHANGED <<past, data, live, rw, cb>>
    BY <1>17 DEF drop
  <2>2. Cell' = Cell
    BY <2>1 DEF Cell
  <2>3. Len(runs') <= MaxRuns + 1 /\ (live => Len(runs') + Cell' <= MaxRuns)
    BY <1>1, <1>2, <1>5, <1>17, <2>1, <2>2
  <2>4. Flags
    BY <1>2, <1>4, <1>17, <2>1 DEF drop
  <2> QED BY <1>2, <2>1, <2>3, <2>4
<1>18. ASSUME NEW i \in 0 .. Len(runs), drop(SubSeq(runs, 1, i)) PROVE Stack /\ Flags
  <2>1. Len(SubSeq(runs, 1, i)) = i /\ i \in Nat /\ i <= Len(runs)
    BY <1>1, ThinShape
  <2> QED BY <1>17, <1>18, <2>1
<1>19. ASSUME NEW i \in 1 .. Len(runs), drop(RemoveAt(runs, i)) PROVE Stack /\ Flags
  <2>1. Len(RemoveAt(runs, i)) = Len(runs) - 1
    BY <1>1, DropShape
  <2>2. Len(RemoveAt(runs, i)) \in Nat /\ Len(RemoveAt(runs, i)) <= Len(runs)
    BY <1>1, <2>1
  <2> QED BY <1>17, <1>19, <2>2
<1>20. CASE close
  <2>1. Stack
    BY <1>7, <1>20 DEF close, store
  <2> QED BY <1>2, <1>4, <1>20, <2>1 DEF close
<1>21. CASE crash
  <2>1. live' = FALSE /\ Flags
    BY <1>21 DEF crash
  <2> QED BY <1>21, <2>1, CrashBounds
<1> HIDE DEF Stack, Flags
<1> QED
  BY <1>9, <1>10, <1>11, <1>12, <1>13, <1>14, <1>15, <1>16, <1>18, <1>19, <1>20, <1>21
     DEF Next, seek, range

-----------------------------------------------------------------------------
(* The cursors.                                                            *)

\* What lies at each source's addresses.
Layout(rs, p, d) ==
    [s \in Int |-> IF s = Data THEN d
                   ELSE IF s = Past THEN Ordered(p)
                   ELSE IF s \in 1 .. Len(rs) THEN Ordered(rs[s]) ELSE <<>>]
Mapped == Layout(runs, past, data)

\* The positions a slice has yet to give, and the row at one.
On(sl) == sl.at .. sl.end - 1
Row(M, sl, p) == M[sl.src][p]

\* Its rows are there, in key order.
Lies(M, sl) ==
    \A p \in On(sl) :
        /\ p \in 1 .. Len(M[sl.src])
        /\ \A q \in On(sl) : p < q => Row(M, sl, p)[1] < Row(M, sl, q)[1]

\* The merge of the slices, the youngest winning, is the table t.
Agrees(M, ss, t) ==
    /\ \A i \in 1 .. Len(ss) : \A p \in On(ss[i]) : Row(M, ss[i], p)[1] \in DOMAIN t
    /\ \A k \in DOMAIN t : \E i \in 1 .. Len(ss) :
           /\ \E p \in On(ss[i]) : Row(M, ss[i], p) = <<k, t[k]>>
           /\ \A j \in 1 .. Len(ss) : \A q \in On(ss[j]) :
                  Row(M, ss[j], q)[1] = k => j <= i
Good(M, ss, t) == (\A i \in 1 .. Len(ss) : Lies(M, ss[i])) /\ Agrees(M, ss, t)

\* A cursor under whose pointers no row was moved or rewritten has yet to
\* deliver the merge of its slices.
CursorInv ==
    /\ cur \in [Cursors -> Seq(Slices)] /\ want \in [Cursors -> Tables]
    /\ \A c \in Cursors \ (moved \cup gone) : Good(Mapped, cur[c], want[c])

\* The layout is rows everywhere, and what the model reads.
LEMMA LayoutShape ==
    ASSUME NEW rs \in Seq(Tables), NEW p \in Tables, NEW d \in Seq(Rows)
    PROVE  Layout(rs, p, d) \in [Int -> Seq(Rows)]
<1> DEFINE M == Layout(rs, p, d)
<1>1. Ordered(p) \in Seq(Rows) /\ <<>> \in Seq(Rows)
  BY OrderedShape
<1>2. \A i \in 1 .. Len(rs) : Ordered(rs[i]) \in Seq(Rows)
  BY RunShape, OrderedShape
<1>3. \A s \in Int : M[s] \in Seq(Rows)
  BY <1>1, <1>2 DEF Layout
<1> QED BY <1>3 DEF Layout

LEMMA LayoutReads ==
    ASSUME NEW s \in Int, NEW d
    PROVE  RowsAt(s, d) = Layout(runs, past, d)[s]
BY DEF RowsAt, Layout, Past, Data

\* A row of a page is a key, a number, and a value.
LEMMA RowShape ==
    ASSUME NEW s \in Seq(Rows), NEW i \in 1 .. Len(s)
    PROVE  s[i] = <<s[i][1], s[i][2]>> /\ s[i][1] \in Keys /\ s[i][1] \in Nat /\ s[i][2] \in Vals
<1>1. s[i] \in Keys \X Vals
  BY ElementOfSeq DEF Rows
<1>2. PICK k \in Keys, v \in Vals : s[i] = <<k, v>>
  BY <1>1
<1>3. s[i][1] = k /\ s[i][2] = v /\ k \in Nat
  BY <1>2, ConstantsAssumption
<1> QED BY <1>2, <1>3

\* A slice of the type, and the row under its pointer.
LEMMA HeadIs ==
    ASSUME StoreOK, NEW sl \in Slices, Lies(Mapped, sl), sl.at < sl.end
    PROVE  /\ sl.at \in On(sl) /\ HeadRow(sl) = Row(Mapped, sl, sl.at)
           /\ \A p \in On(sl) : Row(Mapped, sl, p)[1] \in Nat
           /\ \A p \in On(sl) : Row(Mapped, sl, sl.at)[1] <= Row(Mapped, sl, p)[1]
           /\ \A p \in On(sl) : Row(Mapped, sl, sl.at)[1] = Row(Mapped, sl, p)[1] => p = sl.at
<1>1. sl.src \in Int /\ sl.at \in Nat /\ sl.end \in Nat
  BY ConstantsAssumption DEF Slices, Data
<1>2. sl.at \in On(sl)
  BY <1>1 DEF On
<1>3. Mapped[sl.src] \in Seq(Rows) /\ RowsAt(sl.src, data) = Mapped[sl.src]
  BY <1>1, LayoutShape, LayoutReads DEF StoreOK, Mapped
<1>4. sl.at \in 1 .. Len(Mapped[sl.src])
  BY <1>2 DEF Lies
<1>5. HeadRow(sl) = Row(Mapped, sl, sl.at)
  BY <1>3, <1>4 DEF HeadRow, Row
<1>6. ASSUME NEW p \in On(sl)
      PROVE  /\ Row(Mapped, sl, p)[1] \in Nat
             /\ p # sl.at => Row(Mapped, sl, sl.at)[1] < Row(Mapped, sl, p)[1]
  <2>1. p \in 1 .. Len(Mapped[sl.src])
    BY DEF Lies
  <2>2. p \in Int /\ (p # sl.at => sl.at < p)
    BY <1>1 DEF On
  <2> QED BY <1>2, <1>3, <2>1, <2>2, RowShape DEF Lies, Row
<1>7. Row(Mapped, sl, sl.at)[1] \in Nat
  BY <1>2, <1>6
<1>8. ASSUME NEW p \in On(sl)
      PROVE  /\ Row(Mapped, sl, sl.at)[1] <= Row(Mapped, sl, p)[1]
             /\ Row(Mapped, sl, sl.at)[1] = Row(Mapped, sl, p)[1] => p = sl.at
  <2>1. Row(Mapped, sl, p)[1] \in Nat
        /\ (p # sl.at => Row(Mapped, sl, sl.at)[1] < Row(Mapped, sl, p)[1])
    BY <1>6
  <2>2. CASE p = sl.at
    BY <1>7, <2>2
  <2>3. CASE p # sl.at
    BY <1>7, <2>1, <2>3
  <2> QED BY <2>2, <2>3
<1> QED BY <1>2, <1>5, <1>6, <1>8

\* The least of a set of numbers, and the winner of a set of slices.
LEMMA LeastIs ==
    ASSUME NEW S \in SUBSET Nat, NEW x \in S, \A y \in S : x <= y
    PROVE  Least(S) = x
<1>1. Least(S) \in S /\ \A y \in S : Least(S) <= y
  BY DEF Least
<1> HIDE DEF Least
<1>2. Least(S) <= x /\ x <= Least(S) /\ x \in Nat /\ Least(S) \in Nat
  BY <1>1
<1> QED BY <1>2

LEMMA WinnerIs ==
    ASSUME NEW S \in SUBSET Nat, NEW x \in S, \A y \in S : y <= x
    PROVE  Winner(S) = x
<1>1. Winner(S) \in S /\ \A y \in S : y <= Winner(S)
  BY DEF Winner
<1>2. Winner(S) <= x /\ x <= Winner(S) /\ x \in Nat /\ Winner(S) \in Nat
  BY <1>1
<1> QED BY <1>2

\* The slices of a good cursor: the least key owed is the least they stand at,
\* and the row on top is the row owed.
LEMMA TopIs ==
    ASSUME StoreOK, NEW ss \in Seq(Slices), NEW t \in Tables, Good(Mapped, ss, t)
    PROVE  /\ Left(ss) = {} <=> DOMAIN t = {}
           /\ Left(ss) # {} =>
                 /\ Least(DOMAIN t) \in DOMAIN t /\ TopKey(ss) = Least(DOMAIN t)
                 /\ Top(ss) = <<Least(DOMAIN t), t[Least(DOMAIN t)]>>
           /\ \A i \in 1 .. Len(ss) : \A p \in On(ss[i]) :
                  Row(Mapped, ss[i], p)[1] = Least(DOMAIN t)
                      <=> i \in Having(ss, Least(DOMAIN t)) /\ p = ss[i].at
<1> DEFINE n == Len(ss)
           k1 == Least(DOMAIN t)
           K == {HeadRow(ss[i])[1] : i \in Left(ss)}
           H == Having(ss, k1)
<1>1. n \in Nat /\ \A i \in 1 .. n : ss[i] \in Slices /\ Lies(Mapped, ss[i])
  BY LenProperties, ElementOfSeq DEF Good
<1>2. DOMAIN t \in SUBSET Nat
  BY TableShape, ConstantsAssumption
<1>3. ASSUME NEW i \in 1 .. n, NEW p \in On(ss[i])
      PROVE  /\ i \in Left(ss) /\ ss[i].at < ss[i].end
             /\ Row(Mapped, ss[i], p)[1] \in DOMAIN t
  <2>1. ss[i].at \in Nat /\ ss[i].end \in Nat
    BY <1>1 DEF Slices
  <2>2. ss[i].at < ss[i].end
    BY <2>1 DEF On
  <2> QED BY <2>2 DEF Left, Good, Agrees
<1>4. ASSUME NEW i \in Left(ss)
      PROVE  /\ i \in 1 .. n /\ ss[i].at \in On(ss[i])
             /\ HeadRow(ss[i]) = Row(Mapped, ss[i], ss[i].at)
             /\ HeadRow(ss[i])[1] \in DOMAIN t
             /\ \A p \in On(ss[i]) : HeadRow(ss[i])[1] <= Row(Mapped, ss[i], p)[1]
             /\ \A p \in On(ss[i]) : HeadRow(ss[i])[1] = Row(Mapped, ss[i], p)[1] => p = ss[i].at
  <2>1. i \in 1 .. n /\ ss[i].at < ss[i].end
    BY DEF Left
  <2> QED BY <1>1, <1>3, <2>1, HeadIs
<1>5. ASSUME NEW k \in DOMAIN t
      PROVE  \E i \in 1 .. n : /\ \E p \in On(ss[i]) : Row(Mapped, ss[i], p) = <<k, t[k]>>
                               /\ \A j \in 1 .. n : \A q \in On(ss[j]) :
                                      Row(Mapped, ss[j], q)[1] = k => j <= i
  BY DEF Good, Agrees
<1>6. Left(ss) = {} <=> DOMAIN t = {}
  <2>1. DOMAIN t # {} => Left(ss) # {}
    BY <1>3, <1>5
  <2>2. Left(ss) # {} => DOMAIN t # {}
    BY <1>4
  <2> QED BY <2>1, <2>2
<1>7. DOMAIN t # {} => k1 \in DOMAIN t /\ k1 \in Nat /\ \A j \in DOMAIN t : k1 <= j
  <2> SUFFICES ASSUME DOMAIN t # {}
               PROVE  k1 \in DOMAIN t /\ k1 \in Nat /\ \A j \in DOMAIN t : k1 <= j
    OBVIOUS
  <2>1. PICK k \in DOMAIN t : \A j \in DOMAIN t : k <= j
    BY <1>2, LeastIn
  <2>2. k1 = k
    BY <1>2, <2>1, LeastIs
  <2> QED BY <1>2, <2>1, <2>2
<1> HIDE DEF k1
<1>8. ASSUME NEW i \in 1 .. n, NEW p \in On(ss[i])
      PROVE  Row(Mapped, ss[i], p)[1] = k1 <=> i \in H /\ p = ss[i].at
  <2>1. i \in Left(ss) /\ Row(Mapped, ss[i], p)[1] \in DOMAIN t
    BY <1>3
  <2>2. HeadRow(ss[i])[1] <= Row(Mapped, ss[i], p)[1] /\ k1 <= HeadRow(ss[i])[1]
        /\ HeadRow(ss[i])[1] \in Nat /\ k1 \in Nat
    BY <1>2, <1>4, <1>7, <2>1
  <2>3. ASSUME Row(Mapped, ss[i], p)[1] = k1 PROVE i \in H /\ p = ss[i].at
    <3>1. HeadRow(ss[i])[1] = k1
      BY <2>2, <2>3
    <3> QED BY <1>4, <2>1, <2>3, <3>1 DEF Having
  <2>4. ASSUME i \in H, p = ss[i].at PROVE Row(Mapped, ss[i], p)[1] = k1
    BY <1>4, <2>1, <2>4 DEF Having
  <2> QED BY <2>3, <2>4
<1>9. ASSUME Left(ss) # {}
      PROVE  TopKey(ss) = k1 /\ Top(ss) = <<k1, t[k1]>>
  <2>1. k1 \in DOMAIN t /\ k1 \in Nat /\ \A j \in DOMAIN t : k1 <= j
    BY <1>6, <1>7, <1>9
  <2>2. PICK i \in 1 .. n : /\ \E p \in On(ss[i]) : Row(Mapped, ss[i], p) = <<k1, t[k1]>>
                            /\ \A j \in 1 .. n : \A q \in On(ss[j]) :
                                   Row(Mapped, ss[j], q)[1] = k1 => j <= i
    BY <1>5, <2>1
  <2>3. PICK p \in On(ss[i]) : Row(Mapped, ss[i], p) = <<k1, t[k1]>>
    BY <2>2
  <2>4. i \in H /\ p = ss[i].at
    <3>1. Row(Mapped, ss[i], p)[1] = k1
      BY <2>3
    <3> QED BY <1>8, <3>1
  <2>5. i \in Left(ss) /\ HeadRow(ss[i]) = <<k1, t[k1]>>
    BY <1>4, <2>3, <2>4 DEF Having
  <2>6. K \in SUBSET Nat /\ k1 \in K /\ \A j \in K : k1 <= j
    BY <1>2, <1>4, <2>1, <2>5
  <2>7. TopKey(ss) = k1
    <3> HIDE DEF K
    <3>1. Least(K) = k1
      BY <2>6, LeastIs
    <3> QED BY <3>1 DEF TopKey, K
  <2>8. H \in SUBSET Nat /\ \A j \in H : j <= i
    <3> SUFFICES ASSUME NEW j \in H PROVE j \in Nat /\ j <= i
      OBVIOUS
    <3>1. j \in Left(ss) /\ HeadRow(ss[j])[1] = k1
      BY DEF Having
    <3>2. j \in 1 .. n /\ ss[j].at \in On(ss[j]) /\ Row(Mapped, ss[j], ss[j].at)[1] = k1
      BY <1>4, <3>1
    <3>3. j <= i
      BY <2>2, <3>2
    <3>4. j \in Nat
      BY <1>1, <3>2
    <3> QED BY <3>3, <3>4
  <2>9. Winner(H) = i
    <3> HIDE DEF H
    <3> QED BY <2>4, <2>8, WinnerIs
  <2> QED BY <2>5, <2>7, <2>9 DEF Top
<1> QED BY <1>6, <1>7, <1>8, <1>9 DEF k1

\* A row taken from the top of the slices is the first of their merge, and what
\* is left of them merges to the rest: no key comes twice, none is left out.
LEMMA AdvancedGood ==
    ASSUME StoreOK, NEW ss \in Seq(Slices), NEW t \in Tables, Good(Mapped, ss, t),
           Left(ss) # {}
    PROVE  /\ Advanced(ss) \in Seq(Slices)
           /\ Good(Mapped, Advanced(ss), Without(t, Least(DOMAIN t)))
<1> DEFINE n == Len(ss)
           k1 == Least(DOMAIN t)
           as == Advanced(ss)
           r == Without(t, k1)
<1>1. n \in Nat /\ \A i \in 1 .. n : ss[i] \in Slices /\ Lies(Mapped, ss[i])
  BY LenProperties, ElementOfSeq DEF Good
<1>2. /\ TopKey(ss) = k1
      /\ \A i \in 1 .. n : \A p \in On(ss[i]) :
             Row(Mapped, ss[i], p)[1] = k1 <=> i \in Having(ss, k1) /\ p = ss[i].at
  BY TopIs
<1>3. DOMAIN r = DOMAIN t \ {k1} /\ \A k \in DOMAIN r : r[k] = t[k]
  BY DEF Without
<1> HIDE DEF k1, r
<1>4. ASSUME NEW i \in 1 .. n
      PROVE  /\ as[i] \in Slices /\ as[i].src = ss[i].src
             /\ \A p : p \in On(as[i]) <=> p \in On(ss[i]) /\ Row(Mapped, ss[i], p)[1] # k1
  <2>1. as[i] = IF i \in Having(ss, k1) THEN [ss[i] EXCEPT !.at = @ + 1] ELSE ss[i]
    BY <1>2 DEF Advanced, Moves
  <2>2. ss[i] \in Slices /\ ss[i].at \in Nat /\ ss[i].end \in Nat
    BY <1>1 DEF Slices
  <2>3. CASE i \in Having(ss, k1)
    <3>1. as[i] \in Slices /\ as[i].src = ss[i].src /\ as[i].at = ss[i].at + 1
          /\ as[i].end = ss[i].end
      <4> DEFINE sl == ss[i]
      <4>1. sl \in Slices /\ as[i] = [sl EXCEPT !.at = @ + 1]
        BY <2>1, <2>2, <2>3
      <4> HIDE DEF sl, as
      <4>2. as[i] \in Slices /\ as[i].src = sl.src /\ as[i].at = sl.at + 1
            /\ as[i].end = sl.end
        <5> DEFINE u == [sl EXCEPT !.at = @ + 1]
        <5>1. sl.src \in Data .. MaxRuns /\ sl.at \in Nat /\ sl.end \in Nat
              /\ sl = [src |-> sl.src, at |-> sl.at, end |-> sl.end]
          BY <4>1 DEF Slices
        <5>1a. u = [src |-> sl.src, at |-> sl.at + 1, end |-> sl.end]
          BY <5>1
        <5> HIDE DEF u
        <5>2. u \in Slices /\ u.src = sl.src /\ u.at = sl.at + 1 /\ u.end = sl.end
          BY <5>1, <5>1a DEF Slices
        <5> QED BY <4>1, <5>2 DEF u
      <4> QED BY <4>2 DEF sl
    <3>2. \A p : p \in On(as[i]) <=> p \in On(ss[i]) /\ p # ss[i].at
      BY <2>2, <3>1 DEF On
    <3> QED BY <1>2, <2>3, <3>1, <3>2
  <2>4. CASE i \notin Having(ss, k1)
    BY <1>2, <2>1, <2>2, <2>4
  <2> QED BY <2>3, <2>4
<1>5. as \in Seq(Slices) /\ Len(as) = n
  <2>1. as \in [1 .. n -> Slices]
    BY <1>4 DEF Advanced
  <2> QED BY <1>1, <2>1
<1> HIDE DEF as
<1>6. \A i \in 1 .. n : \A p : Row(Mapped, as[i], p) = Row(Mapped, ss[i], p)
  BY <1>4 DEF Row
<1>7. \A i \in 1 .. n : Lies(Mapped, as[i])
  BY <1>1, <1>4, <1>6 DEF Lies
<1>8. ASSUME NEW i \in 1 .. n, NEW p \in On(as[i])
      PROVE  Row(Mapped, as[i], p)[1] \in DOMAIN r
  <2>1. p \in On(ss[i]) /\ Row(Mapped, ss[i], p)[1] # k1
    BY <1>4
  <2>2. Row(Mapped, ss[i], p)[1] \in DOMAIN t
    BY <2>1 DEF Good, Agrees
  <2> QED BY <1>3, <1>6, <2>1, <2>2
<1>9. ASSUME NEW k \in DOMAIN r
      PROVE  \E i \in 1 .. n : /\ \E p \in On(as[i]) : Row(Mapped, as[i], p) = <<k, r[k]>>
                               /\ \A j \in 1 .. n : \A q \in On(as[j]) :
                                      Row(Mapped, as[j], q)[1] = k => j <= i
  <2>1. k \in DOMAIN t /\ k # k1 /\ r[k] = t[k]
    BY <1>3
  <2>2. PICK i \in 1 .. n : /\ \E p \in On(ss[i]) : Row(Mapped, ss[i], p) = <<k, t[k]>>
                            /\ \A j \in 1 .. n : \A q \in On(ss[j]) :
                                   Row(Mapped, ss[j], q)[1] = k => j <= i
    BY <2>1 DEF Good, Agrees
  <2>3. PICK p \in On(ss[i]) : Row(Mapped, ss[i], p) = <<k, t[k]>>
    BY <2>2
  <2>4. Row(Mapped, ss[i], p)[1] = k
    BY <2>3
  <2>5. p \in On(as[i]) /\ Row(Mapped, as[i], p) = <<k, r[k]>>
    BY <1>4, <1>6, <2>1, <2>3, <2>4
  <2>6. \A j \in 1 .. n : \A q \in On(as[j]) : Row(Mapped, as[j], q)[1] = k => j <= i
    BY <1>4, <1>6, <2>2
  <2> QED BY <2>5, <2>6
<1>10. Good(Mapped, as, r)
  BY <1>5, <1>7, <1>8, <1>9 DEF Good, Agrees
<1> QED BY <1>5, <1>10 DEF as, r, k1

\* DATA whose neighbours ascend ascends.
LEMMA CleanAscends ==
    ASSUME NEW s \in Seq(Rows), Clean(s)
    PROVE  \A i, j \in 1 .. Len(s) : i < j => s[i][1] < s[j][1]
<1> DEFINE n == Len(s)
           Bad == {j \in 1 .. n : \E i \in 1 .. n : i < j /\ ~(s[i][1] < s[j][1])}
<1>1. n \in Nat /\ \A i \in 1 .. n : s[i][1] \in Nat
  BY LenProperties, RowShape
<1> SUFFICES ASSUME Bad # {} PROVE FALSE
  OBVIOUS
<1>2. PICK j \in Bad : \A m \in Bad : j <= m
  <2>1. Bad \in SUBSET Nat
    OBVIOUS
  <2> HIDE DEF Bad
  <2> QED BY <2>1, LeastIn
<1>3. PICK i \in 1 .. n : i < j /\ ~(s[i][1] < s[j][1])
  BY <1>2
<1>4. j \in 1 .. n /\ j - 1 \in 1 .. n /\ j - 1 \in 1 .. Len(s) - 1
  BY <1>1, <1>2, <1>3
<1>5. s[j - 1][1] < s[j][1]
  <2>1. \A m \in 1 .. Len(s) - 1 : s[m][1] < s[m + 1][1]
    BY DEF Clean
  <2>2. (j - 1) + 1 = j
    BY <1>4
  <2> QED BY <1>4, <2>1, <2>2
<1>6. i < j - 1 => s[i][1] < s[j - 1][1]
  <2>1. j - 1 \notin Bad
    <3> HIDE DEF Bad
    <3> QED BY <1>1, <1>2, <1>4
  <2> QED BY <1>4, <2>1
<1>7. i = j - 1 \/ i < j - 1
  BY <1>1, <1>3, <1>4
<1>8. s[i][1] \in Nat /\ s[j - 1][1] \in Nat /\ s[j][1] \in Nat
  BY <1>1, <1>4
<1> QED BY <1>3, <1>5, <1>6, <1>7, <1>8

\* Rows in key order that are the rows of a table.
RowsOf(s, t) ==
    /\ \A p \in 1 .. Len(s) : s[p][1] \in DOMAIN t /\ s[p][2] = t[s[p][1]]
    /\ \A k \in DOMAIN t : \E p \in 1 .. Len(s) : s[p][1] = k
    /\ \A p, q \in 1 .. Len(s) : p < q => s[p][1] < s[q][1]

\* The rows of a source, once DATA is sorted, are those of its table.
LEMMA SortedRows ==
    ASSUME StoreOK
    PROVE  RowsOf(Sorted, Deduped(data))
<1>1. data \in Seq(Rows) /\ Deduped(data) \in Tables /\ Len(data) \in Nat
  BY DedupShape, LenProperties DEF StoreOK
<1>2. CASE ~Clean(data)
  BY <1>1, <1>2, OrderedShape DEF Sorted, RowsOf
<1>3. CASE Clean(data)
  <2>1. \A p, q \in 1 .. Len(data) : p < q => data[p][1] < data[q][1]
    BY <1>1, <1>3, CleanAscends
  <2>2. \A p \in 1 .. Len(data) : data[p][1] \in Nat
    BY <1>1, RowShape
  <2>3. \A p \in 1 .. Len(data) : KeptRow(data, p)
    <3> SUFFICES ASSUME NEW p \in 1 .. Len(data), NEW q \in p + 1 .. Len(data)
                 PROVE  data[q][1] # data[p][1]
      BY DEF KeptRow
    <3>1. q \in 1 .. Len(data) /\ p < q
      BY <1>1
    <3>2. data[p][1] < data[q][1] /\ data[p][1] \in Nat /\ data[q][1] \in Nat
      BY <2>1, <2>2, <3>1
    <3> QED BY <3>2
  <2> QED BY <1>1, <1>3, <2>1, <2>3, DedupShape DEF Sorted, RowsOf
<1> QED BY <1>2, <1>3

\* The sources of a query are the runs, PAST and DATA.
LEMMA SourcesAre ==
    ASSUME StoreOK
    PROVE  /\ Len(runs) \in Nat /\ Len(Sources) = Len(runs) + 2
           /\ \A i \in 1 .. Len(runs) + 2 :
                  /\ SourceAt(i) \in Data .. Len(runs)
                  /\ Sources[i].tab \in Tables
                  /\ Layout(runs, past, Sorted)[SourceAt(i)] \in Seq(Rows)
                  /\ RowsOf(Layout(runs, past, Sorted)[SourceAt(i)], Sources[i].tab)
<1> DEFINE n == Len(runs)
           a == [i \in 1 .. n |-> [src |-> i, tab |-> runs[i]]]
           b == << [src |-> 0, tab |-> past], [src |-> 0, tab |-> Deduped(data)] >>
           Pieces == [src : Nat, tab : Tables]
           M == Layout(runs, past, Sorted)
<1>1. n \in Nat /\ runs \in Seq(Tables) /\ past \in Tables
      /\ Deduped(data) \in Tables /\ Sorted \in Seq(Rows)
  BY LenProperties, DedupShape, SortedShape DEF StoreOK
<1>2. a \in Seq(Pieces) /\ Len(a) = n
  <2>1. \A i \in 1 .. n : runs[i] \in Tables /\ i \in Nat
    BY <1>1, RunShape
  <2>2. \A i \in 1 .. n : [src |-> i, tab |-> runs[i]] \in Pieces
    BY <2>1
  <2>3. a \in [1 .. n -> Pieces]
    <3> HIDE DEF Pieces, n
    <3> QED BY <2>2
  <2> HIDE DEF a, Pieces
  <2> QED BY <1>1, <2>3
<1>3. /\ b \in Seq(Pieces) /\ Len(b) = 2
      /\ b[1].tab = past /\ b[2].tab = Deduped(data)
  BY <1>1
<1>4. Sources = a \o b /\ \A i \in 1 .. n : a[i].tab = runs[i]
  BY DEF Sources
<1> HIDE DEF a, b, Pieces
<1>5. /\ Len(Sources) = n + 2
      /\ \A i \in 1 .. n + 2 : Sources[i] = IF i <= n THEN a[i] ELSE b[i - n]
  <2> HIDE DEF n
  <2>1. Len(a \o b) = Len(a) + Len(b)
    BY <1>2, <1>3, ConcatProperties
  <2>2. \A i \in 1 .. Len(a) + Len(b) :
            (a \o b)[i] = IF i <= Len(a) THEN a[i] ELSE b[i - Len(a)]
    BY <1>2, <1>3, ConcatProperties
  <2> QED BY <1>2, <1>3, <1>4, <2>1, <2>2
<1>6. M \in [Int -> Seq(Rows)]
  BY <1>1, LayoutShape
<1>7. \A t \in Tables : RowsOf(Ordered(t), t)
  BY OrderedShape DEF RowsOf
<1>8. ASSUME NEW i \in 1 .. n + 2
      PROVE  /\ SourceAt(i) \in Data .. n
             /\ Sources[i].tab \in Tables
             /\ M[SourceAt(i)] \in Seq(Rows) /\ RowsOf(M[SourceAt(i)], Sources[i].tab)
  <2> HIDE DEF M
  <2>1. CASE i <= n
    <3>1. i \in 1 .. n /\ i \in Int /\ SourceAt(i) = i /\ SourceAt(i) \in Data .. n
      BY <1>1, <2>1 DEF SourceAt, Data
    <3>2. Sources[i].tab = runs[i] /\ runs[i] \in Tables
      BY <1>1, <1>4, <1>5, <2>1, <3>1, RunShape
    <3>3. M[i] = Ordered(runs[i])
      BY <3>1 DEF M, Layout, Past, Data
    <3> QED BY <1>6, <1>7, <3>1, <3>2, <3>3
  <2>2. CASE i = n + 1
    <3>1. ~(i <= n) /\ i - n = 1 /\ SourceAt(i) = Past /\ Past \in Data .. n /\ Past \in Int
      BY <1>1, <2>2 DEF SourceAt, Past, Data
    <3>2. Sources[i].tab = past
      BY <1>3, <1>5, <3>1
    <3>3. M[Past] = Ordered(past)
      BY DEF M, Layout, Past, Data
    <3> QED BY <1>1, <1>6, <1>7, <3>1, <3>2, <3>3
  <2>3. CASE i = n + 2
    <3>1. ~(i <= n) /\ i - n = 2 /\ SourceAt(i) = Data /\ Data \in Data .. n /\ Data \in Int
      BY <1>1, <2>3 DEF SourceAt, Past, Data
    <3>2. Sources[i].tab = Deduped(data)
      BY <1>3, <1>5, <3>1
    <3>3. M[Data] = Sorted
      BY DEF M, Layout, Past, Data
    <3> QED BY <1>1, <1>6, <3>1, <3>2, <3>3, SortedRows
  <2> QED BY <1>1, <2>1, <2>2, <2>3
<1> HIDE DEF M
<1> QED BY <1>1, <1>5, <1>8 DEF M

\* The sources that have a key, and what get makes of them.
With(k) == {i \in 1 .. Len(Sources) : k \in DOMAIN Sources[i].tab}
LEMMA GetFrom ==
    ASSUME StoreOK, NEW k
    PROVE  /\ With(k) = {} => Get(k) = None
           /\ With(k) # {} =>
                 /\ k \in Keys /\ Get(k) \in Vals /\ Get(k) # None
                 /\ \E w \in With(k) : /\ \A j \in With(k) : j <= w
                                       /\ Get(k) = Sources[w].tab[k]
<1> DEFINE n == Len(Sources)
<1>1. n \in Nat /\ \A i \in 1 .. n : Sources[i].tab \in Tables
  BY SourcesAre
<1>2. Get(k) = IF With(k) = {} THEN None ELSE Sources[Found(k, With(k))].tab[k]
  BY DEF Get, With
<1>3. ASSUME With(k) # {}
      PROVE  /\ k \in Keys /\ Get(k) \in Vals /\ Get(k) # None
             /\ \E w \in With(k) : /\ \A j \in With(k) : j <= w
                                   /\ Get(k) = Sources[w].tab[k]
  <2>1. With(k) \in SUBSET (1 .. n)
    BY DEF With
  <2>2. \E m \in With(k) : \A j \in With(k) : j <= m
    <3> HIDE DEF n
    <3> QED BY <1>1, <1>3, <2>1, GreatestIn
  <2> DEFINE w == Found(k, With(k))
  <2>3. w \in With(k) /\ \A j \in With(k) : j <= w
    BY <2>2 DEF Found
  <2> HIDE DEF w
  <2>4. w \in 1 .. n /\ k \in DOMAIN Sources[w].tab
    BY <2>3 DEF With
  <2>5. k \in Keys /\ Sources[w].tab[k] \in Vals
    BY <1>1, <2>4, TableShape
  <2>6. Sources[w].tab[k] # None
    BY <2>5 DEF Vals, None
  <2> QED BY <1>2, <1>3, <2>3, <2>5, <2>6 DEF w
<1> QED BY <1>2, <1>3

\* The first position at or after a key, and the positions between two keys.
LEMMA FindGEIs ==
    ASSUME NEW s \in Seq(Rows), NEW k \in Int
    PROVE  /\ FindGE(s, k) \in 1 .. Len(s) + 1
           /\ \A j \in 1 .. FindGE(s, k) - 1 : s[j][1] < k
           /\ FindGE(s, k) <= Len(s) => k <= s[FindGE(s, k)][1]
<1> DEFINE n == Len(s)
           S == {j \in 1 .. n + 1 : j <= n => k <= s[j][1]}
<1>1. n \in Nat /\ \A i \in 1 .. n : s[i][1] \in Nat
  BY LenProperties, RowShape
<1>2. S \in SUBSET Nat /\ n + 1 \in S
  BY <1>1
<1>3. PICK i \in S : \A j \in S : i <= j
  <2> HIDE DEF S
  <2> QED BY <1>2, LeastIn
<1>4. i \in 1 .. n + 1 /\ (i <= n => k <= s[i][1])
  BY <1>3
<1>5. ASSUME NEW j \in 1 .. i - 1 PROVE s[j][1] < k
  <2>1. j \in 1 .. n /\ j \in 1 .. n + 1 /\ ~(i <= j) /\ j <= n
    BY <1>1, <1>4
  <2>2. j \notin S
    <3> HIDE DEF S
    <3> QED BY <1>3, <2>1
  <2>3. ~(k <= s[j][1]) /\ s[j][1] \in Nat
    BY <1>1, <2>1, <2>2
  <2> QED BY <2>3
<1>6. \E x \in 1 .. Len(s) + 1 :
          (\A j \in 1 .. x - 1 : s[j][1] < k) /\ (x <= Len(s) => k <= s[x][1])
  BY <1>4, <1>5
<1> QED BY <1>6 DEF FindGE

LEMMA CutIs ==
    ASSUME NEW s \in Seq(Rows), NEW t, RowsOf(s, t), NEW lo \in Int, NEW hi \in Int
    PROVE  \A p : p \in FindGE(s, lo) .. FindGE(s, hi) - 1
                    <=> p \in 1 .. Len(s) /\ lo <= s[p][1] /\ s[p][1] < hi
<1> DEFINE n == Len(s)
           a == FindGE(s, lo)
           e == FindGE(s, hi)
<1>1. n \in Nat /\ \A i \in 1 .. n : s[i][1] \in Nat
  BY LenProperties, RowShape
<1>2. /\ a \in 1 .. n + 1 /\ (\A j \in 1 .. a - 1 : s[j][1] < lo)
      /\ (a <= n => lo <= s[a][1])
      /\ e \in 1 .. n + 1 /\ (\A j \in 1 .. e - 1 : s[j][1] < hi)
      /\ (e <= n => hi <= s[e][1])
  BY FindGEIs
<1>3. \A p, q \in 1 .. n : p < q => s[p][1] < s[q][1]
  BY DEF RowsOf
<1> HIDE DEF n, a, e
<1>4. ASSUME NEW p \in a .. e - 1 PROVE p \in 1 .. n /\ lo <= s[p][1] /\ s[p][1] < hi
  <2>1. p \in 1 .. n /\ a \in 1 .. n /\ p \in 1 .. e - 1 /\ (p = a \/ a < p)
    BY <1>1, <1>2
  <2>2. s[p][1] < hi /\ lo <= s[a][1] /\ s[p][1] \in Nat /\ s[a][1] \in Nat
    BY <1>1, <1>2, <2>1
  <2>3. a < p => s[a][1] < s[p][1]
    BY <1>3, <2>1
  <2> QED BY <2>1, <2>2, <2>3
<1>5. ASSUME NEW p \in 1 .. n, lo <= s[p][1], s[p][1] < hi PROVE p \in a .. e - 1
  <2>1. s[p][1] \in Nat
    BY <1>1
  <2>2. ~(p < a)
    <3> SUFFICES ASSUME p < a PROVE FALSE
      OBVIOUS
    <3>1. p \in 1 .. a - 1
      BY <1>1, <1>2
    <3>2. s[p][1] < lo
      BY <1>2, <3>1
    <3> QED BY <1>5, <2>1, <3>2
  <2>3. p < e
    <3> SUFFICES ASSUME ~(p < e) PROVE FALSE
      OBVIOUS
    <3>1. e \in 1 .. n /\ (e = p \/ e < p)
      BY <1>1, <1>2
    <3>2. hi <= s[e][1] /\ s[e][1] \in Nat
      BY <1>1, <1>2, <3>1
    <3>3. e < p => s[e][1] < s[p][1]
      BY <1>3, <3>1
    <3> QED BY <1>5, <2>1, <3>1, <3>2, <3>3
  <2> QED BY <1>1, <1>2, <2>2, <2>3
<1> QED BY <1>4, <1>5 DEF n, a, e

\* A cursor is placed on what the index then answers.
LEMMA PlacedGood ==
    ASSUME StoreOK, Len(runs) <= MaxRuns, NEW lo \in Int, NEW hi \in Int
    PROVE  /\ Cut(lo, hi) \in Seq(Slices) /\ Expected(lo, hi) \in Tables
           /\ Good(Layout(runs, past, Sorted), Cut(lo, hi), Expected(lo, hi))
<1> DEFINE n == Len(runs) + 2
           M == Layout(runs, past, Sorted)
           ss == Cut(lo, hi)
           t == Expected(lo, hi)
           In(k) == lo <= k /\ k < hi
<1>1. n \in Nat /\ Len(Sources) = n /\ Len(runs) \in Nat /\ MaxRuns \in Nat
  BY SourcesAre, ConstantsAssumption
<1>2. ASSUME NEW i \in 1 .. n
      PROVE  /\ SourceAt(i) \in Data .. MaxRuns
             /\ M[SourceAt(i)] \in Seq(Rows) /\ RowsOf(M[SourceAt(i)], Sources[i].tab)
             /\ RowsAt(SourceAt(i), Sorted) = M[SourceAt(i)]
  <2>1. /\ SourceAt(i) \in Data .. Len(runs)
        /\ M[SourceAt(i)] \in Seq(Rows) /\ RowsOf(M[SourceAt(i)], Sources[i].tab)
    BY SourcesAre
  <2>2. SourceAt(i) \in Int /\ SourceAt(i) \in Data .. MaxRuns
    BY <1>1, <2>1 DEF Data
  <2>3. RowsAt(SourceAt(i), Sorted) = M[SourceAt(i)]
    BY <2>2, LayoutReads
  <2> QED BY <2>1, <2>2, <2>3
<1> HIDE DEF M
<1>3. ASSUME NEW i \in 1 .. n
      PROVE  /\ ss[i] \in Slices /\ ss[i].src = SourceAt(i)
             /\ \A p : p \in On(ss[i]) <=> /\ p \in 1 .. Len(M[SourceAt(i)])
                                           /\ In(M[SourceAt(i)][p][1])
  <2> DEFINE s == M[SourceAt(i)]
  <2>1. ss[i] = [src |-> SourceAt(i), at |-> FindGE(s, lo), end |-> FindGE(s, hi)]
    BY <1>2 DEF Cut
  <2>2. FindGE(s, lo) \in Nat /\ FindGE(s, hi) \in Nat
    <3>1. s \in Seq(Rows) /\ Len(s) \in Nat
      BY <1>2, LenProperties
    <3> HIDE DEF s
    <3>2. FindGE(s, lo) \in 1 .. Len(s) + 1 /\ FindGE(s, hi) \in 1 .. Len(s) + 1
      BY <3>1, FindGEIs
    <3> QED BY <3>1, <3>2
  <2>3. \A p : p \in FindGE(s, lo) .. FindGE(s, hi) - 1 <=> p \in 1 .. Len(s) /\ In(s[p][1])
    BY <1>2, CutIs
  <2> HIDE DEF s, ss
  <2>4. ss[i] \in Slices /\ ss[i].src = SourceAt(i)
        /\ On(ss[i]) = FindGE(s, lo) .. FindGE(s, hi) - 1
    BY <1>2, <2>1, <2>2 DEF Slices, On
  <2> QED BY <2>3, <2>4 DEF s
<1>4. ss \in Seq(Slices) /\ Len(ss) = n
  <2>1. ss \in [1 .. n -> Slices]
    BY <1>3 DEF Cut
  <2> QED BY <1>1, <2>1
<1>5. /\ DOMAIN t = {j \in Keys : lo <= j /\ j < hi /\ Get(j) # None}
      /\ \A k \in DOMAIN t : t[k] = Get(k)
  BY DEF Expected
<1> HIDE DEF ss
<1>6. ASSUME NEW i \in 1 .. n PROVE Lies(M, ss[i])
  BY <1>2, <1>3 DEF Lies, Row, RowsOf
<1>7. ASSUME NEW i \in 1 .. n, NEW p \in On(ss[i])
      PROVE  /\ Row(M, ss[i], p)[1] \in DOMAIN t /\ i \in With(Row(M, ss[i], p)[1])
  <2> DEFINE k == Row(M, ss[i], p)[1]
  <2>1. In(k) /\ k \in DOMAIN Sources[i].tab
    BY <1>2, <1>3 DEF Row, RowsOf
  <2>2. i \in With(k)
    BY <1>1, <2>1 DEF With
  <2>3. k \in Keys /\ Get(k) # None
    BY <2>2, GetFrom
  <2> QED BY <1>5, <2>1, <2>2, <2>3
<1>8. ASSUME NEW k \in DOMAIN t
      PROVE  /\ t[k] \in Vals
             /\ \E i \in 1 .. n :
                    /\ \E p \in On(ss[i]) : Row(M, ss[i], p) = <<k, t[k]>>
                    /\ \A j \in 1 .. n : \A q \in On(ss[j]) :
                           Row(M, ss[j], q)[1] = k => j <= i
  <2>1. In(k) /\ Get(k) # None /\ t[k] = Get(k)
    BY <1>5
  <2>2. PICK w \in With(k) : (\A j \in With(k) : j <= w) /\ Get(k) = Sources[w].tab[k]
    BY <2>1, GetFrom
  <2>3. w \in 1 .. n /\ k \in DOMAIN Sources[w].tab
    BY <1>1, <2>2 DEF With
  <2> DEFINE s == M[SourceAt(w)]
  <2>4. PICK p \in 1 .. Len(s) : s[p][1] = k
    BY <1>2, <2>3 DEF RowsOf
  <2>5. s[p] = <<k, t[k]>>
    <3>1. s[p] = <<s[p][1], s[p][2]>>
      BY <1>2, <2>3, RowShape
    <3>2. s[p][2] = Sources[w].tab[k]
      BY <1>2, <2>3, <2>4 DEF RowsOf
    <3> QED BY <2>1, <2>2, <2>4, <3>1, <3>2
  <2>6. p \in On(ss[w]) /\ Row(M, ss[w], p) = <<k, t[k]>>
    BY <1>3, <2>1, <2>3, <2>4, <2>5 DEF Row
  <2>7. \A j \in 1 .. n : \A q \in On(ss[j]) : Row(M, ss[j], q)[1] = k => j <= w
    BY <1>7, <2>2
  <2>8. t[k] \in Vals
    BY <2>1, <2>2, GetFrom
  <2> QED BY <2>3, <2>6, <2>7, <2>8
<1>9. t \in Tables
  <2>1. t = [k \in DOMAIN t |-> t[k]] /\ DOMAIN t \in SUBSET Keys
    BY <1>5 DEF Expected
  <2>2. t \in [DOMAIN t -> Vals]
    BY <1>8, <2>1
  <2> HIDE DEF t
  <2> QED BY <2>1, <2>2, TableShape
<1> HIDE DEF t
<1>10. Good(M, ss, t)
  BY <1>4, <1>6, <1>7, <1>8 DEF Good, Agrees
<1> QED BY <1>4, <1>9, <1>10 DEF M, ss, t

\* The key beyond all keys is a number.
LEMMA BeyondIs ==
    ASSUME NEW k0 \in Keys
    PROVE  Beyond \in Int
<1> DEFINE n == Cardinality(Keys)
<1>1. Keys \in SUBSET Nat /\ IsFiniteSet(Keys) /\ n \in Nat
  BY ConstantsAssumption, FS_CardinalityType
<1>2. PICK f \in [1 .. n -> Keys] : \A i, j \in 1 .. n : i < j => f[i] < f[j]
  BY <1>1, CountOff
<1> HIDE DEF n
<1>3. \A i \in 1 .. n : f[i] \in Nat
  BY <1>1, <1>2
<1>4. f \in Surjection(1 .. n, Keys)
  <2>1. \A i, j \in 1 .. n : f[i] = f[j] => i = j
    <3> TAKE i, j \in 1 .. n
    <3>1. f[i] \in Nat /\ f[j] \in Nat /\ (i < j => f[i] < f[j]) /\ (j < i => f[j] < f[i])
      BY <1>2, <1>3
    <3> QED BY <1>1, <3>1
  <2>2. f \in Injection(1 .. n, Keys)
    BY <1>2, <2>1 DEF Injection, IsInjective
  <2>3. Cardinality(1 .. n) = n
    BY <1>1, FS_Interval
  <2> QED BY <1>1, <2>2, <2>3, FS_Injection DEF n
<1>5. \A k \in Keys : \E i \in 1 .. n : f[i] = k
  BY <1>4 DEF Surjection
<1>6. n \in 1 .. n
  <2>1. PICK i \in 1 .. n : f[i] = k0
    BY <1>5
  <2> QED BY <1>1, <2>1
<1>7. \A k \in Keys : k <= f[n]
  <2> TAKE k \in Keys
  <2>1. PICK i \in 1 .. n : f[i] = k
    BY <1>5
  <2>2. i = n \/ i < n
    BY <1>1, <2>1
  <2>3. i < n => f[i] < f[n]
    BY <1>2, <1>6
  <2>4. f[i] \in Nat /\ f[n] \in Nat
    BY <1>3, <1>6
  <2> QED BY <2>1, <2>2, <2>3, <2>4
<1> DEFINE m == CHOOSE k \in Keys : \A j \in Keys : j <= k
<1>8. f[n] \in Keys
  BY <1>2, <1>6
<1>9. m \in Keys
  BY <1>7, <1>8
<1>10. Beyond = 1 + m
  BY DEF Beyond
<1> HIDE DEF m
<1> QED BY <1>1, <1>9, <1>10

\* Nothing left is the merge of no slices.
LEMMA NoneGood ==
    /\ <<>> \in Seq(Slices) /\ Empty \in Tables
    /\ \A M : Good(M, <<>>, Empty)
<1>1. Empty \in Tables /\ DOMAIN Empty = {}
  <2>1. Empty \in [{} -> Vals] /\ DOMAIN Empty = {}
    BY DEF Empty
  <2> QED BY <2>1, TableShape
<1>2. <<>> \in Seq(Slices) /\ Len(<<>>) = 0
  OBVIOUS
<1>3. \A M : Good(M, <<>>, Empty)
  BY <1>1, <1>2 DEF Good, Agrees
<1> QED BY <1>1, <1>2, <1>3

\* The rows a cursor has yet to give are the same in both layouts.
Still(M, N, ss) ==
    \A i \in 1 .. Len(ss) : \A p \in On(ss[i]) :
        p \in 1 .. Len(N[ss[i].src]) /\ Row(N, ss[i], p) = Row(M, ss[i], p)

LEMMA StillGood ==
    ASSUME NEW M, NEW N, NEW ss, NEW t, Good(M, ss, t), Still(M, N, ss)
    PROVE  Good(N, ss, t)
<1>1. \A i \in 1 .. Len(ss) : \A p \in On(ss[i]) :
          /\ p \in 1 .. Len(N[ss[i].src]) /\ Row(N, ss[i], p) = Row(M, ss[i], p)
  BY DEF Still
<1>2. \A i \in 1 .. Len(ss) : Lies(N, ss[i])
  BY <1>1 DEF Good, Lies
<1>3. \A i \in 1 .. Len(ss) : \A p \in On(ss[i]) : Row(N, ss[i], p)[1] \in DOMAIN t
  BY <1>1 DEF Good, Agrees
<1>4. ASSUME NEW k \in DOMAIN t
      PROVE  \E i \in 1 .. Len(ss) :
                 /\ \E p \in On(ss[i]) : Row(N, ss[i], p) = <<k, t[k]>>
                 /\ \A j \in 1 .. Len(ss) : \A q \in On(ss[j]) :
                        Row(N, ss[j], q)[1] = k => j <= i
  <2>1. PICK i \in 1 .. Len(ss) :
                 /\ \E p \in On(ss[i]) : Row(M, ss[i], p) = <<k, t[k]>>
                 /\ \A j \in 1 .. Len(ss) : \A q \in On(ss[j]) :
                        Row(M, ss[j], q)[1] = k => j <= i
    BY DEF Good, Agrees
  <2> QED BY <1>1, <2>1
<1> QED BY <1>2, <1>3, <1>4 DEF Good, Agrees

\* A cursor that points into none of the sources that changed.
LEMMA StillElsewhere ==
    ASSUME NEW M, NEW N, NEW ss \in Seq(Slices), NEW t, Good(M, ss, t), NEW S,
           \A s \in Int \ S : N[s] = M[s] \/ M[s] = <<>>,
           \A i \in Left(ss) : ss[i].src \notin S
    PROVE  Still(M, N, ss)
<1> SUFFICES ASSUME NEW i \in 1 .. Len(ss), NEW p \in On(ss[i])
             PROVE  /\ p \in 1 .. Len(N[ss[i].src])
                    /\ Row(N, ss[i], p) = Row(M, ss[i], p)
  BY DEF Still
<1>1. ss[i] \in Slices
  BY ElementOfSeq
<1>2. ss[i].src \in Int /\ ss[i].at \in Nat /\ ss[i].end \in Nat
  BY <1>1, ConstantsAssumption DEF Slices, Data
<1>3. i \in Left(ss)
  BY <1>2 DEF Left, On
<1>4. p \in 1 .. Len(M[ss[i].src])
  BY DEF Good, Lies
<1>5. M[ss[i].src] # <<>>
  BY <1>4
<1>6. N[ss[i].src] = M[ss[i].src]
  BY <1>2, <1>3, <1>5
<1> QED BY <1>4, <1>6 DEF Row

\* A put behind the rows of DATA.
LEMMA StillAppended ==
    ASSUME StoreOK, NEW r, data' = Append(data, r), UNCHANGED <<runs, past>>,
           NEW ss \in Seq(Slices), NEW t, Good(Mapped, ss, t)
    PROVE  Still(Mapped, Mapped', ss)
<1> DEFINE N == Layout(runs', past', data')
<1>1. data \in Seq(Rows) /\ Len(data) \in Nat
  BY LenProperties DEF StoreOK
<1>2. /\ \A s \in Int \ {Data} : N[s] = Mapped[s]
      /\ N[Data] = Append(data, r) /\ Mapped[Data] = data
  BY DEF Layout, Mapped, Data
<1>3. /\ Len(Append(data, r)) = Len(data) + 1
      /\ \A p \in 1 .. Len(data) : Append(data, r)[p] = data[p]
  BY <1>1
<1> HIDE DEF N
<1>4. ASSUME NEW i \in 1 .. Len(ss), NEW p \in On(ss[i])
      PROVE  p \in 1 .. Len(N[ss[i].src]) /\ N[ss[i].src][p] = Mapped[ss[i].src][p]
  <2>1. ss[i] \in Slices
    BY ElementOfSeq
  <2>2. ss[i].src \in Int
    BY <2>1, ConstantsAssumption DEF Slices, Data
  <2>3. p \in 1 .. Len(Mapped[ss[i].src])
    BY DEF Good, Lies
  <2>4. CASE ss[i].src = Data
    BY <1>1, <1>2, <1>3, <2>3, <2>4
  <2>5. CASE ss[i].src # Data
    BY <1>2, <2>2, <2>3, <2>5
  <2> QED BY <2>4, <2>5
<1>5. Still(Mapped, N, ss)
  BY <1>4 DEF Still, Row
<1> QED BY <1>5 DEF Mapped, N

\* A step: cursors of C are set, the others stay, and those still good have
\* their rows.
LEMMA CursorsGo ==
    ASSUME CursorInv, NEW C,
           cur' \in [Cursors -> Seq(Slices)], want' \in [Cursors -> Tables],
           \A c \in Cursors \cap C :
               c \notin moved' \cup gone' => Good(Mapped', cur'[c], want'[c]),
           \A c \in Cursors \ C :
               /\ cur'[c] = cur[c] /\ want'[c] = want[c]
               /\ c \notin moved' \cup gone' =>
                      c \notin moved \cup gone /\ Still(Mapped, Mapped', cur[c])
    PROVE  CursorInv'
<1>1. ASSUME NEW c \in Cursors, c \notin moved' \cup gone'
      PROVE  Good(Mapped', cur'[c], want'[c])
  <2>1. CASE c \in C
    BY <1>1, <2>1
  <2>2. CASE c \notin C
    <3>1. cur'[c] = cur[c] /\ want'[c] = want[c] /\ c \notin moved \cup gone
          /\ Still(Mapped, Mapped', cur[c])
      BY <1>1, <2>2
    <3>2. Good(Mapped, cur[c], want[c])
      BY <3>1 DEF CursorInv
    <3> DEFINE N == Mapped'
               a == cur[c]
               b == want[c]
    <3>3. Good(Mapped, a, b) /\ Still(Mapped, N, a)
      BY <3>1, <3>2
    <3> HIDE DEF N, a, b
    <3>4. Good(N, a, b)
      BY <3>3, StillGood
    <3> QED BY <3>1, <3>4 DEF N, a, b
  <2> QED BY <2>1, <2>2
<1> QED BY <1>1 DEF CursorInv

\* Every step keeps the cursors exact that it does not write off.
LEMMA CursorStep ==
    ASSUME IndexInv, BoundInv, CursorInv, [Next]_vars
    PROVE  CursorInv'
<1>1. /\ StoreOK /\ runs \in Seq(Tables) /\ past \in Tables /\ data \in Seq(Rows)
      /\ Len(runs) \in Nat /\ MaxRuns \in Nat
  BY LenProperties, ConstantsAssumption DEF IndexInv, StoreOK
<1>2. /\ cur \in [Cursors -> Seq(Slices)] /\ want \in [Cursors -> Tables]
      /\ \A c \in Cursors : cur[c] \in Seq(Slices) /\ want[c] \in Tables
      /\ \A c \in Cursors : c \notin moved \cup gone => Good(Mapped, cur[c], want[c])
  BY DEF CursorInv
<1>3. live => Len(runs) <= MaxRuns
  BY <1>1, UnsealedCell DEF BoundInv
<1>4. ASSUME NEW S, \A s \in Int \ S : Mapped'[s] = Mapped[s] \/ Mapped[s] = <<>>,
             NEW c \in Cursors, c \notin moved \cup gone, c \notin Pointing(S)
      PROVE  Still(Mapped, Mapped', cur[c])
  <2> DEFINE N == Mapped'
             a == cur[c]
             b == want[c]
  <2>1. a \in Seq(Slices) /\ Good(Mapped, a, b) /\ \A i \in Left(a) : a[i].src \notin S
    BY <1>2, <1>4 DEF Pointing
  <2>2. \A s \in Int \ S : N[s] = Mapped[s] \/ Mapped[s] = <<>>
    BY <1>4
  <2> HIDE DEF N, a, b
  <2>3. Still(Mapped, N, a)
    BY <2>1, <2>2, StillElsewhere
  <2> QED BY <2>3 DEF N, a
<1>5. ASSUME UNCHANGED <<runs, past, data>>, NEW c \in Cursors, c \notin moved \cup gone
      PROVE  Still(Mapped, Mapped', cur[c])
  <2>1. \A s \in Int \ {} : Mapped'[s] = Mapped[s] \/ Mapped[s] = <<>>
    BY <1>5 DEF Mapped
  <2>2. c \notin Pointing({})
    BY DEF Pointing
  <2> QED BY <1>4, <1>5, <2>1, <2>2
<1>6. ASSUME UNCHANGED <<runs, past, cur>>, data' = Sorted, NEW c \in Cursors,
             c \notin moved \cup gone, c \notin Moved
      PROVE  Still(Mapped, Mapped', cur[c])
  <2>1. CASE Clean(data)
    BY <1>5, <1>6, <2>1 DEF Sorted
  <2>2. CASE ~Clean(data)
    <3>1. \A s \in Int \ {Data} : Mapped'[s] = Mapped[s] \/ Mapped[s] = <<>>
      BY <1>6 DEF Mapped, Layout
    <3>2. c \notin Pointing({Data})
      BY <1>6, <2>2 DEF Moved
    <3> QED BY <1>4, <1>6, <3>1, <3>2
  <2> QED BY <2>1, <2>2
<1>7. CASE UNCHANGED vars
  <2>1. UNCHANGED <<runs, past, data, cur, want, moved, gone>>
    BY <1>7 DEF vars, store
  <2>2. \A c \in Cursors \ {} : c \notin moved' \cup gone' => Still(Mapped, Mapped', cur[c])
    BY <1>5, <2>1
  <2> QED BY <1>2, <2>1, <2>2, CursorsGo
<1>8. ASSUME NEW d, cur' = [cur EXCEPT ![d] = <<>>], want' = [want EXCEPT ![d] = Empty],
             (moved \cup gone) \ {d} \subseteq moved' \cup gone',
             \A c \in Cursors \ {d} :
                 c \notin moved' \cup gone' => Still(Mapped, Mapped', cur[c])
      PROVE  CursorInv'
  <2>1. cur' \in [Cursors -> Seq(Slices)] /\ want' \in [Cursors -> Tables]
    BY <1>2, <1>8, NoneGood
  <2>2. \A c \in Cursors \cap {d} : Good(Mapped', cur'[c], want'[c])
    <3> SUFFICES ASSUME d \in Cursors PROVE Good(Mapped', cur'[d], want'[d])
      OBVIOUS
    <3>1. cur'[d] = <<>> /\ want'[d] = Empty
      BY <1>2, <1>8
    <3> DEFINE N == Mapped'
    <3>2. Good(N, <<>>, Empty)
      BY NoneGood
    <3> HIDE DEF N
    <3>3. Good(N, cur'[d], want'[d])
      BY <3>1, <3>2
    <3> QED BY <3>3 DEF N
  <2>3. \A c \in Cursors \ {d} : cur'[c] = cur[c] /\ want'[c] = want[c]
    BY <1>2, <1>8
  <2> QED BY <1>8, <2>1, <2>2, <2>3, CursorsGo
<1>9. CASE open("r") \/ open("rw")
  <2>1. /\ UNCHANGED <<runs, past, data>>
        /\ cur' = [cur EXCEPT !["seek"] = <<>>] /\ want' = [want EXCEPT !["seek"] = Empty]
        /\ moved' = moved \ {"seek"} /\ gone' = gone \ {"seek"}
    BY <1>9 DEF open, store
  <2> QED BY <1>5, <1>8, <2>1
<1>10. CASE close
  <2>1. /\ UNCHANGED <<runs, past, data>>
        /\ cur' = [cur EXCEPT !["seek"] = <<>>] /\ want' = [want EXCEPT !["seek"] = Empty]
        /\ (moved \cup gone) \ {"seek"} \subseteq moved' \cup gone'
    BY <1>10 DEF close, store
  <2> QED BY <1>5, <1>8, <2>1
<1>11. ASSUME NEW rs, drop(rs) PROVE CursorInv'
  <2>1. /\ UNCHANGED <<past, data>> /\ live
        /\ cur' = [cur EXCEPT !["seek"] = <<>>] /\ want' = [want EXCEPT !["seek"] = Empty]
        /\ (moved \cup gone) \ {"seek"} \subseteq moved' \cup gone'
        /\ Pointing(1 .. MaxRuns) \ {"seek"} \subseteq gone'
    BY <1>11 DEF drop
  <2>2. \A s \in Int \ 1 .. MaxRuns : Mapped'[s] = Mapped[s] \/ Mapped[s] = <<>>
    <3> TAKE s \in Int \ 1 .. MaxRuns
    <3>1. s \notin 1 .. Len(runs)
      BY <1>1, <1>3, <2>1
    <3>2. CASE s = Data \/ s = Past
      BY <2>1, <3>2 DEF Mapped, Layout
    <3>3. CASE s # Data /\ s # Past
      BY <3>1, <3>3 DEF Mapped, Layout
    <3> QED BY <3>2, <3>3
  <2>3. \A c \in Cursors \ {"seek"} :
            c \notin moved' \cup gone' => Still(Mapped, Mapped', cur[c])
    BY <1>4, <2>1, <2>2
  <2> QED BY <1>8, <2>1, <2>3
<1>12. ASSUME UNCHANGED <<cur, want>>, moved \subseteq moved', gone \subseteq gone',
              \A c \in Cursors : c \notin moved' \cup gone' => Still(Mapped, Mapped', cur[c])
       PROVE  CursorInv'
  <2>1. cur' \in [Cursors -> Seq(Slices)] /\ want' \in [Cursors -> Tables]
    BY <1>2, <1>12
  <2>2. \A c \in Cursors \ {} :
            /\ cur'[c] = cur[c] /\ want'[c] = want[c]
            /\ c \notin moved' \cup gone' =>
                   c \notin moved \cup gone /\ Still(Mapped, Mapped', cur[c])
    BY <1>12
  <2> QED BY <2>1, <2>2, CursorsGo
<1>13. ASSUME UNCHANGED <<cur, want>>, NEW rows, Collapses(rows) PROVE CursorInv'
  <2>1. /\ UNCHANGED <<runs, moved>> /\ gone' = gone \cup Pointing({Past, Data})
    BY <1>13 DEF Collapses
  <2>2. \A s \in Int \ {Past, Data} : Mapped'[s] = Mapped[s] \/ Mapped[s] = <<>>
    BY <2>1 DEF Mapped, Layout
  <2>3. \A c \in Cursors : c \notin moved' \cup gone' => Still(Mapped, Mapped', cur[c])
    BY <1>4, <2>1, <2>2
  <2> QED BY <1>12, <1>13, <2>1, <2>3
<1>14. ASSUME UNCHANGED <<cur, want>>, NEW t \in Tables, NEW i, Seals(t, i) PROVE CursorInv'
  <2> DEFINE S == {Past, Data} \cup i .. Len(runs)
  <2>1. UNCHANGED moved /\ gone' = gone \cup Pointing(S)
    BY <1>14 DEF Seals
  <2>2. /\ i \in 1 .. Len(runs) + 1 /\ Len(runs') = i
        /\ \A j \in 1 .. i - 1 : runs'[j] = runs[j]
    BY <1>1, <1>14, SealLength
  <2>3. \A s \in Int \ S : Mapped'[s] = Mapped[s] \/ Mapped[s] = <<>>
    <3> TAKE s \in Int \ S
    <3>1. s # Past /\ s # Data /\ s \notin i .. Len(runs)
      OBVIOUS
    <3>2. CASE s \in 1 .. i - 1
      <4>1. s \in 1 .. Len(runs) /\ s \in 1 .. Len(runs') /\ runs'[s] = runs[s]
        BY <1>1, <2>2, <3>2
      <4> QED BY <3>1, <4>1 DEF Mapped, Layout
    <3>3. CASE s \notin 1 .. i - 1
      <4>1. s \notin 1 .. Len(runs)
        BY <1>1, <2>2, <3>1, <3>3
      <4> QED BY <3>1, <4>1 DEF Mapped, Layout
    <3> QED BY <3>2, <3>3
  <2>4. \A c \in Cursors : c \notin moved' \cup gone' => Still(Mapped, Mapped', cur[c])
    BY <1>4, <2>1, <2>3
  <2> QED BY <1>12, <1>14, <2>1, <2>4
<1>15. CASE commit \/ commitFails
  <2>1. UNCHANGED <<cur, want>> /\ Collapsed(data) \in Tables
    BY <1>1, <1>15, MemShape DEF commit, commitFails, Collapsed, MemOf
  <2>2. \/ \E i \in 1 .. Len(runs) + 1 : Seals(Collapsed(data), i)
        \/ UNCHANGED <<runs, past, data, moved, gone>>
        \/ Collapses(data)
    BY <1>15 DEF commit, commitFails
  <2>3. CASE UNCHANGED <<runs, past, data, moved, gone>>
    <3>1. \A c \in Cursors : c \notin moved' \cup gone' => Still(Mapped, Mapped', cur[c])
      BY <1>5, <2>3
    <3> QED BY <1>12, <2>1, <2>3, <3>1
  <2> QED BY <1>13, <1>14, <2>1, <2>2, <2>3
<1>16. ASSUME NEW k \in Keys, put(k) \/ putFails(k) PROVE CursorInv'
  <2> DEFINE r == <<k, puts + 1>>
             rows == Append(data, r)
  <2>1. UNCHANGED <<cur, want>>
    BY <1>16 DEF put, putFails
  <2>2. Collapsed(rows) \in Tables
    <3>1. puts + 1 \in Vals
      BY <1>1, <1>16, ConstantsAssumption DEF put, putFails, StoreOK, Vals
    <3>2. r \in Rows
      BY <3>1 DEF Rows
    <3>3. rows \in Seq(Rows)
      BY <1>1, <3>2, AppendProperties
    <3> HIDE DEF rows
    <3> QED BY <1>1, <3>3, MemShape DEF Collapsed, MemOf
  <2>3. \/ \E i \in 1 .. Len(runs) + 1 : Seals(Collapsed(rows), i)
        \/ data' = rows /\ UNCHANGED <<runs, past, moved, gone>>
        \/ Collapses(rows)
    BY <1>16 DEF put, putFails
  <2> HIDE DEF r
  <2>4. CASE data' = rows /\ UNCHANGED <<runs, past, moved, gone>>
    <3>1. ASSUME NEW c \in Cursors, c \notin moved' \cup gone'
          PROVE  Still(Mapped, Mapped', cur[c])
      <4> DEFINE a == cur[c]
                 b == want[c]
      <4>1. a \in Seq(Slices) /\ Good(Mapped, a, b)
        BY <1>2, <2>4, <3>1
      <4>2. data' = Append(data, r) /\ UNCHANGED <<runs, past>>
        BY <2>4
      <4> QED BY <1>1, <4>1, <4>2, StillAppended
    <3> QED BY <1>12, <2>1, <2>4, <3>1
  <2> HIDE DEF rows
  <2> QED BY <1>13, <1>14, <2>1, <2>2, <2>3, <2>4
<1>17. CASE get
  <2>1. /\ UNCHANGED <<runs, past, cur, want, gone>> /\ data' = Sorted /\ moved' = Moved
        /\ moved \subseteq Moved
    BY <1>17 DEF get, Moved
  <2>2. \A c \in Cursors : c \notin moved' \cup gone' => Still(Mapped, Mapped', cur[c])
    BY <1>6, <2>1
  <2> QED BY <1>12, <2>1, <2>2
<1>18. ASSUME NEW d, NEW lo \in Int, NEW hi \in Int, Places(d, lo, hi) PROVE CursorInv'
  <2> DEFINE a == Cut(lo, hi)
             b == Expected(lo, hi)
             N == Layout(runs, past, Sorted)
  <2>1. /\ d \in Cursors /\ live /\ UNCHANGED <<runs, past>> /\ data' = Sorted
        /\ cur' = [cur EXCEPT ![d] = a] /\ want' = [want EXCEPT ![d] = b]
        /\ moved' = Moved \ {d} /\ gone' = gone \ {d} /\ moved \subseteq Moved
    BY <1>18 DEF Places, Moved
  <2>2. a \in Seq(Slices) /\ b \in Tables /\ Good(N, a, b)
    BY <1>1, <1>3, <2>1, PlacedGood
  <2>3. Mapped' = N
    BY <2>1 DEF Mapped
  <2> HIDE DEF a, b, N
  <2>4. cur' \in [Cursors -> Seq(Slices)] /\ want' \in [Cursors -> Tables]
    BY <1>2, <2>1, <2>2
  <2>5. cur'[d] = a /\ want'[d] = b
    BY <1>2, <2>1
  <2>6. \A c \in Cursors \cap {d} :
            c \notin moved' \cup gone' => Good(Mapped', cur'[c], want'[c])
    BY <2>2, <2>3, <2>5
  <2>7. ASSUME NEW c \in Cursors \ {d}
        PROVE  /\ cur'[c] = cur[c] /\ want'[c] = want[c]
               /\ c \notin moved' \cup gone' =>
                      c \notin moved \cup gone /\ Still(Mapped, Mapped', cur[c])
    <3>1. cur'[c] = cur[c] /\ want'[c] = want[c]
      BY <1>2, <2>1
    <3>2. ASSUME c \notin moved' \cup gone'
          PROVE  c \notin moved \cup gone /\ Still(Mapped, Mapped', cur[c])
      <4>1. c \notin moved \cup gone /\ c \notin Moved
        BY <2>1, <3>2
      <4>2. CASE Clean(data)
        <5>1. UNCHANGED <<runs, past, data>>
          BY <2>1, <4>2 DEF Sorted
        <5> QED BY <1>5, <4>1, <5>1
      <4>3. CASE ~Clean(data)
        <5>1. \A s \in Int \ {Data} : Mapped'[s] = Mapped[s] \/ Mapped[s] = <<>>
          BY <2>1 DEF Mapped, Layout
        <5>2. c \notin Pointing({Data})
          BY <4>1, <4>3 DEF Moved
        <5> QED BY <1>4, <4>1, <5>1, <5>2
      <4> QED BY <4>2, <4>3
    <3> QED BY <3>1, <3>2
  <2> QED BY <2>4, <2>6, <2>7, CursorsGo
<1>19. ASSUME NEW d \in Cursors, pull(d) PROVE CursorInv'
  <2> DEFINE a == cur[d]
             b == want[d]
             e == Without(b, Least(DOMAIN b))
  <2>1. /\ d \notin moved \cup gone /\ Left(a) # {}
        /\ cur' = [cur EXCEPT ![d] = Advanced(a)] /\ want' = [want EXCEPT ![d] = e]
        /\ UNCHANGED <<runs, past, data, moved, gone>>
    BY <1>2, <1>19 DEF pull, store
  <2>2. a \in Seq(Slices) /\ b \in Tables /\ Good(Mapped, a, b)
    BY <1>2, <2>1
  <2>3. Advanced(a) \in Seq(Slices) /\ Good(Mapped, Advanced(a), e)
    <3> HIDE DEF a, b
    <3> QED BY <1>1, <2>1, <2>2, AdvancedGood
  <2>4. e \in Tables
    <3> DEFINE ks == DOMAIN b \ {Least(DOMAIN b)}
    <3>1. ks \in SUBSET Keys /\ [k \in ks |-> b[k]] \in [ks -> Vals]
      BY <2>2, TableShape
    <3>2. [k \in ks |-> b[k]] \in Tables
      <4> HIDE DEF ks
      <4> QED BY <3>1, TableShape
    <3> QED BY <3>2 DEF Without
  <2>5. Mapped' = Mapped
    BY <2>1 DEF Mapped
  <2> DEFINE as == Advanced(a)
  <2> HIDE DEF as, e
  <2>6. cur' \in [Cursors -> Seq(Slices)] /\ want' \in [Cursors -> Tables]
    BY <1>2, <2>1, <2>3, <2>4 DEF as
  <2>7. \A c \in Cursors \cap {d} :
            c \notin moved' \cup gone' => Good(Mapped', cur'[c], want'[c])
    <3>1. cur'[d] = as /\ want'[d] = e
      BY <1>2, <2>1 DEF as
    <3> QED BY <2>3, <2>5, <3>1 DEF as
  <2>8. \A c \in Cursors \ {d} :
            /\ cur'[c] = cur[c] /\ want'[c] = want[c]
            /\ c \notin moved' \cup gone' =>
                   c \notin moved \cup gone /\ Still(Mapped, Mapped', cur[c])
    BY <1>2, <1>5, <2>1
  <2> QED BY <2>6, <2>7, <2>8, CursorsGo
<1>20. ASSUME NEW d \in Cursors, pullBad(d) PROVE CursorInv'
  <2> DEFINE a == cur[d]
  <2>0. PICK i \in Left(a) :
            \E p \in a[i].at + 1 .. a[i].end : cur' = [cur EXCEPT ![d][i].at = p]
    BY <1>20 DEF pullBad
  <2>1. PICK p \in a[i].at + 1 .. a[i].end : cur' = [cur EXCEPT ![d][i].at = p]
    BY <2>0
  <2>2. /\ d \in moved \cup gone
        /\ UNCHANGED <<runs, past, data, want, moved, gone>>
    BY <1>20 DEF pullBad, store
  <2>3. a \in Seq(Slices) /\ i \in 1 .. Len(a) /\ Len(a) \in Nat
    BY <1>2, <2>1, LenProperties DEF Left
  <2> DEFINE sl == [a[i] EXCEPT !.at = p]
             as == [a EXCEPT ![i] = sl]
  <2>4. cur' = [cur EXCEPT ![d] = as]
    BY <2>1
  <2>5. sl \in Slices
    <3>1. a[i] \in Slices
      BY <2>3, ElementOfSeq
    <3>2. a[i].at \in Nat /\ a[i].end \in Nat
      BY <3>1 DEF Slices
    <3>3. p \in Nat
      BY <2>1, <3>2
    <3> QED BY <3>1, <3>3 DEF Slices
  <2> HIDE DEF sl
  <2>6. as \in Seq(Slices)
    <3>1. as \in [1 .. Len(a) -> Slices]
      <4>1. a \in [1 .. Len(a) -> Slices]
        BY <2>3
      <4> QED BY <2>5, <4>1
    <3> QED BY <2>3, <3>1
  <2> HIDE DEF as
  <2>7. cur' \in [Cursors -> Seq(Slices)] /\ want' \in [Cursors -> Tables]
    BY <1>2, <2>2, <2>4, <2>6
  <2>8. \A c \in Cursors \ {d} :
            /\ cur'[c] = cur[c] /\ want'[c] = want[c]
            /\ c \notin moved' \cup gone' =>
                   c \notin moved \cup gone /\ Still(Mapped, Mapped', cur[c])
    BY <1>2, <1>5, <2>2, <2>4
  <2>9. \A c \in Cursors \cap {d} :
            c \notin moved' \cup gone' => Good(Mapped', cur'[c], want'[c])
    BY <2>2
  <2> QED BY <2>7, <2>8, <2>9, CursorsGo
<1>21. CASE cbReturns(TRUE)
  <2>1. /\ UNCHANGED <<runs, past, data>>
        /\ cur' = [cur EXCEPT !["range"] = <<>>] /\ want' = [want EXCEPT !["range"] = Empty]
        /\ moved' = moved \ {"range"} /\ gone' = gone \ {"range"}
    BY <1>21 DEF cbReturns, store
  <2> QED BY <1>5, <1>8, <2>1
<1>22. CASE cbReturns(FALSE)
  <2>1. UNCHANGED <<runs, past, data, cur, want, moved, gone>>
    BY <1>22 DEF cbReturns, store
  <2>2. \A c \in Cursors : c \notin moved' \cup gone' => Still(Mapped, Mapped', cur[c])
    BY <1>5, <2>1
  <2> QED BY <1>12, <2>1, <2>2
<1>23. CASE crash
  <2>1. cur' = [c \in Cursors |-> <<>>] /\ want' = [c \in Cursors |-> Empty]
    BY <1>23 DEF crash
  <2>2. cur' \in [Cursors -> Seq(Slices)] /\ want' \in [Cursors -> Tables]
    BY <2>1, NoneGood
  <2> DEFINE N == Mapped'
  <2>3. Good(N, <<>>, Empty)
    BY NoneGood
  <2> HIDE DEF N
  <2>4. \A c \in Cursors \cap Cursors : Good(N, cur'[c], want'[c])
    BY <2>1, <2>3
  <2> QED BY <2>2, <2>4, CursorsGo DEF N
<1>24. ASSUME NEW k \in Keys, seek(k) PROVE CursorInv'
  <2>1. k \in Int /\ Beyond \in Int
    BY BeyondIs, ConstantsAssumption
  <2> QED BY <1>18, <1>24, <2>1 DEF seek
<1>25. ASSUME NEW k \in Keys, NEW h \in Keys, range(k, h) PROVE CursorInv'
  <2>1. k \in Int /\ h \in Int
    BY ConstantsAssumption
  <2> QED BY <1>18, <1>25, <2>1 DEF range
<1> QED BY <1>7, <1>9, <1>10, <1>11, <1>15, <1>16, <1>17, <1>19, <1>20, <1>21, <1>22, <1>23,
           <1>24, <1>25 DEF Next

\* All of it, in every state.
CursorsOK == BoundInv /\ CursorInv
LEMMA CursorsHold == Spec => [](IndexInv /\ CursorsOK)
<1>1. Init => CursorsOK
  <2> SUFFICES ASSUME Init PROVE CursorsOK
    OBVIOUS
  <2>1. /\ cur = [c \in Cursors |-> <<>>] /\ want = [c \in Cursors |-> Empty]
        /\ runs = <<>> /\ past = Empty /\ data = <<>> /\ moved = {} /\ gone = {}
        /\ live = FALSE /\ rw = FALSE /\ cb = FALSE
    BY DEF Init
  <2>2. CursorInv
    BY <2>1, NoneGood DEF CursorInv
  <2>3. Len(runs) <= MaxRuns + 1
    BY <2>1, ConstantsAssumption
  <2>4. BoundInv
    BY <2>1, <2>3, PageEmpty DEF BoundInv
  <2> QED BY <2>2, <2>4 DEF CursorsOK
<1>2. IndexInv /\ CursorsOK /\ [Next]_vars => CursorsOK'
  BY CursorStep, BoundStep DEF CursorsOK
<1> QED BY <1>1, <1>2, RunsAscend, PTL DEF Spec

\* A cursor delivers, through its pointers, the rows the index had when it was
\* placed, each key once, in order and with its newest value, whatever was put
\* since, until DATA is sorted under it, or what it points into is collapsed,
\* merged, dropped or unmapped: jpup_range, jpup_seek, jpup_next.
THEOREM CursorsAreExact == Spec => []CursorExact
<1>1. IndexInv /\ CursorsOK => CursorExact
  <2> SUFFICES ASSUME IndexInv, CursorInv, NEW c \in Cursors \ (moved \cup gone)
               PROVE  OnRow(c)
    BY DEF CursorExact, CursorsOK
  <2> DEFINE a == cur[c]
             b == want[c]
  <2>1. StoreOK /\ a \in Seq(Slices) /\ b \in Tables /\ Good(Mapped, a, b)
    BY DEF CursorInv, IndexInv
  <2> HIDE DEF a, b
  <2>2. /\ Left(a) = {} <=> DOMAIN b = {}
        /\ Left(a) # {} => Top(a) = <<Least(DOMAIN b), b[Least(DOMAIN b)]>>
    BY <2>1, TopIs
  <2> QED BY <2>2 DEF OnRow, a, b
<1> QED BY <1>1, CursorsHold, PTL

\* JABCPup*: PAST and DATA together never exceed the memtable's page, a handle
\* has a cell for each of its runs and for the memtable, a death leaves at most
\* one file more, and a cursor points into a run, PAST or DATA.
THEOREM IndexTyped == Spec => []TypeOK
<1>1. IndexInv /\ CursorsOK => TypeOK
  BY DEF IndexInv, StoreOK, CursorsOK, CursorInv, BoundInv, PageOK, TypeOK
<1> QED BY <1>1, CursorsHold, PTL
=============================================================================
