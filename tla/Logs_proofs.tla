----------------------------- MODULE Logs_proofs -----------------------------
(***************************************************************************)
(* The append-only logs, for any buffer size, any views and any contents:  *)
(* the clocks ascend, a search finds the nearest row, cursors stand on the *)
(* rows they delivered, and a booked log gives back what was appended.     *)
(*                                                                         *)
(* All of it rests on one fact about bytes: from offset 0 to the write     *)
(* head they are the rows of the log, laid end to end (Tiled).  What the   *)
(* recursive scans compute is then written down, shown to solve the        *)
(* recursion, and shown to be its only solution.                           *)
(***************************************************************************)
EXTENDS Logs, SequenceTheorems, NaturalsInduction, WellFoundedInduction, TLAPS

Entries == [row : Rows, at : Offs, by : Views \cup {"book"}]

\* The cells of row r are in b from offset o on.
Holds(b, o, r) ==
    \A k \in 1 .. Size(r.what) : o + k <= Len(b) /\ b[o + k] = [row |-> r, k |-> k]

\* Where the row after the i-th starts, and at the last one the write head w.
After(l, w, i) == IF i < Len(l) THEN l[i + 1].at ELSE w

\* The rows of l are in b end to end, from 0 to w.
Tiled(b, l, w) ==
    /\ After(l, w, 0) = 0
    /\ \A i \in 1 .. Len(l) :
          /\ After(l, w, i) = l[i].at + Size(l[i].row.what)
          /\ Holds(b, l[i].at, l[i].row)
          /\ l[i].at + Size(l[i].row.what) <= w
          /\ \A j \in 1 .. Len(l) : i < j => l[i].at + Size(l[i].row.what) <= l[j].at

TileInv == Tiled(bytes, log, watermark)

\* Past the write head a booked log has no newline, only what is left of a row
\* that was being written when the process died.
BookInv ==
    family = "BOOK" =>
        \A i \in watermark + 1 .. Len(bytes) : ~Newline(bytes[i])

\* No row is later than the clock it was fed by; those of a booked log ascend.
ClockInv ==
    /\ family = "ULOG" =>
          \A i \in 1 .. Len(log) :
             log[i].by \in Views /\ log[i].row.ts \in 1 .. view[log[i].by].last
    /\ family = "BOOK" =>
          \A i, j \in 1 .. Len(log) : i < j => log[i].row.ts < log[j].row.ts

\* The sidecar is right while the log is open, and whenever its sentinel names
\* the end of the rows.
Offsets == [i \in 1 .. Len(log) |-> log[i].at]
SidecarInv ==
    family = "BOOK" =>
        /\ flushed <= watermark
        /\ opened \/ flushed = watermark => idx = Offsets

LogInv ==
    TypeOK /\ TileInv /\ BookInv /\ SidecarInv /\ ClockInv /\ Ascending /\ CursorOnRow

-----------------------------------------------------------------------------
(* Numbers.                                                                *)

\* A set of numbers that is not empty has a least element.
LEMMA SmallestIn ==
    ASSUME NEW S \in SUBSET Nat, S # {}
    PROVE  \E x \in S : \A y \in S : x <= y
<1> DEFINE R == {ss \in Nat \X Nat : ss[1] < ss[2]}
<1>1. IsWellFoundedOn(R, Nat)
  BY NatLessThanWellFounded, Zenon DEF OpToRel
<1>2. PICK x \in S : \A y \in S : ~(<<y, x>> \in R)
  BY <1>1, WFMin
<1>3. ASSUME NEW y \in S
      PROVE  x <= y
  <2>1. x \in Nat /\ y \in Nat /\ ~(<<y, x>> \in R) /\ <<y, x>> \in Nat \X Nat
    BY <1>2
  <2>2. y < x => <<y, x>> \in R
    BY <2>1
  <2> QED BY <2>1, <2>2
<1> QED BY <1>3

\* A bounded one has a greatest: the mirrored set's least.
LEMMA LargestIn ==
    ASSUME NEW n \in Nat, NEW S \in SUBSET (0 .. n), S # {}
    PROVE  \E x \in S : \A y \in S : y <= x
<1> DEFINE T == {i \in 0 .. n : n - i \in S}
<1>1. T \in SUBSET Nat
  OBVIOUS
<1>2. \A y \in S : n - y \in T /\ n - (n - y) = y
  <2> TAKE y \in S
  <2>1. y \in 0 .. n /\ n - y \in 0 .. n /\ n - (n - y) = y
    OBVIOUS
  <2> QED BY <2>1
<1>3. PICK i \in T : \A j \in T : i <= j
  <2>1. T # {}
    BY <1>2
  <2> HIDE DEF T
  <2> QED BY <1>1, <2>1, SmallestIn
<1>4. ASSUME NEW y \in S PROVE y <= n - i
  <2>1. n - y \in T /\ y \in 0 .. n
    BY <1>2
  <2>2. i <= n - y /\ i \in 0 .. n
    BY <1>3, <2>1
  <2> QED BY <2>1, <2>2
<1> QED BY <1>3, <1>4

\* The larger of two numbers.
LEMMA MaxOfTwo ==
    ASSUME NEW a \in Nat, NEW b \in Nat
    PROVE  Max({a, b}) = IF a >= b THEN a ELSE b
<1> DEFINE m == IF a >= b THEN a ELSE b
<1>1. m \in {a, b} /\ \A y \in {a, b} : m >= y
  OBVIOUS
<1>2. \A x \in {a, b} : (\A y \in {a, b} : x >= y) => x = m
  OBVIOUS
<1> HIDE DEF m
<1>3. Max({a, b}) = m
  BY <1>1, <1>2 DEF Max
<1> QED BY <1>3 DEF m

\* Max is the largest, when there is one.
LEMMA MaxIs ==
    ASSUME NEW S \in SUBSET Int, NEW m \in S, \A y \in S : y <= m
    PROVE  Max(S) = m
<1>1. \A y \in S : m >= y
  OBVIOUS
<1>2. \A x \in S : (\A y \in S : x >= y) => x = m
  OBVIOUS
<1> QED BY <1>1, <1>2 DEF Max

\* Min is the smallest.
LEMMA MinIs ==
    ASSUME NEW S \in SUBSET Int, NEW m \in S, \A y \in S : m <= y
    PROVE  Min(S) = m
<1>1. \A x \in S : (\A y \in S : x <= y) => x = m
  OBVIOUS
<1> QED BY <1>1 DEF Min

\* Two functions are equal up to n when they are at each argument, or are if
\* they are at a larger one: so do recursions upwards end.
LEMMA AgreeUp ==
    ASSUME NEW n \in Nat, NEW g, NEW h,
           \A o \in 0 .. n : \/ g[o] = h[o]
                             \/ \E p \in 0 .. n : o < p /\ (g[p] = h[p] => g[o] = h[o])
    PROVE  \A o \in 0 .. n : g[o] = h[o]
<1> DEFINE S == {o \in 0 .. n : g[o] # h[o]}
<1> SUFFICES ASSUME S # {} PROVE FALSE
  OBVIOUS
<1>1. S \in SUBSET (0 .. n)
  OBVIOUS
<1>2. PICK o \in S : \A p \in S : p <= o
  <2> HIDE DEF S
  <2> QED BY <1>1, LargestIn
<1>3. PICK p \in 0 .. n : o < p /\ (g[p] = h[p] => g[o] = h[o])
  OBVIOUS
<1>4. p \notin S
  <2>1. o \in Nat /\ p \in Nat
    OBVIOUS
  <2> QED BY <1>2, <1>3, <2>1
<1> QED BY <1>3, <1>4

\* The same for recursions downwards.
LEMMA AgreeDown ==
    ASSUME NEW n \in Nat, NEW g, NEW h,
           \A o \in 0 .. n : \/ g[o] = h[o]
                             \/ \E p \in 0 .. n : p < o /\ (g[p] = h[p] => g[o] = h[o])
    PROVE  \A o \in 0 .. n : g[o] = h[o]
<1> DEFINE S == {o \in 0 .. n : g[o] # h[o]}
<1> SUFFICES ASSUME S # {} PROVE FALSE
  OBVIOUS
<1>1. S \in SUBSET Nat
  OBVIOUS
<1>2. PICK o \in S : \A p \in S : o <= p
  <2> HIDE DEF S
  <2> QED BY <1>1, SmallestIn
<1>3. PICK p \in 0 .. n : p < o /\ (g[p] = h[p] => g[o] = h[o])
  OBVIOUS
<1>4. p \notin S
  <2>1. o \in Nat /\ p \in Nat
    OBVIOUS
  <2> QED BY <1>2, <1>3, <2>1
<1> QED BY <1>3, <1>4

\* A part of a sequence, n elements after the m-th.
LEMMA PartShape ==
    ASSUME NEW S, NEW s \in Seq(S), NEW m \in Nat, NEW n \in Nat, m + n <= Len(s)
    PROVE  /\ SubSeq(s, m + 1, m + n) \in Seq(S) /\ Len(SubSeq(s, m + 1, m + n)) = n
           /\ \A i \in 1 .. n : SubSeq(s, m + 1, m + n)[i] = s[m + i]
<1> DEFINE a == m + 1
           e == m + n
           q == SubSeq(s, a, e)
<1>1. a \in Int /\ e \in Int /\ Len(s) \in Nat
  BY LenProperties
<1>2. \A i \in a .. e : i \in 1 .. Len(s)
  BY <1>1
<1>3. (IF a <= e THEN e - a + 1 ELSE 0) = n /\ e - a + 1 = n
  OBVIOUS
<1>4. \A i \in 1 .. n : a + i - 1 = m + i
  OBVIOUS
<1> HIDE DEF a, e
<1>5. \A i \in a .. e : s[i] \in S
  BY <1>2, ElementOfSeq
<1>6. /\ q \in Seq(S) /\ Len(q) = IF a <= e THEN e - a + 1 ELSE 0
      /\ \A i \in 1 .. e - a + 1 : q[i] = s[a + i - 1]
  BY <1>1, <1>5, SubSeqProperties
<1> HIDE DEF q
<1>7. \A i \in 1 .. n : q[i] = s[m + i]
  BY <1>3, <1>4, <1>6
<1> QED BY <1>3, <1>6, <1>7 DEF q, a, e

-----------------------------------------------------------------------------
(* Rows in bytes.                                                          *)

\* A row is at least one cell.
LEMMA RowShape ==
    ASSUME NEW r \in Rows
    PROVE  /\ Size(r.what) \in Nat \ {0}
           /\ RowCells(r) \in Seq(Cells) /\ Len(RowCells(r)) = Size(r.what)
           /\ \A k \in 1 .. Size(r.what) : RowCells(r)[k] = [row |-> r, k |-> k]
<1> DEFINE n == Size(r.what)
<1>1. n \in Nat \ {0}
  BY ConstantsAssumption DEF Rows
<1> HIDE DEF n
<1>2. \A k \in 1 .. n : [row |-> r, k |-> k] \in Cells
  <2>1. \A k \in 1 .. n : k \in Nat \ {0}
    BY <1>1
  <2> QED BY <2>1 DEF Cells
<1>3. [k \in 1 .. n |-> [row |-> r, k |-> k]] \in [1 .. n -> Cells]
  BY <1>2
<1>4. n \in Nat
  BY <1>1
<1>5. RowCells(r) = [k \in 1 .. n |-> [row |-> r, k |-> k]]
  BY DEF RowCells, n
<1>6. RowCells(r) \in Seq(Cells) /\ Len(RowCells(r)) = n
  BY <1>3, <1>4, <1>5
<1> QED BY <1>1, <1>5, <1>6 DEF n

\* What is written at an offset of the bytes is there, and the rest stays.
LEMMA WrittenShape ==
    ASSUME bytes \in Seq(Cells), NEW o \in 0 .. Len(bytes), NEW cells \in Seq(Cells)
    PROVE  /\ Written(o, cells) \in Seq(Cells)
           /\ Len(Written(o, cells)) = IF o + Len(cells) >= Len(bytes) THEN o + Len(cells)
                                       ELSE Len(bytes)
           /\ \A k \in 1 .. Len(cells) : Written(o, cells)[o + k] = cells[k]
           /\ \A i \in 1 .. Len(bytes) :
                  i \notin o + 1 .. o + Len(cells) => Written(o, cells)[i] = bytes[i]
<1> DEFINE m == Len(cells)
           n == Len(bytes)
           q == IF o + m >= n THEN o + m ELSE n
           w == Written(o, cells)
<1>1. m \in Nat /\ n \in Nat /\ o \in Nat /\ o <= n
  BY LenProperties
<1>2. Max({o + m, n}) = q /\ q \in Nat
  BY <1>1, MaxOfTwo
<1>3. w = [i \in 1 .. q |-> IF i \in o + 1 .. o + m THEN cells[i - o] ELSE bytes[i]]
  BY <1>2 DEF Written
<1> HIDE DEF w
<1>4. ASSUME NEW i \in 1 .. q
      PROVE  (IF i \in o + 1 .. o + m THEN cells[i - o] ELSE bytes[i]) \in Cells
  <2>1. CASE i \in o + 1 .. o + m
    <3>1. i - o \in 1 .. m
      BY <1>1, <2>1
    <3>2. cells[i - o] \in Cells
      BY <3>1, ElementOfSeq
    <3> QED BY <2>1, <3>2
  <2>2. CASE i \notin o + 1 .. o + m
    <3>1. i \in 1 .. n
      BY <1>1, <2>2
    <3>2. bytes[i] \in Cells
      BY <3>1, ElementOfSeq
    <3> QED BY <2>2, <3>2
  <2> QED BY <2>1, <2>2
<1>5. w \in [1 .. q -> Cells]
  <2> HIDE DEF q, m
  <2> QED BY <1>3, <1>4
<1>6. w \in Seq(Cells) /\ Len(w) = q
  <2> HIDE DEF q
  <2> QED BY <1>2, <1>5
<1>7. ASSUME NEW k \in 1 .. m
      PROVE  w[o + k] = cells[k]
  <2>1. o + k \in 1 .. q /\ o + k \in o + 1 .. o + m /\ (o + k) - o = k
    BY <1>1
  <2> QED BY <1>3, <2>1
<1>8. ASSUME NEW i \in 1 .. n, i \notin o + 1 .. o + m
      PROVE  w[i] = bytes[i]
  <2>1. i \in 1 .. q
    BY <1>1
  <2> QED BY <1>3, <1>8, <2>1
<1> QED BY <1>6, <1>7, <1>8 DEF w

\* Draining from given bytes.
DrainsIn(b, o, dl) ==
    /\ o < dl
    /\ b[o + 1].k = 1
    /\ LET cells == RowCells(b[o + 1].row) IN
         /\ o + Len(cells) <= dl
         /\ SubSeq(b, o + 1, o + Len(cells)) = cells

\* A row that is all there is drained.
LEMMA HoldsDrains ==
    ASSUME NEW b \in Seq(Cells), NEW r \in Rows, NEW o \in Nat, Holds(b, o, r),
           NEW dl \in Nat, o + Size(r.what) <= dl, dl <= Len(b)
    PROVE  DrainsIn(b, o, dl) /\ b[o + 1].row = r
<1> DEFINE n == Size(r.what)
           cells == RowCells(r)
           sub == SubSeq(b, o + 1, o + n)
<1>1. /\ n \in Nat \ {0} /\ cells \in Seq(Cells) /\ Len(cells) = n
      /\ \A k \in 1 .. n : cells[k] = [row |-> r, k |-> k]
  BY RowShape
<1>2. \A k \in 1 .. n : b[o + k] = [row |-> r, k |-> k]
  BY DEF Holds
<1> HIDE DEF n, cells
<1>3. 1 \in 1 .. n /\ Len(b) \in Nat /\ o + n <= dl
  BY <1>1, LenProperties DEF n
<1>4. b[o + 1].row = r /\ b[o + 1].k = 1
  <2>1. b[o + 1] = [row |-> r, k |-> 1]
    BY <1>2, <1>3, Zenon
  <2> QED BY <2>1
<1>5. sub = cells
  <2>1. n \in Nat /\ o + n <= Len(b)
    BY <1>1, <1>3
  <2>2. sub \in Seq(Cells) /\ Len(sub) = n /\ \A i \in 1 .. n : sub[i] = b[o + i]
    BY <2>1, PartShape
  <2> HIDE DEF sub
  <2> QED BY <1>1, <1>2, <2>2, SeqEqual
<1>6. o < dl
  BY <1>1, <1>3
<1> QED BY <1>1, <1>3, <1>4, <1>5, <1>6 DEF DrainsIn, cells

\* The parts of an entry of the log.
LEMMA EntryShape ==
    ASSUME NEW l \in Seq(Entries), NEW i \in 1 .. Len(l)
    PROVE  /\ l[i].row \in Rows /\ l[i].at \in Nat /\ Size(l[i].row.what) \in Nat \ {0}
           /\ i \in Nat /\ Len(l) \in Nat
<1>1. l[i] \in Entries /\ Len(l) \in Nat
  BY LenProperties, ElementOfSeq
<1>2. l[i].row \in Rows /\ l[i].at \in Offs
  BY <1>1 DEF Entries
<1>3. l[i].at \in Nat
  BY <1>2, ConstantsAssumption DEF Offs
<1> QED BY <1>1, <1>2, <1>3, RowShape

\* Every offset below the write head lies in a row.
LEMMA InSomeRow ==
    ASSUME NEW b, NEW l \in Seq(Entries), NEW w \in Nat, Tiled(b, l, w),
           NEW o \in Nat, o < w
    PROVE  \E i \in 1 .. Len(l) : l[i].at <= o /\ o < l[i].at + Size(l[i].row.what)
<1> DEFINE n == Len(l)
           S == {i \in 1 .. n : l[i].at <= o}
<1>1. n \in Nat /\ After(l, w, 0) = 0
  BY LenProperties DEF Tiled
<1>2. n # 0 /\ l[1].at = 0
  <2>1. n = 0 => w = 0
    BY <1>1 DEF After
  <2>2. n # 0 => 0 < n /\ 0 + 1 = 1
    BY <1>1
  <2> QED BY <1>1, <2>1, <2>2 DEF After
<1>3. 1 \in S
  BY <1>1, <1>2
<1>4. S \in SUBSET (0 .. n)
  OBVIOUS
<1>5. PICK i \in S : \A j \in S : j <= i
  <2> HIDE DEF S, n
  <2> QED BY <1>1, <1>3, <1>4, LargestIn
<1>6. i \in 1 .. n /\ l[i].at <= o
  OBVIOUS
<1>7. After(l, w, i) = l[i].at + Size(l[i].row.what)
  BY <1>6 DEF Tiled
<1>8. o < After(l, w, i)
  <2>1. CASE i < n
    <3>1. i + 1 \in 1 .. n /\ i + 1 > i
      BY <1>1, <1>6, <2>1
    <3>2. i + 1 \notin S
      <4>1. i + 1 \in S => i + 1 <= i
        BY <1>5
      <4> QED BY <1>6, <3>1, <4>1
    <3>3. ~(l[i + 1].at <= o) /\ l[i + 1].at \in Nat
      BY <3>1, <3>2, EntryShape
    <3> QED BY <2>1, <3>3 DEF After
  <2>2. CASE ~(i < n)
    BY <2>2 DEF After
  <2> QED BY <2>1, <2>2
<1> QED BY <1>6, <1>7, <1>8

\* Where a row of the log starts, that row is drained, and ends where the next
\* one starts.
LEMMA StartDrains ==
    ASSUME NEW b \in Seq(Cells), NEW l \in Seq(Entries), NEW w \in 0 .. Len(b),
           Tiled(b, l, w), NEW i \in 1 .. Len(l), NEW dl \in w .. Len(b)
    PROVE  /\ DrainsIn(b, l[i].at, dl) /\ b[l[i].at + 1].row = l[i].row
           /\ l[i].at < w
<1>1. /\ l[i].row \in Rows /\ l[i].at \in Nat /\ Size(l[i].row.what) \in Nat \ {0}
      /\ Len(b) \in Nat
  BY EntryShape, LenProperties
<1>2. Holds(b, l[i].at, l[i].row) /\ l[i].at + Size(l[i].row.what) <= w
  BY DEF Tiled
<1>3. w \in Nat /\ w <= Len(b) /\ dl \in Nat /\ dl <= Len(b) /\ w <= dl
  BY <1>1
<1>4. l[i].at + Size(l[i].row.what) <= dl
  BY <1>1, <1>2, <1>3
<1> QED BY <1>1, <1>2, <1>3, <1>4, HoldsDrains

\* And nowhere else below the write head is one drained.
LEMMA DrainsStart ==
    ASSUME NEW b \in Seq(Cells), NEW l \in Seq(Entries), NEW w \in 0 .. Len(b),
           Tiled(b, l, w), NEW o \in Nat, DrainsIn(b, o, w)
    PROVE  \E i \in 1 .. Len(l) : l[i].at = o
<1>1. o < w /\ b[o + 1].k = 1 /\ w \in Nat
  BY LenProperties DEF DrainsIn
<1>2. PICK i \in 1 .. Len(l) : l[i].at <= o /\ o < l[i].at + Size(l[i].row.what)
  BY <1>1, InSomeRow
<1>3. l[i].at \in Nat /\ Size(l[i].row.what) \in Nat \ {0}
  BY EntryShape
<1> DEFINE k == o + 1 - l[i].at
<1>4. k \in 1 .. Size(l[i].row.what) /\ l[i].at + k = o + 1
  BY <1>2, <1>3
<1>5. b[l[i].at + k] = [row |-> l[i].row, k |-> k]
  <2>1. Holds(b, l[i].at, l[i].row)
    BY DEF Tiled
  <2> HIDE DEF k
  <2> QED BY <1>4, <2>1 DEF Holds
<1>6. k = 1
  <2> HIDE DEF k
  <2>1. b[o + 1] = [row |-> l[i].row, k |-> k]
    BY <1>4, <1>5
  <2> QED BY <1>1, <2>1
<1> QED BY <1>3, <1>6

-----------------------------------------------------------------------------
(* What the searches find.                                                 *)

\* The offsets of the rows that match.
Matching(rev, kind, arg) ==
    {log[i].at : i \in {j \in 1 .. Len(log) : Hits(log[j].row, rev, kind, arg)}}
MatchFrom(o, rev, kind, arg) == {a \in Matching(rev, kind, arg) : a >= o}
MatchBefore(o, rev, kind, arg) == {a \in Matching(rev, kind, arg) : a < o}

\* What a search forward from o is to answer, and one backward.
First(o, rev, kind, arg) ==
    IF o \in RowStarts /\ MatchFrom(o, rev, kind, arg) # {}
    THEN Min(MatchFrom(o, rev, kind, arg)) ELSE -1
Last(o, rev, kind, arg) ==
    IF MatchBefore(o, rev, kind, arg) # {} THEN Max(MatchBefore(o, rev, kind, arg)) ELSE -1

\* The shape of bytes and log.
LEMMA LogShape ==
    ASSUME TypeOK
    PROVE  /\ bytes \in Seq(Cells) /\ log \in Seq(Entries) /\ Len(log) \in Nat
           /\ watermark \in 0 .. Len(bytes) /\ watermark \in Nat /\ Len(bytes) \in Nat
           /\ watermark \in watermark .. Len(bytes)
<1>1. /\ bytes \in Seq(Cells) /\ log \in Seq(Entries) /\ watermark \in 0 .. Len(bytes)
  BY DEF TypeOK, Entries
<1>2. Len(bytes) \in Nat /\ Len(log) \in Nat
  BY <1>1, LenProperties
<1> QED BY <1>1, <1>2

\* The row that starts at an offset, and where it ends.
LEMMA AtStart ==
    ASSUME TypeOK, TileInv, NEW i \in 1 .. Len(log)
    PROVE  /\ Drains(log[i].at, watermark) /\ RowAt(log[i].at) = log[i].row
           /\ EndOf(log[i].at, watermark) = After(log, watermark, i)
           /\ After(log, watermark, i) = log[i].at + Size(log[i].row.what)
           /\ After(log, watermark, i) \in 0 .. watermark
           /\ log[i].at \in Nat /\ log[i].at < watermark
           /\ log[i].at < After(log, watermark, i)
<1>1. /\ DrainsIn(bytes, log[i].at, watermark) /\ bytes[log[i].at + 1].row = log[i].row
      /\ log[i].at < watermark
  BY LogShape, StartDrains DEF TileInv
<1>2. Drains(log[i].at, watermark) /\ RowAt(log[i].at) = log[i].row
  BY <1>1 DEF DrainsIn, Drains, RowAt
<1>3. /\ After(log, watermark, i) = log[i].at + Size(log[i].row.what)
      /\ log[i].at + Size(log[i].row.what) <= watermark
  BY DEF TileInv, Tiled
<1>4. log[i].at \in Nat /\ Size(log[i].row.what) \in Nat \ {0} /\ watermark \in Nat
  BY LogShape, EntryShape
<1>5. EndOf(log[i].at, watermark) = After(log, watermark, i)
  BY <1>2, <1>3 DEF EndOf
<1>6. /\ After(log, watermark, i) \in 0 .. watermark
      /\ log[i].at < After(log, watermark, i)
  BY <1>3, <1>4
<1> QED BY <1>1, <1>2, <1>3, <1>4, <1>5, <1>6

\* A row is drained at the starts of rows and nowhere else.
LEMMA DrainsOnlyStart ==
    ASSUME TypeOK, TileInv, NEW o \in Nat, Drains(o, watermark)
    PROVE  \E i \in 1 .. Len(log) : log[i].at = o
<1>1. DrainsIn(bytes, o, watermark)
  BY DEF DrainsIn, Drains
<1> QED BY <1>1, LogShape, DrainsStart DEF TileInv

\* The order of the starts.
LEMMA StartOrder ==
    ASSUME TypeOK, TileInv, NEW i \in 1 .. Len(log), NEW j \in 1 .. Len(log)
    PROVE  /\ i < j => After(log, watermark, i) <= log[j].at /\ log[i].at < log[j].at
           /\ log[i].at < log[j].at => i < j
           /\ log[i].at = log[j].at => i = j
<1>1. ASSUME NEW x \in 1 .. Len(log), NEW y \in 1 .. Len(log), x < y
      PROVE  After(log, watermark, x) <= log[y].at /\ log[x].at < log[y].at
  <2>1. /\ After(log, watermark, x) = log[x].at + Size(log[x].row.what)
        /\ log[x].at + Size(log[x].row.what) <= log[y].at
    BY <1>1 DEF TileInv, Tiled
  <2>2. log[x].at \in Nat /\ log[y].at \in Nat /\ Size(log[x].row.what) \in Nat \ {0}
    BY LogShape, EntryShape
  <2> QED BY <2>1, <2>2
<1>2. log[i].at \in Nat /\ log[j].at \in Nat /\ i \in Nat /\ j \in Nat
  BY LogShape, EntryShape
<1>3. i < j \/ i = j \/ j < i
  BY <1>2
<1> QED BY <1>1, <1>2, <1>3

\* The offsets that match are starts of rows, below the write head.
LEMMA MatchShape ==
    ASSUME TypeOK, TileInv, NEW rev, NEW kind, NEW arg
    PROVE  /\ Matching(rev, kind, arg) \in SUBSET (0 .. watermark)
           /\ Matching(rev, kind, arg) \in SUBSET RowStarts
           /\ \A i \in 1 .. Len(log) :
                  log[i].at \in Matching(rev, kind, arg) <=> Hits(log[i].row, rev, kind, arg)
<1>1. ASSUME NEW i \in 1 .. Len(log)
      PROVE  log[i].at \in 0 .. watermark /\ log[i].at \in RowStarts
  <2>1. log[i].at \in Nat /\ log[i].at < watermark /\ watermark \in Nat
    BY AtStart, LogShape
  <2> QED BY <2>1 DEF RowStarts
<1>2. ASSUME NEW i \in 1 .. Len(log), log[i].at \in Matching(rev, kind, arg)
      PROVE  Hits(log[i].row, rev, kind, arg)
  <2>1. PICK j \in 1 .. Len(log) : Hits(log[j].row, rev, kind, arg) /\ log[j].at = log[i].at
    BY <1>2 DEF Matching
  <2>2. i = j
    BY <2>1, StartOrder
  <2> QED BY <2>1, <2>2
<1> QED BY <1>1, <1>2 DEF Matching

\* The step of the search forward: at a row that does not match, the answer is
\* that from the next row on.
LEMMA FirstStep ==
    ASSUME TypeOK, TileInv, NEW rev, NEW kind, NEW arg, NEW i \in 1 .. Len(log)
    PROVE  First(log[i].at, rev, kind, arg) =
               IF Hits(log[i].row, rev, kind, arg) THEN log[i].at
               ELSE First(After(log, watermark, i), rev, kind, arg)
<1> DEFINE o == log[i].at
           e == After(log, watermark, i)
           M == Matching(rev, kind, arg)
           S == MatchFrom(o, rev, kind, arg)
           T == MatchFrom(e, rev, kind, arg)
<1>1. /\ o \in Nat /\ e \in Nat /\ o < e /\ o \in RowStarts /\ watermark \in Nat
  <2>1. o \in Nat /\ e \in 0 .. watermark /\ o < e /\ watermark \in Nat
    BY AtStart, LogShape
  <2> QED BY <2>1 DEF RowStarts
<1>2. M \in SUBSET (0 .. watermark) /\ (o \in M <=> Hits(log[i].row, rev, kind, arg))
  BY MatchShape
<1>3. S = {a \in M : a >= o} /\ T = {a \in M : a >= e}
  BY DEF MatchFrom
<1> HIDE DEF o, e, M, S, T
<1>4. /\ First(o, rev, kind, arg) = IF S # {} THEN Min(S) ELSE -1
      /\ First(e, rev, kind, arg) = IF e \in RowStarts /\ T # {} THEN Min(T) ELSE -1
  BY <1>1 DEF First, S, T
<1>5. CASE Hits(log[i].row, rev, kind, arg)
  <2>1. o \in S /\ S \in SUBSET Int /\ \A a \in S : o <= a
    <3>1. o >= o /\ o \in M
      BY <1>1, <1>2, <1>5
    <3>2. \A a \in M : a \in Int
      BY <1>1, <1>2
    <3>3. \A a \in M : a >= o => o <= a
      BY <1>1, <3>2
    <3> QED BY <1>3, <3>1, <3>2, <3>3
  <2>2. Min(S) = o
    BY <2>1, MinIs
  <2> QED BY <1>4, <1>5, <2>1, <2>2 DEF o
<1>6. CASE ~Hits(log[i].row, rev, kind, arg)
  <2>1. ASSUME NEW a \in M, a >= o
        PROVE  a >= e /\ (e \in RowStarts)
    <3>1. PICK j \in 1 .. Len(log) : log[j].at = a
      BY DEF M, Matching
    <3>2. a # o /\ a \in Nat
      BY <1>2, <1>6
    <3>3. o < log[j].at
      BY <1>1, <2>1, <3>1, <3>2
    <3>4. i < j
      BY <3>3, StartOrder DEF o
    <3>5. e <= a
      BY <3>1, <3>4, StartOrder DEF e
    <3>6. e = log[i + 1].at /\ i + 1 \in 1 .. Len(log)
      <4>1. i < Len(log) /\ i + 1 \in 1 .. Len(log)
        BY <3>4, LogShape
      <4> QED BY <4>1 DEF e, After
    <3>7. e \in RowStarts
      BY <3>6 DEF RowStarts
    <3> QED BY <1>1, <3>2, <3>5, <3>7
  <2>2. \A a \in M : a >= e => a >= o
    BY <1>1, <1>2
  <2>3. S = T
    BY <1>3, <2>1, <2>2
  <2>4. T # {} => e \in RowStarts
    BY <1>3, <2>1, <2>3
  <2> QED BY <1>4, <1>6, <2>3, <2>4 DEF o, e
<1> QED BY <1>5, <1>6

\* JABCulogScan forward answers the first match from o on, and from an offset
\* inside a row nothing.
LEMMA ScanForward ==
    ASSUME TypeOK, TileInv, NEW kind, NEW arg, NEW off \in 0 .. watermark
    PROVE  Scan(off, watermark, FALSE, kind, arg) = First(off, FALSE, kind, arg)
<1> DEFINE w == watermark
           F(o) == First(o, FALSE, kind, arg)
           W == [o \in 0 .. w |-> F(o)]
<1>1. w \in Nat
  BY LogShape
<1>2. ASSUME NEW o \in 0 .. w, Drains(o, w)
      PROVE  /\ EndOf(o, w) \in 0 .. w /\ o < EndOf(o, w)
             /\ F(o) = IF Hits(RowAt(o), FALSE, kind, arg) THEN o ELSE F(EndOf(o, w))
  <2>1. PICK i \in 1 .. Len(log) : log[i].at = o
    BY <1>1, <1>2, DrainsOnlyStart
  <2>2. /\ RowAt(o) = log[i].row /\ EndOf(o, w) = After(log, w, i)
        /\ After(log, w, i) \in 0 .. w /\ o < After(log, w, i)
    BY <2>1, AtStart
  <2> QED BY <2>1, <2>2, FirstStep
<1>3. ASSUME NEW o \in 0 .. w, ~Drains(o, w)
      PROVE  F(o) = -1
  <2>1. o \notin RowStarts
    BY <1>3, AtStart DEF RowStarts
  <2> QED BY <2>1 DEF First
<1>4. W = [cur \in 0 .. w |-> IF ~Drains(cur, w) THEN -1
                              ELSE IF Hits(RowAt(cur), FALSE, kind, arg) THEN cur
                              ELSE W[EndOf(cur, w)]]
  <2>1. \A o \in 0 .. w : F(o) = IF ~Drains(o, w) THEN -1
                                 ELSE IF Hits(RowAt(o), FALSE, kind, arg) THEN o
                                 ELSE W[EndOf(o, w)]
    <3> HIDE DEF F
    <3> QED BY <1>2, <1>3
  <2> HIDE DEF F
  <2> QED BY <2>1
<1> HIDE DEF W
<1>5. PICK g : /\ g = [cur \in 0 .. w |-> IF ~Drains(cur, w) THEN -1
                                          ELSE IF Hits(RowAt(cur), FALSE, kind, arg) THEN cur
                                          ELSE g[EndOf(cur, w)]]
               /\ Scan(off, w, FALSE, kind, arg) = g[off]
  BY <1>4, Zenon DEF Scan
<1>6. \A o \in 0 .. w :
          \/ g[o] = W[o]
          \/ \E p \in 0 .. w : o < p /\ (g[p] = W[p] => g[o] = W[o])
  <2> TAKE o \in 0 .. w
  <2>1. /\ g[o] = IF ~Drains(o, w) THEN -1
                  ELSE IF Hits(RowAt(o), FALSE, kind, arg) THEN o ELSE g[EndOf(o, w)]
        /\ W[o] = IF ~Drains(o, w) THEN -1
                  ELSE IF Hits(RowAt(o), FALSE, kind, arg) THEN o ELSE W[EndOf(o, w)]
    <3>1. g[o] = IF ~Drains(o, w) THEN -1
                  ELSE IF Hits(RowAt(o), FALSE, kind, arg) THEN o ELSE g[EndOf(o, w)]
      BY <1>5
    <3>2. W[o] = IF ~Drains(o, w) THEN -1
                  ELSE IF Hits(RowAt(o), FALSE, kind, arg) THEN o ELSE W[EndOf(o, w)]
      BY <1>4
    <3> QED BY <3>1, <3>2
  <2> QED BY <1>2, <2>1
<1>7. g[off] = W[off]
  BY <1>1, <1>6, AgreeUp
<1> QED BY <1>5, <1>7 DEF W

\* Below the write head the newlines are the last cells of the rows.
LEMMA NewlineEnds ==
    ASSUME TypeOK, TileInv, NEW i \in 1 .. watermark
    PROVE  Newline(bytes[i]) <=> \E j \in 1 .. Len(log) : After(log, watermark, j) = i
<1>1. watermark \in Nat
  BY LogShape
<1>2. ASSUME NEW j \in 1 .. Len(log), NEW k \in 1 .. Size(log[j].row.what)
      PROVE  Newline(bytes[log[j].at + k]) <=> k = Size(log[j].row.what)
  <2>1. bytes[log[j].at + k] = [row |-> log[j].row, k |-> k]
    BY DEF TileInv, Tiled, Holds
  <2> DEFINE c == bytes[log[j].at + k]
  <2>2. c.row = log[j].row /\ c.k = k
    BY <2>1
  <2> HIDE DEF c
  <2>3. Newline(c) <=> k = Size(log[j].row.what)
    BY <2>2 DEF Newline
  <2> QED BY <2>3 DEF c
<1>3. ASSUME NEW j \in 1 .. Len(log)
      PROVE  /\ After(log, watermark, j) = log[j].at + Size(log[j].row.what)
             /\ log[j].at \in Nat /\ Size(log[j].row.what) \in Nat \ {0}
  BY AtStart, LogShape, EntryShape
<1>4. ASSUME NEW j \in 1 .. Len(log), After(log, watermark, j) = i
      PROVE  Newline(bytes[i])
  <2>1. Size(log[j].row.what) \in 1 .. Size(log[j].row.what)
    BY <1>3
  <2>2. Newline(bytes[log[j].at + Size(log[j].row.what)])
    BY <1>2, <2>1
  <2> QED BY <1>3, <1>4, <2>2
<1>5. ASSUME Newline(bytes[i])
      PROVE  \E j \in 1 .. Len(log) : After(log, watermark, j) = i
  <2>1. i - 1 \in Nat /\ i - 1 < watermark
    BY <1>1
  <2>2. PICK j \in 1 .. Len(log) :
            log[j].at <= i - 1 /\ i - 1 < log[j].at + Size(log[j].row.what)
    BY <1>1, <2>1, LogShape, InSomeRow DEF TileInv
  <2> DEFINE k == i - log[j].at
  <2>3. k \in 1 .. Size(log[j].row.what) /\ log[j].at + k = i
    BY <1>1, <1>3, <2>2
  <2> HIDE DEF k
  <2>4. k = Size(log[j].row.what)
    BY <1>2, <1>5, <2>3
  <2> QED BY <1>3, <2>3, <2>4
<1> QED BY <1>4, <1>5

\* JABCulogPrevRow finds the start of the row that the byte before cur is in.
LEMMA PrevRowIs ==
    ASSUME TypeOK, TileInv, NEW cur \in 1 .. watermark
    PROVE  \E j \in 1 .. Len(log) : /\ PrevRow(cur) = log[j].at
                                    /\ log[j].at < cur /\ cur <= After(log, watermark, j)
<1>1. watermark \in Nat /\ Len(log) \in Nat /\ cur - 1 \in Nat /\ cur - 1 < watermark
  BY LogShape
<1>2. PICK j \in 1 .. Len(log) :
          log[j].at <= cur - 1 /\ cur - 1 < log[j].at + Size(log[j].row.what)
  BY <1>1, LogShape, InSomeRow DEF TileInv
<1>3. ASSUME NEW m \in 1 .. Len(log)
      PROVE  /\ After(log, watermark, m) = log[m].at + Size(log[m].row.what)
             /\ After(log, watermark, m) \in Nat
             /\ log[m].at \in Nat /\ Size(log[m].row.what) \in Nat \ {0} /\ m \in Nat
  <2>1. /\ After(log, watermark, m) = log[m].at + Size(log[m].row.what)
        /\ log[m].at \in Nat /\ Size(log[m].row.what) \in Nat \ {0} /\ m \in Nat
    BY AtStart, LogShape, EntryShape
  <2> QED BY <2>1
<1>4. log[j].at < cur /\ cur <= After(log, watermark, j)
  BY <1>1, <1>2, <1>3
<1> DEFINE nl == {i \in 1 .. cur - 1 : Newline(bytes[i])}
<1>5. ASSUME NEW i \in nl
      PROVE  i <= log[j].at /\ i \in Nat /\ i >= 1
  <2>1. i \in 1 .. watermark /\ i \in Nat /\ i < cur /\ i >= 1
    BY <1>1
  <2>2. PICK m \in 1 .. Len(log) : After(log, watermark, m) = i
    BY <2>1, NewlineEnds
  <2>3. m < j
    <3>1. CASE m = j
      BY <1>4, <2>1, <2>2, <3>1, <1>3
    <3>2. CASE j < m
      <4>1. After(log, watermark, j) <= log[m].at
        BY <3>2, StartOrder
      <4>2. log[m].at < i
        BY <2>2, AtStart
      <4> QED BY <1>3, <1>4, <2>1, <4>1, <4>2
    <3> QED BY <1>3, <3>1, <3>2
  <2>4. i <= log[j].at
    BY <2>2, <2>3, StartOrder
  <2> QED BY <2>1, <2>4
<1>6. log[j].at # 0 => log[j].at \in nl
  <2> SUFFICES ASSUME log[j].at # 0 PROVE log[j].at \in nl
    OBVIOUS
  <2>1. log[j].at \in 1 .. cur - 1 /\ log[j].at \in 1 .. watermark
    BY <1>1, <1>3, <1>4
  <2>2. j # 1
    <3>1. 0 < Len(log)
      BY <1>1
    <3>2. After(log, watermark, 0) = log[1].at
      BY <3>1 DEF After
    <3>3. After(log, watermark, 0) = 0
      BY DEF TileInv, Tiled
    <3> QED BY <3>2, <3>3
  <2>3. j - 1 \in 1 .. Len(log) /\ j - 1 < Len(log) /\ (j - 1) + 1 = j
    BY <1>1, <2>2
  <2>4. After(log, watermark, j - 1) = log[j].at
    BY <2>3 DEF After
  <2>5. Newline(bytes[log[j].at])
    BY <2>1, <2>3, <2>4, NewlineEnds
  <2> QED BY <2>1, <2>5
<1>7. PrevRow(cur) = IF nl = {} THEN 0 ELSE Max(nl)
  BY DEF PrevRow
<1> HIDE DEF nl
<1>8. PrevRow(cur) = log[j].at
  <2>1. CASE log[j].at = 0
    <3>1. nl = {}
      BY <1>5, <2>1
    <3> QED BY <1>7, <2>1, <3>1
  <2>2. CASE log[j].at # 0
    <3>1. nl \in SUBSET Int /\ log[j].at \in nl /\ \A y \in nl : y <= log[j].at
      BY <1>5, <1>6, <2>2
    <3>2. Max(nl) = log[j].at
      BY <3>1, MaxIs
    <3> QED BY <1>7, <3>1, <3>2
  <2> QED BY <2>1, <2>2
<1> QED BY <1>4, <1>8

\* The step of the search backward: past a row that does not match, the answer
\* is that from the start of the row.
LEMMA LastStep ==
    ASSUME TypeOK, TileInv, NEW rev, NEW kind, NEW arg, NEW cur \in 1 .. watermark,
           NEW j \in 1 .. Len(log), log[j].at < cur, cur <= After(log, watermark, j)
    PROVE  Last(cur, rev, kind, arg) =
               IF Hits(log[j].row, rev, kind, arg) THEN log[j].at
               ELSE Last(log[j].at, rev, kind, arg)
<1> DEFINE o == log[j].at
           M == Matching(rev, kind, arg)
           S == MatchBefore(cur, rev, kind, arg)
           T == MatchBefore(o, rev, kind, arg)
<1>1. o \in Nat /\ o < cur /\ cur \in Nat /\ watermark \in Nat
  BY AtStart, LogShape
<1>2. M \in SUBSET (0 .. watermark) /\ (o \in M <=> Hits(log[j].row, rev, kind, arg))
  BY MatchShape
<1>3. S = {a \in M : a < cur} /\ T = {a \in M : a < o}
  BY DEF MatchBefore
<1>4. ASSUME NEW a \in M, a < cur
      PROVE  a <= o /\ a \in Nat
  <2>1. PICK m \in 1 .. Len(log) : log[m].at = a
    BY DEF M, Matching
  <2>2. log[m].at \in Nat /\ m \in Nat /\ j \in Nat
    BY LogShape, EntryShape
  <2>3. j < m => After(log, watermark, j) <= log[m].at
    BY StartOrder
  <2>4. After(log, watermark, j) \in 0 .. watermark
    BY AtStart
  <2>5. ~(j < m)
    BY <1>1, <1>4, <2>1, <2>2, <2>3, <2>4
  <2>6. m = j \/ m < j
    BY <2>2, <2>5
  <2>7. m < j => log[m].at < log[j].at
    BY StartOrder
  <2> QED BY <1>1, <2>1, <2>2, <2>6, <2>7
<1>5. /\ Last(cur, rev, kind, arg) = IF S # {} THEN Max(S) ELSE -1
      /\ Last(o, rev, kind, arg) = IF T # {} THEN Max(T) ELSE -1
  BY DEF Last
<1> HIDE DEF o, M, S, T
<1>6. CASE Hits(log[j].row, rev, kind, arg)
  <2>1. o \in S
    BY <1>1, <1>2, <1>3, <1>6
  <2>2. S \in SUBSET Int /\ \A a \in S : a <= o
    BY <1>3, <1>4
  <2>3. Max(S) = o
    BY <2>1, <2>2, MaxIs
  <2> QED BY <1>5, <1>6, <2>1, <2>3 DEF o
<1>7. CASE ~Hits(log[j].row, rev, kind, arg)
  <2>1. ASSUME NEW a \in M
        PROVE  a < cur <=> a < o
    <3>1. a # o /\ a \in Nat
      BY <1>2, <1>7
    <3>2. a < cur => a <= o
      BY <1>4
    <3> QED BY <1>1, <3>1, <3>2
  <2>2. S = T
    BY <1>3, <2>1
  <2> QED BY <1>5, <1>7, <2>2 DEF o
<1> QED BY <1>6, <1>7

\* JABCulogScan backward answers the last match that starts before off.
LEMMA ScanBackward ==
    ASSUME TypeOK, TileInv, NEW kind, NEW arg, NEW off \in 0 .. watermark
    PROVE  Scan(off, watermark, TRUE, kind, arg) = Last(off, TRUE, kind, arg)
<1> DEFINE w == watermark
           F(o) == Last(o, TRUE, kind, arg)
           Hit(o) == Drains(o, w) /\ Hits(RowAt(o), TRUE, kind, arg)
           W == [o \in 0 .. w |-> F(o)]
<1>1. w \in Nat
  BY LogShape
<1>2. ASSUME NEW o \in 0 .. w, o # 0
      PROVE  /\ PrevRow(o) \in 0 .. w /\ PrevRow(o) < o
             /\ F(o) = IF Hit(PrevRow(o)) THEN PrevRow(o) ELSE F(PrevRow(o))
  <2>1. o \in 1 .. w
    BY <1>1, <1>2
  <2>2. PICK j \in 1 .. Len(log) : /\ PrevRow(o) = log[j].at
                                   /\ log[j].at < o /\ o <= After(log, w, j)
    BY <2>1, PrevRowIs
  <2>3. /\ RowAt(log[j].at) = log[j].row /\ Drains(log[j].at, w)
        /\ log[j].at \in Nat /\ log[j].at < w
    BY AtStart
  <2>4. Hit(PrevRow(o)) <=> Hits(log[j].row, TRUE, kind, arg)
    BY <2>2, <2>3
  <2>5. F(o) = IF Hits(log[j].row, TRUE, kind, arg) THEN log[j].at ELSE F(log[j].at)
    BY <2>1, <2>2, LastStep
  <2>6. PrevRow(o) \in 0 .. w
    BY <1>1, <2>2, <2>3
  <2> HIDE DEF F, Hit
  <2> QED BY <2>2, <2>4, <2>5, <2>6
<1>3. F(0) = -1
  <2>1. MatchBefore(0, TRUE, kind, arg) = {}
    <3>1. \A a \in Matching(TRUE, kind, arg) : a \in 0 .. w
      BY MatchShape
    <3>2. \A a \in 0 .. w : ~(a < 0)
      OBVIOUS
    <3> QED BY <3>1, <3>2 DEF MatchBefore
  <2> QED BY <2>1 DEF Last
<1>4. W = [cur \in 0 .. w |-> IF cur = 0 THEN -1
                              ELSE LET rs == PrevRow(cur) IN
                                   IF Drains(rs, w) /\ Hits(RowAt(rs), TRUE, kind, arg)
                                   THEN rs ELSE W[rs]]
  <2>1. \A o \in 0 .. w : F(o) = IF o = 0 THEN -1
                                 ELSE IF Hit(PrevRow(o)) THEN PrevRow(o)
                                 ELSE W[PrevRow(o)]
    <3> HIDE DEF F, Hit
    <3> QED BY <1>2, <1>3
  <2> HIDE DEF F
  <2> QED BY <2>1
<1> HIDE DEF W
<1>5. PICK g : /\ g = [cur \in 0 .. w |-> IF cur = 0 THEN -1
                              ELSE LET rs == PrevRow(cur) IN
                                   IF Drains(rs, w) /\ Hits(RowAt(rs), TRUE, kind, arg)
                                   THEN rs ELSE g[rs]]
               /\ Scan(off, w, TRUE, kind, arg) = g[off]
  BY <1>4, Zenon DEF Scan
<1>6. \A o \in 0 .. w :
          \/ g[o] = W[o]
          \/ \E p \in 0 .. w : p < o /\ (g[p] = W[p] => g[o] = W[o])
  <2> TAKE o \in 0 .. w
  <2>1. g[o] = IF o = 0 THEN -1 ELSE IF Hit(PrevRow(o)) THEN PrevRow(o) ELSE g[PrevRow(o)]
    BY <1>5
  <2>2. W[o] = IF o = 0 THEN -1 ELSE IF Hit(PrevRow(o)) THEN PrevRow(o) ELSE W[PrevRow(o)]
    BY <1>4
  <2> HIDE DEF Hit
  <2> QED BY <1>2, <2>1, <2>2
<1>7. g[off] = W[off]
  BY <1>1, <1>6, AgreeDown
<1> QED BY <1>5, <1>7 DEF W

\* A search answers the nearest row that matches.
LEMMA SeekIsExact ==
    ASSUME TypeOK, TileInv
    PROVE  SeekExact
<1> SUFFICES ASSUME NEW kind \in Kinds, NEW rev \in BOOLEAN,
                    NEW off \in SeekFrom(rev), NEW arg \in Args(kind),
                    kind = "uri" => arg \notin Bulky
             PROVE  Finds(off, rev, kind, arg)
  BY DEF SeekExact
<1> DEFINE at == {log[i].at : i \in {j \in 1 .. Len(log) :
                     /\ Asked(log[j].row, rev, kind, arg)
                     /\ IF rev THEN log[j].at < off ELSE log[j].at >= off}}
<1> SUFFICES Scan(off, watermark, rev, kind, arg) =
                        IF at = {} THEN -1 ELSE IF rev THEN Max(at) ELSE Min(at)
  BY DEF Finds
<1>1. watermark \in Nat
  BY LogShape
<1>2. \A i \in 1 .. Len(log) :
          Asked(log[i].row, rev, kind, arg) <=> Hits(log[i].row, rev, kind, arg)
  <2> TAKE i \in 1 .. Len(log)
  <2>1. log[i].row.what \in Contents
    <3>1. log[i].row \in Rows
      BY LogShape, EntryShape
    <3> QED BY <3>1 DEF Rows
  <2>2. CASE kind = "time"
    BY <2>2 DEF Hits, Asked
  <2>3. CASE kind = "verb"
    <3>1. arg \in Contents
      BY <2>3 DEF Args
    <3>2. arg # AnyUri
      BY <3>1, ConstantsAssumption
    <3> QED BY <2>3, <3>2 DEF Hits, Asked
  <2>4. CASE kind = "uri"
    BY <2>1, <2>4 DEF Hits, Asked
  <2> QED BY <2>2, <2>3, <2>4 DEF Kinds
<1>3. at = {a \in Matching(rev, kind, arg) : IF rev THEN a < off ELSE a >= off}
  <2>1. \A a : a \in at <=> \E i \in 1 .. Len(log) :
            /\ a = log[i].at /\ IF rev THEN log[i].at < off ELSE log[i].at >= off
            /\ Hits(log[i].row, rev, kind, arg)
    BY <1>2
  <2>2. \A a : a \in Matching(rev, kind, arg) <=> \E i \in 1 .. Len(log) :
            a = log[i].at /\ Hits(log[i].row, rev, kind, arg)
    BY DEF Matching
  <2> QED BY <2>1, <2>2
<1> HIDE DEF at
<1>4. CASE rev
  <2>1. rev = TRUE /\ off \in 0 .. watermark
    BY <1>4 DEF SeekFrom
  <2>2. at = MatchBefore(off, TRUE, kind, arg)
    BY <1>3, <2>1 DEF MatchBefore
  <2>3. Scan(off, watermark, TRUE, kind, arg) = Last(off, TRUE, kind, arg)
    BY <2>1, ScanBackward
  <2> QED BY <2>1, <2>2, <2>3 DEF Last
<1>5. CASE ~rev
  <2>1. rev = FALSE /\ off \in RowStarts \cup {watermark}
    BY <1>5 DEF SeekFrom
  <2>2. at = MatchFrom(off, FALSE, kind, arg)
    BY <1>3, <2>1 DEF MatchFrom
  <2>3. off \in 0 .. watermark
    <3>1. \A i \in 1 .. Len(log) : log[i].at \in 0 .. watermark
      <4> TAKE i \in 1 .. Len(log)
      <4>1. log[i].at \in Nat /\ log[i].at < watermark
        BY AtStart
      <4> QED BY <1>1, <4>1
    <3> QED BY <1>1, <2>1, <3>1 DEF RowStarts
  <2>4. Scan(off, watermark, FALSE, kind, arg) = First(off, FALSE, kind, arg)
    BY <2>3, ScanForward
  <2>5. off \notin RowStarts => at = {}
    <3> SUFFICES ASSUME off = watermark PROVE at = {}
      BY <2>1
    <3>1. ASSUME NEW a \in Matching(FALSE, kind, arg) PROVE ~(a >= off)
      <4>1. PICK i \in 1 .. Len(log) : a = log[i].at
        BY DEF Matching
      <4>2. log[i].at \in Nat /\ log[i].at < watermark
        BY AtStart
      <4> QED BY <1>1, <4>1, <4>2
    <3> QED BY <2>2, <3>1 DEF MatchFrom
  <2> QED BY <2>1, <2>2, <2>4, <2>5 DEF First
<1> QED BY <1>4, <1>5

\* What a search answers is -1 or the start of a row.
LEMMA ScanRange ==
    ASSUME TypeOK, TileInv, NEW kind, NEW arg, NEW off \in 0 .. watermark, NEW rev \in BOOLEAN
    PROVE  Scan(off, watermark, rev, kind, arg) \in {-1} \cup RowStarts
<1> DEFINE M == Matching(rev, kind, arg)
<1>1. M \in SUBSET (0 .. watermark) /\ M \in SUBSET RowStarts /\ watermark \in Nat
  BY MatchShape, LogShape
<1> HIDE DEF M
<1>2. CASE rev
  <2> DEFINE S == MatchBefore(off, TRUE, kind, arg)
  <2>1. rev = TRUE
    BY <1>2
  <2>2. S \in SUBSET M
    BY <2>1 DEF MatchBefore, M
  <2>3. Scan(off, watermark, TRUE, kind, arg) = Last(off, TRUE, kind, arg)
    BY ScanBackward
  <2>4. Last(off, TRUE, kind, arg) = IF S # {} THEN Max(S) ELSE -1
    BY DEF Last
  <2> HIDE DEF S
  <2>5. S # {} => Max(S) \in S
    <3> SUFFICES ASSUME S # {} PROVE Max(S) \in S
      OBVIOUS
    <3>1. S \in SUBSET (0 .. watermark)
      BY <1>1, <2>2
    <3>2. PICK m \in S : \A y \in S : y <= m
      BY <1>1, <3>1, LargestIn
    <3>3. S \in SUBSET Int
      BY <1>1, <3>1
    <3>4. Max(S) = m
      BY <3>2, <3>3, MaxIs
    <3> QED BY <3>2, <3>4
  <2> QED BY <1>1, <2>1, <2>2, <2>3, <2>4, <2>5
<1>3. CASE ~rev
  <2> DEFINE S == MatchFrom(off, FALSE, kind, arg)
  <2>1. rev = FALSE
    BY <1>3
  <2>2. S \in SUBSET M
    BY <2>1 DEF MatchFrom, M
  <2>3. Scan(off, watermark, FALSE, kind, arg) = First(off, FALSE, kind, arg)
    BY ScanForward
  <2>4. First(off, FALSE, kind, arg) \in {-1} \cup (IF S # {} THEN {Min(S)} ELSE {})
    BY DEF First
  <2> HIDE DEF S
  <2>5. S # {} => Min(S) \in S
    <3> SUFFICES ASSUME S # {} PROVE Min(S) \in S
      OBVIOUS
    <3>1. S \in SUBSET Nat
      BY <1>1, <2>2
    <3>2. PICK m \in S : \A y \in S : m <= y
      BY <3>1, SmallestIn
    <3>3. S \in SUBSET Int
      BY <3>1
    <3>4. Min(S) = m
      BY <3>2, <3>3, MinIs
    <3> QED BY <3>2, <3>4
  <2> QED BY <1>1, <2>1, <2>2, <2>3, <2>4, <2>5
<1> QED BY <1>2, <1>3

-----------------------------------------------------------------------------
(* What a reader of a booked log is given.                                 *)

\* The offsets of the rows from the i-th on.
Suffix(i) == [j \in 1 .. Len(log) - i + 1 |-> log[i + j - 1].at]

\* One row more.
LEMMA SuffixStep ==
    ASSUME TypeOK, NEW i \in 1 .. Len(log)
    PROVE  Suffix(i) = <<log[i].at>> \o Suffix(i + 1)
<1> DEFINE n == Len(log)
           m == n - i
           t == Suffix(i + 1)
           s == Suffix(i)
           a == <<log[i].at>>
<1>1. n \in Nat /\ m \in Nat /\ log \in Seq(Entries)
  BY LogShape
<1>2. n - (i + 1) + 1 = m /\ n - i + 1 = m + 1
  BY <1>1
<1>3. \A j \in 1 .. m + 1 : i + j - 1 \in 1 .. n
  BY <1>1
<1>4. \A j \in 1 .. m + 1 : log[i + j - 1].at \in Nat
  BY <1>1, <1>3, EntryShape
<1>5. s = [j \in 1 .. m + 1 |-> log[i + j - 1].at]
  BY <1>2 DEF Suffix
<1>6. t = [j \in 1 .. m |-> log[(i + 1) + j - 1].at]
  BY <1>2 DEF Suffix
<1>7. \A j \in 1 .. m : (i + 1) + j - 1 = i + (j + 1) - 1 /\ j + 1 \in 1 .. m + 1
  BY <1>1
<1> HIDE DEF s, t, m, n
<1>8. s \in Seq(Nat) /\ Len(s) = m + 1 /\ \A j \in 1 .. m + 1 : s[j] = log[i + j - 1].at
  <2> DEFINE q == m + 1
  <2>1. q \in Nat
    BY <1>1
  <2> HIDE DEF q
  <2>2. s = [j \in 1 .. q |-> log[i + j - 1].at] /\ \A j \in 1 .. q : log[i + j - 1].at \in Nat
    BY <1>4, <1>5 DEF q
  <2>3. s \in [1 .. q -> Nat]
    BY <2>2
  <2>4. s \in Seq(Nat) /\ Len(s) = q /\ \A j \in 1 .. q : s[j] = log[i + j - 1].at
    BY <2>1, <2>2, <2>3
  <2> QED BY <2>4 DEF q
<1>9. t \in Seq(Nat) /\ Len(t) = m /\ \A j \in 1 .. m : t[j] = log[i + (j + 1) - 1].at
  <2>1. \A j \in 1 .. m : t[j] = log[i + (j + 1) - 1].at /\ t[j] \in Nat
    <3> TAKE j \in 1 .. m
    <3>1. t[j] = log[(i + 1) + j - 1].at
      BY <1>6
    <3>2. t[j] = log[i + (j + 1) - 1].at
      BY <1>7, <3>1
    <3> QED BY <1>4, <1>7, <3>2
  <2>2. DOMAIN t = 1 .. m /\ t = [j \in 1 .. m |-> t[j]]
    BY <1>6, Zenon
  <2>3. t \in [1 .. m -> Nat]
    BY <2>1, <2>2
  <2> QED BY <1>1, <2>1, <2>3
<1>10. /\ log[i].at \in Nat /\ a \in Seq(Nat) /\ Len(a) = 1 /\ a[1] = log[i].at
  BY <1>1, EntryShape DEF n
<1> HIDE DEF a
<1>11. a \o t \in Seq(Nat) /\ Len(a \o t) = m + 1
  <2>1. a \o t \in Seq(Nat) /\ Len(a \o t) = Len(a) + Len(t)
    BY <1>9, <1>10, ConcatProperties
  <2> QED BY <1>1, <1>9, <1>10, <2>1
<1>12. ASSUME NEW j \in 1 .. m + 1
       PROVE  (a \o t)[j] = s[j]
  <2>1. /\ j \in 1 .. Len(a) + Len(t)
        /\ (a \o t)[j] = IF j <= Len(a) THEN a[j] ELSE t[j - Len(a)]
    <3>1. j \in 1 .. Len(a) + Len(t)
      BY <1>1, <1>9, <1>10
    <3> QED BY <1>9, <1>10, <3>1, ConcatProperties
  <2>2. CASE j = 1
    <3>1. i + j - 1 = i
      BY <2>2
    <3> QED BY <1>8, <1>10, <2>1, <2>2, <3>1
  <2>3. CASE j # 1
    <3>1. j - 1 \in 1 .. m /\ (j - 1) + 1 = j /\ ~(j <= 1)
      BY <1>1, <2>3
    <3>2. (a \o t)[j] = t[j - 1]
      BY <1>10, <2>1, <3>1
    <3> QED BY <1>8, <1>9, <3>1, <3>2
  <2> QED BY <2>2, <2>3
<1>13. s = a \o t
  BY <1>8, <1>11, <1>12, SeqEqual
<1> QED BY <1>13 DEF s, a, t

\* Draining the rows one by one gives their offsets.
LEMMA StartsAre ==
    ASSUME TypeOK, TileInv
    PROVE  Starts(watermark) = Offsets
<1> DEFINE n == Len(log)
           w == watermark
           At(o) == CHOOSE i \in 1 .. n : log[i].at = o
           F(o) == IF o \in RowStarts THEN Suffix(At(o)) ELSE <<>>
           W == [o \in Offs |-> F(o)]
<1>1. n \in Nat /\ w \in Nat /\ w <= Cap /\ Cap \in Nat /\ Offs = 0 .. Cap
  <2>1. n \in Nat /\ w \in 0 .. Len(bytes) /\ Len(bytes) \in Nat
    BY LogShape
  <2>2. Len(bytes) <= Cap /\ Cap \in Nat
    BY ConstantsAssumption DEF TypeOK
  <2> QED BY <2>1, <2>2 DEF Offs
<1>2. ASSUME NEW i \in 1 .. n
      PROVE  F(log[i].at) = Suffix(i)
  <2>1. log[i].at \in RowStarts
    BY DEF RowStarts
  <2>2. \A j \in 1 .. n : log[j].at = log[i].at => j = i
    BY StartOrder
  <2>3. At(log[i].at) = i
    BY <2>2
  <2> HIDE DEF At
  <2> QED BY <2>1, <2>3
<1>3. F(w) = <<>> /\ Suffix(n + 1) = <<>>
  <2>1. w \notin RowStarts
    <3>1. \A i \in 1 .. n : log[i].at \in Nat /\ log[i].at < w
      BY AtStart
    <3> QED BY <1>1, <3>1 DEF RowStarts
  <2>2. n - (n + 1) + 1 = 0
    BY <1>1
  <2>3. Suffix(n + 1) = <<>>
    BY <2>2 DEF Suffix
  <2> HIDE DEF At
  <2> QED BY <2>1, <2>3
<1>4. ASSUME NEW i \in 1 .. n
      PROVE  F(After(log, w, i)) = Suffix(i + 1)
  <2>1. CASE i < n
    <3>1. i + 1 \in 1 .. n /\ After(log, w, i) = log[i + 1].at
      BY <1>1, <2>1 DEF After
    <3> HIDE DEF F
    <3> QED BY <1>2, <3>1
  <2>2. CASE ~(i < n)
    <3>1. i = n /\ After(log, w, i) = w
      BY <1>1, <2>2 DEF After
    <3> HIDE DEF F
    <3> QED BY <1>3, <3>1
  <2> QED BY <2>1, <2>2
<1> HIDE DEF F
<1>5. ASSUME NEW o \in Offs, Drains(o, w)
      PROVE  /\ EndOf(o, w) \in Offs /\ o < EndOf(o, w)
             /\ F(o) = <<o>> \o F(EndOf(o, w))
  <2>1. PICK i \in 1 .. n : log[i].at = o
    <3>1. o \in Nat
      BY <1>1
    <3> QED BY <1>5, <3>1, DrainsOnlyStart
  <2>2. /\ EndOf(o, w) = After(log, w, i)
        /\ After(log, w, i) \in 0 .. w /\ o < After(log, w, i)
    BY <2>1, AtStart
  <2>3. After(log, w, i) \in Offs
    BY <1>1, <2>2
  <2>4. F(o) = <<log[i].at>> \o Suffix(i + 1)
    BY <1>2, <2>1, SuffixStep
  <2>5. F(o) = <<o>> \o Suffix(i + 1)
    BY <2>1, <2>4, Zenon
  <2>6. F(EndOf(o, w)) = Suffix(i + 1)
    BY <1>4, <2>2, Zenon
  <2>7. F(o) = <<o>> \o F(EndOf(o, w))
    BY <2>5, <2>6, Zenon
  <2> QED BY <2>2, <2>3, <2>7
<1>6. ASSUME NEW o \in Offs, ~Drains(o, w)
      PROVE  F(o) = <<>>
  <2>1. o \notin RowStarts
    BY <1>6, AtStart DEF RowStarts
  <2> QED BY <2>1 DEF F
<1>7. W = [o \in Offs |-> IF Drains(o, w) THEN <<o>> \o W[EndOf(o, w)] ELSE <<>>]
  <2>1. \A o \in Offs : F(o) = IF Drains(o, w) THEN <<o>> \o W[EndOf(o, w)] ELSE <<>>
    BY <1>5, <1>6
  <2> QED BY <2>1
<1> HIDE DEF W
<1>8. PICK g : /\ g = [o \in Offs |-> IF Drains(o, w) THEN <<o>> \o g[EndOf(o, w)]
                                      ELSE <<>>]
               /\ Starts(w) = g[0]
  BY <1>7, Zenon DEF Starts
<1>9. \A o \in 0 .. Cap :
          \/ g[o] = W[o]
          \/ \E p \in 0 .. Cap : o < p /\ (g[p] = W[p] => g[o] = W[o])
  <2> SUFFICES ASSUME NEW o \in Offs
               PROVE  \/ g[o] = W[o]
                      \/ \E p \in Offs : o < p /\ (g[p] = W[p] => g[o] = W[o])
    BY <1>1
  <2>1. g[o] = IF Drains(o, w) THEN <<o>> \o g[EndOf(o, w)] ELSE <<>>
    BY <1>8
  <2>2. W[o] = IF Drains(o, w) THEN <<o>> \o W[EndOf(o, w)] ELSE <<>>
    BY <1>7
  <2>3. CASE Drains(o, w)
    <3> DEFINE e == EndOf(o, w)
    <3>1. e \in Offs /\ o < e
      BY <1>5, <2>3
    <3>2. g[o] = <<o>> \o g[e] /\ W[o] = <<o>> \o W[e]
      BY <2>1, <2>2, <2>3, Zenon
    <3> HIDE DEF e
    <3>3. g[e] = W[e] => g[o] = W[o]
      BY <3>2, Zenon
    <3> QED BY <3>1, <3>3, Zenon
  <2>4. CASE ~Drains(o, w)
    BY <2>1, <2>2, <2>4
  <2> QED BY <2>3, <2>4
<1>10. 0 \in 0 .. Cap /\ 0 \in Offs
  BY <1>1
<1>11. g[0] = F(0)
  <2>1. Cap \in Nat
    BY <1>1
  <2>2. \A o \in 0 .. Cap : g[o] = W[o]
    BY <1>9, <2>1, AgreeUp
  <2>3. g[0] = W[0]
    BY <1>10, <2>2
  <2> QED BY <1>10, <2>3 DEF W
<1>12. F(0) = [i \in 1 .. n |-> log[i].at]
  <2>1. CASE n = 0
    <3>1. RowStarts = {}
      BY <2>1 DEF RowStarts
    <3>2. F(0) = <<>>
      BY <3>1 DEF F
    <3> QED BY <2>1, <3>2
  <2>2. CASE n # 0
    <3>1. 1 \in 1 .. n /\ 0 < n /\ n - 1 + 1 = n
      BY <1>1, <2>2
    <3>2. After(log, w, 0) = log[1].at /\ After(log, w, 0) = 0
      BY <3>1 DEF After, TileInv, Tiled
    <3>3. F(0) = Suffix(1)
      BY <1>2, <3>1, <3>2
    <3>4. \A j \in 1 .. n : 1 + j - 1 = j
      BY <1>1
    <3>5. Suffix(1) = [j \in 1 .. n |-> log[1 + j - 1].at]
      BY <3>1 DEF Suffix
    <3> QED BY <3>3, <3>4, <3>5
  <2> QED BY <2>1, <2>2
<1> QED BY <1>8, <1>11, <1>12 DEF Offsets

\* The shape of the sidecar of a log whose entries are right.
LEMMA OffsetsShape ==
    ASSUME TypeOK, TileInv
    PROVE  /\ Offsets \in Seq(Offs) /\ Len(Offsets) = Len(log)
           /\ \A i \in 1 .. Len(log) : Offsets[i] = log[i].at
<1> DEFINE n == Len(log)
<1>1. n \in Nat /\ log \in Seq(Entries)
  BY LogShape
<1>2. \A i \in 1 .. n : log[i].at \in Offs
  <2> TAKE i \in 1 .. n
  <2>1. log[i] \in Entries
    BY <1>1, ElementOfSeq
  <2> QED BY <2>1 DEF Entries
<1>3. Offsets = [i \in 1 .. n |-> log[i].at]
  BY DEF Offsets
<1> HIDE DEF n
<1>4. Offsets \in [1 .. n -> Offs]
  BY <1>2, <1>3
<1> QED BY <1>1, <1>3, <1>4 DEF n

\* _ulog_count, _ulog_rowUri and _ulog_rowTime give the rows of the log.
LEMMA BookRowsAre ==
    ASSUME TypeOK, TileInv, idx = Offsets
    PROVE  BookRows = [i \in 1 .. Len(log) |-> log[i].row]
<1>1. Len(idx) = Len(log) /\ \A i \in 1 .. Len(log) : idx[i] = log[i].at
  BY OffsetsShape
<1>2. \A i \in 1 .. Len(log) :
          (IF Drains(idx[i], watermark) THEN RowAt(idx[i]) ELSE NoRow) = log[i].row
  BY <1>1, AtStart
<1> QED BY <1>1, <1>2 DEF BookRows

-----------------------------------------------------------------------------
(* What the operations keep.                                               *)

\* A row fed at the write head lies right behind the others.
LEMMA FedShape ==
    ASSUME TypeOK, TileInv, NEW r \in Rows, NEW by \in Views \cup {"book"},
           watermark + Size(r.what) <= Cap
    PROVE  LET b == Written(watermark, RowCells(r))
               l == Append(log, [row |-> r, at |-> watermark, by |-> by])
               w == watermark + Size(r.what)
           IN  /\ b \in Seq(Cells) /\ Len(b) \in Nat /\ Len(b) <= Cap /\ Len(bytes) <= Len(b)
               /\ w \in 0 .. Len(b) /\ Tiled(b, l, w)
               /\ l \in Seq(Entries) /\ Len(l) = Len(log) + 1
               /\ \A i \in 1 .. Len(log) : l[i] = log[i]
               /\ l[Len(log) + 1] = [row |-> r, at |-> watermark, by |-> by]
               /\ \A i \in 0 .. Len(log) : After(l, w, i) = After(log, watermark, i)
               /\ \A i \in 1 .. Len(bytes) : i > w => b[i] = bytes[i]
<1> DEFINE b == Written(watermark, RowCells(r))
           e == [row |-> r, at |-> watermark, by |-> by]
           l == Append(log, e)
           z == Size(r.what)
           w == watermark + z
           n == Len(log)
<1>1. /\ bytes \in Seq(Cells) /\ log \in Seq(Entries) /\ n \in Nat
      /\ watermark \in 0 .. Len(bytes) /\ watermark \in Nat /\ Len(bytes) \in Nat
  BY LogShape
<1>2. z \in Nat \ {0} /\ RowCells(r) \in Seq(Cells) /\ Len(RowCells(r)) = z
  BY RowShape
<1>3. \A k \in 1 .. z : RowCells(r)[k] = [row |-> r, k |-> k]
  BY RowShape
<1>4. Len(bytes) <= Cap /\ Cap \in Nat
  BY ConstantsAssumption DEF TypeOK
<1>5. watermark \in Offs
  BY <1>1, <1>4 DEF Offs
<1>6. e \in Entries
  BY <1>5 DEF Entries
<1>7. e.row = r /\ e.at = watermark
  OBVIOUS
<1> HIDE DEF e, b, z
<1>8. /\ b \in Seq(Cells) /\ Len(b) = IF watermark + z >= Len(bytes) THEN watermark + z ELSE Len(bytes)
      /\ \A k \in 1 .. z : b[watermark + k] = RowCells(r)[k]
      /\ \A i \in 1 .. Len(bytes) : i \notin watermark + 1 .. watermark + z => b[i] = bytes[i]
  BY <1>1, <1>2, WrittenShape DEF b
<1>9. /\ Len(b) \in Nat /\ Len(b) <= Cap /\ w \in 0 .. Len(b) /\ w \in Nat
      /\ watermark < w /\ Len(bytes) <= Len(b)
  BY <1>1, <1>2, <1>4, <1>8 DEF z
<1>10. /\ l \in Seq(Entries) /\ Len(l) = n + 1 /\ l[n + 1] = e
       /\ \A i \in 1 .. n : l[i] = log[i]
  <2>1. /\ l \in Seq(Entries) /\ Len(l) = n + 1 /\ l[n + 1] = e
    BY <1>1, <1>6, AppendProperties
  <2>2. \A i \in 1 .. n : l[i] = log[i]
    BY <1>1, <1>6, AppendProperties
  <2> QED BY <2>1, <2>2
<1> HIDE DEF l, w
<1>11. ASSUME NEW i \in 0 .. n PROVE After(l, w, i) = After(log, watermark, i)
  <2>1. i < n + 1
    BY <1>1
  <2>2. After(l, w, i) = l[i + 1].at
    BY <1>10, <2>1 DEF After
  <2>3. CASE i < n
    <3>1. i + 1 \in 1 .. n
      BY <1>1, <2>3
    <3> QED BY <1>10, <2>2, <2>3, <3>1 DEF After
  <2>4. CASE ~(i < n)
    <3>1. i = n
      BY <1>1, <2>4
    <3> QED BY <1>7, <1>10, <2>2, <2>4, <3>1 DEF After
  <2> QED BY <2>3, <2>4
<1>12. \A i \in 1 .. Len(bytes) : i > w => b[i] = bytes[i]
  <2> TAKE i \in 1 .. Len(bytes)
  <2>1. i > w => i \notin watermark + 1 .. watermark + z
    BY <1>1, <1>2 DEF w
  <2> QED BY <1>8, <2>1
<1>13. \A i \in 1 .. watermark : b[i] = bytes[i]
  <2> TAKE i \in 1 .. watermark
  <2>1. i \in 1 .. Len(bytes) /\ i \notin watermark + 1 .. watermark + z
    BY <1>1, <1>2
  <2> QED BY <1>8, <2>1
<1>14. /\ After(log, watermark, 0) = 0
       /\ \A i \in 1 .. n :
             /\ After(log, watermark, i) = log[i].at + Size(log[i].row.what)
             /\ Holds(bytes, log[i].at, log[i].row)
             /\ log[i].at + Size(log[i].row.what) <= watermark
             /\ \A j \in 1 .. n : i < j => log[i].at + Size(log[i].row.what) <= log[j].at
  BY DEF TileInv, Tiled
<1>15. After(l, w, 0) = 0
  <2>1. 0 \in 0 .. n
    BY <1>1
  <2> QED BY <1>11, <1>14, <2>1
<1>16. ASSUME NEW i \in 1 .. n
       PROVE  /\ After(l, w, i) = l[i].at + Size(l[i].row.what)
              /\ Holds(b, l[i].at, l[i].row)
              /\ l[i].at + Size(l[i].row.what) <= w
              /\ \A j \in 1 .. n + 1 : i < j => l[i].at + Size(l[i].row.what) <= l[j].at
  <2> DEFINE a == log[i].at
             s == Size(log[i].row.what)
  <2>1. i \in 0 .. n /\ l[i] = log[i] /\ a \in Nat /\ s \in Nat \ {0}
    <3>1. i \in 0 .. n
      BY <1>1
    <3> QED BY <1>1, <1>10, <3>1, EntryShape
  <2>2. After(l, w, i) = a + s /\ a + s <= watermark
    BY <1>11, <1>14, <2>1
  <2>3. \A k \in 1 .. s : a + k <= Len(bytes) /\ bytes[a + k] = [row |-> log[i].row, k |-> k]
    BY <1>14 DEF Holds
  <2>4. Holds(b, log[i].at, log[i].row)
    <3> SUFFICES ASSUME NEW k \in 1 .. s
                 PROVE  a + k <= Len(b) /\ b[a + k] = [row |-> log[i].row, k |-> k]
      BY DEF Holds
    <3> HIDE DEF a, s
    <3>1. a + k \in 1 .. watermark /\ a + k <= Len(b)
      BY <1>1, <1>9, <2>1, <2>2
    <3> QED BY <1>13, <2>3, <3>1
  <2>5. ASSUME NEW j \in 1 .. n + 1, i < j
        PROVE  a + s <= l[j].at
    <3>1. CASE j \in 1 .. n
      BY <1>10, <1>14, <2>5, <3>1
    <3>2. CASE j \notin 1 .. n
      <4>1. j = n + 1
        BY <1>1, <3>2
      <4> QED BY <1>7, <1>10, <2>2, <4>1
    <3> QED BY <3>1, <3>2
  <2>6. a + s <= w
    <3> HIDE DEF a, s
    <3> QED BY <1>1, <1>9, <2>1, <2>2
  <2> QED BY <2>1, <2>2, <2>4, <2>5, <2>6
<1>17. /\ After(l, w, n + 1) = l[n + 1].at + Size(l[n + 1].row.what)
       /\ Holds(b, l[n + 1].at, l[n + 1].row)
       /\ l[n + 1].at + Size(l[n + 1].row.what) <= w
       /\ \A j \in 1 .. n + 1 : n + 1 < j => l[n + 1].at + Size(l[n + 1].row.what) <= l[j].at
  <2>1. ~(n + 1 < n + 1) /\ \A j \in 1 .. n + 1 : ~(n + 1 < j)
    BY <1>1
  <2>2. After(l, w, n + 1) = w
    BY <1>10, <2>1 DEF After
  <2>3. l[n + 1].at = watermark /\ l[n + 1].row = r
    BY <1>7, <1>10
  <2>4. Holds(b, watermark, r)
    <3> SUFFICES ASSUME NEW k \in 1 .. z
                 PROVE  watermark + k <= Len(b) /\ b[watermark + k] = [row |-> r, k |-> k]
      BY DEF Holds, z
    <3>1. watermark + k <= Len(b)
      BY <1>1, <1>2, <1>8
    <3>2. b[watermark + k] = [row |-> r, k |-> k]
      BY <1>3, <1>8
    <3> QED BY <3>1, <3>2
  <2>5. w <= w /\ w = watermark + Size(r.what)
    BY <1>9 DEF w, z
  <2> QED BY <2>1, <2>2, <2>3, <2>4, <2>5
<1>18. Tiled(b, l, w)
  <2>1. \A i \in 1 .. n + 1 : i \in 1 .. n \/ i = n + 1
    BY <1>1
  <2>2. \A i \in 1 .. Len(l) : i \in 1 .. n \/ i = n + 1
    BY <1>10, <2>1
  <2> QED BY <1>10, <1>15, <1>16, <1>17, <2>2 DEF Tiled
<1> QED BY <1>8, <1>9, <1>10, <1>11, <1>12, <1>18 DEF b, l, w, e, z

\* A cursor c is before the first row, or on the row g and next the one after it.
Placed(l, w, c, g) ==
    IF c.rec < 0 THEN c.read = 0
    ELSE \E i \in 1 .. Len(l) : l[i].at = c.rec /\ l[i].row = g /\ c.read = After(l, w, i)

CursorsPlaced ==
    \A v \in Views : JS /\ view[v].read >= 0 /\ v \notin stale =>
        Placed(log, watermark, view[v], got[v])

\* The row of a placed cursor can be read: it is on a row of the log.
LEMMA PlacedOnRow ==
    ASSUME TypeOK', TileInv', CursorsPlaced'
    PROVE  CursorOnRow'
<1> SUFFICES ASSUME NEW v \in Views, JS', view'[v].read >= 0, v \notin stale',
                    ~(view'[v].rec < 0)
             PROVE  \E i \in 1 .. Len(log') :
                       /\ log'[i].at = view'[v].rec /\ log'[i].row = got'[v]
                       /\ DrainsIn(bytes', view'[v].rec, Len(bytes'))
                       /\ bytes'[view'[v].rec + 1].row = got'[v]
                       /\ view'[v].read = IF i < Len(log') THEN log'[i + 1].at ELSE watermark'
  <2>1. ASSUME NEW v \in Views, JS', view'[v].read >= 0, v \notin stale', view'[v].rec < 0
        PROVE  view'[v].read = 0
    BY <2>1 DEF CursorsPlaced, Placed
  <2> QED BY <2>1 DEF CursorOnRow, Drains, RowAt, DrainsIn
<1>1. PICK i \in 1 .. Len(log') :
          /\ log'[i].at = view'[v].rec /\ log'[i].row = got'[v]
          /\ view'[v].read = After(log', watermark', i)
  BY DEF CursorsPlaced, Placed
<1>2. bytes' \in Seq(Cells) /\ log' \in Seq(Entries) /\ watermark' \in 0 .. Len(bytes')
  BY DEF TypeOK, Entries
<1>3. Len(bytes') \in watermark' .. Len(bytes')
  BY <1>2, LenProperties
<1>4. /\ DrainsIn(bytes', log'[i].at, Len(bytes'))
      /\ bytes'[log'[i].at + 1].row = log'[i].row
  BY <1>2, <1>3, StartDrains DEF TileInv
<1> QED BY <1>1, <1>4 DEF After

\* And a cursor that stands on a row is placed.
LEMMA OnRowPlaced ==
    ASSUME CursorOnRow
    PROVE  CursorsPlaced
BY DEF CursorOnRow, CursorsPlaced, Placed, After

\* Feeding keeps the bytes and the log in step.
LEMMA FedKeeps ==
    ASSUME TypeOK, TileInv, NEW r \in Rows, NEW by \in Views \cup {"book"},
           watermark + Size(r.what) <= Cap, Fed(r, by)
    PROVE  /\ bytes' \in Seq(Cells) /\ Len(bytes') <= Cap /\ watermark' \in 0 .. Len(bytes')
           /\ log' \in Seq(Entries) /\ TileInv'
           /\ Len(log') = Len(log) + 1 /\ \A i \in 1 .. Len(log) : log'[i] = log[i]
           /\ log'[Len(log) + 1] = [row |-> r, at |-> watermark, by |-> by]
           /\ \A i \in 0 .. Len(log) : After(log', watermark', i) = After(log, watermark, i)
           /\ BookInv /\ family' = family => BookInv'
<1> DEFINE b == Written(watermark, RowCells(r))
           l == Append(log, [row |-> r, at |-> watermark, by |-> by])
           w == watermark + Size(r.what)
<1>1. /\ b \in Seq(Cells) /\ Len(b) \in Nat /\ Len(b) <= Cap /\ Len(bytes) <= Len(b)
      /\ w \in 0 .. Len(b) /\ Tiled(b, l, w)
      /\ l \in Seq(Entries) /\ Len(l) = Len(log) + 1
      /\ \A i \in 1 .. Len(log) : l[i] = log[i]
      /\ l[Len(log) + 1] = [row |-> r, at |-> watermark, by |-> by]
      /\ \A i \in 0 .. Len(log) : After(l, w, i) = After(log, watermark, i)
      /\ \A i \in 1 .. Len(bytes) : i > w => b[i] = bytes[i]
  BY FedShape
<1>2. bytes' = b /\ log' = l /\ watermark' = w
  BY DEF Fed
<1>3. /\ Len(b) = IF w >= Len(bytes) THEN w ELSE Len(bytes)
      /\ w \in Nat /\ watermark \in Nat /\ watermark < w /\ Len(bytes) \in Nat
  <2>1. /\ bytes \in Seq(Cells) /\ watermark \in 0 .. Len(bytes) /\ Len(bytes) \in Nat
        /\ watermark \in Nat
    BY LogShape
  <2>2. /\ RowCells(r) \in Seq(Cells) /\ Len(RowCells(r)) = Size(r.what)
        /\ Size(r.what) \in Nat \ {0}
    BY RowShape
  <2>3. Len(b) = IF watermark + Size(r.what) >= Len(bytes) THEN watermark + Size(r.what)
                 ELSE Len(bytes)
    BY <2>1, <2>2, WrittenShape
  <2> QED BY <2>1, <2>2, <2>3
<1> HIDE DEF b, l, w
<1>4. ASSUME BookInv, family' = family
      PROVE  BookInv'
  <2> SUFFICES ASSUME family = "BOOK", NEW i \in w + 1 .. Len(b)
               PROVE  ~Newline(b[i])
    BY <1>2, <1>4 DEF BookInv, Newline
  <2>1. i \in watermark + 1 .. Len(bytes) /\ i \in 1 .. Len(bytes) /\ i > w
    BY <1>1, <1>3
  <2> QED BY <1>1, <1>4, <2>1 DEF BookInv
<1>5. TileInv'
  BY <1>1, <1>2 DEF TileInv
<1> QED BY <1>1, <1>2, <1>4, <1>5

\* Feeding moves no cursor off its row.
LEMMA FedPlaced ==
    ASSUME TypeOK, TileInv, CursorsPlaced, NEW r \in Rows, NEW by \in Views \cup {"book"},
           watermark + Size(r.what) <= Cap, Fed(r, by), UNCHANGED <<family, stale, got>>,
           \A v \in Views : view'[v].read = view[v].read /\ view'[v].rec = view[v].rec
    PROVE  CursorsPlaced'
<1>1. /\ Len(log') = Len(log) + 1 /\ \A i \in 1 .. Len(log) : log'[i] = log[i]
      /\ \A i \in 0 .. Len(log) : After(log', watermark', i) = After(log, watermark, i)
  BY FedKeeps
<1>2. Len(log) \in Nat
  BY LogShape
<1> SUFFICES ASSUME NEW v \in Views, JS', view'[v].read >= 0, v \notin stale'
             PROVE  Placed(log', watermark', view'[v], got'[v])
  BY DEF CursorsPlaced
<1>3. Placed(log, watermark, view[v], got[v])
  BY DEF CursorsPlaced, JS
<1>4. CASE view[v].rec < 0
  BY <1>3, <1>4 DEF Placed
<1>5. CASE ~(view[v].rec < 0)
  <2>1. PICK i \in 1 .. Len(log) : /\ log[i].at = view[v].rec /\ log[i].row = got[v]
                                   /\ view[v].read = After(log, watermark, i)
    BY <1>3, <1>5 DEF Placed
  <2>2. i \in 0 .. Len(log) /\ i \in 1 .. Len(log')
    BY <1>1, <1>2
  <2> QED BY <1>1, <1>5, <2>1, <2>2 DEF Placed
<1> QED BY <1>4, <1>5

ViewType == [last : {NoTs} \cup Times, read : -1 .. Cap, rec : -1 .. Cap]

\* The parts of a view.
LEMMA ViewShape ==
    ASSUME TypeOK, NEW v \in Views
    PROVE  /\ view \in [Views -> ViewType] /\ view[v] \in ViewType
           /\ view[v].last \in {NoTs} \cup Times /\ view[v].last \in Nat
           /\ view[v].read \in -1 .. Cap /\ view[v].rec \in -1 .. Cap
<1>1. view \in [Views -> ViewType]
  BY DEF TypeOK, ViewType
<1>2. /\ view[v].last \in {NoTs} \cup Times /\ view[v].read \in -1 .. Cap
      /\ view[v].rec \in -1 .. Cap /\ view[v] \in ViewType
  BY <1>1 DEF ViewType
<1>3. view[v].last \in Nat
  BY <1>2, ConstantsAssumption DEF Times, NoTs
<1> QED BY <1>1, <1>2, <1>3

\* The time feed() uses is later than the last one of its view.
LEMMA StampLater ==
    ASSUME TypeOK, NEW v \in Views, NEW t \in 1 .. MaxTs, Stamp(v, t) <= MaxTs + 1
    PROVE  Stamp(v, t) \in Times /\ Stamp(v, t) > view[v].last /\ Stamp(v, t) \in Nat
<1>1. view[v].last \in Nat /\ MaxTs \in Nat
  BY ViewShape, ConstantsAssumption
<1> QED BY <1>1 DEF Stamp, Times, NoTs

\* A failed feed moves the clock and nothing else; the rest of its step.
LEMMA FeedViews ==
    ASSUME TypeOK, NEW v \in Views, NEW ts \in Times, view' = [view EXCEPT ![v].last = ts]
    PROVE  /\ view' \in [Views -> ViewType] /\ view'[v].last = ts
           /\ \A u \in Views : view'[u].read = view[u].read /\ view'[u].rec = view[u].rec
           /\ \A u \in Views : u # v => view'[u] = view[u]
<1>1. view \in [Views -> ViewType]
  BY ViewShape
<1>2. /\ view'[v] = [view[v] EXCEPT !.last = ts]
      /\ \A u \in Views : u # v => view'[u] = view[u]
  BY <1>1
<1>3. view[v] \in ViewType
  BY <1>1
<1>4. /\ view'[v] \in ViewType /\ view'[v].last = ts
      /\ view'[v].read = view[v].read /\ view'[v].rec = view[v].rec
  BY <1>2, <1>3 DEF ViewType
<1>5. view' \in [Views -> ViewType]
  BY <1>1, <1>2, <1>4
<1> QED BY <1>2, <1>4, <1>5

\* Only a booked log has a sidecar.
LEMMA NoSidecar ==
    ASSUME family' # "BOOK"
    PROVE  SidecarInv'
BY DEF SidecarInv

\* feed().
LEMMA FeedStep ==
    ASSUME LogInv, NEW v \in Views, NEW c \in Contents, NEW t \in 1 .. MaxTs, feed(v, c, t)
    PROVE  LogInv'
<1> DEFINE ts == Stamp(v, t)
           r == [ts |-> ts, what |-> c]
           n == Len(log)
<1>1. /\ TypeOK /\ TileInv /\ BookInv /\ ClockInv /\ Ascending /\ CursorsPlaced
  BY OnRowPlaced DEF LogInv
<1>2. /\ family = "ULOG" /\ view' = [view EXCEPT ![v].last = ts]
      /\ UNCHANGED <<family, builds, book, stale, got>> /\ ts <= MaxTs + 1
      /\ (Fits(c) /\ Fed(r, v)) \/ UNCHANGED <<bytes, watermark, log>>
  BY DEF feed
<1>3. ts \in Times /\ ts > view[v].last /\ ts \in Nat /\ view[v].last \in Nat
  BY <1>1, <1>2, StampLater, ViewShape
<1>4. r \in Rows /\ r.what = c /\ r.ts = ts
  BY <1>3 DEF Rows
<1> HIDE DEF ts, r
<1>5. /\ view' \in [Views -> ViewType] /\ view'[v].last = ts
      /\ \A u \in Views : view'[u].read = view[u].read /\ view'[u].rec = view[u].rec
      /\ \A u \in Views : u # v => view'[u] = view[u]
  BY <1>1, <1>2, <1>3, FeedViews
<1>6. ASSUME NEW i \in 1 .. n
      PROVE  /\ log[i].by \in Views /\ log[i].row.ts \in 1 .. view'[log[i].by].last
             /\ log[i].by = v => log[i].row.ts < ts /\ log[i].row.ts \in Nat
  <2>1. log[i].by \in Views /\ log[i].row.ts \in 1 .. view[log[i].by].last
    BY <1>1, <1>2 DEF ClockInv
  <2>2. CASE log[i].by = v
    <3>1. log[i].row.ts \in 1 .. view[v].last
      BY <2>1, <2>2
    <3>2. log[i].row.ts \in 1 .. ts /\ log[i].row.ts < ts /\ log[i].row.ts \in Nat
      BY <1>3, <3>1
    <3> QED BY <1>5, <2>1, <2>2, <3>2
  <2>3. CASE log[i].by # v
    BY <1>5, <2>1, <2>3
  <2> QED BY <2>2, <2>3
<1>7. CASE Fits(c) /\ Fed(r, v)
  <2>1. watermark + Size(r.what) <= Cap
    BY <1>4, <1>7 DEF Fits
  <2>2. /\ bytes' \in Seq(Cells) /\ Len(bytes') <= Cap /\ watermark' \in 0 .. Len(bytes')
        /\ log' \in Seq(Entries) /\ TileInv'
        /\ Len(log') = n + 1 /\ \A i \in 1 .. n : log'[i] = log[i]
        /\ log'[n + 1] = [row |-> r, at |-> watermark, by |-> v]
        /\ BookInv'
    BY <1>1, <1>2, <1>4, <1>7, <2>1, FedKeeps
  <2>3. TypeOK'
    BY <1>1, <1>2, <1>5, <2>2 DEF TypeOK, book, ViewType, Entries
  <2>4. CursorOnRow'
    <3>1. CursorsPlaced'
      BY <1>1, <1>2, <1>4, <1>5, <1>7, <2>1, FedPlaced
    <3> QED BY <2>2, <2>3, <3>1, PlacedOnRow
  <2>5. n \in Nat /\ \A i \in 1 .. n + 1 : i \in 1 .. n \/ i = n + 1
    BY <1>1, LogShape
  <2>6. log'[n + 1].by = v /\ log'[n + 1].row = r
    BY <2>2
  <2>7. ts \in 1 .. ts
    BY <1>3 DEF Times
  <2>8. ClockInv'
    <3>1. ASSUME NEW i \in 1 .. n + 1
          PROVE  log'[i].by \in Views /\ log'[i].row.ts \in 1 .. view'[log'[i].by].last
      BY <1>4, <1>5, <1>6, <2>2, <2>5, <2>6, <2>7
    <3> QED BY <1>2, <2>2, <3>1 DEF ClockInv
  <2>9. Ascending'
    <3> SUFFICES ASSUME NEW i \in 1 .. n + 1, NEW j \in 1 .. n + 1,
                        i < j, log'[i].by = log'[j].by
                 PROVE  log'[i].row.ts < log'[j].row.ts
      BY <2>2 DEF Ascending
    <3>1. i \in 1 .. n
      BY <2>5
    <3>2. CASE j \in 1 .. n
      BY <1>1, <1>2, <2>2, <3>1, <3>2 DEF Ascending
    <3>3. CASE j = n + 1
      BY <1>4, <1>6, <2>2, <2>6, <3>1, <3>3
    <3> QED BY <2>5, <3>2, <3>3
  <2> QED BY <1>2, <2>2, <2>3, <2>4, <2>8, <2>9, NoSidecar DEF LogInv
<1>8. CASE UNCHANGED <<bytes, watermark, log>>
  <2>1. TypeOK'
    BY <1>1, <1>2, <1>5, <1>8 DEF TypeOK, book, ViewType
  <2>2. TileInv' /\ BookInv' /\ Ascending'
    BY <1>1, <1>2, <1>8 DEF TileInv, BookInv, Ascending, Newline
  <2>3. ClockInv'
    BY <1>2, <1>6, <1>8 DEF ClockInv
  <2>4. CursorsPlaced'
    BY <1>1, <1>2, <1>5, <1>8 DEF CursorsPlaced, JS, Placed
  <2> QED BY <1>2, <2>1, <2>2, <2>3, <2>4, PlacedOnRow, NoSidecar DEF LogInv
<1> QED BY <1>2, <1>7, <1>8

\* HUNK feed() and dogenize().
LEMMA FeedHunkStep ==
    ASSUME LogInv, NEW v \in Views, NEW c \in Contents, feedHunk(v, c)
    PROVE  LogInv'
<1> DEFINE r == [ts |-> NoTs, what |-> c]
<1>1. /\ TypeOK /\ TileInv /\ BookInv /\ CursorsPlaced
  BY OnRowPlaced DEF LogInv
<1>2. /\ family = "HUNK" /\ Fits(c) /\ Fed(r, v)
      /\ UNCHANGED <<family, view, builds, book, stale, got>>
  BY DEF feedHunk
<1>3. r \in Rows /\ r.what = c
  BY DEF Rows
<1> HIDE DEF r
<1>4. watermark + Size(r.what) <= Cap
  BY <1>2, <1>3 DEF Fits
<1>5. /\ bytes' \in Seq(Cells) /\ Len(bytes') <= Cap /\ watermark' \in 0 .. Len(bytes')
      /\ log' \in Seq(Entries) /\ TileInv' /\ BookInv'
  BY <1>1, <1>2, <1>3, <1>4, FedKeeps
<1>6. TypeOK'
  BY <1>1, <1>2, <1>5 DEF TypeOK, book, Entries
<1>7. CursorsPlaced'
  BY <1>1, <1>2, <1>3, <1>4, FedPlaced
<1>8. ClockInv' /\ Ascending'
  BY <1>2 DEF ClockInv, Ascending
<1> QED BY <1>2, <1>5, <1>6, <1>7, <1>8, PlacedOnRow, NoSidecar DEF LogInv

\* The cursor of one view moves; the log and the clocks stay.
LEMMA CursorMoves ==
    ASSUME LogInv, UNCHANGED <<family, bytes, watermark, builds, book, log>>,
           view' \in [Views -> ViewType], \A u \in Views : view'[u].last = view[u].last,
           stale' \subseteq Views, got' \in [Views -> Rows \cup {NoRow}], CursorsPlaced'
    PROVE  LogInv'
<1>1. TypeOK'
  BY DEF LogInv, TypeOK, book, ViewType
<1>2. TileInv' /\ BookInv' /\ Ascending'
  BY DEF LogInv, TileInv, BookInv, Ascending, Newline
<1>3. ClockInv'
  BY DEF LogInv, ClockInv
<1>4. SidecarInv'
  BY DEF LogInv, SidecarInv, Offsets, book
<1> QED BY <1>1, <1>2, <1>3, <1>4, PlacedOnRow DEF LogInv

\* The view that a move makes.
LEMMA MovedView ==
    ASSUME TypeOK, NEW v \in Views, NEW a \in -1 .. Cap, NEW o \in -1 .. Cap,
           view' = [view EXCEPT ![v].rec = o, ![v].read = a]
               \/ view' = [view EXCEPT ![v].read = a, ![v].rec = o]
    PROVE  /\ view' \in [Views -> ViewType] /\ \A u \in Views : view'[u].last = view[u].last
           /\ view'[v].read = a /\ view'[v].rec = o /\ \A u \in Views : u # v => view'[u] = view[u]
<1>1. view \in [Views -> ViewType] /\ view[v] \in ViewType
  BY ViewShape
<1>2. /\ view'[v] = [view[v] EXCEPT !.rec = o, !.read = a]
            \/ view'[v] = [view[v] EXCEPT !.read = a, !.rec = o]
      /\ \A u \in Views : u # v => view'[u] = view[u]
  BY <1>1
<1>3. view'[v] \in ViewType /\ view'[v].read = a /\ view'[v].rec = o /\ view'[v].last = view[v].last
  BY <1>1, <1>2 DEF ViewType
<1>4. view' \in [Views -> ViewType]
  BY <1>1, <1>2, <1>3
<1> QED BY <1>2, <1>3, <1>4

\* rewind().
LEMMA RewindStep ==
    ASSUME LogInv, NEW v \in Views, rewind(v)
    PROVE  LogInv'
<1>1. TypeOK /\ CursorsPlaced
  BY OnRowPlaced DEF LogInv
<1>2. /\ view' = [view EXCEPT ![v].read = 0, ![v].rec = -1]
      /\ stale' = stale \ {v} /\ got' = [got EXCEPT ![v] = NoRow]
      /\ UNCHANGED <<family, bytes, watermark, builds, book, log>>
  BY DEF rewind
<1>3. 0 \in -1 .. Cap /\ -1 \in -1 .. Cap
  BY ConstantsAssumption
<1>4. /\ view' \in [Views -> ViewType] /\ \A u \in Views : view'[u].last = view[u].last
      /\ view'[v].read = 0 /\ view'[v].rec = -1 /\ \A u \in Views : u # v => view'[u] = view[u]
  BY <1>1, <1>2, <1>3, MovedView
<1>5. stale' \subseteq Views /\ got' \in [Views -> Rows \cup {NoRow}]
      /\ \A u \in Views : u # v => got'[u] = got[u]
  BY <1>1, <1>2 DEF TypeOK, book
<1>6. CursorsPlaced'
  <2> SUFFICES ASSUME NEW u \in Views, JS', view'[u].read >= 0, u \notin stale'
               PROVE  Placed(log', watermark', view'[u], got'[u])
    BY DEF CursorsPlaced
  <2>1. CASE u = v
    <3>1. view'[u].rec < 0
      BY <1>4, <2>1
    <3> QED BY <1>4, <2>1, <3>1 DEF Placed
  <2>2. CASE u # v
    BY <1>1, <1>2, <1>4, <1>5, <2>2 DEF CursorsPlaced, JS
  <2> QED BY <2>1, <2>2
<1> QED BY <1>2, <1>4, <1>5, <1>6, CursorMoves

\* The row drained at an offset, and where the cursor goes.
LEMMA DrainedShape ==
    ASSUME TypeOK, NEW off \in Nat, EndOf(off, watermark) >= 0
    PROVE  /\ Drains(off, watermark) /\ RowAt(off) \in Rows
           /\ EndOf(off, watermark) \in -1 .. Cap /\ off \in -1 .. Cap
<1>1. Drains(off, watermark)
  BY DEF EndOf
<1>2. /\ bytes \in Seq(Cells) /\ watermark \in Nat /\ watermark \in 0 .. Len(bytes)
      /\ Len(bytes) \in Nat
  BY LogShape
<1>3. Len(bytes) <= Cap /\ Cap \in Nat
  BY ConstantsAssumption DEF TypeOK, book
<1>4. off < watermark
  BY <1>1 DEF Drains
<1>5. off + 1 \in 1 .. Len(bytes)
  BY <1>2, <1>4
<1>6. bytes[off + 1] \in Cells
  BY <1>2, <1>5, ElementOfSeq
<1>7. RowAt(off) \in Rows
  BY <1>6 DEF RowAt, Cells
<1>8. /\ Size(RowAt(off).what) \in Nat \ {0}
      /\ Len(RowCells(RowAt(off))) = Size(RowAt(off).what)
  BY <1>7, RowShape
<1>9. off + Size(RowAt(off).what) <= watermark
  BY <1>1, <1>8 DEF Drains, RowAt
<1>10. EndOf(off, watermark) = off + Size(RowAt(off).what)
  BY <1>1 DEF EndOf
<1>11. off \in -1 .. Cap /\ off + Size(RowAt(off).what) \in -1 .. Cap
  <2> DEFINE z == Size(RowAt(off).what)
  <2>1. z \in Nat /\ off + z <= watermark
    BY <1>8, <1>9
  <2> HIDE DEF z
  <2>2. off \in -1 .. Cap /\ off + z \in -1 .. Cap
    BY <1>2, <1>3, <1>4, <2>1
  <2> QED BY <2>2 DEF z
<1> QED BY <1>1, <1>7, <1>10, <1>11

\* The cursor is put on a row of the log.
LEMMA OntoStep ==
    ASSUME LogInv, NEW v \in Views, NEW off \in Nat, EndOf(off, watermark) >= 0,
           view' = Onto(v, off), got' = [got EXCEPT ![v] = RowAt(off)],
           stale' \subseteq Views, stale' = stale \/ stale' = stale \ {v},
           UNCHANGED <<family, bytes, watermark, builds, book, log>>
    PROVE  LogInv'
<1>1. TypeOK /\ TileInv /\ CursorsPlaced
  BY OnRowPlaced DEF LogInv
<1>2. /\ Drains(off, watermark) /\ RowAt(off) \in Rows
      /\ EndOf(off, watermark) \in -1 .. Cap /\ off \in -1 .. Cap
  BY <1>1, DrainedShape
<1>3. view' = [view EXCEPT ![v].rec = off, ![v].read = EndOf(off, watermark)]
  BY DEF Onto
<1>4. /\ view' \in [Views -> ViewType] /\ \A u \in Views : view'[u].last = view[u].last
      /\ view'[v].read = EndOf(off, watermark) /\ view'[v].rec = off
      /\ \A u \in Views : u # v => view'[u] = view[u]
  BY <1>1, <1>2, <1>3, MovedView
<1>5. /\ got' \in [Views -> Rows \cup {NoRow}] /\ got'[v] = RowAt(off)
      /\ \A u \in Views : u # v => got'[u] = got[u]
  BY <1>1, <1>2 DEF TypeOK, book
<1>6. PICK i \in 1 .. Len(log) : log[i].at = off
  BY <1>1, <1>2, DrainsOnlyStart
<1>7. RowAt(off) = log[i].row /\ EndOf(off, watermark) = After(log, watermark, i)
  BY <1>1, <1>6, AtStart
<1>8. CursorsPlaced'
  <2> SUFFICES ASSUME NEW u \in Views, JS', view'[u].read >= 0, u \notin stale'
               PROVE  Placed(log', watermark', view'[u], got'[u])
    BY DEF CursorsPlaced
  <2>1. CASE u = v
    <3>1. ~(view'[u].rec < 0)
      BY <1>4, <2>1
    <3> QED BY <1>4, <1>5, <1>6, <1>7, <2>1, <3>1 DEF Placed
  <2>2. CASE u # v
    BY <1>1, <1>4, <1>5, <2>2 DEF CursorsPlaced, JS
  <2> QED BY <2>1, <2>2
<1> QED BY <1>4, <1>5, <1>8, CursorMoves

\* next().
LEMMA NextStep ==
    ASSUME LogInv, NEW v \in Views, next(v)
    PROVE  LogInv'
<1>1. TypeOK /\ view[v].read \in Nat
  <2>1. TypeOK /\ view[v].read >= 0
    BY DEF LogInv, next
  <2>2. view[v].read \in -1 .. Cap /\ Cap \in Nat
    BY <2>1, ViewShape, ConstantsAssumption
  <2> QED BY <2>1, <2>2
<1>2. /\ EndOf(view[v].read, watermark) >= 0
      /\ view' = Onto(v, view[v].read) /\ got' = [got EXCEPT ![v] = RowAt(view[v].read)]
      /\ UNCHANGED <<family, bytes, watermark, builds, book, log, stale>>
  BY DEF next
<1>3. stale' \subseteq Views /\ stale' = stale
  BY <1>1, <1>2 DEF TypeOK, book
<1> QED BY <1>1, <1>2, <1>3, OntoStep

\* seek().
LEMMA SeekStep ==
    ASSUME LogInv, NEW v \in Views, NEW off \in Nat, seek(v, off)
    PROVE  LogInv'
<1>1. /\ EndOf(off, watermark) >= 0
      /\ view' = Onto(v, off) /\ got' = [got EXCEPT ![v] = RowAt(off)]
      /\ stale' = stale \ {v}
      /\ UNCHANGED <<family, bytes, watermark, builds, book, log>>
  BY DEF seek
<1>2. stale' \subseteq Views
  BY <1>1 DEF LogInv, TypeOK, book
<1> QED BY <1>1, <1>2, OntoStep

\* The offsets a program has are offsets of the log.
LEMMA KnownShape ==
    ASSUME TypeOK, NEW v \in Views, NEW off \in KnownOffs(v)
    PROVE  off \in 0 .. watermark /\ off \in Nat
<1>1. off \in 0 .. watermark
  BY DEF KnownOffs
<1>2. watermark \in Nat
  BY LogShape
<1> QED BY <1>1, <1>2

\* seekVerb, seekTime, seekURI and their Rev forms.
LEMMA SeekByStep ==
    ASSUME LogInv, NEW v \in Views, NEW rev \in BOOLEAN, seekBy(v, rev)
    PROVE  LogInv'
<1>1. TypeOK /\ TileInv
  BY DEF LogInv
<1>2. PICK off \in KnownOffs(v), kind \in Kinds :
          \E arg \in Args(kind) :
             /\ Scan(off, watermark, rev, kind, arg) >= 0
             /\ seek(v, Scan(off, watermark, rev, kind, arg))
  BY DEF seekBy
<1>3. PICK arg : /\ Scan(off, watermark, rev, kind, arg) >= 0
                 /\ seek(v, Scan(off, watermark, rev, kind, arg))
  BY <1>2
<1> DEFINE o == Scan(off, watermark, rev, kind, arg)
<1>4. off \in 0 .. watermark
  BY <1>1, KnownShape
<1>5. o \in {-1} \cup RowStarts
  BY <1>1, <1>4, ScanRange
<1>6. \A a \in RowStarts : a \in Nat
  <2>1. \A i \in 1 .. Len(log) : log[i].at \in Nat
    BY <1>1, AtStart
  <2> QED BY <2>1 DEF RowStarts
<1> HIDE DEF o
<1>7. o \in Nat
  <2>1. o >= 0
    BY <1>3 DEF o
  <2> QED BY <1>5, <1>6, <2>1
<1>8. seek(v, o)
  BY <1>3 DEF o
<1> QED BY <1>7, <1>8, SeekStep

\* abc.ram, abc.mmap, abc.over.
LEMMA BuildStep ==
    ASSUME LogInv, NEW v \in Views, build(v)
    PROVE  LogInv'
<1>1. TypeOK /\ CursorsPlaced
  BY OnRowPlaced DEF LogInv
<1>2. /\ JS /\ builds < MaxBuilds /\ builds' = builds + 1
      /\ view' = [view EXCEPT ![v].read = 0, ![v].rec = -1]
      /\ watermark' = 0 /\ log' = <<>>
      /\ stale' = (stale \cup {u \in Views : view[u].read >= 0}) \ {v}
      /\ got' = [got EXCEPT ![v] = NoRow]
      /\ UNCHANGED <<family, bytes, book>>
  BY DEF build
<1>3. 0 \in -1 .. Cap /\ -1 \in -1 .. Cap
  BY ConstantsAssumption
<1>4. /\ view' \in [Views -> ViewType] /\ \A u \in Views : view'[u].last = view[u].last
      /\ view'[v].read = 0 /\ view'[v].rec = -1 /\ \A u \in Views : u # v => view'[u] = view[u]
  BY <1>1, <1>2, <1>3, MovedView
<1>5. /\ stale' \subseteq Views /\ got' \in [Views -> Rows \cup {NoRow}]
  BY <1>1, <1>2 DEF TypeOK, book
<1>6. builds' \in 0 .. MaxBuilds
  BY <1>1, <1>2, ConstantsAssumption DEF TypeOK, book
<1>7. watermark' \in 0 .. Len(bytes') /\ Len(log') = 0
  <2>1. Len(bytes) \in Nat
    BY <1>1, LogShape
  <2> QED BY <1>2, <2>1
<1>8. TypeOK'
  BY <1>1, <1>2, <1>4, <1>5, <1>6, <1>7 DEF TypeOK, book, ViewType
<1>9. TileInv'
  <2>1. ~(0 < 0) /\ 1 .. 0 = {}
    OBVIOUS
  <2>2. After(log', watermark', 0) = 0
    BY <1>2, <1>7, <2>1 DEF After
  <2> QED BY <1>7, <2>1, <2>2 DEF TileInv, Tiled
<1>10. BookInv' /\ ClockInv' /\ Ascending'
  <2>1. 1 .. 0 = {}
    OBVIOUS
  <2>2. family' # "BOOK"
    BY <1>2 DEF JS
  <2> QED BY <1>7, <2>1, <2>2 DEF BookInv, ClockInv, Ascending
<1>11. CursorsPlaced'
  <2> SUFFICES ASSUME NEW u \in Views, JS', view'[u].read >= 0, u \notin stale'
               PROVE  Placed(log', watermark', view'[u], got'[u])
    BY DEF CursorsPlaced
  <2>1. u = v
    BY <1>2, <1>4
  <2>2. view'[u].rec < 0
    BY <1>4, <2>1
  <2> QED BY <1>4, <2>1, <2>2 DEF Placed
<1>12. SidecarInv'
  BY <1>2, NoSidecar DEF JS
<1> QED BY <1>8, <1>9, <1>10, <1>11, <1>12, PlacedOnRow DEF LogInv

-----------------------------------------------------------------------------
(* The booked log.                                                         *)

\* A booked log has no cursors, and its clock is in its rows.
LEMMA BookKeeps ==
    ASSUME family = "BOOK", family' = family, TypeOK', TileInv', BookInv', SidecarInv',
           ClockInv'
    PROVE  LogInv'
<1>1. Ascending'
  BY DEF ClockInv, Ascending
<1>2. CursorOnRow'
  BY DEF CursorOnRow, JS
<1> QED BY <1>1, <1>2 DEF LogInv

\* The last cell below the write head is the newline of the last row.
LEMMA LastRow ==
    ASSUME TypeOK, TileInv, watermark # 0
    PROVE  /\ Len(log) \in 1 .. Len(log) /\ Newline(bytes[watermark])
           /\ bytes[watermark].row = log[Len(log)].row
<1> DEFINE n == Len(log)
<1>1. n \in Nat /\ watermark \in Nat
  BY LogShape
<1>2. n # 0
  <2>1. n = 0 => After(log, watermark, 0) = watermark
    BY <1>1 DEF After
  <2>2. After(log, watermark, 0) = 0
    BY DEF TileInv, Tiled
  <2> QED BY <2>1, <2>2
<1>3. n \in 1 .. n /\ ~(n < n)
  BY <1>1, <1>2
<1>4. watermark = log[n].at + Size(log[n].row.what) /\ Size(log[n].row.what) \in Nat \ {0}
  <2>1. After(log, watermark, n) = watermark
    BY <1>3 DEF After
  <2> QED BY <1>3, <2>1, AtStart, LogShape, EntryShape
<1>5. Size(log[n].row.what) \in 1 .. Size(log[n].row.what)
  BY <1>4
<1>6. bytes[watermark] = [row |-> log[n].row, k |-> Size(log[n].row.what)]
  BY <1>3, <1>4, <1>5 DEF TileInv, Tiled, Holds
<1>7. bytes[watermark].row = log[n].row /\ bytes[watermark].k = Size(log[n].row.what)
  BY <1>6
<1> QED BY <1>3, <1>7 DEF Newline

\* Opening a booked log finds the write head where it was.
LEMMA RecoveredIs ==
    ASSUME TypeOK, TileInv, BookInv, family = "BOOK"
    PROVE  Recovered = watermark
<1> DEFINE nl == {i \in 1 .. Len(bytes) : Newline(bytes[i])}
<1>1. watermark \in Nat /\ Len(bytes) \in Nat /\ watermark <= Len(bytes)
  BY LogShape
<1>2. ASSUME NEW i \in nl PROVE i <= watermark /\ i \in Int /\ i >= 1
  <2>1. i \in 1 .. Len(bytes) /\ Newline(bytes[i])
    OBVIOUS
  <2>2. i \notin watermark + 1 .. Len(bytes)
    BY <2>1 DEF BookInv
  <2> QED BY <1>1, <2>1, <2>2
<1>3. Recovered = IF nl = {} THEN 0 ELSE Max(nl)
  BY DEF Recovered
<1>4. watermark # 0 => watermark \in nl
  <2> SUFFICES ASSUME watermark # 0 PROVE watermark \in nl
    OBVIOUS
  <2>1. watermark \in 1 .. Len(bytes)
    BY <1>1
  <2> QED BY <2>1, LastRow
<1> HIDE DEF nl
<1>5. CASE watermark = 0
  <2>1. nl = {}
    BY <1>2, <1>5
  <2> QED BY <1>3, <1>5, <2>1
<1>6. CASE watermark # 0
  <2>1. watermark \in nl /\ nl \in SUBSET Int /\ \A y \in nl : y <= watermark
    BY <1>2, <1>4, <1>6
  <2>2. Max(nl) = watermark
    BY <2>1, MaxIs
  <2> QED BY <1>3, <2>1, <2>2
<1> QED BY <1>5, <1>6

\* _ulog_open.
LEMMA OpenStep ==
    ASSUME LogInv, openBook
    PROVE  LogInv'
<1>1. TypeOK /\ TileInv /\ BookInv /\ SidecarInv /\ ClockInv
  BY DEF LogInv
<1>2. /\ family = "BOOK" /\ builds < MaxBuilds /\ opened' = TRUE /\ builds' = builds + 1
      /\ watermark' = Recovered /\ UNCHANGED <<family, bytes, view, flushed, log, stale, got>>
      /\ idx' = IF flushed = Recovered THEN idx ELSE Starts(Recovered)
  BY DEF openBook
<1>3. watermark' = watermark /\ Recovered = watermark
  BY <1>1, <1>2, RecoveredIs
<1>4. builds' \in 0 .. MaxBuilds
  BY <1>1, <1>2, ConstantsAssumption DEF TypeOK
<1>5. idx' = Offsets
  <2>1. Starts(watermark) = Offsets
    BY <1>1, StartsAre
  <2> QED BY <1>1, <1>2, <1>3, <2>1 DEF SidecarInv
<1>6. idx' \in Seq(Offs)
  BY <1>1, <1>5, OffsetsShape
<1>7. TypeOK'
  BY <1>1, <1>2, <1>3, <1>4, <1>6 DEF TypeOK
<1>8. TileInv' /\ BookInv' /\ ClockInv'
  BY <1>1, <1>2, <1>3 DEF TileInv, BookInv, ClockInv, Newline
<1>9. SidecarInv'
  BY <1>1, <1>2, <1>3, <1>5 DEF SidecarInv, Offsets
<1> QED BY <1>2, <1>7, <1>8, <1>9, BookKeeps

\* A row goes into a booked log: by an append, or by one that a death cut off.
LEMMA BookFed ==
    ASSUME LogInv, NEW c \in Contents, NEW t \in 1 .. MaxTs + 1, family = "BOOK",
           t > LastTs, Fits(c), Fed([ts |-> t, what |-> c], "book"), family' = family
    PROVE  /\ bytes' \in Seq(Cells) /\ Len(bytes') <= Cap /\ watermark' \in 0 .. Len(bytes')
           /\ log' \in Seq(Entries) /\ TileInv' /\ BookInv' /\ ClockInv'
           /\ flushed < watermark'
           /\ idx = Offsets => Append(idx, watermark) = Offsets'
           /\ Append(idx, watermark) \in Seq(Offs)
<1> DEFINE r == [ts |-> t, what |-> c]
           n == Len(log)
<1>1. TypeOK /\ TileInv /\ BookInv /\ SidecarInv /\ ClockInv
  BY DEF LogInv
<1>2. /\ family = "BOOK" /\ family' = family /\ t > LastTs /\ Fits(c) /\ Fed(r, "book")
  OBVIOUS
<1>3. r \in Rows /\ r.what = c /\ r.ts = t
  BY DEF Rows, Times
<1> HIDE DEF r
<1>4. watermark + Size(r.what) <= Cap
  BY <1>2, <1>3 DEF Fits
<1>5. /\ bytes' \in Seq(Cells) /\ Len(bytes') <= Cap /\ watermark' \in 0 .. Len(bytes')
      /\ log' \in Seq(Entries) /\ TileInv' /\ BookInv'
      /\ Len(log') = n + 1 /\ \A i \in 1 .. n : log'[i] = log[i]
      /\ log'[n + 1] = [row |-> r, at |-> watermark, by |-> "book"]
  BY <1>1, <1>2, <1>3, <1>4, FedKeeps
<1>7. n \in Nat /\ watermark \in Nat /\ log \in Seq(Entries)
  BY <1>1, LogShape
<1>8. ASSUME NEW i \in 1 .. n PROVE log[i].row.ts < t
  <2>1. watermark # 0
    BY <1>1, <1>7, AtStart
  <2>2. n \in 1 .. n /\ bytes[watermark].row = log[n].row
    BY <1>1, <2>1, LastRow
  <2>3. LastTs = log[n].row.ts
    BY <2>1, <2>2 DEF LastTs
  <2>4. \A j \in 1 .. n : log[j].row.ts \in Nat
    <3> TAKE j \in 1 .. n
    <3>1. log[j].row \in Rows
      BY <1>7, EntryShape
    <3> QED BY <3>1, ConstantsAssumption DEF Rows, Times, NoTs
  <2>5. i < n => log[i].row.ts < log[n].row.ts
    BY <1>1, <1>2, <2>2 DEF ClockInv
  <2>6. i = n \/ i < n
    BY <1>7
  <2>7. log[n].row.ts < t
    BY <1>2, <2>2, <2>3, <2>4
  <2> QED BY <2>2, <2>4, <2>5, <2>6, <2>7
<1>9. ClockInv'
  <2>1. \A i \in 1 .. n + 1 : i \in 1 .. n \/ i = n + 1
    BY <1>7
  <2>2. ASSUME NEW i \in 1 .. n + 1, NEW j \in 1 .. n + 1, i < j
        PROVE  log'[i].row.ts < log'[j].row.ts
    <3>1. i \in 1 .. n
      BY <1>7, <2>2
    <3>2. CASE j \in 1 .. n
      BY <1>1, <1>2, <1>5, <2>2, <3>1, <3>2 DEF ClockInv
    <3>3. CASE j = n + 1
      <4>1. log'[j].row = r
        BY <1>5, <3>3
      <4> QED BY <1>3, <1>5, <1>8, <3>1, <4>1
    <3> QED BY <2>1, <3>2, <3>3
  <2> QED BY <1>2, <1>5, <2>2 DEF ClockInv
<1>10. flushed < watermark'
  <2>1. Size(r.what) \in Nat \ {0} /\ watermark' = watermark + Size(r.what)
    BY <1>2, <1>3, RowShape DEF Fed
  <2>2. flushed <= watermark /\ flushed \in Int
    BY <1>1, <1>2, ConstantsAssumption DEF SidecarInv, TypeOK, NoSentinel, Offs
  <2> QED BY <1>7, <2>1, <2>2
<1>11. watermark \in Offs /\ idx \in Seq(Offs)
  BY <1>1, <1>7, LogShape, ConstantsAssumption DEF TypeOK, Offs
<1>12. Append(idx, watermark) \in Seq(Offs)
  BY <1>11, AppendProperties
<1>13. ASSUME idx = Offsets
       PROVE  Append(idx, watermark) = Offsets'
  <2> DEFINE a == Append(idx, watermark)
  <2>1. Len(idx) = n /\ \A i \in 1 .. n : idx[i] = log[i].at
    BY <1>1, <1>13, OffsetsShape
  <2>2. Len(a) = n + 1 /\ a[n + 1] = watermark /\ \A i \in 1 .. n : a[i] = idx[i]
    BY <1>11, <2>1, AppendProperties
  <2>3. a \in [1 .. n + 1 -> Offs]
    <3>1. a \in [1 .. Len(a) -> Offs]
      BY <1>12, LenProperties
    <3> QED BY <2>2, <3>1
  <2> HIDE DEF a
  <2>4. \A i \in 1 .. n + 1 : a[i] = log'[i].at
    <3> TAKE i \in 1 .. n + 1
    <3>1. i \in 1 .. n \/ i = n + 1
      BY <1>7
    <3> QED BY <1>5, <2>1, <2>2, <3>1
  <2>5. Offsets' = [i \in 1 .. n + 1 |-> log'[i].at]
    BY <1>5 DEF Offsets
  <2>6. a = [i \in 1 .. n + 1 |-> a[i]]
    BY <2>3
  <2> QED BY <2>4, <2>5, <2>6 DEF a
<1> QED BY <1>5, <1>9, <1>10, <1>12, <1>13

\* _ulog_append.
LEMMA AppendStep ==
    ASSUME LogInv, NEW c \in Contents, NEW t \in 1 .. MaxTs + 1, append(c, t)
    PROVE  LogInv'
<1>1. TypeOK /\ SidecarInv
  BY DEF LogInv
<1>2. /\ family = "BOOK" /\ opened /\ t > LastTs /\ Fits(c)
      /\ Fed([ts |-> t, what |-> c], "book") /\ idx' = Append(idx, watermark)
      /\ UNCHANGED <<family, view, builds, opened, flushed, stale, got>>
  BY DEF append
<1>3. /\ bytes' \in Seq(Cells) /\ Len(bytes') <= Cap /\ watermark' \in 0 .. Len(bytes')
      /\ log' \in Seq(Entries) /\ TileInv' /\ BookInv' /\ ClockInv'
      /\ flushed < watermark'
      /\ idx = Offsets => Append(idx, watermark) = Offsets'
      /\ Append(idx, watermark) \in Seq(Offs)
  BY <1>2, BookFed
<1>4. TypeOK'
  BY <1>1, <1>2, <1>3 DEF TypeOK, Entries
<1>5. flushed' <= watermark'
  <2>1. flushed \in Int /\ watermark' \in Int
    BY <1>1, <1>3, LenProperties, ConstantsAssumption DEF TypeOK, NoSentinel, Offs
  <2> QED BY <1>2, <1>3, <2>1
<1>6. SidecarInv'
  BY <1>1, <1>2, <1>3, <1>5 DEF SidecarInv
<1> QED BY <1>2, <1>3, <1>4, <1>6, BookKeeps

\* A change of the bytes past the write head keeps the rows.
LEMMA TileKept ==
    ASSUME TypeOK, TileInv, NEW b \in Seq(Cells), watermark <= Len(b),
           \A i \in 1 .. watermark : b[i] = bytes[i]
    PROVE  Tiled(b, log, watermark)
<1>1. watermark \in Nat /\ Len(b) \in Nat
  BY LogShape, LenProperties
<1>2. ASSUME NEW i \in 1 .. Len(log)
      PROVE  Holds(b, log[i].at, log[i].row)
  <2> DEFINE a == log[i].at
             z == Size(log[i].row.what)
  <2>1. a \in Nat /\ z \in Nat \ {0} /\ a + z <= watermark
    BY LogShape, EntryShape DEF TileInv, Tiled
  <2> SUFFICES ASSUME NEW k \in 1 .. z
               PROVE  a + k <= Len(b) /\ b[a + k] = [row |-> log[i].row, k |-> k]
    BY DEF Holds
  <2>2. bytes[a + k] = [row |-> log[i].row, k |-> k]
    BY DEF TileInv, Tiled, Holds
  <2> HIDE DEF a, z
  <2>3. a + k \in 1 .. watermark /\ a + k <= Len(b)
    BY <1>1, <2>1
  <2> QED BY <2>2, <2>3
<1> QED BY <1>2 DEF TileInv, Tiled

\* _ulog_close.
LEMMA CloseStep ==
    ASSUME LogInv, closeBook
    PROVE  LogInv'
<1> DEFINE b == SubSeq(bytes, 1, watermark)
<1>1. TypeOK /\ TileInv /\ BookInv /\ ClockInv
  BY DEF LogInv
<1>2. /\ family = "BOOK" /\ opened /\ opened' = FALSE /\ bytes' = b /\ flushed' = watermark
      /\ UNCHANGED <<family, watermark, view, builds, idx, log, stale, got>>
  BY DEF closeBook
<1>3. /\ bytes \in Seq(Cells) /\ watermark \in Nat /\ watermark <= Len(bytes)
      /\ Len(bytes) \in Nat /\ Len(bytes) <= Cap /\ Cap \in Nat
  <2>1. bytes \in Seq(Cells) /\ watermark \in Nat /\ watermark <= Len(bytes) /\ Len(bytes) \in Nat
    BY <1>1, LogShape
  <2> QED BY <1>1, <2>1, ConstantsAssumption DEF TypeOK
<1>4. b \in Seq(Cells) /\ Len(b) = watermark /\ \A i \in 1 .. watermark : b[i] = bytes[i]
  <2>1. 0 + watermark <= Len(bytes) /\ 0 + watermark = watermark /\ 0 + 1 = 1 /\ 0 \in Nat
        /\ \A i \in 1 .. watermark : 0 + i = i
    BY <1>3
  <2>2. /\ SubSeq(bytes, 0 + 1, 0 + watermark) \in Seq(Cells)
        /\ Len(SubSeq(bytes, 0 + 1, 0 + watermark)) = watermark
        /\ \A i \in 1 .. watermark : SubSeq(bytes, 0 + 1, 0 + watermark)[i] = bytes[0 + i]
    BY <1>3, <2>1, PartShape
  <2> QED BY <2>1, <2>2
<1> HIDE DEF b
<1>5. Tiled(b, log, watermark)
  <2>1. watermark <= Len(b)
    BY <1>3, <1>4
  <2> QED BY <1>1, <1>4, <2>1, TileKept
<1>6. TypeOK'
  <2>1. watermark \in 0 .. Len(b) /\ Len(b) <= Cap /\ watermark \in Offs
    BY <1>3, <1>4 DEF Offs
  <2> QED BY <1>1, <1>2, <1>4, <2>1 DEF TypeOK
<1>7. TileInv' /\ ClockInv'
  BY <1>1, <1>2, <1>5 DEF TileInv, ClockInv
<1>8. BookInv'
  <2>1. watermark + 1 .. watermark = {}
    BY <1>3
  <2> QED BY <1>2, <1>4, <2>1 DEF BookInv
<1>9. SidecarInv'
  BY <1>2, <1>3 DEF LogInv, SidecarInv, Offsets
<1> QED BY <1>2, <1>6, <1>7, <1>8, <1>9, BookKeeps

\* The process dies with a row half written: no newline is added.
LEMMA HalfRow ==
    ASSUME TypeOK, TileInv, BookInv, family = "BOOK", NEW r \in Rows,
           watermark + Size(r.what) <= Cap, NEW n \in 1 .. Size(r.what) - 1
    PROVE  LET b == Written(watermark, SubSeq(RowCells(r), 1, n)) IN
           /\ b \in Seq(Cells) /\ watermark \in 0 .. Len(b) /\ Len(b) <= Cap
           /\ Tiled(b, log, watermark)
           /\ \A i \in watermark + 1 .. Len(b) : ~Newline(b[i])
<1> DEFINE h == SubSeq(RowCells(r), 1, n)
           b == Written(watermark, h)
           z == Size(r.what)
<1>1. /\ bytes \in Seq(Cells) /\ watermark \in Nat /\ watermark <= Len(bytes)
      /\ watermark \in 0 .. Len(bytes)
      /\ Len(bytes) \in Nat /\ Len(bytes) <= Cap /\ Cap \in Nat
  <2>1. /\ bytes \in Seq(Cells) /\ watermark \in Nat /\ watermark <= Len(bytes)
        /\ Len(bytes) \in Nat /\ watermark \in 0 .. Len(bytes)
    BY LogShape
  <2> QED BY <2>1, ConstantsAssumption DEF TypeOK
<1>2. z \in Nat \ {0} /\ RowCells(r) \in Seq(Cells) /\ Len(RowCells(r)) = z
  BY RowShape
<1>3. \A k \in 1 .. z : RowCells(r)[k] = [row |-> r, k |-> k]
  BY RowShape
<1>4. n \in Nat /\ n < z /\ z \in Nat /\ watermark + z <= Cap
  BY <1>2
<1> HIDE DEF z, b
<1>5. h \in Seq(Cells) /\ Len(h) = n /\ \A k \in 1 .. n : h[k] = [row |-> r, k |-> k]
  <2>1. /\ 0 + n <= Len(RowCells(r)) /\ 0 + n = n /\ 0 + 1 = 1 /\ 0 \in Nat
        /\ \A i \in 1 .. n : 0 + i = i /\ i \in 1 .. z
    BY <1>2, <1>4
  <2>2. /\ SubSeq(RowCells(r), 0 + 1, 0 + n) \in Seq(Cells)
        /\ Len(SubSeq(RowCells(r), 0 + 1, 0 + n)) = n
        /\ \A i \in 1 .. n : SubSeq(RowCells(r), 0 + 1, 0 + n)[i] = RowCells(r)[0 + i]
    BY <1>2, <1>4, <2>1, PartShape
  <2> QED BY <1>3, <2>1, <2>2
<1> HIDE DEF h
<1>6. /\ b \in Seq(Cells)
      /\ Len(b) = IF watermark + n >= Len(bytes) THEN watermark + n ELSE Len(bytes)
      /\ \A k \in 1 .. n : b[watermark + k] = h[k]
      /\ \A i \in 1 .. Len(bytes) : i \notin watermark + 1 .. watermark + n => b[i] = bytes[i]
  BY <1>1, <1>5, WrittenShape DEF b
<1>7. watermark \in 0 .. Len(b) /\ watermark <= Len(b) /\ Len(b) <= Cap /\ Len(b) \in Nat
  BY <1>1, <1>4, <1>6
<1>8. \A i \in 1 .. watermark : b[i] = bytes[i]
  <2> TAKE i \in 1 .. watermark
  <2>1. i \in 1 .. Len(bytes) /\ i \notin watermark + 1 .. watermark + n
    BY <1>1, <1>4
  <2> QED BY <1>6, <2>1
<1>9. Tiled(b, log, watermark)
  BY <1>6, <1>7, <1>8, TileKept
<1>10. ASSUME NEW i \in watermark + 1 .. Len(b)
       PROVE  ~Newline(b[i])
  <2>1. CASE i \in watermark + 1 .. watermark + n
    <3> DEFINE k == i - watermark
    <3>1. k \in 1 .. n /\ watermark + k = i /\ k # z
      BY <1>1, <1>4, <2>1
    <3> HIDE DEF k
    <3>2. b[i] = [row |-> r, k |-> k]
      BY <1>5, <1>6, <3>1
    <3>3. b[i].row = r /\ b[i].k = k
      BY <3>2
    <3> QED BY <3>1, <3>3 DEF Newline, z
  <2>2. CASE i \notin watermark + 1 .. watermark + n
    <3>1. i \in watermark + 1 .. Len(bytes) /\ i \in 1 .. Len(bytes)
      BY <1>1, <1>4, <1>6, <2>2
    <3>2. b[i] = bytes[i]
      BY <1>6, <2>2, <3>1
    <3> QED BY <3>1, <3>2 DEF BookInv
  <2> QED BY <2>1, <2>2
<1> QED BY <1>6, <1>7, <1>9, <1>10 DEF b, h

\* The process dies: where the log stays as it was but for what is past the
\* write head.
LEMMA DieAtHead ==
    ASSUME LogInv, family = "BOOK", opened, opened' = FALSE,
           UNCHANGED <<family, watermark, view, builds, idx, flushed, log, stale, got>>,
           bytes' \in Seq(Cells), watermark \in 0 .. Len(bytes'), Len(bytes') <= Cap,
           Tiled(bytes', log, watermark),
           \A i \in watermark + 1 .. Len(bytes') : ~Newline(bytes'[i])
    PROVE  LogInv'
<1>1. TypeOK /\ ClockInv /\ SidecarInv
  BY DEF LogInv
<1>2. TypeOK'
  BY <1>1 DEF TypeOK
<1>3. TileInv' /\ ClockInv' /\ BookInv'
  BY <1>1 DEF TileInv, ClockInv, BookInv, Newline
<1>4. SidecarInv'
  BY <1>1 DEF SidecarInv, Offsets
<1> QED BY <1>2, <1>3, <1>4, BookKeeps

\* The trimmed bytes are the rows.
LEMMA Trimmed ==
    ASSUME TypeOK, TileInv
    PROVE  LET b == SubSeq(bytes, 1, watermark) IN
           /\ b \in Seq(Cells) /\ watermark \in 0 .. Len(b) /\ Len(b) <= Cap
           /\ Tiled(b, log, watermark)
           /\ \A i \in watermark + 1 .. Len(b) : ~Newline(b[i])
<1> DEFINE b == SubSeq(bytes, 1, watermark)
<1>1. /\ bytes \in Seq(Cells) /\ watermark \in Nat /\ watermark <= Len(bytes)
      /\ Len(bytes) \in Nat /\ Len(bytes) <= Cap /\ Cap \in Nat
  <2>1. bytes \in Seq(Cells) /\ watermark \in Nat /\ watermark <= Len(bytes) /\ Len(bytes) \in Nat
    BY LogShape
  <2> QED BY <2>1, ConstantsAssumption DEF TypeOK
<1>2. b \in Seq(Cells) /\ Len(b) = watermark /\ \A i \in 1 .. watermark : b[i] = bytes[i]
  <2>1. 0 + watermark <= Len(bytes) /\ 0 + watermark = watermark /\ 0 + 1 = 1 /\ 0 \in Nat
        /\ \A i \in 1 .. watermark : 0 + i = i
    BY <1>1
  <2>2. /\ SubSeq(bytes, 0 + 1, 0 + watermark) \in Seq(Cells)
        /\ Len(SubSeq(bytes, 0 + 1, 0 + watermark)) = watermark
        /\ \A i \in 1 .. watermark : SubSeq(bytes, 0 + 1, 0 + watermark)[i] = bytes[0 + i]
    BY <1>1, <2>1, PartShape
  <2> QED BY <2>1, <2>2
<1> HIDE DEF b
<1>3. watermark \in 0 .. Len(b) /\ Len(b) <= Cap /\ watermark <= Len(b)
      /\ watermark + 1 .. Len(b) = {}
  BY <1>1, <1>2
<1>4. Tiled(b, log, watermark)
  BY <1>2, <1>3, TileKept
<1> QED BY <1>2, <1>3, <1>4 DEF b

\* The process dies.
LEMMA DieStep ==
    ASSUME LogInv, die
    PROVE  LogInv'
<1> USE DEF LogInv
<1>1. /\ family = "BOOK" /\ opened /\ opened' = FALSE
      /\ UNCHANGED <<family, view, builds, flushed, stale, got>>
  BY DEF die
<1>2. CASE UNCHANGED <<bytes, watermark, idx, log>>
  <2>1. /\ bytes' \in Seq(Cells) /\ watermark \in 0 .. Len(bytes') /\ Len(bytes') <= Cap
        /\ Tiled(bytes', log, watermark)
        /\ \A i \in watermark + 1 .. Len(bytes') : ~Newline(bytes'[i])
    BY <1>1, <1>2 DEF TypeOK, TileInv, BookInv
  <2> QED BY <1>1, <1>2, <2>1, DieAtHead
<1>3. CASE bytes' = SubSeq(bytes, 1, watermark) /\ UNCHANGED <<watermark, idx, log>>
  <2> DEFINE b == SubSeq(bytes, 1, watermark)
  <2>1. /\ b \in Seq(Cells) /\ watermark \in 0 .. Len(b) /\ Len(b) <= Cap
        /\ Tiled(b, log, watermark)
        /\ \A i \in watermark + 1 .. Len(b) : ~Newline(b[i])
    BY Trimmed
  <2>2. bytes' = b
    BY <1>3
  <2> HIDE DEF b
  <2> QED BY <1>1, <1>3, <2>1, <2>2, DieAtHead
<1>4. ASSUME NEW c \in Contents, NEW t \in 1 .. MaxTs + 1, t > LastTs, Fits(c),
             NEW n \in 1 .. Size(c) - 1,
             bytes' = Written(watermark, SubSeq(RowCells([ts |-> t, what |-> c]), 1, n)),
             UNCHANGED <<watermark, idx, log>>
      PROVE  LogInv'
  <2> DEFINE r == [ts |-> t, what |-> c]
             b == Written(watermark, SubSeq(RowCells(r), 1, n))
  <2>1. r \in Rows /\ r.what = c
    BY DEF Rows, Times
  <2>2. bytes' = b
    BY <1>4
  <2> HIDE DEF r
  <2>3. watermark + Size(r.what) <= Cap /\ n \in 1 .. Size(r.what) - 1
    BY <1>4, <2>1 DEF Fits
  <2>4. /\ b \in Seq(Cells) /\ watermark \in 0 .. Len(b) /\ Len(b) <= Cap
        /\ Tiled(b, log, watermark)
        /\ \A i \in watermark + 1 .. Len(b) : ~Newline(b[i])
    BY <1>1, <2>1, <2>3, HalfRow
  <2> HIDE DEF b
  <2> QED BY <1>1, <1>4, <2>2, <2>4, DieAtHead
<1>5. ASSUME NEW c \in Contents, NEW t \in 1 .. MaxTs + 1, t > LastTs, Fits(c),
             Fed([ts |-> t, what |-> c], "book"), idx' \in {idx, Append(idx, watermark)}
      PROVE  LogInv'
  <2>1. /\ bytes' \in Seq(Cells) /\ Len(bytes') <= Cap /\ watermark' \in 0 .. Len(bytes')
        /\ log' \in Seq(Entries) /\ TileInv' /\ BookInv' /\ ClockInv'
        /\ flushed < watermark' /\ Append(idx, watermark) \in Seq(Offs)
    BY <1>1, <1>5, BookFed
  <2>2. TypeOK'
    BY <1>1, <1>5, <2>1 DEF TypeOK, Entries
  <2>3. flushed' <= watermark' /\ flushed' # watermark'
    <3>1. flushed \in Int /\ watermark' \in Int
      BY <2>1, LenProperties, ConstantsAssumption DEF TypeOK, NoSentinel, Offs
    <3> QED BY <1>1, <2>1, <3>1
  <2>4. SidecarInv'
    BY <1>1, <2>3 DEF SidecarInv
  <2> HIDE DEF LogInv
  <2> QED BY <1>1, <2>1, <2>2, <2>4, BookKeeps
<1> HIDE DEF LogInv
<1> QED BY <1>2, <1>3, <1>4, <1>5 DEF die

\* The sidecar is lost.
LEMMA LoseStep ==
    ASSUME LogInv, loseSidecar
    PROVE  LogInv'
<1>1. TypeOK /\ TileInv /\ BookInv /\ ClockInv
  BY DEF LogInv
<1>2. /\ family = "BOOK" /\ opened = FALSE /\ idx' = <<>> /\ flushed' = NoSentinel
      /\ UNCHANGED <<family, bytes, watermark, view, builds, opened, log, stale, got>>
  BY <1>1 DEF loseSidecar, TypeOK
<1>3. TypeOK'
  BY <1>1, <1>2 DEF TypeOK
<1>4. TileInv' /\ BookInv' /\ ClockInv'
  BY <1>1, <1>2 DEF TileInv, BookInv, ClockInv, Newline
<1>5. SidecarInv'
  <2>1. watermark \in Nat
    BY <1>1, LogShape
  <2>2. flushed' <= watermark' /\ flushed' # watermark'
    BY <1>2, <2>1 DEF NoSentinel
  <2> QED BY <1>2, <2>2 DEF SidecarInv
<1> QED BY <1>2, <1>3, <1>4, <1>5, BookKeeps

-----------------------------------------------------------------------------
(* The theorems.                                                           *)

\* At the start nothing is written.
LEMMA StartInv ==
    ASSUME Init
    PROVE  LogInv
<1>1. /\ bytes = <<>> /\ watermark = 0 /\ log = <<>> /\ builds = 0 /\ opened = FALSE
      /\ stale = {} /\ family \in {"ULOG", "HUNK", "BOOK"}
      /\ idx = <<>> /\ flushed = NoSentinel
      /\ view = [v \in Views |-> NoView] /\ got = [v \in Views |-> NoRow]
  BY DEF Init
<1>2. Len(bytes) = 0 /\ Len(log) = 0 /\ 1 .. 0 = {} /\ 0 + 1 .. 0 = {} /\ ~(0 < 0)
  BY <1>1
<1>3. NoView \in ViewType /\ NoView.read = -1
  <2>1. -1 \in -1 .. Cap
    BY ConstantsAssumption
  <2> QED BY <2>1 DEF NoView, ViewType
<1>4. view \in [Views -> ViewType] /\ got \in [Views -> Rows \cup {NoRow}]
  BY <1>1, <1>3
<1>5. 0 \in 0 .. MaxBuilds /\ 0 <= Cap /\ 0 \in 0 .. 0
  BY ConstantsAssumption
<1>6. TypeOK
  <2>1. /\ bytes \in Seq(Cells) /\ log \in Seq([row : Rows, at : Offs, by : Views \cup {"book"}])
    BY <1>1
  <2>2. watermark \in 0 .. Len(bytes) /\ Len(bytes) <= Cap /\ builds \in 0 .. MaxBuilds
    BY <1>1, <1>2, <1>5
  <2>3. /\ opened \in BOOLEAN /\ (opened => family = "BOOK") /\ stale \subseteq Views
        /\ family \in {"ULOG", "HUNK", "BOOK"}
    BY <1>1
  <2>4. idx \in Seq(Offs) /\ flushed \in {NoSentinel} \cup Offs
    BY <1>1
  <2> QED BY <1>4, <2>1, <2>2, <2>3, <2>4 DEF TypeOK, ViewType
<1>7. TileInv
  <2>1. After(log, watermark, 0) = 0
    BY <1>1, <1>2 DEF After
  <2> QED BY <1>2, <2>1 DEF TileInv, Tiled
<1>8. BookInv /\ ClockInv /\ Ascending
  BY <1>1, <1>2 DEF BookInv, ClockInv, Ascending
<1>9. CursorOnRow
  <2>1. \A v \in Views : ~(view[v].read >= 0)
    BY <1>1, <1>3
  <2> QED BY <2>1 DEF CursorOnRow
<1>10. SidecarInv
  BY <1>1 DEF SidecarInv, NoSentinel
<1> QED BY <1>6, <1>7, <1>8, <1>9, <1>10 DEF LogInv

\* Every operation keeps the invariant.
LEMMA StepInv ==
    ASSUME LogInv, [Next]_vars
    PROVE  LogInv'
<1>1. CASE UNCHANGED vars
  BY <1>1 DEF vars, book, LogInv, TypeOK, TileInv, BookInv, SidecarInv, Offsets, ClockInv,
              Ascending, CursorOnRow, JS, Drains, RowAt, Newline
<1>2. ASSUME NEW v \in Views, build(v) PROVE LogInv'
  BY <1>2, BuildStep
<1>3. ASSUME NEW v \in Views, HunkNext(v) PROVE LogInv'
  BY <1>3, RewindStep, NextStep, FeedHunkStep DEF HunkNext
<1>4. ASSUME NEW v \in Views, UlogNext(v) PROVE LogInv'
  <2>1. ASSUME NEW off \in KnownOffs(v), seek(v, off) PROVE LogInv'
    <3>1. off \in Nat
      BY KnownShape DEF LogInv
    <3> QED BY <2>1, <3>1, SeekStep
  <2> QED BY <1>4, <2>1, RewindStep, NextStep, SeekByStep, FeedStep DEF UlogNext
<1>5. ASSUME NEW c \in Contents, NEW t \in 1 .. MaxTs + 1, append(c, t) PROVE LogInv'
  BY <1>5, AppendStep
<1> QED BY <1>1, <1>2, <1>3, <1>4, <1>5, OpenStep, CloseStep, DieStep, LoseStep
    DEF Next

\* The log's bytes, cursors and clocks are always well formed.
THEOREM LogsTyped == Spec => []TypeOK
<1>1. Init => LogInv
  BY StartInv
<1>2. LogInv /\ [Next]_vars => LogInv'
  BY StepInv
<1>3. LogInv => TypeOK
  BY DEF LogInv
<1> QED BY <1>1, <1>2, <1>3, PTL DEF Spec

\* feed() and ULOGAppendAt never stamp a row with a time that is not later than
\* the one before it from the same source, whatever times callers ask for,
\* whichever feeds fail and however often the booked log is opened.
THEOREM ClocksAscend == Spec => []Ascending
<1>1. Init => LogInv
  BY StartInv
<1>2. LogInv /\ [Next]_vars => LogInv'
  BY StepInv
<1>3. LogInv => Ascending
  BY DEF LogInv
<1> QED BY <1>1, <1>2, <1>3, PTL DEF Spec

\* JABCulogScan answers the nearest matching row, in both directions, from
\* every offset, and -1 exactly when there is none.
THEOREM SeeksAreExact == Spec => []SeekExact
<1>1. Init => LogInv
  BY StartInv
<1>2. LogInv /\ [Next]_vars => LogInv'
  BY StepInv
<1>3. LogInv => SeekExact
  BY SeekIsExact DEF LogInv
<1> QED BY <1>1, <1>2, <1>3, PTL DEF Spec

\* A view's cursor stays on the row it delivered, whatever is fed through any
\* view, until the buffer is built over again; next() goes on right after it.
THEOREM CursorsStayOnRows == Spec => []CursorOnRow
<1>1. Init => LogInv
  BY StartInv
<1>2. LogInv /\ [Next]_vars => LogInv'
  BY StepInv
<1>3. LogInv => CursorOnRow
  BY DEF LogInv
<1> QED BY <1>1, <1>2, <1>3, PTL DEF Spec

\* An open booked log gives back, through its sidecar, exactly the rows that
\* were appended, after any number of openings and of deaths in the middle of a
\* row, between a row and its entry or before the sentinel is flushed.
THEOREM AcknowledgedRowsSurvive == Spec => []AckedSurvive
<1>1. Init => LogInv
  BY StartInv
<1>2. LogInv /\ [Next]_vars => LogInv'
  BY StepInv
<1>3. LogInv => AckedSurvive
  <2> SUFFICES ASSUME LogInv, opened PROVE BookRows = [i \in 1 .. Len(log) |-> log[i].row]
    BY DEF AckedSurvive
  <2>1. TypeOK /\ TileInv /\ idx = Offsets
    BY DEF LogInv, SidecarInv, TypeOK
  <2> QED BY <2>1, BookRowsAre
<1> QED BY <1>1, <1>2, <1>3, PTL DEF Spec
=============================================================================
