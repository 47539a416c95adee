---------------------------- MODULE Clients_proofs ---------------------------
(***************************************************************************)
(* Proofs about the three clients of the event loop, the TCP socket, the   *)
(* timer wheel and the directory watcher: for every buffer size and any    *)
(* amount of data; for any number of timers, any delays and any resolution *)
(* of the clock; for any directories and names and any size of the two     *)
(* queues.                                                                 *)
(***************************************************************************)
EXTENDS Socket, Timers, Fsw, SequenceTheorems, TLAPS

-----------------------------------------------------------------------------
(***************************************************************************)
(* The socket.                                                             *)
(***************************************************************************)

\* The bounds of the buffers follow from the totals: what is buffered was
\* written, what is queued was sent.
TypeInv == TypeOK /\ wb <= written /\ rx <= got

\* One step of the whole system keeps the types.
LEMMA TypeStep == TypeInv /\ [Next]_vars => TypeInv'
<1> SUFFICES ASSUME TypeInv, [Next]_vars PROVE TypeInv'
  OBVIOUS
<1> USE ConstantsAssumption DEF TypeInv, TypeOK, polIN, polOUT, sock, reg, kernel
<1>1. CASE write
  BY <1>1 DEF write, MoreOut
<1>2. CASE end
  BY <1>2 DEF end, MoreOut
<1>3. CASE destroy
  BY <1>3 DEF destroy
<1>4. CASE throw
  BY <1>4 DEF throw, LoopBreaks
<1>5. CASE poll
  <2>1. \A r \in {Ready} \cup BareHup \cup Spurious : r \subseteq {"IN", "OUT", "ERR", "HUP", "NVAL"}
    BY DEF Ready, BareHup, Spurious
  <2> QED BY <1>5, <2>1 DEF poll
<1>6. CASE afterError
  BY <1>6 DEF afterError
<1>7. CASE send
  <2>1. \/ UNCHANGED <<wb, tx>>
        \/ \E n \in 1 .. wb : tx + n <= SndBuf /\ wb' = wb - n /\ tx' = tx + n
    BY <1>7 DEF send, Unsent
  <2>2. wb' \in 0 .. MaxOut /\ wb' <= written /\ tx' \in 0 .. SndBuf
    BY <2>1
  <2>3. /\ pc' \in {"flush", "in", "dead"}
        /\ rev' \in {rev, {}} /\ mask' \in {mask, {}} /\ tracked' \in BOOLEAN
        /\ UNCHANGED <<readEnded, ending, wrShut, closed, rx, rxFin, txFin, rst,
                       got, written, destroyed>>
    BY <1>7 DEF send, LoopBreaks
  <2> QED BY <2>2, <2>3
<1>8. CASE flushed
  BY <1>8 DEF flushed
<1>9. CASE afterDrain
  BY <1>9 DEF afterDrain, FinDue
<1>10. CASE recv
  <2>1. UNCHANGED rx \/ \E n \in 1 .. rx : rx' = rx - n
    BY <1>10 DEF recv, readEnd
  <2>2. rx' \in 0 .. MaxIn /\ rx' <= got
    BY <2>1
  <2>3. /\ pc' \in {"data", "end", "mask", "dead"}
        /\ readEnded' \in BOOLEAN
        /\ rev' \in {rev, {}} /\ mask' \in {mask, {}} /\ tracked' \in BOOLEAN
        /\ UNCHANGED <<wb, ending, wrShut, closed, rxFin, tx, txFin, rst, got,
                       written, destroyed>>
    BY <1>10 DEF recv, readEnd, LoopBreaks
  <2> QED BY <2>2, <2>3
<1>11. CASE afterData
  BY <1>11 DEF afterData
<1>12. CASE afterEnd
  BY <1>12 DEF afterEnd, MoreOut
<1>13. CASE returnMask
  BY <1>13 DEF returnMask, Wanted
<1>14. CASE PeerReads
  BY <1>14 DEF PeerReads
<1>15. CASE PeerSends
  BY <1>15 DEF PeerSends
<1>16. CASE PeerFin
  BY <1>16 DEF PeerFin
<1>17. CASE PeerReset
  BY <1>17 DEF PeerReset
<1>18. CASE UNCHANGED vars
  BY <1>18 DEF vars
<1> QED
  BY <1>1, <1>2, <1>3, <1>4, <1>5, <1>6, <1>7, <1>8, <1>9, <1>10, <1>11,
     <1>12, <1>13, <1>14, <1>15, <1>16, <1>17, <1>18
     DEF Next, User, Handler, Net

\* A fresh socket is well typed.
LEMMA InitTypes == Init => TypeInv
<1> SUFFICES ASSUME Init PROVE TypeInv
  OBVIOUS
<1>1. mask \subseteq {polIN, polOUT} /\ rev = {}
  BY DEF Init
<1>2. wb = 0 /\ written = 0 /\ rx = 0 /\ got = 0 /\ tx = 0 /\ pc = "idle"
  BY DEF Init
<1>3. /\ readEnded \in BOOLEAN /\ ending \in BOOLEAN /\ wrShut \in BOOLEAN
      /\ closed \in BOOLEAN /\ tracked \in BOOLEAN /\ destroyed \in BOOLEAN
      /\ rxFin \in BOOLEAN /\ txFin \in BOOLEAN /\ rst \in BOOLEAN
  BY DEF Init
<1> QED
  BY <1>1, <1>2, <1>3, ConstantsAssumption DEF TypeInv, TypeOK

\* The variables of a Socket and of its kernel half keep their types.
THEOREM TypeCorrect == Spec => []TypeOK
<1>2. TypeInv => TypeOK
  BY DEF TypeInv
<1> QED
  BY <1>2, InitTypes, TypeStep, PTL DEF Spec

-----------------------------------------------------------------------------
(* The parts of the inductive invariant.                                    *)

\* Our FIN: it was asked for and nothing is left to send; and in 'drain', once
\* end() has been called, nothing may be added.
FinInv ==
    /\ txFin => ending /\ wb = 0
    /\ pc = "drain" /\ ending /\ ~closed => wb = 0

\* The peer's FIN: the read side ends after the last byte, whether recv or a
\* bare hang-up tells.
EofInv ==
    /\ readEnded /\ ~rst => rxFin /\ rx = 0
    /\ "HUP" \in rev /\ polIN \notin rev /\ ~rst => rxFin /\ rx = 0
    /\ pc = "end" => readEnded

\* Closing: an error is a reset or a descriptor already closed, and the FIN
\* that _wrShut stands for was really sent.
CloseInv ==
    /\ pc = "error" => rst \/ closed
    /\ wrShut => txFin \/ closed
    /\ GracefulClose

\* No step of the socket or of the kernel loses a wake-up.
LEMMA WakeStep ==
    ASSUME TypeInv, NoLostWakeup, [Next]_vars
    PROVE  NoLostWakeup'
<1> USE DEF NoLostWakeup, TypeInv, TypeOK, FinDue, sock, reg, kernel
<1>1. CASE write
  BY <1>1 DEF write, Calling, MoreOut
<1>2. CASE end
  BY <1>2 DEF end, Calling, MoreOut
<1>3. CASE destroy
  BY <1>3 DEF destroy, Calling
<1>4. CASE throw
  BY <1>4 DEF throw, LoopBreaks
<1>5. CASE poll
  BY <1>5 DEF poll
<1>6. CASE afterError
  BY <1>6 DEF afterError
<1>7. CASE send
  BY <1>7 DEF send, LoopBreaks
<1>8. CASE flushed
  BY <1>8 DEF flushed
<1>9. CASE afterDrain
  BY <1>9 DEF afterDrain
<1>10. CASE recv
  BY <1>10 DEF recv, readEnd, LoopBreaks, HupEnds
<1>11. CASE afterData
  BY <1>11 DEF afterData
<1>12. CASE afterEnd
  BY <1>12 DEF afterEnd, MoreOut
<1>13. CASE returnMask
  BY <1>13 DEF returnMask, Wanted, BothDone
<1>14. CASE Net
  BY <1>14 DEF Net, PeerReads, PeerSends, PeerFin, PeerReset
<1>15. CASE UNCHANGED vars
  BY <1>15 DEF vars
<1> QED
  BY <1>1, <1>2, <1>3, <1>4, <1>5, <1>6, <1>7, <1>8, <1>9,
     <1>10, <1>11, <1>12, <1>13, <1>14, <1>15
     DEF Next, User, Handler

\* A step sends the FIN only behind all the data.
LEMMA FinStep ==
    ASSUME NoEndInDrain, TypeInv, FinInv, [Next]_vars
    PROVE  FinInv'
<1> USE DEF FinInv, TypeInv, TypeOK, FinDue, sock, reg, kernel
<1>1. CASE write
  BY <1>1 DEF write, Calling, MoreOut
<1>2. CASE end
  BY <1>2 DEF end, Calling, MoreOut, NoEndInDrain
<1>3. CASE destroy
  BY <1>3 DEF destroy, Calling
<1>4. CASE throw
  BY <1>4 DEF throw, LoopBreaks
<1>5. CASE poll
  BY <1>5 DEF poll
<1>6. CASE afterError
  BY <1>6 DEF afterError
<1>7. CASE send
  BY <1>7 DEF send, LoopBreaks
<1>8. CASE flushed
  BY <1>8 DEF flushed
<1>9. CASE afterDrain
  BY <1>9 DEF afterDrain
<1>10. CASE recv
  BY <1>10 DEF recv, readEnd, LoopBreaks, HupEnds
<1>11. CASE afterData
  BY <1>11 DEF afterData
<1>12. CASE afterEnd
  BY <1>12 DEF afterEnd, MoreOut
<1>13. CASE returnMask
  BY <1>13 DEF returnMask, Wanted, BothDone
<1>14. CASE Net
  BY <1>14 DEF Net, PeerReads, PeerSends, PeerFin, PeerReset
<1>15. CASE UNCHANGED vars
  BY <1>15 DEF vars
<1> QED
  BY <1>1, <1>2, <1>3, <1>4, <1>5, <1>6, <1>7, <1>8, <1>9,
     <1>10, <1>11, <1>12, <1>13, <1>14, <1>15
     DEF Next, User, Handler

\* A step takes the read side for ended only behind all the input.
LEMMA EofStep ==
    ASSUME TypeInv, NoLostWakeup, EofInv, [Next]_vars
    PROVE  EofInv'
<1> USE DEF EofInv, TypeInv, TypeOK, FinDue, sock, reg, kernel
<1>1. CASE write
  BY <1>1 DEF write, Calling, MoreOut
<1>2. CASE end
  BY <1>2 DEF end, Calling, MoreOut
<1>3. CASE destroy
  BY <1>3 DEF destroy, Calling
<1>4. CASE throw
  BY <1>4 DEF throw, LoopBreaks
<1>5. CASE poll
  BY <1>5 DEF poll, Ready, BareHup, Spurious, NoLostWakeup, polIN, polOUT
<1>6. CASE afterError
  BY <1>6 DEF afterError
<1>7. CASE send
  BY <1>7 DEF send, LoopBreaks
<1>8. CASE flushed
  BY <1>8 DEF flushed
<1>9. CASE afterDrain
  BY <1>9 DEF afterDrain
<1>10. CASE recv
  BY <1>10 DEF recv, readEnd, LoopBreaks, HupEnds
<1>11. CASE afterData
  BY <1>11 DEF afterData
<1>12. CASE afterEnd
  BY <1>12 DEF afterEnd, MoreOut
<1>13. CASE returnMask
  BY <1>13 DEF returnMask, Wanted, BothDone
<1>14. CASE Net
  BY <1>14 DEF Net, PeerReads, PeerSends, PeerFin, PeerReset
<1>15. CASE UNCHANGED vars
  BY <1>15 DEF vars
<1> QED
  BY <1>1, <1>2, <1>3, <1>4, <1>5, <1>6, <1>7, <1>8, <1>9,
     <1>10, <1>11, <1>12, <1>13, <1>14, <1>15
     DEF Next, User, Handler

\* A step closes the fd only when both sides are done, or torn down.
LEMMA CloseStep ==
    ASSUME TypeInv, NoLostWakeup, FinInv, EofInv, CloseInv, [Next]_vars
    PROVE  CloseInv'
<1> USE DEF CloseInv, GracefulClose, TypeInv, TypeOK, FinDue, sock, reg, kernel
<1>1. CASE write
  BY <1>1 DEF write, Calling, MoreOut
<1>2. CASE end
  BY <1>2 DEF end, Calling, MoreOut
<1>3. CASE destroy
  BY <1>3 DEF destroy, Calling
<1>4. CASE throw
  BY <1>4 DEF throw, LoopBreaks
<1>5. CASE poll
  BY <1>5 DEF poll, Ready, BareHup, Spurious, polIN, polOUT
<1>6. CASE afterError
  BY <1>6 DEF afterError
<1>7. CASE send
  BY <1>7 DEF send, LoopBreaks
<1>8. CASE flushed
  BY <1>8 DEF flushed
<1>9. CASE afterDrain
  BY <1>9 DEF afterDrain
<1>10. CASE recv
  BY <1>10 DEF recv, readEnd, LoopBreaks, HupEnds
<1>11. CASE afterData
  BY <1>11 DEF afterData
<1>12. CASE afterEnd
  BY <1>12 DEF afterEnd, MoreOut
<1>13. CASE returnMask
  BY <1>13 DEF FinInv, EofInv, returnMask, Wanted, BothDone
<1>14. CASE Net
  BY <1>14 DEF Net, PeerReads, PeerSends, PeerFin, PeerReset
<1>15. CASE UNCHANGED vars
  BY <1>15 DEF vars
<1> QED
  BY <1>1, <1>2, <1>3, <1>4, <1>5, <1>6, <1>7, <1>8, <1>9,
     <1>10, <1>11, <1>12, <1>13, <1>14, <1>15
     DEF Next, User, Handler


\* All of it holds of a fresh socket.
LEMMA InitInv == Init => TypeInv /\ NoLostWakeup /\ FinInv /\ EofInv /\ CloseInv
<1> SUFFICES ASSUME Init
             PROVE  TypeInv /\ NoLostWakeup /\ FinInv /\ EofInv /\ CloseInv
  OBVIOUS
<1>1. TypeInv
  BY InitTypes
<1>2. NoLostWakeup
  BY DEF Init, NoLostWakeup, FinDue
<1>3. FinInv /\ EofInv /\ CloseInv
  BY DEF Init, FinInv, EofInv, CloseInv, GracefulClose
<1> QED BY <1>1, <1>2, <1>3

-----------------------------------------------------------------------------

\* For every program, the mask the loop polls with asks for everything an open
\* socket still has to do (Socket._mask, write and end).
THEOREM WakeupsKept == Spec => []NoLostWakeup
<1>1. TypeInv /\ NoLostWakeup /\ [Next]_vars => (TypeInv /\ NoLostWakeup)'
  BY TypeStep, WakeStep
<1> QED
  BY <1>1, InitInv, PTL DEF Spec

\* 'end' is never emitted before the input is exhausted, for every program.
THEOREM EndAfterInput == Spec => []DataBeforeEnd
<1>1. TypeInv /\ NoLostWakeup /\ EofInv /\ [Next]_vars
        => (TypeInv /\ NoLostWakeup /\ EofInv)'
  BY TypeStep, WakeStep, EofStep
<1>2. EofInv => DataBeforeEnd
  BY DEF EofInv, DataBeforeEnd
<1> QED
  BY <1>1, <1>2, InitInv, PTL DEF Spec

\* The whole inductive invariant, for programs that do not call end() from a
\* 'drain' handler.
FullInv == TypeInv /\ NoLostWakeup /\ FinInv /\ EofInv /\ CloseInv

\* The whole invariant, for a program that does not call end() in 'drain'.
LEMMA FullInvHolds == ASSUME NoEndInDrain PROVE Spec => []FullInv
<1>1. FullInv /\ [Next]_vars => FullInv'
  BY TypeStep, WakeStep, FinStep, EofStep, CloseStep DEF FullInv
<1>2. Init => FullInv
  BY InitInv DEF FullInv
<1> QED
  BY <1>1, <1>2, PTL DEF Spec

\* If no 'drain' handler calls end(), our FIN follows everything write()
\* accepted.
THEOREM FinInOrder == ASSUME NoEndInDrain PROVE Spec => []FinAfterData
<1>1. FullInv => FinAfterData
  BY DEF FullInv, FinInv, FinAfterData
<1> QED
  BY <1>1, FullInvHolds, PTL

\* If no 'drain' handler calls end(), a connection neither destroyed nor reset
\* closes only after both directions are complete.
THEOREM ClosesGracefully == ASSUME NoEndInDrain PROVE Spec => []GracefulClose
<1>1. FullInv => GracefulClose
  BY DEF FullInv, CloseInv
<1> QED
  BY <1>1, FullInvHolds, PTL

-----------------------------------------------------------------------------

\* Every step of the socket is a step of the Stream it stands for, or no step
\* of it at all.
LEMMA StreamStep ==
    ASSUME FullInv, FullInv', [Next]_vars
    PROVE  [Promise!Next]_Promise!vars
<1> USE DEF FullInv, TypeInv, TypeOK, sock, kernel, Promise!vars
<1>1. CASE write
  BY <1>1 DEF write, Promise!Next, Promise!Accept
<1>2. CASE end \/ afterEnd
  BY <1>2 DEF end, afterEnd, Promise!Next, Promise!End
<1>3. CASE destroy
  BY <1>3 DEF destroy, Promise!Next, Promise!Destroy
<1>4. CASE throw \/ poll \/ flushed \/ afterData
  BY <1>4 DEF throw, poll, flushed, afterData
<1>5. CASE afterError
  BY <1>5 DEF afterError, CloseInv, Promise!Next, Promise!Close
<1>6. CASE send
  <2>1. CASE UNCHANGED wb
    BY <1>6, <2>1 DEF send
  <2>2. CASE wb' # wb
    <3>1. PICK n \in 1 .. wb : wb' = wb - n /\ ~closed /\ ~txFin
      BY <1>6, <2>2 DEF send, Unsent
    <3>2. written - wb' \in (written - wb) + 1 .. written
      BY <3>1
    <3> QED BY <1>6, <3>1, <3>2 DEF send, Promise!Next, Promise!Transmit
  <2> QED BY <2>1, <2>2
<1>7. CASE afterDrain
  BY <1>7 DEF afterDrain, FinDue, FinInv, Promise!Next, Promise!Finish
<1>8. CASE recv
  BY <1>8 DEF recv, readEnd, Promise!Next, Promise!PeerEnds
<1>9. CASE returnMask
  BY <1>9 DEF returnMask, BothDone, CloseInv, Promise!Next, Promise!Close
<1>10. CASE PeerReads \/ PeerSends \/ PeerFin
  BY <1>10 DEF PeerReads, PeerSends, PeerFin
<1>11. CASE PeerReset
  BY <1>11 DEF PeerReset, Promise!Next, Promise!Reset
<1>12. CASE UNCHANGED vars
  BY <1>12 DEF vars
<1> QED
  BY <1>1, <1>2, <1>3, <1>4, <1>5, <1>6, <1>7, <1>8, <1>9, <1>10, <1>11, <1>12
     DEF Next, User, Handler, Net

\* If no 'drain' handler calls end(), the Socket implements the Stream.
THEOREM SocketImplementsStream ==
    ASSUME NoEndInDrain PROVE Spec => ImplementsStream
<1>1. Init => Promise!Init
  BY DEF Init, Promise!Init
<1>2. FullInv /\ FullInv' /\ [Next]_vars => [Promise!Next]_Promise!vars
  BY StreamStep
<1> QED
  BY <1>1, <1>2, FullInvHolds, PTL DEF Spec, ImplementsStream, Promise!Spec

-----------------------------------------------------------------------------
(***************************************************************************)
(* The wheel.  Three pieces of state say that a timer is armed: twOn of    *)
(* net.cpp, the `timer' variable of pol's bundle and the entry in POL's    *)
(* heap.  No call looks at all three; the invariant is that they agree.    *)
(***************************************************************************)

\* Ids are given out in order: whatever is known of an id, it was given out.
IdsInv == Live \cup cleared \cup spent \cup batch \subseteq 1 .. twId - 1

\* What a tick has still to call was not called before.
BatchInv == batch \cap spent = {}

\* The three agree, and nothing in the wheel is so far away that POL would
\* remove the timer for it.
HandsInv ==
    upset = "no" =>
        /\ \/ twOn /\ timer = "wheel" /\ polLeft # None
           \/ ~twOn /\ timer = "none" /\ polLeft = None
        /\ turn # "usercb"
        /\ turn \in {"tick", "cb"} \/ Live # {} => twOn
        /\ \A i \in Live :
              /\ ~TooLong(tw[i].due)
              /\ tw[i].period > 0 => ~TooLong(tw[i].period)

TimersInv ==
    WheelTypeOK /\ IdsInv /\ BatchInv /\ DeadStayDead /\ HandsInv /\ WheelArmed

Entry == [due : Int, period : Nat]

-----------------------------------------------------------------------------
(* The two conversions of time.                                            *)

\* Rounding up to milliseconds, at least one, adds less than a millisecond
\* to what is left of a timer.
LEMMA CeilBound ==
    ASSUME NEW t \in Int
    PROVE  /\ AtLeast1(CeilMs(t)) \in Nat /\ AtLeast1(CeilMs(t)) >= 1
           /\ AtLeast1(CeilMs(t)) * MS \in Nat
           /\ AtLeast1(CeilMs(t)) * MS <= MaxOf0(t) + MS
<1> DEFINE q == (t + MS - 1) \div MS
<1>1. MS \in Nat /\ MS > 0
  BY WheelAssumption
<1>2. q \in Int /\ MS * q <= t + MS - 1
  BY <1>1
<1> QED BY <1>1, <1>2 DEF AtLeast1, CeilMs, MaxOf0

\* `| 0' leaves a number below 2^31 as it is, and makes a number of any other.
LEMMA Int32Small ==
    ASSUME NEW n \in Nat
    PROVE  /\ Int32(n) \in Int
           /\ n < MaxInt => Int32(n) = n
<1>1. MaxInt \in Nat /\ MaxInt > 0
  BY WheelAssumption
<1>2. n % (2 * MaxInt) \in Int
  BY <1>1
<1>3. n < MaxInt => n % (2 * MaxInt) = n
  BY <1>1
<1> QED BY <1>1, <1>2, <1>3 DEF Int32

\* A delay that is not too long is well below 2^31 milliseconds.
LEMMA ShortFits ==
    ASSUME NEW t \in Nat, ~TooLong(t)
    PROVE  t \div MS \in Nat /\ t \div MS < MaxInt
<1> DEFINE q == t \div MS
           c == (t + MS - 1) \div MS
<1>1. MS \in Nat /\ MS > 0 /\ HOUR \in Nat /\ MaxInt \in Nat /\ HOUR < MaxInt
  BY WheelAssumption
<1>2. /\ q \in Nat /\ MS * q <= t
      /\ c \in Int /\ t + MS - 1 < MS * c + MS
  BY <1>1
<1>3. q <= c
  <2> HIDE DEF q, c
  <2> SUFFICES ASSUME q >= c + 1 PROVE FALSE
    BY <1>2
  <2>1. MS * q >= MS * (c + 1)
    BY <1>1, <1>2
  <2>2. MS * (c + 1) = MS * c + MS
    BY <1>1, <1>2
  <2> QED BY <1>1, <1>2, <2>1, <2>2
<1>4. ~(AtLeast1(c) >= HOUR)
  BY DEF TooLong, CeilMs
<1> HIDE DEF q, c
<1>5. q < MaxInt
  BY <1>1, <1>2, <1>3, <1>4 DEF AtLeast1
<1> QED BY <1>2, <1>5 DEF q

\* The ticks twArm asks POL for: a number, and for a delay that is not too long
\* at most a millisecond past it.
LEMMA TruncBound ==
    ASSUME NEW t \in Nat, NEW n \in Ticks(TruncMs(t))
    PROVE  n \in Nat /\ (~TooLong(t) => n <= t + MS)
<1> DEFINE q == t \div MS
<1>1. MS \in Nat /\ MS > 0 /\ MaxInt \in Nat
  BY WheelAssumption
<1>2. q \in Nat /\ MS * q <= t
  BY <1>1
<1> HIDE DEF q
<1>3. Int32(q) \in Int
  BY <1>2, Int32Small
<1>4. CASE t < MS
  BY <1>1, <1>4 DEF TruncMs, Ticks
<1>5. CASE ~(t < MS)
  <2>1. TruncMs(t) = Int32(q)
    BY <1>5 DEF TruncMs, q
  <2>2. n \in Nat
    BY <1>1, <1>3, <2>1 DEF Ticks
  <2>3. ASSUME ~TooLong(t) PROVE n <= t + MS
    <3>1. q < MaxInt
      BY <2>3, ShortFits DEF q
    <3>2. Int32(q) = q
      BY <1>2, <3>1, Int32Small
    <3>3. n = q * MS
      BY <1>2, <2>1, <3>2 DEF Ticks
    <3> QED BY <1>1, <1>2, <3>3
  <2> QED BY <2>2, <2>3
<1> QED BY <1>4, <1>5

\* A timer that comes nearer does not become too long.
LEMMA NearerNotLong ==
    ASSUME NEW a \in Int, NEW b \in Int, a <= b, ~TooLong(b)
    PROVE  ~TooLong(a)
<1> DEFINE p == (a + MS - 1) \div MS
           q == (b + MS - 1) \div MS
<1>1. MS \in Nat /\ MS > 0 /\ HOUR \in Nat
  BY WheelAssumption
<1>2. /\ p \in Int /\ MS * p <= a + MS - 1
      /\ q \in Int /\ b + MS - 1 < MS * q + MS
  BY <1>1
<1>3. p <= q
  <2> HIDE DEF p, q
  <2> SUFFICES ASSUME p >= q + 1 PROVE FALSE
    BY <1>2
  <2>1. MS * p >= MS * (q + 1)
    BY <1>1, <1>2
  <2>2. MS * (q + 1) = MS * q + MS
    BY <1>1, <1>2
  <2> QED BY <1>1, <1>2, <2>1, <2>2
<1> QED BY <1>1, <1>2, <1>3 DEF TooLong, AtLeast1, CeilMs

-----------------------------------------------------------------------------
(* What the operations make of the wheel.                                  *)

\* A timer enters under the next id, and the others stay.
LEMMA EnteredTable ==
    ASSUME WheelTypeOK, NEW d \in Int, NEW p \in Nat, twId \in Ids
    PROVE  /\ DOMAIN Entered(d, p) = Live \cup {twId}
           /\ Entered(d, p) \in [Live \cup {twId} -> Entry]
           /\ Entered(d, p)[twId] = [due |-> d, period |-> p]
           /\ \A i \in Live : i # twId => Entered(d, p)[i] = tw[i]
BY DEF WheelTypeOK, Entered, Entry

\* An entry leaves.
LEMMA DeletedTable ==
    ASSUME WheelTypeOK, NEW i
    PROVE  LET t == [j \in Live \ {i} |-> tw[j]] IN
             /\ DOMAIN t = Live \ {i}
             /\ t \in [Live \ {i} -> Entry]
             /\ \A j \in Live \ {i} : t[j] = tw[j]
BY DEF WheelTypeOK, Entry

\* A call of i: an interval is due in a period, a one-shot is gone, and the
\* orphan of a timer cleared meanwhile changes nothing.
LEMMA RearmedTable ==
    ASSUME WheelTypeOK, NEW i \in Ids
    PROVE  /\ DOMAIN Rearmed(i) = IF i \in Live /\ tw[i].period = 0
                                  THEN Live \ {i} ELSE Live
           /\ Rearmed(i) \in [DOMAIN Rearmed(i) -> Entry]
           /\ \A j \in DOMAIN Rearmed(i) :
                 /\ Rearmed(i)[j].period = tw[j].period
                 /\ \/ Rearmed(i)[j].due = tw[j].due
                    \/ /\ tw[j].period > 0
                       /\ Rearmed(i)[j].due = tw[j].period
<1>1. CASE i \notin Live
  BY <1>1 DEF WheelTypeOK, Rearmed, Entry, Live
<1>2. CASE i \in Live /\ tw[i].period > 0
  <2>1. tw[i] \in Entry /\ tw[i].period \in Nat /\ tw[i].period # 0
    BY <1>2 DEF WheelTypeOK, Entry
  <2>2. Rearmed(i) = [tw EXCEPT ![i].due = tw[i].period]
    BY <1>2 DEF Rearmed
  <2>3. DOMAIN Rearmed(i) = Live
    BY <2>2 DEF Live
  <2>4. Rearmed(i) \in [Live -> Entry]
    <3>1. tw \in [Live -> Entry]
      BY DEF WheelTypeOK, Entry
    <3>2. [tw[i] EXCEPT !.due = tw[i].period] \in Entry
      BY <2>1 DEF Entry
    <3> QED BY <2>2, <3>1, <3>2
  <2>5. \A j \in Live : /\ Rearmed(i)[j].period = tw[j].period
                        /\ j # i => Rearmed(i)[j].due = tw[j].due
                        /\ j = i => Rearmed(i)[j].due = tw[i].period
    BY <1>2, <2>1, <2>2 DEF WheelTypeOK, Entry
  <2> QED BY <1>2, <2>1, <2>3, <2>4, <2>5
<1>3. CASE i \in Live /\ ~(tw[i].period > 0)
  <2>1. tw[i].period = 0
    BY <1>3 DEF WheelTypeOK
  <2>2. Rearmed(i) = [j \in Live \ {i} |-> tw[j]]
    BY <1>3 DEF Rearmed
  <2> QED BY <1>3, <2>1, <2>2, DeletedTable
<1> QED BY <1>1, <1>2, <1>3

\* Time passes: every timer is nearer by at most a tick.
Aged == [i \in Live |->
            [tw[i] EXCEPT !.due = IF @ > -MaxLate THEN @ - 1 ELSE @]]

\* What is left of the table when time has passed.
LEMMA AgedTable ==
    ASSUME WheelTypeOK
    PROVE  /\ DOMAIN Aged = Live /\ Aged \in [Live -> Entry]
           /\ \A i \in Live :
                 /\ Aged[i].period = tw[i].period
                 /\ Aged[i].due \in {tw[i].due, tw[i].due - 1}
                 /\ tw[i].due > 0 => Aged[i].due = tw[i].due - 1
<1>1. MaxLate \in Nat
  BY WheelAssumption
<1>2. \A i \in Live : tw[i] \in Entry
  BY DEF WheelTypeOK, Entry
<1>3. ASSUME NEW i \in Live
      PROVE  /\ Aged[i] \in Entry /\ Aged[i].period = tw[i].period
             /\ Aged[i].due = IF tw[i].due > -MaxLate
                              THEN tw[i].due - 1 ELSE tw[i].due
  BY <1>1, <1>2 DEF Aged, Entry
<1> QED BY <1>1, <1>2, <1>3 DEF Aged, Entry

\* What is left to POL's deadline is a number of ticks or None.
LEMMA LeftTypes ==
    ASSUME NEW left \in Nat \cup {None}, NEW ms \in Nat
    PROVE  /\ Rescheduled(left, ms) \in Nat \cup {None}
           /\ left # None /\ ms < HOUR => Rescheduled(left, ms) = ms * MS
<1>1. ms * MS \in Nat /\ HOUR \in Nat
  BY WheelAssumption
<1> QED BY <1>1 DEF Rescheduled, None

\* Bringing a deadline forward.
LEMMA SoonerTypes ==
    ASSUME NEW left \in Nat \cup {None}, NEW t \in Nat
    PROVE  /\ Sooner(left, t) \in Nat \cup {None}
           /\ left # None => /\ Sooner(left, t) # None
                             /\ Sooner(left, t) <= left
                             /\ Sooner(left, t) <= t
BY DEF Sooner, MinOf, None

\* setTimeout and setInterval enter a timer of d ticks and leave POL's
\* deadline, if there is one, no later than a millisecond after it, unless the
\* timer is one that POL cannot hold.
LEMMA RegisterEffect ==
    ASSUME WheelTypeOK, NEW d \in Nat, NEW p \in Nat, Register(d, p)
    PROVE  /\ polLeft' \in Nat \cup {None} /\ twOn' \in BOOLEAN
           /\ ~twOn => twOn' /\ timer' = "wheel" /\ polLeft' \in Nat
           /\ twOn => twOn' /\ timer' = timer
           /\ twOn /\ polLeft # None => /\ polLeft' \in Nat
                                        /\ polLeft' <= polLeft
           /\ (~twOn \/ polLeft # None) /\ ~TooLong(d) => polLeft' <= d + MS
<1>1. PICK t \in Ticks(TruncMs(d)) :
         \/ /\ ~twOn /\ twOn' = TRUE /\ timer' = "wheel"
            /\ ArmFresh(t)
         \/ /\ twOn /\ UNCHANGED <<twOn, timer>>
            /\ polLeft' = Sooner(polLeft, t)
  BY DEF Register, twArm
<1>2. MaxFirst \in Nat /\ MS \in Nat
  BY WheelAssumption
<1>3. t \in Nat /\ (~TooLong(d) => t <= d + MS)
  BY TruncBound
<1>5. CASE ~twOn
  <2>1. PICK first \in 0 .. MaxFirst : polLeft' = Sooner(first, t)
    BY <1>1, <1>5 DEF ArmFresh
  <2>2. first \in Nat \cup {None} /\ first # None
    BY <1>2 DEF None
  <2>3. /\ polLeft' \in Nat \cup {None} /\ polLeft' # None
        /\ polLeft' <= t
    BY <1>3, <2>1, <2>2, SoonerTypes
  <2>4. twOn' = TRUE /\ timer' = "wheel"
    BY <1>1, <1>5
  <2> QED BY <1>2, <1>3, <1>5, <2>3, <2>4
<1>6. CASE twOn
  <2>1. polLeft' = Sooner(polLeft, t)
    BY <1>1, <1>6
  <2>2. polLeft \in Nat \cup {None}
    BY DEF WheelTypeOK
  <2>3. /\ polLeft' \in Nat \cup {None}
        /\ polLeft # None => /\ polLeft' # None /\ polLeft' <= polLeft
                             /\ polLeft' <= t
    BY <1>3, <2>1, <2>2, SoonerTypes
  <2>4. twOn' = twOn /\ timer' = timer
    BY <1>1, <1>6
  <2>5. None \notin Nat
    BY DEF None
  <2> QED BY <1>2, <1>3, <1>6, <2>2, <2>3, <2>4, <2>5
<1> QED BY <1>5, <1>6 DEF WheelTypeOK

\* The delays of setTimeout and setInterval.
LEMMA WheelCalls ==
    ASSUME WheelTypeOK, NEW d \in Delays, setTimeout(d) \/ setInterval(d)
    PROVE  \E n, p \in Nat : Register(n, p) /\ (p > 0 => p = n)
<1>1. d \in Nat /\ MS \in Nat
  BY WheelAssumption
<1>2. CASE setTimeout(d)
  BY <1>1, <1>2 DEF setTimeout
<1>3. CASE setInterval(d)
  BY <1>1, <1>3 DEF setInterval
<1> QED BY <1>2, <1>3

-----------------------------------------------------------------------------
(* Types, and what is known of an id.                                      *)

Books == WheelTypeOK /\ IdsInv /\ BatchInv /\ DeadStayDead

\* Steps that do not touch the wheel.
LEMMA OtherStep ==
    ASSUME Books, UNCHANGED wheel,
           timer' \in {"none", "wheel", "user"}, polLeft' \in Nat \cup {None},
           fds' \in BOOLEAN, stopped' \in BOOLEAN,
           turn' \in {"script", "poll", "tick", "cb", "fd", "usercb", "out", "done"},
           upset' \in {"no", "long", "other"}
    PROVE  Books'
BY DEF Books, WheelTypeOK, IdsInv, BatchInv, DeadStayDead, wheel, Live

\* Steps that only take entries from the wheel, or change them, and give out
\* no id: L is what is left.
LEMMA ShrinkStep ==
    ASSUME Books, NEW L \in SUBSET Live, tw' \in [L -> Entry],
           UNCHANGED <<twId, twOn, timer, fds, stopped, upset>>,
           polLeft' \in Nat \cup {None},
           turn' \in {"script", "poll", "tick", "cb", "fd", "usercb", "out", "done"},
           batch' \subseteq batch, cur' \in Ids \cup {None},
           \/ cleared' = cleared
           \/ \E i \in Live \ L : cleared' = cleared \cup {i},
           \/ spent' = spent
           \/ \E i \in Live \ L : spent' = spent \cup {i} /\ i \notin batch'
    PROVE  Books'
<1> USE DEF Books
<1>1. Live' = L /\ L \subseteq Ids
  BY DEF WheelTypeOK, Live
<1>2. WheelTypeOK'
  BY <1>1 DEF WheelTypeOK, Entry
<1>3. IdsInv'
  BY <1>1 DEF IdsInv
<1>4. BatchInv'
  BY DEF BatchInv
<1>5. DeadStayDead'
  BY <1>1 DEF DeadStayDead
<1> QED BY <1>2, <1>3, <1>4, <1>5

\* What a handler that is done returns is a number.
LEMMA HourPlus == HOUR \in Nat /\ HOUR + 1 \in Nat /\ 1 \in Nat
BY WheelAssumption

\* A step keeps types and books: an id that was cleared or spent never comes
\* back, and none is called twice.
LEMMA BooksStep ==
    ASSUME Books, [WheelNext]_wheelVars
    PROVE  Books'
<1> USE DEF Books
<1>1. ASSUME NEW d \in Delays, setTimeout(d) \/ setInterval(d)
      PROVE  Books'
  <2>1. PICK n, p \in Nat : Register(n, p)
    BY <1>1, WheelCalls
  <2>2. /\ polLeft' \in Nat \cup {None} /\ twOn' \in BOOLEAN
        /\ timer' \in {"none", "wheel", "user"}
    BY <2>1, RegisterEffect DEF WheelTypeOK
  <2>3. twId \in Ids /\ tw' = Entered(n, p) /\ twId' = twId + 1
    BY <2>1 DEF Register, NextId
  <2>4. /\ Live' = Live \cup {twId}
        /\ tw' \in [Live \cup {twId} -> Entry]
    <3>1. n \in Int
      OBVIOUS
    <3>2. /\ DOMAIN tw' = Live \cup {twId}
          /\ tw' \in [Live \cup {twId} -> Entry]
      BY <2>3, <3>1, EnteredTable
    <3> QED BY <3>2 DEF Live
  <2>5. MaxId \in Nat
    BY WheelAssumption
  <2>6. /\ UNCHANGED <<fds, stopped, turn, batch, cur, cleared, spent>>
        /\ upset' \in {"no", "long", "other"}
    BY <2>1 DEF Register, WheelTypeOK
  <2>7. twId' \in 1 .. MaxId + 1 /\ twId \in 1 .. twId' - 1
    BY <2>3, <2>5 DEF Ids
  <2>8. WheelTypeOK'
    <3>1. Live' \subseteq Ids /\ tw' \in [Live' -> Entry]
      BY <2>3, <2>4 DEF WheelTypeOK
    <3> QED BY <2>2, <2>6, <2>7, <3>1 DEF WheelTypeOK, Entry
  <2>9. IdsInv'
    BY <2>3, <2>4, <2>6, <2>7 DEF IdsInv, WheelTypeOK
  <2>10. twId \notin 1 .. twId - 1
    BY DEF WheelTypeOK
  <2>11. BatchInv' /\ DeadStayDead'
    BY <2>4, <2>6, <2>10 DEF BatchInv, DeadStayDead, IdsInv
  <2> QED BY <2>8, <2>9, <2>11
<1>2. ASSUME NEW i \in Ids, clearTimeout(i)
      PROVE  Books'
  <2> DEFINE L == Live \ {i}
  <2>1. /\ tw' \in [L -> Entry] /\ i \in Live /\ cleared' = cleared \cup {i}
        /\ UNCHANGED <<twId, twOn, timer, polLeft, fds, stopped, turn, batch, cur,
                       spent, upset>>
    BY <1>2, DeletedTable DEF clearTimeout
  <2>2. L \in SUBSET Live /\ i \in Live \ L
    BY <2>1
  <2> HIDE DEF L
  <2> QED BY <2>1, <2>2, ShrinkStep DEF WheelTypeOK
<1>3. CASE polEvery \/ polUntimer \/ polStop \/ polInit
  <2>1. 0 .. MaxFirst \subseteq Nat
    BY WheelAssumption
  <2> QED BY <1>3, <2>1, OtherStep
          DEF polEvery, polUntimer, polStop, polInit, WheelTypeOK
<1>4. CASE run \/ LoopEnds \/ FdReady \/ FdReturns
  BY <1>4, OtherStep DEF run, LoopEnds, FdReady, FdReturns, WheelTypeOK
<1>5. CASE twTick
  <2>1. Due \subseteq Live
    BY DEF Due
  <2> QED BY <1>5, <2>1
          DEF twTick, WheelTypeOK, IdsInv, BatchInv, DeadStayDead, Live
<1>6. ASSUME NEW i \in Ids, Fire(i)
      PROVE  Books'
  <2> DEFINE L == DOMAIN Rearmed(i)
  <2>1. /\ tw' \in [L -> Entry] /\ L \in SUBSET Live
        /\ i \in Live /\ tw[i].period = 0 => i \in Live \ L
    BY <1>6, RearmedTable DEF Fire
  <2>2. /\ UNCHANGED <<twId, twOn, timer, polLeft, fds, stopped, cleared, upset>>
        /\ batch' = batch \ {i} /\ cur' = i /\ turn' = "cb"
        /\ \/ spent' = spent
           \/ i \in Live /\ tw[i].period = 0 /\ spent' = spent \cup {i}
    BY <1>6 DEF Fire
  <2> HIDE DEF L
  <2> QED BY <2>1, <2>2, ShrinkStep DEF WheelTypeOK
<1>7. CASE Returns
  BY <1>7, ShrinkStep DEF Returns, WheelTypeOK, Entry
<1>8. CASE Throws
  <2>1. Rescheduled(polLeft, HOUR) \in Nat \cup {None}
    BY LeftTypes, WheelAssumption DEF WheelTypeOK
  <2>2. /\ polLeft' \in Nat \cup {None} /\ UNCHANGED <<tw, twId, twOn, timer,
                                                       fds, cleared, spent>>
        /\ stopped' = TRUE /\ turn' = "poll" /\ upset' = "other"
        /\ batch' = {} /\ cur' = None
    BY <1>8, <2>1 DEF Throws, WheelTypeOK
  <2>3. WheelTypeOK' /\ Live' = Live
    BY <2>2 DEF WheelTypeOK, Live
  <2> QED BY <2>2, <2>3 DEF IdsInv, BatchInv, DeadStayDead
<1>9. CASE TickEmpty
  <2>1. Rescheduled(polLeft, HOUR + 1) \in Nat \cup {None}
    BY HourPlus, LeftTypes DEF WheelTypeOK
  <2> QED BY <1>9, <2>1
          DEF TickEmpty, WheelTypeOK, IdsInv, BatchInv, DeadStayDead, Live
<1>10. CASE TickAgain
  <2>1. PICK soon \in {tw[i].due : i \in Live} :
              polLeft' = Rescheduled(polLeft,
                                     Answered(Int32(AtLeast1(CeilMs(soon)))))
    BY <1>10 DEF TickAgain
  <2>2. soon \in Int
    <3>1. \A i \in Live : tw[i].due \in Int
      BY DEF WheelTypeOK
    <3> QED BY <3>1
  <2>3. Int32(AtLeast1(CeilMs(soon))) \in Int
    BY <2>2, CeilBound, Int32Small
  <2>4. Answered(Int32(AtLeast1(CeilMs(soon)))) \in Nat
    BY <2>3, WheelAssumption DEF Answered
  <2>5. polLeft' \in Nat \cup {None}
    BY <2>1, <2>4, LeftTypes DEF WheelTypeOK
  <2> QED BY <1>10, <2>5, OtherStep DEF TickAgain, WheelTypeOK, wheel
<1>11. CASE UserTick
  <2>1. Rescheduled(polLeft, HOUR + 1) \in Nat \cup {None}
    BY HourPlus, LeftTypes DEF WheelTypeOK
  <2> QED BY <1>11, <2>1, OtherStep DEF UserTick, WheelTypeOK
<1>12. CASE UserTickReturns
  <2>1. /\ Rescheduled(polLeft, HOUR + 1) \in Nat \cup {None}
        /\ Rescheduled(polLeft, 1) \in Nat \cup {None}
    BY HourPlus, LeftTypes DEF WheelTypeOK
  <2> QED BY <1>12, <2>1, OtherStep DEF UserTickReturns, WheelTypeOK
<1>13. CASE Advance
  <2>1. tw' \in [Live -> Entry]
    BY <1>13, AgedTable DEF Advance, Aged
  <2>2. polLeft' \in Nat \cup {None}
    BY <1>13 DEF Advance, WheelTypeOK, None
  <2> QED BY <1>13, <2>1, <2>2, ShrinkStep DEF Advance, WheelTypeOK
<1>14. CASE UNCHANGED wheelVars
  BY <1>14, OtherStep DEF wheelVars, wheel, WheelTypeOK
<1> QED
  BY <1>1, <1>2, <1>3, <1>4, <1>5, <1>6, <1>7, <1>8, <1>9, <1>10, <1>11,
     <1>12, <1>13, <1>14 DEF WheelNext, UserStep, LoopStep

-----------------------------------------------------------------------------
(* The wheel is armed.                                                     *)

Armed == HandsInv /\ WheelArmed

\* One timer's deadline is covered by POL's.
Covered(left, e) == left # None /\ left <= MaxOf0(e.due) + MS

\* What Armed asks of a program that does nothing the wheel cannot stand.
Calm ==
    /\ \/ twOn /\ timer = "wheel" /\ polLeft # None
       \/ ~twOn /\ timer = "none" /\ polLeft = None
    /\ turn # "usercb"
    /\ turn \in {"tick", "cb"} => twOn
    /\ \A i \in Live :
          /\ twOn
          /\ ~TooLong(tw[i].due)
          /\ tw[i].period > 0 => ~TooLong(tw[i].period)
    /\ turn \in {"script", "poll", "fd"} =>
          \A i \in Live : Covered(polLeft, tw[i])

\* It is enough to look at wheels that nothing has upset.
LEMMA ArmedIf ==
    ASSUME upset' = "no" => Calm'
    PROVE  Armed'
<1>1. HandsInv'
  BY DEF HandsInv, Calm, TooLong
<1>2. WheelArmed'
  BY DEF WheelArmed, Calm, Covered, MaxOf0
<1> QED BY <1>1, <1>2 DEF Armed

\* And those may be taken for armed.
LEMMA ArmedSays == Armed /\ upset = "no" => Calm
BY DEF Armed, HandsInv, WheelArmed, Covered, Calm

\* A new timer: it is covered, and POL's deadline only moves forward for the
\* others.
LEMMA RegisterArmed ==
    ASSUME Books, Armed, NEW d \in Nat, NEW p \in Nat, Register(d, p),
           p > 0 => p = d
    PROVE  Armed'
<1> SUFFICES ASSUME upset' = "no"
             PROVE  Calm'
  BY ArmedIf
<1>1. upset = "no" /\ ~TooLong(d)
  BY DEF Register
<1>2. UNCHANGED turn /\ twId \in Ids
  BY DEF Register
<1>3. d \in Int /\ MS \in Nat /\ None \notin Nat
  BY WheelAssumption DEF None
<1>4. /\ DOMAIN tw' = Live \cup {twId}
      /\ tw'[twId] = [due |-> d, period |-> p]
      /\ \A i \in Live : i # twId => tw'[i] = tw[i]
  BY <1>2, <1>3, EnteredTable DEF Register, Books
<1>5. /\ twOn' /\ timer' = "wheel" /\ polLeft' \in Nat
      /\ polLeft' <= d + MS
      /\ twOn => polLeft' <= polLeft
  BY <1>1, ArmedSays, RegisterEffect DEF Books, Calm
<1>6. ASSUME NEW i \in Live'
      PROVE  /\ ~TooLong(tw'[i].due)
             /\ tw'[i].period > 0 => ~TooLong(tw'[i].period)
             /\ turn' \in {"script", "poll", "fd"} => Covered(polLeft', tw'[i])
  <2>1. CASE i = twId
    <3>1. tw'[i].due = d /\ tw'[i].period = p
      BY <1>4, <2>1
    <3>2. Covered(polLeft', tw'[i])
      BY <1>3, <1>5, <3>1 DEF Covered, MaxOf0
    <3> QED BY <1>1, <3>1, <3>2
  <2>2. CASE i # twId
    <3>1. i \in Live /\ tw'[i] = tw[i] /\ tw[i].due \in Int
      BY <1>4, <2>2 DEF Live, Books, WheelTypeOK
    <3>2. /\ twOn /\ ~TooLong(tw[i].due)
          /\ tw[i].period > 0 => ~TooLong(tw[i].period)
          /\ turn \in {"script", "poll", "fd"} => Covered(polLeft, tw[i])
      BY <1>1, <3>1, ArmedSays DEF Calm
    <3>3. polLeft \in Nat \cup {None}
      BY DEF Books, WheelTypeOK
    <3>4. Covered(polLeft, tw[i]) => Covered(polLeft', tw[i])
      <4>1. MaxOf0(tw[i].due) \in Nat
        BY <3>1 DEF MaxOf0
      <4> HIDE DEF MaxOf0
      <4> QED BY <1>3, <1>5, <3>2, <3>3, <4>1 DEF Covered
    <3> QED BY <1>2, <3>1, <3>2, <3>4
  <2> QED BY <2>1, <2>2
<1>7. turn # "usercb"
  BY <1>1, ArmedSays DEF Calm
<1> QED BY <1>2, <1>3, <1>5, <1>6, <1>7 DEF Calm, TooLong, Covered

\* The end of a tick: twTick comes back for the soonest timer, in whole
\* milliseconds, and no other timer is due before it.
LEMMA TickAgainArmed ==
    ASSUME Books, Armed, TickAgain
    PROVE  Armed'
<1> SUFFICES ASSUME upset' = "no" PROVE Calm'
  BY ArmedIf
<1>1. /\ upset = "no" /\ turn = "tick" /\ turn' = "poll"
      /\ tw' = tw /\ twOn' = twOn /\ Live' = Live
  BY DEF TickAgain, Live
<1>2. Calm
  BY <1>1, ArmedSays
<1>3. twOn /\ timer = "wheel" /\ polLeft \in Nat /\ polLeft # None
  BY <1>1, <1>2 DEF Calm, Books, WheelTypeOK
<1>4. PICK soon \in {tw[i].due : i \in Live} :
            /\ \A i \in Live : soon <= tw[i].due
            /\ timer' = IF Int32(AtLeast1(CeilMs(soon))) >= HOUR
                        THEN "none" ELSE timer
            /\ polLeft' = Rescheduled(polLeft,
                                      Answered(Int32(AtLeast1(CeilMs(soon)))))
  BY DEF TickAgain
<1>5. \A i \in Live : tw[i].due \in Int
  BY DEF Books, WheelTypeOK
<1>6. soon \in Int /\ ~TooLong(soon)
  BY <1>2, <1>5 DEF Calm
<1> DEFINE ms == AtLeast1(CeilMs(soon))
<1>7. /\ ms \in Nat /\ ms * MS \in Nat /\ ms * MS <= MaxOf0(soon) + MS
      /\ HOUR \in Nat /\ ~(ms >= HOUR) /\ MS \in Nat
      /\ MaxInt \in Nat /\ HOUR < MaxInt
  BY <1>6, CeilBound, WheelAssumption DEF TooLong
<1>11. /\ timer' = IF Int32(ms) >= HOUR THEN "none" ELSE timer
       /\ polLeft' = Rescheduled(polLeft, Answered(Int32(ms)))
  BY <1>4
<1> HIDE DEF ms
<1>12. Int32(ms) = ms /\ Answered(ms) = ms
  BY <1>7, Int32Small DEF Answered
<1>8. polLeft' = ms * MS /\ timer' = "wheel"
  BY <1>3, <1>7, <1>11, <1>12, LeftTypes
<1>9. ASSUME NEW i \in Live
      PROVE  Covered(polLeft', tw[i])
  <2>1. MaxOf0(soon) <= MaxOf0(tw[i].due)
        /\ MaxOf0(soon) \in Nat /\ MaxOf0(tw[i].due) \in Nat
    BY <1>4, <1>5, <1>6 DEF MaxOf0
  <2> HIDE DEF MaxOf0
  <2>2. ms * MS <= MaxOf0(tw[i].due) + MS
    BY <1>7, <2>1
  <2> QED BY <1>7, <1>8, <2>2 DEF Covered, None
<1>10. polLeft' # None
  BY <1>7, <1>8 DEF None
<1> QED BY <1>1, <1>2, <1>3, <1>8, <1>9, <1>10 DEF Calm, TooLong, Covered

\* Time passes for POL as it does for the wheel.
LEMMA AdvanceArmed ==
    ASSUME Books, Armed, Advance
    PROVE  Armed'
<1> SUFFICES ASSUME upset' = "no" PROVE Calm'
  BY ArmedIf
<1>1. /\ upset = "no" /\ tw' = Aged
      /\ polLeft' = IF polLeft > 0 THEN polLeft - 1 ELSE polLeft
      /\ UNCHANGED <<twOn, timer, turn>>
  BY DEF Advance, Aged
<1>2. Calm
  BY <1>1, ArmedSays
<1>3. polLeft \in Nat \cup {None} /\ MS \in Nat
  BY WheelAssumption DEF Books, WheelTypeOK
<1>4. polLeft' # None <=> polLeft # None
  BY <1>1, <1>3 DEF None
<1>5. Live' = Live /\ Aged \in [Live -> Entry]
  BY <1>1, AgedTable DEF Live, Books
<1>6. ASSUME NEW i \in Live
      PROVE  /\ ~TooLong(tw'[i].due)
             /\ tw'[i].period > 0 => ~TooLong(tw'[i].period)
             /\ Covered(polLeft, tw[i]) => Covered(polLeft', tw'[i])
  <2>1. tw[i].due \in Int
    BY DEF Books, WheelTypeOK
  <2>2. /\ tw'[i].period = tw[i].period
        /\ tw'[i].due \in {tw[i].due, tw[i].due - 1}
        /\ tw[i].due > 0 => tw'[i].due = tw[i].due - 1
    BY <1>1, AgedTable DEF Books
  <2>3. ~TooLong(tw'[i].due)
    BY <1>2, <2>1, <2>2, NearerNotLong DEF Calm
  <2>4. Covered(polLeft, tw[i]) => Covered(polLeft', tw'[i])
    BY <1>1, <1>3, <2>1, <2>2 DEF Covered, MaxOf0, None
  <2> QED BY <1>2, <2>2, <2>3, <2>4 DEF Calm
<1> QED BY <1>1, <1>2, <1>4, <1>5, <1>6 DEF Calm, TooLong, Covered

\* Every step leaves the wheel armed.
LEMMA ArmedStep ==
    ASSUME Books, Armed, [WheelNext]_wheelVars
    PROVE  Armed'
<1>1. ASSUME NEW d \in Delays, setTimeout(d) \/ setInterval(d)
      PROVE  Armed'
  BY <1>1, WheelCalls, RegisterArmed DEF Books
<1>2. ASSUME NEW i \in Ids, clearTimeout(i)
      PROVE  Armed'
  <2> SUFFICES ASSUME upset' = "no" PROVE Calm'
    BY ArmedIf
  <2>1. UNCHANGED <<twOn, timer, polLeft, turn, upset>>
    BY <1>2 DEF clearTimeout
  <2>2. /\ DOMAIN tw' = Live \ {i}
        /\ \A j \in Live \ {i} : tw'[j] = tw[j]
    BY <1>2, DeletedTable DEF clearTimeout, Books
  <2>3. Live' = Live \ {i}
    BY <2>2 DEF Live
  <2> QED BY <2>1, <2>2, <2>3, ArmedSays DEF Calm, TooLong, Covered
<1>3. CASE polEvery \/ polUntimer \/ polStop \/ polInit \/ Throws
  BY <1>3, ArmedIf DEF polEvery, polUntimer, polStop, polInit, Throws
<1>4. CASE run \/ LoopEnds \/ FdReady \/ FdReturns
  <2> SUFFICES ASSUME upset' = "no" PROVE Calm'
    BY ArmedIf
  <2>1. /\ UNCHANGED <<tw, twOn, timer, polLeft, upset>>
        /\ turn \in {"script", "poll", "fd"}
        /\ turn' \in {"poll", "fd", "out", "done"} /\ Live' = Live
    BY <1>4 DEF run, LoopEnds, FdReady, FdReturns, wheel, Live
  <2> QED BY <2>1, ArmedSays DEF Calm, TooLong, Covered
<1>5. CASE twTick
  <2> SUFFICES ASSUME upset' = "no" PROVE Calm'
    BY ArmedIf
  <2>1. /\ UNCHANGED <<tw, twOn, timer, polLeft, upset>>
        /\ timer = "wheel" /\ turn' = "tick" /\ Live' = Live
    BY <1>5 DEF twTick, Live
  <2> QED BY <2>1, ArmedSays DEF Calm, TooLong, Covered
<1>6. ASSUME NEW i \in Ids, Fire(i)
      PROVE  Armed'
  <2> SUFFICES ASSUME upset' = "no" PROVE Calm'
    BY ArmedIf
  <2>1. /\ UNCHANGED <<twOn, timer, polLeft, upset>> /\ tw' = Rearmed(i)
        /\ turn = "tick" /\ turn' = "cb"
    BY <1>6 DEF Fire
  <2>2. Calm
    BY <2>1, ArmedSays
  <2>3. Live' = DOMAIN Rearmed(i) /\ DOMAIN Rearmed(i) \subseteq Live
    BY <2>1, RearmedTable DEF Live, Books
  <2>4. ASSUME NEW j \in Live'
        PROVE  /\ ~TooLong(tw'[j].due)
               /\ tw'[j].period > 0 => ~TooLong(tw'[j].period)
    <3>1. j \in Live /\ j \in DOMAIN Rearmed(i)
      BY <2>3
    <3>2. /\ tw'[j].period = tw[j].period
          /\ \/ tw'[j].due = tw[j].due
             \/ tw[j].period > 0 /\ tw'[j].due = tw[j].period
      BY <2>1, <3>1, RearmedTable DEF Books
    <3> QED BY <2>2, <3>1, <3>2 DEF Calm
  <2> QED BY <2>1, <2>2, <2>3, <2>4 DEF Calm, TooLong
<1>7. CASE Returns
  <2> SUFFICES ASSUME upset' = "no" PROVE Calm'
    BY ArmedIf
  <2>1. /\ UNCHANGED <<tw, twOn, timer, polLeft, upset>>
        /\ turn = "cb" /\ turn' = "tick" /\ Live' = Live
    BY <1>7 DEF Returns, Live
  <2> QED BY <2>1, ArmedSays DEF Calm, TooLong
<1>8. CASE TickEmpty
  <2> SUFFICES ASSUME upset' = "no" PROVE Calm'
    BY ArmedIf
  <2>1. /\ Live' = {} /\ ~twOn' /\ timer' = "none" /\ turn' = "poll"
        /\ polLeft' = Rescheduled(polLeft, HOUR + 1)
    BY <1>8 DEF TickEmpty, WheelEmpty, Live
  <2>2. polLeft' = None
    BY <2>1, WheelAssumption DEF Rescheduled
  <2> QED BY <2>1, <2>2 DEF Calm
<1>9. CASE TickAgain
  BY <1>9, TickAgainArmed
<1>10. CASE UserTick \/ UserTickReturns
  <2> SUFFICES ASSUME upset' = "no" PROVE FALSE
    BY ArmedIf
  <2>1. upset = "no"
    BY <1>10 DEF UserTick, UserTickReturns
  <2>2. turn # "usercb" /\ (timer = "wheel" \/ polLeft = None)
    BY <2>1, ArmedSays DEF Calm
  <2> QED BY <1>10, <2>2 DEF UserTick, UserTickReturns, None
<1>11. CASE Advance
  BY <1>11, AdvanceArmed
<1>12. CASE UNCHANGED wheelVars
  <2> SUFFICES ASSUME upset' = "no" PROVE Calm'
    BY ArmedIf
  <2>1. UNCHANGED <<tw, twOn, timer, polLeft, upset, turn>> /\ Live' = Live
    BY <1>12 DEF wheelVars, Live
  <2> QED BY <2>1, ArmedSays DEF Calm, TooLong, Covered
<1> QED
  BY <1>1, <1>2, <1>3, <1>4, <1>5, <1>6, <1>7, <1>8, <1>9, <1>10, <1>11,
     <1>12 DEF WheelNext, UserStep, LoopStep

-----------------------------------------------------------------------------
(* The theorems.                                                           *)

\* The whole invariant holds in every state of the wheel.
THEOREM TimersSafe == WheelSpec => []TimersInv
<1>1. WheelInit => TimersInv
  <2> SUFFICES ASSUME WheelInit PROVE TimersInv
    OBVIOUS
  <2>1. Live = {}
    BY DEF WheelInit, Live
  <2>2. tw \in [Live -> [due : Int, period : Nat]]
    BY DEF WheelInit, Live
  <2>3. WheelTypeOK
    <3>1. twId \in 1 .. MaxId + 1
      BY WheelAssumption DEF WheelInit
    <3> QED BY <2>1, <2>2, <3>1 DEF WheelInit, WheelTypeOK
  <2>4. IdsInv /\ BatchInv /\ DeadStayDead
    BY <2>1 DEF WheelInit, IdsInv, BatchInv, DeadStayDead
  <2>5. HandsInv /\ WheelArmed
    BY <2>1 DEF WheelInit, HandsInv, WheelArmed
  <2> QED BY <2>3, <2>4, <2>5 DEF TimersInv
<1>2. TimersInv /\ [WheelNext]_wheelVars => TimersInv'
  BY BooksStep, ArmedStep DEF TimersInv, Books, Armed
<1> QED BY <1>1, <1>2, PTL DEF WheelSpec

\* The wheel's state keeps its types: POL's deadline is a number of ticks
\* that twArm and twTick never make negative.
THEOREM TimersTypes == WheelSpec => []WheelTypeOK
<1>1. TimersInv => WheelTypeOK
  BY DEF TimersInv
<1> QED BY <1>1, TimersSafe, PTL

\* Outside a tick the loop wakes for every live timer within a millisecond of
\* its due time, whatever the delays, the order of the calls and the clock.
THEOREM AlwaysArmed == WheelSpec => []WheelArmed
<1>1. TimersInv => WheelArmed
  BY DEF TimersInv
<1> QED BY <1>1, TimersSafe, PTL

\* A cleared timer, and a one-shot that was called, never return to the wheel.
THEOREM DeadForGood == WheelSpec => []DeadStayDead
<1>1. TimersInv => DeadStayDead
  BY DEF TimersInv
<1> QED BY <1>1, TimersSafe, PTL

\* The callback of a setTimeout is called once at most.
THEOREM CalledOnce == WheelSpec => FiresOnce
<1> DEFINE Act == cur' \notin {cur, None} => cur' \notin spent
<1>1. TimersInv /\ [WheelNext]_wheelVars => [Act]_wheelVars
  <2> SUFFICES ASSUME TimersInv, WheelNext, cur' \notin {cur, None}
               PROVE  cur' \notin spent
    OBVIOUS
  <2>1. PICK i \in Ids : Fire(i)
    BY DEF WheelNext, UserStep, LoopStep, setTimeout, setInterval, Register,
           clearTimeout, polEvery, polUntimer, polStop, polInit, run, LoopEnds,
           FdReady, FdReturns, twTick, Returns, Throws, TickEmpty, TickAgain,
           UserTick, UserTickReturns, Advance, wheel
  <2> QED BY <2>1 DEF Fire, TimersInv, BatchInv
<1> QED BY <1>1, TimersSafe, PTL DEF WheelSpec, FiresOnce

-----------------------------------------------------------------------------
(***************************************************************************)
(* The directory watcher.  A record is valid while the current watcher gives*)
(* its wd to the directory it came from.  What is in the kernel queue always*)
(* is; the rows of the handler are unless the watcher was stopped under    *)
(* them, and a change is only counted as being on its way by a valid record.*)
(***************************************************************************)

\* The current watcher gives the record's wd to the record's directory.
Valid(r) == r # Lost => r.wd \in 1 .. Len(kwd) /\ kwd[r.wd] = r.of

\* Every wd the kernel gave out was asked for.
CountInv == Len(kwd) <= calls

\* No watcher: nothing of it is left.
ShutInv == ~open => kwd = <<>> /\ queue = <<>> /\ subs = {} /\ dirty = {}

\* The claimed wds are the kernel's, under the directories it has them for, and
\* forEach visits claimed ones only.
ClaimInv ==
    /\ subs \subseteq 1 .. Len(kwd) /\ rescan \subseteq subs
    /\ \A w \in subs : dirs[w] = kwd[w]

\* Where there may be rows, wds to rescan, and a failed drain to return to.
PlaceInv ==
    /\ rescan # {} => at \in {"lost", "each"}
    /\ rows # <<>> => at \notin {"pol", "loop"}
    /\ quits => at \in {"lost", "each", "cb"} /\ rows = <<>>
    /\ at # "pol" /\ ~(open /\ fresh) => restarted

\* What the kernel holds is valid, and a queue beyond its limit ends in the mark.
QueueInv ==
    /\ \A r \in Records : Contains(queue, r) => Valid(r)
    /\ Len(queue) > QMax => Last(queue) = Lost

\* So are the drained rows, unless the watcher was stopped under them.
RowsInv == restarted \/ \A r \in Records : Contains(rows, r) => Valid(r)

\* Only changes in claimed directories are owed.
DirtyInv == \A c \in dirty : Claimed(c[1])

\* The records q tell of the change c.
Carries(q, c) ==
    \E r \in Records :
        /\ Contains(q, r)
        /\ r = Lost \/ (Valid(r) /\ r.of = c[1] /\ r.name = c[2])

\* Every change owed is told of by the queue, by the rows, or by the rescan.
TrackInv ==
    broken \/ \A c \in dirty : \/ Carries(queue, c) \/ Carries(rows, c)
                               \/ \E w \in rescan : kwd[w] = c[1]

FswInv ==
    /\ FswTypeOK /\ CountInv /\ ShutInv /\ ClaimInv /\ PlaceInv
    /\ QueueInv /\ RowsInv /\ DirtyInv /\ TrackInv

-----------------------------------------------------------------------------
(* Sequences, by what they contain.                                        *)

\* An empty sequence contains nothing.
LEMMA NoneIn == \A x : ~Contains(<<>>, x)
<1>1. Len(<<>>) = 0
  BY EmptySeq
<1> QED BY <1>1 DEF Contains

\* What is appended comes on top of what there was.
LEMMA InAppend ==
    ASSUME NEW S, NEW s \in Seq(S), NEW e \in S
    PROVE  /\ Append(s, e) \in Seq(S) /\ Len(Append(s, e)) = Len(s) + 1
           /\ Last(Append(s, e)) = e
           /\ \A x : Contains(Append(s, e), x) <=> Contains(s, x) \/ x = e
<1> DEFINE n == Len(s)
           a == Append(s, e)
<1>1. /\ a \in Seq(S) /\ Len(a) = n + 1 /\ n \in Nat /\ a[n + 1] = e
      /\ \A i \in 1 .. n : a[i] = s[i]
  BY AppendProperties, LenProperties
<1> HIDE DEF a, n
<1>2. \A i : i \in 1 .. n + 1 <=> i \in 1 .. n \/ i = n + 1
  BY <1>1
<1>3. \A x : Contains(a, x) <=> Contains(s, x) \/ x = e
  BY <1>1, <1>2 DEF Contains, n
<1>4. Last(a) = e
  BY <1>1 DEF Last
<1> QED BY <1>1, <1>3, <1>4 DEF a, n

\* What is in a sequence is in its first part or in the rest.
LEMMA InParts ==
    ASSUME NEW S, NEW s \in Seq(S), NEW m \in 1 .. Len(s)
    PROVE  /\ SubSeq(s, 1, m) \in Seq(S) /\ Len(SubSeq(s, 1, m)) = m
           /\ SubSeq(s, m + 1, Len(s)) \in Seq(S)
           /\ Len(SubSeq(s, m + 1, Len(s))) = Len(s) - m
           /\ \A x : Contains(s, x) <=> \/ Contains(SubSeq(s, 1, m), x)
                                        \/ Contains(SubSeq(s, m + 1, Len(s)), x)
<1> DEFINE n == Len(s)
           a == SubSeq(s, 1, m)
           b == SubSeq(s, m + 1, n)
<1>1. n \in Nat /\ m \in Nat /\ m >= 1 /\ m <= n /\ m \in Int /\ n \in Int
      /\ m + 1 \in Int /\ 1 \in Int
  BY LenProperties
<1>2. (\A i \in 1 .. m : s[i] \in S) /\ (\A i \in m + 1 .. n : s[i] \in S)
  BY <1>1, ElementOfSeq
<1>3. /\ a \in Seq(S) /\ Len(a) = IF 1 <= m THEN m - 1 + 1 ELSE 0
      /\ \A i \in 1 .. m - 1 + 1 : a[i] = s[1 + i - 1]
  BY <1>1, <1>2, SubSeqProperties
<1>4. /\ b \in Seq(S) /\ Len(b) = IF m + 1 <= n THEN n - (m + 1) + 1 ELSE 0
      /\ \A i \in 1 .. n - (m + 1) + 1 : b[i] = s[m + 1 + i - 1]
  BY <1>1, <1>2, SubSeqProperties
<1> HIDE DEF a, b, n
<1>5. Len(a) = m /\ Len(b) = n - m
  BY <1>1, <1>3, <1>4
<1>6. \A i \in 1 .. m : a[i] = s[i]
  <2> TAKE i \in 1 .. m
  <2>1. 1 + i - 1 = i /\ m - 1 + 1 = m
    BY <1>1
  <2> QED BY <1>3, <2>1
<1>7. \A i \in 1 .. n - m : b[i] = s[m + i]
  <2> TAKE i \in 1 .. n - m
  <2>1. m + 1 + i - 1 = m + i /\ n - (m + 1) + 1 = n - m
    BY <1>1
  <2> QED BY <1>4, <2>1
<1>8. ASSUME NEW x, Contains(s, x)
      PROVE  Contains(a, x) \/ Contains(b, x)
  <2>1. PICK i \in 1 .. n : s[i] = x
    BY <1>8 DEF Contains, n
  <2>2. CASE i <= m
    <3>1. i \in 1 .. m
      BY <1>1, <2>2
    <3> QED BY <1>5, <1>6, <2>1, <3>1 DEF Contains
  <2>3. CASE i > m
    <3>1. i - m \in 1 .. n - m /\ m + (i - m) = i
      BY <1>1, <2>3
    <3>2. b[i - m] = x
      BY <1>7, <2>1, <3>1
    <3> QED BY <1>5, <3>1, <3>2 DEF Contains
  <2> QED BY <1>1, <2>2, <2>3
<1>9. ASSUME NEW x, Contains(a, x) \/ Contains(b, x)
      PROVE  Contains(s, x)
  <2>1. CASE Contains(a, x)
    <3>1. 1 .. m \subseteq 1 .. n
      BY <1>1
    <3> QED BY <1>5, <1>6, <2>1, <3>1 DEF Contains, n
  <2>2. CASE Contains(b, x)
    <3>1. PICK i \in 1 .. n - m : b[i] = x
      BY <1>5, <2>2 DEF Contains
    <3>2. m + i \in 1 .. n /\ s[m + i] = x
      BY <1>1, <1>7, <3>1
    <3> QED BY <3>2 DEF Contains, n
  <2> QED BY <1>9, <2>1, <2>2
<1> QED BY <1>3, <1>4, <1>5, <1>8, <1>9 DEF a, b, n

\* What is in a sequence is its head or in its tail.
LEMMA InTail ==
    ASSUME NEW S, NEW s \in Seq(S), s # <<>>
    PROVE  /\ Head(s) \in S /\ Tail(s) \in Seq(S) /\ Len(Tail(s)) = Len(s) - 1
           /\ \A x : Contains(s, x) <=> x = Head(s) \/ Contains(Tail(s), x)
<1> DEFINE n == Len(s)
           t == Tail(s)
<1>1. /\ n \in Nat \ {0} /\ Head(s) \in S /\ t \in Seq(S) /\ Len(t) = n - 1
      /\ \A i \in 1 .. Len(t) : t[i] = s[i + 1]
  BY HeadTailProperties, EmptySeq
<1>2. Head(s) = s[1]
  OBVIOUS
<1> HIDE DEF n, t
<1>3. n \in Nat /\ n >= 1
  BY <1>1
<1>4. \A i \in 1 .. n - 1 : t[i] = s[i + 1]
  BY <1>1
<1>5. ASSUME NEW x, Contains(s, x)
      PROVE  x = Head(s) \/ Contains(t, x)
  <2>1. PICK i \in 1 .. n : s[i] = x
    BY <1>5 DEF Contains, n
  <2>2. CASE i = 1
    BY <1>2, <2>1, <2>2
  <2>3. CASE i # 1
    <3>1. i - 1 \in 1 .. n - 1 /\ i - 1 + 1 = i
      BY <1>3, <2>3
    <3>2. t[i - 1] = x
      BY <1>4, <2>1, <3>1
    <3> QED BY <1>1, <3>1, <3>2 DEF Contains
  <2> QED BY <2>2, <2>3
<1>6. ASSUME NEW x, x = Head(s) \/ Contains(t, x)
      PROVE  Contains(s, x)
  <2>1. CASE x = Head(s)
    <3>1. 1 \in 1 .. n
      BY <1>3
    <3> QED BY <1>2, <2>1, <3>1 DEF Contains, n
  <2>2. CASE Contains(t, x)
    <3>1. PICK i \in 1 .. n - 1 : t[i] = x
      BY <1>1, <2>2 DEF Contains
    <3>2. i + 1 \in 1 .. n /\ s[i + 1] = x
      BY <1>3, <1>4, <3>1
    <3> QED BY <3>2 DEF Contains, n
  <2> QED BY <1>6, <2>1, <2>2
<1> QED BY <1>1, <1>5, <1>6 DEF n, t

\* The last of a sequence is in it.
LEMMA LastIn ==
    ASSUME NEW S, NEW s \in Seq(S), s # <<>>
    PROVE  Contains(s, Last(s)) /\ Last(s) \in S
<1>1. Len(s) \in Nat \ {0}
  BY EmptySeq
<1>2. Len(s) \in 1 .. Len(s)
  BY <1>1
<1> QED BY <1>2, ElementOfSeq DEF Contains, Last

-----------------------------------------------------------------------------
(* The kernel's table and the records.                                     *)

\* The wd of a directory the kernel has.
LEMMA WdIs ==
    ASSUME NEW ks, NEW d, Contains(ks, d)
    PROVE  WdOf(ks, d) \in 1 .. Len(ks) /\ ks[WdOf(ks, d)] = d
BY DEF Contains, WdOf

\* What a record is.
LEMMA RecordShape ==
    /\ Lost \in Records /\ Lost.wd = OVERFLOW /\ OVERFLOW \notin Wds
    /\ \A r \in Records : r # Lost => r.wd \in Wds /\ r.name \in Names
    /\ \A w \in Wds, n \in Names, d \in Dirs :
          /\ Record(w, n, d) \in Records /\ Record(w, n, d) # Lost
          /\ Record(w, n, d).wd = w /\ Record(w, n, d).name = n
          /\ Record(w, n, d).of = d
<1>1. Lost.wd = OVERFLOW /\ OVERFLOW \notin Wds /\ Lost \in Records
  BY FswAssumption DEF Lost, OVERFLOW, Wds, Records
<1>2. \A r \in Records : r # Lost => r.wd \in Wds /\ r.name \in Names
  BY DEF Records
<1>3. ASSUME NEW w \in Wds, NEW n \in Names, NEW d \in Dirs
      PROVE  /\ Record(w, n, d) \in Records /\ Record(w, n, d) # Lost
             /\ Record(w, n, d).wd = w /\ Record(w, n, d).name = n
             /\ Record(w, n, d).of = d
  <2>1. /\ Record(w, n, d).wd = w /\ Record(w, n, d).name = n
        /\ Record(w, n, d).of = d /\ Record(w, n, d) \in Records
    BY DEF Record, Records
  <2> QED BY <1>1, <2>1
<1> QED BY <1>1, <1>2, <1>3

\* A new directory gets the next number; the others keep theirs.
LEMMA TableGrows ==
    ASSUME NEW d \in Dirs, kwd \in Seq(Dirs), IsInjective(kwd), ~Contains(kwd, d)
    PROVE  /\ Append(kwd, d) \in Seq(Dirs) /\ IsInjective(Append(kwd, d))
           /\ Len(Append(kwd, d)) = Len(kwd) + 1
           /\ \A i \in 1 .. Len(kwd) : Append(kwd, d)[i] = kwd[i]
           /\ Contains(Append(kwd, d), d)
<1> DEFINE n == Len(kwd)
           a == Append(kwd, d)
<1>1. /\ a \in Seq(Dirs) /\ Len(a) = n + 1 /\ n \in Nat /\ a[n + 1] = d
      /\ \A i \in 1 .. n : a[i] = kwd[i]
  BY AppendProperties, LenProperties
<1>2. DOMAIN kwd = 1 .. n /\ \A i \in 1 .. n : kwd[i] # d
  BY LenProperties DEF Contains
<1>3. Contains(a, d)
  BY InAppend
<1> HIDE DEF a, n
<1>4. DOMAIN a = 1 .. n + 1
  BY <1>1, LenProperties
<1>5. \A i \in 1 .. n + 1 : i \in 1 .. n \/ i = n + 1
  BY <1>1
<1>6. \A i, j \in 1 .. n : kwd[i] = kwd[j] => i = j
  BY <1>2 DEF IsInjective
<1>7. \A i, j \in 1 .. n + 1 : a[i] = a[j] => i = j
  BY <1>1, <1>2, <1>5, <1>6
<1>8. IsInjective(a)
  BY <1>4, <1>7 DEF IsInjective
<1> QED BY <1>1, <1>3, <1>8 DEF a, n

\* Two claimed wds are of two directories.
LEMMA OneWd ==
    ASSUME FswTypeOK, NEW v \in 1 .. Len(kwd), NEW w \in 1 .. Len(kwd), kwd[v] = kwd[w]
    PROVE  v = w
<1>1. DOMAIN kwd = 1 .. Len(kwd)
  BY LenProperties DEF FswTypeOK
<1> QED BY <1>1 DEF FswTypeOK, IsInjective

\* The table may grow; what was valid and what was on its way stays so.
Grows == /\ 1 .. Len(kwd) \subseteq 1 .. Len(kwd')
         /\ \A i \in 1 .. Len(kwd) : kwd'[i] = kwd[i]

\* A record stays valid.
LEMMA StaysValid ==
    ASSUME Grows, NEW r, Valid(r)
    PROVE  Valid(r)'
BY DEF Grows, Valid

\* A step that only adds to the records, the claims and the wds to rescan, and
\* takes from what is owed only, loses no change.
LEMMA StaysTracked ==
    ASSUME FswInv, Grows, broken => broken', dirty' \subseteq dirty,
           subs \subseteq subs', rescan \subseteq rescan',
           \A r \in Records : Contains(queue, r) => Contains(queue', r),
           \A r \in Records : Contains(rows, r) => Contains(rows', r)
    PROVE  DirtyInv' /\ TrackInv'
<1>1. DirtyInv'
  <2> SUFFICES ASSUME NEW c \in dirty PROVE Claimed(c[1])'
    BY DEF DirtyInv
  <2>1. PICK w \in subs : w \in 1 .. Len(kwd) /\ kwd[w] = c[1]
    BY DEF FswInv, DirtyInv, Claimed, ClaimInv
  <2>2. w \in subs' /\ w \in 1 .. Len(kwd') /\ kwd'[w] = c[1]
    BY <2>1 DEF Grows
  <2> QED BY <2>2 DEF Claimed
<1>2. ASSUME ~broken', NEW c \in dirty'
      PROVE  \/ Carries(queue, c)' \/ Carries(rows, c)'
             \/ \E w \in rescan' : kwd'[w] = c[1]
  <2>1. c \in dirty /\ (\/ Carries(queue, c) \/ Carries(rows, c)
                        \/ \E w \in rescan : kwd[w] = c[1])
    BY <1>2 DEF FswInv, TrackInv
  <2>2. CASE Carries(queue, c)
    BY <2>2, StaysValid DEF Carries
  <2>3. CASE Carries(rows, c)
    BY <2>3, StaysValid DEF Carries
  <2>4. CASE \E w \in rescan : kwd[w] = c[1]
    <3>1. PICK w \in rescan : kwd[w] = c[1]
      BY <2>4
    <3>2. w \in rescan' /\ kwd'[w] = kwd[w]
      BY DEF FswInv, ClaimInv, Grows
    <3> QED BY <3>1, <3>2
  <2> QED BY <2>1, <2>2, <2>3, <2>4
<1> QED BY <1>1, <1>2 DEF TrackInv

-----------------------------------------------------------------------------
(* The program and the kernel.                                             *)

\* fsw.watch: at most one more directory and one more claim.
LEMMA WatchEffect ==
    ASSUME FswInv, NEW d \in Dirs, watch(d)
    PROVE  /\ kwd' \in Seq(Dirs) /\ IsInjective(kwd') /\ Grows
           /\ Len(kwd') <= Len(kwd) + 1
           /\ queue' = queue /\ subs \subseteq subs' /\ subs' \subseteq 1 .. Len(kwd')
           /\ dirs' \in [subs' -> Dirs] /\ \A v \in subs' : dirs'[v] = kwd'[v]
           /\ rescan \subseteq rescan' /\ rescan' \subseteq subs'
           /\ rescan' # rescan => at = "each"
           /\ broken => broken'
           /\ polled' \in BOOLEAN /\ broken' \in BOOLEAN
<1>1. kwd \in Seq(Dirs) /\ IsInjective(kwd) /\ Len(kwd) \in Nat
  BY LenProperties DEF FswInv, FswTypeOK
<1>2. Watcher[1] = kwd /\ Watcher[2] = queue
  BY DEF Watcher, FswInv, ShutInv
<1>3. polled \in BOOLEAN /\ broken \in BOOLEAN
  BY DEF FswInv, FswTypeOK
<1>4. /\ subs \subseteq 1 .. Len(kwd) /\ rescan \subseteq subs
      /\ dirs \in [subs -> Dirs] /\ \A v \in subs : dirs[v] = kwd[v]
  BY DEF FswInv, FswTypeOK, ClaimInv
<1> DEFINE kds == IF Contains(kwd, d) THEN kwd ELSE Append(kwd, d)
           w == WdOf(kds, d)
<1>5. /\ kds \in Seq(Dirs) /\ IsInjective(kds) /\ Len(kds) \in {Len(kwd), Len(kwd) + 1}
      /\ \A i \in 1 .. Len(kwd) : kds[i] = kwd[i]
      /\ Contains(kds, d)
  BY <1>1, TableGrows
<1> HIDE DEF kds
<1>6. w \in 1 .. Len(kds) /\ kds[w] = d
  BY <1>5, WdIs
<1> HIDE DEF w
<1>7. Len(kds) <= Len(kwd) + 1 /\ Len(kwd) <= Len(kds) /\ 1 .. Len(kwd) \subseteq 1 .. Len(kds)
  BY <1>1, <1>5
<1>8. CASE /\ kwd' = kds /\ queue' = queue
           /\ polled' = IF open THEN polled ELSE TRUE
           /\ dirs' = [v \in subs \cup {w} |-> IF v = w THEN d ELSE dirs[v]]
           /\ subs' = subs \cup {w}
           /\ rescan' = IF at = "each" /\ w \notin subs THEN rescan \cup {w} ELSE rescan
           /\ UNCHANGED broken
  <2>1. /\ dirs' \in [subs' -> Dirs]
        /\ \A v \in subs' : dirs'[v] = kwd'[v]
    BY <1>4, <1>5, <1>6, <1>8
  <2>2. Grows /\ subs' \subseteq 1 .. Len(kwd')
    BY <1>4, <1>5, <1>6, <1>7, <1>8 DEF Grows
  <2> QED BY <1>1, <1>3, <1>4, <1>5, <1>7, <1>8, <2>1, <2>2
<1>9. CASE /\ kwd' = kwd /\ queue' = queue
           /\ polled' \in {polled, TRUE} /\ broken' \in {broken, TRUE}
           /\ UNCHANGED <<dirs, subs, rescan>>
  <2>1. Grows /\ Len(kwd') <= Len(kwd) + 1
    BY <1>1, <1>9 DEF Grows
  <2>2. polled' \in BOOLEAN /\ broken' \in BOOLEAN
    BY <1>3, <1>9
  <2>3. broken => broken'
    <3>1. broken' = broken \/ broken' = TRUE
      BY <1>9
    <3> QED BY <3>1
  <2> QED BY <1>1, <1>4, <1>9, <2>1, <2>2, <2>3
<1>10. CASE /\ ~open /\ kwd' = <<>> /\ queue' = <<>> /\ broken' = TRUE
            /\ UNCHANGED <<polled, dirs, subs, rescan>>
  <2>1. kwd' = kwd /\ queue' = queue
    BY <1>10 DEF FswInv, ShutInv
  <2> QED BY <1>9, <1>10, <2>1
<1> QED BY <1>2, <1>8, <1>9, <1>10 DEF watch, kds, w

\* fsw.watch keeps the invariant.
LEMMA WatchStep ==
    ASSUME FswInv, NEW d \in Dirs, watch(d)
    PROVE  FswInv'
<1>1. /\ kwd' \in Seq(Dirs) /\ IsInjective(kwd') /\ Grows
      /\ Len(kwd') <= Len(kwd) + 1
      /\ queue' = queue /\ subs \subseteq subs' /\ subs' \subseteq 1 .. Len(kwd')
      /\ dirs' \in [subs' -> Dirs] /\ \A v \in subs' : dirs'[v] = kwd'[v]
      /\ rescan \subseteq rescan' /\ rescan' \subseteq subs'
      /\ rescan' # rescan => at = "each"
      /\ broken => broken'
      /\ polled' \in BOOLEAN /\ broken' \in BOOLEAN
  BY WatchEffect
<1>2. /\ calls < MaxCalls /\ calls' = calls + 1 /\ open' = TRUE
      /\ UNCHANGED <<over, at, rows, quits, dirty, restarted>>
      /\ fresh' \in BOOLEAN /\ (open \/ at = "pol" => fresh' = fresh)
  BY DEF watch, FswTurn, FswInv, FswTypeOK
<1>3. Len(kwd) \in Nat /\ Len(kwd') \in Nat /\ calls \in 0 .. MaxCalls /\ MaxCalls \in Nat
  BY <1>1, LenProperties, FswAssumption DEF FswInv, FswTypeOK
<1>4. Len(kwd') <= calls' /\ calls' \in 0 .. MaxCalls
  BY <1>1, <1>2, <1>3 DEF FswInv, CountInv
<1>5. 1 .. Len(kwd') \subseteq Wds
  BY <1>3, <1>4 DEF Wds
<1>6. FswTypeOK'
  BY <1>1, <1>2, <1>4, <1>5 DEF FswInv, FswTypeOK
<1>7. CountInv' /\ ShutInv' /\ ClaimInv'
  BY <1>1, <1>2, <1>4 DEF CountInv, ShutInv, ClaimInv
<1>8. PlaceInv'
  BY <1>1, <1>2 DEF FswInv, PlaceInv
<1>9. QueueInv'
  BY <1>1, StaysValid DEF FswInv, QueueInv
<1>10. RowsInv'
  BY <1>1, <1>2, StaysValid DEF FswInv, RowsInv
<1>11. DirtyInv' /\ TrackInv'
  BY <1>1, <1>2, StaysTracked
<1> QED BY <1>6, <1>7, <1>8, <1>9, <1>10, <1>11 DEF FswInv

\* The table and the records are as they were.
LEMMA SameValid ==
    ASSUME UNCHANGED kwd
    PROVE  Grows /\ \A r : Valid(r)' <=> Valid(r)
BY DEF Valid, Grows

\* What a step leaves alone it does not disturb.
LEMMA SameQueue ==
    ASSUME FswInv, UNCHANGED <<kwd, queue>>
    PROVE  QueueInv'
BY SameValid DEF FswInv, QueueInv

\* Nor does one that leaves the drained rows and the watches alone.
LEMMA SameRows ==
    ASSUME FswInv, UNCHANGED <<kwd, rows, restarted>>
    PROVE  RowsInv'
BY SameValid DEF FswInv, RowsInv

\* fsw.unwatch: with the claim goes what was owed to its directory, and only
\* that.
LEMMA UnwatchStep ==
    ASSUME FswInv, NEW w \in Wds, unwatch(w)
    PROVE  FswInv'
<1>1. /\ w \in subs /\ calls < MaxCalls /\ calls' = calls + 1
      /\ dirs' = [v \in subs \ {w} |-> dirs[v]]
      /\ subs' = subs \ {w} /\ rescan' = rescan \ {w}
      /\ dirty' = {c \in dirty : c[1] # dirs[w]}
      /\ UNCHANGED <<open, kwd, queue, over, polled, at, fresh, rows, quits,
                     restarted, broken>>
  BY DEF unwatch, FswTurn, inotify
<1>2. /\ w \in 1 .. Len(kwd) /\ subs \subseteq 1 .. Len(kwd) /\ rescan \subseteq subs
      /\ dirs[w] = kwd[w]
  BY <1>1 DEF FswInv, ClaimInv
<1>3. Len(kwd) \in Nat /\ calls \in 0 .. MaxCalls /\ MaxCalls \in Nat
  BY LenProperties, FswAssumption DEF FswInv, FswTypeOK
<1>4. calls' \in 0 .. MaxCalls /\ Len(kwd) <= calls'
  BY <1>1, <1>3 DEF FswInv, CountInv
<1>5. FswTypeOK'
  BY <1>1, <1>4 DEF FswInv, FswTypeOK
<1>6. CountInv' /\ ClaimInv' /\ ShutInv' /\ PlaceInv'
  BY <1>1, <1>2, <1>4 DEF FswInv, CountInv, ClaimInv, ShutInv, PlaceInv
<1>7. QueueInv' /\ RowsInv'
  BY <1>1, SameQueue, SameRows
<1>8. DirtyInv'
  <2> SUFFICES ASSUME NEW c \in dirty, c[1] # kwd[w] PROVE Claimed(c[1])'
    BY <1>1, <1>2 DEF DirtyInv
  <2>1. PICK v \in subs : v <= Len(kwd) /\ kwd[v] = c[1]
    BY DEF FswInv, DirtyInv, Claimed
  <2>2. v \in subs'
    BY <1>1, <2>1
  <2> QED BY <1>1, <2>1, <2>2 DEF Claimed
<1>9. TrackInv'
  <2> SUFFICES ASSUME ~broken, NEW c \in dirty, c[1] # kwd[w]
               PROVE  \/ Carries(queue, c)' \/ Carries(rows, c)'
                      \/ \E v \in rescan' : kwd'[v] = c[1]
    BY <1>1, <1>2 DEF TrackInv
  <2>1. \/ Carries(queue, c) \/ Carries(rows, c)
        \/ \E v \in rescan : kwd[v] = c[1]
    BY DEF FswInv, TrackInv
  <2>2. CASE Carries(queue, c) \/ Carries(rows, c)
    BY <1>1, <2>2, SameValid DEF Carries
  <2>3. CASE \E v \in rescan : kwd[v] = c[1]
    BY <1>1, <2>3
  <2> QED BY <2>1, <2>2, <2>3
<1> QED BY <1>5, <1>6, <1>7, <1>8, <1>9 DEF FswInv

\* fsw.stop: nothing is owed any more; rows the handler still has are of a
\* watcher that is gone.
LEMMA StopStep ==
    ASSUME FswInv, stop
    PROVE  FswInv'
<1>1. /\ calls < MaxCalls /\ calls' = calls + 1 /\ open' = FALSE
      /\ kwd' = <<>> /\ queue' = <<>> /\ polled' = FALSE
      /\ dirs' = <<>> /\ subs' = {} /\ rescan' = {} /\ dirty' = {}
      /\ restarted' = (at # "pol") /\ broken' = FALSE
      /\ UNCHANGED <<over, at, fresh, rows, quits>>
  BY DEF stop, FswTurn, CloseWatcher
<1>2. calls \in 0 .. MaxCalls /\ MaxCalls \in Nat /\ QMax \in Nat /\ QMax # 0
  BY FswAssumption DEF FswInv, FswTypeOK
<1>3. /\ calls' \in 0 .. MaxCalls /\ 0 <= calls' /\ 0 <= QMax + 1 /\ ~(0 > QMax)
      /\ restarted' \in BOOLEAN
  BY <1>1, <1>2
<1>4. /\ <<>> \in Seq(Dirs) /\ <<>> \in Seq(Records) /\ Len(<<>>) = 0
      /\ DOMAIN <<>> = {}
  <2>1. <<>> \in Seq(Dirs) /\ <<>> \in Seq(Records) /\ Len(<<>>) = 0
    BY EmptySeq
  <2>2. DOMAIN <<>> = 1 .. 0
    BY <2>1, LenProperties
  <2> QED BY <2>1, <2>2
<1>5. IsInjective(<<>>)
  BY <1>4 DEF IsInjective
<1>6. FswTypeOK'
  <2>1. dirs' \in [subs' -> Dirs]
    BY <1>1, <1>4
  <2> QED BY <1>1, <1>3, <1>4, <1>5, <2>1 DEF FswInv, FswTypeOK
<1>7. CountInv' /\ ClaimInv' /\ ShutInv' /\ PlaceInv'
  BY <1>1, <1>3, <1>4 DEF FswInv, CountInv, ClaimInv, ShutInv, PlaceInv
<1>8. QueueInv'
  BY <1>1, <1>3, <1>4, NoneIn DEF QueueInv
<1>9. RowsInv'
  <2>1. CASE at = "pol"
    <3>1. rows' = <<>>
      BY <1>1, <2>1 DEF FswInv, PlaceInv
    <3> QED BY <3>1, NoneIn DEF RowsInv
  <2>2. CASE at # "pol"
    BY <1>1, <2>2 DEF RowsInv
  <2> QED BY <2>1, <2>2
<1>10. DirtyInv' /\ TrackInv'
  BY <1>1 DEF DirtyInv, TrackInv
<1> QED BY <1>6, <1>7, <1>8, <1>9, <1>10 DEF FswInv

\* fsw.onoverflow: who is told of an overflow, nothing else.
LEMMA OverflowStep ==
    ASSUME FswInv, onoverflow
    PROVE  FswInv'
<1>1. /\ calls < MaxCalls /\ calls' = calls + 1 /\ over' \in BOOLEAN
      /\ UNCHANGED <<open, kwd, queue, dirs, subs, polled, at, fresh, rows, rescan, quits,
                     dirty, restarted, broken>>
  BY DEF onoverflow, FswTurn, inotify, claims
<1>2. Len(kwd) \in Nat /\ calls \in 0 .. MaxCalls /\ MaxCalls \in Nat
  BY LenProperties, FswAssumption DEF FswInv, FswTypeOK
<1>3. calls' \in 0 .. MaxCalls /\ Len(kwd) <= calls'
  BY <1>1, <1>2 DEF FswInv, CountInv
<1>4. FswTypeOK'
  BY <1>1, <1>3 DEF FswInv, FswTypeOK
<1>5. CountInv' /\ ClaimInv' /\ ShutInv' /\ PlaceInv'
  BY <1>1, <1>3 DEF FswInv, CountInv, ClaimInv, ShutInv, PlaceInv
<1>6. QueueInv' /\ RowsInv'
  BY <1>1, SameQueue, SameRows
<1>7. DirtyInv' /\ TrackInv'
  BY <1>1, SameValid, StaysTracked
<1> QED BY <1>4, <1>5, <1>6, <1>7 DEF FswInv

\* The kernel queues a change, or notes that it could not.
LEMMA ChangeStep ==
    ASSUME FswInv, NEW d \in Dirs, NEW n \in Names, change(d, n)
    PROVE  FswInv'
<1>0. PICK r : r = Record(WdOf(kwd, d), n, d)
  OBVIOUS
<1>1. /\ open /\ Contains(kwd, d)
      /\ queue' = IF Len(queue) < QMax THEN Append(queue, r)
                  ELSE IF Last(queue) # Lost THEN Append(queue, Lost)
                  ELSE queue
      /\ dirty' = IF Claimed(d) THEN dirty \cup {<<d, n>>} ELSE dirty
      /\ UNCHANGED <<open, kwd, dirs, subs, over, calls, polled, at, fresh, rows, rescan,
                     quits, restarted, broken>>
  BY <1>0 DEF change, claims, program
<1>2. /\ queue \in Seq(Records) /\ Len(queue) \in Nat /\ Len(queue) <= QMax + 1
      /\ QMax \in Nat /\ QMax # 0
      /\ Len(kwd) \in Nat /\ MaxCalls \in Nat /\ calls \in 0 .. MaxCalls
      /\ Len(queue) > QMax => Last(queue) = Lost
  BY LenProperties, FswAssumption DEF FswInv, FswTypeOK, QueueInv
<1>3. WdOf(kwd, d) \in 1 .. Len(kwd) /\ kwd[WdOf(kwd, d)] = d
  BY <1>1, WdIs
<1>4. WdOf(kwd, d) \in Wds
  BY <1>2, <1>3 DEF FswInv, CountInv, Wds
<1>5. /\ r \in Records /\ r # Lost /\ r.wd = WdOf(kwd, d) /\ r.name = n /\ r.of = d
      /\ Lost \in Records
  BY <1>0, <1>4, RecordShape
<1>6. Valid(r) /\ Valid(Lost)
  BY <1>3, <1>5 DEF Valid
<1>7. /\ queue' \in Seq(Records) /\ Len(queue') <= QMax + 1
      /\ Len(queue') > QMax => Last(queue') = Lost
      /\ \A x \in Records : Contains(queue, x) => Contains(queue', x)
      /\ \A x \in Records : Contains(queue', x) => Contains(queue, x) \/ Valid(x)
      /\ Contains(queue', r) \/ Contains(queue', Lost)
  <2>1. CASE Len(queue) < QMax
    <3>1. /\ queue' = Append(queue, r) /\ Len(queue') = Len(queue) + 1
          /\ queue' \in Seq(Records)
          /\ \A x : Contains(queue', x) <=> Contains(queue, x) \/ x = r
      BY <1>1, <1>2, <1>5, <2>1, InAppend
    <3>2. Len(queue') <= QMax + 1 /\ ~(Len(queue') > QMax)
      BY <1>2, <2>1, <3>1
    <3> QED BY <1>6, <3>1, <3>2
  <2>2. CASE ~(Len(queue) < QMax) /\ Last(queue) # Lost
    <3>1. /\ queue' = Append(queue, Lost) /\ Len(queue') = Len(queue) + 1
          /\ queue' \in Seq(Records) /\ Last(queue') = Lost
          /\ \A x : Contains(queue', x) <=> Contains(queue, x) \/ x = Lost
      BY <1>1, <1>2, <1>5, <2>2, InAppend
    <3>2. Len(queue') <= QMax + 1
      BY <1>2, <2>2, <3>1
    <3> QED BY <1>6, <3>1, <3>2
  <2>3. CASE ~(Len(queue) < QMax) /\ Last(queue) = Lost
    <3>1. queue' = queue
      BY <1>1, <2>3
    <3>2. queue # <<>>
      <4>1. Len(queue) # 0
        BY <1>2, <2>3
      <4> QED BY <4>1, EmptySeq
    <3>3. Contains(queue, Lost)
      BY <1>2, <2>3, <3>2, LastIn
    <3> QED BY <1>2, <3>1, <3>3
  <2> QED BY <2>1, <2>2, <2>3
<1>8. dirty' \subseteq Dirs \X Names
  BY <1>1 DEF FswInv, FswTypeOK
<1>9. FswTypeOK'
  BY <1>1, <1>7, <1>8 DEF FswInv, FswTypeOK
<1>10. CountInv' /\ ClaimInv' /\ ShutInv' /\ PlaceInv'
  BY <1>1 DEF FswInv, CountInv, ClaimInv, ShutInv, PlaceInv
<1>11. QueueInv'
  BY <1>1, <1>7, SameValid DEF FswInv, QueueInv
<1>12. RowsInv'
  BY <1>1, SameRows
<1>13. DirtyInv'
  <2>1. \A e : Claimed(e)' <=> Claimed(e)
    BY <1>1 DEF Claimed
  <2> QED BY <1>1, <2>1 DEF FswInv, DirtyInv
<1>14. TrackInv'
  <2> SUFFICES ASSUME ~broken, NEW c \in dirty'
               PROVE  \/ Carries(queue, c)' \/ Carries(rows, c)'
                      \/ \E v \in rescan : kwd[v] = c[1]
    BY <1>1 DEF TrackInv
  <2>1. CASE c \in dirty
    <3>1. \/ Carries(queue, c) \/ Carries(rows, c)
          \/ \E v \in rescan : kwd[v] = c[1]
      BY <2>1 DEF FswInv, TrackInv
    <3>2. Carries(queue, c) => Carries(queue, c)'
      BY <1>1, <1>7, SameValid DEF Carries
    <3>3. Carries(rows, c) => Carries(rows, c)'
      BY <1>1, SameValid DEF Carries
    <3> QED BY <3>1, <3>2, <3>3
  <2>2. CASE c \notin dirty
    <3>1. c = <<d, n>> /\ c[1] = d /\ c[2] = n
      BY <1>1, <2>2
    <3>2. Valid(r)' /\ r.of = c[1] /\ r.name = c[2]
      BY <1>1, <1>5, <1>6, <3>1, SameValid
    <3> QED BY <1>5, <1>7, <3>2 DEF Carries
  <2> QED BY <2>1, <2>2
<1> QED BY <1>9, <1>10, <1>11, <1>12, <1>13, <1>14 DEF FswInv

-----------------------------------------------------------------------------
(* The handler.                                                            *)

\* lost(): whoever is owed something is told by the overflow callback, or is
\* claimed and so comes up in forEach.
LEMMA LostTells ==
    ASSUME FswInv, NEW b \in BOOLEAN, lost(b), UNCHANGED <<open, kwd, dirs, subs, broken>>
    PROVE  /\ DirtyInv' /\ TrackInv'
           /\ rescan' \subseteq subs /\ rescan' \subseteq Wds
           /\ dirty' \subseteq dirty /\ quits' = b
           /\ at' \in {"cb", "lost"} /\ (rescan' # {} => at' = "lost")
<1>1. /\ at' = IF over THEN "cb" ELSE "lost"
      /\ rescan' = IF over THEN {} ELSE subs
      /\ dirty' = IF over THEN {} ELSE dirty
      /\ quits' = b
  BY DEF lost, Visited
<1>2. subs \subseteq Wds
  BY DEF FswInv, FswTypeOK
<1>3. \A e : Claimed(e)' <=> Claimed(e)
  BY DEF Claimed
<1>4. DirtyInv'
  BY <1>1, <1>3 DEF FswInv, DirtyInv
<1>5. \A c \in dirty' : \E w \in rescan' : kwd'[w] = c[1]
  BY <1>1 DEF FswInv, DirtyInv, Claimed
<1> QED BY <1>1, <1>2, <1>4, <1>5 DEF TrackInv

\* pol calls the handler: it has no rows yet.
LEMMA DispatchStep ==
    ASSUME FswInv, dispatch
    PROVE  FswInv'
<1>1. /\ at = "pol" /\ at' = "loop" /\ fresh' = TRUE /\ restarted' = FALSE
      /\ UNCHANGED <<open, kwd, queue, dirs, subs, over, calls, polled, rows, rescan, quits,
                     dirty, broken>> /\ queue # <<>>
  BY DEF dispatch, claims, inotify, program
<1>2. rows = <<>> /\ rescan = {} /\ ~quits /\ open
  BY <1>1 DEF FswInv, PlaceInv, ShutInv
<1>3. FswTypeOK'
  BY <1>1 DEF FswInv, FswTypeOK
<1>4. CountInv' /\ ClaimInv' /\ ShutInv' /\ PlaceInv'
  BY <1>1, <1>2 DEF FswInv, CountInv, ClaimInv, ShutInv, PlaceInv
<1>5. QueueInv'
  BY <1>1, SameQueue
<1>6. RowsInv'
  BY <1>1, <1>2, NoneIn DEF RowsInv
<1>7. DirtyInv' /\ TrackInv'
  BY <1>1, SameValid, StaysTracked
<1> QED BY <1>3, <1>4, <1>5, <1>6, <1>7 DEF FswInv

\* The drain failed: everything it may have read and dropped is told by lost().
LEMMA DrainFailsStep ==
    ASSUME FswInv, at = "loop", DrainFails, NEW m \in 0 .. Len(queue),
           queue' = (IF m = 0 THEN queue ELSE SubSeq(queue, m + 1, Len(queue))),
           UNCHANGED <<rows, open, kwd, dirs, subs, over, calls, polled, fresh,
                       restarted, broken>>
    PROVE  FswInv'
<1>1. /\ DirtyInv' /\ TrackInv'
      /\ rescan' \subseteq subs /\ rescan' \subseteq Wds
      /\ dirty' \subseteq dirty /\ quits' = TRUE
      /\ at' \in {"cb", "lost"} /\ (rescan' # {} => at' = "lost")
  BY LostTells DEF DrainFails
<1>2. rows = <<>>
  BY DEF FswInv, PlaceInv
<1>3. queue \in Seq(Records) /\ Len(queue) \in Nat /\ Len(queue) <= QMax + 1 /\ QMax \in Nat
  BY LenProperties, FswAssumption DEF FswInv, FswTypeOK
<1>4. /\ queue' \in Seq(Records) /\ Len(queue') <= QMax + 1
      /\ Len(queue') > QMax => queue' = queue
      /\ \A x : Contains(queue', x) => Contains(queue, x)
  <2>1. CASE m = 0
    BY <1>3, <2>1
  <2>2. CASE m # 0
    <3>1. m \in 1 .. Len(queue)
      BY <1>3, <2>2
    <3>2. /\ queue' \in Seq(Records) /\ Len(queue') = Len(queue) - m
          /\ \A x : Contains(queue', x) => Contains(queue, x)
      BY <1>3, <2>2, <3>1, InParts
    <3>3. Len(queue') <= QMax + 1 /\ ~(Len(queue') > QMax)
      BY <1>3, <3>1, <3>2
    <3> QED BY <3>2, <3>3
  <2> QED BY <2>1, <2>2
<1>5. FswTypeOK'
  BY <1>1, <1>4 DEF FswInv, FswTypeOK
<1>6. CountInv' /\ ClaimInv' /\ PlaceInv'
  BY <1>1, <1>2 DEF FswInv, CountInv, ClaimInv, PlaceInv
<1>7. ShutInv'
  <2> SUFFICES ASSUME ~open PROVE queue' = <<>> /\ dirty' = {}
    BY DEF FswInv, ShutInv
  <2>1. queue = <<>> /\ dirty = {}
    BY DEF FswInv, ShutInv
  <2>2. Len(queue) = 0
    BY <2>1, EmptySeq
  <2>3. m = 0
    BY <2>2
  <2> QED BY <1>1, <2>1, <2>3
<1>8. QueueInv'
  BY <1>4, SameValid DEF FswInv, QueueInv
<1>9. RowsInv'
  BY SameRows
<1> QED BY <1>1, <1>5, <1>6, <1>7, <1>8, <1>9 DEF FswInv

\* One bite of the drain moves records from the queue to the rows.
LEMMA DrainStep ==
    ASSUME FswInv, drain
    PROVE  FswInv'
<1>1. /\ at = "loop"
      /\ UNCHANGED <<open, kwd, dirs, subs, over, calls, polled, fresh, restarted, broken>>
  BY DEF drain, claims, program
<1>2. rows = <<>> /\ rescan = {} /\ ~quits
  BY <1>1 DEF FswInv, PlaceInv
<1>3. queue \in Seq(Records) /\ Len(queue) \in Nat /\ Len(queue) <= QMax + 1 /\ QMax \in Nat
  BY LenProperties, FswAssumption DEF FswInv, FswTypeOK
<1>4. CASE /\ queue = <<>> /\ at' = "pol"
           /\ UNCHANGED <<queue, rows, rescan, dirty, quits>>
  <2>1. FswTypeOK'
    BY <1>1, <1>4 DEF FswInv, FswTypeOK
  <2>2. CountInv' /\ ClaimInv' /\ ShutInv' /\ PlaceInv'
    BY <1>1, <1>2, <1>4 DEF FswInv, CountInv, ClaimInv, ShutInv, PlaceInv
  <2>3. QueueInv' /\ RowsInv'
    BY <1>1, <1>4, SameQueue, SameRows
  <2>4. DirtyInv' /\ TrackInv'
    BY <1>1, <1>4, SameValid, StaysTracked
  <2> QED BY <2>1, <2>2, <2>3, <2>4 DEF FswInv
<1>5. ASSUME NEW m \in 1 .. Len(queue), m <= BufMax, open,
             queue' = SubSeq(queue, m + 1, Len(queue)),
             rows' = SubSeq(queue, 1, m), at' = "rows",
             UNCHANGED <<rescan, dirty, quits>>
      PROVE  FswInv'
  <2>1. /\ queue' \in Seq(Records) /\ Len(queue') = Len(queue) - m
        /\ rows' \in Seq(Records) /\ Len(rows') = m
        /\ \A x : Contains(queue, x) <=> Contains(rows', x) \/ Contains(queue', x)
    BY <1>3, <1>5, InParts
  <2>2. Len(queue') <= QMax + 1 /\ ~(Len(queue') > QMax) /\ Len(rows') <= BufMax
    BY <1>3, <1>5, <2>1
  <2>3. FswTypeOK'
    BY <1>1, <1>5, <2>1, <2>2 DEF FswInv, FswTypeOK
  <2>4. CountInv' /\ ClaimInv' /\ ShutInv' /\ PlaceInv'
    BY <1>1, <1>2, <1>5 DEF FswInv, CountInv, ClaimInv, ShutInv, PlaceInv
  <2>5. \A r \in Records : Contains(queue, r) => Valid(r)'
    BY <1>1, SameValid DEF FswInv, QueueInv
  <2>6. QueueInv' /\ RowsInv'
    BY <2>1, <2>2, <2>5 DEF QueueInv, RowsInv
  <2>7. DirtyInv'
    BY <1>1, <1>5 DEF FswInv, DirtyInv, Claimed
  <2>8. TrackInv'
    <3> SUFFICES ASSUME ~broken, NEW c \in dirty
                 PROVE  Carries(queue, c)' \/ Carries(rows, c)'
      BY <1>1, <1>5 DEF TrackInv
    <3>1. Carries(queue, c) \/ Carries(rows, c)
      BY <1>2 DEF FswInv, TrackInv
    <3>2. ~Carries(rows, c)
      BY <1>2, NoneIn DEF Carries
    <3>3. PICK r \in Records : /\ Contains(queue, r)
                               /\ r = Lost \/ (Valid(r) /\ r.of = c[1] /\ r.name = c[2])
      BY <3>1, <3>2 DEF Carries
    <3>4. Contains(rows', r) \/ Contains(queue', r)
      BY <2>1, <3>3
    <3> QED BY <2>5, <3>3, <3>4 DEF Carries
  <2> QED BY <2>3, <2>4, <2>6, <2>7, <2>8 DEF FswInv
<1>6. ASSUME NEW m \in 1 .. Len(queue), UNCHANGED rows, DrainFails,
             queue' = SubSeq(queue, m + 1, Len(queue))
      PROVE  FswInv'
  <2>1. m \in 0 .. Len(queue) /\ m # 0
    BY <1>3
  <2> QED BY <1>1, <1>6, <2>1, DrainFailsStep
<1>7. CASE DrainFails /\ UNCHANGED <<queue, rows>>
  <2>1. 0 \in 0 .. Len(queue)
    BY <1>3
  <2> QED BY <1>1, <1>7, <2>1, DrainFailsStep
<1> QED BY <1>4, <1>5, <1>6, <1>7 DEF drain

\* The handler reads some other file: the watcher was stopped under it, so
\* nothing is said of the rows, and what is owed is still in the queue.
LEMMA OtherFileStep ==
    ASSUME FswInv, NEW rs \in OtherRows, drainOther(rs)
    PROVE  FswInv'
<1>1. /\ at = "loop" /\ ~fresh /\ rows' = rs
      /\ at' = IF rs = <<>> THEN "pol" ELSE "rows"
      /\ UNCHANGED <<open, kwd, queue, dirs, subs, over, calls, polled, fresh, rescan,
                     quits, dirty, restarted, broken>>
  BY DEF drainOther, claims, inotify, program
<1>2. rows = <<>> /\ rescan = {} /\ ~quits /\ restarted
  BY <1>1 DEF FswInv, PlaceInv
<1>3. rs \in Seq(Records) /\ Len(rs) <= BufMax
  <2>1. <<>> \in Seq(Records) /\ Len(<<>>) = 0 /\ 0 <= BufMax /\ 1 <= BufMax
    BY EmptySeq, FswAssumption
  <2>2. ASSUME NEW r \in Garbage
        PROVE  <<r>> \in Seq(Records) /\ Len(<<r>>) = 1
    <3>1. r \in Records
      BY DEF Garbage
    <3> HIDE DEF Records
    <3> QED BY <3>1
  <2> QED BY <2>1, <2>2 DEF OtherRows
<1>4. FswTypeOK'
  BY <1>1, <1>3 DEF FswInv, FswTypeOK
<1>5. CountInv' /\ ClaimInv' /\ ShutInv' /\ PlaceInv'
  BY <1>1, <1>2 DEF FswInv, CountInv, ClaimInv, ShutInv, PlaceInv
<1>6. QueueInv' /\ RowsInv'
  BY <1>1, <1>2, SameQueue DEF RowsInv
<1>7. DirtyInv' /\ TrackInv'
  BY <1>1, <1>2, NoneIn, SameValid, StaysTracked
<1> QED BY <1>4, <1>5, <1>6, <1>7 DEF FswInv

\* A step that changes where the handler is, and nothing that is owed.
LEMMA MoveStep ==
    ASSUME FswInv, at' \in {"pol", "loop", "rows", "lost", "each", "cb"},
           quits' \in BOOLEAN, quits' => quits, PlaceInv',
           UNCHANGED <<open, kwd, queue, dirs, subs, over, calls, polled, fresh, rows,
                       rescan, dirty, restarted, broken>>
    PROVE  FswInv'
<1>1. FswTypeOK'
  BY DEF FswInv, FswTypeOK
<1>2. CountInv' /\ ClaimInv' /\ ShutInv'
  BY DEF FswInv, CountInv, ClaimInv, ShutInv
<1>3. QueueInv' /\ RowsInv'
  BY SameQueue, SameRows
<1>4. DirtyInv' /\ TrackInv'
  BY SameValid, StaysTracked
<1> QED BY <1>1, <1>2, <1>3, <1>4 DEF FswInv

\* A row goes to the directory it came from, so what it settles is what it
\* carried.
LEMMA RowStep ==
    ASSUME FswInv, row
    PROVE  FswInv'
<1>1. /\ at = "rows"
      /\ UNCHANGED <<open, kwd, queue, dirs, subs, over, calls, polled, fresh, restarted,
                     broken>>
  BY DEF row, claims, program, inotify
<1>2. rescan = {} /\ ~quits
  BY <1>1 DEF FswInv, PlaceInv
<1>3. rows \in Seq(Records) /\ Len(rows) \in Nat /\ Len(rows) <= BufMax /\ BufMax \in Nat
  BY LenProperties, FswAssumption DEF FswInv, FswTypeOK
<1>4. CASE rows = <<>>
  <2>1. at' = "loop" /\ UNCHANGED <<rows, rescan, dirty, quits>>
    BY <1>4 DEF row
  <2>2. PlaceInv' /\ quits' \in BOOLEAN
    BY <1>1, <1>2, <1>4, <2>1 DEF PlaceInv, FswInv, FswTypeOK
  <2> QED BY <1>1, <2>1, <2>2, MoveStep
<1>5. CASE rows # <<>>
  <2>1. PICK r : r = Head(rows)
    OBVIOUS
  <2>2. /\ r \in Records /\ Tail(rows) \in Seq(Records)
        /\ Len(Tail(rows)) = Len(rows) - 1
        /\ \A x : Contains(rows, x) <=> x = r \/ Contains(Tail(rows), x)
    BY <1>3, <1>5, <2>1, InTail
  <2>3. rows' = Tail(rows)
    BY <1>5 DEF row
  <2>4. Len(rows') <= BufMax
    BY <1>3, <2>2, <2>3
  <2>5. RowsInv'
    BY <1>1, <2>2, <2>3, SameValid DEF FswInv, RowsInv
  <2>6. QueueInv'
    BY <1>1, SameQueue
  <2>7. CASE r = Lost
    <3>1. lost(FALSE)
      BY <1>5, <2>1, <2>7 DEF row
    <3>2. /\ DirtyInv' /\ TrackInv'
          /\ rescan' \subseteq subs /\ rescan' \subseteq Wds
          /\ dirty' \subseteq dirty /\ quits' = FALSE
          /\ at' \in {"cb", "lost"} /\ (rescan' # {} => at' = "lost")
      BY <1>1, <3>1, LostTells
    <3>3. FswTypeOK'
      BY <1>1, <2>2, <2>3, <2>4, <3>2 DEF FswInv, FswTypeOK
    <3>4. CountInv' /\ ClaimInv' /\ ShutInv' /\ PlaceInv'
      BY <1>1, <3>2 DEF FswInv, CountInv, ClaimInv, ShutInv, PlaceInv
    <3> QED BY <2>5, <2>6, <3>2, <3>3, <3>4 DEF FswInv
  <2>8. CASE r # Lost
    <3>1. /\ UNCHANGED <<rescan, quits>> /\ at' \in {"rows", "cb"}
          /\ dirty' = IF r.wd \in subs THEN dirty \ {<<dirs[r.wd], r.name>>} ELSE dirty
      BY <1>1, <1>5, <2>1, <2>8 DEF row, DirOf
    <3>2. FswTypeOK'
      BY <1>1, <2>2, <2>3, <2>4, <3>1 DEF FswInv, FswTypeOK
    <3>3. CountInv' /\ ClaimInv' /\ ShutInv' /\ PlaceInv'
      BY <1>1, <1>2, <3>1 DEF FswInv, CountInv, ClaimInv, ShutInv, PlaceInv
    <3>4. DirtyInv'
      <4>1. \A e : Claimed(e)' <=> Claimed(e)
        BY <1>1 DEF Claimed
      <4> QED BY <3>1, <4>1 DEF FswInv, DirtyInv
    <3>5. TrackInv'
      <4> SUFFICES ASSUME ~broken, NEW c \in dirty'
                   PROVE  Carries(queue, c)' \/ Carries(rows, c)'
        BY <1>1 DEF TrackInv
      <4>1. c \in dirty /\ c = <<c[1], c[2]>>
        BY <3>1 DEF FswInv, FswTypeOK
      <4>2. Carries(queue, c) \/ Carries(rows, c)
        BY <1>2, <4>1 DEF FswInv, TrackInv
      <4>3. Carries(queue, c) => Carries(queue, c)'
        BY <1>1, SameValid DEF Carries
      <4>4. ASSUME Carries(rows, c)
            PROVE  Carries(rows, c)'
        <5>1. PICK x \in Records : /\ Contains(rows, x)
                                   /\ x = Lost \/ (Valid(x) /\ x.of = c[1] /\ x.name = c[2])
          BY <4>4 DEF Carries
        <5>2. x # r
          <6>1. SUFFICES ASSUME x = r PROVE FALSE
            OBVIOUS
          <6>2. /\ r.wd \in 1 .. Len(kwd) /\ kwd[r.wd] = c[1] /\ r.name = c[2]
            BY <2>8, <5>1, <6>1 DEF Valid
          <6>3. PICK w \in subs : w \in 1 .. Len(kwd) /\ kwd[w] = c[1]
            BY <4>1 DEF FswInv, DirtyInv, Claimed, ClaimInv
          <6>4. r.wd \in subs
            BY <6>2, <6>3, OneWd DEF FswInv
          <6>5. dirs[r.wd] = c[1]
            BY <6>2, <6>4 DEF FswInv, ClaimInv
          <6> QED BY <3>1, <4>1, <6>2, <6>4, <6>5
        <5>3. Contains(rows', x)
          BY <2>2, <2>3, <5>1, <5>2
        <5> QED BY <1>1, <5>1, <5>3, SameValid DEF Carries
      <4> QED BY <4>2, <4>3, <4>4
    <3> QED BY <2>5, <2>6, <3>2, <3>3, <3>4, <3>5 DEF FswInv
  <2> QED BY <2>7, <2>8
<1> QED BY <1>4, <1>5

\* forEach comes to the next wd, or to its end.
LEMMA RescanStep ==
    ASSUME FswInv, rescanNext
    PROVE  FswInv'
<1>1. /\ at = "lost"
      /\ UNCHANGED <<open, kwd, queue, dirs, subs, over, calls, polled, fresh, rows,
                     restarted, broken>>
  BY DEF rescanNext, claims, program, inotify
<1>2. quits' \in BOOLEAN /\ (quits' => quits)
  BY DEF rescanNext
<1>3. CASE rescan = {}
  <2>1. /\ at' = (IF quits THEN "pol" ELSE "rows") /\ ~quits'
        /\ UNCHANGED <<rescan, dirty>>
    BY <1>3 DEF rescanNext
  <2>2. PlaceInv'
    BY <1>1, <1>3, <2>1 DEF PlaceInv, FswInv
  <2> QED BY <1>1, <1>2, <2>1, <2>2, MoveStep
<1>4. CASE rescan # {}
  <2>1. PICK w \in rescan : /\ at' = "each" /\ rescan' = rescan \ {w}
                            /\ dirty' = {c \in dirty : c[1] # dirs[w]}
    BY <1>4 DEF rescanNext
  <2>0. dirs[w] = kwd[w]
    BY DEF FswInv, ClaimInv
  <2>2. FswTypeOK'
    BY <1>1, <1>2, <2>1 DEF FswInv, FswTypeOK
  <2>3. CountInv' /\ ClaimInv' /\ ShutInv' /\ PlaceInv'
    BY <1>1, <1>2, <2>1 DEF FswInv, CountInv, ClaimInv, ShutInv, PlaceInv
  <2>4. QueueInv' /\ RowsInv'
    BY <1>1, SameQueue, SameRows
  <2>5. DirtyInv'
    <3>1. \A e : Claimed(e)' <=> Claimed(e)
      BY <1>1 DEF Claimed
    <3> QED BY <2>1, <3>1 DEF FswInv, DirtyInv
  <2>6. TrackInv'
    <3> SUFFICES ASSUME ~broken, NEW c \in dirty, c[1] # kwd[w]
                 PROVE  \/ Carries(queue, c)' \/ Carries(rows, c)'
                        \/ \E v \in rescan' : kwd'[v] = c[1]
      BY <1>1, <2>0, <2>1 DEF TrackInv
    <3>1. \/ Carries(queue, c) \/ Carries(rows, c)
          \/ \E v \in rescan : kwd[v] = c[1]
      BY DEF FswInv, TrackInv
    <3>2. CASE Carries(queue, c) \/ Carries(rows, c)
      BY <1>1, <3>2, SameValid DEF Carries
    <3>3. CASE \E v \in rescan : kwd[v] = c[1]
      BY <1>1, <2>1, <3>3
    <3> QED BY <3>1, <3>2, <3>3
  <2> QED BY <2>2, <2>3, <2>4, <2>5, <2>6 DEF FswInv
<1> QED BY <1>3, <1>4

\* A callback returns, or throws and takes the rows with it.
LEMMA CallbackStep ==
    ASSUME FswInv, callbackReturns \/ callbackThrows
    PROVE  FswInv'
<1>1. at \in {"each", "cb"}
  BY DEF callbackReturns, callbackThrows
<1>2. CASE callbackReturns
  <2>1. /\ at' = (IF at = "each" THEN "lost" ELSE IF quits THEN "pol" ELSE "rows")
        /\ quits' = (quits /\ at = "each")
        /\ UNCHANGED <<open, kwd, queue, dirs, subs, over, calls, polled, fresh, rows,
                       rescan, dirty, restarted, broken>>
    BY <1>2 DEF callbackReturns, claims, inotify, program
  <2>2. quits' \in BOOLEAN /\ (quits' => quits /\ at = "each")
    BY <2>1
  <2>3. PlaceInv'
    BY <1>1, <2>1, <2>2 DEF PlaceInv, FswInv
  <2> QED BY <2>1, <2>2, <2>3, MoveStep
<1>3. CASE callbackThrows
  <2>1. /\ at' = "pol" /\ rows' = <<>> /\ rescan' = {} /\ quits' = FALSE
        /\ polled' = FALSE /\ broken' = TRUE
        /\ UNCHANGED <<open, kwd, queue, dirs, subs, over, calls, fresh, dirty, restarted>>
    BY <1>3 DEF callbackThrows, claims, inotify, program
  <2>2. <<>> \in Seq(Records) /\ Len(<<>>) = 0 /\ 0 <= BufMax
    BY EmptySeq, FswAssumption
  <2>3. FswTypeOK'
    BY <2>1, <2>2 DEF FswInv, FswTypeOK
  <2>4. CountInv' /\ ClaimInv' /\ ShutInv' /\ PlaceInv'
    BY <2>1 DEF FswInv, CountInv, ClaimInv, ShutInv, PlaceInv
  <2>5. QueueInv'
    BY <2>1, SameQueue
  <2>6. RowsInv'
    BY <2>1, NoneIn DEF RowsInv
  <2>7. DirtyInv' /\ TrackInv'
    BY <2>1 DEF FswInv, DirtyInv, Claimed, TrackInv
  <2> QED BY <2>3, <2>4, <2>5, <2>6, <2>7 DEF FswInv
<1> QED BY <1>2, <1>3

-----------------------------------------------------------------------------

\* Every step keeps the invariant.
LEMMA FswStep ==
    ASSUME FswInv, [FswNext]_fswVars
    PROVE  FswInv'
<1>1. CASE UNCHANGED fswVars
  <2>1. UNCHANGED <<open, kwd, queue, dirs, subs, over, calls, polled, fresh, rows,
                    rescan, dirty, restarted, broken, at, quits>>
    BY <1>1 DEF fswVars
  <2>2. PlaceInv' /\ at' \in {"pol", "loop", "rows", "lost", "each", "cb"}
        /\ quits' \in BOOLEAN /\ (quits' => quits)
    BY <2>1 DEF FswInv, PlaceInv, FswTypeOK
  <2> QED BY <2>1, <2>2, MoveStep
<1>2. CASE FswNext
  BY <1>2, WatchStep, UnwatchStep, StopStep, OverflowStep, ChangeStep, DispatchStep,
     DrainStep, OtherFileStep, RowStep, RescanStep, CallbackStep DEF FswNext, FswHandler
<1> QED BY <1>1, <1>2

\* At first there is no watcher.
LEMMA FswBegins ==
    ASSUME FswInit
    PROVE  FswInv
<1>1. /\ <<>> \in Seq(Dirs) /\ <<>> \in Seq(Records) /\ Len(<<>>) = 0
      /\ DOMAIN <<>> = {}
  <2>1. <<>> \in Seq(Dirs) /\ <<>> \in Seq(Records) /\ Len(<<>>) = 0
    BY EmptySeq
  <2>2. DOMAIN <<>> = 1 .. 0
    BY <2>1, LenProperties
  <2> QED BY <2>1, <2>2
<1>2. IsInjective(<<>>)
  BY <1>1 DEF IsInjective
<1>3. 0 <= QMax + 1 /\ ~(0 > QMax) /\ 0 <= BufMax /\ 0 \in 0 .. MaxCalls /\ 0 <= 0
  BY FswAssumption
<1>4. FswTypeOK
  <2>1. dirs \in [subs -> Dirs]
    BY <1>1 DEF FswInit
  <2> QED BY <1>1, <1>2, <1>3, <2>1 DEF FswInit, FswTypeOK
<1>5. CountInv /\ ClaimInv /\ ShutInv /\ PlaceInv
  BY <1>1, <1>3 DEF FswInit, CountInv, ClaimInv, ShutInv, PlaceInv
<1>6. QueueInv /\ RowsInv
  BY <1>1, <1>3, NoneIn DEF FswInit, QueueInv, RowsInv
<1>7. DirtyInv /\ TrackInv
  BY DEF FswInit, DirtyInv, TrackInv
<1> QED BY <1>4, <1>5, <1>6, <1>7 DEF FswInv

\* The watcher keeps the inductive invariant, whatever the callbacks do in the
\* middle of the handler (fsw.watch, its handler, unwatch, stop).
THEOREM FswSafe == FswSpec => []FswInv
<1>1. FswInit => FswInv
  BY FswBegins
<1>2. FswInv /\ [FswNext]_fswVars => FswInv'
  BY FswStep
<1> QED BY <1>1, <1>2, PTL DEF FswSpec

\* Every variable keeps its type: in particular the kernel's queue holds at
\* most one mark beyond its limit, and the rows fit the Buf.
THEOREM FswTypes == FswSpec => []FswTypeOK
<1>1. FswInv => FswTypeOK
  BY DEF FswInv
<1> QED BY <1>1, FswSafe, PTL

\* A change nobody was told of is still on its way, through overflows, full
\* Bufs, and claims that come and go within a batch (the handler, lost).
THEOREM NeverMissed == FswSpec => []NothingMissed
<1>1. FswInv => NothingMissed
  <2> SUFFICES ASSUME FswInv, ~broken, NEW c \in dirty
               PROVE  OnItsWay(c[1], c[2])
    BY DEF NothingMissed
  <2>1. \/ Carries(queue, c) \/ Carries(rows, c)
        \/ \E w \in rescan : kwd[w] = c[1]
    BY DEF FswInv, TrackInv
  <2>2. \A w \in rescan : dirs[w] = kwd[w]
    BY DEF FswInv, ClaimInv
  <2> QED BY <2>1, <2>2 DEF Carries, Contains, OnItsWay
<1> QED BY <1>1, FswSafe, PTL

\* Each row reaches the directory its change was in, unless the watcher was
\* stopped within the same call of the handler.
THEOREM RowsFindTheirDirectory == FswSpec => RightDirectory
<1>1. ASSUME FswInv, row, rows # <<>>, Head(rows) # Lost, at' = "cb"
      PROVE  DirOf(Head(rows).wd) = Head(rows).of \/ restarted
  <2>1. Head(rows) \in Records /\ Contains(rows, Head(rows))
    BY <1>1, InTail DEF FswInv, FswTypeOK
  <2>2. Head(rows).wd \in subs
    BY <1>1 DEF row
  <2> QED BY <1>1, <2>1, <2>2 DEF FswInv, RowsInv, ClaimInv, Valid, DirOf
<1>2. FswInv /\ [FswNext]_fswVars =>
        [(row /\ at' = "cb" /\ rows # <<>> /\ Head(rows) # Lost) =>
             DirOf(Head(rows).wd) = Head(rows).of \/ restarted]_fswVars
  BY <1>1
<1> QED BY <1>2, FswSafe, PTL DEF FswSpec, RightDirectory
=============================================================================
