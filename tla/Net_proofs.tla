------------------------------ MODULE Net_proofs ------------------------------
(***************************************************************************)
(* Proofs about Net, for any table of descriptors and any number of        *)
(* servers, datagram sockets and other files.                              *)
(*                                                                         *)
(* A registration in pol and the frame on the stack are both numbers that  *)
(* outlive the file they were made for.  The invariant says what each may  *)
(* still name: its own file, no file, or a number the history has marked.  *)
(***************************************************************************)
EXTENDS Net, FiniteSetTheorems, WellFoundedInduction, TLAPS

\* The registration of a number is for the file open there, unless that file
\* is gone or the number was taken under the registration.
RegInv ==
    \A f \in Fds : handler[f] # None =>
        file[f] \in {handler[f], None} \/ f \in reused

\* The same of the handler on the stack.
FrameInv ==
    frame # Idle => file[frame.fd] \in {frame.obj, None} \/ frame.fd \in reused

\* A number stands for one socket at most, open or still registered.
OneSock ==
    \A f \in Fds :
        file[f] \in Socks /\ handler[f] \in Socks => file[f] = handler[f]

\* No queue holds more than has arrived.
PendInv == \A f \in Fds : pend[f] <= arrived

NetInv ==
    TypeOK /\ PendInv /\ OneSock /\ OwnsItsFd /\ RegInv /\ FrameInv /\ NeverDeaf

-----------------------------------------------------------------------------
(* The kernel's choice of a number, and the model's choice of a socket.    *)

\* A set of numbers that is not empty has its minimum in it.
LEMMA MinIn ==
    ASSUME NEW S \in SUBSET Nat, S # {}
    PROVE  Min(S) \in S
<1> DEFINE R == {ss \in Nat \X Nat : ss[1] < ss[2]}
<1>1. IsWellFoundedOn(R, Nat)
  BY NatLessThanWellFounded, Zenon DEF OpToRel
<1>2. PICK x \in S : \A y \in S : ~(<<y, x>> \in R)
  BY <1>1, WFMin
<1>3. ASSUME NEW y \in S
      PROVE  x <= y
  <2>1. x \in Nat /\ y \in Nat
    OBVIOUS
  <2>2. ~(<<y, x>> \in R)
    BY <1>2
  <2>3. <<y, x>> \in Nat \X Nat
    BY <2>1
  <2>4. y < x => <<y, x>> \in R
    BY <2>3
  <2> QED BY <2>1, <2>2, <2>4
<1> QED BY <1>3 DEF Min

\* An open gets a number that was free.
LEMMA FreeFd ==
    ASSUME Free # {}
    PROVE  Min(Free) \in Fds /\ file[Min(Free)] = None
BY MinIn, ConstantsAssumption DEF Free

\* The sockets are numbers, and there is one more of them than there are fds.
LEMMA SockNumbers ==
    /\ Socks \in SUBSET Nat /\ None \notin Socks
    /\ IsFiniteSet(Socks) /\ Cardinality(Fds) < Cardinality(Socks)
<1>1. Cardinality(Fds) \in Nat
  BY ConstantsAssumption, FS_CardinalityType
<1>2. /\ IsFiniteSet(1 .. Cardinality(Fds) + 1)
      /\ Cardinality(1 .. Cardinality(Fds) + 1) = Cardinality(Fds) + 1
  BY <1>1, FS_Interval
<1> QED BY <1>1, <1>2 DEF Socks, None

\* A server's accept always finds a socket number to give: every number that
\* is taken sits at a fd of its own.
LEMMA SockLeft ==
    ASSUME TypeOK, OneSock, frame.obj \notin Socks
    PROVE  NewSocks # {}
<1> SUFFICES ASSUME NewSocks = {} PROVE FALSE
  OBVIOUS
<1> DEFINE At(k) == CHOOSE f \in Fds : file[f] = k \/ handler[f] = k
           at == [k \in Socks |-> At(k)]
<1>1. \A k \in Socks : \E f \in Fds : file[f] = k \/ handler[f] = k
  BY DEF NewSocks
<1>2. \A k \in Socks : /\ At(k) \in Fds
                       /\ file[At(k)] = k \/ handler[At(k)] = k
  BY <1>1
<1> HIDE DEF At
<1>3. at \in [Socks -> Fds]
  BY <1>2
<1>4. \A k \in Socks : at[k] = At(k)
  OBVIOUS
<1>5. IsFiniteSet(Fds) /\ IsFiniteSet(Socks)
      /\ Cardinality(Fds) < Cardinality(Socks)
  BY SockNumbers, ConstantsAssumption
<1> HIDE DEF at
<1>6. \E j, k \in Socks : j # k /\ at[j] = at[k]
  BY <1>3, <1>5, FS_PigeonHole
<1> QED BY <1>2, <1>4, <1>6 DEF OneSock

\* The socket a new connection becomes.
LEMMA NewSock ==
    ASSUME NewSocks # {}
    PROVE  Min(NewSocks) \in Socks
<1>1. NewSocks \in SUBSET Nat
  BY SockNumbers DEF NewSocks
<1> QED BY <1>1, MinIn DEF NewSocks

-----------------------------------------------------------------------------
(* One lemma for each shape of step.                                       *)

\* Objects of different kinds are never equal, and none is the absent one.
LEMMA Kinds ==
    /\ Listeners \cap Socks = {} /\ Listeners \cap Others = {}
    /\ Socks \cap Others = {}
    /\ None \notin Files /\ None \notin Socks /\ Closed \notin Fds
<1>1. None \in Nat /\ Closed \notin Nat
  BY DEF None, Closed
<1>2. Socks \subseteq Nat /\ None \notin Socks
  BY SockNumbers
<1> QED BY <1>1, <1>2, ConstantsAssumption DEF Listeners, Files, Objects

\* A handler on the stack is a record of an object and its number.
Frames == [obj : Objects, fd : Fds, at : {"loop", "event"}]

\* A handler that runs is on the stack, with an object and a number.
LEMMA Running ==
    ASSUME TypeOK, frame.at \in {"loop", "event"}
    PROVE  /\ frame \in Frames /\ frame # Idle
           /\ frame.fd \in Fds /\ frame.obj \in Objects
<1>1. Idle.at = "pol"
  BY DEF Idle
<1>2. frame # Idle
  BY <1>1
<1> QED BY <1>2 DEF TypeOK, Frames

\* Going from the loop into an event and back leaves a frame.
LEMMA MoveFrame ==
    ASSUME NEW r \in Frames, NEW a \in {"loop", "event"}
    PROVE  /\ [r EXCEPT !.at = a] \in Frames
           /\ [r EXCEPT !.at = a].fd = r.fd
           /\ [r EXCEPT !.at = a].obj = r.obj
BY DEF Frames

\* The types, the bound on the queues and the one socket per number survive a
\* step: what accept and connect write into the tables are objects.
LEMMA TypeStep ==
    ASSUME TypeOK, PendInv, OneSock, [Next]_vars
    PROVE  TypeOK' /\ PendInv' /\ OneSock'
<1> USE Kinds DEF PendInv, OneSock
<1>1. ASSUME NEW o \in Listeners, listen(o) \/ bind(o)
      PROVE  TypeOK' /\ PendInv' /\ OneSock'
  <2>1. PICK f \in Fds : /\ f = Min(Free) /\ file[f] = None
                         /\ Opened(o, f)
                         /\ fdOf' = [fdOf EXCEPT ![o] = f]
                         /\ handler' = [handler EXCEPT ![f] = o]
                         /\ UNCHANGED <<frame, stopped, arrived>>
    BY <1>1, FreeFd DEF listen, bind, Bound, Watched
  <2>2. o \in Objects /\ o \in Files /\ o \notin Socks
    BY DEF Files, Objects
  <2>3. pend' \in [Fds -> 0 .. MaxIn] /\ PendInv'
    BY <2>1, ConstantsAssumption DEF TypeOK, Opened
  <2>4. OneSock'
    BY <2>1, <2>2 DEF TypeOK, Opened
  <2> QED BY <2>1, <2>2, <2>3, <2>4 DEF TypeOK, Opened
<1>2. ASSUME NEW o \in Listeners, close(o)
      PROVE  TypeOK' /\ PendInv' /\ OneSock'
  BY <1>2, ConstantsAssumption DEF TypeOK, close, ClosedAt, Forgotten
<1>3. ASSUME NEW f \in Fds, destroy(f) \/ closeOther(f)
      PROVE  TypeOK' /\ PendInv' /\ OneSock'
  BY <1>3 DEF TypeOK, destroy, closeOther, ClosedAt, Files, Objects
<1>4. ASSUME NEW x \in Others, openOther(x)
      PROVE  TypeOK' /\ PendInv' /\ OneSock'
  <2>1. PICK f \in Fds : Opened(x, f) /\ UNCHANGED <<fdOf, handler, frame, stopped, arrived>>
    BY <1>4, FreeFd DEF openOther
  <2>2. x \in Files /\ x \notin Socks
    BY DEF Files
  <2>3. pend' \in [Fds -> 0 .. MaxIn] /\ PendInv'
    BY <2>1, ConstantsAssumption DEF TypeOK, Opened
  <2>4. OneSock'
    BY <2>1, <2>2 DEF TypeOK, Opened
  <2> QED BY <2>1, <2>2, <2>3, <2>4 DEF TypeOK, Opened
<1>5. CASE connect
  <2>1. PICK f \in Fds, k \in Socks :
              /\ Opened(k, f)
              /\ handler' = [handler EXCEPT ![f] = k]
              /\ UNCHANGED <<fdOf, frame, stopped, arrived>>
    BY <1>5, FreeFd, NewSock DEF connect, Watched
  <2>2. k \in Objects /\ k \in Files
    BY DEF Files, Objects
  <2>3. pend' \in [Fds -> 0 .. MaxIn] /\ PendInv'
    BY <2>1, ConstantsAssumption DEF TypeOK, Opened
  <2>4. OneSock'
    BY <2>1 DEF TypeOK, Opened
  <2> QED BY <2>1, <2>2, <2>3, <2>4 DEF TypeOK, Opened
<1>6. CASE throw
  <2>1. frame.fd \in Fds
    BY <1>6, Running DEF throw
  <2> QED BY <1>6, <2>1 DEF TypeOK, throw, Thrown
<1>7. ASSUME NEW f \in Fds, dispatch(f)
      PROVE  TypeOK' /\ PendInv' /\ OneSock'
  BY <1>7 DEF TypeOK, dispatch, Ready
<1>8. CASE accept
  <2>1. NewSocks # {}
    BY <1>8, SockLeft DEF accept, Listeners
  <2>2. PICK g \in Fds, k \in Socks :
              /\ file' = [file EXCEPT ![g] = k]
              /\ pend' = [pend EXCEPT ![g] = 0, ![frame.fd] = @ - 1]
              /\ handler' = [handler EXCEPT ![g] = k]
              /\ g # frame.fd /\ pend[frame.fd] > 0
              /\ frame' = [frame EXCEPT !.at = "event"]
              /\ UNCHANGED <<fdOf, stopped, arrived, reused>>
    BY <1>8, <2>1, FreeFd, NewSock
       DEF accept, CanAccept, Watched, Files, Objects, Listeners
  <2>3. frame \in Frames /\ frame.fd \in Fds
    BY <1>8, Running DEF accept
  <2>4. frame' \in Frames
    BY <2>2, <2>3, MoveFrame
  <2>5. pend' \in [Fds -> 0 .. MaxIn] /\ PendInv'
    BY <2>2, <2>3, ConstantsAssumption DEF TypeOK
  <2> QED BY <2>2, <2>4, <2>5 DEF TypeOK, Files, Objects, Frames
<1>9. CASE acceptDrained
  BY <1>9 DEF TypeOK, acceptDrained, Kept
<1>10. CASE recvClosed
  <2>1. frame.fd \in Fds
    BY <1>10, Running DEF recvClosed
  <2> QED BY <1>10, <2>1 DEF TypeOK, recvClosed
<1>11. CASE recv
  <2>1. frame \in Frames /\ frame.fd \in Fds
    BY <1>11, Running DEF recv
  <2>2. [frame EXCEPT !.at = "event"] \in Frames
    BY <2>1, MoveFrame
  <2>3. CASE /\ pend[frame.fd] > 0
             /\ pend' = [pend EXCEPT ![frame.fd] = @ - 1]
             /\ frame' = [frame EXCEPT !.at = "event"]
             /\ UNCHANGED <<file, fdOf, handler, stopped, arrived, reused>>
    <3>1. pend' \in [Fds -> 0 .. MaxIn] /\ PendInv'
      BY <2>1, <2>3, ConstantsAssumption DEF TypeOK
    <3> QED BY <2>2, <2>3, <3>1 DEF TypeOK, Frames
  <2>4. CASE /\ frame' \in {[frame EXCEPT !.at = "event"], Idle}
             /\ UNCHANGED <<file, fdOf, handler, pend, stopped, arrived, reused>>
    BY <2>2, <2>4 DEF TypeOK, Frames
  <2>5. CASE Thrown
    BY <2>1, <2>5 DEF TypeOK, Thrown
  <2> QED BY <1>11, <2>3, <2>4, <2>5 DEF recv
<1>12. CASE eventEnds
  <2>1. frame \in Frames /\ frame.fd \in Fds
    BY <1>12, Running DEF eventEnds
  <2>2. [frame EXCEPT !.at = "loop"] \in Frames
    BY <2>1, MoveFrame
  <2> QED BY <1>12, <2>1, <2>2 DEF TypeOK, eventEnds, Frames
<1>13. ASSUME NEW f \in Fds, Queued(f)
       PROVE  TypeOK' /\ PendInv' /\ OneSock'
  <2>1. pend[f] \in 0 .. MaxIn /\ arrived \in 0 .. MaxIn /\ pend[f] <= arrived
    BY DEF TypeOK
  <2>2. arrived' \in 0 .. MaxIn /\ pend[f] + 1 \in 0 .. MaxIn
    BY <1>13, <2>1, ConstantsAssumption DEF Queued
  <2> QED BY <1>13, <2>1, <2>2, ConstantsAssumption DEF TypeOK, Queued
<1>14. CASE UNCHANGED vars
  BY <1>14 DEF TypeOK, vars
<1> QED
  BY <1>1, <1>2, <1>3, <1>4, <1>5, <1>6, <1>7, <1>8, <1>9, <1>10, <1>11,
     <1>12, <1>13, <1>14 DEF Next, UserNext, LoopNext, send, arrive

-----------------------------------------------------------------------------
(* What the numbers stand for.                                             *)

Owners == OwnsItsFd /\ RegInv /\ FrameInv /\ NeverDeaf

\* listen, bind and connect: a number that was free goes to o, and its handler
\* with it.
LEMMA OpenStep ==
    ASSUME TypeOK, Owners, NEW f \in Fds, file[f] = None, NEW o \in Objects,
           Opened(o, f), handler' = [handler EXCEPT ![f] = o],
           \/ fdOf' = fdOf
           \/ o \in Listeners /\ fdOf' = [fdOf EXCEPT ![o] = f],
           UNCHANGED <<frame, stopped>>
    PROVE  Owners'
<1> USE Kinds DEF TypeOK, Opened
<1>1. \A l \in Listeners : fdOf[l] # f
  BY DEF Owners, OwnsItsFd, Files, Objects
<1>2. OwnsItsFd'
  BY <1>1 DEF Owners, OwnsItsFd
<1>3. RegInv'
  BY DEF Owners, RegInv
<1>4. FrameInv'
  <2>1. CASE frame.fd = f
    BY <2>1 DEF FrameInv
  <2>2. CASE frame.fd # f
    <3>1. frame # Idle => frame.fd \in Fds
      OBVIOUS
    <3> QED BY <2>2, <3>1 DEF Owners, FrameInv
  <2> QED BY <2>1, <2>2
<1>5. NeverDeaf'
  BY <1>1 DEF Owners, NeverDeaf
<1> QED BY <1>2, <1>3, <1>4, <1>5 DEF Owners

\* close, destroy and the program's own close: the number f falls free, with
\* or without its registration.
LEMMA CloseStep ==
    ASSUME TypeOK, Owners, NEW f \in Fds,
           file' = [file EXCEPT ![f] = None],
           handler' \in {handler, [handler EXCEPT ![f] = None]},
           \/ fdOf' = fdOf /\ file[f] \notin Listeners
           \/ \E o \in Listeners :
                 fdOf[o] = f /\ fdOf' = [fdOf EXCEPT ![o] = Closed],
           UNCHANGED <<frame, stopped, reused>>
    PROVE  Owners'
<1> USE Kinds DEF TypeOK
<1>1. \A l \in Listeners : fdOf'[l] # f
  BY DEF Owners, OwnsItsFd
<1>2. \A l \in Listeners : fdOf'[l] \in {fdOf[l], Closed}
  OBVIOUS
<1>3. OwnsItsFd'
  BY <1>1, <1>2 DEF Owners, OwnsItsFd
<1>4. RegInv'
  BY DEF Owners, RegInv
<1>5. FrameInv'
  <2>1. frame # Idle => frame.fd \in Fds
    OBVIOUS
  <2> QED BY <2>1 DEF Owners, FrameInv
<1>6. NeverDeaf'
  BY <1>1, <1>2 DEF Owners, NeverDeaf
<1> QED BY <1>3, <1>4, <1>5, <1>6 DEF Owners

\* The loop drops the registration of f: nobody who is open is at f, or the
\* history knows the number, or the loop has stopped.
LEMMA DropStep ==
    ASSUME TypeOK, Owners, NEW f \in Fds,
           handler' = [handler EXCEPT ![f] = None],
           \/ stopped'
           \/ f \in reused
           \/ file[f] \notin Socks /\ \A o \in Listeners : fdOf[o] # f,
           stopped => stopped', frame' = Idle,
           UNCHANGED <<file, fdOf, reused>>
    PROVE  Owners'
<1> USE Kinds DEF TypeOK
<1>1. OwnsItsFd'
  BY DEF Owners, OwnsItsFd
<1>2. RegInv' /\ FrameInv'
  BY DEF Owners, RegInv, FrameInv
<1>3. NeverDeaf'
  BY DEF Owners, NeverDeaf
<1> QED BY <1>1, <1>2, <1>3 DEF Owners

\* Only the stack changes: the handler goes in or out of an event, or returns.
LEMMA StayStep ==
    ASSUME TypeOK, Owners,
           \/ frame' = Idle
           \/ frame.at \in {"loop", "event"}
              /\ \E a \in {"loop", "event"} : frame' = [frame EXCEPT !.at = a]
           \/ frame' = frame,
           UNCHANGED <<file, fdOf, handler, stopped, reused>>
    PROVE  Owners'
<1>1. FrameInv'
  <2>1. CASE frame' \in {Idle, frame}
    BY <2>1 DEF Owners, FrameInv
  <2>2. CASE frame.at \in {"loop", "event"}
             /\ \E a \in {"loop", "event"} : frame' = [frame EXCEPT !.at = a]
    <3>1. frame \in Frames /\ frame # Idle
      BY <2>2, Running
    <3>2. frame'.fd = frame.fd /\ frame'.obj = frame.obj
      BY <2>2, <3>1, MoveFrame
    <3> QED BY <3>1, <3>2 DEF Owners, FrameInv
  <2> QED BY <2>1, <2>2
<1> QED BY <1>1 DEF Owners, OwnsItsFd, RegInv, NeverDeaf

\* A connection is accepted: a free number other than the server's own.
LEMMA AcceptStep ==
    ASSUME TypeOK, OneSock, Owners, accept
    PROVE  Owners'
<1> USE Kinds DEF TypeOK
<1>1. NewSocks # {}
  BY SockLeft DEF accept, Listeners
<1>2. PICK g \in Fds, k \in Socks :
            /\ file[g] = None
            /\ file' = [file EXCEPT ![g] = k]
            /\ handler' = [handler EXCEPT ![g] = k]
            /\ g # frame.fd
            /\ frame' = [frame EXCEPT !.at = "event"]
            /\ UNCHANGED <<fdOf, stopped, reused>>
  BY <1>1, FreeFd, NewSock
     DEF accept, CanAccept, Watched, Files, Objects, Listeners
<1>3. frame \in Frames /\ frame # Idle /\ frame.fd \in Fds
  BY Running DEF accept
<1>4. frame'.fd = frame.fd /\ frame'.obj = frame.obj
  BY <1>2, <1>3, MoveFrame
<1>5. \A l \in Listeners : fdOf[l] # g
  BY <1>2 DEF Owners, OwnsItsFd, Files, Objects
<1>6. OwnsItsFd'
  BY <1>2, <1>5 DEF Owners, OwnsItsFd
<1>7. RegInv'
  BY <1>2 DEF Owners, RegInv
<1>8. FrameInv'
  BY <1>2, <1>3, <1>4 DEF Owners, FrameInv
<1>9. NeverDeaf'
  BY <1>2, <1>5 DEF Owners, NeverDeaf
<1> QED BY <1>6, <1>7, <1>8, <1>9 DEF Owners

\* Every step keeps what the numbers stand for.
LEMMA OwnersStep ==
    ASSUME TypeOK, OneSock, Owners, [Next]_vars
    PROVE  Owners'
<1>1. ASSUME NEW o \in Listeners, listen(o) \/ bind(o)
      PROVE  Owners'
  <2>1. PICK f \in Fds : /\ file[f] = None /\ Opened(o, f)
                         /\ fdOf' = [fdOf EXCEPT ![o] = f]
                         /\ handler' = [handler EXCEPT ![f] = o]
                         /\ UNCHANGED <<frame, stopped>>
    BY <1>1, FreeFd DEF listen, bind, Bound, Watched
  <2> QED BY <2>1, OpenStep DEF Objects
<1>2. ASSUME NEW o \in Listeners, close(o)
      PROVE  Owners'
  <2>1. fdOf[o] \in Fds
    BY <1>2 DEF close, TypeOK
  <2> QED BY <1>2, <2>1, CloseStep DEF close, ClosedAt, Forgotten
<1>3. ASSUME NEW f \in Fds, destroy(f) \/ closeOther(f)
      PROVE  Owners'
  <2>1. file[f] \notin Listeners
    BY <1>3, Kinds DEF destroy, closeOther
  <2> QED BY <1>3, <2>1, CloseStep DEF destroy, closeOther, ClosedAt
<1>4. ASSUME NEW x \in Others, openOther(x)
      PROVE  Owners'
  <2> USE Kinds DEF TypeOK, Opened
  <2>1. PICK f \in Fds : /\ file[f] = None /\ Opened(x, f)
                         /\ UNCHANGED <<fdOf, handler, frame, stopped>>
    BY <1>4, FreeFd DEF openOther
  <2>2. \A l \in Listeners : fdOf[l] # f
    BY <2>1 DEF Owners, OwnsItsFd, Files, Objects
  <2>3. OwnsItsFd'
    BY <2>1, <2>2 DEF Owners, OwnsItsFd
  <2>4. RegInv'
    BY <2>1 DEF Owners, RegInv
  <2>5. FrameInv'
    <3>1. frame # Idle => frame.fd \in Fds
      OBVIOUS
    <3> QED BY <2>1, <3>1 DEF Owners, FrameInv
  <2>6. NeverDeaf'
    BY <2>1, <2>2 DEF Owners, NeverDeaf
  <2> QED BY <2>3, <2>4, <2>5, <2>6 DEF Owners
<1>5. CASE connect
  <2>1. PICK f \in Fds, k \in Socks :
              /\ file[f] = None /\ Opened(k, f)
              /\ handler' = [handler EXCEPT ![f] = k]
              /\ UNCHANGED <<fdOf, frame, stopped>>
    BY <1>5, FreeFd, NewSock DEF connect, Watched
  <2> QED BY <2>1, OpenStep DEF Objects
<1>6. CASE throw
  <2>1. frame.fd \in Fds
    BY <1>6, Running DEF throw
  <2> QED BY <1>6, <2>1, DropStep DEF throw, Thrown
<1>7. ASSUME NEW f \in Fds, dispatch(f)
      PROVE  Owners'
  <2>1. FrameInv'
    BY <1>7 DEF dispatch, Ready, Owners, RegInv, FrameInv
  <2> QED BY <1>7, <2>1 DEF dispatch, Owners, OwnsItsFd, RegInv, NeverDeaf
<1>8. CASE accept
  BY <1>8, AcceptStep
<1>9. CASE acceptDrained
  BY <1>9, StayStep DEF acceptDrained, Kept
<1>10. CASE recvClosed
  <2>1. frame.fd \in Fds /\ frame # Idle
    BY <1>10, Running DEF recvClosed
  <2>2. frame.obj \in Listeners /\ fdOf[frame.obj] = Closed
    BY <1>10 DEF recvClosed, ClosedMeanwhile, Listeners
  <2>3. \/ frame.fd \in reused
        \/ /\ file[frame.fd] \notin Socks
           /\ \A o \in Listeners : fdOf[o] # frame.fd
    BY <2>1, <2>2, Kinds DEF Owners, FrameInv, OwnsItsFd, Files, Objects
  <2> QED BY <1>10, <2>1, <2>3, DropStep DEF recvClosed
<1>11. CASE recv
  <2>1. frame.fd \in Fds
    BY <1>11, Running DEF recv
  <2>2. CASE Thrown
    BY <2>1, <2>2, DropStep DEF Thrown
  <2>3. CASE ~Thrown
    BY <1>11, <2>3, StayStep DEF recv
  <2> QED BY <2>2, <2>3
<1>12. CASE eventEnds
  <2>1. frame.fd \in Fds /\ frame # Idle
    BY <1>12, Running DEF eventEnds
  <2>2. CASE frame.obj \in Socks /\ file[frame.fd] # frame.obj
    <3>1. \/ frame.fd \in reused
          \/ /\ file[frame.fd] \notin Socks
             /\ \A o \in Listeners : fdOf[o] # frame.fd
      BY <2>1, <2>2, Kinds DEF Owners, FrameInv, OwnsItsFd, Files, Objects
    <3> QED BY <1>12, <2>1, <2>2, <3>1, DropStep DEF eventEnds
  <2>3. CASE ~(frame.obj \in Socks /\ file[frame.fd] # frame.obj)
    BY <1>12, <2>3, StayStep DEF eventEnds
  <2> QED BY <2>2, <2>3
<1>13. ASSUME NEW f \in Fds, Queued(f)
       PROVE  Owners'
  BY <1>13, StayStep DEF Queued
<1>14. CASE UNCHANGED vars
  BY <1>14, StayStep DEF vars
<1> QED
  BY <1>1, <1>2, <1>3, <1>4, <1>5, <1>6, <1>7, <1>8, <1>9, <1>10, <1>11,
     <1>12, <1>13, <1>14 DEF Next, UserNext, LoopNext, send, arrive

-----------------------------------------------------------------------------
(* The theorems.                                                           *)

\* The whole invariant holds in every state net.cpp can reach.
THEOREM NetSafe == Spec => []NetInv
<1>1. Init => NetInv
  <2> SUFFICES ASSUME Init PROVE NetInv
    OBVIOUS
  <2>1. TypeOK /\ PendInv
    <3>1. 0 \in 0 .. MaxIn
      BY ConstantsAssumption
    <3>2. /\ pend \in [Fds -> 0 .. MaxIn] /\ arrived \in 0 .. MaxIn
          /\ PendInv
      BY <3>1 DEF Init, PendInv
    <3>3. /\ file \in [Fds -> Files \cup {None}]
          /\ fdOf \in [Listeners -> Fds \cup {Closed}]
          /\ handler \in [Fds -> Objects \cup {None}]
      BY DEF Init
    <3>4. frame = Idle /\ stopped = FALSE /\ reused \subseteq Fds
      BY DEF Init
    <3> QED BY <3>2, <3>3, <3>4 DEF TypeOK
  <2>2. OneSock /\ RegInv /\ FrameInv
    BY Kinds DEF Init, OneSock, RegInv, FrameInv
  <2>3. OwnsItsFd /\ NeverDeaf
    BY Kinds DEF Init, OwnsItsFd, NeverDeaf
  <2> QED BY <2>1, <2>2, <2>3 DEF NetInv
<1>2. NetInv /\ [Next]_vars => NetInv'
  BY TypeStep, OwnersStep DEF NetInv, Owners
<1> QED BY <1>1, <1>2, PTL DEF Spec

\* Net's state keeps its types: in particular the accept loop always has a
\* socket to wrap the connection in, and no queue outgrows what arrived.
THEOREM NetTypes == Spec => []TypeOK
<1>1. NetInv => TypeOK
  BY DEF NetInv
<1> QED BY <1>1, NetSafe, PTL

\* this.fd of a server or datagram socket is its own open file, so that
\* Server.close and Dgram.close never close somebody else's.
THEOREM FdOwned == Spec => []OwnsItsFd
<1>1. NetInv => OwnsItsFd
  BY DEF NetInv
<1> QED BY <1>1, NetSafe, PTL

\* An open server or socket has its own handler registered in pol, unless its
\* number was taken under a running handler.
THEOREM NoneDeaf == Spec => []NeverDeaf
<1>1. NetInv => NeverDeaf
  BY DEF NetInv
<1> QED BY <1>1, NetSafe, PTL

\* The accept and recv loops and the dispatch of pol._fd act on the file they
\* were registered for, on none, or on a number the history has marked.
THEOREM OwnFileOnly == Spec => ActsOnOwnFile
<1> DEFINE Act == /\ (accept \/ recv) =>
                         \/ file[frame.fd] \in {frame.obj, None}
                         \/ frame.fd \in reused
                  /\ \A f \in Fds : dispatch(f) =>
                         file[f] \in {handler[f], None} \/ f \in reused
<1>1. NetInv /\ [Next]_vars => [Act]_vars
  <2> SUFFICES ASSUME NetInv PROVE Act
    OBVIOUS
  <2>1. accept \/ recv => frame # Idle
    BY Running DEF NetInv, accept, recv
  <2>2. \A f \in Fds : dispatch(f) => handler[f] # None
    BY DEF dispatch, Ready
  <2> QED BY <2>1, <2>2 DEF NetInv, FrameInv, RegInv
<1> QED BY <1>1, NetSafe, PTL DEF Spec, ActsOnOwnFile

=============================================================================
