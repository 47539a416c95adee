--------------------------------- MODULE Net ---------------------------------
(***************************************************************************)
(* Servers, datagram sockets and TCP sockets of net.cpp over one table of  *)
(* file descriptors.  Each object registers a handler with pol under the   *)
(* number of its fd; the kernel gives a closed number to the next open.    *)
(* What a handler does after an event therefore acts on whatever file has  *)
(* its number by then.  The byte stream of one socket is in Socket, the    *)
(* inside of the loop in Pol.                                              *)
(*                                                                         *)
(* Event handlers of the program may open and close anything.              *)
(***************************************************************************)
EXTENDS Integers, FiniteSets, FiniteSetsExt

CONSTANTS
    Fds,      \* the file descriptors the process may have
    Servers,  \* net.createServer() objects
    Udps,     \* dgram.createSocket() objects
    Others,   \* files the program opens by other means (io.open)
    MaxIn     \* bound: connections and datagrams that ever arrive

ASSUME ConstantsAssumption ==
    /\ Fds \subseteq Nat /\ IsFiniteSet(Fds)
    /\ MaxIn \in Nat
    /\ Servers \cap Udps = {} /\ (Servers \cup Udps) \cap Others = {}
    /\ (Servers \cup Udps \cup Others) \cap Nat = {}

VARIABLES
    file,     \* fd -> the object whose file is open there, None if closed
    fdOf,     \* this.fd of servers and datagram sockets, Closed if -1
    handler,  \* pol: fd -> the object whose handler is registered
    pend,     \* fd -> connections or datagrams the kernel holds for it
    frame,    \* the handler on the stack
    stopped,  \* an exception has stopped the loop
    arrived,  \* connections and datagrams that have arrived
    reused    \* history: fds whose number was taken while a handler for the
              \* file before was still running, or still registered

vars == <<file, fdOf, handler, pend, frame, stopped, arrived, reused>>

None == 0
Closed == -1

\* Sockets are numbered; one more than there are fds, for a socket that is
\* closed while its handler runs.
Socks == 1 .. Cardinality(Fds) + 1
Listeners == Servers \cup Udps
Objects == Listeners \cup Socks
Files == Objects \cup Others
Idle == [obj |-> None, fd |-> Closed, at |-> "pol"]

TypeOK ==
    /\ file \in [Fds -> Files \cup {None}]
    /\ fdOf \in [Listeners -> Fds \cup {Closed}]
    /\ handler \in [Fds -> Objects \cup {None}]
    /\ pend \in [Fds -> 0 .. MaxIn]
    /\ frame \in {Idle} \cup [obj : Objects, fd : Fds, at : {"loop", "event"}]
    /\ stopped \in BOOLEAN
    /\ arrived \in 0 .. MaxIn
    /\ reused \subseteq Fds

Init ==
    /\ file = [f \in Fds |-> None]
    /\ fdOf = [o \in Listeners |-> Closed]
    /\ handler = [f \in Fds |-> None]
    /\ pend = [f \in Fds |-> 0]
    /\ frame = Idle
    /\ stopped = FALSE
    /\ arrived = 0
    /\ reused = {}

\* The program's turn: the script, an event inside a handler, or a timer, the
\* zero timers that emit 'listening' and 'connect' among them.
UserTurn == ~stopped /\ frame.at \in {"pol", "event"}

Free == {f \in Fds : file[f] = None}
NewSocks ==
    {k \in Socks : /\ frame.obj # k
                   /\ \A f \in Fds : file[f] # k /\ handler[f] # k}

\* The kernel opens a file for o at the lowest free number.  The history
\* notes when a handler for what had the number before can still run.
Opened(o, f) ==
    /\ file' = [file EXCEPT ![f] = o]
    /\ pend' = [pend EXCEPT ![f] = 0]
    /\ reused' = IF \/ frame.fd = f
                    \/ o \in Others /\ handler[f] # None
                 THEN reused \cup {f}
                 ELSE reused

\* Mutant: pol.watch is left to the first write.
Watched_Not(o, f) == handler

\* Mutant: pol.watch leaves a handler that is already there.
Watched_Once(o, f) ==
    IF handler[f] = None THEN [handler EXCEPT ![f] = o] ELSE handler

\* pol.watch(fd, IN, handler).
Watched(o, f) == [handler EXCEPT ![f] = o]

-----------------------------------------------------------------------------
(* The calls of the program.                                               *)

\* A new file under this.fd, whatever was there; or the leaf throws for want of
\* a descriptor, and nothing changes.
Bound(o) ==
    /\ UserTurn
    /\ Free # {}
    /\ LET f == Min(Free) IN
         /\ Opened(o, f)
         /\ fdOf' = [fdOf EXCEPT ![o] = f]
         /\ handler' = Watched(o, f)
    /\ UNCHANGED <<frame, stopped, arrived>>

\* Server.listen.
listen(o) == o \in Servers /\ Bound(o)

\* Dgram.bind, over dgram._bind.
bind(o) == o \in Udps /\ Bound(o)

\* net._close(fd): the number is free at once.
ClosedAt(f) == [file EXCEPT ![f] = None]

\* Mutant: this.fd keeps its number.
Forgotten_Kept(o) == fdOf

\* this.fd = -1.
Forgotten(o) == [fdOf EXCEPT ![o] = Closed]

\* Server.close, Dgram.close: unwatch, close, this.fd = -1.
close(o) ==
    /\ UserTurn
    /\ fdOf[o] # Closed
    /\ handler' = [handler EXCEPT ![fdOf[o]] = None]
    /\ file' = ClosedAt(fdOf[o])
    /\ pend' = [pend EXCEPT ![fdOf[o]] = 0]
    /\ fdOf' = Forgotten(o)
    /\ UNCHANGED <<frame, stopped, arrived, reused>>

\* net.connect: the connection is made before the call returns.
connect ==
    /\ UserTurn
    /\ Free # {} /\ NewSocks # {}
    /\ LET f == Min(Free)
           k == Min(NewSocks) IN
         /\ Opened(k, f)
         /\ handler' = Watched(k, f)
    /\ UNCHANGED <<fdOf, frame, stopped, arrived>>

\* Socket.destroy: _doClose closes the fd and leaves it to pol.
destroy(f) ==
    /\ UserTurn
    /\ file[f] \in Socks
    /\ file' = ClosedAt(f)
    /\ UNCHANGED <<fdOf, handler, pend, frame, stopped, arrived, reused>>

\* The program opens and closes files of its own.
openOther(x) ==
    /\ UserTurn
    /\ Free # {}
    /\ \A f \in Fds : file[f] # x
    /\ Opened(x, Min(Free))
    /\ UNCHANGED <<fdOf, handler, frame, stopped, arrived>>

closeOther(f) ==
    /\ UserTurn
    /\ file[f] \in Others
    /\ file' = [file EXCEPT ![f] = None]
    /\ UNCHANGED <<fdOf, handler, pend, frame, stopped, arrived, reused>>

\* An exception leaves the handler: pol drops the fd, by number, and stops.
Thrown ==
    /\ stopped' = TRUE
    /\ frame' = Idle
    /\ handler' = [handler EXCEPT ![frame.fd] = None]
    /\ UNCHANGED <<file, fdOf, pend, arrived, reused>>

\* An event handler throws: the emit loop, and the handler with it, is left.
throw == frame.at = "event" /\ Thrown

\* The kernel queues a connection or a datagram at f.
Queued(f) ==
    /\ arrived < MaxIn
    /\ arrived' = arrived + 1
    /\ pend' = [pend EXCEPT ![f] = @ + 1]
    /\ UNCHANGED <<file, fdOf, handler, frame, stopped, reused>>

\* Dgram.send to a datagram socket of this process.  One that is lost, that
\* would block or that goes elsewhere is no step; one from an unbound socket
\* throws.
send(o, f) ==
    /\ UserTurn
    /\ fdOf[o] # Closed
    /\ file[f] \in Udps
    /\ Queued(f)

\* A datagram or a connection arrives from elsewhere.
arrive(f) ==
    /\ ~stopped
    /\ file[f] \in Listeners
    /\ Queued(f)

-----------------------------------------------------------------------------
(* The loop and the handlers.                                              *)

\* The poll reports f: something waits, or the number is closed (NVAL).  A
\* socket has always something to report.
Ready(f) == handler[f] # None /\ (pend[f] > 0 \/ file[f] \notin Listeners)

\* pol._fd calls the handler: the loop of a server or of a datagram socket,
\* or _poll, whose events are the program's turn.  A closed socket only finds
\* out by NVAL.
dispatch(f) ==
    /\ ~stopped /\ frame = Idle
    /\ Ready(f)
    /\ frame' = [obj |-> handler[f], fd |-> f,
                 at |-> IF handler[f] \in Socks THEN "event" ELSE "loop"]
    /\ UNCHANGED <<file, fdOf, handler, pend, stopped, arrived, reused>>

\* net._accept(fd): with anything but a listening fd, nothing pending or no
\* descriptor left, it answers -1.
CanAccept(f) == file[f] \in Servers /\ pend[f] > 0 /\ Free # {}

\* One round of the accept loop, on the number the handler was called with.
accept ==
    /\ frame.at = "loop" /\ frame.obj \in Servers
    /\ CanAccept(frame.fd)
    /\ LET g == Min(Free)
           k == Min(NewSocks) IN
         /\ file' = [file EXCEPT ![g] = k]
         /\ pend' = [pend EXCEPT ![g] = 0, ![frame.fd] = @ - 1]
         /\ handler' = Watched(k, g)
    /\ frame' = [frame EXCEPT !.at = "event"]
    /\ UNCHANGED <<fdOf, stopped, arrived, reused>>

\* Mutant: the server's loop lets go of the fd when the backlog is empty.
Kept_Dropped(f) == [handler EXCEPT ![f] = None]

\* The handler returns pol.IN: registrations stay as they are.
Kept(f) == handler

\* The backlog is empty: return pol.IN, whoever has the fd by now.
acceptDrained ==
    /\ frame.at = "loop" /\ frame.obj \in Servers
    /\ ~CanAccept(frame.fd)
    /\ handler' = Kept(frame.fd)
    /\ frame' = Idle
    /\ UNCHANGED <<file, fdOf, pend, stopped, arrived, reused>>

\* this.fd < 0: closed by a prior 'message' handler.
ClosedMeanwhile(o) == fdOf[o] = Closed

\* Dgram: return 0, which makes pol drop whatever the number is by now.
recvClosed ==
    /\ frame.at = "loop" /\ frame.obj \in Udps
    /\ ClosedMeanwhile(frame.obj)
    /\ handler' = [handler EXCEPT ![frame.fd] = None]
    /\ frame' = Idle
    /\ UNCHANGED <<file, fdOf, pend, stopped, arrived, reused>>

\* dgram._recv(fd): a datagram, nothing (EAGAIN), or an exception for a number
\* that is closed or a listening socket.  Any other file gives what it has.
recv ==
    /\ frame.at = "loop" /\ frame.obj \in Udps
    /\ ~ClosedMeanwhile(frame.obj)
    /\ LET f == frame.fd IN
         \/ /\ file[f] \in Udps /\ pend[f] > 0
            /\ pend' = [pend EXCEPT ![f] = @ - 1]
            /\ frame' = [frame EXCEPT !.at = "event"]
            /\ UNCHANGED <<file, fdOf, handler, stopped, arrived, reused>>
         \/ /\ file[f] \in Socks
            /\ frame' = [frame EXCEPT !.at = "event"]
            /\ UNCHANGED <<file, fdOf, handler, pend, stopped, arrived,
                           reused>>
         \/ /\ file[f] \in Socks \cup Udps /\ pend[f] = 0
            /\ frame' = Idle
            /\ UNCHANGED <<file, fdOf, handler, pend, stopped, arrived,
                           reused>>
         \/ file[f] \notin Socks \cup Udps /\ Thrown

\* The event handlers have returned: the loops go round again; _poll returns
\* its mask, which is 0 for a closed socket.
eventEnds ==
    /\ frame.at = "event"
    /\ IF frame.obj \in Socks
       THEN /\ frame' = Idle
            /\ handler' = IF file[frame.fd] = frame.obj THEN handler
                          ELSE [handler EXCEPT ![frame.fd] = None]
       ELSE /\ frame' = [frame EXCEPT !.at = "loop"]
            /\ UNCHANGED handler
    /\ UNCHANGED <<file, fdOf, pend, stopped, arrived, reused>>

-----------------------------------------------------------------------------

UserNext ==
    \/ \E o \in Listeners : listen(o) \/ bind(o) \/ close(o)
    \/ \E f \in Fds : destroy(f) \/ closeOther(f)
    \/ \E x \in Others : openOther(x)
    \/ \E o \in Udps, f \in Fds : send(o, f)
    \/ connect \/ throw

LoopNext ==
    \/ \E f \in Fds : dispatch(f)
    \/ accept \/ acceptDrained \/ recvClosed \/ recv \/ eventEnds

Next == UserNext \/ LoopNext \/ \E f \in Fds : arrive(f)

\* Handlers return, and each round of the loop serves every fd that poll(2)
\* reports: a fd that stays ready cannot be passed over for ever.
Fairness ==
    /\ \A f \in Fds : SF_vars(pend[f] > 0 /\ dispatch(f))
    /\ WF_vars(accept) /\ WF_vars(acceptDrained)
    /\ WF_vars(recvClosed) /\ WF_vars(recv) /\ WF_vars(eventEnds)

Spec == Init /\ [][Next]_vars /\ Fairness

-----------------------------------------------------------------------------
(* Properties.                                                             *)

\* An open server or socket is never deaf: the handler registered for its fd
\* is its own, although pol drops registrations by number and closed numbers
\* come back at once; but for a number taken under a running handler, where
\* the return value of the old handler is applied to the new file.
NeverDeaf ==
    stopped \/ \A f \in Fds :
        (file[f] \in Socks \/ \E o \in Listeners : fdOf[o] = f) =>
            handler[f] = file[f] \/ f \in reused

\* this.fd of a server or a datagram socket is its own open file: no order of
\* closes and re-opens makes close() hit a file that got the number later.
OwnsItsFd == \A o \in Listeners : fdOf[o] # Closed => file[fdOf[o]] = o

\* The loops of servers and datagram sockets, and _poll, act on the file they
\* were registered for or find it closed: a connection or a datagram reaches
\* nobody else; but for numbers taken under a running handler or under the
\* registration a destroyed socket leaves in pol.
ActsOnOwnFile ==
    [][/\ (accept \/ recv) =>
              file[frame.fd] \in {frame.obj, None} \/ frame.fd \in reused
       /\ \A f \in Fds : dispatch(f) =>
              file[f] \in {handler[f], None} \/ f \in reused]_vars

\* A connection waiting at a listening server is accepted, unless the server
\* is closed or the process is out of descriptors.
Accepted ==
    \A f \in Fds :
        (file[f] \in Servers /\ pend[f] > 0) ~>
            (pend[f] = 0 \/ Free = {} \/ stopped \/ f \in reused)
=============================================================================
