------------------------------- MODULE InstanceIO -------------------------------
(***************************************************************************)
(* The host side of one Instance (host.go, sockets.go): its event queue,   *)
(* its sockets with their reader and dialer goroutines, its timers, the    *)
(* dispatcher that hands events to the guest, and the shutdown that any    *)
(* of them may start.                                                      *)
(*                                                                         *)
(* One step is one critical section of socketsMu, timersMu or a socket's   *)
(* mu, or one channel operation.  The guest is single-threaded and runs    *)
(* only inside the dispatcher: it is represented by the host imports it    *)
(* may call, in any order, and by one obligation (Owed) that Unbound meets *)
(* when it is woken.  An import finds its socket and locks it in one step: *)
(* if the socket is closed in between, the import changes nothing.         *)
(*                                                                         *)
(* The imports trust the guest in two ways that are hypotheses here, each  *)
(* a constant, so that what depends on them shows:                         *)
(*   GuestBinds         a UDP socket is bound before it is sent from;      *)
(*   GuestConnectsOnce  a TCP socket is connected once.                    *)
(*                                                                         *)
(* The network is represented by what reads, dials and timers may produce. *)
(* The replay hooks of the tests are left out.                             *)
(***************************************************************************)
EXTENDS Naturals, Sequences, FiniteSets

CONSTANTS
    QueueCap,      \* capacity of the event channel (1024 in the code)
    MaxSockets,    \* maxSocketsPerInstance (256)
    MaxTimers,     \* maxTimersPerInstance (8192)
    LastSid,       \* bound: socket identifiers handed out
    LastTid,       \* bound: timer identifiers handed out
    MaxPackets,    \* bound: reads that return data
    MaxChunks,     \* bound: size of what one read returns
    MaxConnects,   \* bound: dials of one socket
    GuestBinds,    \* the guest binds a UDP socket before it sends from it
    GuestConnectsOnce
                   \* the guest connects a TCP socket once

ASSUME BoundsAssumption ==
    /\ {QueueCap, MaxSockets, MaxTimers, LastSid, LastTid, MaxPackets, MaxChunks} \subseteq Nat
    /\ MaxConnects \in Nat \ {0}
    /\ GuestBinds \in BOOLEAN /\ GuestConnectsOnce \in BOOLEAN

Sids == 1..LastSid
Tids == 1..LastTid

\* The connections of a socket: the one of a UDP socket, or one for each dial.
Links == Sids \X (1..MaxConnects)
Of(s) == {l \in Links : l[1] = s}
Udp(s) == <<s, 1>>

VARIABLES
    events,      \* the event channel
    spc,         \* shutdown: "idle", "timers", "sockets", "done"
    cause,       \* s.err and why: "none", "close", "overflow"
    sockets,     \* the keys of s.sockets
    nextSocket,
    typ,         \* "udp", "tcp" (or "none": not opened)
    sclosed,     \* sock.closed
    conn,        \* a connection: "none", "open" or "closed" if sock.udp or sock.tcp
                 \* is it, "lost" if it is open but sock.tcp is another one by now
    queue,       \* sock.queue: the sizes of what is left of each packet
    serr,        \* sock.err # nil
    reader,      \* readUDP or readTCP of a connection
    dialer,      \* connectTCP of a connection
    packets,     \* reads that have returned data
    timers,      \* the keys of s.timers
    nextTimer,
    tpc,         \* the life of a timer
    gpc,         \* the dispatcher: ResolveAll and the guest below it
    gsid,        \* the socket of the import it is in
    owed,        \* the event the guest was woken for and has not collected yet
    told         \* history: the guest has been given an error of this socket

shutVars  == <<events, spc, cause>>
sockVars  == <<sockets, nextSocket, typ, sclosed, conn, queue, serr>>
netVars   == <<reader, dialer, packets>>
timerVars == <<timers, nextTimer, tpc>>
guestVars == <<gpc, gsid, owed, told>>
vars      == <<shutVars, sockVars, netVars, timerVars, guestVars>>

NoEvent == <<"none", 0>>
Events  == ({"read", "write", "err"} \X Sids) \cup ({"timer"} \X Tids)

\* s.done is closed; s.timers and s.sockets have been set to nil.
Done       == spc # "idle"
TimersNil  == spc \in {"sockets", "done"}
SocketsNil == spc = "done"

Queued(ev) == \E k \in 1..Len(events) : events[k] = ev

Init ==
    /\ events = <<>> /\ spc = "idle" /\ cause = "none"
    /\ sockets = {} /\ nextSocket = 1
    /\ typ = [s \in Sids |-> "none"]
    /\ sclosed = [s \in Sids |-> FALSE]
    /\ conn = [l \in Links |-> "none"]
    /\ queue = [s \in Sids |-> <<>>]
    /\ serr = [s \in Sids |-> FALSE]
    /\ reader = [l \in Links |-> "none"]
    /\ dialer = [l \in Links |-> "none"]
    /\ packets = 0
    /\ timers = {} /\ nextTimer = 1
    /\ tpc = [t \in Tids |-> "none"]
    /\ gpc = "idle" /\ gsid = 0 /\ owed = NoEvent
    /\ told = [s \in Sids |-> FALSE]

-----------------------------------------------------------------------------
(***************************************************************************)
(* The event queue and shutdown.                                           *)
(***************************************************************************)
\* The first caller of shutdown records the cause and closes s.done.
shutdown(c) ==
    IF Done THEN UNCHANGED <<spc, cause>> ELSE spc' = "timers" /\ cause' = c

\* Mutant of enqueue: one event more than the buffer holds.
enqueueOneMore(ev) ==
    \/ Len(events) <= QueueCap /\ events' = Append(events, ev) /\ UNCHANGED <<spc, cause>>
    \/ Done /\ UNCHANGED shutVars
    \/ ~Done /\ Len(events) > QueueCap /\ shutdown("overflow") /\ UNCHANGED events

\* The send if there is room; dropped when s.done is closed; otherwise, with the
\* buffer full, the instance fails.
enqueue(ev) ==
    \/ Len(events) < QueueCap /\ events' = Append(events, ev) /\ UNCHANGED <<spc, cause>>
    \/ Done /\ UNCHANGED shutVars
    \/ ~Done /\ Len(events) >= QueueCap /\ shutdown("overflow") /\ UNCHANGED events

\* Instance.Close or Runtime.Close, from any goroutine.
Close ==
    /\ ~Done /\ shutdown("close")
    /\ UNCHANGED <<events, sockVars, netVars, timerVars, guestVars>>

StopTimers ==
    /\ spc = "timers"
    /\ tpc' = [t \in Tids |-> IF t \in timers /\ tpc[t] = "armed" THEN "stopped" ELSE tpc[t]]
    /\ timers' = {} /\ spc' = "sockets"
    /\ UNCHANGED <<events, cause, sockVars, netVars, nextTimer, guestVars>>

\* hostSocket.close: the connection that the socket has by now is closed.
closeSockets(S) ==
    /\ sclosed' = [s \in Sids |-> sclosed[s] \/ s \in S]
    /\ conn' = [l \in Links |-> IF l[1] \in S /\ conn[l] = "open" THEN "closed" ELSE conn[l]]

CloseSockets ==
    /\ spc = "sockets"
    /\ closeSockets(sockets)
    /\ sockets' = {} /\ spc' = "done"
    /\ UNCHANGED <<events, cause, nextSocket, typ, queue, serr, netVars, timerVars, guestVars>>

-----------------------------------------------------------------------------
(***************************************************************************)
(* Socket imports, called by the guest.                                    *)
(***************************************************************************)
InGuest(s) == gpc = "guest" /\ s \in sockets

\* sock.udp and sock.tcp are nil.
NoConn(s) == \A l \in Of(s) : conn[l] = "none"

sockOpen(ty) ==
    /\ gpc = "guest" /\ nextSocket \in Sids
    /\ ~SocketsNil /\ Cardinality(sockets) < MaxSockets
    /\ sockets' = sockets \cup {nextSocket}
    /\ typ' = [typ EXCEPT ![nextSocket] = ty]
    /\ nextSocket' = nextSocket + 1
    /\ UNCHANGED <<shutVars, sclosed, conn, queue, serr, netVars, timerVars, guestVars>>

\* The listener and its reader goroutine; nothing if there is one already.
listenUDPLocked(s) ==
    IF ~NoConn(s) THEN UNCHANGED <<conn, reader>>
    ELSE /\ conn' = [conn EXCEPT ![Udp(s)] = "open"]
         /\ reader' = [reader EXCEPT ![Udp(s)] = "reading"]

\* Binding a TCP socket only records the port.  A listen that fails changes
\* nothing.
sockBind(s) ==
    /\ InGuest(s) /\ ~sclosed[s] /\ NoConn(s) /\ typ[s] = "udp"
    /\ listenUDPLocked(s)
    /\ UNCHANGED <<shutVars, sockets, nextSocket, typ, sclosed, queue, serr,
                   dialer, packets, timerVars, guestVars>>

\* The next dial of a socket.
NextDial(l) ==
    /\ dialer[l] = "none"
    /\ \A o \in Of(l[1]) : o[2] < l[2] => dialer[o] # "none"
    /\ GuestConnectsOnce => l[2] = 1

\* To an address the egress policy allows.  A TCP socket without a connection
\* dials, also when a dial is under way or has failed.
sockConnect(s) ==
    /\ InGuest(s) /\ ~sclosed[s]
    /\ \/ /\ typ[s] = "udp"
          /\ listenUDPLocked(s)
          /\ gpc' = "connect" /\ gsid' = s /\ UNCHANGED dialer
       \/ /\ typ[s] = "tcp" /\ NoConn(s)
          /\ \E l \in Of(s) : NextDial(l) /\ dialer' = [dialer EXCEPT ![l] = "dialing"]
          /\ UNCHANGED <<conn, reader, gpc, gsid>>
    /\ UNCHANGED <<shutVars, sockets, nextSocket, typ, sclosed, queue, serr,
                   packets, timerVars, owed, told>>

\* A UDP socket is writable at once.
ConnectEnqueue ==
    /\ gpc = "connect"
    /\ enqueue(<<"write", gsid>>)
    /\ gpc' = "guest" /\ gsid' = 0
    /\ UNCHANGED <<sockVars, netVars, timerVars, owed, told>>

\* The closed check of sockSendTo; a socket that has its connection then writes,
\* which changes nothing here.  Without one the lock is taken again.
sockSendTo(s) ==
    /\ InGuest(s) /\ ~sclosed[s] /\ typ[s] = "udp" /\ NoConn(s)
    /\ ~GuestBinds
    /\ gpc' = "send" /\ gsid' = s
    /\ UNCHANGED <<shutVars, sockVars, netVars, timerVars, owed, told>>

SendListen ==
    /\ gpc = "send"
    /\ listenUDPLocked(gsid)
    /\ gpc' = "guest" /\ gsid' = 0
    /\ UNCHANGED <<shutVars, sockets, nextSocket, typ, sclosed, queue, serr,
                   dialer, packets, timerVars, owed, told>>

\* The guest has collected what it was woken for.
Collect(s, kinds) ==
    owed' = IF owed \in kinds \X {s} THEN NoEvent ELSE owed

\* What a read with room for n leaves of a socket's queue: a datagram is consumed
\* whole, a stream keeps the unread remainder.
AfterRead(s, n) ==
    IF typ[s] = "udp" \/ Head(queue[s]) <= n THEN Tail(queue[s])
    ELSE <<Head(queue[s]) - n>> \o Tail(queue[s])

\* Mutant of sockRecv: what is left in the queue is not announced again.
sockRecvSilent(s, n) ==
    /\ InGuest(s)
    /\ Collect(s, {"read", "err"})
    /\ queue' = [queue EXCEPT ![s] = IF @ = <<>> THEN @ ELSE AfterRead(s, n)]
    /\ serr' = [serr EXCEPT ![s] = @ /\ queue[s] # <<>>]
    /\ told' = [told EXCEPT ![s] = @ \/ (serr[s] /\ queue[s] = <<>>)]
    /\ UNCHANGED <<shutVars, sockets, nextSocket, typ, sclosed, conn, netVars,
                   timerVars, gpc, gsid>>

\* An empty queue yields the pending error, once, or EAGAIN.  Otherwise "more" is
\* computed under the lock, and the event for it is sent after the unlock.  The
\* guest passes buffers of its own memory: the EFAULT returns are not met.
sockRecv(s, n) ==
    /\ InGuest(s)
    /\ Collect(s, {"read", "err"})
    /\ \/ /\ queue[s] = <<>>
          /\ serr' = [serr EXCEPT ![s] = FALSE]
          /\ told' = [told EXCEPT ![s] = @ \/ serr[s]]
          /\ UNCHANGED <<queue, gpc, gsid>>
       \/ /\ queue[s] # <<>>
          /\ queue' = [queue EXCEPT ![s] = AfterRead(s, n)]
          /\ IF AfterRead(s, n) # <<>> THEN gpc' = "recv" /\ gsid' = s
                                      ELSE UNCHANGED <<gpc, gsid>>
          /\ UNCHANGED <<serr, told>>
    /\ UNCHANGED <<shutVars, sockets, nextSocket, typ, sclosed, conn, netVars, timerVars>>

RecvEnqueue ==
    /\ gpc = "recv"
    /\ enqueue(<<"read", gsid>>)
    /\ gpc' = "guest" /\ gsid' = 0
    /\ UNCHANGED <<sockVars, netVars, timerVars, owed, told>>

\* SO_ERROR: the pending error, once.
sockError(s) ==
    /\ InGuest(s)
    /\ Collect(s, {"err"})
    /\ serr' = [serr EXCEPT ![s] = FALSE]
    /\ told' = [told EXCEPT ![s] = @ \/ serr[s]]
    /\ UNCHANGED <<shutVars, sockets, nextSocket, typ, sclosed, conn, queue,
                   netVars, timerVars, gpc, gsid>>

\* The socket leaves the map, and is closed after socketsMu is released.
sockClose(s) ==
    /\ InGuest(s)
    /\ sockets' = sockets \ {s}
    /\ Collect(s, {"read", "err"})
    /\ gpc' = "close" /\ gsid' = s
    /\ UNCHANGED <<shutVars, nextSocket, typ, sclosed, conn, queue, serr, netVars,
                   timerVars, told>>

CloseConn ==
    /\ gpc = "close"
    /\ closeSockets({gsid})
    /\ gpc' = "guest" /\ gsid' = 0
    /\ UNCHANGED <<shutVars, sockets, nextSocket, typ, queue, serr, netVars,
                   timerVars, owed, told>>

-----------------------------------------------------------------------------
(***************************************************************************)
(* The goroutines of a socket.                                             *)
(***************************************************************************)
\* The new connection of l's socket is l: an open one that it had is forgotten.
Connected(l) ==
    [o \in Links |-> IF o = l THEN "open"
                     ELSE IF o[1] = l[1] /\ conn[o] = "open" THEN "lost" ELSE conn[o]]

\* Mutant of DialDone: the socket may have been closed while dialing.
DialDoneUnchecked(l) ==
    /\ dialer[l] = "dialing"
    /\ conn' = Connected(l)
    /\ dialer' = [dialer EXCEPT ![l] = "connected"]
    /\ UNCHANGED <<shutVars, sockets, nextSocket, typ, sclosed, queue, serr, reader,
                   packets, timerVars, guestVars>>

\* The dial ends.  A socket closed meanwhile has the new connection closed.
DialDone(l) ==
    /\ dialer[l] = "dialing"
    /\ \/ /\ sclosed[l[1]]
          /\ dialer' = [dialer EXCEPT ![l] = "over"]
          /\ UNCHANGED <<conn, serr>>
       \/ /\ ~sclosed[l[1]]
          /\ serr' = [serr EXCEPT ![l[1]] = FALSE]
          /\ conn' = Connected(l)
          /\ dialer' = [dialer EXCEPT ![l] = "connected"]
       \/ /\ ~sclosed[l[1]]
          /\ serr' = [serr EXCEPT ![l[1]] = TRUE]
          /\ dialer' = [dialer EXCEPT ![l] = "refused"]
          /\ UNCHANGED conn
    /\ UNCHANGED <<shutVars, sockets, nextSocket, typ, sclosed, queue, reader,
                   packets, timerVars, guestVars>>

\* The outcome is announced, and only then the reader is started.
DialEnqueue(l) ==
    /\ \/ /\ dialer[l] = "connected"
          /\ enqueue(<<"write", l[1]>>)
          /\ reader' = [reader EXCEPT ![l] = "reading"]
       \/ /\ dialer[l] = "refused"
          /\ enqueue(<<"err", l[1]>>)
          /\ UNCHANGED reader
    /\ dialer' = [dialer EXCEPT ![l] = "over"]
    /\ UNCHANGED <<sockVars, packets, timerVars, guestVars>>

\* A read returns data.
ReadData(l) ==
    /\ reader[l] = "reading" /\ conn[l] \in {"open", "lost"} /\ packets < MaxPackets
    /\ reader' = [reader EXCEPT ![l] = "data"]
    /\ packets' = packets + 1
    /\ UNCHANGED <<shutVars, sockVars, dialer, timerVars, guestVars>>

\* push, under the lock and after it.
Push(l) ==
    /\ reader[l] = "data"
    /\ \E n \in 1..MaxChunks :
          queue' = IF sclosed[l[1]] THEN queue ELSE [queue EXCEPT ![l[1]] = Append(@, n)]
    /\ reader' = [reader EXCEPT ![l] = "pushed"]
    /\ UNCHANGED <<shutVars, sockets, nextSocket, typ, sclosed, conn, serr,
                   dialer, packets, timerVars, guestVars>>

\* Mutant of PushEnqueue: no event after the unlock.
PushSilent(l) ==
    /\ reader[l] = "pushed"
    /\ reader' = [reader EXCEPT ![l] = "reading"]
    /\ UNCHANGED <<shutVars, sockVars, dialer, packets, timerVars, guestVars>>

PushEnqueue(l) ==
    /\ reader[l] = "pushed"
    /\ enqueue(<<"read", l[1]>>)
    /\ reader' = [reader EXCEPT ![l] = "reading"]
    /\ UNCHANGED <<sockVars, dialer, packets, timerVars, guestVars>>

\* A read fails because the connection was closed here.
ReadClosed(l) ==
    /\ reader[l] = "reading" /\ conn[l] = "closed" /\ sclosed[l[1]]
    /\ reader' = [reader EXCEPT ![l] = "dead"]
    /\ UNCHANGED <<shutVars, sockVars, dialer, packets, timerVars, guestVars>>

\* A read fails because the peer ended the stream or, and only this is recorded,
\* for another reason; with the socket closed, nobody is told of either.  The
\* reader is finished in any case.
ReadFail(l) ==
    /\ reader[l] = "reading" /\ conn[l] \in {"open", "lost"}
    /\ \/ /\ sclosed[l[1]]
          /\ reader' = [reader EXCEPT ![l] = "dead"] /\ UNCHANGED serr
       \/ /\ ~sclosed[l[1]]
          /\ \/ typ[l[1]] = "tcp" /\ UNCHANGED serr
             \/ serr' = [serr EXCEPT ![l[1]] = TRUE]
          /\ reader' = [reader EXCEPT ![l] = "failed"]
    /\ UNCHANGED <<shutVars, sockets, nextSocket, typ, sclosed, conn, queue,
                   dialer, packets, timerVars, guestVars>>

\* Mutant of FailEnqueue: no event for the recorded error.
FailSilent(l) ==
    /\ reader[l] = "failed"
    /\ reader' = [reader EXCEPT ![l] = "dead"]
    /\ UNCHANGED <<shutVars, sockVars, dialer, packets, timerVars, guestVars>>

FailEnqueue(l) ==
    /\ reader[l] = "failed"
    /\ enqueue(<<"err", l[1]>>)
    /\ reader' = [reader EXCEPT ![l] = "dead"]
    /\ UNCHANGED <<sockVars, dialer, packets, timerVars, guestVars>>

-----------------------------------------------------------------------------
(***************************************************************************)
(* Timers.                                                                 *)
(***************************************************************************)
timerStart ==
    /\ gpc = "guest" /\ nextTimer \in Tids
    /\ nextTimer' = nextTimer + 1
    /\ IF TimersNil \/ Cardinality(timers) >= MaxTimers
       THEN UNCHANGED <<timers, tpc>>
       ELSE /\ timers' = timers \cup {nextTimer}
            /\ tpc' = [tpc EXCEPT ![nextTimer] = "armed"]
    /\ UNCHANGED <<shutVars, sockVars, netVars, guestVars>>

\* Stop cannot call back a callback that has started.
timerStop(t) ==
    /\ gpc = "guest" /\ t \in timers
    /\ tpc' = [tpc EXCEPT ![t] = IF @ = "armed" THEN "stopped" ELSE @]
    /\ timers' = timers \ {t}
    /\ UNCHANGED <<shutVars, sockVars, netVars, nextTimer, guestVars>>

TimerFire(t) ==
    /\ tpc[t] = "armed"
    /\ tpc' = [tpc EXCEPT ![t] = "fired"]
    /\ UNCHANGED <<shutVars, sockVars, netVars, timers, nextTimer, guestVars>>

\* Mutant of TimerDelete: the entry stays in the map.
TimerKeep(t) ==
    /\ tpc[t] = "fired"
    /\ tpc' = [tpc EXCEPT ![t] = "deleted"]
    /\ UNCHANGED <<shutVars, sockVars, netVars, timers, nextTimer, guestVars>>

TimerDelete(t) ==
    /\ tpc[t] = "fired"
    /\ timers' = timers \ {t}
    /\ tpc' = [tpc EXCEPT ![t] = "deleted"]
    /\ UNCHANGED <<shutVars, sockVars, netVars, nextTimer, guestVars>>

TimerEnqueue(t) ==
    /\ tpc[t] = "deleted"
    /\ enqueue(<<"timer", t>>)
    /\ tpc' = [tpc EXCEPT ![t] = "sent"]
    /\ UNCHANGED <<sockVars, netVars, timers, nextTimer, guestVars>>

-----------------------------------------------------------------------------
(***************************************************************************)
(* The dispatcher: ResolveAll's loop.                                      *)
(***************************************************************************)
\* The resolve_start and result_get calls of a batch.
StartBatch ==
    /\ gpc = "idle"
    /\ gpc' = "guest"
    /\ UNCHANGED <<shutVars, sockVars, netVars, timerVars, gsid, owed, told>>

\* The guest call returns: every query is settled, or the loop waits.  Unbound
\* reads from a socket it was woken for before it returns, unless the socket is
\* gone and the read fails with EBADF.
GuestReturn ==
    /\ gpc = "guest" /\ (owed = NoEvent \/ owed[2] \notin sockets)
    /\ gpc' \in {"idle", "wait"} /\ owed' = NoEvent
    /\ UNCHANGED <<shutVars, sockVars, netVars, timerVars, gsid, told>>

\* The guest call fails (a trap, a host import without its state): kill.
GuestTrap ==
    /\ gpc = "guest"
    /\ shutdown("close")
    /\ gpc' = "exit" /\ owed' = NoEvent
    /\ UNCHANGED <<events, sockVars, netVars, timerVars, gsid, told>>

\* What the guest owes for an event: to look at a socket it still has.
Owed(ev) == IF ev[1] \in {"read", "err"} /\ ev[2] \in sockets THEN ev ELSE NoEvent

Dispatch ==
    /\ gpc = "wait" /\ events # <<>>
    /\ events' = Tail(events)
    /\ owed' = Owed(Head(events))
    /\ tpc' = IF Head(events)[1] = "timer" THEN [tpc EXCEPT ![Head(events)[2]] = "delivered"]
                                           ELSE tpc
    /\ gpc' = "guest"
    /\ UNCHANGED <<spc, cause, sockVars, netVars, timers, nextTimer, gsid, told>>

\* s.done is closed: stateErr, or a refused guest call.
Woken ==
    /\ gpc = "wait" /\ Done
    /\ gpc' = "exit"
    /\ UNCHANGED <<shutVars, sockVars, netVars, timerVars, gsid, owed, told>>

\* The context ends: the instance is closed by its own dispatcher.
Cancelled ==
    /\ gpc = "wait"
    /\ shutdown("close")
    /\ gpc' = "exit"
    /\ UNCHANGED <<events, sockVars, netVars, timerVars, gsid, owed, told>>

-----------------------------------------------------------------------------
Shutdown == StopTimers \/ CloseSockets

\* The second halves of imports.
Proceed == ConnectEnqueue \/ SendListen \/ RecvEnqueue \/ CloseConn

Imports ==
    \/ \E ty \in {"udp", "tcp"} : sockOpen(ty)
    \/ \E s \in Sids : \/ sockBind(s) \/ sockConnect(s) \/ sockSendTo(s)
                       \/ sockError(s) \/ sockClose(s)
                       \/ \E n \in 1..MaxChunks : sockRecv(s, n)
    \/ timerStart
    \/ \E t \in Tids : timerStop(t)

SocketGoroutine(l) ==
    \/ Push(l) \/ PushEnqueue(l) \/ ReadClosed(l) \/ FailEnqueue(l)
    \/ DialDone(l) \/ DialEnqueue(l)

TimerGoroutine(t) == TimerDelete(t) \/ TimerEnqueue(t)

Next ==
    \/ Close \/ Shutdown
    \/ Imports \/ Proceed \/ GuestReturn \/ GuestTrap
    \/ \E l \in Links : SocketGoroutine(l) \/ ReadData(l) \/ ReadFail(l)
    \/ \E t \in Tids : TimerGoroutine(t) \/ TimerFire(t)
    \/ StartBatch \/ Dispatch \/ Woken \/ Cancelled

Spec == Init /\ [][Next]_vars

\* Goroutines run on: a dial ends by its timeout and a read by the closing of its
\* connection, but nothing obliges the network to deliver.  The guest answers a
\* wake-up and returns, whatever else it does.  A select with several cases
\* ready, as the dispatcher's, takes each of them in the end.
Fairness ==
    /\ WF_vars(Shutdown) /\ WF_vars(Proceed) /\ WF_vars(Dispatch)
    /\ SF_vars(GuestReturn) /\ SF_vars(Woken)
    /\ SF_vars(\E s \in Sids : owed[2] = s /\ sockRecv(s, MaxChunks))
    /\ \A l \in Links : WF_vars(SocketGoroutine(l))
    /\ \A t \in Tids : WF_vars(TimerGoroutine(t))

FairSpec == Spec /\ Fairness

-----------------------------------------------------------------------------
(***************************************************************************)
(* Properties.                                                             *)
(***************************************************************************)
\* Every variable keeps its type, and the caps on events, sockets and timers hold.
TypeOK ==
    /\ events \in Seq(Events) /\ Len(events) <= QueueCap
    /\ spc \in {"idle", "timers", "sockets", "done"}
    /\ cause \in {"none", "close", "overflow"}
    /\ sockets \subseteq Sids /\ Cardinality(sockets) <= MaxSockets
    /\ nextSocket \in 1..(LastSid + 1)
    /\ typ \in [Sids -> {"none", "udp", "tcp"}]
    /\ sclosed \in [Sids -> BOOLEAN] /\ serr \in [Sids -> BOOLEAN]
    /\ conn \in [Links -> {"none", "open", "lost", "closed"}]
    /\ queue \in [Sids -> Seq(1..MaxChunks)]
    /\ reader \in [Links -> {"none", "reading", "data", "pushed", "failed", "dead"}]
    /\ dialer \in [Links -> {"none", "dialing", "connected", "refused", "over"}]
    /\ packets \in 0..MaxPackets
    /\ timers \subseteq Tids /\ Cardinality(timers) <= MaxTimers
    /\ nextTimer \in 1..(LastTid + 1)
    /\ tpc \in [Tids -> {"none", "armed", "fired", "deleted", "sent", "delivered", "stopped"}]
    /\ gpc \in {"idle", "guest", "connect", "send", "recv", "close", "wait", "exit"}
    /\ gsid \in Sids \cup {0}
    /\ owed \in Events \cup {NoEvent}
    /\ told \in [Sids -> BOOLEAN]

\* Someone is about to make the guest read from s.
ReadPending(s) ==
    \/ Queued(<<"read", s>>) \/ owed = <<"read", s>>
    \/ (gpc = "recv" /\ gsid = s) \/ \E l \in Of(s) : reader[l] = "pushed"

\* Readiness is never lost: in an instance that is not shut down, data in the
\* queue of an open socket is always announced by an event that is still to be
\* delivered, though push and sockRecv announce it after they release the lock.
NoLostReadiness ==
    ~Done => \A s \in sockets : queue[s] # <<>> => ReadPending(s)

\* A pending error of an open socket is never lost either: some event is still to
\* come that makes the guest look, even when reads of data use up the event that
\* announced the error.
NoLostError ==
    ~Done => \A s \in sockets : serr[s] =>
        \/ ReadPending(s) \/ Queued(<<"err", s>>) \/ owed = <<"err", s>>
        \/ \E l \in Of(s) : reader[l] = "failed" \/ dialer[l] = "refused"

\* A failed connection is collected by the guest through SO_ERROR or a failing
\* recv: when a reader of an open socket has ended, its data was read and no
\* event or error of it is left, the guest has been given an error.
FailureIsCollected ==
    ~Done => \A s \in sockets :
        (/\ \E l \in Of(s) : reader[l] = "dead"
         /\ queue[s] = <<>> /\ ~serr[s]
         /\ ~ReadPending(s) /\ ~Queued(<<"err", s>>) /\ owed # <<"err", s>>) => told[s]

\* Timer bookkeeping: while timers are accepted the map holds no dead entry and
\* misses no timer that can still be stopped, none outlives shutdown, and a timer
\* that has sent its event in a live instance has it delivered.
TimersAccounted ==
    \A t \in Tids :
        /\ t \in timers => tpc[t] \in {"armed", "fired"}
        /\ tpc[t] = "armed" => t \in timers
        /\ tpc[t] = "sent" /\ ~Done => Queued(<<"timer", t>>)

\* A closed socket, and after shutdown every socket, holds no open connection, but
\* for one that the guest is closing at that moment.
ClosedSocketsHoldNothing ==
    \A s \in Sids :
        sclosed[s] \/ (SocketsNil /\ ~(gpc = "close" /\ gsid = s)) =>
            \A l \in Of(s) : conn[l] \notin {"open", "lost"}

\* Shutdown ends every goroutine of the instance for good: readers, dialers, timer
\* callbacks, and the ResolveAll that waits for events.
ShutdownEndsAll ==
    Done ~> /\ [](\A l \in Links : reader[l] \in {"none", "dead"}
                                  /\ dialer[l] \in {"none", "over"})
            /\ [](\A t \in Tids : tpc[t] \notin {"armed", "fired", "deleted"})
            /\ <>(gpc \in {"idle", "exit"})

\* Data that has arrived is read, unless the socket is closed, the instance shut
\* down, or no resolution is running to read it.
DataIsRead ==
    \A s \in Sids :
        queue[s] # <<>> ~> queue[s] = <<>> \/ s \notin sockets \/ Done \/ gpc = "idle"

=============================================================================
