---------------------------- MODULE InstanceIOProofs ----------------------------
(***************************************************************************)
(* Proofs about InstanceIO, for any capacities and any number of sockets,  *)
(* timers and packets.                                                     *)
(***************************************************************************)
EXTENDS InstanceIO, SequenceTheorems, FiniteSetTheorems, TLAPS

-----------------------------------------------------------------------------
(***************************************************************************)
(* The inductive invariant.                                                *)
(***************************************************************************)
\* The events in the channel, and those that are in it more than once.
Announced == {events[k] : k \in 1..Len(events)}
Repeated  == {events[k] : k \in {j \in 1..Len(events) :
                                   \E i \in 1..Len(events) : i # j /\ events[i] = events[j]}}

\* An import that has its second half to do has a socket, which sockSendTo found
\* to be a UDP socket; a guest that does not run owes nothing.
CallInv ==
    /\ gpc \in {"connect", "send", "recv", "close"} => gsid \in Sids /\ typ[gsid] # "none"
    /\ gpc = "send" => typ[gsid] = "udp" /\ ~GuestBinds
    /\ gpc \in {"idle", "wait", "exit"} => owed = NoEvent

\* A socket that was not opened yet has no state, and no connection.
FreshInv ==
    /\ \A s \in Sids : s >= nextSocket => typ[s] = "none"
    /\ \A s \in Sids : typ[s] = "none" =>
           s \notin sockets /\ ~sclosed[s] /\ queue[s] = <<>> /\ ~serr[s]
    /\ \A l \in Links : typ[l[1]] = "none" =>
           conn[l] = "none" /\ reader[l] = "none" /\ dialer[l] = "none"

\* A reader starts once, on a connection; a TCP socket dials before that.
ReaderInv ==
    \A l \in Links :
        /\ conn[l] = "none" => reader[l] = "none"
        /\ dialer[l] # "none" => typ[l[1]] = "tcp"
        /\ dialer[l] = "dialing" => conn[l] = "none"
        /\ dialer[l] = "connected" => conn[l] # "none"
        /\ dialer[l] \in {"connected", "refused"} => reader[l] = "none"

\* A guest that connects a socket once gives it one connection, which is not
\* forgotten.
OnceInv ==
    GuestConnectsOnce => \A l \in Links :
        conn[l] # "lost" /\ (l[2] # 1 => conn[l] = "none" /\ dialer[l] = "none")

Closing(s) == gpc = "close" /\ gsid = s

\* A socket that is not closed is in the map or on its way from there to being
\* closed; if the guest binds before it sends and connects a socket once, a closed
\* one has no connection.
SocketInv ==
    /\ \A s \in Sids : typ[s] # "none" /\ ~sclosed[s] => s \in sockets \/ Closing(s)
    /\ SocketsNil => sockets = {}
    /\ GuestBinds /\ GuestConnectsOnce =>
           \A l \in Links : sclosed[l[1]] => conn[l] \notin {"open", "lost"}

\* The timers, and what became of those whose event was sent.
TimerInv ==
    /\ \A t \in Tids : t >= nextTimer => tpc[t] = "none"
    /\ \A t \in Tids : (t \in timers => tpc[t] \in {"armed", "fired"}) /\ (tpc[t] = "armed" => t \in timers)
    /\ \A t \in Tids : <<"timer", t>> \in Announced => tpc[t] \in {"sent", "delivered"}
    /\ ~Done => \A t \in Tids : tpc[t] = "sent" => <<"timer", t>> \in Announced

\* Someone announces that s can be read, besides its readers; a reader does.
Once(s) ==
    <<"read", s>> \in Announced \/ owed = <<"read", s>> \/ (gpc = "recv" /\ gsid = s)
Pushed(s) == \E l \in Of(s) : reader[l] = "pushed"

\* Two announcements that s can be read.
Twice(s) ==
    \/ <<"read", s>> \in Repeated
    \/ <<"read", s>> \in Announced /\ (owed = <<"read", s>> \/ (gpc = "recv" /\ gsid = s))
    \/ Once(s) /\ Pushed(s)
    \/ \E l, o \in Of(s) : l # o /\ reader[l] = "pushed" /\ reader[o] = "pushed"

\* A goroutine of s has an error to announce.
Failing(s) == \E l \in Of(s) : reader[l] = "failed" \/ dialer[l] = "refused"

\* NoLostReadiness.
ReadInv ==
    ~Done => \A s \in sockets : queue[s] # <<>> => Once(s) \/ Pushed(s)

\* NoLostError, with its reason: when the event for the error was used up by a
\* read of data, another event for data is left over once the data is read.
ErrorInv ==
    ~Done => \A s \in sockets : serr[s] =>
        \/ <<"err", s>> \in Announced \/ owed = <<"err", s>> \/ Failing(s)
        \/ queue[s] = <<>> /\ (Once(s) \/ Pushed(s))
        \/ Twice(s)

IInv ==
    /\ TypeOK /\ CallInv /\ FreshInv /\ ReaderInv /\ OnceInv /\ SocketInv
    /\ TimerInv /\ ReadInv /\ ErrorInv

-----------------------------------------------------------------------------
(***************************************************************************)
(* Lemmas about the event channel, and about what a step leaves alone.     *)
(***************************************************************************)
USE DEF shutVars, sockVars, netVars, timerVars, guestVars, Done, SocketsNil, TimersNil

\* The parts of TypeOK, by what a step changes together.
EventType ==
    /\ events \in Seq(Events) /\ Len(events) <= QueueCap
    /\ spc \in {"idle", "timers", "sockets", "done"} /\ cause \in {"none", "close", "overflow"}
SocketType ==
    /\ sockets \subseteq Sids /\ Cardinality(sockets) <= MaxSockets /\ nextSocket \in 1..(LastSid + 1)
    /\ typ \in [Sids -> {"none", "udp", "tcp"}]
    /\ sclosed \in [Sids -> BOOLEAN] /\ serr \in [Sids -> BOOLEAN]
    /\ conn \in [Links -> {"none", "open", "lost", "closed"}] /\ queue \in [Sids -> Seq(1..MaxChunks)]
NetType ==
    /\ reader \in [Links -> {"none", "reading", "data", "pushed", "failed", "dead"}]
    /\ dialer \in [Links -> {"none", "dialing", "connected", "refused", "over"}]
    /\ packets \in 0..MaxPackets
TimerType ==
    /\ timers \subseteq Tids /\ Cardinality(timers) <= MaxTimers /\ nextTimer \in 1..(LastTid + 1)
    /\ tpc \in [Tids -> {"none", "armed", "fired", "deleted", "sent", "delivered", "stopped"}]
GuestType ==
    /\ gpc \in {"idle", "guest", "connect", "send", "recv", "close", "wait", "exit"}
    /\ gsid \in Sids \cup {0} /\ owed \in Events \cup {NoEvent} /\ told \in [Sids -> BOOLEAN]

\* The parts are the whole.
LEMMA TypeParts ==
    /\ TypeOK <=> EventType /\ SocketType /\ NetType /\ TimerType /\ GuestType
    /\ TypeOK' <=> EventType' /\ SocketType' /\ NetType' /\ TimerType' /\ GuestType'
  BY DEF TypeOK, EventType, SocketType, NetType, TimerType, GuestType

\* The bounds are natural numbers.
LEMMA Bounds ==
    /\ QueueCap \in Nat /\ MaxSockets \in Nat /\ MaxTimers \in Nat /\ LastSid \in Nat
    /\ LastTid \in Nat /\ MaxPackets \in Nat /\ MaxChunks \in Nat
    /\ MaxConnects \in Nat /\ MaxConnects >= 1
  BY BoundsAssumption

\* The links of a socket are the links that have it first; a UDP socket has one.
LEMMA LinkFacts ==
    /\ \A l \in Links : l[1] \in Sids /\ l \in Of(l[1])
    /\ \A s : \A l \in Of(s) : l \in Links /\ l[1] = s
    /\ \A s \in Sids : Udp(s) \in Links /\ Udp(s) \in Of(s) /\ Udp(s)[1] = s /\ Udp(s)[2] = 1
  BY Bounds DEF Links, Of, Udp

\* What the goroutines, the timers and the imports send are events.
LEMMA EventKinds ==
    /\ \A s \in Sids : <<"read", s>> \in Events /\ <<"write", s>> \in Events /\ <<"err", s>> \in Events
    /\ \A t \in Tids : <<"timer", t>> \in Events
  BY DEF Events

\* A step that leaves the channel alone leaves its contents alone.
LEMMA SameEvents ==
    ASSUME events' = events
    PROVE  Announced' = Announced /\ Repeated' = Repeated
  BY DEF Announced, Repeated

\* Sending adds one event, which is repeated if it was there already.
LEMMA Appended ==
    ASSUME events \in Seq(Events), NEW ev \in Events, events' = Append(events, ev)
    PROVE  /\ Announced' = Announced \cup {ev} /\ Repeated \subseteq Repeated'
           /\ ev \in Announced => ev \in Repeated'
<1>1. /\ Len(events) \in Nat /\ Len(events') = Len(events) + 1
      /\ \A k \in 1..Len(events) : events'[k] = events[k]
      /\ events'[Len(events) + 1] = ev
  OBVIOUS
<1>2. /\ 1..Len(events') = (1..Len(events)) \cup {Len(events) + 1}
      /\ Len(events) + 1 \notin 1..Len(events)
  BY <1>1
<1>3. Announced' = {events'[k] : k \in 1..Len(events')}
  BY DEF Announced
<1>4. Announced' = Announced \cup {ev}
  BY <1>1, <1>2, <1>3 DEF Announced
<1>5. ASSUME NEW e, NEW i \in 1..Len(events'), NEW j \in 1..Len(events'), i # j, events'[i] = e, events'[j] = e
      PROVE  e \in Repeated'
  BY <1>5 DEF Repeated
<1>6. Repeated \subseteq Repeated'
  <2>1. SUFFICES ASSUME NEW e \in Repeated PROVE e \in Repeated'
    OBVIOUS
  <2>2. PICK i \in 1..Len(events), j \in 1..Len(events) : i # j /\ events[i] = e /\ events[j] = e
    BY <2>1 DEF Repeated
  <2>3. i \in 1..Len(events') /\ j \in 1..Len(events') /\ events'[i] = e /\ events'[j] = e
    BY <1>1, <1>2, <2>2
  <2>4. QED  BY <1>5, <2>2, <2>3
<1>7. ASSUME ev \in Announced PROVE ev \in Repeated'
  <2>1. PICK i \in 1..Len(events) : events[i] = ev
    BY <1>7 DEF Announced
  <2>2. i \in 1..Len(events') /\ Len(events) + 1 \in 1..Len(events') /\ i # Len(events) + 1
    BY <1>2
  <2>3. events'[i] = ev /\ events'[Len(events) + 1] = ev
    BY <1>1, <2>1
  <2>4. QED  BY <1>5, <2>2, <2>3
<1>8. QED  BY <1>4, <1>6, <1>7

\* Receiving takes the first event; one that is repeated stays.
LEMMA Received ==
    ASSUME events \in Seq(Events), events # <<>>, events' = Tail(events)
    PROVE  /\ Announced' \subseteq Announced /\ Announced \subseteq Announced' \cup {Head(events)}
           /\ Repeated \subseteq Announced' /\ Repeated \subseteq Repeated' \cup {Head(events)}
<1>1. /\ Len(events) \in Nat /\ Len(events) > 0 /\ Len(events') = Len(events) - 1
      /\ Head(events) = events[1]
      /\ \A k \in 1..Len(events') : events'[k] = events[k + 1]
  OBVIOUS
<1>2. \A k \in 1..Len(events') : k + 1 \in 1..Len(events)
  BY <1>1
<1>3. \A k \in 1..Len(events) : k # 1 => k - 1 \in 1..Len(events') /\ events'[k - 1] = events[k]
  BY <1>1
<1>4. Announced' = {events'[k] : k \in 1..Len(events')}
  BY DEF Announced
<1>5. Announced' \subseteq Announced
  BY <1>1, <1>2, <1>4 DEF Announced
<1>6. Announced \subseteq Announced' \cup {Head(events)}
  BY <1>1, <1>3, <1>4 DEF Announced
<1>7. ASSUME NEW e \in Repeated PROVE e \in Announced' /\ e \in Repeated' \cup {Head(events)}
  <2>1. PICK i \in 1..Len(events), j \in 1..Len(events) : i # j /\ events[i] = e /\ events[j] = e
    BY <1>7 DEF Repeated
  <2>2. e \in Announced'
    BY <1>3, <1>4, <2>1
  <2>3. ASSUME e # Head(events) PROVE e \in Repeated'
    <3>1. i # 1 /\ j # 1
      BY <1>1, <2>1, <2>3
    <3>2. /\ i - 1 \in 1..Len(events') /\ j - 1 \in 1..Len(events') /\ i - 1 # j - 1
          /\ events'[i - 1] = e /\ events'[j - 1] = e
      BY <1>1, <1>3, <2>1, <3>1
    <3>3. QED  BY <3>2 DEF Repeated
  <2>4. QED  BY <2>2, <2>3
<1>8. QED  BY <1>5, <1>6, <1>7

\* enqueue keeps the channel within its capacity, and loses the event only in an
\* instance that is, or by that becomes, shut down.
LEMMA Enqueued ==
    ASSUME EventType, NEW ev \in Events, enqueue(ev)
    PROVE  /\ EventType' /\ (Done => Done') /\ (SocketsNil' => SocketsNil)
           /\ Announced \subseteq Announced' /\ Announced' \subseteq Announced \cup {ev}
           /\ Repeated \subseteq Repeated'
           /\ ~Done' => ev \in Announced' /\ (ev \in Announced => ev \in Repeated')
<1>1. CASE Len(events) < QueueCap /\ events' = Append(events, ev) /\ UNCHANGED <<spc, cause>>
  <2>1. events' \in Seq(Events) /\ Len(events') <= QueueCap
    BY <1>1, Bounds DEF EventType
  <2>2. EventType'
    BY <1>1, <2>1 DEF EventType
  <2>3. QED  BY <1>1, <2>2, Appended DEF EventType
<1>2. CASE Done /\ UNCHANGED shutVars
  BY <1>2, SameEvents DEF EventType
<1>3. CASE ~Done /\ Len(events) >= QueueCap /\ shutdown("overflow") /\ UNCHANGED events
  BY <1>3, SameEvents DEF EventType, shutdown
<1>4. QED  BY <1>1, <1>2, <1>3 DEF enqueue

\* What the sockets and the guest have to do with each other stays if they do.
LEMMA FrameSockets ==
    ASSUME CallInv, FreshInv, ReaderInv, OnceInv, UNCHANGED <<sockVars, reader, dialer, gpc, gsid, owed>>
    PROVE  CallInv' /\ FreshInv' /\ ReaderInv' /\ OnceInv'
  BY DEF CallInv, FreshInv, ReaderInv, OnceInv

\* Readiness and errors stay announced if no announcement is taken away.
LEMMA FrameRead ==
    ASSUME ReadInv, ErrorInv, Done => Done', Announced \subseteq Announced', Repeated \subseteq Repeated',
           UNCHANGED <<sockets, queue, serr, reader, dialer, owed, gpc, gsid>>
    PROVE  ReadInv' /\ ErrorInv'
<1>1. \A s \in sockets : (Pushed(s) => Pushed(s)') /\ (Failing(s) => Failing(s)')
  BY DEF Pushed, Failing
<1>2. \A s \in sockets : (Once(s) => Once(s)') /\ (Twice(s) => Twice(s)')
  BY <1>1 DEF Once, Twice
<1>3. QED  BY <1>1, <1>2 DEF ReadInv, ErrorInv

\* The timers stay accounted for if no event of a timer comes or goes.
LEMMA FrameTimer ==
    ASSUME TimerInv, UNCHANGED timerVars, Done => Done', Announced \subseteq Announced',
           \A t \in Tids : <<"timer", t>> \in Announced' => <<"timer", t>> \in Announced
    PROVE  TimerInv'
  BY DEF TimerInv

-----------------------------------------------------------------------------
(***************************************************************************)
(* The invariant is inductive: shutdown, timers and the dispatcher.        *)
(***************************************************************************)
\* It holds of a new instance.
LEMMA InitInv == Init => IInv
<1> SUFFICES ASSUME Init PROVE IInv
  OBVIOUS
<1>1. TypeOK
  <2>1. EventType /\ NetType
    BY Bounds DEF Init, EventType, NetType
  <2>2. Cardinality({}) = 0
    BY FS_EmptySet
  <2>3. SocketType
    <3>1. sclosed \in [Sids -> BOOLEAN] /\ serr \in [Sids -> BOOLEAN]
      BY Zenon DEF Init
    <3>2. QED  BY <2>2, <3>1, Bounds DEF Init, SocketType
  <2>4. TimerType
    BY <2>2, Bounds DEF Init, TimerType
  <2>5. GuestType
    <3>1. told \in [Sids -> BOOLEAN]
      BY Zenon DEF Init
    <3>2. QED  BY <3>1 DEF Init, GuestType
  <2>6. QED  BY <2>1, <2>3, <2>4, <2>5, TypeParts
<1>2. Announced = {}
  BY DEF Init, Announced
<1>3. CallInv /\ FreshInv /\ ReaderInv /\ OnceInv /\ SocketInv
  BY DEF Init, CallInv, FreshInv, ReaderInv, OnceInv, SocketInv
<1>4. TimerInv /\ ReadInv /\ ErrorInv
  BY <1>2 DEF Init, TimerInv, ReadInv, ErrorInv
<1>5. QED  BY <1>1, <1>3, <1>4 DEF IInv

\* A shutdown that begins and touches nothing else.
LEMMA ShutInv ==
    ASSUME IInv, Close \/ GuestTrap \/ Cancelled \/ Woken
    PROVE  IInv'
<1>1. /\ UNCHANGED <<events, sockVars, netVars, timerVars, gsid, told>> /\ Done'
      /\ (shutdown("close") \/ UNCHANGED <<spc, cause>>)
      /\ \/ UNCHANGED <<gpc, owed>>
         \/ gpc \in {"guest", "wait"} /\ gpc' = "exit" /\ owed' \in {owed, NoEvent}
  BY DEF Close, GuestTrap, Cancelled, Woken, shutdown
<1>2. gpc \in {"idle", "wait", "exit"} => owed = NoEvent
  BY DEF IInv, CallInv
<1>3. owed' \in {owed, NoEvent} /\ (gpc' = "exit" => owed' = NoEvent)
  BY <1>2 DEF Close, GuestTrap, Cancelled, Woken, IInv, TypeOK
<1>4. TypeOK'
  <2>1. EventType' /\ SocketType' /\ NetType' /\ TimerType'
    BY <1>1, TypeParts DEF IInv, shutdown, EventType, SocketType, NetType, TimerType
  <2>2. GuestType'
    BY <1>1, <1>3, TypeParts DEF IInv, GuestType
  <2>3. QED  BY <2>1, <2>2, TypeParts
<1>5. CallInv' /\ FreshInv' /\ ReaderInv' /\ OnceInv'
  BY <1>1, <1>3 DEF IInv, CallInv, FreshInv, ReaderInv, OnceInv
<1>6. SocketInv'
  BY <1>1 DEF IInv, SocketInv, Closing, shutdown
<1>7. TimerInv'
  BY <1>1, SameEvents DEF IInv, TimerInv
<1>8. QED  BY <1>1, <1>4, <1>5, <1>6, <1>7 DEF IInv, ReadInv, ErrorInv

\* shutdown stops the timers: none of them is left armed.
LEMMA StopTimersInv ==
    ASSUME IInv, StopTimers
    PROVE  IInv'
<1>1. /\ UNCHANGED <<events, cause, sockVars, netVars, nextTimer, guestVars>>
      /\ timers' = {} /\ spc = "timers" /\ spc' = "sockets"
      /\ tpc' = [t \in Tids |-> IF t \in timers /\ tpc[t] = "armed" THEN "stopped" ELSE tpc[t]]
  BY DEF StopTimers
<1>2. TypeOK'
  <2>1. EventType' /\ SocketType' /\ NetType' /\ GuestType'
    BY <1>1, TypeParts DEF IInv, EventType, SocketType, NetType, GuestType
  <2>2. TimerType'
    BY <1>1, FS_EmptySet, TypeParts, Bounds DEF IInv, TimerType
  <2>3. QED  BY <2>1, <2>2, TypeParts
<1>3. CallInv' /\ FreshInv' /\ ReaderInv' /\ OnceInv'
  BY <1>1, FrameSockets DEF IInv
<1>4. SocketInv'
  BY <1>1 DEF IInv, SocketInv, Closing
<1>5. TimerInv'
  BY <1>1, SameEvents DEF IInv, TimerInv
<1>6. QED  BY <1>1, <1>2, <1>3, <1>4, <1>5 DEF IInv, ReadInv, ErrorInv

\* shutdown closes the sockets that are in the map, and no other is left open.
LEMMA CloseSocketsInv ==
    ASSUME IInv, CloseSockets
    PROVE  IInv'
<1>1. /\ UNCHANGED <<events, cause, nextSocket, typ, queue, serr, netVars, timerVars, guestVars>>
      /\ sockets' = {} /\ spc = "sockets" /\ spc' = "done"
      /\ sclosed' = [s \in Sids |-> sclosed[s] \/ s \in sockets]
      /\ conn' = [l \in Links |-> IF l[1] \in sockets /\ conn[l] = "open" THEN "closed" ELSE conn[l]]
  BY DEF CloseSockets, closeSockets
<1>2. TypeOK'
  <2>1. EventType' /\ NetType' /\ TimerType' /\ GuestType'
    BY <1>1, TypeParts DEF IInv, EventType, NetType, TimerType, GuestType
  <2>2. sclosed' \in [Sids -> BOOLEAN]
    <3>1. \A s \in Sids : (sclosed[s] \/ s \in sockets) \in BOOLEAN
      BY Zenon
    <3>2. QED  BY <1>1, <3>1, Zenon
  <2>3. SocketType'
    BY <1>1, <2>2, FS_EmptySet, TypeParts, Bounds DEF IInv, SocketType
  <2>4. QED  BY <2>1, <2>3, TypeParts
<1>3. /\ \A s \in Sids : sclosed'[s] <=> sclosed[s] \/ s \in sockets
      /\ \A l \in Links : conn'[l] = IF l[1] \in sockets /\ conn[l] = "open" THEN "closed" ELSE conn[l]
  BY <1>1
<1>4. CallInv'
  BY <1>1 DEF IInv, CallInv
<1>5. FreshInv' /\ ReaderInv' /\ OnceInv'
  BY <1>1, <1>3, LinkFacts DEF IInv, FreshInv, ReaderInv, OnceInv
<1>6. SocketInv'
  BY <1>1, <1>3, LinkFacts DEF IInv, SocketInv, OnceInv, Closing
<1>7. TimerInv'
  BY <1>1, SameEvents, FrameTimer DEF IInv
<1>8. QED  BY <1>1, <1>2, <1>4, <1>5, <1>6, <1>7 DEF IInv, ReadInv, ErrorInv

\* A set of sockets or timers that is below its cap takes one more.
LEMMA OneMore ==
    ASSUME NEW k \in Nat, NEW S \in SUBSET (1..k), NEW x \in 1..k, NEW m \in Nat, Cardinality(S) < m
    PROVE  S \cup {x} \subseteq 1..k /\ Cardinality(S \cup {x}) <= m
<1>1. IsFiniteSet(S)
  <2>1. IsFiniteSet(1..k)
    BY FS_Interval
  <2>2. QED  BY <2>1, FS_Subset
<1>2. Cardinality(S) \in Nat
  BY <1>1, FS_CardinalityType
<1>3. Cardinality(S \cup {x}) = IF x \in S THEN Cardinality(S) ELSE Cardinality(S) + 1
  BY <1>1, FS_AddElement
<1>4. QED  BY <1>2, <1>3

\* A set from which an element is taken does not grow.
LEMMA OneLess ==
    ASSUME NEW k \in Nat, NEW S \in SUBSET (1..k), NEW x, NEW m \in Nat, Cardinality(S) <= m
    PROVE  S \ {x} \subseteq 1..k /\ Cardinality(S \ {x}) <= m
<1>1. IsFiniteSet(S)
  <2>1. IsFiniteSet(1..k)
    BY FS_Interval
  <2>2. QED  BY <2>1, FS_Subset
<1>2. Cardinality(S) \in Nat /\ Cardinality(S \ {x}) \in Nat /\ Cardinality(S \ {x}) <= Cardinality(S)
  BY <1>1, FS_CardinalityType, FS_Subset
<1>3. S \ {x} \subseteq 1..k
  OBVIOUS
<1>4. Cardinality(S \ {x}) <= m
  BY <1>2
<1>5. QED  BY <1>3, <1>4

\* The guest's timer calls and the timer's own callback, up to its event.
LEMMA TimerStepInv ==
    ASSUME IInv, timerStart \/ (\E t \in Tids : timerStop(t) \/ TimerFire(t) \/ TimerDelete(t))
    PROVE  IInv'
<1>1. UNCHANGED <<shutVars, sockVars, netVars, guestVars>>
  BY DEF timerStart, timerStop, TimerFire, TimerDelete
<1>2. EventType' /\ SocketType' /\ NetType' /\ GuestType'
  BY <1>1, TypeParts DEF IInv, EventType, SocketType, NetType, GuestType
<1>3. CallInv' /\ FreshInv' /\ ReaderInv' /\ OnceInv' /\ ReadInv' /\ ErrorInv'
  BY <1>1, SameEvents, FrameSockets, FrameRead DEF IInv
<1>4. SocketInv'
  BY <1>1 DEF IInv, SocketInv, Closing
<1>5. Announced' = Announced /\ TimerType /\ TimerInv /\ (Done' <=> Done)
  BY <1>1, SameEvents, TypeParts DEF IInv
<1>6. SUFFICES TimerType' /\ TimerInv'
  BY <1>2, <1>3, <1>4, TypeParts DEF IInv
<1>7. CASE timerStart
  <2>1. nextTimer \in Tids /\ nextTimer' = nextTimer + 1 /\ nextTimer' \in 1..(LastTid + 1)
    BY <1>7, Bounds DEF timerStart, Tids
  <2>2. nextTimer \notin timers /\ tpc[nextTimer] = "none"
    BY <1>5, <2>1, Bounds DEF TimerInv, TimerType, Tids
  <2>3. \A t \in Tids : t >= nextTimer' => t >= nextTimer /\ t # nextTimer
    BY <2>1, Bounds DEF Tids
  <2>4. CASE timers' = timers /\ tpc' = tpc
    <3>1. TimerType'
      BY <1>5, <2>1, <2>4 DEF TimerType
    <3>2. TimerInv'
      BY <1>5, <2>3, <2>4 DEF TimerInv
    <3>3. QED  BY <3>1, <3>2
  <2>5. CASE /\ Cardinality(timers) < MaxTimers /\ timers' = timers \cup {nextTimer}
             /\ tpc' = [tpc EXCEPT ![nextTimer] = "armed"]
    <3>1. timers' \subseteq Tids /\ Cardinality(timers') <= MaxTimers
      BY <1>5, <2>1, <2>5, OneMore, Bounds DEF TimerType, Tids
    <3>2. TimerType'
      BY <1>5, <2>1, <2>5, <3>1 DEF TimerType
    <3>3. \A t \in Tids : tpc'[t] = IF t = nextTimer THEN "armed" ELSE tpc[t]
      BY <1>5, <2>5 DEF TimerType
    <3>4. TimerInv'
      BY <1>5, <2>1, <2>2, <2>3, <2>5, <3>3 DEF TimerInv
    <3>5. QED  BY <3>2, <3>4
  <2>6. Cardinality(timers) \in Nat
    <3>1. IsFiniteSet(Tids)
      BY FS_Interval, Bounds DEF Tids
    <3>2. QED  BY <1>5, <3>1, FS_Subset, FS_CardinalityType DEF TimerType
  <2>7. QED  BY <1>7, <2>4, <2>5, <2>6, Bounds DEF timerStart
<1>8. ASSUME NEW t \in Tids, timerStop(t) \/ TimerFire(t) \/ TimerDelete(t)
      PROVE  TimerType' /\ TimerInv'
  <2>1. /\ nextTimer' = nextTimer /\ timers' \in {timers, timers \ {t}}
        /\ \/ t \in timers /\ timers' = timers \ {t} /\ tpc' = [tpc EXCEPT ![t] = IF @ = "armed" THEN "stopped" ELSE @]
           \/ tpc[t] = "armed" /\ timers' = timers /\ tpc' = [tpc EXCEPT ![t] = "fired"]
           \/ tpc[t] = "fired" /\ timers' = timers \ {t} /\ tpc' = [tpc EXCEPT ![t] = "deleted"]
    BY <1>8 DEF timerStop, TimerFire, TimerDelete
  <2>2. timers' \subseteq Tids /\ Cardinality(timers') <= MaxTimers
    BY <1>5, <2>1, OneLess, Bounds DEF TimerType, Tids
  <2>3. TimerType'
    BY <1>5, <2>1, <2>2 DEF TimerType
  <2>4. \A u \in Tids : u # t => tpc'[u] = tpc[u] /\ (u \in timers' <=> u \in timers)
    BY <1>5, <2>1 DEF TimerType
  <2>5. tpc[t] \in {"armed", "fired"}
    BY <1>5, <2>1 DEF TimerInv
  <2>6. /\ tpc'[t] \in {"stopped", "fired", "deleted"} /\ (t \in timers' => tpc'[t] = "fired")
        /\ <<"timer", t>> \notin Announced /\ ~(t >= nextTimer)
    BY <1>5, <2>1, <2>5 DEF TimerType, TimerInv
  <2>7. TimerInv'
    BY <1>5, <2>1, <2>4, <2>6 DEF TimerInv
  <2>8. QED  BY <2>3, <2>7
<1>9. QED  BY <1>7, <1>8

\* A timer sends its event.
LEMMA TimerEnqueueInv ==
    ASSUME IInv, NEW t \in Tids, TimerEnqueue(t)
    PROVE  IInv'
<1>1. /\ enqueue(<<"timer", t>>) /\ tpc[t] = "deleted" /\ tpc' = [tpc EXCEPT ![t] = "sent"]
      /\ UNCHANGED <<sockVars, netVars, timers, nextTimer, guestVars>>
  BY DEF TimerEnqueue
<1>2. EventType /\ <<"timer", t>> \in Events
  BY EventKinds, TypeParts DEF IInv
<1>3. /\ EventType' /\ (Done => Done') /\ (SocketsNil' => SocketsNil)
      /\ Announced \subseteq Announced' /\ Announced' \subseteq Announced \cup {<<"timer", t>>}
      /\ Repeated \subseteq Repeated' /\ (~Done' => <<"timer", t>> \in Announced')
  BY <1>1, <1>2, Enqueued
<1>4. TypeOK'
  <2>1. SocketType' /\ NetType' /\ TimerType' /\ GuestType'
    BY <1>1, TypeParts DEF IInv, SocketType, NetType, TimerType, GuestType
  <2>2. QED  BY <1>3, <2>1, TypeParts
<1>5. CallInv' /\ FreshInv' /\ ReaderInv' /\ OnceInv' /\ ReadInv' /\ ErrorInv'
  BY <1>1, <1>3, FrameSockets, FrameRead DEF IInv
<1>6. SocketInv'
  BY <1>1, <1>3 DEF IInv, SocketInv, Closing
<1>7. TimerInv'
  <2>1. \A u \in Tids : tpc'[u] = IF u = t THEN "sent" ELSE tpc[u]
    BY <1>1, TypeParts DEF IInv, TimerType
  <2>2. \A u \in Tids : <<"timer", u>> \in Announced' => u = t \/ <<"timer", u>> \in Announced
    BY <1>3
  <2>3. TimerInv
    BY DEF IInv
  <2>4. t \notin timers /\ ~(t >= nextTimer)
    BY <1>1, <2>3 DEF TimerInv
  <2>5. QED  BY <1>1, <1>3, <2>1, <2>2, <2>3, <2>4 DEF TimerInv
<1>8. QED  BY <1>4, <1>5, <1>6, <1>7 DEF IInv

\* Whoever sends an event of a socket leaves the timers as they are.
LEMMA SocketEvent ==
    ASSUME IInv, NEW k \in {"read", "write", "err"}, NEW s \in Sids, enqueue(<<k, s>>),
           UNCHANGED timerVars
    PROVE  /\ EventType' /\ TimerType' /\ TimerInv'
           /\ (Done => Done') /\ (SocketsNil' => SocketsNil)
           /\ Announced \subseteq Announced' /\ Repeated \subseteq Repeated'
           /\ ~Done' => <<k, s>> \in Announced' /\ (<<k, s>> \in Announced => <<k, s>> \in Repeated')
<1>1. EventType /\ <<k, s>> \in Events
  BY EventKinds, TypeParts DEF IInv
<1>2. /\ EventType' /\ (Done => Done') /\ (SocketsNil' => SocketsNil)
      /\ Announced \subseteq Announced' /\ Announced' \subseteq Announced \cup {<<k, s>>}
      /\ Repeated \subseteq Repeated'
      /\ ~Done' => <<k, s>> \in Announced' /\ (<<k, s>> \in Announced => <<k, s>> \in Repeated')
  BY <1>1, Enqueued
<1>3. TimerType'
  BY TypeParts DEF IInv, TimerType
<1>4. \A t \in Tids : <<"timer", t>> # <<k, s>>
  OBVIOUS
<1>5. TimerInv'
  BY <1>2, <1>4, FrameTimer DEF IInv
<1>6. QED  BY <1>2, <1>3, <1>5

\* The second halves of sockConnect and sockRecv send their event.
LEMMA ImportEventInv ==
    ASSUME IInv, ConnectEnqueue \/ RecvEnqueue
    PROVE  IInv'
<1>1. /\ gpc \in {"connect", "recv"} /\ gpc' = "guest" /\ gsid' = 0
      /\ UNCHANGED <<sockVars, netVars, timerVars, owed, told>>
      /\ enqueue(<<IF gpc = "recv" THEN "read" ELSE "write", gsid>>)
  BY DEF ConnectEnqueue, RecvEnqueue
<1>2. gsid \in Sids
  BY <1>1 DEF IInv, CallInv
<1>3. /\ EventType' /\ TimerType' /\ TimerInv'
      /\ (Done => Done') /\ (SocketsNil' => SocketsNil)
      /\ Announced \subseteq Announced' /\ Repeated \subseteq Repeated'
      /\ gpc = "recv" /\ ~Done' =>
            <<"read", gsid>> \in Announced' /\ (<<"read", gsid>> \in Announced => <<"read", gsid>> \in Repeated')
  <2>1. CASE gpc = "recv"
    <3>1. enqueue(<<"read", gsid>>)
      BY <1>1, <2>1
    <3>2. QED  BY <1>1, <1>2, <2>1, <3>1, SocketEvent
  <2>2. CASE gpc # "recv"
    <3>1. enqueue(<<"write", gsid>>)
      BY <1>1, <2>2
    <3>2. QED  BY <1>1, <1>2, <2>2, <3>1, SocketEvent
  <2>3. QED  BY <2>1, <2>2
<1>4. TypeOK'
  <2>1. SocketType' /\ NetType' /\ GuestType'
    BY <1>1, TypeParts DEF IInv, SocketType, NetType, GuestType
  <2>2. QED  BY <1>3, <2>1, TypeParts
<1>5. CallInv' /\ FreshInv' /\ ReaderInv' /\ OnceInv'
  BY <1>1 DEF IInv, CallInv, FreshInv, ReaderInv, OnceInv
<1>6. SocketInv'
  BY <1>1, <1>3 DEF IInv, SocketInv, Closing
<1>7. ReadInv'
  BY <1>1, <1>3 DEF IInv, ReadInv, Once, Pushed
<1>8. ErrorInv'
  BY <1>1, <1>3 DEF IInv, ErrorInv, Once, Twice, Pushed, Failing
<1>9. QED  BY <1>3, <1>4, <1>5, <1>6, <1>7, <1>8 DEF IInv

\* The goroutines of a socket send their events.
LEMMA GoroutineEventInv ==
    ASSUME IInv, NEW l \in Links, PushEnqueue(l) \/ FailEnqueue(l) \/ DialEnqueue(l)
    PROVE  IInv'
<1> DEFINE s == l[1]
<1>1. UNCHANGED <<sockVars, packets, timerVars, guestVars>>
  BY DEF PushEnqueue, FailEnqueue, DialEnqueue
<1>2. \A o \in Links : o # l => reader'[o] = reader[o] /\ dialer'[o] = dialer[o]
  BY TypeParts DEF PushEnqueue, FailEnqueue, DialEnqueue, IInv, NetType
<1>3. NetType'
  BY TypeParts DEF PushEnqueue, FailEnqueue, DialEnqueue, IInv, NetType
<1>4. PICK k \in {"read", "write", "err"} :
        /\ enqueue(<<k, s>>)
        /\ \/ k = "read" /\ reader[l] = "pushed" /\ reader'[l] = "reading" /\ dialer'[l] = dialer[l]
           \/ k = "err" /\ reader[l] = "failed" /\ reader'[l] = "dead" /\ dialer'[l] = dialer[l]
           \/ k = "write" /\ dialer[l] = "connected" /\ reader'[l] = "reading" /\ dialer'[l] = "over"
           \/ k = "err" /\ dialer[l] = "refused" /\ reader'[l] = reader[l] /\ dialer'[l] = "over"
  <2>1. reader \in [Links -> {"none", "reading", "data", "pushed", "failed", "dead"}]
    BY TypeParts DEF IInv, NetType
  <2>2. dialer \in [Links -> {"none", "dialing", "connected", "refused", "over"}]
    BY TypeParts DEF IInv, NetType
  <2>3. CASE PushEnqueue(l)
    BY <2>1, <2>3 DEF PushEnqueue
  <2>4. CASE FailEnqueue(l)
    BY <2>1, <2>4 DEF FailEnqueue
  <2>5. CASE DialEnqueue(l) /\ dialer[l] = "connected"
    BY <2>1, <2>2, <2>5 DEF DialEnqueue
  <2>6. CASE DialEnqueue(l) /\ dialer[l] = "refused"
    BY <2>1, <2>2, <2>6 DEF DialEnqueue
  <2>7. QED  BY <2>3, <2>4, <2>5, <2>6 DEF DialEnqueue
<1>5. s \in Sids /\ l \in Of(s) /\ (\A x : \A o \in Of(x) : o \in Links /\ o[1] = x)
  BY LinkFacts
<1>6. \A x \in Sids : l \in Of(x) => x = s
  BY <1>5
<1> HIDE DEF s
<1>7. /\ EventType' /\ TimerType' /\ TimerInv'
      /\ (Done => Done') /\ (SocketsNil' => SocketsNil)
      /\ Announced \subseteq Announced' /\ Repeated \subseteq Repeated'
      /\ ~Done' => <<k, s>> \in Announced' /\ (<<k, s>> \in Announced => <<k, s>> \in Repeated')
  BY <1>1, <1>4, <1>5, SocketEvent
<1>8. TypeOK'
  <2>1. SocketType' /\ GuestType'
    BY <1>1, TypeParts DEF IInv, SocketType, GuestType
  <2>2. QED  BY <1>3, <1>7, <2>1, TypeParts
<1>9. CallInv' /\ OnceInv'
  <2>1. dialer'[l] # "none" => dialer[l] # "none"
    BY <1>4
  <2>2. QED  BY <1>1, <1>2, <2>1 DEF IInv, CallInv, OnceInv
<1>10. FreshInv' /\ ReaderInv'
  <2>1. typ[s] # "none" /\ (conn[l] # "none" \/ dialer[l] = "refused")
    BY <1>4 DEF IInv, FreshInv, ReaderInv, s
  <2>2. FreshInv'
    BY <1>1, <1>2, <2>1 DEF IInv, FreshInv, s
  <2>3. /\ conn[l] = "none" => reader'[l] = "none"
        /\ dialer'[l] # "none" => typ[l[1]] = "tcp"
        /\ dialer'[l] = "dialing" => conn[l] = "none"
        /\ dialer'[l] = "connected" => conn[l] # "none"
        /\ dialer'[l] \in {"connected", "refused"} => reader'[l] = "none"
    BY <1>4, <2>1 DEF IInv, ReaderInv
  <2>4. ReaderInv'
    BY <1>1, <1>2, <2>3 DEF IInv, ReaderInv
  <2>5. QED  BY <2>2, <2>4
<1>11. SocketInv'
  BY <1>1, <1>7 DEF IInv, SocketInv, Closing
<1>12. sockets \subseteq Sids
  BY TypeParts DEF IInv, SocketType
<1>13. k # "read" => reader[l] # "pushed"
  BY <1>4 DEF IInv, ReaderInv
<1>14. ASSUME ~Done', NEW x \in sockets
       PROVE  /\ Once(x) => Once(x)'
              /\ Pushed(x) => Once(x)' \/ Pushed(x)'
              /\ Once(x) /\ Pushed(x) => Twice(x)'
              /\ Twice(x) => Twice(x)'
              /\ Failing(x) => Failing(x)' \/ <<"err", x>> \in Announced'
  <2>1. Once(x) => Once(x)'
    BY <1>1, <1>7 DEF Once
  <2>2. \A o \in Of(x) : o # l /\ reader[o] = "pushed" => reader'[o] = "pushed"
    BY <1>2, <1>5
  <2>3. ASSUME l \in Of(x), reader[l] = "pushed"
        PROVE  /\ <<"read", x>> \in Announced'
               /\ <<"read", x>> \in Announced => <<"read", x>> \in Repeated'
    BY <1>6, <1>7, <1>12, <1>13, <1>14, <2>3
  <2>4. \A o \in Of(x) : reader[o] = "pushed" /\ <<"read", x>> \notin Announced' => reader'[o] = "pushed"
    BY <2>2, <2>3
  <2>5. Pushed(x) => Once(x)' \/ Pushed(x)'
    BY <2>4 DEF Pushed, Once
  <2>6. ASSUME Once(x), Pushed(x) PROVE Twice(x)'
    <3>1. PICK o \in Of(x) : reader[o] = "pushed"
      BY <2>6 DEF Pushed
    <3>2. CASE o # l
      BY <2>1, <2>2, <2>6, <3>1, <3>2 DEF Pushed, Twice
    <3>3. CASE o = l
      BY <1>1, <2>3, <2>6, <3>1, <3>3 DEF Once, Twice
    <3>4. QED  BY <3>2, <3>3
  <2>7. ASSUME NEW o \in Of(x), NEW q \in Of(x), o # q, reader[o] = "pushed", reader[q] = "pushed"
        PROVE  Twice(x)'
    <3>1. CASE o # l /\ q # l
      BY <2>2, <2>7, <3>1 DEF Twice
    <3>2. CASE o = l \/ q = l
      <4>1. <<"read", x>> \in Announced' /\ \E m \in Of(x) : reader'[m] = "pushed"
        BY <2>2, <2>3, <2>7, <3>2
      <4>2. QED  BY <4>1 DEF Once, Pushed, Twice
    <3>3. QED  BY <3>1, <3>2
  <2>8. Twice(x) => Twice(x)'
    <3>1. <<"read", x>> \in Repeated => Twice(x)'
      BY <1>7 DEF Twice
    <3>2. <<"read", x>> \in Announced /\ (owed = <<"read", x>> \/ (gpc = "recv" /\ gsid = x)) => Twice(x)'
      BY <1>1, <1>7 DEF Twice
    <3>3. QED  BY <2>6, <2>7, <3>1, <3>2 DEF Twice
  <2>9. Failing(x) => Failing(x)' \/ <<"err", x>> \in Announced'
    <3>1. SUFFICES ASSUME NEW o \in Of(x), reader[o] = "failed" \/ dialer[o] = "refused"
                   PROVE  Failing(x)' \/ <<"err", x>> \in Announced'
      BY DEF Failing
    <3>2. CASE o # l
      <4>1. reader'[o] = reader[o] /\ dialer'[o] = dialer[o]
        BY <1>2, <1>5, <3>2
      <4>2. QED  BY <3>1, <4>1 DEF Failing
    <3>3. CASE o = l
      <4>1. x = s /\ (reader[l] = "failed" \/ dialer[l] = "refused")
        BY <1>6, <1>12, <3>1, <3>3
      <4>2. k = "err"
        BY <1>4, <4>1 DEF IInv, ReaderInv
      <4>3. QED  BY <1>7, <1>14, <4>1, <4>2
    <3>4. QED  BY <3>2, <3>3
  <2>10. QED  BY <2>1, <2>5, <2>6, <2>8, <2>9
<1>15. ReadInv'
  BY <1>1, <1>7, <1>14 DEF IInv, ReadInv
<1>16. ErrorInv'
  BY <1>1, <1>7, <1>14 DEF IInv, ErrorInv
<1>17. QED  BY <1>7, <1>8, <1>9, <1>10, <1>11, <1>15, <1>16 DEF IInv

\* The dispatcher calls the guest and the guest returns, with nothing owed.
LEMMA CallReturnInv ==
    ASSUME IInv, StartBatch \/ GuestReturn \/ UNCHANGED vars
    PROVE  IInv'
<1>1. /\ UNCHANGED <<shutVars, sockVars, netVars, timerVars, gsid, told>>
      /\ \/ UNCHANGED <<gpc, owed>>
         \/ gpc = "idle" /\ gpc' = "guest" /\ owed' = owed
         \/ /\ gpc = "guest" /\ (owed = NoEvent \/ owed[2] \notin sockets)
            /\ gpc' \in {"idle", "wait"} /\ owed' = NoEvent
  BY DEF StartBatch, GuestReturn, vars
<1>2. Announced' = Announced /\ Repeated' = Repeated
  BY <1>1, SameEvents
<1>3. TypeOK'
  <2>1. EventType' /\ SocketType' /\ NetType' /\ TimerType' /\ GuestType'
    BY <1>1, TypeParts DEF IInv, EventType, SocketType, NetType, TimerType, GuestType
  <2>2. QED  BY <2>1, TypeParts
<1>4. CallInv' /\ FreshInv' /\ ReaderInv' /\ OnceInv'
  BY <1>1 DEF IInv, CallInv, FreshInv, ReaderInv, OnceInv
<1>5. SocketInv' /\ TimerInv'
  BY <1>1, <1>2 DEF IInv, SocketInv, Closing, TimerInv
<1>6. \A s \in sockets : <<"read", s>> # owed \/ owed' = owed
  BY <1>1
<1>7. \A s \in sockets : <<"err", s>> # owed \/ owed' = owed
  BY <1>1
<1>8. ReadInv'
  BY <1>1, <1>2, <1>6 DEF IInv, ReadInv, Once, Pushed
<1>9. ErrorInv'
  BY <1>1, <1>2, <1>6, <1>7 DEF IInv, ErrorInv, Once, Twice, Pushed, Failing
<1>10. QED  BY <1>3, <1>4, <1>5, <1>8, <1>9 DEF IInv

\* The dispatcher receives an event: the guest owes what it announced.
LEMMA DispatchInv ==
    ASSUME IInv, Dispatch
    PROVE  IInv'
<1> DEFINE ev == Head(events)
<1>1. /\ gpc = "wait" /\ events # <<>> /\ events' = Tail(events) /\ gpc' = "guest"
      /\ owed' = Owed(ev)
      /\ tpc' = IF ev[1] = "timer" THEN [tpc EXCEPT ![ev[2]] = "delivered"] ELSE tpc
      /\ UNCHANGED <<spc, cause, sockVars, netVars, timers, nextTimer, gsid, told>>
  BY DEF Dispatch
<1>2. EventType /\ SocketType /\ NetType /\ TimerType /\ GuestType
  BY TypeParts DEF IInv
<1>3. ev \in Events /\ ev \in Announced /\ EventType'
  <2>1. Head(events) = events[1] /\ 1 \in 1..Len(events) /\ Head(events) \in Events
    BY <1>1, <1>2 DEF EventType
  <2>2. Tail(events) \in Seq(Events) /\ Len(Tail(events)) = Len(events) - 1 /\ Len(events) \in Nat
    BY <1>1, <1>2 DEF EventType
  <2>3. EventType'
    BY <1>1, <1>2, <2>2, Bounds DEF EventType
  <2>4. QED  BY <2>1, <2>3 DEF Announced
<1>4. /\ Announced' \subseteq Announced /\ Announced \subseteq Announced' \cup {ev}
      /\ Repeated \subseteq Announced' /\ Repeated \subseteq Repeated' \cup {ev}
  BY <1>1, <1>2, Received DEF EventType
<1> HIDE DEF ev
<1>5. owed = NoEvent
  BY <1>1 DEF IInv, CallInv
<1>6. owed' \in {ev, NoEvent} /\ \A s \in sockets : ev \in {<<"read", s>>, <<"err", s>>} => owed' = ev
  BY <1>1 DEF Owed
<1>7. TypeOK'
  <2>1. SocketType' /\ NetType' /\ TimerType'
    BY <1>1, <1>2 DEF SocketType, NetType, TimerType
  <2>2. GuestType'
    BY <1>1, <1>2, <1>3, <1>6 DEF GuestType
  <2>3. QED  BY <1>3, <2>1, <2>2, TypeParts
<1>8. CallInv' /\ FreshInv' /\ ReaderInv' /\ OnceInv'
  BY <1>1 DEF IInv, CallInv, FreshInv, ReaderInv, OnceInv
<1>9. SocketInv'
  BY <1>1 DEF IInv, SocketInv, Closing
<1>10. TimerInv'
  <2>1. TimerInv
    BY DEF IInv
  <2>2. CASE ev[1] = "timer"
    <3>1. PICK t \in Tids : ev = <<"timer", t>>
      BY <1>3, <2>2 DEF Events
    <3>2. \A u \in Tids : tpc'[u] = IF u = t THEN "delivered" ELSE tpc[u]
      BY <1>1, <1>2, <2>2, <3>1 DEF TimerType
    <3>3. tpc[t] \in {"sent", "delivered"}
      BY <1>3, <2>1, <3>1 DEF TimerInv
    <3>4. t \notin timers /\ ~(t >= nextTimer)
      BY <2>1, <3>3 DEF TimerInv
    <3>5. \A u \in Tids : u # t /\ <<"timer", u>> \in Announced => <<"timer", u>> \in Announced'
      BY <1>4, <3>1
    <3>6. QED  BY <1>1, <1>4, <2>1, <3>2, <3>4, <3>5 DEF TimerInv
  <2>3. CASE ev[1] # "timer"
    <3>1. \A u \in Tids : <<"timer", u>> \in Announced => <<"timer", u>> \in Announced'
      BY <1>4, <2>3
    <3>2. QED  BY <1>1, <1>4, <2>1, <2>3, <3>1 DEF TimerInv
  <2>4. QED  BY <2>2, <2>3
<1>11. ASSUME NEW s \in sockets
       PROVE  /\ ~(owed = <<"read", s>>) /\ ~(owed = <<"err", s>>)
              /\ <<"read", s>> \in Announced => <<"read", s>> \in Announced' \/ owed' = <<"read", s>>
              /\ <<"err", s>> \in Announced => <<"err", s>> \in Announced' \/ owed' = <<"err", s>>
              /\ <<"read", s>> \in Repeated => \/ <<"read", s>> \in Repeated'
                                               \/ <<"read", s>> \in Announced' /\ owed' = <<"read", s>>
  <2>1. ~(owed = <<"read", s>>) /\ ~(owed = <<"err", s>>)
    BY <1>5 DEF NoEvent
  <2>2. QED  BY <1>4, <1>6, <2>1
<1>12. ReadInv'
  BY <1>1, <1>11 DEF IInv, ReadInv, Once, Pushed
<1>13. ErrorInv'
  BY <1>1, <1>11 DEF IInv, ErrorInv, Once, Twice, Pushed, Failing
<1>14. QED  BY <1>7, <1>8, <1>9, <1>10, <1>12, <1>13 DEF IInv

-----------------------------------------------------------------------------
(***************************************************************************)
(* The invariant is inductive: the sockets.                                *)
(***************************************************************************)
\* A step that touches neither the channel nor the timers keeps what is known of
\* them.
LEMMA FrameShutTimer ==
    ASSUME IInv, UNCHANGED <<shutVars, timerVars>>
    PROVE  /\ EventType' /\ TimerType' /\ TimerInv' /\ (Done' <=> Done) /\ (SocketsNil' <=> SocketsNil)
           /\ Announced' = Announced /\ Repeated' = Repeated
<1>1. Announced' = Announced /\ Repeated' = Repeated
  BY SameEvents
<1>2. EventType' /\ TimerType'
  BY TypeParts DEF IInv, EventType, TimerType
<1>3. TimerInv'
  BY <1>1, FrameTimer DEF IInv
<1>4. QED  BY <1>1, <1>2, <1>3

\* sockOpen: the new socket has no state of an earlier one.
LEMMA OpenInv ==
    ASSUME IInv, NEW ty \in {"udp", "tcp"}, sockOpen(ty)
    PROVE  IInv'
<1>1. /\ gpc = "guest" /\ nextSocket \in Sids /\ ~SocketsNil /\ Cardinality(sockets) < MaxSockets
      /\ sockets' = sockets \cup {nextSocket} /\ typ' = [typ EXCEPT ![nextSocket] = ty]
      /\ nextSocket' = nextSocket + 1
      /\ UNCHANGED <<shutVars, sclosed, conn, queue, serr, netVars, timerVars, guestVars>>
  BY DEF sockOpen
<1>2. /\ EventType' /\ TimerType' /\ TimerInv' /\ (Done' <=> Done) /\ (SocketsNil' <=> SocketsNil)
      /\ Announced' = Announced /\ Repeated' = Repeated
  BY <1>1, FrameShutTimer
<1>3. SocketType
  BY TypeParts DEF IInv
<1>4. \A s \in Sids : typ'[s] = IF s = nextSocket THEN ty ELSE typ[s]
  BY <1>1, <1>3 DEF SocketType
<1>5. /\ typ[nextSocket] = "none" /\ ~sclosed[nextSocket]
      /\ queue[nextSocket] = <<>> /\ ~serr[nextSocket]
      /\ \A l \in Links : l[1] = nextSocket => conn[l] = "none" /\ reader[l] = "none" /\ dialer[l] = "none"
  <2>1. nextSocket >= nextSocket
    BY <1>1, Bounds DEF Sids
  <2>2. typ[nextSocket] = "none"
    BY <1>1, <2>1 DEF IInv, FreshInv
  <2>3. QED  BY <1>1, <2>2 DEF IInv, FreshInv
<1>6. TypeOK'
  <2>1. sockets' \subseteq Sids /\ Cardinality(sockets') <= MaxSockets
    BY <1>1, <1>3, OneMore, Bounds DEF SocketType, Sids
  <2>2. nextSocket' \in 1..(LastSid + 1)
    BY <1>1, Bounds DEF Sids
  <2>3. SocketType'
    BY <1>1, <1>3, <2>1, <2>2 DEF SocketType
  <2>4. NetType' /\ GuestType'
    BY <1>1, TypeParts DEF IInv, NetType, GuestType
  <2>5. QED  BY <1>2, <2>3, <2>4, TypeParts
<1>7. CallInv'
  BY <1>1, <1>4 DEF IInv, CallInv
<1>8. FreshInv'
  <2>1. \A s \in Sids : s >= nextSocket' => s >= nextSocket /\ s # nextSocket
    BY <1>1, Bounds DEF Sids
  <2>2. QED  BY <1>1, <1>4, <2>1, LinkFacts DEF IInv, FreshInv
<1>9. ReaderInv' /\ OnceInv'
  BY <1>1, <1>4, <1>5, LinkFacts DEF IInv, ReaderInv, OnceInv
<1>10. SocketInv'
  BY <1>1, <1>2, <1>4, LinkFacts DEF IInv, SocketInv, Closing
<1>11. ReadInv'
  BY <1>1, <1>2, <1>5 DEF IInv, ReadInv, Once, Pushed
<1>12. ErrorInv'
  BY <1>1, <1>2, <1>5 DEF IInv, ErrorInv, Once, Twice, Pushed, Failing
<1>13. QED  BY <1>2, <1>6, <1>7, <1>8, <1>9, <1>10, <1>11, <1>12 DEF IInv

\* sockBind, sockConnect and sockSendTo, up to the event of sockConnect: a UDP
\* socket gets its reader, a TCP socket its dialer, and neither gets it twice.
LEMMA ListenInv ==
    ASSUME IInv, \/ \E s \in Sids : sockBind(s) \/ sockConnect(s) \/ sockSendTo(s)
                 \/ SendListen
    PROVE  IInv'
<1>1. /\ UNCHANGED <<shutVars, sockets, nextSocket, typ, sclosed, queue, serr, packets, timerVars, owed, told>>
      /\ \/ gpc = "guest" /\ gpc' \in {"guest", "connect", "send"}
         \/ gpc = "send" /\ gpc' = "guest"
  BY DEF sockBind, sockConnect, sockSendTo, SendListen, InGuest
<1>2. PICK s \in Sids :
        /\ typ[s] # "none" /\ (GuestBinds => ~sclosed[s])
        /\ gpc' \in {"connect", "send"} => gsid' = s
        /\ gpc' = "send" => typ[s] = "udp" /\ ~GuestBinds
        /\ gsid' \in {s, gsid, 0}
        /\ \/ UNCHANGED <<conn, reader, dialer>>
           \/ /\ typ[s] = "udp" /\ NoConn(s) /\ dialer' = dialer
              /\ conn' = [conn EXCEPT ![Udp(s)] = "open"] /\ reader' = [reader EXCEPT ![Udp(s)] = "reading"]
           \/ /\ typ[s] = "tcp" /\ NoConn(s) /\ UNCHANGED <<conn, reader>>
              /\ \E l \in Of(s) : NextDial(l) /\ dialer' = [dialer EXCEPT ![l] = "dialing"]
  <2>1. ASSUME NEW s \in Sids, sockBind(s) \/ sockConnect(s) \/ sockSendTo(s)
        PROVE  typ[s] # "none" /\ ~sclosed[s]
    BY <2>1 DEF sockBind, sockConnect, sockSendTo, InGuest, IInv, FreshInv
  <2>2. ASSUME NEW s \in Sids, sockBind(s)
        PROVE  /\ gpc' = "guest" /\ gsid' = gsid /\ typ[s] = "udp" /\ NoConn(s) /\ dialer' = dialer
               /\ conn' = [conn EXCEPT ![Udp(s)] = "open"] /\ reader' = [reader EXCEPT ![Udp(s)] = "reading"]
    BY <2>2 DEF sockBind, listenUDPLocked, InGuest
  <2>3. ASSUME NEW s \in Sids, sockConnect(s)
        PROVE  /\ gpc' \in {"guest", "connect"} /\ (gpc' = "connect" => gsid' = s) /\ gsid' \in {gsid, s}
               /\ \/ UNCHANGED <<conn, reader, dialer>>
                  \/ /\ typ[s] = "udp" /\ NoConn(s) /\ dialer' = dialer
                     /\ conn' = [conn EXCEPT ![Udp(s)] = "open"] /\ reader' = [reader EXCEPT ![Udp(s)] = "reading"]
                  \/ /\ typ[s] = "tcp" /\ NoConn(s) /\ UNCHANGED <<conn, reader>>
                     /\ \E l \in Of(s) : NextDial(l) /\ dialer' = [dialer EXCEPT ![l] = "dialing"]
    BY <2>3 DEF sockConnect, listenUDPLocked, InGuest
  <2>4. ASSUME NEW s \in Sids, sockSendTo(s)
        PROVE  /\ gpc' = "send" /\ gsid' = s /\ typ[s] = "udp" /\ ~GuestBinds
               /\ UNCHANGED <<conn, reader, dialer>>
    BY <2>4 DEF sockSendTo
  <2>5. CASE SendListen
    <3>1. gsid \in Sids /\ typ[gsid] = "udp" /\ ~GuestBinds /\ gpc' = "guest" /\ gsid' = 0 /\ dialer' = dialer
      BY <2>5 DEF SendListen, IInv, CallInv
    <3>2. \/ UNCHANGED <<conn, reader>>
          \/ /\ NoConn(gsid) /\ conn' = [conn EXCEPT ![Udp(gsid)] = "open"]
             /\ reader' = [reader EXCEPT ![Udp(gsid)] = "reading"]
      BY <2>5 DEF SendListen, listenUDPLocked
    <3>3. QED  BY <3>1, <3>2
  <2>6. QED  BY <2>1, <2>2, <2>3, <2>4, <2>5
<1>3. /\ EventType' /\ TimerType' /\ TimerInv' /\ (Done' <=> Done) /\ (SocketsNil' <=> SocketsNil)
      /\ Announced' = Announced /\ Repeated' = Repeated
  BY <1>1, FrameShutTimer
<1>4. SocketType /\ NetType /\ GuestType
  BY TypeParts DEF IInv
<1>5. PICK l \in Links :
        /\ l[1] = s
        /\ \A o \in Links : o # l => conn'[o] = conn[o] /\ reader'[o] = reader[o] /\ dialer'[o] = dialer[o]
        /\ \/ conn'[l] = conn[l] /\ reader'[l] = reader[l] /\ dialer'[l] = dialer[l]
           \/ /\ typ[s] = "udp" /\ conn[l] = "none" /\ dialer'[l] = dialer[l] /\ l[2] = 1
              /\ conn'[l] = "open" /\ reader'[l] = "reading"
           \/ /\ typ[s] = "tcp" /\ conn[l] = "none" /\ dialer[l] = "none" /\ (GuestConnectsOnce => l[2] = 1)
              /\ dialer'[l] = "dialing" /\ conn'[l] = conn[l] /\ reader'[l] = reader[l]
        /\ SocketType' /\ NetType'
  <2>1. Udp(s) \in Links /\ Udp(s) \in Of(s) /\ Udp(s)[1] = s /\ Udp(s)[2] = 1
    BY LinkFacts
  <2>2. CASE UNCHANGED <<conn, reader, dialer>>
    <3>1. SocketType' /\ NetType'
      BY <1>1, <1>4, <2>2 DEF SocketType, NetType
    <3>2. QED  BY <2>1, <2>2, <3>1
  <2>3. CASE /\ typ[s] = "udp" /\ NoConn(s) /\ dialer' = dialer
             /\ conn' = [conn EXCEPT ![Udp(s)] = "open"] /\ reader' = [reader EXCEPT ![Udp(s)] = "reading"]
    <3> DEFINE u == Udp(s)
    <3>1. u \in Links /\ u[1] = s /\ u[2] = 1 /\ conn[u] = "none"
      BY <2>1, <2>3 DEF NoConn
    <3>2. conn' = [conn EXCEPT ![u] = "open"] /\ reader' = [reader EXCEPT ![u] = "reading"]
      BY <2>3
    <3> HIDE DEF u
    <3>3. SocketType' /\ NetType'
      BY <1>1, <1>4, <2>3, <3>1, <3>2 DEF SocketType, NetType
    <3>4. conn'[u] = "open" /\ reader'[u] = "reading"
      BY <1>4, <3>1, <3>2 DEF SocketType, NetType
    <3>5. \A o \in Links : o # u => conn'[o] = conn[o] /\ reader'[o] = reader[o] /\ dialer'[o] = dialer[o]
      BY <1>4, <2>3, <3>1, <3>2 DEF SocketType, NetType
    <3>6. QED  BY <2>3, <3>1, <3>3, <3>4, <3>5
  <2>4. CASE /\ typ[s] = "tcp" /\ NoConn(s) /\ UNCHANGED <<conn, reader>>
             /\ \E l \in Of(s) : NextDial(l) /\ dialer' = [dialer EXCEPT ![l] = "dialing"]
    <3>1. PICK l \in Of(s) : NextDial(l) /\ dialer' = [dialer EXCEPT ![l] = "dialing"]
      BY <2>4
    <3>2. /\ l \in Links /\ l[1] = s /\ conn[l] = "none" /\ dialer[l] = "none"
          /\ GuestConnectsOnce => l[2] = 1
      BY <2>4, <3>1, LinkFacts DEF NoConn, NextDial
    <3>3. SocketType' /\ NetType'
      BY <1>1, <1>4, <2>4, <3>1, <3>2 DEF SocketType, NetType
    <3>4. dialer'[l] = "dialing" /\ (\A o \in Links : o # l => dialer'[o] = dialer[o])
      BY <1>4, <3>1, <3>2 DEF NetType
    <3>5. QED  BY <2>4, <3>2, <3>3, <3>4
  <2>5. QED  BY <1>2, <2>2, <2>3, <2>4
<1>6. TypeOK'
  <2>1. GuestType'
    BY <1>1, <1>2, <1>4 DEF GuestType
  <2>2. QED  BY <1>3, <1>5, <2>1, TypeParts
<1>7. /\ conn[l] = "none" => reader[l] = "none"
      /\ typ[s] = "udp" => dialer[l] = "none"
  BY <1>5 DEF IInv, ReaderInv
<1>8. CallInv'
  BY <1>1, <1>2 DEF IInv, CallInv
<1>9. FreshInv'
  BY <1>1, <1>2, <1>5 DEF IInv, FreshInv
<1>10. ReaderInv'
  BY <1>1, <1>5, <1>7 DEF IInv, ReaderInv
<1>11. OnceInv'
  BY <1>1, <1>5 DEF IInv, OnceInv
<1>12. SocketInv'
  BY <1>1, <1>2, <1>3, <1>5 DEF IInv, SocketInv, Closing
<1>13. \A o \in Links : /\ reader[o] = "pushed" => reader'[o] = "pushed"
                        /\ reader[o] = "failed" => reader'[o] = "failed"
                        /\ dialer[o] = "refused" => dialer'[o] = "refused"
  BY <1>5, <1>7
<1>14. \A x \in sockets : /\ Once(x) => Once(x)'
                          /\ Pushed(x) => Pushed(x)'
                          /\ Failing(x) => Failing(x)'
                          /\ Twice(x) => Twice(x)'
  <2>1. \A x \in sockets : Once(x) => Once(x)'
    BY <1>1, <1>3 DEF Once
  <2>2. \A x \in sockets : Pushed(x) => Pushed(x)'
    BY <1>13, LinkFacts DEF Pushed
  <2>3. \A x \in sockets : Failing(x) => Failing(x)'
    BY <1>13, LinkFacts DEF Failing
  <2>4. \A x \in sockets : Twice(x) => Twice(x)'
    BY <1>1, <1>3, <1>13, <2>1, <2>2, LinkFacts DEF Twice
  <2>5. QED  BY <2>1, <2>2, <2>3, <2>4
<1>15. ReadInv'
  BY <1>1, <1>3, <1>14 DEF IInv, ReadInv
<1>16. ErrorInv'
  BY <1>1, <1>3, <1>14 DEF IInv, ErrorInv
<1>17. QED  BY <1>3, <1>6, <1>8, <1>9, <1>10, <1>11, <1>12, <1>15, <1>16 DEF IInv

\* What a read leaves of a queue is a queue.
LEMMA AfterReadType ==
    ASSUME SocketType, NEW s \in Sids, NEW m \in 1..MaxChunks, queue[s] # <<>>
    PROVE  AfterRead(s, m) \in Seq(1..MaxChunks)
<1>1. queue[s] \in Seq(1..MaxChunks)
  BY DEF SocketType
<1>2. Head(queue[s]) \in 1..MaxChunks /\ Tail(queue[s]) \in Seq(1..MaxChunks)
  BY <1>1, HeadTailProperties
<1>3. ASSUME ~(Head(queue[s]) <= m) PROVE Head(queue[s]) - m \in 1..MaxChunks
  BY <1>2, <1>3, Bounds
<1>4. ASSUME NEW h \in 1..MaxChunks PROVE <<h>> \o Tail(queue[s]) \in Seq(1..MaxChunks)
  BY <1>2
<1>5. QED  BY <1>2, <1>3, <1>4 DEF AfterRead

\* Collecting what is owed for one socket concerns no other.
LEMMA Collected ==
    ASSUME NEW s, NEW K \in SUBSET {"read", "err"}, Collect(s, K)
    PROVE  /\ owed' \in {owed, NoEvent}
           /\ \A k, x : owed = <<k, x>> /\ (x # s \/ k \notin K) => owed' = owed
  BY DEF Collect

\* Reading from a socket and asking for its error.
LEMMA RecvInv ==
    ASSUME IInv, NEW s \in Sids, sockError(s) \/ \E m \in 1..MaxChunks : sockRecv(s, m)
    PROVE  IInv'
<1>1. /\ gpc = "guest" /\ s \in sockets
      /\ UNCHANGED <<shutVars, sockets, nextSocket, typ, sclosed, conn, netVars, timerVars>>
  BY DEF sockError, sockRecv, InGuest
<1>2. EventType /\ SocketType /\ NetType /\ TimerType /\ GuestType
  BY TypeParts DEF IInv
<1>3. /\ owed' \in {owed, NoEvent}
      /\ \A x : x # s => (owed = <<"read", x>> => owed' = owed) /\ (owed = <<"err", x>> => owed' = owed)
      /\ sockError(s) => (owed = <<"read", s>> => owed' = owed)
  <2>1. CASE sockError(s)
    BY <2>1, Collected DEF sockError
  <2>2. CASE \E m \in 1..MaxChunks : sockRecv(s, m)
    <3>1. Collect(s, {"read", "err"})
      BY <2>2 DEF sockRecv
    <3>2. \A x : x # s => (owed = <<"read", x>> => owed' = owed) /\ (owed = <<"err", x>> => owed' = owed)
      BY <3>1, Collected
    <3>3. owed' \in {owed, NoEvent}
      BY <3>1, Collected
    <3>4. sockError(s) => Collect(s, {"err"})
      BY DEF sockError
    <3>5. sockError(s) => (owed = <<"read", s>> => owed' = owed)
      BY <3>4, Collected
    <3>6. QED  BY <3>2, <3>3, <3>5
  <2>3. QED  BY <2>1, <2>2
<1>4. \/ /\ (queue[s] = <<>> \/ sockError(s)) /\ serr' = [serr EXCEPT ![s] = FALSE]
         /\ UNCHANGED <<queue, gpc, gsid>>
      \/ /\ queue[s] # <<>> /\ serr' = serr
         /\ \E q \in Seq(1..MaxChunks) :
               /\ queue' = [queue EXCEPT ![s] = q]
               /\ \/ q = <<>> /\ UNCHANGED <<gpc, gsid>>
                  \/ gpc' = "recv" /\ gsid' = s
  <2>1. CASE sockError(s)
    BY <2>1 DEF sockError
  <2>2. ASSUME NEW m \in 1..MaxChunks, sockRecv(s, m), queue[s] = <<>>
        PROVE  serr' = [serr EXCEPT ![s] = FALSE] /\ UNCHANGED <<queue, gpc, gsid>>
    BY <2>2 DEF sockRecv
  <2>3. ASSUME NEW m \in 1..MaxChunks, sockRecv(s, m), queue[s] # <<>>
        PROVE  /\ serr' = serr /\ queue' = [queue EXCEPT ![s] = AfterRead(s, m)]
               /\ (AfterRead(s, m) = <<>> /\ UNCHANGED <<gpc, gsid>>) \/ (gpc' = "recv" /\ gsid' = s)
               /\ AfterRead(s, m) \in Seq(1..MaxChunks)
    <3>1. AfterRead(s, m) \in Seq(1..MaxChunks)
      BY <1>2, <2>3, AfterReadType
    <3>2. QED  BY <2>3, <3>1 DEF sockRecv
  <2>4. QED  BY <2>1, <2>2, <2>3
<1>5. told' \in [Sids -> BOOLEAN]
  <2>1. told \in [Sids -> BOOLEAN] /\ serr \in [Sids -> BOOLEAN]
    BY <1>2 DEF GuestType, SocketType
  <2>2. told' = told \/ told' = [told EXCEPT ![s] = told[s] \/ serr[s]]
    BY DEF sockError, sockRecv
  <2>3. (told[s] \/ serr[s]) \in BOOLEAN
    BY <2>1
  <2>4. QED  BY <2>1, <2>2, <2>3
<1>6. /\ EventType' /\ TimerType' /\ TimerInv' /\ (Done' <=> Done) /\ (SocketsNil' <=> SocketsNil)
      /\ Announced' = Announced /\ Repeated' = Repeated
  BY <1>1, FrameShutTimer
<1>7. TypeOK'
  <2>1. serr' \in [Sids -> BOOLEAN] /\ queue' \in [Sids -> Seq(1..MaxChunks)]
    BY <1>2, <1>4 DEF SocketType
  <2>2. SocketType' /\ NetType'
    BY <1>1, <1>2, <2>1 DEF SocketType, NetType
  <2>3. GuestType'
    BY <1>1, <1>2, <1>3, <1>4, <1>5 DEF GuestType
  <2>4. QED  BY <1>6, <2>2, <2>3, TypeParts
<1>8. typ[s] # "none"
  BY <1>1 DEF IInv, FreshInv
<1>9. \A x \in Sids : /\ x # s => queue'[x] = queue[x] /\ serr'[x] = serr[x]
                      /\ serr'[x] => serr[x]
  BY <1>2, <1>4 DEF SocketType
<1>10. CallInv'
  BY <1>1, <1>4, <1>8 DEF IInv, CallInv
<1>11. FreshInv' /\ ReaderInv' /\ OnceInv'
  BY <1>1, <1>8, <1>9 DEF IInv, FreshInv, ReaderInv, OnceInv
<1>12. SocketInv'
  BY <1>1, <1>4, <1>6 DEF IInv, SocketInv, Closing
<1>13. sockets \subseteq Sids
  BY <1>2 DEF SocketType
<1>14. ASSUME NEW x \in sockets, x # s
       PROVE  /\ queue'[x] = queue[x] /\ serr'[x] = serr[x]
              /\ (Once(x) => Once(x)') /\ (Twice(x) => Twice(x)') /\ (owed = <<"err", x>> => owed' = owed)
              /\ (Pushed(x) => Pushed(x)') /\ (Failing(x) => Failing(x)')
  <2>1. queue'[x] = queue[x] /\ serr'[x] = serr[x]
    BY <1>9, <1>13, <1>14
  <2>2. (owed = <<"read", x>> => owed' = owed) /\ (owed = <<"err", x>> => owed' = owed)
    BY <1>3, <1>14
  <2>3. (Pushed(x) => Pushed(x)') /\ (Failing(x) => Failing(x)')
    BY <1>1 DEF Pushed, Failing
  <2>4. (Once(x) => Once(x)') /\ (Twice(x) => Twice(x)')
    BY <1>1, <1>6, <2>2, <2>3 DEF Once, Twice
  <2>5. QED  BY <2>1, <2>2, <2>3, <2>4
<1>15. ~Done /\ queue'[s] # <<>> => Once(s)' \/ Pushed(s)
  <2>1. CASE gpc' = "recv" /\ gsid' = s
    BY <2>1 DEF Once
  <2>2. CASE queue' = queue /\ UNCHANGED <<gpc, gsid>> /\ (sockError(s) \/ queue[s] = <<>>)
    <3>1. SUFFICES ASSUME sockError(s), ~Done, Once(s) PROVE Once(s)'
      BY <1>1, <2>2 DEF IInv, ReadInv, sockError
    <3>2. QED  BY <1>3, <1>6, <2>2, <3>1 DEF Once
  <2>3. CASE queue'[s] = <<>>
    BY <2>3
  <2>4. QED  BY <1>2, <1>4, <2>1, <2>2, <2>3 DEF SocketType
<1>16. (Pushed(s)' <=> Pushed(s)) /\ (Failing(s)' <=> Failing(s)) /\ ReadInv'
  <2>1. (Pushed(s)' <=> Pushed(s)) /\ (Failing(s)' <=> Failing(s))
    BY <1>1 DEF Pushed, Failing
  <2>2. QED  BY <1>1, <1>6, <1>14, <1>15, <2>1 DEF IInv, ReadInv
<1>17. ASSUME ~Done, serr'[s]
       PROVE  \/ <<"err", s>> \in Announced \/ Failing(s)
              \/ queue'[s] = <<>> /\ (Once(s)' \/ Pushed(s)')
              \/ Twice(s)'
  <2>1. queue[s] # <<>> /\ serr[s] /\ (queue'[s] = <<>> \/ (gpc' = "recv" /\ gsid' = s))
    <3>1. serr' # [serr EXCEPT ![s] = FALSE]
      BY <1>2, <1>17 DEF SocketType
    <3>2. queue[s] # <<>> /\ serr' = serr
      BY <1>4, <3>1
    <3>3. PICK q \in Seq(1..MaxChunks) :
            queue' = [queue EXCEPT ![s] = q] /\ (q = <<>> \/ (gpc' = "recv" /\ gsid' = s))
      BY <1>4, <3>1
    <3>4. queue'[s] = q
      BY <1>2, <3>3 DEF SocketType
    <3>5. QED  BY <1>17, <3>2, <3>3, <3>4
  <2>2. <<"read", s>> \in Announced \/ owed = <<"read", s>> \/ Pushed(s)
    BY <1>1, <1>17, <2>1 DEF IInv, ReadInv, Once
  <2>3. CASE <<"read", s>> \in Announced
    BY <1>6, <2>1, <2>3 DEF Once, Twice
  <2>4. CASE Pushed(s)
    BY <1>16, <2>1, <2>4 DEF Once, Twice
  <2>5. CASE <<"read", s>> \notin Announced /\ ~Pushed(s)
    <3>1. owed = <<"read", s>> /\ owed # <<"err", s>>
      BY <2>2, <2>5
    <3>2. <<"read", s>> \notin Repeated
      BY <2>5 DEF Announced, Repeated
    <3>3. ~Twice(s)
      BY <2>5, <3>2 DEF Twice, Pushed
    <3>4. QED  BY <1>1, <1>17, <2>1, <2>5, <3>1, <3>3 DEF IInv, ErrorInv
  <2>6. QED  BY <2>3, <2>4, <2>5
<1>18. ErrorInv'
  BY <1>1, <1>6, <1>14, <1>16, <1>17 DEF IInv, ErrorInv
<1>19. QED  BY <1>6, <1>7, <1>10, <1>11, <1>12, <1>16, <1>18 DEF IInv

\* The guest closes a socket, in the two steps of sockClose.
LEMMA CloseInv ==
    ASSUME IInv, (\E s \in Sids : sockClose(s)) \/ CloseConn
    PROVE  IInv'
<1>1. EventType /\ SocketType /\ NetType /\ TimerType /\ GuestType
  BY TypeParts DEF IInv
<1>2. UNCHANGED <<shutVars, nextSocket, typ, queue, serr, netVars, timerVars, told>>
  BY DEF sockClose, CloseConn
<1>3. /\ EventType' /\ TimerType' /\ TimerInv' /\ (Done' <=> Done) /\ (SocketsNil' <=> SocketsNil)
      /\ Announced' = Announced /\ Repeated' = Repeated
  BY <1>2, FrameShutTimer
<1>4. ASSUME NEW s \in Sids, sockClose(s) PROVE IInv'
  <2>1. /\ gpc = "guest" /\ s \in sockets /\ sockets' = sockets \ {s} /\ gpc' = "close" /\ gsid' = s
        /\ UNCHANGED <<sclosed, conn>> /\ Collect(s, {"read", "err"})
    BY <1>4 DEF sockClose, InGuest
  <2>2. /\ owed' \in {owed, NoEvent}
        /\ \A x : x # s => (owed = <<"read", x>> => owed' = owed) /\ (owed = <<"err", x>> => owed' = owed)
    BY <2>1, Collected
  <2>3. TypeOK'
    <3>1. sockets' \subseteq Sids /\ Cardinality(sockets') <= MaxSockets
      BY <1>1, <2>1, OneLess, Bounds DEF SocketType, Sids
    <3>2. SocketType' /\ NetType' /\ GuestType'
      BY <1>1, <1>2, <2>1, <2>2, <3>1 DEF SocketType, NetType, GuestType
    <3>3. QED  BY <1>3, <3>2, TypeParts
  <2>4. typ[s] # "none"
    BY <2>1 DEF IInv, FreshInv
  <2>5. CallInv' /\ FreshInv' /\ ReaderInv' /\ OnceInv'
    BY <1>2, <2>1, <2>4 DEF IInv, CallInv, FreshInv, ReaderInv, OnceInv
  <2>6. SocketInv'
    BY <1>2, <1>3, <2>1 DEF IInv, SocketInv, Closing
  <2>7. ReadInv'
    BY <1>2, <1>3, <2>1, <2>2 DEF IInv, ReadInv, Once, Pushed
  <2>8. ErrorInv'
    BY <1>2, <1>3, <2>1, <2>2 DEF IInv, ErrorInv, Once, Twice, Pushed, Failing
  <2>9. QED  BY <1>3, <2>3, <2>5, <2>6, <2>7, <2>8 DEF IInv
<1>5. CASE CloseConn
  <2>1. /\ gpc = "close" /\ gpc' = "guest" /\ gsid' = 0 /\ UNCHANGED <<sockets, owed>>
        /\ sclosed' = [x \in Sids |-> sclosed[x] \/ x \in {gsid}]
        /\ conn' = [l \in Links |-> IF l[1] \in {gsid} /\ conn[l] = "open" THEN "closed" ELSE conn[l]]
    BY <1>5 DEF CloseConn, closeSockets
  <2>2. gsid \in Sids /\ typ[gsid] # "none"
    BY <2>1 DEF IInv, CallInv
  <2>3. /\ \A x \in Sids : sclosed'[x] <=> sclosed[x] \/ x = gsid
        /\ \A l \in Links : conn'[l] = IF l[1] = gsid /\ conn[l] = "open" THEN "closed" ELSE conn[l]
    BY <2>1
  <2>4. TypeOK'
    <3>1. sclosed' \in [Sids -> BOOLEAN]
      <4>1. \A x \in Sids : (sclosed[x] \/ x \in {gsid}) \in BOOLEAN
        BY Zenon
      <4>2. QED  BY <2>1, <4>1, Zenon
    <3>2. SocketType' /\ NetType' /\ GuestType'
      BY <1>1, <1>2, <2>1, <3>1 DEF SocketType, NetType, GuestType
    <3>3. QED  BY <1>3, <3>2, TypeParts
  <2>5. CallInv'
    BY <1>2, <2>1 DEF IInv, CallInv
  <2>6. FreshInv' /\ ReaderInv' /\ OnceInv'
    BY <1>2, <2>1, <2>2, <2>3, LinkFacts DEF IInv, FreshInv, ReaderInv, OnceInv
  <2>7. SocketInv'
    BY <1>2, <1>3, <2>1, <2>3, LinkFacts DEF IInv, SocketInv, OnceInv, Closing
  <2>8. ReadInv'
    BY <1>2, <1>3, <2>1 DEF IInv, ReadInv, Once, Pushed
  <2>9. ErrorInv'
    BY <1>2, <1>3, <2>1 DEF IInv, ErrorInv, Once, Twice, Pushed, Failing
  <2>10. QED  BY <1>3, <2>4, <2>5, <2>6, <2>7, <2>8, <2>9 DEF IInv
<1>6. QED  BY <1>4, <1>5

\* The goroutines of a socket, up to their events.
LEMMA GoroutineInv ==
    ASSUME IInv, NEW l \in Links,
           DialDone(l) \/ ReadData(l) \/ Push(l) \/ ReadClosed(l) \/ ReadFail(l)
    PROVE  IInv'
<1> DEFINE s == l[1]
<1>1. EventType /\ SocketType /\ NetType /\ TimerType /\ GuestType
  BY TypeParts DEF IInv
<1>2. UNCHANGED <<shutVars, sockets, nextSocket, typ, sclosed, timerVars, guestVars>>
  BY DEF DialDone, ReadData, Push, ReadClosed, ReadFail
<1>3. /\ EventType' /\ TimerType' /\ TimerInv' /\ (Done' <=> Done) /\ (SocketsNil' <=> SocketsNil)
      /\ Announced' = Announced /\ Repeated' = Repeated
  BY <1>2, FrameShutTimer
<1>4. s \in Sids /\ l \in Of(s) /\ (\A x : \A o \in Of(x) : o \in Links /\ o[1] = x)
  BY LinkFacts
<1>5. SocketType' /\ NetType'
  <2> DEFINE marked == serr' = serr \/ \E b \in BOOLEAN : serr' = [serr EXCEPT ![s] = b]
  <2>0. ASSUME marked PROVE serr' \in [Sids -> BOOLEAN]
    BY <1>1, <1>4, <2>0 DEF SocketType
  <2>1. CASE DialDone(l)
    <3>1. Connected(l) \in [Links -> {"none", "open", "lost", "closed"}]
      BY <1>1 DEF SocketType, Connected
    <3>2. conn' \in [Links -> {"none", "open", "lost", "closed"}]
      BY <1>1, <2>1, <3>1 DEF DialDone, SocketType
    <3>3. marked
      BY <2>1 DEF DialDone
    <3>4. serr' \in [Sids -> BOOLEAN]
      BY <2>0, <3>3
    <3>5. NetType'
      BY <1>1, <2>1 DEF DialDone, NetType
    <3>6. QED  BY <1>1, <2>1, <3>2, <3>4, <3>5 DEF DialDone, SocketType
  <2>2. CASE ReadData(l)
    BY <1>1, <2>2, Bounds DEF ReadData, SocketType, NetType
  <2>3. CASE Push(l)
    <3>1. PICK m \in 1..MaxChunks : queue' = IF sclosed[s] THEN queue ELSE [queue EXCEPT ![s] = Append(queue[s], m)]
      BY <2>3 DEF Push
    <3>2. queue[s] \in Seq(1..MaxChunks) /\ Append(queue[s], m) \in Seq(1..MaxChunks)
      BY <1>1, <1>4 DEF SocketType
    <3>3. queue' \in [Sids -> Seq(1..MaxChunks)]
      BY <1>1, <1>4, <3>1, <3>2 DEF SocketType
    <3>4. QED  BY <1>1, <2>3, <3>3 DEF Push, SocketType, NetType
  <2>4. CASE ReadClosed(l) \/ ReadFail(l)
    <3>1. marked
      BY <2>4 DEF ReadClosed, ReadFail
    <3>2. serr' \in [Sids -> BOOLEAN]
      BY <2>0, <3>1
    <3>3. NetType'
      BY <1>1, <2>4 DEF ReadClosed, ReadFail, NetType
    <3>4. QED  BY <1>1, <2>4, <3>2, <3>3 DEF ReadClosed, ReadFail, SocketType
  <2>5. QED  BY <2>1, <2>2, <2>3, <2>4
<1>6. TypeOK'
  BY <1>1, <1>2, <1>3, <1>5, TypeParts DEF GuestType
<1>7. /\ \A x \in Sids : x # s => queue'[x] = queue[x] /\ serr'[x] = serr[x]
      /\ \A o \in Links : o # l => reader'[o] = reader[o] /\ dialer'[o] = dialer[o]
  BY <1>1, <1>4 DEF DialDone, ReadData, Push, ReadClosed, ReadFail, SocketType, NetType
<1>8. \/ /\ dialer[l] = "dialing" /\ reader'[l] = reader[l] /\ queue'[s] = queue[s]
         /\ \/ dialer'[l] = "over" /\ conn' = conn /\ serr'[s] = serr[s]
            \/ dialer'[l] = "connected" /\ conn' = Connected(l) /\ ~serr'[s] /\ ~sclosed[s]
            \/ dialer'[l] = "refused" /\ conn' = conn /\ serr'[s]
      \/ /\ dialer'[l] = dialer[l] /\ conn' = conn
         /\ \/ reader[l] = "reading" /\ reader'[l] = "data" /\ queue'[s] = queue[s] /\ serr'[s] = serr[s]
            \/ reader[l] = "data" /\ reader'[l] = "pushed" /\ serr'[s] = serr[s]
            \/ reader[l] = "reading" /\ reader'[l] = "dead" /\ queue'[s] = queue[s] /\ serr'[s] = serr[s]
            \/ reader[l] = "reading" /\ reader'[l] = "failed" /\ queue'[s] = queue[s]
  <2>1. CASE DialDone(l)
    BY <1>1, <1>4, <2>1 DEF DialDone, SocketType, NetType
  <2>2. CASE ReadData(l) \/ Push(l) \/ ReadClosed(l)
    BY <1>1, <1>4, <2>2 DEF ReadData, Push, ReadClosed, SocketType, NetType
  <2>3. CASE ReadFail(l)
    BY <1>1, <1>4, <2>3 DEF ReadFail, SocketType, NetType
  <2>4. QED  BY <2>1, <2>2, <2>3
<1>9. /\ \A o \in Links : o[1] # s => conn'[o] = conn[o]
      /\ \A o \in Links : o # l => (conn'[o] = "none" <=> conn[o] = "none")
      /\ \A o \in Links : conn[o] = "none" /\ o # l => conn'[o] = "none"
      /\ conn' = conn \/ conn'[l] = "open"
      /\ \A o \in Links : conn'[o] = conn[o] \/ ~sclosed[o[1]]
      /\ \A o \in Links : o # l /\ conn'[o] = "lost" => conn[o] \in {"open", "lost"}
  <2>1. CASE conn' = conn
    BY <2>1
  <2>2. CASE conn' = Connected(l) /\ ~sclosed[s]
    <3>1. \A o \in Links : conn'[o] = IF o = l THEN "open"
                                      ELSE IF o[1] = s /\ conn[o] = "open" THEN "lost" ELSE conn[o]
      BY <2>2 DEF Connected
    <3>2. QED  BY <2>2, <3>1
  <2>3. QED  BY <1>8, <2>1, <2>2
<1>10. typ[s] # "none"
  BY <1>8 DEF IInv, FreshInv
<1>11. CallInv'
  BY <1>2 DEF IInv, CallInv
<1> HIDE DEF s
<1>12. FreshInv'
  <2>1. \A x \in Sids : typ[x] = "none" => queue'[x] = queue[x] /\ serr'[x] = serr[x]
    BY <1>7, <1>10
  <2>2. \A o \in Links : typ[o[1]] = "none" =>
            conn'[o] = conn[o] /\ reader'[o] = reader[o] /\ dialer'[o] = dialer[o]
    BY <1>7, <1>9, <1>10 DEF s
  <2>3. QED  BY <1>2, <2>1, <2>2 DEF IInv, FreshInv
<1>13. ReaderInv'
  <2>1. /\ conn[l] = "none" => reader[l] = "none"
        /\ dialer[l] # "none" => typ[l[1]] = "tcp"
        /\ dialer[l] = "dialing" => conn[l] = "none"
        /\ dialer[l] = "connected" => conn[l] # "none"
        /\ dialer[l] \in {"connected", "refused"} => reader[l] = "none"
    BY DEF IInv, ReaderInv
  <2>2. conn'[l] \in {conn[l], "open"} /\ (dialer'[l] = "connected" /\ dialer[l] # "connected" => conn'[l] = "open")
    <3>1. conn' = Connected(l) => conn'[l] = "open"
      BY DEF Connected
    <3>2. QED  BY <1>8, <3>1
  <2>3. dialer[l] \in {"none", "dialing", "connected", "refused", "over"}
    BY <1>1 DEF NetType
  <2>4. /\ conn'[l] = "none" => reader'[l] = "none"
        /\ dialer'[l] # "none" => typ[l[1]] = "tcp"
        /\ dialer'[l] = "dialing" => conn'[l] = "none"
        /\ dialer'[l] = "connected" => conn'[l] # "none"
        /\ dialer'[l] \in {"connected", "refused"} => reader'[l] = "none"
    BY <1>8, <2>1, <2>2, <2>3
  <2>5. \A o \in Links : o # l => (conn'[o] = "none" <=> conn[o] = "none")
    BY <1>9
  <2>6. QED  BY <1>2, <1>7, <2>4, <2>5 DEF IInv, ReaderInv
<1>14. OnceInv'
  <2>1. SUFFICES ASSUME GuestConnectsOnce, NEW o \in Links
                 PROVE  conn'[o] # "lost" /\ (o[2] # 1 => conn'[o] = "none" /\ dialer'[o] = "none")
    BY DEF OnceInv
  <2>2. \A q \in Links : conn[q] # "lost" /\ (q[2] # 1 => conn[q] = "none" /\ dialer[q] = "none")
    BY <2>1 DEF IInv, OnceInv
  <2>3. dialer[l] = "none" => dialer'[l] = "none" /\ conn' = conn
    BY <1>8
  <2>4. CASE conn' = conn
    BY <1>7, <2>2, <2>3, <2>4
  <2>5. CASE conn' # conn
    <3>1. dialer[l] # "none" /\ conn' = Connected(l)
      BY <1>8, <2>5
    <3>2. l[2] = 1
      BY <2>2, <3>1
    <3>3. conn'[o] = IF o = l THEN "open" ELSE IF o[1] = l[1] /\ conn[o] = "open" THEN "lost" ELSE conn[o]
      BY <3>1 DEF Connected
    <3>4. o[1] = l[1] /\ o[2] = 1 => o = l
      BY <3>2 DEF Links
    <3>5. QED  BY <1>7, <2>2, <3>2, <3>3, <3>4
  <2>6. QED  BY <2>4, <2>5
<1>15. SocketInv'
  BY <1>2, <1>3, <1>9 DEF IInv, SocketInv, Closing
<1>16. sockets \subseteq Sids
  BY <1>1 DEF SocketType
<1>17. ASSUME NEW x \in sockets
       PROVE  /\ Once(x)' <=> Once(x)
              /\ Pushed(x) => Pushed(x)'
              /\ Twice(x) => Twice(x)'
              /\ Failing(x) => Failing(x)'
  <2>1. Once(x)' <=> Once(x)
    BY <1>2, <1>3 DEF Once
  <2>2. \A o \in Links : /\ reader[o] = "pushed" => reader'[o] = "pushed"
                         /\ reader[o] = "failed" => reader'[o] = "failed"
                         /\ dialer[o] = "refused" => dialer'[o] = "refused"
    <3>1. /\ reader[l] = "pushed" => reader'[l] = "pushed"
          /\ reader[l] = "failed" => reader'[l] = "failed"
          /\ dialer[l] = "refused" => dialer'[l] = "refused"
      BY <1>8
    <3>2. QED  BY <1>7, <3>1
  <2>3. Pushed(x) => Pushed(x)'
    BY <1>4, <2>2 DEF Pushed
  <2>4. Failing(x) => Failing(x)'
    BY <1>4, <2>2 DEF Failing
  <2>5. Twice(x) => Twice(x)'
    BY <1>2, <1>3, <1>4, <2>1, <2>2, <2>3 DEF Twice
  <2>6. QED  BY <2>1, <2>3, <2>4, <2>5
<1>18. queue'[s] = queue[s] \/ (reader[l] = "data" /\ reader'[l] = "pushed" /\ serr'[s] = serr[s])
  BY <1>8
<1>19. ReadInv'
  <2>1. ASSUME ~Done, NEW x \in sockets, queue'[x] # <<>> PROVE Once(x)' \/ Pushed(x)'
    <3>1. CASE queue'[x] = queue[x]
      BY <1>17, <2>1, <3>1 DEF IInv, ReadInv
    <3>2. CASE queue'[x] # queue[x]
      <4>1. x = s /\ reader'[l] = "pushed"
        BY <1>7, <1>16, <1>18, <3>2
      <4>2. QED  BY <1>4, <4>1 DEF Pushed
    <3>3. QED  BY <3>1, <3>2
  <2>2. QED  BY <1>2, <1>3, <2>1 DEF ReadInv
<1>20. ErrorInv'
  <2>1. ASSUME ~Done, NEW x \in sockets, serr'[x]
        PROVE  \/ <<"err", x>> \in Announced \/ owed = <<"err", x>> \/ Failing(x)'
               \/ queue'[x] = <<>> /\ (Once(x)' \/ Pushed(x)')
               \/ Twice(x)'
    <3>1. CASE serr[x] /\ queue'[x] = queue[x]
      BY <1>17, <2>1, <3>1 DEF IInv, ErrorInv
    <3>2. CASE ~serr[x]
      <4>1. x = s /\ (reader'[l] = "failed" \/ dialer'[l] = "refused")
        BY <1>7, <1>8, <1>16, <2>1, <3>2
      <4>2. QED  BY <1>4, <4>1 DEF Failing
    <3>3. CASE serr[x] /\ queue'[x] # queue[x]
      <4>1. x = s /\ reader[l] = "data" /\ reader'[l] = "pushed"
        BY <1>7, <1>16, <1>18, <3>3
      <4>2. Pushed(x)'
        BY <1>4, <4>1 DEF Pushed
      <4>3. ASSUME Pushed(x) PROVE Twice(x)'
        <5>1. PICK o \in Of(x) : reader[o] = "pushed"
          BY <4>3 DEF Pushed
        <5>2. o # l /\ reader'[o] = "pushed" /\ l \in Of(x)
          BY <1>4, <1>7, <4>1, <5>1
        <5>3. QED  BY <4>1, <5>2 DEF Twice
      <4>4. Once(x) => Twice(x)'
        BY <1>17, <4>2 DEF Twice
      <4>5. QED  BY <1>17, <2>1, <3>3, <4>3, <4>4 DEF IInv, ErrorInv
    <3>4. QED  BY <3>1, <3>2, <3>3
  <2>2. QED  BY <1>2, <1>3, <2>1 DEF ErrorInv
<1>21. QED  BY <1>3, <1>6, <1>11, <1>12, <1>13, <1>14, <1>15, <1>19, <1>20 DEF IInv

\* Every step of the guest, its dispatcher, the goroutines, the timers and of
\* shutdown keeps the invariant.
LEMMA NextInv == IInv /\ [Next]_vars => IInv'
  BY ShutInv, StopTimersInv, CloseSocketsInv, TimerStepInv, TimerEnqueueInv, ImportEventInv,
     GoroutineEventInv, CallReturnInv, DispatchInv, OpenInv, ListenInv, RecvInv, CloseInv, GoroutineInv
     DEF Next, Shutdown, Imports, Proceed, SocketGoroutine, TimerGoroutine

-----------------------------------------------------------------------------
(***************************************************************************)
(* The theorems.                                                           *)
(***************************************************************************)
\* The inductive invariant holds of every behaviour of an instance.
THEOREM Inductive == Spec => []IInv
  BY InitInv, NextInv, PTL DEF Spec

\* Every variable keeps its type; the event channel, the socket table and the
\* timer map never hold more than their caps.
THEOREM TypeCorrect == Spec => []TypeOK
<1>1. IInv => TypeOK
  BY DEF IInv
<1>2. QED  BY <1>1, Inductive, PTL

\* Data in the queue of an open socket of a live instance is always announced,
\* whatever the order of the reader's pushes and the guest's reads.
THEOREM ReadinessIsKept == Spec => []NoLostReadiness
<1>1. IInv => NoLostReadiness
  BY DEF IInv, ReadInv, NoLostReadiness, ReadPending, Once, Pushed, Queued, Announced
<1>2. QED  BY <1>1, Inductive, PTL

\* A pending error of an open socket of a live instance is always announced, also
\* when reads of data have used up the event that was sent for it.
THEOREM ErrorsAreKept == Spec => []NoLostError
<1>1. IInv => NoLostError
  <2>1. Repeated \subseteq Announced
    BY DEF Repeated, Announced
  <2>2. \A ev : ev \in Announced => Queued(ev)
    BY DEF Queued, Announced
  <2>3. \A s \in sockets : Once(s) \/ Pushed(s) \/ Twice(s) => ReadPending(s)
    BY <2>1, <2>2 DEF ReadPending, Once, Pushed, Twice
  <2>4. QED  BY <2>2, <2>3 DEF IInv, ErrorInv, Failing, NoLostError
<1>2. QED  BY <1>1, Inductive, PTL

\* The timer map has no dead entry and misses no armed timer, and a timer that has
\* sent its event in a live instance has it delivered.
THEOREM TimersAreAccounted == Spec => []TimersAccounted
<1>1. IInv => TimersAccounted
  BY DEF IInv, TimerInv, TimersAccounted, Queued, Announced
<1>2. QED  BY <1>1, Inductive, PTL

\* If the guest binds a UDP socket before it sends from it and connects a TCP
\* socket once, no closed socket and, after shutdown, no socket at all keeps a
\* connection.
THEOREM ClosedHoldNothing ==
    Spec => [](GuestBinds /\ GuestConnectsOnce => ClosedSocketsHoldNothing)
<1>1. IInv => (GuestBinds /\ GuestConnectsOnce => ClosedSocketsHoldNothing)
  BY LinkFacts DEF IInv, SocketInv, FreshInv, Closing, ClosedSocketsHoldNothing
<1>2. QED  BY <1>1, Inductive, PTL
=============================================================================
