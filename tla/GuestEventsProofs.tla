--------------------------- MODULE GuestEventsProofs ---------------------------
(***************************************************************************)
(* Proofs about GuestEvents, for any number of events, descriptors,        *)
(* sockets and timers and any interest sets.                               *)
(***************************************************************************)
EXTENDS GuestEvents, SequenceTheorems, WellFoundedInduction, TLAPS

-----------------------------------------------------------------------------
(***************************************************************************)
(* The inductive invariant.                                                *)
(***************************************************************************)
\* The list holds the events that are allocated and not freed, each once.
ListInv ==
    /\ \A e \in Evs : mem[e] = "linked" <=> \E k \in 1..Len(list) : list[k] = e
    /\ \A j, k \in 1..Len(list) : list[j] = list[k] => j = k

\* The event on the stack, if there is one, is the one that is firing, and the
\* only one whose memory may outlive its freeing.
StackInv ==
    /\ dpc \in {"idle", "io"} => cur = {}
    /\ dpc \in {"cb", "tcb"} => \E e \in Evs : cur = {e}
    /\ \A e \in Evs : /\ firing[e] <=> e \in cur
                      /\ e \in cur => mem[e] \in {"linked", "zombie"}
                      /\ mem[e] = "zombie" => e \in cur

\* A timer has one event, which is linked; it was started, and neither stopped nor
\* is it both running and due.
TimerInv ==
    /\ \A e \in Evs : timer[e] # 0 =>
           /\ mem[e] = "linked" /\ timer[e] < nextTid /\ timer[e] \notin stopped
           /\ \A f \in Evs : timer[f] = timer[e] => f = e
    /\ \A t \in armed : t \notin timerq /\ \E e \in Evs : timer[e] = t
    /\ \A t \in timerq : t < nextTid
    /\ \A t \in stopped : t \in Nat /\ t < nextTid

\* A callback in this delivery leaves its mark in last_dispatch.
FireInv == fired \in [Evs -> 0..1] /\ \A e \in Evs : fired[e] = 1 => last[e]

IInv == TypeOK /\ ListInv /\ StackInv /\ TimerInv /\ FireInv

-----------------------------------------------------------------------------
(***************************************************************************)
(* Lemmas: the parts of the type, the list and the timers.                 *)
(***************************************************************************)
USE DEF evVars, hostVars, delVars, history

\* The parts of TypeOK, by what a step changes together.
EventType ==
    /\ list \in Seq(Evs) /\ mem \in [Evs -> {"free", "linked", "zombie"}]
    /\ fd \in [Evs -> Fds \cup {NoFd}] /\ bits \in [Evs -> BitSets \cup {{}}]
    /\ active \in [Evs -> BOOLEAN] /\ firing \in [Evs -> BOOLEAN] /\ last \in [Evs -> BOOLEAN]
TimerType ==
    /\ timer \in [Evs -> 0..LastTid] /\ nextTid \in 1..(LastTid + 1)
    /\ armed \subseteq 1..LastTid /\ timerq \subseteq 1..LastTid
SocketType ==
    /\ slot \in [Fds -> 0..LastSid] /\ nextSid \in 1..(LastSid + 1)
    /\ ioq \subseteq (1..LastSid) \X Flags
DeliveryType ==
    /\ dpc \in {"idle", "io", "cb", "tcb"} /\ cur \subseteq Evs
    /\ dfd \in Fds \cup {NoFd} /\ dflag \in Flags

\* The parts are the whole.
LEMMA TypeParts ==
    /\ TypeOK <=> EventType /\ TimerType /\ SocketType /\ DeliveryType
    /\ TypeOK' <=> EventType' /\ TimerType' /\ SocketType' /\ DeliveryType'
  BY DEF TypeOK, EventType, TimerType, SocketType, DeliveryType

\* The bounds are natural numbers.
LEMMA Bounds == LastSid \in Nat /\ LastTid \in Nat
  BY ConstantsAssumption

\* What is known of the list stays if it does.
LEMMA FrameList ==
    ASSUME ListInv, UNCHANGED <<list, mem>>
    PROVE  ListInv'
  BY DEF ListInv

\* What is known of the stack stays if it does.
LEMMA FrameStack ==
    ASSUME StackInv, UNCHANGED <<mem, firing, dpc, cur>>
    PROVE  StackInv'
  BY DEF StackInv

\* What is known of the timers stays if they do.
LEMMA FrameTimer ==
    ASSUME TimerInv, UNCHANGED <<mem, timer, nextTid, armed, timerq, stopped>>
    PROVE  TimerInv'
  BY DEF TimerInv

\* What is known of the callbacks called stays if they do.
LEMMA FrameFire ==
    ASSUME FireInv, UNCHANGED <<last, fired>>
    PROVE  FireInv'
  BY DEF FireInv

\* It holds before the first call.
LEMMA InitInv == Init => IInv
<1> SUFFICES ASSUME Init PROVE IInv
  OBVIOUS
<1>1. EventType
  <2>1. active \in [Evs -> BOOLEAN] /\ firing \in [Evs -> BOOLEAN] /\ last \in [Evs -> BOOLEAN]
    BY Zenon DEF Init
  <2>2. QED  BY <2>1 DEF Init, EventType
<1>2. TimerType /\ SocketType /\ DeliveryType
  BY Bounds DEF Init, TimerType, SocketType, DeliveryType, Flags
<1>3. ListInv /\ StackInv /\ TimerInv /\ FireInv
  BY DEF Init, ListInv, StackInv, TimerInv, FireInv
<1>4. QED  BY <1>1, <1>2, <1>3, TypeParts DEF IInv

\* Stopping the timer of an event leaves every other event its own.
LEMMA StopTimer ==
    ASSUME IInv, NEW e \in Evs, mem' = mem \/ (mem' = [mem EXCEPT ![e] = mem'[e]] /\ mem[e] = "linked"),
           stop_timer(e), UNCHANGED timerq
    PROVE  TimerType' /\ TimerInv'
<1>1. /\ armed' = armed \ {timer[e]} /\ nextTid' = nextTid /\ timer' = [timer EXCEPT ![e] = 0]
      /\ stopped' = IF timer[e] = 0 THEN stopped ELSE stopped \cup {timer[e]}
  BY DEF stop_timer
<1>2. TimerType /\ mem \in [Evs -> {"free", "linked", "zombie"}] /\ TimerInv
  BY TypeParts DEF IInv, EventType
<1>3. TimerType'
  <2>1. timer \in [Evs -> 0..LastTid] /\ 0 \in 0..LastTid
    BY <1>2, Bounds DEF TimerType
  <2>2. timer' \in [Evs -> 0..LastTid]
    BY <1>1, <2>1
  <2>3. QED  BY <1>1, <1>2, <2>2 DEF TimerType
<1>4. \A f \in Evs : timer'[f] = IF f = e THEN 0 ELSE timer[f]
  BY <1>1, <1>2 DEF TimerType
<1>5. \A f \in Evs : f # e => mem'[f] = mem[f]
  BY <1>2
<1>6. \A f \in Evs : timer'[f] # 0 =>
          /\ mem'[f] = "linked" /\ timer'[f] < nextTid' /\ timer'[f] \notin stopped'
          /\ \A g \in Evs : timer'[g] = timer'[f] => g = f
  BY <1>1, <1>2, <1>4, <1>5 DEF TimerInv
<1>7. \A t \in armed' : t \notin timerq' /\ \E f \in Evs : timer'[f] = t
  BY <1>1, <1>2, <1>4 DEF TimerInv
<1>8. timer[e] \in Nat /\ (timer[e] # 0 => timer[e] < nextTid)
  BY <1>2, Bounds DEF TimerType, TimerInv
<1>9. (\A t \in timerq' : t < nextTid') /\ \A t \in stopped' : t \in Nat /\ t < nextTid'
  BY <1>1, <1>2, <1>8 DEF TimerInv
<1>10. QED  BY <1>3, <1>6, <1>7, <1>9 DEF TimerInv

\* Starting one gives the event a timer that no event ever had.
LEMMA StartTimer ==
    ASSUME IInv, NEW e \in Evs, mem[e] = "linked", NEW timed, start_timer(e, timed),
           UNCHANGED <<mem, timerq>>
    PROVE  TimerType' /\ TimerInv'
<1>1. CASE ~(timed /\ nextTid <= LastTid)
  BY <1>1, StopTimer DEF start_timer, stop_timer
<1>2. CASE timed /\ nextTid <= LastTid
  <2>1. /\ armed' = (armed \ {timer[e]}) \cup {nextTid} /\ nextTid' = nextTid + 1
        /\ timer' = [timer EXCEPT ![e] = nextTid]
        /\ stopped' = IF timer[e] = 0 THEN stopped ELSE stopped \cup {timer[e]}
    BY <1>2 DEF start_timer
  <2>2. TimerType /\ TimerInv /\ nextTid \in 1..LastTid /\ nextTid \in Nat /\ nextTid # 0
    BY <1>2, TypeParts, Bounds DEF IInv, TimerType
  <2>3. TimerType'
    <3>1. timer \in [Evs -> 0..LastTid] /\ nextTid \in 0..LastTid /\ nextTid' \in 1..(LastTid + 1)
      BY <2>1, <2>2, Bounds DEF TimerType
    <3>2. timer' \in [Evs -> 0..LastTid]
      BY <2>1, <3>1
    <3>3. QED  BY <2>1, <2>2, <3>1, <3>2 DEF TimerType
  <2>4. \A f \in Evs : timer'[f] = (IF f = e THEN nextTid ELSE timer[f]) /\ timer[f] \in Nat
    BY <2>1, <2>2, Bounds DEF TimerType
  <2>5. timer[e] # 0 => timer[e] < nextTid
    BY <2>2 DEF TimerInv
  <2>6. \A t \in stopped' : t \in Nat /\ t < nextTid
    BY <2>1, <2>2, <2>4, <2>5 DEF TimerInv
  <2>7. \A t \in timerq' : t \in Nat /\ t < nextTid
    BY <2>2, Bounds DEF TimerInv, TimerType
  <2>8. ASSUME NEW f \in Evs, timer'[f] # 0
        PROVE  /\ mem'[f] = "linked" /\ timer'[f] < nextTid' /\ timer'[f] \notin stopped'
               /\ \A g \in Evs : timer'[g] = timer'[f] => g = f
    <3>1. CASE f = e
      <4>1. timer'[f] = nextTid /\ mem'[f] = "linked"
        BY <2>4, <3>1
      <4>2. \A g \in Evs : g # e => timer'[g] # nextTid
        BY <2>2, <2>4 DEF TimerInv
      <4>3. QED  BY <2>1, <2>2, <2>6, <3>1, <4>1, <4>2
    <3>2. CASE f # e
      <4>1. timer'[f] = timer[f] /\ timer[f] \in Nat /\ timer[f] # 0
        BY <2>4, <2>8, <3>2
      <4>2. /\ mem[f] = "linked" /\ timer[f] < nextTid /\ timer[f] \notin stopped
            /\ \A g \in Evs : timer[g] = timer[f] => g = f
        BY <2>2, <4>1 DEF TimerInv
      <4>3. timer'[f] \notin stopped' /\ timer[f] < nextTid'
        BY <2>1, <2>2, <3>2, <4>1, <4>2
      <4>4. \A g \in Evs : timer'[g] = timer'[f] => g = f
        BY <2>2, <2>4, <4>1, <4>2
      <4>5. QED  BY <4>1, <4>2, <4>3, <4>4
    <3>3. QED  BY <3>1, <3>2
  <2>9. ASSUME NEW t \in armed' PROVE t \notin timerq' /\ \E f \in Evs : timer'[f] = t
    <3>1. CASE t = nextTid
      BY <2>2, <2>4, <2>7, <3>1
    <3>2. CASE t # nextTid
      <4>1. t \in armed /\ t # timer[e]
        BY <2>1, <2>9, <3>2
      <4>2. PICK f \in Evs : timer[f] = t
        BY <2>2, <4>1 DEF TimerInv
      <4>3. timer'[f] = t /\ t \notin timerq'
        BY <2>2, <2>4, <4>1, <4>2 DEF TimerInv
      <4>4. QED  BY <4>3
    <3>3. QED  BY <3>1, <3>2
  <2>10. (\A t \in timerq' : t < nextTid') /\ \A t \in stopped' : t \in Nat /\ t < nextTid'
    BY <2>1, <2>2, <2>6, <2>7
  <2>11. TimerInv'
    BY <2>8, <2>9, <2>10 DEF TimerInv
  <2>12. QED  BY <2>3, <2>11
<1>3. QED  BY <1>1, <1>2

\* unlink_event takes an event out of the list, in which it occurs once.
LEMMA Unlinked ==
    ASSUME ListInv, EventType, NEW e \in Evs, mem[e] = "linked", unlink_event(e),
           mem' = [mem EXCEPT ![e] = mem'[e]], mem'[e] # "linked"
    PROVE  list' \in Seq(Evs) /\ ListInv'
<1>1. Len(list) \in Nat /\ list \in [1..Len(list) -> Evs] /\ list \in Seq(Evs)
  BY DEF EventType
<1>2. PICK k \in 1..Len(list) :
        list[k] = e /\ list' = [i \in 1..(Len(list) - 1) |-> IF i < k THEN list[i] ELSE list[i + 1]]
  BY DEF unlink_event, ListInv
<1>3. Len(list) - 1 \in Nat
  BY <1>1, <1>2
<1>4. \A i \in 1..(Len(list) - 1) :
        /\ i \in 1..Len(list) /\ i + 1 \in 1..Len(list)
        /\ list'[i] = IF i < k THEN list[i] ELSE list[i + 1]
  BY <1>1, <1>2
<1>5. list' \in [1..(Len(list) - 1) -> Evs]
  BY <1>1, <1>2, <1>4
<1>6. list' \in Seq(Evs) /\ Len(list') = Len(list) - 1
  BY <1>3, <1>5
<1>7. \A j, l \in 1..Len(list) : list[j] = list[l] => j = l
  BY DEF ListInv
<1>8. \A j, l \in 1..Len(list') : list'[j] = list'[l] => j = l
  BY <1>1, <1>2, <1>4, <1>6, <1>7
<1>9. \A f \in Evs : mem'[f] = IF f = e THEN mem'[e] ELSE mem[f]
  BY DEF EventType
<1>10. \A j \in 1..Len(list') : list'[j] # e
  BY <1>1, <1>2, <1>4, <1>6, <1>7
<1>11. ASSUME NEW f \in Evs, f # e, NEW j \in 1..Len(list), list[j] = f
       PROVE  \E l \in 1..Len(list') : list'[l] = f
  <2>1. j # k
    BY <1>2, <1>11
  <2>2. CASE j < k
    <3>1. j \in 1..Len(list') /\ list'[j] = f
      BY <1>1, <1>2, <1>4, <1>6, <1>11, <2>2
    <3>2. QED  BY <3>1
  <2>3. CASE j > k
    <3>1. j - 1 \in 1..Len(list') /\ (j - 1) + 1 = j /\ ~(j - 1 < k)
      BY <1>1, <1>6, <2>3
    <3>2. list'[j - 1] = f
      BY <1>4, <1>6, <1>11, <3>1
    <3>3. QED  BY <3>1, <3>2
  <2>4. QED  BY <1>1, <2>1, <2>2, <2>3
<1>12. ASSUME NEW l \in 1..Len(list') PROVE \E j \in 1..Len(list) : list[j] = list'[l]
  BY <1>4, <1>6, <1>12
<1>13. ASSUME NEW f \in Evs PROVE mem'[f] = "linked" <=> \E l \in 1..Len(list') : list'[l] = f
  <2>1. CASE f = e
    BY <1>10, <2>1
  <2>2. CASE f # e
    <3>1. mem'[f] = "linked" <=> \E j \in 1..Len(list) : list[j] = f
      BY <1>9, <2>2 DEF ListInv
    <3>2. QED  BY <1>11, <1>12, <2>2, <3>1
  <2>3. QED  BY <2>1, <2>2
<1>14. QED  BY <1>6, <1>8, <1>13 DEF ListInv

-----------------------------------------------------------------------------
(***************************************************************************)
(* The invariant is inductive.                                             *)
(***************************************************************************)
\* A new event is linked in memory that was free.
LEMMA NewInv ==
    ASSUME IInv, NEW e \in Evs, NEW f \in Fds \cup {NoFd}, NEW B \in BitSets, base_new_event(e, f, B)
    PROVE  IInv'
<1>1. /\ mem[e] = "free" /\ mem' = [mem EXCEPT ![e] = "linked"] /\ list' = <<e>> \o list
      /\ fd' = [fd EXCEPT ![e] = f] /\ bits' = [bits EXCEPT ![e] = B]
      /\ active' = [active EXCEPT ![e] = FALSE] /\ firing' = [firing EXCEPT ![e] = FALSE]
      /\ timer' = [timer EXCEPT ![e] = 0] /\ last' = [last EXCEPT ![e] = FALSE]
      /\ fired' = [fired EXCEPT ![e] = 0] /\ UNCHANGED <<hostVars, delVars, stopped>>
  BY DEF base_new_event
<1>2. EventType /\ TimerType /\ SocketType /\ DeliveryType
  BY TypeParts DEF IInv
<1>3. /\ list' \in Seq(Evs) /\ Len(list') = Len(list) + 1 /\ list'[1] = e /\ Len(list) \in Nat
      /\ \A k \in 1..Len(list) : list'[k + 1] = list[k]
      /\ \A k \in 1..Len(list') : k # 1 => k - 1 \in 1..Len(list) /\ list'[k] = list[k - 1]
  BY <1>1, <1>2 DEF EventType
<1>4. timer[e] = 0
  BY <1>1 DEF IInv, TimerInv
<1>5. timer' = timer
  BY <1>1, <1>2, <1>4 DEF TimerType
<1>6. TypeOK'
  <2>1. EventType'
    BY <1>1, <1>2, <1>3 DEF EventType
  <2>2. TimerType' /\ SocketType' /\ DeliveryType'
    BY <1>1, <1>2, <1>5 DEF TimerType, SocketType, DeliveryType
  <2>3. QED  BY <2>1, <2>2, TypeParts
<1>7. \A x \in Evs : /\ mem'[x] = IF x = e THEN "linked" ELSE mem[x]
                     /\ firing'[x] <=> firing[x] /\ x # e
  BY <1>1, <1>2 DEF EventType
<1>8. ListInv'
  <2>1. \A k \in 1..Len(list) : list[k] # e
    BY <1>1 DEF IInv, ListInv
  <2>2. \A j, k \in 1..Len(list') : list'[j] = list'[k] => j = k
    <3>1. ASSUME NEW j \in 1..Len(list'), NEW k \in 1..Len(list'), list'[j] = list'[k], j # 1, k # 1
          PROVE  j = k
      <4>1. j - 1 \in 1..Len(list) /\ k - 1 \in 1..Len(list) /\ list[j - 1] = list[k - 1]
        BY <1>3, <3>1
      <4>2. j - 1 = k - 1
        BY <4>1 DEF IInv, ListInv
      <4>3. QED  BY <4>2
    <3>2. ASSUME NEW j \in 1..Len(list'), j # 1
          PROVE  list'[j] # e
      BY <1>3, <2>1, <3>2
    <3>3. QED  BY <1>3, <3>1, <3>2
  <2>3. ASSUME NEW x \in Evs PROVE mem'[x] = "linked" <=> \E k \in 1..Len(list') : list'[k] = x
    <3>1. CASE x = e
      BY <1>3, <1>7, <3>1
    <3>2. CASE x # e
      <4>1. mem'[x] = "linked" <=> \E k \in 1..Len(list) : list[k] = x
        BY <1>7, <3>2 DEF IInv, ListInv
      <4>2. \A k \in 1..Len(list) : k + 1 \in 1..Len(list')
        BY <1>3
      <4>3. QED  BY <1>3, <3>2, <4>1, <4>2
    <3>3. QED  BY <3>1, <3>2
  <2>4. QED  BY <2>2, <2>3 DEF ListInv
<1>9. e \notin cur
  BY <1>1 DEF IInv, StackInv
<1>10. StackInv'
  BY <1>1, <1>7, <1>9 DEF IInv, StackInv
<1>11. TimerInv'
  <2>1. \A x \in Evs : mem[x] = "linked" => mem'[x] = "linked"
    BY <1>7
  <2>2. UNCHANGED <<timer, nextTid, armed, timerq, stopped>>
    BY <1>1, <1>5
  <2>3. TimerInv
    BY DEF IInv
  <2>4. \A x \in Evs : timer'[x] # 0 =>
            /\ mem'[x] = "linked" /\ timer'[x] < nextTid' /\ timer'[x] \notin stopped'
            /\ \A y \in Evs : timer'[y] = timer'[x] => y = x
    BY <2>1, <2>2, <2>3 DEF TimerInv
  <2>5. QED  BY <2>2, <2>3, <2>4 DEF TimerInv
<1>12. FireInv'
  <2>1. fired \in [Evs -> 0..1] /\ fired' \in [Evs -> 0..1]
    BY <1>1 DEF IInv, FireInv
  <2>2. \A x \in Evs : x # e => fired'[x] = fired[x] /\ last'[x] = last[x]
    BY <1>1, <1>2, <2>1 DEF EventType
  <2>3. fired'[e] = 0
    BY <1>1, <2>1
  <2>4. QED  BY <2>1, <2>2, <2>3 DEF IInv, FireInv
<1>13. QED  BY <1>6, <1>8, <1>10, <1>11, <1>12 DEF IInv

\* What an event waits for may change at any time.
LEMMA InterestInv ==
    ASSUME IInv, NEW e \in Evs,
           \/ \E f \in Fds : event_set_fd(e, f)
           \/ \E B : event_add_bits(e, B) \/ event_del_bits(e, B)
    PROVE  IInv'
<1>1. UNCHANGED <<list, mem, active, firing, timer, last, hostVars, delVars, history>>
  BY DEF event_set_fd, event_add_bits, event_del_bits
<1>2. EventType /\ TimerType /\ SocketType /\ DeliveryType
  BY TypeParts DEF IInv
<1>3. fd' \in [Evs -> Fds \cup {NoFd}] /\ bits' \in [Evs -> BitSets \cup {{}}]
  BY <1>2 DEF event_set_fd, event_add_bits, event_del_bits, EventType
<1>4. TypeOK'
  BY <1>1, <1>2, <1>3, TypeParts DEF EventType, TimerType, SocketType, DeliveryType
<1>5. QED  BY <1>1, <1>4, FrameList, FrameStack, FrameTimer, FrameFire DEF IInv

\* Events are added and deleted, with and without a timer.
LEMMA AddDelInv ==
    ASSUME IInv, NEW e \in Evs,
           \/ \E timed \in BOOLEAN : event_add(e, timed)
           \/ event_add_timer(e) \/ event_del(e) \/ event_del_timer(e)
    PROVE  IInv'
<1>1. /\ UNCHANGED <<list, mem, firing, last, slot, nextSid, ioq, timerq, delVars, fired>>
      /\ mem[e] = "linked" /\ (stop_timer(e) \/ \E timed \in BOOLEAN : start_timer(e, timed))
  BY DEF event_add, event_add_timer, event_del, event_del_timer, Usable
<1>2. EventType /\ TimerType /\ SocketType /\ DeliveryType
  BY TypeParts DEF IInv
<1>3. TimerType' /\ TimerInv'
  BY <1>1, StopTimer, StartTimer
<1>4. fd' \in [Evs -> Fds \cup {NoFd}] /\ bits' \in [Evs -> BitSets \cup {{}}] /\ active' \in [Evs -> BOOLEAN]
  BY <1>2 DEF event_add, event_add_timer, event_del, event_del_timer, EventType
<1>5. TypeOK'
  BY <1>1, <1>2, <1>3, <1>4, TypeParts DEF EventType, SocketType, DeliveryType
<1>6. QED  BY <1>1, <1>3, <1>5, FrameList, FrameStack, FrameFire DEF IInv

\* An event is freed: the one whose callback runs keeps its memory.
LEMMA FreeInv ==
    ASSUME IInv, NEW e \in Evs, event_free(e)
    PROVE  IInv'
<1>1. /\ mem[e] = "linked" /\ active' = [active EXCEPT ![e] = FALSE] /\ stop_timer(e) /\ unlink_event(e)
      /\ mem' = [mem EXCEPT ![e] = IF firing[e] THEN "zombie" ELSE "free"]
      /\ UNCHANGED <<firing, last, slot, nextSid, ioq, timerq, delVars, fired>>
      /\ (UNCHANGED <<fd, bits>> \/ wipe(e))
  BY DEF event_free, Usable
<1>2. EventType /\ TimerType /\ SocketType /\ DeliveryType
  BY TypeParts DEF IInv
<1>3. /\ mem'[e] = (IF firing[e] THEN "zombie" ELSE "free")
      /\ mem' = [mem EXCEPT ![e] = mem'[e]] /\ mem'[e] # "linked"
      /\ \A x \in Evs : x # e => mem'[x] = mem[x]
  BY <1>1, <1>2 DEF EventType
<1>4. list' \in Seq(Evs) /\ ListInv'
  BY <1>1, <1>2, <1>3, Unlinked DEF IInv
<1>5. TimerType' /\ TimerInv'
  BY <1>1, <1>3, StopTimer
<1>6. EventType'
  <2>1. fd' \in [Evs -> Fds \cup {NoFd}] /\ bits' \in [Evs -> BitSets \cup {{}}]
    BY <1>1, <1>2 DEF wipe, EventType
  <2>2. QED  BY <1>1, <1>2, <1>4, <2>1 DEF EventType
<1>7. TypeOK'
  BY <1>1, <1>2, <1>5, <1>6, TypeParts DEF SocketType, DeliveryType
<1>8. StackInv'
  BY <1>1, <1>2, <1>3 DEF IInv, StackInv, EventType
<1>9. QED  BY <1>1, <1>4, <1>5, <1>7, <1>8, FrameFire DEF IInv

\* The descriptor table and the host.
LEMMA HostInv ==
    ASSUME IInv, Sockets \/ Host
    PROVE  IInv'
<1>1. UNCHANGED <<evVars, nextTid, delVars, history>>
  BY DEF Sockets, uw_socket, uw_close, Host, HostReady, HostTimer
<1>2. EventType /\ TimerType /\ SocketType /\ DeliveryType
  BY TypeParts DEF IInv
<1>3. EventType' /\ DeliveryType'
  BY <1>1, <1>2 DEF EventType, DeliveryType
<1>4. CASE Sockets \/ \E f \in Fds, fl \in Flags : HostReady(f, fl)
  <2>1. UNCHANGED <<armed, timerq>>
    BY <1>4 DEF Sockets, uw_socket, uw_close, HostReady
  <2>2. SocketType'
    <3>1. CASE uw_socket
      <4>1. nextSid \in 0..LastSid /\ nextSid' \in 1..(LastSid + 1) /\ ioq' = ioq
        BY <1>2, <3>1, Bounds DEF uw_socket, SocketType
      <4>2. PICK f : slot' = slot \/ slot' = [slot EXCEPT ![f] = nextSid]
        BY <3>1 DEF uw_socket
      <4>3. slot' \in [Fds -> 0..LastSid]
        BY <1>2, <4>1, <4>2 DEF SocketType
      <4>4. QED  BY <1>2, <4>1, <4>3 DEF SocketType
    <3>2. ASSUME NEW f \in Fds, uw_close(f) PROVE SocketType'
      <4>1. slot \in [Fds -> 0..LastSid] /\ 0 \in 0..LastSid
        BY <1>2, Bounds DEF SocketType
      <4>2. slot' \in [Fds -> 0..LastSid]
        BY <3>2, <4>1 DEF uw_close
      <4>3. QED  BY <1>2, <3>2, <4>2 DEF uw_close, SocketType
    <3>3. ASSUME NEW f \in Fds, NEW fl \in Flags, HostReady(f, fl) PROVE SocketType'
      <4>1. slot[f] \in 1..LastSid
        BY <1>2, <3>3, Bounds DEF HostReady, SocketType
      <4>2. QED  BY <1>2, <3>3, <4>1 DEF HostReady, SocketType
    <3>4. QED  BY <1>4, <3>1, <3>2, <3>3 DEF Sockets
  <2>3. TypeOK'
    BY <1>1, <1>2, <1>3, <2>1, <2>2, TypeParts DEF TimerType
  <2>4. QED  BY <1>1, <2>1, <2>3, FrameList, FrameStack, FrameTimer, FrameFire DEF IInv
<1>5. ASSUME NEW t \in 1..LastTid, HostTimer(t) PROVE IInv'
  <2>1. /\ t \in armed /\ armed' = armed \ {t} /\ timerq' = timerq \cup {t}
        /\ UNCHANGED <<slot, nextSid, ioq>>
    BY <1>5 DEF HostTimer
  <2>2. TypeOK'
    BY <1>1, <1>2, <1>3, <2>1, TypeParts DEF TimerType, SocketType
  <2>3. t < nextTid
    <3>1. PICK e \in Evs : timer[e] = t
      BY <2>1 DEF IInv, TimerInv
    <3>2. t # 0
      BY Bounds
    <3>3. QED  BY <3>1, <3>2 DEF IInv, TimerInv
  <2>4. TimerInv'
    BY <1>1, <2>1, <2>3 DEF IInv, TimerInv
  <2>5. QED  BY <1>1, <2>2, <2>4, FrameList, FrameStack, FrameFire DEF IInv
<1>6. QED  BY <1>4, <1>5 DEF Host

\* A delivery begins, or finds that the guest has closed the socket.
LEMMA IoReadyInv ==
    ASSUME IInv, NEW sid, NEW fl \in Flags, io_ready(sid, fl)
    PROVE  IInv'
<1>1. /\ dpc = "idle" /\ dpc' \in {"idle", "io"} /\ ioq' \subseteq ioq
      /\ UNCHANGED <<evVars, slot, nextSid, nextTid, armed, timerq, cur, history>>
  BY DEF io_ready
<1>2. EventType /\ TimerType /\ SocketType /\ DeliveryType
  BY TypeParts DEF IInv
<1>3. dfd' \in Fds \cup {NoFd} /\ dflag' \in Flags
  BY <1>2 DEF io_ready, DeliveryType
<1>4. TypeOK'
  BY <1>1, <1>2, <1>3, TypeParts DEF EventType, TimerType, SocketType, DeliveryType
<1>5. StackInv'
  BY <1>1 DEF IInv, StackInv
<1>6. QED  BY <1>1, <1>4, <1>5, FrameList, FrameTimer, FrameFire DEF IInv

\* The loop of uw_io_ready calls a callback that it has not called before.
LEMMA IoFireInv ==
    ASSUME IInv, IoFire
    PROVE  IInv'
<1>1. EventType /\ TimerType /\ SocketType /\ DeliveryType
  BY TypeParts DEF IInv
<1>2. PICK k \in 1..Len(list) :
        LET e == list[k] IN
            /\ Matches(e)
            /\ last' = [last EXCEPT ![e] = TRUE] /\ firing' = [firing EXCEPT ![e] = TRUE]
            /\ active' = [active EXCEPT ![e] = active[e] /\ "persist" \in bits[e]]
            /\ fired' = [fired EXCEPT ![e] = fired[e] + 1] /\ cur' = {e}
  BY DEF IoFire
<1> DEFINE e == list[k]
<1>3. /\ dpc = "io" /\ dpc' = "cb" /\ UNCHANGED <<list, mem, fd, bits, timer, hostVars, dfd, dflag, stopped>>
  BY DEF IoFire
<1>4. e \in Evs /\ mem[e] = "linked" /\ ~firing[e] /\ ~last[e]
  BY <1>1, <1>2 DEF EventType, IInv, ListInv, Matches
<1>5. /\ last' = [last EXCEPT ![e] = TRUE] /\ firing' = [firing EXCEPT ![e] = TRUE]
      /\ active' = [active EXCEPT ![e] = active[e] /\ "persist" \in bits[e]]
      /\ fired' = [fired EXCEPT ![e] = fired[e] + 1] /\ cur' = {e}
  BY <1>2
<1> HIDE DEF e
<1>6. TypeOK'
  <2>1. last' \in [Evs -> BOOLEAN] /\ firing' \in [Evs -> BOOLEAN]
    BY <1>1, <1>4, <1>5 DEF EventType
  <2>2. active' \in [Evs -> BOOLEAN]
    <3>1. (active[e] /\ "persist" \in bits[e]) \in BOOLEAN
      BY Zenon
    <3>2. QED  BY <1>1, <1>4, <1>5, <3>1, Zenon DEF EventType
  <2>3. EventType' /\ DeliveryType'
    BY <1>1, <1>3, <1>4, <1>5, <2>1, <2>2 DEF EventType, DeliveryType
  <2>4. QED  BY <1>1, <1>3, <2>3, TypeParts DEF TimerType, SocketType
<1>7. cur = {}
  BY <1>3 DEF IInv, StackInv
<1>8. StackInv'
  <2>1. \A x \in Evs : firing'[x] <=> x = e
    BY <1>1, <1>4, <1>5, <1>7 DEF EventType, IInv, StackInv
  <2>2. QED  BY <1>3, <1>4, <1>5, <1>7, <2>1 DEF IInv, StackInv
<1>9. FireInv'
  <2>1. fired \in [Evs -> 0..1] /\ fired[e] = 0
    BY <1>4 DEF IInv, FireInv
  <2>2. \A x \in Evs : /\ fired'[x] = IF x = e THEN 1 ELSE fired[x]
                       /\ last'[x] = IF x = e THEN TRUE ELSE last[x]
    BY <1>1, <1>5, <2>1 DEF EventType
  <2>3. fired' \in [Evs -> 0..1]
    <3>1. fired' = [fired EXCEPT ![e] = fired[e] + 1] /\ fired[e] + 1 \in 0..1
      BY <1>5, <2>1
    <3>2. QED  BY <2>1, <3>1
  <2>4. QED  BY <2>2, <2>3 DEF IInv, FireInv
<1>10. QED  BY <1>3, <1>6, <1>8, <1>9, FrameList, FrameTimer DEF IInv

\* The delivery ends.
LEMMA IoDoneInv ==
    ASSUME IInv, IoDone
    PROVE  IInv'
<1>1. /\ dpc = "io" /\ dpc' = "idle" /\ dfd' = NoFd /\ dflag' = "read"
      /\ last' = [e \in Evs |-> FALSE] /\ fired' = [e \in Evs |-> 0]
      /\ UNCHANGED <<list, mem, fd, bits, active, firing, timer, hostVars, cur, stopped>>
  BY DEF IoDone
<1>2. EventType /\ TimerType /\ SocketType /\ DeliveryType
  BY TypeParts DEF IInv
<1>3. TypeOK'
  <2>1. last' \in [Evs -> BOOLEAN]
    BY <1>1, Zenon
  <2>2. QED  BY <1>1, <1>2, <2>1, TypeParts DEF EventType, TimerType, SocketType, DeliveryType, Flags
<1>4. StackInv' /\ FireInv'
  BY <1>1 DEF IInv, StackInv, FireInv
<1>5. QED  BY <1>1, <1>3, <1>4, FrameList, FrameTimer DEF IInv

\* A callback returns, and the memory of an event that it freed is released.
LEMMA ReturnInv ==
    ASSUME IInv, CallbackReturn
    PROVE  IInv'
<1>1. /\ dpc \in {"cb", "tcb"} /\ cur' = {} /\ dpc' \in {"io", "idle"}
      /\ UNCHANGED <<list, active, timer, last, hostVars, dfd, dflag, history>>
  BY DEF CallbackReturn
<1>2. EventType /\ TimerType /\ SocketType /\ DeliveryType
  BY TypeParts DEF IInv
<1>3. PICK e \in Evs :
        /\ cur = {e} /\ firing' = [firing EXCEPT ![e] = FALSE]
        /\ \/ mem[e] = "zombie" /\ mem' = [mem EXCEPT ![e] = "free"] /\ wipe(e)
           \/ mem[e] # "zombie" /\ UNCHANGED <<mem, fd, bits>>
  BY <1>1 DEF CallbackReturn, IInv, StackInv
<1>4. TypeOK'
  <2>1. EventType'
    BY <1>1, <1>2, <1>3 DEF EventType, wipe
  <2>2. QED  BY <1>1, <1>2, <2>1, TypeParts DEF TimerType, SocketType, DeliveryType
<1>5. \A x \in Evs : /\ x # e => mem'[x] = mem[x] /\ firing'[x] = firing[x]
                     /\ mem'[x] = "linked" <=> mem[x] = "linked"
  BY <1>2, <1>3 DEF EventType
<1>6. ~firing'[e] /\ mem'[e] # "zombie"
  BY <1>2, <1>3 DEF EventType
<1>7. ListInv' /\ TimerInv'
  BY <1>1, <1>5 DEF IInv, ListInv, TimerInv
<1>8. StackInv'
  BY <1>1, <1>3, <1>5, <1>6 DEF IInv, StackInv
<1>9. QED  BY <1>1, <1>4, <1>7, <1>8, FrameFire DEF IInv

\* A set of positions in the list that is not empty has a first one.
LEMMA FirstPosition ==
    ASSUME NEW S, S \subseteq Nat, S # {}
    PROVE  (CHOOSE k \in S : \A j \in S : k <= j) \in S
<1> DEFINE Less == OpToRel(<, Nat)
<1>1. Less = {ss \in Nat \X Nat : ss[1] < ss[2]}
  BY DEF OpToRel
<1>2. IsWellFoundedOn(Less, Nat)
  BY NatLessThanWellFounded
<1> HIDE DEF Less
<1>3. PICK k \in S : \A j \in S : ~(<<j, k>> \in Less)
  BY <1>2, WFMin
<1>4. \A i, j \in Nat : i < j => <<i, j>> \in Less
  BY <1>1
<1>5. \A j \in S : k <= j
  <2>1. SUFFICES ASSUME NEW j \in S PROVE k <= j
    OBVIOUS
  <2>2. k \in Nat /\ j \in Nat /\ ~(j < k)
    BY <1>3, <1>4
  <2>3. QED  BY <2>2
<1>6. QED  BY <1>5

\* A timer's firing is delivered to the event that has it, or to nobody.
LEMMA FiredInv ==
    ASSUME IInv, NEW t \in 1..LastTid, timer_fired(t)
    PROVE  IInv'
<1> DEFINE hit == {k \in 1..Len(list) : active[list[k]] /\ timer[list[k]] = t}
           e == list[CHOOSE k \in hit : \A j \in hit : k <= j]
<1>1. /\ dpc = "idle" /\ t \in timerq /\ timerq' = timerq \ {t}
      /\ UNCHANGED <<list, mem, fd, bits, active, last, slot, nextSid, nextTid, armed, ioq, dfd, dflag, stopped, fired>>
      /\ \/ UNCHANGED <<timer, firing, dpc, cur>>
         \/ /\ hit # {} /\ timer' = [timer EXCEPT ![e] = 0] /\ firing' = [firing EXCEPT ![e] = TRUE]
            /\ cur' = {e} /\ dpc' = "tcb"
  BY DEF timer_fired
<1>2. EventType /\ TimerType /\ SocketType /\ DeliveryType
  BY TypeParts DEF IInv
<1>3. hit # {} => e \in Evs /\ mem[e] = "linked" /\ timer[e] = t
  <2>1. SUFFICES ASSUME hit # {} PROVE e \in Evs /\ mem[e] = "linked" /\ timer[e] = t
    OBVIOUS
  <2>2. hit \subseteq Nat
    OBVIOUS
  <2>3. (CHOOSE k \in hit : \A j \in hit : k <= j) \in hit
    <3> HIDE DEF hit
    <3>1. QED  BY <2>1, <2>2, FirstPosition
  <2>4. PICK k \in 1..Len(list) : e = list[k] /\ timer[list[k]] = t
    BY <2>3
  <2> HIDE DEF e, hit
  <2>5. e \in Evs
    BY <1>2, <2>4 DEF EventType
  <2>6. QED  BY <2>4, <2>5 DEF IInv, ListInv
<1> HIDE DEF hit, e
<1>4. cur = {}
  BY <1>1 DEF IInv, StackInv
<1>5. CASE UNCHANGED <<timer, firing, dpc, cur>>
  <2>1. TypeOK'
    BY <1>1, <1>2, <1>5, TypeParts DEF EventType, TimerType, SocketType, DeliveryType
  <2>2. TimerInv'
    BY <1>1, <1>5 DEF IInv, TimerInv
  <2>3. QED  BY <1>1, <1>5, <2>1, <2>2, FrameList, FrameStack, FrameFire DEF IInv
<1>6. CASE /\ hit # {} /\ timer' = [timer EXCEPT ![e] = 0] /\ firing' = [firing EXCEPT ![e] = TRUE]
           /\ cur' = {e} /\ dpc' = "tcb"
  <2>1. timer' \in [Evs -> 0..LastTid]
    <3>1. timer \in [Evs -> 0..LastTid] /\ 0 \in 0..LastTid
      BY <1>2, Bounds DEF TimerType
    <3>2. QED  BY <1>6, <3>1
  <2>2. firing' \in [Evs -> BOOLEAN]
    BY <1>2, <1>6 DEF EventType
  <2>3. TypeOK'
    BY <1>1, <1>2, <1>3, <1>6, <2>1, <2>2, TypeParts DEF EventType, TimerType, SocketType, DeliveryType
  <2>4. \A x \in Evs : timer'[x] = IF x = e THEN 0 ELSE timer[x]
    BY <1>2, <1>6 DEF TimerType
  <2>5. TimerInv'
    <3>1. t \notin armed
      BY <1>1 DEF IInv, TimerInv
    <3>2. \A u \in armed : \E x \in Evs : timer'[x] = u
      BY <1>3, <1>6, <2>4, <3>1 DEF IInv, TimerInv
    <3>3. \A x \in Evs : timer'[x] # 0 =>
             /\ mem[x] = "linked" /\ timer'[x] < nextTid /\ timer'[x] \notin stopped
             /\ \A y \in Evs : timer'[y] = timer'[x] => y = x
      BY <2>4 DEF IInv, TimerInv
    <3>4. QED  BY <1>1, <3>2, <3>3 DEF IInv, TimerInv
  <2>6. StackInv'
    <3>1. \A x \in Evs : firing'[x] <=> x = e
      BY <1>2, <1>3, <1>4, <1>6 DEF EventType, IInv, StackInv
    <3>2. QED  BY <1>1, <1>3, <1>4, <1>6, <3>1 DEF IInv, StackInv
  <2>7. QED  BY <1>1, <2>3, <2>5, <2>6, FrameList, FrameFire DEF IInv
<1>7. QED  BY <1>1, <1>5, <1>6

\* Every call of Unbound and of the host, and every step of a delivery, keeps the
\* invariant.
LEMMA NextInv == IInv /\ [Next]_vars => IInv'
<1>1. ASSUME IInv, UNCHANGED vars PROVE IInv'
  <2>1. TypeOK'
    BY <1>1, TypeParts DEF IInv, vars, EventType, TimerType, SocketType, DeliveryType
  <2>2. QED  BY <1>1, <2>1, FrameList, FrameStack, FrameTimer, FrameFire DEF IInv, vars
<1>2. ASSUME IInv, Registration PROVE IInv'
  BY <1>2, NewInv, InterestInv, AddDelInv, FreeInv DEF Registration
<1>3. ASSUME IInv, Delivery PROVE IInv'
  BY <1>3, IoReadyInv, FiredInv, IoFireInv, IoDoneInv, ReturnInv DEF Delivery
<1>4. QED  BY <1>1, <1>2, <1>3, HostInv DEF Next

-----------------------------------------------------------------------------
(***************************************************************************)
(* The theorems.                                                           *)
(***************************************************************************)
\* The inductive invariant holds of every behaviour of the event backend.
THEOREM Inductive == Spec => []IInv
  BY InitInv, NextInv, PTL DEF Spec

\* Every variable keeps its type, so that the descriptor table is never written
\* outside its bounds.
THEOREM TypeCorrect == Spec => []TypeOK
<1>1. IInv => TypeOK
  BY DEF IInv
<1>2. QED  BY <1>1, Inductive, PTL

\* Whatever callbacks free, the delivery loops only touch events that are
\* allocated.
THEOREM FreedIsNotUsed == Spec => []NoUseAfterFree
<1>1. IInv => NoUseAfterFree
  BY DEF IInv, ListInv, StackInv, NoUseAfterFree, TypeOK
<1>2. QED  BY <1>1, Inductive, PTL

\* A delivery calls no callback twice.
THEOREM FiresOnce == Spec => []FiresOncePerDelivery
<1>1. IInv => FiresOncePerDelivery
  BY DEF IInv, FireInv, FiresOncePerDelivery
<1>2. QED  BY <1>1, Inductive, PTL

\* A timer that was stopped, by deletion, by freeing or by a new start, is never
\* delivered to an event.
THEOREM StoppedIsSilent == Spec => []StoppedTimersStaySilent
<1>1. IInv => StoppedTimersStaySilent
  BY DEF IInv, TimerInv, StoppedTimersStaySilent
<1>2. QED  BY <1>1, Inductive, PTL

\* Every running timer of the host belongs to an event.
THEOREM TimersHaveEvents == Spec => []NoOrphanTimers
<1>1. IInv => NoOrphanTimers
  <2>1. SUFFICES ASSUME IInv, NEW t \in armed PROVE \E e \in Evs : mem[e] = "linked" /\ timer[e] = t
    BY DEF NoOrphanTimers
  <2>2. t # 0
    <3>1. t \in 1..LastTid
      BY <2>1 DEF IInv, TypeOK
    <3>2. QED  BY <3>1, Bounds
  <2>3. QED  BY <2>1, <2>2 DEF IInv, TimerInv
<1>2. QED  BY <1>1, Inductive, PTL
=============================================================================
