------------------------------- MODULE GuestEvents -------------------------------
(***************************************************************************)
(* The guest's event backend (backends/event.c) with the descriptor table  *)
(* it delivers through (backends/sockets.c): Unbound registers events, the *)
(* host calls io_ready and timer_fired, and the callbacks that these run   *)
(* may add, delete, create and free events, and close and open sockets,    *)
(* while the delivery loop is on the stack.                                *)
(*                                                                         *)
(* An event is a piece of memory: once freed it may be allocated again.    *)
(* The host's side is what InstanceIO shows of it: readiness of a socket   *)
(* and the firing of a timer are queued, and are delivered after the       *)
(* socket was closed or the timer stopped, if they were queued before.     *)
(***************************************************************************)
EXTENDS Integers, Sequences, FiniteSets

CONSTANTS
    Evs,      \* memory for events
    Fds,      \* descriptors: slots of the table, 0 .. MAX_SOCKETS - 1 (128)
    BitSets,  \* bound: the interest sets events have, of {"read", "write", "persist"}
    LastSid,  \* bound: host sockets opened
    LastTid,  \* bound: host timers started
    MaxIo     \* bound: io_ready calls queued at a time

ASSUME ConstantsAssumption ==
    /\ Fds \subseteq Nat /\ LastSid \in Nat /\ LastTid \in Nat /\ MaxIo \in Nat
    /\ BitSets \subseteq SUBSET {"read", "write", "persist"}

NoFd == -1
Flags == {"read", "write", "err"}

VARIABLES
    list,      \* base.events, from its head
    mem,       \* of an event: "free", "linked", "zombie" (freed while firing)
    fd, bits, active, firing,
    timer,     \* timer_id, 0 if none
    last,      \* last_dispatch is this delivery's generation
    slot,      \* the descriptor table: the host socket, 0 if unused
    nextSid, nextTid,
    armed,     \* host timers that are running
    ioq,       \* io_ready calls to come
    timerq,    \* timer_fired calls to come
    dpc,       \* "idle", "io", "cb" (in a callback of uw_io_ready), "tcb" (of uw_timer_fired)
    cur,       \* the event whose callback is on the stack, as a set
    dfd, dflag, \* the descriptor and flag being delivered
    stopped,   \* history: host timers that were stopped
    fired      \* history: callbacks of an event in this delivery

evVars   == <<list, mem, fd, bits, active, firing, timer, last>>
hostVars == <<slot, nextSid, nextTid, armed, ioq, timerq>>
delVars  == <<dpc, cur, dfd, dflag>>
history  == <<stopped, fired>>
vars     == <<evVars, hostVars, delVars, history>>

Init ==
    /\ list = <<>>
    /\ mem = [e \in Evs |-> "free"]
    /\ fd = [e \in Evs |-> NoFd]
    /\ bits = [e \in Evs |-> {}]
    /\ active = [e \in Evs |-> FALSE]
    /\ firing = [e \in Evs |-> FALSE]
    /\ timer = [e \in Evs |-> 0]
    /\ last = [e \in Evs |-> FALSE]
    /\ slot = [f \in Fds |-> 0]
    /\ nextSid = 1 /\ nextTid = 1
    /\ armed = {} /\ ioq = {} /\ timerq = {}
    /\ dpc = "idle" /\ cur = {} /\ dfd = NoFd /\ dflag = "read"
    /\ stopped = {}
    /\ fired = [e \in Evs |-> 0]

-----------------------------------------------------------------------------
(***************************************************************************)
(* The ub_event entry points.  Unbound calls them from other exports       *)
(* ("idle") and from callbacks, on events that it has not freed.           *)
(***************************************************************************)
InGuest  == dpc \in {"idle", "cb", "tcb"}
Usable(e) == InGuest /\ mem[e] = "linked"

\* calloc, and insertion at the head of the list.
base_new_event(e, f, B) ==
    /\ InGuest /\ mem[e] = "free"
    /\ mem' = [mem EXCEPT ![e] = "linked"]
    /\ list' = <<e>> \o list
    /\ fd' = [fd EXCEPT ![e] = f]
    /\ bits' = [bits EXCEPT ![e] = B]
    /\ active' = [active EXCEPT ![e] = FALSE]
    /\ firing' = [firing EXCEPT ![e] = FALSE]
    /\ timer' = [timer EXCEPT ![e] = 0]
    /\ last' = [last EXCEPT ![e] = FALSE]
    /\ fired' = [fired EXCEPT ![e] = 0]
    /\ UNCHANGED <<hostVars, delVars, stopped>>

event_set_fd(e, f) ==
    /\ Usable(e)
    /\ fd' = [fd EXCEPT ![e] = f]
    /\ UNCHANGED <<list, mem, bits, active, firing, timer, last, hostVars, delVars, history>>

event_add_bits(e, B) ==
    /\ Usable(e) /\ bits[e] \cup B \in BitSets
    /\ bits' = [bits EXCEPT ![e] = @ \cup B]
    /\ UNCHANGED <<list, mem, fd, active, firing, timer, last, hostVars, delVars, history>>

event_del_bits(e, B) ==
    /\ Usable(e) /\ bits[e] \ B \in BitSets
    /\ bits' = [bits EXCEPT ![e] = @ \ B]
    /\ UNCHANGED <<list, mem, fd, active, firing, timer, last, hostVars, delVars, history>>

\* Variant of stop_timer that keeps timer_id.
stop_timer_keep_id(e) ==
    /\ armed' = armed \ {timer[e]}
    /\ stopped' = IF timer[e] = 0 THEN stopped ELSE stopped \cup {timer[e]}
    /\ UNCHANGED <<timer, nextTid>>

\* stop_timer, which cannot call back a firing that is already queued.
stop_timer(e) ==
    /\ armed' = armed \ {timer[e]}
    /\ stopped' = IF timer[e] = 0 THEN stopped ELSE stopped \cup {timer[e]}
    /\ timer' = [timer EXCEPT ![e] = 0]
    /\ UNCHANGED nextTid

\* start_timer stops the old one first; the host may refuse a new one (timer 0).
start_timer(e, timed) ==
    /\ stopped' = IF timer[e] = 0 THEN stopped ELSE stopped \cup {timer[e]}
    /\ IF timed /\ nextTid <= LastTid
       THEN /\ armed' = (armed \ {timer[e]}) \cup {nextTid}
            /\ timer' = [timer EXCEPT ![e] = nextTid]
            /\ nextTid' = nextTid + 1
       ELSE /\ armed' = armed \ {timer[e]}
            /\ timer' = [timer EXCEPT ![e] = 0]
            /\ UNCHANGED nextTid

event_add(e, timed) ==
    /\ Usable(e)
    /\ active' = [active EXCEPT ![e] = TRUE]
    /\ start_timer(e, timed)
    /\ UNCHANGED <<list, mem, fd, bits, firing, last, slot, nextSid, ioq, timerq,
                   delVars, fired>>

event_add_timer(e) ==
    /\ Usable(e)
    /\ fd' = [fd EXCEPT ![e] = NoFd]
    /\ bits' = [bits EXCEPT ![e] = {}]
    /\ active' = [active EXCEPT ![e] = TRUE]
    /\ start_timer(e, TRUE)
    /\ UNCHANGED <<list, mem, firing, last, slot, nextSid, ioq, timerq, delVars, fired>>

event_del(e) ==
    /\ Usable(e)
    /\ active' = [active EXCEPT ![e] = FALSE]
    /\ stop_timer(e)
    /\ UNCHANGED <<list, mem, fd, bits, firing, last, slot, nextSid, ioq, timerq,
                   delVars, fired>>

event_del_timer(e) ==
    /\ Usable(e)
    /\ stop_timer(e)
    /\ UNCHANGED <<list, mem, fd, bits, active, firing, last, slot, nextSid, ioq,
                   timerq, delVars, fired>>

\* Nothing reads the fields of freed memory, and calloc clears them.
wipe(e) ==
    fd' = [fd EXCEPT ![e] = NoFd] /\ bits' = [bits EXCEPT ![e] = {}]

\* The first link to the event, from the head, is replaced by the one it has.
unlink_event(e) ==
    IF \E k \in 1..Len(list) : list[k] = e
    THEN \E k \in 1..Len(list) :
            /\ list[k] = e /\ \A j \in 1..(k - 1) : list[j] # e
            /\ list' = [i \in 1..(Len(list) - 1) |-> IF i < k THEN list[i] ELSE list[i + 1]]
    ELSE UNCHANGED list

\* Variant of event_free that leaves the timer running.
event_free_timer_runs(e) ==
    /\ Usable(e)
    /\ active' = [active EXCEPT ![e] = FALSE]
    /\ unlink_event(e)
    /\ mem' = [mem EXCEPT ![e] = IF firing[e] THEN "zombie" ELSE "free"]
    /\ UNCHANGED <<fd, bits, firing, timer, last, hostVars, delVars, stopped, fired>>

\* Variant of event_free that does not defer.
event_free_now(e) ==
    /\ Usable(e)
    /\ active' = [active EXCEPT ![e] = FALSE]
    /\ stop_timer(e)
    /\ unlink_event(e)
    /\ mem' = [mem EXCEPT ![e] = "free"]
    /\ UNCHANGED <<fd, bits, firing, last, slot, nextSid, ioq, timerq, delVars, fired>>

\* event_del and unlink_event; the memory is kept while its callback runs.
event_free(e) ==
    /\ Usable(e)
    /\ active' = [active EXCEPT ![e] = FALSE]
    /\ stop_timer(e)
    /\ unlink_event(e)
    /\ mem' = [mem EXCEPT ![e] = IF firing[e] THEN "zombie" ELSE "free"]
    /\ IF firing[e] THEN UNCHANGED <<fd, bits>> ELSE wipe(e)
    /\ UNCHANGED <<firing, last, slot, nextSid, ioq, timerq, delVars, fired>>

-----------------------------------------------------------------------------
(***************************************************************************)
(* The descriptor table.                                                   *)
(***************************************************************************)
Unused == {f \in Fds : slot[f] = 0}

\* Variant of uw_socket that is off by one past the end of the table.
uw_socket_past_end ==
    /\ InGuest /\ nextSid <= LastSid
    /\ nextSid' = nextSid + 1
    /\ LET f == IF Unused = {} THEN Cardinality(Fds)
               ELSE CHOOSE g \in Unused : \A h \in Unused : g <= h IN
       slot' = [g \in Fds \cup {f} |-> IF g = f THEN nextSid ELSE slot[g]]
    /\ UNCHANGED <<evVars, nextTid, armed, ioq, timerq, delVars, history>>

\* The lowest unused descriptor for a new host socket, which is given back to the
\* host when there is none.
uw_socket ==
    /\ InGuest /\ nextSid <= LastSid
    /\ nextSid' = nextSid + 1
    /\ IF Unused = {} THEN UNCHANGED slot
       ELSE slot' = [slot EXCEPT ![CHOOSE f \in Unused : \A g \in Unused : f <= g] = nextSid]
    /\ UNCHANGED <<evVars, nextTid, armed, ioq, timerq, delVars, history>>

uw_close(f) ==
    /\ InGuest /\ slot[f] # 0
    /\ slot' = [slot EXCEPT ![f] = 0]
    /\ UNCHANGED <<evVars, nextSid, nextTid, armed, ioq, timerq, delVars, history>>

-----------------------------------------------------------------------------
(***************************************************************************)
(* External: the host, between and during guest calls.                     *)
(***************************************************************************)
HostReady(f, fl) ==
    /\ slot[f] # 0 /\ Cardinality(ioq) < MaxIo
    /\ ioq' = ioq \cup {<<slot[f], fl>>}
    /\ UNCHANGED <<evVars, slot, nextSid, nextTid, armed, timerq, delVars, history>>

HostTimer(t) ==
    /\ t \in armed
    /\ armed' = armed \ {t} /\ timerq' = timerq \cup {t}
    /\ UNCHANGED <<evVars, slot, nextSid, nextTid, ioq, delVars, history>>

-----------------------------------------------------------------------------
(***************************************************************************)
(* Delivery.                                                               *)
(***************************************************************************)
\* io_ready: the socket is translated to its descriptor; a socket that the guest
\* has closed has none, and nothing happens.
io_ready(sid, fl) ==
    /\ dpc = "idle" /\ <<sid, fl>> \in ioq
    /\ ioq' = ioq \ {<<sid, fl>>}
    /\ IF \E f \in Fds : slot[f] = sid
       THEN /\ dpc' = "io" /\ dflag' = fl
            /\ dfd' = CHOOSE f \in Fds : slot[f] = sid
       ELSE UNCHANGED <<dpc, dfd, dflag>>
    /\ UNCHANGED <<evVars, slot, nextSid, nextTid, armed, timerq, cur, history>>

\* An error wakes readers and writers.
Wakes(fl) == IF fl = "err" THEN {"read", "write"} ELSE {fl}

\* Variant of Matches that does not look at last_dispatch.
MatchesAnyGeneration(e) ==
    /\ active[e] /\ ~firing[e] /\ fd[e] = dfd
    /\ bits[e] \cap Wakes(dflag) # {}

Matches(e) ==
    /\ active[e] /\ ~firing[e] /\ fd[e] = dfd /\ ~last[e]
    /\ bits[e] \cap Wakes(dflag) # {}

\* The first match from the head of the list has its callback called.
IoFire ==
    /\ dpc = "io"
    /\ \E k \in 1..Len(list) :
        /\ Matches(list[k]) /\ \A j \in 1..(k - 1) : ~Matches(list[j])
        /\ LET e == list[k] IN
            /\ last' = [last EXCEPT ![e] = TRUE]
            /\ firing' = [firing EXCEPT ![e] = TRUE]
            /\ active' = [active EXCEPT ![e] = @ /\ "persist" \in bits[e]]
            /\ fired' = [fired EXCEPT ![e] = @ + 1]
            /\ cur' = {e}
    /\ dpc' = "cb"
    /\ UNCHANGED <<list, mem, fd, bits, timer, hostVars, dfd, dflag, stopped>>

\* No match is left.  The next delivery has a generation of its own.
IoDone ==
    /\ dpc = "io"
    /\ \A k \in 1..Len(list) : ~Matches(list[k])
    /\ dpc' = "idle" /\ dfd' = NoFd /\ dflag' = "read"
    /\ last' = [e \in Evs |-> FALSE]
    /\ fired' = [e \in Evs |-> 0]
    /\ UNCHANGED <<list, mem, fd, bits, active, firing, timer, hostVars, cur, stopped>>

\* The callback returns: the memory is released if it was freed meanwhile; the
\* list is scanned again after uw_io_ready's.
CallbackReturn ==
    /\ dpc \in {"cb", "tcb"}
    /\ \E e \in cur :
        /\ IF mem[e] = "zombie" THEN mem' = [mem EXCEPT ![e] = "free"] /\ wipe(e)
                                ELSE UNCHANGED <<mem, fd, bits>>
        /\ firing' = [firing EXCEPT ![e] = FALSE]
    /\ cur' = {}
    /\ dpc' = IF dpc = "cb" THEN "io" ELSE "idle"
    /\ UNCHANGED <<list, active, timer, last, hostVars, dfd, dflag, history>>

\* uw_timer_fired: a timer that no active event waits for is ignored.
timer_fired(t) ==
    /\ dpc = "idle" /\ t \in timerq
    /\ timerq' = timerq \ {t}
    /\ LET hit == {k \in 1..Len(list) : active[list[k]] /\ timer[list[k]] = t} IN
        IF hit = {}
        THEN UNCHANGED <<timer, firing, dpc, cur>>
        ELSE LET e == list[CHOOSE k \in hit : \A j \in hit : k <= j] IN
             /\ timer' = [timer EXCEPT ![e] = 0]
             /\ firing' = [firing EXCEPT ![e] = TRUE]
             /\ cur' = {e} /\ dpc' = "tcb"
    /\ UNCHANGED <<list, mem, fd, bits, active, last, slot, nextSid, nextTid, armed,
                   ioq, dfd, dflag, stopped, fired>>

-----------------------------------------------------------------------------
Registration ==
    \E e \in Evs :
        \/ \E f \in Fds \cup {NoFd}, B \in BitSets : base_new_event(e, f, B)
        \/ \E f \in Fds : event_set_fd(e, f)
        \/ \E b \in UNION BitSets : event_add_bits(e, {b}) \/ event_del_bits(e, {b})
        \/ \E timed \in BOOLEAN : event_add(e, timed)
        \/ event_add_timer(e) \/ event_del(e) \/ event_del_timer(e) \/ event_free(e)

Sockets == uw_socket \/ \E f \in Fds : uw_close(f)

Host ==
    \/ \E f \in Fds, fl \in Flags : HostReady(f, fl)
    \/ \E t \in 1..LastTid : HostTimer(t)

Delivery ==
    \/ \E sid \in 1..LastSid, fl \in Flags : io_ready(sid, fl)
    \/ \E t \in 1..LastTid : timer_fired(t)
    \/ IoFire \/ IoDone \/ CallbackReturn

Next == Registration \/ Sockets \/ Host \/ Delivery

Spec == Init /\ [][Next]_vars

-----------------------------------------------------------------------------
(***************************************************************************)
(* Properties.                                                             *)
(***************************************************************************)
\* Every variable keeps its type.
TypeOK ==
    /\ list \in Seq(Evs)
    /\ mem \in [Evs -> {"free", "linked", "zombie"}]
    /\ fd \in [Evs -> Fds \cup {NoFd}]
    /\ bits \in [Evs -> BitSets \cup {{}}]
    /\ active \in [Evs -> BOOLEAN] /\ firing \in [Evs -> BOOLEAN] /\ last \in [Evs -> BOOLEAN]
    /\ timer \in [Evs -> 0..LastTid]
    /\ slot \in [Fds -> 0..LastSid]
    /\ nextSid \in 1..(LastSid + 1) /\ nextTid \in 1..(LastTid + 1)
    /\ armed \subseteq 1..LastTid /\ timerq \subseteq 1..LastTid
    /\ ioq \subseteq (1..LastSid) \X Flags
    /\ dpc \in {"idle", "io", "cb", "tcb"} /\ cur \subseteq Evs
    /\ dfd \in Fds \cup {NoFd} /\ dflag \in Flags

\* No memory is used after it is freed: the list holds exactly the events that are
\* allocated and not freed, each once, and the event whose callback is on the stack
\* stays allocated, and is still marked as firing, until the callback returns.
NoUseAfterFree ==
    /\ \A e \in Evs : mem[e] = "linked" <=> \E k \in 1..Len(list) : list[k] = e
    /\ \A j, k \in 1..Len(list) : list[j] = list[k] => j = k
    /\ \A e \in cur : mem[e] \in {"linked", "zombie"} /\ firing[e]
    /\ dpc \in {"idle", "io"} => \A e \in Evs : mem[e] = "linked" => ~firing[e]

\* One delivery calls an event's callback at most once, although the list is
\* scanned again from its head after every callback and callbacks re-add events.
FiresOncePerDelivery == \A e \in Evs : fired[e] <= 1

\* A timer that was stopped never has its callback called, although its firing
\* may have been queued before it was stopped: the firing finds no event.
StoppedTimersStaySilent ==
    \A e \in Evs : mem[e] = "linked" /\ timer[e] # 0 => timer[e] \notin stopped

\* Every running host timer belongs to an event that is still allocated: neither
\* re-adding nor freeing an event leaves one behind.
NoOrphanTimers ==
    \A t \in armed : \E e \in Evs : mem[e] = "linked" /\ timer[e] = t

=============================================================================
