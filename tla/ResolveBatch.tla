------------------------------ MODULE ResolveBatch ------------------------------
(***************************************************************************)
(* Instance.ResolveAll (runtime.go) over the guest's table of result slots *)
(* (backends/guest.c), through several batches on one instance.  One step  *)
(* is one guest block, one iteration of a loop or one case of the select.  *)
(* Meanwhile the context may end, the instance may be closed by another    *)
(* goroutine or by Runtime.Close, and its event queue may overflow.        *)
(*                                                                         *)
(* An answer is represented by the query it answers.  libunbound is        *)
(* external: a query that was attached and not cancelled calls back once.  *)
(***************************************************************************)
EXTENDS Naturals, FiniteSets

CONSTANTS
    N,           \* queries in a batch
    MaxSlots,    \* MAX_RESULTS (64)
    MaxBatches   \* bound: ResolveAll calls

ASSUME SizesAssumption == {N, MaxSlots, MaxBatches} \subseteq Nat

Queries == 1..N
Slots   == 1..MaxSlots

VARIABLES
    hpc,       \* where ResolveAll is
    n,         \* its loop index
    result,    \* results[n]: the query answered, or 0 for nil
    err,       \* errs[n]: "none" for nil, or what went wrong
    rid,       \* rids[n]
    pending,
    batch,     \* number of the batch
    ctxDone,   \* the caller's context has ended
    iclosed,   \* i.closed
    done,      \* state.done is closed
    cause,     \* state.err: "none", "overflow"
    mod,       \* the module: "live", "exited" (by wazero, on a dead context), "closed"
    used, ready, ubid, answer,  \* the result slots
    live,      \* queries in libunbound that may still call back
    nextId     \* the next libunbound query number

hostVars  == <<hpc, n, result, err, rid, pending, batch>>
instVars  == <<ctxDone, iclosed, done, cause, mod>>
guestVars == <<used, ready, ubid, answer, live, nextId>>
vars      == <<hostVars, instVars, guestVars>>

NoAnswer == <<0, 0>>
Tags     == (1..MaxBatches) \X Queries

Init ==
    /\ hpc = "idle" /\ n = 1 /\ pending = 0 /\ batch = 0
    /\ result = [q \in Queries |-> NoAnswer]
    /\ err = [q \in Queries |-> "none"]
    /\ rid = [q \in Queries |-> 0]
    /\ ctxDone = FALSE /\ iclosed = FALSE /\ done = FALSE
    /\ cause = "none" /\ mod = "live"
    /\ used = [s \in Slots |-> FALSE]
    /\ ready = [s \in Slots |-> FALSE]
    /\ ubid = [s \in Slots |-> 0]
    /\ answer = [s \in Slots |-> NoAnswer]
    /\ live = {} /\ nextId = 1

-----------------------------------------------------------------------------
Settled(q) == result[q] # NoAnswer \/ err[q] # "none"

\* Mutant of failUnsettled: it does not look for a result.
failAll(e) ==
    /\ err' = [q \in Queries |-> IF err[q] # "none" THEN err[q] ELSE e]
    /\ hpc' = "cancel" /\ n' = 1
    /\ UNCHANGED <<result, rid, pending, batch>>

\* The error of every query that has not settled; then the deferred calls run.
failUnsettled(e) ==
    /\ err' = [q \in Queries |-> IF Settled(q) THEN err[q] ELSE e]
    /\ hpc' = "cancel" /\ n' = 1
    /\ UNCHANGED <<result, rid, pending, batch>>

\* A guest call fails on a module that is gone, and on a context that has ended,
\* upon which wazero (external) closes the module.  Where the code reacts to an
\* error, the call may also trap.
CallFails == mod # "live" \/ ctxDone

\* kill is Close, which leaves the work to an earlier Close if there is one.
kill ==
    IF iclosed THEN UNCHANGED instVars
    ELSE /\ iclosed' = TRUE /\ done' = TRUE /\ mod' = "closed"
         /\ UNCHANGED <<ctxDone, cause>>

\* The module's state after a failed call that is not followed by kill.
CallFailed ==
    /\ mod' = IF mod = "live" /\ ctxDone THEN "exited" ELSE mod
    /\ UNCHANGED <<ctxDone, iclosed, done, cause>>

-----------------------------------------------------------------------------
(***************************************************************************)
(* ResolveAll: entry and the loop that starts the queries.                 *)
(***************************************************************************)
Begin ==
    /\ hpc = "idle" /\ batch < MaxBatches
    /\ hpc' = "enter" /\ n' = 1 /\ pending' = 0 /\ batch' = batch + 1
    /\ result' = [q \in Queries |-> NoAnswer]
    /\ err' = [q \in Queries |-> "none"]
    /\ rid' = [q \in Queries |-> 0]
    /\ ctxDone' = FALSE
    /\ UNCHANGED <<iclosed, done, cause, mod, guestVars>>

Enter ==
    /\ hpc = "enter"
    /\ IF iclosed THEN failUnsettled("closed")
       ELSE hpc' = "start" /\ UNCHANGED <<n, result, err, rid, pending, batch>>
    /\ UNCHANGED <<instVars, guestVars>>

\* normalizeName refuses the name.
BadName ==
    /\ hpc = "start" /\ n <= N
    /\ err' = [err EXCEPT ![n] = "name"]
    /\ n' = n + 1
    /\ UNCHANGED <<hpc, result, rid, pending, batch, instVars, guestVars>>

\* The name is copied into the guest.  A failure does not kill the instance.
AllocName ==
    /\ hpc = "start" /\ n <= N
    /\ \/ /\ ~CallFails
          /\ hpc' = "resolve"
          /\ UNCHANGED <<n, result, err, rid, pending, batch, instVars>>
       \/ failUnsettled("alloc") /\ CallFailed
    /\ UNCHANGED guestVars

\* The first free slot.
FreeSlots == {s \in Slots : ~used[s]}
FirstFree == CHOOSE s \in FreeSlots : \A t \in FreeSlots : s <= t

\* Mutant of ResolveStart: the identifier is one too high.
ResolveStartOff ==
    /\ hpc = "resolve" /\ ~CallFails /\ FreeSlots # {}
    /\ LET s == FirstFree IN
        /\ used' = [used EXCEPT ![s] = TRUE]
        /\ ubid' = [ubid EXCEPT ![s] = nextId]
        /\ rid' = [rid EXCEPT ![n] = s + 1]
        /\ live' = live \cup {[id |-> nextId, slot |-> s, tag |-> <<batch, n>>]}
    /\ nextId' = nextId + 1 /\ pending' = pending + 1
    /\ n' = n + 1 /\ hpc' = "start"
    /\ UNCHANGED <<ready, answer, result, err, batch, instVars>>

\* resolve_start attaches the query.  The callback may run before it returns, and
\* then the slot keeps the number of a query that is over.
ResolveStart ==
    /\ hpc = "resolve" /\ ~CallFails /\ FreeSlots # {}
    /\ LET s == FirstFree IN
        /\ used' = [used EXCEPT ![s] = TRUE]
        /\ ubid' = [ubid EXCEPT ![s] = nextId]
        /\ rid' = [rid EXCEPT ![n] = s]
        /\ \/ /\ live' = live \cup {[id |-> nextId, slot |-> s, tag |-> <<batch, n>>]}
              /\ UNCHANGED <<ready, answer>>
           \/ /\ ready' = [ready EXCEPT ![s] = TRUE]
              /\ answer' = [answer EXCEPT ![s] = <<batch, n>>]
              /\ UNCHANGED live
    /\ nextId' = nextId + 1 /\ pending' = pending + 1
    /\ n' = n + 1 /\ hpc' = "start"
    /\ UNCHANGED <<result, err, batch, instVars>>

\* No slot is free, or libunbound refuses the query.
ResolveRefused ==
    /\ hpc = "resolve" /\ ~CallFails
    /\ err' = [err EXCEPT ![n] = "errno"]
    /\ n' = n + 1 /\ hpc' = "start"
    /\ UNCHANGED <<result, rid, pending, batch, instVars, guestVars>>

ResolveTrap ==
    /\ hpc = "resolve"
    /\ failUnsettled("trap") /\ kill
    /\ UNCHANGED guestVars

\* With nothing in flight the guest is not touched again; otherwise the result
\* buffer is allocated.  A failure does not kill the instance.
StartDone ==
    /\ hpc = "start" /\ n > N
    /\ \/ /\ pending = 0
          /\ hpc' = "cancel" /\ n' = 1
          /\ UNCHANGED <<result, err, rid, pending, batch, instVars>>
       \/ /\ pending > 0 /\ ~CallFails
          /\ hpc' = "poll" /\ n' = 1
          /\ UNCHANGED <<result, err, rid, pending, batch, instVars>>
       \/ pending > 0 /\ failUnsettled("alloc") /\ CallFailed
    /\ UNCHANGED guestVars

-----------------------------------------------------------------------------
(***************************************************************************)
(* The loop that polls the results and waits for events.                   *)
(***************************************************************************)
Waiting(q) == rid[q] # 0 /\ ~Settled(q)

PollSkip ==
    /\ hpc = "poll" /\ n <= N /\ ~Waiting(n)
    /\ n' = n + 1
    /\ UNCHANGED <<hpc, result, err, rid, pending, batch, instVars, guestVars>>

\* What result_get says of a slot.
result_get(s) ==
    CASE ~used[s]              -> "ENOENT"
      [] used[s] /\ ~ready[s] -> "pending"
      [] OTHER                 -> "ready"

\* Mutant of PollResult: a failed query is not counted down.
PollResultKeep ==
    /\ hpc = "poll" /\ n <= N /\ Waiting(n) /\ ~CallFails
    /\ \/ err' = [err EXCEPT ![n] = "response"] /\ UNCHANGED <<result, pending>>
       \/ /\ ready[rid[n]] /\ result' = [result EXCEPT ![n] = answer[rid[n]]]
          /\ pending' = pending - 1 /\ UNCHANGED err
    /\ n' = n + 1
    /\ UNCHANGED <<hpc, rid, batch, instVars, guestVars>>

\* pollResult, when result_get returns: still pending; an unknown slot; or an
\* answer, which may itself be a failure (bogus, an rcode, an unusable packet).
PollResult ==
    /\ hpc = "poll" /\ n <= N /\ Waiting(n) /\ ~CallFails
    /\ LET s == rid[n] IN
        \/ /\ result_get(s) = "pending"
           /\ UNCHANGED <<result, err, pending>>
        \/ /\ result_get(s) = "ready"
           /\ result' = [result EXCEPT ![n] = answer[s]]
           /\ pending' = pending - 1 /\ UNCHANGED err
        \/ /\ result_get(s) # "pending"
           /\ err' = [err EXCEPT ![n] = IF result_get(s) = "ready" THEN "response" ELSE "errno"]
           /\ pending' = pending - 1 /\ UNCHANGED result
    /\ n' = n + 1
    /\ UNCHANGED <<hpc, rid, batch, instVars, guestVars>>

PollFatal ==
    /\ hpc = "poll" /\ n <= N /\ Waiting(n)
    /\ failUnsettled("trap") /\ kill
    /\ UNCHANGED guestVars

\* Mutant of PollEnd: the results are polled again without waiting.
PollAgain ==
    /\ hpc = "poll" /\ n > N
    /\ hpc' = IF pending = 0 THEN "cancel" ELSE "poll"
    /\ n' = 1
    /\ UNCHANGED <<result, err, rid, pending, batch, instVars, guestVars>>

PollEnd ==
    /\ hpc = "poll" /\ n > N
    /\ hpc' = IF pending = 0 THEN "cancel" ELSE "select"
    /\ n' = 1
    /\ UNCHANGED <<result, err, rid, pending, batch, instVars, guestVars>>

SelectCtx ==
    /\ hpc = "select" /\ ctxDone
    /\ failUnsettled("ctx") /\ kill
    /\ UNCHANGED guestVars

\* stateErr: a failed instance is killed, a closed one is reported as such.
SelectDone ==
    /\ hpc = "select" /\ done
    /\ failUnsettled(IF cause = "none" THEN "closed" ELSE cause)
    /\ IF cause = "none" THEN UNCHANGED instVars ELSE kill
    /\ UNCHANGED guestVars

\* An event is dispatched: the guest runs, and any queries may call back.
callback(U) ==
    /\ ready' = [s \in Slots |-> ready[s] \/ \E u \in U : u.slot = s /\ used[s]]
    /\ answer' = [s \in Slots |-> IF used[s] /\ \E u \in U : u.slot = s
                                  THEN (CHOOSE u \in U : u.slot = s).tag ELSE answer[s]]
    /\ ubid' = [s \in Slots |-> IF \E u \in U : u.slot = s THEN 0 ELSE ubid[s]]
    /\ live' = live \ U
    /\ UNCHANGED <<used, nextId>>

SelectEvent ==
    /\ hpc = "select" /\ ~CallFails
    /\ \E U \in SUBSET live : callback(U)
    /\ hpc' = "poll" /\ n' = 1
    /\ UNCHANGED <<result, err, rid, pending, batch, instVars>>

DispatchFails ==
    /\ hpc = "select"
    /\ failUnsettled("trap") /\ kill
    /\ UNCHANGED guestVars

-----------------------------------------------------------------------------
(***************************************************************************)
(* The deferred cancels, and the return.                                   *)
(***************************************************************************)
\* Mutant of resolve_cancel: the slot is cleared, the query not cancelled.
resolve_forget(s) ==
    /\ used' = [used EXCEPT ![s] = FALSE]
    /\ ready' = [ready EXCEPT ![s] = FALSE]
    /\ ubid' = [ubid EXCEPT ![s] = 0]
    /\ answer' = [answer EXCEPT ![s] = NoAnswer]
    /\ UNCHANGED <<live, nextId>>

\* resolve_cancel: ub_cancel for a slot that has a query number, then the slot is
\* cleared.  libunbound ignores a number it does not know.
resolve_cancel(s) ==
    /\ live' = IF used[s] THEN {u \in live : u.id # ubid[s]} ELSE live
    /\ used' = [used EXCEPT ![s] = FALSE]
    /\ ready' = [ready EXCEPT ![s] = FALSE]
    /\ ubid' = [ubid EXCEPT ![s] = 0]
    /\ answer' = [answer EXCEPT ![s] = NoAnswer]
    /\ UNCHANGED nextId

\* Mutant of Cancel: only queries that did not settle are cancelled.
CancelUnsettled ==
    /\ hpc = "cancel" /\ n <= N
    /\ IF rid[n] > 0 /\ ~iclosed /\ mod = "live" /\ result[n] = NoAnswer
       THEN resolve_cancel(rid[n]) ELSE UNCHANGED guestVars
    /\ n' = n + 1
    /\ UNCHANGED <<hpc, result, err, rid, pending, batch, instVars>>

\* Skipped for a closed instance; on a module that is gone the call just fails.
\* The call has a context of its own, which does not end, and its error is
\* ignored: that resolve_cancel does not trap on a live module is assumed.
Cancel ==
    /\ hpc = "cancel" /\ n <= N
    /\ IF rid[n] > 0 /\ ~iclosed /\ mod = "live"
       THEN resolve_cancel(rid[n]) ELSE UNCHANGED guestVars
    /\ n' = n + 1
    /\ UNCHANGED <<hpc, result, err, rid, pending, batch, instVars>>

Return ==
    /\ hpc = "cancel" /\ n > N
    /\ hpc' = "idle"
    /\ UNCHANGED <<n, result, err, rid, pending, batch, instVars, guestVars>>

-----------------------------------------------------------------------------
(***************************************************************************)
(* What happens meanwhile.                                                 *)
(***************************************************************************)
CtxEnds ==
    /\ hpc # "idle" /\ ~ctxDone
    /\ ctxDone' = TRUE
    /\ UNCHANGED <<hostVars, iclosed, done, cause, mod, guestVars>>

\* Instance.Close elsewhere, up to its wait for guestMu.
CloseElsewhere ==
    /\ ~iclosed
    /\ iclosed' = TRUE /\ done' = TRUE
    /\ UNCHANGED <<hostVars, ctxDone, cause, mod, guestVars>>

\* Runtime.Close shuts the state down; i.closed stays as it is.
RuntimeClose ==
    /\ ~done
    /\ done' = TRUE
    /\ UNCHANGED <<hostVars, ctxDone, iclosed, cause, mod, guestVars>>

\* closeModule, for either of them.
ModuleCloses ==
    /\ done /\ mod # "closed"
    /\ mod' = "closed"
    /\ UNCHANGED <<hostVars, ctxDone, iclosed, done, cause, guestVars>>

Overflow ==
    /\ ~done
    /\ done' = TRUE /\ cause' = "overflow"
    /\ UNCHANGED <<hostVars, ctxDone, iclosed, mod, guestVars>>

-----------------------------------------------------------------------------
ResolveAll ==
    \/ Enter \/ BadName \/ AllocName \/ ResolveStart \/ ResolveRefused \/ ResolveTrap
    \/ StartDone \/ PollSkip \/ PollResult \/ PollFatal \/ PollEnd
    \/ SelectCtx \/ SelectDone \/ Cancel \/ Return

Next ==
    \/ Begin \/ ResolveAll \/ SelectEvent \/ DispatchFails
    \/ CtxEnds \/ CloseElsewhere \/ RuntimeClose \/ ModuleCloses \/ Overflow

Spec == Init /\ [][Next]_vars

\* The calling goroutine runs on; a select whose case stays ready takes it.
\* Nothing is assumed of events.
Fairness == WF_vars(ResolveAll) /\ SF_vars(SelectCtx) /\ SF_vars(SelectDone)

FairSpec == Spec /\ Fairness

-----------------------------------------------------------------------------
(***************************************************************************)
(* Properties.                                                             *)
(***************************************************************************)
\* Every variable keeps its type; a result identifier names a slot.
TypeOK ==
    /\ hpc \in {"idle", "enter", "start", "resolve", "poll", "select", "cancel"}
    /\ n \in 1..(N + 1) /\ pending \in 0..N /\ batch \in 0..MaxBatches
    /\ result \in [Queries -> Tags \cup {NoAnswer}]
    /\ err \in [Queries -> {"none", "name", "alloc", "errno", "trap", "response",
                            "ctx", "closed", "overflow"}]
    /\ rid \in [Queries -> 0..MaxSlots]
    /\ ctxDone \in BOOLEAN /\ iclosed \in BOOLEAN /\ done \in BOOLEAN
    /\ cause \in {"none", "overflow"} /\ mod \in {"live", "exited", "closed"}
    /\ used \in [Slots -> BOOLEAN] /\ ready \in [Slots -> BOOLEAN]
    /\ ubid \in [Slots -> Nat] /\ answer \in [Slots -> Tags \cup {NoAnswer}]
    /\ live \subseteq [id : Nat, slot : Slots, tag : Tags] /\ nextId \in Nat

\* pending counts exactly the started queries that are not settled, so the loop
\* neither ends early nor waits for a query that is over.
PendingExact ==
    hpc \in {"start", "resolve", "poll", "select"} =>
        pending = Cardinality({q \in Queries : Waiting(q)})

\* A result belongs to the query of this batch that it is returned for, although
\* slots are reused and callbacks of cancelled queries may still be due.
ResultsBelong ==
    \A q \in Queries : result[q] # NoAnswer => result[q] = <<batch, q>>

\* Between batches a usable instance has every result slot free and no query left
\* in libunbound that could call back into one.
SlotsFreed ==
    hpc = "idle" /\ mod = "live" /\ ~iclosed => live = {} /\ \A s \in Slots : ~used[s]

\* If the context is cancelled mid-resolution the whole instance is closed: after
\* a batch that had started queries and lost its module to the context, it is.
CancelClosesInstance ==
    hpc = "idle" /\ mod = "exited" /\ (\E q \in Queries : rid[q] > 0) => iclosed

Outcome(q) ==
    CASE result[q] # NoAnswer /\ err[q] # "none" -> "both"
      [] result[q] # NoAnswer /\ err[q] = "none" -> "result"
      [] result[q] = NoAnswer /\ err[q] # "none" -> "error"
      [] OTHER -> "none"

Batch == INSTANCE BatchSpec WITH active  <- hpc # "idle",
                                 outcome <- [q \in Queries |-> Outcome(q)]

\* ResolveAll implements BatchSpec: results[i] is nil if and only if queries[i]
\* failed, no outcome changes once it is there, and the call returns only when
\* every query has one.
SettlesEveryQuery == Batch!Spec

\* A ResolveAll whose context has ended or whose instance is shut down returns,
\* whether or not any event arrives.
StopsWhenTold == (hpc # "idle" /\ (ctxDone \/ done)) ~> hpc = "idle"

=============================================================================
