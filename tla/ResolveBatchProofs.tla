--------------------------- MODULE ResolveBatchProofs ---------------------------
(***************************************************************************)
(* Proofs about ResolveBatch, for any number of queries, slots and batches.*)
(***************************************************************************)
EXTENDS ResolveBatch, FiniteSetTheorems, WellFoundedInduction, TLAPS

-----------------------------------------------------------------------------
(***************************************************************************)
(* The inductive invariant.                                                *)
(***************************************************************************)
\* The loops of ResolveAll between the check of i.closed and the deferred calls.
InBatch == {"start", "resolve", "poll", "select"}

\* The batch that runs has a number and starts from nothing, and resolve_start is
\* for one of its queries.
PhaseInv ==
    /\ hpc # "idle" => batch > 0
    /\ hpc = "enter" => n = 1 /\ pending = 0
    /\ hpc = "resolve" => n <= N

\* Nothing is known yet of the queries that the first loop has not reached.
FrontierInv ==
    hpc \in {"enter", "start", "resolve"} =>
        \A q \in Queries : q >= n => rid[q] = 0 /\ ~Settled(q)

\* A query that a loop has passed has an outcome, or a slot to wait for.
SettledInv ==
    /\ hpc \in {"start", "resolve"} => \A q \in Queries : q < n => Settled(q) \/ rid[q] # 0
    /\ hpc \in {"poll", "select"} => \A q \in Queries : Settled(q) \/ rid[q] # 0
    /\ hpc = "cancel" => \A q \in Queries : Settled(q)

\* No query has two outcomes.
OutcomeInv == \A q \in Queries : result[q] = NoAnswer \/ err[q] = "none"

\* A slot that is not in use has no answer waiting in it.
ReadyInv == \A s \in Slots : ready[s] => used[s]

\* Whoever may still call back is the query that its slot was last given to.
LiveInv == \A u \in live : used[u.slot] /\ ubid[u.slot] = u.id

\* Slots in use belong to queries of this batch, from the m-th on.
OwnedFrom(m) == \A s \in Slots : used[s] => \E q \in Queries : q >= m /\ rid[q] = s

\* The slots of a batch that runs on a live module: each belongs to one query,
\* and holds or waits for the answer to that query of this batch.
Attached ==
    /\ LiveInv /\ OwnedFrom(1)
    /\ \A q \in Queries : rid[q] # 0 => used[rid[q]]
    /\ \A p, q \in Queries : rid[p] # 0 /\ rid[p] = rid[q] => p = q
    /\ \A u \in live : \E q \in Queries : rid[q] = u.slot /\ u.tag = <<batch, q>>
    /\ \A q \in Queries : rid[q] # 0 /\ ready[rid[q]] => answer[rid[q]] = <<batch, q>>

\* The slots through a batch.  Once the module is gone nobody looks at them again,
\* and a closed instance starts nothing.
SlotInv ==
    /\ hpc \in InBatch /\ mod = "live" => Attached
    /\ hpc = "cancel" /\ mod = "live" /\ ~iclosed => LiveInv /\ OwnedFrom(n)
    /\ hpc \in {"idle", "enter"} /\ mod = "live" /\ ~iclosed =>
           live = {} /\ \A s \in Slots : ~used[s]

IInv ==
    /\ TypeOK /\ PhaseInv /\ FrontierInv /\ SettledInv /\ OutcomeInv
    /\ ReadyInv /\ SlotInv /\ ResultsBelong /\ PendingExact

-----------------------------------------------------------------------------
(***************************************************************************)
(* Lemmas about the operators.                                             *)
(***************************************************************************)
USE DEF Queries, Slots, Tags, NoAnswer, hostVars, instVars, guestVars

Sent == {q \in Queries : Waiting(q)}

\* The constants are natural numbers.
LEMMA Sizes == N \in Nat /\ MaxSlots \in Nat /\ MaxBatches \in Nat
  BY SizesAssumption

\* The search of resolve_start for a slot finds a free one if there is one.
LEMMA FirstFreeIsFree ==
    ASSUME FreeSlots # {}
    PROVE  FirstFree \in Slots /\ ~used[FirstFree]
<1>1. FreeSlots \subseteq Nat
  BY Sizes DEF FreeSlots
<1> DEFINE Less == OpToRel(<, Nat)
<1>2. PICK s \in FreeSlots : \A t \in FreeSlots : ~(<<t, s>> \in Less)
  <2> HIDE DEF Less
  <2>1. IsWellFoundedOn(Less, Nat)
    BY NatLessThanWellFounded DEF Less
  <2>2. QED  BY <1>1, <2>1, WFMin
<1>3. \A t \in FreeSlots : s <= t
  <2>1. Less = {ss \in Nat \X Nat : ss[1] < ss[2]}
    BY DEF OpToRel
  <2> HIDE DEF Less
  <2>2. ASSUME NEW t \in Nat, NEW u \in Nat, t < u PROVE <<t, u>> \in Less
    BY <2>1, <2>2
  <2>3. ASSUME NEW t \in FreeSlots PROVE s <= t
    <3>1. s \in Nat /\ t \in Nat
      BY <1>1
    <3>2. ~(t < s)
      BY <1>2, <2>2, <3>1
    <3>3. QED  BY <3>1, <3>2
  <2>4. QED  BY <2>3
<1>4. FirstFree \in FreeSlots
  BY <1>3 DEF FirstFree
<1>5. QED  BY <1>4 DEF FreeSlots

\* A set of queries has at most N members.
LEMMA SetOfQueries ==
    ASSUME NEW S \in SUBSET Queries
    PROVE  /\ IsFiniteSet(S) /\ Cardinality(S) \in 0..N
           /\ Cardinality(S) = 0 <=> S = {}
<1>1. IsFiniteSet(Queries) /\ Cardinality(Queries) = N
  BY Sizes, FS_Interval
<1>2. IsFiniteSet(S) /\ Cardinality(S) <= N
  BY <1>1, FS_Subset
<1>3. Cardinality(S) \in Nat
  BY <1>2, FS_CardinalityType
<1>4. Cardinality(S) = 0 <=> S = {}
  BY <1>2, FS_EmptySet
<1>5. QED  BY <1>2, <1>3, <1>4, Sizes

\* pending is exact if it was and changes by what the set of queries that wait
\* changes by; it is then within its bounds.
LEMMA Counting ==
    ASSUME pending = Cardinality(Sent),
           \/ pending' = pending /\ Sent' = Sent
           \/ \E q \in Queries : q \notin Sent /\ Sent' = Sent \cup {q} /\ pending' = pending + 1
           \/ \E q \in Sent : Sent' = Sent \ {q} /\ pending' = pending - 1
    PROVE  pending' = Cardinality(Sent') /\ pending' \in 0..N
<1>1. Sent \in SUBSET Queries /\ Sent' \in SUBSET Queries
  BY DEF Sent
<1>2. IsFiniteSet(Sent) /\ Cardinality(Sent) \in 0..N /\ Cardinality(Sent') \in 0..N
  BY <1>1, SetOfQueries
<1>3. CASE pending' = pending /\ Sent' = Sent
  BY <1>2, <1>3
<1>4. ASSUME NEW q \in Queries, q \notin Sent, Sent' = Sent \cup {q}, pending' = pending + 1
      PROVE  pending' = Cardinality(Sent') /\ pending' \in 0..N
  <2>1. Cardinality(Sent \cup {q}) = Cardinality(Sent) + 1
    BY <1>2, <1>4, FS_AddElement
  <2>2. QED  BY <1>2, <1>4, <2>1
<1>5. ASSUME NEW q \in Sent, Sent' = Sent \ {q}, pending' = pending - 1
      PROVE  pending' = Cardinality(Sent') /\ pending' \in 0..N
  <2>1. Cardinality(Sent \ {q}) = Cardinality(Sent) - 1
    BY <1>2, <1>5, FS_RemoveElement
  <2>2. QED  BY <1>2, <1>5, <2>1
<1>6. QED  BY <1>3, <1>4, <1>5

-----------------------------------------------------------------------------
(***************************************************************************)
(* The invariant is inductive.                                             *)
(***************************************************************************)
Errors == {"name", "alloc", "errno", "trap", "response", "ctx", "closed", "overflow"}

InstOK ==
    /\ ctxDone \in BOOLEAN /\ iclosed \in BOOLEAN /\ done \in BOOLEAN
    /\ cause \in {"none", "overflow"} /\ mod \in {"live", "exited", "closed"}

\* It holds before the first batch.
LEMMA InitInv == Init => IInv
<1> SUFFICES ASSUME Init PROVE IInv
  OBVIOUS
<1>1. TypeOK
  <2>1. ctxDone \in BOOLEAN /\ iclosed \in BOOLEAN /\ done \in BOOLEAN
    BY Zenon DEF Init
  <2>2. QED  BY <2>1, Sizes DEF Init, TypeOK
<1>2. PhaseInv /\ FrontierInv /\ SettledInv /\ OutcomeInv /\ ReadyInv /\ ResultsBelong /\ PendingExact
  BY DEF Init, PhaseInv, FrontierInv, SettledInv, OutcomeInv, ReadyInv, ResultsBelong, PendingExact
<1>3. SlotInv
  BY DEF Init, SlotInv, InBatch
<1>4. QED  BY <1>1, <1>2, <1>3 DEF IInv

\* failUnsettled gives every query an outcome and leaves the slots to the deferred
\* cancels.
LEMMA FailInv ==
    ASSUME IInv, hpc \in InBatch \cup {"enter"}, NEW e \in Errors, failUnsettled(e),
           UNCHANGED guestVars, InstOK', hpc = "enter" => iclosed',
           mod' = "live" => mod = "live"
    PROVE  IInv'
<1>1. TypeOK'
  BY Sizes DEF IInv, TypeOK, InstOK, failUnsettled, Errors
<1>2. PhaseInv' /\ FrontierInv' /\ ReadyInv' /\ ResultsBelong' /\ PendingExact'
  BY DEF IInv, PhaseInv, FrontierInv, ReadyInv, ResultsBelong, PendingExact, failUnsettled, InBatch
<1>3. SettledInv' /\ OutcomeInv'
  BY DEF IInv, TypeOK, SettledInv, OutcomeInv, failUnsettled, Settled, Errors
<1>4. SlotInv'
  BY DEF IInv, TypeOK, SlotInv, failUnsettled, InBatch, Attached, LiveInv, OwnedFrom
<1>5. QED  BY <1>1, <1>2, <1>3, <1>4 DEF IInv

\* Entry.
LEMMA EntryInv ==
    ASSUME IInv, Begin \/ Enter
    PROVE  IInv'
<1>1. CASE Begin
  <2>1. TypeOK'
    <3>1. ctxDone' \in BOOLEAN
      BY <1>1, Zenon DEF Begin
    <3>2. QED  BY <1>1, <3>1, Sizes DEF Begin, IInv, TypeOK
  <2>2. PhaseInv' /\ FrontierInv' /\ SettledInv' /\ OutcomeInv' /\ ReadyInv' /\ ResultsBelong'
           /\ PendingExact'
    BY <1>1, Sizes DEF Begin, IInv, TypeOK, PhaseInv, FrontierInv, SettledInv, OutcomeInv, ReadyInv,
           ResultsBelong, PendingExact, Settled
  <2>3. SlotInv'
    BY <1>1 DEF Begin, IInv, TypeOK, SlotInv, InBatch
  <2>4. QED  BY <2>1, <2>2, <2>3 DEF IInv
<1>2. CASE Enter /\ iclosed
  <2>1. InstOK'
    BY <1>2 DEF Enter, IInv, TypeOK, InstOK
  <2>2. QED  BY <1>2, <2>1, FailInv DEF Enter, InBatch, Errors
<1>3. CASE Enter /\ ~iclosed
  <2>1. TypeOK'
    BY <1>3 DEF Enter, IInv, TypeOK
  <2>2. PhaseInv' /\ FrontierInv' /\ SettledInv' /\ OutcomeInv' /\ ReadyInv' /\ ResultsBelong'
    BY <1>3 DEF Enter, IInv, TypeOK, PhaseInv, FrontierInv, SettledInv, OutcomeInv, ReadyInv,
           ResultsBelong, Settled
  <2>3. PendingExact'
    <3>1. pending' = 0 /\ Sent' = {}
      BY <1>3 DEF Enter, IInv, PhaseInv, FrontierInv, Sent, Waiting
    <3>2. QED  BY <3>1, FS_EmptySet DEF PendingExact, Sent
  <2>4. SlotInv'
    BY <1>3 DEF Enter, IInv, TypeOK, SlotInv, PhaseInv, FrontierInv, InBatch, Attached, LiveInv, OwnedFrom
  <2>5. QED  BY <2>1, <2>2, <2>3, <2>4 DEF IInv
<1>4. QED  BY <1>1, <1>2, <1>3

\* A query is refused: by normalizeName, for want of a slot, or by libunbound.
LEMMA RefusedInv ==
    ASSUME IInv, BadName \/ ResolveRefused
    PROVE  IInv'
<1> USE DEF BadName, ResolveRefused
<1>1. n \in Queries /\ rid[n] = 0 /\ ~Settled(n) /\ UNCHANGED <<rid, pending, result>>
  BY Sizes DEF IInv, TypeOK, PhaseInv, FrontierInv
<1>2. PICK e \in Errors : err' = [err EXCEPT ![n] = e]
  BY DEF Errors
<1>3. hpc' = "start" /\ n' = n + 1 /\ UNCHANGED <<batch, instVars, guestVars>> /\ hpc \in {"start", "resolve"}
  OBVIOUS
<1> HIDE DEF BadName, ResolveRefused
<1>4. PendingExact' /\ pending' \in 0..N
  <2>1. Sent' = Sent
    BY <1>1, <1>2 DEF Sent, Waiting, Settled, IInv, TypeOK
  <2>2. pending' = Cardinality(Sent') /\ pending' \in 0..N
    BY <1>1, <1>3, <2>1, Counting DEF IInv, PendingExact, Sent
  <2>3. QED  BY <2>2 DEF PendingExact, Sent
<1>5. TypeOK'
  <2>1. err' \in [Queries -> {"none"} \cup Errors]
    BY <1>2 DEF IInv, TypeOK, Errors
  <2>2. n' \in 1..(N + 1) /\ rid' = rid /\ result' = result
    BY <1>1, <1>3, Sizes
  <2>3. QED  BY <1>3, <1>4, <2>1, <2>2 DEF IInv, TypeOK, Errors
<1>6. PhaseInv' /\ FrontierInv' /\ ReadyInv' /\ ResultsBelong'
  BY <1>1, <1>2, <1>3 DEF IInv, TypeOK, PhaseInv, FrontierInv, ReadyInv, ResultsBelong, Settled
<1>7. SettledInv' /\ OutcomeInv'
  BY <1>1, <1>2, <1>3 DEF IInv, TypeOK, SettledInv, OutcomeInv, Settled, Errors
<1>8. SlotInv'
  BY <1>1, <1>3 DEF IInv, SlotInv, InBatch, Attached, LiveInv, OwnedFrom
<1>9. QED  BY <1>4, <1>5, <1>6, <1>7, <1>8 DEF IInv

\* The allocations, which may fail without a kill.
LEMMA AllocInv ==
    ASSUME IInv, AllocName \/ StartDone
    PROVE  IInv'
<1>1. ASSUME failUnsettled("alloc"), CallFailed, UNCHANGED guestVars, hpc = "start"
      PROVE  IInv'
  <2>1. InstOK' /\ (mod' = "live" => mod = "live")
    BY <1>1 DEF IInv, TypeOK, CallFailed, InstOK
  <2>2. QED  BY <1>1, <2>1, FailInv DEF InBatch, Errors
<1>2. ASSUME hpc = "start", n <= N, hpc' = "resolve",
             UNCHANGED <<n, result, err, rid, pending, batch, instVars, guestVars>>
      PROVE  IInv'
  BY <1>2 DEF IInv, TypeOK, PhaseInv, FrontierInv, SettledInv, OutcomeInv, ReadyInv, SlotInv,
       ResultsBelong, PendingExact, Settled, Waiting, InBatch, Attached, LiveInv, OwnedFrom
<1>3. ASSUME hpc = "start", n > N, hpc' \in {"poll", "cancel"}, hpc' = "cancel" => pending = 0, n' = 1,
             UNCHANGED <<result, err, rid, pending, batch, instVars, guestVars>>
      PROVE  IInv'
  <2>1. hpc' = "cancel" => \A q \in Queries : ~Waiting(q)
    BY <1>3, SetOfQueries DEF IInv, PendingExact
  <2>2. TypeOK' /\ PhaseInv' /\ FrontierInv' /\ OutcomeInv' /\ ReadyInv' /\ ResultsBelong'
    BY <1>3, Sizes DEF IInv, TypeOK, PhaseInv, FrontierInv, OutcomeInv, ReadyInv, ResultsBelong
  <2>3. SettledInv'
    <3>1. \A q \in Queries : q < n
      BY <1>3, Sizes DEF IInv, TypeOK
    <3>2. \A q \in Queries : Settled(q) \/ rid[q] # 0
      BY <1>3, <3>1 DEF IInv, SettledInv
    <3>3. \A q \in Queries : Settled(q)' <=> Settled(q)
      BY <1>3 DEF Settled
    <3>4. QED  BY <1>3, <2>1, <3>2, <3>3 DEF SettledInv, Waiting
  <2>4. PendingExact'
    BY <1>3 DEF IInv, PendingExact, Settled, Waiting
  <2>5. SlotInv'
    BY <1>3 DEF IInv, SlotInv, InBatch, Attached, LiveInv, OwnedFrom
  <2>6. QED  BY <2>2, <2>3, <2>4, <2>5 DEF IInv
<1>4. QED  BY <1>1, <1>2, <1>3 DEF AllocName, StartDone

\* The failures that kill the instance, and those that find it shut down.
LEMMA KillInv ==
    ASSUME IInv, ResolveTrap \/ PollFatal \/ SelectCtx \/ SelectDone \/ DispatchFails
    PROVE  IInv'
<1>1. PICK e \in Errors : failUnsettled(e)
  BY DEF ResolveTrap, PollFatal, SelectCtx, SelectDone, DispatchFails, Errors, IInv, TypeOK
<1>2. hpc \in InBatch /\ UNCHANGED guestVars /\ (kill \/ UNCHANGED instVars)
  BY DEF ResolveTrap, PollFatal, SelectCtx, SelectDone, DispatchFails, InBatch
<1>3. InstOK' /\ (mod' = "live" => mod = "live")
  <2>1. CASE kill /\ ~iclosed
    <3>1. iclosed' \in BOOLEAN /\ done' \in BOOLEAN
      BY <2>1, Zenon DEF kill
    <3>2. QED  BY <2>1, <3>1 DEF kill, IInv, TypeOK, InstOK
  <2>2. CASE UNCHANGED instVars
    BY <2>2 DEF IInv, TypeOK, InstOK
  <2>3. QED  BY <1>2, <2>1, <2>2 DEF kill
<1>4. QED  BY <1>1, <1>2, <1>3, FailInv DEF InBatch

\* resolve_start: the query gets a slot of its own, whether its callback ran
\* before it returned or is due.
LEMMA StartInv ==
    ASSUME IInv, ResolveStart
    PROVE  IInv'
<1> DEFINE s == FirstFree
           new == [id |-> nextId, slot |-> s, tag |-> <<batch, n>>]
<1>1. s \in Slots /\ ~used[s] /\ ~ready[s]
  BY FirstFreeIsFree DEF ResolveStart, IInv, ReadyInv
<1> HIDE DEF s
<1>2. n \in Queries /\ batch \in 1..MaxBatches /\ rid[n] = 0 /\ ~Settled(n) /\ mod = "live"
  BY Sizes DEF ResolveStart, CallFails, IInv, TypeOK, PhaseInv, FrontierInv
<1>3. /\ hpc = "resolve" /\ hpc' = "start" /\ n' = n + 1 /\ pending' = pending + 1
      /\ nextId' = nextId + 1 /\ UNCHANGED <<result, err, batch, instVars>>
  BY DEF ResolveStart
<1>4. /\ used' = [used EXCEPT ![s] = TRUE] /\ ubid' = [ubid EXCEPT ![s] = nextId]
      /\ rid' = [rid EXCEPT ![n] = s]
  BY DEF ResolveStart, s
<1>5. \/ live' = live \cup {new} /\ ready' = ready /\ answer' = answer
      \/ live' = live /\ ready' = [ready EXCEPT ![s] = TRUE]
         /\ answer' = [answer EXCEPT ![s] = <<batch, n>>]
  BY DEF ResolveStart, s
<1>6. new \in [id : Nat, slot : Slots, tag : Tags]
  BY <1>1, <1>2 DEF IInv, TypeOK
<1>7. PendingExact' /\ pending' \in 0..N
  <2>1. n \notin Sent /\ Sent' = Sent \cup {n}
    BY <1>1, <1>2, <1>3, <1>4, Sizes DEF Sent, Waiting, Settled, IInv, TypeOK
  <2>2. pending' = Cardinality(Sent') /\ pending' \in 0..N
    BY <1>2, <1>3, <2>1, Counting DEF IInv, PendingExact, Sent
  <2>3. QED  BY <2>2 DEF PendingExact, Sent
<1>8. TypeOK'
  <2>1. n' \in 1..(N + 1) /\ nextId' \in Nat
    BY <1>2, <1>3, Sizes DEF IInv, TypeOK
  <2>2. rid' \in [Queries -> 0..MaxSlots]
    <3>1. rid \in [Queries -> 0..MaxSlots] /\ s \in 0..MaxSlots
      BY <1>1, Sizes DEF IInv, TypeOK
    <3>2. QED  BY <1>4, <3>1
  <2>3. used' \in [Slots -> BOOLEAN] /\ ready' \in [Slots -> BOOLEAN]
    BY <1>4, <1>5 DEF IInv, TypeOK
  <2>4. ubid' \in [Slots -> Nat] /\ answer' \in [Slots -> Tags \cup {NoAnswer}]
    <3>1. ubid \in [Slots -> Nat] /\ nextId \in Nat
      BY DEF IInv, TypeOK
    <3>2. answer \in [Slots -> Tags \cup {NoAnswer}] /\ <<batch, n>> \in Tags
      BY <1>2 DEF IInv, TypeOK
    <3>3. ubid' \in [Slots -> Nat]
      BY <1>4, <3>1
    <3>4. answer' \in [Slots -> Tags \cup {NoAnswer}]
      BY <1>5, <3>2
    <3>5. QED  BY <3>3, <3>4
  <2>5. live' \subseteq [id : Nat, slot : Slots, tag : Tags]
    BY <1>5, <1>6 DEF IInv, TypeOK
  <2>6. QED  BY <1>3, <1>7, <2>1, <2>2, <2>3, <2>4, <2>5 DEF IInv, TypeOK
<1>9. PhaseInv' /\ ReadyInv' /\ ResultsBelong' /\ OutcomeInv'
  BY <1>3, <1>4, <1>5 DEF IInv, TypeOK, PhaseInv, ReadyInv, ResultsBelong, OutcomeInv
<1>10. FrontierInv' /\ SettledInv'
  BY <1>1, <1>2, <1>3, <1>4, Sizes DEF IInv, TypeOK, FrontierInv, SettledInv, Settled
<1>11. SlotInv'
  <2>1. Attached
    BY <1>2, <1>3 DEF IInv, SlotInv, InBatch
  <2>2. \A q \in Queries : rid'[q] = IF q = n THEN s ELSE rid[q]
    BY <1>4 DEF IInv, TypeOK
  <2>3. \A t \in Slots : /\ used'[t] = (used[t] \/ t = s)
                         /\ ubid'[t] = IF t = s THEN nextId ELSE ubid[t]
    BY <1>4 DEF IInv, TypeOK
  <2>4. \A t \in Slots : /\ t # s => ready'[t] = ready[t] /\ answer'[t] = answer[t]
                         /\ ready'[s] => answer'[s] = <<batch, n>>
    BY <1>1, <1>5 DEF IInv, TypeOK
  <2>5. \A q \in Queries : rid[q] # s
    BY <1>1, <2>1 DEF Attached
  <2>6. \A u \in live : u.slot \in Slots /\ u.slot # s
    BY <1>1, <2>1 DEF Attached, LiveInv, IInv, TypeOK
  <2>7. \A u \in live' : u \in live \/ u = new
    BY <1>5
  <2>8. LiveInv'
    <3>1. ASSUME NEW u \in live PROVE used'[u.slot] /\ ubid'[u.slot] = u.id
      <4>1. used[u.slot] /\ ubid[u.slot] = u.id /\ u.slot \in Slots /\ u.slot # s
        BY <2>1, <2>6 DEF Attached, LiveInv
      <4>2. QED  BY <2>3, <4>1
    <3>2. new.slot = s /\ new.id = nextId
      OBVIOUS
    <3> HIDE DEF new
    <3>3. used'[new.slot] /\ ubid'[new.slot] = new.id
      BY <1>1, <2>3, <3>2
    <3>4. QED  BY <2>7, <3>1, <3>3 DEF LiveInv
  <2>9. OwnedFrom(1)'
    <3>1. ASSUME NEW t \in Slots, used'[t] PROVE \E q \in Queries : q >= 1 /\ rid'[q] = t
      <4>1. CASE t = s
        BY <1>2, <2>2, <4>1
      <4>2. CASE t # s
        <5>1. used[t]
          BY <2>3, <3>1, <4>2
        <5>2. PICK q \in Queries : q >= 1 /\ rid[q] = t
          BY <2>1, <5>1 DEF Attached, OwnedFrom
        <5>3. q # n
          BY <1>1, <1>2, <5>2, Sizes
        <5>4. QED  BY <2>2, <5>2, <5>3
      <4>3. QED  BY <4>1, <4>2
    <3>2. QED  BY <3>1 DEF OwnedFrom
  <2>10. \A q \in Queries : rid'[q] # 0 => used'[rid'[q]]
    <3>1. ASSUME NEW q \in Queries, rid'[q] # 0 PROVE used'[rid'[q]]
      <4>1. CASE q = n
        BY <1>1, <2>2, <2>3, <4>1
      <4>2. CASE q # n
        <5>1. rid'[q] = rid[q] /\ rid[q] # 0 /\ used[rid[q]]
          BY <2>1, <2>2, <3>1, <4>2 DEF Attached
        <5>2. rid[q] \in 0..MaxSlots
          BY DEF IInv, TypeOK
        <5>3. rid[q] \in Slots
          BY <5>1, <5>2, Sizes
        <5>4. QED  BY <2>3, <5>1, <5>3
      <4>3. QED  BY <4>1, <4>2
    <3>2. QED  BY <3>1
  <2>11. \A q, r \in Queries : rid'[q] # 0 /\ rid'[q] = rid'[r] => q = r
    BY <2>1, <2>2, <2>5 DEF Attached
  <2>12. \A u \in live' : \E q \in Queries : rid'[q] = u.slot /\ u.tag = <<batch', q>>
    <3>1. ASSUME NEW u \in live
          PROVE  \E q \in Queries : rid'[q] = u.slot /\ u.tag = <<batch', q>>
      <4>1. PICK q \in Queries : rid[q] = u.slot /\ u.tag = <<batch, q>>
        BY <2>1, <3>1 DEF Attached
      <4>2. u.slot \in Slots
        BY <2>6, <3>1
      <4>3. q # n
        BY <1>2, <4>1, <4>2, Sizes
      <4>4. rid'[q] = u.slot /\ batch' = batch
        BY <1>3, <2>2, <4>1, <4>3
      <4>5. QED  BY <4>1, <4>4
    <3>2. rid'[n] = new.slot /\ new.tag = <<batch', n>>
      BY <1>2, <1>3, <2>2
    <3>3. QED  BY <1>2, <2>7, <3>1, <3>2
  <2>13. \A q \in Queries : rid'[q] # 0 /\ ready'[rid'[q]] => answer'[rid'[q]] = <<batch', q>>
    BY <1>1, <1>3, <2>1, <2>2, <2>4, <2>5 DEF Attached, IInv, TypeOK
  <2>14. Attached'
    BY <2>8, <2>9, <2>10, <2>11, <2>12, <2>13 DEF Attached
  <2>15. QED  BY <1>3, <2>14 DEF SlotInv
<1>12. QED  BY <1>7, <1>8, <1>9, <1>10, <1>11 DEF IInv

\* The loop over the results passes a query.
LEMMA PollInv ==
    ASSUME IInv, PollSkip \/ PollResult
    PROVE  IInv'
<1>1. /\ hpc = "poll" /\ n \in Queries /\ hpc' = "poll" /\ n' = n + 1
      /\ UNCHANGED <<rid, batch, instVars, guestVars>>
  BY Sizes DEF PollSkip, PollResult, IInv, TypeOK
<1>2. \/ UNCHANGED <<result, err, pending>>
      \/ /\ Waiting(n) /\ pending' = pending - 1 /\ err' = err
         /\ result' = [result EXCEPT ![n] = <<batch, n>>]
      \/ /\ Waiting(n) /\ pending' = pending - 1 /\ result' = result
         /\ \E e \in Errors : err' = [err EXCEPT ![n] = e]
  <2>1. CASE PollResult
    <3>1. mod = "live" /\ Waiting(n)
      BY <2>1 DEF PollResult, CallFails
    <3>2. Attached
      BY <1>1, <3>1 DEF IInv, SlotInv, InBatch
    <3>3. result_get(rid[n]) = "ready" => answer[rid[n]] = <<batch, n>>
      BY <1>1, <3>1, <3>2 DEF Attached, result_get, Waiting
    <3>4. (\E e \in Errors : err' = [err EXCEPT ![n] = e]) \/ err' = err
      BY <2>1 DEF PollResult, Errors
    <3>5. QED  BY <2>1, <3>1, <3>3, <3>4 DEF PollResult, Errors
  <2>2. QED  BY <2>1 DEF PollSkip
<1>3. batch \in 1..MaxBatches
  BY <1>1, Sizes DEF IInv, TypeOK, PhaseInv
<1>4. Waiting(n) => result[n] = NoAnswer /\ err[n] = "none"
  BY DEF Waiting, Settled
<1>5. PendingExact' /\ pending' \in 0..N
  <2>1. \/ pending' = pending /\ Sent' = Sent
        \/ n \in Sent /\ Sent' = Sent \ {n} /\ pending' = pending - 1
    <3>1. CASE UNCHANGED <<result, err, pending>>
      BY <1>1, <3>1 DEF Sent, Waiting, Settled
    <3>2. ASSUME Waiting(n), pending' = pending - 1, result'[n] # NoAnswer \/ err'[n] # "none",
                 \A q \in Queries : q # n => result'[q] = result[q] /\ err'[q] = err[q]
          PROVE  n \in Sent /\ Sent' = Sent \ {n} /\ pending' = pending - 1
      <4>1. n \in Sent /\ n \notin Sent'
        BY <1>1, <3>2 DEF Sent, Waiting, Settled
      <4>2. \A q \in Queries : q # n => (q \in Sent <=> q \in Sent')
        BY <1>1, <3>2 DEF Sent, Waiting, Settled
      <4>3. Sent \subseteq Queries /\ Sent' \subseteq Queries
        BY DEF Sent
      <4>4. QED  BY <3>2, <4>1, <4>2, <4>3
    <3>3. CASE /\ Waiting(n) /\ pending' = pending - 1 /\ err' = err
               /\ result' = [result EXCEPT ![n] = <<batch, n>>]
      <4>1. result'[n] # NoAnswer /\ \A q \in Queries : q # n => result'[q] = result[q]
        BY <1>1, <1>3, <3>3 DEF IInv, TypeOK
      <4>2. QED  BY <3>2, <3>3, <4>1
    <3>4. CASE /\ Waiting(n) /\ pending' = pending - 1 /\ result' = result
               /\ \E e \in Errors : err' = [err EXCEPT ![n] = e]
      <4>1. err'[n] # "none" /\ \A q \in Queries : q # n => err'[q] = err[q]
        BY <1>1, <3>4 DEF IInv, TypeOK, Errors
      <4>2. QED  BY <3>2, <3>4, <4>1
    <3>5. QED  BY <1>2, <3>1, <3>3, <3>4
  <2>2. pending' = Cardinality(Sent') /\ pending' \in 0..N
    BY <1>1, <2>1, Counting DEF IInv, PendingExact, Sent
  <2>3. QED  BY <2>2 DEF PendingExact, Sent
<1>6. TypeOK'
  <2>1. n' \in 1..(N + 1)
    BY <1>1, Sizes
  <2>2. result' \in [Queries -> Tags \cup {NoAnswer}]
    BY <1>1, <1>2, <1>3 DEF IInv, TypeOK
  <2>3. err' \in [Queries -> {"none"} \cup Errors]
    BY <1>1, <1>2 DEF IInv, TypeOK, Errors
  <2>4. QED  BY <1>1, <1>5, <2>1, <2>2, <2>3 DEF IInv, TypeOK, Errors
<1>7. PhaseInv' /\ FrontierInv' /\ ReadyInv'
  BY <1>1 DEF IInv, PhaseInv, FrontierInv, ReadyInv
<1>8. ResultsBelong' /\ OutcomeInv' /\ SettledInv'
  BY <1>1, <1>2, <1>3, <1>4 DEF IInv, TypeOK, ResultsBelong, OutcomeInv, SettledInv, Settled, Errors
<1>9. SlotInv'
  BY <1>1 DEF IInv, SlotInv, InBatch, Attached, LiveInv, OwnedFrom
<1>10. QED  BY <1>5, <1>6, <1>7, <1>8, <1>9 DEF IInv

\* The end of a pass over the results, which ends the loop when none is awaited.
LEMMA PollEndInv ==
    ASSUME IInv, PollEnd
    PROVE  IInv'
<1>1. /\ hpc = "poll" /\ hpc' \in {"cancel", "select"} /\ (hpc' = "cancel" => pending = 0) /\ n' = 1
      /\ UNCHANGED <<result, err, rid, pending, batch, instVars, guestVars>>
  BY DEF PollEnd
<1>2. TypeOK' /\ PhaseInv' /\ FrontierInv' /\ OutcomeInv' /\ ReadyInv' /\ ResultsBelong'
  BY <1>1, Sizes DEF IInv, TypeOK, PhaseInv, FrontierInv, OutcomeInv, ReadyInv, ResultsBelong
<1>3. PendingExact'
  BY <1>1 DEF IInv, PendingExact, Settled, Waiting
<1>4. SettledInv'
  <2>1. hpc' = "cancel" => \A q \in Queries : ~Waiting(q)
    BY <1>1, SetOfQueries DEF IInv, PendingExact
  <2>2. \A q \in Queries : Settled(q) \/ rid[q] # 0
    BY <1>1 DEF IInv, SettledInv
  <2>3. QED  BY <1>1, <2>1, <2>2 DEF SettledInv, Waiting, Settled
<1>5. SlotInv'
  BY <1>1 DEF IInv, SlotInv, InBatch, Attached, LiveInv, OwnedFrom
<1>6. QED  BY <1>2, <1>3, <1>4, <1>5 DEF IInv

\* Callbacks run: each finds the slot of its own query, and fills no other.
LEMMA EventInv ==
    ASSUME IInv, SelectEvent
    PROVE  IInv'
<1>1. /\ hpc = "select" /\ hpc' = "poll" /\ n' = 1 /\ mod = "live"
      /\ UNCHANGED <<result, err, rid, pending, batch, instVars>>
  BY DEF SelectEvent, CallFails
<1>2. PICK U \in SUBSET live : callback(U)
  BY DEF SelectEvent
<1>3. Attached
  BY <1>1 DEF IInv, SlotInv, InBatch
<1>4. live \subseteq [id : Nat, slot : Slots, tag : Tags]
  BY DEF IInv, TypeOK
<1>5. /\ used' = used /\ nextId' = nextId /\ live' = live \ U
      /\ ready' = [s \in Slots |-> ready[s] \/ \E u \in U : u.slot = s /\ used[s]]
      /\ answer' = [s \in Slots |-> IF used[s] /\ \E u \in U : u.slot = s
                                    THEN (CHOOSE u \in U : u.slot = s).tag ELSE answer[s]]
      /\ ubid' = [s \in Slots |-> IF \E u \in U : u.slot = s THEN 0 ELSE ubid[s]]
  BY <1>2 DEF callback
<1>6. \A s \in Slots : (\E u \in U : u.slot = s) =>
          (CHOOSE u \in U : u.slot = s) \in U /\ (CHOOSE u \in U : u.slot = s).slot = s
  OBVIOUS
<1>7. TypeOK'
  <2>1. ready' \in [Slots -> BOOLEAN]
    <3>1. ready \in [Slots -> BOOLEAN]
      BY DEF IInv, TypeOK
    <3>2. \A s \in Slots : (ready[s] \/ \E u \in U : u.slot = s /\ used[s]) \in BOOLEAN
      BY <3>1, Zenon
    <3>3. QED  BY <1>5, <3>2, Zenon
  <2>2. answer' \in [Slots -> Tags \cup {NoAnswer}]
    <3>1. answer \in [Slots -> Tags \cup {NoAnswer}]
      BY DEF IInv, TypeOK
    <3>2. \A u \in U : u.tag \in Tags
      BY <1>2, <1>4
    <3>3. QED  BY <1>5, <1>6, <3>1, <3>2
  <2>3. ubid' \in [Slots -> Nat]
    <3>1. ubid \in [Slots -> Nat]
      BY DEF IInv, TypeOK
    <3>2. QED  BY <1>5, <3>1
  <2>4. QED  BY <1>1, <1>4, <1>5, <2>1, <2>2, <2>3, Sizes DEF IInv, TypeOK
<1>8. PhaseInv' /\ FrontierInv' /\ SettledInv' /\ OutcomeInv' /\ ResultsBelong'
  BY <1>1 DEF IInv, PhaseInv, FrontierInv, SettledInv, OutcomeInv, ResultsBelong, Settled
<1>9. PendingExact'
  BY <1>1 DEF IInv, PendingExact, Settled, Waiting
<1>10. ReadyInv'
  BY <1>5 DEF IInv, ReadyInv
<1>11. SlotInv'
  <2>1. LiveInv'
    <3>1. ASSUME NEW u \in live' PROVE used'[u.slot] /\ ubid'[u.slot] = u.id
      <4>1. u \in live /\ u \notin U /\ u.slot \in Slots
        BY <1>4, <1>5
      <4>2. used[u.slot] /\ ubid[u.slot] = u.id
        BY <1>3, <4>1 DEF Attached, LiveInv
      <4>3. ASSUME NEW v \in U PROVE v.slot # u.slot
        <5>1. SUFFICES ASSUME v.slot = u.slot PROVE FALSE
          OBVIOUS
        <5>2. v \in live /\ v.id = u.id
          BY <1>2, <1>3, <4>2, <5>1 DEF Attached, LiveInv
        <5>3. PICK p \in Queries : rid[p] = u.slot /\ u.tag = <<batch, p>>
          BY <1>3, <4>1 DEF Attached
        <5>4. PICK q \in Queries : rid[q] = v.slot /\ v.tag = <<batch, q>>
          BY <1>3, <5>2 DEF Attached
        <5>5. p = q
          <6>1. rid[p] # 0
            BY <4>1, <5>3, Sizes
          <6>2. QED  BY <1>3, <5>1, <5>3, <5>4, <6>1 DEF Attached
        <5>6. u = v
          BY <1>4, <4>1, <5>1, <5>2, <5>3, <5>4, <5>5
        <5>7. QED  BY <4>1, <5>6
      <4>4. ubid'[u.slot] = ubid[u.slot]
        BY <1>5, <4>1, <4>3
      <4>5. QED  BY <1>5, <4>2, <4>4
    <3>2. QED  BY <3>1 DEF LiveInv
  <2>2. OwnedFrom(1)'
    BY <1>1, <1>3, <1>5 DEF Attached, OwnedFrom
  <2>3. ASSUME NEW q \in Queries, rid[q] # 0, ready'[rid[q]] PROVE answer'[rid[q]] = <<batch, q>>
    <3>1. rid[q] \in Slots /\ used[rid[q]]
      <4>1. rid[q] \in 0..MaxSlots
        BY DEF IInv, TypeOK
      <4>2. QED  BY <1>3, <2>3, <4>1, Sizes DEF Attached
    <3>2. CASE \E u \in U : u.slot = rid[q]
      <4>1. PICK u \in U : u.slot = rid[q] /\ answer'[rid[q]] = u.tag
        BY <1>5, <1>6, <3>1, <3>2
      <4>2. PICK p \in Queries : rid[p] = u.slot /\ u.tag = <<batch, p>>
        BY <1>2, <1>3 DEF Attached
      <4>3. p = q
        BY <1>3, <2>3, <4>1, <4>2 DEF Attached
      <4>4. QED  BY <4>1, <4>2, <4>3
    <3>3. CASE ~\E u \in U : u.slot = rid[q]
      <4>1. ready[rid[q]] /\ answer'[rid[q]] = answer[rid[q]]
        BY <1>5, <2>3, <3>1, <3>3
      <4>2. QED  BY <1>3, <2>3, <4>1 DEF Attached
    <3>4. QED  BY <3>2, <3>3
  <2>4. \A u \in live' : \E q \in Queries : rid'[q] = u.slot /\ u.tag = <<batch', q>>
    BY <1>1, <1>3, <1>5 DEF Attached
  <2>5. /\ \A q \in Queries : rid'[q] # 0 => used'[rid'[q]]
        /\ \A p, q \in Queries : rid'[p] # 0 /\ rid'[p] = rid'[q] => p = q
    BY <1>1, <1>3, <1>5 DEF Attached
  <2>6. \A q \in Queries : rid'[q] # 0 /\ ready'[rid'[q]] => answer'[rid'[q]] = <<batch', q>>
    BY <1>1, <2>3
  <2>7. Attached'
    BY <2>1, <2>2, <2>4, <2>5, <2>6 DEF Attached
  <2>8. QED  BY <1>1, <2>7 DEF SlotInv
<1>12. QED  BY <1>7, <1>8, <1>9, <1>10, <1>11 DEF IInv

\* The deferred cancels free the slots, one query after the other, and take the
\* queries that hold them out of libunbound.
LEMMA CancelInv ==
    ASSUME IInv, Cancel
    PROVE  IInv'
<1>1. /\ hpc = "cancel" /\ hpc' = "cancel" /\ n \in Queries /\ n' = n + 1
      /\ UNCHANGED <<result, err, rid, pending, batch, instVars>>
  BY Sizes DEF Cancel, IInv, TypeOK
<1>2. rid \in [Queries -> 0..MaxSlots]
  BY DEF IInv, TypeOK
<1>3. \/ UNCHANGED guestVars /\ (mod = "live" /\ ~iclosed => rid[n] = 0)
      \/ rid[n] \in Slots /\ resolve_cancel(rid[n]) /\ mod = "live" /\ ~iclosed
  BY <1>1, <1>2, Sizes DEF Cancel
<1>4. PhaseInv' /\ FrontierInv' /\ SettledInv' /\ OutcomeInv' /\ ResultsBelong' /\ PendingExact'
  BY <1>1 DEF IInv, PhaseInv, FrontierInv, SettledInv, OutcomeInv, ResultsBelong, PendingExact, Settled
<1>5. n' \in 1..(N + 1)
  BY <1>1, Sizes
<1>6. CASE UNCHANGED guestVars /\ (mod = "live" /\ ~iclosed => rid[n] = 0)
  <2>1. TypeOK' /\ ReadyInv'
    BY <1>1, <1>5, <1>6 DEF IInv, TypeOK, ReadyInv
  <2>2. SlotInv'
    <3>1. SUFFICES ASSUME mod = "live", ~iclosed PROVE LiveInv' /\ OwnedFrom(n)'
      BY <1>1 DEF SlotInv, InBatch
    <3>2. LiveInv /\ OwnedFrom(n) /\ rid[n] = 0
      BY <1>1, <1>6, <3>1 DEF IInv, SlotInv
    <3>3. LiveInv'
      BY <1>6, <3>2 DEF LiveInv
    <3>4. ASSUME NEW s \in Slots, used'[s] PROVE \E q \in Queries : q >= n' /\ rid'[q] = s
      <4>1. PICK q \in Queries : q >= n /\ rid[q] = s
        BY <1>6, <3>2, <3>4 DEF OwnedFrom
      <4>2. q # n
        BY <3>2, <4>1, Sizes
      <4>3. q >= n'
        BY <1>1, <4>1, <4>2, Sizes
      <4>4. QED  BY <1>1, <4>1, <4>3
    <3>5. QED  BY <3>3, <3>4 DEF OwnedFrom
  <2>3. QED  BY <1>4, <2>1, <2>2 DEF IInv
<1>7. CASE rid[n] \in Slots /\ resolve_cancel(rid[n]) /\ mod = "live" /\ ~iclosed
  <2> DEFINE s == rid[n]
  <2>1. /\ live' = IF used[s] THEN {u \in live : u.id # ubid[s]} ELSE live
        /\ used' = [used EXCEPT ![s] = FALSE] /\ ready' = [ready EXCEPT ![s] = FALSE]
        /\ ubid' = [ubid EXCEPT ![s] = 0] /\ answer' = [answer EXCEPT ![s] = NoAnswer]
        /\ nextId' = nextId
    BY <1>7 DEF resolve_cancel
  <2>2. s \in Slots /\ n \in Queries /\ s = rid[n]
    BY <1>1, <1>7
  <2> HIDE DEF s
  <2>3. /\ used \in [Slots -> BOOLEAN] /\ ready \in [Slots -> BOOLEAN] /\ ubid \in [Slots -> Nat]
        /\ answer \in [Slots -> Tags \cup {NoAnswer}]
    BY DEF IInv, TypeOK
  <2>4. TypeOK'
    <3>1. used' \in [Slots -> BOOLEAN] /\ ready' \in [Slots -> BOOLEAN]
      BY <2>1, <2>3
    <3>2. ubid' \in [Slots -> Nat] /\ answer' \in [Slots -> Tags \cup {NoAnswer}]
      BY <2>1, <2>3
    <3>3. live' \subseteq [id : Nat, slot : Slots, tag : Tags]
      BY <2>1 DEF IInv, TypeOK
    <3>4. QED  BY <1>1, <1>5, <2>1, <3>1, <3>2, <3>3 DEF IInv, TypeOK
  <2>5. ReadyInv'
    BY <2>1, <2>3 DEF IInv, ReadyInv
  <2>6. LiveInv /\ OwnedFrom(n)
    BY <1>1, <1>7 DEF IInv, SlotInv
  <2>7. LiveInv'
    <3>1. ASSUME NEW u \in live' PROVE used'[u.slot] /\ ubid'[u.slot] = u.id
      <4>1. u \in live /\ (used[s] => u.id # ubid[s])
        BY <2>1
      <4>2. u.slot \in Slots
        BY <4>1 DEF IInv, TypeOK
      <4>3. used[u.slot] /\ ubid[u.slot] = u.id
        BY <2>6, <4>1 DEF LiveInv
      <4>4. u.slot # s
        BY <4>1, <4>3
      <4>5. QED  BY <2>1, <2>3, <4>2, <4>3, <4>4
    <3>2. QED  BY <3>1 DEF LiveInv
  <2>8. OwnedFrom(n)'
    <3>1. ASSUME NEW t \in Slots, used'[t] PROVE \E q \in Queries : q >= n' /\ rid'[q] = t
      <4>1. t # s /\ used[t]
        BY <2>1, <2>3, <3>1
      <4>2. PICK q \in Queries : q >= n /\ rid[q] = t
        BY <2>6, <4>1 DEF OwnedFrom
      <4>3. q # n
        BY <2>2, <4>1, <4>2
      <4>4. q >= n'
        BY <1>1, <4>2, <4>3, Sizes
      <4>5. QED  BY <1>1, <4>2, <4>4
    <3>2. QED  BY <3>1 DEF OwnedFrom
  <2>9. SlotInv'
    BY <1>1, <2>7, <2>8 DEF SlotInv, InBatch
  <2>10. QED  BY <1>4, <2>4, <2>5, <2>9 DEF IInv
<1>8. QED  BY <1>3, <1>6, <1>7

\* The return: no query is left to own a slot.
LEMMA ReturnInv ==
    ASSUME IInv, Return
    PROVE  IInv'
<1>1. /\ hpc = "cancel" /\ n > N /\ hpc' = "idle"
      /\ UNCHANGED <<n, result, err, rid, pending, batch, instVars, guestVars>>
  BY DEF Return
<1>2. /\ TypeOK' /\ PhaseInv' /\ FrontierInv' /\ SettledInv' /\ OutcomeInv' /\ ReadyInv'
      /\ ResultsBelong' /\ PendingExact'
  BY <1>1 DEF IInv, TypeOK, PhaseInv, FrontierInv, SettledInv, OutcomeInv, ReadyInv, ResultsBelong,
       PendingExact
<1>3. SlotInv'
  <2>1. SUFFICES ASSUME mod = "live", ~iclosed PROVE live = {} /\ \A s \in Slots : ~used[s]
    BY <1>1 DEF SlotInv, InBatch
  <2>2. LiveInv /\ OwnedFrom(n)
    BY <1>1, <2>1 DEF IInv, SlotInv
  <2>3. \A q \in Queries : ~(q >= n)
    BY <1>1, Sizes DEF IInv, TypeOK
  <2>4. \A s \in Slots : ~used[s]
    BY <2>2, <2>3 DEF OwnedFrom
  <2>5. \A u \in live : u.slot \in Slots
    BY DEF IInv, TypeOK
  <2>6. QED  BY <2>2, <2>4, <2>5 DEF LiveInv
<1>4. QED  BY <1>2, <1>3 DEF IInv

\* What happens to the instance meanwhile touches neither the batch nor the guest,
\* and brings no module back.
LEMMA MeanwhileInv ==
    ASSUME IInv, \/ CtxEnds \/ CloseElsewhere \/ RuntimeClose \/ ModuleCloses \/ Overflow
                 \/ UNCHANGED vars
    PROVE  IInv'
<1>1. UNCHANGED <<hostVars, guestVars>>
  BY DEF CtxEnds, CloseElsewhere, RuntimeClose, ModuleCloses, Overflow, vars
<1>2. (mod' = "live" => mod = "live") /\ (~iclosed' => ~iclosed)
  <2>1. CASE CtxEnds \/ RuntimeClose \/ ModuleCloses \/ Overflow \/ UNCHANGED vars
    BY <2>1 DEF CtxEnds, RuntimeClose, ModuleCloses, Overflow, vars
  <2>2. CASE CloseElsewhere
    BY <2>2, Zenon DEF CloseElsewhere
  <2>3. QED  BY <2>1, <2>2
<1>3. InstOK'
  <2>1. InstOK
    BY DEF IInv, TypeOK, InstOK
  <2>2. CASE CtxEnds
    BY <2>1, <2>2, Zenon DEF CtxEnds, InstOK
  <2>3. CASE CloseElsewhere
    BY <2>1, <2>3, Zenon DEF CloseElsewhere, InstOK
  <2>4. CASE RuntimeClose
    BY <2>1, <2>4, Zenon DEF RuntimeClose, InstOK
  <2>5. CASE ModuleCloses
    BY <2>1, <2>5, Zenon DEF ModuleCloses, InstOK
  <2>6. CASE Overflow
    BY <2>1, <2>6, Zenon DEF Overflow, InstOK
  <2>7. CASE UNCHANGED vars
    BY <2>1, <2>7 DEF vars, InstOK
  <2>8. QED  BY <2>2, <2>3, <2>4, <2>5, <2>6, <2>7
<1>4. TypeOK'
  BY <1>1, <1>3 DEF IInv, TypeOK, InstOK
<1>5. /\ PhaseInv' /\ FrontierInv' /\ SettledInv' /\ OutcomeInv' /\ ReadyInv' /\ ResultsBelong'
      /\ PendingExact'
  BY <1>1 DEF IInv, PhaseInv, FrontierInv, SettledInv, OutcomeInv, ReadyInv, ResultsBelong,
       PendingExact, Settled, Waiting
<1>6. SlotInv'
  BY <1>1, <1>2 DEF IInv, SlotInv, Attached, LiveInv, OwnedFrom
<1>7. QED  BY <1>4, <1>5, <1>6 DEF IInv

\* Every step of the batch, of the guest and of the instance keeps the invariant.
LEMMA NextInv == IInv /\ [Next]_vars => IInv'
  BY EntryInv, RefusedInv, AllocInv, KillInv, StartInv, PollInv, PollEndInv, EventInv, CancelInv,
     ReturnInv, MeanwhileInv DEF Next, ResolveAll

-----------------------------------------------------------------------------
(***************************************************************************)
(* The theorems.                                                           *)
(***************************************************************************)
\* The inductive invariant holds of every behaviour of ResolveAll.
THEOREM Inductive == Spec => []IInv
  BY InitInv, NextInv, PTL DEF Spec

\* Every variable keeps its type, so pending never goes below zero and a result
\* identifier always names a slot of the guest's table.
THEOREM TypeCorrect == Spec => []TypeOK
<1>1. IInv => TypeOK
  BY DEF IInv
<1>2. QED  BY <1>1, Inductive, PTL

\* pending counts the started queries that have not settled: ResolveAll neither
\* returns before the last answer nor waits for one that came.
THEOREM PendingIsExact == Spec => []PendingExact
<1>1. IInv => PendingExact
  BY DEF IInv
<1>2. QED  BY <1>1, Inductive, PTL

\* ResolveAll never returns for one query the answer to another, nor to a query of
\* an earlier batch that had the same slot.
THEOREM ResultsBelongToQueries == Spec => []ResultsBelong
<1>1. IInv => ResultsBelong
  BY DEF IInv
<1>2. QED  BY <1>1, Inductive, PTL

\* The deferred cancels leave a usable instance with no slot taken and no query
\* that could still call back.
THEOREM SlotsAreFreed == Spec => []SlotsFreed
<1>1. IInv => SlotsFreed
  BY DEF IInv, SlotInv, SlotsFreed
<1>2. QED  BY <1>1, Inductive, PTL

-----------------------------------------------------------------------------
(***************************************************************************)
(* ResolveBatch implements BatchSpec.                                      *)
(***************************************************************************)
Outcomes == [q \in Queries |-> Outcome(q)]
Active   == hpc # "idle"

\* A step between whose ends no result and no error changes, and which neither
\* enters nor leaves ResolveAll, is not visible in BatchSpec.
LEMMA StutterStep ==
    ASSUME UNCHANGED <<result, err>>, Active' <=> Active
    PROVE  UNCHANGED <<Active, Outcomes>>
<1>1. Outcomes' = Outcomes
  BY DEF Outcomes, Outcome
<1>2. Active' = Active
  BY DEF Active
<1>3. QED  BY <1>1, <1>2

\* failUnsettled is FailRest, or does nothing if every query has settled.
LEMMA FailStep ==
    ASSUME IInv, hpc # "idle", NEW e \in Errors, failUnsettled(e)
    PROVE  Batch!FailRest \/ UNCHANGED <<Active, Outcomes>>
<1>1. /\ err' = [q \in Queries |-> IF Settled(q) THEN err[q] ELSE e]
      /\ result' = result /\ hpc' = "cancel"
  BY DEF failUnsettled
<1>2. Active' = Active /\ Active
  BY <1>1 DEF Active
<1>3. \A q \in Queries : Outcome(q) = "none" <=> ~Settled(q)
  BY DEF Outcome, Settled
<1>4. ASSUME NEW q \in Queries
      PROVE  Outcomes'[q] = IF Settled(q) THEN Outcomes[q] ELSE "error"
  <2>1. Outcomes'[q] = Outcome(q)' /\ Outcomes[q] = Outcome(q)
    BY DEF Outcomes
  <2>2. CASE Settled(q)
    <3>1. result'[q] = result[q] /\ err'[q] = err[q]
      BY <1>1, <2>2
    <3>2. QED  BY <2>1, <2>2, <3>1 DEF Outcome
  <2>3. CASE ~Settled(q)
    <3>1. result'[q] = NoAnswer /\ err'[q] # "none"
      BY <1>1, <2>3 DEF Settled, Errors
    <3>2. QED  BY <2>1, <2>3, <3>1 DEF Outcome
  <2>4. QED  BY <2>2, <2>3
<1>5. Outcomes' = [q \in Queries |-> IF Settled(q) THEN Outcomes[q] ELSE "error"]
  BY <1>4 DEF Outcomes
<1>6. Outcomes = [q \in Queries |-> Outcomes[q]] /\ \A q \in Queries : Outcomes[q] = Outcome(q)
  BY DEF Outcomes
<1>7. Batch!Unsettled = {q \in Queries : ~Settled(q)}
  BY <1>3, <1>6 DEF Batch!Unsettled, Outcomes
<1>8. CASE \A q \in Queries : Settled(q)
  BY <1>2, <1>5, <1>6, <1>8
<1>9. CASE \E q \in Queries : ~Settled(q)
  <2>1. Batch!Unsettled # {}
    BY <1>7, <1>9
  <2>2. Outcomes' = [q \in Queries |-> IF q \in Batch!Unsettled THEN "error" ELSE Outcomes[q]]
    BY <1>5, <1>7
  <2>3. QED  BY <1>2, <2>1, <2>2 DEF Batch!FailRest, Outcomes, Active
<1>10. QED  BY <1>8, <1>9

\* A query that had no outcome and gets a result or an error is settled.
LEMMA SettleStep ==
    ASSUME IInv, NEW q \in Queries, hpc # "idle", hpc' # "idle", ~Settled(q),
           \/ err' = err /\ \E a \in Tags : result' = [result EXCEPT ![q] = a]
           \/ result' = result /\ \E e \in Errors : err' = [err EXCEPT ![q] = e]
    PROVE  Batch!Settle(q)
<1>1. Active' = Active /\ Active
  BY DEF Active
<1>2. result[q] = NoAnswer /\ err[q] = "none"
  BY DEF Settled
<1>3. NoAnswer \notin Tags
  BY Sizes
<1>4. PICK o \in {"result", "error"} : Outcome(q)' = o
  <2>1. CASE err' = err /\ \E a \in Tags : result' = [result EXCEPT ![q] = a]
    <3>1. result'[q] # NoAnswer /\ err'[q] = "none"
      BY <1>2, <1>3, <2>1 DEF IInv, TypeOK
    <3>2. QED  BY <3>1 DEF Outcome
  <2>2. CASE result' = result /\ \E e \in Errors : err' = [err EXCEPT ![q] = e]
    <3>1. result'[q] = NoAnswer /\ err'[q] # "none"
      BY <1>2, <2>2 DEF IInv, TypeOK, Errors
    <3>2. QED  BY <3>1 DEF Outcome
  <2>3. QED  BY <2>1, <2>2
<1>5. ASSUME NEW p \in Queries, p # q PROVE Outcome(p)' = Outcome(p)
  <2>1. result'[p] = result[p] /\ err'[p] = err[p]
    BY <1>5 DEF IInv, TypeOK
  <2>2. QED  BY <2>1 DEF Outcome
<1>6. Outcomes' = [Outcomes EXCEPT ![q] = o]
  BY <1>4, <1>5 DEF Outcomes
<1>7. q \in Batch!Unsettled
  BY <1>2 DEF Batch!Unsettled, Outcome
<1>8. QED  BY <1>1, <1>6, <1>7 DEF Batch!Settle, Outcomes, Active

\* A started query polls to an answer or to an error, or still waits.
LEMMA PollStep ==
    ASSUME IInv, PollSkip \/ PollResult
    PROVE  UNCHANGED <<Active, Outcomes>> \/ Batch!Settle(n)
<1>1. n \in Queries /\ hpc = "poll" /\ hpc' = "poll"
  BY Sizes DEF PollSkip, PollResult, IInv, TypeOK
<1>2. CASE UNCHANGED <<result, err>>
  BY <1>1, <1>2, StutterStep DEF Active
<1>3. CASE ~UNCHANGED <<result, err>>
  <2>1. PollResult /\ ~Settled(n) /\ mod = "live" /\ rid[n] # 0
    BY <1>3 DEF PollSkip, PollResult, Waiting, CallFails
  <2>2. Attached
    BY <1>1, <2>1 DEF IInv, SlotInv, InBatch
  <2>3. result_get(rid[n]) = "ready" => answer[rid[n]] \in Tags
    <3>1. SUFFICES ASSUME result_get(rid[n]) = "ready" PROVE <<batch, n>> \in Tags
      BY <1>1, <2>1, <2>2 DEF Attached, result_get
    <3>2. batch \in 1..MaxBatches
      BY <1>1, Sizes DEF IInv, TypeOK, PhaseInv
    <3>3. QED  BY <1>1, <3>2
  <2>4. \/ err' = err /\ \E a \in Tags : result' = [result EXCEPT ![n] = a]
        \/ result' = result /\ \E e \in Errors : err' = [err EXCEPT ![n] = e]
    BY <1>3, <2>1, <2>3 DEF PollResult, Errors
  <2>5. QED  BY <1>1, <2>1, <2>4, SettleStep
<1>4. QED  BY <1>2, <1>3

\* Every step of ResolveBatch is a step of BatchSpec or is not visible in it.
LEMMA RefinedStep == IInv /\ [Next]_vars => [Batch!Next]_<<Active, Outcomes>>
<1> SUFFICES ASSUME IInv, [Next]_vars PROVE Batch!Next \/ UNCHANGED <<Active, Outcomes>>
  OBVIOUS
<1>1. CASE Begin
  <2>1. ~Active /\ Active' = TRUE
    BY <1>1 DEF Begin, Active
  <2>2. Outcomes' = [q \in Queries |-> "none"]
    BY <1>1 DEF Begin, Outcomes, Outcome
  <2>3. QED  BY <2>1, <2>2 DEF Batch!Next, Batch!Begin, Active, Outcomes
<1>2. CASE Return
  <2>1. Active /\ Active' = FALSE
    BY <1>2 DEF Return, Active
  <2>2. Outcomes' = Outcomes
    BY <1>2 DEF Return, Outcomes, Outcome
  <2>3. Batch!Unsettled = {}
    <3>1. \A q \in Queries : Settled(q)
      BY <1>2 DEF Return, IInv, SettledInv
    <3>2. \A q \in Queries : Outcome(q) # "none"
      BY <3>1 DEF Outcome, Settled
    <3>3. QED  BY <3>2 DEF Batch!Unsettled
  <2>4. QED  BY <2>1, <2>2, <2>3 DEF Batch!Next, Batch!Return, Active, Outcomes
<1>3. ASSUME NEW e \in Errors, failUnsettled(e), hpc # "idle"
      PROVE  Batch!Next \/ UNCHANGED <<Active, Outcomes>>
  BY <1>3, FailStep DEF Batch!Next
<1>4. CASE Enter \/ AllocName \/ StartDone
  <2>1. hpc # "idle" /\ hpc' # "idle" /\ (UNCHANGED <<result, err>> \/ \E e \in Errors : failUnsettled(e))
    BY <1>4 DEF Enter, AllocName, StartDone, Errors, failUnsettled
  <2>2. QED  BY <1>3, <2>1, StutterStep DEF Active
<1>5. CASE ResolveTrap \/ PollFatal \/ SelectCtx \/ SelectDone \/ DispatchFails
  <2>1. hpc # "idle" /\ \E e \in Errors : failUnsettled(e)
    BY <1>5 DEF ResolveTrap, PollFatal, SelectCtx, SelectDone, DispatchFails, Errors, IInv, TypeOK
  <2>2. QED  BY <1>3, <2>1
<1>6. CASE BadName \/ ResolveRefused
  <2>1. n \in Queries /\ ~Settled(n) /\ hpc # "idle" /\ hpc' # "idle"
    BY <1>6, Sizes DEF BadName, ResolveRefused, IInv, TypeOK, PhaseInv, FrontierInv
  <2>2. result' = result /\ \E e \in Errors : err' = [err EXCEPT ![n] = e]
    BY <1>6 DEF BadName, ResolveRefused, Errors
  <2>3. QED  BY <2>1, <2>2, SettleStep DEF Batch!Next
<1>7. CASE PollSkip \/ PollResult
  <2>1. n \in Queries
    BY <1>7, Sizes DEF PollSkip, PollResult, IInv, TypeOK
  <2>2. QED  BY <1>7, <2>1, PollStep DEF Batch!Next
<1>8. CASE \/ ResolveStart \/ PollEnd \/ SelectEvent \/ Cancel
           \/ CtxEnds \/ CloseElsewhere \/ RuntimeClose \/ ModuleCloses \/ Overflow \/ UNCHANGED vars
  <2>1. UNCHANGED <<result, err>> /\ (hpc' = "idle" <=> hpc = "idle")
    BY <1>8 DEF ResolveStart, PollEnd, SelectEvent, Cancel, CtxEnds, CloseElsewhere, RuntimeClose,
         ModuleCloses, Overflow, vars
  <2>2. QED  BY <2>1, StutterStep DEF Active
<1>9. QED  BY <1>1, <1>2, <1>4, <1>5, <1>6, <1>7, <1>8 DEF Next, ResolveAll

\* ResolveAll does what BatchSpec promises: whatever ends the batch, each query is
\* settled once, by a result or by an error and never by both, and the call returns
\* only when all are.
THEOREM ImplementsBatchSpec == Spec => SettlesEveryQuery
<1>1. Init => Batch!Init
  <2>1. ASSUME Init PROVE (hpc # "idle") = FALSE
    BY <2>1 DEF Init
  <2>2. ASSUME Init PROVE [q \in Queries |-> Outcome(q)] = [q \in Queries |-> "none"]
    BY <2>2 DEF Init, Outcome
  <2>3. QED  BY <2>1, <2>2 DEF Batch!Init
<1>2. IInv /\ [Next]_vars => [Batch!Next]_<<hpc # "idle", [q \in Queries |-> Outcome(q)]>>
  BY RefinedStep DEF Active, Outcomes
<1>3. QED  BY <1>1, <1>2, Inductive, PTL DEF Spec, SettlesEveryQuery, Batch!Spec
=============================================================================
