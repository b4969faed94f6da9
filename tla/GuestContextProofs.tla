-------------------------- MODULE GuestContextProofs --------------------------
(***************************************************************************)
(* Proofs about GuestContext, for any number of instances, inputs of any   *)
(* length and memories of any size.                                        *)
(***************************************************************************)
EXTENDS GuestContext, TLAPS

-----------------------------------------------------------------------------
(***************************************************************************)
(* The inductive invariant.                                                *)
(***************************************************************************)
\* What the guest keeps true of a memory after every call, d draws into the run: a
\* context that did not fail was given every line, and one that was not created
\* left the texts whole; the worker belongs to a context; what set-up drew is old.
Good(m, d) ==
    /\ m.sdata = "run" /\ MinPages <= m.pages.view
    /\ m.seed <= d /\ m.cookie <= d
    /\ ~m.ctx => m.text = Lines /\ ~m.worker /\ \A k \in Inputs : m.applied[k] = {}
    /\ m.ctx => m.cookie > 0
    /\ m.ctx /\ ~m.ctx_err => \A k \in Inputs : m.applied[k] = 1..Lines[k]
    /\ m.worker => m.ctx /\ m.finalized /\ m.seed > 0

\* Two memories have no entropy in common.
Apart(m, n) ==
    /\ m.worker /\ n.worker => m.seed # n.seed
    /\ m.ctx /\ n.ctx => m.cookie # n.cookie

\* An instance that is not open has no memory; open ones are good and apart.
InstanceInv ==
    /\ \A i \in All : IF status[i] = "open" THEN Good(mem[i], draws) ELSE mem[i] = Fresh
    /\ \A i, j \in All : i # j => Apart(mem[i], mem[j])

\* The template is open until its snapshot; once warm it holds no time, and what
\* it knows of the host keeps for it, or it is a timer that has fired.
TemplateInv ==
    /\ zyg \in {"built", "warmed"} => status[Template] = "open"
    /\ zyg = "warmed" => LET m == mem[Template] IN
           /\ m.ctx /\ ~m.ctx_err /\ m.worker /\ m.clock = "zero"
           /\ m.ids \subseteq held \cup lapsed

\* The image is a good memory, whose entropy no instance has.
ImageInv ==
    zyg = "image" =>
        /\ Good(image, draws) /\ \A i \in All : Apart(mem[i], image)
        /\ image.ctx /\ ~image.ctx_err /\ image.worker /\ image.clock = "zero"
        /\ image.ids \subseteq lapsed

\* An instance that served keeps the context it served with.
ServedInv ==
    \A i \in served :
        /\ status[i] # "none"
        /\ status[i] = "open" => /\ mem[i].ctx /\ ~mem[i].ctx_err /\ mem[i].worker
                                 /\ mem[i].clock = "now"

IInv == TypeOK /\ InstanceInv /\ TemplateInv /\ ImageInv /\ ServedInv /\ CloneFitsImage

-----------------------------------------------------------------------------
(***************************************************************************)
(* Lemmas: linear memories, and what a guest call makes of a memory.       *)
(***************************************************************************)
\* The sizes are natural numbers and the inputs have numbers of lines.
LEMMA Sizes ==
    /\ MinPages \in Nat /\ MaxPages \in Nat /\ MinPages <= MaxPages /\ MaxDraws \in Nat
    /\ Lines \in [Inputs -> Nat] /\ Template \notin Instances
  BY ContextAssumption

\* A number of draws is a natural number.
LEMMA DrawsAreNatural == \A d \in 0..MaxDraws : d \in Nat
  BY Sizes

\* Reallocate settles for the size asked or a larger one, within the limit unless
\* the request is beyond it.
LEMMA ReallocateFits ==
    ASSUME NEW p \in LinearMemories(0..MaxPages), NEW n \in 0..MaxPages
    PROVE  /\ Reallocate(p, n) \in LinearMemories(0..MaxPages)
           /\ Reallocate(p, n).view >= n
<1>1. Settled(p, n) \in 0..MaxPages /\ Settled(p, n) >= n
  BY Sizes DEF Settled, Larger, LinearMemories, Kinds
<1>2. QED  BY <1>1 DEF Reallocate, LinearMemories

\* Memories during a call, which may draw beyond the bound.
Raw == [seed : Nat, sdata : {"initial", "run"}, cookie : Nat,
        text : [Inputs -> Nat], applied : [Inputs -> SUBSET Nat],
        ctx : BOOLEAN, ctx_err : BOOLEAN, finalized : BOOLEAN, worker : BOOLEAN,
        clock : {"zero", "setup", "now"}, ids : SUBSET {"socket", "timer"},
        pages : LinearMemories(0..MaxPages)]
Outcomes == [m : Raw, d : Nat, ok : BOOLEAN]

\* What n has of entropy it has from m, or it was drawn after the first d.
Redrawn(m, d, n) ==
    /\ n.ctx => n.cookie > d \/ (m.ctx /\ n.cookie = m.cookie)
    /\ n.worker => n.seed > d \/ (m.worker /\ n.seed = m.seed)

\* A memory of a call that drew no more than the bound is a memory.
LEMMA RawIsMemory ==
    ASSUME NEW m, NEW d \in 0..MaxDraws
    PROVE  /\ m \in Raw /\ m.seed <= d /\ m.cookie <= d => m \in Memories
           /\ m \in Memories => m \in Raw
<1>1. ASSUME m \in Raw, m.seed <= d, m.cookie <= d PROVE m \in Memories
  <2>1. m.seed \in 0..MaxDraws /\ m.cookie \in 0..MaxDraws
    BY <1>1, Sizes DEF Raw
  <2>2. QED  BY <1>1, <2>1 DEF Raw, Memories
<1>2. ASSUME m \in Memories PROVE m \in Raw
  <2>1. m.seed \in Nat /\ m.cookie \in Nat
    BY <1>2, Sizes DEF Memories
  <2>2. QED  BY <1>2, <2>1 DEF Raw, Memories
<1>3. QED  BY <1>1, <1>2

\* Setting up the context leaves these alone.
SameRest(m, n) ==
    /\ n.seed = m.seed /\ n.sdata = m.sdata /\ n.ctx_err = m.ctx_err /\ n.finalized = m.finalized
    /\ n.worker = m.worker /\ n.clock = m.clock /\ n.ids = m.ids /\ n.pages = m.pages

\* apply_lines changes the texts and the lines applied, of its input only; it
\* succeeds if every line was applied.
LEMMA ApplyLines ==
    ASSUME NEW o \in Outcomes, NEW k \in Inputs, NEW n \in apply_lines(k, o)
    PROVE  /\ n \in Outcomes /\ n.d = o.d
           /\ SameRest(o.m, n.m) /\ n.m.ctx = o.m.ctx /\ n.m.cookie = o.m.cookie
           /\ \A j \in Inputs : j # k => n.m.text[j] = o.m.text[j] /\ n.m.applied[j] = o.m.applied[j]
           /\ n.ok => n.m.applied[k] = o.m.applied[k] \cup 1..o.m.text[k]
<1>1. o.m \in Raw /\ o.d \in Nat
  BY DEF Outcomes
<1>2. o.m.text \in [Inputs -> Nat] /\ o.m.applied \in [Inputs -> SUBSET Nat]
  BY <1>1 DEF Raw
<1>3. PICK c \in 0..o.m.text[k] :
         n = Outcome([o.m EXCEPT !.applied[k] = o.m.applied[k] \cup 1..c,
                                 !.text[k] = IF o.m.text[k] > 1 THEN 1 ELSE o.m.text[k]],
                     o.d, c = o.m.text[k])
  BY DEF apply_lines
<1> DEFINE T == [o.m.text EXCEPT ![k] = IF o.m.text[k] > 1 THEN 1 ELSE o.m.text[k]]
           A == [o.m.applied EXCEPT ![k] = o.m.applied[k] \cup 1..c]
<1>4. n = [m |-> [o.m EXCEPT !.applied = A, !.text = T], d |-> o.d, ok |-> (c = o.m.text[k])]
  BY <1>1, <1>2, <1>3 DEF Outcome, Raw
<1>5. T \in [Inputs -> Nat] /\ A \in [Inputs -> SUBSET Nat]
  BY <1>2
<1>6. /\ SameRest(o.m, n.m) /\ n.m.ctx = o.m.ctx /\ n.m.cookie = o.m.cookie
      /\ n.m.text = T /\ n.m.applied = A
  BY <1>1, <1>4 DEF Raw, SameRest
<1>7. n.m \in Raw
  BY <1>1, <1>4, <1>5 DEF Raw
<1>8. n.ok \in BOOLEAN /\ n.d = o.d
  BY <1>4
<1>9. n \in Outcomes
  BY <1>1, <1>4, <1>7, <1>8 DEF Outcomes
<1>10. \A j \in Inputs : j # k => n.m.text[j] = o.m.text[j] /\ n.m.applied[j] = o.m.applied[j]
  BY <1>2, <1>6
<1>11. n.ok => n.m.applied[k] = o.m.applied[k] \cup 1..o.m.text[k]
  <2>1. n.ok <=> c = o.m.text[k]
    BY <1>4, Zenon
  <2>2. n.m.applied[k] = o.m.applied[k] \cup 1..c
    BY <1>2, <1>6
  <2>3. QED  BY <2>1, <2>2
<1>12. QED  BY <1>6, <1>8, <1>9, <1>10, <1>11

\* If nothing was applied before, a success applied all.
LEMMA AppliesAll ==
    ASSUME NEW x \in Outcomes, NEW k \in Inputs, NEW y \in apply_lines(k, x), y.ok
    PROVE  /\ x.m.text[k] = Lines[k] /\ x.m.applied[k] = {} => y.m.applied[k] = 1..Lines[k]
           /\ \A j \in Inputs : j # k => y.m.text[j] = x.m.text[j] /\ y.m.applied[j] = x.m.applied[j]
<1>1. y.m.applied[k] = x.m.applied[k] \cup 1..x.m.text[k]
  BY ApplyLines
<1>2. \A j \in Inputs : j # k => y.m.text[j] = x.m.text[j] /\ y.m.applied[j] = x.m.applied[j]
  BY ApplyLines
<1>3. QED  BY <1>1, <1>2

\* A call keeps a good memory good, and its entropy its own.
Keeps(o, n) ==
    /\ n \in Outcomes /\ n.d >= o.d /\ Good(n.m, n.d) /\ Redrawn(o.m, o.d, n.m)

\* A new context: unless it failed at once it has a cookie just drawn, and if it
\* succeeded it was given every line.
LEMMA NewContextOutcomes ==
    ASSUME NEW o \in Outcomes, o.ok, Good(o.m, o.d), ~o.m.ctx, NEW n \in NewContext(o)
    PROVE  /\ n \in Outcomes /\ SameRest(o.m, n.m)
           /\ \/ ~n.ok /\ n.m = o.m /\ n.d = o.d
              \/ n.m.ctx /\ n.m.cookie = o.d + 1 /\ n.d = o.d + 1
           /\ n.ok => n.m.ctx /\ \A k \in Inputs : n.m.applied[k] = 1..Lines[k]
<1>1. \A x \in Outcomes, k \in Inputs : \A y \in apply_lines(k, x) :
         /\ y \in Outcomes /\ y.d = x.d /\ SameRest(x.m, y.m)
         /\ y.m.ctx = x.m.ctx /\ y.m.cookie = x.m.cookie
  BY ApplyLines
<1>2. PICK a \in ub_ctx_create(o) :
      \E b \in IF a.ok THEN apply_lines("cfg", a) ELSE {a} :
      \E c \in IF b.ok THEN apply_lines("anchors", b) ELSE {b} :
         n \in IF c.ok THEN apply_lines("hints", c) ELSE {c}
  BY DEF NewContext, Then
<1>3. PICK b \in IF a.ok THEN apply_lines("cfg", a) ELSE {a} :
      \E c \in IF b.ok THEN apply_lines("anchors", b) ELSE {b} :
         n \in IF c.ok THEN apply_lines("hints", c) ELSE {c}
  BY <1>2
<1>4. PICK c \in IF b.ok THEN apply_lines("anchors", b) ELSE {b} :
         n \in IF c.ok THEN apply_lines("hints", c) ELSE {c}
  BY <1>3
<1>5. o.m \in Raw /\ o.d \in Nat
  BY DEF Outcomes
<1>6. CASE a = [o EXCEPT !.ok = FALSE]
  <2>1. ~a.ok /\ a.m = o.m /\ a.d = o.d /\ a \in Outcomes
    BY <1>6 DEF Outcomes
  <2>2. n = a
    BY <1>2, <1>3, <1>4, <2>1
  <2>3. QED  BY <2>1, <2>2 DEF SameRest
<1>7. CASE a = Outcome([o.m EXCEPT !.ctx = TRUE, !.cookie = o.d + 1], o.d + 1, TRUE)
  <2>1. /\ a.ok = TRUE /\ a.d = o.d + 1
        /\ a.m = [o.m EXCEPT !.ctx = TRUE, !.cookie = o.d + 1]
    BY <1>7 DEF Outcome
  <2>2. /\ a.m.text = Lines /\ \A k \in Inputs : a.m.applied[k] = {}
        /\ a.m.ctx /\ a.m.cookie = o.d + 1 /\ SameRest(o.m, a.m)
    BY <1>5, <2>1 DEF Good, Raw, SameRest
  <2>3. a.m \in Raw
    <3>1. o.d + 1 \in Nat
      BY <1>5
    <3>2. QED  BY <1>5, <2>1, <3>1 DEF Raw
  <2>4. a \in Outcomes
    BY <1>5, <1>7, <2>1, <2>3 DEF Outcome, Outcomes
  <2> DEFINE Like(x) == /\ x \in Outcomes /\ x.d = o.d + 1 /\ x.m.ctx /\ x.m.cookie = o.d + 1
                        /\ SameRest(o.m, x.m)
  <2>5. Like(a)
    BY <2>1, <2>2, <2>4
  <2>6. \A x : \A k \in Inputs : \A y \in apply_lines(k, x) : Like(x) => Like(y)
    BY <1>1 DEF SameRest
  <2> HIDE DEF Like
  <2>7. "cfg" \in Inputs /\ "anchors" \in Inputs /\ "hints" \in Inputs
    BY DEF Inputs
  <2>8. b \in apply_lines("cfg", a) /\ Like(b)
    BY <1>3, <2>1, <2>5, <2>6, <2>7
  <2>9. Like(c)
    BY <1>4, <2>6, <2>7, <2>8
  <2>10. Like(n)
    BY <1>4, <2>6, <2>7, <2>9
  <2>11. ASSUME n.ok PROVE \A k \in Inputs : n.m.applied[k] = 1..Lines[k]
    <3>1. c.ok /\ n \in apply_lines("hints", c)
      BY <1>4, <2>11
    <3>2. b.ok /\ c \in apply_lines("anchors", b)
      BY <1>4, <3>1
    <3>3. b \in Outcomes /\ c \in Outcomes
      BY <2>8, <2>9 DEF Like
    <3>4. /\ b.m.text["anchors"] = Lines["anchors"] /\ b.m.text["hints"] = Lines["hints"]
          /\ b.m.applied["anchors"] = {} /\ b.m.applied["hints"] = {}
          /\ b.m.applied["cfg"] = 1..Lines["cfg"]
      BY <2>2, <2>4, <2>7, <2>8, <3>2, AppliesAll
    <3>5. /\ c.m.text["hints"] = Lines["hints"] /\ c.m.applied["hints"] = {}
          /\ c.m.applied["anchors"] = 1..Lines["anchors"] /\ c.m.applied["cfg"] = 1..Lines["cfg"]
      BY <2>7, <3>1, <3>2, AppliesAll, <3>3, <3>4
    <3>6. /\ n.m.applied["hints"] = 1..Lines["hints"]
          /\ n.m.applied["anchors"] = 1..Lines["anchors"] /\ n.m.applied["cfg"] = 1..Lines["cfg"]
      BY <2>7, <2>11, <3>1, AppliesAll, <3>3, <3>5
    <3>7. QED  BY <3>6 DEF Inputs
  <2>12. QED  BY <2>10, <2>11 DEF Like
<1>8. QED  BY <1>2, <1>6, <1>7 DEF ub_ctx_create

\* Memories that differ in ctx_err only.
SameButErr(m, n) ==
    /\ n.seed = m.seed /\ n.sdata = m.sdata /\ n.cookie = m.cookie /\ n.text = m.text
    /\ n.applied = m.applied /\ n.ctx = m.ctx /\ n.finalized = m.finalized /\ n.worker = m.worker
    /\ n.clock = m.clock /\ n.ids = m.ids /\ n.pages = m.pages

\* Recording a failure changes nothing else.
LEMMA FailureIsRecorded ==
    ASSUME NEW p \in Outcomes, NEW n, n = [p EXCEPT !.m.ctx_err = TRUE]
    PROVE  /\ n \in Outcomes /\ n.d = p.d /\ n.ok = p.ok
           /\ n.m.ctx_err /\ SameButErr(p.m, n.m)
<1>1. ASSUME NEW m \in Raw, NEW q, q = [m EXCEPT !.ctx_err = TRUE]
      PROVE  q \in Raw /\ q.ctx_err = TRUE /\ SameButErr(m, q)
  <2>1. q \in Raw
    BY <1>1 DEF Raw
  <2>2. q.ctx_err = TRUE /\ SameButErr(m, q)
    BY <1>1 DEF Raw, SameButErr
  <2>3. QED  BY <2>1, <2>2
<1>2. p.m \in Raw /\ p.d \in Nat /\ p.ok \in BOOLEAN
  BY DEF Outcomes
<1>3. n.m = [p.m EXCEPT !.ctx_err = TRUE] /\ n.d = p.d /\ n.ok = p.ok
  BY DEF Outcomes
<1>4. n.m \in Raw /\ n.m.ctx_err = TRUE /\ SameButErr(p.m, n.m)
  BY <1>1, <1>2, <1>3
<1>5. n \in Outcomes
  BY <1>2, <1>3, <1>4 DEF Outcomes
<1>6. QED  BY <1>3, <1>4, <1>5

\* A good memory in which a failure was recorded is good.
LEMMA RecordedKeeps ==
    ASSUME NEW o \in Outcomes, NEW p \in Outcomes, Keeps(o, p)
    PROVE  Keeps(o, [p EXCEPT !.m.ctx_err = TRUE])
<1> DEFINE n == [p EXCEPT !.m.ctx_err = TRUE]
<1>1. /\ n \in Outcomes /\ n.d = p.d /\ n.m.ctx_err /\ SameButErr(p.m, n.m)
  BY FailureIsRecorded
<1> HIDE DEF n
<1>2. Keeps(o, n)
  BY <1>1 DEF Keeps, Good, Redrawn, SameButErr
<1>3. QED  BY <1>2 DEF n

\* ensure_ctx: a success means a context that was given every line, and the
\* context of an earlier success is left alone.
LEMMA EnsureCtx ==
    ASSUME NEW o \in Outcomes, o.ok, Good(o.m, o.d), NEW n \in ensure_ctx(o)
    PROVE  /\ Keeps(o, n) /\ (n.ok => n.m.ctx /\ ~n.m.ctx_err)
           /\ o.m.ctx /\ ~o.m.ctx_err => n = o
<1>1. o.m \in Raw /\ o.d \in Nat
  BY DEF Outcomes
<1>2. CASE o.m.ctx_err
  <2>1. n = [o EXCEPT !.ok = FALSE]
    BY <1>2 DEF ensure_ctx
  <2>2. n \in Outcomes /\ n.m = o.m /\ n.d = o.d /\ ~n.ok
    BY <2>1 DEF Outcomes
  <2>3. QED  BY <1>1, <1>2, <2>2 DEF Keeps, Redrawn
<1>3. CASE ~o.m.ctx_err /\ o.m.ctx
  <2>1. n = o
    BY <1>3 DEF ensure_ctx
  <2>2. QED  BY <1>1, <1>3, <2>1 DEF Keeps, Redrawn
<1>4. CASE ~o.m.ctx_err /\ ~o.m.ctx
  <2>1. PICK p \in NewContext(o) : n = IF p.ok THEN p ELSE [p EXCEPT !.m.ctx_err = TRUE]
    BY <1>4 DEF ensure_ctx, Sticky
  <2>2. /\ p \in Outcomes /\ SameRest(o.m, p.m)
        /\ \/ ~p.ok /\ p.m = o.m /\ p.d = o.d
           \/ p.m.ctx /\ p.m.cookie = o.d + 1 /\ p.d = o.d + 1
        /\ p.ok => p.m.ctx /\ \A k \in Inputs : p.m.applied[k] = 1..Lines[k]
    BY <1>4, NewContextOutcomes
  <2>3. /\ p.m.sdata = "run" /\ MinPages <= p.m.pages.view /\ p.m.seed <= p.d /\ p.d \in Nat
        /\ p.m.cookie <= p.d /\ p.d >= o.d /\ ~p.m.worker
        /\ ~p.m.ctx => p.m.text = Lines /\ \A k \in Inputs : p.m.applied[k] = {}
        /\ p.m.ctx => p.m.cookie > 0 /\ p.m.cookie > o.d
    BY <1>1, <1>4, <2>2 DEF Good, SameRest, Raw
  <2>4. ~p.m.ctx_err
    BY <1>4, <2>2 DEF SameRest
  <2>5. CASE p.ok
    BY <2>1, <2>2, <2>3, <2>4, <2>5, <1>4 DEF Keeps, Good, Redrawn
  <2>6. CASE ~p.ok
    <3>1. n = [p EXCEPT !.m.ctx_err = TRUE]
      BY <2>1, <2>6
    <3>2. n \in Outcomes /\ n.d = p.d /\ n.ok = p.ok /\ n.m.ctx_err /\ SameButErr(p.m, n.m)
      BY <2>2, <3>1, FailureIsRecorded
    <3>3. Keeps(o, n)
      BY <2>3, <3>2 DEF Keeps, Good, Redrawn, SameButErr
    <3>4. QED  BY <1>4, <2>6, <3>2, <3>3
  <2>7. QED  BY <2>5, <2>6
<1>5. QED  BY <1>2, <1>3, <1>4

\* The outcomes of CreateWorker, one by one.
LEMMA CreateWorkerCases ==
    ASSUME NEW f, NEW w \in CreateWorker(f)
    PROVE  \/ f.m.worker /\ w = f
           \/ ~f.m.worker /\ w = [f EXCEPT !.ok = FALSE]
           \/ ~f.m.worker /\ \E ids \in SUBSET {"socket", "timer"}, z \in f.m.pages.view..MaxPages :
                  w = WithWorker(f, ids, z)
<1>1. CASE f.m.worker
  BY <1>1 DEF CreateWorker
<1>2. CASE ~f.m.worker
  BY <1>2 DEF CreateWorker
<1>3. QED  BY <1>1, <1>2

\* What is left of set-up in a context: done, it is left alone, and a success means
\* that there is a worker.
LEMMA FinishSetUp ==
    ASSUME NEW o \in Outcomes, o.ok, Good(o.m, o.d), o.m.ctx,
           NEW f \in Finalize(o), NEW n \in IF f.ok THEN CreateWorker(f) ELSE {f}
    PROVE  /\ Keeps(o, n) /\ n.m.ctx /\ n.m.ctx_err = o.m.ctx_err
           /\ n.ok => n.m.worker
           /\ o.m.worker => n = o
<1>1. o.m \in Raw /\ o.d \in Nat
  BY DEF Outcomes
<1>2. CASE f = [o EXCEPT !.ok = FALSE] /\ ~o.m.finalized
  <2>1. f \in Outcomes /\ f.m = o.m /\ f.d = o.d /\ ~f.ok
    BY <1>2 DEF Outcomes
  <2>2. n = f
    BY <2>1
  <2>3. ~o.m.worker
    BY <1>2 DEF Good
  <2>4. QED  BY <1>1, <2>1, <2>2, <2>3 DEF Keeps, Redrawn
<1>3. CASE (f = o /\ o.m.finalized) \/ (f = [o EXCEPT !.m.finalized = TRUE] /\ ~o.m.finalized)
  <2>1. /\ f \in Outcomes /\ f.d = o.d /\ f.ok /\ f.m.finalized
        /\ f.m.seed = o.m.seed /\ f.m.sdata = o.m.sdata /\ f.m.cookie = o.m.cookie
        /\ f.m.text = o.m.text /\ f.m.applied = o.m.applied /\ f.m.ctx = o.m.ctx
        /\ f.m.ctx_err = o.m.ctx_err /\ f.m.worker = o.m.worker /\ f.m.pages = o.m.pages
        /\ o.m.finalized => f = o
    <3>1. CASE f = o /\ o.m.finalized
      BY <3>1
    <3>2. CASE f = [o EXCEPT !.m.finalized = TRUE] /\ ~o.m.finalized
      <4>1. f.m = [o.m EXCEPT !.finalized = TRUE] /\ f.d = o.d /\ f.ok = o.ok
        BY <3>2 DEF Outcomes
      <4>2. f.m \in Raw /\ f.m.finalized = TRUE
        BY <1>1, <4>1 DEF Raw
      <4>3. f \in Outcomes
        BY <1>1, <3>2, <4>1, <4>2 DEF Outcomes
      <4>4. /\ f.m.seed = o.m.seed /\ f.m.sdata = o.m.sdata /\ f.m.cookie = o.m.cookie
            /\ f.m.text = o.m.text /\ f.m.applied = o.m.applied /\ f.m.ctx = o.m.ctx
            /\ f.m.ctx_err = o.m.ctx_err /\ f.m.worker = o.m.worker /\ f.m.pages = o.m.pages
        BY <1>1, <4>1 DEF Raw
      <4>5. QED  BY <3>2, <4>1, <4>2, <4>3, <4>4
    <3>3. QED  BY <1>3, <3>1, <3>2
  <2>2. Keeps(o, f)
    BY <1>1, <2>1 DEF Keeps, Good, Redrawn
  <2>3. n \in CreateWorker(f) /\ f.m \in Raw
    BY <2>1 DEF Outcomes
  <2>4. CASE f.m.worker
    <3>1. n = f
      BY <2>3, <2>4, CreateWorkerCases
    <3>2. o.m.finalized
      BY <2>1, <2>4 DEF Good
    <3>3. QED  BY <2>1, <2>2, <2>4, <3>1, <3>2
  <2>5. CASE ~f.m.worker /\ n = [f EXCEPT !.ok = FALSE]
    <3>1. n \in Outcomes /\ n.m = f.m /\ n.d = f.d /\ ~n.ok
      BY <2>1, <2>5 DEF Outcomes
    <3>2. QED  BY <2>1, <2>2, <2>5, <3>1 DEF Keeps
  <2>6. ASSUME ~f.m.worker, NEW ids \in SUBSET {"socket", "timer"}, NEW z \in f.m.pages.view..MaxPages,
               n = WithWorker(f, ids, z)
        PROVE  Keeps(o, n) /\ n.m.ctx /\ n.m.ctx_err = o.m.ctx_err /\ n.m.worker /\ ~o.m.worker
    <3>1. /\ f.m.pages \in LinearMemories(0..MaxPages) /\ z \in 0..MaxPages
          /\ f.m.pages.view \in Nat /\ MinPages <= f.m.pages.view
      BY <2>2, <2>3, Sizes DEF Raw, LinearMemories, Keeps, Good
    <3>2. /\ Reallocate(f.m.pages, z) \in LinearMemories(0..MaxPages)
          /\ Reallocate(f.m.pages, z).view >= MinPages
      <4>1. /\ Reallocate(f.m.pages, z) \in LinearMemories(0..MaxPages)
            /\ Reallocate(f.m.pages, z).view >= z
        BY <3>1, ReallocateFits
      <4>2. Reallocate(f.m.pages, z).view \in Nat
        BY <4>1, Sizes DEF LinearMemories
      <4>3. QED  BY <3>1, <4>1, <4>2, Sizes
    <3>3. /\ n.m = [f.m EXCEPT !.worker = TRUE, !.seed = f.d + 1, !.clock = "setup",
                               !.ids = ids, !.pages = Reallocate(f.m.pages, z)]
          /\ n.d = o.d + 1 /\ n.ok = TRUE /\ f.d + 1 \in Nat
      BY <1>1, <2>1, <2>6 DEF Outcome, WithWorker
    <3>4. n.m \in Raw
      BY <2>3, <3>2, <3>3 DEF Raw
    <3>5. n \in Outcomes
      BY <2>1, <2>6, <3>3, <3>4 DEF Outcome, Outcomes, WithWorker
    <3>6. n.m.worker = TRUE /\ n.m.seed = o.d + 1 /\ n.m.pages = Reallocate(f.m.pages, z)
      BY <2>1, <2>3, <3>3 DEF Raw
    <3>7. /\ n.m.finalized = f.m.finalized /\ n.m.sdata = f.m.sdata /\ n.m.cookie = f.m.cookie /\ n.m.text = f.m.text
          /\ n.m.applied = f.m.applied /\ n.m.ctx = f.m.ctx /\ n.m.ctx_err = f.m.ctx_err
      BY <2>1, <2>3, <3>3 DEF Raw
    <3>8. n.m.cookie \in Nat
      BY <3>4 DEF Raw
    <3>9. Good(n.m, n.d)
      <4>1. n.m.seed <= n.d /\ n.m.cookie <= n.d /\ n.m.seed > 0 /\ n.m.cookie > 0
        BY <1>1, <2>1, <2>2, <2>3, <3>3, <3>6, <3>8, <3>7 DEF Keeps, Good
      <4>2. n.m.sdata = "run" /\ MinPages <= n.m.pages.view /\ n.m.ctx /\ n.m.finalized
        BY <2>1, <2>2, <3>2, <3>6, <3>7 DEF Keeps, Good
      <4>3. ~n.m.ctx_err => \A k \in Inputs : n.m.applied[k] = 1..Lines[k]
        BY <2>1, <2>2, <3>7 DEF Keeps, Good
      <4>4. QED  BY <4>1, <4>2, <4>3 DEF Good
    <3>10. Redrawn(o.m, o.d, n.m)
      BY <1>1, <2>1, <3>6, <3>7 DEF Redrawn
    <3>11. n.m.ctx /\ n.m.ctx_err = o.m.ctx_err /\ n.m.worker /\ ~o.m.worker
      BY <2>1, <2>6, <3>6, <3>7
    <3>12. QED  BY <1>1, <3>3, <3>5, <3>9, <3>10, <3>11 DEF Keeps
  <2>7. QED
    <3>1. CASE ~f.m.worker
      <4>1. \/ n = [f EXCEPT !.ok = FALSE]
            \/ \E ids \in SUBSET {"socket", "timer"}, z \in f.m.pages.view..MaxPages :
                  n = WithWorker(f, ids, z)
        BY <2>3, <3>1, CreateWorkerCases
      <4>2. QED  BY <2>5, <2>6, <3>1, <4>1
    <3>2. QED  BY <2>4, <3>1
<1>4. QED  BY <1>2, <1>3 DEF Finalize

\* Calls follow one another.
LEMMA KeepsTransitive ==
    ASSUME NEW o \in Outcomes, NEW a, NEW n, Keeps(o, a), Keeps(a, n)
    PROVE  Keeps(o, n)
<1>1. o.d \in Nat /\ a.d \in Nat /\ n.d \in Nat /\ n.m.cookie \in Nat /\ n.m.seed \in Nat
  BY DEF Keeps, Outcomes, Raw
<1>2. Redrawn(o.m, o.d, n.m)
  BY <1>1 DEF Keeps, Redrawn
<1>3. QED  BY <1>1, <1>2 DEF Keeps

\* An outcome with another time and another result.
Clocked(p, c, b) == [p EXCEPT !.m.clock = c, !.ok = b]

\* Setting the time, and the result, leaves the rest of a good memory as it was.
LEMMA ClockIsSet ==
    ASSUME NEW p \in Outcomes, NEW c \in {"zero", "setup", "now"}, NEW b \in BOOLEAN,
           NEW n, n = Clocked(p, c, b)
    PROVE  /\ n \in Outcomes /\ n.d = p.d
           /\ n.m.clock = c /\ n.m.ctx = p.m.ctx /\ n.m.ctx_err = p.m.ctx_err /\ n.m.worker = p.m.worker
           /\ \A o \in Outcomes : Keeps(o, p) => Keeps(o, n)
<1>1. ASSUME NEW m \in Raw, NEW q, q = [m EXCEPT !.clock = c]
      PROVE  /\ q \in Raw
             /\ q.clock = c /\ q.seed = m.seed /\ q.sdata = m.sdata /\ q.cookie = m.cookie
             /\ q.text = m.text /\ q.applied = m.applied /\ q.ctx = m.ctx
             /\ q.ctx_err = m.ctx_err /\ q.finalized = m.finalized
             /\ q.worker = m.worker /\ q.pages = m.pages
  BY <1>1 DEF Raw
<1>2. p.m \in Raw /\ p.d \in Nat
  BY DEF Outcomes
<1>3. n.m = [p.m EXCEPT !.clock = c] /\ n.d = p.d /\ n = [m |-> n.m, d |-> p.d, ok |-> b]
  BY DEF Outcomes, Clocked
<1>4. /\ n.m \in Raw
      /\ n.m.clock = c /\ n.m.seed = p.m.seed /\ n.m.sdata = p.m.sdata /\ n.m.cookie = p.m.cookie
      /\ n.m.text = p.m.text /\ n.m.applied = p.m.applied /\ n.m.ctx = p.m.ctx
      /\ n.m.ctx_err = p.m.ctx_err /\ n.m.finalized = p.m.finalized
      /\ n.m.worker = p.m.worker /\ n.m.pages = p.m.pages
  BY <1>1, <1>2, <1>3
<1>5. n \in Outcomes
  BY <1>2, <1>3, <1>4 DEF Outcomes
<1>6. ASSUME NEW o \in Outcomes, Keeps(o, p) PROVE Keeps(o, n)
  BY <1>3, <1>4, <1>5, <1>6 DEF Keeps, Good, Redrawn
<1>7. QED  BY <1>3, <1>4, <1>5, <1>6

\* ensure_worker, after a success of ensure_ctx: a success leaves a worker whose
\* base holds no time.
LEMMA EnsureWorker ==
    ASSUME NEW o \in Outcomes, o.ok, Good(o.m, o.d), o.m.ctx, ~o.m.ctx_err, NEW n \in ensure_worker(o)
    PROVE  /\ Keeps(o, n)
           /\ n.ok => n.m.ctx /\ ~n.m.ctx_err /\ n.m.worker /\ n.m.clock = "zero"
<1>1. PICK f \in Finalize(o) : \E x \in IF f.ok THEN CreateWorker(f) ELSE {f} :
      \E w : /\ w = IF x.ok THEN x ELSE [x EXCEPT !.m.ctx_err = TRUE]
             /\ n = IF w.ok THEN [w EXCEPT !.m.clock = "zero"] ELSE w
  BY DEF ensure_worker, Sticky, Then
<1>2. PICK x \in IF f.ok THEN CreateWorker(f) ELSE {f} :
      \E w : /\ w = IF x.ok THEN x ELSE [x EXCEPT !.m.ctx_err = TRUE]
             /\ n = IF w.ok THEN [w EXCEPT !.m.clock = "zero"] ELSE w
  BY <1>1
<1>3. Keeps(o, x) /\ x.m.ctx /\ x.m.ctx_err = o.m.ctx_err /\ (x.ok => x.m.worker) /\ x \in Outcomes
  BY FinishSetUp DEF Keeps
<1>4. CASE x.ok
  <2>1. n = [x EXCEPT !.m.clock = "zero"]
    BY <1>2, <1>4
  <2>2. PICK b \in BOOLEAN : n = Clocked(x, "zero", b)
    <3>1. x.ok \in BOOLEAN /\ n = Clocked(x, "zero", x.ok)
      BY <1>3, <2>1 DEF Outcomes, Clocked
    <3>2. QED  BY <3>1
  <2>3. Keeps(o, n) /\ n.m.clock = "zero" /\ n.m.ctx = x.m.ctx /\ n.m.ctx_err = x.m.ctx_err /\ n.m.worker = x.m.worker
    <3>1. x \in Outcomes
      BY <1>3
    <3>2. Keeps(o, n)
      BY <1>3, <2>2, <3>1, ClockIsSet
    <3>3. n.m.clock = "zero" /\ n.m.ctx = x.m.ctx /\ n.m.ctx_err = x.m.ctx_err /\ n.m.worker = x.m.worker
      BY <2>2, <3>1, ClockIsSet
    <3>4. QED  BY <3>2, <3>3
  <2>4. QED  BY <1>3, <1>4, <2>3
<1>5. CASE ~x.ok
  <2>1. PICK w : /\ w = [x EXCEPT !.m.ctx_err = TRUE]
                 /\ n = IF w.ok THEN [w EXCEPT !.m.clock = "zero"] ELSE w
    BY <1>2, <1>5
  <2>2. w.ok = x.ok
    BY <1>3, <2>1, FailureIsRecorded
  <2>3. n = w /\ ~n.ok
    BY <1>5, <2>1, <2>2
  <2>4. Keeps(o, n)
    BY <1>3, <2>1, <2>3, RecordedKeeps
  <2>5. QED  BY <2>3, <2>4
<1>6. QED  BY <1>4, <1>5

\* A memory with d draws made, before a call.
LEMMA BeforeCall ==
    ASSUME NEW m \in Raw, NEW d \in Nat
    PROVE  LET o == Outcome(m, d, TRUE) IN o \in Outcomes /\ o.ok /\ o.m = m /\ o.d = d
  BY DEF Outcome, Outcomes

\* warmup makes a memory that has all of its set-up and no time.
LEMMA Warmup ==
    ASSUME NEW m \in Raw, NEW d \in Nat, Good(m, d), NEW n \in guest_warmup(m, d)
    PROVE  /\ Keeps(Outcome(m, d, TRUE), n)
           /\ n.ok => n.m.ctx /\ ~n.m.ctx_err /\ n.m.worker /\ n.m.clock = "zero"
<1> DEFINE o == Outcome(m, d, TRUE)
<1>1. o \in Outcomes /\ o.ok /\ Good(o.m, o.d)
  BY BeforeCall
<1>2. PICK a \in ensure_ctx(o) : n \in IF a.ok THEN ensure_worker(a) ELSE {a}
  BY DEF guest_warmup, Then
<1> HIDE DEF o
<1>3. Keeps(o, a) /\ (a.ok => a.m.ctx /\ ~a.m.ctx_err) /\ a \in Outcomes /\ Good(a.m, a.d)
  BY <1>1, EnsureCtx DEF Keeps
<1>4. CASE a.ok
  <2>1. n \in ensure_worker(a)
    BY <1>2, <1>4
  <2>2. /\ Keeps(a, n)
        /\ n.ok => n.m.ctx /\ ~n.m.ctx_err /\ n.m.worker /\ n.m.clock = "zero"
    BY <1>3, <1>4, <2>1, EnsureWorker
  <2>3. QED  BY <1>1, <1>3, <2>2, KeepsTransitive DEF o
<1>5. CASE ~a.ok
  BY <1>2, <1>3, <1>5 DEF o
<1>6. QED  BY <1>4, <1>5

\* What an instance has that served a query.
Ready(m) == m.ctx /\ ~m.ctx_err /\ m.worker /\ m.clock = "now"

\* resolve_start: a success means a memory that can serve, and one that can serve
\* still can after a failure.
LEMMA ResolveStartKeeps ==
    ASSUME NEW m \in Raw, NEW d \in Nat, Good(m, d), NEW n \in guest_resolve_start(m, d)
    PROVE  Keeps(Outcome(m, d, TRUE), n) /\ (n.ok \/ Ready(m) => Ready(n.m))
<1> DEFINE o == Outcome(m, d, TRUE)
<1>1. o \in Outcomes /\ o.ok /\ Good(o.m, o.d) /\ o.m = m
  BY BeforeCall
<1>2. PICK a \in ensure_ctx(o) :
         n \in IF a.ok THEN {[a EXCEPT !.ok = FALSE]} \cup ub_resolve_event(a) ELSE {a}
  BY DEF guest_resolve_start, Then
<1> HIDE DEF o
<1>3. /\ Keeps(o, a) /\ (a.ok => a.m.ctx /\ ~a.m.ctx_err) /\ a \in Outcomes /\ Good(a.m, a.d)
      /\ Ready(m) => a.m = m
  BY <1>1, EnsureCtx DEF Keeps, Ready
<1>4. CASE ~a.ok
  BY <1>2, <1>3, <1>4 DEF o
<1>5. CASE a.ok /\ n = [a EXCEPT !.ok = FALSE]
  <2>1. n \in Outcomes /\ n.m = a.m /\ n.d = a.d /\ ~n.ok
    BY <1>3, <1>5 DEF Outcomes
  <2>2. QED  BY <1>3, <2>1 DEF Keeps, o
<1>6. CASE a.ok /\ n \in ub_resolve_event(a)
  <2>1. PICK f \in Finalize(a) : \E x \in IF f.ok THEN CreateWorker(f) ELSE {f} :
        n \in IF x.ok THEN {[x EXCEPT !.m.clock = "now", !.ok = ok] : ok \in BOOLEAN} ELSE {x}
    BY <1>6 DEF ub_resolve_event, Then
  <2>2. PICK x \in IF f.ok THEN CreateWorker(f) ELSE {f} :
        n \in IF x.ok THEN {[x EXCEPT !.m.clock = "now", !.ok = ok] : ok \in BOOLEAN} ELSE {x}
    BY <2>1
  <2>3. /\ Keeps(a, x) /\ x.m.ctx /\ x.m.ctx_err = a.m.ctx_err /\ (x.ok => x.m.worker)
        /\ a.m.worker => x = a
    BY <1>3, <1>6, FinishSetUp
  <2>4. x \in Outcomes /\ Keeps(o, x)
    BY <1>1, <1>3, <2>3, KeepsTransitive DEF Keeps
  <2>5. CASE ~x.ok
    <3>1. n = x /\ ~a.m.worker
      BY <1>6, <2>2, <2>3, <2>5
    <3>2. QED  BY <1>3, <2>4, <2>5, <3>1 DEF Ready, o
  <2>6. CASE x.ok
    <3>1. PICK ok \in BOOLEAN : n = Clocked(x, "now", ok)
      BY <2>2, <2>6 DEF Clocked
    <3>2. /\ Keeps(o, n) /\ n.m.clock = "now" /\ n.m.ctx = x.m.ctx /\ n.m.ctx_err = x.m.ctx_err
          /\ n.m.worker = x.m.worker
      BY <1>1, <2>4, <3>1, ClockIsSet
    <3>3. QED  BY <1>3, <1>6, <2>3, <2>6, <3>2 DEF Ready, o
  <2>7. QED  BY <2>5, <2>6
<1>7. QED  BY <1>2, <1>4, <1>5, <1>6

\* A new instance of the full path, if init succeeded, has its texts and no context.
LEMMA FullMemoryIsGood ==
    ASSUME NEW d \in Nat, NEW o \in FullMemories(d)
    PROVE  /\ o \in Outcomes /\ o.d = d
           /\ o.ok => Good(o.m, d) /\ ~o.m.ctx /\ ~o.m.worker
<1>1. PICK mapped \in BOOLEAN :
         o \in guest_init([Fresh EXCEPT !.pages = Reallocate(MmapMemory(MaxPages, mapped), MinPages)], d)
  BY DEF FullMemories
<1> DEFINE P == Reallocate(MmapMemory(MaxPages, mapped), MinPages)
           F == [Fresh EXCEPT !.pages = P]
<1>2. P \in LinearMemories(0..MaxPages) /\ P.view >= MinPages
  <2>1. MmapMemory(MaxPages, mapped) \in LinearMemories(0..MaxPages) /\ MinPages \in 0..MaxPages
    BY Sizes DEF MmapMemory, LinearMemories, Kinds
  <2>2. QED  BY <2>1, ReallocateFits
<1>3. PICK saved \in SUBSET Inputs :
         o = Outcome([F EXCEPT !.sdata = "run",
                               !.text = [k \in Inputs |-> IF k \in saved THEN Lines[k] ELSE 0]],
                     d, saved = Inputs)
  BY <1>1 DEF guest_init
<1> DEFINE T == [k \in Inputs |-> IF k \in saved THEN Lines[k] ELSE 0]
<1>4. T \in [Inputs -> Nat]
  BY Sizes
<1> HIDE DEF P, T
<1>5. o.m = [seed |-> 0, sdata |-> "run", cookie |-> 0, text |-> T, applied |-> [k \in Inputs |-> {}],
             ctx |-> FALSE, ctx_err |-> FALSE, finalized |-> FALSE, worker |-> FALSE,
             clock |-> "zero", ids |-> {}, pages |-> P]
      /\ o.d = d
  BY <1>3 DEF Outcome, Fresh, T, P
<1>6. o.m \in Raw
  BY <1>2, <1>4, <1>5 DEF Raw
<1>7. (saved = Inputs) \in BOOLEAN /\ (o.ok <=> saved = Inputs)
  <2>1. o.ok = (saved = Inputs)
    BY <1>3 DEF Outcome
  <2>2. QED  BY <2>1, Zenon
<1>8. o \in Outcomes
  <2>1. o.ok \in BOOLEAN
    BY <1>3, Zenon DEF Outcome
  <2>2. o = [m |-> o.m, d |-> o.d, ok |-> o.ok]
    BY <1>3 DEF Outcome
  <2>3. QED  BY <1>5, <1>6, <2>1, <2>2 DEF Outcomes
<1>9. saved = Inputs => T = Lines
  BY Sizes DEF T
<1>10. QED  BY <1>2, <1>5, <1>7, <1>8, <1>9 DEF Good

\* A clone has the image's size and its set-up, and entropy of its own.
LEMMA CloneIsGood ==
    ASSUME NEW d \in Nat, image \in Raw, Good(image, d), image.ctx, image.worker,
           NEW mapped \in BOOLEAN
    PROVE  /\ MapImage(mapped).pages.view = image.pages.view
           /\ LET o == CloneMemory(MapImage(mapped), d) IN
              o \in Outcomes /\ o.d >= d /\ Good(o.m, o.d) /\ \A m : Redrawn(m, d, o.m)
<1> DEFINE P == Reallocate(ImageMemory(MaxPages, image.pages.view, mapped), MinPages)
           m0 == MapImage(mapped)
           o == CloneMemory(m0, d)
<1>1. image.pages \in LinearMemories(0..MaxPages) /\ MinPages <= image.pages.view
  BY DEF Raw, Good
<1>2. image.pages.view \in 0..MaxPages
  BY <1>1 DEF LinearMemories
<1>3. P \in LinearMemories(0..MaxPages) /\ P.view = image.pages.view
  <2>1. ASSUME NEW v \in 0..MaxPages, MinPages <= v, NEW I, I = ImageMemory(MaxPages, v, mapped)
        PROVE  Reallocate(I, MinPages) \in LinearMemories(0..MaxPages) /\ Reallocate(I, MinPages).view = v
    <3>1. /\ I \in LinearMemories(0..MaxPages) /\ I.kind \in {"image", "slice"}
          /\ I.kind = "image" => I.image = v
          /\ I.kind = "slice" => I.buf = v
      BY <2>1, Sizes DEF ImageMemory, LinearMemories, Kinds
    <3>2. Settled(I, MinPages) = v
      BY <2>1, <3>1, Sizes DEF Settled, Larger
    <3>3. QED  BY <2>1, <3>1, <3>2 DEF Reallocate, LinearMemories
  <2>2. QED  BY <1>1, <1>2, <2>1
<1> HIDE DEF P
<1>4. m0 = [image EXCEPT !.seed = 0, !.sdata = "initial", !.pages = P]
  BY DEF MapImage, Fresh, P
<1>5. m0.pages = P
  BY <1>4 DEF Raw
<1>6. RestoreSegments(m0) = [image EXCEPT !.pages = P]
  BY <1>4 DEF RestoreSegments, Raw
<1>7. o = Outcome([image EXCEPT !.pages = P, !.seed = d + 1, !.cookie = d + 2], d + 2, TRUE)
  BY <1>6 DEF CloneMemory, guest_reseed, Raw
<1> HIDE DEF o, m0
<1>8. /\ o.m = [image EXCEPT !.pages = P, !.seed = d + 1, !.cookie = d + 2] /\ o.d = d + 2
      /\ d + 1 \in Nat /\ d + 2 \in Nat
  BY <1>7 DEF Outcome
<1>9. ASSUME NEW i \in Raw, NEW q, q = [i EXCEPT !.pages = P, !.seed = d + 1, !.cookie = d + 2]
       PROVE  /\ q \in Raw /\ q.seed = d + 1 /\ q.cookie = d + 2 /\ q.pages = P /\ q.sdata = i.sdata
              /\ q.ctx = i.ctx /\ q.ctx_err = i.ctx_err /\ q.applied = i.applied
              /\ q.worker = i.worker /\ q.finalized = i.finalized
  <2>1. d + 1 \in Nat /\ d + 2 \in Nat
    OBVIOUS
  <2>2. q \in Raw
    BY <1>3, <1>9, <2>1 DEF Raw
  <2>3. QED  BY <1>9, <2>2 DEF Raw
<1>10. o.m \in Raw
  BY <1>8, <1>9
<1>11. o \in Outcomes
  <2>1. o = Outcome(o.m, d + 2, TRUE)
    BY <1>7, <1>8
  <2>2. QED  BY <1>8, <1>10, <2>1, BeforeCall
<1>12. /\ o.m.seed = d + 1 /\ o.m.cookie = d + 2 /\ o.m.pages = P /\ o.m.sdata = image.sdata
       /\ o.m.ctx = image.ctx /\ o.m.ctx_err = image.ctx_err /\ o.m.applied = image.applied
       /\ o.m.worker = image.worker /\ o.m.finalized = image.finalized
  BY <1>8, <1>9
<1>13. Good(o.m, o.d)
  BY <1>1, <1>3, <1>8, <1>12 DEF Good
<1>14. \A m : Redrawn(m, d, o.m)
  BY <1>12 DEF Redrawn
<1>15. QED  BY <1>3, <1>5, <1>8, <1>11, <1>13, <1>14 DEF o, m0

-----------------------------------------------------------------------------
(***************************************************************************)
(* The invariant is inductive.                                             *)
(***************************************************************************)
\* The parts of TypeOK that are not about instances.
OtherType ==
    /\ zyg \in {"none", "built", "warmed", "image", "off", "err"}
    /\ image \in Memories /\ held \subseteq {"socket", "timer"}
    /\ lapsed \subseteq {"timer"} /\ served \subseteq Instances
InstanceType ==
    /\ status \in [All -> {"none", "open", "closed", "wrong size"}]
    /\ mem \in [All -> Memories] /\ draws \in 0..MaxDraws

\* The parts are the whole.
LEMMA TypeParts ==
    /\ TypeOK <=> OtherType /\ InstanceType
    /\ TypeOK' <=> OtherType' /\ InstanceType'
  BY DEF TypeOK, OtherType, InstanceType

\* A fresh memory is a memory, with no entropy to share.
LEMMA FreshIsMemory ==
    /\ Fresh \in Memories /\ ~Fresh.ctx /\ ~Fresh.worker
    /\ \A n : Apart(Fresh, n) /\ Apart(n, Fresh)
<1>1. Fresh \in Memories
  <2>1. MmapMemory(0, FALSE) \in LinearMemories(0..MaxPages) /\ 0 \in 0..MaxDraws
    BY Sizes DEF MmapMemory, LinearMemories, Kinds
  <2>2. QED  BY <2>1 DEF Fresh, Memories
<1>2. Fresh.ctx = FALSE /\ Fresh.worker = FALSE
  BY DEF Fresh
<1>3. QED  BY <1>1, <1>2 DEF Apart

\* It holds before the template is built.
LEMMA InitInv == Init => IInv
<1> SUFFICES ASSUME Init PROVE IInv
  OBVIOUS
<1>1. TypeOK
  BY FreshIsMemory, Sizes DEF Init, TypeOK
<1>2. InstanceInv /\ TemplateInv /\ ImageInv /\ ServedInv /\ CloneFitsImage
  BY FreshIsMemory DEF Init, InstanceInv, TemplateInv, ImageInv, ServedInv, CloneFitsImage, All
<1>3. QED  BY <1>1, <1>2 DEF IInv

\* The types that the invariant gives.
LEMMA Types ==
    ASSUME IInv
    PROVE  /\ OtherType /\ InstanceType /\ draws \in Nat /\ draws <= MaxDraws
           /\ image \in Raw /\ \A j \in All : mem[j] \in Raw
<1>1. OtherType /\ InstanceType
  BY TypeParts DEF IInv
<1>2. draws \in 0..MaxDraws /\ draws \in Nat /\ draws <= MaxDraws
  <2>1. draws \in 0..MaxDraws
    BY <1>1 DEF InstanceType
  <2>2. QED  BY <2>1, Sizes
<1>3. \A m \in Memories : m \in Raw
  BY <1>2, RawIsMemory
<1>4. QED  BY <1>1, <1>2, <1>3 DEF OtherType, InstanceType

\* A memory stays good when others draw.
LEMMA GoodLater ==
    ASSUME NEW m \in Raw, NEW d \in Nat, NEW e \in Nat, d <= e, Good(m, d)
    PROVE  Good(m, e)
  BY DEF Good, Raw

\* What stays of an image when others draw.
LEMMA ImageLater ==
    ASSUME IInv, UNCHANGED <<zyg, image, lapsed>>, draws' \in 0..MaxDraws, draws' >= draws,
           \A j \in All : zyg = "image" => Apart(mem'[j], image)
    PROVE  ImageInv'
<1>1. image \in Raw /\ draws \in Nat /\ draws' \in Nat
  BY Types, Sizes
<1>2. zyg = "image" => Good(image, draws')
  BY <1>1, GoodLater DEF IInv, ImageInv
<1>3. QED  BY <1>2 DEF IInv, ImageInv

\* An instance that comes out of a call is good and apart from all others.
LEMMA BecomeKeeps ==
    ASSUME IInv, NEW i \in All, NEW o \in Outcomes, o.d >= draws, Good(o.m, o.d),
           Redrawn(mem[i], draws, o.m), Become(i, o)
    PROVE  /\ InstanceType' /\ InstanceInv' /\ draws' >= draws
           /\ \A j \in All : /\ status'[j] = IF j = i THEN "open" ELSE status[j]
                             /\ mem'[j] = IF j = i THEN o.m ELSE mem[j]
           /\ UNCHANGED <<zyg, image, lapsed>> => ImageInv'
<1>1. /\ o.d <= MaxDraws /\ status' = [status EXCEPT ![i] = "open"]
      /\ mem' = [mem EXCEPT ![i] = o.m] /\ draws' = o.d
  BY DEF Become
<1>2. InstanceType /\ draws \in Nat /\ MaxDraws \in Nat /\ image \in Raw
  BY Types, Sizes
<1>3. o.d \in 0..MaxDraws /\ o.m \in Raw
  BY <1>1, <1>2 DEF Outcomes
<1>4. o.m \in Memories
  BY <1>3, RawIsMemory DEF Good
<1>5. InstanceType'
  BY <1>1, <1>2, <1>3, <1>4 DEF InstanceType
<1>6. \A j \in All : /\ status'[j] = IF j = i THEN "open" ELSE status[j]
                     /\ mem'[j] = IF j = i THEN o.m ELSE mem[j]
  BY <1>1, <1>2 DEF InstanceType
<1>7. \A j \in All : mem[j] \in Raw
  BY Types
<1>8. \A j \in All : IF status'[j] = "open" THEN Good(mem'[j], draws') ELSE mem'[j] = Fresh
  <2>1. \A j \in All : status[j] = "open" => Good(mem[j], draws')
    BY <1>1, <1>2, <1>3, <1>7, GoodLater DEF IInv, InstanceInv
  <2>2. QED  BY <1>1, <1>6, <2>1 DEF IInv, InstanceInv
<1>9. ASSUME NEW n \in Raw, Apart(mem[i], n), n.worker => n.seed <= draws, n.ctx => n.cookie <= draws
      PROVE  Apart(o.m, n) /\ Apart(n, o.m)
  <2>1. o.m.seed \in Nat /\ o.m.cookie \in Nat /\ n.seed \in Nat /\ n.cookie \in Nat
    BY <1>3 DEF Raw
  <2>2. QED  BY <1>2, <1>9, <2>1 DEF Apart, Redrawn
<1>10. \A j \in All : (mem[j].worker => mem[j].seed <= draws) /\ (mem[j].ctx => mem[j].cookie <= draws)
  BY FreshIsMemory DEF IInv, InstanceInv, Good
<1>11. \A j, k \in All : j # k => Apart(mem'[j], mem'[k])
  <2>1. \A j \in All : j # i => Apart(o.m, mem[j]) /\ Apart(mem[j], o.m)
    BY <1>7, <1>9, <1>10 DEF IInv, InstanceInv
  <2>2. QED  BY <1>6, <2>1 DEF IInv, InstanceInv
<1>12. UNCHANGED <<zyg, image, lapsed>> => ImageInv'
  <2>1. zyg = "image" => Apart(o.m, image)
    BY <1>2, <1>9 DEF IInv, ImageInv, Good
  <2>2. \A j \in All : zyg = "image" => Apart(mem'[j], image)
    BY <1>6, <2>1 DEF IInv, ImageInv
  <2>3. QED  BY <1>1, <1>3, <2>2, ImageLater
<1>13. QED  BY <1>1, <1>5, <1>6, <1>8, <1>11, <1>12 DEF InstanceInv

\* One that is closed leaves the others as they were.
LEMMA DiscardKeeps ==
    ASSUME IInv, NEW i \in All, NEW how \in {"closed", "wrong size"}, Discard(i, how),
           draws' \in 0..MaxDraws, draws' >= draws
    PROVE  /\ InstanceType' /\ InstanceInv'
           /\ \A j \in All : /\ status'[j] = IF j = i THEN how ELSE status[j]
                             /\ mem'[j] = IF j = i THEN Fresh ELSE mem[j]
           /\ UNCHANGED <<zyg, image, lapsed>> => ImageInv'
<1>1. status' = [status EXCEPT ![i] = how] /\ mem' = [mem EXCEPT ![i] = Fresh]
  BY DEF Discard
<1>2. InstanceType /\ draws \in Nat /\ draws' \in Nat
  <2>1. InstanceType /\ draws \in Nat
    BY Types
  <2>2. draws' \in Nat
    BY DrawsAreNatural, Zenon
  <2>3. QED  BY <2>1, <2>2
<1>3. InstanceType'
  BY <1>1, <1>2, FreshIsMemory DEF InstanceType
<1>4. \A j \in All : /\ status'[j] = IF j = i THEN how ELSE status[j]
                     /\ mem'[j] = IF j = i THEN Fresh ELSE mem[j]
  BY <1>1, <1>2 DEF InstanceType
<1>5. \A j \in All : mem[j] \in Raw
  BY Types
<1>6. \A j \in All : status[j] = "open" => Good(mem[j], draws')
  BY <1>2, <1>5, GoodLater DEF IInv, InstanceInv
<1>7. InstanceInv'
  <2>1. \A j, k \in All : j # k => Apart(mem'[j], mem'[k])
    BY <1>4, FreshIsMemory DEF IInv, InstanceInv
  <2>2. QED  BY <1>4, <1>6, <2>1 DEF IInv, InstanceInv
<1>8. UNCHANGED <<zyg, image, lapsed>> => ImageInv'
  <2>1. \A j \in All : zyg = "image" => Apart(mem'[j], image)
    BY <1>4, FreshIsMemory DEF IInv, ImageInv
  <2>2. QED  BY <2>1, ImageLater
<1>9. QED  BY <1>3, <1>4, <1>7, <1>8

\* The template is built, or its init fails.
LEMMA BuildInv ==
    ASSUME IInv, BuildTemplate
    PROVE  IInv'
<1>1. PICK o \in FullMemories(draws) :
         \/ o.ok /\ Become(Template, o) /\ zyg' = "built"
         \/ ~o.ok /\ Discard(Template, "closed") /\ zyg' = "err" /\ draws' = o.d
  BY DEF BuildTemplate
<1>2. UNCHANGED <<image, held, lapsed, served>> /\ zyg = "none"
  BY DEF BuildTemplate
<1>3. Template \in All /\ Template \notin served
  BY Types, Sizes DEF All, OtherType
<1>4. draws \in Nat /\ draws \in 0..MaxDraws /\ OtherType
  BY Types DEF InstanceType
<1>5. o \in Outcomes /\ o.d = draws /\ (o.ok => Good(o.m, draws) /\ ~o.m.ctx /\ ~o.m.worker)
  BY <1>4, FullMemoryIsGood
<1>6. CASE o.ok /\ Become(Template, o) /\ zyg' = "built"
  <2>1. Redrawn(mem[Template], draws, o.m) /\ o.d >= draws
    BY <1>4, <1>5, <1>6 DEF Redrawn
  <2>2. /\ InstanceType' /\ InstanceInv'
        /\ \A j \in All : status'[j] = (IF j = Template THEN "open" ELSE status[j])
                       /\ mem'[j] = (IF j = Template THEN o.m ELSE mem[j])
    BY <1>3, <1>5, <1>6, <2>1, BecomeKeeps
  <2>3. TemplateInv' /\ ImageInv' /\ ServedInv' /\ CloneFitsImage'
    BY <1>2, <1>3, <1>4, <1>6, <2>2 DEF IInv, TemplateInv, ImageInv, ServedInv, CloneFitsImage, All, OtherType
  <2>4. OtherType'
    BY <1>2, <1>4, <1>6 DEF OtherType
  <2>5. QED  BY <2>2, <2>3, <2>4, TypeParts DEF IInv
<1>7. CASE Discard(Template, "closed") /\ zyg' = "err" /\ draws' = o.d
  <2>1. draws' \in 0..MaxDraws /\ draws' >= draws
    BY <1>4, <1>5, <1>7
  <2>2. /\ InstanceType' /\ InstanceInv'
        /\ \A j \in All : status'[j] = (IF j = Template THEN "closed" ELSE status[j])
                       /\ mem'[j] = (IF j = Template THEN Fresh ELSE mem[j])
    BY <1>3, <1>7, <2>1, DiscardKeeps
  <2>3. TemplateInv' /\ ImageInv' /\ ServedInv' /\ CloneFitsImage'
    BY <1>2, <1>3, <1>4, <1>7, <2>2 DEF IInv, TemplateInv, ImageInv, ServedInv, CloneFitsImage, All, OtherType
  <2>4. OtherType'
    BY <1>2, <1>4, <1>7 DEF OtherType
  <2>5. QED  BY <2>2, <2>3, <2>4, TypeParts DEF IInv
<1>8. QED  BY <1>1, <1>6, <1>7

\* The template is warmed, or warmup fails.
LEMMA WarmInv ==
    ASSUME IInv, WarmTemplate
    PROVE  IInv'
<1>1. PICK o \in guest_warmup(mem[Template], draws) :
         \/ o.ok /\ Become(Template, o) /\ zyg' = "warmed" /\ held' = o.m.ids
         \/ /\ ~o.ok /\ o.d <= MaxDraws /\ Discard(Template, "closed") /\ zyg' = "err"
            /\ draws' = o.d /\ UNCHANGED held
  BY DEF WarmTemplate
<1>2. UNCHANGED <<image, lapsed, served>> /\ zyg = "built"
  BY DEF WarmTemplate
<1>3. Template \in All /\ Template \notin served
  BY Types, Sizes DEF All, OtherType
<1>4. draws \in Nat /\ OtherType /\ mem[Template] \in Raw
  BY <1>3, Types
<1>5. Good(mem[Template], draws)
  BY <1>2, <1>3 DEF IInv, TemplateInv, InstanceInv
<1>6. /\ Keeps(Outcome(mem[Template], draws, TRUE), o)
      /\ o.ok => o.m.ctx /\ ~o.m.ctx_err /\ o.m.worker /\ o.m.clock = "zero"
  BY <1>4, <1>5, Warmup
<1>7. o \in Outcomes /\ o.d >= draws /\ Good(o.m, o.d) /\ Redrawn(mem[Template], draws, o.m)
  BY <1>4, <1>6, BeforeCall DEF Keeps
<1>8. CASE o.ok /\ Become(Template, o) /\ zyg' = "warmed" /\ held' = o.m.ids
  <2>1. /\ InstanceType' /\ InstanceInv'
        /\ \A j \in All : status'[j] = (IF j = Template THEN "open" ELSE status[j])
                       /\ mem'[j] = (IF j = Template THEN o.m ELSE mem[j])
    BY <1>3, <1>7, <1>8, BecomeKeeps
  <2>2. TemplateInv' /\ ImageInv' /\ ServedInv' /\ CloneFitsImage'
    BY <1>2, <1>3, <1>4, <1>6, <1>8, <2>1 DEF IInv, TemplateInv, ImageInv, ServedInv, CloneFitsImage, All, OtherType
  <2>3. o.m.ids \subseteq {"socket", "timer"}
    BY <1>7 DEF Outcomes, Raw
  <2>4. OtherType'
    BY <1>2, <1>4, <1>8, <2>3 DEF OtherType
  <2>5. QED  BY <2>1, <2>2, <2>4, TypeParts DEF IInv
<1>9. CASE o.d <= MaxDraws /\ Discard(Template, "closed") /\ zyg' = "err" /\ draws' = o.d /\ UNCHANGED held
  <2>1. draws' \in 0..MaxDraws /\ draws' >= draws
    BY <1>7, <1>9, Sizes DEF Outcomes
  <2>2. /\ InstanceType' /\ InstanceInv'
        /\ \A j \in All : status'[j] = (IF j = Template THEN "closed" ELSE status[j])
                       /\ mem'[j] = (IF j = Template THEN Fresh ELSE mem[j])
    BY <1>3, <1>9, <2>1, DiscardKeeps
  <2>3. TemplateInv' /\ ImageInv' /\ ServedInv' /\ CloneFitsImage'
    BY <1>2, <1>3, <1>4, <1>9, <2>2 DEF IInv, TemplateInv, ImageInv, ServedInv, CloneFitsImage, All, OtherType
  <2>4. OtherType'
    BY <1>2, <1>4, <1>9 DEF OtherType
  <2>5. QED  BY <2>2, <2>3, <2>4, TypeParts DEF IInv
<1>10. QED  BY <1>1, <1>8, <1>9

\* The template is closed; its memory becomes the image if the host holds nothing
\* for it.
LEMMA SnapshotInv ==
    ASSUME IInv, SnapshotTemplate
    PROVE  IInv'
<1>1. /\ zyg = "warmed" /\ Discard(Template, "closed") /\ held' = {} /\ UNCHANGED <<lapsed, draws, served>>
      /\ \/ held = {} /\ image' = mem[Template] /\ zyg' = "image"
         \/ zyg' \in {"off", "err"} /\ image' = image
  BY DEF SnapshotTemplate, HoldsNothing
<1>2. Template \in All /\ Template \notin served
  BY Types, Sizes DEF All, OtherType
<1>3. draws \in 0..MaxDraws /\ draws' = draws /\ draws \in Nat /\ OtherType /\ mem[Template] \in Memories
  BY <1>1, <1>2, Types DEF InstanceType
<1>4. draws' \in 0..MaxDraws /\ draws' >= draws
  BY <1>3
<1>5. /\ InstanceType' /\ InstanceInv'
      /\ \A j \in All : status'[j] = (IF j = Template THEN "closed" ELSE status[j])
                     /\ mem'[j] = (IF j = Template THEN Fresh ELSE mem[j])
  BY <1>1, <1>2, <1>4, DiscardKeeps
<1>6. OtherType'
  BY <1>1, <1>3 DEF OtherType
<1>7. TemplateInv' /\ ServedInv' /\ CloneFitsImage'
  BY <1>1, <1>2, <1>3, <1>5 DEF IInv, TemplateInv, ServedInv, CloneFitsImage, All, OtherType
<1>8. ImageInv'
  <2>1. CASE zyg' = "image"
    <3>1. image' = mem[Template] /\ held = {}
      BY <1>1, <2>1
    <3>2. Good(image', draws')
      BY <1>1, <1>2, <1>3, <3>1 DEF IInv, TemplateInv, InstanceInv
    <3>3. \A j \in All : Apart(mem'[j], image')
      BY <1>2, <1>5, <3>1, FreshIsMemory DEF IInv, InstanceInv
    <3>4. /\ image'.ctx /\ ~image'.ctx_err /\ image'.worker /\ image'.clock = "zero"
          /\ image'.ids \subseteq lapsed'
      BY <1>1, <3>1 DEF IInv, TemplateInv
    <3>5. QED  BY <3>2, <3>3, <3>4 DEF ImageInv
  <2>2. CASE zyg' # "image"
    BY <2>2 DEF ImageInv
  <2>3. QED  BY <2>1, <2>2
<1>9. QED  BY <1>5, <1>6, <1>7, <1>8, TypeParts DEF IInv

\* An instance other than the template becomes, or is discarded.
LEMMA InstanceStepInv ==
    ASSUME IInv, NEW i \in Instances, UNCHANGED <<zyg, image, held, lapsed>>,
           \/ \E o \in Outcomes :
                 /\ o.d >= draws /\ Good(o.m, o.d) /\ Redrawn(mem[i], draws, o.m) /\ Become(i, o)
                 /\ \/ served' = served /\ (i \in served => Ready(o.m))
                    \/ served' = served \cup {i} /\ Ready(o.m)
           \/ Discard(i, "closed") /\ UNCHANGED <<draws, served>>
    PROVE  IInv'
<1>1. i \in All /\ i # Template
  BY Sizes DEF All
<1>2. draws \in 0..MaxDraws /\ draws \in Nat /\ OtherType
  BY Types DEF InstanceType
<1>3. ASSUME NEW o \in Outcomes,
             o.d >= draws, Good(o.m, o.d), Redrawn(mem[i], draws, o.m), Become(i, o),
             \/ served' = served /\ (i \in served => Ready(o.m))
             \/ served' = served \cup {i} /\ Ready(o.m)
      PROVE  IInv'
  <2>1. /\ InstanceType' /\ InstanceInv' /\ ImageInv'
        /\ \A j \in All : status'[j] = (IF j = i THEN "open" ELSE status[j])
                       /\ mem'[j] = (IF j = i THEN o.m ELSE mem[j])
    BY <1>1, <1>3, BecomeKeeps
  <2>2. OtherType'
    BY <1>2, <1>3 DEF OtherType
  <2>3. TemplateInv' /\ CloneFitsImage'
    BY <1>1, <2>1 DEF IInv, TemplateInv, CloneFitsImage, All
  <2>4. ServedInv'
    <3>1. \A j \in served' : j \in All
      BY <2>2 DEF OtherType, All
    <3>2. \A j \in served' : j # i => j \in served
      BY <1>3
    <3>3. i \in served' => Ready(o.m)
      BY <1>3
    <3>4. QED  BY <1>1, <2>1, <3>1, <3>2, <3>3 DEF IInv, ServedInv, Ready
  <2>5. QED  BY <2>1, <2>2, <2>3, <2>4, TypeParts DEF IInv
<1>4. CASE Discard(i, "closed") /\ UNCHANGED <<draws, served>>
  <2>1. draws' \in 0..MaxDraws /\ draws' >= draws
    BY <1>2, <1>4
  <2>2. /\ InstanceType' /\ InstanceInv' /\ ImageInv'
        /\ \A j \in All : status'[j] = (IF j = i THEN "closed" ELSE status[j])
                       /\ mem'[j] = (IF j = i THEN Fresh ELSE mem[j])
    BY <1>1, <1>4, <2>1, DiscardKeeps
  <2>3. OtherType'
    BY <1>2, <1>4 DEF OtherType
  <2>4. TemplateInv' /\ CloneFitsImage' /\ ServedInv'
    BY <1>1, <1>2, <1>4, <2>2 DEF IInv, TemplateInv, CloneFitsImage, ServedInv, All, OtherType
  <2>5. QED  BY <2>2, <2>3, <2>4, TypeParts DEF IInv
<1>5. QED  BY <1>3, <1>4

\* A new instance of the full path.
LEMMA NewFullInv ==
    ASSUME IInv, NEW i \in Instances, NewFull(i)
    PROVE  IInv'
<1>1. PICK o \in FullMemories(draws) :
         \/ o.ok /\ Become(i, o)
         \/ ~o.ok /\ Discard(i, "closed") /\ draws' = o.d
  BY DEF NewFull
<1>2. UNCHANGED <<zyg, image, held, lapsed, served>> /\ status[i] = "none" /\ draws \in Nat
  BY Types DEF NewFull
<1>3. o \in Outcomes /\ o.d = draws /\ (o.ok => Good(o.m, draws) /\ ~o.m.ctx /\ ~o.m.worker)
  BY <1>2, FullMemoryIsGood
<1>4. i \notin served
  BY <1>2 DEF IInv, ServedInv
<1>5. CASE o.ok /\ Become(i, o)
  <2>1. Redrawn(mem[i], draws, o.m) /\ o.d >= draws /\ Good(o.m, o.d)
    BY <1>2, <1>3, <1>5 DEF Redrawn
  <2>2. QED  BY <1>2, <1>3, <1>4, <1>5, <2>1, InstanceStepInv
<1>6. CASE Discard(i, "closed") /\ draws' = o.d
  BY <1>2, <1>3, <1>6, InstanceStepInv
<1>7. QED  BY <1>1, <1>5, <1>6

\* A clone: its size is the image's.
LEMMA NewCloneInv ==
    ASSUME IInv, NEW i \in Instances, NewClone(i)
    PROVE  IInv'
<1>1. PICK mapped \in BOOLEAN :
         \/ Become(i, CloneMemory(MapImage(mapped), draws))
         \/ /\ Discard(i, IF MapImage(mapped).pages.view = image.pages.view THEN "closed" ELSE "wrong size")
            /\ UNCHANGED draws
  BY DEF NewClone
<1>2. /\ UNCHANGED <<zyg, image, held, lapsed, served>> /\ status[i] = "none" /\ zyg = "image"
      /\ draws \in Nat /\ image \in Raw
  BY Types DEF NewClone
<1>3. /\ MapImage(mapped).pages.view = image.pages.view
      /\ LET o == CloneMemory(MapImage(mapped), draws) IN
         o \in Outcomes /\ o.d >= draws /\ Good(o.m, o.d) /\ \A m : Redrawn(m, draws, o.m)
  BY <1>2, CloneIsGood DEF IInv, ImageInv
<1>4. i \notin served
  BY <1>2 DEF IInv, ServedInv
<1>5. CASE Become(i, CloneMemory(MapImage(mapped), draws))
  BY <1>2, <1>3, <1>4, <1>5, InstanceStepInv
<1>6. CASE Discard(i, "closed") /\ UNCHANGED draws
  BY <1>2, <1>6, InstanceStepInv
<1>7. QED  BY <1>1, <1>3, <1>5, <1>6

\* A query is started, or its start fails.
LEMMA ResolveStartInv ==
    ASSUME IInv, NEW i \in Instances, ResolveStart(i)
    PROVE  IInv'
<1>1. PICK o \in guest_resolve_start(mem[i], draws) :
         Become(i, o) /\ served' = IF o.ok THEN served \cup {i} ELSE served
  BY DEF ResolveStart
<1>2. UNCHANGED <<zyg, image, held, lapsed>> /\ status[i] = "open" /\ i \in All
  BY DEF ResolveStart, All
<1>3. draws \in Nat /\ mem[i] \in Raw /\ Good(mem[i], draws)
  BY <1>2, Types DEF IInv, InstanceInv
<1>4. Keeps(Outcome(mem[i], draws, TRUE), o) /\ (o.ok \/ Ready(mem[i]) => Ready(o.m))
  BY <1>3, ResolveStartKeeps
<1>5. o \in Outcomes /\ o.d >= draws /\ Good(o.m, o.d) /\ Redrawn(mem[i], draws, o.m)
  BY <1>3, <1>4, BeforeCall DEF Keeps
<1>6. i \in served => Ready(mem[i])
  BY <1>2 DEF IInv, ServedInv, Ready
<1>7. \/ served' = served /\ (i \in served => Ready(o.m))
      \/ served' = served \cup {i} /\ Ready(o.m)
  BY <1>1, <1>4, <1>6
<1>8. QED  BY <1>1, <1>2, <1>5, <1>7, InstanceStepInv

\* memory.grow.
LEMMA GrowInv ==
    ASSUME IInv, NEW i \in Instances, Grow(i)
    PROVE  IInv'
<1>1. PICK z \in mem[i].pages.view + 1..MaxPages :
         mem' = [mem EXCEPT ![i].pages = Reallocate(mem[i].pages, z)]
  BY DEF Grow
<1>2. UNCHANGED <<status, zyg, image, held, lapsed, draws, served>> /\ status[i] = "open" /\ i \in All /\ i # Template
  BY Sizes DEF Grow, All
<1>3. draws \in Nat /\ draws <= MaxDraws /\ mem[i] \in Raw /\ Good(mem[i], draws) /\ InstanceType
  BY <1>2, Types DEF IInv, InstanceInv
<1> DEFINE P == Reallocate(mem[i].pages, z)
           g == [mem[i] EXCEPT !.pages = P]
<1>4. P \in LinearMemories(0..MaxPages) /\ P.view >= MinPages
  <2>1. mem[i].pages \in LinearMemories(0..MaxPages)
    BY <1>3 DEF Raw
  <2>2. mem[i].pages.view \in 0..MaxPages
    BY <2>1 DEF LinearMemories
  <2>3. MinPages <= mem[i].pages.view
    BY <1>3 DEF Good
  <2>4. z \in 0..MaxPages /\ z >= MinPages
    BY <2>2, <2>3, Sizes
  <2>5. P \in LinearMemories(0..MaxPages) /\ P.view >= z
    BY <2>1, <2>4, ReallocateFits
  <2>6. P.view \in 0..MaxPages
    BY <2>5 DEF LinearMemories
  <2>7. QED  BY <2>4, <2>5, <2>6, Sizes
<1>5. mem' = [mem EXCEPT ![i] = g]
  BY <1>1
<1> HIDE DEF P
<1>6. ASSUME NEW m \in Raw, NEW q, q = [m EXCEPT !.pages = P]
      PROVE  /\ q \in Raw /\ q.pages = P /\ q.seed = m.seed /\ q.sdata = m.sdata /\ q.cookie = m.cookie
             /\ q.text = m.text /\ q.applied = m.applied /\ q.ctx = m.ctx /\ q.ctx_err = m.ctx_err
             /\ q.finalized = m.finalized /\ q.worker = m.worker /\ q.clock = m.clock
  BY <1>4, <1>6 DEF Raw
<1>7. /\ g \in Raw /\ g.pages = P /\ g.seed = mem[i].seed /\ g.sdata = mem[i].sdata
      /\ g.cookie = mem[i].cookie /\ g.text = mem[i].text /\ g.applied = mem[i].applied
      /\ g.ctx = mem[i].ctx /\ g.ctx_err = mem[i].ctx_err /\ g.finalized = mem[i].finalized
      /\ g.worker = mem[i].worker /\ g.clock = mem[i].clock
  BY <1>3, <1>6
<1> HIDE DEF g
<1>8. Good(g, draws) /\ Redrawn(mem[i], draws, g) /\ (Ready(mem[i]) => Ready(g))
  BY <1>3, <1>4, <1>7 DEF Good, Redrawn, Ready
<1> DEFINE o == Outcome(g, draws, TRUE)
<1>9. o \in Outcomes /\ o.m = g /\ o.d = draws
  BY <1>3, <1>7, BeforeCall
<1>10. Become(i, o)
  <2>1. status' = [status EXCEPT ![i] = "open"]
    BY <1>2, <1>3 DEF InstanceType
  <2>2. QED  BY <1>2, <1>3, <1>5, <1>9, <2>1 DEF Become
<1>11. i \in served => Ready(o.m)
  BY <1>2, <1>8, <1>9 DEF IInv, ServedInv, Ready
<1> HIDE DEF o
<1>12. o.d >= draws /\ Good(o.m, o.d) /\ Redrawn(mem[i], draws, o.m)
  BY <1>3, <1>8, <1>9
<1>13. QED  BY <1>2, <1>9, <1>10, <1>11, <1>12, InstanceStepInv

\* Closing an instance, or the template.
LEMMA CloseInv ==
    ASSUME IInv, NEW i \in All, Close(i)
    PROVE  IInv'
<1>1. /\ status[i] = "open" /\ Discard(i, "closed") /\ UNCHANGED <<image, lapsed, draws, served>>
      /\ zyg' = (IF i = Template THEN "err" ELSE zyg) /\ held' = (IF i = Template THEN {} ELSE held)
  BY DEF Close
<1>2. draws \in 0..MaxDraws /\ draws \in Nat /\ OtherType
  BY Types DEF InstanceType
<1>3. CASE i # Template
  <2>1. i \in Instances /\ UNCHANGED <<zyg, image, held, lapsed>>
    BY <1>1, <1>3 DEF All
  <2>2. QED  BY <1>1, <2>1, InstanceStepInv
<1>4. CASE i = Template
  <2>1. draws' \in 0..MaxDraws /\ draws' >= draws /\ zyg' = "err" /\ held' = {} /\ Template \notin served
    BY <1>1, <1>2, <1>4, Sizes DEF OtherType
  <2>2. /\ InstanceType' /\ InstanceInv'
        /\ \A j \in All : status'[j] = (IF j = i THEN "closed" ELSE status[j])
                       /\ mem'[j] = (IF j = i THEN Fresh ELSE mem[j])
    BY <1>1, <2>1, DiscardKeeps
  <2>3. OtherType'
    BY <1>1, <1>2, <2>1 DEF OtherType
  <2>4. TemplateInv' /\ ImageInv'
    BY <2>1 DEF TemplateInv, ImageInv
  <2>5. CloneFitsImage' /\ ServedInv'
    BY <1>1, <1>2, <1>4, <2>1, <2>2 DEF IInv, CloneFitsImage, ServedInv, All, OtherType
  <2>6. QED  BY <2>2, <2>3, <2>4, <2>5, TypeParts DEF IInv
<1>5. QED  BY <1>3, <1>4

\* Steps that touch no memory.
LEMMA QuietInv ==
    ASSUME IInv, SkipZygote \/ TemplateTimerFires \/ UNCHANGED vars
    PROVE  IInv'
<1>1. UNCHANGED <<status, mem, image, draws, served>>
  BY DEF SkipZygote, TemplateTimerFires, vars
<1>2. \/ zyg = "none" /\ zyg' = "off" /\ held' = held /\ lapsed' = lapsed
      \/ zyg' = zyg /\ held' = held /\ lapsed' = lapsed
      \/ zyg' = zyg /\ zyg = "warmed" /\ held' = held \ {"timer"} /\ lapsed' = {"timer"}
  BY DEF SkipZygote, TemplateTimerFires, vars
<1>3. OtherType' /\ InstanceType'
  BY <1>1, <1>2, Types DEF OtherType, InstanceType
<1>4. InstanceInv' /\ ServedInv' /\ CloneFitsImage'
  BY <1>1 DEF IInv, InstanceInv, ServedInv, CloneFitsImage
<1>5. TemplateInv' /\ ImageInv'
  <2>1. held \cup lapsed \subseteq held' \cup lapsed'
    BY <1>2, Types DEF OtherType
  <2>2. TemplateInv'
    BY <1>1, <1>2, <2>1 DEF IInv, TemplateInv
  <2>3. ImageInv'
    BY <1>1, <1>2 DEF IInv, ImageInv
  <2>4. QED  BY <2>2, <2>3
<1>6. QED  BY <1>3, <1>4, <1>5, TypeParts DEF IInv

\* The invariant holds in every reachable state.
THEOREM Inductive == Spec => []IInv
<1>1. IInv /\ [Next]_vars => IInv'
  <2> SUFFICES ASSUME IInv, [Next]_vars PROVE IInv'
    OBVIOUS
  <2>1. CASE SkipZygote \/ TemplateTimerFires \/ UNCHANGED vars
    BY <2>1, QuietInv
  <2>2. CASE BuildTemplate
    BY <2>2, BuildInv
  <2>3. CASE WarmTemplate
    BY <2>3, WarmInv
  <2>4. CASE SnapshotTemplate
    BY <2>4, SnapshotInv
  <2>5. CASE \E i \in Instances : NewFull(i) \/ NewClone(i) \/ ResolveStart(i) \/ Grow(i)
    BY <2>5, NewFullInv, NewCloneInv, ResolveStartInv, GrowInv
  <2>6. CASE \E i \in All : Close(i)
    BY <2>6, CloseInv
  <2>7. QED  BY <2>1, <2>2, <2>3, <2>4, <2>5, <2>6 DEF Next
<1>2. QED  BY <1>1, InitInv, PTL DEF Spec

-----------------------------------------------------------------------------
(***************************************************************************)
(* What it shows.                                                          *)
(***************************************************************************)
\* Every variable has its type; in particular no memory outgrows its limit.
THEOREM TypeCorrect == Spec => []TypeOK
  BY Inductive, PTL DEF IInv

\* No two instances that are set up share a hash seed or a cookie secret, and none
\* has those of the image, however many clones are made of it.
THEOREM EntropyIsNotShared == Spec => []NoSharedEntropy
<1>1. IInv => NoSharedEntropy
  <2> SUFFICES ASSUME IInv PROVE NoSharedEntropy
    OBVIOUS
  <2>1. \A i \in All : status[i] = "open" /\ mem[i].worker => mem[i].ctx
    BY DEF IInv, InstanceInv, Good
  <2>2. QED  BY <2>1 DEF IInv, InstanceInv, ImageInv, Apart, NoSharedEntropy
<1>2. QED  BY <1>1, Inductive, PTL

\* A query is attached only to a context that was given every line of its inputs and
\* has a worker, the template's data and entropy of its own.
THEOREM ServesOnlySetUp == Spec => []ServesFullySetUp
<1>1. IInv => ServesFullySetUp
  <2> SUFFICES ASSUME IInv, NEW i \in served, status[i] = "open"
               PROVE  /\ \A k \in Inputs : mem[i].applied[k] = 1..Lines[k]
                      /\ mem[i].ctx /\ mem[i].finalized /\ mem[i].worker /\ ~mem[i].ctx_err
                      /\ mem[i].sdata = "run" /\ mem[i].clock = "now"
                      /\ mem[i].seed # Fresh.seed /\ mem[i].cookie # Fresh.cookie
    BY DEF ServesFullySetUp
  <2>1. i \in All
    BY Types DEF OtherType, All
  <2>2. mem[i].ctx /\ ~mem[i].ctx_err /\ mem[i].worker /\ mem[i].clock = "now"
    BY DEF IInv, ServedInv
  <2>3. Good(mem[i], draws)
    BY <2>1 DEF IInv, InstanceInv
  <2>4. Fresh.seed = 0 /\ Fresh.cookie = 0
    BY DEF Fresh
  <2>5. mem[i].seed > 0 /\ mem[i].cookie > 0 /\ mem[i].seed \in Nat /\ mem[i].cookie \in Nat
    <3>1. mem[i] \in Raw
      BY <2>1, Types
    <3>2. mem[i].seed \in Nat /\ mem[i].cookie \in Nat
      BY <3>1 DEF Raw
    <3>3. QED  BY <2>2, <2>3, <3>2 DEF Good
  <2>6. QED  BY <2>2, <2>3, <2>4, <2>5 DEF Good
<1>2. QED  BY <1>1, Inductive, PTL

\* The image has a context set up without failure, no time in it, and names nothing
\* of the host but a timer that fired before the snapshot.
THEOREM ImageTravels == Spec => []ImageIsPortable
<1>1. IInv => ImageIsPortable
  BY DEF IInv, ImageInv, ImageIsPortable
<1>2. QED  BY <1>1, Inductive, PTL

\* newClone never finds a clone's memory of another size than the image.
THEOREM CloneAlwaysFits == Spec => []CloneFitsImage
<1>1. IInv => CloneFitsImage
  BY DEF IInv
<1>2. QED  BY <1>1, Inductive, PTL
=============================================================================
