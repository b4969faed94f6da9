----------------------------- MODULE GuestContext -----------------------------
(* The guest's context and how it gets into an instance: init, warmup,     *)
(* reseed and the lazy set-up of resolve_start (backends/guest.c), the     *)
(* template that initZygote warms and snapshots, and the clones that       *)
(* newClone makes of the snapshot (zygote.go).                             *)
(*                                                                         *)
(* A guest call holds guestMu and nothing else touches an instance's       *)
(* memory meanwhile, so an export is one step: an operator from the memory *)
(* and the entropy drawn so far to the set of outcomes it can have.        *)
(* Libunbound is external; each of its calls may fail.                     *)
EXTENDS LinearMemory, FiniteSets

CONSTANTS Instances,  \* the instances that NewInstance makes
          Template,   \* the instance that initZygote builds
          Lines,      \* how many lines each of the inputs of init has
          MinPages,   \* size of the memory that the module declares
          MaxPages,   \* Config.MemoryLimit, in pages
          MaxDraws    \* bound: calls of the entropy import

Inputs == {"cfg", "anchors", "hints"}

ASSUME ContextAssumption ==
    /\ Template \notin Instances
    /\ Lines \in [Inputs -> Nat]
    /\ MinPages \in Nat /\ MaxPages \in Nat /\ MinPages <= MaxPages
    /\ MaxDraws \in Nat

VARIABLES status,  \* per instance, the template included: none, open, ...
          mem,     \* per instance, what its linear memory holds
          zyg,     \* how far initZygote is, and its outcome
          image,   \* zygote.image
          held,    \* sockets and timers the host keeps for the template
          lapsed,  \* history: timers of the template that fired before its snapshot
          draws,   \* calls of the entropy import so far, all answers differ
          served   \* instances that attached a query to their context

vars == <<status, mem, zyg, image, held, lapsed, draws, served>>

All == Instances \cup {Template}

(* What the memory of a fresh module holds.  seed (raninit) and sdata      *)
(* (every other initialised datum that running the guest changes) lie in   *)
(* data segments; draw 0 is the constant that the module comes with.       *)
(* text counts the lines of an input that its C string still shows,        *)
(* applied holds the lines that the context was given, ids the host        *)
(* resources that the guest knows of.                                      *)
Fresh == [seed |-> 0, sdata |-> "initial", cookie |-> 0,
          text |-> [k \in Inputs |-> 0], applied |-> [k \in Inputs |-> {}],
          ctx |-> FALSE, ctx_err |-> FALSE, finalized |-> FALSE,
          worker |-> FALSE, clock |-> "zero", ids |-> {},
          pages |-> MmapMemory(0, FALSE)]

Memories ==
    [seed : 0..MaxDraws, sdata : {"initial", "run"}, cookie : 0..MaxDraws,
     text : [Inputs -> Nat], applied : [Inputs -> SUBSET Nat],
     ctx : BOOLEAN, ctx_err : BOOLEAN, finalized : BOOLEAN, worker : BOOLEAN,
     clock : {"zero", "setup", "now"}, ids : SUBSET {"socket", "timer"},
     pages : LinearMemories(0..MaxPages)]

-----------------------------------------------------------------------------
(* Guest calls.                                                            *)

Outcome(m, d, ok) == [m |-> m, d |-> d, ok |-> ok]

(* F runs after what has the outcomes os, unless that failed.              *)
Then(os, F(_)) == UNION {IF o.ok THEN F(o) ELSE {o} : o \in os}

(* A failure is recorded in ctx_err.                                       *)
Sticky(os) == {IF o.ok THEN o ELSE [o EXCEPT !.m.ctx_err = TRUE] : o \in os}

(* init keeps copies of its inputs; a copy that cannot be allocated is     *)
(* NULL, and -ENOMEM is returned once all three were tried.                *)
guest_init(m, d) ==
    {Outcome([m EXCEPT !.sdata = "run",
                       !.text = [k \in Inputs |-> IF k \in saved THEN Lines[k] ELSE 0]],
             d, saved = Inputs) : saved \in SUBSET Inputs}

(* apply_lines cuts the text at the end of its first line before it        *)
(* applies it, so whoever came back would see that line only.  libunbound  *)
(* may refuse any line.                                                    *)
apply_lines(k, o) ==
    LET Given(n) == [o.m EXCEPT !.applied[k] = @ \cup 1..n,
                                !.text[k] = IF @ > 1 THEN 1 ELSE @]
    IN  {Outcome(Given(n), o.d, n = o.m.text[k]) : n \in 0..o.m.text[k]}

(* ub_ctx_create_ub_event: a context with a cookie secret of its own.      *)
ub_ctx_create(o) ==
    {[o EXCEPT !.ok = FALSE],
     Outcome([o.m EXCEPT !.ctx = TRUE, !.cookie = o.d + 1], o.d + 1, TRUE)}

(* The context of a first call: created and configured.                    *)
NewContext(o) ==
    LET Cfg(p) == apply_lines("cfg", p)
        Anchors(p) == apply_lines("anchors", p)
        Hints(p) == apply_lines("hints", p)
    IN  Then(Then(Then(ub_ctx_create(o), Cfg), Anchors), Hints)

(* Mutant of ensure_ctx: a failure is reported but not remembered.         *)
ensure_ctx_forgetful(o) == IF o.m.ctx THEN {o} ELSE NewContext(o)

ensure_ctx(o) ==
    IF o.m.ctx_err THEN {[o EXCEPT !.ok = FALSE]}
    ELSE IF o.m.ctx THEN {o}
    ELSE Sticky(NewContext(o))

(* context_finalize, unless it was done.                                   *)
Finalize(o) ==
    IF o.m.finalized THEN {o}
    ELSE {[o EXCEPT !.ok = FALSE], [o EXCEPT !.m.finalized = TRUE]}

(* libworker_create_event seeds the hash tables, reads the clock, and      *)
(* grows the memory to the n pages it needs.  It may break its promise and *)
(* open a socket or start a timer.                                         *)
WithWorker(o, ids, n) ==
    Outcome([o.m EXCEPT !.worker = TRUE, !.seed = o.d + 1, !.clock = "setup",
                        !.ids = ids, !.pages = Reallocate(@, n)], o.d + 1, TRUE)

(* libworker_create_event, unless it was done.                             *)
CreateWorker(o) ==
    IF o.m.worker THEN {o}
    ELSE {[o EXCEPT !.ok = FALSE]} \cup
         {WithWorker(o, ids, n) :
             ids \in SUBSET {"socket", "timer"},
             n \in {z \in o.m.pages.view..MaxPages : ~Refuses(o.m.pages, z)}}

(* Mutant of ensure_worker: the cached time stays.                         *)
ensure_worker_timed(o) == Sticky(Then(Finalize(o), CreateWorker))

(* ensure_worker clears the cached time of the worker's event base.        *)
ensure_worker(o) ==
    {IF w.ok THEN [w EXCEPT !.m.clock = "zero"] ELSE w :
        w \in Sticky(Then(Finalize(o), CreateWorker))}

guest_warmup(m, d) == Then(ensure_ctx(Outcome(m, d, TRUE)), ensure_worker)

guest_reseed(m, d) ==
    IF m.ctx THEN Outcome([m EXCEPT !.seed = d + 1, !.cookie = d + 2], d + 2, TRUE)
             ELSE Outcome([m EXCEPT !.seed = d + 1], d + 1, TRUE)

(* ub_resolve_event finishes what set-up is left, stamps the time and      *)
(* attaches the query.  Its failures are not sticky.                       *)
ub_resolve_event(o) ==
    LET Attach(p) == {[p EXCEPT !.m.clock = "now", !.ok = ok] : ok \in BOOLEAN}
    IN  Then(Then(Finalize(o), CreateWorker), Attach)

(* resolve_start; the copy of the name or the search for a slot may fail.  *)
guest_resolve_start(m, d) ==
    LET Start(o) == {[o EXCEPT !.ok = FALSE]} \cup ub_resolve_event(o)
    IN  Then(ensure_ctx(Outcome(m, d, TRUE)), Start)

-----------------------------------------------------------------------------
(* Memories of new instances.                                              *)

(* newFullInstance: an instantiated module, its start functions, and init. *)
FullMemories(d) ==
    UNION {guest_init([Fresh EXCEPT !.pages = Reallocate(MmapMemory(MaxPages, mapped), MinPages)], d) :
           mapped \in BOOLEAN}

(* wazero instantiates over the image: it asks for the declared size and   *)
(* writes the pristine data segments.                                      *)
MapImage(mapped) ==
    [image EXCEPT !.seed = Fresh.seed, !.sdata = Fresh.sdata,
                  !.pages = Reallocate(ImageMemory(MaxPages, image.pages.view, mapped), MinPages)]

(* Mutant of RestoreSegments: nothing is restored.                         *)
RestoreNothing(m) == m

RestoreSegments(m) == [m EXCEPT !.seed = image.seed, !.sdata = image.sdata]

(* Mutant of CloneMemory: reseed comes first and is undone.                *)
CloneMemoryReseededFirst(m, d) ==
    LET o == guest_reseed(m, d) IN [o EXCEPT !.m = RestoreSegments(o.m)]

(* newClone: the segments are restored, then the entropy is redrawn.       *)
CloneMemory(m, d) == guest_reseed(RestoreSegments(m), d)

-----------------------------------------------------------------------------
(* Actions.                                                                *)

Init ==
    /\ status = [i \in All |-> "none"]
    /\ mem = [i \in All |-> Fresh]
    /\ zyg = "none" /\ image = Fresh /\ held = {} /\ lapsed = {}
    /\ draws = 0 /\ served = {}

(* A closed instance's memory is gone.                                     *)
Discard(i, how) ==
    /\ status' = [status EXCEPT ![i] = how]
    /\ mem' = [mem EXCEPT ![i] = Fresh]

Become(i, o) ==
    /\ o.d <= MaxDraws
    /\ status' = [status EXCEPT ![i] = "open"]
    /\ mem' = [mem EXCEPT ![i] = o.m]
    /\ draws' = o.d

(* initZygote returns early: cloning is disabled, or has no allocator, or  *)
(* the module's data segments are not understood.                          *)
SkipZygote ==
    /\ zyg = "none"
    /\ zyg' = "off"
    /\ UNCHANGED <<status, mem, image, held, lapsed, draws, served>>

(* initZygote: the template is built on the full path.                     *)
BuildTemplate ==
    /\ zyg = "none"
    /\ \E o \in FullMemories(draws) :
          \/ o.ok /\ Become(Template, o) /\ zyg' = "built"
          \/ ~o.ok /\ Discard(Template, "closed") /\ zyg' = "err" /\ draws' = o.d
    /\ UNCHANGED <<image, held, lapsed, served>>

(* initZygote: warmup; its failure becomes zygoteErr.                      *)
WarmTemplate ==
    /\ zyg = "built"
    /\ \E o \in guest_warmup(mem[Template], draws) :
          \/ o.ok /\ Become(Template, o) /\ zyg' = "warmed" /\ held' = o.m.ids
          \/ /\ ~o.ok /\ o.d <= MaxDraws
             /\ Discard(Template, "closed") /\ zyg' = "err"
             /\ draws' = o.d /\ UNCHANGED held
    /\ UNCHANGED <<image, lapsed, served>>

(* A timer that warmup started leaves the host's table when it fires.      *)
TemplateTimerFires ==
    /\ zyg = "warmed" /\ "timer" \in held
    /\ held' = held \ {"timer"} /\ lapsed' = {"timer"}
    /\ UNCHANGED <<status, mem, zyg, image, draws, served>>

(* Mutant of HoldsNothing: only sockets are counted.                       *)
HoldsNoSocket(h) == "socket" \notin h

HoldsNothing(h) == h = {}

(* initZygote: the check for host resources, the snapshot, the image file; *)
(* the template is closed either way.                                      *)
SnapshotTemplate ==
    /\ zyg = "warmed"
    /\ \/ HoldsNothing(held) /\ image' = mem[Template] /\ zyg' = "image"
       \/ HoldsNothing(held) /\ zyg' = "off" /\ UNCHANGED image
       \/ ~HoldsNothing(held) /\ zyg' = "err" /\ UNCHANGED image
    /\ Discard(Template, "closed")
    /\ held' = {}
    /\ UNCHANGED <<lapsed, draws, served>>

(* NewInstance without a template.                                         *)
NewFull(i) ==
    /\ status[i] = "none" /\ zyg = "off"
    /\ \E o \in FullMemories(draws) :
          \/ o.ok /\ Become(i, o)
          \/ ~o.ok /\ Discard(i, "closed") /\ draws' = o.d
    /\ UNCHANGED <<zyg, image, held, lapsed, served>>

(* NewInstance with a template.  A trap of reseed or another ABI version   *)
(* closes the clone.                                                       *)
NewClone(i) ==
    /\ status[i] = "none" /\ zyg = "image"
    /\ \E mapped \in BOOLEAN :
         LET m == MapImage(mapped)
             fits == m.pages.view = image.pages.view
         IN  \/ fits /\ Become(i, CloneMemory(m, draws))
             \/ Discard(i, IF fits THEN "closed" ELSE "wrong size") /\ UNCHANGED draws
    /\ UNCHANGED <<zyg, image, held, lapsed, served>>

(* One query of a batch: resolve_start.  An error settles the query and    *)
(* leaves the instance open.                                               *)
ResolveStart(i) ==
    /\ status[i] = "open"
    /\ \E o \in guest_resolve_start(mem[i], draws) :
          /\ Become(i, o)
          /\ served' = IF o.ok THEN served \cup {i} ELSE served
    /\ UNCHANGED <<zyg, image, held, lapsed>>

(* The guest's memory.grow.                                                *)
Grow(i) ==
    /\ status[i] = "open" /\ mem[i].worker
    /\ \E n \in mem[i].pages.view + 1..MaxPages :
          /\ ~Refuses(mem[i].pages, n)
          /\ mem' = [mem EXCEPT ![i].pages = Reallocate(@, n)]
    /\ UNCHANGED <<status, zyg, image, held, lapsed, draws, served>>

(* Instance.Close, or a trap of the guest; the template's trap in          *)
(* initZygote becomes zygoteErr.                                           *)
Close(i) ==
    /\ status[i] = "open"
    /\ Discard(i, "closed")
    /\ zyg' = IF i = Template THEN "err" ELSE zyg
    /\ held' = IF i = Template THEN {} ELSE held
    /\ UNCHANGED <<image, lapsed, draws, served>>

Next ==
    \/ SkipZygote \/ BuildTemplate \/ WarmTemplate
    \/ TemplateTimerFires \/ SnapshotTemplate
    \/ \E i \in Instances : NewFull(i) \/ NewClone(i) \/ ResolveStart(i) \/ Grow(i)
    \/ \E i \in All : Close(i)

Spec == Init /\ [][Next]_vars

-----------------------------------------------------------------------------
(* Properties.                                                             *)

TypeOK ==
    /\ status \in [All -> {"none", "open", "closed", "wrong size"}]
    /\ mem \in [All -> Memories]
    /\ zyg \in {"none", "built", "warmed", "image", "off", "err"}
    /\ image \in Memories
    /\ held \subseteq {"socket", "timer"} /\ lapsed \subseteq {"timer"}
    /\ draws \in 0..MaxDraws
    /\ served \subseteq Instances

(* Entropy that set-up stores is never shared: two instances that are set  *)
(* up, clones of one image included, have different hash seeds and cookie  *)
(* secrets, and none has those of the image (zygote.go, newClone, and the  *)
(* comment of guest_reseed).                                               *)
NoSharedEntropy ==
    LET Warm == {i \in All : status[i] = "open" /\ mem[i].worker}
        Differ(m, n) == m.seed # n.seed /\ m.cookie # n.cookie
    IN  /\ \A i, j \in Warm : i # j => Differ(mem[i], mem[j])
        /\ zyg = "image" => \A i \in Warm : Differ(mem[i], image)

(* A query is only ever attached to a context that is set up completely,   *)
(* whichever way the instance came about and whatever failed before: it    *)
(* was given every line of its inputs (guest.c, the comment of             *)
(* ensure_ctx), "resolutions work the same whether or not warmup ran       *)
(* first" (guest_warmup), and the data segments go with the heap.          *)
ServesFullySetUp ==
    \A i \in served : status[i] = "open" =>
        /\ \A k \in Inputs : mem[i].applied[k] = 1..Lines[k]
        /\ mem[i].ctx /\ mem[i].finalized /\ mem[i].worker /\ ~mem[i].ctx_err
        /\ mem[i].sdata = "run" /\ mem[i].clock = "now"
        /\ mem[i].seed # Fresh.seed /\ mem[i].cookie # Fresh.cookie

(* The image is a context set up without failure that carries nothing of   *)
(* the template's time and names nothing that the host holds (zygote.go,   *)
(* initZygote; guest.c, ensure_worker): every socket that was opened and   *)
(* every timer that was started is noticed, but for a timer that fired and *)
(* so left the host's table before initZygote looked.                      *)
ImageIsPortable ==
    zyg = "image" => /\ image.ctx /\ ~image.ctx_err /\ image.worker
                     /\ image.clock = "zero"
                     /\ image.ids \subseteq lapsed

(* A clone's memory always starts as large as the image, mapped or copied, *)
(* although the module asks for less: newClone's check of the size never   *)
(* fails (zygote.go, newClone; memory_unix.go, the two Reallocates).       *)
CloneFitsImage == \A i \in Instances : status[i] # "wrong size"
=============================================================================
