---------------------------- MODULE RuntimeLifecycle ----------------------------
(***************************************************************************)
(* The life cycle of a Runtime and of its Instances (runtime.go, host.go,  *)
(* zygote.go, memory_unix.go): NewInstance with the one-time construction  *)
(* of the zygote template, guest calls under guestMu, Instance.Close and   *)
(* Runtime.Close, all of which may run in different goroutines.            *)
(*                                                                         *)
(* Every caller of NewInstance makes one instance, so a member of Creators *)
(* names the goroutine, its Instance and its instanceState.  The template  *)
(* has an identity of its own; its steps are those of the goroutine that   *)
(* is inside zygoteOnce.Do.  A critical section of r.mu or guestMu whose   *)
(* body runs no guest code is one step.  A guest call is two (enter and    *)
(* return), with guestMu held in between.  wazero is external: it is       *)
(* modelled by what the code relies on (see MapAndRegister, WazeroClose).  *)
(***************************************************************************)
EXTENDS Naturals, FiniteSets

CONSTANTS
    Creators,   \* the goroutines that call NewInstance
    Template,   \* the zygote template's instance
    Outcomes    \* what the environment makes of initZygote: "clone", "full"

ASSUME CreatorsAssumption == Template \notin Creators
ASSUME OutcomesAssumption == Outcomes \subseteq {"clone", "full"}

Ids == Creators \cup {Template}

VARIABLES
    once,          \* zygoteOnce: "idle", "running", "done"
    zygote,        \* r.zygote # nil
    zygoteErr,     \* r.zygoteErr # nil
    file,          \* the template's image file: "none", "open", "closed"
    states,        \* the keys of r.states
    wazeroClosed,  \* r.wazero has been closed
    rpc,           \* where Runtime.Close is
    swept,         \* states Runtime.Close has taken and not yet torn down
    cur,           \* the one it is tearing down
    pc,            \* where each creator (or the template's builder) is
    stage,         \* set-up guest blocks completed
    mod,           \* state.mod # nil
    modDead,       \* state.modDead
    guestMu,       \* guestMu is held by a guest block
    shut,          \* state.done is closed: sockets and timers are gone
    mem,           \* the linear memory: "none", "mapped", "freed"
    image,         \* what it was mapped from: "none", "fresh", "template", "foreign"
    cpc            \* where the one effective Instance.Close is

rtVars   == <<rpc, swept, cur>>
zyVars   == <<once, zygote, zygoteErr, file>>
instVars == <<mod, modDead, guestMu, shut, mem, image>>
vars     == <<rtVars, zyVars, instVars, states, wazeroClosed, pc, stage, cpc>>

-----------------------------------------------------------------------------
\* r.closed is set by the compare-and-swap that Runtime.Close begins with.
Closed == rpc # "open"

\* Instances take the full path when there is no template to clone; the
\* template itself always does.
Full(i) == i = Template \/ ~zygote

\* The guest blocks that follow instantiation: checkABIVersion and initialize
\* on the full path (whose allocations and frees the one "init" stands for);
\* warm-up and the reading of the memory for the template; restoring the data
\* segments, reseeding and checkABIVersion for a clone.
SetupCalls(i) == IF i = Template THEN 4 ELSE IF Full(i) THEN 2 ELSE 3

RuntimePCs  == {"open", "once", "sweep", "loop", "module", "file", "done"}
InstancePCs == {"new", "once", "register", "instantiate", "alloc", "map", "mapFd",
                "starting", "publish", "setup", "ready", "closing", "drop",
                "dropped", "gone"}
ClosePCs    == {"idle", "state", "remove", "module", "done"}

Init ==
    /\ once = "idle" /\ zygote = FALSE /\ zygoteErr = FALSE /\ file = "none"
    /\ states = {} /\ wazeroClosed = FALSE
    /\ rpc = "open" /\ swept = {} /\ cur = Template
    /\ pc = [i \in Ids |-> "new"]
    /\ stage = [i \in Ids |-> 0]
    /\ mod = [i \in Ids |-> FALSE]
    /\ modDead = [i \in Ids |-> FALSE]
    /\ guestMu = [i \in Ids |-> FALSE]
    /\ shut = [i \in Ids |-> FALSE]
    /\ mem = [i \in Ids |-> "none"]
    /\ image = [i \in Ids |-> "none"]
    /\ cpc = [i \in Ids |-> "idle"]

-----------------------------------------------------------------------------
(***************************************************************************)
(* NewInstance and initZygote.                                             *)
(***************************************************************************)
Goto(i, l) == pc' = [pc EXCEPT ![i] = l]

\* The closed check, then zygoteOnce.Do is called.
NewInstance(c) ==
    /\ pc[c] = "new"
    /\ Goto(c, IF Closed THEN "gone" ELSE "once")
    /\ UNCHANGED <<rtVars, zyVars, instVars, states, wazeroClosed, stage, cpc>>

\* The first caller runs initZygote: it returns at once when cloning is
\* disabled or the module's data segments cannot be parsed.
InitZygote(c) ==
    /\ pc[c] = "once" /\ once = "idle"
    /\ \/ /\ once' = "running" /\ Goto(Template, "register")
       \/ /\ "full" \in Outcomes
          /\ once' = "done" /\ UNCHANGED pc
    /\ UNCHANGED <<rtVars, zygote, zygoteErr, file, instVars, states,
                   wazeroClosed, stage, cpc>>

\* Once.Do returns only when the initialisation has, for every caller.
AfterOnce(c) ==
    /\ pc[c] = "once" /\ once = "done"
    /\ Goto(c, IF zygoteErr THEN "gone" ELSE "register")
    /\ UNCHANGED <<rtVars, zyVars, instVars, states, wazeroClosed, stage, cpc>>

\* Mutant of GiveUp: a failed template leaves the Once running.
GiveUpNoOnce(i) ==
    /\ Goto(i, "gone")
    /\ zygoteErr' = (zygoteErr \/ i = Template)
    /\ UNCHANGED <<once, zygote, file>>

\* An error return.  For the template it is also the end of initZygote.
GiveUp(i) ==
    /\ Goto(i, "gone")
    /\ IF i = Template THEN zygoteErr' = TRUE /\ once' = "done"
                       ELSE UNCHANGED <<zygoteErr, once>>
    /\ UNCHANGED <<zygote, file>>

\* Mutant of Register: no closed check inside the critical section.
RegisterUnfenced(i) ==
    /\ pc[i] = "register"
    /\ states' = states \cup {i}
    /\ Goto(i, "instantiate")
    /\ UNCHANGED <<rtVars, zyVars, instVars, wazeroClosed, stage, cpc>>

\* Registration is fenced against closure under r.mu.
Register(i) ==
    /\ pc[i] = "register"
    /\ IF Closed
       THEN GiveUp(i) /\ UNCHANGED states
       ELSE /\ states' = states \cup {i}
            /\ Goto(i, "instantiate")
            /\ UNCHANGED zyVars
    /\ UNCHANGED <<rtVars, instVars, wazeroClosed, stage, cpc>>

\* External: InstantiateModule refuses a closed wazero runtime on entry.
Instantiate(i) ==
    /\ pc[i] = "instantiate"
    /\ Goto(i, IF wazeroClosed THEN "drop" ELSE "alloc")
    /\ UNCHANGED <<rtVars, zyVars, instVars, states, wazeroClosed, stage, cpc>>

\* A clone's allocator reads the descriptor of the image file; from a closed
\* file it gets an invalid one.
ReadFd(i) ==
    /\ pc[i] = "alloc"
    /\ Goto(i, IF ~Full(i) /\ file = "open" THEN "mapFd" ELSE "map")
    /\ UNCHANGED <<rtVars, zyVars, instVars, states, wazeroClosed, stage, cpc>>

\* What the memory is made from: an anonymous mapping on the full path; for a
\* clone a mapping of the descriptor, or, when that fails, a heap copy of the
\* image.  A descriptor that was closed after it was read may by now name
\* another file of the process.
ImageSource(i) ==
    CASE Full(i)                              -> {"fresh"}
      [] ~Full(i) /\ pc[i] = "mapFd" /\ file # "open" -> {"template", "foreign"}
      [] OTHER                                -> {"template"}

\* External: wazero allocates the memory, then adds the module to its store,
\* which fails (and frees the memory) once the store is closed.  Start
\* functions, of which only the full path has one, run after that.
MapAndRegister(i) ==
    /\ pc[i] \in {"map", "mapFd"}
    /\ \E src \in ImageSource(i) : image' = [image EXCEPT ![i] = src]
    /\ mem' = [mem EXCEPT ![i] = IF wazeroClosed THEN "freed" ELSE "mapped"]
    /\ Goto(i, IF wazeroClosed THEN "drop"
               ELSE IF Full(i) THEN "starting" ELSE "publish")
    /\ UNCHANGED <<rtVars, zyVars, mod, modDead, guestMu, shut, states,
                   wazeroClosed, stage, cpc>>

\* _initialize returns, or fails (a trap, a cancelled context), in which case
\* InstantiateModule closes the module.
RunStart(i) ==
    /\ pc[i] = "starting"
    /\ \/ Goto(i, "publish") /\ UNCHANGED mem
       \/ Goto(i, "drop") /\ mem' = [mem EXCEPT ![i] = "freed"]
    /\ UNCHANGED <<rtVars, zyVars, mod, modDead, guestMu, shut, image, states,
                   wazeroClosed, stage, cpc>>

\* Publishing under guestMu: a module that teardown has passed by is closed
\* here instead of used.
Publish(i) ==
    /\ pc[i] = "publish" /\ ~guestMu[i]
    /\ IF modDead[i]
       THEN /\ mem' = [mem EXCEPT ![i] = "freed"]
            /\ Goto(i, "drop") /\ UNCHANGED mod
       ELSE /\ mod' = [mod EXCEPT ![i] = TRUE]
            /\ Goto(i, "setup") /\ UNCHANGED mem
    /\ UNCHANGED <<rtVars, zyVars, modDead, guestMu, shut, image, states,
                   wazeroClosed, stage, cpc>>

\* The error paths of newModuleInstance: removeState, then state.close().
DropState(i) ==
    /\ pc[i] = "drop"
    /\ states' = states \ {i}
    /\ Goto(i, "dropped")
    /\ UNCHANGED <<rtVars, zyVars, instVars, wazeroClosed, stage, cpc>>

DropClose(i) ==
    /\ pc[i] = "dropped"
    /\ shut' = [shut EXCEPT ![i] = TRUE]
    /\ GiveUp(i)
    /\ UNCHANGED <<rtVars, mod, modDead, guestMu, mem, image, states,
                   wazeroClosed, stage, cpc>>

\* A missing export, a guest block that failed or was refused, a warmed
\* template that holds sockets or timers: the instance is closed.
SetupFail(i) ==
    /\ pc[i] = "setup" /\ ~guestMu[i]
    /\ Goto(i, "closing")
    /\ cpc' = [cpc EXCEPT ![i] = "state"]
    /\ zygoteErr' = (zygoteErr \/ i = Template)
    /\ UNCHANGED <<rtVars, once, zygote, file, instVars, states, wazeroClosed, stage>>

\* NewInstance returns the instance.
SetupDone(c) ==
    /\ pc[c] = "setup" /\ ~guestMu[c] /\ stage[c] = SetupCalls(c)
    /\ Goto(c, "ready")
    /\ UNCHANGED <<rtVars, zyVars, instVars, states, wazeroClosed, stage, cpc>>

\* The end of initZygote: the image file is written and r.zygote set, or the
\* environment cannot provide one; the template is closed by the defer.
BuildZygote ==
    /\ pc[Template] = "setup" /\ ~guestMu[Template]
    /\ stage[Template] = SetupCalls(Template)
    /\ \/ "clone" \in Outcomes /\ zygote' = TRUE /\ file' = "open"
       \/ "full" \in Outcomes /\ UNCHANGED <<zygote, file>>
    /\ Goto(Template, "closing")
    /\ cpc' = [cpc EXCEPT ![Template] = "state"]
    /\ UNCHANGED <<rtVars, once, zygoteErr, instVars, states, wazeroClosed, stage>>

\* inst.Close has returned to the creator; for the template, so has the Once.
ClosingDone(i) ==
    /\ pc[i] = "closing" /\ cpc[i] = "done"
    /\ Goto(i, "gone")
    /\ once' = IF i = Template THEN "done" ELSE once
    /\ UNCHANGED <<rtVars, zygote, zygoteErr, file, instVars, states,
                   wazeroClosed, stage, cpc>>

-----------------------------------------------------------------------------
(***************************************************************************)
(* Guest blocks: instanceState.guest, during set-up and from ResolveAll.   *)
(***************************************************************************)
\* Mutant of GuestEnter: set-up repeats a call that has already succeeded.
GuestEnterAgain(i) ==
    /\ pc[i] \in {"setup", "ready"} /\ ~guestMu[i] /\ ~modDead[i]
    /\ guestMu' = [guestMu EXCEPT ![i] = TRUE]
    /\ UNCHANGED <<rtVars, zyVars, mod, modDead, shut, mem, image, states,
                   wazeroClosed, pc, stage, cpc>>

GuestEnter(i) ==
    /\ \/ pc[i] = "setup" /\ stage[i] < SetupCalls(i)
       \/ pc[i] = "ready"
    /\ ~guestMu[i] /\ ~modDead[i]
    /\ guestMu' = [guestMu EXCEPT ![i] = TRUE]
    /\ UNCHANGED <<rtVars, zyVars, mod, modDead, shut, mem, image, states,
                   wazeroClosed, pc, stage, cpc>>

GuestReturn(i) ==
    /\ guestMu[i]
    /\ guestMu' = [guestMu EXCEPT ![i] = FALSE]
    /\ stage' = IF pc[i] = "setup" THEN [stage EXCEPT ![i] = @ + 1] ELSE stage
    /\ UNCHANGED <<rtVars, zyVars, mod, modDead, shut, mem, image, states,
                   wazeroClosed, pc, cpc>>

-----------------------------------------------------------------------------
(***************************************************************************)
(* Instance.Close: the winner of the compare-and-swap runs state.close(),  *)
(* removeState and closeModule.  The caller is any goroutine that holds    *)
(* the instance, or ResolveAll's kill.                                     *)
(***************************************************************************)
InstanceClose(i) ==
    /\ pc[i] = "ready" /\ cpc[i] = "idle"
    /\ cpc' = [cpc EXCEPT ![i] = "state"]
    /\ UNCHANGED <<rtVars, zyVars, instVars, states, wazeroClosed, pc, stage>>

CloseState(i) ==
    /\ cpc[i] = "state"
    /\ shut' = [shut EXCEPT ![i] = TRUE]
    /\ cpc' = [cpc EXCEPT ![i] = "remove"]
    /\ UNCHANGED <<rtVars, zyVars, mod, modDead, guestMu, mem, image, states,
                   wazeroClosed, pc, stage>>

CloseRemove(i) ==
    /\ cpc[i] = "remove"
    /\ states' = states \ {i}
    /\ cpc' = [cpc EXCEPT ![i] = "module"]
    /\ UNCHANGED <<rtVars, zyVars, instVars, wazeroClosed, pc, stage>>

\* Mutant of closeModule: it does not take guestMu.
closeModuleUnlocked(i) ==
    /\ modDead' = [modDead EXCEPT ![i] = TRUE]
    /\ mem' = [mem EXCEPT ![i] = IF mod[i] THEN "freed" ELSE @]
    /\ UNCHANGED <<mod, guestMu, shut, image>>

\* closeModule, under guestMu.  A module not yet published is only marked.
closeModule(i) ==
    /\ ~guestMu[i]
    /\ modDead' = [modDead EXCEPT ![i] = TRUE]
    /\ mem' = [mem EXCEPT ![i] = IF mod[i] THEN "freed" ELSE @]
    /\ UNCHANGED <<mod, guestMu, shut, image>>

CloseModule(i) ==
    /\ cpc[i] = "module"
    /\ closeModule(i)
    /\ cpc' = [cpc EXCEPT ![i] = "done"]
    /\ UNCHANGED <<rtVars, zyVars, states, wazeroClosed, pc, stage>>

-----------------------------------------------------------------------------
(***************************************************************************)
(* Runtime.Close.                                                          *)
(***************************************************************************)
RuntimeClose ==
    /\ rpc = "open"
    /\ rpc' = "once"
    /\ UNCHANGED <<swept, cur, zyVars, instVars, states, wazeroClosed, pc, stage, cpc>>

\* Mutants of WaitOnce: the Once is not waited for; the file is closed too
\* early; only a Once that never ran is passed.
NoWaitOnce ==
    /\ rpc = "once"
    /\ rpc' = "sweep"
    /\ UNCHANGED <<swept, cur, zyVars, instVars, states, wazeroClosed, pc, stage, cpc>>

WaitOnceCloseFile ==
    /\ rpc = "once" /\ once # "running"
    /\ once' = "done" /\ rpc' = "sweep"
    /\ file' = IF zygote THEN "closed" ELSE file
    /\ UNCHANGED <<swept, cur, zygote, zygoteErr, instVars, states,
                   wazeroClosed, pc, stage, cpc>>

WaitOnceForever ==
    /\ rpc = "once" /\ once = "idle"
    /\ once' = "done" /\ rpc' = "sweep"
    /\ UNCHANGED <<swept, cur, zygote, zygoteErr, file, instVars, states,
                   wazeroClosed, pc, stage, cpc>>

\* zygoteOnce.Do(func() {}): waits for an initialisation, or forbids one.
WaitOnce ==
    /\ rpc = "once" /\ once # "running"
    /\ once' = "done" /\ rpc' = "sweep"
    /\ UNCHANGED <<swept, cur, zygote, zygoteErr, file, instVars, states,
                   wazeroClosed, pc, stage, cpc>>

Sweep ==
    /\ rpc = "sweep"
    /\ swept' = states /\ states' = {} /\ rpc' = "loop"
    /\ UNCHANGED <<cur, zyVars, instVars, wazeroClosed, pc, stage, cpc>>

SweepState(i) ==
    /\ rpc = "loop" /\ i \in swept
    /\ shut' = [shut EXCEPT ![i] = TRUE]
    /\ cur' = i /\ rpc' = "module"
    /\ UNCHANGED <<swept, zyVars, mod, modDead, guestMu, mem, image, states,
                   wazeroClosed, pc, stage, cpc>>

SweepModule ==
    /\ rpc = "module"
    /\ closeModule(cur)
    /\ swept' = swept \ {cur} /\ rpc' = "loop"
    /\ UNCHANGED <<cur, zyVars, states, wazeroClosed, pc, stage, cpc>>

\* External: r.wazero.Close closes every module still in the store, without
\* regard to guestMu, and with each the memory behind it.
WazeroClose ==
    /\ rpc = "loop" /\ swept = {}
    /\ wazeroClosed' = TRUE
    /\ mem' = [i \in Ids |-> IF mem[i] = "mapped" THEN "freed" ELSE mem[i]]
    /\ rpc' = "file"
    /\ UNCHANGED <<swept, cur, zyVars, mod, modDead, guestMu, shut, image,
                   states, pc, stage, cpc>>

CloseFile ==
    /\ rpc = "file"
    /\ file' = IF zygote THEN "closed" ELSE file
    /\ rpc' = "done"
    /\ UNCHANGED <<swept, cur, once, zygote, zygoteErr, instVars, states,
                   wazeroClosed, pc, stage, cpc>>

-----------------------------------------------------------------------------
\* What the goroutine building instance i does without being asked again.
Build(i) ==
    \/ Register(i) \/ Instantiate(i) \/ ReadFd(i) \/ MapAndRegister(i)
    \/ RunStart(i) \/ Publish(i) \/ DropState(i) \/ DropClose(i)
    \/ SetupFail(i) \/ ClosingDone(i)
    \/ (pc[i] = "setup" /\ GuestEnter(i))

Create(c) == InitZygote(c) \/ AfterOnce(c) \/ Build(c) \/ SetupDone(c)

Teardown == RuntimeClose \/ WaitOnce \/ Sweep \/ SweepModule \/ WazeroClose \/ CloseFile

Next ==
    \/ \E c \in Creators : NewInstance(c) \/ Create(c)
    \/ Build(Template) \/ BuildZygote
    \/ \E i \in Ids : \/ GuestEnter(i) \/ GuestReturn(i)
                      \/ InstanceClose(i) \/ CloseState(i) \/ CloseRemove(i)
                      \/ CloseModule(i) \/ SweepState(i)
    \/ Teardown

\* A goroutine that is not blocked runs on; a guest call returns, because no
\* host import blocks; a sync.Mutex is handed to every waiter in the end.
Fairness ==
    /\ \A c \in Creators : WF_vars(Create(c))
    /\ WF_vars(Build(Template) \/ BuildZygote)
    /\ \A i \in Ids : /\ WF_vars(GuestReturn(i))
                      /\ WF_vars(CloseState(i) \/ CloseRemove(i))
                      /\ SF_vars(CloseModule(i))
                      /\ WF_vars(SweepState(i))
    /\ WF_vars(WaitOnce \/ Sweep \/ WazeroClose \/ CloseFile)
    /\ SF_vars(SweepModule)

Spec == Init /\ [][Next]_vars

FairSpec == Spec /\ Fairness

-----------------------------------------------------------------------------
(***************************************************************************)
(* Properties.                                                             *)
(***************************************************************************)
\* Every variable keeps its type; no set-up makes more guest calls than it has.
TypeOK ==
    /\ once \in {"idle", "running", "done"}
    /\ zygote \in BOOLEAN /\ zygoteErr \in BOOLEAN
    /\ file \in {"none", "open", "closed"}
    /\ states \subseteq Ids /\ swept \subseteq Ids /\ cur \in Ids
    /\ wazeroClosed \in BOOLEAN
    /\ rpc \in RuntimePCs
    /\ pc \in [Ids -> InstancePCs]
    /\ stage \in [Ids -> 0..4]
    /\ mod \in [Ids -> BOOLEAN] /\ modDead \in [Ids -> BOOLEAN]
    /\ guestMu \in [Ids -> BOOLEAN] /\ shut \in [Ids -> BOOLEAN]
    /\ mem \in [Ids -> {"none", "mapped", "freed"}]
    /\ image \in [Ids -> {"none", "fresh", "template", "foreign"}]
    /\ cpc \in [Ids -> ClosePCs]

\* Start functions run on mapped memory: _initialize never executes in a module
\* whose memory Runtime.Close has had unmapped.
StartOnMappedMemory == \A i \in Ids : pc[i] = "starting" => mem[i] = "mapped"

\* Guest calls run on mapped memory, which is what guestMu is for: the memory is
\* not unmapped while instanceState.guest is inside its function.
CallOnMappedMemory == \A i \in Ids : guestMu[i] => mem[i] = "mapped"

\* What guestMu does guarantee: memory goes away under a guest call only when
\* the call's instance has left r.states through its own Close, which still
\* waits for guestMu, and the wazero runtime is closed in that window.
GuestMuProtectsMemory ==
    \A i \in Ids : guestMu[i] /\ mem[i] # "mapped" => wazeroClosed /\ cpc[i] = "module"

\* What zygoteOnce does guarantee: memory goes away under _initialize only when the
\* wazero runtime is closed beside a NewInstance on the full path.  The template's
\* start functions are safe, since Runtime.Close waits for the Once, and clones
\* have none.
OnceProtectsStart ==
    \A i \in Ids : pc[i] = "starting" /\ mem[i] # "mapped" =>
        wazeroClosed /\ i # Template /\ ~zygote

\* Registration is fenced by closure: from Runtime.Close's sweep on no state is
\* in r.states, so none can escape teardown.
SweptForGood == rpc \in {"loop", "module", "file", "done"} => states = {}

\* When Runtime.Close returns no linear memory is mapped, the image file is
\* closed, no template is being built, and every instance ever handed out has
\* been shut down, with the goroutines of NewInstance wherever they were.
ClosedRuntimeIsInert ==
    rpc = "done" =>
        /\ \A i \in Ids : mem[i] # "mapped" /\ (pc[i] = "ready" => shut[i])
        /\ file # "open" /\ once = "done"

\* A clone that gets as far as being published has the template's image for its
\* memory, although the image file is closed while clones are being allocated.
ClonesHaveTheImage ==
    \A c \in Creators :
        zygote /\ pc[c] \in {"publish", "setup", "ready"} => image[c] = "template"

\* Runtime.Close and every Instance.Close return, with guest calls in flight.
CloseReturns ==
    /\ rpc # "open" ~> rpc = "done"
    /\ \A i \in Ids : cpc[i] # "idle" ~> cpc[i] = "done"

\* NewInstance returns an instance or an error, whoever builds the template and
\* whenever the runtime is closed.
NewInstanceReturns == \A c \in Creators : pc[c] # "new" ~> pc[c] \in {"ready", "gone"}

=============================================================================
