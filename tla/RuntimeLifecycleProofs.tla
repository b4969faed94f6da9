------------------------- MODULE RuntimeLifecycleProofs -------------------------
(***************************************************************************)
(* Proofs about RuntimeLifecycle, for any set of callers of NewInstance.   *)
(***************************************************************************)
EXTENDS RuntimeLifecycle, TLAPS

-----------------------------------------------------------------------------
(***************************************************************************)
(* The inductive invariant.                                                *)
(***************************************************************************)
\* Between registration and the end of its Close an instance is built or used.
InUse == {"instantiate", "alloc", "map", "mapFd", "starting", "publish",
          "setup", "ready", "closing"}

\* A guest block belongs to an instance that is being set up or in use, whose
\* module has not been closed.
GuestInv ==
    \A i \in Ids : guestMu[i] =>
        /\ pc[i] \in {"setup", "ready"} /\ ~modDead[i]
        /\ pc[i] = "setup" => stage[i] < 4

\* Only an instance that exists is closed, and a finished Close has closed it.
CloseInv ==
    \A i \in Ids : /\ cpc[i] # "idle" => pc[i] \in {"ready", "closing", "gone"}
                   /\ cpc[i] = "done" => modDead[i]

\* An instance in use is known to someone who will close its module: the
\* registry, the sweep, or its own Close about to do so; or it is closed.
OwnedInv ==
    \A i \in Ids : pc[i] \in InUse =>
        i \in states \/ i \in swept \/ modDead[i] \/ cpc[i] = "module"

\* The progress of Runtime.Close.
RuntimeInv ==
    /\ rpc \in {"loop", "module", "file", "done"} => states = {}
    /\ rpc \in {"open", "once", "sweep", "file", "done"} => swept = {}
    /\ wazeroClosed <=> rpc \in {"file", "done"}

\* A module that is not published yet is not known to closeModule.
PublishInv ==
    \A i \in Ids : pc[i] \in {"new", "once", "register", "instantiate", "alloc", "map",
                             "mapFd", "starting", "publish"} => ~mod[i]

\* Memory is there for whoever may still enter the guest.
MemInv ==
    \A i \in Ids :
        /\ pc[i] \in {"starting", "publish"} => mem[i] = "mapped" \/ wazeroClosed
        /\ pc[i] \in {"setup", "ready"} /\ ~modDead[i] =>
               mem[i] = "mapped" \/ (wazeroClosed /\ cpc[i] = "module")

\* The template is built by whoever is inside the Once, and by nobody else.
TemplateInv ==
    /\ once = "idle" => pc[Template] = "new"
    /\ once = "done" => pc[Template] \in {"new", "gone"}

IInv ==
    /\ TypeOK /\ TemplateInv /\ GuestInv /\ CloseInv
    /\ OwnedInv /\ RuntimeInv /\ PublishInv /\ MemInv

-----------------------------------------------------------------------------
USE DEF Ids, InstancePCs, RuntimePCs, ClosePCs, InUse, Goto, Closed, rtVars,
        zyVars, instVars

\* Set-up makes at most four guest calls.
LEMMA SetupCallsBound == ASSUME NEW i \in Ids PROVE SetupCalls(i) \in 0..4
  BY DEF SetupCalls

\* The initial states satisfy the invariant.
LEMMA InitInv == Init => IInv
<1> SUFFICES ASSUME Init PROVE IInv
  OBVIOUS
<1>1. TypeOK
  <2>1. stage \in [Ids -> 0..4]
    BY DEF Init
  <2>2. zygote \in BOOLEAN /\ zygoteErr \in BOOLEAN /\ wazeroClosed \in BOOLEAN
    BY Zenon DEF Init
  <2>3. QED  BY <2>1, <2>2 DEF Init, TypeOK
<1>2. TemplateInv /\ RuntimeInv
  BY Zenon DEF Init, TemplateInv, RuntimeInv
<1>3. GuestInv /\ CloseInv /\ OwnedInv /\ PublishInv /\ MemInv
  BY DEF Init, GuestInv, CloseInv, OwnedInv, PublishInv, MemInv
<1>4. QED  BY <1>1, <1>2, <1>3 DEF IInv

\* NewInstance up to registration.
LEMMA EntryInv ==
    ASSUME IInv, NEW c \in Creators,
           NewInstance(c) \/ InitZygote(c) \/ AfterOnce(c)
    PROVE  IInv'
<1>1. CASE NewInstance(c)
  BY <1>1, CreatorsAssumption DEF NewInstance, IInv, TypeOK, TemplateInv, GuestInv,
         CloseInv, OwnedInv, RuntimeInv, PublishInv, MemInv
<1>2. CASE InitZygote(c)
  BY <1>2 DEF InitZygote, IInv, TypeOK, TemplateInv, GuestInv,
         CloseInv, OwnedInv, RuntimeInv, PublishInv, MemInv
<1>3. CASE AfterOnce(c)
  BY <1>3, CreatorsAssumption DEF AfterOnce, IInv, TypeOK, TemplateInv, GuestInv,
         CloseInv, OwnedInv, RuntimeInv, PublishInv, MemInv
<1>4. QED  BY <1>1, <1>2, <1>3

\* newModuleInstance.
LEMMA ModuleInv ==
    ASSUME IInv, NEW i \in Ids,
           Register(i) \/ Instantiate(i) \/ ReadFd(i) \/ MapAndRegister(i) \/ RunStart(i) \/ Publish(i) \/ DropState(i) \/ DropClose(i)
    PROVE  IInv'
<1>1. CASE Register(i)
  <2>1. TypeOK'
    <3>1. zygoteErr' \in BOOLEAN /\ once' \in {"idle", "running", "done"}
      BY <1>1, Zenon DEF Register, GiveUp, IInv, TypeOK
    <3>2. QED  BY <1>1, <3>1 DEF Register, GiveUp, IInv, TypeOK
  <2>2. TemplateInv'
    BY <1>1 DEF Register, GiveUp, IInv, TypeOK, TemplateInv
  <2>3. GuestInv'
    BY <1>1 DEF Register, GiveUp, IInv, TypeOK, GuestInv
  <2>4. CloseInv'
    BY <1>1 DEF Register, GiveUp, IInv, TypeOK, CloseInv
  <2>5. OwnedInv'
    BY <1>1 DEF Register, GiveUp, IInv, TypeOK, OwnedInv, CloseInv, RuntimeInv
  <2>6. RuntimeInv'
    BY <1>1 DEF Register, GiveUp, IInv, TypeOK, RuntimeInv
  <2>7. PublishInv'
    BY <1>1 DEF Register, GiveUp, IInv, TypeOK, PublishInv, CloseInv
  <2>8. MemInv'
    BY <1>1 DEF Register, GiveUp, IInv, TypeOK, MemInv, OwnedInv, CloseInv, RuntimeInv, GuestInv, PublishInv
  <2>9. QED  BY <2>1, <2>2, <2>3, <2>4, <2>5, <2>6, <2>7, <2>8 DEF IInv
<1>2. CASE Instantiate(i)
  BY <1>2 DEF Instantiate, IInv, TypeOK, TemplateInv, GuestInv,
         CloseInv, OwnedInv, RuntimeInv, PublishInv, MemInv
<1>3. CASE ReadFd(i)
  BY <1>3 DEF ReadFd, IInv, TypeOK, TemplateInv, GuestInv,
         CloseInv, OwnedInv, RuntimeInv, PublishInv, MemInv
<1>4. CASE MapAndRegister(i)
  BY <1>4 DEF MapAndRegister, ImageSource, Full, IInv, TypeOK, TemplateInv, GuestInv,
         CloseInv, OwnedInv, RuntimeInv, PublishInv, MemInv
<1>5. CASE RunStart(i)
  BY <1>5 DEF RunStart, IInv, TypeOK, TemplateInv, GuestInv,
         CloseInv, OwnedInv, RuntimeInv, PublishInv, MemInv
<1>6. CASE Publish(i)
  <2>1. TypeOK'
    BY <1>6 DEF Publish, IInv, TypeOK, GuestInv
  <2>2. TemplateInv'
    BY <1>6 DEF Publish, IInv, TypeOK, TemplateInv
  <2>3. GuestInv'
    BY <1>6 DEF Publish, IInv, TypeOK, GuestInv
  <2>4. CloseInv'
    BY <1>6 DEF Publish, IInv, TypeOK, CloseInv
  <2>5. OwnedInv'
    BY <1>6 DEF Publish, IInv, TypeOK, OwnedInv, CloseInv, RuntimeInv
  <2>6. RuntimeInv'
    BY <1>6 DEF Publish, IInv, TypeOK, RuntimeInv
  <2>7. PublishInv'
    BY <1>6 DEF Publish, IInv, TypeOK, PublishInv, CloseInv
  <2>8. MemInv'
    BY <1>6 DEF Publish, IInv, TypeOK, MemInv, OwnedInv, CloseInv, RuntimeInv, GuestInv, PublishInv
  <2>9. QED  BY <2>1, <2>2, <2>3, <2>4, <2>5, <2>6, <2>7, <2>8 DEF IInv
<1>7. CASE DropState(i)
  BY <1>7 DEF DropState, IInv, TypeOK, TemplateInv, GuestInv,
         CloseInv, OwnedInv, RuntimeInv, PublishInv, MemInv
<1>8. CASE DropClose(i)
  <2>1. TypeOK'
    BY <1>8 DEF DropClose, GiveUp, IInv, TypeOK, GuestInv
  <2>2. TemplateInv'
    BY <1>8 DEF DropClose, GiveUp, IInv, TypeOK, TemplateInv
  <2>3. GuestInv'
    BY <1>8 DEF DropClose, GiveUp, IInv, TypeOK, GuestInv
  <2>4. CloseInv'
    BY <1>8 DEF DropClose, GiveUp, IInv, TypeOK, CloseInv
  <2>5. OwnedInv'
    BY <1>8 DEF DropClose, GiveUp, IInv, TypeOK, OwnedInv, CloseInv, RuntimeInv
  <2>6. RuntimeInv'
    BY <1>8 DEF DropClose, GiveUp, IInv, TypeOK, RuntimeInv
  <2>7. PublishInv'
    BY <1>8 DEF DropClose, GiveUp, IInv, TypeOK, PublishInv, CloseInv
  <2>8. MemInv'
    BY <1>8 DEF DropClose, GiveUp, IInv, TypeOK, MemInv, OwnedInv, CloseInv, RuntimeInv, GuestInv, PublishInv
  <2>9. QED  BY <2>1, <2>2, <2>3, <2>4, <2>5, <2>6, <2>7, <2>8 DEF IInv
<1>9. QED  BY <1>1, <1>2, <1>3, <1>4, <1>5, <1>6, <1>7, <1>8

\* The end of set-up.
LEMMA SetupInv ==
    ASSUME IInv, NEW i \in Ids,
           SetupFail(i) \/ SetupDone(i) \/ ClosingDone(i)
    PROVE  IInv'
<1>1. CASE SetupFail(i)
  BY <1>1 DEF SetupFail, IInv, TypeOK, TemplateInv, GuestInv,
         CloseInv, OwnedInv, RuntimeInv, PublishInv, MemInv
<1>2. CASE SetupDone(i)
  BY <1>2, CreatorsAssumption DEF SetupDone, IInv, TypeOK, TemplateInv, GuestInv,
         CloseInv, OwnedInv, RuntimeInv, PublishInv, MemInv
<1>3. CASE ClosingDone(i)
  BY <1>3 DEF ClosingDone, IInv, TypeOK, TemplateInv, GuestInv,
         CloseInv, OwnedInv, RuntimeInv, PublishInv, MemInv
<1>4. QED  BY <1>1, <1>2, <1>3

\* Guest blocks.
LEMMA GuestStepInv ==
    ASSUME IInv, NEW i \in Ids,
           GuestEnter(i) \/ GuestReturn(i)
    PROVE  IInv'
<1>1. CASE GuestEnter(i)
  BY <1>1, SetupCallsBound DEF GuestEnter, IInv, TypeOK, TemplateInv, GuestInv,
         CloseInv, OwnedInv, RuntimeInv, PublishInv, MemInv
<1>2. CASE GuestReturn(i)
  BY <1>2 DEF GuestReturn, IInv, TypeOK, TemplateInv, GuestInv,
         CloseInv, OwnedInv, RuntimeInv, PublishInv, MemInv
<1>3. QED  BY <1>1, <1>2

\* Instance.Close.
LEMMA InstanceCloseInv ==
    ASSUME IInv, NEW i \in Ids,
           InstanceClose(i) \/ CloseState(i) \/ CloseRemove(i) \/ CloseModule(i)
    PROVE  IInv'
<1>1. CASE InstanceClose(i)
  BY <1>1 DEF InstanceClose, IInv, TypeOK, TemplateInv, GuestInv,
         CloseInv, OwnedInv, RuntimeInv, PublishInv, MemInv
<1>2. CASE CloseState(i)
  BY <1>2 DEF CloseState, IInv, TypeOK, TemplateInv, GuestInv,
         CloseInv, OwnedInv, RuntimeInv, PublishInv, MemInv
<1>3. CASE CloseRemove(i)
  BY <1>3 DEF CloseRemove, IInv, TypeOK, TemplateInv, GuestInv,
         CloseInv, OwnedInv, RuntimeInv, PublishInv, MemInv
<1>4. CASE CloseModule(i)
  BY <1>4 DEF CloseModule, closeModule, IInv, TypeOK, TemplateInv, GuestInv,
         CloseInv, OwnedInv, RuntimeInv, PublishInv, MemInv
<1>5. QED  BY <1>1, <1>2, <1>3, <1>4

\* The loop of Runtime.Close.
LEMMA SweepInv ==
    ASSUME IInv, NEW i \in Ids,
           SweepState(i) \/ SweepModule
    PROVE  IInv'
<1>1. CASE SweepState(i)
  BY <1>1 DEF SweepState, IInv, TypeOK, TemplateInv, GuestInv,
         CloseInv, OwnedInv, RuntimeInv, PublishInv, MemInv
<1>2. CASE SweepModule
  <2>1. TypeOK'
    BY <1>2 DEF SweepModule, closeModule, IInv, TypeOK, GuestInv
  <2>2. TemplateInv'
    BY <1>2 DEF SweepModule, closeModule, IInv, TypeOK, TemplateInv
  <2>3. GuestInv'
    BY <1>2 DEF SweepModule, closeModule, IInv, TypeOK, GuestInv
  <2>4. CloseInv'
    BY <1>2 DEF SweepModule, closeModule, IInv, TypeOK, CloseInv
  <2>5. OwnedInv'
    BY <1>2 DEF SweepModule, closeModule, IInv, TypeOK, OwnedInv, CloseInv, RuntimeInv
  <2>6. RuntimeInv'
    BY <1>2 DEF SweepModule, closeModule, IInv, TypeOK, RuntimeInv
  <2>7. PublishInv'
    BY <1>2 DEF SweepModule, closeModule, IInv, TypeOK, PublishInv, CloseInv
  <2>8. MemInv'
    BY <1>2 DEF SweepModule, closeModule, IInv, TypeOK, MemInv, OwnedInv, CloseInv, RuntimeInv, GuestInv, PublishInv
  <2>9. QED  BY <2>1, <2>2, <2>3, <2>4, <2>5, <2>6, <2>7, <2>8 DEF IInv
<1>3. QED  BY <1>1, <1>2

\* The rest of Runtime.Close, and the end of initZygote.
LEMMA TeardownInv ==
    ASSUME IInv, 
           RuntimeClose \/ WaitOnce \/ Sweep \/ WazeroClose \/ CloseFile \/ BuildZygote
    PROVE  IInv'
<1>1. CASE RuntimeClose
  BY <1>1 DEF RuntimeClose, IInv, TypeOK, TemplateInv, GuestInv,
         CloseInv, OwnedInv, RuntimeInv, PublishInv, MemInv
<1>2. CASE WaitOnce
  BY <1>2 DEF WaitOnce, IInv, TypeOK, TemplateInv, GuestInv,
         CloseInv, OwnedInv, RuntimeInv, PublishInv, MemInv
<1>3. CASE Sweep
  <2>1. TypeOK'
    BY <1>3 DEF Sweep, IInv, TypeOK, GuestInv
  <2>2. TemplateInv'
    BY <1>3 DEF Sweep, IInv, TypeOK, TemplateInv
  <2>3. GuestInv'
    BY <1>3 DEF Sweep, IInv, TypeOK, GuestInv
  <2>4. CloseInv'
    BY <1>3 DEF Sweep, IInv, TypeOK, CloseInv
  <2>5. OwnedInv'
    BY <1>3 DEF Sweep, IInv, TypeOK, OwnedInv, CloseInv, RuntimeInv
  <2>6. RuntimeInv'
    BY <1>3 DEF Sweep, IInv, TypeOK, RuntimeInv
  <2>7. PublishInv'
    BY <1>3 DEF Sweep, IInv, TypeOK, PublishInv, CloseInv
  <2>8. MemInv'
    BY <1>3 DEF Sweep, IInv, TypeOK, MemInv, OwnedInv, CloseInv, RuntimeInv, GuestInv, PublishInv
  <2>9. QED  BY <2>1, <2>2, <2>3, <2>4, <2>5, <2>6, <2>7, <2>8 DEF IInv
<1>4. CASE WazeroClose
  BY <1>4 DEF WazeroClose, IInv, TypeOK, TemplateInv, GuestInv,
         CloseInv, OwnedInv, RuntimeInv, PublishInv, MemInv
<1>5. CASE CloseFile
  BY <1>5 DEF CloseFile, IInv, TypeOK, TemplateInv, GuestInv,
         CloseInv, OwnedInv, RuntimeInv, PublishInv, MemInv
<1>6. CASE BuildZygote
  <2>1. TypeOK'
    BY <1>6 DEF BuildZygote, IInv, TypeOK, GuestInv
  <2>2. TemplateInv'
    BY <1>6 DEF BuildZygote, IInv, TypeOK, TemplateInv
  <2>3. GuestInv'
    BY <1>6 DEF BuildZygote, IInv, TypeOK, GuestInv
  <2>4. CloseInv'
    BY <1>6 DEF BuildZygote, IInv, TypeOK, CloseInv
  <2>5. OwnedInv'
    BY <1>6 DEF BuildZygote, IInv, TypeOK, OwnedInv, CloseInv, RuntimeInv
  <2>6. RuntimeInv'
    BY <1>6 DEF BuildZygote, IInv, TypeOK, RuntimeInv
  <2>7. PublishInv'
    BY <1>6 DEF BuildZygote, IInv, TypeOK, PublishInv, CloseInv
  <2>8. MemInv'
    BY <1>6 DEF BuildZygote, IInv, TypeOK, MemInv, OwnedInv, CloseInv, RuntimeInv, GuestInv, PublishInv
  <2>9. QED  BY <2>1, <2>2, <2>3, <2>4, <2>5, <2>6, <2>7, <2>8 DEF IInv
<1>7. QED  BY <1>1, <1>2, <1>3, <1>4, <1>5, <1>6

\* Every step preserves the invariant.
LEMMA NextInv == IInv /\ [Next]_vars => IInv'
<1> SUFFICES ASSUME IInv, [Next]_vars PROVE IInv'
  OBVIOUS
<1>1. CASE UNCHANGED vars
  BY <1>1 DEF vars, IInv, TypeOK, TemplateInv, GuestInv, CloseInv, OwnedInv,
              RuntimeInv, PublishInv, MemInv
<1>2. ASSUME NEW i \in Ids, Build(i)
      PROVE  IInv'
  BY <1>2, ModuleInv, SetupInv, GuestStepInv DEF Build
<1>3. ASSUME NEW c \in Creators, NewInstance(c) \/ Create(c)
      PROVE  IInv'
  <2>1. c \in Ids
    OBVIOUS
  <2>2. QED  BY <1>2, <1>3, <2>1, EntryInv, SetupInv DEF Create
<1>4. ASSUME NEW i \in Ids,
             \/ GuestEnter(i) \/ GuestReturn(i)
             \/ InstanceClose(i) \/ CloseState(i) \/ CloseRemove(i)
             \/ CloseModule(i) \/ SweepState(i)
      PROVE  IInv'
  BY <1>4, GuestStepInv, InstanceCloseInv, SweepInv
<1>5. CASE Build(Template) \/ BuildZygote \/ Teardown
  <2>1. Template \in Ids
    OBVIOUS
  <2>2. QED  BY <1>2, <1>5, <2>1, SweepInv, TeardownInv DEF Teardown
<1>6. QED  BY <1>1, <1>3, <1>4, <1>5 DEF Next

\* The inductive invariant holds throughout.
THEOREM Inductive == Spec => []IInv
<1>1. QED  BY InitInv, NextInv, PTL DEF Spec

\* Type correctness of the life cycle's state.
THEOREM TypeCorrect == Spec => []TypeOK
<1>1. IInv => TypeOK
  BY DEF IInv
<1>2. QED  BY <1>1, Inductive, PTL

\* guestMu protects the memory of every guest call (instanceState.guest against
\* closeModule and Runtime.Close), except in the window that is named.
THEOREM GuestMemory == Spec => []GuestMuProtectsMemory
<1>1. IInv => GuestMuProtectsMemory
  BY DEF IInv, GuestInv, MemInv, GuestMuProtectsMemory
<1>2. QED  BY <1>1, Inductive, PTL

\* After the sweep of Runtime.Close nothing is registered again.
THEOREM Swept == Spec => []SweptForGood
<1>1. IInv => SweptForGood
  BY DEF IInv, RuntimeInv, SweptForGood
<1>2. QED  BY <1>1, Inductive, PTL

-----------------------------------------------------------------------------
(***************************************************************************)
(* What is left when Runtime.Close returns, and what clones are made of.   *)
(***************************************************************************)
\* The Once is done before the sweep; past it, zygoteErr is settled.
OnceInv ==
    /\ rpc \notin {"open", "once"} => once = "done"
    /\ \A c \in Creators :
          pc[c] \notin {"new", "once", "gone"} => once = "done" /\ ~zygoteErr

\* The image file is open exactly from the end of initZygote to Runtime.Close.
FileInv ==
    /\ zygote => file = "open" \/ rpc = "done"
    /\ file = "open" => zygote /\ rpc # "done"

\* No memory is mapped once the wazero runtime is closed.
UnmapInv == wazeroClosed => \A i \in Ids : mem[i] # "mapped"

\* Whoever takes an instance out of the registry shuts its state down.
ShutInv ==
    /\ \A i \in Ids : pc[i] \in InUse => i \in states \/ i \in swept \/ shut[i]
    /\ \A i \in Ids : cpc[i] \in {"remove", "module", "done"} => shut[i]
    /\ rpc = "module" => shut[cur]

\* A creator that runs start functions has no template to clone.
FullInv == \A c \in Creators : pc[c] = "starting" => ~zygote

RInv == OnceInv /\ FullInv /\ FileInv /\ UnmapInv /\ ShutInv /\ ClonesHaveTheImage

\* RInv: NewInstance up to registration.
LEMMA RestEntry ==
    ASSUME IInv, RInv, NEW c \in Creators,
           NewInstance(c) \/ InitZygote(c) \/ AfterOnce(c)
    PROVE  RInv'
<1>1. CASE NewInstance(c)
  BY <1>1, CreatorsAssumption
  DEF NewInstance, IInv, TypeOK, TemplateInv, CloseInv, RuntimeInv,
      RInv, OnceInv, FullInv, FileInv, UnmapInv, ShutInv, ClonesHaveTheImage
<1>2. CASE InitZygote(c)
  BY <1>2, CreatorsAssumption
  DEF InitZygote, IInv, TypeOK, TemplateInv, CloseInv, RuntimeInv,
      RInv, OnceInv, FullInv, FileInv, UnmapInv, ShutInv, ClonesHaveTheImage
<1>3. CASE AfterOnce(c)
  BY <1>3, CreatorsAssumption
  DEF AfterOnce, IInv, TypeOK, TemplateInv, CloseInv, RuntimeInv,
      RInv, OnceInv, FullInv, FileInv, UnmapInv, ShutInv, ClonesHaveTheImage
<1>4. QED  BY <1>1, <1>2, <1>3

\* RInv: newModuleInstance.
LEMMA RestModule ==
    ASSUME IInv, RInv, NEW i \in Ids,
           Register(i) \/ Instantiate(i) \/ ReadFd(i) \/ MapAndRegister(i) \/ RunStart(i) \/ Publish(i) \/ DropState(i) \/ DropClose(i)
    PROVE  RInv'
<1>1. CASE Register(i)
  BY <1>1
  DEF Register, GiveUp, IInv, TypeOK, TemplateInv, CloseInv, RuntimeInv,
      RInv, OnceInv, FullInv, FileInv, UnmapInv, ShutInv, ClonesHaveTheImage
<1>2. CASE Instantiate(i)
  BY <1>2
  DEF Instantiate, IInv, TypeOK, TemplateInv, CloseInv, RuntimeInv,
      RInv, OnceInv, FullInv, FileInv, UnmapInv, ShutInv, ClonesHaveTheImage
<1>3. CASE ReadFd(i)
  BY <1>3
  DEF ReadFd, IInv, TypeOK, TemplateInv, CloseInv, RuntimeInv,
      RInv, OnceInv, FullInv, FileInv, UnmapInv, ShutInv, ClonesHaveTheImage
<1>4. CASE MapAndRegister(i)
  BY <1>4
  DEF MapAndRegister, ImageSource, Full, IInv, TypeOK, TemplateInv, CloseInv, RuntimeInv,
      RInv, OnceInv, FullInv, FileInv, UnmapInv, ShutInv, ClonesHaveTheImage
<1>5. CASE RunStart(i)
  BY <1>5
  DEF RunStart, IInv, TypeOK, TemplateInv, CloseInv, RuntimeInv,
      RInv, OnceInv, FullInv, FileInv, UnmapInv, ShutInv, ClonesHaveTheImage
<1>6. CASE Publish(i)
  BY <1>6
  DEF Publish, IInv, TypeOK, TemplateInv, CloseInv, RuntimeInv,
      RInv, OnceInv, FullInv, FileInv, UnmapInv, ShutInv, ClonesHaveTheImage
<1>7. CASE DropState(i)
  BY <1>7
  DEF DropState, IInv, TypeOK, TemplateInv, CloseInv, RuntimeInv,
      RInv, OnceInv, FullInv, FileInv, UnmapInv, ShutInv, ClonesHaveTheImage
<1>8. CASE DropClose(i)
  BY <1>8
  DEF DropClose, GiveUp, IInv, TypeOK, TemplateInv, CloseInv, RuntimeInv,
      RInv, OnceInv, FullInv, FileInv, UnmapInv, ShutInv, ClonesHaveTheImage
<1>9. QED  BY <1>1, <1>2, <1>3, <1>4, <1>5, <1>6, <1>7, <1>8

\* RInv: the end of set-up.
LEMMA RestSetup ==
    ASSUME IInv, RInv, NEW i \in Ids,
           SetupFail(i) \/ SetupDone(i) \/ ClosingDone(i)
    PROVE  RInv'
<1>1. CASE SetupFail(i)
  BY <1>1
  DEF SetupFail, IInv, TypeOK, TemplateInv, CloseInv, RuntimeInv,
      RInv, OnceInv, FullInv, FileInv, UnmapInv, ShutInv, ClonesHaveTheImage
<1>2. CASE SetupDone(i)
  BY <1>2, CreatorsAssumption
  DEF SetupDone, IInv, TypeOK, TemplateInv, CloseInv, RuntimeInv,
      RInv, OnceInv, FullInv, FileInv, UnmapInv, ShutInv, ClonesHaveTheImage
<1>3. CASE ClosingDone(i)
  BY <1>3
  DEF ClosingDone, IInv, TypeOK, TemplateInv, CloseInv, RuntimeInv,
      RInv, OnceInv, FullInv, FileInv, UnmapInv, ShutInv, ClonesHaveTheImage
<1>4. QED  BY <1>1, <1>2, <1>3

\* RInv: guest blocks.
LEMMA RestGuest ==
    ASSUME IInv, RInv, NEW i \in Ids,
           GuestEnter(i) \/ GuestReturn(i)
    PROVE  RInv'
<1>1. CASE GuestEnter(i)
  BY <1>1
  DEF GuestEnter, IInv, TypeOK, TemplateInv, CloseInv, RuntimeInv,
      RInv, OnceInv, FullInv, FileInv, UnmapInv, ShutInv, ClonesHaveTheImage
<1>2. CASE GuestReturn(i)
  BY <1>2
  DEF GuestReturn, IInv, TypeOK, TemplateInv, CloseInv, RuntimeInv,
      RInv, OnceInv, FullInv, FileInv, UnmapInv, ShutInv, ClonesHaveTheImage
<1>3. QED  BY <1>1, <1>2

\* RInv: Instance.Close.
LEMMA RestClose ==
    ASSUME IInv, RInv, NEW i \in Ids,
           InstanceClose(i) \/ CloseState(i) \/ CloseRemove(i) \/ CloseModule(i)
    PROVE  RInv'
<1>1. CASE InstanceClose(i)
  BY <1>1
  DEF InstanceClose, IInv, TypeOK, TemplateInv, CloseInv, RuntimeInv,
      RInv, OnceInv, FullInv, FileInv, UnmapInv, ShutInv, ClonesHaveTheImage
<1>2. CASE CloseState(i)
  BY <1>2
  DEF CloseState, IInv, TypeOK, TemplateInv, CloseInv, RuntimeInv,
      RInv, OnceInv, FullInv, FileInv, UnmapInv, ShutInv, ClonesHaveTheImage
<1>3. CASE CloseRemove(i)
  BY <1>3
  DEF CloseRemove, IInv, TypeOK, TemplateInv, CloseInv, RuntimeInv,
      RInv, OnceInv, FullInv, FileInv, UnmapInv, ShutInv, ClonesHaveTheImage
<1>4. CASE CloseModule(i)
  BY <1>4
  DEF CloseModule, closeModule, IInv, TypeOK, TemplateInv, CloseInv, RuntimeInv,
      RInv, OnceInv, FullInv, FileInv, UnmapInv, ShutInv, ClonesHaveTheImage
<1>5. QED  BY <1>1, <1>2, <1>3, <1>4

\* RInv: the loop of Runtime.Close.
LEMMA RestSweep ==
    ASSUME IInv, RInv, NEW i \in Ids,
           SweepState(i) \/ SweepModule
    PROVE  RInv'
<1>1. CASE SweepState(i)
  BY <1>1
  DEF SweepState, IInv, TypeOK, TemplateInv, CloseInv, RuntimeInv,
      RInv, OnceInv, FullInv, FileInv, UnmapInv, ShutInv, ClonesHaveTheImage
<1>2. CASE SweepModule
  BY <1>2
  DEF SweepModule, closeModule, IInv, TypeOK, TemplateInv, CloseInv, RuntimeInv,
      RInv, OnceInv, FullInv, FileInv, UnmapInv, ShutInv, ClonesHaveTheImage
<1>3. QED  BY <1>1, <1>2

\* RInv: the rest of Runtime.Close, and the end of initZygote.
LEMMA RestTeardown ==
    ASSUME IInv, RInv, 
           RuntimeClose \/ WaitOnce \/ Sweep \/ WazeroClose \/ CloseFile \/ BuildZygote
    PROVE  RInv'
<1>1. CASE RuntimeClose
  BY <1>1
  DEF RuntimeClose, IInv, TypeOK, TemplateInv, CloseInv, RuntimeInv,
      RInv, OnceInv, FullInv, FileInv, UnmapInv, ShutInv, ClonesHaveTheImage
<1>2. CASE WaitOnce
  BY <1>2
  DEF WaitOnce, IInv, TypeOK, TemplateInv, CloseInv, RuntimeInv,
      RInv, OnceInv, FullInv, FileInv, UnmapInv, ShutInv, ClonesHaveTheImage
<1>3. CASE Sweep
  BY <1>3
  DEF Sweep, IInv, TypeOK, TemplateInv, CloseInv, RuntimeInv,
      RInv, OnceInv, FullInv, FileInv, UnmapInv, ShutInv, ClonesHaveTheImage
<1>4. CASE WazeroClose
  BY <1>4
  DEF WazeroClose, IInv, TypeOK, TemplateInv, CloseInv, RuntimeInv,
      RInv, OnceInv, FullInv, FileInv, UnmapInv, ShutInv, ClonesHaveTheImage
<1>5. CASE CloseFile
  BY <1>5
  DEF CloseFile, IInv, TypeOK, TemplateInv, CloseInv, RuntimeInv,
      RInv, OnceInv, FullInv, FileInv, UnmapInv, ShutInv, ClonesHaveTheImage
<1>6. CASE BuildZygote
  BY <1>6, CreatorsAssumption
  DEF BuildZygote, IInv, TypeOK, TemplateInv, CloseInv, RuntimeInv,
      RInv, OnceInv, FullInv, FileInv, UnmapInv, ShutInv, ClonesHaveTheImage
<1>7. QED  BY <1>1, <1>2, <1>3, <1>4, <1>5, <1>6

\* RInv: every step.
LEMMA RestNext ==
    ASSUME IInv, RInv, [Next]_vars
    PROVE  RInv'
<1>1. CASE UNCHANGED vars
  BY <1>1 DEF vars, RInv, OnceInv, FullInv, FileInv, UnmapInv, ShutInv, ClonesHaveTheImage
<1>2. ASSUME NEW i \in Ids, Build(i)
      PROVE  RInv'
  BY <1>2, RestModule, RestSetup, RestGuest DEF Build
<1>3. ASSUME NEW c \in Creators, NewInstance(c) \/ Create(c)
      PROVE  RInv'
  <2>1. c \in Ids
    OBVIOUS
  <2>2. QED  BY <1>2, <1>3, <2>1, RestEntry, RestSetup DEF Create
<1>4. ASSUME NEW i \in Ids,
             \/ GuestEnter(i) \/ GuestReturn(i)
             \/ InstanceClose(i) \/ CloseState(i) \/ CloseRemove(i)
             \/ CloseModule(i) \/ SweepState(i)
      PROVE  RInv'
  BY <1>4, RestGuest, RestClose, RestSweep
<1>5. CASE Build(Template) \/ BuildZygote \/ Teardown
  <2>1. Template \in Ids
    OBVIOUS
  <2>2. QED  BY <1>2, <1>5, <2>1, RestSweep, RestTeardown DEF Teardown
<1>6. QED  BY <1>1, <1>3, <1>4, <1>5 DEF Next

\* RInv holds throughout.
THEOREM RestInductive == Spec => []RInv
<1>1. Init => RInv
  <2> SUFFICES ASSUME Init PROVE RInv
    OBVIOUS
  <2>1. FileInv /\ UnmapInv
    BY Zenon DEF Init, FileInv, UnmapInv
  <2>2. OnceInv /\ FullInv /\ ShutInv /\ ClonesHaveTheImage
    BY DEF Init, OnceInv, FullInv, ShutInv, ClonesHaveTheImage
  <2>3. QED  BY <2>1, <2>2 DEF RInv
<1>2. IInv /\ RInv /\ [Next]_vars => RInv'
  BY RestNext
<1>3. QED  BY <1>1, <1>2, Inductive, PTL DEF Spec

\* Runtime.Close leaves nothing behind: no mapped memory, no open image file, no
\* instance with sockets or timers.
THEOREM Inert == Spec => []ClosedRuntimeIsInert
<1>1. IInv /\ RInv => ClosedRuntimeIsInert
  BY DEF IInv, RInv, TypeOK, RuntimeInv, OnceInv, FileInv, UnmapInv, ShutInv,
         ClosedRuntimeIsInert
<1>2. QED  BY <1>1, Inductive, RestInductive, PTL

\* Closing the wazero runtime before the image file keeps foreign memory out of
\* every clone (newImageAllocator against Runtime.Close).
THEOREM CloneImages == Spec => []ClonesHaveTheImage
<1>1. RInv => ClonesHaveTheImage
  BY DEF RInv
<1>2. QED  BY <1>1, RestInductive, PTL

\* _initialize loses its memory only on the full path of a creator: while the
\* template runs it, Runtime.Close is still waiting for the Once.
THEOREM OnceMemory == Spec => []OnceProtectsStart
<1>1. IInv /\ RInv => OnceProtectsStart
  <2>1. SUFFICES ASSUME IInv, RInv, NEW i \in Ids, pc[i] = "starting", mem[i] # "mapped"
                 PROVE  wazeroClosed /\ i # Template /\ ~zygote
    BY DEF OnceProtectsStart
  <2>2. wazeroClosed
    BY <2>1 DEF IInv, MemInv
  <2>3. once = "done"
    BY <2>1, <2>2 DEF IInv, RuntimeInv, RInv, OnceInv
  <2>4. i # Template
    BY <2>1, <2>3 DEF IInv, TemplateInv
  <2>5. QED  BY <2>1, <2>2, <2>4 DEF RInv, FullInv
<1>2. QED  BY <1>1, Inductive, RestInductive, PTL

-----------------------------------------------------------------------------
(***************************************************************************)
(* Start functions, where every instance is a clone.                       *)
(***************************************************************************)
\* Past an initialisation that was not cut off by closure there is a template
\* or an error, so a creator that registers is making a clone.
OutcomeInv ==
    /\ once = "done" => zygote \/ zygoteErr \/ Closed
    /\ pc[Template] = "closing" => zygote \/ zygoteErr
    /\ \A c \in Creators : pc[c] \in InUse => zygote

\* Only the template runs _initialize, on memory that is mapped.
StartInv == \A i \in Ids : pc[i] = "starting" => i = Template /\ mem[i] = "mapped"

SInv == OutcomeInv /\ StartInv

\* SInv: NewInstance up to registration.
LEMMA StartEntry ==
    ASSUME IInv, SInv, RInv, "full" \notin Outcomes, NEW c \in Creators,
           NewInstance(c) \/ InitZygote(c) \/ AfterOnce(c)
    PROVE  SInv'
<1>1. CASE NewInstance(c)
  BY <1>1, CreatorsAssumption
  DEF NewInstance, IInv, TypeOK, TemplateInv, CloseInv, RuntimeInv, PublishInv, RInv, OnceInv, Full,
      SInv, OutcomeInv, StartInv
<1>2. CASE InitZygote(c)
  BY <1>2, CreatorsAssumption
  DEF InitZygote, IInv, TypeOK, TemplateInv, CloseInv, RuntimeInv, PublishInv, RInv, OnceInv, Full,
      SInv, OutcomeInv, StartInv
<1>3. CASE AfterOnce(c)
  BY <1>3, CreatorsAssumption
  DEF AfterOnce, IInv, TypeOK, TemplateInv, CloseInv, RuntimeInv, PublishInv, RInv, OnceInv, Full,
      SInv, OutcomeInv, StartInv
<1>4. QED  BY <1>1, <1>2, <1>3

\* SInv: newModuleInstance.
LEMMA StartModule ==
    ASSUME IInv, SInv, RInv, "full" \notin Outcomes, NEW i \in Ids,
           Register(i) \/ Instantiate(i) \/ ReadFd(i) \/ MapAndRegister(i) \/ RunStart(i) \/ Publish(i) \/ DropState(i) \/ DropClose(i)
    PROVE  SInv'
<1>1. CASE Register(i)
  BY <1>1
  DEF Register, GiveUp, IInv, TypeOK, TemplateInv, CloseInv, RuntimeInv, PublishInv, RInv, OnceInv, Full,
      SInv, OutcomeInv, StartInv
<1>2. CASE Instantiate(i)
  BY <1>2
  DEF Instantiate, IInv, TypeOK, TemplateInv, CloseInv, RuntimeInv, PublishInv, RInv, OnceInv, Full,
      SInv, OutcomeInv, StartInv
<1>3. CASE ReadFd(i)
  BY <1>3
  DEF ReadFd, IInv, TypeOK, TemplateInv, CloseInv, RuntimeInv, PublishInv, RInv, OnceInv, Full,
      SInv, OutcomeInv, StartInv
<1>4. CASE MapAndRegister(i)
  BY <1>4
  DEF MapAndRegister, ImageSource, Full, IInv, TypeOK, TemplateInv, CloseInv, RuntimeInv, PublishInv, RInv, OnceInv, Full,
      SInv, OutcomeInv, StartInv
<1>5. CASE RunStart(i)
  BY <1>5
  DEF RunStart, IInv, TypeOK, TemplateInv, CloseInv, RuntimeInv, PublishInv, RInv, OnceInv, Full,
      SInv, OutcomeInv, StartInv
<1>6. CASE Publish(i)
  BY <1>6
  DEF Publish, IInv, TypeOK, TemplateInv, CloseInv, RuntimeInv, PublishInv, RInv, OnceInv, Full,
      SInv, OutcomeInv, StartInv
<1>7. CASE DropState(i)
  BY <1>7
  DEF DropState, IInv, TypeOK, TemplateInv, CloseInv, RuntimeInv, PublishInv, RInv, OnceInv, Full,
      SInv, OutcomeInv, StartInv
<1>8. CASE DropClose(i)
  BY <1>8
  DEF DropClose, GiveUp, IInv, TypeOK, TemplateInv, CloseInv, RuntimeInv, PublishInv, RInv, OnceInv, Full,
      SInv, OutcomeInv, StartInv
<1>9. QED  BY <1>1, <1>2, <1>3, <1>4, <1>5, <1>6, <1>7, <1>8

\* SInv: the end of set-up.
LEMMA StartSetup ==
    ASSUME IInv, SInv, RInv, "full" \notin Outcomes, NEW i \in Ids,
           SetupFail(i) \/ SetupDone(i) \/ ClosingDone(i)
    PROVE  SInv'
<1>1. CASE SetupFail(i)
  BY <1>1
  DEF SetupFail, IInv, TypeOK, TemplateInv, CloseInv, RuntimeInv, PublishInv, RInv, OnceInv, Full,
      SInv, OutcomeInv, StartInv
<1>2. CASE SetupDone(i)
  BY <1>2, CreatorsAssumption
  DEF SetupDone, IInv, TypeOK, TemplateInv, CloseInv, RuntimeInv, PublishInv, RInv, OnceInv, Full,
      SInv, OutcomeInv, StartInv
<1>3. CASE ClosingDone(i)
  BY <1>3
  DEF ClosingDone, IInv, TypeOK, TemplateInv, CloseInv, RuntimeInv, PublishInv, RInv, OnceInv, Full,
      SInv, OutcomeInv, StartInv
<1>4. QED  BY <1>1, <1>2, <1>3

\* SInv: guest blocks.
LEMMA StartGuest ==
    ASSUME IInv, SInv, RInv, "full" \notin Outcomes, NEW i \in Ids,
           GuestEnter(i) \/ GuestReturn(i)
    PROVE  SInv'
<1>1. CASE GuestEnter(i)
  BY <1>1
  DEF GuestEnter, IInv, TypeOK, TemplateInv, CloseInv, RuntimeInv, PublishInv, RInv, OnceInv, Full,
      SInv, OutcomeInv, StartInv
<1>2. CASE GuestReturn(i)
  BY <1>2
  DEF GuestReturn, IInv, TypeOK, TemplateInv, CloseInv, RuntimeInv, PublishInv, RInv, OnceInv, Full,
      SInv, OutcomeInv, StartInv
<1>3. QED  BY <1>1, <1>2

\* SInv: Instance.Close.
LEMMA StartClose ==
    ASSUME IInv, SInv, RInv, "full" \notin Outcomes, NEW i \in Ids,
           InstanceClose(i) \/ CloseState(i) \/ CloseRemove(i) \/ CloseModule(i)
    PROVE  SInv'
<1>1. CASE InstanceClose(i)
  BY <1>1
  DEF InstanceClose, IInv, TypeOK, TemplateInv, CloseInv, RuntimeInv, PublishInv, RInv, OnceInv, Full,
      SInv, OutcomeInv, StartInv
<1>2. CASE CloseState(i)
  BY <1>2
  DEF CloseState, IInv, TypeOK, TemplateInv, CloseInv, RuntimeInv, PublishInv, RInv, OnceInv, Full,
      SInv, OutcomeInv, StartInv
<1>3. CASE CloseRemove(i)
  BY <1>3
  DEF CloseRemove, IInv, TypeOK, TemplateInv, CloseInv, RuntimeInv, PublishInv, RInv, OnceInv, Full,
      SInv, OutcomeInv, StartInv
<1>4. CASE CloseModule(i)
  BY <1>4
  DEF CloseModule, closeModule, IInv, TypeOK, TemplateInv, CloseInv, RuntimeInv, PublishInv, RInv, OnceInv, Full,
      SInv, OutcomeInv, StartInv
<1>5. QED  BY <1>1, <1>2, <1>3, <1>4

\* SInv: the loop of Runtime.Close.
LEMMA StartSweep ==
    ASSUME IInv, SInv, RInv, "full" \notin Outcomes, NEW i \in Ids,
           SweepState(i) \/ SweepModule
    PROVE  SInv'
<1>1. CASE SweepState(i)
  BY <1>1
  DEF SweepState, IInv, TypeOK, TemplateInv, CloseInv, RuntimeInv, PublishInv, RInv, OnceInv, Full,
      SInv, OutcomeInv, StartInv
<1>2. CASE SweepModule
  BY <1>2
  DEF SweepModule, closeModule, IInv, TypeOK, TemplateInv, CloseInv, RuntimeInv, PublishInv, RInv, OnceInv, Full,
      SInv, OutcomeInv, StartInv
<1>3. QED  BY <1>1, <1>2

\* SInv: the rest of Runtime.Close, and the end of initZygote.
LEMMA StartTeardown ==
    ASSUME IInv, SInv, RInv, "full" \notin Outcomes, 
           RuntimeClose \/ WaitOnce \/ Sweep \/ WazeroClose \/ CloseFile \/ BuildZygote
    PROVE  SInv'
<1>1. CASE RuntimeClose
  BY <1>1
  DEF RuntimeClose, IInv, TypeOK, TemplateInv, CloseInv, RuntimeInv, PublishInv, RInv, OnceInv, Full,
      SInv, OutcomeInv, StartInv
<1>2. CASE WaitOnce
  BY <1>2
  DEF WaitOnce, IInv, TypeOK, TemplateInv, CloseInv, RuntimeInv, PublishInv, RInv, OnceInv, Full,
      SInv, OutcomeInv, StartInv
<1>3. CASE Sweep
  BY <1>3
  DEF Sweep, IInv, TypeOK, TemplateInv, CloseInv, RuntimeInv, PublishInv, RInv, OnceInv, Full,
      SInv, OutcomeInv, StartInv
<1>4. CASE WazeroClose
  BY <1>4
  DEF WazeroClose, IInv, TypeOK, TemplateInv, CloseInv, RuntimeInv, PublishInv, RInv, OnceInv, Full,
      SInv, OutcomeInv, StartInv
<1>5. CASE CloseFile
  BY <1>5
  DEF CloseFile, IInv, TypeOK, TemplateInv, CloseInv, RuntimeInv, PublishInv, RInv, OnceInv, Full,
      SInv, OutcomeInv, StartInv
<1>6. CASE BuildZygote
  BY <1>6, CreatorsAssumption
  DEF BuildZygote, IInv, TypeOK, TemplateInv, CloseInv, RuntimeInv, PublishInv, RInv, OnceInv, Full,
      SInv, OutcomeInv, StartInv
<1>7. QED  BY <1>1, <1>2, <1>3, <1>4, <1>5, <1>6

\* SInv: every step.
LEMMA StartNext ==
    ASSUME IInv, SInv, RInv, "full" \notin Outcomes, [Next]_vars
    PROVE  SInv'
<1>1. CASE UNCHANGED vars
  BY <1>1 DEF vars, SInv, OutcomeInv, StartInv
<1>2. ASSUME NEW i \in Ids, Build(i)
      PROVE  SInv'
  BY <1>2, StartModule, StartSetup, StartGuest DEF Build
<1>3. ASSUME NEW c \in Creators, NewInstance(c) \/ Create(c)
      PROVE  SInv'
  <2>1. c \in Ids
    OBVIOUS
  <2>2. QED  BY <1>2, <1>3, <2>1, StartEntry, StartSetup DEF Create
<1>4. ASSUME NEW i \in Ids,
             \/ GuestEnter(i) \/ GuestReturn(i)
             \/ InstanceClose(i) \/ CloseState(i) \/ CloseRemove(i)
             \/ CloseModule(i) \/ SweepState(i)
      PROVE  SInv'
  BY <1>4, StartGuest, StartClose, StartSweep
<1>5. CASE Build(Template) \/ BuildZygote \/ Teardown
  <2>1. Template \in Ids
    OBVIOUS
  <2>2. QED  BY <1>2, <1>5, <2>1, StartSweep, StartTeardown DEF Teardown
<1>6. QED  BY <1>1, <1>3, <1>4, <1>5 DEF Next

\* Where the environment supports cloning, _initialize only ever runs on mapped
\* memory: Runtime.Close waits for the template's initialisation.
THEOREM StartMemory ==
    ASSUME "full" \notin Outcomes
    PROVE  Spec => []StartOnMappedMemory
<1>1. Init => SInv
  BY DEF Init, SInv, OutcomeInv, StartInv
<1>2. IInv /\ RInv /\ SInv /\ [Next]_vars => SInv'
  BY StartNext
<1>3. SInv => StartOnMappedMemory
  BY DEF SInv, StartInv, StartOnMappedMemory
<1>4. QED  BY <1>1, <1>2, <1>3, Inductive, RestInductive, PTL DEF Spec

=============================================================================
