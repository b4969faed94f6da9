# TLA+ specifications of unbound-wasm

unbound-wasm runs the Unbound resolver as a WebAssembly guest inside a Go
program. The guest owns the DNS logic and has no event loop, no threads and no
sockets of its own; the Go host gives it sockets, timers, entropy and memory,
and drives it from `ResolveAll`. What is hard about this code is on that
boundary: goroutines that race with teardown, memory that is unmapped while
others may be using it, events that are queued in one order and become stale
before they are delivered, callbacks that free what is being iterated over.
The modules here model that boundary and are checked with TLC. The safety
properties of its five state machines, and all but one of those of the
stateless decisions, are also proved with TLAPS, for every value of the
constants.

## Inventory

| Part | State | Operations | Interacts with |
|---|---|---|---|
| Runtime, Instance (`runtime.go`, `host.go`) | `r.closed`, `r.states`, `zygoteOnce`; per instance `guestMu`, `mod`, `modDead`, `done` | NewRuntime, NewInstance, Runtime.Close, Instance.Close, guest calls | wazero (instantiation, closing), zygote |
| Zygote (`zygote.go`, `memory_unix.go`) | template image and file, allocators | initZygote, newClone, mapping, growing and unmapping, parseDataSegments | NewInstance, Runtime.Close |
| Event queue, shutdown, timers (`host.go`) | `events`, `done`, `err`, `timers` | enqueue, close, fail, shutdown, timer_start, timer_stop, timer callbacks | sockets, ResolveAll |
| Sockets (`sockets.go`) | `sockets`; per socket `closed`, connection, `queue`, `err` | sock_open … sock_close; dialer and reader goroutines | event queue, guest |
| Egress policy (`sockets.go`) | none | egressAllowed | sock_connect, sock_send_to |
| Batches (`runtime.go`) | `results`, `errs`, `rids`, `pending` | Resolve, ResolveAll, pollResult, dispatch, kill | result slots, event queue, Close |
| Answer parsing (`answer.go`) | none | parseAnswer, parseEDE | pollResult |
| Result slots (`backends/guest.c`) | `results[64]` | resolve_start, result_get, resolve_cancel, the callback | libunbound |
| Guest context (`backends/guest.c`) | `ctx`, `ctx_err`, the copies of configuration, trust anchors and root hints; libunbound's seeds and secrets | init, warmup, reseed, ensure_ctx, ensure_worker | zygote, libunbound |
| Event backend (`backends/event.c`) | list of events with `active`, `firing`, `freed`, `timer_id` | the `ub_event` vmt, uw_io_ready, uw_timer_fired | libunbound's callbacks, host timers |
| Descriptor table (`backends/sockets.c`) | `slots[128]` | uw_socket, uw_close, uw_socket_fd_for_sid | event backend, host sockets |
| Crypto, entropy (`crypto.go`, `host.go`, `wasi.go`, `backends/secalgo.c`) | none | cryptoVerify, cryptoDigest, parseDNSKEYRSA, hostEntropy, wasiRandomGet | libunbound's validator, guest memory |
| Configuration (`runtime.go`, `unbound.go`, `module.go`) | none | NewRuntime's checks, normalizeName | ResolveAll, allocators, guest context |
| Logging, clock, errno, CLI, C stubs | none | forwarding | |

Hard behaviours, and what makes each part correct:

* Life cycle: NewInstance, guest calls, Instance.Close and Runtime.Close run in
  different goroutines, and the first NewInstance builds the template for
  everyone. Nothing may escape teardown, no guest code may run on unmapped
  memory, every call must return.
* Host I/O: locks are released before events are announced, the queue is
  bounded, and any party may start a shutdown. Readiness and errors must not be
  lost, shutdown must end every goroutine.
* Batches: the context may end, the instance be closed or the queue overflow
  at every step; a slot may be reused while a callback is due. Each query gets
  one outcome, its own; every slot comes back.
* Guest events: callbacks re-enter the event list; stopped timers' firings and
  closed sockets' readiness may already be queued.
* Guest context: set-up is lazy, may fail half way, and normally happens once,
  in a template whose memory everyone inherits. No clone may share what was
  drawn at random, no query may meet a half-configured context.
* Stateless decisions: numbers at the edge of their width, answers in any
  order and any state of damage, tables that two languages keep of the same
  thing. A lookup must fail closed.

`PROJECT.json` lists the hazards line by line with the properties that would
catch them.

## Modules

| Module | Models | Extended or used by |
|---|---|---|
| `RuntimeLifecycle` | Runtime and Instance life cycle, zygote | `MCRuntimeLifecycle`, `RuntimeLifecycleProofs` |
| `RuntimeLifecycleProofs` | theorems about it | |
| `InstanceIO` | one instance's event queue, sockets, timers, dispatcher, shutdown | `MCInstanceIO`, `InstanceIOProofs` |
| `InstanceIOProofs` | theorems about it | |
| `BatchSpec` | what ResolveAll promises (abstract) | `ResolveBatch` |
| `ResolveBatch` | ResolveAll over the guest's result slots | `MCResolveBatch`, `ResolveBatchProofs` |
| `ResolveBatchProofs` | theorems about it, the refinement of `BatchSpec` included | |
| `GuestEvents` | the event backend and the descriptor table | `MCGuestEvents`, `GuestEventsProofs` |
| `GuestEventsProofs` | theorems about it | |
| `LinearMemory` | the kinds of linear memory and their Reallocate | `GuestContext` |
| `GuestContext` | the guest's set-up, the template, its snapshot and the clones | `MCGuestContext`, `GuestContextProofs` |
| `GuestContextProofs` | theorems about it | |
| `AnswerParsing` | results and answers on both sides of the slot | `HostInputs`, `AnswerParsingProofs` |
| `AnswerParsingProofs` | the answer of every chain of aliases; induction | `HostInputsProofs` |
| `EgressPolicy` | the egress policy and the guest's do-not-query list | `HostInputs`, `EgressPolicyProofs` |
| `EgressPolicyProofs` | the policy for every address | `HostInputsProofs` |
| `DataSegments` | parseDataSegments | `HostInputs` |
| `HostCrypto` | tables of algorithms, verdicts, RSA keys | `HostInputs` |
| `HostInputs` | memory limit, entropy, and the inputs for all of these | `MCHostInputs`, `HostInputsProofs` |
| `HostInputsProofs` | theorems about it | |

Operators that a comment calls a mutant or a variant are plausible mistakes in
the operator that follows them. They are part of no specification; they show
that the properties notice the mistake.

### RuntimeLifecycle

Each caller of `NewInstance` makes one instance, so a member of `Creators`
stands for the goroutine, its `Instance` and its `instanceState`; `Template` is
the instance that `initZygote` builds. `pc` is where the building of an
instance is, `cpc` where its effective `Instance.Close` is (the winner of the
compare-and-swap; the losers return at once), `rpc` where `Runtime.Close` is.
A critical section of `r.mu`, or of `guestMu` when no guest code runs in it, is
one step. A guest block is two, `GuestEnter` and `GuestReturn`, with `guestMu`
held in between. `stage` counts the guest blocks of set-up; the allocations of
`initialize` are one block with its `init`.

| Action | Code |
|---|---|
| NewInstance, InitZygote, AfterOnce | `NewInstance` up to and around `zygoteOnce.Do` |
| Register, Instantiate, ReadFd, MapAndRegister, RunStart, Publish, DropState, DropClose | `newModuleInstance` and the allocators below it |
| SetupFail, SetupDone, BuildZygote, ClosingDone | the rest of `newFullInstance`, `newClone`, `initZygote` |
| GuestEnter, GuestReturn | `instanceState.guest` |
| InstanceClose, CloseState, CloseRemove, CloseModule | `Instance.Close` |
| RuntimeClose, WaitOnce, Sweep, SweepState, SweepModule, WazeroClose, CloseFile | `Runtime.Close` |

wazero is external. What is assumed of it: `InstantiateModule` fails on a
closed runtime, on entry and again when it adds the module to its store (in
which case it frees the memory); start functions run after that; `Close`
closes every module of the store without regard to `guestMu`, and closing a
module frees its memory. `Outcomes` says whether the environment lets cloning
work ("clone"), does not ("full": it is disabled, there is no allocator, no
temporary file), or may do either.

### InstanceIO

One step is a critical section of `socketsMu`, `timersMu` or a socket's `mu`,
or one channel operation, so an event is announced in a step after the one
that makes it due. `spc` is how far the one effective `shutdown` is, `reader`,
`dialer` and `tpc` are the goroutines of sockets and timers, `gpc` is the
dispatcher. A packet is represented by its size, since a stream keeps what a
read leaves of it and a datagram does not. Looking a socket up and locking it
is one step: if the socket is closed in between, the import returns EBADF and
changes nothing, as if it had not been found. `sockClose` itself is two steps,
since the socket leaves the table before its connection is closed
(`CloseConn`); the imports that send, connect and receive are split likewise
where they unlock before they go on (`Proceed`). A failed dial sends one event
with the flags for writing and for an error; the model calls it an error event.

A socket may have several connections in its life: `sockConnect` dials
whenever `sock.tcp` is nil, also while a dial is under way, and the dial that
succeeds last overwrites `sock.tcp`. So `conn`, `reader` and `dialer` belong to a
link, a socket with the number of its dial; a connection that is open while
`sock.tcp` is another one is "lost".

The guest is represented by the imports it may call, in any order, and by one
obligation, external: woken for a read or an error of a socket it still has,
it reads from the socket, asks for its error or closes it before it returns
(`owed`); it may also trap (`GuestTrap`). Two properties need more of it than
the imports enforce, and each of these hypotheses is a constant of the module:

* `GuestBinds`: a UDP socket is bound before it is sent from;
* `GuestConnectsOnce`: a TCP socket is connected once.

Unbound does both: it binds its UDP sockets when it opens them, and opens a TCP
socket for one connect. `ClosedSocketsHoldNothing` and `ShutdownEndsAll` are
checked under both and false without either (see Findings and Disagreements).
The other safety properties are proved without them; `DataIsRead` is checked in
the same run as those two. The EFAULT returns of `sockRecv`, which drop
the data and the announcement of more, are not modelled: the guest passes
buffers of its own memory. The network may deliver or not; reads end with data,
an error or the end of the stream.

### ResolveBatch and BatchSpec

`hpc` and `n` are the position in `ResolveAll`; `used`, `ready`, `ubid` and
`answer` are the guest's slots; `live` holds the queries in libunbound that may
still call back. An answer is the pair of batch and query that it answers.
libunbound is external: an attached query that is not cancelled calls back
once, possibly before `ub_resolve_event` returns, and `ub_cancel` ignores a
number it does not know. wazero is configured to close a module when a call's
context is done: `CallFails`, and `mod = "exited"`. The context may end,
another goroutine may close the instance or the runtime, and the queue may
overflow at any time. The deferred `resolve_cancel` calls are assumed not to
trap on a live module: `cancel` ignores the error (`runtime.go:700-703`), so a
trap there would leave the slot in use and the instance open. `BatchSpec` is the promise: each query settles once, with
a result or with an error, and the call returns when all have.

### GuestEvents

An event is a piece of memory (`mem`): "linked" in the list, "zombie" (freed
while its callback is on the stack) or "free", and free memory may be allocated
again. `wipe` forgets the fields of freed memory, which nothing reads and
`calloc` clears. `IoFire` and `CallbackReturn` delimit a callback of
`uw_io_ready`, `timer_fired` and `CallbackReturn` one of `uw_timer_fired`; `cur`
is the event whose callback is on the stack, a set of at most one. In between
every entry of the vmt and of the descriptor table is possible, on every event;
`event_add_bits` and `event_del_bits` are given one flag at a time. The
generation counter is represented by `last`, which is cleared at the end of a
delivery. `ioq` and `timerq` are what the host has queued: a set each, so
deliveries come in any order, and entries stay when their socket is closed or
their timer stopped. External: Unbound does not use an event that it has freed.

### GuestContext and LinearMemory

`mem` is what each instance's linear memory holds, as far as set-up is
concerned. `seed` and `cookie` are the draw of entropy that each was filled
from; the entropy import never gives the same answer twice, so `draws` counts
its calls and draw 0 is the constant in the module. `text` counts the lines of
an input that its C string still shows and `applied` is the set of lines that
the context was given: `apply_lines` cuts its text in place, so a second pass
would find the first line only, which is why `ensure_ctx` remembers a failure.
`sdata` stands for the other data in the module's data segments, which
instantiation overwrites in a clone and `newClone` writes back.

An export of the guest is an operator from a memory to the set of its outcomes
(`guest_init`, `guest_warmup`, `guest_reseed`, `guest_resolve_start`), since
`guestMu` is held throughout. libunbound is external: creating the context,
every line, `context_finalize` and the worker may fail, and the worker may open
a socket or start a timer although it should not (`held`, which `initZygote`
checks). A failed `context_finalize` leaves nothing behind in the model. `NewFull` and `NewClone` are one step each: what may interleave with
them is `Close`, and that is the subject of `RuntimeLifecycle`.
`TemplateTimerFires` is in `initZygote`'s own window between `warmup` and the
check; `lapsed` remembers it for `ImageIsPortable`.

`LinearMemory` has the three kinds of memory (a reservation, a reservation over
the image, a slice) with the number of pages in use, in the buffer and in the
image. `Reallocate` gives the size it settles for: a memory over the image
starts at the image's size whatever wazero asks for.

### HostInputs and the modules it extends

These are the decisions that the host makes without state. `HostInputs` takes
up one input of a bounded set and puts it down again; the properties compare
each decision with a definition of what is right that is written differently:
the alias chain as a relation on canonical names, a module or a key as what an
encoder produces, the host's list of networks against the guest's.

Widths that make numbers interesting are parameters: LEB128 groups, integers
and addresses in `DataSegments`, byte values in `HostCrypto`, and in
`HostInputs` the largest int (`MaxInt`) and the sizes of a page and of the
address space. IP addresses keep their full width and are taken at both sides of both ends of every prefix of either list, as IPv4, as
IPv6 and mapped. An answer's names are atoms with a canonical form; a record's
data is well formed or not. A callback has any result code with any packet, or
none; in `verify_canonrrset`, `fits` says that no length exceeds an int32. External: the signature mathematics (`genuine`),
the parser of messages (a packet's `form`), the guest's address tree and
wazero's `Memory`.

## Runs

All runs but `host_inputs` have `CHECK_DEADLOCK FALSE`: a closed runtime, a
closed instance and an exhausted bound are states in which the system may stop
for good.

| Run | Question | Bounds | Result |
|---|---|---|---|
| lifecycle | Does teardown miss anything, is memory freed under guest code in no more than two windows, do Close and NewInstance return? | 2 creators, template, either outcome, fairness | holds |
| lifecycle_full_path | Do start functions keep their memory where cloning does not work? | 1 creator, "full" | violated, finding |
| lifecycle_close_race | Is a guest call's memory always mapped? | 1 creator, "clone" | violated, finding |
| instance_io | Is readiness lost, is an error? | queue of 3, 1 socket, 2 dials, 2 packets of up to 2 units, no hypothesis about the guest | holds |
| instance_live | Does a connection survive its socket, are timers accounted for, does shutdown end everything, is data read? | queue of 2, 1 socket, 1 timer, 1 packet, guest binds first and connects once, fairness | holds |
| instance_send_leak | Does a connection survive its socket, for a guest that does not bind? | queue of 2, 1 socket, guest connects once | violated, finding |
| instance_eof | Is a failed connection's failure collected? | queue of 2, 1 socket, no packets | violated, finding |
| resolve_batch | Is every query settled once, with its own answer, are the slots freed, does a stopped ResolveAll return? | 2 batches of 3 queries on 2 slots, fairness | holds |
| resolve_batch_cancel | Does cancellation close the instance? | 1 batch of 2 queries | violated, finding |
| guest_events | Is memory used after it is freed, does an event fire twice in a delivery, are stopped timers silent, are timers left behind? | 2 events, 1 descriptor, 2 host sockets, 2 timers, 1 queued readiness | holds |
| guest_context | Is entropy shared, does a query meet a context that is not fully configured, is a clone like an instance set up by itself, does a snapshot refer to host resources, does a clone fit the image? | 2 instances and the template, 2 lines of configuration and of anchors, 1 hint, memories of 1 to 3 pages, 6 draws | holds |
| host_inputs | Are the stateless decisions right for every input? | 3 answer records (2 in a callback's packet) over 3 names and 2 spellings, 2 segments, keys of up to 6 bytes of 2 bits, limits of 8 bits, memories of up to 32 bytes | holds |

`lifecycle`, `instance_live` and `resolve_batch` check temporal properties and
use no symmetry; `guest_events` checks invariants only and is symmetric in its
events, which no definition tells apart, and `guest_context` likewise in its
instances.

Why the bounds are enough for the interesting cases. Two creators and the
template are the builder of the template, a caller that waits for it, and the
template itself, each of which can be at any step when the runtime is closed.
A queue of two or three overflows, and also holds the stale event and the one
that is due. Two units in a packet make a partial read, and two dials a
connection that is lost, with two readers at work on one socket. More queries than
slots make the slot limit bite, and a second batch makes slots be reused while
a query of the first could still call back. One descriptor with two host
sockets makes the descriptor be reused; two timers make an event be re-added
while the firing of its first timer is queued. Two instances and six draws let
two clones of one image be compared with each other and with it, or two
instances on the full path; two lines of an input are what a cut text can
lose. Three pages tell the declared size, the image's and a later growth
apart. Three records make a chain of two aliases and its answer, in every
order, or a loop; a padded LEB128 of three groups of 2 bits reaches past
addresses of 4 bits, and all 8-bit limits and all ranges of an address space of
32 bytes include every wrap. The constants of the code
(1024 events, 256 sockets, 8192 timers, 64 slots, 128 descriptors) appear only
as these limits.

Fairness. Goroutines that are not blocked run on. `sync.Mutex` does not starve
a waiter, so `closeModule` is strongly fair. A guest call returns, because no
host import blocks (`host.go`, `closeModule`). A `select` with several ready
cases picks among them at random, so a case that is ready again and again is
taken. A dial ends by its timeout, a read when its connection is closed.
Nothing is assumed of the network, of the callers of `NewInstance`,
`ResolveAll` and `Close`, or of timers' firing.

## Findings

`PROJECT.json` has the quotations; the runs above show each of them.

1. On the full path `_initialize` runs outside `guestMu`, in a module that is
   not yet published; `Runtime.Close` unmaps its memory (`lifecycle_full_path`).
   The template and clones are safe, which is proved (`OnceProtectsStart`).
2. `Instance.Close` leaves `r.states` before it waits for the guest call in
   flight; a `Runtime.Close` in that window unmaps memory under the call
   (`lifecycle_close_race`). That this is the only window is proved
   (`GuestMuProtectsMemory`). In the same window the guest call meets the panic
   of `Runtime.state` at its next host import, a hazard that `PROJECT.json`
   lists.
3. `sockSendTo` opens a listener on a socket that was closed between its two
   critical sections (`instance_send_leak`).
4. The end of a TCP stream is announced as an error that no call reports
   (`instance_eof`).
5. A context that ends while queries are being started does not close the
   instance (`resolve_batch_cancel`).

## Disagreements

Where the code and a comment or document of the repository part, beyond the
findings above. No property claims what is quoted here; what the code does
instead is in the models, and the properties named say how far it goes.

* A second connect. `sockConnect` looks at `sock.tcp` only
  (`src/sockets.go:212-218`), so a connect during a dial starts a second one. If
  both succeed, the later overwrites `sock.tcp` (`src/sockets.go:421`), and
  `hostSocket.close` never closes the earlier connection, whose reader outlives
  the instance. `src/runtime.go:713-714`: "Close aborts any in-flight
  resolution, closes the instance's sockets and timers, and frees its sandbox
  memory." TLC finds the trace when `InstanceLive.cfg` is given
  `GuestConnectsOnce = FALSE`.
* Root hints. `NewRuntime` asks `egressAllowed`, which unmaps its argument, and
  hands the text of the hint to the guest, whose list has `::ffff:0:0/96`: a
  hint such as `::ffff:8.8.8.8` is accepted and never asked.
  `src/runtime.go:55-56`: "Fail rather than let the egress policy silently drop
  every query to this server." `RootHintsAreAsked` proves that the mapped hints
  are the only ones.
* Memory limit. `cfg.MemoryLimit+pageSize-1` (`src/runtime.go:78`) wraps for the
  last 65535 values of int64, which are granted no page or one.
  `src/unbound.go:168-169`: "MemoryLimit is the maximum memory of each Instance,
  in bytes, rounded up to the wasm page size." `LimitIsMaximum` is the first half
  of the sentence, which holds for every value.
* Host resources in the image. `src/zygote.go:13-14`: "a warmed instance holds no
  host resource identifiers (checked below)"; also `src/zygote.go:76-78`,
  `src/backends/guest.c:224-226` and `src/abi/README.md:73-75`. The check counts
  the timers that are pending; had warm-up started one that fired before the
  check, its number would be in every clone. `ImageIsPortable` says that nothing
  else escapes.
* Malformed packets. `src/answer.go:15-16`: "A malformed packet is an error, so
  lookups fail closed rather than report an empty answer." `pollResult` takes
  NXDOMAIN from the header of a packet and does not parse the rest
  (`src/runtime.go:646-660`), so a cut or garbled packet whose header says
  NXDOMAIN is a result. A callback with result code 0 and no packet at all is an
  answer without records (`src/answer.go:18-20`). `FailsClosed` states both as
  they are.

## Proofs

`RuntimeLifecycleProofs` proves, for every set of creators and every value of
`Outcomes`, with the assumptions of `RuntimeLifecycle` (the template is not a
creator, outcomes are the two named ones):

| Theorem | States |
|---|---|
| `TypeCorrect` | `Spec => []TypeOK` |
| `GuestMemory` | `Spec => []GuestMuProtectsMemory` |
| `OnceMemory` | `Spec => []OnceProtectsStart` |
| `Swept` | `Spec => []SweptForGood` |
| `Inert` | `Spec => []ClosedRuntimeIsInert` |
| `CloneImages` | `Spec => []ClonesHaveTheImage` |
| `StartMemory` | `Spec => []StartOnMappedMemory`, if "full" is no outcome |

None of these is inductive by itself. The first invariant, `IInv` (theorem
`Inductive`), says which instance is in which state:

* `GuestInv`: `guestMu` is held for a guest block only by an instance in set-up
  or in use whose module is not dead;
* `CloseInv`: only an instance that exists is closed, and a finished Close has
  closed its module;
* `OwnedInv`: an instance in use is in `r.states` or in the sweep, or its
  module is dead, or its own Close is about to call `closeModule`;
* `RuntimeInv`: what `Runtime.Close` has achieved at each of its steps;
* `PublishInv`: a module that is not yet published is unknown to `closeModule`;
* `MemInv`: memory is mapped for whoever may still enter the guest, unless the
  wazero runtime is closed and the instance's own Close has passed the registry;
* `TemplateInv`: the template is built inside the Once only.

With these, memory under a held `guestMu` can be freed by `WazeroClose` only,
and only for an instance in the hands of its own Close: that is
`GuestMuProtectsMemory`, and the window in it is finding 2.

The second invariant, `RInv` (theorem `RestInductive`), is relative to the
first: the Once is over before the sweep and before anyone registers
(`OnceInv`); a creator that runs start functions has no template to clone
(`FullInv`); the image file is open from the end of `initZygote` to
`Runtime.Close` (`FileInv`); the closing of the wazero runtime leaves nothing
mapped (`UnmapInv`); whoever takes an instance out of the registry shuts it
down (`ShutInv`); and clones have the image (`ClonesHaveTheImage`). The third,
`SInv`, holds without the outcome "full": past the Once there is a template, an
error or a closed runtime (`OutcomeInv`), and only the template runs
`_initialize`, on mapped memory (`StartInv`), because the Once makes
`Runtime.Close` wait for it.

### ResolveBatchProofs

For any number of queries, slots and batches (`SizesAssumption`: they are
natural numbers).

| Theorem | States |
|---|---|
| `TypeCorrect` | `Spec => []TypeOK` |
| `PendingIsExact` | `Spec => []PendingExact` |
| `ResultsBelongToQueries` | `Spec => []ResultsBelong` |
| `SlotsAreFreed` | `Spec => []SlotsFreed` |
| `ImplementsBatchSpec` | `Spec => SettlesEveryQuery`, the refinement of `BatchSpec` |

`PendingExact` and `ResultsBelong` need to know what is in the slots. `SlotInv`
says it: while a batch runs on a live module (`Attached`), each slot in use
belongs to one query of this batch, and holds or waits for the answer to it.
The deferred cancels weaken that to "slots in use belong to queries that are
not cancelled yet" (`OwnedFrom(n)`), which is empty at the end of the loop.
Once the module is gone nothing is said of the slots, since nobody reads them.
`FrontierInv` and `SettledInv` say which queries each loop has dealt with;
`OutcomeInv`, that none has two outcomes. With `PendingExact` these give the
refinement: the wait ends at `pending = 0`, so with every query settled. Each
step of `ResolveAll` then settles one query (`SettleStep`, `PollStep`), fails
all that are not settled (`FailStep`), begins or ends the batch, or is a stutter
of `BatchSpec` (`RefinedStep`). `SetOfQueries` and `Counting` relate `pending`
to the set of waiting queries, with the library's theorems about finite sets.

### InstanceIOProofs

For any capacities and any number of sockets, timers and packets
(`BoundsAssumption`: natural numbers).

| Theorem | States |
|---|---|
| `TypeCorrect` | `Spec => []TypeOK`, with the caps of channel and tables |
| `ReadinessIsKept` | `Spec => []NoLostReadiness` |
| `ErrorsAreKept` | `Spec => []NoLostError` |
| `TimersAreAccounted` | `Spec => []TimersAccounted` |
| `ClosedHoldNothing` | `Spec => [](GuestBinds /\ GuestConnectsOnce => ClosedSocketsHoldNothing)` |

The hypotheses of `ClosedHoldNothing` are those without which the property is
false (finding 3; the second connect). The other theorems hold for a guest that
keeps to neither. The interesting invariant is `ErrorInv`. The
guest may use the event for an error to read data instead, so "the error is
announced" is not preserved by itself. What is: a reader announces each packet
before it can fail, and a read of data that leaves something announces it
again, so whenever the event for the error is spent on data, there is a second
announcement for reading (`Twice`; a reader that has pushed and not announced
yet counts as one), or the queue is empty and there is one (`Once`, `Pushed`). The rest keeps track of who is doing what: sockets that are not
opened yet (`FreshInv`), the one connection of a guest that connects once
(`OnceInv`), goroutines against connections and recorded errors
(`ReaderInv`), sockets between the map and their closing (`SocketInv`), timers
(`TimerInv`), and the imports that are split in two (`CallInv`).

### GuestEventsProofs

For any set of events, any descriptors, sockets, timers and interest sets
(`ConstantsAssumption`: descriptors and bounds are natural numbers).

| Theorem | States |
|---|---|
| `TypeCorrect` | `Spec => []TypeOK` |
| `FreedIsNotUsed` | `Spec => []NoUseAfterFree` |
| `FiresOnce` | `Spec => []FiresOncePerDelivery` |
| `StoppedIsSilent` | `Spec => []StoppedTimersStaySilent` |
| `TimersHaveEvents` | `Spec => []NoOrphanTimers` |

`ListInv` says that the list holds exactly the linked events, each once (so
that `unlink_event`, which stops at the first, takes the event out);
`StackInv`, that only the event whose callback is running is `firing` and may
outlive its freeing; `TimerInv`, that a timer has one event, which is linked,
and was not stopped; `FireInv`, that a callback of this delivery has left its
mark in `last_dispatch`.

### GuestContextProofs

For any number of instances, lines, pages and draws (`ContextAssumption`: the
template is none of the instances, the sizes are natural numbers and the
smallest memory is no larger than the largest).

| Theorem | States |
|---|---|
| `TypeCorrect` | `Spec => []TypeOK` |
| `EntropyIsNotShared` | `Spec => []NoSharedEntropy` |
| `ServesOnlySetUp` | `Spec => []ServesFullySetUp` |
| `ImageTravels` | `Spec => []ImageIsPortable` |
| `CloneAlwaysFits` | `Spec => []CloneFitsImage` |

The exports of the guest are operators from a memory to its outcomes, so most
lemmas are about those: each leads from a good memory (`Good`) to good ones,
and whatever it draws is newer than all that was drawn before. `Good` has what
makes the lazy set-up safe: without a context the texts are whole, and a context
without `ctx_err` was given every line. `InstanceInv` says that open memories
are good and pairwise without common entropy (`Apart`), `ImageInv` the same of
the image against every instance, which `reseed` in `newClone` restores for
the clone's copy of it. `TemplateInv` and `ServedInv` follow the template to
its snapshot and an instance after its first query.

### HostInputsProofs

For any names, records and answers, any address, any key, and any sizes of a
page, of the address space and of an int that `PagesAssumption` allows: a page
is more than a byte, the address space is two pages or more and all whole, and
the number of positive ints is a multiple of their product. The code's are
2^16, 2^32 and 2^63, on a 64-bit host.

| Theorem | States |
|---|---|
| `ChainIsFollowed` | `Spec => []AnswerIsTheChain` |
| `LookupsFailClosed` | `Spec => []FailsClosed` |
| `EgressAgrees` | `Spec => []EgressMatchesGuest` |
| `LimitIsKept` | `Spec => []LimitIsMaximum` |
| `KeyIsExact` | `Spec => []RSAKeyExact` |
| `TablesAgree` | `Spec => []CryptoTablesAgree` |
| `EntropyIsWhole` | `Spec => []EntropyFillsOrRefuses` |

The inductive invariant (`InputIsShaped`) only says that an input is one of
those that the actions enumerate: the content of these theorems is about the
decisions, not about the steps. `LookupsFailClosed` uses of `parseAnswer`
nothing but that it is a function of the answer.

`LimitIsKept` has two cases. Where `limit + PageSize - 1` is an int the
quotient is the number of pages, and capping makes it less than the address
space, so that the conversion to 32 bits keeps it (`PagesOf`). Where it
overflows, the sum is a negative number within a page of the smallest int, its
quotient is a multiple of the address space or the number after one, and the
conversion leaves no page or one (`PagesOfOverflow`), which is never too much.

`KeyIsExact` rests on `KeyOfBytes`: a byte string can be cut into head,
exponent and modulus in one way at most, the one that `parseDNSKEYRSA` finds,
because the head says its own length and the exponent's (`EncodingAt`). That
`Number` is a natural number for bytes of any length (`NumberOfBytes`) makes
"not zero" and "positive" the same.

### AnswerParsingProofs

`AnswerOfEveryChain` is the theorem behind `ChainIsFollowed`, for answers of
any length. Write c(0), …, c(n) for the canonical names of the walk over n
answers.

* Each c(i) is on the chain, which is the least set closed under first aliases
  (`WalkIsOnChain`), and from a name without an alias the walk does not move
  (`WalkStays`).
* If c(n) has no alias, the walk's names are closed, so the chain is among
  them, and the only name of it without an alias is c(n) (`WalkEnds`).
* If c(n) has one, all n + 1 names do, and there are only n records: two names
  have the same alias (`FS_PigeonHole`), so they are equal, the walk's names up
  to there are closed and the chain has no end (`WalkLoops`). This is where the
  bound of the Go loop, one step per answer, is used: it is enough for every
  chain and it stops every loop.
* The records that are taken are those at the due places, in their order
  (`RecordsTaken`).

The library's induction rules have operator parameters, which the installed
provers cannot instantiate. The module has its own without them:
`LeastElement`, from the well-foundedness of the naturals; `SetInduction`, for
a set of numbers in place of a predicate; `Throughout`, for the values of a
function; and `Recurrence`, that a first value and a step for each place
determine a function, which is what a recursive definition needs before
anything can be said about it.

### EgressPolicyProofs

`EgressOfEveryAddress` states `EgressMatchesGuest` for every IPv4 and IPv6
address, of which the run only tries the edges of the prefixes;
`RootHintsAreAsked` says which of the hints that `NewRuntime` accepts the guest
drops. The guest's list is the host's and four
prefixes more (`Lists`): 255.255.255.255/32 is within a prefix of the host
(`Broadcast`), and the other three are outside 2000::/3
(`OutsideGlobalUnicast`), which is exactly `\h2000 <= ip[1] <= \h3fff`
(`GlobalUnicast`). `EgressAgrees` then only needs that the addresses that are
tried are addresses (`AddressesAreAddresses`). The provers know nothing of
powers, so the number of values that agree in some bits of a group is a table,
`Span`.

### Layout

Each proof that a step preserves an invariant has one lemma per action or
group of actions, and below it a step per action and disturbed conjunct. All
inductive invariants were checked with TLC, on the instances of the runs,
before they were proved.

### Only model-checked

* Liveness: `CloseReturns`, `NewInstanceReturns`, `ShutdownEndsAll`,
  `DataIsRead`, `StopsWhenTold`. The proof system has no fairness reasoning.
* `SegmentsExact`: that a LEB128 of any length is decoded to what was encoded
  is arithmetic with powers of a variable, of which the provers know nothing;
  and the property is about modules whose numbers fit the two or three bytes
  that the run gives them, which at the code's widths the offsets do not.

## Remarks

Behaviour that the properties state as it is, and that a reader of the code may
not expect.

* wazero's `Memory.Size` is 0 for a memory of 4 GiB, so entropy is refused
  there (`EntropyFillsOrRefuses`).
* On the full path `ub_resolve_event` does what `ensure_worker` does for a
  template, without `ctx_err`: a failure there is retried by the next query.
  The model lets the retry finish what the first attempt left, so a query that
  is attached has a complete set-up (`ServesFullySetUp`); whether a second
  `context_finalize` really does is libunbound's affair.
* A data segment in the upper half of memory makes `parseDataSegments` reject
  the module, which turns cloning off (`SegmentsExact`).

## Not modelled

* The contents of packets and of memory, beyond what is named above; logging;
  the replay hooks, which only tests set.
* `parseEDE` and `parseCAA` field by field, the hash of
  NSEC3 and the WASI clock and `fd_write`: library calls in a row, with
  nothing to go wrong between them.
* The characters of names: `normalizeName` may refuse a name in `ResolveBatch`,
  for whichever reason.
* The errno tables, the C stubs, the command line, addresses with zones.
* `nameEqual` folds Unicode where DNS folds ASCII; `Fold` is a parameter and
  does not tell the two apart.
* libunbound and wazero themselves, beyond what is listed above as assumed.
* A context that ends inside a guest call of `RuntimeLifecycle` (wazero then
  closes the module) is modelled in `ResolveBatch` only.

## Plan

1. Compose `ResolveBatch` with `InstanceIO`'s queue, so that a batch settles
   when its answers arrive; today each has the other as its environment.
2. State and prove the composition's safety part: that the batch's environment
   in `ResolveBatch` allows whatever `InstanceIO` does, as a refinement.
3. Give `SegmentsExact` encodings whose length follows from the number, and
   prove the round trip with a table of powers.
