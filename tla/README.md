# NvNmos: TLA+ models, checks and proofs

NvNmos lets media applications appear as NMOS Nodes. This directory holds the
TLA+ models of its core logic, the TLC runs over them and the theorems TLAPS
proves about them. Paths below are relative to the repository.

## 1. The system

| Component | State it keeps | Operations |
| --- | --- | --- |
| **Node, session and resource registry** (`rust/nvnmosd/src/state.rs`) | `nodes`, `pending_nodes`, `sessions`, `resources`, `by_name`, `subscriptions`, `http_ports`, handle counters | OpenSession, CloseSession, AddNode, RemoveNode, Add/Remove Sender/Receiver, SyncResourceState, SubscribeActivations |
| **IS-05 activation router** (`main.rs` `route_activation`, `state.rs` `dispatch_activation`…) | `pending_activations`, one ack channel per activation, one bounded event channel per stream | dispatch on a libnvnmos thread, AckActivation, timeout, cleanup |
| **Session GC** (`session_gc.rs`) | `watchdogs`: session → abort handle | start, cancel, expiry, the tasks that a dropped stream spawns |
| **Locks, workers, threads** (`main.rs`, `doc/designs/nvnmosd/lock-ordering.md`) | state mutex, watchdogs mutex, model lock of each Node, async workers, blocking pool | every handler takes some of them, in some order |
| **HTTP port allocation** (`http_port.rs`, `resolve_http_port`) | `http_ports` | scan of a range with a bind probe |
| **Channel mappings, IS-08** (`state.rs`, `main.rs`) | `channelmappings`, indexes by name and id, own subscriptions and pending activations | add, remove, sync, route |
| **Annotations, IS-13** (`annotation_store.rs`) | the store, its limit, the checkpoint file | apply, debounced write through temp file and rename, subscribe with snapshot, publish |
| **libnvnmos** (`src/nvnmos.cpp`, `src/nvnmos_impl.cpp`) | the nmos-cpp model, its lock, threads, HTTP listener | add/remove sender/receiver/mapping, activate, callbacks, destroy |
| **nvnmos** (`rust/nvnmos/src/lib.rs`) | the handle of a `NodeServer` and its boxed callbacks | create, add, remove, sync, `Drop`; the trampolines that turn a callback's result into what libnvnmos reads |
| **Daemon client** (`rust/gst-nmos-rs/src/daemon.rs`, `session/close_daemon.rs`) | `SessionPhase`, the running add/sync tasks | open, add, sync, close with deadline |
| **Element session and inner chain** (`session/mod.rs`, `inner.rs`, `nmossrc`, `nmossink`) | element state, the current chain | state changes, chain swap on activation, rollback |
| **Channel map element** (`channel_mapping*`, `nmosaudiochannelmap`) | pads, frozen topology, mix matrices, its session and mapping handle | fixation, retry, teardown, apply activation |
| **Translation** (`sdp.rs`, `flow_def.rs`, `sdp_passthrough.rs`, `session/udp`, `session/mxl.rs`, `nvdsudp/packetization.rs`) | none | properties, caps and files to transport files, to chains and back |

How they interact. A client (an element, or any gRPC client) opens a *session*
on a *Node* named by its seed; the first session of a seed, or AddNode, builds a
`NodeServer` in libnvnmos. Every method of `State` runs under one mutex. Calls
into libnvnmos take the model lock of the Node, and libnvnmos calls back with
that lock held, so the daemon never makes such a call under the state mutex:
an RPC is `prepare` (mutex) → FFI (no lock, blocking pool) → `commit` or `abort`
(mutex), or bookkeeping (mutex) → deferred FFI. An IS-05 controller's PATCH
becomes a callback on an activation thread; that thread sends an event on the
stream of the owning session and waits up to five seconds for AckActivation.
When a client has no activation stream, a watchdog closes its session. IS-08
activations and IS-13 annotations take the same ways, with streams of their own.
An element drives its session from its state changes, applies activations on
worker threads by swapping the inner chain behind a pad, and describes itself to
libnvnmos by a transport file that both sides parse.

What is hard here: the phases of concurrent RPCs interleave with each other and
with closes; the last clone of an `Arc<NodeServer>` decides when a listener
closes; an ack races a timeout; an abort races the end of a sleep; three kinds
of lock, a bounded number of workers and a thread join must not wait in a
circle; a checkpoint is replaced while the machine may stop; a daemon call answers
after the state change that made it gave up; a swap works against a streaming
thread; two parsers read one file. `PROJECT.json` lists these as hazards at the lines where they bite, with
the properties that cover them.

What makes each component correct:

* registry: counts, indexes, ports and server lifetimes agree in every state
  between two phases; a session never loses its Node; an object in libnvnmos is
  owned by one session;
* router: no entry in `pending_activations` without a thread waiting, no success
  the client did not report, every thread is released;
* GC: no session is closed under a live stream; every abandoned session goes;
* locks: no call on a destroyed server, nobody waits for ever;
* channel mappings: as the registry and the router, with several ids at once;
* annotations: the next start can always read the checkpoint, an update reaches
  it, a stream leads to what is stored and libnvnmos shows what is stored;
* libnvnmos: no resource is half there; controller, registry and application
  agree on what is active;
* client and element: no session leaks, none is opened twice, no Sender is added
  twice; a swap ends, and upstream does not notice it;
* channel map element: what comes out is what IS-08 shows;
* translation: the chain is wired to what libnvnmos shows, and the user's
  properties reach both.

## 2. Modules

### NodeLifecycle, the promise

A session-refcounted Node exists exactly while sessions are attached to it, a
persistent one from AddNode to RemoveNode. It has no counters, phases or
deferred work. `DaemonState` is shown to implement it.

### DaemonState, the registry

Variables carry the names of the fields of `State`. `servers` is the set of
`NodeServer`s that exist in libnvnmos, each with its listener's port and its
objects. `rpc[t]` is the phase of a handler together with what the `*Prep`,
`*Ready` and `*Ffi` structs carry across the unlocked stretch, the clone of the
`Arc` included: `HoldsServer` says in which phases there is one, `LastHolder`
when the drop of it is the destroy. A method of `State` is one action; an FFI
call is one action; requests that are refused without any change are guards.

| Code | Actions |
| --- | --- |
| `prepare_open_session`, `commit_open_session`, `abort_pending_node`, `CreateNodePrep::run_ffi` | `PrepareOpenSession`, `AttachSession`, `CreateNodeFfi`, `AbortPendingNode`, `CommitOpenSession` |
| `prepare_add_node`, `commit_add_node`, `remove_node` | `PrepareAddNode`, `CommitAddNode`, `RemoveNode` |
| `close_session`, `CloseSessionFfi::run` | `CloseSession`, `RemoveObjectFfi`, `DropServerFfi` |
| `prepare_add_resource`, `AddResourcePrep::run_ffi`, `commit_add_*` | `PrepareAddResource`, `AddResourceFfi`, `AddResourceFfiFails`, `AddResourceFfiStray`, `CommitAddResource`, `CommitAddResourceOrphaned` |
| `remove_resource`, `sync_resource_state` and their FFI | `RemoveResource`, `SyncResourceState`, `SyncResourceFfi` |
| `subscribe_activations`, the reaping of a dropped stream | `SubscribeActivations`, `StreamDropped`, `OnSubscriptionStreamEnded` |

Abstractions: a Sender or Receiver is an element of `Objects` (its side and its
name); ids, SDP and configuration are left out; a port is any free port
(`PortFree`: not reserved, and the bind probe succeeds, which it does not while
a server of the daemon listens on it); libnvnmos' duplicate check is
`InsertResource`. The removals of one close run one by one, in any order, with
other handlers in between.

### ActivationRouter

One thread per Node, so one activation per Node at a time (nmos-cpp's activation
thread is serial). A thread dispatches under the mutex (`Dispatch` and its three
refusals), waits without it (`RecvAck`, `RecvTimeout`, `RecvDisconnected`), and
cleans up under it (`Cleanup`); what libnvnmos is told goes through
`ActivationTrampoline`. Clients subscribe, read, drop their stream,
acknowledge with either outcome, for their own or another's activation, late
or twice, remove the resource and close the session.
`log` records, for the properties, whom an activation was routed to, which
acknowledgement was accepted and what the controller was told.

### SessionGc

A watchdog is a task that can be aborted only where it awaits: in the sleep and
in the wait for the removals, which themselves go on (`Aborted`). `start_timeout`
is three critical sections (cancel, spawn, insert), modelled as such
(`StartTimeout`, `ListWatchdog`). `task` holds what may start a watchdog: the
tail of OpenSession and the task that the `Drop` of a stream spawns. Time is
ticks; an expired sleep must be noticed before the next tick.

### LockOrdering

What is left of a handler is the order in which it takes things (`Script`):
`state`, `watchdogs`, both nested, a libnvnmos call, a libnvnmos call that calls
back. There is one script per kind of request: add, remove, sync, close, expiry of
a watchdog, subscribe, annotate. A handler needs a worker to be polled (`NeedsWorker`, `OnWorker`); one
blocked on a mutex keeps it; one that awaits the blocking pool does not. The
activation thread takes model, then state, and parks. The destroy sets
`shutdown` and joins the thread. The specification is `LockSpec`.

### Annotations, AnnotationStore, AnnotationEvents

`Annotations` has the forms of an annotation (stored, update, patch, checkpoint
record) and the operators between them; absent, unchanged and reset are told
apart, a label and a tag stand for all. `AnnotationStore` is the store with its
writer thread: `writer.pc` walks through `debounce_then_write` and
`write_checkpoint` one file operation at a time (`CreateTmp`, `WriteTmp`, `SyncTmp`,
`RenameTmp`, `SyncDir`, each of which may fail), `Crash` ends the process and
`PowerLoss` also loses what was not synced. `AnnotationEvents` is one Node with its
sessions: PATCH and UpdateAnnotation merge under the model lock, store and publish
under the state mutex; streams start with a snapshot, have a bounded buffer and
are reaped by the task of their `Drop`; resources come and go between the read of
the store and the create. Both keep the same map (`entries`) under the same limits, which
are declared in `Annotations`; the specification of the store is `StoreSpec`.

### NodeModel

The resources that libnvnmos keeps for one Node: the four inserts of an add with
the check that may throw at each, the removal, the reference counts of
interfaces, the activation of what a controller staged (`resolve_auto`, transport
file, callback) and the application's own report. Each entry point holds the model
lock, so each is one action. A transport file is a record of the fields that
decide something; `torn` names the resources whose last report was rejected half
way, which the code leaves so. The interfaces of the Node are a bag, so that one
could be listed twice; the reference counts of `update_node_interfaces` change by the
number of legs (`Occurrences`).

### ElementSession, ChainSwap

`ElementSession` is one nmossink or nmossrc against the daemon. Each RPC is a task
that may answer, fail or hang; the state-change thread waits for it up to a limit
and goes on without it. `slot` is the element's `Option<SessionPhase>`, `sess[s]` what
becomes of each session, `daemon[s]` what the daemon holds for it. The branch of
`take_for_close` for an open that is still pending is in the model (`CloseJoin`)
and proved unreachable (`SlotAt`). `parent_change_state` may fail after the open of
NULL to READY: the session stays in the slot then. A swap is one step with three
outcomes. `upset` is a history variable: the events since `active` and the chain last
agreed, or were last both set, that may have set them apart. Left out: a call
that the daemon served and whose answer was lost with the connection, or with
the daemon; `CloseSession` has that case (`lost`), because the session then
lives on until the GC of the daemon closes it.

`ChainSwap` takes the swap apart: the swapping thread
of `rebuild_chain_with_opts` against the streaming thread of a sink or a source
bin, with probe, valve, clock wait, stop, fallback and the ERROR path. GStreamer
is modelled by what the code relies on; data from the network, the clock, a transport
that takes a buffer and a downstream that returns are not relied on (`Waits`).
A time-out is long: it fires only when
the thread it waits for cannot move.

### ChannelMappings, ChannelMatrix, ChannelMapElement

`ChannelMappings` is the IS-08 half of the daemon with what libnvnmos does for it:
prepare, FFI, commit with compensation, remove, sync, subscription, the callback
under the model lock with its router. `ChannelMatrix` has the pure part of the
element: pads, frozen topology, active maps, the two kinds of matrix, and the
reference definition `Named` they are compared with (`Heard`). `ChannelMapElement`
composes them: the element fixates, retries, applies activations and closes as a
client of `ChannelMappings`, next to another client that may do anything. `astray`
and `retried` are history variables for the exceptions its properties name: `astray`
has the outputs whose last activation was received before fixation was over or was
refused, or that a stray Sync, or an activation checked against an earlier build
of the mixer, wrote to. `HeardIsMapped` supposes pads with distinct ids
(`DistinctPads`), which `FixatedIsRegistered` grants unless a retry skipped the add. The
loop that inserts the inputs or the outputs of a mapping one by one, and throws at
the first one refused, is in closed form: `Refused` says of a position what the loop
meets there after the ones before it, `InsertAll` inserts those before the first
refusal. The offset of a source on the mixer's bus is likewise the number of
channels before it (`SumTo`).

### Translation: SdpEssence, SdpFile, SdpPassthrough, FlowDef, Packetization, InnerChains, LibnvnmosFiles, TransportConfig

One module per source file; operators keep the names of the functions they
stand for. A transport file is a record of its lines, not text. `SdpEssence` is
media type, caps and their cross-check, `SdpFile` the synthesis and the parsing of
a file with its legs, `SdpPassthrough` the edits of a user's file, `FlowDef` the
MXL counterpart, `Packetization` the sizes of lines and packets, `InnerChains` which
chain is built from a configuration, `LibnvnmosFiles` what libnvnmos reads from the
same file, with its own parser and rounding. `TransportConfig` is the element that
uses them: open, deferred add from the caps of its peer, activation, deactivation,
close.

### The proof modules

`DaemonStateProofs`, `ActivationRouterProofs`, `ElementSessionProofs`,
`ChainSwapProofs` and `NodeModelProofs` hold the theorems about the module in their
name, `DaemonTaskProofs` those about `SessionGc` and `LockOrdering`,
`AnnotationProofs` those about `AnnotationStore` and `AnnotationEvents`,
`ChannelMapElementProofs` those about `ChannelMappings` and the element; section 5. For each
module they start with the inductive invariant, go on with lemmas about operators and one
lemma per action or group of actions, and end with the theorems.

The `MC` modules hold symmetry sets and the values of constants that a cfg cannot
write.

## 3. Runs

| Run | Shows | Bounds |
| --- | --- | --- |
| `daemon` | counts, indexes, ports, server lifetimes and claims stay consistent while the phases of RPCs interleave; no session loses its Node, no two listeners share a port, `NodeLifecycle` is implemented | 2 seeds, 2 ports, 1 object, 2 handlers, 2 sessions, 1 resource, 3 servers |
| `orphans` | a server out of the map is destroyed | 1 seed, 2 objects, 2 sessions, 2 servers, fair handlers |
| `routing` | no leaked entry, no invented success, only the timeout loses an ack, every routed activation is answered | 2 Nodes, 2 sessions, buffer of 1, 2 activations, fair threads |
| `gc` | a watchdog never closes under a live stream and closes early only in one race; an abandoned session is closed and its removals run | 1 session, 2 kinds of stream, timeouts 2 and 1, 4 ids, fair tasks and timers |
| `locks` | the destroy runs once, after the last call on the server; every request returns, every parked thread is released, the listener closes | add, annotate, subscribe, close; 1 activation thread, **1** worker, no ack timeout |
| `checkpoint` | the next start can read the file; it is what the map was; a flush saves; updates reach the file | 2 keys, limit 1, 2 updates, 2 faults |
| `annotations` | a live stream leads to the stored state; libnvnmos shows what is stored, but for one race at creation | 2 sessions, 1 Sender, Node and Sender annotated, limit 1, buffer 2, 1 update, 2 streams, 2 adds |
| `mappings` | daemon and libnvnmos agree on mappings, none is left behind; an element that is fixated is registered, and its outputs carry what IS-08 shows | an element with 4 pad configurations, another client with 3 requests, 2 adds, 2 activations, buffer 1 |
| `resources` | no resource is half there, interfaces are the bound ones, `/active`, registry, application and transport file agree | RTP and MXL files with one and two legs, 6 operations |
| `element` | no leaked or second session, no double add, PAUSED only if synced, `active` and ids agree with chain and session | 2 sessions, 4 state changes, 1 activation, 1 failing swap, 1 ERROR |
| `swap` | one running chain, unbroken flow, no time-out behind a fake chain, every swap ends | 3 swaps, 2 failing steps, 2 ERRORs, fair threads |
| `translation` | the chain matches `/active`, properties and bit rates reach the daemon, what was added can be activated, packets fill a line, an ack says what the chain does | property sets over udp, udp2, nvdsudp and MXL, peer caps, received files, patches |

A run checks a state invariant as the conjunction of its named parts where the
parts are one subject, and each part is a definition with its own comment:

| Run | Property | Parts |
| --- | --- | --- |
| `daemon` | `NodesInv` | `TypeOK`, `RefcountExact`, `SessionsHaveTheirNode`, `PortsAgree` |
| `routing` | `RouterInv`, `OutcomeFaithful` | `TypeOK`, `PendingHasThread`; `SuccessIsAcknowledged`, `OnlyTimeoutLosesAck` |
| `gc` | `GraceInv` | `TypeOK`, `GraceCutOnlyByRace` |
| `locks` | `LockInv`, `NobodyStarves` | `LocksConsistent`, `GoneIsQuiet`; `RequestsReturn`, `ParkedIsReleased`, `ListenerClosed` |
| `checkpoint` | `CheckpointInv` | `TypeOK`, `AlwaysRestartable`, `CheckpointFaithful` |
| `mappings` | `RegistriesAgree` | `IndexesAgree`, `MappingsBacked`, `ControlsFollow` |
| `resources` | `ConnectionAgrees` | `ActiveIsShared`, `ServedIsActive`, `Resolved` |
| `element` | `SessionsHeld`, `NothingTwice`, `PublishedAgrees` | `TypeOK`, `NoLeakedSession`; `OneLiveSession`, `OneResource`; `RealIsActive`, `ActiveIsReal`, `IdsAgree` |
| `swap` | `SwapInv` | `TypeOK`, `OneRunningChain`, `FlowUnbroken` |
| `translation` | `ChainFits`, `RegisteredAgrees`, `ActivationAccepted`, `ReportedIsDone` | `TypeOK`, `LiveMatchesChain`, `PacketsFillLine`; `PropertiesReachDaemon`, `BitRatesAgree`; `OwnFileAccepted`, `UnconstrainedAcceptsFamily`; `AckMatchesChain`, `DeferredWaits` |

Why the bounds are enough. Two handlers are the smallest number in which one is
between `prepare` and `commit` while the other runs a whole RPC; two sessions are
one that adds while it is closed and one that re-creates the Node meanwhile. Two
ports for two seeds make a create wait for the port of a server that is still
being destroyed, and three servers allow a seed to be built again while its old
server and that of the other seed exist. The counts themselves are not limited
by the bounds: the theorems of section 5 cover any number. A buffer of one is full after one
unread event, and two activations on two Nodes let one be refused while the other
waits. In `SessionGc` sessions do not meet, and four ids allow two streams of two
kinds to end together and a third subscription to race their tasks. In
`LockOrdering` one Node has every circle the code could close, because the only
lock shared by Nodes is `state`; one worker is the hardest setting of the worker
rule, and leaving the timeout out makes release depend on the ack being served.
In `AnnotationStore` two updates are one in the file and one on its way, two faults
a failed write and a crash, or two crashes; a limit of one for two keys refuses
one. In `ChannelMapElement` two adds make the element and the other client
compete for a name and an id; the pad configurations have a map that does not
parse (a fixation that fails before the build), one that names no input (one that
fails in it), default maps in both forms, and pads with and without ids.
In `NodeModel` six operations are two adds that share an interface, two
activations and two removes. In `ElementSession` three state changes are up,
down and up again, or an add and its retry; the second session is the one
that must not exist next to a late first one; one activation
is one that overlaps the auto-activation, or is left over from the first session, and
the theorems cover any number. One failed swap per run shows each exception of
`PublishedAgrees` at work; that two or more add none is part of what is proved
(`PublishedIsTrue`). In `ChainSwap` the third swap meets
what two failures left behind.

Bounds are guards on what clients ask for (`MaxSessions`, `MaxResources`,
`MaxServers`, `MaxActivations`, `MaxIds`); what has begun always finishes. The inductive invariants of section 5 were model-checked on the instances of the
runs before they were proved. The
runs that say `CHECK_DEADLOCK FALSE` are those in which the daemon may be idle
with nothing left for clients to ask.

Some bounds differ from the code only in size: `SUBSCRIPTION_BUFFER` is 16, the
timeouts are 10 and 5 seconds, the ack timeout is a possibility at any time
while a thread waits, handle counters are 64 bits wide, the port range is
configured.

### Fairness

* `DaemonState`: weak fairness of each handler's next phase. `finish_ffi` and
  `blocking_ffi` are spawned tasks that run on when the client goes away.
* `ActivationRouter`: weak fairness of each thread; `recv_timeout` ends by itself,
  so nothing is assumed of clients.
* `SessionGc`: weak fairness of spawned tasks, watchdogs, handlers in flight and
  of time. Clients owe nothing.
* `LockOrdering`: strong fairness of each handler and thread, because a mutex, a
  worker or the model lock may be free only now and then; the operating system
  and tokio give each waiter its turn. Clients answer the events they get:
  without that only the timeout would release a parked thread, and the question
  is whether the daemon serves the answer. No request has to arrive and no
  activation has to happen.
* `AnnotationStore`: weak fairness of the writer thread and of the send after an
  update; faults may stop either.
* `ChainSwap`: weak fairness of the swapping thread, and of the streaming thread
  except where it waits for something outside the bin (`Waits`): a udpsrc without a
  timeout (`inner.rs:1623`) need never get data, a real sink need not take its
  buffer, a downstream that was not flushed need not return, and the clock need not
  reach a buffer's time. Nobody has to ask for a swap.

## 4. Disagreements with comments and documents

The models contain these behaviours, and the properties name them as their
exceptions where they bear on one. They were met while modelling; none of them is
a property of a run, because what the runs state is what holds.

Daemon:

* The compensating remove of an add whose session closed is aimed at the Node that
  has the seed *now* (`state.rs:1643`). If the close destroyed the Node and another
  session re-created it and registered the same name, that session's Sender is
  removed from libnvnmos while the daemon lists it. The comment at `state.rs:1582`
  covers only the case that no Node has the seed. `IndexesAgree` and
  `ClaimsExclusive` hold as long as this has not happened (`crossed`).
* "At most one NodeServer per seed" (`state.rs:10`) fails while a destroy is
  deferred. The ports stay disjoint all the same (`ListenersDisjoint`).
* An ack between the timeout and the cleanup returns OK and is lost
  (`main.rs:1068`); it is the only way (`OnlyTimeoutLosesAck`). The design's README
  says that outcomes propagate end-to-end.
* A watchdog that a Subscribe could not cancel closes the session as soon as that
  stream ends, without the grace period (`session_gc.rs:115`). `GraceCutOnlyByRace`
  says that nothing else cuts it short.
* A pending activation outlives the subscription it was sent on
  (`PendingHasThread` says what it is tied to instead). The IS-05 and the IS-08
  stream of one session ending together can leave two watchdogs, one of them
  without a handle.
* The activation callback is bound to the seed (`main.rs:122`): an activation on a
  Node that is being destroyed is routed to the session that re-created it.
* An update that comes between the read of the store for a create and the create
  is stored and published, but the new resource does not show it
  (`stale` in `ShownIsStored`).

libnvnmos:

* `node_implementation_add_channelmapping_` checks each input and output inside the
  loop that inserts it (`nvnmos_impl.cpp:2616`); a check that fails at the second
  leaves the first in the model, recorded nowhere, and its id can never be added
  again. `doc/designs/is08_channel_mapping_design.md` says that inserts touch only
  what `settings.channelmappings` records.
* The failed add of a name in use overwrites the annotation defaults of the
  resource that has it. The PTP domain is kept when a new reference clock names
  none. A report of an MXL activation without a flow id leaves `/active`
  half-written. `auto` may stay in `/active` after a report of the application.

Elements:

* An ERROR posted by the chain that a swap starts or stops deadlocks:
  `handle_message` takes the `ghost` mutex that `swap_inner` holds. Two more swaps of a
  source may hang for good. The stop of a live real source that comes right after
  PLAYING unlocks it, the first `create()` undoes that (`inner.rs:830`), and on a silent
  network the stop waits for a buffer; `release_fake_src_create_wait`
  (`inner.rs:200`) helps the fake source only. And a swap outside PLAYING, or after an
  ERROR, does not flush, so that its stop waits for a downstream that holds a buffer.
  `SwapReturns` says that a swap returns or is stuck in one of these ways (`Stuck`); each
  of them happens in the model. The ERROR worker looks and swaps in two steps
  and may remove a newer, healthy chain.
* "On swap failure the element is left on the fake chain" (`nmossink/imp.rs:1046`)
  is not so when the probe times out or the stop fails.
* `active` is documented as "currently active (real inner transport chain)"
  (`session/mod.rs:210`), and `PublishedAgrees` states both directions of that with the
  events after which it is not so (`upset`). It stays TRUE over a fake chain after an
  ERROR restore, which does not clear it (`nmossink/imp.rs:651`, and nmossrc), and after
  an activation that failed. An activation that is queued before READY to NULL runs after
  it and leaves `active` TRUE; the next NULL to READY then pins its fake chain
  under it (`leftover`). An activation that overlaps a state change, or the worker of
  another session, can leave either without the other, and a `restore_fake_chain` that
  cannot swap leaves a real chain with `active` FALSE. The next activation or
  restore that succeeds alone sets both.
* When `parent_change_state` fails in NULL to READY after the session was opened
  (`nmossink/imp.rs:573` and `623`), nothing closes it, and every later NULL to READY
  fails with "session is already open" (`session/mod.rs:875`): the element can only be
  finalised.
* Setting caps in READY on an nmossink whose Sender was deferred means that the
  Sender is never added.
* An MXL activation without an id is acknowledged as a success on a fake chain.
* nmosaudiochannelmap: an activation between the build of the mixer and the
  initial SyncChannelMappingState is played, and overwritten in IS-08 by the sync. A
  retry after a failed fixation skips the add, so pads without ids get an empty
  one: with an output every retry fails, with an input the element plays what IS-08
  shows as unrouted. `apply_activation` clones the topology (`imp.rs:405`) and takes
  the mutex of the graph later (`imp.rs:432`): an activation of a fixation that failed,
  checked against its topology and applied after the next build, writes to the
  output that has its number by then. A failed `InternalGraph::build` leaves elements in the bin and
  every later build fails. An activation that names an input of another mapping is
  refused by the element and stays in the active map. A Sync in flight while its
  mapping is removed is aimed by name and output id, and may write to the mapping
  of another session.

Translation:

* Colorimetry of JPEG XS is written and not read back. Bit rates are lost when the
  media has no fmtp line. Caps with bt2020 and UYVP, bt2020-10 and UYVY, an unknown
  colorimetry, or a clock-rate other than the rate make the element refuse its own
  file.
* A source-ip set on a file whose only c= line is at session level makes a
  source-filter without a destination. On a dual-leg file, overrides reach leg 0
  only: a payload type makes the element refuse the file, a source-ip or
  interface-ip makes libnvnmos refuse it when the file has no x-nvnmos-iface.
* A file with port 0 gives an eager chain with port 0. Audio packets are rounded to
  whole bytes, not to sample frames. nvdsudp with JPEG XS always fails when the
  chain is built, and a payload-size set on nvdsudpsrc is not reconciled. An MXL
  file that names another Domain than this host's is registered, and every
  activation of it refused.
* An unconstrained MXL Receiver whose file has a sample rate with a denominator
  plays without caps, but the fake chain needs them (`session/mod.rs:481`): its
  deactivation fails and leaves the real chain running (`Stuck` in
  `LiveMatchesChain` and `AckMatchesChain`).

## 5. Proofs

The theorems hold for every value of the constants: any sets of seeds, objects,
ports, sessions, keys and annotations, **any set of handlers, threads and tasks**,
all buffers and timeouts, and any bounds.

| Theorem | States |
| --- | --- |
| `NodesInvariant` | `Spec => []NodesInv`, the conjunction the run `daemon` checks; the next four are its parts |
| `TypeCorrect` | `Spec => []TypeOK` |
| `RefcountCorrect` | `attached_sessions` is the number of open sessions, and a session-refcounted Node has at least one |
| `SessionsKeepNode` | the Node of an open session is in the map |
| `PortsCorrect` | reserved seeds and ports are those of Nodes and of creates in flight, one each |
| `NodeStays` | no step removes or replaces the Node under a session that stays open |
| `LifecycleImplemented` | `Spec => LifecycleSpec`: the registry implements `NodeLifecycle` |
| `ServersCorrect` | a server exists exactly while the map or a handler holds it, and a Node's server is the one built for its seed and port |
| `ListenersCorrect` | no two servers share a port, and no create is promised a port in use |
| `IndexesCorrect` | `resources`, `by_name` and the sessions' sets are one relation (`~crossed`) |
| `ClaimsCorrect` | an object in libnvnmos has at most one claimant, and what is claimed is there (`~crossed`) |
| `RouterCorrect` | `pending_activations` has no entry without a thread that waits for it |
| `OutcomeCorrect` | the controller hears of success only what the owner acknowledged, and an accepted ack is lost only to the timeout |
| `GraceCorrect` | a watchdog closes early only after the race with a Subscribe |
| `LiveStreamSafe` | no watchdog closes a session under a live stream |
| `LocksCorrect` | every critical section has its lock, the workers suffice, a server is destroyed once and after the last call on it |
| `NoSessionLeaks` | a session that the daemon has open is held, being closed, or one whose close failed |
| `NothingDoneTwice` | an element has one live session at most, and adds its Sender or Receiver to it once |
| `PausedOnlySynced` | PAUSED is reached only after the auto-activation was confirmed |
| `PublishedIsTrue` | the published ids are those of the session; `active` is TRUE over a real chain, and only over one, when nothing is under way, but for the events of `upset` |
| `SwapCorrect` | what is linked is in the bin, one chain runs, and the streaming thread meets a broken link only after a swap that had no way out |
| `FakeNeverBlocks` | the wait for the probe never times out while a fake chain is swapped out |
| `CheckpointCorrect` | the file that a start would find, after a crash or a loss of power, is whole, within the limit and an earlier state of the map |
| `FlushSaves` | after a flush without a failed write every earlier update is in the file |
| `LiveViewCorrect` | a session with an open annotation stream, once it has read its queue, knows what is stored of all it sees |
| `ShownCorrect` | libnvnmos shows the stored annotation over the defaults, but for the race at creation |
| `ResourcesWholeHolds` | a Sender has its Source, Flow, connection and configuration, a Receiver its connection and configuration, and nothing is left of an add that failed or of what was removed |
| `InterfacesBoundHolds` | the Node lists an interface once, while a leg is bound to it, and counts those legs |
| `ConnectionAgreesHolds` | `/active`, `/transportfile`, the IS-04 subscription and the application agree, but for what a rejected report left half done |
| `RegistriesAgreeHolds` | the daemon's indexes of channel mappings are one relation, every listed mapping is in libnvnmos, and the Device advertises IS-08 as it should |
| `ConfigClaimedHolds` | a mapping in libnvnmos is listed, about to be committed or about to be removed, by exactly one of them |
| `FixatedIsRegisteredHolds` | an element that is fixated has its mapping, with its pads and their channels, the pads with distinct ids; after a retry, its outputs and their channels |
| `HeardIsMappedHolds` | what a channel of a fixated element's output carries, through both matrices, is what the active map of libnvnmos names, once no activation of it is on its way, but for `astray` |

The assumptions are on constants only, and each module states its own:
`BoundsAssumption` (`DaemonState`, `ElementSession`, `ChainSwap`) and the bounds in
`RouterAssumption`, `TimeoutAssumption` and `StoreAssumption` (bounds are natural
numbers; there is room for one event, one session, one swap; the first timeout is
not zero); `RouterAssumption` also gives every resource a thread; `LockAssumption`
gives every request a kind and a Node, every thread a Node, at least one worker, and
keeps the names of requests, threads and `Free` apart; `FormsAssumption` says that no text is the
mark for "absent" and that the tags of a user are not the read-only ones;
`EventsAssumption` that there are finitely many Senders and Receivers and that the
checkpoints a daemon starts with hold annotations of its keys; `LegsAssumption` that a
transport file has finitely many legs; `RequestsAssumption` that the requests of a client
are for names in `Names`, with finite sequences of inputs and outputs;
`ElementAssumption` that the element's session, handler and name are among those of
the daemon and that it has finitely many pads; `PadsAssumption` that channels and their
counts are natural numbers, and that no default id of an input is empty.

### Registry

None of the three invariants on Nodes is inductive alone. A close
takes the Node away when the *count* reaches zero, so that no session keeps
referring to it needs the count to be exact; the count stays exact at a commit
only because the seed had no Node and no session before, which needs
`SessionsHaveTheirNode` and the clause of `PortsAgree` that a pending seed has no
Node; and two commits of one seed are impossible only because two creates in
flight have different seeds, again `PortsAgree`. So the invariant is

    NodesInv == TypeOK /\ RefcountExact /\ SessionsHaveTheirNode /\ PortsAgree

It is shown initially (`NodesInvInit`) and preserved (`NodesInvStep`) by one lemma
per action that touches `nodes`, `sessions`, `http_ports` or `pending_nodes`
(`NodesPrepareCreate`, `NodesAbort`, `NodesCommitOpenSession`, `NodesCommitAddNode`,
`NodesAttachSession`, `NodesRemoveNode`, `NodesCloseSession`), and `NodesInvFrame` for
all others. Exactness of the count is cardinality reasoning about
`SessionsOf(s)`, finite because handles come from a counter (`SessionsFinite`,
`NewSessionCounts`).

*Refinement.* `NodeLifecycle` keeps a set of sessions where the daemon keeps a
count. Given `NodesInv` the close that makes the count zero is the one that
empties the set, so it maps to the abstract close that ends a refcounted Node;
every other action that touches `nodes` or `sessions` maps to its namesake and
all phases in between are stutters (`UnseenStep`).

*Servers.* `ServersHeld` alone does not survive a commit, which enters the
handler's server for the handler's seed: `CreatedOwn` says that it was built for
it. `ListenersDisjoint` survives the creation of a server because the port was
reserved for that handler alone (`PortsAgree`). The invariant is

    ServersInv == NodesInv /\ ServersHeld /\ ListenersDisjoint /\ CreatedOwn

*Claims.* A commit turns the claim of an add into the claim of a resource, but
the resource is looked up through the Node that has the seed at that time. It is
the same server because the session of the add is open and the Node of an open
session is never replaced (`NodeStays`): this is `AddsAimed`. A close gathers the
objects of its session through the indexes, so claims need the indexes, and a
commit overwrites nothing in `by_name` because a listed name is a claim, so the
indexes need the claims. Neither survives a compensating remove that hits another
Node (section 4).
`crossed` is the history variable that records it:

    ClaimsInv == ServersInv /\ AddsAimed /\ (~crossed => OneRelation /\ Claimed)

`Claimed` is `OneClaimant` with the set of claims unfolded into predicates, one
for each kind of claimant (`ClaimedIsOneClaimant`).

### Router

`RouterInv` and `OutcomeFaithful` speak of entries and of what the controller was
told. What an ack, a timeout or a dropped channel can still do depends on where the
thread is, so `RInv` follows an activation: an ack in the channel is in the log
(`AckLogged`), the result a thread carries to its cleanup came from such an ack or
from the timeout (`ResultJustified`), what was told is that result
(`ToldJustified`), and no two threads have the same activation (`ThreadsApart`).

### Garbage collector

Whether a watchdog closes early is decided when it is started. `GInv` says that a
watchdog of a session untouched by the race has seen no stream, and that what it
has left to sleep is what the session is still owed (`DogPatient`). That holds at
the start because the task that starts it knows whether there was a stream
(`TaskHistory`), and later because a session is opened once (`OpenedOnce`).

### Locks

`LInv` adds who holds which lock, worker and `Arc` in each phase of a handler
(`StateHeld`, `WatchdogsHeld`, `ModelHeld`, `ThreadHeld`). That a server is gone only when
nobody calls it needs that no new holder appears while it is destroyed: a handler
gets its clone in its first look into the map, and only while the Node is listed
(`ScriptShape`, `DestroyAlone`).

### Element and chain

`EInv` is `ControlInv /\ PathInv`. The first says, phase by phase of a state change,
which state and mode it has (`Modes`), what the slot holds (`SlotAt`), whose a live
session is (`OwnerOf`) and how far the AddSender and Sync calls of a session can
have come, answered or not (`AddCalls`, `SyncCalls`). The second says, for each direction
of `PublishedAgrees`, who still has to set `active` or the chain where they differ, or
which event excuses that nobody has (`RealOwed`, `ActiveOwed`), that a worker about
to mark `active` has left the chain as it marks it (`Marked`), and the same of the
state change (`ThreadOwed`). An overlap is in `upset` as long as it lasts, so a step of
one thread in the middle of another's is excused. The attempt at this proof corrected
the property: a history that an activation ends when it begins, not when its swap has
succeeded, lets a second failed swap leave a real chain behind an inactive element,
which the run, with one failure, does not meet. `OneLiveSession`
is a cardinality; it follows from `OneLive`, which has no counting.

`CInv` says what the swap knows at each step (`Steps`), that there are unused chains for what it
may still build (`Supply`), that a thread inside a sink chain is inside the linked
one, which nobody touches meanwhile (`InsideLinked`), and what the anchor is linked to
when the probe lets a buffer pass (`Passable`). `FakeNeverBlocks` is an action
property: a thread inside a fake chain can always leave it, so the only chain a
time-out can find it in is a real one.

### Annotations

A loss of power may bring back an older file, so `AInv` speaks of every file that
may become the checkpoint (`Files`), of what the write under way writes (`InFlight`),
and says that an image with the number of the current update has the current map
(`Current`). `FlushedIsSaved` needs to know who waits for which write (`WriterAt`,
`Messages`, `Asked`).

`LiveViewCurrent` is inductive over the types, with two lemmas about queues: events
of other keys leave the last word about a key alone (`WordAppended`), and reading
moves it from the queue to the view (`WordRead`). `ShownIsStored` is not: what a
resource will show is fixed when the store is read for a create (`ReadIsStored`) or
a patch is merged (`MergedIsStored`). Under both are two facts about the forms of an
annotation, for every patch: a create with what was stored shows it (`CreateShows`),
and the update that the callback reports for a merged patch makes the store agree
with what is shown (`PatchShows`).

### Resources of a Node

`ResourcesWhole` is inductive once a key is known to name a Sender or a Receiver
(`KeysWhole`): the rollback of an add that threw is right because the resources of a
name are all there or none is (`AllOrNone`). `InterfacesBound` is not: the remove
gives up the bindings that the resource has *now*, so `Listing` says for every
interface that its count is the cardinality of the legs bound to it, a finite set
(`Counted`), and the lemmas under it follow what an add, an activation and a remove do to
that set (`PairsCounted`, `DisjointCounted`, `CountedApart`) and to the bag
(`BagChange`). `ConnectionAgrees` is proved connection by connection (`Agrees`), with the
shape of the records and the fact that a Receiver or an MXL Sender never has a
`/transportfile` (`ServesActive`). A report of the application that libnvnmos rejects half way
changes only what `torn` names.

### Channel mappings

Everything rests on `Claims`: a name that libnvnmos has is listed, about to be
committed by one handler, or owed to one deferred remove, and never two of these; a
name it has not has no claim. A second add of a name is refused by libnvnmos while there
is a claim, which is what makes a remove *by name* safe; with it come what is in
libnvnmos for each kind of claimant (`AddedBacked`, `ListedBacked`) and that two mappings
share no id (`ConfigHeld`). The insertion is about sequences of any length: what a
successful loop has inserted, and that nothing it met was there before, is
`InsertAllFacts`.

That a fixated element has its mapping is decided phases earlier. `EInv` says that no
handler but the element's own works for its session (`AddsApart`), what the daemon lists
for that session while the add runs and after it (`MineIs`), that the topology and
the ids are those of the snapshots from the build on (`Frozen`), and which outputs
have been synced when the loop over them is at one of them (`Published`). The other
client can take neither the mapping nor its outputs: every one of its actions keeps
them (`MineKept`).

That the element sounds as IS-08 shows has two halves. One is about matrices: a matrix
built from routes, or from an activation, that passed validation sounds as the map made
from the same routes (`InitialSounds`, `ActivationSounds`). Both rest on `BusPlaces`: the
channels of the inputs have places of their own on the bus. No induction is
needed, because the sum of channel counts is the cardinality of a set (`SumTo`). The
other half, `HInv`, follows a map from libnvnmos to the mixer. Before fixation
is over an output sounds as its pad asks, and as IS-08 shows from its Sync on (`Fresh`);
what is received in that time counts as astray (`Early`). From then on, the last event
of the output that is on its way (in the thread of libnvnmos, else in the queue of
the stream, else in the hand of the task) carries the active map, and with none on its
way the output sounds so (`Latest`, `Arrives`). The ids of the pads are distinct because
libnvnmos refuses a mapping with a repeated one (`PadsApart`). The attempt at this proof
found two things that an earlier form of the property did not exclude: two pads
with one id after a retry, and the stale activation of section 4.

### Only model-checked

Liveness (`NobodyStarves`, `SwapReturns` and the other temporal properties under fairness):
fairness and ENABLED are out of the prover's reach. `TransportConfig` and the modules
under it (`ChainFits`, `RegisteredAgrees`, `ActivationAccepted`, `ReportedIsDone`):
their statements are about folds over legs, lines and channels, and what such a
definition computes for every input needs induction over data, which is out of reach
as well; they are checked over bounded inputs.

## 6. Plan

Done: all modules of section 2, and the proofs above. Left:

1. A durable map, whose disk image is an earlier state of the memory, as the abstract
   specification of `AnnotationStore`.
2. The composition of `DaemonState` and `ActivationRouter`, to tell two servers of a
   seed apart when an activation is routed.
3. The scan order of the port range as an operator; an nmosaudiochannelmap element
   whose RPCs hang, on top of what `ElementSession` has of the client.

## 7. Not modelled

Request translation (`translate_config`, `translate_transport`), environment
parsing, socket setup, logging and allocator trimming: field-by-field conversion
or pure I/O that leaves `State` alone. Of the resources that libnvnmos builds for
nmos-cpp, the fields that only describe a format: JSON without control flow of its
own. Of SDP and flow definitions, the syntax: a file is a record of its lines. Of
`rust/nvnmos`, the marshalling of strings and structs, the id accessors and the log
trampoline; its `NodeServer` is in `DaemonState`, its trampolines are in
`ActivationRouter` and `AnnotationEvents`. nmos-cpp, GStreamer, tokio and tonic: external;
what the daemon relies on is in the modules as definitions marked external in
`PROJECT.json`. The benchmark, the examples, the test sources and the packaging are
not part of the system. Lookups that fail before the prepare of an add
(`state.rs:796`, `1012`) return before any change. Of nmosaudiochannelmap, a
`sync_state_with_parent` that fails after the fixation was recorded (`imp.rs:365`) and
the loss of the element's own activation stream. The garbage collector is modelled enabled; when it is
disabled none of its code runs. Panics that poison the state mutex end the
daemon's service and are not modelled.
