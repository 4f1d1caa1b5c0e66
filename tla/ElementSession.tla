---------------------------- MODULE ElementSession ----------------------------
(***************************************************************************)
(* The daemon session of one nmossink or nmossrc element.                   *)
(*                                                                          *)
(* One thread drives the element through NULL, READY and PAUSED            *)
(* (change_state).  Each daemon RPC runs as a task of its own on the shared *)
(* runtime: the thread waits for it up to a limit, and when the limit       *)
(* passes the call goes on without it.  An open that outlives its state     *)
(* change stays in the slot as SessionPhase::Pending; an AddSender or a     *)
(* SyncResourceState that outlives it stays in inflight_add/inflight_sync.  *)
(* The activation task of an open session hands each ActivationEvent to the *)
(* element, which applies it on a call_async worker: that worker, the       *)
(* restore after an ERROR of the inner chain and the state-change thread    *)
(* swap the inner chain and set `active` concurrently.                      *)
(*                                                                          *)
(* The daemon is what the calls return and what it holds for each session.  *)
(* A swap of the inner chain is one step here (module ChainSwap takes it    *)
(* apart): it succeeds, fails and leaves the old chain, or fails after the  *)
(* old chain is gone.                                                       *)
(***************************************************************************)
EXTENDS Naturals, FiniteSets

CONSTANTS
    MaxSessions,      \* OpenSession calls the element makes
    MaxChanges,       \* state changes the application asks for
    MaxActivations,   \* ActivationEvents the daemon delivers
    MaxSwapFailures,  \* swaps that fail
    MaxErrors         \* ERROR messages of the inner chain

ASSUME BoundsAssumption ==
    /\ MaxSessions \in Nat \ {0}
    /\ {MaxChanges, MaxActivations, MaxSwapFailures, MaxErrors} \subseteq Nat

Sids == 1 .. MaxSessions
NoSid == 0

VARIABLES
    state,      \* GStreamer state of the bin
    thread,     \* the state-change thread: where it is, and its locals
    settings,   \* the Settings a state change reads
    slot,       \* session: Mutex<Option<SessionPhase<Session>>>
    sess,       \* the open tasks and the Session each one makes
    daemon,     \* what nvnmosd holds for each session
    work,       \* apply_activation on a call_async worker, per session
    restorer,   \* the call_async worker that handles an ERROR
    chain,      \* what the anchor is linked to: "fake", "real" or "gone"
    active,     \* the `active` property
    ids,        \* the published resource ids: "none", "node" or "all"
    upset,      \* history: what may have set `active` and the chain apart
    disposed,   \* the element has been finalised
    budget      \* what is left of the bounds

vars == <<state, thread, settings, slot, sess, daemon, work, restorer, chain,
          active, ids, upset, disposed, budget>>

\* The variables of the data path, and of the control path.
path == <<chain, active, restorer, work>>
element == <<state, settings, disposed>>

IdleThread == [at |-> "idle", sid |-> NoSid, mode |-> "none", plan |-> "fake"]
NoSlot == [phase |-> "none", sid |-> NoSid]
Pending(s) == [phase |-> "pending", sid |-> s]
Open(s) == [phase |-> "open", sid |-> s]

\* Of the properties, what the control flow depends on: whether caps or a
\* transport file is set, and auto-activate.
Settings == [static : BOOLEAN, auto : BOOLEAN]

\* A Session: its open task, `resource`, the two calls that can be in
\* flight, the activation task and activation_incomplete.  `lost` records
\* that its CloseSession did not reach the daemon.
NewSession ==
    [at |-> "unused", file |-> FALSE, resource |-> FALSE,
     add |-> "none", inflight_add |-> FALSE,
     sync |-> "none", inflight_sync |-> FALSE,
     task |-> "none", incomplete |-> FALSE, lost |-> FALSE]

Init ==
    /\ state = "NULL"
    /\ thread = IdleThread
    /\ settings \in Settings
    /\ slot = NoSlot
    /\ sess = [s \in Sids |-> NewSession]
    /\ daemon = [s \in Sids |-> [session |-> "none", adds |-> 0]]
    /\ work = [s \in Sids |-> [at |-> "none", ask |-> "off"]]
    /\ restorer = "none"
    /\ chain = "fake"
    /\ active = FALSE
    /\ ids = "none"
    /\ upset = {}
    /\ disposed = FALSE
    /\ budget = [changes |-> MaxChanges, activations |-> MaxActivations,
                 failures |-> MaxSwapFailures, errors |-> MaxErrors]

-----------------------------------------------------------------------------
(* Helpers.                                                                 *)

At(p) == thread.at = p
Goto(p) == thread' = [thread EXCEPT !.at = p]

\* The state change returns an error: the element keeps its state.
Fails == thread' = IdleThread

Change == budget' = [budget EXCEPT !.changes = @ - 1]

\* What a swap of the inner chain can come to.
rebuild_chain(target) ==
    {[ok |-> TRUE, chain |-> target]} \cup
        IF budget.failures = 0 THEN {}
        ELSE [ok : {FALSE}, chain : {chain, "gone"}]

\* swap_inner: the outcome r of a swap.
swap_inner(r) ==
    /\ chain' = r.chain
    /\ budget' = [budget EXCEPT !.failures = IF r.ok THEN @ ELSE @ - 1]

\* Session::resource_ids of what the slot holds, or the default.
resource_ids(sl, ss) ==
    IF sl.phase # "open" THEN "none"
    ELSE IF ss[sl.sid].resource THEN "all" ELSE "node"

publish_resource_ids(sl, ss) == ids' = resource_ids(sl, ss)

\* Session::close and Drop consume the Session: what is left is an aborted
\* call the daemon may still serve, and CloseSession on its way.
Consumed(x) ==
    [NewSession EXCEPT !.at = "closing", !.task = "ended",
                       !.add = IF x.add = "sent" THEN "aborted" ELSE "none"]

Unused == {s \in Sids : sess[s].at = "unused"}
NextSid == CHOOSE s \in Unused : TRUE

Finished(s) == sess[s].at \in {"ready", "failed"}

\* deferred mode: the session is open without a resource, and neither caps
\* nor a transport file is set.
Deferred ==
    /\ slot.phase = "open"
    /\ ~sess[slot.sid].resource
    /\ ~settings.static

-----------------------------------------------------------------------------
(* NULL -> READY: validate_and_open, then activate_inner.                   *)

\* apply_auto_activate_policy: the real chain only with auto-activate and
\* every transport parameter known; otherwise the fake one.
PlanFor(static) ==
    IF settings.auto /\ static THEN {"real", "fake"} ELSE {"fake"}

\* The new open: Session::open runs as a task.
StartOpen(p) ==
    /\ sess' = [sess EXCEPT ![NextSid].at = "opening", ![NextSid].file = settings.static]
    /\ thread' = [at |-> "opening", sid |-> NextSid, mode |-> "open", plan |-> p]

\* An open the last state change left running is joined first.
NullToReady ==
    /\ At("idle") /\ state = "NULL" /\ ~disposed
    /\ budget.changes > 0 /\ Unused # {}
    /\ Change
    /\ \E valid \in BOOLEAN, p \in PlanFor(settings.static) :
         IF ~valid \/ slot.phase = "open" THEN UNCHANGED <<thread, slot, sess>>
         ELSE IF slot.phase = "pending"
           THEN /\ thread' = [at |-> "joining", sid |-> slot.sid, mode |-> "open", plan |-> p]
                /\ slot' = NoSlot
                /\ UNCHANGED sess
           ELSE StartOpen(p) /\ UNCHANGED slot
    /\ UNCHANGED <<element, daemon, path, ids>>

\* Mutant: an open that still runs does not stop the next one.
JoinPending_OpensAnyway ==
    /\ At("joining")
    /\ StartOpen(thread.plan)
    /\ UNCHANGED <<element, slot, daemon, path, ids, budget>>

\* finish_opening of the pending task: a session it made is closed before
\* the new open, a task that still runs is put back and the change fails.
JoinPending ==
    /\ At("joining")
    /\ \/ /\ sess[thread.sid].at = "ready"
          /\ sess' = [sess EXCEPT ![thread.sid] = Consumed(@)]
          /\ Goto("discarding")
          /\ UNCHANGED slot
       \/ /\ sess[thread.sid].at = "failed"
          /\ StartOpen(thread.plan)
          /\ UNCHANGED slot
       \/ /\ ~Finished(thread.sid)
          /\ slot' = Pending(thread.sid)
          /\ Fails
          /\ UNCHANGED sess
    /\ UNCHANGED <<element, daemon, path, ids, budget>>

\* The close of that session has returned, or its wait has.
Discard ==
    /\ At("discarding")
    /\ StartOpen(thread.plan)
    /\ UNCHANGED <<element, slot, daemon, path, ids, budget>>

\* The wait for the new open: its session goes into the slot, its error
\* fails the change, and at the time-out the task itself goes into the slot.
OpenReturns ==
    /\ At("opening")
    /\ \/ /\ sess[thread.sid].at = "ready"
          /\ sess' = [sess EXCEPT ![thread.sid].at = "held"]
          /\ slot' = Open(thread.sid)
          /\ Goto("activate")
       \/ /\ sess[thread.sid].at = "failed"
          /\ Fails
          /\ UNCHANGED <<slot, sess>>
       \/ /\ ~Finished(thread.sid)
          /\ slot' = Pending(thread.sid)
          /\ Fails
          /\ UNCHANGED sess
    /\ UNCHANGED <<element, daemon, path, ids, budget>>

\* The state change has done its part: NULL -> READY publishes the ids, and
\* parent_change_state may still fail.  The session stays open then, and keeps the
\* element from another NULL -> READY.
Activated ==
    /\ thread' = IdleThread
    /\ IF thread.mode = "open"
       THEN state' \in {"NULL", "READY"} /\ publish_resource_ids(Open(thread.sid), sess)
       ELSE state' = "PAUSED" /\ UNCHANGED ids

\* Mutant: the deferred path leaves the chain as the failed sync found it.
NotActivated_KeepsChain ==
    /\ UNCHANGED <<state, ids>>
    /\ IF thread.mode = "open"
       THEN Goto("closing") /\ UNCHANGED sess
       ELSE /\ Fails
            /\ sess' = [sess EXCEPT ![thread.sid].incomplete = TRUE]

\* activate_inner failed: NULL -> READY closes the session again; the
\* deferred add has committed, so the session is marked and stays.
NotActivated ==
    /\ UNCHANGED <<state, ids>>
    /\ IF thread.mode = "open"
       THEN Goto("closing") /\ UNCHANGED sess
       ELSE /\ Goto("restoring")
            /\ sess' = [sess EXCEPT ![thread.sid].incomplete = TRUE]

\* activate_inner up to the sync: the real chain, or the fake one pinned to
\* caps when there are any.
ActivateInner ==
    /\ At("activate")
    /\ \E r \in rebuild_chain(thread.plan) :
         IF thread.plan = "fake" /\ ~settings.static
         THEN Activated /\ UNCHANGED <<chain, sess, budget>>
         ELSE /\ swap_inner(r)
              /\ IF ~r.ok THEN NotActivated
                 ELSE /\ IF thread.plan = "real"
                         THEN Goto("sync") /\ UNCHANGED <<state, ids>>
                         ELSE Activated
                      /\ UNCHANGED sess
    /\ UNCHANGED <<settings, disposed, slot, daemon, active, restorer, work>>

\* sync_active: the session leaves the slot for the call.
SyncActive ==
    /\ At("sync")
    /\ IF sess[thread.sid].inflight_sync
       THEN NotActivated /\ UNCHANGED slot
       ELSE /\ sess' = [sess EXCEPT ![thread.sid].sync = "sent"]
            /\ slot' = NoSlot
            /\ Goto("syncing")
            /\ UNCHANGED <<state, ids>>
    /\ UNCHANGED <<settings, disposed, daemon, path, budget>>

\* Mutant: a sync that timed out does not mark the session.
SyncReturns_Unmarked ==
    /\ At("syncing")
    /\ slot' = Open(thread.sid)
    /\ sess[thread.sid].sync = "sent"
    /\ sess' = [sess EXCEPT ![thread.sid].inflight_sync = TRUE]
    /\ Goto(IF thread.mode = "open" THEN "closing" ELSE "restoring")
    /\ UNCHANGED <<element, daemon, path, ids, budget>>

\* The sync returned, or was left running: the session is put back first.
SyncReturns ==
    /\ At("syncing")
    /\ slot' = Open(thread.sid)
    /\ \/ /\ sess[thread.sid].sync = "ok"
          /\ active' = TRUE
          /\ UNCHANGED sess
          /\ Activated
       \/ /\ sess[thread.sid].sync = "err"
          /\ UNCHANGED active
          /\ NotActivated
       \/ /\ sess[thread.sid].sync = "sent"
          /\ UNCHANGED <<active, state, ids>>
          /\ sess' = [sess EXCEPT ![thread.sid].inflight_sync = TRUE,
                                  ![thread.sid].incomplete = (thread.mode = "pause")]
          /\ Goto(IF thread.mode = "open" THEN "closing" ELSE "restoring")
    /\ UNCHANGED <<settings, disposed, daemon, chain, restorer, work, budget>>

-----------------------------------------------------------------------------
(* READY -> PAUSED: the deferred AddSender of nmossink.                     *)

\* prepare_deferred_fake_chain: the peer caps may be unusable, and the swap
\* to the pinned fake chain may fail.
PrepareDeferredFakeChain ==
    /\ At("idle") /\ state = "READY" /\ budget.changes > 0
    /\ \E r \in rebuild_chain("fake"), usable \in BOOLEAN :
         IF slot.phase = "open" /\ sess[slot.sid].incomplete
         THEN thread' = thread /\ chain' = chain /\ Change
         ELSE IF ~Deferred
         THEN /\ thread' = [thread EXCEPT !.at = "pausing", !.mode = "pause", !.sid = slot.sid]
              /\ chain' = chain /\ Change
         ELSE IF ~usable THEN thread' = thread /\ chain' = chain /\ Change
         ELSE /\ chain' = r.chain
              /\ budget' = [budget EXCEPT !.changes = @ - 1,
                                          !.failures = IF r.ok THEN @ ELSE @ - 1]
              /\ thread' = IF r.ok
                           THEN [thread EXCEPT !.at = "pausing", !.mode = "pause",
                                               !.sid = slot.sid]
                           ELSE thread
    /\ UNCHANGED <<element, slot, sess, daemon, active, restorer, work, ids>>

\* parent_change_state, then maybe_add_deferred_sender up to its RPC.
MaybeAddDeferredSender ==
    /\ At("pausing")
    /\ \E proceeds \in BOOLEAN :
         IF ~proceeds THEN Fails /\ UNCHANGED <<state, slot, sess>>
         ELSE IF ~Deferred THEN thread' = IdleThread /\ state' = "PAUSED" /\ UNCHANGED <<slot, sess>>
         ELSE IF sess[slot.sid].inflight_add THEN Fails /\ UNCHANGED <<state, slot, sess>>
         ELSE /\ sess' = [sess EXCEPT ![slot.sid].add = "sent"]
              /\ slot' = NoSlot
              /\ Goto("adding")
              /\ UNCHANGED state
    /\ UNCHANGED <<settings, disposed, daemon, path, ids, budget>>

\* The add returned, or was left running: the session is put back first.
AddReturns ==
    /\ At("adding")
    /\ slot' = Open(thread.sid)
    /\ \/ /\ sess[thread.sid].add = "ok"
          /\ sess' = [sess EXCEPT ![thread.sid].resource = TRUE]
          /\ \E p \in PlanFor(TRUE) :
               thread' = [thread EXCEPT !.at = "activate", !.plan = p]
          /\ publish_resource_ids(slot', sess')
       \/ /\ sess[thread.sid].add = "err"
          /\ Fails
          /\ UNCHANGED <<sess, ids>>
       \/ /\ sess[thread.sid].add = "sent"
          /\ sess' = [sess EXCEPT ![thread.sid].inflight_add = TRUE]
          /\ Fails
          /\ UNCHANGED ids
    /\ UNCHANGED <<element, daemon, path, budget>>

PausedToReady ==
    /\ At("idle") /\ state = "PAUSED"
    /\ state' = "READY"
    /\ UNCHANGED <<thread, settings, slot, sess, daemon, path, ids, disposed, budget>>

-----------------------------------------------------------------------------
(* READY -> NULL, and the close of a failed NULL -> READY.                  *)

ReadyToNull ==
    /\ At("idle") /\ state = "READY" /\ budget.changes > 0
    /\ Change
    /\ thread' = [thread EXCEPT !.at = "closing", !.mode = "null"]
    /\ UNCHANGED <<element, slot, sess, daemon, path, ids>>

\* take_for_close, and Session::detach of what it took.
TakeForClose ==
    /\ At("closing")
    /\ slot' = NoSlot
    /\ thread' = [thread EXCEPT
            !.sid = slot.sid,
            !.at = CASE slot.phase = "open" -> "settling"
                     [] slot.phase = "pending" -> "closejoin"
                     [] OTHER -> "closed"]
    /\ UNCHANGED <<element, sess, daemon, path, ids, budget>>

\* A pending open that finishes in time is closed, one that still runs is
\* put back.  A close never meets one (a state change that leaves its open
\* pending leaves the element in NULL): the branch is defensive.
CloseJoin ==
    /\ At("closejoin")
    /\ \/ sess[thread.sid].at = "ready" /\ Goto("settling") /\ UNCHANGED slot
       \/ sess[thread.sid].at = "failed" /\ Goto("closed") /\ UNCHANGED slot
       \/ ~Finished(thread.sid) /\ Goto("closed") /\ slot' = Pending(thread.sid)
    /\ UNCHANGED <<element, sess, daemon, path, ids, budget>>

\* DetachedSession::close: join the add and the sync in flight, aborting
\* what still runs at the deadline, abort the activation task, and send
\* CloseSession.
SettleCalls ==
    /\ At("settling")
    /\ sess' = [sess EXCEPT ![thread.sid] = Consumed(@)]
    /\ Goto("closewait")
    /\ UNCHANGED <<element, slot, daemon, path, ids, budget>>

\* CloseSession returned, or the deadline passed and it goes on.
CloseReturns ==
    /\ At("closewait")
    /\ Goto("closed")
    /\ UNCHANGED <<element, slot, sess, daemon, path, ids, budget>>

PublishClosed ==
    /\ At("closed")
    /\ Goto("restoring")
    /\ publish_resource_ids(slot, sess)
    /\ UNCHANGED <<element, slot, sess, daemon, path, budget>>

\* restore_fake_chain: `active` first, the swap after it.
RestoreInactive ==
    /\ At("restoring")
    /\ active' = FALSE
    /\ Goto("refaking")
    /\ UNCHANGED <<element, slot, sess, daemon, chain, restorer, work, ids, budget>>

RestoreFakeChain ==
    /\ At("refaking")
    /\ \E r \in rebuild_chain("fake") : swap_inner(r)
    /\ thread' = IdleThread
    /\ state' = IF thread.mode = "null" THEN "NULL" ELSE state
    /\ UNCHANGED <<settings, disposed, slot, sess, daemon, active, restorer, work, ids>>

-----------------------------------------------------------------------------
(* The application.                                                         *)

\* set_property: caps, transport-file* and auto-activate can change in READY.
SetProperty ==
    /\ At("idle") /\ state \in {"NULL", "READY"} /\ budget.changes > 0 /\ ~disposed
    /\ settings' \in Settings \ {settings}
    /\ Change
    /\ UNCHANGED <<state, disposed, thread, slot, sess, daemon, path, ids>>

\* The element is finalised in NULL: a pending open loses its handle, an open
\* session is dropped.
Dispose ==
    /\ At("idle") /\ state = "NULL" /\ ~disposed
    /\ disposed' = TRUE
    /\ slot' = NoSlot
    /\ sess' = IF slot.phase = "open" THEN [sess EXCEPT ![slot.sid] = Consumed(@)] ELSE sess
    /\ UNCHANGED <<state, settings, thread, daemon, path, ids, budget>>

-----------------------------------------------------------------------------
(* The tasks on the runtime, and the daemon's answers.                      *)

\* Session::open: OpenSession, SubscribeActivations, the optional add.
OpenSession(s) ==
    /\ sess[s].at = "opening"
    /\ \/ /\ sess' = [sess EXCEPT ![s].at = "subscribing"]
          /\ daemon' = [daemon EXCEPT ![s].session = "open"]
       \/ sess' = [sess EXCEPT ![s].at = "failed"] /\ UNCHANGED daemon
    /\ UNCHANGED <<element, thread, slot, path, ids, budget>>

SubscribeActivations(s) ==
    /\ sess[s].at = "subscribing"
    /\ \/ sess' = [sess EXCEPT ![s].task = "reading",
                               ![s].at = IF sess[s].file THEN "adding" ELSE "ready"]
       \/ sess' = [sess EXCEPT ![s].at = "rollback"]
    /\ UNCHANGED <<element, thread, slot, daemon, path, ids, budget>>

AddResource(s) ==
    /\ sess[s].at = "adding"
    /\ \/ /\ sess' = [sess EXCEPT ![s].at = "ready", ![s].resource = TRUE]
          /\ daemon' = [daemon EXCEPT ![s].adds = @ + 1]
       \/ /\ sess' = [sess EXCEPT ![s].at = "rollback", ![s].task = "ended"]
          /\ UNCHANGED daemon
    /\ UNCHANGED <<element, thread, slot, path, ids, budget>>

\* The daemon closes the session, or the call fails and its GC has to.
CloseSession(s, next) ==
    \/ /\ sess' = [sess EXCEPT ![s].at = next]
       /\ daemon' = [daemon EXCEPT ![s].session = "closed"]
    \/ /\ sess' = [sess EXCEPT ![s].at = next, ![s].lost = TRUE]
       /\ UNCHANGED daemon

\* Mutant: the error path of Session::open forgets CloseSession.
Rollback_NoClose(s) ==
    /\ sess[s].at = "rollback"
    /\ sess' = [sess EXCEPT ![s].at = "failed"]
    /\ UNCHANGED <<element, thread, slot, daemon, path, ids, budget>>

\* Session::open's own error path.
Rollback(s) ==
    /\ sess[s].at = "rollback"
    /\ CloseSession(s, "failed")
    /\ UNCHANGED <<element, thread, slot, path, ids, budget>>

CloseLands(s) ==
    /\ sess[s].at = "closing"
    /\ CloseSession(s, "gone")
    /\ UNCHANGED <<element, thread, slot, path, ids, budget>>

\* Drop for Session: the task whose handle was dropped drops its session.
DropSession(s) ==
    /\ disposed
    /\ sess[s].at = "ready"
    /\ sess' = [sess EXCEPT ![s] = Consumed(@)]
    /\ UNCHANGED <<element, thread, slot, daemon, path, ids, budget>>

\* The answer to the deferred AddSender; an aborted one may still be served.
AddSender(s) ==
    /\ \/ /\ sess[s].add \in {"sent", "aborted"}
          /\ daemon[s].session = "open"
          /\ daemon' = [daemon EXCEPT ![s].adds = @ + 1]
          /\ sess' = [sess EXCEPT ![s].add = "ok"]
       \/ /\ sess[s].add = "sent"
          /\ sess' = [sess EXCEPT ![s].add = "err"]
          /\ UNCHANGED daemon
    /\ UNCHANGED <<element, thread, slot, path, ids, budget>>

SyncResourceState(s) ==
    /\ sess[s].sync = "sent"
    /\ \/ daemon[s].session = "open" /\ sess' = [sess EXCEPT ![s].sync = "ok"]
       \/ sess' = [sess EXCEPT ![s].sync = "err"]
    /\ UNCHANGED <<element, thread, slot, daemon, path, ids, budget>>

-----------------------------------------------------------------------------
(* Activations: spawn_activation_task and the call_async worker.            *)

\* An ActivationEvent: one at a time per session.  make_activation_plan
\* makes of it the real chain, the fake one with success ("off"), or the
\* fake one with failure ("bad").
ActivationEvent(s) ==
    /\ daemon[s].session = "open" /\ daemon[s].adds > 0
    /\ sess[s].task = "reading"
    /\ budget.activations > 0
    /\ \E ask \in {"real", "off", "bad"} :
         work' = [work EXCEPT ![s] = [at |-> "queued", ask |-> ask]]
    /\ sess' = [sess EXCEPT ![s].task = "applying"]
    /\ budget' = [budget EXCEPT !.activations = @ - 1]
    /\ UNCHANGED <<element, thread, slot, daemon, chain, active, restorer, ids>>

Work(s, p) == work' = [work EXCEPT ![s].at = p]

\* execute_activation_plan: real to real goes over a fake chain.
FakeHop(s) ==
    /\ work[s].at = "queued" /\ ~disposed
    /\ IF work[s].ask = "real" /\ chain = "real"
       THEN \E r \in rebuild_chain("fake") :
              swap_inner(r) /\ Work(s, IF r.ok THEN "swap" ELSE "failed")
       ELSE Work(s, "swap") /\ UNCHANGED <<chain, budget>>
    /\ UNCHANGED <<element, thread, slot, sess, daemon, active, restorer, ids>>

\* The swap to the planned chain.  After a failure nmossink links its
\* fallback under the same block, nmossrc tries another swap to the fake
\* chain: either may leave the anchor without a chain.
SwapPlanned(s) ==
    /\ work[s].at = "swap"
    /\ \E r \in rebuild_chain(IF work[s].ask = "real" THEN "real" ELSE "fake"),
          refaked \in BOOLEAN :
         /\ swap_inner(IF ~r.ok /\ refaked THEN [r EXCEPT !.chain = "fake"] ELSE r)
         /\ Work(s, CASE ~r.ok \/ work[s].ask = "bad" -> "failed" [] OTHER -> "mark")
    /\ UNCHANGED <<element, thread, slot, sess, daemon, active, restorer, ids>>

\* set_connection_active, when the plan acknowledges success.
MarkActive(s) ==
    /\ work[s].at = "mark"
    /\ active' = (work[s].ask = "real")
    /\ Work(s, "applied")
    /\ UNCHANGED <<element, thread, slot, sess, daemon, chain, restorer, ids, budget>>

\* AckActivation, when the activation task still waits for the outcome.
AckActivation(s) ==
    /\ work[s].at \in {"applied", "failed"}
    /\ Work(s, "none")
    /\ sess' = [sess EXCEPT ![s].task = IF @ = "applying" THEN "reading" ELSE @]
    /\ UNCHANGED <<element, thread, slot, daemon, chain, active, restorer, ids, budget>>

\* handle_message: an ERROR of the current chain; the worker checks that it
\* still is the current chain, and swaps after it.
InnerError ==
    /\ chain = "real" /\ restorer = "none" /\ budget.errors > 0
    /\ restorer' = "queued"
    /\ budget' = [budget EXCEPT !.errors = @ - 1]
    /\ UNCHANGED <<element, thread, slot, sess, daemon, chain, active, work, ids>>

CheckCurrent ==
    /\ restorer = "queued"
    /\ restorer' = IF chain = "real" THEN "swap" ELSE "none"
    /\ UNCHANGED <<element, thread, slot, sess, daemon, chain, active, work, ids, budget>>

ErrorRestore ==
    /\ restorer = "swap"
    /\ \E r \in rebuild_chain("fake") : swap_inner(r)
    /\ restorer' = "none"
    /\ UNCHANGED <<element, thread, slot, sess, daemon, active, work, ids>>

-----------------------------------------------------------------------------
StateThread ==
    \/ NullToReady \/ JoinPending \/ Discard \/ OpenReturns
    \/ ActivateInner \/ SyncActive \/ SyncReturns
    \/ PrepareDeferredFakeChain \/ MaybeAddDeferredSender \/ AddReturns
    \/ PausedToReady \/ ReadyToNull \/ TakeForClose \/ CloseJoin
    \/ SettleCalls \/ CloseReturns \/ PublishClosed
    \/ RestoreInactive \/ RestoreFakeChain

Task(s) ==
    \/ OpenSession(s) \/ SubscribeActivations(s) \/ AddResource(s)
    \/ Rollback(s) \/ CloseLands(s) \/ DropSession(s)
    \/ AddSender(s) \/ SyncResourceState(s)

Worker(s) ==
    \/ ActivationEvent(s) \/ FakeHop(s) \/ SwapPlanned(s)
    \/ MarkActive(s) \/ AckActivation(s)

Step ==
    \/ StateThread
    \/ SetProperty \/ Dispose
    \/ \E s \in Sids : Task(s) \/ Worker(s)
    \/ InnerError \/ CheckCurrent \/ ErrorRestore

\* An activation is between its first swap and its mark.
Midway(s) == work[s].at \in {"swap", "mark"}

\* So is one while the thread is in a state change, or while the activation of
\* another session is: the worker of a session that was closed under it runs on next
\* to the next one.
Overlap ==
    \E s \in Sids : Midway(s) /\ (~At("idle") \/ \E t \in Sids \ {s} : Midway(t))

\* No swap is under way, and `active` is what the chain is.
Quiet == At("idle") /\ \A s \in Sids : ~Midway(s)
Agree == active = (chain = "real")

\* What can set them apart.  Nothing serialises the threads that swap.  The
\* restore after an ERROR and an activation that fails write no `active`; a
\* restore_fake_chain may not swap; and a state change may pin a fake chain although
\* an activation of an earlier session has left the element active, or will.
Upsets == {"overlap", "error", "failed", "unrestored", "leftover"}
Upset(w) ==
    \/ w = "overlap" /\ Overlap'
    \/ w = "error" /\ ErrorRestore
    \/ w = "failed" /\ \E s \in Sids : (FakeHop(s) \/ SwapPlanned(s)) /\ work'[s].at = "failed"
    \/ w = "unrestored" /\ RestoreFakeChain /\ chain' = "real"
    \/ /\ w = "leftover"
       /\ ActivateInner \/ PrepareDeferredFakeChain
       /\ active \/ \E s \in Sids : Midway(s)

\* A restore sets both, and so does an activation whose swap succeeded: what was
\* before is past.
Renews == RestoreInactive \/ \E s \in Sids : SwapPlanned(s) /\ work'[s].at = "mark"

Next ==
    /\ Step
    /\ upset' = IF (Quiet /\ Agree)' THEN {}
                ELSE (IF Renews THEN {} ELSE upset) \cup {w \in Upsets : Upset(w)}

Spec == Init /\ [][Next]_vars

-----------------------------------------------------------------------------
(* Properties.                                                              *)

Calls == {"none", "sent", "ok", "err", "aborted"}

\* Every variable holds a value its Rust type has: the slot is an
\* Option<SessionPhase> that keeps nothing of a session it gave away.
TypeOK ==
    /\ state \in {"NULL", "READY", "PAUSED"}
    /\ slot \in [phase : {"none", "pending", "open"}, sid : Sids \cup {NoSid}]
    /\ (slot.phase = "none") = (slot.sid = NoSid)
    /\ \A s \in Sids :
         /\ sess[s].at \in {"unused", "opening", "subscribing", "adding", "rollback",
                            "ready", "failed", "held", "closing", "gone"}
         /\ sess[s].add \in Calls /\ sess[s].sync \in Calls
         /\ sess[s].task \in {"none", "reading", "applying", "ended"}
    /\ chain \in {"fake", "real", "gone"}
    /\ active \in BOOLEAN
    /\ upset \subseteq Upsets
    /\ ids \in {"none", "node", "all"}

\* The session is in the slot, on the state-change thread, or still being
\* made by its task.
Referenced(s) ==
    \/ slot.sid = s
    \/ thread.sid = s /\ thread.at \notin {"idle", "closed", "restoring", "refaking"}
    \/ sess[s].at \in {"opening", "subscribing", "adding", "rollback"}
    \/ disposed /\ sess[s].at = "ready"

\* No time-out, failed call or retry leaks a session: what the daemon still
\* has open is held by the element, or its CloseSession is on its way, or
\* that call failed (validate_and_open, take_for_close, Session::open's
\* rollback, Drop).
NoLeakedSession ==
    \A s \in Sids :
        daemon[s].session = "open" =>
            Referenced(s) \/ sess[s].at = "closing" \/ sess[s].lost

\* The slot and every session outside it are accounted for.
SessionsHeld == TypeOK /\ NoLeakedSession

\* However late an OpenSession returns, the element never has a second one
\* under way or open next to it (the Pending phase of validate_and_open).
OneLiveSession ==
    Cardinality({s \in Sids : sess[s].at \in
        {"opening", "subscribing", "adding", "ready", "held"}}) <= 1

\* A READY -> PAUSED retried after a time-out never adds the Sender twice
\* (drive_call keeps the handle of the call that timed out).
OneResource == \A s \in Sids : daemon[s].adds <= 1

\* Neither a late answer nor a retry does a thing twice: one session at a time,
\* and in it one AddSender or AddReceiver.
NothingTwice == OneLiveSession /\ OneResource

\* PAUSED is reached only on an open session whose auto-activation, if it
\* had one, the daemon confirmed: a sync that failed or timed out after the
\* deferred add makes every later READY -> PAUSED fail.
PausedIsSynced ==
    state = "PAUSED" =>
        /\ slot.phase = "open"
        /\ ~sess[slot.sid].incomplete
        /\ sess[slot.sid].sync \in {"none", "ok"}

\* Between state changes and activations a real chain means `active`: data flows
\* behind an element that says it is inactive only when restore_fake_chain could
\* not swap, or when two of the threads that swap overlapped.
RealIsActive ==
    Quiet /\ chain = "real" => active \/ upset \cap {"overlap", "unrestored"} # {}

\* And `active` means a real chain, unless two of them overlapped, an ERROR or a
\* failed activation took the chain down (neither clears `active`), or a state
\* change did that meets what an earlier session's activation has left.
ActiveIsReal ==
    Quiet /\ active => chain = "real" \/ upset \ {"unrestored"} # {}

\* Between state changes the published ids are those of the session in the
\* slot: empty without one, the resource's only once it has been added.
IdsAgree == At("idle") /\ ~disposed => ids = resource_ids(slot, sess)

\* What the element publishes is so: the ids are those of its session, and `active`
\* is what its chain is, but for five events that set them apart, each in one
\* direction or both; the next activation or restore that succeeds alone ends that.
PublishedAgrees == RealIsActive /\ ActiveIsReal /\ IdsAgree
=============================================================================
