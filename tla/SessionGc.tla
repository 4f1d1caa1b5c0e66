----------------------------- MODULE SessionGc -----------------------------
(***************************************************************************)
(* The watchdogs that close a session its client abandoned:                *)
(* rust/nvnmosd/src/session_gc.rs, with the places that start and cancel   *)
(* them (open_session, close_session, subscribe_activations,               *)
(* subscribe_channel_mapping_activations and the Drop of the two streams,  *)
(* rust/nvnmosd/src/main.rs).                                              *)
(*                                                                         *)
(* A watchdog is a tokio task.  Its AbortHandle stops it only where it     *)
(* awaits: in the sleep, and in the wait for the libnvnmos removals, which *)
(* themselves run on.  The runtime has several workers, and the daemon     *)
(* state and the map of watchdogs have a mutex each, so everything between *)
(* two critical sections interleaves.  Sessions do not meet here; one is   *)
(* enough to see every interleaving.                                       *)
(***************************************************************************)
EXTENDS Naturals, FiniteSets

CONSTANTS
    Sessions,            \* session handles; each is opened at most once
    Kinds,               \* the two activation streams: IS-05 and IS-08
    SubscribeTimeout,    \* NVNMOSD_SESSION_SUBSCRIBE_TIMEOUT_SEC
    ResubscribeTimeout,  \* NVNMOSD_SESSION_RESUBSCRIBE_TIMEOUT_SEC
    MaxIds               \* bound on the sessions and streams of a behaviour

ASSUME TimeoutAssumption ==
    /\ SubscribeTimeout \in Nat \ {0}
    /\ ResubscribeTimeout \in Nat
    /\ MaxIds \in Nat

VARIABLES
    open,       \* sessions
    known,      \* sessions whose OpenSession has returned to the client
    closing,    \* CloseSession handlers between cancel_timeout and the state
    slot,       \* the subscription entries: <<h, k>> -> stream, 0 for none
    live,       \* stream -> <<h, k>>: the receiving half is still there
    task,       \* id -> the task that may start a watchdog: the tail of an
                \* OpenSession or what a dropped stream spawned
    dog,        \* id -> the watchdog that task spawned
    watchdogs,  \* session_handle -> AbortHandle
    owed,       \* closed sessions whose CloseSessionFfi has not run
    pool,       \* those whose closure is on the blocking pool
    next_id,    \* ids of streams and tasks
    idle,       \* history: ticks since the session last had a stream
    streamed,   \* history: sessions that have had a stream
    early,      \* history: sessions a watchdog closed before their time
    raced       \* history: sessions with a watchdog that a subscription could
                \* not cancel, or that was started under a live stream

vars == <<open, known, closing, slot, live, task, dog, watchdogs, owed, pool,
          next_id, idle, streamed, early, raced>>
history == <<idle, streamed, early, raced>>

-----------------------------------------------------------------------------
Put(f, k, v) == [x \in DOMAIN f \cup {k} |-> IF x = k THEN v ELSE f[x]]

Without(f, K) == [x \in DOMAIN f \ K |-> f[x]]

Init ==
    /\ open = {}
    /\ known = {}
    /\ closing = {}
    /\ slot = [q \in Sessions \X Kinds |-> 0]
    /\ live = [i \in {} |-> i]
    /\ task = [i \in {} |-> i]
    /\ dog = [i \in {} |-> i]
    /\ watchdogs = [h \in {} |-> h]
    /\ owed = {}
    /\ pool = {}
    /\ next_id = 1
    /\ idle = [h \in Sessions |-> 0]
    /\ streamed = {}
    /\ early = {}
    /\ raced = {}

\* has_any_activation_subscription: a slot whose receiving half is still there.
HasAnyActivationSubscription(h) == \E k \in Kinds : slot[<<h, k>>] \in DOMAIN live

-----------------------------------------------------------------------------
(* Starting and cancelling. *)

\* Mutant: the task can be dropped anywhere, as if it awaited between closing
\* the session and handing over the removals.
Aborted_Anywhere(i) == Without(dog, {i})

\* What abort() leaves of the watchdogs: it drops a task that sleeps or waits
\* for its removals, and comes too late for one that is running.
Aborted(i) ==
    IF i \in DOMAIN dog /\ dog[i].phase \in {"sleep", "ffi"}
    THEN Without(dog, {i}) ELSE dog

\* cancel_timeout
DogsAfterCancel(h) == IF h \in DOMAIN watchdogs THEN Aborted(watchdogs[h]) ELSE dog

\* OpenSession has put the session into the map; its watchdog comes next, and
\* only then does the client get to know the handle.
OpenSession(h) ==
    /\ next_id <= MaxIds
    /\ h \notin open
    /\ \A i \in DOMAIN task : task[i].h # h
    /\ h \notin known
    /\ open' = open \cup {h}
    /\ task' = Put(task, next_id, [phase |-> "cancel", h |-> h, opens |-> TRUE])
    /\ next_id' = next_id + 1
    /\ UNCHANGED <<known, closing, slot, live, dog, watchdogs, owed, pool, history>>

\* Mutant: the two durations are swapped.
Timeout_Swapped(i) == IF task[i].opens THEN ResubscribeTimeout ELSE SubscribeTimeout

Timeout(i) == IF task[i].opens THEN SubscribeTimeout ELSE ResubscribeTimeout

\* start_timeout up to the spawn.  The new task only begins to sleep, so the
\* spawn needs no step apart from the cancel before it.
StartTimeout(i) ==
    /\ task[i].phase = "cancel"
    /\ LET h == task[i].h
       IN  /\ dog' = Put(DogsAfterCancel(h), i,
                         [phase |-> "sleep", h |-> h, left |-> Timeout(i)])
           /\ watchdogs' = Without(watchdogs, {h})
           /\ raced' = IF HasAnyActivationSubscription(h) THEN raced \cup {h} ELSE raced
    /\ task' = [task EXCEPT ![i].phase = "insert"]
    /\ UNCHANGED <<open, known, closing, slot, live, owed, pool, next_id, idle, streamed,
                   early>>

\* start_timeout, the insert: whatever handle is in the map is overwritten.
ListWatchdog(i) ==
    /\ task[i].phase = "insert"
    /\ watchdogs' = Put(watchdogs, task[i].h, i)
    /\ known' = IF task[i].opens THEN known \cup {task[i].h} ELSE known
    /\ task' = Without(task, {i})
    /\ UNCHANGED <<open, closing, slot, live, dog, owed, pool, next_id, history>>

-----------------------------------------------------------------------------
(* Streams. *)

\* subscribe_activations, subscribe_channel_mapping_activations: the slot is
\* free or its receiving half gone; the watchdog is cancelled before the state
\* mutex is released.
Subscribe(h, k) ==
    /\ next_id <= MaxIds
    /\ h \in known \cap open
    /\ slot[<<h, k>>] \notin DOMAIN live
    /\ slot' = [slot EXCEPT ![<<h, k>>] = next_id]
    /\ live' = Put(live, next_id, <<h, k>>)
    /\ next_id' = next_id + 1
    /\ dog' = DogsAfterCancel(h)
    /\ watchdogs' = Without(watchdogs, {h})
    /\ streamed' = streamed \cup {h}
    /\ idle' = [idle EXCEPT ![h] = 0]
    /\ raced' = IF \E i \in DOMAIN dog' : dog'[i].h = h THEN raced \cup {h} ELSE raced
    /\ UNCHANGED <<open, known, closing, task, owed, pool, early>>

\* The client drops the stream, or loses its connection, or the daemon ended
\* the stream by dropping the slot; the Drop spawns a task.
StreamDropped(n) ==
    /\ n \in DOMAIN live
    /\ live' = Without(live, {n})
    /\ task' = Put(task, n, [phase |-> "check", h |-> live[n][1], k |-> live[n][2],
                             opens |-> FALSE])
    /\ UNCHANGED <<open, known, closing, slot, dog, watchdogs, owed, pool, next_id, history>>

\* Mutant: only the end of an IS-05 stream starts a watchdog.
ArmNeeded_OneKind(h, k) ==
    h \in open /\ ~HasAnyActivationSubscription(h) /\ k = CHOOSE q \in Kinds : TRUE

\* The answer of on_subscription_stream_ended and of its IS-08 twin.
ArmNeeded(h, k) == h \in open /\ ~HasAnyActivationSubscription(h)

\* The first half of the task: reap the slot if its receiving half is gone.
StreamEnded(i) ==
    /\ task[i].phase = "check"
    /\ LET h == task[i].h
           k == task[i].k
       IN  /\ slot' = IF slot[<<h, k>>] \in DOMAIN live THEN slot
                                                   ELSE [slot EXCEPT ![<<h, k>>] = 0]
           /\ task' = IF ArmNeeded(h, k)
                      THEN [task EXCEPT ![i] = [phase |-> "cancel", h |-> h,
                                                opens |-> FALSE]]
                      ELSE Without(task, {i})
    /\ UNCHANGED <<open, known, closing, live, dog, watchdogs, owed, pool, next_id, history>>

-----------------------------------------------------------------------------
(* The watchdog. *)

\* Time passes for the sleepers, and for the sessions without a stream.
Tick ==
    /\ dog' = [i \in DOMAIN dog |->
                  IF dog[i].phase = "sleep" /\ dog[i].left > 0
                  THEN [dog[i] EXCEPT !.left = @ - 1] ELSE dog[i]]
    /\ idle' = [h \in Sessions |->
                  IF h \in open /\ ~HasAnyActivationSubscription(h)
                     /\ idle[h] < SubscribeTimeout + ResubscribeTimeout
                  THEN idle[h] + 1 ELSE idle[h]]
    /\ UNCHANGED <<open, known, closing, slot, live, task, watchdogs, owed, pool, next_id,
                   streamed, early, raced>>

\* The sleep is over: from here to the next await, abort() comes too late.
Wake(i) ==
    /\ dog[i].phase = "sleep"
    /\ dog[i].left = 0
    /\ dog' = [dog EXCEPT ![i].phase = "woken"]
    /\ UNCHANGED <<open, known, closing, slot, live, task, watchdogs, owed, pool, next_id,
                   history>>

\* Mutant: the stream is not looked for again.
Abandoned_NotRechecked(h) == h \in open

Abandoned(h) == h \in open /\ ~HasAnyActivationSubscription(h)

Grace(h) == IF h \in streamed THEN ResubscribeTimeout ELSE SubscribeTimeout

\* close_session of State, as far as it is seen here: the session and its slots
\* go, the removals are to be run.
Close(h) ==
    /\ open' = open \ {h}
    /\ slot' = [q \in Sessions \X Kinds |-> IF q[1] = h THEN 0 ELSE slot[q]]
    /\ owed' = owed \cup {h}

\* The watchdog finds the session abandoned and closes it.
CloseAbandoned(i) ==
    /\ dog[i].phase = "woken"
    /\ Abandoned(dog[i].h)
    /\ Close(dog[i].h)
    /\ early' = IF idle[dog[i].h] < Grace(dog[i].h) THEN early \cup {dog[i].h} ELSE early
    /\ dog' = [dog EXCEPT ![i].phase = "closed"]
    /\ UNCHANGED <<known, closing, live, task, watchdogs, pool, next_id, idle, streamed,
                   raced>>

\* blocking_ffi: the closure is on the pool before the task awaits again.
SpawnRemovals(i) ==
    /\ dog[i].phase = "closed"
    /\ pool' = pool \cup {dog[i].h}
    /\ dog' = [dog EXCEPT ![i].phase = "ffi"]
    /\ UNCHANGED <<open, known, closing, slot, live, task, watchdogs, owed, next_id,
                   history>>

\* The session is gone or has a stream again: the task ends, the handle stays
\* in the map.
Leave(i) ==
    /\ dog[i].phase = "woken"
    /\ ~Abandoned(dog[i].h)
    /\ dog' = Without(dog, {i})
    /\ UNCHANGED <<open, known, closing, slot, live, task, watchdogs, owed, pool, next_id,
                   history>>

\* CloseSessionFfi::run on the blocking pool.
RunRemovals(h) ==
    /\ h \in pool
    /\ pool' = pool \ {h}
    /\ owed' = owed \ {h}
    /\ UNCHANGED <<open, known, closing, slot, live, task, dog, watchdogs, next_id,
                   history>>

\* The removals have returned: the task takes its handle out of the map.
Unlist(i) ==
    /\ dog[i].phase = "ffi"
    /\ dog[i].h \notin pool
    /\ watchdogs' = Without(watchdogs, {dog[i].h})
    /\ dog' = Without(dog, {i})
    /\ UNCHANGED <<open, known, closing, slot, live, task, owed, pool, next_id, history>>

-----------------------------------------------------------------------------
(* CloseSession by the client: the watchdog first, then the state. *)

CancelBeforeClose(h) ==
    /\ h \in known \ closing
    /\ h \in open \/ h \in DOMAIN watchdogs   \* otherwise it changes nothing
    /\ dog' = DogsAfterCancel(h)
    /\ watchdogs' = Without(watchdogs, {h})
    /\ closing' = closing \cup {h}
    /\ UNCHANGED <<open, known, slot, live, task, owed, pool, next_id, history>>

CloseSession(h) ==
    /\ h \in closing
    /\ closing' = closing \ {h}
    /\ \/ h \in open /\ Close(h) /\ pool' = pool \cup {h}
       \/ h \notin open /\ UNCHANGED <<open, slot, owed, pool>>      \* NOT_FOUND
    /\ UNCHANGED <<known, live, task, dog, watchdogs, next_id, history>>

-----------------------------------------------------------------------------
TaskStep(i) == i \in DOMAIN task /\ (StreamEnded(i) \/ StartTimeout(i) \/ ListWatchdog(i))

DogStep(i) ==
    /\ i \in DOMAIN dog
    /\ \/ Wake(i)
       \/ CloseAbandoned(i)
       \/ SpawnRemovals(i)
       \/ Leave(i)
       \/ Unlist(i)

Next ==
    \/ \E h \in Sessions : OpenSession(h)
    \/ \E h \in Sessions, k \in Kinds : Subscribe(h, k)
    \/ \E n \in DOMAIN live : StreamDropped(n)
    \/ \E h \in Sessions : CancelBeforeClose(h) \/ CloseSession(h) \/ RunRemovals(h)
    \/ \E i \in 1 .. MaxIds : TaskStep(i) \/ DogStep(i)
    \/ Tick

Spec == Init /\ [][Next]_vars

\* Tasks that were spawned run, timers expire, handlers finish; clients owe
\* nothing, and may hold a stream or stay away for good.
FairSpec ==
    /\ Spec
    /\ WF_vars(Tick)
    /\ \A i \in 1 .. MaxIds : WF_vars(TaskStep(i)) /\ WF_vars(DogStep(i))
    /\ \A h \in Sessions : WF_vars(CloseSession(h)) /\ WF_vars(RunRemovals(h))

-----------------------------------------------------------------------------
(* Correctness. *)

\* Every variable has the shape of what it models; a slot belongs to an open
\* session.
TypeOK ==
    /\ open \subseteq Sessions
    /\ known \subseteq Sessions
    /\ closing \subseteq known
    /\ slot \in [Sessions \X Kinds -> 0 .. next_id - 1]
    /\ \A h \in Sessions, k \in Kinds : slot[<<h, k>>] # 0 => h \in open
    /\ DOMAIN live \subseteq 1 .. next_id - 1
    /\ \A n \in DOMAIN live : live[n] \in Sessions \X Kinds
    /\ DOMAIN task \subseteq 1 .. next_id - 1
    /\ DOMAIN dog \subseteq 1 .. next_id - 1
    /\ \A i \in DOMAIN dog : dog[i].left \in 0 .. SubscribeTimeout + ResubscribeTimeout
    /\ DOMAIN watchdogs \subseteq Sessions
    /\ \A h \in DOMAIN watchdogs : watchdogs[h] \in 1 .. next_id - 1
    /\ pool \subseteq owed
    /\ owed \subseteq Sessions \ open
    /\ early \subseteq Sessions
    /\ raced \subseteq Sessions

\* A watchdog never closes a session under a live stream: the abort of a
\* successful Subscribe may come after the sleep is over, and then the second
\* look has to save the session.
LiveStreamKeepsSession ==
    [][\A h \in Sessions :
          h \in open /\ h \notin open' /\ HasAnyActivationSubscription(h)
              => h \in closing]_vars

\* A watchdog closes a session before its time only in the one race: a Subscribe
\* could not cancel it, because it was not in the map or its sleep was over, or
\* it was started under the live stream, for the end of an earlier one.
GraceCutOnlyByRace == early \subseteq raced

\* Slots belong to open sessions, and the grace period of a session is cut short
\* only by that race.
GraceInv == TypeOK /\ GraceCutOnlyByRace

\* A session without a stream does not stay: in the end it has a stream or is
\* closed, whatever is cancelled, overwritten or started late on the way.
AbandonedSessionClosed ==
    \A h \in Sessions :
        (h \in open /\ ~HasAnyActivationSubscription(h))
            ~> (h \notin open \/ HasAnyActivationSubscription(h))

\* Whoever closes the session, its Senders, Receivers and Node in libnvnmos are
\* removed, though the task that waits for the removals may be aborted.
RemovalsRun == \A h \in Sessions : h \in owed ~> h \notin owed
=============================================================================
