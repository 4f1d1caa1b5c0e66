---------------------------- MODULE LockOrdering ----------------------------
(***************************************************************************)
(* Who waits for whom in nvnmosd: the `state` mutex, the mutex of the      *)
(* watchdogs, the model lock of every Node in libnvnmos, the async workers *)
(* of the tokio runtime, the ack an activation thread waits for and the    *)
(* join of that thread when a NodeServer is destroyed                      *)
(* (rust/nvnmosd/src/main.rs, session_gc.rs, state.rs; src/nvnmos.cpp).    *)
(*                                                                         *)
(* An activation thread, and the annotation callback, hold the model lock  *)
(* when they ask for `state`.  So no handler may ask for the model lock    *)
(* under `state`, none may keep a worker while it waits for it, and the    *)
(* destroy, which joins the thread, must hold neither.  The maps are       *)
(* abstracted away: what is left of a handler is the order in which it     *)
(* takes things.                                                           *)
(***************************************************************************)
EXTENDS Naturals, Sequences, FiniteSets

CONSTANTS
    Nodes,      \* Nodes that exist at the start
    Threads,    \* activation threads of libnvnmos
    ThreadNode, \* thread -> its Node
    Requests,   \* handlers, each runs once
    KindOf,     \* request -> what it asks for
    NodeOf,     \* request -> the Node it is about
    Workers,    \* TOKIO_WORKER_THREADS
    Free        \* nobody

\* What a handler takes, in order.  "state" is a critical section on a worker,
\* "state_watchdogs" one with the mutex of the watchdogs inside, "ffi" a call
\* into libnvnmos on the blocking pool, "ffi_callback" one that calls back into
\* the daemon.  "close", "watchdog" and "remove" look at the state once more to
\* decide about malloc_trim.
Script(kind) ==
    CASE kind = "add"        -> <<"state", "ffi", "state">>
      [] kind = "remove"     -> <<"state", "ffi", "state">>
      [] kind = "sync"       -> <<"state", "ffi">>
      [] kind = "close"      -> <<"watchdogs", "state", "ffi", "state">>
      [] kind = "watchdog"   -> <<"state", "ffi", "state", "watchdogs">>
      [] kind = "subscribe"  -> <<"state_watchdogs">>
      [] kind = "annotate"   -> <<"state", "ffi_callback">>

Closing == {"close", "watchdog"}

ASSUME LockAssumption ==
    /\ ThreadNode \in [Threads -> Nodes]
    /\ NodeOf \in [Requests -> Nodes]
    /\ KindOf \in [Requests -> {"add", "remove", "sync", "close", "watchdog",
                                "subscribe", "annotate"}]
    /\ Workers \in Nat \ {0}
    /\ Requests \cap Threads = {}
    /\ Free \notin Requests \cup Threads

VARIABLES
    state,      \* holder of the state mutex
    watchdogs_mutex,    \* holder of the mutex of the watchdogs
    model,      \* Node -> holder of its model lock
    req,        \* request -> [step, at]: the step of the script it is in
    thread,     \* activation thread -> what it does
    ack,        \* thread -> where the AckActivation for it is
    closed,     \* Nodes that are out of the map
    shutdown,   \* Nodes whose model says shutdown
    gone        \* Nodes whose server is destroyed, listener closed

lockVars == <<state, watchdogs_mutex, model, req, thread, ack, closed, shutdown, gone>>

LockInit ==
    /\ state = Free
    /\ watchdogs_mutex = Free
    /\ model = [n \in Nodes |-> Free]
    /\ req = [r \in Requests |-> [step |-> 0, at |-> "new"]]
    /\ thread = [w \in Threads |-> "idle"]
    /\ ack = [w \in Threads |-> "none"]
    /\ closed = {}
    /\ shutdown = {}
    /\ gone = {}

-----------------------------------------------------------------------------
(* Requests. *)

StepOf(r) == Script(KindOf[r])[req[r].step]

At(r, phase) == req[r].at = phase

Go(r, phase) == req' = [req EXCEPT ![r].at = phase]

\* On to the next step of the script, or done.
Proceed(r) ==
    req' = [req EXCEPT ![r] =
               IF @.step < Len(Script(KindOf[r]))
               THEN [step |-> @.step + 1, at |-> "queued"]
               ELSE [step |-> @.step, at |-> "done"]]

\* A client calls, or a watchdog expires; a request for a Node that is closed is
\* answered NOT_FOUND and takes nothing.
Arrive(r) ==
    /\ At(r, "new")
    /\ NodeOf[r] \notin closed
    /\ req' = [req EXCEPT ![r] = [step |-> 1, at |-> "queued"]]
    /\ UNCHANGED <<state, watchdogs_mutex, model, thread, ack, closed, shutdown, gone>>

\* blocking_ffi moves the libnvnmos calls off the workers.
NeedsWorker(step) == step \in {"state", "watchdogs", "state_watchdogs"}

\* Who keeps a worker busy: a std Mutex blocks the worker of the task that waits
\* for it.
OnWorker ==
    {r \in Requests : req[r].at \notin {"new", "queued", "done"} /\ NeedsWorker(StepOf(r))}
    \cup {w \in Threads : ack[w] = "polling"}

WorkerFree == Cardinality(OnWorker) < Workers

Poll(r) ==
    /\ At(r, "queued")
    /\ NeedsWorker(StepOf(r)) => WorkerFree
    /\ Go(r, "polling")
    /\ UNCHANGED <<state, watchdogs_mutex, model, thread, ack, closed, shutdown, gone>>

\* The critical section begins.
EnterState(r) ==
    /\ At(r, "polling")
    /\ StepOf(r) \in {"state", "state_watchdogs"}
    /\ state = Free
    /\ state' = r
    /\ Go(r, "inside")
    /\ UNCHANGED <<watchdogs_mutex, model, thread, ack, closed, shutdown, gone>>

\* Mutant: the guard lives until the libnvnmos call has returned.
StateKept_AcrossFfi(r) ==
    /\ req[r].step < Len(Script(KindOf[r]))
    /\ Script(KindOf[r])[req[r].step + 1] = "ffi"

\* Does the guard outlive the bookkeeping?
StateKept(r) == FALSE

\* The bookkeeping, and the end of the critical section; close_session, by the
\* client or a watchdog, takes the Node out of the map here.  If the Node is
\* closed meanwhile, the first look into the map ends the request.
LeaveState(r) ==
    /\ At(r, "inside")
    /\ StepOf(r) = "state"
    /\ state' = IF StateKept(r) THEN state ELSE Free
    /\ IF NodeOf[r] \in closed /\ \A k \in 1 .. req[r].step - 1 :
                                     Script(KindOf[r])[k] # "state"
       THEN Go(r, "done") /\ UNCHANGED closed
       ELSE /\ Proceed(r)
            /\ closed' = IF KindOf[r] \in Closing THEN closed \cup {NodeOf[r]} ELSE closed
    /\ UNCHANGED <<watchdogs_mutex, model, thread, ack, shutdown, gone>>

\* cancel_timeout, under `state` or by itself.
EnterWatchdogs(r) ==
    /\ \/ At(r, "polling") /\ StepOf(r) = "watchdogs"
       \/ At(r, "inside") /\ StepOf(r) = "state_watchdogs"
    /\ watchdogs_mutex = Free
    /\ watchdogs_mutex' = r
    /\ Go(r, "in_watchdogs")
    /\ UNCHANGED <<state, model, thread, ack, closed, shutdown, gone>>

LeaveWatchdogs(r) ==
    /\ At(r, "in_watchdogs")
    /\ watchdogs_mutex' = Free
    /\ state' = IF state = r THEN Free ELSE state
    /\ Proceed(r)
    /\ UNCHANGED <<model, thread, ack, closed, shutdown, gone>>

\* Every entry point of libnvnmos takes the model lock.
EnterModel(r) ==
    /\ At(r, "polling")
    /\ StepOf(r) \in {"ffi", "ffi_callback"}
    /\ model[NodeOf[r]] = Free
    /\ model' = [model EXCEPT ![NodeOf[r]] = r]
    /\ Go(r, "inside")
    /\ UNCHANGED <<state, watchdogs_mutex, thread, ack, closed, shutdown, gone>>

\* on_annotation_updated: `state` inside the model lock.
EnterCallback(r) ==
    /\ At(r, "inside")
    /\ StepOf(r) = "ffi_callback"
    /\ state = Free
    /\ state' = r
    /\ Go(r, "in_callback")
    /\ UNCHANGED <<watchdogs_mutex, model, thread, ack, closed, shutdown, gone>>

\* A clone of the Arc<NodeServer> is carried from the first critical section to
\* the end of the libnvnmos call.
HoldsServer(r) ==
    /\ req[r].at \notin {"new", "done"}
    /\ StepOf(r) \in {"ffi", "ffi_callback"}

\* Mutant: the destroy does not wait for other clones.
LastArc_Ignored(r) == NodeOf[r] \in closed /\ KindOf[r] \in Closing

LastArc(r) ==
    /\ NodeOf[r] \in closed
    /\ \A q \in Requests \ {r} : NodeOf[q] = NodeOf[r] => ~HoldsServer(q)

\* The call returns; the last clone of a closed Node destroys the server.
LeaveModel(r) ==
    /\ \/ At(r, "inside") /\ StepOf(r) = "ffi"
       \/ At(r, "in_callback")
    /\ model' = [model EXCEPT ![NodeOf[r]] = Free]
    /\ state' = IF state = r THEN Free ELSE state
    /\ IF LastArc(r) THEN Go(r, "destroy") ELSE Proceed(r)
    /\ UNCHANGED <<watchdogs_mutex, thread, ack, closed, shutdown, gone>>

\* server::~server: shutdown is set under the model lock ...
Shutdown(r) ==
    /\ At(r, "destroy")
    /\ model[NodeOf[r]] = Free
    /\ shutdown' = shutdown \cup {NodeOf[r]}
    /\ Go(r, "join")
    /\ UNCHANGED <<state, watchdogs_mutex, model, thread, ack, closed, gone>>

\* ... and the threads are joined before the listener is closed.
Join(r) ==
    /\ At(r, "join")
    /\ \A w \in Threads : ThreadNode[w] = NodeOf[r] => thread[w] = "exited"
    /\ gone' = gone \cup {NodeOf[r]}
    /\ Proceed(r)
    /\ UNCHANGED <<state, watchdogs_mutex, model, thread, ack, closed, shutdown>>

RequestStep(r) ==
    \/ Poll(r)
    \/ EnterState(r)
    \/ LeaveState(r)
    \/ EnterWatchdogs(r)
    \/ LeaveWatchdogs(r)
    \/ EnterModel(r)
    \/ EnterCallback(r)
    \/ LeaveModel(r)
    \/ Shutdown(r)
    \/ Join(r)

-----------------------------------------------------------------------------
(* The activation threads: route_activation under the model lock. *)

ThreadGo(w, phase) == thread' = [thread EXCEPT ![w] = phase]

\* A controller's activation is due.
Activation(w) ==
    /\ thread[w] = "idle"
    /\ ThreadNode[w] \notin shutdown
    /\ model[ThreadNode[w]] = Free
    /\ model' = [model EXCEPT ![ThreadNode[w]] = w]
    /\ ThreadGo(w, "dispatch")
    /\ UNCHANGED <<state, watchdogs_mutex, req, ack, closed, shutdown, gone>>

\* dispatch_activation: the event is out, the client will answer.
DispatchActivation(w) ==
    /\ thread[w] = "dispatch"
    /\ state = Free
    /\ ThreadNode[w] \notin closed
    /\ ThreadGo(w, "parked")
    /\ ack' = [ack EXCEPT ![w] = "sent"]
    /\ UNCHANGED <<state, watchdogs_mutex, model, req, closed, shutdown, gone>>

\* The session is closed: NoResource, and the model lock is released.
DispatchNoResource(w) ==
    /\ thread[w] = "dispatch"
    /\ state = Free
    /\ ThreadNode[w] \in closed
    /\ ThreadGo(w, "idle")
    /\ model' = [model EXCEPT ![ThreadNode[w]] = Free]
    /\ UNCHANGED <<state, watchdogs_mutex, req, ack, closed, shutdown, gone>>

\* The ack is here, or close_session dropped its channel.  (ACTIVATION_ACK_TIMEOUT is
\* left out: nothing below needs it as long as the client answers.)
Unpark(w) ==
    /\ thread[w] = "parked"
    /\ ack[w] = "acked" \/ ThreadNode[w] \in closed
    /\ ThreadGo(w, "cleanup")
    /\ ack' = [ack EXCEPT ![w] = IF @ = "acked" THEN "none" ELSE @]
    /\ UNCHANGED <<state, watchdogs_mutex, model, req, closed, shutdown, gone>>

\* cleanup_pending_activation, and the model lock is released.
CleanupActivation(w) ==
    /\ thread[w] = "cleanup"
    /\ state = Free
    /\ ThreadGo(w, "idle")
    /\ model' = [model EXCEPT ![ThreadNode[w]] = Free]
    /\ UNCHANGED <<state, watchdogs_mutex, req, ack, closed, shutdown, gone>>

Exit(w) ==
    /\ thread[w] = "idle"
    /\ ThreadNode[w] \in shutdown
    /\ ThreadGo(w, "exited")
    /\ UNCHANGED <<state, watchdogs_mutex, model, req, ack, closed, shutdown, gone>>

ThreadStep(w) ==
    \/ DispatchActivation(w)
    \/ DispatchNoResource(w)
    \/ Unpark(w)
    \/ CleanupActivation(w)
    \/ Exit(w)

\* AckActivation: a handler like the others, on a worker.
PollAck(w) ==
    /\ ack[w] = "sent"
    /\ WorkerFree
    /\ ack' = [ack EXCEPT ![w] = "polling"]
    /\ UNCHANGED <<state, watchdogs_mutex, model, req, thread, closed, shutdown, gone>>

CompleteActivation(w) ==
    /\ ack[w] = "polling"
    /\ state = Free
    /\ ack' = [ack EXCEPT ![w] = "acked"]
    /\ UNCHANGED <<state, watchdogs_mutex, model, req, thread, closed, shutdown, gone>>

-----------------------------------------------------------------------------
LockNext ==
    \/ \E r \in Requests : Arrive(r) \/ RequestStep(r)
    \/ \E w \in Threads :
          Activation(w) \/ ThreadStep(w) \/ PollAck(w) \/ CompleteActivation(w)

LockSpec == LockInit /\ [][LockNext]_lockVars

\* A lock, a worker or the blocking pool that becomes free again and again is
\* given to each waiter in the end; clients answer the events they get.  Nobody
\* has to send a request and no activation has to happen.
LockFairSpec ==
    /\ LockSpec
    /\ \A r \in Requests : SF_lockVars(RequestStep(r))
    /\ \A w \in Threads :
          SF_lockVars(ThreadStep(w)) /\ SF_lockVars(PollAck(w)) /\ SF_lockVars(CompleteActivation(w))

-----------------------------------------------------------------------------
(* Correctness. *)

\* Every lock has at most the one holder that believes to have it, and no more
\* workers are in use than there are.
LocksConsistent ==
    /\ state \in Requests \cup {Free}
    /\ watchdogs_mutex \in Requests \cup {Free}
    /\ model \in [Nodes -> Requests \cup Threads \cup {Free}]
    /\ \A r \in Requests :
          /\ req[r].at = "inside" /\ StepOf(r) = "state" => state = r
          /\ req[r].at = "in_callback" => state = r /\ model[NodeOf[r]] = r
          /\ req[r].at = "in_watchdogs" => watchdogs_mutex = r
    /\ \A w \in Threads :
          thread[w] \in {"dispatch", "parked", "cleanup"} <=> model[ThreadNode[w]] = w
    /\ Cardinality(OnWorker) <= Workers

\* A Node's server is destroyed once, by the last holder of its Arc, and never
\* under a call: nobody takes the model lock of a Node that is gone.
GoneIsQuiet ==
    \A n \in gone :
        /\ n \in closed
        /\ model[n] = Free
        /\ \A r \in Requests : NodeOf[r] = n => ~HoldsServer(r)
        /\ \A w \in Threads : ThreadNode[w] = n => thread[w] = "exited"

\* Mutual exclusion, the bound on the workers, and no destroy under a call.
LockInv == LocksConsistent /\ GoneIsQuiet

\* Every request returns, even with a single worker and without the ack timeout.
RequestsReturn ==
    \A r \in Requests : req[r].at # "new" ~> req[r].at = "done"

\* A parked activation gets its ack and lets go of the model lock, even if every
\* other handler is waiting for that lock.
ParkedIsReleased == \A w \in Threads : thread[w] = "parked" ~> thread[w] = "idle"

\* The listener of a closed Node is closed, activation in flight or not: it is
\* not stranded in LISTEN.
ListenerClosed == \A n \in Nodes : n \in closed ~> n \in gone

\* Nobody waits for good, neither a handler, an activation thread nor the join of
\* a destroy: no handler asks for the model lock with state in its hand, and none
\* waits for the model lock on an async worker.
NobodyStarves == RequestsReturn /\ ParkedIsReleased /\ ListenerClosed

=============================================================================
