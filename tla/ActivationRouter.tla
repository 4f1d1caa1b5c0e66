-------------------------- MODULE ActivationRouter --------------------------
(***************************************************************************)
(* How nvnmosd carries an in-band IS-05 activation to the client that owns *)
(* the resource and its acknowledgement back to the IS-05 controller:      *)
(* route_activation (rust/nvnmosd/src/main.rs) on the activation thread of *)
(* a Node, and dispatch_activation, complete_activation,                   *)
(* cleanup_pending_activation, the subscription slots and close_session of *)
(* State (rust/nvnmosd/src/state.rs).                                      *)
(*                                                                         *)
(* The thread takes the state mutex twice, to dispatch and to clean up,    *)
(* and waits for the ack in between with the mutex released.  Whatever     *)
(* clients do to the session then interleaves with the wait.               *)
(***************************************************************************)
EXTENDS Naturals, Sequences, FiniteSets

CONSTANTS
    Sessions,        \* session handles; each is opened once, before the start
    Resources,       \* (node_seed, side, name): what an activation names
    Threads,         \* the activation threads of libnvnmos, one per Node
    ThreadOf,        \* resource -> the thread of its Node
    Buffer,          \* SUBSCRIPTION_BUFFER: events a stream holds unread
    MaxActivations   \* bound on next_activation_id

ASSUME RouterAssumption ==
    /\ ThreadOf \in [Resources -> Threads]
    /\ Buffer \in Nat \ {0}
    /\ MaxActivations \in Nat

VARIABLES
    open,           \* sessions
    owner,          \* by_name and resources: resource -> owning session
    slots,          \* sessions with an entry in `subscriptions`
    streams,        \* session -> unread events; a session whose client holds
                    \* the receiving half of its stream
    pending,        \* pending_activations: activation_handle -> session_handle
    ack,            \* activation_handle -> what is in its ack channel
    thread,         \* what each activation thread is doing
    next_activation_id,
    log             \* history: who an activation was routed to, what the
                    \* client's accepted AckActivation said and what the
                    \* controller was told

vars == <<open, owner, slots, streams, pending, ack, thread,
          next_activation_id, log>>

-----------------------------------------------------------------------------
Put(f, k, v) == [x \in DOMAIN f \cup {k} |-> IF x = k THEN v ELSE f[x]]

Without(f, K) == [x \in DOMAIN f \ K |-> f[x]]

Outcome == {"success", "failure"}

Idle == [phase |-> "idle"]

Init ==
    /\ open = Sessions
    /\ owner = [r \in {} |-> r]
    /\ slots = {}
    /\ streams = [h \in {} |-> h]
    /\ pending = [a \in {} |-> a]
    /\ ack = [a \in {} |-> a]
    /\ thread = [w \in Threads |-> Idle]
    /\ next_activation_id = 0
    /\ log = [a \in {} |-> a]

-----------------------------------------------------------------------------
(* The activation thread: route_activation. *)

\* tx.is_closed(): the slot is there, the receiving half is gone.
Closed(h) == h \in slots /\ h \notin DOMAIN streams

\* try_send finds room in the channel of the stream.
HasRoom(h) == Len(streams[h]) < Buffer

ActivationFor(w, r) == thread[w].phase = "idle" /\ ThreadOf[r] = w

\* dispatch_activation, Routed: the event goes on the stream and the entry in
\* the map in one hold of the mutex.
Dispatch(w, r) ==
    /\ ActivationFor(w, r)
    /\ next_activation_id < MaxActivations
    /\ r \in DOMAIN owner
    /\ LET h == owner[r]
           a == next_activation_id
       IN  /\ h \in slots
           /\ h \in DOMAIN streams
           /\ HasRoom(h)
           /\ streams' = [streams EXCEPT ![h] = Append(@, a)]
           /\ pending' = Put(pending, a, h)
           /\ ack' = Put(ack, a, "none")
           /\ thread' = [thread EXCEPT ![w] = [phase |-> "waiting", act |-> a]]
           /\ log' = Put(log, a, [session |-> h, acks |-> <<>>, told |-> "none",
                                  timed_out |-> FALSE])
    /\ next_activation_id' = next_activation_id + 1
    /\ UNCHANGED <<open, owner, slots>>

\* dispatch_activation, SubscriberBusy: the handle is spent, the event is not
\* sent, the controller is told so.
DispatchBusy(w, r) ==
    /\ ActivationFor(w, r)
    /\ next_activation_id < MaxActivations
    /\ r \in DOMAIN owner
    /\ owner[r] \in slots
    /\ owner[r] \in DOMAIN streams
    /\ ~HasRoom(owner[r])
    /\ next_activation_id' = next_activation_id + 1
    /\ UNCHANGED <<open, owner, slots, streams, pending, ack, thread, log>>

\* dispatch_activation, NoSubscriber: a closed slot is reaped on the way.
\* (NoResource, and NoSubscriber without a slot, change nothing.)
DispatchNoSubscriber(w, r) ==
    /\ ActivationFor(w, r)
    /\ r \in DOMAIN owner
    /\ Closed(owner[r])
    /\ slots' = slots \ {owner[r]}
    /\ UNCHANGED <<open, owner, streams, pending, ack, thread,
                   next_activation_id, log>>

\* What route_activation returns for what came through the ack channel.
Returned(outcome) == IF outcome = "success" THEN "ok" ELSE "err"

Answer(w, result) ==
    thread' = [thread EXCEPT ![w] = [phase |-> "cleanup", act |-> thread[w].act,
                                     result |-> result]]

\* recv_timeout returns what the client said.
RecvAck(w) ==
    /\ thread[w].phase = "waiting"
    /\ ack[thread[w].act] \in Outcome
    /\ Answer(w, Returned(ack[thread[w].act]))
    /\ UNCHANGED <<open, owner, slots, streams, pending, ack,
                   next_activation_id, log>>

\* Mutant: the wait has no timeout.
RecvTimeout_Never(w) == FALSE /\ UNCHANGED vars

\* recv_timeout gives up after ACTIVATION_ACK_TIMEOUT; only with nothing to
\* receive.
RecvTimeout(w) ==
    /\ thread[w].phase = "waiting"
    /\ ack[thread[w].act] = "none"
    /\ Answer(w, "err")
    /\ log' = [log EXCEPT ![thread[w].act].timed_out = TRUE]
    /\ UNCHANGED <<open, owner, slots, streams, pending, ack,
                   next_activation_id>>

\* The sending half went with the entry, and left nothing behind.
ChannelDropped(a) == a \notin DOMAIN pending /\ ack[a] = "none"

\* recv_timeout returns Disconnected: close_session dropped the entry.
RecvDisconnected(w) ==
    /\ thread[w].phase = "waiting"
    /\ ChannelDropped(thread[w].act)
    /\ Answer(w, "err")
    /\ UNCHANGED <<open, owner, slots, streams, pending, ack,
                   next_activation_id, log>>

\* Mutant: the entry stays when the wait ended by itself.
CleanupPending_Forgotten(a) == pending

CleanupPending(a) == Without(pending, {a})

\* activation_trampoline turns the Result of the callback into the bool that
\* libnvnmos reports to the controller.
ActivationTrampoline(result) == IF result = "ok" THEN "success" ELSE "failure"

\* cleanup_pending_activation, and the result for libnvnmos.
Cleanup(w) ==
    /\ thread[w].phase = "cleanup"
    /\ pending' = CleanupPending(thread[w].act)
    /\ log' = [log EXCEPT ![thread[w].act].told = ActivationTrampoline(thread[w].result)]
    /\ thread' = [thread EXCEPT ![w] = Idle]
    /\ UNCHANGED <<open, owner, slots, streams, ack, next_activation_id>>

ThreadStep(w) == RecvAck(w) \/ RecvTimeout(w) \/ RecvDisconnected(w) \/ Cleanup(w)

-----------------------------------------------------------------------------
(* The clients. *)

\* subscribe_activations: NOT_FOUND and ALREADY_EXISTS are the guards; a closed
\* slot is replaced.
Subscribe(h) ==
    /\ h \in open
    /\ h \in slots => Closed(h)
    /\ slots' = slots \cup {h}
    /\ streams' = Put(streams, h, <<>>)
    /\ UNCHANGED <<open, owner, pending, ack, thread, next_activation_id, log>>

\* The client, or the transport under it, drops the stream with what is unread.
StreamDropped(h) ==
    /\ h \in DOMAIN streams
    /\ streams' = Without(streams, {h})
    /\ UNCHANGED <<open, owner, slots, pending, ack, thread,
                   next_activation_id, log>>

\* on_subscription_stream_ended, in the task the dropped stream spawned.
StreamEnded(h) ==
    /\ Closed(h)
    /\ slots' = slots \ {h}
    /\ UNCHANGED <<open, owner, streams, pending, ack, thread,
                   next_activation_id, log>>

\* The client takes the oldest event off its stream.
ReadEvent(h) ==
    /\ h \in DOMAIN streams
    /\ streams[h] # <<>>
    /\ streams' = [streams EXCEPT ![h] = Tail(@)]
    /\ UNCHANGED <<open, owner, slots, pending, ack, thread, next_activation_id, log>>

\* Mutant: any session may acknowledge.
Owns_Anyone(h, a) == a \in DOMAIN pending

Owns(h, a) == a \in DOMAIN pending /\ pending[a] = h

\* AckActivation: complete_activation answers NOT_FOUND, and changes nothing,
\* unless the session is open and owns the pending activation.  The channel has
\* room for the one message it will ever get; the receiving half lives until
\* after the cleanup, so the send succeeds even when the thread has given up.
AckActivation(h, a, outcome) ==
    /\ h \in open
    /\ Owns(h, a)
    /\ pending' = Without(pending, {a})
    /\ ack' = [ack EXCEPT ![a] = outcome]
    /\ log' = [log EXCEPT ![a].acks = Append(@, [by |-> h, outcome |-> outcome])]
    /\ UNCHANGED <<open, owner, slots, streams, thread, next_activation_id>>

\* AddSender, AddReceiver: a stream is required, the name must be free.
Register(r, h) ==
    /\ h \in open
    /\ h \in slots
    /\ h \in DOMAIN streams
    /\ r \notin DOMAIN owner
    /\ owner' = Put(owner, r, h)
    /\ UNCHANGED <<open, slots, streams, pending, ack, thread,
                   next_activation_id, log>>

\* remove_resource leaves a pending activation to its thread.
Unregister(r) ==
    /\ r \in DOMAIN owner
    /\ owner' = Without(owner, {r})
    /\ UNCHANGED <<open, slots, streams, pending, ack, thread,
                   next_activation_id, log>>

\* close_session, by the client or a watchdog: the slot goes, though the client
\* may still read what its stream holds, and the ack channels of the session's
\* activations are dropped.
CloseSession(h) ==
    /\ h \in open
    /\ open' = open \ {h}
    /\ slots' = slots \ {h}
    /\ pending' = Without(pending, {a \in DOMAIN pending : pending[a] = h})
    /\ owner' = Without(owner, {r \in DOMAIN owner : owner[r] = h})
    /\ UNCHANGED <<streams, ack, thread, next_activation_id, log>>

-----------------------------------------------------------------------------
Next ==
    \/ \E w \in Threads, r \in Resources :
          Dispatch(w, r) \/ DispatchBusy(w, r) \/ DispatchNoSubscriber(w, r)
    \/ \E w \in Threads : ThreadStep(w)
    \/ \E h \in Sessions :
          \/ Subscribe(h)
          \/ StreamDropped(h)
          \/ StreamEnded(h)
          \/ ReadEvent(h)
          \/ CloseSession(h)
          \/ \E a \in DOMAIN pending, outcome \in Outcome : AckActivation(h, a, outcome)
          \/ \E r \in Resources : Register(r, h)
    \/ \E r \in Resources : Unregister(r)

Spec == Init /\ [][Next]_vars

\* The threads run and their timer fires; clients owe nothing.
FairSpec == Spec /\ \A w \in Threads : WF_vars(ThreadStep(w))

-----------------------------------------------------------------------------
(* Correctness. *)

\* Every variable has the shape of the structure it models; no stream holds
\* more than its buffer.
TypeOK ==
    /\ open \subseteq Sessions
    /\ DOMAIN owner \subseteq Resources
    /\ \A r \in DOMAIN owner : owner[r] \in open
    /\ slots \subseteq open
    /\ DOMAIN streams \subseteq Sessions
    /\ next_activation_id \in Nat
    /\ \A h \in DOMAIN streams :
          /\ streams[h] \in Seq(Nat)
          /\ Len(streams[h]) <= Buffer
          /\ \A k \in DOMAIN streams[h] : streams[h][k] < next_activation_id
    /\ DOMAIN log \subseteq 0 .. next_activation_id - 1
    /\ DOMAIN ack = DOMAIN log
    /\ \A a \in DOMAIN log : ack[a] \in Outcome \cup {"none"}
    /\ \A a \in DOMAIN log :
          /\ log[a].session \in Sessions
          /\ log[a].told \in Outcome \cup {"none"}
          /\ log[a].timed_out \in BOOLEAN
    /\ DOMAIN pending \subseteq DOMAIN log
    /\ \A a \in DOMAIN pending : pending[a] \in Sessions
    /\ thread \in [Threads -> [phase : {"idle"}]
                             \cup [phase : {"waiting"}, act : Nat]
                             \cup [phase : {"cleanup"}, act : Nat, result : {"ok", "err"}]]

Serves(w, a) == thread[w].phase # "idle" /\ thread[w].act = a

\* No entry of pending_activations outlives the thread that waits for it, the
\* entry belongs to the session the event was sent to, and that session is
\* open: whatever order ack, timeout, cleanup and close_session come in, the
\* map does not leak.
PendingHasThread ==
    \A a \in DOMAIN pending :
        /\ pending[a] = log[a].session
        /\ pending[a] \in open
        /\ log[a].told = "none"
        /\ \E w \in Threads : Serves(w, a)

\* The router's maps are well formed, within the subscribers' buffers, and hold
\* no activation that nobody waits for.
RouterInv == TypeOK /\ PendingHasThread

\* The IS-05 controller sees success only if the session that owns the resource
\* acknowledged this very activation, once, with success (the daemon "does not
\* swallow failures and return true to NvNmos").
SuccessIsAcknowledged ==
    \A a \in DOMAIN log :
        /\ Len(log[a].acks) <= 1
        /\ log[a].told = "success" =>
              /\ Len(log[a].acks) = 1
              /\ log[a].acks[1] = [by |-> log[a].session, outcome |-> "success"]

\* An accepted success is withheld from the controller only when the thread had
\* already timed out.
OnlyTimeoutLosesAck ==
    \A a \in DOMAIN log :
        log[a].acks # <<>> /\ log[a].told # "none" /\ log[a].told # log[a].acks[1].outcome
            => log[a].timed_out

\* What the controller is told is what the owner answered: no success without
\* its ack, and no ack lost but to the timeout of recv_timeout.
OutcomeFaithful == SuccessIsAcknowledged /\ OnlyTimeoutLosesAck

\* Every activation that was routed is answered: neither a silent client, a
\* dropped stream nor a closed session parks the thread, which holds the model
\* lock of its Node, for good.
ThreadReleased ==
    \A w \in Threads : thread[w].phase # "idle" ~> thread[w].phase = "idle"
=============================================================================
