-------------------------- MODULE AnnotationEvents --------------------------
(***************************************************************************)
(* Annotations between libnvnmos, the store and the clients of one Node: a *)
(* PATCH is merged under the model lock, stored and published under the    *)
(* state mutex, and shown by libnvnmos; sessions follow on a stream that   *)
(* starts with a snapshot (nvnmosd state.rs, main.rs; libnvnmos            *)
(* nvnmos.cpp, nvnmos_impl.cpp).                                           *)
(***************************************************************************)
EXTENDS Annotations, SequencesExt

CONSTANTS
    Sessions,           \* sessions on the Node
    Objects,            \* Senders and Receivers, [side, name]
    ResourceTypes,      \* the annotatable types that are looked at
    Checkpoints,        \* stores that the daemon may start with
    Handlers,           \* Add and UpdateAnnotation requests in flight
    SUBSCRIPTION_BUFFER,
    MaxStreams,         \* bound on subscriptions
    MaxAdds             \* bound on Add requests

NoSession == "none"

TypesForSide(side) ==
    ResourceTypes \cap (IF side = "sender" THEN {"source", "flow", "sender"} ELSE {"receiver"})

NodeObj == [side |-> "node", name |-> ""]

NodeKeys == (ResourceTypes \cap {"node", "device"}) \X {NodeObj}
KeysOf(o) == TypesForSide(o.side) \X {o}
Keys == NodeKeys \cup UNION {KeysOf(o) : o \in Objects}

ASSUME EventsAssumption ==
    /\ IsFiniteSet(Objects)
    /\ NoSession \notin Sessions
    /\ SUBSCRIPTION_BUFFER \in Nat
    /\ \A c \in Checkpoints : DOMAIN c \subseteq Keys /\ \A k \in DOMAIN c : c[k] \in Annotation

\* What a resource shows without annotations; libnvnmos gives it read-only tags.
Default == [text |-> [f \in TextFields |-> "default"], tags |-> ReadOnlyTags]

VARIABLES
    data,       \* resources of libnvnmos: key -> label, description and tags
    merging,    \* the update that holds the model lock, after its callback
    owner,      \* by_name and resources: the session that has the object
    open,       \* open sessions
    removing,   \* objects whose removal from libnvnmos is deferred
    handler,    \* requests between their phases
    stream,     \* annotation_subscriptions and the receiving ends
    reaps,      \* tasks spawned by dropped streams
    view,       \* what the client of a session has read
    updates,    \* number of updates
    streams,    \* number of subscriptions
    adds,       \* number of Add requests
    stale       \* history: an update came between the read of the store for a
                \* create and the create

vars == <<entries, data, merging, owner, open, removing, handler, stream, reaps,
          view, updates, streams, adds, stale>>

NoMerge == [key |-> <<"none", NodeObj>>]
Idle == [pc |-> "idle"]
NoStream == [state |-> "none", queue |-> <<>>, capacity |-> 0]
Event(k, store) == [key |-> k, annotation |-> EntryOf(store, k)]

\* A resource is created with its stored annotation.
Created(store, k) == MergePatch(Default, AnnotationAtCreate(EntryOf(store, k)), Default)

Init ==
    /\ entries \in Checkpoints
    /\ data = [k \in NodeKeys |-> Created(entries, k)]
    /\ merging = NoMerge
    /\ owner = [o \in Objects |-> NoSession]
    /\ open = Sessions
    /\ removing = {}
    /\ handler = [h \in Handlers |-> Idle]
    /\ stream = [s \in Sessions |-> NoStream]
    /\ reaps = [s \in Sessions |-> 0]
    /\ view = [s \in Sessions |-> [k \in {} |-> BlankAnnotation]]
    /\ updates = 0
    /\ streams = 0
    /\ adds = 0
    /\ stale = FALSE

-----------------------------------------------------------------------------
\* Streams.

Live(s) == stream[s].state = "live"

\* A stream the daemon closed: the client reads what is queued and then its end,
\* which nobody follows here.
Closed == [NoStream EXCEPT !.state = "closed"]

\* send_annotation, for one event after the other: a stream whose buffer is full
\* is closed.
Sent(st, events) ==
    IF st.state # "live" THEN st
    ELSE IF Len(st.queue) + Len(events) <= st.capacity
         THEN [st EXCEPT !.queue = @ \o events]
    ELSE Closed

\* annotation_recipients and resource_recipient.
Recipients(k) ==
    IF k \in NodeKeys THEN {s \in open : Live(s)}
    ELSE {s \in open : Live(s) /\ \E o \in Objects : k \in KeysOf(o) /\ owner[o] = s}

\* publish_annotation, after the update is stored.
Published(k, store) ==
    [s \in Sessions |-> IF s \in Recipients(k) THEN Sent(stream[s], <<Event(k, store)>>)
                        ELSE stream[s]]

\* Events for all keys of K.  Their order is fixed, and nothing depends on it.
Events(K) == LET keys == SetToSeq(K) IN [i \in 1..Len(keys) |-> Event(keys[i], entries)]

\* annotation_snapshot: Node and Device, and what the session owns.
Visible(s) == NodeKeys \cup UNION {KeysOf(o) : o \in {x \in Objects : owner[x] = s}}

Snapshot(s) == Events(Visible(s))

\* SubscribeAnnotations: slot and snapshot under one hold of the mutex.  A slot
\* whose receiver is gone is replaced.
SubscribeAnnotations(s) ==
    /\ s \in open
    /\ ~Live(s)
    /\ streams < MaxStreams
    /\ streams' = streams + 1
    /\ LET events == Snapshot(s)
           room == IF Len(events) > SUBSCRIPTION_BUFFER THEN Len(events)
                   ELSE SUBSCRIPTION_BUFFER
       IN  stream' = [stream EXCEPT ![s] = [state |-> "live", queue |-> events,
                                            capacity |-> room]]
    /\ view' = [view EXCEPT ![s] = [k \in {} |-> BlankAnnotation]]
    /\ UNCHANGED <<entries, data, merging, owner, open, removing, handler, reaps,
                   updates, adds, stale>>

\* The client reads an event.
ReadEvent(s) ==
    /\ Live(s)
    /\ stream[s].queue # <<>>
    /\ LET ev == Head(stream[s].queue)
       IN  view' = [view EXCEPT ![s] = With(@, ev.key, ev.annotation)]
    /\ stream' = [stream EXCEPT ![s].queue = Tail(@)]
    /\ UNCHANGED <<entries, data, merging, owner, open, removing, handler, reaps,
                   updates, streams, adds, stale>>

\* The client drops the stream; its Drop spawns a task.
StreamDropped(s) ==
    /\ stream[s].state \in {"live", "closed"}
    /\ stream' = [stream EXCEPT ![s] = [NoStream EXCEPT !.state =
                      IF Live(s) THEN "dropped" ELSE "none"]]
    /\ reaps' = [reaps EXCEPT ![s] = @ + 1]
    /\ view' = [view EXCEPT ![s] = [k \in {} |-> BlankAnnotation]]
    /\ UNCHANGED <<entries, data, merging, owner, open, removing, handler, updates,
                   streams, adds, stale>>

\* Mutant: the slot goes, whoever has it now.
ReapAnnotationSubscription_Any(s) ==
    /\ reaps[s] > 0
    /\ reaps' = [reaps EXCEPT ![s] = @ - 1]
    /\ stream' = [stream EXCEPT ![s].state = IF @ = "live" THEN "deaf" ELSE @]
    /\ UNCHANGED <<entries, data, merging, owner, open, removing, handler, view,
                   updates, streams, adds, stale>>

\* The task reaps the slot only if the receiver of the slot is gone: it may be
\* the slot of a stream that the client opened meanwhile.
ReapAnnotationSubscription(s) ==
    /\ reaps[s] > 0
    /\ reaps' = [reaps EXCEPT ![s] = @ - 1]
    /\ stream' = [stream EXCEPT ![s].state = IF @ = "dropped" THEN "none" ELSE @]
    /\ UNCHANGED <<entries, data, merging, owner, open, removing, handler, view,
                   updates, streams, adds, stale>>

-----------------------------------------------------------------------------
\* Updates.

\* annotation_trampoline: libnvnmos goes on only if the callback stored the update.
AnnotationTrampoline(k, u) == ~Refused(entries, k, u, EntryLimit)

\* The merge, then the callback: store and publish under one hold of the state
\* mutex.  An update the store refuses changes nothing anywhere.
MergeAndPublish(k, p) ==
    /\ merging = NoMerge
    /\ k \in DOMAIN data
    /\ LET merged == MergePatch(data[k], p, Default)
           u == CallbackUpdate(merged, p)
       IN  /\ AnnotationTrampoline(k, u)
           /\ entries' = StoreApplied(entries, k, u)
           /\ stream' = Published(k, entries')
           /\ merging' = [key |-> k, merged |-> merged]
    /\ updates < MaxUpdates
    /\ updates' = updates + 1
    /\ stale' = (stale \/ \E h \in Handlers :
                             handler[h].pc = "read" /\ k \in KeysOf(handler[h].obj))

\* Patches that are neither refused nor without effect.
Accepted == {p \in Patch : PatchValid(p) /\ ~EmptyPatch(p)}

\* A controller's PATCH.
PatchAnnotation(k, p) ==
    /\ MergeAndPublish(k, p)
    /\ UNCHANGED <<data, owner, open, removing, handler, reaps, view, streams, adds>>

\* prepare_annotation_update: Node and Device, or an object of the session.
PrepareAnnotationUpdate(h, s, k) ==
    /\ handler[h] = Idle
    /\ updates < MaxUpdates
    /\ s \in open
    /\ k \in NodeKeys \/ \E o \in Objects : k \in KeysOf(o) /\ owner[o] = s
    /\ handler' = [handler EXCEPT ![h] = [pc |-> "update", key |-> k]]
    /\ UNCHANGED <<entries, data, merging, owner, open, removing, stream, reaps, view,
                   updates, streams, adds, stale>>

\* nmos_annotation_update, with no daemon lock held.
UpdateAnnotationFfi(h, p) ==
    /\ handler[h].pc = "update"
    /\ MergeAndPublish(handler[h].key, p)
    /\ handler' = [handler EXCEPT ![h] = Idle]
    /\ UNCHANGED <<data, owner, open, removing, reaps, view, streams, adds>>

\* The resource is gone, or the store is full, or the patch is empty.
UpdateAnnotationFails(h) ==
    /\ handler[h].pc = "update"
    /\ merging = NoMerge
    /\ handler' = [handler EXCEPT ![h] = Idle]
    /\ UNCHANGED <<entries, data, merging, owner, open, removing, stream, reaps, view,
                   updates, streams, adds, stale>>

\* modify_resource, still under the model lock.
ModifyResource ==
    /\ merging # NoMerge
    /\ data' = [data EXCEPT ![merging.key] = merging.merged]
    /\ merging' = NoMerge
    /\ UNCHANGED <<entries, owner, open, removing, handler, stream, reaps, view,
                   updates, streams, adds, stale>>

-----------------------------------------------------------------------------
\* Senders and Receivers.

PrepareAddResource(h, s, o) ==
    /\ handler[h] = Idle
    /\ s \in open
    /\ adds < MaxAdds
    /\ adds' = adds + 1
    /\ owner[o] = NoSession
    /\ handler' = [handler EXCEPT ![h] = [pc |-> "add", obj |-> o, session |-> s]]
    /\ UNCHANGED <<entries, data, merging, owner, open, removing, stream, reaps, view,
                   updates, streams, stale>>

\* add_to_server gets the stored annotations first.
ReadStored(h) ==
    /\ handler[h].pc = "add"
    /\ handler' = [handler EXCEPT ![h] =
           [pc |-> "read", obj |-> @.obj, session |-> @.session,
            create |-> [k \in KeysOf(@.obj) |-> AnnotationAtCreate(EntryOf(entries, k))]]]
    /\ UNCHANGED <<entries, data, merging, owner, open, removing, stream, reaps, view,
                   updates, streams, adds, stale>>

\* libnvnmos creates the resources; a name that exists and a reset are refused.
AddResourceFfi(h) ==
    /\ handler[h].pc = "read"
    /\ merging = NoMerge
    /\ IF /\ KeysOf(handler[h].obj) \cap DOMAIN data = {}
          /\ \A k \in KeysOf(handler[h].obj) : ValidAtCreate(handler[h].create[k])
       THEN /\ data' = [k \in DOMAIN data \cup KeysOf(handler[h].obj) |->
                           IF k \in DOMAIN data THEN data[k]
                           ELSE MergePatch(Default, handler[h].create[k], Default)]
            /\ handler' = [handler EXCEPT ![h] = [pc |-> "added", obj |-> @.obj,
                                                  session |-> @.session]]
       ELSE /\ handler' = [handler EXCEPT ![h] = Idle]
            /\ UNCHANGED data
    /\ UNCHANGED <<entries, merging, owner, open, removing, stream, reaps, view,
                   updates, streams, adds, stale>>

\* emit_added_resource: creation applied the stored annotations without the
\* callback, so they are sent now.
Emitted(s, o) == [stream EXCEPT ![s] = Sent(@, Events(KeysOf(o)))]

\* commit_add_sender, commit_add_receiver, with emit_added_resource under the
\* same hold of the mutex.  The session may be gone.
CommitAddResource(h) ==
    /\ handler[h].pc = "added"
    /\ LET s == handler[h].session
           o == handler[h].obj
       IN  IF s \in open
           THEN /\ owner' = [owner EXCEPT ![o] = s]
                /\ stream' = Emitted(s, o)
                /\ UNCHANGED removing
           ELSE /\ removing' = removing \cup {o}
                /\ UNCHANGED <<owner, stream>>
    /\ handler' = [handler EXCEPT ![h] = Idle]
    /\ UNCHANGED <<entries, data, merging, open, reaps, view, updates, streams, adds, stale>>

RemoveResource(o) ==
    /\ owner[o] # NoSession
    /\ owner' = [owner EXCEPT ![o] = NoSession]
    /\ removing' = removing \cup {o}
    /\ UNCHANGED <<entries, data, merging, open, handler, stream, reaps, view, updates,
                   streams, adds, stale>>

\* close_session drops the slot and everything the session owns.
CloseSession(s) ==
    /\ s \in open
    /\ open' = open \ {s}
    /\ stream' = [stream EXCEPT ![s] = IF Live(s) THEN Closed ELSE NoStream]
    /\ view' = [view EXCEPT ![s] = [k \in {} |-> BlankAnnotation]]
    /\ removing' = removing \cup {o \in Objects : owner[o] = s}
    /\ owner' = [o \in Objects |-> IF owner[o] = s THEN NoSession ELSE owner[o]]
    /\ UNCHANGED <<entries, data, merging, handler, reaps, updates, streams, adds, stale>>

\* The deferred removal; the store keeps the entries.
RemoveResourceFfi(o) ==
    /\ o \in removing
    /\ merging = NoMerge
    /\ removing' = removing \ {o}
    /\ data' = [k \in DOMAIN data \ KeysOf(o) |-> data[k]]
    /\ UNCHANGED <<entries, merging, owner, open, handler, stream, reaps, view, updates,
                   streams, adds, stale>>

-----------------------------------------------------------------------------
Next ==
    \/ \E s \in Sessions : \/ SubscribeAnnotations(s)
                           \/ ReadEvent(s)
                           \/ StreamDropped(s)
                           \/ ReapAnnotationSubscription(s)
                           \/ CloseSession(s)
    \/ \E k \in Keys, p \in Accepted : PatchAnnotation(k, p)
    \/ \E h \in Handlers : \/ \E s \in Sessions, k \in Keys : PrepareAnnotationUpdate(h, s, k)
                           \/ \E p \in Accepted : UpdateAnnotationFfi(h, p)
                           \/ UpdateAnnotationFails(h)
                           \/ \E s \in Sessions, o \in Objects : PrepareAddResource(h, s, o)
                           \/ ReadStored(h)
                           \/ AddResourceFfi(h)
                           \/ CommitAddResource(h)
    \/ ModifyResource
    \/ \E o \in Objects : RemoveResource(o) \/ RemoveResourceFfi(o)

Spec == Init /\ [][Next]_vars

-----------------------------------------------------------------------------
\* The last that the client hears of k, from the queue of its stream or before,
\* is what is stored.
Knows(s, k) ==
    LET q == stream[s].queue
    IN  \/ \E i \in 1..Len(q) : /\ q[i] = Event(k, entries)
                               /\ \A j \in i + 1..Len(q) : q[j].key # k
        \/ /\ \A j \in 1..Len(q) : q[j].key # k
           /\ k \in DOMAIN view[s] /\ view[s][k] = EntryOf(entries, k)

\* A session with an open stream, once it has read what is queued, knows the
\* stored annotation of everything it can see, however updates, snapshots, adds
\* and drops of earlier streams interleaved.
LiveViewCurrent ==
    \A s \in open : stream[s].state \in {"live", "deaf"} =>
        \A k \in Visible(s) : Knows(s, k)

\* What a resource of libnvnmos shows is its stored annotation over its defaults,
\* whenever no update is under way: an update that is refused leaves no trace,
\* and a resource that is created again shows what it showed.  The exception is
\* an update of the old resource that came between the read of the store for a
\* create and the create.
ShownIsStored ==
    ~stale => \A k \in DOMAIN data : merging.key # k =>
                  data[k] = Effective(EntryOf(entries, k), Default)
=============================================================================
