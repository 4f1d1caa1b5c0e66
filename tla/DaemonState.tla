---------------------------- MODULE DaemonState ----------------------------
(***************************************************************************)
(* The state of nvnmosd (rust/nvnmosd/src/state.rs) and the RPCs that      *)
(* change it: OpenSession, CloseSession, AddNode, RemoveNode, AddSender /  *)
(* AddReceiver, RemoveSender / RemoveReceiver, SyncResourceState and       *)
(* SubscribeActivations.                                                   *)
(*                                                                         *)
(* Every method of State runs under one mutex, so a method is one step.    *)
(* What interleaves are the phases of an RPC: FFI calls into libnvnmos run *)
(* with the mutex released, between a `prepare` and a `commit`, or after   *)
(* the bookkeeping as deferred work.  `rpc[t]` is the phase a handler is   *)
(* in and what it carries from one phase to the next, the clone of the     *)
(* Arc<NodeServer> included: the handler that drops the last clone         *)
(* destroys the server and closes its HTTP listener.                       *)
(***************************************************************************)
EXTENDS Integers, FiniteSets

CONSTANTS
    Seeds,         \* node seeds (non-empty strings)
    Objects,       \* (side, name) pairs: what a Sender or Receiver is known by
    Ports,         \* TCP ports the daemon may assign to a Node
    Rpcs,          \* handlers that can be between two phases at one time
    MaxSessions,   \* clients ask for no session beyond this one,
    MaxResources,  \* for no resource beyond this one,
    MaxServers     \* and for no Node beyond this one; a request that has begun
                   \* always finishes

ASSUME BoundsAssumption ==
    /\ MaxSessions \in Nat
    /\ MaxResources \in Nat
    /\ MaxServers \in Nat

VARIABLES
    nodes,             \* seed -> NodeEntry
    pending_nodes,     \* seeds prepared but not yet committed
    sessions,          \* session_handle -> SessionEntry
    resources,         \* resource_handle -> ResourceEntry
    by_name,           \* <<seed, object>> -> resource_handle
    subscriptions,     \* session_handle -> "live" | "closed" (is_closed())
    http_ports,        \* port -> seed
    next_session_id,   \* sess-N
    next_resource_id,  \* res-N
    servers,           \* the NodeServers that exist in libnvnmos
    next_server,       \* history: how many NodeServers were built
    rpc,               \* the phase of every handler
    crossed            \* history: a compensating remove was aimed at a Node
                       \* other than the one its add had gone to

regVars    == <<nodes, pending_nodes, http_ports>>
sessVars   == <<sessions, next_session_id>>
resVars    == <<resources, by_name, next_resource_id>>
serverVars == <<servers, next_server>>
vars == <<nodes, pending_nodes, sessions, resources, by_name, subscriptions,
          http_ports, next_session_id, next_resource_id, servers, next_server,
          rpc, crossed>>

-----------------------------------------------------------------------------
(* Maps that grow and shrink. *)

EmptyMap == [x \in {} |-> x]

Put(f, k, v) == [x \in DOMAIN f \cup {k} |-> IF x = k THEN v ELSE f[x]]

Without(f, K) == [x \in DOMAIN f \ K |-> f[x]]

-----------------------------------------------------------------------------
(* What the maps hold. *)

Lifetime == {"refcounted", "persistent"}

Key == Seeds \X Objects

NodeEntry == [server : Nat, lifetime : Lifetime, attached : Nat, http_port : Ports]

SessionEntry == [node_seed : Seeds, resources : SUBSET Nat]

ResourceEntry == [node_seed : Seeds, session : Nat, obj : Objects]

\* A NodeServer: the HTTP listener it holds and the Senders and Receivers in
\* its model.
Server == [seed : Seeds, http_port : Ports, objects : SUBSET Objects]

\* The phases of a handler.  "create" is a CreateNodePrep, "created" a
\* CreateNodeReady, "add" an AddResourcePrep, "added" an AddSenderReady or
\* AddReceiverReady (server is history: the Node the add went to; the Arc is
\* gone), "remove" a CloseSessionFfi, RemoveNodeFfi or RemoveResourceFfi, and
\* "sync" a SyncResourceFfi.
Rpc ==
    [phase : {"idle"}]
    \cup [phase : {"create"}, seed : Seeds, http_port : Ports, lifetime : Lifetime]
    \cup [phase : {"created"}, seed : Seeds, http_port : Ports, lifetime : Lifetime,
          server : Nat]
    \cup [phase : {"add"}, session : Nat, seed : Seeds, obj : Objects, server : Nat]
    \cup [phase : {"added"}, session : Nat, seed : Seeds, obj : Objects, server : Nat]
    \cup [phase : {"remove"}, server : Nat, objs : SUBSET Objects]
    \cup [phase : {"sync"}, server : Nat]

Idle == [phase |-> "idle"]

Init ==
    /\ nodes = EmptyMap
    /\ pending_nodes = {}
    /\ sessions = EmptyMap
    /\ resources = EmptyMap
    /\ by_name = EmptyMap
    /\ subscriptions = EmptyMap
    /\ http_ports = EmptyMap
    /\ next_session_id = 0
    /\ next_resource_id = 0
    /\ servers = EmptyMap
    /\ next_server = 0
    /\ rpc = [t \in Rpcs |-> Idle]
    /\ crossed = FALSE

-----------------------------------------------------------------------------
(* Arc<NodeServer>: who holds a clone, and what dropping one does. *)

HoldsServer(t, i) ==
    /\ rpc[t].phase \in {"created", "add", "remove", "sync"}
    /\ rpc[t].server = i

NodeHolds(i) == \E s \in DOMAIN nodes : nodes[s].server = i

\* Mutant: only the map is asked, not the clones that handlers hold.
LastHolder_MapOnly(t, i) == ~NodeHolds(i)

LastHolder(t, i) == ~NodeHolds(i) /\ \A u \in Rpcs \ {t} : ~HoldsServer(u, i)

\* Mutant: a clone is kept for good.
ReleaseServer_Leaks(t, i, live) == live

\* NodeServer::create: a server that listens, with nothing in its model.
NewServer(s, p) == [seed |-> s, http_port |-> p, objects |-> {}]

\* NodeServer::add_sender, add_receiver, and remove_sender, remove_receiver.
AddToServer(live, i, o) == [live EXCEPT ![i].objects = @ \cup {o}]

RemoveFromServer(live, i, o) == [live EXCEPT ![i].objects = @ \ {o}]

\* Drop for NodeServer: destroy_nmos_node_server runs when the last clone goes,
\* threads joined, listener closed, model gone.
ReleaseServer(t, i, live) ==
    IF LastHolder(t, i) THEN Without(live, {i}) ELSE live

-----------------------------------------------------------------------------
(* Creating a Node: OpenSession for an unknown seed, and AddNode. *)

\* Mutant: no bind probe.
PortFree_NoProbe(p) == p \notin DOMAIN http_ports

\* resolve_http_port: not assigned to another Node, and the bind probe
\* succeeds.  A listener of this daemon that is still closing fails the probe;
\* so may any foreign process, so that every port left can be the first free
\* one of the range.
PortFree(p) ==
    /\ p \notin DOMAIN http_ports
    /\ \A i \in DOMAIN servers : servers[i].http_port # p

PrepareCreate(t, s, p, lifetime) ==
    /\ rpc[t].phase = "idle"
    /\ s \notin DOMAIN nodes
    /\ s \notin pending_nodes
    /\ next_server < MaxServers
    /\ PortFree(p)
    /\ http_ports' = Put(http_ports, p, s)
    /\ pending_nodes' = pending_nodes \cup {s}
    /\ rpc' = [rpc EXCEPT ![t] = [phase |-> "create", seed |-> s,
                                  http_port |-> p, lifetime |-> lifetime]]
    /\ UNCHANGED <<nodes, sessVars, resVars, subscriptions, serverVars, crossed>>

PrepareOpenSession(t, s, p) ==
    /\ next_session_id < MaxSessions
    /\ PrepareCreate(t, s, p, "refcounted")

PrepareAddNode(t, s, p) == PrepareCreate(t, s, p, "persistent")

\* CreateNodePrep::run_ffi with the mutex released.
CreateNodeFfi(t) ==
    /\ rpc[t].phase = "create"
    /\ next_server' = next_server + 1
    /\ servers' = Put(servers, next_server, NewServer(rpc[t].seed, rpc[t].http_port))
    /\ rpc' = [rpc EXCEPT ![t] = [phase |-> "created", seed |-> rpc[t].seed,
                                  http_port |-> rpc[t].http_port,
                                  lifetime |-> rpc[t].lifetime,
                                  server |-> next_server]]
    /\ UNCHANGED <<regVars, sessVars, resVars, subscriptions, crossed>>

\* libnvnmos refused (the port was taken meanwhile, a bad config): the
\* handler takes the mutex again and calls abort_pending_node.
AbortPendingNode(t) ==
    /\ rpc[t].phase = "create"
    /\ LET s == rpc[t].seed
           p == rpc[t].http_port
       IN  /\ pending_nodes' = pending_nodes \ {s}
           /\ http_ports' = IF p \in DOMAIN http_ports /\ http_ports[p] = s
                            THEN Without(http_ports, {p})
                            ELSE http_ports
    /\ rpc' = [rpc EXCEPT ![t] = Idle]
    /\ UNCHANGED <<nodes, sessVars, resVars, subscriptions, serverVars, crossed>>

NewSession(s) ==
    /\ next_session_id' = next_session_id + 1
    /\ sessions' = Put(sessions, next_session_id, [node_seed |-> s, resources |-> {}])

CommitOpenSession(t) ==
    /\ rpc[t].phase = "created"
    /\ rpc[t].lifetime = "refcounted"
    /\ pending_nodes' = pending_nodes \ {rpc[t].seed}
    /\ nodes' = Put(nodes, rpc[t].seed,
                    [server |-> rpc[t].server, lifetime |-> "refcounted",
                     attached |-> 1, http_port |-> rpc[t].http_port])
    /\ NewSession(rpc[t].seed)
    /\ rpc' = [rpc EXCEPT ![t] = Idle]
    /\ UNCHANGED <<http_ports, resVars, subscriptions, serverVars, crossed>>

CommitAddNode(t) ==
    /\ rpc[t].phase = "created"
    /\ rpc[t].lifetime = "persistent"
    /\ pending_nodes' = pending_nodes \ {rpc[t].seed}
    /\ nodes' = Put(nodes, rpc[t].seed,
                    [server |-> rpc[t].server, lifetime |-> "persistent",
                     attached |-> 0, http_port |-> rpc[t].http_port])
    /\ rpc' = [rpc EXCEPT ![t] = Idle]
    /\ UNCHANGED <<http_ports, sessVars, resVars, subscriptions, serverVars, crossed>>

-----------------------------------------------------------------------------
(* Sessions. *)

\* Mutant: the session is not counted.
AttachSession_NotCounted(s) ==
    /\ next_session_id < MaxSessions
    /\ s \in DOMAIN nodes
    /\ NewSession(s)
    /\ UNCHANGED <<regVars, resVars, subscriptions, serverVars, rpc, crossed>>

\* OpenSession for a seed that has a Node: no FFI, so no second phase.
AttachSession(s) ==
    /\ next_session_id < MaxSessions
    /\ s \in DOMAIN nodes
    /\ nodes' = [nodes EXCEPT ![s].attached = @ + 1]
    /\ NewSession(s)
    /\ UNCHANGED <<pending_nodes, http_ports, resVars, subscriptions, serverVars,
                   rpc, crossed>>

SaturatingSub(n) == IF n > 0 THEN n - 1 ELSE 0

\* Mutant: the lifetime of the Node is not looked at.
NodeDestroyed_AnyLifetime(lifetime, remaining) == remaining = 0

NodeDestroyed(lifetime, remaining) == lifetime = "refcounted" /\ remaining = 0

\* close_session, called by the CloseSession handler and by the watchdogs.  The
\* INTERNAL error for a session without a Node is the guard that
\* SessionsHaveTheirNode shows never to fail.
CloseSession(t, h) ==
    /\ rpc[t].phase = "idle"
    /\ h \in DOMAIN sessions
    /\ sessions[h].node_seed \in DOMAIN nodes
    /\ LET s       == sessions[h].node_seed
           owned   == sessions[h].resources \cap DOMAIN resources
           remains == SaturatingSub(nodes[s].attached)
           destroy == NodeDestroyed(nodes[s].lifetime, remains)
       IN  /\ sessions' = Without(sessions, {h})
           /\ subscriptions' = Without(subscriptions, {h})
           /\ resources' = Without(resources, owned)
           /\ by_name' = Without(by_name, {<<resources[r].node_seed, resources[r].obj>> :
                                           r \in owned})
           /\ nodes' = IF destroy THEN Without(nodes, {s})
                                  ELSE [nodes EXCEPT ![s].attached = remains]
           /\ http_ports' = IF destroy THEN Without(http_ports, {nodes[s].http_port})
                                       ELSE http_ports
           /\ rpc' = [rpc EXCEPT ![t] = [phase |-> "remove",
                                         server |-> nodes[s].server,
                                         objs |-> {resources[r].obj : r \in owned}]]
    /\ UNCHANGED <<pending_nodes, next_session_id, next_resource_id, serverVars,
                   crossed>>

\* Mutant: attached sessions do not stop it.
RemoveNode_IgnoresSessions(t, s) ==
    /\ rpc[t].phase = "idle"
    /\ s \in DOMAIN nodes
    /\ nodes[s].lifetime = "persistent"
    /\ nodes' = Without(nodes, {s})
    /\ http_ports' = Without(http_ports, {nodes[s].http_port})
    /\ rpc' = [rpc EXCEPT ![t] = [phase |-> "remove", server |-> nodes[s].server,
                                  objs |-> {}]]
    /\ UNCHANGED <<pending_nodes, sessVars, resVars, subscriptions, serverVars,
                   crossed>>

\* remove_node: only a persistent Node with no session attached.
RemoveNode(t, s) ==
    /\ rpc[t].phase = "idle"
    /\ s \in DOMAIN nodes
    /\ nodes[s].lifetime = "persistent"
    /\ nodes[s].attached = 0
    /\ nodes' = Without(nodes, {s})
    /\ http_ports' = Without(http_ports, {nodes[s].http_port})
    /\ rpc' = [rpc EXCEPT ![t] = [phase |-> "remove", server |-> nodes[s].server,
                                  objs |-> {}]]
    /\ UNCHANGED <<pending_nodes, sessVars, resVars, subscriptions, serverVars,
                   crossed>>

-----------------------------------------------------------------------------
(* Activation streams, as far as they gate AddSender and AddReceiver. *)

HasActiveSubscription(h) == h \in DOMAIN subscriptions /\ subscriptions[h] = "live"

\* reap_closed_subscription
ReapClosed(h) ==
    IF h \in DOMAIN subscriptions /\ subscriptions[h] = "closed"
    THEN Without(subscriptions, {h}) ELSE subscriptions

SubscribeActivations(h) ==
    /\ h \in DOMAIN sessions
    /\ ~HasActiveSubscription(h)
    /\ subscriptions' = Put(subscriptions, h, "live")
    /\ UNCHANGED <<regVars, sessVars, resVars, serverVars, rpc, crossed>>

\* The client cancels the stream: its receiver is dropped, the slot stays.
StreamDropped(h) ==
    /\ HasActiveSubscription(h)
    /\ subscriptions' = [subscriptions EXCEPT ![h] = "closed"]
    /\ UNCHANGED <<regVars, sessVars, resVars, serverVars, rpc, crossed>>

\* The task that the dropped stream spawned, and an AddSender or AddReceiver
\* that is refused for want of a stream, both reap the slot.
OnSubscriptionStreamEnded(h) ==
    /\ h \in DOMAIN subscriptions
    /\ subscriptions[h] = "closed"
    /\ subscriptions' = ReapClosed(h)
    /\ UNCHANGED <<regVars, sessVars, resVars, serverVars, rpc, crossed>>

-----------------------------------------------------------------------------
(* Senders and Receivers. *)

PrepareAddResource(t, h, o) ==
    /\ rpc[t].phase = "idle"
    /\ next_resource_id < MaxResources
    /\ HasActiveSubscription(h)
    /\ h \in DOMAIN sessions
    /\ LET s == sessions[h].node_seed
       IN  /\ <<s, o>> \notin DOMAIN by_name
           /\ s \in DOMAIN nodes
           /\ rpc' = [rpc EXCEPT ![t] = [phase |-> "add", session |-> h, seed |-> s,
                                         obj |-> o, server |-> nodes[s].server]]
    /\ UNCHANGED <<regVars, sessVars, resVars, subscriptions, serverVars, crossed>>

\* Mutant: libnvnmos takes a second object of the same name.
InsertResource_TakesDuplicate(objects, o) == TRUE

\* insert_resource throws when the model already has the resource.
InsertResource(objects, o) == o \notin objects

\* AddResourcePrep::run_ffi.  libnvnmos refuses a name it already has; the
\* prepared Arc is dropped when run_ffi returns.
AddResourceFfi(t) ==
    /\ rpc[t].phase = "add"
    /\ LET i == rpc[t].server
           o == rpc[t].obj
       IN  /\ InsertResource(servers[i].objects, o)
           /\ servers' = ReleaseServer(t, i, AddToServer(servers, i, o))
           /\ rpc' = [rpc EXCEPT ![t] = [phase |-> "added", session |-> rpc[t].session,
                                         seed |-> rpc[t].seed, obj |-> o, server |-> i]]
    /\ UNCHANGED <<regVars, sessVars, resVars, subscriptions, next_server, crossed>>

\* libnvnmos refuses the transport file or finds the name taken.
AddResourceFfiFails(t) ==
    /\ rpc[t].phase = "add"
    /\ servers' = ReleaseServer(t, rpc[t].server, servers)
    /\ rpc' = [rpc EXCEPT ![t] = Idle]
    /\ UNCHANGED <<regVars, sessVars, resVars, subscriptions, next_server, crossed>>

\* libnvnmos read another name from the transport file than the daemon did:
\* lookup_id finds nothing, and the object stays as a stray.
AddResourceFfiStray(t) ==
    /\ rpc[t].phase = "add"
    /\ LET i == rpc[t].server
       IN  \E stray \in Objects \ (servers[i].objects \cup {rpc[t].obj}) :
             servers' = ReleaseServer(t, i, AddToServer(servers, i, stray))
    /\ rpc' = [rpc EXCEPT ![t] = Idle]
    /\ UNCHANGED <<regVars, sessVars, resVars, subscriptions, next_server, crossed>>

\* Mutant: commit does not look for the session again.
SessionStillOpen_NotChecked(h) == TRUE

SessionStillOpen(h) == h \in DOMAIN sessions

\* commit_add_resource, the session still open.
CommitAddResource(t) ==
    /\ rpc[t].phase = "added"
    /\ SessionStillOpen(rpc[t].session)
    /\ next_resource_id' = next_resource_id + 1
    /\ resources' = Put(resources, next_resource_id,
                        [node_seed |-> rpc[t].seed, session |-> rpc[t].session,
                         obj |-> rpc[t].obj])
    /\ by_name' = Put(by_name, <<rpc[t].seed, rpc[t].obj>>, next_resource_id)
    /\ sessions' = [sessions EXCEPT ![rpc[t].session].resources =
                                        @ \cup {next_resource_id}]
    /\ rpc' = [rpc EXCEPT ![t] = Idle]
    /\ UNCHANGED <<regVars, next_session_id, subscriptions, serverVars, crossed>>

\* commit_add_resource, the session closed meanwhile: a compensating remove
\* through whatever Node the seed has now, or nothing if it has none.
CommitAddResourceOrphaned(t) ==
    /\ rpc[t].phase = "added"
    /\ ~SessionStillOpen(rpc[t].session)
    /\ LET s == rpc[t].seed
       IN  IF s \in DOMAIN nodes
           THEN /\ rpc' = [rpc EXCEPT ![t] = [phase |-> "remove",
                                              server |-> nodes[s].server,
                                              objs |-> {rpc[t].obj}]]
                /\ crossed' = (crossed \/ nodes[s].server # rpc[t].server)
           ELSE /\ rpc' = [rpc EXCEPT ![t] = Idle]
                /\ UNCHANGED crossed
    /\ UNCHANGED <<regVars, sessVars, resVars, subscriptions, serverVars>>

RemoveResource(t, h, r) ==
    /\ rpc[t].phase = "idle"
    /\ h \in DOMAIN sessions
    /\ r \in sessions[h].resources
    /\ r \in DOMAIN resources
    /\ LET s == resources[r].node_seed
           o == resources[r].obj
       IN  /\ by_name' = Without(by_name, {<<s, o>>})
           /\ rpc' = IF s \in DOMAIN nodes
                     THEN [rpc EXCEPT ![t] = [phase |-> "remove",
                                              server |-> nodes[s].server,
                                              objs |-> {o}]]
                     ELSE rpc
    /\ resources' = Without(resources, {r})
    /\ sessions' = [sessions EXCEPT ![h].resources = @ \ {r}]
    /\ UNCHANGED <<regVars, next_session_id, next_resource_id, subscriptions,
                   serverVars, crossed>>

SyncResourceState(t, h, r) ==
    /\ rpc[t].phase = "idle"
    /\ h \in DOMAIN sessions
    /\ r \in sessions[h].resources
    /\ r \in DOMAIN resources
    /\ resources[r].node_seed \in DOMAIN nodes
    /\ rpc' = [rpc EXCEPT ![t] = [phase |-> "sync",
                                  server |-> nodes[resources[r].node_seed].server]]
    /\ UNCHANGED <<regVars, sessVars, resVars, subscriptions, serverVars, crossed>>

\* nmos_connection_activate touches one object's connection state, which this
\* module abstracts from; the Arc is dropped with the SyncResourceFfi.
SyncResourceFfi(t) ==
    /\ rpc[t].phase = "sync"
    /\ servers' = ReleaseServer(t, rpc[t].server, servers)
    /\ rpc' = [rpc EXCEPT ![t] = Idle]
    /\ UNCHANGED <<regVars, sessVars, resVars, subscriptions, next_server, crossed>>

-----------------------------------------------------------------------------
(* Deferred removals: CloseSessionFfi, RemoveResourceFfi, RemoveNodeFfi. *)

\* One remove_sender / remove_receiver; a failure is logged and ignored.
RemoveObjectFfi(t) ==
    /\ rpc[t].phase = "remove"
    /\ \E o \in rpc[t].objs :
         /\ servers' = RemoveFromServer(servers, rpc[t].server, o)
         /\ rpc' = [rpc EXCEPT ![t] = [phase |-> "remove", server |-> rpc[t].server,
                                       objs |-> rpc[t].objs \ {o}]]
    /\ UNCHANGED <<regVars, sessVars, resVars, subscriptions, next_server, crossed>>

DropServerFfi(t) ==
    /\ rpc[t].phase = "remove"
    /\ rpc[t].objs = {}
    /\ servers' = ReleaseServer(t, rpc[t].server, servers)
    /\ rpc' = [rpc EXCEPT ![t] = Idle]
    /\ UNCHANGED <<regVars, sessVars, resVars, subscriptions, next_server, crossed>>

-----------------------------------------------------------------------------
\* The rest of an RPC once it has begun: it runs in a spawned task that
\* outlives the client's connection (finish_ffi).
RpcStep(t) ==
    \/ CreateNodeFfi(t)
    \/ AbortPendingNode(t)
    \/ CommitOpenSession(t)
    \/ CommitAddNode(t)
    \/ AddResourceFfi(t)
    \/ AddResourceFfiFails(t)
    \/ AddResourceFfiStray(t)
    \/ CommitAddResource(t)
    \/ CommitAddResourceOrphaned(t)
    \/ SyncResourceFfi(t)
    \/ RemoveObjectFfi(t)
    \/ DropServerFfi(t)

\* What clients ask for.
ClientRequest ==
    \/ \E t \in Rpcs, s \in Seeds, p \in Ports : PrepareOpenSession(t, s, p)
    \/ \E t \in Rpcs, s \in Seeds, p \in Ports : PrepareAddNode(t, s, p)
    \/ \E t \in Rpcs, s \in Seeds : RemoveNode(t, s)
    \/ \E s \in Seeds : AttachSession(s)
    \/ \E t \in Rpcs, h \in DOMAIN sessions : CloseSession(t, h)
    \/ \E h \in DOMAIN sessions : SubscribeActivations(h)
    \/ \E h \in DOMAIN subscriptions : StreamDropped(h)
    \/ \E h \in DOMAIN subscriptions : OnSubscriptionStreamEnded(h)
    \/ \E t \in Rpcs, h \in DOMAIN sessions, o \in Objects : PrepareAddResource(t, h, o)
    \/ \E t \in Rpcs, h \in DOMAIN sessions, r \in DOMAIN resources :
          RemoveResource(t, h, r)
    \/ \E t \in Rpcs, h \in DOMAIN sessions, r \in DOMAIN resources :
          SyncResourceState(t, h, r)

Next == ClientRequest \/ \E t \in Rpcs : RpcStep(t)

Spec == Init /\ [][Next]_vars

\* A task that has begun runs to its end; clients owe nothing.
FairSpec == Spec /\ \A t \in Rpcs : WF_vars(RpcStep(t))

-----------------------------------------------------------------------------
(* Correctness. *)

SessionsOf(s) == {h \in DOMAIN sessions : sessions[h].node_seed = s}

\* The maps of State hold what the structs say, handles come from the counters,
\* and a handler in flight carries the fields of its phase.
TypeOK ==
    /\ DOMAIN nodes \subseteq Seeds
    /\ \A s \in DOMAIN nodes : nodes[s] \in NodeEntry
    /\ pending_nodes \subseteq Seeds
    /\ next_session_id \in Nat
    /\ DOMAIN sessions \subseteq 0 .. next_session_id - 1
    /\ \A h \in DOMAIN sessions : sessions[h] \in SessionEntry
    /\ next_resource_id \in Nat
    /\ DOMAIN resources \subseteq 0 .. next_resource_id - 1
    /\ \A r \in DOMAIN resources : resources[r] \in ResourceEntry
    /\ DOMAIN by_name \subseteq Key
    /\ \A k \in DOMAIN by_name : by_name[k] \in Nat
    /\ DOMAIN subscriptions \subseteq DOMAIN sessions
    /\ \A h \in DOMAIN subscriptions : subscriptions[h] \in {"live", "closed"}
    /\ DOMAIN http_ports \subseteq Ports
    /\ \A p \in DOMAIN http_ports : http_ports[p] \in Seeds
    /\ next_server \in Nat
    /\ DOMAIN servers \subseteq 0 .. next_server - 1
    /\ \A i \in DOMAIN servers : servers[i] \in Server
    /\ rpc \in [Rpcs -> Rpc]
    /\ crossed \in BOOLEAN

\* attached_sessions is exactly the number of open sessions on the Node, so the
\* saturating_sub of close_session never saturates, and a session-refcounted
\* Node is in the map exactly while it has a session.
RefcountExact ==
    \A s \in DOMAIN nodes :
        /\ nodes[s].attached = Cardinality(SessionsOf(s))
        /\ nodes[s].lifetime = "refcounted" => SessionsOf(s) # {}

\* The Node of an open session is in the map: the INTERNAL errors of
\* close_session, prepare_add_resource and sync_resource_state ("referenced
\* seed but no Node entry exists") are never returned.
SessionsHaveTheirNode ==
    \A h \in DOMAIN sessions : sessions[h].node_seed \in DOMAIN nodes

Creating(t) == rpc[t].phase \in {"create", "created"}

\* http_ports lists the port of every Node and of every create in flight, no
\* port twice and no port of nobody, and a seed has a Node, or one create in
\* flight, or neither: abort_pending_node, the commits, close_session and
\* remove_node give back what prepare reserved, and nothing else.
PortsAgree ==
    /\ \A s \in DOMAIN nodes :
          /\ nodes[s].http_port \in DOMAIN http_ports
          /\ http_ports[nodes[s].http_port] = s
    /\ \A p \in DOMAIN http_ports :
          \/ http_ports[p] \in DOMAIN nodes /\ nodes[http_ports[p]].http_port = p
          \/ \E t \in Rpcs : /\ Creating(t)
                            /\ rpc[t].seed = http_ports[p]
                            /\ rpc[t].http_port = p
    /\ \A t \in Rpcs : Creating(t) =>
          /\ rpc[t].seed \in pending_nodes
          /\ rpc[t].http_port \in DOMAIN http_ports
          /\ http_ports[rpc[t].http_port] = rpc[t].seed
    /\ \A s \in pending_nodes :
          /\ s \notin DOMAIN nodes
          /\ \E t \in Rpcs : Creating(t) /\ rpc[t].seed = s
    /\ \A t, u \in Rpcs : Creating(t) /\ Creating(u) /\ rpc[t].seed = rpc[u].seed => t = u

\* Nodes, sessions, counts, ports and the creates in flight are one bookkeeping:
\* a commit finds its seed without a Node (PortsAgree), hence without a session
\* (SessionsHaveTheirNode), so that the count it writes is right.
NodesInv == TypeOK /\ RefcountExact /\ SessionsHaveTheirNode /\ PortsAgree

\* No two NodeServers of the daemon ever share a port, though close_session and
\* remove_node give the port back before the listener closes, and the port a
\* create was promised is not one that a server of the daemon still listens on.
ListenersDisjoint ==
    /\ \A i, j \in DOMAIN servers : servers[i].http_port = servers[j].http_port => i = j
    /\ \A t \in Rpcs : rpc[t].phase = "create" =>
          \A i \in DOMAIN servers : servers[i].http_port # rpc[t].http_port

\* A NodeServer exists exactly while somebody holds its Arc: no handler calls
\* into a destroyed server, and no destroyed Node keeps its listener once the
\* handlers that used it are done.  The server of a Node is the one built for
\* its seed and port.
ServersHeld ==
    /\ \A s \in DOMAIN nodes :
          /\ nodes[s].server \in DOMAIN servers
          /\ servers[nodes[s].server].seed = s
          /\ servers[nodes[s].server].http_port = nodes[s].http_port
    /\ \A t \in Rpcs : rpc[t].phase \in {"created", "add", "remove", "sync"} =>
          rpc[t].server \in DOMAIN servers
    /\ \A i \in DOMAIN servers : NodeHolds(i) \/ \E t \in Rpcs : HoldsServer(t, i)

\* resources, by_name and the sets of the sessions are one relation in three
\* indexes.
OneRelation ==
    /\ \A r \in DOMAIN resources :
          /\ <<resources[r].node_seed, resources[r].obj>> \in DOMAIN by_name
          /\ by_name[<<resources[r].node_seed, resources[r].obj>>] = r
          /\ resources[r].session \in DOMAIN sessions
          /\ r \in sessions[resources[r].session].resources
          /\ resources[r].node_seed = sessions[resources[r].session].node_seed
    /\ \A k \in DOMAIN by_name :
          /\ by_name[k] \in DOMAIN resources
          /\ k = <<resources[by_name[k]].node_seed, resources[by_name[k]].obj>>
    /\ \A h \in DOMAIN sessions : \A r \in sessions[h].resources :
          r \in DOMAIN resources /\ resources[r].session = h

\* The three indexes stay in step.  Two AddSender RPCs for one name may both pass
\* the by_name check; that libnvnmos refuses the second keeps them so, as long as
\* no compensating remove was aimed at another Node.
IndexesAgree == ~crossed => OneRelation

\* Who answers for object o of server i: the resource entry that stands for it,
\* an add that has not committed, or a remove that has not run.
Claims(i, o) ==
    {<<"resource", r>> : r \in {q \in DOMAIN resources :
        /\ resources[q].obj = o
        /\ resources[q].node_seed \in DOMAIN nodes
        /\ nodes[resources[q].node_seed].server = i}}
    \cup {<<"added", t>> : t \in {u \in Rpcs :
        rpc[u].phase = "added" /\ rpc[u].server = i /\ rpc[u].obj = o}}
    \cup {<<"remove", t>> : t \in {u \in Rpcs :
        rpc[u].phase = "remove" /\ rpc[u].server = i /\ o \in rpc[u].objs}}

OneClaimant ==
    \A i \in DOMAIN servers, o \in Objects :
        /\ \A c, d \in Claims(i, o) : c = d
        /\ Claims(i, o) # {} => o \in servers[i].objects

\* Across prepare, FFI and commit of concurrent adds, removes and closes, an
\* object of libnvnmos has at most one claimant, and what is claimed is there:
\* no deferred remove takes away an object that another session registered.
\* It holds as long as no compensating remove was aimed at another Node.
ClaimsExclusive == ~crossed => OneClaimant

\* The Node under an open session is never taken away or replaced, whatever the
\* other sessions, AddNode and RemoveNode do.
NodeStaysUnderSession ==
    [][\A h \in DOMAIN sessions \cap DOMAIN sessions' :
          LET s == sessions[h].node_seed
          IN  /\ s \in DOMAIN nodes'
              /\ nodes'[s].server = nodes[s].server
              /\ nodes'[s].lifetime = nodes[s].lifetime]_vars

\* A NodeServer that no Node entry refers to is destroyed in the end, its
\* listener with it (close_session's comment: otherwise the HTTP listener is
\* stranded in LISTEN).
OrphanServerDestroyed ==
    \A i \in 0 .. MaxServers + Cardinality(Rpcs) :
        (i \in DOMAIN servers /\ ~NodeHolds(i))
            ~> (i \notin DOMAIN servers \/ NodeHolds(i))

-----------------------------------------------------------------------------
(* What the daemon promises about Nodes and sessions, without counters,     *)
(* phases or deferred work: NodeLifecycle.                                  *)

Lifecycle == INSTANCE NodeLifecycle WITH
    node     <- [s \in Seeds |-> IF s \in DOMAIN nodes THEN nodes[s].lifetime
                                                     ELSE "absent"],
    attached <- [s \in Seeds |-> SessionsOf(s)],
    issued   <- next_session_id

LifecycleSpec == Lifecycle!Spec
=============================================================================
