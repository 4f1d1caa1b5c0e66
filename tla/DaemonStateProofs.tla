------------------------- MODULE DaemonStateProofs -------------------------
(***************************************************************************)
(* Proofs about DaemonState, for every number of seeds, objects, ports and *)
(* handlers: its Nodes, sessions and ports; that it implements             *)
(* NodeLifecycle; its NodeServers (who holds their Arcs, when they are     *)
(* destroyed, which ports they listen on); its Senders and Receivers (the  *)
(* three indexes and the claims on the objects of libnvnmos).              *)
(***************************************************************************)
EXTENDS DaemonState, FiniteSetTheorems, TLAPS

-----------------------------------------------------------------------------
(* Types. *)

\* The phases of an RPC, one by one: what a handler carries in each.
LEMMA RpcFields ==
    ASSUME NEW x \in Rpc
    PROVE  /\ x.phase \in {"idle", "create", "created", "add", "added", "remove", "sync"}
           /\ x.phase \in {"create", "created"} =>
                x.seed \in Seeds /\ x.http_port \in Ports /\ x.lifetime \in Lifetime
           /\ x.phase \in {"add", "added"} =>
                x.session \in Nat /\ x.seed \in Seeds /\ x.obj \in Objects
           /\ x.phase \in {"created", "add", "added", "remove", "sync"} => x.server \in Nat
           /\ x.phase = "remove" => x.objs \subseteq Objects
  BY DEF Rpc

\* ReleaseServer keeps servers, all but at most the one released.
LEMMA ReleaseKeeps ==
    ASSUME NEW t, NEW i, NEW live
    PROVE  /\ DOMAIN ReleaseServer(t, i, live) \subseteq DOMAIN live
           /\ DOMAIN live \ {i} \subseteq DOMAIN ReleaseServer(t, i, live)
           /\ \A j \in DOMAIN ReleaseServer(t, i, live) :
                 ReleaseServer(t, i, live)[j] = live[j]
  BY DEF ReleaseServer, Without

\* So does adding an object to the model of one of them.
LEMMA InsertTyped ==
    ASSUME TypeOK, NEW t, NEW i, NEW o \in Objects,
           servers' = ReleaseServer(t, i, [servers EXCEPT ![i].objects = @ \cup {o}])
    PROVE  /\ DOMAIN servers' \subseteq 0 .. next_server - 1
           /\ \A j \in DOMAIN servers' : servers'[j] \in Server
<1> DEFINE live == [servers EXCEPT ![i].objects = @ \cup {o}]
<1>1. /\ DOMAIN live = DOMAIN servers
      /\ \A j \in DOMAIN live : live[j] \in Server
  BY DEF TypeOK, Server
<1> HIDE DEF live
<1>2. servers' = ReleaseServer(t, i, live)
  BY DEF live
<1>3. /\ DOMAIN servers' \subseteq DOMAIN live
      /\ \A j \in DOMAIN servers' : servers'[j] = live[j]
  BY <1>2 DEF ReleaseServer, Without
<1> QED BY <1>1, <1>3 DEF TypeOK

\* Every step keeps the maps well typed.
LEMMA TypeOKStep ==
    ASSUME TypeOK, [Next]_vars
    PROVE  TypeOK'
<1> USE DEF TypeOK
<1>1. ASSUME NEW t \in Rpcs, NEW s \in Seeds, NEW p \in Ports, NEW l \in Lifetime,
             PrepareCreate(t, s, p, l)
      PROVE  TypeOK'
  BY <1>1 DEF PrepareCreate, Put, Rpc, sessVars, resVars, serverVars
<1>2. ASSUME NEW t \in Rpcs, CreateNodeFfi(t)
      PROVE  TypeOK'
  <2>1. rpc[t] \in Rpc  OBVIOUS
  <2> QED BY <1>2, <2>1, RpcFields DEF NewServer, CreateNodeFfi, Put, Rpc, Server, regVars, sessVars, resVars
<1>3. ASSUME NEW t \in Rpcs, AbortPendingNode(t)
      PROVE  TypeOK'
  <2>1. rpc[t] \in Rpc  OBVIOUS
  <2> QED BY <1>3, <2>1, RpcFields DEF AbortPendingNode, Rpc, Without, regVars, sessVars, resVars, serverVars, Idle
<1>4. ASSUME NEW t \in Rpcs, CommitOpenSession(t)
      PROVE  TypeOK'
  <2>1. rpc[t] \in Rpc  OBVIOUS
  <2> QED BY <1>4, <2>1, RpcFields DEF CommitOpenSession, Rpc, Put, NewSession, NodeEntry, SessionEntry, Lifetime, resVars, serverVars, Idle
<1>5. ASSUME NEW t \in Rpcs, CommitAddNode(t)
      PROVE  TypeOK'
  <2>1. rpc[t] \in Rpc  OBVIOUS
  <2> QED BY <1>5, <2>1, RpcFields DEF CommitAddNode, Rpc, Put, NodeEntry, Lifetime, sessVars, resVars, serverVars, Idle
<1>6. ASSUME NEW t \in Rpcs, AddResourceFfi(t)
      PROVE  TypeOK'
  <2>1. rpc[t] \in Rpc  OBVIOUS
  <2>2. /\ DOMAIN servers' \subseteq 0 .. next_server - 1
        /\ \A j \in DOMAIN servers' : servers'[j] \in Server
    BY <1>6, <2>1, RpcFields, InsertTyped DEF AddToServer, AddResourceFfi
  <2> QED BY <1>6, <2>1, <2>2, RpcFields DEF AddToServer, AddResourceFfi, Rpc, regVars, sessVars, resVars
<1>7. ASSUME NEW t \in Rpcs, AddResourceFfiFails(t)
      PROVE  TypeOK'
  <2>1. rpc[t] \in Rpc  OBVIOUS
  <2> QED BY <1>7, <2>1, RpcFields, ReleaseKeeps DEF AddResourceFfiFails, Rpc, regVars, sessVars, resVars, Idle
<1>8. ASSUME NEW t \in Rpcs, AddResourceFfiStray(t)
      PROVE  TypeOK'
  <2>1. rpc[t] \in Rpc  OBVIOUS
  <2>2. /\ DOMAIN servers' \subseteq 0 .. next_server - 1
        /\ \A j \in DOMAIN servers' : servers'[j] \in Server
    <3>1. PICK stray \in Objects :
             servers' = ReleaseServer(t, rpc[t].server,
                            [servers EXCEPT ![rpc[t].server].objects = @ \cup {stray}])
      BY <1>8 DEF AddToServer, AddResourceFfiStray
    <3> QED BY <3>1, InsertTyped
  <2> QED BY <1>8, <2>1, <2>2 DEF AddToServer, AddResourceFfiStray, Rpc, regVars, sessVars, resVars, Idle
<1>9. ASSUME NEW t \in Rpcs, CommitAddResource(t)
      PROVE  TypeOK'
  <2>1. rpc[t] \in Rpc  OBVIOUS
  <2> QED BY <1>9, <2>1, RpcFields DEF CommitAddResource, Rpc, SessionStillOpen, Put, ResourceEntry, SessionEntry, Key, regVars, serverVars, Idle
<1>10. ASSUME NEW t \in Rpcs, CommitAddResourceOrphaned(t)
      PROVE  TypeOK'
  <2>1. rpc[t] \in Rpc  OBVIOUS
  <2>2. crossed' \in BOOLEAN
    BY <1>10, Zenon DEF CommitAddResourceOrphaned
  <2>3. rpc' \in [Rpcs -> Rpc]
    BY <1>10, <2>1, RpcFields DEF CommitAddResourceOrphaned, Rpc, NodeEntry, Idle
  <2> QED BY <1>10, <2>2, <2>3 DEF CommitAddResourceOrphaned, regVars, sessVars, resVars,
          serverVars
<1>11. ASSUME NEW t \in Rpcs, SyncResourceFfi(t)
      PROVE  TypeOK'
  <2>1. rpc[t] \in Rpc  OBVIOUS
  <2> QED BY <1>11, <2>1, RpcFields, ReleaseKeeps DEF SyncResourceFfi, Rpc, regVars, sessVars, resVars, Idle
<1>12. ASSUME NEW t \in Rpcs, RemoveObjectFfi(t)
      PROVE  TypeOK'
  <2>1. rpc[t] \in Rpc  OBVIOUS
  <2> QED BY <1>12, <2>1, RpcFields DEF RemoveFromServer, RemoveObjectFfi, Rpc, regVars, sessVars, resVars, Server
<1>13. ASSUME NEW t \in Rpcs, DropServerFfi(t)
      PROVE  TypeOK'
  <2>1. rpc[t] \in Rpc  OBVIOUS
  <2> QED BY <1>13, <2>1, RpcFields, ReleaseKeeps DEF DropServerFfi, Rpc, regVars, sessVars, resVars, Idle
<1>14. ASSUME NEW t \in Rpcs, NEW s \in Seeds,
              RemoveNode(t, s)
      PROVE  TypeOK'
  BY <1>14 DEF RemoveNode, Without, Rpc, NodeEntry, sessVars, resVars, serverVars
<1>15. ASSUME NEW s \in Seeds,
              AttachSession(s)
      PROVE  TypeOK'
  BY <1>15 DEF AttachSession, Put, NewSession, NodeEntry, SessionEntry, resVars, serverVars
<1>16. ASSUME NEW t \in Rpcs, NEW h \in DOMAIN sessions,
              CloseSession(t, h)
      PROVE  TypeOK'
  BY <1>16 DEF CloseSession, Without, SaturatingSub, Rpc, NodeEntry, ResourceEntry, serverVars
<1>17. ASSUME NEW h \in DOMAIN sessions,
              SubscribeActivations(h)
      PROVE  TypeOK'
  BY <1>17 DEF SubscribeActivations, Put, regVars, sessVars, resVars, serverVars
<1>18. ASSUME NEW h \in DOMAIN subscriptions,
              StreamDropped(h)
      PROVE  TypeOK'
  BY <1>18 DEF StreamDropped, regVars, sessVars, resVars, serverVars
<1>19. ASSUME NEW h \in DOMAIN subscriptions,
              OnSubscriptionStreamEnded(h)
      PROVE  TypeOK'
  BY <1>19 DEF OnSubscriptionStreamEnded, ReapClosed, Without, regVars, sessVars, resVars, serverVars
<1>20. ASSUME NEW t \in Rpcs, NEW h \in DOMAIN sessions, NEW o \in Objects,
              PrepareAddResource(t, h, o)
      PROVE  TypeOK'
  BY <1>20 DEF PrepareAddResource, Rpc, SessionEntry, NodeEntry, regVars, sessVars, resVars, serverVars
<1>21. ASSUME NEW t \in Rpcs, NEW h \in DOMAIN sessions, NEW r \in DOMAIN resources,
              RemoveResource(t, h, r)
      PROVE  TypeOK'
  BY <1>21 DEF RemoveResource, Without, Rpc, SessionEntry, ResourceEntry, NodeEntry, regVars, serverVars
<1>22. ASSUME NEW t \in Rpcs, NEW h \in DOMAIN sessions, NEW r \in DOMAIN resources,
              SyncResourceState(t, h, r)
      PROVE  TypeOK'
  BY <1>22 DEF SyncResourceState, Rpc, ResourceEntry, NodeEntry, regVars, sessVars, resVars, serverVars
<1>23. CASE UNCHANGED vars
  BY <1>23 DEF vars
<1> QED
  BY <1>1, <1>2, <1>3, <1>4, <1>5, <1>6, <1>7, <1>8, <1>9, <1>10, <1>11, <1>12, <1>13, <1>14, <1>15, <1>16, <1>17, <1>18, <1>19, <1>20, <1>21, <1>22, <1>23 DEF Next, ClientRequest, RpcStep,
     PrepareOpenSession, PrepareAddNode, Lifetime

\* State::new: empty maps and counters at zero have the types.
LEMMA TypeOKInit == Init => TypeOK
<1>1. Init => crossed \in BOOLEAN
  BY Zenon DEF Init
<1>2. Init => rpc \in [Rpcs -> Rpc]
  BY DEF Init, Idle, Rpc
<1> QED BY <1>1, <1>2 DEF Init, TypeOK, EmptyMap

\* In every reachable state the daemon's maps are well typed.
THEOREM TypeCorrect == Spec => []TypeOK
<1>1. Init => TypeOK
  BY TypeOKInit
<1>2. TypeOK /\ [Next]_vars => TypeOK'
  BY TypeOKStep
<1> QED BY <1>1, <1>2, PTL DEF Spec

-----------------------------------------------------------------------------
(* Nodes, sessions and ports. *)

\* The sessions of a Node can be counted.
LEMMA SessionsFinite ==
    ASSUME TypeOK, NEW s
    PROVE  IsFiniteSet(SessionsOf(s))
<1>1. IsFiniteSet(0 .. next_session_id - 1)
  BY FS_Interval DEF TypeOK
<1> QED BY <1>1, FS_Subset DEF TypeOK, SessionsOf

\* Steps that touch neither the Nodes, the sessions, the ports nor the creates.
LEMMA NodesInvFrame ==
    ASSUME NodesInv, TypeOK',
           UNCHANGED <<nodes, pending_nodes, http_ports>>,
           DOMAIN sessions' = DOMAIN sessions,
           \A h \in DOMAIN sessions : sessions'[h].node_seed = sessions[h].node_seed,
           \A t \in Rpcs : \/ rpc'[t] = rpc[t]
                           \/ ~Creating(t) /\ ~Creating(t)'
    PROVE  NodesInv'
<1>1. \A s : SessionsOf(s)' = SessionsOf(s)
  BY DEF SessionsOf
<1>2. RefcountExact'
  BY <1>1 DEF NodesInv, RefcountExact
<1>3. SessionsHaveTheirNode'
  BY DEF NodesInv, SessionsHaveTheirNode
<1>4. \A t \in Rpcs : /\ Creating(t)' <=> Creating(t)
                      /\ Creating(t) => rpc'[t] = rpc[t]
  BY DEF Creating
<1>5. PortsAgree'
  BY <1>4 DEF NodesInv, PortsAgree
<1> QED BY <1>2, <1>3, <1>5 DEF NodesInv

\* A new session makes the count of its Node one more.
LEMMA NewSessionCounts ==
    ASSUME TypeOK, NEW s \in Seeds, NewSession(s)
    PROVE  /\ DOMAIN sessions' = DOMAIN sessions \cup {next_session_id}
           /\ next_session_id \notin DOMAIN sessions
           /\ sessions'[next_session_id].node_seed = s
           /\ \A h \in DOMAIN sessions : sessions'[h] = sessions[h]
           /\ SessionsOf(s)' = SessionsOf(s) \cup {next_session_id}
           /\ Cardinality(SessionsOf(s)') = Cardinality(SessionsOf(s)) + 1
           /\ \A z : z # s => SessionsOf(z)' = SessionsOf(z)
<1>1. /\ DOMAIN sessions' = DOMAIN sessions \cup {next_session_id}
      /\ next_session_id \notin DOMAIN sessions
      /\ sessions'[next_session_id].node_seed = s
      /\ \A h \in DOMAIN sessions : sessions'[h] = sessions[h]
  BY DEF NewSession, Put, TypeOK
<1>2. /\ SessionsOf(s)' = SessionsOf(s) \cup {next_session_id}
      /\ \A z : z # s => SessionsOf(z)' = SessionsOf(z)
  BY <1>1 DEF SessionsOf
<1>3. next_session_id \notin SessionsOf(s)
  BY <1>1 DEF SessionsOf
<1>4. Cardinality(SessionsOf(s) \cup {next_session_id}) = Cardinality(SessionsOf(s)) + 1
  BY <1>3, SessionsFinite, FS_AddElement
<1> QED BY <1>1, <1>2, <1>4

\* Reserving a seed and a port.
LEMMA NodesPrepareCreate ==
    ASSUME NodesInv, TypeOK', NEW t \in Rpcs, NEW s \in Seeds, NEW p \in Ports,
           NEW l \in Lifetime, PrepareCreate(t, s, p, l)
    PROVE  NodesInv'
<1> USE DEF NodesInv
<1>1. \A z : SessionsOf(z)' = SessionsOf(z)
  BY DEF SessionsOf, PrepareCreate, sessVars
<1>2. RefcountExact' /\ SessionsHaveTheirNode'
  BY <1>1 DEF RefcountExact, SessionsHaveTheirNode, PrepareCreate, sessVars
<1>3. /\ \A u \in Rpcs \ {t} : rpc'[u] = rpc[u] /\ (Creating(u)' <=> Creating(u))
      /\ ~Creating(t) /\ Creating(t)' /\ rpc'[t].seed = s /\ rpc'[t].http_port = p
  BY DEF PrepareCreate, TypeOK, Creating
<1>4. /\ DOMAIN http_ports' = DOMAIN http_ports \cup {p}
      /\ p \notin DOMAIN http_ports
      /\ http_ports'[p] = s
      /\ \A q \in DOMAIN http_ports : http_ports'[q] = http_ports[q]
  BY DEF PrepareCreate, PortFree, Put
<1>5. /\ pending_nodes' = pending_nodes \cup {s} /\ s \notin pending_nodes
      /\ s \notin DOMAIN nodes /\ UNCHANGED nodes
  BY DEF PrepareCreate
<1>6. PortsAgree'
  BY <1>3, <1>4, <1>5 DEF PortsAgree
<1> QED BY <1>2, <1>6

\* Giving a reservation back.
LEMMA NodesAbort ==
    ASSUME NodesInv, TypeOK', NEW t \in Rpcs, AbortPendingNode(t)
    PROVE  NodesInv'
<1> USE DEF NodesInv
<1> DEFINE s == rpc[t].seed
           p == rpc[t].http_port
<1>1. \A z : SessionsOf(z)' = SessionsOf(z)
  BY DEF SessionsOf, AbortPendingNode, sessVars
<1>2. RefcountExact' /\ SessionsHaveTheirNode'
  BY <1>1 DEF RefcountExact, SessionsHaveTheirNode, AbortPendingNode, sessVars
<1>3. /\ \A u \in Rpcs \ {t} : rpc'[u] = rpc[u] /\ (Creating(u)' <=> Creating(u))
      /\ Creating(t) /\ ~Creating(t)'
  BY DEF AbortPendingNode, TypeOK, Creating, Idle
<1>4. s \in pending_nodes /\ p \in DOMAIN http_ports /\ http_ports[p] = s
  BY <1>3 DEF PortsAgree
<1>5. /\ DOMAIN http_ports' = DOMAIN http_ports \ {p}
      /\ \A q \in DOMAIN http_ports' : http_ports'[q] = http_ports[q]
      /\ pending_nodes' = pending_nodes \ {s} /\ UNCHANGED nodes
  BY <1>4 DEF AbortPendingNode, Without
<1> HIDE DEF s, p
<1>6. PortsAgree'
  BY <1>3, <1>4, <1>5 DEF PortsAgree, s, p
<1> QED BY <1>2, <1>6

\* A create that commits finds its seed reserved, without Node and sessions.
LEMMA NodesCommitFinds ==
    ASSUME NodesInv, NEW t \in Rpcs, Creating(t)
    PROVE  /\ rpc[t].seed \in Seeds
           /\ rpc[t].seed \in pending_nodes
           /\ rpc[t].seed \notin DOMAIN nodes
           /\ SessionsOf(rpc[t].seed) = {}
           /\ rpc[t].http_port \in DOMAIN http_ports
           /\ http_ports[rpc[t].http_port] = rpc[t].seed
<1>1. rpc[t].seed \in Seeds
  BY RpcFields DEF NodesInv, TypeOK, Creating
<1> QED BY <1>1 DEF NodesInv, PortsAgree, SessionsHaveTheirNode, SessionsOf

\* The ports after a commit of either kind.
LEMMA PortsCommit ==
    ASSUME NodesInv, TypeOK', NEW t \in Rpcs, Creating(t), NEW e,
           e.http_port = rpc[t].http_port,
           nodes' = Put(nodes, rpc[t].seed, e),
           pending_nodes' = pending_nodes \ {rpc[t].seed},
           rpc' = [rpc EXCEPT ![t] = Idle], UNCHANGED http_ports
    PROVE  PortsAgree'
<1> DEFINE s == rpc[t].seed
<1>1. /\ \A u \in Rpcs \ {t} : rpc'[u] = rpc[u] /\ (Creating(u)' <=> Creating(u))
      /\ ~Creating(t)'
  BY DEF NodesInv, TypeOK, Creating, Idle
<1>2. /\ DOMAIN nodes' = DOMAIN nodes \cup {s} /\ nodes'[s] = e
      /\ \A z \in DOMAIN nodes : z # s => nodes'[z] = nodes[z]
  BY DEF Put
<1>3. s \in pending_nodes /\ s \notin DOMAIN nodes /\ rpc[t].http_port \in DOMAIN http_ports
      /\ http_ports[rpc[t].http_port] = s
  BY NodesCommitFinds
<1> QED BY <1>1, <1>2, <1>3 DEF PortsAgree, NodesInv

\* commit_open_session: the Node and its first session appear together, with the
\* count 1, and the pending seed becomes the Node.
LEMMA NodesCommitOpenSession ==
    ASSUME NodesInv, TypeOK', NEW t \in Rpcs, CommitOpenSession(t)
    PROVE  NodesInv'
<1> USE DEF NodesInv
<1>1. Creating(t)
  BY DEF CommitOpenSession, Creating
<1>0. PICK s \in Seeds : s = rpc[t].seed
  BY <1>1, NodesCommitFinds
<1>2. s \notin DOMAIN nodes /\ SessionsOf(s) = {}
  BY <1>0, <1>1, NodesCommitFinds
<1>3. NewSession(s)
  BY <1>0 DEF CommitOpenSession
<1>4. /\ SessionsOf(s)' # {} /\ Cardinality(SessionsOf(s)') = 1
      /\ \A z : z # s => SessionsOf(z)' = SessionsOf(z)
  BY <1>2, <1>3, NewSessionCounts, FS_EmptySet
<1>5. /\ DOMAIN nodes' = DOMAIN nodes \cup {s}
      /\ nodes'[s].attached = 1
      /\ \A z \in DOMAIN nodes : z # s => nodes'[z] = nodes[z]
  BY <1>0 DEF CommitOpenSession, Put
<1>6. RefcountExact'
  BY <1>2, <1>4, <1>5 DEF RefcountExact
<1>7. SessionsHaveTheirNode'
  BY <1>2, <1>3, <1>5, NewSessionCounts DEF SessionsHaveTheirNode
<1>8. PortsAgree'
  BY <1>1, PortsCommit DEF CommitOpenSession
<1> QED BY <1>6, <1>7, <1>8

\* commit_add_node: a persistent Node starts with no session; sessions on its seed
\* would have needed a Node before.
LEMMA NodesCommitAddNode ==
    ASSUME NodesInv, TypeOK', NEW t \in Rpcs, CommitAddNode(t)
    PROVE  NodesInv'
<1> USE DEF NodesInv
<1> DEFINE s == rpc[t].seed
<1>1. Creating(t)
  BY DEF CommitAddNode, Creating
<1>2. s \in Seeds /\ s \notin DOMAIN nodes /\ SessionsOf(s) = {}
  BY <1>1, NodesCommitFinds
<1>3. \A z : SessionsOf(z)' = SessionsOf(z)
  BY DEF SessionsOf, CommitAddNode, sessVars
<1>4. /\ DOMAIN nodes' = DOMAIN nodes \cup {s}
      /\ nodes'[s].attached = 0 /\ nodes'[s].lifetime = "persistent"
      /\ \A z \in DOMAIN nodes : z # s => nodes'[z] = nodes[z]
  BY DEF CommitAddNode, Put
<1> HIDE DEF s
<1>5. RefcountExact'
  BY <1>2, <1>3, <1>4, FS_EmptySet DEF RefcountExact
<1>6. SessionsHaveTheirNode'
  BY <1>4 DEF SessionsHaveTheirNode, CommitAddNode, sessVars
<1>7. PortsAgree'
  BY <1>1, PortsCommit DEF CommitAddNode
<1> QED BY <1>5, <1>6, <1>7

\* OpenSession on an existing Node: one session and one more on its count.
LEMMA NodesAttachSession ==
    ASSUME NodesInv, TypeOK', NEW s \in Seeds, AttachSession(s)
    PROVE  NodesInv'
<1> USE DEF NodesInv
<1>1. NewSession(s) /\ s \in DOMAIN nodes
  BY DEF AttachSession
<1>2. /\ SessionsOf(s)' # {}
      /\ Cardinality(SessionsOf(s)') = Cardinality(SessionsOf(s)) + 1
      /\ \A z : z # s => SessionsOf(z)' = SessionsOf(z)
  BY <1>1, NewSessionCounts
<1>3. /\ DOMAIN nodes' = DOMAIN nodes
      /\ nodes'[s].attached = nodes[s].attached + 1
      /\ \A z \in DOMAIN nodes : z # s => nodes'[z] = nodes[z]
      /\ \A z \in DOMAIN nodes : nodes'[z].http_port = nodes[z].http_port
  BY DEF AttachSession, TypeOK, NodeEntry
<1>4. RefcountExact'
  BY <1>1, <1>2, <1>3 DEF RefcountExact
<1>5. SessionsHaveTheirNode'
  BY <1>1, <1>3, NewSessionCounts DEF SessionsHaveTheirNode
<1>6. PortsAgree'
  BY <1>3 DEF PortsAgree, AttachSession, Creating
<1> QED BY <1>4, <1>5, <1>6

\* Taking a Node and its port out of the maps.
LEMMA PortsNodeGone ==
    ASSUME NodesInv, NEW s \in DOMAIN nodes,
           nodes' = Without(nodes, {s}),
           http_ports' = Without(http_ports, {nodes[s].http_port}),
           UNCHANGED pending_nodes,
           \A t \in Rpcs : \/ rpc'[t] = rpc[t]
                           \/ ~Creating(t) /\ ~Creating(t)'
    PROVE  PortsAgree'
<1> USE DEF NodesInv
<1>1. \A t \in Rpcs : /\ Creating(t)' <=> Creating(t)
                      /\ Creating(t) => rpc'[t] = rpc[t]
  BY DEF Creating
<1>2. /\ DOMAIN nodes' = DOMAIN nodes \ {s}
      /\ \A z \in DOMAIN nodes' : nodes'[z] = nodes[z]
      /\ DOMAIN http_ports' = DOMAIN http_ports \ {nodes[s].http_port}
      /\ \A q \in DOMAIN http_ports' : http_ports'[q] = http_ports[q]
  BY DEF Without
<1>3. http_ports[nodes[s].http_port] = s /\ s \notin pending_nodes
  BY DEF PortsAgree
<1>4. \A z \in DOMAIN nodes' : /\ nodes'[z].http_port \in DOMAIN http_ports'
                               /\ http_ports'[nodes'[z].http_port] = z
  <2> TAKE z \in DOMAIN nodes'
  <2>1. z \in DOMAIN nodes /\ z # s /\ nodes'[z] = nodes[z]
    BY <1>2
  <2>2. nodes[z].http_port \in DOMAIN http_ports /\ http_ports[nodes[z].http_port] = z
    BY <2>1 DEF PortsAgree
  <2>3. nodes[z].http_port # nodes[s].http_port
    BY <2>1, <2>2, <1>3
  <2> QED BY <1>2, <2>1, <2>2, <2>3
<1>5. \A p \in DOMAIN http_ports' :
         \/ http_ports'[p] \in DOMAIN nodes' /\ nodes'[http_ports'[p]].http_port = p
         \/ \E t \in Rpcs : /\ Creating(t)'
                           /\ rpc'[t].seed = http_ports'[p]
                           /\ rpc'[t].http_port = p
  <2> TAKE p \in DOMAIN http_ports'
  <2>1. p \in DOMAIN http_ports /\ p # nodes[s].http_port /\ http_ports'[p] = http_ports[p]
    BY <1>2
  <2>2. CASE http_ports[p] \in DOMAIN nodes /\ nodes[http_ports[p]].http_port = p
    BY <1>2, <2>1, <2>2
  <2>3. CASE \E t \in Rpcs : Creating(t) /\ rpc[t].seed = http_ports[p]
                             /\ rpc[t].http_port = p
    BY <1>1, <2>1, <2>3
  <2> QED BY <2>1, <2>2, <2>3 DEF PortsAgree
<1>6. \A t \in Rpcs : Creating(t)' =>
         /\ rpc'[t].seed \in pending_nodes'
         /\ rpc'[t].http_port \in DOMAIN http_ports'
         /\ http_ports'[rpc'[t].http_port] = rpc'[t].seed
  <2> SUFFICES ASSUME NEW t \in Rpcs, Creating(t)'
               PROVE  /\ rpc'[t].seed \in pending_nodes'
                      /\ rpc'[t].http_port \in DOMAIN http_ports'
                      /\ http_ports'[rpc'[t].http_port] = rpc'[t].seed
    OBVIOUS
  <2>1. Creating(t) /\ rpc'[t] = rpc[t]
    BY <1>1
  <2>2. /\ rpc[t].seed \in pending_nodes /\ rpc[t].http_port \in DOMAIN http_ports
        /\ http_ports[rpc[t].http_port] = rpc[t].seed
    BY <2>1 DEF PortsAgree
  <2>3. rpc[t].http_port # nodes[s].http_port
    BY <2>2, <1>3
  <2> QED BY <1>2, <2>1, <2>2, <2>3
<1>7. /\ \A z \in pending_nodes' :
            z \notin DOMAIN nodes' /\ \E t \in Rpcs : Creating(t)' /\ rpc'[t].seed = z
      /\ \A t, u \in Rpcs : Creating(t)' /\ Creating(u)' /\ rpc'[t].seed = rpc'[u].seed
                             => t = u
  BY <1>1, <1>2 DEF PortsAgree
<1> QED BY <1>4, <1>5, <1>6, <1>7 DEF PortsAgree

\* remove_node: a count of zero means that no session is left without its Node.
LEMMA NodesRemoveNode ==
    ASSUME NodesInv, TypeOK', NEW t \in Rpcs, NEW s \in Seeds, RemoveNode(t, s)
    PROVE  NodesInv'
<1> USE DEF NodesInv
<1>1. \A z : SessionsOf(z)' = SessionsOf(z)
  BY DEF SessionsOf, RemoveNode, sessVars
<1>2. /\ DOMAIN nodes' = DOMAIN nodes \ {s} /\ s \in DOMAIN nodes
      /\ \A z \in DOMAIN nodes' : nodes'[z] = nodes[z]
  BY DEF RemoveNode, Without
<1>3. SessionsOf(s) = {}
  BY SessionsFinite, FS_EmptySet DEF RemoveNode, RefcountExact
<1>4. RefcountExact'
  BY <1>1, <1>2 DEF RefcountExact
<1>5. SessionsHaveTheirNode'
  BY <1>2, <1>3 DEF SessionsHaveTheirNode, SessionsOf, RemoveNode, sessVars
<1>6. \A u \in Rpcs : rpc'[u] = rpc[u] \/ (~Creating(u) /\ ~Creating(u)')
  BY DEF RemoveNode, TypeOK, Creating
<1>7. PortsAgree'
  BY <1>2, <1>6, PortsNodeGone DEF RemoveNode
<1> QED BY <1>4, <1>5, <1>7

\* close_session: the count follows the session out, and at zero takes a
\* session-refcounted Node and its port with it.
LEMMA NodesCloseSession ==
    ASSUME NodesInv, TypeOK', NEW t \in Rpcs, NEW h \in DOMAIN sessions,
           CloseSession(t, h)
    PROVE  NodesInv'
<1> USE DEF NodesInv
<1>0. PICK s \in Seeds : s = sessions[h].node_seed
  BY DEF TypeOK, SessionEntry
<1>1. s \in DOMAIN nodes /\ h \in SessionsOf(s)
  BY <1>0 DEF SessionsHaveTheirNode, SessionsOf
<1>2. /\ DOMAIN sessions' = DOMAIN sessions \ {h}
      /\ \A k \in DOMAIN sessions' : sessions'[k] = sessions[k]
  BY DEF CloseSession, Without
<1>3. /\ SessionsOf(s)' = SessionsOf(s) \ {h}
      /\ \A z : z # s => SessionsOf(z)' = SessionsOf(z)
  BY <1>0, <1>2 DEF SessionsOf
<1>4. /\ Cardinality(SessionsOf(s)) \in Nat
      /\ Cardinality(SessionsOf(s)) > 0
      /\ Cardinality(SessionsOf(s)') = Cardinality(SessionsOf(s)) - 1
  <2>1. IsFiniteSet(SessionsOf(s)) /\ Cardinality(SessionsOf(s)) \in Nat
    BY SessionsFinite, FS_CardinalityType
  <2>2. Cardinality(SessionsOf(s)) # 0
    BY <1>1, <2>1, FS_EmptySet
  <2>3. Cardinality(SessionsOf(s) \ {h}) = Cardinality(SessionsOf(s)) - 1
    BY <1>1, <2>1, FS_RemoveElement
  <2> QED BY <1>3, <2>1, <2>2, <2>3
<1>5. /\ nodes[s].attached = Cardinality(SessionsOf(s))
      /\ SaturatingSub(nodes[s].attached) = Cardinality(SessionsOf(s)')
  BY <1>1, <1>4 DEF RefcountExact, SaturatingSub
<1>6. \A u \in Rpcs : rpc'[u] = rpc[u] \/ (~Creating(u) /\ ~Creating(u)')
  BY DEF CloseSession, TypeOK, Creating
<1> DEFINE gone == NodeDestroyed(nodes[s].lifetime, SaturatingSub(nodes[s].attached))
<1>7. CASE gone
  <2>1. SessionsOf(s)' = {}
    BY <1>5, <1>7, <1>3, SessionsFinite, FS_EmptySet, FS_RemoveElement DEF NodeDestroyed
  <2>2. /\ nodes' = Without(nodes, {s})
        /\ http_ports' = Without(http_ports, {nodes[s].http_port})
        /\ UNCHANGED pending_nodes
    BY <1>0, <1>7 DEF CloseSession
  <2>3. /\ DOMAIN nodes' = DOMAIN nodes \ {s}
        /\ \A z \in DOMAIN nodes' : nodes'[z] = nodes[z]
    BY <2>2 DEF Without
  <2>4. RefcountExact'
    BY <1>3, <2>3 DEF RefcountExact
  <2>5. SessionsHaveTheirNode'
    BY <1>2, <2>1, <2>3 DEF SessionsHaveTheirNode, SessionsOf
  <2>6. PortsAgree'
    BY <1>1, <1>6, <2>2, PortsNodeGone
  <2> QED BY <2>4, <2>5, <2>6
<1>8. CASE ~gone
  <2>1. /\ nodes' = [nodes EXCEPT ![s].attached = SaturatingSub(nodes[s].attached)]
        /\ UNCHANGED <<pending_nodes, http_ports>>
    BY <1>0, <1>8 DEF CloseSession
  <2>2. /\ DOMAIN nodes' = DOMAIN nodes
        /\ nodes'[s].attached = SaturatingSub(nodes[s].attached)
        /\ \A z \in DOMAIN nodes : z # s => nodes'[z] = nodes[z]
        /\ \A z \in DOMAIN nodes : /\ nodes'[z].http_port = nodes[z].http_port
                                   /\ nodes'[z].lifetime = nodes[z].lifetime
    BY <1>1, <2>1 DEF TypeOK, NodeEntry
  <2>3. nodes[s].lifetime = "refcounted" => SessionsOf(s)' # {}
    BY <1>5, <1>8, FS_EmptySet DEF NodeDestroyed
  <2>4. RefcountExact'
    BY <1>3, <1>5, <2>2, <2>3 DEF RefcountExact
  <2>5. SessionsHaveTheirNode'
    BY <1>2, <2>2 DEF SessionsHaveTheirNode
  <2>6. \A u \in Rpcs : /\ Creating(u)' <=> Creating(u)
                        /\ Creating(u) => rpc'[u] = rpc[u]
    BY <1>6 DEF Creating
  <2>7. PortsAgree'
    BY <2>1, <2>2, <2>6 DEF PortsAgree
  <2> QED BY <2>4, <2>5, <2>7
<1> QED BY <1>7, <1>8

\* The steps that leave Nodes, sessions and ports alone, but for the resources
\* a session owns.
LEMMA NodesOthers ==
    ASSUME NodesInv, TypeOK', NEW t \in Rpcs,
           \/ AddResourceFfi(t) \/ AddResourceFfiFails(t) \/ AddResourceFfiStray(t)
           \/ CommitAddResource(t) \/ CommitAddResourceOrphaned(t)
           \/ SyncResourceFfi(t) \/ RemoveObjectFfi(t) \/ DropServerFfi(t)
           \/ \E h \in DOMAIN sessions, o \in Objects : PrepareAddResource(t, h, o)
           \/ \E h \in DOMAIN sessions, r \in DOMAIN resources :
                 RemoveResource(t, h, r) \/ SyncResourceState(t, h, r)
    PROVE  NodesInv'
<1> DEFINE Keeps == /\ UNCHANGED <<nodes, pending_nodes, http_ports>>
                    /\ DOMAIN sessions' = DOMAIN sessions
                    /\ \A h \in DOMAIN sessions :
                          sessions'[h].node_seed = sessions[h].node_seed
                    /\ ~Creating(t) /\ ~Creating(t)'
                    /\ \A u \in Rpcs \ {t} : rpc'[u] = rpc[u]
<1> USE DEF NodesInv, TypeOK, Creating, regVars, sessVars
<1>1. ASSUME AddResourceFfi(t) \/ AddResourceFfiFails(t) \/ AddResourceFfiStray(t)
      PROVE  Keeps
  <2>1. CASE AddResourceFfi(t)
    BY <2>1 DEF AddToServer, AddResourceFfi
  <2>2. CASE AddResourceFfiFails(t)
    BY <2>2 DEF AddResourceFfiFails, Idle
  <2>3. CASE AddResourceFfiStray(t)
    BY <2>3 DEF AddToServer, AddResourceFfiStray, Idle
  <2> QED BY <1>1, <2>1, <2>2, <2>3
<1>2. ASSUME CommitAddResource(t) PROVE Keeps
  BY <1>2 DEF CommitAddResource, SessionEntry, Idle
<1>3. ASSUME CommitAddResourceOrphaned(t) PROVE Keeps
  BY <1>3 DEF CommitAddResourceOrphaned, Idle
<1>4. ASSUME SyncResourceFfi(t) PROVE Keeps
  BY <1>4 DEF SyncResourceFfi, Idle
<1>5. ASSUME RemoveObjectFfi(t) PROVE Keeps
  BY <1>5 DEF RemoveFromServer, RemoveObjectFfi
<1>6. ASSUME DropServerFfi(t) PROVE Keeps
  BY <1>6 DEF DropServerFfi, Idle
<1>7. ASSUME NEW h \in DOMAIN sessions, NEW o \in Objects, PrepareAddResource(t, h, o)
      PROVE  Keeps
  BY <1>7 DEF PrepareAddResource
<1>8. ASSUME NEW h \in DOMAIN sessions, NEW r \in DOMAIN resources, RemoveResource(t, h, r)
      PROVE  Keeps
  BY <1>8 DEF RemoveResource, SessionEntry
<1>9. ASSUME NEW h \in DOMAIN sessions, NEW r \in DOMAIN resources,
             SyncResourceState(t, h, r)
      PROVE  Keeps
  BY <1>9 DEF SyncResourceState
<1>10. Keeps
  BY <1>1, <1>2, <1>3, <1>4, <1>5, <1>6, <1>7, <1>8, <1>9
<1> QED BY <1>10, NodesInvFrame

\* Building the server changes what a create carries, not what it reserved.
LEMMA NodesCreateNodeFfi ==
    ASSUME NodesInv, TypeOK', NEW t \in Rpcs, CreateNodeFfi(t)
    PROVE  NodesInv'
<1> USE DEF NodesInv
<1>1. UNCHANGED <<nodes, pending_nodes, http_ports, sessions>>
  BY DEF NewServer, CreateNodeFfi, regVars, sessVars
<1>2. \A s : SessionsOf(s)' = SessionsOf(s)
  BY <1>1 DEF SessionsOf
<1>3. \A u \in Rpcs : /\ Creating(u)' <=> Creating(u)
                      /\ Creating(u) => /\ rpc'[u].seed = rpc[u].seed
                                        /\ rpc'[u].http_port = rpc[u].http_port
  BY DEF NewServer, CreateNodeFfi, Creating, TypeOK
<1>4. RefcountExact' /\ SessionsHaveTheirNode'
  BY <1>1, <1>2 DEF RefcountExact, SessionsHaveTheirNode
<1>5. PortsAgree'
  BY <1>1, <1>3 DEF PortsAgree
<1> QED BY <1>4, <1>5

\* Every step of the daemon keeps the invariant, action by action.
LEMMA NodesInvStep ==
    ASSUME NodesInv, [Next]_vars
    PROVE  NodesInv'
<1>1. TypeOK'
  BY TypeOKStep DEF NodesInv
<1>2. CASE \E t \in Rpcs : RpcStep(t)
  BY <1>1, <1>2, NodesCreateNodeFfi, NodesAbort, NodesCommitOpenSession,
     NodesCommitAddNode, NodesOthers DEF RpcStep
<1>3. CASE ClientRequest
  <2>1. CASE \E t \in Rpcs, s \in Seeds, p \in Ports :
               PrepareOpenSession(t, s, p) \/ PrepareAddNode(t, s, p)
    BY <1>1, <2>1, NodesPrepareCreate DEF PrepareOpenSession, PrepareAddNode, Lifetime
  <2>2. CASE \/ \E t \in Rpcs, s \in Seeds : RemoveNode(t, s)
             \/ \E s \in Seeds : AttachSession(s)
             \/ \E t \in Rpcs, h \in DOMAIN sessions : CloseSession(t, h)
    BY <1>1, <2>2, NodesRemoveNode, NodesAttachSession, NodesCloseSession
  <2>3. CASE \E h \in DOMAIN sessions \cup DOMAIN subscriptions :
               \/ SubscribeActivations(h) \/ StreamDropped(h)
               \/ OnSubscriptionStreamEnded(h)
    BY <1>1, <2>3, NodesInvFrame DEF SubscribeActivations, StreamDropped,
       OnSubscriptionStreamEnded, regVars, sessVars
  <2>4. CASE \E t \in Rpcs, h \in DOMAIN sessions :
               \/ \E o \in Objects : PrepareAddResource(t, h, o)
               \/ \E r \in DOMAIN resources :
                     RemoveResource(t, h, r) \/ SyncResourceState(t, h, r)
    BY <1>1, <2>4, NodesOthers
  <2> QED BY <1>3, <2>1, <2>2, <2>3, <2>4 DEF ClientRequest
<1>4. CASE UNCHANGED vars
  BY <1>1, <1>4, NodesInvFrame DEF vars
<1> QED BY <1>2, <1>3, <1>4 DEF Next

\* State::new satisfies the invariant.
LEMMA NodesInvInit == Init => NodesInv
<1> SUFFICES ASSUME Init PROVE NodesInv
  OBVIOUS
<1>1. TypeOK
  BY TypeOKInit
<1>2. RefcountExact /\ SessionsHaveTheirNode
  BY DEF Init, EmptyMap, RefcountExact, SessionsHaveTheirNode
<1>3. PortsAgree
  BY DEF Init, EmptyMap, PortsAgree, Creating, Idle
<1> QED BY <1>1, <1>2, <1>3 DEF NodesInv

\* The invariant holds throughout.
THEOREM NodesInvariant == Spec => []NodesInv
<1>1. NodesInv /\ [Next]_vars => NodesInv'
  BY NodesInvStep
<1> QED BY <1>1, NodesInvInit, PTL DEF Spec

\* The count a NodeEntry keeps is the number of its sessions, in every
\* interleaving of OpenSession, CloseSession, AddNode and RemoveNode.
THEOREM RefcountCorrect == Spec => []RefcountExact
<1>1. NodesInv => RefcountExact
  BY DEF NodesInv
<1> QED BY <1>1, NodesInvariant, PTL

\* No session ever loses its Node.
THEOREM SessionsKeepNode == Spec => []SessionsHaveTheirNode
<1>1. NodesInv => SessionsHaveTheirNode
  BY DEF NodesInv
<1> QED BY <1>1, NodesInvariant, PTL

\* Ports and seeds are reserved once and given back once.
THEOREM PortsCorrect == Spec => []PortsAgree
<1>1. NodesInv => PortsAgree
  BY DEF NodesInv
<1> QED BY <1>1, NodesInvariant, PTL

-----------------------------------------------------------------------------
(* The Node under a session. *)

\* Node z is there before and after the step, and is the same Node.
NodeKept(z) ==
    /\ z \in DOMAIN nodes
    /\ z \in DOMAIN nodes'
    /\ nodes'[z].server = nodes[z].server
    /\ nodes'[z].lifetime = nodes[z].lifetime

\* close_session takes a Node away only when the session it closes is the last
\* one on it.
LEMMA KeptCloseSession ==
    ASSUME NodesInv, NEW t \in Rpcs, NEW h \in DOMAIN sessions, CloseSession(t, h),
           NEW k \in DOMAIN sessions \cap DOMAIN sessions'
    PROVE  NodeKept(sessions[k].node_seed)
<1> USE DEF NodesInv
<1>0. PICK s \in Seeds : s = sessions[h].node_seed
  BY DEF TypeOK, SessionEntry
<1>1. k # h /\ s \in DOMAIN nodes
  BY <1>0 DEF CloseSession, Without, SessionsHaveTheirNode
<1>2. sessions[k].node_seed \in DOMAIN nodes
  BY DEF SessionsHaveTheirNode
<1>3. CASE sessions[k].node_seed # s
  <2>1. \A z \in DOMAIN nodes : z # s => z \in DOMAIN nodes' /\ nodes'[z] = nodes[z]
    BY <1>0 DEF CloseSession, Without
  <2> QED BY <1>2, <1>3, <2>1 DEF NodeKept
<1>4. CASE sessions[k].node_seed = s
  <2>1. SessionsOf(s) # {} /\ SessionsOf(s) # {h}
    BY <1>1, <1>4 DEF SessionsOf
  <2>2. h \in SessionsOf(s) /\ k \in SessionsOf(s) \ {h}
    BY <1>0, <1>1, <1>4 DEF SessionsOf
  <2>3. /\ IsFiniteSet(SessionsOf(s)) /\ Cardinality(SessionsOf(s)) \in Nat
        /\ Cardinality(SessionsOf(s) \ {h}) = Cardinality(SessionsOf(s)) - 1
        /\ IsFiniteSet(SessionsOf(s) \ {h})
    BY <2>2, SessionsFinite, FS_CardinalityType, FS_RemoveElement
  <2>4. Cardinality(SessionsOf(s) \ {h}) # 0 /\ Cardinality(SessionsOf(s) \ {h}) \in Nat
    BY <2>2, <2>3, FS_EmptySet, FS_CardinalityType
  <2>5. nodes[s].attached = Cardinality(SessionsOf(s))
    BY <1>1 DEF RefcountExact
  <2>6. ~NodeDestroyed(nodes[s].lifetime, SaturatingSub(nodes[s].attached))
    BY <2>3, <2>4, <2>5 DEF NodeDestroyed, SaturatingSub
  <2>7. nodes' = [nodes EXCEPT ![s].attached = SaturatingSub(nodes[s].attached)]
    BY <1>0, <2>6 DEF CloseSession
  <2>8. nodes[s] \in NodeEntry
    BY <1>1 DEF TypeOK
  <2> QED BY <1>1, <1>4, <2>7, <2>8 DEF NodeKept, NodeEntry
<1> QED BY <1>3, <1>4

\* remove_node finds no session on the Node it removes.
LEMMA KeptRemoveNode ==
    ASSUME NodesInv, NEW t \in Rpcs, NEW s \in Seeds, RemoveNode(t, s),
           NEW k \in DOMAIN sessions \cap DOMAIN sessions'
    PROVE  NodeKept(sessions[k].node_seed)
<1> USE DEF NodesInv
<1>1. SessionsOf(s) = {}
  BY SessionsFinite, FS_EmptySet DEF RemoveNode, RefcountExact
<1>2. sessions[k].node_seed \in DOMAIN nodes \ {s}
  BY <1>1 DEF SessionsHaveTheirNode, SessionsOf
<1> QED BY <1>2 DEF NodeKept, RemoveNode, Without

\* No step takes away or replaces the Node of a session that stays open.
LEMMA NodeKeptStep ==
    ASSUME NodesInv, [Next]_vars, NEW k \in DOMAIN sessions \cap DOMAIN sessions'
    PROVE  NodeKept(sessions[k].node_seed)
<1> USE DEF NodesInv
<1>0. sessions[k].node_seed \in DOMAIN nodes
  BY DEF SessionsHaveTheirNode
<1>1. ASSUME UNCHANGED nodes PROVE NodeKept(sessions[k].node_seed)
  BY <1>0, <1>1 DEF NodeKept
<1>2. CASE \E t \in Rpcs : CommitOpenSession(t) \/ CommitAddNode(t)
  <2>1. PICK t \in Rpcs : CommitOpenSession(t) \/ CommitAddNode(t)
    BY <1>2
  <2>2. rpc[t].seed \notin DOMAIN nodes
    BY <2>1 DEF PortsAgree, Creating, CommitOpenSession, CommitAddNode
  <2>3. \A z \in DOMAIN nodes : z \in DOMAIN nodes' /\ nodes'[z] = nodes[z]
    BY <2>1, <2>2 DEF CommitOpenSession, CommitAddNode, Put
  <2> QED BY <1>0, <2>3 DEF NodeKept
<1>3. CASE \E s \in Seeds : AttachSession(s)
  <2>1. PICK s \in Seeds : AttachSession(s)
    BY <1>3
  <2>2. \A z \in DOMAIN nodes : nodes[z] \in NodeEntry
    BY DEF TypeOK
  <2> QED BY <1>0, <2>1, <2>2 DEF NodeKept, AttachSession, NodeEntry
<1>4. CASE \E t \in Rpcs, s \in Seeds : RemoveNode(t, s)
  BY <1>4, KeptRemoveNode
<1>5. CASE \E t \in Rpcs, h \in DOMAIN sessions : CloseSession(t, h)
  BY <1>5, KeptCloseSession
<1>6. CASE \E t \in Rpcs : RpcStep(t) /\ ~CommitOpenSession(t) /\ ~CommitAddNode(t)
  BY <1>1, <1>6 DEF NewServer, AddToServer, RemoveFromServer, RpcStep, CreateNodeFfi, AbortPendingNode, AddResourceFfi,
     AddResourceFfiFails, AddResourceFfiStray, CommitAddResource,
     CommitAddResourceOrphaned, SyncResourceFfi, RemoveObjectFfi, DropServerFfi, regVars
<1>7. CASE \E t \in Rpcs, s \in Seeds, p \in Ports :
             PrepareOpenSession(t, s, p) \/ PrepareAddNode(t, s, p)
  BY <1>1, <1>7 DEF PrepareOpenSession, PrepareAddNode, PrepareCreate
<1>8. CASE \E h \in DOMAIN sessions \cup DOMAIN subscriptions :
             SubscribeActivations(h) \/ StreamDropped(h) \/ OnSubscriptionStreamEnded(h)
  BY <1>1, <1>8 DEF SubscribeActivations, StreamDropped, OnSubscriptionStreamEnded, regVars
<1>9. CASE \E t \in Rpcs, h \in DOMAIN sessions :
             \/ \E o \in Objects : PrepareAddResource(t, h, o)
             \/ \E r \in DOMAIN resources :
                   RemoveResource(t, h, r) \/ SyncResourceState(t, h, r)
  BY <1>1, <1>9 DEF PrepareAddResource, RemoveResource, SyncResourceState, regVars
<1>10. CASE UNCHANGED vars
  BY <1>1, <1>10 DEF vars
<1> QED BY <1>2, <1>3, <1>4, <1>5, <1>6, <1>7, <1>8, <1>9, <1>10 DEF Next, ClientRequest

\* While a session is open its Node is neither removed nor replaced: not by the
\* last but one session leaving, not by RemoveNode, not by a create in flight.
THEOREM NodeStays == Spec => NodeStaysUnderSession
<1> DEFINE A == \A h \in DOMAIN sessions \cap DOMAIN sessions' :
                   LET s == sessions[h].node_seed
                   IN  /\ s \in DOMAIN nodes'
                       /\ nodes'[s].server = nodes[s].server
                       /\ nodes'[s].lifetime = nodes[s].lifetime
<1>1. NodesInv /\ [Next]_vars => A
  BY NodeKeptStep DEF NodeKept
<1>2. Spec => [][A]_vars
  BY <1>1, NodesInvariant, PTL DEF Spec
<1> QED BY <1>2 DEF NodeStaysUnderSession

-----------------------------------------------------------------------------
(* The refinement: the initial state maps to an initial state of           *)
(* NodeLifecycle and every step to a step or to none.                       *)

\* The refinement mapping of DaemonState, seed by seed.
NodeOf(s) == IF s \in DOMAIN nodes THEN nodes[s].lifetime ELSE "absent"

NodeMap == [s \in Seeds |-> NodeOf(s)]

SessionMap == [s \in Seeds |-> SessionsOf(s)]

-----------------------------------------------------------------------------
\* A step that keeps the Nodes, their lifetimes and the sessions is not seen.
LEMMA UnseenStep ==
    ASSUME DOMAIN nodes' = DOMAIN nodes,
           \A s \in DOMAIN nodes : nodes'[s].lifetime = nodes[s].lifetime,
           DOMAIN sessions' = DOMAIN sessions,
           \A h \in DOMAIN sessions : sessions'[h].node_seed = sessions[h].node_seed,
           next_session_id' = next_session_id
    PROVE  UNCHANGED Lifecycle!vars
<1>1. \A s : SessionsOf(s)' = SessionsOf(s)
  BY DEF SessionsOf
<1>2. \A s : NodeOf(s)' = NodeOf(s)
  BY DEF NodeOf
<1>3. NodeMap' = NodeMap /\ SessionMap' = SessionMap
  BY <1>1, <1>2 DEF NodeMap, SessionMap
<1> QED BY <1>3 DEF NodeMap, SessionMap, NodeOf, Lifecycle!vars

\* OpenSession, creating the Node or attaching to it, is Open.
LEMMA OpenStep ==
    ASSUME NodesInv, NEW s \in Seeds, NewSession(s),
           DOMAIN nodes' = DOMAIN nodes \cup {s},
           s \in DOMAIN nodes => nodes'[s].lifetime = nodes[s].lifetime,
           s \notin DOMAIN nodes => nodes'[s].lifetime = "refcounted",
           \A z \in DOMAIN nodes \ {s} : nodes'[z] = nodes[z]
    PROVE  Lifecycle!Next
<1> USE DEF NodesInv
<1>1. /\ SessionsOf(s)' = SessionsOf(s) \cup {next_session_id}
      /\ \A z : z # s => SessionsOf(z)' = SessionsOf(z)
  BY NewSessionCounts
<1>2. nodes[s].lifetime # "absent" \/ s \notin DOMAIN nodes
  BY DEF TypeOK, NodeEntry, Lifetime
<1>3. /\ NodeOf(s)' = IF NodeOf(s) = "absent" THEN "refcounted" ELSE NodeOf(s)
      /\ \A z : z # s => NodeOf(z)' = NodeOf(z)
  BY <1>2 DEF NodeOf
<1>4. NodeMap' = [NodeMap EXCEPT ![s] = IF @ = "absent" THEN "refcounted" ELSE @]
  BY <1>3 DEF NodeMap
<1>5. SessionMap' = [SessionMap EXCEPT ![s] = @ \cup {next_session_id}]
  BY <1>1 DEF SessionMap
<1>6. next_session_id' = next_session_id + 1
  BY DEF NewSession
<1>7. Lifecycle!Open(s)
  BY <1>4, <1>5, <1>6 DEF Lifecycle!Open, NodeMap, SessionMap, NodeOf
<1> QED BY <1>7 DEF Lifecycle!Next

\* AddNode's commit is AddNode.
LEMMA AddNodeStep ==
    ASSUME NodesInv, NEW t \in Rpcs, CommitAddNode(t)
    PROVE  Lifecycle!Next
<1> USE DEF NodesInv
<1>0. PICK s \in Seeds : s = rpc[t].seed
  BY RpcFields DEF TypeOK, CommitAddNode
<1>1. s \notin DOMAIN nodes
  BY <1>0, NodesCommitFinds DEF Creating, CommitAddNode
<1>2. /\ DOMAIN nodes' = DOMAIN nodes \cup {s}
      /\ nodes'[s].lifetime = "persistent"
      /\ \A z \in DOMAIN nodes : nodes'[z] = nodes[z]
      /\ UNCHANGED <<sessions, next_session_id>>
  BY <1>0, <1>1 DEF CommitAddNode, Put, sessVars
<1>3. /\ NodeOf(s) = "absent" /\ NodeOf(s)' = "persistent"
      /\ \A z : z # s => NodeOf(z)' = NodeOf(z)
  BY <1>1, <1>2 DEF NodeOf
<1>4. NodeMap[s] = "absent" /\ NodeMap' = [NodeMap EXCEPT ![s] = "persistent"]
  BY <1>3 DEF NodeMap
<1>5. SessionMap' = SessionMap
  BY <1>2 DEF SessionMap, SessionsOf
<1>6. Lifecycle!AddNode(s)
  BY <1>2, <1>4, <1>5 DEF Lifecycle!AddNode, NodeMap, SessionMap, NodeOf
<1> QED BY <1>6 DEF Lifecycle!Next

\* remove_node is RemoveNode: the count it looks at is zero only when the set
\* of sessions is empty.
LEMMA RemoveNodeStep ==
    ASSUME NodesInv, NEW t \in Rpcs, NEW s \in Seeds, RemoveNode(t, s)
    PROVE  Lifecycle!Next
<1> USE DEF NodesInv
<1>1. SessionsOf(s) = {}
  BY SessionsFinite, FS_EmptySet DEF RemoveNode, RefcountExact
<1>2. /\ s \in DOMAIN nodes /\ nodes[s].lifetime = "persistent"
      /\ DOMAIN nodes' = DOMAIN nodes \ {s}
      /\ \A z \in DOMAIN nodes' : nodes'[z] = nodes[z]
      /\ UNCHANGED <<sessions, next_session_id>>
  BY DEF RemoveNode, Without, sessVars
<1>3. /\ NodeOf(s) = "persistent" /\ NodeOf(s)' = "absent"
      /\ \A z : z # s => NodeOf(z)' = NodeOf(z)
  BY <1>2 DEF NodeOf
<1>4. NodeMap[s] = "persistent" /\ NodeMap' = [NodeMap EXCEPT ![s] = "absent"]
  BY <1>3 DEF NodeMap
<1>5. SessionMap' = SessionMap /\ SessionMap[s] = {}
  BY <1>1, <1>2 DEF SessionMap, SessionsOf
<1>6. Lifecycle!RemoveNode(s)
  BY <1>2, <1>4, <1>5 DEF Lifecycle!RemoveNode, NodeMap, SessionMap, NodeOf
<1> QED BY <1>6 DEF Lifecycle!Next

\* close_session is Close: it destroys the Node when the count reaches zero,
\* which is when the session it closes is the only one left.
LEMMA CloseStep ==
    ASSUME NodesInv, NEW t \in Rpcs, NEW h \in DOMAIN sessions, CloseSession(t, h)
    PROVE  Lifecycle!Next
<1> USE DEF NodesInv
<1>0. PICK s \in Seeds : s = sessions[h].node_seed
  BY DEF TypeOK, SessionEntry
<1>1. s \in DOMAIN nodes /\ nodes[s] \in NodeEntry
  BY <1>0 DEF CloseSession, TypeOK
<1>2. h \in SessionsOf(s)
  BY <1>0 DEF SessionsOf
<1>3. /\ DOMAIN sessions' = DOMAIN sessions \ {h}
      /\ \A k \in DOMAIN sessions' : sessions'[k] = sessions[k]
      /\ next_session_id' = next_session_id
  BY DEF CloseSession, Without
<1>4. /\ SessionsOf(s)' = SessionsOf(s) \ {h}
      /\ \A z : z # s => SessionsOf(z)' = SessionsOf(z)
  BY <1>0, <1>3 DEF SessionsOf
<1>5. SaturatingSub(nodes[s].attached) = 0 <=> SessionsOf(s) = {h}
  <2>1. /\ Cardinality(SessionsOf(s) \ {h}) = Cardinality(SessionsOf(s)) - 1
        /\ IsFiniteSet(SessionsOf(s) \ {h})
        /\ Cardinality(SessionsOf(s)) \in Nat
    BY <1>2, SessionsFinite, FS_RemoveElement, FS_CardinalityType
  <2>2. Cardinality(SessionsOf(s) \ {h}) = 0 <=> SessionsOf(s) \ {h} = {}
    BY <2>1, FS_EmptySet
  <2>3. SessionsOf(s) \ {h} = {} <=> SessionsOf(s) = {h}
    BY <1>2
  <2>4. Cardinality(SessionsOf(s)) # 0
    BY <1>2, SessionsFinite, FS_EmptySet
  <2>5. nodes[s].attached = Cardinality(SessionsOf(s))
    BY <1>1 DEF RefcountExact
  <2> QED BY <2>1, <2>2, <2>3, <2>4, <2>5 DEF SaturatingSub
<1>6. nodes' = IF nodes[s].lifetime = "refcounted" /\ SessionsOf(s) = {h}
               THEN Without(nodes, {s})
               ELSE [nodes EXCEPT ![s].attached = SaturatingSub(nodes[s].attached)]
  BY <1>0, <1>5 DEF CloseSession, NodeDestroyed
<1>7. /\ NodeOf(s)' = IF NodeOf(s) = "refcounted" /\ SessionsOf(s) = {h}
                      THEN "absent" ELSE NodeOf(s)
      /\ \A z : z # s => NodeOf(z)' = NodeOf(z)
  BY <1>1, <1>6 DEF NodeOf, Without, NodeEntry
<1>8. NodeMap' = [NodeMap EXCEPT ![s] =
                     IF @ = "refcounted" /\ SessionMap[s] = {h} THEN "absent" ELSE @]
  BY <1>7 DEF NodeMap, SessionMap
<1>9. h \in SessionMap[s] /\ SessionMap' = [SessionMap EXCEPT ![s] = @ \ {h}]
  BY <1>2, <1>4 DEF SessionMap
<1>10. Lifecycle!Close(s, h)
  BY <1>3, <1>8, <1>9 DEF Lifecycle!Close, NodeMap, SessionMap, NodeOf
<1>11. h \in SessionMap[s]
  BY <1>9
<1> QED BY <1>10, <1>11 DEF Lifecycle!Next, SessionMap

\* Every step of the daemon is a step of NodeLifecycle, or is not seen there.
LEMMA LifecycleStep ==
    ASSUME NodesInv, [Next]_vars
    PROVE  [Lifecycle!Next]_(Lifecycle!vars)
<1> USE DEF NodesInv
<1>1. CASE \E t \in Rpcs : CommitOpenSession(t)
  <2>1. PICK t \in Rpcs : CommitOpenSession(t)
    BY <1>1
  <2>2. /\ rpc[t].seed \in Seeds /\ rpc[t].seed \notin DOMAIN nodes
    BY <2>1, NodesCommitFinds DEF CommitOpenSession, Creating
  <2>3. /\ NewSession(rpc[t].seed)
        /\ DOMAIN nodes' = DOMAIN nodes \cup {rpc[t].seed}
        /\ nodes'[rpc[t].seed].lifetime = "refcounted"
        /\ \A z \in DOMAIN nodes \ {rpc[t].seed} : nodes'[z] = nodes[z]
    BY <2>1, <2>2 DEF CommitOpenSession, Put
  <2> QED BY <2>2, <2>3, OpenStep
<1>2. CASE \E s \in Seeds : AttachSession(s)
  <2>1. PICK s \in Seeds : AttachSession(s)
    BY <1>2
  <2>2. nodes[s] \in NodeEntry
    BY <2>1 DEF AttachSession, TypeOK
  <2>3. /\ NewSession(s) /\ s \in DOMAIN nodes
        /\ DOMAIN nodes' = DOMAIN nodes \cup {s}
        /\ nodes'[s].lifetime = nodes[s].lifetime
        /\ \A z \in DOMAIN nodes \ {s} : nodes'[z] = nodes[z]
    BY <2>1, <2>2 DEF AttachSession, NodeEntry
  <2> QED BY <2>3, OpenStep
<1>3. CASE \E t \in Rpcs : CommitAddNode(t)
  BY <1>3, AddNodeStep
<1>4. CASE \E t \in Rpcs, s \in Seeds : RemoveNode(t, s)
  BY <1>4, RemoveNodeStep
<1>5. CASE \E t \in Rpcs, h \in DOMAIN sessions : CloseSession(t, h)
  BY <1>5, CloseStep
<1>6. CASE \E t \in Rpcs : CommitAddResource(t)
  <2>1. PICK t \in Rpcs : CommitAddResource(t)
    BY <1>6
  <2>2. \A h \in DOMAIN sessions : sessions[h] \in SessionEntry
    BY DEF TypeOK
  <2> QED BY <2>1, <2>2, UnseenStep DEF CommitAddResource, SessionEntry, regVars
<1>7. CASE \E t \in Rpcs, h \in DOMAIN sessions, r \in DOMAIN resources :
             RemoveResource(t, h, r)
  <2>1. PICK t \in Rpcs, h \in DOMAIN sessions, r \in DOMAIN resources :
               RemoveResource(t, h, r)
    BY <1>7
  <2>2. \A k \in DOMAIN sessions : sessions[k] \in SessionEntry
    BY DEF TypeOK
  <2> QED BY <2>1, <2>2, UnseenStep DEF RemoveResource, SessionEntry, regVars
<1>8. CASE UNCHANGED <<nodes, sessions, next_session_id>>
  BY <1>8, UnseenStep
<1>9. CASE \E t \in Rpcs : RpcStep(t) /\ ~CommitOpenSession(t) /\ ~CommitAddNode(t)
                                      /\ ~CommitAddResource(t)
  BY <1>8, <1>9 DEF NewServer, AddToServer, RemoveFromServer, RpcStep, CreateNodeFfi, AbortPendingNode, AddResourceFfi,
     AddResourceFfiFails, AddResourceFfiStray, CommitAddResourceOrphaned,
     SyncResourceFfi, RemoveObjectFfi, DropServerFfi, regVars, sessVars
<1>10. CASE \E t \in Rpcs, s \in Seeds, p \in Ports :
              PrepareOpenSession(t, s, p) \/ PrepareAddNode(t, s, p)
  BY <1>8, <1>10 DEF PrepareOpenSession, PrepareAddNode, PrepareCreate, sessVars
<1>11. CASE \E h \in DOMAIN sessions \cup DOMAIN subscriptions :
              SubscribeActivations(h) \/ StreamDropped(h) \/ OnSubscriptionStreamEnded(h)
  BY <1>8, <1>11 DEF SubscribeActivations, StreamDropped, OnSubscriptionStreamEnded,
     regVars, sessVars
<1>12. CASE \E t \in Rpcs, h \in DOMAIN sessions :
              \/ \E o \in Objects : PrepareAddResource(t, h, o)
              \/ \E r \in DOMAIN resources : SyncResourceState(t, h, r)
  BY <1>8, <1>12 DEF PrepareAddResource, SyncResourceState, regVars, sessVars
<1>13. CASE UNCHANGED vars
  BY <1>8, <1>13 DEF vars
<1> QED BY <1>1, <1>2, <1>3, <1>4, <1>5, <1>6, <1>7, <1>9, <1>10, <1>11, <1>12, <1>13
    DEF Next, ClientRequest

\* The empty daemon is the empty NodeLifecycle.
LEMMA LifecycleInit == Init => Lifecycle!Init
  BY DEF Init, EmptyMap, Lifecycle!Init, SessionsOf

\* DaemonState implements NodeLifecycle: to a client, sessions and Nodes come and
\* go as if every RPC were one step and the count were the set of sessions.
THEOREM LifecycleImplemented == Spec => LifecycleSpec
<1>1. NodesInv /\ [Next]_vars => [Lifecycle!Next]_(Lifecycle!vars)
  BY LifecycleStep
<1>2. Spec => Lifecycle!Spec
  BY <1>1, LifecycleInit, NodesInvariant, PTL DEF Spec, Lifecycle!Spec
<1> QED BY <1>2 DEF LifecycleSpec

-----------------------------------------------------------------------------
(* Servers. *)

Holding == {"created", "add", "remove", "sync"}

\* A server that is built but not committed is the one its handler asked for.
CreatedOwn ==
    \A t \in Rpcs : rpc[t].phase = "created" =>
        /\ servers[rpc[t].server].seed = rpc[t].seed
        /\ servers[rpc[t].server].http_port = rpc[t].http_port

\* What the servers need of each other and of the maps: the port a create was
\* promised is its own (PortsAgree), so that the server it builds shares it
\* with none, and the server a commit enters is the one built for its seed.
ServersInv == NodesInv /\ ServersHeld /\ ListenersDisjoint /\ CreatedOwn

-----------------------------------------------------------------------------
\* Steps that leave the servers and their holders alone.
LEMMA ServersFrame ==
    ASSUME ServersInv, NodesInv', UNCHANGED servers,
           DOMAIN nodes' = DOMAIN nodes,
           \A s \in DOMAIN nodes : /\ nodes'[s].server = nodes[s].server
                                   /\ nodes'[s].http_port = nodes[s].http_port,
           \A u \in Rpcs : \/ rpc'[u] = rpc[u]
                           \/ rpc[u].phase \notin Holding /\ rpc'[u].phase = "idle"
    PROVE  ServersInv'
<1> USE DEF ServersInv, Holding
<1>1. \A i : NodeHolds(i)' <=> NodeHolds(i)
  BY DEF NodeHolds
<1>2. \A u \in Rpcs, i \in DOMAIN servers : HoldsServer(u, i) => HoldsServer(u, i)'
  BY DEF HoldsServer
<1>3. ServersHeld'
  BY <1>1, <1>2 DEF ServersHeld
<1>4. ListenersDisjoint'
  BY DEF ListenersDisjoint
<1>5. CreatedOwn'
  BY DEF CreatedOwn
<1> QED BY <1>3, <1>4, <1>5

\* A handler clones the Arc that a Node holds, or takes it over when the Node
\* leaves the map.
LEMMA ServersClone ==
    ASSUME ServersInv, NodesInv', UNCHANGED servers,
           NEW t \in Rpcs, NEW z \in DOMAIN nodes,
           rpc[t].phase \notin Holding,
           rpc'[t].phase \in {"add", "remove", "sync"},
           rpc'[t].server = nodes[z].server,
           \A u \in Rpcs \ {t} : rpc'[u] = rpc[u],
           DOMAIN nodes' \subseteq DOMAIN nodes,
           DOMAIN nodes \ {z} \subseteq DOMAIN nodes',
           \A s \in DOMAIN nodes' : /\ nodes'[s].server = nodes[s].server
                                    /\ nodes'[s].http_port = nodes[s].http_port
    PROVE  ServersInv'
<1> USE DEF ServersInv, Holding
<1>0. PICK k : k = nodes[z].server
  OBVIOUS
<1>1. \A i : NodeHolds(i) => NodeHolds(i)' \/ i = k
  BY <1>0 DEF NodeHolds
<1>2. \A u \in Rpcs, i \in DOMAIN servers : HoldsServer(u, i) => HoldsServer(u, i)'
  BY DEF HoldsServer
<1>3. HoldsServer(t, k)'
  BY <1>0 DEF HoldsServer
<1>4. nodes[z].server \in DOMAIN servers
  BY DEF ServersHeld
<1>5. \A s \in DOMAIN nodes' :
          /\ nodes'[s].server \in DOMAIN servers'
          /\ servers'[nodes'[s].server].seed = s
          /\ servers'[nodes'[s].server].http_port = nodes'[s].http_port
  BY DEF ServersHeld
<1>6. \A u \in Rpcs : rpc'[u].phase \in Holding => rpc'[u].server \in DOMAIN servers'
  BY <1>4 DEF ServersHeld
<1>7. \A i \in DOMAIN servers' : NodeHolds(i)' \/ \E u \in Rpcs : HoldsServer(u, i)'
  BY <1>1, <1>2, <1>3 DEF ServersHeld
<1>8. ServersHeld'
  BY <1>5, <1>6, <1>7 DEF ServersHeld
<1>9. ListenersDisjoint'
  BY DEF ListenersDisjoint
<1>10. CreatedOwn'
  BY DEF CreatedOwn
<1> QED BY <1>8, <1>9, <1>10

\* A handler drops its clone; the server goes if it was the last.
LEMMA ServersRelease ==
    ASSUME ServersInv, NodesInv', UNCHANGED nodes,
           NEW t \in Rpcs, NEW live,
           rpc[t].phase \in {"add", "remove", "sync"},
           rpc'[t].phase \in {"idle", "added"},
           \A u \in Rpcs \ {t} : rpc'[u] = rpc[u],
           DOMAIN live = DOMAIN servers,
           \A i \in DOMAIN servers : /\ live[i].seed = servers[i].seed
                                     /\ live[i].http_port = servers[i].http_port,
           servers' = ReleaseServer(t, rpc[t].server, live)
    PROVE  ServersInv'
<1> USE DEF ServersInv, Holding
<1> DEFINE i == rpc[t].server
<1>1. /\ DOMAIN servers' \subseteq DOMAIN servers
      /\ DOMAIN servers \ {i} \subseteq DOMAIN servers'
      /\ \A j \in DOMAIN servers' : /\ servers'[j].seed = servers[j].seed
                                    /\ servers'[j].http_port = servers[j].http_port
  BY DEF ReleaseServer, Without
<1>2. i \in DOMAIN servers
  BY DEF ServersHeld
<1>3. NodeHolds(i) => i \in DOMAIN servers'
  BY <1>2 DEF ReleaseServer, LastHolder
<1>4. \A u \in Rpcs \ {t} : HoldsServer(u, i) => i \in DOMAIN servers'
  BY <1>2 DEF ReleaseServer, LastHolder
<1>5. i \in DOMAIN servers' => NodeHolds(i) \/ \E u \in Rpcs \ {t} : HoldsServer(u, i)
  BY DEF ReleaseServer, LastHolder, Without
<1> HIDE DEF i
<1>6. \A j : NodeHolds(j)' <=> NodeHolds(j)
  BY DEF NodeHolds
<1>7. /\ \A u \in Rpcs \ {t} : \A j \in DOMAIN servers : HoldsServer(u, j) <=> HoldsServer(u, j)'
      /\ \A j : HoldsServer(t, j) => j = i
  BY DEF HoldsServer, i
<1>8. \A s \in DOMAIN nodes' :
          /\ nodes'[s].server \in DOMAIN servers'
          /\ servers'[nodes'[s].server].seed = s
          /\ servers'[nodes'[s].server].http_port = nodes'[s].http_port
  <2> SUFFICES ASSUME NEW s \in DOMAIN nodes
               PROVE  /\ nodes[s].server \in DOMAIN servers'
                      /\ servers'[nodes[s].server].seed = s
                      /\ servers'[nodes[s].server].http_port = nodes[s].http_port
    OBVIOUS
  <2>1. nodes[s].server \in DOMAIN servers'
    BY <1>1, <1>3 DEF ServersHeld, NodeHolds
  <2> QED BY <1>1, <2>1 DEF ServersHeld
<1>9. \A u \in Rpcs : rpc'[u].phase \in Holding =>
          u # t /\ rpc[u].server \in DOMAIN servers' /\ rpc'[u] = rpc[u]
  BY <1>1, <1>4 DEF ServersHeld, HoldsServer
<1>10. \A j \in DOMAIN servers' : NodeHolds(j)' \/ \E u \in Rpcs : HoldsServer(u, j)'
  BY <1>1, <1>5, <1>6, <1>7 DEF ServersHeld
<1>11. ServersHeld'
  BY <1>8, <1>9, <1>10 DEF ServersHeld
<1>12. ListenersDisjoint'
  BY <1>1 DEF ListenersDisjoint
<1>13. CreatedOwn'
  BY <1>1, <1>9 DEF CreatedOwn
<1> QED BY <1>11, <1>12, <1>13

\* The bind probe passes only on a port without a listener.
LEMMA ServersPrepareCreate ==
    ASSUME ServersInv, NodesInv', NEW t \in Rpcs, NEW s \in Seeds, NEW p \in Ports,
           NEW l \in Lifetime, PrepareCreate(t, s, p, l)
    PROVE  ServersInv'
<1> USE DEF ServersInv
<1>1. /\ UNCHANGED <<nodes, servers>>
      /\ rpc[t].phase = "idle" /\ rpc'[t].phase = "create" /\ rpc'[t].http_port = p
      /\ \A u \in Rpcs \ {t} : rpc'[u] = rpc[u]
      /\ \A i \in DOMAIN servers : servers[i].http_port # p
  BY DEF PrepareCreate, PortFree, serverVars, NodesInv, TypeOK
<1>2. \A i : NodeHolds(i)' <=> NodeHolds(i)
  BY <1>1 DEF NodeHolds
<1>3. \A u \in Rpcs, i \in DOMAIN servers : HoldsServer(u, i) => HoldsServer(u, i)'
  BY <1>1 DEF HoldsServer
<1>4. ServersHeld'
  BY <1>1, <1>2, <1>3 DEF ServersHeld
<1>5. ListenersDisjoint'
  BY <1>1 DEF ListenersDisjoint
<1>6. CreatedOwn'
  BY <1>1 DEF CreatedOwn
<1> QED BY <1>4, <1>5, <1>6

\* The server a create builds listens on a port nobody else has or was promised.
LEMMA ServersCreateNodeFfi ==
    ASSUME ServersInv, NodesInv', NEW t \in Rpcs, CreateNodeFfi(t)
    PROVE  ServersInv'
<1> USE DEF ServersInv
<1>0. PICK k : k = next_server
  OBVIOUS
<1>1. /\ UNCHANGED nodes
      /\ rpc[t].phase = "create" /\ rpc'[t].phase = "created"
      /\ rpc'[t].server = k
      /\ rpc'[t].seed = rpc[t].seed /\ rpc'[t].http_port = rpc[t].http_port
      /\ \A u \in Rpcs \ {t} : rpc'[u] = rpc[u]
  BY <1>0 DEF NewServer, CreateNodeFfi, regVars, NodesInv, TypeOK
<1>2. /\ k \notin DOMAIN servers
      /\ DOMAIN servers' = DOMAIN servers \cup {k}
      /\ servers'[k].seed = rpc[t].seed
      /\ servers'[k].http_port = rpc[t].http_port
      /\ \A i \in DOMAIN servers : servers'[i] = servers[i]
  BY <1>0 DEF NewServer, CreateNodeFfi, Put, NodesInv, TypeOK
<1>3. \A i : NodeHolds(i)' <=> NodeHolds(i)
  BY <1>1 DEF NodeHolds
<1>4. /\ \A u \in Rpcs, i \in DOMAIN servers : HoldsServer(u, i) => HoldsServer(u, i)'
      /\ HoldsServer(t, k)'
  BY <1>1 DEF HoldsServer
<1>5. ServersHeld'
  <2>1. \A s \in DOMAIN nodes' :
          /\ nodes'[s].server \in DOMAIN servers'
          /\ servers'[nodes'[s].server].seed = s
          /\ servers'[nodes'[s].server].http_port = nodes'[s].http_port
    BY <1>1, <1>2 DEF ServersHeld
  <2>2. \A u \in Rpcs : rpc'[u].phase \in {"created", "add", "remove", "sync"} =>
          rpc'[u].server \in DOMAIN servers'
    BY <1>1, <1>2 DEF ServersHeld
  <2>3. \A i \in DOMAIN servers' : NodeHolds(i)' \/ \E u \in Rpcs : HoldsServer(u, i)'
    BY <1>2, <1>3, <1>4 DEF ServersHeld
  <2> QED BY <2>1, <2>2, <2>3 DEF ServersHeld
<1>6. \A u \in Rpcs \ {t} : rpc[u].phase = "create" => rpc[u].http_port # rpc[t].http_port
  BY <1>1 DEF NodesInv, PortsAgree, Creating
<1>7. ListenersDisjoint'
  BY <1>1, <1>2, <1>6 DEF ListenersDisjoint
<1>8. CreatedOwn'
  BY <1>1, <1>2 DEF CreatedOwn, ServersHeld
<1> QED BY <1>5, <1>7, <1>8

\* A commit moves the Arc from the handler into the map.
LEMMA ServersCommit ==
    ASSUME ServersInv, NodesInv', NEW t \in Rpcs,
           CommitOpenSession(t) \/ CommitAddNode(t)
    PROVE  ServersInv'
<1> USE DEF ServersInv
<1>0. PICK k : k = rpc[t].server
  OBVIOUS
<1>1. /\ UNCHANGED servers
      /\ rpc[t].phase = "created" /\ rpc'[t].phase = "idle"
      /\ \A u \in Rpcs \ {t} : rpc'[u] = rpc[u]
  BY DEF CommitOpenSession, CommitAddNode, serverVars, Idle, NodesInv, TypeOK
<1>2. rpc[t].seed \notin DOMAIN nodes
  BY <1>1, NodesCommitFinds DEF Creating
<1>3. /\ DOMAIN nodes' = DOMAIN nodes \cup {rpc[t].seed}
      /\ nodes'[rpc[t].seed].server = rpc[t].server
      /\ nodes'[rpc[t].seed].http_port = rpc[t].http_port
      /\ \A s \in DOMAIN nodes : nodes'[s] = nodes[s]
  BY <1>2 DEF CommitOpenSession, CommitAddNode, Put
<1>4. /\ \A i : NodeHolds(i) => NodeHolds(i)'
      /\ NodeHolds(k)'
  BY <1>0, <1>3 DEF NodeHolds
<1>5. /\ \A u \in Rpcs \ {t} : \A i \in DOMAIN servers : HoldsServer(u, i) => HoldsServer(u, i)'
      /\ \A i : HoldsServer(t, i) => i = k
  BY <1>0, <1>1 DEF HoldsServer
<1>6. ServersHeld'
  <2>1. \A s \in DOMAIN nodes' :
          /\ nodes'[s].server \in DOMAIN servers'
          /\ servers'[nodes'[s].server].seed = s
          /\ servers'[nodes'[s].server].http_port = nodes'[s].http_port
    BY <1>1, <1>3 DEF ServersHeld, CreatedOwn
  <2>2. \A u \in Rpcs : rpc'[u].phase \in {"created", "add", "remove", "sync"} =>
          rpc'[u].server \in DOMAIN servers'
    BY <1>1 DEF ServersHeld
  <2>3. \A i \in DOMAIN servers' : NodeHolds(i)' \/ \E u \in Rpcs : HoldsServer(u, i)'
    BY <1>1, <1>4, <1>5 DEF ServersHeld
  <2> QED BY <2>1, <2>2, <2>3 DEF ServersHeld
<1>7. ListenersDisjoint'
  BY <1>1 DEF ListenersDisjoint
<1>8. CreatedOwn'
  BY <1>1 DEF CreatedOwn
<1> QED BY <1>6, <1>7, <1>8

\* Every step of the daemon keeps the invariant.
LEMMA ServersInvStep ==
    ASSUME ServersInv, [Next]_vars
    PROVE  ServersInv'
<1> USE DEF ServersInv
<1>0. NodesInv'
  BY NodesInvStep
<1>1. \A t \in Rpcs : rpc[t] \in Rpc
  BY DEF NodesInv, TypeOK
<1>2. ASSUME NEW t \in Rpcs, AbortPendingNode(t) PROVE ServersInv'
  BY <1>0, <1>2, ServersFrame DEF AbortPendingNode, serverVars, Idle, NodesInv, TypeOK,
     Holding
<1>3. ASSUME NEW t \in Rpcs, AddResourceFfi(t) PROVE ServersInv'
  <2> DEFINE live == [servers EXCEPT ![rpc[t].server].objects = @ \cup {rpc[t].obj}]
  <2>1. /\ DOMAIN live = DOMAIN servers
        /\ \A i \in DOMAIN servers : /\ live[i].seed = servers[i].seed
                                     /\ live[i].http_port = servers[i].http_port
    BY DEF NodesInv, TypeOK, Server
  <2>2. servers' = ReleaseServer(t, rpc[t].server, live)
    BY <1>3 DEF AddToServer, AddResourceFfi
  <2>3. /\ rpc[t].phase = "add" /\ rpc'[t].phase = "added" /\ UNCHANGED nodes
        /\ \A u \in Rpcs \ {t} : rpc'[u] = rpc[u]
    BY <1>3 DEF AddToServer, AddResourceFfi, regVars, NodesInv, TypeOK
  <2> HIDE DEF live
  <2> QED BY <1>0, <2>1, <2>2, <2>3, ServersRelease
<1>4. ASSUME NEW t \in Rpcs, AddResourceFfiStray(t) PROVE ServersInv'
  <2>1. PICK o \in Objects : servers' = ReleaseServer(t, rpc[t].server,
            [servers EXCEPT ![rpc[t].server].objects = @ \cup {o}])
    BY <1>4 DEF AddToServer, AddResourceFfiStray
  <2> DEFINE live == [servers EXCEPT ![rpc[t].server].objects = @ \cup {o}]
  <2>2. /\ DOMAIN live = DOMAIN servers
        /\ \A i \in DOMAIN servers : /\ live[i].seed = servers[i].seed
                                     /\ live[i].http_port = servers[i].http_port
    BY DEF NodesInv, TypeOK, Server
  <2>3. servers' = ReleaseServer(t, rpc[t].server, live)
    BY <2>1
  <2>4. /\ rpc[t].phase = "add" /\ rpc'[t].phase = "idle" /\ UNCHANGED nodes
        /\ \A u \in Rpcs \ {t} : rpc'[u] = rpc[u]
    BY <1>4 DEF AddToServer, AddResourceFfiStray, Idle, regVars, NodesInv, TypeOK
  <2> HIDE DEF live
  <2> QED BY <1>0, <2>2, <2>3, <2>4, ServersRelease
<1>5. ASSUME NEW t \in Rpcs,
             AddResourceFfiFails(t) \/ SyncResourceFfi(t) \/ DropServerFfi(t)
      PROVE  ServersInv'
  <2>1. /\ rpc[t].phase \in {"add", "remove", "sync"} /\ rpc'[t].phase = "idle"
        /\ UNCHANGED nodes /\ servers' = ReleaseServer(t, rpc[t].server, servers)
        /\ \A u \in Rpcs \ {t} : rpc'[u] = rpc[u]
    BY <1>5 DEF AddResourceFfiFails, SyncResourceFfi, DropServerFfi, Idle, regVars,
       NodesInv, TypeOK
  <2> QED BY <1>0, <2>1, ServersRelease
<1>6. ASSUME NEW t \in Rpcs, RemoveObjectFfi(t) PROVE ServersInv'
  <2>1. PICK o : servers' = [servers EXCEPT ![rpc[t].server].objects = @ \ {o}]
    BY <1>6 DEF RemoveFromServer, RemoveObjectFfi
  <2>2. /\ DOMAIN servers' = DOMAIN servers
        /\ \A i \in DOMAIN servers : /\ servers'[i].seed = servers[i].seed
                                     /\ servers'[i].http_port = servers[i].http_port
    BY <2>1 DEF NodesInv, TypeOK, Server
  <2>3. /\ UNCHANGED nodes
        /\ rpc[t].phase = "remove" /\ rpc'[t].phase = "remove"
        /\ rpc'[t].server = rpc[t].server
        /\ \A u \in Rpcs \ {t} : rpc'[u] = rpc[u]
    BY <1>6 DEF RemoveFromServer, RemoveObjectFfi, regVars, NodesInv, TypeOK
  <2>4. /\ \A i : NodeHolds(i)' <=> NodeHolds(i)
        /\ \A u \in Rpcs, i \in DOMAIN servers : HoldsServer(u, i)' <=> HoldsServer(u, i)
    BY <2>3 DEF NodeHolds, HoldsServer
  <2>5. ServersHeld'
    BY <2>2, <2>3, <2>4 DEF ServersHeld
  <2>6. ListenersDisjoint'
    BY <2>2, <2>3 DEF ListenersDisjoint
  <2>7. CreatedOwn'
    BY <2>2, <2>3 DEF CreatedOwn, ServersHeld
  <2> QED BY <1>0, <2>5, <2>6, <2>7
<1>7. ASSUME NEW t \in Rpcs, CommitAddResource(t) PROVE ServersInv'
  BY <1>0, <1>7, ServersFrame DEF CommitAddResource, regVars, serverVars, Idle, NodesInv,
     TypeOK, Holding
<1>8. ASSUME NEW t \in Rpcs, CommitAddResourceOrphaned(t) PROVE ServersInv'
  <2>1. /\ UNCHANGED <<nodes, servers>> /\ rpc[t].phase = "added"
        /\ \A u \in Rpcs \ {t} : rpc'[u] = rpc[u]
    BY <1>8 DEF CommitAddResourceOrphaned, regVars, serverVars, NodesInv, TypeOK
  <2>2. CASE rpc[t].seed \in DOMAIN nodes
    <3>1. rpc'[t].phase = "remove" /\ rpc'[t].server = nodes[rpc[t].seed].server
      BY <1>8, <2>2 DEF CommitAddResourceOrphaned, NodesInv, TypeOK
    <3> QED BY <1>0, <2>1, <2>2, <3>1, ServersClone DEF Holding
  <2>3. CASE rpc[t].seed \notin DOMAIN nodes
    <3>1. rpc'[t].phase = "idle"
      BY <1>8, <2>3 DEF CommitAddResourceOrphaned, Idle, NodesInv, TypeOK
    <3> QED BY <1>0, <2>1, <3>1, ServersFrame DEF Holding
  <2> QED BY <2>2, <2>3
<1>9. ASSUME NEW t \in Rpcs, RpcStep(t) PROVE ServersInv'
  BY <1>0, <1>2, <1>3, <1>4, <1>5, <1>6, <1>7, <1>8, <1>9, ServersCreateNodeFfi,
     ServersCommit DEF RpcStep
<1>10. ASSUME NEW t \in Rpcs, NEW s \in Seeds, RemoveNode(t, s) PROVE ServersInv'
  <2>1. /\ UNCHANGED servers /\ s \in DOMAIN nodes /\ rpc[t].phase = "idle"
        /\ rpc'[t].phase = "remove" /\ rpc'[t].server = nodes[s].server
        /\ \A u \in Rpcs \ {t} : rpc'[u] = rpc[u]
    BY <1>10 DEF RemoveNode, serverVars, NodesInv, TypeOK
  <2>2. /\ DOMAIN nodes' = DOMAIN nodes \ {s}
        /\ \A z \in DOMAIN nodes' : nodes'[z] = nodes[z]
    BY <1>10 DEF RemoveNode, Without
  <2> QED BY <1>0, <2>1, <2>2, ServersClone DEF Holding
<1>11. ASSUME NEW t \in Rpcs, NEW h \in DOMAIN sessions, CloseSession(t, h)
       PROVE  ServersInv'
  <2>0. PICK s \in DOMAIN nodes : s = sessions[h].node_seed
    BY <1>11 DEF CloseSession
  <2>1. /\ UNCHANGED servers /\ rpc[t].phase = "idle"
        /\ rpc'[t].phase = "remove" /\ rpc'[t].server = nodes[s].server
        /\ \A u \in Rpcs \ {t} : rpc'[u] = rpc[u]
    BY <1>11, <2>0 DEF CloseSession, serverVars, NodesInv, TypeOK
  <2>2. nodes[s] \in NodeEntry
    BY DEF NodesInv, TypeOK
  <2>3. \/ nodes' = Without(nodes, {s})
        \/ \E n : nodes' = [nodes EXCEPT ![s].attached = n]
    BY <1>11, <2>0 DEF CloseSession
  <2>4. /\ DOMAIN nodes' \subseteq DOMAIN nodes
        /\ DOMAIN nodes \ {s} \subseteq DOMAIN nodes'
        /\ \A z \in DOMAIN nodes' : /\ nodes'[z].server = nodes[z].server
                                    /\ nodes'[z].http_port = nodes[z].http_port
    BY <2>2, <2>3 DEF Without, NodeEntry
  <2> QED BY <1>0, <2>1, <2>4, ServersClone DEF Holding
<1>12. ASSUME NEW s \in Seeds, AttachSession(s) PROVE ServersInv'
  <2>1. /\ UNCHANGED <<servers, rpc>> /\ s \in DOMAIN nodes
        /\ nodes' = [nodes EXCEPT ![s].attached = @ + 1]
    BY <1>12 DEF AttachSession, serverVars
  <2>2. nodes[s] \in NodeEntry
    BY <2>1 DEF NodesInv, TypeOK
  <2>3. /\ DOMAIN nodes' = DOMAIN nodes
        /\ \A z \in DOMAIN nodes : /\ nodes'[z].server = nodes[z].server
                                   /\ nodes'[z].http_port = nodes[z].http_port
    BY <2>1, <2>2 DEF NodeEntry
  <2> QED BY <1>0, <2>1, <2>3, ServersFrame
<1>13. ASSUME NEW h, SubscribeActivations(h) \/ StreamDropped(h)
                        \/ OnSubscriptionStreamEnded(h)
       PROVE  ServersInv'
  BY <1>0, <1>13, ServersFrame DEF SubscribeActivations, StreamDropped,
     OnSubscriptionStreamEnded, regVars, serverVars
<1>14. ASSUME NEW t \in Rpcs, NEW h \in DOMAIN sessions, NEW o \in Objects,
              PrepareAddResource(t, h, o)
       PROVE  ServersInv'
  <2>1. /\ UNCHANGED <<nodes, servers>> /\ rpc[t].phase = "idle"
        /\ sessions[h].node_seed \in DOMAIN nodes
        /\ rpc'[t].phase = "add" /\ rpc'[t].server = nodes[sessions[h].node_seed].server
        /\ \A u \in Rpcs \ {t} : rpc'[u] = rpc[u]
    BY <1>14 DEF PrepareAddResource, regVars, serverVars, NodesInv, TypeOK
  <2> QED BY <1>0, <2>1, ServersClone DEF Holding
<1>15. ASSUME NEW t \in Rpcs, NEW h \in DOMAIN sessions, NEW r \in DOMAIN resources,
              RemoveResource(t, h, r) \/ SyncResourceState(t, h, r)
       PROVE  ServersInv'
  <2>1. /\ UNCHANGED <<nodes, servers>> /\ rpc[t].phase = "idle"
        /\ \A u \in Rpcs \ {t} : rpc'[u] = rpc[u]
    BY <1>15 DEF RemoveResource, SyncResourceState, regVars, serverVars, NodesInv, TypeOK
  <2>2. CASE resources[r].node_seed \in DOMAIN nodes
    <3>1. /\ rpc'[t].phase \in {"remove", "sync"}
          /\ rpc'[t].server = nodes[resources[r].node_seed].server
      BY <1>15, <2>2 DEF RemoveResource, SyncResourceState, NodesInv, TypeOK
    <3> QED BY <1>0, <2>1, <2>2, <3>1, ServersClone DEF Holding
  <2>3. CASE resources[r].node_seed \notin DOMAIN nodes
    <3>1. UNCHANGED rpc
      BY <1>15, <2>3 DEF RemoveResource, SyncResourceState
    <3> QED BY <1>0, <2>1, <3>1, ServersFrame
  <2> QED BY <2>2, <2>3
<1>16. CASE ClientRequest
  <2>1. CASE \E t \in Rpcs, s \in Seeds, p \in Ports :
               PrepareOpenSession(t, s, p) \/ PrepareAddNode(t, s, p)
    BY <1>0, <2>1, ServersPrepareCreate DEF PrepareOpenSession, PrepareAddNode, Lifetime
  <2> QED BY <1>10, <1>11, <1>12, <1>13, <1>14, <1>15, <1>16, <2>1 DEF ClientRequest
<1>17. CASE UNCHANGED vars
  BY <1>0, <1>17, ServersFrame DEF vars
<1> QED BY <1>9, <1>16, <1>17 DEF Next

\* State::new has no servers and no handlers.
LEMMA ServersInvInit == Init => ServersInv
<1> SUFFICES ASSUME Init PROVE ServersInv
  OBVIOUS
<1>1. DOMAIN servers = {} /\ DOMAIN nodes = {} /\ \A t \in Rpcs : rpc[t].phase = "idle"
  BY DEF Init, EmptyMap, Idle
<1> QED BY <1>1, NodesInvInit DEF ServersInv, ServersHeld, ListenersDisjoint, CreatedOwn

\* The invariant holds throughout.
LEMMA ServersInvariant == Spec => []ServersInv
<1>1. ServersInv /\ [Next]_vars => ServersInv'
  BY ServersInvStep
<1> QED BY <1>1, ServersInvInit, PTL DEF Spec

\* A NodeServer lives exactly as long as somebody holds its Arc: no handler calls
\* into a destroyed server and none is stranded, for any number of handlers.
THEOREM ServersCorrect == Spec => []ServersHeld
<1>1. ServersInv => ServersHeld
  BY DEF ServersInv
<1> QED BY <1>1, ServersInvariant, PTL

\* Two NodeServers never share a port, nor is one promised that is still in use,
\* though a port is given back before its listener closes.
THEOREM ListenersCorrect == Spec => []ListenersDisjoint
<1>1. ServersInv => ListenersDisjoint
  BY DEF ServersInv
<1> QED BY <1>1, ServersInvariant, PTL

-----------------------------------------------------------------------------
(* Claims. *)

Adding(t) == rpc[t].phase \in {"add", "added"}

\* An add whose session is still open went, or goes, to the Node of that session;
\* handles and servers are not used again.
AddsAimed ==
    \A t \in Rpcs : Adding(t) =>
        /\ rpc[t].session < next_session_id
        /\ rpc[t].server < next_server
        /\ rpc[t].session \in DOMAIN sessions =>
              /\ sessions[rpc[t].session].node_seed = rpc[t].seed
              /\ nodes[rpc[t].seed].server = rpc[t].server

\* The three ways to claim an object, as predicates.
ResourceClaim(r, i, o) ==
    /\ r \in DOMAIN resources
    /\ resources[r].obj = o
    /\ resources[r].node_seed \in DOMAIN nodes
    /\ nodes[resources[r].node_seed].server = i

AddClaim(t, i, o) ==
    /\ t \in Rpcs
    /\ rpc[t].phase = "added"
    /\ rpc[t].server = i
    /\ rpc[t].obj = o

RemoveClaim(t, i, o) ==
    /\ t \in Rpcs
    /\ rpc[t].phase = "remove"
    /\ rpc[t].server = i
    /\ o \in rpc[t].objs

\* OneClaimant without the set of claims.
Claimed ==
    \A i \in DOMAIN servers, o \in Objects :
        /\ \A r, q : ResourceClaim(r, i, o) /\ ResourceClaim(q, i, o) => r = q
        /\ \A t, u : AddClaim(t, i, o) /\ AddClaim(u, i, o) => t = u
        /\ \A t, u : RemoveClaim(t, i, o) /\ RemoveClaim(u, i, o) => t = u
        /\ \A r, t : ~(ResourceClaim(r, i, o) /\ AddClaim(t, i, o))
        /\ \A r, t : ~(ResourceClaim(r, i, o) /\ RemoveClaim(t, i, o))
        /\ \A t, u : ~(AddClaim(t, i, o) /\ RemoveClaim(u, i, o))
        /\ \A x : ResourceClaim(x, i, o) \/ AddClaim(x, i, o) \/ RemoveClaim(x, i, o)
                     => o \in servers[i].objects

\* What the claims need: adds are aimed at the Node of their session, so that a
\* commit turns the claim of the add into that of a resource of the same server;
\* and the indexes, so that a close finds every resource of its session and a
\* commit finds the name free.
ClaimsInv ==
    ServersInv /\ AddsAimed /\ (~crossed => OneRelation /\ Claimed)

-----------------------------------------------------------------------------
\* Claimed says what OneClaimant says.
LEMMA ClaimedIsOneClaimant ==
    ASSUME Claimed
    PROVE  OneClaimant
<1> SUFFICES ASSUME NEW i \in DOMAIN servers, NEW o \in Objects
             PROVE  /\ \A c, d \in Claims(i, o) : c = d
                    /\ Claims(i, o) # {} => o \in servers[i].objects
  BY DEF OneClaimant
<1>1. \A c \in Claims(i, o) :
          \/ \E r : c = <<"resource", r>> /\ ResourceClaim(r, i, o)
          \/ \E t : c = <<"added", t>> /\ AddClaim(t, i, o)
          \/ \E t : c = <<"remove", t>> /\ RemoveClaim(t, i, o)
  BY DEF Claims, ResourceClaim, AddClaim, RemoveClaim
<1>2. \A c, d \in Claims(i, o) : c = d
  BY <1>1 DEF Claimed
<1>3. Claims(i, o) # {} => o \in servers[i].objects
  BY <1>1 DEF Claimed
<1> QED BY <1>2, <1>3

\* Counters grow, a session keeps its seed, and a new session has a new handle.
LEMMA StepFacts ==
    ASSUME NodesInv, [Next]_vars
    PROVE  /\ next_session_id' >= next_session_id
           /\ next_server' >= next_server
           /\ \A h \in DOMAIN sessions' :
                 \/ h = next_session_id
                 \/ h \in DOMAIN sessions /\ sessions'[h].node_seed = sessions[h].node_seed
<1> USE DEF NodesInv, TypeOK
<1> USE DEF sessVars, serverVars, SessionEntry
<1> DEFINE Facts == /\ next_session_id' >= next_session_id
                    /\ next_server' >= next_server
                    /\ \A h \in DOMAIN sessions' :
                          \/ h = next_session_id
                          \/ /\ h \in DOMAIN sessions
                             /\ sessions'[h].node_seed = sessions[h].node_seed
<1>1. ASSUME UNCHANGED sessVars, next_server' \in {next_server, next_server + 1}
      PROVE  Facts
  BY <1>1
<1>2. ASSUME NEW s, NewSession(s), UNCHANGED next_server PROVE Facts
  BY <1>2 DEF NewSession, Put
<1>3. ASSUME NEW t \in Rpcs, RpcStep(t) PROVE Facts
  <2>1. CASE CreateNodeFfi(t)
    BY <1>1, <2>1 DEF NewServer, CreateNodeFfi
  <2>2. CASE CommitOpenSession(t)
    BY <1>2, <2>2 DEF CommitOpenSession
  <2>3. CASE CommitAddResource(t)
    BY <2>3 DEF CommitAddResource
  <2>4. CASE AbortPendingNode(t) \/ CommitAddNode(t) \/ CommitAddResourceOrphaned(t)
    BY <1>1, <2>4 DEF AbortPendingNode, CommitAddNode, CommitAddResourceOrphaned
  <2>5. CASE \/ AddResourceFfi(t) \/ AddResourceFfiFails(t) \/ AddResourceFfiStray(t)
             \/ SyncResourceFfi(t) \/ RemoveObjectFfi(t) \/ DropServerFfi(t)
    BY <1>1, <2>5 DEF AddToServer, RemoveFromServer, AddResourceFfi, AddResourceFfiFails, AddResourceFfiStray,
       SyncResourceFfi, RemoveObjectFfi, DropServerFfi
  <2> QED BY <1>3, <2>1, <2>2, <2>3, <2>4, <2>5 DEF RpcStep
<1>4. CASE ClientRequest
  <2>1. CASE \E t \in Rpcs, s \in Seeds, p \in Ports :
               PrepareOpenSession(t, s, p) \/ PrepareAddNode(t, s, p)
    BY <1>1, <2>1 DEF PrepareOpenSession, PrepareAddNode, PrepareCreate
  <2>2. CASE \E t \in Rpcs, s \in Seeds : RemoveNode(t, s)
    BY <1>1, <2>2 DEF RemoveNode
  <2>3. CASE \E s \in Seeds : AttachSession(s)
    BY <1>2, <2>3 DEF AttachSession
  <2>4. CASE \E t \in Rpcs, h \in DOMAIN sessions : CloseSession(t, h)
    BY <2>4 DEF CloseSession, Without
  <2>5. CASE \E h \in DOMAIN sessions \cup DOMAIN subscriptions :
               SubscribeActivations(h) \/ StreamDropped(h) \/ OnSubscriptionStreamEnded(h)
    BY <1>1, <2>5 DEF SubscribeActivations, StreamDropped, OnSubscriptionStreamEnded
  <2>6. CASE \E t \in Rpcs, h \in DOMAIN sessions :
               \/ \E o \in Objects : PrepareAddResource(t, h, o)
               \/ \E r \in DOMAIN resources : SyncResourceState(t, h, r)
    BY <1>1, <2>6 DEF PrepareAddResource, SyncResourceState
  <2>7. CASE \E t \in Rpcs, h \in DOMAIN sessions, r \in DOMAIN resources :
               RemoveResource(t, h, r)
    BY <2>7 DEF RemoveResource
  <2> QED BY <1>4, <2>1, <2>2, <2>3, <2>4, <2>5, <2>6, <2>7 DEF ClientRequest
<1>5. CASE UNCHANGED vars
  BY <1>1, <1>5 DEF vars
<1> QED BY <1>3, <1>4, <1>5 DEF Next

\* A handler that adds was adding the same before, or has just begun.
LEMMA AddBegins ==
    ASSUME NodesInv, [Next]_vars, NEW t \in Rpcs, Adding(t)'
    PROVE  \/ /\ Adding(t)
              /\ rpc'[t].session = rpc[t].session /\ rpc'[t].seed = rpc[t].seed
              /\ rpc'[t].server = rpc[t].server
           \/ \E h \in DOMAIN sessions, o \in Objects : PrepareAddResource(t, h, o)
<1> USE DEF Adding, NodesInv, TypeOK, Idle
<1> DEFINE Same == rpc'[t] = rpc[t]
<1>1. ASSUME NEW u \in Rpcs, RpcStep(u) PROVE Same \/ u = t
  BY <1>1 DEF NewServer, AddToServer, RemoveFromServer, RpcStep, CreateNodeFfi, AbortPendingNode, CommitOpenSession, CommitAddNode,
     AddResourceFfi, AddResourceFfiFails, AddResourceFfiStray, CommitAddResource,
     CommitAddResourceOrphaned, SyncResourceFfi, RemoveObjectFfi, DropServerFfi
<1>2. CASE RpcStep(t)
  <2>1. CASE AddResourceFfi(t)
    BY <2>1 DEF AddToServer, AddResourceFfi
  <2>2. CASE CreateNodeFfi(t) \/ AbortPendingNode(t) \/ CommitOpenSession(t)
              \/ CommitAddNode(t)
    BY <2>2 DEF NewServer, CreateNodeFfi, AbortPendingNode, CommitOpenSession, CommitAddNode
  <2>3. CASE CommitAddResource(t)
    BY <2>3 DEF CommitAddResource
  <2>4. CASE CommitAddResourceOrphaned(t)
    BY <2>4 DEF CommitAddResourceOrphaned
  <2>5. CASE AddResourceFfiFails(t) \/ AddResourceFfiStray(t) \/ SyncResourceFfi(t)
    BY <2>5 DEF AddToServer, AddResourceFfiFails, AddResourceFfiStray, SyncResourceFfi
  <2>6. CASE RemoveObjectFfi(t) \/ DropServerFfi(t)
    <3>1. CASE RemoveObjectFfi(t)
      <4>1. PICK o : rpc' = [rpc EXCEPT ![t] = [phase |-> "remove",
                                 server |-> rpc[t].server, objs |-> rpc[t].objs \ {o}]]
        BY <3>1 DEF RemoveFromServer, RemoveObjectFfi
      <4> QED BY <4>1
    <3>2. CASE DropServerFfi(t)
      BY <3>2 DEF DropServerFfi
    <3> QED BY <2>6, <3>1, <3>2
  <2> QED BY <1>2, <2>1, <2>2, <2>3, <2>4, <2>5, <2>6 DEF RpcStep
<1>3. CASE \E h \in DOMAIN sessions, o \in Objects : PrepareAddResource(t, h, o)
  BY <1>3
<1>4. CASE ClientRequest /\ ~\E h \in DOMAIN sessions, o \in Objects :
                               PrepareAddResource(t, h, o)
  <2>1. CASE \E u \in Rpcs, s \in Seeds, p \in Ports :
               PrepareOpenSession(u, s, p) \/ PrepareAddNode(u, s, p)
    BY <2>1 DEF PrepareOpenSession, PrepareAddNode, PrepareCreate
  <2>2. CASE \E u \in Rpcs, s \in Seeds : RemoveNode(u, s)
    BY <2>2 DEF RemoveNode
  <2>3. CASE \E s \in Seeds : AttachSession(s)
    BY <2>3 DEF AttachSession
  <2>4. CASE \E u \in Rpcs, h \in DOMAIN sessions : CloseSession(u, h)
    BY <2>4 DEF CloseSession
  <2>5. CASE \E h \in DOMAIN sessions \cup DOMAIN subscriptions :
               SubscribeActivations(h) \/ StreamDropped(h) \/ OnSubscriptionStreamEnded(h)
    BY <2>5 DEF SubscribeActivations, StreamDropped, OnSubscriptionStreamEnded
  <2>6. CASE \E u \in Rpcs \ {t}, h \in DOMAIN sessions, o \in Objects :
               PrepareAddResource(u, h, o)
    BY <2>6 DEF PrepareAddResource
  <2>7. CASE \E u \in Rpcs, h \in DOMAIN sessions, r \in DOMAIN resources :
               RemoveResource(u, h, r) \/ SyncResourceState(u, h, r)
    BY <2>7 DEF RemoveResource, SyncResourceState
  <2> QED BY <1>4, <2>1, <2>2, <2>3, <2>4, <2>5, <2>6, <2>7 DEF ClientRequest
<1>5. CASE UNCHANGED vars
  BY <1>5 DEF vars
<1> QED BY <1>1, <1>2, <1>3, <1>4, <1>5 DEF Next

\* Adds stay aimed at the Node of their session, which is not replaced while the
\* session is open.
LEMMA AddsAimedStep ==
    ASSUME ServersInv, AddsAimed, [Next]_vars
    PROVE  AddsAimed'
<1> USE DEF ServersInv
<1>0. NodesInv'
  BY NodesInvStep
<1> SUFFICES ASSUME NEW t \in Rpcs, Adding(t)'
             PROVE  /\ rpc'[t].session < next_session_id'
                    /\ rpc'[t].server < next_server'
                    /\ rpc'[t].session \in DOMAIN sessions' =>
                          /\ sessions'[rpc'[t].session].node_seed = rpc'[t].seed
                          /\ nodes'[rpc'[t].seed].server = rpc'[t].server
  BY DEF AddsAimed
<1>1. /\ next_session_id \in Nat /\ next_server \in Nat
      /\ next_session_id' \in Nat /\ next_server' \in Nat
      /\ rpc[t] \in Rpc
  BY <1>0 DEF NodesInv, TypeOK
<1>2. CASE \E h \in DOMAIN sessions, o \in Objects : PrepareAddResource(t, h, o)
  <2>1. PICK h \in DOMAIN sessions, o \in Objects : PrepareAddResource(t, h, o)
    BY <1>2
  <2>2. /\ rpc'[t].session = h /\ rpc'[t].seed = sessions[h].node_seed
        /\ rpc'[t].server = nodes[sessions[h].node_seed].server
        /\ sessions[h].node_seed \in DOMAIN nodes
        /\ UNCHANGED <<nodes, sessions, next_session_id, next_server>>
    BY <2>1 DEF PrepareAddResource, regVars, sessVars, serverVars, NodesInv, TypeOK
  <2>3. h < next_session_id /\ nodes[sessions[h].node_seed].server < next_server
    BY <2>2 DEF NodesInv, TypeOK, ServersHeld
  <2> QED BY <2>2, <2>3
<1>3. CASE /\ Adding(t)
           /\ rpc'[t].session = rpc[t].session /\ rpc'[t].seed = rpc[t].seed
           /\ rpc'[t].server = rpc[t].server
  <2>1. /\ rpc[t].session < next_session_id /\ rpc[t].server < next_server
        /\ rpc[t].session \in Nat /\ rpc[t].server \in Nat
    BY <1>1, <1>3, RpcFields DEF AddsAimed, Adding
  <2>2. rpc[t].session < next_session_id' /\ rpc[t].server < next_server'
    BY <1>1, <2>1, StepFacts
  <2>3. ASSUME rpc[t].session \in DOMAIN sessions'
        PROVE  /\ sessions'[rpc[t].session].node_seed = rpc[t].seed
               /\ nodes'[rpc[t].seed].server = rpc[t].server
    <3>1. /\ rpc[t].session \in DOMAIN sessions
          /\ sessions'[rpc[t].session].node_seed = sessions[rpc[t].session].node_seed
      BY <1>1, <2>1, <2>3, StepFacts
    <3>2. /\ sessions[rpc[t].session].node_seed = rpc[t].seed
          /\ nodes[rpc[t].seed].server = rpc[t].server
      BY <1>3, <3>1 DEF AddsAimed
    <3>3. NodeKept(sessions[rpc[t].session].node_seed)
      BY <2>3, <3>1, NodeKeptStep
    <3> QED BY <3>1, <3>2, <3>3 DEF NodeKept
  <2> QED BY <1>3, <2>2, <2>3
<1> QED BY <1>2, <1>3, AddBegins

-----------------------------------------------------------------------------
\* Steps that leave the resources alone; a new session owns none.
LEMMA RelationFrame ==
    ASSUME OneRelation, UNCHANGED <<resources, by_name>>,
           DOMAIN sessions \subseteq DOMAIN sessions',
           \A h \in DOMAIN sessions : sessions'[h] = sessions[h],
           \A h \in DOMAIN sessions' \ DOMAIN sessions : sessions'[h].resources = {}
    PROVE  OneRelation'
  BY DEF OneRelation

\* Steps after which nobody claims more, and nothing that is claimed is lost.
LEMMA ClaimedFrame ==
    ASSUME Claimed,
           DOMAIN servers' \subseteq DOMAIN servers,
           \A i \in DOMAIN servers' : servers[i].objects \subseteq servers'[i].objects,
           \A x, o : \A i \in DOMAIN servers' :
               /\ ResourceClaim(x, i, o)' => ResourceClaim(x, i, o)
               /\ AddClaim(x, i, o)' => AddClaim(x, i, o)
               /\ RemoveClaim(x, i, o)' => RemoveClaim(x, i, o)
    PROVE  Claimed'
  BY DEF Claimed

\* Steps of a handler that neither claims before nor after.
LEMMA ClaimsOfOthers ==
    ASSUME NEW t \in Rpcs, \A u \in Rpcs \ {t} : rpc'[u] = rpc[u],
           rpc'[t].phase \notin {"added", "remove"}
    PROVE  \A x, i, o : /\ AddClaim(x, i, o)' => AddClaim(x, i, o)
                        /\ RemoveClaim(x, i, o)' => RemoveClaim(x, i, o)
  BY DEF AddClaim, RemoveClaim

\* insert_resource refuses what is there, so what it takes was claimed by nobody.
LEMMA ClaimsAddResourceFfi ==
    ASSUME ServersInv, Claimed, NEW t \in Rpcs, AddResourceFfi(t)
    PROVE  Claimed'
<1> USE DEF ServersInv
<1>0. PICK k, ob : k = rpc[t].server /\ ob = rpc[t].obj
  OBVIOUS
<1>1. /\ k \in DOMAIN servers /\ rpc[t].phase = "add" /\ ob \notin servers[k].objects
      /\ UNCHANGED <<nodes, resources>>
      /\ \A u \in Rpcs \ {t} : rpc'[u] = rpc[u]
      /\ rpc'[t].phase = "added" /\ rpc'[t].server = k /\ rpc'[t].obj = ob
  BY <1>0 DEF AddToServer, AddResourceFfi, InsertResource, regVars, resVars, NodesInv, TypeOK, ServersHeld
<1> DEFINE live == [servers EXCEPT ![k].objects = @ \cup {ob}]
<1>2. /\ DOMAIN live = DOMAIN servers
      /\ \A i \in DOMAIN servers : servers[i].objects \subseteq live[i].objects
      /\ ob \in live[k].objects
  BY <1>1 DEF NodesInv, TypeOK, Server
<1>3. servers' = ReleaseServer(t, k, live)
  BY <1>0 DEF AddToServer, AddResourceFfi
<1> HIDE DEF live
<1>4. /\ DOMAIN servers' \subseteq DOMAIN servers
      /\ \A i \in DOMAIN servers' : servers[i].objects \subseteq servers'[i].objects
      /\ k \in DOMAIN servers' => ob \in servers'[k].objects
  BY <1>2, <1>3, ReleaseKeeps
<1>5. \A x, i, o :
          /\ ResourceClaim(x, i, o)' <=> ResourceClaim(x, i, o)
          /\ RemoveClaim(x, i, o)' <=> RemoveClaim(x, i, o)
          /\ AddClaim(x, i, o)' => AddClaim(x, i, o) \/ (x = t /\ i = k /\ o = ob)
  BY <1>1 DEF ResourceClaim, RemoveClaim, AddClaim
<1>6. \A x : ~ResourceClaim(x, k, ob) /\ ~AddClaim(x, k, ob) /\ ~RemoveClaim(x, k, ob)
  <2>1. ob \in Objects
    BY <1>0, <1>1, RpcFields DEF NodesInv, TypeOK
  <2> QED BY <1>1, <2>1 DEF Claimed
<1> QED BY <1>4, <1>5, <1>6 DEF Claimed

\* A remove that has run gives up its claim, which was the only one.
LEMMA ClaimsRemoveObjectFfi ==
    ASSUME ServersInv, Claimed, NEW t \in Rpcs, RemoveObjectFfi(t)
    PROVE  Claimed'
<1> USE DEF ServersInv
<1>0. PICK k : k = rpc[t].server
  OBVIOUS
<1>1. PICK ob \in rpc[t].objs :
        /\ servers' = [servers EXCEPT ![k].objects = @ \ {ob}]
        /\ rpc' = [rpc EXCEPT ![t] = [phase |-> "remove", server |-> k,
                                      objs |-> rpc[t].objs \ {ob}]]
  BY <1>0 DEF RemoveFromServer, RemoveObjectFfi
<1>2. /\ k \in DOMAIN servers /\ rpc[t].phase = "remove"
      /\ UNCHANGED <<nodes, resources>>
      /\ \A u \in Rpcs \ {t} : rpc'[u] = rpc[u]
      /\ rpc'[t].phase = "remove" /\ rpc'[t].server = k
      /\ rpc'[t].objs = rpc[t].objs \ {ob}
  BY <1>0, <1>1 DEF RemoveFromServer, RemoveObjectFfi, regVars, resVars, NodesInv, TypeOK, ServersHeld
<1>3. /\ DOMAIN servers' = DOMAIN servers
      /\ \A i \in DOMAIN servers : i # k => servers'[i] = servers[i]
      /\ servers'[k].objects = servers[k].objects \ {ob}
  BY <1>1, <1>2 DEF NodesInv, TypeOK, Server
<1>4. \A x, i, o :
          /\ ResourceClaim(x, i, o)' <=> ResourceClaim(x, i, o)
          /\ AddClaim(x, i, o)' <=> AddClaim(x, i, o)
          /\ RemoveClaim(x, i, o)' => RemoveClaim(x, i, o)
  BY <1>0, <1>2 DEF ResourceClaim, RemoveClaim, AddClaim
<1>5. ob \in Objects /\ RemoveClaim(t, k, ob) /\ ~RemoveClaim(t, k, ob)'
  BY <1>0, <1>1, <1>2, RpcFields DEF RemoveClaim, NodesInv, TypeOK
<1>6. \A x : ~ResourceClaim(x, k, ob)' /\ ~AddClaim(x, k, ob)' /\ ~RemoveClaim(x, k, ob)'
  BY <1>2, <1>4, <1>5 DEF Claimed
<1> QED BY <1>3, <1>4, <1>6 DEF Claimed

\* A commit finds the name free in by_name: a resource of that name would claim
\* the object that the add has just put there.
LEMMA ClaimsCommitAddResource ==
    ASSUME ClaimsInv, OneRelation, Claimed, NEW t \in Rpcs, CommitAddResource(t)
    PROVE  OneRelation' /\ Claimed'
<1> USE DEF ClaimsInv, ServersInv
<1>0. PICK n, h, s, ob, k : /\ n = next_resource_id /\ h = rpc[t].session
                            /\ s = rpc[t].seed /\ ob = rpc[t].obj /\ k = rpc[t].server
  OBVIOUS
<1>1. /\ rpc[t].phase = "added" /\ h \in DOMAIN sessions /\ ob \in Objects
      /\ rpc'[t].phase = "idle" /\ \A u \in Rpcs \ {t} : rpc'[u] = rpc[u]
      /\ UNCHANGED <<nodes, servers>>
  BY <1>0, RpcFields DEF CommitAddResource, SessionStillOpen, Idle, regVars, serverVars,
     NodesInv, TypeOK
<1>2. sessions[h].node_seed = s /\ s \in DOMAIN nodes /\ nodes[s].server = k
  BY <1>0, <1>1 DEF AddsAimed, Adding, NodesInv, SessionsHaveTheirNode
<1>3. k \in DOMAIN servers
  BY <1>2 DEF ServersHeld
<1>4. AddClaim(t, k, ob)
  BY <1>0, <1>1 DEF AddClaim
<1>5. \A r : ~ResourceClaim(r, k, ob)
  BY <1>1, <1>3, <1>4 DEF Claimed
<1>6. <<s, ob>> \notin DOMAIN by_name
  <2>1. ASSUME NEW key \in DOMAIN by_name, key = <<s, ob>> PROVE FALSE
    <3>1. /\ by_name[key] \in DOMAIN resources
          /\ <<resources[by_name[key]].node_seed, resources[by_name[key]].obj>> = <<s, ob>>
      BY <2>1 DEF OneRelation
    <3>2. ResourceClaim(by_name[key], k, ob)
      BY <1>2, <3>1 DEF ResourceClaim
    <3> QED BY <1>5, <3>2
  <2> QED BY <2>1
<1>7. /\ n \notin DOMAIN resources
      /\ DOMAIN resources' = DOMAIN resources \cup {n}
      /\ resources'[n].node_seed = s /\ resources'[n].session = h /\ resources'[n].obj = ob
      /\ \A r \in DOMAIN resources : resources'[r] = resources[r]
  BY <1>0 DEF CommitAddResource, Put, NodesInv, TypeOK
<1>8. /\ DOMAIN by_name' = DOMAIN by_name \cup {<<s, ob>>}
      /\ by_name'[<<s, ob>>] = n
      /\ \A key \in DOMAIN by_name : by_name'[key] = by_name[key]
  BY <1>0, <1>6 DEF CommitAddResource, Put
<1>9. /\ DOMAIN sessions' = DOMAIN sessions
      /\ \A g \in DOMAIN sessions : sessions'[g].node_seed = sessions[g].node_seed
      /\ \A g \in DOMAIN sessions : g # h => sessions'[g].resources = sessions[g].resources
      /\ sessions'[h].resources = sessions[h].resources \cup {n}
  BY <1>0, <1>1 DEF CommitAddResource, NodesInv, TypeOK, SessionEntry
<1>10. OneRelation'
  <2>1. \A r \in DOMAIN resources' :
          /\ <<resources'[r].node_seed, resources'[r].obj>> \in DOMAIN by_name'
          /\ by_name'[<<resources'[r].node_seed, resources'[r].obj>>] = r
          /\ resources'[r].session \in DOMAIN sessions'
          /\ r \in sessions'[resources'[r].session].resources
          /\ resources'[r].node_seed = sessions'[resources'[r].session].node_seed
    BY <1>1, <1>2, <1>7, <1>8, <1>9 DEF OneRelation
  <2>2. \A key \in DOMAIN by_name' :
          /\ by_name'[key] \in DOMAIN resources'
          /\ key = <<resources'[by_name'[key]].node_seed, resources'[by_name'[key]].obj>>
    BY <1>7, <1>8 DEF OneRelation
  <2>3. \A g \in DOMAIN sessions' : \A r \in sessions'[g].resources :
          r \in DOMAIN resources' /\ resources'[r].session = g
    BY <1>7, <1>9 DEF OneRelation
  <2> QED BY <2>1, <2>2, <2>3 DEF OneRelation
<1>11. \A x, i, o :
          /\ ResourceClaim(x, i, o)' => ResourceClaim(x, i, o) \/ (x = n /\ i = k /\ o = ob)
          /\ RemoveClaim(x, i, o)' <=> RemoveClaim(x, i, o)
          /\ AddClaim(x, i, o)' => AddClaim(x, i, o) /\ x # t
  BY <1>1, <1>2, <1>7 DEF ResourceClaim, RemoveClaim, AddClaim
<1>12. Claimed'
  BY <1>1, <1>4, <1>5, <1>11 DEF Claimed
<1> QED BY <1>10, <1>12

\* The claims of resources that leave the maps pass to the remove that follows.
LEMMA ClaimsPass ==
    ASSUME Claimed, UNCHANGED servers, NEW t \in Rpcs, NEW k,
           rpc[t].phase = "idle", rpc'[t].phase = "remove", rpc'[t].server = k,
           \A u \in Rpcs \ {t} : rpc'[u] = rpc[u],
           \A o \in rpc'[t].objs : \E r : ResourceClaim(r, k, o) /\ r \notin DOMAIN resources',
           \A x, i, o : ResourceClaim(x, i, o)' => ResourceClaim(x, i, o)
    PROVE  Claimed'
<1>1. \A x, i, o :
          /\ AddClaim(x, i, o)' => AddClaim(x, i, o)
          /\ RemoveClaim(x, i, o)' =>
                \/ RemoveClaim(x, i, o) /\ x # t
                \/ x = t /\ i = k /\ \E r : /\ ResourceClaim(r, k, o)
                                           /\ ~ResourceClaim(r, k, o)'
  BY DEF AddClaim, RemoveClaim, ResourceClaim
<1> QED BY <1>1 DEF Claimed

\* remove_resource: the name leaves both maps and the session at once.
LEMMA ClaimsRemoveResource ==
    ASSUME ClaimsInv, OneRelation, Claimed, NEW t \in Rpcs, NEW h \in DOMAIN sessions,
           NEW r \in DOMAIN resources, RemoveResource(t, h, r)
    PROVE  OneRelation' /\ Claimed'
<1> USE DEF ClaimsInv, ServersInv
<1>0. PICK s, ob : s = resources[r].node_seed /\ ob = resources[r].obj
  OBVIOUS
<1>1. r \in sessions[h].resources /\ resources[r].session = h /\ s \in DOMAIN nodes
  BY <1>0 DEF RemoveResource, OneRelation, NodesInv, SessionsHaveTheirNode
<1>2. PICK k : k = nodes[s].server
  OBVIOUS
<1>3. /\ DOMAIN resources' = DOMAIN resources \ {r}
      /\ \A q \in DOMAIN resources' : resources'[q] = resources[q]
      /\ DOMAIN by_name' = DOMAIN by_name \ {<<s, ob>>}
      /\ \A key \in DOMAIN by_name' : by_name'[key] = by_name[key]
  BY <1>0 DEF RemoveResource, Without
<1>4. /\ DOMAIN sessions' = DOMAIN sessions
      /\ \A g \in DOMAIN sessions : sessions'[g].node_seed = sessions[g].node_seed
      /\ \A g \in DOMAIN sessions : g # h => sessions'[g].resources = sessions[g].resources
      /\ sessions'[h].resources = sessions[h].resources \ {r}
  BY DEF RemoveResource, NodesInv, TypeOK, SessionEntry
<1>5. OneRelation'
  <2>1. \A q \in DOMAIN resources' :
          /\ <<resources'[q].node_seed, resources'[q].obj>> \in DOMAIN by_name'
          /\ by_name'[<<resources'[q].node_seed, resources'[q].obj>>] = q
          /\ resources'[q].session \in DOMAIN sessions'
          /\ q \in sessions'[resources'[q].session].resources
          /\ resources'[q].node_seed = sessions'[resources'[q].session].node_seed
    BY <1>0, <1>3, <1>4 DEF OneRelation
  <2>2. \A key \in DOMAIN by_name' :
          /\ by_name'[key] \in DOMAIN resources'
          /\ key = <<resources'[by_name'[key]].node_seed, resources'[by_name'[key]].obj>>
    BY <1>0, <1>3 DEF OneRelation
  <2>3. \A g \in DOMAIN sessions' : \A q \in sessions'[g].resources :
          q \in DOMAIN resources' /\ resources'[q].session = g
    BY <1>1, <1>3, <1>4 DEF OneRelation
  <2> QED BY <2>1, <2>2, <2>3 DEF OneRelation
<1>6. /\ rpc[t].phase = "idle" /\ rpc'[t].phase = "remove" /\ rpc'[t].server = k
      /\ rpc'[t].objs = {ob} /\ UNCHANGED <<nodes, servers>>
      /\ \A u \in Rpcs \ {t} : rpc'[u] = rpc[u]
  BY <1>0, <1>1, <1>2 DEF RemoveResource, regVars, serverVars, NodesInv, TypeOK
<1>7. ResourceClaim(r, k, ob) /\ r \notin DOMAIN resources'
  BY <1>0, <1>1, <1>2, <1>3 DEF ResourceClaim
<1>8. \A x, i, o : ResourceClaim(x, i, o)' => ResourceClaim(x, i, o)
  BY <1>3, <1>6 DEF ResourceClaim
<1> QED BY <1>5, <1>6, <1>7, <1>8, ClaimsPass

\* close_session: all the resources of the session go, and nobody else's.
LEMMA ClaimsCloseSession ==
    ASSUME ClaimsInv, OneRelation, Claimed, NEW t \in Rpcs, NEW h \in DOMAIN sessions,
           CloseSession(t, h)
    PROVE  OneRelation' /\ Claimed'
<1> USE DEF ClaimsInv, ServersInv
<1>0. PICK s, owned, k : /\ s = sessions[h].node_seed
                         /\ owned = sessions[h].resources \cap DOMAIN resources
                         /\ k = nodes[s].server
  OBVIOUS
<1>1. /\ s \in DOMAIN nodes
      /\ \A r \in DOMAIN resources : r \in owned <=> resources[r].session = h
      /\ \A r \in owned : r \in DOMAIN resources /\ resources[r].node_seed = s
  <2>1. s \in DOMAIN nodes
    BY <1>0 DEF CloseSession
  <2>2. \A r \in DOMAIN resources : resources[r].session = h =>
            r \in sessions[h].resources /\ resources[r].node_seed = sessions[h].node_seed
    BY DEF OneRelation
  <2>3. \A r \in sessions[h].resources : r \in DOMAIN resources /\ resources[r].session = h
    BY DEF OneRelation
  <2> QED BY <1>0, <2>1, <2>2, <2>3
<1>2. /\ DOMAIN resources' = DOMAIN resources \ owned
      /\ \A q \in DOMAIN resources' : resources'[q] = resources[q]
      /\ DOMAIN sessions' = DOMAIN sessions \ {h}
      /\ \A g \in DOMAIN sessions' : sessions'[g] = sessions[g]
  BY <1>0 DEF CloseSession, Without
<1>3. /\ DOMAIN by_name' = DOMAIN by_name \ {<<resources[r].node_seed, resources[r].obj>> :
                                             r \in owned}
      /\ \A key \in DOMAIN by_name' : by_name'[key] = by_name[key]
  BY <1>0 DEF CloseSession, Without
<1>4. OneRelation'
  <2>1. \A q \in DOMAIN resources' :
          /\ <<resources'[q].node_seed, resources'[q].obj>> \in DOMAIN by_name'
          /\ by_name'[<<resources'[q].node_seed, resources'[q].obj>>] = q
    <3> SUFFICES ASSUME NEW q \in DOMAIN resources \ owned
                 PROVE  /\ <<resources[q].node_seed, resources[q].obj>> \in DOMAIN by_name'
                        /\ by_name'[<<resources[q].node_seed, resources[q].obj>>] = q
      BY <1>2
    <3>1. \A r \in owned : <<resources[r].node_seed, resources[r].obj>>
                              # <<resources[q].node_seed, resources[q].obj>>
      <4>1. \A r \in DOMAIN resources :
                by_name[<<resources[r].node_seed, resources[r].obj>>] = r
        BY DEF OneRelation
      <4> SUFFICES ASSUME NEW r \in owned,
                          <<resources[r].node_seed, resources[r].obj>>
                              = <<resources[q].node_seed, resources[q].obj>>
                   PROVE  FALSE
        OBVIOUS
      <4>2. by_name[<<resources[r].node_seed, resources[r].obj>>] = r
        BY <1>1, <4>1
      <4>3. by_name[<<resources[q].node_seed, resources[q].obj>>] = q
        BY <4>1
      <4> QED BY <4>2, <4>3
    <3> QED BY <1>3, <3>1 DEF OneRelation
  <2>2. \A q \in DOMAIN resources' :
          /\ resources'[q].session \in DOMAIN sessions'
          /\ q \in sessions'[resources'[q].session].resources
          /\ resources'[q].node_seed = sessions'[resources'[q].session].node_seed
    <3> SUFFICES ASSUME NEW q \in DOMAIN resources \ owned
                 PROVE  /\ resources[q].session \in DOMAIN sessions'
                        /\ q \in sessions'[resources[q].session].resources
                        /\ resources[q].node_seed
                              = sessions'[resources[q].session].node_seed
      BY <1>2
    <3>1. /\ resources[q].session \in DOMAIN sessions
          /\ q \in sessions[resources[q].session].resources
          /\ resources[q].node_seed = sessions[resources[q].session].node_seed
      BY DEF OneRelation
    <3>2. resources[q].session # h
      BY <1>1
    <3> QED BY <1>2, <3>1, <3>2
  <2>3. \A key \in DOMAIN by_name' :
          /\ by_name'[key] \in DOMAIN resources'
          /\ key = <<resources'[by_name'[key]].node_seed, resources'[by_name'[key]].obj>>
    BY <1>2, <1>3 DEF OneRelation
  <2>4. \A g \in DOMAIN sessions' : \A q \in sessions'[g].resources :
          q \in DOMAIN resources' /\ resources'[q].session = g
    BY <1>1, <1>2 DEF OneRelation
  <2> QED BY <2>1, <2>2, <2>3, <2>4 DEF OneRelation
<1>5. /\ rpc[t].phase = "idle" /\ rpc'[t].phase = "remove" /\ rpc'[t].server = k
      /\ rpc'[t].objs = {resources[r].obj : r \in owned} /\ UNCHANGED servers
      /\ \A u \in Rpcs \ {t} : rpc'[u] = rpc[u]
  BY <1>0, <1>1 DEF CloseSession, serverVars, NodesInv, TypeOK
<1>6. \A o \in rpc'[t].objs : \E r : ResourceClaim(r, k, o) /\ r \notin DOMAIN resources'
  BY <1>0, <1>1, <1>2, <1>5 DEF ResourceClaim
<1>7. /\ DOMAIN nodes' \subseteq DOMAIN nodes
      /\ \A z \in DOMAIN nodes' : nodes'[z].server = nodes[z].server
  <2>1. nodes[s] \in NodeEntry
    BY <1>1 DEF NodesInv, TypeOK
  <2>2. \/ nodes' = Without(nodes, {s})
        \/ \E n : nodes' = [nodes EXCEPT ![s].attached = n]
    BY <1>0 DEF CloseSession
  <2> QED BY <1>1, <2>1, <2>2 DEF Without, NodeEntry
<1>8. \A x, i, o : ResourceClaim(x, i, o)' => ResourceClaim(x, i, o)
  BY <1>2, <1>7 DEF ResourceClaim
<1> QED BY <1>4, <1>5, <1>6, <1>8, ClaimsPass

\* The compensating remove of an add whose session closed takes over the claim of
\* the add, unless it is aimed at another Node.
LEMMA ClaimsOrphaned ==
    ASSUME ServersInv, OneRelation, Claimed, NEW t \in Rpcs,
           CommitAddResourceOrphaned(t), ~crossed'
    PROVE  OneRelation' /\ Claimed'
<1> USE DEF ServersInv
<1>0. PICK ob, k, s : ob = rpc[t].obj /\ k = rpc[t].server /\ s = rpc[t].seed
  OBVIOUS
<1>1. /\ rpc[t].phase = "added" /\ UNCHANGED <<nodes, sessions, resources, by_name, servers>>
      /\ \A u \in Rpcs \ {t} : rpc'[u] = rpc[u]
  BY DEF CommitAddResourceOrphaned, regVars, sessVars, resVars, serverVars, NodesInv, TypeOK
<1>2. OneRelation'
  BY <1>1, RelationFrame
<1>3. CASE s \in DOMAIN nodes
  <2>1. /\ rpc'[t].phase = "remove" /\ rpc'[t].server = k /\ rpc'[t].objs = {ob}
    <3>1. /\ crossed' = (crossed \/ nodes[s].server # k)
          /\ rpc' = [rpc EXCEPT ![t] = [phase |-> "remove", server |-> nodes[s].server,
                                        objs |-> {ob}]]
      BY <1>0, <1>3 DEF CommitAddResourceOrphaned
    <3>2. nodes[s].server = k
      BY <3>1, Zenon
    <3> QED BY <3>1, <3>2 DEF NodesInv, TypeOK
  <2>2. \A x, i, o :
          /\ ResourceClaim(x, i, o)' <=> ResourceClaim(x, i, o)
          /\ AddClaim(x, i, o)' => AddClaim(x, i, o) /\ x # t
          /\ RemoveClaim(x, i, o)' =>
                \/ RemoveClaim(x, i, o) /\ x # t
                \/ x = t /\ AddClaim(t, i, o)
    BY <1>0, <1>1, <2>1 DEF ResourceClaim, AddClaim, RemoveClaim
  <2> QED BY <1>1, <1>2, <2>2 DEF Claimed
<1>4. CASE s \notin DOMAIN nodes
  <2>1. rpc'[t].phase = "idle"
    BY <1>0, <1>4 DEF CommitAddResourceOrphaned, Idle, NodesInv, TypeOK
  <2>2. \A x, i, o : ResourceClaim(x, i, o)' => ResourceClaim(x, i, o)
    BY <1>1 DEF ResourceClaim
  <2> QED BY <1>1, <1>2, <2>1, <2>2, ClaimsOfOthers, ClaimedFrame
<1> QED BY <1>3, <1>4

\* Every step of the daemon keeps the indexes in step and the claims exclusive,
\* unless it aims a compensating remove at another Node.
LEMMA ClaimsStep ==
    ASSUME ClaimsInv, OneRelation, Claimed, [Next]_vars, ~crossed'
    PROVE  OneRelation' /\ Claimed'
<1> USE DEF ClaimsInv, ServersInv
<1>0. NodesInv'
  BY NodesInvStep
<1>1. ASSUME UNCHANGED <<nodes, sessions, resources, by_name>>,
             NEW t \in Rpcs, \A u \in Rpcs \ {t} : rpc'[u] = rpc[u],
             rpc'[t].phase \notin {"added", "remove"},
             DOMAIN servers' \subseteq DOMAIN servers,
             \A i \in DOMAIN servers' : servers[i].objects \subseteq servers'[i].objects
      PROVE  OneRelation' /\ Claimed'
  <2>1. \A x, i, o : ResourceClaim(x, i, o)' => ResourceClaim(x, i, o)
    BY <1>1 DEF ResourceClaim
  <2>2. Claimed'
    BY <1>1, <2>1, ClaimsOfOthers, ClaimedFrame
  <2> QED BY <1>1, <2>2, RelationFrame
<1>2. ASSUME UNCHANGED <<nodes, sessions, resources, by_name, rpc, servers>>
      PROVE  OneRelation' /\ Claimed'
  <2>1. \A x, i, o : /\ ResourceClaim(x, i, o)' => ResourceClaim(x, i, o)
                     /\ AddClaim(x, i, o)' => AddClaim(x, i, o)
                     /\ RemoveClaim(x, i, o)' => RemoveClaim(x, i, o)
    BY <1>2 DEF ResourceClaim, AddClaim, RemoveClaim
  <2> QED BY <1>2, <2>1, RelationFrame, ClaimedFrame
<1>3. ASSUME NEW t \in Rpcs, CreateNodeFfi(t) PROVE OneRelation' /\ Claimed'
  <2>0. PICK n : n = next_server
    OBVIOUS
  <2>1. /\ UNCHANGED <<nodes, sessions, resources, by_name>>
        /\ \A u \in Rpcs \ {t} : rpc'[u] = rpc[u]
        /\ rpc'[t].phase = "created"
        /\ n \notin DOMAIN servers /\ DOMAIN servers' = DOMAIN servers \cup {n}
        /\ \A i \in DOMAIN servers : servers'[i] = servers[i]
    BY <1>3, <2>0 DEF NewServer, CreateNodeFfi, Put, regVars, sessVars, resVars, NodesInv, TypeOK
  <2>2. \A x, i, o : /\ ResourceClaim(x, i, o)' => ResourceClaim(x, i, o)
                     /\ AddClaim(x, i, o)' => AddClaim(x, i, o)
                     /\ RemoveClaim(x, i, o)' => RemoveClaim(x, i, o)
    BY <2>1, ClaimsOfOthers DEF ResourceClaim
  <2>3. \A x, o : ~ResourceClaim(x, n, o) /\ ~AddClaim(x, n, o) /\ ~RemoveClaim(x, n, o)
    <3>1. \A x, o : ~ResourceClaim(x, n, o) /\ ~RemoveClaim(x, n, o)
      BY <2>1 DEF ResourceClaim, RemoveClaim, ServersHeld
    <3>2. \A x, o : ~AddClaim(x, n, o)
      BY <2>0 DEF AddClaim, AddsAimed, Adding, NodesInv, TypeOK
    <3> QED BY <3>1, <3>2
  <2>4. Claimed'
    BY <2>1, <2>2, <2>3 DEF Claimed
  <2> QED BY <2>1, <2>4, RelationFrame
<1>4. ASSUME NEW t \in Rpcs, CommitOpenSession(t) \/ CommitAddNode(t)
      PROVE  OneRelation' /\ Claimed'
  <2>0. PICK s : s = rpc[t].seed
    OBVIOUS
  <2>1. s \in Seeds /\ s \notin DOMAIN nodes /\ SessionsOf(s) = {}
    BY <1>4, <2>0, NodesCommitFinds DEF CommitOpenSession, CommitAddNode, Creating
  <2>2. /\ DOMAIN nodes' = DOMAIN nodes \cup {s}
        /\ \A z \in DOMAIN nodes : nodes'[z] = nodes[z]
        /\ UNCHANGED <<resources, by_name, servers>>
        /\ rpc'[t].phase = "idle" /\ \A u \in Rpcs \ {t} : rpc'[u] = rpc[u]
    BY <1>4, <2>0, <2>1 DEF CommitOpenSession, CommitAddNode, Put, Idle, resVars, serverVars,
       NodesInv, TypeOK
  <2>3. ASSUME NEW r \in DOMAIN resources PROVE resources[r].node_seed # s
    <3>1. PICK h : h = resources[r].session
      OBVIOUS
    <3>2. h \in DOMAIN sessions /\ resources[r].node_seed = sessions[h].node_seed
      BY <3>1 DEF OneRelation
    <3>3. sessions[h].node_seed # s
      BY <2>1, <3>2 DEF SessionsOf
    <3> QED BY <3>2, <3>3
  <2>4. \A x, i, o : ResourceClaim(x, i, o)' => ResourceClaim(x, i, o)
    BY <2>2, <2>3 DEF ResourceClaim
  <2>5. Claimed'
    BY <2>2, <2>4, ClaimsOfOthers, ClaimedFrame
  <2>6. CASE CommitOpenSession(t)
    <3>1. /\ DOMAIN sessions \subseteq DOMAIN sessions'
          /\ \A h \in DOMAIN sessions : sessions'[h] = sessions[h]
          /\ \A h \in DOMAIN sessions' \ DOMAIN sessions : sessions'[h].resources = {}
      BY <2>6 DEF CommitOpenSession, NewSession, Put, NodesInv, TypeOK
    <3> QED BY <2>2, <2>5, <3>1, RelationFrame
  <2>7. CASE CommitAddNode(t)
    BY <2>2, <2>5, <2>7, RelationFrame DEF CommitAddNode, sessVars
  <2> QED BY <1>4, <2>6, <2>7
<1>5. ASSUME NEW s \in Seeds, AttachSession(s) PROVE OneRelation' /\ Claimed'
  <2>1. /\ DOMAIN sessions \subseteq DOMAIN sessions'
        /\ \A h \in DOMAIN sessions : sessions'[h] = sessions[h]
        /\ \A h \in DOMAIN sessions' \ DOMAIN sessions : sessions'[h].resources = {}
        /\ UNCHANGED <<resources, by_name, servers, rpc>>
    BY <1>5 DEF AttachSession, NewSession, Put, resVars, serverVars, NodesInv, TypeOK
  <2>2. /\ DOMAIN nodes' = DOMAIN nodes
        /\ \A z \in DOMAIN nodes : nodes'[z].server = nodes[z].server
    BY <1>5 DEF AttachSession, NodesInv, TypeOK, NodeEntry
  <2>3. \A x, i, o : /\ ResourceClaim(x, i, o)' => ResourceClaim(x, i, o)
                     /\ AddClaim(x, i, o)' => AddClaim(x, i, o)
                     /\ RemoveClaim(x, i, o)' => RemoveClaim(x, i, o)
    BY <2>1, <2>2 DEF ResourceClaim, AddClaim, RemoveClaim
  <2>4. Claimed'
    BY <2>1, <2>3, ClaimedFrame
  <2> QED BY <2>1, <2>4, RelationFrame
<1>6. ASSUME NEW t \in Rpcs, NEW s \in Seeds, RemoveNode(t, s)
      PROVE  OneRelation' /\ Claimed'
  <2>1. /\ UNCHANGED <<sessions, resources, by_name, servers>>
        /\ rpc[t].phase = "idle" /\ rpc'[t].phase = "remove" /\ rpc'[t].objs = {}
        /\ \A u \in Rpcs \ {t} : rpc'[u] = rpc[u]
        /\ DOMAIN nodes' \subseteq DOMAIN nodes
        /\ \A z \in DOMAIN nodes' : nodes'[z] = nodes[z]
    BY <1>6 DEF RemoveNode, Without, sessVars, resVars, serverVars, NodesInv, TypeOK
  <2>2. \A x, i, o : /\ ResourceClaim(x, i, o)' => ResourceClaim(x, i, o)
                     /\ AddClaim(x, i, o)' => AddClaim(x, i, o)
                     /\ RemoveClaim(x, i, o)' => RemoveClaim(x, i, o)
    BY <2>1 DEF ResourceClaim, AddClaim, RemoveClaim
  <2>3. Claimed'
    BY <2>1, <2>2, ClaimedFrame
  <2> QED BY <2>1, <2>3, RelationFrame
<1>7. ASSUME NEW t \in Rpcs,
             AddResourceFfiFails(t) \/ SyncResourceFfi(t) \/ DropServerFfi(t)
      PROVE  OneRelation' /\ Claimed'
  <2>1. /\ UNCHANGED <<nodes, sessions, resources, by_name>>
        /\ servers' = ReleaseServer(t, rpc[t].server, servers)
        /\ rpc'[t].phase = "idle" /\ \A u \in Rpcs \ {t} : rpc'[u] = rpc[u]
    BY <1>7 DEF AddResourceFfiFails, SyncResourceFfi, DropServerFfi, Idle, regVars, sessVars,
       resVars, NodesInv, TypeOK
  <2>2. /\ DOMAIN servers' \subseteq DOMAIN servers
        /\ \A i \in DOMAIN servers' : servers[i].objects \subseteq servers'[i].objects
    BY <2>1, ReleaseKeeps
  <2> QED BY <1>1, <2>1, <2>2
<1>8. ASSUME NEW t \in Rpcs, AddResourceFfiStray(t) PROVE OneRelation' /\ Claimed'
  <2>1. PICK o \in Objects : servers' = ReleaseServer(t, rpc[t].server,
            [servers EXCEPT ![rpc[t].server].objects = @ \cup {o}])
    BY <1>8 DEF AddToServer, AddResourceFfiStray
  <2> DEFINE live == [servers EXCEPT ![rpc[t].server].objects = @ \cup {o}]
  <2>2. /\ DOMAIN live = DOMAIN servers
        /\ \A i \in DOMAIN servers : servers[i].objects \subseteq live[i].objects
    BY DEF NodesInv, TypeOK, Server
  <2>3. servers' = ReleaseServer(t, rpc[t].server, live)
    BY <2>1
  <2>4. /\ UNCHANGED <<nodes, sessions, resources, by_name>>
        /\ rpc'[t].phase = "idle" /\ \A u \in Rpcs \ {t} : rpc'[u] = rpc[u]
    BY <1>8 DEF AddToServer, AddResourceFfiStray, Idle, regVars, sessVars, resVars, NodesInv, TypeOK
  <2> HIDE DEF live
  <2>5. /\ DOMAIN servers' \subseteq DOMAIN servers
        /\ \A i \in DOMAIN servers' : servers[i].objects \subseteq servers'[i].objects
    BY <2>2, <2>3, ReleaseKeeps
  <2> QED BY <1>1, <2>4, <2>5
<1>9. ASSUME NEW t \in Rpcs, AddResourceFfi(t) PROVE OneRelation' /\ Claimed'
  <2>1. UNCHANGED <<sessions, resources, by_name>>
    BY <1>9 DEF AddToServer, AddResourceFfi, sessVars, resVars
  <2> QED BY <1>9, <2>1, RelationFrame, ClaimsAddResourceFfi
<1>10. ASSUME NEW t \in Rpcs, RemoveObjectFfi(t) PROVE OneRelation' /\ Claimed'
  <2>1. UNCHANGED <<sessions, resources, by_name>>
    BY <1>10 DEF RemoveFromServer, RemoveObjectFfi, sessVars, resVars
  <2> QED BY <1>10, <2>1, RelationFrame, ClaimsRemoveObjectFfi
<1>11. ASSUME NEW t \in Rpcs, AbortPendingNode(t) PROVE OneRelation' /\ Claimed'
  <2>1. /\ UNCHANGED <<nodes, sessions, resources, by_name, servers>>
        /\ rpc'[t].phase = "idle" /\ \A u \in Rpcs \ {t} : rpc'[u] = rpc[u]
    BY <1>11 DEF AbortPendingNode, Idle, sessVars, resVars, serverVars, NodesInv, TypeOK
  <2> QED BY <1>1, <2>1
<1>12. ASSUME NEW t \in Rpcs, RpcStep(t) PROVE OneRelation' /\ Claimed'
  BY <1>3, <1>4, <1>7, <1>8, <1>9, <1>10, <1>11, <1>12, ClaimsCommitAddResource,
     ClaimsOrphaned DEF RpcStep
<1>13. CASE ClientRequest
  <2>1. ASSUME NEW t \in Rpcs, NEW s \in Seeds, NEW p \in Ports,
               PrepareOpenSession(t, s, p) \/ PrepareAddNode(t, s, p)
        PROVE  OneRelation' /\ Claimed'
    <3>1. /\ UNCHANGED <<nodes, sessions, resources, by_name, servers>>
          /\ rpc'[t].phase = "create" /\ \A u \in Rpcs \ {t} : rpc'[u] = rpc[u]
      BY <2>1 DEF PrepareOpenSession, PrepareAddNode, PrepareCreate, sessVars, resVars,
         serverVars, NodesInv, TypeOK
    <3> QED BY <1>1, <3>1
  <2>2. ASSUME NEW t \in Rpcs, NEW h \in DOMAIN sessions, NEW o \in Objects,
               PrepareAddResource(t, h, o)
        PROVE  OneRelation' /\ Claimed'
    <3>1. /\ UNCHANGED <<nodes, sessions, resources, by_name, servers>>
          /\ rpc'[t].phase = "add" /\ \A u \in Rpcs \ {t} : rpc'[u] = rpc[u]
      BY <2>2 DEF PrepareAddResource, regVars, sessVars, resVars, serverVars, NodesInv, TypeOK
    <3> QED BY <1>1, <3>1
  <2>3. ASSUME NEW t \in Rpcs, NEW h \in DOMAIN sessions, NEW r \in DOMAIN resources,
               SyncResourceState(t, h, r)
        PROVE  OneRelation' /\ Claimed'
    <3>1. /\ UNCHANGED <<nodes, sessions, resources, by_name, servers>>
          /\ rpc'[t].phase = "sync" /\ \A u \in Rpcs \ {t} : rpc'[u] = rpc[u]
      BY <2>3 DEF SyncResourceState, regVars, sessVars, resVars, serverVars, NodesInv, TypeOK
    <3> QED BY <1>1, <3>1
  <2>4. ASSUME NEW h, SubscribeActivations(h) \/ StreamDropped(h)
                         \/ OnSubscriptionStreamEnded(h)
        PROVE  OneRelation' /\ Claimed'
    BY <1>2, <2>4 DEF SubscribeActivations, StreamDropped, OnSubscriptionStreamEnded,
       regVars, sessVars, resVars, serverVars
  <2> QED BY <1>5, <1>6, <1>13, <2>1, <2>2, <2>3, <2>4, ClaimsRemoveResource,
          ClaimsCloseSession DEF ClientRequest
<1>14. CASE UNCHANGED vars
  BY <1>2, <1>14 DEF vars
<1> QED BY <1>12, <1>13, <1>14 DEF Next

\* A remove that was aimed at another Node is not forgotten.
LEMMA CrossedStays ==
    ASSUME [Next]_vars, crossed
    PROVE  crossed'
<1>1. ASSUME NEW t \in Rpcs, RpcStep(t) PROVE crossed'
  <2>1. CASE CommitAddResourceOrphaned(t)
    BY <2>1, Zenon DEF CommitAddResourceOrphaned
  <2>2. CASE CreateNodeFfi(t) \/ AbortPendingNode(t) \/ CommitOpenSession(t)
             \/ CommitAddNode(t) \/ CommitAddResource(t)
    BY <2>2 DEF NewServer, CreateNodeFfi, AbortPendingNode, CommitOpenSession, CommitAddNode,
       CommitAddResource
  <2>3. CASE AddResourceFfi(t) \/ AddResourceFfiFails(t) \/ AddResourceFfiStray(t)
             \/ SyncResourceFfi(t) \/ RemoveObjectFfi(t) \/ DropServerFfi(t)
    BY <2>3 DEF AddToServer, RemoveFromServer, AddResourceFfi, AddResourceFfiFails, AddResourceFfiStray, SyncResourceFfi,
       RemoveObjectFfi, DropServerFfi
  <2> QED BY <1>1, <2>1, <2>2, <2>3 DEF RpcStep
<1>2. CASE ClientRequest
  BY <1>2 DEF ClientRequest, PrepareOpenSession, PrepareAddNode, PrepareCreate, RemoveNode,
     AttachSession, CloseSession, SubscribeActivations, StreamDropped,
     OnSubscriptionStreamEnded, PrepareAddResource, RemoveResource, SyncResourceState
<1>3. CASE UNCHANGED vars
  BY <1>3 DEF vars
<1> QED BY <1>1, <1>2, <1>3 DEF Next

\* State::new satisfies the invariant, and every step keeps it.
LEMMA ClaimsInvariant == Spec => []ClaimsInv
<1>1. Init => ClaimsInv
  <2> SUFFICES ASSUME Init PROVE ClaimsInv
    OBVIOUS
  <2>1. /\ DOMAIN sessions = {} /\ DOMAIN resources = {} /\ DOMAIN by_name = {}
        /\ DOMAIN servers = {} /\ \A t \in Rpcs : rpc[t].phase = "idle"
    BY DEF Init, EmptyMap, Idle
  <2>2. OneRelation /\ Claimed /\ AddsAimed
    BY <2>1 DEF OneRelation, Claimed, AddsAimed, Adding
  <2> QED BY <2>2, ServersInvInit DEF ClaimsInv
<1>2. ClaimsInv /\ [Next]_vars => ClaimsInv'
  <2> SUFFICES ASSUME ClaimsInv, [Next]_vars PROVE ClaimsInv'
    OBVIOUS
  <2>1. ServersInv' /\ AddsAimed'
    BY ServersInvStep, AddsAimedStep DEF ClaimsInv
  <2>2. ASSUME ~crossed' PROVE OneRelation' /\ Claimed'
    <3>1. ~crossed
      BY <2>2, CrossedStays
    <3>2. OneRelation /\ Claimed
      BY <3>1 DEF ClaimsInv
    <3> QED BY <2>2, <3>2, ClaimsStep
  <2> QED BY <2>1, <2>2 DEF ClaimsInv
<1> QED BY <1>1, <1>2, PTL DEF Spec

\* resources, by_name and the sessions' sets stay one relation under any number
\* of concurrent adds, removes and closes, as long as no compensating remove was
\* aimed at another Node.
THEOREM IndexesCorrect == Spec => []IndexesAgree
<1>1. ClaimsInv => IndexesAgree
  BY DEF ClaimsInv, IndexesAgree
<1> QED BY <1>1, ClaimsInvariant, PTL

\* No deferred remove takes away an object of another session, and every object
\* that a resource, an add or a remove stands for is there, under the same
\* condition.
THEOREM ClaimsCorrect == Spec => []ClaimsExclusive
<1>1. ClaimsInv => ClaimsExclusive
  BY ClaimedIsOneClaimant DEF ClaimsInv, ClaimsExclusive
<1> QED BY <1>1, ClaimsInvariant, PTL
=============================================================================
