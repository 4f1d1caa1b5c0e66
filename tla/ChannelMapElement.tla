-------------------------- MODULE ChannelMapElement --------------------------
(***************************************************************************)
(* The nmosaudiochannelmap element as a client of the daemon: it registers *)
(* its pads as a channel mapping when it goes to PAUSED, builds the mixer, *)
(* publishes the initial active maps and applies activations as they come, *)
(* while another client of the Node does anything (gst-nmos-rs             *)
(* nmosaudiochannelmap/imp.rs, channel_mapping_session.rs).                *)
(***************************************************************************)
EXTENDS ChannelMappings

CONSTANTS
    Element,        \* the session of the element
    ElementHandler, \* the daemon's handler of its requests, which it makes one
                    \* at a time
    ElementName,    \* channelmapping-name
    PadConfigs      \* what the application may set on the pads: [sinks, srcs]

ASSUME ElementAssumption ==
    /\ Element \in Sessions /\ ElementHandler \in Handlers /\ ElementName \in Names
    /\ \A p \in PadConfigs : Len(p.sinks) \in Nat /\ Len(p.srcs) \in Nat

\* Channels and their counts are numbers, and a default id is not empty.
ASSUME PadsAssumption ==
    /\ \A p \in PadConfigs :
          /\ \A i \in 1..Len(p.sinks) : /\ p.sinks[i].declared \in Nat
                                        /\ p.sinks[i].negotiated \in Nat
                                        /\ DefaultIds["inputs"][i] # ""
          /\ \A i \in 1..Len(p.srcs) :
                /\ p.srcs[i].declared \in Nat
                /\ p.srcs[i].negotiated \in Nat
                /\ \A f \in Range(p.srcs[i].map.fields) : f.key \in Nat /\ f.value.ch \in Nat
    /\ \A m \in ActiveMaps : \A c \in DOMAIN m : m[c].ch \in Nat

VARIABLES
    pads,       \* the pads and their properties
    phase,      \* where change_state is
    snap,       \* the snapshots of the pads that fixation works on
    handle,     \* ChannelMappingSession::channelmapping, or NoHandle
    topology,   \* the frozen topology, or NoTopology
    graph,      \* the matrices of the internal graph, or NoGraph
    output,     \* the output whose active map is published next
    fixated,
    hand,       \* the event that the activation task works on
    residue,    \* a build that failed left elements in the bin
    retried,    \* history: fixation went on with a mapping added earlier
    astray      \* history: outputs whose last activation came before fixation
                \* was over or was refused, or that a stray Sync or a stale
                \* activation wrote to

element == <<pads, phase, snap, handle, topology, graph, output, fixated, hand,
             residue, retried, astray>>
allVars == <<vars, element>>

NoHandle == 0
NoTopology == [input_ids |-> <<>>, output_ids |-> <<>>]
NoGraph == [inputs |-> <<>>, outputs |-> <<>>]
NoSnap == [sinks |-> <<>>, srcs |-> <<>>]
NoEvent == [stage |-> "none"]

InitElement ==
    /\ Init
    /\ pads \in PadConfigs
    /\ phase = "null" /\ snap = NoSnap /\ handle = NoHandle
    /\ topology = NoTopology /\ graph = NoGraph /\ output = 1
    /\ fixated = FALSE /\ hand = NoEvent /\ residue = FALSE
    /\ retried = FALSE /\ astray = {}

Built == graph # NoGraph

\* Without a mapping, and without a request for one, the output is another's.
Astray(o) ==
    IF handle = NoHandle /\ phase # "adding" THEN astray ELSE astray \cup {o}

-----------------------------------------------------------------------------
\* The application.

\* Pads are requested and released, and their properties are set, until they are
\* frozen.  Init has the changes before a mapping is added.
ConfigurePads(p) ==
    /\ phase = "ready"
    /\ handle # NoHandle
    /\ p # pads
    /\ pads' = p
    /\ UNCHANGED <<vars, phase, snap, handle, topology, graph, output, fixated, hand,
                   residue, retried, astray>>

\* ChannelMappingSession::open ends with the subscription.
NullToReady ==
    /\ phase = "null"
    /\ SubscribeChannelmapping(Element)
    /\ phase' = "ready"
    /\ UNCHANGED <<pads, snap, handle, topology, graph, output, fixated, hand, residue,
                   retried, astray>>

\* build_add_channel_mapping_request.
AddRequest(s) ==
    [name |-> ElementName,
     inputs |-> Effective("inputs", [i \in 1..Len(s.sinks) |->
                    [id |-> s.sinks[i].id, labels |-> s.sinks[i].channels]]),
     outputs |-> Effective("outputs", [i \in 1..Len(s.srcs) |->
                    [id |-> s.srcs[i].id, labels |-> s.srcs[i].channels]])]

\* READY to PAUSED: fixate_and_build takes the snapshots and adds the mapping,
\* unless an earlier attempt did.  Pads without a channel count end it.
ReadyToPaused ==
    LET s == [sinks |-> SinkSnapshots(pads.sinks), srcs |-> SrcSnapshots(pads.srcs)]
    IN  /\ phase = "ready"
        /\ Usable(s.sinks) /\ Usable(s.srcs)
        /\ snap' = s
        /\ IF handle = NoHandle
           THEN /\ PrepareAddChannelmapping(ElementHandler, Element, AddRequest(s))
                /\ phase' = "adding"
                /\ UNCHANGED retried
           ELSE /\ phase' = "building"
                /\ retried' = TRUE
                /\ UNCHANGED vars
        /\ UNCHANGED <<pads, handle, topology, graph, output, fixated, hand, residue, astray>>

\* READY to NULL, from PAUSED as well.
ReadyToNull ==
    /\ phase \in {"ready", "paused"}
    /\ phase' = "stop"
    /\ UNCHANGED <<vars, pads, snap, handle, topology, graph, output, fixated, hand,
                   residue, retried, astray>>

-----------------------------------------------------------------------------
\* fixate_and_build.

\* The answer to AddChannelMapping has the ids.
AddAnswered ==
    /\ phase = "adding"
    /\ handler[ElementHandler] = Idle
    /\ LET mine == {c \in DOMAIN cms : cms[c].session = Element}
           Response(type, snaps) ==
               FilledIn(snaps, [i \in 1..Len(snaps) |-> Effective(type, snaps)[i].id])
       IN  IF mine = {}
           THEN /\ phase' = "failed"
                /\ UNCHANGED <<snap, handle>>
           ELSE /\ phase' = "building"
                /\ handle' = CHOOSE c \in mine : TRUE
                /\ snap' = [sinks |-> Response("inputs", snap.sinks),
                            srcs |-> Response("outputs", snap.srcs)]
    /\ UNCHANGED <<vars, pads, topology, graph, output, fixated, hand, residue, retried,
                   astray>>

SnapTopology == FromSnapshots(snap.sinks, snap.srcs)
SrcRoutes(t, i) == RoutesForSrc(t, snap.srcs[i], i)

MapsParse == \A i \in 1..Len(snap.srcs) : snap.srcs[i].map.set => MapParses(snap.srcs[i].map)

\* The active maps are parsed, then the graph is built and the pads are frozen.
\* A build that fails leaves its elements in the bin, where their names are in
\* the way of any later build.
BuildInternals ==
    LET t == SnapTopology
        valid == \A i \in 1..Len(snap.srcs) :
                     ValidForOutput(t, snap.srcs[i].channels, SrcRoutes(t, i))
    IN  /\ phase = "building"
        /\ IF ~MapsParse \/ residue \/ ~valid
           THEN /\ phase' = "failed"
                /\ residue' = (residue \/ MapsParse)
                /\ UNCHANGED topology
           ELSE /\ phase' = "built"
                /\ topology' = t
                /\ UNCHANGED residue
        /\ UNCHANGED <<vars, pads, snap, handle, graph, output, fixated, hand, retried, astray>>

\* The topology and the graph have a mutex each.
StoreGraph ==
    /\ phase = "built"
    /\ graph' = BuildGraph(topology, [i \in 1..Len(snap.srcs) |-> SrcRoutes(topology, i)])
    /\ phase' = "sync"
    /\ output' = 1
    /\ UNCHANGED <<vars, pads, snap, handle, topology, fixated, hand, residue, retried, astray>>

\* active_map_entries_for_src.
InitialEntries(i) ==
    EntriesFromRoutes(snap.srcs[i].channels, SrcRoutes(SnapTopology, i))

SyncOutput ==
    /\ phase = "sync"
    /\ SyncChannelmappingState(ElementHandler, handle, snap.srcs[output].id,
                               InitialEntries(output))
    /\ phase' = "syncing"
    /\ UNCHANGED <<pads, snap, handle, topology, graph, output, fixated, hand, residue,
                   retried, astray>>

\* Mutant: the answer is not looked at.
SyncSucceeds_Assumed(h) == TRUE

\* An error of the daemon ends the fixation.
SyncSucceeds(h) == SyncAccepted(h)

SyncOutputFfi ==
    /\ phase = "syncing"
    /\ SyncChannelmappingFfi(ElementHandler)
    /\ phase' = IF SyncSucceeds(ElementHandler) THEN "synced" ELSE "failed"
    /\ UNCHANGED <<pads, snap, handle, topology, graph, output, fixated, hand, residue,
                   retried, astray>>

SyncAnswered ==
    /\ phase = "synced"
    /\ IF output < Len(snap.srcs)
       THEN phase' = "sync" /\ output' = output + 1 /\ UNCHANGED fixated
       ELSE phase' = "paused" /\ fixated' = TRUE /\ UNCHANGED output
    /\ UNCHANGED <<vars, pads, snap, handle, topology, graph, hand, residue, retried, astray>>

\* teardown_internals, after a fixation that failed and before the close: first
\* the graph, then the topology, and the pads thaw.
TakeGraph ==
    /\ phase \in {"failed", "stop"}
    /\ graph' = NoGraph
    /\ phase' = IF phase = "stop" THEN "stopping" ELSE "failing"
    /\ UNCHANGED <<vars, pads, snap, handle, topology, output, fixated, hand, residue,
                   retried, astray>>

ForgetTopology ==
    /\ phase \in {"failing", "stopping"}
    /\ topology' = NoTopology
    /\ snap' = NoSnap
    /\ output' = 1
    /\ phase' = IF phase = "stopping" THEN "closing" ELSE "ready"
    /\ UNCHANGED <<vars, pads, handle, graph, fixated, hand, residue, retried, astray>>

\* DetachedChannelMappingSession::close aborts the activation task; what the task
\* has handed to call_async finds no topology or no graph.  The application is
\* done with the element.
CloseElement ==
    /\ phase = "closing"
    /\ CloseSession(Element)
    /\ phase' = "closed"
    /\ handle' = NoHandle
    /\ fixated' = FALSE
    /\ hand' = NoEvent
    /\ pads' = NoSnap
    /\ residue' = FALSE /\ retried' = FALSE /\ astray' = {}
    /\ UNCHANGED <<snap, topology, graph, output>>

-----------------------------------------------------------------------------
\* The activation task takes one event at a time.

TakeEvent ==
    /\ hand = NoEvent
    /\ ReadEvent(Element)
    /\ LET ev == Head(slot[Element].queue)
       IN  hand' = [stage |-> "read", act |-> ev.act, output |-> ev.output, map |-> ev.map]
    /\ UNCHANGED <<pads, phase, snap, handle, topology, graph, output, fixated, residue,
                   retried, astray>>

Done == hand' = [stage |-> "done", act |-> hand.act]
Fail == Done /\ astray' = Astray(hand.output)

\* apply_activation clones the topology, before fixation none, and checks the map
\* against it.
CloneTopology ==
    /\ hand.stage = "read"
    /\ LET i == Position(topology.output_ids, hand.output)
           routes == RoutesFromActivation(hand.map)
       IN  IF i = 0
           THEN Fail
           ELSE IF ~ValidForOutput(topology, topology.output_channels[i], routes)
           THEN Fail
           ELSE /\ hand' = [stage |-> "routed", act |-> hand.act, output |-> hand.output,
                            index |-> i, mix |-> BuildOutputMixMatrix(topology,
                                                    topology.output_channels[i], routes)]
                /\ UNCHANGED astray
    /\ UNCHANGED <<vars, pads, phase, snap, handle, topology, graph, output, fixated,
                   residue, retried>>

\* set_output_matrix, under the mutex of the graph.  The topology that was cloned
\* may be that of an earlier build, in which another output had this number.
SetOutputMatrix ==
    /\ hand.stage = "routed"
    /\ IF hand.index > Len(graph.outputs)
       THEN Fail /\ UNCHANGED graph
       ELSE /\ graph' = [graph EXCEPT !.outputs[hand.index] = hand.mix]
            /\ Done
            /\ astray' = astray \cup ({topology.output_ids[hand.index]} \ {hand.output})
    /\ UNCHANGED <<vars, pads, phase, snap, handle, topology, output, fixated, residue, retried>>

\* The ack may come too late.
AckEvent ==
    /\ hand.stage = "done"
    /\ hand' = NoEvent
    /\ IF hand.act \in DOMAIN pending THEN AckChannelmappingActivation(Element, hand.act)
       ELSE UNCHANGED vars
    /\ UNCHANGED <<pads, phase, snap, handle, topology, graph, output, fixated, residue,
                   retried, astray>>

-----------------------------------------------------------------------------
\* The Node.

ActivateOutput(o, m) ==
    /\ Activate(o, m)
    /\ astray' = IF fixated THEN astray \ {o} ELSE Astray(o)
    /\ UNCHANGED <<pads, phase, snap, handle, topology, graph, output, fixated, hand,
                   residue, retried>>

DispatchOutput ==
    /\ Dispatch
    /\ astray' = IF thread'.pc = "waiting" THEN astray ELSE Astray(thread.output)
    /\ UNCHANGED <<pads, phase, snap, handle, topology, graph, output, fixated, hand,
                   residue, retried>>

ElementStep ==
    \/ \E p \in PadConfigs : ConfigurePads(p)
    \/ NullToReady \/ ReadyToPaused \/ ReadyToNull
    \/ AddAnswered \/ BuildInternals \/ StoreGraph
    \/ SyncOutput \/ SyncOutputFfi \/ SyncAnswered
    \/ TakeGraph \/ ForgetTopology \/ CloseElement
    \/ TakeEvent \/ CloneTopology \/ SetOutputMatrix \/ AckEvent

\* A Sync of the other client, still on its way when its mapping is gone, is aimed
\* by name and id, and may meet the mapping of the element.
OthersSyncFfi(h) ==
    /\ SyncChannelmappingFfi(h)
    /\ astray' = Astray(handler[h].output)
    /\ UNCHANGED <<pads, phase, snap, handle, topology, graph, output, fixated, hand,
                   residue, retried>>

OthersStep ==
    \/ \E s \in Sessions \ {Element}, h \in Handlers \ {ElementHandler} :
          \/ ClientStep(s, h)
          \/ AddChannelmappingFfi(h)
          \/ CommitAddChannelmapping(h)
          \/ StreamEnded(s)
    \/ AddChannelmappingFfi(ElementHandler)
    \/ CommitAddChannelmapping(ElementHandler)
    \/ \E n \in Names : RemoveChannelmappingFfi(n)
    \/ LeaveCallback

Next ==
    \/ ElementStep
    \/ \E k \in DOMAIN lib.res, m \in ActiveMaps : k[1] = "outputs" /\ ActivateOutput(k[2], m)
    \/ DispatchOutput
    \/ \E h \in Handlers \ {ElementHandler} : OthersSyncFfi(h)
    \/ OthersStep /\ UNCHANGED element

Spec == InitElement /\ [][Next]_allVars

-----------------------------------------------------------------------------
\* No activation of the output is on its way to the mixer.
Settled(o) ==
    /\ thread.pc = "merged" => thread.output # o
    /\ hand.stage \in {"read", "routed"} => hand.output # o
    /\ \A i \in 1..Len(slot[Element].queue) : slot[Element].queue[i].output # o

RegisteredInputs == Range(topology.input_ids) = cms[handle].inputs
DistinctPads == IsInjective(topology.input_ids) /\ IsInjective(topology.output_ids)

\* What comes out of a fixated element is what IS-08 shows: each channel of an
\* output carries the channel of the input that the active map of libnvnmos names,
\* through both matrices, however activations, timeouts and the other client
\* interleave, unless the last activation of the output overlapped the fixation or
\* was answered with a failure, or a Sync of the other client or an activation
\* checked against an earlier build went astray.
HeardIsMapped ==
    fixated /\ Built /\ phase = "paused" /\ RegisteredInputs /\ DistinctPads =>
        \A i \in 1..Len(topology.output_ids) :
            LET o == topology.output_ids[i]
                map == lib.res[<<"outputs", o>>]
            IN  o \notin astray /\ Settled(o) =>
                    \A c \in DOMAIN map :
                        Heard(graph, i, c) = Named(topology.input_ids, map[c])

\* A fixated element has its mapping, whose outputs are its src pads channel by
\* channel; its inputs are the sink pads, and no two pads share an id, unless a
\* retry skipped the add.
FixatedIsRegistered ==
    fixated /\ phase = "paused" =>
        /\ handle \in DOMAIN cms
        /\ cms[handle].session = Element
        /\ \A i \in 1..Len(topology.output_ids) :
              /\ topology.output_ids[i] \in cms[handle].outputs
              /\ DOMAIN lib.res[<<"outputs", topology.output_ids[i]>>]
                     = 0..(topology.output_channels[i] - 1)
        /\ ~retried => RegisteredInputs /\ DistinctPads
=============================================================================
