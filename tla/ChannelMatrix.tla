---------------------------- MODULE ChannelMatrix ----------------------------
(***************************************************************************)
(* From the pads and active maps of nmosaudiochannelmap to the matrices of *)
(* its mixer, and back from the active maps that controllers activate      *)
(* (gst-nmos-rs channel_mapping/, nmosaudiochannelmap/).                   *)
(*                                                                         *)
(* A sink pad is [id, declared, negotiated], a src pad has a map as well;  *)
(* "" is an id that is not set, 0 a channel count that is not known.       *)
(* Channels count from 0.  An entry of an active map is [input, ch].       *)
(***************************************************************************)
EXTENDS Naturals, Sequences, FiniteSets, SequencesExt

Unrouted == [input |-> "", ch |-> 0]
NoMap == [set |-> FALSE, fields |-> <<>>]

\* One field of an active-map structure: NULL, or a value that does not parse.
Null == [input |-> "NULL", ch |-> 0]
BadValue == [input |-> "bad", ch |-> 0]
BadKey == 1000

Position(ids, id) == SelectInSeq(ids, LAMBDA x : x = id)

\* The sum of the first i channel counts: how many channels they stand for.
ChannelsTo(ns, i) == UNION {{j} \X (0..(ns[j] - 1)) : j \in 1..i}
SumTo(ns, i) == Cardinality(ChannelsTo(ns, i))

-----------------------------------------------------------------------------
\* Pads.

\* resolve_pad_channels: 0 when it fails.
ResolvePadChannels(pad) ==
    IF pad.negotiated = 0 THEN pad.declared
    ELSE IF pad.declared \in {0, pad.negotiated} THEN pad.negotiated ELSE 0

\* The snapshots that fixate_and_build takes.
SinkSnapshots(pads) ==
    [i \in 1..Len(pads) |-> [id |-> pads[i].id, channels |-> ResolvePadChannels(pads[i])]]

SrcSnapshots(pads) ==
    [i \in 1..Len(pads) |-> [id |-> pads[i].id, channels |-> ResolvePadChannels(pads[i]),
                             map |-> pads[i].map]]

Usable(snaps) == snaps # <<>> /\ \A i \in 1..Len(snaps) : snaps[i].channels > 0

\* The ids of the response fill in those that are not set.
FilledIn(snaps, ids) ==
    [i \in 1..Len(snaps) |-> IF snaps[i].id # "" THEN snaps[i]
                             ELSE [snaps[i] EXCEPT !.id = ids[i]]]

-----------------------------------------------------------------------------
\* FrozenTopology.

\* Mutant: every input starts at the start of the bus.
BusOffsets_Shared(channels) == [i \in 1..Len(channels) |-> 0]

\* The inputs share the bus, one after the other.
BusOffsets(channels) == [i \in 1..Len(channels) |-> SumTo(channels, i - 1)]

FromSnapshots(sinks, srcs) ==
    LET channels == [i \in 1..Len(sinks) |-> sinks[i].channels]
    IN  [input_ids |-> [i \in 1..Len(sinks) |-> sinks[i].id],
         output_ids |-> [i \in 1..Len(srcs) |-> srcs[i].id],
         input_channels |-> channels,
         output_channels |-> [i \in 1..Len(srcs) |-> srcs[i].channels],
         input_bus_offsets |-> BusOffsets(channels),
         input_bus_channels |-> SumTo(channels, Len(channels))]

InputBusIndex(t, input, ch) == t.input_bus_offsets[Position(t.input_ids, input)] + ch

-----------------------------------------------------------------------------
\* Active maps.  Routes are a set of [out, input, ch].

\* parse_active_map_structure.
MapParses(map) ==
    LET Key(i) == map.fields[i].key
        n == Len(map.fields)
    IN  /\ \A i \in 1..n : Key(i) # BadKey /\ map.fields[i].value # BadValue
        /\ \A i, j \in 1..n : i # j => Key(i) # Key(j)

ParseActiveMapStructure(map) ==
    {[out |-> f.key, input |-> f.value.input, ch |-> f.value.ch] :
        f \in {g \in Range(map.fields) : g.value # Null}}

\* default_identity_routes: one src takes the channels of all sinks in turn,
\* several take those of the sink with their number.
DefaultIdentityRoutes(t, srcIndex, outputChannels) ==
    LET Logical(x) == SumTo(t.input_channels, x[1] - 1) + x[2]
    IN
    IF Len(t.output_ids) = 1
    THEN {[out |-> Logical(x), input |-> t.input_ids[x[1]], ch |-> x[2]] :
             x \in {x \in (1..Len(t.input_ids)) \X (0..outputChannels) :
                       x[2] < t.input_channels[x[1]] /\ Logical(x) < outputChannels}}
    ELSE IF srcIndex > Len(t.input_ids) \/ t.input_ids[srcIndex] = "" THEN {}
    ELSE {[out |-> c, input |-> t.input_ids[srcIndex], ch |-> c] :
             c \in {c \in 0..outputChannels : c < outputChannels
                                              /\ c < t.input_channels[srcIndex]}}

RoutesForSrc(t, src, srcIndex) ==
    IF src.map.set THEN ParseActiveMapStructure(src.map)
    ELSE DefaultIdentityRoutes(t, srcIndex, src.channels)

\* active_map_entries_from_routes: what is out of range is left out, and an
\* empty input id is null to libnvnmos.
EntriesFromRoutes(outputChannels, routes) ==
    [o \in 0..(outputChannels - 1) |->
        LET here == {r \in routes : r.out = o /\ r.input # ""}
        IN  IF here = {} THEN Unrouted
            ELSE LET r == CHOOSE r \in here : TRUE IN [input |-> r.input, ch |-> r.ch]]

-----------------------------------------------------------------------------
\* Matrices: TRUE where the coefficient is 1.

\* validate_active_map_for_output.
ValidForOutput(t, outputChannels, routes) ==
    /\ \A r \in routes : /\ r.out < outputChannels
                         /\ LET i == Position(t.input_ids, r.input)
                            IN  IF i = 0 THEN FALSE ELSE r.ch < t.input_channels[i]
    /\ \A r, q \in routes : r.out = q.out => r = q

\* build_input_bus_mix_matrix, for sink i.
BuildInputBusMixMatrix(t, i) ==
    [b \in 0..(t.input_bus_channels - 1) |-> [c \in 0..(t.input_channels[i] - 1) |->
        b = t.input_bus_offsets[i] + c]]

\* build_output_mix_matrix, for valid routes.
BuildOutputMixMatrix(t, outputChannels, routes) ==
    [o \in 0..(outputChannels - 1) |-> [b \in 0..(t.input_bus_channels - 1) |->
        \E r \in routes : r.out = o /\ InputBusIndex(t, r.input, r.ch) = b]]

\* InternalGraph::build, without the elements between the matrices.
BuildGraph(t, routes) ==
    [inputs |-> [i \in 1..Len(t.input_ids) |-> BuildInputBusMixMatrix(t, i)],
     outputs |-> [i \in 1..Len(t.output_ids) |->
                     BuildOutputMixMatrix(t, t.output_channels[i], routes[i])]]

\* routes_from_activation, without its validation.
RoutesFromActivation(map) ==
    {[out |-> o, input |-> map[o].input, ch |-> map[o].ch] :
        o \in {o \in DOMAIN map : map[o].input # ""}}

-----------------------------------------------------------------------------
\* What comes out: the channels of the sinks that reach channel o of src i.
Heard(graph, i, o) ==
    {x \in UNION {{s} \X UNION {DOMAIN graph.inputs[s][b] : b \in DOMAIN graph.inputs[s]} :
                     s \in 1..Len(graph.inputs)} :
        \E b \in DOMAIN graph.inputs[x[1]] :
            graph.inputs[x[1]][b][x[2]] /\ graph.outputs[i][o][b]}

\* The reference: the channel that the entry of an active map names.
Named(ids, entry) ==
    IF entry.input = "" THEN {} ELSE {<<Position(ids, entry.input), entry.ch>>}
=============================================================================
