------------------------- MODULE MCChannelMapElement -------------------------
EXTENDS ChannelMapElement

Io(id) == [id |-> id, labels |-> 2]

\* The other client: the name and the ids of the element, and a bad id.
MCRequests ==
    {[name |-> "m", inputs |-> <<>>, outputs |-> <<Io("output0")>>],
     [name |-> "n", inputs |-> <<Io("w")>>, outputs |-> <<Io("output0")>>],
     [name |-> "m", inputs |-> <<>>, outputs |-> <<Io("bad id")>>]}

MCDefaultIds == [inputs |-> <<"input0", "input1">>, outputs |-> <<"output0", "output1">>]

Sink(id, n) == [id |-> id, declared |-> n, negotiated |-> 0]
Src(id, n, map) == [id |-> id, declared |-> 0, negotiated |-> n, map |-> map]
To(input, ch) == [input |-> input, ch |-> ch]
Field(key, value) == [key |-> key, value |-> value]
Map(fields) == [set |-> TRUE, fields |-> fields]

\* Two mono sinks and a stereo src; one sink and two srcs, with a map that does not
\* parse and with one that does; a map that names no input.
MCPadConfigs ==
    LET Two(map) == [sinks |-> <<Sink("", 1)>>, srcs |-> <<Src("o", 2, map), Src("p", 1, NoMap)>>]
    IN  {[sinks |-> <<Sink("", 1), Sink("w", 1)>>, srcs |-> <<Src("", 2, NoMap)>>],
         Two(Map(<<Field(0, BadValue)>>)),
         Two(Map(<<Field(0, Null)>>)),
         [sinks |-> <<Sink("", 1)>>, srcs |-> <<Src("o", 2, Map(<<Field(0, To("q", 0))>>))>>]}

MCActiveMaps == {[c \in 0..1 |-> IF c = 0 THEN To("w", 0) ELSE Unrouted]}
=============================================================================
