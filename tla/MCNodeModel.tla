------------------------------ MODULE MCNodeModel ------------------------------
(* A bounded instance of NodeModel: an RTP file of one leg, one of two legs on *)
(* the same interface, and MXL flow definitions with and without an id.        *)
EXTENDS NodeModel

CONSTANT none

Leg(i, d, e) == [iface |-> i, src |-> i, dst |-> d, enabled |-> e, refclks |-> {}]
File(t, n, f, legs, clk, dom, flow, label) ==
    [transport |-> t, name |-> n, format |-> f, legs |-> legs, refclks |-> clk, domain |-> dom,
     flow |-> flow, mxlDomain |-> none, label |-> label, caps |-> FALSE]

OneLeg == File("rtp", "a", "video", <<Leg("e1", "d1", TRUE)>>, {"gmid"}, 5, none, "A")
TwoLegs == File("rtp", "a", "video", <<Leg("e1", "0.0.0.0", TRUE), Leg("e1", "d2", FALSE)>>,
                {"gmid", "traceable"}, none, none, "B")
Other == File("rtp", "b", "mux", <<Leg("e2", "d1", TRUE)>>, {"localmac"}, none, none, "C")
Mxl == File("mxl", "a", "audio", <<>>, {"localmac"}, none, "f1", "M")
MxlOpen == File("mxl", "a", "audio", <<>>, {"localmac"}, none, none, "N")
Unbound == File("rtp", "a", "video", <<Leg("", "d1", TRUE)>>, {"gmid"}, 5, none, "U")

MCFiles == {OneLeg, TwoLegs, Other, Mxl, MxlOpen, Unbound}
St(on, d, f, file) == [on |-> on, dst |-> d, enabled |-> FALSE, flow |-> f, file |-> file]
MCStaged == {St(TRUE, "auto", none, none), St(FALSE, "d2", none, none),
             St(TRUE, "d2", "f2", OneLeg), St(TRUE, "d1", "f2", none)}
=============================================================================
