------------------------------ MODULE NodeModel ------------------------------
(***************************************************************************)
(* The IS-04 and IS-05 resources of one Node inside libnvnmos: adding and  *)
(* removing RTP and MXL Senders and Receivers, the IS-05 activation of what*)
(* a controller staged, and the application's own report of an activation  *)
(* (nvnmos_impl.cpp, nvnmos.cpp).  Every operation holds the write lock of *)
(* the model, so each is one step.                                         *)
(***************************************************************************)
EXTENDS Naturals, Sequences, FiniteSets, Bags, SequencesExt

CONSTANTS
    Files,      \* transport files: [transport, name, format, legs, refclks,
                \* domain, flow, mxlDomain, label, caps]
    Staged,     \* what a controller stages: [on, dst, enabled, flow, file]
    NoFile,     \* no transport file, a null
    MaxOps      \* bound on the operations of a behaviour

\* A file has finitely many legs.
ASSUME LegsAssumption == \A file \in Files : IsFiniteSet(DOMAIN file.legs)

VARIABLES
    res,        \* node_resources: <<type, name>> -> [bindings, subscribed,
                \* label, caps]
    conn,       \* connection_resources: <<side, name>> -> [staged, active,
                \* served, constraints, pending]
    configs,    \* settings: senders and receivers -> the transport file
    defaults,   \* settings: annotation_defaults
    refCounts,  \* settings: interface_bindings
    interfaces, \* the interfaces of the Node resource: how often each is listed
    clock,      \* clk0 of the Node, with the ptp_domain kept in settings
    app,        \* what the application last applied or reported
    torn,       \* resources whose last report was rejected half way
    ops

vars == <<res, conn, configs, defaults, refCounts, interfaces, clock, app, torn, ops>>
settings == <<configs, defaults>>

AutoParam == "auto"
\* Nothing runs.
Off == [on |-> FALSE, params |-> <<>>, label |-> "", caps |-> FALSE]
EmptyMap == [x \in {} |-> 0]
With(f, k, v) == [j \in DOMAIN f \cup {k} |-> IF j = k THEN v ELSE f[j]]
Without(f, K) == [j \in DOMAIN f \ K |-> f[j]]
Key(side, file) == <<side, file.name>>

(***************************************************************************)
(* What a transport file says.                                             *)
(***************************************************************************)

\* get_format: the media types a transport carries.
Formats(transport) ==
    IF transport = "rtp" THEN {"video", "audio", "data", "mux"}
                         ELSE {"video", "audio", "data"}

\* get_session_description_transport_params: a Sender sends to its multicast
\* or unicast address, "auto" for 0.0.0.0; a leg marked inactive is disabled.
TransportParams(side, file) ==
    [leg \in DOMAIN file.legs |->
        [src |-> file.legs[leg].src,
         dst |-> IF side = "sender" /\ file.legs[leg].dst = "0.0.0.0"
                   THEN AutoParam ELSE file.legs[leg].dst,
         enabled |-> file.legs[leg].enabled]]

\* get_interface_name or the x-nvnmos-iface of every leg; "" when the address
\* belongs to no interface of the host.
InterfaceNames(file) == [leg \in DOMAIN file.legs |-> file.legs[leg].iface]

\* The checks made before anything is changed: a name, a media type of the
\* transport, an interface for every leg, a source address for a Sender's.
Accepted(side, file) ==
    /\ file.name # ""
    /\ file.format \in Formats(file.transport)
    /\ \A leg \in DOMAIN file.legs :
        /\ file.legs[leg].iface # ""
        /\ side = "sender" => file.legs[leg].src # "none"

\* has_no_receiver_caps: the caps attribute asks for an unconstrained
\* Receiver, and a mux Receiver never gets a constraint set.
Unconstrained(side, file) == side = "receiver" /\ (file.caps \/ file.format = "mux")

\* get_session_description_ts_refclks, for the first leg: its own ts-refclk
\* attributes, or those of the session.
RefClks(file) ==
    IF file.legs[1].refclks # {} THEN file.legs[1].refclks ELSE file.refclks

\* make_node_clock: a PTP grandmaster, a traceable one without an id, or the
\* internal clock; the domain stays when the file names none.
NodeClock(file) ==
    LET clks == RefClks(file) IN
    [ref |-> IF "gmid" \in clks THEN "gmid"
             ELSE IF "traceable" \in clks THEN "null gmid" ELSE "internal",
     traceable |-> "traceable" \in clks,
     domain |-> IF "gmid" \in clks /\ file.domain # NoFile THEN file.domain ELSE clock.domain]

(***************************************************************************)
(* Resolution of "auto" (resolve_auto).                                    *)
(***************************************************************************)

\* A leg of an RTP Sender: the address of its constraint, then that of the
\* configured file, then a source-specific multicast address of its own.
ResolveRtp(side, file, params) ==
    [leg \in DOMAIN params |->
        LET own == TransportParams(side, file)[leg] IN
        [src |-> IF params[leg].src = AutoParam THEN own.src ELSE params[leg].src,
         dst |-> IF params[leg].dst # AutoParam THEN params[leg].dst
                 ELSE IF side = "sender" /\ own.dst # AutoParam THEN own.dst
                 ELSE IF side = "sender" THEN "ssm" ELSE "default",
         enabled |-> params[leg].enabled]]

\* resolve_mxl_domain_id and resolve_mxl_flow_id: what the file constrains,
\* a null domain, a new flow id; a Receiver's flow id is never "auto".
ResolveMxl(side, file, params) ==
    [params EXCEPT ![1] =
        [mxlDomain |-> IF @.mxlDomain = AutoParam THEN file.mxlDomain ELSE @.mxlDomain,
         flow |-> IF @.flow = AutoParam /\ side = "sender"
                    THEN IF file.flow # NoFile THEN file.flow ELSE "fresh" ELSE @.flow]]

\* make_node_implementation_auto_resolver
Resolve(side, file, params) ==
    IF file.transport = "rtp" THEN ResolveRtp(side, file, params)
                              ELSE ResolveMxl(side, file, params)

AllAuto(side, file) ==
    IF file.transport = "rtp"
    THEN [leg \in DOMAIN file.legs |-> [src |-> AutoParam, dst |-> AutoParam, enabled |-> TRUE]]
    ELSE <<[mxlDomain |-> AutoParam, flow |-> IF side = "sender" THEN AutoParam ELSE NoFile]>>

(***************************************************************************)
(* The interfaces of the Node, with a reference count for each             *)
(* (update_node_interfaces).                                               *)
(***************************************************************************)

Occurrences(names, i) == Cardinality({leg \in DOMAIN names : names[leg] = i})

\* One reference less for every leg; the last one takes the count with it.
Dropped(counts, names) ==
    [i \in {j \in DOMAIN counts : counts[j] > Occurrences(names, j)} |->
        counts[i] - Occurrences(names, i)]

Added(counts, names) ==
    [i \in DOMAIN counts \cup ToSet(names) |->
        (IF i \in DOMAIN counts THEN counts[i] ELSE 0) + Occurrences(names, i)]

\* Mutant: a resource drops each of its interfaces once.
UpdateNodeInterfaces_OncePerResource(removed, added) ==
    LET left == Dropped(refCounts, SetToSeq(ToSet(removed))) IN
    /\ refCounts' = Added(left, added)
    /\ interfaces' = (interfaces (-) SetToBag(ToSet(removed) \ DOMAIN left))
                     (+) SetToBag(ToSet(added) \ DOMAIN left)

\* update_node_interfaces: the references of what goes, then those of what comes;
\* an interface that lost its last one goes from the Node, where its first entry
\* is erased, and one that has its first is pushed to the end.
UpdateNodeInterfaces(removed, added) ==
    LET left == Dropped(refCounts, removed) IN
    /\ refCounts' = Added(left, added)
    /\ interfaces' = (interfaces (-) SetToBag(ToSet(removed) \ DOMAIN left))
                     (+) SetToBag(ToSet(added) \ DOMAIN left)

(***************************************************************************)
(* Adding and removing.                                                    *)
(***************************************************************************)

Resources(side, file) ==
    IF side = "sender"
    THEN <<<<"source", file.name>>, <<"flow", file.name>>, <<"sender", file.name>>>>
    ELSE <<<<"receiver", file.name>>>>

\* insert_resource throws on a resource that exists; what was inserted before
\* it stays.
InsertedBefore(ids) ==
    LET dups == {n \in DOMAIN ids : ids[n] \in DOMAIN res}
    IN  IF dups = {} THEN ToSet(ids)
        ELSE {ids[n] : n \in {m \in DOMAIN ids : \A d \in dups : m < d}}

NewResource(side, file) ==
    [bindings |-> InterfaceNames(file), subscribed |-> FALSE, label |-> file.label,
     caps |-> Unconstrained(side, file)]

NewConnection(side, file) ==
    [staged |-> [on |-> FALSE, params |-> AllAuto(side, file), file |-> NoFile],
     active |-> [on |-> FALSE, file |-> NoFile,
                 params |-> Resolve(side, file, AllAuto(side, file))],
     served |-> NoFile, pending |-> FALSE]

\* The end of every add: the annotation defaults are written before the
\* inserts that may throw, and the Node, its clock and the settings follow.
InsertAll(side, file, ck) ==
    LET ids == Resources(side, file)
        key == Key(side, file)
        put == InsertedBefore(ids)
        ok == put = ToSet(ids) /\ key \notin DOMAIN conn
    IN
    /\ defaults' = [i \in DOMAIN defaults \cup ToSet(ids) |->
                        IF i \in ToSet(ids) THEN file.label ELSE defaults[i]]
    /\ res' = [i \in DOMAIN res \cup put |->
                   IF i \in put THEN NewResource(side, file) ELSE res[i]]
    /\ UNCHANGED torn
    /\ \/ /\ ok
          /\ conn' = With(conn, key, NewConnection(side, file))
          /\ UpdateNodeInterfaces(<<>>, InterfaceNames(file))
          /\ clock' = ck
          /\ configs' = With(configs, key, file)
          /\ app' = With(app, key, Off)
       \/ /\ ~ok
          /\ UNCHANGED <<conn, refCounts, interfaces, clock, configs, app>>

\* node_implementation_add_rtp_sender_, and only it, sets the clock.
AddRtpSender(file) ==
    /\ file.transport = "rtp" /\ Accepted("sender", file)
    /\ InsertAll("sender", file, NodeClock(file))

\* node_implementation_add_rtp_receiver_
AddRtpReceiver(file) ==
    /\ file.transport = "rtp" /\ Accepted("receiver", file)
    /\ InsertAll("receiver", file, clock)

\* node_implementation_add_mxl_sender_
AddMxlSender(file) ==
    /\ file.transport = "mxl" /\ Accepted("sender", file)
    /\ InsertAll("sender", file, clock)

\* node_implementation_add_mxl_receiver_
AddMxlReceiver(file) ==
    /\ file.transport = "mxl" /\ Accepted("receiver", file)
    /\ InsertAll("receiver", file, clock)

\* Mutant: the Flow and the Source of a Sender stay.
RemoveConnection_KeepsFlow(side, name) ==
    LET key == <<side, name>>
        gone == {key}
    IN
    /\ key \in DOMAIN res
    /\ conn' = Without(conn, {key})
    /\ res' = Without(res, gone)
    /\ UpdateNodeInterfaces(res[key].bindings, <<>>)
    /\ configs' = Without(configs, {key})
    /\ defaults' = Without(defaults, gone)
    /\ app' = Without(app, {key})
    /\ torn' = torn \ {key}
    /\ UNCHANGED clock

\* The bindings are read from the resource; the connection goes first, then
\* the Sender, its Flow and its Source.
RemoveConnection(side, name) ==
    LET key == <<side, name>>
        gone == IF side = "sender" THEN {key, <<"flow", name>>, <<"source", name>>} ELSE {key}
    IN
    /\ key \in DOMAIN res
    /\ conn' = Without(conn, {key})
    /\ res' = Without(res, gone)
    /\ UpdateNodeInterfaces(res[key].bindings, <<>>)
    /\ configs' = Without(configs, {key})
    /\ defaults' = Without(defaults, gone)
    /\ app' = Without(app, {key})
    /\ torn' = torn \ {key}
    /\ UNCHANGED clock

(***************************************************************************)
(* Activation.                                                             *)
(***************************************************************************)

\* The /transportfile of an RTP Sender: its configured format with the active
\* parameters, the label of the Sender and the clock of the Node now.
\* make_node_implementation_transportfile_setter
Served(key, params, ck) ==
    [params |-> params, label |-> res[key].label, clock |-> ck]

\* Mutant: an MXL Receiver without a flow id is activated.
Effective_NullFlow(key, active) ==
    LET file == configs[key] IN
    IF ~active.on THEN Off
    ELSE [on |-> TRUE, params |-> active.params,
          label |-> IF active.file # NoFile THEN active.file.label ELSE res[key].label,
          caps |-> res[key].caps]

\* make_node_implementation_connection_activation_handler: the transport file
\* of the callback, Off for a deactivation.  A Receiver's comes from the
\* staged file or its configured one, and an MXL Receiver without a flow id is
\* deactivated.
Effective(key, active) ==
    LET file == configs[key] IN
    IF ~active.on \/ (file.transport = "mxl" /\ active.params[1].flow = NoFile) THEN Off
    ELSE [on |-> TRUE, params |-> active.params,
          label |-> IF active.file # NoFile THEN active.file.label ELSE res[key].label,
          caps |-> res[key].caps]

IsRtpSender(key) == key[1] = "sender" /\ configs[key].transport = "rtp"

\* A PATCH of /staged: the parser refuses a file of another format, and the
\* staged parameters of an RTP Receiver follow the file (external: nmos-cpp).
PatchStaged(key, s) ==
    LET file == configs[key]
        old == conn[key].staged.params
        params == IF file.transport = "mxl"
                  THEN [old EXCEPT ![1].flow = IF key[1] = "sender" THEN file.flow ELSE s.flow]
                  ELSE [leg \in DOMAIN old |->
                          [old[leg] EXCEPT !.dst = s.dst, !.enabled = (leg = 1 \/ s.enabled)]]
    IN
    /\ key \in DOMAIN conn /\ ~conn[key].pending
    /\ s.file # NoFile => /\ key[1] = "receiver" /\ file.transport = "rtp"
                          /\ s.file.format = file.format
    /\ conn' = [conn EXCEPT ![key].staged = [on |-> s.on, params |-> params, file |-> s.file],
                            ![key].pending = TRUE]
    /\ UNCHANGED <<res, settings, refCounts, interfaces, clock, app, torn>>

\* The activation thread of nmos-cpp: resolve, write /active, /transportfile
\* and the subscription, then the callback, whose refusal rolls nothing back.
ActivateStaged(key, applied) ==
    LET file == configs[key]
        staged == conn[key].staged
        active == [on |-> staged.on, file |-> staged.file,
                   params |-> Resolve(key[1], file, staged.params)]
        served == IF IsRtpSender(key) THEN Served(key, active.params, clock) ELSE NoFile
    IN
    /\ key \in DOMAIN conn /\ conn[key].pending
    /\ conn' = [conn EXCEPT ![key].active = active, ![key].served = served,
                            ![key].pending = FALSE]
    /\ res' = [res EXCEPT ![key].subscribed = staged.on]
    /\ IF applied
         THEN app' = [app EXCEPT ![key] = Effective(key, active)] /\ torn' = torn \ {key}
         ELSE torn' = torn \cup {key} /\ UNCHANGED app
    /\ UNCHANGED <<settings, refCounts, interfaces, clock>>

\* What the application runs when it reports a file of its own.
Reported(file, params) ==
    IF file = NoFile THEN Off
    ELSE [on |-> TRUE, params |-> params, label |-> file.label, caps |-> file.caps]

\* node_implementation_activate_rtp_connection_: the application reports an
\* SDP file, or NoFile for a deactivation, which leaves the parameters.
ReportRtp(key, file) ==
    LET ck == IF key[1] = "sender" /\ file # NoFile THEN NodeClock(file) ELSE clock
        old == conn[key].active
        params == IF file # NoFile THEN TransportParams(key[1], file) ELSE old.params
        active == [on |-> file # NoFile, params |-> params,
                   file |-> IF file # NoFile /\ key[1] = "receiver" THEN file ELSE old.file]
    IN
    /\ clock' = ck
    /\ conn' = [conn EXCEPT ![key].active = active,
                            ![key].served = IF IsRtpSender(key) THEN Served(key, params, ck) ELSE @]
    /\ res' = [res EXCEPT ![key].subscribed = file # NoFile]
    /\ app' = [app EXCEPT ![key] = Reported(file, params)]
    /\ torn' = torn \ {key}

\* node_implementation_activate_mxl_connection_: master_enable is written
\* before a flow definition without an id throws, and the throw skips the
\* parameters and the subscription.
ReportMxl(key, file) ==
    LET on == file # NoFile
        active == [conn[key].active EXCEPT !.on = on,
                      !.params = IF on THEN <<[mxlDomain |-> file.mxlDomain, flow |-> file.flow]>>
                                       ELSE @]
    IN
    /\ UNCHANGED clock
    /\ \/ /\ on => file.flow # NoFile
          /\ conn' = [conn EXCEPT ![key].active = active]
          /\ res' = [res EXCEPT ![key].subscribed = on]
          /\ app' = [app EXCEPT ![key] = Reported(file, active.params)]
          /\ torn' = torn \ {key}
       \/ /\ on /\ file.flow = NoFile
          /\ conn' = [conn EXCEPT ![key].active.on = TRUE]
          /\ torn' = torn \cup {key}
          /\ UNCHANGED <<res, app>>

\* node_implementation_activate_connection
Report(key, file) ==
    /\ key \in DOMAIN res
    /\ IF configs[key].transport = "rtp" THEN ReportRtp(key, file) ELSE ReportMxl(key, file)
    /\ UNCHANGED <<settings, refCounts, interfaces>>

(***************************************************************************)
(* The specification.                                                      *)
(***************************************************************************)

\* node_implementation_init: the Node and the Device, an internal clock.
Init ==
    /\ res = EmptyMap /\ conn = EmptyMap /\ configs = EmptyMap /\ defaults = EmptyMap
    /\ refCounts = EmptyMap /\ interfaces = EmptyBag
    /\ clock = [ref |-> "internal", traceable |-> FALSE, domain |-> 0]
    /\ app = EmptyMap /\ torn = {} /\ ops = 0

Reportable(key, file) ==
    file # NoFile => file.transport = configs[key].transport /\ file.name = key[2]

Next ==
    /\ ops < MaxOps /\ ops' = ops + 1
    /\ \/ \E file \in Files :
              AddRtpSender(file) \/ AddRtpReceiver(file) \/ AddMxlSender(file) \/ AddMxlReceiver(file)
       \/ \E key \in DOMAIN configs : RemoveConnection(key[1], key[2])
       \/ \E key \in DOMAIN configs, s \in Staged : PatchStaged(key, s)
       \/ \E key \in DOMAIN configs, applied \in BOOLEAN : ActivateStaged(key, applied)
       \/ \E key \in DOMAIN configs, file \in Files \cup {NoFile} :
              Reportable(key, file) /\ Report(key, file)

Spec == Init /\ [][Next]_vars

(***************************************************************************)
(* Properties.                                                             *)
(***************************************************************************)

\* A Sender has its Source, Flow, connection and configuration, a Receiver its
\* connection and configuration, and nothing outlives them: a failed add and
\* a remove leave no resource half there (insert_resource throws in the
\* middle of four inserts).
ResourcesWhole ==
    /\ DOMAIN conn = DOMAIN configs
    /\ DOMAIN res = DOMAIN configs
                    \cup {<<t, k[2]>> : t \in {"source", "flow"},
                                        k \in {j \in DOMAIN configs : j[1] = "sender"}}
    /\ DOMAIN defaults = DOMAIN res

\* The legs of all Senders and Receivers that are bound to an interface.
BoundTo(i) ==
    UNION {{key} \X {leg \in DOMAIN res[key].bindings : res[key].bindings[leg] = i} :
              key \in DOMAIN configs}

\* The Node lists an interface once, and exactly while a Sender or Receiver
\* is bound to it; the count kept in the settings is the number of legs bound
\* to it, two for a resource whose legs share it (update_node_interfaces).
InterfacesBound ==
    /\ interfaces = SetToBag(DOMAIN refCounts)
    /\ DOMAIN refCounts = UNION {ToSet(res[key].bindings) : key \in DOMAIN configs}
    /\ \A i \in DOMAIN refCounts : refCounts[i] = Cardinality(BoundTo(i))

\* An MXL Receiver that is enabled without a flow id has nothing to run.
Running(key) ==
    /\ conn[key].active.on
    /\ configs[key].transport = "mxl" => conn[key].active.params[1].flow # NoFile

\* What the application runs is what /active says, and the IS-04 subscription
\* says so too, whatever mixture of IS-05 activations and reports led there;
\* only a refused activation or a report rejected half way leaves them apart
\* (the activation handler, ActivateMxl throwing inside modify_resource).
ActiveIsShared ==
    \A key \in DOMAIN conn \ torn :
        /\ res[key].subscribed = conn[key].active.on
        /\ app[key].on <=> Running(key)
        /\ app[key].on => app[key].params = conn[key].active.params

\* The /transportfile of a Sender that has been activated describes the active
\* parameters, so a Receiver that fetches it joins the stream being sent.
ServedIsActive ==
    \A key \in DOMAIN conn :
        conn[key].served # NoFile => conn[key].served.params = conn[key].active.params

\* A controller never reads "auto" from /active after its own activation: it
\* is only ever there because the application reported a file that leaves it
\* open (resolve_auto, get_session_description_transport_params).
Resolved ==
    \A key \in DOMAIN conn :
        configs[key].transport = "rtp" =>
        \A leg \in DOMAIN conn[key].active.params :
            conn[key].active.params[leg].dst = AutoParam
               => \E file \in Files : /\ Reportable(key, file) /\ file.transport = "rtp"
                                      /\ TransportParams(key[1], file) = conn[key].active.params

\* /active, /transportfile, the IS-04 subscription and the application tell the
\* same story of a connection.
ConnectionAgrees == ActiveIsShared /\ ServedIsActive /\ Resolved
=============================================================================
