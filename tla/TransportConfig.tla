-------------------------- MODULE TransportConfig --------------------------
(***************************************************************************)
(* From the properties of nmossink and nmossrc to a transport file, an     *)
(* InnerConfig and a chain: session/mod.rs, session/udp/mod.rs and         *)
(* session/mxl.rs, composed with what libnvnmos makes of the same file.    *)
(*                                                                         *)
(* An element goes from NULL to READY (validate_and_open), a Sender that   *)
(* had neither caps nor a file is added at PAUSED from the caps of its     *)
(* peer, and a controller activates and deactivates what was added.        *)
(* Settings are a record of property values; "", 0, FALSE and <<>> are     *)
(* unset.                                                                  *)
(***************************************************************************)
EXTENDS InnerChains, LibnvnmosFiles

CONSTANTS
    SettingsSet,     \* the property values elements are created with
    PeerCaps,        \* the fixated caps an upstream peer may offer
    ReceivedFiles,   \* the files a controller may hand to a Receiver
    Patches,         \* the transport parameters a controller may stage
    FlowIds          \* the MXL flow ids a controller may stage

VARIABLES
    settings,     \* the property values
    phase,        \* "NULL", "READY", "PAUSED", or "FAILED" and "REFUSED"
                  \* when the state change to READY and to PAUSED failed
    registered,   \* the file of AddSender or AddReceiver, <<>> before it
    inner,        \* the InnerConfig in use
    chain,        \* the properties of the chain that is built
    live,         \* the file the daemon last had as active, <<>> for none
    ack           \* the outcome of the last activation

vars == <<settings, phase, registered, inner, chain, live, ack>>

IsRtp(s) == s.transport # "Mxl"
FakeChain == [kind |-> "fake"]
IsReal(c) == c.kind # "fake"

(***************************************************************************)
(* session/mod.rs: where the file comes from.                              *)
(***************************************************************************)
resolve_transport_file(s) ==
    CASE s.file_from = "none" -> <<>>
      [] s.file_from \in {"inline", "path"} -> s.file
      [] s.file_from \in {"both", "unreadable", "empty"} -> ChainError(s.file_from)

caps_format(s) == FormatFromCaps(s.caps)

FileName(s, file) ==
    IF DOMAIN file = {} THEN ""
    ELSE IF IsRtp(s) THEN resource_name_from_transport(file) ELSE flow_resource_name_from_transport(file)

resolve_resource_name(s, file) == IF s.name # "" THEN s.name ELSE FileName(s, file)

\* auto-activate off keeps a chain dormant; so does a parameter that only
\* an activation can supply.
apply_auto_activate_policy(s, config, eager_blocked) ==
    IF config.kind = "Real" /\ (~s.auto_activate \/ eager_blocked)
    THEN FakeInner("NotActive") ELSE config

(***************************************************************************)
(* session/udp/mod.rs.                                                     *)
(***************************************************************************)
receiver_connection_address(s) == IF s.multicast_ip # "" THEN s.multicast_ip ELSE s.interface_ip

validate_rtp_configuring_minimum(s) == (IF s.side = "Sender" THEN s.source_ip ELSE s.interface_ip) # ""

is_unspecified_destination(ip) == ip \in {"", UNSPECIFIED}

udp_eager_blocked(config) ==
    config.kind = "Real" /\ is_unspecified_destination(config.media.primary.ip)

Destination(s) == IF s.side = "Sender" THEN s.destination_ip ELSE receiver_connection_address(s)

sdp_build_input(s, caps) ==
    [caps |-> caps, transport_caps |-> s.transport_caps, side |-> s.side, name |-> s.name, label |-> s.label,
     description |-> s.description, group_hint |-> s.group_hint, src |-> s.source_ip, src_port |-> s.source_port,
     dest |-> Destination(s), dest_port |-> s.destination_port, iface |-> s.interface_ip,
     advertise_caps |-> s.caps_mode = "unconstrained", type_n |-> s.transport = "NvDsUdp",
     format_bit_rate |-> s.format_bit_rate, transport_bit_rate |-> s.transport_bit_rate]

SynthesiseSdp(s, caps) ==
    IF ~validate_rtp_configuring_minimum(s) THEN ChainError("Settings") ELSE from_caps(sdp_build_input(s, caps))

synthesise_or_passthrough_udp(s, file) ==
    IF DOMAIN file # {} THEN file
    ELSE IF DOMAIN s.caps = {} THEN <<>> ELSE SynthesiseSdp(s, s.caps)

property_overrides_udp(s) ==
    [name |-> s.name, label |-> s.label, description |-> s.description, group_hint |-> s.group_hint,
     caps_mode |-> s.caps_mode, destination_ip |-> Destination(s), destination_port |-> s.destination_port,
     interface_ip |-> IF s.side = "Sender" THEN s.source_ip ELSE s.interface_ip,
     source_ip |-> s.source_ip, source_port |-> IF s.side = "Sender" THEN s.source_port ELSE 0,
     payload_type |-> Get(s.transport_caps, "payload", 0),
     audio_clock_rate |-> Get(s.transport_caps, "clock_rate", 0),
     ptimes |-> (IF Has(s.transport_caps, "a_ptime") THEN "ptime" :> s.transport_caps.a_ptime ELSE <<>>)
                @@ (IF Has(s.transport_caps, "a_maxptime") THEN "maxptime" :> s.transport_caps.a_maxptime ELSE <<>>),
     bit_rates |-> UNSET]

passthrough_user_transport_file(s, file) ==
    LET written == bit_rates_from_media(file.medias[1])
        wanted == bit_rates_from_properties(s.format_bit_rate, s.transport_bit_rate)
        o == property_overrides_udp(s)
    IN  IF ~cross_check_bit_rates(wanted, written) THEN SdpError("BitRateMismatch")
        ELSE passthrough_with_overrides(file, IF written = UNSET THEN [o EXCEPT !.bit_rates = wanted] ELSE o,
                                        s.transport = "NvDsUdp")

\* Mutant: the shape is checked at every activation.
udp_essence_cross_check_mode_Full(s, activation, file) == "Full"

\* Shape is relaxed at the activation of an unconstrained Receiver only.
udp_essence_cross_check_mode(s, activation, file) ==
    IF activation /\ s.side = "Receiver" /\ indicates_unconstrained_receiver_caps(file)
    THEN "FormatFamilyOnly" ELSE "Full"

finish_udp_inner_config(s, file, mode, real) ==
    IF s.transport # "NvDsUdp" /\ sdp_media_block_count(file) > 1 THEN SdpError("DualLegNotSupported")
    ELSE AndThen(parse_sdp(file), LAMBDA media :
           LET clash == cross_check_essence(media, s.caps, s.transport_caps, mode)
           IN  IF clash # "" THEN SdpError(clash)
               ELSE IF count_active_sdp_legs(file) = 0 THEN FakeInner("NotActive")
               ELSE real @@ [kind |-> "Real", media |-> [media EXCEPT !.caps = overlay_features(@, s.caps)],
                             file |-> file])

decide_inner_config_udp(s, file, mode) ==
    IF DOMAIN file = {} THEN FakeInner("Misconfigured")
    ELSE finish_udp_inner_config(s, file, mode, [transport |-> "Udp", variant |-> IF s.transport = "Udp2" THEN "V2" ELSE "V1"])

decide_inner_config_nvdsudp(s, file, mode) ==
    IF DOMAIN file = {} THEN FakeInner("Misconfigured")
    ELSE finish_udp_inner_config(s, file, mode, [transport |-> "NvDsUdp"])

DecideRtp(s, file, mode) ==
    IF s.transport = "NvDsUdp" THEN decide_inner_config_nvdsudp(s, file, mode) ELSE decide_inner_config_udp(s, file, mode)

gate_deferred_sender_udp(config, s) ==
    IF s.side = "Sender" /\ config = FakeInner("Misconfigured") THEN FakeInner("NotConfigured") ELSE config

Resolved(config, file) == [config |-> config, file |-> file]

resolve_inner_config_udp(s, user_file) ==
    AndThen(IF DOMAIN user_file = {} THEN synthesise_or_passthrough_udp(s, user_file)
            ELSE passthrough_user_transport_file(s, user_file), LAMBDA file :
      AndThen(DecideRtp(s, file, "Full"), LAMBDA decided :
        LET gated == gate_deferred_sender_udp(decided, s)
        IN  Resolved(apply_auto_activate_policy(s, gated, udp_eager_blocked(gated)), file)))

synthesise_deferred_sender_udp(s, peer) ==
    AndThen(SynthesiseSdp(s, peer), LAMBDA file :
      AndThen(DecideRtp(s, file, "Full"), LAMBDA decided :
        Resolved(apply_auto_activate_policy(s, decided, udp_eager_blocked(decided)), file)))

(***************************************************************************)
(* session/mxl.rs.                                                         *)
(***************************************************************************)
EagerFlowId == "flow_generated"   \* Uuid::new_v4 at auto-activation

FlowDefInput(s, domain, caps) ==
    [flow_id |-> s.mxl_flow_id, name |-> s.name, domain |-> domain, label |-> s.label,
     description |-> s.description, group_hint |-> s.group_hint, caps |-> caps]

synthesise_or_passthrough_mxl(s, domain, file) ==
    IF DOMAIN file # {} THEN file
    ELSE IF DOMAIN s.caps = {} THEN <<>> ELSE flow_def_from_caps(FlowDefInput(s, domain, s.caps))

property_overrides_mxl(s, domain) ==
    [flow_id |-> s.mxl_flow_id, name |-> s.name, label |-> s.label, description |-> s.description,
     group_hint |-> s.group_hint, domain |-> IF s.mxl_domain_id = "" THEN "" ELSE domain, caps_mode |-> s.caps_mode]

mxl_eager_blocked(flow, config) == config.kind # "Real" /\ flow.id = ""

decide_inner_config_mxl(s, flow, file) ==
    LET generated == flow.id = "" /\ s.side = "Sender" /\ s.auto_activate
        id == IF generated THEN EagerFlowId ELSE flow.id
    IN  IF s.mxl_domain_path = "" THEN FakeInner("Misconfigured")
        ELSE IF flow.id = "" /\ DOMAIN file = {} THEN FakeInner("Misconfigured")
        ELSE IF flow.id = "" /\ ~generated THEN FakeInner("NotActive")
        ELSE IF s.side = "Receiver" /\ flow.format = "Unspecified" THEN FakeInner("Misconfigured")
        ELSE [kind |-> "Real", transport |-> "Mxl", domain_path |-> s.mxl_domain_path, flow_id |-> id,
              format |-> flow.format,
              file |-> IF generated THEN splice_overrides(file, [NoOverrides EXCEPT !.flow_id = id]) ELSE file]

\* Nothing is added for a Sender without a file, whatever was decided.
GateDeferredMxl(s, config, file) ==
    IF DOMAIN file = {} /\ s.side = "Sender" /\ config.kind = "Real" THEN FakeInner("NotConfigured") ELSE config

resolve_inner_config_mxl(s, user_file) ==
    LET domain == resolve_mxl_domain_id(s.mxl_domain_id, s.mxl_domain_path, s.domain_def)
        text == synthesise_or_passthrough_mxl(s, domain.domain, user_file)
        file == IF DOMAIN text = {} THEN text ELSE splice_overrides(text, property_overrides_mxl(s, domain.domain))
        flow == resolve_mxl_flow_meta(s.mxl_flow_id, caps_format(s), file)
        decided == decide_inner_config_mxl(s, flow, file)
        dormant == apply_auto_activate_policy(s, decided, mxl_eager_blocked(flow, decided))
    IN  IF IsErr(domain) THEN domain
        ELSE IF IsErr(text) THEN text
        ELSE IF IsErr(flow) THEN flow
        ELSE Resolved(GateDeferredMxl(s, dormant, file), file)

synthesise_deferred_sender_mxl(s, peer) ==
    LET domain == resolve_mxl_domain_id(s.mxl_domain_id, s.mxl_domain_path, s.domain_def)
        file == flow_def_from_caps(FlowDefInput(s, domain.domain, peer))
        flow == resolve_mxl_flow_meta(s.mxl_flow_id, FormatFromCaps(peer), file)
        decided == decide_inner_config_mxl(s, flow, file)
    IN  IF IsErr(domain) THEN domain
        ELSE IF IsErr(file) THEN file
        ELSE IF IsErr(flow) THEN flow
        ELSE Resolved(apply_auto_activate_policy(s, decided, mxl_eager_blocked(flow, decided)), file)

\* The file is authoritative: the flow id property is not consulted.
resolve_activation_inner_mxl(s, file) ==
    LET domain == mxl_domain_id_from_transport(file)
        host == read_domain_def_id(s.mxl_domain_path, s.domain_def)
        flow == resolve_mxl_flow_meta("", caps_format(s), file)
    IN  IF s.mxl_domain_path = "" THEN ChainError("Misconfigured")
        ELSE IF IsErr(domain) THEN domain
        ELSE IF domain.domain # "" /\ host \notin {"", domain.domain} THEN ChainError("Misconfigured")
        ELSE IF IsErr(flow) THEN flow
        ELSE decide_inner_config_mxl(s, flow, file)

(***************************************************************************)
(* Plans and chains.                                                       *)
(***************************************************************************)
ResolveInner(s, file) == IF IsRtp(s) THEN resolve_inner_config_udp(s, file) ELSE resolve_inner_config_mxl(s, file)

Accepts(s, file) == IF IsRtp(s) THEN AcceptsSdp(s.side, file) ELSE AcceptsFlowDef(file)

activation_succeeds(why) == why = "NotActive"

PlanFor(config) ==
    IF IsErr(config) THEN [config |-> FakeInner("Misconfigured"), ack |-> "Failure"]
    ELSE [config |-> config,
          ack |-> IF config.kind = "Real" \/ activation_succeeds(config.why) THEN "Success" ELSE "Failure"]

make_activation_plan(s, file) ==
    PlanFor(IF IsRtp(s) THEN DecideRtp(s, file, udp_essence_cross_check_mode(s, TRUE, file))
            ELSE resolve_activation_inner_mxl(s, file))

\* The caps of a fake chain: the property, or those of the user's file.
caps_from_transport_file(s, file) ==
    IF ~IsRtp(s) THEN caps_from_flow_def(file)
    ELSE AndThen(parse_sdp(file), LAMBDA media : media.caps)

fake_caps_from_settings(s) ==
    IF DOMAIN s.caps # {} THEN essence_caps_from(s.caps, <<>>)
    ELSE IF s.file_from = "none" THEN <<>> ELSE caps_from_transport_file(s, s.file)

BuildReal(s, config) == IF s.side = "Sender" THEN build_real_sink(config, s) ELSE build_real_src(config, s)

BuildFake(s) ==
    AndThen(fake_caps_from_settings(s), LAMBDA caps : FakeChain)

\* The chain of an InnerConfig, or the error that its construction ends in.
Build(s, config) == IF config.kind = "Real" THEN BuildReal(s, config) ELSE BuildFake(s)

(***************************************************************************)
(* Steps.                                                                  *)
(***************************************************************************)
\* set_property keeps every value as it is given; nothing is checked before the
\* state change that reads it.
Configured == settings \in SettingsSet

Init ==
    /\ Configured
    /\ phase = "NULL"
    /\ registered = <<>> /\ live = <<>>
    /\ inner = FakeInner("NotConfigured") /\ chain = FakeChain
    /\ ack = "none"

Fail(to) ==
    /\ phase' = to
    /\ registered' = <<>> /\ live' = <<>>
    /\ inner' = FakeInner("Misconfigured") /\ chain' = FakeChain
    /\ UNCHANGED <<settings, ack>>

\* activate_inner: an eager chain is reported to the daemon with its file.
Install(to, failed, r, built) ==
    IF IsErr(built) THEN Fail(failed)
    ELSE /\ phase' = to /\ registered' = r.file
         /\ inner' = r.config /\ chain' = built
         /\ live' = IF r.config.kind = "Real" THEN r.config.file ELSE <<>>
         /\ UNCHANGED <<settings, ack>>

\* Add the resource if there is a file to add it with, then build its chain.
AddAndInstall(to, failed, r) ==
    IF IsErr(r) THEN Fail(failed)
    ELSE IF resolve_resource_name(settings, r.file) = "" THEN Fail(failed)
    ELSE IF DOMAIN r.file # {} /\ ~Accepts(settings, r.file) THEN Fail(failed)
    ELSE Install(to, failed, r, Build(settings, r.config))

\* NULL to READY: resolve, open the session and add, build the chain.
validate_and_open ==
    /\ phase = "NULL"
    /\ AddAndInstall("READY", "FAILED",
         AndThen(resolve_transport_file(settings), LAMBDA user : ResolveInner(settings, user)))

\* READY to PAUSED of a Sender that nothing was added for.
add_deferred_sender(peer) ==
    /\ phase = "READY" /\ settings.side = "Sender"
    /\ DOMAIN registered = {} /\ DOMAIN settings.caps = {} /\ settings.file_from = "none"
    /\ AddAndInstall("PAUSED", "REFUSED",
         IF IsRtp(settings) THEN synthesise_deferred_sender_udp(settings, peer)
         ELSE synthesise_deferred_sender_mxl(settings, peer))

\* The caps of the fake chain that a real one is replaced by before the next:
\* those of the activation, but of the settings for an MXL Sender.
intermediate_fake_caps(s, config) ==
    CASE IsRtp(s) -> config.media.caps
      [] s.side = "Receiver" -> mxl_capssetter_caps(config.file)
      [] OTHER -> fake_caps_from_settings(s)

\* The new chain; a Sender also resolves the caps of its fallback before it
\* swaps.
Prepared(s, config) ==
    AndThen(Build(s, config), LAMBDA built :
      IF s.side = "Receiver" THEN built
      ELSE AndThen(fake_caps_from_settings(s), LAMBDA caps : built))

\* Mutant: a real chain is replaced by the next one directly.
ExecutePlan_NoHop(plan, hops, hop, built) ==
    /\ IF IsErr(built) THEN ack' = "Failure" /\ UNCHANGED <<inner, chain>>
       ELSE ack' = plan.ack /\ inner' = plan.config /\ chain' = built
    /\ UNCHANGED <<settings, phase, registered>>

\* execute_activation_plan: a chain that cannot be built leaves the one there
\* is, which after the hop of a re-activation is the fake one.
ExecutePlan(plan, hops, hop, built) ==
    /\ IF IsErr(IF hops THEN hop ELSE built)
       THEN ack' = "Failure" /\ UNCHANGED <<inner, chain>>
       ELSE IF IsErr(built)
       THEN ack' = "Failure" /\ inner' = FakeInner("NotActive") /\ chain' = FakeChain
       ELSE ack' = plan.ack /\ inner' = plan.config /\ chain' = built
    /\ UNCHANGED <<settings, phase, registered>>

RunPlan(plan) ==
    ExecutePlan(plan, IsReal(chain) /\ plan.config.kind = "Real",
                intermediate_fake_caps(settings, plan.config), Prepared(settings, plan.config))

ActivateWith(file) == live' = file /\ RunPlan(make_activation_plan(settings, file))

activate_rtp(patch) ==
    /\ phase \in {"READY", "PAUSED"} /\ IsRtp(settings) /\ DOMAIN registered # {}
    /\ ActivateWith(ActivationSdp(settings.side, registered, <<>>, StagedParams(settings.side, registered, patch)))

\* A Receiver is given the SDP of some Sender.
activate_received(received) ==
    /\ phase \in {"READY", "PAUSED"} /\ IsRtp(settings) /\ DOMAIN registered # {}
    /\ settings.side = "Receiver"
    /\ ActivateWith(ActivationSdp("Receiver", registered, received, ReceivedParams(registered, received)))

activate_mxl(flow_id) ==
    /\ phase \in {"READY", "PAUSED"} /\ ~IsRtp(settings) /\ DOMAIN registered # {}
    /\ settings.side = "Sender" /\ registered.id # "" => flow_id = registered.id
    /\ ActivateWith(make_mxl_flow_def(registered, get_mxl_flow_def_domain_id(registered), flow_id))

\* master_enable false, or a Receiver without a flow id.
deactivate ==
    /\ phase \in {"READY", "PAUSED"} /\ DOMAIN registered # {}
    /\ live' = <<>>
    /\ RunPlan([config |-> FakeInner("NotActive"), ack |-> "Success"])

\* READY to NULL, after a failure too: the session is closed.
close_session ==
    /\ phase # "NULL"
    /\ phase' = "NULL"
    /\ registered' = <<>> /\ live' = <<>>
    /\ inner' = FakeInner("NotConfigured") /\ chain' = FakeChain
    /\ ack' = "none"
    /\ UNCHANGED settings

Next ==
    \/ validate_and_open
    \/ \E peer \in PeerCaps : add_deferred_sender(peer)
    \/ \E patch \in Patches : activate_rtp(patch)
    \/ \E received \in ReceivedFiles : activate_received(received)
    \/ \E flow_id \in FlowIds : activate_mxl(flow_id)
    \/ deactivate
    \/ close_session

Spec == Init /\ [][Next]_vars

(***************************************************************************)
(* Properties.                                                             *)
(***************************************************************************)
SinkKinds == {"udpsink", "nvdsudpsink", "mxlsink"}
SrcKinds == {"udpsrc", "nvdsudpsrc", "mxlsrc"}
KindOf == [Udp |-> {"udpsink", "udpsrc"}, Udp2 |-> {"udpsink", "udpsrc"},
           NvDsUdp |-> {"nvdsudpsink", "nvdsudpsrc"}, Mxl |-> {"mxlsink", "mxlsrc"}]

\* The variables have their types, and a real chain is one of the element's
\* side and transport, built from factories that are installed.
TypeOK ==
    /\ phase \in {"NULL", "READY", "PAUSED", "FAILED", "REFUSED"}
    /\ ack \in {"none", "Success", "Failure"}
    /\ inner.kind \in {"Real", "Fake"}
    /\ IsReal(chain) =>
         /\ chain.kind \in KindOf[settings.transport]
         /\ chain.kind \in (IF settings.side = "Sender" THEN SinkKinds ELSE SrcKinds)
         /\ chain.kind \in {"udpsink", "udpsrc"} => {chain.rtp.factory, chain.transport.factory} \subseteq Factories

IsMulticast(p) == p.multicast # ""
StreamAddress(p) == IF IsMulticast(p) THEN p.multicast ELSE p.iface
ActiveParams(side, file) ==
    SelectSeq(get_session_description_transport_params(side, file), LAMBDA p : p.enabled)

SinkMatches(t, p) == t.host = p.dest /\ t.port = p.dport

\* The user's file gives no caps for a fake chain: an unconstrained MXL
\* Receiver of such a file runs, and its deactivation fails.
Stuck == IsErr(fake_caps_from_settings(settings))

\* What the chain of an active resource is wired to is what libnvnmos shows
\* in /active, read from the same file by its own parser: destination, port,
\* local interface and source filter of the legs that are enabled and of no
\* other, the flow id in the slot of the flow's format.  It holds for the
\* eager chain of auto-activate and for every activation, unless the element
\* cannot go back to a fake chain.
LiveMatchesChain ==
    IsReal(chain) /\ ~Stuck =>
      /\ DOMAIN live # {}
      /\ LET t == chain.transport
             legs == IF IsRtp(settings) THEN ActiveParams(settings.side, live) ELSE <<>>
         IN  CASE chain.kind = "udpsink" ->
                    /\ SinkMatches(t, legs[1])
                    /\ t.bind_address = legs[1].src /\ t.bind_port = legs[1].sport
               [] chain.kind = "udpsrc" ->
                    /\ t.address = StreamAddress(legs[1]) /\ t.port = legs[1].dport
                    /\ IsMulticast(legs[1]) =>
                         t.source = legs[1].src /\ t.multicast_iface = iface_name_for_ip(legs[1].iface)
               [] chain.kind = "nvdsudpsink" ->
                    /\ SinkMatches(t, legs[1])
                    /\ t.local_iface_ip = [i \in DOMAIN legs |-> legs[i].src]
                    /\ [i \in DOMAIN t.sdp_file.medias |-> t.sdp_file.medias[i].port] = [i \in DOMAIN legs |-> legs[i].dport]
               [] chain.kind = "nvdsudpsrc" ->
                    /\ t.streams = [i \in DOMAIN legs |-> <<StreamAddress(legs[i]), legs[i].dport>>]
                    /\ t.source_address # <<>> =>
                         \A i \in DOMAIN legs : t.source_address[i] \in {legs[i].src, NVDSUDP_SOURCE_ANY}
                    /\ t.source_address = <<>> => \A i \in DOMAIN legs : legs[i].src = ""
               [] chain.kind = "mxlsink" -> t.flow_id = live.id
               [] chain.kind = "mxlsrc" ->
                    <<t.video_flow_id, t.audio_flow_id, t.data_flow_id>> =
                      [i \in 1..3 |-> IF live.format = <<"Video", "Audio", "Data">>[i] THEN live.id ELSE ""]

Agrees(property, value) == property # "" => value = property

\* The connection properties a user sets are what the daemon registers,
\* whether the file is synthesised from caps or the properties are edited
\* into the user's own file.  (A source-ip needs the c= line in the m= block:
\* with one of the session level only, its filter has no destination.)
PropertiesReachDaemon ==
    DOMAIN registered # {} =>
      /\ Agrees(settings.name, FileName(settings, registered))
      /\ IsRtp(settings) =>
           LET p == get_session_description_transport_params(settings.side, registered)[1]
           IN  /\ settings.destination_port # 0 => p.dport = settings.destination_port
               /\ settings.caps_mode = "unconstrained" => indicates_unconstrained_receiver_caps(registered)
               /\ settings.caps_mode = "constrained" => ~indicates_unconstrained_receiver_caps(registered)
               /\ IF settings.side = "Sender"
                  THEN /\ Agrees(settings.source_ip, p.src) /\ Agrees(settings.destination_ip, p.dest)
                       /\ settings.source_port # 0 => p.sport = settings.source_port
                  ELSE /\ Agrees(settings.interface_ip, p.iface) /\ Agrees(settings.multicast_ip, p.multicast)
                       /\ Agrees(settings.source_ip, p.src)
      /\ ~IsRtp(settings) =>
           /\ Agrees(settings.mxl_flow_id, registered.id)
           /\ Agrees(settings.mxl_domain_id, get_mxl_flow_def_domain_id(registered))

\* libnvnmos reads from the registered file the bit rates that the element's
\* properties stand for, derived or given, with its own rounding, if the
\* block has an fmtp line to hold them.
BitRatesAgree ==
    IsRtp(settings) /\ DOMAIN registered # {} =>
      LET m == registered.medias[1]
          wanted == bit_rates_from_properties(settings.format_bit_rate, settings.transport_bit_rate)
      IN  wanted # UNSET /\ DOMAIN m.fmtp.p # {} =>
            [format |-> get_format_bit_rate(m), transport |-> get_transport_bit_rate(m)] = wanted

\* The file the daemon registers says what the properties of the element say.
RegisteredAgrees == PropertiesReachDaemon /\ BitRatesAgree

\* A resource that was added can be activated: master_enable with the staged
\* parameters left alone is never refused by the element that added it.  An
\* MXL resource needs a path to its Domain and a tag that names this host's.
OwnFileAccepted ==
    DOMAIN registered # {} =>
      IF IsRtp(settings)
      THEN LET staged == get_session_description_transport_params(settings.side, registered)
           IN  make_activation_plan(settings, ActivationSdp(settings.side, registered, <<>>, staged)).ack = "Success"
      ELSE LET domain == mxl_domain_id_from_transport(registered)
               here == IF IsErr(domain) THEN FALSE ELSE domain.domain \in {"", settings.domain_def} \/ settings.domain_def = ""
           IN  settings.mxl_domain_path # "" /\ here =>
                 make_activation_plan(settings, make_mxl_flow_def(registered, domain.domain, "flow1")).ack = "Success"

SameFamily(a, b) == parse_media_essence(a.medias[1]).format = parse_media_essence(b.medias[1]).format

\* An unconstrained Receiver takes any shape of its essence family, and pins
\* no caps on it.
UnconstrainedAcceptsFamily ==
    IF ~IsRtp(settings) \/ settings.side = "Sender" \/ DOMAIN registered = {} THEN TRUE
    ELSE indicates_unconstrained_receiver_caps(registered) =>
        /\ \A r \in ReceivedFiles : SameFamily(r, registered) =>
             make_activation_plan(settings,
               ActivationSdp("Receiver", registered, r, ReceivedParams(registered, r))).ack = "Success"
        /\ chain.kind = "udpsrc" => DOMAIN chain.caps = {}

\* The checks of an activation refuse no file that the resource stands for.
ActivationAccepted == OwnFileAccepted /\ UnconstrainedAcceptsFamily

\* The packets of a line carry the line and nothing else, at a sink also
\* after transport-properties changed one of the two sizes.
PacketsFillLine ==
    IsReal(chain) /\ settings.transport = "NvDsUdp" /\ Get(inner, "media", [format |-> ""]).format = "Video" =>
        LET t == chain.transport
            stride == video_target_stride(inner.media.caps)
        IN  IF settings.side = "Sender" THEN (t.payload_size - VIDEO_HEADER_SIZE) * t.packets_per_line = stride
            ELSE ~Has(settings.transport_properties, "payload_size") => stride % t.payload_size = 0

\* The chain that runs is of the element's kind, wired to what /active says and
\* packetised so that its packets carry whole lines.
ChainFits == TypeOK /\ LiveMatchesChain /\ PacketsFillLine

\* A refused activation leaves no media on the network, unless the element is
\* stuck, and one that is acknowledged with an enabled leg is really sent or
\* received.
AckMatchesChain ==
    /\ ack = "Failure" => ~IsReal(chain) \/ Stuck
    /\ ack = "Success" /\ IsRtp(settings) /\ DOMAIN live # {} =>
         (IsReal(chain) <=> Len(ActiveParams(settings.side, live)) > 0)

DeferredSender(s) ==
    /\ s.side = "Sender" /\ s.file_from = "none" /\ DOMAIN s.caps = {} /\ s.name # ""
    /\ ~IsRtp(s) => ~IsErr(resolve_mxl_domain_id(s.mxl_domain_id, s.mxl_domain_path, s.domain_def))

\* A Sender with neither caps nor a file reaches READY and waits there for
\* the caps of its peer, whatever else is set.
DeferredWaits ==
    DeferredSender(settings) =>
      phase # "FAILED" /\ (phase = "READY" => DOMAIN registered = {} /\ ~IsReal(chain))

\* The element reports what it does: an acknowledgement says what the chain does,
\* and a Sender that cannot be described yet waits and sends nothing.
ReportedIsDone == AckMatchesChain /\ DeferredWaits
===========================================================================
