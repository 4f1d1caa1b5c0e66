---------------------------- MODULE InnerChains ----------------------------
(***************************************************************************)
(* The transport chains of inner.rs, and what nmossink and nmossrc build   *)
(* from an InnerConfig.  A chain is the record of the properties its       *)
(* elements are created with; "", 0 and <<>> stand for a property that is  *)
(* left at its default.                                                    *)
(*                                                                         *)
(* An InnerConfig is [kind |-> "Fake", why |-> FakeKind] or a record with  *)
(* kind "Real" and the TransportConfig.                                    *)
(***************************************************************************)
EXTENDS Packetization, SdpPassthrough, FlowDef

CONSTANT Factories   \* the element factories that are installed

FakeInner(why) == [kind |-> "Fake", why |-> why]
ChainError(e) == [err |-> e]

(***************************************************************************)
(* Element factories.  A factory name is the sequence of its parts.        *)
(***************************************************************************)
RtpStem(format, enc) ==
    CASE format = "Video" /\ enc = "RAW"  -> "rtpvraw"
      [] format = "Video" /\ enc = "JXSV" -> "rtpjxsv"
      [] format = "Audio" /\ enc = "L24"  -> "rtpL24"
      [] format = "Audio" /\ enc = "L16"  -> "rtpL16"
      [] format = "Data"  /\ enc = "SMPTE291" -> "rtpsmpte291"
      [] OTHER -> ""

\* The plain factory must be there; V2 takes its sibling if that is too.
select_rtp_factory(suffix, format, enc, variant) ==
    LET v1 == <<RtpStem(format, enc), suffix>>
        v2 == Append(v1, "2")
    IN  IF RtpStem(format, enc) = "" THEN ChainError("Settings")
        ELSE IF v1 \notin Factories THEN ChainError("MissingPlugin")
        ELSE [factory |-> IF variant = "V2" /\ v2 \in Factories THEN v2 ELSE v1]

select_udpsink_factory(variant) ==
    IF variant = "V2" /\ <<"udpsink", "2">> \in Factories THEN <<"udpsink", "2">> ELSE <<"udpsink">>

select_udpsrc_factory(variant) ==
    IF variant = "V2" /\ <<"udpsrc", "2">> \in Factories THEN <<"udpsrc", "2">> ELSE <<"udpsrc">>

require_factory(name) == name \in Factories

(***************************************************************************)
(* Interfaces of a leg.                                                    *)
(***************************************************************************)
receiver_interface_ip(leg) == leg.iface
sender_interface_ip(leg) == IF leg.iface # "" THEN leg.iface ELSE leg.src

iface_name_for_ip(ip) == IF ip \in LocalIps THEN ip ELSE ""

multicast_iface_name(dest, iface) == IF dest \in MulticastIps THEN iface_name_for_ip(iface) ELSE ""

Legs(media) == IF media.secondary = NoLeg THEN <<media.primary>> ELSE <<media.primary, media.secondary>>

\* One entry per leg, or nothing when a leg has none.
comma_separated_interface_ips(ips) == IF \E i \in DOMAIN ips : ips[i] = "" THEN <<>> ELSE ips

NVDSUDP_SOURCE_ANY == UNSPECIFIED
comma_separated_source_ips(legs) ==
    LET ips == [i \in DOMAIN legs |-> IF legs[i].src = "" THEN NVDSUDP_SOURCE_ANY ELSE legs[i].src]
    IN  IF \A i \in DOMAIN ips : ips[i] = NVDSUDP_SOURCE_ANY THEN <<>> ELSE ips

\* An a=ts-refclk: of any level; a local clock beats PTP.
collect_ts_refclk_values(file) ==
    {r \in {Get(file.attrs, "ts_refclk", "")} \union {Get(file.medias[i].attrs, "ts_refclk", "") : i \in DOMAIN file.medias} :
        r # ""}
ptp_src_from_sdp(file) ==
    LET clocks == collect_ts_refclk_values(file) IN "ptp" \in clocks /\ clocks \subseteq {"ptp"}

set_nvdsudp_ptp_src_from_sdp(file, iface) == IF ptp_src_from_sdp(file) THEN iface ELSE ""

(***************************************************************************)
(* transport-properties and pay-properties: a field [ok, v] that the       *)
(* element has and whose value is in range replaces what was set.          *)
(***************************************************************************)
apply_properties_to_element(e, props) ==
    [p \in DOMAIN e |-> IF Has(props, p) THEN (IF props[p].ok THEN props[p].v ELSE e[p]) ELSE e[p]]

apply_udp_inner_properties(chain, s) ==
    [chain EXCEPT !.transport = apply_properties_to_element(@, s.transport_properties),
                  !.rtp = apply_properties_to_element(@, s.pay_properties)]

apply_mxl_inner_properties(chain, s) ==
    [chain EXCEPT !.transport = apply_properties_to_element(@, s.transport_properties)]

apply_nvdsudp_sink_inner_properties(chain, media, s) ==
    LET applied == apply_properties_to_element(chain.transport, s.transport_properties)
    IN  [chain EXCEPT !.transport = IF media.format = "Video"
                                    THEN reconcile_sink_video_packetization(applied, media.caps) ELSE applied]

apply_nvdsudp_src_inner_properties(chain, s) ==
    [chain EXCEPT !.transport = apply_properties_to_element(@, s.transport_properties)]

(***************************************************************************)
(* The chains.                                                             *)
(***************************************************************************)
prepend_sink_capsfilter(chain, caps) == With(chain, "caps", caps)

build_mxlsink(domain_path, flow_id, caps) ==
    IF ~require_factory(<<"mxlsink">>) THEN ChainError("MissingPlugin")
    ELSE prepend_sink_capsfilter(
           [kind |-> "mxlsink",
            transport |-> [domain |-> domain_path, flow_id |-> flow_id, label |-> "", description |-> "",
                           group_hint |-> "", async |-> TRUE]], caps)

build_mxlsrc(domain_path, flow_id, format, caps) ==
    IF ~require_factory(<<"mxlsrc">>) THEN ChainError("MissingPlugin")
    ELSE IF format = "Unspecified" THEN ChainError("internal")
    ELSE [kind |-> "mxlsrc", caps |-> caps,
          transport |-> [domain |-> domain_path,
                         video_flow_id |-> IF format = "Video" THEN flow_id ELSE "",
                         audio_flow_id |-> IF format = "Audio" THEN flow_id ELSE "",
                         data_flow_id  |-> IF format = "Data" THEN flow_id ELSE ""]]

ptime_ns_from_rtp_caps(rtp) == IF Has(rtp, "a_ptime") THEN parse_ptime_ms_as_ns(rtp.a_ptime) ELSE 0

build_udpsink(media, variant) ==
    LET pay == select_rtp_factory("pay", media.format, media.rtp_caps.encoding_name, variant)
        leg == media.primary
        ptime == IF media.format = "Audio" THEN ptime_ns_from_rtp_caps(media.rtp_caps) ELSE 0
    IN  IF media.rtp_caps.payload \notin 0..127 THEN ChainError("Settings")
        ELSE IF IsErr(pay) THEN pay
        ELSE prepend_sink_capsfilter(
               [kind |-> "udpsink",
                rtp |-> [factory |-> pay.factory, pt |-> media.rtp_caps.payload, min_ptime |-> ptime,
                         max_ptime |-> ptime, timestamp_offset |-> 0],
                transport |-> [factory |-> select_udpsink_factory(variant), host |-> leg.ip, port |-> leg.port,
                               bind_port |-> leg.src_port, bind_address |-> sender_interface_ip(leg),
                               multicast_iface |-> multicast_iface_name(leg.ip, sender_interface_ip(leg)),
                               async |-> TRUE]], media.caps)

\* rtpjxsvdepay writes complete caps itself.
select_udp_src_capssetter_caps(media, caps) ==
    IF media.rtp_caps.encoding_name = "JXSV" THEN <<>> ELSE caps

build_udpsrc(media, variant, caps) ==
    LET depay == select_rtp_factory("depay", media.format, media.rtp_caps.encoding_name, variant)
        leg == media.primary
    IN  IF IsErr(depay) THEN depay
        ELSE [kind |-> "udpsrc", rtp |-> [factory |-> depay.factory],
              caps |-> select_udp_src_capssetter_caps(media, caps),
              transport |-> [factory |-> select_udpsrc_factory(variant), address |-> leg.ip, port |-> leg.port,
                             rtp_caps |-> media.rtp_caps,
                             multicast_iface |-> multicast_iface_name(leg.ip, receiver_interface_ip(leg)),
                             source |-> IF leg.ip \in MulticastIps THEN leg.src ELSE ""]]

\* The file that nvdsudpsink reads: one block per leg that is sent.
SdpForSink(media, file) ==
    IF media.secondary = NoLeg /\ sdp_media_block_count(file) > 1
    THEN normalise_to_single_active_leg(file) ELSE file

build_nvdsudpsink(media, file) ==
    LET pkt == from_media(media.format, media.caps, media.rtp_caps)
        sdp == SdpForSink(media, file)
        legs == Legs(media)
    IN  IF ~require_factory(<<"nvdsudpsink">>) THEN ChainError("MissingPlugin")
        ELSE IF IsErr(pkt) THEN pkt
        ELSE IF IsErr(sdp) THEN sdp
        ELSE prepend_sink_capsfilter(
               [kind |-> "nvdsudpsink",
                transport |-> [host |-> media.primary.ip, port |-> media.primary.port, sdp_file |-> sdp,
                               local_iface_ip |-> comma_separated_interface_ips(
                                                    [i \in DOMAIN legs |-> sender_interface_ip(legs[i])]),
                               ptp_src |-> set_nvdsudp_ptp_src_from_sdp(file, sender_interface_ip(media.primary)),
                               payload_size |-> IF pkt.kind = "Anc" THEN 0 ELSE pkt.sink_payload_size,
                               packets_per_line |-> IF pkt.kind = "Video" THEN pkt.packets_per_line ELSE 0,
                               async |-> TRUE]], with_st2038_frame_alignment(media.caps))

nvdsudpsrc_builder(caps) == [caps |-> caps, use_rtp_timestamp |-> TRUE, adjust_leap_seconds |-> TRUE]

host_port(leg) == <<leg.ip, leg.port>>

build_nvdsudpsrc(media, file) ==
    LET caps == with_st2038_frame_alignment(media.caps)
        pkt == from_media(media.format, caps, media.rtp_caps)
        legs == Legs(media)
    IN  IF ~require_factory(<<"nvdsudpsrc">>) THEN ChainError("MissingPlugin")
        ELSE IF IsErr(pkt) THEN pkt
        ELSE [kind |-> "nvdsudpsrc", caps |-> caps,
              transport |-> nvdsudpsrc_builder(caps) @@
                [streams |-> [i \in DOMAIN legs |-> host_port(legs[i])],
                 local_iface_ip |-> comma_separated_interface_ips(
                                      [i \in DOMAIN legs |-> receiver_interface_ip(legs[i])]),
                 source_address |-> comma_separated_source_ips(legs),
                 ptp_src |-> set_nvdsudp_ptp_src_from_sdp(file, receiver_interface_ip(media.primary)),
                 header_size |-> CASE pkt.kind = "Video" -> VIDEO_HEADER_SIZE
                                   [] pkt.kind = "Audio" -> AUDIO_HEADER_SIZE
                                   [] pkt.kind = "Anc"   -> ANC_HEADER_SIZE,
                 payload_size |-> IF pkt.kind = "Anc" THEN 0 ELSE pkt.src_payload_size,
                 payload_multiple |-> IF pkt.kind = "Audio" THEN pkt.payload_multiple ELSE 0]]

(***************************************************************************)
(* The caps a receiver pins, and the whole chain of each element.          *)
(***************************************************************************)
caps_from_flow_def(file) ==
    IF DOMAIN file = {} THEN <<>>
    ELSE LET c == flow_def_caps_from(file) IN IF IsErr(c) THEN c ELSE essence_caps_from(c, <<>>)

mxl_capssetter_caps(file) ==
    IF DOMAIN file # {} /\ flow_indicates_unconstrained_receiver_caps(file) THEN <<>>
    ELSE caps_from_flow_def(file)

udp_capssetter_caps(file, media) ==
    IF indicates_unconstrained_receiver_caps(file) THEN <<>> ELSE media.caps

PinAsync(chain) == IF IsErr(chain) THEN chain ELSE [chain EXCEPT !.transport.async = FALSE]

MxlMetadata(chain, file) ==
    [chain EXCEPT !.transport.label = file.label, !.transport.description = file.desc,
                  !.transport.group_hint = IF Get(file.tags, "group_hint", <<>>) = <<>> THEN ""
                                           ELSE file.tags["group_hint"][1]]

build_real_sink(t, s) ==
    LET Applied(chain, f(_)) == IF IsErr(chain) THEN chain ELSE f(chain)
        mxl_caps == caps_from_flow_def(t.file)
    IN  PinAsync(
          CASE t.transport = "Mxl" /\ DOMAIN t.file = {} -> ChainError("no transport file")
            [] t.transport = "Mxl" /\ DOMAIN t.file # {} /\ IsErr(mxl_caps) -> mxl_caps
            [] t.transport = "Mxl" /\ DOMAIN t.file # {} /\ ~IsErr(mxl_caps) ->
                 Applied(build_mxlsink(t.domain_path, t.flow_id, overlay_features(mxl_caps, s.caps)),
                         LAMBDA c : apply_mxl_inner_properties(MxlMetadata(c, t.file), s))
            [] t.transport = "Udp" ->
                 Applied(build_udpsink(t.media, t.variant), LAMBDA c : apply_udp_inner_properties(c, s))
            [] t.transport = "NvDsUdp" ->
                 Applied(build_nvdsudpsink(t.media, t.file),
                         LAMBDA c : apply_nvdsudp_sink_inner_properties(c, t.media, s)))

build_real_src(t, s) ==
    LET Applied(chain, f(_)) == IF IsErr(chain) THEN chain ELSE f(chain)
        mxl_caps == mxl_capssetter_caps(t.file)
    IN  CASE t.transport = "Mxl" /\ IsErr(mxl_caps) -> mxl_caps
          [] t.transport = "Mxl" /\ ~IsErr(mxl_caps) ->
               Applied(build_mxlsrc(t.domain_path, t.flow_id, t.format, mxl_caps),
                       LAMBDA c : apply_mxl_inner_properties(c, s))
          [] t.transport = "Udp" ->
               Applied(build_udpsrc(t.media, t.variant, udp_capssetter_caps(t.file, t.media)),
                       LAMBDA c : apply_udp_inner_properties(c, s))
          [] t.transport = "NvDsUdp" ->
               Applied(build_nvdsudpsrc(t.media, t.file), LAMBDA c : apply_nvdsudp_src_inner_properties(c, s))
===========================================================================
