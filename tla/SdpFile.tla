------------------------------ MODULE SdpFile ------------------------------
(***************************************************************************)
(* SDP transport files: sdp.rs (parsing, building, bit rates, ST 2022-7    *)
(* legs, cross-checks) and sdp_passthrough.rs (property overrides edited   *)
(* into a file the user supplied).                                         *)
(*                                                                         *)
(* A file is the record of the lines the code reads or writes:             *)
(*   label (s=), desc (i=), conn (session c=, "" when absent), attrs (the  *)
(*   session attributes) and medias, a sequence of m= blocks;              *)
(* an m= block has kind, port, pt, conn, as (b=AS:, 0 when absent), rtpmap *)
(* and fmtp (each with its own payload type) and attrs.                    *)
(***************************************************************************)
EXTENDS SdpEssence, FiniteSets

CONSTANTS
    LocalIps,      \* the addresses getifaddrs finds on this host
    MulticastIps   \* the addresses that are multicast groups

UNSPECIFIED == "0.0.0.0"
RTP_PORT == 5004

(***************************************************************************)
(* Spelling.  caps_from_media upper-cases encoding names and lower-cases   *)
(* fmtp keys; the file has the spelling of the standards.                  *)
(***************************************************************************)
CanonicalEnc == [RAW |-> "raw", JXSV |-> "jxsv", SMPTE291 |-> "smpte291"]
CanonicalKey == [pm |-> "PM", ssn |-> "SSN", tcs |-> "TCS", tp |-> "TP"]
UpperEnc == [raw |-> "RAW", jxsv |-> "JXSV", smpte291 |-> "SMPTE291"]
LowerKey == [PM |-> "pm", SSN |-> "ssn", TCS |-> "tcs", TP |-> "tp"]

RenameKeys(p, table) ==
    LET name(k) == Get(table, k, k)
    IN  [k \in {name(x) : x \in DOMAIN p} |-> p[CHOOSE x \in DOMAIN p : name(x) = k]]

canonicalise_rtpmap_value(r) == [r EXCEPT !.enc = Get(CanonicalEnc, r.enc, r.enc)]
canonicalise_fmtp_value(f) == [f EXCEPT !.p = RenameKeys(f.p, CanonicalKey)]
canonicalise_st2110_sdp_case(m) ==
    [m EXCEPT !.rtpmap = canonicalise_rtpmap_value(m.rtpmap), !.fmtp = canonicalise_fmtp_value(m.fmtp)]

(***************************************************************************)
(* GstSDPMedia.  A dynamic payload type without its rtpmap has no caps,    *)
(* and an fmtp line of another payload type is not read.                   *)
(***************************************************************************)
CapsFromMedia(m) ==
    [media |-> m.kind, payload |-> m.pt, clock_rate |-> m.rtpmap.clock,
     encoding_name |-> Get(UpperEnc, m.rtpmap.enc, m.rtpmap.enc)]
    @@ (IF m.rtpmap.params = 0 THEN <<>> ELSE "encoding_params" :> m.rtpmap.params)
    @@ (IF m.fmtp.pt = m.pt THEN RenameKeys(m.fmtp.p, LowerKey) ELSE <<>>)

RtpFields == {"media", "payload", "clock_rate", "encoding_name", "encoding_params", "a_ptime", "a_maxptime"}
SetMediaFromCaps(r) ==
    [kind |-> r.media, pt |-> r.payload,
     rtpmap |-> [pt |-> r.payload, enc |-> r.encoding_name, clock |-> r.clock_rate,
                 params |-> Get(r, "encoding_params", 0)],
     fmtp |-> [pt |-> r.payload, p |-> Without(r, RtpFields)],
     attrs |-> (IF Has(r, "a_ptime") THEN "ptime" :> r.a_ptime ELSE <<>>)
               @@ (IF Has(r, "a_maxptime") THEN "maxptime" :> r.a_maxptime ELSE <<>>)]

(***************************************************************************)
(* Bit rates in kbit/s, 0 for unset.                                       *)
(***************************************************************************)
UNSET == [format |-> 0, transport |-> 0]

transport_from_format_kbps(f) == ((f * 105 + 50000) \div 100000) * 1000

format_from_transport_kbps(t) == (t * 100) \div 105

bit_rates_from_properties(f, t) ==
    CASE f > 0 /\ t > 0 -> [format |-> f, transport |-> t]
      [] f > 0 /\ t = 0 -> [format |-> f, transport |-> transport_from_format_kbps(f)]
      [] f = 0 /\ t > 0 -> [format |-> format_from_transport_kbps(t), transport |-> t]
      [] f = 0 /\ t = 0 -> UNSET

as_bandwidth_from_media(m) == m.as

bit_rates_from_media(m) ==
    LET f == Get(m.fmtp.p, "x_format_bit_rate", 0)
        t == Get(m.fmtp.p, "x_transport_bit_rate", 0)
        b == as_bandwidth_from_media(m)
    IN  [format    |-> IF f > 0 THEN f
                       ELSE IF t > 0 THEN format_from_transport_kbps(t)
                       ELSE format_from_transport_kbps(b),
         transport |-> IF t > 0 THEN t
                       ELSE IF f > 0 THEN transport_from_format_kbps(f) ELSE b]

cross_check_bit_rates(property, file) == property = UNSET \/ file = UNSET \/ property = file

\* Nothing happens to a block without an fmtp line, which has no parameters.
upsert_nvnmos_bit_rates_in_fmtp(m, r) ==
    IF r = UNSET \/ DOMAIN m.fmtp.p = {} THEN m
    ELSE [m EXCEPT !.fmtp.p =
            (IF r.format > 0 THEN "x_format_bit_rate" :> r.format ELSE <<>>)
            @@ (IF r.transport > 0 THEN "x_transport_bit_rate" :> r.transport ELSE <<>>)
            @@ Without(m.fmtp.p, {"x_format_bit_rate", "x_transport_bit_rate"})]

upsert_as_bandwidth(m, kbps) == [m EXCEPT !.as = kbps]

apply_bit_rates_to_media(m, r) ==
    IF r = UNSET THEN m
    ELSE upsert_nvnmos_bit_rates_in_fmtp(IF r.transport > 0 THEN upsert_as_bandwidth(m, r.transport) ELSE m, r)

(***************************************************************************)
(* Parsing.                                                                *)
(***************************************************************************)
is_media_inactive(m) == Has(m.attrs, "inactive")
sdp_media_block_count(file) == Len(file.medias)
ActiveBlocks(file) == SelectSeq(file.medias, LAMBDA m : ~is_media_inactive(m))
count_active_sdp_legs(file) == Len(ActiveBlocks(file))

\* The caps marker of the first block, in its flag or its property form.
indicates_unconstrained_receiver_caps(file) == Has(file.medias[1].attrs, "caps")

resource_name_from_transport(file) == Get(file.attrs, "name", "")

RtpCapsOf(m) ==
    LET a == [f \in {"a_ptime", "a_maxptime"} |-> IF f = "a_ptime" THEN "ptime" ELSE "maxptime"]
    IN  CapsFromMedia(m) @@ [f \in {x \in DOMAIN a : Has(m.attrs, a[x])} |-> m.attrs[a[f]]]

caps_from_rtp(format, rtp) ==
    CASE format = "Data" -> caps_from_rtp_data(rtp)
      [] format = "Audio" -> caps_from_rtp_audio(rtp)
      [] format = "Video" /\ rtp.encoding_name = "JXSV" -> caps_from_rtp_video_jxsv(rtp)
      [] OTHER -> caps_from_rtp_video(rtp)

EssenceFormat(kind, rtp) ==
    CASE kind = "audio" -> "Audio"
      [] kind = "video" /\ rtp.encoding_name = "SMPTE291" -> "Data"
      [] OTHER -> "Video"

EssenceFromRtp(kind, rtp) ==
    AndThen(caps_from_rtp(EssenceFormat(kind, rtp), rtp), LAMBDA caps :
      [format |-> EssenceFormat(kind, rtp), rtp_caps |-> rtp, caps |-> essence_caps_from(caps, rtp)])

parse_media_essence(m) ==
    IF m.rtpmap.pt # m.pt THEN SdpError("CapsFromMedia")
    ELSE IF m.kind \notin {"video", "audio"} THEN SdpError("UnsupportedEssence")
    ELSE EssenceFromRtp(m.kind, RtpCapsOf(m))

\* ip, port, iface, src and src_port of a leg; "" and 0 stand for None.
extract_source_ip_from_filter(f) ==
    IF f.mode = "incl" /\ f.dest # "" THEN f.src ELSE ""

udp_leg_from_media(file, m) ==
    LET conn == IF m.conn # "" THEN m.conn ELSE file.conn
    IN  IF conn = "" THEN SdpError("MissingConnection")
        ELSE [ip |-> conn, port |-> m.port, iface |-> Get(m.attrs, "iface_ip", ""),
              src_port |-> Get(m.attrs, "src_port", 0),
              src |-> IF Has(m.attrs, "source_filter")
                      THEN extract_source_ip_from_filter(m.attrs.source_filter) ELSE ""]

dual_leg_essence_equivalent(a, b) ==
    /\ a.format = b.format
    /\ \A f \in {"payload", "clock_rate", "encoding_name"} : a.rtp_caps[f] = b.rtp_caps[f]
    /\ Intersects(a.caps, b.caps)

NoLeg == [ip |-> "", port |-> 0, iface |-> "", src_port |-> 0, src |-> ""]

\* The essence of a file with two blocks is that of the first.
EssenceOfLegs(m0, m1) ==
    IF m0.kind # m1.kind THEN SdpError("MultiMediaMixedEssence")
    ELSE AndThen(parse_media_essence(m0), LAMBDA e0 :
           AndThen(parse_media_essence(m1), LAMBDA e1 :
             IF dual_leg_essence_equivalent(e0, e1) THEN e0 ELSE SdpError("DualLegEssenceMismatch")))

validate_dual_leg_sdp(file) == EssenceOfLegs(file.medias[1], file.medias[2])

\* Mutant: the legs are taken in file order, active or not.
active_legs_to_udp_media_FileOrder(essence, legs) ==
    [format |-> essence.format, rtp_caps |-> essence.rtp_caps, caps |-> essence.caps,
     primary |-> legs[1].leg, secondary |-> IF legs[1].active /\ legs[2].active THEN legs[2].leg ELSE NoLeg]

active_legs_to_udp_media(essence, legs) ==
    LET active == SelectSeq(legs, LAMBDA l : l.active)
        leg(i) == active[i].leg
    IN  [format |-> essence.format, rtp_caps |-> essence.rtp_caps, caps |-> essence.caps,
         primary   |-> IF Len(active) = 0 THEN legs[1].leg ELSE leg(1),
         secondary |-> IF Len(active) = 2 THEN leg(2) ELSE NoLeg]

parse_sdp(file) ==
    CASE Len(file.medias) = 0 -> SdpError("NoMedia")
      [] Len(file.medias) = 1 ->
           AndThen(parse_media_essence(file.medias[1]), LAMBDA e :
             AndThen(udp_leg_from_media(file, file.medias[1]), LAMBDA leg :
               [format |-> e.format, primary |-> leg, secondary |-> NoLeg,
                rtp_caps |-> e.rtp_caps, caps |-> e.caps]))
      [] Len(file.medias) = 2 ->
           AndThen(EssenceOfLegs(file.medias[1], file.medias[2]), LAMBDA e :
             AndThen(udp_leg_from_media(file, file.medias[1]), LAMBDA leg0 :
               AndThen(udp_leg_from_media(file, file.medias[2]), LAMBDA leg1 :
                 active_legs_to_udp_media(e,
                   <<[leg |-> leg0, active |-> ~is_media_inactive(file.medias[1])],
                     [leg |-> leg1, active |-> ~is_media_inactive(file.medias[2])]>>))))
      [] OTHER -> SdpError("TooManyMediaBlocks")

\* The session lines but a=group:, and the lines of one block but a=mid:.
splice_active_media_section(file, i) ==
    [file EXCEPT !.attrs = Without(@, {"group"}),
                 !.medias = << [file.medias[i] EXCEPT !.attrs = Without(@, {"mid"})] >>]

normalise_to_single_active_leg(file) ==
    CASE Len(file.medias) = 1 -> file
      [] Len(file.medias) \notin {1, 2} -> SdpError("TooManyMediaBlocks")
      [] Len(file.medias) = 2 /\ count_active_sdp_legs(file) # 1 -> SdpError("NotExactlyOneActiveLeg")
      [] OTHER -> splice_active_media_section(file,
                      CHOOSE i \in 1..2 : ~is_media_inactive(file.medias[i]))

(***************************************************************************)
(* Building.  An input has the caps and the property values, "" and 0 for  *)
(* what is unset.                                                          *)
(***************************************************************************)
udp_leg_from_input(in) ==
    [ip |-> IF in.dest = "" THEN UNSPECIFIED ELSE in.dest,
     port |-> IF in.dest_port = 0 THEN RTP_PORT ELSE in.dest_port,
     iface |-> IF in.side = "Sender" THEN in.src ELSE in.iface,
     src |-> in.src,
     src_port |-> IF in.side = "Sender" THEN in.src_port ELSE 0]

\* The IS-04 interface of an address of this host.
x_nvnmos_iface_value_for_ip(ip) == IF ip \in LocalIps THEN "iface" :> ip ELSE <<>>

build_sdp(media, s) ==
    LET leg == media.primary
        base == SetMediaFromCaps(media.rtp_caps)
        m == upsert_nvnmos_bit_rates_in_fmtp(canonicalise_st2110_sdp_case(
               base @@ [port |-> leg.port, conn |-> leg.ip, as |-> s.bit_rates.transport]), s.bit_rates)
        attrs == (IF s.emit_ptp_ts_refclk THEN "ts_refclk" :> "ptp" ELSE <<>>)
                 @@ ("mediaclk" :> "direct=0")
                 @@ (IF leg.src = "" THEN <<>>
                     ELSE "source_filter" :> [mode |-> "incl", dest |-> leg.ip, src |-> leg.src])
                 @@ (IF leg.iface = "" THEN <<>>
                     ELSE ("iface_ip" :> leg.iface) @@ x_nvnmos_iface_value_for_ip(leg.iface))
                 @@ (IF leg.src_port = 0 THEN <<>> ELSE "src_port" :> leg.src_port)
                 @@ (IF s.advertise_caps THEN "caps" :> media.rtp_caps.payload ELSE <<>>)
    IN  [label |-> s.session_name, desc |-> s.description, conn |-> "",
         attrs |-> (IF s.name = "" THEN <<>> ELSE "name" :> s.name)
                   @@ (IF s.group_hint = "" THEN <<>> ELSE "group_hint" :> s.group_hint),
         medias |-> << [m EXCEPT !.attrs = attrs @@ @] >>]

from_caps(in) ==
    LET rtp == RtpCapsFor(in.caps, in.transport_caps, in.type_n)
        media == [format |-> essence_caps_format(in.caps), primary |-> udp_leg_from_input(in),
                  secondary |-> NoLeg, rtp_caps |-> rtp, caps |-> essence_caps_from(in.caps, rtp)]
        session == [session_name |-> IF in.label # "" THEN in.label ELSE IF in.name # "" THEN in.name ELSE "nvnmos",
                    description |-> in.description, name |-> in.name, group_hint |-> in.group_hint,
                    advertise_caps |-> in.advertise_caps,
                    emit_ptp_ts_refclk |-> in.type_n /\ in.side = "Sender",
                    bit_rates |-> bit_rates_from_properties(in.format_bit_rate, in.transport_bit_rate)]
    IN  IF IsErr(rtp) THEN rtp ELSE build_sdp(media, session)

(***************************************************************************)
(* Cross-checks of a file against caps and transport-caps (<<>> when the   *)
(* property is unset): the error, or "".                                   *)
(***************************************************************************)
cross_check_essence_format_family(media, caps) ==
    IF essence_caps_format(caps) \notin {"Unspecified", media.format} THEN "FormatMismatch" ELSE ""

cross_check_essence_caps(media, caps) ==
    IF cross_check_essence_format_family(media, caps) # "" THEN "FormatMismatch"
    ELSE IF ~Intersects(without_features(caps), media.caps) THEN "EssenceShapeMismatch" ELSE ""

cross_check_transport_caps(media, tc) ==
    LET strip(c) == Without(c, {"payload", "a_ptime", "a_maxptime"})
        a == strip(tc)
        b == strip(media.rtp_caps)
    IN  IF \A f \in (DOMAIN a \cap DOMAIN b) : a[f] = b[f] THEN "" ELSE "TransportCapsMismatch"

cross_check_essence(media, caps, tc, mode) ==
    LET e == IF DOMAIN caps = {} THEN ""
             ELSE IF mode = "Full" THEN cross_check_essence_caps(media, caps)
             ELSE cross_check_essence_format_family(media, caps)
    IN  IF e # "" THEN e
        ELSE IF mode = "Full" /\ DOMAIN tc # {} THEN cross_check_transport_caps(media, tc) ELSE ""
===========================================================================
