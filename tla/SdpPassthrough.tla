-------------------------- MODULE SdpPassthrough --------------------------
(***************************************************************************)
(* sdp_passthrough.rs: the properties a user sets are edited into the SDP  *)
(* the user supplies, everything else of the file is kept.  An override is *)
(* "" or 0 when its property is unset.                                     *)
(***************************************************************************)
EXTENDS SdpFile

\* The error that the number of m= blocks is refused with, or a value.
reject_unsupported_multi_media(file, allow_dual_leg) ==
    CASE Len(file.medias) = 0 -> SdpError("NoMedia")
      [] Len(file.medias) > 2 -> SdpError("TooManyMediaBlocks")
      [] Len(file.medias) = 2 /\ ~allow_dual_leg -> SdpError("DualLegNotSupported")
      [] Len(file.medias) = 2 /\ allow_dual_leg -> validate_dual_leg_sdp(file)
      [] OTHER -> file

upsert_session_attribute(file, key, value) ==
    IF value = "" THEN file ELSE [file EXCEPT !.attrs = With(@, key, value)]

upsert_media_attribute(m, key, value) == [m EXCEPT !.attrs = With(@, key, value)]
remove_media_attributes_by_key(m, key) == [m EXCEPT !.attrs = Without(@, {key})]

apply_session_overrides_in_place(file, o) ==
    upsert_session_attribute(
      upsert_session_attribute(
        [file EXCEPT !.label = IF o.label = "" THEN @ ELSE o.label,
                     !.desc  = IF o.description = "" THEN @ ELSE o.description],
        "name", o.name),
      "group_hint", o.group_hint)

apply_caps_mode_override(m, mode) ==
    CASE mode = "auto" -> m
      [] mode = "constrained" -> remove_media_attributes_by_key(m, "caps")
      [] mode = "unconstrained" ->
           IF Has(m.attrs, "caps") THEN m ELSE upsert_media_attribute(m, "caps", m.pt)

rewrite_source_filter_destination(m, dest) ==
    IF Has(m.attrs, "source_filter") /\ m.attrs.source_filter.src # ""
    THEN [m EXCEPT !.attrs.source_filter.dest = dest] ELSE m

\* c= of the block itself: one of the session level is not seen here.
replace_connection_address(m, dest) == [m EXCEPT !.conn = dest]

\* Mutant: the override is lost when the block has a source filter.
OverrideDestination_Filtered(m, dest) ==
    IF dest = "" \/ Has(m.attrs, "source_filter") THEN m
    ELSE replace_connection_address(m, dest)

OverrideDestination(m, dest) ==
    IF dest = "" \/ dest = m.conn THEN m
    ELSE rewrite_source_filter_destination(replace_connection_address(m, dest), dest)

sync_x_nvnmos_iface_for_local_ip(m, ip) ==
    [m EXCEPT !.attrs = x_nvnmos_iface_value_for_ip(ip) @@ Without(@, {"iface"})]

OverrideInterface(m, ip) ==
    IF ip = "" THEN m
    ELSE sync_x_nvnmos_iface_for_local_ip(upsert_media_attribute(m, "iface_ip", ip), ip)

OverrideSource(m, o) ==
    IF o.source_ip = "" THEN m
    ELSE upsert_media_attribute(m, "source_filter",
           [mode |-> "incl", dest |-> IF o.destination_ip # "" THEN o.destination_ip ELSE m.conn,
            src |-> o.source_ip])

rewrite_payload_type(m, pt) ==
    IF pt = 0 \/ pt = m.pt THEN m
    ELSE [m EXCEPT
            !.pt = pt,
            !.rtpmap = IF @.pt = m.pt THEN canonicalise_rtpmap_value([@ EXCEPT !.pt = pt]) ELSE @,
            !.fmtp   = IF @.pt = m.pt THEN canonicalise_fmtp_value([@ EXCEPT !.pt = pt]) ELSE @,
            !.attrs  = IF Get(@, "caps", 0) = m.pt THEN With(@, "caps", pt) ELSE @]

\* An rtpmap without a channel count is left alone.
rewrite_audio_clock_rate(m, rate) ==
    IF rate = 0 \/ m.rtpmap.params = 0 \/ m.rtpmap.clock = rate THEN m
    ELSE [m EXCEPT !.rtpmap = canonicalise_rtpmap_value([@ EXCEPT !.clock = rate])]

OverrideAudio(m, o) ==
    LET clocked == rewrite_audio_clock_rate(m, o.audio_clock_rate)
    IN  IF m.kind # "audio" THEN m
        ELSE [clocked EXCEPT !.attrs = o.ptimes @@ @]

transport_scalar_override_set(o) ==
    \/ o.destination_ip # "" \/ o.interface_ip # "" \/ o.destination_port # 0
    \/ o.source_ip # "" \/ o.source_port # 0

apply_primary_leg_transport_overrides(m, o) ==
    LET ported == IF o.destination_port = 0 THEN m ELSE [m EXCEPT !.port = o.destination_port]
        joined == OverrideInterface(OverrideDestination(ported, o.destination_ip), o.interface_ip)
        bound  == IF o.source_port = 0 THEN joined
                  ELSE upsert_media_attribute(joined, "src_port", o.source_port)
        typed  == rewrite_payload_type(OverrideSource(bound, o), o.payload_type)
        timed  == OverrideAudio(typed, o)
    IN  IF o.destination_ip \notin {"", m.conn} /\ m.conn = "" THEN SdpError("MissingConnection")
        ELSE IF o.payload_type # 0 /\ ~ValidPayloadType(o.payload_type) THEN SdpError("InvalidPayloadType")
        ELSE IF transport_scalar_override_set(o) THEN remove_media_attributes_by_key(timed, "inactive")
        ELSE timed

apply_media_overrides_in_place(file, o) ==
    LET marked == [file EXCEPT !.medias = [i \in DOMAIN @ |-> apply_caps_mode_override(@[i], o.caps_mode)]]
    IN  AndThen(apply_primary_leg_transport_overrides(marked.medias[1], o), LAMBDA first :
          [marked EXCEPT !.medias[1] = apply_bit_rates_to_media(first, o.bit_rates)])

passthrough_with_overrides(file, o, allow_dual_leg) ==
    AndThen(reject_unsupported_multi_media(file, allow_dual_leg), LAMBDA ok :
      apply_media_overrides_in_place(apply_session_overrides_in_place(file, o), o))
===========================================================================
