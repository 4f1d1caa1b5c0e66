--------------------------- MODULE Packetization ---------------------------
(***************************************************************************)
(* nvdsudp/packetization.rs and ts_refclk.rs: the sizes that the Rivermax  *)
(* elements are configured with.  The packet time is counted in            *)
(* microseconds, of which the packet times of ST 2110-30 are multiples.    *)
(***************************************************************************)
EXTENDS SdpEssence

VIDEO_HEADER_SIZE == 20
AUDIO_HEADER_SIZE == 12
ANC_HEADER_SIZE == 20
DEFAULT_MAX_VIDEO_RTP_PAYLOAD == 1452
MIN_SRC_PAYLOAD_PER_PACKET == 800
DEFAULT_PTIME_US == 1000
DEFAULT_AUDIO_BUFFER_US == 16000

div_ceil(a, b) == (a + b - 1) \div b

(***************************************************************************)
(* Video: a line of padded packing groups in packets of equal size.        *)
(***************************************************************************)
video_pgroup(format) ==
    CASE format = "UYVY" -> [pixels |-> 1, bytes |-> 2]
      [] format = "UYVP" -> [pixels |-> 2, bytes |-> 5]
      [] format = "RGB"  -> [pixels |-> 1, bytes |-> 3]
      [] OTHER -> SdpError("unsupported video format")

video_line_stride(width, format) ==
    LET pg == video_pgroup(format) IN div_ceil(width, pg.pixels) * pg.bytes

PacketsPerLine(stride) ==
    {p \in div_ceil(stride, DEFAULT_MAX_VIDEO_RTP_PAYLOAD)..(stride \div MIN_SRC_PAYLOAD_PER_PACKET) :
        stride % p = 0}

choose_packets_per_line(stride) ==
    LET P == PacketsPerLine(stride)
    IN  IF P = {} THEN 0 ELSE CHOOSE p \in P : \A q \in P : p <= q

video_from_caps(c) ==
    IF ~Has(c, "format") \/ Get(c, "width", 0) = 0 THEN SdpError("caps")
    ELSE IF IsErr(video_pgroup(c.format)) THEN video_pgroup(c.format)
    ELSE LET stride == video_line_stride(c.width, c.format)
             ppl == choose_packets_per_line(stride)
         IN  IF ppl = 0 THEN SdpError("no packets-per-line")
             ELSE [kind |-> "Video", src_payload_size |-> stride \div ppl,
                   sink_payload_size |-> stride \div ppl + VIDEO_HEADER_SIZE, packets_per_line |-> ppl]

video_target_stride(c) == video_line_stride(c.width, c.format)

\* saturating_sub: a payload size below the header counts for nothing.
video_configured_stride(sink_payload_size, ppl) ==
    (IF sink_payload_size > VIDEO_HEADER_SIZE THEN sink_payload_size - VIDEO_HEADER_SIZE ELSE 0) * ppl

\* The sizes of a sink after transport-properties may have preset them.
reconcile_sink_video_packetization(sink, c) ==
    LET v == video_from_caps(c)
    IN  IF IsErr(v) THEN sink
        ELSE IF video_configured_stride(sink.payload_size, sink.packets_per_line) = video_target_stride(c) THEN sink
        ELSE [sink EXCEPT !.payload_size = v.sink_payload_size, !.packets_per_line = v.packets_per_line]

(***************************************************************************)
(* Audio and ancillary data.                                               *)
(***************************************************************************)
ptime_us_from_rtp_caps(rtp) ==
    IF Has(rtp, "a_ptime") THEN rtp.a_ptime[1] * 1000 + rtp.a_ptime[2] \div 1000 ELSE DEFAULT_PTIME_US

audio_sample_bytes(format) == CASE format = "S24BE" -> 3 [] format = "S16BE" -> 2 [] OTHER -> 0

audio_from_caps(c, ptime) ==
    LET bytes == c.rate * audio_sample_bytes(c.format) * c.channels
        payload == (bytes * ptime + 500000) \div 1000000
        multiple == (DEFAULT_AUDIO_BUFFER_US + ptime \div 2) \div ptime
    IN  IF ptime = 0 \/ bytes = 0 \/ payload = 0 THEN SdpError("audio payload size")
        ELSE [kind |-> "Audio", src_payload_size |-> payload, sink_payload_size |-> payload + AUDIO_HEADER_SIZE,
              payload_multiple |-> IF multiple > 1 THEN multiple ELSE 1]

anc_from_caps(c) ==
    IF c.media = "meta/x-st-2038" /\ Get(c, "alignment", "frame") = "frame" THEN [kind |-> "Anc"]
    ELSE SdpError("alignment")

with_st2038_frame_alignment(c) ==
    IF c.media = "meta/x-st-2038" THEN c @@ ("alignment" :> "frame") ELSE c

from_media(format, c, rtp) ==
    CASE format = "Video" -> video_from_caps(c)
      [] format = "Audio" -> audio_from_caps(c, ptime_us_from_rtp_caps(rtp))
      [] format = "Data"  -> anc_from_caps(c)
      [] OTHER -> SdpError("unspecified essence format")
===========================================================================
