---------------------------- MODULE SdpEssence ----------------------------
(***************************************************************************)
(* The essence half of sdp.rs: what caps say about the media, what the RTP *)
(* caps of an SDP say about it, and the two translations between them.     *)
(*                                                                         *)
(* A GstStructure is a function from the names of the fields it has to     *)
(* their values; an absent field is one outside the domain.  A field whose *)
(* text does not parse reads as absent, and the models leave it out.       *)
(***************************************************************************)
EXTENDS Integers, Sequences, TLC

Has(s, f) == f \in DOMAIN s
Get(s, f, d) == IF Has(s, f) THEN s[f] ELSE d
With(s, f, v) == (f :> v) @@ s
Without(s, F) == [f \in DOMAIN s \ F |-> s[f]]
Only(s, F) == [f \in DOMAIN s \cap F |-> s[f]]

SdpError(e) == [err |-> e]
IsErr(r) == Has(r, "err")

\* The ? of Rust: an error is returned as it is, a value goes on.
AndThen(r, Continue(_)) == IF IsErr(r) THEN r ELSE Continue(r)

\* gst_caps_intersect on two fixed structures is not empty.
Intersects(a, b) ==
    /\ a.media = b.media
    /\ Get(a, "features", "") = Get(b, "features", "")
    /\ \A f \in (DOMAIN a \cap DOMAIN b) : a[f] = b[f]

(***************************************************************************)
(* essence_caps.rs.                                                        *)
(***************************************************************************)
default_smpte2110_channel_order(n) ==
    CASE n = 1 -> <<"M", 1>> [] n = 2 -> <<"ST", 2>>
      [] n \in 3..64 -> <<"U", n>> [] OTHER -> <<"U", 1>>

\* The low n bits of the mask, kept as n.
default_channel_mask(n) == n

channel_order_from_rtp_structure(rtp) == Only(rtp, {"channel_order"})

audio_caps_from(caps, order) ==
    caps @@ (IF Get(caps, "channels", 1) \in 1..64
             THEN "channel_mask" :> default_channel_mask(Get(caps, "channels", 1)) ELSE <<>>)
         @@ order
         @@ ("channel_order" :> default_smpte2110_channel_order(Get(caps, "channels", 1)))

essence_caps_from(caps, rtp) ==
    IF caps.media = "audio/x-raw"
    THEN audio_caps_from(caps, channel_order_from_rtp_structure(rtp))
    ELSE caps

overlay_features(base, source) == base @@ Only(source, {"features"})
without_features(caps) == Without(caps, {"features"})

(***************************************************************************)
(* Text forms of numbers.                                                  *)
(***************************************************************************)
\* "25" is <<25>> and "30000/1001" is <<30000, 1001>>.
format_exact_framerate(r) == IF r[2] = 1 THEN <<r[1]>> ELSE r
parse_exact_framerate(t) == IF Len(t) = 1 THEN <<t[1], 1>> ELSE t
Parses(t) == Len(t) = 1 \/ (Len(t) = 2 /\ t[2] # 0)

\* Milliseconds as <<whole, nanoseconds of the fraction>>.
format_ptime_ns_as_ms(ns) == <<ns \div 1000000, ns % 1000000>>
parse_ptime_ms_as_ns(t) == t[1] * 1000000 + t[2]

(***************************************************************************)
(* Colorimetry.                                                            *)
(***************************************************************************)
caps_colorimetry_from_sdp(c, depth, tcs) ==
    CASE c \in {"BT601-5", "BT601"} -> "bt601"
      [] c \in {"BT709-2", "BT709"} -> "bt709"
      [] c = "SMPTE240M" -> "smpte240m"
      [] c = "BT2020" -> (IF depth >= 10 THEN "bt2020-10" ELSE "bt2020")
      [] c = "BT2100" -> (IF tcs = "HLG" THEN "bt2100-hlg" ELSE "bt2100-pq")
      [] OTHER -> ""

sdp_colorimetry_from_caps(c) ==
    CASE c = "bt601" -> [colorimetry |-> "BT601"]
      [] c = "bt709" -> [colorimetry |-> "BT709"]
      [] c = "smpte240m" -> [colorimetry |-> "SMPTE240M"]
      [] c \in {"bt2020", "bt2020-10"} -> [colorimetry |-> "BT2020"]
      [] c = "bt2100-pq" -> [colorimetry |-> "BT2100", tcs |-> "PQ"]
      [] c = "bt2100-hlg" -> [colorimetry |-> "BT2100", tcs |-> "HLG"]
      [] OTHER -> <<>>

(***************************************************************************)
(* RTP caps to essence caps.                                               *)
(***************************************************************************)
caps_from_rtp_video(r) ==
    IF r.encoding_name # "RAW" THEN SdpError("UnsupportedEssence")
    ELSE IF Get(r, "sampling", "") # "YCbCr-4:2:2" \/ Get(r, "depth", 0) \notin {8, 10}
    THEN SdpError("UnsupportedEssence")
    ELSE IF ~Has(r, "width") \/ ~Has(r, "height") \/ ~Has(r, "exactframerate")
    THEN SdpError("UnsupportedEssence")
    ELSE IF ~Parses(r.exactframerate) THEN SdpError("UnsupportedEssence")
    ELSE LET col == caps_colorimetry_from_sdp(Get(r, "colorimetry", ""), r.depth, Get(r, "tcs", ""))
         IN  [media |-> "video/x-raw", format |-> IF r.depth = 8 THEN "UYVY" ELSE "UYVP",
              width |-> r.width, height |-> r.height,
              framerate |-> parse_exact_framerate(r.exactframerate),
              interlace |-> IF Get(r, "interlace", 0) # 0 THEN "interleaved" ELSE "progressive"]
             @@ (IF col = "" THEN <<>> ELSE "colorimetry" :> col)

caps_from_rtp_audio(r) ==
    IF r.encoding_name \notin {"L16", "L24"} THEN SdpError("UnsupportedEssence")
    ELSE [media |-> "audio/x-raw", format |-> IF r.encoding_name = "L16" THEN "S16BE" ELSE "S24BE",
          rate |-> r.clock_rate, channels |-> Get(r, "encoding_params", 1), layout |-> "interleaved"]

caps_from_rtp_data(r) ==
    IF r.encoding_name # "SMPTE291" THEN SdpError("UnsupportedEssence")
    ELSE [media |-> "meta/x-st-2038"]
         @@ (IF Has(r, "exactframerate") /\ Parses(Get(r, "exactframerate", <<>>))
             THEN "framerate" :> parse_exact_framerate(r.exactframerate) ELSE <<>>)

jxsv_structure_caps(r) ==
    [media |-> "image/x-jxsc", alignment |-> "frame", interlace |-> "progressive"]
    @@ Only(r, {"width", "height", "depth", "sampling", "profile", "level", "sublevel"})
    @@ (IF Has(r, "exactframerate") /\ Parses(Get(r, "exactframerate", <<>>))
        THEN "framerate" :> parse_exact_framerate(r.exactframerate) ELSE <<>>)

caps_from_rtp_video_jxsv(r) == jxsv_structure_caps(r)

(***************************************************************************)
(* Essence caps to RTP caps.                                               *)
(***************************************************************************)
VIDEO_CLOCK_RATE == 90000
ANC_CLOCK_RATE == 90000

TypeN(n) == IF n THEN "tp" :> "2110TPN" ELSE <<>>

rtp_caps_from_video(c, pt, type_n) ==
    IF Get(c, "format", "") \notin {"UYVY", "UYVP"} THEN SdpError("UnsupportedEssence")
    ELSE IF ~Has(c, "width") \/ ~Has(c, "height") \/ ~Has(c, "framerate")
    THEN SdpError("UnsupportedEssence")
    ELSE LET col == sdp_colorimetry_from_caps(Get(c, "colorimetry", ""))
         IN  [media |-> "video", clock_rate |-> VIDEO_CLOCK_RATE, encoding_name |-> "RAW", payload |-> pt,
              sampling |-> "YCbCr-4:2:2", depth |-> IF c.format = "UYVY" THEN 8 ELSE 10,
              width |-> c.width, height |-> c.height,
              exactframerate |-> format_exact_framerate(c.framerate),
              pm |-> "2110GPM", ssn |-> "ST2110-20:2017"]
             @@ (IF Get(c, "interlace", "progressive") = "interleaved" THEN "interlace" :> 1 ELSE <<>>)
             @@ (IF DOMAIN col = {} THEN "colorimetry" :> "BT709" ELSE col)
             @@ TypeN(type_n)

rtp_caps_from_video_jxsv(c, pt, type_n) ==
    IF ~Has(c, "width") \/ ~Has(c, "height") \/ ~Has(c, "framerate")
    THEN SdpError("UnsupportedEssence")
    ELSE [media |-> "video", clock_rate |-> VIDEO_CLOCK_RATE, encoding_name |-> "JXSV", payload |-> pt,
          packetmode |-> 0, width |-> c.width, height |-> c.height,
          exactframerate |-> format_exact_framerate(c.framerate), ssn |-> "ST2110-22:2019"]
         @@ Only(c, {"sampling", "depth", "profile", "level", "sublevel"})
         @@ sdp_colorimetry_from_caps(Get(c, "colorimetry", ""))
         @@ TypeN(type_n)

rtp_caps_from_audio(c, pt, ptime, maxptime, order) ==
    IF Get(c, "format", "") \notin {"S16BE", "S24BE"} THEN SdpError("UnsupportedEssence")
    ELSE IF ~Has(c, "rate") \/ ~Has(c, "channels") THEN SdpError("UnsupportedEssence")
    ELSE [media |-> "audio", clock_rate |-> c.rate,
          encoding_name |-> IF c.format = "S16BE" THEN "L16" ELSE "L24", payload |-> pt,
          encoding_params |-> c.channels, a_ptime |-> format_ptime_ns_as_ms(ptime)]
         @@ (IF maxptime = 0 THEN <<>> ELSE "a_maxptime" :> format_ptime_ns_as_ms(maxptime))
         @@ order
         @@ ("channel_order" :> default_smpte2110_channel_order(c.channels))

rtp_caps_from_data(c, pt) ==
    [media |-> "video", clock_rate |-> ANC_CLOCK_RATE, encoding_name |-> "SMPTE291", payload |-> pt,
     ssn |-> "ST2110-40:2018"]
    @@ (IF Has(c, "framerate")
        THEN "exactframerate" :> format_exact_framerate(c.framerate) ELSE <<>>)

(***************************************************************************)
(* What transport-caps contribute to a synthesised SDP.                    *)
(***************************************************************************)
essence_caps_format(c) ==
    CASE c.media \in {"video/x-raw", "image/x-jxsc"} -> "Video"
      [] c.media = "audio/x-raw" -> "Audio"
      [] c.media = "meta/x-st-2038" -> "Data"
      [] OTHER -> "Unspecified"

resolve_payload_type(format, tc) ==
    IF Has(tc, "payload") THEN tc.payload
    ELSE CASE format = "Video" -> 96 [] format = "Audio" -> 97 [] format = "Data" -> 100

ValidPayloadType(pt) == pt \in 96..127

AUDIO_PTIME_NS == 1000000
resolve_audio_ptime(tc) ==
    <<IF Has(tc, "a_ptime") THEN parse_ptime_ms_as_ns(tc.a_ptime) ELSE AUDIO_PTIME_NS,
      IF Has(tc, "a_maxptime") THEN parse_ptime_ms_as_ns(tc.a_maxptime) ELSE 0>>

resolved_audio_caps(c, tc) ==
    IF Has(tc, "clock_rate") THEN With(c, "rate", tc.clock_rate) ELSE c

\* The RTP caps of a synthesised SDP, the first half of from_caps.
RtpCapsFor(c, tc, type_n) ==
    LET format == essence_caps_format(c)
        pt == resolve_payload_type(format, tc)
        pts == resolve_audio_ptime(tc)
    IN  IF format = "Unspecified" THEN SdpError("UnsupportedEssence")
        ELSE IF ~ValidPayloadType(pt) THEN SdpError("InvalidPayloadType")
        ELSE CASE c.media = "image/x-jxsc" -> rtp_caps_from_video_jxsv(c, pt, type_n)
               [] c.media = "video/x-raw"  -> rtp_caps_from_video(c, pt, type_n)
               [] format = "Audio" -> rtp_caps_from_audio(resolved_audio_caps(c, tc), pt, pts[1], pts[2],
                                                          channel_order_from_rtp_structure(tc))
               [] format = "Data"  -> rtp_caps_from_data(c, pt)
===========================================================================
