------------------------- MODULE MCTransportConfig -------------------------
EXTENDS TransportConfig

MCLocalIps == {"nic1", "nic2"}
MCMulticastIps == {"mc1", "mc2", "mc3", "232.1.1.1", "232.1.1.2"}
MCFactories ==
    {<<r, d>> : r \in {"rtpvraw", "rtpjxsv", "rtpL24", "rtpL16", "rtpsmpte291"}, d \in {"pay", "depay"}}
    \union {<<"rtpvraw", "pay", "2">>, <<"rtpL24", "depay", "2">>, <<"udpsink">>, <<"udpsrc">>, <<"udpsrc", "2">>,
            <<"mxlsink">>, <<"mxlsrc">>, <<"nvdsudpsink">>, <<"nvdsudpsrc">>}

(***************************************************************************)
(* SDP files.                                                              *)
(***************************************************************************)
Block(kind, pt, enc, clock, params, fmtp, attrs) ==
    [kind |-> kind, port |-> 5004, pt |-> pt, conn |-> "mc1", as |-> 0,
     rtpmap |-> [pt |-> pt, enc |-> enc, clock |-> clock, params |-> params], fmtp |-> [pt |-> pt, p |-> fmtp],
     attrs |-> attrs @@ [iface_ip |-> "nic1", source_filter |-> [mode |-> "incl", dest |-> "mc1", src |-> "nic1"]]]
VideoFmtp == [sampling |-> "YCbCr-4:2:2", depth |-> 10, width |-> 1920, height |-> 1080, exactframerate |-> <<25>>,
              colorimetry |-> "BT709", PM |-> "2110GPM", SSN |-> "ST2110-20:2017"]
Video == Block("video", 96, "raw", 90000, 0, VideoFmtp, <<>>)
Hd50 == Block("video", 112, "raw", 90000, 0, [VideoFmtp EXCEPT !.width = 1280, !.height = 720, !.depth = 8,
                                                               !.exactframerate = <<50>>], <<>>)
Audio == Block("audio", 97, "L24", 48000, 2, [channel_order |-> <<"ST", 2>>], [ptime |-> <<1, 0>>])
Jxsv == Block("video", 96, "jxsv", 90000, 0, [width |-> 1920, height |-> 1080, exactframerate |-> <<25>>,
                                              packetmode |-> 0], <<>>)
Anc == Block("video", 100, "smpte291", 90000, 0, <<>>, <<>>)
File(medias) == [label |-> "l", desc |-> "", conn |-> "", attrs |-> [name |-> "f1"], medias |-> medias]
Second(m) == [m EXCEPT !.conn = "mc2", !.port = 5006,
                       !.attrs = With(With(@, "iface_ip", "nic2"), "source_filter", [mode |-> "incl", dest |-> "mc2", src |-> "nic2"])]
Off(m) == [m EXCEPT !.attrs = With(@, "inactive", "")]
SdpFiles ==
    {File(<<m>>) : m \in {Video, Audio, Jxsv, Anc, Off(Video),
                          [Video EXCEPT !.rtpmap.pt = 97],
                          [Video EXCEPT !.fmtp.p = With(@, "x_format_bit_rate", 2000)],
                          [Audio EXCEPT !.as = 2100],
                          [Video EXCEPT !.attrs = With(@, "caps", 96)]}}
    \union {[File(<<Audio>>) EXCEPT !.attrs = <<>>]}
    \union {File(<<a, b>>) : a \in {Video, Off(Video)}, b \in {Second(Video), Off(Second(Video))}}
    \union {File(<<Video, Second(Audio)>>)}
SessionLevel == [File(<<[Video EXCEPT !.conn = "", !.attrs = With(@, "ts_refclk", "ptp")]>>) EXCEPT !.conn = "mc1"]

MCReceivedFiles == {File(<<m>>) : m \in {Video, Hd50, Audio}} \union {File(<<Hd50, Second(Hd50)>>)}

(***************************************************************************)
(* Caps and flow_defs.                                                     *)
(***************************************************************************)
VideoCaps(f) == [media |-> "video/x-raw", format |-> f, width |-> 1920, height |-> 1080, framerate |-> <<25, 1>>]
AudioCaps(f) == [media |-> "audio/x-raw", format |-> f, rate |-> 48000, channels |-> 2]
AncCaps == [media |-> "meta/x-st-2038", framerate |-> <<25, 1>>]
RtpCapsSet == {VideoCaps("UYVP"), With(VideoCaps("UYVY"), "interlace", "interleaved"), VideoCaps("v210"),
               AudioCaps("S24BE"), AncCaps}
MCPeerCaps == {VideoCaps("UYVP"), VideoCaps("v210"), AudioCaps("S24BE")}

Flow(format, body) == [id |-> "flow1", format |-> format, label |-> "l", desc |-> "",
                       tags |-> [name |-> <<"f1">>, domain |-> <<"dom1">>], body |-> body]
VideoFlow == Flow("Video", build_video_body(VideoCaps("v210")))
AudioFlow == Flow("Audio", build_audio_body(AudioCaps("F32LE")))
FlowDefs == {VideoFlow, AudioFlow, Flow("Data", build_data_body(AncCaps)), [VideoFlow EXCEPT !.id = ""],
             [VideoFlow EXCEPT !.tags = Without(@, {"domain"})], [VideoFlow EXCEPT !.tags.domain = <<"dom1", "dom2">>],
             [AudioFlow EXCEPT !.tags = Without(@, {"name"}), !.id = ""], [VideoFlow EXCEPT !.format = "unknown"],
             [AudioFlow EXCEPT !.body.sample_rate = <<48000, 1001>>], [VideoFlow EXCEPT !.tags = With(@, "caps", <<"">>)]}
MxlCapsSet == {VideoCaps("v210"), AudioCaps("F32LE"), AncCaps, VideoCaps("UYVP")}

(***************************************************************************)
(* Settings: a base per side, transport and input, and what one property   *)
(* more may be set to.                                                     *)
(***************************************************************************)
Unset == [name |-> "n1", label |-> "", description |-> "", group_hint |-> "", caps |-> <<>>, transport_caps |-> <<>>,
          caps_mode |-> "auto", source_ip |-> "", source_port |-> 0, destination_ip |-> "", destination_port |-> 0,
          interface_ip |-> "", multicast_ip |-> "", format_bit_rate |-> 0, transport_bit_rate |-> 0,
          auto_activate |-> TRUE, mxl_flow_id |-> "", mxl_domain_id |-> "", mxl_domain_path |-> "", domain_def |-> "",
          file |-> <<>>, file_from |-> "none", transport_properties |-> <<>>, pay_properties |-> <<>>]

RtpBases ==
    LET of(side, transport) == [side |-> side, transport |-> transport] @@ Unset
        elements == {of(side, transport) : side \in {"Sender", "Receiver"}, transport \in {"Udp", "Udp2", "NvDsUdp"}}
        ends == [Sender |-> [source_ip |-> "nic1", destination_ip |-> "mc1"],
                 Receiver |-> [interface_ip |-> "nic1", multicast_ip |-> "mc1"]]
    IN  {[file |-> f, file_from |-> "inline"] @@ e : e \in elements, f \in SdpFiles \union {SessionLevel}}
        \union {ends[e.side] @@ [caps |-> c] @@ e : e \in elements, c \in RtpCapsSet \union {<<>>}}

RtpChanges(s) ==
    [name |-> {""}, label |-> {"l2"}, caps_mode |-> {"constrained", "unconstrained"},
     source_ip |-> IF s.file = SessionLevel THEN {} ELSE {"", "nic2"}, source_port |-> {6000}, destination_port |-> {5008},
     destination_ip |-> {"", "uni1", "mc3"}, interface_ip |-> {"", "nic2"}, multicast_ip |-> {"", "mc3"},
     format_bit_rate |-> {2000, 1001}, transport_bit_rate |-> {2100, 1000}, auto_activate |-> {FALSE},
     caps |-> IF s.file_from = "none" THEN {} ELSE {VideoCaps("UYVP"), With(VideoCaps("UYVP"), "features", "NVMM"), AudioCaps("S24BE")},
     transport_caps |-> {[payload |-> 112], [payload |-> 20], [clock_rate |-> 96000], [a_ptime |-> <<0, 125000>>]},
     file_from |-> IF s.file_from = "none" THEN {} ELSE {"path", "both", "unreadable", "empty"},
     transport_properties |-> {[payload_size |-> [ok |-> TRUE, v |-> 1220]], [packets_per_line |-> [ok |-> FALSE, v |-> 0]]},
     pay_properties |-> {[timestamp_offset |-> [ok |-> TRUE, v |-> 7]]}]

MxlBases ==
    LET of(side) == [side |-> side, transport |-> "Mxl", mxl_domain_path |-> "path"] @@ Unset
        elements == {of("Sender"), of("Receiver")}
    IN  {[file |-> f, file_from |-> "inline"] @@ e : e \in elements, f \in FlowDefs}
        \union {[caps |-> c] @@ e : e \in elements, c \in MxlCapsSet \union {<<>>}}

MxlChanges(s) ==
    [name |-> {""}, label |-> {"l2"}, group_hint |-> {"g"}, caps_mode |-> {"constrained", "unconstrained"},
     mxl_flow_id |-> {"flow1", "flow2"}, mxl_domain_id |-> {"dom1"}, mxl_domain_path |-> {""}, domain_def |-> {"dom1", "dom2"},
     auto_activate |-> {FALSE}, caps |-> IF s.file_from = "none" THEN {} ELSE {VideoCaps("v210"), AudioCaps("F32LE")}]

Changed(s, changes) == {s} \union UNION {{[s EXCEPT ![f] = v] : v \in changes[f]} : f \in DOMAIN changes}
Dormant(S) == S \union {[s EXCEPT !.auto_activate = FALSE] : s \in S}

MCSettingsSet ==
    Dormant(UNION {Changed(s, RtpChanges(s)) : s \in RtpBases})
    \union UNION {UNION {Changed(t, MxlChanges(t)) : t \in Changed(s, MxlChanges(s))} : s \in MxlBases}

MCPatches ==
    {[leg |-> 1, set |-> p] : p \in {<<>>, [dest |-> "mc3", multicast |-> "mc3", dport |-> 5010],
                                     [dest |-> "auto", dport |-> 0, sport |-> 0, iface |-> "auto"],
                                     [enabled |-> FALSE]}}
    \union {[leg |-> 2, set |-> [enabled |-> e]] : e \in BOOLEAN}
MCFlowIds == {"flow1", "flow2"}
===========================================================================
