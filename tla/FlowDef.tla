------------------------------ MODULE FlowDef ------------------------------
(***************************************************************************)
(* MXL transport files: flow_def.rs and domain.rs.  A flow_def is the      *)
(* record of its id ("" when absent), format, label, description, the tags *)
(* (a function from tag names to the sequence of their values) and body,   *)
(* the fields that describe the essence.                                   *)
(***************************************************************************)
EXTENDS SdpEssence

FlowDefError(e) == [err |-> e]

\* FlowFormat::from_caps: JPEG XS has no MXL format.
FormatFromCaps(c) == IF Get(c, "media", "") = "image/x-jxsc" THEN "Unspecified"
                     ELSE IF DOMAIN c = {} THEN "Unspecified" ELSE essence_caps_format(c)

(***************************************************************************)
(* The Domain: "" is application-resolved.  domain_def is the id that      *)
(* domain_def.json declares at the path, "" when there is no such file.    *)
(***************************************************************************)
TagJson(domain) == <<domain>>

read_domain_def_id(path, domain_def) == IF path = "" THEN "" ELSE domain_def

resolve_mxl_domain_id(property, path, domain_def) ==
    LET file == read_domain_def_id(path, domain_def)
    IN  IF property = "" THEN (IF file = "" /\ path = "" THEN FlowDefError("Unconfigured")
                               ELSE [domain |-> file])
        ELSE IF file \notin {"", property} THEN FlowDefError("Mismatch")
        ELSE [domain |-> property]

\* The values of the tag: none or one empty is application-resolved, an
\* empty one after a UUID and two UUIDs are malformed.
mxl_domain_id_from_tag_value(v) ==
    IF v = <<>> THEN [domain |-> ""]
    ELSE IF v[1] = "" THEN [domain |-> ""]
    ELSE IF Len(v) > 1 THEN FlowDefError("InvalidDomainIdTag")
    ELSE [domain |-> v[1]]

mxl_domain_id_from_transport(file) == mxl_domain_id_from_tag_value(Get(file.tags, "domain", <<>>))

flow_resource_name_from_transport(file) ==
    IF Get(file.tags, "name", <<>>) = <<>> THEN "" ELSE file.tags["name"][1]

flow_indicates_unconstrained_receiver_caps(file) == Get(file.tags, "caps", <<>>) # <<>>

(***************************************************************************)
(* The flow id and format of a property and a file.                        *)
(***************************************************************************)
resolve_id(property, file) ==
    CASE property = "" -> [id |-> file]
      [] property # "" /\ file \in {"", property} -> [id |-> property]
      [] OTHER -> FlowDefError("IdMismatch")

resolve_format(property, file) ==
    CASE file = "Unspecified" -> [format |-> property]
      [] property \in {"Unspecified", file} -> [format |-> file]
      [] OTHER -> FlowDefError("FormatMismatch")

\* No file is <<>>.
read_flow_def_meta(file) ==
    IF DOMAIN file = {} THEN [id |-> "", format |-> "Unspecified"] ELSE [id |-> file.id, format |-> file.format]

resolve_mxl_flow_meta(property_id, property_format, file) ==
    LET meta == read_flow_def_meta(file)
        id == resolve_id(property_id, meta.id)
        format == resolve_format(property_format, meta.format)
    IN  IF meta.format = "unknown" THEN FlowDefError("UnknownFormat")
        ELSE IF IsErr(id) THEN id ELSE IF IsErr(format) THEN format
        ELSE [id |-> id.id, format |-> format.format]

(***************************************************************************)
(* Overrides: "" and caps_mode "auto" leave the file as it is.             *)
(***************************************************************************)
OverrideTags(tags, o) ==
    LET named == (IF o.name = "" THEN <<>> ELSE "name" :> <<o.name>>)
                 @@ (IF o.group_hint = "" THEN <<>> ELSE "group_hint" :> <<o.group_hint>>)
                 @@ (IF o.domain = "" THEN <<>> ELSE "domain" :> TagJson(o.domain))
                 @@ tags
    IN  CASE o.caps_mode = "auto" -> named
          [] o.caps_mode = "constrained" -> Without(named, {"caps"})
          [] o.caps_mode = "unconstrained" -> With(named, "caps", <<"">>)

splice_overrides(file, o) ==
    [file EXCEPT !.id    = IF o.flow_id = "" THEN @ ELSE o.flow_id,
                 !.label = IF o.label = "" THEN @ ELSE o.label,
                 !.desc  = IF o.description = "" THEN @ ELSE o.description,
                 !.tags  = OverrideTags(@, o)]

NoOverrides == [flow_id |-> "", name |-> "", label |-> "", description |-> "", group_hint |-> "",
                domain |-> "", caps_mode |-> "auto"]

(***************************************************************************)
(* Synthesis from caps, and caps from a file.                              *)
(***************************************************************************)
build_video_body(c) ==
    IF Get(c, "format", "") # "v210" THEN FlowDefError("UnsupportedCapsValue")
    ELSE IF ~Has(c, "width") \/ ~Has(c, "height") \/ ~Has(c, "framerate")
    THEN FlowDefError("MissingCapsField")
    ELSE [media_type |-> "video/v210", grain_rate |-> c.framerate, frame_width |-> c.width,
          frame_height |-> c.height, colorspace |-> "BT709", chroma_width |-> c.width \div 2]
         @@ Only(c, {"interlace"})

build_audio_body(c) ==
    IF Get(c, "format", "") # "F32LE" THEN FlowDefError("UnsupportedCapsValue")
    ELSE IF ~Has(c, "rate") \/ ~Has(c, "channels") THEN FlowDefError("MissingCapsField")
    ELSE [media_type |-> "audio/float32", sample_rate |-> <<c.rate, 1>>, channel_count |-> c.channels,
          bit_depth |-> 32]

build_data_body(c) ==
    IF ~Has(c, "framerate") THEN FlowDefError("MissingCapsField")
    ELSE [media_type |-> "video/smpte291", grain_rate |-> c.framerate]

flow_def_from_caps(in) ==
    LET body == CASE in.caps.media = "video/x-raw" -> build_video_body(in.caps)
                  [] in.caps.media = "audio/x-raw" -> build_audio_body(in.caps)
                  [] in.caps.media = "meta/x-st-2038" -> build_data_body(in.caps)
                  [] OTHER -> FlowDefError("UnsupportedCaps")
    IN  IF in.name = "" THEN FlowDefError("MissingName")
        ELSE IF IsErr(body) THEN body
        ELSE [id |-> in.flow_id, format |-> FormatFromCaps(in.caps),
              label |-> IF in.label # "" THEN in.label ELSE in.name, desc |-> in.description,
              tags |-> ("name" :> <<in.name>>) @@ ("domain" :> TagJson(in.domain))
                       @@ (IF in.group_hint = "" THEN <<>> ELSE "group_hint" :> <<in.group_hint>>),
              body |-> body]

rational_to_gst_fraction(r) == r

flow_def_caps_from(file) ==
    LET b == file.body
    IN  CASE b.media_type = "video/v210" ->
               [media |-> "video/x-raw", format |-> "v210", width |-> b.frame_width, height |-> b.frame_height,
                framerate |-> rational_to_gst_fraction(b.grain_rate)] @@ Only(b, {"interlace"})
          [] b.media_type = "audio/float32" ->
               IF b.sample_rate[2] # 1 THEN FlowDefError("OutOfRangeField")
               ELSE [media |-> "audio/x-raw", format |-> "F32LE", rate |-> b.sample_rate[1],
                     channels |-> b.channel_count, layout |-> "interleaved"]
          [] b.media_type = "video/smpte291" ->
               [media |-> "meta/x-st-2038", framerate |-> rational_to_gst_fraction(b.grain_rate)]
          [] OTHER -> FlowDefError("UnsupportedMediaType")
===========================================================================
