-------------------------- MODULE LibnvnmosFiles --------------------------
(***************************************************************************)
(* How libnvnmos (nvnmos_impl.cpp) reads the transport file a resource is  *)
(* added with, and the file it hands to the application on an activation.  *)
(* Transport parameters are a sequence of legs; "auto" and port 0 are the  *)
(* IS-05 value "auto", "" is null.                                         *)
(***************************************************************************)
EXTENDS SdpFile, FlowDef

ConnectionOf(file, m) == IF m.conn # "" THEN m.conn ELSE file.conn

(***************************************************************************)
(* SDP to transport parameters.                                            *)
(***************************************************************************)
SenderParams(file, m) ==
    LET conn == ConnectionOf(file, m)
    IN  [dest  |-> IF conn \in MulticastIps \/ conn # UNSPECIFIED THEN conn ELSE "auto",
         dport |-> m.port,
         src   |-> IF Has(m.attrs, "iface_ip") THEN m.attrs.iface_ip
                   ELSE IF Has(m.attrs, "source_filter") THEN m.attrs.source_filter.src ELSE "",
         sport |-> Get(m.attrs, "src_port", 0),
         enabled |-> ~Has(m.attrs, "inactive")]

ReceiverParams(file, m) ==
    LET conn == ConnectionOf(file, m)
    IN  [multicast |-> IF conn \in MulticastIps THEN conn ELSE "",
         dport |-> m.port,
         iface |-> IF Has(m.attrs, "iface_ip") THEN m.attrs.iface_ip
                   ELSE IF conn \in MulticastIps THEN "auto" ELSE conn,
         src   |-> IF Has(m.attrs, "source_filter") THEN m.attrs.source_filter.src ELSE "",
         enabled |-> ~Has(m.attrs, "inactive")]

get_session_description_transport_params(side, file) ==
    [i \in DOMAIN file.medias |->
        IF side = "Sender" THEN SenderParams(file, file.medias[i]) ELSE ReceiverParams(file, file.medias[i])]

\* The address of this host that a leg names.
LegAddress(side, p) == IF side = "Sender" THEN p.src ELSE p.iface

\* x-nvnmos-iface on every leg or on none; without it the address decides.
InterfacesKnown(side, file) ==
    LET named == {i \in DOMAIN file.medias : Has(file.medias[i].attrs, "iface")}
        params == get_session_description_transport_params(side, file)
    IN  IF named = {} THEN \A i \in DOMAIN params : LegAddress(side, params[i]) \in LocalIps
        ELSE named = DOMAIN file.medias

AcceptsSdp(side, file) ==
    /\ Get(file.attrs, "name", "") # ""
    /\ InterfacesKnown(side, file)
    /\ side = "Sender" =>
         \A i \in DOMAIN file.medias : get_session_description_transport_params(side, file)[i].src # ""

AcceptsFlowDef(file) ==
    /\ flow_resource_name_from_transport(file) # ""
    /\ file.body.media_type \in {"video/v210", "audio/float32", "video/smpte291"}

(***************************************************************************)
(* Bit rates, with the arithmetic of the daemon's side.                    *)
(***************************************************************************)
get_format_bit_rate(m) ==
    IF Has(m.fmtp.p, "x_format_bit_rate") THEN m.fmtp.p.x_format_bit_rate
    ELSE IF Has(m.fmtp.p, "x_transport_bit_rate") THEN (m.fmtp.p.x_transport_bit_rate * 100) \div 105
    ELSE (m.as * 100) \div 105

get_transport_bit_rate(m) ==
    IF Has(m.fmtp.p, "x_transport_bit_rate") THEN m.fmtp.p.x_transport_bit_rate
    ELSE IF Has(m.fmtp.p, "x_format_bit_rate") THEN ((m.fmtp.p.x_format_bit_rate * 105 + 50000) \div 100000) * 1000
    ELSE m.as

(***************************************************************************)
(* "auto" at an activation: the enum constraint for the local address, the *)
(* configured file for the rest, an address of the SSM block as the last   *)
(* resort.                                                                 *)
(***************************************************************************)
SsmAddress(leg) == IF leg = 1 THEN "232.1.1.1" ELSE "232.1.1.2"

resolve_auto(side, file, params) ==
    LET configured == get_session_description_transport_params(side, file)
    IN  [i \in DOMAIN params |->
          IF side = "Sender"
          THEN [params[i] EXCEPT
                  !.src   = IF @ = "auto" THEN configured[i].src ELSE @,
                  !.dest  = IF @ # "auto" THEN @ ELSE IF configured[i].dest # "auto" THEN configured[i].dest ELSE SsmAddress(i),
                  !.dport = IF @ # 0 THEN @ ELSE IF configured[i].dport # 0 THEN configured[i].dport ELSE RTP_PORT,
                  !.sport = IF @ # 0 THEN @ ELSE IF configured[i].sport # 0 THEN configured[i].sport ELSE RTP_PORT]
          ELSE [params[i] EXCEPT !.iface = IF @ = "auto" THEN configured[i].iface ELSE @,
                                 !.dport = IF @ # 0 THEN @ ELSE RTP_PORT]]

(***************************************************************************)
(* What a controller stages (nmos-cpp): the parameters of the configured   *)
(* file with some of them replaced, or for a Receiver those of the SDP of  *)
(* a multicast Sender, the legs that it does not have disabled.            *)
(***************************************************************************)
StagedParams(side, file, patch) ==
    LET params == get_session_description_transport_params(side, file)
    IN  [i \in DOMAIN params |->
          IF i # patch.leg THEN params[i]
          ELSE [f \in DOMAIN params[i] |-> Get(patch.set, f, params[i][f])]]

ReceivedParams(file, received) ==
    LET configured == get_session_description_transport_params("Receiver", file)
        theirs == get_session_description_transport_params("Receiver", received)
    IN  [i \in DOMAIN configured |->
          IF i \in DOMAIN theirs
          THEN [configured[i] EXCEPT !.multicast = theirs[i].multicast, !.dport = theirs[i].dport,
                                     !.src = theirs[i].src, !.enabled = theirs[i].enabled]
          ELSE [configured[i] EXCEPT !.enabled = FALSE]]

(***************************************************************************)
(* The file of an activation: the essence of one SDP (the one a Receiver   *)
(* was given, the configured one otherwise) with the resolved parameters.  *)
(***************************************************************************)
LegDescription(side, m, p, marker) ==
    LET conn == IF side = "Sender" THEN p.dest ELSE IF p.multicast # "" THEN p.multicast ELSE p.iface
        address == LegAddress(side, p)
    IN  [m EXCEPT
          !.conn = conn, !.port = p.dport,
          !.attrs = (IF p.src = "" THEN <<>> ELSE "source_filter" :> [mode |-> "incl", dest |-> conn, src |-> p.src])
                    @@ (IF side = "Receiver" /\ marker THEN "caps" :> m.pt ELSE <<>>)
                    @@ (IF side = "Sender" THEN "src_port" :> p.sport ELSE <<>>)
                    @@ ("iface_ip" :> address)
                    @@ (IF p.enabled THEN <<>> ELSE "inactive" :> "")
                    @@ Only(m.attrs, {"ptime", "maxptime", "ts_refclk", "mediaclk"})]

\* essence has the s= and i= lines too; the name and the group hint are
\* those of the resource.
make_session_description(side, resource, essence, params, marker) ==
    [essence EXCEPT
      !.conn = "",
      !.attrs = Only(resource.attrs, {"name", "group_hint"}),
      !.medias = [i \in DOMAIN params |->
                    LegDescription(side, essence.medias[IF i \in DOMAIN essence.medias THEN i ELSE 1], params[i], marker)]]

\* received is the SDP that a Receiver's controller staged, <<>> for none.
ActivationSdp(side, file, received, params) ==
    make_session_description(side, file, IF DOMAIN received = {} THEN file ELSE received,
                             resolve_auto(side, file, params),
                             side = "Receiver" /\ indicates_unconstrained_receiver_caps(file))

(***************************************************************************)
(* MXL.  The configured id constrains a Sender's flow id, and a configured *)
(* Domain the Domain; an application-resolved one is null.                 *)
(***************************************************************************)
get_mxl_flow_def_domain_id(file) ==
    IF Get(file.tags, "domain", <<>>) = <<>> THEN "" ELSE file.tags["domain"][1]

get_mxl_flow_def_id(file) == file.id

\* label and description are the resource's: those of the file it was added
\* with, unless an annotation changed them.
make_mxl_flow_def(file, domain, flow_id) ==
    [file EXCEPT !.tags = With(@, "domain", TagJson(domain)), !.id = flow_id]
===========================================================================
