------------------------------ MODULE ShareLinks ------------------------------
(***************************************************************************)
(* What a subscription says of one inbound: the share links, written by    *)
(* sub/subService.go from the settings of the inbound (gen...Link) or from *)
(* the row of the client (gen...LinkWithClient), and the configurations    *)
(* of sub/subJsonService.go.  A link has the security of the connection    *)
(* and parameters; of a parameter the model keeps where its value is from. *)
(* External proxies take the place of the inbound's addresses, and may     *)
(* force another security; a host lays its own values over the inbound's.  *)
(***************************************************************************)
EXTENDS Naturals, Sequences

CONSTANTS
  Protocols,   \* among vmess, vless, trojan, shadowsocks
  Networks,    \* transports, "" when not given, "http" for tcp with that header
  Securities,  \* among none, tls, reality
  Overrides,   \* sets of values a host may lay over those of the inbound
  MaxProxies   \* external proxies of an inbound

Forces == {"same", "tls", "none"}
NoHost == {"no host"}

Inputs == [protocol : Protocols, network : Networks, security : Securities,
           flow : BOOLEAN,            \* a flow is set
           names : BOOLEAN,           \* reality has server names and short ids
           listed : BOOLEAN,          \* the client is in the settings
           host : Overrides \cup {NoHost},
           proxies : UNION {[1 .. n -> Forces] : n \in 0 .. MaxProxies}]

VARIABLES
  inbound,   \* the inbound asked about
  stream,    \* getConfig: the stream settings it writes from
  configs    \* the configurations it has written

vars == <<inbound, stream, configs>>

-----------------------------------------------------------------------------
Keys(keys, from) == [k \in keys |-> from]
Without(params, keys) == [k \in DOMAIN params \ keys |-> params[k]]
Over(new, params) ==
  [k \in DOMAIN new \cup DOMAIN params |-> IF k \in DOMAIN new THEN new[k] ELSE params[k]]

TlsKeys == {"alpn", "sni", "fp", "allowInsecure"}
RealityKeys == {"sni", "pbk", "sid", "fp", "pqv", "spx"}

Transport(network) ==
  CASE network = "http" -> {"path", "host", "headerType"}
    [] network = "kcp" -> {"headerType", "seed"}
    [] network \in {"ws", "httpupgrade"} -> {"path", "host"}
    [] network = "grpc" -> {"serviceName", "authority"}
    [] network = "xhttp" -> {"path", "host", "mode"}
    [] OTHER -> {}

\* vmess has names of its own.
VmessTransport(network) ==
  {"type"} \cup CASE network \in {"http", "ws", "httpupgrade"} -> {"path", "host"}
                  [] network = "kcp" -> {"path"}
                  [] network = "grpc" -> {"path", "authority"}
                  [] network = "xhttp" -> {"path", "host", "mode"}
                  [] OTHER -> {}

(* applyHostOverridesToParams: the host's values win.                      *)
Carriers(protocol, network) ==
  CASE network = "grpc" -> [host |-> "authority",
                            path |-> IF protocol = "vmess" THEN "path" ELSE "serviceName"]
    [] OTHER -> [host |-> "host", path |-> "path"]

Overridden(i, params) ==
  LET named == i.host \cap {"sni", "alpn", "fp", "allowInsecure"}
      carried == IF i.network \in {"grpc", "ws", "httpupgrade", "xhttp", "http"}
                 THEN {Carriers(i.protocol, i.network)[k] : k \in i.host \cap {"host", "path"}}
                 ELSE {}
  IN IF i.host = NoHost THEN params ELSE Over(Keys(named \cup carried, "host"), params)

-----------------------------------------------------------------------------
(* The parameters before a host or a proxy has its say.                    *)
Flows(i) == i.flow /\ i.network \in {"tcp", "http", "", "xhttp"}

TlsParams(i) == IF i.security = "tls" THEN TlsKeys ELSE {}
RealityParams(i) ==
  IF i.security = "reality"
  THEN IF i.names THEN RealityKeys ELSE RealityKeys \ {"sni", "sid"}
  ELSE {}

VmessParams(i) == Keys(VmessTransport(i.network) \cup TlsParams(i), "inbound")
VlessParams(i) ==
  Keys(Transport(i.network) \cup {"encryption"} \cup TlsParams(i) \cup RealityParams(i)
       \cup IF Flows(i) /\ i.security # "none" THEN {"flow"} ELSE {}, "inbound")
TrojanParams(i) ==
  Keys(Transport(i.network) \cup TlsParams(i) \cup RealityParams(i)
       \cup IF Flows(i) /\ i.security = "reality" THEN {"flow"} ELSE {}, "inbound")
ShadowsocksParams(i) == Keys(Transport(i.network) \cup TlsParams(i), "inbound")

\* Shadowsocks says tls or nothing, the others what the inbound says.
Says(i) == IF i.protocol = "shadowsocks" /\ i.security # "tls" THEN "none" ELSE i.security

Link(security, params) == [security |-> security, params |-> params]
Forced(force, security) == IF force = "same" THEN security ELSE force
Dropped(force) == IF force = "none" THEN TlsKeys ELSE {}

(* The links of vless, trojan and shadowsocks: the host first, then what a *)
(* proxy without TLS does not want.  With the inbound's own addresses the  *)
(* host's values are laid over as they are.                                *)
UrlLinks(i, params) ==
  IF i.proxies = <<>>
  THEN <<Link(Says(i), Overridden(i, params))>>
  ELSE [k \in DOMAIN i.proxies |->
         Link(Forced(i.proxies[k], i.security),
              Without(Overridden(i, params), Dropped(i.proxies[k])))]

(* The objects of vmess: the host comes last.                              *)
VmessLinks(i) ==
  IF i.proxies = <<>>
  THEN <<Link(i.security, Overridden(i, VmessParams(i)))>>
  ELSE [k \in DOMAIN i.proxies |->
         Link(Forced(i.proxies[k], i.security),
              Overridden(i, Without(VmessParams(i), Dropped(i.proxies[k]))))]

VlessLinks(i) == UrlLinks(i, VlessParams(i))
TrojanLinks(i) == UrlLinks(i, TrojanParams(i))
ShadowsocksLinks(i) == UrlLinks(i, ShadowsocksParams(i))

\* Where the generators stop: a transport that is not given (but for vless),
\* and reality without names (but for vless, vmess and shadowsocks).
Panic == [stops |-> TRUE, links |-> <<>>]
Links(links) == [stops |-> FALSE, links |-> links]
Unnamed(i) == i.security = "reality" /\ ~i.names

VmessLinkWithClient(i) == Links(VmessLinks(i))
VlessLinkWithClient(i) == Links(VlessLinks(i))
TrojanLinkWithClient(i) ==
  IF i.network = "" \/ Unnamed(i) THEN Panic ELSE Links(TrojanLinks(i))
ShadowsocksLinkWithClient(i) == Links(ShadowsocksLinks(i))

\* From the settings: a client they do not list is index -1, but for
\* shadowsocks, which then has no link.
VmessLink(i) == IF ~i.listed THEN Panic ELSE Links(VmessLinks(i))
VlessLink(i) ==
  IF ~i.listed \/ i.network = "" \/ Unnamed(i) THEN Panic ELSE Links(VlessLinks(i))
\* Mutant: the flow under the condition vless has.
FlowUnderTls(i) ==
  IF ~i.listed \/ i.network = "" \/ Unnamed(i) THEN Panic ELSE Links(UrlLinks(i, VlessParams(i)))

TrojanLink(i) ==
  IF ~i.listed \/ i.network = "" \/ Unnamed(i) THEN Panic ELSE Links(TrojanLinks(i))
ShadowsocksLink(i) == Links(IF ~i.listed THEN <<>> ELSE ShadowsocksLinks(i))

LinksFromRow(i) ==
  CASE i.protocol = "vmess" -> VmessLinkWithClient(i)
    [] i.protocol = "vless" -> VlessLinkWithClient(i)
    [] i.protocol = "trojan" -> TrojanLinkWithClient(i)
    [] i.protocol = "shadowsocks" -> ShadowsocksLinkWithClient(i)

LinksFromSettings(i) ==
  CASE i.protocol = "vmess" -> VmessLink(i)
    [] i.protocol = "vless" -> VlessLink(i)
    [] i.protocol = "trojan" -> TrojanLink(i)
    [] i.protocol = "shadowsocks" -> ShadowsocksLink(i)

-----------------------------------------------------------------------------
(* GetJson: one configuration for each proxy, or for the panel's host.     *)
JsonProxies(i) == IF i.proxies = <<>> THEN <<"same">> ELSE i.proxies

\* streamData: what a client needs of the settings.
StreamData(i) ==
  [security |-> i.security,
   layers |-> IF i.security = "none" THEN {} ELSE {i.security}]

Init ==
  /\ inbound \in Inputs
  /\ inbound.names \/ inbound.security = "reality"
  /\ stream = StreamData(inbound)
  /\ configs = <<>>

\* Every proxy writes into the one map, so that the next finds what the last
\* one has forced.
\* Mutants: only a plain connection is forced to TLS; the settings are left
\* when the security is forced.
ForcesPlainOnly(s, force) ==
  CASE force = "tls" /\ s.security = "none" ->
         [security |-> "tls", layers |-> s.layers \cup {"tls"}]
    [] force = "none" /\ s.security # "none" ->
         [security |-> "none", layers |-> s.layers \ {"tls"}]
    [] OTHER -> s

Retouched(s, force) ==
  CASE force = "tls" /\ s.security # "tls" ->
         [security |-> "tls", layers |-> s.layers \cup {"tls"}]
    [] force = "none" /\ s.security # "none" ->
         [security |-> "none", layers |-> s.layers \ {"tls"}]
    [] OTHER -> s

GetConfig ==
  /\ inbound.listed
  /\ Len(configs) < Len(JsonProxies(inbound))
  /\ stream' = Retouched(stream, JsonProxies(inbound)[Len(configs) + 1])
  /\ configs' = Append(configs, stream')
  /\ UNCHANGED inbound

Next == GetConfig
Spec == Init /\ [][Next]_vars

-----------------------------------------------------------------------------
(* The two generators of a protocol, which repeat each other line by line, *)
(* write the same links for a client that is in the settings and in the    *)
(* rows, unless the older one stops (subService.go:1550, 2001).            *)
GeneratorsAgree ==
  LinksFromSettings(inbound) \in {Panic, LinksFromRow(inbound)}
    \/ ~inbound.listed

(* A connection without TLS is not offered with the inbound's TLS values:  *)
(* what a link has of them was put there by a host (subService.go:1513).   *)
PlainIsPlain ==
  LET links == LinksFromRow(inbound).links
  IN \A k \in DOMAIN links : links[k].security = "none" =>
       \A p \in DOMAIN links[k].params \cap TlsKeys : links[k].params[p] = "host"

(* Links and configurations of one subscription ask for the same security  *)
(* at each proxy, up to the first that forces another than the inbound's   *)
(* own: from there on the configurations share what it has written         *)
(* (subJsonService.go:219).                                                *)
SameSecurity ==
  LET links == LinksFromRow(inbound).links
  IN (inbound.protocol = "shadowsocks" => inbound.security # "reality") =>
       \A k \in DOMAIN configs \cap DOMAIN links :
         (\A j \in 1 .. k - 1 : JsonProxies(inbound)[j] \in {"same", inbound.security})
           => configs[k].security = links[k].security

(* A configuration that asks for TLS brings TLS settings, whatever the     *)
(* proxies before it have forced.                                          *)
TlsHasSettings ==
  \A k \in DOMAIN configs :
    configs[k].security = "tls" <=> "tls" \in configs[k].layers

-----------------------------------------------------------------------------
(* Why they hold (LinksInv is inductive).                                  *)

LinksAssumption ==
  /\ Protocols \subseteq {"vmess", "vless", "trojan", "shadowsocks"}
  /\ Securities \subseteq {"none", "tls", "reality"}
  /\ MaxProxies \in Nat

\* The proxies before the k-th ask for what the inbound has.
AsItWas(k) ==
  \A j \in 1 .. k - 1 : JsonProxies(inbound)[j] \in {"same", inbound.security}

\* What is written and what will be written agrees with the settings it brings.
Brings(s) == s.security = "tls" <=> "tls" \in s.layers

\* The configuration of the next proxy starts from what the last has left.
Configs == [security : Securities \cup Forces, layers : SUBSET (Securities \cup Forces)]
LinksInv ==
  /\ inbound \in Inputs /\ stream \in Configs /\ configs \in Seq(Configs)
  /\ Len(configs) <= Len(JsonProxies(inbound))
  /\ Brings(stream) /\ \A k \in DOMAIN configs : Brings(configs[k])
  /\ AsItWas(Len(configs) + 1) => stream.security = inbound.security
  /\ \A k \in DOMAIN configs : AsItWas(k) =>
       configs[k].security = Forced(JsonProxies(inbound)[k], inbound.security)
=============================================================================
