------------------------------ MODULE MCClients ------------------------------
(***************************************************************************)
(* Small instances of People, by their parts.                              *)
(*   quota     one client, one inbound, quotas 0 and 1                     *)
(*   members   one client of two inbounds, and a day that passes           *)
(*   remote    two inbounds on one worker, an edit and a tick              *)
(*   pushed    one inbound, with a push and a fault: an edit and a tick,   *)
(*             or two edits                                                *)
(*   devices   two requests from two devices, a limit of one               *)
(*   links     two inbounds, a node, two hosts, and settings that change   *)
(*   wording   every inbound with up to two external proxies or none, and  *)
(*             a host that overrides nothing, a name of TLS, or a          *)
(*             fingerprint and a header                                    *)
(***************************************************************************)
EXTENDS TLC, People

Single == [Clients |-> {"a"}, Requests |-> {"r1"}, Disablers |-> {"d1"}, MaxEdits |-> 1]

QuotaOf == Single @@
  [Inbounds |-> {"i1"}, Limits |-> {0, 1}, Dates |-> {0}, MaxNow |-> 0,
   Silences |-> BOOLEAN, Books |-> {{}}, Amounts |-> {<<1, 0>>, <<1, 1>>},
   MaxServed |-> 3, MaxTicks |-> 2]

MembersOf == Single @@
  [Inbounds |-> {"i1", "i2"}, Limits |-> {0}, Dates |-> {0, 1}, MaxNow |-> 1,
   Silences |-> {FALSE}, Books |-> {{}, {<<"a", "i1">>}}, Amounts |-> {},
   MaxServed |-> 0, MaxTicks |-> 1]

Budget(e, t, pushes, faults) ==
  [edits |-> e, ticks |-> t, pushes |-> pushes, faults |-> faults]

RemoteOf ==
  [Inbounds |-> {"i1", "i2"}, Nodes |-> {"n1"},
   At |-> [i \in {"i1", "i2"} |-> {"n1"}], Requests |-> {"r1"}, Disablers |-> {"d1"},
   Budgets |-> {Budget(1, 1, 0, 0)}]

PushedOf ==
  [RemoteOf EXCEPT !.Inbounds = {"i1"}, !.Budgets = {Budget(1, 1, 1, 1), Budget(2, 0, 1, 1)}]

DevicesOf ==
  [Requests |-> {"r1", "r2"}, Devices |-> {"d1", "d2"}, NoDevice |-> "none",
   Names |-> {"p"}, Inbounds |-> {"i1"}, Protocol |-> [i1 |-> "mixed"], Nodes |-> {},
   Hosts |-> {}, Mode |-> <<"replace", "append">>, Notices |-> TRUE, MaxDevices |-> {1},
   Topics |-> {"client", "devices"}, MaxRows |-> 2, MaxEdits |-> 1]

LinksOf ==
  [Requests |-> {"r1"}, Devices |-> {}, NoDevice |-> "none", Names |-> {"p", "q"},
   Inbounds |-> {"i1", "i2"}, Protocol |-> [i1 |-> "vless", i2 |-> "hysteria"],
   Nodes |-> {"n"}, Hosts |-> {1, 2}, Mode |-> <<"replace", "append">>,
   Notices |-> TRUE, MaxDevices |-> {0}, Topics |-> {"hosts", "inbounds", "sessions"},
   MaxRows |-> 0, MaxEdits |-> 2]

WordingOf ==
  [Protocols |-> {"vmess", "vless", "trojan", "shadowsocks"},
   Networks |-> {"", "tcp", "http", "kcp", "ws", "grpc", "httpupgrade", "xhttp"},
   Securities |-> {"none", "tls", "reality"},
   Overrides |-> {{}, {"sni"}, {"fp", "host"}}, MaxProxies |-> 2]

PeopleSetup ==
  [quota |-> QuotaOf, members |-> MembersOf, remote |-> RemoteOf, pushed |-> PushedOf,
   devices |-> DevicesOf, links |-> LinksOf, wording |-> WordingOf]
=============================================================================
