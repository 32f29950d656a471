----------------------------- MODULE MCSubHost -----------------------------
(* Two requests for the links of one client, sent to two hosts.            *)
EXTENDS Subscription

MCProtocol == [i1 |-> "vless", i2 |-> "hysteria"]
MCMode == <<"replace", "append">>
=============================================================================
