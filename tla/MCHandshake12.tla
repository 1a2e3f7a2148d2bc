--------------------------- MODULE MCHandshake12 ---------------------------
(* Handshake12 for TLC: a Config for each end and what may differ from it. *)
EXTENDS Handshake12

Client == [versions |-> {11, 12}, suites |-> Suites, curves |-> {"X25519", "P256"},
           protos |-> <<"h2", "http/1.1">>, verify |-> "accepts", tickets |-> TRUE,
           cert |-> "a", insecure |-> FALSE, ems |-> TRUE]
Server == [versions |-> {11, 12}, suites |-> Suites, curves |-> {"P256"},
           protos |-> <<"http/1.1">>, verify |-> "accepts", tickets |-> TRUE,
           key |-> "rsa", trusted |-> TRUE, staple |-> TRUE, auth |-> 3, cas |-> {"a"}]

MCClientCfgs ==
    {Client, [Client EXCEPT !.versions = {12, 13}], [Client EXCEPT !.versions = {11}, !.cert = "b"],
     [Client EXCEPT !.suites = {"RSAKX_CBC"}, !.curves = {}, !.tickets = FALSE],
     [Client EXCEPT !.protos = <<>>, !.verify = "nil", !.cert = "none"],
     [Client EXCEPT !.verify = "rejects"],
     [Client EXCEPT !.insecure = TRUE, !.cert = "none"], [Client EXCEPT !.ems = FALSE]}
MCServerCfgs ==
    {Server, [Server EXCEPT !.versions = {11}], [Server EXCEPT !.suites = {"RSA_CBC", "ECDSA_GCM"}],
     [Server EXCEPT !.protos = <<"h2">>, !.auth = 0, !.verify = "rejects"],
     [Server EXCEPT !.protos = <<>>, !.auth = 0], [Server EXCEPT !.protos = <<"h2">>, !.auth = 1],
     [Server EXCEPT !.tickets = FALSE, !.key = "ecdsa"],
     [Server EXCEPT !.trusted = FALSE, !.staple = FALSE, !.auth = 2, !.verify = "nil"],
     [Server EXCEPT !.auth = 4, !.cas = {"b"}]}
=============================================================================
