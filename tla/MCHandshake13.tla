--------------------------- MODULE MCHandshake13 ---------------------------
(* Handshake13 for TLC: a Config for each end and what may differ from it. *)
EXTENDS Handshake13

Secret == [names |-> {"secret"}, key |-> "ecdsa", trusted |-> TRUE]
Public == [names |-> {"public"}, key |-> "pss", trusted |-> TRUE]

Client == [suites |-> <<"AES128", "AES256", "CHACHA">>, curves |-> <<"X25519MLKEM768", "X25519", "P256">>,
           sigs |-> <<"ecdsa", "pss">>, protos |-> <<"h2", "http/1.1">>, tickets |-> TRUE,
           versions |-> {12, 13}, ech |-> "none", insecure |-> FALSE, verify |-> "accepts",
           rejection |-> "nil", cert |-> "a", key |-> TRUE]
Server == [aes |-> TRUE, curves |-> <<"X25519", "P256">>, protos |-> <<"http/1.1">>, tickets |-> TRUE,
           keys |-> {"k1"}, retry |-> {"k1"}, certs |-> <<Public, Secret>>, verify |-> "accepts",
           auth |-> 3, cas |-> {"a"}]

(* Clients: with ECH, under the key of the server or of none; with a suite of  *)
(* another hash; without verification, with an ECH the server may reject; with *)
(* no certificate, or without its key.                                         *)
MCClientCfgs ==
    {Client, [Client EXCEPT !.ech = "k1", !.curves = <<"X25519", "P256">>],
     [Client EXCEPT !.ech = "k2", !.insecure = TRUE],
     [Client EXCEPT !.suites = <<"CHACHA", "AES256">>, !.protos = <<>>, !.tickets = FALSE, !.verify = "nil",
                    !.cert = "b"],
     [Client EXCEPT !.insecure = TRUE, !.cert = "none", !.sigs = <<"pss">>],
     [Client EXCEPT !.suites = <<"AES256">>, !.cert = "b", !.key = FALSE],
     [Client EXCEPT !.verify = "rejects"],
     [Client EXCEPT !.verify = "rejects", !.ech = "k2", !.rejection = "accepts"]}
MCServerCfgs ==
    {Server, [Server EXCEPT !.curves = <<"P256">>, !.aes = FALSE],
     [Server EXCEPT !.curves = <<"X25519MLKEM768">>, !.protos = <<"h2">>, !.auth = 0],
     [Server EXCEPT !.certs = <<[Public EXCEPT !.trusted = FALSE], Secret>>, !.auth = 2, !.cas = {"b"}],
     [Server EXCEPT !.certs = <<[Secret EXCEPT !.trusted = FALSE]>>, !.keys = {}, !.retry = {}, !.auth = 1,
                    !.verify = "rejects"],
     [Server EXCEPT !.protos = <<>>, !.tickets = FALSE, !.auth = 4],
     [Server EXCEPT !.keys = {"k1", "k2"}, !.retry = {}, !.auth = 4, !.cas = {"b"}]}
=============================================================================
