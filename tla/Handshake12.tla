---------------------------- MODULE Handshake12 ----------------------------
(***************************************************************************)
(* The handshake of TLS 1.2 and below: clientHandshakeState and            *)
(* serverHandshakeState (handshake_client.go, handshake_server.go) talking *)
(* to each other, in a full handshake or resuming a session.  Connections  *)
(* follow each other; the Configs of both ends may change in between while *)
(* the client keeps its session cache and the server opens old tickets, so *)
(* a session can be met with another policy than it was made under.        *)
(*                                                                         *)
(* A step of an end handles one message and writes what the code writes    *)
(* before it reads again.  Written messages stay in sendBuf while          *)
(* c.buffering is set.  A message is its kind, the key it is protected     *)
(* with and the fields the other end acts on; a hash of the transcript is  *)
(* the list of the kinds hashed; a secret is the connection it was agreed  *)
(* on and what it was derived from.  Renegotiation is not considered.      *)
(***************************************************************************)
EXTENDS Naturals, SequencesExt

CONSTANTS ClientCfgs,  \* the client's Configs: see TypeOfClientCfg
          ServerCfgs,  \* the server's
          MaxConns     \* bound: connections made

Certs == {"a", "b"}                \* certificates of clients
CurvePreferences  == <<"X25519", "P256">>
SuitePreferences  == <<"ECDSA_GCM", "RSA_GCM", "RSA_CBC", "RSAKX_CBC">>
Suites   == ToSet(SuitePreferences)
IsECDHE(suite)  == suite # "RSAKX_CBC"               \* suiteECDHE
IsECSign(suite) == suite = "ECDSA_GCM"               \* suiteECSign
IsTLS12(suite)  == suite \in {"ECDSA_GCM", "RSA_GCM"} \* suiteTLS12

TypeOfClientCfg == [versions : SUBSET {11, 12, 13}, suites : SUBSET Suites,
                    curves : SUBSET ToSet(CurvePreferences), protos : Seq({"h2", "http/1.1"}),
                    verify : {"nil", "accepts", "rejects"}, tickets : BOOLEAN,
                    cert : Certs \cup {"none"},   \* what getClientCertificate returns
                    insecure : BOOLEAN,           \* InsecureSkipVerify
                    ems : BOOLEAN]                \* FALSE in clients of other makes only
TypeOfServerCfg == [versions : SUBSET {11, 12, 13}, suites : SUBSET Suites,
                    curves : SUBSET ToSet(CurvePreferences), protos : Seq({"h2", "http/1.1"}),
                    verify : {"nil", "accepts", "rejects"}, tickets : BOOLEAN,
                    key : {"rsa", "ecdsa"},       \* of the server's certificate
                    trusted : BOOLEAN,            \* the client's roots vouch for it
                    staple : BOOLEAN,             \* OCSPStaple
                    auth : 0..4,                  \* ClientAuth
                    cas : SUBSET Certs]           \* the client certificates of ClientCAs

(* No pair of Configs agrees on TLS 1.3, which is another handshake. *)
ASSUME Handshake12Assumption ==
    /\ ClientCfgs \subseteq TypeOfClientCfg /\ ServerCfgs \subseteq TypeOfServerCfg
    /\ \A c \in ClientCfgs, s \in ServerCfgs :
          c.versions # {} /\ s.versions # {} /\ 13 \notin c.versions \cap s.versions
    /\ MaxConns \in Nat \ {0}

VARIABLES conn,    \* connections begun
          cfg,     \* end -> its Config
          st,      \* end -> its Conn, handshake state and messages under way
          cache,   \* the client's ClientSessionCache, for this server
          proved,  \* connection -> client certificate whose key signed in it
          broken   \* the transport failed

vars == <<conn, cfg, st, cache, proved, broken>>

Ends == {"client", "server"}
Peer(e) == IF e = "client" THEN "server" ELSE "client"

NoSecret  == [conn |-> 0, th |-> <<>>]
NoKey     == [secret |-> NoSecret, by |-> "none"]
NoFinish  == [by |-> "none", secret |-> NoSecret, th |-> <<>>]
NoSession == [vers |-> 0]
NotCalled == [called |-> FALSE]
Fresh == [pc |-> "start", vers |-> 0, suite |-> "none", proto |-> "", curve |-> "none",
          resumed |-> FALSE, ems |-> FALSE, master |-> NoSecret, th |-> <<>>,
          in |-> [key |-> NoKey, next |-> NoKey],
          out |-> [key |-> NoKey, next |-> NoKey, buffering |-> FALSE, sendBuf |-> <<>>, sent |-> <<>>],
          peerCert |-> "none", verified |-> FALSE, saw |-> NotCalled,
          clientFinished |-> NoFinish, serverFinished |-> NoFinish, clientFinishedIsFirst |-> FALSE,
          session |-> NoSession, ticket |-> NoSession, ch |-> <<>>, sh |-> <<>>,
          certRequested |-> FALSE, skx |-> FALSE]

Stages == {"start", "serverHello", "certificate", "status", "verify", "skx", "certReq", "helloDone",
           "ticket", "ccs", "finished", "clientHello", "clientCert", "ckx", "certVerify"}

(* Between two connections. *)
NoConfigs  == <<>>
ClosedEnds == [e \in Ends |-> [Fresh EXCEPT !.pc = "closed"]]

Complete(e) == st[e].pc = "complete"
Ended(e)    == st[e].pc \in {"complete", "failed"}

(* The variables keep their types; what a complete connection has negotiated   *)
(* is no longer unset.                                                         *)
TypeOK ==
    /\ conn \in 0..MaxConns /\ broken \in BOOLEAN
    /\ cfg = NoConfigs \/ cfg \in [client : ClientCfgs, server : ServerCfgs]
    /\ \A e \in Ends :
          /\ st[e].pc \in Stages \cup {"closed", "complete", "failed"}
          /\ st[e].vers \in {0, 11, 12} /\ st[e].suite \in Suites \cup {"none"}
          /\ st[e].peerCert \in Certs \cup {"none", "server"}
          /\ Complete(e) => st[e].vers # 0 /\ st[e].suite # "none" /\ st[e].master # NoSecret
    /\ proved \in [1..MaxConns -> Certs \cup {"none"}]

Init ==
    /\ conn = 0 /\ broken = FALSE /\ cache = NoSession
    /\ cfg = NoConfigs /\ st = ClosedEnds
    /\ proved = [n \in 1..MaxConns |-> "none"]

-----------------------------------------------------------------------------
(* Writing.  out is halfConn and Conn's buffer.  These operators take the state *)
(* r of an end, or its out, to the next one.                                   *)

(* Mutant: a flush that leaves the last record out. *)
FlushedShort(out) == IF out.sendBuf = <<>> THEN out
                     ELSE [out EXCEPT !.sent = @ \o Front(out.sendBuf), !.sendBuf = <<>>, !.buffering = FALSE]

(* Conn.write and Conn.flush.  A flush of nothing leaves c.buffering alone. *)
Put(out, kind, body) ==
    LET m == [kind |-> kind, key |-> out.key, body |-> body] IN
    IF out.buffering THEN [out EXCEPT !.sendBuf = Append(@, m)] ELSE [out EXCEPT !.sent = Append(@, m)]
Flushed(out) == IF out.sendBuf = <<>> THEN out
                ELSE [out EXCEPT !.sent = @ \o out.sendBuf, !.sendBuf = <<>>, !.buffering = FALSE]
Write(r, kind, body) == [r EXCEPT !.out = Put(@, kind, body)]
Flush(r)  == [r EXCEPT !.out = Flushed(@)]
Buffer(r) == [r EXCEPT !.out.buffering = TRUE]

(* writeHandshakeRecord with the transcript. *)
Says(r, kind, body) == Write([r EXCEPT !.th = Append(@, kind)], kind, body)
SaysIf(cond, r, kind, body) == IF cond THEN Says(r, kind, body) ELSE r

(* establishKeys of end e; changeCipherSpec of a half; writeChangeCipherRecord *)
(* and sendFinished.                                                           *)
EstablishKeys(e, r) == [r EXCEPT !.in.next  = [secret |-> r.master, by |-> Peer(e)],
                                 !.out.next = [secret |-> r.master, by |-> e]]
ChangeCipherSpec(half) == [half EXCEPT !.key = half.next, !.next = NoKey]
Finish(e, r) == [by |-> e, secret |-> r.master, th |-> r.th]
SendFinished(e, r) ==
    Says([r EXCEPT !.out = ChangeCipherSpec(Put(@, "ChangeCipherSpec", <<>>))],
         "Finished", Finish(e, r))

(* The handshake returns an error: an alert was written, handshakeContext      *)
(* flushes it, and the application closes the connection.                      *)
Fail(r) == [Flush(Write(r, "end", <<>>)) EXCEPT !.pc = "failed"]

(* ConnectionState, as the callback VerifyConnection sees it. *)
View(r) == [called |-> TRUE, peerCert |-> r.peerCert, verified |-> r.verified,
            resumed |-> r.resumed, vers |-> r.vers, suite |-> r.suite, proto |-> r.proto]
VerifyConnection(e, r) == IF cfg[e].verify = "nil" THEN r ELSE [r EXCEPT !.saw = View(r)]
Rejects(e) == cfg[e].verify = "rejects"

-----------------------------------------------------------------------------
(* Reading. *)

Waiting(e) == st[Peer(e)].out.sent # <<>>
Msg(e)     == Head(st[Peer(e)].out.sent)
Sees(e, kind) == Waiting(e) /\ Msg(e).kind = kind /\ Msg(e).key = st[e].in.key

(* End e goes on in state r, having read a message or not. *)
Reads(e, r) == st' = [st EXCEPT ![e] = r, ![Peer(e)].out.sent = Tail(@)]
Goes(e, r)  == st' = [st EXCEPT ![e] = r]
Heard(r, kind) == [r EXCEPT !.th = Append(@, kind)]

(* End e fails.  A client throws the session away that it tried to resume. *)
Fails(e) ==
    /\ Goes(e, Fail(st[e]))
    /\ cache' = IF e = "client" /\ st[e].session # NoSession THEN NoSession ELSE cache

(* At stage pc, e can use no other message than one of kind. *)
FailsAt(e, pc, kind) == st[e].pc = pc /\ Waiting(e) /\ ~Sees(e, kind) /\ Fails(e)

(* readChangeCipherSpec. *)
ReadCCS(e) ==
    /\ st[e].pc = "ccs" /\ Waiting(e)
    /\ LET ok == Sees(e, "ChangeCipherSpec") /\ st[e].in.next # NoKey IN
       \/ /\ ok /\ UNCHANGED cache
          /\ Reads(e, [st[e] EXCEPT !.in = ChangeCipherSpec(@), !.pc = "finished"])
       \/ ~ok /\ Fails(e)

(* readFinished: the other end's Finished is the one this end computes. *)
FinishedOK(e) == st[e].pc = "finished" /\ Sees(e, "Finished") /\ Msg(e).body = Finish(Peer(e), st[e])
FinishedBad(e) == st[e].pc = "finished" /\ Waiting(e) /\ ~FinishedOK(e) /\ Fails(e)

-----------------------------------------------------------------------------
(* Negotiation. *)

(* mutualVersion: the highest version of both. *)
MutualVersion(own, offered) == Max(own \cap offered)

(* The first element of list that has the property, or d. *)
FirstOf(list, P(_), d) ==
    LET good == SelectSeq(list, P) IN IF good = <<>> THEN d ELSE Head(good)

(* negotiateALPN: the server's preference decides; a client of http/1.1 may    *)
(* use a server of h2 without ALPN.  checkALPN: the client was asked for it.   *)
ALPNWorks(server, client) ==
    \/ server = <<>> \/ client = <<>>
    \/ ToSet(server) \cap ToSet(client) # {}
    \/ Contains(server, "h2") /\ Contains(client, "http/1.1")
ALPN(server, client)   == FirstOf(server, LAMBDA p : Contains(client, p), "")
CheckALPN(client, proto) == proto = "" \/ Contains(client, proto)

(* cipherSuiteOk of the server, which has seen the curves of the client. *)
CipherSuiteOk(suite, vers, curves) ==
    /\ IF IsECDHE(suite)
       THEN /\ curves \cap cfg.server.curves # {}
            /\ cfg.server.key = IF IsECSign(suite) THEN "ecdsa" ELSE "rsa"
       ELSE cfg.server.key = "rsa"
    /\ IsTLS12(suite) => vers >= 12
PickCipherSuite(ch, vers) ==
    FirstOf(SuitePreferences,
            LAMBDA s : /\ s \in cfg.server.suites /\ s \in ch.suites
                       /\ CipherSuiteOk(s, vers, ch.curves), "none")

(* Mutant: a canary though nothing is downgraded. *)
CanaryAtMax(vers) == LET max == Max(cfg.server.versions) IN
    IF max >= 12 /\ vers <= max THEN (IF vers = 12 THEN 12 ELSE 11) ELSE 0

(* Downgrade canaries: the last bytes of the server's random, and the client's *)
(* look at them.                                                               *)
Canary(vers) == LET max == Max(cfg.server.versions) IN
    IF max >= 12 /\ vers < max THEN (IF vers = 12 THEN 12 ELSE 11) ELSE 0
Downgraded(vers, canary) == LET max == Max(cfg.client.versions) IN
    \/ max = 13 /\ vers <= 12 /\ canary # 0
    \/ max = 12 /\ vers <= 11 /\ canary = 11

(* The master secret, which the extended one binds to the transcript. *)
MasterSecret(ems, th) == [conn |-> conn, th |-> IF ems THEN th ELSE <<>>]

-----------------------------------------------------------------------------
(* The client. *)

(* loadSession: the cached session is usable, unless its certificates have     *)
(* expired or their chains lead to no root any more, which deletes it.         *)
Usable(c) == cache # NoSession /\ c.tickets /\ cache.vers \in c.versions
Offers(c) == Usable(c) /\ (c.insecure \/ cache.verified) /\ cache.suite \in c.suites

ClientHello(expired) ==
    LET c == cfg.client
        session == IF Offers(c) /\ ~expired THEN cache ELSE NoSession
        hello == [versions |-> c.versions, curves |-> c.curves, protos |-> c.protos, ems |-> c.ems,
                  suites |-> {s \in c.suites : IsTLS12(s) => Max(c.versions) >= 12},
                  ticketSupported |-> c.tickets,
                  ticket |-> IF session = NoSession THEN NoSession ELSE session.ticket]
    IN  /\ st.client.pc = "start" /\ (expired => Usable(c))
        /\ Goes("client", Write([st.client EXCEPT !.pc = "serverHello", !.ch = hello, !.session = session],
                                "ClientHello", hello))
        /\ cache' = IF expired THEN NoSession ELSE cache

(* clientHandshake, handshake and processServerHello: the ServerHello is       *)
(* acceptable ...                                                              *)
ServerHelloOK(r, sh) ==
    /\ sh.vers \in cfg.client.versions /\ ~Downgraded(sh.vers, sh.canary)
    /\ sh.suite \in r.ch.suites /\ CheckALPN(r.ch.protos, sh.proto)
    /\ sh.echo => /\ r.session # NoSession
                  /\ r.session.vers = sh.vers /\ r.session.suite = sh.suite
                  /\ r.session.ems = sh.ems

(* ... and the session is resumed if the session ID is echoed. *)
Restored(r) == [r EXCEPT !.resumed = TRUE, !.master = r.session.secret, !.ems = r.session.ems,
                         !.peerCert = "server", !.verified = r.session.verified,
                         !.curve = r.session.curve]
TicketOrCCS(r) == IF r.sh.ticketSupported THEN "ticket" ELSE "ccs"

ServerHello ==
    /\ st.client.pc = "serverHello" /\ Waiting("client")
    /\ LET sh == Msg("client").body
           ok == Sees("client", "ServerHello") /\ ServerHelloOK(st.client, sh)
           r  == Buffer([st.client EXCEPT
                    !.vers = sh.vers, !.suite = sh.suite, !.proto = sh.proto, !.sh = sh,
                    !.th = <<"ClientHello", "ServerHello">>, !.pc = "certificate"])
       IN  \/ ok /\ ~sh.echo /\ Reads("client", r) /\ UNCHANGED cache
           \/ /\ ok /\ sh.echo /\ UNCHANGED cache
              /\ Reads("client", [EstablishKeys("client", Restored(r)) EXCEPT !.pc = TicketOrCCS(r)])
           \/ ~ok /\ Fails("client")

(* doFullHandshake.  Messages that may be missing are passed over. *)
ServerCertificate ==
    \/ /\ st.client.pc = "certificate" /\ Sees("client", "Certificate")
       /\ Reads("client", [Heard(st.client, "Certificate") EXCEPT !.pc = "status"])
       /\ UNCHANGED cache
    \/ FailsAt("client", "certificate", "Certificate")

(* An optional message of kind takes the client to r if it is acceptable; any  *)
(* other message is looked at again at the stage that follows.                 *)
Optional(pc, kind, ok, r, next) ==
    /\ st.client.pc = pc /\ Waiting("client")
    /\ \/ Sees("client", kind) /\ ok /\ Reads("client", Heard(r, kind)) /\ UNCHANGED cache
       \/ /\ Msg("client").kind \notin {kind, "end"} /\ UNCHANGED cache
          /\ Goes("client", [st.client EXCEPT !.pc = next])
       \/ ~ (Sees("client", kind) /\ ok) /\ Msg("client").kind \in {kind, "end"} /\ Fails("client")

CertificateStatus ==
    Optional("status", "CertificateStatus", st.client.sh.ocsp,
             [st.client EXCEPT !.pc = "verify"], "verify")

(* verifyServerCertificate, when the message behind the certificates is in. *)
VerifyServerCertificate ==
    /\ st.client.pc = "verify" /\ Waiting("client")
    /\ LET c == cfg.client
           ok == Msg("client").kind # "end" /\ (c.insecure \/ cfg.server.trusted) /\ ~Rejects("client")
           r == [st.client EXCEPT !.pc = "skx", !.verified = ~c.insecure, !.peerCert = "server"]
       IN  \/ ok /\ Goes("client", VerifyConnection("client", r)) /\ UNCHANGED cache
           \/ ~ok /\ Fails("client")

ServerKeyExchange ==
    LET curve == Msg("client").body IN
    Optional("skx", "ServerKeyExchange", IsECDHE(st.client.suite) /\ curve \in st.client.ch.curves,
             [st.client EXCEPT !.pc = "certReq", !.skx = TRUE, !.curve = curve], "certReq")

CertificateRequest ==
    Optional("certReq", "CertificateRequest", TRUE,
             [st.client EXCEPT !.pc = "helloDone", !.certRequested = TRUE], "helloDone")

(* The client's flight: Certificate, ClientKeyExchange and CertificateVerify,  *)
(* after which the keys are there; then Finished.                              *)
FlightKeyed(r0) ==
    LET cert == cfg.client.cert
        r1 == SaysIf(r0.certRequested, r0, "Certificate", cert)
        r2 == Says(r1, "ClientKeyExchange", <<>>)
        r3 == [r2 EXCEPT !.ems = r2.sh.ems, !.master = MasterSecret(r2.sh.ems, r2.th)]
        r4 == SaysIf(r3.certRequested /\ cert # "none", r3, "CertificateVerify", r3.th)
    IN  EstablishKeys("client", r4)
ClientFlight(r0) ==
    LET r == FlightKeyed(r0) IN
    [Flush(SendFinished("client", r)) EXCEPT
        !.clientFinished = Finish("client", r), !.clientFinishedIsFirst = TRUE,
        !.pc = TicketOrCCS(r)]

ServerHelloDone ==
    /\ st.client.pc = "helloDone" /\ Waiting("client")
    /\ LET ok == Sees("client", "ServerHelloDone") /\ (IsECDHE(st.client.suite) => st.client.skx) IN
       \/ ok /\ Reads("client", ClientFlight(Heard(st.client, "ServerHelloDone"))) /\ UNCHANGED cache
       \/ ~ok /\ Fails("client")

(* readSessionTicket. *)
NewSessionTicket ==
    /\ st.client.pc = "ticket" /\ Waiting("client")
    /\ LET ok == Sees("client", "NewSessionTicket") /\ st.client.ch.ticketSupported IN
       \/ /\ ok /\ UNCHANGED cache
          /\ Reads("client", [Heard(st.client, "NewSessionTicket") EXCEPT
                                 !.ticket = Msg("client").body, !.pc = "ccs"])
       \/ ~ok /\ Fails("client")

(* saveSessionTicket. *)
SessionOf(r) == [vers |-> r.vers, suite |-> r.suite, secret |-> r.master, ems |-> r.ems,
                 verified |-> r.verified, curve |-> r.curve, ticket |-> r.ticket]
SaveSession(r) == cache' = IF r.ticket = NoSession THEN cache ELSE SessionOf(r)

(* The server's Finished ends a full handshake; the client answers it when it  *)
(* resumes a session, behind VerifyConnection.                                 *)
AnswerFinished(r) ==
    [Flush(SendFinished("client", VerifyConnection("client", r))) EXCEPT
        !.clientFinished = Finish("client", r), !.clientFinishedIsFirst = FALSE]
ServerFinished ==
    LET r == [Heard(st.client, "Finished") EXCEPT
                 !.serverFinished = Msg("client").body, !.pc = "complete"] IN
    \/ /\ FinishedOK("client") /\ ~st.client.resumed
       /\ Reads("client", r) /\ SaveSession(r)
    \/ /\ FinishedOK("client") /\ st.client.resumed /\ ~Rejects("client")
       /\ Reads("client", AnswerFinished(r)) /\ SaveSession(r)
    \/ FinishedOK("client") /\ st.client.resumed /\ Rejects("client") /\ Fails("client")
    \/ FinishedBad("client")

-----------------------------------------------------------------------------
(* The server. *)

RequiresClientCert == cfg.server.auth \in {2, 4}

(* Mutant: the chains of the session are not looked at again. *)
ResumableUnverified(t, ch, vers) ==
    LET s == cfg.server IN
    /\ t # NoSession /\ s.tickets
    /\ t.vers = vers /\ t.suite \in ch.suites /\ t.suite \in s.suites
    /\ CipherSuiteOk(t.suite, vers, ch.curves)
    /\ RequiresClientCert => t.peerCert # "none"
    /\ t.peerCert # "none" => s.auth # 0
    /\ ~t.ems => ~ch.ems

(* checkForResumption: the ticket t can be resumed in this connection, if the  *)
(* server still has its key and the session is not too old (module Tickets).   *)
Resumable(t, ch, vers) ==
    LET s == cfg.server IN
    /\ t # NoSession /\ s.tickets
    /\ t.vers = vers /\ t.suite \in ch.suites /\ t.suite \in s.suites
    /\ CipherSuiteOk(t.suite, vers, ch.curves)
    /\ RequiresClientCert => t.peerCert # "none"
    /\ t.peerCert # "none" => s.auth # 0
    /\ t.peerCert # "none" /\ s.auth >= 3 => t.verified /\ t.peerCert \in s.cas
    /\ ~t.ems => ~ch.ems

(* sendSessionTicket: sessionState with the master secret. *)
TicketOf(r) == [vers |-> r.vers, suite |-> r.suite, secret |-> r.master, ems |-> r.ems,
                peerCert |-> r.peerCert, verified |-> r.verified, curve |-> r.curve]
SendSessionTicket(r) == SaysIf(r.sh.ticketSupported, r, "NewSessionTicket", TicketOf(r))

Hello(ch, vers, suite, echo, ticketSupported, ocsp) ==
    [vers |-> vers, suite |-> suite, proto |-> ALPN(cfg.server.protos, ch.protos), ems |-> ch.ems,
     canary |-> Canary(vers), echo |-> echo, ticketSupported |-> ticketSupported, ocsp |-> ocsp]
WithHello(r, ch, sh) ==
    Says([Buffer(r) EXCEPT !.ch = ch, !.sh = sh, !.vers = sh.vers, !.suite = sh.suite,
                           !.proto = sh.proto, !.th = <<"ClientHello">>], "ServerHello", sh)

(* doResumeHandshake: VerifyConnection runs behind the ServerHello; then the   *)
(* ticket and Finished follow.                                                 *)
ResumeHello(r0, ch, vers) ==
    LET t == ch.ticket IN
    VerifyConnection("server",
        WithHello([r0 EXCEPT !.peerCert = t.peerCert, !.verified = t.verified, !.ems = t.ems,
                             !.curve = t.curve, !.resumed = TRUE],
                  ch, Hello(ch, vers, t.suite, TRUE, TRUE, FALSE)))
ResumeFlight(r0, ch, vers) ==
    LET r1 == [ResumeHello(r0, ch, vers) EXCEPT !.master = ch.ticket.secret]
        r2 == SendSessionTicket(EstablishKeys("server", r1))
    IN  [Flush(SendFinished("server", r2)) EXCEPT
            !.serverFinished = Finish("server", r2), !.clientFinishedIsFirst = FALSE, !.pc = "ccs"]

(* The curve of ServerKeyExchange: the first of the client's that the server   *)
(* supports.                                                                   *)
PickCurve(ch) ==
    FirstOf(CurvePreferences, LAMBDA x : x \in ch.curves /\ x \in cfg.server.curves, "none")

(* doFullHandshake, up to ServerHelloDone. *)
FullFlight(r0, ch, vers, suite) ==
    LET s  == cfg.server
        curve == PickCurve(ch)
        r1 == WithHello(r0, ch, Hello(ch, vers, suite, FALSE, ch.ticketSupported /\ s.tickets, s.staple))
        r2 == SaysIf(s.staple, Says(r1, "Certificate", <<>>), "CertificateStatus", <<>>)
        r3 == SaysIf(IsECDHE(suite), r2, "ServerKeyExchange", curve)
        r4 == SaysIf(s.auth >= 1, r3, "CertificateRequest", <<>>)
    IN  [Flush(Says(r4, "ServerHelloDone", <<>>)) EXCEPT
            !.curve = IF IsECDHE(suite) THEN curve ELSE "none",
            !.pc = IF s.auth >= 1 THEN "clientCert" ELSE "ckx"]

(* readClientHello, processClientHello and the choice of the handshake.  opens *)
(* says whether the ticket can be opened and is young enough.                  *)
ReadClientHello(opens) ==
    /\ st.server.pc = "clientHello" /\ Waiting("server")
    /\ LET ch   == Msg("server").body
           s    == cfg.server
           ok   == /\ Sees("server", "ClientHello") /\ s.versions \cap ch.versions # {}
                   /\ ALPNWorks(s.protos, ch.protos)
           vers == MutualVersion(s.versions, ch.versions)
           resumes == opens /\ Resumable(ch.ticket, ch, vers)
           downgrade == ch.ticket.ems /\ ~ch.ems
           suite == PickCipherSuite(ch, vers)
       IN  /\ UNCHANGED cache
           /\ \/ ~ok /\ ~opens /\ Goes("server", Fail(st.server))
              \/ /\ ok /\ resumes /\ ~downgrade /\ ~Rejects("server")
                 /\ Reads("server", ResumeFlight(st.server, ch, vers))
              \/ /\ ok /\ resumes /\ ~downgrade /\ Rejects("server")
                 /\ Reads("server", Fail(ResumeHello(st.server, ch, vers)))
              \/ ok /\ resumes /\ downgrade /\ Goes("server", Fail(st.server))
              \/ /\ ok /\ ~resumes /\ ~opens /\ suite # "none"
                 /\ Reads("server", FullFlight(st.server, ch, vers, suite))
              \/ ok /\ ~resumes /\ ~opens /\ suite = "none" /\ Goes("server", Fail(st.server))

(* processCertsFromClient. *)
ClientCertificate ==
    /\ st.server.pc = "clientCert" /\ Waiting("server") /\ UNCHANGED cache
    /\ LET s == cfg.server
           cert == Msg("server").body
           ok == /\ Sees("server", "Certificate")
                 /\ RequiresClientCert => cert # "none"
                 /\ s.auth >= 3 /\ cert # "none" => cert \in s.cas
       IN  \/ /\ ok
              /\ Reads("server", [Heard(st.server, "Certificate") EXCEPT
                     !.peerCert = cert, !.verified = s.auth >= 3 /\ cert # "none", !.pc = "ckx"])
           \/ ~ok /\ Fails("server")

(* VerifyConnection runs when the next message is in. *)
ClientKeyExchange ==
    /\ st.server.pc = "ckx" /\ Waiting("server") /\ UNCHANGED cache
    /\ LET ok == Sees("server", "ClientKeyExchange") /\ ~Rejects("server")
           r  == Heard(VerifyConnection("server", st.server), "ClientKeyExchange")
           rm == [r EXCEPT !.ems = r.sh.ems, !.master = MasterSecret(r.sh.ems, r.th)]
       IN  \/ ok /\ r.peerCert # "none" /\ Reads("server", [rm EXCEPT !.pc = "certVerify"])
           \/ ok /\ r.peerCert = "none" /\ Reads("server", [EstablishKeys("server", rm) EXCEPT !.pc = "ccs"])
           \/ ~ok /\ Fails("server")

(* The signature is over the transcript so far, which includes it afterwards. *)
CertificateVerify ==
    /\ st.server.pc = "certVerify" /\ Waiting("server") /\ UNCHANGED cache
    /\ LET ok == Sees("server", "CertificateVerify") /\ Msg("server").body = st.server.th IN
       \/ /\ ok /\ proved' = [proved EXCEPT ![conn] = cfg.client.cert]
          /\ Reads("server", [EstablishKeys("server", Heard(st.server, "CertificateVerify")) EXCEPT
                                 !.pc = "ccs"])
       \/ ~ok /\ Fails("server") /\ UNCHANGED proved

(* Mutant: clientFinishedIsFirst stays unset. *)
LastFlightUnmarked(r) ==
    Flush(SendFinished("server", SendSessionTicket(
        Buffer([r EXCEPT !.clientFinished = Msg("server").body]))))

(* The client's Finished ends a resumption; in a full handshake the server     *)
(* answers it.                                                                 *)
LastFlight(r) ==
    Flush(SendFinished("server", SendSessionTicket(
        Buffer([r EXCEPT !.clientFinished = Msg("server").body, !.clientFinishedIsFirst = TRUE]))))
ClientFinished ==
    LET r == [Heard(st.server, "Finished") EXCEPT !.pc = "complete"] IN
    \/ /\ FinishedOK("server") /\ UNCHANGED cache
       /\ Reads("server", IF st.server.resumed THEN r ELSE LastFlight(r))
    \/ FinishedBad("server")

-----------------------------------------------------------------------------
ClientStep ==
    /\ \/ \E expired \in BOOLEAN : ClientHello(expired)
       \/ ServerHello \/ ServerCertificate \/ CertificateStatus \/ VerifyServerCertificate
       \/ ServerKeyExchange \/ CertificateRequest \/ ServerHelloDone
       \/ NewSessionTicket \/ ReadCCS("client") \/ ServerFinished
    /\ UNCHANGED <<conn, cfg, proved, broken>>

ServerStep ==
    /\ \/ CertificateVerify
       \/ /\ \/ \E opens \in BOOLEAN : ReadClientHello(opens)
             \/ ClientCertificate \/ ClientKeyExchange \/ ReadCCS("server") \/ ClientFinished
          /\ UNCHANGED proved
    /\ UNCHANGED <<conn, cfg, broken>>

(* The transport fails: what is under way is lost, and every later read fails. *)
Break ==
    /\ ~broken /\ st # ClosedEnds /\ \E e \in Ends : ~Ended(e)
    /\ broken' = TRUE
    /\ st' = [e \in Ends |-> [st[e] EXCEPT
                 !.out.sent = <<[kind |-> "end", key |-> NoKey, body |-> <<>>]>>]]
    /\ UNCHANGED <<conn, cfg, cache, proved>>

(* Both ends close the connection, and make the next one with the Configs of   *)
(* that time.                                                                  *)
Close ==
    /\ \A e \in Ends : Ended(e)
    /\ cfg' = NoConfigs /\ st' = ClosedEnds /\ broken' = FALSE
    /\ UNCHANGED <<conn, cache, proved>>

Connect ==
    /\ conn < MaxConns /\ st = ClosedEnds
    /\ conn' = conn + 1 /\ cfg' \in [client : ClientCfgs, server : ServerCfgs]
    /\ st' = [client |-> Fresh, server |-> [Fresh EXCEPT !.pc = "clientHello"]]
    /\ UNCHANGED <<cache, proved, broken>>

Next == ClientStep \/ ServerStep \/ Break \/ Close \/ Connect

Spec == Init /\ [][Next]_vars /\ WF_vars(ClientStep) /\ WF_vars(ServerStep)

-----------------------------------------------------------------------------
(* ConnectionState.TLSUnique. *)
TLSUnique(r) ==
    IF r.resumed /\ ~r.ems THEN NoFinish
    ELSE IF r.clientFinishedIsFirst THEN r.clientFinished ELSE r.serverFinished

Outcome(r) == [vers |-> r.vers, suite |-> r.suite, proto |-> r.proto, curve |-> r.curve,
               master |-> r.master, ems |-> r.ems, resumed |-> r.resumed, unique |-> TLSUnique(r)]

(* What the client has cached is what the server sealed in the ticket, so that *)
(* a resumption starts from one state.                                         *)
SessionsMatch ==
    cache # NoSession =>
       \A f \in {"vers", "suite", "secret", "ems", "curve"} : cache[f] = cache.ticket[f]

(* A complete handshake has left nothing in sendBuf, and later records are not *)
(* held back.                                                                  *)
NothingBuffered ==
    \A e \in Ends : Complete(e) => st[e].out.sendBuf = <<>> /\ ~st[e].out.buffering

(* Two ends that have completed one handshake agree on everything it           *)
(* negotiated, the channel binding TLSUnique included, and each reads with the *)
(* key the other writes with.  The end that sends its Finished first completes *)
(* last.  What the client has cached is what the server sealed in its ticket,  *)
(* and neither end has left a record in sendBuf.                               *)
Agreement ==
    /\ SessionsMatch /\ NothingBuffered
    /\ Complete("client") /\ Complete("server") =>
          /\ Outcome(st.client) = Outcome(st.server)
          /\ st.client.in.key = st.server.out.key /\ st.client.out.key = st.server.in.key
          /\ NoKey # st.client.in.key /\ st.client.in.key # st.client.out.key
    /\ Complete("client") /\ ~st.client.resumed => Complete("server")
    /\ Complete("server") /\ st.server.resumed => Complete("client")

(* VerifyConnection has seen the connection that is used, resumed or not. *)
CallbackSaw ==
    \A e \in Ends : Complete(e) /\ cfg[e].verify # "nil" => st[e].saw = View(st[e])

(* No handshake gets around the Config it runs under, though it resumes a      *)
(* session of another: a client that verifies has a verified server, and a     *)
(* server the certificates its ClientAuth and ClientCAs ask for, of a client   *)
(* that proved in the session's first connection to have the key.  The         *)
(* VerifyConnection callback has seen the connection that is used.             *)
AuthPolicy ==
    /\ CallbackSaw
    /\ Complete("client") => cfg.client.insecure \/ st.client.verified
    /\ Complete("server") =>
          LET cert == st.server.peerCert
              auth == cfg.server.auth
          IN  /\ auth = 0 => cert = "none"
              /\ RequiresClientCert => cert # "none"
              /\ auth >= 3 /\ cert # "none" => cert \in cfg.server.cas /\ st.server.verified
              /\ cert = proved[st.server.master.conn]

(* What both Configs allow. *)
Compatible(c, s) ==
    /\ c.versions \cap s.versions # {}
    /\ LET vers == Max(c.versions \cap s.versions) IN
       \E suite \in c.suites \cap s.suites :
          /\ IsTLS12(suite) => vers = 12
          /\ IsECDHE(suite) => c.curves \cap s.curves # {}
          /\ s.key = IF IsECSign(suite) THEN "ecdsa" ELSE "rsa"
    /\ c.protos = <<>> \/ s.protos = <<>> \/ ToSet(c.protos) \cap ToSet(s.protos) # {}
    /\ c.insecure \/ s.trusted
    /\ c.verify # "rejects" /\ s.verify # "rejects"
    /\ s.auth \in {2, 4} => c.cert # "none"
    /\ s.auth >= 3 /\ c.cert # "none" => c.cert \in s.cas

(* Compatible Configs fail only with the transport, whatever session the       *)
(* client has kept: an unusable one costs a full handshake, not the            *)
(* connection.  A client that drops the extended master secret is the exception *)
(* RFC 7627 asks for.                                                          *)
Interop ==
    (\E e \in Ends : st[e].pc = "failed") /\ ~broken /\ cfg.client.ems
       => ~Compatible(cfg.client, cfg.server)

(* Every handshake ends at both ends: they never wait for each other. *)
HandshakeEnds == (st # ClosedEnds) ~> (Ended("client") /\ Ended("server"))
=============================================================================
