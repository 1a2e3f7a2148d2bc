---------------------------- MODULE Handshake13 ----------------------------
(***************************************************************************)
(* The handshake of TLS 1.3: clientHandshakeStateTLS13 and                 *)
(* serverHandshakeStateTLS13 talking to each other, over TCP or QUIC, with *)
(* HelloRetryRequest, resumption, 0-RTT and Encrypted ClientHello.         *)
(* Connections follow each other with other Configs, as in Handshake12,    *)
(* while the client keeps its session cache and the server opens old       *)
(* tickets.                                                                *)
(*                                                                         *)
(* A step of an end handles one message and writes what the code writes    *)
(* before it reads again, so what c.buffering holds back in between is not *)
(* seen.  A hash of the transcript is the list of the messages hashed; a   *)
(* key is its label, the secret and the transcript it is derived from.  A  *)
(* ticket is the number of its connection, which issues one at most, and   *)
(* what is sealed in it is the server's.  Dummy ChangeCipherSpecs are left *)
(* to module Records, QUIC's events to QuicConn, callbacks other than      *)
(* VerifyConnection out.                                                   *)
(***************************************************************************)
EXTENDS HelloCodec, FiniteSets

CONSTANTS ClientCfgs,  \* the client's Configs: see TypeOfClientCfg
          ServerCfgs,  \* the server's
          Transports,  \* of BOOLEAN: may a connection be a QUIC one?
          MaxConns     \* bound: connections made

Certs   == {"a", "b"}                              \* certificates of clients
Suites  == {"AES128", "AES256", "CHACHA"}
Groups  == {"X25519MLKEM768", "X25519", "P256"}
SuiteHash(suite) == IF suite = "AES256" THEN "SHA384" ELSE "SHA256"
IsPQKeyExchange(group) == group = "X25519MLKEM768"

TypeOfClientCfg == [suites : Seq(Suites), curves : Seq(Groups), sigs : Seq({"ecdsa", "pss"}),
                    protos : Seq({"h2", "http/1.1"}), tickets : BOOLEAN, versions : SUBSET {12, 13},
                    ech : {"none", "k1", "k2"},      \* key of the ECHConfig it picks
                    insecure : BOOLEAN,              \* InsecureSkipVerify
                    verify : {"nil", "accepts", "rejects"},      \* VerifyConnection
                    rejection : {"nil", "accepts", "rejects"},   \* EncryptedClientHelloRejectionVerify
                    cert : Certs \cup {"none"},      \* what getClientCertificate returns
                    key : BOOLEAN]                   \* FALSE: not the key of cert
TypeOfServerCfg == [aes : BOOLEAN,                   \* hasAESGCMHardwareSupport
                    curves : Seq(Groups), protos : Seq({"h2", "http/1.1"}), tickets : BOOLEAN,
                    keys : SUBSET {"k1", "k2"},      \* EncryptedClientHelloKeys
                    retry : SUBSET {"k1", "k2"},     \* the ones with SendAsRetry
                    certs : Seq([names : SUBSET {"secret", "public"}, key : {"ecdsa", "pss"},
                                 trusted : BOOLEAN]),  \* the client's roots vouch for it
                    verify : {"nil", "accepts", "rejects"},
                    auth : 0..4, cas : SUBSET Certs] \* ClientAuth, ClientCAs

ASSUME Handshake13Assumption ==
    /\ ClientCfgs \subseteq TypeOfClientCfg /\ ServerCfgs \subseteq TypeOfServerCfg
    /\ \A c \in ClientCfgs : 13 \in c.versions /\ c.curves # <<>> /\ c.suites # <<>> /\ c.sigs # <<>>
    /\ \A s \in ServerCfgs : s.retry \subseteq s.keys /\ s.certs # <<>>
    /\ Transports \subseteq BOOLEAN /\ MaxConns \in Nat \ {0}

VARIABLES conn,    \* connections begun
          cfg,     \* [client, server]: the Configs; quic: both are of QUICConns
          st,      \* end -> its Conn, handshake state and messages under way
          cache,   \* the client's ClientSessionCache, for this server
          sealed,  \* connection -> the session state in the ticket it issued
          proved,  \* the client certificates whose key has signed
          broken   \* the transport failed

vars == <<conn, cfg, st, cache, sealed, proved, broken>>

Ends == {"client", "server"}
Peer(e) == IF e = "client" THEN "server" ELSE "client"

NoPSKey   == [label |-> "none"]
NoSecret  == [psk |-> NoPSKey, dhe |-> <<>>]
NoKey     == [label |-> "none", by |-> "none", secret |-> NoSecret, th |-> <<>>]
NoSession == [suite |-> "none"]
NoHello   == [random |-> <<0, "">>, sid |-> 0, suites |-> <<>>, x |-> NoExts]
NotCalled == [called |-> FALSE]
NoCert    == [names |-> {}, key |-> "none", trusted |-> FALSE]

Fresh == [pc |-> "start", err |-> "none", sent |-> <<>>, in |-> NoKey, out |-> NoKey,
          hello |-> NoHello,      \* hs.hello; on the server hs.clientHello, as it came
          inner |-> NoHello,      \* echContext.innerHello
          th |-> <<>>, innerTh |-> <<>>,             \* hs.transcript, innerTranscript
          ech |-> "none",         \* what came of ECH: "offered", "accepted", "rejected"
          echAccepted |-> FALSE,  \* c.echAccepted
          echKey |-> "none", didHRR |-> FALSE,
          suite |-> "none", group |-> "none", proto |-> "", serverName |-> "",
          resumed |-> FALSE, session |-> NoSession, secret |-> NoSecret,
          earlyKey |-> NoKey, early |-> FALSE,       \* 0-RTT: its key; accepted
          certReq |-> FALSE, peerCert |-> "none", serverCert |-> NoCert, verified |-> FALSE,
          saw |-> NotCalled, clientFinished |-> NoKey, trafficSecret |-> NoKey,
          resumption |-> NoKey, ekm |-> NoKey, retryConfigs |-> {}, ticket |-> NoSession]

(* Between two connections. *)
NoConfigs  == <<>>
ClosedEnds == [e \in Ends |-> [Fresh EXCEPT !.pc = "closed"]]

Complete(e) == st[e].pc = "complete"
Ended(e)    == st[e].pc \in {"complete", "failed"}

Init ==
    /\ conn = 0 /\ broken = FALSE /\ cache = NoSession
    /\ cfg = NoConfigs /\ st = ClosedEnds
    /\ sealed = [n \in 1..MaxConns |-> NoSession] /\ proved = {}

-----------------------------------------------------------------------------
(* The key schedule.  The handshake secret is made of the pre-shared key and   *)
(* the Diffie-Hellman secret, and the master secret of it.                     *)
DeriveSecret(label, by, secret, th) == [label |-> label, by |-> by, secret |-> secret, th |-> th]
EarlySecret(psk)              == [psk |-> psk, dhe |-> <<>>]
HandshakeSecret(psk, dhe)     == [psk |-> psk, dhe |-> dhe]
EarlyKey(psk, hello)          == DeriveSecret("early", "client", EarlySecret(psk), <<hello>>)
HandshakeKey(e, secret, th)   == DeriveSecret("handshake", e, secret, th)
ApplicationKey(e, secret, th) == DeriveSecret("application", e, secret, th)
FinishedHash(key, th)         == DeriveSecret("finished", key.by, key, th)
Binder(psk, th)               == DeriveSecret("binder", "client", EarlySecret(psk), th)

(* ecdhKeyExchange and hybridKeyExchange: the private keys are those of the     *)
(* client's first or second hello, and a hybrid comes with a share of its ECDH *)
(* half.                                                                       *)
KeyShares(group, try) ==
    LET share(g) == [group |-> g, conn |-> conn, try |-> try] IN
    IF IsPQKeyExchange(group) THEN <<share(group), share("X25519")>> ELSE <<share(group)>>
HasShare(hello, group) == \E i \in DOMAIN hello.x.keyShares : hello.x.keyShares[i].group = group

(* Transcripts.  The messages whose content is a function of the keys and of    *)
(* what comes before them are kept by their kind only.                         *)
Entry(kind, body) == [kind |-> kind, body |-> body]
HelloEntry(wire)  == Entry("ClientHello", Digest(wire))
ZeroConf == [label |-> "zero"]
NoConf   == [label |-> "none"]
ServerHelloEntry(sh) == Entry("ServerHello", [sh EXCEPT !.conf = [label |-> @.label]])
MessageHash(th)   == <<Entry("message_hash", th)>>    \* before a HelloRetryRequest

(* The confirmation that ECH is accepted, in the last bytes of the random of a *)
(* ServerHello, or in the extension of a HelloRetryRequest.                    *)
Confirmation(label, hello, th, sh) ==
    [label |-> label, random |-> hello.random,
     th |-> Append(th, ServerHelloEntry([sh EXCEPT !.conf = ZeroConf]))]

-----------------------------------------------------------------------------
(* Writing: operators that take the state r of an end to the next one. *)
Put(r, kind, body) ==
    [r EXCEPT !.sent = Append(@, [kind |-> kind, key |-> r.out, body |-> body])]
Says(r, kind, body) == Put([r EXCEPT !.th = Append(@, Entry(kind, body))], kind, body)
SaysIf(cond, r, kind, body) == IF cond THEN Says(r, kind, body) ELSE r
Heard(r, kind, body) == [r EXCEPT !.th = Append(@, Entry(kind, body))]

(* CertificateVerify signs the transcript so far, Finished authenticates it.   *)
SaysSigned(r, alg, th) ==
    Put(Heard(r, "CertificateVerify", alg), "CertificateVerify", [alg |-> alg, th |-> th])
SaysFinished(r) == Put(Heard(r, "Finished", <<>>), "Finished", FinishedHash(r.out, r.th))

(* The handshake returns an error: the alert is written, and the application   *)
(* closes the connection.                                                      *)
FailWith(r, err) == [Put(r, "end", <<>>) EXCEPT !.pc = "failed", !.err = err]
Fail(r) == FailWith(r, "other")

(* ConnectionState, as the callback VerifyConnection sees it. *)
View(r) == [called |-> TRUE, serverName |-> r.serverName, peerCert |-> r.peerCert,
            serverCert |-> r.serverCert, verified |-> r.verified, resumed |-> r.resumed,
            suite |-> r.suite, group |-> r.group, proto |-> r.proto, ech |-> r.echAccepted]
VerifyConnection(e, r) == IF cfg[e].verify = "nil" THEN r ELSE [r EXCEPT !.saw = View(r)]
Rejects(e) == cfg[e].verify = "rejects"

-----------------------------------------------------------------------------
(* Reading. *)
Waiting(e) == st[Peer(e)].sent # <<>>
Msg(e)     == Head(st[Peer(e)].sent)
Sees(e, kind) == Waiting(e) /\ Msg(e).kind = kind /\ Msg(e).key = st[e].in

(* End e goes on in state r, having read a message or not. *)
Reads(e, r) == st' = [st EXCEPT ![e] = r, ![Peer(e)].sent = Tail(@)]
Goes(e, r)  == st' = [st EXCEPT ![e] = r]

(* The client fails, and throws the session away that it tried to resume. *)
ClientFailsIn(r, err) ==
    /\ Reads("client", FailWith(r, err))
    /\ cache' = IF r.session # NoSession THEN NoSession ELSE cache
ClientFails == ClientFailsIn(st.client, "other")

(* The server goes on or fails, having sent a ticket or not. *)
ServerGoes(r) ==
    /\ Reads("server", r)
    /\ sealed' = IF r.ticket = NoSession THEN sealed ELSE [sealed EXCEPT ![conn] = r.ticket]
ServerFails == ServerGoes(Fail(st.server))

FirstOf(list, P(_), d) ==
    LET good == SelectSeq(list, P) IN IF good = <<>> THEN d ELSE Head(good)

-----------------------------------------------------------------------------
(* The client: makeClientHello, loadSession and clientHandshake. *)

(* supportedVersions: ECH leaves TLS 1.3 only, and a QUIC client must. *)
SupportedVersions(c) == IF c.ech # "none" \/ cfg.quic THEN {13} ELSE c.versions

(* The extensions of TLS 1.2 are not set in a hello to be encrypted. *)
SetsLegacy(c) == c.ech = "none"

(* The first group is the one to send a key share for, with its fallback. *)
MakeClientHello(c) ==
    [random |-> <<conn, "real">>, sid |-> IF cfg.quic THEN 0 ELSE conn, suites |-> c.suites,
     x |-> [NoExts EXCEPT
        !.serverName = "secret", !.legacy = SetsLegacy(c), !.quicTP = cfg.quic,
        !.ech = IF c.ech = "none" THEN NoECH ELSE InnerECH,
        !.curves = c.curves, !.sigs = c.sigs, !.alpn = c.protos, !.versions = SupportedVersions(c),
        !.keyShares = SelectSeq(KeyShares(Head(c.curves), 1), LAMBDA s : Contains(c.curves, s.group)),
        !.pskModes = c.tickets]]

(* computeAndUpdatePSK: th comes before the hello m. *)
WithBinder(m, psk, th) ==
    [m EXCEPT !.x.psk.binder = Binder(psk, Append(th, HelloEntry(Marshal(m, FALSE))))]

(* loadSession: the cached session is offered ... *)
Usable(c) ==
    /\ cache # NoSession /\ c.tickets
    /\ c.insecure \/ (cache.verified /\ "secret" \in cache.cert.names)
    /\ \E i \in DOMAIN c.suites : SuiteHash(c.suites[i]) = SuiteHash(cache.suite)

(* ... and with it early data, if nothing can change that the data relies on. *)
OffersEarly(c) ==
    cfg.quic /\ cache.early /\ Contains(c.suites, cache.suite) /\ Contains(c.protos, cache.proto)

(* expired: its certificate or itself is too old or its chain leads to no root *)
(* any more, which deletes it.                                                 *)
ClientHello(expired) ==
    LET c == cfg.client
        session == IF Usable(c) /\ ~expired THEN cache ELSE NoSession
        early == session # NoSession /\ OffersEarly(c)
        real  == IF session = NoSession THEN MakeClientHello(c)
                 ELSE WithBinder([MakeClientHello(c) EXCEPT !.x.earlyData = early,
                                     !.x.psk.label = session.label], session.secret, <<>>)
        outer == Seal([real EXCEPT !.random = <<conn, "outer">>, !.x.serverName = "public"],
                      real, c.ech, conn, 0)
        hello == IF c.ech = "none" THEN real ELSE outer
        r == [st.client EXCEPT !.pc = "serverHello", !.hello = hello, !.session = session,
                 !.serverName = hello.x.serverName,
                 !.inner = IF c.ech = "none" THEN NoHello ELSE real,
                 !.ech = IF c.ech = "none" THEN "none" ELSE "offered",
                 !.earlyKey = IF early THEN EarlyKey(session.secret, HelloEntry(Marshal(real, FALSE)))
                              ELSE NoKey]
    IN  /\ st.client.pc = "start" /\ (expired => cache # NoSession /\ c.tickets)
        /\ Goes("client", Put(r, "ClientHello", Marshal(hello, FALSE)))
        /\ cache' = IF expired THEN NoSession ELSE cache

(* checkServerHelloOrHRR. *)
ServerHelloOrHRROK(r, sh) ==
    /\ sh.sid = r.hello.sid /\ Contains(r.hello.suites, sh.suite)
    /\ r.suite # "none" => sh.suite = r.suite

(* The transcripts up to the first answer of the server. *)
Started(r) == [r EXCEPT !.th = <<HelloEntry(Marshal(r.hello, FALSE))>>,
                        !.innerTh = IF r.ech = "none" THEN <<>>
                                    ELSE <<HelloEntry(Marshal(r.inner, FALSE))>>]

(* processHelloRetryRequest.  The hello that is changed is the inner one if the *)
(* HelloRetryRequest confirms it.                                              *)
RetryConfirms(r, sh) ==
    /\ r.ech = "offered" /\ sh.conf # NoConf
    /\ sh.conf = Confirmation("hrr", r.inner, MessageHash(r.innerTh), sh)
RetryOK(r, sh) ==
    /\ r.ech = "none" => sh.conf = NoConf
    /\ Contains(r.hello.x.curves, sh.group) /\ ~HasShare(r.hello, sh.group)

(* Mutant: the binders of the first hello. *)
RetriedOldBinder(r, m, sh, th) ==
    [m EXCEPT !.x.keyShares = SubSeq(KeyShares(sh.group, 2), 1, 1), !.x.earlyData = FALSE]

Retried(r, m, sh, th) ==
    LET m1 == [m EXCEPT !.x.keyShares = SubSeq(KeyShares(sh.group, 2), 1, 1), !.x.earlyData = FALSE] IN
    IF m.x.psk.label = 0 THEN m1
    ELSE IF SuiteHash(r.session.suite) = SuiteHash(sh.suite)
         THEN WithBinder(m1, r.session.secret, th)
         ELSE [m1 EXCEPT !.x.psk = NoPSK]

(* Of what has changed, the outer hello needs what the inner one compresses. *)
Resealed(r, inner) ==
    Seal([r.hello EXCEPT !.x.keyShares = inner.x.keyShares], inner, cfg.client.ech, conn, 1)

ProcessHelloRetryRequest(r, sh) ==
    LET confirmed == RetryConfirms(r, sh)
        th == Append(MessageHash(r.th), ServerHelloEntry(sh))
        innerTh == Append(MessageHash(r.innerTh), ServerHelloEntry(sh))
        m == Retried(r, IF confirmed THEN r.inner ELSE r.hello, sh, IF r.ech = "none" THEN th ELSE innerTh)
        hello == IF confirmed THEN Resealed(r, m) ELSE m
        wire == Marshal(hello, FALSE)
    IN  Put([r EXCEPT !.didHRR = TRUE, !.suite = sh.suite, !.hello = hello,
                !.inner = IF confirmed THEN m ELSE @,
                !.innerTh = IF confirmed THEN Append(innerTh, HelloEntry(Marshal(m, FALSE))) ELSE innerTh,
                !.th = Append(th, HelloEntry(wire)),
                !.serverName = IF confirmed THEN "secret" ELSE @,
                !.echAccepted = confirmed], "ClientHello", wire)

(* handshake: the random of the ServerHello tells whether ECH is accepted. *)
Confirmed(r, sh) ==
    IF r.ech # "offered" THEN r
    ELSE IF sh.conf = Confirmation("sh", r.inner, r.innerTh, sh)
         THEN [r EXCEPT !.hello = r.inner, !.th = r.innerTh, !.serverName = "secret",
                        !.ech = "accepted", !.echAccepted = TRUE]
         ELSE [r EXCEPT !.ech = "rejected"]

(* processServerHello and establishHandshakeKeys. *)
ProcessServerHelloOK(r, sh) ==
    /\ HasShare(r.hello, sh.group)
    /\ sh.psk => r.hello.x.psk.label # 0 /\ SuiteHash(r.session.suite) = SuiteHash(sh.suite)
ProcessServerHello(r, sh) ==
    LET th == Append(r.th, ServerHelloEntry(sh))
        dhe == [group |-> sh.group, conn |-> conn, try |-> IF r.didHRR THEN 2 ELSE 1]
        secret == HandshakeSecret(IF sh.psk THEN r.session.secret ELSE NoPSKey, dhe)
        r1 == [r EXCEPT !.th = th, !.suite = sh.suite, !.group = sh.group, !.secret = secret,
                        !.out = HandshakeKey("client", secret, th),
                        !.in = HandshakeKey("server", secret, th), !.pc = "params"]
    IN  IF ~sh.psk THEN r1
        ELSE [r1 EXCEPT !.resumed = TRUE, !.serverCert = r.session.cert, !.verified = r.session.verified]

ServerHello ==
    /\ st.client.pc = "serverHello" /\ Waiting("client")
    /\ LET sh == Msg("client").body
           r0 == IF st.client.didHRR THEN st.client ELSE Started(st.client)
           r1 == Confirmed(r0, sh)
           seen == Sees("client", "ServerHello") /\ ServerHelloOrHRROK(st.client, sh)
           retries  == seen /\ sh.retry /\ ~r0.didHRR /\ RetryOK(r0, sh)
           proceeds == seen /\ ~sh.retry /\ ProcessServerHelloOK(r1, sh)
       IN  \/ retries /\ Reads("client", ProcessHelloRetryRequest(r0, sh)) /\ UNCHANGED cache
           \/ proceeds /\ Reads("client", ProcessServerHello(r1, sh)) /\ UNCHANGED cache
           \/ ~(retries \/ proceeds) /\ ClientFails

(* readServerParameters, and what readServerCertificate does in a resumption. *)
CheckALPN(client, proto) ==
    IF proto = "" THEN cfg.quic => client = <<>> ELSE Contains(client, proto)
ParametersOK(r, ee) ==
    /\ CheckALPN(r.hello.x.alpn, ee.proto) /\ ee.quicTP = cfg.quic
    /\ ee.early => /\ r.hello.x.earlyData
                   /\ r.session.suite = r.suite /\ r.session.proto = ee.proto
    /\ r.ech = "accepted" => ee.retryConfigs = {}

EncryptedExtensions ==
    /\ st.client.pc = "params" /\ Waiting("client")
    /\ LET ee == Msg("client").body
           ok == Sees("client", "EncryptedExtensions") /\ ParametersOK(st.client, ee)
           r  == [Heard(st.client, "EncryptedExtensions", ee) EXCEPT
                     !.proto = ee.proto, !.early = ee.early, !.pc = "certificate",
                     !.retryConfigs = IF st.client.ech = "rejected" THEN ee.retryConfigs ELSE {}]
           rv == [VerifyConnection("client", r) EXCEPT !.pc = "finished"]
       IN  \/ ok /\ ~r.resumed /\ Reads("client", r) /\ UNCHANGED cache
           \/ ok /\ r.resumed /\ ~Rejects("client") /\ Reads("client", rv) /\ UNCHANGED cache
           \/ ok /\ r.resumed /\ Rejects("client") /\ ClientFailsIn(rv, "other")
           \/ ~ok /\ ClientFails

CertificateRequest ==
    /\ st.client.pc = "certificate" /\ Sees("client", "CertificateRequest") /\ ~st.client.certReq
    /\ Reads("client", [Heard(st.client, "CertificateRequest", <<>>) EXCEPT !.certReq = TRUE])
    /\ UNCHANGED cache

(* verifyServerCertificate.  A server that rejects ECH answers for the public  *)
(* name, whatever InsecureSkipVerify says, and VerifyConnection is not called. *)
RejectedECH(r) == cfg.client.ech # "none" /\ ~r.echAccepted
CertificateOK(r, cert) ==
    LET c == cfg.client IN
    IF RejectedECH(r)
    THEN IF c.rejection = "nil" THEN cert.trusted /\ r.serverName \in cert.names
         ELSE c.rejection = "accepts"
    ELSE c.insecure \/ (cert.trusted /\ "secret" \in cert.names)
ServerCertificate ==
    /\ st.client.pc = "certificate" /\ Waiting("client")
    /\ ~(Sees("client", "CertificateRequest") /\ ~st.client.certReq)
    /\ LET cert == Msg("client").body
           c  == cfg.client
           ok == Sees("client", "Certificate") /\ CertificateOK(st.client, cert)
           r  == [Heard(st.client, "Certificate", cert) EXCEPT
                     !.serverCert = cert, !.pc = "certVerify",
                     !.verified = IF RejectedECH(st.client) THEN c.rejection = "nil" ELSE ~c.insecure]
           calls == ~RejectedECH(r)
           rv == IF calls THEN VerifyConnection("client", r) ELSE r
       IN  \/ ok /\ ~(calls /\ Rejects("client")) /\ Reads("client", rv) /\ UNCHANGED cache
           \/ ok /\ calls /\ Rejects("client") /\ ClientFailsIn(rv, "other")
           \/ ~ok /\ ClientFails

(* The scheme is one for the key of the certificate, the signature one of the  *)
(* transcript so far.                                                          *)
ServerCertificateVerify ==
    /\ st.client.pc = "certVerify" /\ Waiting("client")
    /\ LET m  == Msg("client").body
           ok == /\ Sees("client", "CertificateVerify")
                 /\ m.alg = st.client.serverCert.key /\ m.th = st.client.th
       IN  \/ /\ ok /\ UNCHANGED cache
              /\ Reads("client", [Heard(st.client, "CertificateVerify", m.alg) EXCEPT !.pc = "finished"])
           \/ ~ok /\ ClientFails

(* readServerFinished, sendClientCertificate and sendClientFinished. *)
HearFinished(r) ==
    LET r1 == Heard(r, "Finished", <<>>) IN
    [r1 EXCEPT !.trafficSecret = ApplicationKey("client", r.secret, r1.th),
               !.in = ApplicationKey("server", r.secret, r1.th),
               !.ekm = DeriveSecret("exporter", "both", r.secret, r1.th)]

SendClientCertificate(r) ==
    LET c == cfg.client
        cert == IF r.ech = "rejected" THEN "none" ELSE c.cert
        r1 == SaysIf(r.certReq, r, "Certificate", cert)
    IN  IF r.certReq /\ cert # "none"
        THEN SaysSigned(r1, "client", IF c.key THEN r1.th ELSE <<>>) ELSE r1
SendClientFinished(r) ==
    LET r1 == SaysFinished(r) IN
    [r1 EXCEPT !.out = r.trafficSecret,
               !.resumption = IF cfg.client.tickets THEN DeriveSecret("resumption", "both", r.secret, r1.th)
                              ELSE NoKey]
ServerFinished ==
    /\ st.client.pc = "finished" /\ Waiting("client")
    /\ LET ok == Sees("client", "Finished") /\ Msg("client").body = FinishedHash(st.client.in, st.client.th)
           r  == SendClientFinished(SendClientCertificate(HearFinished(st.client)))
       IN  \/ ok /\ r.ech # "rejected" /\ Reads("client", [r EXCEPT !.pc = "complete"]) /\ UNCHANGED cache
           \/ ok /\ r.ech = "rejected" /\ ClientFailsIn(r, "ECHRejectionError")
           \/ ~ok /\ ClientFails

(* handleNewSessionTicket, when the application reads from the connection. *)
NewSessionTicket ==
    /\ Complete("client") /\ Sees("client", "NewSessionTicket")
    /\ LET r == st.client IN
       /\ Reads("client", r)
       /\ cache' = IF cfg.client.tickets
                   THEN [label |-> Msg("client").body.label, early |-> cfg.quic /\ Msg("client").body.early,
                         suite |-> r.suite, proto |-> r.proto, secret |-> r.resumption,
                         verified |-> r.verified, cert |-> r.serverCert]
                   ELSE cache
    /\ UNCHANGED <<conn, cfg, sealed, proved, broken>>

-----------------------------------------------------------------------------
(* The server: readClientHello and processClientHello. *)

(* processECHClientHello tries its keys. *)
ECHKeyOf(w) ==
    LET good == {k \in cfg.server.keys : w.x.ech.kind = "outer" /\ Opens(w, k, conn, 0)} IN
    IF good = {} THEN "none" ELSE CHOOSE k \in good : TRUE

(* The order of preference is that without AES unless both ends want AES. *)
SelectedSuite(w) ==
    LET aes == cfg.server.aes /\ Head(w.suites) # "CHACHA" IN
    FirstOf(IF aes THEN <<"AES128", "AES256", "CHACHA">> ELSE <<"CHACHA", "AES128", "AES256">>,
            LAMBDA x : Contains(w.suites, x), "none")

(* A post-quantum group first, then one with a key share. *)
SelectedGroup(w) ==
    LET common == SelectSeq(cfg.server.curves, LAMBDA g : Contains(w.x.curves, g))
        shared == FirstOf(common, LAMBDA g : HasShare(w, g), FirstOf(common, LAMBDA g : TRUE, "none"))
    IN  FirstOf(common, LAMBDA g : IsPQKeyExchange(g) /\ HasShare(w, g),
                FirstOf(common, IsPQKeyExchange, shared))

ProcessClientHelloOK(w) ==
    /\ 13 \in w.x.versions
    /\ w.x.earlyData => cfg.quic /\ w.x.psk.label # 0
    /\ SelectedSuite(w) # "none" /\ SelectedGroup(w) # "none"

ServerHelloMsg(r, retry) ==
    [retry |-> retry, sid |-> r.hello.sid, suite |-> r.suite, group |-> r.group, psk |-> FALSE, conf |-> NoConf]

(* doHelloRetryRequest, up to the hello that answers it ... *)
DoHelloRetryRequest(r) ==
    LET th  == MessageHash(<<HelloEntry(r.hello)>>)
        hrr == ServerHelloMsg(r, TRUE)
        sh  == IF r.echAccepted THEN [hrr EXCEPT !.conf = Confirmation("hrr", r.hello, th, hrr)] ELSE hrr
    IN  Put([r EXCEPT !.th = Append(th, ServerHelloEntry(sh)), !.pc = "clientHello2"], "ServerHello", sh)

(* ... and from there. *)
IllegalClientHelloChange(w, w1) ==
    \/ w.random # w1.random \/ w.sid # w1.sid \/ w.suites # w1.suites
    \/ \E t \in {"serverName", "legacy", "curves", "sigs", "alpn", "versions", "pskModes"} : w.x[t] # w1.x[t]

SecondHelloOK(r, w) ==
    /\ r.echAccepted => /\ w.x.ech.kind = "outer" /\ ~w.x.ech.encap
                        /\ Opens(w, r.echKey, conn, 1) /\ Decodes(w)
    /\ LET hello == IF r.echAccepted THEN DecodeInner(w) ELSE w IN
       /\ Len(hello.x.keyShares) = 1 /\ HasShare(hello, r.group) /\ ~hello.x.earlyData
       /\ ~IllegalClientHelloChange(hello, r.hello)

-----------------------------------------------------------------------------
(* The server's flight, once it has a key share. *)

(* negotiateALPN; "fail" is its error. *)
NegotiateALPN(server, client) ==
    IF server = <<>> \/ client = <<>> THEN IF cfg.quic /\ server # <<>> THEN "fail" ELSE ""
    ELSE FirstOf(server, LAMBDA p : Contains(client, p),
                 IF Contains(server, "h2") /\ Contains(client, "http/1.1") THEN "" ELSE "fail")

(* The rest of processClientHello. *)
Negotiated(r) ==
    [r EXCEPT !.proto = NegotiateALPN(cfg.server.protos, r.hello.x.alpn),
              !.serverName = r.hello.x.serverName]
NegotiatedOK(r) ==
    /\ r.proto # "fail" /\ r.hello.x.quicTP = cfg.quic
    /\ cfg.quic => r.hello.x.versions \subseteq {13}

RequiresClientCert == cfg.server.auth \in {2, 4}

(* Mutant: a session without a certificate is resumed all the same. *)
ResumableAnyAuth(r, t) == SuiteHash(t.suite) = SuiteHash(r.suite)

(* checkForResumption: the session t in the ticket can be resumed, *)
Resumable(r, t) ==
    LET s == cfg.server IN
    /\ SuiteHash(t.suite) = SuiteHash(r.suite)
    /\ RequiresClientCert => t.cert # "none"
    /\ t.cert # "none" => s.auth # 0
    /\ t.cert # "none" /\ s.auth >= 3 => t.verified /\ t.cert \in s.cas

(* unless the ticket opens no more, or holds what has expired. *)
Selects(r, opens) ==
    LET x == r.hello.x IN
    /\ cfg.server.tickets /\ x.pskModes /\ x.psk.label # 0 /\ opens
    /\ Resumable(r, sealed[x.psk.label])
BinderOK(r) ==
    r.hello.x.psk.binder = Binder(sealed[r.hello.x.psk.label].secret, Append(r.th, HelloEntry(r.hello)))

AcceptsEarly(r, t) ==
    cfg.quic /\ r.hello.x.earlyData /\ t.early /\ t.suite = r.suite /\ t.proto = r.proto

ServerRestored(r) ==
    LET t == sealed[r.hello.x.psk.label]
        early == AcceptsEarly(r, t)
    IN  [r EXCEPT !.resumed = TRUE, !.session = t, !.peerCert = t.cert, !.verified = t.verified,
                  !.early = early,
                  !.earlyKey = IF early THEN EarlyKey(t.secret, HelloEntry(r.hello)) ELSE NoKey]

(* getCertificate and pickCertificate. *)
SupportsCertificate(w, cert) == w.x.serverName \in cert.names /\ Contains(w.x.sigs, cert.key)
GetCertificate(w) ==
    LET certs == cfg.server.certs IN
    IF Len(certs) = 1 THEN certs[1]
    ELSE FirstOf(certs, LAMBDA cert : SupportsCertificate(w, cert), Head(certs))

(* sendServerParameters. *)
RetryConfigs(r) == IF r.hello.x.ech # NoECH /\ ~r.echAccepted THEN cfg.server.retry ELSE {}
SendServerParameters(r) ==
    LET sh0 == [ServerHelloMsg(r, FALSE) EXCEPT !.psk = r.resumed]
        th0 == Append(r.th, HelloEntry(r.hello))
        sh  == IF r.echAccepted THEN [sh0 EXCEPT !.conf = Confirmation("sh", r.hello, th0, sh0)] ELSE sh0
        th  == Append(th0, ServerHelloEntry(sh))
        share == r.hello.x.keyShares[SelectInSeq(r.hello.x.keyShares, LAMBDA k : k.group = r.group)]
        secret == HandshakeSecret(IF r.resumed THEN r.session.secret ELSE NoPSKey, share)
        r1 == [Put(r, "ServerHello", sh) EXCEPT
                  !.th = th, !.secret = secret, !.out = HandshakeKey("server", secret, th),
                  !.in = HandshakeKey("client", secret, th)]
    IN  Says(r1, "EncryptedExtensions", [proto |-> r.proto, early |-> r.early, quicTP |-> cfg.quic,
                                         retryConfigs |-> RetryConfigs(r)])

RequestClientCert(r) == cfg.server.auth >= 1 /\ ~r.resumed
SendServerCertificate(r) ==
    LET cert == GetCertificate(r.hello)
        r1 == Says(SaysIf(RequestClientCert(r), r, "CertificateRequest", <<>>), "Certificate", cert)
    IN  IF r.resumed THEN r ELSE SaysSigned(r1, cert.key, r1.th)

(* sendSessionTicket: one ticket per connection. *)
SendTicket(r, early) ==
    Put([r EXCEPT !.ticket = [suite |-> r.suite, proto |-> r.proto, secret |-> r.resumption,
                              early |-> early, cert |-> r.peerCert, verified |-> r.verified]],
        "NewSessionTicket", [label |-> conn, early |-> early])

(* sendSessionTickets: the client's Finished is known before it comes. *)
SendSessionTickets(r) ==
    LET r1 == [Heard(r, "Finished", <<>>) EXCEPT !.clientFinished = FinishedHash(r.in, r.th)]
        r2 == [r1 EXCEPT !.resumption = DeriveSecret("resumption", "both", r.secret, r1.th),
                         !.pc = "clientFinished"]
    IN  IF cfg.server.tickets /\ ~cfg.quic /\ r.hello.x.pskModes THEN SendTicket(r2, FALSE) ELSE r2

(* Mutant: the exporter's secret is derived when the tickets have rolled the   *)
(* transcript forward.                                                         *)
SendServerFinishedLateExporter(r) ==
    LET r1 == SaysFinished(r)
        r2 == [r1 EXCEPT !.out = ApplicationKey("server", r.secret, r1.th),
                         !.trafficSecret = ApplicationKey("client", r.secret, r1.th)]
        r3 == IF RequestClientCert(r) THEN [r2 EXCEPT !.pc = "clientCert"] ELSE SendSessionTickets(r2)
    IN  [r3 EXCEPT !.ekm = DeriveSecret("exporter", "both", r.secret, r3.th)]

SendServerFinished(r) ==
    LET r1 == SaysFinished(r)
        r2 == [r1 EXCEPT !.out = ApplicationKey("server", r.secret, r1.th),
                         !.trafficSecret = ApplicationKey("client", r.secret, r1.th),
                         !.ekm = DeriveSecret("exporter", "both", r.secret, r1.th)]
    IN  IF RequestClientCert(r) THEN [r2 EXCEPT !.pc = "clientCert"] ELSE SendSessionTickets(r2)

(* Mutant: the flight is not flushed. *)
ServerFlightUnflushed(r0, opens) ==
    LET r == Negotiated(r0) IN
    [SendServerFinished(SendServerCertificate(SendServerParameters(r))) EXCEPT !.sent = r0.sent]

(* handshake, from the key share to the next read. *)
ServerFlight(r0, opens) ==
    LET r  == Negotiated(r0)
        rr == IF Selects(r, opens) THEN ServerRestored(r) ELSE r
        rf == SendServerFinished(SendServerCertificate(SendServerParameters(rr)))
        ok == /\ NegotiatedOK(r)
              /\ Selects(r, opens) => BinderOK(r)
              /\ ~rr.resumed => Contains(r.hello.x.sigs, GetCertificate(r.hello).key)
    IN  IF ~ok THEN Fail(r0)
        ELSE IF RequestClientCert(rr) THEN rf
        ELSE IF Rejects("server") THEN Fail(VerifyConnection("server", rf))
        ELSE VerifyConnection("server", rf)

ReadClientHello(opens) ==
    /\ st.server.pc = "clientHello" /\ Waiting("server")
    /\ LET w == Msg("server").body
           key == ECHKeyOf(w)
           hello == IF key = "none" THEN w ELSE DecodeInner(w)
           ok == /\ Sees("server", "ClientHello") /\ WellFormed(w)
                 /\ key # "none" => Decodes(w)
                 /\ ProcessClientHelloOK(hello)
           r  == [st.server EXCEPT !.hello = hello, !.echKey = key, !.echAccepted = key # "none",
                     !.suite = SelectedSuite(hello), !.group = SelectedGroup(hello)]
       IN  \/ ok /\ HasShare(hello, r.group) /\ ServerGoes(ServerFlight(r, opens))
           \/ ok /\ ~HasShare(hello, r.group) /\ ServerGoes(DoHelloRetryRequest(r))
           \/ ~ok /\ ServerFails

ReadSecondHello(opens) ==
    /\ st.server.pc = "clientHello2" /\ Waiting("server")
    /\ LET w  == Msg("server").body
           ok == Sees("server", "ClientHello") /\ SecondHelloOK(st.server, w)
           r  == [st.server EXCEPT !.hello = IF st.server.echAccepted THEN DecodeInner(w) ELSE w,
                                   !.didHRR = TRUE]
       IN  \/ ok /\ ServerGoes(ServerFlight(r, opens))
           \/ ~ok /\ ServerFails

-----------------------------------------------------------------------------
(* readClientCertificate and processCertsFromClient. *)
ClientCertificateOK(cert) ==
    LET s == cfg.server IN
    /\ RequiresClientCert => cert # "none"
    /\ s.auth >= 3 /\ cert # "none" => cert \in s.cas
ClientCertificate ==
    /\ st.server.pc = "clientCert" /\ Waiting("server")
    /\ LET cert == Msg("server").body
           ok == Sees("server", "Certificate") /\ ClientCertificateOK(cert)
           r  == VerifyConnection("server",
                    [Heard(st.server, "Certificate", cert) EXCEPT
                        !.peerCert = cert, !.verified = cert # "none" /\ cfg.server.auth >= 3,
                        !.pc = "certVerify"])
       IN  \/ ok /\ Rejects("server") /\ ServerGoes(Fail(r))
           \/ ok /\ ~Rejects("server") /\ ServerGoes(IF cert = "none" THEN SendSessionTickets(r) ELSE r)
           \/ ~ok /\ ServerFails

(* The signature is over the transcript without it. *)
ClientCertificateVerify ==
    /\ st.server.pc = "certVerify" /\ Waiting("server")
    /\ LET ok == Sees("server", "CertificateVerify") /\ Msg("server").body.th = st.server.th
           r  == Heard(st.server, "CertificateVerify", Msg("server").body.alg)
       IN  \/ /\ ok /\ ServerGoes(SendSessionTickets(r))
              /\ proved' = proved \cup {st.server.peerCert}
           \/ ~ok /\ ServerFails /\ UNCHANGED proved

(* readClientFinished. *)
ClientFinished ==
    /\ st.server.pc = "clientFinished" /\ Waiting("server")
    /\ LET ok == Sees("server", "Finished") /\ Msg("server").body = st.server.clientFinished IN
       \/ ok /\ ServerGoes([st.server EXCEPT !.in = st.server.trafficSecret, !.pc = "complete"])
       \/ ~ok /\ ServerFails

(* QUICConn.SendSessionTicket. *)
SendSessionTicket(early) ==
    /\ Complete("server") /\ cfg.quic /\ cfg.server.tickets /\ st.server.ticket = NoSession
    /\ LET r == SendTicket(st.server, early) IN
       Goes("server", r) /\ sealed' = [sealed EXCEPT ![conn] = r.ticket]
    /\ UNCHANGED <<conn, cfg, cache, proved, broken>>

-----------------------------------------------------------------------------
ClientStep ==
    /\ \/ \E expired \in BOOLEAN : ClientHello(expired)
       \/ ServerHello \/ EncryptedExtensions \/ CertificateRequest \/ ServerCertificate
       \/ ServerCertificateVerify \/ ServerFinished
    /\ UNCHANGED <<conn, cfg, sealed, proved, broken>>

ServerStep ==
    /\ \/ ClientCertificateVerify
       \/ /\ \/ \E opens \in BOOLEAN : ReadClientHello(opens) \/ ReadSecondHello(opens)
             \/ ClientCertificate \/ ClientFinished
          /\ UNCHANGED proved
    /\ UNCHANGED <<conn, cfg, cache, broken>>

(* The transport fails: what is under way is lost, and every later read fails. *)
Break ==
    /\ ~broken /\ st # ClosedEnds /\ \E e \in Ends : ~Ended(e)
    /\ broken' = TRUE
    /\ st' = [e \in Ends |-> [st[e] EXCEPT !.sent = <<[kind |-> "end", key |-> NoKey, body |-> <<>>]>>]]
    /\ UNCHANGED <<conn, cfg, cache, sealed, proved>>

(* Both ends close the connection, and make the next one with the Configs of   *)
(* that time.                                                                  *)
Close ==
    /\ \A e \in Ends : Ended(e)
    /\ cfg' = NoConfigs /\ st' = ClosedEnds /\ broken' = FALSE
    /\ UNCHANGED <<conn, cache, sealed, proved>>

Connect ==
    /\ conn < MaxConns /\ st = ClosedEnds
    /\ conn' = conn + 1 /\ cfg' \in [client : ClientCfgs, server : ServerCfgs, quic : Transports]
    /\ st' = [client |-> Fresh, server |-> [Fresh EXCEPT !.pc = "clientHello"]]
    /\ UNCHANGED <<cache, sealed, proved, broken>>

Next ==
    \/ ClientStep \/ ServerStep \/ NewSessionTicket
    \/ \E early \in BOOLEAN : SendSessionTicket(early)
    \/ Break \/ Close \/ Connect

Spec == Init /\ [][Next]_vars

-----------------------------------------------------------------------------
Outcome(r) == [suite |-> r.suite, group |-> r.group, proto |-> r.proto, serverName |-> r.serverName,
               resumed |-> r.resumed, early |-> r.early, didHRR |-> r.didHRR, ech |-> r.echAccepted,
               ekm |-> r.ekm]

(* Two ends that have completed one handshake agree on everything it           *)
(* negotiated and on the exporter's secret, and each reads with the key the    *)
(* other writes with.  The client is first to complete, or it has found that   *)
(* ECH was rejected.  The key the server reads 0-RTT data with is the one the  *)
(* client wrote it with, even before the handshake ends.                       *)
Agreement ==
    /\ Complete("client") /\ Complete("server") =>
          /\ Outcome(st.client) = Outcome(st.server)
          /\ st.client.in = st.server.out /\ st.client.out = st.server.in
    /\ Complete("server") => Complete("client") \/ st.client.err = "ECHRejectionError"
    /\ st.server.earlyKey # NoKey => st.server.earlyKey = st.client.earlyKey

(* No handshake gets around the Config it runs under, though it resumes a      *)
(* session of another: a client that verifies has a server verified for the    *)
(* name it asked for, a server the certificates that its ClientAuth and        *)
(* ClientCAs ask for, of a client that has proved once to have their key, and  *)
(* VerifyConnection has seen the connection as it is used.                     *)
AuthPolicy ==
    /\ Complete("client") =>
          cfg.client.insecure \/ (st.client.verified /\ "secret" \in st.client.serverCert.names)
    /\ Complete("server") =>
          LET cert == st.server.peerCert
              s == cfg.server
          IN  /\ s.auth = 0 => cert = "none"
              /\ RequiresClientCert => cert # "none"
              /\ s.auth >= 3 /\ cert # "none" => cert \in s.cas /\ st.server.verified
              /\ cert \in proved \cup {"none"}
    /\ \A e \in Ends : Complete(e) /\ cfg[e].verify # "nil" => st[e].saw = View(st[e])

(* A client with ECH shows the network neither the name it asks for nor the    *)
(* session it resumes, in no hello and whatever the server makes of ECH; it    *)
(* completes only if ECH is accepted; and a server that rejects it, which has  *)
(* answered for the public name, is never shown the client's certificate.      *)
ECHKeepsSecrets ==
    st.client.ech # "none" =>
       /\ \A i \in DOMAIN st.client.sent :
             LET m == st.client.sent[i] IN
             /\ m.kind = "ClientHello" => m.body.x.serverName = "public" /\ m.body.x.psk = NoPSK
             /\ m.kind = "Certificate" /\ m.body # "none" => st.client.ech = "accepted"
       /\ Complete("client") => st.client.ech = "accepted" /\ st.client.echAccepted
       /\ st.client.err = "ECHRejectionError" /\ cfg.client.rejection = "nil" =>
             st.client.serverCert.trusted /\ "public" \in st.client.serverCert.names

(* What both Configs allow.  A server shows some certificate for name that the *)
(* client can check, and trusts if it looks; ALPN, key exchange and the        *)
(* client's certificate suit the other end.                                    *)
CertificateFor(name, c, s) ==
    LET good == {i \in DOMAIN s.certs : name \in s.certs[i].names /\ Contains(c.sigs, s.certs[i].key)} IN
    good # {} /\ \A i \in good : s.certs[i].trusted
Overlap(list, other) == ToSet(list) \cap ToSet(other) # {}
Compatible(c, s, quic) ==
    /\ Overlap(c.curves, s.curves)
    /\ \/ c.protos = <<>> /\ s.protos = <<>>
       \/ Overlap(c.protos, s.protos)
       \/ ~quic /\ (c.protos = <<>> \/ s.protos = <<>>)
    /\ c.verify # "rejects" /\ s.verify # "rejects"
    /\ RequiresClientCert => c.cert # "none"
    /\ c.cert # "none" => (s.auth >= 1 => c.key) /\ (s.auth >= 3 => c.cert \in s.cas)

RejectionExpected ==
    /\ cfg.client.ech \notin cfg.server.keys \cup {"none"}
    /\ cfg.client.rejection = "accepts" \/
          (cfg.client.rejection = "nil" /\ CertificateFor("public", cfg.client, cfg.server))

(* Compatible Configs fail only with the transport, whatever session the       *)
(* client has kept and whether or not the server asks for another hello: an    *)
(* unusable session costs a full handshake, not the connection.  If the server *)
(* has not the key of the client's ECHConfig, the client learns so, with the   *)
(* configs the server would rather see, unless it offers 0-RTT data.           *)
Interop ==
    ~broken /\ st # ClosedEnds /\ Compatible(cfg.client, cfg.server, cfg.quic) =>
       /\ cfg.client.ech \in cfg.server.keys \cup {"none"} /\ CertificateFor("secret", cfg.client, cfg.server)
             => \A e \in Ends : st[e].pc # "failed"
       /\ RejectionExpected /\ st.client.pc = "failed" /\ st.client.earlyKey = NoKey
             => st.client.err = "ECHRejectionError" /\ st.client.retryConfigs = cfg.server.retry

(* EncryptedClientHelloConfigList (common.go): "If the server rejects ECH, an  *)
(* ECHRejectionError error will be returned".                                  *)
ECHRejectionReported ==
    ~broken /\ st # ClosedEnds /\ Compatible(cfg.client, cfg.server, cfg.quic)
       /\ RejectionExpected /\ st.client.pc = "failed" => st.client.err = "ECHRejectionError"

(* The ends never wait for each other: as long as one has not come to its end, *)
(* one of them has something to do or a message to read.  A message that is    *)
(* left out, or waited for in vain, would leave both in a read for ever.       *)
NeverStuck ==
    st # ClosedEnds /\ (\E e \in Ends : ~Ended(e)) =>
       \E e \in Ends : ~Ended(e) /\ (st[e].pc = "start" \/ Waiting(e))
=============================================================================
