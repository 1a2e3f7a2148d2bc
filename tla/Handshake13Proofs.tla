------------------------- MODULE Handshake13Proofs -------------------------
(***************************************************************************)
(* Proofs about Handshake13, for every set of Configs and any number of    *)
(* connections: the two ends of a TLS 1.3 handshake agree, none completes  *)
(* against its Config, Encrypted ClientHello keeps what it is there to     *)
(* keep, and the two never wait for each other.                            *)
(*                                                                         *)
(* The first part says what the operators of the model keep of an end, and *)
(* of a hello on its way through marshal, seal and decode.  Then come the  *)
(* invariant Inv, one lemma per action, and the theorems that follow from  *)
(* it.  The last part is a second invariant, Alive, about the messages     *)
(* under way, of which NeverStuck is a consequence.                        *)
(***************************************************************************)
EXTENDS Handshake13, TLAPS

(* The fields of an end. *)
Fields == {"pc", "err", "sent", "in", "out", "hello", "inner", "th", "innerTh", "ech", "echAccepted",
           "echKey", "didHRR", "suite", "group", "proto", "serverName", "resumed", "session",
           "secret", "earlyKey", "early", "certReq", "peerCert", "serverCert", "verified", "saw",
           "clientFinished", "trafficSecret", "resumption", "ekm", "retryConfigs", "ticket"}
Shape(r) == /\ DOMAIN r = Fields
            /\ r.didHRR \in BOOLEAN /\ r.echAccepted \in BOOLEAN /\ r.resumed \in BOOLEAN

(* q agrees with r on what was offered, on what was negotiated, on the *)
(* peer's authentication, on the keys, and on where the end is.        *)
SameOffer(r, q) == q.hello = r.hello /\ q.inner = r.inner /\ q.session = r.session /\ q.earlyKey = r.earlyKey
SameNeg(r, q)   == /\ q.ech = r.ech /\ q.echAccepted = r.echAccepted /\ q.didHRR = r.didHRR
                   /\ q.suite = r.suite /\ q.group = r.group /\ q.proto = r.proto
                   /\ q.serverName = r.serverName /\ q.resumed = r.resumed /\ q.early = r.early
SameAuth(r, q)  == /\ q.peerCert = r.peerCert /\ q.serverCert = r.serverCert /\ q.verified = r.verified
                   /\ q.saw = r.saw
SameKeys(r, q)  == /\ q.in = r.in /\ q.out = r.out /\ q.secret = r.secret
                   /\ q.trafficSecret = r.trafficSecret /\ q.ekm = r.ekm
SameRest(r, q)  == /\ q.pc = r.pc /\ q.err = r.err /\ q.certReq = r.certReq /\ q.ticket = r.ticket
                   /\ q.echKey = r.echKey /\ q.innerTh = r.innerTh
Same(r, q) == SameOffer(r, q) /\ SameNeg(r, q) /\ SameAuth(r, q) /\ SameKeys(r, q)

(* A transcript, or the messages under way: a sequence of anything; and b *)
(* is a with messages of A added to it.                                   *)
IsTh(th) == \E M : th \in Seq(M)
Adds(a, b, A) == \A M : a \in Seq(M) => b \in Seq(M \cup A)

(* A transcript that takes one more message: its length, its last entry, *)
(* and the others as they were.                                          *)
LEMMA ThAppend ==
  ASSUME NEW th, IsTh(th), NEW e
  PROVE  /\ IsTh(Append(th, e)) /\ Len(th) \in Nat /\ Len(Append(th, e)) = Len(th) + 1
         /\ Append(th, e)[Len(th) + 1] = e
         /\ \A i \in 1..Len(th) : Append(th, e)[i] = th[i]
<1>1. PICK M : th \in Seq(M)
  BY DEF IsTh
<1>2. PICK N : N = M \cup {e}
  OBVIOUS
<1>3. th \in Seq(N) /\ e \in N
  BY <1>1, <1>2
<1>4. /\ Append(th, e) \in Seq(N) /\ Len(th) \in Nat /\ Len(Append(th, e)) = Len(th) + 1
      /\ Append(th, e)[Len(th) + 1] = e
      /\ \A i \in 1..Len(th) : Append(th, e)[i] = th[i]
  BY <1>3
<1> QED
  BY <1>4 DEF IsTh

(* The empty transcript. *)
LEMMA ThEmpty == IsTh(<<>>) /\ Len(<<>>) = 0
<1>1. <<>> \in Seq({}) /\ Len(<<>>) = 0
  OBVIOUS
<1> QED
  BY <1>1 DEF IsTh

(* A transcript of one message. *)
LEMMA ThOne ==
  ASSUME NEW e
  PROVE  IsTh(<<e>>) /\ Len(<<e>>) = 1 /\ <<e>>[1] = e
<1>1. <<e>> \in Seq({e}) /\ Len(<<e>>) = 1 /\ <<e>>[1] = e
  OBVIOUS
<1> QED
  BY <1>1 DEF IsTh

(* Nothing is added to what stays the same. *)
LEMMA AddsNone == ASSUME NEW a PROVE Adds(a, a, {})
BY DEF Adds

(* What is added in two goes is added in one. *)
LEMMA AddsMore ==
  ASSUME NEW a, NEW b, NEW d, NEW A, NEW B, Adds(a, b, A), Adds(b, d, B)
  PROVE  Adds(a, d, A \cup B)
<1> SUFFICES ASSUME NEW M, a \in Seq(M) PROVE d \in Seq(M \cup (A \cup B))
  BY DEF Adds
<1>1. b \in Seq(M \cup A)
  BY DEF Adds
<1>2. d \in Seq((M \cup A) \cup B)
  BY <1>1 DEF Adds
<1>3. (M \cup A) \cup B = M \cup (A \cup B)
  OBVIOUS
<1> QED
  BY <1>2, <1>3

(* q has written messages of A more than r, and differs from it in nothing *)
(* but the transcript.                                                     *)
Wrote(r, q, A) == Shape(q) /\ Same(r, q) /\ SameRest(r, q) /\ Adds(r.sent, q.sent, A)

(* Conn.write adds one message under the key of the write half and leaves *)
(* all else alone.                                                        *)
LEMMA PutWrote ==
  ASSUME NEW r, Shape(r), NEW kind, NEW body
  PROVE  /\ Wrote(r, Put(r, kind, body), {[kind |-> kind, key |-> r.out, body |-> body]})
         /\ Put(r, kind, body).th = r.th
<1>1. PICK m : m = [kind |-> kind, key |-> r.out, body |-> body]
  OBVIOUS
<1>2. PICK q : q = [r EXCEPT !.sent = Append(@, m)]
  OBVIOUS
<1>3. q = Put(r, kind, body)
  BY <1>1, <1>2 DEF Put
<1>4. q.sent = Append(r.sent, m) /\ DOMAIN q = Fields
  BY <1>2 DEF Shape, Fields
<1>5. Adds(r.sent, q.sent, {m})
  <2> SUFFICES ASSUME NEW M, r.sent \in Seq(M) PROVE Append(r.sent, m) \in Seq(M \cup {m})
    BY <1>4 DEF Adds
  <2>1. PICK N : N = M \cup {m}
    OBVIOUS
  <2>2. r.sent \in Seq(N) /\ m \in N
    BY <2>1
  <2> QED
    BY <2>1, <2>2
<1>6. Same(r, q) /\ SameRest(r, q) /\ q.th = r.th
  BY <1>2 DEF Shape, Fields, Same, SameRest, SameOffer, SameNeg, SameAuth, SameKeys
<1>7. Shape(q)
  BY <1>4, <1>6 DEF Shape, Same, SameNeg
<1> QED
  BY <1>1, <1>3, <1>5, <1>6, <1>7 DEF Wrote

(* A message read adds an entry to the transcript and nothing else. *)
LEMMA HeardWrote ==
  ASSUME NEW r, Shape(r), NEW kind, NEW body
  PROVE  /\ Wrote(r, Heard(r, kind, body), {})
         /\ Heard(r, kind, body).th = Append(r.th, Entry(kind, body))
<1>1. PICK e : e = Entry(kind, body)
  OBVIOUS
<1>2. PICK q : q = [r EXCEPT !.th = Append(@, e)]
  OBVIOUS
<1>3. q = Heard(r, kind, body)
  BY <1>1, <1>2 DEF Heard
<1>4. /\ q.th = Append(r.th, e) /\ DOMAIN q = Fields /\ q.sent = r.sent
      /\ Same(r, q) /\ SameRest(r, q)
  BY <1>2 DEF Shape, Fields, Same, SameRest, SameOffer, SameNeg, SameAuth, SameKeys
<1>5. Shape(q)
  BY <1>4 DEF Shape, Same, SameNeg
<1>6. Adds(r.sent, q.sent, {})
  BY <1>4, AddsNone
<1> QED
  BY <1>1, <1>3, <1>4, <1>5, <1>6 DEF Wrote

(* Two writes in a row keep what one keeps. *)
LEMMA WroteMore ==
  ASSUME NEW r, NEW q, NEW x, NEW A, NEW B, Wrote(r, q, A), Wrote(q, x, B)
  PROVE  Wrote(r, x, A \cup B)
<1>1. Adds(r.sent, x.sent, A \cup B)
  BY AddsMore DEF Wrote
<1> QED
  BY <1>1 DEF Wrote, Same, SameRest, SameOffer, SameNeg, SameAuth, SameKeys

(* Says, SaysSigned and SaysFinished write one message and add one entry to the transcript. *)
Spoke(r, q, kind, body, m) ==
    /\ Wrote(r, q, {m}) /\ q.th = Append(r.th, Entry(kind, body))

(* writeHandshakeRecord sends a message and adds it to the transcript. *)
LEMMA SaysSpoke ==
  ASSUME NEW r, Shape(r), NEW kind, NEW body
  PROVE  Spoke(r, Says(r, kind, body), kind, body, [kind |-> kind, key |-> r.out, body |-> body])
<1>1. PICK q : q = Heard(r, kind, body)
  OBVIOUS
<1>2. Wrote(r, q, {}) /\ q.th = Append(r.th, Entry(kind, body))
  BY <1>1, HeardWrote
<1>3. Shape(q) /\ q.out = r.out
  BY <1>2 DEF Wrote, Same, SameKeys
<1>4. /\ Wrote(q, Put(q, kind, body), {[kind |-> kind, key |-> q.out, body |-> body]})
      /\ Put(q, kind, body).th = q.th
  BY <1>3, PutWrote
<1>5. Wrote(r, Put(q, kind, body), {} \cup {[kind |-> kind, key |-> q.out, body |-> body]})
  BY <1>2, <1>4, WroteMore
<1>6. {} \cup {[kind |-> kind, key |-> q.out, body |-> body]} = {[kind |-> kind, key |-> r.out, body |-> body]}
  BY <1>3
<1>7. Put(q, kind, body) = Says(r, kind, body)
  BY <1>1 DEF Says, Heard
<1> QED
  BY <1>2, <1>4, <1>5, <1>6, <1>7 DEF Spoke

(* CertificateVerify is sent with the transcript it signs; the transcript *)
(* takes its algorithm.                                                   *)
LEMMA SignedSpoke ==
  ASSUME NEW r, Shape(r), NEW alg, NEW th
  PROVE  Spoke(r, SaysSigned(r, alg, th), "CertificateVerify", alg,
               [kind |-> "CertificateVerify", key |-> r.out, body |-> [alg |-> alg, th |-> th]])
<1>1. PICK q : q = Heard(r, "CertificateVerify", alg)
  OBVIOUS
<1>2. Wrote(r, q, {}) /\ q.th = Append(r.th, Entry("CertificateVerify", alg))
  BY <1>1, HeardWrote
<1>3. Shape(q) /\ q.out = r.out
  BY <1>2 DEF Wrote, Same, SameKeys
<1> DEFINE body == [alg |-> alg, th |-> th]
           kind == "CertificateVerify"
<1> HIDE DEF body, kind
<1>4. /\ Wrote(q, Put(q, kind, body), {[kind |-> kind, key |-> q.out, body |-> body]})
      /\ Put(q, kind, body).th = q.th
  BY <1>3, PutWrote
<1>5. Wrote(r, Put(q, kind, body), {} \cup {[kind |-> kind, key |-> q.out, body |-> body]})
  BY <1>2, <1>4, WroteMore
<1>6. {} \cup {[kind |-> kind, key |-> q.out, body |-> body]} = {[kind |-> kind, key |-> r.out, body |-> body]}
  BY <1>3
<1>7. Put(q, kind, body) = SaysSigned(r, alg, th)
  BY <1>1 DEF SaysSigned, body, kind
<1> QED
  BY <1>2, <1>4, <1>5, <1>6, <1>7 DEF Spoke, body, kind

(* Finished is sent with the hash of the transcript under the key of the *)
(* write half.                                                           *)
LEMMA FinishedSpoke ==
  ASSUME NEW r, Shape(r)
  PROVE  Spoke(r, SaysFinished(r), "Finished", <<>>,
               [kind |-> "Finished", key |-> r.out, body |-> FinishedHash(r.out, r.th)])
<1>1. PICK q : q = Heard(r, "Finished", <<>>)
  OBVIOUS
<1>2. Wrote(r, q, {}) /\ q.th = Append(r.th, Entry("Finished", <<>>))
  BY <1>1, HeardWrote
<1>3. Shape(q) /\ q.out = r.out
  BY <1>2 DEF Wrote, Same, SameKeys
<1> DEFINE body == FinishedHash(r.out, r.th)
           kind == "Finished"
<1> HIDE DEF body, kind
<1>4. /\ Wrote(q, Put(q, kind, body), {[kind |-> kind, key |-> q.out, body |-> body]})
      /\ Put(q, kind, body).th = q.th
  BY <1>3, PutWrote
<1>5. Wrote(r, Put(q, kind, body), {} \cup {[kind |-> kind, key |-> q.out, body |-> body]})
  BY <1>2, <1>4, WroteMore
<1>6. {} \cup {[kind |-> kind, key |-> q.out, body |-> body]} = {[kind |-> kind, key |-> r.out, body |-> body]}
  BY <1>3
<1>7. Put(q, kind, body) = SaysFinished(r)
  BY <1>1 DEF SaysFinished, body, kind
<1> QED
  BY <1>2, <1>4, <1>5, <1>6, <1>7 DEF Spoke, body, kind

(* The handshake has failed with err, and has said so. *)
Failed(r, q, err) ==
    /\ Shape(q) /\ Same(r, q) /\ q.ticket = r.ticket /\ q.pc = "failed" /\ q.err = err
    /\ \E m : m.kind = "end" /\ Adds(r.sent, q.sent, {m})

(* A handshake that fails sends an alert, or closes, and keeps all that was *)
(* negotiated.                                                              *)
LEMMA FailFailed ==
  ASSUME NEW r, Shape(r), NEW err
  PROVE  Failed(r, FailWith(r, err), err)
<1>1. PICK m : m = [kind |-> "end", key |-> r.out, body |-> <<>>]
  OBVIOUS
<1>2. PICK x : x = Put(r, "end", <<>>)
  OBVIOUS
<1>3. Wrote(r, x, {m})
  BY <1>1, <1>2, PutWrote
<1>4. PICK q : q = [x EXCEPT !.pc = "failed", !.err = err]
  OBVIOUS
<1>5. q = FailWith(r, err)
  BY <1>2, <1>4 DEF FailWith
<1>6. /\ DOMAIN q = Fields /\ q.pc = "failed" /\ q.err = err /\ q.sent = x.sent /\ Same(x, q)
      /\ q.ticket = x.ticket
  BY <1>3, <1>4 DEF Wrote, Shape, Fields, Same, SameOffer, SameNeg, SameAuth, SameKeys
<1>7. Shape(q) /\ Same(r, q) /\ q.ticket = r.ticket
  BY <1>3, <1>6 DEF Wrote, Shape, Same, SameRest, SameOffer, SameNeg, SameAuth, SameKeys
<1>8. m.kind = "end" /\ Adds(r.sent, q.sent, {m})
  BY <1>1, <1>3, <1>6 DEF Wrote
<1> QED
  BY <1>5, <1>6, <1>7, <1>8 DEF Failed

(* VerifyConnection sees the same of two states that agree on what was *)
(* negotiated and on the certificates.                                 *)
LEMMA ViewSame ==
  ASSUME NEW r, NEW q, SameNeg(r, q), q.peerCert = r.peerCert, q.serverCert = r.serverCert,
         q.verified = r.verified
  PROVE  View(q) = View(r)
BY DEF View, SameNeg

(* VerifyConnection changes saw only. *)
Viewed(e, r, q) ==
    /\ Shape(q) /\ SameOffer(r, q) /\ SameNeg(r, q) /\ SameKeys(r, q) /\ SameRest(r, q)
    /\ q.peerCert = r.peerCert /\ q.serverCert = r.serverCert /\ q.verified = r.verified
    /\ q.th = r.th /\ q.sent = r.sent /\ q.clientFinished = r.clientFinished /\ q.resumption = r.resumption
    /\ cfg[e].verify # "nil" => q.saw = View(q)

(* VerifyConnection, if it is set, sees the connection as it is, and *)
(* changes nothing.                                                  *)
LEMMA VerifyViewed ==
  ASSUME NEW e, NEW r, Shape(r)
  PROVE  Viewed(e, r, VerifyConnection(e, r))
<1>1. CASE cfg[e].verify = "nil"
  BY <1>1 DEF VerifyConnection, Viewed, SameOffer, SameNeg, SameKeys, SameRest
<1>2. CASE cfg[e].verify # "nil"
  <2>1. PICK v : v = View(r)
    OBVIOUS
  <2>2. PICK q : q = [r EXCEPT !.saw = v]
    OBVIOUS
  <2>3. q = VerifyConnection(e, r)
    BY <1>2, <2>1, <2>2 DEF VerifyConnection
  <2>4. /\ DOMAIN q = Fields /\ q.saw = v /\ SameOffer(r, q) /\ SameNeg(r, q) /\ SameKeys(r, q)
        /\ SameRest(r, q)
        /\ q.peerCert = r.peerCert /\ q.serverCert = r.serverCert /\ q.verified = r.verified
        /\ q.th = r.th /\ q.sent = r.sent /\ q.clientFinished = r.clientFinished
        /\ q.resumption = r.resumption
    BY <2>2 DEF Shape, Fields, SameOffer, SameNeg, SameKeys, SameRest
  <2>5. Shape(q)
    BY <2>4 DEF Shape, SameNeg
  <2>6. View(q) = v
    BY <2>1, <2>4, ViewSame
  <2> QED
    BY <2>3, <2>4, <2>5, <2>6 DEF Viewed
<1> QED
  BY <1>1, <1>2

-----------------------------------------------------------------------------
(* The ClientHello on the wire. *)
ExtNames == {"serverName", "legacy", "earlyData", "quicTP", "ech", "curves", "sigs", "alpn", "versions",
             "keyShares", "pskModes", "psk"}
ExtsShape(x) == DOMAIN x = ExtNames /\ DOMAIN x.psk = {"label", "binder"}
HelloShape(m) == DOMAIN m = {"random", "sid", "suites", "x"} /\ ExtsShape(m.x)
WireShape(w) ==
    /\ DOMAIN w = {"random", "sid", "suites", "types", "outer", "x"} /\ ExtsShape(w.x)
    /\ w.x.ech.kind = "outer" => DOMAIN w.x.ech = {"kind", "encap", "payload"}

(* The extensions of a hello that has none. *)
LEMMA NoExtsShape ==
  /\ DOMAIN NoExts = ExtNames /\ ExtsShape(NoExts)
  /\ NoExts.psk = NoPSK /\ NoExts.serverName = "" /\ NoExts.earlyData = FALSE /\ NoExts.ech = NoECH
  /\ NoPSK.label = 0 /\ DOMAIN NoPSK = {"label", "binder"}
BY DEF NoExts, ExtNames, ExtsShape, NoPSK

(* marshal of a hello: what it keeps of the extensions that matter. *)
LEMMA MarshalKeeps ==
  ASSUME NEW m, HelloShape(m), NEW i \in BOOLEAN
  PROVE  LET w == Marshal(m, i) IN
         /\ DOMAIN w = {"random", "sid", "suites", "types", "outer", "x"} /\ ExtsShape(w.x)
         /\ w.x.psk \in {m.x.psk, NoPSK} /\ w.x.earlyData \in {m.x.earlyData, FALSE}
<1>1. PICK w : w = Marshal(m, i)
  OBVIOUS
<1>2. DOMAIN w = {"random", "sid", "suites", "types", "outer", "x"}
  BY <1>1 DEF Marshal
<1>3. w.x = [t \in DOMAIN NoExts |-> IF Emits(m, i, t) /\ ~(i /\ Contains(CompressedExts, t))
                                     THEN m.x[t] ELSE NoExts[t]]
  BY <1>1 DEF Marshal
<1>4. DOMAIN w.x = ExtNames /\ \A t \in ExtNames : w.x[t] \in {m.x[t], NoExts[t]}
  BY <1>3, NoExtsShape
<1>5. "psk" \in ExtNames /\ "earlyData" \in ExtNames
  BY DEF ExtNames
<1>6. w.x.psk \in {m.x.psk, NoPSK} /\ w.x.earlyData \in {m.x.earlyData, FALSE}
  BY <1>4, <1>5, NoExtsShape
<1>7. DOMAIN w.x.psk = {"label", "binder"}
  BY <1>6, NoExtsShape DEF HelloShape, ExtsShape
<1> QED
  BY <1>1, <1>2, <1>4, <1>6, <1>7 DEF ExtsShape

(* A hello that is not an inner one keeps them all, but an outer one has no pre_shared_key. *)
LEMMA MarshalPlain ==
  ASSUME NEW m, HelloShape(m)
  PROVE  LET w == Marshal(m, FALSE) IN
         /\ w.x.serverName = m.x.serverName /\ w.x.ech = m.x.ech /\ w.x.earlyData = m.x.earlyData
         /\ w.x.psk = IF m.x.ech.kind = "outer" THEN NoPSK ELSE m.x.psk
<1>1. PICK w : w = Marshal(m, FALSE)
  OBVIOUS
<1>2. w.x = [t \in DOMAIN NoExts |-> IF Emits(m, FALSE, t) THEN m.x[t] ELSE NoExts[t]]
  BY <1>1 DEF Marshal
<1>3. \A t \in ExtNames : w.x[t] = IF Emits(m, FALSE, t) THEN m.x[t] ELSE NoExts[t]
  BY <1>2, NoExtsShape
<1>4. \A t \in ExtNames : t # "psk" => w.x[t] = m.x[t]
  BY <1>3 DEF Emits
<1>5. w.x.serverName = m.x.serverName /\ w.x.ech = m.x.ech /\ w.x.earlyData = m.x.earlyData
  BY <1>4 DEF ExtNames
<1>6. w.x.psk = IF Emits(m, FALSE, "psk") THEN m.x.psk ELSE NoPSK
  BY <1>3, NoExtsShape DEF ExtNames
<1>7. w.x.psk = IF m.x.ech.kind = "outer" THEN NoPSK ELSE m.x.psk
  BY <1>6, NoExtsShape DEF Emits
<1> QED
  BY <1>1, <1>5, <1>7

(* What a transcript keeps of a hello. *)
LEMMA EntryKeeps ==
  ASSUME NEW w, WireShape(w)
  PROVE  LET e == HelloEntry(w) IN
         /\ e.kind = "ClientHello" /\ e.body.x.serverName = w.x.serverName
         /\ e.body.x.psk.label = w.x.psk.label /\ e.body.x.ech.kind = w.x.ech.kind
         /\ w.x.ech.kind # "outer" => e.body.x.ech = w.x.ech
<1>1. PICK d : d = WithoutBinders(w)
  OBVIOUS
<1>2. /\ DOMAIN d = DOMAIN w /\ DOMAIN d.x = ExtNames /\ d.x.serverName = w.x.serverName
      /\ d.x.ech = w.x.ech /\ d.x.psk.label = w.x.psk.label
  BY <1>1 DEF WithoutBinders, WireShape, ExtsShape, ExtNames
<1>3. HelloEntry(w).kind = "ClientHello" /\ HelloEntry(w).body = Digest(w)
  BY DEF HelloEntry, Entry
<1>4. CASE ~(w.x.ech.kind = "outer" /\ w.x.ech.payload.key # "none")
  <2>1. Digest(w) = d
    BY <1>1, <1>4 DEF Digest
  <2> QED
    BY <1>2, <1>3, <2>1
<1>5. CASE w.x.ech.kind = "outer" /\ w.x.ech.payload.key # "none"
  <2>1. PICK v : v = WithoutBinders(d.x.ech.payload.inner)
    OBVIOUS
  <2>2. PICK y : y = [d EXCEPT !.x.ech.payload.inner = v]
    OBVIOUS
  <2>3. Digest(w) = y
    BY <1>1, <1>5, <2>1, <2>2 DEF Digest
  <2>4. DOMAIN d.x.ech = {"kind", "encap", "payload"}
    BY <1>2, <1>5 DEF WireShape
  <2>5. /\ y.x.serverName = d.x.serverName /\ y.x.psk = d.x.psk /\ y.x.ech.kind = d.x.ech.kind
    BY <1>2, <2>2, <2>4 DEF WireShape, ExtNames
  <2> QED
    BY <1>2, <1>3, <1>5, <2>3, <2>5
<1> QED
  BY <1>4, <1>5

(* q is the hello m with b as its binder. *)
Bound(m, q, b) ==
    /\ HelloShape(q) /\ q.x.psk.label = m.x.psk.label /\ q.x.psk.binder = b
    /\ \A t \in ExtNames : t # "psk" => q.x[t] = m.x[t]
    /\ q.random = m.random /\ q.sid = m.sid /\ q.suites = m.suites

(* The binder takes the place of the one in the hello, and no other *)
(* extension changes.                                               *)
LEMMA BinderSet ==
  ASSUME NEW m, HelloShape(m), NEW psk, NEW th
  PROVE  Bound(m, WithBinder(m, psk, th), Binder(psk, Append(th, HelloEntry(Marshal(m, FALSE)))))
<1>1. PICK b : b = Binder(psk, Append(th, HelloEntry(Marshal(m, FALSE))))
  OBVIOUS
<1>2. PICK q : q = [m EXCEPT !.x.psk.binder = b]
  OBVIOUS
<1>3. q = WithBinder(m, psk, th)
  BY <1>1, <1>2 DEF WithBinder
<1>4. /\ DOMAIN q = DOMAIN m /\ DOMAIN q.x = DOMAIN m.x /\ DOMAIN q.x.psk = DOMAIN m.x.psk
      /\ q.x.psk.label = m.x.psk.label /\ q.x.psk.binder = b
      /\ q.random = m.random /\ q.sid = m.sid /\ q.suites = m.suites
      /\ \A t \in ExtNames : t # "psk" => q.x[t] = m.x[t]
  BY <1>2 DEF HelloShape, ExtsShape, ExtNames
<1> QED
  BY <1>1, <1>3, <1>4 DEF HelloShape, ExtsShape, Bound

(* The binder does not change what the transcript keeps of a hello. *)
LEMMA BinderEntry ==
  ASSUME NEW m, HelloShape(m), m.x.psk.label # 0, m.x.ech.kind # "outer", NEW psk, NEW th
  PROVE  HelloEntry(Marshal(WithBinder(m, psk, th), FALSE)) = HelloEntry(Marshal(m, FALSE))
<1>1. PICK q : q = WithBinder(m, psk, th)
  OBVIOUS
<1>2. /\ HelloShape(q) /\ q.x.psk.label = m.x.psk.label
      /\ \A t \in ExtNames : t # "psk" => q.x[t] = m.x[t]
      /\ q.random = m.random /\ q.sid = m.sid /\ q.suites = m.suites
  <2>1. Bound(m, WithBinder(m, psk, th), Binder(psk, Append(th, HelloEntry(Marshal(m, FALSE)))))
    BY BinderSet
  <2>2. PICK b : Bound(m, q, b)
    BY <1>1, <2>1
  <2> QED
    BY <2>2 DEF Bound
<1>3. q.x.ech = m.x.ech
  BY <1>2 DEF ExtNames
<1>4. q.x.psk # NoPSK /\ m.x.psk # NoPSK
  BY <1>2, NoExtsShape
<1> DEFINE E(r) == {t \in DOMAIN NoExts : Emits(r, FALSE, t)}
<1>5. ASSUME NEW t \in ExtNames PROVE Emits(q, FALSE, t) <=> Emits(m, FALSE, t)
  <2>1. CASE t = "psk"
    BY <1>3, <1>4, <2>1, NoExtsShape DEF Emits
  <2>2. CASE t # "psk"
    BY <1>2, <2>2 DEF Emits
  <2> QED
    BY <2>1, <2>2
<1>6. E(q) = E(m)
  BY <1>5, NoExtsShape
<1>7. PICK S : S = E(m) /\ S = E(q)
  BY <1>6
<1>8. PICK u : u = Marshal(q, FALSE)
  OBVIOUS
<1>9. PICK v : v = Marshal(m, FALSE)
  OBVIOUS
<1> DEFINE block == InOrder(CompressedExts, S)
           types == InOrder(PlainExts, S) \o block \o InOrder(<<"psk">>, S)
           X(r) == [t \in DOMAIN NoExts |-> IF t \in S THEN r.x[t] ELSE NoExts[t]]
<1>10. u = [random |-> q.random, sid |-> q.sid, suites |-> q.suites, types |-> types, outer |-> <<>>, x |-> X(q)]
  BY <1>7, <1>8 DEF Marshal
<1>11. v = [random |-> m.random, sid |-> m.sid, suites |-> m.suites, types |-> types, outer |-> <<>>, x |-> X(m)]
  BY <1>7, <1>9 DEF Marshal
<1> HIDE DEF E, block, types
<1>12. "psk" \in S
  BY <1>4, <1>7, NoExtsShape DEF E, Emits, ExtNames
<1>13. u.x.psk = q.x.psk /\ v.x.psk = m.x.psk
  BY <1>10, <1>11, <1>12, NoExtsShape DEF ExtNames
<1>14. /\ DOMAIN u.x = ExtNames /\ DOMAIN v.x = ExtNames
       /\ \A t \in ExtNames : t # "psk" => u.x[t] = v.x[t]
  BY <1>2, <1>10, <1>11, NoExtsShape
<1>15. WithoutBinders(u) = WithoutBinders(v)
  <2>1. [u.x.psk EXCEPT !.binder = NoBinder] = [v.x.psk EXCEPT !.binder = NoBinder]
    BY <1>2, <1>13 DEF HelloShape, ExtsShape
  <2>2. PICK p : p = [u.x.psk EXCEPT !.binder = NoBinder] /\ p = [v.x.psk EXCEPT !.binder = NoBinder]
    BY <2>1
  <2>3. [u.x EXCEPT !.psk = p] = [v.x EXCEPT !.psk = p]
    BY <1>14
  <2>4. PICK z : z = [u.x EXCEPT !.psk = p] /\ z = [v.x EXCEPT !.psk = p]
    BY <2>3
  <2>5. [u EXCEPT !.x = z] = [v EXCEPT !.x = z]
    BY <1>2, <1>10, <1>11
  <2>6. WithoutBinders(u) = [u EXCEPT !.x = z] /\ WithoutBinders(v) = [v EXCEPT !.x = z]
    BY <2>2, <2>4 DEF WithoutBinders
  <2> QED
    BY <2>5, <2>6
<1>16. u.x.ech.kind # "outer" /\ v.x.ech.kind # "outer"
  BY <1>1, <1>2, <1>3, <1>8, <1>9, MarshalPlain
<1>17. Digest(u) = WithoutBinders(u) /\ Digest(v) = WithoutBinders(v)
  BY <1>16 DEF Digest
<1>18. HelloEntry(u) = HelloEntry(v)
  BY <1>15, <1>17 DEF HelloEntry
<1> QED
  BY <1>1, <1>8, <1>9, <1>18

(* q is the outer hello with inner sealed in its encrypted_client_hello. *)
SealedIn(outer, q, inner) ==
    /\ HelloShape(q) /\ \A t \in ExtNames : t # "ech" => q.x[t] = outer.x[t]
    /\ q.x.ech.kind = "outer" /\ DOMAIN q.x.ech = {"kind", "encap", "payload"}
    /\ q.x.ech.payload.inner = Marshal(inner, TRUE)

(* The outer hello keeps its extensions; its encrypted_client_hello holds *)
(* the encoded inner hello.                                               *)
LEMMA SealKeeps ==
  ASSUME NEW outer, NEW inner, HelloShape(outer), NEW key, NEW n, NEW seq
  PROVE  SealedIn(outer, Seal(outer, inner, key, n, seq), inner)
<1> DEFINE aad == Marshal([outer EXCEPT !.x.ech = OuterECH(seq = 0, NoPayload)], FALSE)
           enc == Marshal(inner, TRUE)
<1>1. PICK a : a = aad
  OBVIOUS
<1>2. PICK i : i = enc
  OBVIOUS
<1>3. PICK p : p = [key |-> key, conn |-> n, seq |-> seq, aad |-> a, inner |-> i]
  OBVIOUS
<1>4. PICK e : e = OuterECH(seq = 0, p)
  OBVIOUS
<1>5. e.kind = "outer" /\ DOMAIN e = {"kind", "encap", "payload"} /\ e.payload.inner = i
  BY <1>3, <1>4 DEF OuterECH
<1>6. PICK q : q = [outer EXCEPT !.x.ech = e]
  OBVIOUS
<1>7. q = Seal(outer, inner, key, n, seq)
  BY <1>1, <1>2, <1>3, <1>4, <1>6 DEF Seal
<1>8. /\ DOMAIN q = DOMAIN outer /\ DOMAIN q.x = DOMAIN outer.x /\ q.x.ech = e
      /\ \A t \in ExtNames : t # "ech" => q.x[t] = outer.x[t]
  BY <1>6 DEF HelloShape, ExtsShape, ExtNames
<1>9. q.x.psk = outer.x.psk
  BY <1>8 DEF ExtNames
<1> QED
  BY <1>2, <1>5, <1>7, <1>8, <1>9 DEF HelloShape, ExtsShape, SealedIn

-----------------------------------------------------------------------------
(* The invariant. *)

(* A label is that of no ticket or of one that was issued. *)
Issued(label, sd)  == label \in 1..MaxConns /\ sd[label] # NoSession
LabelOK(label, sd) == label = 0 \/ Issued(label, sd)

(* The early data key is derived from the transcript that the binder is *)
(* over, unless a HelloRetryRequest came first.                         *)
EarlyOK(flags, psk, key) ==
    TRUE \in flags /\ psk.label # 0 /\ Len(psk.binder.th) = 1 =>
       key = DeriveSecret("early", "client", psk.binder.secret, psk.binder.th)
(* The inner hello in the payload of an outer one. *)
EncShape(enc) == DOMAIN enc = {"random", "sid", "suites", "types", "outer", "x"} /\ ExtsShape(enc.x)
OuterOK(x, key, sd) ==
    x.ech.kind = "outer" =>
       LET enc == x.ech.payload.inner IN
       /\ DOMAIN x.ech = {"kind", "encap", "payload"}
       /\ EncShape(enc) /\ LabelOK(enc.x.psk.label, sd)
       /\ EarlyOK({x.earlyData, enc.x.earlyData}, enc.x.psk, key)
(* A hello of the client, before it is marshalled and on the wire. *)
HelloOK(m, session, sd) ==
    HelloShape(m) /\ LabelOK(m.x.psk.label, sd) /\ (m.x.psk.label # 0 => session # NoSession)
WireOK(w, key, sd) ==
    /\ WireShape(w) /\ LabelOK(w.x.psk.label, sd) /\ EarlyOK({w.x.earlyData}, w.x.psk, key)
    /\ OuterOK(w.x, key, sd) /\ (w.x.ech.kind = "outer" => w.x.psk = NoPSK)

(* A message of the client, and all that are under way. *)
ClientMsg(m, c, cf, sd) ==
    \/ m.kind = "end"
    \/ /\ c.pc # "start"
       /\ m.kind = "ClientHello" =>
             /\ WireOK(m.body, c.earlyKey, sd)
             /\ cf.client.ech # "none" => m.body.x.serverName = "public" /\ m.body.x.psk = NoPSK
       /\ m.kind = "Certificate" /\ m.body # "none" => c.ech \in {"none", "accepted"}
       /\ m.kind = "Finished" => c.pc = "complete" \/ c.err = "ECHRejectionError"
ClientSent(c, cf, sd) == \E M : c.sent \in Seq(M) /\ \A m \in M : ClientMsg(m, c, cf, sd)

(* The server before and after its flight. *)
ServerBusy  == {"clientHello", "clientHello2"}
ServerFlown == {"clientCert", "certVerify", "clientFinished", "complete", "failed"}

(* The transcript H that the handshake keys are derived from. *)
SaysHello(r, H) ==
    /\ IsTh(H) /\ Len(H) >= 2 /\ H[Len(H)].body.suite = r.suite /\ H[Len(H)].body.group = r.group
    /\ H[Len(H)].body.psk = r.resumed
ServerTh(s, H) ==
    LET h == H[Len(H) - 1] IN
    /\ SaysHello(s, H)
    /\ (H[Len(H)].body.conf.label = "sh") => s.echAccepted
    /\ h.kind = "ClientHello" /\ h.body.x.serverName = s.serverName
    /\ (Len(H) = 2) <=> ~s.didHRR
    /\ s.echAccepted => h.body.x.ech = InnerECH
    /\ s.resumed => h.body.x.psk.label # 0
SaysParams(r, H, th) ==
    /\ IsTh(th) /\ Len(th) > Len(H)
    /\ th[Len(H) + 1].body.proto = r.proto /\ th[Len(H) + 1].body.early = r.early
(* What the server's Finished says of the server. *)
FlightOK(b, s) ==
    LET H == b.secret.th
        th == Append(b.th, Entry("Finished", <<>>))
    IN  /\ b.secret.secret = s.secret /\ ServerTh(s, H) /\ SaysParams(s, H, b.th)
        /\ s.ekm = DeriveSecret("exporter", "both", s.secret, th)
        /\ s.out = ApplicationKey("server", s.secret, th)
        /\ s.trafficSecret = ApplicationKey("client", s.secret, th)
AnswerShape(sh) == DOMAIN sh = {"retry", "sid", "suite", "group", "psk", "conf"} /\ sh.psk \in BOOLEAN
(* A message of the server, and all that are under way. *)
ServerMsg(m, s, n) ==
    \/ m.kind = "end"
    \/ /\ s.pc # "clientHello"
       /\ m.kind = "ServerHello" => AnswerShape(m.body) /\ (m.body.conf # NoConf => s.echAccepted)
       /\ m.kind = "Finished" => s.pc \in ServerFlown /\ FlightOK(m.body, s)
       /\ m.kind = "NewSessionTicket" => s.ticket # NoSession /\ m.body.label = n
ServerSent(s, n) == \E M : s.sent \in Seq(M) /\ \A m \in M : ServerMsg(m, s, n)

(* The client. *)
NoRetry(c) == c.didHRR = FALSE /\ c.echAccepted = FALSE
AfterRetry(c) ==
    /\ c.didHRR = TRUE /\ IsTh(c.th) /\ Len(c.th) = 3 /\ c.th[3] = HelloEntry(Marshal(c.hello, FALSE))
    /\ c.ech # "none" =>
          /\ IsTh(c.innerTh)
          /\ c.echAccepted => Len(c.innerTh) = 3 /\ c.innerTh[3] = HelloEntry(Marshal(c.inner, FALSE))
          /\ ~c.echAccepted => Len(c.innerTh) = 2 /\ c.innerTh[2].kind = "ServerHello"
SessionOK(c, cf) == c.session # NoSession =>
    cf.client.insecure \/ (c.session.verified /\ "secret" \in c.session.cert.names)
OffersPlain(c, sd) ==
    /\ c.ech = "none" /\ c.hello.x.ech = NoECH /\ c.echAccepted = FALSE
    /\ c.hello.x.serverName = "secret" /\ c.serverName = "secret"
OffersECH(c, sd) ==
    /\ c.ech = "offered" /\ c.hello.x.ech.kind = "outer" /\ c.hello.x.serverName = "public"
    /\ HelloOK(c.inner, c.session, sd) /\ c.inner.x.serverName = "secret" /\ c.inner.x.ech = InnerECH
    /\ c.serverName = IF c.echAccepted THEN "secret" ELSE "public"
Offers(c, cf, sd) ==
    /\ c.resumed = FALSE /\ HelloOK(c.hello, c.session, sd) /\ OuterOK(c.hello.x, c.earlyKey, sd)
    /\ IF cf.client.ech = "none" THEN OffersPlain(c, sd) ELSE OffersECH(c, sd)
    /\ NoRetry(c) \/ AfterRetry(c)
ClientTh(c, H) ==
    LET h == H[Len(H) - 1] IN
    /\ SaysHello(c, H)
    /\ c.ech = "accepted" => H[Len(H)].body.conf.label = "sh"
    /\ h.kind = "ClientHello" =>
          /\ (Len(H) = 2) <=> ~c.didHRR
          /\ c.ech # "rejected" => h.body.x.serverName = c.serverName
          /\ c.ech = "none" => h.body.x.ech = NoECH
          /\ c.ech = "rejected" => h.body.x.ech.kind = "outer" /\ h.body.x.psk.label = 0
Keyed(c) ==
    /\ c.in.secret = c.secret /\ ClientTh(c, c.in.th)
    /\ IF c.pc = "params" THEN c.th = c.in.th ELSE SaysParams(c, c.in.th, c.th)
    /\ c.resumed => c.session # NoSession /\ c.serverCert = c.session.cert /\ c.verified = c.session.verified
ECHSettled(c, cf) ==
    /\ IF cf.client.ech = "none" THEN c.ech = "none" ELSE c.ech \in {"accepted", "rejected"}
    /\ c.ech = "accepted" => c.echAccepted
    /\ c.ech = "none" => ~c.echAccepted
    /\ c.ech # "none" /\ ~c.echAccepted => c.serverName = "public"
ServerTrusted(c, cf) ==
    IF c.ech = "none" \/ c.echAccepted
    THEN /\ cf.client.insecure \/ (c.verified /\ "secret" \in c.serverCert.names)
         /\ cf.client.verify # "nil" => c.saw = View(c)
    ELSE ~c.resumed /\ cf.client.rejection = "nil" =>
            c.serverCert.trusted /\ "public" \in c.serverCert.names
ClientStates == {"start", "serverHello", "params", "certificate", "certVerify", "finished", "complete", "failed"}
ClientKeyed  == {"params", "certificate", "certVerify", "finished"}
ClientInv(c, cf, sd) ==
    /\ c.pc \in ClientStates /\ SessionOK(c, cf) /\ (cf.client.ech = "none" => c.ech = "none")
    /\ c.pc = "start" => NoRetry(c) /\ c.resumed = FALSE
    /\ c.pc = "serverHello" => Offers(c, cf, sd)
    /\ c.pc \in ClientKeyed => Keyed(c)
    /\ c.pc \in ClientKeyed \cup {"complete"} => ECHSettled(c, cf)
    /\ c.pc \in {"certVerify", "finished", "complete"} => ServerTrusted(c, cf)
    /\ c.pc \in {"certificate", "certVerify"} => c.resumed = FALSE
    /\ c.pc = "complete" => c.ech # "rejected"
    /\ c.err = "ECHRejectionError" => c.pc = "failed" /\ (cf.client.rejection = "nil" =>
           c.serverCert.trusted /\ "public" \in c.serverCert.names)

(* The server. *)
Policy(s, cf) ==
    /\ cf.server.auth = 0 => s.peerCert = "none"
    /\ cf.server.auth \in {2, 4} => s.peerCert # "none"
    /\ cf.server.auth >= 3 /\ s.peerCert # "none" => s.peerCert \in cf.server.cas /\ s.verified
Authorized(s, cf) == Policy(s, cf) /\ (cf.server.verify # "nil" => s.saw = View(s))
Greets(s) ==
    /\ s.resumed = FALSE /\ s.earlyKey = NoKey /\ s.didHRR = FALSE /\ IsTh(s.th)
    /\ s.pc = "clientHello" => s.th = <<>>
    /\ s.pc = "clientHello2" => Len(s.th) = 2
ServerInv(s, cf, pr) ==
    /\ s.pc \in ServerBusy \cup ServerFlown
    /\ s.pc \in ServerBusy => Greets(s)
    /\ s.pc \in ServerBusy \cup {"clientCert"} => s.peerCert = "none"
    /\ s.pc = "clientCert" => cf.server.auth # 0
    /\ s.pc \in ServerBusy \cup {"clientCert", "certVerify"} => s.ticket = NoSession
    /\ s.pc \in {"certVerify", "clientFinished", "complete"} => Authorized(s, cf)
    /\ s.pc \in {"clientFinished", "complete"} => s.peerCert \in pr \cup {"none"}
    /\ s.pc = "complete" => s.in = s.trafficSecret

(* The ticket of this connection is the one that was issued. *)
TicketKept(s, n, sd) == s.ticket # NoSession => sd[n] = s.ticket

(* What links the two ends. *)
Agreed(c, s) == Outcome(c) = Outcome(s) /\ c.in = s.out /\ c.out = s.trafficSecret
Link(c, s) ==
    /\ c.echAccepted => s.echAccepted /\ s.pc # "clientHello"
    /\ s.earlyKey # NoKey => s.earlyKey = c.earlyKey /\ c.pc # "start"
    /\ c.pc = "complete" => s.pc \in ServerFlown /\ Agreed(c, s)
    /\ s.pc = "complete" => c.pc = "complete" \/ c.err = "ECHRejectionError"

(* The tickets, the cache, the Configs, and the invariant. *)
SealedOK(sd, pr) == /\ DOMAIN sd = 1..MaxConns
                    /\ \A n \in 1..MaxConns : sd[n] # NoSession => sd[n].cert \in pr \cup {"none"}
CacheOK(ca, sd) == ca # NoSession => Issued(ca.label, sd)
CfgOK(cf) == cf \in [client : ClientCfgs, server : ServerCfgs, quic : Transports]
Open(c, s, cf, n, sd, pr) ==
    /\ n \in 1..MaxConns /\ CfgOK(cf) /\ Shape(c) /\ Shape(s)
    /\ ClientSent(c, cf, sd) /\ ServerSent(s, n)
    /\ ClientInv(c, cf, sd) /\ ServerInv(s, cf, pr) /\ Link(c, s)
    /\ TicketKept(s, n, sd)
Inv ==
    /\ DOMAIN st = Ends /\ conn \in Nat /\ SealedOK(sealed, proved) /\ CacheOK(cache, sealed)
    /\ st = ClosedEnds \/ Open(st.client, st.server, cfg, conn, sealed, proved)

-----------------------------------------------------------------------------
(* A good hello is good on the wire. *)
LEMMA MarshalGood ==
  ASSUME NEW m, NEW key, NEW sd, HelloShape(m), LabelOK(m.x.psk.label, sd), OuterOK(m.x, key, sd),
         m.x.ech.kind = "outer" \/ EarlyOK({m.x.earlyData}, m.x.psk, key)
  PROVE  WireOK(Marshal(m, FALSE), key, sd)
<1>1. PICK w : w = Marshal(m, FALSE)
  OBVIOUS
<1>2. DOMAIN w = {"random", "sid", "suites", "types", "outer", "x"} /\ ExtsShape(w.x)
  BY <1>1, MarshalKeeps
<1>3. /\ w.x.ech = m.x.ech /\ w.x.earlyData = m.x.earlyData
      /\ w.x.psk = IF m.x.ech.kind = "outer" THEN NoPSK ELSE m.x.psk
  BY <1>1, MarshalPlain
<1>4. WireShape(w)
  BY <1>2, <1>3 DEF WireShape, OuterOK
<1>5. LabelOK(w.x.psk.label, sd) /\ (w.x.ech.kind = "outer" => w.x.psk = NoPSK)
  BY <1>3, NoExtsShape DEF LabelOK
<1>6. EarlyOK({w.x.earlyData}, w.x.psk, key)
  BY ZenonT(40), <1>3, NoExtsShape DEF EarlyOK
<1>7. OuterOK(w.x, key, sd)
  BY <1>3 DEF OuterOK
<1> QED
  BY <1>1, <1>4, <1>5, <1>6, <1>7 DEF WireOK

(* The payload of an outer hello is good if the inner hello is. *)
LEMMA SealGood ==
  ASSUME NEW outer, NEW inner, NEW q, SealedIn(outer, q, inner), HelloShape(outer), HelloShape(inner), NEW key,
         NEW sd, LabelOK(inner.x.psk.label, sd),
         EarlyOK({outer.x.earlyData, inner.x.earlyData}, inner.x.psk, key)
  PROVE  OuterOK(q.x, key, sd)
<1>1. PICK enc : enc = Marshal(inner, TRUE)
  OBVIOUS
<1>2. /\ DOMAIN enc = {"random", "sid", "suites", "types", "outer", "x"} /\ ExtsShape(enc.x)
      /\ enc.x.psk \in {inner.x.psk, NoPSK} /\ enc.x.earlyData \in {inner.x.earlyData, FALSE}
  BY <1>1, MarshalKeeps
<1>3. LabelOK(enc.x.psk.label, sd)
  BY <1>2, NoExtsShape DEF LabelOK
<1>4. q.x.earlyData = outer.x.earlyData
  BY DEF SealedIn, ExtNames
<1>5. TRUE \in {q.x.earlyData, enc.x.earlyData} => TRUE \in {outer.x.earlyData, inner.x.earlyData}
  BY <1>2, <1>4
<1>6. EarlyOK({q.x.earlyData, enc.x.earlyData}, enc.x.psk, key)
  BY <1>2, <1>5, NoExtsShape DEF EarlyOK
<1> QED
  BY <1>1, <1>2, <1>3, <1>6 DEF OuterOK, SealedIn, EncShape

(* The hello the server goes by, the one that came or the one in its ECH extension. *)
HelloIs(h, w, key, sd) ==
    /\ WireShape(h) /\ LabelOK(h.x.psk.label, sd) /\ EarlyOK({h.x.earlyData}, h.x.psk, key)

(* decodeInnerClientHello of a good payload gives a hello with an issued *)
(* ticket, or none, and the binder the client made, though earlyData may *)
(* come from the outer hello.                                            *)
LEMMA DecodeGood ==
  ASSUME NEW w, NEW key, NEW sd, WireOK(w, key, sd), w.x.ech.kind = "outer",
         DecodeInner(w).x.ech = InnerECH
  PROVE  HelloIs(DecodeInner(w), w, key, sd)
<1>1. PICK enc : enc = w.x.ech.payload.inner
  BY Zenon
<1>2. EncShape(enc) /\ LabelOK(enc.x.psk.label, sd) /\ EarlyOK({w.x.earlyData, enc.x.earlyData}, enc.x.psk, key)
  BY SMTT(30), <1>1 DEF WireOK, OuterOK
<1>3. PICK h : h = DecodeInner(w)
  BY Zenon
<1>4. PICK copied : copied = ToSet(enc.outer)
  BY Zenon
<1>5. /\ DOMAIN h = DOMAIN enc
      /\ h.x = [t \in DOMAIN NoExts |-> IF t \in copied THEN w.x[t] ELSE enc.x[t]]
  BY <1>1, <1>2, <1>3, <1>4 DEF DecodeInner, EncShape
<1>6. DOMAIN h.x = ExtNames /\ h.x.psk \in {w.x.psk, enc.x.psk} /\ h.x.earlyData \in {w.x.earlyData, enc.x.earlyData}
  BY <1>5, NoExtsShape DEF ExtNames
<1>7. WireShape(h)
  BY <1>2, <1>3, <1>5, <1>6 DEF EncShape, WireShape, ExtsShape, WireOK, InnerECH
<1>8. LabelOK(h.x.psk.label, sd)
  BY <1>2, <1>6 DEF WireOK
<1>9. EarlyOK({h.x.earlyData}, h.x.psk, key)
  BY <1>2, <1>6, NoExtsShape DEF WireOK, EarlyOK
<1> QED
  BY <1>3, <1>7, <1>8, <1>9 DEF HelloIs

-----------------------------------------------------------------------------
(* A step of an end in what it leaves alone. *)

Grows(sd, sd1) == \A n \in 1..MaxConns : sd[n] # NoSession => sd1[n] # NoSession

(* A ticket that was issued stays so. *)
LEMMA LabelGrows ==
  ASSUME NEW sd, NEW sd1, Grows(sd, sd1), NEW label, LabelOK(label, sd)
  PROVE  LabelOK(label, sd1)
BY DEF Grows, LabelOK, Issued

(* A good payload stays good when tickets are issued. *)
LEMMA OuterGrows ==
  ASSUME NEW sd, NEW sd1, Grows(sd, sd1), NEW x, NEW key, OuterOK(x, key, sd)
  PROVE  OuterOK(x, key, sd1)
BY LabelGrows DEF OuterOK

(* A good hello stays good when tickets are issued. *)
LEMMA HelloGrows ==
  ASSUME NEW sd, NEW sd1, Grows(sd, sd1), NEW m, NEW session, HelloOK(m, session, sd)
  PROVE  HelloOK(m, session, sd1)
BY LabelGrows DEF HelloOK

(* A good message of the client stays good when tickets are issued. *)
LEMMA ClientMsgGrows ==
  ASSUME NEW sd, NEW sd1, Grows(sd, sd1), NEW m, NEW c, NEW cf, ClientMsg(m, c, cf, sd)
  PROVE  ClientMsg(m, c, cf, sd1)
<1>1. WireOK(m.body, c.earlyKey, sd) => WireOK(m.body, c.earlyKey, sd1)
  BY LabelGrows, OuterGrows DEF WireOK
<1> QED
  BY <1>1 DEF ClientMsg

(* What c has said is still true of q. *)
ClientFirm(c, q) ==
    c.pc # "start" =>
       /\ q.pc # "start" /\ q.earlyKey = c.earlyKey
       /\ c.ech \in {"none", "accepted"} => q.ech = c.ech
       /\ c.pc = "complete" => q.pc = "complete"
       /\ c.err = "ECHRejectionError" => q.err = "ECHRejectionError"

(* A message of the client stays good while the client holds to what it *)
(* said.                                                                *)
LEMMA ClientMsgFirm ==
  ASSUME NEW m, NEW c, NEW q, NEW cf, NEW sd, ClientMsg(m, c, cf, sd), ClientFirm(c, q)
  PROVE  ClientMsg(m, q, cf, sd)
BY DEF ClientMsg, ClientFirm

(* What the client has under way is good if what it adds is. *)
LEMMA ClientSentMore ==
  ASSUME NEW c, NEW q, NEW cf, NEW sd, ClientSent(c, cf, sd), ClientFirm(c, q),
         NEW A, Adds(c.sent, q.sent, A), \A m \in A : ClientMsg(m, q, cf, sd)
  PROVE  ClientSent(q, cf, sd)
<1>1. PICK M : c.sent \in Seq(M) /\ \A m \in M : ClientMsg(m, c, cf, sd)
  BY DEF ClientSent
<1>2. q.sent \in Seq(M \cup A)
  BY <1>1 DEF Adds
<1>3. \A m \in M \cup A : ClientMsg(m, q, cf, sd)
  BY <1>1, ClientMsgFirm
<1> QED
  BY <1>2, <1>3 DEF ClientSent

(* Reading the first of the client's messages leaves the others good. *)
LEMMA ClientSentTail ==
  ASSUME NEW c, NEW q, NEW cf, NEW sd, NEW sd1, ClientSent(c, cf, sd), Grows(sd, sd1), ClientFirm(c, q),
         c.sent # <<>>, q.sent = Tail(c.sent)
  PROVE  ClientSent(q, cf, sd1)
<1>1. PICK M : c.sent \in Seq(M) /\ \A m \in M : ClientMsg(m, c, cf, sd)
  BY DEF ClientSent
<1>2. q.sent \in Seq(M)
  BY <1>1
<1>3. \A m \in M : ClientMsg(m, q, cf, sd1)
  BY SMTT(30), <1>1, ClientMsgFirm, ClientMsgGrows
<1> QED
  BY <1>2, <1>3 DEF ClientSent

(* What s has said is still true of q. *)
ServerFirm(s, q) ==
    s.pc # "clientHello" =>
       /\ q.pc # "clientHello" /\ (s.echAccepted => q.echAccepted)
       /\ s.pc \in ServerFlown =>
             /\ q.pc \in ServerFlown /\ SameNeg(s, q) /\ q.secret = s.secret /\ q.ekm = s.ekm
             /\ q.out = s.out /\ q.trafficSecret = s.trafficSecret
       /\ s.ticket # NoSession => q.ticket # NoSession

(* A message of the server stays good while the server holds to what it *)
(* said.                                                                *)
LEMMA ServerMsgFirm ==
  ASSUME NEW m, NEW s, NEW q, NEW n, ServerMsg(m, s, n), ServerFirm(s, q)
  PROVE  ServerMsg(m, q, n)
<1>1. ASSUME m.kind = "Finished", s.pc # "clientHello", s.pc \in ServerFlown, FlightOK(m.body, s)
      PROVE  FlightOK(m.body, q)
  BY <1>1 DEF ServerFirm, FlightOK, ServerTh, SaysHello, SaysParams, SameNeg
<1> QED
  BY SMTT(30), <1>1 DEF ServerMsg, ServerFirm

(* What the server has under way is good if what it adds is. *)
LEMMA ServerSentMore ==
  ASSUME NEW s, NEW q, NEW n, ServerSent(s, n), ServerFirm(s, q),
         NEW A, Adds(s.sent, q.sent, A), \A m \in A : ServerMsg(m, q, n)
  PROVE  ServerSent(q, n)
<1>1. PICK M : s.sent \in Seq(M) /\ \A m \in M : ServerMsg(m, s, n)
  BY DEF ServerSent
<1>2. q.sent \in Seq(M \cup A)
  BY <1>1 DEF Adds
<1>3. \A m \in M \cup A : ServerMsg(m, q, n)
  BY <1>1, ServerMsgFirm
<1> QED
  BY <1>2, <1>3 DEF ServerSent

(* Reading the first of the server's messages leaves the others good. *)
LEMMA ServerSentTail ==
  ASSUME NEW s, NEW q, NEW n, ServerSent(s, n), ServerFirm(s, q), s.sent # <<>>, q.sent = Tail(s.sent)
  PROVE  ServerSent(q, n)
<1>1. PICK M : s.sent \in Seq(M) /\ \A m \in M : ServerMsg(m, s, n)
  BY DEF ServerSent
<1>2. q.sent \in Seq(M)
  BY <1>1
<1>3. \A m \in M : ServerMsg(m, q, n)
  BY <1>1, ServerMsgFirm
<1> QED
  BY <1>2, <1>3 DEF ServerSent

(* Only what is under way has changed. *)
Stays(r, q) == Shape(q) /\ Same(r, q) /\ SameRest(r, q) /\ q.th = r.th

(* Taking a message from the wire changes nothing else of the end that *)
(* wrote it.                                                           *)
LEMMA SentStays ==
  ASSUME NEW r, Shape(r), NEW sent, NEW q, q = [r EXCEPT !.sent = sent]
  PROVE  Stays(r, q) /\ q.sent = sent
<1>1. /\ DOMAIN q = Fields /\ q.sent = sent /\ q.th = r.th /\ Same(r, q) /\ SameRest(r, q)
  BY DEF Shape, Fields, Same, SameRest, SameOffer, SameNeg, SameAuth, SameKeys
<1> QED
  BY <1>1 DEF Stays, Shape, Same, SameNeg

(* The client's invariant is not about its wire. *)
LEMMA ClientStays ==
  ASSUME NEW c, NEW q, NEW cf, NEW sd, NEW sd1, Stays(c, q), Grows(sd, sd1), ClientInv(c, cf, sd)
  PROVE  ClientInv(q, cf, sd1) /\ ClientFirm(c, q)
<1>1. View(q) = View(c)
  BY ViewSame DEF Stays, Same, SameAuth
<1>2. /\ q.pc = c.pc /\ q.err = c.err /\ q.session = c.session /\ q.ech = c.ech /\ q.earlyKey = c.earlyKey
      /\ q.resumed = c.resumed /\ q.hello = c.hello /\ q.inner = c.inner /\ q.th = c.th /\ q.innerTh = c.innerTh
      /\ q.didHRR = c.didHRR /\ q.echAccepted = c.echAccepted /\ q.serverName = c.serverName
      /\ q.in = c.in /\ q.secret = c.secret /\ q.suite = c.suite /\ q.group = c.group /\ q.proto = c.proto
      /\ q.early = c.early /\ q.serverCert = c.serverCert /\ q.verified = c.verified /\ q.saw = c.saw
  BY DEF Stays, Same, SameRest, SameOffer, SameNeg, SameAuth, SameKeys
<1>3. Offers(c, cf, sd) => Offers(q, cf, sd1)
  <2>1. NoRetry(c) \/ AfterRetry(c) => NoRetry(q) \/ AfterRetry(q)
    BY <1>2 DEF NoRetry, AfterRetry
  <2>2. OffersPlain(c, sd) => OffersPlain(q, sd1)
    BY <1>2 DEF OffersPlain
  <2>3. OffersECH(c, sd) => OffersECH(q, sd1)
    BY <1>2, HelloGrows DEF OffersECH
  <2> QED
    BY <1>2, <2>1, <2>2, <2>3, HelloGrows, OuterGrows DEF Offers
<1>4. Keyed(c) => Keyed(q)
  BY <1>2 DEF Keyed, ClientTh, SaysHello, SaysParams
<1>5. ECHSettled(c, cf) => ECHSettled(q, cf)
  BY <1>2 DEF ECHSettled
<1>6. ServerTrusted(c, cf) => ServerTrusted(q, cf)
  BY <1>1, <1>2 DEF ServerTrusted
<1>7. SessionOK(q, cf) /\ (NoRetry(c) => NoRetry(q))
  BY <1>2 DEF SessionOK, NoRetry, ClientInv
<1>8. ClientInv(q, cf, sd1)
  BY <1>2, <1>3, <1>4, <1>5, <1>6, <1>7 DEF ClientInv
<1>9. ClientFirm(c, q)
  BY <1>2 DEF ClientFirm
<1> QED
  BY <1>8, <1>9

(* The server's invariant is not about its wire. *)
LEMMA ServerStays ==
  ASSUME NEW s, NEW q, NEW cf, NEW pr, Stays(s, q), ServerInv(s, cf, pr)
  PROVE  ServerInv(q, cf, pr) /\ ServerFirm(s, q)
<1>1. View(q) = View(s)
  BY ViewSame DEF Stays, Same, SameAuth
<1>2. /\ q.pc = s.pc /\ q.resumed = s.resumed /\ q.earlyKey = s.earlyKey /\ q.didHRR = s.didHRR /\ q.th = s.th
      /\ q.peerCert = s.peerCert /\ q.ticket = s.ticket /\ q.verified = s.verified /\ q.saw = s.saw
      /\ q.in = s.in /\ q.trafficSecret = s.trafficSecret /\ q.echAccepted = s.echAccepted
      /\ q.secret = s.secret /\ q.ekm = s.ekm /\ q.out = s.out /\ SameNeg(s, q)
  BY DEF Stays, Same, SameRest, SameOffer, SameNeg, SameAuth, SameKeys
<1>3. ServerInv(q, cf, pr)
  BY <1>1, <1>2 DEF ServerInv, Greets, Authorized, Policy
<1>4. ServerFirm(s, q)
  BY <1>2 DEF ServerFirm
<1> QED
  BY <1>3, <1>4

(* What links the two ends is not about their wires. *)
LEMMA LinkStays ==
  ASSUME NEW c, NEW s, NEW c1, NEW s1, Link(c, s), c1 = c \/ Stays(c, c1), s1 = s \/ Stays(s, s1)
  PROVE  Link(c1, s1)
<1>1. /\ c1.echAccepted = c.echAccepted /\ c1.earlyKey = c.earlyKey /\ c1.pc = c.pc /\ c1.err = c.err
      /\ Outcome(c1) = Outcome(c) /\ c1.in = c.in /\ c1.out = c.out
  BY DEF Stays, Same, SameRest, SameOffer, SameNeg, SameKeys, Outcome
<1>2. /\ s1.echAccepted = s.echAccepted /\ s1.earlyKey = s.earlyKey /\ s1.pc = s.pc
      /\ Outcome(s1) = Outcome(s) /\ s1.out = s.out /\ s1.trafficSecret = s.trafficSecret
  BY DEF Stays, Same, SameRest, SameOffer, SameNeg, SameKeys, Outcome
<1> QED
  BY <1>1, <1>2 DEF Link, Agreed

-----------------------------------------------------------------------------
(* The step of an end in the whole. *)
Now == Open(st.client, st.server, cfg, conn, sealed, proved)

(* The state a connection starts in. *)
LEMMA FreshFields ==
  /\ DOMAIN Fresh = Fields /\ Shape(Fresh) /\ Fresh.pc = "start" /\ Fresh.err = "none" /\ Fresh.sent = <<>>
  /\ Fresh.th = <<>> /\ Fresh.ech = "none" /\ Fresh.echAccepted = FALSE /\ Fresh.didHRR = FALSE
  /\ Fresh.resumed = FALSE /\ Fresh.session = NoSession /\ Fresh.earlyKey = NoKey
  /\ Fresh.peerCert = "none" /\ Fresh.ticket = NoSession
BY DEF Fresh, Fields, Shape

(* While an end is not closed there is a connection, and the invariant *)
(* speaks of it.                                                       *)
LEMMA Opened ==
  ASSUME Inv, st.client.pc # "closed" \/ st.server.pc # "closed"
  PROVE  Now
<1>1. st = ClosedEnds => st.client.pc = "closed" /\ st.server.pc = "closed"
  BY FreshFields DEF ClosedEnds, Ends, Fields
<1> QED
  BY <1>1 DEF Inv, Now

(* The parts of the next state when the client has read a message. *)
LEMMA ReadsClient ==
  ASSUME DOMAIN st = Ends, NEW q, Reads("client", q)
  PROVE  DOMAIN st' = Ends /\ st'.client = q /\ st'.server = [st.server EXCEPT !.sent = Tail(@)]
BY DEF Reads, Ends, Peer

(* The parts of the next state when the server has read a message. *)
LEMMA ReadsServer ==
  ASSUME DOMAIN st = Ends, NEW q, Reads("server", q)
  PROVE  DOMAIN st' = Ends /\ st'.server = q /\ st'.client = [st.client EXCEPT !.sent = Tail(@)]
BY DEF Reads, Ends, Peer

(* The client's part of the invariant in the next state. *)
ClientNext(q) ==
    /\ Shape(q) /\ ClientSent(q, cfg, sealed) /\ ClientInv(q, cfg, sealed) /\ Link(q, st.server)

(* A client that reads a message and comes out well keeps the invariant. *)
LEMMA ClientCloses ==
  ASSUME Inv, Now, Waiting("client"), NEW q, Reads("client", q), UNCHANGED <<conn, cfg, sealed, proved>>,
         CacheOK(cache', sealed), ClientNext(q)
  PROVE  Inv'
<1>1. DOMAIN st' = Ends /\ st'.client = q /\ st'.server = [st.server EXCEPT !.sent = Tail(@)]
  BY ReadsClient DEF Inv
<1>2. PICK s : s = st.server
  OBVIOUS
<1>3. PICK s1 : s1 = st'.server
  OBVIOUS
<1>4. s.sent # <<>> /\ s1 = [s EXCEPT !.sent = Tail(s.sent)]
  BY <1>1, <1>2, <1>3 DEF Waiting, Peer
<1>5. Shape(s) /\ ServerInv(s, cfg, proved) /\ ServerSent(s, conn) /\ TicketKept(s, conn, sealed)
  BY <1>2 DEF Now, Open
<1>6. Stays(s, s1) /\ s1.sent = Tail(s.sent)
  BY <1>4, <1>5, SentStays
<1>7. ServerInv(s1, cfg, proved) /\ ServerFirm(s, s1)
  BY <1>5, <1>6, ServerStays
<1>8. ServerSent(s1, conn)
  BY <1>4, <1>5, <1>6, <1>7, ServerSentTail
<1>9. Link(q, s1)
  BY <1>2, <1>6, LinkStays DEF ClientNext
<1>10. TicketKept(s1, conn, sealed) /\ Shape(s1)
  BY <1>5, <1>6 DEF TicketKept, Stays, SameRest
<1>11. Open(q, s1, cfg, conn, sealed, proved)
  BY <1>7, <1>8, <1>9, <1>10 DEF Open, Now, ClientNext
<1>12. Open(st'.client, st'.server, cfg', conn', sealed', proved')
  BY <1>1, <1>3, <1>11
<1> QED
  BY <1>1, <1>12 DEF Inv

(* The same for a step of the client that reads nothing. *)
LEMMA ClientCloses2 ==
  ASSUME Inv, Now, NEW q, Goes("client", q), UNCHANGED <<conn, cfg, sealed, proved>>,
         CacheOK(cache', sealed), ClientNext(q)
  PROVE  Inv'
<1>1. DOMAIN st' = Ends /\ st'.client = q /\ st'.server = st.server
  BY DEF Goes, Inv, Ends
<1>2. Open(q, st.server, cfg, conn, sealed, proved)
  BY DEF Open, Now, ClientNext
<1>3. Open(st'.client, st'.server, cfg', conn', sealed', proved')
  BY <1>1, <1>2
<1> QED
  BY <1>1, <1>3 DEF Inv

(* The session sealed in the server's ticket has a certificate that was proved. *)
TicketOK(q, pr) == q.ticket # NoSession => q.ticket.cert \in pr \cup {"none"}
(* The server's part of the invariant in the next state. *)
ServerNext(q) ==
    /\ Shape(q) /\ ServerSent(q, conn) /\ ServerInv(q, cfg, proved') /\ Link(st.client, q)
    /\ TicketOK(q, proved')

(* A ticket of this connection joins those that were issued; it holds a *)
(* certificate that was proved.                                         *)
LEMMA TicketSealed ==
  ASSUME NEW sd, NEW sd1, NEW pr, NEW pr1, NEW n \in 1..MaxConns, NEW q, SealedOK(sd, pr), pr \subseteq pr1,
         TicketOK(q, pr1), sd1 = IF q.ticket = NoSession THEN sd ELSE [sd EXCEPT ![n] = q.ticket]
  PROVE  SealedOK(sd1, pr1) /\ Grows(sd, sd1) /\ TicketKept(q, n, sd1)
<1>1. CASE q.ticket = NoSession
  BY <1>1 DEF SealedOK, Grows, TicketKept
<1>2. CASE q.ticket # NoSession
  <2>1. PICK t : t = q.ticket
    OBVIOUS
  <2>2. sd1 = [sd EXCEPT ![n] = t] /\ t # NoSession /\ t.cert \in pr1 \cup {"none"}
    BY <1>2, <2>1 DEF TicketOK
  <2>3. DOMAIN sd1 = 1..MaxConns /\ sd1[n] = t /\ \A k \in 1..MaxConns : k # n => sd1[k] = sd[k]
    BY <2>2 DEF SealedOK
  <2> QED
    BY <2>1, <2>2, <2>3 DEF SealedOK, Grows, TicketKept
<1> QED
  BY <1>1, <1>2

(* A server that reads a message and comes out well keeps the invariant, *)
(* its ticket included.                                                  *)
LEMMA ServerCloses ==
  ASSUME Inv, Now, Waiting("server"), NEW q, ServerGoes(q), UNCHANGED <<conn, cfg, cache>>,
         proved \subseteq proved', ServerNext(q)
  PROVE  Inv'
<1>1. DOMAIN st' = Ends /\ st'.server = q /\ st'.client = [st.client EXCEPT !.sent = Tail(@)]
  BY ReadsServer DEF Inv, ServerGoes
<1>2. PICK c : c = st.client
  OBVIOUS
<1>3. PICK c1 : c1 = st'.client
  OBVIOUS
<1>4. c.sent # <<>> /\ c1 = [c EXCEPT !.sent = Tail(c.sent)]
  BY <1>1, <1>2, <1>3 DEF Waiting, Peer
<1>5. Shape(c) /\ ClientInv(c, cfg, sealed) /\ ClientSent(c, cfg, sealed) /\ conn \in 1..MaxConns
  BY <1>2 DEF Now, Open
<1>6. Stays(c, c1) /\ c1.sent = Tail(c.sent)
  BY <1>4, <1>5, SentStays
<1>7. SealedOK(sealed', proved') /\ Grows(sealed, sealed') /\ TicketKept(q, conn, sealed')
  <2>1. sealed' = IF q.ticket = NoSession THEN sealed ELSE [sealed EXCEPT ![conn] = q.ticket]
    BY DEF ServerGoes
  <2>2. SealedOK(sealed, proved) /\ TicketOK(q, proved')
    BY DEF Inv, ServerNext
  <2> QED
    BY <1>5, <2>1, <2>2, TicketSealed
<1>8. ClientInv(c1, cfg, sealed') /\ ClientFirm(c, c1)
  BY <1>5, <1>6, <1>7, ClientStays
<1>9. ClientSent(c1, cfg, sealed')
  BY <1>4, <1>5, <1>6, <1>7, <1>8, ClientSentTail
<1>10. Link(c1, q)
  BY <1>2, <1>6, LinkStays DEF ServerNext
<1>11. Open(c1, q, cfg, conn, sealed', proved')
  BY <1>6, <1>7, <1>8, <1>9, <1>10 DEF Open, Now, ServerNext, Stays
<1>12. Open(st'.client, st'.server, cfg', conn', sealed', proved')
  BY <1>1, <1>3, <1>11
<1>13. CacheOK(cache', sealed')
  BY <1>7 DEF Inv, CacheOK, Issued, Grows
<1> QED
  BY <1>1, <1>7, <1>12, <1>13 DEF Inv

-----------------------------------------------------------------------------
(* The steps around a connection. *)

(* The invariant holds before the first connection. *)
LEMMA InitInv ==
  ASSUME Init
  PROVE  Inv
<1>1. st = ClosedEnds /\ DOMAIN st = Ends
  BY DEF Init, ClosedEnds
<1>2. SealedOK(sealed, proved) /\ CacheOK(cache, sealed)
  BY DEF Init, SealedOK, CacheOK
<1> QED
  BY <1>1, <1>2 DEF Init, Inv

(* Closing both ends keeps the invariant: the cached session is that of an *)
(* issued ticket.                                                          *)
LEMMA CloseStep ==
  ASSUME Inv, Close
  PROVE  Inv'
<1>1. st' = ClosedEnds /\ DOMAIN st' = Ends
  BY DEF Close, ClosedEnds
<1> QED
  BY <1>1 DEF Close, Inv

(* A new connection keeps the invariant: nothing was said on it. *)
LEMMA ConnectStep ==
  ASSUME Inv, Connect
  PROVE  Inv'
<1>1. PICK c : c = Fresh
  OBVIOUS
<1>2. PICK s : s = [Fresh EXCEPT !.pc = "clientHello"]
  OBVIOUS
<1>3. /\ Shape(s) /\ s.pc = "clientHello" /\ s.sent = <<>> /\ s.th = <<>> /\ s.resumed = FALSE
      /\ s.earlyKey = NoKey /\ s.didHRR = FALSE /\ s.peerCert = "none" /\ s.ticket = NoSession
      /\ s.echAccepted = FALSE
  BY <1>2, FreshFields DEF Shape, Fields
<1>4. /\ Shape(c) /\ c.pc = "start" /\ c.err = "none" /\ c.sent = <<>> /\ c.ech = "none"
      /\ c.echAccepted = FALSE /\ c.didHRR = FALSE /\ c.resumed = FALSE /\ c.session = NoSession
  BY <1>1, FreshFields
<1>5. DOMAIN st' = Ends /\ st'.client = c /\ st'.server = s
  BY <1>1, <1>2 DEF Connect, Ends
<1>6. ClientSent(c, cfg', sealed) /\ ServerSent(s, conn')
  <2>0. PICK M : M = {}
    OBVIOUS
  <2>1. <<>> \in Seq(M) /\ \A m \in M : FALSE
    BY <2>0
  <2>2. c.sent \in Seq(M) /\ \A m \in M : ClientMsg(m, c, cfg', sealed)
    BY <1>4, <2>1
  <2>3. s.sent \in Seq(M) /\ \A m \in M : ServerMsg(m, s, conn')
    BY <1>3, <2>1
  <2> QED
    BY <2>2, <2>3 DEF ClientSent, ServerSent
<1>7. ClientInv(c, cfg', sealed)
  BY <1>4 DEF ClientInv, ClientStates, ClientKeyed, SessionOK, NoRetry
<1>8. ServerInv(s, cfg', proved)
  BY <1>3, ThEmpty DEF ServerInv, ServerBusy, ServerFlown, Greets
<1>9. Link(c, s) /\ TicketKept(s, conn', sealed)
  BY <1>3, <1>4 DEF Link, TicketKept
<1>10. conn' \in 1..MaxConns /\ CfgOK(cfg')
  BY Handshake13Assumption DEF Connect, CfgOK, Inv
<1>11. Open(c, s, cfg', conn', sealed, proved)
  BY <1>3, <1>4, <1>6, <1>7, <1>8, <1>9, <1>10 DEF Open
<1> QED
  BY <1>5, <1>10, <1>11 DEF Inv, Connect

(* A broken transport keeps the invariant: an end that fails promises *)
(* nothing.                                                           *)
LEMMA BreakStep ==
  ASSUME Inv, Break
  PROVE  Inv'
<1>1. Now
  BY DEF Inv, Break, Now
<1>2. PICK m : m = [kind |-> "end", key |-> NoKey, body |-> <<>>]
  OBVIOUS
<1>3. PICK c : c = st.client
  OBVIOUS
<1>4. PICK s : s = st.server
  OBVIOUS
<1>5. PICK c1 : c1 = [c EXCEPT !.sent = <<m>>]
  OBVIOUS
<1>6. PICK s1 : s1 = [s EXCEPT !.sent = <<m>>]
  OBVIOUS
<1>7. DOMAIN st' = Ends /\ st'.client = c1 /\ st'.server = s1
  BY <1>2, <1>3, <1>4, <1>5, <1>6 DEF Break, Ends
<1>8. /\ Shape(c) /\ Shape(s) /\ ClientInv(c, cfg, sealed) /\ ServerInv(s, cfg, proved) /\ Link(c, s)
      /\ TicketKept(s, conn, sealed)
  BY <1>1, <1>3, <1>4 DEF Now, Open
<1>9. Stays(c, c1) /\ c1.sent = <<m>> /\ Stays(s, s1) /\ s1.sent = <<m>>
  BY <1>5, <1>6, <1>8, SentStays
<1>10. ClientSent(c1, cfg, sealed) /\ ServerSent(s1, conn)
  <2>1. PICK M : M = {m}
    OBVIOUS
  <2>2. <<m>> \in Seq(M) /\ \A x \in M : x.kind = "end"
    BY <1>2, <2>1
  <2>3. c1.sent \in Seq(M) /\ \A x \in M : ClientMsg(x, c1, cfg, sealed)
    BY <1>9, <2>2 DEF ClientMsg
  <2>4. s1.sent \in Seq(M) /\ \A x \in M : ServerMsg(x, s1, conn)
    BY <1>9, <2>2 DEF ServerMsg
  <2> QED
    BY <2>3, <2>4 DEF ClientSent, ServerSent
<1>11. Grows(sealed, sealed)
  BY DEF Grows
<1>12. ClientInv(c1, cfg, sealed) /\ ServerInv(s1, cfg, proved)
  BY <1>8, <1>9, <1>11, ClientStays, ServerStays
<1>13. Link(c1, s1)
  BY <1>8, <1>9, LinkStays
<1>14. TicketKept(s1, conn, sealed)
  BY <1>8, <1>9 DEF TicketKept, Stays, SameRest
<1>15. Open(c1, s1, cfg, conn, sealed, proved)
  BY <1>1, <1>9, <1>10, <1>12, <1>13, <1>14 DEF Open, Now, Stays
<1> QED
  BY <1>7, <1>15 DEF Inv, Break

-----------------------------------------------------------------------------
(* The client. *)

(* The message the client reads is a good one of the server. *)
LEMMA ServerMsgGood ==
  ASSUME Now, Waiting("client")
  PROVE  ServerMsg(Msg("client"), st.server, conn)
<1>1. PICK M : st.server.sent \in Seq(M) /\ \A m \in M : ServerMsg(m, st.server, conn)
  BY DEF Now, Open, ServerSent
<1>2. PICK x : x = st.server.sent
  OBVIOUS
<1>3. x # <<>> /\ x \in Seq(M)
  BY <1>1, <1>2 DEF Waiting, Peer
<1>4. Head(x) \in M
  BY <1>3
<1> QED
  BY <1>1, <1>2, <1>4 DEF Msg, Peer

(* A failure: nothing that matters later has changed before it. *)
Kept(c, r) == /\ r.session = c.session /\ r.ech = c.ech /\ r.earlyKey = c.earlyKey
              /\ r.echAccepted = c.echAccepted
(* A server that rejects ECH is verified for the public name. *)
RejectionOK(c, cf) == cf.client.rejection = "nil" => c.serverCert.trusted /\ "public" \in c.serverCert.names

(* A client that fails keeps its part of the invariant, whatever it had *)
(* written before.                                                      *)
LEMMA ClientFailNext ==
  ASSUME Now, st.client.pc \in ClientStates \ {"start", "complete", "failed"},
         NEW r, Shape(r), Kept(st.client, r), NEW A, Adds(st.client.sent, r.sent, A), NEW err,
         \A q : q.pc = "failed" /\ q.err = err /\ q.ech = st.client.ech =>
            \A m \in A : ClientMsg(m, q, cfg, sealed),
         err = "ECHRejectionError" => RejectionOK(r, cfg)
  PROVE  ClientNext(FailWith(r, err))
<1>1. PICK c : c = st.client
  OBVIOUS
<1>2. PICK q : q = FailWith(r, err)
  OBVIOUS
<1>3. Failed(r, q, err)
  BY <1>2, FailFailed
<1>4. /\ Shape(q) /\ Kept(c, q) /\ q.serverCert = r.serverCert /\ q.pc = "failed" /\ q.err = err
  BY <1>1, <1>3 DEF Failed, Kept, Same, SameOffer, SameNeg, SameAuth
<1>5. PICK m : m.kind = "end" /\ Adds(r.sent, q.sent, {m})
  BY <1>3 DEF Failed
<1>6. Adds(c.sent, q.sent, A \cup {m})
  BY <1>1, <1>5, AddsMore
<1>7. /\ c.pc # "start" /\ c.pc # "complete" /\ c.pc # "failed" /\ ClientSent(c, cfg, sealed)
      /\ ClientInv(c, cfg, sealed) /\ Link(c, st.server)
  BY <1>1 DEF Now, Open
<1>8. c.err # "ECHRejectionError"
  BY <1>7 DEF ClientInv
<1>9. ClientFirm(c, q)
  BY <1>4, <1>7, <1>8 DEF ClientFirm, Kept
<1>10. \A x \in A \cup {m} : ClientMsg(x, q, cfg, sealed)
  <2>1. \A x \in A : ClientMsg(x, q, cfg, sealed)
    BY <1>1, <1>4 DEF Kept
  <2>2. ClientMsg(m, q, cfg, sealed)
    BY <1>5 DEF ClientMsg
  <2> QED
    BY <2>1, <2>2
<1>11. ClientSent(q, cfg, sealed)
  BY <1>6, <1>7, <1>9, <1>10, ClientSentMore
<1>12. SessionOK(q, cfg) /\ (cfg.client.ech = "none" => q.ech = "none")
  BY <1>4, <1>7 DEF ClientInv, SessionOK, Kept
<1>13. err = "ECHRejectionError" => RejectionOK(q, cfg)
  BY <1>4 DEF RejectionOK
<1>14. ClientInv(q, cfg, sealed)
  BY <1>4, <1>12, <1>13 DEF ClientInv, ClientStates, ClientKeyed, RejectionOK
<1>15. Link(q, st.server)
  BY <1>4, <1>7, <1>8 DEF Link, Kept
<1> QED
  BY <1>2, <1>4, <1>11, <1>14, <1>15 DEF ClientNext

(* A client that fails, and throws its session away, keeps the invariant. *)
LEMMA ClientFailsStep ==
  ASSUME Inv, Now, Waiting("client"), UNCHANGED <<conn, cfg, sealed, proved>>,
         NEW r, NEW err, ClientFailsIn(r, err), ClientNext(FailWith(r, err))
  PROVE  Inv'
<1>1. Reads("client", FailWith(r, err)) /\ CacheOK(cache', sealed)
  BY DEF ClientFailsIn, Inv, CacheOK
<1> QED
  BY <1>1, ClientCloses

(* The same for a failure that follows a read at once. *)
LEMMA ClientFailsAt ==
  ASSUME Inv, Now, Waiting("client"), UNCHANGED <<conn, cfg, sealed, proved>>,
         st.client.pc \in ClientStates \ {"start", "complete", "failed"}, ClientFails
  PROVE  Inv'
<1>1. Kept(st.client, st.client) /\ Adds(st.client.sent, st.client.sent, {}) /\ Shape(st.client)
  BY AddsNone DEF Kept, Now, Open
<1>2. ClientNext(FailWith(st.client, "other"))
  BY <1>1, ClientFailNext
<1> QED
  BY <1>2, ClientFailsStep DEF ClientFails

(* The client goes on from one read to the next. *)
ClientRan(c, q) ==
    /\ Shape(q) /\ Kept(c, q) /\ q.err = c.err /\ q.pc \notin {"start", "complete", "failed"}

(* A client that goes on to its next read keeps its part of the invariant. *)
LEMMA ClientRunNext ==
  ASSUME Now, st.client.pc \in ClientStates \ {"start", "complete", "failed"},
         NEW q, ClientRan(st.client, q), NEW A, Adds(st.client.sent, q.sent, A),
         \A m \in A : ClientMsg(m, q, cfg, sealed), ClientInv(q, cfg, sealed)
  PROVE  ClientNext(q)
<1>1. PICK c : c = st.client
  OBVIOUS
<1>2. /\ c.pc # "start" /\ c.pc # "complete" /\ c.pc # "failed" /\ ClientSent(c, cfg, sealed)
      /\ ClientInv(c, cfg, sealed) /\ Link(c, st.server)
  BY <1>1 DEF Now, Open
<1>3. ClientFirm(c, q)
  BY <1>1, <1>2 DEF ClientFirm, ClientRan, Kept
<1>4. ClientSent(q, cfg, sealed)
  BY <1>1, <1>2, <1>3, ClientSentMore
<1>5. Link(q, st.server)
  BY <1>1, <1>2 DEF Link, ClientRan, Kept
<1> QED
  BY <1>4, <1>5 DEF ClientNext, ClientRan

(* The transcript after the handshake keys. *)
LEMMA ParamsHears ==
  ASSUME NEW r, NEW q, NEW H, NEW th, SaysParams(r, H, th), IsTh(H), q.proto = r.proto, q.early = r.early, NEW e
  PROVE  SaysParams(q, H, Append(th, e))
<1>1. /\ IsTh(Append(th, e)) /\ Len(th) \in Nat /\ Len(Append(th, e)) = Len(th) + 1
      /\ \A i \in 1..Len(th) : Append(th, e)[i] = th[i]
  BY ThAppend DEF SaysParams
<1>2. Len(H) \in Nat
  BY DEF IsTh
<1>3. Len(H) + 1 \in 1..Len(th)
  BY <1>1, <1>2 DEF SaysParams
<1>4. Append(th, e)[Len(H) + 1] = th[Len(H) + 1]
  BY <1>1, <1>3
<1> QED
  BY <1>1, <1>2, <1>4 DEF SaysParams

(* EncryptedExtensions is the first entry behind those of the handshake *)
(* keys.                                                                *)
LEMMA ParamsHeard ==
  ASSUME NEW q, NEW H, IsTh(H), NEW body, q.proto = body.proto, q.early = body.early, NEW kind
  PROVE  SaysParams(q, H, Append(H, Entry(kind, body)))
<1>1. PICK e : e = Entry(kind, body)
  OBVIOUS
<1>2. e.body = body
  BY <1>1 DEF Entry
<1>3. IsTh(Append(H, e)) /\ Len(H) \in Nat /\ Len(Append(H, e)) = Len(H) + 1 /\ Append(H, e)[Len(H) + 1] = e
  BY ThAppend
<1> QED
  BY <1>1, <1>2, <1>3 DEF SaysParams

(* What the transcript says of the client depends on what was negotiated *)
(* only.                                                                 *)
LEMMA ThSame ==
  ASSUME NEW c, NEW q, NEW H, ClientTh(c, H), q.ech = c.ech, q.suite = c.suite, q.group = c.group,
         q.resumed = c.resumed, q.didHRR = c.didHRR, q.serverName = c.serverName
  PROVE  ClientTh(q, H)
BY DEF ClientTh, SaysHello

(* Another entry of the transcript leaves the client's keys and parameters *)
(* as they were.                                                           *)
LEMMA KeyedHears ==
  ASSUME NEW c, NEW q, Keyed(c), c.pc # "params", q.pc # "params", SameNeg(c, q), q.in = c.in,
         q.secret = c.secret, q.session = c.session, NEW e, q.th = Append(c.th, e),
         c.resumed => q.serverCert = c.serverCert /\ q.verified = c.verified
  PROVE  Keyed(q)
<1>1. ClientTh(q, c.in.th)
  BY ThSame DEF Keyed, SameNeg
<1>2. IsTh(c.in.th)
  BY <1>1 DEF ClientTh, SaysHello
<1>3. SaysParams(q, c.in.th, Append(c.th, e))
  BY <1>2, ParamsHears DEF Keyed, SameNeg
<1> QED
  BY <1>1, <1>3 DEF Keyed, SameNeg

(* The client's part of the invariant. *)
LEMMA ClientAt ==
  ASSUME Now
  PROVE  /\ Shape(st.client) /\ ClientInv(st.client, cfg, sealed) /\ Link(st.client, st.server)
         /\ CfgOK(cfg)
BY DEF Now, Open

(* CertificateRequest keeps the invariant. *)
LEMMA CertificateRequestStep ==
  ASSUME Inv, CertificateRequest, UNCHANGED <<conn, cfg, sealed, proved>>
  PROVE  Inv'
<1>1. PICK c : c = st.client
  OBVIOUS
<1>2. c.pc = "certificate" /\ Now /\ Waiting("client")
  BY <1>1, Opened DEF CertificateRequest, Sees
<1>3. Shape(c) /\ ClientInv(c, cfg, sealed)
  BY <1>1, <1>2, ClientAt
<1>4. PICK x : x = Heard(c, "CertificateRequest", <<>>)
  OBVIOUS
<1>5. Wrote(c, x, {}) /\ x.th = Append(c.th, Entry("CertificateRequest", <<>>))
  BY <1>3, <1>4, HeardWrote
<1>6. PICK q : q = [x EXCEPT !.certReq = TRUE]
  OBVIOUS
<1>7. /\ DOMAIN q = Fields /\ q.pc = x.pc /\ q.err = x.err /\ q.th = x.th /\ q.sent = x.sent /\ Same(x, q)
  BY <1>5, <1>6 DEF Wrote, Shape, Fields, Same, SameOffer, SameNeg, SameAuth, SameKeys
<1>8. Shape(q) /\ Same(c, q) /\ q.pc = c.pc /\ q.err = c.err
  BY <1>5, <1>7 DEF Wrote, Shape, Same, SameRest, SameOffer, SameNeg, SameAuth, SameKeys
<1>9. Adds(c.sent, q.sent, {})
  BY <1>5, <1>7 DEF Wrote
<1>10. Keyed(q)
  <2>1. /\ Keyed(c) /\ c.pc # "params" /\ q.pc # "params" /\ SameNeg(c, q) /\ q.in = c.in
        /\ q.secret = c.secret /\ q.session = c.session
        /\ q.serverCert = c.serverCert /\ q.verified = c.verified
    BY <1>2, <1>3, <1>8 DEF ClientInv, ClientKeyed, Same, SameOffer, SameAuth, SameKeys
  <2> QED
    BY <1>5, <1>7, <2>1, KeyedHears
<1>11. ECHSettled(q, cfg) /\ SessionOK(q, cfg)
  BY <1>2, <1>3, <1>8 DEF ClientInv, ClientKeyed, ECHSettled, SessionOK, Same, SameOffer, SameNeg
<1>12. ClientInv(q, cfg, sealed)
  BY <1>2, <1>3, <1>8, <1>10, <1>11 DEF ClientInv, ClientKeyed, ClientStates, Same, SameNeg
<1>13. ClientRan(c, q)
  BY <1>2, <1>8 DEF ClientRan, Kept, Same, SameOffer, SameNeg
<1>14. ClientNext(q)
  BY <1>1, <1>2, <1>9, <1>12, <1>13, ClientRunNext DEF ClientStates
<1>15. Reads("client", q) /\ CacheOK(cache', sealed)
  BY <1>1, <1>4, <1>6 DEF CertificateRequest, Inv
<1> QED
  BY <1>2, <1>14, <1>15, ClientCloses

(* The server's CertificateVerify keeps the invariant. *)
LEMMA ServerCertificateVerifyStep ==
  ASSUME Inv, ServerCertificateVerify, UNCHANGED <<conn, cfg, sealed, proved>>
  PROVE  Inv'
<1>1. PICK c : c = st.client
  OBVIOUS
<1>2. c.pc = "certVerify" /\ Now /\ Waiting("client")
  BY <1>1, Opened DEF ServerCertificateVerify
<1>3. Shape(c) /\ ClientInv(c, cfg, sealed)
  BY <1>1, <1>2, ClientAt
<1>4. CASE ClientFails
  BY <1>1, <1>2, <1>4, ClientFailsAt DEF ClientStates
<1>5. ASSUME NEW alg, Reads("client", [Heard(c, "CertificateVerify", alg) EXCEPT !.pc = "finished"]),
             UNCHANGED cache
      PROVE  Inv'
  <2>1. PICK x : x = Heard(c, "CertificateVerify", alg)
    OBVIOUS
  <2>2. Wrote(c, x, {}) /\ x.th = Append(c.th, Entry("CertificateVerify", alg))
    BY <1>3, <2>1, HeardWrote
  <2>3. PICK q : q = [x EXCEPT !.pc = "finished"]
    OBVIOUS
  <2>4. /\ DOMAIN q = Fields /\ q.pc = "finished" /\ q.err = x.err /\ q.th = x.th /\ q.sent = x.sent
        /\ Same(x, q)
    BY <2>2, <2>3 DEF Wrote, Shape, Fields, Same, SameOffer, SameNeg, SameAuth, SameKeys
  <2>5. Shape(q) /\ Same(c, q) /\ q.err = c.err
    BY <2>2, <2>4 DEF Wrote, Shape, Same, SameRest, SameOffer, SameNeg, SameAuth, SameKeys
  <2>6. Adds(c.sent, q.sent, {})
    BY <2>2, <2>4 DEF Wrote
  <2>7. Keyed(q)
    <3>1. /\ Keyed(c) /\ c.pc # "params" /\ q.pc # "params" /\ SameNeg(c, q) /\ q.in = c.in
          /\ q.secret = c.secret /\ q.session = c.session
          /\ q.serverCert = c.serverCert /\ q.verified = c.verified
      BY <1>2, <1>3, <2>4, <2>5 DEF ClientInv, ClientKeyed, Same, SameOffer, SameAuth, SameKeys
    <3> QED
      BY <2>2, <2>4, <3>1, KeyedHears
  <2>8. ECHSettled(q, cfg) /\ SessionOK(q, cfg)
    BY <1>2, <1>3, <2>5 DEF ClientInv, ClientKeyed, ECHSettled, SessionOK, Same, SameOffer, SameNeg
  <2>9. ServerTrusted(q, cfg)
    <3>1. View(q) = View(c)
      BY <2>5, ViewSame DEF Same, SameAuth
    <3> QED
      BY <1>2, <1>3, <2>5, <3>1 DEF ClientInv, ServerTrusted, Same, SameNeg, SameAuth
  <2>10. ClientInv(q, cfg, sealed)
    BY <1>2, <1>3, <2>4, <2>5, <2>7, <2>8, <2>9 DEF ClientInv, ClientKeyed, ClientStates, Same, SameNeg
  <2>11. ClientRan(c, q)
    BY <2>4, <2>5 DEF ClientRan, Kept, Same, SameOffer, SameNeg
  <2>12. ClientNext(q)
    BY <1>1, <1>2, <2>6, <2>10, <2>11, ClientRunNext DEF ClientStates
  <2>13. Reads("client", q) /\ CacheOK(cache', sealed)
    BY <1>5, <2>1, <2>3 DEF Inv
  <2> QED
    BY <1>2, <2>12, <2>13, ClientCloses
<1> QED
  BY <1>1, <1>4, <1>5 DEF ServerCertificateVerify

(* EncryptedExtensions keeps the invariant: the transcript now says the *)
(* protocol and the early data.                                         *)
LEMMA EncryptedExtensionsStep ==
  ASSUME Inv, EncryptedExtensions, UNCHANGED <<conn, cfg, sealed, proved>>
  PROVE  Inv'
<1>1. PICK c : c = st.client
  OBVIOUS
<1>2. c.pc = "params" /\ Now /\ Waiting("client")
  BY <1>1, Opened DEF EncryptedExtensions
<1>3. Shape(c) /\ ClientInv(c, cfg, sealed)
  BY <1>1, <1>2, ClientAt
<1>4. PICK ee : ee = Msg("client").body
  OBVIOUS
<1>5. PICK x : x = Heard(c, "EncryptedExtensions", ee)
  OBVIOUS
<1>6. Wrote(c, x, {}) /\ x.th = Append(c.th, Entry("EncryptedExtensions", ee))
  BY <1>3, <1>5, HeardWrote
<1>7. PICK configs : configs = IF c.ech = "rejected" THEN ee.retryConfigs ELSE {}
  OBVIOUS
<1>8. PICK r : r = [x EXCEPT !.proto = ee.proto, !.early = ee.early, !.pc = "certificate", !.retryConfigs = configs]
  OBVIOUS
<1>9. /\ DOMAIN r = Fields /\ r.proto = ee.proto /\ r.early = ee.early /\ r.pc = "certificate"
      /\ r.err = c.err /\ r.th = x.th /\ r.sent = x.sent /\ r.in = c.in /\ r.secret = c.secret
      /\ r.session = c.session /\ r.earlyKey = c.earlyKey
      /\ r.ech = c.ech /\ r.echAccepted = c.echAccepted /\ r.didHRR = c.didHRR
      /\ r.suite = c.suite /\ r.group = c.group /\ r.serverName = c.serverName /\ r.resumed = c.resumed
      /\ r.serverCert = c.serverCert /\ r.verified = c.verified
  BY <1>6, <1>8 DEF Wrote, Shape, Fields, Same, SameRest, SameOffer, SameNeg, SameAuth, SameKeys
<1>10. Shape(r) /\ Kept(c, r) /\ Adds(c.sent, r.sent, {})
  BY <1>3, <1>6, <1>9 DEF Shape, Kept, Wrote
<1>11. Keyed(r) /\ ECHSettled(r, cfg) /\ SessionOK(r, cfg)
  <2>1. Keyed(c) /\ c.th = c.in.th /\ ClientTh(c, c.in.th) /\ ECHSettled(c, cfg) /\ SessionOK(c, cfg)
    BY <1>2, <1>3 DEF ClientInv, ClientKeyed, Keyed
  <2>2. ClientTh(r, c.in.th)
    BY <1>9, <2>1, ThSame
  <2>3. IsTh(c.in.th)
    BY <2>1 DEF ClientTh, SaysHello
  <2>4. SaysParams(r, c.in.th, Append(c.in.th, Entry("EncryptedExtensions", ee)))
    BY <1>9, <2>3, ParamsHeard
  <2>5. Keyed(r)
    BY <1>6, <1>9, <2>1, <2>2, <2>4 DEF Keyed
  <2>6. ECHSettled(r, cfg) /\ SessionOK(r, cfg)
    BY <1>9, <2>1 DEF ECHSettled, SessionOK
  <2> QED
    BY <2>5, <2>6
<1>12. (~r.resumed => ClientInv(r, cfg, sealed)) /\ ClientRan(c, r)
  BY <1>2, <1>3, <1>9, <1>10, <1>11 DEF ClientInv, ClientKeyed, ClientStates, ClientRan, Shape
<1>13. CASE ClientFails
  BY <1>1, <1>2, <1>13, ClientFailsAt DEF ClientStates
<1>14. CASE ~r.resumed /\ Reads("client", r) /\ UNCHANGED cache
  <2>1. ClientNext(r)
    BY <1>1, <1>2, <1>10, <1>12, <1>14, ClientRunNext DEF ClientStates
  <2>2. CacheOK(cache', sealed)
    BY <1>14 DEF Inv
  <2> QED
    BY <1>2, <1>14, <2>1, <2>2, ClientCloses
<1>15. PICK v : v = VerifyConnection("client", r)
  OBVIOUS
<1>16. Viewed("client", r, v)
  BY <1>10, <1>15, VerifyViewed
<1>17. PICK q : q = [v EXCEPT !.pc = "finished"]
  OBVIOUS
<1>18. /\ DOMAIN q = Fields /\ q.pc = "finished" /\ q.err = r.err /\ q.th = r.th /\ q.sent = r.sent
       /\ SameOffer(r, q) /\ SameNeg(r, q) /\ SameKeys(r, q) /\ q.saw = v.saw
       /\ q.peerCert = v.peerCert /\ q.serverCert = v.serverCert /\ q.verified = v.verified /\ SameNeg(v, q)
       /\ q.serverCert = r.serverCert /\ q.verified = r.verified
  BY <1>16, <1>17 DEF Viewed, Shape, Fields, SameRest, SameOffer, SameNeg, SameKeys
<1>19. Shape(q) /\ Kept(c, q) /\ Adds(c.sent, q.sent, {}) /\ q.err = c.err
  BY <1>9, <1>10, <1>18 DEF Shape, Kept, SameOffer, SameNeg
<1>20. CASE r.resumed /\ Reads("client", q) /\ UNCHANGED cache
  <2>1. ClientTh(q, r.in.th)
    BY <1>11, <1>18, ThSame DEF Keyed, SameNeg
  <2>2. Keyed(q)
    BY <1>9, <1>11, <1>18, <2>1 DEF Keyed, SaysParams, SameOffer, SameNeg, SameKeys
  <2>3. ECHSettled(q, cfg) /\ SessionOK(q, cfg)
    BY <1>11, <1>18 DEF ECHSettled, SessionOK, SameNeg, SameOffer
  <2>4. View(q) = View(v)
    BY <1>18, ViewSame
  <2>5. cfg.client.verify # "nil" => q.saw = View(q)
    BY <1>16, <1>18, <2>4 DEF Viewed
  <2>6. cfg.client.insecure \/ (q.verified /\ "secret" \in q.serverCert.names)
    BY <1>11, <1>18, <1>20 DEF Keyed, SessionOK
  <2>7. ServerTrusted(q, cfg)
    BY <1>18, <1>20, <2>5, <2>6 DEF ServerTrusted, SameNeg
  <2>8. ClientInv(q, cfg, sealed) /\ ClientRan(c, q)
    BY <1>2, <1>3, <1>18, <1>19, <2>2, <2>3, <2>7
       DEF ClientInv, ClientKeyed, ClientStates, ClientRan, Kept
  <2>9. ClientNext(q)
    BY <1>1, <1>2, <1>19, <2>8, ClientRunNext DEF ClientStates
  <2>10. CacheOK(cache', sealed)
    BY <1>20 DEF Inv
  <2> QED
    BY <1>2, <1>20, <2>9, <2>10, ClientCloses
<1>21. CASE ClientFailsIn(q, "other")
  <2>1. ClientNext(FailWith(q, "other"))
    BY <1>1, <1>2, <1>19, ClientFailNext DEF ClientStates
  <2> QED
    BY <1>2, <1>21, <2>1, ClientFailsStep
<1> QED
  BY <1>1, <1>4, <1>5, <1>7, <1>8, <1>13, <1>14, <1>15, <1>17, <1>20, <1>21 DEF EncryptedExtensions

(* The server's Certificate keeps the invariant: it is trusted for the name *)
(* the client goes by.                                                      *)
LEMMA ServerCertificateStep ==
  ASSUME Inv, ServerCertificate, UNCHANGED <<conn, cfg, sealed, proved>>
  PROVE  Inv'
<1>1. PICK c : c = st.client
  OBVIOUS
<1>2. c.pc = "certificate" /\ Now /\ Waiting("client")
  BY <1>1, Opened DEF ServerCertificate
<1>3. Shape(c) /\ ClientInv(c, cfg, sealed)
  BY <1>1, <1>2, ClientAt
<1>4. PICK cert : cert = Msg("client").body
  OBVIOUS
<1>5. CASE ClientFails
  BY <1>1, <1>2, <1>5, ClientFailsAt DEF ClientStates
<1>6. PICK x : x = Heard(c, "Certificate", cert)
  OBVIOUS
<1>7. Wrote(c, x, {}) /\ x.th = Append(c.th, Entry("Certificate", cert))
  BY <1>3, <1>6, HeardWrote
<1>8. PICK v : v = IF RejectedECH(c) THEN cfg.client.rejection = "nil" ELSE ~cfg.client.insecure
  OBVIOUS
<1>9. PICK r : r = [x EXCEPT !.serverCert = cert, !.pc = "certVerify", !.verified = v]
  OBVIOUS
<1>10. /\ DOMAIN r = Fields /\ r.serverCert = cert /\ r.pc = "certVerify" /\ r.verified = v
       /\ r.err = c.err /\ r.th = x.th /\ r.sent = x.sent /\ r.in = c.in /\ r.secret = c.secret
       /\ r.session = c.session /\ r.earlyKey = c.earlyKey /\ SameNeg(c, r)
  BY <1>7, <1>9 DEF Wrote, Shape, Fields, Same, SameRest, SameOffer, SameNeg, SameAuth, SameKeys
<1>11. Shape(r) /\ Adds(c.sent, r.sent, {})
  BY <1>3, <1>7, <1>10 DEF Shape, SameNeg, Wrote
<1>12. Keyed(c) /\ ECHSettled(c, cfg) /\ SessionOK(c, cfg) /\ c.resumed = FALSE
  BY <1>2, <1>3 DEF ClientInv, ClientKeyed
<1>13. r.resumed = FALSE /\ r.echAccepted = c.echAccepted /\ r.ech = c.ech /\ r.serverName = c.serverName
  BY <1>10, <1>12 DEF SameNeg
<1>14. PICK rv : rv = IF ~RejectedECH(r) THEN VerifyConnection("client", r) ELSE r
  OBVIOUS
<1>15. /\ Shape(rv) /\ SameNeg(r, rv) /\ rv.serverCert = cert /\ rv.verified = v /\ rv.pc = "certVerify"
       /\ rv.err = c.err /\ rv.th = x.th /\ rv.sent = x.sent /\ rv.in = c.in /\ rv.secret = c.secret
       /\ rv.session = c.session /\ rv.earlyKey = c.earlyKey
       /\ ~RejectedECH(r) /\ cfg.client.verify # "nil" => rv.saw = View(rv)
  <2>1. CASE RejectedECH(r)
    BY <1>10, <1>11, <1>14, <2>1 DEF SameNeg
  <2>2. CASE ~RejectedECH(r)
    <3>1. Viewed("client", r, rv)
      BY <1>11, <1>14, <2>2, VerifyViewed
    <3> QED
      BY <1>10, <3>1 DEF Viewed, SameRest, SameKeys, SameOffer
  <2> QED
    BY <2>1, <2>2
<1>16. SameNeg(c, rv) /\ Kept(c, rv) /\ Adds(c.sent, rv.sent, {})
  BY <1>10, <1>11, <1>15 DEF SameNeg, Kept
<1>17. CASE CertificateOK(c, cert) /\ Reads("client", rv) /\ UNCHANGED cache
  <2>1. Keyed(rv)
    <3>1. c.pc # "params" /\ rv.pc # "params"
      BY <1>2, <1>15
    <3> QED
      BY <1>7, <1>12, <1>15, <1>16, <3>1, KeyedHears
  <2>2. ECHSettled(rv, cfg) /\ SessionOK(rv, cfg)
    BY <1>12, <1>15, <1>16 DEF ECHSettled, SessionOK, SameNeg
  <2>3. ServerTrusted(rv, cfg)
    <3>1. rv.ech = c.ech /\ rv.echAccepted = c.echAccepted
      BY <1>16 DEF SameNeg
    <3>2. CASE RejectedECH(c)
      <4>1. ~(rv.ech = "none" \/ rv.echAccepted) /\ c.serverName = "public"
        BY <1>12, <3>1, <3>2 DEF RejectedECH, ECHSettled
      <4>2. cfg.client.rejection = "nil" => cert.trusted /\ "public" \in cert.names
        BY <1>17, <3>2, <4>1 DEF CertificateOK
      <4> QED
        BY <1>15, <4>1, <4>2 DEF ServerTrusted
    <3>3. CASE ~RejectedECH(c)
      <4>1. (rv.ech = "none" \/ rv.echAccepted) /\ ~RejectedECH(r)
        BY <1>12, <1>13, <3>1, <3>3 DEF RejectedECH, ECHSettled
      <4>2. cfg.client.insecure \/ (rv.verified /\ "secret" \in rv.serverCert.names)
        BY <1>8, <1>15, <1>17, <3>3 DEF CertificateOK
      <4> QED
        BY <1>15, <4>1, <4>2 DEF ServerTrusted
    <3> QED
      BY <3>2, <3>3
  <2>4. ClientInv(rv, cfg, sealed) /\ ClientRan(c, rv)
    BY <1>2, <1>3, <1>12, <1>15, <1>16, <2>1, <2>2, <2>3
       DEF ClientInv, ClientKeyed, ClientStates, ClientRan, SameNeg
  <2>5. ClientNext(rv)
    BY <1>1, <1>2, <1>16, <2>4, ClientRunNext DEF ClientStates
  <2>6. CacheOK(cache', sealed)
    BY <1>17 DEF Inv
  <2> QED
    BY <1>2, <1>17, <2>5, <2>6, ClientCloses
<1>18. CASE ClientFailsIn(rv, "other")
  <2>1. ClientNext(FailWith(rv, "other"))
    BY <1>1, <1>2, <1>15, <1>16, ClientFailNext DEF ClientStates
  <2> QED
    BY <1>2, <1>18, <2>1, ClientFailsStep
<1> QED
  BY <1>1, <1>4, <1>5, <1>6, <1>8, <1>9, <1>14, <1>17, <1>18 DEF ServerCertificate

(* handleNewSessionTicket keeps the invariant: the ticket in the cache was *)
(* issued.                                                                 *)
LEMMA NewSessionTicketStep ==
  ASSUME Inv, NewSessionTicket
  PROVE  Inv'
<1>1. PICK c : c = st.client
  OBVIOUS
<1>2. c.pc = "complete" /\ Now /\ Waiting("client")
  BY <1>1, Opened DEF NewSessionTicket, Complete, Sees
<1>3. PICK m : m = Msg("client")
  OBVIOUS
<1>4. ServerMsg(m, st.server, conn) /\ m.kind = "NewSessionTicket"
  BY <1>2, <1>3, ServerMsgGood DEF NewSessionTicket, Sees
<1>5. st.server.ticket # NoSession /\ m.body.label = conn
  BY <1>4 DEF ServerMsg
<1>6. Issued(conn, sealed)
  BY <1>2, <1>5 DEF Now, Open, TicketKept, Issued
<1>7. CacheOK(cache', sealed)
  <2>1. CASE cache' = cache
    BY <2>1 DEF Inv
  <2>2. ASSUME NEW t, cache' = t, t.label = conn
        PROVE  CacheOK(cache', sealed)
    BY <1>6, <2>2 DEF CacheOK
  <2>3. cache' = cache \/ cache'.label = m.body.label
    BY <1>3 DEF NewSessionTicket
  <2> QED
    BY <1>5, <2>1, <2>2, <2>3
<1>8. ClientNext(c) /\ Reads("client", c)
  BY <1>1, <1>2 DEF ClientNext, Now, Open, NewSessionTicket
<1> QED
  BY <1>2, <1>7, <1>8, ClientCloses DEF NewSessionTicket

-----------------------------------------------------------------------------
(* A server Finished that the client accepts settles what both have agreed on. *)
Settles(c, s) ==
    /\ c.secret = s.secret /\ c.suite = s.suite /\ c.group = s.group /\ c.resumed = s.resumed
    /\ c.proto = s.proto /\ c.early = s.early
    /\ c.ech # "rejected" => c.serverName = s.serverName /\ c.didHRR = s.didHRR /\ c.echAccepted = s.echAccepted
    /\ c.ech = "rejected" => c.echAccepted = FALSE /\ c.resumed = FALSE

(* A Finished that the client accepts has the client's transcript and     *)
(* handshake secret, so the two ends have negotiated the same: no message *)
(* needs to be decoded to see it.                                         *)
LEMMA FinishedSettles ==
  ASSUME NEW c, NEW s, NEW b, NEW cf, Shape(c), Shape(s), FlightOK(b, s), Keyed(c), c.pc = "finished",
         ECHSettled(c, cf), Link(c, s), b = FinishedHash(c.in, c.th)
  PROVE  Settles(c, s)
<1>1. b.secret = c.in /\ b.th = c.th
  BY DEF FinishedHash, DeriveSecret
<1>2. PICK H : H = c.in.th
  OBVIOUS
<1>3. ServerTh(s, H) /\ ClientTh(c, H) /\ SaysParams(s, H, c.th) /\ SaysParams(c, H, c.th)
  BY <1>1, <1>2 DEF FlightOK, Keyed
<1>4. c.secret = s.secret
  BY <1>1 DEF FlightOK, Keyed
<1>5. c.suite = s.suite /\ c.group = s.group /\ c.resumed = s.resumed
  BY <1>3 DEF ServerTh, ClientTh, SaysHello
<1>6. c.proto = s.proto /\ c.early = s.early
  BY <1>3 DEF SaysParams
<1>7. PICK h : h = H[Len(H) - 1]
  OBVIOUS
<1>8. /\ h.kind = "ClientHello" /\ h.body.x.serverName = s.serverName
      /\ (Len(H) = 2) <=> ~s.didHRR
      /\ s.echAccepted => h.body.x.ech = InnerECH
      /\ s.resumed => h.body.x.psk.label # 0
      /\ (Len(H) = 2) <=> ~c.didHRR
      /\ c.ech # "rejected" => h.body.x.serverName = c.serverName
      /\ c.ech = "none" => h.body.x.ech = NoECH
      /\ c.ech = "rejected" => h.body.x.ech.kind = "outer" /\ h.body.x.psk.label = 0
  BY <1>3, <1>7 DEF ServerTh, ClientTh
<1>9. InnerECH # NoECH /\ InnerECH.kind # "outer"
  BY DEF InnerECH, NoECH
<1>10. ASSUME c.ech # "rejected"
       PROVE  c.serverName = s.serverName /\ c.didHRR = s.didHRR /\ c.echAccepted = s.echAccepted
  <2>1. c.serverName = s.serverName
    BY <1>8, <1>10
  <2>2. c.didHRR = s.didHRR
    BY <1>8 DEF Shape
  <2>3. CASE c.ech = "none"
    BY <1>8, <1>9, <2>3 DEF ECHSettled, Shape
  <2>4. CASE c.ech # "none"
    <3>1. c.echAccepted
      BY <1>10, <2>4 DEF ECHSettled
    <3>2. s.echAccepted
      BY <3>1 DEF Link
    <3> QED
      BY <2>1, <2>2, <3>1, <3>2 DEF Shape
  <2> QED
    BY <2>1, <2>2, <2>3, <2>4
<1>11. ASSUME c.ech = "rejected"
       PROVE  c.echAccepted = FALSE /\ c.resumed = FALSE
  <2>1. ~s.echAccepted
    BY <1>8, <1>9, <1>11
  <2>2. ~s.resumed
    BY <1>8, <1>11
  <2>3. c.echAccepted = FALSE
    BY <2>1 DEF Link, Shape
  <2>4. c.resumed = FALSE
    BY <1>5, <2>2 DEF Shape
  <2> QED
    BY <2>3, <2>4
<1> QED
  BY <1>4, <1>5, <1>6, <1>10, <1>11 DEF Settles

(* sendClientCertificate: no certificate for a server that has rejected ECH. *)
LEMMA ClientCertificateSent ==
  ASSUME NEW r, Shape(r)
  PROVE  \E A : /\ Wrote(r, SendClientCertificate(r), A)
                /\ \A m \in A : /\ m.kind \in {"Certificate", "CertificateVerify"}
                                /\ m.kind = "Certificate" /\ m.body # "none" => r.ech # "rejected"
<1>1. PICK cert : cert = IF r.ech = "rejected" THEN "none" ELSE cfg.client.cert
  OBVIOUS
<1>2. CASE ~r.certReq
  <2>1. SendClientCertificate(r) = r
    BY <1>2 DEF SendClientCertificate, SaysIf
  <2>2. Wrote(r, r, {})
    BY AddsNone DEF Wrote, Same, SameRest, SameOffer, SameNeg, SameAuth, SameKeys
  <2>3. \A m \in {} : FALSE
    OBVIOUS
  <2> QED
    BY <2>1, <2>2, <2>3
<1>3. CASE r.certReq
  <2>1. PICK r1 : r1 = Says(r, "Certificate", cert)
    OBVIOUS
  <2>2. PICK m1 : m1 = [kind |-> "Certificate", key |-> r.out, body |-> cert]
    OBVIOUS
  <2>3. Wrote(r, r1, {m1})
    BY <2>1, <2>2, SaysSpoke DEF Spoke
  <2>4. m1.kind = "Certificate" /\ (m1.body # "none" => r.ech # "rejected")
    BY <1>1, <2>2
  <2>5. CASE cert = "none"
    <3>1. SendClientCertificate(r) = r1
      BY <1>1, <1>3, <2>1, <2>5 DEF SendClientCertificate, SaysIf
    <3> QED
      BY <2>3, <2>4, <3>1
  <2>6. CASE cert # "none"
    <3>1. PICK th : th = IF cfg.client.key THEN r1.th ELSE <<>>
      OBVIOUS
    <3>2. PICK q : q = SaysSigned(r1, "client", th)
      OBVIOUS
    <3>3. SendClientCertificate(r) = q
      BY <1>1, <1>3, <2>1, <2>6, <3>1, <3>2 DEF SendClientCertificate, SaysIf
    <3>4. PICK m2 : m2 = [kind |-> "CertificateVerify", key |-> r1.out, body |-> [alg |-> "client", th |-> th]]
      OBVIOUS
    <3>5. Shape(r1)
      BY <2>3 DEF Wrote
    <3>6. Spoke(r1, q, "CertificateVerify", "client", m2)
      BY <3>2, <3>4, <3>5, SignedSpoke
    <3>7. Wrote(r1, q, {m2}) /\ m2.kind = "CertificateVerify"
      BY <3>4, <3>6 DEF Spoke
    <3>8. Wrote(r, q, {m1} \cup {m2})
      BY <2>3, <3>7, WroteMore
    <3>9. \A m \in {m1} \cup {m2} :
             /\ m.kind \in {"Certificate", "CertificateVerify"}
             /\ m.kind = "Certificate" /\ m.body # "none" => r.ech # "rejected"
      BY <2>4, <3>7
    <3> QED
      BY <3>3, <3>8, <3>9
  <2> QED
    BY <2>5, <2>6
<1> QED
  BY <1>2, <1>3

(* What the client has done when it has sent its Finished. *)
ClientDone(c, q, A) ==
    LET th == Append(c.th, Entry("Finished", <<>>)) IN
    /\ Shape(q) /\ SameOffer(c, q) /\ SameNeg(c, q) /\ SameAuth(c, q) /\ q.err = c.err
    /\ q.in = ApplicationKey("server", c.secret, th) /\ q.out = ApplicationKey("client", c.secret, th)
    /\ q.ekm = DeriveSecret("exporter", "both", c.secret, th)
    /\ Adds(c.sent, q.sent, A)
    /\ \A m \in A : /\ m.kind \in {"Certificate", "CertificateVerify", "Finished"}
                    /\ m.kind = "Certificate" /\ m.body # "none" => c.ech # "rejected"

(* The client's flight: a certificate only for a server that has not *)
(* rejected ECH, and then Finished and the application keys.         *)
LEMMA ClientFinishes ==
  ASSUME NEW c, Shape(c)
  PROVE  \E A : ClientDone(c, SendClientFinished(SendClientCertificate(HearFinished(c))), A)
<1>1. PICK th : th = Append(c.th, Entry("Finished", <<>>))
  OBVIOUS
<1>2. PICK h : h = Heard(c, "Finished", <<>>)
  OBVIOUS
<1>3. Wrote(c, h, {}) /\ h.th = th
  BY <1>1, <1>2, HeardWrote
<1>4. PICK kc : kc = ApplicationKey("client", c.secret, th)
  OBVIOUS
<1>5. PICK ks : ks = ApplicationKey("server", c.secret, th)
  OBVIOUS
<1>6. PICK ke : ke = DeriveSecret("exporter", "both", c.secret, th)
  OBVIOUS
<1>7. PICK x : x = [h EXCEPT !.trafficSecret = kc, !.in = ks, !.ekm = ke]
  OBVIOUS
<1>8. x = HearFinished(c)
  BY <1>2, <1>3, <1>4, <1>5, <1>6, <1>7 DEF HearFinished
<1>9. /\ DOMAIN x = Fields /\ x.trafficSecret = kc /\ x.in = ks /\ x.ekm = ke /\ x.sent = h.sent
      /\ x.err = c.err /\ SameOffer(c, x) /\ SameNeg(c, x) /\ SameAuth(c, x)
  BY <1>3, <1>7 DEF Wrote, Shape, Fields, Same, SameRest, SameOffer, SameNeg, SameAuth, SameKeys
<1>10. Shape(x) /\ Adds(c.sent, x.sent, {})
  BY <1>3, <1>9 DEF Shape, SameNeg, Wrote
<1>11. PICK y : y = SendClientCertificate(x)
  OBVIOUS
<1>12. PICK A : /\ Wrote(x, y, A)
                /\ \A m \in A : /\ m.kind \in {"Certificate", "CertificateVerify"}
                                /\ m.kind = "Certificate" /\ m.body # "none" => x.ech # "rejected"
  BY <1>10, <1>11, ClientCertificateSent
<1>13. Shape(y)
  BY <1>12 DEF Wrote
<1>14. PICK f : f = SaysFinished(y)
  OBVIOUS
<1>15. PICK m : m = [kind |-> "Finished", key |-> y.out, body |-> FinishedHash(y.out, y.th)]
  OBVIOUS
<1>16. Wrote(y, f, {m}) /\ m.kind = "Finished"
  <2>1. Spoke(y, f, "Finished", <<>>, m)
    BY <1>13, <1>14, <1>15, FinishedSpoke
  <2> QED
    BY <1>15, <2>1 DEF Spoke
<1>17. Wrote(x, f, A \cup {m})
  BY <1>12, <1>16, WroteMore
<1>18. PICK res : res = IF cfg.client.tickets THEN DeriveSecret("resumption", "both", y.secret, f.th) ELSE NoKey
  OBVIOUS
<1>19. PICK q : q = [f EXCEPT !.out = y.trafficSecret, !.resumption = res]
  OBVIOUS
<1>20. q = SendClientFinished(y)
  BY <1>14, <1>18, <1>19 DEF SendClientFinished
<1>21. y.trafficSecret = kc
  BY <1>9, <1>12 DEF Wrote, Same, SameKeys
<1>22. /\ DOMAIN q = Fields /\ q.out = kc /\ q.in = x.in /\ q.ekm = x.ekm /\ q.sent = f.sent /\ q.err = x.err
       /\ SameOffer(x, q) /\ SameNeg(x, q) /\ SameAuth(x, q)
  BY <1>17, <1>19, <1>21 DEF Wrote, Shape, Fields, Same, SameRest, SameOffer, SameNeg, SameAuth, SameKeys
<1>23. SameOffer(c, q) /\ SameNeg(c, q) /\ SameAuth(c, q) /\ q.err = c.err
  BY <1>9, <1>22 DEF SameOffer, SameNeg, SameAuth
<1>24. Shape(q)
  BY <1>22, <1>23 DEF Shape, SameNeg
<1>25. Adds(c.sent, q.sent, {} \cup (A \cup {m}))
  BY <1>10, <1>17, <1>22, AddsMore DEF Wrote
<1>26. PICK B : B = {} \cup (A \cup {m})
  OBVIOUS
<1>27. \A n \in B : /\ n.kind \in {"Certificate", "CertificateVerify", "Finished"}
                    /\ n.kind = "Certificate" /\ n.body # "none" => c.ech # "rejected"
  BY <1>9, <1>12, <1>16, <1>26 DEF SameNeg
<1>28. ClientDone(c, q, B)
  BY <1>1, <1>4, <1>5, <1>6, <1>9, <1>22, <1>23, <1>24, <1>25, <1>26, <1>27 DEF ClientDone
<1> QED
  BY <1>8, <1>11, <1>20, <1>28

(* The server's Finished keeps the invariant: from here the two ends agree. *)
LEMMA ServerFinishedStep ==
  ASSUME Inv, ServerFinished, UNCHANGED <<conn, cfg, sealed, proved>>
  PROVE  Inv'
<1>1. PICK c : c = st.client
  OBVIOUS
<1>2. c.pc = "finished" /\ Now /\ Waiting("client")
  BY <1>1, Opened DEF ServerFinished
<1>3. Shape(c) /\ ClientInv(c, cfg, sealed) /\ Link(c, st.server) /\ ClientSent(c, cfg, sealed)
  BY <1>1, <1>2 DEF Now, Open
<1>4. CASE ClientFails
  BY <1>1, <1>2, <1>4, ClientFailsAt DEF ClientStates
<1>5. PICK s : s = st.server
  OBVIOUS
<1>6. PICK b : b = Msg("client").body
  OBVIOUS
<1>7. Keyed(c) /\ ECHSettled(c, cfg) /\ ServerTrusted(c, cfg) /\ SessionOK(c, cfg)
  BY <1>2, <1>3 DEF ClientInv, ClientKeyed
<1>8. ASSUME Sees("client", "Finished"), b = FinishedHash(c.in, c.th)
      PROVE  s.pc \in ServerFlown /\ FlightOK(b, s) /\ Settles(c, s)
  <2>1. ServerMsg(Msg("client"), s, conn)
    BY <1>2, <1>5, ServerMsgGood
  <2>2. s.pc \in ServerFlown /\ FlightOK(b, s)
    BY <1>6, <1>8, <2>1 DEF ServerMsg, Sees
  <2>3. Shape(s)
    BY <1>2, <1>5 DEF Now, Open
  <2> QED
    BY <1>2, <1>3, <1>5, <1>7, <1>8, <2>2, <2>3, FinishedSettles
<1>9. PICK r : r = SendClientFinished(SendClientCertificate(HearFinished(c)))
  OBVIOUS
<1>10. PICK A : ClientDone(c, r, A)
  BY <1>3, <1>9, ClientFinishes
<1>11. Shape(r) /\ r.ech = c.ech /\ Kept(c, r)
  BY <1>10 DEF ClientDone, SameNeg, SameOffer, Kept
<1>12. CASE /\ Sees("client", "Finished") /\ b = FinishedHash(c.in, c.th) /\ r.ech # "rejected"
            /\ Reads("client", [r EXCEPT !.pc = "complete"]) /\ UNCHANGED cache
  <2>1. FlightOK(b, s) /\ Settles(c, s) /\ s.pc \in ServerFlown
    BY <1>8, <1>12
  <2>2. PICK q : q = [r EXCEPT !.pc = "complete"]
    OBVIOUS
  <2>3. /\ DOMAIN q = Fields /\ q.pc = "complete" /\ SameOffer(r, q) /\ SameNeg(r, q) /\ SameAuth(r, q)
        /\ q.in = r.in /\ q.out = r.out /\ q.ekm = r.ekm /\ q.err = r.err /\ q.sent = r.sent
    BY <1>11, <2>2 DEF Shape, Fields, SameOffer, SameNeg, SameAuth
  <2>4. SameOffer(c, q) /\ SameNeg(c, q) /\ SameAuth(c, q) /\ q.err = c.err
    BY <1>10, <2>3 DEF ClientDone, SameOffer, SameNeg, SameAuth
  <2>5. Shape(q)
    BY <1>3, <2>3, <2>4 DEF Shape, SameNeg
  <2>6. q.ech # "rejected" /\ c.ech # "rejected"
    BY <1>11, <1>12, <2>4 DEF SameNeg
  <2>7. b.th = c.th
    BY <1>12 DEF FinishedHash, DeriveSecret
  <2>8. Agreed(q, s)
    <3>1. q.in = s.out /\ q.out = s.trafficSecret /\ q.ekm = s.ekm
      BY <1>10, <2>1, <2>3, <2>7 DEF ClientDone, FlightOK, Settles
    <3>2. /\ q.suite = s.suite /\ q.group = s.group /\ q.proto = s.proto /\ q.serverName = s.serverName
          /\ q.resumed = s.resumed /\ q.early = s.early /\ q.didHRR = s.didHRR
          /\ q.echAccepted = s.echAccepted
      BY <2>1, <2>4, <2>6 DEF Settles, SameNeg
    <3> QED
      BY <3>1, <3>2 DEF Agreed, Outcome
  <2>9. Link(q, s)
    BY <1>3, <1>5, <1>2, <2>1, <2>3, <2>4, <2>8 DEF Link, SameOffer, SameNeg
  <2>10. ECHSettled(q, cfg) /\ SessionOK(q, cfg)
    BY <1>7, <2>4 DEF ECHSettled, SessionOK, SameNeg, SameOffer
  <2>11. ServerTrusted(q, cfg)
    <3>1. View(q) = View(c)
      BY <2>4, ViewSame DEF SameAuth
    <3> QED
      BY <1>7, <2>4, <3>1 DEF ServerTrusted, SameNeg, SameAuth
  <2>12. q.err # "ECHRejectionError"
    BY <1>2, <1>3, <2>4 DEF ClientInv
  <2>13. ClientInv(q, cfg, sealed)
    BY <1>3, <2>3, <2>4, <2>6, <2>10, <2>11, <2>12 DEF ClientInv, ClientStates, ClientKeyed, SameNeg
  <2>14. ClientFirm(c, q)
    BY <1>2, <2>3, <2>4 DEF ClientFirm, SameOffer, SameNeg
  <2>15. \A m \in A : ClientMsg(m, q, cfg, sealed)
    <3>1. q.ech \in {"none", "accepted"}
      BY <2>6, <2>10 DEF ECHSettled
    <3> QED
      BY <1>10, <2>3, <3>1 DEF ClientDone, ClientMsg
  <2>16. Adds(c.sent, q.sent, A)
    BY <1>10, <2>3 DEF ClientDone
  <2>17. ClientSent(q, cfg, sealed)
    BY <1>3, <2>14, <2>15, <2>16, ClientSentMore
  <2>18. ClientNext(q)
    BY <1>5, <2>5, <2>9, <2>13, <2>17 DEF ClientNext
  <2>19. Reads("client", q) /\ CacheOK(cache', sealed)
    BY <1>12, <2>2 DEF Inv
  <2> QED
    BY <1>2, <2>18, <2>19, ClientCloses
<1>13. CASE /\ Sees("client", "Finished") /\ b = FinishedHash(c.in, c.th) /\ r.ech = "rejected"
            /\ ClientFailsIn(r, "ECHRejectionError")
  <2>1. Settles(c, s)
    BY <1>8, <1>13
  <2>2. c.echAccepted = FALSE /\ c.resumed = FALSE /\ c.ech = "rejected"
    BY <1>11, <1>13, <2>1 DEF Settles
  <2>3. RejectionOK(r, cfg)
    BY <1>7, <1>10, <2>2 DEF ServerTrusted, RejectionOK, ClientDone, SameAuth
  <2>4. ASSUME NEW q, q.pc = "failed", q.err = "ECHRejectionError", q.ech = c.ech
        PROVE  \A m \in A : ClientMsg(m, q, cfg, sealed)
    BY <1>10, <2>2, <2>4 DEF ClientDone, ClientMsg
  <2>5. ClientNext(FailWith(r, "ECHRejectionError"))
    <3>1. Adds(c.sent, r.sent, A)
      BY <1>10 DEF ClientDone
    <3> QED
      BY <1>1, <1>2, <1>11, <2>3, <2>4, <3>1, ClientFailNext DEF ClientStates
  <2> QED
    BY <1>2, <1>13, <2>5, ClientFailsStep
<1> QED
  BY <1>1, <1>4, <1>6, <1>9, <1>12, <1>13 DEF ServerFinished

-----------------------------------------------------------------------------
(* clientHandshake. *)

(* The hello of makeClientHello, and the one that may offer a session. *)
Made(m, ech) ==
    /\ HelloShape(m) /\ m.x.psk = NoPSK /\ m.x.serverName = "secret"
    /\ m.x.ech = IF ech = "none" THEN NoECH ELSE InnerECH

(* makeClientHello names the server that is meant, and offers no ticket *)
(* yet.                                                                 *)
LEMMA MakeMade ==
  ASSUME NEW c
  PROVE  Made(MakeClientHello(c), c.ech)
<1>1. PICK m : m = MakeClientHello(c)
  OBVIOUS
<1>2. /\ DOMAIN m = {"random", "sid", "suites", "x"} /\ DOMAIN m.x = DOMAIN NoExts
      /\ m.x.psk = NoExts.psk /\ m.x.serverName = "secret"
      /\ m.x.ech = IF c.ech = "none" THEN NoECH ELSE InnerECH
  BY <1>1, NoExtsShape DEF MakeClientHello, ExtNames
<1> QED
  BY <1>1, <1>2, NoExtsShape DEF Made, HelloShape, ExtsShape

RealOK(m, ech, session, key, sd) ==
    /\ HelloOK(m, session, sd) /\ m.x.serverName = "secret"
    /\ m.x.ech = IF ech = "none" THEN NoECH ELSE InnerECH
    /\ EarlyOK({m.x.earlyData}, m.x.psk, key)

(* The hello that offers a session has its ticket, and a binder over the *)
(* transcript that the early data key is derived from.                   *)
LEMMA OfferedSession ==
  ASSUME NEW ech, NEW m1, HelloShape(m1), m1.x.serverName = "secret", NEW session, NEW sd,
         m1.x.ech = IF ech = "none" THEN NoECH ELSE InnerECH,
         m1.x.psk.label = session.label, Issued(session.label, sd), session # NoSession, NEW m, NEW key,
         m = WithBinder(m1, session.secret, <<>>),
         m1.x.earlyData = TRUE => key = EarlyKey(session.secret, HelloEntry(Marshal(m, FALSE)))
  PROVE  RealOK(m, ech, session, key, sd)
<1>1. PICK label : label = session.label
  OBVIOUS
<1>2. label # 0 /\ LabelOK(label, sd)
  BY <1>1, Handshake13Assumption DEF Issued, LabelOK
<1>4. m1.x.psk.label = label
  BY <1>1
<1>5. HelloShape(m1) /\ m1.x.ech.kind # "outer"
  BY DEF NoECH, InnerECH
<1>6. PICK e : e = HelloEntry(Marshal(m1, FALSE))
  OBVIOUS
<1>7. PICK secret : secret = session.secret
  OBVIOUS
<1>8. m = WithBinder(m1, secret, <<>>)
  BY <1>7
<1>9. HelloEntry(Marshal(m, FALSE)) = e
  <2>1. m1.x.psk.label # 0
    BY <1>2, <1>4
  <2>2. HelloEntry(Marshal(WithBinder(m1, secret, <<>>), FALSE)) = HelloEntry(Marshal(m1, FALSE))
    BY <1>5, <2>1, BinderEntry
  <2> QED
    BY <1>6, <1>8, <2>2
<1>10. PICK b : b = Binder(secret, Append(<<>>, e))
  OBVIOUS
<1>11. Bound(m1, m, b)
  BY <1>5, <1>6, <1>8, <1>10, BinderSet
<1>12. /\ HelloShape(m) /\ m.x.psk.label = label /\ m.x.psk.binder = b /\ m.x.earlyData = m1.x.earlyData
       /\ m.x.serverName = "secret" /\ m.x.ech = m1.x.ech
  BY <1>4, <1>11 DEF Bound, ExtNames
<1>13. b.secret = EarlySecret(secret) /\ b.th = <<e>>
  <2>1. Append(<<>>, e) = <<e>>
    OBVIOUS
  <2> QED
    BY <1>10, <2>1 DEF Binder, DeriveSecret
<1>14. EarlyOK({m.x.earlyData}, m.x.psk, key)
  BY <1>7, <1>9, <1>12, <1>13 DEF EarlyOK, EarlyKey
<1> QED
  BY <1>2, <1>12, <1>14 DEF RealOK, HelloOK

(* clientHandshake keeps the invariant: the outer hello names the public *)
(* name only.                                                            *)
LEMMA ClientHelloStep ==
  ASSUME Inv, NEW expired, ClientHello(expired), UNCHANGED <<conn, cfg, sealed, proved>>
  PROVE  Inv'
<1> DEFINE c == st.client
           cc == cfg.client
           session == IF Usable(cc) /\ ~expired THEN cache ELSE NoSession
           early == session # NoSession /\ OffersEarly(cc)
           m0 == MakeClientHello(cc)
           real == IF session = NoSession THEN m0
                   ELSE WithBinder([m0 EXCEPT !.x.earlyData = early, !.x.psk.label = session.label],
                                   session.secret, <<>>)
           o == [real EXCEPT !.random = <<conn, "outer">>, !.x.serverName = "public"]
           outer == Seal(o, real, cc.ech, conn, 0)
           hello == IF cc.ech = "none" THEN real ELSE outer
           key == IF early THEN EarlyKey(session.secret, HelloEntry(Marshal(real, FALSE))) ELSE NoKey
           name == hello.x.serverName
           inner == IF cc.ech = "none" THEN NoHello ELSE real
           ech == IF cc.ech = "none" THEN "none" ELSE "offered"
           r == [c EXCEPT !.pc = "serverHello", !.hello = hello, !.session = session, !.serverName = name,
                          !.inner = inner, !.ech = ech, !.earlyKey = key]
           w == Marshal(hello, FALSE)
           q == Put(r, "ClientHello", w)
<1>1. c = st.client /\ cc = cfg.client
  OBVIOUS
<1>4. cc = cfg.client
  BY Zenon
<1>18. c.pc = "start" /\ Goes("client", q) /\ cache' = IF expired THEN NoSession ELSE cache
  BY DEF ClientHello
<1> HIDE DEF c, cc, session, early, m0, real, o, outer, hello, key, name, inner, ech, r, w, q
<1>2. c.pc = "start" /\ Now
  BY <1>1, <1>18, Opened
<1>3. Shape(c) /\ ClientInv(c, cfg, sealed) /\ Link(c, st.server) /\ ClientSent(c, cfg, sealed)
  BY <1>1, <1>2 DEF Now, Open
<1>19. Goes("client", q) /\ cache' \in {cache, NoSession}
  BY <1>18
<1>20. CacheOK(cache', sealed)
  BY <1>19 DEF Inv, CacheOK
<1>21. Made(m0, cc.ech)
  BY MakeMade DEF m0
<1>22. RealOK(real, cc.ech, session, key, sealed)
  <2>1. CASE session = NoSession
    BY <1>21, <2>1, NoExtsShape DEF real, RealOK, HelloOK, Made, LabelOK, EarlyOK
  <2>2. CASE session # NoSession
    <3>1. Issued(session.label, sealed)
      BY <2>2 DEF session, Inv, CacheOK
    <3>2. PICK m1 : m1 = [m0 EXCEPT !.x.earlyData = early, !.x.psk.label = session.label]
      OBVIOUS
    <3>3. real = WithBinder(m1, session.secret, <<>>)
      BY <2>2, <3>2 DEF real
    <3>4. /\ DOMAIN m1 = DOMAIN m0 /\ DOMAIN m1.x = DOMAIN m0.x /\ DOMAIN m1.x.psk = DOMAIN m0.x.psk
          /\ m1.x.psk.label = session.label /\ m1.x.earlyData = early /\ m1.x.serverName = m0.x.serverName
          /\ m1.x.ech = m0.x.ech
      BY <1>21, <3>2 DEF Made, HelloShape, ExtsShape, ExtNames
    <3>5. /\ HelloShape(m1) /\ m1.x.serverName = "secret"
          /\ m1.x.ech = IF cc.ech = "none" THEN NoECH ELSE InnerECH
      BY <1>21, <3>4 DEF Made, HelloShape, ExtsShape
    <3>6. m1.x.earlyData = TRUE => key = EarlyKey(session.secret, HelloEntry(Marshal(real, FALSE)))
      BY <3>4 DEF key
    <3> QED
      BY <2>2, <3>1, <3>3, <3>4, <3>5, <3>6, OfferedSession
  <2> QED
    BY <2>1, <2>2
<1>23. HelloShape(real) /\ LabelOK(real.x.psk.label, sealed) /\ EarlyOK({real.x.earlyData}, real.x.psk, key)
       /\ HelloOK(real, session, sealed)
  BY <1>22 DEF RealOK, HelloOK
<1>24. /\ DOMAIN o = DOMAIN real /\ DOMAIN o.x = DOMAIN real.x /\ o.x.psk = real.x.psk
       /\ o.x.earlyData = real.x.earlyData /\ o.x.serverName = "public"
  BY <1>23 DEF o, HelloShape, ExtsShape, ExtNames
<1>25. HelloShape(o)
  BY <1>23, <1>24 DEF HelloShape, ExtsShape
<1>26. SealedIn(o, outer, real)
  BY <1>25, SealKeeps DEF outer
<1>27. OuterOK(outer.x, key, sealed)
  <2>1. EarlyOK({o.x.earlyData, real.x.earlyData}, real.x.psk, key)
    BY <1>23, <1>24 DEF EarlyOK
  <2> QED
    BY <1>23, <1>25, <1>26, <2>1, SealGood
<1>28. outer.x.psk = real.x.psk /\ outer.x.serverName = "public" /\ outer.x.ech.kind = "outer" /\ HelloShape(outer)
  BY <1>24, <1>26 DEF SealedIn, ExtNames
<1>29. /\ HelloOK(hello, session, sealed) /\ OuterOK(hello.x, key, sealed)
       /\ cc.ech # "none" => hello.x.ech.kind = "outer" /\ hello.x.serverName = "public"
       /\ cc.ech = "none" => hello.x.ech = NoECH /\ hello.x.serverName = "secret" /\ hello = real
  <2>1. CASE cc.ech = "none"
    BY <1>22, <2>1 DEF hello, RealOK, OuterOK, NoECH
  <2>2. CASE cc.ech # "none"
    BY <1>23, <1>27, <1>28, <2>2 DEF hello, HelloOK
  <2> QED
    BY <2>1, <2>2
<1>30. WireOK(w, key, sealed)
  <2>1. hello.x.ech.kind = "outer" \/ EarlyOK({hello.x.earlyData}, hello.x.psk, key)
    BY <1>23, <1>29
  <2>2. HelloShape(hello) /\ LabelOK(hello.x.psk.label, sealed)
    BY <1>29 DEF HelloOK
  <2> QED
    BY <1>29, <2>1, <2>2, MarshalGood DEF w
<1>31. cfg.client.ech # "none" => w.x.serverName = "public" /\ w.x.psk = NoPSK
  <2>1. HelloShape(hello)
    BY <1>29 DEF HelloOK
  <2> QED
    BY <1>4, <1>29, <2>1, MarshalPlain DEF w
<1>32. /\ DOMAIN r = Fields /\ r.pc = "serverHello" /\ r.hello = hello /\ r.session = session
       /\ r.serverName = name /\ r.inner = inner /\ r.ech = ech /\ r.earlyKey = key /\ r.err = c.err
       /\ r.didHRR = c.didHRR /\ r.echAccepted = c.echAccepted /\ r.resumed = c.resumed /\ r.sent = c.sent
  BY <1>3 DEF r, Shape, Fields
<1>33. Shape(r)
  BY <1>3, <1>32 DEF Shape
<1>34. PICK m : m = [kind |-> "ClientHello", key |-> r.out, body |-> w]
  OBVIOUS
<1>35. Wrote(r, q, {m})
  BY <1>33, <1>34, PutWrote DEF q
<1>36. /\ Shape(q) /\ q.pc = "serverHello" /\ q.hello = hello /\ q.session = session
       /\ q.serverName = name /\ q.inner = inner /\ q.ech = ech /\ q.earlyKey = key /\ q.err = c.err
       /\ q.didHRR = c.didHRR /\ q.echAccepted = c.echAccepted /\ q.resumed = c.resumed
       /\ Adds(c.sent, q.sent, {m})
  BY <1>32, <1>35 DEF Wrote, Same, SameOffer, SameNeg, SameRest
<1>37. NoRetry(c) /\ c.resumed = FALSE /\ c.err # "ECHRejectionError"
  BY <1>2, <1>3 DEF ClientInv
<1>38. Offers(q, cfg, sealed)
  <2>1. NoRetry(q) /\ q.resumed = FALSE
    BY <1>36, <1>37 DEF NoRetry
  <2>2. CASE cc.ech = "none"
    <3>1. OffersPlain(q, sealed)
      BY <1>29, <1>36, <2>1, <2>2 DEF name, ech, OffersPlain, NoRetry
    <3> QED
      BY <1>4, <1>29, <1>36, <2>1, <2>2, <3>1 DEF Offers
  <2>3. CASE cc.ech # "none"
    <3>1. OffersECH(q, sealed)
      BY <1>22, <1>23, <1>29, <1>36, <2>1, <2>3 DEF name, inner, ech, OffersECH, NoRetry, RealOK
    <3> QED
      BY <1>4, <1>29, <1>36, <2>1, <2>3, <3>1 DEF Offers
  <2> QED
    BY <2>2, <2>3
<1>39. SessionOK(q, cfg)
  BY <1>4, <1>36 DEF session, SessionOK, Usable
<1>40. ClientInv(q, cfg, sealed)
  BY <1>4, <1>36, <1>37, <1>38, <1>39 DEF ech, ClientInv, ClientStates, ClientKeyed
<1>41. ClientFirm(c, q)
  BY <1>2 DEF ClientFirm
<1>42. \A x \in {m} : ClientMsg(x, q, cfg, sealed)
  <2>1. m.kind = "ClientHello" /\ m.body = w
    BY <1>34
  <2> QED
    BY <1>30, <1>31, <1>36, <2>1 DEF ClientMsg
<1>43. ClientSent(q, cfg, sealed)
  BY <1>3, <1>36, <1>41, <1>42, ClientSentMore
<1>44. Link(q, st.server)
  BY <1>2, <1>3, <1>36, <1>37 DEF Link, NoRetry
<1>45. ClientNext(q)
  BY <1>36, <1>40, <1>43, <1>44 DEF ClientNext
<1> QED
  BY <1>2, <1>19, <1>20, <1>45, ClientCloses2

-----------------------------------------------------------------------------
(* What the transcript says of a hello of the client. *)
Recorded(m, e) ==
    /\ e.kind = "ClientHello" /\ e.body.x.serverName = m.x.serverName
    /\ e.body.x.ech.kind = m.x.ech.kind
    /\ m.x.ech.kind # "outer" => e.body.x.ech = m.x.ech
    /\ m.x.ech.kind = "outer" => e.body.x.psk.label = 0

(* The transcript has the name, the ECH extension and, for an outer hello, *)
(* no ticket.                                                              *)
LEMMA HelloRecorded ==
  ASSUME NEW m, HelloShape(m), m.x.ech.kind = "outer" => DOMAIN m.x.ech = {"kind", "encap", "payload"}
  PROVE  Recorded(m, HelloEntry(Marshal(m, FALSE)))
<1>1. PICK w : w = Marshal(m, FALSE)
  OBVIOUS
<1>2. DOMAIN w = {"random", "sid", "suites", "types", "outer", "x"} /\ ExtsShape(w.x)
  BY <1>1, MarshalKeeps
<1>3. /\ w.x.serverName = m.x.serverName /\ w.x.ech = m.x.ech
      /\ w.x.psk = IF m.x.ech.kind = "outer" THEN NoPSK ELSE m.x.psk
  BY <1>1, MarshalPlain
<1>4. WireShape(w)
  BY <1>2, <1>3 DEF WireShape
<1>5. PICK e : e = HelloEntry(w)
  OBVIOUS
<1>6. /\ e.kind = "ClientHello" /\ e.body.x.serverName = w.x.serverName
      /\ e.body.x.psk.label = w.x.psk.label /\ e.body.x.ech.kind = w.x.ech.kind
      /\ w.x.ech.kind # "outer" => e.body.x.ech = w.x.ech
  BY <1>4, <1>5, EntryKeeps
<1> QED
  BY <1>1, <1>3, <1>5, <1>6, NoExtsShape DEF Recorded

(* The entry of a ServerHello, or of a HelloRetryRequest. *)
LEMMA AnswerRecorded ==
  ASSUME NEW sh, AnswerShape(sh)
  PROVE  /\ ServerHelloEntry(sh).kind = "ServerHello"
         /\ ServerHelloEntry(sh).body.suite = sh.suite /\ ServerHelloEntry(sh).body.group = sh.group
         /\ ServerHelloEntry(sh).body.psk = sh.psk
         /\ ServerHelloEntry(sh).body.conf.label = sh.conf.label
<1>1. PICK b : b = [sh EXCEPT !.conf = [label |-> @.label]]
  OBVIOUS
<1>2. b.suite = sh.suite /\ b.group = sh.group /\ b.psk = sh.psk /\ b.conf.label = sh.conf.label
  BY <1>1 DEF AnswerShape
<1> QED
  BY <1>1, <1>2 DEF ServerHelloEntry, Entry

(* The state in which the client reads a ServerHello. *)
Ready(r) ==
    /\ IsTh(r.th) /\ Len(r.th) = (IF r.didHRR THEN 3 ELSE 1)
    /\ r.th[Len(r.th)] = HelloEntry(Marshal(r.hello, FALSE))
    /\ r.ech # "none" => IsTh(r.innerTh) /\
          \/ /\ Len(r.innerTh) = Len(r.th)
             /\ r.innerTh[Len(r.innerTh)] = HelloEntry(Marshal(r.inner, FALSE))
          \/ r.didHRR /\ Len(r.innerTh) = 2 /\ r.innerTh[2].kind = "ServerHello"
Begun(c, r) ==
    /\ Shape(r) /\ Same(c, r) /\ r.pc = c.pc /\ r.err = c.err /\ r.sent = c.sent /\ Ready(r)

(* The transcript, and the inner one, end in the hello that was sent last. *)
LEMMA StartedBegun ==
  ASSUME NEW c, Shape(c), NoRetry(c) \/ AfterRetry(c)
  PROVE  Begun(c, IF c.didHRR THEN c ELSE Started(c))
<1>1. CASE c.didHRR
  <2>1. AfterRetry(c) /\ c.didHRR = TRUE
    BY <1>1 DEF NoRetry, AfterRetry
  <2>2. Ready(c)
    BY <2>1 DEF AfterRetry, Ready, Shape
  <2> QED
    BY <1>1, <2>2 DEF Begun, Same, SameOffer, SameNeg, SameAuth, SameKeys
<1>2. CASE ~c.didHRR
  <2>1. PICK e : e = HelloEntry(Marshal(c.hello, FALSE))
    OBVIOUS
  <2>2. PICK d : d = HelloEntry(Marshal(c.inner, FALSE))
    OBVIOUS
  <2>3. PICK t : t = IF c.ech = "none" THEN <<>> ELSE <<d>>
    OBVIOUS
  <2>4. PICK r : r = [c EXCEPT !.th = <<e>>, !.innerTh = t]
    OBVIOUS
  <2>5. r = Started(c)
    BY <2>1, <2>2, <2>3, <2>4 DEF Started
  <2>6. /\ DOMAIN r = Fields /\ Same(c, r) /\ r.pc = c.pc /\ r.err = c.err /\ r.sent = c.sent
        /\ r.th = <<e>> /\ r.innerTh = t
    BY <2>4 DEF Shape, Fields, Same, SameOffer, SameNeg, SameAuth, SameKeys
  <2>7. Shape(r) /\ r.hello = c.hello /\ r.inner = c.inner /\ r.ech = c.ech /\ r.didHRR = FALSE
    BY <1>2, <2>6 DEF Shape, Same, SameOffer, SameNeg
  <2>8. IsTh(<<e>>) /\ Len(<<e>>) = 1 /\ <<e>>[1] = e /\ IsTh(<<d>>) /\ Len(<<d>>) = 1 /\ <<d>>[1] = d
    BY ThOne
  <2>9. Ready(r)
    BY <2>1, <2>2, <2>3, <2>6, <2>7, <2>8 DEF Ready
  <2> QED
    BY <1>2, <2>5, <2>6, <2>7, <2>9 DEF Begun
<1> QED
  BY <1>1, <1>2

(* Retried: the hello again, with another key share and without early data. *)
RetriedOK(m, q, session, sd) ==
    /\ HelloOK(q, session, sd) /\ q.x.earlyData = FALSE /\ q.x.ech = m.x.ech /\ q.x.serverName = m.x.serverName
    /\ q.x.psk.label # 0 => Len(q.x.psk.binder.th) = 3

(* The second hello offers no early data, and its binder is over three *)
(* messages.                                                           *)
LEMMA RetriedGood ==
  ASSUME NEW r, NEW m, NEW sd, HelloOK(m, r.session, sd), NEW sh, NEW th, IsTh(th), Len(th) = 2
  PROVE  RetriedOK(m, Retried(r, m, sh, th), r.session, sd)
<1>1. PICK shares : shares = SubSeq(KeyShares(sh.group, 2), 1, 1)
  OBVIOUS
<1>2. PICK m1 : m1 = [m EXCEPT !.x.keyShares = shares, !.x.earlyData = FALSE]
  OBVIOUS
<1>3. /\ DOMAIN m1 = DOMAIN m /\ DOMAIN m1.x = DOMAIN m.x /\ m1.x.psk = m.x.psk /\ m1.x.earlyData = FALSE
      /\ m1.x.ech = m.x.ech /\ m1.x.serverName = m.x.serverName
  BY <1>2 DEF HelloOK, HelloShape, ExtsShape, ExtNames
<1>4. HelloOK(m1, r.session, sd) /\ HelloShape(m1)
  BY <1>3 DEF HelloOK, HelloShape, ExtsShape
<1>5. CASE m.x.psk.label = 0
  <2>1. Retried(r, m, sh, th) = m1
    BY <1>1, <1>2, <1>5 DEF Retried
  <2> QED
    BY <1>3, <1>4, <1>5, <2>1 DEF RetriedOK
<1>6. CASE m.x.psk.label # 0 /\ SuiteHash(r.session.suite) = SuiteHash(sh.suite)
  <2>1. PICK q : q = WithBinder(m1, r.session.secret, th)
    OBVIOUS
  <2>2. Retried(r, m, sh, th) = q
    BY <1>1, <1>2, <1>6, <2>1 DEF Retried
  <2>3. PICK e : e = HelloEntry(Marshal(m1, FALSE))
    OBVIOUS
  <2>4. PICK b : b = Binder(r.session.secret, Append(th, e))
    OBVIOUS
  <2>5. Bound(m1, q, b)
    BY <1>4, <2>1, <2>3, <2>4, BinderSet
  <2>6. Len(b.th) = 3
    <3>1. b.th = Append(th, e)
      BY <2>4 DEF Binder, DeriveSecret
    <3>2. Len(Append(th, e)) = Len(th) + 1
      BY ThAppend
    <3> QED
      BY <3>1, <3>2
  <2>7. /\ HelloShape(q) /\ q.x.psk.label = m1.x.psk.label /\ q.x.psk.binder = b /\ q.x.earlyData = FALSE
        /\ q.x.ech = m.x.ech /\ q.x.serverName = m.x.serverName
    BY <1>3, <2>5 DEF Bound, ExtNames
  <2>8. HelloOK(q, r.session, sd)
    BY <1>4, <2>7 DEF HelloOK
  <2> QED
    BY <2>2, <2>6, <2>7, <2>8 DEF RetriedOK
<1>7. CASE m.x.psk.label # 0 /\ SuiteHash(r.session.suite) # SuiteHash(sh.suite)
  <2>1. PICK q : q = [m1 EXCEPT !.x.psk = NoPSK]
    OBVIOUS
  <2>2. Retried(r, m, sh, th) = q
    BY <1>1, <1>2, <1>7, <2>1 DEF Retried
  <2>3. /\ DOMAIN q = DOMAIN m1 /\ DOMAIN q.x = DOMAIN m1.x /\ q.x.psk = NoPSK /\ q.x.earlyData = FALSE
        /\ q.x.ech = m.x.ech /\ q.x.serverName = m.x.serverName
    BY <1>3, <1>4, <2>1 DEF HelloShape, ExtsShape, ExtNames
  <2>4. HelloOK(q, r.session, sd)
    BY <1>4, <2>3, NoExtsShape DEF HelloOK, HelloShape, ExtsShape, LabelOK
  <2> QED
    BY <2>2, <2>3, <2>4, NoExtsShape DEF RetriedOK
<1> QED
  BY <1>5, <1>6, <1>7

(* The second outer hello still names the public name, and holds the second *)
(* inner hello.                                                             *)
LEMMA ResealedGood ==
  ASSUME NEW r, NEW m, NEW inner, NEW sd, NEW key, HelloOK(r.hello, r.session, sd), RetriedOK(m, inner, r.session, sd)
  PROVE  /\ HelloOK(Resealed(r, inner), r.session, sd) /\ OuterOK(Resealed(r, inner).x, key, sd)
         /\ Resealed(r, inner).x.ech.kind = "outer"
         /\ Resealed(r, inner).x.serverName = r.hello.x.serverName
<1>1. PICK hello : hello = r.hello
  OBVIOUS
<1>2. PICK shares : shares = inner.x.keyShares
  OBVIOUS
<1>3. PICK o : o = [hello EXCEPT !.x.keyShares = shares]
  OBVIOUS
<1>4. /\ DOMAIN o = DOMAIN hello /\ DOMAIN o.x = DOMAIN hello.x /\ o.x.psk = hello.x.psk
      /\ o.x.serverName = hello.x.serverName
  BY <1>1, <1>3 DEF HelloOK, HelloShape, ExtsShape, ExtNames
<1>5. HelloShape(o) /\ HelloShape(inner) /\ LabelOK(inner.x.psk.label, sd)
  BY <1>1, <1>4 DEF HelloOK, HelloShape, ExtsShape, RetriedOK
<1>6. PICK q : q = Resealed(r, inner)
  OBVIOUS
<1>7. q = Seal(o, inner, cfg.client.ech, conn, 1)
  BY <1>1, <1>2, <1>3, <1>6 DEF Resealed
<1>8. SealedIn(o, q, inner)
  BY <1>5, <1>7, SealKeeps
<1>9. EarlyOK({o.x.earlyData, inner.x.earlyData}, inner.x.psk, key)
  BY DEF EarlyOK, RetriedOK
<1>10. OuterOK(q.x, key, sd)
  BY <1>5, <1>8, <1>9, SealGood
<1>11. /\ q.x.psk = hello.x.psk /\ q.x.serverName = hello.x.serverName /\ q.x.ech.kind = "outer"
       /\ HelloShape(q)
  BY <1>4, <1>8 DEF SealedIn, ExtNames
<1> QED
  BY <1>1, <1>6, <1>10, <1>11 DEF HelloOK

-----------------------------------------------------------------------------
(* The client has a ServerHello, and knows what the server makes of ECH. *)
Settled(c, r) ==
    /\ Shape(r) /\ SameAuth(c, r) /\ SameKeys(c, r) /\ r.session = c.session /\ r.earlyKey = c.earlyKey
    /\ r.pc = c.pc /\ r.err = c.err /\ r.sent = c.sent /\ r.didHRR = c.didHRR /\ r.resumed = FALSE
    /\ r.proto = c.proto /\ r.early = c.early
Decided(r, sh) ==
    /\ IsTh(r.th) /\ Len(r.th) >= 1
    /\ r.ech = "accepted" => sh.conf.label = "sh"
    /\ LET h == r.th[Len(r.th)] IN
       h.kind = "ClientHello" =>
          /\ (Len(r.th) = 1) <=> ~r.didHRR
          /\ r.ech # "rejected" => h.body.x.serverName = r.serverName
          /\ r.ech = "none" => h.body.x.ech = NoECH
          /\ r.ech = "rejected" => h.body.x.ech.kind = "outer" /\ h.body.x.psk.label = 0

(* With the ServerHello the client knows whether ECH was accepted; the     *)
(* transcript it keeps begins with the hello that the server has answered. *)
LEMMA ConfirmedSettled ==
  ASSUME NEW c, NEW cf, NEW sd, Offers(c, cf, sd), NEW r0, Begun(c, r0), NEW sh
  PROVE  /\ Settled(c, Confirmed(r0, sh)) /\ Decided(Confirmed(r0, sh), sh)
         /\ ECHSettled(Confirmed(r0, sh), cf) /\ HelloOK(Confirmed(r0, sh).hello, c.session, sd)
         /\ (cf.client.ech = "none" => Confirmed(r0, sh).ech = "none")
         /\ Confirmed(r0, sh).echAccepted => c.echAccepted \/ sh.conf.label = "sh"
         /\ c.ech = "none" => Confirmed(r0, sh).ech = "none"
         /\ c.ech # "accepted"
<1>1. /\ r0.hello = c.hello /\ r0.inner = c.inner /\ r0.session = c.session /\ r0.earlyKey = c.earlyKey
      /\ r0.ech = c.ech /\ r0.echAccepted = c.echAccepted /\ r0.didHRR = c.didHRR /\ r0.suite = c.suite
      /\ r0.group = c.group /\ r0.proto = c.proto /\ r0.serverName = c.serverName /\ r0.resumed = c.resumed
      /\ r0.early = c.early /\ r0.pc = c.pc /\ r0.err = c.err /\ r0.sent = c.sent
      /\ SameAuth(c, r0) /\ SameKeys(c, r0) /\ Shape(r0) /\ Ready(r0)
  BY DEF Begun, Same, SameOffer, SameNeg
<1>2. r0.resumed = FALSE /\ HelloOK(r0.hello, c.session, sd) /\ OuterOK(r0.hello.x, r0.earlyKey, sd)
  BY <1>1 DEF Offers
<1>3. PICK e : e = HelloEntry(Marshal(r0.hello, FALSE))
  OBVIOUS
<1>4. Recorded(r0.hello, e)
  BY <1>2, <1>3, HelloRecorded DEF HelloOK, OuterOK
<1>5. IsTh(r0.th) /\ Len(r0.th) = (IF r0.didHRR THEN 3 ELSE 1) /\ r0.th[Len(r0.th)] = e
  BY <1>1, <1>3 DEF Ready
<1>6. Settled(c, r0)
  BY <1>1, <1>2 DEF Settled
<1>7. CASE cf.client.ech = "none"
  <2>1. OffersPlain(c, sd)
    BY <1>7 DEF Offers
  <2>2. /\ r0.ech = "none" /\ r0.hello.x.ech = NoECH /\ r0.echAccepted = FALSE
        /\ r0.hello.x.serverName = "secret" /\ r0.serverName = "secret"
    BY <1>1, <2>1 DEF OffersPlain
  <2>3. Confirmed(r0, sh) = r0
    BY <2>2 DEF Confirmed
  <2>4. Decided(r0, sh)
    BY <1>4, <1>5, <2>2 DEF Decided, Recorded, NoECH
  <2>5. ECHSettled(r0, cf)
    BY <1>7, <2>2 DEF ECHSettled
  <2> QED
    BY <1>1, <1>2, <1>6, <2>2, <2>3, <2>4, <2>5
<1>8. CASE cf.client.ech # "none"
  <2>1. OffersECH(c, sd)
    BY <1>8 DEF Offers
  <2>2. /\ r0.ech = "offered" /\ r0.hello.x.ech.kind = "outer" /\ r0.hello.x.serverName = "public"
        /\ HelloOK(r0.inner, c.session, sd) /\ r0.inner.x.serverName = "secret" /\ r0.inner.x.ech = InnerECH
        /\ r0.serverName = IF r0.echAccepted THEN "secret" ELSE "public"
    BY <1>1, <2>1 DEF OffersECH
  <2>3. CASE sh.conf = Confirmation("sh", r0.inner, r0.innerTh, sh)
    <3>1. PICK q : q = [r0 EXCEPT !.hello = r0.inner, !.th = r0.innerTh, !.serverName = "secret",
                                  !.ech = "accepted", !.echAccepted = TRUE]
      OBVIOUS
    <3>2. Confirmed(r0, sh) = q
      BY <2>2, <2>3, <3>1 DEF Confirmed
    <3>3. /\ DOMAIN q = Fields /\ q.hello = r0.inner /\ q.th = r0.innerTh /\ q.serverName = "secret"
          /\ q.ech = "accepted" /\ q.echAccepted = TRUE /\ SameAuth(r0, q) /\ SameKeys(r0, q)
          /\ q.session = r0.session /\ q.earlyKey = r0.earlyKey /\ q.pc = r0.pc /\ q.err = r0.err
          /\ q.sent = r0.sent /\ q.didHRR = r0.didHRR /\ q.resumed = r0.resumed
          /\ q.proto = r0.proto /\ q.early = r0.early
      BY <1>1, <3>1 DEF Shape, Fields, SameAuth, SameKeys
    <3>4. Settled(c, q)
      BY ZenonT(40), <1>1, <1>2, <3>3 DEF Settled, Shape, SameAuth, SameKeys
    <3>5. sh.conf.label = "sh"
      BY <2>3 DEF Confirmation
    <3>6. PICK d : d = HelloEntry(Marshal(r0.inner, FALSE))
      OBVIOUS
    <3>7. Recorded(r0.inner, d)
      <4>1. HelloShape(r0.inner) /\ r0.inner.x.ech.kind # "outer"
        BY <2>2 DEF HelloOK, InnerECH
      <4> QED
        BY <3>6, <4>1, HelloRecorded
    <3>8. /\ IsTh(q.th)
          /\ \/ Len(q.th) = (IF q.didHRR THEN 3 ELSE 1) /\ q.th[Len(q.th)] = d
             \/ Len(q.th) = 2 /\ q.th[2].kind = "ServerHello"
      BY <1>1, <1>5, <2>2, <3>3, <3>6 DEF Ready
    <3>9. Decided(q, sh)
      <4>1. CASE Len(q.th) = 2 /\ q.th[2].kind = "ServerHello"
        BY <3>3, <3>5, <3>8, <4>1 DEF Decided
      <4>2. CASE Len(q.th) = (IF q.didHRR THEN 3 ELSE 1) /\ q.th[Len(q.th)] = d
        <5>1. d.body.x.serverName = "secret"
          BY <2>2, <3>7 DEF Recorded
        <5>2. Len(q.th) >= 1 /\ ((Len(q.th) = 1) <=> ~q.didHRR)
          BY <4>2
        <5> QED
          BY <3>3, <3>5, <3>8, <4>2, <5>1, <5>2 DEF Decided
      <4> QED
        BY <3>8, <4>1, <4>2
    <3>10. ECHSettled(q, cf)
      BY <1>8, <3>3 DEF ECHSettled
    <3> QED
      BY <1>1, <1>8, <2>2, <3>2, <3>3, <3>4, <3>5, <3>9, <3>10
  <2>4. CASE sh.conf # Confirmation("sh", r0.inner, r0.innerTh, sh)
    <3>1. PICK q : q = [r0 EXCEPT !.ech = "rejected"]
      OBVIOUS
    <3>2. Confirmed(r0, sh) = q
      BY <2>2, <2>4, <3>1 DEF Confirmed
    <3>3. /\ DOMAIN q = Fields /\ q.hello = r0.hello /\ q.th = r0.th /\ q.serverName = r0.serverName
          /\ q.ech = "rejected" /\ q.echAccepted = r0.echAccepted /\ SameAuth(r0, q) /\ SameKeys(r0, q)
          /\ q.session = r0.session /\ q.earlyKey = r0.earlyKey /\ q.pc = r0.pc /\ q.err = r0.err
          /\ q.sent = r0.sent /\ q.didHRR = r0.didHRR /\ q.resumed = r0.resumed
          /\ q.proto = r0.proto /\ q.early = r0.early
      BY <1>1, <3>1 DEF Shape, Fields, SameAuth, SameKeys
    <3>4. Settled(c, q)
      BY <1>1, <1>2, <3>3 DEF Settled, Shape, SameAuth, SameKeys
    <3>5. Decided(q, sh)
      <4>1. e.body.x.ech.kind = "outer" /\ e.body.x.psk.label = 0
        BY <1>4, <2>2 DEF Recorded
      <4>2. IsTh(q.th) /\ Len(q.th) >= 1 /\ ((Len(q.th) = 1) <=> ~q.didHRR) /\ q.th[Len(q.th)] = e
        <5>1. PICK t : t = r0.th
          OBVIOUS
        <5>2. q.th = t /\ q.didHRR = r0.didHRR
          BY <3>3, <5>1
        <5>3. IsTh(t) /\ Len(t) = (IF q.didHRR THEN 3 ELSE 1) /\ t[Len(t)] = e
          BY <1>5, <5>1, <5>2
        <5>4. Len(t) >= 1 /\ ((Len(t) = 1) <=> ~q.didHRR)
          BY <5>3
        <5> QED
          BY <5>2, <5>3, <5>4
      <4> QED
        BY <3>3, <4>1, <4>2 DEF Decided
    <3>6. ECHSettled(q, cf)
      BY <1>8, <2>2, <3>3 DEF ECHSettled
    <3> QED
      BY <1>1, <1>2, <1>8, <2>2, <3>2, <3>3, <3>4, <3>5, <3>6
  <2> QED
    BY <2>3, <2>4
<1> QED
  BY <1>7, <1>8

(* processServerHello. *)
LEMMA ServerHelloKeyed ==
  ASSUME NEW c, NEW r, Settled(c, r), NEW sh, AnswerShape(sh), Decided(r, sh), NEW sd,
         HelloOK(r.hello, c.session, sd), sh.psk => r.hello.x.psk.label # 0
  PROVE  LET q == ProcessServerHello(r, sh) IN
         /\ Shape(q) /\ Keyed(q) /\ q.pc = "params" /\ q.err = c.err /\ q.sent = c.sent
         /\ q.ech = r.ech /\ q.echAccepted = r.echAccepted /\ q.serverName = r.serverName
         /\ q.session = c.session /\ q.earlyKey = c.earlyKey
<1>1. PICK e : e = ServerHelloEntry(sh)
  OBVIOUS
<1>2. PICK H : H = Append(r.th, e)
  OBVIOUS
<1>3. PICK dhe : dhe = [group |-> sh.group, conn |-> conn, try |-> IF r.didHRR THEN 2 ELSE 1]
  OBVIOUS
<1>4. PICK secret : secret = HandshakeSecret(IF sh.psk THEN r.session.secret ELSE NoPSKey, dhe)
  OBVIOUS
<1>5. PICK ko : ko = HandshakeKey("client", secret, H)
  OBVIOUS
<1>6. PICK ki : ki = HandshakeKey("server", secret, H)
  OBVIOUS
<1>7. PICK r1 : r1 = [r EXCEPT !.th = H, !.suite = sh.suite, !.group = sh.group, !.secret = secret,
                        !.out = ko, !.in = ki, !.pc = "params"]
  OBVIOUS
<1>8. /\ DOMAIN r1 = Fields /\ r1.th = H /\ r1.suite = sh.suite /\ r1.group = sh.group /\ r1.secret = secret
      /\ r1.in = ki /\ r1.pc = "params" /\ r1.err = r.err /\ r1.sent = r.sent /\ r1.ech = r.ech
      /\ r1.echAccepted = r.echAccepted /\ r1.serverName = r.serverName /\ r1.session = r.session
      /\ r1.earlyKey = r.earlyKey /\ r1.didHRR = r.didHRR /\ r1.resumed = r.resumed
  BY <1>7 DEF Settled, Shape, Fields
<1>9. PICK q : q = ProcessServerHello(r, sh)
  OBVIOUS
<1>10. /\ DOMAIN q = Fields /\ q.th = H /\ q.suite = sh.suite /\ q.group = sh.group /\ q.secret = secret
       /\ q.in = ki /\ q.pc = "params" /\ q.err = r.err /\ q.sent = r.sent /\ q.ech = r.ech
       /\ q.echAccepted = r.echAccepted /\ q.serverName = r.serverName /\ q.session = r.session
       /\ q.earlyKey = r.earlyKey /\ q.didHRR = r.didHRR /\ q.resumed = sh.psk
       /\ sh.psk => q.serverCert = r.session.cert /\ q.verified = r.session.verified
  <2>1. CASE ~sh.psk
    <3>1. q = r1
      BY <1>1, <1>2, <1>3, <1>4, <1>5, <1>6, <1>7, <1>9, <2>1 DEF ProcessServerHello
    <3>2. sh.psk = FALSE /\ r.resumed = FALSE
      BY <2>1 DEF AnswerShape, Settled
    <3> QED
      BY <1>8, <2>1, <3>1, <3>2
  <2>2. CASE sh.psk
    <3>1. q = [r1 EXCEPT !.resumed = TRUE, !.serverCert = r.session.cert, !.verified = r.session.verified]
      BY <1>1, <1>2, <1>3, <1>4, <1>5, <1>6, <1>7, <1>9, <2>2 DEF ProcessServerHello
    <3>2. sh.psk = TRUE
      BY <2>2 DEF AnswerShape
    <3> QED
      BY <1>8, <3>1, <3>2 DEF Fields
  <2> QED
    BY <2>1, <2>2
<1>11. Shape(q)
  BY <1>10 DEF Shape, Settled, AnswerShape
<1>12. /\ e.body.suite = sh.suite /\ e.body.group = sh.group /\ e.body.psk = sh.psk
       /\ e.body.conf.label = sh.conf.label
  BY <1>1, AnswerRecorded
<1>13. /\ IsTh(H) /\ Len(r.th) \in Nat /\ Len(H) = Len(r.th) + 1 /\ H[Len(H)] = e
       /\ \A i \in 1..Len(r.th) : H[i] = r.th[i]
  <2>1. /\ IsTh(Append(r.th, e)) /\ Len(r.th) \in Nat /\ Len(Append(r.th, e)) = Len(r.th) + 1
        /\ Append(r.th, e)[Len(r.th) + 1] = e
        /\ \A i \in 1..Len(r.th) : Append(r.th, e)[i] = r.th[i]
    BY ThAppend DEF Decided
  <2> QED
    BY <1>2, <2>1
<1>14. Len(H) >= 2 /\ Len(H) - 1 = Len(r.th) /\ H[Len(H) - 1] = r.th[Len(r.th)]
       /\ (Len(H) = 2 <=> Len(r.th) = 1)
  <2>1. Len(r.th) >= 1
    BY DEF Decided
  <2>2. Len(r.th) \in 1..Len(r.th) /\ Len(H) - 1 = Len(r.th)
    BY <1>13, <2>1
  <2>3. PICK n : n = Len(r.th)
    OBVIOUS
  <2>4. n \in Nat /\ n >= 1 /\ Len(H) = n + 1 /\ H[n] = r.th[n]
    BY <1>13, <2>1, <2>2, <2>3
  <2>5. Len(H) >= 2 /\ Len(H) - 1 = n /\ (Len(H) = 2 <=> n = 1)
    BY <2>4
  <2> QED
    BY <2>3, <2>4, <2>5
<1>15. SaysHello(q, H)
  BY <1>10, <1>12, <1>13, <1>14 DEF SaysHello
<1>16. ClientTh(q, H)
  BY <1>10, <1>12, <1>13, <1>14, <1>15 DEF ClientTh, Decided
<1>17. ki.secret = secret /\ ki.th = H
  BY <1>6 DEF HandshakeKey, DeriveSecret
<1>18. r.session = c.session /\ (sh.psk => c.session # NoSession)
  BY DEF Settled, HelloOK
<1>19. Keyed(q)
  BY <1>10, <1>16, <1>17, <1>18 DEF Keyed
<1> QED
  BY <1>9, <1>10, <1>11, <1>19 DEF Settled

-----------------------------------------------------------------------------
(* processHelloRetryRequest. *)
Retries(c, q, sh) ==
    /\ Shape(q) /\ Offers(q, cfg, sealed) /\ q.pc = c.pc /\ q.err = c.err /\ q.ech = c.ech
    /\ q.earlyKey = c.earlyKey /\ q.session = c.session
    /\ q.echAccepted => sh.conf # NoConf
    /\ \E m : /\ Adds(c.sent, q.sent, {m}) /\ m.kind = "ClientHello" /\ WireOK(m.body, c.earlyKey, sealed)
              /\ cfg.client.ech # "none" => m.body.x.serverName = "public" /\ m.body.x.psk = NoPSK

(* The hello that answers a HelloRetryRequest, and the one that it is made of. *)
Answers(c, hello, inner, accepted) ==
    /\ HelloOK(hello, c.session, sealed) /\ OuterOK(hello.x, c.earlyKey, sealed)
    /\ hello.x.ech.kind = "outer" \/ EarlyOK({hello.x.earlyData}, hello.x.psk, c.earlyKey)
    /\ IF cfg.client.ech = "none"
       THEN /\ hello.x.ech = NoECH /\ hello.x.serverName = "secret" /\ c.serverName = "secret"
            /\ accepted = FALSE /\ c.ech = "none"
       ELSE /\ hello.x.ech.kind = "outer" /\ hello.x.serverName = "public"
            /\ HelloOK(inner, c.session, sealed) /\ inner.x.serverName = "secret" /\ inner.x.ech = InnerECH
            /\ c.ech = "offered" /\ c.serverName = "public"

(* The hello that answers a HelloRetryRequest is as good as the first. *)
LEMMA AnswerGood ==
  ASSUME NEW c, Offers(c, cfg, sealed), NoRetry(c), NEW r0, SameOffer(c, r0), NEW accepted \in BOOLEAN, NEW sh,
         accepted => c.ech = "offered", NEW th, IsTh(th), Len(th) = 2, NEW m, NEW hello, NEW inner,
         m = Retried(r0, IF accepted THEN r0.inner ELSE r0.hello, sh, th),
         hello = IF accepted THEN Resealed(r0, m) ELSE m,
         inner = IF accepted THEN m ELSE r0.inner
  PROVE  Answers(c, hello, inner, accepted)
<1>1. r0.hello = c.hello /\ r0.inner = c.inner /\ r0.session = c.session /\ c.echAccepted = FALSE
  BY DEF SameOffer, NoRetry
<1>2. HelloOK(c.hello, c.session, sealed) /\ OuterOK(c.hello.x, c.earlyKey, sealed)
  BY DEF Offers
<1>3. CASE ~accepted
  <2>1. m = Retried(r0, r0.hello, sh, th) /\ hello = m /\ inner = c.inner
    BY <1>1, <1>3
  <2>2. HelloOK(r0.hello, r0.session, sealed)
    BY <1>1, <1>2
  <2>3. RetriedOK(r0.hello, Retried(r0, r0.hello, sh, th), r0.session, sealed)
    BY <2>2, RetriedGood
  <2>4. /\ HelloOK(hello, c.session, sealed) /\ hello.x.earlyData = FALSE /\ hello.x.ech = c.hello.x.ech
        /\ hello.x.serverName = c.hello.x.serverName
    BY <1>1, <2>1, <2>3 DEF RetriedOK
  <2>5. EarlyOK({hello.x.earlyData}, hello.x.psk, c.earlyKey)
    BY <2>4 DEF EarlyOK
  <2>6. OuterOK(hello.x, c.earlyKey, sealed)
    <3>1. ASSUME hello.x.ech.kind = "outer", NEW enc, enc = hello.x.ech.payload.inner
          PROVE  /\ DOMAIN hello.x.ech = {"kind", "encap", "payload"}
                 /\ EncShape(enc) /\ LabelOK(enc.x.psk.label, sealed)
                 /\ EarlyOK({hello.x.earlyData, enc.x.earlyData}, enc.x.psk, c.earlyKey)
      <4>1. /\ DOMAIN hello.x.ech = {"kind", "encap", "payload"}
            /\ EncShape(enc) /\ LabelOK(enc.x.psk.label, sealed)
            /\ EarlyOK({c.hello.x.earlyData, enc.x.earlyData}, enc.x.psk, c.earlyKey)
        BY <1>2, <2>4, <3>1 DEF OuterOK
      <4>2. EarlyOK({hello.x.earlyData, enc.x.earlyData}, enc.x.psk, c.earlyKey)
        BY <2>4, <4>1 DEF EarlyOK
      <4> QED
        BY SMTT(30), <4>1, <4>2
    <3> QED
      BY SMTT(30), <3>1 DEF OuterOK
  <2>7. CASE cfg.client.ech = "none"
    BY <1>3, <2>4, <2>5, <2>6, <2>7 DEF Answers, Offers, OffersPlain
  <2>8. CASE cfg.client.ech # "none"
    BY <1>1, <2>1, <2>4, <2>5, <2>6, <2>8 DEF Answers, Offers, OffersECH
  <2> QED
    BY <2>7, <2>8
<1>4. CASE accepted
  <2>1. m = Retried(r0, r0.inner, sh, th) /\ hello = Resealed(r0, m) /\ inner = m
    BY <1>4
  <2>2. cfg.client.ech # "none" /\ OffersECH(c, sealed)
    BY <1>4 DEF Offers, OffersPlain
  <2>3. HelloOK(r0.inner, r0.session, sealed) /\ HelloOK(r0.hello, r0.session, sealed)
    BY <1>1, <1>2, <2>2 DEF OffersECH
  <2>4. RetriedOK(r0.inner, Retried(r0, r0.inner, sh, th), r0.session, sealed)
    BY <2>3, RetriedGood
  <2>5. RetriedOK(r0.inner, m, r0.session, sealed)
    BY <2>1, <2>4
  <2>6. PICK key : key = c.earlyKey
    OBVIOUS
  <2>7. /\ HelloOK(Resealed(r0, m), r0.session, sealed) /\ OuterOK(Resealed(r0, m).x, key, sealed)
        /\ Resealed(r0, m).x.ech.kind = "outer"
        /\ Resealed(r0, m).x.serverName = r0.hello.x.serverName
    BY <2>3, <2>5, ResealedGood
  <2>8. /\ HelloOK(hello, c.session, sealed) /\ OuterOK(hello.x, c.earlyKey, sealed)
        /\ hello.x.ech.kind = "outer" /\ hello.x.serverName = "public"
    BY <1>1, <2>1, <2>2, <2>6, <2>7 DEF OffersECH
  <2>9. HelloOK(inner, c.session, sealed) /\ inner.x.serverName = "secret" /\ inner.x.ech = InnerECH
    BY <1>1, <2>1, <2>2, <2>5 DEF RetriedOK, OffersECH
  <2> QED
    BY <1>1, <2>2, <2>8, <2>9 DEF Answers, OffersECH
<1> QED
  BY <1>3, <1>4

(* processHelloRetryRequest sends one hello, and offers what the first one *)
(* offered.                                                                *)
LEMMA RetryRetries ==
  ASSUME NEW c, Offers(c, cfg, sealed), NoRetry(c), NEW r0, Begun(c, r0), NEW sh, AnswerShape(sh)
  PROVE  Retries(c, ProcessHelloRetryRequest(r0, sh), sh)
<1> DEFINE accepted == RetryConfirms(r0, sh)
           e == ServerHelloEntry(sh)
           th == Append(MessageHash(r0.th), e)
           innerTh == Append(MessageHash(r0.innerTh), e)
           th1 == IF r0.ech = "none" THEN th ELSE innerTh
           m == Retried(r0, IF accepted THEN r0.inner ELSE r0.hello, sh, th1)
           hello == IF accepted THEN Resealed(r0, m) ELSE m
           wire == Marshal(hello, FALSE)
           inner == IF accepted THEN m ELSE r0.inner
           d == HelloEntry(Marshal(m, FALSE))
           ith == IF accepted THEN Append(innerTh, d) ELSE innerTh
           f == HelloEntry(wire)
           ath == Append(th, f)
           name == IF accepted THEN "secret" ELSE r0.serverName
           r == [r0 EXCEPT !.didHRR = TRUE, !.suite = sh.suite, !.hello = hello, !.inner = inner, !.innerTh = ith,
                           !.th = ath, !.serverName = name, !.echAccepted = accepted]
           q == Put(r, "ClientHello", wire)
<1>1. q = ProcessHelloRetryRequest(r0, sh)
  BY DEF ProcessHelloRetryRequest
<1>2. accepted \in BOOLEAN /\ (accepted => r0.ech = "offered" /\ sh.conf # NoConf)
  BY DEF RetryConfirms
<1> HIDE DEF accepted, e, th, innerTh, th1, m, hello, wire, inner, d, ith, f, ath, name, r, q
<1>3. /\ SameOffer(c, r0) /\ Shape(r0) /\ r0.ech = c.ech /\ r0.serverName = c.serverName
      /\ r0.pc = c.pc /\ r0.err = c.err /\ r0.sent = c.sent /\ r0.resumed = c.resumed
      /\ r0.session = c.session /\ r0.earlyKey = c.earlyKey
  BY DEF Begun, Same, SameOffer, SameNeg
<1>4. /\ IsTh(th) /\ Len(th) = 2 /\ IsTh(innerTh) /\ Len(innerTh) = 2 /\ innerTh[2] = e
      /\ IsTh(th1) /\ Len(th1) = 2
  <2>1. ASSUME NEW t
        PROVE  /\ IsTh(Append(MessageHash(t), e)) /\ Len(Append(MessageHash(t), e)) = 2
               /\ Append(MessageHash(t), e)[2] = e
    <3>1. PICK u : u = Entry("message_hash", t)
      OBVIOUS
    <3>2. MessageHash(t) = <<u>> /\ IsTh(<<u>>) /\ Len(<<u>>) = 1
      BY <3>1, ThOne DEF MessageHash
    <3>3. PICK v : v = <<u>>
      OBVIOUS
    <3>4. IsTh(v) /\ Len(v) = 1 /\ MessageHash(t) = v
      BY <3>2, <3>3
    <3>5. IsTh(Append(v, e)) /\ Len(Append(v, e)) = Len(v) + 1 /\ Append(v, e)[Len(v) + 1] = e
      BY <3>4, ThAppend
    <3> QED
      BY <3>4, <3>5
  <2>2. IsTh(th) /\ Len(th) = 2 /\ IsTh(innerTh) /\ Len(innerTh) = 2 /\ innerTh[2] = e
    BY <2>1 DEF th, innerTh
  <2> QED
    BY <2>2 DEF th1
<1>5. Answers(c, hello, inner, accepted)
  BY <1>2, <1>3, <1>4, AnswerGood DEF m, hello, inner
<1>6. HelloShape(hello) /\ WireOK(wire, c.earlyKey, sealed)
  <2>1. HelloShape(hello) /\ LabelOK(hello.x.psk.label, sealed)
    BY <1>5 DEF Answers, HelloOK
  <2>2. OuterOK(hello.x, c.earlyKey, sealed)
    BY <1>5 DEF Answers
  <2>3. hello.x.ech.kind = "outer" \/ EarlyOK({hello.x.earlyData}, hello.x.psk, c.earlyKey)
    BY <1>5 DEF Answers
  <2> QED
    BY <2>1, <2>2, <2>3, MarshalGood DEF wire
<1>7. cfg.client.ech # "none" => wire.x.serverName = "public" /\ wire.x.psk = NoPSK
  BY <1>5, <1>6, MarshalPlain DEF Answers, wire
<1>8. /\ DOMAIN r = Fields /\ r.didHRR = TRUE /\ r.hello = hello /\ r.inner = inner /\ r.innerTh = ith
      /\ r.th = ath /\ r.serverName = name /\ r.echAccepted = accepted /\ r.resumed = r0.resumed
      /\ r.pc = r0.pc /\ r.err = r0.err /\ r.ech = r0.ech /\ r.earlyKey = r0.earlyKey
      /\ r.session = r0.session /\ r.sent = r0.sent
  BY <1>3 DEF r, Shape, Fields
<1>9. c.resumed = FALSE
  BY DEF Offers
<1>10. Shape(r)
  BY <1>2, <1>3, <1>8, <1>9 DEF Shape
<1>11. PICK x : x = [kind |-> "ClientHello", key |-> r.out, body |-> wire]
  OBVIOUS
<1>12. Wrote(r, q, {x}) /\ q.th = r.th
  BY <1>10, <1>11, PutWrote DEF q
<1>13. /\ Shape(q) /\ q.didHRR = TRUE /\ q.hello = hello /\ q.inner = inner /\ q.innerTh = ith
       /\ q.th = ath /\ q.serverName = name /\ q.echAccepted = accepted /\ q.resumed = FALSE
       /\ q.pc = c.pc /\ q.err = c.err /\ q.ech = c.ech /\ q.earlyKey = c.earlyKey
       /\ q.session = c.session /\ Adds(c.sent, q.sent, {x})
  BY <1>3, <1>8, <1>9, <1>12 DEF Wrote, Same, SameOffer, SameNeg, SameRest
<1>14. IsTh(ath) /\ Len(ath) = 3 /\ ath[3] = f
  <2>1. IsTh(Append(th, f)) /\ Len(Append(th, f)) = Len(th) + 1 /\ Append(th, f)[Len(th) + 1] = f
    BY <1>4, ThAppend
  <2> QED
    BY <1>4, <2>1 DEF ath
<1>15. /\ IsTh(ith)
       /\ accepted => Len(ith) = 3 /\ ith[3] = d
       /\ ~accepted => Len(ith) = 2 /\ ith[2] = e
  <2>1. IsTh(Append(innerTh, d)) /\ Len(Append(innerTh, d)) = Len(innerTh) + 1 /\ Append(innerTh, d)[Len(innerTh) + 1] = d
    BY <1>4, ThAppend
  <2> QED
    BY <1>4, <2>1 DEF ith
<1>16. e.kind = "ServerHello"
  BY AnswerRecorded DEF e
<1>17. AfterRetry(q)
  BY <1>13, <1>14, <1>15, <1>16 DEF AfterRetry, f, d, wire, inner
<1>18. Offers(q, cfg, sealed)
  <2>1. HelloOK(q.hello, q.session, sealed) /\ OuterOK(q.hello.x, q.earlyKey, sealed)
    BY <1>5, <1>13 DEF Answers
  <2>2. CASE cfg.client.ech = "none"
    <3>1. OffersPlain(q, sealed)
      BY <1>3, <1>5, <1>13, <2>2 DEF OffersPlain, Answers, name
    <3> QED
      BY <1>13, <1>17, <2>1, <2>2, <3>1 DEF Offers
  <2>3. CASE cfg.client.ech # "none"
    <3>1. OffersECH(q, sealed)
      BY <1>3, <1>5, <1>13, <2>3 DEF OffersECH, Answers, name
    <3> QED
      BY <1>13, <1>17, <2>1, <2>3, <3>1 DEF Offers
  <2> QED
    BY <2>2, <2>3
<1>19. x.kind = "ClientHello" /\ x.body = wire
  BY <1>11
<1>20. Retries(c, q, sh)
  BY <1>2, <1>6, <1>7, <1>13, <1>18, <1>19 DEF Retries
<1> QED
  BY <1>1, <1>20

(* ServerHello and HelloRetryRequest keep the invariant. *)
LEMMA ServerHelloStep ==
  ASSUME Inv, ServerHello, UNCHANGED <<conn, cfg, sealed, proved>>
  PROVE  Inv'
<1> DEFINE c == st.client
           sh == Msg("client").body
           r0 == IF c.didHRR THEN c ELSE Started(c)
           r1 == Confirmed(r0, sh)
<1>1. /\ c = st.client /\ c.pc = "serverHello" /\ Waiting("client")
      /\ \/ /\ Sees("client", "ServerHello") /\ ~r0.didHRR
            /\ Reads("client", ProcessHelloRetryRequest(r0, sh)) /\ UNCHANGED cache
         \/ /\ Sees("client", "ServerHello") /\ ProcessServerHelloOK(r1, sh)
            /\ Reads("client", ProcessServerHello(r1, sh)) /\ UNCHANGED cache
         \/ ClientFails
  BY DEF ServerHello
<1>2. Now
  BY <1>1, Opened
<1>3. sh = Msg("client").body
  OBVIOUS
<1> HIDE DEF c, sh, r0, r1
<1>4. Shape(c) /\ ClientInv(c, cfg, sealed) /\ Link(c, st.server) /\ ClientSent(c, cfg, sealed)
  BY <1>1, <1>2 DEF Now, Open
<1>5. Offers(c, cfg, sealed) /\ c.err # "ECHRejectionError" /\ SessionOK(c, cfg)
  BY <1>1, <1>4 DEF ClientInv
<1>6. Begun(c, r0)
  BY <1>4, <1>5, StartedBegun DEF r0, Offers
<1>7. ASSUME Sees("client", "ServerHello")
      PROVE  AnswerShape(sh) /\ st.server.pc # "clientHello" /\ (sh.conf # NoConf => st.server.echAccepted)
  <2>1. ServerMsg(Msg("client"), st.server, conn)
    BY <1>1, <1>2, ServerMsgGood
  <2> QED
    BY <1>3, <1>7, <2>1 DEF ServerMsg, Sees
<1>8. CASE ClientFails
  BY <1>1, <1>2, <1>8, ClientFailsAt DEF ClientStates
<1>9. CASE Sees("client", "ServerHello") /\ ~r0.didHRR /\ Reads("client", ProcessHelloRetryRequest(r0, sh)) /\ UNCHANGED cache
  <2>1. NoRetry(c)
    BY <1>5, <1>6, <1>9 DEF Offers, AfterRetry, Begun, Same, SameNeg
  <2>2. PICK q : q = ProcessHelloRetryRequest(r0, sh)
    OBVIOUS
  <2>3. Retries(c, q, sh)
    BY <1>5, <1>6, <1>7, <1>9, <2>1, <2>2, RetryRetries
  <2>4. PICK m : /\ Adds(c.sent, q.sent, {m}) /\ m.kind = "ClientHello" /\ WireOK(m.body, c.earlyKey, sealed)
                 /\ cfg.client.ech # "none" => m.body.x.serverName = "public" /\ m.body.x.psk = NoPSK
    BY <2>3 DEF Retries
  <2>5. /\ Shape(q) /\ Offers(q, cfg, sealed) /\ q.pc = "serverHello" /\ q.err = c.err /\ q.ech = c.ech
        /\ q.earlyKey = c.earlyKey /\ q.session = c.session /\ (q.echAccepted => sh.conf # NoConf)
    BY <1>1, <2>3 DEF Retries
  <2>6. ClientFirm(c, q)
    BY <1>1, <2>5 DEF ClientFirm
  <2>7. \A x \in {m} : ClientMsg(x, q, cfg, sealed)
    BY <2>4, <2>5 DEF ClientMsg
  <2>8. ClientSent(q, cfg, sealed)
    BY <1>4, <2>4, <2>6, <2>7, ClientSentMore
  <2>9. ClientInv(q, cfg, sealed)
    BY <1>4, <1>5, <2>5 DEF ClientInv, ClientStates, ClientKeyed, SessionOK
  <2>10. Link(q, st.server)
    BY <1>1, <1>4, <1>5, <1>7, <1>9, <2>5 DEF Link
  <2>11. ClientNext(q)
    BY <2>5, <2>8, <2>9, <2>10 DEF ClientNext
  <2>12. CacheOK(cache', sealed) /\ Reads("client", q)
    BY <1>9, <2>2 DEF Inv
  <2> QED
    BY <1>1, <1>2, <2>11, <2>12, ClientCloses
<1>10. CASE /\ Sees("client", "ServerHello") /\ ProcessServerHelloOK(r1, sh)
            /\ Reads("client", ProcessServerHello(r1, sh)) /\ UNCHANGED cache
  <2>1. /\ Settled(c, Confirmed(r0, sh)) /\ Decided(Confirmed(r0, sh), sh)
        /\ ECHSettled(Confirmed(r0, sh), cfg) /\ HelloOK(Confirmed(r0, sh).hello, c.session, sealed)
        /\ (cfg.client.ech = "none" => Confirmed(r0, sh).ech = "none")
        /\ Confirmed(r0, sh).echAccepted => c.echAccepted \/ sh.conf.label = "sh"
        /\ c.ech = "none" => Confirmed(r0, sh).ech = "none"
        /\ c.ech # "accepted"
    BY <1>5, <1>6, ConfirmedSettled
  <2>2. /\ Settled(c, r1) /\ Decided(r1, sh) /\ ECHSettled(r1, cfg) /\ HelloOK(r1.hello, c.session, sealed)
        /\ (cfg.client.ech = "none" => r1.ech = "none")
        /\ r1.echAccepted => c.echAccepted \/ sh.conf.label = "sh"
        /\ c.ech = "none" => r1.ech = "none"
        /\ c.ech # "accepted"
    BY <2>1 DEF r1
  <2>3. AnswerShape(sh) /\ (sh.psk => r1.hello.x.psk.label # 0)
    BY <1>7, <1>10 DEF ProcessServerHelloOK
  <2>4. PICK q : q = ProcessServerHello(r1, sh)
    OBVIOUS
  <2>5. /\ Shape(q) /\ Keyed(q) /\ q.pc = "params" /\ q.err = c.err /\ q.sent = c.sent
        /\ q.ech = r1.ech /\ q.echAccepted = r1.echAccepted /\ q.serverName = r1.serverName
        /\ q.session = c.session /\ q.earlyKey = c.earlyKey
    BY <2>2, <2>3, <2>4, ServerHelloKeyed
  <2>6. ECHSettled(q, cfg) /\ SessionOK(q, cfg)
    BY <1>5, <2>2, <2>5 DEF ECHSettled, SessionOK
  <2>7. ClientInv(q, cfg, sealed)
    BY <1>4, <1>5, <2>2, <2>5, <2>6 DEF ClientInv, ClientStates, ClientKeyed
  <2>8. ClientFirm(c, q)
    BY <1>1, <1>5, <2>2, <2>5 DEF ClientFirm
  <2>9. ClientSent(q, cfg, sealed)
    <3>1. Adds(c.sent, q.sent, {})
      BY <2>5, AddsNone
    <3> QED
      BY <1>4, <2>8, <3>1, ClientSentMore
  <2>10. Link(q, st.server)
    <3>1. sh.conf.label = "sh" => sh.conf # NoConf
      BY DEF NoConf
    <3> QED
      BY <1>1, <1>4, <1>5, <1>7, <1>10, <2>2, <2>5, <3>1 DEF Link
  <2>11. ClientNext(q)
    BY <2>5, <2>7, <2>9, <2>10 DEF ClientNext
  <2>12. CacheOK(cache', sealed) /\ Reads("client", q)
    BY <1>10, <2>4 DEF Inv
  <2> QED
    BY <1>1, <1>2, <2>11, <2>12, ClientCloses
<1> QED
  BY <1>1, <1>8, <1>9, <1>10

-----------------------------------------------------------------------------
(* The server. *)

(* The message the server reads is a good one of the client. *)
LEMMA ClientMsgGood ==
  ASSUME Now, Waiting("server")
  PROVE  ClientMsg(Msg("server"), st.client, cfg, sealed)
<1>1. PICK M : st.client.sent \in Seq(M) /\ \A m \in M : ClientMsg(m, st.client, cfg, sealed)
  BY DEF Now, Open, ClientSent
<1>2. PICK x : x = st.client.sent
  OBVIOUS
<1>3. x # <<>> /\ x \in Seq(M)
  BY <1>1, <1>2 DEF Waiting, Peer
<1>4. Head(x) \in M
  BY <1>3
<1> QED
  BY <1>1, <1>2, <1>4 DEF Msg, Peer

(* All of ServerNext but what the server may do next. *)
ServerSound(q) == Shape(q) /\ ServerSent(q, conn) /\ Link(st.client, q) /\ TicketOK(q, proved')

(* The server is sound between its steps. *)
LEMMA SoundNow ==
  ASSUME Inv, Now, proved \subseteq proved'
  PROVE  ServerSound(st.server)
<1>1. TicketOK(st.server, proved')
  <2>1. TicketKept(st.server, conn, sealed) /\ SealedOK(sealed, proved) /\ conn \in 1..MaxConns
    BY DEF Inv, Now, Open
  <2> QED
    BY <2>1 DEF TicketKept, SealedOK, TicketOK
<1> QED
  BY <1>1 DEF ServerSound, Now, Open

(* A sound server that fails keeps its part of the invariant. *)
LEMMA SoundFails ==
  ASSUME NEW r, ServerSound(r), proved \subseteq proved'
  PROVE  ServerNext(Fail(r))
<1>1. PICK q : q = Fail(r)
  OBVIOUS
<1>2. Failed(r, q, "other")
  BY <1>1, FailFailed DEF Fail, ServerSound
<1>3. Shape(q) /\ Same(r, q) /\ q.ticket = r.ticket /\ q.pc = "failed"
  BY <1>2 DEF Failed
<1>4. PICK m : m.kind = "end" /\ Adds(r.sent, q.sent, {m})
  BY <1>2 DEF Failed
<1>5. ServerFirm(r, q)
  BY <1>3 DEF ServerFirm, ServerFlown, Same, SameNeg, SameKeys
<1>6. \A x \in {m} : ServerMsg(x, q, conn)
  BY <1>4 DEF ServerMsg
<1>7. ServerSent(q, conn)
  BY <1>4, <1>5, <1>6, ServerSentMore DEF ServerSound
<1>8. Outcome(q) = Outcome(r)
  BY <1>3 DEF Outcome, Same, SameNeg, SameKeys
<1>9. Link(st.client, q)
  BY <1>3, <1>8 DEF Link, Agreed, ServerSound, ServerFlown, Same, SameOffer, SameNeg, SameKeys
<1>10. ServerInv(q, cfg, proved')
  BY <1>3 DEF ServerInv, ServerFlown, ServerBusy
<1>11. TicketOK(q, proved')
  BY <1>3 DEF TicketOK, ServerSound
<1> QED
  BY <1>1, <1>3, <1>7, <1>9, <1>10, <1>11 DEF ServerNext

(* A server that fails at once keeps the invariant. *)
LEMMA ServerFailsAt ==
  ASSUME Inv, Now, Waiting("server"), ServerFails, UNCHANGED <<conn, cfg, cache, proved>>
  PROVE  Inv'
<1>1. ServerNext(Fail(st.server))
  BY SoundNow, SoundFails
<1> QED
  BY <1>1, ServerCloses DEF ServerFails

(* The server goes from r to q, which only tells more. *)
LEMMA SoundGoes ==
  ASSUME NEW r, ServerSound(r), NEW q, Shape(q), ServerFirm(r, q), NEW A, Adds(r.sent, q.sent, A),
         \A m \in A : ServerMsg(m, q, conn), r.pc \in ServerFlown, q.pc \in ServerFlown \ {"complete"},
         SameNeg(r, q), SameKeys(r, q), q.earlyKey = r.earlyKey, TicketOK(q, proved')
  PROVE  ServerSound(q)
<1>1. ServerSent(q, conn)
  BY ServerSentMore DEF ServerSound
<1>2. Outcome(q) = Outcome(r)
  BY DEF Outcome, SameNeg, SameKeys
<1>3. Link(st.client, q)
  BY <1>2 DEF Link, Agreed, ServerSound, ServerFlown, SameNeg, SameKeys
<1> QED
  BY <1>1, <1>3 DEF ServerSound

(* VerifyConnection leaves the server sound. *)
LEMMA SoundViewed ==
  ASSUME NEW r, ServerSound(r), NEW e, NEW v, Viewed(e, r, v), r.pc \in ServerFlown \ {"complete"}
  PROVE  ServerSound(v)
<1>1. /\ Shape(v) /\ SameNeg(r, v) /\ SameKeys(r, v) /\ v.earlyKey = r.earlyKey /\ v.pc = r.pc
      /\ v.ticket = r.ticket /\ v.sent = r.sent
  BY DEF Viewed, SameOffer, SameRest
<1>2. ServerFirm(r, v)
  BY <1>1 DEF ServerFirm, SameNeg, SameKeys
<1>3. Adds(r.sent, v.sent, {})
  BY <1>1, AddsNone
<1>4. TicketOK(v, proved')
  BY <1>1 DEF TicketOK, ServerSound
<1> QED
  BY <1>1, <1>2, <1>3, <1>4, SoundGoes

(* sendSessionTickets. *)
TicketsSent(r, q, A) ==
    /\ Shape(q) /\ Same(r, q) /\ q.pc = "clientFinished" /\ Adds(r.sent, q.sent, A)
    /\ \A m \in A : m.kind = "NewSessionTicket" /\ m.body.label = conn /\ q.ticket # NoSession
    /\ q.ticket = r.ticket \/ (q.ticket # NoSession /\ q.ticket.cert = r.peerCert)

(* A ticket holds the certificate the client has shown. *)
TicketSent(r, q, m) ==
    /\ Wrote([r EXCEPT !.ticket = q.ticket], q, {m}) /\ q.ticket # NoSession /\ q.ticket.cert = r.peerCert
    /\ Same(r, q) /\ q.pc = r.pc /\ q.err = r.err /\ Adds(r.sent, q.sent, {m})
    /\ m.kind = "NewSessionTicket" /\ m.body.label = conn

(* A ticket has the number of this connection, and the certificate the *)
(* client has shown.                                                   *)
LEMMA SendTicketSent ==
  ASSUME NEW r, Shape(r), NEW early
  PROVE  \E m : TicketSent(r, SendTicket(r, early), m)
<1>1. PICK t : t = [suite |-> r.suite, proto |-> r.proto, secret |-> r.resumption,
                    early |-> early, cert |-> r.peerCert, verified |-> r.verified]
  OBVIOUS
<1>2. t # NoSession /\ t.cert = r.peerCert
  <2>1. DOMAIN t = {"suite", "proto", "secret", "early", "cert", "verified"} /\ DOMAIN NoSession = {"suite"}
    BY <1>1 DEF NoSession
  <2> QED
    BY <1>1, <2>1
<1>3. PICK x : x = [r EXCEPT !.ticket = t]
  OBVIOUS
<1>4. /\ DOMAIN x = Fields /\ x.ticket = t /\ Same(r, x) /\ x.pc = r.pc /\ x.err = r.err /\ x.sent = r.sent
  BY <1>3 DEF Shape, Fields, Same, SameOffer, SameNeg, SameAuth, SameKeys
<1>5. Shape(x)
  BY <1>4 DEF Shape, Same, SameNeg
<1>6. PICK b : b = [label |-> conn, early |-> early]
  OBVIOUS
<1>7. PICK q : q = Put(x, "NewSessionTicket", b)
  OBVIOUS
<1>8. q = SendTicket(r, early)
  BY <1>1, <1>3, <1>6, <1>7 DEF SendTicket
<1>9. PICK m : m = [kind |-> "NewSessionTicket", key |-> x.out, body |-> b]
  OBVIOUS
<1>10. Wrote(x, q, {m})
  BY <1>5, <1>7, <1>9, PutWrote
<1>11. m.kind = "NewSessionTicket" /\ m.body.label = conn
  BY <1>6, <1>9
<1>12. q.ticket = t /\ Same(r, q) /\ q.pc = r.pc /\ q.err = r.err /\ Adds(r.sent, q.sent, {m})
  BY <1>4, <1>10 DEF Wrote, Same, SameRest, SameOffer, SameNeg, SameAuth, SameKeys
<1> QED
  BY <1>2, <1>3, <1>8, <1>10, <1>11, <1>12 DEF TicketSent

(* sendSessionTickets sends a ticket or none. *)
LEMMA SessionTicketsSent ==
  ASSUME NEW r, Shape(r)
  PROVE  \E A : TicketsSent(r, SendSessionTickets(r), A)
<1>1. PICK h : h = Heard(r, "Finished", <<>>)
  OBVIOUS
<1>2. Wrote(r, h, {})
  BY <1>1, HeardWrote
<1>3. PICK f : f = FinishedHash(r.in, r.th)
  OBVIOUS
<1>4. PICK r1 : r1 = [h EXCEPT !.clientFinished = f]
  OBVIOUS
<1>5. PICK k : k = DeriveSecret("resumption", "both", r.secret, r1.th)
  OBVIOUS
<1>6. PICK r2 : r2 = [r1 EXCEPT !.resumption = k, !.pc = "clientFinished"]
  OBVIOUS
<1>7. /\ DOMAIN r2 = Fields /\ Same(h, r2) /\ r2.pc = "clientFinished" /\ r2.sent = h.sent
      /\ r2.ticket = h.ticket
  BY <1>2, <1>4, <1>6 DEF Wrote, Shape, Fields, Same, SameOffer, SameNeg, SameAuth, SameKeys
<1>8. Shape(r2) /\ Same(r, r2) /\ r2.ticket = r.ticket /\ Adds(r.sent, r2.sent, {})
  BY <1>2, <1>7 DEF Wrote, Shape, Same, SameRest, SameOffer, SameNeg, SameAuth, SameKeys
<1>9. PICK q : q = SendSessionTickets(r)
  OBVIOUS
<1>10. q = IF cfg.server.tickets /\ ~cfg.quic /\ r.hello.x.pskModes THEN SendTicket(r2, FALSE) ELSE r2
  BY <1>1, <1>3, <1>4, <1>5, <1>6, <1>9 DEF SendSessionTickets
<1>11. CASE q = r2
  <2>1. TicketsSent(r, r2, {})
    BY <1>7, <1>8 DEF TicketsSent
  <2> QED
    BY <1>9, <1>11, <2>1
<1>12. CASE q = SendTicket(r2, FALSE)
  <2>1. PICK m : TicketSent(r2, q, m)
    BY <1>8, <1>12, SendTicketSent
  <2>2. Adds(r.sent, q.sent, {} \cup {m})
    BY <1>8, <2>1, AddsMore DEF TicketSent
  <2>3. {} \cup {m} = {m}
    OBVIOUS
  <2>4. Shape(q) /\ Same(r, q) /\ q.pc = "clientFinished" /\ q.ticket # NoSession /\ q.ticket.cert = r.peerCert
    BY <1>7, <1>8, <2>1 DEF TicketSent, Wrote, Same, SameOffer, SameNeg, SameAuth, SameKeys
  <2>5. TicketsSent(r, q, {m})
    BY <2>1, <2>2, <2>3, <2>4 DEF TicketsSent, TicketSent
  <2> QED
    BY <1>9, <2>5
<1> QED
  BY <1>10, <1>11, <1>12

(* The tickets leave the server sound if the client's certificate is *)
(* proved.                                                           *)
LEMMA TicketsSound ==
  ASSUME NEW r, ServerSound(r), r.pc \in ServerFlown \ {"complete"}, r.peerCert \in proved' \cup {"none"}
  PROVE  /\ ServerSound(SendSessionTickets(r)) /\ Same(r, SendSessionTickets(r))
         /\ SendSessionTickets(r).pc = "clientFinished"
<1>1. PICK q : q = SendSessionTickets(r)
  OBVIOUS
<1>2. PICK A : TicketsSent(r, q, A)
  BY <1>1, SessionTicketsSent DEF ServerSound
<1>3. /\ Shape(q) /\ Same(r, q) /\ SameNeg(r, q) /\ SameKeys(r, q) /\ q.earlyKey = r.earlyKey
      /\ q.pc = "clientFinished" /\ Adds(r.sent, q.sent, A)
  BY <1>2 DEF TicketsSent, Same, SameOffer
<1>4. TicketOK(q, proved')
  BY <1>2 DEF TicketsSent, TicketOK, ServerSound
<1>5. ServerFirm(r, q)
  BY <1>2, <1>3 DEF ServerFirm, ServerFlown, TicketsSent, SameNeg, SameKeys
<1>6. \A m \in A : ServerMsg(m, q, conn)
  BY <1>2, <1>3 DEF TicketsSent, ServerMsg
<1>7. q.pc \in ServerFlown \ {"complete"}
  BY <1>3 DEF ServerFlown
<1>8. ServerSound(q)
  BY <1>3, <1>4, <1>5, <1>6, <1>7, SoundGoes
<1> QED
  BY <1>1, <1>3, <1>8

-----------------------------------------------------------------------------
(* The server after its flight. *)

(* The server's part of the invariant. *)
LEMMA ServerAt ==
  ASSUME Now
  PROVE  /\ Shape(st.server) /\ ServerInv(st.server, cfg, proved) /\ Link(st.client, st.server) /\ CfgOK(cfg)
         /\ ServerSent(st.server, conn)
BY DEF Now, Open

(* The client's Finished keeps the invariant: the client has completed, or *)
(* told the caller that ECH was rejected.                                  *)
LEMMA ClientFinishedStep ==
  ASSUME Inv, ClientFinished, UNCHANGED <<conn, cfg, cache, proved>>
  PROVE  Inv'
<1>1. PICK s : s = st.server
  OBVIOUS
<1>2. s.pc = "clientFinished" /\ Now /\ Waiting("server")
  BY <1>1, Opened DEF ClientFinished
<1>3. Shape(s) /\ ServerInv(s, cfg, proved) /\ Link(st.client, s) /\ ServerSent(s, conn)
  BY <1>1, <1>2, ServerAt
<1>4. CASE ServerFails
  BY <1>2, <1>4, ServerFailsAt
<1>5. CASE Sees("server", "Finished") /\ ServerGoes([s EXCEPT !.in = s.trafficSecret, !.pc = "complete"])
  <2>1. PICK q : q = [s EXCEPT !.in = s.trafficSecret, !.pc = "complete"]
    OBVIOUS
  <2>2. /\ DOMAIN q = Fields /\ q.pc = "complete" /\ q.in = q.trafficSecret /\ q.trafficSecret = s.trafficSecret
        /\ SameOffer(s, q) /\ SameNeg(s, q) /\ SameAuth(s, q) /\ q.out = s.out /\ q.secret = s.secret
        /\ q.ekm = s.ekm /\ q.ticket = s.ticket /\ q.sent = s.sent
    BY <1>3, <2>1 DEF Shape, Fields, SameOffer, SameNeg, SameAuth
  <2>3. Shape(q)
    BY <1>3, <2>2 DEF Shape, SameNeg
  <2>4. ServerFirm(s, q)
    BY <2>2 DEF ServerFirm, ServerFlown, SameNeg
  <2>5. ServerSent(q, conn)
    <3>1. Adds(s.sent, q.sent, {})
      BY <2>2, AddsNone
    <3> QED
      BY <1>3, <2>4, <3>1, ServerSentMore
  <2>6. View(q) = View(s)
    BY <2>2, ViewSame DEF SameAuth
  <2>7. Authorized(s, cfg) /\ s.peerCert \in proved \cup {"none"}
    BY <1>2, <1>3 DEF ServerInv
  <2>8. Authorized(q, cfg) /\ q.peerCert \in proved \cup {"none"}
    BY <2>2, <2>6, <2>7 DEF Authorized, Policy, SameAuth
  <2>9. ServerInv(q, cfg, proved)
    BY <2>2, <2>8 DEF ServerInv, ServerBusy, ServerFlown
  <2>10. st.client.pc = "complete" \/ st.client.err = "ECHRejectionError"
    <3>1. ClientMsg(Msg("server"), st.client, cfg, sealed)
      BY <1>2, ClientMsgGood
    <3> QED
      BY <1>5, <3>1 DEF ClientMsg, Sees
  <2>11. Link(st.client, q)
    <3>1. Outcome(q) = Outcome(s)
      BY <2>2 DEF Outcome, SameNeg
    <3> QED
      BY <1>2, <1>3, <2>2, <2>10, <3>1 DEF Link, Agreed, ServerFlown, SameOffer, SameNeg
  <2>12. TicketOK(q, proved')
    <3>1. ServerSound(s)
      BY <1>1, <1>2, SoundNow
    <3> QED
      BY <2>2, <3>1 DEF ServerSound, TicketOK
  <2>13. ServerNext(q)
    BY <2>3, <2>5, <2>9, <2>11, <2>12 DEF ServerNext
  <2>14. ServerGoes(q)
    BY <1>5, <2>1
  <2> QED
    BY <1>2, <2>13, <2>14, ServerCloses
<1> QED
  BY <1>1, <1>4, <1>5 DEF ClientFinished

(* The client's CertificateVerify keeps the invariant: its certificate is *)
(* now proved.                                                            *)
LEMMA ClientCertificateVerifyStep ==
  ASSUME Inv, ClientCertificateVerify, UNCHANGED <<conn, cfg, cache>>
  PROVE  Inv'
<1>1. PICK s : s = st.server
  OBVIOUS
<1>2. s.pc = "certVerify" /\ Now /\ Waiting("server")
  BY <1>1, Opened DEF ClientCertificateVerify
<1>3. Shape(s) /\ ServerInv(s, cfg, proved)
  BY <1>1, <1>2, ServerAt
<1>4. CASE ServerFails /\ UNCHANGED proved
  BY <1>2, <1>4, ServerFailsAt
<1>5. ASSUME NEW alg, ServerGoes(SendSessionTickets(Heard(s, "CertificateVerify", alg))),
             proved' = proved \cup {s.peerCert}
      PROVE  Inv'
  <2>1. PICK r : r = Heard(s, "CertificateVerify", alg)
    OBVIOUS
  <2>2. Wrote(s, r, {})
    BY <1>3, <2>1, HeardWrote
  <2>3. /\ Shape(r) /\ SameNeg(s, r) /\ SameKeys(s, r) /\ SameAuth(s, r) /\ r.earlyKey = s.earlyKey
        /\ r.pc = "certVerify" /\ r.ticket = s.ticket /\ Adds(s.sent, r.sent, {})
    BY <1>2, <2>2 DEF Wrote, Same, SameOffer, SameRest
  <2>4. ServerSound(s) /\ proved \subseteq proved'
    BY <1>1, <1>2, <1>5, SoundNow
  <2>5. ServerFirm(s, r) /\ TicketOK(r, proved')
    BY <1>2, <2>3, <2>4 DEF ServerFirm, ServerFlown, SameNeg, SameKeys, ServerSound, TicketOK
  <2>6. s.pc \in ServerFlown /\ r.pc \in ServerFlown \ {"complete"}
    BY <1>2, <2>3 DEF ServerFlown
  <2>7. ServerSound(r)
    BY <2>3, <2>4, <2>5, <2>6, SoundGoes
  <2>8. r.peerCert \in proved' \cup {"none"}
    BY <1>5, <2>3 DEF SameAuth
  <2>9. PICK q : q = SendSessionTickets(r)
    OBVIOUS
  <2>10. ServerSound(q) /\ Same(r, q) /\ q.pc = "clientFinished"
    BY <2>6, <2>7, <2>8, <2>9, TicketsSound
  <2>11. SameNeg(s, q) /\ SameAuth(s, q)
    BY <2>3, <2>10 DEF Same, SameNeg, SameAuth
  <2>12. View(q) = View(s)
    BY <2>11, ViewSame DEF SameAuth
  <2>13. Authorized(s, cfg)
    BY <1>2, <1>3 DEF ServerInv
  <2>14. Authorized(q, cfg) /\ q.peerCert \in proved' \cup {"none"}
    BY <1>5, <2>11, <2>12, <2>13 DEF Authorized, Policy, SameAuth
  <2>15. ServerInv(q, cfg, proved')
    BY <2>10, <2>14 DEF ServerInv, ServerBusy, ServerFlown
  <2>16. ServerNext(q) /\ ServerGoes(q)
    BY <1>5, <2>1, <2>9, <2>10, <2>15 DEF ServerNext, ServerSound
  <2> QED
    BY <1>2, <2>4, <2>16, ServerCloses
<1> QED
  BY <1>1, <1>4, <1>5 DEF ClientCertificateVerify

(* The client's Certificate keeps the invariant: it is what ClientAuth asks *)
(* for.                                                                     *)
LEMMA ClientCertificateStep ==
  ASSUME Inv, ClientCertificate, UNCHANGED <<conn, cfg, cache, proved>>
  PROVE  Inv'
<1> DEFINE s == st.server
           cert == Msg("server").body
           h == Heard(s, "Certificate", cert)
           ver == cert # "none" /\ cfg.server.auth >= 3
           y == [h EXCEPT !.peerCert = cert, !.verified = ver, !.pc = "certVerify"]
           r == VerifyConnection("server", y)
<1>1. /\ s = st.server /\ s.pc = "clientCert" /\ Waiting("server")
      /\ \/ ClientCertificateOK(cert) /\ ServerGoes(Fail(r))
         \/ ClientCertificateOK(cert) /\ cert = "none" /\ ServerGoes(SendSessionTickets(r))
         \/ ClientCertificateOK(cert) /\ cert # "none" /\ ServerGoes(r)
         \/ ServerFails
  BY DEF ClientCertificate
<1> HIDE DEF s, cert, h, ver, y, r
<1>2. Now
  BY <1>1, Opened
<1>3. Shape(s) /\ ServerInv(s, cfg, proved) /\ CfgOK(cfg)
  BY <1>1, <1>2, ServerAt
<1>4. Wrote(s, h, {})
  BY <1>3, HeardWrote DEF h
<1>5. /\ DOMAIN y = Fields /\ y.peerCert = cert /\ y.verified = ver /\ y.pc = "certVerify"
      /\ SameOffer(h, y) /\ SameNeg(h, y) /\ SameKeys(h, y) /\ y.ticket = h.ticket /\ y.sent = h.sent
  BY <1>4 DEF y, Wrote, Shape, Fields, SameOffer, SameNeg, SameKeys
<1>6. /\ Shape(y) /\ SameNeg(s, y) /\ SameKeys(s, y) /\ y.earlyKey = s.earlyKey /\ y.ticket = s.ticket
      /\ Adds(s.sent, y.sent, {})
  BY <1>4, <1>5 DEF Wrote, Shape, Same, SameOffer, SameNeg, SameKeys, SameRest
<1>7. ServerSound(s)
  BY <1>1, <1>2, SoundNow
<1>8. s.pc \in ServerFlown /\ y.pc \in ServerFlown \ {"complete"} /\ s.ticket = NoSession
  BY <1>1, <1>3, <1>5 DEF ServerFlown, ServerInv
<1>9. ServerSound(y)
  <2>1. ServerFirm(s, y) /\ TicketOK(y, proved')
    BY <1>6, <1>8 DEF ServerFirm, ServerFlown, SameNeg, SameKeys, TicketOK
  <2> QED
    BY <1>6, <1>7, <1>8, <2>1, SoundGoes
<1>10. Viewed("server", y, r)
  BY <1>6, VerifyViewed DEF r
<1>11. ServerSound(r)
  BY <1>8, <1>9, <1>10, SoundViewed
<1>12. /\ r.pc = "certVerify" /\ r.peerCert = cert /\ r.verified = ver /\ r.ticket = NoSession
       /\ cfg.server.verify # "nil" => r.saw = View(r)
  BY <1>5, <1>6, <1>8, <1>10 DEF Viewed, SameRest
<1>13. CASE ServerFails
  BY <1>1, <1>2, <1>13, ServerFailsAt
<1>14. CASE ServerGoes(Fail(r))
  BY <1>1, <1>2, <1>11, <1>14, SoundFails, ServerCloses
<1>15. ASSUME ClientCertificateOK(cert)
       PROVE  Authorized(r, cfg)
  <2>1. cfg.server.auth \in 0..4
    BY <1>3, Handshake13Assumption DEF CfgOK, TypeOfServerCfg
  <2>2. cfg.server.auth # 0
    BY <1>1, <1>3 DEF ServerInv
  <2> QED
    BY <1>12, <1>15, <2>1, <2>2 DEF Authorized, Policy, ClientCertificateOK, RequiresClientCert, ver
<1>16. CASE ClientCertificateOK(cert) /\ cert = "none" /\ ServerGoes(SendSessionTickets(r))
  <2>1. PICK q : q = SendSessionTickets(r)
    OBVIOUS
  <2>2. r.pc \in ServerFlown \ {"complete"} /\ r.peerCert \in proved' \cup {"none"}
    BY <1>12, <1>16 DEF ServerFlown
  <2>3. ServerSound(q) /\ Same(r, q) /\ q.pc = "clientFinished"
    BY <1>11, <2>1, <2>2, TicketsSound
  <2>4. View(q) = View(r) /\ SameAuth(r, q)
    BY <2>3, ViewSame DEF Same, SameAuth
  <2>5. Authorized(q, cfg) /\ q.peerCert \in proved' \cup {"none"}
    BY <1>15, <1>16, <2>2, <2>4 DEF Authorized, Policy, SameAuth
  <2>6. ServerInv(q, cfg, proved')
    BY <2>3, <2>5 DEF ServerInv, ServerBusy, ServerFlown
  <2>7. ServerNext(q) /\ ServerGoes(q)
    BY <1>16, <2>1, <2>3, <2>6 DEF ServerNext, ServerSound
  <2> QED
    BY <1>1, <1>2, <2>7, ServerCloses
<1>17. CASE ClientCertificateOK(cert) /\ cert # "none" /\ ServerGoes(r)
  <2>1. ServerInv(r, cfg, proved')
    BY <1>12, <1>15, <1>17 DEF ServerInv, ServerBusy, ServerFlown
  <2>2. ServerNext(r)
    BY <1>11, <2>1 DEF ServerNext, ServerSound
  <2> QED
    BY <1>1, <1>2, <1>17, <2>2, ServerCloses
<1> QED
  BY <1>1, <1>13, <1>14, <1>16, <1>17

-----------------------------------------------------------------------------
(* QUICConn.SendSessionTicket. *)
LEMMA SendSessionTicketStep ==
  ASSUME Inv, NEW early, SendSessionTicket(early)
  PROVE  Inv'
<1>1. PICK s : s = st.server
  OBVIOUS
<1>2. PICK q : q = SendTicket(s, early)
  OBVIOUS
<1>3. /\ s.pc = "complete" /\ Now /\ s.ticket = NoSession /\ Goes("server", q)
      /\ sealed' = [sealed EXCEPT ![conn] = q.ticket]
      /\ UNCHANGED <<conn, cfg, cache, proved>>
  BY <1>1, <1>2, Opened DEF SendSessionTicket, Complete
<1>4. Shape(s) /\ ServerInv(s, cfg, proved) /\ Link(st.client, s) /\ ServerSent(s, conn) /\ conn \in 1..MaxConns
  BY <1>1, <1>3, ServerAt DEF Now, Open
<1>5. PICK m : TicketSent(s, q, m)
  BY <1>2, <1>4, SendTicketSent
<1>6. /\ Shape(q) /\ Same(s, q) /\ q.pc = "complete" /\ q.ticket # NoSession /\ q.ticket.cert = s.peerCert
      /\ Adds(s.sent, q.sent, {m}) /\ m.kind = "NewSessionTicket" /\ m.body.label = conn
  BY <1>3, <1>5 DEF TicketSent, Wrote
<1>7. SameNeg(s, q) /\ SameAuth(s, q) /\ SameKeys(s, q) /\ SameOffer(s, q)
  BY <1>6 DEF Same
<1>8. View(q) = View(s)
  BY <1>7, ViewSame DEF SameAuth
<1>9. ServerFirm(s, q)
  BY <1>3, <1>6, <1>7 DEF ServerFirm, SameNeg, SameKeys
<1>10. \A x \in {m} : ServerMsg(x, q, conn)
  BY <1>6 DEF ServerMsg
<1>11. ServerSent(q, conn)
  BY <1>4, <1>6, <1>9, <1>10, ServerSentMore
<1>12. ServerInv(q, cfg, proved)
  BY <1>3, <1>4, <1>6, <1>7, <1>8
     DEF ServerInv, ServerBusy, ServerFlown, Authorized, Policy, SameAuth, SameKeys
<1>13. Link(st.client, q)
  <2>1. Outcome(q) = Outcome(s)
    BY <1>7 DEF Outcome, SameNeg, SameKeys
  <2> QED
    BY <1>3, <1>4, <1>6, <1>7, <2>1 DEF Link, Agreed, SameOffer, SameNeg, SameKeys
<1>14. TicketOK(q, proved)
  BY <1>3, <1>4, <1>6 DEF TicketOK, ServerInv
<1>15. SealedOK(sealed', proved) /\ Grows(sealed, sealed') /\ TicketKept(q, conn, sealed')
  <2>1. sealed' = IF q.ticket = NoSession THEN sealed ELSE [sealed EXCEPT ![conn] = q.ticket]
    BY <1>3, <1>6
  <2>2. SealedOK(sealed, proved) /\ proved \subseteq proved
    BY DEF Inv
  <2> QED
    BY <1>4, <1>14, <2>1, <2>2, TicketSealed
<1>16. PICK c : c = st.client
  OBVIOUS
<1>17. Shape(c) /\ ClientInv(c, cfg, sealed) /\ ClientSent(c, cfg, sealed)
  BY <1>3, <1>16 DEF Now, Open
<1>18. Stays(c, c) /\ ClientFirm(c, c)
  BY <1>17 DEF Stays, ClientFirm, Same, SameRest, SameOffer, SameNeg, SameAuth, SameKeys
<1>19. ClientInv(c, cfg, sealed')
  BY <1>15, <1>17, <1>18, ClientStays
<1>20. ClientSent(c, cfg, sealed')
  BY <1>15, <1>17, ClientMsgGrows DEF ClientSent
<1>21. Open(c, q, cfg, conn, sealed', proved)
  BY <1>3, <1>4, <1>6, <1>11, <1>12, <1>13, <1>15, <1>16, <1>17, <1>19, <1>20 DEF Open, Now
<1>22. DOMAIN st' = Ends /\ st'.client = c /\ st'.server = q
  BY <1>3, <1>16 DEF Goes, Inv, Ends
<1>23. Open(st'.client, st'.server, cfg', conn', sealed', proved')
  BY <1>3, <1>21, <1>22
<1>24. CacheOK(cache', sealed')
  BY <1>3, <1>15 DEF Inv, CacheOK, Issued, Grows
<1> QED
  BY <1>3, <1>15, <1>22, <1>23, <1>24 DEF Inv

-----------------------------------------------------------------------------
(* The flight of the server.  The hello it answers, and the transcript before it: *)
AnswersTo(r) ==
    /\ Shape(r) /\ WireShape(r.hello) /\ r.serverName = r.hello.x.serverName
    /\ IsTh(r.th) /\ Len(r.th) = (IF r.didHRR THEN 2 ELSE 0)
    /\ r.echAccepted => r.hello.x.ech = InnerECH
    /\ r.resumed => r.hello.x.psk.label # 0

(* What sendServerParameters leaves, behind which the keys are the *)
(* transcript's.                                                   *)
ParamsSent(r, p, A) ==
    /\ Shape(p) /\ SameOffer(r, p) /\ SameNeg(r, p) /\ SameAuth(r, p) /\ p.ticket = r.ticket
    /\ Adds(r.sent, p.sent, A)
    /\ p.out.secret = p.secret /\ ServerTh(p, p.out.th) /\ SaysParams(p, p.out.th, p.th)
    /\ \A m \in A : /\ m.kind \in {"ServerHello", "EncryptedExtensions"}
                    /\ m.kind = "ServerHello" => AnswerShape(m.body) /\ (m.body.conf # NoConf => r.echAccepted)

(* The ServerHello, or the HelloRetryRequest, and its confirmation. *)
LEMMA AnswerMade ==
  ASSUME NEW r, NEW sh0, AnswerShape(sh0), sh0.conf = NoConf, NEW y, NEW sh,
         sh = IF r.echAccepted THEN [sh0 EXCEPT !.conf = y] ELSE sh0
  PROVE  /\ AnswerShape(sh) /\ sh.suite = sh0.suite /\ sh.group = sh0.group /\ sh.psk = sh0.psk
         /\ ~r.echAccepted => sh.conf = NoConf
BY DEF AnswerShape

(* The ServerHello before its confirmation. *)
LEMMA AnswerBegun ==
  ASSUME NEW r, NEW retry
  PROVE  LET sh == ServerHelloMsg(r, retry) IN
         AnswerShape(sh) /\ sh.suite = r.suite /\ sh.group = r.group /\ sh.conf = NoConf
BY DEF ServerHelloMsg, AnswerShape

(* sendServerParameters: the handshake keys come from a transcript that    *)
(* says the suite, the group, the session, the server name and whether ECH *)
(* was accepted.                                                           *)
LEMMA ParametersSent ==
  ASSUME NEW r, AnswersTo(r)
  PROVE  \E A : ParamsSent(r, SendServerParameters(r), A)
<1> DEFINE sh0 == [ServerHelloMsg(r, FALSE) EXCEPT !.psk = r.resumed]
           h == HelloEntry(r.hello)
           th0 == Append(r.th, h)
           sh == IF r.echAccepted THEN [sh0 EXCEPT !.conf = Confirmation("sh", r.hello, th0, sh0)] ELSE sh0
           e == ServerHelloEntry(sh)
           H == Append(th0, e)
           share == r.hello.x.keyShares[SelectInSeq(r.hello.x.keyShares, LAMBDA k : k.group = r.group)]
           secret == HandshakeSecret(IF r.resumed THEN r.session.secret ELSE NoPSKey, share)
           ko == HandshakeKey("server", secret, H)
           ki == HandshakeKey("client", secret, H)
           x == Put(r, "ServerHello", sh)
           r1 == [x EXCEPT !.th = H, !.secret = secret, !.out = ko, !.in = ki]
           ee == [proto |-> r.proto, early |-> r.early, quicTP |-> cfg.quic, retryConfigs |-> RetryConfigs(r)]
           p == Says(r1, "EncryptedExtensions", ee)
<1>1. p = SendServerParameters(r)
  BY DEF SendServerParameters
<1> HIDE DEF sh0, h, th0, sh, e, H, share, secret, ko, ki, x, r1, ee, p
<1>2. /\ AnswerShape(sh) /\ sh.suite = r.suite /\ sh.group = r.group /\ sh.psk = r.resumed
      /\ ~r.echAccepted => sh.conf = NoConf
  <2>1. PICK x0 : x0 = ServerHelloMsg(r, FALSE)
    OBVIOUS
  <2>2. AnswerShape(x0) /\ x0.suite = r.suite /\ x0.group = r.group /\ x0.conf = NoConf
    BY <2>1, AnswerBegun
  <2>3. sh0 = [x0 EXCEPT !.psk = r.resumed] /\ r.resumed \in BOOLEAN
    BY <2>1 DEF sh0, AnswersTo, Shape
  <2>4. /\ AnswerShape(sh0) /\ sh0.suite = r.suite /\ sh0.group = r.group /\ sh0.conf = NoConf
        /\ sh0.psk = r.resumed
    BY <2>2, <2>3 DEF AnswerShape
  <2>5. PICK y : y = Confirmation("sh", r.hello, th0, sh0)
    OBVIOUS
  <2>6. sh = IF r.echAccepted THEN [sh0 EXCEPT !.conf = y] ELSE sh0
    BY <2>5 DEF sh
  <2>7. /\ AnswerShape(sh) /\ sh.suite = sh0.suite /\ sh.group = sh0.group /\ sh.psk = sh0.psk
        /\ ~r.echAccepted => sh.conf = NoConf
    BY <2>4, <2>6, AnswerMade
  <2> QED
    BY <2>4, <2>7
<1>3. PICK m1 : m1 = [kind |-> "ServerHello", key |-> r.out, body |-> sh]
  OBVIOUS
<1>4. Wrote(r, x, {m1})
  BY <1>3, PutWrote DEF x, AnswersTo
<1>5. /\ DOMAIN r1 = Fields /\ SameOffer(x, r1) /\ SameNeg(x, r1) /\ SameAuth(x, r1) /\ r1.ticket = x.ticket
      /\ r1.sent = x.sent /\ r1.th = H /\ r1.secret = secret /\ r1.out = ko
  BY <1>4 DEF r1, Wrote, Shape, Fields, SameOffer, SameNeg, SameAuth
<1>6. /\ Shape(r1) /\ SameOffer(r, r1) /\ SameNeg(r, r1) /\ SameAuth(r, r1) /\ r1.ticket = r.ticket
      /\ Adds(r.sent, r1.sent, {m1})
  BY <1>4, <1>5 DEF Wrote, Shape, Same, SameRest, SameOffer, SameNeg, SameAuth
<1>7. PICK m2 : m2 = [kind |-> "EncryptedExtensions", key |-> r1.out, body |-> ee]
  OBVIOUS
<1>8. Wrote(r1, p, {m2}) /\ p.th = Append(H, Entry("EncryptedExtensions", ee))
  <2>1. Spoke(r1, p, "EncryptedExtensions", ee, m2)
    BY <1>6, <1>7, SaysSpoke DEF p
  <2> QED
    BY <1>5, <2>1 DEF Spoke
<1>9. /\ Shape(p) /\ SameOffer(r, p) /\ SameNeg(r, p) /\ SameAuth(r, p) /\ p.ticket = r.ticket
      /\ p.out = ko /\ p.secret = secret
  BY <1>5, <1>6, <1>8 DEF Wrote, Same, SameRest, SameOffer, SameNeg, SameAuth, SameKeys
<1>10. Adds(r.sent, p.sent, {m1} \cup {m2})
  BY <1>6, <1>8, AddsMore DEF Wrote
<1>11. ko.secret = secret /\ ko.th = H
  BY DEF ko, HandshakeKey, DeriveSecret
<1>12. /\ IsTh(th0) /\ Len(th0) = Len(r.th) + 1 /\ th0[Len(th0)] = h /\ Len(r.th) \in Nat
  <2>1. IsTh(Append(r.th, h)) /\ Len(r.th) \in Nat /\ Len(Append(r.th, h)) = Len(r.th) + 1
        /\ Append(r.th, h)[Len(r.th) + 1] = h
    BY ThAppend DEF AnswersTo
  <2> QED
    BY <2>1 DEF th0
<1>13. IsTh(H) /\ Len(H) = Len(th0) + 1 /\ H[Len(H)] = e /\ \A i \in 1..Len(th0) : H[i] = th0[i]
  <2>1. IsTh(Append(th0, e)) /\ Len(Append(th0, e)) = Len(th0) + 1
        /\ Append(th0, e)[Len(th0) + 1] = e /\ \A i \in 1..Len(th0) : Append(th0, e)[i] = th0[i]
    BY <1>12, ThAppend
  <2> QED
    BY <2>1 DEF H
<1>14. Len(H) >= 2 /\ H[Len(H) - 1] = h /\ (Len(H) = 2 <=> Len(r.th) = 0)
  <2>1. PICK n : n = Len(r.th)
    OBVIOUS
  <2>2. n \in Nat /\ Len(th0) = n + 1 /\ Len(H) = n + 2
    BY <1>12, <1>13, <2>1
  <2>3. n + 1 \in 1..Len(th0) /\ Len(H) - 1 = n + 1 /\ Len(H) >= 2 /\ (Len(H) = 2 <=> n = 0)
    BY <2>2
  <2>4. H[n + 1] = th0[n + 1] /\ th0[n + 1] = h
    BY <1>12, <1>13, <2>2, <2>3
  <2> QED
    BY <2>1, <2>3, <2>4
<1>15. Len(H) = 2 <=> ~r.didHRR
  BY <1>14 DEF AnswersTo
<1>16. /\ e.body.suite = sh.suite /\ e.body.group = sh.group /\ e.body.psk = sh.psk
       /\ e.body.conf.label = sh.conf.label
  BY <1>2, AnswerRecorded DEF e
<1>17. /\ h.kind = "ClientHello" /\ h.body.x.serverName = r.hello.x.serverName
       /\ h.body.x.psk.label = r.hello.x.psk.label
       /\ r.hello.x.ech.kind # "outer" => h.body.x.ech = r.hello.x.ech
  BY EntryKeeps DEF AnswersTo, h
<1>18. /\ p.suite = r.suite /\ p.group = r.group /\ p.resumed = r.resumed /\ p.echAccepted = r.echAccepted
       /\ p.serverName = r.serverName /\ p.didHRR = r.didHRR /\ p.proto = r.proto /\ p.early = r.early
  BY <1>9 DEF SameNeg
<1>19. SaysHello(p, H)
  BY <1>2, <1>13, <1>14, <1>16, <1>18 DEF SaysHello
<1>20. r.echAccepted => h.body.x.ech = InnerECH
  <2>1. InnerECH.kind # "outer"
    BY DEF InnerECH
  <2> QED
    BY <1>17, <2>1 DEF AnswersTo
<1>21. e.body.conf.label = "sh" => r.echAccepted
  <2>1. NoConf.label # "sh"
    BY DEF NoConf
  <2> QED
    BY <1>2, <1>16, <2>1
<1>22. ServerTh(p, H)
  <2>1. PICK n : n = Len(H)
    OBVIOUS
  <2>2. H[n] = e /\ H[n - 1] = h /\ (n = 2 <=> ~r.didHRR)
    BY <1>13, <1>14, <1>15, <2>1
  <2>3. h.body.x.serverName = r.serverName /\ (r.resumed => h.body.x.psk.label # 0)
    BY <1>17 DEF AnswersTo
  <2> QED
    BY <1>17, <1>18, <1>19, <1>20, <1>21, <2>1, <2>2, <2>3 DEF ServerTh
<1>23. ee.proto = r.proto /\ ee.early = r.early
  BY DEF ee
<1>24. SaysParams(p, H, Append(H, Entry("EncryptedExtensions", ee)))
  BY <1>13, <1>18, <1>23, ParamsHeard
<1>25. PICK A : A = {m1} \cup {m2}
  OBVIOUS
<1>26. \A m \in A : /\ m.kind \in {"ServerHello", "EncryptedExtensions"}
                    /\ m.kind = "ServerHello" => AnswerShape(m.body) /\ (m.body.conf # NoConf => r.echAccepted)
  BY <1>2, <1>3, <1>7, <1>25
<1>27. ParamsSent(r, p, A)
  BY <1>8, <1>9, <1>10, <1>11, <1>22, <1>24, <1>25, <1>26 DEF ParamsSent
<1> QED
  BY <1>1, <1>27

(* sendServerCertificate. *)
CertKinds == {"CertificateRequest", "Certificate", "CertificateVerify"}
CertSent(p, q, H, A) ==
    Wrote(p, q, A) /\ SaysParams(q, H, q.th) /\ \A m \in A : m.kind \in CertKinds

(* One more message of the server's certificate. *)
LEMMA CertSpoke ==
  ASSUME NEW p, NEW q, NEW H, IsTh(H), NEW A, CertSent(p, q, H, A), NEW x, NEW kind, NEW body, NEW m,
         Spoke(q, x, kind, body, m), m.kind \in CertKinds
  PROVE  CertSent(p, x, H, A \cup {m})
<1>1. Wrote(p, x, A \cup {m})
  BY WroteMore DEF CertSent, Spoke
<1>2. x.proto = q.proto /\ x.early = q.early
  BY DEF Spoke, Wrote, Same, SameNeg
<1>3. PICK e : e = Entry(kind, body)
  OBVIOUS
<1>4. SaysParams(x, H, Append(q.th, e))
  BY <1>2, ParamsHears DEF CertSent
<1>5. SaysParams(x, H, x.th)
  BY <1>3, <1>4 DEF Spoke
<1>6. \A n \in A \cup {m} : n.kind \in CertKinds
  BY DEF CertSent
<1> QED
  BY <1>1, <1>5, <1>6 DEF CertSent

(* sendServerCertificate adds to the transcript behind EncryptedExtensions. *)
LEMMA ServerCertificateSent ==
  ASSUME NEW p, Shape(p), NEW H, IsTh(H), SaysParams(p, H, p.th)
  PROVE  \E A : CertSent(p, SendServerCertificate(p), H, A)
<1>1. CertSent(p, p, H, {})
  BY AddsNone DEF CertSent, Wrote, Same, SameRest, SameOffer, SameNeg, SameAuth, SameKeys
<1>2. CASE p.resumed
  <2>1. SendServerCertificate(p) = p
    BY <1>2 DEF SendServerCertificate
  <2> QED
    BY <1>1, <2>1
<1>3. CASE ~p.resumed
  <2>1. PICK cert : cert = GetCertificate(p.hello)
    OBVIOUS
  <2>2. PICK y : y = SaysIf(RequestClientCert(p), p, "CertificateRequest", <<>>)
    OBVIOUS
  <2>3. PICK B : CertSent(p, y, H, B)
    <3>1. CASE ~RequestClientCert(p)
      BY <1>1, <2>2, <3>1 DEF SaysIf
    <3>2. CASE RequestClientCert(p)
      <4>1. PICK m : m = [kind |-> "CertificateRequest", key |-> p.out, body |-> <<>>]
        OBVIOUS
      <4>2. y = Says(p, "CertificateRequest", <<>>)
        BY <2>2, <3>2 DEF SaysIf
      <4>3. Spoke(p, y, "CertificateRequest", <<>>, m) /\ m.kind \in CertKinds
        BY <4>1, <4>2, SaysSpoke DEF CertKinds
      <4> QED
        BY <1>1, <4>3, CertSpoke
    <3> QED
      BY <3>1, <3>2
  <2>4. Shape(y)
    BY <2>3 DEF CertSent, Wrote
  <2>5. PICK r1 : r1 = Says(y, "Certificate", cert)
    OBVIOUS
  <2>6. PICK m1 : m1 = [kind |-> "Certificate", key |-> y.out, body |-> cert]
    OBVIOUS
  <2>7. Spoke(y, r1, "Certificate", cert, m1) /\ m1.kind \in CertKinds
    BY <2>4, <2>5, <2>6, SaysSpoke DEF CertKinds
  <2>8. CertSent(p, r1, H, B \cup {m1})
    BY <2>3, <2>7, CertSpoke
  <2>9. Shape(r1)
    BY <2>8 DEF CertSent, Wrote
  <2>10. PICK q : q = SaysSigned(r1, cert.key, r1.th)
    OBVIOUS
  <2>11. PICK m2 : m2 = [kind |-> "CertificateVerify", key |-> r1.out, body |-> [alg |-> cert.key, th |-> r1.th]]
    OBVIOUS
  <2>12. Spoke(r1, q, "CertificateVerify", cert.key, m2) /\ m2.kind \in CertKinds
    BY <2>9, <2>10, <2>11, SignedSpoke DEF CertKinds
  <2>13. CertSent(p, q, H, (B \cup {m1}) \cup {m2})
    BY <2>8, <2>12, CertSpoke
  <2>14. q = SendServerCertificate(p)
    BY <1>3, <2>1, <2>2, <2>5, <2>10 DEF SendServerCertificate
  <2> QED
    BY <2>13, <2>14
<1> QED
  BY <1>2, <1>3

-----------------------------------------------------------------------------
(* What the flight leaves: the stage, the ticket, and good messages. *)
FlightSent(r, q) ==
    /\ Shape(q) /\ SameOffer(r, q) /\ SameNeg(r, q) /\ SameAuth(r, q)
    /\ q.pc = IF RequestClientCert(r) THEN "clientCert" ELSE "clientFinished"
    /\ \/ q.ticket = r.ticket
       \/ q.pc = "clientFinished" /\ q.ticket # NoSession /\ q.ticket.cert = r.peerCert
    /\ \E A : Adds(r.sent, q.sent, A) /\ \A m \in A : ServerMsg(m, q, conn)

(* sendServerFinished: the keys of the application data, and what comes after. *)
FinishSent(x, q, A) ==
    LET th == Append(x.th, Entry("Finished", <<>>)) IN
    /\ Shape(q) /\ SameOffer(x, q) /\ SameNeg(x, q) /\ SameAuth(x, q) /\ q.secret = x.secret
    /\ q.out = ApplicationKey("server", x.secret, th) /\ q.trafficSecret = ApplicationKey("client", x.secret, th)
    /\ q.ekm = DeriveSecret("exporter", "both", x.secret, th)
    /\ q.pc = IF RequestClientCert(x) THEN "clientCert" ELSE "clientFinished"
    /\ \/ q.ticket = x.ticket
       \/ q.pc = "clientFinished" /\ q.ticket # NoSession /\ q.ticket.cert = x.peerCert
    /\ Adds(x.sent, q.sent, A)
    /\ \A m \in A : \/ m.kind = "Finished" /\ m.body = FinishedHash(x.out, x.th)
                    \/ m.kind = "NewSessionTicket" /\ m.body.label = conn /\ q.ticket # NoSession

(* sendServerFinished: its Finished is over the transcript that the *)
(* application keys are derived from.                               *)
LEMMA ServerFinishedSent ==
  ASSUME NEW x, Shape(x)
  PROVE  \E A : FinishSent(x, SendServerFinished(x), A)
<1>1. PICK th : th = Append(x.th, Entry("Finished", <<>>))
  OBVIOUS
<1>2. PICK f : f = SaysFinished(x)
  OBVIOUS
<1>3. PICK m : m = [kind |-> "Finished", key |-> x.out, body |-> FinishedHash(x.out, x.th)]
  OBVIOUS
<1>4. Wrote(x, f, {m}) /\ f.th = th
  <2>1. Spoke(x, f, "Finished", <<>>, m)
    BY <1>2, <1>3, FinishedSpoke
  <2> QED
    BY <1>1, <2>1 DEF Spoke
<1>5. PICK ks : ks = ApplicationKey("server", x.secret, th)
  OBVIOUS
<1>6. PICK kc : kc = ApplicationKey("client", x.secret, th)
  OBVIOUS
<1>7. PICK ke : ke = DeriveSecret("exporter", "both", x.secret, th)
  OBVIOUS
<1>8. PICK r2 : r2 = [f EXCEPT !.out = ks, !.trafficSecret = kc, !.ekm = ke]
  OBVIOUS
<1>9. /\ DOMAIN r2 = Fields /\ SameOffer(f, r2) /\ SameNeg(f, r2) /\ SameAuth(f, r2) /\ r2.secret = f.secret
      /\ r2.out = ks /\ r2.trafficSecret = kc /\ r2.ekm = ke /\ r2.ticket = f.ticket /\ r2.sent = f.sent
  BY <1>4, <1>8 DEF Wrote, Shape, Fields, SameOffer, SameNeg, SameAuth
<1>10. /\ Shape(r2) /\ SameOffer(x, r2) /\ SameNeg(x, r2) /\ SameAuth(x, r2) /\ r2.secret = x.secret
       /\ r2.ticket = x.ticket /\ Adds(x.sent, r2.sent, {m})
  BY <1>4, <1>9 DEF Wrote, Shape, Same, SameRest, SameOffer, SameNeg, SameAuth, SameKeys
<1>11. m.kind = "Finished" /\ m.body = FinishedHash(x.out, x.th)
  BY <1>3
<1>12. PICK q : q = SendServerFinished(x)
  OBVIOUS
<1>13. q = IF RequestClientCert(x) THEN [r2 EXCEPT !.pc = "clientCert"] ELSE SendSessionTickets(r2)
  BY <1>2, <1>4, <1>5, <1>6, <1>7, <1>8, <1>12 DEF SendServerFinished
<1>14. CASE RequestClientCert(x)
  <2>1. q = [r2 EXCEPT !.pc = "clientCert"]
    BY <1>13, <1>14
  <2>2. /\ DOMAIN q = Fields /\ Same(r2, q) /\ q.pc = "clientCert" /\ q.ticket = r2.ticket /\ q.sent = r2.sent
    BY <1>10, <2>1 DEF Shape, Fields, Same, SameOffer, SameNeg, SameAuth, SameKeys
  <2>3. /\ Shape(q) /\ SameOffer(x, q) /\ SameNeg(x, q) /\ SameAuth(x, q) /\ q.secret = x.secret
        /\ q.out = ks /\ q.trafficSecret = kc /\ q.ekm = ke /\ q.ticket = x.ticket /\ Adds(x.sent, q.sent, {m})
    BY <1>9, <1>10, <2>2 DEF Shape, Same, SameOffer, SameNeg, SameAuth, SameKeys
  <2>4. FinishSent(x, q, {m})
    BY <1>1, <1>5, <1>6, <1>7, <1>11, <1>14, <2>2, <2>3 DEF FinishSent
  <2> QED
    BY <1>12, <2>4
<1>15. CASE ~RequestClientCert(x)
  <2>1. q = SendSessionTickets(r2)
    BY <1>13, <1>15
  <2>2. PICK B : TicketsSent(r2, q, B)
    BY <1>10, <2>1, SessionTicketsSent
  <2>3. /\ Shape(q) /\ Same(r2, q) /\ q.pc = "clientFinished" /\ Adds(r2.sent, q.sent, B)
        /\ \A n \in B : n.kind = "NewSessionTicket" /\ n.body.label = conn /\ q.ticket # NoSession
        /\ q.ticket = r2.ticket \/ (q.ticket # NoSession /\ q.ticket.cert = r2.peerCert)
    BY <2>2 DEF TicketsSent
  <2>4. /\ SameOffer(x, q) /\ SameNeg(x, q) /\ SameAuth(x, q) /\ q.secret = x.secret
        /\ q.out = ks /\ q.trafficSecret = kc /\ q.ekm = ke
        /\ q.ticket = x.ticket \/ (q.ticket # NoSession /\ q.ticket.cert = x.peerCert)
    BY <1>9, <1>10, <2>3 DEF Same, SameOffer, SameNeg, SameAuth, SameKeys
  <2>5. Adds(x.sent, q.sent, {m} \cup B)
    BY <1>10, <2>3, AddsMore
  <2>6. PICK A : A = {m} \cup B
    OBVIOUS
  <2>7. \A n \in A : \/ n.kind = "Finished" /\ n.body = FinishedHash(x.out, x.th)
                     \/ n.kind = "NewSessionTicket" /\ n.body.label = conn /\ q.ticket # NoSession
    BY <1>11, <2>3, <2>6
  <2>8. FinishSent(x, q, A)
    BY <1>1, <1>5, <1>6, <1>7, <1>15, <2>3, <2>4, <2>5, <2>6, <2>7 DEF FinishSent
  <2> QED
    BY <1>12, <2>8
<1> QED
  BY <1>14, <1>15

(* The whole flight of the server, from the ServerHello to what it does *)
(* next.                                                                *)
LEMMA FlightDone ==
  ASSUME NEW r, AnswersTo(r)
  PROVE  FlightSent(r, SendServerFinished(SendServerCertificate(SendServerParameters(r))))
<1>1. PICK p : p = SendServerParameters(r)
  OBVIOUS
<1>2. PICK A1 : ParamsSent(r, p, A1)
  BY <1>1, ParametersSent
<1>3. PICK H : H = p.out.th
  BY Zenon
<1>4. Shape(p) /\ IsTh(H) /\ SaysParams(p, H, p.th) /\ ServerTh(p, H) /\ p.out.secret = p.secret
  BY <1>2, <1>3 DEF ParamsSent, ServerTh, SaysHello
<1>5. PICK x : x = SendServerCertificate(p)
  OBVIOUS
<1>6. PICK A2 : CertSent(p, x, H, A2)
  BY <1>4, <1>5, ServerCertificateSent
<1>7. Wrote(p, x, A2) /\ SaysParams(x, H, x.th) /\ Shape(x)
  BY <1>6 DEF CertSent, Wrote
<1>8. PICK q : q = SendServerFinished(x)
  OBVIOUS
<1>9. PICK A3 : FinishSent(x, q, A3)
  BY <1>7, <1>8, ServerFinishedSent
<1>10. SameOffer(r, x) /\ SameNeg(r, x) /\ SameAuth(r, x) /\ x.ticket = r.ticket /\ x.out = p.out /\ x.secret = p.secret
  BY <1>2, <1>7 DEF ParamsSent, Wrote, Same, SameRest, SameOffer, SameNeg, SameAuth, SameKeys
<1>11. /\ Shape(q) /\ SameOffer(x, q) /\ SameNeg(x, q) /\ SameAuth(x, q) /\ q.secret = x.secret
       /\ q.pc = IF RequestClientCert(x) THEN "clientCert" ELSE "clientFinished"
       /\ \/ q.ticket = x.ticket
          \/ q.pc = "clientFinished" /\ q.ticket # NoSession /\ q.ticket.cert = x.peerCert
       /\ Adds(x.sent, q.sent, A3)
       /\ \A m \in A3 : \/ m.kind = "Finished" /\ m.body = FinishedHash(x.out, x.th)
                        \/ m.kind = "NewSessionTicket" /\ m.body.label = conn /\ q.ticket # NoSession
  BY <1>9 DEF FinishSent
<1>12. SameOffer(r, q) /\ SameNeg(r, q) /\ SameAuth(r, q)
  BY <1>10, <1>11 DEF SameOffer, SameNeg, SameAuth
<1>13. RequestClientCert(x) <=> RequestClientCert(r)
  BY <1>10 DEF RequestClientCert, SameNeg
<1>14. q.pc \in ServerFlown
  BY <1>11 DEF ServerFlown
<1>15. PICK b : b = FinishedHash(x.out, x.th)
  OBVIOUS
<1>16. b.secret = p.out /\ b.th = x.th
  BY <1>10, <1>15 DEF FinishedHash, DeriveSecret
<1>17. FlightOK(b, q)
  <2>1. SameNeg(p, q)
    BY <1>7, <1>11 DEF Wrote, Same, SameNeg
  <2>2. ServerTh(q, H)
    BY <1>4, <2>1 DEF ServerTh, SaysHello, SameNeg
  <2>3. SaysParams(q, H, b.th)
    BY <1>7, <1>11, <1>16 DEF SaysParams, SameNeg
  <2>4. PICK th : th = Append(x.th, Entry("Finished", <<>>))
    OBVIOUS
  <2>5. /\ q.out = ApplicationKey("server", x.secret, th) /\ q.trafficSecret = ApplicationKey("client", x.secret, th)
        /\ q.ekm = DeriveSecret("exporter", "both", x.secret, th)
    BY <1>9, <2>4 DEF FinishSent
  <2>6. b.secret.secret = q.secret /\ b.secret.th = H
    BY <1>3, <1>4, <1>10, <1>11, <1>16
  <2> QED
    BY <1>11, <1>16, <2>2, <2>3, <2>4, <2>5, <2>6 DEF FlightOK
<1>18. PICK A : A = (A1 \cup A2) \cup A3
  OBVIOUS
<1>19. Adds(r.sent, q.sent, A)
  <2>1. Adds(r.sent, p.sent, A1) /\ Adds(p.sent, x.sent, A2)
    BY <1>2, <1>7 DEF ParamsSent, Wrote
  <2>2. Adds(r.sent, x.sent, A1 \cup A2)
    BY <2>1, AddsMore
  <2> QED
    BY <1>11, <1>18, <2>2, AddsMore
<1>20. ASSUME NEW m \in A PROVE ServerMsg(m, q, conn)
  <2>1. q.pc # "clientHello"
    BY <1>11
  <2>2. CASE m \in A1
    <3>1. /\ m.kind \in {"ServerHello", "EncryptedExtensions"}
          /\ m.kind = "ServerHello" => AnswerShape(m.body) /\ (m.body.conf # NoConf => r.echAccepted)
      BY <1>2, <2>2 DEF ParamsSent
    <3> QED
      BY <1>12, <2>1, <3>1 DEF ServerMsg, SameNeg
  <2>3. CASE m \in A2
    <3>1. m.kind \in CertKinds
      BY <1>6, <2>3 DEF CertSent
    <3> QED
      BY <2>1, <3>1 DEF ServerMsg, CertKinds
  <2>4. CASE m \in A3
    BY <1>11, <1>14, <1>15, <1>17, <2>1, <2>4 DEF ServerMsg
  <2> QED
    BY <1>18, <1>20, <2>2, <2>3, <2>4
<1>21. FlightSent(r, q)
  <2>1. x.peerCert = r.peerCert /\ x.ticket = r.ticket
    BY <1>10 DEF SameAuth
  <2>2. \E B : Adds(r.sent, q.sent, B) /\ \A m \in B : ServerMsg(m, q, conn)
    BY <1>19, <1>20
  <2> QED
    BY <1>11, <1>12, <1>13, <2>1, <2>2 DEF FlightSent
<1> QED
  BY <1>1, <1>5, <1>8, <1>21

-----------------------------------------------------------------------------
(* The server that has taken a hello of the client, before it answers. *)
Heeds(s, r) ==
    /\ Shape(r) /\ s.pc \in ServerBusy /\ r.pc = s.pc /\ r.sent = s.sent /\ st.client.pc # "start"
    /\ r.earlyKey = NoKey /\ r.resumed = FALSE /\ r.peerCert = "none" /\ r.ticket = NoSession
    /\ IsTh(r.th) /\ Len(r.th) = (IF r.didHRR THEN 2 ELSE 0)
    /\ s.pc = "clientHello2" => r.echAccepted = s.echAccepted
    /\ HelloIs(r.hello, r.hello, st.client.earlyKey, sealed)
    /\ r.echAccepted => r.hello.x.ech = InnerECH
    /\ r.didHRR => ~r.hello.x.earlyData

(* The answer it has made up its mind to give. *)
Resolved(s, r) ==
    /\ AnswersTo(r) /\ r.sent = s.sent /\ r.ticket = NoSession
    /\ s.pc = "clientHello2" => r.echAccepted = s.echAccepted
    /\ r.peerCert \in proved \cup {"none"} /\ (r.earlyKey # NoKey => r.earlyKey = st.client.earlyKey)
    /\ IF r.resumed THEN Policy(r, cfg) ELSE r.peerCert = "none"

(* A server that has taken a hello and not answered it is sound. *)
LEMMA HeedsSound ==
  ASSUME Now, NEW r, Heeds(st.server, r)
  PROVE  ServerSound(r)
<1>1. PICK s : s = st.server
  OBVIOUS
<1>2. PICK c : c = st.client
  OBVIOUS
<1>3. ServerSent(s, conn) /\ Link(c, s) /\ ServerInv(s, cfg, proved) /\ Heeds(s, r)
  BY <1>1, <1>2, ServerAt
<1>4. s.pc \in ServerBusy /\ s.ticket = NoSession /\ r.pc = s.pc /\ r.sent = s.sent
  BY <1>3 DEF Heeds, ServerInv
<1>5. ServerFirm(s, r)
  BY <1>3, <1>4 DEF ServerFirm, ServerBusy, ServerFlown, Heeds
<1>6. Adds(s.sent, r.sent, {})
  BY <1>4, AddsNone
<1>7. ServerSent(r, conn)
  BY <1>3, <1>5, <1>6, ServerSentMore
<1>8. Link(c, r)
  <2>1. c.pc # "complete" /\ r.pc # "complete"
    BY <1>3, <1>4 DEF Link, ServerBusy, ServerFlown
  <2>2. c.echAccepted => s.pc = "clientHello2" /\ s.echAccepted
    BY <1>3, <1>4 DEF Link, ServerBusy
  <2> QED
    BY <1>2, <1>3, <1>4, <2>1, <2>2 DEF Link, Heeds
<1> QED
  BY <1>2, <1>3, <1>7, <1>8 DEF ServerSound, TicketOK, Heeds

(* The flight tells of one handshake, its keys and its ticket. *)
LEMMA FlightSound ==
  ASSUME Now, st.server.pc \in ServerBusy, st.client.pc # "start", proved' = proved,
         NEW r, Resolved(st.server, r), NEW q, FlightSent(r, q)
  PROVE  ServerSound(q)
<1>1. PICK s : s = st.server
  OBVIOUS
<1>2. PICK c : c = st.client
  OBVIOUS
<1>3. ServerSent(s, conn) /\ Link(c, s) /\ ServerInv(s, cfg, proved) /\ Resolved(s, r) /\ s.pc \in ServerBusy
  BY <1>1, <1>2, ServerAt
<1>4. s.ticket = NoSession /\ r.sent = s.sent
  BY <1>3 DEF Resolved, ServerInv
<1>5. PICK A : Adds(s.sent, q.sent, A) /\ \A m \in A : ServerMsg(m, q, conn)
  BY <1>4 DEF FlightSent
<1>6. /\ Shape(q) /\ q.pc \in {"clientCert", "clientFinished"} /\ q.echAccepted = r.echAccepted
      /\ q.earlyKey = r.earlyKey
  BY DEF FlightSent, SameNeg, SameOffer
<1>7. ServerFirm(s, q)
  BY <1>3, <1>4, <1>6 DEF ServerFirm, ServerBusy, ServerFlown, Resolved
<1>8. ServerSent(q, conn)
  BY <1>3, <1>5, <1>7, ServerSentMore
<1>9. Link(c, q)
  <2>1. c.pc # "complete" /\ q.pc # "complete" /\ q.pc # "clientHello"
    BY <1>3, <1>6 DEF Link, ServerBusy, ServerFlown
  <2>2. c.echAccepted => s.pc = "clientHello2" /\ s.echAccepted
    BY <1>3 DEF Link, ServerBusy
  <2>3. q.earlyKey # NoKey => q.earlyKey = c.earlyKey
    BY <1>2, <1>3, <1>6 DEF Resolved
  <2> QED
    BY <1>2, <1>3, <1>6, <2>1, <2>2, <2>3 DEF Link, Resolved
<1>10. TicketOK(q, proved')
  BY <1>3 DEF FlightSent, TicketOK, Resolved
<1> QED
  BY <1>2, <1>6, <1>8, <1>9, <1>10 DEF ServerSound

(* The server asks for a certificate, ... *)
LEMMA FlightAsks ==
  ASSUME Now, proved' = proved, NEW r, Resolved(st.server, r), RequestClientCert(r),
         NEW q, FlightSent(r, q), ServerSound(q)
  PROVE  ServerNext(q)
<1>1. q.pc = "clientCert" /\ q.peerCert = r.peerCert /\ (q.ticket = r.ticket \/ q.pc = "clientFinished")
  BY DEF FlightSent, SameAuth
<1>2. r.peerCert = "none" /\ r.ticket = NoSession /\ cfg.server.auth >= 1
  BY DEF Resolved, RequestClientCert
<1>3. cfg.server.auth # 0
  BY <1>2
<1>4. ServerInv(q, cfg, proved')
  BY <1>1, <1>2, <1>3 DEF ServerInv, ServerBusy, ServerFlown
<1> QED
  BY <1>4 DEF ServerNext, ServerSound

(* The five values of ClientAuth. *)
LEMMA AuthNumber ==
  ASSUME Now
  PROVE  cfg.server.auth \in 0..4
<1>1. cfg.server \in TypeOfServerCfg
  BY Handshake13Assumption DEF Now, Open, CfgOK
<1> QED
  BY <1>1 DEF TypeOfServerCfg

(* or waits for the client's Finished, with all the Config asks for. *)
LEMMA FlightWaits ==
  ASSUME Now, proved' = proved, NEW r, Resolved(st.server, r), ~RequestClientCert(r),
         NEW q, FlightSent(r, q), NEW v, Viewed("server", q, v), ServerSound(v)
  PROVE  ServerNext(v)
<1>1. /\ v.pc = "clientFinished" /\ v.peerCert = r.peerCert /\ v.verified = r.verified
      /\ (cfg.server.verify # "nil" => v.saw = View(v))
  BY DEF FlightSent, Viewed, SameAuth, SameRest
<1>2. Policy(r, cfg)
  <2>1. CASE r.resumed
    BY <2>1 DEF Resolved
  <2>2. CASE ~r.resumed
    <3>1. r.peerCert = "none" /\ ~(cfg.server.auth >= 1)
      BY <2>2 DEF Resolved, RequestClientCert
    <3>2. cfg.server.auth = 0
      BY <3>1, AuthNumber
    <3> QED
      BY <3>1, <3>2 DEF Policy
  <2> QED
    BY <2>1, <2>2
<1>3. Authorized(v, cfg)
  BY <1>1, <1>2 DEF Authorized, Policy
<1>4. v.peerCert \in proved' \cup {"none"}
  BY <1>1 DEF Resolved
<1>5. ServerInv(v, cfg, proved')
  BY <1>1, <1>3, <1>4 DEF ServerInv, ServerBusy, ServerFlown
<1> QED
  BY <1>5 DEF ServerNext, ServerSound

(* The rest of processClientHello, without a session ... *)
LEMMA NegotiatedIs ==
  ASSUME NEW s, NEW r, Heeds(s, r), NEW q, q = Negotiated(r)
  PROVE  Resolved(s, q) /\ Heeds(s, q) /\ q.hello = r.hello /\ q.th = r.th
<1>1. PICK p : p = NegotiateALPN(cfg.server.protos, r.hello.x.alpn)
  OBVIOUS
<1>2. PICK n : n = r.hello.x.serverName
  OBVIOUS
<1>3. q = [r EXCEPT !.proto = p, !.serverName = n]
  BY <1>1, <1>2 DEF Negotiated
<1>4. /\ DOMAIN q = Fields /\ q.serverName = n /\ q.hello = r.hello /\ q.th = r.th /\ q.pc = r.pc /\ q.sent = r.sent
      /\ q.earlyKey = r.earlyKey /\ q.resumed = r.resumed /\ q.peerCert = r.peerCert /\ q.ticket = r.ticket
      /\ q.didHRR = r.didHRR /\ q.echAccepted = r.echAccepted
  BY <1>3 DEF Heeds, Shape, Fields
<1>5. Shape(q)
  BY <1>4 DEF Heeds, Shape
<1>6. Heeds(s, q)
  BY <1>4, <1>5 DEF Heeds
<1>7. AnswersTo(q)
  BY <1>2, <1>4, <1>6 DEF Heeds, AnswersTo, HelloIs
<1> QED
  BY <1>4, <1>6, <1>7 DEF Heeds, Resolved

(* The binder shows that the client has derived the key of the early data. *)
LEMMA EarlyKeyShared ==
  ASSUME NEW s, NEW r, Heeds(s, r), r.hello.x.psk.label # 0, BinderOK(r),
         NEW t, t = sealed[r.hello.x.psk.label], AcceptsEarly(r, t)
  PROVE  EarlyKey(t.secret, HelloEntry(r.hello)) = st.client.earlyKey
<1>1. PICK h : h = HelloEntry(r.hello)
  OBVIOUS
<1>2. PICK b : b = r.hello.x.psk.binder
  OBVIOUS
<1>3. r.hello.x.earlyData
  BY DEF AcceptsEarly
<1>4. ~r.didHRR
  BY <1>3 DEF Heeds
<1>5. IsTh(r.th) /\ Len(r.th) = 0
  BY <1>4 DEF Heeds
<1>6. r.th = <<>>
  <2>1. PICK M : r.th \in Seq(M)
    BY <1>5 DEF IsTh
  <2> QED
    BY <1>5, <2>1
<1>7. Append(r.th, h) = <<h>> /\ Len(<<h>>) = 1
  BY <1>6
<1>8. b = Binder(t.secret, <<h>>)
  BY <1>1, <1>2, <1>7 DEF BinderOK
<1>9. b.th = <<h>> /\ b.secret = EarlySecret(t.secret)
  BY <1>8 DEF Binder, DeriveSecret
<1>10. EarlyOK({r.hello.x.earlyData}, r.hello.x.psk, st.client.earlyKey)
  BY DEF Heeds, HelloIs
<1>11. TRUE \in {r.hello.x.earlyData}
  BY <1>3
<1>12. st.client.earlyKey = DeriveSecret("early", "client", b.secret, b.th)
  BY <1>2, <1>7, <1>9, <1>10, <1>11 DEF EarlyOK
<1> QED
  BY <1>1, <1>9, <1>12 DEF EarlyKey

(* ... and with the one in the client's ticket. *)
LEMMA RestoredIs ==
  ASSUME Inv, NEW s, NEW r, Heeds(s, r), Resolved(s, r), NEW opens, Selects(r, opens), BinderOK(r),
         NEW q, q = ServerRestored(r)
  PROVE  Resolved(s, q)
<1>1. PICK n : n = r.hello.x.psk.label
  OBVIOUS
<1>2. PICK t : t = sealed[n]
  OBVIOUS
<1>3. n # 0 /\ Resumable(r, t)
  BY <1>1, <1>2 DEF Selects
<1>4. n \in 1..MaxConns /\ t # NoSession
  BY <1>1, <1>2, <1>3 DEF Heeds, HelloIs, LabelOK, Issued
<1>5. t.cert \in proved \cup {"none"}
  BY <1>2, <1>4 DEF Inv, SealedOK
<1>6. PICK e : e = AcceptsEarly(r, t)
  OBVIOUS
<1>7. PICK k : k = IF AcceptsEarly(r, t) THEN EarlyKey(t.secret, HelloEntry(r.hello)) ELSE NoKey
  BY Zenon
<1>8. q = [r EXCEPT !.resumed = TRUE, !.session = t, !.peerCert = t.cert, !.verified = t.verified,
                    !.early = e, !.earlyKey = k]
  BY <1>1, <1>2, <1>6, <1>7 DEF ServerRestored
<1>9. /\ DOMAIN q = Fields /\ q.resumed = TRUE /\ q.peerCert = t.cert /\ q.verified = t.verified
      /\ q.earlyKey = k /\ q.serverName = r.serverName /\ q.hello = r.hello /\ q.th = r.th /\ q.sent = r.sent
      /\ q.ticket = r.ticket /\ q.didHRR = r.didHRR /\ q.echAccepted = r.echAccepted
  BY <1>8 DEF Heeds, Shape, Fields
<1>10. Shape(q)
  BY <1>9 DEF Heeds, Shape
<1>11. AnswersTo(q)
  BY <1>1, <1>3, <1>9, <1>10 DEF Resolved, AnswersTo
<1>12. k # NoKey => k = st.client.earlyKey
  BY <1>1, <1>2, <1>3, <1>7, EarlyKeyShared
<1>13. Policy(q, cfg)
  BY <1>3, <1>9 DEF Policy, Resumable, RequiresClientCert
<1> QED
  BY <1>5, <1>9, <1>11, <1>12, <1>13 DEF Resolved

(* handshake, from the key share to the next read. *)
LEMMA ServerFlightNext ==
  ASSUME Inv, Now, proved' = proved, NEW r0, Heeds(st.server, r0), NEW opens
  PROVE  ServerNext(ServerFlight(r0, opens))
<1> DEFINE r == Negotiated(r0)
           rr == IF Selects(r, opens) THEN ServerRestored(r) ELSE r
           rf == SendServerFinished(SendServerCertificate(SendServerParameters(rr)))
           v == VerifyConnection("server", rf)
           q == ServerFlight(r0, opens)
<1>1. \/ q = Fail(r0)
      \/ (Selects(r, opens) => BinderOK(r)) /\ RequestClientCert(rr) /\ q = rf
      \/ (Selects(r, opens) => BinderOK(r)) /\ ~RequestClientCert(rr) /\ (q = v \/ q = Fail(v))
  BY DEF ServerFlight
<1>2. r = Negotiated(r0) /\ (rr = IF Selects(r, opens) THEN ServerRestored(r) ELSE r)
  OBVIOUS
<1>3. rf = SendServerFinished(SendServerCertificate(SendServerParameters(rr)))
  OBVIOUS
<1>4. v = VerifyConnection("server", rf)
  OBVIOUS
<1>5. q = ServerFlight(r0, opens)
  OBVIOUS
<1> HIDE DEF r, rr, rf, v, q
<1>6. st.server.pc \in ServerBusy /\ st.client.pc # "start"
  BY DEF Heeds
<1>7. CASE q = Fail(r0)
  <2>1. ServerSound(r0)
    BY HeedsSound
  <2> QED
    BY <1>5, <1>7, <2>1, SoundFails
<1>8. CASE Selects(r, opens) => BinderOK(r)
  <2>1. Resolved(st.server, r) /\ Heeds(st.server, r)
    BY <1>2, NegotiatedIs
  <2>2. Resolved(st.server, rr)
    <3>1. CASE Selects(r, opens)
      BY <1>2, <1>8, <2>1, <3>1, RestoredIs
    <3>2. CASE ~Selects(r, opens)
      BY <1>2, <2>1, <3>2
    <3> QED
      BY <3>1, <3>2
  <2>3. FlightSent(rr, rf)
    BY <1>3, <2>2, FlightDone DEF Resolved
  <2>4. ServerSound(rf)
    BY <1>6, <2>2, <2>3, FlightSound
  <2>5. CASE RequestClientCert(rr) /\ q = rf
    <3>1. ServerNext(rf)
      BY <2>2, <2>3, <2>4, <2>5, FlightAsks
    <3> QED
      BY <1>5, <2>5, <3>1
  <2>6. CASE ~RequestClientCert(rr) /\ (q = v \/ q = Fail(v))
    <3>1. Viewed("server", rf, v)
      BY <1>4, <2>4, VerifyViewed DEF ServerSound
    <3>2. rf.pc \in ServerFlown \ {"complete"}
      BY <2>3, <2>6 DEF FlightSent, ServerFlown
    <3>3. ServerSound(v)
      BY <2>4, <3>1, <3>2, SoundViewed
    <3>4. ServerNext(v)
      BY <2>2, <2>3, <2>6, <3>1, <3>3, FlightWaits
    <3>5. ServerNext(Fail(v))
      BY <3>3, SoundFails
    <3> QED
      BY <1>5, <2>6, <3>4, <3>5
  <2> QED
    BY <1>1, <1>7, <2>5, <2>6
<1> QED
  BY <1>1, <1>7, <1>8

(* doHelloRetryRequest: the first hello leaves its hash only. *)
LEMMA HashedAnswered ==
  ASSUME NEW t, NEW e
  PROVE  IsTh(Append(MessageHash(t), e)) /\ Len(Append(MessageHash(t), e)) = 2
<1>1. PICK u : u = Entry("message_hash", t)
  OBVIOUS
<1>2. PICK v : v = <<u>>
  OBVIOUS
<1>3. IsTh(v) /\ Len(v) = 1 /\ MessageHash(t) = v
  BY <1>1, <1>2, ThOne DEF MessageHash
<1>4. IsTh(Append(v, e)) /\ Len(Append(v, e)) = Len(v) + 1
  BY <1>3, ThAppend
<1> QED
  BY <1>3, <1>4

(* doHelloRetryRequest keeps the server's part of the invariant. *)
LEMMA RetryRequestNext ==
  ASSUME Inv, Now, proved' = proved, NEW r, Heeds(st.server, r), st.server.pc = "clientHello", ~r.didHRR
  PROVE  ServerNext(DoHelloRetryRequest(r))
<1> DEFINE th0 == MessageHash(<<HelloEntry(r.hello)>>)
           hrr == ServerHelloMsg(r, TRUE)
           y == Confirmation("hrr", r.hello, th0, hrr)
           sh == IF r.echAccepted THEN [hrr EXCEPT !.conf = y] ELSE hrr
           th == Append(th0, ServerHelloEntry(sh))
           x == [r EXCEPT !.th = th, !.pc = "clientHello2"]
           q == Put(x, "ServerHello", sh)
<1>1. q = DoHelloRetryRequest(r)
  BY DEF DoHelloRetryRequest
<1>2. AnswerShape(hrr) /\ hrr.conf = NoConf
  BY AnswerBegun DEF hrr
<1>3. sh = IF r.echAccepted THEN [hrr EXCEPT !.conf = y] ELSE hrr
  OBVIOUS
<1>4. IsTh(th) /\ Len(th) = 2
  BY HashedAnswered
<1>5. x = [r EXCEPT !.th = th, !.pc = "clientHello2"]
  OBVIOUS
<1> HIDE DEF th0, hrr, y, sh, th, x
<1>6. AnswerShape(sh) /\ (~r.echAccepted => sh.conf = NoConf)
  BY <1>2, <1>3, AnswerMade
<1>7. /\ DOMAIN x = Fields /\ x.th = th /\ x.pc = "clientHello2" /\ x.sent = r.sent /\ x.earlyKey = r.earlyKey
      /\ x.resumed = r.resumed /\ x.peerCert = r.peerCert /\ x.ticket = r.ticket /\ x.didHRR = r.didHRR
      /\ x.echAccepted = r.echAccepted
  BY <1>5 DEF Heeds, Shape, Fields
<1>8. Shape(x)
  BY <1>7 DEF Heeds, Shape
<1>9. PICK m : m = [kind |-> "ServerHello", key |-> x.out, body |-> sh]
  OBVIOUS
<1>10. Wrote(x, q, {m}) /\ q.th = x.th
  BY <1>8, <1>9, PutWrote
<1> HIDE DEF q
<1>11. /\ Shape(q) /\ q.th = th /\ q.pc = "clientHello2" /\ q.earlyKey = NoKey /\ q.resumed = FALSE
       /\ q.peerCert = "none" /\ q.ticket = NoSession /\ q.didHRR = FALSE /\ q.echAccepted = r.echAccepted
       /\ Adds(r.sent, q.sent, {m})
  <2>1. r.didHRR = FALSE
    BY DEF Heeds, Shape
  <2> QED
    BY <1>7, <1>10, <2>1 DEF Wrote, Same, SameRest, SameOffer, SameNeg, SameAuth, Heeds
<1>12. ServerSound(r) /\ r.pc = "clientHello"
  BY HeedsSound DEF Heeds
<1>13. ServerFirm(r, q)
  BY <1>12 DEF ServerFirm
<1>14. \A z \in {m} : ServerMsg(z, q, conn)
  BY <1>6, <1>9, <1>11 DEF ServerMsg
<1>15. ServerSent(q, conn)
  BY <1>11, <1>12, <1>13, <1>14, ServerSentMore DEF ServerSound
<1>16. ServerInv(q, cfg, proved')
  BY <1>4, <1>11 DEF ServerInv, ServerBusy, ServerFlown, Greets
<1>17. Link(st.client, q)
  BY <1>11, <1>12 DEF ServerSound, Link, ServerFlown
<1>18. ServerNext(q)
  BY <1>11, <1>15, <1>16, <1>17 DEF ServerNext, TicketOK
<1> QED
  BY <1>1, <1>18

(* What the server has of a hello that it can use. *)
LEMMA HelloTaken ==
  ASSUME Now, Sees("server", "ClientHello"), NEW w, w = Msg("server").body
  PROVE  WireOK(w, st.client.earlyKey, sealed) /\ st.client.pc # "start"
<1>1. ClientMsg(Msg("server"), st.client, cfg, sealed)
  BY ClientMsgGood DEF Sees
<1> QED
  BY <1>1 DEF ClientMsg, Sees

(* A good hello without ECH is the one the server goes by. *)
LEMMA HelloGiven ==
  ASSUME NEW w, NEW key, NEW sd, WireOK(w, key, sd)
  PROVE  HelloIs(w, w, key, sd)
BY DEF WireOK, HelloIs

(* The inner hello, once it is decoded, is the one the server goes by. *)
LEMMA HelloDecoded ==
  ASSUME NEW w, NEW key, NEW sd, WireOK(w, key, sd), w.x.ech.kind = "outer", Decodes(w),
         NEW h, h = DecodeInner(w)
  PROVE  HelloIs(h, h, key, sd) /\ h.x.ech = InnerECH
<1>1. DecodeInner(w).x.ech = InnerECH
  BY DEF Decodes
<1>2. HelloIs(DecodeInner(w), w, key, sd)
  BY <1>1, DecodeGood
<1> QED
  BY <1>1, <1>2 DEF HelloIs

(* readClientHello. *)
LEMMA ReadClientHelloStep ==
  ASSUME Inv, NEW opens, ReadClientHello(opens), UNCHANGED <<conn, cfg, cache, proved>>
  PROVE  Inv'
<1> DEFINE w == Msg("server").body
           key == ECHKeyOf(w)
           hello == IF key = "none" THEN w ELSE DecodeInner(w)
           b == key # "none"
           suite == SelectedSuite(hello)
           group == SelectedGroup(hello)
           r == [st.server EXCEPT !.hello = hello, !.echKey = key, !.echAccepted = b, !.suite = suite,
                                  !.group = group]
<1>1. \/ ServerFails
      \/ /\ Sees("server", "ClientHello") /\ (key # "none" => Decodes(w))
         /\ ServerGoes(ServerFlight(r, opens)) \/ ServerGoes(DoHelloRetryRequest(r))
  BY DEF ReadClientHello
<1>2. w = Msg("server").body /\ key = ECHKeyOf(w) /\ b \in BOOLEAN
  OBVIOUS
<1>3. (key = "none" => hello = w /\ b = FALSE) /\ (key # "none" => hello = DecodeInner(w) /\ b = TRUE)
  OBVIOUS
<1>4. PICK s : s = st.server
  OBVIOUS
<1>5. r = [s EXCEPT !.hello = hello, !.echKey = key, !.echAccepted = b, !.suite = suite, !.group = group]
  BY <1>4
<1> HIDE DEF w, key, hello, b, suite, group, r
<1>6. s.pc = "clientHello" /\ Now /\ Waiting("server")
  BY <1>4, Opened DEF ReadClientHello
<1>7. Shape(s) /\ ServerInv(s, cfg, proved) /\ s.pc \in ServerBusy
  BY <1>4, <1>6, ServerAt DEF ServerBusy
<1>8. CASE ServerFails
  BY <1>6, <1>8, ServerFailsAt
<1>9. CASE /\ Sees("server", "ClientHello") /\ (key # "none" => Decodes(w))
           /\ ServerGoes(ServerFlight(r, opens)) \/ ServerGoes(DoHelloRetryRequest(r))
  <2>1. WireOK(w, st.client.earlyKey, sealed) /\ st.client.pc # "start"
    BY <1>2, <1>6, <1>9, HelloTaken
  <2>2. key # "none" => w.x.ech.kind = "outer"
    BY <1>2 DEF ECHKeyOf
  <2>3. HelloIs(hello, hello, st.client.earlyKey, sealed) /\ (b => hello.x.ech = InnerECH)
    <3>1. CASE key = "none"
      BY <1>3, <2>1, <3>1, HelloGiven
    <3>2. CASE key # "none"
      BY <1>3, <1>9, <2>1, <2>2, <3>2, HelloDecoded
    <3> QED
      BY <3>1, <3>2
  <2>4. /\ DOMAIN r = Fields /\ r.hello = hello /\ r.echAccepted = b /\ r.pc = s.pc /\ r.sent = s.sent
        /\ r.earlyKey = s.earlyKey /\ r.resumed = s.resumed /\ r.peerCert = s.peerCert /\ r.ticket = s.ticket
        /\ r.th = s.th /\ r.didHRR = s.didHRR
    BY <1>5, <1>7 DEF Shape, Fields
  <2>5. Shape(r)
    BY <1>2, <1>7, <2>4 DEF Shape
  <2>6. /\ s.earlyKey = NoKey /\ s.resumed = FALSE /\ s.peerCert = "none" /\ s.ticket = NoSession
        /\ s.th = <<>> /\ s.didHRR = FALSE
    BY <1>6, <1>7 DEF ServerInv, Greets
  <2>7. Heeds(s, r)
    BY <1>6, <1>7, <2>1, <2>3, <2>4, <2>5, <2>6, ThEmpty DEF Heeds
  <2>8. Heeds(st.server, r) /\ st.server.pc = "clientHello" /\ ~r.didHRR /\ proved' = proved
    BY <1>4, <1>6, <2>4, <2>6, <2>7
  <2>9. ServerNext(ServerFlight(r, opens)) /\ ServerNext(DoHelloRetryRequest(r))
    BY <1>6, <2>8, ServerFlightNext, RetryRequestNext
  <2> QED
    BY <1>6, <1>9, <2>9, ServerCloses
<1> QED
  BY <1>1, <1>8, <1>9

(* The second hello keeps the invariant: ECH is still what it was. *)
LEMMA ReadSecondHelloStep ==
  ASSUME Inv, NEW opens, ReadSecondHello(opens), UNCHANGED <<conn, cfg, cache, proved>>
  PROVE  Inv'
<1> DEFINE w == Msg("server").body
           hello == IF st.server.echAccepted THEN DecodeInner(w) ELSE w
           r == [st.server EXCEPT !.hello = hello, !.didHRR = TRUE]
<1>1. \/ ServerFails
      \/ Sees("server", "ClientHello") /\ SecondHelloOK(st.server, w) /\ ServerGoes(ServerFlight(r, opens))
  BY DEF ReadSecondHello
<1>2. w = Msg("server").body
  OBVIOUS
<1>3. PICK s : s = st.server
  OBVIOUS
<1>4. hello = IF s.echAccepted THEN DecodeInner(w) ELSE w
  BY <1>3
<1>5. r = [s EXCEPT !.hello = hello, !.didHRR = TRUE]
  BY <1>3
<1> HIDE DEF w, hello, r
<1>6. s.pc = "clientHello2" /\ Now /\ Waiting("server")
  BY <1>3, Opened DEF ReadSecondHello
<1>7. Shape(s) /\ ServerInv(s, cfg, proved) /\ s.pc \in ServerBusy
  BY <1>3, <1>6, ServerAt DEF ServerBusy
<1>8. CASE ServerFails
  BY <1>6, <1>8, ServerFailsAt
<1>9. CASE Sees("server", "ClientHello") /\ SecondHelloOK(s, w) /\ ServerGoes(ServerFlight(r, opens))
  <2>1. WireOK(w, st.client.earlyKey, sealed) /\ st.client.pc # "start"
    BY <1>2, <1>6, <1>9, HelloTaken
  <2>2. /\ s.echAccepted => w.x.ech.kind = "outer" /\ Decodes(w)
        /\ ~hello.x.earlyData
    BY <1>4, <1>9 DEF SecondHelloOK
  <2>3. HelloIs(hello, hello, st.client.earlyKey, sealed) /\ (s.echAccepted => hello.x.ech = InnerECH)
    <3>1. CASE ~s.echAccepted
      BY <1>4, <2>1, <3>1, HelloGiven
    <3>2. CASE s.echAccepted
      BY <1>4, <2>1, <2>2, <3>2, HelloDecoded
    <3> QED
      BY <3>1, <3>2
  <2>4. /\ DOMAIN r = Fields /\ r.hello = hello /\ r.echAccepted = s.echAccepted /\ r.pc = s.pc
        /\ r.sent = s.sent /\ r.earlyKey = s.earlyKey /\ r.resumed = s.resumed /\ r.peerCert = s.peerCert
        /\ r.ticket = s.ticket /\ r.th = s.th /\ r.didHRR = TRUE
    BY <1>5, <1>7 DEF Shape, Fields
  <2>5. Shape(r)
    BY <1>7, <2>4 DEF Shape
  <2>6. /\ s.earlyKey = NoKey /\ s.resumed = FALSE /\ s.peerCert = "none" /\ s.ticket = NoSession
        /\ IsTh(s.th) /\ Len(s.th) = 2
    BY <1>6, <1>7 DEF ServerInv, Greets
  <2>7. Heeds(s, r)
    BY <1>7, <2>1, <2>2, <2>3, <2>4, <2>5, <2>6 DEF Heeds
  <2>8. Heeds(st.server, r) /\ proved' = proved
    BY <1>3, <2>7
  <2>9. ServerNext(ServerFlight(r, opens))
    BY <1>6, <2>8, ServerFlightNext
  <2> QED
    BY <1>6, <1>9, <2>9, ServerCloses
<1> QED
  BY <1>1, <1>3, <1>8, <1>9

-----------------------------------------------------------------------------
(* Every step keeps the invariant. *)
LEMMA NextInv ==
  ASSUME Inv, [Next]_vars
  PROVE  Inv'
<1>1. CASE ClientStep
  <2>1. UNCHANGED <<conn, cfg, sealed, proved>>
    BY <1>1 DEF ClientStep
  <2>2. ASSUME NEW expired \in BOOLEAN, ClientHello(expired) PROVE Inv'
    BY <2>1, <2>2, ClientHelloStep
  <2>3. CASE ServerHello
    BY <2>1, <2>3, ServerHelloStep
  <2>4. CASE EncryptedExtensions
    BY <2>1, <2>4, EncryptedExtensionsStep
  <2>5. CASE CertificateRequest
    BY <2>1, <2>5, CertificateRequestStep
  <2>6. CASE ServerCertificate
    BY <2>1, <2>6, ServerCertificateStep
  <2>7. CASE ServerCertificateVerify
    BY <2>1, <2>7, ServerCertificateVerifyStep
  <2>8. CASE ServerFinished
    BY <2>1, <2>8, ServerFinishedStep
  <2> QED
    BY <1>1, <2>2, <2>3, <2>4, <2>5, <2>6, <2>7, <2>8 DEF ClientStep
<1>2. CASE ServerStep
  <2>1. UNCHANGED <<conn, cfg, cache>>
    BY <1>2 DEF ServerStep
  <2>2. CASE ClientCertificateVerify
    BY <2>1, <2>2, ClientCertificateVerifyStep
  <2>3. ASSUME NEW opens \in BOOLEAN, ReadClientHello(opens), UNCHANGED proved PROVE Inv'
    <3>1. UNCHANGED <<conn, cfg, cache, proved>>
      BY <2>1, <2>3
    <3> QED
      BY <2>3, <3>1, ReadClientHelloStep
  <2>4. ASSUME NEW opens \in BOOLEAN, ReadSecondHello(opens), UNCHANGED proved PROVE Inv'
    <3>1. UNCHANGED <<conn, cfg, cache, proved>>
      BY <2>1, <2>4
    <3> QED
      BY <2>4, <3>1, ReadSecondHelloStep
  <2>5. CASE ClientCertificate /\ UNCHANGED proved
    <3>1. UNCHANGED <<conn, cfg, cache, proved>>
      BY <2>1, <2>5
    <3> QED
      BY <2>5, <3>1, ClientCertificateStep
  <2>6. CASE ClientFinished /\ UNCHANGED proved
    <3>1. UNCHANGED <<conn, cfg, cache, proved>>
      BY <2>1, <2>6
    <3> QED
      BY <2>6, <3>1, ClientFinishedStep
  <2> QED
    BY <1>2, <2>2, <2>3, <2>4, <2>5, <2>6 DEF ServerStep
<1>3. CASE NewSessionTicket
  BY <1>3, NewSessionTicketStep
<1>4. ASSUME NEW early \in BOOLEAN, SendSessionTicket(early) PROVE Inv'
  BY <1>4, SendSessionTicketStep
<1>5. CASE Break
  BY <1>5, BreakStep
<1>6. CASE Close
  BY <1>6, CloseStep
<1>7. CASE Connect
  BY <1>7, ConnectStep
<1>8. CASE UNCHANGED vars
  BY <1>8 DEF vars, Inv
<1> QED
  BY <1>1, <1>2, <1>3, <1>4, <1>5, <1>6, <1>7, <1>8 DEF Next

(* Inv holds in every state of every handshake: the two ends, what they   *)
(* have under way, the tickets and the cache are as Inv says, for any set *)
(* of Configs and any number of connections one after the other.          *)
THEOREM InvHolds == Spec => []Inv
<1>1. Init => Inv
  BY InitInv
<1>2. Inv /\ [Next]_vars => Inv'
  BY NextInv
<1> QED
  BY <1>1, <1>2, PTL DEF Spec

-----------------------------------------------------------------------------
(* The properties. *)
LEMMA ClosedIs ==
  ASSUME st = ClosedEnds
  PROVE  /\ st.client.pc = "closed" /\ st.server.pc = "closed" /\ st.client.ech = "none"
         /\ st.server.earlyKey = NoKey
BY FreshFields DEF ClosedEnds, Ends, Fields

(* The invariant implies Agreement. *)
LEMMA InvAgreement ==
  ASSUME Inv
  PROVE  Agreement
<1>1. CASE st = ClosedEnds
  BY <1>1, ClosedIs DEF Agreement, Complete
<1>2. CASE Now
  <2>1. Link(st.client, st.server) /\ ServerInv(st.server, cfg, proved)
    BY <1>2 DEF Now, Open
  <2> QED
    BY <2>1 DEF Agreement, Complete, Link, Agreed, ServerInv
<1> QED
  BY <1>1, <1>2 DEF Inv, Now

(* Agreement: ends that have both completed have the same secrets, keys,  *)
(* suite, group, protocol, session and ECH outcome, the server completes  *)
(* only behind a client that has completed or has found ECH rejected, and *)
(* the early data key the server has is the client's. It is what the two  *)
(* Finished checks of handshake_client_tls13.go and                       *)
(* handshake_server_tls13.go are for.                                     *)
THEOREM AgreementHolds == Spec => []Agreement
<1>1. Inv => Agreement
  BY InvAgreement
<1> QED
  BY <1>1, InvHolds, PTL

(* The invariant implies AuthPolicy. *)
LEMMA InvAuthPolicy ==
  ASSUME Inv
  PROVE  AuthPolicy
<1>1. CASE st = ClosedEnds
  BY <1>1, ClosedIs DEF AuthPolicy, Complete, Ends
<1>2. CASE Now
  <2>1. ClientInv(st.client, cfg, sealed) /\ ServerInv(st.server, cfg, proved)
    BY <1>2 DEF Now, Open
  <2>2. ASSUME Complete("client")
        PROVE  /\ cfg.client.insecure \/ (st.client.verified /\ "secret" \in st.client.serverCert.names)
               /\ cfg.client.verify # "nil" => st.client.saw = View(st.client)
    <3>1. /\ ServerTrusted(st.client, cfg) /\ ECHSettled(st.client, cfg) /\ st.client.ech # "rejected"
      BY <2>1, <2>2 DEF ClientInv, Complete
    <3>2. st.client.ech = "none" \/ st.client.echAccepted
      BY <3>1 DEF ECHSettled
    <3> QED
      BY <3>1, <3>2 DEF ServerTrusted
  <2>3. ASSUME Complete("server")
        PROVE  /\ Policy(st.server, cfg) /\ st.server.peerCert \in proved \cup {"none"}
               /\ cfg.server.verify # "nil" => st.server.saw = View(st.server)
    BY <2>1, <2>3 DEF ServerInv, Complete, Authorized
  <2> QED
    BY <2>2, <2>3 DEF AuthPolicy, Policy, RequiresClientCert, Ends
<1> QED
  BY <1>1, <1>2 DEF Inv, Now

(* AuthPolicy: no end completes against its Config, in a resumption or not. *)
(* The client has verified the server for the name it meant, the server has *)
(* the certificate that ClientAuth asks for, proved by a CertificateVerify  *)
(* on this connection or on the one the ticket is of, and VerifyConnection  *)
(* has seen the state that is then reported.                                *)
THEOREM AuthPolicyHolds == Spec => []AuthPolicy
<1>1. Inv => AuthPolicy
  BY InvAuthPolicy
<1> QED
  BY <1>1, InvHolds, PTL

(* The invariant implies ECHKeepsSecrets. *)
LEMMA InvECHKeepsSecrets ==
  ASSUME Inv
  PROVE  ECHKeepsSecrets
<1>1. CASE st = ClosedEnds
  BY <1>1, ClosedIs DEF ECHKeepsSecrets
<1>2. CASE Now /\ st.client.ech # "none"
  <2>1. PICK c : c = st.client
    OBVIOUS
  <2>2. ClientInv(c, cfg, sealed) /\ ClientSent(c, cfg, sealed)
    BY <1>2, <2>1 DEF Now, Open
  <2>3. cfg.client.ech # "none"
    BY <1>2, <2>1, <2>2 DEF ClientInv
  <2>4. PICK M : c.sent \in Seq(M) /\ \A m \in M : ClientMsg(m, c, cfg, sealed)
    BY <2>2 DEF ClientSent
  <2>5. ASSUME NEW i \in DOMAIN c.sent, NEW m, m = c.sent[i]
        PROVE  /\ m.kind = "ClientHello" => m.body.x.serverName = "public" /\ m.body.x.psk = NoPSK
               /\ m.kind = "Certificate" /\ m.body # "none" => c.ech = "accepted"
    <3>1. m \in M
      BY <2>4, <2>5
    <3>2. ClientMsg(m, c, cfg, sealed)
      BY <2>4, <3>1
    <3> QED
      BY <1>2, <2>1, <2>3, <3>2 DEF ClientMsg
  <2>6. c.pc = "complete" => c.ech = "accepted" /\ c.echAccepted
    BY <2>2, <2>3 DEF ClientInv, ECHSettled
  <2>7. c.err = "ECHRejectionError" /\ cfg.client.rejection = "nil" =>
           c.serverCert.trusted /\ "public" \in c.serverCert.names
    BY <2>2 DEF ClientInv
  <2> QED
    BY <2>1, <2>5, <2>6, <2>7 DEF ECHKeepsSecrets, Complete
<1>3. CASE st.client.ech = "none"
  BY <1>3 DEF ECHKeepsSecrets
<1> QED
  BY <1>1, <1>2, <1>3 DEF Inv, Now

(* ECHKeepsSecrets: a client that offers ECH shows the name it means, and   *)
(* the ticket it has, in no hello outside of the payload, shows its         *)
(* certificate to no server that has rejected ECH, and never completes with *)
(* one, a HelloRetryRequest in between or not.                              *)
THEOREM ECHKeepsSecretsHolds == Spec => []ECHKeepsSecrets
<1>1. Inv => ECHKeepsSecrets
  BY InvECHKeepsSecrets
<1> QED
  BY <1>1, InvHolds, PTL

-----------------------------------------------------------------------------
(* Neither end waits for the other in vain.  A message that turns the client   *)
(* is one after which it does not read again before it writes.                 *)
Halted(r) == r.pc \in {"complete", "failed"}
Turns(m) == m.kind \in {"Finished", "NewSessionTicket", "end"} \/ (m.kind = "ServerHello" /\ m.body.retry)
Ending(sent, kinds) == sent # <<>> /\ Last(sent).kind \in kinds
Hellos(sent) == \E M : sent \in Seq(M) /\ \A m \in M : m.kind \in {"ClientHello", "end"}

Moves(c, s) ==
    /\ ~Halted(c) => Hellos(c.sent)
    /\ s.sent # <<>> => Turns(Last(s.sent))
    /\ ~Halted(c) /\ Halted(s) => Ending(s.sent, {"end"})
    /\ Halted(c) /\ ~Halted(s) => Ending(c.sent, {"Finished", "end"})
    /\ ~Halted(c) /\ ~Halted(s) /\ c.pc # "start" => c.sent # <<>> \/ s.sent # <<>>
Alive == st = ClosedEnds \/ Moves(st.client, st.server)

(* A message that is written is the last. *)
LEMMA AppendLast ==
  ASSUME NEW a, IsTh(a), NEW m
  PROVE  IsTh(Append(a, m)) /\ Append(a, m) # <<>> /\ Last(Append(a, m)) = m
<1>1. PICK M : a \in Seq(M)
  BY DEF IsTh
<1>2. PICK N : N = M \cup {m}
  OBVIOUS
<1>3. a \in Seq(N) /\ m \in N
  BY <1>1, <1>2
<1>4. PICK b : b = Append(a, m)
  OBVIOUS
<1>5. b \in Seq(N) /\ b # <<>> /\ Len(b) = Len(a) + 1 /\ b[Len(a) + 1] = m
  BY <1>3, <1>4
<1> QED
  BY <1>4, <1>5 DEF IsTh, Last

(* Reading the first message leaves the last one, if it is not the same. *)
LEMMA TailLast ==
  ASSUME NEW a, IsTh(a), a # <<>>
  PROVE  /\ Tail(a) = <<>> => Last(a) = Head(a)
         /\ Tail(a) # <<>> => Last(Tail(a)) = Last(a)
<1>1. PICK M : a \in Seq(M)
  BY DEF IsTh
<1>2. PICK n : n = Len(a)
  OBVIOUS
<1>3. PICK b : b = Tail(a)
  OBVIOUS
<1>4. n \in Nat /\ n > 0 /\ b \in Seq(M) /\ Len(b) = n - 1 /\ \A i \in 1..(n - 1) : b[i] = a[i + 1]
  BY <1>1, <1>2, <1>3
<1>5. CASE b = <<>>
  <2>1. n = 1
    BY <1>4, <1>5
  <2> QED
    BY <1>1, <1>2, <1>3, <1>5, <2>1 DEF Last
<1>6. CASE b # <<>>
  <2>1. n - 1 > 0
    BY <1>4, <1>6
  <2>2. b[n - 1] = a[n]
    BY <1>4, <2>1
  <2> QED
    BY <1>2, <1>3, <1>4, <1>6, <2>2 DEF Last
<1> QED
  BY <1>5, <1>6

(* Reading one of several hellos. *)
LEMMA HellosTail ==
  ASSUME NEW a, Hellos(a), a # <<>>
  PROVE  Hellos(Tail(a)) /\ Head(a).kind \in {"ClientHello", "end"}
<1>1. PICK M : a \in Seq(M) /\ \A m \in M : m.kind \in {"ClientHello", "end"}
  BY DEF Hellos
<1>2. Tail(a) \in Seq(M) /\ Head(a) \in M
  BY <1>1
<1> QED
  BY <1>1, <1>2 DEF Hellos

(* The client has read m. *)
ClientTurn(q, m) ==
    \/ Halted(q) /\ Ending(q.sent, {"Finished", "end"})
    \/ /\ ~Halted(q) /\ q.pc # "start" /\ Hellos(q.sent)
       /\ \/ m.kind = "ServerHello" /\ q.sent # <<>>
          \/ ~Turns(m)

(* A step of the client that reads leaves one of the two something to do. *)
LEMMA ClientMoves ==
  ASSUME NEW c, NEW s, Moves(c, s), ~Halted(c), IsTh(s.sent), s.sent # <<>>,
         NEW s1, s1.sent = Tail(s.sent), s1.pc = s.pc, NEW q, ClientTurn(q, Head(s.sent))
  PROVE  Moves(q, s1)
<1>1. PICK a : a = s.sent
  OBVIOUS
<1>2. PICK b : b = s1.sent
  OBVIOUS
<1>3. (b = <<>> => Last(a) = Head(a)) /\ (b # <<>> => Last(b) = Last(a)) /\ a # <<>>
  BY <1>1, <1>2, TailLast
<1>4. Halted(s1) <=> Halted(s)
  BY DEF Halted
<1>5. Turns(Last(a)) /\ (Halted(s) => Ending(a, {"end"}))
  BY <1>1 DEF Moves
<1>6. s1.sent # <<>> => Turns(Last(s1.sent))
  BY <1>2, <1>3, <1>5
<1>7. ClientTurn(q, Head(a))
  BY <1>1
<1>8. CASE Halted(q)
  BY <1>6, <1>7, <1>8 DEF Moves, ClientTurn
<1>9. CASE ~Halted(q)
  <2>1. q.pc # "start" /\ Hellos(q.sent)
    BY <1>7, <1>9 DEF ClientTurn
  <2>2. b = <<>> => q.sent # <<>> /\ Head(a).kind = "ServerHello"
    BY <1>3, <1>5, <1>7, <1>9 DEF ClientTurn
  <2>3. Halted(s) => Ending(s1.sent, {"end"})
    BY <1>2, <1>3, <1>5, <2>2 DEF Ending
  <2> QED
    BY <1>2, <1>4, <1>6, <1>9, <2>1, <2>2, <2>3 DEF Moves
<1> QED
  BY <1>8, <1>9

(* The server has read m. *)
ServerTurn(s, q, m) ==
    \/ q.pc = "failed" /\ Ending(q.sent, {"end"})
    \/ q.pc = "complete" /\ m.kind = "Finished" /\ q.sent = s.sent
    \/ ~Halted(q) /\ m.kind = "ClientHello" /\ q.sent # <<>> /\ Turns(Last(q.sent))
    \/ ~Halted(q) /\ m.kind \in {"Certificate", "CertificateVerify"} /\ (q.sent # <<>> => Turns(Last(q.sent)))

(* A step of the server that reads leaves one of the two something to do. *)
LEMMA ServerMoves ==
  ASSUME NEW c, NEW s, Moves(c, s), ~Halted(s), IsTh(c.sent), c.sent # <<>>,
         NEW c1, c1.sent = Tail(c.sent), c1.pc = c.pc, NEW q, ServerTurn(s, q, Head(c.sent))
  PROVE  Moves(c1, q)
<1>1. PICK a : a = c.sent
  OBVIOUS
<1>2. PICK b : b = c1.sent
  OBVIOUS
<1>3. PICK m : m = Head(a)
  OBVIOUS
<1>4. (b = <<>> => Last(a) = m) /\ (b # <<>> => Last(b) = Last(a)) /\ a # <<>>
  BY <1>1, <1>2, <1>3, TailLast
<1>5. Halted(c1) <=> Halted(c)
  BY DEF Halted
<1>6. ServerTurn(s, q, m)
  BY <1>1, <1>3
<1>7. ~Halted(c) => Hellos(b) /\ m.kind \in {"ClientHello", "end"}
  BY <1>1, <1>2, <1>3, HellosTail DEF Moves
<1>8. Halted(c) => Last(a).kind \in {"Finished", "end"}
  BY <1>1 DEF Moves, Ending
<1>9. s.sent # <<>> => Turns(Last(s.sent))
  BY DEF Moves
<1>10. CASE q.pc = "failed" /\ Ending(q.sent, {"end"})
  <2>1. Turns(Last(q.sent)) /\ Halted(q)
    BY <1>10 DEF Ending, Turns, Halted
  <2> QED
    BY <1>2, <1>5, <1>7, <1>10, <2>1 DEF Moves
<1>11. CASE q.pc = "complete" /\ m.kind = "Finished" /\ q.sent = s.sent
  <2>1. Halted(c) /\ Halted(q)
    BY <1>7, <1>11 DEF Halted
  <2> QED
    BY <1>5, <1>9, <1>11, <2>1 DEF Moves
<1>12. CASE ~Halted(q) /\ m.kind = "ClientHello" /\ q.sent # <<>> /\ Turns(Last(q.sent))
  <2>1. Halted(c) => Ending(b, {"Finished", "end"})
    BY <1>4, <1>8, <1>12 DEF Ending
  <2> QED
    BY <1>2, <1>5, <1>7, <1>12, <2>1 DEF Moves
<1>13. CASE /\ ~Halted(q) /\ m.kind \in {"Certificate", "CertificateVerify"}
            /\ q.sent # <<>> => Turns(Last(q.sent))
  <2>1. Halted(c)
    BY <1>7, <1>13
  <2>2. Ending(b, {"Finished", "end"})
    BY <1>4, <1>8, <1>13, <2>1 DEF Ending
  <2> QED
    BY <1>2, <1>5, <1>13, <2>1, <2>2 DEF Moves
<1> QED
  BY <1>6, <1>10, <1>11, <1>12, <1>13 DEF ServerTurn

-----------------------------------------------------------------------------
(* What an end writes last. *)
Grown(r) == DOMAIN r = Fields /\ IsTh(r.sent)

(* Conn.write writes last what it is given. *)
LEMMA PutLast ==
  ASSUME NEW r, Grown(r), NEW kind, NEW body
  PROVE  LET q == Put(r, kind, body) IN
         /\ Grown(q) /\ q.pc = r.pc /\ q.out = r.out /\ q.sent # <<>>
         /\ Last(q.sent) = [kind |-> kind, key |-> r.out, body |-> body]
<1>1. PICK m : m = [kind |-> kind, key |-> r.out, body |-> body]
  OBVIOUS
<1>2. PICK q : q = [r EXCEPT !.sent = Append(@, m)]
  OBVIOUS
<1>3. q = Put(r, kind, body)
  BY <1>1, <1>2 DEF Put
<1>4. DOMAIN q = Fields /\ q.sent = Append(r.sent, m) /\ q.pc = r.pc /\ q.out = r.out
  BY <1>2 DEF Grown, Fields
<1>5. IsTh(q.sent) /\ q.sent # <<>> /\ Last(q.sent) = m
  BY <1>4, AppendLast DEF Grown
<1> QED
  BY <1>1, <1>3, <1>4, <1>5 DEF Grown

(* Reading a message writes none. *)
LEMMA HeardGrown ==
  ASSUME NEW r, Grown(r), NEW kind, NEW body
  PROVE  LET q == Heard(r, kind, body) IN Grown(q) /\ q.pc = r.pc /\ q.sent = r.sent /\ q.out = r.out
<1>1. PICK e : e = Entry(kind, body)
  OBVIOUS
<1>2. PICK q : q = [r EXCEPT !.th = Append(@, e)]
  OBVIOUS
<1>3. q = Heard(r, kind, body)
  BY <1>1, <1>2 DEF Heard
<1>4. DOMAIN q = Fields /\ q.sent = r.sent /\ q.pc = r.pc /\ q.out = r.out
  BY <1>2 DEF Grown, Fields
<1> QED
  BY <1>3, <1>4 DEF Grown

(* writeHandshakeRecord keeps the stage. *)
LEMMA SaysGrown ==
  ASSUME NEW r, Grown(r), NEW kind, NEW body
  PROVE  Grown(Says(r, kind, body)) /\ Says(r, kind, body).pc = r.pc
<1>1. PICK h : h = Heard(r, kind, body)
  OBVIOUS
<1>2. Grown(h) /\ h.pc = r.pc
  BY <1>1, HeardGrown
<1>3. Says(r, kind, body) = Put(h, kind, body)
  BY <1>1 DEF Says, Heard
<1>4. Grown(Put(h, kind, body)) /\ Put(h, kind, body).pc = h.pc
  BY <1>2, PutLast
<1> QED
  BY <1>2, <1>3, <1>4

(* Writing CertificateVerify keeps the stage. *)
LEMMA SignedGrown ==
  ASSUME NEW r, Grown(r), NEW alg, NEW th
  PROVE  Grown(SaysSigned(r, alg, th)) /\ SaysSigned(r, alg, th).pc = r.pc
<1>1. PICK h : h = Heard(r, "CertificateVerify", alg)
  OBVIOUS
<1>2. Grown(h) /\ h.pc = r.pc
  BY <1>1, HeardGrown
<1>3. PICK b : b = [alg |-> alg, th |-> th]
  OBVIOUS
<1>4. SaysSigned(r, alg, th) = Put(h, "CertificateVerify", b)
  BY <1>1, <1>3 DEF SaysSigned
<1>5. PICK kind : kind = "CertificateVerify"
  OBVIOUS
<1>6. Grown(Put(h, kind, b)) /\ Put(h, kind, b).pc = h.pc
  BY <1>2, PutLast
<1> QED
  BY <1>2, <1>4, <1>5, <1>6

(* Finished is the last message, once it is written. *)
LEMMA FinishedLast ==
  ASSUME NEW r, Grown(r)
  PROVE  LET q == SaysFinished(r) IN Grown(q) /\ q.pc = r.pc /\ Ending(q.sent, {"Finished"})
<1>1. PICK h : h = Heard(r, "Finished", <<>>)
  OBVIOUS
<1>2. Grown(h) /\ h.pc = r.pc
  BY <1>1, HeardGrown
<1>3. PICK b : b = FinishedHash(r.out, r.th)
  OBVIOUS
<1>4. PICK q : q = Put(h, "Finished", b)
  OBVIOUS
<1>5. q = SaysFinished(r)
  BY <1>1, <1>3, <1>4 DEF SaysFinished
<1>6. Grown(q) /\ q.pc = h.pc /\ q.sent # <<>> /\ Last(q.sent) = [kind |-> "Finished", key |-> h.out, body |-> b]
  BY <1>2, <1>4, PutLast
<1>7. Last(q.sent).kind = "Finished"
  BY <1>6
<1> QED
  BY <1>2, <1>5, <1>6, <1>7 DEF Ending

(* The alert of a failure is the last message. *)
LEMMA FailLast ==
  ASSUME NEW r, Grown(r), NEW err
  PROVE  FailWith(r, err).pc = "failed" /\ Ending(FailWith(r, err).sent, {"end"})
<1>1. PICK x : x = Put(r, "end", <<>>)
  OBVIOUS
<1>2. Grown(x) /\ x.sent # <<>> /\ Last(x.sent) = [kind |-> "end", key |-> r.out, body |-> <<>>]
  BY <1>1, PutLast
<1>3. Last(x.sent).kind = "end"
  BY <1>2
<1>4. PICK q : q = [x EXCEPT !.pc = "failed", !.err = err]
  OBVIOUS
<1>5. q = FailWith(r, err) /\ q.pc = "failed" /\ q.sent = x.sent
  BY <1>1, <1>2, <1>4 DEF FailWith, Grown, Fields
<1> QED
  BY <1>2, <1>3, <1>5 DEF Ending

(* VerifyConnection writes nothing. *)
LEMMA ViewGrown ==
  ASSUME NEW e, NEW r, Grown(r)
  PROVE  LET q == VerifyConnection(e, r) IN Grown(q) /\ q.pc = r.pc /\ q.sent = r.sent
<1>1. CASE cfg[e].verify = "nil"
  BY <1>1 DEF VerifyConnection
<1>2. CASE cfg[e].verify # "nil"
  <2>1. PICK v : v = View(r)
    OBVIOUS
  <2>2. PICK q : q = [r EXCEPT !.saw = v]
    OBVIOUS
  <2>3. q = VerifyConnection(e, r)
    BY <1>2, <2>1, <2>2 DEF VerifyConnection
  <2>4. DOMAIN q = Fields /\ q.sent = r.sent /\ q.pc = r.pc
    BY <2>2 DEF Grown, Fields
  <2> QED
    BY <2>3, <2>4 DEF Grown
<1> QED
  BY <1>1, <1>2

-----------------------------------------------------------------------------
(* The ends of a connection, and what they have under way. *)
LEMMA NowGrown ==
  ASSUME Now
  PROVE  Grown(st.client) /\ Grown(st.server) /\ Shape(st.client) /\ Shape(st.server)
<1>1. Shape(st.client) /\ Shape(st.server) /\ ClientSent(st.client, cfg, sealed) /\ ServerSent(st.server, conn)
  BY DEF Now, Open
<1>2. IsTh(st.client.sent) /\ IsTh(st.server.sent)
  BY <1>1 DEF ClientSent, ServerSent, IsTh
<1> QED
  BY <1>1, <1>2 DEF Grown, Shape

(* On a connection, one of the two ends has something to do. *)
LEMMA NowAlive ==
  ASSUME Now, Alive
  PROVE  Moves(st.client, st.server)
<1>1. st.client.pc # "closed"
  BY DEF Now, Open, ClientInv, ClientStates
<1>2. st # ClosedEnds
  BY <1>1, ClosedIs
<1> QED
  BY <1>2 DEF Alive

(* A read of the client that turns out well keeps Alive. *)
LEMMA ClientAlive ==
  ASSUME Inv, Alive, Now, Waiting("client"), ~Halted(st.client), NEW q, Reads("client", q),
         ClientTurn(q, Msg("client"))
  PROVE  Alive'
<1>1. DOMAIN st' = Ends /\ st'.client = q /\ st'.server = [st.server EXCEPT !.sent = Tail(@)]
  BY ReadsClient DEF Inv
<1>2. PICK s : s = st.server
  OBVIOUS
<1>3. PICK s1 : s1 = st'.server
  OBVIOUS
<1>4. s1 = [s EXCEPT !.sent = Tail(s.sent)] /\ DOMAIN s = Fields /\ IsTh(s.sent)
  BY <1>1, <1>2, <1>3, NowGrown DEF Grown
<1>5. s1.sent = Tail(s.sent) /\ s1.pc = s.pc
  BY <1>4 DEF Fields
<1>6. s.sent # <<>> /\ ClientTurn(q, Head(s.sent)) /\ Moves(st.client, s)
  BY <1>2, NowAlive DEF Waiting, Msg, Peer
<1>7. Moves(q, s1)
  BY <1>4, <1>5, <1>6, ClientMoves
<1> QED
  BY <1>1, <1>3, <1>7 DEF Alive

(* A read of the server that turns out well keeps Alive. *)
LEMMA ServerAlive ==
  ASSUME Inv, Alive, Now, Waiting("server"), ~Halted(st.server), NEW q, ServerGoes(q),
         ServerTurn(st.server, q, Msg("server"))
  PROVE  Alive'
<1>1. DOMAIN st' = Ends /\ st'.server = q /\ st'.client = [st.client EXCEPT !.sent = Tail(@)]
  BY ReadsServer DEF Inv, ServerGoes
<1>2. PICK c : c = st.client
  OBVIOUS
<1>3. PICK c1 : c1 = st'.client
  OBVIOUS
<1>4. c1 = [c EXCEPT !.sent = Tail(c.sent)] /\ DOMAIN c = Fields /\ IsTh(c.sent)
  BY <1>1, <1>2, <1>3, NowGrown DEF Grown
<1>5. c1.sent = Tail(c.sent) /\ c1.pc = c.pc
  BY <1>4 DEF Fields
<1>6. c.sent # <<>> /\ ServerTurn(st.server, q, Head(c.sent)) /\ Moves(c, st.server)
  BY <1>2, NowAlive DEF Waiting, Msg, Peer
<1>7. Moves(c1, q)
  BY <1>4, <1>5, <1>6, ServerMoves
<1> QED
  BY <1>1, <1>3, <1>7 DEF Alive

(* The client fails. *)
LEMMA ClientFailAlive ==
  ASSUME Inv, Alive, Now, Waiting("client"), ~Halted(st.client), NEW r, Grown(r), NEW err, ClientFailsIn(r, err)
  PROVE  Alive'
<1>1. PICK q : q = FailWith(r, err)
  OBVIOUS
<1>2. q.pc = "failed" /\ Ending(q.sent, {"end"}) /\ Reads("client", q)
  BY <1>1, FailLast DEF ClientFailsIn
<1>3. ClientTurn(q, Msg("client"))
  BY <1>2 DEF ClientTurn, Halted, Ending
<1> QED
  BY <1>2, <1>3, ClientAlive

(* A failure of the client that follows a read at once keeps Alive. *)
LEMMA ClientFailsAlive ==
  ASSUME Inv, Alive, Now, Waiting("client"), ~Halted(st.client), ClientFails
  PROVE  Alive'
BY NowGrown, ClientFailAlive DEF ClientFails

(* The client reads on. *)
LEMMA ClientReadsOn ==
  ASSUME Inv, Alive, Now, Waiting("client"), ~Halted(st.client), NEW q, Reads("client", q),
         q.sent = st.client.sent, q.pc \notin {"start", "complete", "failed"}, ~Turns(Msg("client"))
  PROVE  Alive'
<1>1. Hellos(q.sent)
  BY NowAlive DEF Moves
<1>2. ClientTurn(q, Msg("client"))
  BY SMTT(30), <1>1 DEF ClientTurn, Halted
<1> QED
  BY <1>2, ClientAlive

(* clientHandshake keeps Alive: the server has a hello to read, or an end. *)
LEMMA ClientHelloAlive ==
  ASSUME Inv, Alive, NEW expired, ClientHello(expired)
  PROVE  Alive'
<1> DEFINE c == cfg.client
           session == IF Usable(c) /\ ~expired THEN cache ELSE NoSession
           early == session # NoSession /\ OffersEarly(c)
           real  == IF session = NoSession THEN MakeClientHello(c)
                    ELSE WithBinder([MakeClientHello(c) EXCEPT !.x.earlyData = early,
                                        !.x.psk.label = session.label], session.secret, <<>>)
           outer == Seal([real EXCEPT !.random = <<conn, "outer">>, !.x.serverName = "public"],
                         real, c.ech, conn, 0)
           hello == IF c.ech = "none" THEN real ELSE outer
           name == hello.x.serverName
           inner == IF c.ech = "none" THEN NoHello ELSE real
           ech == IF c.ech = "none" THEN "none" ELSE "offered"
           key == IF early THEN EarlyKey(session.secret, HelloEntry(Marshal(real, FALSE))) ELSE NoKey
           r == [st.client EXCEPT !.pc = "serverHello", !.hello = hello, !.session = session,
                 !.serverName = name, !.inner = inner, !.ech = ech, !.earlyKey = key]
           w == Marshal(hello, FALSE)
           q == Put(r, "ClientHello", w)
<1>1. st.client.pc = "start" /\ Goes("client", q)
  BY DEF ClientHello
<1>2. r = [st.client EXCEPT !.pc = "serverHello", !.hello = hello, !.session = session,
                 !.serverName = name, !.inner = inner, !.ech = ech, !.earlyKey = key]
  OBVIOUS
<1>3. q = Put(r, "ClientHello", w)
  OBVIOUS
<1> HIDE DEF c, session, early, real, outer, hello, name, inner, ech, key, r, w, q
<1>4. Now
  BY <1>1, Opened
<1>5. PICK x : x = st.client
  OBVIOUS
<1>6. PICK s : s = st.server
  OBVIOUS
<1>7. Moves(x, s) /\ ~Halted(x) /\ Grown(x) /\ Shape(x)
  BY <1>1, <1>4, <1>5, <1>6, NowAlive, NowGrown DEF Halted
<1>8. DOMAIN r = Fields /\ r.sent = x.sent /\ r.pc = "serverHello" /\ Grown(r)
  <2>1. DOMAIN r = Fields /\ r.sent = x.sent /\ r.pc = "serverHello"
    BY <1>2, <1>5, <1>7 DEF Grown, Fields
  <2> QED
    BY <1>7, <2>1 DEF Grown
<1>9. q.pc = "serverHello" /\ q.sent # <<>>
  BY <1>3, <1>8, PutLast
<1>10. Hellos(q.sent)
  <2>1. PICK m : m = [kind |-> "ClientHello", key |-> r.out, body |-> w]
    OBVIOUS
  <2>2. q.sent = Append(x.sent, m)
    BY <1>3, <1>8, <2>1 DEF Put, Fields
  <2>3. PICK M : x.sent \in Seq(M) /\ \A y \in M : y.kind \in {"ClientHello", "end"}
    BY <1>7 DEF Moves, Hellos
  <2>4. PICK N : N = M \cup {m}
    OBVIOUS
  <2>5. x.sent \in Seq(N) /\ m \in N
    BY <2>3, <2>4
  <2>6. q.sent \in Seq(N)
    BY <2>2, <2>5
  <2>7. m.kind = "ClientHello"
    BY <2>1
  <2>8. \A y \in N : y.kind \in {"ClientHello", "end"}
    BY <2>3, <2>4, <2>7
  <2> QED
    BY <2>6, <2>8 DEF Hellos
<1>11. Moves(q, s)
  BY <1>7, <1>9, <1>10 DEF Moves, Halted
<1>12. st'.client = q /\ st'.server = s
  BY <1>1, <1>6 DEF Goes, Inv, Ends
<1> QED
  BY SMTT(30), <1>11, <1>12 DEF Alive

(* The operators of ServerHello write at most a ClientHello. *)
LEMMA HelloLast ==
  ASSUME NEW r, Grown(r), Hellos(r.sent), NEW w, NEW q, q = Put(r, "ClientHello", w)
  PROVE  q.pc = r.pc /\ q.sent # <<>> /\ Hellos(q.sent)
<1>1. PICK m : m = [kind |-> "ClientHello", key |-> r.out, body |-> w]
  OBVIOUS
<1>2. q.sent = Append(r.sent, m)
  BY <1>1 DEF Put, Fields, Grown
<1>3. PICK M : r.sent \in Seq(M) /\ \A y \in M : y.kind \in {"ClientHello", "end"}
  BY DEF Hellos
<1>4. PICK N : N = M \cup {m}
  OBVIOUS
<1>5. r.sent \in Seq(N) /\ m \in N
  BY <1>3, <1>4
<1>6. q.sent \in Seq(N)
  BY <1>2, <1>5
<1>7. m.kind = "ClientHello"
  BY <1>1
<1>8. \A y \in N : y.kind \in {"ClientHello", "end"}
  BY <1>3, <1>4, <1>7
<1>9. Hellos(q.sent)
  BY <1>6, <1>8 DEF Hellos
<1> QED
  BY <1>9, PutLast

(* Beginning the transcript writes nothing. *)
LEMMA StartedGrown ==
  ASSUME NEW r, Grown(r)
  PROVE  LET q == Started(r) IN Grown(q) /\ q.pc = r.pc /\ q.sent = r.sent
<1>1. PICK a : a = <<HelloEntry(Marshal(r.hello, FALSE))>>
  OBVIOUS
<1>2. PICK b : b = IF r.ech = "none" THEN <<>> ELSE <<HelloEntry(Marshal(r.inner, FALSE))>>
  OBVIOUS
<1>3. PICK q : q = [r EXCEPT !.th = a, !.innerTh = b]
  OBVIOUS
<1>4. q = Started(r)
  BY <1>1, <1>2, <1>3 DEF Started
<1>5. DOMAIN q = Fields /\ q.pc = r.pc /\ q.sent = r.sent
  BY <1>3 DEF Grown, Fields
<1> QED
  BY <1>4, <1>5 DEF Grown

(* Deciding on ECH writes nothing. *)
LEMMA ConfirmedGrown ==
  ASSUME NEW r, Grown(r), NEW sh
  PROVE  LET q == Confirmed(r, sh) IN Grown(q) /\ q.pc = r.pc /\ q.sent = r.sent
<1>1. PICK q : q = Confirmed(r, sh)
  OBVIOUS
<1>2. \/ q = r
      \/ q = [r EXCEPT !.hello = r.inner, !.th = r.innerTh, !.serverName = "secret",
                       !.ech = "accepted", !.echAccepted = TRUE]
      \/ q = [r EXCEPT !.ech = "rejected"]
  BY <1>1 DEF Confirmed
<1>3. DOMAIN q = Fields /\ q.pc = r.pc /\ q.sent = r.sent
  BY ZenonT(40), <1>2 DEF Grown, Fields
<1> QED
  BY <1>1, <1>3 DEF Grown

(* processHelloRetryRequest writes a hello. *)
LEMMA RetryGrown ==
  ASSUME NEW r, Grown(r), Hellos(r.sent), NEW sh
  PROVE  LET q == ProcessHelloRetryRequest(r, sh) IN q.pc = r.pc /\ q.sent # <<>> /\ Hellos(q.sent)
<1> DEFINE accepted == RetryConfirms(r, sh)
           th == Append(MessageHash(r.th), ServerHelloEntry(sh))
           innerTh == Append(MessageHash(r.innerTh), ServerHelloEntry(sh))
           m == Retried(r, IF accepted THEN r.inner ELSE r.hello, sh, IF r.ech = "none" THEN th ELSE innerTh)
           hello == IF accepted THEN Resealed(r, m) ELSE m
           wire == Marshal(hello, FALSE)
           inner == IF accepted THEN m ELSE r.inner
           ith == IF accepted THEN Append(innerTh, HelloEntry(Marshal(m, FALSE))) ELSE innerTh
           ath == Append(th, HelloEntry(wire))
           name == IF accepted THEN "secret" ELSE r.serverName
           x == [r EXCEPT !.didHRR = TRUE, !.suite = sh.suite, !.hello = hello, !.inner = inner, !.innerTh = ith,
                          !.th = ath, !.serverName = name, !.echAccepted = accepted]
           q == Put(x, "ClientHello", wire)
<1>1. q = ProcessHelloRetryRequest(r, sh)
  BY DEF ProcessHelloRetryRequest
<1>2. x = [r EXCEPT !.didHRR = TRUE, !.suite = sh.suite, !.hello = hello, !.inner = inner, !.innerTh = ith,
                    !.th = ath, !.serverName = name, !.echAccepted = accepted]
  OBVIOUS
<1>3. q = Put(x, "ClientHello", wire)
  OBVIOUS
<1> HIDE DEF accepted, th, innerTh, m, hello, wire, inner, ith, ath, name, x, q
<1>4. DOMAIN x = Fields /\ x.pc = r.pc /\ x.sent = r.sent
  BY <1>2 DEF Grown, Fields
<1>5. Grown(x) /\ Hellos(x.sent)
  BY <1>4 DEF Grown
<1>6. q.pc = x.pc /\ q.sent # <<>> /\ Hellos(q.sent)
  BY <1>3, <1>5, HelloLast
<1> QED
  BY <1>1, <1>4, <1>6

(* processServerHello writes nothing. *)
LEMMA ProcessGrown ==
  ASSUME NEW r, Grown(r), NEW sh
  PROVE  LET q == ProcessServerHello(r, sh) IN q.pc = "params" /\ q.sent = r.sent
<1> DEFINE th == Append(r.th, ServerHelloEntry(sh))
           dhe == [group |-> sh.group, conn |-> conn, try |-> IF r.didHRR THEN 2 ELSE 1]
           secret == HandshakeSecret(IF sh.psk THEN r.session.secret ELSE NoPSKey, dhe)
           ko == HandshakeKey("client", secret, th)
           ki == HandshakeKey("server", secret, th)
           x == [r EXCEPT !.th = th, !.suite = sh.suite, !.group = sh.group, !.secret = secret, !.out = ko,
                          !.in = ki, !.pc = "params"]
           q == ProcessServerHello(r, sh)
<1>1. q = x \/ q = [x EXCEPT !.resumed = TRUE, !.serverCert = r.session.cert, !.verified = r.session.verified]
  BY DEF ProcessServerHello
<1>2. x = [r EXCEPT !.th = th, !.suite = sh.suite, !.group = sh.group, !.secret = secret, !.out = ko,
                    !.in = ki, !.pc = "params"]
  OBVIOUS
<1> HIDE DEF th, dhe, secret, ko, ki, x, q
<1>3. DOMAIN x = Fields /\ x.pc = "params" /\ x.sent = r.sent
  BY <1>2 DEF Grown, Fields
<1>4. q.pc = "params" /\ q.sent = r.sent
  BY <1>1, <1>3 DEF Fields
<1> QED
  BY <1>4 DEF q

(* ServerHello and HelloRetryRequest keep Alive. *)
LEMMA ServerHelloAlive ==
  ASSUME Inv, Alive, ServerHello
  PROVE  Alive'
<1> DEFINE sh == Msg("client").body
           r0 == IF st.client.didHRR THEN st.client ELSE Started(st.client)
           r1 == Confirmed(r0, sh)
<1>1. \/ ClientFails
      \/ Sees("client", "ServerHello") /\ sh.retry /\ Reads("client", ProcessHelloRetryRequest(r0, sh))
      \/ Sees("client", "ServerHello") /\ ~sh.retry /\ Reads("client", ProcessServerHello(r1, sh))
  BY DEF ServerHello
<1>2. st.client.pc = "serverHello" /\ Waiting("client") /\ Now
  BY Opened DEF ServerHello
<1>3. sh = Msg("client").body /\ (r0 = IF st.client.didHRR THEN st.client ELSE Started(st.client))
  OBVIOUS
<1>4. r1 = Confirmed(r0, sh)
  OBVIOUS
<1> HIDE DEF sh, r0, r1
<1>5. ~Halted(st.client) /\ Grown(st.client) /\ Hellos(st.client.sent)
  <2>1. ~Halted(st.client)
    BY <1>2 DEF Halted
  <2> QED
    BY <1>2, <2>1, NowGrown, NowAlive DEF Moves
<1>6. Grown(r0) /\ r0.pc = "serverHello" /\ r0.sent = st.client.sent
  BY <1>2, <1>3, <1>5, StartedGrown
<1>7. CASE ClientFails
  BY <1>2, <1>5, <1>7, ClientFailsAlive
<1>8. CASE Sees("client", "ServerHello") /\ sh.retry /\ Reads("client", ProcessHelloRetryRequest(r0, sh))
  <2>1. PICK q : q = ProcessHelloRetryRequest(r0, sh)
    OBVIOUS
  <2>2. Hellos(r0.sent)
    BY <1>5, <1>6
  <2>3. q.pc = "serverHello" /\ q.sent # <<>> /\ Hellos(q.sent)
    BY <1>6, <2>1, <2>2, RetryGrown
  <2>4. ClientTurn(q, Msg("client"))
    BY <1>8, <2>3 DEF ClientTurn, Halted, Sees
  <2>5. Reads("client", q)
    BY <1>8, <2>1
  <2> QED
    BY <1>2, <1>5, <2>4, <2>5, ClientAlive
<1>9. CASE Sees("client", "ServerHello") /\ ~sh.retry /\ Reads("client", ProcessServerHello(r1, sh))
  <2>1. PICK q : q = ProcessServerHello(r1, sh)
    OBVIOUS
  <2>2. Grown(r1) /\ r1.sent = st.client.sent
    BY <1>4, <1>6, ConfirmedGrown
  <2>3. q.pc = "params" /\ q.sent = st.client.sent
    BY <2>1, <2>2, ProcessGrown
  <2>4. ~Turns(Msg("client"))
    BY <1>3, <1>9 DEF Turns, Sees
  <2>5. Reads("client", q)
    BY <1>9, <2>1
  <2> QED
    BY <1>2, <1>5, <2>3, <2>4, <2>5, ClientReadsOn
<1> QED
  BY <1>1, <1>7, <1>8, <1>9

(* EncryptedExtensions keeps Alive: more of the flight follows. *)
LEMMA EncryptedExtensionsAlive ==
  ASSUME Inv, Alive, EncryptedExtensions
  PROVE  Alive'
<1> DEFINE ee == Msg("client").body
           h == Heard(st.client, "EncryptedExtensions", ee)
           rc == IF st.client.ech = "rejected" THEN ee.retryConfigs ELSE {}
           r == [h EXCEPT !.proto = ee.proto, !.early = ee.early, !.pc = "certificate", !.retryConfigs = rc]
           v == VerifyConnection("client", r)
           rv == [v EXCEPT !.pc = "finished"]
<1>1. \/ ClientFails \/ ClientFailsIn(rv, "other")
      \/ Sees("client", "EncryptedExtensions") /\ (Reads("client", r) \/ Reads("client", rv))
  BY DEF EncryptedExtensions
<1>2. st.client.pc = "params" /\ Waiting("client") /\ Now
  BY Opened DEF EncryptedExtensions
<1>3. h = Heard(st.client, "EncryptedExtensions", ee)
  OBVIOUS
<1>4. r = [h EXCEPT !.proto = ee.proto, !.early = ee.early, !.pc = "certificate", !.retryConfigs = rc]
  OBVIOUS
<1>5. v = VerifyConnection("client", r) /\ rv = [v EXCEPT !.pc = "finished"]
  OBVIOUS
<1> HIDE DEF ee, h, rc, r, v, rv
<1>6. ~Halted(st.client) /\ Grown(st.client)
  BY <1>2, NowGrown DEF Halted
<1>7. Grown(h) /\ h.sent = st.client.sent
  BY <1>3, <1>6, HeardGrown
<1>8. DOMAIN r = Fields /\ r.sent = h.sent /\ r.pc = "certificate"
  BY <1>4, <1>7 DEF Grown, Fields
<1>9. Grown(r) /\ r.sent = st.client.sent
  BY <1>7, <1>8 DEF Grown
<1>10. Grown(v) /\ v.sent = st.client.sent
  BY <1>5, <1>9, ViewGrown
<1>11. DOMAIN rv = Fields /\ rv.sent = v.sent /\ rv.pc = "finished"
  BY <1>5, <1>10 DEF Grown, Fields
<1>12. Grown(rv) /\ rv.sent = st.client.sent
  BY <1>10, <1>11 DEF Grown
<1>13. CASE ClientFails
  BY <1>2, <1>6, <1>13, ClientFailsAlive
<1>14. CASE ClientFailsIn(rv, "other")
  BY <1>2, <1>6, <1>12, <1>14, ClientFailAlive
<1>15. CASE Sees("client", "EncryptedExtensions") /\ (Reads("client", r) \/ Reads("client", rv))
  <2>1. ~Turns(Msg("client"))
    BY <1>15 DEF Turns, Sees
  <2> QED
    BY <1>2, <1>6, <1>8, <1>9, <1>11, <1>12, <1>15, <2>1, ClientReadsOn
<1> QED
  BY <1>1, <1>13, <1>14, <1>15

(* CertificateRequest keeps Alive. *)
LEMMA CertificateRequestAlive ==
  ASSUME Inv, Alive, CertificateRequest
  PROVE  Alive'
<1>1. PICK h : h = Heard(st.client, "CertificateRequest", <<>>)
  OBVIOUS
<1>2. PICK q : q = [h EXCEPT !.certReq = TRUE]
  OBVIOUS
<1>3. st.client.pc = "certificate" /\ Waiting("client") /\ Now /\ Sees("client", "CertificateRequest")
      /\ Reads("client", q)
  BY <1>1, <1>2, Opened DEF CertificateRequest, Sees
<1>4. ~Halted(st.client) /\ Grown(st.client)
  BY <1>3, NowGrown DEF Halted
<1>5. Grown(h) /\ h.sent = st.client.sent /\ h.pc = "certificate"
  BY <1>1, <1>3, <1>4, HeardGrown
<1>6. q.sent = st.client.sent /\ q.pc = "certificate"
  BY <1>2, <1>5 DEF Grown, Fields
<1>7. ~Turns(Msg("client"))
  BY <1>3 DEF Turns, Sees
<1> QED
  BY <1>3, <1>4, <1>6, <1>7, ClientReadsOn

(* The server's Certificate keeps Alive. *)
LEMMA ServerCertificateAlive ==
  ASSUME Inv, Alive, ServerCertificate
  PROVE  Alive'
<1> DEFINE cert == Msg("client").body
           h == Heard(st.client, "Certificate", cert)
           ver == IF RejectedECH(st.client) THEN cfg.client.rejection = "nil" ELSE ~cfg.client.insecure
           r == [h EXCEPT !.serverCert = cert, !.pc = "certVerify", !.verified = ver]
           v == VerifyConnection("client", r)
           rv == IF ~RejectedECH(r) THEN v ELSE r
<1>1. \/ ClientFails \/ ClientFailsIn(rv, "other")
      \/ Sees("client", "Certificate") /\ Reads("client", rv)
  BY DEF ServerCertificate
<1>2. st.client.pc = "certificate" /\ Waiting("client") /\ Now
  BY Opened DEF ServerCertificate
<1>3. h = Heard(st.client, "Certificate", cert)
  OBVIOUS
<1>4. r = [h EXCEPT !.serverCert = cert, !.pc = "certVerify", !.verified = ver]
  OBVIOUS
<1>5. v = VerifyConnection("client", r) /\ (rv = v \/ rv = r)
  OBVIOUS
<1> HIDE DEF cert, h, ver, r, v, rv
<1>6. ~Halted(st.client) /\ Grown(st.client)
  BY <1>2, NowGrown DEF Halted
<1>7. Grown(h) /\ h.sent = st.client.sent
  BY <1>3, <1>6, HeardGrown
<1>8. DOMAIN r = Fields /\ r.sent = h.sent /\ r.pc = "certVerify"
  BY <1>4, <1>7 DEF Grown, Fields
<1>9. Grown(r) /\ r.sent = st.client.sent
  BY <1>7, <1>8 DEF Grown
<1>10. Grown(v) /\ v.sent = st.client.sent /\ v.pc = "certVerify"
  BY <1>5, <1>8, <1>9, ViewGrown
<1>11. Grown(rv) /\ rv.sent = st.client.sent /\ rv.pc = "certVerify"
  BY <1>5, <1>8, <1>9, <1>10
<1>12. CASE ClientFails
  BY <1>2, <1>6, <1>12, ClientFailsAlive
<1>13. CASE ClientFailsIn(rv, "other")
  BY <1>2, <1>6, <1>11, <1>13, ClientFailAlive
<1>14. CASE Sees("client", "Certificate") /\ Reads("client", rv)
  <2>1. ~Turns(Msg("client"))
    BY <1>14 DEF Turns, Sees
  <2> QED
    BY <1>2, <1>6, <1>11, <1>14, <2>1, ClientReadsOn
<1> QED
  BY <1>1, <1>12, <1>13, <1>14

(* The server's CertificateVerify keeps Alive. *)
LEMMA ServerCertificateVerifyAlive ==
  ASSUME Inv, Alive, ServerCertificateVerify
  PROVE  Alive'
<1>1. PICK alg : alg = Msg("client").body.alg
  OBVIOUS
<1>2. PICK h : h = Heard(st.client, "CertificateVerify", alg)
  OBVIOUS
<1>3. PICK q : q = [h EXCEPT !.pc = "finished"]
  OBVIOUS
<1>4. ClientFails \/ (Sees("client", "CertificateVerify") /\ Reads("client", q))
  BY <1>1, <1>2, <1>3 DEF ServerCertificateVerify
<1>5. st.client.pc = "certVerify" /\ Waiting("client") /\ Now
  BY Opened DEF ServerCertificateVerify
<1>6. ~Halted(st.client) /\ Grown(st.client)
  BY <1>5, NowGrown DEF Halted
<1>7. Grown(h) /\ h.sent = st.client.sent
  BY <1>2, <1>6, HeardGrown
<1>8. q.sent = st.client.sent /\ q.pc = "finished"
  BY <1>3, <1>7 DEF Grown, Fields
<1>9. CASE ClientFails
  BY <1>5, <1>6, <1>9, ClientFailsAlive
<1>10. CASE Sees("client", "CertificateVerify") /\ Reads("client", q)
  <2>1. ~Turns(Msg("client"))
    BY <1>10 DEF Turns, Sees
  <2> QED
    BY <1>5, <1>6, <1>8, <1>10, <2>1, ClientReadsOn
<1> QED
  BY <1>4, <1>9, <1>10

(* The server's Finished, read. *)
LEMMA HearFinishedGrown ==
  ASSUME NEW r, Grown(r)
  PROVE  Grown(HearFinished(r))
<1>1. PICK h : h = Heard(r, "Finished", <<>>)
  OBVIOUS
<1>2. PICK kc : kc = ApplicationKey("client", r.secret, h.th)
  OBVIOUS
<1>3. PICK ks : ks = ApplicationKey("server", r.secret, h.th)
  OBVIOUS
<1>4. PICK ke : ke = DeriveSecret("exporter", "both", r.secret, h.th)
  OBVIOUS
<1>5. PICK q : q = [h EXCEPT !.trafficSecret = kc, !.in = ks, !.ekm = ke]
  OBVIOUS
<1>6. q = HearFinished(r)
  BY <1>1, <1>2, <1>3, <1>4, <1>5 DEF HearFinished
<1>7. Grown(h)
  BY <1>1, HeardGrown
<1>8. DOMAIN q = Fields /\ q.sent = h.sent
  BY <1>5, <1>7 DEF Grown, Fields
<1> QED
  BY <1>6, <1>7, <1>8 DEF Grown

(* The client's certificate, sent or not. *)
LEMMA ClientCertificateGrown ==
  ASSUME NEW r, Grown(r)
  PROVE  Grown(SendClientCertificate(r))
<1>1. PICK cert : cert = IF r.ech = "rejected" THEN "none" ELSE cfg.client.cert
  OBVIOUS
<1>2. PICK x : x = SaysIf(r.certReq, r, "Certificate", cert)
  OBVIOUS
<1>3. PICK th : th = IF cfg.client.key THEN x.th ELSE <<>>
  OBVIOUS
<1>4. Grown(x)
  BY <1>2, SaysGrown DEF SaysIf
<1>5. SendClientCertificate(r) = IF r.certReq /\ cert # "none" THEN SaysSigned(x, "client", th) ELSE x
  BY <1>1, <1>2, <1>3 DEF SendClientCertificate
<1>6. Grown(SaysSigned(x, "client", th))
  BY <1>4, SignedGrown
<1> QED
  BY <1>4, <1>5, <1>6

(* The client's flight ends in its Finished. *)
LEMMA ClientFinishedLast ==
  ASSUME NEW r, Grown(r)
  PROVE  LET q == SendClientFinished(r) IN Grown(q) /\ Ending(q.sent, {"Finished"})
<1>1. PICK x : x = SaysFinished(r)
  OBVIOUS
<1>2. PICK k : k = r.trafficSecret
  OBVIOUS
<1>3. PICK y : y = IF cfg.client.tickets THEN DeriveSecret("resumption", "both", r.secret, x.th) ELSE NoKey
  OBVIOUS
<1>4. PICK q : q = [x EXCEPT !.out = k, !.resumption = y]
  OBVIOUS
<1>5. q = SendClientFinished(r)
  BY <1>1, <1>2, <1>3, <1>4 DEF SendClientFinished
<1>6. Grown(x) /\ Ending(x.sent, {"Finished"})
  BY <1>1, FinishedLast
<1>7. DOMAIN q = Fields /\ q.sent = x.sent
  BY <1>4, <1>6 DEF Grown, Fields
<1> QED
  BY <1>5, <1>6, <1>7 DEF Grown

(* The server's Finished keeps Alive: the client answers with its own, or *)
(* fails.                                                                 *)
LEMMA ServerFinishedAlive ==
  ASSUME Inv, Alive, ServerFinished
  PROVE  Alive'
<1>1. PICK h : h = HearFinished(st.client)
  OBVIOUS
<1>2. PICK x : x = SendClientCertificate(h)
  OBVIOUS
<1>3. PICK r : r = SendClientFinished(x)
  OBVIOUS
<1>4. PICK q : q = [r EXCEPT !.pc = "complete"]
  OBVIOUS
<1>5. Reads("client", q) \/ ClientFailsIn(r, "ECHRejectionError") \/ ClientFails
  BY <1>1, <1>2, <1>3, <1>4 DEF ServerFinished
<1>6. st.client.pc = "finished" /\ Waiting("client") /\ Now
  BY Opened DEF ServerFinished
<1>7. ~Halted(st.client) /\ Grown(st.client)
  BY <1>6, NowGrown DEF Halted
<1>8. Grown(x)
  BY <1>1, <1>2, <1>7, HearFinishedGrown, ClientCertificateGrown
<1>9. Grown(r) /\ Ending(r.sent, {"Finished"})
  BY <1>3, <1>8, ClientFinishedLast
<1>10. q.pc = "complete" /\ q.sent = r.sent
  BY <1>4, <1>9 DEF Grown, Fields
<1>11. CASE Reads("client", q)
  <2>1. ClientTurn(q, Msg("client"))
    BY <1>9, <1>10 DEF ClientTurn, Halted, Ending
  <2> QED
    BY <1>6, <1>7, <1>11, <2>1, ClientAlive
<1>12. CASE ClientFailsIn(r, "ECHRejectionError")
  BY <1>6, <1>7, <1>9, <1>12, ClientFailAlive
<1>13. CASE ClientFails
  BY <1>6, <1>7, <1>13, ClientFailsAlive
<1> QED
  BY <1>5, <1>11, <1>12, <1>13

(* A ticket keeps Alive: the client that reads one has completed. *)
LEMMA NewSessionTicketAlive ==
  ASSUME Inv, Alive, NewSessionTicket
  PROVE  Alive'
<1>1. PICK c : c = st.client
  OBVIOUS
<1>2. PICK s : s = st.server
  OBVIOUS
<1>3. c.pc = "complete" /\ Waiting("client") /\ Now /\ Reads("client", c)
  BY <1>1, Opened DEF NewSessionTicket, Complete, Sees
<1>4. DOMAIN st' = Ends /\ st'.client = c /\ st'.server = [s EXCEPT !.sent = Tail(s.sent)]
  BY <1>2, <1>3, ReadsClient DEF Inv
<1>5. PICK s1 : s1 = st'.server
  OBVIOUS
<1>6. Moves(c, s) /\ Grown(s) /\ s.sent # <<>>
  BY <1>1, <1>2, <1>3, NowAlive, NowGrown DEF Waiting, Peer
<1>7. s1.sent = Tail(s.sent) /\ s1.pc = s.pc
  BY <1>4, <1>5, <1>6 DEF Grown, Fields
<1>8. s1.sent # <<>> => Last(s1.sent) = Last(s.sent)
  BY <1>6, <1>7, TailLast DEF Grown
<1>9. Moves(c, s1)
  BY <1>3, <1>6, <1>7, <1>8 DEF Moves, Halted
<1> QED
  BY <1>4, <1>5, <1>9 DEF Alive

-----------------------------------------------------------------------------
(* The server. *)

(* A server that fails keeps Alive: its alert comes last. *)
LEMMA ServerFailAlive ==
  ASSUME Inv, Alive, Now, Waiting("server"), ~Halted(st.server), NEW r, Grown(r), ServerGoes(Fail(r))
  PROVE  Alive'
<1>1. PICK q : q = FailWith(r, "other")
  OBVIOUS
<1>2. q.pc = "failed" /\ Ending(q.sent, {"end"}) /\ ServerGoes(q)
  BY <1>1, FailLast DEF Fail
<1>3. ServerTurn(st.server, q, Msg("server"))
  BY <1>2 DEF ServerTurn
<1> QED
  BY <1>2, <1>3, ServerAlive

(* The same for a failure that follows a read at once. *)
LEMMA ServerFailsAlive ==
  ASSUME Inv, Alive, Now, Waiting("server"), ~Halted(st.server), ServerFails
  PROVE  Alive'
BY NowGrown, ServerFailAlive DEF ServerFails

(* The client's Finished keeps Alive: nothing is left to read. *)
LEMMA ClientFinishedAlive ==
  ASSUME Inv, Alive, ClientFinished
  PROVE  Alive'
<1>1. PICK s : s = st.server
  OBVIOUS
<1>2. PICK q : q = [s EXCEPT !.in = s.trafficSecret, !.pc = "complete"]
  OBVIOUS
<1>3. ServerFails \/ (Sees("server", "Finished") /\ ServerGoes(q))
  BY <1>1, <1>2 DEF ClientFinished
<1>4. s.pc = "clientFinished" /\ Waiting("server") /\ Now
  BY <1>1, Opened DEF ClientFinished
<1>5. ~Halted(st.server) /\ Grown(s)
  BY <1>1, <1>4, NowGrown DEF Halted
<1>6. q.pc = "complete" /\ q.sent = s.sent
  BY <1>2, <1>5 DEF Grown, Fields
<1>7. CASE ServerFails
  BY <1>4, <1>5, <1>7, ServerFailsAlive
<1>8. CASE Sees("server", "Finished") /\ ServerGoes(q)
  <2>1. ServerTurn(st.server, q, Msg("server"))
    BY <1>1, <1>6, <1>8 DEF ServerTurn, Sees
  <2> QED
    BY <1>4, <1>5, <1>8, <2>1, ServerAlive
<1> QED
  BY <1>3, <1>7, <1>8

(* A ticket is the last message, once it is written. *)
LEMMA TicketLast ==
  ASSUME NEW r, Grown(r), NEW early
  PROVE  LET q == SendTicket(r, early) IN Grown(q) /\ q.pc = r.pc /\ Ending(q.sent, {"NewSessionTicket"})
<1>1. PICK t : t = [suite |-> r.suite, proto |-> r.proto, secret |-> r.resumption,
                    early |-> early, cert |-> r.peerCert, verified |-> r.verified]
  OBVIOUS
<1>2. PICK x : x = [r EXCEPT !.ticket = t]
  OBVIOUS
<1>3. PICK b : b = [label |-> conn, early |-> early]
  OBVIOUS
<1>4. PICK q : q = Put(x, "NewSessionTicket", b)
  OBVIOUS
<1>5. q = SendTicket(r, early)
  BY <1>1, <1>2, <1>3, <1>4 DEF SendTicket
<1>6. DOMAIN x = Fields /\ x.sent = r.sent /\ x.pc = r.pc
  BY <1>2 DEF Grown, Fields
<1>7. Grown(x)
  BY <1>6 DEF Grown
<1>8. /\ Grown(q) /\ q.pc = x.pc /\ q.sent # <<>>
      /\ Last(q.sent) = [kind |-> "NewSessionTicket", key |-> x.out, body |-> b]
  BY <1>4, <1>7, PutLast
<1>9. Last(q.sent).kind = "NewSessionTicket"
  BY <1>8
<1> QED
  BY <1>5, <1>6, <1>8, <1>9 DEF Ending

(* sendSessionTickets writes a ticket last, or nothing. *)
LEMMA TicketsLast ==
  ASSUME NEW r, Grown(r)
  PROVE  LET q == SendSessionTickets(r) IN
         /\ Grown(q) /\ q.pc = "clientFinished" /\ (q.sent = r.sent \/ Ending(q.sent, {"NewSessionTicket"}))
<1>1. PICK h : h = Heard(r, "Finished", <<>>)
  OBVIOUS
<1>2. PICK f : f = FinishedHash(r.in, r.th)
  OBVIOUS
<1>3. PICK r1 : r1 = [h EXCEPT !.clientFinished = f]
  OBVIOUS
<1>4. PICK k : k = DeriveSecret("resumption", "both", r.secret, r1.th)
  OBVIOUS
<1>5. PICK r2 : r2 = [r1 EXCEPT !.resumption = k, !.pc = "clientFinished"]
  OBVIOUS
<1>6. PICK q : q = SendSessionTickets(r)
  OBVIOUS
<1>7. q = r2 \/ q = SendTicket(r2, FALSE)
  BY <1>1, <1>2, <1>3, <1>4, <1>5, <1>6 DEF SendSessionTickets
<1>8. Grown(h) /\ h.sent = r.sent
  BY <1>1, HeardGrown
<1>9. DOMAIN r2 = Fields /\ r2.sent = r.sent /\ r2.pc = "clientFinished"
  BY <1>3, <1>5, <1>8 DEF Grown, Fields
<1>10. Grown(r2)
  BY <1>9 DEF Grown
<1>11. CASE q = r2
  BY <1>6, <1>9, <1>10, <1>11
<1>12. CASE q = SendTicket(r2, FALSE)
  <2>1. Grown(q) /\ q.pc = r2.pc /\ Ending(q.sent, {"NewSessionTicket"})
    BY <1>10, <1>12, TicketLast
  <2> QED
    BY <1>6, <1>9, <2>1
<1> QED
  BY <1>7, <1>11, <1>12

(* The tickets end what the server says so that the client turns. *)
LEMMA TicketsTurn ==
  ASSUME Now, Moves(st.client, st.server), NEW r, Grown(r), r.sent = st.server.sent
  PROVE  LET q == SendSessionTickets(r) IN q.pc = "clientFinished" /\ (q.sent # <<>> => Turns(Last(q.sent)))
<1>1. PICK q : q = SendSessionTickets(r)
  OBVIOUS
<1>2. q.pc = "clientFinished" /\ (q.sent = r.sent \/ Ending(q.sent, {"NewSessionTicket"}))
  BY <1>1, TicketsLast
<1>3. st.server.sent # <<>> => Turns(Last(st.server.sent))
  BY DEF Moves
<1>4. q.sent # <<>> => Turns(Last(q.sent))
  BY <1>2, <1>3 DEF Ending, Turns
<1> QED
  BY <1>1, <1>2, <1>4

(* The client's CertificateVerify keeps Alive: its Finished follows. *)
LEMMA ClientCertificateVerifyAlive ==
  ASSUME Inv, Alive, ClientCertificateVerify
  PROVE  Alive'
<1>1. PICK alg : alg = Msg("server").body.alg
  OBVIOUS
<1>2. PICK r : r = Heard(st.server, "CertificateVerify", alg)
  OBVIOUS
<1>3. PICK q : q = SendSessionTickets(r)
  OBVIOUS
<1>4. ServerFails \/ (Sees("server", "CertificateVerify") /\ ServerGoes(q))
  BY <1>1, <1>2, <1>3 DEF ClientCertificateVerify
<1>5. st.server.pc = "certVerify" /\ Waiting("server") /\ Now
  BY Opened DEF ClientCertificateVerify
<1>6. ~Halted(st.server) /\ Grown(st.server) /\ Moves(st.client, st.server)
  BY <1>5, NowGrown, NowAlive DEF Halted
<1>7. Grown(r) /\ r.sent = st.server.sent
  BY <1>2, <1>6, HeardGrown
<1>8. q.pc = "clientFinished" /\ (q.sent # <<>> => Turns(Last(q.sent)))
  BY <1>3, <1>5, <1>6, <1>7, TicketsTurn
<1>9. CASE ServerFails
  BY <1>5, <1>6, <1>9, ServerFailsAlive
<1>10. CASE Sees("server", "CertificateVerify") /\ ServerGoes(q)
  <2>1. ServerTurn(st.server, q, Msg("server"))
    BY <1>8, <1>10 DEF ServerTurn, Sees, Halted
  <2> QED
    BY <1>5, <1>6, <1>10, <2>1, ServerAlive
<1> QED
  BY <1>4, <1>9, <1>10

(* The client's Certificate keeps Alive: its Finished follows. *)
LEMMA ClientCertificateAlive ==
  ASSUME Inv, Alive, ClientCertificate
  PROVE  Alive'
<1> DEFINE cert == Msg("server").body
           h == Heard(st.server, "Certificate", cert)
           ver == cert # "none" /\ cfg.server.auth >= 3
           x == [h EXCEPT !.peerCert = cert, !.verified = ver, !.pc = "certVerify"]
           r == VerifyConnection("server", x)
<1>1. \/ ServerFails \/ ServerGoes(Fail(r))
      \/ Sees("server", "Certificate") /\ (ServerGoes(SendSessionTickets(r)) \/ ServerGoes(r))
  BY DEF ClientCertificate
<1>2. st.server.pc = "clientCert" /\ Waiting("server") /\ Now
  BY Opened DEF ClientCertificate
<1>3. h = Heard(st.server, "Certificate", cert)
  OBVIOUS
<1>4. x = [h EXCEPT !.peerCert = cert, !.verified = ver, !.pc = "certVerify"]
  OBVIOUS
<1>5. r = VerifyConnection("server", x)
  OBVIOUS
<1> HIDE DEF cert, h, ver, x, r
<1>6. ~Halted(st.server) /\ Grown(st.server) /\ Moves(st.client, st.server)
  BY <1>2, NowGrown, NowAlive DEF Halted
<1>7. Grown(h) /\ h.sent = st.server.sent
  BY <1>3, <1>6, HeardGrown
<1>8. DOMAIN x = Fields /\ x.sent = h.sent /\ x.pc = "certVerify"
  BY <1>4, <1>7 DEF Grown, Fields
<1>9. Grown(x)
  BY <1>7, <1>8 DEF Grown
<1>10. Grown(r) /\ r.sent = st.server.sent /\ r.pc = "certVerify"
  BY <1>5, <1>7, <1>8, <1>9, ViewGrown
<1>11. CASE ServerFails
  BY <1>2, <1>6, <1>11, ServerFailsAlive
<1>12. CASE ServerGoes(Fail(r))
  BY <1>2, <1>6, <1>10, <1>12, ServerFailAlive
<1>13. CASE Sees("server", "Certificate") /\ ServerGoes(r)
  <2>1. r.sent # <<>> => Turns(Last(r.sent))
    BY <1>6, <1>10 DEF Moves
  <2>2. ServerTurn(st.server, r, Msg("server"))
    BY <1>10, <1>13, <2>1 DEF ServerTurn, Sees, Halted
  <2> QED
    BY <1>2, <1>6, <1>13, <2>2, ServerAlive
<1>14. CASE Sees("server", "Certificate") /\ ServerGoes(SendSessionTickets(r))
  <2>1. PICK q : q = SendSessionTickets(r)
    OBVIOUS
  <2>2. q.pc = "clientFinished" /\ (q.sent # <<>> => Turns(Last(q.sent)))
    BY <1>2, <1>6, <1>10, <2>1, TicketsTurn
  <2>3. ServerTurn(st.server, q, Msg("server"))
    BY <1>14, <2>2 DEF ServerTurn, Sees, Halted
  <2>4. ServerGoes(q)
    BY <1>14, <2>1
  <2> QED
    BY <1>2, <1>6, <2>3, <2>4, ServerAlive
<1> QED
  BY <1>1, <1>11, <1>12, <1>13, <1>14

(* QUICConn.SendSessionTicket keeps Alive. *)
LEMMA SendSessionTicketAlive ==
  ASSUME Inv, Alive, NEW early, SendSessionTicket(early)
  PROVE  Alive'
<1>1. PICK s : s = st.server
  OBVIOUS
<1>2. PICK q : q = SendTicket(s, early)
  OBVIOUS
<1>3. PICK c : c = st.client
  OBVIOUS
<1>4. s.pc = "complete" /\ Now /\ Goes("server", q)
  BY <1>1, <1>2, Opened DEF SendSessionTicket, Complete
<1>5. Grown(s) /\ Moves(c, s)
  BY <1>1, <1>3, <1>4, NowGrown, NowAlive
<1>6. Grown(q) /\ q.pc = s.pc /\ Ending(q.sent, {"NewSessionTicket"})
  BY <1>2, <1>5, TicketLast
<1>7. Halted(c)
  BY <1>1, <1>3, <1>4 DEF Now, Open, Link, ClientInv, Halted
<1>8. Turns(Last(q.sent))
  BY <1>6 DEF Ending, Turns
<1>9. Moves(c, q)
  BY <1>4, <1>6, <1>7, <1>8 DEF Moves, Halted
<1>10. st'.client = c /\ st'.server = q
  BY <1>3, <1>4 DEF Goes, Inv, Ends
<1> QED
  BY <1>9, <1>10 DEF Alive

-----------------------------------------------------------------------------
(* The flight of the server ends in its Finished or a ticket. *)

(* sendServerParameters writes messages. *)
LEMMA ParamsGrown ==
  ASSUME NEW r, Grown(r)
  PROVE  Grown(SendServerParameters(r))
<1> DEFINE sh0 == [ServerHelloMsg(r, FALSE) EXCEPT !.psk = r.resumed]
           th0 == Append(r.th, HelloEntry(r.hello))
           sh == IF r.echAccepted THEN [sh0 EXCEPT !.conf = Confirmation("sh", r.hello, th0, sh0)] ELSE sh0
           th == Append(th0, ServerHelloEntry(sh))
           share == r.hello.x.keyShares[SelectInSeq(r.hello.x.keyShares, LAMBDA k : k.group = r.group)]
           secret == HandshakeSecret(IF r.resumed THEN r.session.secret ELSE NoPSKey, share)
           ko == HandshakeKey("server", secret, th)
           ki == HandshakeKey("client", secret, th)
           x == Put(r, "ServerHello", sh)
           r1 == [x EXCEPT !.th = th, !.secret = secret, !.out = ko, !.in = ki]
           ee == [proto |-> r.proto, early |-> r.early, quicTP |-> cfg.quic, retryConfigs |-> RetryConfigs(r)]
           p == Says(r1, "EncryptedExtensions", ee)
<1>1. p = SendServerParameters(r)
  BY DEF SendServerParameters
<1>2. x = Put(r, "ServerHello", sh)
  OBVIOUS
<1>3. r1 = [x EXCEPT !.th = th, !.secret = secret, !.out = ko, !.in = ki]
  OBVIOUS
<1>4. p = Says(r1, "EncryptedExtensions", ee)
  OBVIOUS
<1> HIDE DEF sh0, th0, sh, th, share, secret, ko, ki, x, r1, ee, p
<1>5. Grown(x)
  BY <1>2, PutLast
<1>6. DOMAIN r1 = Fields /\ r1.sent = x.sent
  BY <1>3, <1>5 DEF Grown, Fields
<1>7. Grown(r1)
  BY <1>5, <1>6 DEF Grown
<1>8. Grown(p)
  BY <1>4, <1>7, SaysGrown
<1> QED
  BY <1>1, <1>8

(* sendServerCertificate writes messages. *)
LEMMA CertificateGrown ==
  ASSUME NEW r, Grown(r)
  PROVE  Grown(SendServerCertificate(r))
<1>1. PICK cert : cert = GetCertificate(r.hello)
  OBVIOUS
<1>2. PICK y : y = SaysIf(RequestClientCert(r), r, "CertificateRequest", <<>>)
  OBVIOUS
<1>3. PICK x : x = Says(y, "Certificate", cert)
  OBVIOUS
<1>4. PICK q : q = SaysSigned(x, cert.key, x.th)
  OBVIOUS
<1>5. SendServerCertificate(r) = r \/ SendServerCertificate(r) = q
  BY <1>1, <1>2, <1>3, <1>4 DEF SendServerCertificate
<1>6. Grown(y)
  BY <1>2, SaysGrown DEF SaysIf
<1>7. Grown(x)
  BY <1>3, <1>6, SaysGrown
<1>8. Grown(q)
  BY <1>4, <1>7, SignedGrown
<1> QED
  BY <1>5, <1>8

(* sendServerFinished ends in a message that turns the client. *)
LEMMA FinishTurns ==
  ASSUME NEW r, Grown(r)
  PROVE  LET q == SendServerFinished(r) IN
         /\ Grown(q) /\ ~Halted(q) /\ q.sent # <<>> /\ Turns(Last(q.sent))
<1>1. PICK f : f = SaysFinished(r)
  OBVIOUS
<1>2. PICK ks : ks = ApplicationKey("server", r.secret, f.th)
  OBVIOUS
<1>3. PICK kc : kc = ApplicationKey("client", r.secret, f.th)
  OBVIOUS
<1>4. PICK ke : ke = DeriveSecret("exporter", "both", r.secret, f.th)
  OBVIOUS
<1>5. PICK x : x = [f EXCEPT !.out = ks, !.trafficSecret = kc, !.ekm = ke]
  OBVIOUS
<1>6. PICK q : q = SendServerFinished(r)
  OBVIOUS
<1>7. q = [x EXCEPT !.pc = "clientCert"] \/ q = SendSessionTickets(x)
  BY <1>1, <1>2, <1>3, <1>4, <1>5, <1>6 DEF SendServerFinished
<1>8. Grown(f) /\ Ending(f.sent, {"Finished"})
  BY <1>1, FinishedLast
<1>9. DOMAIN x = Fields /\ x.sent = f.sent
  BY <1>5, <1>8 DEF Grown, Fields
<1>10. Grown(x)
  BY <1>8, <1>9 DEF Grown
<1>11. CASE q = [x EXCEPT !.pc = "clientCert"]
  <2>1. DOMAIN q = Fields /\ q.sent = f.sent /\ q.pc = "clientCert"
    BY <1>9, <1>11 DEF Fields
  <2>2. Grown(q) /\ ~Halted(q)
    BY <1>8, <2>1 DEF Grown, Halted
  <2>3. q.sent # <<>> /\ Turns(Last(q.sent))
    BY <1>8, <2>1 DEF Ending, Turns
  <2> QED
    BY <1>6, <2>2, <2>3
<1>12. CASE q = SendSessionTickets(x)
  <2>1. Grown(q) /\ q.pc = "clientFinished" /\ (q.sent = x.sent \/ Ending(q.sent, {"NewSessionTicket"}))
    BY <1>10, <1>12, TicketsLast
  <2>2. ~Halted(q)
    BY <2>1 DEF Halted
  <2>3. q.sent # <<>> /\ Turns(Last(q.sent))
    BY <1>8, <1>9, <2>1 DEF Ending, Turns
  <2> QED
    BY <1>6, <2>1, <2>2, <2>3
<1> QED
  BY <1>7, <1>11, <1>12

(* Taking up a session writes nothing. *)
LEMMA RestoredGrown ==
  ASSUME NEW r, Grown(r)
  PROVE  Grown(ServerRestored(r))
<1>1. PICK t : t = sealed[r.hello.x.psk.label]
  OBVIOUS
<1>2. PICK e : e = AcceptsEarly(r, t)
  OBVIOUS
<1>3. PICK k : k = IF AcceptsEarly(r, t) THEN EarlyKey(t.secret, HelloEntry(r.hello)) ELSE NoKey
  OBVIOUS
<1>4. PICK q : q = [r EXCEPT !.resumed = TRUE, !.session = t, !.peerCert = t.cert, !.verified = t.verified,
                             !.early = e, !.earlyKey = k]
  BY Zenon
<1>5. q = ServerRestored(r)
  BY <1>1, <1>2, <1>3, <1>4 DEF ServerRestored
<1>6. DOMAIN q = Fields /\ q.sent = r.sent
  BY <1>4 DEF Grown, Fields
<1> QED
  BY <1>5, <1>6 DEF Grown

(* Negotiating the parameters writes nothing. *)
LEMMA NegotiatedGrown ==
  ASSUME NEW r, Grown(r)
  PROVE  Grown(Negotiated(r))
<1>1. PICK p : p = NegotiateALPN(cfg.server.protos, r.hello.x.alpn)
  OBVIOUS
<1>2. PICK n : n = r.hello.x.serverName
  OBVIOUS
<1>3. PICK q : q = [r EXCEPT !.proto = p, !.serverName = n]
  OBVIOUS
<1>4. q = Negotiated(r)
  BY <1>1, <1>2, <1>3 DEF Negotiated
<1>5. DOMAIN q = Fields /\ q.sent = r.sent
  BY <1>3 DEF Grown, Fields
<1> QED
  BY <1>4, <1>5 DEF Grown

(* The hello has been read: the server fails, or says what turns the client. *)
Answered(q) ==
    \/ q.pc = "failed" /\ Ending(q.sent, {"end"})
    \/ ~Halted(q) /\ q.sent # <<>> /\ Turns(Last(q.sent))

(* The server answers a hello with its whole flight, or fails. *)
LEMMA FlightAnswers ==
  ASSUME NEW r0, Grown(r0), NEW opens
  PROVE  Answered(ServerFlight(r0, opens))
<1> DEFINE r == Negotiated(r0)
           rr == IF Selects(r, opens) THEN ServerRestored(r) ELSE r
           rp == SendServerParameters(rr)
           rc == SendServerCertificate(rp)
           rf == SendServerFinished(rc)
           v == VerifyConnection("server", rf)
           q == ServerFlight(r0, opens)
<1>1. q = Fail(r0) \/ q = rf \/ q = Fail(v) \/ q = v
  BY DEF ServerFlight
<1>2. r = Negotiated(r0) /\ (rr = ServerRestored(r) \/ rr = r)
  OBVIOUS
<1>3. rp = SendServerParameters(rr) /\ rc = SendServerCertificate(rp) /\ rf = SendServerFinished(rc)
  OBVIOUS
<1>4. v = VerifyConnection("server", rf) /\ q = ServerFlight(r0, opens)
  OBVIOUS
<1> HIDE DEF r, rr, rp, rc, rf, v, q
<1>5. Grown(rr)
  BY <1>2, NegotiatedGrown, RestoredGrown
<1>6. Grown(rc)
  BY <1>3, <1>5, ParamsGrown, CertificateGrown
<1>7. Grown(rf) /\ ~Halted(rf) /\ rf.sent # <<>> /\ Turns(Last(rf.sent))
  BY <1>3, <1>6, FinishTurns
<1>8. Grown(v) /\ v.pc = rf.pc /\ v.sent = rf.sent
  BY <1>4, <1>7, ViewGrown
<1>9. Answered(rf) /\ Answered(v)
  BY <1>7, <1>8 DEF Answered, Halted
<1>10. Answered(Fail(r0)) /\ Answered(Fail(v))
  BY <1>8, FailLast DEF Answered, Fail
<1> QED
  BY <1>1, <1>4, <1>9, <1>10

(* doHelloRetryRequest answers the first hello. *)
LEMMA RetryAnswers ==
  ASSUME NEW r, Grown(r)
  PROVE  Answered(DoHelloRetryRequest(r))
<1> DEFINE th0 == MessageHash(<<HelloEntry(r.hello)>>)
           hrr == ServerHelloMsg(r, TRUE)
           y == Confirmation("hrr", r.hello, th0, hrr)
           sh == IF r.echAccepted THEN [hrr EXCEPT !.conf = y] ELSE hrr
           th == Append(th0, ServerHelloEntry(sh))
           x == [r EXCEPT !.th = th, !.pc = "clientHello2"]
           q == Put(x, "ServerHello", sh)
<1>1. q = DoHelloRetryRequest(r)
  BY DEF DoHelloRetryRequest
<1>2. hrr.retry = TRUE /\ DOMAIN hrr = {"retry", "sid", "suite", "group", "psk", "conf"}
  BY DEF ServerHelloMsg
<1>3. sh = (IF r.echAccepted THEN [hrr EXCEPT !.conf = y] ELSE hrr) /\ q = Put(x, "ServerHello", sh)
  OBVIOUS
<1>4. x = [r EXCEPT !.th = th, !.pc = "clientHello2"]
  OBVIOUS
<1> HIDE DEF th0, hrr, y, sh, th, x, q
<1>5. sh.retry = TRUE
  BY <1>2, <1>3
<1>6. DOMAIN x = Fields /\ x.sent = r.sent /\ x.pc = "clientHello2"
  BY <1>4 DEF Grown, Fields
<1>7. Grown(x)
  BY <1>6 DEF Grown
<1>8. /\ q.pc = x.pc /\ q.sent # <<>>
      /\ Last(q.sent) = [kind |-> "ServerHello", key |-> x.out, body |-> sh]
  BY <1>3, <1>7, PutLast
<1>9. Last(q.sent).kind = "ServerHello" /\ Last(q.sent).body.retry
  BY <1>5, <1>8
<1>10. Answered(q)
  BY <1>6, <1>8, <1>9 DEF Answered, Turns, Halted
<1> QED
  BY <1>1, <1>10

(* A hello that is answered keeps Alive. *)
LEMMA AnsweredAlive ==
  ASSUME Inv, Alive, Now, Sees("server", "ClientHello"), ~Halted(st.server), NEW q, ServerGoes(q), Answered(q)
  PROVE  Alive'
<1>1. ServerTurn(st.server, q, Msg("server")) /\ Waiting("server")
  BY DEF ServerTurn, Answered, Sees
<1> QED
  BY <1>1, ServerAlive

(* The first hello keeps Alive. *)
LEMMA ReadClientHelloAlive ==
  ASSUME Inv, Alive, NEW opens, ReadClientHello(opens)
  PROVE  Alive'
<1> DEFINE w == Msg("server").body
           key == ECHKeyOf(w)
           hello == IF key = "none" THEN w ELSE DecodeInner(w)
           b == key # "none"
           suite == SelectedSuite(hello)
           group == SelectedGroup(hello)
           r == [st.server EXCEPT !.hello = hello, !.echKey = key, !.echAccepted = b, !.suite = suite,
                                  !.group = group]
<1>1. \/ ServerFails
      \/ /\ Sees("server", "ClientHello")
         /\ ServerGoes(ServerFlight(r, opens)) \/ ServerGoes(DoHelloRetryRequest(r))
  BY DEF ReadClientHello
<1>2. r = [st.server EXCEPT !.hello = hello, !.echKey = key, !.echAccepted = b, !.suite = suite, !.group = group]
  OBVIOUS
<1> HIDE DEF w, key, hello, b, suite, group, r
<1>3. st.server.pc = "clientHello" /\ Now /\ Waiting("server")
  BY Opened DEF ReadClientHello
<1>4. ~Halted(st.server) /\ Grown(st.server)
  BY <1>3, NowGrown DEF Halted
<1>5. DOMAIN r = Fields /\ r.sent = st.server.sent
  BY <1>2, <1>4 DEF Grown, Fields
<1>6. Grown(r)
  BY <1>4, <1>5 DEF Grown
<1>7. Answered(ServerFlight(r, opens)) /\ Answered(DoHelloRetryRequest(r))
  BY <1>6, FlightAnswers, RetryAnswers
<1>8. CASE ServerFails
  BY <1>3, <1>4, <1>8, ServerFailsAlive
<1>9. CASE /\ Sees("server", "ClientHello")
           /\ ServerGoes(ServerFlight(r, opens)) \/ ServerGoes(DoHelloRetryRequest(r))
  BY <1>3, <1>4, <1>7, <1>9, AnsweredAlive
<1> QED
  BY <1>1, <1>8, <1>9

(* The second hello keeps Alive. *)
LEMMA ReadSecondHelloAlive ==
  ASSUME Inv, Alive, NEW opens, ReadSecondHello(opens)
  PROVE  Alive'
<1> DEFINE w == Msg("server").body
           hello == IF st.server.echAccepted THEN DecodeInner(w) ELSE w
           r == [st.server EXCEPT !.hello = hello, !.didHRR = TRUE]
<1>1. ServerFails \/ (Sees("server", "ClientHello") /\ ServerGoes(ServerFlight(r, opens)))
  BY DEF ReadSecondHello
<1>2. r = [st.server EXCEPT !.hello = hello, !.didHRR = TRUE]
  OBVIOUS
<1> HIDE DEF w, hello, r
<1>3. st.server.pc = "clientHello2" /\ Now /\ Waiting("server")
  BY Opened DEF ReadSecondHello
<1>4. ~Halted(st.server) /\ Grown(st.server)
  BY <1>3, NowGrown DEF Halted
<1>5. DOMAIN r = Fields /\ r.sent = st.server.sent
  BY <1>2, <1>4 DEF Grown, Fields
<1>6. Grown(r)
  BY <1>4, <1>5 DEF Grown
<1>7. Answered(ServerFlight(r, opens))
  BY <1>6, FlightAnswers
<1>8. CASE ServerFails
  BY <1>3, <1>4, <1>8, ServerFailsAlive
<1>9. CASE Sees("server", "ClientHello") /\ ServerGoes(ServerFlight(r, opens))
  BY <1>3, <1>4, <1>7, <1>9, AnsweredAlive
<1> QED
  BY <1>1, <1>8, <1>9

-----------------------------------------------------------------------------
(* On a new connection the client is still to speak. *)
LEMMA ConnectAlive ==
  ASSUME Connect
  PROVE  Alive'
<1>1. PICK s : s = [Fresh EXCEPT !.pc = "clientHello"]
  OBVIOUS
<1>2. s.pc = "clientHello" /\ s.sent = <<>> /\ Fresh.pc = "start" /\ Fresh.sent = <<>>
  BY <1>1, FreshFields DEF Fields
<1>3. PICK M : M = {}
  OBVIOUS
<1>4. <<>> \in Seq(M) /\ \A m \in M : m.kind \in {"ClientHello", "end"}
  BY <1>3
<1>5. Hellos(<<>>)
  BY <1>4 DEF Hellos
<1>6. Moves(Fresh, s)
  BY <1>2, <1>5 DEF Moves, Halted
<1>7. st'.client = Fresh /\ st'.server = s
  BY <1>1 DEF Connect
<1> QED
  BY <1>6, <1>7 DEF Alive

(* A broken transport keeps Alive: each end that still reads finds the end *)
(* of the stream.                                                          *)
LEMMA BreakAlive ==
  ASSUME Inv, Break
  PROVE  Alive'
<1>1. Now
  BY DEF Inv, Break, Now
<1>2. PICK m : m = [kind |-> "end", key |-> NoKey, body |-> <<>>]
  OBVIOUS
<1>3. PICK c1 : c1 = [st.client EXCEPT !.sent = <<m>>]
  OBVIOUS
<1>4. PICK s1 : s1 = [st.server EXCEPT !.sent = <<m>>]
  OBVIOUS
<1>5. st'.client = c1 /\ st'.server = s1
  BY <1>2, <1>3, <1>4 DEF Break, Ends
<1>6. c1.sent = <<m>> /\ s1.sent = <<m>>
  BY <1>1, <1>3, <1>4, NowGrown DEF Grown, Fields
<1>7. m.kind = "end" /\ <<m>> # <<>> /\ Last(<<m>>) = m
  BY <1>2 DEF Last
<1>8. PICK M : M = {m}
  OBVIOUS
<1>9. <<m>> \in Seq(M) /\ \A x \in M : x.kind \in {"ClientHello", "end"}
  BY <1>7, <1>8
<1>10. Hellos(<<m>>) /\ Turns(m) /\ Ending(<<m>>, {"end"}) /\ Ending(<<m>>, {"Finished", "end"})
  BY <1>7, <1>9 DEF Hellos, Turns, Ending
<1>11. Moves(c1, s1)
  BY <1>6, <1>7, <1>10 DEF Moves
<1> QED
  BY <1>5, <1>11 DEF Alive

(* Every step keeps Alive. *)
LEMMA NextAlive ==
  ASSUME Inv, Alive, [Next]_vars
  PROVE  Alive'
<1>1. CASE ClientStep
  <2>1. ASSUME NEW expired \in BOOLEAN, ClientHello(expired) PROVE Alive'
    BY <2>1, ClientHelloAlive
  <2> QED
    BY <1>1, <2>1, ServerHelloAlive, EncryptedExtensionsAlive, CertificateRequestAlive, ServerCertificateAlive,
       ServerCertificateVerifyAlive, ServerFinishedAlive DEF ClientStep
<1>2. CASE ServerStep
  <2>1. ASSUME NEW opens \in BOOLEAN, ReadClientHello(opens) \/ ReadSecondHello(opens) PROVE Alive'
    BY <2>1, ReadClientHelloAlive, ReadSecondHelloAlive
  <2> QED
    BY <1>2, <2>1, ClientCertificateVerifyAlive, ClientCertificateAlive, ClientFinishedAlive DEF ServerStep
<1>3. CASE NewSessionTicket
  BY <1>3, NewSessionTicketAlive
<1>4. ASSUME NEW early \in BOOLEAN, SendSessionTicket(early) PROVE Alive'
  BY <1>4, SendSessionTicketAlive
<1>5. CASE Break
  BY <1>5, BreakAlive
<1>6. CASE Close
  BY <1>6 DEF Close, Alive
<1>7. CASE Connect
  BY <1>7, ConnectAlive
<1>8. CASE UNCHANGED vars
  BY <1>8 DEF vars, Alive
<1> QED
  BY <1>1, <1>2, <1>3, <1>4, <1>5, <1>6, <1>7, <1>8 DEF Next

(* Alive implies NeverStuck. *)
LEMMA AliveNeverStuck ==
  ASSUME Alive
  PROVE  NeverStuck
<1> SUFFICES ASSUME st # ClosedEnds, \E e \in Ends : ~Ended(e)
             PROVE  \E e \in Ends : ~Ended(e) /\ (st[e].pc = "start" \/ Waiting(e))
  BY DEF NeverStuck
<1>1. PICK c : c = st.client
  OBVIOUS
<1>2. PICK s : s = st.server
  OBVIOUS
<1>3. Moves(c, s)
  BY <1>1, <1>2 DEF Alive
<1>4. (Ended("client") <=> Halted(c)) /\ (Ended("server") <=> Halted(s))
  BY <1>1, <1>2 DEF Ended, Halted
<1>5. (Waiting("client") <=> s.sent # <<>>) /\ (Waiting("server") <=> c.sent # <<>>)
  BY <1>1, <1>2 DEF Waiting, Peer
<1>6. ~Halted(c) \/ ~Halted(s)
  BY <1>4 DEF Ends
<1>7. CASE ~Halted(c) /\ (c.pc = "start" \/ s.sent # <<>>)
  BY <1>1, <1>4, <1>5, <1>7 DEF Ends
<1>8. CASE ~Halted(s) /\ c.sent # <<>>
  BY <1>4, <1>5, <1>8 DEF Ends
<1>9. (~Halted(c) /\ (c.pc = "start" \/ s.sent # <<>>)) \/ (~Halted(s) /\ c.sent # <<>>)
  BY <1>3, <1>6 DEF Moves, Ending
<1> QED
  BY <1>7, <1>8, <1>9

(* NeverStuck: on no connection do both ends wait for a message that will *)
(* never come; a handshake goes on until both have completed or failed,   *)
(* whatever was negotiated, retried, refused or broken on the way.        *)
THEOREM NeverStuckHolds == Spec => []NeverStuck
<1>1. Init => Alive
  BY DEF Init, Alive
<1>2. Inv /\ Alive /\ [Next]_vars => Alive'
  BY NextAlive
<1>3. Alive => NeverStuck
  BY AliveNeverStuck
<1> QED
  BY <1>1, <1>2, <1>3, InvHolds, PTL DEF Spec
=============================================================================
