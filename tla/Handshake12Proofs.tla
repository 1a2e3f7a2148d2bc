------------------------- MODULE Handshake12Proofs -------------------------
(***************************************************************************)
(* Proofs about Handshake12, for every set of Configs and any number of    *)
(* connections: the two ends of a TLS 1.1 or 1.2 handshake agree, and none *)
(* completes against its Config.                                           *)
(*                                                                         *)
(* The operators of the model take the state of an end to the next one.    *)
(* The first part says what each of them keeps; then come the invariant,   *)
(* what a step of one end may assume of the other, one lemma per action,   *)
(* and the theorems.                                                       *)
(***************************************************************************)
EXTENDS Handshake12, TLAPS

-----------------------------------------------------------------------------
(* The fields of an end, and of the two halves of its connection. *)
Fields == {"pc", "vers", "suite", "proto", "curve", "resumed", "ems", "master", "th", "in", "out",
           "peerCert", "verified", "saw", "clientFinished", "serverFinished",
           "clientFinishedIsFirst", "session", "ticket", "ch", "sh", "certRequested", "skx"}
Shape(r) == /\ DOMAIN r = Fields
            /\ DOMAIN r.in = {"key", "next"}
            /\ DOMAIN r.out = {"key", "next", "buffering", "sendBuf", "sent"}

(* q agrees with r on the session offered, on what the hellos settled, on the  *)
(* peer's authentication, on the keys, and on what Finished left.              *)
SameOffer(r, q) == q.session = r.session /\ q.ch = r.ch
SameHello(r, q) == /\ q.sh = r.sh /\ q.vers = r.vers /\ q.suite = r.suite /\ q.proto = r.proto
                   /\ q.resumed = r.resumed
SameAuth(r, q)  == q.peerCert = r.peerCert /\ q.verified = r.verified /\ q.saw = r.saw
SameKey(r, q)   == /\ q.ems = r.ems /\ q.master = r.master /\ q.curve = r.curve /\ q.skx = r.skx
SameEnd(r, q)   == /\ q.clientFinished = r.clientFinished /\ q.serverFinished = r.serverFinished
                   /\ q.clientFinishedIsFirst = r.clientFinishedIsFirst /\ q.ticket = r.ticket
Same(r, q) == SameOffer(r, q) /\ SameHello(r, q) /\ SameAuth(r, q) /\ SameKey(r, q) /\ SameEnd(r, q)

(* Agreement of states is transitive. *)
LEMMA SameTransitive ==
  ASSUME NEW r, NEW q, NEW x, Same(r, q), Same(q, x)
  PROVE  Same(r, x)
BY DEF Same, SameOffer, SameHello, SameAuth, SameKey, SameEnd

(* The view that VerifyConnection gets depends on these alone. *)
LEMMA ViewSame ==
  ASSUME NEW r, NEW q, SameHello(r, q), q.peerCert = r.peerCert, q.verified = r.verified
  PROVE  View(q) = View(r)
BY DEF View, SameHello

-----------------------------------------------------------------------------
(* Writing. *)

(* A world is the state of both ends with what surrounds them. *)
World == [c |-> st.client, s |-> st.server, cf |-> cfg, n |-> conn, pr |-> proved]

ServerEarly == {"clientHello", "clientCert", "ckx", "certVerify"}
ServerDone  == {"ccs", "finished", "complete"}
ClientEarly == {"start", "serverHello", "certificate", "status", "verify", "skx", "certReq", "helloDone"}
ClientDone  == {"ticket", "ccs", "finished", "complete"}

(* The session in ticket t was made with the client certificate that was       *)
(* proved on its first connection, which will not change any more.             *)
Settled(t, w) ==
    /\ t.secret.conn \in 1..w.n /\ t.peerCert = w.pr[t.secret.conn]
    /\ t.secret.conn = w.n => w.s.pc \notin ServerEarly

(* Ticket t holds the session of the server's state s. *)
SealedBy(t, s) == /\ t.vers = s.vers /\ t.suite = s.suite /\ t.secret = s.master /\ t.ems = s.ems
                  /\ t.curve = s.curve

(* What a message under way says of the end that has sent it. *)
ClientMsg(kind, body, w) ==
    /\ w.c.pc # "start"
    /\ kind = "ClientHello" => body = w.c.ch
    /\ kind = "Certificate" => body = w.cf.client.cert
    /\ kind = "Finished" => /\ w.c.pc \notin ClientEarly /\ w.c.sh # <<>>
                            /\ body = w.c.clientFinished
                            /\ w.c.resumed => w.c.pc = "complete"
ServerMsg(kind, body, w) ==
    /\ w.s.sh # <<>>
    /\ kind = "ServerHello" => body = w.s.sh
    /\ kind = "ServerKeyExchange" => body = w.s.curve
    /\ kind = "NewSessionTicket" => w.s.pc \notin ServerEarly /\ SealedBy(body, w.s) /\ Settled(body, w)
    /\ kind = "Finished" => /\ w.s.pc \notin ServerEarly /\ body.secret = w.s.master
                            /\ w.s.resumed => body = w.s.serverFinished
                            /\ ~w.s.resumed => w.s.pc = "complete"
Good(e, kind, body, w) ==
    \/ kind = "end"
    \/ e = "client" /\ ClientMsg(kind, body, w)
    \/ e = "server" /\ ServerMsg(kind, body, w)

(* All that e has written is good, and nothing is in sendBuf unless it buffers. *)
Written(out, M) ==
    /\ DOMAIN out = {"key", "next", "buffering", "sendBuf", "sent"}
    /\ out.buffering \in BOOLEAN /\ (~out.buffering => out.sendBuf = <<>>)
    /\ out.sendBuf \in Seq(M) /\ out.sent \in Seq(M)
OutGood(e, out, w) ==
    \E M : Written(out, M) /\ \A m \in M : Good(e, m.kind, m.body, w)

(* Nothing is held back; or a flush will see to it. *)
Clean(out) == out.sendBuf = <<>> /\ ~out.buffering
Flushable(out) == out.buffering => out.sendBuf # <<>>

(* A larger set of messages will do as well. *)
LEMMA WrittenMore ==
  ASSUME NEW out, NEW M, NEW N, Written(out, M), M \subseteq N
  PROVE  Written(out, N)
BY DEF Written

(* Conn.write adds one message, in sendBuf or to what is sent, and leaves the  *)
(* keys alone.                                                                 *)
LEMMA PutWritten ==
  ASSUME NEW out, NEW M, Written(out, M), NEW kind, NEW body,
         [kind |-> kind, key |-> out.key, body |-> body] \in M
  PROVE  /\ Written(Put(out, kind, body), M) /\ Flushable(Put(out, kind, body))
         /\ Put(out, kind, body).key = out.key /\ Put(out, kind, body).next = out.next
<1> DEFINE m == [kind |-> kind, key |-> out.key, body |-> body]
<1>1. PICK x : x = m /\ x \in M
  OBVIOUS
<1>2. CASE out.buffering
  <2>1. PICK q : q = [out EXCEPT !.sendBuf = Append(@, x)]
    OBVIOUS
  <2>2. /\ DOMAIN q = DOMAIN out /\ q.sendBuf = Append(out.sendBuf, x) /\ q.sent = out.sent
        /\ q.buffering = out.buffering /\ q.key = out.key /\ q.next = out.next
    BY <2>1 DEF Written
  <2>3. Append(out.sendBuf, x) \in Seq(M) /\ Append(out.sendBuf, x) # <<>>
    BY <1>1 DEF Written
  <2>4. Put(out, kind, body) = q
    BY <1>1, <1>2, <2>1 DEF Put
  <2> QED
    BY <1>2, <2>2, <2>3, <2>4 DEF Written, Flushable
<1>3. CASE ~out.buffering
  <2>1. PICK q : q = [out EXCEPT !.sent = Append(@, x)]
    OBVIOUS
  <2>2. /\ DOMAIN q = DOMAIN out /\ q.sent = Append(out.sent, x) /\ q.sendBuf = out.sendBuf
        /\ q.buffering = out.buffering /\ q.key = out.key /\ q.next = out.next
    BY <2>1 DEF Written
  <2>3. Append(out.sent, x) \in Seq(M)
    BY <1>1 DEF Written
  <2>4. Put(out, kind, body) = q
    BY <1>1, <1>3, <2>1 DEF Put
  <2> QED
    BY <1>3, <2>2, <2>3, <2>4 DEF Written, Flushable
<1> QED
  BY <1>2, <1>3

(* Writing a good message keeps all that is written good. *)
LEMMA PutGood ==
  ASSUME NEW e, NEW out, NEW w, OutGood(e, out, w), NEW kind, NEW body, Good(e, kind, body, w)
  PROVE  /\ OutGood(e, Put(out, kind, body), w) /\ Flushable(Put(out, kind, body))
         /\ Put(out, kind, body).key = out.key /\ Put(out, kind, body).next = out.next
<1>1. PICK M : Written(out, M) /\ \A m \in M : Good(e, m.kind, m.body, w)
  BY DEF OutGood
<1>2. PICK x : x = [kind |-> kind, key |-> out.key, body |-> body]
  OBVIOUS
<1>3. x.kind = kind /\ x.body = body
  BY <1>2
<1>4. PICK N : N = M \cup {x}
  OBVIOUS
<1>5. Written(out, N) /\ x \in N
  BY <1>1, <1>4, WrittenMore
<1>6. \A m \in N : Good(e, m.kind, m.body, w)
  BY <1>1, <1>3, <1>4
<1>7. /\ Written(Put(out, kind, body), N) /\ Flushable(Put(out, kind, body))
      /\ Put(out, kind, body).key = out.key /\ Put(out, kind, body).next = out.next
  BY <1>2, <1>5, PutWritten
<1> QED
  BY <1>6, <1>7 DEF OutGood

(* Conn.flush loses no message, and leaves nothing behind if there was         *)
(* anything to flush.                                                          *)
LEMMA FlushedGood ==
  ASSUME NEW e, NEW out, NEW w, OutGood(e, out, w)
  PROVE  /\ OutGood(e, Flushed(out), w) /\ (Flushable(out) => Clean(Flushed(out)))
         /\ Flushed(out).key = out.key /\ Flushed(out).next = out.next
<1>1. PICK M : Written(out, M) /\ \A m \in M : Good(e, m.kind, m.body, w)
  BY DEF OutGood
<1>2. CASE out.sendBuf = <<>>
  <2>1. Flushed(out) = out
    BY <1>2 DEF Flushed
  <2> QED
    BY <1>1, <1>2, <2>1 DEF Flushable, Clean, Written
<1>3. CASE out.sendBuf # <<>>
  <2>1. PICK x : x = out.sent \o out.sendBuf
    OBVIOUS
  <2>2. x \in Seq(M) /\ <<>> \in Seq(M)
    BY <1>1, <2>1 DEF Written
  <2>3. PICK q : q = [out EXCEPT !.sent = x, !.sendBuf = <<>>, !.buffering = FALSE]
    OBVIOUS
  <2>4. /\ DOMAIN q = DOMAIN out /\ q.sent = x /\ q.sendBuf = <<>> /\ q.buffering = FALSE
        /\ q.key = out.key /\ q.next = out.next
    BY <1>1, <2>3 DEF Written
  <2>5. Flushed(out) = q
    BY <1>3, <2>1, <2>3 DEF Flushed
  <2>6. Written(q, M)
    BY <1>1, <2>2, <2>4 DEF Written
  <2> QED
    BY <1>1, <2>4, <2>5, <2>6 DEF OutGood, Clean
<1> QED
  BY <1>2, <1>3

(* The first message that e has sent is good, and so are the others. *)
LEMMA HeadGood ==
  ASSUME NEW e, NEW out, NEW w, OutGood(e, out, w), out.sent # <<>>
  PROVE  /\ Good(e, Head(out.sent).kind, Head(out.sent).body, w)
         /\ OutGood(e, [out EXCEPT !.sent = Tail(@)], w)
<1>1. PICK M : Written(out, M) /\ \A m \in M : Good(e, m.kind, m.body, w)
  BY DEF OutGood
<1>2. Head(out.sent) \in M /\ Tail(out.sent) \in Seq(M)
  BY <1>1 DEF Written
<1>3. PICK q : q = [out EXCEPT !.sent = Tail(@)]
  OBVIOUS
<1>4. /\ DOMAIN q = DOMAIN out /\ q.sent = Tail(out.sent) /\ q.sendBuf = out.sendBuf
      /\ q.buffering = out.buffering /\ q.key = out.key /\ q.next = out.next
  BY <1>1, <1>3 DEF Written
<1>5. Written(q, M)
  BY <1>1, <1>2, <1>4 DEF Written
<1> QED
  BY <1>1, <1>2, <1>3, <1>5 DEF OutGood

(* What was good stays good in a world that keeps the goodness of messages. *)
LEMMA GoodStays ==
  ASSUME NEW e, NEW out, NEW w, NEW v, OutGood(e, out, w),
         \A kind, body : Good(e, kind, body, w) => Good(e, kind, body, v)
  PROVE  OutGood(e, out, v)
<1>1. PICK M : Written(out, M) /\ \A m \in M : Good(e, m.kind, m.body, w)
  BY DEF OutGood
<1>2. \A m \in M : Good(e, m.kind, m.body, v)
  BY <1>1
<1> QED
  BY <1>1, <1>2 DEF OutGood

(* Turning the buffer on, and preparing or changing keys, touches no message. *)
LEMMA OutKept ==
  ASSUME NEW e, NEW out, NEW q, NEW w, OutGood(e, out, w), DOMAIN q = DOMAIN out,
         q.sent = out.sent, q.sendBuf = out.sendBuf, q.buffering = out.buffering \/ q.buffering = TRUE
  PROVE  OutGood(e, q, w)
<1>1. PICK M : Written(out, M) /\ \A m \in M : Good(e, m.kind, m.body, w)
  BY DEF OutGood
<1>2. Written(q, M)
  BY <1>1 DEF Written
<1> QED
  BY <1>1, <1>2 DEF OutGood

(* End e has gone from r to q by writing, keys apart. *)
Kept(e, r, q, w) ==
    /\ Shape(q) /\ Same(r, q) /\ q.pc = r.pc /\ q.in = r.in /\ OutGood(e, q.out, w)

(* A new out leaves the rest of the state alone. *)
LEMMA SetOut ==
  ASSUME NEW r, Shape(r), NEW out, DOMAIN out = {"key", "next", "buffering", "sendBuf", "sent"}
  PROVE  LET q == [r EXCEPT !.out = out] IN
         Shape(q) /\ Same(r, q) /\ q.pc = r.pc /\ q.in = r.in /\ q.out = out
<1>1. PICK q : q = [r EXCEPT !.out = out]
  OBVIOUS
<1>2. /\ DOMAIN q = DOMAIN r /\ q.out = out /\ q.in = r.in /\ q.pc = r.pc /\ SameOffer(r, q) /\ SameHello(r, q)
  BY <1>1 DEF Shape, Fields, SameOffer, SameHello
<1>3. SameAuth(r, q) /\ SameKey(r, q) /\ SameEnd(r, q)
  BY <1>1 DEF Shape, Fields, SameAuth, SameKey, SameEnd
<1> QED
  BY <1>1, <1>2, <1>3 DEF Shape, Same

(* A longer transcript leaves the rest of the state alone. *)
LEMMA SetTh ==
  ASSUME NEW r, Shape(r), NEW th
  PROVE  LET q == [r EXCEPT !.th = th] IN
         Shape(q) /\ Same(r, q) /\ q.pc = r.pc /\ q.in = r.in /\ q.out = r.out
<1>1. PICK q : q = [r EXCEPT !.th = th]
  OBVIOUS
<1>2. /\ DOMAIN q = DOMAIN r /\ q.out = r.out /\ q.in = r.in /\ q.pc = r.pc /\ SameOffer(r, q) /\ SameHello(r, q)
  BY <1>1 DEF Shape, Fields, SameOffer, SameHello
<1>3. SameAuth(r, q) /\ SameKey(r, q) /\ SameEnd(r, q)
  BY <1>1 DEF Shape, Fields, SameAuth, SameKey, SameEnd
<1> QED
  BY <1>1, <1>2, <1>3 DEF Shape, Same

(* The fields of out. *)
LEMMA GoodDomain ==
  ASSUME NEW e, NEW out, NEW w, OutGood(e, out, w)
  PROVE  DOMAIN out = {"key", "next", "buffering", "sendBuf", "sent"}
BY DEF OutGood, Written

(* Write changes out alone. *)
LEMMA WriteIs ==
  ASSUME NEW e, NEW r, NEW w, Shape(r), OutGood(e, r.out, w), NEW kind, NEW body, Good(e, kind, body, w)
  PROVE  LET q == Write(r, kind, body) IN
         /\ Kept(e, r, q, w) /\ q.out.key = r.out.key /\ q.out.next = r.out.next /\ Flushable(q.out)
<1>1. PICK out : out = Put(r.out, kind, body)
  OBVIOUS
<1>2. OutGood(e, out, w) /\ Flushable(out) /\ out.key = r.out.key /\ out.next = r.out.next
  BY <1>1, PutGood
<1>3. DOMAIN out = {"key", "next", "buffering", "sendBuf", "sent"}
  BY <1>2, GoodDomain
<1>4. PICK q : q = [r EXCEPT !.out = out]
  OBVIOUS
<1>5. Shape(q) /\ Same(r, q) /\ q.pc = r.pc /\ q.in = r.in /\ q.out = out
  BY <1>3, <1>4, SetOut
<1>6. Write(r, kind, body) = q
  BY <1>1, <1>4 DEF Write
<1> QED
  BY <1>2, <1>5, <1>6 DEF Kept

(* Reading a message changes the transcript alone. *)
LEMMA HeardSame ==
  ASSUME NEW r, Shape(r), NEW kind
  PROVE  LET q == Heard(r, kind) IN
         Shape(q) /\ Same(r, q) /\ q.pc = r.pc /\ q.in = r.in /\ q.out = r.out
<1>1. PICK th : th = Append(r.th, kind)
  OBVIOUS
<1>2. PICK q : q = [r EXCEPT !.th = th]
  OBVIOUS
<1>3. Shape(q) /\ Same(r, q) /\ q.pc = r.pc /\ q.in = r.in /\ q.out = r.out
  BY <1>2, SetTh
<1>4. Heard(r, kind) = q
  BY <1>1, <1>2 DEF Heard
<1> QED
  BY <1>3, <1>4

(* The same, with what is written. *)
LEMMA HeardIs ==
  ASSUME NEW e, NEW r, NEW w, Shape(r), OutGood(e, r.out, w), NEW kind
  PROVE  LET q == Heard(r, kind) IN Kept(e, r, q, w) /\ q.out = r.out
<1>1. PICK q : q = Heard(r, kind)
  OBVIOUS
<1>2. Shape(q) /\ Same(r, q) /\ q.pc = r.pc /\ q.in = r.in /\ q.out = r.out
  BY <1>1, HeardSame
<1> QED
  BY <1>1, <1>2 DEF Kept

(* Several writes in a row keep what one keeps. *)
LEMMA KeptTransitive ==
  ASSUME NEW e, NEW r, NEW q, NEW x, NEW w, Kept(e, r, q, w), Kept(e, q, x, w)
  PROVE  Kept(e, r, x, w)
<1>1. Same(r, x)
  BY SameTransitive DEF Kept
<1> QED
  BY <1>1 DEF Kept

(* writeHandshakeRecord changes out and the transcript alone. *)
LEMMA SaysIs ==
  ASSUME NEW e, NEW r, NEW w, Shape(r), OutGood(e, r.out, w), NEW kind, NEW body, Good(e, kind, body, w)
  PROVE  LET q == Says(r, kind, body) IN
         /\ Kept(e, r, q, w) /\ q.out.key = r.out.key /\ q.out.next = r.out.next /\ Flushable(q.out)
<1>1. PICK h : h = Heard(r, kind)
  OBVIOUS
<1>2. Kept(e, r, h, w) /\ h.out = r.out
  BY <1>1, HeardIs
<1>3. Shape(h) /\ OutGood(e, h.out, w)
  BY <1>2 DEF Kept
<1>4. PICK q : q = Write(h, kind, body)
  OBVIOUS
<1>5. /\ Kept(e, h, q, w) /\ q.out.key = h.out.key /\ q.out.next = h.out.next /\ Flushable(q.out)
  BY <1>3, <1>4, WriteIs
<1>6. Kept(e, r, q, w)
  BY <1>2, <1>5, KeptTransitive
<1>7. Says(r, kind, body) = q
  BY <1>1, <1>4 DEF Says, Heard
<1> QED
  BY <1>2, <1>5, <1>6, <1>7

(* The same if the message is sent on a condition. *)
LEMMA SaysIfIs ==
  ASSUME NEW e, NEW r, NEW w, Shape(r), OutGood(e, r.out, w), NEW cond, NEW kind, NEW body,
         cond => Good(e, kind, body, w)
  PROVE  LET q == SaysIf(cond, r, kind, body) IN
         Kept(e, r, q, w) /\ q.out.key = r.out.key /\ q.out.next = r.out.next
<1>1. CASE cond
  <2>1. SaysIf(cond, r, kind, body) = Says(r, kind, body)
    BY <1>1 DEF SaysIf
  <2>2. Good(e, kind, body, w)
    BY <1>1
  <2>3. PICK q : q = Says(r, kind, body)
    OBVIOUS
  <2>4. Kept(e, r, q, w) /\ q.out.key = r.out.key /\ q.out.next = r.out.next
    BY <2>2, <2>3, SaysIs
  <2> QED
    BY <2>1, <2>3, <2>4
<1>2. CASE ~cond
  <2>1. SaysIf(cond, r, kind, body) = r
    BY <1>2 DEF SaysIf
  <2>2. Same(r, r)
    BY DEF Same, SameOffer, SameHello, SameAuth, SameKey, SameEnd
  <2> QED
    BY <2>1, <2>2 DEF Kept
<1> QED
  BY <1>1, <1>2

(* Flush changes out alone, and leaves it clean. *)
LEMMA FlushIs ==
  ASSUME NEW e, NEW r, NEW w, Shape(r), OutGood(e, r.out, w)
  PROVE  LET q == Flush(r) IN
         /\ Kept(e, r, q, w) /\ q.out.key = r.out.key /\ q.out.next = r.out.next
         /\ Flushable(r.out) => Clean(q.out)
<1>1. PICK out : out = Flushed(r.out)
  OBVIOUS
<1>2. /\ OutGood(e, out, w) /\ (Flushable(r.out) => Clean(out))
      /\ out.key = r.out.key /\ out.next = r.out.next
  BY <1>1, FlushedGood
<1>3. DOMAIN out = {"key", "next", "buffering", "sendBuf", "sent"}
  BY <1>2, GoodDomain
<1>4. PICK q : q = [r EXCEPT !.out = out]
  OBVIOUS
<1>5. Shape(q) /\ Same(r, q) /\ q.pc = r.pc /\ q.in = r.in /\ q.out = out
  BY <1>3, <1>4, SetOut
<1>6. Flush(r) = q
  BY <1>1, <1>4 DEF Flush
<1> QED
  BY <1>2, <1>5, <1>6 DEF Kept

(* Buffering changes out alone, and no message of it. *)
LEMMA BufferIs ==
  ASSUME NEW e, NEW r, NEW w, Shape(r), OutGood(e, r.out, w)
  PROVE  LET q == Buffer(r) IN
         Kept(e, r, q, w) /\ q.out.key = r.out.key /\ q.out.next = r.out.next
<1>1. PICK out : out = [r.out EXCEPT !.buffering = TRUE]
  OBVIOUS
<1>2. DOMAIN r.out = {"key", "next", "buffering", "sendBuf", "sent"}
  BY GoodDomain
<1>3. /\ DOMAIN out = DOMAIN r.out /\ out.sent = r.out.sent /\ out.sendBuf = r.out.sendBuf /\ out.buffering = TRUE
      /\ out.key = r.out.key /\ out.next = r.out.next
  BY <1>1, <1>2
<1>4. OutGood(e, out, w)
  BY <1>3, OutKept
<1>5. PICK q : q = [r EXCEPT !.out = out]
  OBVIOUS
<1>6. Shape(q) /\ Same(r, q) /\ q.pc = r.pc /\ q.in = r.in /\ q.out = out
  BY <1>2, <1>3, <1>5, SetOut
<1>7. Buffer(r) = q
  BY <1>1, <1>5 DEF Buffer
<1> QED
  BY <1>3, <1>4, <1>6, <1>7 DEF Kept

(* establishKeys prepares the keys of both halves. *)
LEMMA EstablishIs ==
  ASSUME NEW e, NEW r, NEW w, NEW f, Shape(r), OutGood(e, r.out, w)
  PROVE  LET q == EstablishKeys(f, r) IN
         /\ Shape(q) /\ Same(r, q) /\ q.pc = r.pc /\ OutGood(e, q.out, w)
         /\ q.in.key = r.in.key /\ q.in.next = [secret |-> r.master, by |-> Peer(f)]
         /\ q.out.key = r.out.key /\ q.out.next = [secret |-> r.master, by |-> f]
         /\ q.out.sendBuf = r.out.sendBuf /\ q.out.buffering = r.out.buffering
<1>1. PICK out : out = [r.out EXCEPT !.next = [secret |-> r.master, by |-> f]]
  OBVIOUS
<1>2. PICK in : in = [r.in EXCEPT !.next = [secret |-> r.master, by |-> Peer(f)]]
  OBVIOUS
<1>3. /\ DOMAIN out = DOMAIN r.out /\ out.sent = r.out.sent /\ out.sendBuf = r.out.sendBuf
      /\ out.buffering = r.out.buffering
      /\ out.key = r.out.key /\ out.next = [secret |-> r.master, by |-> f]
  BY <1>1 DEF Shape
<1>4. DOMAIN in = DOMAIN r.in /\ in.key = r.in.key /\ in.next = [secret |-> r.master, by |-> Peer(f)]
  BY <1>2 DEF Shape
<1>5. OutGood(e, out, w)
  BY <1>3, OutKept
<1>6. PICK q : q = [r EXCEPT !.in = in, !.out = out]
  OBVIOUS
<1>7. EstablishKeys(f, r) = q
  BY <1>1, <1>2, <1>6 DEF EstablishKeys, Shape, Fields
<1>8. /\ DOMAIN q = DOMAIN r /\ q.out = out /\ q.in = in /\ q.pc = r.pc /\ SameOffer(r, q) /\ SameHello(r, q)
  BY <1>6 DEF Shape, Fields, SameOffer, SameHello
<1>9. SameAuth(r, q) /\ SameKey(r, q) /\ SameEnd(r, q)
  BY <1>6 DEF Shape, Fields, SameAuth, SameKey, SameEnd
<1> QED
  BY <1>3, <1>4, <1>5, <1>7, <1>8, <1>9 DEF Shape, Same

(* Changing to the keys prepared. *)
LEMMA SendFinishedIs ==
  ASSUME NEW e, NEW r, NEW w, NEW f, Shape(r), OutGood(e, r.out, w),
         Good(e, "ChangeCipherSpec", <<>>, w), Good(e, "Finished", Finish(f, r), w)
  PROVE  LET q == SendFinished(f, r) IN
         /\ Kept(e, r, q, w) /\ q.out.key = r.out.next /\ Flushable(q.out)
<1>1. PICK out : out = Put(r.out, "ChangeCipherSpec", <<>>)
  OBVIOUS
<1>2. OutGood(e, out, w) /\ out.next = r.out.next
  BY <1>1, PutGood
<1>3. DOMAIN out = {"key", "next", "buffering", "sendBuf", "sent"}
  BY <1>2, GoodDomain
<1>4. PICK o : o = ChangeCipherSpec(out)
  OBVIOUS
<1>5. /\ DOMAIN o = DOMAIN out /\ o.sent = out.sent /\ o.sendBuf = out.sendBuf /\ o.buffering = out.buffering
      /\ o.key = out.next
  BY <1>3, <1>4 DEF ChangeCipherSpec
<1>6. OutGood(e, o, w)
  BY <1>2, <1>5, OutKept
<1>7. PICK q : q = [r EXCEPT !.out = o]
  OBVIOUS
<1>8. Shape(q) /\ Same(r, q) /\ q.pc = r.pc /\ q.in = r.in /\ q.out = o
  BY <1>3, <1>5, <1>7, SetOut
<1>9. Kept(e, r, q, w)
  BY <1>6, <1>8 DEF Kept
<1>10. PICK x : x = Says(q, "Finished", Finish(f, r))
  OBVIOUS
<1>11. Kept(e, q, x, w) /\ x.out.key = q.out.key /\ Flushable(x.out)
  BY <1>6, <1>8, <1>10, SaysIs
<1>12. Kept(e, r, x, w)
  BY <1>9, <1>11, KeptTransitive
<1>13. SendFinished(f, r) = x
  BY <1>1, <1>4, <1>7, <1>10 DEF SendFinished
<1> QED
  BY <1>2, <1>5, <1>8, <1>11, <1>12, <1>13

(* A new stage leaves the rest of the state alone. *)
LEMMA SetPc ==
  ASSUME NEW r, Shape(r), NEW pc
  PROVE  LET q == [r EXCEPT !.pc = pc] IN
         Shape(q) /\ Same(r, q) /\ q.pc = pc /\ q.in = r.in /\ q.out = r.out
<1>1. PICK q : q = [r EXCEPT !.pc = pc]
  OBVIOUS
<1>2. /\ DOMAIN q = DOMAIN r /\ q.out = r.out /\ q.in = r.in /\ q.pc = pc /\ SameOffer(r, q) /\ SameHello(r, q)
  BY <1>1 DEF Shape, Fields, SameOffer, SameHello
<1>3. SameAuth(r, q) /\ SameKey(r, q) /\ SameEnd(r, q)
  BY <1>1 DEF Shape, Fields, SameAuth, SameKey, SameEnd
<1> QED
  BY <1>1, <1>2, <1>3 DEF Shape, Same

(* A handshake that fails sends an alert and keeps all that was negotiated. *)
LEMMA FailIs ==
  ASSUME NEW e, NEW r, NEW w, Shape(r), OutGood(e, r.out, w)
  PROVE  LET q == Fail(r) IN
         Shape(q) /\ Same(r, q) /\ q.pc = "failed" /\ q.in = r.in /\ OutGood(e, q.out, w)
<1>1. Good(e, "end", <<>>, w)
  BY DEF Good
<1>2. PICK x : x = Write(r, "end", <<>>)
  OBVIOUS
<1>3. Kept(e, r, x, w)
  BY <1>1, <1>2, WriteIs
<1>4. PICK y : y = Flush(x)
  OBVIOUS
<1>5. Kept(e, x, y, w)
  BY <1>3, <1>4, FlushIs DEF Kept
<1>6. Kept(e, r, y, w)
  BY <1>3, <1>5, KeptTransitive
<1>7. PICK q : q = [y EXCEPT !.pc = "failed"]
  OBVIOUS
<1>8. Shape(q) /\ Same(y, q) /\ q.pc = "failed" /\ q.in = y.in /\ q.out = y.out
  BY <1>6, <1>7, SetPc DEF Kept
<1>9. Same(r, q)
  BY <1>6, <1>8, SameTransitive DEF Kept
<1>10. Fail(r) = q
  BY <1>2, <1>4, <1>7 DEF Fail
<1> QED
  BY <1>6, <1>8, <1>9, <1>10 DEF Kept

-----------------------------------------------------------------------------
(* The inductive invariant. *)

KeyOf(r, e) == [secret |-> r.master, by |-> e]

(* A cached session is what the server has sealed in its ticket. *)
Matches(x) == /\ x.vers = x.ticket.vers /\ x.suite = x.ticket.suite /\ x.secret = x.ticket.secret
              /\ x.ems = x.ticket.ems /\ x.curve = x.ticket.curve
CacheInv(x, w) == x # NoSession => Matches(x) /\ Settled(x.ticket, w)

(* Connections are counted, and a client certificate is proved on one of them  *)
(* at the end of its handshake.                                                *)
CountInv(w) ==
    /\ w.n \in Nat /\ DOMAIN w.pr = 1..MaxConns
    /\ w.s.pc # "closed" => w.n \in 1..MaxConns
    /\ \A i \in 1..MaxConns : i > w.n \/ (i = w.n /\ w.s.pc \in ServerEarly) => w.pr[i] = "none"

(* The client: what it offers, ... *)
OfferInv(w) ==
    /\ w.c.pc = "start" => w.c.session = NoSession
    /\ w.c.pc \notin {"start", "closed"} => w.c.ch.ticket = NoSession \/ Settled(w.c.ch.ticket, w)
    /\ w.c.session # NoSession => /\ Matches(w.c.session) /\ w.c.ch.ticket = w.c.session.ticket
                                  /\ w.cf.client.insecure \/ w.c.session.verified

(* ... what the ServerHello has settled, ... *)
ClientHelloInv(w) ==
    /\ w.c.resumed \in BOOLEAN /\ w.c.skx \in BOOLEAN
    /\ w.c.pc \in {"start", "serverHello"} =>
          /\ w.c.sh = <<>> /\ w.c.resumed = FALSE /\ w.c.skx = FALSE
          /\ w.c.curve = "none" /\ w.c.ticket = NoSession
    /\ w.c.pc \notin {"start", "serverHello", "failed", "closed"} => w.c.sh # <<>>
    /\ w.c.sh # <<>> => /\ w.c.vers = w.c.sh.vers /\ w.c.suite = w.c.sh.suite /\ w.c.proto = w.c.sh.proto
                        /\ w.c.resumed = w.c.sh.echo
    /\ w.c.resumed => /\ w.c.pc \notin ClientEarly /\ w.c.session # NoSession
                      /\ w.c.curve = w.c.session.curve /\ w.c.ems = w.c.session.ems
                      /\ w.c.verified = w.c.session.verified
    /\ ~w.c.resumed /\ w.c.pc \in ClientDone =>
          w.c.ems = w.c.sh.ems /\ (IsECDHE(w.c.suite) => w.c.skx)

(* ... whom it has authenticated, ... *)
ClientAuthInv(w) ==
    /\ w.c.pc \in {"skx", "certReq", "helloDone"} \cup ClientDone => w.cf.client.insecure \/ w.c.verified
    /\ \/ w.c.pc \in {"skx", "certReq", "helloDone", "complete"}
       \/ w.c.pc \in ClientDone /\ ~w.c.resumed
       => (w.cf.client.verify # "nil" => w.c.saw = View(w.c))

(* ... and the keys it has. *)
ClientKeyInv(w) ==
    /\ w.c.pc \in {"ticket", "ccs"} => w.c.in.next = KeyOf(w.c, "server")
    /\ w.c.pc \in {"finished", "complete"} => w.c.in.key = KeyOf(w.c, "server")
    /\ w.c.pc \in ClientDone /\ w.c.resumed /\ w.c.pc # "complete" => w.c.out.next = KeyOf(w.c, "client")
    /\ w.c.pc = "complete" \/ (w.c.pc \in ClientDone /\ ~w.c.resumed) =>
          w.c.out.key = KeyOf(w.c, "client") /\ Clean(w.c.out)
    /\ w.c.pc \in ClientDone /\ ~w.c.resumed => w.c.clientFinishedIsFirst = TRUE
    /\ w.c.pc = "complete" /\ w.c.resumed => w.c.clientFinishedIsFirst = FALSE

(* The server: what its ServerHello has settled, ... *)
ServerHelloInv(w) ==
    /\ w.s.resumed \in BOOLEAN
    /\ w.s.pc = "clientHello" => w.s.sh = <<>> /\ w.s.resumed = FALSE /\ w.s.peerCert = "none"
    /\ w.s.pc \notin {"clientHello", "failed", "closed"} => w.s.sh # <<>>
    /\ w.s.sh # <<>> => /\ w.s.vers = w.s.sh.vers /\ w.s.suite = w.s.sh.suite /\ w.s.proto = w.s.sh.proto
                        /\ w.s.resumed = w.s.sh.echo
                        /\ w.s.resumed => /\ w.s.curve = w.s.ch.ticket.curve
                                          /\ w.s.ems = w.s.ch.ticket.ems
                        /\ ~w.s.resumed /\ ~IsECDHE(w.s.suite) => w.s.curve = "none"
    /\ w.s.pc \in ServerEarly => w.s.resumed = FALSE
    /\ ~w.s.resumed /\ w.s.pc \in {"certVerify"} \cup ServerDone => w.s.ems = w.s.sh.ems

(* ... whom it has authenticated, ... *)
ServerPolicy(r, s) ==
    /\ s.auth = 0 => r.peerCert = "none"
    /\ s.auth \in {2, 4} => r.peerCert # "none"
    /\ s.auth >= 3 /\ r.peerCert # "none" => r.peerCert \in s.cas /\ r.verified
ServerAuthInv(w) ==
    /\ w.s.pc = "clientCert" => w.cf.server.auth >= 1
    /\ w.s.pc \in {"ckx", "certVerify"} \cup ServerDone => ServerPolicy(w.s, w.cf.server)
    /\ w.s.pc \in {"ckx", "certVerify"} => w.s.peerCert \in {"none", w.cf.client.cert}
    /\ w.s.pc = "certVerify" => w.s.peerCert # "none" /\ w.s.master.conn = w.n
    /\ w.s.pc \in ServerDone =>
          w.s.master.conn \in 1..w.n /\ w.s.peerCert = w.pr[w.s.master.conn]
    /\ w.s.pc \in {"certVerify"} \cup ServerDone => (w.cf.server.verify # "nil" => w.s.saw = View(w.s))

(* ... and the keys it has. *)
ServerKeyInv(w) ==
    /\ w.s.pc = "ccs" => w.s.in.next = KeyOf(w.s, "client")
    /\ w.s.pc \in {"finished", "complete"} => w.s.in.key = KeyOf(w.s, "client")
    /\ w.s.pc \in {"ccs", "finished"} /\ ~w.s.resumed => w.s.out.next = KeyOf(w.s, "server")
    /\ w.s.pc = "complete" \/ (w.s.pc \in ServerDone /\ w.s.resumed) =>
          w.s.out.key = KeyOf(w.s, "server") /\ Clean(w.s.out)
    /\ w.s.pc \in ServerDone /\ w.s.resumed => w.s.clientFinishedIsFirst = FALSE
    /\ w.s.pc = "complete" /\ ~w.s.resumed => w.s.clientFinishedIsFirst = TRUE

(* What the ends have of each other. *)
LinkInv(w) ==
    /\ w.c.pc = "closed" => w.s.pc = "closed"
    /\ w.c.sh # <<>> => w.c.sh = w.s.sh
    /\ w.s.sh # <<>> => w.s.ch = w.c.ch /\ w.c.pc # "start"
    /\ w.c.sh # <<>> /\ ~w.c.resumed => /\ w.c.skx => IsECDHE(w.c.suite) /\ w.c.curve = w.s.curve
                                        /\ ~w.c.skx => w.c.curve = "none"
    /\ w.c.ticket # NoSession =>
          w.s.pc \notin ServerEarly /\ w.c.sh # <<>> /\ SealedBy(w.c.ticket, w.s) /\ Settled(w.c.ticket, w)
    /\ w.c.pc = "complete" => /\ w.c.master = w.s.master /\ w.s.pc \notin ServerEarly
                              /\ ~w.c.resumed => w.s.pc = "complete"
                              /\ w.c.resumed => w.c.serverFinished = w.s.serverFinished
    /\ w.s.pc = "complete" =>
          /\ w.s.resumed => w.c.pc = "complete"
          /\ ~w.s.resumed => /\ w.s.clientFinished = w.c.clientFinished
                             /\ w.c.pc \notin ClientEarly /\ w.c.sh # <<>>

ClientInv(w) == OfferInv(w) /\ ClientHelloInv(w) /\ ClientAuthInv(w) /\ ClientKeyInv(w)
ServerInv(w) == ServerHelloInv(w) /\ ServerAuthInv(w) /\ ServerKeyInv(w)
FormInv(w)   == Shape(w.c) /\ Shape(w.s)
MsgInv(w)    == OutGood("client", w.c.out, w) /\ OutGood("server", w.s.out, w)
Inv(w) == FormInv(w) /\ MsgInv(w) /\ CountInv(w) /\ ClientInv(w) /\ ServerInv(w) /\ LinkInv(w)

HandshakeInv == DOMAIN st = Ends /\ Inv(World) /\ CacheInv(cache, World)

(* x is r but for messages that the other end has read. *)
Aside(r, x) ==
    /\ Shape(x) /\ Same(r, x) /\ x.pc = r.pc /\ x.in = r.in
    /\ x.out.key = r.out.key /\ x.out.next = r.out.next
    /\ x.out.sendBuf = r.out.sendBuf /\ x.out.buffering = r.out.buffering
    /\ \A e, w : OutGood(e, r.out, w) => OutGood(e, x.out, w)

(* An end that does nothing is set aside. *)
LEMMA AsideSelf ==
  ASSUME NEW r, Shape(r)
  PROVE  Aside(r, r)
BY DEF Aside, Same, SameOffer, SameHello, SameAuth, SameKey, SameEnd

(* An end of which a message is read is set aside. *)
LEMMA AsideTail ==
  ASSUME NEW r, Shape(r), r.out.sent # <<>>
  PROVE  Aside(r, [r EXCEPT !.out.sent = Tail(@)])
<1>1. PICK out : out = [r.out EXCEPT !.sent = Tail(@)]
  OBVIOUS
<1>2. PICK x : x = [r EXCEPT !.out = out]
  OBVIOUS
<1>3. /\ DOMAIN out = DOMAIN r.out /\ out.key = r.out.key /\ out.next = r.out.next
      /\ out.sendBuf = r.out.sendBuf /\ out.buffering = r.out.buffering
  BY <1>1 DEF Shape
<1>4. Shape(x) /\ Same(r, x) /\ x.pc = r.pc /\ x.in = r.in /\ x.out = out
  BY <1>2, <1>3, SetOut DEF Shape
<1>5. ASSUME NEW e, NEW w, OutGood(e, r.out, w) PROVE OutGood(e, out, w)
  BY <1>1, <1>5, HeadGood
<1>6. x = [r EXCEPT !.out.sent = Tail(@)]
  BY <1>1, <1>2
<1>7. Aside(r, x)
  BY <1>3, <1>4, <1>5 DEF Aside
<1> QED
  BY <1>6, <1>7

(* A step of the client leaves what concerns the server alone. *)
LEMMA ClientFrame ==
  ASSUME NEW w, NEW v, Inv(w), Aside(w.s, v.s), v.cf = w.cf, v.n = w.n, v.pr = w.pr
  PROVE  /\ Shape(v.s) /\ CountInv(v) /\ ServerInv(v) /\ OutGood("server", v.s.out, v)
         /\ \A t : Settled(t, w) => Settled(t, v)
<1>1. Same(w.s, v.s) /\ v.s.pc = w.s.pc /\ Shape(v.s)
  BY DEF Aside
<1>2. SameOffer(w.s, v.s) /\ SameHello(w.s, v.s) /\ SameAuth(w.s, v.s) /\ SameKey(w.s, v.s) /\ SameEnd(w.s, v.s)
  BY <1>1 DEF Same
<1>3. View(v.s) = View(w.s)
  BY <1>2, ViewSame DEF SameAuth
<1>4. CountInv(v)
  BY <1>1 DEF Inv, CountInv
<1>5. ServerHelloInv(v)
  BY <1>1, <1>2 DEF Inv, ServerInv, ServerHelloInv, SameHello, SameAuth, SameKey, SameOffer
<1>6. ServerAuthInv(v)
  BY <1>1, <1>2, <1>3 DEF Inv, ServerInv, ServerAuthInv, ServerPolicy, SameAuth, SameKey
<1>7. ServerKeyInv(v)
  BY <1>1, <1>2 DEF Inv, ServerInv, ServerKeyInv, SameHello, SameKey, SameEnd, Aside, KeyOf, Clean
<1>8. \A t : Settled(t, w) => Settled(t, v)
  BY <1>1 DEF Settled
<1>9. ASSUME NEW kind, NEW body, Good("server", kind, body, w) PROVE Good("server", kind, body, v)
  <2>1. SealedBy(body, w.s) => SealedBy(body, v.s)
    BY <1>2 DEF SealedBy, SameHello, SameKey
  <2>2. ServerMsg(kind, body, w) => ServerMsg(kind, body, v)
    BY <1>1, <1>2, <1>8, <2>1 DEF ServerMsg, SameHello, SameKey, SameEnd
  <2> QED
    BY <1>9, <2>2 DEF Good
<1>10. OutGood("server", v.s.out, w)
  BY DEF Inv, MsgInv, Aside
<1>11. OutGood("server", v.s.out, v)
  BY <1>9, <1>10, GoodStays
<1> QED
  BY <1>1, <1>4, <1>5, <1>6, <1>7, <1>8, <1>11 DEF ServerInv

(* A step of the server leaves what concerns the client alone. *)
LEMMA ServerFrame ==
  ASSUME NEW w, NEW v, Inv(w), Aside(w.c, v.c), v.cf = w.cf, \A t : Settled(t, w) => Settled(t, v)
  PROVE  Shape(v.c) /\ ClientInv(v) /\ OutGood("client", v.c.out, v)
<1>1. Same(w.c, v.c) /\ v.c.pc = w.c.pc /\ Shape(v.c)
  BY DEF Aside
<1>2. SameOffer(w.c, v.c) /\ SameHello(w.c, v.c) /\ SameAuth(w.c, v.c) /\ SameKey(w.c, v.c) /\ SameEnd(w.c, v.c)
  BY <1>1 DEF Same
<1>3. View(v.c) = View(w.c)
  BY <1>2, ViewSame DEF SameAuth
<1>4. OfferInv(v)
  BY <1>1, <1>2 DEF Inv, ClientInv, OfferInv, SameOffer
<1>5. ClientHelloInv(v)
  BY <1>1, <1>2 DEF Inv, ClientInv, ClientHelloInv, SameHello, SameAuth, SameKey, SameOffer, SameEnd
<1>6. ClientAuthInv(v)
  BY <1>1, <1>2, <1>3 DEF Inv, ClientInv, ClientAuthInv, SameAuth, SameHello
<1>7. ClientKeyInv(v)
  BY <1>1, <1>2 DEF Inv, ClientInv, ClientKeyInv, SameHello, SameKey, SameEnd, Aside, KeyOf, Clean
<1>9. ASSUME NEW kind, NEW body, Good("client", kind, body, w) PROVE Good("client", kind, body, v)
  <2>2. ClientMsg(kind, body, w) => ClientMsg(kind, body, v)
    BY <1>1, <1>2 DEF ClientMsg, SameHello, SameEnd, SameOffer
  <2> QED
    BY <1>9, <2>2 DEF Good
<1>10. OutGood("client", v.c.out, w)
  BY DEF Inv, MsgInv, Aside
<1>11. OutGood("client", v.c.out, v)
  BY <1>9, <1>10, GoodStays
<1> QED
  BY <1>1, <1>4, <1>5, <1>6, <1>7, <1>11 DEF ClientInv

(* What a cached session is does not depend on the ends. *)
LEMMA CacheFrame ==
  ASSUME NEW w, NEW v, NEW x, CacheInv(x, w), \A t : Settled(t, w) => Settled(t, v)
  PROVE  CacheInv(x, v)
BY DEF CacheInv

(* The parts of the world. *)
LEMMA WorldIs ==
  /\ World.c = st.client /\ World.s = st.server /\ World.cf = cfg /\ World.n = conn /\ World.pr = proved
BY DEF World

(* The parts of the next world. *)
LEMMA WorldNext ==
  /\ World'.c = st'.client /\ World'.s = st'.server /\ World'.cf = cfg' /\ World'.n = conn' /\ World'.pr = proved'
BY DEF World

(* A step of an end that goes on in state q, having read a message or not. *)
ClientGoes(q) == /\ DOMAIN st' = Ends /\ World'.c = q /\ Aside(World.s, World'.s)
                 /\ World'.cf = World.cf /\ World'.n = World.n /\ World'.pr = World.pr
ServerGoes(q) == /\ DOMAIN st' = Ends /\ World'.s = q /\ Aside(World.c, World'.c)
                 /\ World'.cf = World.cf /\ World'.n = World.n

(* A step of the client that reads one message or none leaves the server       *)
(* aside.                                                                      *)
LEMMA ClientGoesOn ==
  ASSUME HandshakeInv, NEW q, Goes("client", q) \/ (Reads("client", q) /\ Waiting("client")),
         UNCHANGED <<conn, cfg, proved>>
  PROVE  ClientGoes(q)
<1>1. Shape(st.server) /\ DOMAIN st = {"client", "server"}
  BY WorldIs DEF HandshakeInv, Inv, FormInv, Ends
<1>2. CASE Goes("client", q)
  <2>1. DOMAIN st' = {"client", "server"} /\ st'.client = q /\ st'.server = st.server
    BY <1>1, <1>2 DEF Goes
  <2> QED
    BY <1>1, <2>1, AsideSelf, WorldIs, WorldNext DEF ClientGoes, Ends
<1>3. CASE Reads("client", q) /\ Waiting("client")
  <2>1. PICK x : x = [st.server EXCEPT !.out.sent = Tail(@)]
    OBVIOUS
  <2>2. Aside(st.server, x)
    BY <1>1, <1>3, <2>1, AsideTail DEF Waiting, Peer
  <2>3. DOMAIN st' = {"client", "server"} /\ st'.client = q /\ st'.server = x
    BY <1>1, <1>3, <2>1 DEF Reads, Peer
  <2> QED
    BY <2>2, <2>3, WorldIs, WorldNext DEF ClientGoes, Ends
<1> QED
  BY <1>2, <1>3

(* A step of the server that reads one message or none leaves the client       *)
(* aside.                                                                      *)
LEMMA ServerGoesOn ==
  ASSUME HandshakeInv, NEW q, Goes("server", q) \/ (Reads("server", q) /\ Waiting("server")),
         UNCHANGED <<conn, cfg>>
  PROVE  ServerGoes(q)
<1>1. Shape(st.client) /\ DOMAIN st = {"client", "server"}
  BY WorldIs DEF HandshakeInv, Inv, FormInv, Ends
<1>2. CASE Goes("server", q)
  <2>1. DOMAIN st' = {"client", "server"} /\ st'.server = q /\ st'.client = st.client
    BY <1>1, <1>2 DEF Goes
  <2> QED
    BY <1>1, <2>1, AsideSelf, WorldIs, WorldNext DEF ServerGoes, Ends
<1>3. CASE Reads("server", q) /\ Waiting("server")
  <2>1. PICK x : x = [st.client EXCEPT !.out.sent = Tail(@)]
    OBVIOUS
  <2>2. Aside(st.client, x)
    BY <1>1, <1>3, <2>1, AsideTail DEF Waiting, Peer
  <2>3. DOMAIN st' = {"client", "server"} /\ st'.server = q /\ st'.client = x
    BY <1>1, <1>3, <2>1 DEF Reads, Peer
  <2> QED
    BY <2>2, <2>3, WorldIs, WorldNext DEF ServerGoes, Ends
<1> QED
  BY <1>2, <1>3

(* What is left to show of a step of the client, ... *)
LEMMA ClientCloses ==
  ASSUME HandshakeInv, NEW q, ClientGoes(q), Shape(q), OutGood("client", q.out, World'),
         ClientInv(World'), LinkInv(World'), CacheInv(cache', World')
  PROVE  HandshakeInv'
<1>1. PICK w : w = World
  OBVIOUS
<1>2. PICK v : v = World'
  OBVIOUS
<1>3. Inv(w) /\ v.c = q /\ Aside(w.s, v.s) /\ v.cf = w.cf /\ v.n = w.n /\ v.pr = w.pr
  BY <1>1, <1>2 DEF HandshakeInv, ClientGoes
<1>4. Shape(v.s) /\ CountInv(v) /\ ServerInv(v) /\ OutGood("server", v.s.out, v)
  BY <1>3, ClientFrame
<1>5. Inv(v)
  BY <1>2, <1>3, <1>4 DEF Inv, FormInv, MsgInv
<1>6. (Inv(World))' /\ (CacheInv(cache, World))' /\ DOMAIN st' = Ends
  BY <1>2, <1>5 DEF ClientGoes
<1> QED
  BY <1>6 DEF HandshakeInv

(* ... of the server ... *)
LEMMA ServerCloses ==
  ASSUME HandshakeInv, NEW q, ServerGoes(q), Shape(q), OutGood("server", q.out, World'),
         ServerInv(World'), CountInv(World'), LinkInv(World'), cache' = cache,
         \A t : Settled(t, World) => Settled(t, World')
  PROVE  HandshakeInv'
<1>1. PICK w : w = World
  OBVIOUS
<1>2. PICK v : v = World'
  OBVIOUS
<1>3. Inv(w) /\ v.s = q /\ Aside(w.c, v.c) /\ v.cf = w.cf /\ v.n = w.n
  BY <1>1, <1>2 DEF HandshakeInv, ServerGoes
<1>4. Shape(v.c) /\ ClientInv(v) /\ OutGood("client", v.c.out, v)
  BY <1>1, <1>2, <1>3, ServerFrame
<1>5. Inv(v)
  BY <1>2, <1>3, <1>4 DEF Inv, FormInv, MsgInv
<1>6. CacheInv(cache, v)
  BY <1>1, <1>2, CacheFrame DEF HandshakeInv
<1>7. (Inv(World))' /\ (CacheInv(cache, World))' /\ DOMAIN st' = Ends
  BY <1>2, <1>5, <1>6 DEF ServerGoes
<1> QED
  BY <1>7 DEF HandshakeInv

(* The world that a step of the client starts from, and the one it ends in. *)
ClientMoves(w, v, q) ==
    /\ Inv(w) /\ v.c = q /\ v.cf = w.cf /\ v.n = w.n /\ v.pr = w.pr
    /\ v.s.pc = w.s.pc /\ Same(w.s, v.s) /\ \A t : Settled(t, w) => Settled(t, v)

(* What a step of the client keeps of the server. *)
LEMMA ClientMovesIs ==
  ASSUME HandshakeInv, NEW q, ClientGoes(q)
  PROVE  ClientMoves(World, World', q)
<1>1. PICK w : w = World
  OBVIOUS
<1>2. PICK v : v = World'
  OBVIOUS
<1>3. Inv(w) /\ v.c = q /\ Aside(w.s, v.s) /\ v.cf = w.cf /\ v.n = w.n /\ v.pr = w.pr
  BY <1>1, <1>2 DEF HandshakeInv, ClientGoes
<1>4. \A t : Settled(t, w) => Settled(t, v)
  BY <1>3, ClientFrame
<1> QED
  BY <1>1, <1>2, <1>3, <1>4 DEF ClientMoves, Aside

ServerMoves(w, v, q) ==
    /\ Inv(w) /\ v.s = q /\ v.cf = w.cf /\ v.n = w.n
    /\ v.c.pc = w.c.pc /\ Same(w.c, v.c)

(* What a step of the server keeps of the client. *)
LEMMA ServerMovesIs ==
  ASSUME HandshakeInv, NEW q, ServerGoes(q)
  PROVE  ServerMoves(World, World', q)
BY DEF HandshakeInv, ServerGoes, ServerMoves, Aside

(* The message that an end is going to read. *)
LEMMA MsgGood ==
  ASSUME HandshakeInv
  PROVE  /\ Waiting("client") => Good("server", Msg("client").kind, Msg("client").body, World)
         /\ Waiting("server") => Good("client", Msg("server").kind, Msg("server").body, World)
<1>1. OutGood("client", st.client.out, World) /\ OutGood("server", st.server.out, World)
  BY WorldIs DEF HandshakeInv, Inv, MsgInv
<1>2. Peer("client") = "server" /\ Peer("server") = "client"
  BY DEF Peer
<1>3. Waiting("client") => Good("server", Head(st.server.out.sent).kind, Head(st.server.out.sent).body, World)
  BY <1>1, <1>2, HeadGood DEF Waiting
<1>4. Waiting("server") => Good("client", Head(st.client.out.sent).kind, Head(st.client.out.sent).body, World)
  BY <1>1, <1>2, HeadGood DEF Waiting
<1> QED
  BY <1>2, <1>3, <1>4 DEF Msg

-----------------------------------------------------------------------------
(* Failing. *)

(* A client that fails, and throws its session away, keeps the invariant. *)
LEMMA ClientFails ==
  ASSUME HandshakeInv, Fails("client"), st.client.pc \notin {"start", "complete", "closed"},
         UNCHANGED <<conn, cfg, proved>>
  PROVE  HandshakeInv'
<1>1. PICK q : q = Fail(st.client)
  OBVIOUS
<1>2. Goes("client", q) /\ (cache' = cache \/ cache' = NoSession)
  BY <1>1 DEF Fails
<1>3. ClientGoes(q)
  BY <1>2, ClientGoesOn
<1>4. PICK w : w = World
  OBVIOUS
<1>5. PICK v : v = World'
  OBVIOUS
<1>6. ClientMoves(w, v, q)
  BY <1>3, <1>4, <1>5, ClientMovesIs
<1>7. w.c = st.client /\ Shape(w.c) /\ OutGood("client", w.c.out, w)
  BY <1>4, WorldIs DEF HandshakeInv, Inv, FormInv, MsgInv
<1>8. Shape(q) /\ Same(w.c, q) /\ q.pc = "failed"
  BY <1>1, <1>7, FailIs
<1>9. /\ SameOffer(w.c, v.c) /\ SameHello(w.c, v.c) /\ SameKey(w.c, v.c) /\ SameEnd(w.c, v.c) /\ v.c.pc = "failed"
      /\ w.c.pc \notin {"start", "complete", "closed"}
  BY <1>6, <1>7, <1>8 DEF Same, ClientMoves
<1>10. /\ v.s.pc = w.s.pc /\ SameHello(w.s, v.s) /\ SameKey(w.s, v.s) /\ SameEnd(w.s, v.s) /\ SameOffer(w.s, v.s)
       /\ v.cf = w.cf /\ \A t : Settled(t, w) => Settled(t, v)
  BY <1>6 DEF ClientMoves, Same
<1>11. ASSUME NEW kind, NEW body, Good("client", kind, body, w) PROVE Good("client", kind, body, v)
  <2>1. w.c.resumed \in BOOLEAN
    BY <1>6 DEF ClientMoves, Inv, ClientInv, ClientHelloInv
  <2>2. ClientMsg(kind, body, w) => ClientMsg(kind, body, v)
    BY <1>9, <1>10, <2>1 DEF ClientMsg, SameHello, SameEnd, SameOffer, ClientEarly
  <2> QED
    BY <1>11, <2>2 DEF Good
<1>12. OutGood("client", w.c.out, v)
  BY <1>7, <1>11, GoodStays
<1>13. OutGood("client", q.out, v)
  BY <1>1, <1>7, <1>12, FailIs
<1>14. OfferInv(v)
  BY <1>6, <1>9, <1>10 DEF ClientMoves, Inv, ClientInv, OfferInv, SameOffer
<1>15. ClientHelloInv(v)
  <2>1. SameAuth(w.c, v.c)
    BY <1>6, <1>8 DEF ClientMoves, Same
  <2> QED
    BY <1>6, <1>9, <2>1 DEF ClientMoves, Inv, ClientInv, ClientHelloInv, SameOffer, SameHello, SameKey, SameAuth, ClientEarly,
       ClientDone
<1>16. ClientAuthInv(v) /\ ClientKeyInv(v)
  BY <1>9 DEF ClientAuthInv, ClientKeyInv, ClientDone
<1>17. LinkInv(v)
  <2>1. LinkInv(w)
    BY <1>6 DEF ClientMoves, Inv
  <2>2. SealedBy(w.c.ticket, w.s) => SealedBy(w.c.ticket, v.s)
    BY <1>10 DEF SealedBy, SameHello, SameKey
  <2> QED
    BY <1>9, <1>10, <2>1, <2>2 DEF LinkInv, SameOffer, SameHello, SameKey, SameEnd, ClientEarly
<1>18. CacheInv(cache', v)
  BY <1>2, <1>4, <1>10, CacheFrame DEF HandshakeInv, CacheInv
<1> QED
  BY <1>3, <1>5, <1>8, <1>13, <1>14, <1>15, <1>16, <1>17, <1>18, ClientCloses DEF ClientInv

(* A server that fails keeps the invariant. *)
LEMMA ServerFails ==
  ASSUME HandshakeInv, Goes("server", Fail(st.server)), st.server.pc \notin {"complete", "closed"},
         UNCHANGED <<conn, cfg, proved, cache>>
  PROVE  HandshakeInv'
<1>1. PICK q : q = Fail(st.server)
  OBVIOUS
<1>3. ServerGoes(q)
  BY <1>1, ServerGoesOn
<1>4. PICK w : w = World
  OBVIOUS
<1>5. PICK v : v = World'
  OBVIOUS
<1>6. ServerMoves(w, v, q) /\ v.pr = w.pr
  BY <1>3, <1>4, <1>5, ServerMovesIs, WorldIs, WorldNext
<1>7. w.s = st.server /\ Shape(w.s) /\ OutGood("server", w.s.out, w)
  BY <1>4, WorldIs DEF HandshakeInv, Inv, FormInv, MsgInv
<1>8. Shape(q) /\ Same(w.s, q) /\ q.pc = "failed"
  BY <1>1, <1>7, FailIs
<1>9. /\ SameOffer(w.s, v.s) /\ SameHello(w.s, v.s) /\ SameKey(w.s, v.s) /\ SameEnd(w.s, v.s) /\ v.s.pc = "failed"
      /\ w.s.pc \notin {"complete", "closed"} /\ w.s.resumed \in BOOLEAN
  BY <1>6, <1>7, <1>8 DEF Same, ServerMoves, Inv, ServerInv, ServerHelloInv
<1>10. /\ v.c.pc = w.c.pc /\ SameHello(w.c, v.c) /\ SameKey(w.c, v.c) /\ SameEnd(w.c, v.c) /\ SameOffer(w.c, v.c)
       /\ v.cf = w.cf /\ v.n = w.n
  BY <1>6 DEF ServerMoves, Same
<1>11. \A t : Settled(t, w) => Settled(t, v)
  BY <1>6, <1>9, <1>10 DEF Settled, ServerEarly
<1>12. ASSUME NEW kind, NEW body, Good("server", kind, body, w) PROVE Good("server", kind, body, v)
  <2>1. SealedBy(body, w.s) => SealedBy(body, v.s)
    BY <1>9 DEF SealedBy, SameHello, SameKey
  <2>2. ServerMsg(kind, body, w) => ServerMsg(kind, body, v)
    BY <1>9, <1>10, <1>11, <2>1 DEF ServerMsg, SameHello, SameEnd, SameKey, ServerEarly
  <2> QED
    BY <1>12, <2>2 DEF Good
<1>13. OutGood("server", w.s.out, v)
  BY <1>7, <1>12, GoodStays
<1>14. OutGood("server", q.out, v)
  BY <1>1, <1>7, <1>13, FailIs
<1>15. ServerHelloInv(v)
  BY <1>6, <1>9 DEF ServerMoves, Inv, ServerInv, ServerHelloInv, SameHello, SameKey, SameOffer, ServerEarly, ServerDone
<1>16. ServerAuthInv(v) /\ ServerKeyInv(v)
  BY <1>9 DEF ServerAuthInv, ServerKeyInv, ServerDone
<1>17. CountInv(v)
  BY <1>6, <1>9, <1>10 DEF ServerMoves, Inv, CountInv, ServerEarly
<1>18. LinkInv(v)
  <2>1. LinkInv(w)
    BY <1>6 DEF ServerMoves, Inv
  <2>2. SealedBy(w.c.ticket, w.s) => SealedBy(w.c.ticket, v.s)
    BY <1>9 DEF SealedBy, SameHello, SameKey
  <2> QED
    BY <1>9, <1>10, <1>11, <2>1, <2>2 DEF LinkInv, SameOffer, SameHello, SameKey, SameEnd, ServerEarly
<1> QED
  BY <1>3, <1>4, <1>5, <1>8, <1>11, <1>14, <1>15, <1>16, <1>17, <1>18, ServerCloses DEF ServerInv

-----------------------------------------------------------------------------
(* The transport, and the connections that follow each other. *)

(* The state a connection starts in. *)
LEMMA FreshIs ==
  /\ Shape(Fresh) /\ Fresh.session = NoSession /\ Fresh.ticket = NoSession /\ Fresh.sh = <<>>
  /\ Fresh.resumed = FALSE /\ Fresh.skx = FALSE /\ Fresh.curve = "none" /\ Fresh.peerCert = "none"
  /\ Fresh.out.sendBuf = <<>> /\ Fresh.out.sent = <<>> /\ Fresh.out.buffering = FALSE /\ Fresh.pc = "start"
BY DEF Fresh, Shape, Fields

(* An end at stage pc of which nothing has happened yet. *)
Unused(r) ==
    /\ Shape(r) /\ r.session = NoSession /\ r.ticket = NoSession /\ r.sh = <<>>
    /\ r.resumed = FALSE /\ r.skx = FALSE /\ r.curve = "none" /\ r.peerCert = "none"
    /\ r.out.sendBuf = <<>> /\ r.out.sent = <<>> /\ r.out.buffering = FALSE

(* A fresh end at any stage is unused. *)
LEMMA UnusedIs ==
  ASSUME NEW pc
  PROVE  Unused([Fresh EXCEPT !.pc = pc]) /\ [Fresh EXCEPT !.pc = pc].pc = pc
<1>1. PICK q : q = [Fresh EXCEPT !.pc = pc]
  OBVIOUS
<1>2. Shape(q) /\ Same(Fresh, q) /\ q.pc = pc /\ q.out = Fresh.out
  BY <1>1, FreshIs, SetPc
<1>3. Unused(q)
  BY <1>2, FreshIs DEF Unused, Same, SameOffer, SameHello, SameAuth, SameKey, SameEnd
<1> QED
  BY <1>1, <1>2, <1>3

(* Two unused ends satisfy the invariant. *)
LEMMA UnusedInv ==
  ASSUME NEW w, Unused(w.c), Unused(w.s), CountInv(w),
         \/ w.c.pc = "closed" /\ w.s.pc = "closed"
         \/ w.c.pc = "start" /\ w.s.pc = "clientHello"
  PROVE  Inv(w)
<1>1. OutGood("client", w.c.out, w) /\ OutGood("server", w.s.out, w)
  <2>0. PICK M : M = {}
    OBVIOUS
  <2>2. <<>> \in Seq(M)
    OBVIOUS
  <2>3. ASSUME NEW r, Unused(r) PROVE Written(r.out, M)
    BY <2>2, <2>3 DEF Unused, Shape, Written
  <2>1. Written(w.c.out, M) /\ Written(w.s.out, M)
    BY <2>3
  <2> QED
    BY <2>0, <2>1 DEF OutGood
<1>2. OfferInv(w) /\ ClientHelloInv(w)
  BY DEF OfferInv, ClientHelloInv, Unused, ClientEarly, ClientDone
<1>3. ClientAuthInv(w) /\ ClientKeyInv(w)
  BY DEF ClientAuthInv, ClientKeyInv, ClientDone
<1>4. ServerHelloInv(w)
  BY DEF ServerHelloInv, Unused, ServerDone
<1>5. ServerAuthInv(w) /\ ServerKeyInv(w)
  BY DEF ServerAuthInv, ServerKeyInv, ServerDone
<1>6. LinkInv(w)
  BY DEF LinkInv, Unused
<1> QED
  BY <1>1, <1>2, <1>3, <1>4, <1>5, <1>6 DEF Inv, FormInv, MsgInv, ClientInv, ServerInv, Unused

(* Closed ends are unused. *)
LEMMA ClosedIs ==
  ASSUME NEW x, x = ClosedEnds
  PROVE  /\ DOMAIN x = Ends /\ Unused(x.client) /\ Unused(x.server)
         /\ x.client.pc = "closed" /\ x.server.pc = "closed"
<1>1. x.client = [Fresh EXCEPT !.pc = "closed"] /\ x.server = [Fresh EXCEPT !.pc = "closed"] /\ DOMAIN x = Ends
  BY DEF ClosedEnds, Ends
<1> QED
  BY <1>1, UnusedIs

(* The invariant holds before the first connection. *)
LEMMA InitInv == Init => HandshakeInv
<1> SUFFICES ASSUME Init PROVE HandshakeInv
  OBVIOUS
<1>1. PICK w : w = World
  OBVIOUS
<1>2. PICK x : x = st
  OBVIOUS
<1>3. /\ DOMAIN x = Ends /\ Unused(x.client) /\ Unused(x.server)
      /\ x.client.pc = "closed" /\ x.server.pc = "closed"
  BY <1>2, ClosedIs DEF Init
<1>4. w.c = x.client /\ w.s = x.server /\ w.n = conn /\ w.pr = proved
  BY <1>1, <1>2, WorldIs
<1>5. CountInv(w)
  BY <1>3, <1>4 DEF Init, CountInv, ServerEarly
<1>6. Inv(w)
  BY <1>3, <1>4, <1>5, UnusedInv
<1>7. CacheInv(cache, w)
  BY DEF Init, CacheInv
<1> QED
  BY <1>1, <1>2, <1>3, <1>6, <1>7 DEF HandshakeInv

(* Closing both ends keeps the invariant: the cached session stays settled. *)
LEMMA CloseInv ==
  ASSUME HandshakeInv, Close
  PROVE  HandshakeInv'
<1>1. PICK w : w = World
  OBVIOUS
<1>2. PICK v : v = World'
  OBVIOUS
<1>3. PICK x : x = st'
  OBVIOUS
<1>4. /\ DOMAIN x = Ends /\ Unused(x.client) /\ Unused(x.server)
      /\ x.client.pc = "closed" /\ x.server.pc = "closed"
  BY <1>3, ClosedIs DEF Close
<1>5. v.c = x.client /\ v.s = x.server /\ v.n = w.n /\ v.pr = w.pr
  BY <1>1, <1>2, <1>3, WorldIs, WorldNext DEF Close
<1>6. Inv(w) /\ CacheInv(cache, w)
  BY <1>1 DEF HandshakeInv
<1>7. \A t : Settled(t, w) => Settled(t, v)
  BY <1>4, <1>5 DEF Settled, ServerEarly
<1>8. CountInv(v)
  BY <1>4, <1>5, <1>6 DEF Inv, CountInv, ServerEarly
<1>9. Inv(v)
  BY <1>4, <1>5, <1>8, UnusedInv
<1>10. CacheInv(cache', v)
  BY <1>6, <1>7, CacheFrame DEF Close
<1> QED
  BY <1>2, <1>3, <1>4, <1>9, <1>10 DEF HandshakeInv

(* A new connection keeps the invariant: nothing is proved on it yet. *)
LEMMA ConnectInv ==
  ASSUME HandshakeInv, Connect
  PROVE  HandshakeInv'
<1>1. PICK w : w = World
  OBVIOUS
<1>2. PICK v : v = World'
  OBVIOUS
<1>3. PICK x : x = st'
  OBVIOUS
<1>4. /\ DOMAIN x = Ends /\ Unused(x.client) /\ Unused(x.server)
      /\ x.client.pc = "start" /\ x.server.pc = "clientHello"
  <2>1. x.client = Fresh /\ x.server = [Fresh EXCEPT !.pc = "clientHello"] /\ DOMAIN x = Ends
    BY <1>3 DEF Connect, Ends
  <2>2. Unused(Fresh) /\ Fresh.pc = "start"
    BY FreshIs DEF Unused
  <2> QED
    BY <2>1, <2>2, UnusedIs
<1>5. v.c = x.client /\ v.s = x.server /\ v.n = w.n + 1 /\ v.pr = w.pr /\ w.n < MaxConns
  BY <1>1, <1>2, <1>3, WorldIs, WorldNext DEF Connect
<1>6. Inv(w) /\ CacheInv(cache, w)
  BY <1>1 DEF HandshakeInv
<1>7. w.n \in Nat /\ MaxConns \in Nat
  BY <1>6, Handshake12Assumption DEF Inv, CountInv
<1>8. ASSUME NEW t, Settled(t, w) PROVE Settled(t, v)
  <2>1. PICK i : i = t.secret.conn
    OBVIOUS
  <2>2. i \in 1..w.n /\ t.peerCert = w.pr[i]
    BY <1>8, <2>1 DEF Settled
  <2>3. i \in 1..v.n /\ i # v.n
    BY <1>5, <1>7, <2>2
  <2> QED
    BY <1>5, <2>1, <2>2, <2>3 DEF Settled
<1>9. CountInv(v)
  <2>1. \A i \in 1..MaxConns : i > w.n => w.pr[i] = "none"
    BY <1>6 DEF Inv, CountInv
  <2>2. \A i \in 1..MaxConns : i > w.n + 1 \/ i = w.n + 1 => i > w.n
    BY <1>7
  <2>3. v.n \in Nat /\ v.n \in 1..MaxConns
    BY <1>5, <1>7
  <2>4. DOMAIN v.pr = 1..MaxConns
    BY <1>5, <1>6 DEF Inv, CountInv
  <2> QED
    BY <1>5, <2>1, <2>2, <2>3, <2>4 DEF CountInv
<1>10. Inv(v)
  BY <1>4, <1>5, <1>9, UnusedInv
<1>11. CacheInv(cache', v)
  BY <1>6, <1>8, CacheFrame DEF Connect
<1> QED
  BY <1>2, <1>3, <1>4, <1>10, <1>11 DEF HandshakeInv

(* A transport that fails leaves the message that ends the connection. *)
LEMMA AsideEnd ==
  ASSUME NEW r, Shape(r), NEW m, m.kind = "end"
  PROVE  Aside(r, [r EXCEPT !.out.sent = <<m>>])
<1>1. PICK out : out = [r.out EXCEPT !.sent = <<m>>]
  OBVIOUS
<1>2. PICK x : x = [r EXCEPT !.out = out]
  OBVIOUS
<1>3. /\ DOMAIN out = DOMAIN r.out /\ out.key = r.out.key /\ out.next = r.out.next
      /\ out.sendBuf = r.out.sendBuf /\ out.buffering = r.out.buffering /\ out.sent = <<m>>
  BY <1>1 DEF Shape
<1>4. Shape(x) /\ Same(r, x) /\ x.pc = r.pc /\ x.in = r.in /\ x.out = out
  BY <1>2, <1>3, SetOut DEF Shape
<1>5. ASSUME NEW e, NEW w, OutGood(e, r.out, w) PROVE OutGood(e, out, w)
  <2>1. PICK M : Written(r.out, M) /\ \A y \in M : Good(e, y.kind, y.body, w)
    BY <1>5 DEF OutGood
  <2>2. PICK N : N = M \cup {m}
    OBVIOUS
  <2>3. Written(r.out, N)
    BY <2>1, <2>2, WrittenMore
  <2>4. <<m>> \in Seq(N)
    BY <2>2
  <2>5. Written(out, N)
    BY <1>3, <2>3, <2>4 DEF Written
  <2>6. \A y \in N : Good(e, y.kind, y.body, w)
    BY <2>1, <2>2 DEF Good
  <2> QED
    BY <2>5, <2>6 DEF OutGood
<1>6. x = [r EXCEPT !.out.sent = <<m>>]
  BY <1>1, <1>2
<1>7. Aside(r, x)
  BY <1>3, <1>4, <1>5 DEF Aside
<1> QED
  BY <1>6, <1>7

(* A broken transport keeps the invariant. *)
LEMMA BreakInv ==
  ASSUME HandshakeInv, Break
  PROVE  HandshakeInv'
<1>1. PICK w : w = World
  OBVIOUS
<1>2. PICK v : v = World'
  OBVIOUS
<1>3. PICK m : m = [kind |-> "end", key |-> NoKey, body |-> <<>>]
  OBVIOUS
<1>4. m.kind = "end"
  BY <1>3
<1>5. /\ DOMAIN st' = Ends /\ v.c = [w.c EXCEPT !.out.sent = <<m>>] /\ v.s = [w.s EXCEPT !.out.sent = <<m>>]
      /\ v.cf = w.cf /\ v.n = w.n /\ v.pr = w.pr
  BY <1>1, <1>2, <1>3, WorldIs, WorldNext DEF Break, Ends
<1>6. Inv(w) /\ CacheInv(cache, w)
  BY <1>1 DEF HandshakeInv
<1>7. Aside(w.c, v.c) /\ Aside(w.s, v.s)
  BY <1>4, <1>5, <1>6, AsideEnd DEF Inv, FormInv
<1>8. /\ Shape(v.s) /\ CountInv(v) /\ ServerInv(v) /\ OutGood("server", v.s.out, v)
      /\ \A t : Settled(t, w) => Settled(t, v)
  BY <1>5, <1>6, <1>7, ClientFrame
<1>9. Shape(v.c) /\ ClientInv(v) /\ OutGood("client", v.c.out, v)
  BY <1>5, <1>6, <1>7, <1>8, ServerFrame
<1>10. LinkInv(v)
  <2>1. LinkInv(w)
    BY <1>6 DEF Inv
  <2>2. SameOffer(w.c, v.c) /\ SameHello(w.c, v.c) /\ SameKey(w.c, v.c) /\ SameEnd(w.c, v.c) /\ v.c.pc = w.c.pc
    BY <1>7 DEF Aside, Same
  <2>3. SameOffer(w.s, v.s) /\ SameHello(w.s, v.s) /\ SameKey(w.s, v.s) /\ SameEnd(w.s, v.s) /\ v.s.pc = w.s.pc
    BY <1>7 DEF Aside, Same
  <2>4. SealedBy(w.c.ticket, w.s) => SealedBy(w.c.ticket, v.s)
    BY <2>3 DEF SealedBy, SameHello, SameKey
  <2> QED
    BY <1>8, <2>1, <2>2, <2>3, <2>4 DEF LinkInv, SameOffer, SameHello, SameKey, SameEnd
<1>11. Inv(v)
  BY <1>8, <1>9, <1>10 DEF Inv, FormInv, MsgInv
<1>12. CacheInv(cache', v)
  BY <1>6, <1>8, CacheFrame DEF Break
<1> QED
  BY <1>2, <1>5, <1>11, <1>12 DEF HandshakeInv

-----------------------------------------------------------------------------
(* The client. *)

(* What the client has written stays good if its Finished, once sent, is not   *)
(* touched.                                                                    *)
LEMMA ClientWords ==
  ASSUME NEW w, NEW v, Inv(w), v.cf = w.cf, v.c.ch = w.c.ch, v.c.pc # "start",
         \/ w.c.pc \in ClientEarly
         \/ w.c.resumed /\ w.c.pc # "complete"
         \/ /\ w.c.pc # "complete" /\ v.c.pc \notin ClientEarly /\ SameHello(w.c, v.c)
            /\ v.c.clientFinished = w.c.clientFinished
  PROVE  OutGood("client", w.c.out, v)
<1>1. OutGood("client", w.c.out, w) /\ w.c.resumed \in BOOLEAN
  BY DEF Inv, MsgInv, ClientInv, ClientHelloInv
<1>2. ASSUME NEW kind, NEW body, Good("client", kind, body, w) PROVE Good("client", kind, body, v)
  <2>1. ClientMsg(kind, body, w) => ClientMsg(kind, body, v)
    BY <1>1 DEF ClientMsg, SameHello
  <2> QED
    BY <1>2, <2>1 DEF Good
<1> QED
  BY <1>1, <1>2, GoodStays

(* A step of the client before its flight, after the ServerHello, keeps the    *)
(* invariant.                                                                  *)
LEMMA EarlyCloses ==
  ASSUME HandshakeInv, UNCHANGED <<conn, cfg, proved, cache>>, NEW q,
         Goes("client", q) \/ (Reads("client", q) /\ Waiting("client")),
         st.client.pc \in {"certificate", "status", "verify", "skx", "certReq"},
         q.pc \in {"status", "verify", "skx", "certReq", "helloDone"},
         Shape(q), q.out = st.client.out,
         SameOffer(st.client, q), SameHello(st.client, q), SameEnd(st.client, q),
         q.skx \in BOOLEAN,
         q.skx => IsECDHE(q.suite) /\ q.curve = st.server.curve,
         ~q.skx => q.curve = "none",
         q.pc \in {"skx", "certReq", "helloDone"} =>
            (cfg.client.insecure \/ q.verified) /\ (cfg.client.verify # "nil" => q.saw = View(q))
  PROVE  HandshakeInv'
<1>1. PICK w : w = World
  OBVIOUS
<1>2. PICK v : v = World'
  OBVIOUS
<1>3. ClientGoes(q)
  BY ClientGoesOn
<1>4. ClientMoves(w, v, q)
  BY <1>1, <1>2, <1>3, ClientMovesIs
<1>5. w.c = st.client /\ w.s = st.server /\ w.cf = cfg /\ v.c = q
  BY <1>1, <1>4, WorldIs DEF ClientMoves
<1>6. /\ v.s.pc = w.s.pc /\ SameHello(w.s, v.s) /\ SameKey(w.s, v.s) /\ SameEnd(w.s, v.s) /\ SameOffer(w.s, v.s)
      /\ v.cf = w.cf /\ \A t : Settled(t, w) => Settled(t, v)
  BY <1>4 DEF ClientMoves, Same
<1>7. Inv(w) /\ w.c.pc \in ClientEarly /\ w.c.resumed = FALSE /\ w.c.sh # <<>>
  <2>1. Inv(w) /\ w.c.pc \in ClientEarly /\ w.c.pc \notin {"start", "serverHello", "failed", "closed"}
    BY <1>4, <1>5 DEF ClientMoves, ClientEarly
  <2> QED
    BY <2>1 DEF Inv, ClientInv, ClientHelloInv
<1>8. OutGood("client", q.out, v)
  <2>1. v.c.ch = w.c.ch /\ v.c.pc # "start"
    BY <1>5 DEF SameOffer
  <2> QED
    BY <1>5, <1>6, <1>7, <2>1, ClientWords
<1>9. OfferInv(v)
  <2>1. OfferInv(w)
    BY <1>7 DEF Inv, ClientInv
  <2> QED
    BY <1>5, <1>6, <2>1 DEF OfferInv, SameOffer
<1>10. ClientHelloInv(v)
  <2>1. ClientHelloInv(w)
    BY <1>7 DEF Inv, ClientInv
  <2> QED
    BY <1>5, <1>7, <2>1 DEF ClientHelloInv, SameHello, ClientDone
<1>11. ClientAuthInv(v)
  BY <1>5, <1>6 DEF ClientAuthInv, ClientDone
<1>12. ClientKeyInv(v)
  BY <1>5 DEF ClientKeyInv, ClientDone
<1>13. LinkInv(v)
  <2>1. LinkInv(w) /\ w.s.resumed \in BOOLEAN
    BY <1>7 DEF Inv, ServerInv, ServerHelloInv
  <2>2. w.s.pc # "complete"
    BY <1>7, <2>1 DEF LinkInv, ClientEarly
  <2>3. SealedBy(w.c.ticket, w.s) => SealedBy(w.c.ticket, v.s)
    BY <1>6 DEF SealedBy, SameHello, SameKey
  <2>4. v.c.sh = w.c.sh /\ v.c.ticket = w.c.ticket /\ v.c.ch = w.c.ch /\ v.c.resumed = FALSE
    BY <1>5, <1>7 DEF SameHello, SameEnd, SameOffer
  <2>5. v.s.sh = w.s.sh /\ v.s.ch = w.s.ch /\ v.s.curve = w.s.curve
    BY <1>6 DEF SameHello, SameKey, SameOffer
  <2> QED
    BY <1>5, <1>6, <2>1, <2>2, <2>3, <2>4, <2>5 DEF LinkInv
<1>14. CacheInv(cache', v)
  BY <1>1, <1>6, CacheFrame DEF HandshakeInv
<1> QED
  BY <1>2, <1>3, <1>8, <1>9, <1>10, <1>11, <1>12, <1>13, <1>14, ClientCloses DEF ClientInv

(* What is known of a client between the ServerHello and its flight. *)
LEMMA EarlyState ==
  ASSUME HandshakeInv, st.client.pc \in {"certificate", "status", "verify", "skx", "certReq", "helloDone"}
  PROVE  /\ Shape(st.client) /\ OutGood("client", st.client.out, World)
         /\ st.client.skx \in BOOLEAN /\ st.client.resumed = FALSE
         /\ st.client.sh # <<>> /\ st.client.sh = st.server.sh
         /\ st.client.skx => IsECDHE(st.client.suite) /\ st.client.curve = st.server.curve
         /\ ~st.client.skx => st.client.curve = "none"
         /\ st.client.pc \in {"skx", "certReq", "helloDone"} =>
               /\ cfg.client.insecure \/ st.client.verified
               /\ cfg.client.verify # "nil" => st.client.saw = View(st.client)
<1>1. PICK w : w = World
  OBVIOUS
<1>2. Inv(w) /\ w.c = st.client /\ w.s = st.server /\ w.cf = cfg
  BY <1>1, WorldIs DEF HandshakeInv
<1>3. Shape(w.c) /\ OutGood("client", w.c.out, w) /\ LinkInv(w) /\ ClientHelloInv(w) /\ ClientAuthInv(w)
  BY <1>2 DEF Inv, FormInv, MsgInv, ClientInv
<1>4. w.c.skx \in BOOLEAN /\ w.c.resumed = FALSE /\ w.c.sh # <<>>
  BY <1>2, <1>3 DEF ClientHelloInv, ClientEarly
<1>5. /\ w.c.sh = w.s.sh
      /\ w.c.skx => IsECDHE(w.c.suite) /\ w.c.curve = w.s.curve
      /\ ~w.c.skx => w.c.curve = "none"
  BY <1>3, <1>4 DEF LinkInv
<1>6. w.c.pc \in {"skx", "certReq", "helloDone"} =>
               /\ w.cf.client.insecure \/ w.c.verified
               /\ w.cf.client.verify # "nil" => w.c.saw = View(w.c)
  BY <1>3 DEF ClientAuthInv
<1> QED
  BY <1>1, <1>2, <1>3, <1>4, <1>5, <1>6

(* A message, or none, that moves the client on and changes nothing else. *)
LEMMA EarlyMoves ==
  ASSUME HandshakeInv, UNCHANGED <<conn, cfg, proved, cache>>, NEW q,
         Goes("client", q) \/ (Reads("client", q) /\ Waiting("client")),
         Shape(q), Same(st.client, q), q.out = st.client.out,
         \/ st.client.pc \in {"certificate", "status"} /\ q.pc \in {"status", "verify"}
         \/ st.client.pc \in {"skx", "certReq"} /\ q.pc \in {"certReq", "helloDone"}
  PROVE  HandshakeInv'
<1>1. /\ SameOffer(st.client, q) /\ SameHello(st.client, q) /\ SameEnd(st.client, q)
      /\ SameKey(st.client, q) /\ SameAuth(st.client, q)
  BY DEF Same
<1>2. View(q) = View(st.client)
  BY <1>1, ViewSame DEF SameAuth
<1>3. /\ q.skx \in BOOLEAN
      /\ q.skx => IsECDHE(q.suite) /\ q.curve = st.server.curve
      /\ ~q.skx => q.curve = "none"
  BY <1>1, EarlyState DEF SameKey, SameHello
<1>4. q.pc \in {"skx", "certReq", "helloDone"} =>
         (cfg.client.insecure \/ q.verified) /\ (cfg.client.verify # "nil" => q.saw = View(q))
  BY <1>1, <1>2, EarlyState DEF SameAuth
<1>5. st.client.pc \in {"certificate", "status", "verify", "skx", "certReq"}
      /\ q.pc \in {"status", "verify", "skx", "certReq", "helloDone"}
  OBVIOUS
<1> QED
  BY <1>1, <1>3, <1>4, <1>5, EarlyCloses

(* The server's Certificate keeps the invariant. *)
LEMMA ServerCertificateInv ==
  ASSUME HandshakeInv, ServerCertificate, UNCHANGED <<conn, cfg, proved>>
  PROVE  HandshakeInv'
<1>1. CASE FailsAt("client", "certificate", "Certificate")
  BY <1>1, ClientFails DEF FailsAt
<1>2. CASE /\ st.client.pc = "certificate" /\ Sees("client", "Certificate")
           /\ Reads("client", [Heard(st.client, "Certificate") EXCEPT !.pc = "status"])
           /\ UNCHANGED cache
  <2>1. PICK h : h = Heard(st.client, "Certificate")
    OBVIOUS
  <2>2. PICK q : q = [h EXCEPT !.pc = "status"]
    OBVIOUS
  <2>3. Shape(st.client) /\ OutGood("client", st.client.out, World)
    BY <1>2, EarlyState
  <2>4. Shape(h) /\ Same(st.client, h) /\ h.out = st.client.out
    BY <2>1, <2>3, HeardSame
  <2>5. Shape(q) /\ Same(h, q) /\ q.pc = "status" /\ q.out = h.out
    BY <2>2, <2>4, SetPc
  <2>6. Same(st.client, q)
    BY <2>4, <2>5, SameTransitive
  <2>7. Reads("client", q) /\ Waiting("client")
    BY <1>2, <2>1, <2>2 DEF Sees
  <2>8. UNCHANGED <<conn, cfg, proved, cache>>
    BY <1>2
  <2> QED
    BY <1>2, <2>4, <2>5, <2>6, <2>7, <2>8, EarlyMoves
<1> QED
  BY <1>1, <1>2 DEF ServerCertificate

(* A message that may be missing. *)
LEMMA OptionalInv ==
  ASSUME HandshakeInv, UNCHANGED <<conn, cfg, proved>>, NEW pc, NEW kind, NEW ok, NEW r, NEW next,
         Optional(pc, kind, ok, r, next), Shape(r), r.out = st.client.out, r.pc = next,
         SameOffer(st.client, r), SameHello(st.client, r), SameEnd(st.client, r), SameAuth(st.client, r),
         Sees("client", kind) /\ ok =>
            /\ r.skx \in BOOLEAN
            /\ r.skx => IsECDHE(r.suite) /\ r.curve = st.server.curve
            /\ ~r.skx => r.curve = "none",
         \/ pc = "status" /\ next = "verify"
         \/ pc = "skx" /\ next = "certReq"
         \/ pc = "certReq" /\ next = "helloDone"
  PROVE  HandshakeInv'
<1>0. st.client.pc = pc /\ Waiting("client") /\ pc \in {"status", "skx", "certReq"}
  BY DEF Optional
<1>1. Shape(st.client) /\ OutGood("client", st.client.out, World)
  BY <1>0, EarlyState
<1>2. CASE Sees("client", kind) /\ ok /\ Reads("client", Heard(r, kind)) /\ UNCHANGED cache
  <2>1. PICK q : q = Heard(r, kind)
    OBVIOUS
  <2>2. Shape(q) /\ Same(r, q) /\ q.pc = r.pc /\ q.out = r.out
    BY <2>1, HeardSame
  <2>3. /\ SameOffer(st.client, q) /\ SameHello(st.client, q) /\ SameEnd(st.client, q) /\ SameAuth(st.client, q)
        /\ SameHello(r, q) /\ SameKey(r, q)
    BY <2>2 DEF Same, SameOffer, SameHello, SameEnd, SameAuth
  <2>4. /\ q.skx \in BOOLEAN
        /\ q.skx => IsECDHE(q.suite) /\ q.curve = st.server.curve
        /\ ~q.skx => q.curve = "none"
    BY <1>2, <2>3 DEF SameKey, SameHello
  <2>5. View(q) = View(st.client)
    BY <2>3, ViewSame DEF SameAuth
  <2>6. q.pc \in {"skx", "certReq", "helloDone"} =>
           (cfg.client.insecure \/ q.verified) /\ (cfg.client.verify # "nil" => q.saw = View(q))
    <3>1. q.pc \in {"skx", "certReq", "helloDone"} => st.client.pc \in {"skx", "certReq", "helloDone"}
      BY <1>0, <2>2
    <3> QED
      BY <1>0, <2>3, <2>5, <3>1, EarlyState DEF SameAuth
  <2>7. UNCHANGED <<conn, cfg, proved, cache>> /\ Reads("client", q)
    BY <1>2, <2>1
  <2>8. st.client.pc \in {"certificate", "status", "verify", "skx", "certReq"}
        /\ q.pc \in {"status", "verify", "skx", "certReq", "helloDone"}
    BY <1>0, <2>2
  <2> QED
    BY <1>0, <2>2, <2>3, <2>4, <2>6, <2>7, <2>8, EarlyCloses
<1>3. CASE UNCHANGED cache /\ Goes("client", [st.client EXCEPT !.pc = next])
  <2>1. PICK q : q = [st.client EXCEPT !.pc = next]
    OBVIOUS
  <2>2. Shape(q) /\ Same(st.client, q) /\ q.pc = next /\ q.out = st.client.out
    BY <1>1, <2>1, SetPc
  <2>3. UNCHANGED <<conn, cfg, proved, cache>> /\ Goes("client", q)
    BY <1>3, <2>1
  <2> QED
    BY <1>0, <2>2, <2>3, EarlyMoves
<1>4. CASE Fails("client")
  BY <1>0, <1>4, ClientFails
<1> QED
  BY <1>2, <1>3, <1>4 DEF Optional

(* CertificateStatus, sent or not, keeps the invariant. *)
LEMMA CertificateStatusInv ==
  ASSUME HandshakeInv, CertificateStatus, UNCHANGED <<conn, cfg, proved>>
  PROVE  HandshakeInv'
<1>1. PICK r : r = [st.client EXCEPT !.pc = "verify"]
  OBVIOUS
<1>2. Optional("status", "CertificateStatus", st.client.sh.ocsp, r, "verify")
  BY <1>1 DEF CertificateStatus
<1>3. st.client.pc = "status"
  BY <1>2 DEF Optional
<1>4. Shape(r) /\ Same(st.client, r) /\ r.pc = "verify" /\ r.out = st.client.out
  BY <1>1, <1>3, EarlyState, SetPc
<1>5. /\ SameOffer(st.client, r) /\ SameHello(st.client, r) /\ SameEnd(st.client, r) /\ SameAuth(st.client, r)
      /\ SameKey(st.client, r)
  BY <1>4 DEF Same
<1>6. /\ r.skx \in BOOLEAN
      /\ r.skx => IsECDHE(r.suite) /\ r.curve = st.server.curve
      /\ ~r.skx => r.curve = "none"
  BY <1>3, <1>5, EarlyState DEF SameKey, SameHello
<1> QED
  BY <1>2, <1>4, <1>5, <1>6, OptionalInv

(* CertificateRequest, sent or not, keeps the invariant. *)
LEMMA CertificateRequestInv ==
  ASSUME HandshakeInv, CertificateRequest, UNCHANGED <<conn, cfg, proved>>
  PROVE  HandshakeInv'
<1>1. PICK r : r = [st.client EXCEPT !.pc = "helloDone", !.certRequested = TRUE]
  OBVIOUS
<1>2. Optional("certReq", "CertificateRequest", TRUE, r, "helloDone")
  BY <1>1 DEF CertificateRequest
<1>3. st.client.pc = "certReq" /\ Shape(st.client)
  BY <1>2, EarlyState DEF Optional
<1>4. /\ Shape(r) /\ r.pc = "helloDone" /\ r.out = st.client.out /\ SameOffer(st.client, r)
      /\ SameHello(st.client, r)
  BY <1>1, <1>3 DEF Shape, Fields, SameOffer, SameHello
<1>5. SameEnd(st.client, r) /\ SameAuth(st.client, r) /\ SameKey(st.client, r)
  BY <1>1, <1>3 DEF Shape, Fields, SameEnd, SameAuth, SameKey
<1>6. /\ r.skx \in BOOLEAN
      /\ r.skx => IsECDHE(r.suite) /\ r.curve = st.server.curve
      /\ ~r.skx => r.curve = "none"
  BY <1>3, <1>4, <1>5, EarlyState DEF SameKey, SameHello
<1> QED
  BY <1>2, <1>4, <1>5, <1>6, OptionalInv

(* ServerKeyExchange keeps the invariant: its curve is the server's. *)
LEMMA ServerKeyExchangeInv ==
  ASSUME HandshakeInv, ServerKeyExchange, UNCHANGED <<conn, cfg, proved>>
  PROVE  HandshakeInv'
<1>0. PICK curve : curve = Msg("client").body
  OBVIOUS
<1>1. PICK r : r = [st.client EXCEPT !.pc = "certReq", !.skx = TRUE, !.curve = curve]
  OBVIOUS
<1> DEFINE ok == IsECDHE(st.client.suite) /\ curve \in st.client.ch.curves
<1>2. Optional("skx", "ServerKeyExchange", ok, r, "certReq")
  BY <1>0, <1>1 DEF ServerKeyExchange
<1>3. st.client.pc = "skx" /\ Shape(st.client)
  BY <1>2, EarlyState DEF Optional
<1>4. /\ Shape(r) /\ r.pc = "certReq" /\ r.out = st.client.out /\ SameOffer(st.client, r)
      /\ SameHello(st.client, r) /\ r.skx = TRUE /\ r.curve = curve
  BY <1>1, <1>3 DEF Shape, Fields, SameOffer, SameHello
<1>5. SameEnd(st.client, r) /\ SameAuth(st.client, r)
  BY <1>1, <1>3 DEF Shape, Fields, SameEnd, SameAuth
<1>6. ASSUME Sees("client", "ServerKeyExchange") /\ ok
      PROVE  r.skx \in BOOLEAN /\ IsECDHE(r.suite) /\ r.curve = st.server.curve
  <2>1. Good("server", "ServerKeyExchange", curve, World)
    BY <1>0, <1>6, MsgGood DEF Sees
  <2>2. curve = st.server.curve
    BY <2>1, WorldIs DEF Good, ServerMsg
  <2> QED
    BY <1>4, <1>6, <2>2 DEF SameHello
<1> HIDE DEF ok
<1>7. Sees("client", "ServerKeyExchange") /\ ok =>
            /\ r.skx \in BOOLEAN
            /\ r.skx => IsECDHE(r.suite) /\ r.curve = st.server.curve
            /\ ~r.skx => r.curve = "none"
  BY <1>4, <1>6
<1> QED
  BY <1>2, <1>4, <1>5, <1>7, OptionalInv

(* VerifyConnection, if it is set, sees the connection as it is; it changes    *)
(* nothing else.                                                               *)
LEMMA VerifyIs ==
  ASSUME NEW e, NEW r, Shape(r)
  PROVE  LET q == VerifyConnection(e, r) IN
         /\ Shape(q) /\ q.pc = r.pc /\ q.in = r.in /\ q.out = r.out /\ q.th = r.th
         /\ SameOffer(r, q) /\ SameHello(r, q) /\ SameKey(r, q) /\ SameEnd(r, q)
         /\ q.peerCert = r.peerCert /\ q.verified = r.verified
         /\ cfg[e].verify # "nil" => q.saw = View(q)
<1>1. CASE cfg[e].verify = "nil"
  <2>1. VerifyConnection(e, r) = r
    BY <1>1 DEF VerifyConnection
  <2> QED
    BY <1>1, <2>1 DEF SameOffer, SameHello, SameKey, SameEnd
<1>2. CASE cfg[e].verify # "nil"
  <2>1. PICK x : x = View(r)
    OBVIOUS
  <2>2. PICK q : q = [r EXCEPT !.saw = x]
    OBVIOUS
  <2>3. VerifyConnection(e, r) = q
    BY <1>2, <2>1, <2>2 DEF VerifyConnection
  <2>4. /\ Shape(q) /\ q.pc = r.pc /\ q.in = r.in /\ q.out = r.out /\ SameOffer(r, q) /\ SameHello(r, q)
    BY <2>2 DEF Shape, Fields, SameOffer, SameHello
  <2>5. SameKey(r, q) /\ SameEnd(r, q) /\ q.peerCert = r.peerCert /\ q.verified = r.verified /\ q.saw = x /\ q.th = r.th
    BY <2>2 DEF Shape, Fields, SameKey, SameEnd
  <2>6. View(q) = View(r)
    BY <2>4, <2>5, ViewSame
  <2> QED
    BY <2>1, <2>3, <2>4, <2>5, <2>6
<1> QED
  BY <1>1, <1>2

(* verifyServerCertificate keeps the invariant: the server is verified, and    *)
(* seen.                                                                       *)
LEMMA VerifyServerCertificateInv ==
  ASSUME HandshakeInv, VerifyServerCertificate, UNCHANGED <<conn, cfg, proved>>
  PROVE  HandshakeInv'
<1>0. st.client.pc = "verify" /\ Waiting("client")
  BY DEF VerifyServerCertificate
<1>1. CASE Fails("client")
  BY <1>0, <1>1, ClientFails
<1>2. PICK b : b = (~cfg.client.insecure)
  OBVIOUS
<1>3. PICK r : r = [st.client EXCEPT !.pc = "skx", !.verified = b, !.peerCert = "server"]
  OBVIOUS
<1>4. PICK q : q = VerifyConnection("client", r)
  OBVIOUS
<1>5. CASE Goes("client", q) /\ UNCHANGED cache
  <2>1. Shape(st.client)
    BY <1>0, EarlyState
  <2>2. /\ Shape(r) /\ r.pc = "skx" /\ r.out = st.client.out /\ SameOffer(st.client, r)
        /\ SameHello(st.client, r) /\ r.verified = b
    BY <1>3, <2>1 DEF Shape, Fields, SameOffer, SameHello
  <2>3. SameEnd(st.client, r) /\ SameKey(st.client, r)
    BY <1>3, <2>1 DEF Shape, Fields, SameEnd, SameKey
  <2>4. /\ Shape(q) /\ q.pc = r.pc /\ q.out = r.out
        /\ SameOffer(r, q) /\ SameHello(r, q) /\ SameKey(r, q) /\ SameEnd(r, q)
        /\ q.verified = r.verified /\ (cfg["client"].verify # "nil" => q.saw = View(q))
    BY <1>4, <2>2, VerifyIs
  <2>5. SameOffer(st.client, q) /\ SameHello(st.client, q) /\ SameKey(st.client, q) /\ SameEnd(st.client, q)
    BY <2>2, <2>3, <2>4 DEF SameOffer, SameHello, SameKey, SameEnd
  <2>6. /\ q.skx \in BOOLEAN
        /\ q.skx => IsECDHE(q.suite) /\ q.curve = st.server.curve
        /\ ~q.skx => q.curve = "none"
    BY <1>0, <2>5, EarlyState DEF SameKey, SameHello
  <2>7. cfg.client.insecure \/ q.verified
    <3>1. q.verified = (~cfg.client.insecure)
      BY <1>2, <2>2, <2>4
    <3> QED
      BY <3>1
  <2>8. UNCHANGED <<conn, cfg, proved, cache>>
    BY <1>5
  <2>9. /\ st.client.pc \in {"certificate", "status", "verify", "skx", "certReq"}
        /\ q.pc \in {"status", "verify", "skx", "certReq", "helloDone"} /\ q.out = st.client.out
    BY <1>0, <2>2, <2>4
  <2> QED
    BY <1>5, <2>4, <2>5, <2>6, <2>7, <2>8, <2>9, EarlyCloses
<1>6. Fails("client") \/ (Goes("client", q) /\ UNCHANGED cache)
  BY <1>2, <1>3, <1>4 DEF VerifyServerCertificate
<1> QED
  BY <1>1, <1>5, <1>6

(* The ClientHello keeps the invariant: the ticket it offers is settled. *)
LEMMA ClientHelloStep ==
  ASSUME HandshakeInv, NEW expired \in BOOLEAN, ClientHello(expired), UNCHANGED <<conn, cfg, proved>>
  PROVE  HandshakeInv'
<1>1. PICK session : session = (IF Offers(cfg.client) /\ ~expired THEN cache ELSE NoSession)
  OBVIOUS
<1>2. PICK hello : hello = [versions |-> cfg.client.versions, curves |-> cfg.client.curves,
                            protos |-> cfg.client.protos, ems |-> cfg.client.ems,
                  suites |-> {s \in cfg.client.suites : IsTLS12(s) => Max(cfg.client.versions) >= 12},
                  ticketSupported |-> cfg.client.tickets,
                  ticket |-> IF session = NoSession THEN NoSession ELSE session.ticket]
  OBVIOUS
<1>3. PICK r : r = [st.client EXCEPT !.pc = "serverHello", !.ch = hello, !.session = session]
  OBVIOUS
<1>4. PICK q : q = Write(r, "ClientHello", hello)
  OBVIOUS
<1>5. st.client.pc = "start" /\ Goes("client", q) /\ (cache' = cache \/ cache' = NoSession)
  BY <1>1, <1>2, <1>3, <1>4 DEF ClientHello
<1>6. hello.ticket = IF session = NoSession THEN NoSession ELSE session.ticket
  BY <1>2
<1>7. PICK w : w = World
  OBVIOUS
<1>8. PICK v : v = World'
  OBVIOUS
<1>9. ClientGoes(q)
  BY <1>5, ClientGoesOn
<1>10. ClientMoves(w, v, q)
  BY <1>7, <1>8, <1>9, ClientMovesIs
<1>11. w.c = st.client /\ w.s = st.server /\ w.cf = cfg /\ v.c = q /\ Inv(w) /\ CacheInv(cache, w) /\ Shape(w.c)
  BY <1>7, <1>10, WorldIs DEF ClientMoves, HandshakeInv, Inv, FormInv
<1>12. /\ Shape(r) /\ r.pc = "serverHello" /\ r.ch = hello /\ r.session = session /\ r.out = w.c.out
       /\ SameHello(w.c, r)
  BY <1>3, <1>11 DEF Shape, Fields, SameHello
<1>13. SameKey(w.c, r) /\ SameEnd(w.c, r)
  BY <1>3, <1>11 DEF Shape, Fields, SameKey, SameEnd
<1>14. /\ w.c.sh = <<>> /\ w.c.resumed = FALSE /\ w.c.skx = FALSE /\ w.c.curve = "none" /\ w.c.ticket = NoSession
  BY <1>5, <1>11 DEF Inv, ClientInv, ClientHelloInv
<1>15. OutGood("client", r.out, w) /\ Good("client", "end", hello, w)
  BY <1>11, <1>12 DEF Inv, MsgInv, Good
<1>16. PICK x : x = Write(r, "end", hello)
  OBVIOUS
<1>17. Shape(q) /\ Same(r, q) /\ q.pc = r.pc
  <2>1. PICK out : out = Put(r.out, "ClientHello", hello)
    OBVIOUS
  <2>2. DOMAIN r.out = {"key", "next", "buffering", "sendBuf", "sent"}
    BY <1>12 DEF Shape
  <2>3. DOMAIN out = {"key", "next", "buffering", "sendBuf", "sent"}
    BY <2>1, <2>2 DEF Put
  <2>4. q = [r EXCEPT !.out = out]
    BY <1>4, <2>1 DEF Write
  <2> QED
    BY <1>12, <2>3, <2>4, SetOut
<1>18. /\ q.pc = "serverHello" /\ q.ch = hello /\ q.session = session /\ q.ticket = NoSession
       /\ q.sh = <<>> /\ q.resumed = FALSE /\ q.skx = FALSE /\ q.curve = "none"
  BY <1>12, <1>13, <1>14, <1>17 DEF Same, SameOffer, SameHello, SameKey, SameEnd
<1>19. /\ v.s.pc = w.s.pc /\ SameHello(w.s, v.s) /\ v.cf = w.cf /\ \A t : Settled(t, w) => Settled(t, v)
  BY <1>10 DEF ClientMoves, Same
<1>20. OutGood("client", q.out, v)
  <2>1. ASSUME NEW kind, NEW body, Good("client", kind, body, w) PROVE Good("client", kind, body, v)
    BY <1>5, <1>11, <2>1 DEF Good, ClientMsg
  <2>2. OutGood("client", r.out, v)
    BY <1>15, <2>1, GoodStays
  <2>3. Good("client", "ClientHello", hello, v)
    BY <1>11, <1>18 DEF Good, ClientMsg
  <2> QED
    BY <1>4, <1>12, <2>2, <2>3, WriteIs DEF Kept
<1>21. OfferInv(v)
  <2>1. session # NoSession =>
           Matches(session) /\ Settled(session.ticket, v) /\ (cfg.client.insecure \/ session.verified)
    BY <1>1, <1>11, <1>19 DEF CacheInv, Offers
  <2> QED
    BY <1>6, <1>11, <1>18, <1>19, <2>1 DEF OfferInv
<1>22. ClientHelloInv(v)
  BY <1>11, <1>18 DEF ClientHelloInv, ClientDone
<1>23. ClientAuthInv(v) /\ ClientKeyInv(v)
  BY <1>11, <1>18 DEF ClientAuthInv, ClientKeyInv, ClientDone
<1>24. LinkInv(v)
  <2>1. LinkInv(w) /\ ServerHelloInv(w)
    BY <1>11 DEF Inv, ServerInv
  <2>2. w.s.sh = <<>>
    BY <1>5, <1>11, <2>1 DEF LinkInv
  <2>3. v.s.sh = <<>> /\ v.s.pc # "complete"
    BY <1>19, <2>1, <2>2 DEF SameHello, ServerHelloInv
  <2> QED
    BY <1>11, <1>18, <2>3 DEF LinkInv
<1>25. CacheInv(cache', v)
  BY <1>5, <1>11, <1>19, CacheFrame DEF CacheInv
<1> QED
  BY <1>8, <1>9, <1>17, <1>20, <1>21, <1>22, <1>23, <1>24, <1>25, ClientCloses DEF ClientInv

(* The ServerHello that the client accepts is that of the server. *)
LEMMA ServerHelloStep ==
  ASSUME HandshakeInv, ServerHello, UNCHANGED <<conn, cfg, proved>>
  PROVE  HandshakeInv'
<1>0. st.client.pc = "serverHello" /\ Waiting("client")
  BY DEF ServerHello
<1>1. PICK sh : sh = Msg("client").body
  OBVIOUS
<1>2. PICK r : r = Buffer([st.client EXCEPT
                    !.vers = sh.vers, !.suite = sh.suite, !.proto = sh.proto, !.sh = sh,
                    !.th = <<"ClientHello", "ServerHello">>, !.pc = "certificate"])
  OBVIOUS
<1>3. PICK y : y = [EstablishKeys("client", Restored(r)) EXCEPT !.pc = TicketOrCCS(r)]
  OBVIOUS
<1>4. \/ Fails("client")
      \/ /\ Sees("client", "ServerHello") /\ ServerHelloOK(st.client, sh) /\ UNCHANGED cache
         /\ \/ ~sh.echo /\ Reads("client", r)
            \/ sh.echo /\ Reads("client", y)
  BY <1>1, <1>2, <1>3 DEF ServerHello
<1>5. CASE Fails("client")
  BY <1>0, <1>5, ClientFails
<1>6. ASSUME Sees("client", "ServerHello"), ServerHelloOK(st.client, sh), UNCHANGED cache,
             \/ ~sh.echo /\ Reads("client", r)
             \/ sh.echo /\ Reads("client", y)
      PROVE  HandshakeInv'
  <2>1. PICK w : w = World
    OBVIOUS
  <2>2. PICK v : v = World'
    OBVIOUS
  <2>3. /\ w.c = st.client /\ w.s = st.server /\ w.cf = cfg /\ Inv(w) /\ CacheInv(cache, w) /\ Shape(w.c)
        /\ OutGood("client", w.c.out, w)
    BY <2>1, WorldIs DEF HandshakeInv, Inv, FormInv, MsgInv
  <2>4. Good("server", "ServerHello", sh, w)
    BY <1>1, <1>6, <2>1, MsgGood DEF Sees
  <2>5. sh = w.s.sh /\ w.s.sh # <<>> /\ sh.echo = w.s.resumed /\ w.s.resumed \in BOOLEAN
    BY <2>3, <2>4 DEF Good, ServerMsg, Inv, ServerInv, ServerHelloInv
  <2>6. PICK a : a = [st.client EXCEPT
                    !.vers = sh.vers, !.suite = sh.suite, !.proto = sh.proto, !.sh = sh,
                    !.th = <<"ClientHello", "ServerHello">>, !.pc = "certificate"]
    OBVIOUS
  <2>7. /\ Shape(a) /\ a.pc = "certificate" /\ a.sh = sh /\ a.vers = sh.vers /\ a.suite = sh.suite /\ a.proto = sh.proto
        /\ a.resumed = w.c.resumed /\ SameOffer(w.c, a) /\ a.out = w.c.out
    BY <2>3, <2>6 DEF Shape, Fields, SameOffer
  <2>8. SameKey(w.c, a) /\ SameEnd(w.c, a)
    BY <2>3, <2>6 DEF Shape, Fields, SameKey, SameEnd
  <2>9. ASSUME NEW z, OutGood("client", w.c.out, z)
        PROVE  Kept("client", a, r, z)
    BY <1>2, <2>6, <2>7, <2>9, BufferIs
  <2>10. /\ Shape(r) /\ r.pc = "certificate" /\ r.sh = sh /\ r.vers = sh.vers /\ r.suite = sh.suite /\ r.proto = sh.proto
         /\ r.resumed = w.c.resumed /\ SameOffer(w.c, r) /\ SameKey(w.c, r) /\ SameEnd(w.c, r)
    <3>1. Kept("client", a, r, w)
      BY <2>3, <2>9
    <3> QED
      BY <2>7, <2>8, <3>1 DEF Kept, Same, SameOffer, SameHello, SameKey, SameEnd
  <2>11. /\ w.c.resumed = FALSE /\ w.c.skx = FALSE /\ w.c.curve = "none" /\ w.c.ticket = NoSession
         /\ w.c.pc \in ClientEarly /\ w.c.pc = "serverHello" /\ w.c.sh = <<>>
    BY <1>0, <2>3 DEF Inv, ClientInv, ClientHelloInv, ClientEarly
  <2>12. LinkInv(w) /\ OfferInv(w)
    BY <2>3 DEF Inv, ClientInv
  <2>13. w.s.pc # "complete"
    BY <2>11, <2>12, <2>5 DEF LinkInv
  <2>14. ASSUME NEW q, q \in {r, y}, ClientMoves(w, v, q), q.pc \notin {"start", "serverHello", "failed", "closed", "complete"},
                Shape(q), SameOffer(w.c, q), SameEnd(w.c, q), q.sh = sh, q.resumed \in BOOLEAN,
                ~q.resumed => q.skx = FALSE /\ q.curve = "none"
         PROVE  LinkInv(v) /\ OfferInv(v) /\ CacheInv(cache', v)
    <3>1. /\ v.c = q /\ v.s.pc = w.s.pc /\ SameHello(w.s, v.s) /\ SameOffer(w.s, v.s) /\ v.cf = w.cf
          /\ \A t : Settled(t, w) => Settled(t, v)
      BY <2>14 DEF ClientMoves, Same
    <3>2. LinkInv(v)
      BY <2>5, <2>11, <2>12, <2>13, <2>14, <3>1 DEF LinkInv, SameHello, SameOffer, SameEnd
    <3>3. OfferInv(v)
      BY <2>11, <2>12, <2>14, <3>1 DEF OfferInv, SameOffer
    <3>4. CacheInv(cache', v)
      BY <1>6, <2>3, <3>1, CacheFrame
    <3> QED
      BY <3>2, <3>3, <3>4
  <2>15. CASE ~sh.echo /\ Reads("client", r)
    <3>1. ClientGoes(r)
      BY <1>0, <2>15, ClientGoesOn
    <3>2. ClientMoves(w, v, r) /\ v.c = r /\ v.cf = w.cf
      BY <2>1, <2>2, <3>1, ClientMovesIs DEF ClientMoves
    <3>3. sh.echo = FALSE /\ r.resumed = FALSE /\ r.skx = FALSE /\ r.curve = "none"
      BY <2>5, <2>10, <2>11, <2>15 DEF SameKey
    <3>4. LinkInv(v) /\ OfferInv(v) /\ CacheInv(cache', v)
      BY <2>10, <2>14, <3>2, <3>3
    <3>5. OutGood("client", w.c.out, v)
      <4>1. v.c.ch = w.c.ch /\ v.c.pc # "start"
        BY <2>10, <3>2 DEF SameOffer
      <4> QED
        BY <2>3, <2>11, <3>2, <4>1, ClientWords
    <3>6. OutGood("client", r.out, v)
      BY <2>9, <3>5 DEF Kept
    <3>7. ClientHelloInv(v)
      BY <2>5, <2>10, <3>2, <3>3 DEF ClientHelloInv, ClientDone
    <3>8. ClientAuthInv(v) /\ ClientKeyInv(v)
      BY <2>10, <3>2 DEF ClientAuthInv, ClientKeyInv, ClientDone
    <3> QED
      BY <2>2, <2>10, <3>1, <3>4, <3>6, <3>7, <3>8, ClientCloses DEF ClientInv
  <2>16. CASE sh.echo /\ Reads("client", y)
    <3>1. ClientGoes(y)
      BY <1>0, <2>16, ClientGoesOn
    <3>2. ClientMoves(w, v, y) /\ v.c = y /\ v.cf = w.cf
      BY <2>1, <2>2, <3>1, ClientMovesIs DEF ClientMoves
    <3>3. sh.echo = TRUE /\ w.c.session # NoSession
      BY <1>6, <2>3, <2>5, <2>16 DEF ServerHelloOK
    <3>4. PICK b : b = Restored(r)
      OBVIOUS
    <3>5. /\ Shape(b) /\ SameOffer(w.c, b) /\ SameEnd(w.c, b) /\ b.sh = sh /\ b.vers = sh.vers /\ b.suite = sh.suite
          /\ b.proto = sh.proto /\ b.resumed = TRUE /\ b.out = r.out
      BY <2>10, <3>4 DEF Restored, Shape, Fields, SameOffer, SameEnd
    <3>6. /\ b.ems = w.c.session.ems /\ b.verified = w.c.session.verified /\ b.curve = w.c.session.curve
      BY <2>10, <3>4 DEF Restored, Shape, Fields, SameOffer
    <3>7. PICK d : d = EstablishKeys("client", b)
      OBVIOUS
    <3>8. ASSUME NEW z, OutGood("client", w.c.out, z)
          PROVE  /\ Shape(d) /\ Same(b, d) /\ OutGood("client", d.out, z)
                 /\ d.in.next = KeyOf(b, "server") /\ d.out.next = KeyOf(b, "client")
      <4>1. OutGood("client", b.out, z)
        BY <2>9, <3>5, <3>8 DEF Kept
      <4>2. /\ Shape(d) /\ Same(b, d) /\ OutGood("client", d.out, z)
            /\ d.in.next = [secret |-> b.master, by |-> Peer("client")]
            /\ d.out.next = [secret |-> b.master, by |-> "client"]
        BY <3>5, <3>7, <4>1, EstablishIs
      <4> QED
        BY <4>2 DEF KeyOf, Peer
    <3>9. y = [d EXCEPT !.pc = TicketOrCCS(r)] /\ TicketOrCCS(r) \in {"ticket", "ccs"}
      BY <1>3, <3>4, <3>7 DEF TicketOrCCS
    <3>10. /\ Shape(d) /\ Same(b, d) /\ d.in.next = KeyOf(b, "server") /\ d.out.next = KeyOf(b, "client")
      BY <2>3, <3>8
    <3>11. Shape(y) /\ Same(d, y) /\ y.pc \in {"ticket", "ccs"} /\ y.in = d.in /\ y.out = d.out
      BY <3>9, <3>10, SetPc
    <3>12. Same(b, y)
      BY <3>10, <3>11, SameTransitive
    <3>13. /\ SameOffer(w.c, y) /\ SameEnd(w.c, y) /\ y.sh = sh /\ y.vers = sh.vers /\ y.suite = sh.suite
           /\ y.proto = sh.proto /\ y.resumed = TRUE
      BY <3>5, <3>12 DEF Same, SameOffer, SameEnd, SameHello
    <3>14. /\ y.ems = w.c.session.ems /\ y.verified = w.c.session.verified /\ y.curve = w.c.session.curve
           /\ y.skx = b.skx /\ y.master = b.master
      BY <3>6, <3>12 DEF Same, SameKey, SameAuth
    <3>15. y.skx = FALSE
      <4>1. b.skx = r.skx
        BY <2>10, <3>4 DEF Restored, Shape, Fields
      <4> QED
        BY <2>10, <2>11, <3>14, <4>1 DEF SameKey
    <3>16. LinkInv(v) /\ OfferInv(v) /\ CacheInv(cache', v)
      BY <2>14, <3>2, <3>11, <3>13
    <3>17. OutGood("client", w.c.out, v)
      <4>1. v.c.ch = w.c.ch /\ v.c.pc # "start"
        BY <3>2, <3>11, <3>13 DEF SameOffer
      <4> QED
        BY <2>3, <2>11, <3>2, <4>1, ClientWords
    <3>18. OutGood("client", y.out, v)
      BY <3>8, <3>11, <3>17
    <3>19. ClientHelloInv(v)
      BY <2>5, <3>2, <3>3, <3>11, <3>13, <3>14, <3>15 DEF ClientHelloInv, ClientDone, ClientEarly, SameOffer
    <3>20. ClientAuthInv(v)
      <4>1. w.cf.client.insecure \/ w.c.session.verified
        BY <2>12, <3>3 DEF OfferInv
      <4>2. v.cf.client.insecure \/ v.c.verified
        BY <3>2, <3>14, <4>1
      <4> QED
        BY <3>2, <3>11, <3>13, <4>2 DEF ClientAuthInv
    <3>21. ClientKeyInv(v)
      <4>1. KeyOf(y, "server") = KeyOf(b, "server") /\ KeyOf(y, "client") = KeyOf(b, "client")
        BY <3>14 DEF KeyOf
      <4> QED
        BY <3>2, <3>10, <3>11, <3>13, <4>1 DEF ClientKeyInv
    <3> QED
      BY <2>2, <3>1, <3>11, <3>16, <3>18, <3>19, <3>20, <3>21, ClientCloses DEF ClientInv
  <2> QED
    BY <1>6, <2>15, <2>16
<1> QED
  BY <1>4, <1>5, <1>6

(* What the client has behind CertificateVerify. *)
LEMMA FlightKeyedIs ==
  ASSUME NEW r, NEW z, Shape(r), OutGood("client", r.out, z), z.cf = cfg, z.c.pc # "start"
  PROVE  LET q == FlightKeyed(r) IN
         /\ Shape(q) /\ SameOffer(r, q) /\ SameHello(r, q) /\ SameAuth(r, q) /\ SameEnd(r, q)
         /\ q.curve = r.curve /\ q.skx = r.skx /\ q.ems = r.sh.ems /\ OutGood("client", q.out, z)
         /\ q.in.next = KeyOf(q, "server") /\ q.out.next = KeyOf(q, "client")
<1>1. PICK cert : cert = cfg.client.cert
  OBVIOUS
<1>2. PICK r1 : r1 = SaysIf(r.certRequested, r, "Certificate", cert)
  OBVIOUS
<1>3. Kept("client", r, r1, z)
  <2>1. Good("client", "Certificate", cert, z)
    BY <1>1 DEF Good, ClientMsg
  <2> QED
    BY <1>2, <2>1, SaysIfIs
<1>4. PICK r2 : r2 = Says(r1, "ClientKeyExchange", <<>>)
  OBVIOUS
<1>5. Kept("client", r1, r2, z)
  <2>1. Good("client", "ClientKeyExchange", <<>>, z)
    BY DEF Good, ClientMsg
  <2> QED
    BY <1>3, <1>4, <2>1, SaysIs DEF Kept
<1>6. Kept("client", r, r2, z)
  BY <1>3, <1>5, KeptTransitive
<1>7. PICK master : master = MasterSecret(r2.sh.ems, r2.th)
  OBVIOUS
<1>8. PICK r3 : r3 = [r2 EXCEPT !.ems = r2.sh.ems, !.master = master]
  OBVIOUS
<1>9. /\ Shape(r3) /\ SameOffer(r2, r3) /\ SameHello(r2, r3) /\ r3.out = r2.out /\ r3.in = r2.in
  BY <1>6, <1>8 DEF Kept, Shape, Fields, SameOffer, SameHello
<1>10. SameAuth(r2, r3) /\ SameEnd(r2, r3) /\ r3.curve = r2.curve /\ r3.skx = r2.skx /\ r3.ems = r2.sh.ems
  BY <1>6, <1>8 DEF Kept, Shape, Fields, SameAuth, SameEnd
<1>11. PICK r4 : r4 = SaysIf(r3.certRequested /\ cert # "none", r3, "CertificateVerify", r3.th)
  OBVIOUS
<1>12. Kept("client", r3, r4, z)
  <2>1. Good("client", "CertificateVerify", r3.th, z)
    BY DEF Good, ClientMsg
  <2>2. OutGood("client", r3.out, z)
    BY <1>6, <1>9 DEF Kept
  <2>3. PICK cond : cond = (r3.certRequested /\ cert # "none")
    OBVIOUS
  <2>4. r4 = SaysIf(cond, r3, "CertificateVerify", r3.th)
    BY <1>11, <2>3
  <2> QED
    BY <1>9, <2>1, <2>2, <2>4, SaysIfIs
<1>13. PICK q : q = EstablishKeys("client", r4)
  OBVIOUS
<1>14. /\ Shape(q) /\ Same(r4, q) /\ OutGood("client", q.out, z)
       /\ q.in.next = [secret |-> r4.master, by |-> Peer("client")]
       /\ q.out.next = [secret |-> r4.master, by |-> "client"]
  <2>1. Shape(r4) /\ OutGood("client", r4.out, z)
    BY <1>12 DEF Kept
  <2> QED
    BY <1>13, <2>1, EstablishIs
<1>15. Same(r, r2) /\ Same(r3, q)
  BY <1>6, <1>12, <1>14, SameTransitive DEF Kept
<1>16. q.in.next = KeyOf(q, "server") /\ q.out.next = KeyOf(q, "client")
  BY <1>14 DEF KeyOf, Peer, Same, SameKey
<1>17. SameOffer(r, q) /\ SameHello(r, q)
  BY <1>9, <1>15 DEF Same, SameOffer, SameHello
<1>18. SameAuth(r, q) /\ SameEnd(r, q)
  BY <1>10, <1>15 DEF Same, SameAuth, SameEnd
<1>19. q.curve = r.curve /\ q.skx = r.skx /\ q.ems = r.sh.ems
  BY <1>10, <1>15 DEF Same, SameKey, SameHello
<1>20. FlightKeyed(r) = q
  BY <1>1, <1>2, <1>4, <1>7, <1>8, <1>11, <1>13 DEF FlightKeyed
<1> QED
  BY <1>14, <1>16, <1>17, <1>18, <1>19, <1>20

(* The stage behind the client's flight. *)
LEMMA TicketOrCCSIs == \A r : TicketOrCCS(r) \in {"ticket", "ccs"}
BY Zenon DEF TicketOrCCS

(* What the client has behind its Finished. *)
LEMMA FlightIs ==
  ASSUME NEW r, NEW z, Shape(r), OutGood("client", r.out, z), z.cf = cfg,
         z.c.pc \notin ClientEarly, z.c.sh # <<>>, z.c.resumed = FALSE,
         z.c.clientFinished = Finish("client", FlightKeyed(r))
  PROVE  LET q == ClientFlight(r) IN
         /\ Shape(q) /\ SameOffer(r, q) /\ SameHello(r, q) /\ SameAuth(r, q) /\ q.ticket = r.ticket
         /\ q.curve = r.curve /\ q.skx = r.skx /\ q.ems = r.sh.ems /\ OutGood("client", q.out, z)
         /\ q.in.next = KeyOf(q, "server") /\ q.out.key = KeyOf(q, "client") /\ Clean(q.out)
         /\ q.pc \in {"ticket", "ccs"} /\ q.clientFinishedIsFirst = TRUE
         /\ q.clientFinished = Finish("client", FlightKeyed(r))
<1>1. PICK r5 : r5 = FlightKeyed(r)
  OBVIOUS
<1>2. PICK fin : fin = Finish("client", r5)
  OBVIOUS
<1>3. PICK pc : pc = TicketOrCCS(r5)
  OBVIOUS
<1>4. /\ Shape(r5) /\ SameOffer(r, r5) /\ SameHello(r, r5) /\ SameAuth(r, r5) /\ SameEnd(r, r5)
      /\ r5.curve = r.curve /\ r5.skx = r.skx /\ r5.ems = r.sh.ems /\ OutGood("client", r5.out, z)
      /\ r5.in.next = KeyOf(r5, "server") /\ r5.out.next = KeyOf(r5, "client")
  BY <1>1, FlightKeyedIs DEF ClientEarly
<1>5. PICK a : a = SendFinished("client", r5)
  OBVIOUS
<1>6. Kept("client", r5, a, z) /\ a.out.key = r5.out.next /\ Flushable(a.out)
  <2>1. Good("client", "ChangeCipherSpec", <<>>, z)
    BY DEF Good, ClientMsg, ClientEarly
  <2>2. Good("client", "Finished", Finish("client", r5), z)
    BY <1>1 DEF Good, ClientMsg, ClientEarly
  <2> QED
    BY <1>4, <1>5, <2>1, <2>2, SendFinishedIs
<1>7. PICK b : b = Flush(a)
  OBVIOUS
<1>8. Kept("client", a, b, z) /\ b.out.key = a.out.key /\ Clean(b.out)
  <2>1. Shape(a) /\ OutGood("client", a.out, z)
    BY <1>6 DEF Kept
  <2> QED
    BY <1>6, <1>7, <2>1, FlushIs
<1>9. Kept("client", r5, b, z)
  BY <1>6, <1>8, KeptTransitive
<1>10. PICK q : q = [b EXCEPT !.clientFinished = fin, !.clientFinishedIsFirst = TRUE, !.pc = pc]
  OBVIOUS
<1>11. /\ Shape(q) /\ SameOffer(b, q) /\ SameHello(b, q) /\ q.out = b.out /\ q.in = b.in
       /\ q.clientFinishedIsFirst = TRUE /\ q.clientFinished = fin /\ q.pc = pc /\ q.ticket = b.ticket
  BY <1>9, <1>10 DEF Kept, Shape, Fields, SameOffer, SameHello
<1>12. SameAuth(b, q) /\ SameKey(b, q)
  BY <1>9, <1>10 DEF Kept, Shape, Fields, SameAuth, SameKey
<1>13. /\ SameOffer(r5, b) /\ SameHello(r5, b) /\ SameAuth(r5, b) /\ SameKey(r5, b) /\ SameEnd(r5, b)
       /\ b.in = r5.in
  BY <1>9 DEF Kept, Same
<1>14. SameOffer(r, q) /\ SameHello(r, q) /\ SameAuth(r, q) /\ q.ticket = r.ticket
  BY <1>4, <1>11, <1>12, <1>13 DEF SameOffer, SameHello, SameAuth, SameEnd
<1>15. q.curve = r.curve /\ q.skx = r.skx /\ q.ems = r.sh.ems /\ q.master = r5.master
  BY <1>4, <1>12, <1>13 DEF SameKey
<1>16. q.in.next = KeyOf(q, "server") /\ q.out.key = KeyOf(q, "client")
  <2>1. q.in.next = KeyOf(r5, "server") /\ q.out.key = KeyOf(r5, "client")
    BY <1>4, <1>6, <1>8, <1>11, <1>13
  <2> QED
    BY <1>15, <2>1 DEF KeyOf
<1>17. q.pc \in {"ticket", "ccs"}
  BY <1>3, <1>11, TicketOrCCSIs
<1>18. ClientFlight(r) = q
  BY <1>1, <1>2, <1>3, <1>5, <1>7, <1>10 DEF ClientFlight
<1> QED
  BY <1>1, <1>2, <1>8, <1>9, <1>11, <1>14, <1>15, <1>16, <1>17, <1>18 DEF Kept

(* The client's flight keeps the invariant. *)
LEMMA ServerHelloDoneStep ==
  ASSUME HandshakeInv, ServerHelloDone, UNCHANGED <<conn, cfg, proved>>
  PROVE  HandshakeInv'
<1>0. st.client.pc = "helloDone" /\ Waiting("client")
  BY DEF ServerHelloDone
<1>1. PICK r : r = Heard(st.client, "ServerHelloDone")
  OBVIOUS
<1>2. PICK q : q = ClientFlight(r)
  OBVIOUS
<1>3. \/ Fails("client")
      \/ (IsECDHE(st.client.suite) => st.client.skx) /\ Reads("client", q) /\ UNCHANGED cache
  BY <1>1, <1>2 DEF ServerHelloDone
<1>4. CASE Fails("client")
  BY <1>0, <1>4, ClientFails
<1>5. ASSUME IsECDHE(st.client.suite) => st.client.skx, Reads("client", q), UNCHANGED cache
      PROVE  HandshakeInv'
  <2>1. PICK w : w = World
    OBVIOUS
  <2>2. PICK v : v = World'
    OBVIOUS
  <2>3. ClientGoes(q)
    BY <1>0, <1>5, ClientGoesOn
  <2>4. ClientMoves(w, v, q)
    BY <2>1, <2>2, <2>3, ClientMovesIs
  <2>5. /\ w.c = st.client /\ w.s = st.server /\ w.cf = cfg /\ v.c = q /\ v.cf = w.cf /\ Inv(w)
        /\ Shape(w.c) /\ CacheInv(cache, w)
    BY <2>1, <2>4, WorldIs DEF ClientMoves, HandshakeInv, Inv, FormInv
  <2>6. /\ w.c.skx \in BOOLEAN /\ w.c.resumed = FALSE /\ w.c.sh # <<>> /\ w.c.sh = w.s.sh
        /\ w.c.skx => IsECDHE(w.c.suite) /\ w.c.curve = w.s.curve
        /\ ~w.c.skx => w.c.curve = "none"
        /\ cfg.client.insecure \/ w.c.verified
        /\ cfg.client.verify # "nil" => w.c.saw = View(w.c)
    BY <1>0, <2>5, EarlyState
  <2>7. Shape(r) /\ Same(w.c, r) /\ r.out = w.c.out
    BY <1>1, <2>5, HeardSame
  <2>8. w.c.pc \in ClientEarly
    BY <1>0, <2>5 DEF ClientEarly
  <2>9. ASSUME NEW z, z.cf = cfg, z.c.ch = w.c.ch, z.c.pc \notin ClientEarly, z.c.sh # <<>>, z.c.resumed = FALSE,
               z.c.clientFinished = Finish("client", FlightKeyed(r))
        PROVE  /\ Shape(q) /\ SameOffer(r, q) /\ SameHello(r, q) /\ SameAuth(r, q) /\ q.ticket = r.ticket
               /\ q.curve = r.curve /\ q.skx = r.skx /\ q.ems = r.sh.ems /\ OutGood("client", q.out, z)
               /\ q.in.next = KeyOf(q, "server") /\ q.out.key = KeyOf(q, "client") /\ Clean(q.out)
               /\ q.pc \in {"ticket", "ccs"} /\ q.clientFinishedIsFirst = TRUE
               /\ q.clientFinished = Finish("client", FlightKeyed(r))
    <3>1. z.c.pc # "start"
      BY <2>9 DEF ClientEarly
    <3>2. OutGood("client", r.out, z)
      BY <2>5, <2>7, <2>8, <2>9, <3>1, ClientWords
    <3> QED
      BY <1>2, <2>7, <2>9, <3>2, FlightIs
  <2>10. /\ Shape(q) /\ SameOffer(r, q) /\ SameHello(r, q) /\ SameAuth(r, q) /\ q.ticket = r.ticket
         /\ q.curve = r.curve /\ q.skx = r.skx /\ q.ems = r.sh.ems
         /\ q.in.next = KeyOf(q, "server") /\ q.out.key = KeyOf(q, "client") /\ Clean(q.out)
         /\ q.pc \in {"ticket", "ccs"} /\ q.clientFinishedIsFirst = TRUE
         /\ q.clientFinished = Finish("client", FlightKeyed(r))
    <3>1. PICK fin : fin = Finish("client", FlightKeyed(r))
      OBVIOUS
    <3>2. PICK x : x = [pc |-> "complete", ch |-> w.c.ch, sh |-> w.c.sh, resumed |-> FALSE, clientFinished |-> fin]
      OBVIOUS
    <3>3. PICK z : z = [cf |-> cfg, c |-> x]
      OBVIOUS
    <3>4. /\ z.cf = cfg /\ z.c.ch = w.c.ch /\ z.c.pc \notin ClientEarly /\ z.c.sh # <<>> /\ z.c.resumed = FALSE
          /\ z.c.clientFinished = Finish("client", FlightKeyed(r))
      BY <2>6, <3>1, <3>2, <3>3 DEF ClientEarly
    <3> QED
      BY <2>9, <3>4
  <2>11. /\ SameOffer(w.c, q) /\ SameHello(w.c, q) /\ SameAuth(w.c, q) /\ q.ticket = w.c.ticket
         /\ q.curve = w.c.curve /\ q.skx = w.c.skx /\ q.ems = w.c.sh.ems /\ q.resumed = FALSE
    BY <2>6, <2>7, <2>10 DEF Same, SameOffer, SameHello, SameAuth, SameKey, SameEnd
  <2>12. OutGood("client", q.out, v)
    <3>1. /\ v.cf = cfg /\ v.c.ch = w.c.ch /\ v.c.pc \notin ClientEarly /\ v.c.sh # <<>> /\ v.c.resumed = FALSE
          /\ v.c.clientFinished = Finish("client", FlightKeyed(r))
      BY <2>5, <2>6, <2>10, <2>11 DEF ClientEarly, SameOffer, SameHello
    <3> QED
      BY <2>9, <3>1
  <2>13. /\ v.s.pc = w.s.pc /\ SameHello(w.s, v.s) /\ SameKey(w.s, v.s) /\ SameEnd(w.s, v.s) /\ SameOffer(w.s, v.s)
         /\ \A t : Settled(t, w) => Settled(t, v)
    BY <2>4 DEF ClientMoves, Same
  <2>14. OfferInv(v)
    <3>1. OfferInv(w)
      BY <2>5 DEF Inv, ClientInv
    <3> QED
      BY <1>0, <2>5, <2>10, <2>11, <2>13, <3>1 DEF OfferInv, SameOffer
  <2>15. ClientHelloInv(v)
    <3>1. ClientHelloInv(w)
      BY <2>5 DEF Inv, ClientInv
    <3> QED
      BY <1>5, <2>5, <2>6, <2>10, <2>11, <3>1 DEF ClientHelloInv, SameHello
  <2>16. ClientAuthInv(v)
    <3>1. View(q) = View(w.c)
      BY <2>11, ViewSame DEF SameAuth
    <3> QED
      BY <2>5, <2>6, <2>11, <3>1 DEF ClientAuthInv, SameAuth
  <2>17. ClientKeyInv(v)
    BY <2>5, <2>10, <2>11 DEF ClientKeyInv
  <2>18. LinkInv(v)
    <3>1. LinkInv(w) /\ w.s.resumed \in BOOLEAN
      BY <2>5 DEF Inv, ServerInv, ServerHelloInv
    <3>2. w.s.pc # "complete"
      BY <2>8, <3>1, <1>0, <2>5 DEF LinkInv
    <3>3. SealedBy(w.c.ticket, w.s) => SealedBy(w.c.ticket, v.s)
      BY <2>13 DEF SealedBy, SameHello, SameKey
    <3>4. v.c.sh = w.c.sh /\ v.c.ticket = w.c.ticket /\ v.c.ch = w.c.ch /\ v.c.resumed = FALSE /\ v.c.suite = w.c.suite
      BY <2>5, <2>11 DEF SameHello, SameOffer
    <3>5. v.s.sh = w.s.sh /\ v.s.ch = w.s.ch /\ v.s.curve = w.s.curve
      BY <2>13 DEF SameHello, SameKey, SameOffer
    <3> QED
      BY <2>5, <2>6, <2>10, <2>11, <2>13, <3>1, <3>2, <3>3, <3>4, <3>5 DEF LinkInv
  <2>19. CacheInv(cache', v)
    BY <1>5, <2>5, <2>13, CacheFrame
  <2> QED
    BY <2>2, <2>3, <2>10, <2>12, <2>14, <2>15, <2>16, <2>17, <2>18, <2>19, ClientCloses DEF ClientInv
<1> QED
  BY <1>3, <1>4, <1>5

(* Reading the ticket, and the message behind it. *)
LEMMA LateMoves ==
  ASSUME HandshakeInv, UNCHANGED <<conn, cfg, proved, cache>>, NEW q, Reads("client", q), Waiting("client"),
         st.client.pc \in {"ticket", "ccs"}, Shape(q), q.out = st.client.out,
         SameOffer(st.client, q), SameHello(st.client, q), SameAuth(st.client, q), SameKey(st.client, q),
         q.clientFinished = st.client.clientFinished, q.clientFinishedIsFirst = st.client.clientFinishedIsFirst,
         \/ q.pc = "ccs" /\ q.in = st.client.in
         \/ q.pc = "finished" /\ q.in.key = st.client.in.next,
         \/ q.ticket = st.client.ticket
         \/ st.server.pc \notin ServerEarly /\ SealedBy(q.ticket, st.server) /\ Settled(q.ticket, World)
  PROVE  HandshakeInv'
<1>1. PICK w : w = World
  OBVIOUS
<1>2. PICK v : v = World'
  OBVIOUS
<1>3. ClientGoes(q)
  BY ClientGoesOn
<1>4. ClientMoves(w, v, q)
  BY <1>1, <1>2, <1>3, ClientMovesIs
<1>5. /\ w.c = st.client /\ w.s = st.server /\ w.cf = cfg /\ v.c = q /\ v.cf = w.cf /\ Inv(w) /\ CacheInv(cache, w)
  BY <1>1, <1>4, WorldIs DEF ClientMoves, HandshakeInv
<1>6. /\ v.s.pc = w.s.pc /\ SameHello(w.s, v.s) /\ SameKey(w.s, v.s) /\ SameEnd(w.s, v.s) /\ SameOffer(w.s, v.s)
      /\ \A t : Settled(t, w) => Settled(t, v)
  BY <1>4 DEF ClientMoves, Same
<1>7. w.c.pc \in ClientDone /\ q.pc \in ClientDone /\ q.pc \notin ClientEarly /\ q.pc \in {"ccs", "finished"}
  BY <1>5 DEF ClientDone, ClientEarly
<1>8. OutGood("client", q.out, v)
  <2>1. v.c.ch = w.c.ch /\ v.c.pc # "start" /\ w.c.pc # "complete" /\ v.c.pc \notin ClientEarly
    BY <1>5, <1>7 DEF SameOffer
  <2>2. SameHello(w.c, v.c) /\ v.c.clientFinished = w.c.clientFinished
    BY <1>5
  <2> QED
    BY <1>5, <2>1, <2>2, ClientWords
<1>9. OfferInv(v)
  <2>1. OfferInv(w)
    BY <1>5 DEF Inv, ClientInv
  <2> QED
    BY <1>5, <1>6, <1>7, <2>1 DEF OfferInv, SameOffer
<1>10. ClientHelloInv(v)
  <2>1. ClientHelloInv(w)
    BY <1>5 DEF Inv, ClientInv
  <2> QED
    BY <1>5, <1>7, <2>1 DEF ClientHelloInv, SameHello, SameKey, SameAuth, SameOffer
<1>11. ClientAuthInv(v)
  <2>1. View(q) = View(w.c)
    BY <1>5, ViewSame DEF SameAuth
  <2>2. ClientAuthInv(w)
    BY <1>5 DEF Inv, ClientInv
  <2> QED
    BY <1>5, <1>7, <2>1, <2>2 DEF ClientAuthInv, SameAuth, SameHello
<1>12. ClientKeyInv(v)
  <2>1. ClientKeyInv(w)
    BY <1>5 DEF Inv, ClientInv
  <2>2. KeyOf(q, "server") = KeyOf(w.c, "server") /\ KeyOf(q, "client") = KeyOf(w.c, "client")
    BY <1>5 DEF KeyOf, SameKey
  <2> QED
    BY <1>5, <1>7, <2>1, <2>2 DEF ClientKeyInv, SameHello
<1>13. LinkInv(v)
  <2>1. LinkInv(w) /\ w.s.resumed \in BOOLEAN /\ w.c.sh # <<>>
    BY <1>5 DEF Inv, ServerInv, ServerHelloInv, ClientInv, ClientHelloInv
  <2>2. ASSUME NEW t, SealedBy(t, w.s) PROVE SealedBy(t, v.s)
    BY <1>6, <2>2 DEF SealedBy, SameHello, SameKey
  <2>3. q.ticket # NoSession => w.s.pc \notin ServerEarly /\ SealedBy(q.ticket, w.s) /\ Settled(q.ticket, w)
    BY <1>1, <1>5, <2>1 DEF LinkInv
  <2>4. q.ticket # NoSession => v.s.pc \notin ServerEarly /\ SealedBy(q.ticket, v.s) /\ Settled(q.ticket, v)
    BY <1>6, <2>2, <2>3
  <2>5. v.c.sh = w.c.sh /\ v.c.ch = w.c.ch /\ v.c.resumed = w.c.resumed /\ v.c.suite = w.c.suite
    BY <1>5 DEF SameHello, SameOffer
  <2>6. v.s.sh = w.s.sh /\ v.s.ch = w.s.ch /\ v.s.curve = w.s.curve /\ v.s.clientFinished = w.s.clientFinished
    BY <1>6 DEF SameHello, SameKey, SameOffer, SameEnd
  <2>7. v.c.skx = w.c.skx /\ v.c.curve = w.c.curve /\ v.s.resumed = w.s.resumed
    BY <1>5, <1>6 DEF SameKey, SameHello
  <2> QED
    BY <1>5, <1>6, <1>7, <2>1, <2>4, <2>5, <2>6, <2>7 DEF LinkInv
<1>14. CacheInv(cache', v)
  BY <1>5, <1>6, CacheFrame
<1> QED
  BY <1>2, <1>3, <1>8, <1>9, <1>10, <1>11, <1>12, <1>13, <1>14, ClientCloses DEF ClientInv

(* The ends have the fields of an end. *)
LEMMA FormOf ==
  ASSUME HandshakeInv
  PROVE  /\ Shape(st.client) /\ Shape(st.server)
         /\ OutGood("client", st.client.out, World) /\ OutGood("server", st.server.out, World)
BY WorldIs DEF HandshakeInv, Inv, FormInv, MsgInv

(* readSessionTicket keeps the invariant: the ticket holds the server's        *)
(* session.                                                                    *)
LEMMA NewSessionTicketStep ==
  ASSUME HandshakeInv, NewSessionTicket, UNCHANGED <<conn, cfg, proved>>
  PROVE  HandshakeInv'
<1>0. st.client.pc = "ticket" /\ Waiting("client")
  BY DEF NewSessionTicket
<1>1. PICK t : t = Msg("client").body
  OBVIOUS
<1>2. PICK h : h = Heard(st.client, "NewSessionTicket")
  OBVIOUS
<1>3. PICK q : q = [h EXCEPT !.ticket = t, !.pc = "ccs"]
  OBVIOUS
<1>4. Fails("client") \/ (Sees("client", "NewSessionTicket") /\ Reads("client", q) /\ UNCHANGED cache)
  BY <1>1, <1>2, <1>3 DEF NewSessionTicket
<1>5. CASE Fails("client")
  BY <1>0, <1>5, ClientFails
<1>6. CASE Sees("client", "NewSessionTicket") /\ Reads("client", q) /\ UNCHANGED cache
  <2>1. Good("server", "NewSessionTicket", t, World)
    BY <1>1, <1>6, MsgGood DEF Sees
  <2>2. st.server.pc \notin ServerEarly /\ SealedBy(t, st.server) /\ Settled(t, World)
    BY <2>1, WorldIs DEF Good, ServerMsg
  <2>3. Shape(h) /\ Same(st.client, h) /\ h.out = st.client.out /\ h.in = st.client.in
    BY <1>2, FormOf, HeardSame
  <2>4. /\ Shape(q) /\ q.pc = "ccs" /\ q.out = h.out /\ q.in = h.in /\ q.ticket = t
        /\ SameOffer(h, q) /\ SameHello(h, q)
    BY <1>3, <2>3 DEF Shape, Fields, SameOffer, SameHello
  <2>5. /\ SameAuth(h, q) /\ SameKey(h, q) /\ q.clientFinished = h.clientFinished
        /\ q.clientFinishedIsFirst = h.clientFinishedIsFirst
    BY <1>3, <2>3 DEF Shape, Fields, SameAuth, SameKey
  <2>6. SameOffer(st.client, q) /\ SameHello(st.client, q)
    BY <2>3, <2>4 DEF Same, SameOffer, SameHello
  <2>7. /\ SameAuth(st.client, q) /\ SameKey(st.client, q) /\ q.clientFinished = st.client.clientFinished
        /\ q.clientFinishedIsFirst = st.client.clientFinishedIsFirst
    BY <2>3, <2>5 DEF Same, SameAuth, SameKey, SameEnd
  <2>8. UNCHANGED <<conn, cfg, proved, cache>> /\ Reads("client", q)
    BY <1>6
  <2>9. st.client.pc \in {"ticket", "ccs"} /\ q.out = st.client.out /\ q.in = st.client.in
    BY <1>0, <2>3, <2>4
  <2> QED
    BY <1>0, <2>2, <2>4, <2>6, <2>7, <2>8, <2>9, LateMoves
<1> QED
  BY <1>4, <1>5, <1>6

(* Changing to the keys prepared, of the half that reads. *)
LEMMA ChangedIs ==
  ASSUME NEW r, Shape(r)
  PROVE  LET q == [r EXCEPT !.in = ChangeCipherSpec(@), !.pc = "finished"] IN
         Shape(q) /\ Same(r, q) /\ q.pc = "finished" /\ q.in.key = r.in.next /\ q.out = r.out
<1>1. PICK in : in = ChangeCipherSpec(r.in)
  OBVIOUS
<1>2. DOMAIN in = {"key", "next"} /\ in.key = r.in.next
  BY <1>1 DEF ChangeCipherSpec, Shape
<1>3. PICK q : q = [r EXCEPT !.in = in, !.pc = "finished"]
  OBVIOUS
<1>4. /\ DOMAIN q = DOMAIN r /\ q.out = r.out /\ q.in = in /\ q.pc = "finished" /\ SameOffer(r, q) /\ SameHello(r, q)
  BY <1>3 DEF Shape, Fields, SameOffer, SameHello
<1>5. SameAuth(r, q) /\ SameKey(r, q) /\ SameEnd(r, q)
  BY <1>3 DEF Shape, Fields, SameAuth, SameKey, SameEnd
<1>6. q = [r EXCEPT !.in = ChangeCipherSpec(@), !.pc = "finished"]
  BY <1>1, <1>3 DEF Shape, Fields
<1> QED
  BY <1>2, <1>4, <1>5, <1>6 DEF Shape, Same

(* The server's ChangeCipherSpec keeps the invariant. *)
LEMMA ClientReadCCSStep ==
  ASSUME HandshakeInv, ReadCCS("client"), UNCHANGED <<conn, cfg, proved>>
  PROVE  HandshakeInv'
<1>0. st.client.pc = "ccs" /\ Waiting("client")
  BY DEF ReadCCS
<1>1. PICK q : q = [st.client EXCEPT !.in = ChangeCipherSpec(@), !.pc = "finished"]
  OBVIOUS
<1>2. Fails("client") \/ (Reads("client", q) /\ UNCHANGED cache)
  BY <1>1 DEF ReadCCS
<1>3. CASE Fails("client")
  BY <1>0, <1>3, ClientFails
<1>4. CASE Reads("client", q) /\ UNCHANGED cache
  <2>1. Shape(q) /\ Same(st.client, q) /\ q.pc = "finished" /\ q.in.key = st.client.in.next /\ q.out = st.client.out
    BY <1>1, FormOf, ChangedIs
  <2>2. /\ SameOffer(st.client, q) /\ SameHello(st.client, q) /\ SameAuth(st.client, q) /\ SameKey(st.client, q)
        /\ q.clientFinished = st.client.clientFinished /\ q.clientFinishedIsFirst = st.client.clientFinishedIsFirst
        /\ q.ticket = st.client.ticket
    BY <2>1 DEF Same, SameEnd
  <2>3. UNCHANGED <<conn, cfg, proved, cache>>
    BY <1>4
  <2> QED
    BY <1>0, <1>4, <2>1, <2>2, <2>3, LateMoves
<1> QED
  BY <1>2, <1>3, <1>4

(* Both ends have made the same of the hellos, and of the session resumed. *)
LEMMA SameResults ==
  ASSUME NEW w, Inv(w), w.c.pc \in ClientDone, w.c.resumed \/ w.s.pc \in ServerDone
  PROVE  /\ w.c.vers = w.s.vers /\ w.c.suite = w.s.suite /\ w.c.proto = w.s.proto /\ w.c.resumed = w.s.resumed
         /\ w.c.ems = w.s.ems /\ w.c.curve = w.s.curve
<1>1. ClientHelloInv(w) /\ ServerHelloInv(w) /\ LinkInv(w) /\ OfferInv(w)
  BY DEF Inv, ClientInv, ServerInv
<1>2. w.c.sh # <<>> /\ w.c.sh = w.s.sh /\ w.s.ch = w.c.ch
  BY <1>1 DEF ClientHelloInv, LinkInv, ClientDone
<1>3. w.c.vers = w.s.vers /\ w.c.suite = w.s.suite /\ w.c.proto = w.s.proto /\ w.c.resumed = w.s.resumed
  BY <1>1, <1>2 DEF ClientHelloInv, ServerHelloInv
<1>4. CASE w.c.resumed
  <2>1. w.c.session # NoSession /\ w.c.curve = w.c.session.curve /\ w.c.ems = w.c.session.ems
    BY <1>1, <1>4 DEF ClientHelloInv
  <2>2. w.s.curve = w.s.ch.ticket.curve /\ w.s.ems = w.s.ch.ticket.ems
    BY <1>1, <1>2, <1>3, <1>4 DEF ServerHelloInv
  <2>3. w.c.session.curve = w.c.ch.ticket.curve /\ w.c.session.ems = w.c.ch.ticket.ems
    BY <1>1, <2>1 DEF OfferInv, Matches
  <2> QED
    BY <1>2, <1>3, <2>1, <2>2, <2>3
<1>5. CASE ~w.c.resumed
  <2>1. w.c.ems = w.c.sh.ems /\ (IsECDHE(w.c.suite) => w.c.skx) /\ w.c.skx \in BOOLEAN
    BY <1>1, <1>5 DEF ClientHelloInv
  <2>2. w.s.ems = w.s.sh.ems /\ (~IsECDHE(w.s.suite) => w.s.curve = "none")
    BY <1>1, <1>2, <1>3, <1>5 DEF ServerHelloInv
  <2>3. (w.c.skx => IsECDHE(w.c.suite) /\ w.c.curve = w.s.curve) /\ (~w.c.skx => w.c.curve = "none")
    BY <1>1, <1>2, <1>5 DEF LinkInv
  <2>4. w.c.curve = w.s.curve
    BY <1>3, <2>1, <2>2, <2>3
  <2> QED
    BY <1>2, <1>3, <2>1, <2>2, <2>4
<1> QED
  BY <1>4, <1>5

(* The server's Finished is in: the client completes in state q. *)
LEMMA ClientCompletes ==
  ASSUME HandshakeInv, UNCHANGED <<conn, cfg, proved>>, FinishedOK("client"), NEW q, Reads("client", q),
         Shape(q), OutGood("client", q.out, World'), q.pc = "complete",
         SameOffer(st.client, q), SameHello(st.client, q), SameKey(st.client, q), q.ticket = st.client.ticket,
         q.verified = st.client.verified, cfg.client.verify # "nil" => q.saw = View(q),
         q.serverFinished = Msg("client").body, q.in = st.client.in,
         q.out.key = KeyOf(q, "client"), Clean(q.out),
         st.client.resumed => q.clientFinishedIsFirst = FALSE,
         ~st.client.resumed => q.clientFinishedIsFirst = TRUE /\ q.clientFinished = st.client.clientFinished,
         cache' = IF q.ticket = NoSession THEN cache ELSE SessionOf(q)
  PROVE  HandshakeInv'
<1>0. st.client.pc = "finished" /\ Waiting("client") /\ Sees("client", "Finished")
  BY DEF FinishedOK, Sees
<1>1. PICK w : w = World
  OBVIOUS
<1>2. PICK v : v = World'
  OBVIOUS
<1>3. ClientGoes(q)
  BY <1>0, ClientGoesOn
<1>4. ClientMoves(w, v, q)
  BY <1>1, <1>2, <1>3, ClientMovesIs
<1>5. /\ w.c = st.client /\ w.s = st.server /\ w.cf = cfg /\ v.c = q /\ v.cf = w.cf /\ Inv(w) /\ CacheInv(cache, w)
  BY <1>1, <1>4, WorldIs DEF ClientMoves, HandshakeInv
<1>6. /\ v.s.pc = w.s.pc /\ SameHello(w.s, v.s) /\ SameKey(w.s, v.s) /\ SameEnd(w.s, v.s) /\ SameOffer(w.s, v.s)
      /\ \A t : Settled(t, w) => Settled(t, v)
  BY <1>4 DEF ClientMoves, Same
<1>7. w.c.pc \in ClientDone /\ w.c.pc \notin ClientEarly /\ w.c.resumed \in BOOLEAN /\ w.c.sh # <<>>
  BY <1>0, <1>5 DEF ClientDone, ClientEarly, Inv, ClientInv, ClientHelloInv
<1>8. LinkInv(w) /\ ServerHelloInv(w) /\ ClientHelloInv(w) /\ OfferInv(w) /\ ClientAuthInv(w) /\ ClientKeyInv(w)
  BY <1>5 DEF Inv, ServerInv, ClientInv
<1>9. PICK body : body = Msg("client").body
  OBVIOUS
<1>10. body.secret = w.c.master
  BY <1>5, <1>9 DEF FinishedOK, Finish
<1>11. /\ w.s.pc \notin ServerEarly /\ body.secret = w.s.master
       /\ w.s.resumed => body = w.s.serverFinished
       /\ ~w.s.resumed => w.s.pc = "complete"
  <2>1. Good("server", "Finished", body, w)
    BY <1>0, <1>1, <1>9, MsgGood DEF Sees
  <2> QED
    BY <2>1 DEF Good, ServerMsg
<1>12. w.c.resumed = w.s.resumed
  BY <1>7, <1>8 DEF LinkInv, ClientHelloInv, ServerHelloInv
<1>13. w.c.resumed \/ w.s.pc \in ServerDone
  BY <1>7, <1>11, <1>12 DEF ServerDone
<1>14. /\ w.c.vers = w.s.vers /\ w.c.suite = w.s.suite /\ w.c.ems = w.s.ems /\ w.c.curve = w.s.curve
  BY <1>5, <1>7, <1>13, SameResults
<1>15. CacheInv(cache', v)
  <2>1. CASE q.ticket = NoSession
    <3>1. cache' = cache
      BY <2>1
    <3> QED
      BY <1>5, <1>6, <3>1, CacheFrame
  <2>2. CASE q.ticket # NoSession
    <3>1. PICK t : t = q.ticket
      OBVIOUS
    <3>2. SealedBy(t, w.s) /\ Settled(t, w)
      BY <1>5, <1>8, <2>2, <3>1 DEF LinkInv
    <3>3. PICK x : x = SessionOf(q)
      OBVIOUS
    <3>4. /\ x.vers = q.vers /\ x.suite = q.suite /\ x.secret = q.master /\ x.ems = q.ems /\ x.curve = q.curve
          /\ x.ticket = t
      BY <3>1, <3>3 DEF SessionOf
    <3>5. Matches(x)
      <4>1. x.vers = w.s.vers /\ x.suite = w.s.suite
        BY <1>5, <1>14, <3>4 DEF SameHello
      <4>2. x.secret = w.s.master /\ x.ems = w.s.ems /\ x.curve = w.s.curve
        BY <1>5, <1>10, <1>11, <1>14, <3>4 DEF SameKey
      <4>3. /\ t.vers = w.s.vers /\ t.suite = w.s.suite /\ t.secret = w.s.master /\ t.ems = w.s.ems
            /\ t.curve = w.s.curve
        BY <3>2 DEF SealedBy
      <4> QED
        BY <3>4, <4>1, <4>2, <4>3 DEF Matches
    <3>6. cache' = x
      BY <2>2, <3>3
    <3> QED
      BY <1>6, <3>2, <3>4, <3>5, <3>6 DEF CacheInv
  <2> QED
    BY <2>1, <2>2
<1>16. OfferInv(v)
  BY <1>0, <1>5, <1>6, <1>8 DEF OfferInv, SameOffer
<1>17. ClientHelloInv(v)
  BY <1>0, <1>5, <1>7, <1>8 DEF ClientHelloInv, SameHello, SameKey, SameOffer, ClientEarly, ClientDone
<1>18. ClientAuthInv(v)
  <2>1. w.cf.client.insecure \/ w.c.verified
    BY <1>7, <1>8 DEF ClientAuthInv
  <2> QED
    BY <1>5, <2>1 DEF ClientAuthInv
<1>19. ClientKeyInv(v)
  <2>1. KeyOf(q, "server") = KeyOf(w.c, "server")
    BY <1>5 DEF KeyOf, SameKey
  <2>2. q.resumed = w.c.resumed
    BY <1>5 DEF SameHello
  <2> QED
    BY <1>0, <1>5, <1>7, <1>8, <2>1, <2>2 DEF ClientKeyInv
<1>20. LinkInv(v)
  <2>1. ASSUME NEW t, SealedBy(t, w.s) PROVE SealedBy(t, v.s)
    BY <1>6, <2>1 DEF SealedBy, SameHello, SameKey
  <2>2. q.ticket # NoSession => v.s.pc \notin ServerEarly /\ SealedBy(q.ticket, v.s) /\ Settled(q.ticket, v)
    BY <1>5, <1>6, <1>8, <2>1 DEF LinkInv
  <2>3. v.c.sh = w.c.sh /\ v.c.ch = w.c.ch /\ v.c.resumed = w.c.resumed /\ v.c.suite = w.c.suite
    BY <1>5 DEF SameHello, SameOffer
  <2>4. /\ v.s.sh = w.s.sh /\ v.s.ch = w.s.ch /\ v.s.curve = w.s.curve /\ v.s.clientFinished = w.s.clientFinished
        /\ v.s.serverFinished = w.s.serverFinished /\ v.s.master = w.s.master
    BY <1>6 DEF SameHello, SameKey, SameOffer, SameEnd
  <2>5. v.c.skx = w.c.skx /\ v.c.curve = w.c.curve /\ v.s.resumed = w.s.resumed /\ v.c.master = w.c.master
    BY <1>5, <1>6 DEF SameKey, SameHello
  <2>6. /\ v.c.master = v.s.master /\ v.s.pc \notin ServerEarly
        /\ ~v.c.resumed => v.s.pc = "complete"
        /\ v.c.resumed => v.c.serverFinished = v.s.serverFinished
    BY <1>5, <1>6, <1>9, <1>10, <1>11, <1>12, <2>3, <2>4, <2>5
  <2>7. v.s.pc = "complete" /\ ~v.s.resumed => v.s.clientFinished = v.c.clientFinished
    BY <1>5, <1>6, <1>8, <1>12, <2>4, <2>5 DEF LinkInv
  <2>8. v.c.pc = "complete" /\ v.c.pc \notin ClientEarly /\ v.c.sh # <<>>
    BY <1>5, <1>7, <2>3 DEF ClientEarly
  <2>9. /\ v.c.sh = v.s.sh /\ v.s.ch = v.c.ch
        /\ ~v.c.resumed => /\ v.c.skx => IsECDHE(v.c.suite) /\ v.c.curve = v.s.curve
                           /\ ~v.c.skx => v.c.curve = "none"
    BY <1>7, <1>8, <2>3, <2>4, <2>5 DEF LinkInv
  <2> QED
    BY <1>5, <2>2, <2>6, <2>7, <2>8, <2>9 DEF LinkInv
<1> QED
  BY <1>2, <1>3, <1>15, <1>16, <1>17, <1>18, <1>19, <1>20, ClientCloses DEF ClientInv

(* The Finished with which the client answers, in a resumption. *)
LEMMA AnswerIs ==
  ASSUME NEW r, NEW z, Shape(r), OutGood("client", r.out, z), z.c.pc = "complete", z.c.sh # <<>>,
         z.c.clientFinished = Finish("client", r), r.out.next = KeyOf(r, "client")
  PROVE  LET q == AnswerFinished(r) IN
         /\ Shape(q) /\ OutGood("client", q.out, z) /\ q.pc = r.pc /\ q.in = r.in
         /\ SameOffer(r, q) /\ SameHello(r, q) /\ SameKey(r, q) /\ q.ticket = r.ticket
         /\ q.verified = r.verified /\ (cfg.client.verify # "nil" => q.saw = View(q))
         /\ q.serverFinished = r.serverFinished /\ q.clientFinished = Finish("client", r)
         /\ q.out.key = KeyOf(q, "client") /\ Clean(q.out) /\ q.clientFinishedIsFirst = FALSE
<1>1. PICK a : a = VerifyConnection("client", r)
  OBVIOUS
<1>2. /\ Shape(a) /\ a.pc = r.pc /\ a.in = r.in /\ a.out = r.out /\ a.th = r.th
      /\ SameOffer(r, a) /\ SameHello(r, a) /\ SameKey(r, a) /\ SameEnd(r, a)
      /\ a.verified = r.verified /\ (cfg["client"].verify # "nil" => a.saw = View(a))
  BY <1>1, VerifyIs
<1>3. PICK fin : fin = Finish("client", r)
  OBVIOUS
<1>4. Finish("client", a) = fin
  BY <1>2, <1>3 DEF Finish, SameKey
<1>5. PICK b : b = SendFinished("client", a)
  OBVIOUS
<1>6. Kept("client", a, b, z) /\ b.out.key = a.out.next /\ Flushable(b.out)
  <2>1. Good("client", "ChangeCipherSpec", <<>>, z)
    BY DEF Good, ClientMsg
  <2>2. Good("client", "Finished", Finish("client", a), z)
    BY <1>3, <1>4 DEF Good, ClientMsg, ClientEarly
  <2> QED
    BY <1>2, <1>5, <2>1, <2>2, SendFinishedIs
<1>7. PICK d : d = Flush(b)
  OBVIOUS
<1>8. Kept("client", b, d, z) /\ d.out.key = b.out.key /\ Clean(d.out)
  BY <1>6, <1>7, FlushIs DEF Kept
<1>9. Kept("client", a, d, z)
  BY <1>6, <1>8, KeptTransitive
<1>10. PICK q : q = [d EXCEPT !.clientFinished = fin, !.clientFinishedIsFirst = FALSE]
  OBVIOUS
<1>11. /\ Shape(q) /\ SameOffer(d, q) /\ SameHello(d, q) /\ q.out = d.out /\ q.in = d.in /\ q.pc = d.pc
       /\ q.clientFinishedIsFirst = FALSE /\ q.clientFinished = fin /\ q.ticket = d.ticket
       /\ q.serverFinished = d.serverFinished
  BY <1>9, <1>10 DEF Kept, Shape, Fields, SameOffer, SameHello
<1>12. SameAuth(d, q) /\ SameKey(d, q)
  BY <1>9, <1>10 DEF Kept, Shape, Fields, SameAuth, SameKey
<1>13. /\ SameOffer(a, d) /\ SameHello(a, d) /\ SameAuth(a, d) /\ SameKey(a, d) /\ SameEnd(a, d)
       /\ d.in = a.in /\ d.pc = a.pc
  BY <1>9 DEF Kept, Same
<1>14. SameOffer(r, q) /\ SameHello(r, q) /\ SameHello(a, q) /\ SameAuth(a, q) /\ SameKey(r, q)
  BY <1>2, <1>11, <1>12, <1>13 DEF SameOffer, SameHello, SameAuth, SameKey
<1>15. q.ticket = r.ticket /\ q.serverFinished = r.serverFinished
  BY <1>2, <1>11, <1>13 DEF SameEnd
<1>16. View(q) = View(a)
  BY <1>14, ViewSame DEF SameAuth
<1>17. q.verified = r.verified /\ (cfg.client.verify # "nil" => q.saw = View(q))
  BY <1>2, <1>14, <1>16 DEF SameAuth
<1>18. q.out.key = KeyOf(q, "client")
  BY <1>2, <1>6, <1>8, <1>11, <1>14 DEF KeyOf, SameKey
<1>19. AnswerFinished(r) = q
  BY <1>1, <1>3, <1>5, <1>7, <1>10 DEF AnswerFinished
<1> QED
  BY <1>2, <1>3, <1>8, <1>9, <1>11, <1>13, <1>14, <1>15, <1>17, <1>18, <1>19 DEF Kept

(* The server's Finished keeps the invariant. *)
LEMMA ServerFinishedStep ==
  ASSUME HandshakeInv, ServerFinished, UNCHANGED <<conn, cfg, proved>>
  PROVE  HandshakeInv'
<1>1. PICK body : body = Msg("client").body
  OBVIOUS
<1>2. PICK h : h = Heard(st.client, "Finished")
  OBVIOUS
<1>3. PICK r : r = [h EXCEPT !.serverFinished = body, !.pc = "complete"]
  OBVIOUS
<1>4. PICK y : y = AnswerFinished(r)
  OBVIOUS
<1>5. \/ FinishedOK("client") /\ ~st.client.resumed /\ Reads("client", r) /\ SaveSession(r)
      \/ FinishedOK("client") /\ st.client.resumed /\ Reads("client", y) /\ SaveSession(r)
      \/ st.client.pc = "finished" /\ Fails("client")
  BY <1>1, <1>2, <1>3, <1>4 DEF ServerFinished, FinishedOK, FinishedBad
<1>6. CASE st.client.pc = "finished" /\ Fails("client")
  BY <1>6, ClientFails
<1>7. PICK w : w = World
  OBVIOUS
<1>8. PICK v : v = World'
  OBVIOUS
<1>9. w.c = st.client /\ w.cf = cfg /\ Inv(w) /\ v.c = st'.client /\ v.cf = w.cf
  BY <1>7, <1>8, WorldIs, WorldNext DEF HandshakeInv
<1>10. ClientHelloInv(w) /\ ClientAuthInv(w) /\ ClientKeyInv(w)
  BY <1>9 DEF Inv, ClientInv
<1>11. Shape(h) /\ Same(w.c, h) /\ h.in = w.c.in /\ h.out = w.c.out
  BY <1>2, <1>9, FormOf, HeardSame
<1>12. /\ Shape(r) /\ r.pc = "complete" /\ r.in = h.in /\ r.out = h.out /\ r.serverFinished = body
       /\ SameOffer(h, r) /\ SameHello(h, r)
  BY <1>3, <1>11 DEF Shape, Fields, SameOffer, SameHello
<1>13. /\ SameAuth(h, r) /\ SameKey(h, r) /\ r.clientFinished = h.clientFinished
       /\ r.clientFinishedIsFirst = h.clientFinishedIsFirst /\ r.ticket = h.ticket
  BY <1>3, <1>11 DEF Shape, Fields, SameAuth, SameKey
<1>14. SameOffer(w.c, r) /\ SameHello(w.c, r) /\ SameAuth(w.c, r) /\ SameKey(w.c, r)
  BY <1>11, <1>12, <1>13 DEF Same, SameOffer, SameHello, SameAuth, SameKey
<1>15. /\ r.clientFinished = w.c.clientFinished /\ r.clientFinishedIsFirst = w.c.clientFinishedIsFirst
       /\ r.ticket = w.c.ticket
  BY <1>11, <1>13 DEF Same, SameEnd
<1>16. CASE FinishedOK("client") /\ ~st.client.resumed /\ Reads("client", r) /\ SaveSession(r)
  <2>1. w.c.pc = "finished" /\ w.c.pc \in ClientDone /\ Waiting("client")
    BY <1>9, <1>16 DEF FinishedOK, ClientDone, Sees
  <2>2. ClientGoes(r)
    BY <1>16, <2>1, ClientGoesOn
  <2>3. v.c = r
    BY <1>8, <2>2 DEF ClientGoes
  <2>4. OutGood("client", r.out, v)
    <3>1. v.c.ch = w.c.ch /\ v.c.pc # "start" /\ w.c.pc # "complete" /\ v.c.pc \notin ClientEarly
      BY <1>12, <1>14, <2>1, <2>3 DEF SameOffer, ClientEarly
    <3>2. SameHello(w.c, v.c) /\ v.c.clientFinished = w.c.clientFinished
      BY <1>14, <1>15, <2>3
    <3> QED
      BY <1>9, <1>11, <1>12, <3>1, <3>2, ClientWords
  <2>5. w.c.resumed = FALSE
    BY <1>9, <1>10, <1>16 DEF ClientHelloInv
  <2>6. cfg.client.verify # "nil" => r.saw = View(r)
    <3>1. View(r) = View(w.c)
      BY <1>14, ViewSame DEF SameAuth
    <3> QED
      BY <1>9, <1>10, <1>14, <2>1, <2>5, <3>1 DEF ClientAuthInv, SameAuth
  <2>7. r.out.key = KeyOf(r, "client") /\ Clean(r.out) /\ r.clientFinishedIsFirst = TRUE
    BY <1>10, <1>11, <1>12, <1>14, <1>15, <2>1, <2>5 DEF ClientKeyInv, KeyOf, SameKey
  <2>8. cache' = IF r.ticket = NoSession THEN cache ELSE SessionOf(r)
    BY <1>16 DEF SaveSession
  <2>9. r.verified = w.c.verified /\ r.in = w.c.in
    BY <1>11, <1>12, <1>14 DEF SameAuth
  <2>10. OutGood("client", r.out, World')
    BY <1>8, <2>4
  <2> QED
    BY <1>1, <1>9, <1>12, <1>14, <1>15, <1>16, <2>5, <2>6, <2>7, <2>8, <2>9, <2>10, ClientCompletes
<1>17. CASE FinishedOK("client") /\ st.client.resumed /\ Reads("client", y) /\ SaveSession(r)
  <2>1. w.c.pc = "finished" /\ w.c.pc \in ClientDone /\ Waiting("client")
    BY <1>9, <1>17 DEF FinishedOK, ClientDone, Sees
  <2>2. ClientGoes(y)
    BY <1>17, <2>1, ClientGoesOn
  <2>3. v.c = y
    BY <1>8, <2>2 DEF ClientGoes
  <2>4. w.c.resumed = TRUE /\ w.c.sh # <<>>
    BY <1>9, <1>10, <1>17, <2>1 DEF ClientHelloInv
  <2>5. r.out.next = KeyOf(r, "client")
    BY <1>10, <1>11, <1>12, <1>14, <2>1, <2>4 DEF ClientKeyInv, KeyOf, SameKey
  <2>6. PICK fin : fin = Finish("client", r)
    OBVIOUS
  <2>7. ASSUME NEW z, z.cf = w.cf, z.c.ch = w.c.ch, z.c.pc = "complete", z.c.sh # <<>>, z.c.clientFinished = fin
        PROVE  /\ Shape(y) /\ OutGood("client", y.out, z) /\ y.pc = r.pc /\ y.in = r.in
               /\ SameOffer(r, y) /\ SameHello(r, y) /\ SameKey(r, y) /\ y.ticket = r.ticket
               /\ y.verified = r.verified /\ (cfg.client.verify # "nil" => y.saw = View(y))
               /\ y.serverFinished = r.serverFinished /\ y.clientFinished = fin
               /\ y.out.key = KeyOf(y, "client") /\ Clean(y.out) /\ y.clientFinishedIsFirst = FALSE
    <3>1. OutGood("client", w.c.out, z)
      BY <1>9, <2>1, <2>4, <2>7, ClientWords
    <3>2. OutGood("client", r.out, z)
      BY <1>11, <1>12, <3>1
    <3> QED
      BY <1>4, <1>12, <2>5, <2>6, <2>7, <3>2, AnswerIs, ZenonT(40)
  <2>8. /\ Shape(y) /\ y.pc = r.pc /\ y.in = r.in
        /\ SameOffer(r, y) /\ SameHello(r, y) /\ SameKey(r, y) /\ y.ticket = r.ticket
        /\ y.verified = r.verified /\ (cfg.client.verify # "nil" => y.saw = View(y))
        /\ y.serverFinished = r.serverFinished /\ y.clientFinished = fin
        /\ y.out.key = KeyOf(y, "client") /\ Clean(y.out) /\ y.clientFinishedIsFirst = FALSE
    <3>2. PICK x : x = [pc |-> "complete", ch |-> w.c.ch, sh |-> w.c.sh, clientFinished |-> fin]
      OBVIOUS
    <3>3. PICK z : z = [cf |-> w.cf, c |-> x]
      OBVIOUS
    <3>4. z.cf = w.cf /\ z.c.ch = w.c.ch /\ z.c.pc = "complete" /\ z.c.sh # <<>> /\ z.c.clientFinished = fin
      BY <2>4, <3>2, <3>3
    <3> QED
      BY <2>7, <3>4
  <2>9. SameOffer(w.c, y) /\ SameHello(w.c, y) /\ SameKey(w.c, y)
    BY <1>14, <2>8 DEF SameOffer, SameHello, SameKey
  <2>10. OutGood("client", y.out, v)
    <3>1. v.cf = w.cf /\ v.c.ch = w.c.ch /\ v.c.pc = "complete" /\ v.c.sh # <<>> /\ v.c.clientFinished = fin
      BY <1>9, <1>12, <2>3, <2>4, <2>8, <2>9 DEF SameOffer, SameHello
    <3> QED
      BY <2>7, <3>1
  <2>11. cache' = IF y.ticket = NoSession THEN cache ELSE SessionOf(y)
    <3>1. SessionOf(y) = SessionOf(r)
      BY <2>8 DEF SessionOf, SameHello, SameKey
    <3> QED
      BY <1>17, <2>8, <3>1 DEF SaveSession
  <2>12. y.verified = w.c.verified /\ y.in = w.c.in /\ y.ticket = w.c.ticket /\ y.pc = "complete" /\ y.serverFinished = body
    BY <1>11, <1>12, <1>14, <1>15, <2>8 DEF SameAuth
  <2>13. OutGood("client", y.out, World')
    BY <1>8, <2>10
  <2> QED
    BY <1>1, <1>9, <1>17, <2>4, <2>8, <2>9, <2>11, <2>12, <2>13, ClientCompletes
<1> QED
  BY <1>5, <1>6, <1>16, <1>17

-----------------------------------------------------------------------------
(* The server. *)

(* What the server has written stays good: before its ServerHello it has       *)
(* written nothing that says anything, and no ticket and no Finished before    *)
(* the keys are there.                                                         *)
LEMMA ServerWords ==
  ASSUME NEW w, NEW v, Inv(w),
         \/ w.s.sh = <<>>
         \/ w.s.pc \in ServerEarly /\ v.s.sh = w.s.sh /\ v.s.curve = w.s.curve
         \/ /\ w.s.pc # "complete" /\ v.s.pc \notin ServerEarly /\ SameHello(w.s, v.s) /\ SameKey(w.s, v.s)
            /\ v.s.serverFinished = w.s.serverFinished
            /\ \A t : Settled(t, w) => Settled(t, v)
  PROVE  OutGood("server", w.s.out, v)
<1>1. OutGood("server", w.s.out, w) /\ w.s.resumed \in BOOLEAN
  BY DEF Inv, MsgInv, ServerInv, ServerHelloInv
<1>2. ASSUME NEW kind, NEW body, Good("server", kind, body, w) PROVE Good("server", kind, body, v)
  <2>1. SameHello(w.s, v.s) /\ SameKey(w.s, v.s) => (SealedBy(body, w.s) => SealedBy(body, v.s))
    BY DEF SealedBy, SameHello, SameKey
  <2>2. ServerMsg(kind, body, w) => ServerMsg(kind, body, v)
    BY <1>1, <2>1 DEF ServerMsg, SameHello, SameKey
  <2> QED
    BY <1>2, <2>2 DEF Good
<1> QED
  BY <1>1, <1>2, GoodStays

(* A certificate is proved on this connection before its tickets are made. *)
LEMMA SettledStays ==
  ASSUME NEW w, NEW v, Inv(w), v.n = w.n, w.s.pc \in ServerEarly \/ v.s.pc \notin ServerEarly,
         \/ v.pr = w.pr
         \/ w.s.pc \in ServerEarly /\ \E x : v.pr = [w.pr EXCEPT ![w.n] = x]
  PROVE  \A t : Settled(t, w) => Settled(t, v)
<1> SUFFICES ASSUME NEW t, Settled(t, w) PROVE Settled(t, v)
  OBVIOUS
<1>1. PICK i : i = t.secret.conn
  OBVIOUS
<1>2. /\ i \in 1..w.n /\ t.peerCert = w.pr[i] /\ (i = w.n => w.s.pc \notin ServerEarly)
  BY <1>1 DEF Settled
<1>3. DOMAIN w.pr = 1..MaxConns
  BY DEF Inv, CountInv
<1>4. v.pr[i] = w.pr[i]
  <2>1. CASE v.pr = w.pr
    BY <2>1
  <2>2. CASE w.s.pc \in ServerEarly /\ \E x : v.pr = [w.pr EXCEPT ![w.n] = x]
    <3>1. PICK x : v.pr = [w.pr EXCEPT ![w.n] = x]
      BY <2>2
    <3>2. i # w.n
      BY <1>2, <2>2
    <3>3. i \in DOMAIN w.pr
      <4>1. w.n \in Nat /\ w.n \in 1..MaxConns /\ MaxConns \in Nat
        BY <2>2, Handshake12Assumption DEF Inv, CountInv, ServerEarly
      <4> QED
        BY <1>2, <1>3, <4>1
    <3> QED
      BY <3>1, <3>2, <3>3
  <2> QED
    BY <2>1, <2>2
<1> QED
  BY <1>1, <1>2, <1>4 DEF Settled

(* A step of the server on this connection proves nothing of later ones. *)
LEMMA CountStays ==
  ASSUME NEW w, NEW v, Inv(w), v.n = w.n, w.s.pc # "closed", w.s.pc \in ServerEarly \/ v.s.pc \notin ServerEarly,
         \/ v.pr = w.pr
         \/ v.s.pc \notin ServerEarly /\ \E x : v.pr = [w.pr EXCEPT ![w.n] = x]
  PROVE  CountInv(v)
<1>1. CountInv(w) /\ w.n \in Nat /\ w.n \in 1..MaxConns /\ DOMAIN w.pr = 1..MaxConns
  BY DEF Inv, CountInv
<1>2. CASE v.pr = w.pr
  BY <1>1, <1>2 DEF CountInv
<1>3. CASE v.s.pc \notin ServerEarly /\ \E x : v.pr = [w.pr EXCEPT ![w.n] = x]
  <2>1. PICK x : v.pr = [w.pr EXCEPT ![w.n] = x]
    BY <1>3
  <2>2. DOMAIN v.pr = 1..MaxConns
    BY <1>1, <2>1
  <2>3. ASSUME NEW i \in 1..MaxConns, i > w.n PROVE v.pr[i] = "none"
    <3>1. i # w.n /\ w.pr[i] = "none"
      BY <1>1, <2>3 DEF CountInv
    <3> QED
      BY <1>1, <2>1, <3>1
  <2> QED
    BY <1>1, <1>3, <2>2, <2>3 DEF CountInv
<1> QED
  BY <1>2, <1>3

(* A message of the client moves the server on in a full handshake. *)
LEMMA ServerEarlyCloses ==
  ASSUME HandshakeInv, UNCHANGED <<conn, cfg, cache>>, NEW q, Reads("server", q), Waiting("server"),
         proved' = proved \/ (q.pc = "ccs" /\ \E x : proved' = [proved EXCEPT ![conn] = x]),
         st.server.pc \in {"clientCert", "ckx", "certVerify"}, q.pc \in {"ckx", "certVerify", "ccs"},
         Shape(q), \A z : OutGood("server", st.server.out, z) => OutGood("server", q.out, z),
         SameOffer(st.server, q), SameHello(st.server, q), q.curve = st.server.curve,
         q.pc # "ckx" => q.ems = q.sh.ems,
         q.pc = "ccs" => q.in.next = KeyOf(q, "client") /\ q.out.next = KeyOf(q, "server"),
         ServerAuthInv(World')
  PROVE  HandshakeInv'
<1>1. PICK w : w = World
  OBVIOUS
<1>2. PICK v : v = World'
  OBVIOUS
<1>3. ServerGoes(q)
  BY ServerGoesOn
<1>4. ServerMoves(w, v, q)
  BY <1>1, <1>2, <1>3, ServerMovesIs
<1>5. /\ w.s = st.server /\ w.cf = cfg /\ w.n = conn /\ w.pr = proved
      /\ v.s = q /\ v.cf = w.cf /\ v.n = w.n /\ v.pr = proved' /\ Inv(w)
  BY <1>1, <1>2, <1>4, WorldIs, WorldNext DEF ServerMoves
<1>6. w.s.pc \in ServerEarly /\ w.s.pc # "closed" /\ w.s.pc \notin {"clientHello", "failed", "closed", "complete"}
  BY <1>5 DEF ServerEarly
<1>7. v.pr = w.pr \/ \E x : v.pr = [w.pr EXCEPT ![w.n] = x]
  BY <1>5
<1>8. \A t : Settled(t, w) => Settled(t, v)
  BY <1>5, <1>6, <1>7, SettledStays
<1>9. CountInv(v)
  <2>1. q.pc = "ccs" => v.s.pc \notin ServerEarly
    BY <1>5 DEF ServerEarly
  <2> QED
    BY <1>5, <1>6, <2>1, CountStays
<1>10. /\ v.c.pc = w.c.pc /\ SameHello(w.c, v.c) /\ SameKey(w.c, v.c) /\ SameEnd(w.c, v.c) /\ SameOffer(w.c, v.c)
  BY <1>4 DEF ServerMoves, Same
<1>11. ServerHelloInv(w) /\ LinkInv(w) /\ w.s.sh # <<>> /\ w.s.resumed = FALSE
  BY <1>5, <1>6 DEF Inv, ServerInv, ServerHelloInv
<1>12. OutGood("server", q.out, v)
  <2>1. v.s.sh = w.s.sh /\ v.s.curve = w.s.curve
    BY <1>5 DEF SameHello
  <2>2. OutGood("server", w.s.out, v)
    BY <1>5, <1>6, <2>1, ServerWords
  <2> QED
    BY <1>5, <2>2
<1>13. ServerHelloInv(v)
  BY <1>5, <1>11 DEF ServerHelloInv, SameHello, ServerDone
<1>14. ServerKeyInv(v)
  <2>1. q.resumed = FALSE
    BY <1>5, <1>11 DEF SameHello
  <2> QED
    BY <1>5, <2>1 DEF ServerKeyInv, ServerDone
<1>15. LinkInv(v)
  <2>1. w.c.ticket = NoSession /\ w.c.pc # "complete"
    BY <1>6, <1>11 DEF LinkInv
  <2>2. /\ v.c.sh = w.c.sh /\ v.c.ch = w.c.ch /\ v.c.resumed = w.c.resumed /\ v.c.suite = w.c.suite
        /\ v.c.skx = w.c.skx /\ v.c.curve = w.c.curve /\ v.c.ticket = w.c.ticket
    BY <1>10 DEF SameHello, SameOffer, SameKey, SameEnd
  <2>3. v.s.sh = w.s.sh /\ v.s.ch = w.s.ch /\ v.s.curve = w.s.curve /\ v.s.pc # "complete"
    BY <1>5 DEF SameHello, SameOffer
  <2> QED
    BY <1>6, <1>10, <1>11, <2>1, <2>2, <2>3 DEF LinkInv
<1>16. ServerInv(v)
  BY <1>2, <1>13, <1>14 DEF ServerInv
<1> QED
  BY <1>1, <1>2, <1>3, <1>8, <1>9, <1>12, <1>15, <1>16, ServerCloses

(* The client's Certificate keeps the invariant: it is what ClientAuth asks    *)
(* for.                                                                        *)
LEMMA ClientCertificateStep ==
  ASSUME HandshakeInv, ClientCertificate, UNCHANGED <<conn, cfg, proved>>
  PROVE  HandshakeInv'
<1>0. st.server.pc = "clientCert" /\ Waiting("server") /\ UNCHANGED cache
  BY DEF ClientCertificate
<1>1. PICK cert : cert = Msg("server").body
  OBVIOUS
<1>2. PICK b : b = (cfg.server.auth >= 3 /\ cert # "none")
  OBVIOUS
<1>3. PICK h : h = Heard(st.server, "Certificate")
  OBVIOUS
<1>4. PICK q : q = [h EXCEPT !.peerCert = cert, !.verified = b, !.pc = "ckx"]
  OBVIOUS
<1>5. \/ Goes("server", Fail(st.server))
      \/ /\ Sees("server", "Certificate") /\ Reads("server", q)
         /\ cfg.server.auth \in {2, 4} => cert # "none"
         /\ cfg.server.auth >= 3 /\ cert # "none" => cert \in cfg.server.cas
  BY <1>1, <1>2, <1>3, <1>4 DEF ClientCertificate, Fails, RequiresClientCert
<1>6. UNCHANGED <<conn, cfg, proved, cache>>
  BY <1>0
<1>7. CASE Goes("server", Fail(st.server))
  BY <1>0, <1>6, <1>7, ServerFails
<1>8. ASSUME Sees("server", "Certificate"), Reads("server", q),
             cfg.server.auth \in {2, 4} => cert # "none",
             cfg.server.auth >= 3 /\ cert # "none" => cert \in cfg.server.cas
      PROVE  HandshakeInv'
  <2>1. PICK w : w = World
    OBVIOUS
  <2>2. w.s = st.server /\ w.cf = cfg /\ Inv(w) /\ World'.s = st'.server /\ World'.cf = cfg /\ World'.n = w.n
    BY <1>6, <2>1, WorldIs, WorldNext DEF HandshakeInv
  <2>3. Good("client", "Certificate", cert, w)
    BY <1>1, <1>8, <2>1, MsgGood DEF Sees
  <2>4. cert = cfg.client.cert
    BY <2>2, <2>3 DEF Good, ClientMsg
  <2>5. Shape(h) /\ Same(st.server, h) /\ h.out = st.server.out
    BY <1>3, FormOf, HeardSame
  <2>6. /\ Shape(q) /\ q.pc = "ckx" /\ q.out = h.out /\ q.peerCert = cert /\ q.verified = b
        /\ SameOffer(h, q) /\ SameHello(h, q) /\ q.curve = h.curve
    BY <1>4, <2>5 DEF Shape, Fields, SameOffer, SameHello
  <2>7. SameOffer(st.server, q) /\ SameHello(st.server, q) /\ q.curve = st.server.curve
    BY <2>5, <2>6 DEF Same, SameOffer, SameHello, SameKey
  <2>8. ServerGoes(q)
    BY <1>0, <1>8, ServerGoesOn
  <2>9. World'.s = q
    BY <2>8 DEF ServerGoes
  <2>10. ServerPolicy(q, cfg.server)
    <3>1. cfg.server.auth >= 1
      BY <1>0, <2>2 DEF Inv, ServerInv, ServerAuthInv
    <3>2. cfg.server.auth # 0
      BY <3>1
    <3>3. cfg.server.auth >= 3 /\ cert # "none" => b
      BY <1>2
    <3> QED
      BY <1>8, <2>6, <3>2, <3>3 DEF ServerPolicy
  <2>11. ServerAuthInv(World')
    BY <2>2, <2>4, <2>6, <2>9, <2>10 DEF ServerAuthInv, ServerDone
  <2> QED
    BY <1>0, <1>6, <1>8, <2>5, <2>6, <2>7, <2>11, ServerEarlyCloses
<1> QED
  BY <1>5, <1>7, <1>8

(* ClientKeyExchange keeps the invariant. *)
LEMMA ClientKeyExchangeStep ==
  ASSUME HandshakeInv, ClientKeyExchange, UNCHANGED <<conn, cfg, proved>>
  PROVE  HandshakeInv'
<1>0. st.server.pc = "ckx" /\ Waiting("server") /\ UNCHANGED cache
  BY DEF ClientKeyExchange
<1>1. PICK a : a = VerifyConnection("server", st.server)
  OBVIOUS
<1>2. PICK r : r = Heard(a, "ClientKeyExchange")
  OBVIOUS
<1>3. PICK master : master = MasterSecret(r.sh.ems, r.th)
  OBVIOUS
<1>4. PICK rm : rm = [r EXCEPT !.ems = r.sh.ems, !.master = master]
  OBVIOUS
<1>5. PICK q1 : q1 = [rm EXCEPT !.pc = "certVerify"]
  OBVIOUS
<1>6. PICK k : k = EstablishKeys("server", rm)
  OBVIOUS
<1>7. PICK q2 : q2 = [k EXCEPT !.pc = "ccs"]
  OBVIOUS
<1>8. \/ Goes("server", Fail(st.server))
      \/ r.peerCert # "none" /\ Reads("server", q1)
      \/ r.peerCert = "none" /\ Reads("server", q2)
  BY <1>1, <1>2, <1>3, <1>4, <1>5, <1>6, <1>7 DEF ClientKeyExchange, Fails
<1>9. UNCHANGED <<conn, cfg, proved, cache>>
  BY <1>0
<1>10. CASE Goes("server", Fail(st.server))
  BY <1>0, <1>9, <1>10, ServerFails
<1>11. PICK w : w = World
  OBVIOUS
<1>12. /\ w.s = st.server /\ w.cf = cfg /\ w.n = conn /\ w.pr = proved /\ Inv(w)
       /\ World'.s = st'.server /\ World'.cf = cfg /\ World'.n = w.n /\ World'.pr = w.pr
  BY <1>9, <1>11, WorldIs, WorldNext DEF HandshakeInv
<1>13. /\ ServerPolicy(w.s, w.cf.server) /\ w.s.peerCert \in {"none", w.cf.client.cert}
       /\ w.n \in 1..w.n /\ w.pr[w.n] = "none"
  <2>1. ServerAuthInv(w) /\ CountInv(w)
    BY <1>12 DEF Inv, ServerInv
  <2>2. w.n \in Nat /\ w.n \in 1..MaxConns
    BY <1>0, <1>12, <2>1 DEF CountInv
  <2>3. w.n \in 1..w.n
    BY <2>2
  <2>4. w.pr[w.n] = "none"
    BY <1>0, <1>12, <2>1, <2>2 DEF CountInv, ServerEarly
  <2> QED
    BY <1>0, <1>12, <2>1, <2>3, <2>4 DEF ServerAuthInv
<1>14. /\ Shape(a) /\ a.in = w.s.in /\ a.out = w.s.out
       /\ SameOffer(w.s, a) /\ SameHello(w.s, a) /\ SameKey(w.s, a)
       /\ a.peerCert = w.s.peerCert /\ a.verified = w.s.verified /\ (cfg["server"].verify # "nil" => a.saw = View(a))
  BY <1>1, <1>12, FormOf, VerifyIs
<1>15. Shape(r) /\ Same(a, r) /\ r.in = a.in /\ r.out = a.out
  BY <1>2, <1>14, HeardSame
<1>16. /\ Shape(rm) /\ rm.in = r.in /\ rm.out = r.out /\ rm.ems = r.sh.ems /\ rm.master = master
       /\ SameOffer(r, rm) /\ SameHello(r, rm)
  BY <1>4, <1>15 DEF Shape, Fields, SameOffer, SameHello
<1>17. SameAuth(r, rm) /\ rm.curve = r.curve
  BY <1>4, <1>15 DEF Shape, Fields, SameAuth
<1>18. master.conn = w.n
  BY <1>3, <1>12 DEF MasterSecret
<1>19. SameOffer(w.s, rm) /\ SameHello(w.s, rm) /\ SameHello(a, rm) /\ rm.curve = w.s.curve /\ rm.ems = rm.sh.ems
  BY <1>14, <1>15, <1>16, <1>17 DEF Same, SameOffer, SameHello, SameKey
<1>20. SameAuth(a, rm) /\ rm.peerCert = w.s.peerCert /\ rm.verified = w.s.verified
  BY <1>14, <1>15, <1>17 DEF Same, SameAuth
<1>21. View(rm) = View(a)
  BY <1>19, <1>20, ViewSame DEF SameAuth
<1>22. cfg.server.verify # "nil" => rm.saw = View(rm)
  BY <1>14, <1>20, <1>21 DEF SameAuth
<1>23. rm.out = w.s.out /\ r.peerCert = w.s.peerCert
  BY <1>14, <1>15, <1>16 DEF Same, SameAuth
<1>24. ASSUME NEW q, Same(rm, q), q.pc \in {"certVerify", "ccs"}, ServerGoes(q),
              q.pc = "certVerify" <=> r.peerCert # "none"
       PROVE  /\ ServerAuthInv(World') /\ SameOffer(st.server, q) /\ SameHello(st.server, q)
              /\ q.curve = st.server.curve /\ q.ems = q.sh.ems
  <2>1. World'.s = q
    BY <1>24 DEF ServerGoes
  <2>2. /\ SameOffer(rm, q) /\ SameHello(rm, q) /\ SameAuth(rm, q) /\ SameKey(rm, q)
    BY <1>24 DEF Same
  <2>3. View(q) = View(rm)
    BY <2>2, ViewSame DEF SameAuth
  <2>4. cfg.server.verify # "nil" => q.saw = View(q)
    BY <1>22, <2>2, <2>3 DEF SameAuth
  <2>5. q.peerCert = w.s.peerCert /\ q.verified = w.s.verified /\ q.master.conn = w.n
    BY <1>16, <1>18, <1>20, <2>2 DEF SameAuth, SameKey
  <2>6. ServerPolicy(q, cfg.server)
    BY <1>12, <1>13, <2>5 DEF ServerPolicy
  <2>7. ServerAuthInv(World')
    BY <1>12, <1>13, <1>23, <1>24, <2>1, <2>4, <2>5, <2>6 DEF ServerAuthInv, ServerDone
  <2> QED
    BY <1>12, <1>19, <2>2, <2>7 DEF SameOffer, SameHello, SameKey
<1>25. CASE r.peerCert # "none" /\ Reads("server", q1)
  <2>1. Shape(q1) /\ Same(rm, q1) /\ q1.pc = "certVerify" /\ q1.out = rm.out
    BY <1>5, <1>16, SetPc, SMTT(30)
  <2>2. ServerGoes(q1)
    BY <1>0, <1>9, <1>25, ServerGoesOn
  <2>3. /\ ServerAuthInv(World') /\ SameOffer(st.server, q1) /\ SameHello(st.server, q1)
        /\ q1.curve = st.server.curve /\ q1.ems = q1.sh.ems
    BY <1>24, <1>25, <2>1, <2>2
  <2>4. q1.out = st.server.out
    BY <1>12, <1>23, <2>1
  <2> QED
    BY <1>0, <1>9, <1>25, <2>1, <2>3, <2>4, ServerEarlyCloses
<1>26. CASE r.peerCert = "none" /\ Reads("server", q2)
  <2>1. ASSUME NEW z, OutGood("server", st.server.out, z)
        PROVE  /\ Shape(k) /\ Same(rm, k) /\ OutGood("server", k.out, z)
               /\ k.in.next = [secret |-> rm.master, by |-> Peer("server")]
               /\ k.out.next = [secret |-> rm.master, by |-> "server"]
    <3>1. OutGood("server", rm.out, z)
      BY <1>12, <1>23, <2>1
    <3> QED
      BY <1>6, <1>16, <3>1, EstablishIs
  <2>2. /\ Shape(k) /\ Same(rm, k)
        /\ k.in.next = [secret |-> rm.master, by |-> Peer("server")]
        /\ k.out.next = [secret |-> rm.master, by |-> "server"]
    BY <2>1, FormOf
  <2>3. Shape(q2) /\ Same(k, q2) /\ q2.pc = "ccs" /\ q2.out = k.out /\ q2.in = k.in
    BY <1>7, <2>2, SetPc
  <2>4. Same(rm, q2)
    BY <2>2, <2>3, SameTransitive
  <2>5. q2.in.next = KeyOf(q2, "client") /\ q2.out.next = KeyOf(q2, "server")
    BY <2>2, <2>3, <2>4 DEF KeyOf, Peer, Same, SameKey
  <2>6. ServerGoes(q2)
    BY <1>0, <1>9, <1>26, ServerGoesOn
  <2>7. /\ ServerAuthInv(World') /\ SameOffer(st.server, q2) /\ SameHello(st.server, q2)
        /\ q2.curve = st.server.curve /\ q2.ems = q2.sh.ems
    BY <1>24, <1>26, <2>3, <2>4, <2>6
  <2>8. \A z : OutGood("server", st.server.out, z) => OutGood("server", q2.out, z)
    BY <2>1, <2>3
  <2> QED
    BY <1>0, <1>9, <1>26, <2>3, <2>5, <2>7, <2>8, ServerEarlyCloses
<1> QED
  BY <1>8, <1>10, <1>25, <1>26

(* CertificateVerify keeps the invariant: the certificate is now proved. *)
LEMMA CertificateVerifyStep ==
  ASSUME HandshakeInv, CertificateVerify, UNCHANGED <<conn, cfg>>
  PROVE  HandshakeInv'
<1>0. st.server.pc = "certVerify" /\ Waiting("server") /\ UNCHANGED cache
  BY DEF CertificateVerify
<1>1. PICK h : h = Heard(st.server, "CertificateVerify")
  OBVIOUS
<1>2. PICK k : k = EstablishKeys("server", h)
  OBVIOUS
<1>3. PICK q : q = [k EXCEPT !.pc = "ccs"]
  OBVIOUS
<1>4. \/ Goes("server", Fail(st.server)) /\ UNCHANGED proved
      \/ Reads("server", q) /\ proved' = [proved EXCEPT ![conn] = cfg.client.cert]
  BY <1>1, <1>2, <1>3 DEF CertificateVerify, Fails
<1>5. CASE Goes("server", Fail(st.server)) /\ UNCHANGED proved
  BY <1>0, <1>5, ServerFails
<1>6. CASE Reads("server", q) /\ proved' = [proved EXCEPT ![conn] = cfg.client.cert]
  <2>1. PICK w : w = World
    OBVIOUS
  <2>2. /\ w.s = st.server /\ w.cf = cfg /\ w.n = conn /\ w.pr = proved /\ Inv(w)
        /\ World'.s = st'.server /\ World'.cf = cfg /\ World'.n = w.n /\ World'.pr = proved'
    BY <2>1, WorldIs, WorldNext DEF HandshakeInv
  <2>3. ServerAuthInv(w) /\ CountInv(w) /\ ServerHelloInv(w)
    BY <2>2 DEF Inv, ServerInv
  <2>4. Shape(h) /\ Same(w.s, h) /\ h.out = w.s.out
    BY <1>1, <2>2, FormOf, HeardSame
  <2>5. ASSUME NEW z, OutGood("server", st.server.out, z)
        PROVE  /\ Shape(k) /\ Same(h, k) /\ OutGood("server", k.out, z)
               /\ k.in.next = [secret |-> h.master, by |-> Peer("server")]
               /\ k.out.next = [secret |-> h.master, by |-> "server"]
    <3>1. OutGood("server", h.out, z)
      BY <2>2, <2>4, <2>5
    <3> QED
      BY <1>2, <2>4, <3>1, EstablishIs
  <2>6. /\ Shape(k) /\ Same(h, k)
        /\ k.in.next = [secret |-> h.master, by |-> Peer("server")]
        /\ k.out.next = [secret |-> h.master, by |-> "server"]
    BY <2>5, FormOf
  <2>7. Shape(q) /\ Same(k, q) /\ q.pc = "ccs" /\ q.out = k.out /\ q.in = k.in
    BY <1>3, <2>6, SetPc
  <2>8. Same(h, q)
    BY <2>6, <2>7, SameTransitive
  <2>9. Same(w.s, q)
    BY <2>4, <2>8, SameTransitive
  <2>10. q.in.next = KeyOf(q, "client") /\ q.out.next = KeyOf(q, "server")
    BY <2>6, <2>7, <2>8 DEF KeyOf, Peer, Same, SameKey
  <2>11. ServerGoes(q)
    BY <1>0, <1>6, ServerGoesOn
  <2>12. World'.s = q
    BY <2>11 DEF ServerGoes
  <2>13. SameOffer(w.s, q) /\ SameHello(w.s, q) /\ SameAuth(w.s, q) /\ SameKey(w.s, q)
    BY <2>9 DEF Same
  <2>14. View(q) = View(w.s)
    BY <2>13, ViewSame DEF SameAuth
  <2>15. w.n \in Nat /\ w.n \in 1..MaxConns /\ DOMAIN w.pr = 1..MaxConns
    BY <1>0, <2>2, <2>3 DEF CountInv
  <2>16. w.n \in 1..w.n /\ World'.pr[w.n] = cfg.client.cert
    BY <1>6, <2>2, <2>15
  <2>17. q.master.conn = w.n /\ q.peerCert = cfg.client.cert /\ ServerPolicy(w.s, cfg.server)
    BY <1>0, <2>2, <2>3, <2>13 DEF ServerAuthInv, SameAuth, SameKey
  <2>18. ServerPolicy(q, cfg.server)
    BY <2>13, <2>17 DEF ServerPolicy, SameAuth
  <2>19. cfg.server.verify # "nil" => q.saw = View(q)
    BY <1>0, <2>2, <2>3, <2>13, <2>14 DEF ServerAuthInv, SameAuth
  <2>20. ServerAuthInv(World')
    BY <2>2, <2>7, <2>12, <2>16, <2>17, <2>18, <2>19 DEF ServerAuthInv
  <2>21. q.ems = q.sh.ems /\ q.curve = w.s.curve
    <3>1. w.s.resumed = FALSE
      BY <1>0, <2>2, <2>3 DEF ServerHelloInv, ServerEarly
    <3>2. w.s.ems = w.s.sh.ems
      BY <1>0, <2>2, <2>3, <3>1 DEF ServerHelloInv
    <3> QED
      BY <2>13, <3>2 DEF SameKey, SameHello
  <2>22. \A z : OutGood("server", st.server.out, z) => OutGood("server", q.out, z)
    BY <2>5, <2>7
  <2>23. \E x : proved' = [proved EXCEPT ![conn] = x]
    BY <1>6
  <2> QED
    BY <1>0, <1>6, <2>2, <2>7, <2>10, <2>13, <2>20, <2>21, <2>22, <2>23, ServerEarlyCloses
<1> QED
  BY <1>4, <1>5, <1>6

(* The server reads the client's last messages. *)
LEMMA ServerLateCloses ==
  ASSUME HandshakeInv, UNCHANGED <<conn, cfg, proved, cache>>, NEW q, Reads("server", q), Waiting("server"),
         st.server.pc \in {"ccs", "finished"}, q.pc \in {"finished", "complete"},
         Shape(q), OutGood("server", q.out, World'),
         SameOffer(st.server, q), SameHello(st.server, q), SameAuth(st.server, q), SameKey(st.server, q),
         q.serverFinished = st.server.serverFinished, q.in.key = KeyOf(q, "client"),
         q.pc = "finished" /\ ~q.resumed => q.out.next = KeyOf(q, "server"),
         q.pc = "complete" \/ q.resumed => q.out.key = KeyOf(q, "server") /\ Clean(q.out),
         q.resumed => q.clientFinishedIsFirst = FALSE,
         q.pc = "complete" /\ ~q.resumed =>
            /\ q.clientFinishedIsFirst = TRUE /\ q.clientFinished = st.client.clientFinished
            /\ st.client.pc \notin ClientEarly /\ st.client.sh # <<>>,
         q.pc = "complete" /\ q.resumed => st.client.pc = "complete"
  PROVE  HandshakeInv'
<1>1. PICK w : w = World
  OBVIOUS
<1>2. PICK v : v = World'
  OBVIOUS
<1>3. ServerGoes(q)
  BY ServerGoesOn
<1>4. ServerMoves(w, v, q)
  BY <1>1, <1>2, <1>3, ServerMovesIs
<1>5. /\ w.s = st.server /\ w.c = st.client /\ w.cf = cfg /\ w.n = conn /\ w.pr = proved
      /\ v.s = q /\ v.cf = w.cf /\ v.n = w.n /\ v.pr = w.pr /\ Inv(w)
  BY <1>1, <1>2, <1>4, WorldIs, WorldNext DEF ServerMoves
<1>6. /\ w.s.pc \notin ServerEarly /\ v.s.pc \notin ServerEarly /\ w.s.pc # "closed" /\ w.s.pc \in ServerDone
      /\ v.s.pc \in ServerDone /\ w.s.pc # "complete"
  BY <1>5 DEF ServerEarly, ServerDone
<1>7. (\A t : Settled(t, w) => Settled(t, v)) /\ CountInv(v)
  BY <1>5, <1>6, SettledStays, CountStays
<1>8. /\ v.c.pc = w.c.pc /\ SameHello(w.c, v.c) /\ SameKey(w.c, v.c) /\ SameEnd(w.c, v.c) /\ SameOffer(w.c, v.c)
  BY <1>4 DEF ServerMoves, Same
<1>9. ServerHelloInv(w) /\ ServerAuthInv(w) /\ LinkInv(w) /\ w.s.sh # <<>> /\ w.s.resumed \in BOOLEAN
  BY <1>5, <1>6 DEF Inv, ServerInv, ServerHelloInv, ServerDone
<1>10. ServerHelloInv(v)
  BY <1>5, <1>6, <1>9 DEF ServerHelloInv, SameHello, SameKey, SameOffer
<1>11. ServerAuthInv(v)
  <2>1. View(q) = View(w.s)
    BY <1>5, ViewSame DEF SameAuth
  <2>2. ServerPolicy(q, cfg.server)
    BY <1>5, <1>6, <1>9 DEF ServerPolicy, ServerAuthInv, SameAuth
  <2>3. q.master.conn \in 1..w.n /\ q.peerCert = w.pr[q.master.conn]
    BY <1>5, <1>6, <1>9 DEF ServerAuthInv, SameAuth, SameKey
  <2>4. w.cf.server.verify # "nil" => q.saw = View(q)
    BY <1>5, <1>6, <1>9, <2>1 DEF ServerAuthInv, SameAuth
  <2> QED
    BY <1>5, <2>2, <2>3, <2>4 DEF ServerAuthInv
<1>12. ServerKeyInv(v)
  <2>1. q.resumed \in BOOLEAN
    BY <1>5, <1>9 DEF SameHello
  <2> QED
    BY <1>5, <2>1 DEF ServerKeyInv
<1>13. LinkInv(v)
  <2>1. /\ v.c.sh = w.c.sh /\ v.c.ch = w.c.ch /\ v.c.resumed = w.c.resumed /\ v.c.suite = w.c.suite
        /\ v.c.skx = w.c.skx /\ v.c.curve = w.c.curve /\ v.c.ticket = w.c.ticket /\ v.c.master = w.c.master
    BY <1>8 DEF SameHello, SameOffer, SameKey, SameEnd
  <2>2. v.c.serverFinished = w.c.serverFinished /\ v.c.clientFinished = w.c.clientFinished
    BY <1>8 DEF SameEnd
  <2>3. /\ v.s.sh = w.s.sh /\ v.s.ch = w.s.ch /\ v.s.curve = w.s.curve /\ v.s.master = w.s.master
        /\ v.s.resumed = w.s.resumed /\ v.s.serverFinished = w.s.serverFinished
    BY <1>5 DEF SameHello, SameOffer, SameKey
  <2>4. SealedBy(w.c.ticket, w.s) => SealedBy(v.c.ticket, v.s)
    BY <1>5, <2>1 DEF SealedBy, SameHello, SameKey
  <2>5. v.c.ticket # NoSession =>
           v.s.pc \notin ServerEarly /\ v.c.sh # <<>> /\ SealedBy(v.c.ticket, v.s) /\ Settled(v.c.ticket, v)
    BY <1>6, <1>7, <1>9, <2>1, <2>4 DEF LinkInv
  <2>6. v.s.pc = "complete" =>
          /\ v.s.resumed => v.c.pc = "complete"
          /\ ~v.s.resumed => /\ v.s.clientFinished = v.c.clientFinished
                             /\ v.c.pc \notin ClientEarly /\ v.c.sh # <<>>
    BY <1>5, <1>8, <2>1, <2>2
  <2>7. v.c.pc = "complete" => /\ v.c.master = v.s.master /\ v.s.pc \notin ServerEarly
                               /\ ~v.c.resumed => v.s.pc = "complete"
                               /\ v.c.resumed => v.c.serverFinished = v.s.serverFinished
    BY <1>6, <1>8, <1>9, <2>1, <2>2, <2>3 DEF LinkInv
  <2> QED
    BY <1>6, <1>8, <1>9, <2>1, <2>3, <2>5, <2>6, <2>7 DEF LinkInv
<1>14. ServerInv(v)
  BY <1>10, <1>11, <1>12 DEF ServerInv
<1> QED
  BY <1>1, <1>2, <1>3, <1>7, <1>13, <1>14, ServerCloses

(* What is known of a server that has the keys. *)
LEMMA LateState ==
  ASSUME HandshakeInv, st.server.pc \in {"ccs", "finished"}
  PROVE  /\ st.server.sh # <<>> /\ st.server.resumed \in BOOLEAN
         /\ st.server.pc = "ccs" => st.server.in.next = KeyOf(st.server, "client")
         /\ st.server.pc = "finished" => st.server.in.key = KeyOf(st.server, "client")
         /\ ~st.server.resumed => st.server.out.next = KeyOf(st.server, "server")
         /\ st.server.resumed => /\ st.server.out.key = KeyOf(st.server, "server") /\ Clean(st.server.out)
                                 /\ st.server.clientFinishedIsFirst = FALSE
         /\ Settled(TicketOf(st.server), World)
<1>1. PICK w : w = World
  OBVIOUS
<1>2. Inv(w) /\ w.s = st.server /\ w.n = conn /\ w.pr = proved
  BY <1>1, WorldIs DEF HandshakeInv
<1>3. ServerHelloInv(w) /\ ServerKeyInv(w) /\ ServerAuthInv(w)
  BY <1>2 DEF Inv, ServerInv
<1>4. w.s.sh # <<>> /\ w.s.resumed \in BOOLEAN
  BY <1>2, <1>3 DEF ServerHelloInv
<1>5. /\ w.s.pc = "ccs" => w.s.in.next = KeyOf(w.s, "client")
      /\ w.s.pc = "finished" => w.s.in.key = KeyOf(w.s, "client")
      /\ ~w.s.resumed => w.s.out.next = KeyOf(w.s, "server")
      /\ w.s.resumed => /\ w.s.out.key = KeyOf(w.s, "server") /\ Clean(w.s.out)
                        /\ w.s.clientFinishedIsFirst = FALSE
  BY <1>2, <1>3 DEF ServerKeyInv, ServerDone
<1>6. PICK t : t = TicketOf(w.s)
  OBVIOUS
<1>7. t.secret = w.s.master /\ t.peerCert = w.s.peerCert
  BY <1>6 DEF TicketOf
<1>8. Settled(t, w)
  BY <1>2, <1>3, <1>7 DEF Settled, ServerAuthInv, ServerDone, ServerEarly
<1> QED
  BY <1>1, <1>2, <1>4, <1>5, <1>6, <1>8

(* The client's ChangeCipherSpec keeps the invariant. *)
LEMMA ServerReadCCSStep ==
  ASSUME HandshakeInv, ReadCCS("server"), UNCHANGED <<conn, cfg, proved>>
  PROVE  HandshakeInv'
<1>0. st.server.pc = "ccs" /\ Waiting("server")
  BY DEF ReadCCS
<1>1. PICK q : q = [st.server EXCEPT !.in = ChangeCipherSpec(@), !.pc = "finished"]
  OBVIOUS
<1>2. (Goes("server", Fail(st.server)) \/ Reads("server", q)) /\ UNCHANGED <<conn, cfg, proved, cache>>
  BY <1>1 DEF ReadCCS, Fails
<1>3. CASE Goes("server", Fail(st.server))
  BY <1>0, <1>2, <1>3, ServerFails
<1>4. CASE Reads("server", q)
  <2>1. Shape(q) /\ Same(st.server, q) /\ q.pc = "finished" /\ q.in.key = st.server.in.next /\ q.out = st.server.out
    BY <1>1, FormOf, ChangedIs
  <2>2. /\ SameOffer(st.server, q) /\ SameHello(st.server, q) /\ SameAuth(st.server, q) /\ SameKey(st.server, q)
        /\ SameEnd(st.server, q)
    BY <2>1 DEF Same
  <2>3. KeyOf(q, "client") = KeyOf(st.server, "client") /\ KeyOf(q, "server") = KeyOf(st.server, "server")
    BY <2>2 DEF KeyOf, SameKey
  <2>4. q.in.key = KeyOf(q, "client")
    BY <1>0, <2>1, <2>3, LateState
  <2>5. /\ q.pc = "finished" /\ ~q.resumed => q.out.next = KeyOf(q, "server")
        /\ q.pc = "complete" \/ q.resumed => q.out.key = KeyOf(q, "server") /\ Clean(q.out)
        /\ q.resumed => q.clientFinishedIsFirst = FALSE
        /\ q.serverFinished = st.server.serverFinished /\ q.pc # "complete"
    BY <1>0, <2>1, <2>2, <2>3, LateState DEF SameHello, SameEnd
  <2>6. OutGood("server", q.out, World')
    <3>1. PICK w : w = World
      OBVIOUS
    <3>2. PICK v : v = World'
      OBVIOUS
    <3>3. ServerGoes(q)
      BY <1>0, <1>2, <1>4, ServerGoesOn
    <3>4. /\ w.s = st.server /\ v.s = q /\ v.n = w.n /\ v.pr = w.pr /\ Inv(w)
      BY <1>2, <3>1, <3>2, <3>3, WorldIs, WorldNext DEF ServerGoes, HandshakeInv
    <3>5. v.s.pc \notin ServerEarly /\ w.s.pc # "complete"
      BY <1>0, <2>1, <3>4 DEF ServerEarly
    <3>6. \A t : Settled(t, w) => Settled(t, v)
      BY <3>4, <3>5, SettledStays
    <3>7. OutGood("server", w.s.out, v)
      BY <2>2, <2>5, <3>4, <3>5, <3>6, ServerWords
    <3> QED
      BY <2>1, <3>2, <3>4, <3>7
  <2> QED
    BY <1>0, <1>2, <1>4, <2>1, <2>2, <2>4, <2>5, <2>6, ServerLateCloses
<1> QED
  BY <1>2, <1>3, <1>4

(* What a ticket depends on. *)
LEMMA TicketSame ==
  ASSUME NEW r, NEW q, SameHello(r, q), SameKey(r, q), SameAuth(r, q)
  PROVE  TicketOf(q) = TicketOf(r)
BY DEF TicketOf, SameHello, SameKey, SameAuth

(* A ticket of the server's state is sealed by it. *)
LEMMA SealedIs ==
  ASSUME NEW r, NEW s, SameHello(r, s), SameKey(r, s)
  PROVE  SealedBy(TicketOf(r), s)
BY DEF TicketOf, SealedBy, SameHello, SameKey

(* The last flight of the server in a full handshake. *)
LEMMA LastFlightIs ==
  ASSUME NEW r, NEW z, Shape(r), OutGood("server", r.out, z), z.s.pc = "complete", z.s.sh # <<>>,
         z.s.resumed = FALSE, SameHello(r, z.s), SameKey(r, z.s), Settled(TicketOf(r), z),
         r.out.next = KeyOf(r, "server")
  PROVE  LET q == LastFlight(r) IN
         /\ Shape(q) /\ OutGood("server", q.out, z) /\ q.pc = r.pc /\ q.in = r.in
         /\ SameOffer(r, q) /\ SameHello(r, q) /\ SameAuth(r, q) /\ SameKey(r, q)
         /\ q.serverFinished = r.serverFinished /\ q.clientFinished = Msg("server").body
         /\ q.clientFinishedIsFirst = TRUE /\ q.out.key = KeyOf(q, "server") /\ Clean(q.out)
<1>1. PICK body : body = Msg("server").body
  OBVIOUS
<1>2. PICK a : a = [r EXCEPT !.clientFinished = body, !.clientFinishedIsFirst = TRUE]
  OBVIOUS
<1>3. /\ Shape(a) /\ a.out = r.out /\ a.in = r.in /\ a.pc = r.pc /\ a.clientFinished = body
      /\ a.clientFinishedIsFirst = TRUE /\ a.serverFinished = r.serverFinished /\ SameOffer(r, a) /\ SameHello(r, a)
  BY <1>2 DEF Shape, Fields, SameOffer, SameHello
<1>4. SameAuth(r, a) /\ SameKey(r, a)
  BY <1>2 DEF Shape, Fields, SameAuth, SameKey
<1>5. PICK b : b = Buffer(a)
  OBVIOUS
<1>6. Kept("server", a, b, z) /\ b.out.next = a.out.next
  BY <1>3, <1>5, BufferIs
<1>7. PICK t : t = TicketOf(b)
  OBVIOUS
<1>8. t = TicketOf(r)
  <2>1. SameHello(r, b) /\ SameKey(r, b) /\ SameAuth(r, b)
    BY <1>3, <1>4, <1>6 DEF Kept, Same, SameHello, SameKey, SameAuth
  <2> QED
    BY <1>7, <2>1, TicketSame
<1>9. PICK cond : cond = b.sh.ticketSupported
  OBVIOUS
<1>10. PICK d : d = SaysIf(cond, b, "NewSessionTicket", t)
  OBVIOUS
<1>11. Kept("server", b, d, z) /\ d.out.next = b.out.next
  <2>1. SealedBy(t, z.s) /\ Settled(t, z)
    BY <1>8, SealedIs
  <2>2. Good("server", "NewSessionTicket", t, z)
    BY <2>1 DEF Good, ServerMsg, ServerEarly
  <2>3. Shape(b) /\ OutGood("server", b.out, z)
    BY <1>6 DEF Kept
  <2> QED
    BY <1>10, <2>2, <2>3, SaysIfIs
<1>12. Kept("server", a, d, z)
  BY <1>6, <1>11, KeptTransitive
<1>13. PICK f : f = SendFinished("server", d)
  OBVIOUS
<1>14. Kept("server", d, f, z) /\ f.out.key = d.out.next /\ Flushable(f.out)
  <2>1. Good("server", "ChangeCipherSpec", <<>>, z)
    BY DEF Good, ServerMsg
  <2>2. d.master = z.s.master
    BY <1>4, <1>12 DEF Kept, Same, SameKey
  <2>3. PICK fin : fin = Finish("server", d)
    OBVIOUS
  <2>4. fin.secret = z.s.master
    BY <2>2, <2>3 DEF Finish
  <2>5. Good("server", "Finished", fin, z)
    BY <2>4 DEF Good, ServerMsg, ServerEarly
  <2>6. Shape(d) /\ OutGood("server", d.out, z)
    BY <1>12 DEF Kept
  <2> QED
    BY <1>13, <2>1, <2>3, <2>5, <2>6, SendFinishedIs
<1>15. Kept("server", a, f, z)
  BY <1>12, <1>14, KeptTransitive
<1>16. PICK q : q = Flush(f)
  OBVIOUS
<1>17. Kept("server", f, q, z) /\ q.out.key = f.out.key /\ Clean(q.out)
  BY <1>14, <1>15, <1>16, FlushIs DEF Kept
<1>18. Kept("server", a, q, z)
  BY <1>15, <1>17, KeptTransitive
<1>19. SameOffer(r, q) /\ SameHello(r, q) /\ SameAuth(r, q) /\ SameKey(r, q)
  BY <1>3, <1>4, <1>18 DEF Kept, Same, SameOffer, SameHello, SameAuth, SameKey
<1>20. q.serverFinished = r.serverFinished /\ q.clientFinished = body /\ q.clientFinishedIsFirst = TRUE
  BY <1>3, <1>18 DEF Kept, Same, SameEnd
<1>21. q.out.key = KeyOf(q, "server")
  BY <1>3, <1>6, <1>11, <1>14, <1>17, <1>19 DEF KeyOf, SameKey
<1>22. LastFlight(r) = q
  BY <1>1, <1>2, <1>5, <1>7, <1>9, <1>10, <1>13, <1>16 DEF LastFlight, SendSessionTicket
<1> QED
  BY <1>1, <1>3, <1>17, <1>18, <1>19, <1>20, <1>21, <1>22 DEF Kept

(* The client's Finished keeps the invariant. *)
LEMMA ClientFinishedStep ==
  ASSUME HandshakeInv, ClientFinished, UNCHANGED <<conn, cfg, proved>>
  PROVE  HandshakeInv'
<1>1. PICK h : h = Heard(st.server, "Finished")
  OBVIOUS
<1>2. PICK r : r = [h EXCEPT !.pc = "complete"]
  OBVIOUS
<1>3. PICK y : y = LastFlight(r)
  OBVIOUS
<1>4. /\ \/ FinishedOK("server") /\ st.server.resumed /\ Reads("server", r)
         \/ FinishedOK("server") /\ ~st.server.resumed /\ Reads("server", y)
         \/ Goes("server", Fail(st.server))
      /\ st.server.pc = "finished" /\ Waiting("server") /\ UNCHANGED <<conn, cfg, proved, cache>>
  BY <1>1, <1>2, <1>3 DEF ClientFinished, FinishedOK, FinishedBad, Fails, Sees
<1>5. CASE Goes("server", Fail(st.server))
  BY <1>4, <1>5, ServerFails
<1>6. PICK w : w = World
  OBVIOUS
<1>7. PICK v : v = World'
  OBVIOUS
<1>8. /\ w.s = st.server /\ w.c = st.client /\ w.n = conn /\ w.pr = proved
      /\ v.n = w.n /\ v.pr = w.pr /\ Inv(w)
  BY <1>4, <1>6, <1>7, WorldIs, WorldNext DEF HandshakeInv
<1>9. /\ w.s.sh # <<>> /\ w.s.resumed \in BOOLEAN
      /\ w.s.in.key = KeyOf(w.s, "client")
      /\ ~w.s.resumed => w.s.out.next = KeyOf(w.s, "server")
      /\ w.s.resumed => w.s.out.key = KeyOf(w.s, "server") /\ Clean(w.s.out) /\ w.s.clientFinishedIsFirst = FALSE
      /\ Settled(TicketOf(w.s), w)
  BY <1>4, <1>6, <1>8, LateState
<1>10. Shape(h) /\ Same(w.s, h) /\ h.in = w.s.in /\ h.out = w.s.out
  BY <1>1, <1>8, FormOf, HeardSame
<1>11. Shape(r) /\ Same(h, r) /\ r.pc = "complete" /\ r.in = h.in /\ r.out = h.out
  BY <1>2, <1>10, SetPc
<1>12. Same(w.s, r)
  BY <1>10, <1>11, SameTransitive
<1>13. SameOffer(w.s, r) /\ SameHello(w.s, r) /\ SameAuth(w.s, r) /\ SameKey(w.s, r) /\ SameEnd(w.s, r)
  BY <1>12 DEF Same
<1>14. KeyOf(r, "client") = KeyOf(w.s, "client") /\ KeyOf(r, "server") = KeyOf(w.s, "server")
  BY <1>13 DEF KeyOf, SameKey
<1>15. ASSUME NEW z, z.s.pc = "complete", z.n = w.n, z.pr = w.pr, SameHello(r, z.s), SameKey(r, z.s),
              z.s.serverFinished = r.serverFinished
       PROVE  OutGood("server", r.out, z) /\ \A t : Settled(t, w) => Settled(t, z)
  <2>1. z.s.pc \notin ServerEarly /\ w.s.pc # "complete"
    BY <1>4, <1>8, <1>15 DEF ServerEarly
  <2>2. \A t : Settled(t, w) => Settled(t, z)
    BY <1>8, <1>15, <2>1, SettledStays
  <2>3. SameHello(w.s, z.s) /\ SameKey(w.s, z.s) /\ z.s.serverFinished = w.s.serverFinished
    BY <1>13, <1>15 DEF SameHello, SameKey, SameEnd
  <2>4. OutGood("server", w.s.out, z)
    BY <1>8, <2>1, <2>2, <2>3, ServerWords
  <2> QED
    BY <1>10, <1>11, <2>2, <2>4
<1>16. ASSUME FinishedOK("server")
       PROVE  /\ w.c.pc \notin ClientEarly /\ w.c.sh # <<>> /\ Msg("server").body = w.c.clientFinished
              /\ w.s.resumed => w.c.pc = "complete"
  <2>1. Good("client", "Finished", Msg("server").body, w)
    BY <1>6, <1>16, MsgGood DEF FinishedOK, Sees
  <2>2. /\ w.c.pc \notin ClientEarly /\ w.c.sh # <<>> /\ Msg("server").body = w.c.clientFinished
        /\ w.c.resumed => w.c.pc = "complete"
    BY <2>1 DEF Good, ClientMsg
  <2>3. w.s.resumed = w.c.resumed
    BY <1>8, <1>9, <2>2 DEF Inv, ClientInv, ServerInv, LinkInv, ClientHelloInv, ServerHelloInv
  <2> QED
    BY <2>2, <2>3
<1>17. CASE FinishedOK("server") /\ st.server.resumed /\ Reads("server", r)
  <2>1. ServerGoes(r)
    BY <1>4, <1>17, ServerGoesOn
  <2>2. v.s = r
    BY <1>7, <2>1 DEF ServerGoes
  <2>3. OutGood("server", r.out, v)
    BY <1>8, <1>11, <1>15, <2>2 DEF SameHello, SameKey
  <2>4. r.resumed = TRUE /\ w.s.resumed = TRUE
    BY <1>8, <1>9, <1>13, <1>17 DEF SameHello
  <2>5. /\ r.out.key = KeyOf(r, "server") /\ Clean(r.out) /\ r.clientFinishedIsFirst = FALSE
        /\ r.in.key = KeyOf(r, "client") /\ r.serverFinished = w.s.serverFinished
    BY <1>9, <1>10, <1>11, <1>13, <1>14, <2>4 DEF SameEnd
  <2>6. w.c.pc = "complete"
    BY <1>16, <1>17, <2>4
  <2> QED
    BY <1>4, <1>7, <1>8, <1>11, <1>13, <1>17, <2>3, <2>4, <2>5, <2>6, ServerLateCloses
<1>18. CASE FinishedOK("server") /\ ~st.server.resumed /\ Reads("server", y)
  <2>1. ServerGoes(y)
    BY <1>4, <1>18, ServerGoesOn
  <2>2. v.s = y
    BY <1>7, <2>1 DEF ServerGoes
  <2>3. w.s.resumed = FALSE /\ r.resumed = FALSE /\ r.sh # <<>>
    BY <1>8, <1>9, <1>13, <1>18 DEF SameHello
  <2>4. r.out.next = KeyOf(r, "server") /\ TicketOf(r) = TicketOf(w.s)
    BY <1>9, <1>10, <1>11, <1>13, <1>14, <2>3, TicketSame
  <2>5. ASSUME NEW z, z.s.pc = "complete", z.n = w.n, z.pr = w.pr, SameHello(r, z.s), SameKey(r, z.s),
               z.s.serverFinished = r.serverFinished
        PROVE  /\ Shape(y) /\ OutGood("server", y.out, z) /\ y.pc = r.pc /\ y.in = r.in
               /\ SameOffer(r, y) /\ SameHello(r, y) /\ SameAuth(r, y) /\ SameKey(r, y)
               /\ y.serverFinished = r.serverFinished /\ y.clientFinished = Msg("server").body
               /\ y.clientFinishedIsFirst = TRUE /\ y.out.key = KeyOf(y, "server") /\ Clean(y.out)
    <3>1. OutGood("server", r.out, z) /\ Settled(TicketOf(r), z)
      BY <1>9, <1>15, <2>4, <2>5
    <3>2. z.s.sh # <<>> /\ z.s.resumed = FALSE
      BY <2>3, <2>5 DEF SameHello
    <3> QED
      BY <1>3, <1>11, <2>4, <2>5, <3>1, <3>2, LastFlightIs
  <2>6. /\ Shape(y) /\ y.pc = r.pc /\ y.in = r.in
        /\ SameOffer(r, y) /\ SameHello(r, y) /\ SameAuth(r, y) /\ SameKey(r, y)
        /\ y.serverFinished = r.serverFinished /\ y.clientFinished = Msg("server").body
        /\ y.clientFinishedIsFirst = TRUE /\ y.out.key = KeyOf(y, "server") /\ Clean(y.out)
    <3>1. PICK z : z = [s |-> r, n |-> w.n, pr |-> w.pr]
      OBVIOUS
    <3>2. z.s = r /\ z.n = w.n /\ z.pr = w.pr
      BY <3>1
    <3>3. SameHello(r, z.s) /\ SameKey(r, z.s)
      BY <3>2 DEF SameHello, SameKey
    <3> QED
      BY <1>11, <2>5, <3>2, <3>3
  <2>7. OutGood("server", y.out, v)
    BY <1>8, <1>11, <2>2, <2>5, <2>6
  <2>8. SameOffer(w.s, y) /\ SameHello(w.s, y) /\ SameAuth(w.s, y) /\ SameKey(w.s, y)
    BY <1>13, <2>6 DEF SameOffer, SameHello, SameAuth, SameKey
  <2>9. y.resumed = FALSE /\ y.in.key = KeyOf(y, "client") /\ y.serverFinished = w.s.serverFinished /\ y.pc = "complete"
    BY <1>9, <1>10, <1>11, <1>13, <2>3, <2>6, <2>8 DEF SameHello, SameEnd, KeyOf, SameKey
  <2>10. y.clientFinished = w.c.clientFinished /\ w.c.pc \notin ClientEarly /\ w.c.sh # <<>>
    BY <1>16, <1>18, <2>6
  <2> QED
    BY <1>4, <1>7, <1>8, <1>18, <2>6, <2>7, <2>8, <2>9, <2>10, ServerLateCloses
<1> QED
  BY <1>4, <1>5, <1>17, <1>18

(* The server answers the ClientHello, and goes on in state q. *)
LEMMA HelloCloses ==
  ASSUME HandshakeInv, UNCHANGED <<conn, cfg, proved, cache>>, NEW q, Reads("server", q), Waiting("server"),
         st.server.pc = "clientHello", q.pc \in {"clientCert", "ckx", "ccs", "failed"},
         Shape(q), OutGood("server", q.out, World'), q.ch = st.client.ch, st.client.pc # "start",
         q.sh # <<>>, q.vers = q.sh.vers, q.suite = q.sh.suite, q.proto = q.sh.proto, q.resumed = q.sh.echo,
         \/ q.resumed = TRUE /\ q.curve = q.ch.ticket.curve /\ q.ems = q.ch.ticket.ems /\ q.pc \in {"ccs", "failed"}
         \/ q.resumed = FALSE /\ (~IsECDHE(q.suite) => q.curve = "none") /\ q.pc \in {"clientCert", "ckx"},
         ServerAuthInv(World'), ServerKeyInv(World')
  PROVE  HandshakeInv'
<1>1. PICK w : w = World
  OBVIOUS
<1>2. PICK v : v = World'
  OBVIOUS
<1>3. ServerGoes(q)
  BY ServerGoesOn
<1>4. ServerMoves(w, v, q)
  BY <1>1, <1>2, <1>3, ServerMovesIs
<1>5. /\ w.s = st.server /\ w.c = st.client /\ v.s = q /\ v.n = w.n /\ v.pr = w.pr /\ Inv(w)
  BY <1>1, <1>2, <1>4, WorldIs, WorldNext DEF ServerMoves
<1>6. w.s.pc \in ServerEarly /\ w.s.pc # "closed" /\ v.s.pc # "complete"
  BY <1>5 DEF ServerEarly
<1>7. (\A t : Settled(t, w) => Settled(t, v)) /\ CountInv(v)
  BY <1>5, <1>6, SettledStays, CountStays
<1>8. /\ v.c.pc = w.c.pc /\ SameHello(w.c, v.c) /\ SameKey(w.c, v.c) /\ SameEnd(w.c, v.c) /\ SameOffer(w.c, v.c)
  BY <1>4 DEF ServerMoves, Same
<1>9. LinkInv(w) /\ w.s.sh = <<>>
  BY <1>5 DEF Inv, ServerInv, ServerHelloInv
<1>10. ServerHelloInv(v)
  BY <1>5 DEF ServerHelloInv, ServerDone, ServerEarly
<1>11. LinkInv(v)
  <2>1. w.c.ticket = NoSession /\ w.c.pc # "complete" /\ w.c.sh = <<>> /\ w.c.pc # "closed"
    BY <1>6, <1>9 DEF LinkInv
  <2>2. v.c.sh = <<>> /\ v.c.ch = w.c.ch /\ v.c.ticket = NoSession /\ v.c.pc # "complete" /\ v.c.pc # "closed"
    BY <1>8, <2>1 DEF SameHello, SameOffer, SameEnd
  <2> QED
    BY <1>5, <1>6, <1>8, <2>2 DEF LinkInv
<1>12. ServerInv(v)
  BY <1>2, <1>10 DEF ServerInv
<1> QED
  BY <1>1, <1>2, <1>3, <1>7, <1>11, <1>12, ServerCloses

(* q is r with the hellos. *)
HelloSaid(r, ch, sh, q) ==
    /\ Shape(q) /\ q.pc = r.pc /\ q.ch = ch /\ q.sh = sh /\ q.vers = sh.vers /\ q.suite = sh.suite
    /\ q.proto = sh.proto /\ q.resumed = r.resumed /\ SameAuth(r, q) /\ SameKey(r, q)

(* The server behind its ServerHello. *)
LEMMA WithHelloIs ==
  ASSUME NEW r, NEW ch, NEW sh, NEW z, Shape(r), OutGood("server", r.out, z), z.s.sh = sh, sh # <<>>
  PROVE  /\ HelloSaid(r, ch, sh, WithHello(r, ch, sh))
         /\ OutGood("server", WithHello(r, ch, sh).out, z)
<1>1. PICK b : b = Buffer(r)
  OBVIOUS
<1>2. Kept("server", r, b, z)
  BY <1>1, BufferIs
<1>3. PICK a : a = [b EXCEPT !.ch = ch, !.sh = sh, !.vers = sh.vers, !.suite = sh.suite,
                             !.proto = sh.proto, !.th = <<"ClientHello">>]
  OBVIOUS
<1>4. /\ Shape(a) /\ a.out = b.out /\ a.pc = b.pc /\ a.ch = ch /\ a.sh = sh /\ a.vers = sh.vers
      /\ a.suite = sh.suite /\ a.proto = sh.proto /\ a.resumed = b.resumed
  BY <1>2, <1>3 DEF Kept, Shape, Fields
<1>5. SameAuth(b, a) /\ SameKey(b, a)
  BY <1>2, <1>3 DEF Kept, Shape, Fields, SameAuth, SameKey
<1>6. PICK q : q = Says(a, "ServerHello", sh)
  OBVIOUS
<1>7. Kept("server", a, q, z)
  <2>1. Good("server", "ServerHello", sh, z)
    BY DEF Good, ServerMsg
  <2>2. OutGood("server", a.out, z)
    BY <1>2, <1>4 DEF Kept
  <2> QED
    BY <1>4, <1>6, <2>1, <2>2, SaysIs
<1>8. WithHello(r, ch, sh) = q
  BY <1>1, <1>3, <1>6 DEF WithHello
<1>9. SameAuth(r, q) /\ SameKey(r, q)
  BY <1>2, <1>5, <1>7 DEF Kept, Same, SameAuth, SameKey
<1>10. /\ q.pc = r.pc /\ q.ch = ch /\ q.sh = sh /\ q.vers = sh.vers
       /\ q.suite = sh.suite /\ q.proto = sh.proto /\ q.resumed = r.resumed
  BY <1>2, <1>4, <1>7 DEF Kept, Same, SameOffer, SameHello
<1> QED
  BY <1>7, <1>8, <1>9, <1>10 DEF Kept, HelloSaid

(* The ServerHello of a resumption. *)
ResumeSh(ch, vers) == Hello(ch, vers, ch.ticket.suite, TRUE, TRUE, FALSE)

(* It names the version asked for and the suite of the ticket, and echoes the  *)
(* session.                                                                    *)
LEMMA ResumeShIs ==
  ASSUME NEW ch, NEW vers
  PROVE  LET sh == ResumeSh(ch, vers) IN
         sh # <<>> /\ sh.vers = vers /\ sh.suite = ch.ticket.suite /\ sh.echo = TRUE
<1>1. PICK sh : sh = ResumeSh(ch, vers)
  OBVIOUS
<1>2. "vers" \in DOMAIN sh /\ sh.vers = vers /\ sh.suite = ch.ticket.suite /\ sh.echo = TRUE
  BY <1>1 DEF ResumeSh, Hello
<1>3. DOMAIN <<>> = {}
  OBVIOUS
<1>4. sh # <<>>
  BY <1>2, <1>3
<1> QED
  BY <1>1, <1>2, <1>4

(* q resumes the session in the ticket of ch. *)
Restores(ch, vers, q) ==
    /\ Shape(q) /\ q.ch = ch /\ q.sh = ResumeSh(ch, vers) /\ q.sh # <<>>
    /\ q.vers = q.sh.vers /\ q.suite = q.sh.suite /\ q.proto = q.sh.proto
    /\ q.resumed = TRUE /\ q.sh.echo = TRUE /\ q.vers = vers /\ q.suite = ch.ticket.suite
    /\ q.peerCert = ch.ticket.peerCert /\ q.verified = ch.ticket.verified
    /\ q.ems = ch.ticket.ems /\ q.curve = ch.ticket.curve
    /\ cfg.server.verify # "nil" => q.saw = View(q)

(* The server behind VerifyConnection, in a resumption. *)
LEMMA ResumeHelloIs ==
  ASSUME NEW r, NEW ch, NEW vers, NEW z, Shape(r), OutGood("server", r.out, z), z.s.sh = ResumeSh(ch, vers)
  PROVE  /\ Restores(ch, vers, ResumeHello(r, ch, vers))
         /\ OutGood("server", ResumeHello(r, ch, vers).out, z)
<1>1. PICK t : t = ch.ticket
  OBVIOUS
<1>2. PICK sh : sh = ResumeSh(ch, vers)
  OBVIOUS
<1>3. PICK a : a = [r EXCEPT !.peerCert = t.peerCert, !.verified = t.verified, !.ems = t.ems,
                             !.curve = t.curve, !.resumed = TRUE]
  OBVIOUS
<1>4. /\ Shape(a) /\ a.out = r.out /\ a.peerCert = t.peerCert /\ a.verified = t.verified /\ a.ems = t.ems
      /\ a.curve = t.curve /\ a.resumed = TRUE
  BY <1>3 DEF Shape, Fields
<1>5. sh # <<>> /\ sh.vers = vers /\ sh.suite = t.suite /\ sh.echo = TRUE
  BY <1>1, <1>2, ResumeShIs
<1>6. PICK b : b = WithHello(a, ch, sh)
  OBVIOUS
<1>7. /\ Shape(b) /\ OutGood("server", b.out, z) /\ b.ch = ch /\ b.sh = sh /\ b.vers = sh.vers
      /\ b.suite = sh.suite /\ b.proto = sh.proto /\ b.resumed = a.resumed
      /\ SameAuth(a, b) /\ SameKey(a, b)
  <2>1. OutGood("server", a.out, z) /\ z.s.sh = sh
    BY <1>2, <1>4
  <2>2. HelloSaid(a, ch, sh, b) /\ OutGood("server", b.out, z)
    BY <1>4, <1>5, <1>6, <2>1, WithHelloIs
  <2> QED
    BY <2>2 DEF HelloSaid
<1>8. PICK q : q = VerifyConnection("server", b)
  OBVIOUS
<1>9. /\ Shape(q) /\ q.out = b.out
      /\ SameOffer(b, q) /\ SameHello(b, q) /\ SameKey(b, q)
      /\ q.peerCert = b.peerCert /\ q.verified = b.verified
      /\ cfg.server.verify # "nil" => q.saw = View(q)
  BY <1>7, <1>8, VerifyIs
<1>10. ResumeHello(r, ch, vers) = q
  BY <1>1, <1>2, <1>3, <1>6, <1>8 DEF ResumeHello, ResumeSh
<1>11. /\ q.ch = ch /\ q.sh = sh /\ q.vers = sh.vers /\ q.suite = sh.suite /\ q.proto = sh.proto /\ q.resumed = TRUE
  BY <1>4, <1>7, <1>9 DEF SameOffer, SameHello
<1>12. q.peerCert = t.peerCert /\ q.verified = t.verified /\ q.ems = t.ems /\ q.curve = t.curve
  BY <1>4, <1>7, <1>9 DEF SameAuth, SameKey
<1> QED
  BY <1>1, <1>2, <1>5, <1>7, <1>9, <1>10, <1>11, <1>12 DEF Restores

(* The server's state before its Finished, in a resumption. *)
ResumeKeyed(r0, ch, vers) ==
    SendSessionTicket(EstablishKeys("server", [ResumeHello(r0, ch, vers) EXCEPT !.master = ch.ticket.secret]))

(* The world z is one in which the server has gone on from r by resuming it. *)
Resumed(r, ch, vers, z) ==
    /\ z.s.sh = ResumeSh(ch, vers) /\ z.s.pc \notin ServerEarly /\ z.s.resumed = TRUE
    /\ z.s.vers = vers /\ z.s.suite = ch.ticket.suite /\ z.s.master = ch.ticket.secret
    /\ z.s.ems = ch.ticket.ems /\ z.s.curve = ch.ticket.curve
    /\ z.s.serverFinished = Finish("server", ResumeKeyed(r, ch, vers)) /\ Settled(ch.ticket, z)

(* q has restored the session, has the keys, and has sent all of its flight. *)
Resumes(r, ch, vers, q) ==
    /\ Restores(ch, vers, q) /\ q.master = ch.ticket.secret
    /\ q.in.next = KeyOf(q, "client") /\ q.out.key = KeyOf(q, "server") /\ Clean(q.out)
    /\ q.pc = "ccs" /\ q.clientFinishedIsFirst = FALSE
    /\ q.serverFinished = Finish("server", ResumeKeyed(r, ch, vers))

(* The server behind its Finished, in a resumption. *)
LEMMA ResumeFlightIs ==
  ASSUME NEW r, NEW ch, NEW vers, NEW z, Shape(r), OutGood("server", r.out, z), Resumed(r, ch, vers, z)
  PROVE  /\ Resumes(r, ch, vers, ResumeFlight(r, ch, vers))
         /\ OutGood("server", ResumeFlight(r, ch, vers).out, z)
<1>0. /\ z.s.sh = ResumeSh(ch, vers) /\ z.s.pc \notin ServerEarly /\ z.s.resumed = TRUE
      /\ z.s.vers = vers /\ z.s.suite = ch.ticket.suite /\ z.s.master = ch.ticket.secret
      /\ z.s.ems = ch.ticket.ems /\ z.s.curve = ch.ticket.curve
      /\ z.s.serverFinished = Finish("server", ResumeKeyed(r, ch, vers)) /\ Settled(ch.ticket, z)
  BY DEF Resumed
<1>1. PICK t : t = ch.ticket
  OBVIOUS
<1>2. PICK a : a = ResumeHello(r, ch, vers)
  OBVIOUS
<1>3. /\ Shape(a) /\ OutGood("server", a.out, z) /\ a.ch = ch /\ a.sh = ResumeSh(ch, vers) /\ a.sh # <<>>
      /\ a.vers = a.sh.vers /\ a.suite = a.sh.suite /\ a.proto = a.sh.proto
      /\ a.resumed = TRUE /\ a.sh.echo = TRUE /\ a.vers = vers /\ a.suite = t.suite
      /\ a.peerCert = t.peerCert /\ a.verified = t.verified
      /\ a.ems = t.ems /\ a.curve = t.curve
      /\ cfg.server.verify # "nil" => a.saw = View(a)
  <2>1. Restores(ch, vers, a) /\ OutGood("server", a.out, z)
    BY <1>0, <1>2, ResumeHelloIs
  <2> QED
    BY <1>1, <2>1 DEF Restores
<1>4. PICK r1 : r1 = [a EXCEPT !.master = t.secret]
  OBVIOUS
<1>5. Shape(r1) /\ r1.out = a.out /\ r1.master = t.secret /\ SameOffer(a, r1) /\ SameHello(a, r1)
  BY <1>3, <1>4 DEF Shape, Fields, SameOffer, SameHello
<1>6. SameAuth(a, r1) /\ r1.ems = a.ems /\ r1.curve = a.curve
  BY <1>3, <1>4 DEF Shape, Fields, SameAuth
<1>7. PICK k : k = EstablishKeys("server", r1)
  OBVIOUS
<1>8. /\ Shape(k) /\ Same(r1, k) /\ OutGood("server", k.out, z)
      /\ k.in.next = [secret |-> r1.master, by |-> Peer("server")]
      /\ k.out.next = [secret |-> r1.master, by |-> "server"]
  <2>1. OutGood("server", r1.out, z)
    BY <1>3, <1>5
  <2> QED
    BY <1>5, <1>7, <2>1, EstablishIs
<1>9. SameOffer(a, k) /\ SameHello(a, k) /\ SameAuth(a, k)
  BY <1>5, <1>6, <1>8 DEF Same, SameOffer, SameHello, SameAuth
<1>10. k.ems = t.ems /\ k.curve = t.curve /\ k.master = t.secret
  BY <1>3, <1>5, <1>6, <1>8 DEF Same, SameKey
<1>11. PICK x : x = TicketOf(k)
  OBVIOUS
<1>12. SealedBy(x, z.s) /\ Settled(x, z)
  <2>1. /\ x.vers = vers /\ x.suite = t.suite /\ x.secret = t.secret /\ x.ems = t.ems /\ x.curve = t.curve
        /\ x.peerCert = t.peerCert
    BY <1>3, <1>9, <1>10, <1>11 DEF TicketOf, SameHello, SameAuth
  <2>2. SealedBy(x, z.s)
    BY <1>0, <1>1, <2>1 DEF SealedBy
  <2>3. Settled(x, z)
    BY <1>0, <1>1, <2>1 DEF Settled
  <2> QED
    BY <2>2, <2>3
<1>13. PICK cond : cond = k.sh.ticketSupported
  OBVIOUS
<1>14. PICK r2 : r2 = SaysIf(cond, k, "NewSessionTicket", x)
  OBVIOUS
<1>15. r2 = ResumeKeyed(r, ch, vers)
  BY <1>1, <1>2, <1>4, <1>7, <1>11, <1>13, <1>14 DEF ResumeKeyed, SendSessionTicket
<1>16. z.s.sh # <<>>
  BY <1>0, <1>3
<1>17. Kept("server", k, r2, z) /\ r2.out.next = k.out.next
  <2>1. Good("server", "NewSessionTicket", x, z)
    BY <1>0, <1>12, <1>16 DEF Good, ServerMsg
  <2> QED
    BY <1>8, <1>14, <2>1, SaysIfIs
<1>18. PICK fin : fin = Finish("server", r2)
  OBVIOUS
<1>19. PICK f : f = SendFinished("server", r2)
  OBVIOUS
<1>20. Kept("server", r2, f, z) /\ f.out.key = r2.out.next /\ Flushable(f.out)
  <2>1. Good("server", "ChangeCipherSpec", <<>>, z)
    BY <1>16 DEF Good, ServerMsg
  <2>2. r2.master = z.s.master
    BY <1>0, <1>1, <1>10, <1>17 DEF Kept, Same, SameKey
  <2>3. fin.secret = z.s.master
    BY <1>18, <2>2 DEF Finish
  <2>4. Good("server", "Finished", fin, z)
    BY <1>0, <1>15, <1>16, <1>18, <2>3 DEF Good, ServerMsg
  <2>5. Shape(r2) /\ OutGood("server", r2.out, z)
    BY <1>17 DEF Kept
  <2> QED
    BY <1>18, <1>19, <2>1, <2>4, <2>5, SendFinishedIs
<1>21. Kept("server", k, f, z)
  BY <1>17, <1>20, KeptTransitive
<1>22. PICK g : g = Flush(f)
  OBVIOUS
<1>23. Kept("server", f, g, z) /\ g.out.key = f.out.key /\ Clean(g.out)
  BY <1>20, <1>22, FlushIs DEF Kept
<1>24. Kept("server", k, g, z)
  BY <1>21, <1>23, KeptTransitive
<1>25. PICK q : q = [g EXCEPT !.serverFinished = fin, !.clientFinishedIsFirst = FALSE, !.pc = "ccs"]
  OBVIOUS
<1>26. /\ Shape(q) /\ q.out = g.out /\ q.in = g.in /\ q.pc = "ccs" /\ q.clientFinishedIsFirst = FALSE
       /\ q.serverFinished = fin /\ SameOffer(g, q) /\ SameHello(g, q)
  BY <1>24, <1>25 DEF Kept, Shape, Fields, SameOffer, SameHello
<1>27. SameAuth(g, q) /\ SameKey(g, q)
  BY <1>24, <1>25 DEF Kept, Shape, Fields, SameAuth, SameKey
<1>28. SameOffer(a, q) /\ SameHello(a, q) /\ SameAuth(a, q) /\ SameKey(k, q)
  <2>1. SameOffer(k, g) /\ SameHello(k, g) /\ SameAuth(k, g) /\ SameKey(k, g)
    BY <1>24 DEF Kept, Same
  <2> QED
    BY <1>9, <1>26, <1>27, <2>1 DEF SameOffer, SameHello, SameAuth, SameKey
<1>29. View(q) = View(a)
  BY <1>28, ViewSame DEF SameAuth
<1>30. q.in.next = KeyOf(q, "client") /\ q.out.key = KeyOf(q, "server")
  BY <1>5, <1>8, <1>10, <1>17, <1>20, <1>23, <1>24, <1>26, <1>28 DEF Kept, KeyOf, Peer, SameKey
<1>31. ResumeFlight(r, ch, vers) = q
  BY <1>1, <1>2, <1>4, <1>7, <1>11, <1>13, <1>14, <1>18, <1>19, <1>22, <1>25 DEF ResumeFlight, SendSessionTicket
<1>32. /\ q.ch = ch /\ q.sh = ResumeSh(ch, vers) /\ q.sh # <<>>
       /\ q.vers = q.sh.vers /\ q.suite = q.sh.suite /\ q.proto = q.sh.proto
       /\ q.resumed = TRUE /\ q.sh.echo = TRUE /\ q.vers = vers /\ q.suite = t.suite
  BY <1>3, <1>28 DEF SameOffer, SameHello
<1>33. /\ q.peerCert = t.peerCert /\ q.verified = t.verified /\ q.ems = t.ems /\ q.curve = t.curve
       /\ q.master = t.secret /\ (cfg.server.verify # "nil" => q.saw = View(q))
  BY <1>3, <1>10, <1>28, <1>29 DEF SameAuth, SameKey
<1>34. OutGood("server", q.out, z) /\ Clean(q.out) /\ q.serverFinished = Finish("server", ResumeKeyed(r, ch, vers))
  BY <1>15, <1>18, <1>23, <1>24, <1>26 DEF Kept
<1> QED
  BY <1>1, <1>26, <1>30, <1>31, <1>32, <1>33, <1>34 DEF Resumes, Restores

(* The ServerHello of a full handshake, and the curve of its key exchange. *)
FullSh(ch, vers, suite) ==
    Hello(ch, vers, suite, FALSE, ch.ticketSupported /\ cfg.server.tickets, cfg.server.staple)
FullCurve(ch, suite) == IF IsECDHE(suite) THEN PickCurve(ch) ELSE "none"

HelloIs(sh, vers, suite) == sh # <<>> /\ sh.vers = vers /\ sh.suite = suite /\ sh.echo = FALSE

(* It names the version and the suite, and echoes no session. *)
LEMMA FullShIs ==
  ASSUME NEW ch, NEW vers, NEW suite
  PROVE  HelloIs(FullSh(ch, vers, suite), vers, suite)
<1>1. PICK sh : sh = FullSh(ch, vers, suite)
  OBVIOUS
<1>2. "vers" \in DOMAIN sh /\ sh.vers = vers /\ sh.suite = suite /\ sh.echo = FALSE
  BY <1>1 DEF FullSh, Hello
<1>3. DOMAIN <<>> = {}
  OBVIOUS
<1>4. sh # <<>>
  BY <1>2, <1>3
<1> QED
  BY <1>1, <1>2, <1>4 DEF HelloIs

(* q has sent the first flight of a full handshake. *)
Greets(r, ch, vers, suite, q) ==
    /\ Shape(q) /\ q.ch = ch /\ q.sh = FullSh(ch, vers, suite) /\ q.sh # <<>>
    /\ q.vers = q.sh.vers /\ q.suite = q.sh.suite /\ q.proto = q.sh.proto
    /\ q.sh.echo = FALSE /\ q.suite = suite /\ q.resumed = r.resumed
    /\ q.peerCert = r.peerCert /\ q.curve = FullCurve(ch, suite)
    /\ q.pc = (IF cfg.server.auth >= 1 THEN "clientCert" ELSE "ckx")

(* The server behind ServerHelloDone. *)
LEMMA FullFlightIs ==
  ASSUME NEW r, NEW ch, NEW vers, NEW suite, NEW z, Shape(r), OutGood("server", r.out, z),
         z.s.sh = FullSh(ch, vers, suite), z.s.curve = FullCurve(ch, suite)
  PROVE  /\ Greets(r, ch, vers, suite, FullFlight(r, ch, vers, suite))
         /\ OutGood("server", FullFlight(r, ch, vers, suite).out, z)
<1>1. PICK sh : sh = FullSh(ch, vers, suite)
  OBVIOUS
<1>2. sh # <<>> /\ sh.vers = vers /\ sh.suite = suite /\ sh.echo = FALSE
  <2>1. HelloIs(FullSh(ch, vers, suite), vers, suite)
    BY FullShIs
  <2> QED
    BY <1>1, <2>1 DEF HelloIs
<1>3. PICK r1 : r1 = WithHello(r, ch, sh)
  OBVIOUS
<1>4. HelloSaid(r, ch, sh, r1) /\ OutGood("server", r1.out, z)
  BY <1>1, <1>2, <1>3, WithHelloIs
<1>5. ASSUME NEW kind, NEW body, kind \in {"Certificate", "CertificateStatus", "CertificateRequest", "ServerHelloDone"}
      PROVE  Good("server", kind, body, z)
  BY <1>1, <1>2, <1>5 DEF Good, ServerMsg
<1>6. PICK a : a = Says(r1, "Certificate", <<>>)
  OBVIOUS
<1>7. Kept("server", r1, a, z)
  BY <1>4, <1>5, <1>6, SaysIs DEF HelloSaid
<1>8. PICK cond : cond = cfg.server.staple
  OBVIOUS
<1>9. PICK r2 : r2 = SaysIf(cond, a, "CertificateStatus", <<>>)
  OBVIOUS
<1>10. Kept("server", a, r2, z)
  <2>1. Good("server", "CertificateStatus", <<>>, z)
    BY <1>5
  <2> QED
    BY <1>7, <1>9, <2>1, SaysIfIs DEF Kept
<1>11. PICK ecdhe : ecdhe = IsECDHE(suite)
  OBVIOUS
<1>12. PICK curve : curve = PickCurve(ch)
  OBVIOUS
<1>13. PICK r3 : r3 = SaysIf(ecdhe, r2, "ServerKeyExchange", curve)
  OBVIOUS
<1>14. Kept("server", r2, r3, z)
  <2>1. ecdhe => z.s.curve = curve
    BY <1>11, <1>12 DEF FullCurve
  <2>2. ecdhe => Good("server", "ServerKeyExchange", curve, z)
    BY <1>1, <1>2, <2>1 DEF Good, ServerMsg
  <2> QED
    BY <1>10, <1>13, <2>2, SaysIfIs DEF Kept
<1>15. PICK asks : asks = (cfg.server.auth >= 1)
  OBVIOUS
<1>16. PICK r4 : r4 = SaysIf(asks, r3, "CertificateRequest", <<>>)
  OBVIOUS
<1>17. Kept("server", r3, r4, z)
  <2>1. Good("server", "CertificateRequest", <<>>, z)
    BY <1>5
  <2> QED
    BY <1>14, <1>16, <2>1, SaysIfIs DEF Kept
<1>18. PICK d : d = Says(r4, "ServerHelloDone", <<>>)
  OBVIOUS
<1>19. Kept("server", r4, d, z)
  BY <1>5, <1>17, <1>18, SaysIs DEF Kept
<1>20. PICK f : f = Flush(d)
  OBVIOUS
<1>21. Kept("server", d, f, z)
  BY <1>19, <1>20, FlushIs DEF Kept
<1>22. Kept("server", r1, f, z)
  <2>1. Kept("server", r1, r2, z)
    BY <1>7, <1>10, KeptTransitive
  <2>2. Kept("server", r1, r3, z)
    BY <1>14, <2>1, KeptTransitive
  <2>3. Kept("server", r1, r4, z)
    BY <1>17, <2>2, KeptTransitive
  <2>4. Kept("server", r1, d, z)
    BY <1>19, <2>3, KeptTransitive
  <2> QED
    BY <1>21, <2>4, KeptTransitive
<1>23. PICK cv : cv = FullCurve(ch, suite)
  OBVIOUS
<1>24. PICK pc : pc = (IF cfg.server.auth >= 1 THEN "clientCert" ELSE "ckx")
  OBVIOUS
<1>25. PICK q : q = [f EXCEPT !.curve = cv, !.pc = pc]
  OBVIOUS
<1>26. /\ Shape(q) /\ q.out = f.out /\ q.curve = cv /\ q.pc = pc /\ q.ch = f.ch /\ SameHello(f, q) /\ q.peerCert = f.peerCert
  BY <1>22, <1>25 DEF Kept, Shape, Fields, SameHello
<1>27. FullFlight(r, ch, vers, suite) = q
  BY <1>1, <1>3, <1>6, <1>8, <1>9, <1>11, <1>12, <1>13, <1>15, <1>16, <1>18, <1>20, <1>23, <1>24, <1>25
     DEF FullFlight, FullSh, FullCurve
<1>28. /\ q.ch = ch /\ q.sh = sh /\ q.vers = sh.vers /\ q.suite = sh.suite /\ q.proto = sh.proto
       /\ q.resumed = r.resumed /\ q.peerCert = r.peerCert
  BY <1>4, <1>22, <1>26 DEF HelloSaid, Kept, Same, SameOffer, SameHello, SameAuth
<1>29. OutGood("server", q.out, z)
  BY <1>22, <1>26 DEF Kept
<1> QED
  BY <1>1, <1>2, <1>23, <1>24, <1>26, <1>27, <1>28, <1>29 DEF Greets

(* The ClientHello is the one the client has sent, and the server has sent     *)
(* nothing so far that a next world could deny.                                *)
LEMMA HelloHeard ==
  ASSUME HandshakeInv, st.server.pc = "clientHello", Sees("server", "ClientHello")
  PROVE  Msg("server").body = st.client.ch /\ st.client.pc # "start"
<1>1. PICK w : w = World
  OBVIOUS
<1>2. w.c = st.client
  BY <1>1, WorldIs
<1>3. Good("client", "ClientHello", Msg("server").body, w)
  BY <1>1, MsgGood DEF Sees
<1> QED
  BY <1>2, <1>3 DEF Good, ClientMsg

(* What the server has before it reads the ClientHello. *)
LEMMA HelloState ==
  ASSUME HandshakeInv, st.server.pc = "clientHello"
  PROVE  /\ Shape(st.server) /\ st.server.resumed = FALSE /\ st.server.peerCert = "none"
         /\ \A z : OutGood("server", st.server.out, z)
<1>1. PICK w : w = World
  OBVIOUS
<1>2. Inv(w) /\ w.s = st.server
  BY <1>1, WorldIs DEF HandshakeInv
<1>3. w.s.sh = <<>> /\ w.s.resumed = FALSE /\ w.s.peerCert = "none" /\ Shape(w.s)
  BY <1>2 DEF Inv, FormInv, ServerInv, ServerHelloInv
<1>4. ASSUME NEW z PROVE OutGood("server", w.s.out, z)
  BY <1>2, <1>3, ServerWords
<1> QED
  BY <1>2, <1>3, <1>4

(* The ticket of the ClientHello is settled, in this world and the next ones. *)
LEMMA TicketSettled ==
  ASSUME HandshakeInv, st.server.pc = "clientHello", st.client.pc # "start", st.client.ch.ticket # NoSession
  PROVE  \A z : z.n = conn /\ z.pr = proved => Settled(st.client.ch.ticket, z)
<1>1. PICK w : w = World
  OBVIOUS
<1>2. Inv(w) /\ w.s = st.server /\ w.c = st.client /\ w.n = conn /\ w.pr = proved
  BY <1>1, WorldIs DEF HandshakeInv
<1>3. w.c.pc # "closed"
  BY <1>2 DEF Inv, LinkInv
<1>4. Settled(w.c.ch.ticket, w)
  BY <1>2, <1>3 DEF Inv, ClientInv, OfferInv
<1>5. ASSUME NEW z, z.n = conn, z.pr = proved PROVE Settled(w.c.ch.ticket, z)
  <2>1. w.s.pc \in ServerEarly
    BY <1>2 DEF ServerEarly
  <2>2. \A t : Settled(t, w) => Settled(t, z)
    BY <1>2, <1>5, <2>1, SettledStays
  <2> QED
    BY <1>4, <2>2
<1> QED
  BY <1>2, <1>5

(* A resumption keeps the invariant: the session meets the Config of this      *)
(* connection.                                                                 *)
LEMMA ResumeStep ==
  ASSUME HandshakeInv, UNCHANGED <<conn, cfg, proved, cache>>, st.server.pc = "clientHello", Waiting("server"),
         NEW ch, ch = st.client.ch, st.client.pc # "start", NEW vers, Resumable(ch.ticket, ch, vers),
         Reads("server", ResumeFlight(st.server, ch, vers))
  PROVE  HandshakeInv'
<1>1. PICK r : r = st.server
  OBVIOUS
<1>2. PICK t : t = ch.ticket
  OBVIOUS
<1>3. PICK q : q = ResumeFlight(r, ch, vers)
  OBVIOUS
<1>4. PICK v : v = World'
  OBVIOUS
<1>5. v.s = q /\ v.n = conn /\ v.pr = proved /\ v.cf = cfg
  <2>1. ServerGoes(q)
    BY <1>1, <1>3, ServerGoesOn
  <2> QED
    BY <1>4, <2>1, WorldIs, WorldNext DEF ServerGoes
<1>6. Shape(r) /\ \A z : OutGood("server", r.out, z)
  BY <1>1, HelloState
<1>7. \A z : z.n = conn /\ z.pr = proved => Settled(t, z)
  <2>1. t # NoSession
    BY <1>2 DEF Resumable
  <2> QED
    BY <1>2, <2>1, TicketSettled
<1>8. Resumes(r, ch, vers, q)
  <2>1. PICK x : x = [sh |-> ResumeSh(ch, vers), pc |-> "ccs", resumed |-> TRUE, vers |-> vers,
                      suite |-> ch.ticket.suite, master |-> ch.ticket.secret, ems |-> ch.ticket.ems,
                      curve |-> ch.ticket.curve, serverFinished |-> Finish("server", ResumeKeyed(r, ch, vers))]
    OBVIOUS
  <2>2. PICK z : z = [s |-> x, n |-> conn, pr |-> proved]
    OBVIOUS
  <2>3. z.s = x /\ Settled(t, z)
    BY <1>7, <2>2
  <2>4. Resumed(r, ch, vers, z)
    BY <1>2, <2>1, <2>3 DEF Resumed, ServerEarly
  <2> QED
    BY <1>3, <1>6, <2>4, ResumeFlightIs
<1>9. /\ Restores(ch, vers, q) /\ q.master = t.secret
      /\ q.in.next = KeyOf(q, "client") /\ q.out.key = KeyOf(q, "server") /\ Clean(q.out)
      /\ q.pc = "ccs" /\ q.clientFinishedIsFirst = FALSE
      /\ q.serverFinished = Finish("server", ResumeKeyed(r, ch, vers))
  BY <1>2, <1>8 DEF Resumes
<1>10. /\ Shape(q) /\ q.ch = ch /\ q.sh = ResumeSh(ch, vers) /\ q.sh # <<>>
       /\ q.vers = q.sh.vers /\ q.suite = q.sh.suite /\ q.proto = q.sh.proto
       /\ q.resumed = TRUE /\ q.sh.echo = TRUE /\ q.vers = vers /\ q.suite = t.suite
       /\ q.peerCert = t.peerCert /\ q.verified = t.verified
       /\ q.ems = t.ems /\ q.curve = t.curve
       /\ cfg.server.verify # "nil" => q.saw = View(q)
  BY <1>2, <1>9 DEF Restores
<1>11. Settled(t, v)
  BY <1>5, <1>7
<1>12. OutGood("server", q.out, v)
  <2>1. v.s.pc \notin ServerEarly
    BY <1>5, <1>9 DEF ServerEarly
  <2>2. Resumed(r, ch, vers, v)
    BY <1>2, <1>5, <1>9, <1>10, <1>11, <2>1 DEF Resumed
  <2> QED
    BY <1>3, <1>6, <2>2, ResumeFlightIs
<1>13. ServerPolicy(q, cfg.server)
  BY <1>2, <1>10 DEF ServerPolicy, Resumable, RequiresClientCert
<1>14. ServerAuthInv(v)
  <2>1. q.master.conn \in 1..v.n /\ q.peerCert = v.pr[q.master.conn]
    BY <1>9, <1>10, <1>11 DEF Settled
  <2> QED
    BY <1>5, <1>9, <1>10, <1>13, <2>1 DEF ServerAuthInv
<1>15. ServerKeyInv(v)
  BY <1>5, <1>9, <1>10 DEF ServerKeyInv, ServerDone
<1>16. Reads("server", q) /\ q.ch = st.client.ch /\ q.pc = "ccs" /\ q.pc \in {"clientCert", "ckx", "ccs", "failed"}
  BY <1>1, <1>3, <1>9, <1>10
<1>17. /\ q.resumed = q.sh.echo /\ q.resumed = TRUE /\ q.curve = q.ch.ticket.curve /\ q.ems = q.ch.ticket.ems
       /\ q.pc \in {"ccs", "failed"}
  BY <1>2, <1>10, <1>16
<1>18. OutGood("server", q.out, World') /\ ServerAuthInv(World') /\ ServerKeyInv(World')
  BY <1>4, <1>12, <1>14, <1>15
<1> QED
  BY <1>10, <1>16, <1>17, <1>18, HelloCloses

(* A resumption that VerifyConnection rejects keeps the invariant. *)
LEMMA RejectStep ==
  ASSUME HandshakeInv, UNCHANGED <<conn, cfg, proved, cache>>, st.server.pc = "clientHello", Waiting("server"),
         NEW ch, ch = st.client.ch, st.client.pc # "start", NEW vers,
         Reads("server", Fail(ResumeHello(st.server, ch, vers)))
  PROVE  HandshakeInv'
<1>1. PICK r : r = st.server
  OBVIOUS
<1>2. PICK a : a = ResumeHello(r, ch, vers)
  OBVIOUS
<1>3. PICK q : q = Fail(a)
  OBVIOUS
<1>4. PICK v : v = World'
  OBVIOUS
<1>5. v.s = q
  <2>1. ServerGoes(q)
    BY <1>1, <1>2, <1>3, ServerGoesOn
  <2> QED
    BY <1>4, <2>1 DEF ServerGoes
<1>6. Shape(r) /\ \A z : OutGood("server", r.out, z)
  BY <1>1, HelloState
<1>7. ASSUME NEW z, z.s.sh = ResumeSh(ch, vers)
      PROVE  /\ Restores(ch, vers, a) /\ Shape(q) /\ Same(a, q) /\ q.pc = "failed" /\ OutGood("server", q.out, z)
  <2>1. Restores(ch, vers, a) /\ OutGood("server", a.out, z)
    BY <1>2, <1>6, <1>7, ResumeHelloIs
  <2>2. Shape(a)
    BY <2>1 DEF Restores
  <2> QED
    BY <1>3, <2>1, <2>2, FailIs
<1>8. Restores(ch, vers, a) /\ Shape(q) /\ Same(a, q) /\ q.pc = "failed"
  <2>1. PICK x : x = [sh |-> ResumeSh(ch, vers)]
    OBVIOUS
  <2>2. PICK z : z = [s |-> x]
    OBVIOUS
  <2>3. z.s.sh = ResumeSh(ch, vers)
    BY <2>1, <2>2
  <2> QED
    BY <1>7, <2>3
<1>9. /\ a.ch = ch /\ a.sh = ResumeSh(ch, vers) /\ a.sh # <<>>
      /\ a.vers = a.sh.vers /\ a.suite = a.sh.suite /\ a.proto = a.sh.proto
      /\ a.resumed = TRUE /\ a.sh.echo = TRUE /\ a.ems = ch.ticket.ems /\ a.curve = ch.ticket.curve
  BY <1>8 DEF Restores
<1>10. /\ q.ch = ch /\ q.sh = ResumeSh(ch, vers) /\ q.sh # <<>>
       /\ q.vers = q.sh.vers /\ q.suite = q.sh.suite /\ q.proto = q.sh.proto
       /\ q.resumed = TRUE /\ q.sh.echo = TRUE /\ q.ems = ch.ticket.ems /\ q.curve = ch.ticket.curve
  BY <1>8, <1>9 DEF Same, SameOffer, SameHello, SameKey
<1>11. OutGood("server", q.out, v)
  BY <1>5, <1>7, <1>10
<1>12. ServerAuthInv(v) /\ ServerKeyInv(v)
  BY <1>5, <1>8 DEF ServerAuthInv, ServerKeyInv, ServerDone
<1>13. Reads("server", q) /\ q.ch = st.client.ch /\ q.pc \in {"clientCert", "ckx", "ccs", "failed"}
  BY <1>1, <1>2, <1>3, <1>8, <1>10
<1>14. /\ q.resumed = q.sh.echo /\ q.resumed = TRUE /\ q.curve = q.ch.ticket.curve /\ q.ems = q.ch.ticket.ems
       /\ q.pc \in {"ccs", "failed"}
  BY <1>8, <1>10
<1>15. OutGood("server", q.out, World') /\ ServerAuthInv(World') /\ ServerKeyInv(World')
  BY <1>4, <1>11, <1>12
<1> QED
  BY <1>8, <1>10, <1>13, <1>14, <1>15, HelloCloses

(* The first flight of a full handshake keeps the invariant. *)
LEMMA FullStep ==
  ASSUME HandshakeInv, UNCHANGED <<conn, cfg, proved, cache>>, st.server.pc = "clientHello", Waiting("server"),
         NEW ch, ch = st.client.ch, st.client.pc # "start", NEW vers, NEW suite,
         Reads("server", FullFlight(st.server, ch, vers, suite))
  PROVE  HandshakeInv'
<1>1. PICK r : r = st.server
  OBVIOUS
<1>2. PICK q : q = FullFlight(r, ch, vers, suite)
  OBVIOUS
<1>3. PICK v : v = World'
  OBVIOUS
<1>4. v.s = q /\ v.cf = cfg
  <2>1. ServerGoes(q)
    BY <1>1, <1>2, ServerGoesOn
  <2> QED
    BY <1>3, <2>1, WorldIs DEF ServerGoes
<1>5. Shape(r) /\ r.resumed = FALSE /\ r.peerCert = "none" /\ \A z : OutGood("server", r.out, z)
  BY <1>1, HelloState
<1>6. ASSUME NEW z, z.s.sh = FullSh(ch, vers, suite), z.s.curve = FullCurve(ch, suite)
      PROVE  Greets(r, ch, vers, suite, q) /\ OutGood("server", q.out, z)
  BY <1>2, <1>5, <1>6, FullFlightIs
<1>7. Greets(r, ch, vers, suite, q)
  <2>1. PICK x : x = [sh |-> FullSh(ch, vers, suite), curve |-> FullCurve(ch, suite)]
    OBVIOUS
  <2>2. PICK z : z = [s |-> x]
    OBVIOUS
  <2>3. z.s.sh = FullSh(ch, vers, suite) /\ z.s.curve = FullCurve(ch, suite)
    BY <2>1, <2>2
  <2> QED
    BY <1>6, <2>3
<1>8. /\ Shape(q) /\ q.ch = ch /\ q.sh = FullSh(ch, vers, suite) /\ q.sh # <<>>
      /\ q.vers = q.sh.vers /\ q.suite = q.sh.suite /\ q.proto = q.sh.proto
      /\ q.sh.echo = FALSE /\ q.suite = suite /\ q.resumed = FALSE
      /\ q.peerCert = "none" /\ q.curve = FullCurve(ch, suite)
      /\ q.pc = (IF cfg.server.auth >= 1 THEN "clientCert" ELSE "ckx")
  BY <1>5, <1>7 DEF Greets
<1>9. OutGood("server", q.out, v)
  BY <1>4, <1>6, <1>8
<1>10. ~IsECDHE(q.suite) => q.curve = "none"
  BY <1>8 DEF FullCurve
<1>11. ServerAuthInv(v)
  BY <1>4, <1>8 DEF ServerAuthInv, ServerPolicy, ServerDone
<1>12. q.pc \in {"clientCert", "ckx"}
  BY <1>8
<1>13. ServerKeyInv(v)
  BY <1>4, <1>12 DEF ServerKeyInv, ServerDone
<1>14. Reads("server", q) /\ q.ch = st.client.ch /\ q.pc \in {"clientCert", "ckx", "ccs", "failed"}
  BY <1>1, <1>2, <1>8, <1>12
<1>15. q.resumed = q.sh.echo /\ q.resumed = FALSE
  BY <1>8
<1>16. OutGood("server", q.out, World') /\ ServerAuthInv(World') /\ ServerKeyInv(World')
  BY <1>3, <1>9, <1>11, <1>13
<1> QED
  BY <1>8, <1>10, <1>12, <1>14, <1>15, <1>16, HelloCloses

(* The ClientHello keeps the invariant, however the server answers it. *)
LEMMA ReadClientHelloStep ==
  ASSUME HandshakeInv, NEW opens \in BOOLEAN, ReadClientHello(opens), UNCHANGED <<conn, cfg, proved>>
  PROVE  HandshakeInv'
<1>1. PICK ch : ch = Msg("server").body
  OBVIOUS
<1>2. PICK vers : vers = MutualVersion(cfg.server.versions, ch.versions)
  OBVIOUS
<1>3. PICK suite : suite = PickCipherSuite(ch, vers)
  OBVIOUS
<1>4. /\ st.server.pc = "clientHello" /\ Waiting("server") /\ UNCHANGED <<conn, cfg, proved, cache>>
      /\ \/ Goes("server", Fail(st.server))
         \/ /\ Sees("server", "ClientHello") /\ Resumable(ch.ticket, ch, vers)
            /\ Reads("server", ResumeFlight(st.server, ch, vers))
         \/ /\ Sees("server", "ClientHello")
            /\ Reads("server", Fail(ResumeHello(st.server, ch, vers)))
         \/ /\ Sees("server", "ClientHello")
            /\ Reads("server", FullFlight(st.server, ch, vers, suite))
  BY <1>1, <1>2, <1>3 DEF ReadClientHello
<1>5. Sees("server", "ClientHello") => ch = st.client.ch /\ st.client.pc # "start"
  BY <1>1, <1>4, HelloHeard
<1>6. CASE Goes("server", Fail(st.server))
  BY <1>4, <1>6, ServerFails
<1>7. CASE /\ Sees("server", "ClientHello") /\ Resumable(ch.ticket, ch, vers)
           /\ Reads("server", ResumeFlight(st.server, ch, vers))
  BY <1>4, <1>5, <1>7, ResumeStep
<1>8. CASE Sees("server", "ClientHello") /\ Reads("server", Fail(ResumeHello(st.server, ch, vers)))
  BY <1>4, <1>5, <1>8, RejectStep
<1>9. CASE Sees("server", "ClientHello") /\ Reads("server", FullFlight(st.server, ch, vers, suite))
  BY <1>4, <1>5, <1>9, FullStep
<1> QED
  BY <1>4, <1>6, <1>7, <1>8, <1>9

-----------------------------------------------------------------------------
(* The theorems. *)

(* Every step keeps the invariant. *)
LEMMA StepInv ==
  ASSUME HandshakeInv, [Next]_vars
  PROVE  HandshakeInv'
<1>1. CASE ClientStep
  <2>1. UNCHANGED <<conn, cfg, proved>>
    BY <1>1 DEF ClientStep
  <2>2. ASSUME NEW expired \in BOOLEAN, ClientHello(expired) PROVE HandshakeInv'
    BY <2>1, <2>2, ClientHelloStep
  <2>3. CASE ServerHello
    BY <2>1, <2>3, ServerHelloStep
  <2>4. CASE ServerCertificate
    BY <2>1, <2>4, ServerCertificateInv
  <2>5. CASE CertificateStatus
    BY <2>1, <2>5, CertificateStatusInv
  <2>6. CASE VerifyServerCertificate
    BY <2>1, <2>6, VerifyServerCertificateInv
  <2>7. CASE ServerKeyExchange
    BY <2>1, <2>7, ServerKeyExchangeInv
  <2>8. CASE CertificateRequest
    BY <2>1, <2>8, CertificateRequestInv
  <2>9. CASE ServerHelloDone
    BY <2>1, <2>9, ServerHelloDoneStep
  <2>10. CASE NewSessionTicket
    BY <2>1, <2>10, NewSessionTicketStep
  <2>11. CASE ReadCCS("client")
    BY <2>1, <2>11, ClientReadCCSStep
  <2>12. CASE ServerFinished
    BY <2>1, <2>12, ServerFinishedStep
  <2> QED
    BY <1>1, <2>2, <2>3, <2>4, <2>5, <2>6, <2>7, <2>8, <2>9, <2>10, <2>11, <2>12 DEF ClientStep
<1>2. CASE ServerStep
  <2>1. UNCHANGED <<conn, cfg>>
    BY <1>2 DEF ServerStep
  <2>2. CASE CertificateVerify
    BY <2>1, <2>2, CertificateVerifyStep
  <2>3. ASSUME NEW opens \in BOOLEAN, ReadClientHello(opens), UNCHANGED proved PROVE HandshakeInv'
    BY <2>1, <2>3, ReadClientHelloStep
  <2>4. CASE ClientCertificate /\ UNCHANGED proved
    BY <2>1, <2>4, ClientCertificateStep
  <2>5. CASE ClientKeyExchange /\ UNCHANGED proved
    BY <2>1, <2>5, ClientKeyExchangeStep
  <2>6. CASE ReadCCS("server") /\ UNCHANGED proved
    BY <2>1, <2>6, ServerReadCCSStep
  <2>7. CASE ClientFinished /\ UNCHANGED proved
    BY <2>1, <2>7, ClientFinishedStep
  <2> QED
    BY <1>2, <2>2, <2>3, <2>4, <2>5, <2>6, <2>7 DEF ServerStep
<1>3. CASE Break
  BY <1>3, BreakInv
<1>4. CASE Close
  BY <1>4, CloseInv
<1>5. CASE Connect
  BY <1>5, ConnectInv
<1>6. CASE UNCHANGED vars
  BY <1>6 DEF vars, HandshakeInv, World
<1> QED
  BY <1>1, <1>2, <1>3, <1>4, <1>5, <1>6 DEF Next

(* Each message under way says of its sender what the sender still holds,      *)
(* each end has the keys and the checks of its stage, and cached sessions      *)
(* match their tickets: always, for all Configs and any number of              *)
(* connections.                                                                *)
THEOREM HandshakeInvariant == Spec => []HandshakeInv
<1>1. Init => HandshakeInv
  BY InitInv
<1>2. HandshakeInv /\ [Next]_vars => HandshakeInv'
  BY StepInv
<1> QED
  BY <1>1, <1>2, PTL DEF Spec

(* The invariant implies agreement. *)
LEMMA InvAgreement == HandshakeInv => Agreement
<1> SUFFICES ASSUME HandshakeInv PROVE Agreement
  OBVIOUS
<1>1. PICK w : w = World
  OBVIOUS
<1>2. PICK c : c = st.client
  OBVIOUS
<1>3. PICK s : s = st.server
  OBVIOUS
<1>4. w.c = c /\ w.s = s /\ Inv(w) /\ CacheInv(cache, w)
  BY <1>1, <1>2, <1>3, WorldIs DEF HandshakeInv
<1>5. ClientKeyInv(w) /\ ServerKeyInv(w) /\ LinkInv(w) /\ ClientHelloInv(w) /\ ServerHelloInv(w)
  BY <1>4 DEF Inv, ClientInv, ServerInv
<1>6. SessionsMatch
  BY <1>4 DEF SessionsMatch, CacheInv, Matches
<1>7. c.pc = "complete" =>
        /\ Clean(c.out) /\ c.in.key = KeyOf(c, "server") /\ c.out.key = KeyOf(c, "client")
        /\ c.sh # <<>> /\ c.resumed \in BOOLEAN
  BY <1>4, <1>5 DEF ClientKeyInv, ClientHelloInv
<1>8. s.pc = "complete" =>
        Clean(s.out) /\ s.in.key = KeyOf(s, "client") /\ s.out.key = KeyOf(s, "server") /\ s.resumed \in BOOLEAN
  BY <1>4, <1>5 DEF ServerKeyInv, ServerHelloInv
<1>9. NothingBuffered
  BY <1>2, <1>3, <1>7, <1>8 DEF NothingBuffered, Complete, Clean, Ends
<1>10. ASSUME c.pc = "complete", s.pc = "complete"
       PROVE  /\ Outcome(c) = Outcome(s)
              /\ c.in.key = s.out.key /\ c.out.key = s.in.key
              /\ NoKey # c.in.key /\ c.in.key # c.out.key
  <2>1. c.pc \in ClientDone /\ s.pc \in ServerDone
    BY <1>10 DEF ClientDone, ServerDone
  <2>2. c.vers = s.vers /\ c.suite = s.suite /\ c.proto = s.proto /\ c.resumed = s.resumed
    BY <1>4, <2>1, SameResults
  <2>3. c.ems = s.ems /\ c.curve = s.curve
    BY <1>4, <2>1, SameResults
  <2>4. c.master = s.master
    BY <1>4, <1>5, <1>10 DEF LinkInv
  <2>5. CASE c.resumed
    <3>1. c.resumed = TRUE /\ s.resumed = TRUE
      BY <1>7, <1>10, <2>2, <2>5
    <3>2. c.clientFinishedIsFirst = FALSE /\ s.clientFinishedIsFirst = FALSE /\ c.serverFinished = s.serverFinished
      BY <1>4, <1>5, <1>10, <2>1, <3>1 DEF ClientKeyInv, ServerKeyInv, LinkInv
    <3>3. TLSUnique(c) = TLSUnique(s)
      BY <2>3, <3>1, <3>2 DEF TLSUnique
    <3> QED
      BY <1>7, <1>8, <1>10, <2>2, <2>3, <2>4, <3>3 DEF Outcome, KeyOf, NoKey
  <2>6. CASE ~c.resumed
    <3>1. c.resumed = FALSE /\ s.resumed = FALSE
      BY <1>7, <1>10, <2>2, <2>6
    <3>2. c.clientFinishedIsFirst = TRUE /\ s.clientFinishedIsFirst = TRUE /\ c.clientFinished = s.clientFinished
      BY <1>4, <1>5, <1>10, <2>1, <3>1 DEF ClientKeyInv, ServerKeyInv, LinkInv
    <3>3. TLSUnique(c) = TLSUnique(s)
      BY <2>3, <3>1, <3>2 DEF TLSUnique
    <3> QED
      BY <1>7, <1>8, <1>10, <2>2, <2>3, <2>4, <3>3 DEF Outcome, KeyOf, NoKey
  <2> QED
    BY <2>5, <2>6
<1>11. /\ c.pc = "complete" /\ ~c.resumed => s.pc = "complete"
       /\ s.pc = "complete" /\ s.resumed => c.pc = "complete"
  BY <1>4, <1>5 DEF LinkInv
<1> QED
  BY <1>2, <1>3, <1>6, <1>9, <1>10, <1>11 DEF Agreement, Complete

(* Two ends that complete a handshake agree on what it negotiated, on          *)
(* TLSUnique and on the keys; the end that sends its Finished first completes  *)
(* last; and a cached session is the one sealed in its ticket, whatever        *)
(* Configs the connections had (handshake_client.go, handshake_server.go).     *)
THEOREM EndsAgree == Spec => []Agreement
BY HandshakeInvariant, InvAgreement, PTL

(* The invariant implies the policy. *)
LEMMA InvPolicy == HandshakeInv => AuthPolicy
<1> SUFFICES ASSUME HandshakeInv PROVE AuthPolicy
  OBVIOUS
<1>1. PICK w : w = World
  OBVIOUS
<1>2. /\ w.c = st.client /\ w.s = st.server /\ w.cf = cfg /\ w.pr = proved
      /\ ClientAuthInv(w) /\ ServerAuthInv(w)
  BY <1>1, WorldIs DEF HandshakeInv, Inv, ClientInv, ServerInv
<1>3. CallbackSaw
  BY <1>2 DEF CallbackSaw, Complete, Ends, ClientAuthInv, ServerAuthInv, ServerDone
<1>4. Complete("client") => cfg.client.insecure \/ st.client.verified
  BY <1>2 DEF Complete, ClientAuthInv, ClientDone
<1>5. Complete("server") => /\ ServerPolicy(st.server, cfg.server)
                            /\ st.server.peerCert = proved[st.server.master.conn]
  BY <1>2 DEF Complete, ServerAuthInv, ServerDone
<1> QED
  BY <1>3, <1>4, <1>5 DEF AuthPolicy, ServerPolicy, RequiresClientCert

(* No handshake, full or resumed, completes against the Config it runs under:  *)
(* the verified server, the ClientAuth and ClientCAs of the server, a client   *)
(* certificate proved on the session's first connection, and a                 *)
(* VerifyConnection callback that saw the connection that is used.             *)
THEOREM PolicyIsKept == Spec => []AuthPolicy
BY HandshakeInvariant, InvPolicy, PTL
=============================================================================
