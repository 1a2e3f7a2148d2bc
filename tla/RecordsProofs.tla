--------------------------- MODULE RecordsProofs ---------------------------
(***************************************************************************)
(* What the reading half of a Conn guarantees for every value of the       *)
(* constants: any number of records, bytes and messages, and any limit on  *)
(* useless records.  The invariants speak of what is still under way, so   *)
(* they are stated over paths: the records in rawInput and on the wire     *)
(* lead from where the reader stands to where the peer stands.  Three      *)
(* kinds of place are used in turn: a count of bytes (DataInv), a count of *)
(* halves of messages (KeyInv), and the step of the protocol with the      *)
(* count of useless records (LegalInv).                                    *)
(***************************************************************************)
EXTENDS Records, SequenceTheorems, FiniteSetTheorems, TLAPS

-----------------------------------------------------------------------------
(* Paths.  A sequence of records takes a reader from one place to another: R   *)
(* is the set of the triples <<place, record, next place>> that are allowed.   *)

Chain(rs, at, R) == \A i \in 1..Len(rs) : <<at[i], rs[i], at[i+1]>> \in R

Path(rs, s, e, R) ==
    \E at : /\ DOMAIN at = 1..Len(rs)+1 /\ at[1] = s /\ at[Len(rs)+1] = e
            /\ Chain(rs, at, R)

LEMMA PathEmpty == \A s, e, R : Path(<<>>, s, e, R) <=> s = e
<1> SUFFICES ASSUME NEW s, NEW e, NEW R PROVE Path(<<>>, s, e, R) <=> s = e
  OBVIOUS
<1>1. Path(<<>>, s, e, R) => s = e
  BY DEF Path
<1>2. ASSUME s = e PROVE Path(<<>>, s, e, R)
  <2> DEFINE at == [i \in 1..1 |-> s]
  <2>1. DOMAIN at = 1..Len(<<>>)+1 /\ at[1] = s /\ at[Len(<<>>)+1] = e
    BY <1>2
  <2>2. Chain(<<>>, at, R)
    BY DEF Chain
  <2> QED
    BY <2>1, <2>2 DEF Path
<1> QED
  BY <1>1, <1>2

LEMMA PathAppend ==
  ASSUME NEW T, NEW rs \in Seq(T), NEW r, NEW s, NEW e, NEW f, NEW R, Path(rs, s, e, R), <<e, r, f>> \in R
  PROVE  Path(Append(rs, r), s, f, R)
<1>0. Len(rs) \in Nat
  BY LenProperties
<1>1. PICK at : DOMAIN at = 1..Len(rs)+1 /\ at[1] = s /\ at[Len(rs)+1] = e /\ Chain(rs, at, R)
  BY DEF Path
<1> DEFINE n == Len(rs)
           t == Append(rs, r)
           b == [i \in 1..n+2 |-> IF i <= n+1 THEN at[i] ELSE f]
<1>2. Len(t) = n + 1 /\ t[n+1] = r /\ \A i \in 1..n : t[i] = rs[i]
  BY <1>0
<1>3. DOMAIN b = 1..n+2 /\ b[n+2] = f /\ \A i \in 1..n+1 : b[i] = at[i]
  BY <1>0
<1> HIDE DEF t, b
<1>4. ASSUME NEW i \in 1..n+1 PROVE <<b[i], t[i], b[i+1]>> \in R
  <2>1. CASE i \in 1..n
    <3>1. <<at[i], rs[i], at[i+1]>> \in R
      BY <1>1, <2>1 DEF Chain
    <3>2. b[i] = at[i] /\ b[i+1] = at[i+1] /\ t[i] = rs[i]
      BY <1>0, <1>2, <1>3, <2>1
    <3> QED
      BY <3>1, <3>2
  <2>2. CASE i = n+1
    <3>1. b[i] = e /\ b[i+1] = f /\ t[i] = r
      BY <1>0, <1>1, <1>2, <1>3, <2>2
    <3> QED
      BY <3>1
  <2> QED
    BY <1>0, <2>1, <2>2
<1>5. DOMAIN b = 1..Len(t)+1 /\ b[1] = s /\ b[Len(t)+1] = f
  BY <1>0, <1>1, <1>2, <1>3
<1>6. Chain(t, b, R)
  BY <1>2, <1>4 DEF Chain
<1>7. Path(t, s, f, R)
  BY <1>5, <1>6 DEF Path
<1> QED
  BY <1>7 DEF t

LEMMA PathTail ==
  ASSUME NEW T, NEW rs \in Seq(T), rs # <<>>, NEW s, NEW e, NEW R, Path(rs, s, e, R)
  PROVE  \E m : <<s, Head(rs), m>> \in R /\ Path(Tail(rs), m, e, R)
<1>0. Len(rs) \in Nat /\ Len(rs) # 0
  BY EmptySeq, LenProperties
<1>1. PICK at : DOMAIN at = 1..Len(rs)+1 /\ at[1] = s /\ at[Len(rs)+1] = e /\ Chain(rs, at, R)
  BY DEF Path
<1> DEFINE n == Len(rs)
           t == Tail(rs)
           b == [i \in 1..n |-> at[i+1]]
<1>2. Len(t) = n - 1 /\ Head(rs) = rs[1] /\ \A i \in 1..n-1 : t[i] = rs[i+1]
  BY <1>0, HeadTailProperties
<1>3. DOMAIN b = 1..n /\ \A i \in 1..n : b[i] = at[i+1]
  BY <1>0
<1> HIDE DEF t, b
<1>4. ASSUME NEW i \in 1..n-1 PROVE <<b[i], t[i], b[i+1]>> \in R
  <2>1. i+1 \in 1..n /\ i \in 1..n
    BY <1>0
  <2>2. <<at[i+1], rs[i+1], at[(i+1)+1]>> \in R
    BY <1>1, <2>1 DEF Chain
  <2>3. b[i] = at[i+1] /\ b[i+1] = at[(i+1)+1] /\ t[i] = rs[i+1]
    BY <1>2, <1>3, <2>1
  <2> QED
    BY <2>2, <2>3
<1>5. DOMAIN b = 1..Len(t)+1 /\ b[1] = at[2] /\ b[Len(t)+1] = e
  <2>1. Len(t)+1 = n /\ 1 \in 1..n /\ n \in 1..n
    BY <1>0, <1>2
  <2> QED
    BY <1>1, <1>3, <2>1
<1>6. Chain(t, b, R)
  BY <1>2, <1>4 DEF Chain
<1>7. Path(t, at[2], e, R)
  BY <1>5, <1>6 DEF Path
<1>8. <<s, Head(rs), at[2]>> \in R
  <2>1. <<at[1], rs[1], at[1+1]>> \in R
    BY <1>0, <1>1 DEF Chain
  <2> QED
    BY <1>1, <1>2, <2>1
<1> QED
  BY <1>7, <1>8 DEF t
-----------------------------------------------------------------------------
(* The records under way. *)

Kinds == {"ServerHello", "EncryptedExtensions", "ServerHelloDone", "Finished",
          "NewSessionTicket", "KeyUpdate", "HelloRequest"}
Rec(r) ==
    /\ r.keys \in Nat
    /\ \/ r.typ = "handshake" /\ r.data \in Seq(Kinds)
       \/ r.typ = "data" /\ r.data \in Seq(Nat)
       \/ r.typ = "alert" /\ r.data \in {"warning", "close", "fatal"}
       \/ r.typ = "ccs"
RecType == [typ : {"handshake", "data", "alert", "ccs"}, keys : Nat,
            data : Seq(Kinds) \cup Seq(Nat) \cup {"warning", "close", "fatal", 1}]
Recs == {r \in RecType : Rec(r)}
InFlight == raw \o wire
FlightType == raw \in Seq(Recs) /\ wire \in Seq(Recs)

LEMMA ConcatHeadTail ==
  ASSUME NEW S, NEW s \in Seq(S), NEW t \in Seq(S), s # <<>>
  PROVE  s \o t # <<>> /\ Head(s \o t) = Head(s) /\ Tail(s \o t) = Tail(s) \o t
<1> DEFINE u == s \o t
           v == Tail(s) \o t
<1>1. Len(s) \in Nat /\ Len(s) # 0 /\ Len(t) \in Nat
  BY LenProperties, EmptySeq
<1>2. u \in Seq(S) /\ Len(u) = Len(s) + Len(t)
      /\ \A i \in 1..Len(s)+Len(t) : u[i] = IF i <= Len(s) THEN s[i] ELSE t[i - Len(s)]
  BY ConcatProperties
<1>3. Tail(s) \in Seq(S) /\ Len(Tail(s)) = Len(s) - 1 /\ \A i \in 1..Len(s)-1 : Tail(s)[i] = s[i+1]
  BY HeadTailProperties
<1>4. v \in Seq(S) /\ Len(v) = Len(s) - 1 + Len(t)
      /\ \A i \in 1..Len(s)-1+Len(t) : v[i] = IF i <= Len(s) - 1 THEN Tail(s)[i] ELSE t[i - (Len(s) - 1)]
  BY <1>3, ConcatProperties
<1> HIDE DEF u, v
<1>5. u # <<>>
  BY <1>1, <1>2
<1>6. Tail(u) \in Seq(S) /\ Len(Tail(u)) = Len(u) - 1 /\ \A i \in 1..Len(u)-1 : Tail(u)[i] = u[i+1]
  BY <1>2, <1>5, HeadTailProperties
<1>7. Head(u) = Head(s)
  BY <1>1, <1>2
<1>8. ASSUME NEW i \in 1..Len(v) PROVE v[i] = Tail(u)[i]
  <2>1. i \in 1..Len(u)-1 /\ i + 1 \in 1..Len(s)+Len(t) /\ i \in 1..Len(s)-1+Len(t) /\ i \in Int
    BY <1>1, <1>2, <1>4
  <2>2. Tail(u)[i] = u[i+1]
    BY <1>6, <2>1
  <2>3. CASE i <= Len(s) - 1
    <3>1. v[i] = Tail(s)[i] /\ Tail(s)[i] = s[i+1]
      BY <1>1, <1>3, <1>4, <2>1, <2>3
    <3>2. u[i+1] = s[i+1]
      BY <1>1, <1>2, <2>1, <2>3
    <3> QED
      BY <2>2, <3>1, <3>2
  <2>4. CASE ~(i <= Len(s) - 1)
    <3>1. v[i] = t[i - (Len(s) - 1)]
      BY <1>4, <2>1, <2>4
    <3>2. u[i+1] = t[i + 1 - Len(s)]
      BY <1>1, <1>2, <2>1, <2>4
    <3>3. i - (Len(s) - 1) = i + 1 - Len(s)
      BY <1>1, <2>1
    <3> QED
      BY <2>2, <3>1, <3>2, <3>3
  <2> QED
    BY <2>3, <2>4
<1>9. v = Tail(u)
  <2>1. Len(v) = Len(Tail(u))
    BY <1>1, <1>2, <1>4, <1>6
  <2> QED
    BY <1>4, <1>6, <1>8, <2>1, SeqEqual
<1> QED
  BY <1>5, <1>7, <1>9 DEF u, v

LEMMA FetchIs ==
  ASSUME FlightType, Fetch
  PROVE  /\ FlightType' /\ InFlight \in Seq(Recs) /\ InFlight # <<>>
         /\ Record = Head(InFlight) /\ Record \in Recs /\ InFlight' = Tail(InFlight)
         /\ NeedsRecord /\ c.inErr = "none" /\ c.input = <<>>
<1>0. NeedsRecord /\ c.inErr = "none" /\ c.input = <<>> /\ Record = Head(InFlight)
  BY DEF Fetch, MayRead, Record, InFlight
<1>1. raw \in Seq(Recs) /\ wire \in Seq(Recs)
  BY DEF FlightType
<1>2. CASE raw # <<>> /\ raw' = Tail(raw) /\ UNCHANGED wire
  <2>1. raw' \in Seq(Recs) /\ wire' \in Seq(Recs) /\ Head(raw) \in Recs
    BY <1>1, <1>2, HeadTailProperties
  <2>2. Head(raw \o wire) = Head(raw) /\ Tail(raw \o wire) = Tail(raw) \o wire /\ raw \o wire # <<>>
        /\ raw \o wire \in Seq(Recs)
    BY <1>1, <1>2, ConcatHeadTail, ConcatProperties, Zenon
  <2> QED
    BY <1>0, <1>2, <2>1, <2>2 DEF InFlight, FlightType
<1>3. CASE raw = <<>> /\ \E k \in 1..Len(wire) : /\ raw' = SubSeq(wire, 2, k)
                                                 /\ wire' = SubSeq(wire, k + 1, Len(wire))
  <2>1. PICK k \in 1..Len(wire) : raw' = SubSeq(wire, 2, k) /\ wire' = SubSeq(wire, k + 1, Len(wire))
    BY <1>3
  <2>2. raw \o wire = wire
    BY <1>1, <1>3, ConcatEmptySeq
  <2>3. Len(wire) \in Nat /\ wire # <<>>
    BY <1>1, LenProperties, EmptySeq
  <2>4. Head(wire) \in Recs /\ Tail(wire) = SubSeq(wire, 2, Len(wire))
    BY <1>1, <2>3, HeadTailProperties, TailIsSubSeq
  <2>5. SubSeq(wire, 2, k) \o SubSeq(wire, k+1, Len(wire)) = SubSeq(wire, 2, Len(wire))
    <3>1. 2 \in 1..Len(wire)+1 /\ k \in 2-1..Len(wire) /\ Len(wire) \in k..Len(wire)
      BY <2>3
    <3> QED
      BY <1>1, <3>1, ConcatAdjacentSubSeq, Zenon
  <2>6. SubSeq(wire, 2, k) \in Seq(Recs) /\ SubSeq(wire, k+1, Len(wire)) \in Seq(Recs)
    BY <1>1, <2>3, SubSeqProperties
  <2>7. raw' \o wire' = Tail(wire)
    BY <2>1, <2>4, <2>5, Zenon
  <2> QED
    BY <1>0, <1>1, <2>1, <2>2, <2>3, <2>4, <2>6, <2>7, Zenon DEF InFlight, FlightType
<1> QED
  BY <1>2, <1>3 DEF Fetch

(* Whatever the peer's records do to a path. *)
LEMMA FetchPath ==
  ASSUME FlightType, Fetch, NEW s, NEW e, NEW R, Path(InFlight, s, e, R)
  PROVE  \E m : <<s, Record, m>> \in R /\ Path(InFlight', m, e, R)
<1>1. /\ InFlight \in Seq(Recs) /\ InFlight # <<>>
      /\ Record = Head(InFlight) /\ InFlight' = Tail(InFlight)
  BY FetchIs
<1>2. \E m : <<s, Head(InFlight), m>> \in R /\ Path(Tail(InFlight), m, e, R)
  BY <1>1, PathTail
<1> QED
  BY <1>1, <1>2

LEMMA EmitIs ==
  ASSUME FlightType, NEW typ, NEW data, Emit(typ, data), UNCHANGED raw,
         [typ |-> typ, keys |-> p.keys, data |-> data] \in Recs
  PROVE  /\ FlightType' /\ InFlight \in Seq(Recs)
         /\ InFlight' = Append(InFlight, [typ |-> typ, keys |-> p.keys, data |-> data])
         /\ ~p.closed /\ c.inErr = "none"
<1> DEFINE r == [typ |-> typ, keys |-> p.keys, data |-> data]
<1>0. wire' = Append(wire, r) /\ ~p.closed /\ c.inErr = "none" /\ raw' = raw /\ r \in Recs
  BY DEF Emit, PeerMayAct
<1> HIDE DEF r
<1>1. raw \in Seq(Recs) /\ wire \in Seq(Recs)
  BY DEF FlightType
<1>2. Append(wire, r) \in Seq(Recs) /\ Append(wire, r) = wire \o <<r>> /\ <<r>> \in Seq(Recs)
  BY <1>0, <1>1, AppendIsConcat, AppendProperties
<1>3. raw \o wire \in Seq(Recs)
  BY <1>1, ConcatProperties
<1>4. raw \o (wire \o <<r>>) = (raw \o wire) \o <<r>>
  BY <1>1, <1>2, ConcatAssociative
<1>5. (raw \o wire) \o <<r>> = Append(raw \o wire, r)
  BY <1>0, <1>3, AppendIsConcat
<1> QED
  BY <1>0, <1>1, <1>2, <1>3, <1>4, <1>5, Zenon DEF InFlight, FlightType, r

LEMMA EmitPath ==
  ASSUME FlightType, NEW typ, NEW data, Emit(typ, data), UNCHANGED raw,
         [typ |-> typ, keys |-> p.keys, data |-> data] \in Recs,
         NEW s, NEW e, NEW f, NEW R, Path(InFlight, s, e, R), <<e, [typ |-> typ, keys |-> p.keys, data |-> data], f>> \in R
  PROVE  Path(InFlight', s, f, R)
<1> DEFINE r == [typ |-> typ, keys |-> p.keys, data |-> data]
<1>1. InFlight \in Seq(Recs) /\ InFlight' = Append(InFlight, r)
  BY EmitIs
<1>2. <<e, r, f>> \in R
  OBVIOUS
<1> HIDE DEF r
<1> QED
  BY <1>1, <1>2, PathAppend

(* The connection is a record: what its updates leave behind.                  *)
IsConn(d) ==
    d \in [policy : {d.policy}, vers : {d.vers}, pc : {d.pc}, step : {d.step}, keys : {d.keys},
         hand : {d.hand}, input : {d.input}, retryCount : {d.retryCount}, complete : {d.complete},
         handshakes : {d.handshakes}, hellos : {d.hellos}, inErr : {d.inErr}, dead : {d.dead},
         held : {d.held}, got : {d.got}, last : {d.last}, taken : {d.taken}]

Cat(s, t) == s \o t

LEMMA ReturnIs ==
  ASSUME NEW d, IsConn(d), NEW e
  PROVE  LET r == Return(d, e) IN
         /\ IsConn(r) /\ r.pc = "idle" /\ r.last = e /\ r.got = Cat(d.got, d.held) /\ r.held = <<>>
         /\ r.dead = (d.dead \/ d.pc = "hs") /\ r.policy = d.policy /\ r.vers = d.vers /\ r.step = d.step
         /\ r.keys = d.keys /\ r.hand = d.hand /\ r.input = d.input /\ r.retryCount = d.retryCount
         /\ r.complete = d.complete /\ r.handshakes = d.handshakes /\ r.hellos = d.hellos
         /\ r.inErr = d.inErr /\ r.taken = d.taken
  BY DEF IsConn, Return, Cat

LEMMA FailIs ==
  ASSUME NEW d, IsConn(d), NEW e
  PROVE  LET r == Fail(d, e) IN
         /\ IsConn(r) /\ r.pc = "idle" /\ r.last = e /\ r.got = Cat(d.got, d.held) /\ r.held = <<>>
         /\ r.dead = (d.dead \/ d.pc = "hs") /\ r.policy = d.policy /\ r.vers = d.vers /\ r.step = d.step
         /\ r.keys = d.keys /\ r.hand = d.hand /\ r.input = d.input /\ r.retryCount = d.retryCount
         /\ r.complete = d.complete /\ r.handshakes = d.handshakes /\ r.hellos = d.hellos
         /\ r.inErr = e /\ r.taken = d.taken
  BY DEF IsConn, Return, Cat, Fail

LEMMA LoopIs ==
  ASSUME NEW d, IsConn(d)
  PROVE  LET r == Loop(d) IN
         /\ IsConn(r) /\ r.pc = (IF d.hand # <<>> THEN "post" ELSE "read")
         /\ r.last = d.last /\ r.got = d.got /\ r.held = d.held
         /\ r.dead = d.dead /\ r.policy = d.policy /\ r.vers = d.vers /\ r.step = d.step
         /\ r.keys = d.keys /\ r.hand = d.hand /\ r.input = d.input /\ r.retryCount = d.retryCount
         /\ r.complete = d.complete /\ r.handshakes = d.handshakes /\ r.hellos = d.hellos
         /\ r.inErr = d.inErr /\ r.taken = d.taken
  BY DEF IsConn, Loop

LEMMA TakenIs ==
  ASSUME IsConn(c)
  PROVE  /\ IsConn(Taken) /\ Taken.hand = SubSeq(c.hand, 3, Len(c.hand))
         /\ Taken.taken = [kind |-> c.hand[1].kind, at |-> c.keys, keys |-> {c.hand[1].keys, c.hand[2].keys}]
         /\ Taken.last = c.last /\ Taken.got = c.got /\ Taken.held = c.held
         /\ Taken.dead = c.dead /\ Taken.policy = c.policy /\ Taken.vers = c.vers /\ Taken.step = c.step
         /\ Taken.keys = c.keys /\ Taken.pc = c.pc /\ Taken.input = c.input /\ Taken.retryCount = c.retryCount
         /\ Taken.complete = c.complete /\ Taken.handshakes = c.handshakes /\ Taken.hellos = c.hellos
         /\ Taken.inErr = c.inErr
  BY DEF IsConn, Taken

(* What a record adds to the connection. *)
Halves(r) == [i \in 1..Len(r.data) |-> [kind |-> r.data[i], keys |-> r.keys]]

LEMMA AppliedIs ==
  ASSUME IsConn(c), NEW r \in Recs, r.typ # "alert"
  PROVE  LET d == Applied(r) IN
         /\ IsConn(d) /\ d.retryCount = Counted(r)
         /\ d.input = (IF r.typ = "data" THEN r.data ELSE c.input)
         /\ d.hand = (IF r.typ = "handshake" THEN Cat(c.hand, Halves(r)) ELSE c.hand)
         /\ d.keys = (IF r.typ = "ccs" THEN c.keys + 1 ELSE c.keys)
         /\ d.step = (IF r.typ = "ccs" THEN c.step + 1 ELSE c.step)
         /\ d.last = c.last /\ d.got = c.got /\ d.held = c.held /\ d.pc = c.pc
         /\ d.dead = c.dead /\ d.policy = c.policy /\ d.vers = c.vers
         /\ d.complete = c.complete /\ d.handshakes = c.handshakes /\ d.hellos = c.hellos
         /\ d.inErr = c.inErr /\ d.taken = c.taken
<1>0. r.typ \in {"handshake", "data", "ccs"}
  BY DEF Recs, RecType
<1> DEFINE x == Counted(r)
           h == Cat(c.hand, Halves(r))
           d == [c EXCEPT !.retryCount = x]
<1> HIDE DEF x, h
<1>1. Applied(r) = CASE r.typ = "data" -> [d EXCEPT !.input = r.data]
                     [] r.typ = "handshake" -> [d EXCEPT !.hand = h]
                     [] r.typ = "ccs" -> [d EXCEPT !.keys = @ + 1, !.step = @ + 1]
  <2>1. d.hand = c.hand
    BY DEF IsConn
  <2> QED
    BY <2>1 DEF Applied, x, h, Cat, Halves
<1>2. CASE r.typ = "data"
  <2>1. Applied(r) = [d EXCEPT !.input = r.data]
    BY <1>1, <1>2
  <2> QED
    BY <1>2, <2>1 DEF IsConn, x
<1>3. CASE r.typ = "handshake"
  <2>1. Applied(r) = [d EXCEPT !.hand = h]
    BY <1>1, <1>3
  <2>2. LET e == [d EXCEPT !.hand = h] IN
        /\ IsConn(e) /\ e.retryCount = x /\ e.hand = h
        /\ e.input = c.input /\ e.keys = c.keys /\ e.step = c.step
        /\ e.last = c.last /\ e.got = c.got /\ e.held = c.held /\ e.pc = c.pc
        /\ e.dead = c.dead /\ e.policy = c.policy /\ e.vers = c.vers
        /\ e.complete = c.complete /\ e.handshakes = c.handshakes /\ e.hellos = c.hellos
        /\ e.inErr = c.inErr /\ e.taken = c.taken
    BY DEF IsConn
  <2> QED
    BY <1>3, <2>1, <2>2 DEF x, h
<1>4. CASE r.typ = "ccs"
  <2>1. Applied(r) = [d EXCEPT !.keys = @ + 1, !.step = @ + 1]
    BY <1>1, <1>4
  <2> QED
    BY <1>4, <2>1 DEF IsConn, x
<1> QED
  BY <1>0, <1>2, <1>3, <1>4

-----------------------------------------------------------------------------
(* The peer is a record as well. *)
IsPeer(q) ==
    q \in [vers : {q.vers}, keys : {q.keys}, step : {q.step}, pend : {q.pend}, due : {q.due},
           rounds : {q.rounds}, asked : {q.asked}, post : {q.post}, useless : {q.useless},
           bytes : {q.bytes}, records : {q.records}, errors : {q.errors}, closed : {q.closed},
           legal : {q.legal}]

LEMMA SentIs ==
  ASSUME NEW q, IsPeer(q)
  PROVE  /\ IsPeer(Sent(q)) /\ Sent(q).vers = q.vers /\ Sent(q).keys = q.keys /\ Sent(q).step = q.step
         /\ Sent(q).pend = q.pend /\ Sent(q).due = q.due /\ Sent(q).rounds = q.rounds
         /\ Sent(q).asked = q.asked /\ Sent(q).post = q.post /\ Sent(q).useless = q.useless
         /\ Sent(q).bytes = q.bytes /\ Sent(q).closed = q.closed /\ Sent(q).legal = q.legal
  BY DEF IsPeer, Sent

LEMMA UselessIs ==
  ASSUME NEW q, IsPeer(q), NEW ok
  PROVE  /\ IsPeer(Useless(q, ok)) /\ Useless(q, ok).vers = q.vers /\ Useless(q, ok).keys = q.keys
         /\ Useless(q, ok).step = q.step /\ Useless(q, ok).pend = q.pend /\ Useless(q, ok).due = q.due
         /\ Useless(q, ok).rounds = q.rounds /\ Useless(q, ok).asked = q.asked /\ Useless(q, ok).post = q.post
         /\ Useless(q, ok).useless = q.useless + 1 /\ Useless(q, ok).bytes = q.bytes
         /\ Useless(q, ok).closed = q.closed
         /\ Useless(q, ok).legal = (q.legal /\ ok /\ q.useless < maxUselessRecords)
  BY DEF IsPeer, Useless

LEMMA QueueIs ==
  ASSUME NEW q, IsPeer(q), NEW k
  PROVE  /\ IsPeer(Queue(q, k)) /\ Queue(q, k).vers = q.vers /\ Queue(q, k).keys = q.keys
         /\ Queue(q, k).pend = Cat(q.pend, <<k, k>>)
         /\ Queue(q, k).step = (IF k = "HelloRequest" THEN 1
                                ELSE IF k \in PostHandshake(q.vers) THEN q.step ELSE q.step + 1)
         /\ Queue(q, k).bytes = q.bytes /\ Queue(q, k).closed = q.closed
  BY DEF IsPeer, Queue, Cat
-----------------------------------------------------------------------------
(* The bytes. *)

Counting(s, n) == s \in Seq(Nat) /\ \A i \in 1..Len(s) : s[i] = n + i

LEMMA CountingEmpty == \A n : Counting(<<>>, n) /\ Len(<<>>) = 0
  BY EmptySeq DEF Counting

LEMMA CountingLen == ASSUME NEW s, NEW n, Counting(s, n) PROVE Len(s) \in Nat
  BY LenProperties DEF Counting

LEMMA CountingConcat ==
  ASSUME NEW s, NEW t, NEW n \in Nat, Counting(s, n), Counting(t, n + Len(s))
  PROVE  Counting(s \o t, n) /\ Len(s \o t) = Len(s) + Len(t)
<1>1. s \in Seq(Nat) /\ t \in Seq(Nat) /\ Len(s) \in Nat /\ Len(t) \in Nat
  BY CountingLen DEF Counting
<1> DEFINE u == s \o t
<1>2. u \in Seq(Nat) /\ Len(u) = Len(s) + Len(t)
      /\ \A i \in 1..Len(s)+Len(t) : u[i] = IF i <= Len(s) THEN s[i] ELSE t[i - Len(s)]
  BY <1>1, ConcatProperties
<1> HIDE DEF u
<1>3. ASSUME NEW i \in 1..Len(u) PROVE u[i] = n + i
  <2>1. CASE i <= Len(s)
    <3>1. u[i] = s[i] /\ i \in 1..Len(s)
      BY <1>1, <1>2, <2>1
    <3> QED
      BY <3>1 DEF Counting
  <2>2. CASE ~(i <= Len(s))
    <3>1. u[i] = t[i - Len(s)] /\ i - Len(s) \in 1..Len(t)
      BY <1>1, <1>2, <2>2
    <3>2. t[i - Len(s)] = n + Len(s) + (i - Len(s))
      BY <3>1 DEF Counting
    <3> QED
      BY <1>1, <3>1, <3>2
  <2> QED
    BY <2>1, <2>2
<1>4. Counting(u, n)
  BY <1>2, <1>3 DEF Counting
<1> QED
  BY <1>2, <1>4 DEF u

LEMMA CountingSplit ==
  ASSUME NEW s, NEW n \in Nat, Counting(s, n), NEW k \in 1..Len(s)
  PROVE  LET h == SubSeq(s, 1, k)
             t == SubSeq(s, k + 1, Len(s))
         IN  Counting(h, n) /\ Len(h) = k /\ Counting(t, n + k) /\ Len(t) = Len(s) - k
<1> DEFINE h == SubSeq(s, 1, k)
           t == SubSeq(s, k + 1, Len(s))
<1>1. s \in Seq(Nat) /\ Len(s) \in Nat /\ k \in Nat /\ k + 1 \in Int /\ \A i \in 1..Len(s) : s[i] \in Nat
  BY CountingLen, ElementOfSeq DEF Counting
<1>2. h \in Seq(Nat) /\ Len(h) = k /\ \A i \in 1..k : h[i] = s[i]
  <2>1. \A i \in 1..k : s[i] \in Nat
    BY <1>1
  <2>2. /\ SubSeq(s,1,k) \in Seq(Nat)
        /\ Len(SubSeq(s,1,k)) = IF 1<=k THEN k-1+1 ELSE 0
        /\ \A i \in 1 .. k-1+1 : SubSeq(s,1,k)[i] = s[1+i-1]
    BY <1>1, <2>1, SubSeqProperties
  <2> QED
    BY <1>1, <2>2
<1>3. t \in Seq(Nat) /\ Len(t) = Len(s) - k /\ \A i \in 1..Len(s)-k : t[i] = s[k+i]
  <2>1. \A i \in k+1..Len(s) : s[i] \in Nat
    BY <1>1
  <2>2. /\ SubSeq(s,k+1,Len(s)) \in Seq(Nat)
        /\ Len(SubSeq(s,k+1,Len(s))) = IF k+1<=Len(s) THEN Len(s)-(k+1)+1 ELSE 0
        /\ \A i \in 1 .. Len(s)-(k+1)+1 : SubSeq(s,k+1,Len(s))[i] = s[(k+1)+i-1]
    BY <1>1, <2>1, SubSeqProperties
  <2> QED
    BY <1>1, <2>2
<1> HIDE DEF h, t
<1>0. \A i \in 1..Len(s) : s[i] = n + i
  BY DEF Counting
<1>4. Counting(h, n)
  <2>1. ASSUME NEW i \in 1..k PROVE h[i] = n + i
    <3>1. h[i] = s[i] /\ i \in 1..Len(s)
      BY <1>1, <1>2
    <3> QED
      BY <1>0, <3>1
  <2> QED
    BY <1>2, <2>1 DEF Counting
<1>5. Counting(t, n + k)
  <2>1. \A i \in 1..Len(t) : t[i] = n + k + i
    BY <1>0, <1>1, <1>3
  <2> QED
    BY <1>3, <2>1 DEF Counting
<1> QED
  BY <1>2, <1>3, <1>4, <1>5 DEF h, t

(* A data record carries the bytes behind the ones before it, and nothing      *)
(* comes behind a close_notify.                                                *)
Size(r) == IF r.typ = "data" THEN Len(r.data) ELSE 0
Ends(r) == IF r.typ = "alert" /\ r.data = "close" THEN 1 ELSE 0
BytePlaces == Nat \X {0, 1}
ByteSteps ==
    {t \in BytePlaces \X Recs \X BytePlaces :
        /\ t[1][2] = 0 /\ (t[2].typ = "data" => Counting(t[2].data, t[1][1]))
        /\ t[3] = <<t[1][1] + Size(t[2]), Ends(t[2])>>}

LEMMA ByteStepIs ==
  ASSUME NEW n, NEW x, NEW r, NEW b
  PROVE  <<<<n, x>>, r, b>> \in ByteSteps =>
            /\ n \in Nat /\ x = 0 /\ r \in Recs /\ (r.typ = "data" => Counting(r.data, n))
            /\ b = <<n + Size(r), Ends(r)>> /\ Ends(r) \in {0, 1}
<1>1. <<n, x>> \in BytePlaces => n \in Nat /\ x \in {0, 1}
  BY DEF BytePlaces
<1>2. Ends(r) \in {0, 1}
  BY DEF Ends
<1> QED
  BY <1>1, <1>2 DEF ByteSteps

LEMMA ByteStep ==
  ASSUME NEW n \in Nat, NEW r \in Recs, (r.typ = "data" => Counting(r.data, n))
  PROVE  <<<<n, 0>>, r, <<n + Size(r), Ends(r)>>>> \in ByteSteps
<1>1. Size(r) \in Nat
  BY CountingLen DEF Size
<1>2. <<n, 0>> \in BytePlaces /\ <<n + Size(r), Ends(r)>> \in BytePlaces
  BY <1>1 DEF Ends, BytePlaces
<1> QED
  BY <1>2 DEF ByteSteps

(* What was read: returned to the application, held by a call, left in input.  *)
Total(g, h, i) == Len(g) + Len(h) + Len(i)
Counted3(g, h, i) == Counting(g, 0) /\ Counting(h, Len(g)) /\ Counting(i, Len(g) + Len(h))

LEMMA TotalIs ==
  ASSUME NEW g, NEW h, NEW i, Counted3(g, h, i)
  PROVE  Total(g, h, i) \in Nat
<1>1. Len(g) \in Nat /\ Len(h) \in Nat /\ Len(i) \in Nat
  BY CountingLen DEF Counted3
<1> QED
  BY <1>1 DEF Total

(* A call returns what it holds. *)
LEMMA TotalReturn ==
  ASSUME NEW g, NEW h, NEW i, Counted3(g, h, i)
  PROVE  /\ Counted3(Cat(g, h), <<>>, i) /\ Total(Cat(g, h), <<>>, i) = Total(g, h, i)
         /\ i = <<>> => Len(Cat(g, h)) = Total(g, h, i)
<1>1. Counting(g, 0) /\ Counting(h, 0 + Len(g)) /\ Counting(i, Len(g) + Len(h)) /\ Len(i) \in Nat
      /\ Len(g) \in Nat /\ Len(h) \in Nat
  BY CountingLen DEF Counted3
<1>2. Counting(Cat(g, h), 0) /\ Len(Cat(g, h)) = Len(g) + Len(h)
  BY <1>1, CountingConcat DEF Cat
<1>3. Counting(<<>>, Len(Cat(g, h))) /\ Len(<<>>) = 0
  BY CountingEmpty
<1>4. Len(Cat(g, h)) + Len(<<>>) = Len(g) + Len(h)
  BY <1>1, <1>2, <1>3
<1>5. Counted3(Cat(g, h), <<>>, i)
  BY <1>1, <1>2, <1>3, <1>4 DEF Counted3
<1>6. Total(Cat(g, h), <<>>, i) = Total(g, h, i)
  BY <1>4 DEF Total
<1>7. i = <<>> => Len(Cat(g, h)) = Total(g, h, i)
  BY <1>1, <1>2, <1>3 DEF Total
<1> QED
  BY <1>5, <1>6, <1>7

(* A record's bytes fill an empty input. *)
LEMMA TotalTake ==
  ASSUME NEW g, NEW h, NEW i, Counted3(g, h, <<>>), Counting(i, Total(g, h, <<>>))
  PROVE  Counted3(g, h, i) /\ Total(g, h, i) = Total(g, h, <<>>) + Len(i)
<1>1. Counting(g, 0) /\ Counting(h, Len(g)) /\ Len(<<>>) = 0 /\ Len(g) \in Nat /\ Len(h) \in Nat /\ Len(i) \in Nat
  BY CountingLen, CountingEmpty DEF Counted3
<1>2. Total(g, h, <<>>) = Len(g) + Len(h)
  BY <1>1 DEF Total
<1>3. Counted3(g, h, i)
  BY <1>1, <1>2 DEF Counted3
<1> QED
  BY <1>1, <1>2, <1>3 DEF Total

(* A call takes n bytes of the input. *)
LEMMA TotalSplit ==
  ASSUME NEW g, NEW i, Counted3(g, <<>>, i), NEW n \in 1..Len(i)
  PROVE  LET h == SubSeq(i, 1, n)
             t == SubSeq(i, n + 1, Len(i))
         IN  Counted3(g, h, t) /\ Total(g, h, t) = Total(g, <<>>, i)
<1> DEFINE h == SubSeq(i, 1, n)
           t == SubSeq(i, n + 1, Len(i))
<1>1. Counting(g, 0) /\ Counting(i, Len(g) + Len(<<>>)) /\ Len(<<>>) = 0 /\ Len(g) \in Nat /\ Len(i) \in Nat
  BY CountingLen, CountingEmpty DEF Counted3
<1>2. Counting(i, Len(g))
  <2>1. Len(g) + Len(<<>>) = Len(g)
    BY <1>1
  <2> QED
    BY <1>1, <2>1
<1>3. Counting(h, Len(g)) /\ Len(h) = n /\ Counting(t, Len(g) + n) /\ Len(t) = Len(i) - n
  BY <1>1, <1>2, CountingSplit
<1> HIDE DEF h, t
<1>4. Counted3(g, h, t)
  BY <1>1, <1>3 DEF Counted3
<1>5. Total(g, h, t) = Total(g, <<>>, i)
  BY <1>1, <1>3 DEF Total
<1> QED
  BY <1>4, <1>5 DEF h, t

BytesRead == Total(c.got, c.held, c.input)
DataInv ==
    /\ IsConn(c) /\ IsPeer(p) /\ FlightType /\ p.bytes \in Nat
    /\ Counted3(c.got, c.held, c.input)
    /\ (c.pc # "peek" => c.held = <<>>) /\ (c.pc = "peek" => c.input = <<>>)
    /\ c.last = "eof" => c.inErr = "eof"
    /\ c.inErr = "none" => \E x \in {0, 1} : /\ x = 1 => p.closed
                                             /\ Path(InFlight, <<BytesRead, 0>>, <<p.bytes, x>>, ByteSteps)
    /\ c.inErr = "eof" => BytesRead = p.bytes /\ c.held = <<>> /\ c.input = <<>>

(* Moves of the connection that take nothing from the transport. *)
Rests == p' = p /\ raw' = raw /\ wire' = wire
LEMMA RestPath == ASSUME Rests PROVE InFlight' = InFlight /\ (FlightType => FlightType')
  BY DEF Rests, InFlight, FlightType

(* A step that leaves the bytes where they are. *)
LEMMA BytesStay ==
  ASSUME DataInv, Rests, IsConn(c'), c'.got = c.got, c'.held = c.held, c'.input = c.input,
         c'.inErr = c.inErr, c'.last = c.last, c.pc # "peek", c'.pc # "peek"
  PROVE  DataInv'
<1>1. InFlight' = InFlight /\ FlightType' /\ BytesRead' = BytesRead /\ p' = p
  BY RestPath DEF DataInv, BytesRead, Rests
<1> QED
  BY <1>1 DEF DataInv

(* A call returns, from d. *)
LEMMA BytesReturned ==
  ASSUME DataInv, Rests, NEW d, IsConn(d), Counted3(d.got, d.held, d.input), d.inErr = c.inErr,
         Total(d.got, d.held, d.input) = BytesRead,
         c.inErr = "eof" => d.input = <<>>,
         NEW e, \/ c' = Return(d, e) /\ (e = "eof" => c.inErr = "eof")
                \/ c' = Fail(d, e) /\ e # "none" /\ e # "eof"
  PROVE  DataInv'
<1>1. InFlight' = InFlight /\ FlightType' /\ p' = p
  BY RestPath DEF DataInv, Rests
<1>2. /\ IsConn(c') /\ c'.got = Cat(d.got, d.held) /\ c'.held = <<>> /\ c'.input = d.input /\ c'.pc = "idle" /\ c'.last = e
      /\ \/ c'.inErr = d.inErr /\ (e = "eof" => d.inErr = "eof")
         \/ c'.inErr = e /\ e # "none" /\ e # "eof"
  BY ReturnIs, FailIs
<1>3. Counted3(Cat(d.got, d.held), <<>>, d.input) /\ Total(Cat(d.got, d.held), <<>>, d.input) = BytesRead
  BY TotalReturn
<1>4. BytesRead' = BytesRead
  BY <1>2, <1>3 DEF BytesRead
<1>5. Counted3(c'.got, c'.held, c'.input)
  BY <1>2, <1>3
<1>6. (c'.inErr = "none" => c.inErr = "none") /\ (c'.inErr = "eof" => c.inErr = "eof")
  BY <1>2
<1> QED
  BY <1>1, <1>2, <1>4, <1>5, <1>6 DEF DataInv

(* What the checks of readRecordOrCCS tell of a record. *)
LEMMA ErrorIs ==
  ASSUME NEW r \in Recs
  PROVE  /\ RecordError(r) = "eof" => r.typ = "alert" /\ r.data = "close"
         /\ RecordError(r) = "none" =>
              /\ Decrypts(r) /\ ~(r.typ = "alert" /\ r.data \in {"close", "fatal"})
              /\ ~(c.vers = 0 /\ r.typ \notin {"alert", "handshake"})
              /\ ~(r.typ = "ccs" /\ c.hand # <<>>)
              /\ ~(r.typ = "ccs" /\ c.vers # 13 /\ ~ExpectCCS)
              /\ ~(r.typ = "handshake" /\ ExpectCCS)
              /\ ~(r.typ = "data" /\ ~c.complete)
  BY DEF RecordError

LEMMA TakenRecord ==
  ASSUME NEW r \in Recs, RecordError(r) = "none", ~Ignored(r)
  PROVE  r.typ # "alert" /\ Ends(r) = 0 /\ (r.typ = "ccs" => c.vers # 13)
<1>1. r.typ = "alert" => r.data \in {"warning", "close", "fatal"}
  BY DEF Recs, Rec
<1> QED
  BY <1>1, ErrorIs DEF Ignored, Ends

LEMMA DroppedRecord ==
  ASSUME NEW r \in Recs, RecordError(r) = "none", Ignored(r)
  PROVE  Ends(r) = 0 /\ Size(r) = 0
  BY ErrorIs, EmptySeq DEF Ignored, Ends, Size

LEMMA Waits == NeedsRecord => c.pc \in {"hs", "post", "read", "peek"}
  BY DEF NeedsRecord

(* The record that is fetched carries the next bytes. *)
LEMMA BytesFetched ==
  ASSUME DataInv, Fetch, p' = p
  PROVE  /\ FlightType' /\ Record \in Recs /\ NeedsRecord /\ c.inErr = "none" /\ c.input = <<>>
         /\ Record.typ = "data" => Counting(Record.data, BytesRead)
         /\ \E x \in {0, 1} : /\ x = 1 => p.closed
                              /\ Path(InFlight', <<BytesRead + Size(Record), Ends(Record)>>, <<p.bytes, x>>, ByteSteps)
<1>0. FlightType
  BY DEF DataInv
<1>1. FlightType' /\ Record \in Recs /\ NeedsRecord /\ c.inErr = "none" /\ c.input = <<>>
  BY <1>0, FetchIs
<1>2. PICK x \in {0, 1} : (x = 1 => p.closed) /\ Path(InFlight, <<BytesRead, 0>>, <<p.bytes, x>>, ByteSteps)
  BY <1>1 DEF DataInv
<1>3. PICK m : <<<<BytesRead, 0>>, Record, m>> \in ByteSteps /\ Path(InFlight', m, <<p.bytes, x>>, ByteSteps)
  BY <1>0, <1>2, FetchPath
<1>4. (Record.typ = "data" => Counting(Record.data, BytesRead)) /\ m = <<BytesRead + Size(Record), Ends(Record)>>
  BY <1>3, ByteStepIs
<1> QED
  BY <1>1, <1>2, <1>3, <1>4

(* Nothing comes behind a close_notify. *)
LEMMA ByteEnd ==
  ASSUME NEW T, NEW rs \in Seq(T), NEW n, NEW b, NEW x, Path(rs, <<n, 1>>, <<b, x>>, ByteSteps)
  PROVE  n = b
<1>1. rs = <<>>
  <2>1. SUFFICES ASSUME rs # <<>> PROVE FALSE
    OBVIOUS
  <2>2. PICK m : <<<<n, 1>>, Head(rs), m>> \in ByteSteps
    BY <2>1, PathTail
  <2> QED
    BY <2>2, ByteStepIs
<1>2. <<n, 1>> = <<b, x>>
  BY <1>1, PathEmpty
<1> QED
  BY <1>2

LEMMA BytesRefuse == ASSUME DataInv, RefuseRecord PROVE DataInv'
<1>1. Fetch /\ p' = p /\ c' = Fail(c, RecordError(Record)) /\ RecordError(Record) # "none"
  BY DEF RefuseRecord
<1> DEFINE e == RecordError(Record)
<1>2. /\ FlightType' /\ Record \in Recs /\ c.inErr = "none" /\ c.input = <<>>
      /\ \E x \in {0, 1} : Path(InFlight', <<BytesRead + Size(Record), Ends(Record)>>, <<p.bytes, x>>, ByteSteps)
  BY <1>1, BytesFetched
<1>3. e = "eof" => Ends(Record) = 1 /\ Size(Record) = 0
  BY <1>2, ErrorIs DEF Ends, Size
<1> HIDE DEF e
<1>4. IsConn(c) /\ Counted3(c.got, c.held, c.input) /\ BytesRead \in Nat
  BY TotalIs DEF DataInv, BytesRead
<1>5. /\ IsConn(c') /\ c'.got = Cat(c.got, c.held) /\ c'.held = <<>> /\ c'.input = c.input /\ c'.pc = "idle"
      /\ c'.inErr = e /\ c'.last = e /\ e # "none"
  BY <1>1, <1>4, FailIs DEF e
<1>6. Counted3(Cat(c.got, c.held), <<>>, c.input) /\ Total(Cat(c.got, c.held), <<>>, c.input) = BytesRead
  BY <1>4, TotalReturn DEF BytesRead
<1>7. Counted3(c'.got, c'.held, c'.input) /\ BytesRead' = BytesRead
  BY <1>5, <1>6 DEF BytesRead
<1>8. ASSUME e = "eof" PROVE BytesRead = p.bytes
  <2>1. InFlight' \in Seq(Recs)
    BY <1>2, ConcatProperties DEF FlightType, InFlight
  <2>2. BytesRead + Size(Record) = p.bytes
    BY <1>2, <1>3, <1>8, <2>1, ByteEnd
  <2> QED
    BY <1>3, <1>4, <1>8, <2>2
<1> QED
  BY <1>1, <1>2, <1>5, <1>7, <1>8 DEF DataInv

LEMMA BytesDrop == ASSUME DataInv, DropRecord PROVE DataInv'
<1>1. Fetch /\ p' = p /\ c' = [c EXCEPT !.retryCount = Counted(Record) + 1] /\ RecordError(Record) = "none" /\ Ignored(Record)
  BY DEF DropRecord
<1>2. /\ FlightType' /\ Record \in Recs /\ c.inErr = "none" /\ c.input = <<>>
      /\ \E x \in {0, 1} : /\ x = 1 => p.closed
                           /\ Path(InFlight', <<BytesRead + Size(Record), Ends(Record)>>, <<p.bytes, x>>, ByteSteps)
  BY <1>1, BytesFetched
<1>3. Ends(Record) = 0 /\ Size(Record) = 0
  BY <1>1, <1>2, DroppedRecord
<1>4. BytesRead \in Nat /\ IsConn(c)
  BY TotalIs DEF DataInv, BytesRead
<1>5. /\ IsConn(c') /\ c'.got = c.got /\ c'.held = c.held /\ c'.input = c.input /\ c'.pc = c.pc
      /\ c'.inErr = c.inErr /\ c'.last = c.last
  BY <1>1, <1>4 DEF IsConn
<1>6. BytesRead' = BytesRead /\ BytesRead + Size(Record) = BytesRead
  BY <1>3, <1>4, <1>5 DEF BytesRead
<1>7. \E x \in {0, 1} : /\ x = 1 => p'.closed
                        /\ Path(InFlight', <<BytesRead', 0>>, <<p'.bytes, x>>, ByteSteps)
  BY <1>1, <1>2, <1>3, <1>6
<1> QED
  BY <1>1, <1>2, <1>5, <1>7 DEF DataInv

LEMMA BytesTake == ASSUME DataInv, TakeRecord PROVE DataInv'
<1> DEFINE d == Applied(Record)
<1>1. /\ Fetch /\ p' = p /\ RecordError(Record) = "none" /\ ~Ignored(Record)
      /\ c' = CASE c.pc = "read" -> Loop(d)
                [] c.pc = "peek" -> Return(d, "none")
                [] OTHER -> d
  BY DEF TakeRecord
<1>2. /\ FlightType' /\ Record \in Recs /\ NeedsRecord /\ c.inErr = "none" /\ c.input = <<>>
      /\ Record.typ = "data" => Counting(Record.data, BytesRead)
      /\ \E x \in {0, 1} : /\ x = 1 => p.closed
                           /\ Path(InFlight', <<BytesRead + Size(Record), Ends(Record)>>, <<p.bytes, x>>, ByteSteps)
  BY <1>1, BytesFetched
<1>3. Record.typ # "alert" /\ Ends(Record) = 0
  BY <1>1, <1>2, TakenRecord
<1>4. BytesRead \in Nat /\ IsConn(c) /\ Counted3(c.got, c.held, c.input)
  BY TotalIs DEF DataInv, BytesRead
<1>5. /\ IsConn(d) /\ d.got = c.got /\ d.held = c.held /\ d.pc = c.pc /\ d.inErr = c.inErr /\ d.last = c.last
      /\ d.input = (IF Record.typ = "data" THEN Record.data ELSE c.input)
  BY <1>2, <1>3, <1>4, AppliedIs
<1> HIDE DEF d
<1>7. Counted3(d.got, d.held, d.input) /\ Total(d.got, d.held, d.input) = BytesRead + Size(Record)
  <2>0. BytesRead = Total(d.got, d.held, <<>>) /\ Counted3(d.got, d.held, <<>>)
    BY <1>2, <1>4, <1>5 DEF BytesRead
  <2>1. CASE Record.typ = "data"
    <3>1. Counting(d.input, Total(d.got, d.held, <<>>)) /\ Size(Record) = Len(d.input)
      BY <1>2, <1>5, <2>0, <2>1 DEF Size
    <3> QED
      BY <2>0, <3>1, TotalTake
  <2>2. CASE Record.typ # "data"
    <3>1. d.input = <<>> /\ Size(Record) = 0
      BY <1>2, <1>5, <2>2 DEF Size
    <3> QED
      BY <1>4, <2>0, <3>1
  <2> QED
    BY <2>1, <2>2
<1>8. c.pc \in {"hs", "post", "read", "peek"} /\ (c.pc # "peek" => c.held = <<>>)
  BY <1>2, Waits DEF DataInv
<1>9. /\ IsConn(c') /\ c'.input = d.input /\ c'.inErr = "none" /\ c'.last # "eof" /\ c'.pc # "peek" /\ c'.held = <<>>
      /\ c'.got = (IF c.pc = "peek" THEN Cat(d.got, d.held) ELSE d.got)
  <2>0. c.last # "eof"
    BY <1>2 DEF DataInv
  <2>1. CASE c.pc = "read"
    BY <1>1, <1>2, <1>5, <1>8, <2>0, <2>1, LoopIs
  <2>2. CASE c.pc = "peek"
    BY <1>1, <1>2, <1>5, <1>8, <2>0, <2>2, ReturnIs
  <2>3. CASE c.pc \in {"hs", "post"}
    BY <1>1, <1>2, <1>5, <1>8, <2>0, <2>3
  <2> QED
    BY <1>8, <2>1, <2>2, <2>3
<1>10. Counted3(c'.got, c'.held, c'.input) /\ BytesRead' = BytesRead + Size(Record)
  <2>1. CASE c.pc = "peek"
    <3>1. /\ Counted3(Cat(d.got, d.held), <<>>, d.input)
          /\ Total(Cat(d.got, d.held), <<>>, d.input) = BytesRead + Size(Record)
      BY <1>7, TotalReturn
    <3> QED
      BY <1>9, <2>1, <3>1 DEF BytesRead
  <2>2. CASE c.pc # "peek"
    BY <1>5, <1>7, <1>8, <1>9, <2>2 DEF BytesRead
  <2> QED
    BY <2>1, <2>2
<1>12. \E x \in {0, 1} : /\ x = 1 => p'.closed
                         /\ Path(InFlight', <<BytesRead', 0>>, <<p'.bytes, x>>, ByteSteps)
  BY <1>1, <1>2, <1>3, <1>10
<1> QED
  BY <1>1, <1>2, <1>9, <1>10, <1>12 DEF DataInv

(* The other steps of the reader. *)
LEMMA BytesRefused == ASSUME DataInv, ReadRefused PROVE DataInv'
<1>1. Rests /\ (c' = IF c.inErr # "none" THEN Return(c, c.inErr) ELSE Fail(c, "internal"))
  BY DEF ReadRefused, Rests
<1>2. IsConn(c) /\ Counted3(c.got, c.held, c.input) /\ Total(c.got, c.held, c.input) = BytesRead
      /\ (c.inErr = "eof" => c.input = <<>>)
  BY DEF DataInv, BytesRead
<1>3. CASE c.inErr # "none"
  <2>1. c' = Return(c, c.inErr)
    BY <1>1, <1>3
  <2> QED
    BY <1>1, <1>2, <2>1, BytesReturned
<1>4. CASE c.inErr = "none"
  <2>1. c' = Fail(c, "internal")
    BY <1>1, <1>4
  <2> QED
    BY <1>1, <1>2, <2>1, BytesReturned
<1> QED
  BY <1>3, <1>4

LEMMA BytesTimeout == ASSUME DataInv, ReadTimeout PROVE DataInv'
<1>1. Rests /\ c' = Return(c, "timeout")
  BY DEF ReadTimeout, Rests
<1>2. IsConn(c) /\ Counted3(c.got, c.held, c.input) /\ Total(c.got, c.held, c.input) = BytesRead
      /\ (c.inErr = "eof" => c.input = <<>>)
  BY DEF DataInv, BytesRead
<1> QED
  BY <1>1, <1>2, BytesReturned

LEMMA BytesEOF == ASSUME DataInv, ReadEOF PROVE DataInv'
<1>1. Rests /\ c' = Fail(c, "eof") /\ raw = <<>> /\ wire = <<>> /\ c.inErr = "none" /\ c.input = <<>>
  BY DEF ReadEOF, Rests, MayRead
<1>2. IsConn(c) /\ Counted3(c.got, c.held, c.input)
  BY DEF DataInv
<1>3. InFlight = <<>>
  BY <1>1, EmptySeq, ConcatEmptySeq DEF InFlight
<1>4. BytesRead = p.bytes
  <2>1. PICK x \in {0, 1} : Path(<<>>, <<BytesRead, 0>>, <<p.bytes, x>>, ByteSteps)
    BY <1>1, <1>3 DEF DataInv
  <2>2. <<BytesRead, 0>> = <<p.bytes, x>>
    BY <2>1, PathEmpty
  <2> QED
    BY <2>2
<1>5. /\ IsConn(c') /\ c'.got = Cat(c.got, c.held) /\ c'.held = <<>> /\ c'.input = c.input /\ c'.pc = "idle"
      /\ c'.inErr = "eof" /\ c'.last = "eof"
  BY <1>1, <1>2, FailIs
<1>6. Counted3(Cat(c.got, c.held), <<>>, c.input) /\ Total(Cat(c.got, c.held), <<>>, c.input) = BytesRead
  BY <1>2, TotalReturn DEF BytesRead
<1>7. Counted3(c'.got, c'.held, c'.input) /\ BytesRead' = BytesRead
  BY <1>5, <1>6 DEF BytesRead
<1>8. FlightType' /\ p' = p
  BY <1>1, RestPath DEF DataInv, Rests
<1> QED
  BY <1>1, <1>4, <1>5, <1>7, <1>8 DEF DataInv

(* A message: it ends with an error, or the bytes stay. *)
LEMMA BytesMessage ==
  ASSUME DataInv, Rests, c.pc \in {"hs", "post"}, NEW d, IsConn(d),
         d.got = c.got, d.held = c.held, d.input = c.input, d.inErr = c.inErr, d.last = c.last,
         \/ c' = d /\ d.pc # "peek"
         \/ c' = Loop(d)
         \/ \E e \in {"unexpected", "keychange", "noreneg"} : c' = Return(d, e)
         \/ c' = Fail(d, "ignored")
  PROVE  DataInv'
<1>0. c.pc # "peek" /\ c.held = <<>>
  BY DEF DataInv
<1>1. CASE c' = d /\ d.pc # "peek"
  BY <1>0, <1>1, BytesStay
<1>2. CASE c' = Loop(d)
  <2>1. /\ IsConn(c') /\ c'.pc # "peek" /\ c'.got = c.got /\ c'.held = c.held /\ c'.input = c.input
        /\ c'.inErr = c.inErr /\ c'.last = c.last
    BY <1>2, LoopIs
  <2> QED
    BY <1>0, <2>1, BytesStay
<1>3. Counted3(d.got, d.held, d.input) /\ Total(d.got, d.held, d.input) = BytesRead
      /\ (c.inErr = "eof" => d.input = <<>>)
  BY DEF DataInv, BytesRead
<1>4. CASE \E e \in {"unexpected", "keychange", "noreneg"} : c' = Return(d, e)
  <2>1. PICK e \in {"unexpected", "keychange", "noreneg"} : c' = Return(d, e)
    BY <1>4
  <2>2. c' = Return(d, e) /\ (e = "eof" => c.inErr = "eof")
    BY <2>1
  <2> QED
    BY <1>3, <2>2, BytesReturned
<1>5. CASE c' = Fail(d, "ignored")
  BY <1>3, <1>5, BytesReturned
<1> QED
  BY <1>1, <1>2, <1>4, <1>5

LEMMA BytesHandshake == ASSUME DataInv, HandshakeMessage PROVE DataInv'
<1> DEFINE kind == c.hand[1].kind
           changes == p.vers = 13 /\ kind \in KeyChanging
           next == [Taken EXCEPT !.vers = p.vers,
                                 !.step = @ + 1,
                                 !.keys = IF changes THEN @ + 1 ELSE @]
           done == [next EXCEPT !.complete = TRUE, !.handshakes = @ + 1]
           idle == [done EXCEPT !.pc = "idle"]
<1>1. /\ c.pc = "hs" /\ Rests
      /\ c' \in {Return(Taken, "unexpected"), Return(Taken, "keychange"), next, idle, Loop(done)}
  BY DEF HandshakeMessage, Rests
<1>2. /\ IsConn(Taken) /\ Taken.got = c.got /\ Taken.held = c.held /\ Taken.input = c.input
      /\ Taken.inErr = c.inErr /\ Taken.last = c.last /\ Taken.pc = c.pc
  BY TakenIs DEF DataInv
<1> HIDE DEF kind, changes
<1>3. /\ IsConn(next) /\ next.got = c.got /\ next.held = c.held /\ next.input = c.input
      /\ next.inErr = c.inErr /\ next.last = c.last /\ next.pc = c.pc
  BY <1>2 DEF IsConn
<1> HIDE DEF next
<1>4. /\ IsConn(done) /\ done.got = c.got /\ done.held = c.held /\ done.input = c.input
      /\ done.inErr = c.inErr /\ done.last = c.last /\ done.pc = c.pc
  BY <1>3 DEF IsConn
<1> HIDE DEF done
<1>5. /\ IsConn(idle) /\ idle.got = c.got /\ idle.held = c.held /\ idle.input = c.input
      /\ idle.inErr = c.inErr /\ idle.last = c.last /\ idle.pc = "idle"
  BY <1>4 DEF IsConn
<1> HIDE DEF idle
<1>6. CASE c' = next
  BY <1>1, <1>3, <1>6, BytesMessage
<1>7. CASE c' = idle
  BY <1>1, <1>5, <1>7, BytesMessage
<1>8. CASE c' = Loop(done)
  BY <1>1, <1>4, <1>8, BytesMessage
<1>9. CASE c' \in {Return(Taken, "unexpected"), Return(Taken, "keychange")}
  <2>1. \E e \in {"unexpected", "keychange", "noreneg"} : c' = Return(Taken, e)
    BY <1>9
  <2> QED
    BY <1>1, <1>2, <2>1, BytesMessage
<1> QED
  BY <1>1, <1>6, <1>7, <1>8, <1>9

LEMMA BytesPost13 == ASSUME DataInv, PostMessage13 PROVE DataInv'
<1> DEFINE d == [Taken EXCEPT !.retryCount = @ + 1]
           e == [d EXCEPT !.keys = @ + 1]
<1>1. /\ c.pc = "post" /\ Rests
      /\ c' \in {Fail(d, "ignored"), Loop(d), Loop(e), Return(d, "keychange"), Return(d, "unexpected")}
  BY DEF PostMessage13, Rests
<1>2. /\ IsConn(Taken) /\ Taken.got = c.got /\ Taken.held = c.held /\ Taken.input = c.input
      /\ Taken.inErr = c.inErr /\ Taken.last = c.last /\ Taken.pc = c.pc
  BY TakenIs DEF DataInv
<1>3. /\ IsConn(d) /\ d.got = c.got /\ d.held = c.held /\ d.input = c.input
      /\ d.inErr = c.inErr /\ d.last = c.last /\ d.pc = c.pc
  BY <1>2 DEF IsConn
<1> HIDE DEF d
<1>4. /\ IsConn(e) /\ e.got = c.got /\ e.held = c.held /\ e.input = c.input
      /\ e.inErr = c.inErr /\ e.last = c.last /\ e.pc = c.pc
  BY <1>3 DEF IsConn
<1> HIDE DEF e
<1>5. CASE c' = Fail(d, "ignored")
  BY <1>1, <1>3, <1>5, BytesMessage
<1>6. CASE c' = Loop(d)
  BY <1>1, <1>3, <1>6, BytesMessage
<1>7. CASE c' = Loop(e)
  BY <1>1, <1>4, <1>7, BytesMessage
<1>8. CASE c' \in {Return(d, "keychange"), Return(d, "unexpected")}
  <2>1. \E x \in {"unexpected", "keychange", "noreneg"} : c' = Return(d, x)
    BY <1>8
  <2> QED
    BY <1>1, <1>3, <2>1, BytesMessage
<1> QED
  BY <1>1, <1>5, <1>6, <1>7, <1>8

LEMMA BytesPost12 == ASSUME DataInv, PostMessage12 PROVE DataInv'
<1> DEFINE d == [Taken EXCEPT !.complete = FALSE, !.step = 1, !.pc = "hs", !.hellos = @ + 1]
<1>1. /\ c.pc = "post" /\ Rests
      /\ c' \in {Return(Taken, "unexpected"), Return(Taken, "noreneg"), d}
  BY DEF PostMessage12, Rests
<1>2. /\ IsConn(Taken) /\ Taken.got = c.got /\ Taken.held = c.held /\ Taken.input = c.input
      /\ Taken.inErr = c.inErr /\ Taken.last = c.last
  BY TakenIs DEF DataInv
<1>3. /\ IsConn(d) /\ d.got = c.got /\ d.held = c.held /\ d.input = c.input
      /\ d.inErr = c.inErr /\ d.last = c.last /\ d.pc = "hs"
  BY <1>2 DEF IsConn
<1> HIDE DEF d
<1>5. CASE c' = d
  BY <1>1, <1>3, <1>5, BytesMessage
<1>8. CASE c' \in {Return(Taken, "noreneg"), Return(Taken, "unexpected")}
  <2>1. \E x \in {"unexpected", "keychange", "noreneg"} : c' = Return(Taken, x)
    BY <1>8
  <2> QED
    BY <1>1, <1>2, <2>1, BytesMessage
<1> QED
  BY <1>1, <1>5, <1>8

LEMMA BytesStart == ASSUME DataInv, StartRead PROVE DataInv'
<1>1. c.pc = "idle" /\ c' = [c EXCEPT !.pc = "read"] /\ Rests /\ IsConn(c)
  BY DEF StartRead, Rests, DataInv
<1>2. /\ IsConn(c') /\ c'.got = c.got /\ c'.held = c.held /\ c'.input = c.input
      /\ c'.inErr = c.inErr /\ c'.last = c.last /\ c'.pc = "read"
  BY <1>1 DEF IsConn
<1> QED
  BY <1>1, <1>2, BytesStay

LEMMA BytesRead1 == ASSUME DataInv, NEW n, ReadBytes(n) PROVE DataInv'
<1> DEFINE rest == SubSeq(c.input, n + 1, Len(c.input))
           first == SubSeq(c.input, 1, n)
           d == [c EXCEPT !.input = rest, !.held = first]
           e == [d EXCEPT !.pc = "peek"]
<1>1. /\ c.pc = "read" /\ n \in 1..Len(c.input) /\ Rests
      /\ (c' = e /\ rest = <<>>) \/ c' = Return(d, "none")
  BY DEF ReadBytes, Rests, AlertWaits
<1>2. IsConn(c) /\ c.held = <<>> /\ Counted3(c.got, <<>>, c.input) /\ BytesRead = Total(c.got, <<>>, c.input)
      /\ (c.inErr = "eof" => c.input = <<>>)
  BY <1>1 DEF DataInv, BytesRead
<1>3. Counted3(c.got, first, rest) /\ Total(c.got, first, rest) = BytesRead
  BY <1>1, <1>2, TotalSplit
<1>4. c.inErr # "eof"
  <2>1. c.inErr = "eof" => Len(c.input) = 0
    BY <1>2, EmptySeq
  <2> QED
    BY <1>1, <2>1
<1> HIDE DEF rest, first
<1>5. /\ IsConn(d) /\ d.got = c.got /\ d.held = first /\ d.input = rest /\ d.inErr = c.inErr /\ d.last = c.last
  BY <1>2 DEF IsConn
<1> HIDE DEF d
<1>6. /\ IsConn(e) /\ e.got = c.got /\ e.held = first /\ e.input = rest /\ e.inErr = c.inErr /\ e.last = c.last
      /\ e.pc = "peek"
  BY <1>5 DEF IsConn
<1> HIDE DEF e
<1>7. CASE c' = Return(d, "none")
  <2>1. Counted3(d.got, d.held, d.input) /\ Total(d.got, d.held, d.input) = BytesRead
    BY <1>3, <1>5
  <2> QED
    BY <1>1, <1>4, <1>5, <1>7, <2>1, BytesReturned
<1>8. CASE c' = e /\ rest = <<>>
  <2>1. InFlight' = InFlight /\ FlightType' /\ p' = p
    BY <1>1, RestPath DEF DataInv, Rests
  <2>2. Counted3(c'.got, c'.held, c'.input) /\ BytesRead' = BytesRead
    BY <1>3, <1>6, <1>8 DEF BytesRead
  <2> QED
    BY <1>4, <1>6, <1>8, <2>1, <2>2 DEF DataInv
<1> QED
  BY <1>1, <1>7, <1>8
-----------------------------------------------------------------------------
(* What the peer sends. *)

PeerType(q) == /\ IsPeer(q) /\ q.vers \in {12, 13} /\ q.keys \in Nat /\ q.step \in Nat \ {0}
               /\ q.pend \in Seq(Kinds) /\ q.bytes \in Nat

LEMMA NextKindsIs ==
  ASSUME NEW q, PeerType(q), NEW k \in NextKinds(q)
  PROVE  /\ k \in Kinds
         /\ \/ q.step > Len(Script(q.vers)) /\ k \in PostHandshake(q.vers)
            \/ q.step <= Len(Script(q.vers)) /\ k = Script(q.vers)[q.step]
<1>1. q.vers \in {12, 13} /\ q.step \in Nat \ {0}
  BY DEF PeerType
<1>2. Len(Script(13)) = 3 /\ Len(Script(12)) = 4
  BY DEF Script
<1>3. CASE q.step > Len(Script(q.vers))
  <2>1. k \in PostHandshake(q.vers)
    BY <1>3 DEF NextKinds
  <2> QED
    BY <1>1, <1>3, <2>1 DEF PostHandshake, Kinds
<1>4. CASE ~(q.step > Len(Script(q.vers)))
  <2>1. k = Script(q.vers)[q.step] /\ k # "ccs"
    BY <1>4 DEF NextKinds
  <2>2. CASE q.vers = 13
    <3>0. Len(Script(q.vers)) = 3
      BY <1>2, <2>2
    <3>1. q.step \in {1, 2, 3}
      BY <1>1, <1>4, <3>0
    <3> QED
      BY <1>2, <2>1, <2>2, <3>1 DEF Script, Kinds
  <2>3. CASE q.vers = 12
    <3>0. Len(Script(q.vers)) = 4
      BY <1>2, <2>3
    <3>1. q.step \in {1, 2, 3, 4}
      BY <1>1, <1>4, <3>0
    <3> QED
      BY <1>2, <2>1, <2>3, <3>1 DEF Script, Kinds
  <2> QED
    BY <1>1, <2>2, <2>3
<1> QED
  BY <1>3, <1>4

LEMMA QueueTyped ==
  ASSUME NEW q, PeerType(q), NEW k \in NextKinds(q)
  PROVE  PeerType(Queue(q, k))
<1>1. k \in Kinds
  BY NextKindsIs
<1>2. q.vers \in {12, 13} /\ q.keys \in Nat /\ q.step \in Nat \ {0} /\ q.bytes \in Nat /\ IsPeer(q)
  BY DEF PeerType
<1>3. Cat(q.pend, <<k, k>>) \in Seq(Kinds)
  BY <1>1, ConcatProperties DEF PeerType, Cat
<1>4. IsPeer(q)
  BY <1>2
<1>5. PICK t : t = Queue(q, k)
  OBVIOUS
<1>6. /\ IsPeer(t) /\ t.vers = q.vers /\ t.keys = q.keys /\ t.bytes = q.bytes /\ t.pend = Cat(q.pend, <<k, k>>)
      /\ t.step = (IF k = "HelloRequest" THEN 1 ELSE IF k \in PostHandshake(q.vers) THEN q.step ELSE q.step + 1)
  BY <1>4, <1>5, QueueIs, Zenon
<1>7. t.pend \in Seq(Kinds)
  BY <1>3, <1>6
<1>8. t.step \in Nat \ {0}
  BY <1>2, <1>6
<1>9. PeerType(t)
  BY <1>2, <1>6, <1>7, <1>8 DEF PeerType
<1> QED
  BY <1>5, <1>9

(* A handshake record takes the first halves of what is to be sent. *)
LEMMA HandshakeSent ==
  ASSUME NEW q, PeerType(q), NEW back \in 0..1, NEW early, PeerHandshake(q, back, early)
  PROVE  LET n == Len(q.pend) - back IN
         /\ n \in 1..Len(q.pend) /\ Len(q.pend) \in Nat
         /\ SubSeq(q.pend, 1, n) \in Seq(Kinds) /\ Emit("handshake", SubSeq(q.pend, 1, n))
         /\ UNCHANGED <<raw, c>> /\ PeerType(p') /\ p'.pend = SubSeq(q.pend, n + 1, Len(q.pend))
         /\ p'.vers = q.vers /\ p'.step = q.step /\ p'.bytes = q.bytes /\ p'.closed = q.closed
<1> DEFINE n == Len(q.pend) - back
           s == SubSeq(q.pend, n + 1, Len(q.pend))
           post == {i \in 1..n : q.pend[i] \in PostHandshake(p.vers)}
           ends == Cardinality({i \in post : (Len(q.pend) - i) % 2 = 0})
           change == q.due /\ (back = 0 \/ early)
           useless == IF post = {} THEN 0 ELSE q.useless + ends
           legal == q.legal /\ ~early /\ p.useless + ends <= maxUselessRecords
           t == [q EXCEPT !.pend = s,
                          !.keys = IF change THEN @ + 1 ELSE @,
                          !.due = @ /\ ~change,
                          !.useless = useless,
                          !.legal = legal]
<1>1. /\ q.pend \in Seq(Kinds) /\ Len(q.pend) \in Nat /\ IsPeer(q)
      /\ q.vers \in {12, 13} /\ q.keys \in Nat /\ q.step \in Nat \ {0} /\ q.bytes \in Nat
  BY LenProperties DEF PeerType
<1>2. n > 0 /\ Emit("handshake", SubSeq(q.pend, 1, n)) /\ UNCHANGED <<raw, c>>
  BY DEF PeerHandshake
<1>3. p' = Sent(t)
  <2>1. q.useless = q.useless
    OBVIOUS
  <2> QED
    BY <1>1 DEF PeerHandshake, IsPeer
<1>4. n \in 1..Len(q.pend) /\ n \in Int /\ n + 1 \in Int
  BY <1>1, <1>2
<1>5. SubSeq(q.pend, 1, n) \in Seq(Kinds) /\ s \in Seq(Kinds)
  <2>1. \A i \in 1..n : q.pend[i] \in Kinds
    BY <1>1, <1>4, ElementOfSeq
  <2>2. \A i \in n+1..Len(q.pend) : q.pend[i] \in Kinds
    BY <1>1, <1>4, ElementOfSeq
  <2> QED
    BY <1>1, <1>4, <2>1, <2>2, SubSeqProperties
<1> HIDE DEF n, s, useless, legal, change
<1>6. /\ IsPeer(t) /\ t.pend = s /\ t.vers = q.vers /\ t.step = q.step /\ t.bytes = q.bytes /\ t.closed = q.closed
      /\ t.keys \in {q.keys, q.keys + 1}
  BY <1>1 DEF IsPeer
<1> HIDE DEF t
<1>7. /\ IsPeer(p') /\ p'.pend = s /\ p'.vers = q.vers /\ p'.step = q.step /\ p'.bytes = q.bytes
      /\ p'.closed = q.closed /\ p'.keys \in {q.keys, q.keys + 1}
  BY <1>3, <1>6, SentIs
<1>8. PeerType(p')
  <2>1. p'.pend \in Seq(Kinds)
    BY <1>5, <1>7
  <2> QED
    BY <1>1, <1>7, <2>1 DEF PeerType
<1>9. p'.pend = SubSeq(q.pend, n + 1, Len(q.pend))
  BY <1>7 DEF s
<1> QED
  BY <1>1, <1>2, <1>4, <1>5, <1>7, <1>8, <1>9 DEF n

(* The steps of the peer: a handshake record, one of another kind, or none.    *)
Another(typ) ==
    /\ UNCHANGED <<raw, c>> /\ PeerType(p') /\ p'.vers = p.vers /\ p'.pend = p.pend
    /\ p.vers = 13 => p'.step = p.step
    /\ \E data : /\ Emit(typ, data) /\ [typ |-> typ, keys |-> p.keys, data |-> data] \in Recs
                 /\ \/ /\ typ = "data" /\ Counting(data, p.bytes) /\ p'.bytes = p.bytes + Len(data)
                    \/ typ # "data" /\ p'.bytes = p.bytes
                 /\ (typ = "alert" /\ data = "close") \/ p.closed => p'.closed

LEMMA DataSent == ASSUME PeerType(p), NEW n \in 0..2, PeerData(n) PROVE Another("data")
<1> DEFINE data == [i \in 1..n |-> p.bytes + i]
           ok == ~InScript /\ ~Partial /\ ~p.asked
           q == [p EXCEPT !.bytes = @ + n, !.useless = 0, !.legal = @ /\ ok]
<1>1. /\ IsPeer(p) /\ p.vers \in {12, 13} /\ p.keys \in Nat /\ p.step \in Nat \ {0} /\ p.bytes \in Nat
      /\ p.pend \in Seq(Kinds)
  BY DEF PeerType
<1>2. Emit("data", data) /\ UNCHANGED <<raw, c>> /\ p' = Sent(IF n = 0 THEN Useless(p, ok) ELSE q)
  BY DEF PeerData
<1>3. data \in Seq(Nat) /\ Len(data) = n /\ \A i \in 1..n : data[i] = p.bytes + i
  BY <1>1
<1>4. Counting(data, p.bytes)
  BY <1>3 DEF Counting
<1> HIDE DEF data, ok
<1>5. [typ |-> "data", keys |-> p.keys, data |-> data] \in Recs
  BY <1>1, <1>3 DEF Recs, RecType, Rec
<1>6. /\ IsPeer(q) /\ q.vers = p.vers /\ q.keys = p.keys /\ q.step = p.step /\ q.pend = p.pend
      /\ q.bytes = p.bytes + n /\ q.closed = p.closed
  BY <1>1 DEF IsPeer
<1> HIDE DEF q
<1>7. /\ IsPeer(p') /\ p'.vers = p.vers /\ p'.keys = p.keys /\ p'.step = p.step /\ p'.pend = p.pend
      /\ p'.bytes = p.bytes + n /\ p'.closed = p.closed
  <2>1. CASE n = 0
    <3>1. p' = Sent(Useless(p, ok)) /\ p.bytes = p.bytes + n
      BY <1>1, <1>2, <2>1
    <3> QED
      BY <1>1, <3>1, UselessIs, SentIs
  <2>2. CASE n # 0
    <3>1. p' = Sent(q)
      BY <1>2, <2>2
    <3> QED
      BY <1>6, <3>1, SentIs
  <2> QED
    BY <2>1, <2>2
<1>8. PeerType(p')
  BY <1>1, <1>7 DEF PeerType
<1>9. p'.bytes = p.bytes + Len(data)
  BY <1>3, <1>7
<1> QED
  BY <1>2, <1>4, <1>5, <1>7, <1>8, <1>9 DEF Another

LEMMA AlertSent ==
  ASSUME PeerType(p), NEW what \in {"warning", "close", "fatal"}, PeerAlert(what) PROVE Another("alert")
<1> DEFINE ok == p.vers = 13 => ~Partial
           q == [p EXCEPT !.closed = TRUE, !.legal = @ /\ ok]
<1>1. /\ IsPeer(p) /\ p.vers \in {12, 13} /\ p.keys \in Nat /\ p.step \in Nat \ {0} /\ p.bytes \in Nat
      /\ p.pend \in Seq(Kinds)
  BY DEF PeerType
<1>2. Emit("alert", what) /\ UNCHANGED <<raw, c>> /\ p' = Sent(IF what = "warning" THEN Useless(p, ok) ELSE q)
  BY DEF PeerAlert
<1>5. [typ |-> "alert", keys |-> p.keys, data |-> what] \in Recs
  BY <1>1 DEF Recs, RecType, Rec
<1> HIDE DEF ok
<1>6. /\ IsPeer(q) /\ q.vers = p.vers /\ q.keys = p.keys /\ q.step = p.step /\ q.pend = p.pend
      /\ q.bytes = p.bytes /\ q.closed = TRUE
  BY <1>1 DEF IsPeer
<1> HIDE DEF q
<1>7. /\ IsPeer(p') /\ p'.vers = p.vers /\ p'.keys = p.keys /\ p'.step = p.step /\ p'.pend = p.pend
      /\ p'.bytes = p.bytes /\ p'.closed = IF what = "warning" THEN p.closed ELSE TRUE
  <2>1. CASE what = "warning"
    <3>1. p' = Sent(Useless(p, ok))
      BY <1>2, <2>1
    <3> QED
      BY <1>1, <2>1, <3>1, UselessIs, SentIs
  <2>2. CASE what # "warning"
    <3>1. p' = Sent(q)
      BY <1>2, <2>2
    <3> QED
      BY <1>6, <2>2, <3>1, SentIs
  <2> QED
    BY <2>1, <2>2
<1>8. PeerType(p')
  BY <1>1, <1>7 DEF PeerType
<1>9. what = "close" \/ p.closed => p'.closed
  BY <1>7
<1> QED
  BY <1>2, <1>5, <1>7, <1>8, <1>9 DEF Another

LEMMA CCSSent == ASSUME PeerType(p), PeerCCS PROVE Another("ccs")
<1> DEFINE ok == p.step \in 2..3 /\ ~Partial
           legal == p.legal /\ p.step = 3 /\ ~Partial
           q == [p EXCEPT !.keys = @ + 1,
                          !.step = IF p.step = 3 THEN 4 ELSE @,
                          !.legal = legal]
<1>1. /\ IsPeer(p) /\ p.vers \in {12, 13} /\ p.keys \in Nat /\ p.step \in Nat \ {0} /\ p.bytes \in Nat
      /\ p.pend \in Seq(Kinds)
  BY DEF PeerType
<1>2. Emit("ccs", 1) /\ UNCHANGED <<raw, c>> /\ p' = Sent(IF p.vers = 13 THEN Useless(p, ok) ELSE q)
  BY DEF PeerCCS
<1>5. [typ |-> "ccs", keys |-> p.keys, data |-> 1] \in Recs
  BY <1>1 DEF Recs, RecType, Rec
<1> HIDE DEF ok, legal
<1>6. /\ IsPeer(q) /\ q.vers = p.vers /\ q.keys = p.keys + 1 /\ q.step \in {4, p.step} /\ q.pend = p.pend
      /\ q.bytes = p.bytes /\ q.closed = p.closed
  BY <1>1 DEF IsPeer
<1> HIDE DEF q
<1>7. /\ IsPeer(p') /\ p'.vers = p.vers /\ p'.keys \in Nat /\ p'.step \in Nat \ {0} /\ p'.pend = p.pend
      /\ p'.bytes = p.bytes /\ p'.closed = p.closed /\ (p.vers = 13 => p'.step = p.step)
  <2>1. CASE p.vers = 13
    <3>1. p' = Sent(Useless(p, ok))
      BY <1>2, <2>1
    <3> QED
      BY <1>1, <2>1, <3>1, UselessIs, SentIs
  <2>2. CASE p.vers # 13
    <3>1. p' = Sent(q)
      BY <1>2, <2>2
    <3> QED
      BY <1>1, <1>6, <2>2, <3>1, SentIs
  <2> QED
    BY <2>1, <2>2
<1>8. PeerType(p')
  BY <1>1, <1>7 DEF PeerType
<1> QED
  BY <1>2, <1>5, <1>7, <1>8 DEF Another

(* What is to be sent once up to two messages have joined it. *)
Queued(q) ==
    \/ q = p
    \/ \E k1 \in NextKinds(p) : \/ q = Queue(p, k1)
                                \/ \E k2 \in NextKinds(Queue(p, k1)) : q = Queue(Queue(p, k1), k2)

LEMMA QueuedIs ==
  ASSUME PeerType(p), NEW q, Queued(q)
  PROVE  PeerType(q) /\ q.vers = p.vers /\ q.bytes = p.bytes /\ q.closed = p.closed /\ q.keys = p.keys
<1>0. ASSUME NEW q1, PeerType(q1), NEW k \in NextKinds(q1)
      PROVE  /\ PeerType(Queue(q1, k)) /\ Queue(q1, k).vers = q1.vers /\ Queue(q1, k).bytes = q1.bytes
             /\ Queue(q1, k).closed = q1.closed /\ Queue(q1, k).keys = q1.keys
  <2>1. IsPeer(q1)
    BY <1>0 DEF PeerType
  <2>2. PeerType(Queue(q1, k))
    BY <1>0, QueueTyped
  <2> QED
    BY <2>1, <2>2, QueueIs, Zenon
<1>1. CASE q = p
  BY <1>1
<1>2. ASSUME NEW k1 \in NextKinds(p), q = Queue(p, k1)
      PROVE  PeerType(q) /\ q.vers = p.vers /\ q.bytes = p.bytes /\ q.closed = p.closed /\ q.keys = p.keys
  BY <1>0, <1>2
<1>3. ASSUME NEW k1 \in NextKinds(p), NEW k2 \in NextKinds(Queue(p, k1)), q = Queue(Queue(p, k1), k2)
      PROVE  PeerType(q) /\ q.vers = p.vers /\ q.bytes = p.bytes /\ q.closed = p.closed /\ q.keys = p.keys
  BY <1>0, <1>3
<1> QED
  BY <1>1, <1>2, <1>3 DEF Queued

LEMMA PeerSteps ==
  ASSUME PeerType(p), Peer
  PROVE  \/ \E q : Queued(q) /\ \E back \in 0..1, early \in BOOLEAN : PeerHandshake(q, back, early)
         \/ \E typ \in {"data", "alert", "ccs"} : Another(typ)
         \/ PeerCut
<1>1. CASE \E back \in 0..1, early \in BOOLEAN :
              \/ PeerHandshake(p, back, early)
              \/ \E k1 \in NextKinds(p) :
                   LET q == Queue(p, k1)
                   IN  \/ PeerHandshake(q, back, early)
                       \/ \E k2 \in NextKinds(q) : PeerHandshake(Queue(q, k2), back, early)
  BY <1>1 DEF Queued
<1>2. CASE \E n \in 0..2 : PeerData(n)
  BY <1>2, DataSent
<1>3. CASE \E what \in {"warning", "close", "fatal"} : PeerAlert(what)
  BY <1>3, AlertSent
<1>4. CASE PeerCCS
  BY <1>4, CCSSent
<1>5. CASE PeerCut
  BY <1>5
<1> QED
  BY <1>1, <1>2, <1>3, <1>4, <1>5 DEF Peer

LEMMA CutIs ==
  ASSUME PeerType(p), PeerCut
  PROVE  /\ UNCHANGED <<wire, raw, c>> /\ PeerType(p') /\ p'.vers = p.vers /\ p'.pend = p.pend /\ p'.step = p.step
         /\ p'.bytes = p.bytes /\ p'.closed
<1>1. p' = [p EXCEPT !.closed = TRUE] /\ UNCHANGED <<wire, raw, c>> /\ IsPeer(p)
  BY DEF PeerCut, PeerType
<1>2. /\ IsPeer(p') /\ p'.vers = p.vers /\ p'.keys = p.keys /\ p'.step = p.step /\ p'.pend = p.pend /\ p'.bytes = p.bytes
      /\ p'.closed = TRUE
  BY <1>1 DEF IsPeer
<1> QED
  BY <1>1, <1>2 DEF PeerType

(* The peer's records carry its bytes in order. *)
LEMMA BytesEmit ==
  ASSUME DataInv, NEW typ, NEW data, Emit(typ, data), UNCHANGED <<raw, c>>, IsPeer(p'),
         [typ |-> typ, keys |-> p.keys, data |-> data] \in Recs,
         typ = "data" => Counting(data, p.bytes),
         p'.bytes = p.bytes + Size([typ |-> typ, keys |-> p.keys, data |-> data]), p'.bytes \in Nat,
         (typ = "alert" /\ data = "close") \/ p.closed => p'.closed
  PROVE  DataInv'
<1> DEFINE r == [typ |-> typ, keys |-> p.keys, data |-> data]
<1>0. r \in Recs /\ r.typ = typ /\ r.data = data
  OBVIOUS
<1>1. FlightType /\ p.bytes \in Nat
  BY DEF DataInv
<1>2. FlightType' /\ ~p.closed /\ c.inErr = "none"
  BY <1>1, EmitIs
<1>3. PICK x \in {0, 1} : (x = 1 => p.closed) /\ Path(InFlight, <<BytesRead, 0>>, <<p.bytes, x>>, ByteSteps)
  BY <1>2 DEF DataInv
<1>4. x = 0
  BY <1>2, <1>3
<1>5. <<<<p.bytes, x>>, r, <<p.bytes + Size(r), Ends(r)>>>> \in ByteSteps
  BY <1>0, <1>1, <1>4, ByteStep
<1>6. Path(InFlight', <<BytesRead, 0>>, <<p.bytes + Size(r), Ends(r)>>, ByteSteps)
  BY <1>1, <1>3, <1>5, EmitPath
<1>7. Ends(r) \in {0, 1} /\ (Ends(r) = 1 => p'.closed)
  BY <1>0 DEF Ends
<1>8. BytesRead' = BytesRead /\ c' = c /\ p'.bytes = p.bytes + Size(r)
  BY DEF BytesRead
<1> HIDE DEF r
<1>9. \E y \in {0, 1} : (y = 1 => p'.closed) /\ Path(InFlight', <<BytesRead', 0>>, <<p'.bytes, y>>, ByteSteps)
  BY <1>6, <1>7, <1>8
<1> QED
  BY <1>2, <1>8, <1>9 DEF DataInv

LEMMA BytesPeer == ASSUME DataInv, PeerType(p), Peer PROVE DataInv' /\ PeerType(p')
<1>0. FlightType /\ p.bytes \in Nat /\ p.keys \in Nat
  BY DEF DataInv, PeerType
<1>1. ASSUME NEW q, Queued(q), NEW back \in 0..1, NEW early \in BOOLEAN, PeerHandshake(q, back, early)
      PROVE  DataInv' /\ PeerType(p')
  <2> DEFINE data == SubSeq(q.pend, 1, Len(q.pend) - back)
             r == [typ |-> "handshake", keys |-> p.keys, data |-> data]
  <2>1. PeerType(q) /\ q.bytes = p.bytes /\ q.closed = p.closed
    BY <1>1, QueuedIs
  <2>2. /\ data \in Seq(Kinds) /\ Emit("handshake", data) /\ UNCHANGED <<raw, c>>
        /\ PeerType(p') /\ p'.bytes = p.bytes /\ p'.closed = p.closed
    BY <1>1, <2>1, HandshakeSent
  <2> HIDE DEF data
  <2>3. r \in Recs
    BY <1>0, <2>2 DEF Recs, RecType, Rec
  <2>4. Size(r) = 0
    BY DEF Size
  <2>5. IsPeer(p') /\ p'.bytes \in Nat /\ p'.bytes = p.bytes + Size(r)
    BY <1>0, <2>2, <2>4 DEF PeerType
  <2>6. DataInv'
    BY <2>2, <2>3, <2>5, BytesEmit
  <2> QED
    BY <2>2, <2>6
<1>2. ASSUME NEW typ \in {"data", "alert", "ccs"}, Another(typ)
      PROVE  DataInv' /\ PeerType(p')
  <2>1. PICK data : /\ Emit(typ, data) /\ [typ |-> typ, keys |-> p.keys, data |-> data] \in Recs
                    /\ \/ typ = "data" /\ Counting(data, p.bytes) /\ p'.bytes = p.bytes + Len(data)
                       \/ typ # "data" /\ p'.bytes = p.bytes
                    /\ (typ = "alert" /\ data = "close") \/ p.closed => p'.closed
    BY <1>2 DEF Another
  <2>2. UNCHANGED <<raw, c>> /\ PeerType(p') /\ IsPeer(p') /\ p'.bytes \in Nat
    BY <1>2 DEF Another, PeerType
  <2> DEFINE r == [typ |-> typ, keys |-> p.keys, data |-> data]
  <2>3. p'.bytes = p.bytes + Size(r)
    <3>1. r.typ = typ /\ r.data = data
      OBVIOUS
    <3> HIDE DEF r
    <3> QED
      BY <1>0, <2>1, <3>1 DEF Size
  <2>4. DataInv'
    BY <2>1, <2>2, <2>3, BytesEmit
  <2> QED
    BY <2>2, <2>4
<1>3. ASSUME PeerCut PROVE DataInv' /\ PeerType(p')
  <2>1. UNCHANGED <<wire, raw, c>> /\ PeerType(p') /\ IsPeer(p') /\ p'.bytes = p.bytes /\ p'.closed
    BY <1>3, CutIs DEF PeerType
  <2>2. FlightType' /\ InFlight' = InFlight /\ BytesRead' = BytesRead
    BY <1>0, <2>1 DEF FlightType, InFlight, BytesRead
  <2> QED
    BY <2>1, <2>2 DEF DataInv
<1> QED
  BY <1>1, <1>2, <1>3, PeerSteps

LEMMA DataStep == ASSUME DataInv, PeerType(p), [Next]_vars PROVE DataInv' /\ PeerType(p')
<1>1. CASE Peer
  BY <1>1, BytesPeer
<1>2. CASE Reader \/ ReadTimeout
  <2>1. p' = p
    BY <1>2 DEF Reader, ReadTimeout, RefuseRecord, DropRecord, TakeRecord, ReadRefused, ReadEOF,
       HandshakeMessage, PostMessage13, PostMessage12, StartRead, ReadBytes
  <2>2. DataInv'
    BY <1>2, BytesRefuse, BytesDrop, BytesTake, BytesRefused, BytesEOF, BytesTimeout, BytesHandshake,
       BytesPost13, BytesPost12, BytesStart, BytesRead1 DEF Reader
  <2> QED
    BY <2>1, <2>2
<1>3. CASE UNCHANGED vars
  <2>1. UNCHANGED <<p, wire, raw, c>>
    BY <1>3 DEF vars
  <2>2. FlightType' = FlightType /\ InFlight' = InFlight /\ BytesRead' = BytesRead
    BY <2>1 DEF FlightType, InFlight, BytesRead
  <2> QED
    BY <2>1, <2>2 DEF DataInv
<1> QED
  BY <1>1, <1>2, <1>3 DEF Next

LEMMA DataInit == ASSUME Init PROVE DataInv /\ PeerType(p)
<1>1. wire = <<>> /\ raw = <<>>
  BY DEF Init
<1>2. PICK v \in Versions, policy \in Policies :
         /\ p = [vers |-> v, keys |-> 0, step |-> 1, pend |-> <<>>, due |-> FALSE,
                 rounds |-> 0, asked |-> FALSE, post |-> 0, useless |-> 0, bytes |-> 0,
                 records |-> 0, errors |-> 0, closed |-> FALSE, legal |-> TRUE]
         /\ c = [policy |-> policy, vers |-> 0, pc |-> "hs", step |-> 1, keys |-> 0,
                 hand |-> <<>>, input |-> <<>>, retryCount |-> 0, complete |-> FALSE,
                 handshakes |-> 0, hellos |-> 1, inErr |-> "none", dead |-> FALSE,
                 held |-> <<>>, got |-> <<>>, last |-> "none",
                 taken |-> [kind |-> "none", at |-> 0, keys |-> {0}]]
  BY DEF Init
<1>3. /\ IsConn(c) /\ c.got = <<>> /\ c.held = <<>> /\ c.input = <<>> /\ c.pc = "hs" /\ c.inErr = "none" /\ c.last = "none"
  BY <1>2 DEF IsConn
<1>4. IsPeer(p) /\ p.vers \in {12, 13} /\ p.keys = 0 /\ p.step = 1 /\ p.pend = <<>> /\ p.bytes = 0
  BY <1>2, RecordsAssumption DEF IsPeer
<1>5. PeerType(p)
  BY <1>4, EmptySeq DEF PeerType
<1>6. FlightType /\ InFlight = <<>>
  BY <1>1, EmptySeq, ConcatEmptySeq DEF FlightType, InFlight
<1>7. Counted3(<<>>, <<>>, <<>>) /\ Total(<<>>, <<>>, <<>>) = 0
  BY CountingEmpty DEF Counted3, Total
<1>8. BytesRead = 0 /\ Counted3(c.got, c.held, c.input)
  BY <1>3, <1>7 DEF BytesRead
<1>9. Path(InFlight, <<BytesRead, 0>>, <<p.bytes, 0>>, ByteSteps)
  BY <1>4, <1>6, <1>8, PathEmpty
<1> QED
  BY <1>3, <1>4, <1>5, <1>6, <1>8, <1>9 DEF DataInv

LEMMA DataHolds == ASSUME DataInv PROVE DataFaithful
<1>1. Counting(c.got, 0) /\ Len(c.got) \in Nat /\ DOMAIN c.got = 1..Len(c.got)
  BY CountingLen, LenProperties DEF DataInv, Counted3, Counting
<1>2. \A i \in DOMAIN c.got : c.got[i] = i
  BY <1>1 DEF Counting
<1>3. ASSUME c.last = "eof" PROVE Len(c.got) = p.bytes
  <2>1. BytesRead = p.bytes /\ c.held = <<>> /\ c.input = <<>>
    BY <1>3 DEF DataInv
  <2>2. Total(c.got, <<>>, <<>>) = Len(c.got)
    BY <1>1, CountingEmpty DEF Total
  <2> QED
    BY <2>1, <2>2 DEF BytesRead
<1> QED
  BY <1>2, <1>3 DEF DataFaithful
-----------------------------------------------------------------------------
(* The order of the handshake messages of TLS 1.3, in halves: the kinds that   *)
(* the half with number i may be of.                                           *)

KindsAt(i) == IF i <= 2 THEN {"ServerHello"}
              ELSE IF i <= 4 THEN {"EncryptedExtensions"}
              ELSE IF i <= 6 THEN {"Finished"} ELSE PostHandshake(13)

Follows(s, b) == \A i \in 1..Len(s) : s[i] \in KindsAt(b + i)

Count(r) == IF r.typ = "handshake" THEN Len(r.data) ELSE 0

HalfSteps == {t \in Nat \X Recs \X Nat :
                 /\ t[3] = t[1] + Count(t[2])
                 /\ t[2].typ = "handshake" => Follows(t[2].data, t[1])}

LEMMA CountIs == ASSUME NEW r \in Recs PROVE Count(r) \in Nat
<1>1. r.typ = "handshake" => r.data \in Seq(Kinds)
  BY DEF Recs, Rec
<1> QED
  BY <1>1, LenProperties DEF Count

LEMMA HalfStep ==
  ASSUME NEW m \in Nat, NEW r \in Recs, r.typ = "handshake" => Follows(r.data, m)
  PROVE  <<m, r, m + Count(r)>> \in HalfSteps
<1>1. m + Count(r) \in Nat
  BY CountIs
<1> DEFINE n == m + Count(r)
<1>2. n = m + Count(r)
  OBVIOUS
<1> HIDE DEF n
<1>3. <<m, r, n>> \in Nat \X Recs \X Nat
  BY <1>1, <1>2
<1>4. <<m, r, n>> \in HalfSteps
  BY <1>2, <1>3 DEF HalfSteps
<1> QED
  BY <1>2, <1>4

LEMMA HalfStepIs ==
  ASSUME NEW a, NEW r, NEW b, <<a, r, b>> \in HalfSteps
  PROVE  /\ a \in Nat /\ r \in Recs /\ b = a + Count(r)
         /\ r.typ = "handshake" => Follows(r.data, a)
  BY DEF HalfSteps

(* What c.hand holds. *)
HalfType == [kind : Kinds, keys : Nat]
Held(h, b) == \A i \in 1..Len(h) : h[i].kind \in KindsAt(b + i)
SameKeys(h, k) == \A i \in 1..Len(h) : h[i].keys = k

LEMMA HeldEmpty == <<>> \in Seq(HalfType) /\ \A b : Held(<<>>, b) /\ SameKeys(<<>>, b)
  BY EmptySeq DEF Held, SameKeys

LEMMA HalvesIs ==
  ASSUME NEW r \in Recs, r.typ = "handshake"
  PROVE  /\ Halves(r) \in Seq(HalfType) /\ Len(Halves(r)) = Len(r.data)
         /\ \A i \in 1..Len(r.data) : Halves(r)[i].kind = r.data[i] /\ Halves(r)[i].keys = r.keys
         /\ Len(r.data) \in Nat
<1>1. r.data \in Seq(Kinds) /\ r.keys \in Nat
  BY DEF Recs, Rec
<1>2. Len(r.data) \in Nat /\ \A i \in 1..Len(r.data) : r.data[i] \in Kinds
  BY <1>1, LenProperties, ElementOfSeq
<1> QED
  BY <1>1, <1>2 DEF Halves, HalfType

(* Concatenation, by places.                                                   *)
Joins(u, s, t) == /\ Len(u) = Len(s) + Len(t)
                  /\ \A i \in 1..Len(s) : u[i] = s[i]
                  /\ \A j \in 1..Len(t) : u[Len(s) + j] = t[j]

LEMMA CatIs ==
  ASSUME NEW S, NEW s \in Seq(S), NEW t \in Seq(S)
  PROVE  Cat(s, t) \in Seq(S) /\ Joins(Cat(s, t), s, t)
<1>1. Len(s) \in Nat /\ Len(t) \in Nat
  BY LenProperties
<1>2. PICK u : u = s \o t
  OBVIOUS
<1>3. /\ u \in Seq(S) /\ Len(u) = Len(s) + Len(t)
      /\ \A i \in 1..Len(s) + Len(t) : u[i] = IF i <= Len(s) THEN s[i] ELSE t[i - Len(s)]
  BY <1>2, ConcatProperties
<1>4. \A i \in 1..Len(s) : u[i] = s[i]
  BY <1>1, <1>3
<1>5. ASSUME NEW j \in 1..Len(t) PROVE u[Len(s) + j] = t[j]
  <2>1. Len(s) + j \in 1..Len(s) + Len(t) /\ ~(Len(s) + j <= Len(s)) /\ (Len(s) + j) - Len(s) = j
    BY <1>1
  <2> QED
    BY <1>3, <2>1
<1>6. Joins(u, s, t)
  BY <1>3, <1>4, <1>5 DEF Joins
<1> QED
  BY <1>2, <1>3, <1>6 DEF Cat

LEMMA HeldCat ==
  ASSUME NEW h \in Seq(HalfType), NEW r \in Recs, r.typ = "handshake"
  PROVE  /\ Cat(h, Halves(r)) \in Seq(HalfType) /\ Len(Cat(h, Halves(r))) = Len(h) + Count(r)
         /\ SameKeys(h, r.keys) => SameKeys(Cat(h, Halves(r)), r.keys)
         /\ \A b \in Nat : Held(h, b) /\ Follows(r.data, b + Len(h)) => Held(Cat(h, Halves(r)), b)
<1> DEFINE g == Halves(r)
           t == Cat(h, g)
           m == Len(h)
           n == Len(r.data)
<1>1. /\ g \in Seq(HalfType) /\ Len(g) = n /\ n \in Nat /\ m \in Nat /\ Count(r) = n
      /\ \A i \in 1..n : g[i].kind = r.data[i] /\ g[i].keys = r.keys
  BY HalvesIs, LenProperties DEF Count
<1> HIDE DEF g
<1>6. h \in Seq(HalfType) /\ g \in Seq(HalfType)
  BY <1>1
<1>2. Cat(h, g) \in Seq(HalfType) /\ Joins(Cat(h, g), h, g)
  BY <1>6, CatIs, Zenon
<1>8. t \in Seq(HalfType) /\ Joins(t, h, g)
  BY <1>2
<1> HIDE DEF t
<1>7. t \in Seq(HalfType) /\ Len(t) = m + n /\ (\A i \in 1..m : t[i] = h[i]) /\ \A j \in 1..n : t[m + j] = g[j]
  BY <1>1, <1>8 DEF Joins
<1>3. ASSUME NEW i \in 1..m + n
      PROVE  \/ i \in 1..m /\ t[i] = h[i]
             \/ \E j \in 1..n : i = m + j /\ t[i] = g[j]
  <2>1. CASE i <= m
    BY <1>1, <1>7, <2>1
  <2>2. CASE ~(i <= m)
    <3>1. i - m \in 1..n /\ i = m + (i - m)
      BY <1>1, <2>2
    <3> QED
      BY <1>7, <3>1
  <2> QED
    BY <2>1, <2>2
<1>4. ASSUME SameKeys(h, r.keys) PROVE SameKeys(t, r.keys)
  <2>1. ASSUME NEW i \in 1..m + n PROVE t[i].keys = r.keys
    <3>1. CASE i \in 1..m /\ t[i] = h[i]
      BY <1>4, <3>1 DEF SameKeys
    <3>2. ASSUME NEW j \in 1..n, i = m + j, t[i] = g[j] PROVE t[i].keys = r.keys
      BY <1>1, <3>2
    <3> QED
      BY <1>3, <3>1, <3>2
  <2> QED
    BY <1>7, <2>1 DEF SameKeys
<1>5. ASSUME NEW b \in Nat, Held(h, b), Follows(r.data, b + m) PROVE Held(t, b)
  <2>1. ASSUME NEW i \in 1..m + n PROVE t[i].kind \in KindsAt(b + i)
    <3>1. CASE i \in 1..m /\ t[i] = h[i]
      BY <1>5, <3>1 DEF Held
    <3>2. ASSUME NEW j \in 1..n, i = m + j, t[i] = g[j] PROVE t[i].kind \in KindsAt(b + i)
      <4>1. r.data[j] \in KindsAt((b + m) + j)
        BY <1>5 DEF Follows
      <4>2. (b + m) + j = b + i
        BY <1>1, <3>2
      <4> QED
        BY <1>1, <3>2, <4>1, <4>2
    <3> QED
      BY <1>3, <3>1, <3>2
  <2> QED
    BY <1>7, <2>1 DEF Held
<1> QED
  BY <1>1, <1>7, <1>4, <1>5 DEF t, g

LEMMA HeldSub ==
  ASSUME NEW h \in Seq(HalfType), Len(h) >= 2
  PROVE  /\ SubSeq(h, 3, Len(h)) \in Seq(HalfType) /\ Len(SubSeq(h, 3, Len(h))) = Len(h) - 2
         /\ h[1] \in HalfType /\ h[2] \in HalfType
         /\ \A k : SameKeys(h, k) =>
              SameKeys(SubSeq(h, 3, Len(h)), k) /\ {h[1].keys, h[2].keys} = {k}
         /\ \A b \in Nat : Held(h, b) =>
              Held(SubSeq(h, 3, Len(h)), b + 2) /\ h[1].kind \in KindsAt(b + 1)
<1> DEFINE n == Len(h)
           t == SubSeq(h, 3, n)
<1>1. n \in Nat /\ n >= 2 /\ 1 \in 1..n /\ 2 \in 1..n
  BY LenProperties
<1>2. t \in Seq(HalfType) /\ Len(t) = n - 2 /\ \A i \in 1..n - 2 : t[i] = h[i + 2]
  <2>1. \A i \in 3..n : h[i] \in HalfType
    BY <1>1, ElementOfSeq
  <2>2. t \in Seq(HalfType)
    BY <1>1, <2>1, SubSeqProperties
  <2>3. Len(t) = IF 3 <= n THEN n - 3 + 1 ELSE 0
    BY <1>1, <2>1, SubSeqProperties
  <2>4. ASSUME NEW i \in 1..n - 2 PROVE t[i] = h[i + 2]
    <3>1. t[i] = h[3 + i - 1]
      BY <1>1, <2>1, SubSeqProperties
    <3> QED
      BY <3>1
  <2>5. Len(t) = n - 2
    <3>1. CASE 3 <= n
      BY <1>1, <2>3, <3>1
    <3>2. CASE n = 2
      BY <1>1, <2>3, <3>2
    <3> HIDE DEF t, n
    <3>3. 3 <= n \/ n = 2
      BY <1>1
    <3> QED
      BY <3>1, <3>2, <3>3
  <2> QED
    BY <2>2, <2>4, <2>5
<1>3. h[1] \in HalfType /\ h[2] \in HalfType
  BY <1>1, ElementOfSeq
<1> HIDE DEF t
<1>4. ASSUME NEW k, SameKeys(h, k) PROVE SameKeys(t, k) /\ h[1].keys = k /\ h[2].keys = k
  BY <1>1, <1>2, <1>4 DEF SameKeys
<1>5. ASSUME NEW b \in Nat, Held(h, b) PROVE Held(t, b + 2) /\ h[1].kind \in KindsAt(b + 1)
  <2>1. ASSUME NEW i \in 1..n - 2 PROVE t[i].kind \in KindsAt((b + 2) + i)
    <3>1. h[i + 2].kind \in KindsAt(b + (i + 2))
      BY <1>1, <1>5 DEF Held
    <3>2. b + (i + 2) = (b + 2) + i
      OBVIOUS
    <3> QED
      BY <1>2, <3>1, <3>2
  <2>2. h[1].kind \in KindsAt(b + 1)
    BY <1>1, <1>5 DEF Held
  <2> QED
    BY <1>2, <2>1, <2>2 DEF Held
<1> QED
  BY <1>2, <1>3, <1>4, <1>5 DEF t

(* Where the peer's own messages stand, m halves being sent. *)
Places(q, m) ==
    /\ Follows(q.pend, m)
    /\ q.step <= 3 => m + Len(q.pend) = 2 * (q.step - 1)
    /\ q.step > 3 => m + Len(q.pend) >= 6

LEMMA QueuePlaces ==
  ASSUME NEW q, PeerType(q), q.vers = 13, NEW k \in NextKinds(q), NEW m \in Nat, Places(q, m)
  PROVE  Places(Queue(q, k), m)
<1> DEFINE n == Len(q.pend)
<1>1. q.pend \in Seq(Kinds) /\ n \in Nat /\ IsPeer(q) /\ q.step \in Nat \ {0}
  BY LenProperties DEF PeerType
<1>2. Len(Script(13)) = 3 /\ Script(13)[1] = "ServerHello" /\ Script(13)[2] = "EncryptedExtensions"
      /\ Script(13)[3] = "Finished"
  BY DEF Script
<1>3. /\ k \in Kinds
      /\ \/ q.step > 3 /\ k \in PostHandshake(13)
         \/ q.step <= 3 /\ k = Script(13)[q.step]
  BY <1>2, NextKindsIs
<1>4. PICK t : t = Queue(q, k)
  OBVIOUS
<1>5. /\ t.pend = Cat(q.pend, <<k, k>>)
      /\ t.step = (IF k = "HelloRequest" THEN 1 ELSE IF k \in PostHandshake(q.vers) THEN q.step ELSE q.step + 1)
  BY <1>1, <1>4, QueueIs, Zenon
<1>6. /\ Len(t.pend) = n + 2 /\ t.pend[n + 1] = k /\ t.pend[n + 2] = k
      /\ \A i \in 1..n : t.pend[i] = q.pend[i]
  <2>1. <<k, k>> \in Seq(Kinds) /\ Len(<<k, k>>) = 2
    BY <1>3
  <2>2. <<k, k>>[1] = k /\ <<k, k>>[2] = k /\ 1 \in 1..2 /\ 2 \in 1..2
    OBVIOUS
  <2>3. PICK z : z = <<k, k>>
    OBVIOUS
  <2>7. z \in Seq(Kinds) /\ q.pend \in Seq(Kinds)
    BY <1>1, <2>1, <2>3
  <2>4. Joins(Cat(q.pend, z), q.pend, z)
    BY <2>7, CatIs, Zenon
  <2>6. Len(z) = 2 /\ z[1] = k /\ z[2] = k /\ t.pend = Cat(q.pend, z) /\ 1 \in 1..2 /\ 2 \in 1..2
    BY <1>5, <2>1, <2>2, <2>3
  <2> QED
    BY <2>4, <2>6 DEF Joins
<1>7. k \in KindsAt(m + (n + 1)) /\ k \in KindsAt(m + (n + 2))
  <2>1. CASE q.step > 3
    <3>1. m + n >= 6 /\ k \in PostHandshake(13)
      BY <1>1, <1>3, <2>1 DEF Places
    <3> QED
      BY <1>1, <3>1 DEF KindsAt
  <2>2. CASE q.step <= 3
    <3>0. q.step \in {1, 2, 3} /\ ~ (q.step > 3)
      BY <1>1, <2>2
    <3>5. m + n = 2 * (q.step - 1)
      BY <2>2 DEF Places
    <3>6. k = Script(13)[q.step]
      BY <1>3, <3>0
    <3>1. m + n = 2 * (q.step - 1) /\ k = Script(13)[q.step] /\ q.step \in {1, 2, 3}
      BY <3>0, <3>5, <3>6
    <3>2. CASE q.step = 1
      <4>1. m + (n + 1) = 1 /\ m + (n + 2) = 2 /\ k = "ServerHello"
        BY <1>1, <1>2, <3>1, <3>2
      <4> QED
        BY <4>1 DEF KindsAt
    <3>3. CASE q.step = 2
      <4>1. m + (n + 1) = 3 /\ m + (n + 2) = 4 /\ k = "EncryptedExtensions"
        BY <1>1, <1>2, <3>1, <3>3
      <4> QED
        BY <4>1 DEF KindsAt
    <3>4. CASE q.step = 3
      <4>1. m + (n + 1) = 5 /\ m + (n + 2) = 6 /\ k = "Finished"
        BY <1>1, <1>2, <3>1, <3>4
      <4> QED
        BY <4>1 DEF KindsAt
    <3> QED
      BY <3>1, <3>2, <3>3, <3>4
  <2> QED
    BY <1>1, <2>1, <2>2
<1>8. Follows(t.pend, m)
  <2>1. ASSUME NEW i \in 1..n + 2 PROVE t.pend[i] \in KindsAt(m + i)
    <3>1. CASE i \in 1..n
      BY <1>6, <3>1 DEF Places, Follows
    <3>2. CASE i = n + 1
      BY <1>6, <1>7, <3>2
    <3>3. CASE i = n + 2
      BY <1>6, <1>7, <3>3
    <3> QED
      BY <1>1, <3>1, <3>2, <3>3
  <2> QED
    BY <1>6, <2>1 DEF Follows
<1>0. PICK l \in Int : l = Len(t.pend) /\ l = n + 2
  BY <1>1, <1>6
<1> HIDE DEF n
<1>9. (t.step <= 3 => m + l = 2 * (t.step - 1)) /\ (t.step > 3 => m + l >= 6)
  <2>0. n \in Nat
    BY <1>1
  <2>1. CASE q.step > 3
    <3>1. t.step = q.step /\ m + n >= 6
      BY <1>1, <1>3, <1>5, <2>1 DEF Places, PostHandshake, n
    <3> QED
      BY <1>1, <1>0, <2>0, <2>1, <3>1
  <2>2. CASE q.step <= 3
    <3>0. q.step \in {1, 2, 3}
      BY <1>1, <2>2
    <3>7. m + n = 2 * (q.step - 1)
      BY <2>2 DEF Places, n
    <3>1. q.step \in {1, 2, 3} /\ m + n = 2 * (q.step - 1)
      BY <3>0, <3>7
    <3>2. k \in {"ServerHello", "EncryptedExtensions", "Finished"}
      BY <1>2, <1>3, <3>1
    <3>3. t.step = q.step + 1
      BY <1>5, <3>2 DEF PostHandshake
    <3>4. CASE q.step = 1
      <4>1. m + n = 0 /\ t.step = 2
        BY <3>1, <3>3, <3>4
      <4> QED
        BY <1>0, <2>0, <4>1
    <3>5. CASE q.step = 2
      <4>1. m + n = 2 /\ t.step = 3
        BY <3>1, <3>3, <3>5
      <4> QED
        BY <1>0, <2>0, <4>1
    <3>6. CASE q.step = 3
      <4>1. m + n = 4 /\ t.step = 4
        BY <3>1, <3>3, <3>6
      <4> QED
        BY <1>0, <2>0, <4>1
    <3> QED
      BY <3>1, <3>4, <3>5, <3>6
  <2> QED
    BY <1>1, <2>1, <2>2
<1>10. Places(t, m)
  BY <1>0, <1>8, <1>9 DEF Places
<1> QED
  BY <1>4, <1>10

(* A record takes the first halves. *)
LEMMA SendPlaces ==
  ASSUME NEW q, PeerType(q), NEW back \in 0..1, NEW early, PeerHandshake(q, back, early), NEW m \in Nat, Places(q, m)
  PROVE  LET n == Len(q.pend) - back IN
         /\ Follows(SubSeq(q.pend, 1, n), m) /\ Len(SubSeq(q.pend, 1, n)) = n /\ n \in Nat /\ Places(p', m + n)
<1> DEFINE l == Len(q.pend)
           n == l - back
           a == SubSeq(q.pend, 1, n)
           s == SubSeq(q.pend, n + 1, l)
<1>1. /\ n \in 1..l /\ l \in Nat /\ p'.pend = s /\ p'.step = q.step /\ q.pend \in Seq(Kinds) /\ q.step \in Nat
  BY HandshakeSent DEF PeerType
<1>2. n \in Nat /\ n >= 1 /\ n <= l
  BY <1>1
<1>3. Len(a) = n /\ \A i \in 1..n : a[i] = q.pend[i]
  BY <1>1, <1>2, SubSeqProperties
<1>4. Len(s) = l - n /\ \A i \in 1..l - n : s[i] = q.pend[n + i]
  BY <1>1, <1>2, SubSeqProperties
<1>5. /\ Follows(q.pend, m) /\ (q.step <= 3 => m + l = 2 * (q.step - 1)) /\ (q.step > 3 => m + l >= 6)
  BY DEF Places
<1> HIDE DEF a, s
<1>6. Follows(a, m)
  BY <1>1, <1>2, <1>3, <1>5 DEF Follows
<1>7. Follows(s, m + n)
  <2>1. ASSUME NEW i \in 1..l - n PROVE s[i] \in KindsAt((m + n) + i)
    <3>1. n + i \in 1..l /\ m + (n + i) = (m + n) + i
      BY <1>1, <1>2
    <3>2. q.pend[n + i] \in KindsAt(m + (n + i))
      BY <1>5, <3>1 DEF Follows
    <3> QED
      BY <1>4, <3>1, <3>2
  <2> QED
    BY <1>4, <2>1 DEF Follows
<1> HIDE DEF n, l
<1>8. (m + n) + Len(s) = m + l
  BY <1>1, <1>2, <1>4
<1>9. Places(p', m + n)
  BY <1>1, <1>5, <1>7, <1>8 DEF Places
<1> QED
  BY <1>2, <1>3, <1>6, <1>9 DEF n, l, a
-----------------------------------------------------------------------------
(* The keys in force are those of the place the connection has reached. *)

Aligned(d, v) ==
    IF d.dead THEN d.pc = "idle"
    ELSE /\ d.vers = 0 => d.pc = "hs" /\ d.step = 1
         /\ d.pc \in {"hs", "post"} => d.inErr = "none"
         /\ v = 13 => IF d.pc = "hs" THEN /\ d.step \in 1..3 /\ d.handshakes = 0
                                          /\ d.keys = (IF d.step = 1 THEN 0 ELSE 1)
                                     ELSE d.keys >= 2
         /\ v = 12 => IF d.pc = "hs" THEN /\ d.step \in 1..4
                                          /\ d.keys = d.handshakes + (IF d.step = 4 THEN 1 ELSE 0)
                                     ELSE d.keys = d.handshakes

(* What MessageKeys says of the message t taken last, n handshakes being done. *)
Proper(t, n, v) ==
    /\ t.keys = {t.at}
    /\ v = 13 /\ t.kind = "ServerHello" => t.at = 0
    /\ v = 13 /\ t.kind \in {"EncryptedExtensions", "Finished"} => t.at = 1
    /\ v = 13 /\ t.kind \in PostHandshake(13) => t.at >= 2
    /\ v = 12 /\ t.kind = "Finished" => t.at = n

Acted(d, v) == \/ d.taken.kind = "none"
               \/ d.dead /\ d.last = "unexpected"
               \/ Proper(d.taken, d.handshakes, v)

KeyType(d, v) == /\ d.vers \in {0, v} /\ d.step \in Nat /\ d.keys \in Nat /\ d.handshakes \in Nat
                 /\ v \in {12, 13}
HandType(d) == d.hand \in Seq(HalfType) /\ SameKeys(d.hand, d.keys)

Keyed(d, v) == KeyType(d, v) /\ HandType(d) /\ Aligned(d, v) /\ Acted(d, v)

(* How far the messages of TLS 1.3 have come, b halves being taken. *)
Reached(d, b) == IF d.pc = "hs" THEN b = 2 * (d.step - 1) ELSE b >= 6

OrderInv ==
    p.vers = 13 /\ c.inErr = "none" /\ ~c.dead =>
        \E b, m \in Nat : /\ Reached(c, b) /\ Held(c.hand, b) /\ Places(p, m)
                          /\ Path(InFlight, b + Len(c.hand), m, HalfSteps)

KeyInv == Keyed(c, p.vers) /\ OrderInv

(* The ways in which the reader moves without a message. *)
Moves ==
    \/ c'.pc = c.pc /\ c'.dead = c.dead /\ c'.last = c.last /\ c'.inErr = c.inErr
    \/ c.pc # "idle" /\ c'.pc = "idle" /\ c'.dead = (c.dead \/ c.pc = "hs")
    \/ /\ c.pc \in {"idle", "read"} /\ c'.pc \in {"read", "peek", "post"} /\ c'.last = c.last
       /\ (c'.pc = "post" => c'.inErr = "none") /\ ~c.dead /\ ~c'.dead

Stays == c'.vers = c.vers /\ c'.step = c.step /\ c'.keys = c.keys /\ c'.handshakes = c.handshakes /\ c'.taken = c.taken

LEMMA KeysMove == ASSUME NEW v, Keyed(c, v), Stays, Moves, HandType(c') PROVE Keyed(c', v)
<1>1. KeyType(c', v)
  BY DEF Keyed, KeyType, Stays
<1>2. v \in {12, 13} /\ Aligned(c, v) /\ Acted(c, v)
  BY DEF Keyed, KeyType
<1>3. Aligned(c', v)
  <2>1. CASE c'.pc = c.pc /\ c'.dead = c.dead /\ c'.last = c.last /\ c'.inErr = c.inErr
    BY <1>2, <2>1 DEF Aligned, Stays
  <2>2. CASE c.pc # "idle" /\ c'.pc = "idle" /\ c'.dead = (c.dead \/ c.pc = "hs")
    BY <1>2, <2>2 DEF Aligned, Stays
  <2>3. CASE /\ c.pc \in {"idle", "read"} /\ c'.pc \in {"read", "peek", "post"} /\ c'.last = c.last
             /\ (c'.pc = "post" => c'.inErr = "none") /\ ~c.dead /\ ~c'.dead
    BY <1>2, <2>3 DEF Aligned, Stays
  <2> QED
    BY <2>1, <2>2, <2>3 DEF Moves
<1>4. Acted(c', v)
  <2>1. CASE c.dead
    <3>1. c'.dead = c.dead /\ c'.last = c.last
      BY <1>2, <2>1 DEF Aligned, Moves
    <3> QED
      BY <1>2, <3>1 DEF Acted, Stays
  <2>2. CASE ~c.dead
    <3>1. c.taken.kind = "none" \/ Proper(c.taken, c.handshakes, v)
      BY <1>2, <2>2 DEF Acted
    <3> QED
      BY <3>1 DEF Acted, Stays
  <2> QED
    BY <2>1, <2>2
<1> QED
  BY <1>1, <1>3, <1>4 DEF Keyed

LEMMA OrderMoves ==
  ASSUME OrderInv, Moves, c'.step = c.step, p' = p, c'.inErr = "none" => c.inErr = "none",
         Aligned(c, p.vers),
         \A b, m \in Nat : Held(c.hand, b) /\ Path(InFlight, b + Len(c.hand), m, HalfSteps)
            => Held(c'.hand, b) /\ Path(InFlight', b + Len(c'.hand), m, HalfSteps)
  PROVE  OrderInv'
<1> SUFFICES ASSUME p.vers = 13, c'.inErr = "none", ~c'.dead
             PROVE  \E b, m \in Nat : /\ Reached(c', b) /\ Held(c'.hand, b) /\ Places(p, m)
                                      /\ Path(InFlight', b + Len(c'.hand), m, HalfSteps)
  BY DEF OrderInv
<1>1. ~c.dead /\ (c'.pc = "hs" <=> c.pc = "hs")
  BY DEF Moves
<1>2. PICK b, m \in Nat : /\ Reached(c, b) /\ Held(c.hand, b) /\ Places(p, m)
                          /\ Path(InFlight, b + Len(c.hand), m, HalfSteps)
  BY <1>1 DEF OrderInv
<1>3. Reached(c', b)
  BY <1>1, <1>2 DEF Reached
<1> QED
  BY <1>2, <1>3

(* Without a record, or with one that holds no handshake message. *)
LEMMA KeysRest ==
  ASSUME KeyInv, DataInv, Moves, Stays, c'.hand = c.hand, p' = p, c'.inErr = "none" => c.inErr = "none",
         \/ InFlight' = InFlight
         \/ Fetch /\ Record.typ # "handshake"
         \/ c'.inErr # "none"
  PROVE  KeyInv'
<1>1. Keyed(c, p.vers) /\ OrderInv /\ FlightType
  BY DEF KeyInv, DataInv
<1>2. Keyed(c', p.vers)
  <2>1. HandType(c')
    BY <1>1 DEF Keyed, HandType, Stays
  <2> QED
    BY <1>1, <2>1, KeysMove
<1>3. Aligned(c, p.vers) /\ c'.step = c.step
  BY <1>1 DEF Keyed, Stays
<1>4. CASE c'.inErr # "none"
  BY <1>2, <1>4 DEF KeyInv, OrderInv
<1>5. CASE InFlight' = InFlight
  <2>1. OrderInv'
    BY <1>1, <1>3, <1>5, OrderMoves
  <2> QED
    BY <1>2, <2>1 DEF KeyInv
<1>6. CASE Fetch /\ Record.typ # "handshake"
  <2>1. ASSUME NEW b \in Nat, NEW m \in Nat, Path(InFlight, b + Len(c.hand), m, HalfSteps)
        PROVE  Path(InFlight', b + Len(c.hand), m, HalfSteps)
    <3>1. PICK k : <<b + Len(c.hand), Record, k>> \in HalfSteps /\ Path(InFlight', k, m, HalfSteps)
      BY <1>1, <1>6, <2>1, FetchPath
    <3>2. k = b + Len(c.hand) + Count(Record) /\ b + Len(c.hand) \in Nat
      BY <3>1, HalfStepIs
    <3>3. Count(Record) = 0
      BY <1>6 DEF Count
    <3>4. k = b + Len(c.hand)
      BY <3>2, <3>3
    <3> QED
      BY <3>1, <3>4
  <2>2. OrderInv'
    BY <1>1, <1>3, <2>1, OrderMoves
  <2> QED
    BY <1>2, <2>2 DEF KeyInv
<1> QED
  BY <1>4, <1>5, <1>6

LEMMA KeysReturned ==
  ASSUME KeyInv, DataInv, NEW e, c.pc # "idle", Rests,
         \/ c' = Return(c, e)
         \/ c' = Fail(c, e) /\ e # "none"
  PROVE  KeyInv'
<1>1. IsConn(c) /\ p' = p /\ InFlight' = InFlight
  BY RestPath DEF DataInv, Rests
<1>2. /\ c'.pc = "idle" /\ c'.dead = (c.dead \/ c.pc = "hs") /\ c'.vers = c.vers /\ c'.step = c.step /\ c'.keys = c.keys
      /\ c'.handshakes = c.handshakes /\ c'.taken = c.taken /\ c'.hand = c.hand /\ c'.inErr \in {c.inErr, e}
      /\ (c'.inErr = "none" => c.inErr = "none")
  BY <1>1, ReturnIs, FailIs
<1>3. Moves /\ Stays
  BY <1>2 DEF Moves, Stays
<1> QED
  BY <1>1, <1>2, <1>3, KeysRest

LEMMA KeysRefuse == ASSUME KeyInv, DataInv, RefuseRecord PROVE KeyInv'
<1>1. Fetch /\ p' = p /\ c' = Fail(c, RecordError(Record)) /\ RecordError(Record) # "none" /\ IsConn(c)
  BY DEF RefuseRecord, DataInv
<1>2. c.pc # "idle"
  BY <1>1, Waits DEF Fetch
<1> DEFINE e == RecordError(Record)
<1> HIDE DEF e
<1>3. c' = Fail(c, e) /\ e # "none"
  BY <1>1 DEF e
<1>4. /\ c'.pc = "idle" /\ c'.dead = (c.dead \/ c.pc = "hs") /\ c'.vers = c.vers /\ c'.step = c.step /\ c'.keys = c.keys
      /\ c'.handshakes = c.handshakes /\ c'.taken = c.taken /\ c'.hand = c.hand /\ c'.inErr # "none"
  BY <1>1, <1>3, FailIs
<1>5. Moves /\ Stays
  BY <1>2, <1>4 DEF Moves, Stays
<1> QED
  BY <1>1, <1>4, <1>5, KeysRest

LEMMA KeysDrop == ASSUME KeyInv, DataInv, DropRecord PROVE KeyInv'
<1>1. /\ Fetch /\ p' = p /\ c' = [c EXCEPT !.retryCount = Counted(Record) + 1] /\ IsConn(c) /\ Ignored(Record)
  BY DEF DropRecord, DataInv
<1> DEFINE x == Counted(Record) + 1
<1>2. c' = [c EXCEPT !.retryCount = x]
  BY <1>1
<1> HIDE DEF x
<1>3. /\ c'.pc = c.pc /\ c'.dead = c.dead /\ c'.vers = c.vers /\ c'.step = c.step /\ c'.keys = c.keys
      /\ c'.handshakes = c.handshakes /\ c'.taken = c.taken /\ c'.hand = c.hand /\ c'.inErr = c.inErr /\ c'.last = c.last
  BY <1>1, <1>2 DEF IsConn
<1>4. Moves /\ Stays
  BY <1>3 DEF Moves, Stays
<1>5. Record.typ # "handshake"
  BY <1>1 DEF Ignored
<1> QED
  BY <1>1, <1>3, <1>4, <1>5, KeysRest

(* A record that is taken: data, halves of messages, or the key change of TLS 1.2. *)
LEMMA TakeIs ==
  ASSUME IsConn(c), FlightType, TakeRecord
  PROVE  /\ Fetch /\ p' = p /\ Record \in Recs /\ Record.typ \in {"data", "handshake", "ccs"}
         /\ RecordError(Record) = "none" /\ c.inErr = "none" /\ c'.inErr = "none"
         /\ c.pc \in {"hs", "post", "read", "peek"}
         /\ c'.vers = c.vers /\ c'.handshakes = c.handshakes /\ c'.taken = c.taken
         /\ c'.hand = (IF Record.typ = "handshake" THEN Cat(c.hand, Halves(Record)) ELSE c.hand)
         /\ c'.keys = (IF Record.typ = "ccs" THEN c.keys + 1 ELSE c.keys)
         /\ c'.step = (IF Record.typ = "ccs" THEN c.step + 1 ELSE c.step)
         /\ \/ c.pc \in {"hs", "post"} /\ c'.pc = c.pc /\ c'.dead = c.dead /\ c'.last = c.last
            \/ c.pc = "read" /\ c'.pc \in {"read", "post"} /\ c'.dead = c.dead /\ c'.last = c.last
            \/ c.pc = "peek" /\ c'.pc = "idle" /\ c'.dead = (c.dead \/ c.pc = "hs")
<1> DEFINE d == Applied(Record)
<1>1. /\ Fetch /\ p' = p /\ RecordError(Record) = "none" /\ ~Ignored(Record)
      /\ c' = CASE c.pc = "read" -> Loop(d)
                [] c.pc = "peek" -> Return(d, "none")
                [] OTHER -> d
  BY DEF TakeRecord
<1>2. Record \in Recs /\ NeedsRecord /\ c.inErr = "none"
  BY <1>1, FetchIs
<1>3. Record.typ # "alert"
  BY <1>1, <1>2, TakenRecord
<1>4. Record.typ \in {"data", "handshake", "ccs"}
  BY <1>2, <1>3 DEF Recs, RecType
<1>5. /\ IsConn(d) /\ d.pc = c.pc /\ d.inErr = c.inErr /\ d.last = c.last /\ d.dead = c.dead
      /\ d.vers = c.vers /\ d.handshakes = c.handshakes /\ d.taken = c.taken
      /\ d.hand = (IF Record.typ = "handshake" THEN Cat(c.hand, Halves(Record)) ELSE c.hand)
      /\ d.keys = (IF Record.typ = "ccs" THEN c.keys + 1 ELSE c.keys)
      /\ d.step = (IF Record.typ = "ccs" THEN c.step + 1 ELSE c.step)
  BY <1>2, <1>3, AppliedIs
<1> HIDE DEF d
<1>6. c.pc \in {"hs", "post", "read", "peek"}
  BY <1>2, Waits
<1>7. CASE c.pc = "read"
  <2>1. /\ c'.inErr = d.inErr /\ c'.vers = d.vers /\ c'.handshakes = d.handshakes /\ c'.taken = d.taken
        /\ c'.hand = d.hand /\ c'.keys = d.keys /\ c'.step = d.step
        /\ c'.pc \in {"read", "post"} /\ c'.dead = d.dead /\ c'.last = d.last
    BY <1>1, <1>5, <1>7, LoopIs
  <2> QED
    BY <1>1, <1>2, <1>4, <1>5, <1>7, <2>1
<1>8. CASE c.pc = "peek"
  <2>1. /\ c'.inErr = d.inErr /\ c'.vers = d.vers /\ c'.handshakes = d.handshakes /\ c'.taken = d.taken
        /\ c'.hand = d.hand /\ c'.keys = d.keys /\ c'.step = d.step
        /\ c'.pc = "idle" /\ c'.dead = (d.dead \/ d.pc = "hs")
    BY <1>1, <1>5, <1>8, ReturnIs
  <2> QED
    BY <1>1, <1>2, <1>4, <1>5, <1>8, <2>1
<1>9. CASE c.pc \in {"hs", "post"}
  BY <1>1, <1>2, <1>4, <1>5, <1>9
<1> QED
  BY <1>6, <1>7, <1>8, <1>9

LEMMA KeysTake == ASSUME KeyInv, DataInv, TakeRecord PROVE KeyInv'
<1>0. Keyed(c, p.vers) /\ OrderInv /\ FlightType /\ IsConn(c)
  BY DEF KeyInv, DataInv
<1>1. /\ Fetch /\ p' = p /\ Record \in Recs /\ Record.typ \in {"data", "handshake", "ccs"}
      /\ RecordError(Record) = "none" /\ c.inErr = "none" /\ c'.inErr = "none"
      /\ c.pc \in {"hs", "post", "read", "peek"}
      /\ c'.vers = c.vers /\ c'.handshakes = c.handshakes /\ c'.taken = c.taken
      /\ c'.hand = (IF Record.typ = "handshake" THEN Cat(c.hand, Halves(Record)) ELSE c.hand)
      /\ c'.keys = (IF Record.typ = "ccs" THEN c.keys + 1 ELSE c.keys)
      /\ c'.step = (IF Record.typ = "ccs" THEN c.step + 1 ELSE c.step)
      /\ \/ c.pc \in {"hs", "post"} /\ c'.pc = c.pc /\ c'.dead = c.dead /\ c'.last = c.last
         \/ c.pc = "read" /\ c'.pc \in {"read", "post"} /\ c'.dead = c.dead /\ c'.last = c.last
         \/ c.pc = "peek" /\ c'.pc = "idle" /\ c'.dead = (c.dead \/ c.pc = "hs")
  BY <1>0, TakeIs
<1>2. Moves
  <2>1. ~c.dead
    BY <1>0, <1>1 DEF Keyed, Aligned
  <2> QED
    BY <1>1, <2>1 DEF Moves
<1>3. Decrypts(Record) /\ ~(Record.typ = "ccs" /\ c.hand # <<>>) /\ ~(Record.typ = "ccs" /\ c.vers # 13 /\ ~ExpectCCS)
  BY <1>1, ErrorIs
<1>4. CASE Record.typ = "data"
  <2>1. Stays /\ c'.hand = c.hand
    BY <1>1, <1>4 DEF Stays
  <2> QED
    BY <1>1, <1>2, <1>4, <2>1, KeysRest
<1>5. CASE Record.typ = "handshake"
  <2>1. Stays /\ c'.hand = Cat(c.hand, Halves(Record)) /\ Record.keys = c.keys
    BY <1>1, <1>3, <1>5 DEF Stays, Decrypts
  <2>2. c.hand \in Seq(HalfType) /\ SameKeys(c.hand, Record.keys) /\ Aligned(c, p.vers)
    BY <1>0, <2>1 DEF Keyed, HandType
  <2>3. /\ c'.hand \in Seq(HalfType) /\ Len(c'.hand) = Len(c.hand) + Count(Record) /\ SameKeys(c'.hand, Record.keys)
        /\ \A b \in Nat : Held(c.hand, b) /\ Follows(Record.data, b + Len(c.hand)) => Held(c'.hand, b)
    BY <1>1, <1>5, <2>1, <2>2, HeldCat
  <2>4. HandType(c')
    BY <2>1, <2>3 DEF HandType, Stays
  <2>5. Keyed(c', p.vers)
    BY <1>0, <1>2, <2>1, <2>4, KeysMove
  <2>6. ASSUME NEW b \in Nat, NEW m \in Nat, Held(c.hand, b), Path(InFlight, b + Len(c.hand), m, HalfSteps)
        PROVE  Held(c'.hand, b) /\ Path(InFlight', b + Len(c'.hand), m, HalfSteps)
    <3>1. PICK k : <<b + Len(c.hand), Record, k>> \in HalfSteps /\ Path(InFlight', k, m, HalfSteps)
      BY <1>0, <1>1, <2>6, FetchPath
    <3>2. k = b + Len(c.hand) + Count(Record) /\ Follows(Record.data, b + Len(c.hand))
      BY <1>5, <3>1, HalfStepIs
    <3>3. Len(c.hand) \in Nat /\ Count(Record) \in Nat
      BY <1>1, <2>2, CountIs, LenProperties
    <3>4. k = b + Len(c'.hand)
      <4>1. PICK x, y : x = Len(c.hand) /\ y = Count(Record)
        OBVIOUS
      <4>2. x \in Nat /\ y \in Nat /\ Len(c'.hand) = x + y /\ k = b + x + y
        BY <2>3, <3>2, <3>3, <4>1
      <4> QED
        BY <4>2
    <3> QED
      BY <2>3, <2>6, <3>1, <3>2, <3>4
  <2>7. OrderInv'
    <3>1. c'.step = c.step /\ (c'.inErr = "none" => c.inErr = "none") /\ p' = p
      BY <1>1, <2>1 DEF Stays
    <3> QED
      BY <1>0, <1>2, <2>2, <2>6, <3>1, OrderMoves
  <2> QED
    BY <1>1, <2>5, <2>7 DEF KeyInv
<1>6. CASE Record.typ = "ccs"
  <2>0. p.vers \in {12, 13} /\ c.vers \in {0, p.vers} /\ c.step \in Nat /\ c.keys \in Nat /\ Aligned(c, p.vers)
    BY <1>0 DEF Keyed, KeyType
  <2>1. c.vers # 0
    BY <1>1, <1>6, ErrorIs
  <2>2. c.vers = p.vers
    BY <2>0, <2>1
  <2>3. CASE c.vers = 13
    BY <1>1, <1>6, <2>3, TakenRecord DEF TakeRecord
  <2>4. CASE c.vers = 12
    <3>1. c.hand = <<>> /\ c.pc = "hs" /\ Script(12)[c.step] = "ccs"
      BY <1>3, <1>6, <2>4 DEF ExpectCCS
    <3>2. /\ c'.keys = c.keys + 1 /\ c'.step = c.step + 1 /\ c'.hand = <<>> /\ c'.pc = c.pc /\ c'.dead = c.dead
          /\ c'.last = c.last
      BY <1>1, <1>6, <3>1
    <3>3. ~c.dead /\ c.step \in 1..4 /\ c.keys = c.handshakes + (IF c.step = 4 THEN 1 ELSE 0)
      BY <2>0, <2>2, <2>4, <3>1 DEF Aligned
    <3>4. c.step = 3
      <4>1. c.step \in {1, 2, 3, 4}
        BY <3>3
      <4> QED
        BY <3>1, <4>1 DEF Script
    <3>5. HandType(c') /\ KeyType(c', p.vers)
      BY <1>0, <1>1, <2>0, <3>2, HeldEmpty DEF HandType, KeyType, Keyed
    <3>6. c.handshakes \in Nat
      BY <1>0 DEF Keyed, KeyType
    <3>7. Aligned(c', p.vers)
      <4>1. c'.keys = c'.handshakes + 1 /\ c'.step = 4
        BY <1>1, <3>2, <3>3, <3>4, <3>6
      <4> QED
        BY <1>1, <2>2, <2>4, <3>1, <3>2, <3>3, <4>1, <2>1 DEF Aligned
    <3>8. Acted(c', p.vers)
      BY <1>0, <1>1, <3>2 DEF Acted, Keyed
    <3>9. Keyed(c', p.vers)
      BY <3>5, <3>7, <3>8 DEF Keyed
    <3> QED
      BY <1>1, <2>2, <2>4, <3>9 DEF KeyInv, OrderInv
  <2> QED
    BY <2>0, <2>1, <2>3, <2>4
<1> QED
  BY <1>1, <1>4, <1>5, <1>6

LEMMA KeysRefused == ASSUME KeyInv, DataInv, ReadRefused PROVE KeyInv'
<1>1. Rests /\ NeedsRecord /\ (c' = IF c.inErr # "none" THEN Return(c, c.inErr) ELSE Fail(c, "internal"))
  BY DEF ReadRefused, Rests
<1>2. c.pc # "idle"
  BY <1>1, Waits
<1>3. CASE c.inErr # "none"
  <2>1. c' = Return(c, c.inErr)
    BY <1>1, <1>3
  <2> QED
    BY <1>1, <1>2, <2>1, KeysReturned
<1>4. CASE c.inErr = "none"
  <2>1. c' = Fail(c, "internal")
    BY <1>1, <1>4
  <2> QED
    BY <1>1, <1>2, <2>1, KeysReturned
<1> QED
  BY <1>3, <1>4

LEMMA KeysEOF == ASSUME KeyInv, DataInv, ReadEOF PROVE KeyInv'
<1>1. Rests /\ NeedsRecord /\ c' = Fail(c, "eof")
  BY DEF ReadEOF, Rests
<1>2. c.pc # "idle"
  BY <1>1, Waits
<1> QED
  BY <1>1, <1>2, KeysReturned

LEMMA KeysTimeout == ASSUME KeyInv, DataInv, ReadTimeout PROVE KeyInv'
<1>1. Rests /\ NeedsRecord /\ c' = Return(c, "timeout")
  BY DEF ReadTimeout, Rests
<1>2. c.pc # "idle"
  BY <1>1, Waits
<1> QED
  BY <1>1, <1>2, KeysReturned

LEMMA KeysStart == ASSUME KeyInv, DataInv, StartRead PROVE KeyInv'
<1>1. c.pc = "idle" /\ ~c.dead /\ c' = [c EXCEPT !.pc = "read"] /\ Rests /\ IsConn(c)
  BY DEF StartRead, Rests, DataInv
<1>2. /\ c'.pc = "read" /\ c'.dead = c.dead /\ c'.vers = c.vers /\ c'.step = c.step /\ c'.keys = c.keys
      /\ c'.handshakes = c.handshakes /\ c'.taken = c.taken /\ c'.hand = c.hand /\ c'.inErr = c.inErr /\ c'.last = c.last
  BY <1>1 DEF IsConn
<1>3. Moves /\ Stays
  BY <1>1, <1>2 DEF Moves, Stays
<1>4. InFlight' = InFlight /\ p' = p
  BY <1>1, RestPath DEF Rests
<1> QED
  BY <1>2, <1>3, <1>4, KeysRest

LEMMA KeysBytes == ASSUME KeyInv, DataInv, NEW n, ReadBytes(n) PROVE KeyInv'
<1> DEFINE rest == SubSeq(c.input, n + 1, Len(c.input))
           first == SubSeq(c.input, 1, n)
           d == [c EXCEPT !.input = rest, !.held = first]
           e == [d EXCEPT !.pc = "peek"]
<1>1. c.pc = "read" /\ Rests /\ (c' = e \/ c' = Return(d, "none"))
  BY DEF ReadBytes, Rests
<1>2. IsConn(c) /\ ~c.dead
  BY <1>1 DEF DataInv, KeyInv, Keyed, Aligned
<1> HIDE DEF rest, first
<1>3. /\ IsConn(d) /\ d.pc = c.pc /\ d.dead = c.dead /\ d.vers = c.vers /\ d.step = c.step /\ d.keys = c.keys
      /\ d.handshakes = c.handshakes /\ d.taken = c.taken /\ d.hand = c.hand /\ d.inErr = c.inErr /\ d.last = c.last
  BY <1>2 DEF IsConn
<1> HIDE DEF d
<1>4. /\ e.pc = "peek" /\ e.dead = d.dead /\ e.vers = d.vers /\ e.step = d.step /\ e.keys = d.keys
      /\ e.handshakes = d.handshakes /\ e.taken = d.taken /\ e.hand = d.hand /\ e.inErr = d.inErr /\ e.last = d.last
  BY <1>3 DEF IsConn
<1> HIDE DEF e
<1>5. InFlight' = InFlight /\ p' = p
  BY <1>1, RestPath DEF Rests
<1>6. Moves /\ Stays /\ c'.hand = c.hand /\ c'.inErr = c.inErr
  <2>1. CASE c' = e
    BY <1>1, <1>2, <1>3, <1>4, <2>1 DEF Moves, Stays
  <2>2. CASE c' = Return(d, "none")
    <3>1. /\ c'.pc = "idle" /\ c'.dead = (d.dead \/ d.pc = "hs") /\ c'.vers = d.vers /\ c'.step = d.step /\ c'.keys = d.keys
          /\ c'.handshakes = d.handshakes /\ c'.taken = d.taken /\ c'.hand = d.hand /\ c'.inErr = d.inErr
      BY <1>3, <2>2, ReturnIs
    <3> QED
      BY <1>1, <1>3, <3>1 DEF Moves, Stays
  <2> QED
    BY <1>1, <2>1, <2>2
<1> QED
  BY <1>5, <1>6, KeysRest

(* A handshake message is taken: what the new state must show. *)
LEMMA MessageStep ==
  ASSUME KeyInv, DataInv, Rests, Len(c.hand) >= 2, c'.hand = SubSeq(c.hand, 3, Len(c.hand)),
         c'.keys = c.keys \/ c'.hand = <<>>,
         KeyType(c', p.vers), Aligned(c', p.vers), Acted(c', p.vers),
         p.vers = 13 /\ c'.inErr = "none" /\ ~c'.dead =>
           c.inErr = "none" /\ ~c.dead /\ \A b \in Nat : Reached(c, b) => Reached(c', b + 2)
  PROVE  KeyInv'
<1>1. c.hand \in Seq(HalfType) /\ SameKeys(c.hand, c.keys) /\ OrderInv
  BY DEF KeyInv, Keyed, HandType
<1>2. InFlight' = InFlight /\ p' = p
  BY RestPath DEF Rests
<1>3. /\ c'.hand \in Seq(HalfType) /\ Len(c'.hand) = Len(c.hand) - 2 /\ SameKeys(c'.hand, c.keys)
      /\ \A b \in Nat : Held(c.hand, b) => Held(c'.hand, b + 2)
  BY <1>1, HeldSub
<1>4. SameKeys(c'.hand, c'.keys)
  BY <1>3, HeldEmpty
<1>5. Keyed(c', p.vers)
  BY <1>3, <1>4 DEF Keyed, HandType
<1>6. ASSUME p.vers = 13, c'.inErr = "none", ~c'.dead
      PROVE  \E b, m \in Nat : /\ Reached(c', b) /\ Held(c'.hand, b) /\ Places(p, m)
                               /\ Path(InFlight, b + Len(c'.hand), m, HalfSteps)
  <2>1. PICK b, m \in Nat : /\ Reached(c, b) /\ Held(c.hand, b) /\ Places(p, m)
                            /\ Path(InFlight, b + Len(c.hand), m, HalfSteps)
    BY <1>1, <1>6 DEF OrderInv
  <2>2. (b + 2) + Len(c'.hand) = b + Len(c.hand)
    <3>1. PICK x : x = Len(c.hand)
      OBVIOUS
    <3>2. x \in Nat /\ Len(c'.hand) = x - 2
      BY <1>1, <1>3, <3>1, LenProperties
    <3>3. (b + 2) + (x - 2) = b + x
      BY <3>2
    <3> QED
      BY <3>1, <3>2, <3>3
  <2>3. Reached(c', b + 2) /\ Held(c'.hand, b + 2) /\ b + 2 \in Nat
    BY <1>3, <1>6, <2>1
  <2> QED
    BY <2>1, <2>2, <2>3
<1>7. OrderInv'
  BY <1>2, <1>6 DEF OrderInv
<1> QED
  BY <1>2, <1>5, <1>7 DEF KeyInv

(* The message taken: both halves came under the keys in force, and after the  *)
(* handshake of TLS 1.3 it is one of those that may come there.                *)
LEMMA FirstMessage ==
  ASSUME KeyInv, DataInv, Len(c.hand) >= 2, c.inErr = "none", ~c.dead
  PROVE  /\ c.hand[1].kind \in Kinds
         /\ [kind |-> c.hand[1].kind, at |-> c.keys, keys |-> {c.hand[1].keys, c.hand[2].keys}]
              = [kind |-> c.hand[1].kind, at |-> c.keys, keys |-> {c.keys}]
         /\ p.vers = 13 /\ c.pc # "hs" => c.hand[1].kind \in PostHandshake(13)
<1>1. c.hand \in Seq(HalfType) /\ SameKeys(c.hand, c.keys) /\ OrderInv
  BY DEF KeyInv, Keyed, HandType
<1>2. /\ c.hand[1] \in HalfType /\ {c.hand[1].keys, c.hand[2].keys} = {c.keys}
      /\ \A b \in Nat : Held(c.hand, b) => c.hand[1].kind \in KindsAt(b + 1)
  BY <1>1, HeldSub
<1>3. ASSUME p.vers = 13, c.pc # "hs" PROVE c.hand[1].kind \in PostHandshake(13)
  <2>1. PICK b \in Nat : Reached(c, b) /\ Held(c.hand, b)
    BY <1>1, <1>3 DEF OrderInv
  <2>2. b >= 6 /\ c.hand[1].kind \in KindsAt(b + 1)
    BY <1>2, <1>3, <2>1 DEF Reached
  <2> QED
    BY <2>2 DEF KindsAt
<1> QED
  BY <1>2, <1>3 DEF HalfType

LEMMA KeysHandshake == ASSUME KeyInv, DataInv, HandshakeMessage PROVE KeyInv'
<1> DEFINE kind == c.hand[1].kind
           changes == p.vers = 13 /\ kind \in KeyChanging
           more == IF changes THEN c.keys + 1 ELSE c.keys
           next == [Taken EXCEPT !.vers = p.vers,
                                 !.step = @ + 1,
                                 !.keys = IF changes THEN @ + 1 ELSE @]
           done == [next EXCEPT !.complete = TRUE, !.handshakes = @ + 1]
           idle == [done EXCEPT !.pc = "idle"]
           rest == SubSeq(c.hand, 3, Len(c.hand))
           t == [kind |-> kind, at |-> c.keys, keys |-> {c.keys}]
<1>1. /\ c.pc = "hs" /\ ~ExpectCCS /\ Len(c.hand) >= 2 /\ Rests
      /\ c' = IF kind # Script(p.vers)[c.step] THEN Return(Taken, "unexpected")
              ELSE IF changes /\ ~MayChangeKeys(Taken) THEN Return(Taken, "keychange")
              ELSE IF kind # "Finished" THEN next
              ELSE IF c.handshakes = 0 THEN idle
              ELSE Loop(done)
  BY DEF HandshakeMessage, Rests
<1>2. /\ p.vers \in {12, 13} /\ c.vers \in {0, p.vers} /\ c.step \in Nat /\ c.keys \in Nat /\ c.handshakes \in Nat
      /\ Aligned(c, p.vers) /\ IsConn(c)
  BY DEF KeyInv, Keyed, KeyType, DataInv
<1>3. ~c.dead /\ c.inErr = "none"
  BY <1>1, <1>2 DEF Aligned
<1>4. /\ p.vers = 13 => c.step \in 1..3 /\ c.handshakes = 0 /\ c.keys = (IF c.step = 1 THEN 0 ELSE 1)
      /\ p.vers = 12 => c.step \in 1..4 /\ c.keys = c.handshakes + (IF c.step = 4 THEN 1 ELSE 0)
  BY <1>1, <1>2, <1>3 DEF Aligned
<1>5. [kind |-> kind, at |-> c.keys, keys |-> {c.hand[1].keys, c.hand[2].keys}] = t
  BY <1>1, <1>3, FirstMessage
<1>6. /\ IsConn(Taken) /\ Taken.hand = rest /\ Taken.taken = t /\ Taken.last = c.last /\ Taken.dead = c.dead
      /\ Taken.vers = c.vers /\ Taken.step = c.step /\ Taken.keys = c.keys /\ Taken.pc = c.pc
      /\ Taken.handshakes = c.handshakes /\ Taken.inErr = c.inErr
  BY <1>2, <1>5, TakenIs
<1>7. t.kind = kind /\ t.at = c.keys /\ t.keys = {c.keys}
  OBVIOUS
<1>8. MayChangeKeys(Taken) = (rest = <<>>)
  BY <1>6 DEF MayChangeKeys
<1> HIDE DEF kind, changes, rest, t
<1>9. /\ IsConn(next) /\ next.hand = rest /\ next.taken = t /\ next.last = c.last /\ next.dead = c.dead
      /\ next.vers = p.vers /\ next.step = c.step + 1 /\ next.keys = more /\ next.pc = c.pc
      /\ next.handshakes = c.handshakes /\ next.inErr = c.inErr
  BY <1>6 DEF IsConn
<1> HIDE DEF next, more
<1>10. /\ IsConn(done) /\ done.hand = rest /\ done.taken = t /\ done.last = c.last /\ done.dead = c.dead
       /\ done.vers = p.vers /\ done.step = c.step + 1 /\ done.keys = more /\ done.pc = c.pc
       /\ done.handshakes = c.handshakes + 1 /\ done.inErr = c.inErr
  BY <1>9 DEF IsConn
<1> HIDE DEF done
<1>11. /\ idle.hand = rest /\ idle.taken = t /\ idle.last = c.last /\ idle.dead = c.dead
       /\ idle.vers = p.vers /\ idle.step = c.step + 1 /\ idle.keys = more /\ idle.pc = "idle"
       /\ idle.handshakes = c.handshakes + 1 /\ idle.inErr = c.inErr
  BY <1>10 DEF IsConn
<1> HIDE DEF idle
<1>12. ASSUME kind = Script(p.vers)[c.step]
       PROVE  /\ p.vers = 13 /\ kind = "ServerHello" => c.step = 1
              /\ p.vers = 13 /\ kind = "EncryptedExtensions" => c.step = 2
              /\ p.vers = 13 => (kind = "Finished" <=> c.step = 3)
              /\ p.vers = 13 => kind \in {"ServerHello", "EncryptedExtensions", "Finished"}
              /\ p.vers = 12 => (kind = "Finished" <=> c.step = 4)
              /\ p.vers = 12 /\ kind # "Finished" => c.step \in {1, 2}
  <2>1. CASE p.vers = 13
    <3>1. c.step \in {1, 2, 3}
      BY <1>4, <2>1
    <3> QED
      BY <1>12, <2>1, <3>1 DEF Script
  <2>2. CASE p.vers = 12
    <3>1. c.step \in {1, 2, 3, 4}
      BY <1>4, <2>2
    <3>2. ASSUME c.step = 3 PROVE FALSE
      <4>1. c.vers # 0
        BY <1>1, <1>2, <1>3, <3>2 DEF Aligned
      <4>2. c.vers = 12
        BY <1>2, <2>2, <4>1
      <4> QED
        BY <1>1, <3>2, <4>2 DEF ExpectCCS, Script
    <3> QED
      BY <1>12, <2>2, <3>1, <3>2 DEF Script
  <2> QED
    BY <1>2, <2>1, <2>2
<1>13. CASE kind # Script(p.vers)[c.step]
  <2>1. c' = Return(Taken, "unexpected")
    BY <1>1, <1>13
  <2>2. /\ c'.pc = "idle" /\ c'.dead = (Taken.dead \/ Taken.pc = "hs") /\ c'.last = "unexpected"
        /\ c'.vers = Taken.vers /\ c'.step = Taken.step /\ c'.keys = Taken.keys
        /\ c'.handshakes = Taken.handshakes /\ c'.hand = Taken.hand
    BY <1>6, <2>1, ReturnIs
  <2>4. c'.dead
    BY <1>1, <1>6, <2>2
  <2>5. c'.vers = c.vers /\ c'.step = c.step /\ c'.keys = c.keys /\ c'.handshakes = c.handshakes /\ c'.hand = rest
    BY <1>6, <2>2
  <2>3. KeyType(c', p.vers) /\ Aligned(c', p.vers) /\ Acted(c', p.vers)
    BY <1>2, <2>2, <2>4, <2>5 DEF KeyType, Aligned, Acted
  <2> QED
    BY <1>1, <2>3, <2>4, <2>5, MessageStep DEF rest
<1>14. CASE kind = Script(p.vers)[c.step] /\ changes /\ ~MayChangeKeys(Taken)
  <2>1. c' = Return(Taken, "keychange")
    BY <1>1, <1>14
  <2>2. /\ c'.pc = "idle" /\ c'.dead = (Taken.dead \/ Taken.pc = "hs")
        /\ c'.vers = Taken.vers /\ c'.step = Taken.step /\ c'.keys = Taken.keys
        /\ c'.handshakes = Taken.handshakes /\ c'.hand = Taken.hand /\ c'.taken = Taken.taken
    BY <1>6, <2>1, ReturnIs
  <2>6. c'.dead
    BY <1>1, <1>6, <2>2
  <2>7. /\ c'.vers = c.vers /\ c'.step = c.step /\ c'.keys = c.keys /\ c'.handshakes = c.handshakes
        /\ c'.hand = rest /\ c'.taken = t
    BY <1>6, <2>2
  <2>3. p.vers = 13
    BY <1>14 DEF changes
  <2>4. Proper(t, c.handshakes, p.vers)
    <3>1. /\ kind = "ServerHello" => c.keys = 0
          /\ kind \in {"EncryptedExtensions", "Finished"} => c.keys = 1
          /\ kind \notin PostHandshake(13)
      BY <1>4, <1>12, <1>14, <2>3 DEF PostHandshake
    <3> QED
      BY <1>7, <2>3, <3>1 DEF Proper
  <2>5. KeyType(c', p.vers) /\ Aligned(c', p.vers) /\ Acted(c', p.vers)
    BY <1>2, <2>2, <2>4, <2>6, <2>7 DEF KeyType, Aligned, Acted
  <2> QED
    BY <1>1, <2>5, <2>6, <2>7, MessageStep DEF rest
<1>15. CASE kind = Script(p.vers)[c.step] /\ ~(changes /\ ~MayChangeKeys(Taken)) /\ kind # "Finished"
  <2>1. c' = next
    BY <1>1, <1>15
  <2>2. /\ more \in Nat /\ more = (IF p.vers = 13 /\ c.step = 1 THEN c.keys + 1 ELSE c.keys)
    <3>1. changes <=> (p.vers = 13 /\ c.step = 1)
      BY <1>2, <1>4, <1>12, <1>15 DEF changes, KeyChanging
    <3> QED
      BY <1>2, <3>1 DEF more
  <2>3. KeyType(c', p.vers)
    BY <1>2, <1>9, <2>1, <2>2 DEF KeyType
  <2>4. Aligned(c', p.vers)
    <3>1. CASE p.vers = 13
      <4>1. c.step \in {1, 2}
        BY <1>4, <1>12, <1>15, <3>1
      <4>2. c'.step \in 2..3 /\ c'.keys = 1 /\ c'.handshakes = 0
        BY <1>4, <1>9, <2>1, <2>2, <3>1, <4>1
      <4> QED
        BY <1>1, <1>3, <1>9, <2>1, <3>1, <4>2 DEF Aligned
    <3>2. CASE p.vers = 12
      <4>1. c.step \in {1, 2}
        BY <1>12, <1>15, <3>2
      <4>2. c'.step \in 2..3 /\ c'.keys = c'.handshakes
        BY <1>2, <1>4, <1>9, <2>1, <2>2, <3>2, <4>1
      <4>3. c'.keys = c'.handshakes + (IF c'.step = 4 THEN 1 ELSE 0)
        BY <1>2, <1>9, <2>1, <4>2
      <4> QED
        BY <1>1, <1>3, <1>9, <2>1, <3>2, <4>2, <4>3 DEF Aligned
    <3> QED
      BY <1>2, <3>1, <3>2
  <2>5. Proper(t, c.handshakes, p.vers)
    <3>1. /\ p.vers = 13 /\ kind = "ServerHello" => c.keys = 0
          /\ p.vers = 13 /\ kind \in {"EncryptedExtensions", "Finished"} => c.keys = 1
          /\ p.vers = 13 => kind \notin PostHandshake(13)
      BY <1>4, <1>12, <1>15 DEF PostHandshake
    <3> QED
      BY <1>7, <1>15, <3>1 DEF Proper
  <2>6. Acted(c', p.vers)
    BY <1>9, <2>1, <2>5 DEF Acted
  <2>7. c'.keys = c.keys \/ c'.hand = <<>>
    BY <1>8, <1>9, <1>15, <2>1 DEF more
  <2>8. ASSUME NEW b \in Nat, Reached(c, b) PROVE Reached(c', b + 2)
    <3>1. b = 2 * (c.step - 1)
      BY <1>1, <2>8 DEF Reached
    <3>2. b + 2 = 2 * ((c.step + 1) - 1)
      BY <1>2, <3>1
    <3> QED
      BY <1>1, <1>9, <2>1, <3>2 DEF Reached
  <2> QED
    BY <1>1, <1>3, <1>9, <2>1, <2>3, <2>4, <2>6, <2>7, <2>8, MessageStep DEF rest
<1>16. CASE kind = Script(p.vers)[c.step] /\ ~(changes /\ ~MayChangeKeys(Taken)) /\ kind = "Finished"
  <2>1. c' = idle \/ c' = Loop(done)
    BY <1>1, <1>16
  <2>2. /\ c'.pc \in {"idle", "read", "post"} /\ c'.dead = c.dead /\ c'.vers = p.vers /\ c'.step = c.step + 1 /\ c'.keys = more
        /\ c'.handshakes = c.handshakes + 1 /\ c'.hand = rest /\ c'.taken = t /\ c'.inErr = c.inErr
    <3>1. CASE c' = idle
      BY <1>11, <3>1
    <3>2. CASE c' = Loop(done)
      BY <1>10, <3>2, LoopIs
    <3> QED
      BY <2>1, <3>1, <3>2
  <2>3. more \in Nat /\ more = (IF p.vers = 13 THEN c.keys + 1 ELSE c.keys)
    BY <1>2, <1>16 DEF more, changes, KeyChanging
  <2>4. KeyType(c', p.vers)
    BY <1>2, <2>2, <2>3 DEF KeyType
  <2>5. /\ p.vers = 13 => c.step = 3 /\ c.keys = 1 /\ c'.keys = 2
        /\ p.vers = 12 => c.step = 4 /\ c.keys = c'.handshakes /\ c'.keys = c'.handshakes
    BY <1>2, <1>4, <1>12, <1>16, <2>2, <2>3
  <2>6. Aligned(c', p.vers)
    BY <1>2, <1>3, <2>2, <2>5 DEF Aligned
  <2>7. Proper(t, c'.handshakes, p.vers)
    <3>1. kind = "Finished" /\ kind \notin PostHandshake(13)
      BY <1>16 DEF PostHandshake
    <3> QED
      BY <1>2, <1>7, <2>5, <3>1 DEF Proper
  <2>8. Acted(c', p.vers)
    BY <2>2, <2>7 DEF Acted
  <2>9. c'.keys = c.keys \/ c'.hand = <<>>
    BY <1>8, <1>16, <2>2 DEF more
  <2>10. ASSUME p.vers = 13, NEW b \in Nat, Reached(c, b) PROVE Reached(c', b + 2)
    <3>1. b = 2 * (c.step - 1) /\ c.step = 3
      BY <1>1, <2>5, <2>10 DEF Reached
    <3>2. b + 2 >= 6
      BY <3>1
    <3> QED
      BY <2>2, <3>2 DEF Reached
  <2> QED
    BY <1>1, <1>3, <2>2, <2>4, <2>6, <2>8, <2>9, <2>10, MessageStep DEF rest
<1> QED
  BY <1>13, <1>14, <1>15, <1>16

LEMMA KeysPost13 == ASSUME KeyInv, DataInv, PostMessage13 PROVE KeyInv'
<1> DEFINE kind == c.hand[1].kind
           d == [Taken EXCEPT !.retryCount = @ + 1]
           e == [d EXCEPT !.keys = @ + 1]
           rest == SubSeq(c.hand, 3, Len(c.hand))
           t == [kind |-> kind, at |-> c.keys, keys |-> {c.keys}]
<1>1. /\ c.pc = "post" /\ c.vers = 13 /\ Len(c.hand) >= 2 /\ Rests
      /\ \/ c' = Fail(d, "ignored") \/ c' = Loop(d)
         \/ c' = Loop(e) /\ MayChangeKeys(d)
         \/ c' = Return(d, "keychange") \/ c' = Return(d, "unexpected")
  BY DEF PostMessage13, Rests
<1>2. /\ p.vers \in {12, 13} /\ c.vers \in {0, p.vers} /\ c.step \in Nat /\ c.keys \in Nat /\ c.handshakes \in Nat
      /\ Aligned(c, p.vers) /\ IsConn(c)
  BY DEF KeyInv, Keyed, KeyType, DataInv
<1>3. p.vers = 13 /\ ~c.dead /\ c.inErr = "none" /\ c.keys >= 2
  <2>1. p.vers = 13
    BY <1>1, <1>2
  <2> QED
    BY <1>1, <1>2, <2>1 DEF Aligned
<1>4. [kind |-> kind, at |-> c.keys, keys |-> {c.hand[1].keys, c.hand[2].keys}] = t /\ kind \in PostHandshake(13)
  BY <1>1, <1>3, FirstMessage
<1>5. /\ IsConn(Taken) /\ Taken.hand = rest /\ Taken.taken = t /\ Taken.last = c.last /\ Taken.dead = c.dead
      /\ Taken.vers = c.vers /\ Taken.step = c.step /\ Taken.keys = c.keys /\ Taken.pc = c.pc
      /\ Taken.handshakes = c.handshakes /\ Taken.inErr = c.inErr
  BY <1>2, <1>4, TakenIs
<1>6. t.kind = kind /\ t.at = c.keys /\ t.keys = {c.keys}
  OBVIOUS
<1> HIDE DEF kind, rest, t
<1>7. /\ IsConn(d) /\ d.hand = rest /\ d.taken = t /\ d.last = c.last /\ d.dead = c.dead
      /\ d.vers = c.vers /\ d.step = c.step /\ d.keys = c.keys /\ d.pc = c.pc
      /\ d.handshakes = c.handshakes /\ d.inErr = c.inErr
  BY <1>5 DEF IsConn
<1> HIDE DEF d
<1>8. /\ IsConn(e) /\ e.hand = rest /\ e.taken = t /\ e.last = c.last /\ e.dead = c.dead
      /\ e.vers = c.vers /\ e.step = c.step /\ e.keys = c.keys + 1 /\ e.pc = c.pc
      /\ e.handshakes = c.handshakes /\ e.inErr = c.inErr
  BY <1>7 DEF IsConn
<1> HIDE DEF e
<1>9. /\ c'.pc \in {"idle", "read", "post"} /\ ~c'.dead /\ c'.vers = 13 /\ c'.step = c.step
      /\ c'.handshakes = c.handshakes /\ c'.hand = rest /\ c'.taken = t /\ (c'.pc = "post" => c'.inErr = "none")
      /\ (c'.keys = c.keys \/ (c'.keys = c.keys + 1 /\ rest = <<>>))
  <2>1. CASE c' = Fail(d, "ignored")
    <3>1. /\ c'.pc = "idle" /\ c'.dead = (d.dead \/ d.pc = "hs") /\ c'.vers = d.vers /\ c'.step = d.step
          /\ c'.keys = d.keys /\ c'.handshakes = d.handshakes /\ c'.hand = d.hand /\ c'.taken = d.taken
      BY <1>7, <2>1, FailIs
    <3>2. ~c'.dead
      BY <1>1, <1>3, <1>7, <3>1
    <3> QED
      BY <1>1, <1>7, <3>1, <3>2
  <2>2. CASE c' = Loop(d)
    BY <1>1, <1>3, <1>7, <2>2, LoopIs
  <2>3. CASE c' = Loop(e) /\ MayChangeKeys(d)
    <3>1. rest = <<>>
      BY <1>7, <2>3 DEF MayChangeKeys
    <3> QED
      BY <1>1, <1>3, <1>8, <2>3, <3>1, LoopIs
  <2>4. CASE c' = Return(d, "keychange") \/ c' = Return(d, "unexpected")
    <3>1. /\ c'.pc = "idle" /\ c'.dead = (d.dead \/ d.pc = "hs") /\ c'.vers = d.vers /\ c'.step = d.step
          /\ c'.keys = d.keys /\ c'.handshakes = d.handshakes /\ c'.hand = d.hand /\ c'.taken = d.taken
      BY <1>7, <2>4, ReturnIs
    <3>2. ~c'.dead
      BY <1>1, <1>3, <1>7, <3>1
    <3> QED
      BY <1>1, <1>7, <3>1, <3>2
  <2> QED
    BY <1>1, <2>1, <2>2, <2>3, <2>4
<1>10. KeyType(c', p.vers)
  BY <1>2, <1>3, <1>9 DEF KeyType
<1>11. c'.keys >= 2
  BY <1>2, <1>3, <1>9
<1>12. Aligned(c', p.vers)
  BY <1>3, <1>9, <1>11 DEF Aligned
<1>13. Proper(t, c'.handshakes, p.vers)
  <2>1. kind \notin {"ServerHello", "EncryptedExtensions", "Finished"}
    BY <1>4 DEF PostHandshake
  <2> QED
    BY <1>3, <1>6, <2>1 DEF Proper
<1>14. Acted(c', p.vers)
  BY <1>9, <1>13 DEF Acted
<1>15. ASSUME NEW b \in Nat, Reached(c, b) PROVE Reached(c', b + 2)
  BY <1>1, <1>9, <1>15 DEF Reached
<1> QED
  BY <1>1, <1>3, <1>9, <1>10, <1>12, <1>14, <1>15, MessageStep DEF rest

LEMMA KeysPost12 == ASSUME KeyInv, DataInv, PostMessage12 PROVE KeyInv'
<1> DEFINE kind == c.hand[1].kind
           d == [Taken EXCEPT !.complete = FALSE, !.step = 1, !.pc = "hs", !.hellos = @ + 1]
           rest == SubSeq(c.hand, 3, Len(c.hand))
           t == [kind |-> kind, at |-> c.keys, keys |-> {c.keys}]
<1>1. /\ c.pc = "post" /\ c.vers = 12 /\ Len(c.hand) >= 2 /\ Rests
      /\ c' \in {Return(Taken, "unexpected"), Return(Taken, "noreneg"), d}
  BY DEF PostMessage12, Rests
<1>2. /\ p.vers \in {12, 13} /\ c.vers \in {0, p.vers} /\ c.step \in Nat /\ c.keys \in Nat /\ c.handshakes \in Nat
      /\ Aligned(c, p.vers) /\ IsConn(c)
  BY DEF KeyInv, Keyed, KeyType, DataInv
<1>3. p.vers = 12 /\ ~c.dead /\ c.inErr = "none" /\ c.keys = c.handshakes
  <2>1. p.vers = 12
    BY <1>1, <1>2
  <2> QED
    BY <1>1, <1>2, <2>1 DEF Aligned
<1>4. [kind |-> kind, at |-> c.keys, keys |-> {c.hand[1].keys, c.hand[2].keys}] = t
  BY <1>1, <1>3, FirstMessage
<1>5. /\ IsConn(Taken) /\ Taken.hand = rest /\ Taken.taken = t /\ Taken.last = c.last /\ Taken.dead = c.dead
      /\ Taken.vers = c.vers /\ Taken.step = c.step /\ Taken.keys = c.keys /\ Taken.pc = c.pc
      /\ Taken.handshakes = c.handshakes /\ Taken.inErr = c.inErr
  BY <1>2, <1>4, TakenIs
<1>6. t.kind = kind /\ t.at = c.keys /\ t.keys = {c.keys}
  OBVIOUS
<1> HIDE DEF kind, rest, t
<1>7. /\ d.hand = rest /\ d.taken = t /\ d.last = c.last /\ d.dead = c.dead
      /\ d.vers = c.vers /\ d.step = 1 /\ d.keys = c.keys /\ d.pc = "hs"
      /\ d.handshakes = c.handshakes /\ d.inErr = c.inErr
  BY <1>5 DEF IsConn
<1> HIDE DEF d
<1>9. /\ c'.pc \in {"idle", "hs"} /\ (c'.pc = "hs" => c'.step = 1) /\ ~c'.dead /\ c'.vers = 12 /\ c'.step \in {1, c.step}
      /\ c'.handshakes = c.handshakes /\ c'.hand = rest /\ c'.taken = t /\ c'.inErr = "none" /\ c'.keys = c.keys
  <2>1. CASE c' = d
    BY <1>1, <1>3, <1>7, <2>1
  <2>2. CASE c' = Return(Taken, "unexpected") \/ c' = Return(Taken, "noreneg")
    <3>1. /\ c'.pc = "idle" /\ c'.dead = (Taken.dead \/ Taken.pc = "hs")
          /\ c'.vers = Taken.vers /\ c'.step = Taken.step /\ c'.keys = Taken.keys /\ c'.inErr = Taken.inErr
          /\ c'.handshakes = Taken.handshakes /\ c'.hand = Taken.hand /\ c'.taken = Taken.taken
      BY <1>5, <2>2, ReturnIs
    <3>2. ~c'.dead
      BY <1>1, <1>3, <1>5, <3>1
    <3> QED
      BY <1>1, <1>3, <1>5, <3>1, <3>2
  <2> QED
    BY <1>1, <2>1, <2>2
<1>10. KeyType(c', p.vers)
  BY <1>2, <1>3, <1>9 DEF KeyType
<1>11. c'.keys = c'.handshakes + 0
  BY <1>2, <1>3, <1>9
<1>12. Aligned(c', p.vers)
  BY <1>3, <1>9, <1>11 DEF Aligned
<1>13. Proper(t, c'.handshakes, p.vers)
  BY <1>3, <1>6, <1>9 DEF Proper
<1>14. Acted(c', p.vers)
  BY <1>9, <1>13 DEF Acted
<1> QED
  BY <1>1, <1>3, <1>9, <1>10, <1>12, <1>14, MessageStep DEF rest

(* The peer's records continue the order. *)
LEMMA OrderEmit ==
  ASSUME KeyInv, DataInv, NEW typ, NEW data, Emit(typ, data), UNCHANGED <<raw, c>>, p'.vers = p.vers,
         [typ |-> typ, keys |-> p.keys, data |-> data] \in Recs,
         \A m \in Nat : p.vers = 13 /\ Places(p, m) =>
            /\ typ = "handshake" => Follows(data, m)
            /\ Places(p', m + Count([typ |-> typ, keys |-> p.keys, data |-> data]))
  PROVE  KeyInv'
<1> DEFINE r == [typ |-> typ, keys |-> p.keys, data |-> data]
<1>0. r \in Recs /\ r.typ = typ /\ r.data = data
  OBVIOUS
<1>1. Keyed(c, p.vers) /\ OrderInv /\ FlightType /\ c' = c
  BY DEF KeyInv, DataInv
<1>2. ASSUME p.vers = 13, c.inErr = "none", ~c.dead
      PROVE  \E b, m \in Nat : /\ Reached(c, b) /\ Held(c.hand, b) /\ Places(p', m)
                               /\ Path(InFlight', b + Len(c.hand), m, HalfSteps)
  <2>1. PICK b, m \in Nat : /\ Reached(c, b) /\ Held(c.hand, b) /\ Places(p, m)
                            /\ Path(InFlight, b + Len(c.hand), m, HalfSteps)
    BY <1>1, <1>2 DEF OrderInv
  <2>2. (r.typ = "handshake" => Follows(r.data, m)) /\ Places(p', m + Count(r))
    BY <1>0, <1>2, <2>1
  <2>3. <<m, r, m + Count(r)>> \in HalfSteps
    BY <1>0, <2>2, HalfStep
  <2>4. Path(InFlight', b + Len(c.hand), m + Count(r), HalfSteps)
    BY <1>0, <1>1, <2>1, <2>3, EmitPath
  <2>5. m + Count(r) \in Nat
    BY <1>0, CountIs
  <2> HIDE DEF r
  <2> QED
    BY <2>1, <2>2, <2>4, <2>5
<1>3. OrderInv'
  BY <1>1, <1>2 DEF OrderInv
<1>4. Keyed(c, p.vers)'
  BY <1>1
<1> QED
  BY <1>3, <1>4 DEF KeyInv

LEMMA QueuedPlaces ==
  ASSUME PeerType(p), p.vers = 13, NEW q, Queued(q), NEW m \in Nat, Places(p, m)
  PROVE  Places(q, m)
<1>1. CASE q = p
  BY <1>1
<1>2. ASSUME NEW k1 \in NextKinds(p) PROVE Places(Queue(p, k1), m) /\ PeerType(Queue(p, k1)) /\ Queue(p, k1).vers = 13
  <2>1. Queued(Queue(p, k1))
    BY <1>2 DEF Queued
  <2>2. PeerType(Queue(p, k1)) /\ Queue(p, k1).vers = p.vers
    BY <2>1, QueuedIs
  <2>3. Places(Queue(p, k1), m)
    BY <1>2, QueuePlaces
  <2> QED
    BY <2>2, <2>3
<1>3. ASSUME NEW k1 \in NextKinds(p), NEW k2 \in NextKinds(Queue(p, k1)) PROVE Places(Queue(Queue(p, k1), k2), m)
  <2>1. PICK u : u = Queue(p, k1)
    OBVIOUS
  <2>2. Places(u, m) /\ PeerType(u) /\ u.vers = 13 /\ k2 \in NextKinds(u)
    BY <1>2, <2>1
  <2>3. Places(Queue(u, k2), m)
    BY <2>2, QueuePlaces
  <2> QED
    BY <2>1, <2>3
<1> QED
  BY <1>1, <1>2, <1>3 DEF Queued

LEMMA KeysPeer == ASSUME KeyInv, DataInv, PeerType(p), Peer PROVE KeyInv'
<1>0. p.keys \in Nat /\ FlightType
  BY DEF PeerType, DataInv
<1>1. ASSUME NEW q, Queued(q), NEW back \in 0..1, NEW early \in BOOLEAN, PeerHandshake(q, back, early)
      PROVE  KeyInv'
  <2> DEFINE data == SubSeq(q.pend, 1, Len(q.pend) - back)
             r == [typ |-> "handshake", keys |-> p.keys, data |-> data]
  <2>1. PeerType(q) /\ q.vers = p.vers
    BY <1>1, QueuedIs
  <2>2. data \in Seq(Kinds) /\ Emit("handshake", data) /\ UNCHANGED <<raw, c>> /\ p'.vers = p.vers
    BY <1>1, <2>1, HandshakeSent
  <2>3. ASSUME NEW m \in Nat, p.vers = 13, Places(p, m)
        PROVE  Follows(data, m) /\ Places(p', m + Len(data))
    <3>1. Places(q, m)
      BY <1>1, <2>3, QueuedPlaces
    <3> QED
      BY <1>1, <2>1, <3>1, SendPlaces
  <2> HIDE DEF data
  <2>4. r \in Recs
    BY <1>0, <2>2 DEF Recs, RecType, Rec
  <2>5. Count(r) = Len(data)
    BY DEF Count
  <2> QED
    BY <2>2, <2>3, <2>4, <2>5, OrderEmit
<1>2. ASSUME NEW typ \in {"data", "alert", "ccs"}, Another(typ) PROVE KeyInv'
  <2>1. PICK data : Emit(typ, data) /\ [typ |-> typ, keys |-> p.keys, data |-> data] \in Recs
    BY <1>2 DEF Another
  <2>2. /\ UNCHANGED <<raw, c>> /\ p'.vers = p.vers /\ p'.pend = p.pend /\ (p.vers = 13 => p'.step = p.step)
    BY <1>2 DEF Another
  <2> DEFINE r == [typ |-> typ, keys |-> p.keys, data |-> data]
  <2>3. Count(r) = 0
    <3>1. r.typ = typ
      OBVIOUS
    <3> HIDE DEF r
    <3> QED
      BY <3>1 DEF Count
  <2>4. ASSUME NEW m \in Nat, p.vers = 13, Places(p, m) PROVE Places(p', m + Count(r))
    <3>1. m + Count(r) = m
      BY <2>3
    <3> QED
      BY <2>2, <2>4, <3>1 DEF Places
  <2> QED
    BY <2>1, <2>2, <2>4, OrderEmit
<1>3. ASSUME PeerCut PROVE KeyInv'
  <2>1. UNCHANGED <<wire, raw, c>> /\ p'.vers = p.vers /\ p'.pend = p.pend /\ p'.step = p.step
    BY <1>3, CutIs
  <2>2. InFlight' = InFlight /\ c' = c
    BY <2>1 DEF InFlight
  <2>3. \A m : Places(p', m) = Places(p, m)
    BY <2>1 DEF Places
  <2>4. OrderInv'
    BY <2>1, <2>2, <2>3 DEF OrderInv, KeyInv
  <2>5. Keyed(c', p'.vers)
    BY <2>1, <2>2 DEF KeyInv
  <2> QED
    BY <2>4, <2>5 DEF KeyInv
<1> QED
  BY <1>1, <1>2, <1>3, PeerSteps

LEMMA KeyStep == ASSUME KeyInv, DataInv, PeerType(p), [Next]_vars PROVE KeyInv'
<1>1. CASE Peer
  BY <1>1, KeysPeer
<1>2. CASE Reader \/ ReadTimeout
  BY <1>2, KeysRefuse, KeysDrop, KeysTake, KeysRefused, KeysEOF, KeysTimeout, KeysHandshake,
     KeysPost13, KeysPost12, KeysStart, KeysBytes DEF Reader
<1>3. CASE UNCHANGED vars
  <2>1. UNCHANGED <<p, wire, raw, c>>
    BY <1>3 DEF vars
  <2>2. InFlight' = InFlight
    BY <2>1 DEF InFlight
  <2> QED
    BY <2>1, <2>2 DEF KeyInv, OrderInv
<1> QED
  BY <1>1, <1>2, <1>3 DEF Next

LEMMA KeyInit == ASSUME Init PROVE KeyInv
<1>1. wire = <<>> /\ raw = <<>>
  BY DEF Init
<1>2. PICK v \in Versions, policy \in Policies :
         /\ p = [vers |-> v, keys |-> 0, step |-> 1, pend |-> <<>>, due |-> FALSE,
                 rounds |-> 0, asked |-> FALSE, post |-> 0, useless |-> 0, bytes |-> 0,
                 records |-> 0, errors |-> 0, closed |-> FALSE, legal |-> TRUE]
         /\ c = [policy |-> policy, vers |-> 0, pc |-> "hs", step |-> 1, keys |-> 0,
                 hand |-> <<>>, input |-> <<>>, retryCount |-> 0, complete |-> FALSE,
                 handshakes |-> 0, hellos |-> 1, inErr |-> "none", dead |-> FALSE,
                 held |-> <<>>, got |-> <<>>, last |-> "none",
                 taken |-> [kind |-> "none", at |-> 0, keys |-> {0}]]
  BY DEF Init
<1>3. /\ c.vers = 0 /\ c.pc = "hs" /\ c.step = 1 /\ c.keys = 0 /\ c.hand = <<>> /\ c.handshakes = 0
      /\ c.inErr = "none" /\ c.dead = FALSE /\ c.taken.kind = "none"
  BY <1>2
<1>4. p.vers \in {12, 13} /\ p.step = 1 /\ p.pend = <<>>
  BY <1>2, RecordsAssumption
<1>5. KeyType(c, p.vers) /\ Aligned(c, p.vers) /\ Acted(c, p.vers)
  BY <1>3, <1>4 DEF KeyType, Aligned, Acted
<1>6. HandType(c) /\ Held(c.hand, 0) /\ Len(c.hand) = 0
  BY <1>3, HeldEmpty, EmptySeq DEF HandType
<1>7. Keyed(c, p.vers)
  BY <1>5, <1>6 DEF Keyed
<1>8. InFlight = <<>>
  BY <1>1, EmptySeq, ConcatEmptySeq DEF InFlight
<1>9. Path(InFlight, 0 + Len(c.hand), 0, HalfSteps)
  BY <1>6, <1>8, PathEmpty
<1>10. Places(p, 0) /\ Reached(c, 0)
  BY <1>3, <1>4 DEF Places, Reached, Follows
<1> QED
  BY <1>6, <1>7, <1>9, <1>10 DEF KeyInv, OrderInv

LEMMA KeysHold == ASSUME KeyInv PROVE MessageKeys
<1>1. Acted(c, p.vers)
  BY DEF KeyInv, Keyed
<1> QED
  BY <1>1 DEF Acted, Proper, MessageKeys

-----------------------------------------------------------------------------
(* The bytes that were returned, held and left in c.input, and behind them     *)
(* those of the records under way, are the bytes the peer has sent, in its     *)
(* order, for every value of the constants.                                    *)
THEOREM BytesInvariant == Spec => [](DataInv /\ PeerType(p))
<1>1. Init => DataInv /\ PeerType(p)
  BY DataInit
<1>2. (DataInv /\ PeerType(p)) /\ [Next]_vars => (DataInv /\ PeerType(p))'
  BY DataStep
<1> QED
  BY <1>1, <1>2, PTL DEF Spec

(* Read returns the peer's bytes in order and without a gap, and an EOF only   *)
(* with or after the last of them (Conn.Read, readRecordOrCCS, c.input).       *)
THEOREM DataStaysFaithful == Spec => []DataFaithful
<1>1. DataInv /\ PeerType(p) => DataFaithful
  BY DataHolds
<1> QED
  BY <1>1, BytesInvariant, PTL

(* c.hand never holds halves of two key epochs, the keys in force are those of *)
(* the step the handshake has reached, and the messages of TLS 1.3 come in     *)
(* their order (setReadTrafficSecret, changeCipherSpec, readHandshake).        *)
THEOREM KeyInvariant == Spec => []KeyInv
<1>1. Init => KeyInv
  BY KeyInit
<1>2. KeyInv /\ (DataInv /\ PeerType(p)) /\ [Next]_vars => KeyInv'
  BY KeyStep
<1> QED
  BY <1>1, <1>2, BytesInvariant, PTL DEF Spec

(* Every handshake message the client acts on was protected, both halves of    *)
(* it, with the keys its kind belongs to, wherever the peer's records end      *)
(* (setReadTrafficSecret and readRecordOrCCS on c.hand).                       *)
THEOREM MessagesKeepTheirKeys == Spec => []MessageKeys
<1>1. KeyInv => MessageKeys
  BY KeysHold
<1> QED
  BY <1>1, KeyInvariant, PTL

-----------------------------------------------------------------------------
(* A peer that keeps to the protocol is never refused.                         *)

(* More steps allow no fewer paths. *)
LEMMA PathMore ==
  ASSUME NEW rs, NEW s, NEW e, NEW R, NEW S, R \subseteq S, Path(rs, s, e, R)
  PROVE  Path(rs, s, e, S)
<1>1. PICK at : DOMAIN at = 1..Len(rs)+1 /\ at[1] = s /\ at[Len(rs)+1] = e /\ Chain(rs, at, R)
  BY DEF Path
<1>2. Chain(rs, at, S)
  BY <1>1 DEF Chain
<1> QED
  BY <1>1, <1>2 DEF Path

(* A path over one sequence and then over another. *)
LEMMA PathJoins ==
  ASSUME NEW u, NEW s, NEW t, Joins(u, s, t), Len(s) \in Nat, Len(t) \in Nat,
         NEW a, NEW b, NEW d, NEW R, Path(s, a, b, R), Path(t, b, d, R)
  PROVE  Path(u, a, d, R)
<1>1. PICK x : DOMAIN x = 1..Len(s)+1 /\ x[1] = a /\ x[Len(s)+1] = b /\ Chain(s, x, R)
  BY DEF Path
<1>2. PICK y : DOMAIN y = 1..Len(t)+1 /\ y[1] = b /\ y[Len(t)+1] = d /\ Chain(t, y, R)
  BY DEF Path
<1> DEFINE n == Len(s)
           m == Len(t)
           z == [i \in 1..n+m+1 |-> IF i <= n + 1 THEN x[i] ELSE y[i - n]]
<1>3. /\ DOMAIN z = 1..n+m+1
      /\ \A i \in 1..n+1 : z[i] = x[i]
      /\ \A j \in 2..m+1 : z[n + j] = y[j]
  OBVIOUS
<1>4. z[n + 1] = y[1]
  BY <1>1, <1>2, <1>3
<1> HIDE DEF z
<1>5. Len(u) = n + m
  BY DEF Joins
<1>6. \A j \in 1..m+1 : z[n + j] = y[j]
  BY <1>3, <1>4
<1>7. ASSUME NEW i \in 1..n PROVE <<z[i], u[i], z[i+1]>> \in R
  <2>1. <<x[i], s[i], x[i+1]>> \in R
    BY <1>1 DEF Chain
  <2>2. z[i] = x[i] /\ z[i+1] = x[i+1]
    BY <1>3
  <2>3. u[i] = s[i]
    BY DEF Joins
  <2> QED
    BY <2>1, <2>2, <2>3
<1>8. ASSUME NEW j \in 1..m PROVE <<z[n+j], u[n+j], z[(n+j)+1]>> \in R
  <2>1. <<y[j], t[j], y[j+1]>> \in R
    BY <1>2 DEF Chain
  <2>2. z[n+j] = y[j] /\ z[n+(j+1)] = y[j+1] /\ n+(j+1) = (n+j)+1
    BY <1>6
  <2>3. u[n+j] = t[j]
    BY DEF Joins
  <2> QED
    BY <2>1, <2>2, <2>3
<1>9. ASSUME NEW i \in 1..n+m PROVE <<z[i], u[i], z[i+1]>> \in R
  <2>1. CASE i \in 1..n
    BY <1>7, <2>1
  <2>2. CASE i \notin 1..n
    <3>1. i - n \in 1..m /\ n + (i - n) = i
      BY <2>2
    <3> QED
      BY <1>8, <3>1
  <2> QED
    BY <2>1, <2>2
<1>10. Chain(u, z, R)
  BY <1>5, <1>9 DEF Chain
<1>11. DOMAIN z = 1..Len(u)+1 /\ z[1] = a /\ z[Len(u)+1] = d
  <2>1. z[1] = a
    BY <1>1, <1>3
  <2>2. z[n + (m + 1)] = d /\ n + (m + 1) = Len(u) + 1
    BY <1>2, <1>5, <1>6
  <2> QED
    BY <1>3, <1>5, <2>1, <2>2
<1> QED
  BY <1>10, <1>11 DEF Path

(* A path can be cut anywhere. *)
LEMMA PathCut ==
  ASSUME NEW u, NEW s, NEW t, Joins(u, s, t), Len(s) \in Nat, Len(t) \in Nat,
         NEW a, NEW d, NEW R, Path(u, a, d, R)
  PROVE  \E b : Path(s, a, b, R) /\ Path(t, b, d, R)
<1> DEFINE n == Len(s)
           m == Len(t)
<1>1. Len(u) = n + m
  BY DEF Joins
<1>2. PICK z : DOMAIN z = 1..n+m+1 /\ z[1] = a /\ z[n+m+1] = d /\ Chain(u, z, R)
  BY <1>1 DEF Path
<1> DEFINE x == [i \in 1..n+1 |-> z[i]]
           y == [j \in 1..m+1 |-> z[n+j]]
<1>3. DOMAIN x = 1..n+1 /\ DOMAIN y = 1..m+1 /\ (\A i \in 1..n+1 : x[i] = z[i]) /\ \A j \in 1..m+1 : y[j] = z[n+j]
  OBVIOUS
<1> HIDE DEF x, y
<1>4. ASSUME NEW i \in 1..n PROVE <<x[i], s[i], x[i+1]>> \in R
  <2>1. <<z[i], u[i], z[i+1]>> \in R
    BY <1>1, <1>2 DEF Chain
  <2>2. x[i] = z[i] /\ x[i+1] = z[i+1] /\ u[i] = s[i]
    BY <1>3 DEF Joins
  <2> QED
    BY <2>1, <2>2
<1>5. ASSUME NEW j \in 1..m PROVE <<y[j], t[j], y[j+1]>> \in R
  <2>0. n + j \in 1..n+m
    OBVIOUS
  <2>1. <<z[n+j], u[n+j], z[(n+j)+1]>> \in R
    BY <1>1, <1>2, <2>0 DEF Chain
  <2>2. y[j] = z[n+j] /\ y[j+1] = z[n+(j+1)] /\ n+(j+1) = (n+j)+1
    BY <1>3
  <2>3. u[n+j] = t[j]
    BY DEF Joins
  <2> QED
    BY <2>1, <2>2, <2>3
<1>6. Path(s, a, x[n+1], R)
  <2>1. Chain(s, x, R)
    BY <1>4 DEF Chain
  <2>2. x[1] = a
    BY <1>2, <1>3
  <2> QED
    BY <1>3, <2>1, <2>2 DEF Path
<1>7. Path(t, x[n+1], d, R)
  <2>1. Chain(t, y, R)
    BY <1>5 DEF Chain
  <2>2. y[1] = x[n+1] /\ y[m+1] = d
    <3>1. y[1] = z[n+1] /\ x[n+1] = z[n+1] /\ y[m+1] = z[n+(m+1)] /\ n+(m+1) = n+m+1
      BY <1>3
    <3> QED
      BY <1>2, <3>1
  <2> QED
    BY <1>3, <2>1, <2>2 DEF Path
<1> QED
  BY <1>6, <1>7

(* The first two steps of a path, and what follows. *)
LEMMA PathTwo ==
  ASSUME NEW T, NEW u \in Seq(T), Len(u) >= 2, NEW a, NEW d, NEW R, Path(u, a, d, R)
  PROVE  \E x, b : <<a, u[1], x>> \in R /\ <<x, u[2], b>> \in R /\ Path(SubSeq(u, 3, Len(u)), b, d, R)
<1>1. Len(u) \in Nat
  BY LenProperties
<1>2. PICK s : s = SubSeq(u, 1, 2)
  OBVIOUS
<1>3. PICK t : t = SubSeq(u, 3, Len(u))
  OBVIOUS
<1>4. \A i \in 1..Len(u) : u[i] \in T
  BY ElementOfSeq
<1>5. Len(s) = 2 /\ s[1] = u[1] /\ s[2] = u[2]
  BY <1>1, <1>2, <1>4, SubSeqProperties
<1>6. Len(t) = Len(u) - 2 /\ \A j \in 1..Len(u) - 2 : t[j] = u[2 + j]
  <2>1. \A i \in 3..Len(u) : u[i] \in T
    BY <1>1, <1>4
  <2>2. Len(t) = (IF 3 <= Len(u) THEN Len(u) - 3 + 1 ELSE 0) /\ \A i \in 1..Len(u) - 3 + 1 : t[i] = u[3 + i - 1]
    BY <1>1, <1>3, <2>1, SubSeqProperties
  <2>3. Len(t) = Len(u) - 2
    <3>1. PICK n \in Nat : n = Len(u)
      BY <1>1
    <3>2. n >= 2 /\ Len(t) = IF 3 <= n THEN n - 3 + 1 ELSE 0
      BY <2>2, <3>1
    <3> QED
      BY <3>1, <3>2
  <2>4. ASSUME NEW j \in 1..Len(u) - 2 PROVE t[j] = u[2 + j]
    <3>1. j \in 1..Len(u) - 3 + 1 /\ 3 + j - 1 = 2 + j
      BY <1>1
    <3> QED
      BY <2>2, <3>1
  <2> QED
    BY <2>3, <2>4
<1>7. Joins(u, s, t)
  <2>1. \A i \in 1..Len(s) : u[i] = s[i]
    BY <1>5
  <2> QED
    BY <1>1, <1>5, <1>6, <2>1 DEF Joins
<1>8. PICK b : Path(s, a, b, R) /\ Path(t, b, d, R)
  BY <1>1, <1>5, <1>6, <1>7, PathCut
<1>9. PICK at : at[1] = a /\ at[3] = b /\ Chain(s, at, R)
  BY <1>5, <1>8 DEF Path
<1>10. <<at[1], s[1], at[2]>> \in R /\ <<at[2], s[2], at[3]>> \in R
  BY <1>5, <1>9 DEF Chain
<1> QED
  BY <1>3, <1>5, <1>8, <1>9, <1>10

(* A path of one step. *)
LEMMA PathOne ==
  ASSUME NEW u, Len(u) = 1, NEW a, NEW b, NEW R
  PROVE  Path(u, a, b, R) <=> <<a, u[1], b>> \in R
<1>1. ASSUME Path(u, a, b, R) PROVE <<a, u[1], b>> \in R
  BY <1>1 DEF Path, Chain
<1>2. ASSUME <<a, u[1], b>> \in R PROVE Path(u, a, b, R)
  <2>1. PICK at : at = [i \in 1..2 |-> IF i = 1 THEN a ELSE b]
    OBVIOUS
  <2>2. DOMAIN at = 1..2 /\ at[1] = a /\ at[2] = b
    BY <2>1
  <2>3. Chain(u, at, R)
    BY <1>2, <2>2 DEF Chain
  <2> QED
    BY <2>2, <2>3 DEF Path
<1> QED
  BY <1>1, <1>2

-----------------------------------------------------------------------------
(* Where the messages stand: the step of the handshake, the kind of the        *)
(* message of which one half is sent, the handshakes answered, and the keys.   *)
Spot == [step : Nat, half : Kinds \cup {"none"}, rounds : Nat, keys : Nat]

(* The kinds that may come at a step, and the step behind one. *)
May(v, step) == IF step > Len(Script(v)) THEN PostHandshake(v) ELSE {Script(v)[step]} \ {"ccs"}
After(v, step, k) == IF k = "HelloRequest" THEN 1 ELSE IF k \in PostHandshake(v) THEN step ELSE step + 1

(* A half takes the messages from a to b, with n ClientHellos sent. *)
Begins(v, n, a, h, b) ==
    /\ a.half = "none" /\ h.kind \in May(v, a.step) /\ (h.kind = "ServerHello" => a.rounds < n)
    /\ b.half = h.kind /\ b.step = a.step /\ b.keys = a.keys
    /\ b.rounds = IF h.kind = "ServerHello" THEN a.rounds + 1 ELSE a.rounds
Completes(v, a, h, b) ==
    /\ a.half = h.kind /\ h.kind \in May(v, a.step)
    /\ b.half = "none" /\ b.step = After(v, a.step, h.kind) /\ b.rounds = a.rounds
    /\ b.keys = IF v = 13 /\ h.kind \in KeyChanging THEN a.keys + 1 ELSE a.keys
MsgSteps(v, n) ==
    {t \in Spot \X HalfType \X Spot :
        t[2].keys = t[1].keys /\ (Begins(v, n, t[1], t[2], t[3]) \/ Completes(v, t[1], t[2], t[3]))}

(* A record of a peer that keeps to the protocol, u and w being its count of   *)
(* useless records.  The messages of a record are under one key, so that a key *)
(* change ends its record; those behind the handshake of TLS 1.3 are counted.  *)
LegalHandshake(v, n, a, r, b, w) ==
    /\ r.typ = "handshake" /\ r.data # <<>> /\ r.keys = a.keys /\ Path(Halves(r), a, b, MsgSteps(v, n))
    /\ v = 13 /\ a.step > 3 => Len(r.data) + (IF a.half = "none" THEN 0 ELSE 1) <= 2 * w + 1
LegalData(v, a, u, r, b, w) ==
    /\ r.typ = "data" /\ a.half = "none" /\ a.step > Len(Script(v)) /\ r.keys = a.keys /\ b = a
    /\ w = IF r.data = <<>> THEN u + 1 ELSE 0
LegalAlert(v, a, u, r, b, w) ==
    /\ r.typ = "alert" /\ (v = 13 => a.half = "none") /\ r.keys = a.keys /\ b = a
    /\ w = IF r.data = "warning" THEN u + 1 ELSE u
LegalCCS(v, a, u, r, b, w) ==
    /\ r.typ = "ccs" /\ a.half = "none"
    /\ \/ v = 13 /\ a.step \in 2..3 /\ b = a /\ w = u + 1
       \/ /\ v = 12 /\ a.step = 3 /\ r.keys = a.keys /\ w = u
          /\ b.step = 4 /\ b.half = "none" /\ b.rounds = a.rounds /\ b.keys = a.keys + 1
LegalRecord(v, n, a, u, r, b, w) ==
    /\ w <= maxUselessRecords
    /\ \/ LegalHandshake(v, n, a, r, b, w) \/ LegalData(v, a, u, r, b, w)
       \/ LegalAlert(v, a, u, r, b, w) \/ LegalCCS(v, a, u, r, b, w)
RecSteps(v, n) ==
    {t \in (Spot \X Nat) \X Recs \X (Spot \X Nat) :
        LegalRecord(v, n, t[1][1], t[1][2], t[2], t[3][1], t[3][2])}

(* What it is to be a step over one half. *)
LEMMA MsgStepIs ==
  ASSUME NEW v, NEW n, NEW a, NEW h, NEW b
  PROVE  <<a, h, b>> \in MsgSteps(v, n) <=>
            /\ a \in Spot /\ b \in Spot /\ h \in HalfType /\ h.keys = a.keys
            /\ Begins(v, n, a, h, b) \/ Completes(v, a, h, b)
<1>1. <<a, h, b>> \in Spot \X HalfType \X Spot <=> a \in Spot /\ h \in HalfType /\ b \in Spot
  OBVIOUS
<1>2. PICK t : t = <<a, h, b>>
  OBVIOUS
<1>3. t[1] = a /\ t[2] = h /\ t[3] = b
  BY <1>2
<1>4. t \in MsgSteps(v, n) <=> /\ t \in Spot \X HalfType \X Spot
                               /\ t[2].keys = t[1].keys
                               /\ Begins(v, n, t[1], t[2], t[3]) \/ Completes(v, t[1], t[2], t[3])
  BY Zenon DEF MsgSteps
<1> QED
  BY <1>1, <1>2, <1>3, <1>4, Zenon

(* What a step over one record tells. *)
LEMMA RecStepIs ==
  ASSUME NEW v, NEW n, NEW a, NEW u, NEW r, NEW y
  PROVE  <<<<a, u>>, r, y>> \in RecSteps(v, n) =>
            /\ a \in Spot /\ u \in Nat /\ r \in Recs
            /\ \E b \in Spot, w \in Nat : y = <<b, w>> /\ LegalRecord(v, n, a, u, r, b, w)
<1> SUFFICES ASSUME <<<<a, u>>, r, y>> \in RecSteps(v, n)
             PROVE  /\ a \in Spot /\ u \in Nat /\ r \in Recs
                    /\ \E b \in Spot, w \in Nat : y = <<b, w>> /\ LegalRecord(v, n, a, u, r, b, w)
  OBVIOUS
<1>1. PICK t : t = <<<<a, u>>, r, y>>
  OBVIOUS
<1>2. t[1] = <<a, u>> /\ t[2] = r /\ t[3] = y /\ t[1][1] = a /\ t[1][2] = u
  BY <1>1
<1>3. t \in (Spot \X Nat) \X Recs \X (Spot \X Nat) /\ LegalRecord(v, n, t[1][1], t[1][2], t[2], t[3][1], t[3][2])
  BY <1>1, Zenon DEF RecSteps
<1>4. <<a, u>> \in Spot \X Nat /\ r \in Recs /\ y \in Spot \X Nat
  BY <1>1, <1>3
<1>5. a \in Spot /\ u \in Nat /\ y = <<y[1], y[2]>> /\ y[1] \in Spot /\ y[2] \in Nat
  BY <1>4
<1>6. LegalRecord(v, n, a, u, r, y[1], y[2])
  BY <1>2, <1>3, Zenon
<1> QED
  BY <1>4, <1>5, <1>6

(* A record of the protocol is a step. *)
LEMMA RecStep ==
  ASSUME NEW v, NEW n, NEW a \in Spot, NEW u \in Nat, NEW r \in Recs, NEW b \in Spot, NEW w \in Nat,
         LegalRecord(v, n, a, u, r, b, w)
  PROVE  <<<<a, u>>, r, <<b, w>>>> \in RecSteps(v, n)
<1>1. PICK t : t = <<<<a, u>>, r, <<b, w>>>>
  OBVIOUS
<1>2. t[1][1] = a /\ t[1][2] = u /\ t[2] = r /\ t[3][1] = b /\ t[3][2] = w
  BY <1>1
<1>3. t \in (Spot \X Nat) \X Recs \X (Spot \X Nat)
  BY <1>1
<1>4. LegalRecord(v, n, t[1][1], t[1][2], t[2], t[3][1], t[3][2])
  BY <1>2, Zenon
<1>5. t \in RecSteps(v, n)
  BY <1>3, <1>4, Zenon DEF RecSteps
<1> QED
  BY <1>1, <1>5, Zenon

(* A further ClientHello allows no less. *)
LEMMA MsgStepsMore ==
  ASSUME NEW v, NEW n \in Nat
  PROVE  MsgSteps(v, n) \subseteq MsgSteps(v, n + 1)
<1>1. ASSUME NEW t \in MsgSteps(v, n) PROVE t \in MsgSteps(v, n + 1)
  <2>1. PICK a, h, b : t = <<a, h, b>>
    BY <1>1 DEF MsgSteps
  <2>2. /\ a \in Spot /\ b \in Spot /\ h \in HalfType /\ h.keys = a.keys
        /\ Begins(v, n, a, h, b) \/ Completes(v, a, h, b)
    BY <1>1, <2>1, MsgStepIs
  <2>3. a.rounds \in Nat
    BY <2>2 DEF Spot
  <2>4. Begins(v, n, a, h, b) => Begins(v, n + 1, a, h, b)
    BY <2>3 DEF Begins
  <2> QED
    BY <2>1, <2>2, <2>4, MsgStepIs
<1> QED
  BY <1>1

(* The same of records. *)
LEMMA RecStepsMore ==
  ASSUME NEW v, NEW n \in Nat
  PROVE  RecSteps(v, n) \subseteq RecSteps(v, n + 1)
<1>1. ASSUME NEW t \in RecSteps(v, n) PROVE t \in RecSteps(v, n + 1)
  <2>1. t \in (Spot \X Nat) \X Recs \X (Spot \X Nat)
    BY <1>1, Zenon DEF RecSteps
  <2>2. PICK a \in Spot, u \in Nat, r \in Recs, y \in Spot \X Nat : t = <<<<a, u>>, r, y>>
    BY <2>1
  <2>3. PICK b \in Spot, w \in Nat : y = <<b, w>> /\ LegalRecord(v, n, a, u, r, b, w)
    BY <1>1, <2>2, RecStepIs
  <2>4. ASSUME LegalHandshake(v, n, a, r, b, w) PROVE LegalHandshake(v, n + 1, a, r, b, w)
    <3>1. Path(Halves(r), a, b, MsgSteps(v, n + 1))
      BY <2>4, MsgStepsMore, PathMore DEF LegalHandshake
    <3> QED
      BY <2>4, <3>1 DEF LegalHandshake
  <2>5. LegalRecord(v, n + 1, a, u, r, b, w)
    BY <2>3, <2>4 DEF LegalRecord
  <2> QED
    BY <2>2, <2>3, <2>5, RecStep
<1> QED
  BY <1>1

-----------------------------------------------------------------------------
(* The reader stands at s, and behind what c.hand holds at a, with u useless   *)
(* records: it waits for the messages of a handshake, or has completed one, or *)
(* has declined another.                                                       *)
ReaderAt(d, v, s) ==
    /\ s \in Spot /\ s.half = "none" /\ s.keys = d.keys
    /\ IF d.pc = "hs"
       THEN /\ s.step = d.step /\ d.step \in 1..Len(Script(v))
            /\ s.rounds = IF d.step = 1 THEN d.hellos - 1 ELSE d.hellos
       ELSE s.rounds = d.hellos /\ (s.step = Len(Script(v)) + 1 \/ (v = 12 /\ s.step = 1))
ReaderFits(d, v) ==
    /\ d.pc \in {"hs", "post", "read", "peek", "idle"} /\ d.retryCount \in Nat /\ d.hellos \in Nat \ {0}
    /\ d.pc \in {"hs", "post", "peek"} => d.input = <<>>
    /\ d.pc = "post" => d.hand # <<>>
    /\ d.pc # "hs" => d.complete /\ d.handshakes >= 1
    /\ v = 13 /\ d.pc \notin {"hs", "post"} => Len(d.hand) < 2 /\ d.pc # "peek"
CountFits(d, v, u) ==
    /\ u \in Nat /\ u <= maxUselessRecords
    /\ IF v = 13 /\ d.pc # "hs" THEN 2 * d.retryCount + Len(d.hand) <= 2 * u + 1 ELSE d.retryCount <= u
Stands(d, v, s, a, u) ==
    /\ ReaderAt(d, v, s) /\ ReaderFits(d, v) /\ CountFits(d, v, u)
    /\ a \in Spot /\ Path(d.hand, s, a, MsgSteps(v, d.hellos))

(* The peer stands at e: what it has still to send brings it where its fields  *)
(* say.                                                                        *)
Tag(s, k) == [i \in 1..Len(s) |-> [kind |-> s[i], keys |-> k]]
Final(q) == [step |-> q.step, half |-> "none", rounds |-> q.rounds,
             keys |-> IF q.due THEN q.keys + 1 ELSE q.keys]
PeerAt(q, e, n) == e \in Spot /\ Path(Tag(q.pend, q.keys), e, Final(q), MsgSteps(q.vers, n))
PeerFits(q, n) ==
    /\ q.rounds \in Nat /\ q.rounds <= n /\ q.useless \in Nat /\ q.due \in BOOLEAN /\ q.legal \in BOOLEAN
    /\ q.legal => q.useless <= maxUselessRecords /\ Len(q.pend) <= 1 /\ (q.pend = <<>> => ~q.due)
Way(rs, a, u, q, n) ==
    \E e : PeerAt(q, e, n) /\ Path(rs, <<a, u>>, <<e, q.useless>>, RecSteps(q.vers, n))

Going(d, rs, q) == \E s, a, u : Stands(d, q.vers, s, a, u) /\ Way(rs, a, u, q, d.hellos)
LegalInv ==
    /\ c.hellos \in Nat \ {0} /\ PeerFits(p, c.hellos)
    /\ p.legal => /\ c.inErr \notin Refusals /\ c.last \notin Refusals
                  /\ c.inErr = "none" /\ ~c.dead => Going(c, InFlight, p)

(* The messages of both handshakes. *)
LEMMA ScriptIs ==
  /\ Len(Script(13)) = 3 /\ Len(Script(12)) = 4
  /\ Script(13)[1] = "ServerHello" /\ Script(13)[2] = "EncryptedExtensions" /\ Script(13)[3] = "Finished"
  /\ Script(12)[1] = "ServerHello" /\ Script(12)[2] = "ServerHelloDone" /\ Script(12)[3] = "ccs"
  /\ Script(12)[4] = "Finished"
BY DEF Script

(* The kinds of a message that may come, by the step. *)
LEMMA MayIs ==
  ASSUME NEW v \in {12, 13}, NEW step \in Nat \ {0}, NEW k \in May(v, step)
  PROVE  /\ k \in Kinds /\ k # "none" /\ k # "ccs"
         /\ k = "ServerHello" <=> step = 1
         /\ step <= Len(Script(v)) => k = Script(v)[step]
         /\ v = 13 /\ step > 3 => k \in {"NewSessionTicket", "KeyUpdate"}
         /\ v = 13 /\ step = 2 => k = "EncryptedExtensions"
         /\ v = 13 /\ step = 3 => k = "Finished"
         /\ v = 12 /\ step > 4 => k = "HelloRequest"
         /\ v = 12 => step # 3
<1>1. CASE v = 13
  <2>1. CASE step \in 1..3
    <3>1. step = 1 \/ step = 2 \/ step = 3
      BY <2>1
    <3> QED
      BY <1>1, <3>1, ScriptIs DEF May, Kinds
  <2>2. CASE step > 3
    BY <1>1, <2>2, ScriptIs DEF May, PostHandshake, Kinds
  <2> QED
    BY <2>1, <2>2
<1>2. CASE v = 12
  <2>1. CASE step \in 1..4
    <3>1. step = 1 \/ step = 2 \/ step = 3 \/ step = 4
      BY <2>1
    <3> QED
      BY <1>2, <3>1, ScriptIs DEF May, Kinds
  <2>2. CASE step > 4
    BY <1>2, <2>2, ScriptIs DEF May, PostHandshake, Kinds
  <2> QED
    BY <2>1, <2>2
<1> QED
  BY <1>1, <1>2

(* The first half of a message begins it, and changes no keys. *)
LEMMA FirstHalf ==
  ASSUME NEW v \in {12, 13}, NEW n, NEW s, s.half = "none", NEW h, NEW x, <<s, h, x>> \in MsgSteps(v, n)
  PROVE  /\ Begins(v, n, s, h, x) /\ h.keys = s.keys /\ x \in Spot /\ s \in Spot
         /\ x.half = h.kind /\ x.half # "none" /\ x.step = s.step /\ x.keys = s.keys
<1>1. /\ s \in Spot /\ x \in Spot /\ h \in HalfType /\ h.keys = s.keys
      /\ Begins(v, n, s, h, x) \/ Completes(v, s, h, x)
  BY MsgStepIs
<1>2. h.kind # "none"
  BY <1>1 DEF HalfType, Kinds
<1>3. Begins(v, n, s, h, x)
  BY <1>1, <1>2 DEF Completes
<1> QED
  BY <1>1, <1>2, <1>3 DEF Begins

(* The two halves of a message. *)
Whole(v, n, s, h, b) ==
    /\ h.kind \in May(v, s.step) /\ (h.kind = "ServerHello" => s.rounds < n) /\ h.kind \in Kinds
    /\ b \in Spot /\ b.half = "none" /\ b.step = After(v, s.step, h.kind)
    /\ b.rounds = (IF h.kind = "ServerHello" THEN s.rounds + 1 ELSE s.rounds)
    /\ b.keys = (IF v = 13 /\ h.kind \in KeyChanging THEN s.keys + 1 ELSE s.keys)

(* Two halves from a place between messages make one message. *)
LEMMA WholeMessage ==
  ASSUME NEW v \in {12, 13}, NEW n, NEW s, s.half = "none", NEW h, NEW x, <<s, h, x>> \in MsgSteps(v, n),
         NEW g, NEW b, <<x, g, b>> \in MsgSteps(v, n)
  PROVE  Whole(v, n, s, h, b)
<1>1. Begins(v, n, s, h, x) /\ x.half # "none"
  BY FirstHalf
<1>2. b \in Spot /\ h \in HalfType /\ (Begins(v, n, x, g, b) \/ Completes(v, x, g, b))
  BY MsgStepIs
<1>3. Completes(v, x, g, b)
  BY <1>1, <1>2 DEF Begins
<1>4. h.kind \in Kinds
  BY <1>2 DEF HalfType
<1> QED
  BY <1>1, <1>2, <1>3, <1>4 DEF Begins, Completes, Whole

(* From where no message may come, none has come. *)
LEMMA NoMessage ==
  ASSUME NEW v \in {12, 13}, NEW n \in Nat, NEW h \in Seq(HalfType), NEW s \in Spot, s.half = "none",
         NEW a, Path(h, s, a, MsgSteps(v, n)), s.step # 0,
         (v = 12 /\ s.step = 3) \/ (s.step = 1 /\ s.rounds >= n)
  PROVE  h = <<>> /\ a = s
<1>1. h = <<>>
  <2> SUFFICES ASSUME h # <<>> PROVE FALSE
    OBVIOUS
  <2>1. PICK m : <<s, Head(h), m>> \in MsgSteps(v, n)
    BY PathTail
  <2>2. Begins(v, n, s, Head(h), m)
    BY <2>1, FirstHalf
  <2>3. s.step \in Nat \ {0} /\ s.rounds \in Nat
    BY DEF Spot
  <2>4. Head(h).kind \in May(v, s.step) /\ (Head(h).kind = "ServerHello" => s.rounds < n)
    BY <2>2 DEF Begins
  <2> QED
    BY <2>3, <2>4, MayIs
<1> QED
  BY <1>1, PathEmpty

(* Where a reader that waits for a record stands. *)
Near(d, v, s, a) ==
    \/ d.hand = <<>> /\ a = s
    \/ Len(d.hand) = 1 /\ a.half # "none" /\ a.step = s.step /\ a.keys = s.keys
    \/ v = 12 /\ d.pc \in {"read", "peek"} /\ a.step = 1 /\ a.half = "none" /\ a.rounds = d.hellos /\ a.keys = s.keys

(* With less than a message in c.hand. *)
LEMMA NearShort ==
  ASSUME NEW v \in {12, 13}, NEW n, NEW h \in Seq(HalfType), NEW s, s.half = "none", NEW a,
         Path(h, s, a, MsgSteps(v, n)), Len(h) < 2
  PROVE  \/ h = <<>> /\ a = s
         \/ Len(h) = 1 /\ a.half # "none" /\ a.step = s.step /\ a.keys = s.keys
<1>1. Len(h) \in Nat
  BY LenProperties
<1>2. CASE Len(h) = 0
  <2>1. h = <<>>
    BY <1>2, EmptySeq
  <2> QED
    BY <2>1, PathEmpty
<1>3. CASE Len(h) = 1
  <2>1. <<s, h[1], a>> \in MsgSteps(v, n)
    BY <1>3, PathOne
  <2> QED
    BY <1>3, <2>1, FirstHalf
<1>4. Len(h) = 0 \/ Len(h) = 1
  <2>1. PICK k \in Nat : k = Len(h)
    BY <1>1
  <2>2. k < 2
    BY <2>1
  <2> QED
    BY <2>1, <2>2
<1> QED
  BY <1>2, <1>3, <1>4

(* After the handshake of TLS 1.2 no more than a HelloRequest is in c.hand. *)
LEMMA NearLong ==
  ASSUME NEW n \in Nat, NEW h \in Seq(HalfType), NEW s \in Spot, s.half = "none", NEW a,
         Path(h, s, a, MsgSteps(12, n)), Len(h) >= 2, s.rounds = n, s.step \in {1, 5}
  PROVE  /\ Len(h) = 2 /\ a.step = 1 /\ a.half = "none" /\ a.rounds = n /\ a.keys = s.keys
         /\ h[1].kind = "HelloRequest"
<1>1. PICK x, b : /\ <<s, h[1], x>> \in MsgSteps(12, n) /\ <<x, h[2], b>> \in MsgSteps(12, n)
                  /\ Path(SubSeq(h, 3, Len(h)), b, a, MsgSteps(12, n))
  BY PathTwo
<1>2. /\ h[1].kind \in May(12, s.step) /\ (h[1].kind = "ServerHello" => s.rounds < n)
      /\ b \in Spot /\ b.half = "none" /\ b.step = After(12, s.step, h[1].kind)
      /\ b.rounds = (IF h[1].kind = "ServerHello" THEN s.rounds + 1 ELSE s.rounds)
      /\ b.keys = s.keys
  <2>1. PICK v \in {12, 13} : v = 12
    OBVIOUS
  <2>2. PICK f, g : f = h[1] /\ g = h[2]
    OBVIOUS
  <2>3. <<s, f, x>> \in MsgSteps(v, n) /\ <<x, g, b>> \in MsgSteps(v, n)
    BY <1>1, <2>1, <2>2
  <2>4. Whole(v, n, s, f, b)
    BY <2>3, WholeMessage
  <2> QED
    BY <2>1, <2>2, <2>4 DEF Whole
<1>3. h[1].kind = "HelloRequest"
  BY <1>2, MayIs
<1>4. b.step = 1 /\ b.rounds = n
  BY <1>2, <1>3 DEF After
<1>5. SubSeq(h, 3, Len(h)) \in Seq(HalfType) /\ Len(SubSeq(h, 3, Len(h))) = Len(h) - 2
  BY HeldSub
<1>6. SubSeq(h, 3, Len(h)) = <<>> /\ a = b
  <2>1. PICK v \in {12, 13} : v = 12
    OBVIOUS
  <2>2. PICK t \in Seq(HalfType) : t = SubSeq(h, 3, Len(h))
    BY <1>5
  <2>3. Path(t, b, a, MsgSteps(v, n)) /\ b.step = 1 /\ b.rounds >= n /\ b.step # 0
    BY <1>1, <1>4, <2>1, <2>2
  <2>4. t = <<>> /\ a = b
    BY <1>2, <2>3, NoMessage
  <2> QED
    BY <2>2, <2>4
<1>7. Len(h) \in Nat /\ Len(SubSeq(h, 3, Len(h))) = 0
  BY <1>6, LenProperties
<1> QED
  BY <1>2, <1>3, <1>4, <1>5, <1>6, <1>7

(* So a reader that waits for a record stands near the next one. *)
LEMMA NearBy ==
  ASSUME KeyInv, NEW s, NEW a, NEW u, Stands(c, p.vers, s, a, u), NeedsRecord
  PROVE  Near(c, p.vers, s, a) /\ (ExpectCCS => p.vers = 12 /\ c.step = 3 /\ c.hand = <<>> /\ a = s)
<1>1. /\ p.vers \in {12, 13} /\ c.vers \in {0, p.vers} /\ c.hand \in Seq(HalfType)
      /\ s \in Spot /\ s.half = "none" /\ Path(c.hand, s, a, MsgSteps(p.vers, c.hellos)) /\ c.hellos \in Nat
  BY DEF KeyInv, Keyed, KeyType, HandType, Stands, ReaderAt, ReaderFits
<1>2. ASSUME ExpectCCS PROVE p.vers = 12 /\ c.step = 3 /\ c.hand = <<>> /\ a = s
  <2>1. c.pc = "hs" /\ c.vers = p.vers /\ Script(p.vers)[c.step] = "ccs"
    BY <1>1, <1>2 DEF ExpectCCS
  <2>2. s.step = c.step /\ c.step \in 1..Len(Script(p.vers))
    BY <2>1 DEF Stands, ReaderAt
  <2>3. p.vers = 12 /\ c.step = 3
    <3>1. CASE p.vers = 13
      <4>0. Len(Script(p.vers)) = 3
        BY <3>1, ScriptIs
      <4>1. c.step = 1 \/ c.step = 2 \/ c.step = 3
        BY <2>2, <4>0
      <4> QED
        BY <2>1, <3>1, <4>1, ScriptIs
    <3>2. CASE p.vers = 12
      <4>0. Len(Script(p.vers)) = 4
        BY <3>2, ScriptIs
      <4>1. c.step = 1 \/ c.step = 2 \/ c.step = 3 \/ c.step = 4
        BY <2>2, <4>0
      <4> QED
        BY <2>1, <3>2, <4>1, ScriptIs
    <3> QED
      BY <1>1, <3>1, <3>2
  <2> QED
    BY <1>1, <2>2, <2>3, NoMessage
<1>3. CASE Len(c.hand) < 2
  BY <1>1, <1>2, <1>3, NearShort DEF Near
<1>4. CASE ~(Len(c.hand) < 2)
  <2>1. CASE ExpectCCS
    BY <1>2, <2>1 DEF Near
  <2>2. CASE ~ExpectCCS
    <3>1. c.pc \in {"read", "peek"}
      BY <1>4, <2>2 DEF NeedsRecord
    <3>2. p.vers = 12
      BY <1>1, <1>4, <3>1 DEF Stands, ReaderFits
    <3>3. s.rounds = c.hellos /\ s.step \in {1, 5} /\ Len(c.hand) >= 2
      <4>1. Len(c.hand) \in Nat
        BY <1>1, LenProperties
      <4>2. s.rounds = c.hellos /\ (s.step = Len(Script(p.vers)) + 1 \/ s.step = 1)
        BY <3>1 DEF Stands, ReaderAt
      <4>3. Len(Script(p.vers)) = 4
        BY <3>2, ScriptIs
      <4> QED
        BY <1>4, <4>1, <4>2, <4>3
    <3>4. a.step = 1 /\ a.half = "none" /\ a.rounds = c.hellos /\ a.keys = s.keys
      BY <1>1, <3>2, <3>3, NearLong
    <3> QED
      BY <2>2, <3>1, <3>2, <3>4 DEF Near
  <2> QED
    BY <2>1, <2>2
<1> QED
  BY <1>3, <1>4

(* A record that keeps to the protocol passes the checks, unless it is an      *)
(* alert that ends the connection.                                             *)
LEMMA NotRefused ==
  ASSUME KeyInv, ~c.dead, NEW s, NEW a, NEW u, Stands(c, p.vers, s, a, u), NeedsRecord, NEW r \in Recs,
         NEW b, NEW w \in Nat, LegalRecord(p.vers, c.hellos, a, u, r, b, w)
  PROVE  /\ RecordError(r) \notin Refusals
         /\ r.typ # "alert" \/ r.data = "warning" => RecordError(r) = "none"
<1>1. /\ p.vers \in {12, 13} /\ c.vers \in {0, p.vers} /\ c.hand \in Seq(HalfType) /\ c.keys \in Nat
      /\ s \in Spot /\ s.half = "none" /\ s.keys = c.keys /\ c.retryCount \in Nat /\ a \in Spot
      /\ maxUselessRecords \in Nat /\ u \in Nat
  BY RecordsAssumption DEF KeyInv, Keyed, KeyType, HandType, Stands, ReaderAt, ReaderFits, CountFits
<1>2. Near(c, p.vers, s, a) /\ (ExpectCCS => p.vers = 12 /\ c.step = 3 /\ c.hand = <<>> /\ a = s)
  BY NearBy
<1>3. a.keys = c.keys
  BY <1>1, <1>2 DEF Near
<1>4. c.pc = "hs" => a.step = c.step /\ a.step \in 1..Len(Script(p.vers))
  BY <1>1, <1>2 DEF Near, Stands, ReaderAt
<1>5. c.pc # "hs" => /\ c.complete /\ c.handshakes >= 1
                     /\ a.step = Len(Script(p.vers)) + 1 \/ (p.vers = 12 /\ a.step = 1)
  BY <1>1, <1>2 DEF Near, Stands, ReaderAt, ReaderFits
<1>6. c.vers = 0 => c.pc = "hs" /\ c.step = 1
  BY DEF KeyInv, Keyed, Aligned
<1>7. p.vers = 13 /\ a.half = "none" => c.hand = <<>>
  BY <1>1, <1>2 DEF Near
<1>8. CASE r.typ = "handshake"
  <2>1. LegalHandshake(p.vers, c.hellos, a, r, b, w)
    BY <1>8 DEF LegalRecord, LegalData, LegalAlert, LegalCCS
  <2>2. ~ExpectCCS
    <3> SUFFICES ASSUME ExpectCCS PROVE FALSE
      OBVIOUS
    <3>1. Halves(r) \in Seq(HalfType) /\ Len(Halves(r)) = Len(r.data) /\ r.data # <<>> /\ r.data \in Seq(Kinds)
      BY <1>8, <2>1, HalvesIs DEF LegalHandshake, Recs, Rec
    <3>2. Halves(r) = <<>>
      <4>1. a \in Spot /\ a.half = "none" /\ a.step = 3 /\ p.vers = 12 /\ c.hellos \in Nat
        BY <1>1, <1>2, <1>4 DEF ExpectCCS, Stands, ReaderFits
      <4>2. Path(Halves(r), a, b, MsgSteps(p.vers, c.hellos))
        BY <2>1 DEF LegalHandshake
      <4> QED
        BY <3>1, <4>1, <4>2, NoMessage
    <3>3. Len(r.data) = 0
      BY <3>1, <3>2
    <3> QED
      BY <3>1, <3>3, EmptySeq
  <2>3. Decrypts(r)
    BY <1>3, <2>1 DEF Decrypts, LegalHandshake
  <2>4. ~Ignored(r)
    BY <1>8 DEF Ignored
  <2>5. RecordError(r) = "none"
    BY <1>8, <2>2, <2>3, <2>4 DEF RecordError
  <2> QED
    BY <2>5 DEF Refusals
<1>9. CASE r.typ = "data"
  <2>1. LegalData(p.vers, a, u, r, b, w) /\ w <= maxUselessRecords
    BY <1>9 DEF LegalRecord, LegalHandshake, LegalAlert, LegalCCS
  <2>2. a.half = "none" /\ a.step > Len(Script(p.vers)) /\ r.keys = a.keys
    BY <2>1 DEF LegalData
  <2>3. c.pc # "hs"
    BY <1>1, <1>4, <2>2, ScriptIs
  <2>4. c.complete /\ c.handshakes >= 1 /\ ~ExpectCCS /\ c.vers # 0
    BY <1>5, <1>6, <2>3 DEF ExpectCCS
  <2>5. c.keys # 0
    BY <1>1, <2>3, <2>4 DEF KeyInv, Keyed, KeyType, Aligned
  <2>6. ASSUME Ignored(r) PROVE Counted(r) + 1 <= maxUselessRecords
    <3>1. r.data = <<>>
      BY <1>9, <2>6 DEF Ignored
    <3>2. w = u + 1 /\ Counted(r) = c.retryCount
      BY <2>1, <3>1, <1>9 DEF LegalData, Counted, Advancing
    <3>3. c.retryCount <= u
      <4>1. Len(c.hand) \in Nat
        BY <1>1, LenProperties
      <4> QED
        BY <1>1, <4>1 DEF Stands, CountFits
    <3> QED
      BY <1>1, <2>1, <3>2, <3>3
  <2>7. Decrypts(r)
    BY <1>3, <2>2 DEF Decrypts
  <2>8. ~(p.vers = 13 /\ c.hand # <<>>)
    BY <1>7, <2>2
  <2>9. ~(c.vers = 13 /\ c.hand # <<>>)
    BY <1>1, <2>8
  <2>10. Counted(r) \in Nat
    BY <1>1 DEF Counted
  <2>11. ~(Ignored(r) /\ Counted(r) + 1 > maxUselessRecords)
    BY <1>1, <2>6, <2>10
  <2>12. RecordError(r) = "none"
    BY <1>9, <2>4, <2>5, <2>7, <2>9, <2>11 DEF RecordError
  <2> QED
    BY <2>12 DEF Refusals
<1>10. CASE r.typ = "alert"
  <2>1. LegalAlert(p.vers, a, u, r, b, w) /\ w <= maxUselessRecords
    BY <1>10 DEF LegalRecord, LegalHandshake, LegalData, LegalCCS
  <2>2. (p.vers = 13 => a.half = "none") /\ r.keys = a.keys
    BY <2>1 DEF LegalAlert
  <2>3. Decrypts(r)
    BY <1>3, <2>2 DEF Decrypts
  <2>4. ~(c.vers = 13 /\ c.hand # <<>>)
    BY <1>1, <1>7, <2>2
  <2>5. r.data \in {"warning", "close", "fatal"}
    BY <1>10 DEF Recs, Rec
  <2>6. ASSUME r.data = "warning" PROVE Counted(r) + 1 <= maxUselessRecords /\ Counted(r) \in Nat
    <3>2. w = u + 1 /\ Counted(r) = c.retryCount
      BY <2>1, <2>6, <1>10 DEF LegalAlert, Counted, Advancing
    <3>3. c.retryCount <= u
      <4>1. Len(c.hand) \in Nat
        BY <1>1, LenProperties
      <4> QED
        BY <1>1, <4>1 DEF Stands, CountFits
    <3> QED
      BY <1>1, <2>1, <3>2, <3>3
  <2>7. r.data = "warning" => RecordError(r) = "none"
    BY <1>1, <1>10, <2>3, <2>4, <2>6 DEF RecordError
  <2>8. r.data # "warning" => RecordError(r) \in {"eof", "remote"}
    BY <1>10, <2>3, <2>4, <2>5 DEF RecordError
  <2> QED
    BY <1>10, <2>7, <2>8 DEF Refusals
<1>11. CASE r.typ = "ccs"
  <2>1. LegalCCS(p.vers, a, u, r, b, w) /\ w <= maxUselessRecords
    BY <1>11 DEF LegalRecord, LegalHandshake, LegalData, LegalAlert
  <2>2. a.half = "none"
    BY <2>1 DEF LegalCCS
  <2>3. CASE p.vers = 13
    <3>1. a.step \in 2..3 /\ w = u + 1
      BY <2>1, <2>3 DEF LegalCCS
    <3>2. c.vers = 13
      <4>1. c.vers # 0
        BY <1>4, <1>6, <3>1
      <4> QED
        BY <1>1, <2>3, <4>1
    <3>3. c.hand = <<>>
      BY <1>7, <2>2, <2>3
    <3>4. Decrypts(r)
      BY <1>11, <3>2 DEF Decrypts
    <3>5. Counted(r) + 1 <= maxUselessRecords /\ Counted(r) \in Nat
      <4>1. Counted(r) = c.retryCount
        BY <1>11 DEF Counted, Advancing
      <4>2. c.retryCount <= u
        <5>1. Len(c.hand) \in Nat
          BY <1>1, LenProperties
        <5> QED
          BY <1>1, <5>1 DEF Stands, CountFits
      <4> QED
        BY <1>1, <2>1, <3>1, <4>1, <4>2
    <3>6. RecordError(r) = "none"
      BY <1>1, <1>11, <3>2, <3>3, <3>4, <3>5 DEF RecordError
    <3> QED
      BY <3>6 DEF Refusals
  <2>4. CASE p.vers = 12
    <3>1. a.step = 3 /\ r.keys = a.keys
      BY <2>1, <2>4 DEF LegalCCS
    <3>2. c.pc = "hs" /\ c.step = 3
      BY <1>4, <1>5, <2>4, <3>1, ScriptIs
    <3>3. c.vers = 12
      BY <1>1, <1>6, <2>4, <3>2
    <3>4. ExpectCCS
      BY <3>2, <3>3, ScriptIs DEF ExpectCCS
    <3>5. c.hand = <<>>
      BY <1>2, <3>4
    <3>6. Decrypts(r) /\ ~Ignored(r)
      BY <1>3, <1>11, <3>1, <3>3 DEF Decrypts, Ignored
    <3>7. RecordError(r) = "none"
      BY <1>11, <3>3, <3>4, <3>5, <3>6 DEF RecordError
    <3> QED
      BY <3>7 DEF Refusals
  <2> QED
    BY <1>1, <2>3, <2>4
<1> QED
  <2>1. r.typ \in {"handshake", "data", "alert", "ccs"}
    BY DEF Recs, RecType
  <2> QED
    BY <2>1, <1>8, <1>9, <1>10, <1>11

-----------------------------------------------------------------------------
(* The steps of the reader. *)

(* What a step of the reader has to show. *)
LEMMA LegalMove ==
  ASSUME LegalInv, p' = p, c'.hellos \in Nat, c.hellos <= c'.hellos,
         p.legal => /\ c'.inErr \notin Refusals /\ c'.last \notin Refusals
                    /\ c'.inErr = "none" /\ ~c'.dead => Going(c', InFlight', p)
  PROVE  LegalInv'
<1>1. c.hellos \in Nat \ {0} /\ PeerFits(p, c.hellos)
  BY DEF LegalInv
<1>2. c'.hellos \in Nat \ {0}
  BY <1>1
<1>3. PeerFits(p, c'.hellos)
  BY <1>1, <1>2 DEF PeerFits
<1> QED
  BY <1>2, <1>3 DEF LegalInv

(* The record that is fetched keeps to the protocol. *)
Placed(s, a, u, b, w) ==
    /\ Stands(c, p.vers, s, a, u) /\ b \in Spot /\ w \in Nat
    /\ LegalRecord(p.vers, c.hellos, a, u, Record, b, w)

(* A reader that waits for a record is going on. *)
LEMMA Awake ==
  ASSUME KeyInv, c.pc # "idle"
  PROVE  ~c.dead /\ (c.pc \in {"hs", "post"} => c.inErr = "none")
BY DEF KeyInv, Keyed, Aligned

(* The record that is fetched is one of the protocol, and the rest leads on. *)
LEMMA FetchPlace ==
  ASSUME LegalInv, KeyInv, FlightType, Fetch, p.legal
  PROVE  \E s, a, u, b, w : Placed(s, a, u, b, w) /\ Way(InFlight', b, w, p, c.hellos)
<1>1. NeedsRecord /\ c.inErr = "none"
  BY FetchIs
<1>2. ~c.dead
  BY <1>1, Waits, Awake
<1>3. PICK s, a, u : Stands(c, p.vers, s, a, u) /\ Way(InFlight, a, u, p, c.hellos)
  BY <1>1, <1>2 DEF LegalInv, Going
<1>4. PICK e : PeerAt(p, e, c.hellos) /\ Path(InFlight, <<a, u>>, <<e, p.useless>>, RecSteps(p.vers, c.hellos))
  BY <1>3 DEF Way
<1>5. PICK m : <<<<a, u>>, Record, m>> \in RecSteps(p.vers, c.hellos)
               /\ Path(InFlight', m, <<e, p.useless>>, RecSteps(p.vers, c.hellos))
  BY <1>4, FetchPath
<1>6. PICK b \in Spot, w \in Nat : m = <<b, w>> /\ LegalRecord(p.vers, c.hellos, a, u, Record, b, w)
  BY <1>5, RecStepIs
<1>7. Way(InFlight', b, w, p, c.hellos)
  BY <1>4, <1>5, <1>6 DEF Way
<1>8. Placed(s, a, u, b, w)
  BY <1>3, <1>6 DEF Placed
<1> QED
  BY <1>7, <1>8

(* readRecordOrCCS refuses no record of the protocol but an alert that ends it. *)
LEMMA LegalRefuse == ASSUME LegalInv, KeyInv, DataInv, RefuseRecord PROVE LegalInv'
<1>1. Fetch /\ p' = p /\ RecordError(Record) # "none" /\ IsConn(c) /\ FlightType
  BY DEF RefuseRecord, DataInv
<1>2. PICK e : e = RecordError(Record)
  OBVIOUS
<1>3. c' = Fail(c, e) /\ e # "none"
  BY <1>1, <1>2 DEF RefuseRecord
<1>4. c'.inErr = e /\ c'.last = e /\ c'.hellos = c.hellos
  BY <1>1, <1>3, FailIs
<1>5. ASSUME p.legal PROVE e \notin Refusals
  <2>1. PICK s, a, u, b, w : Placed(s, a, u, b, w)
    BY <1>1, <1>5, FetchPlace
  <2>2. Record \in Recs /\ NeedsRecord
    BY <1>1, FetchIs
  <2>3. ~c.dead
    BY <2>2, Waits, Awake
  <2> QED
    BY <1>2, <2>1, <2>2, <2>3, NotRefused DEF Placed
<1>6. c.hellos \in Nat
  BY DEF LegalInv
<1> QED
  BY <1>1, <1>3, <1>4, <1>5, <1>6, LegalMove

(* A record that is dropped. *)
LEMMA DropLegal ==
  ASSUME NEW v, NEW n, NEW a, NEW u, NEW r, NEW b, NEW w, LegalRecord(v, n, a, u, r, b, w), Ignored(r),
         c.vers \in {0, v}, v \in {12, 13}
  PROVE  b = a /\ w = u + 1 /\ w <= maxUselessRecords /\ Counted(r) = c.retryCount
<1>1. w <= maxUselessRecords
  BY DEF LegalRecord
<1>2. CASE r.typ = "alert" /\ r.data = "warning"
  BY <1>1, <1>2 DEF LegalRecord, LegalHandshake, LegalData, LegalAlert, LegalCCS, Counted, Advancing
<1>3. CASE r.typ = "ccs" /\ c.vers = 13
  BY <1>1, <1>3 DEF LegalRecord, LegalHandshake, LegalData, LegalAlert, LegalCCS, Counted, Advancing
<1>4. CASE r.typ = "data" /\ r.data = <<>>
  BY <1>1, <1>4 DEF LegalRecord, LegalHandshake, LegalData, LegalAlert, LegalCCS, Counted, Advancing
<1> QED
  BY <1>2, <1>3, <1>4 DEF Ignored

(* A record that is dropped is counted by both ends (retryReadRecord). *)
LEMMA LegalDrop == ASSUME LegalInv, KeyInv, DataInv, DropRecord PROVE LegalInv'
<1>1. Fetch /\ p' = p /\ Ignored(Record) /\ IsConn(c) /\ FlightType
  BY DEF DropRecord, DataInv
<1>2. PICK x : x = Counted(Record) + 1
  OBVIOUS
<1>3. c' = [c EXCEPT !.retryCount = x]
  BY <1>2 DEF DropRecord
<1>4. /\ c'.pc = c.pc /\ c'.dead = c.dead /\ c'.step = c.step /\ c'.keys = c.keys /\ c'.hellos = c.hellos
      /\ c'.handshakes = c.handshakes /\ c'.hand = c.hand /\ c'.inErr = c.inErr /\ c'.last = c.last
      /\ c'.complete = c.complete /\ c'.input = c.input /\ c'.retryCount = x
  BY <1>1, <1>3 DEF IsConn
<1>5. ASSUME p.legal PROVE Going(c', InFlight', p)
  <2>1. PICK s, a, u, b, w : Placed(s, a, u, b, w) /\ Way(InFlight', b, w, p, c.hellos)
    BY <1>1, <1>5, FetchPlace
  <2>2. c.vers \in {0, p.vers} /\ p.vers \in {12, 13} /\ Stands(c, p.vers, s, a, u)
    BY <2>1 DEF KeyInv, Keyed, KeyType, Placed
  <2>3. b = a /\ w = u + 1 /\ w <= maxUselessRecords /\ Counted(Record) = c.retryCount
    BY <1>1, <2>1, <2>2, DropLegal DEF Placed
  <2>4. ReaderAt(c, p.vers, s) /\ ReaderFits(c, p.vers) /\ CountFits(c, p.vers, u) /\ a \in Spot
        /\ Path(c.hand, s, a, MsgSteps(p.vers, c.hellos))
    BY <2>2 DEF Stands
  <2>5. ReaderAt(c', p.vers, s)
    BY <1>4, <2>4 DEF ReaderAt
  <2>6. c.retryCount \in Nat /\ x = c.retryCount + 1 /\ x \in Nat /\ u \in Nat
    BY <1>2, <2>3, <2>4 DEF ReaderFits, CountFits
  <2>7. ReaderFits(c', p.vers)
    BY <1>4, <2>4, <2>6 DEF ReaderFits
  <2>8. Len(c.hand) \in Nat
    BY LenProperties DEF KeyInv, Keyed, HandType
  <2>9. CountFits(c', p.vers, w)
    <3>1. CASE p.vers = 13 /\ c.pc # "hs"
      <4>1. 2 * c.retryCount + Len(c.hand) <= 2 * u + 1
        BY <2>4, <3>1 DEF CountFits
      <4>2. PICK l \in Nat : l = Len(c.hand)
        BY <2>8
      <4>3. 2 * (c.retryCount + 1) + l <= 2 * (u + 1) + 1
        BY <2>6, <4>1, <4>2
      <4>4. 2 * c'.retryCount + Len(c'.hand) <= 2 * w + 1
        BY <1>4, <2>3, <2>6, <4>2, <4>3
      <4>5. w \in Nat
        BY <2>3, <2>6
      <4> QED
        BY <1>4, <2>3, <3>1, <4>4, <4>5 DEF CountFits
    <3>2. CASE ~(p.vers = 13 /\ c.pc # "hs")
      <4>1. c.retryCount <= u
        BY <2>4, <3>2 DEF CountFits
      <4> QED
        BY <1>4, <2>3, <2>6, <3>2, <4>1 DEF CountFits
    <3> QED
      BY <3>1, <3>2
  <2>10. Stands(c', p.vers, s, a, w)
    BY <1>4, <2>4, <2>5, <2>7, <2>9 DEF Stands
  <2>11. Way(InFlight', a, w, p, c'.hellos)
    BY <1>4, <2>1, <2>3
  <2> QED
    BY <2>10, <2>11 DEF Going
<1>6. c.hellos \in Nat /\ (p.legal => c.inErr \notin Refusals /\ c.last \notin Refusals)
  BY DEF LegalInv
<1> QED
  BY <1>1, <1>4, <1>5, <1>6, LegalMove

(* A record that is taken: the fields TakeIs leaves out. *)
LEMMA TakeMore ==
  ASSUME IsConn(c), FlightType, TakeRecord
  PROVE  /\ c'.retryCount = Counted(Record) /\ c'.hellos = c.hellos /\ c'.complete = c.complete
         /\ c'.input = (IF Record.typ = "data" THEN Record.data ELSE c.input)
         /\ c'.last \in {c.last, "none"} /\ (c.pc = "peek" => c'.pc = "idle")
         /\ c.pc = "read" => c'.pc = IF c'.hand # <<>> THEN "post" ELSE "read"
         /\ c.pc \in {"hs", "post"} => c'.pc = c.pc
<1> DEFINE d == Applied(Record)
<1>1. /\ Fetch /\ RecordError(Record) = "none" /\ ~Ignored(Record)
      /\ c' = CASE c.pc = "read" -> Loop(d)
                [] c.pc = "peek" -> Return(d, "none")
                [] OTHER -> d
  BY DEF TakeRecord
<1>2. Record \in Recs /\ NeedsRecord
  BY <1>1, FetchIs
<1>3. Record.typ # "alert"
  BY <1>1, <1>2, TakenRecord
<1>4. /\ IsConn(d) /\ d.pc = c.pc /\ d.last = c.last
      /\ d.retryCount = Counted(Record) /\ d.hellos = c.hellos /\ d.complete = c.complete
      /\ d.input = (IF Record.typ = "data" THEN Record.data ELSE c.input)
  BY <1>2, <1>3, AppliedIs
<1> HIDE DEF d
<1>5. c.pc \in {"hs", "post", "read", "peek"}
  BY <1>2, Waits
<1>6. CASE c.pc = "read"
  <2>1. /\ c'.retryCount = d.retryCount /\ c'.hellos = d.hellos /\ c'.complete = d.complete /\ c'.input = d.input
        /\ c'.last = d.last /\ c'.hand = d.hand /\ c'.pc = IF d.hand # <<>> THEN "post" ELSE "read"
    BY <1>1, <1>4, <1>6, LoopIs
  <2> QED
    BY <1>4, <1>6, <2>1
<1>7. CASE c.pc = "peek"
  <2>1. /\ c'.retryCount = d.retryCount /\ c'.hellos = d.hellos /\ c'.complete = d.complete /\ c'.input = d.input
        /\ c'.last = "none" /\ c'.pc = "idle"
    BY <1>1, <1>4, <1>7, ReturnIs
  <2> QED
    BY <1>4, <1>7, <2>1
<1>8. CASE c.pc \in {"hs", "post"}
  BY <1>1, <1>4, <1>8
<1> QED
  BY <1>5, <1>6, <1>7, <1>8

(* Where the reader stands when a record comes, by the record's type. *)
LEMMA DataPlace ==
  ASSUME KeyInv, NeedsRecord, NEW s, NEW a, NEW u, Stands(c, p.vers, s, a, u), NEW r, r.typ = "data",
         NEW n, NEW b, NEW w, LegalRecord(p.vers, n, a, u, r, b, w)
  PROVE  /\ c.hand = <<>> /\ a = s /\ b = a /\ c.pc \in {"read", "peek"}
         /\ w = (IF r.data = <<>> THEN u + 1 ELSE 0)
<1>1. p.vers \in {12, 13} /\ c.hand \in Seq(HalfType) /\ a \in Spot
  BY DEF KeyInv, Keyed, KeyType, HandType, Stands
<1>2. Near(c, p.vers, s, a)
  BY NearBy
<1>3. LegalData(p.vers, a, u, r, b, w)
  BY DEF LegalRecord, LegalHandshake, LegalAlert, LegalCCS
<1>4. a.half = "none" /\ a.step > Len(Script(p.vers)) /\ b = a /\ w = (IF r.data = <<>> THEN u + 1 ELSE 0)
  BY <1>3 DEF LegalData
<1>5. a.step # 1
  <2>1. PICK l \in {3, 4} : l = Len(Script(p.vers))
    BY <1>1, ScriptIs
  <2>2. a.step > l
    BY <1>4, <2>1
  <2> QED
    BY <2>2
<1>6. c.hand = <<>> /\ a = s
  BY <1>2, <1>4, <1>5 DEF Near
<1>7. c.pc # "hs"
  <2>1. CASE c.pc = "hs"
    <3>1. s.step \in 1..Len(Script(p.vers))
      BY <2>1 DEF Stands, ReaderAt
    <3>2. Len(Script(p.vers)) \in Nat
      BY <1>1, ScriptIs
    <3> QED
      BY <1>4, <1>6, <3>1, <3>2
  <2> QED
    BY <2>1
<1>8. c.pc # "post"
  BY <1>6 DEF Stands, ReaderFits
<1> QED
  BY <1>4, <1>6, <1>7, <1>8, Waits

(* Application data reaches c.input. *)
LEMMA LegalTakeData ==
  ASSUME LegalInv, KeyInv, DataInv, TakeRecord, Record.typ = "data", p.legal
  PROVE  Going(c', InFlight', p)
<1>1. /\ Fetch /\ Record \in Recs /\ c'.hand = c.hand /\ c'.keys = c.keys /\ c'.step = c.step
      /\ c'.handshakes = c.handshakes /\ c'.vers = c.vers /\ IsConn(c) /\ FlightType
  BY TakeIs DEF DataInv
<1>2. /\ c'.retryCount = Counted(Record) /\ c'.hellos = c.hellos /\ c'.complete = c.complete
      /\ (c.pc = "peek" => c'.pc = "idle")
      /\ c.pc = "read" => c'.pc = IF c'.hand # <<>> THEN "post" ELSE "read"
  BY <1>1, TakeMore
<1>3. PICK s, a, u, b, w : Placed(s, a, u, b, w) /\ Way(InFlight', b, w, p, c.hellos)
  BY <1>1, FetchPlace
<1>4. NeedsRecord
  BY <1>1, FetchIs
<1>5. /\ c.hand = <<>> /\ a = s /\ b = a /\ c.pc \in {"read", "peek"}
      /\ w = (IF Record.data = <<>> THEN u + 1 ELSE 0)
  BY <1>3, <1>4, DataPlace DEF Placed
<1>6. Record.data # <<>>
  BY DEF TakeRecord, Ignored
<1>7. c'.retryCount = 0 /\ w = 0
  BY <1>2, <1>5, <1>6 DEF Counted, Advancing
<1>8. c'.pc \in {"read", "idle"}
  BY <1>1, <1>2, <1>5
<1>9. ReaderAt(c, p.vers, s) /\ ReaderFits(c, p.vers) /\ a \in Spot /\ Path(c.hand, s, a, MsgSteps(p.vers, c.hellos))
  BY <1>3 DEF Placed, Stands
<1>10. ReaderAt(c', p.vers, s)
  BY <1>1, <1>2, <1>5, <1>8, <1>9 DEF ReaderAt
<1>11. Len(c'.hand) = 0
  BY <1>1, <1>5
<1>12. ReaderFits(c', p.vers)
  BY <1>1, <1>2, <1>5, <1>7, <1>8, <1>9, <1>11 DEF ReaderFits
<1>13. CountFits(c', p.vers, w)
  <2>1. maxUselessRecords \in Nat
    BY RecordsAssumption
  <2> QED
    BY <1>7, <1>11, <2>1 DEF CountFits
<1>14. Stands(c', p.vers, s, a, w)
  BY <1>1, <1>2, <1>9, <1>10, <1>12, <1>13 DEF Stands
<1>15. Way(InFlight', a, w, p, c'.hellos)
  BY <1>2, <1>3, <1>5
<1> QED
  BY <1>14, <1>15 DEF Going

(* In TLS 1.3 c.hand holds a half at most where a record is waited for. *)
LEMMA HalfHeld ==
  ASSUME KeyInv, NeedsRecord, NEW s, NEW a, NEW u, Stands(c, p.vers, s, a, u), p.vers = 13
  PROVE  /\ Len(c.hand) = (IF a.half = "none" THEN 0 ELSE 1)
         /\ c.pc # "hs" => a.step > 3
<1>1. Near(c, p.vers, s, a) /\ s.half = "none"
  BY NearBy DEF Stands, ReaderAt
<1>2. Len(c.hand) = (IF a.half = "none" THEN 0 ELSE 1) /\ a.step = s.step
  <2>1. Len(<<>>) = 0
    OBVIOUS
  <2>2. \/ c.hand = <<>> /\ a = s
        \/ Len(c.hand) = 1 /\ a.half # "none" /\ a.step = s.step
    BY <1>1 DEF Near
  <2>3. CASE c.hand = <<>> /\ a = s
    BY <1>1, <2>1, <2>3
  <2>4. CASE Len(c.hand) = 1 /\ a.half # "none" /\ a.step = s.step
    BY <2>4
  <2> QED
    BY <2>2, <2>3, <2>4
<1>3. c.pc # "hs" => s.step = Len(Script(p.vers)) + 1
  BY DEF Stands, ReaderAt
<1>4. PICK l \in Nat : l = 3 /\ l = Len(Script(p.vers))
  BY ScriptIs
<1>5. c.pc # "hs" => s.step = l + 1
  BY <1>3, <1>4, Zenon
<1> QED
  BY <1>2, <1>4, <1>5

(* The halves of a handshake record join c.hand. *)
LEMMA LegalTakeHalves ==
  ASSUME LegalInv, KeyInv, DataInv, TakeRecord, Record.typ = "handshake", p.legal
  PROVE  Going(c', InFlight', p)
<1>1. /\ Fetch /\ Record \in Recs /\ c'.hand = Cat(c.hand, Halves(Record)) /\ c'.keys = c.keys /\ c'.step = c.step
      /\ c'.handshakes = c.handshakes /\ c'.vers = c.vers /\ IsConn(c) /\ FlightType
  BY TakeIs DEF DataInv
<1>2. /\ c'.retryCount = Counted(Record) /\ c'.hellos = c.hellos /\ c'.complete = c.complete
      /\ (c.pc = "peek" => c'.pc = "idle") /\ c'.input = c.input
      /\ c.pc = "read" => c'.pc = IF c'.hand # <<>> THEN "post" ELSE "read"
      /\ c.pc \in {"hs", "post"} => c'.pc = c.pc
  BY <1>1, TakeMore
<1>3. PICK s, a, u, b, w : Placed(s, a, u, b, w) /\ Way(InFlight', b, w, p, c.hellos)
  BY <1>1, FetchPlace
<1>4. NeedsRecord /\ c.input = <<>>
  BY <1>1, FetchIs
<1>5. /\ LegalHandshake(p.vers, c.hellos, a, Record, b, w) /\ w <= maxUselessRecords /\ w \in Nat
      /\ Stands(c, p.vers, s, a, u) /\ b \in Spot
  BY <1>3 DEF Placed, LegalRecord, LegalData, LegalAlert, LegalCCS
<1>6. /\ Record.data # <<>> /\ Path(Halves(Record), a, b, MsgSteps(p.vers, c.hellos))
      /\ p.vers = 13 /\ a.step > 3 => Len(Record.data) + (IF a.half = "none" THEN 0 ELSE 1) <= 2 * w + 1
  BY <1>5 DEF LegalHandshake
<1>7. c'.retryCount = 0
  BY <1>2, <1>6 DEF Counted, Advancing
<1>8. /\ ReaderAt(c, p.vers, s) /\ ReaderFits(c, p.vers) /\ Path(c.hand, s, a, MsgSteps(p.vers, c.hellos))
      /\ c.hand \in Seq(HalfType)
  BY <1>5 DEF Stands, KeyInv, Keyed, HandType
<1>9. /\ Halves(Record) \in Seq(HalfType) /\ Len(Halves(Record)) = Len(Record.data) /\ Len(Record.data) \in Nat
  BY <1>1, HalvesIs
<1>10. PICK l \in Nat, m \in Nat : l = Len(c.hand) /\ m = Len(Record.data)
  BY <1>8, <1>9, LenProperties
<1>11. m # 0
  <2>1. Record.data \in Seq(Kinds)
    BY <1>1 DEF Recs, Rec
  <2> QED
    BY <1>6, <1>10, <2>1, EmptySeq
<1>12. PICK h : h = Halves(Record) /\ h \in Seq(HalfType) /\ Len(h) = m
  BY <1>9, <1>10
<1>13. c'.hand \in Seq(HalfType) /\ Joins(c'.hand, c.hand, h)
  BY <1>1, <1>8, <1>12, CatIs
<1>14. Len(c'.hand) = l + m
  BY <1>10, <1>12, <1>13 DEF Joins
<1>15. c'.hand # <<>>
  <2>1. Len(c'.hand) # 0
    BY <1>11, <1>14
  <2> QED
    BY <2>1, EmptySeq
<1>16. Path(c'.hand, s, b, MsgSteps(p.vers, c'.hellos))
  <2>1. Path(h, a, b, MsgSteps(p.vers, c.hellos)) /\ Len(c.hand) \in Nat /\ Len(h) \in Nat
    BY <1>6, <1>10, <1>12
  <2> QED
    BY <1>2, <1>8, <1>13, <2>1, PathJoins
<1>17. c.pc \in {"hs", "post", "read", "peek"}
  BY <1>4, Waits
<1>18. (c'.pc = "hs" <=> c.pc = "hs") /\ c'.pc \in {"hs", "post", "idle"} /\ (c'.pc = "idle" => p.vers # 13)
  BY <1>2, <1>8, <1>15, <1>17 DEF ReaderFits
<1>19. ReaderAt(c', p.vers, s)
  BY <1>1, <1>2, <1>8, <1>18 DEF ReaderAt
<1>20. ReaderFits(c', p.vers)
  BY <1>1, <1>2, <1>4, <1>7, <1>8, <1>15, <1>18 DEF ReaderFits
<1>21. CountFits(c', p.vers, w)
  <2>1. CASE p.vers = 13 /\ c'.pc # "hs"
    <3>1. l = (IF a.half = "none" THEN 0 ELSE 1) /\ a.step > 3
      BY <1>4, <1>5, <1>10, <1>18, <2>1, HalfHeld
    <3>2. m + l <= 2 * w + 1
      BY <1>6, <1>10, <2>1, <3>1
    <3>3. 2 * c'.retryCount + Len(c'.hand) <= 2 * w + 1
      BY <1>5, <1>7, <1>14, <3>2
    <3> QED
      BY <1>5, <2>1, <3>3 DEF CountFits
  <2>2. CASE ~(p.vers = 13 /\ c'.pc # "hs")
    BY <1>5, <1>7, <2>2 DEF CountFits
  <2> QED
    BY <2>1, <2>2
<1>22. Stands(c', p.vers, s, b, w)
  BY <1>5, <1>16, <1>19, <1>20, <1>21 DEF Stands
<1>23. Way(InFlight', b, w, p, c'.hellos)
  BY <1>2, <1>3
<1> QED
  BY <1>22, <1>23 DEF Going

(* The ChangeCipherSpec of TLS 1.2 changes the keys where it is expected. *)
LEMMA LegalTakeCCS ==
  ASSUME LegalInv, KeyInv, DataInv, TakeRecord, Record.typ = "ccs", p.legal
  PROVE  Going(c', InFlight', p)
<1>1. /\ Fetch /\ Record \in Recs /\ c'.hand = c.hand /\ c'.keys = c.keys + 1 /\ c'.step = c.step + 1
      /\ c'.handshakes = c.handshakes /\ c'.vers = c.vers /\ IsConn(c) /\ FlightType
  BY TakeIs DEF DataInv
<1>2. /\ c'.retryCount = Counted(Record) /\ c'.hellos = c.hellos /\ c'.complete = c.complete
      /\ c'.input = c.input /\ (c.pc \in {"hs", "post"} => c'.pc = c.pc)
  BY <1>1, TakeMore
<1>3. PICK s, a, u, b, w : Placed(s, a, u, b, w) /\ Way(InFlight', b, w, p, c.hellos)
  BY <1>1, FetchPlace
<1>4. NeedsRecord /\ c.input = <<>>
  BY <1>1, FetchIs
<1>5. /\ LegalCCS(p.vers, a, u, Record, b, w) /\ w <= maxUselessRecords /\ w \in Nat
      /\ Stands(c, p.vers, s, a, u) /\ b \in Spot
  BY <1>3 DEF Placed, LegalRecord, LegalHandshake, LegalData, LegalAlert
<1>6. RecordError(Record) = "none" /\ ~Ignored(Record)
  BY DEF TakeRecord
<1>7. c.vers # 13 /\ (c.vers # 13 => ExpectCCS)
  BY <1>1, <1>6, ErrorIs DEF Ignored
<1>8. p.vers = 12 /\ c.step = 3 /\ c.hand = <<>> /\ a = s /\ c.pc = "hs"
  BY <1>4, <1>5, <1>7, NearBy DEF ExpectCCS
<1>9. /\ w = u /\ b.step = 4 /\ b.half = "none" /\ b.rounds = a.rounds /\ b.keys = a.keys + 1
  BY <1>5, <1>8 DEF LegalCCS
<1>10. ReaderAt(c, p.vers, s) /\ ReaderFits(c, p.vers) /\ CountFits(c, p.vers, u)
  BY <1>5 DEF Stands
<1>11. c'.retryCount = c.retryCount
  BY <1>2 DEF Counted, Advancing
<1>12. s.rounds = c.hellos /\ s.keys = c.keys
  BY <1>8, <1>10 DEF ReaderAt
<1>13. ReaderAt(c', p.vers, b)
  <2>1. c'.step = 4 /\ c'.step \in 1..Len(Script(p.vers))
    BY <1>1, <1>8, ScriptIs
  <2>2. b.keys = c'.keys
    BY <1>1, <1>8, <1>9, <1>12
  <2>3. c'.pc = "hs" /\ b.rounds = c'.hellos
    BY <1>2, <1>8, <1>9, <1>12
  <2> QED
    BY <1>5, <1>9, <2>1, <2>2, <2>3 DEF ReaderAt
<1>14. ReaderFits(c', p.vers)
  BY <1>1, <1>2, <1>8, <1>10, <1>11 DEF ReaderFits
<1>15. CountFits(c', p.vers, w)
  BY <1>8, <1>9, <1>10, <1>11 DEF CountFits
<1>16. Path(c'.hand, b, b, MsgSteps(p.vers, c'.hellos))
  BY <1>1, <1>8, PathEmpty
<1>17. Stands(c', p.vers, b, b, w)
  BY <1>5, <1>13, <1>14, <1>15, <1>16 DEF Stands
<1>18. Way(InFlight', b, w, p, c'.hellos)
  BY <1>2, <1>3
<1> QED
  BY <1>17, <1>18 DEF Going

(* A record that passes the checks. *)
LEMMA LegalTake == ASSUME LegalInv, KeyInv, DataInv, TakeRecord PROVE LegalInv'
<1>1. IsConn(c) /\ FlightType
  BY DEF DataInv
<1>2. p' = p /\ Record.typ \in {"data", "handshake", "ccs"} /\ c'.inErr = "none"
  BY <1>1, TakeIs
<1>3. c'.hellos = c.hellos /\ c'.last \in {c.last, "none"}
  BY <1>1, TakeMore
<1>4. p.legal => Going(c', InFlight', p)
  BY <1>2, LegalTakeData, LegalTakeHalves, LegalTakeCCS
<1>5. c.hellos \in Nat /\ (p.legal => c'.last \notin Refusals) /\ "none" \notin Refusals
  BY <1>3 DEF LegalInv, Refusals
<1> QED
  BY <1>2, <1>3, <1>4, <1>5, LegalMove

(* A call that returns between two messages leaves the reader where it is. *)
LEMMA Rested ==
  ASSUME NEW d, NEW v, NEW s, NEW a, NEW u, Stands(c, v, s, a, u), c.pc # "hs",
         d.pc \in {"idle", "read"} \/ (d.pc = "peek" /\ v # 13 /\ d.input = <<>>), v = 13 => Len(c.hand) < 2,
         d.step = c.step, d.keys = c.keys, d.hellos = c.hellos, d.handshakes = c.handshakes, d.hand = c.hand,
         d.complete = c.complete, d.retryCount = c.retryCount
  PROVE  Stands(d, v, s, a, u)
<1>1. ReaderAt(c, v, s) /\ ReaderFits(c, v) /\ CountFits(c, v, u) /\ a \in Spot /\ Path(c.hand, s, a, MsgSteps(v, c.hellos))
  BY DEF Stands
<1>2. ReaderAt(d, v, s)
  BY <1>1 DEF ReaderAt
<1>3. ReaderFits(d, v)
  BY <1>1 DEF ReaderFits
<1>4. CountFits(d, v, u)
  BY <1>1 DEF CountFits
<1> QED
  BY <1>1, <1>2, <1>3, <1>4 DEF Stands

(* An earlier error, or data left in c.input. *)
LEMMA LegalRefused == ASSUME LegalInv, KeyInv, DataInv, ReadRefused PROVE LegalInv'
<1>1. NeedsRecord /\ ~MayRead /\ Rests /\ IsConn(c) /\ c.hellos \in Nat /\ p' = p
  BY DEF ReadRefused, Rests, DataInv, LegalInv
<1>2. c' = IF c.inErr # "none" THEN Return(c, c.inErr) ELSE Fail(c, "internal")
  BY DEF ReadRefused
<1>3. CASE c.inErr # "none"
  <2>1. PICK e : e = c.inErr
    OBVIOUS
  <2>2. c' = Return(c, e)
    BY <1>2, <1>3, <2>1
  <2>3. c'.inErr = c.inErr /\ c'.last = e /\ c'.hellos = c.hellos
    BY <1>1, <2>2, ReturnIs
  <2>4. p.legal => c'.inErr \notin Refusals /\ c'.last \notin Refusals
    BY <2>1, <2>3 DEF LegalInv
  <2> QED
    BY <1>1, <1>3, <2>3, <2>4, LegalMove
<1>4. CASE c.inErr = "none"
  <2>1. c' = Fail(c, "internal") /\ c.input # <<>>
    BY <1>1, <1>2, <1>4 DEF MayRead
  <2>2. c'.inErr = "internal" /\ c'.hellos = c.hellos
    BY <1>1, <2>1, FailIs
  <2>3. c.pc \in {"hs", "post", "peek"}
    BY <1>1, <2>1 DEF NeedsRecord
  <2>4. ~c.dead
    BY <2>3, Awake
  <2>5. ~p.legal
    BY <1>4, <2>1, <2>3, <2>4 DEF LegalInv, Going, Stands, ReaderFits
  <2> QED
    BY <1>1, <2>2, <2>5, LegalMove
<1> QED
  BY <1>3, <1>4

(* The end of the transport. *)
LEMMA LegalEOF == ASSUME LegalInv, KeyInv, DataInv, ReadEOF PROVE LegalInv'
<1>1. p' = p /\ IsConn(c) /\ c.hellos \in Nat /\ c' = Fail(c, "eof")
  BY DEF ReadEOF, DataInv, LegalInv
<1>2. c'.inErr = "eof" /\ c'.last = "eof" /\ c'.hellos = c.hellos
  BY <1>1, FailIs
<1>3. "eof" \notin Refusals
  BY DEF Refusals
<1> QED
  BY <1>1, <1>2, <1>3, LegalMove

(* A deadline. *)
LEMMA LegalTimeout == ASSUME LegalInv, KeyInv, DataInv, ReadTimeout PROVE LegalInv'
<1>1. p' = p /\ IsConn(c) /\ c.hellos \in Nat /\ c' = Return(c, "timeout") /\ NeedsRecord /\ Rests /\ c.inErr = "none"
  BY DEF ReadTimeout, DataInv, LegalInv, Rests, MayRead
<1>2. /\ c'.pc = "idle" /\ c'.last = "timeout" /\ c'.dead = (c.dead \/ c.pc = "hs") /\ c'.step = c.step
      /\ c'.keys = c.keys /\ c'.hand = c.hand /\ c'.retryCount = c.retryCount
      /\ c'.complete = c.complete /\ c'.handshakes = c.handshakes /\ c'.hellos = c.hellos /\ c'.inErr = c.inErr
  BY <1>1, ReturnIs
<1>3. "timeout" \notin Refusals /\ "none" \notin Refusals
  BY DEF Refusals
<1>4. ASSUME p.legal, ~c'.dead PROVE Going(c', InFlight', p)
  <2>1. c.pc # "hs" /\ ~c.dead
    BY <1>2, <1>4
  <2>2. PICK s, a, u : Stands(c, p.vers, s, a, u) /\ Way(InFlight, a, u, p, c.hellos)
    BY <1>1, <1>4, <2>1 DEF LegalInv, Going
  <2>3. p.vers = 13 => Len(c.hand) < 2
    BY <1>1, <2>1, <2>2 DEF Stands, ReaderFits, NeedsRecord, ExpectCCS
  <2>4. Stands(c', p.vers, s, a, u)
    BY <1>2, <2>1, <2>2, <2>3, Rested
  <2>5. Way(InFlight', a, u, p, c'.hellos)
    BY <1>1, <1>2, <2>2, RestPath
  <2> QED
    BY <2>4, <2>5 DEF Going
<1> QED
  BY <1>1, <1>2, <1>3, <1>4, LegalMove

(* A new call of Read. *)
LEMMA LegalStart == ASSUME LegalInv, KeyInv, DataInv, StartRead PROVE LegalInv'
<1>1. /\ p' = p /\ IsConn(c) /\ c.hellos \in Nat /\ c' = [c EXCEPT !.pc = "read"] /\ c.pc = "idle" /\ ~c.dead /\ Rests
  BY DEF StartRead, DataInv, LegalInv, Rests
<1>2. /\ c'.pc = "read" /\ c'.last = c.last /\ c'.dead = c.dead /\ c'.step = c.step
      /\ c'.keys = c.keys /\ c'.hand = c.hand /\ c'.retryCount = c.retryCount
      /\ c'.complete = c.complete /\ c'.handshakes = c.handshakes /\ c'.hellos = c.hellos /\ c'.inErr = c.inErr
  BY <1>1 DEF IsConn
<1>3. ASSUME p.legal, c.inErr = "none" PROVE Going(c', InFlight', p)
  <2>2. PICK s, a, u : Stands(c, p.vers, s, a, u) /\ Way(InFlight, a, u, p, c.hellos)
    BY <1>1, <1>3 DEF LegalInv, Going
  <2>3. p.vers = 13 => Len(c.hand) < 2
    BY <1>1, <2>2 DEF Stands, ReaderFits
  <2>4. Stands(c', p.vers, s, a, u)
    BY <1>1, <1>2, <2>2, <2>3, Rested
  <2>5. Way(InFlight', a, u, p, c'.hellos)
    BY <1>1, <1>2, <2>2, RestPath
  <2> QED
    BY <2>4, <2>5 DEF Going
<1>4. p.legal => c.inErr \notin Refusals /\ c.last \notin Refusals
  BY DEF LegalInv
<1> QED
  BY <1>1, <1>2, <1>3, <1>4, LegalMove

(* In TLS 1.3 no alert that keeps to the protocol can be told from outside. *)
LEMMA NoAlertSeen ==
  ASSUME KeyInv, FlightType, ~c.dead, c.pc = "read", p.vers = 13, NEW rest, AlertWaits(rest),
         NEW s, NEW a, NEW u, Stands(c, p.vers, s, a, u), Way(InFlight, a, u, p, c.hellos)
  PROVE  FALSE
<1>1. raw # <<>> /\ OuterType(Head(raw)) = "alert" /\ raw \in Seq(Recs) /\ wire \in Seq(Recs)
  BY DEF AlertWaits, FlightType
<1>2. Head(raw) \in Recs
  BY <1>1, HeadTailProperties
<1>3. PICK r \in Recs : r = Head(raw)
  BY <1>2
<1>4. r.typ = "alert" /\ r.keys = 0
  BY <1>1, <1>3 DEF OuterType, Recs, RecType
<1>5. PICK e : Path(InFlight, <<a, u>>, <<e, p.useless>>, RecSteps(p.vers, c.hellos))
  BY DEF Way
<1>6. InFlight \in Seq(Recs) /\ InFlight # <<>> /\ Head(InFlight) = r
  BY <1>1, <1>3, ConcatHeadTail, ConcatProperties DEF InFlight
<1>7. PICK m : <<<<a, u>>, r, m>> \in RecSteps(p.vers, c.hellos)
  BY <1>5, <1>6, PathTail
<1>8. PICK b, w : LegalRecord(p.vers, c.hellos, a, u, r, b, w)
  BY <1>7, RecStepIs
<1>9. r.keys = a.keys
  BY <1>4, <1>8 DEF LegalRecord, LegalHandshake, LegalData, LegalAlert, LegalCCS
<1>10. /\ c.hand \in Seq(HalfType) /\ s.half = "none" /\ Path(c.hand, s, a, MsgSteps(p.vers, c.hellos))
       /\ Len(c.hand) < 2 /\ s.keys = c.keys /\ p.vers \in {12, 13}
  BY DEF Stands, ReaderAt, ReaderFits, KeyInv, Keyed, KeyType, HandType
<1>11. a.keys = s.keys
  BY <1>10, NearShort
<1>12. c.keys >= 2
  BY DEF KeyInv, Keyed, Aligned
<1> QED
  BY <1>4, <1>9, <1>10, <1>11, <1>12

(* Read copies bytes, and looks ahead for an alert. *)
LEMMA LegalBytes == ASSUME LegalInv, KeyInv, DataInv, NEW n, ReadBytes(n) PROVE LegalInv'
<1> DEFINE rest == SubSeq(c.input, n + 1, Len(c.input))
           head == SubSeq(c.input, 1, n)
           d == [c EXCEPT !.input = rest, !.held = head]
           e == [d EXCEPT !.pc = "peek"]
<1>1. /\ p' = p /\ IsConn(c) /\ c.hellos \in Nat /\ c.pc = "read" /\ Rests /\ FlightType
      /\ c' = IF AlertWaits(rest) THEN e ELSE Return(d, "none")
  BY DEF ReadBytes, DataInv, LegalInv, Rests
<1> HIDE DEF rest, head
<1>2. /\ IsConn(d) /\ d.pc = c.pc /\ d.last = c.last /\ d.dead = c.dead /\ d.step = c.step /\ d.input = rest
      /\ d.keys = c.keys /\ d.hand = c.hand /\ d.retryCount = c.retryCount
      /\ d.complete = c.complete /\ d.handshakes = c.handshakes /\ d.hellos = c.hellos /\ d.inErr = c.inErr
  BY <1>1 DEF IsConn
<1> HIDE DEF d
<1>3. /\ e.pc = "peek" /\ e.last = c.last /\ e.dead = c.dead /\ e.step = c.step /\ e.input = rest
      /\ e.keys = c.keys /\ e.hand = c.hand /\ e.retryCount = c.retryCount
      /\ e.complete = c.complete /\ e.handshakes = c.handshakes /\ e.hellos = c.hellos /\ e.inErr = c.inErr
  BY <1>2 DEF IsConn
<1> HIDE DEF e
<1>4. ~c.dead
  BY <1>1, Awake
<1>5. /\ c'.pc = (IF AlertWaits(rest) THEN "peek" ELSE "idle") /\ c'.last \in {c.last, "none"} /\ c'.step = c.step
      /\ c'.input = rest /\ c'.keys = c.keys /\ c'.hand = c.hand /\ c'.retryCount = c.retryCount
      /\ c'.complete = c.complete /\ c'.handshakes = c.handshakes /\ c'.hellos = c.hellos /\ c'.inErr = c.inErr
  <2>1. CASE AlertWaits(rest)
    BY <1>1, <1>3, <2>1
  <2>2. CASE ~AlertWaits(rest)
    <3>1. c' = Return(d, "none")
      BY <1>1, <2>2
    <3>2. /\ c'.pc = "idle" /\ c'.last = "none" /\ c'.step = d.step
          /\ c'.input = d.input /\ c'.keys = d.keys /\ c'.hand = d.hand /\ c'.retryCount = d.retryCount
          /\ c'.complete = d.complete /\ c'.handshakes = d.handshakes /\ c'.hellos = d.hellos /\ c'.inErr = d.inErr
      BY <1>2, <3>1, ReturnIs
    <3> QED
      BY <1>2, <2>2, <3>2
  <2> QED
    BY <2>1, <2>2
<1>6. ASSUME p.legal, c.inErr = "none" PROVE Going(c', InFlight', p)
  <2>1. PICK s, a, u : Stands(c, p.vers, s, a, u) /\ Way(InFlight, a, u, p, c.hellos)
    BY <1>4, <1>6 DEF LegalInv, Going
  <2>2. p.vers = 13 => Len(c.hand) < 2
    BY <1>1, <2>1 DEF Stands, ReaderFits
  <2>3. c'.pc = "idle" \/ (c'.pc = "peek" /\ p.vers # 13 /\ c'.input = <<>>)
    <3>1. CASE AlertWaits(rest)
      <4>1. p.vers # 13
        BY <1>1, <1>4, <2>1, <3>1, NoAlertSeen
      <4>2. rest = <<>>
        BY <3>1 DEF AlertWaits
      <4> QED
        BY <1>5, <3>1, <4>1, <4>2
    <3> QED
      BY <1>5, <3>1
  <2>4. Stands(c', p.vers, s, a, u)
    BY <1>1, <1>5, <2>1, <2>2, <2>3, Rested
  <2>5. Way(InFlight', a, u, p, c'.hellos)
    BY <1>1, <1>5, <2>1, RestPath
  <2> QED
    BY <2>4, <2>5 DEF Going
<1>7. "none" \notin Refusals /\ (p.legal => c.inErr \notin Refusals /\ c.last \notin Refusals)
  BY DEF LegalInv, Refusals
<1>8. p.legal => c'.inErr \notin Refusals /\ c'.last \notin Refusals
  BY <1>5, <1>7
<1> QED
  BY <1>1, <1>5, <1>6, <1>8, LegalMove

(* The first message of c.hand, and what c.hand holds behind it. *)
FirstIs(s, a, b) ==
    /\ Whole(p.vers, c.hellos, s, c.hand[1], b)
    /\ Path(SubSeq(c.hand, 3, Len(c.hand)), b, a, MsgSteps(p.vers, c.hellos))
    /\ b.keys = c.keys \/ SubSeq(c.hand, 3, Len(c.hand)) = <<>>

(* The first message of c.hand is one the peer may send here. *)
LEMMA FirstInHand ==
  ASSUME KeyInv, NEW s, NEW a, NEW u, Stands(c, p.vers, s, a, u), Len(c.hand) >= 2
  PROVE  \E b : FirstIs(s, a, b)
<1>1. /\ c.hand \in Seq(HalfType) /\ SameKeys(c.hand, c.keys) /\ p.vers \in {12, 13}
      /\ s.half = "none" /\ Path(c.hand, s, a, MsgSteps(p.vers, c.hellos))
  BY DEF Stands, ReaderAt, KeyInv, Keyed, KeyType, HandType
<1>2. PICK x, b : /\ <<s, c.hand[1], x>> \in MsgSteps(p.vers, c.hellos) /\ <<x, c.hand[2], b>> \in MsgSteps(p.vers, c.hellos)
                  /\ Path(SubSeq(c.hand, 3, Len(c.hand)), b, a, MsgSteps(p.vers, c.hellos))
  BY <1>1, PathTwo
<1>3. PICK f, g, t : f = c.hand[1] /\ g = c.hand[2] /\ t = SubSeq(c.hand, 3, Len(c.hand))
  OBVIOUS
<1>4. <<s, f, x>> \in MsgSteps(p.vers, c.hellos) /\ <<x, g, b>> \in MsgSteps(p.vers, c.hellos)
  BY <1>2, <1>3
<1>5. Whole(p.vers, c.hellos, s, f, b)
  BY <1>1, <1>4, WholeMessage
<1>6. b.half = "none"
  BY <1>5 DEF Whole
<1>7. t \in Seq(HalfType) /\ SameKeys(t, c.keys)
  BY <1>1, <1>3, HeldSub
<1>8. ASSUME t # <<>> PROVE b.keys = c.keys
  <2>1. PICK m : <<b, Head(t), m>> \in MsgSteps(p.vers, c.hellos)
    BY <1>2, <1>3, <1>7, <1>8, PathTail
  <2>2. Head(t).keys = b.keys
    BY <2>1, MsgStepIs
  <2>3. Len(t) \in Nat /\ Len(t) # 0 /\ Head(t) = t[1]
    BY <1>7, <1>8, EmptySeq, LenProperties
  <2>4. t[1].keys = c.keys
    BY <1>7, <2>3 DEF SameKeys
  <2> QED
    BY <2>2, <2>3, <2>4
<1>9. FirstIs(s, a, b)
  BY <1>2, <1>3, <1>5, <1>8 DEF FirstIs
<1> QED
  BY <1>9

(* The message of a handshake is the one that is waited for. *)
LEMMA ScriptMessage ==
  ASSUME NEW v \in {12, 13}, NEW n \in Nat, NEW s \in Spot, s.step \in 1..Len(Script(v)),
         NEW h, NEW b, Whole(v, n, s, h, b)
  PROVE  /\ h.kind = Script(v)[s.step] /\ b.step = s.step + 1
         /\ h.kind = "Finished" <=> s.step = Len(Script(v))
         /\ h.kind = "ServerHello" <=> s.step = 1
<1>1. h.kind \in May(v, s.step) /\ b.step = After(v, s.step, h.kind)
  BY DEF Whole
<1>2. PICK k : k = h.kind
  OBVIOUS
<1>3. PICK i \in Nat : i = s.step
  BY DEF Spot
<1>4. k \in May(v, i) /\ b.step = After(v, i, k)
  BY <1>1, <1>2, <1>3
<1>5. CASE v = 13
  <2>0. i \in 1..3
    <3>1. Len(Script(v)) = 3
      BY <1>5, ScriptIs
    <3> QED
      BY <1>3, <3>1
  <2>1. i = 1 \/ i = 2 \/ i = 3
    BY <2>0
  <2>2. /\ i = 1 => k = "ServerHello"
        /\ i = 2 => k = "EncryptedExtensions"
        /\ i = 3 => k = "Finished"
    BY <1>4, <1>5, <2>1, MayIs
  <2>3. k \notin PostHandshake(v) /\ k # "HelloRequest"
    BY <1>5, <2>1, <2>2 DEF PostHandshake
  <2>4. b.step = i + 1
    BY <1>4, <2>3 DEF After
  <2>5. k = Script(v)[i] /\ (k = "Finished" <=> i = Len(Script(v))) /\ (k = "ServerHello" <=> i = 1)
    BY <1>5, <2>1, <2>2, ScriptIs
  <2> QED
    BY <1>2, <1>3, <2>4, <2>5
<1>6. CASE v = 12
  <2>0. i \in 1..4
    <3>1. Len(Script(v)) = 4
      BY <1>6, ScriptIs
    <3> QED
      BY <1>3, <3>1
  <2>1. i = 1 \/ i = 2 \/ i = 3 \/ i = 4
    BY <2>0
  <2>2. /\ i = 1 => k = "ServerHello"
        /\ i = 2 => k = "ServerHelloDone"
        /\ i # 3
        /\ i = 4 => k = "Finished"
    <3>1. i # 3 /\ k = Script(v)[i]
      <4>1. i \in Nat \ {0} /\ i <= Len(Script(v))
        BY <2>1, <1>6, ScriptIs
      <4> QED
        BY <1>4, <1>6, <4>1, MayIs
    <3> QED
      BY <1>6, <2>1, <3>1, ScriptIs
  <2>3. k \notin PostHandshake(v) /\ k # "HelloRequest"
    BY <1>6, <2>1, <2>2 DEF PostHandshake
  <2>4. b.step = i + 1
    BY <1>4, <2>3 DEF After
  <2>5. k = Script(v)[i] /\ (k = "Finished" <=> i = Len(Script(v))) /\ (k = "ServerHello" <=> i = 1)
    BY <1>6, <2>1, <2>2, ScriptIs
  <2> QED
    BY <1>2, <1>3, <2>4, <2>5
<1> QED
  BY <1>5, <1>6

(* What HandshakeMessage does, by its fields. *)
Progress(kind, changes) ==
    \/ kind # Script(p.vers)[c.step]
    \/ changes /\ SubSeq(c.hand, 3, Len(c.hand)) # <<>>
    \/ /\ c'.hand = SubSeq(c.hand, 3, Len(c.hand)) /\ c'.step = c.step + 1 /\ c'.hellos = c.hellos
       /\ c'.keys = (IF changes THEN c.keys + 1 ELSE c.keys) /\ c'.input = c.input /\ c'.retryCount = c.retryCount
       /\ c'.inErr = c.inErr /\ c'.last = c.last
       /\ IF kind # "Finished" THEN c'.pc = "hs"
          ELSE /\ c'.complete /\ c'.handshakes = c.handshakes + 1
               /\ c'.pc = IF c.handshakes = 0 THEN "idle" ELSE IF c'.hand # <<>> THEN "post" ELSE "read"

(* The fields that a message of the handshake changes. *)
LEMMA HandshakeIs ==
  ASSUME IsConn(c), HandshakeMessage
  PROVE  Progress(c.hand[1].kind, p.vers = 13 /\ c.hand[1].kind \in KeyChanging) /\ c'.hellos = c.hellos
<1> DEFINE kind == c.hand[1].kind
           changes == p.vers = 13 /\ kind \in KeyChanging
           more == IF changes THEN c.keys + 1 ELSE c.keys
           next == [Taken EXCEPT !.vers = p.vers,
                                 !.step = @ + 1,
                                 !.keys = IF changes THEN @ + 1 ELSE @]
           done == [next EXCEPT !.complete = TRUE, !.handshakes = @ + 1]
           idle == [done EXCEPT !.pc = "idle"]
           rest == SubSeq(c.hand, 3, Len(c.hand))
<1>1. /\ c.pc = "hs"
      /\ c' = IF kind # Script(p.vers)[c.step] THEN Return(Taken, "unexpected")
              ELSE IF changes /\ ~MayChangeKeys(Taken) THEN Return(Taken, "keychange")
              ELSE IF kind # "Finished" THEN next
              ELSE IF c.handshakes = 0 THEN idle
              ELSE Loop(done)
  BY DEF HandshakeMessage
<1>6. /\ IsConn(Taken) /\ Taken.hand = rest /\ Taken.last = c.last
      /\ Taken.step = c.step /\ Taken.keys = c.keys /\ Taken.pc = c.pc /\ Taken.hellos = c.hellos
      /\ Taken.handshakes = c.handshakes /\ Taken.inErr = c.inErr /\ Taken.input = c.input
      /\ Taken.retryCount = c.retryCount
  BY TakenIs
<1>8. MayChangeKeys(Taken) = (rest = <<>>)
  BY <1>6 DEF MayChangeKeys
<1> HIDE DEF kind, changes, rest
<1>9. /\ IsConn(next) /\ next.hand = rest /\ next.last = c.last /\ next.hellos = c.hellos
      /\ next.step = c.step + 1 /\ next.keys = more /\ next.pc = c.pc /\ next.input = c.input
      /\ next.handshakes = c.handshakes /\ next.inErr = c.inErr /\ next.retryCount = c.retryCount
  BY <1>6 DEF IsConn
<1> HIDE DEF next
<1>10. /\ IsConn(done) /\ done.hand = rest /\ done.last = c.last /\ done.hellos = c.hellos
       /\ done.step = c.step + 1 /\ done.keys = more /\ done.pc = c.pc /\ done.input = c.input
       /\ done.handshakes = c.handshakes + 1 /\ done.inErr = c.inErr /\ done.retryCount = c.retryCount /\ done.complete
  BY <1>9 DEF IsConn
<1> HIDE DEF done
<1>11. /\ idle.hand = rest /\ idle.last = c.last /\ idle.hellos = c.hellos
       /\ idle.step = c.step + 1 /\ idle.keys = more /\ idle.pc = "idle" /\ idle.input = c.input
       /\ idle.handshakes = c.handshakes + 1 /\ idle.inErr = c.inErr /\ idle.retryCount = c.retryCount /\ idle.complete
  BY <1>10 DEF IsConn
<1> HIDE DEF idle, more
<1>12. CASE kind # Script(p.vers)[c.step] \/ (changes /\ ~MayChangeKeys(Taken))
  <2>1. c' = Return(Taken, "unexpected") \/ c' = Return(Taken, "keychange")
    BY <1>1, <1>12
  <2>2. c'.hellos = Taken.hellos
    BY <1>6, <2>1, ReturnIs
  <2>3. Progress(kind, changes)
    BY <1>8, <1>12 DEF Progress, rest
  <2> QED
    BY <1>6, <2>2, <2>3 DEF kind, changes
<1>13. CASE kind = Script(p.vers)[c.step] /\ ~(changes /\ ~MayChangeKeys(Taken))
  <2>1. /\ c'.hand = rest /\ c'.step = c.step + 1 /\ c'.hellos = c.hellos
        /\ c'.keys = more /\ c'.input = c.input /\ c'.retryCount = c.retryCount
        /\ c'.inErr = c.inErr /\ c'.last = c.last
        /\ IF kind # "Finished" THEN c'.pc = "hs"
           ELSE /\ c'.complete /\ c'.handshakes = c.handshakes + 1
                /\ c'.pc = IF c.handshakes = 0 THEN "idle" ELSE IF rest # <<>> THEN "post" ELSE "read"
    <3>1. CASE kind # "Finished"
      <4>1. c' = next
        BY <1>1, <1>13, <3>1
      <4> QED
        BY <1>1, <1>9, <3>1, <4>1
    <3>2. CASE kind = "Finished" /\ c.handshakes = 0
      <4>1. c' = idle
        BY <1>1, <1>13, <3>2
      <4> QED
        BY <1>11, <3>2, <4>1
    <3>3. CASE kind = "Finished" /\ c.handshakes # 0
      <4>1. c' = Loop(done)
        BY <1>1, <1>13, <3>3
      <4> QED
        BY <1>10, <3>3, <4>1, LoopIs
    <3> QED
      BY <3>1, <3>2, <3>3
  <2>2. Progress(kind, changes)
    BY <2>1 DEF Progress, rest, more
  <2> QED
    BY <2>1, <2>2 DEF kind, changes
<1> QED
  BY <1>12, <1>13

(* A message of the handshake is the expected one, and keys change behind it. *)
LEMMA LegalScript == ASSUME LegalInv, KeyInv, DataInv, HandshakeMessage PROVE LegalInv'
<1>1. /\ c.pc = "hs" /\ Len(c.hand) >= 2 /\ Rests /\ IsConn(c) /\ p' = p /\ c.hellos \in Nat
      /\ p.vers \in {12, 13} /\ c.handshakes \in Nat /\ c.keys \in Nat
  BY DEF HandshakeMessage, Rests, DataInv, LegalInv, KeyInv, Keyed, KeyType
<1>2. ~c.dead /\ c.inErr = "none"
  BY <1>1, Awake
<1>3. PICK kind, changes : kind = c.hand[1].kind /\ changes = (p.vers = 13 /\ c.hand[1].kind \in KeyChanging)
  OBVIOUS
<1>4. Progress(kind, changes) /\ c'.hellos = c.hellos
  BY <1>1, <1>3, HandshakeIs
<1>5. ASSUME p.legal PROVE Going(c', InFlight', p) /\ c'.inErr = c.inErr /\ c'.last = c.last
  <2>1. PICK s, a, u : Stands(c, p.vers, s, a, u) /\ Way(InFlight, a, u, p, c.hellos)
    BY <1>2, <1>5 DEF LegalInv, Going
  <2>2. PICK b : FirstIs(s, a, b)
    BY <1>1, <2>1, FirstInHand
  <2>3. PICK rest : rest = SubSeq(c.hand, 3, Len(c.hand))
    OBVIOUS
  <2>4. ReaderAt(c, p.vers, s) /\ ReaderFits(c, p.vers) /\ CountFits(c, p.vers, u) /\ a \in Spot
    BY <2>1 DEF Stands
  <2>5. PICK i \in Nat : i = s.step
    BY <2>4 DEF ReaderAt, Spot
  <2>6. /\ s \in Spot /\ s.half = "none" /\ s.keys = c.keys /\ c.step = i /\ s.step \in 1..Len(Script(p.vers))
        /\ s.rounds = IF i = 1 THEN c.hellos - 1 ELSE c.hellos
    BY <1>1, <2>4, <2>5 DEF ReaderAt
  <2>7. Whole(p.vers, c.hellos, s, c.hand[1], b)
    BY <2>2 DEF FirstIs
  <2>8. /\ kind = Script(p.vers)[i] /\ b.step = i + 1
        /\ kind = "Finished" <=> i = Len(Script(p.vers))
        /\ kind = "ServerHello" <=> i = 1
    <3>1. PICK h : h = c.hand[1]
      OBVIOUS
    <3>2. Whole(p.vers, c.hellos, s, h, b)
      BY <2>7, <3>1
    <3>3. /\ h.kind = Script(p.vers)[s.step] /\ b.step = s.step + 1
          /\ h.kind = "Finished" <=> s.step = Len(Script(p.vers))
          /\ h.kind = "ServerHello" <=> s.step = 1
      BY <1>1, <2>6, <3>2, ScriptMessage
    <3>4. kind = h.kind
      BY <1>3, <3>1
    <3> QED
      BY <2>5, <3>3, <3>4, Zenon
  <2>9. /\ b \in Spot /\ b.half = "none" /\ b.keys = (IF changes THEN c.keys + 1 ELSE c.keys)
        /\ b.rounds = (IF i = 1 THEN s.rounds + 1 ELSE s.rounds)
    BY <1>3, <2>6, <2>7, <2>8 DEF Whole
  <2>10. b.rounds = c.hellos
    BY <1>1, <2>6, <2>9
  <2>11. Path(rest, b, a, MsgSteps(p.vers, c.hellos)) /\ (b.keys = c.keys \/ rest = <<>>)
    BY <2>2, <2>3 DEF FirstIs
  <2>12. ~(changes /\ rest # <<>>)
    BY <1>1, <2>9, <2>11
  <2>13. /\ c'.hand = rest /\ c'.step = i + 1
         /\ c'.keys = b.keys /\ c'.input = <<>> /\ c'.retryCount = c.retryCount
         /\ c'.inErr = c.inErr /\ c'.last = c.last
         /\ IF kind # "Finished" THEN c'.pc = "hs"
            ELSE /\ c'.complete /\ c'.handshakes = c.handshakes + 1
                 /\ c'.pc = IF c.handshakes = 0 THEN "idle" ELSE IF c'.hand # <<>> THEN "post" ELSE "read"
    <3>1. c.input = <<>>
      BY <1>1, <2>4 DEF ReaderFits
    <3> QED
      BY <1>4, <2>3, <2>6, <2>8, <2>9, <2>12, <3>1 DEF Progress
  <2>14. Path(c'.hand, b, a, MsgSteps(p.vers, c'.hellos))
    BY <1>4, <2>11, <2>13
  <2>15. PICK l \in Nat : l = Len(Script(p.vers))
    BY <1>1, ScriptIs
  <2>16. i \in 1..l /\ l > 1
    BY <1>1, <2>5, <2>6, <2>15, ScriptIs
  <2>17. CASE kind # "Finished"
    <3>1. i + 1 \in 1..l /\ i + 1 # 1
      BY <2>8, <2>15, <2>16, <2>17
    <3>2. ReaderAt(c', p.vers, b)
      BY <1>4, <2>8, <2>9, <2>10, <2>13, <2>15, <2>17, <3>1 DEF ReaderAt
    <3>3. ReaderFits(c', p.vers)
      BY <1>4, <2>4, <2>13, <2>17 DEF ReaderFits
    <3>4. CountFits(c', p.vers, u)
      BY <1>1, <2>4, <2>13, <2>17 DEF CountFits
    <3>5. Stands(c', p.vers, b, a, u)
      BY <2>4, <2>14, <3>2, <3>3, <3>4 DEF Stands
    <3> QED
      BY <1>1, <1>4, <2>1, <2>13, <3>5, RestPath DEF Going
  <2>18. CASE kind = "Finished"
    <3>1. c'.pc \in {"idle", "read", "post"} /\ (c'.pc = "post" => c'.hand # <<>>) /\ c'.handshakes >= 1 /\ c'.complete
      BY <1>1, <2>13, <2>18
    <3>2. ReaderAt(c', p.vers, b)
      <4>1. b.step = Len(Script(p.vers)) + 1
        BY <2>8, <2>18
      <4> QED
        BY <1>4, <2>9, <2>10, <2>13, <3>1, <4>1 DEF ReaderAt
    <3>3. p.vers = 13 => c'.hand = <<>>
      BY <1>3, <2>12, <2>13, <2>18 DEF KeyChanging
    <3>4. p.vers = 13 => Len(c'.hand) = 0
      BY <3>3
    <3>5. ReaderFits(c', p.vers)
      BY <1>4, <2>4, <2>13, <3>1, <3>4 DEF ReaderFits
    <3>6. CountFits(c', p.vers, u)
      <4>1. c.retryCount <= u /\ c.retryCount \in Nat /\ u \in Nat /\ u <= maxUselessRecords
        BY <1>1, <2>4 DEF CountFits, ReaderFits
      <4>2. p.vers = 13 => 2 * c'.retryCount + Len(c'.hand) <= 2 * u + 1
        BY <2>13, <3>4, <4>1
      <4> QED
        BY <2>13, <4>1, <4>2 DEF CountFits
    <3>7. Stands(c', p.vers, b, a, u)
      BY <2>4, <2>14, <3>2, <3>5, <3>6 DEF Stands
    <3> QED
      BY <1>1, <1>4, <2>1, <2>13, <3>7, RestPath DEF Going
  <2> QED
    BY <2>17, <2>18
<1>6. p.legal => c.inErr \notin Refusals /\ c.last \notin Refusals
  BY DEF LegalInv
<1> QED
  BY <1>1, <1>4, <1>5, <1>6, LegalMove

(* What PostMessage13 does, by its fields. *)
LEMMA Post13Is ==
  ASSUME IsConn(c), PostMessage13
  PROVE  /\ c'.hellos = c.hellos
         /\ \/ c.retryCount + 1 > maxUselessRecords
            \/ c.hand[1].kind \notin PostHandshake(13)
            \/ c.hand[1].kind = "KeyUpdate" /\ SubSeq(c.hand, 3, Len(c.hand)) # <<>>
            \/ /\ c'.hand = SubSeq(c.hand, 3, Len(c.hand)) /\ c'.input = c.input
               /\ c'.keys = (IF c.hand[1].kind = "KeyUpdate" THEN c.keys + 1 ELSE c.keys)
               /\ c'.retryCount = c.retryCount + 1 /\ c'.step = c.step
               /\ c'.inErr = c.inErr /\ c'.last = c.last /\ c'.complete = c.complete /\ c'.handshakes = c.handshakes
               /\ c'.pc = IF c'.hand # <<>> THEN "post" ELSE "read"
<1> DEFINE kind == c.hand[1].kind
           d == [Taken EXCEPT !.retryCount = @ + 1]
           e == [d EXCEPT !.keys = @ + 1]
           rest == SubSeq(c.hand, 3, Len(c.hand))
<1>1. c' = IF d.retryCount > maxUselessRecords THEN Fail(d, "ignored")
           ELSE CASE kind = "NewSessionTicket" -> Loop(d)
                  [] kind = "KeyUpdate" -> IF MayChangeKeys(d) THEN Loop(e)
                                           ELSE Return(d, "keychange")
                  [] OTHER -> Return(d, "unexpected")
  BY DEF PostMessage13
<1>5. /\ IsConn(Taken) /\ Taken.hand = rest /\ Taken.last = c.last /\ Taken.hellos = c.hellos
      /\ Taken.step = c.step /\ Taken.keys = c.keys /\ Taken.pc = c.pc /\ Taken.retryCount = c.retryCount
      /\ Taken.handshakes = c.handshakes /\ Taken.inErr = c.inErr /\ Taken.input = c.input /\ Taken.complete = c.complete
  BY TakenIs
<1> HIDE DEF kind, rest
<1>7. /\ IsConn(d) /\ d.hand = rest /\ d.last = c.last /\ d.hellos = c.hellos
      /\ d.step = c.step /\ d.keys = c.keys /\ d.pc = c.pc /\ d.retryCount = c.retryCount + 1
      /\ d.handshakes = c.handshakes /\ d.inErr = c.inErr /\ d.input = c.input /\ d.complete = c.complete
  BY <1>5 DEF IsConn
<1> HIDE DEF d
<1>8. /\ IsConn(e) /\ e.hand = rest /\ e.last = c.last /\ e.hellos = c.hellos
      /\ e.step = c.step /\ e.keys = c.keys + 1 /\ e.pc = c.pc /\ e.retryCount = c.retryCount + 1
      /\ e.handshakes = c.handshakes /\ e.inErr = c.inErr /\ e.input = c.input /\ e.complete = c.complete
  BY <1>7 DEF IsConn
<1> HIDE DEF e
<1>9. c'.hellos = c.hellos
  <2>1. \/ c' = Fail(d, "ignored") \/ c' = Loop(d) \/ c' = Loop(e)
        \/ c' = Return(d, "keychange") \/ c' = Return(d, "unexpected")
    BY <1>1
  <2>2. c' = Fail(d, "ignored") => c'.hellos = d.hellos
    BY <1>7, FailIs
  <2>3. c' = Loop(d) => c'.hellos = d.hellos
    BY <1>7, LoopIs
  <2>4. c' = Loop(e) => c'.hellos = e.hellos
    BY <1>8, LoopIs
  <2>5. c' = Return(d, "keychange") \/ c' = Return(d, "unexpected") => c'.hellos = d.hellos
    BY <1>7, ReturnIs
  <2> QED
    BY <1>7, <1>8, <2>1, <2>2, <2>3, <2>4, <2>5
<1>10. ASSUME ~(c.retryCount + 1 > maxUselessRecords), kind \in PostHandshake(13), ~(kind = "KeyUpdate" /\ rest # <<>>)
       PROVE  /\ c'.hand = rest /\ c'.input = c.input
              /\ c'.keys = (IF kind = "KeyUpdate" THEN c.keys + 1 ELSE c.keys)
              /\ c'.retryCount = c.retryCount + 1 /\ c'.step = c.step
              /\ c'.inErr = c.inErr /\ c'.last = c.last /\ c'.complete = c.complete /\ c'.handshakes = c.handshakes
              /\ c'.pc = IF rest # <<>> THEN "post" ELSE "read"
  <2>1. kind = "NewSessionTicket" \/ kind = "KeyUpdate"
    BY <1>10 DEF PostHandshake
  <2>2. CASE kind = "NewSessionTicket"
    <3>1. c' = Loop(d)
      BY <1>1, <1>7, <1>10, <2>2
    <3> QED
      BY <1>7, <2>2, <3>1, LoopIs
  <2>3. CASE kind = "KeyUpdate"
    <3>1. MayChangeKeys(d)
      BY <1>7, <1>10, <2>3 DEF MayChangeKeys
    <3>2. c' = Loop(e)
      BY <1>1, <1>7, <1>10, <2>3, <3>1
    <3> QED
      BY <1>8, <2>3, <3>2, LoopIs
  <2> QED
    BY <2>1, <2>2, <2>3
<1> QED
  BY <1>9, <1>10 DEF kind, rest

(* A ticket or a key update is within the limit, and ends its record when keys change. *)
LEMMA LegalPost13 == ASSUME LegalInv, KeyInv, DataInv, PostMessage13 PROVE LegalInv'
<1>1. /\ c.pc = "post" /\ c.vers = 13 /\ Len(c.hand) >= 2 /\ Rests /\ IsConn(c) /\ p' = p /\ c.hellos \in Nat
      /\ p.vers \in {12, 13} /\ c.keys \in Nat /\ c.vers \in {0, p.vers} /\ c.hand \in Seq(HalfType)
  BY DEF PostMessage13, Rests, DataInv, LegalInv, KeyInv, Keyed, KeyType, HandType
<1>2. ~c.dead /\ c.inErr = "none" /\ p.vers = 13
  BY <1>1, Awake
<1>3. c'.hellos = c.hellos
  BY <1>1, Post13Is
<1>5. ASSUME p.legal PROVE Going(c', InFlight', p) /\ c'.inErr = c.inErr /\ c'.last = c.last
  <2>1. PICK s, a, u : Stands(c, p.vers, s, a, u) /\ Way(InFlight, a, u, p, c.hellos)
    BY <1>2, <1>5 DEF LegalInv, Going
  <2>2. PICK b : FirstIs(s, a, b)
    BY <1>1, <2>1, FirstInHand
  <2>3. PICK rest, kind : rest = SubSeq(c.hand, 3, Len(c.hand)) /\ kind = c.hand[1].kind
    OBVIOUS
  <2>4. ReaderAt(c, p.vers, s) /\ ReaderFits(c, p.vers) /\ CountFits(c, p.vers, u) /\ a \in Spot
    BY <2>1 DEF Stands
  <2>5. s \in Spot /\ s.half = "none" /\ s.keys = c.keys /\ s.rounds = c.hellos /\ s.step = Len(Script(p.vers)) + 1
    BY <1>1, <1>2, <2>4 DEF ReaderAt
  <2>6. s.step = 4
    <3>1. PICK l \in Nat : l = 3 /\ l = Len(Script(p.vers))
      BY <1>2, ScriptIs
    <3>2. s.step = l + 1
      BY <2>5, <3>1, Zenon
    <3>3. l = 3
      BY <3>1
    <3> QED
      BY <3>2, <3>3
  <2>7. Whole(p.vers, c.hellos, s, c.hand[1], b)
    BY <2>2 DEF FirstIs
  <2>8. kind \in {"NewSessionTicket", "KeyUpdate"} /\ kind \in PostHandshake(13)
    <3>1. kind \in May(p.vers, s.step)
      BY <2>3, <2>7 DEF Whole
    <3>2. kind \in {"NewSessionTicket", "KeyUpdate"}
      BY <1>2, <2>6, <3>1, MayIs
    <3> QED
      BY <3>2 DEF PostHandshake
  <2>9. /\ b \in Spot /\ b.half = "none" /\ b.keys = (IF kind = "KeyUpdate" THEN c.keys + 1 ELSE c.keys)
        /\ b.rounds = s.rounds /\ b.step = After(p.vers, s.step, kind)
    BY <1>2, <2>3, <2>5, <2>7, <2>8 DEF Whole, KeyChanging
  <2>10. b.step = s.step
    BY <1>2, <2>8, <2>9 DEF After
  <2>11. Path(rest, b, a, MsgSteps(p.vers, c.hellos)) /\ (b.keys = c.keys \/ rest = <<>>)
    BY <2>2, <2>3 DEF FirstIs
  <2>12. ~(kind = "KeyUpdate" /\ rest # <<>>)
    BY <1>1, <2>9, <2>11
  <2>13. PICK l \in Nat : l = Len(c.hand)
    BY <1>1, LenProperties
  <2>14. /\ 2 * c.retryCount + l <= 2 * u + 1 /\ l >= 2 /\ u \in Nat /\ c.retryCount \in Nat
         /\ u <= maxUselessRecords /\ maxUselessRecords \in Nat
    BY <1>1, <1>2, <2>4, <2>13, RecordsAssumption DEF CountFits, ReaderFits
  <2>15. c.retryCount + 1 <= u /\ ~(c.retryCount + 1 > maxUselessRecords)
    BY <2>14
  <2>16. /\ c'.hand = rest /\ c'.input = c.input /\ c'.keys = b.keys
         /\ c'.retryCount = c.retryCount + 1
         /\ c'.inErr = c.inErr /\ c'.last = c.last /\ c'.complete = c.complete /\ c'.handshakes = c.handshakes
         /\ c'.pc = IF rest # <<>> THEN "post" ELSE "read"
    BY <1>1, <2>3, <2>8, <2>9, <2>12, <2>15, Post13Is
  <2>17. Len(rest) = l - 2
    BY <1>1, <2>3, <2>13, HeldSub
  <2>18. ReaderAt(c', p.vers, b)
    BY <1>3, <2>5, <2>9, <2>10, <2>16 DEF ReaderAt
  <2>19. ReaderFits(c', p.vers)
    <3>1. c.input = <<>> /\ c.complete /\ c.handshakes >= 1 /\ c.hellos \in Nat \ {0}
      BY <1>1, <2>4 DEF ReaderFits
    <3>2. c'.pc # "post" => Len(c'.hand) = 0
      BY <2>16
    <3>3. c'.retryCount \in Nat
      BY <2>14, <2>16
    <3> QED
      BY <1>3, <2>16, <3>1, <3>2, <3>3 DEF ReaderFits
  <2>20. CountFits(c', p.vers, u)
    <3>1. 2 * (c.retryCount + 1) + (l - 2) <= 2 * u + 1
      BY <2>14
    <3>2. 2 * c'.retryCount + Len(c'.hand) <= 2 * u + 1
      BY <2>16, <2>17, <3>1
    <3>3. c'.pc # "hs"
      BY <2>16
    <3> QED
      BY <1>2, <2>14, <3>2, <3>3 DEF CountFits
  <2>21. Path(c'.hand, b, a, MsgSteps(p.vers, c'.hellos))
    BY <1>3, <2>11, <2>16
  <2>22. Stands(c', p.vers, b, a, u)
    BY <2>4, <2>18, <2>19, <2>20, <2>21 DEF Stands
  <2> QED
    BY <1>1, <1>3, <2>1, <2>16, <2>22, RestPath DEF Going
<1>6. p.legal => c.inErr \notin Refusals /\ c.last \notin Refusals
  BY DEF LegalInv
<1> QED
  BY <1>1, <1>3, <1>5, <1>6, LegalMove

(* A further ClientHello takes nothing away from what is under way. *)
LEMMA WayMore ==
  ASSUME NEW rs, NEW a, NEW u, NEW q, NEW n \in Nat, Way(rs, a, u, q, n)
  PROVE  Way(rs, a, u, q, n + 1)
<1>1. PICK e : PeerAt(q, e, n) /\ Path(rs, <<a, u>>, <<e, q.useless>>, RecSteps(q.vers, n))
  BY DEF Way
<1>2. Path(rs, <<a, u>>, <<e, q.useless>>, RecSteps(q.vers, n + 1))
  BY <1>1, RecStepsMore, PathMore
<1>3. e \in Spot /\ Path(Tag(q.pend, q.keys), e, Final(q), MsgSteps(q.vers, n))
  BY <1>1 DEF PeerAt
<1>4. Path(Tag(q.pend, q.keys), e, Final(q), MsgSteps(q.vers, n + 1))
  BY <1>3, MsgStepsMore, PathMore
<1> QED
  BY <1>2, <1>3, <1>4 DEF Way, PeerAt

(* What PostMessage12 does, by its fields. *)
LEMMA Post12Is ==
  ASSUME IsConn(c), PostMessage12
  PROVE  \/ c.hand[1].kind # "HelloRequest" /\ c'.hellos = c.hellos
         \/ /\ c'.hand = SubSeq(c.hand, 3, Len(c.hand)) /\ c'.input = c.input /\ c'.keys = c.keys
            /\ c'.retryCount = c.retryCount /\ c'.inErr = c.inErr /\ c'.handshakes = c.handshakes
            /\ \/ c'.pc = "hs" /\ c'.step = 1 /\ c'.hellos = c.hellos + 1 /\ c'.last = c.last
               \/ c'.pc = "idle" /\ c'.complete = c.complete /\ c'.hellos = c.hellos /\ c'.last = "noreneg"
<1> DEFINE kind == c.hand[1].kind
           declined == c.policy = "never" \/ (c.policy = "once" /\ c.handshakes > 1)
           d == [Taken EXCEPT !.complete = FALSE, !.step = 1, !.pc = "hs", !.hellos = @ + 1]
           rest == SubSeq(c.hand, 3, Len(c.hand))
<1>1. c' = IF kind # "HelloRequest" THEN Return(Taken, "unexpected")
           ELSE IF declined THEN Return(Taken, "noreneg") ELSE d
  BY DEF PostMessage12
<1>2. /\ IsConn(Taken) /\ Taken.hand = rest /\ Taken.last = c.last /\ Taken.hellos = c.hellos
      /\ Taken.step = c.step /\ Taken.keys = c.keys /\ Taken.pc = c.pc /\ Taken.retryCount = c.retryCount
      /\ Taken.handshakes = c.handshakes /\ Taken.inErr = c.inErr /\ Taken.input = c.input /\ Taken.complete = c.complete
  BY TakenIs
<1> HIDE DEF kind, declined, rest
<1>3. /\ d.hand = rest /\ d.last = c.last /\ d.hellos = c.hellos + 1
      /\ d.step = 1 /\ d.keys = c.keys /\ d.pc = "hs" /\ d.retryCount = c.retryCount
      /\ d.handshakes = c.handshakes /\ d.inErr = c.inErr /\ d.input = c.input
  BY <1>2 DEF IsConn
<1> HIDE DEF d
<1>4. CASE kind # "HelloRequest"
  <2>1. c' = Return(Taken, "unexpected")
    BY <1>1, <1>4
  <2>2. c'.hellos = Taken.hellos
    BY <1>2, <2>1, ReturnIs
  <2> QED
    BY <1>2, <1>4, <2>2 DEF kind
<1>5. CASE kind = "HelloRequest" /\ declined
  <2>1. c' = Return(Taken, "noreneg")
    BY <1>1, <1>5
  <2>2. /\ c'.hand = Taken.hand /\ c'.input = Taken.input /\ c'.keys = Taken.keys
        /\ c'.retryCount = Taken.retryCount /\ c'.inErr = Taken.inErr /\ c'.handshakes = Taken.handshakes
        /\ c'.pc = "idle" /\ c'.complete = Taken.complete /\ c'.hellos = Taken.hellos /\ c'.last = "noreneg"
    BY <1>2, <2>1, ReturnIs
  <2> QED
    BY <1>2, <2>2 DEF rest
<1>6. CASE kind = "HelloRequest" /\ ~declined
  <2>1. c' = d
    BY <1>1, <1>6
  <2> QED
    BY <1>3, <2>1 DEF rest
<1> QED
  BY <1>4, <1>5, <1>6

(* A HelloRequest, declined or answered. *)
LEMMA LegalPost12 == ASSUME LegalInv, KeyInv, DataInv, PostMessage12 PROVE LegalInv'
<1>1. /\ c.pc = "post" /\ c.vers = 12 /\ Len(c.hand) >= 2 /\ Rests /\ IsConn(c) /\ p' = p /\ c.hellos \in Nat
      /\ p.vers \in {12, 13} /\ c.keys \in Nat /\ c.vers \in {0, p.vers} /\ c.hand \in Seq(HalfType)
  BY DEF PostMessage12, Rests, DataInv, LegalInv, KeyInv, Keyed, KeyType, HandType
<1>2. ~c.dead /\ c.inErr = "none" /\ p.vers = 12
  BY <1>1, Awake
<1>3. c'.hellos \in {c.hellos, c.hellos + 1}
  BY <1>1, Post12Is
<1>4. c'.hellos \in Nat /\ c.hellos <= c'.hellos
  BY <1>1, <1>3
<1>5. ASSUME p.legal PROVE Going(c', InFlight', p) /\ c'.inErr = c.inErr /\ c'.last \in {c.last, "noreneg"}
  <2>1. PICK s, a, u : Stands(c, p.vers, s, a, u) /\ Way(InFlight, a, u, p, c.hellos)
    BY <1>2, <1>5 DEF LegalInv, Going
  <2>2. ReaderAt(c, p.vers, s) /\ ReaderFits(c, p.vers) /\ CountFits(c, p.vers, u) /\ a \in Spot
        /\ Path(c.hand, s, a, MsgSteps(p.vers, c.hellos))
    BY <2>1 DEF Stands
  <2>3. s \in Spot /\ s.half = "none" /\ s.keys = c.keys /\ s.rounds = c.hellos
        /\ (s.step = Len(Script(p.vers)) + 1 \/ s.step = 1)
    BY <1>1, <2>2 DEF ReaderAt
  <2>4. s.step \in {1, 5}
    <3>1. PICK l \in Nat : l = 4 /\ l = Len(Script(p.vers))
      BY <1>2, ScriptIs
    <3>2. s.step = l + 1 \/ s.step = 1
      BY <2>3, <3>1, Zenon
    <3>3. l = 4
      BY <3>1
    <3> QED
      BY <3>2, <3>3
  <2>5. Path(c.hand, s, a, MsgSteps(12, c.hellos))
    BY <1>2, <2>2
  <2>6. /\ Len(c.hand) = 2 /\ a.step = 1 /\ a.half = "none" /\ a.rounds = c.hellos /\ a.keys = s.keys
        /\ c.hand[1].kind = "HelloRequest"
    BY <1>1, <2>3, <2>4, <2>5, NearLong
  <2>7. SubSeq(c.hand, 3, Len(c.hand)) = <<>>
    <3>1. SubSeq(c.hand, 3, Len(c.hand)) \in Seq(HalfType) /\ Len(SubSeq(c.hand, 3, Len(c.hand))) = Len(c.hand) - 2
      BY <1>1, HeldSub
    <3>2. Len(SubSeq(c.hand, 3, Len(c.hand))) = 0
      BY <2>6, <3>1
    <3> QED
      BY <3>1, <3>2, EmptySeq
  <2>8. /\ c'.hand = <<>> /\ c'.input = c.input /\ c'.keys = c.keys
        /\ c'.retryCount = c.retryCount /\ c'.inErr = c.inErr /\ c'.handshakes = c.handshakes
        /\ \/ c'.pc = "hs" /\ c'.step = 1 /\ c'.hellos = c.hellos + 1 /\ c'.last = c.last
           \/ c'.pc = "idle" /\ c'.complete = c.complete /\ c'.hellos = c.hellos /\ c'.last = "noreneg"
    BY <1>1, <2>6, <2>7, Post12Is
  <2>9. /\ c.input = <<>> /\ c.complete /\ c.handshakes >= 1 /\ c.retryCount \in Nat
        /\ c.retryCount <= u /\ u \in Nat /\ u <= maxUselessRecords
    BY <1>1, <1>2, <2>2 DEF ReaderFits, CountFits
  <2>10. c.hellos \in Nat \ {0}
    BY DEF LegalInv
  <2>11. CountFits(c', p.vers, u)
    BY <1>2, <2>8, <2>9 DEF CountFits
  <2>12. Path(c'.hand, a, a, MsgSteps(p.vers, c'.hellos))
    BY <2>8, PathEmpty
  <2>13. CASE c'.pc = "hs"
    <3>1. c'.step = 1 /\ c'.hellos = c.hellos + 1
      BY <2>8, <2>13
    <3>2. ReaderAt(c', p.vers, a)
      <4>1. 1 \in 1..Len(Script(p.vers))
        BY <1>2, ScriptIs
      <4>2. a.rounds = c'.hellos - 1
        BY <1>1, <2>6, <3>1
      <4> QED
        BY <2>2, <2>3, <2>6, <2>8, <2>13, <3>1, <4>1, <4>2 DEF ReaderAt
    <3>3. ReaderFits(c', p.vers)
      BY <2>8, <2>9, <2>10, <2>13, <3>1 DEF ReaderFits
    <3>4. Stands(c', p.vers, a, a, u)
      BY <2>2, <2>11, <2>12, <3>2, <3>3 DEF Stands
    <3>5. Way(InFlight', a, u, p, c'.hellos)
      BY <1>1, <2>1, <3>1, WayMore, RestPath
    <3> QED
      BY <2>8, <3>4, <3>5 DEF Going
  <2>14. CASE c'.pc = "idle"
    <3>1. c'.complete = c.complete /\ c'.hellos = c.hellos
      BY <2>8, <2>14
    <3>2. ReaderAt(c', p.vers, a)
      BY <1>2, <2>2, <2>3, <2>6, <2>8, <2>14, <3>1 DEF ReaderAt
    <3>3. ReaderFits(c', p.vers)
      BY <1>2, <2>8, <2>9, <2>10, <2>14, <3>1 DEF ReaderFits
    <3>4. Stands(c', p.vers, a, a, u)
      BY <2>2, <2>11, <2>12, <3>2, <3>3 DEF Stands
    <3>5. Way(InFlight', a, u, p, c'.hellos)
      BY <1>1, <2>1, <3>1, RestPath
    <3> QED
      BY <2>8, <3>4, <3>5 DEF Going
  <2> QED
    BY <2>8, <2>13, <2>14
<1>6. (p.legal => c.inErr \notin Refusals /\ c.last \notin Refusals) /\ "noreneg" \notin Refusals
  BY DEF LegalInv, Refusals
<1>7. p.legal => c'.inErr \notin Refusals /\ c'.last \notin Refusals
  BY <1>5, <1>6
<1> QED
  BY <1>1, <1>4, <1>5, <1>7, LegalMove

-----------------------------------------------------------------------------
(* The steps of the peer. *)

(* A path of two steps. *)
LEMMA PathPair ==
  ASSUME NEW u, Len(u) = 2, NEW a, NEW x, NEW b, NEW R, <<a, u[1], x>> \in R, <<x, u[2], b>> \in R
  PROVE  Path(u, a, b, R)
<1>1. PICK at : at = [i \in 1..3 |-> IF i = 1 THEN a ELSE IF i = 2 THEN x ELSE b]
  OBVIOUS
<1>2. DOMAIN at = 1..3 /\ at[1] = a /\ at[2] = x /\ at[3] = b
  BY <1>1
<1>3. ASSUME NEW i \in 1..2 PROVE <<at[i], u[i], at[i+1]>> \in R
  <2>1. i = 1 \/ i = 2
    OBVIOUS
  <2> QED
    BY <1>2, <2>1
<1>4. Chain(u, at, R)
  BY <1>3 DEF Chain
<1> QED
  BY <1>2, <1>4 DEF Path

(* The first and the last step of a path. *)
LEMMA PathEnds ==
  ASSUME NEW u, Len(u) \in Nat, Len(u) # 0, NEW a, NEW b, NEW R, Path(u, a, b, R)
  PROVE  (\E m : <<a, u[1], m>> \in R) /\ \E m, r : <<m, r, b>> \in R
<1>1. PICK l \in Nat : l = Len(u) /\ l # 0
  OBVIOUS
<1>2. PICK at : at[1] = a /\ at[l+1] = b /\ Chain(u, at, R)
  BY <1>1 DEF Path
<1>3. 1 \in 1..l /\ l \in 1..l
  BY <1>1
<1>4. <<at[1], u[1], at[1+1]>> \in R /\ <<at[l], u[l], at[l+1]>> \in R
  BY <1>1, <1>2, <1>3 DEF Chain
<1> QED
  BY <1>2, <1>4

Tagged(t, s, k) ==
    /\ t \in Seq(HalfType) /\ Len(t) = Len(s) /\ Len(s) \in Nat
    /\ \A i \in 1..Len(s) : /\ t[i].kind = s[i] /\ t[i].keys = k /\ s[i] \in Kinds
                            /\ t[i] = [kind |-> s[i], keys |-> k]

(* The halves to be sent, under one key. *)
LEMMA TagIs ==
  ASSUME NEW s \in Seq(Kinds), NEW k \in Nat
  PROVE  Tagged(Tag(s, k), s, k)
<1>1. Len(s) \in Nat /\ \A i \in 1..Len(s) : s[i] \in Kinds
  BY LenProperties, ElementOfSeq
<1>2. \A i \in 1..Len(s) : [kind |-> s[i], keys |-> k] \in HalfType
  BY <1>1 DEF HalfType
<1>3. Tag(s, k) \in Seq(HalfType) /\ Len(Tag(s, k)) = Len(s)
  BY <1>1, <1>2 DEF Tag
<1>4. \A i \in 1..Len(s) : Tag(s, k)[i] = [kind |-> s[i], keys |-> k]
  BY DEF Tag
<1> QED
  BY <1>1, <1>3, <1>4 DEF Tagged

(* No halves. *)
LEMMA TagEmpty ==
  ASSUME NEW k \in Nat
  PROVE  Tag(<<>>, k) = <<>>
<1>1. <<>> \in Seq(Kinds) /\ Len(<<>>) = 0
  OBVIOUS
<1>2. Tag(<<>>, k) \in Seq(HalfType) /\ Len(Tag(<<>>, k)) = 0
  BY <1>1, TagIs DEF Tagged
<1> QED
  BY <1>2, EmptySeq

(* Halves joined are tagged as one. *)
LEMMA TagJoins ==
  ASSUME NEW u \in Seq(Kinds), NEW s \in Seq(Kinds), NEW t \in Seq(Kinds), Joins(u, s, t), NEW k \in Nat
  PROVE  Joins(Tag(u, k), Tag(s, k), Tag(t, k)) /\ Len(Tag(s, k)) \in Nat /\ Len(Tag(t, k)) \in Nat
<1>1. PICK n \in Nat, m \in Nat : n = Len(s) /\ m = Len(t)
  BY LenProperties
<1>2. Len(u) = n + m /\ (\A i \in 1..n : u[i] = s[i]) /\ \A j \in 1..m : u[n + j] = t[j]
  BY <1>1 DEF Joins
<1>3. PICK U, S, T : U = Tag(u, k) /\ S = Tag(s, k) /\ T = Tag(t, k)
  OBVIOUS
<1>4. /\ Len(U) = n + m /\ Len(S) = n /\ Len(T) = m
      /\ (\A i \in 1..n+m : U[i] = [kind |-> u[i], keys |-> k])
      /\ (\A i \in 1..n : S[i] = [kind |-> s[i], keys |-> k])
      /\ \A j \in 1..m : T[j] = [kind |-> t[j], keys |-> k]
  <2>1. Tagged(U, u, k) /\ Tagged(S, s, k) /\ Tagged(T, t, k)
    BY <1>3, TagIs
  <2>2. Len(U) = n + m /\ \A i \in 1..n+m : U[i] = [kind |-> u[i], keys |-> k]
    BY <1>2, <2>1 DEF Tagged
  <2>3. Len(S) = n /\ \A i \in 1..n : S[i] = [kind |-> s[i], keys |-> k]
    BY <1>1, <2>1 DEF Tagged
  <2>4. Len(T) = m /\ \A j \in 1..m : T[j] = [kind |-> t[j], keys |-> k]
    BY <1>1, <2>1 DEF Tagged
  <2> QED
    BY <2>2, <2>3, <2>4
<1>5. ASSUME NEW i \in 1..n PROVE U[i] = S[i]
  <2>1. i \in 1..n+m
    OBVIOUS
  <2> QED
    BY <1>2, <1>4, <2>1
<1>6. ASSUME NEW j \in 1..m PROVE U[n + j] = T[j]
  <2>1. n + j \in 1..n+m
    OBVIOUS
  <2> QED
    BY <1>2, <1>4, <2>1
<1>7. Joins(U, S, T)
  BY <1>4, <1>5, <1>6 DEF Joins
<1> QED
  BY <1>3, <1>4, <1>7

(* Where a peer stands that has kept to the protocol. *)
LEMMA PeerPlace ==
  ASSUME PeerType(p), NEW n, PeerFits(p, n), p.legal, NEW e, PeerAt(p, e, n)
  PROVE  /\ e.keys = p.keys /\ (p.pend = <<>> => e = Final(p) /\ ~p.due)
         /\ p.pend # <<>> => /\ Len(p.pend) = 1 /\ e.half = p.pend[1] /\ p.pend[1] \in May(p.vers, e.step)
                             /\ p.step = After(p.vers, e.step, p.pend[1])
<1>1. /\ p.pend \in Seq(Kinds) /\ p.keys \in Nat /\ e \in Spot
      /\ Path(Tag(p.pend, p.keys), e, Final(p), MsgSteps(p.vers, n))
      /\ Len(p.pend) <= 1 /\ (p.pend = <<>> => ~p.due)
  BY DEF PeerType, PeerAt, PeerFits
<1>2. CASE p.pend = <<>>
  <2>1. e = Final(p)
    BY <1>1, <1>2, TagEmpty, PathEmpty
  <2> QED
    BY <1>1, <1>2, <2>1 DEF Final
<1>3. CASE p.pend # <<>>
  <2>1. Len(p.pend) = 1
    <3>1. PICK l \in Nat : l = Len(p.pend) /\ l # 0
      BY <1>1, <1>3, EmptySeq, LenProperties
    <3>2. l <= 1 /\ l # 0
      BY <1>1, <3>1
    <3>3. l = 1
      BY <3>2
    <3> QED
      BY <3>1, <3>3
  <2>2. PICK t : t = Tag(p.pend, p.keys)
    OBVIOUS
  <2>3. Len(t) = 1 /\ t[1].kind = p.pend[1] /\ t[1].keys = p.keys /\ p.pend[1] \in Kinds
    <3>1. Tagged(t, p.pend, p.keys)
      BY <1>1, <2>2, TagIs
    <3>2. 1 \in 1..Len(p.pend)
      BY <2>1
    <3> QED
      BY <2>1, <3>1, <3>2 DEF Tagged
  <2>4. <<e, t[1], Final(p)>> \in MsgSteps(p.vers, n)
    BY <1>1, <2>2, <2>3, PathOne
  <2>5. t[1].keys = e.keys /\ (Begins(p.vers, n, e, t[1], Final(p)) \/ Completes(p.vers, e, t[1], Final(p)))
    BY <2>4, MsgStepIs
  <2>6. Final(p).half = "none" /\ Final(p).step = p.step
    BY DEF Final
  <2>7. p.pend[1] # "none"
    BY <2>3 DEF Kinds
  <2>8. Completes(p.vers, e, t[1], Final(p))
    BY <2>3, <2>5, <2>6, <2>7 DEF Begins
  <2> QED
    BY <1>3, <2>1, <2>3, <2>5, <2>6, <2>8 DEF Completes
<1> QED
  BY <1>2, <1>3

(* What the peer has to show for a record it sends. *)
LEMMA LegalSend ==
  ASSUME LegalInv, DataInv, NEW typ, NEW data, Emit(typ, data), UNCHANGED <<raw, c>>,
         [typ |-> typ, keys |-> p.keys, data |-> data] \in Recs, p'.vers = p.vers,
         PeerFits(p', c.hellos), p'.legal => p.legal,
         ASSUME p'.legal, NEW e \in Spot, PeerAt(p, e, c.hellos)
         PROVE  \E f \in Spot : /\ PeerAt(p', f, c.hellos)
                                /\ LegalRecord(p.vers, c.hellos, e, p.useless,
                                               [typ |-> typ, keys |-> p.keys, data |-> data], f, p'.useless)
  PROVE  LegalInv'
<1>1. c' = c /\ raw' = raw /\ FlightType /\ c.inErr = "none"
  BY DEF DataInv, Emit, PeerMayAct
<1>2. ASSUME p'.legal, ~c.dead PROVE Going(c, InFlight', p')
  <2>1. PICK s, a, u : Stands(c, p.vers, s, a, u) /\ Way(InFlight, a, u, p, c.hellos)
    BY <1>1, <1>2 DEF LegalInv, Going
  <2>2. PICK e : PeerAt(p, e, c.hellos) /\ Path(InFlight, <<a, u>>, <<e, p.useless>>, RecSteps(p.vers, c.hellos))
    BY <2>1 DEF Way
  <2>3. e \in Spot
    BY <2>2 DEF PeerAt
  <2>4. PICK r \in Recs : r = [typ |-> typ, keys |-> p.keys, data |-> data]
    OBVIOUS
  <2>5. PICK f \in Spot : PeerAt(p', f, c.hellos) /\ LegalRecord(p.vers, c.hellos, e, p.useless, r, f, p'.useless)
    BY <1>2, <2>2, <2>3, <2>4
  <2>6. p.useless \in Nat /\ p'.useless \in Nat
    BY DEF LegalInv, PeerFits
  <2>7. <<<<e, p.useless>>, r, <<f, p'.useless>>>> \in RecSteps(p.vers, c.hellos)
    BY <2>3, <2>5, <2>6, RecStep
  <2>8. InFlight \in Seq(Recs) /\ InFlight' = Append(InFlight, r)
    BY <1>1, <2>4, EmitIs
  <2>9. Path(InFlight', <<a, u>>, <<f, p'.useless>>, RecSteps(p.vers, c.hellos))
    BY <2>2, <2>7, <2>8, PathAppend
  <2>10. Way(InFlight', a, u, p', c.hellos)
    BY <2>5, <2>9 DEF Way
  <2> QED
    BY <2>1, <2>10 DEF Going
<1> QED
  BY <1>1, <1>2 DEF LegalInv

(* A peer that sends no message stands where it stood. *)
SameWay(q) ==
    /\ IsPeer(q) /\ q.vers = p.vers /\ q.pend = p.pend /\ q.keys = p.keys /\ q.step = p.step /\ q.rounds = p.rounds
    /\ q.due = p.due

(* Such a peer is at the same place. *)
LEMMA SameWayAt == ASSUME NEW q, SameWay(q), NEW e, NEW n, PeerAt(p, e, n) PROVE PeerAt(q, e, n)
<1>1. Final(q) = Final(p)
  BY DEF SameWay, Final
<1> QED
  BY <1>1 DEF SameWay, PeerAt

(* A record that is counted moves no message. *)
LEMMA SentWay ==
  ASSUME NEW q, IsPeer(q)
  PROVE  /\ IsPeer(Sent(q)) /\ Sent(q).useless = q.useless /\ Sent(q).legal = q.legal
         /\ SameWay(q) => SameWay(Sent(q))
BY SentIs DEF SameWay

(* Application data, sent between messages. *)
LEMMA LegalDataSent == ASSUME LegalInv, KeyInv, DataInv, PeerType(p), NEW n \in 0..2, PeerData(n) PROVE LegalInv'
<1> DEFINE data == [i \in 1..n |-> p.bytes + i]
           ok == ~InScript /\ ~Partial /\ ~p.asked
           some == [p EXCEPT !.bytes = @ + n, !.useless = 0, !.legal = @ /\ ok]
           none == Useless(p, ok)
           q == IF n = 0 THEN none ELSE some
<1>1. Emit("data", data) /\ UNCHANGED <<raw, c>> /\ p' = Sent(q)
  BY DEF PeerData
<1>2. data \in Seq(Nat) /\ (n = 0 <=> data = <<>>)
  <2>1. p.bytes \in Nat
    BY DEF PeerType
  <2>2. data \in Seq(Nat) /\ Len(data) = n
    BY <2>1
  <2> QED
    BY <2>2, EmptySeq
<1>3. IsPeer(p) /\ p.vers \in {12, 13} /\ p.step \in Nat /\ p.keys \in Nat
  BY DEF PeerType
<1>4. [typ |-> "data", keys |-> p.keys, data |-> data] \in Recs
  <2>1. PICK t : t = data
    OBVIOUS
  <2>2. t \in Seq(Nat)
    BY <1>2, <2>1
  <2>3. [typ |-> "data", keys |-> p.keys, data |-> t] \in Recs
    BY <1>3, <2>2 DEF Recs, RecType, Rec
  <2> QED
    BY <2>1, <2>3
<1> HIDE DEF data, ok
<1>5. PeerFits(p, c.hellos) /\ maxUselessRecords \in Nat
  BY RecordsAssumption DEF LegalInv
<1>6. p.useless \in Nat /\ p.legal \in BOOLEAN /\ ok \in BOOLEAN
  BY <1>5 DEF PeerFits, ok
<1>7. /\ IsPeer(some) /\ SameWay(some) /\ some.useless = 0 /\ some.legal = (p.legal /\ ok)
  BY <1>3 DEF IsPeer, SameWay
<1> HIDE DEF some
<1>8. /\ IsPeer(none) /\ SameWay(none) /\ none.useless = p.useless + 1
      /\ none.legal = (p.legal /\ ok /\ p.useless < maxUselessRecords)
  BY <1>3, UselessIs DEF SameWay
<1> HIDE DEF none
<1>9. IsPeer(q) /\ SameWay(q) /\ q.useless = (IF n = 0 THEN p.useless + 1 ELSE 0)
      /\ (q.legal => p.legal /\ ok /\ q.useless <= maxUselessRecords) /\ q.legal \in BOOLEAN
  <2>1. CASE n = 0
    <3>1. q = none
      BY <2>1
    <3>2. p.useless < maxUselessRecords => p.useless + 1 <= maxUselessRecords
      BY <1>5, <1>6
    <3>3. (none.legal => p.legal /\ ok /\ p.useless < maxUselessRecords) /\ none.legal \in BOOLEAN
      BY <1>6, <1>8, Zenon
    <3>4. q.useless = (IF n = 0 THEN p.useless + 1 ELSE 0)
      BY <1>8, <2>1, <3>1
    <3>5. none.legal => q.useless <= maxUselessRecords
      BY <2>1, <3>2, <3>3, <3>4
    <3> QED
      BY <1>8, <3>1, <3>3, <3>4, <3>5, Zenon
  <2>2. CASE n # 0
    BY <1>5, <1>6, <1>7, <2>2
  <2> QED
    BY <2>1, <2>2
<1> HIDE DEF q
<1>10. /\ SameWay(p') /\ p'.useless = (IF n = 0 THEN p.useless + 1 ELSE 0)
       /\ (p'.legal => p.legal /\ ok /\ p'.useless <= maxUselessRecords) /\ p'.legal \in BOOLEAN
  BY <1>1, <1>9, SentWay
<1>11. PeerFits(p', c.hellos)
  <2>1. p'.useless \in Nat
    BY <1>6, <1>10
  <2> QED
    BY <1>5, <1>10, <2>1 DEF PeerFits, SameWay
<1>12. ASSUME p'.legal, NEW e \in Spot, PeerAt(p, e, c.hellos)
       PROVE  /\ PeerAt(p', e, c.hellos)
              /\ LegalRecord(p.vers, c.hellos, e, p.useless, [typ |-> "data", keys |-> p.keys, data |-> data], e, p'.useless)
  <2>1. p.legal /\ p.pend = <<>> /\ p.step > Len(Script(p.vers)) /\ p'.useless <= maxUselessRecords
    <3>1. p.legal /\ ok /\ p'.useless <= maxUselessRecords
      BY <1>10, <1>12
    <3>2. Len(Script(p.vers)) \in Nat
      BY <1>3, ScriptIs
    <3> QED
      BY <1>3, <3>1, <3>2 DEF ok, InScript, Partial
  <2>2. e.keys = p.keys /\ e = Final(p)
    BY <1>5, <1>12, <2>1, PeerPlace
  <2>3. e.half = "none" /\ e.step = p.step
    BY <2>2 DEF Final
  <2>4. p'.useless = (IF data = <<>> THEN p.useless + 1 ELSE 0)
    BY <1>2, <1>10
  <2>5. PICK r : r = [typ |-> "data", keys |-> p.keys, data |-> data]
    OBVIOUS
  <2>6. r.typ = "data" /\ r.keys = p.keys /\ r.data = data
    BY <2>5
  <2>7. LegalData(p.vers, e, p.useless, r, e, p'.useless)
    BY <2>1, <2>2, <2>3, <2>4, <2>6 DEF LegalData
  <2>8. LegalRecord(p.vers, c.hellos, e, p.useless, r, e, p'.useless)
    BY <2>1, <2>7 DEF LegalRecord
  <2> QED
    BY <1>10, <1>12, <2>5, <2>8, SameWayAt
<1>13. p'.vers = p.vers /\ (p'.legal => p.legal)
  BY <1>10 DEF SameWay
<1> QED
  BY <1>1, <1>4, <1>11, <1>12, <1>13, LegalSend

(* An alert. *)
LEMMA LegalAlertSent ==
  ASSUME LegalInv, KeyInv, DataInv, PeerType(p), NEW what \in {"warning", "close", "fatal"}, PeerAlert(what)
  PROVE  LegalInv'
<1> DEFINE ok == p.vers = 13 => ~Partial
           some == [p EXCEPT !.closed = TRUE, !.legal = @ /\ ok]
           none == Useless(p, ok)
           q == IF what = "warning" THEN none ELSE some
<1>1. Emit("alert", what) /\ UNCHANGED <<raw, c>> /\ p' = Sent(q)
  BY DEF PeerAlert
<1>3. IsPeer(p) /\ p.vers \in {12, 13} /\ p.step \in Nat /\ p.keys \in Nat
  BY DEF PeerType
<1>4. [typ |-> "alert", keys |-> p.keys, data |-> what] \in Recs
  BY <1>3 DEF Recs, RecType, Rec
<1> HIDE DEF ok
<1>5. PeerFits(p, c.hellos) /\ maxUselessRecords \in Nat
  BY RecordsAssumption DEF LegalInv
<1>6. p.useless \in Nat /\ p.legal \in BOOLEAN /\ ok \in BOOLEAN /\ (p.legal => p.useless <= maxUselessRecords)
  BY <1>5 DEF PeerFits, ok
<1>7. /\ IsPeer(some) /\ SameWay(some) /\ some.useless = p.useless /\ some.legal = (p.legal /\ ok)
  BY <1>3 DEF IsPeer, SameWay
<1> HIDE DEF some
<1>8. /\ IsPeer(none) /\ SameWay(none) /\ none.useless = p.useless + 1
      /\ none.legal = (p.legal /\ ok /\ p.useless < maxUselessRecords)
  BY <1>3, UselessIs DEF SameWay
<1> HIDE DEF none
<1>9. IsPeer(q) /\ SameWay(q) /\ q.useless = (IF what = "warning" THEN p.useless + 1 ELSE p.useless)
      /\ (q.legal => p.legal /\ ok /\ q.useless <= maxUselessRecords) /\ q.legal \in BOOLEAN
  <2>1. CASE what = "warning"
    <3>1. q = none
      BY <2>1
    <3>2. p.useless < maxUselessRecords => p.useless + 1 <= maxUselessRecords
      BY <1>5, <1>6
    <3>3. (none.legal => p.legal /\ ok /\ p.useless < maxUselessRecords) /\ none.legal \in BOOLEAN
      BY <1>6, <1>8, Zenon
    <3>4. q.useless = (IF what = "warning" THEN p.useless + 1 ELSE p.useless)
      BY <1>8, <2>1, <3>1
    <3>5. none.legal => q.useless <= maxUselessRecords
      BY <2>1, <3>2, <3>3, <3>4
    <3> QED
      BY <1>8, <3>1, <3>3, <3>4, <3>5, Zenon
  <2>2. CASE what # "warning"
    BY <1>5, <1>6, <1>7, <2>2
  <2> QED
    BY <2>1, <2>2
<1> HIDE DEF q
<1>10. /\ SameWay(p') /\ p'.useless = (IF what = "warning" THEN p.useless + 1 ELSE p.useless)
       /\ (p'.legal => p.legal /\ ok /\ p'.useless <= maxUselessRecords) /\ p'.legal \in BOOLEAN
  BY <1>1, <1>9, SentWay
<1>11. PeerFits(p', c.hellos)
  <2>1. p'.useless \in Nat
    BY <1>6, <1>10
  <2> QED
    BY <1>5, <1>10, <2>1 DEF PeerFits, SameWay
<1>12. ASSUME p'.legal, NEW e \in Spot, PeerAt(p, e, c.hellos)
       PROVE  /\ PeerAt(p', e, c.hellos)
              /\ LegalRecord(p.vers, c.hellos, e, p.useless, [typ |-> "alert", keys |-> p.keys, data |-> what], e, p'.useless)
  <2>1. p.legal /\ (p.vers = 13 => p.pend = <<>>) /\ p'.useless <= maxUselessRecords
    BY <1>10, <1>12 DEF ok, Partial
  <2>2. e.keys = p.keys /\ (p.vers = 13 => e = Final(p))
    BY <1>5, <1>12, <2>1, PeerPlace
  <2>3. p.vers = 13 => e.half = "none"
    BY <2>2 DEF Final
  <2>5. PICK r : r = [typ |-> "alert", keys |-> p.keys, data |-> what]
    OBVIOUS
  <2>6. r.typ = "alert" /\ r.keys = p.keys /\ r.data = what
    BY <2>5
  <2>7. LegalAlert(p.vers, e, p.useless, r, e, p'.useless)
    BY <1>10, <2>2, <2>3, <2>6 DEF LegalAlert
  <2>8. LegalRecord(p.vers, c.hellos, e, p.useless, r, e, p'.useless)
    BY <2>1, <2>7 DEF LegalRecord
  <2> QED
    BY <1>10, <1>12, <2>5, <2>8, SameWayAt
<1>13. p'.vers = p.vers /\ (p'.legal => p.legal)
  BY <1>10 DEF SameWay
<1> QED
  BY <1>1, <1>4, <1>11, <1>12, <1>13, LegalSend

(* The transport ends. *)
LEMMA LegalCut == ASSUME LegalInv, KeyInv, DataInv, PeerType(p), PeerCut PROVE LegalInv'
<1>1. p' = [p EXCEPT !.closed = TRUE] /\ UNCHANGED <<wire, raw, c>> /\ IsPeer(p)
  BY DEF PeerCut, PeerType
<1>2. SameWay(p') /\ p'.useless = p.useless /\ p'.legal = p.legal /\ c' = c /\ InFlight' = InFlight
  BY <1>1 DEF IsPeer, SameWay, InFlight
<1>3. PeerFits(p', c.hellos)
  BY <1>2 DEF LegalInv, PeerFits, SameWay
<1>4. ASSUME Going(c, InFlight, p) PROVE Going(c, InFlight, p')
  <2>1. PICK s, a, u : Stands(c, p.vers, s, a, u) /\ Way(InFlight, a, u, p, c.hellos)
    BY <1>4 DEF Going
  <2>2. PICK e : PeerAt(p, e, c.hellos) /\ Path(InFlight, <<a, u>>, <<e, p.useless>>, RecSteps(p.vers, c.hellos))
    BY <2>1 DEF Way
  <2>3. PeerAt(p', e, c.hellos) /\ p'.vers = p.vers
    BY <1>2, <2>2, SameWayAt DEF SameWay
  <2>4. Way(InFlight, a, u, p', c.hellos)
    BY <1>2, <2>2, <2>3 DEF Way
  <2> QED
    BY <2>1, <2>3, <2>4 DEF Going
<1> QED
  BY <1>2, <1>3, <1>4 DEF LegalInv

(* Where a peer stands that has nothing left to send. *)
LEMMA FinalSpot ==
  ASSUME NEW q, q.step \in Nat, q.rounds \in Nat, q.keys \in Nat
  PROVE  /\ Final(q) \in Spot /\ Final(q).half = "none" /\ Final(q).step = q.step /\ Final(q).rounds = q.rounds
         /\ Final(q).keys = (IF q.due THEN q.keys + 1 ELSE q.keys)
BY DEF Final, Spot

(* The dummy ChangeCipherSpec of TLS 1.3. *)
LEMMA LegalCCSSent13 ==
  ASSUME LegalInv, KeyInv, DataInv, PeerType(p), PeerCCS, p.vers = 13
  PROVE  LegalInv'
<1> DEFINE ok == p.step \in 2..3 /\ ~Partial
           q == Useless(p, ok)
<1>1. Emit("ccs", 1) /\ UNCHANGED <<raw, c>> /\ p' = Sent(q)
  BY DEF PeerCCS
<1>3. IsPeer(p) /\ p.step \in Nat /\ p.keys \in Nat
  BY DEF PeerType
<1>4. [typ |-> "ccs", keys |-> p.keys, data |-> 1] \in Recs
  BY <1>3 DEF Recs, RecType, Rec
<1> HIDE DEF ok
<1>5. PeerFits(p, c.hellos) /\ maxUselessRecords \in Nat
  BY RecordsAssumption DEF LegalInv
<1>6. p.useless \in Nat /\ p.legal \in BOOLEAN /\ ok \in BOOLEAN
  BY <1>5 DEF PeerFits, ok
<1>8. /\ IsPeer(q) /\ SameWay(q) /\ q.useless = p.useless + 1
      /\ q.legal = (p.legal /\ ok /\ p.useless < maxUselessRecords)
  BY <1>3, UselessIs DEF SameWay
<1> HIDE DEF q
<1>9. (q.legal => p.legal /\ ok /\ p.useless < maxUselessRecords) /\ q.legal \in BOOLEAN
  BY <1>6, <1>8, Zenon
<1>10. /\ SameWay(p') /\ p'.useless = p.useless + 1
       /\ (p'.legal => p.legal /\ ok /\ p.useless < maxUselessRecords) /\ p'.legal \in BOOLEAN
  BY <1>1, <1>8, <1>9, SentWay
<1>14. p'.useless \in Nat /\ (p.useless < maxUselessRecords => p'.useless <= maxUselessRecords)
  BY <1>5, <1>6, <1>10
<1>11. PeerFits(p', c.hellos)
  BY <1>5, <1>10, <1>14 DEF PeerFits, SameWay
<1>12. ASSUME p'.legal, NEW e \in Spot, PeerAt(p, e, c.hellos)
       PROVE  /\ PeerAt(p', e, c.hellos)
              /\ LegalRecord(p.vers, c.hellos, e, p.useless, [typ |-> "ccs", keys |-> p.keys, data |-> 1], e, p'.useless)
  <2>1. p.legal /\ p.pend = <<>> /\ p.step \in 2..3 /\ p'.useless <= maxUselessRecords
    BY <1>10, <1>12, <1>14 DEF ok, Partial
  <2>2. e = Final(p)
    BY <1>5, <1>12, <2>1, PeerPlace
  <2>3. e.half = "none" /\ e.step = p.step
    BY <2>2 DEF Final
  <2>5. PICK r : r = [typ |-> "ccs", keys |-> p.keys, data |-> 1]
    OBVIOUS
  <2>6. r.typ = "ccs"
    BY <2>5
  <2>7. LegalCCS(p.vers, e, p.useless, r, e, p'.useless)
    BY <1>10, <2>1, <2>3, <2>6 DEF LegalCCS
  <2>8. LegalRecord(p.vers, c.hellos, e, p.useless, r, e, p'.useless)
    BY <2>1, <2>7 DEF LegalRecord
  <2> QED
    BY <1>10, <1>12, <2>5, <2>8, SameWayAt
<1>13. p'.vers = p.vers /\ (p'.legal => p.legal)
  BY <1>10 DEF SameWay
<1> QED
  BY <1>1, <1>4, <1>11, <1>12, <1>13, LegalSend

(* The ChangeCipherSpec of TLS 1.2 moves both ends to step 4. *)
LEMMA LegalCCSSent12 ==
  ASSUME LegalInv, KeyInv, DataInv, PeerType(p), PeerCCS, p.vers = 12
  PROVE  LegalInv'
<1> DEFINE ok == p.step = 3 /\ ~Partial
           next == IF p.step = 3 THEN 4 ELSE p.step
           q == [p EXCEPT !.keys = @ + 1, !.step = next, !.legal = @ /\ ok]
<1>1. Emit("ccs", 1) /\ UNCHANGED <<raw, c>> /\ p' = Sent(q)
  <2>1. p' = Sent([p EXCEPT !.keys = @ + 1, !.step = IF p.step = 3 THEN 4 ELSE @,
                            !.legal = @ /\ p.step = 3 /\ ~Partial])
    BY DEF PeerCCS
  <2>2. IsPeer(p)
    BY DEF PeerType
  <2>3. q = [p EXCEPT !.keys = @ + 1, !.step = IF p.step = 3 THEN 4 ELSE @,
                      !.legal = @ /\ p.step = 3 /\ ~Partial]
    BY <2>2 DEF IsPeer
  <2> HIDE DEF q
  <2> QED
    BY <2>1, <2>3 DEF PeerCCS
<1>3. IsPeer(p) /\ p.step \in Nat /\ p.keys \in Nat
  BY DEF PeerType
<1>4. [typ |-> "ccs", keys |-> p.keys, data |-> 1] \in Recs
  BY <1>3 DEF Recs, RecType, Rec
<1>5. PeerFits(p, c.hellos) /\ maxUselessRecords \in Nat
  BY RecordsAssumption DEF LegalInv
<1>6. p.useless \in Nat /\ p.legal \in BOOLEAN /\ ok \in BOOLEAN /\ next \in Nat /\ p.rounds \in Nat
  BY <1>3, <1>5 DEF PeerFits
<1> HIDE DEF ok, next
<1>8. /\ IsPeer(q) /\ q.vers = p.vers /\ q.pend = p.pend /\ q.keys = p.keys + 1 /\ q.step = next
      /\ q.rounds = p.rounds /\ q.due = p.due /\ q.useless = p.useless /\ q.legal = (p.legal /\ ok)
  BY <1>3 DEF IsPeer
<1> HIDE DEF q
<1>9. (q.legal => p.legal /\ ok) /\ q.legal \in BOOLEAN
  BY <1>6, <1>8, Zenon
<1>10. /\ p'.vers = p.vers /\ p'.pend = p.pend /\ p'.keys = p.keys + 1 /\ p'.step = next
       /\ p'.rounds = p.rounds /\ p'.due = p.due /\ p'.useless = p.useless /\ p'.legal = q.legal
  BY <1>1, <1>8, SentIs
<1>11. PeerFits(p', c.hellos)
  BY <1>5, <1>9, <1>10 DEF PeerFits
<1>12. ASSUME p'.legal, NEW e \in Spot, PeerAt(p, e, c.hellos)
       PROVE  \E f \in Spot :
                /\ PeerAt(p', f, c.hellos)
                /\ LegalRecord(p.vers, c.hellos, e, p.useless, [typ |-> "ccs", keys |-> p.keys, data |-> 1], f, p'.useless)
  <2>1. p.legal /\ p.pend = <<>> /\ p.step = 3 /\ next = 4 /\ p.useless <= maxUselessRecords
    <3>1. p.legal /\ ok
      BY <1>9, <1>10, <1>12
    <3>2. p.pend = <<>> /\ p.step = 3 /\ next = 4
      BY <3>1 DEF ok, Partial, next
    <3> QED
      BY <1>5, <3>1, <3>2 DEF PeerFits
  <2>2. e = Final(p) /\ e.keys = p.keys /\ ~p.due
    BY <1>5, <1>12, <2>1, PeerPlace
  <2>3. e.half = "none" /\ e.step = 3 /\ e.rounds = p.rounds
    BY <2>1, <2>2 DEF Final
  <2>4. p'.step \in Nat /\ p'.rounds \in Nat /\ p'.keys \in Nat
    BY <1>3, <1>6, <1>10
  <2>5. PICK f : f = Final(p')
    OBVIOUS
  <2>6. f \in Spot /\ f.half = "none" /\ f.step = 4 /\ f.rounds = e.rounds /\ f.keys = e.keys + 1
    BY <1>10, <2>1, <2>2, <2>3, <2>4, <2>5, FinalSpot
  <2>7. PeerAt(p', f, c.hellos)
    <3>1. Tag(p'.pend, p'.keys) = <<>>
      BY <1>10, <2>1, <2>4, TagEmpty
    <3> QED
      BY <2>5, <2>6, <3>1, PathEmpty DEF PeerAt
  <2>8. PICK r : r = [typ |-> "ccs", keys |-> p.keys, data |-> 1]
    OBVIOUS
  <2>9. r.typ = "ccs" /\ r.keys = p.keys
    BY <2>8
  <2>10. LegalCCS(p.vers, e, p.useless, r, f, p'.useless)
    BY <1>10, <2>2, <2>3, <2>6, <2>9 DEF LegalCCS
  <2>11. LegalRecord(p.vers, c.hellos, e, p.useless, r, f, p'.useless)
    BY <1>10, <2>1, <2>10 DEF LegalRecord
  <2> QED
    BY <2>6, <2>7, <2>8, <2>11
<1>13. p'.vers = p.vers /\ (p'.legal => p.legal)
  BY <1>9, <1>10
<1> QED
  BY <1>1, <1>4, <1>11, <1>12, <1>13, LegalSend

(* A message joins what is to be sent: the fields QueueIs leaves out. *)
LEMMA QueueMore ==
  ASSUME NEW q, IsPeer(q), NEW k
  PROVE  /\ Queue(q, k).rounds = (IF k = "ServerHello" THEN q.rounds + 1 ELSE q.rounds)
         /\ Queue(q, k).due = (q.due \/ (q.vers = 13 /\ k \in KeyChanging))
         /\ Queue(q, k).useless = q.useless /\ Queue(q, k).legal = (q.legal /\ ~q.due)
BY DEF IsPeer, Queue

Fits(q) ==
    /\ PeerType(q) /\ q.rounds \in Nat /\ q.rounds <= c.hellos /\ q.due \in BOOLEAN /\ q.legal \in BOOLEAN
    /\ q.useless = p.useless /\ q.vers = p.vers /\ q.keys = p.keys

(* What a peer sends next may come at its step. *)
LEMMA NextMay ==
  ASSUME NEW q, Fits(q), c.hellos \in Nat, NEW k \in NextKinds(q)
  PROVE  /\ k \in Kinds /\ k \in May(q.vers, q.step) /\ (k = "ServerHello" => q.rounds < c.hellos)
         /\ q.vers \in {12, 13} /\ q.step \in Nat \ {0}
<1>1. q.vers \in {12, 13} /\ q.step \in Nat \ {0} /\ q.rounds \in Nat /\ q.rounds <= c.hellos /\ PeerType(q)
  BY DEF Fits, PeerType
<1>2. k \in Kinds
  BY <1>1, NextKindsIs
<1>3. PICK l \in Nat : l = Len(Script(q.vers))
  BY <1>1, ScriptIs
<1>4. k \in May(q.vers, q.step)
  BY <1>1, <1>3 DEF NextKinds, May
<1>5. ASSUME k = "ServerHello" PROVE q.rounds < c.hellos
  <2>1. q.step = 1
    BY <1>1, <1>4, <1>5, MayIs
  <2>2. l > 1
    BY <1>1, <1>3, ScriptIs
  <2>3. ~(q.step > Len(Script(q.vers)))
    BY <1>3, <2>1, <2>2
  <2>4. c.hellos # q.rounds
    BY <2>1, <2>3 DEF NextKinds
  <2> QED
    BY <1>1, <2>4
<1> QED
  BY <1>1, <1>2, <1>4, <1>5

(* A message that joins keeps the fields in order. *)
LEMMA QueueFits ==
  ASSUME NEW q, Fits(q), c.hellos \in Nat, NEW k \in NextKinds(q)
  PROVE  Fits(Queue(q, k))
<1>1. PeerType(q) /\ IsPeer(q) /\ q.rounds \in Nat /\ q.rounds <= c.hellos /\ q.due \in BOOLEAN /\ q.legal \in BOOLEAN
  BY DEF Fits, PeerType
<1>2. PeerType(Queue(q, k))
  BY <1>1, QueueTyped
<1>3. k = "ServerHello" => q.rounds < c.hellos
  BY NextMay
<1>4. PICK r : r = Queue(q, k)
  OBVIOUS
<1>5. /\ r.rounds = (IF k = "ServerHello" THEN q.rounds + 1 ELSE q.rounds)
      /\ r.due = (q.due \/ (q.vers = 13 /\ k \in KeyChanging))
      /\ r.useless = q.useless /\ r.legal = (q.legal /\ ~q.due)
  BY <1>1, <1>4, QueueMore
<1>6. r.vers = q.vers /\ r.keys = q.keys
  BY <1>1, <1>4, QueueIs
<1>7. r.rounds \in Nat /\ r.rounds <= c.hellos
  BY <1>1, <1>3, <1>5
<1>8. r.due \in BOOLEAN /\ r.legal \in BOOLEAN
  BY <1>1, <1>5, Zenon
<1>9. Fits(r)
  BY <1>2, <1>4, <1>5, <1>6, <1>7, <1>8 DEF Fits
<1> QED
  BY <1>4, <1>9

(* A message that joins is a path of two halves from where the peer was. *)
LEMMA QueueAt ==
  ASSUME NEW q, Fits(q), c.hellos \in Nat, NEW k \in NextKinds(q), Queue(q, k).legal,
         NEW e, PeerAt(q, e, c.hellos)
  PROVE  PeerAt(Queue(q, k), e, c.hellos) /\ q.legal /\ ~q.due
<1>1. /\ PeerType(q) /\ IsPeer(q) /\ q.rounds \in Nat /\ q.due \in BOOLEAN /\ q.legal \in BOOLEAN
      /\ q.keys \in Nat /\ q.pend \in Seq(Kinds) /\ q.vers \in {12, 13} /\ q.step \in Nat \ {0}
  BY DEF Fits, PeerType
<1>2. k \in Kinds /\ k \in May(q.vers, q.step) /\ (k = "ServerHello" => q.rounds < c.hellos)
  BY NextMay
<1>3. PICK r : r = Queue(q, k)
  OBVIOUS
<1>4. /\ r.rounds = (IF k = "ServerHello" THEN q.rounds + 1 ELSE q.rounds)
      /\ r.due = (q.due \/ (q.vers = 13 /\ k \in KeyChanging))
      /\ r.legal = (q.legal /\ ~q.due) /\ r.vers = q.vers /\ r.keys = q.keys /\ r.pend = Cat(q.pend, <<k, k>>)
      /\ r.step = After(q.vers, q.step, k)
  BY <1>1, <1>3, QueueMore, QueueIs DEF After
<1>5. q.legal /\ ~q.due
  BY <1>3, <1>4
<1>6. PeerType(r) /\ r.step \in Nat /\ r.rounds \in Nat /\ r.keys \in Nat
  BY <1>1, <1>3, <1>4, QueueTyped DEF PeerType
<1>7. PICK y : y = Final(q)
  OBVIOUS
<1>8. y \in Spot /\ y.half = "none" /\ y.step = q.step /\ y.rounds = q.rounds /\ y.keys = q.keys
  BY <1>1, <1>5, <1>7, FinalSpot
<1>9. PICK z : z = Final(r)
  OBVIOUS
<1>10. /\ z \in Spot /\ z.half = "none" /\ z.step = After(q.vers, q.step, k) /\ z.rounds = r.rounds
       /\ z.keys = (IF q.vers = 13 /\ k \in KeyChanging THEN q.keys + 1 ELSE q.keys)
  BY <1>4, <1>5, <1>6, <1>9, FinalSpot
<1>11. PICK x : x = [step |-> q.step, half |-> k, rounds |-> r.rounds, keys |-> q.keys]
  OBVIOUS
<1>12. x \in Spot /\ x.step = q.step /\ x.half = k /\ x.rounds = r.rounds /\ x.keys = q.keys
  BY <1>1, <1>2, <1>6, <1>11 DEF Spot
<1>13. PICK h : h = [kind |-> k, keys |-> q.keys]
  OBVIOUS
<1>14. h \in HalfType /\ h.kind = k /\ h.keys = q.keys
  BY <1>1, <1>2, <1>13 DEF HalfType
<1>15. <<y, h, x>> \in MsgSteps(q.vers, c.hellos)
  <2>1. Begins(q.vers, c.hellos, y, h, x)
    BY <1>2, <1>4, <1>8, <1>12, <1>14 DEF Begins
  <2> QED
    BY <1>8, <1>12, <1>14, <2>1, MsgStepIs
<1>16. <<x, h, z>> \in MsgSteps(q.vers, c.hellos)
  <2>1. Completes(q.vers, x, h, z)
    BY <1>2, <1>10, <1>12, <1>14 DEF Completes
  <2> QED
    BY <1>10, <1>12, <1>14, <2>1, MsgStepIs
<1>17. PICK t \in Seq(Kinds) : t = <<k, k>>
  <2>1. k \in Kinds
    BY <1>2
  <2>2. <<k, k>> \in Seq(Kinds)
    BY <2>1
  <2> QED
    BY <2>2, Zenon
<1>18. Len(t) = 2 /\ t[1] = k /\ t[2] = k
  BY <1>17
<1>19. PICK T : T = Tag(t, q.keys)
  OBVIOUS
<1>20. Len(T) = 2 /\ T[1] = h /\ T[2] = h
  <2>1. Tagged(T, t, q.keys)
    BY <1>1, <1>19, TagIs
  <2>2. 1 \in 1..Len(t) /\ 2 \in 1..Len(t)
    BY <1>18
  <2> QED
    BY <1>13, <1>18, <2>1, <2>2 DEF Tagged
<1>21. Path(T, y, z, MsgSteps(q.vers, c.hellos))
  BY <1>15, <1>16, <1>20, PathPair
<1>22. Path(Tag(q.pend, q.keys), e, y, MsgSteps(q.vers, c.hellos)) /\ e \in Spot
  BY <1>7 DEF PeerAt
<1>23. r.pend \in Seq(Kinds) /\ Joins(r.pend, q.pend, t)
  BY <1>1, <1>4, <1>17, CatIs
<1>24. /\ Joins(Tag(r.pend, q.keys), Tag(q.pend, q.keys), T)
       /\ Len(Tag(q.pend, q.keys)) \in Nat /\ Len(T) \in Nat
  BY <1>1, <1>17, <1>19, <1>23, TagJoins
<1>25. Path(Tag(r.pend, q.keys), e, z, MsgSteps(q.vers, c.hellos))
  BY <1>21, <1>22, <1>24, PathJoins
<1>26. PeerAt(r, e, c.hellos)
  BY <1>4, <1>9, <1>22, <1>25 DEF PeerAt
<1> QED
  BY <1>3, <1>5, <1>26

(* How many messages a record ends, at least. *)
LEMMA CardPair == ASSUME NEW a, NEW b, a # b PROVE Cardinality({a, b}) = 2 /\ IsFiniteSet({a, b})
<1>1. IsFiniteSet({a}) /\ Cardinality({a}) = 1
  BY FS_Singleton
<1>2. {a, b} = {a} \cup {b} /\ b \notin {a}
  OBVIOUS
<1> QED
  BY <1>1, <1>2, FS_AddElement

(* The same of three. *)
LEMMA CardTriple ==
  ASSUME NEW a, NEW b, NEW d, a # b, a # d, b # d PROVE Cardinality({a, b, d}) = 3 /\ IsFiniteSet({a, b, d})
<1>1. Cardinality({a, b}) = 2 /\ IsFiniteSet({a, b})
  BY CardPair
<1>2. {a, b, d} = {a, b} \cup {d} /\ d \notin {a, b}
  OBVIOUS
<1> QED
  BY <1>1, <1>2, FS_AddElement

(* A record of n halves behind the handshake, with h of a message begun before it. *)
LEMMA EndsEnough ==
  ASSUME NEW h \in {0, 1}, NEW l \in {h, h + 2, h + 4}, NEW n \in {l, l - 1}, n > 0,
         NEW E, E = {i \in 1..n : (l - i) % 2 = 0}
  PROVE  Cardinality(E) \in Nat /\ n + h <= 2 * Cardinality(E) + 1
<1>0. 0 % 2 = 0 /\ 1 % 2 # 0 /\ 2 % 2 = 0 /\ 3 % 2 # 0 /\ 4 % 2 = 0
  OBVIOUS
<1>1. CASE h = 0 /\ l = 2 /\ n = 2
  <2>1. \A i : i \in 1..n <=> i = 1 \/ i = 2
    BY <1>1
  <2>2. 2 - 1 = 1 /\ 2 - 2 = 0
    OBVIOUS
  <2>3. 1 \notin E /\ 2 \in E /\ E \subseteq 1..n
    BY <1>0, <1>1, <2>1, <2>2
  <2>4. E = {2}
    BY <2>1, <2>3
  <2>5. PICK w : w = Cardinality(E) /\ w = 1
    BY <2>4, FS_Singleton
  <2> QED
    BY <1>1, <2>5
<1>2. CASE h = 0 /\ l = 2 /\ n = 1
  <2>1. \A i : i \in 1..n <=> i = 1
    BY <1>2
  <2>2. 2 - 1 = 1
    OBVIOUS
  <2>3. 1 \notin E /\ E \subseteq 1..n
    BY <1>0, <1>2, <2>1, <2>2
  <2>4. E = {}
    BY <2>1, <2>3
  <2>5. PICK w : w = Cardinality(E) /\ w = 0
    BY <2>4, FS_EmptySet
  <2> QED
    BY <1>2, <2>5
<1>3. CASE h = 0 /\ l = 4 /\ n = 4
  <2>1. \A i : i \in 1..n <=> i = 1 \/ i = 2 \/ i = 3 \/ i = 4
    BY <1>3
  <2>2. 4 - 1 = 3 /\ 4 - 2 = 2 /\ 4 - 3 = 1 /\ 4 - 4 = 0
    OBVIOUS
  <2>3. 1 \notin E /\ 2 \in E /\ 3 \notin E /\ 4 \in E /\ E \subseteq 1..n
    BY <1>0, <1>3, <2>1, <2>2
  <2>4. E = {2, 4}
    BY <2>1, <2>3
  <2>6. 2 # 4
    OBVIOUS
  <2>7. Cardinality({2, 4}) = 2
    BY <2>6, CardPair, Zenon
  <2>5. PICK w : w = Cardinality(E) /\ w = 2
    BY <2>4, <2>7
  <2> QED
    BY <1>3, <2>5
<1>4. CASE h = 0 /\ l = 4 /\ n = 3
  <2>1. \A i : i \in 1..n <=> i = 1 \/ i = 2 \/ i = 3
    BY <1>4
  <2>2. 4 - 1 = 3 /\ 4 - 2 = 2 /\ 4 - 3 = 1
    OBVIOUS
  <2>3. 1 \notin E /\ 2 \in E /\ 3 \notin E /\ E \subseteq 1..n
    BY <1>0, <1>4, <2>1, <2>2
  <2>4. E = {2}
    BY <2>1, <2>3
  <2>5. PICK w : w = Cardinality(E) /\ w = 1
    BY <2>4, FS_Singleton
  <2> QED
    BY <1>4, <2>5
<1>5. CASE h = 1 /\ l = 1 /\ n = 1
  <2>1. \A i : i \in 1..n <=> i = 1
    BY <1>5
  <2>2. 1 - 1 = 0
    OBVIOUS
  <2>3. 1 \in E /\ E \subseteq 1..n
    BY <1>0, <1>5, <2>1, <2>2
  <2>4. E = {1}
    BY <2>1, <2>3
  <2>5. PICK w : w = Cardinality(E) /\ w = 1
    BY <2>4, FS_Singleton
  <2> QED
    BY <1>5, <2>5
<1>6. CASE h = 1 /\ l = 3 /\ n = 3
  <2>1. \A i : i \in 1..n <=> i = 1 \/ i = 2 \/ i = 3
    BY <1>6
  <2>2. 3 - 1 = 2 /\ 3 - 2 = 1 /\ 3 - 3 = 0
    OBVIOUS
  <2>3. 1 \in E /\ 2 \notin E /\ 3 \in E /\ E \subseteq 1..n
    BY <1>0, <1>6, <2>1, <2>2
  <2>4. E = {1, 3}
    BY <2>1, <2>3
  <2>6. 1 # 3
    OBVIOUS
  <2>7. Cardinality({1, 3}) = 2
    BY <2>6, CardPair, Zenon
  <2>5. PICK w : w = Cardinality(E) /\ w = 2
    BY <2>4, <2>7
  <2> QED
    BY <1>6, <2>5
<1>7. CASE h = 1 /\ l = 3 /\ n = 2
  <2>1. \A i : i \in 1..n <=> i = 1 \/ i = 2
    BY <1>7
  <2>2. 3 - 1 = 2 /\ 3 - 2 = 1
    OBVIOUS
  <2>3. 1 \in E /\ 2 \notin E /\ E \subseteq 1..n
    BY <1>0, <1>7, <2>1, <2>2
  <2>4. E = {1}
    BY <2>1, <2>3
  <2>5. PICK w : w = Cardinality(E) /\ w = 1
    BY <2>4, FS_Singleton
  <2> QED
    BY <1>7, <2>5
<1>8. CASE h = 1 /\ l = 5 /\ n = 5
  <2>1. \A i : i \in 1..n <=> i = 1 \/ i = 2 \/ i = 3 \/ i = 4 \/ i = 5
    BY <1>8
  <2>2. 5 - 1 = 4 /\ 5 - 2 = 3 /\ 5 - 3 = 2 /\ 5 - 4 = 1 /\ 5 - 5 = 0
    OBVIOUS
  <2>3. 1 \in E /\ 2 \notin E /\ 3 \in E /\ 4 \notin E /\ 5 \in E /\ E \subseteq 1..n
    BY <1>0, <1>8, <2>1, <2>2
  <2>4. E = {1, 3, 5}
    BY <2>1, <2>3
  <2>6. 1 # 3 /\ 1 # 5 /\ 3 # 5
    OBVIOUS
  <2>7. Cardinality({1, 3, 5}) = 3
    BY <2>6, CardTriple, Zenon
  <2>5. PICK w : w = Cardinality(E) /\ w = 3
    BY <2>4, <2>7
  <2> QED
    BY <1>8, <2>5
<1>9. CASE h = 1 /\ l = 5 /\ n = 4
  <2>1. \A i : i \in 1..n <=> i = 1 \/ i = 2 \/ i = 3 \/ i = 4
    BY <1>9
  <2>2. 5 - 1 = 4 /\ 5 - 2 = 3 /\ 5 - 3 = 2 /\ 5 - 4 = 1
    OBVIOUS
  <2>3. 1 \in E /\ 2 \notin E /\ 3 \in E /\ 4 \notin E /\ E \subseteq 1..n
    BY <1>0, <1>9, <2>1, <2>2
  <2>4. E = {1, 3}
    BY <2>1, <2>3
  <2>6. 1 # 3
    OBVIOUS
  <2>7. Cardinality({1, 3}) = 2
    BY <2>6, CardPair, Zenon
  <2>5. PICK w : w = Cardinality(E) /\ w = 2
    BY <2>4, <2>7
  <2> QED
    BY <1>9, <2>5
<1>10. CASE h = 0
  <2>1. l = 0 \/ l = 2 \/ l = 4
    BY <1>10
  <2>2. (l = 2 \/ l = 4) /\ (n = l \/ n = l - 1)
    BY <2>1
  <2>3. l = 2 => n = 2 \/ n = 1
    BY <2>2
  <2>4. l = 4 => n = 4 \/ n = 3
    BY <2>2
  <2> QED
    BY <1>1, <1>2, <1>3, <1>4, <1>10, <2>2, <2>3, <2>4, Zenon
<1>11. CASE h = 1
  <2>1. l = 1 \/ l = 3 \/ l = 5
    BY <1>11
  <2>2. n = l \/ n = l - 1
    OBVIOUS
  <2>3. l = 1 => n = 1
    BY <2>2
  <2>4. l = 3 => n = 3 \/ n = 2
    BY <2>2
  <2>5. l = 5 => n = 5 \/ n = 4
    BY <2>2
  <2> QED
    BY <1>5, <1>6, <1>7, <1>8, <1>9, <1>11, <2>1, <2>3, <2>4, <2>5, Zenon
<1> QED
  BY <1>10, <1>11

(* Behind the handshake of TLS 1.3 all that is to be sent is counted. *)
AllPost(q, l) ==
    q.step > 3 /\ Len(q.pend) = l /\ \A i \in 1..l : q.pend[i] \in PostHandshake(13)

(* A message that joins is counted too. *)
LEMMA QueuePost ==
  ASSUME NEW q, PeerType(q), q.vers = 13, NEW k \in NextKinds(q), NEW l \in Nat, AllPost(q, l)
  PROVE  AllPost(Queue(q, k), l + 2)
<1>1. IsPeer(q) /\ q.step \in Nat /\ q.pend \in Seq(Kinds)
  BY DEF PeerType
<1>2. k \in Kinds /\ (q.step > Len(Script(q.vers)) => k \in PostHandshake(13))
  <2>1. Len(Script(q.vers)) \in Nat
    BY ScriptIs
  <2> QED
    BY <1>1, <2>1, NextKindsIs DEF NextKinds
<1>3. k \in PostHandshake(13)
  <2>1. PICK s \in Nat : s = 3 /\ s = Len(Script(q.vers))
    BY ScriptIs
  <2>2. q.step > s
    BY <2>1 DEF AllPost
  <2>3. q.step > Len(Script(q.vers))
    BY <2>1, <2>2
  <2> QED
    BY <1>2, <2>3
<1>4. PICK r : r = Queue(q, k)
  OBVIOUS
<1>5. r.pend = Cat(q.pend, <<k, k>>) /\ r.step = q.step
  <2>1. k # "HelloRequest"
    BY <1>3 DEF PostHandshake
  <2> QED
    BY <1>1, <1>3, <1>4, <2>1, QueueIs
<1>6. PICK t \in Seq(Kinds) : t = <<k, k>>
  <2>1. k \in Kinds
    BY <1>2
  <2>2. <<k, k>> \in Seq(Kinds)
    BY <2>1
  <2> QED
    BY <2>2, Zenon
<1>7. Len(t) = 2 /\ t[1] = k /\ t[2] = k
  BY <1>6
<1>8. Joins(r.pend, q.pend, t)
  BY <1>1, <1>5, <1>6, CatIs
<1>9. /\ Len(r.pend) = l + 2 /\ (\A i \in 1..l : r.pend[i] = q.pend[i])
      /\ r.pend[l + 1] = k /\ r.pend[l + 2] = k
  <2>1. Len(q.pend) = l
    BY DEF AllPost
  <2> QED
    BY <1>7, <1>8, <2>1 DEF Joins
<1>10. ASSUME NEW i \in 1..l+2 PROVE r.pend[i] \in PostHandshake(13)
  <2>1. i \in 1..l \/ i = l + 1 \/ i = l + 2
    OBVIOUS
  <2> QED
    BY <1>3, <1>9, <2>1 DEF AllPost
<1>11. AllPost(r, l + 2)
  BY <1>5, <1>9, <1>10 DEF AllPost
<1> QED
  BY <1>4, <1>11

(* What the peer sends of its messages, and what is left of them. *)
LEMMA QueuedFits ==
  ASSUME PeerType(p), c.hellos \in Nat, PeerFits(p, c.hellos), NEW q, Queued(q)
  PROVE  Fits(q)
<1>1. Fits(p)
  BY DEF Fits, PeerFits
<1>2. ASSUME NEW k1 \in NextKinds(p) PROVE Fits(Queue(p, k1))
  BY <1>1, QueueFits
<1>3. ASSUME NEW k1 \in NextKinds(p), NEW k2 \in NextKinds(Queue(p, k1)) PROVE Fits(Queue(Queue(p, k1), k2))
  <2>1. PICK u : u = Queue(p, k1)
    OBVIOUS
  <2>2. Fits(u) /\ k2 \in NextKinds(u)
    BY <1>2, <2>1
  <2>3. Fits(Queue(u, k2))
    BY <2>2, QueueFits
  <2> QED
    BY <2>1, <2>3
<1> QED
  BY <1>1, <1>2, <1>3 DEF Queued

(* Messages that join the others start where the peer stands. *)
LEMMA QueuedAt ==
  ASSUME PeerType(p), c.hellos \in Nat, PeerFits(p, c.hellos), NEW q, Queued(q), q.legal,
         NEW e, PeerAt(p, e, c.hellos)
  PROVE  PeerAt(q, e, c.hellos) /\ p.legal
<1>1. Fits(p)
  BY DEF Fits, PeerFits
<1>2. ASSUME NEW k1 \in NextKinds(p), Queue(p, k1).legal PROVE PeerAt(Queue(p, k1), e, c.hellos) /\ p.legal
  BY <1>1, <1>2, QueueAt
<1>3. ASSUME NEW k1 \in NextKinds(p), NEW k2 \in NextKinds(Queue(p, k1)), Queue(Queue(p, k1), k2).legal
      PROVE  PeerAt(Queue(Queue(p, k1), k2), e, c.hellos) /\ p.legal
  <2>1. PICK u : u = Queue(p, k1)
    OBVIOUS
  <2>2. Fits(u) /\ k2 \in NextKinds(u) /\ Queue(u, k2).legal
    BY <1>1, <1>3, <2>1, QueueFits
  <2>3. u.legal
    <3>1. IsPeer(u)
      BY <2>2 DEF Fits, PeerType
    <3> QED
      BY <2>2, <3>1, QueueMore
  <2>4. PeerAt(u, e, c.hellos) /\ p.legal
    BY <1>2, <2>1, <2>3
  <2>5. PeerAt(Queue(u, k2), e, c.hellos)
    BY <2>2, <2>4, QueueAt
  <2> QED
    BY <2>1, <2>4, <2>5
<1> QED
  BY <1>1, <1>2, <1>3 DEF Queued

(* Behind the handshake of TLS 1.3, at most two messages join what is left. *)
LEMMA QueuedPost ==
  ASSUME PeerType(p), p.vers = 13, NEW q, Queued(q), NEW h \in Nat, AllPost(p, h)
  PROVE  \E l \in {h, h + 2, h + 4} : AllPost(q, l)
<1>1. ASSUME NEW k1 \in NextKinds(p) PROVE AllPost(Queue(p, k1), h + 2)
  BY QueuePost
<1>2. ASSUME NEW k1 \in NextKinds(p), NEW k2 \in NextKinds(Queue(p, k1))
      PROVE  AllPost(Queue(Queue(p, k1), k2), h + 4)
  <2>1. PICK u : u = Queue(p, k1)
    OBVIOUS
  <2>2. Queued(u)
    BY <2>1 DEF Queued
  <2>3. PeerType(u) /\ u.vers = 13 /\ AllPost(u, h + 2) /\ k2 \in NextKinds(u)
    BY <1>1, <2>1, <2>2, QueuedIs
  <2>4. AllPost(Queue(u, k2), (h + 2) + 2) /\ h + 2 \in Nat /\ (h + 2) + 2 = h + 4
    BY <2>3, QueuePost
  <2> QED
    BY <2>1, <2>4
<1> QED
  BY <1>1, <1>2 DEF Queued

(* The messages of a handshake record that are counted, and their ends. *)
PostOf(q, n) == {i \in 1..n : q.pend[i] \in PostHandshake(p.vers)}
EndsOf(q, n) == Cardinality({i \in PostOf(q, n) : (Len(q.pend) - i) % 2 = 0})

(* A finite number of messages ends in a record. *)
LEMMA EndsCount == ASSUME NEW q, NEW n \in Nat PROVE EndsOf(q, n) \in Nat
<1>1. IsFiniteSet(1..n)
  BY FS_Interval
<1>2. PICK E : E = {i \in PostOf(q, n) : (Len(q.pend) - i) % 2 = 0}
  OBVIOUS
<1>3. E \in SUBSET (1..n)
  BY <1>2 DEF PostOf
<1>4. IsFiniteSet(E)
  BY <1>1, <1>3, FS_Subset
<1> QED
  BY <1>2, <1>4, FS_CardinalityType DEF EndsOf

(* The fields of the peer that a handshake record changes. *)
Turns(q, back, early, n) ==
    /\ p'.rounds = q.rounds /\ (early => back = 1 /\ q.due)
    /\ p'.keys = (IF q.due /\ (back = 0 \/ early) THEN q.keys + 1 ELSE q.keys)
    /\ p'.due = (q.due /\ ~(q.due /\ (back = 0 \/ early)))
    /\ p'.useless = (IF PostOf(q, n) = {} THEN 0 ELSE q.useless + EndsOf(q, n))
    /\ p'.legal = (q.legal /\ ~early /\ p.useless + EndsOf(q, n) <= maxUselessRecords)

(* PeerHandshake changes these fields so. *)
LEMMA HandshakeFields ==
  ASSUME NEW q, PeerType(q), NEW back \in 0..1, NEW early \in BOOLEAN, PeerHandshake(q, back, early),
         NEW n, n = Len(q.pend) - back
  PROVE  Turns(q, back, early, n)
<1> DEFINE m == Len(q.pend) - back
           s == SubSeq(q.pend, m + 1, Len(q.pend))
           post == {i \in 1..m : q.pend[i] \in PostHandshake(p.vers)}
           ends == Cardinality({i \in post : (Len(q.pend) - i) % 2 = 0})
           change == q.due /\ (back = 0 \/ early)
           useless == IF post = {} THEN 0 ELSE q.useless + ends
           legal == q.legal /\ ~early /\ p.useless + ends <= maxUselessRecords
           t == [q EXCEPT !.pend = s,
                          !.keys = IF change THEN @ + 1 ELSE @,
                          !.due = @ /\ ~change,
                          !.useless = useless,
                          !.legal = legal]
<1>1. IsPeer(q)
  BY DEF PeerType
<1>2. p' = Sent(t)
  BY <1>1 DEF PeerHandshake, IsPeer
<1>3. early => back = 1 /\ q.due
  BY DEF PeerHandshake
<1>4. post = PostOf(q, n) /\ ends = EndsOf(q, n)
  BY DEF PostOf, EndsOf
<1> HIDE DEF s, useless, legal, change
<1>5. /\ IsPeer(t) /\ t.rounds = q.rounds /\ t.keys = (IF change THEN q.keys + 1 ELSE q.keys)
      /\ t.due = (q.due /\ ~change) /\ t.useless = useless /\ t.legal = legal
  BY <1>1 DEF IsPeer
<1> HIDE DEF t
<1>6. /\ p'.rounds = q.rounds /\ p'.keys = (IF change THEN q.keys + 1 ELSE q.keys)
      /\ p'.due = (q.due /\ ~change) /\ p'.useless = useless /\ p'.legal = legal
  BY <1>2, <1>5, SentIs
<1>7. useless = (IF PostOf(q, n) = {} THEN 0 ELSE q.useless + EndsOf(q, n))
  BY <1>4 DEF useless
<1>8. legal = (q.legal /\ ~early /\ p.useless + EndsOf(q, n) <= maxUselessRecords)
  BY <1>4 DEF legal
<1> QED
  BY <1>3, <1>6, <1>7, <1>8 DEF change, Turns

(* A peer in error stays in error. *)
LEMMA QueuedLegal == ASSUME PeerType(p), NEW q, Queued(q), q.legal PROVE p.legal
<1>1. ASSUME NEW u, PeerType(u), NEW k, Queue(u, k).legal PROVE u.legal
  <2>1. IsPeer(u)
    BY <1>1 DEF PeerType
  <2> QED
    BY <1>1, <2>1, QueueMore
<1>2. ASSUME NEW k1 \in NextKinds(p), NEW k2 \in NextKinds(Queue(p, k1)), q = Queue(Queue(p, k1), k2) PROVE p.legal
  <2>1. PeerType(Queue(p, k1))
    BY QueueTyped
  <2> QED
    BY <1>1, <1>2, <2>1
<1> QED
  BY <1>1, <1>2 DEF Queued

(* The record counts at least half of what it brings. *)
LEMMA HandshakeCount ==
  ASSUME PeerType(p), p.vers = 13, NEW hellos, PeerFits(p, hellos), p.legal, NEW e \in Spot, PeerAt(p, e, hellos), e.step > 3,
         NEW q, Queued(q), Len(q.pend) \in Nat, NEW n \in 1..Len(q.pend), n = Len(q.pend) \/ n = Len(q.pend) - 1,
         NEW h, h = (IF e.half = "none" THEN 0 ELSE 1)
  PROVE  PostOf(q, n) # {} /\ EndsOf(q, n) \in Nat /\ n + h <= 2 * EndsOf(q, n) + 1
<1>1. AllPost(p, h) /\ h \in {0, 1}
  <2>1. CASE p.pend = <<>>
    <3>1. e = Final(p)
      BY <2>1, PeerPlace
    <3>2. e.half = "none" /\ p.step = e.step
      BY <3>1 DEF Final
    <3>3. h = 0 /\ Len(p.pend) = 0
      BY <2>1, <3>2
    <3> QED
      BY <3>2, <3>3 DEF AllPost
  <2>2. CASE p.pend # <<>>
    <3>1. /\ Len(p.pend) = 1 /\ e.half = p.pend[1] /\ p.pend[1] \in May(p.vers, e.step)
          /\ p.step = After(p.vers, e.step, p.pend[1])
      BY <2>2, PeerPlace
    <3>2. p.pend[1] \in PostHandshake(13)
      <4>1. PICK s \in Nat : s = 3 /\ s = Len(Script(13))
        BY ScriptIs
      <4>2. e.step > s
        BY <4>1
      <4>3. e.step > Len(Script(13))
        BY <4>1, <4>2
      <4> QED
        BY <3>1, <4>3 DEF May
    <3>3. p.pend[1] # "none" /\ p.pend[1] # "HelloRequest"
      BY <3>2 DEF PostHandshake
    <3>4. p.step = e.step /\ h = 1
      BY <3>1, <3>2, <3>3 DEF After
    <3> QED
      BY <3>1, <3>2, <3>4 DEF AllPost
  <2> QED
    BY <2>1, <2>2
<1>2. h \in Nat
  BY <1>1
<1>3. PICK l \in {h, h + 2, h + 4} : AllPost(q, l)
  BY <1>1, <1>2, QueuedPost
<1>4. l = Len(q.pend) /\ l \in Nat /\ n \in 1..l /\ n \in {l, l - 1} /\ n > 0
  BY <1>2, <1>3 DEF AllPost
<1>5. \A i \in 1..n : q.pend[i] \in PostHandshake(13)
  BY <1>3, <1>4 DEF AllPost
<1>6. PostOf(q, n) = 1..n
  BY <1>5 DEF PostOf
<1>7. PICK E : E = {i \in 1..n : (l - i) % 2 = 0}
  OBVIOUS
<1>8. Cardinality(E) \in Nat /\ n + h <= 2 * Cardinality(E) + 1
  BY <1>1, <1>3, <1>4, <1>7, EndsEnough
<1>9. EndsOf(q, n) = Cardinality(E)
  BY <1>4, <1>6, <1>7 DEF EndsOf
<1>10. 1 \in PostOf(q, n)
  BY <1>4, <1>6
<1> QED
  BY <1>8, <1>9, <1>10

(* A cut of a sequence. *)
Cuts(u, s, t, n) ==
    /\ Joins(u, s, t) /\ s \in Seq(Kinds) /\ t \in Seq(Kinds) /\ Len(s) = n /\ Len(t) = Len(u) - n
    /\ Len(s) \in Nat /\ Len(t) \in Nat

(* A record takes the first part, and the peer keeps the second. *)
LEMMA CutJoins ==
  ASSUME NEW u \in Seq(Kinds), NEW n \in 1..Len(u), NEW s, NEW t, s = SubSeq(u, 1, n), t = SubSeq(u, n + 1, Len(u))
  PROVE  Cuts(u, s, t, n)
<1>1. PICK l \in Nat : l = Len(u)
  BY LenProperties
<1>2. n \in Nat /\ n >= 1 /\ n <= l
  BY <1>1
<1>3. \A i \in 1..l : u[i] \in Kinds
  BY <1>1, ElementOfSeq
<1>4. s \in Seq(Kinds) /\ Len(s) = n /\ \A i \in 1..n : s[i] = u[i]
  BY <1>1, <1>2, <1>3, SubSeqProperties
<1>5. t \in Seq(Kinds) /\ Len(t) = l - n /\ \A i \in 1..l - n : t[i] = u[n + i]
  BY <1>1, <1>2, <1>3, SubSeqProperties
<1>6. Len(u) = Len(s) + Len(t)
  BY <1>1, <1>2, <1>4, <1>5
<1>7. Joins(u, s, t)
  BY <1>4, <1>5, <1>6 DEF Joins
<1> QED
  BY <1>1, <1>2, <1>4, <1>5, <1>7 DEF Cuts

(* Where the peer stands behind a handshake record. *)
LEMMA HandshakeWay ==
  ASSUME PeerType(p), PeerType(p'), NEW q, Fits(q), NEW back \in {0, 1}, NEW data \in Seq(Kinds), p'.pend \in Seq(Kinds),
         Joins(q.pend, data, p'.pend), Len(data) \in Nat, Len(data) # 0, Len(p'.pend) = back,
         p'.vers = p.vers, p'.step = q.step, p'.rounds = q.rounds,
         p'.keys = (IF q.due /\ back = 0 THEN q.keys + 1 ELSE q.keys), p'.due = (q.due /\ ~(q.due /\ back = 0)),
         NEW e, NEW n, PeerAt(q, e, n)
  PROVE  \E f \in Spot : PeerAt(p', f, n) /\ Path(Tag(data, p.keys), e, f, MsgSteps(p.vers, n))
<1>1. q.pend \in Seq(Kinds) /\ q.keys \in Nat /\ q.keys = p.keys /\ q.vers = p.vers /\ q.due \in BOOLEAN
  BY DEF Fits, PeerType
<1>2. Path(Tag(q.pend, q.keys), e, Final(q), MsgSteps(p.vers, n))
  BY <1>1 DEF PeerAt
<1>3. PICK R : R = MsgSteps(p.vers, n)
  OBVIOUS
<1>4. PICK U, S, T : U = Tag(q.pend, q.keys) /\ S = Tag(data, q.keys) /\ T = Tag(p'.pend, q.keys)
  OBVIOUS
<1>5. Joins(U, S, T) /\ Len(S) \in Nat /\ Len(T) \in Nat
  BY <1>1, <1>4, TagJoins
<1>6. Path(U, e, Final(q), R)
  BY <1>2, <1>3, <1>4
<1>7. PICK f : Path(S, e, f, R) /\ Path(T, f, Final(q), R)
  BY <1>5, <1>6, PathCut
<1>8. Len(S) # 0
  <2>1. Tagged(S, data, q.keys)
    BY <1>1, <1>4, TagIs
  <2> QED
    BY <2>1 DEF Tagged
<1>9. PICK m, r : <<m, r, f>> \in R
  BY <1>5, <1>7, <1>8, PathEnds
<1>10. f \in Spot
  BY <1>3, <1>9, MsgStepIs
<1>11. Final(p') = Final(q)
  BY <1>1 DEF Final
<1>12. Path(Tag(p'.pend, p'.keys), f, Final(p'), R)
  <2>1. CASE back = 0
    <3>1. p'.pend = <<>>
      BY <2>1, EmptySeq
    <3>2. T = <<>> /\ Tag(p'.pend, p'.keys) = <<>>
      <4>1. p'.keys \in Nat
        BY DEF PeerType
      <4> QED
        BY <1>1, <1>4, <3>1, <4>1, TagEmpty
    <3> QED
      BY <1>7, <1>11, <3>2
  <2>2. CASE back = 1
    <3>1. p'.keys = q.keys
      BY <2>2
    <3> QED
      BY <1>4, <1>7, <1>11, <3>1
  <2> QED
    BY <2>1, <2>2
<1>13. PeerAt(p', f, n)
  BY <1>3, <1>10, <1>12 DEF PeerAt
<1> QED
  BY <1>1, <1>3, <1>4, <1>7, <1>10, <1>13

(* A handshake record, however the messages are cut. *)
LEMMA LegalHandshakeSent ==
  ASSUME LegalInv, KeyInv, DataInv, PeerType(p), NEW q, Queued(q), NEW back \in 0..1, NEW early \in BOOLEAN,
         PeerHandshake(q, back, early)
  PROVE  LegalInv'
<1> DEFINE r == [typ |-> "handshake", keys |-> p.keys, data |-> SubSeq(q.pend, 1, Len(q.pend) - back)]
<1>1. c.hellos \in Nat /\ PeerFits(p, c.hellos) /\ maxUselessRecords \in Nat
  BY RecordsAssumption DEF LegalInv
<1>2. Fits(q)
  BY <1>1, QueuedFits
<1>3. /\ PeerType(q) /\ q.pend \in Seq(Kinds) /\ q.useless = p.useless /\ q.vers = p.vers /\ q.keys = p.keys
      /\ q.rounds \in Nat /\ q.rounds <= c.hellos /\ q.due \in BOOLEAN /\ q.legal \in BOOLEAN
      /\ p.useless \in Nat /\ p.keys \in Nat
  BY <1>1, <1>2 DEF Fits, PeerType, PeerFits
<1>4. PICK l, n, data, rest : /\ l \in Nat /\ l = Len(q.pend) /\ n = l - back
                              /\ data = SubSeq(q.pend, 1, n) /\ rest = SubSeq(q.pend, n + 1, l)
  BY <1>3, LenProperties
<1>5. /\ n \in 1..l /\ Emit("handshake", data) /\ UNCHANGED <<raw, c>> /\ PeerType(p') /\ p'.pend = rest
      /\ p'.vers = p.vers /\ p'.step = q.step
  BY <1>3, <1>4, HandshakeSent
<1>6. /\ p'.rounds = q.rounds /\ (early => back = 1 /\ q.due)
      /\ p'.keys = (IF q.due /\ (back = 0 \/ early) THEN q.keys + 1 ELSE q.keys)
      /\ p'.due = (q.due /\ ~(q.due /\ (back = 0 \/ early)))
      /\ p'.useless = (IF PostOf(q, n) = {} THEN 0 ELSE q.useless + EndsOf(q, n))
      /\ p'.legal = (q.legal /\ ~early /\ p.useless + EndsOf(q, n) <= maxUselessRecords)
  <2>1. n = Len(q.pend) - back
    BY <1>4
  <2>2. Turns(q, back, early, n)
    BY <1>3, <2>1, HandshakeFields, Zenon
  <2> QED
    BY <2>2 DEF Turns
<1>7. /\ Joins(q.pend, data, rest) /\ data \in Seq(Kinds) /\ rest \in Seq(Kinds) /\ Len(data) = n
      /\ Len(rest) = l - n /\ Len(data) \in Nat
  <2>1. n \in 1..Len(q.pend) /\ rest = SubSeq(q.pend, n + 1, Len(q.pend))
    BY <1>4, <1>5
  <2>2. PICK u \in Seq(Kinds) : u = q.pend
    BY <1>3
  <2>3. n \in 1..Len(u) /\ data = SubSeq(u, 1, n) /\ rest = SubSeq(u, n + 1, Len(u))
    BY <1>4, <2>1, <2>2
  <2>4. Cuts(u, data, rest, n)
    BY <2>3, CutJoins, Zenon
  <2> QED
    BY <1>4, <2>2, <2>4 DEF Cuts
<1>8. n \in Nat /\ n >= 1 /\ l - n = back /\ back \in {0, 1} /\ (n = l \/ n = l - 1)
  BY <1>4, <1>5
<1>9. EndsOf(q, n) \in Nat
  BY <1>8, EndsCount
<1>10. (p'.legal => q.legal /\ ~early /\ p.useless + EndsOf(q, n) <= maxUselessRecords) /\ p'.legal \in BOOLEAN
  BY <1>3, <1>6, Zenon
<1>11. p'.useless \in Nat /\ (p'.legal => p'.useless <= maxUselessRecords)
  <2>1. q.useless + EndsOf(q, n) \in Nat /\ 0 <= maxUselessRecords
    BY <1>1, <1>3, <1>9
  <2> QED
    BY <1>3, <1>6, <1>10, <2>1
<1>12. Len(p'.pend) = back /\ Len(p'.pend) <= 1 /\ (p'.pend = <<>> => ~p'.due) /\ p'.due \in BOOLEAN
  <2>1. Len(p'.pend) = back /\ Len(p'.pend) <= 1
    BY <1>5, <1>7, <1>8
  <2>2. p'.pend = <<>> => back = 0
    BY <2>1
  <2> QED
    BY <1>3, <1>6, <2>1, <2>2
<1>13. PeerFits(p', c.hellos)
  BY <1>3, <1>6, <1>10, <1>11, <1>12 DEF PeerFits
<1>14. r = [typ |-> "handshake", keys |-> p.keys, data |-> data] /\ r \in Recs
  BY <1>3, <1>4, <1>7 DEF Recs, RecType, Rec
<1>15. p'.legal => p.legal
  BY <1>10, QueuedLegal
<1>16. ASSUME p'.legal, NEW e \in Spot, PeerAt(p, e, c.hellos)
       PROVE  \E f \in Spot : /\ PeerAt(p', f, c.hellos)
                              /\ LegalRecord(p.vers, c.hellos, e, p.useless,
                                             [typ |-> "handshake", keys |-> p.keys, data |-> data], f, p'.useless)
  <2>1. q.legal /\ ~early /\ p.legal /\ p'.useless <= maxUselessRecords
    BY <1>10, <1>11, <1>15, <1>16
  <2>2. PeerAt(q, e, c.hellos)
    BY <1>1, <1>16, <2>1, QueuedAt
  <2>3. /\ p'.keys = (IF q.due /\ back = 0 THEN q.keys + 1 ELSE q.keys)
        /\ p'.due = (q.due /\ ~(q.due /\ back = 0)) /\ Len(data) # 0 /\ p'.pend \in Seq(Kinds) /\ Joins(q.pend, data, p'.pend)
    <3>1. (back = 0 \/ early) <=> back = 0
      BY <2>1
    <3>2. Len(data) # 0
      BY <1>7, <1>8
    <3> QED
      BY <1>5, <1>6, <1>7, <3>1, <3>2
  <2>4. PICK f \in Spot : PeerAt(p', f, c.hellos) /\ Path(Tag(data, p.keys), e, f, MsgSteps(p.vers, c.hellos))
    BY <1>2, <1>5, <1>6, <1>7, <1>8, <1>12, <2>2, <2>3, HandshakeWay
  <2>5. PICK x : x = [typ |-> "handshake", keys |-> p.keys, data |-> data]
    OBVIOUS
  <2>6. x.typ = "handshake" /\ x.keys = p.keys /\ x.data = data
    BY <2>5
  <2>7. Halves(x) = Tag(data, p.keys) /\ data # <<>>
    BY <2>3, <2>6 DEF Halves, Tag
  <2>8. e.keys = p.keys
    BY <1>1, <1>16, <2>1, PeerPlace
  <2>9. ASSUME p.vers = 13, e.step > 3
        PROVE  Len(x.data) + (IF e.half = "none" THEN 0 ELSE 1) <= 2 * p'.useless + 1
    <3>1. PICK h : h = (IF e.half = "none" THEN 0 ELSE 1)
      OBVIOUS
    <3>2. PostOf(q, n) # {} /\ n + h <= 2 * EndsOf(q, n) + 1
      BY <1>1, <1>4, <1>5, <1>8, <1>16, <2>1, <2>9, <3>1, HandshakeCount
    <3>3. p'.useless = p.useless + EndsOf(q, n)
      BY <1>3, <1>6, <3>2
    <3>4. h \in Nat /\ Len(x.data) = n
      BY <1>7, <2>6, <3>1
    <3>5. n + h <= 2 * p'.useless + 1
      BY <1>3, <1>8, <1>9, <3>2, <3>3, <3>4
    <3> QED
      BY <3>1, <3>4, <3>5
  <2>10. LegalHandshake(p.vers, c.hellos, e, x, f, p'.useless)
    BY <2>4, <2>6, <2>7, <2>8, <2>9 DEF LegalHandshake
  <2>11. LegalRecord(p.vers, c.hellos, e, p.useless, x, f, p'.useless)
    BY <2>1, <2>10 DEF LegalRecord
  <2> QED
    BY <2>4, <2>5, <2>11
<1> QED
  BY <1>5, <1>13, <1>14, <1>15, <1>16, LegalSend

(* Every step of the peer. *)
LEMMA LegalPeer == ASSUME LegalInv, KeyInv, DataInv, PeerType(p), Peer PROVE LegalInv'
<1>1. CASE \E back \in 0..1, early \in BOOLEAN :
              \/ PeerHandshake(p, back, early)
              \/ \E k1 \in NextKinds(p) :
                   LET q == Queue(p, k1)
                   IN  \/ PeerHandshake(q, back, early)
                       \/ \E k2 \in NextKinds(q) : PeerHandshake(Queue(q, k2), back, early)
  <2>1. \E q : Queued(q) /\ \E back \in 0..1, early \in BOOLEAN : PeerHandshake(q, back, early)
    BY <1>1 DEF Queued
  <2> QED
    BY <2>1, LegalHandshakeSent
<1>2. CASE \E n \in 0..2 : PeerData(n)
  BY <1>2, LegalDataSent
<1>3. CASE \E what \in {"warning", "close", "fatal"} : PeerAlert(what)
  BY <1>3, LegalAlertSent
<1>4. CASE PeerCCS
  <2>1. p.vers = 12 \/ p.vers = 13
    BY DEF PeerType
  <2> QED
    BY <1>4, <2>1, LegalCCSSent12, LegalCCSSent13
<1>5. CASE PeerCut
  BY <1>5, LegalCut
<1> QED
  BY <1>1, <1>2, <1>3, <1>4, <1>5 DEF Peer

(* Every step. *)
LEMMA LegalStep == ASSUME LegalInv, KeyInv, DataInv, PeerType(p), [Next]_vars PROVE LegalInv'
<1>1. CASE Peer
  BY <1>1, LegalPeer
<1>2. CASE Reader \/ ReadTimeout
  BY <1>2, LegalRefuse, LegalDrop, LegalTake, LegalRefused, LegalEOF, LegalTimeout, LegalScript,
     LegalPost13, LegalPost12, LegalStart, LegalBytes DEF Reader
<1>3. CASE UNCHANGED vars
  <2>1. UNCHANGED <<p, wire, raw, c>>
    BY <1>3 DEF vars
  <2>2. InFlight' = InFlight
    BY <2>1 DEF InFlight
  <2> QED
    BY <2>1, <2>2 DEF LegalInv
<1> QED
  BY <1>1, <1>2, <1>3 DEF Next

(* Before the first record. *)
LEMMA LegalInit == ASSUME Init PROVE LegalInv
<1>1. wire = <<>> /\ raw = <<>>
  BY DEF Init
<1>2. PICK v \in Versions, policy \in Policies :
         /\ p = [vers |-> v, keys |-> 0, step |-> 1, pend |-> <<>>, due |-> FALSE,
                 rounds |-> 0, asked |-> FALSE, post |-> 0, useless |-> 0, bytes |-> 0,
                 records |-> 0, errors |-> 0, closed |-> FALSE, legal |-> TRUE]
         /\ c = [policy |-> policy, vers |-> 0, pc |-> "hs", step |-> 1, keys |-> 0,
                 hand |-> <<>>, input |-> <<>>, retryCount |-> 0, complete |-> FALSE,
                 handshakes |-> 0, hellos |-> 1, inErr |-> "none", dead |-> FALSE,
                 held |-> <<>>, got |-> <<>>, last |-> "none",
                 taken |-> [kind |-> "none", at |-> 0, keys |-> {0}]]
  BY DEF Init
<1>3. /\ c.pc = "hs" /\ c.step = 1 /\ c.keys = 0 /\ c.hand = <<>> /\ c.input = <<>> /\ c.retryCount = 0
      /\ c.hellos = 1 /\ c.inErr = "none" /\ c.last = "none"
  BY <1>2
<1>4. /\ p.vers = v /\ p.keys = 0 /\ p.step = 1 /\ p.pend = <<>> /\ p.due = FALSE /\ p.rounds = 0 /\ p.useless = 0
      /\ p.legal = TRUE
  BY <1>2
<1>5. v \in {12, 13} /\ maxUselessRecords \in Nat /\ 0 <= maxUselessRecords
  BY RecordsAssumption
<1>6. PICK s : s = Final(p)
  OBVIOUS
<1>7. s \in Spot /\ s.half = "none" /\ s.step = 1 /\ s.rounds = 0 /\ s.keys = 0
  BY <1>4, <1>6, FinalSpot
<1>8. PICK l \in Nat : l >= 1 /\ l = Len(Script(v))
  <2>1. CASE v = 12
    <3>1. PICK l \in Nat : l = 4 /\ l = Len(Script(12))
      BY ScriptIs
    <3>2. l >= 1
      BY <3>1
    <3> QED
      BY <2>1, <3>1, <3>2, Zenon
  <2>2. CASE v = 13
    <3>1. PICK l \in Nat : l = 3 /\ l = Len(Script(13))
      BY ScriptIs
    <3>2. l >= 1
      BY <3>1
    <3> QED
      BY <2>2, <3>1, <3>2, Zenon
  <2> QED
    BY <1>5, <2>1, <2>2
<1>9. ReaderAt(c, v, s)
  <2>1. 1 \in 1..Len(Script(v))
    BY <1>8
  <2> QED
    BY <1>3, <1>7, <2>1 DEF ReaderAt
<1>10. ReaderFits(c, v)
  BY <1>3 DEF ReaderFits
<1>11. CountFits(c, v, 0)
  BY <1>3, <1>5 DEF CountFits
<1>12. Path(c.hand, s, s, MsgSteps(v, c.hellos))
  BY <1>3, PathEmpty
<1>13. Stands(c, v, s, s, 0)
  BY <1>7, <1>9, <1>10, <1>11, <1>12 DEF Stands
<1>14. PeerAt(p, s, c.hellos)
  <2>1. Tag(p.pend, p.keys) = <<>>
    BY <1>4, TagEmpty
  <2> QED
    BY <1>6, <1>7, <2>1, PathEmpty DEF PeerAt
<1>15. InFlight = <<>>
  BY <1>1, EmptySeq, ConcatEmptySeq DEF InFlight
<1>16. Path(InFlight, <<s, 0>>, <<s, p.useless>>, RecSteps(p.vers, c.hellos))
  BY <1>4, <1>15, PathEmpty
<1>17. Way(InFlight, s, 0, p, c.hellos)
  BY <1>14, <1>16 DEF Way
<1>18. Going(c, InFlight, p)
  BY <1>4, <1>13, <1>17 DEF Going
<1>19. PeerFits(p, c.hellos)
  <2>1. Len(p.pend) <= 1
    BY <1>4
  <2>2. p.rounds \in Nat /\ p.useless \in Nat /\ p.rounds <= c.hellos /\ p.useless <= maxUselessRecords
    BY <1>3, <1>4, <1>5
  <2>3. p.due \in BOOLEAN /\ p.legal \in BOOLEAN /\ ~p.due
    BY <1>4, Zenon
  <2> QED
    BY <2>1, <2>2, <2>3 DEF PeerFits
<1>20. c.inErr \notin Refusals /\ c.last \notin Refusals
  BY <1>3 DEF Refusals
<1> QED
  BY <1>3, <1>18, <1>19, <1>20 DEF LegalInv

(* The invariant implies that nothing was refused. *)
LEMMA LegalHolds == ASSUME LegalInv PROVE LegalNeverRefused
  BY DEF LegalInv, LegalNeverRefused

(* What the reader holds and what is under way is what a peer that keeps to    *)
(* the protocol would send next, message by message and record by record, with *)
(* no more useless records than are allowed.                                   *)
THEOREM LegalInvariant == Spec => []LegalInv
<1>1. Init => LegalInv
  BY LegalInit
<1>2. LegalInv /\ KeyInv /\ (DataInv /\ PeerType(p)) /\ [Next]_vars => LegalInv'
  BY LegalStep
<1> QED
  BY <1>1, <1>2, KeyInvariant, BytesInvariant, PTL DEF Spec

(* A peer that keeps to the protocol, to maxUselessRecords and to silence      *)
(* while a HelloRequest is open is never refused, wherever it cuts its         *)
(* messages into records (readRecordOrCCS, readHandshake, retryReadRecord).    *)
THEOREM LegalPeerNeverRefused == Spec => []LegalNeverRefused
<1>1. LegalInv => LegalNeverRefused
  BY LegalHolds
<1> QED
  BY <1>1, LegalInvariant, PTL
=============================================================================
