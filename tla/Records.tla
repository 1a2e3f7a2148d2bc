------------------------------ MODULE Records ------------------------------
(***************************************************************************)
(* The reading half of a client Conn: readRecordOrCCS, the retry counter,  *)
(* the handshake buffer c.hand, the key changes of both protocol versions  *)
(* and the Read call with its post-handshake messages, its renegotiation   *)
(* and its look ahead for a close_notify.  The peer is a process of its    *)
(* own that decides where records begin and end: a handshake message is    *)
(* two halves, and a record holds any number of halves, so a message may   *)
(* straddle two records, share one with its successor, or straddle a key   *)
(* change.  p.legal remembers whether the peer has kept to the protocol.   *)
(* What a record's bytes are is left out: keys are numbered by epoch, and  *)
(* a record can be opened exactly with the keys it was protected with.     *)
(***************************************************************************)
EXTENDS Integers, Sequences, FiniteSets

CONSTANTS
    Versions,           \* versions the peer may negotiate, from {12, 13}
    Policies,           \* values of Config.Renegotiation to consider
    maxUselessRecords,  \* of common.go (16 there)
    MaxRecords,         \* bound: records the peer sends
    MaxErrors,          \* bound: records it sends from its first error on
    MaxBytes,           \* bound: bytes of application data the peer sends
    MaxPost,            \* bound: post-handshake messages the peer sends
    MaxWire             \* bound: records in flight

ASSUME RecordsAssumption ==
    /\ Versions \subseteq {12, 13}
    /\ Policies \subseteq {"never", "once", "freely"}
    /\ {maxUselessRecords, MaxRecords, MaxErrors, MaxBytes, MaxPost, MaxWire}
         \subseteq Nat

VARIABLES
    p,      \* the peer
    wire,   \* records the peer has sent and readFromUntil has not fetched
    raw,    \* c.rawInput: records fetched, not yet processed
    c       \* the Conn: its fields and the position of its reading goroutine

vars == <<p, wire, raw, c>>

-----------------------------------------------------------------------------
(* What the two ends do in turn.  "ccs" is the ChangeCipherSpec record of  *)
(* TLS 1.2; in TLS 1.3 keys change after the messages of KeyChanging.      *)

Script(v) ==
    IF v = 13 THEN <<"ServerHello", "EncryptedExtensions", "Finished">>
              ELSE <<"ServerHello", "ServerHelloDone", "ccs", "Finished">>

PostHandshake(v) ==
    IF v = 13 THEN {"NewSessionTicket", "KeyUpdate"} ELSE {"HelloRequest"}

KeyChanging == {"ServerHello", "Finished", "KeyUpdate"}

(* The type in the clear in a record's header: TLS 1.3 hides the real one. *)
OuterType(r) ==
    IF p.vers = 13 /\ r.keys > 0 /\ r.typ # "ccs" THEN "data" ELSE r.typ

(* The handshake expects a ChangeCipherSpec (readChangeCipherSpec).        *)
ExpectCCS == c.pc = "hs" /\ c.vers # 0 /\ Script(c.vers)[c.step] = "ccs"

(* Mutant: readHandshake is content with the header of a message.          *)
NeedsRecordHeader ==
    \/ c.pc \in {"hs", "post"} /\ (Len(c.hand) < 1 \/ ExpectCCS)
    \/ c.pc = "read" /\ c.input = <<>>
    \/ c.pc = "peek"

(* The goroutine waits for a record: in a handshake message or a           *)
(* ChangeCipherSpec, at the top of Read's loop, inside a post-handshake    *)
(* message, or looking for a close_notify.                                 *)
NeedsRecord ==
    \/ c.pc \in {"hs", "post"} /\ (Len(c.hand) < 2 \/ ExpectCCS)
    \/ c.pc = "read" /\ c.input = <<>>
    \/ c.pc = "peek"

-----------------------------------------------------------------------------
(* The peer.                                                               *)

InScript == p.step <= Len(Script(p.vers))

(* A message has begun and its second half is still to be sent.            *)
Partial == p.pend # <<>>

(* The peer acts while the client waits for a record: what it sends while  *)
(* the client computes is read no earlier than the client's next wait.     *)
PeerMayAct == /\ ~p.closed /\ c.inErr = "none"
              /\ c.pc # "idle" /\ c.input = <<>>

Emit(typ, data) ==
    /\ PeerMayAct
    /\ p.records < MaxRecords /\ p.errors < MaxErrors
    /\ Len(wire) < MaxWire
    /\ wire' = Append(wire, [typ |-> typ, keys |-> p.keys, data |-> data])

(* The record is counted, and counted again from the first error on.       *)
Sent(q) == [q EXCEPT !.records = @ + 1, !.errors = IF q.legal THEN @ ELSE @ + 1]

(* A non-advancing record: legal as long as the limit is kept.             *)
Useless(q, ok) ==
    [q EXCEPT !.useless = @ + 1, !.legal = @ /\ ok /\ q.useless < maxUselessRecords]

(* The messages a peer may send next: the handshake's next one, or any     *)
(* after the handshake.  A ServerHello answers a ClientHello.              *)
NextKinds(q) ==
    IF q.step > Len(Script(q.vers))
    THEN IF q.post < MaxPost THEN PostHandshake(q.vers) ELSE {}
    ELSE IF q.step = 1 /\ c.hellos = q.rounds THEN {} ELSE {Script(q.vers)[q.step]} \ {"ccs"}

(* A message joins the ones to be sent.  With a key change due, that is    *)
(* the peer's error.                                                       *)
Queue(q, kind) ==
    [q EXCEPT !.pend = @ \o <<kind, kind>>,
              !.step = IF kind = "HelloRequest" THEN 1
                       ELSE IF kind \in PostHandshake(q.vers) THEN @ ELSE @ + 1,
              !.rounds = IF kind = "ServerHello" THEN @ + 1 ELSE @,
              !.post = IF kind \in PostHandshake(q.vers) THEN @ + 1 ELSE @,
              !.asked = (@ /\ kind # "Finished") \/ kind = "HelloRequest",
              !.due = @ \/ (q.vers = 13 /\ kind \in KeyChanging),
              !.legal = @ /\ ~q.due]

(* A handshake record with the messages of q that are to be sent, the half *)
(* of an earlier one first; back = 1 keeps the last half for a later       *)
(* record.                                                                 *)
(* In TLS 1.3 the peer changes its keys after a message of KeyChanging,    *)
(* by error (early) with half of it still unsent.                          *)
PeerHandshake(q, back, early) ==
    LET n == Len(q.pend) - back
        post == {i \in 1..n : q.pend[i] \in PostHandshake(p.vers)}
        ends == Cardinality({i \in post : (Len(q.pend) - i) % 2 = 0})
        change == q.due /\ (back = 0 \/ early)
    IN  /\ n > 0
        /\ early => back = 1 /\ q.due
        /\ Emit("handshake", SubSeq(q.pend, 1, n))
        /\ p' = Sent([q EXCEPT
                        !.pend = SubSeq(@, n + 1, Len(@)),
                        !.keys = IF change THEN @ + 1 ELSE @,
                        !.due = @ /\ ~change,
                        !.useless = IF post = {} THEN 0 ELSE @ + ends,
                        !.legal = @ /\ ~early /\ p.useless + ends <= maxUselessRecords])
        /\ UNCHANGED <<raw, c>>

(* Application data, n bytes of it.  With TLS 1.2 the protocol lets it     *)
(* travel around the messages of a renegotiation, which this client does   *)
(* not: p.asked is that one restriction.                                   *)
PeerData(n) ==
    /\ p.bytes + n <= MaxBytes
    /\ Emit("data", [i \in 1..n |-> p.bytes + i])
    /\ LET ok == ~InScript /\ ~Partial /\ ~p.asked
       IN  p' = Sent(IF n = 0 THEN Useless(p, ok)
                     ELSE [p EXCEPT !.bytes = @ + n, !.useless = 0, !.legal = @ /\ ok])
    /\ UNCHANGED <<raw, c>>

(* An alert: a warning to be ignored (user_canceled in TLS 1.3), a         *)
(* close_notify or a fatal one.                                            *)
PeerAlert(what) ==
    /\ Emit("alert", what)
    /\ LET ok == p.vers = 13 => ~Partial
       IN  p' = Sent(IF what = "warning" THEN Useless(p, ok)
                     ELSE [p EXCEPT !.closed = TRUE, !.legal = @ /\ ok])
    /\ UNCHANGED <<raw, c>>

(* A ChangeCipherSpec: in TLS 1.3 a dummy, sent in the clear; in TLS 1.2   *)
(* the key change itself.                                                  *)
PeerCCS ==
    /\ Emit("ccs", 1)
    /\ p' = Sent(IF p.vers = 13
                 THEN Useless(p, p.step \in 2..3 /\ ~Partial)
                 ELSE [p EXCEPT !.keys = @ + 1,
                                !.step = IF p.step = 3 THEN 4 ELSE @,
                                !.legal = @ /\ p.step = 3 /\ ~Partial])
    /\ UNCHANGED <<raw, c>>

(* The transport ends without a close_notify.                              *)
PeerCut ==
    /\ PeerMayAct /\ wire = <<>>
    /\ p' = [p EXCEPT !.closed = TRUE]
    /\ UNCHANGED <<wire, raw, c>>

Peer ==
    \/ \E back \in 0..1, early \in BOOLEAN :
         \/ PeerHandshake(p, back, early)
         \/ \E k1 \in NextKinds(p) :
              LET q == Queue(p, k1)
              IN  \/ PeerHandshake(q, back, early)
                  \/ \E k2 \in NextKinds(q) : PeerHandshake(Queue(q, k2), back, early)
    \/ \E n \in 0..2 : PeerData(n)
    \/ \E what \in {"warning", "close", "fatal"} : PeerAlert(what)
    \/ PeerCCS
    \/ PeerCut

-----------------------------------------------------------------------------
(* readRecordOrCCS.                                                        *)

(* Mutant: a record may overwrite data that is not read yet.               *)
MayReadOver == c.inErr = "none"

(* What readRecordOrCCS finds before it turns to the transport: no earlier *)
(* error, and no application data that the record would overwrite.         *)
MayRead == c.inErr = "none" /\ c.input = <<>>

(* The next record, and what rawInput holds after it: readFromUntil asks   *)
(* the transport only when rawInput is short, and then takes whatever is   *)
(* there.  Records are fetched whole.                                      *)
Record == Head(raw \o wire)

Fetch ==
    /\ NeedsRecord /\ MayRead
    /\ \/ raw # <<>> /\ raw' = Tail(raw) /\ UNCHANGED wire
       \/ /\ raw = <<>>
          /\ \E k \in 1..Len(wire) : /\ raw' = SubSeq(wire, 2, k)
                                     /\ wire' = SubSeq(wire, k + 1, Len(wire))

(* halfConn.decrypt: a TLS 1.3 ChangeCipherSpec is passed as it is; all    *)
(* else must be protected with the keys in force.                          *)
Decrypts(r) == (c.vers = 13 /\ r.typ = "ccs") \/ r.keys = c.keys

(* The state-advancing records, which reset the retry count.               *)
Advancing(r) == r.typ \notin {"alert", "ccs"} /\ r.data # <<>>

Counted(r) == IF Advancing(r) THEN 0 ELSE c.retryCount

Ignored(r) ==
    \/ r.typ = "alert" /\ r.data = "warning"
    \/ r.typ = "ccs" /\ c.vers = 13
    \/ r.typ = "data" /\ r.data = <<>>

(* The checks of readRecordOrCCS, in its order: the error that ends the    *)
(* connection, or "none".                                                  *)
RecordError(r) ==
    IF c.vers = 0 /\ r.typ \notin {"alert", "handshake"} THEN "header"
    ELSE IF ~Decrypts(r) THEN "bad_record_mac"
    ELSE IF \/ r.typ = "data" /\ c.keys = 0
            \/ c.vers = 13 /\ r.typ # "handshake" /\ c.hand # <<>> THEN "unexpected"
    ELSE IF r.typ = "alert" /\ r.data = "close" THEN "eof"
    ELSE IF r.typ = "alert" /\ r.data = "fatal" THEN "remote"
    ELSE IF \/ r.typ = "ccs" /\ (c.hand # <<>> \/ (c.vers # 13 /\ ~ExpectCCS))
            \/ r.typ = "data" /\ (~c.complete \/ ExpectCCS)
            \/ r.typ = "handshake" /\ ExpectCCS THEN "unexpected"
    ELSE IF Ignored(r) /\ Counted(r) + 1 > maxUselessRecords THEN "ignored"
    ELSE "none"

(* A call returns error e (or "none"), a Read with the bytes it holds.  An *)
(* error of a handshake is kept in c.handshakeErr and ends the connection. *)
Return(d, e) ==
    [d EXCEPT !.pc = "idle", !.last = e, !.got = d.got \o d.held, !.held = <<>>,
              !.dead = d.dead \/ d.pc = "hs"]

(* setErrorLocked: the error stays.                                        *)
Fail(d, e) == Return([d EXCEPT !.inErr = e], e)

(* Read's inner loop goes on as long as c.hand holds something.            *)
Loop(d) == [d EXCEPT !.pc = IF d.hand # <<>> THEN "post" ELSE "read"]

(* What a record that passes the checks adds to the connection.            *)
Applied(r) ==
    LET d == [c EXCEPT !.retryCount = Counted(r)]
    IN  CASE r.typ = "data" -> [d EXCEPT !.input = r.data]
          [] r.typ = "handshake" ->
               [d EXCEPT !.hand = @ \o [i \in 1..Len(r.data) |->
                                          [kind |-> r.data[i], keys |-> r.keys]]]
          [] r.typ = "ccs" -> [d EXCEPT !.keys = @ + 1, !.step = @ + 1]

RefuseRecord ==
    /\ Fetch
    /\ RecordError(Record) # "none"
    /\ c' = Fail(c, RecordError(Record))
    /\ UNCHANGED p

(* retryReadRecord: the caller still waits for a record.                   *)
DropRecord ==
    /\ Fetch
    /\ RecordError(Record) = "none" /\ Ignored(Record)
    /\ c' = [c EXCEPT !.retryCount = Counted(Record) + 1]
    /\ UNCHANGED p

TakeRecord ==
    /\ Fetch
    /\ RecordError(Record) = "none" /\ ~Ignored(Record)
    /\ LET d == Applied(Record)
       IN  c' = CASE c.pc = "read" -> Loop(d)
                  [] c.pc = "peek" -> Return(d, "none")
                  [] OTHER -> d
    /\ UNCHANGED p

(* An earlier error, or data that a reader inside a handshake message has  *)
(* left in c.input.                                                        *)
ReadRefused ==
    /\ NeedsRecord /\ ~MayRead
    /\ c' = IF c.inErr # "none" THEN Return(c, c.inErr) ELSE Fail(c, "internal")
    /\ UNCHANGED <<p, wire, raw>>

(* The end of the transport at a record boundary is an EOF.                *)
ReadEOF ==
    /\ NeedsRecord /\ MayRead
    /\ raw = <<>> /\ wire = <<>> /\ p.closed
    /\ c' = Fail(c, "eof")
    /\ UNCHANGED <<p, wire, raw>>

(* A deadline: a temporary error, which setErrorLocked does not keep.      *)
ReadTimeout ==
    /\ NeedsRecord /\ MayRead
    /\ raw = <<>> /\ wire = <<>> /\ ~p.closed
    /\ c' = Return(c, "timeout")
    /\ UNCHANGED <<p, wire, raw>>

-----------------------------------------------------------------------------
(* Handshake messages.                                                     *)

(* readHandshake: the first message of c.hand leaves it.                   *)
Taken ==
    [c EXCEPT !.hand = SubSeq(@, 3, Len(@)),
              !.taken = [kind |-> c.hand[1].kind, at |-> c.keys,
                         keys |-> {c.hand[1].keys, c.hand[2].keys}]]

(* Mutant: keys change whatever c.hand holds.                              *)
MayChangeKeysAnytime(d) == TRUE

(* setReadTrafficSecret refuses while c.hand holds anything.               *)
MayChangeKeys(d) == d.hand = <<>>

(* The handshake's own messages, in order; the ServerHello carries the     *)
(* version, and Finished ends the handshake.                               *)
HandshakeMessage ==
    /\ c.pc = "hs" /\ ~ExpectCCS /\ Len(c.hand) >= 2
    /\ LET kind == c.hand[1].kind
           changes == p.vers = 13 /\ kind \in KeyChanging
           next == [Taken EXCEPT !.vers = p.vers,
                                 !.step = @ + 1,
                                 !.keys = IF changes THEN @ + 1 ELSE @]
           done == [next EXCEPT !.complete = TRUE, !.handshakes = @ + 1]
       IN  c' = IF kind # Script(p.vers)[c.step] THEN Return(Taken, "unexpected")
                ELSE IF changes /\ ~MayChangeKeys(Taken) THEN Return(Taken, "keychange")
                ELSE IF kind # "Finished" THEN next
                ELSE IF c.handshakes = 0 THEN [done EXCEPT !.pc = "idle"]
                ELSE Loop(done)
    /\ UNCHANGED <<p, wire, raw>>

(* handlePostHandshakeMessage with TLS 1.3.                                *)
PostMessage13 ==
    /\ c.pc = "post" /\ c.vers = 13 /\ Len(c.hand) >= 2
    /\ LET kind == c.hand[1].kind
           d == [Taken EXCEPT !.retryCount = @ + 1]
       IN  c' = IF d.retryCount > maxUselessRecords THEN Fail(d, "ignored")
                ELSE CASE kind = "NewSessionTicket" -> Loop(d)
                       [] kind = "KeyUpdate" -> IF MayChangeKeys(d) THEN Loop([d EXCEPT !.keys = @ + 1])
                                                ELSE Return(d, "keychange")
                       [] OTHER -> Return(d, "unexpected")
    /\ UNCHANGED <<p, wire, raw>>

(* handleRenegotiation: a HelloRequest, declined or answered with a new    *)
(* handshake inside the Read call.                                         *)
PostMessage12 ==
    /\ c.pc = "post" /\ c.vers = 12 /\ Len(c.hand) >= 2
    /\ LET declined == \/ c.policy = "never"
                       \/ c.policy = "once" /\ c.handshakes > 1
       IN  c' = IF c.hand[1].kind # "HelloRequest" THEN Return(Taken, "unexpected")
                ELSE IF declined THEN Return(Taken, "noreneg")
                ELSE [Taken EXCEPT !.complete = FALSE, !.step = 1,
                                   !.pc = "hs", !.hellos = @ + 1]
    /\ UNCHANGED <<p, wire, raw>>

-----------------------------------------------------------------------------
(* Read.                                                                   *)

StartRead ==
    /\ c.pc = "idle" /\ ~c.dead
    /\ c' = [c EXCEPT !.pc = "read"]
    /\ UNCHANGED <<p, wire, raw>>

(* Mutant: the next record is looked at before the data is used up.        *)
AlertWaitsEarly(rest) == raw # <<>> /\ OuterType(Head(raw)) = "alert"

(* Whether an alert waits behind the last byte of a record.                *)
AlertWaits(rest) == rest = <<>> /\ raw # <<>> /\ OuterType(Head(raw)) = "alert"

(* Read copies n bytes out of c.input.                                     *)
ReadBytes(n) ==
    /\ c.pc = "read" /\ n \in 1..Len(c.input)
    /\ LET rest == SubSeq(c.input, n + 1, Len(c.input))
           d == [c EXCEPT !.input = rest, !.held = SubSeq(c.input, 1, n)]
       IN  c' = IF AlertWaits(rest) THEN [d EXCEPT !.pc = "peek"] ELSE Return(d, "none")
    /\ UNCHANGED <<p, wire, raw>>

Reader ==
    \/ RefuseRecord \/ DropRecord \/ TakeRecord
    \/ ReadRefused \/ ReadEOF
    \/ HandshakeMessage \/ PostMessage13 \/ PostMessage12
    \/ StartRead
    \/ \E n \in 1..2 : ReadBytes(n)

-----------------------------------------------------------------------------
(* The client has sent its ClientHello and waits for the answer.  Its      *)
(* Renegotiation policy has no part in TLS 1.3.                            *)
Init ==
    /\ wire = <<>>
    /\ raw = <<>>
    /\ \E v \in Versions, policy \in Policies :
         /\ v = 13 => policy = "never"
         /\ p = [vers |-> v, keys |-> 0, step |-> 1, pend |-> <<>>, due |-> FALSE,
                 rounds |-> 0, asked |-> FALSE, post |-> 0, useless |-> 0, bytes |-> 0,
                 records |-> 0, errors |-> 0, closed |-> FALSE, legal |-> TRUE]
         /\ c = [policy |-> policy, vers |-> 0, pc |-> "hs", step |-> 1, keys |-> 0,
                 hand |-> <<>>, input |-> <<>>, retryCount |-> 0, complete |-> FALSE,
                 handshakes |-> 0, hellos |-> 1, inErr |-> "none", dead |-> FALSE,
                 held |-> <<>>, got |-> <<>>, last |-> "none",
                 taken |-> [kind |-> "none", at |-> 0, keys |-> {0}]]

Next == Peer \/ Reader \/ ReadTimeout

(* The reading goroutine runs whenever it can, the application calls Read  *)
(* again; no deadline has to be set.                                       *)
Spec == Init /\ [][Next]_vars /\ WF_vars(Reader)

-----------------------------------------------------------------------------
(* Every handshake message the client acts on was protected, both halves   *)
(* of it, with the keys in force when it is acted on, and those are the    *)
(* keys its kind belongs to: in the clear for the first ServerHello,       *)
(* handshake keys up to Finished, application keys after it, whatever the  *)
(* peer's record boundaries (setReadTrafficSecret and readRecordOrCCS on   *)
(* c.hand).                                                                *)
MessageKeys ==
    LET t == c.taken
    IN  t.kind # "none" /\ c.last # "unexpected" =>
          /\ t.keys = {t.at}
          /\ p.vers = 13 /\ t.kind = "ServerHello" => t.at = 0
          /\ p.vers = 13 /\ t.kind \in {"EncryptedExtensions", "Finished"} => t.at = 1
          /\ p.vers = 13 /\ t.kind \in PostHandshake(13) => t.at >= 2
          /\ p.vers = 12 /\ t.kind = "Finished" => t.at = c.handshakes

(* Read returns the peer's bytes in order and without a gap, and an EOF is *)
(* returned only with or after the last byte sent before it: with short    *)
(* buffers, deadlines, dropped records, renegotiation and key updates, and *)
(* the close_notify that is read ahead (Conn.Read, c.input).               *)
DataFaithful ==
    /\ \A i \in DOMAIN c.got : c.got[i] = i
    /\ c.last = "eof" => Len(c.got) = p.bytes

(* A peer that keeps to the protocol, to maxUselessRecords and to silence  *)
(* while a HelloRequest is open is never refused, wherever it cuts its     *)
(* messages into records (readRecordOrCCS, readHandshake).                 *)
Refusals == {"header", "bad_record_mac", "unexpected", "ignored", "keychange", "internal"}

LegalNeverRefused == p.legal => {c.inErr, c.last} \cap Refusals = {}

(* Every byte a protocol-abiding peer sends reaches a Read call, past      *)
(* tickets, key updates, renegotiations and records that are dropped       *)
(* (Conn.Read's loops, retryReadRecord).  A byte counts once a Read holds  *)
(* it: with TLS 1.2, a warning alert that waits behind it is read and      *)
(* dropped, and the Read then waits for one more record.                   *)
DataDelivered ==
    \A n \in 1..MaxBytes :
        p.legal /\ p.bytes >= n ~> ~p.legal \/ Len(c.got \o c.held) >= n
=============================================================================
