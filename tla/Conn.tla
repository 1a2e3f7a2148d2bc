-------------------------------- MODULE Conn --------------------------------
(***************************************************************************)
(* One tls.Conn over a stream transport, used by several goroutines at     *)
(* once: Read, Write, Close, CloseWrite and HandshakeContext of conn.go,   *)
(* with its three mutexes (handshakeMutex, in, out), the activeCall        *)
(* interlock, renegotiation (TLS 1.2), KeyUpdate (TLS 1.3) and the alerts  *)
(* that error paths send.                                                  *)
(*                                                                         *)
(* A step is the code between two synchronisation points; the deferred     *)
(* unlocks are part of the step that returns.  The handshake is reduced to *)
(* a flight sent, a flight received and the final flight behind which the  *)
(* keys change (handshake_*.go).  A record is its kind, its key generation *)
(* (epoch) and its sequence number; an error is the name of its origin.    *)
(***************************************************************************)
EXTENDS Integers, Sequences, FiniteSets

CONSTANTS Goroutines,   \* the application's goroutines
          None,         \* "no goroutine": a free mutex
          Cfgs,         \* the connections considered: [vers, isClient, renegotiation]
          MaxCalls,     \* bound: API calls made, all told
          MaxRecords,   \* bound: records the peer sends after the first handshake
          MaxUseless    \* maxUselessRecords of common.go

ASSUME ConnAssumption ==
    /\ None \notin Goroutines /\ IsFiniteSet(Goroutines)
    /\ Cfgs \subseteq [vers : {12, 13}, isClient : BOOLEAN,
                       renegotiation : {"Never", "Once", "Freely"}]
    /\ MaxCalls \in Nat /\ MaxRecords \in Nat /\ MaxUseless \in Nat

VARIABLES
    cfg,                                  \* negotiated version and the Config fields read here
    calls,                                \* API calls made
    th,                                   \* goroutine -> place in the code, API call, record being
                                          \* written and its sequence number, HandshakeContext's AfterFunc
    mutex,                                \* "hs" (handshakeMutex), "in", "out" -> holder
    activeCall,
    complete, handshakeErr, handshakes,   \* isHandshakeComplete, handshakeErr # nil, handshakes
    inErr, retry, inEpoch,                \* c.in.err, c.retryCount, generation of c.in.trafficSecret
    peerEpoch, recvd,                     \* generation the peer writes under, records received
    outErr, epoch, seq, closeNotifySent,  \* c.out.err, generation of c.out.trafficSecret, c.out.seq
    wire,                                 \* the records this side put on the transport
    connClosed, broken, stalled, deadline \* c.conn: closed, reset, peer not reading, write deadline

app   == <<cfg, calls>>
hs    == <<complete, handshakeErr, handshakes>>
inh   == <<inErr, retry, inEpoch, peerEpoch, recvd>>
outh  == <<outErr, epoch, seq, closeNotifySent, wire>>
net   == <<connClosed, broken, stalled, deadline>>
vars  == <<app, th, mutex, activeCall, hs, inh, outh, net>>

Ops    == {"Read", "Write", "Close", "CloseWrite", "Handshake"}
Errors == {"nil", "eof", "remote", "local", "io"}
Kinds  == {"app", "alert", "softAlert", "oversize", "closeNotify", "keyUpdate", "keyUpdateTail",
           "handshake", "finished"}
Labels == {"idle", "enter", "hsFast", "hsLock", "hsInLock", "hsSend", "hsRecv", "hsFinish", "hsDone",
           "inLock", "readRecord", "alertLock", "kuLock", "renegLock", "outLock",
           "close", "closeCheck", "closeWrite", "notifyLock", "xmit"}
Threads == [pc : Labels, op : Ops \cup {"none", "Reneg"}, rec : Kinds \cup {"none"}, nonce : Nat,
            ctx : {"none", "armed", "fired"}]
Idle    == [pc |-> "idle", op |-> "none", rec |-> "none", nonce |-> 0, ctx |-> "none"]

(* The variables keep their types; activeCall never drops below zero, which    *)
(* takes the pairing of every Add(-2) with the entry of a Write.               *)
TypesOK ==
    /\ cfg \in Cfgs
    /\ calls \in 0..MaxCalls
    /\ th \in [Goroutines -> Threads]
    /\ mutex \in [{"hs", "in", "out"} -> Goroutines \cup {None}]
    /\ activeCall \in Int
    /\ complete \in BOOLEAN /\ handshakeErr \in BOOLEAN /\ handshakes \in Nat
    /\ inErr \in Errors /\ retry \in Nat /\ inEpoch \in Nat /\ peerEpoch \in Nat
    /\ recvd \in 0..MaxRecords
    /\ outErr \in Errors /\ epoch \in Nat /\ seq \in Nat /\ closeNotifySent \in BOOLEAN
    /\ wire \in Seq([kind : Kinds, epoch : Nat, seq : Nat])
    /\ connClosed \in BOOLEAN /\ broken \in BOOLEAN /\ stalled \in BOOLEAN
    /\ deadline \in {"none", "set", "past"}
TypeOK == TypesOK /\ activeCall >= 0

Init ==
    /\ cfg \in Cfgs /\ calls = 0
    /\ th = [g \in Goroutines |-> Idle]
    /\ mutex = [m \in {"hs", "in", "out"} |-> None] /\ activeCall = 0
    /\ complete = FALSE /\ handshakeErr = FALSE /\ handshakes = 0
    /\ inErr = "nil" /\ retry = 0 /\ inEpoch = 0 /\ peerEpoch = 0 /\ recvd = 0
    /\ outErr = "nil" /\ epoch = 0 /\ seq = 0 /\ closeNotifySent = FALSE /\ wire = <<>>
    /\ connClosed = FALSE /\ broken = FALSE /\ stalled = FALSE /\ deadline = "none"

-----------------------------------------------------------------------------
(* Control. *)

At(g, label)   == th[g].pc = label
Goto(g, label) == th' = [th EXCEPT ![g].pc = label]
GotoAs(g, label, o)   == th' = [th EXCEPT ![g].pc = label, ![g].op = o]
GotoWith(g, label, k) == th' = [th EXCEPT ![g].pc = label, ![g].rec = k]
Sends(g, k, n) == th' = [th EXCEPT ![g].pc = "xmit", ![g].rec = k, ![g].nonce = n]
Ends(g)        == th' = [th EXCEPT ![g] = Idle]
Lock(g, m)     == mutex[m] = None /\ mutex' = [mutex EXCEPT ![m] = g]

(* The call returns: its deferred unlocks, the activeCall.Add(-2) of Write and *)
(* the stop() of HandshakeContext's AfterFunc run.                             *)
Return(g) ==
    /\ Ends(g)
    /\ mutex' = [m \in {"hs", "in", "out"} |-> IF mutex[m] = g THEN None ELSE mutex[m]]
    /\ activeCall' = IF th[g].op = "Write" THEN activeCall - 2 ELSE activeCall

(* The handshake function failed: handshakeErr is kept, the call returns. *)
HandshakeFails(g) == handshakeErr' = TRUE /\ Return(g) /\ UNCHANGED <<complete, handshakes>>

(* sendAlert with record kind k: first the lock of c.out. *)
ThenAlert(g, k) == GotoWith(g, "alertLock", k)

(* writeRecordLocked begins: the record is encrypted under the current        *)
(* sequence number, which is incremented (a plaintext connection has none).   *)
StartRecord(g, k) ==
    /\ Sends(g, k, seq)
    /\ seq' = IF epoch = 0 THEN seq ELSE seq + 1
    /\ UNCHANGED <<outErr, epoch, closeNotifySent, wire>>

-----------------------------------------------------------------------------
(* API entry points. *)

Entry(o) == CASE o = "Write"      -> "enter"
              [] o = "Close"      -> "close"
              [] o = "CloseWrite" -> "closeWrite"
              [] OTHER            -> "hsFast"

Call(g, o) ==
    /\ At(g, "idle") /\ calls < MaxCalls
    /\ GotoAs(g, Entry(o), o)
    /\ calls' = calls + 1
    /\ UNCHANGED <<cfg, mutex, activeCall, hs, inh, outh, net>>

(* Mutant: a Write enters although the connection is being closed. *)
WriteEnterUnchecked(g) ==
    /\ At(g, "enter")
    /\ activeCall' = activeCall + 2 /\ Goto(g, "hsFast")
    /\ UNCHANGED <<app, mutex, hs, inh, outh, net>>

(* Mutant: activeCall.Add(-2) is deferred before the Write has counted itself. *)
WriteEnterUncounted(g) ==
    /\ At(g, "enter")
    /\ \/ activeCall % 2 = 1 /\ Return(g)
       \/ /\ activeCall % 2 = 0
          /\ activeCall' = activeCall + 2 /\ Goto(g, "hsFast") /\ UNCHANGED mutex
    /\ UNCHANGED <<app, hs, inh, outh, net>>

(* Write's interlock with Close: the low bit of activeCall is "closed". *)
WriteEnter(g) ==
    /\ At(g, "enter")
    /\ \/ /\ activeCall % 2 = 1                       \* net.ErrClosed
          /\ Ends(g) /\ UNCHANGED activeCall
       \/ /\ activeCall % 2 = 0
          /\ activeCall' = activeCall + 2 /\ Goto(g, "hsFast")
    /\ UNCHANGED <<app, mutex, hs, inh, outh, net>>

-----------------------------------------------------------------------------
(* handshakeContext. *)

(* The handshake is known to be complete: HandshakeContext returns, Read and  *)
(* Write go on to their own lock.                                             *)
AfterHandshake(g) ==
    IF th[g].op = "Handshake"
    THEN Return(g)
    ELSE /\ Goto(g, IF th[g].op = "Read" THEN "inLock" ELSE "outLock")
         /\ UNCHANGED <<mutex, activeCall>>

(* The lock-free fast path; otherwise the AfterFunc that closes the transport *)
(* on cancellation is registered (HandshakeContext only: Read and Write use   *)
(* the background context).                                                   *)
HsFast(g) ==
    /\ At(g, "hsFast")
    /\ \/ complete /\ AfterHandshake(g)
       \/ /\ ~complete
          /\ th' = [th EXCEPT ![g].pc = "hsLock",
                              ![g].ctx = IF th[g].op = "Handshake" THEN "armed" ELSE "none"]
          /\ UNCHANGED <<mutex, activeCall>>
    /\ UNCHANGED <<app, hs, inh, outh, net>>

(* Takes handshakeMutex and looks again at the outcome of the last handshake. *)
HsLock(g) ==
    /\ At(g, "hsLock") /\ mutex["hs"] = None
    /\ \/ handshakeErr /\ Return(g)
       \/ ~handshakeErr /\ complete /\ AfterHandshake(g)
       \/ /\ ~handshakeErr /\ ~complete
          /\ Lock(g, "hs") /\ Goto(g, "hsInLock") /\ UNCHANGED activeCall
    /\ UNCHANGED <<app, hs, inh, outh, net>>

HsInLock(g) ==
    /\ At(g, "hsInLock") /\ Lock(g, "in") /\ Goto(g, "hsSend")
    /\ UNCHANGED <<app, activeCall, hs, inh, outh, net>>

(* The handshake function writes a flight ... *)
HsSend(g) ==
    /\ At(g, "hsSend") /\ Lock(g, "out") /\ StartRecord(g, "handshake")
    /\ UNCHANGED <<app, activeCall, hs, inh, net>>

(* Mutant: the handshake waits for the peer although c.in has failed. *)
HsRecvErrDeaf(g) ==
    /\ At(g, "hsRecv") /\ broken
    /\ inErr' = IF inErr = "nil" THEN "io" ELSE inErr
    /\ HandshakeFails(g)
    /\ UNCHANGED <<app, retry, inEpoch, peerEpoch, recvd, outh, net>>

(* ... and reads the peer's, which fails with the transport, with an earlier  *)
(* error of c.in ...                                                          *)
HsRecvErr(g) ==
    /\ At(g, "hsRecv")
    /\ inErr # "nil" \/ connClosed \/ broken
    /\ inErr' = IF inErr = "nil" THEN "io" ELSE inErr
    /\ HandshakeFails(g)
    /\ UNCHANGED <<app, retry, inEpoch, peerEpoch, recvd, outh, net>>

(* ... or with what the peer sent: a fatal alert, an unacceptable flight      *)
(* (answered with an alert).  A good one is answered with the final flight.   *)
HsRecv(g) ==
    /\ At(g, "hsRecv") /\ inErr = "nil" /\ ~connClosed /\ ~broken
    /\ \/ /\ inErr' = "remote" /\ HandshakeFails(g)
          /\ UNCHANGED retry
       \/ /\ ThenAlert(g, "alert")
          /\ UNCHANGED <<mutex, activeCall, hs, inErr, retry>>
       \/ /\ retry' = 0 /\ Goto(g, "hsFinish")
          /\ UNCHANGED <<mutex, activeCall, hs, inErr>>
    /\ UNCHANGED <<app, inEpoch, peerEpoch, recvd, outh, net>>

HsFinish(g) ==
    /\ At(g, "hsFinish") /\ Lock(g, "out") /\ StartRecord(g, "finished")
    /\ UNCHANGED <<app, activeCall, hs, inh, net>>

(* handshakeContext or handleRenegotiation records success and unlocks; a     *)
(* renegotiation goes on reading with c.in held.                              *)
HsDone(g) ==
    /\ At(g, "hsDone")
    /\ handshakeErr' = FALSE /\ handshakes' = handshakes + 1 /\ UNCHANGED complete
    /\ \/ th[g].op = "Handshake" /\ Return(g)
       \/ /\ th[g].op \in {"Read", "Write"}
          /\ mutex' = [mutex EXCEPT !["hs"] = None, !["in"] = None]
          /\ Goto(g, IF th[g].op = "Read" THEN "inLock" ELSE "outLock")
          /\ UNCHANGED activeCall
       \/ /\ th[g].op = "Reneg"
          /\ mutex' = [mutex EXCEPT !["hs"] = None]
          /\ GotoAs(g, "readRecord", "Read")
          /\ UNCHANGED activeCall
    /\ UNCHANGED <<app, inh, outh, net>>

(* The context of a HandshakeContext call is cancelled while it runs. *)
Cancel(g) ==
    /\ th[g].ctx = "armed"
    /\ th' = [th EXCEPT ![g].ctx = "fired"] /\ connClosed' = TRUE
    /\ UNCHANGED <<app, mutex, activeCall, hs, inh, outh, broken, stalled, deadline>>

-----------------------------------------------------------------------------
(* Read. *)

InLock(g) ==
    /\ At(g, "inLock") /\ Lock(g, "in") /\ Goto(g, "readRecord")
    /\ UNCHANGED <<app, activeCall, hs, inh, outh, net>>

(* readRecordOrCCS returns c.in.err, or the transport fails under it. *)
ReadErr(g) ==
    /\ At(g, "readRecord")
    /\ inErr # "nil" \/ connClosed \/ broken
    /\ inErr' = IF inErr = "nil" THEN "io" ELSE inErr
    /\ Return(g)
    /\ UNCHANGED <<app, hs, retry, inEpoch, peerEpoch, recvd, outh, net>>

(* The application's read deadline expires: a temporary error, which c.in     *)
(* does not keep, but which ends a handshake for good.                        *)
ReadTimeout(g) ==
    /\ inErr = "nil"
    /\ \/ At(g, "readRecord") /\ Return(g) /\ UNCHANGED hs
       \/ At(g, "hsRecv") /\ HandshakeFails(g)
    /\ UNCHANGED <<app, inh, outh, net>>

(* A record of the peer's reaches the Read at readRecord ... *)
Receives(g) ==
    /\ At(g, "readRecord") /\ inErr = "nil" /\ ~connClosed /\ ~broken
    /\ recvd < MaxRecords /\ recvd' = recvd + 1

(* ... and the keys of c.in decrypt it. *)
ReceivesGood(g) == Receives(g) /\ inEpoch = peerEpoch

(* Application data: Read returns it.  An alert that is already buffered       *)
(* behind it is read too, so that Read returns (n, io.EOF) at the end.         *)
RecvAppData(g) ==
    /\ ReceivesGood(g) /\ complete
    /\ retry' = 0 /\ inErr' \in {"nil", "eof", "remote"} /\ Return(g)
    /\ UNCHANGED <<app, hs, inEpoch, peerEpoch, outh, net>>

(* close_notify ends the stream; a fatal alert is the remote's error. *)
RecvAlert(g) ==
    /\ ReceivesGood(g)
    /\ inErr' \in {"eof", "remote"} /\ Return(g)
    /\ UNCHANGED <<app, hs, retry, inEpoch, peerEpoch, outh, net>>

(* A record that does not decrypt or that is not allowed here is answered with *)
(* an alert, which becomes the error of c.in too; a handshake message that is  *)
(* not expected is as well, but leaves c.in.err alone.                         *)
RecvBad(g) ==
    /\ \/ Receives(g) /\ ThenAlert(g, "alert")
       \/ ReceivesGood(g) /\ ThenAlert(g, "softAlert")
    /\ UNCHANGED <<app, mutex, activeCall, hs, inErr, retry, inEpoch, peerEpoch, outh, net>>

(* A record that does not advance the connection (a warning alert, an empty    *)
(* record, a dummy CCS) is dropped; a TLS 1.3 record of k tickets restarts the *)
(* count at k.  Beyond maxUselessRecords the connection ends.                  *)
RecvUseless(g) ==
    /\ ReceivesGood(g)
    /\ \/ retry' = retry + 1
       \/ cfg.vers = 13 /\ retry' \in 1..(MaxUseless + 1)
    /\ \/ retry' > MaxUseless /\ ThenAlert(g, "alert")
       \/ retry' <= MaxUseless /\ UNCHANGED th
    /\ UNCHANGED <<app, mutex, activeCall, hs, inErr, inEpoch, peerEpoch, outh, net>>

(* readHandshake of a message beyond maxHandshake: the alert is sent with      *)
(* sendAlertLocked although c.out is not held.                                 *)
RecvOversize(g) ==
    /\ ReceivesGood(g)
    /\ StartRecord(g, "oversize")
    /\ UNCHANGED <<app, mutex, activeCall, hs, inErr, retry, inEpoch, peerEpoch, net>>

(* handleKeyUpdate: the peer already writes under its next key.  If an answer  *)
(* is requested it is sent first; then the read key follows, unless handshake  *)
(* bytes are left in the same record (tail).                                   *)
RecvKeyUpdate(g, requested, tail) ==
    /\ cfg.vers = 13
    /\ ReceivesGood(g)
    /\ peerEpoch' = peerEpoch + 1 /\ retry' = 1
    /\ \/ /\ requested
          /\ GotoWith(g, "kuLock", IF tail THEN "keyUpdateTail" ELSE "keyUpdate")
          /\ UNCHANGED inEpoch
       \/ ~requested /\ tail /\ ThenAlert(g, "softAlert") /\ UNCHANGED inEpoch
       \/ ~requested /\ ~tail /\ inEpoch' = inEpoch + 1 /\ UNCHANGED th
    /\ UNCHANGED <<app, mutex, activeCall, hs, inErr, outh, net>>

KuLock(g) ==
    /\ At(g, "kuLock") /\ Lock(g, "out") /\ StartRecord(g, th[g].rec)
    /\ UNCHANGED <<app, activeCall, hs, inh, net>>

(* handleRenegotiation of a HelloRequest: refused with a no_renegotiation      *)
(* alert, or a new client handshake under handshakeMutex.                      *)
Refuses == \/ ~cfg.isClient
           \/ cfg.renegotiation = "Never"
           \/ cfg.renegotiation = "Once" /\ handshakes > 1

(* Mutant: isHandshakeComplete is cleared before handshakeMutex is taken. *)
RecvHelloRequestEarly(g) ==
    /\ cfg.vers = 12
    /\ ReceivesGood(g)
    /\ retry' = 0
    /\ \/ Refuses /\ ThenAlert(g, "softAlert") /\ UNCHANGED complete
       \/ ~Refuses /\ Goto(g, "renegLock") /\ complete' = FALSE
    /\ UNCHANGED <<app, mutex, activeCall, handshakeErr, handshakes, inErr, inEpoch, peerEpoch, outh, net>>

RecvHelloRequest(g) ==
    /\ cfg.vers = 12
    /\ ReceivesGood(g)
    /\ retry' = 0
    /\ \/ Refuses /\ ThenAlert(g, "softAlert")
       \/ ~Refuses /\ Goto(g, "renegLock")
    /\ UNCHANGED <<app, mutex, activeCall, hs, inErr, inEpoch, peerEpoch, outh, net>>

(* Mutant: isHandshakeComplete stays set during a renegotiation. *)
RenegLockNoClear(g) ==
    /\ At(g, "renegLock") /\ Lock(g, "hs")
    /\ GotoAs(g, "hsSend", "Reneg")
    /\ UNCHANGED <<app, activeCall, hs, inh, outh, net>>

RenegLock(g) ==
    /\ At(g, "renegLock") /\ Lock(g, "hs")
    /\ complete' = FALSE
    /\ GotoAs(g, "hsSend", "Reneg")
    /\ UNCHANGED <<app, activeCall, handshakeErr, handshakes, inh, outh, net>>

(* Mutant: sendAlert does not lock c.out. *)
AlertNoLock(g) ==
    /\ At(g, "alertLock") /\ StartRecord(g, th[g].rec)
    /\ UNCHANGED <<app, mutex, activeCall, hs, inh, net>>

AlertLock(g) ==
    /\ At(g, "alertLock") /\ Lock(g, "out") /\ StartRecord(g, th[g].rec)
    /\ UNCHANGED <<app, activeCall, hs, inh, net>>

-----------------------------------------------------------------------------
(* Write. *)

(* Mutant: Write does not look at closeNotifySent. *)
OutLockAfterClose(g) ==
    /\ At(g, "outLock") /\ mutex["out"] = None
    /\ \/ (outErr # "nil" \/ ~complete) /\ Return(g) /\ UNCHANGED outh
       \/ /\ outErr = "nil" /\ complete
          /\ Lock(g, "out") /\ StartRecord(g, "app") /\ UNCHANGED activeCall
    /\ UNCHANGED <<app, hs, inh, net>>

(* Mutant: Write does not look again at isHandshakeComplete. *)
OutLockStale(g) ==
    /\ At(g, "outLock") /\ mutex["out"] = None
    /\ \/ (outErr # "nil" \/ closeNotifySent) /\ Return(g) /\ UNCHANGED outh
       \/ /\ outErr = "nil" /\ ~closeNotifySent
          /\ Lock(g, "out") /\ StartRecord(g, "app") /\ UNCHANGED activeCall
    /\ UNCHANGED <<app, hs, inh, net>>

OutLock(g) ==
    /\ At(g, "outLock") /\ mutex["out"] = None
    /\ \/ (outErr # "nil" \/ ~complete \/ closeNotifySent) /\ Return(g) /\ UNCHANGED outh
       \/ /\ outErr = "nil" /\ complete /\ ~closeNotifySent
          /\ Lock(g, "out") /\ StartRecord(g, "app") /\ UNCHANGED activeCall
    /\ UNCHANGED <<app, hs, inh, net>>

-----------------------------------------------------------------------------
(* Close and CloseWrite. *)

(* Mutant: Close sends close_notify although a Write is in flight. *)
ClosePolitely(g) ==
    /\ At(g, "close")
    /\ \/ activeCall % 2 = 1 /\ Return(g)
       \/ /\ activeCall % 2 = 0
          /\ activeCall' = activeCall + 1 /\ Goto(g, "closeCheck") /\ UNCHANGED mutex
    /\ UNCHANGED <<app, hs, inh, outh, net>>

Close(g) ==
    /\ At(g, "close")
    /\ \/ activeCall % 2 = 1 /\ Return(g) /\ UNCHANGED connClosed    \* net.ErrClosed
       \/ /\ activeCall % 2 = 0 /\ activeCall # 0                    \* break the Write in flight
          /\ activeCall' = activeCall + 1 /\ connClosed' = TRUE
          /\ Ends(g) /\ UNCHANGED mutex
       \/ /\ activeCall = 0
          /\ activeCall' = 1 /\ Goto(g, "closeCheck")
          /\ UNCHANGED <<mutex, connClosed>>
    /\ UNCHANGED <<app, hs, inh, outh, broken, stalled, deadline>>

CloseCheck(g) ==
    /\ At(g, "closeCheck")
    /\ \/ complete /\ Goto(g, "notifyLock") /\ UNCHANGED <<mutex, activeCall, connClosed>>
       \/ ~complete /\ connClosed' = TRUE /\ Return(g)
    /\ UNCHANGED <<app, hs, inh, outh, broken, stalled, deadline>>

CloseWrite(g) ==
    /\ At(g, "closeWrite")
    /\ \/ complete /\ Goto(g, "notifyLock") /\ UNCHANGED <<mutex, activeCall>>
       \/ ~complete /\ Return(g)                                     \* errEarlyCloseWrite
    /\ UNCHANGED <<app, hs, inh, outh, net>>

(* closeNotify, sent once, under a write deadline of five seconds. *)
NotifyLock(g) ==
    /\ At(g, "notifyLock") /\ mutex["out"] = None
    /\ \/ /\ closeNotifySent /\ Return(g)
          /\ connClosed' = (connClosed \/ th[g].op = "Close")
          /\ UNCHANGED <<deadline, outh>>
       \/ /\ ~closeNotifySent
          /\ Lock(g, "out") /\ deadline' = "set" /\ StartRecord(g, "closeNotify")
          /\ UNCHANGED <<activeCall, connClosed>>
    /\ UNCHANGED <<app, hs, inh, broken, stalled>>

-----------------------------------------------------------------------------
(* The end of writeRecordLocked, c.conn.Write: it fails once the transport is  *)
(* gone or the deadline has passed, succeeds while the peer reads, and         *)
(* otherwise blocks.                                                           *)
WriteFails == connClosed \/ broken \/ deadline = "past"

Transmit(g, ok) ==
    /\ At(g, "xmit")
    /\ IF ok THEN ~WriteFails /\ ~stalled ELSE WriteFails
    /\ wire' = IF ok THEN Append(wire, [kind |-> th[g].rec, epoch |-> epoch, seq |-> th[g].nonce])
                     ELSE wire

(* Write's record: c.out.err becomes the error, or nil. *)
XmitApp(g, ok) ==
    /\ th[g].rec = "app" /\ Transmit(g, ok)
    /\ outErr' = IF ok THEN "nil" ELSE "io"
    /\ Return(g)
    /\ UNCHANGED <<app, hs, inh, epoch, seq, closeNotifySent, net>>

(* sendAlertLocked: whatever the transport says, c.out.err is the alert from   *)
(* now on.  The caller makes it the error of c.in, or of the handshake.        *)
XmitAlert(g, ok) ==
    /\ th[g].rec \in {"alert", "softAlert", "oversize"} /\ Transmit(g, ok)
    /\ outErr' = "local"
    /\ \/ /\ mutex["hs"] = g /\ HandshakeFails(g)
          /\ inErr' \in {inErr, "local"}
       \/ /\ mutex["hs"] # g /\ Return(g) /\ UNCHANGED hs
          /\ inErr' = IF th[g].rec = "softAlert" THEN inErr ELSE "local"
    /\ UNCHANGED <<app, retry, inEpoch, peerEpoch, recvd, epoch, seq, closeNotifySent, net>>

(* closeNotify: sent or not, it is not tried again and later writes time out. *)
XmitCloseNotify(g, ok) ==
    /\ th[g].rec = "closeNotify" /\ Transmit(g, ok)
    /\ closeNotifySent' = TRUE /\ deadline' = "past"
    /\ connClosed' = (connClosed \/ th[g].op = "Close")
    /\ Return(g)
    /\ UNCHANGED <<app, hs, inh, outErr, epoch, seq, broken, stalled>>

(* Mutant: an answered KeyUpdate changes the write key only. *)
XmitKeyUpdateWriteOnly(g, ok) ==
    /\ th[g].rec \in {"keyUpdate", "keyUpdateTail"} /\ Transmit(g, ok)
    /\ \/ ok /\ epoch' = epoch + 1 /\ seq' = 0 /\ UNCHANGED outErr
       \/ ~ok /\ outErr' = "io" /\ UNCHANGED <<epoch, seq>>
    /\ GotoWith(g, "readRecord", "none")
    /\ mutex' = [mutex EXCEPT !["out"] = None]
    /\ UNCHANGED <<app, activeCall, hs, inErr, retry, inEpoch, peerEpoch, recvd, closeNotifySent, net>>

(* The answer to a KeyUpdate: the write key changes behind it, then the read   *)
(* key, unless handshake bytes are left, which is an error sent under the new  *)
(* key.  An answer that cannot be sent is left for the next Write to report.   *)
XmitKeyUpdate(g, ok) ==
    /\ th[g].rec \in {"keyUpdate", "keyUpdateTail"} /\ Transmit(g, ok)
    /\ \/ /\ ok /\ th[g].rec = "keyUpdate"
          /\ epoch' = epoch + 1 /\ seq' = 0 /\ inEpoch' = inEpoch + 1
          /\ GotoWith(g, "readRecord", "none")
          /\ mutex' = [mutex EXCEPT !["out"] = None]
          /\ UNCHANGED outErr
       \/ /\ ok /\ th[g].rec = "keyUpdateTail"
          /\ epoch' = epoch + 1 /\ seq' = 1
          /\ Sends(g, "softAlert", 0)
          /\ UNCHANGED <<outErr, inEpoch, mutex>>
       \/ /\ ~ok /\ outErr' = "io"
          /\ GotoWith(g, "readRecord", "none")
          /\ mutex' = [mutex EXCEPT !["out"] = None]
          /\ UNCHANGED <<epoch, seq, inEpoch>>
    /\ UNCHANGED <<app, activeCall, hs, inErr, retry, peerEpoch, recvd, closeNotifySent, net>>

(* The flights of the handshake.  Behind the final one both directions have    *)
(* new keys, and isHandshakeComplete is set before the function returns.       *)
XmitHandshake(g, ok) ==
    /\ th[g].rec = "handshake" /\ Transmit(g, ok)
    /\ \/ /\ ok /\ mutex' = [mutex EXCEPT !["out"] = None]
          /\ GotoWith(g, "hsRecv", "none")
          /\ UNCHANGED <<activeCall, hs>>
       \/ ~ok /\ HandshakeFails(g)
    /\ UNCHANGED <<app, inh, outErr, epoch, seq, closeNotifySent, net>>

XmitFinished(g, ok) ==
    /\ th[g].rec = "finished" /\ Transmit(g, ok)
    /\ \/ /\ ok /\ complete' = TRUE
          /\ epoch' = epoch + 1 /\ seq' = 0
          /\ inEpoch' = inEpoch + 1 /\ peerEpoch' = inEpoch + 1
          /\ mutex' = [mutex EXCEPT !["out"] = None]
          /\ GotoWith(g, "hsDone", "none")
          /\ UNCHANGED <<activeCall, handshakeErr, handshakes>>
       \/ ~ok /\ HandshakeFails(g) /\ UNCHANGED <<epoch, seq, inEpoch, peerEpoch>>
    /\ UNCHANGED <<app, inErr, retry, recvd, outErr, closeNotifySent, net>>

-----------------------------------------------------------------------------
(* The transport and the application around it. *)

PeerStopsReading == /\ ~stalled /\ stalled' = TRUE
                    /\ UNCHANGED <<app, th, mutex, activeCall, hs, inh, outh, connClosed, broken, deadline>>

PeerResets == /\ ~broken /\ broken' = TRUE
              /\ UNCHANGED <<app, th, mutex, activeCall, hs, inh, outh, connClosed, stalled, deadline>>

(* The five seconds of closeNotify pass. *)
DeadlinePasses == /\ deadline = "set" /\ deadline' = "past"
                  /\ UNCHANGED <<app, th, mutex, activeCall, hs, inh, outh, connClosed, broken, stalled>>

(* SetWriteDeadline of the application: an expired one, or none.  It does not  *)
(* move the deadline of a close_notify that is being sent.                     *)
SetWriteDeadline(g, d) ==
    /\ At(g, "idle") /\ calls < MaxCalls
    /\ \A h \in Goroutines : th[h].rec # "closeNotify"
    /\ d # deadline /\ deadline' = d
    /\ calls' = calls + 1
    /\ UNCHANGED <<cfg, th, mutex, activeCall, hs, inh, outh, connClosed, broken, stalled>>

-----------------------------------------------------------------------------
(* What a goroutine does by itself, as opposed to what its peer, its caller   *)
(* or time does.                                                              *)
Step(g) ==
    \/ WriteEnter(g) \/ HsFast(g) \/ HsLock(g) \/ HsInLock(g) \/ HsSend(g) \/ HsRecvErr(g)
    \/ HsFinish(g) \/ HsDone(g) \/ InLock(g) \/ ReadErr(g) \/ KuLock(g) \/ RenegLock(g)
    \/ AlertLock(g) \/ OutLock(g) \/ Close(g) \/ CloseCheck(g) \/ CloseWrite(g) \/ NotifyLock(g)
    \/ \E ok \in BOOLEAN : \/ XmitApp(g, ok) \/ XmitAlert(g, ok) \/ XmitCloseNotify(g, ok)
                           \/ XmitKeyUpdate(g, ok) \/ XmitHandshake(g, ok) \/ XmitFinished(g, ok)

PeerStep(g) ==
    \/ HsRecv(g) \/ ReadTimeout(g) \/ RecvAppData(g) \/ RecvAlert(g) \/ RecvBad(g)
    \/ RecvUseless(g) \/ RecvOversize(g) \/ RecvHelloRequest(g)
    \/ \E requested, tail \in BOOLEAN : RecvKeyUpdate(g, requested, tail)

Next ==
    \/ \E g \in Goroutines : \/ Step(g) \/ PeerStep(g) \/ Cancel(g)
                             \/ \E o \in Ops : Call(g, o)
                             \/ \E d \in {"none", "past"} : SetWriteDeadline(g, d)
    \/ PeerStopsReading \/ PeerResets \/ DeadlinePasses

(* A goroutine that can run eventually does, Go's mutexes do not starve a     *)
(* waiter, and time passes; nothing is assumed of the peer or the caller.     *)
Fairness == /\ \A g \in Goroutines : SF_vars(Step(g))
            /\ WF_vars(DeadlinePasses)

Spec     == Init /\ [][Next]_vars
FairSpec == Spec /\ Fairness

-----------------------------------------------------------------------------
(* Safety. *)

(* Outside a handshake (handshakeMutex free) a completed handshake has no      *)
(* error: "isHandshakeComplete is true implies handshakeErr == nil".           *)
CompleteMeansNoError == complete /\ mutex["hs"] = None => ~handshakeErr

(* Once close_notify is on the wire no application data follows it, whatever   *)
(* Writes were in progress when Close or CloseWrite ran.                       *)
NoAppDataAfterCloseNotify ==
    \A i, j \in DOMAIN wire :
        i < j /\ wire[i].kind = "closeNotify" => wire[j].kind # "app"

(* Once a handshake or renegotiation has put its first flight on the wire,     *)
(* application data waits for the new keys, even in a Write that saw the       *)
(* previous handshake complete.                                                *)
NoAppDataMidHandshake ==
    \A i, j \in DOMAIN wire :
        i < j /\ wire[i].kind = "handshake" /\ wire[j].kind = "app" => wire[i].epoch < wire[j].epoch

(* Under one key, records leave in the order of their sequence numbers, none   *)
(* used twice.  The alert that readHandshake sends without holding c.out is    *)
(* left out here and shown to break this by RecordsInSequence.                 *)
LockedRecordsInSequence ==
    \A i, j \in DOMAIN wire :
        /\ i < j /\ wire[i].epoch = wire[j].epoch /\ wire[i].epoch > 0
        /\ wire[i].kind # "oversize" /\ wire[j].kind # "oversize"
        => wire[i].seq < wire[j].seq

(* The same of every record: what the sequence numbers of halfConn are for.    *)
RecordsInSequence ==
    \A i, j \in DOMAIN wire :
        i < j /\ wire[i].epoch = wire[j].epoch /\ wire[i].epoch > 0 => wire[i].seq < wire[j].seq

(* A KeyUpdate being handled: its answer, or the alert it ends in, is pending. *)
UpdatingKeys == \E g \in Goroutines :
    th[g].pc \in {"kuLock", "alertLock", "xmit"}
    /\ th[g].rec \in {"keyUpdate", "keyUpdateTail", "softAlert"}

(* While no KeyUpdate is being handled and no write has failed, the read key   *)
(* is the one the peer writes under.  (An answer that cannot be written leaves *)
(* the read key behind: handleKeyUpdate returns before it changes it.)         *)
ReadKeysInSync == inEpoch # peerEpoch => UpdatingKeys \/ outErr # "nil"

(* A handshake, which takes handshakeMutex before c.in, and a renegotiation,   *)
(* which takes them the other way round, never wait for each other.            *)
NoLockCycle ==
    \A g, h \in Goroutines :
        ~ (mutex["hs"] = g /\ At(g, "hsInLock") /\ mutex["in"] = h /\ At(h, "renegLock"))

(* Close sends close_notify only when no Write is between its entry and its    *)
(* return, and from then on none enters.                                       *)
Closing(g) == th[g].op = "Close" /\ ~At(g, "close")
Writing(g) == th[g].op = "Write" /\ ~At(g, "enter")
CloseExcludesWrite == \A g, h \in Goroutines : ~ (Closing(g) /\ Writing(h))

-----------------------------------------------------------------------------
(* The inductive strengthening of CompleteMeansNoError and NoLockCycle. *)

HsPcs == {"hsInLock", "hsSend", "hsRecv", "hsFinish", "hsDone"}

(* Some handshake has ended, for good or ill, or a later one is running.  This *)
(* is stable, and it is what lets a goroutine read records.                    *)
Decided == complete \/ handshakeErr \/ \E g \in Goroutines : th[g].op = "Reneg"

HandshakeInvOf(g) ==
    /\ th[g].pc \in HsPcs => mutex["hs"] = g
    /\ th[g].pc = "xmit" /\ th[g].rec \in {"handshake", "finished"} => mutex["hs"] = g
    /\ th[g].pc = "kuLock" => th[g].rec \in {"keyUpdate", "keyUpdateTail"}
    /\ th[g].pc = "alertLock" => th[g].rec \in {"alert", "softAlert"}
    /\ th[g].op = "Reneg" => mutex["hs"] = g /\ th[g].pc # "hsInLock"
    /\ mutex["hs"] = g => \/ th[g].pc \in HsPcs \cup {"alertLock"}
                          \/ th[g].pc = "xmit" /\ th[g].rec \in {"alert", "softAlert", "handshake", "finished"}
    /\ th[g].pc = "hsDone" => complete
    /\ mutex["hs"] = g /\ th[g].pc # "hsDone" => ~complete
    /\ th[g].pc = "hsInLock" => ~handshakeErr
    /\ \/ th[g].pc \in {"inLock", "readRecord", "kuLock", "renegLock"}
       \/ th[g].pc = "xmit" /\ th[g].rec \in {"keyUpdate", "keyUpdateTail"}
       => Decided

HandshakeInv == CompleteMeansNoError /\ \A g \in Goroutines : HandshakeInvOf(g)

(* The inductive strengthening of CloseExcludesWrite: activeCall counts the    *)
(* Writes in progress in steps of two, and is exactly 1 while Close may send.  *)
Reading(g) == \/ th[g].pc \in {"inLock", "readRecord", "kuLock", "renegLock"}
              \/ th[g].pc = "xmit" /\ th[g].rec \in {"keyUpdate", "keyUpdateTail"}
Writers == {g \in Goroutines : Writing(g)}
ActiveCallInv ==
    /\ \E closed \in {0, 1} : activeCall = 2 * Cardinality(Writers) + closed
    /\ \A g \in Goroutines :
          /\ Closing(g) => activeCall = 1
          /\ th[g].pc = "idle"  => th[g].op = "none"
          /\ th[g].pc = "enter" => th[g].op = "Write"
          /\ th[g].pc = "close" => th[g].op = "Close"
          /\ Reading(g) => th[g].op = "Read"

(* The inductive strengthening of what the wire shows.  Only the goroutine     *)
(* that holds c.out has a record at the transport, the alert for an oversize   *)
(* message excepted, and every reader or handshake holds c.in.                 *)
Locked(g)   == At(g, "xmit") /\ th[g].rec # "oversize"
HoldsIn(g)  == \/ th[g].pc \in {"hsSend", "hsRecv", "hsFinish", "hsDone", "readRecord",
                                "kuLock", "alertLock", "renegLock"}
               \/ At(g, "xmit") /\ th[g].rec \notin {"app", "closeNotify"}
HoldInvOf(g) == /\ Locked(g) => mutex["out"] = g
                /\ HoldsIn(g) => mutex["in"] = g
HoldInv == \A g \in Goroutines : HoldInvOf(g)

(* The records under the current key have the numbers below c.out.seq, and the *)
(* one at the transport comes behind them.                                     *)
Numbered(r) == epoch > 0 /\ r.epoch = epoch /\ r.kind # "oversize"
SequenceInv ==
    /\ \A i \in DOMAIN wire : /\ wire[i].epoch <= epoch
                              /\ Numbered(wire[i]) => wire[i].seq < seq
    /\ \A g \in Goroutines : Locked(g) /\ epoch > 0 =>
          /\ th[g].nonce < seq
          /\ \A i \in DOMAIN wire : Numbered(wire[i]) => wire[i].seq < th[g].nonce

(* Application data at the transport precedes close_notify and the flights of  *)
(* a handshake under the current key.                                          *)
SendsApp(g) == At(g, "xmit") /\ th[g].rec = "app"
OpenFlight(r) == r.kind = "handshake" /\ r.epoch = epoch
AppDataInv ==
    /\ \A i \in DOMAIN wire : /\ wire[i].kind = "closeNotify" => closeNotifySent
                              /\ OpenFlight(wire[i]) => ~complete
    /\ \A g \in Goroutines : SendsApp(g) =>
          ~closeNotifySent /\ \A i \in DOMAIN wire : ~OpenFlight(wire[i])

(* While a KeyUpdate is to be answered the peer is one key ahead; a read key   *)
(* left behind goes with an error of c.out that no Write will clear.           *)
Answering(g) == \/ At(g, "kuLock")
                \/ At(g, "xmit") /\ th[g].rec \in {"keyUpdate", "keyUpdateTail"}
ReadKeyInv ==
    /\ \A g \in Goroutines : Answering(g) => peerEpoch = inEpoch + 1
    /\ inEpoch # peerEpoch =>
          UpdatingKeys \/ (outErr # "nil" /\ \A g \in Goroutines : ~SendsApp(g))

-----------------------------------------------------------------------------
(* Liveness, under FairSpec. *)

(* Once the transport is closed, by Close or by the cancellation of a          *)
(* HandshakeContext, every call in progress returns.                           *)
ClosedConnUnblocks == \A g \in Goroutines : (connClosed /\ ~At(g, "idle")) ~> At(g, "idle")

(* Close returns, whatever Writes are blocked on a peer that does not read,    *)
(* unless a Read stays blocked in writing an alert, the answer to a KeyUpdate  *)
(* or a renegotiation with c.out held.                                         *)
ReaderBlocked == \E g \in Goroutines : th[g].op \in {"Read", "Reneg"} /\ mutex["out"] = g
CloseReturns  == \A g \in Goroutines : th[g].op = "Close" ~> th[g].op # "Close"
CloseReturnsUnlessReaderBlocked == <>[]ReaderBlocked \/ CloseReturns
=============================================================================
