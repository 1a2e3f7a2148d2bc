------------------------------ MODULE QuicConn ------------------------------
(***************************************************************************)
(* A QUICConn of quic.go: the application's calls and the goroutine that   *)
(* runs the TLS 1.3 handshake, which hand control of the connection to     *)
(* each other over two unbuffered channels.  The handshake sends on        *)
(* blockedc when it cannot go on and then on signalc until it may; the     *)
(* calls receive from both.  Both channels are closed at the end.          *)
(*                                                                         *)
(* A step of the handshake is one of its functions (handshake_client*.go,  *)
(* handshake_server*.go, reduced to the events they emit); a step of a     *)
(* call is the code between two channel operations.  The bytes of the peer *)
(* are counted in halves of a handshake message; the data written to the   *)
(* peer is numbered.                                                       *)
(***************************************************************************)
EXTENDS Naturals, SequencesExt

CONSTANTS Cfgs,      \* the connections considered: [isClient, sessionEvents, min13]
          MaxData,   \* bound: halves of messages that the peer sends
          MaxChunk   \* bound: halves of messages in one call of HandleData

ASSUME QuicAssumption ==
    /\ Cfgs \subseteq [isClient : BOOLEAN, sessionEvents : BOOLEAN, min13 : BOOLEAN]
    /\ MaxData \in Nat /\ MaxChunk \in Nat

VARIABLES
    cfg,                 \* role, EnableSessionEvents, MinVersion is TLS 1.3
    app,                 \* the application: the call it is in and where
    hs,                  \* the handshake goroutine: place, where it waits, PSK offered or used, HRR
    closed,              \* the channels that are closed
    started, canceled,   \* quic.started, ctx.Err() # nil
    readbuf, hand, recv, \* quic.readbuf, c.hand and all the peer sent, in halves of messages
    inLevel, outLevel,   \* c.in.level, c.out.level
    params, early,       \* transportParams # nil, hello.earlyData
    events, nextEvent, waitingForDrain, errorReturned,
    complete, handshakeErr, ticketSent,
    written,             \* messages given to quicWriteCryptoData
    delivered,           \* what NextEvent returned, QUICNoEvent left out
    session              \* SessionState of QUICResumeSession: "offered" to the application, "declined"

queue == <<events, nextEvent, waitingForDrain, errorReturned, written, delivered>>
conn  == <<readbuf, hand, recv, inLevel, outLevel, params, early, complete, handshakeErr, ticketSent>>
ctl   == <<closed, started, canceled, session>>
vars  == <<cfg, app, hs, ctl, conn, queue>>

Levels == {"Initial", "Early", "Handshake", "Application"}
Kinds  == {"NoEvent", "SetReadSecret", "SetWriteSecret", "WriteData", "TransportParameters",
           "TransportParametersRequired", "RejectedEarlyData", "HandshakeDone", "ResumeSession",
           "StoreSession", "Error"}
Events == [kind : Kinds, level : Levels, data : Seq(Nat)]
Event(k, l) == [kind |-> k, level |-> l, data |-> <<>>]
Plain(k)    == Event(k, "Initial")

Calls    == {"Start", "HandleData", "SetTransportParameters", "NextEvent", "Close"}
(* Where the goroutine runs, as opposed to waiting, closing or not being there. *)
Stages   == {"params", "paramsWait", "resume", "drainWait", "offer", "clientHello", "serverHello",
             "readHello", "readRetryHello", "ee", "certReq", "cert", "certVerify", "finished",
             "flight", "clientCert", "clientCertVerify", "clientFinished", "woken", "result"}
HsLabels == Stages \cup {"none", "blocked", "signal", "closeBlocked", "closeSignal", "exited"}

(* The variables keep their types; NextEvent stays within the events. *)
TypeOK ==
    /\ cfg \in Cfgs
    /\ app \in [pc : {"idle", "signal", "blocked", "range", "post"}, op : Calls \cup {"none"}]
    /\ hs \in [pc : HsLabels, back : Stages, psk : BOOLEAN, retried : BOOLEAN]
    /\ closed \subseteq {"blockedc", "signalc"}
    /\ started \in BOOLEAN /\ canceled \in BOOLEAN
    /\ readbuf \in Nat /\ hand \in Nat /\ recv \in 0..MaxData
    /\ inLevel \in Levels /\ outLevel \in Levels
    /\ params \in BOOLEAN /\ early \in BOOLEAN
    /\ events \in Seq(Events) /\ nextEvent \in 0..Len(events)
    /\ waitingForDrain \in BOOLEAN /\ errorReturned \in BOOLEAN
    /\ complete \in BOOLEAN /\ handshakeErr \in BOOLEAN /\ ticketSent \in BOOLEAN
    /\ written \in Nat /\ delivered \in Seq(Events)
    /\ session \in {"none", "offered", "declined"}

Init ==
    /\ cfg \in Cfgs
    /\ app = [pc |-> "idle", op |-> "none"]
    /\ hs = [pc |-> "none", back |-> "woken", psk |-> FALSE, retried |-> FALSE]
    /\ closed = {} /\ started = FALSE /\ canceled = FALSE
    /\ readbuf = 0 /\ hand = 0 /\ recv = 0
    /\ inLevel = "Initial" /\ outLevel = "Initial"
    /\ params = FALSE /\ early = FALSE
    /\ events = <<>> /\ nextEvent = 0 /\ waitingForDrain = FALSE /\ errorReturned = FALSE
    /\ complete = FALSE /\ handshakeErr = FALSE /\ ticketSent = FALSE
    /\ written = 0 /\ delivered = <<>> /\ session = "none"

-----------------------------------------------------------------------------
(* Events. *)

Emits(es) == events' = events \o es /\ UNCHANGED <<nextEvent, waitingForDrain, errorReturned, written, delivered>>

(* quicWriteCryptoData: the data joins the last event if that is for the same level. *)
WithCrypto(es, l, n) ==
    IF es # <<>> /\ Last(es).kind = "WriteData" /\ Last(es).level = l
    THEN [es EXCEPT ![Len(es)].data = Append(@, n)]
    ELSE Append(es, [kind |-> "WriteData", level |-> l, data |-> <<n>>])

(* The events pre, then a handshake message written at level l, then the events post. *)
Writes(pre, l, post) ==
    /\ events' = WithCrypto(events \o pre, l, written + 1) \o post
    /\ written' = written + 1
    /\ UNCHANGED <<nextEvent, waitingForDrain, errorReturned, delivered>>

-----------------------------------------------------------------------------
(* The handshake goroutine: control. *)

HsAt(l)   == hs.pc = l
HsGoto(l) == hs' = [hs EXCEPT !.pc = l]
Waits     == hs' = [hs EXCEPT !.pc = "blocked", !.back = hs.pc]

(* The handshake function returns an error, which handshakeContext keeps. *)
Fails == /\ HsGoto("closeBlocked") /\ handshakeErr' = TRUE
         /\ UNCHANGED <<readbuf, recv, outLevel, params, early, complete, ticketSent>>

(* readHandshake at stage l: waits for a whole message, then takes it. *)
NeedsData(l) ==
    /\ HsAt(l) /\ hand < 2 /\ Waits
    /\ UNCHANGED <<cfg, app, ctl, conn, queue>>
Takes(l) == HsAt(l) /\ hand >= 2 /\ hand' = hand - 2
(* ... and finds it unacceptable. *)
Rejects(l) == Takes(l) /\ Fails /\ UNCHANGED <<cfg, app, ctl, inLevel, queue>>

(* quicWaitForSignal has received its signal: a canceled handshake fails, but   *)
(* the client's loadSession ignores the error of quicResumeSession.             *)
Woken ==
    /\ HsAt("woken")
    /\ \/ /\ canceled /\ hs.back = "drainWait" /\ cfg.isClient
          /\ HsGoto("offer") /\ UNCHANGED conn
       \/ /\ canceled /\ ~ (hs.back = "drainWait" /\ cfg.isClient)
          /\ Fails /\ UNCHANGED <<hand, inLevel>>
       \/ /\ ~canceled
          /\ HsGoto(hs.back) /\ hand' = hand + readbuf /\ readbuf' = 0
          /\ UNCHANGED <<recv, inLevel, outLevel, params, early, complete, handshakeErr, ticketSent>>
    /\ UNCHANGED <<cfg, app, ctl, queue>>

(* quicGetTransportParameters. *)
GetTransportParameters ==
    LET next == IF cfg.isClient THEN "resume" ELSE "flight" IN
    /\ \/ HsAt("params") /\ params /\ HsGoto(next) /\ UNCHANGED queue
       \/ HsAt("params") /\ ~params /\ HsGoto("paramsWait") /\ Emits(<<Plain("TransportParametersRequired")>>)
       \/ HsAt("paramsWait") /\ params /\ HsGoto(next) /\ UNCHANGED queue
       \/ HsAt("paramsWait") /\ ~params /\ Waits /\ UNCHANGED queue
    /\ UNCHANGED <<cfg, app, ctl, conn>>

(* loadSession or checkForResumption without a session, or with one, which the  *)
(* application is told of if it asked for it (quicResumeSession) ...            *)
Resume ==
    /\ HsAt("resume")
    /\ \/ HsGoto(IF cfg.isClient THEN "clientHello" ELSE "serverHello") /\ UNCHANGED queue
       \/ ~cfg.sessionEvents /\ HsGoto("offer") /\ UNCHANGED queue
       \/ /\ cfg.sessionEvents /\ HsGoto("drainWait")
          /\ events' = Append(events, Plain("ResumeSession")) /\ waitingForDrain' = TRUE
          /\ UNCHANGED <<nextEvent, errorReturned, written, delivered>>
    /\ UNCHANGED <<cfg, app, ctl, conn>>

(* Mutant: quicResumeSession waits for a single signal, whatever it means. *)
DrainWaitOnce ==
    /\ HsAt("drainWait")
    /\ \/ hs.back # "drainWait" /\ Waits
       \/ hs.back = "drainWait" /\ HsGoto("offer")
    /\ UNCHANGED <<cfg, app, ctl, conn, queue>>

(* ... and waited for until it has taken all the events. *)
DrainWait ==
    /\ HsAt("drainWait")
    /\ \/ waitingForDrain /\ Waits
       \/ ~waitingForDrain /\ HsGoto("offer")
    /\ UNCHANGED <<cfg, app, ctl, conn, queue>>

(* handshakeContext behind the handshake function: with bytes left over,       *)
(* quicSetReadSecret fails and the channels stay open.                         *)
Result ==
    /\ HsAt("result")
    /\ \/ hand # 0 /\ HsGoto("exited") /\ Emits(<<Plain("HandshakeDone")>>)
       \/ /\ hand = 0 /\ HsGoto("closeBlocked")
          /\ Emits(<<Plain("HandshakeDone"), Event("SetReadSecret", "Application")>>)
    /\ UNCHANGED <<cfg, app, ctl, conn>>

CloseBlocked ==
    /\ HsAt("closeBlocked") /\ HsGoto("closeSignal") /\ closed' = closed \cup {"blockedc"}
    /\ UNCHANGED <<cfg, app, started, canceled, session, conn, queue>>

(* Mutant: only one of the channels is closed. *)
CloseSignalForgotten ==
    /\ HsAt("closeSignal") /\ HsGoto("exited")
    /\ UNCHANGED <<cfg, app, ctl, conn, queue>>

CloseSignal ==
    /\ HsAt("closeSignal") /\ HsGoto("exited") /\ closed' = closed \cup {"signalc"}
    /\ UNCHANGED <<cfg, app, started, canceled, session, conn, queue>>

-----------------------------------------------------------------------------
(* The client's handshake. *)

(* 0-RTT is offered if the session allows it and the application has not       *)
(* declined it.                                                                *)
ClientOffer ==
    /\ HsAt("offer") /\ cfg.isClient
    /\ hs' = [hs EXCEPT !.pc = "clientHello", !.psk = TRUE]
    /\ early' \in {FALSE, session # "declined"}
    /\ UNCHANGED <<cfg, app, ctl, readbuf, hand, recv, inLevel, outLevel, params, complete, handshakeErr,
                   ticketSent, queue>>

ClientHello ==
    /\ HsAt("clientHello") /\ HsGoto("readHello")
    /\ Writes(<<>>, outLevel, IF early THEN <<Event("SetWriteSecret", "Early")>> ELSE <<>>)
    /\ UNCHANGED <<cfg, app, ctl, conn>>

(* A HelloRetryRequest ends 0-RTT and is answered with a second ClientHello. *)
HelloRetryRequest ==
    /\ cfg.isClient /\ Takes("readHello") /\ ~hs.retried
    /\ hs' = [hs EXCEPT !.retried = TRUE]
    /\ early' = FALSE
    /\ Writes(IF early THEN <<Plain("RejectedEarlyData")>> ELSE <<>>, outLevel, <<>>)
    /\ UNCHANGED <<cfg, app, ctl, readbuf, recv, inLevel, outLevel, params, complete, handshakeErr, ticketSent>>

(* Both directions change to the handshake keys. *)
HandshakeKeys ==
    /\ inLevel' = "Handshake" /\ outLevel' = "Handshake"
    /\ UNCHANGED <<readbuf, recv, params, early, complete, handshakeErr, ticketSent>>
HandshakeSecrets == <<Event("SetWriteSecret", "Handshake"), Event("SetReadSecret", "Handshake")>>

ServerHello ==
    /\ cfg.isClient /\ Takes("readHello")
    /\ \/ hand' # 0 /\ Fails /\ UNCHANGED <<inLevel, queue>>
       \/ /\ hand' = 0 /\ HandshakeKeys /\ Emits(HandshakeSecrets)
          /\ \E psk \in {FALSE, hs.psk} : hs' = [hs EXCEPT !.pc = "ee", !.psk = psk]
    /\ UNCHANGED <<cfg, app, ctl>>

EncryptedExtensions ==
    /\ Takes("ee") /\ HsGoto(IF hs.psk THEN "finished" ELSE "certReq")
    /\ \/ Emits(<<Plain("TransportParameters")>>)
       \/ early /\ Emits(<<Plain("TransportParameters"), Plain("RejectedEarlyData")>>)
    /\ UNCHANGED <<cfg, app, ctl, readbuf, recv, inLevel, outLevel, params, early, complete, handshakeErr, ticketSent>>

(* CertificateRequest is optional, Certificate and CertificateVerify are not. *)
ServerCertificate ==
    /\ \/ Takes("certReq") /\ (HsGoto("cert") \/ HsGoto("certVerify"))
       \/ Takes("cert") /\ HsGoto("certVerify")
       \/ Takes("certVerify") /\ HsGoto("finished")
    /\ UNCHANGED <<cfg, app, ctl, readbuf, recv, inLevel, outLevel, params, early, complete, handshakeErr,
                   ticketSent, queue>>

(* Mutant: the read key changes with bytes of the old one buffered. *)
ServerFinishedUnchecked ==
    /\ Takes("finished") /\ HsGoto("result")
    /\ inLevel' = "Application" /\ outLevel' = "Application" /\ complete' = TRUE
    /\ Writes(<<>>, outLevel, <<Event("SetWriteSecret", "Application")>>)
    /\ UNCHANGED <<cfg, app, ctl, readbuf, recv, params, early, handshakeErr, ticketSent>>

(* The server's Finished, and the client's last flight; the client may still   *)
(* fail, for want of a certificate, when the read level has changed.           *)
ServerFinished ==
    /\ Takes("finished")
    /\ \/ hand' # 0 /\ Fails /\ UNCHANGED <<inLevel, queue>>
       \/ hand' = 0 /\ inLevel' = "Application" /\ Fails /\ UNCHANGED queue
       \/ /\ hand' = 0 /\ HsGoto("result")
          /\ inLevel' = "Application" /\ outLevel' = "Application" /\ complete' = TRUE
          /\ Writes(<<>>, outLevel, <<Event("SetWriteSecret", "Application")>>)
          /\ UNCHANGED <<readbuf, recv, params, early, handshakeErr, ticketSent>>
    /\ UNCHANGED <<cfg, app, ctl>>

-----------------------------------------------------------------------------
(* The server's handshake. *)

(* processClientHello, with a HelloRetryRequest if no bytes are left. *)
ReadClientHello ==
    /\ ~cfg.isClient /\ Takes("readHello")
    /\ \/ HsGoto("resume") /\ Emits(<<Plain("TransportParameters")>>)
       \/ /\ hand' = 0 /\ hs' = [hs EXCEPT !.pc = "readRetryHello", !.retried = TRUE]
          /\ Writes(<<>>, outLevel, <<>>)
    /\ UNCHANGED <<cfg, app, ctl, readbuf, recv, inLevel, outLevel, params, early, complete, handshakeErr, ticketSent>>

ReadRetryHello ==
    /\ Takes("readRetryHello") /\ HsGoto("resume") /\ Emits(<<Plain("TransportParameters")>>)
    /\ UNCHANGED <<cfg, app, ctl, readbuf, recv, inLevel, outLevel, params, early, complete, handshakeErr, ticketSent>>

(* The session is resumed, with 0-RTT or without, unless its binder is wrong.  *)
ServerOffer ==
    /\ HsAt("offer") /\ ~cfg.isClient
    /\ \/ Fails /\ UNCHANGED <<hand, inLevel, queue>>
       \/ /\ hs' = [hs EXCEPT !.pc = "serverHello", !.psk = TRUE]
          /\ UNCHANGED <<conn, queue>>
       \/ /\ hand = 0 /\ ~hs.retried /\ session # "declined"
          /\ hs' = [hs EXCEPT !.pc = "serverHello", !.psk = TRUE]
          /\ Emits(<<Event("SetReadSecret", "Early")>>)
          /\ UNCHANGED conn
    /\ UNCHANGED <<cfg, app, ctl>>

(* The ServerHello and the handshake keys of sendServerParameters. *)
SendServerHello ==
    /\ HsAt("serverHello")
    /\ \/ Fails /\ UNCHANGED <<hand, inLevel, queue>>
       \/ hand # 0 /\ Fails /\ Writes(<<>>, outLevel, <<>>) /\ UNCHANGED <<hand, inLevel>>
       \/ /\ hand = 0 /\ HandshakeKeys /\ Writes(<<>>, outLevel, HandshakeSecrets)
          /\ HsGoto("params") /\ UNCHANGED hand
    /\ UNCHANGED <<cfg, app, ctl>>

(* Mutant: the write keys change before the flight is written. *)
SendServerFlightEarly ==
    /\ HsAt("flight")
    /\ outLevel' = "Application" /\ (HsGoto("clientFinished") \/ (~hs.psk /\ HsGoto("clientCert")))
    /\ Writes(<<>>, outLevel', <<Event("SetWriteSecret", "Application")>>)
    /\ UNCHANGED <<cfg, app, ctl, readbuf, hand, recv, inLevel, params, early, complete, handshakeErr, ticketSent>>

(* EncryptedExtensions to Finished, then the application keys for writing. *)
SendServerFlight ==
    /\ HsAt("flight")
    /\ \/ Fails /\ UNCHANGED <<hand, inLevel, queue>>
       \/ /\ outLevel' = "Application" /\ (HsGoto("clientFinished") \/ (~hs.psk /\ HsGoto("clientCert")))
          /\ Writes(<<>>, outLevel, <<Event("SetWriteSecret", "Application")>>)
          /\ UNCHANGED <<readbuf, hand, recv, inLevel, params, early, complete, handshakeErr, ticketSent>>
    /\ UNCHANGED <<cfg, app, ctl>>

(* A client without a certificate sends no CertificateVerify. *)
ClientCertificate ==
    /\ \/ Takes("clientCert") /\ (HsGoto("clientCertVerify") \/ HsGoto("clientFinished"))
       \/ Takes("clientCertVerify") /\ HsGoto("clientFinished")
    /\ UNCHANGED <<cfg, app, ctl, readbuf, recv, inLevel, outLevel, params, early, complete, handshakeErr,
                   ticketSent, queue>>

ClientFinished ==
    /\ Takes("clientFinished")
    /\ \/ hand' # 0 /\ Fails /\ UNCHANGED inLevel
       \/ /\ hand' = 0 /\ HsGoto("result") /\ inLevel' = "Application" /\ complete' = TRUE
          /\ UNCHANGED <<readbuf, recv, outLevel, params, early, handshakeErr, ticketSent>>
    /\ UNCHANGED <<cfg, app, ctl, queue>>

ReadStages == {"readHello", "readRetryHello", "ee", "certReq", "cert", "certVerify", "finished",
               "clientCert", "clientCertVerify", "clientFinished"}
HsStep ==
    \/ \E l \in ReadStages : NeedsData(l) \/ Rejects(l)
    \/ Woken \/ GetTransportParameters \/ Resume \/ DrainWait \/ Result \/ CloseBlocked \/ CloseSignal
    \/ ClientOffer \/ ClientHello \/ HelloRetryRequest \/ ServerHello \/ EncryptedExtensions
    \/ ServerCertificate \/ ServerFinished
    \/ ReadClientHello \/ ReadRetryHello \/ ServerOffer \/ SendServerHello \/ SendServerFlight
    \/ ClientCertificate \/ ClientFinished

-----------------------------------------------------------------------------
(* The application's calls. *)

Idle        == app.pc = "idle"
Returns     == app' = [pc |-> "idle", op |-> "none"]
Goes(o, l)  == app' = [pc |-> l, op |-> o]

(* Start launches the handshake, once and for TLS 1.3 only. *)
Start ==
    /\ Idle /\ ~started
    /\ started' = TRUE
    /\ \/ ~cfg.min13 /\ UNCHANGED <<app, hs>>
       \/ /\ cfg.min13 /\ Goes("Start", "blocked")
          /\ hs' = [hs EXCEPT !.pc = IF cfg.isClient THEN "params" ELSE "readHello"]
    /\ UNCHANGED <<cfg, closed, canceled, session, conn, queue>>

(* HandleData of n halves of a message at the level that is being read; at any *)
(* other it returns an error and sets c.in.err, which QUIC never reads.        *)
HandleData(n) ==
    /\ Idle /\ recv + n <= MaxData
    /\ readbuf' = n /\ recv' = recv + n
    /\ Goes("HandleData", "signal")
    /\ UNCHANGED <<cfg, hs, ctl, hand, inLevel, outLevel, params, early, complete, handshakeErr, ticketSent, queue>>

(* Mutant: SetTransportParameters does not wait for the handshake to block. *)
SetTransportParametersHasty ==
    /\ Idle
    /\ params' = TRUE
    /\ \/ ~started /\ UNCHANGED <<app, hs>>
       \/ /\ started /\ HsAt("signal") /\ HsGoto("woken") /\ UNCHANGED app
    /\ UNCHANGED <<cfg, ctl, readbuf, hand, recv, inLevel, outLevel, early, complete, handshakeErr, ticketSent, queue>>

SetTransportParameters ==
    /\ Idle
    /\ params' = TRUE
    /\ \/ ~started /\ UNCHANGED app
       \/ started /\ Goes("SetTransportParameters", "signal")
    /\ UNCHANGED <<cfg, hs, ctl, readbuf, hand, recv, inLevel, outLevel, early, complete, handshakeErr,
                   ticketSent, queue>>

Close ==
    /\ Idle /\ ~HsAt("none")
    /\ canceled' = TRUE /\ Goes("Close", "signal")
    /\ UNCHANGED <<cfg, hs, closed, started, session, conn, queue>>

(* SendSessionTicket, tried once, of a server whose handshake is complete; the *)
(* ticket may fail to be encrypted.                                            *)
SendSessionTicket ==
    /\ Idle /\ complete /\ ~cfg.isClient /\ ~ticketSent
    /\ ticketSent' = TRUE
    /\ Writes(<<>>, outLevel, <<>>) \/ UNCHANGED queue
    /\ UNCHANGED <<cfg, app, hs, ctl, readbuf, hand, recv, inLevel, outLevel, params, early, complete, handshakeErr>>

(* The application that was just handed a QUICResumeSession declines 0-RTT. *)
DeclineEarlyData ==
    /\ Idle /\ session = "offered" /\ session' = "declined"
    /\ UNCHANGED <<cfg, app, hs, closed, started, canceled, conn, queue>>

(* The context given to Start is canceled. *)
Cancel ==
    /\ ~HsAt("none") /\ ~canceled /\ canceled' = TRUE
    /\ UNCHANGED <<cfg, app, hs, closed, started, session, conn, queue>>

(* What NextEvent leaves of the chance to decline 0-RTT. *)
Kept == IF session = "declined" THEN "declined" ELSE "none"

(* The end of NextEvent: the error, once, in place of all the events left; ... *)
TakesError ==
    /\ handshakeErr /\ session' = Kept
    /\ \/ errorReturned /\ UNCHANGED <<events, nextEvent, delivered>>
       \/ /\ ~errorReturned /\ events' = <<>> /\ nextEvent' = 0
          /\ delivered' = Append(delivered, Plain("Error"))

(* ... nothing; ... *)
TakesNone ==
    /\ ~handshakeErr /\ nextEvent >= Len(events) /\ session' = Kept
    /\ events' = <<>> /\ nextEvent' = 0 /\ UNCHANGED delivered

(* Mutant: the event that was taken stays in the queue as it was. *)
TakesNextKeeping ==
    /\ ~handshakeErr /\ nextEvent < Len(events)
    /\ LET e == events[nextEvent + 1] IN
       /\ delivered' = Append(delivered, e)
       /\ session' = IF e.kind = "ResumeSession" THEN "offered" ELSE Kept
    /\ nextEvent' = nextEvent + 1 /\ UNCHANGED events

(* ... or the next event, which is zeroed in the queue. *)
TakesNext ==
    /\ ~handshakeErr /\ nextEvent < Len(events)
    /\ LET e == events[nextEvent + 1] IN
       /\ delivered' = Append(delivered, e)
       /\ session' = IF e.kind = "ResumeSession" THEN "offered" ELSE Kept
    /\ events' = [events EXCEPT ![nextEvent + 1] = Plain("NoEvent")]
    /\ nextEvent' = nextEvent + 1

TakeEvent ==
    /\ TakesError \/ TakesNone \/ TakesNext
    /\ errorReturned' = (errorReturned \/ handshakeErr)
    /\ UNCHANGED written

(* NextEvent first lets a handshake go on that waits for the events to be taken. *)
NextEvent ==
    /\ Idle
    /\ \/ /\ nextEvent >= Len(events) /\ waitingForDrain
          /\ waitingForDrain' = FALSE /\ session' = Kept /\ Goes("NextEvent", "signal")
          /\ UNCHANGED <<events, nextEvent, errorReturned, written, delivered>>
       \/ /\ ~ (nextEvent >= Len(events) /\ waitingForDrain)
          /\ TakeEvent /\ UNCHANGED <<app, waitingForDrain>>
    /\ UNCHANGED <<cfg, hs, closed, started, canceled, conn>>

(* <-signalc: the handshake sends on it, or has closed it. *)
RecvSignal ==
    /\ app.pc = "signal"
    /\ \/ HsAt("signal") /\ HsGoto("woken")
       \/ "signalc" \in closed /\ UNCHANGED hs
    /\ Goes(app.op, IF app.op = "Close" THEN "range" ELSE "blocked")
    /\ UNCHANGED <<cfg, ctl, conn, queue>>

(* <-blockedc: the handshake waits again, or is over. *)
RecvBlocked ==
    /\ app.pc = "blocked"
    /\ \/ HsAt("blocked") /\ HsGoto("signal")
       \/ "blockedc" \in closed /\ UNCHANGED hs
    /\ IF app.op = "HandleData" /\ "blockedc" \in closed THEN Goes("HandleData", "post") ELSE Returns
    /\ IF app.op = "NextEvent" THEN TakeEvent
       ELSE UNCHANGED <<session, events, nextEvent, errorReturned, written, delivered>>
    /\ UNCHANGED <<cfg, closed, started, canceled, conn, waitingForDrain>>

(* Close receives until blockedc is closed. *)
RangeBlocked ==
    /\ app.pc = "range"
    /\ \/ HsAt("blocked") /\ HsGoto("signal") /\ UNCHANGED app
       \/ "blockedc" \in closed /\ Returns /\ UNCHANGED hs
    /\ UNCHANGED <<cfg, ctl, conn, queue>>

(* HandleData behind the handshake, under handshakeMutex: whole messages are   *)
(* handled one by one.  A client takes session tickets; any other message, or  *)
(* one beyond maxHandshake, is an error.                                       *)
PostHandshake ==
    /\ app.pc = "post" /\ HsAt("exited")
    /\ \/ /\ readbuf > 0 /\ hand' = hand + readbuf /\ readbuf' = 0
          /\ UNCHANGED <<app, handshakeErr, queue>>
       \/ /\ readbuf = 0 /\ hand >= 2 /\ ~handshakeErr
          /\ hand' = hand - 2
          /\ \/ /\ cfg.isClient
                /\ Emits(IF cfg.sessionEvents THEN <<Plain("StoreSession")>> ELSE <<>>)
                /\ UNCHANGED handshakeErr
             \/ handshakeErr' = TRUE /\ UNCHANGED queue
          /\ UNCHANGED <<app, readbuf>>
       \/ /\ readbuf = 0 /\ hand >= 1 /\ ~handshakeErr
          /\ handshakeErr' = TRUE /\ UNCHANGED <<app, hand, readbuf, queue>>
       \/ /\ readbuf = 0 /\ (hand < 2 \/ handshakeErr) /\ Returns
          /\ UNCHANGED <<hand, readbuf, handshakeErr, queue>>
    /\ UNCHANGED <<cfg, hs, ctl, recv, inLevel, outLevel, params, early, complete, ticketSent>>

(* What a call that has begun does, as opposed to the calls that the           *)
(* application may make.                                                       *)
AppStep == RecvSignal \/ RecvBlocked \/ RangeBlocked \/ PostHandshake
AppCall == \/ Start \/ SetTransportParameters \/ NextEvent \/ Close \/ SendSessionTicket
           \/ DeclineEarlyData \/ Cancel
           \/ \E n \in 1..MaxChunk : HandleData(n)

Next == HsStep \/ AppStep \/ AppCall

(* Both goroutines are scheduled; nothing is assumed of the calls made. *)
Spec == Init /\ [][Next]_vars /\ WF_vars(HsStep) /\ WF_vars(AppStep)

-----------------------------------------------------------------------------
(* Properties. *)

(* The two goroutines never touch the connection at the same time: the         *)
(* handshake runs only while a call waits for it to block.                     *)
Handoff == hs.pc \in Stages => app.pc \in {"blocked", "range"}

(* What the application has been given and what is left for it to take.        *)
Stream == delivered \o SubSeq(events, nextEvent + 1, Len(events))

(* Every handshake message reaches the QUIC layer once and in order, whatever  *)
(* was taken when it was written, up to an error: the data of the stream, read *)
(* from its start to its end, is 1, 2 and so on to the last one written.       *)
DataOf(e) == IF e.kind = "WriteData" THEN e.data ELSE <<>>
InSequence(es, n) ==
    /\ \A k \in 1..n : \E i \in DOMAIN es : \E p \in DOMAIN DataOf(es[i]) : DataOf(es[i])[p] = k
    /\ \A i, j \in DOMAIN es : \A p \in DOMAIN DataOf(es[i]), q \in DOMAIN DataOf(es[j]) :
           /\ DataOf(es[i])[p] \in 1..n
           /\ i < j \/ (i = j /\ p < q) => DataOf(es[i])[p] < DataOf(es[j])[q]
CryptoInOrder == ~errorReturned => InSequence(Stream, written)

(* A level's data comes behind its write secret; the 1-RTT read secret behind  *)
(* QUICHandshakeDone, as 1-RTT packets must not be read before; the rejection  *)
(* of 0-RTT before the 1-RTT secrets; nothing behind an error.                 *)
Precedes(es, k, l, i) == \E j \in 1..i-1 : es[j].kind = k /\ es[j].level = l
InOrder(es) ==
    \A i \in DOMAIN es :
        LET k == es[i].kind
            l == es[i].level
        IN  /\ k = "WriteData" /\ l # "Initial" => Precedes(es, "SetWriteSecret", l, i)
            /\ k = "SetReadSecret" /\ l = "Application" => Precedes(es, "HandshakeDone", "Initial", i)
            /\ k = "RejectedEarlyData" => /\ Precedes(es, "SetWriteSecret", "Early", i)
                                          /\ ~Precedes(es, "SetWriteSecret", "Application", i)
            /\ ~Precedes(es, "Error", "Initial", i)
EventsInOrder == InOrder(delivered)

(* An application that declines 0-RTT when it is handed the session does not   *)
(* get secrets for it, unless the handshake is being canceled.                 *)
NoEarly(es) == \A i \in DOMAIN es : es[i].level # "Early"
DeclineHonoured == session = "declined" /\ ~canceled => NoEarly(Stream)

(* The handshake goroutine closes both channels when it ends: no error path    *)
(* leaves the calls that wait for it behind.                                   *)
ExitClosesChannels == HsAt("exited") => closed = {"blockedc", "signalc"}

-----------------------------------------------------------------------------
(* What makes the invariants inductive. *)

(* The queue holds events, and none of the ones that were taken. *)
QueueInv ==
    /\ events \in Seq(Events) /\ nextEvent \in 0..Len(events) /\ written \in Nat /\ delivered \in Seq(Events)
    /\ \A i \in 1..nextEvent : events[i].kind = "NoEvent"

(* Where the handshake function is, whether it runs there or waits. *)
Stage == IF hs.pc \in {"blocked", "signal", "woken"} THEN hs.back ELSE hs.pc

(* Who may be where: the handshake runs under a call that waits on blockedc,   *)
(* stands at signalc behind one that has returned, and closes the channels in  *)
(* this order; it ends well only with no bytes left over.                      *)
ControlInv ==
    /\ hs.pc # "none" => started
    /\ hs.pc \in {"blocked", "signal", "woken"} => hs.back \in ReadStages \cup {"paramsWait", "drainWait"}
    /\ hs.pc = "none" => app.pc \in {"idle", "signal"}
    /\ hs.pc \in Stages \cup {"blocked", "closeBlocked"} => app.pc \in {"blocked", "range"}
    /\ hs.pc = "signal" => app.pc \in {"idle", "signal", "range"}
    /\ closed = CASE hs.pc = "exited"      -> {"blockedc", "signalc"}
                  [] hs.pc = "closeSignal" -> {"blockedc"}
                  [] OTHER                 -> {}
    /\ hs.pc = "result" => hand = 0

(* No 0-RTT before the application has had its say on the session, which the   *)
(* handshake awaits with the events untaken; none behind a refusal.            *)
Undecided == \/ Stage \in {"none", "resume", "drainWait"}
             \/ cfg.isClient /\ Stage \in {"params", "paramsWait"}
             \/ ~cfg.isClient /\ Stage \in {"readHello", "readRetryHello"}
NoneEarly == ~early /\ NoEarly(Stream)
PendingResume == \E i \in Len(delivered)+1..Len(Stream) : Stream[i].kind = "ResumeSession"
DeclineInv ==
    /\ outLevel \in Levels \ {"Early"}
    /\ Stage = "clientHello" => cfg.isClient
    /\ Stage \in {"serverHello", "readRetryHello"} => ~cfg.isClient
    /\ Undecided => NoneEarly
    /\ ~canceled =>
        /\ session = "declined" => NoneEarly
        /\ session = "offered" \/ PendingResume => Stage = "drainWait" /\ waitingForDrain

(* The secrets in the stream are the ones of the levels that the connection    *)
(* has gone through.                                                           *)
InStream(k, l) == \E i \in DOMAIN Stream : Stream[i].kind = k /\ Stream[i].level = l
SecretsInv ==
    /\ outLevel # "Initial" => InStream("SetWriteSecret", outLevel)
    /\ InStream("SetWriteSecret", "Application") => outLevel = "Application"
    /\ early /\ Stage \in {"readHello", "ee"} => InStream("SetWriteSecret", "Early")
Sealed == {"clientCert", "clientCertVerify", "clientFinished", "result", "closeBlocked", "closeSignal", "exited"}
StreamInv ==
    /\ outLevel = "Application" => Stage \in Sealed
    /\ errorReturned => handshakeErr
    /\ IF errorReturned THEN EventsInOrder
       ELSE InOrder(Stream) /\ SecretsInv /\ \A i \in DOMAIN Stream : Stream[i].kind # "Error"

-----------------------------------------------------------------------------
(* Liveness. *)

(* Once the handshake was launched every call returns, except a Close that     *)
(* interrupts a client's QUICResumeSession.                                    *)
Launched == ~HsAt("none")
CloseInResume == cfg.isClient /\ cfg.sessionEvents /\ app.pc = "range" /\ HsAt("signal")
CallsReturn == (Launched /\ ~Idle) ~> (Idle \/ CloseInResume)

(* "Close closes the connection and stops any in-progress handshake." *)
CloseReturns == (Launched /\ app.op = "Close") ~> Idle
=============================================================================
