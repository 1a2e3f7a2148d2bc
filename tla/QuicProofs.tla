----------------------------- MODULE QuicProofs -----------------------------
(***************************************************************************)
(* Proofs about QuicConn, for every set of configurations and any amount   *)
(* of data of the peer: who runs when, first, then the events.             *)
(***************************************************************************)
EXTENDS QuicConn, SequenceTheorems, TLAPS

-----------------------------------------------------------------------------
(* The places of the handshake goroutine. *)

HsType  == hs \in [pc : HsLabels, back : Stages, psk : BOOLEAN, retried : BOOLEAN]
AppType == app \in [pc : {"idle", "signal", "blocked", "range", "post"}, op : Calls \cup {"none"}]
WaitStages == ReadStages \cup {"paramsWait", "drainWait"}

LEMMA HsGotoFacts ==
  ASSUME HsType, NEW l \in HsLabels, HsGoto(l)
  PROVE  HsType' /\ hs'.pc = l /\ hs'.back = hs.back /\ hs'.psk = hs.psk /\ hs'.retried = hs.retried
BY DEF HsType, HsGoto

LEMMA WaitsFacts ==
  ASSUME HsType, hs.pc \in Stages, Waits
  PROVE  HsType' /\ hs'.pc = "blocked" /\ hs'.back = hs.pc
BY DEF HsType, Waits, HsLabels

LEMMA StageLabels ==
  /\ WaitStages \subseteq Stages /\ Stages \subseteq HsLabels /\ ReadStages \subseteq WaitStages
  /\ Stages \cap {"none", "blocked", "signal", "closeBlocked", "closeSignal", "exited"} = {}
  /\ WaitStages \cap {"woken", "result", "params", "resume", "offer"} = {}
  /\ {"none", "blocked", "signal", "closeBlocked", "closeSignal", "exited"} \subseteq HsLabels
BY DEF WaitStages, ReadStages, Stages, HsLabels

LEMMA FailsFacts ==
  ASSUME HsType, Fails
  PROVE  HsType' /\ hs'.pc = "closeBlocked" /\ hs'.back = hs.back /\ handshakeErr' = TRUE
         /\ early' = early /\ outLevel' = outLevel /\ complete' = complete /\ params' = params
         /\ readbuf' = readbuf /\ recv' = recv /\ ticketSent' = ticketSent
BY HsGotoFacts, StageLabels DEF Fails

-----------------------------------------------------------------------------
(* The steps of the handshake, by what they do to its place. *)

(* It goes on, waits where it may, or closes the channels and ends. *)
GoesOn == /\ hs.pc \in Stages /\ hs'.pc \in (Stages \ {"woken"}) \cup {"closeBlocked"} /\ hs'.back = hs.back
          /\ closed' = closed /\ (hs'.pc = "result" => hand' = 0)
StartsWaiting == hs.pc \in WaitStages /\ hs'.pc = "blocked" /\ hs'.back = hs.pc /\ closed' = closed
Ends == \/ hs.pc = "result" /\ hs'.pc = "exited" /\ hand # 0
        \/ hs.pc = "closeBlocked" /\ hs'.pc = "closeSignal" /\ closed' = closed \cup {"blockedc"}
        \/ hs.pc = "closeSignal" /\ hs'.pc = "exited" /\ closed' = closed \cup {"signalc"}
HsMove == /\ HsType' /\ UNCHANGED <<cfg, app, started, canceled, session>>
          /\ GoesOn \/ StartsWaiting \/ Ends

LEMMA HsMoves ==
  ASSUME HsType, ControlInv, HsStep PROVE HsMove
<1>0. hs.pc \in HsLabels /\ hs.back \in Stages
  BY DEF HsType
<1>a. ASSUME hs.pc \in Stages, NEW l \in (Stages \ {"woken", "result"}) \cup {"closeBlocked"}, HsGoto(l),
             UNCHANGED <<cfg, app, started, canceled, session, closed>>
      PROVE  HsMove
  BY <1>a, HsGotoFacts, StageLabels DEF HsMove, GoesOn
<1>b. ASSUME hs.pc \in WaitStages, Waits, UNCHANGED <<cfg, app, started, canceled, session, closed>> PROVE HsMove
  BY <1>b, WaitsFacts, StageLabels DEF HsMove, StartsWaiting
<1>c. ASSUME hs.pc \in Stages, Fails, UNCHANGED <<cfg, app, started, canceled, session, closed>> PROVE HsMove
  BY <1>c, FailsFacts DEF HsMove, GoesOn, Stages
<1>1. ASSUME NEW l \in ReadStages, NeedsData(l) PROVE HsMove
  BY <1>1, <1>b, StageLabels DEF NeedsData, HsAt, ctl
<1>2. ASSUME NEW l \in ReadStages, Rejects(l) PROVE HsMove
  BY <1>2, <1>c, StageLabels DEF Rejects, Takes, HsAt, ctl
<1>3. ASSUME Woken PROVE HsMove
  <2>1. hs.pc \in Stages /\ hs.back \in WaitStages /\ UNCHANGED <<cfg, app, started, canceled, session, closed>>
    BY <1>3 DEF Woken, HsAt, ctl, Stages, ControlInv, WaitStages
  <2>2. HsGoto("offer") \/ Fails \/ HsGoto(hs.back)
    BY <1>3 DEF Woken
  <2> QED
    BY <2>1, <2>2, <1>a, <1>c, StageLabels DEF Stages
<1>4. ASSUME GetTransportParameters PROVE HsMove
  <2>1. hs.pc \in Stages /\ UNCHANGED <<cfg, app, started, canceled, session, closed>>
    BY <1>4 DEF GetTransportParameters, HsAt, ctl, Stages
  <2>2. \/ \E l \in {"resume", "flight", "paramsWait"} : HsGoto(l)
        \/ hs.pc = "paramsWait" /\ Waits
    BY <1>4 DEF GetTransportParameters, HsAt
  <2> QED
    BY <2>1, <2>2, <1>a, <1>b DEF Stages, WaitStages
<1>5. ASSUME Resume PROVE HsMove
  <2>1. hs.pc \in Stages /\ UNCHANGED <<cfg, app, started, canceled, session, closed>>
    BY <1>5 DEF Resume, HsAt, ctl, Stages
  <2>2. \E l \in {"clientHello", "serverHello", "offer", "drainWait"} : HsGoto(l)
    BY <1>5 DEF Resume
  <2> QED
    BY <2>1, <2>2, <1>a DEF Stages
<1>6. ASSUME DrainWait PROVE HsMove
  <2>1. hs.pc = "drainWait" /\ UNCHANGED <<cfg, app, started, canceled, session, closed>>
    BY <1>6 DEF DrainWait, HsAt, ctl
  <2>2. Waits \/ HsGoto("offer")
    BY <1>6 DEF DrainWait
  <2> QED
    BY <2>1, <2>2, <1>a, <1>b DEF Stages, WaitStages
<1>7. ASSUME Result PROVE HsMove
  <2>1. hs.pc = "result" /\ UNCHANGED <<cfg, app, started, canceled, session, closed>>
    BY <1>7 DEF Result, HsAt, ctl
  <2>2. (hand # 0 /\ HsGoto("exited")) \/ HsGoto("closeBlocked")
    BY <1>7 DEF Result
  <2>3. ASSUME hand # 0, HsGoto("exited") PROVE HsMove
    BY <2>1, <2>3, HsGotoFacts DEF HsMove, Ends, HsLabels
  <2> QED
    BY <2>1, <2>2, <2>3, <1>a DEF Stages
<1>8. ASSUME CloseBlocked \/ CloseSignal PROVE HsMove
  <2>1. UNCHANGED <<cfg, app, started, canceled, session>>
    BY <1>8 DEF CloseBlocked, CloseSignal
  <2>2. \/ hs.pc = "closeBlocked" /\ HsGoto("closeSignal") /\ closed' = closed \cup {"blockedc"}
        \/ hs.pc = "closeSignal" /\ HsGoto("exited") /\ closed' = closed \cup {"signalc"}
    BY <1>8 DEF CloseBlocked, CloseSignal, HsAt
  <2> QED
    BY <2>1, <2>2, HsGotoFacts DEF HsMove, Ends, HsLabels
<1>d. ASSUME hs.pc \in Stages \ {"woken", "result"}, NEW b \in BOOLEAN, NEW l \in Stages \ {"woken", "result"},
             \/ hs' = [hs EXCEPT !.pc = l, !.psk = b]
             \/ hs' = [hs EXCEPT !.pc = l, !.retried = b]
             \/ hs' = [hs EXCEPT !.retried = b],
             UNCHANGED <<cfg, app, started, canceled, session, closed>>
      PROVE  HsMove
  BY <1>d, StageLabels, ZenonT(40) DEF HsMove, GoesOn, HsType
<1>e. ASSUME hs.pc \in Stages, hand' = 0, HsGoto("result"), UNCHANGED <<cfg, app, started, canceled, session, closed>>
      PROVE  HsMove
  BY <1>e, HsGotoFacts, StageLabels DEF HsMove, GoesOn, Stages
<1>9. ASSUME ClientOffer PROVE HsMove
  BY <1>9, <1>d DEF ClientOffer, HsAt, ctl, Stages
<1>10. ASSUME ClientHello PROVE HsMove
  BY <1>10, <1>a, SMTT(30) DEF ClientHello, HsAt, ctl, Stages
<1>11. ASSUME HelloRetryRequest PROVE HsMove
  BY <1>11, <1>d, ZenonT(40) DEF HelloRetryRequest, Takes, HsAt, ctl, Stages
<1>12. ASSUME ServerHello PROVE HsMove
  <2>1. hs.pc = "readHello" /\ UNCHANGED <<cfg, app, started, canceled, session, closed>>
    BY <1>12 DEF ServerHello, Takes, HsAt, ctl
  <2>2. Fails \/ \E b \in BOOLEAN : hs' = [hs EXCEPT !.pc = "ee", !.psk = b]
    BY <1>12 DEF ServerHello, HsType
  <2> QED
    BY <2>1, <2>2, <1>c, <1>d DEF Stages
<1>13. ASSUME EncryptedExtensions PROVE HsMove
  BY <1>13, <1>a DEF EncryptedExtensions, Takes, HsAt, ctl, Stages
<1>14. ASSUME ServerCertificate PROVE HsMove
  BY <1>14, <1>a DEF ServerCertificate, Takes, HsAt, ctl, Stages
<1>15. ASSUME ServerFinished PROVE HsMove
  <2>1. hs.pc = "finished" /\ UNCHANGED <<cfg, app, started, canceled, session, closed>>
    BY <1>15 DEF ServerFinished, Takes, HsAt, ctl
  <2>2. Fails \/ (hand' = 0 /\ HsGoto("result"))
    BY SMTT(30), <1>15 DEF ServerFinished
  <2> QED
    BY <2>1, <2>2, <1>c, <1>e DEF Stages
<1>16. ASSUME ReadClientHello PROVE HsMove
  <2>1. hs.pc = "readHello" /\ UNCHANGED <<cfg, app, started, canceled, session, closed>>
    BY <1>16 DEF ReadClientHello, Takes, HsAt, ctl
  <2>2. HsGoto("resume") \/ hs' = [hs EXCEPT !.pc = "readRetryHello", !.retried = TRUE]
    BY <1>16 DEF ReadClientHello
  <2> QED
    BY <2>1, <2>2, <1>a, <1>d DEF Stages
<1>17. ASSUME ReadRetryHello PROVE HsMove
  BY SMTT(30), <1>17, <1>a DEF ReadRetryHello, Takes, HsAt, ctl, Stages
<1>18. ASSUME ServerOffer PROVE HsMove
  <2>1. hs.pc = "offer" /\ UNCHANGED <<cfg, app, started, canceled, session, closed>>
    BY <1>18 DEF ServerOffer, HsAt, ctl
  <2>2. Fails \/ hs' = [hs EXCEPT !.pc = "serverHello", !.psk = TRUE]
    BY <1>18 DEF ServerOffer
  <2> QED
    BY <2>1, <2>2, <1>c, <1>d DEF Stages
<1>19. ASSUME SendServerHello PROVE HsMove
  <2>1. hs.pc = "serverHello" /\ UNCHANGED <<cfg, app, started, canceled, session, closed>>
    BY <1>19 DEF SendServerHello, HsAt, ctl
  <2>2. Fails \/ HsGoto("params")
    BY <1>19 DEF SendServerHello
  <2> QED
    BY <2>1, <2>2, <1>a, <1>c DEF Stages
<1>20. ASSUME SendServerFlight PROVE HsMove
  <2>1. hs.pc = "flight" /\ UNCHANGED <<cfg, app, started, canceled, session, closed>>
    BY <1>20 DEF SendServerFlight, HsAt, ctl
  <2>2. Fails \/ HsGoto("clientFinished") \/ HsGoto("clientCert")
    BY <1>20 DEF SendServerFlight
  <2> QED
    BY <2>1, <2>2, <1>a, <1>c DEF Stages
<1>21. ASSUME ClientCertificate PROVE HsMove
  BY <1>21, <1>a DEF ClientCertificate, Takes, HsAt, ctl, Stages
<1>22. ASSUME ClientFinished PROVE HsMove
  <2>1. hs.pc = "clientFinished" /\ UNCHANGED <<cfg, app, started, canceled, session, closed>>
    BY <1>22 DEF ClientFinished, Takes, HsAt, ctl
  <2>2. Fails \/ (hand' = 0 /\ HsGoto("result"))
    BY <1>22 DEF ClientFinished
  <2> QED
    BY <2>1, <2>2, <1>c, <1>e DEF Stages
<1> QED
  BY <1>1, <1>2, <1>3, <1>4, <1>5, <1>6, <1>7, <1>8, <1>9, <1>10, <1>11, <1>12, <1>13, <1>14, <1>15,
     <1>16, <1>17, <1>18, <1>19, <1>20, <1>21, <1>22 DEF HsStep

(* The channels that are closed, by the place of the handshake. *)
LEMMA ClosedByPlace ==
  ASSUME ControlInv
  PROVE  /\ "blockedc" \in closed <=> hs.pc \in {"closeSignal", "exited"}
         /\ "signalc" \in closed <=> hs.pc = "exited"
BY DEF ControlInv

(* A step of the handshake keeps everyone in place. *)
LEMMA ControlHsStep ==
  ASSUME HsType, ControlInv, HsStep PROVE ControlInv' /\ HsType'
<1>0. HsMove /\ hs.pc \in HsLabels
  BY HsMoves DEF HsType
<1>1. CASE GoesOn
  BY <1>0, <1>1, StageLabels DEF HsMove, GoesOn, ControlInv
<1>2. CASE StartsWaiting
  BY <1>0, <1>2, StageLabels DEF HsMove, StartsWaiting, ControlInv, WaitStages
<1>3. CASE Ends
  BY <1>0, <1>3, StageLabels DEF HsMove, Ends, ControlInv
<1> QED
  BY <1>0, <1>1, <1>2, <1>3 DEF HsMove

(* The places of the application, and what its calls do to the handshake.      *)
LEMMA ControlApp ==
  ASSUME HsType, AppType, ControlInv, AppStep \/ AppCall PROVE ControlInv' /\ HsType' /\ AppType'
<1>0. hs.pc \in HsLabels /\ hs.back \in Stages /\ app.op \in Calls \cup {"none"}
  BY DEF HsType, AppType
<1>a. ASSUME NEW o \in Calls, NEW l \in {"signal", "blocked", "range", "post"}, Goes(o, l)
      PROVE  AppType' /\ app'.pc = l /\ app'.op = o
  BY <1>a DEF Goes, AppType
<1>b. ASSUME Returns PROVE AppType' /\ app'.pc = "idle"
  BY <1>b DEF Returns, AppType, Calls
<1>1. ASSUME Start PROVE ControlInv' /\ HsType' /\ AppType'
  <2>1. CASE ~cfg.min13
    BY <1>1, <2>1 DEF Start, ControlInv, HsType, AppType
  <2>2. CASE cfg.min13
    <3>1. HsGoto("params") \/ HsGoto("readHello")
      BY <1>1, <2>2 DEF Start, HsGoto
    <3>2. HsType' /\ hs'.pc \in {"params", "readHello"}
      BY <3>1, HsGotoFacts DEF HsLabels, Stages
    <3>3. hs.pc = "none" /\ closed' = {} /\ started'
      BY <1>1, <2>2 DEF Start, ControlInv
    <3>4. AppType' /\ app'.pc = "blocked"
      BY <1>1, <2>2, <1>a DEF Start, Calls
    <3> QED
      BY <3>2, <3>3, <3>4 DEF ControlInv, Stages
  <2> QED
    BY <2>1, <2>2
<1>2. ASSUME Idle, UNCHANGED <<hs, closed, started, hand>>,
             UNCHANGED app \/ \E o \in Calls : Goes(o, "signal")
      PROVE  ControlInv' /\ HsType' /\ AppType'
  <2>1. AppType' /\ app'.pc \in {"idle", "signal"}
    BY <1>2, <1>a DEF Idle, AppType
  <2> QED
    BY <1>2, <2>1, <1>0 DEF ControlInv, HsType, Idle
<1>3. ASSUME SetTransportParameters \/ NextEvent \/ Close \/ SendSessionTicket \/ DeclineEarlyData
             \/ \E n \in 1..MaxChunk : HandleData(n)
      PROVE  ControlInv' /\ HsType' /\ AppType'
  <2>1. Idle /\ UNCHANGED <<hs, closed, started, hand>>
    BY <1>3 DEF SetTransportParameters, NextEvent, Close, SendSessionTicket, DeclineEarlyData, HandleData, ctl, conn
  <2>2. UNCHANGED app \/ \E o \in Calls : Goes(o, "signal")
    BY <1>3 DEF SetTransportParameters, NextEvent, Close, SendSessionTicket, DeclineEarlyData, HandleData, Calls
  <2> QED
    BY <1>2, <2>1, <2>2
<1>4. ASSUME Cancel PROVE ControlInv' /\ HsType' /\ AppType'
  BY <1>4 DEF Cancel, ControlInv, HsType, AppType, conn
<1>5. ASSUME RecvSignal PROVE ControlInv' /\ HsType' /\ AppType'
  <2>1. app.pc = "signal" /\ UNCHANGED <<closed, started, hand>>
    BY <1>5 DEF RecvSignal, ctl, conn
  <2>2. AppType' /\ app'.pc \in {"blocked", "range"}
    BY <1>5 DEF RecvSignal, Goes, AppType
  <2>3. \/ hs.pc = "signal" /\ HsType' /\ hs'.pc = "woken" /\ hs'.back = hs.back
        \/ hs.pc = "exited" /\ hs' = hs
    BY <1>5, HsGotoFacts, ClosedByPlace DEF RecvSignal, HsAt, HsLabels, Stages
  <2> QED
    BY <2>1, <2>2, <2>3 DEF ControlInv, HsType, Stages
<1>6. ASSUME RecvBlocked \/ RangeBlocked PROVE ControlInv' /\ HsType' /\ AppType'
  <2>1. app.pc \in {"blocked", "range"} /\ UNCHANGED <<closed, started, hand>>
    BY <1>6 DEF RecvBlocked, RangeBlocked, ctl, conn
  <2>2. \/ hs.pc = "blocked" /\ HsType' /\ hs'.pc = "signal" /\ hs'.back = hs.back
        \/ hs.pc \in {"closeSignal", "exited"} /\ hs' = hs
    BY <1>6, HsGotoFacts, ClosedByPlace DEF RecvBlocked, RangeBlocked, HsAt, HsLabels
  <2>3. AppType' /\ (hs.pc = "blocked" => app'.pc \in {"idle", "range"})
    <3>1. (Goes("HandleData", "post") /\ "blockedc" \in closed) \/ Returns \/ (app' = app /\ app.pc = "range")
      <4>1. CASE RecvBlocked
        BY <4>1 DEF RecvBlocked
      <4>2. CASE RangeBlocked
        BY <4>2 DEF RangeBlocked
      <4> QED
        BY <1>6, <4>1, <4>2
    <3> QED
      BY <3>1, <1>a, <1>b, ClosedByPlace DEF AppType, Calls
  <2> QED
    BY <2>1, <2>2, <2>3 DEF ControlInv, HsType, Stages
<1>7. ASSUME PostHandshake PROVE ControlInv' /\ HsType' /\ AppType'
  <2>1. app.pc = "post" /\ hs.pc = "exited" /\ UNCHANGED <<hs, closed, started>> /\ (UNCHANGED app \/ Returns)
    BY <1>7 DEF PostHandshake, HsAt, ctl
  <2>2. AppType'
    BY <2>1, <1>b DEF AppType
  <2> QED
    BY <2>1, <2>2 DEF ControlInv, HsType, Stages
<1> QED
  BY <1>1, <1>3, <1>4, <1>5, <1>6, <1>7 DEF AppStep, AppCall

-----------------------------------------------------------------------------
(* The stream of events. *)

(* A stream: what was taken, d, and what is left of the queue behind n. *)
StreamOf(d, ev, n) == d \o SubSeq(ev, n + 1, Len(ev))

IsStream(t, S, d, ev, n) ==
    /\ t \in Seq(S) /\ Len(t) = Len(d) + Len(ev) - n
    /\ Len(d) \in Nat /\ Len(ev) \in Nat /\ n \in Nat
    /\ \A i \in 1..Len(d) : t[i] = d[i]
    /\ \A i \in Len(d)+1..Len(d)+Len(ev)-n : t[i] = ev[i - Len(d) + n]

LEMMA StreamOfFacts ==
  ASSUME NEW S, NEW d \in Seq(S), NEW ev \in Seq(S), NEW n \in 0..Len(ev)
  PROVE  IsStream(StreamOf(d, ev, n), S, d, ev, n)
<1> DEFINE p == SubSeq(ev, n+1, Len(ev))
<1>0. Len(d) \in Nat /\ Len(ev) \in Nat /\ n \in Nat
  BY LenProperties
<1>1. p \in Seq(S) /\ Len(p) = Len(ev) - n /\ \A i \in 1..Len(ev)-n : p[i] = ev[n+i]
  <2>1. n+1 \in 1..Len(ev)+1 /\ Len(ev) \in n..Len(ev)
    BY <1>0
  <2>2. \A i \in 1..Len(ev)-n : n + 1 + i - 1 = n + i
    BY <1>0
  <2> QED
    BY <1>0, <2>1, <2>2, SubSeqProperties
<1> HIDE DEF p
<1>2. /\ d \o p \in Seq(S) /\ Len(d \o p) = Len(d) + Len(p)
      /\ \A i \in 1..Len(d)+Len(p) : (d \o p)[i] = IF i <= Len(d) THEN d[i] ELSE p[i - Len(d)]
  BY <1>1, ConcatProperties
<1>3. StreamOf(d, ev, n) = d \o p
  BY DEF StreamOf, p
<1> DEFINE t == d \o p
<1> HIDE DEF t
<1>4. ASSUME NEW i \in 1..Len(d) PROVE t[i] = d[i]
  BY <1>0, <1>1, <1>2 DEF t
<1>5. ASSUME NEW i \in Len(d)+1..Len(d)+Len(ev)-n PROVE t[i] = ev[i - Len(d) + n]
  <2>1. i - Len(d) \in 1..Len(ev)-n /\ i \in 1..Len(d)+Len(p) /\ ~(i <= Len(d)) /\ n + (i - Len(d)) = i - Len(d) + n
    BY <1>0, <1>1
  <2>2. t[i] = p[i - Len(d)]
    BY <1>2, <2>1 DEF t
  <2> QED
    BY <1>1, <2>1, <2>2
<1>6. Len(t) = Len(d) + Len(ev) - n /\ t \in Seq(S)
  BY <1>0, <1>1, <1>2 DEF t
<1>7. IsStream(t, S, d, ev, n)
  BY <1>0, <1>4, <1>5, <1>6 DEF IsStream
<1> QED
  BY <1>3, <1>7 DEF t

(* Events that are emitted join the stream at its end. *)
LEMMA StreamEmits ==
  ASSUME NEW S, NEW d \in Seq(S), NEW ev \in Seq(S), NEW n \in 0..Len(ev), NEW es \in Seq(S)
  PROVE  /\ ev \o es \in Seq(S) /\ n \in 0..Len(ev \o es)
         /\ StreamOf(d, ev \o es, n) = StreamOf(d, ev, n) \o es
<1> DEFINE f == ev \o es
           s == StreamOf(d, ev, n)
           t == StreamOf(d, f, n)
           u == s \o es
<1>0. Len(es) \in Nat
  BY LenProperties
<1>1. /\ f \in Seq(S) /\ Len(f) = Len(ev) + Len(es)
      /\ \A i \in 1..Len(ev)+Len(es) : f[i] = IF i <= Len(ev) THEN ev[i] ELSE es[i - Len(ev)]
  BY ConcatProperties
<1>2. /\ s \in Seq(S) /\ Len(s) = Len(d) + Len(ev) - n /\ Len(d) \in Nat /\ Len(ev) \in Nat /\ n \in Nat
      /\ \A i \in 1..Len(d) : s[i] = d[i]
      /\ \A i \in Len(d)+1..Len(d)+Len(ev)-n : s[i] = ev[i - Len(d) + n]
  <2>1. IsStream(s, S, d, ev, n)
    BY StreamOfFacts
  <2> QED
    BY <2>1 DEF IsStream
<1> HIDE DEF f, s
<1>3. n \in 0..Len(f)
  BY <1>0, <1>1, <1>2
<1>4. /\ t \in Seq(S) /\ Len(t) = Len(d) + Len(f) - n
      /\ \A i \in 1..Len(d) : t[i] = d[i]
      /\ \A i \in Len(d)+1..Len(d)+Len(f)-n : t[i] = f[i - Len(d) + n]
  <2>1. IsStream(t, S, d, f, n)
    BY <1>1, <1>3, StreamOfFacts
  <2> QED
    BY <1>1, <1>3, <2>1 DEF IsStream
<1>5. /\ u \in Seq(S) /\ Len(u) = Len(s) + Len(es)
      /\ \A i \in 1..Len(s)+Len(es) : u[i] = IF i <= Len(s) THEN s[i] ELSE es[i - Len(s)]
  BY <1>2, ConcatProperties
<1> HIDE DEF t, u
<1>6. Len(t) = Len(u)
  BY <1>0, <1>1, <1>2, <1>4, <1>5
<1>7. ASSUME NEW i \in 1..Len(t) PROVE t[i] = u[i]
  <2>1. CASE i <= Len(d)
    <3>1. i \in 1..Len(d) /\ i <= Len(s) /\ i \in 1..Len(s)+Len(es)
      BY <1>0, <1>2, <1>5, <1>6, <2>1
    <3> QED
      BY <1>2, <1>4, <1>5, <3>1
  <2>2. CASE ~(i <= Len(d)) /\ i <= Len(s)
    <3>1. /\ i \in Len(d)+1..Len(d)+Len(f)-n /\ i \in Len(d)+1..Len(d)+Len(ev)-n /\ i \in 1..Len(s)+Len(es)
          /\ i - Len(d) + n <= Len(ev) /\ i - Len(d) + n \in 1..Len(ev)+Len(es)
      BY <1>0, <1>1, <1>2, <1>4, <2>2
    <3>2. t[i] = f[i - Len(d) + n] /\ f[i - Len(d) + n] = ev[i - Len(d) + n] /\ s[i] = ev[i - Len(d) + n] /\ u[i] = s[i]
      BY <1>1, <1>2, <1>4, <1>5, <2>2, <3>1
    <3> QED
      BY <3>2
  <2>3. CASE ~(i <= Len(s))
    <3>0. i \in Nat /\ i > Len(s) /\ i <= Len(s) + Len(es) /\ i >= 1
          /\ Len(f) = Len(ev) + Len(es) /\ Len(s) = Len(d) + Len(ev) - n /\ n <= Len(ev)
      BY <1>0, <1>1, <1>2, <1>5, <1>6, <2>3
    <3>1. /\ i \in Len(d)+1..Len(d)+Len(f)-n /\ i \in 1..Len(s)+Len(es)
          /\ ~(i - Len(d) + n <= Len(ev)) /\ i - Len(d) + n \in 1..Len(ev)+Len(es)
          /\ i - Len(d) + n - Len(ev) = i - Len(s)
      <4> HIDE DEF f, s
      <4>1. Len(d) \in Nat /\ Len(ev) \in Nat /\ n \in Nat /\ Len(es) \in Nat
        BY <1>0, <1>2
      <4> QED
        BY <3>0, <4>1
    <3> DEFINE j == i - Len(d) + n
    <3>2. t[i] = f[j]
      BY <1>4, <3>1
    <3>3. f[j] = es[j - Len(ev)]
      BY <1>1, <3>1
    <3>4. u[i] = es[i - Len(s)]
      BY <1>5, <2>3, <3>1
    <3> QED
      BY SMTT(30), <3>1, <3>2, <3>3, <3>4
  <2> QED
    BY <1>2, <2>1, <2>2, <2>3
<1>8. t = u
  BY <1>4, <1>5, <1>6, <1>7, SeqEqual
<1> QED
  BY <1>1, <1>3, <1>8 DEF f, s, t, u

(* A change to the last event that is left is one to the last of the stream. *)
LEMMA StreamMerges ==
  ASSUME NEW S, NEW d \in Seq(S), NEW ev \in Seq(S), NEW n \in 0..Len(ev), n < Len(ev), NEW x \in S
  PROVE  LET s == StreamOf(d, ev, n) IN
         /\ [ev EXCEPT ![Len(ev)] = x] \in Seq(S) /\ Len([ev EXCEPT ![Len(ev)] = x]) = Len(ev)
         /\ Len(s) > 0 /\ s[Len(s)] = ev[Len(ev)]
         /\ StreamOf(d, [ev EXCEPT ![Len(ev)] = x], n) = [s EXCEPT ![Len(s)] = x]
<1> DEFINE f == [ev EXCEPT ![Len(ev)] = x]
           s == StreamOf(d, ev, n)
           t == StreamOf(d, f, n)
           u == [s EXCEPT ![Len(s)] = x]
<1>2. /\ s \in Seq(S) /\ Len(s) = Len(d) + Len(ev) - n /\ Len(d) \in Nat /\ Len(ev) \in Nat /\ n \in Nat
      /\ \A i \in 1..Len(d) : s[i] = d[i]
      /\ \A i \in Len(d)+1..Len(d)+Len(ev)-n : s[i] = ev[i - Len(d) + n]
  <2>1. IsStream(s, S, d, ev, n)
    BY StreamOfFacts
  <2> QED
    BY <2>1 DEF IsStream
<1>1. f \in Seq(S) /\ Len(f) = Len(ev) /\ \A i \in 1..Len(ev) : f[i] = IF i = Len(ev) THEN x ELSE ev[i]
  BY <1>2, ExceptSeq
<1> HIDE DEF f, s
<1>3. /\ t \in Seq(S) /\ Len(t) = Len(d) + Len(ev) - n
      /\ \A i \in 1..Len(d) : t[i] = d[i]
      /\ \A i \in Len(d)+1..Len(d)+Len(ev)-n : t[i] = f[i - Len(d) + n]
  <2>1. IsStream(t, S, d, f, n)
    BY <1>1, StreamOfFacts
  <2> QED
    BY <1>1, <2>1 DEF IsStream
<1>4. Len(s) \in 1..Len(s) /\ Len(s) > 0 /\ Len(s) \in Len(d)+1..Len(d)+Len(ev)-n /\ Len(s) - Len(d) + n = Len(ev)
  BY <1>2
<1>5. u \in Seq(S) /\ Len(u) = Len(s) /\ \A i \in 1..Len(s) : u[i] = IF i = Len(s) THEN x ELSE s[i]
  BY <1>2, <1>4, ExceptSeq
<1> HIDE DEF t, u
<1>6. ASSUME NEW i \in 1..Len(t) PROVE t[i] = u[i]
  <2>0. i \in 1..Len(s)
    BY <1>2, <1>3
  <2>1. CASE i <= Len(d)
    <3>1. i \in 1..Len(d) /\ i # Len(s)
      BY <1>2, <1>4, <2>1
    <3> QED
      BY <1>2, <1>3, <1>5, <2>0, <3>1
  <2>2. CASE ~(i <= Len(d))
    <3>1. /\ i \in Len(d)+1..Len(d)+Len(ev)-n /\ i - Len(d) + n \in 1..Len(ev)
          /\ i = Len(s) <=> i - Len(d) + n = Len(ev)
      BY <1>2, <1>3, <2>0, <2>2
    <3>2. t[i] = f[i - Len(d) + n] /\ s[i] = ev[i - Len(d) + n]
      BY <1>2, <1>3, <3>1
    <3> QED
      BY <1>1, <1>5, <2>0, <3>1, <3>2
  <2> QED
    BY <2>1, <2>2
<1>7. t = u
  BY <1>2, <1>3, <1>5, <1>6, SeqEqual
<1>8. s[Len(s)] = ev[Len(ev)]
  BY <1>2, <1>4
<1> QED
  BY <1>1, <1>4, <1>7, <1>8 DEF f, s, t, u

(* An event that is taken stays in the stream. *)
LEMMA StreamTakes ==
  ASSUME NEW S, NEW d \in Seq(S), NEW ev \in Seq(S), NEW n \in 0..Len(ev), n < Len(ev), NEW x \in S
  PROVE  /\ [ev EXCEPT ![n+1] = x] \in Seq(S) /\ n+1 \in 0..Len([ev EXCEPT ![n+1] = x])
         /\ ev[n+1] \in S /\ Append(d, ev[n+1]) \in Seq(S) /\ Len(Append(d, ev[n+1])) = Len(d) + 1
         /\ ev[n+1] = StreamOf(d, ev, n)[Len(d)+1] /\ Len(StreamOf(d, ev, n)) > Len(d)
         /\ StreamOf(Append(d, ev[n+1]), [ev EXCEPT ![n+1] = x], n+1) = StreamOf(d, ev, n)
<1> DEFINE f == [ev EXCEPT ![n+1] = x]
           c == Append(d, ev[n+1])
           s == StreamOf(d, ev, n)
           t == StreamOf(c, f, n+1)
<1>1. /\ s \in Seq(S) /\ Len(s) = Len(d) + Len(ev) - n /\ Len(d) \in Nat /\ Len(ev) \in Nat /\ n \in Nat
      /\ \A i \in 1..Len(d) : s[i] = d[i]
      /\ \A i \in Len(d)+1..Len(d)+Len(ev)-n : s[i] = ev[i - Len(d) + n]
  <2>1. IsStream(s, S, d, ev, n)
    BY StreamOfFacts
  <2> QED
    BY <2>1 DEF IsStream
<1>2. n+1 \in 1..Len(ev) /\ ev[n+1] \in S
  <2>1. n+1 \in 1..Len(ev)
    BY <1>1
  <2> QED
    BY <2>1, ElementOfSeq
<1>3. f \in Seq(S) /\ Len(f) = Len(ev) /\ \A i \in 1..Len(ev) : f[i] = IF i = n+1 THEN x ELSE ev[i]
  BY <1>2, ExceptSeq
<1>4. /\ c \in Seq(S) /\ Len(c) = Len(d) + 1 /\ c[Len(d)+1] = ev[n+1]
      /\ \A i \in 1..Len(d) : c[i] = d[i]
  BY <1>2, AppendProperties
<1> HIDE DEF f, c, s
<1>5. n+1 \in 0..Len(f)
  BY <1>1, <1>2, <1>3
<1>6. /\ t \in Seq(S) /\ Len(t) = Len(c) + Len(f) - (n+1)
      /\ \A i \in 1..Len(c) : t[i] = c[i]
      /\ \A i \in Len(c)+1..Len(c)+Len(f)-(n+1) : t[i] = f[i - Len(c) + (n+1)]
  <2>1. IsStream(t, S, c, f, n+1)
    BY <1>3, <1>4, <1>5, StreamOfFacts
  <2> QED
    BY <1>3, <1>4, <1>5, <2>1 DEF IsStream
<1> HIDE DEF t
<1>7. Len(t) = Len(s)
  BY <1>1, <1>3, <1>4, <1>6
<1>8. s[Len(d)+1] = ev[n+1] /\ Len(s) > Len(d)
  <2> DEFINE j == Len(d)+1
  <2>1. j \in Len(d)+1..Len(d)+Len(ev)-n /\ j - Len(d) + n = n+1 /\ Len(s) > Len(d)
    BY <1>1
  <2> HIDE DEF j
  <2>2. s[j] = ev[j - Len(d) + n]
    BY <1>1, <2>1
  <2> QED
    BY <2>1, <2>2 DEF j
<1>9. ASSUME NEW i \in 1..Len(s) PROVE t[i] = s[i]
  <2>1. CASE i <= Len(d)
    <3>1. i \in 1..Len(d) /\ i \in 1..Len(c)
      BY <1>1, <1>4, <2>1
    <3> QED
      BY <1>1, <1>4, <1>6, <3>1
  <2>2. CASE i = Len(d)+1
    <3>1. i \in 1..Len(c)
      BY <1>1, <1>4, <2>2
    <3> QED
      BY <1>4, <1>6, <1>8, <2>2, <3>1
  <2>3. CASE i > Len(d)+1
    <3>1. /\ i \in Len(c)+1..Len(c)+Len(f)-(n+1) /\ i \in Len(d)+1..Len(d)+Len(ev)-n
          /\ i - Len(c) + (n+1) = i - Len(d) + n /\ i - Len(d) + n \in 1..Len(ev) /\ i - Len(d) + n # n+1
      BY <1>1, <1>3, <1>4, <2>3
    <3>2. t[i] = f[i - Len(d) + n] /\ f[i - Len(d) + n] = ev[i - Len(d) + n] /\ s[i] = ev[i - Len(d) + n]
      BY <1>1, <1>3, <1>6, <3>1
    <3> QED
      BY <3>2
  <2> QED
    BY <1>1, <2>1, <2>2, <2>3
<1>10. t = s
  BY <1>1, <1>6, <1>7, <1>9, SeqEqual
<1> QED
  BY <1>1, <1>2, <1>3, <1>4, <1>5, <1>8, <1>10 DEF f, c, s, t

(* With nothing left the stream is what was taken. *)
LEMMA StreamTaken ==
  ASSUME NEW S, NEW d \in Seq(S), NEW ev \in Seq(S)
  PROVE  StreamOf(d, ev, Len(ev)) = d /\ StreamOf(d, <<>>, 0) = d
<1>0. Len(d) \in Nat /\ Len(ev) \in Nat /\ Len(ev) \in 0..Len(ev)
  BY LenProperties
<1>1. ASSUME NEW e \in Seq(S) PROVE StreamOf(d, e, Len(e)) = d
  <2> DEFINE t == StreamOf(d, e, Len(e))
  <2>0. Len(e) \in Nat /\ Len(e) \in 0..Len(e)
    BY LenProperties
  <2>1. t \in Seq(S) /\ Len(t) = Len(d) + Len(e) - Len(e) /\ \A i \in 1..Len(d) : t[i] = d[i]
    <3>1. IsStream(t, S, d, e, Len(e))
      BY <2>0, StreamOfFacts
    <3> QED
      BY <2>0, <3>1 DEF IsStream
  <2> HIDE DEF t
  <2>2. t = d
    BY <1>0, <2>0, <2>1, SeqEqual
  <2> QED
    BY <2>2 DEF t
<1>2. <<>> \in Seq(S) /\ Len(<<>>) = 0
  OBVIOUS
<1> QED
  BY <1>1, <1>2
-----------------------------------------------------------------------------
(* The order of events. *)

Has(s, k, l)  == \E i \in DOMAIN s : s[i].kind = k /\ s[i].level = l
NoError(s)    == \A i \in DOMAIN s : s[i].kind # "Error"
Fine(s)       == s \in Seq(Events) /\ InOrder(s) /\ NoError(s)
SameShape(s, t) == Len(s) = Len(t) /\ \A i \in 1..Len(s) : s[i].kind = t[i].kind /\ s[i].level = t[i].level

(* What has to come before an event. *)
Allowed(s, e) ==
    /\ e.kind # "Error"
    /\ e.kind = "WriteData" /\ e.level # "Initial" => Has(s, "SetWriteSecret", e.level)
    /\ e.kind = "SetReadSecret" /\ e.level = "Application" => Has(s, "HandshakeDone", "Initial")
    /\ e.kind = "RejectedEarlyData" => Has(s, "SetWriteSecret", "Early") /\ ~Has(s, "SetWriteSecret", "Application")

LEMMA HasAppend ==
  ASSUME NEW S, NEW s \in Seq(S), NEW e \in S, NEW k, NEW l
  PROVE  Has(Append(s, e), k, l) <=> Has(s, k, l) \/ (e.kind = k /\ e.level = l)
<1> DEFINE t == Append(s, e)
<1>1. /\ t \in Seq(S) /\ Len(t) = Len(s) + 1 /\ t[Len(s)+1] = e /\ \A i \in 1..Len(s) : t[i] = s[i]
  BY AppendProperties
<1> HIDE DEF t
<1>2. Len(s) \in Nat /\ DOMAIN s = 1..Len(s) /\ DOMAIN t = 1..Len(s)+1
  BY <1>1, LenProperties
<1> QED
  BY <1>1, <1>2 DEF Has, t

LEMMA FineAppend ==
  ASSUME NEW s, Fine(s), NEW e \in Events, Allowed(s, e) PROVE Fine(Append(s, e))
<1> DEFINE t == Append(s, e)
<1>0. s \in Seq(Events) /\ InOrder(s) /\ NoError(s)
  BY DEF Fine
<1>1. /\ t \in Seq(Events) /\ Len(t) = Len(s) + 1 /\ t[Len(s)+1] = e /\ \A i \in 1..Len(s) : t[i] = s[i]
  BY <1>0, AppendProperties
<1> HIDE DEF t
<1>2. Len(s) \in Nat /\ DOMAIN s = 1..Len(s) /\ DOMAIN t = 1..Len(s)+1
  BY <1>0, <1>1, LenProperties
<1>3. ASSUME NEW k, NEW l, NEW i \in 1..Len(s) PROVE Precedes(t, k, l, i) <=> Precedes(s, k, l, i)
  <2>1. \A j \in 1..i-1 : t[j] = s[j]
    BY <1>1, <1>2
  <2> QED
    BY <2>1 DEF Precedes
<1>4. ASSUME NEW k, NEW l PROVE Precedes(t, k, l, Len(s)+1) <=> Has(s, k, l)
  <2>1. (Len(s)+1) - 1 = Len(s)
    BY <1>2
  <2> QED
    BY <1>1, <1>2, <2>1 DEF Precedes, Has
<1>5. NoError(t)
  BY <1>0, <1>1, <1>2 DEF NoError, Allowed
<1>6. InOrder(t)
  <2> SUFFICES ASSUME NEW i \in 1..Len(s)+1
               PROVE  LET k == t[i].kind
                          l == t[i].level
                      IN  /\ k = "WriteData" /\ l # "Initial" => Precedes(t, "SetWriteSecret", l, i)
                          /\ k = "SetReadSecret" /\ l = "Application" => Precedes(t, "HandshakeDone", "Initial", i)
                          /\ k = "RejectedEarlyData" => /\ Precedes(t, "SetWriteSecret", "Early", i)
                                                        /\ ~Precedes(t, "SetWriteSecret", "Application", i)
                          /\ ~Precedes(t, "Error", "Initial", i)
    BY <1>2 DEF InOrder
  <2>1. CASE i \in 1..Len(s)
    BY <1>0, <1>1, <1>2, <1>3, <2>1 DEF InOrder
  <2>2. CASE i = Len(s)+1
    <3>1. ~Has(s, "Error", "Initial")
      BY <1>0 DEF NoError, Has
    <3> QED
      BY <1>1, <1>4, <2>2, <3>1 DEF Allowed
  <2> QED
    BY <1>2, <2>1, <2>2
<1> QED
  BY <1>1, <1>5, <1>6 DEF Fine, t

LEMMA FineShape ==
  ASSUME NEW s, Fine(s), NEW t \in Seq(Events), SameShape(s, t)
  PROVE  Fine(t) /\ \A k, l : Has(t, k, l) <=> Has(s, k, l)
<1>0. Len(s) \in Nat /\ DOMAIN s = 1..Len(s) /\ DOMAIN t = 1..Len(s)
  BY LenProperties DEF Fine, SameShape
<1>1. \A k, l : Has(t, k, l) <=> Has(s, k, l)
  BY <1>0 DEF Has, SameShape
<1>2. ASSUME NEW k, NEW l, NEW i \in 1..Len(s) PROVE Precedes(t, k, l, i) <=> Precedes(s, k, l, i)
  <2>1. \A j \in 1..i-1 : j \in 1..Len(s)
    BY <1>0
  <2> QED
    BY <2>1 DEF Precedes, SameShape
<1>3. \A i \in 1..Len(s) : s[i].kind = t[i].kind /\ s[i].level = t[i].level
  BY DEF SameShape
<1>4. NoError(t)
  BY <1>0, <1>3 DEF Fine, NoError
<1>5. InOrder(t)
  <2> SUFFICES ASSUME NEW i \in 1..Len(s)
               PROVE  LET k == t[i].kind
                          l == t[i].level
                      IN  /\ k = "WriteData" /\ l # "Initial" => Precedes(t, "SetWriteSecret", l, i)
                          /\ k = "SetReadSecret" /\ l = "Application" => Precedes(t, "HandshakeDone", "Initial", i)
                          /\ k = "RejectedEarlyData" => /\ Precedes(t, "SetWriteSecret", "Early", i)
                                                        /\ ~Precedes(t, "SetWriteSecret", "Application", i)
                          /\ ~Precedes(t, "Error", "Initial", i)
    BY <1>0 DEF InOrder
  <2> QED
    BY <1>0, <1>2, <1>3 DEF Fine, InOrder
<1> QED
  BY <1>1, <1>4, <1>5 DEF Fine

(* What was taken of a stream that is in order is in order, and stays so with  *)
(* an error at its end.                                                        *)
LEMMA FineTaken ==
  ASSUME NEW d \in Seq(Events), NEW ev \in Seq(Events), NEW n \in 0..Len(ev), Fine(StreamOf(d, ev, n))
  PROVE  InOrder(d) /\ InOrder(Append(d, Plain("Error")))
<1> DEFINE s == StreamOf(d, ev, n)
           t == Append(d, Plain("Error"))
<1>1. IsStream(s, Events, d, ev, n)
  BY StreamOfFacts
<1> HIDE DEF s
<1>2. /\ s \in Seq(Events) /\ Len(d) \in Nat /\ Len(d) <= Len(s) /\ Len(s) \in Nat
      /\ \A i \in 1..Len(d) : s[i] = d[i]
  BY <1>1, LenProperties DEF IsStream
<1>3. Plain("Error") \in Events /\ Plain("Error").kind = "Error"
  BY EmptySeq DEF Plain, Event, Events, Kinds, Levels
<1>4. /\ t \in Seq(Events) /\ Len(t) = Len(d) + 1 /\ t[Len(d)+1].kind = "Error" /\ \A i \in 1..Len(d) : t[i] = s[i]
  BY <1>2, <1>3, AppendProperties
<1> HIDE DEF t
<1>5. DOMAIN d = 1..Len(d) /\ DOMAIN t = 1..Len(d)+1 /\ DOMAIN s = 1..Len(s) /\ \A i \in 1..Len(d) : i \in DOMAIN s
  BY <1>2, <1>4, LenProperties
<1>6. Fine(s)
  BY DEF s
<1>7. ASSUME NEW u, \A i \in 1..Len(d) : u[i] = s[i], NEW k, NEW l, NEW i \in 1..Len(d)
      PROVE  Precedes(u, k, l, i) <=> Precedes(s, k, l, i)
  <2>1. \A j \in 1..i-1 : u[j] = s[j]
    BY <1>2, <1>7
  <2> QED
    BY <2>1 DEF Precedes
<1>8. ASSUME NEW u, \A i \in 1..Len(d) : u[i] = s[i], NEW i \in 1..Len(d)
      PROVE  LET k == u[i].kind
                 l == u[i].level
             IN  /\ k = "WriteData" /\ l # "Initial" => Precedes(u, "SetWriteSecret", l, i)
                 /\ k = "SetReadSecret" /\ l = "Application" => Precedes(u, "HandshakeDone", "Initial", i)
                 /\ k = "RejectedEarlyData" => /\ Precedes(u, "SetWriteSecret", "Early", i)
                                               /\ ~Precedes(u, "SetWriteSecret", "Application", i)
                 /\ ~Precedes(u, "Error", "Initial", i)
  BY <1>5, <1>6, <1>7, <1>8 DEF Fine, InOrder
<1>9. InOrder(d)
  BY <1>2, <1>5, <1>8 DEF InOrder
<1>10. ~Precedes(t, "Error", "Initial", Len(d)+1)
  <2>1. \A j \in 1..(Len(d)+1)-1 : j \in 1..Len(d)
    BY <1>2
  <2> QED
    BY <1>4, <1>5, <1>6, <2>1 DEF Precedes, Fine, NoError
<1>11. \A i \in 1..Len(d)+1 : i \in 1..Len(d) \/ i = Len(d)+1
  BY <1>2
<1>12. InOrder(t)
  BY <1>4, <1>5, <1>8, <1>10, <1>11 DEF InOrder
<1> QED
  BY <1>9, <1>12 DEF t

-----------------------------------------------------------------------------
(* What the queue's operations do to the stream. *)

QInv(ev, n, w, d) ==
    /\ ev \in Seq(Events) /\ n \in 0..Len(ev) /\ w \in Nat /\ d \in Seq(Events)
    /\ \A i \in 1..n : ev[i].kind = "NoEvent"

(* m is s with a message written at level l. *)
Grows(s, l, m) ==
    /\ m \in Seq(Events)
    /\ \/ \E e \in Events : e.kind = "WriteData" /\ e.level = l /\ m = Append(s, e)
       \/ SameShape(s, m)

(* ... which is the w-th. *)
Carries(s, w, m) ==
    \/ \E e \in Events : e.kind = "WriteData" /\ e.data = <<w>> /\ m = Append(s, e)
    \/ /\ Len(s) > 0 /\ s[Len(s)].kind = "WriteData"
       /\ \E x \in Events : x.kind = "WriteData" /\ x.data = Append(s[Len(s)].data, w) /\ m = [s EXCEPT ![Len(s)] = x]

LEMMA QEmits ==
  ASSUME NEW ev, NEW n, NEW w, NEW d, QInv(ev, n, w, d), NEW es \in Seq(Events)
  PROVE  QInv(ev \o es, n, w, d) /\ StreamOf(d, ev \o es, n) = StreamOf(d, ev, n) \o es
<1>1. /\ ev \in Seq(Events) /\ n \in 0..Len(ev) /\ w \in Nat /\ d \in Seq(Events) /\ n \in Nat
      /\ Len(ev) \in Nat /\ Len(es) \in Nat /\ \A i \in 1..n : ev[i].kind = "NoEvent"
  BY LenProperties DEF QInv
<1>0. ev \o es \in Seq(Events) /\ n \in 0..Len(ev \o es) /\ StreamOf(d, ev \o es, n) = StreamOf(d, ev, n) \o es
  <2>1. n \in 0..Len(ev) /\ ev \in Seq(Events) /\ d \in Seq(Events) /\ es \in Seq(Events)
    BY <1>1
  <2> QED
    BY <2>1, StreamEmits, SMTT(30)
<1> DEFINE f == ev \o es
<1>2. f \in Seq(Events) /\ n \in 0..Len(f) /\ StreamOf(d, f, n) = StreamOf(d, ev, n) \o es
  BY <1>0
<1>3. Len(f) = Len(ev) + Len(es) /\ \A i \in 1..Len(ev)+Len(es) : f[i] = IF i <= Len(ev) THEN ev[i] ELSE es[i - Len(ev)]
  BY <1>1, ConcatProperties
<1> HIDE DEF f
<1>4. ASSUME NEW i \in 1..n PROVE f[i].kind = "NoEvent"
  <2>1. i \in 1..Len(ev)+Len(es) /\ i <= Len(ev)
    BY <1>1
  <2> QED
    BY <1>1, <1>3, <2>1
<1>5. QInv(f, n, w, d)
  BY <1>1, <1>2, <1>4 DEF QInv
<1> QED
  BY <1>2, <1>5 DEF f

(* The merge of quicWriteCryptoData never touches an event that was taken. *)
LEMMA QCrypto ==
  ASSUME NEW ev, NEW n, NEW w, NEW d, QInv(ev, n, w, d), NEW l \in Levels
  PROVE  /\ QInv(WithCrypto(ev, l, w + 1), n, w + 1, d)
         /\ Grows(StreamOf(d, ev, n), l, StreamOf(d, WithCrypto(ev, l, w + 1), n))
         /\ Carries(StreamOf(d, ev, n), w + 1, StreamOf(d, WithCrypto(ev, l, w + 1), n))
<1>1. /\ ev \in Seq(Events) /\ n \in 0..Len(ev) /\ w \in Nat /\ d \in Seq(Events) /\ n \in Nat /\ w + 1 \in Nat
      /\ Len(ev) \in Nat /\ \A i \in 1..n : ev[i].kind = "NoEvent"
  BY LenProperties DEF QInv
<1> DEFINE f == WithCrypto(ev, l, w + 1)
           s == StreamOf(d, ev, n)
<1>0. s \in Seq(Events)
  BY <1>1, StreamOfFacts DEF IsStream
<1>2. CASE ev # <<>> /\ Last(ev).kind = "WriteData" /\ Last(ev).level = l
  <2> DEFINE x == [ev[Len(ev)] EXCEPT !.data = Append(@, w + 1)]
  <2>1. Len(ev) \in 1..Len(ev) /\ ev[Len(ev)] \in Events /\ ev[Len(ev)].kind = "WriteData"
    <3>1. Len(ev) # 0
      BY <1>1, <1>2, EmptySeq
    <3>2. Len(ev) \in 1..Len(ev)
      BY <1>1, <3>1
    <3>3. ev[Len(ev)] \in Events
      BY <1>1, <3>2, ElementOfSeq
    <3> QED
      BY <1>2, <3>2, <3>3 DEF Last
  <2>2. /\ x \in Events /\ x.kind = ev[Len(ev)].kind /\ x.level = ev[Len(ev)].level
        /\ x.data = Append(ev[Len(ev)].data, w + 1)
    <3> DEFINE e == ev[Len(ev)]
    <3>1. e \in [kind : Kinds, level : Levels, data : Seq(Nat)]
      BY <2>1 DEF Events
    <3> HIDE DEF e
    <3>2. Append(e.data, w + 1) \in Seq(Nat)
      BY <1>1, <3>1, AppendProperties
    <3>3. [e EXCEPT !.data = Append(@, w + 1)] \in Events
      BY <3>1, <3>2 DEF Events
    <3>4. /\ [e EXCEPT !.data = Append(@, w + 1)].kind = e.kind
          /\ [e EXCEPT !.data = Append(@, w + 1)].level = e.level
          /\ [e EXCEPT !.data = Append(@, w + 1)].data = Append(e.data, w + 1)
      BY <3>1
    <3> QED
      BY <3>3, <3>4 DEF e
  <2>3. f = [ev EXCEPT ![Len(ev)] = x]
    BY <1>2 DEF WithCrypto
  <2>4. n < Len(ev)
    <3>1. n # Len(ev)
      <4> SUFFICES ASSUME n = Len(ev) PROVE FALSE
        OBVIOUS
      <4>1. ev[Len(ev)].kind = "NoEvent"
        BY <1>1, <2>1
      <4> QED
        BY <2>1, <4>1
    <3> QED
      BY <1>1, <3>1
  <2> HIDE DEF x
  <2>5. /\ f \in Seq(Events) /\ Len(f) = Len(ev) /\ Len(s) > 0 /\ s[Len(s)] = ev[Len(ev)]
        /\ StreamOf(d, f, n) = [s EXCEPT ![Len(s)] = x]
    <3> DEFINE g == [ev EXCEPT ![Len(ev)] = x]
    <3>1. /\ g \in Seq(Events) /\ Len(g) = Len(ev) /\ Len(s) > 0 /\ s[Len(s)] = ev[Len(ev)]
          /\ StreamOf(d, g, n) = [s EXCEPT ![Len(s)] = x]
      BY <1>1, <2>2, <2>4, StreamMerges, SMTT(30)
    <3> HIDE DEF f, s
    <3> QED
      BY <2>3, <3>1
  <2>6. \A i \in 1..Len(ev) : f[i] = IF i = Len(ev) THEN x ELSE ev[i]
    BY <1>1, <2>1, <2>2, <2>3, ExceptSeq
  <2> HIDE DEF f, s
  <2>7. QInv(f, n, w + 1, d)
    <3>1. ASSUME NEW i \in 1..n PROVE f[i].kind = "NoEvent"
      <4>1. i \in 1..Len(ev) /\ i # Len(ev)
        BY SMTT(30), <1>1, <2>4
      <4> QED
        BY <1>1, <2>6, <4>1
    <3> QED
      BY <1>1, <2>5, <3>1 DEF QInv
  <2>8. Grows(s, l, StreamOf(d, f, n))
    <3> DEFINE t == [s EXCEPT ![Len(s)] = x]
    <3>1. Len(s) \in Nat /\ Len(s) \in 1..Len(s)
      BY <1>0, <2>5, LenProperties
    <3>2. t \in Seq(Events) /\ Len(t) = Len(s) /\ \A i \in 1..Len(s) : t[i] = IF i = Len(s) THEN x ELSE s[i]
      BY <1>0, <2>2, <3>1, ExceptSeq
    <3> HIDE DEF t
    <3>3. SameShape(s, t)
      BY <2>2, <2>5, <3>2 DEF SameShape
    <3> QED
      BY <2>5, <3>2, <3>3 DEF Grows, t
  <2>9. Carries(s, w + 1, StreamOf(d, f, n))
    BY <2>1, <2>2, <2>5 DEF Carries
  <2> QED
    BY <2>7, <2>8, <2>9 DEF f, s
<1>3. CASE ~(ev # <<>> /\ Last(ev).kind = "WriteData" /\ Last(ev).level = l)
  <2> DEFINE e == [kind |-> "WriteData", level |-> l, data |-> <<w + 1>>]
  <2>1. f = Append(ev, e)
    BY <1>3 DEF WithCrypto
  <2>2. e \in Events /\ e.kind = "WriteData" /\ e.level = l /\ e.data = <<w + 1>>
    <3>1. <<w + 1>> \in Seq(Nat)
      BY <1>1
    <3> QED
      BY <3>1 DEF Events, Kinds
  <2> HIDE DEF e, f, s
  <2>3. <<e>> \in Seq(Events) /\ Append(ev, e) = ev \o <<e>> /\ Append(s, e) = s \o <<e>> /\ Append(s, e) \in Seq(Events)
    BY <1>0, <1>1, <2>2, AppendIsConcat, AppendProperties
  <2>4. QInv(f, n, w, d) /\ StreamOf(d, f, n) = Append(s, e)
    <3> DEFINE es == <<e>>
    <3>0. es \in Seq(Events) /\ f = ev \o es /\ Append(s, e) = s \o es
      BY <2>1, <2>3
    <3> HIDE DEF es
    <3>1. QInv(ev \o es, n, w, d) /\ StreamOf(d, ev \o es, n) = s \o es
      BY <3>0, QEmits DEF s
    <3> QED
      BY <3>0, <3>1
  <2>5. QInv(f, n, w + 1, d)
    BY <1>1, <2>4 DEF QInv
  <2>6. Grows(s, l, StreamOf(d, f, n))
    BY <2>2, <2>3, <2>4 DEF Grows
  <2>7. Carries(s, w + 1, StreamOf(d, f, n))
    BY <2>2, <2>4 DEF Carries
  <2> QED
    BY <2>5, <2>6, <2>7 DEF f, s
<1> QED
  BY <1>2, <1>3

(* What a stream of events is known by: its secrets, whether it holds 0-RTT    *)
(* secrets, and whether the session is still to be taken behind n events.      *)
Pend(s, n) == \E i \in n+1..Len(s) : s[i].kind = "ResumeSession"

LEMMA AppendKnown ==
  ASSUME NEW s \in Seq(Events), NEW e \in Events, NEW n \in 0..Len(s)
  PROVE  LET t == Append(s, e) IN
         /\ t \in Seq(Events) /\ n \in 0..Len(t)
         /\ \A k, l : Has(t, k, l) <=> Has(s, k, l) \/ (e.kind = k /\ e.level = l)
         /\ NoEarly(t) <=> NoEarly(s) /\ e.level # "Early"
         /\ Pend(t, n) <=> Pend(s, n) \/ e.kind = "ResumeSession"
         /\ Fine(s) /\ Allowed(s, e) => Fine(t)
<1> DEFINE t == Append(s, e)
<1>1. /\ t \in Seq(Events) /\ Len(t) = Len(s) + 1 /\ t[Len(s)+1] = e /\ \A i \in 1..Len(s) : t[i] = s[i]
  BY AppendProperties
<1>2. \A k, l : Has(t, k, l) <=> Has(s, k, l) \/ (e.kind = k /\ e.level = l)
  BY HasAppend
<1>3. Fine(s) /\ Allowed(s, e) => Fine(t)
  BY FineAppend
<1> HIDE DEF t
<1>4. Len(s) \in Nat /\ DOMAIN s = 1..Len(s) /\ DOMAIN t = 1..Len(s)+1 /\ n \in 0..Len(t) /\ n \in Nat
  BY <1>1, LenProperties
<1>5. NoEarly(t) <=> NoEarly(s) /\ e.level # "Early"
  BY <1>1, <1>4 DEF NoEarly
<1>6. Pend(t, n) <=> Pend(s, n) \/ e.kind = "ResumeSession"
  <2>1. ASSUME Pend(t, n) PROVE Pend(s, n) \/ e.kind = "ResumeSession"
    BY <1>1, <1>4, <2>1 DEF Pend
  <2>2. ASSUME Pend(s, n) PROVE Pend(t, n)
    BY <1>1, <1>4, <2>2 DEF Pend
  <2>3. ASSUME e.kind = "ResumeSession" PROVE Pend(t, n)
    <3>1. Len(s)+1 \in n+1..Len(t)
      BY <1>1, <1>4
    <3> QED
      BY <1>1, <2>3, <3>1 DEF Pend
  <2> QED
    BY <2>1, <2>2, <2>3
<1> QED
  BY <1>1, <1>2, <1>3, <1>4, <1>5, <1>6 DEF t

LEMMA GrowKnown ==
  ASSUME NEW s \in Seq(Events), NEW l \in Levels \ {"Early"}, NEW m, Grows(s, l, m), NEW n \in 0..Len(s)
  PROVE  /\ m \in Seq(Events) /\ n \in 0..Len(m)
         /\ \A k, v : k # "WriteData" => (Has(m, k, v) <=> Has(s, k, v))
         /\ NoEarly(m) <=> NoEarly(s)
         /\ Pend(m, n) <=> Pend(s, n)
         /\ Fine(s) /\ (l # "Initial" => Has(s, "SetWriteSecret", l)) => Fine(m)
<1>0. m \in Seq(Events)
  BY DEF Grows
<1>1. ASSUME NEW e \in Events, e.kind = "WriteData", e.level = l, m = Append(s, e)
      PROVE  /\ n \in 0..Len(m)
             /\ \A k, v : k # "WriteData" => (Has(m, k, v) <=> Has(s, k, v))
             /\ NoEarly(m) <=> NoEarly(s)
             /\ Pend(m, n) <=> Pend(s, n)
             /\ Fine(s) /\ (l # "Initial" => Has(s, "SetWriteSecret", l)) => Fine(m)
  <2>1. (l # "Initial" => Has(s, "SetWriteSecret", l)) => Allowed(s, e)
    BY <1>1 DEF Allowed
  <2>2. /\ n \in 0..Len(m)
        /\ \A k, v : Has(m, k, v) <=> Has(s, k, v) \/ (e.kind = k /\ e.level = v)
        /\ NoEarly(m) <=> NoEarly(s) /\ e.level # "Early"
        /\ Pend(m, n) <=> Pend(s, n) \/ e.kind = "ResumeSession"
        /\ Fine(s) /\ Allowed(s, e) => Fine(m)
    BY <1>1, AppendKnown
  <2> QED
    BY <1>1, <2>1, <2>2
<1>2. ASSUME SameShape(s, m)
      PROVE  /\ n \in 0..Len(m)
             /\ \A k, v : k # "WriteData" => (Has(m, k, v) <=> Has(s, k, v))
             /\ NoEarly(m) <=> NoEarly(s)
             /\ Pend(m, n) <=> Pend(s, n)
             /\ Fine(s) /\ (l # "Initial" => Has(s, "SetWriteSecret", l)) => Fine(m)
  <2>0. Len(s) \in Nat /\ Len(m) = Len(s) /\ DOMAIN s = 1..Len(s) /\ DOMAIN m = 1..Len(s) /\ n \in Nat
    BY <1>0, <1>2, LenProperties DEF SameShape
  <2>1. \A i \in 1..Len(s) : s[i].kind = m[i].kind /\ s[i].level = m[i].level
    BY <1>2 DEF SameShape
  <2>2. \A k, v : Has(m, k, v) <=> Has(s, k, v)
    BY <2>0, <2>1 DEF Has
  <2>3. NoEarly(m) <=> NoEarly(s)
    BY <2>0, <2>1 DEF NoEarly
  <2>4. Pend(m, n) <=> Pend(s, n)
    <3>1. \A i \in n+1..Len(s) : i \in 1..Len(s)
      BY <2>0
    <3> QED
      BY <2>0, <2>1, <3>1 DEF Pend
  <2>5. Fine(s) => Fine(m)
    BY <1>0, <1>2, FineShape
  <2> QED
    BY <2>0, <2>2, <2>3, <2>4, <2>5
<1> QED
  BY <1>0, <1>1, <1>2 DEF Grows

-----------------------------------------------------------------------------
(* The invariants, over what a stream is known by. *)

Undec(g, cl) == \/ g \in {"none", "resume", "drainWait"}
                \/ cl /\ g \in {"params", "paramsWait"}
                \/ ~cl /\ g \in {"readHello", "readRetryHello"}

(* Stage g, write level out, role cl, stream s of which n events were taken,   *)
(* 0-RTT offered ea, the session's state se, canceled ca, waitingForDrain wd.  *)
DInv(g, out, cl, s, n, ea, se, ca, wd) ==
    /\ out \in Levels \ {"Early"}
    /\ g = "clientHello" => cl
    /\ g \in {"serverHello", "readRetryHello"} => ~cl
    /\ Undec(g, cl) => ~ea /\ NoEarly(s)
    /\ ~ca => /\ se = "declined" => ~ea /\ NoEarly(s)
              /\ (se = "offered" \/ Pend(s, n)) => g = "drainWait" /\ wd

(* ... the events taken d, handshakeErr he, errorReturned er. *)
SInv(g, out, s, d, ea, he, er) ==
    /\ out = "Application" => g \in Sealed
    /\ er => he
    /\ er => InOrder(d)
    /\ ~er => /\ Fine(s)
              /\ out # "Initial" => Has(s, "SetWriteSecret", out)
              /\ Has(s, "SetWriteSecret", "Application") => out = "Application"
              /\ (ea /\ g \in {"readHello", "ee"}) => Has(s, "SetWriteSecret", "Early")

QNow == QInv(events, nextEvent, written, delivered)
DNow == DInv(Stage, outLevel, cfg.isClient, Stream, Len(delivered), early, session, canceled, waitingForDrain)
SNow == SInv(Stage, outLevel, Stream, delivered, early, handshakeErr, errorReturned)
EventInv == QNow /\ DNow /\ SNow

(* What the steps of the handshake leave alone. *)
KeepsRest == /\ UNCHANGED <<cfg, canceled, session, delivered, errorReturned, nextEvent>>
         /\ (handshakeErr => handshakeErr')

LEMMA StreamIs ==
  ASSUME QNow
  PROVE  /\ Stream = StreamOf(delivered, events, nextEvent)
         /\ Stream \in Seq(Events) /\ Len(delivered) \in 0..Len(Stream) /\ delivered \in Seq(Events)
<1>1. delivered \in Seq(Events) /\ events \in Seq(Events) /\ nextEvent \in 0..Len(events)
  BY DEF QNow, QInv
<1>2. IsStream(StreamOf(delivered, events, nextEvent), Events, delivered, events, nextEvent)
  BY <1>1, StreamOfFacts
<1> DEFINE s == StreamOf(delivered, events, nextEvent)
<1>3. Stream = s
  BY DEF Stream, StreamOf
<1> HIDE DEF s
<1>4. s \in Seq(Events) /\ Len(s) = Len(delivered) + Len(events) - nextEvent /\ Len(delivered) \in Nat /\ Len(events) \in Nat
  BY <1>2 DEF IsStream, s
<1> QED
  BY <1>1, <1>3, <1>4 DEF s

LEMMA PlainEvents ==
  /\ \A k \in Kinds : Plain(k) \in Events /\ Plain(k).kind = k /\ Plain(k).level = "Initial"
  /\ \A k \in Kinds, l \in Levels : Event(k, l) \in Events /\ Event(k, l).kind = k /\ Event(k, l).level = l
BY EmptySeq DEF Plain, Event, Events, Levels

LEMMA EmitsFacts ==
  ASSUME QNow, NEW es \in Seq(Events), Emits(es)
  PROVE  QNow' /\ Stream' = Stream \o es
<1>1. QInv(events \o es, nextEvent, written, delivered)
      /\ StreamOf(delivered, events \o es, nextEvent) = StreamOf(delivered, events, nextEvent) \o es
  BY QEmits DEF QNow
<1>2. events' = events \o es /\ nextEvent' = nextEvent /\ written' = written /\ delivered' = delivered
  BY DEF Emits
<1>3. QNow'
  BY <1>1, <1>2 DEF QNow
<1>4. Stream' = StreamOf(delivered', events', nextEvent')
  BY DEF Stream, StreamOf
<1> QED
  BY <1>1, <1>2, <1>3, <1>4, StreamIs

LEMMA EmitsOne ==
  ASSUME QNow, NEW e \in Events, Emits(<<e>>)
  PROVE  QNow' /\ Stream' = Append(Stream, e)
<1> DEFINE es == <<e>>
<1>1. es \in Seq(Events) /\ Emits(es) /\ Append(Stream, e) = Stream \o es
  BY StreamIs, AppendIsConcat
<1> HIDE DEF es
<1> QED
  BY <1>1, EmitsFacts

LEMMA ConcatTwo ==
  ASSUME NEW S, NEW s \in Seq(S), NEW e \in S, NEW f \in S
  PROVE  s \o <<e, f>> = Append(Append(s, e), f) /\ <<e, f>> \in Seq(S)
OBVIOUS

LEMMA ConcatNone ==
  ASSUME NEW S, NEW s \in Seq(S)
  PROVE  s \o <<>> = s /\ <<>> \in Seq(S)
BY ConcatEmptySeq, EmptySeq

LEMMA EmitsTwo ==
  ASSUME QNow, NEW e \in Events, NEW f \in Events, Emits(<<e, f>>)
  PROVE  QNow' /\ Stream' = Append(Append(Stream, e), f)
<1> DEFINE es == <<e, f>>
<1>1. es \in Seq(Events) /\ Emits(es) /\ Append(Append(Stream, e), f) = Stream \o es
  BY StreamIs, ConcatTwo
<1> HIDE DEF es
<1> QED
  BY <1>1, EmitsFacts

AreEvents(es) == es \in Seq(Events)
Cat(s, t)     == s \o t

LEMMA CatFacts ==
  /\ AreEvents(<<>>) /\ \A e \in Events : AreEvents(<<e>>)
  /\ \A e, f \in Events : AreEvents(<<e, f>>)
  /\ \A s \in Seq(Events) : Cat(s, <<>>) = s
  /\ \A s \in Seq(Events), e \in Events : Cat(s, <<e>>) = Append(s, e)
  /\ \A s \in Seq(Events), e, f \in Events : Cat(s, <<e, f>>) = Append(Append(s, e), f)
<1>1. /\ AreEvents(<<>>) /\ \A e \in Events : AreEvents(<<e>>)
      /\ \A e, f \in Events : AreEvents(<<e, f>>)
  BY EmptySeq DEF AreEvents
<1>2. \A s \in Seq(Events) : Cat(s, <<>>) = s
  BY ConcatNone DEF Cat
<1>3. \A s \in Seq(Events), e \in Events : Cat(s, <<e>>) = Append(s, e)
  BY AppendIsConcat DEF Cat
<1>4. \A s \in Seq(Events), e, f \in Events : Cat(s, <<e, f>>) = Append(Append(s, e), f)
  BY ConcatTwo DEF Cat
<1> QED
  BY <1>1, <1>2, <1>3, <1>4

LEMMA QCat ==
  ASSUME NEW ev, NEW n, NEW w, NEW d, QInv(ev, n, w, d), NEW es, AreEvents(es)
  PROVE  QInv(Cat(ev, es), n, w, d) /\ StreamOf(d, Cat(ev, es), n) = Cat(StreamOf(d, ev, n), es)
BY QEmits DEF AreEvents, Cat

LEMMA QWrites ==
  ASSUME NEW ev, NEW n, NEW w, NEW d, QInv(ev, n, w, d), NEW l \in Levels,
         NEW pre, AreEvents(pre), NEW post, AreEvents(post)
  PROVE  LET f == WithCrypto(Cat(ev, pre), l, w + 1) IN
         /\ QInv(Cat(f, post), n, w + 1, d)
         /\ Grows(Cat(StreamOf(d, ev, n), pre), l, StreamOf(d, f, n))
         /\ Carries(Cat(StreamOf(d, ev, n), pre), w + 1, StreamOf(d, f, n))
         /\ StreamOf(d, Cat(f, post), n) = Cat(StreamOf(d, f, n), post)
<1> DEFINE e == Cat(ev, pre)
           f == WithCrypto(e, l, w + 1)
           v == w + 1
<1>1. QInv(e, n, w, d) /\ StreamOf(d, e, n) = Cat(StreamOf(d, ev, n), pre)
  BY QCat
<1> HIDE DEF e
<1>2. /\ QInv(f, n, v, d) /\ Grows(StreamOf(d, e, n), l, StreamOf(d, f, n))
      /\ Carries(StreamOf(d, e, n), v, StreamOf(d, f, n))
  BY <1>1, QCrypto
<1> HIDE DEF f, v
<1>3. QInv(Cat(f, post), n, v, d) /\ StreamOf(d, Cat(f, post), n) = Cat(StreamOf(d, f, n), post)
  BY <1>2, QCat
<1>4. /\ Grows(Cat(StreamOf(d, ev, n), pre), l, StreamOf(d, f, n))
      /\ Carries(Cat(StreamOf(d, ev, n), pre), v, StreamOf(d, f, n))
  BY <1>1, <1>2
<1> QED
  BY <1>3, <1>4 DEF e, f, v

LEMMA WritesFacts ==
  ASSUME QNow, NEW pre, AreEvents(pre), NEW l \in Levels, NEW post, AreEvents(post), Writes(pre, l, post)
  PROVE  QNow' /\ \E m : /\ Grows(Cat(Stream, pre), l, m) /\ Stream' = Cat(m, post)
                      /\ Carries(Cat(Stream, pre), written + 1, m)
<1> DEFINE f == WithCrypto(Cat(events, pre), l, written + 1)
           m == StreamOf(delivered, f, nextEvent)
<1>1. /\ QInv(Cat(f, post), nextEvent, written + 1, delivered)
      /\ Grows(Cat(StreamOf(delivered, events, nextEvent), pre), l, m)
      /\ Carries(Cat(StreamOf(delivered, events, nextEvent), pre), written + 1, m)
      /\ StreamOf(delivered, Cat(f, post), nextEvent) = Cat(m, post)
  BY QWrites DEF QNow
<1>2. events' = Cat(f, post) /\ nextEvent' = nextEvent /\ written' = written + 1 /\ delivered' = delivered
  BY DEF Writes, Cat
<1> HIDE DEF f, m
<1>3. Stream' = StreamOf(delivered', events', nextEvent')
  BY DEF Stream, StreamOf
<1>4. QNow'
  BY <1>1, <1>2 DEF QNow
<1>5. Stream' = Cat(m, post)
  BY <1>1, <1>2, <1>3
<1>6. Grows(Cat(Stream, pre), l, m) /\ Carries(Cat(Stream, pre), written + 1, m)
  BY <1>1, StreamIs
<1> QED
  BY <1>4, <1>5, <1>6

(* The stage, where the handshake does not wait. *)
LEMMA StageNow ==
  /\ hs.pc \notin {"blocked", "signal", "woken"} => Stage = hs.pc
  /\ hs.pc \in {"blocked", "signal", "woken"} => Stage = hs.back
BY DEF Stage

LEMMA StageThen ==
  /\ hs'.pc \notin {"blocked", "signal", "woken"} => Stage' = hs'.pc
  /\ hs'.pc \in {"blocked", "signal", "woken"} => Stage' = hs'.back
BY DEF Stage

(* A step that emits nothing, from stage g to stage h. *)
Edge(g, h) ==
    /\ g \in Sealed => h \in Sealed
    /\ h = "clientHello" => g = h \/ cfg.isClient
    /\ h \in {"serverHello", "readRetryHello"} => g = h \/ ~cfg.isClient
    /\ Undec(h, cfg.isClient) => Undec(g, cfg.isClient)
    /\ g = "drainWait" => h = g \/ canceled \/ ~waitingForDrain
    /\ h \in {"readHello", "ee"} => g = h
Quiet == /\ UNCHANGED <<cfg, canceled, session, early, outLevel, queue>>
         /\ (handshakeErr => handshakeErr')
         /\ Edge(Stage, Stage')

LEMMA QuietStep ==
  ASSUME EventInv, Quiet PROVE EventInv'
<1>1. UNCHANGED <<events, nextEvent, waitingForDrain, errorReturned, written, delivered,
                  cfg, canceled, session, early, outLevel>> /\ (handshakeErr => handshakeErr')
  BY DEF Quiet, queue
<1>2. Stream' = Stream
  BY <1>1 DEF Stream
<1>3. QNow'
  BY <1>1 DEF EventInv, QNow
<1> DEFINE g == Stage
           h == Stage'
           s == Stream
<1>4. Edge(g, h) /\ DInv(g, outLevel, cfg.isClient, s, Len(delivered), early, session, canceled, waitingForDrain)
      /\ SInv(g, outLevel, s, delivered, early, handshakeErr, errorReturned)
  BY DEF EventInv, DNow, SNow, Quiet
<1>a. DNow' = DInv(h, outLevel, cfg.isClient, s, Len(delivered), early, session, canceled, waitingForDrain)
      /\ SNow' = SInv(h, outLevel, s, delivered, early, handshakeErr', errorReturned)
  BY <1>1, <1>2 DEF DNow, SNow
<1> HIDE DEF g, h, s
<1>5. DInv(h, outLevel, cfg.isClient, s, Len(delivered), early, session, canceled, waitingForDrain)
  BY <1>4 DEF Edge, DInv
<1>6. SInv(h, outLevel, s, delivered, early, handshakeErr', errorReturned)
  BY <1>1, <1>4 DEF Edge, SInv
<1> QED
  BY <1>3, <1>a, <1>5, <1>6 DEF EventInv

-----------------------------------------------------------------------------
(* The steps that add to the stream. *)

LEMMA Known ==
  ASSUME EventInv
  PROVE  /\ QNow /\ Stream \in Seq(Events) /\ Len(delivered) \in 0..Len(Stream)
         /\ DInv(Stage, outLevel, cfg.isClient, Stream, Len(delivered), early, session, canceled, waitingForDrain)
         /\ SInv(Stage, outLevel, Stream, delivered, early, handshakeErr, errorReturned)
         /\ outLevel \in Levels \ {"Early"} /\ outLevel \in Levels
BY StreamIs DEF EventInv, DNow, SNow, DInv

LEMMA Assemble ==
  ASSUME QNow', KeepsRest,
         DInv(Stage', outLevel', cfg.isClient, Stream', Len(delivered), early', session, canceled, waitingForDrain'),
         SInv(Stage', outLevel', Stream', delivered, early', handshakeErr', errorReturned)
  PROVE  EventInv'
BY DEF EventInv, DNow, SNow, KeepsRest

(* One event, of no level's secret. *)
LEMMA AddsOne ==
  ASSUME EventInv, NEW e \in Events, Emits(<<e>>), KeepsRest, UNCHANGED <<early, outLevel>>, Edge(Stage, Stage'),
         e.level # "Early", e.kind \notin {"ResumeSession", "SetWriteSecret", "SetReadSecret", "WriteData",
                                           "RejectedEarlyData", "Error"}
  PROVE  EventInv'
<1>1. QNow' /\ Stream' = Append(Stream, e) /\ waitingForDrain' = waitingForDrain
  BY Known, EmitsOne DEF Emits
<1> DEFINE s == Stream
           t == Append(s, e)
           n == Len(delivered)
           g == Stage
           h == Stage'
<1>2. /\ s \in Seq(Events) /\ n \in 0..Len(s) /\ Edge(g, h)
      /\ DInv(g, outLevel, cfg.isClient, s, n, early, session, canceled, waitingForDrain)
      /\ SInv(g, outLevel, s, delivered, early, handshakeErr, errorReturned)
  BY Known
<1> HIDE DEF s, n, g, h
<1>3. Allowed(s, e)
  BY DEF Allowed
<1>4. /\ \A k, l : Has(t, k, l) <=> Has(s, k, l) \/ (e.kind = k /\ e.level = l)
      /\ NoEarly(t) <=> NoEarly(s) /\ e.level # "Early"
      /\ Pend(t, n) <=> Pend(s, n) \/ e.kind = "ResumeSession"
      /\ Fine(s) /\ Allowed(s, e) => Fine(t)
  BY <1>2, AppendKnown
<1>5. DInv(h, outLevel, cfg.isClient, t, n, early, session, canceled, waitingForDrain)
  BY <1>2, <1>4 DEF DInv, Edge
<1>6. SInv(h, outLevel, t, delivered, early, handshakeErr', errorReturned)
  <2>1. handshakeErr => handshakeErr'
    BY DEF KeepsRest
  <2>2. \A l : Has(t, "SetWriteSecret", l) <=> Has(s, "SetWriteSecret", l)
    BY <1>4
  <2>3. Fine(s) => Fine(t)
    BY <1>3, <1>4
  <2> HIDE DEF t
  <2> QED
    BY <1>2, <2>1, <2>2, <2>3 DEF SInv, Edge
<1> QED
  BY <1>1, <1>5, <1>6, Assemble DEF s, t, n, g, h

(* One message. *)
LEMMA WritesOne ==
  ASSUME EventInv, Writes(<<>>, outLevel, <<>>), KeepsRest, UNCHANGED <<early, outLevel>>, Edge(Stage, Stage')
  PROVE  EventInv'
<1>0. QNow /\ Stream \in Seq(Events) /\ AreEvents(<<>>) /\ Cat(Stream, <<>>) = Stream /\ outLevel \in Levels
  BY Known, CatFacts
<1>1. QNow' /\ \E m : Grows(Cat(Stream, <<>>), outLevel, m) /\ Stream' = Cat(m, <<>>)
  BY <1>0, WritesFacts
<1>2. PICK m : Grows(Stream, outLevel, m) /\ Stream' = m
  <2>1. PICK m : Grows(Stream, outLevel, m) /\ Stream' = Cat(m, <<>>)
    BY <1>0, <1>1
  <2>2. m \in Seq(Events)
    BY <2>1 DEF Grows
  <2> QED
    BY <2>1, <2>2, CatFacts
<1> DEFINE s == Stream
           n == Len(delivered)
           g == Stage
           h == Stage'
<1>3. /\ s \in Seq(Events) /\ n \in 0..Len(s) /\ Edge(g, h) /\ outLevel \in Levels \ {"Early"} /\ Grows(s, outLevel, m)
      /\ DInv(g, outLevel, cfg.isClient, s, n, early, session, canceled, waitingForDrain)
      /\ SInv(g, outLevel, s, delivered, early, handshakeErr, errorReturned)
  BY <1>2, Known
<1> HIDE DEF s, n, g, h
<1>4. /\ \A k, v : k # "WriteData" => (Has(m, k, v) <=> Has(s, k, v))
      /\ NoEarly(m) <=> NoEarly(s)
      /\ Pend(m, n) <=> Pend(s, n)
      /\ Fine(s) /\ (outLevel # "Initial" => Has(s, "SetWriteSecret", outLevel)) => Fine(m)
  BY <1>3, GrowKnown
<1>5. DInv(h, outLevel, cfg.isClient, m, n, early, session, canceled, waitingForDrain)
  BY <1>3, <1>4 DEF DInv, Edge
<1>6. SInv(h, outLevel, m, delivered, early, handshakeErr', errorReturned)
  <2>1. handshakeErr => handshakeErr'
    BY DEF KeepsRest
  <2>2. \A l : Has(m, "SetWriteSecret", l) <=> Has(s, "SetWriteSecret", l)
    BY <1>4
  <2> QED
    BY <1>3, <1>4, <2>1, <2>2 DEF SInv, Edge
<1>7. waitingForDrain' = waitingForDrain
  BY DEF Writes
<1> QED
  BY <1>1, <1>2, <1>5, <1>6, <1>7, Assemble DEF s, n, g, h

-----------------------------------------------------------------------------
LEMMA AppendTwoKnown ==
  ASSUME NEW s \in Seq(Events), NEW e \in Events, NEW f \in Events, NEW n \in 0..Len(s)
  PROVE  LET t == Append(Append(s, e), f) IN
         /\ \A k, l : Has(t, k, l) <=> Has(s, k, l) \/ (e.kind = k /\ e.level = l) \/ (f.kind = k /\ f.level = l)
         /\ NoEarly(t) <=> NoEarly(s) /\ e.level # "Early" /\ f.level # "Early"
         /\ Pend(t, n) <=> Pend(s, n) \/ e.kind = "ResumeSession" \/ f.kind = "ResumeSession"
         /\ Fine(s) /\ Allowed(s, e) /\ Allowed(Append(s, e), f) => Fine(t)
<1> DEFINE r == Append(s, e)
<1>1. /\ r \in Seq(Events) /\ n \in 0..Len(r)
      /\ \A k, l : Has(r, k, l) <=> Has(s, k, l) \/ (e.kind = k /\ e.level = l)
      /\ NoEarly(r) <=> NoEarly(s) /\ e.level # "Early"
      /\ Pend(r, n) <=> Pend(s, n) \/ e.kind = "ResumeSession"
      /\ Fine(s) /\ Allowed(s, e) => Fine(r)
  BY AppendKnown
<1> HIDE DEF r
<1> DEFINE t == Append(r, f)
<1>2. /\ \A k, l : Has(t, k, l) <=> Has(r, k, l) \/ (f.kind = k /\ f.level = l)
      /\ NoEarly(t) <=> NoEarly(r) /\ f.level # "Early"
      /\ Pend(t, n) <=> Pend(r, n) \/ f.kind = "ResumeSession"
      /\ Fine(r) /\ Allowed(r, f) => Fine(t)
  BY <1>1, AppendKnown
<1> HIDE DEF t
<1>3. \A k, l : Has(t, k, l) <=> Has(s, k, l) \/ (e.kind = k /\ e.level = l) \/ (f.kind = k /\ f.level = l)
  BY <1>1, <1>2
<1>4. /\ NoEarly(t) <=> NoEarly(s) /\ e.level # "Early" /\ f.level # "Early"
      /\ Pend(t, n) <=> Pend(s, n) \/ e.kind = "ResumeSession" \/ f.kind = "ResumeSession"
      /\ Fine(s) /\ Allowed(s, e) /\ Allowed(r, f) => Fine(t)
  BY <1>1, <1>2
<1> QED
  BY <1>3, <1>4 DEF r, t

(* The session is handed to the application (quicResumeSession). *)
LEMMA AddsResume ==
  ASSUME EventInv, KeepsRest, UNCHANGED <<early, outLevel>>, Stage = "resume", Stage' = "drainWait",
         events' = Append(events, Plain("ResumeSession")), waitingForDrain' = TRUE, written' = written
  PROVE  EventInv'
<1> DEFINE e == Plain("ResumeSession")
           s == Stream
           t == Append(s, e)
           n == Len(delivered)
<1>0. e \in Events /\ e.kind = "ResumeSession" /\ e.level = "Initial" /\ Allowed(s, e)
  BY PlainEvents DEF Kinds, Allowed
<1>1. QNow' /\ Stream' = t
  <2>1. QNow /\ events \in Seq(Events) /\ AreEvents(<<e>>)
    BY <1>0, Known, CatFacts DEF QNow, QInv
  <2>2. events' = Cat(events, <<e>>) /\ t = Cat(Stream, <<e>>)
    BY <1>0, <2>1, CatFacts, Known
  <2> HIDE DEF e
  <2>3. QInv(Cat(events, <<e>>), nextEvent, written, delivered)
        /\ StreamOf(delivered, Cat(events, <<e>>), nextEvent) = Cat(StreamOf(delivered, events, nextEvent), <<e>>)
    BY <2>1, QCat DEF QNow
  <2>4. nextEvent' = nextEvent /\ delivered' = delivered
    BY DEF KeepsRest
  <2>5. Stream' = StreamOf(delivered', events', nextEvent')
    BY DEF Stream, StreamOf
  <2>6. QNow'
    BY <2>2, <2>3, <2>4 DEF QNow
  <2> QED
    BY <2>1, <2>2, <2>3, <2>4, <2>5, <2>6, StreamIs
<1>2. /\ s \in Seq(Events) /\ n \in 0..Len(s)
      /\ DInv("resume", outLevel, cfg.isClient, s, n, early, session, canceled, waitingForDrain)
      /\ SInv("resume", outLevel, s, delivered, early, handshakeErr, errorReturned)
  BY Known
<1> HIDE DEF s, n, e
<1>3. /\ \A k, l : Has(t, k, l) <=> Has(s, k, l) \/ (e.kind = k /\ e.level = l)
      /\ NoEarly(t) <=> NoEarly(s) /\ e.level # "Early"
      /\ Fine(s) /\ Allowed(s, e) => Fine(t)
  BY <1>0, <1>2, AppendKnown
<1> HIDE DEF t
<1>4. DInv("drainWait", outLevel, cfg.isClient, t, n, early, session, canceled, TRUE)
  BY <1>0, <1>2, <1>3 DEF DInv, Undec
<1>5. SInv("drainWait", outLevel, t, delivered, early, handshakeErr', errorReturned)
  <2>1. handshakeErr => handshakeErr'
    BY DEF KeepsRest
  <2>2. \A l : Has(t, "SetWriteSecret", l) <=> Has(s, "SetWriteSecret", l)
    BY <1>0, <1>3
  <2> QED
    BY <1>0, <1>2, <1>3, <2>1, <2>2 DEF SInv, Sealed
<1> QED
  BY <1>1, <1>4, <1>5, Assemble DEF t, s, n

(* QUICHandshakeDone and the 1-RTT read secret behind it. *)
LEMMA AddsDone ==
  ASSUME EventInv, KeepsRest, UNCHANGED <<early, outLevel>>, Stage = "result", Stage' = "closeBlocked",
         Emits(<<Plain("HandshakeDone"), Event("SetReadSecret", "Application")>>)
  PROVE  EventInv'
<1> DEFINE e == Plain("HandshakeDone")
           f == Event("SetReadSecret", "Application")
           s == Stream
           t == Append(Append(s, e), f)
           n == Len(delivered)
<1>0. /\ e \in Events /\ e.kind = "HandshakeDone" /\ e.level = "Initial"
      /\ f \in Events /\ f.kind = "SetReadSecret" /\ f.level = "Application"
  BY PlainEvents DEF Kinds, Levels
<1>1. QNow' /\ Stream' = t /\ waitingForDrain' = waitingForDrain
  <2> HIDE DEF e, f
  <2> QED
    BY <1>0, Known, EmitsTwo DEF Emits, e, f
<1>2. /\ s \in Seq(Events) /\ n \in 0..Len(s)
      /\ DInv("result", outLevel, cfg.isClient, s, n, early, session, canceled, waitingForDrain)
      /\ SInv("result", outLevel, s, delivered, early, handshakeErr, errorReturned)
  BY Known
<1> HIDE DEF s, n, e, f
<1>3. /\ \A k, l : Has(t, k, l) <=> Has(s, k, l) \/ (e.kind = k /\ e.level = l) \/ (f.kind = k /\ f.level = l)
      /\ NoEarly(t) <=> NoEarly(s) /\ e.level # "Early" /\ f.level # "Early"
      /\ Pend(t, n) <=> Pend(s, n) \/ e.kind = "ResumeSession" \/ f.kind = "ResumeSession"
      /\ Fine(s) /\ Allowed(s, e) /\ Allowed(Append(s, e), f) => Fine(t)
  BY <1>0, <1>2, AppendTwoKnown
<1>4. Allowed(s, e) /\ Allowed(Append(s, e), f)
  <2>1. Has(Append(s, e), "HandshakeDone", "Initial")
    BY <1>0, <1>2, HasAppend
  <2> QED
    BY <1>0, <2>1 DEF Allowed
<1> HIDE DEF t
<1>5. DInv("closeBlocked", outLevel, cfg.isClient, t, n, early, session, canceled, waitingForDrain)
  BY <1>0, <1>2, <1>3 DEF DInv, Undec
<1>6. SInv("closeBlocked", outLevel, t, delivered, early, handshakeErr', errorReturned)
  <2>1. handshakeErr => handshakeErr'
    BY DEF KeepsRest
  <2>2. \A l : Has(t, "SetWriteSecret", l) <=> Has(s, "SetWriteSecret", l)
    BY <1>0, <1>3
  <2> QED
    BY <1>2, <1>3, <1>4, <2>1, <2>2 DEF SInv, Sealed
<1> QED
  BY <1>1, <1>5, <1>6, Assemble DEF t, s, n

(* The handshake keys of the client. *)
LEMMA AddsKeys ==
  ASSUME EventInv, KeepsRest, early' = early, outLevel' = "Handshake", Stage = "readHello", Stage' = "ee",
         Emits(HandshakeSecrets)
  PROVE  EventInv'
<1> DEFINE e == Event("SetWriteSecret", "Handshake")
           f == Event("SetReadSecret", "Handshake")
           s == Stream
           t == Append(Append(s, e), f)
           n == Len(delivered)
<1>0. /\ e \in Events /\ e.kind = "SetWriteSecret" /\ e.level = "Handshake"
      /\ f \in Events /\ f.kind = "SetReadSecret" /\ f.level = "Handshake"
  BY PlainEvents DEF Kinds, Levels
<1>1. QNow' /\ Stream' = t /\ waitingForDrain' = waitingForDrain
  <2> HIDE DEF e, f
  <2>1. Emits(<<e, f>>)
    BY DEF HandshakeSecrets, e, f
  <2> QED
    BY <1>0, <2>1, Known, EmitsTwo DEF Emits
<1>2. /\ s \in Seq(Events) /\ n \in 0..Len(s)
      /\ DInv("readHello", outLevel, cfg.isClient, s, n, early, session, canceled, waitingForDrain)
      /\ SInv("readHello", outLevel, s, delivered, early, handshakeErr, errorReturned)
  BY Known
<1> HIDE DEF s, n, e, f
<1>3. /\ \A k, l : Has(t, k, l) <=> Has(s, k, l) \/ (e.kind = k /\ e.level = l) \/ (f.kind = k /\ f.level = l)
      /\ NoEarly(t) <=> NoEarly(s) /\ e.level # "Early" /\ f.level # "Early"
      /\ Pend(t, n) <=> Pend(s, n) \/ e.kind = "ResumeSession" \/ f.kind = "ResumeSession"
      /\ Fine(s) /\ Allowed(s, e) /\ Allowed(Append(s, e), f) => Fine(t)
  BY <1>0, <1>2, AppendTwoKnown
<1>4. Allowed(s, e) /\ Allowed(Append(s, e), f)
  BY <1>0 DEF Allowed
<1> HIDE DEF t
<1>5. DInv("ee", "Handshake", cfg.isClient, t, n, early, session, canceled, waitingForDrain)
  BY <1>0, <1>2, <1>3 DEF DInv, Undec, Levels
<1>6. SInv("ee", "Handshake", t, delivered, early, handshakeErr', errorReturned)
  <2>1. handshakeErr => handshakeErr'
    BY DEF KeepsRest
  <2>2. \A l : Has(t, "SetWriteSecret", l) <=> Has(s, "SetWriteSecret", l) \/ l = "Handshake"
    BY <1>0, <1>3
  <2> QED
    BY <1>2, <1>3, <1>4, <2>1, <2>2 DEF SInv, Sealed
<1> QED
  BY <1>1, <1>5, <1>6, Assemble DEF t, s, n

(* The server's parameters, and 0-RTT rejected. *)
LEMMA AddsRejection ==
  ASSUME EventInv, KeepsRest, UNCHANGED <<early, outLevel>>, early, Stage = "ee", Stage' \in {"finished", "certReq"},
         Emits(<<Plain("TransportParameters"), Plain("RejectedEarlyData")>>)
  PROVE  EventInv'
<1> DEFINE e == Plain("TransportParameters")
           f == Plain("RejectedEarlyData")
           s == Stream
           t == Append(Append(s, e), f)
           n == Len(delivered)
           h == Stage'
<1>0. /\ e \in Events /\ e.kind = "TransportParameters" /\ e.level = "Initial"
      /\ f \in Events /\ f.kind = "RejectedEarlyData" /\ f.level = "Initial"
  BY PlainEvents DEF Kinds, Levels
<1>1. QNow' /\ Stream' = t /\ waitingForDrain' = waitingForDrain
  <2> HIDE DEF e, f
  <2> QED
    BY <1>0, Known, EmitsTwo DEF Emits, e, f
<1>2. /\ s \in Seq(Events) /\ n \in 0..Len(s) /\ h \in {"finished", "certReq"}
      /\ DInv("ee", outLevel, cfg.isClient, s, n, early, session, canceled, waitingForDrain)
      /\ SInv("ee", outLevel, s, delivered, early, handshakeErr, errorReturned)
  BY Known
<1> HIDE DEF s, n, e, f, h
<1>3. /\ \A k, l : Has(t, k, l) <=> Has(s, k, l) \/ (e.kind = k /\ e.level = l) \/ (f.kind = k /\ f.level = l)
      /\ NoEarly(t) <=> NoEarly(s) /\ e.level # "Early" /\ f.level # "Early"
      /\ Pend(t, n) <=> Pend(s, n) \/ e.kind = "ResumeSession" \/ f.kind = "ResumeSession"
      /\ Fine(s) /\ Allowed(s, e) /\ Allowed(Append(s, e), f) => Fine(t)
  BY <1>0, <1>2, AppendTwoKnown
<1>4. Allowed(s, e) /\ (~errorReturned => Allowed(Append(s, e), f))
  <2>1. \A k, l : Has(Append(s, e), k, l) <=> Has(s, k, l) \/ (e.kind = k /\ e.level = l)
    BY <1>0, <1>2, HasAppend
  <2>2. ~errorReturned => Has(s, "SetWriteSecret", "Early") /\ ~Has(s, "SetWriteSecret", "Application")
    BY <1>2 DEF SInv, Sealed
  <2>3. \A l : Has(Append(s, e), "SetWriteSecret", l) <=> Has(s, "SetWriteSecret", l)
    BY <1>0, <2>1
  <2> QED
    BY <1>0, <2>2, <2>3 DEF Allowed
<1> HIDE DEF t
<1>5. DInv(h, outLevel, cfg.isClient, t, n, early, session, canceled, waitingForDrain)
  BY <1>0, <1>2, <1>3 DEF DInv, Undec
<1>6. SInv(h, outLevel, t, delivered, early, handshakeErr', errorReturned)
  <2>1. handshakeErr => handshakeErr'
    BY DEF KeepsRest
  <2>2. \A l : Has(t, "SetWriteSecret", l) <=> Has(s, "SetWriteSecret", l)
    BY <1>0, <1>3
  <2> QED
    BY <1>2, <1>3, <1>4, <2>1, <2>2 DEF SInv, Sealed
<1> QED
  BY <1>1, <1>5, <1>6, Assemble DEF t, s, n, h

(* The server accepts 0-RTT, which the application has not declined. *)
LEMMA AddsEarly ==
  ASSUME EventInv, KeepsRest, UNCHANGED <<early, outLevel>>, session # "declined", ~cfg.isClient,
         Stage = "offer", Stage' = "serverHello", Emits(<<Event("SetReadSecret", "Early")>>)
  PROVE  EventInv'
<1> DEFINE e == Event("SetReadSecret", "Early")
           s == Stream
           t == Append(s, e)
           n == Len(delivered)
<1>0. e \in Events /\ e.kind = "SetReadSecret" /\ e.level = "Early" /\ Allowed(s, e)
  BY PlainEvents DEF Kinds, Levels, Allowed
<1>1. QNow' /\ Stream' = t /\ waitingForDrain' = waitingForDrain
  <2> HIDE DEF e
  <2> QED
    BY <1>0, Known, EmitsOne DEF Emits, e
<1>2. /\ s \in Seq(Events) /\ n \in 0..Len(s)
      /\ DInv("offer", outLevel, cfg.isClient, s, n, early, session, canceled, waitingForDrain)
      /\ SInv("offer", outLevel, s, delivered, early, handshakeErr, errorReturned)
  BY Known
<1> HIDE DEF s, n, e
<1>3. /\ \A k, l : Has(t, k, l) <=> Has(s, k, l) \/ (e.kind = k /\ e.level = l)
      /\ Pend(t, n) <=> Pend(s, n) \/ e.kind = "ResumeSession"
      /\ Fine(s) /\ Allowed(s, e) => Fine(t)
  BY <1>0, <1>2, AppendKnown
<1> HIDE DEF t
<1>4. DInv("serverHello", outLevel, cfg.isClient, t, n, early, session, canceled, waitingForDrain)
  BY <1>0, <1>2, <1>3 DEF DInv, Undec
<1>5. SInv("serverHello", outLevel, t, delivered, early, handshakeErr', errorReturned)
  <2>1. handshakeErr => handshakeErr'
    BY DEF KeepsRest
  <2>2. \A l : Has(t, "SetWriteSecret", l) <=> Has(s, "SetWriteSecret", l)
    BY <1>0, <1>3
  <2> QED
    BY <1>0, <1>2, <1>3, <2>1, <2>2 DEF SInv, Sealed
<1> QED
  BY <1>1, <1>4, <1>5, Assemble DEF t, s, n

-----------------------------------------------------------------------------
(* A message, then events. *)
LEMMA WritesThen ==
  ASSUME EventInv, NEW post, AreEvents(post), Writes(<<>>, outLevel, post)
  PROVE  /\ QNow' /\ waitingForDrain' = waitingForDrain
         /\ \E m \in Seq(Events) :
               /\ Stream' = Cat(m, post) /\ Len(delivered) \in 0..Len(m)
               /\ \A v : Has(m, "SetWriteSecret", v) <=> Has(Stream, "SetWriteSecret", v)
               /\ NoEarly(m) <=> NoEarly(Stream)
               /\ Pend(m, Len(delivered)) <=> Pend(Stream, Len(delivered))
               /\ ~errorReturned => Fine(m)
<1>0. QNow /\ Stream \in Seq(Events) /\ AreEvents(<<>>) /\ Cat(Stream, <<>>) = Stream /\ outLevel \in Levels
  BY Known, CatFacts
<1>1. QNow' /\ \E m : Grows(Cat(Stream, <<>>), outLevel, m) /\ Stream' = Cat(m, post)
  BY <1>0, WritesFacts
<1>2. PICK m : Grows(Stream, outLevel, m) /\ Stream' = Cat(m, post)
  BY <1>0, <1>1
<1> DEFINE s == Stream
           n == Len(delivered)
<1>3. /\ s \in Seq(Events) /\ n \in 0..Len(s) /\ outLevel \in Levels \ {"Early"} /\ Grows(s, outLevel, m)
      /\ SInv(Stage, outLevel, s, delivered, early, handshakeErr, errorReturned)
  BY <1>2, Known
<1> HIDE DEF s, n
<1>4. /\ m \in Seq(Events) /\ n \in 0..Len(m)
      /\ \A k, v : k # "WriteData" => (Has(m, k, v) <=> Has(s, k, v))
      /\ NoEarly(m) <=> NoEarly(s)
      /\ Pend(m, n) <=> Pend(s, n)
      /\ Fine(s) /\ (outLevel # "Initial" => Has(s, "SetWriteSecret", outLevel)) => Fine(m)
  BY <1>3, GrowKnown
<1>5. \A v : Has(m, "SetWriteSecret", v) <=> Has(s, "SetWriteSecret", v)
  BY <1>4
<1>6. ~errorReturned => Fine(m)
  BY <1>3, <1>4 DEF SInv
<1>7. waitingForDrain' = waitingForDrain
  BY DEF Writes
<1> QED
  BY <1>1, <1>2, <1>4, <1>5, <1>6, <1>7 DEF s, n

(* The ClientHello, and the 0-RTT write secret if it offers that. *)
LEMMA WritesHello ==
  ASSUME EventInv, KeepsRest, UNCHANGED <<early, outLevel>>, Stage = "clientHello", Stage' = "readHello",
         early, Writes(<<>>, outLevel, <<Event("SetWriteSecret", "Early")>>)
  PROVE  EventInv'
<1> DEFINE e == Event("SetWriteSecret", "Early")
           s == Stream
           n == Len(delivered)
<1>0. e \in Events /\ e.kind = "SetWriteSecret" /\ e.level = "Early" /\ AreEvents(<<e>>)
  BY PlainEvents, CatFacts DEF Kinds, Levels
<1> HIDE DEF e
<1>1. Writes(<<>>, outLevel, <<e>>)
  BY DEF e
<1>2. /\ QNow' /\ waitingForDrain' = waitingForDrain
      /\ \E m \in Seq(Events) :
            /\ Stream' = Cat(m, <<e>>) /\ n \in 0..Len(m)
            /\ \A v : Has(m, "SetWriteSecret", v) <=> Has(s, "SetWriteSecret", v)
            /\ NoEarly(m) <=> NoEarly(s)
            /\ Pend(m, n) <=> Pend(s, n)
            /\ ~errorReturned => Fine(m)
  BY <1>0, <1>1, WritesThen
<1>3. /\ DInv("clientHello", outLevel, cfg.isClient, s, n, early, session, canceled, waitingForDrain)
      /\ SInv("clientHello", outLevel, s, delivered, early, handshakeErr, errorReturned)
  BY Known
<1> HIDE DEF s, n
<1>4. PICK m \in Seq(Events) :
            /\ Stream' = Append(m, e) /\ n \in 0..Len(m)
            /\ \A v : Has(m, "SetWriteSecret", v) <=> Has(s, "SetWriteSecret", v)
            /\ NoEarly(m) <=> NoEarly(s)
            /\ Pend(m, n) <=> Pend(s, n)
            /\ ~errorReturned => Fine(m)
  BY <1>0, <1>2, CatFacts
<1> DEFINE t == Append(m, e)
<1>5. /\ \A k, l : Has(t, k, l) <=> Has(m, k, l) \/ (e.kind = k /\ e.level = l)
      /\ Pend(t, n) <=> Pend(m, n) \/ e.kind = "ResumeSession"
      /\ Fine(m) /\ Allowed(m, e) => Fine(t)
  BY <1>0, <1>4, AppendKnown
<1>6. Allowed(m, e)
  BY <1>0 DEF Allowed
<1>7. /\ Stream' = t /\ \A v : Has(t, "SetWriteSecret", v) <=> Has(s, "SetWriteSecret", v) \/ v = "Early"
  BY <1>0, <1>4, <1>5
<1> HIDE DEF t
<1>8. DInv("readHello", outLevel, cfg.isClient, t, n, early, session, canceled, waitingForDrain)
  BY <1>0, <1>3, <1>4, <1>5 DEF DInv, Undec
<1>9. SInv("readHello", outLevel, t, delivered, early, handshakeErr', errorReturned)
  <2>1. handshakeErr => handshakeErr'
    BY DEF KeepsRest
  <2> QED
    BY <1>3, <1>4, <1>5, <1>6, <1>7, <2>1 DEF SInv, Sealed
<1> QED
  BY <1>2, <1>7, <1>8, <1>9, Assemble DEF n

(* A ClientHello without 0-RTT. *)
LEMMA WritesPlainHello ==
  ASSUME EventInv, KeepsRest, ~early, (UNCHANGED early \/ early' = FALSE), outLevel' = outLevel,
         Stage \in {"clientHello", "readHello"}, Stage' = "readHello", Stage = "clientHello" \/ cfg.isClient,
         Writes(<<>>, outLevel, <<>>)
  PROVE  EventInv'
<1>0. AreEvents(<<>>)
  BY CatFacts
<1> DEFINE s == Stream
           n == Len(delivered)
           g == Stage
<1>1. /\ QNow' /\ waitingForDrain' = waitingForDrain
      /\ \E m \in Seq(Events) :
            /\ Stream' = Cat(m, <<>>) /\ n \in 0..Len(m)
            /\ \A v : Has(m, "SetWriteSecret", v) <=> Has(s, "SetWriteSecret", v)
            /\ NoEarly(m) <=> NoEarly(s)
            /\ Pend(m, n) <=> Pend(s, n)
            /\ ~errorReturned => Fine(m)
  BY <1>0, WritesThen
<1>2. /\ DInv(g, outLevel, cfg.isClient, s, n, early, session, canceled, waitingForDrain)
      /\ SInv(g, outLevel, s, delivered, early, handshakeErr, errorReturned)
      /\ g \in {"clientHello", "readHello"} /\ (g = "clientHello" \/ cfg.isClient)
  BY Known
<1> HIDE DEF s, n, g
<1>3. PICK m \in Seq(Events) :
            /\ Stream' = m
            /\ \A v : Has(m, "SetWriteSecret", v) <=> Has(s, "SetWriteSecret", v)
            /\ NoEarly(m) <=> NoEarly(s)
            /\ Pend(m, n) <=> Pend(s, n)
            /\ ~errorReturned => Fine(m)
  BY <1>1, CatFacts
<1>4. ~early'
  OBVIOUS
<1>5. DInv("readHello", outLevel, cfg.isClient, m, n, early', session, canceled, waitingForDrain)
  BY <1>2, <1>3, <1>4 DEF DInv, Undec
<1>6. SInv("readHello", outLevel, m, delivered, early', handshakeErr', errorReturned)
  <2>1. handshakeErr => handshakeErr'
    BY DEF KeepsRest
  <2> QED
    BY <1>2, <1>3, <1>4, <2>1 DEF SInv, Sealed
<1> QED
  BY <1>1, <1>3, <1>5, <1>6, Assemble DEF n

(* The last flight, behind which the 1-RTT write secret comes. *)
LEMMA WritesFlight ==
  ASSUME EventInv, KeepsRest, early' = early, outLevel' = "Application",
         Stage \in {"finished", "flight"}, Stage' \in Sealed,
         Writes(<<>>, outLevel, <<Event("SetWriteSecret", "Application")>>)
  PROVE  EventInv'
<1> DEFINE e == Event("SetWriteSecret", "Application")
           s == Stream
           n == Len(delivered)
           g == Stage
           h == Stage'
<1>0. e \in Events /\ e.kind = "SetWriteSecret" /\ e.level = "Application" /\ AreEvents(<<e>>)
  BY PlainEvents, CatFacts DEF Kinds, Levels
<1> HIDE DEF e
<1>1. Writes(<<>>, outLevel, <<e>>)
  BY DEF e
<1>2. /\ QNow' /\ waitingForDrain' = waitingForDrain
      /\ \E m \in Seq(Events) :
            /\ Stream' = Cat(m, <<e>>) /\ n \in 0..Len(m)
            /\ \A v : Has(m, "SetWriteSecret", v) <=> Has(s, "SetWriteSecret", v)
            /\ NoEarly(m) <=> NoEarly(s)
            /\ Pend(m, n) <=> Pend(s, n)
            /\ ~errorReturned => Fine(m)
  BY <1>0, <1>1, WritesThen
<1>3. /\ DInv(g, outLevel, cfg.isClient, s, n, early, session, canceled, waitingForDrain)
      /\ SInv(g, outLevel, s, delivered, early, handshakeErr, errorReturned)
      /\ g \in {"finished", "flight"} /\ h \in Sealed
  BY Known
<1> HIDE DEF s, n, g, h
<1>4. PICK m \in Seq(Events) :
            /\ Stream' = Append(m, e) /\ n \in 0..Len(m)
            /\ \A v : Has(m, "SetWriteSecret", v) <=> Has(s, "SetWriteSecret", v)
            /\ NoEarly(m) <=> NoEarly(s)
            /\ Pend(m, n) <=> Pend(s, n)
            /\ ~errorReturned => Fine(m)
  BY <1>0, <1>2, CatFacts
<1> DEFINE t == Append(m, e)
<1>5. /\ \A k, l : Has(t, k, l) <=> Has(m, k, l) \/ (e.kind = k /\ e.level = l)
      /\ NoEarly(t) <=> NoEarly(m) /\ e.level # "Early"
      /\ Pend(t, n) <=> Pend(m, n) \/ e.kind = "ResumeSession"
      /\ Fine(m) /\ Allowed(m, e) => Fine(t)
  BY <1>0, <1>4, AppendKnown
<1>6. Allowed(m, e)
  BY <1>0 DEF Allowed
<1>7. /\ Stream' = t /\ \A v : Has(t, "SetWriteSecret", v) <=> Has(s, "SetWriteSecret", v) \/ v = "Application"
  BY <1>0, <1>4, <1>5
<1> HIDE DEF t
<1>8. DInv(h, "Application", cfg.isClient, t, n, early, session, canceled, waitingForDrain)
  BY <1>0, <1>3, <1>4, <1>5 DEF DInv, Undec, Sealed, Levels
<1>9. SInv(h, "Application", t, delivered, early, handshakeErr', errorReturned)
  <2>1. handshakeErr => handshakeErr'
    BY DEF KeepsRest
  <2> QED
    BY <1>3, <1>4, <1>5, <1>6, <1>7, <2>1 DEF SInv, Sealed
<1> QED
  BY <1>2, <1>7, <1>8, <1>9, Assemble DEF n, h

(* The ServerHello and the handshake keys. *)
LEMMA WritesKeys ==
  ASSUME EventInv, KeepsRest, early' = early, outLevel' = "Handshake", Stage = "serverHello", Stage' = "params",
         Writes(<<>>, outLevel, HandshakeSecrets)
  PROVE  EventInv'
<1> DEFINE e == Event("SetWriteSecret", "Handshake")
           f == Event("SetReadSecret", "Handshake")
           s == Stream
           n == Len(delivered)
<1>0. /\ e \in Events /\ e.kind = "SetWriteSecret" /\ e.level = "Handshake"
      /\ f \in Events /\ f.kind = "SetReadSecret" /\ f.level = "Handshake" /\ AreEvents(<<e, f>>)
  BY PlainEvents, CatFacts DEF Kinds, Levels
<1> HIDE DEF e, f
<1>1. Writes(<<>>, outLevel, <<e, f>>)
  BY DEF e, f, HandshakeSecrets
<1>2. /\ QNow' /\ waitingForDrain' = waitingForDrain
      /\ \E m \in Seq(Events) :
            /\ Stream' = Cat(m, <<e, f>>) /\ n \in 0..Len(m)
            /\ \A v : Has(m, "SetWriteSecret", v) <=> Has(s, "SetWriteSecret", v)
            /\ NoEarly(m) <=> NoEarly(s)
            /\ Pend(m, n) <=> Pend(s, n)
            /\ ~errorReturned => Fine(m)
  BY <1>0, <1>1, WritesThen
<1>3. /\ DInv("serverHello", outLevel, cfg.isClient, s, n, early, session, canceled, waitingForDrain)
      /\ SInv("serverHello", outLevel, s, delivered, early, handshakeErr, errorReturned)
  BY Known
<1> HIDE DEF s, n
<1>4. PICK m \in Seq(Events) :
            /\ Stream' = Append(Append(m, e), f) /\ n \in 0..Len(m)
            /\ \A v : Has(m, "SetWriteSecret", v) <=> Has(s, "SetWriteSecret", v)
            /\ NoEarly(m) <=> NoEarly(s)
            /\ Pend(m, n) <=> Pend(s, n)
            /\ ~errorReturned => Fine(m)
  BY <1>0, <1>2, CatFacts
<1> DEFINE t == Append(Append(m, e), f)
<1>5. /\ \A k, l : Has(t, k, l) <=> Has(m, k, l) \/ (e.kind = k /\ e.level = l) \/ (f.kind = k /\ f.level = l)
      /\ NoEarly(t) <=> NoEarly(m) /\ e.level # "Early" /\ f.level # "Early"
      /\ Pend(t, n) <=> Pend(m, n) \/ e.kind = "ResumeSession" \/ f.kind = "ResumeSession"
      /\ Fine(m) /\ Allowed(m, e) /\ Allowed(Append(m, e), f) => Fine(t)
  BY <1>0, <1>4, AppendTwoKnown
<1>6. Allowed(m, e) /\ Allowed(Append(m, e), f)
  BY <1>0 DEF Allowed
<1>7. /\ Stream' = t /\ \A v : Has(t, "SetWriteSecret", v) <=> Has(s, "SetWriteSecret", v) \/ v = "Handshake"
  BY <1>0, <1>4, <1>5
<1> HIDE DEF t
<1>8. DInv("params", "Handshake", cfg.isClient, t, n, early, session, canceled, waitingForDrain)
  BY <1>0, <1>3, <1>4, <1>5 DEF DInv, Undec, Levels
<1>9. SInv("params", "Handshake", t, delivered, early, handshakeErr', errorReturned)
  <2>1. handshakeErr => handshakeErr'
    BY DEF KeepsRest
  <2> QED
    BY <1>3, <1>4, <1>5, <1>6, <1>7, <2>1 DEF SInv, Sealed
<1> QED
  BY <1>2, <1>7, <1>8, <1>9, Assemble DEF n

(* A HelloRetryRequest to a client that offered 0-RTT. *)
LEMMA WritesRetry ==
  ASSUME EventInv, KeepsRest, early, early' = FALSE, outLevel' = outLevel, Stage = "readHello", Stage' = "readHello",
         Writes(<<Plain("RejectedEarlyData")>>, outLevel, <<>>)
  PROVE  EventInv'
<1> DEFINE e == Plain("RejectedEarlyData")
           s == Stream
           n == Len(delivered)
           r == Append(s, e)
<1>0. e \in Events /\ e.kind = "RejectedEarlyData" /\ e.level = "Initial" /\ AreEvents(<<e>>) /\ AreEvents(<<>>)
  BY PlainEvents, CatFacts DEF Kinds, Levels
<1>1. /\ s \in Seq(Events) /\ n \in 0..Len(s) /\ outLevel \in Levels \ {"Early"} /\ outLevel \in Levels /\ QNow
      /\ DInv("readHello", outLevel, cfg.isClient, s, n, early, session, canceled, waitingForDrain)
      /\ SInv("readHello", outLevel, s, delivered, early, handshakeErr, errorReturned)
  BY Known
<1> HIDE DEF e
<1>2. Writes(<<e>>, outLevel, <<>>) /\ Cat(Stream, <<e>>) = r
  BY <1>0, <1>1, CatFacts DEF e
<1>3. QNow' /\ \E m : Grows(Cat(Stream, <<e>>), outLevel, m) /\ Stream' = Cat(m, <<>>)
  BY <1>0, <1>1, <1>2, WritesFacts
<1>4. PICK m \in Seq(Events) : Grows(r, outLevel, m) /\ Stream' = m
  <2>1. PICK m : Grows(r, outLevel, m) /\ Stream' = Cat(m, <<>>)
    BY <1>2, <1>3
  <2>2. m \in Seq(Events)
    BY <2>1 DEF Grows
  <2> QED
    BY <2>1, <2>2, CatFacts
<1> HIDE DEF s, n
<1>5. /\ r \in Seq(Events) /\ n \in 0..Len(r)
      /\ \A k, l : Has(r, k, l) <=> Has(s, k, l) \/ (e.kind = k /\ e.level = l)
      /\ NoEarly(r) <=> NoEarly(s) /\ e.level # "Early"
      /\ Pend(r, n) <=> Pend(s, n) \/ e.kind = "ResumeSession"
      /\ Fine(s) /\ Allowed(s, e) => Fine(r)
  BY <1>0, <1>1, AppendKnown
<1> HIDE DEF r
<1>6. /\ \A k, v : k # "WriteData" => (Has(m, k, v) <=> Has(r, k, v))
      /\ NoEarly(m) <=> NoEarly(r)
      /\ Pend(m, n) <=> Pend(r, n)
      /\ Fine(r) /\ (outLevel # "Initial" => Has(r, "SetWriteSecret", outLevel)) => Fine(m)
  BY <1>1, <1>4, <1>5, GrowKnown
<1>7. ~errorReturned => Allowed(s, e)
  BY <1>0, <1>1 DEF SInv, Sealed, Allowed
<1>8. \A v : (Has(r, "SetWriteSecret", v) <=> Has(s, "SetWriteSecret", v))
             /\ (Has(m, "SetWriteSecret", v) <=> Has(s, "SetWriteSecret", v))
  BY <1>0, <1>5, <1>6
<1>9. DInv("readHello", outLevel, cfg.isClient, m, n, FALSE, session, canceled, waitingForDrain)
  BY <1>0, <1>1, <1>5, <1>6 DEF DInv, Undec
<1>10. SInv("readHello", outLevel, m, delivered, FALSE, handshakeErr', errorReturned)
  <2>1. handshakeErr => handshakeErr'
    BY DEF KeepsRest
  <2> QED
    BY <1>1, <1>5, <1>6, <1>7, <1>8, <2>1 DEF SInv, Sealed
<1>11. waitingForDrain' = waitingForDrain
  BY DEF Writes
<1> QED
  BY <1>3, <1>4, <1>9, <1>10, <1>11, Assemble DEF n

(* The client decides on 0-RTT. *)
LEMMA OffersEarly ==
  ASSUME EventInv, KeepsRest, UNCHANGED <<outLevel, queue>>, Stage = "offer", Stage' = "clientHello", cfg.isClient,
         early' \in {FALSE, session # "declined"}
  PROVE  EventInv'
<1>1. UNCHANGED <<events, nextEvent, waitingForDrain, errorReturned, written, delivered>>
  BY DEF queue
<1>2. Stream' = Stream /\ QNow'
  BY <1>1, Known DEF Stream, QNow
<1>3. /\ DInv("offer", outLevel, cfg.isClient, Stream, Len(delivered), early, session, canceled, waitingForDrain)
      /\ SInv("offer", outLevel, Stream, delivered, early, handshakeErr, errorReturned)
  BY Known
<1> DEFINE s == Stream
           n == Len(delivered)
<1> HIDE DEF s, n
<1>4. DInv("clientHello", outLevel, cfg.isClient, s, n, early', session, canceled, waitingForDrain)
  BY <1>3 DEF DInv, Undec, s, n
<1>5. SInv("clientHello", outLevel, s, delivered, early', handshakeErr', errorReturned)
  <2>1. handshakeErr => handshakeErr'
    BY DEF KeepsRest
  <2> QED
    BY <1>3, <2>1 DEF SInv, Sealed, s, n
<1> QED
  BY <1>1, <1>2, <1>4, <1>5, Assemble DEF s, n

-----------------------------------------------------------------------------
(* The steps of the handshake keep the events in order. *)

LEMMA GotoStage ==
  ASSUME HsType, hs.pc \in HsLabels \ {"blocked", "signal", "woken"},
         NEW l \in HsLabels \ {"blocked", "signal", "woken"},
         HsGoto(l)
  PROVE  Stage = hs.pc /\ Stage' = l
BY HsGotoFacts, StageNow, StageThen

(* ... with what it has found out of the PSK or of a retry. *)
LEMMA SetStage ==
  ASSUME HsType, hs.pc \in HsLabels \ {"blocked", "signal", "woken"},
         NEW l \in HsLabels \ {"blocked", "signal", "woken"}, NEW b,
         \/ hs' = [hs EXCEPT !.pc = l, !.psk = b]
         \/ hs' = [hs EXCEPT !.pc = l, !.retried = b]
  PROVE  Stage = hs.pc /\ Stage' = l
<1>1. hs'.pc = l
  BY DEF HsType
<1> QED
  BY <1>1, StageNow, StageThen

LEMMA FailsStage ==
  ASSUME HsType, hs.pc \in HsLabels \ {"blocked", "signal", "woken"}, Fails
  PROVE  Stage = hs.pc /\ Stage' = "closeBlocked" /\ (handshakeErr => handshakeErr') /\ UNCHANGED <<early, outLevel>>
BY FailsFacts, StageNow, StageThen

LEMMA WaitsStage ==
  ASSUME HsType, hs.pc \in Stages \ {"woken"}, Waits
  PROVE  Stage = hs.pc /\ Stage' = hs.pc
BY WaitsFacts, StageNow, StageThen, StageLabels

LEMMA SameEdge ==
  ASSUME NEW g PROVE Edge(g, g)
BY DEF Edge

LEMMA FailEdge ==
  ASSUME NEW g \in Stages \ {"drainWait"} PROVE Edge(g, "closeBlocked")
BY DEF Edge, Undec, Sealed

(* A step that fails, emitting nothing. *)
LEMMA FailsQuietly ==
  ASSUME HsType, EventInv, hs.pc \in Stages \ {"woken", "drainWait"}, Fails,
         UNCHANGED <<cfg, canceled, session, queue>>
  PROVE  EventInv'
<1>1. Stage = hs.pc /\ Stage' = "closeBlocked" /\ (handshakeErr => handshakeErr') /\ UNCHANGED <<early, outLevel>>
  BY FailsStage, StageLabels
<1>2. Edge(Stage, Stage')
  BY <1>1, FailEdge
<1> QED
  BY <1>1, <1>2, QuietStep DEF Quiet

(* The control-flow steps of the goroutine. *)
LEMMA EventsControl ==
  ASSUME HsType, ControlInv, EventInv,
         \/ \E l \in ReadStages : NeedsData(l) \/ Rejects(l)
         \/ Woken \/ GetTransportParameters \/ Resume \/ DrainWait \/ Result \/ CloseBlocked \/ CloseSignal
  PROVE  EventInv'
<1>0. hs.pc \in HsLabels /\ hs.back \in Stages
  BY DEF HsType
<1>1. ASSUME NEW l \in ReadStages, NeedsData(l) PROVE EventInv'
  <2>1. hs.pc = l /\ Waits /\ UNCHANGED <<cfg, canceled, session, early, outLevel, handshakeErr, queue>>
    BY <1>1 DEF NeedsData, HsAt, ctl, conn
  <2>2. Stage' = Stage
    BY <2>1, WaitsStage, StageLabels
  <2> QED
    BY <2>1, <2>2, SameEdge, QuietStep DEF Quiet
<1>2. ASSUME NEW l \in ReadStages, Rejects(l) PROVE EventInv'
  <2>1. hs.pc = l /\ Fails /\ UNCHANGED <<cfg, canceled, session, queue>>
    BY <1>2 DEF Rejects, Takes, HsAt, ctl
  <2>2. hs.pc \in Stages \ {"woken", "drainWait"}
    BY <2>1, <1>2 DEF ReadStages, Stages
  <2> QED
    BY <2>1, <2>2, FailsQuietly
<1>3. ASSUME Woken PROVE EventInv'
  <2>1. hs.pc = "woken" /\ UNCHANGED <<cfg, canceled, session, queue>> /\ Stage = hs.back
    BY <1>3, StageNow DEF Woken, HsAt, ctl
  <2>2. hs.back \in WaitStages
    BY <2>1 DEF ControlInv, WaitStages
  <2>3. CASE canceled /\ hs.back = "drainWait" /\ cfg.isClient
    <3>1. HsGoto("offer") /\ UNCHANGED <<early, outLevel, handshakeErr>>
      BY <1>3, <2>3 DEF Woken, Fails, conn
    <3>2. Stage' = "offer"
      BY <3>1, HsGotoFacts, StageThen DEF HsLabels, Stages
    <3>3. Edge(Stage, Stage')
      BY <2>1, <2>3, <3>2 DEF Edge, Undec, Sealed
    <3> QED
      BY <2>1, <3>1, <3>3, QuietStep DEF Quiet
  <2>4. CASE canceled /\ ~(hs.back = "drainWait" /\ cfg.isClient)
    <3>1. Fails
      BY <1>3, <2>4 DEF Woken
    <3>2. Stage' = "closeBlocked" /\ handshakeErr' = TRUE /\ UNCHANGED <<early, outLevel>>
      BY <3>1, FailsFacts, StageThen
    <3>3. Edge(Stage, Stage')
      BY <2>1, <2>2, <2>4, <3>2 DEF Edge, Undec, Sealed
    <3> QED
      BY <2>1, <3>2, <3>3, QuietStep DEF Quiet
  <2>5. CASE ~canceled
    <3>1. HsGoto(hs.back) /\ UNCHANGED <<early, outLevel, handshakeErr>>
      BY <1>3, <2>5 DEF Woken
    <3>2. hs'.pc = hs.back
      BY <3>1, <1>0, HsGotoFacts, StageLabels
    <3>3. Stage' = Stage
      BY <2>1, <2>2, <3>2, StageThen, StageLabels
    <3> QED
      BY <2>1, <3>1, <3>3, SameEdge, QuietStep DEF Quiet
  <2> QED
    BY <2>3, <2>4, <2>5
<1>4. ASSUME GetTransportParameters PROVE EventInv'
  <2>1. hs.pc \in {"params", "paramsWait"} /\ UNCHANGED <<cfg, canceled, session, early, outLevel, handshakeErr>>
    BY <1>4 DEF GetTransportParameters, HsAt, ctl, conn
  <2>2. CASE params
    <3>1. HsGoto(IF cfg.isClient THEN "resume" ELSE "flight") /\ UNCHANGED queue
      BY <1>4, <2>2 DEF GetTransportParameters
    <3> DEFINE l == IF cfg.isClient THEN "resume" ELSE "flight"
    <3>a. l \in {"resume", "flight"} /\ (l = "resume" <=> cfg.isClient) /\ HsGoto(l)
      BY <3>1
    <3> HIDE DEF l
    <3>2. Stage = hs.pc /\ Stage' = l
      BY <2>1, <3>a, GotoStage DEF HsLabels, Stages
    <3>3. Edge(Stage, Stage')
      BY <2>1, <3>a, <3>2 DEF Edge, Undec, Sealed
    <3> QED
      BY <2>1, <3>1, <3>3, QuietStep DEF Quiet
  <2>3. CASE ~params /\ hs.pc = "params"
    <3>1. HsGoto("paramsWait") /\ Emits(<<Plain("TransportParametersRequired")>>)
      BY <1>4, <2>3 DEF GetTransportParameters, HsAt
    <3>2. Stage = "params" /\ Stage' = "paramsWait"
      BY <2>3, <3>1, GotoStage DEF HsLabels, Stages
    <3>3. Edge(Stage, Stage')
      BY <3>2 DEF Edge, Undec, Sealed
    <3>4. KeepsRest
      BY <2>1, <3>1 DEF KeepsRest, Emits
    <3> DEFINE e == Plain("TransportParametersRequired")
    <3>5. e \in Events /\ e.kind = "TransportParametersRequired" /\ e.level = "Initial"
      BY PlainEvents DEF Kinds
    <3> HIDE DEF e
    <3> QED
      BY <2>1, <3>1, <3>3, <3>4, <3>5, AddsOne DEF e
  <2>4. CASE ~params /\ hs.pc = "paramsWait"
    <3>1. Waits /\ UNCHANGED queue
      BY <1>4, <2>4 DEF GetTransportParameters, HsAt
    <3>2. Stage' = Stage
      BY <2>4, <3>1, WaitsStage DEF Stages
    <3> QED
      BY <2>1, <3>1, <3>2, SameEdge, QuietStep DEF Quiet
  <2> QED
    BY <2>1, <2>2, <2>3, <2>4
<1>5. ASSUME Resume PROVE EventInv'
  <2>1. hs.pc = "resume" /\ UNCHANGED <<cfg, canceled, session, early, outLevel, handshakeErr>>
    BY <1>5 DEF Resume, HsAt, ctl, conn
  <2>2. \/ HsGoto(IF cfg.isClient THEN "clientHello" ELSE "serverHello") /\ UNCHANGED queue
        \/ HsGoto("offer") /\ UNCHANGED queue
        \/ /\ HsGoto("drainWait") /\ events' = Append(events, Plain("ResumeSession")) /\ waitingForDrain' = TRUE
           /\ UNCHANGED <<nextEvent, errorReturned, written, delivered>>
    BY <1>5 DEF Resume
  <2>3. CASE \E l \in {IF cfg.isClient THEN "clientHello" ELSE "serverHello", "offer"} : HsGoto(l) /\ UNCHANGED queue
    <3>1. PICK l \in {IF cfg.isClient THEN "clientHello" ELSE "serverHello", "offer"} : HsGoto(l) /\ UNCHANGED queue
      BY <2>3
    <3>2. Stage = "resume" /\ Stage' = l
      BY <2>1, <3>1, GotoStage DEF HsLabels, Stages
    <3>3. Edge(Stage, Stage')
      BY <3>1, <3>2 DEF Edge, Undec, Sealed
    <3> QED
      BY <2>1, <3>1, <3>3, QuietStep DEF Quiet
  <2>4. CASE HsGoto("drainWait") /\ events' = Append(events, Plain("ResumeSession")) /\ waitingForDrain' = TRUE
             /\ UNCHANGED <<nextEvent, errorReturned, written, delivered>>
    <3>1. Stage = "resume" /\ Stage' = "drainWait"
      BY <2>1, <2>4, GotoStage DEF HsLabels, Stages
    <3>2. KeepsRest
      BY <2>1, <2>4 DEF KeepsRest
    <3> QED
      BY <2>1, <2>4, <3>1, <3>2, AddsResume
  <2> QED
    BY <2>2, <2>3, <2>4
<1>6. ASSUME DrainWait PROVE EventInv'
  <2>1. hs.pc = "drainWait" /\ UNCHANGED <<cfg, canceled, session, early, outLevel, handshakeErr, queue>>
    BY <1>6 DEF DrainWait, HsAt, ctl, conn
  <2>2. CASE waitingForDrain
    <3>1. Stage' = Stage
      BY <1>6, <2>1, <2>2, WaitsStage DEF DrainWait, Stages
    <3> QED
      BY <2>1, <3>1, SameEdge, QuietStep DEF Quiet
  <2>3. CASE ~waitingForDrain
    <3>1. Stage = "drainWait" /\ Stage' = "offer"
      BY <1>6, <2>1, <2>3, GotoStage DEF DrainWait, HsLabels, Stages
    <3>2. Edge(Stage, Stage')
      BY <2>3, <3>1 DEF Edge, Undec, Sealed
    <3> QED
      BY <2>1, <3>2, QuietStep DEF Quiet
  <2> QED
    BY <2>2, <2>3
<1>7. ASSUME Result PROVE EventInv'
  <2>1. hs.pc = "result" /\ UNCHANGED <<cfg, canceled, session, early, outLevel, handshakeErr>>
    BY <1>7 DEF Result, HsAt, ctl, conn
  <2>2. HsGoto("closeBlocked") /\ Emits(<<Plain("HandshakeDone"), Event("SetReadSecret", "Application")>>)
    BY <1>7, <2>1 DEF Result, ControlInv
  <2>3. Stage = "result" /\ Stage' = "closeBlocked"
    BY <2>1, <2>2, GotoStage DEF HsLabels, Stages
  <2>4. KeepsRest
    BY <2>1, <2>2 DEF KeepsRest, Emits
  <2> QED
    BY <2>1, <2>2, <2>3, <2>4, AddsDone
<1>8. ASSUME CloseBlocked \/ CloseSignal PROVE EventInv'
  <2>1. UNCHANGED <<cfg, canceled, session, early, outLevel, handshakeErr, queue>>
    BY <1>8 DEF CloseBlocked, CloseSignal, conn
  <2>2. \/ Stage = "closeBlocked" /\ Stage' = "closeSignal"
        \/ Stage = "closeSignal" /\ Stage' = "exited"
    BY <1>8, GotoStage DEF CloseBlocked, CloseSignal, HsAt, HsLabels, Stages
  <2>3. Edge(Stage, Stage')
    BY <2>2 DEF Edge, Undec, Sealed
  <2> QED
    BY <2>1, <2>3, QuietStep DEF Quiet
<1> QED
  BY <1>1, <1>2, <1>3, <1>4, <1>5, <1>6, <1>7, <1>8

(* The events that tell of the peer's transport parameters. *)
LEMMA AddsParams ==
  ASSUME EventInv, Emits(<<Plain("TransportParameters")>>), KeepsRest, UNCHANGED <<early, outLevel>>, Edge(Stage, Stage')
  PROVE  EventInv'
<1> DEFINE e == Plain("TransportParameters")
<1>1. e \in Events /\ e.kind = "TransportParameters" /\ e.level = "Initial"
  BY PlainEvents DEF Kinds
<1> HIDE DEF e
<1> QED
  BY <1>1, AddsOne DEF e

(* The client's steps. *)
LEMMA EventsClient ==
  ASSUME HsType, ControlInv, EventInv,
         ClientOffer \/ ClientHello \/ HelloRetryRequest \/ ServerHello \/ EncryptedExtensions
         \/ ServerCertificate \/ ServerFinished
  PROVE  EventInv'
<1>0. hs.pc \in HsLabels /\ hs.back \in Stages
  BY DEF HsType
<1>1. ASSUME ClientOffer PROVE EventInv'
  <2>1. /\ hs.pc = "offer" /\ cfg.isClient /\ hs' = [hs EXCEPT !.pc = "clientHello", !.psk = TRUE]
        /\ early' \in {FALSE, session # "declined"} /\ UNCHANGED <<outLevel, queue>>
        /\ UNCHANGED <<cfg, canceled, session, handshakeErr>>
    BY <1>1 DEF ClientOffer, HsAt, ctl
  <2>2. Stage = "offer" /\ Stage' = "clientHello"
    BY <2>1, SetStage DEF HsLabels, Stages
  <2>3. KeepsRest
    BY <2>1 DEF KeepsRest, queue
  <2> QED
    BY <2>1, <2>2, <2>3, OffersEarly
<1>2. ASSUME ClientHello PROVE EventInv'
  <2>1. hs.pc = "clientHello" /\ HsGoto("readHello") /\ UNCHANGED <<cfg, canceled, session, early, outLevel, handshakeErr>>
    BY <1>2 DEF ClientHello, HsAt, ctl, conn
  <2>2. Stage = "clientHello" /\ Stage' = "readHello"
    BY <2>1, GotoStage DEF HsLabels, Stages
  <2>3. CASE early
    <3>1. Writes(<<>>, outLevel, <<Event("SetWriteSecret", "Early")>>)
      BY <1>2, <2>3 DEF ClientHello
    <3>2. KeepsRest
      BY <2>1, <3>1 DEF KeepsRest, Writes
    <3> QED
      BY <2>1, <2>2, <2>3, <3>1, <3>2, WritesHello
  <2>4. CASE ~early
    <3>1. Writes(<<>>, outLevel, <<>>)
      BY <1>2, <2>4 DEF ClientHello
    <3>2. KeepsRest
      BY <2>1, <3>1 DEF KeepsRest, Writes
    <3> QED
      BY <2>1, <2>2, <2>4, <3>1, <3>2, WritesPlainHello
  <2> QED
    BY <2>3, <2>4
<1>3. ASSUME HelloRetryRequest PROVE EventInv'
  <2>1. /\ hs.pc = "readHello" /\ cfg.isClient /\ hs' = [hs EXCEPT !.retried = TRUE]
        /\ early' = FALSE /\ UNCHANGED <<cfg, canceled, session, outLevel, handshakeErr>>
    BY <1>3 DEF HelloRetryRequest, Takes, HsAt, ctl
  <2>2. Stage = "readHello" /\ Stage' = "readHello"
    <3>1. hs'.pc = hs.pc
      BY <2>1 DEF HsType
    <3> QED
      BY <2>1, <3>1, StageNow, StageThen
  <2>3. CASE early
    <3>1. Writes(<<Plain("RejectedEarlyData")>>, outLevel, <<>>)
      BY <1>3, <2>3 DEF HelloRetryRequest
    <3>2. KeepsRest
      BY <2>1, <3>1 DEF KeepsRest, Writes
    <3> QED
      BY <2>1, <2>2, <2>3, <3>1, <3>2, WritesRetry
  <2>4. CASE ~early
    <3>1. Writes(<<>>, outLevel, <<>>)
      BY <1>3, <2>4 DEF HelloRetryRequest
    <3>2. KeepsRest
      BY <2>1, <3>1 DEF KeepsRest, Writes
    <3> QED
      BY <2>1, <2>2, <2>4, <3>1, <3>2, WritesPlainHello
  <2> QED
    BY <2>3, <2>4
<1>4. ASSUME ServerHello PROVE EventInv'
  <2>1. hs.pc = "readHello" /\ UNCHANGED <<cfg, canceled, session>>
    BY <1>4 DEF ServerHello, Takes, HsAt, ctl
  <2>2. CASE Fails /\ UNCHANGED queue
    BY <2>1, <2>2, FailsQuietly DEF Stages
  <2>3. CASE HandshakeKeys /\ Emits(HandshakeSecrets) /\ \E b \in {FALSE, hs.psk} : hs' = [hs EXCEPT !.pc = "ee", !.psk = b]
    <3>1. Stage = "readHello" /\ Stage' = "ee"
      BY <2>1, <2>3, SetStage DEF HsLabels, Stages
    <3>2. early' = early /\ outLevel' = "Handshake" /\ handshakeErr' = handshakeErr
      BY <2>3 DEF HandshakeKeys
    <3>3. KeepsRest
      BY <2>1, <2>3, <3>2 DEF KeepsRest, Emits
    <3> QED
      BY <2>3, <3>1, <3>2, <3>3, AddsKeys
  <2> QED
    BY <1>4, <2>2, <2>3 DEF ServerHello
<1>5. ASSUME EncryptedExtensions PROVE EventInv'
  <2>1. hs.pc = "ee" /\ UNCHANGED <<cfg, canceled, session, early, outLevel, handshakeErr>>
    BY <1>5 DEF EncryptedExtensions, Takes, HsAt, ctl
  <2>2. PICK l \in {"finished", "certReq"} : HsGoto(l)
    BY <1>5 DEF EncryptedExtensions
  <2>3. Stage = "ee" /\ Stage' = l
    BY <2>1, <2>2, GotoStage DEF HsLabels, Stages
  <2>4. CASE Emits(<<Plain("TransportParameters")>>)
    <3>1. KeepsRest
      BY <2>1, <2>4 DEF KeepsRest, Emits
    <3>2. Edge(Stage, Stage')
      BY <2>3 DEF Edge, Undec, Sealed
    <3> QED
      BY <2>1, <2>4, <3>1, <3>2, AddsParams
  <2>5. CASE early /\ Emits(<<Plain("TransportParameters"), Plain("RejectedEarlyData")>>)
    <3>1. KeepsRest
      BY <2>1, <2>5 DEF KeepsRest, Emits
    <3> QED
      BY <2>1, <2>3, <2>5, <3>1, AddsRejection
  <2> QED
    BY <1>5, <2>4, <2>5 DEF EncryptedExtensions
<1>6. ASSUME ServerCertificate PROVE EventInv'
  <2>1. /\ hs.pc \in {"certReq", "cert", "certVerify"}
        /\ UNCHANGED <<cfg, canceled, session, early, outLevel, handshakeErr, queue>>
    BY <1>6 DEF ServerCertificate, Takes, HsAt, ctl
  <2>2. PICK l \in {"cert", "certVerify", "finished"} : HsGoto(l)
    BY <1>6 DEF ServerCertificate
  <2>3. Stage = hs.pc /\ Stage' = l
    BY <2>1, <2>2, GotoStage DEF HsLabels, Stages
  <2>4. Edge(Stage, Stage')
    BY <2>1, <2>3 DEF Edge, Undec, Sealed
  <2> QED
    BY <2>1, <2>4, QuietStep DEF Quiet
<1>7. ASSUME ServerFinished PROVE EventInv'
  <2>1. hs.pc = "finished" /\ UNCHANGED <<cfg, canceled, session>>
    BY <1>7 DEF ServerFinished, Takes, HsAt, ctl
  <2>2. CASE Fails /\ UNCHANGED queue
    BY <2>1, <2>2, FailsQuietly DEF Stages
  <2>3. CASE /\ HsGoto("result") /\ outLevel' = "Application" /\ UNCHANGED <<early, handshakeErr>>
             /\ Writes(<<>>, outLevel, <<Event("SetWriteSecret", "Application")>>)
    <3>1. Stage = "finished" /\ Stage' = "result"
      BY <2>1, <2>3, GotoStage DEF HsLabels, Stages
    <3>2. KeepsRest
      BY <2>1, <2>3 DEF KeepsRest, Writes
    <3> QED
      BY <2>3, <3>1, <3>2, WritesFlight DEF Sealed
  <2> QED
    BY <1>7, <2>2, <2>3 DEF ServerFinished
<1> QED
  BY <1>1, <1>2, <1>3, <1>4, <1>5, <1>6, <1>7

(* The server's steps. *)
LEMMA EventsServer ==
  ASSUME HsType, ControlInv, EventInv,
         ReadClientHello \/ ReadRetryHello \/ ServerOffer \/ SendServerHello \/ SendServerFlight
         \/ ClientCertificate \/ ClientFinished
  PROVE  EventInv'
<1>0. hs.pc \in HsLabels /\ hs.back \in Stages
  BY DEF HsType
<1>1. ASSUME ReadClientHello PROVE EventInv'
  <2>1. hs.pc = "readHello" /\ ~cfg.isClient /\ UNCHANGED <<cfg, canceled, session, early, outLevel, handshakeErr>>
    BY <1>1 DEF ReadClientHello, Takes, HsAt, ctl
  <2>2. CASE HsGoto("resume") /\ Emits(<<Plain("TransportParameters")>>)
    <3>1. Stage = "readHello" /\ Stage' = "resume"
      BY <2>1, <2>2, GotoStage DEF HsLabels, Stages
    <3>2. Edge(Stage, Stage')
      BY <2>1, <3>1 DEF Edge, Undec, Sealed
    <3>3. KeepsRest
      BY <2>1, <2>2 DEF KeepsRest, Emits
    <3> QED
      BY <2>1, <2>2, <3>2, <3>3, AddsParams
  <2>3. CASE hs' = [hs EXCEPT !.pc = "readRetryHello", !.retried = TRUE] /\ Writes(<<>>, outLevel, <<>>)
    <3>1. Stage = "readHello" /\ Stage' = "readRetryHello"
      BY <2>1, <2>3, SetStage DEF HsLabels, Stages
    <3>2. Edge(Stage, Stage')
      BY <2>1, <3>1 DEF Edge, Undec, Sealed
    <3>3. KeepsRest
      BY <2>1, <2>3 DEF KeepsRest, Writes
    <3> QED
      BY <2>1, <2>3, <3>2, <3>3, WritesOne
  <2> QED
    BY <1>1, <2>2, <2>3 DEF ReadClientHello
<1>2. ASSUME ReadRetryHello PROVE EventInv'
  <2>1. /\ hs.pc = "readRetryHello" /\ UNCHANGED <<cfg, canceled, session, early, outLevel, handshakeErr>>
        /\ HsGoto("resume") /\ Emits(<<Plain("TransportParameters")>>)
    BY <1>2 DEF ReadRetryHello, Takes, HsAt, ctl
  <2>2. Stage = "readRetryHello" /\ Stage' = "resume"
    BY <2>1, GotoStage DEF HsLabels, Stages
  <2>3. ~cfg.isClient
    BY <2>2, Known DEF DInv
  <2>4. Edge(Stage, Stage')
    BY <2>2, <2>3 DEF Edge, Undec, Sealed
  <2>5. KeepsRest
    BY <2>1 DEF KeepsRest, Emits
  <2> QED
    BY <2>1, <2>4, <2>5, AddsParams
<1>3. ASSUME ServerOffer PROVE EventInv'
  <2>1. hs.pc = "offer" /\ ~cfg.isClient /\ UNCHANGED <<cfg, canceled, session>>
    BY <1>3 DEF ServerOffer, HsAt, ctl
  <2>2. CASE Fails /\ UNCHANGED queue
    BY <2>1, <2>2, FailsQuietly DEF Stages
  <2>a. ASSUME hs' = [hs EXCEPT !.pc = "serverHello", !.psk = TRUE]
        PROVE  Stage = "offer" /\ Stage' = "serverHello" /\ Edge(Stage, Stage')
    <3>1. Stage = "offer" /\ Stage' = "serverHello"
      BY <2>1, <2>a, SetStage DEF HsLabels, Stages
    <3> QED
      BY <2>1, <3>1 DEF Edge, Undec, Sealed
  <2>3. CASE hs' = [hs EXCEPT !.pc = "serverHello", !.psk = TRUE] /\ UNCHANGED <<conn, queue>>
    <3>1. UNCHANGED <<early, outLevel, handshakeErr, queue>>
      BY <2>3 DEF conn
    <3> QED
      BY <2>1, <2>3, <2>a, <3>1, QuietStep DEF Quiet
  <2>4. CASE /\ session # "declined" /\ hs' = [hs EXCEPT !.pc = "serverHello", !.psk = TRUE]
             /\ Emits(<<Event("SetReadSecret", "Early")>>) /\ UNCHANGED conn
    <3>1. UNCHANGED <<early, outLevel, handshakeErr>>
      BY <2>4 DEF conn
    <3>2. KeepsRest
      BY <2>1, <2>4, <3>1 DEF KeepsRest, Emits
    <3> QED
      BY <2>1, <2>4, <2>a, <3>1, <3>2, AddsEarly
  <2> QED
    BY <1>3, <2>2, <2>3, <2>4 DEF ServerOffer
<1>4. ASSUME SendServerHello PROVE EventInv'
  <2>1. hs.pc = "serverHello" /\ UNCHANGED <<cfg, canceled, session>>
    BY <1>4 DEF SendServerHello, HsAt, ctl
  <2>2. CASE Fails /\ UNCHANGED queue
    BY <2>1, <2>2, FailsQuietly DEF Stages
  <2>3. CASE Fails /\ Writes(<<>>, outLevel, <<>>)
    <3>1. Stage = "serverHello" /\ Stage' = "closeBlocked" /\ (handshakeErr => handshakeErr') /\ UNCHANGED <<early, outLevel>>
      BY <2>1, <2>3, FailsStage DEF HsLabels, Stages
    <3>2. Edge(Stage, Stage')
      BY <3>1 DEF Edge, Undec, Sealed
    <3>3. KeepsRest
      BY <2>1, <2>3, <3>1 DEF KeepsRest, Writes
    <3> QED
      BY <2>3, <3>1, <3>2, <3>3, WritesOne
  <2>4. CASE HandshakeKeys /\ Writes(<<>>, outLevel, HandshakeSecrets) /\ HsGoto("params")
    <3>1. Stage = "serverHello" /\ Stage' = "params"
      BY <2>1, <2>4, GotoStage DEF HsLabels, Stages
    <3>2. early' = early /\ outLevel' = "Handshake" /\ handshakeErr' = handshakeErr
      BY <2>4 DEF HandshakeKeys
    <3>3. KeepsRest
      BY <2>1, <2>4, <3>2 DEF KeepsRest, Writes
    <3> QED
      BY <2>4, <3>1, <3>2, <3>3, WritesKeys
  <2> QED
    BY <1>4, <2>2, <2>3, <2>4 DEF SendServerHello
<1>5. ASSUME SendServerFlight PROVE EventInv'
  <2>1. hs.pc = "flight" /\ UNCHANGED <<cfg, canceled, session>>
    BY <1>5 DEF SendServerFlight, HsAt, ctl
  <2>2. CASE Fails /\ UNCHANGED queue
    BY <2>1, <2>2, FailsQuietly DEF Stages
  <2>3. CASE /\ \E l \in {"clientFinished", "clientCert"} : HsGoto(l)
             /\ outLevel' = "Application" /\ UNCHANGED <<early, handshakeErr>>
             /\ Writes(<<>>, outLevel, <<Event("SetWriteSecret", "Application")>>)
    <3>1. Stage = "flight" /\ Stage' \in {"clientFinished", "clientCert"}
      BY <2>1, <2>3, GotoStage DEF HsLabels, Stages
    <3>2. KeepsRest
      BY <2>1, <2>3 DEF KeepsRest, Writes
    <3> QED
      BY <2>3, <3>1, <3>2, WritesFlight DEF Sealed
  <2> QED
    BY <1>5, <2>2, <2>3 DEF SendServerFlight
<1>6. ASSUME ClientCertificate PROVE EventInv'
  <2>1. /\ hs.pc \in {"clientCert", "clientCertVerify"}
        /\ UNCHANGED <<cfg, canceled, session, early, outLevel, handshakeErr, queue>>
    BY <1>6 DEF ClientCertificate, Takes, HsAt, ctl
  <2>2. PICK l \in {"clientCertVerify", "clientFinished"} : HsGoto(l)
    BY <1>6 DEF ClientCertificate
  <2>3. Stage = hs.pc /\ Stage' = l
    BY <2>1, <2>2, GotoStage DEF HsLabels, Stages
  <2>4. Edge(Stage, Stage')
    BY <2>1, <2>3 DEF Edge, Undec, Sealed
  <2> QED
    BY <2>1, <2>4, QuietStep DEF Quiet
<1>7. ASSUME ClientFinished PROVE EventInv'
  <2>1. hs.pc = "clientFinished" /\ UNCHANGED <<cfg, canceled, session, queue>>
    BY <1>7 DEF ClientFinished, Takes, HsAt, ctl
  <2>2. CASE Fails
    BY <2>1, <2>2, FailsQuietly DEF Stages
  <2>3. CASE HsGoto("result") /\ UNCHANGED <<early, outLevel, handshakeErr>>
    <3>1. Stage = "clientFinished" /\ Stage' = "result"
      BY <2>1, <2>3, GotoStage DEF HsLabels, Stages
    <3>2. Edge(Stage, Stage')
      BY <3>1 DEF Edge, Undec, Sealed
    <3> QED
      BY <2>1, <2>3, <3>2, QuietStep DEF Quiet
  <2> QED
    BY <1>7, <2>2, <2>3 DEF ClientFinished
<1> QED
  BY <1>1, <1>2, <1>3, <1>4, <1>5, <1>6, <1>7

LEMMA EventsHsStep ==
  ASSUME HsType, ControlInv, EventInv, HsStep PROVE EventInv'
BY EventsControl, EventsClient, EventsServer DEF HsStep

-----------------------------------------------------------------------------
(* What NextEvent does to the queue and to the stream. *)

Zeroed(ev, n) == [ev EXCEPT ![n+1] = Plain("NoEvent")]
WithNext(d, ev, n) == Append(d, ev[n+1])

LEMMA QTakesNext ==
  ASSUME NEW ev, NEW n, NEW w, NEW d, QInv(ev, n, w, d), n < Len(ev)
  PROVE  /\ QInv(Zeroed(ev, n), n+1, w, WithNext(d, ev, n))
         /\ StreamOf(WithNext(d, ev, n), Zeroed(ev, n), n+1) = StreamOf(d, ev, n)
         /\ Len(WithNext(d, ev, n)) = Len(d) + 1
         /\ ev[n+1] = StreamOf(d, ev, n)[Len(d)+1] /\ Len(StreamOf(d, ev, n)) > Len(d)
<1> DEFINE x == Plain("NoEvent")
           f == [ev EXCEPT ![n+1] = x]
           c == Append(d, ev[n+1])
<1>0. x \in Events /\ x.kind = "NoEvent"
  BY PlainEvents DEF Kinds
<1>1. /\ ev \in Seq(Events) /\ n \in 0..Len(ev) /\ w \in Nat /\ d \in Seq(Events) /\ n \in Nat /\ Len(ev) \in Nat
      /\ \A i \in 1..n : ev[i].kind = "NoEvent"
  BY LenProperties DEF QInv
<1> HIDE DEF x
<1>2. /\ f \in Seq(Events) /\ n+1 \in 0..Len(f)
      /\ c \in Seq(Events) /\ Len(c) = Len(d) + 1
      /\ ev[n+1] = StreamOf(d, ev, n)[Len(d)+1] /\ Len(StreamOf(d, ev, n)) > Len(d)
      /\ StreamOf(c, f, n+1) = StreamOf(d, ev, n)
  BY <1>0, <1>1, StreamTakes
<1>3. n+1 \in 1..Len(ev)
  BY <1>1
<1>4. \A i \in 1..Len(ev) : f[i] = IF i = n+1 THEN x ELSE ev[i]
  BY <1>0, <1>1, <1>3, ExceptSeq
<1> HIDE DEF f, c
<1>5. ASSUME NEW i \in 1..n+1 PROVE f[i].kind = "NoEvent"
  <2>1. CASE i = n+1
    BY <1>0, <1>3, <1>4, <2>1
  <2>2. CASE i # n+1
    <3>1. i \in 1..n /\ i \in 1..Len(ev)
      BY <1>1, <2>2
    <3> QED
      BY <1>1, <1>4, <2>2, <3>1
  <2> QED
    BY <2>1, <2>2
<1>6. QInv(f, n+1, w, c)
  BY <1>1, <1>2, <1>5 DEF QInv
<1> QED
  BY <1>2, <1>6 DEF f, c, x, Zeroed, WithNext

(* With an empty queue the stream is what was taken. *)
LEMMA QEmpty ==
  ASSUME NEW w \in Nat, NEW d \in Seq(Events)
  PROVE  QInv(<<>>, 0, w, d) /\ StreamOf(d, <<>>, 0) = d
<1>1. <<>> \in Seq(Events) /\ Len(<<>>) = 0
  BY EmptySeq
<1>2. QInv(<<>>, 0, w, d)
  BY <1>1 DEF QInv
<1> QED
  BY <1>2, StreamTaken

LEMMA QDrained ==
  ASSUME NEW ev, NEW n, NEW w, NEW d, QInv(ev, n, w, d), n >= Len(ev)
  PROVE  StreamOf(d, ev, n) = d /\ ~Pend(d, Len(d)) /\ w \in Nat /\ d \in Seq(Events)
<1>1. ev \in Seq(Events) /\ n \in 0..Len(ev) /\ Len(ev) \in Nat /\ d \in Seq(Events) /\ Len(d) \in Nat /\ w \in Nat
  BY LenProperties DEF QInv
<1>2. n = Len(ev)
  BY <1>1
<1>3. StreamOf(d, ev, n) = d
  BY <1>1, <1>2, StreamTaken
<1>4. ~Pend(d, Len(d))
  BY <1>1 DEF Pend
<1> QED
  BY <1>1, <1>3, <1>4

LEMMA PendMore ==
  ASSUME NEW s \in Seq(Events), NEW n \in Nat, n < Len(s)
  PROVE  (Pend(s, n+1) => Pend(s, n)) /\ (s[n+1].kind = "ResumeSession" => Pend(s, n))
<1>0. Len(s) \in Nat /\ n+1 \in n+1..Len(s) /\ \A i \in (n+1)+1..Len(s) : i \in n+1..Len(s)
  BY LenProperties
<1> QED
  BY <1>0 DEF Pend

(* What was taken holds no 0-RTT secret if the stream does not. *)
LEMMA EarlyTaken ==
  ASSUME NEW ev, NEW n, NEW w, NEW d, QInv(ev, n, w, d), NoEarly(StreamOf(d, ev, n))
  PROVE  NoEarly(Append(d, Plain("Error")))
<1> DEFINE s == StreamOf(d, ev, n)
           t == Append(d, Plain("Error"))
<1>0. Plain("Error") \in Events /\ Plain("Error").level = "Initial"
  BY PlainEvents DEF Kinds
<1>1. d \in Seq(Events) /\ ev \in Seq(Events) /\ n \in 0..Len(ev)
  BY DEF QInv
<1>2. IsStream(s, Events, d, ev, n)
  BY <1>1, StreamOfFacts
<1>3. NoEarly(s)
  OBVIOUS
<1> HIDE DEF s
<1>4. /\ s \in Seq(Events) /\ Len(s) \in Nat /\ Len(d) \in Nat /\ Len(d) <= Len(s) /\ \A i \in 1..Len(d) : s[i] = d[i]
  BY <1>2, <1>1, LenProperties DEF IsStream
<1>5. DOMAIN s = 1..Len(s) /\ DOMAIN d = 1..Len(d) /\ \A i \in 1..Len(d) : i \in 1..Len(s)
  BY <1>1, <1>4, LenProperties
<1>6. NoEarly(d)
  BY <1>3, <1>4, <1>5 DEF NoEarly
<1>7. /\ t \in Seq(Events) /\ Len(t) = Len(d) + 1 /\ t[Len(d)+1] = Plain("Error") /\ \A i \in 1..Len(d) : t[i] = d[i]
  BY <1>0, <1>1, AppendProperties
<1> HIDE DEF t
<1>8. DOMAIN t = 1..Len(d)+1
  BY <1>4, <1>7, LenProperties
<1>9. NoEarly(t)
  BY <1>0, <1>4, <1>5, <1>6, <1>7, <1>8 DEF NoEarly
<1> QED
  BY <1>9 DEF t

(* Taking an event keeps the events in order. *)
LEMMA EventsTake ==
  ASSUME EventInv, TakeEvent, UNCHANGED <<cfg, canceled, waitingForDrain, early, outLevel, handshakeErr>>, Stage' = Stage
  PROVE  EventInv'
<1> DEFINE s == Stream
           n == Len(delivered)
           g == Stage
<1>1. /\ QInv(events, nextEvent, written, delivered)
      /\ s = StreamOf(delivered, events, nextEvent) /\ s \in Seq(Events) /\ n \in 0..Len(s)
      /\ DInv(g, outLevel, cfg.isClient, s, n, early, session, canceled, waitingForDrain)
      /\ SInv(g, outLevel, s, delivered, early, handshakeErr, errorReturned)
  BY Known, StreamIs DEF QNow
<1>2. Stream' = StreamOf(delivered', events', nextEvent') /\ written' = written /\ n \in Nat
      /\ errorReturned' = (errorReturned \/ handshakeErr)
  BY <1>1 DEF Stream, StreamOf, TakeEvent
<1>3. EventInv' <=> /\ QInv(events', nextEvent', written, delivered')
                    /\ DInv(g, outLevel, cfg.isClient, Stream', Len(delivered'), early, session', canceled, waitingForDrain)
                    /\ SInv(g, outLevel, Stream', delivered', early, handshakeErr, errorReturned')
  BY <1>2 DEF EventInv, QNow, DNow, SNow
<1> HIDE DEF s, n, g
<1>4. ASSUME TakesError, errorReturned PROVE EventInv'
  <2>1. /\ session' = Kept /\ events' = events /\ nextEvent' = nextEvent /\ delivered' = delivered
        /\ errorReturned' = TRUE /\ handshakeErr
    BY <1>2, <1>4 DEF TakesError
  <2>2. session' # "offered" /\ (session' = "declined" => session = "declined")
    BY <2>1 DEF Kept
  <2>3. Stream' = s /\ Len(delivered') = n
    BY <1>1, <1>2, <2>1 DEF n
  <2>4. DInv(g, outLevel, cfg.isClient, s, n, early, session', canceled, waitingForDrain)
    BY <1>1, <2>2 DEF DInv
  <2>5. SInv(g, outLevel, s, delivered, early, handshakeErr, TRUE)
    BY <1>1, <1>4, <2>1 DEF SInv
  <2> QED
    BY <1>1, <1>3, <2>1, <2>3, <2>4, <2>5
<1>5. ASSUME TakesError, ~errorReturned PROVE EventInv'
  <2> DEFINE d == Append(delivered, Plain("Error"))
  <2>1. /\ session' = Kept /\ events' = <<>> /\ nextEvent' = 0 /\ delivered' = d /\ errorReturned' = TRUE /\ handshakeErr
    BY <1>2, <1>5 DEF TakesError
  <2>2. session' # "offered" /\ (session' = "declined" => session = "declined")
    BY <2>1 DEF Kept
  <2>3. delivered \in Seq(Events) /\ events \in Seq(Events) /\ nextEvent \in 0..Len(events) /\ written \in Nat
    BY <1>1 DEF QInv
  <2>4. Plain("Error") \in Events
    BY PlainEvents DEF Kinds
  <2>5. d \in Seq(Events)
    BY <2>3, <2>4, AppendProperties
  <2>6. Fine(s) => InOrder(d)
    BY <1>1, <2>3, FineTaken
  <2>7. NoEarly(s) => NoEarly(d)
    BY <1>1, EarlyTaken
  <2> HIDE DEF d
  <2>8. QInv(<<>>, 0, written, d) /\ StreamOf(d, <<>>, 0) = d /\ ~Pend(d, Len(d))
    <3>1. QInv(<<>>, 0, written, d) /\ StreamOf(d, <<>>, 0) = d
      BY <2>3, <2>5, QEmpty
    <3>2. Len(d) \in Nat
      BY <2>5, LenProperties
    <3> QED
      BY <3>1, <3>2 DEF Pend
  <2>9. Stream' = d
    BY <1>2, <2>1, <2>8
  <2>10. DInv(g, outLevel, cfg.isClient, d, Len(d), early, session', canceled, waitingForDrain)
    BY <1>1, <2>2, <2>7, <2>8 DEF DInv
  <2>11. SInv(g, outLevel, d, d, early, handshakeErr, TRUE)
    BY <1>1, <1>5, <2>1, <2>6 DEF SInv
  <2> QED
    BY <1>3, <2>1, <2>8, <2>9, <2>10, <2>11
<1>6. ASSUME TakesNone PROVE EventInv'
  <2>1. /\ session' = Kept /\ events' = <<>> /\ nextEvent' = 0 /\ delivered' = delivered /\ ~handshakeErr
        /\ nextEvent >= Len(events)
    BY <1>6 DEF TakesNone
  <2>2. session' # "offered" /\ (session' = "declined" => session = "declined")
    BY <2>1 DEF Kept
  <2>3. s = delivered /\ ~Pend(s, n) /\ written \in Nat /\ delivered \in Seq(Events)
    BY <1>1, <2>1, QDrained DEF n
  <2>4. QInv(<<>>, 0, written, delivered) /\ StreamOf(delivered, <<>>, 0) = delivered
    BY <2>3, QEmpty
  <2>5. Stream' = s /\ Len(delivered') = n /\ ~errorReturned' /\ ~errorReturned
    BY <1>1, <1>2, <2>1, <2>3, <2>4 DEF SInv, n
  <2>6. DInv(g, outLevel, cfg.isClient, s, n, early, session', canceled, waitingForDrain)
    BY <1>1, <2>2, <2>3 DEF DInv
  <2>7. SInv(g, outLevel, s, delivered, early, handshakeErr, errorReturned')
    BY <1>1, <2>5 DEF SInv
  <2> QED
    BY <1>1, <1>3, <2>1, <2>4, <2>5, <2>6, <2>7
<1>7. ASSUME TakesNext PROVE EventInv'
  <2> DEFINE e == events[nextEvent + 1]
             d == WithNext(delivered, events, nextEvent)
             f == Zeroed(events, nextEvent)
  <2>1. /\ ~handshakeErr /\ nextEvent < Len(events) /\ delivered' = d /\ events' = f /\ nextEvent' = nextEvent + 1
        /\ session' = IF e.kind = "ResumeSession" THEN "offered" ELSE Kept
    BY <1>7 DEF TakesNext, Zeroed, WithNext
  <2>2. /\ QInv(f, nextEvent + 1, written, d) /\ StreamOf(d, f, nextEvent + 1) = s
        /\ Len(d) = n + 1 /\ e = s[n+1] /\ Len(s) > n
    BY <1>1, <2>1, QTakesNext DEF n
  <2> HIDE DEF e, d, f
  <2>3. Stream' = s /\ ~errorReturned' /\ ~errorReturned
    BY <1>1, <1>2, <2>1, <2>2 DEF SInv
  <2>4. (Pend(s, n+1) => Pend(s, n)) /\ (e.kind = "ResumeSession" => Pend(s, n))
    <3>1. n < Len(s)
      BY <1>1, <1>2, <2>2
    <3> QED
      BY <1>1, <1>2, <2>2, <3>1, PendMore
  <2>5. /\ session' = "offered" => Pend(s, n)
        /\ session' = "declined" => session = "declined"
    BY <2>1, <2>4 DEF Kept
  <2>6. DInv(g, outLevel, cfg.isClient, s, n+1, early, session', canceled, waitingForDrain)
    BY <1>1, <2>4, <2>5 DEF DInv
  <2>7. SInv(g, outLevel, s, d, early, handshakeErr, errorReturned')
    BY <1>1, <2>3 DEF SInv
  <2> QED
    BY <1>3, <2>1, <2>2, <2>3, <2>6, <2>7
<1> QED
  BY <1>4, <1>5, <1>6, <1>7 DEF TakeEvent

-----------------------------------------------------------------------------
(* The data of the stream is in sequence. *)

LEMMA DataTyped ==
  ASSUME NEW e \in Events
  PROVE  DataOf(e) \in Seq(Nat) /\ DOMAIN DataOf(e) = 1..Len(DataOf(e)) /\ Len(DataOf(e)) \in Nat
<1>1. DataOf(e) \in Seq(Nat)
  BY EmptySeq DEF DataOf, Events
<1> QED
  BY <1>1, LenProperties

(* An event that is not data changes nothing. *)
LEMMA SequenceOther ==
  ASSUME NEW s \in Seq(Events), NEW n \in Nat, InSequence(s, n), NEW e \in Events, e.kind # "WriteData"
  PROVE  InSequence(Append(s, e), n)
<1> DEFINE t == Append(s, e)
<1>1. /\ t \in Seq(Events) /\ Len(t) = Len(s) + 1 /\ t[Len(s)+1] = e /\ \A i \in 1..Len(s) : t[i] = s[i]
  BY AppendProperties
<1> HIDE DEF t
<1>2. Len(s) \in Nat /\ DOMAIN s = 1..Len(s) /\ DOMAIN t = 1..Len(s)+1
  BY <1>1, LenProperties
<1>3. DOMAIN DataOf(t[Len(s)+1]) = {}
  BY <1>1 DEF DataOf
<1>4. ASSUME NEW i \in DOMAIN t, NEW p \in DOMAIN DataOf(t[i])
      PROVE  i \in DOMAIN s /\ t[i] = s[i] /\ p \in DOMAIN DataOf(s[i])
  <2>1. i # Len(s)+1
    BY <1>3, <1>4
  <2>2. i \in 1..Len(s)
    BY <1>2, <2>1
  <2> QED
    BY <1>1, <1>2, <1>4, <2>2
<1>5. ASSUME NEW k \in 1..n
      PROVE  \E i \in DOMAIN t : \E p \in DOMAIN DataOf(t[i]) : DataOf(t[i])[p] = k
  <2>1. PICK i \in DOMAIN s : \E p \in DOMAIN DataOf(s[i]) : DataOf(s[i])[p] = k
    BY DEF InSequence
  <2>2. i \in DOMAIN t /\ t[i] = s[i]
    BY <1>1, <1>2
  <2> QED
    BY <2>1, <2>2
<1>6. ASSUME NEW i \in DOMAIN t, NEW j \in DOMAIN t, NEW p \in DOMAIN DataOf(t[i]), NEW q \in DOMAIN DataOf(t[j])
      PROVE  /\ DataOf(t[i])[p] \in 1..n
             /\ i < j \/ (i = j /\ p < q) => DataOf(t[i])[p] < DataOf(t[j])[q]
  <2>1. i \in DOMAIN s /\ t[i] = s[i] /\ p \in DOMAIN DataOf(s[i]) /\ j \in DOMAIN s /\ t[j] = s[j] /\ q \in DOMAIN DataOf(s[j])
    BY <1>4
  <2> QED
    BY <2>1 DEF InSequence
<1> QED
  BY <1>5, <1>6 DEF InSequence, t

(* m holds what s holds, and w at its end: in event L, at P. *)
Extended(s, m, L, P, w) ==
    /\ m \in Seq(Events) /\ DOMAIN m = 1..L /\ L \in Nat /\ L > 0 /\ P \in Nat /\ P > 0
    /\ DOMAIN DataOf(m[L]) = 1..P /\ DataOf(m[L])[P] = w
    /\ \A i \in DOMAIN s : i \in 1..L
    /\ \A i \in 1..L : \A p \in DOMAIN DataOf(m[i]) :
          \/ i = L /\ p = P
          \/ i \in DOMAIN s /\ p \in DOMAIN DataOf(s[i]) /\ DataOf(m[i])[p] = DataOf(s[i])[p]
    /\ \A i \in DOMAIN s : \A p \in DOMAIN DataOf(s[i]) : p \in DOMAIN DataOf(m[i]) /\ DataOf(m[i])[p] = DataOf(s[i])[p]

LEMMA ExtendsNew ==
  ASSUME NEW s \in Seq(Events), NEW w \in Nat, NEW e \in Events, e.kind = "WriteData", e.data = <<w>>
  PROVE  Extended(s, Append(s, e), Len(s) + 1, 1, w)
<1> DEFINE m == Append(s, e)
<1>1. /\ m \in Seq(Events) /\ Len(m) = Len(s) + 1 /\ m[Len(s)+1] = e /\ \A i \in 1..Len(s) : m[i] = s[i]
  BY AppendProperties
<1> HIDE DEF m
<1>2. Len(s) \in Nat /\ DOMAIN s = 1..Len(s) /\ DOMAIN m = 1..Len(s)+1
  BY <1>1, LenProperties
<1>3. DOMAIN DataOf(e) = 1..1 /\ DataOf(e)[1] = w
  <2>1. DataOf(e) = <<w>>
    BY DEF DataOf
  <2> QED
    BY <2>1
<1>4. ASSUME NEW i \in 1..Len(s)+1, NEW p \in DOMAIN DataOf(m[i])
      PROVE  \/ i = Len(s)+1 /\ p = 1
             \/ i \in DOMAIN s /\ p \in DOMAIN DataOf(s[i]) /\ DataOf(m[i])[p] = DataOf(s[i])[p]
  <2>1. CASE i = Len(s)+1
    BY <1>1, <1>3, <1>4, <2>1
  <2>2. CASE i \in 1..Len(s)
    BY <1>1, <1>2, <1>4, <2>2
  <2> QED
    BY <1>2, <2>1, <2>2
<1>5. ASSUME NEW i \in DOMAIN s, NEW p \in DOMAIN DataOf(s[i])
      PROVE  p \in DOMAIN DataOf(m[i]) /\ DataOf(m[i])[p] = DataOf(s[i])[p]
  BY <1>1, <1>2
<1>6. \A i \in DOMAIN s : i \in 1..Len(s)+1
  BY <1>2
<1> QED
  BY <1>1, <1>2, <1>3, <1>4, <1>5, <1>6 DEF Extended, m

LEMMA ExtendsLast ==
  ASSUME NEW s \in Seq(Events), NEW w \in Nat, Len(s) > 0, s[Len(s)].kind = "WriteData",
         NEW x \in Events, x.kind = "WriteData", x.data = Append(s[Len(s)].data, w)
  PROVE  Extended(s, [s EXCEPT ![Len(s)] = x], Len(s), Len(s[Len(s)].data) + 1, w)
<1> DEFINE m == [s EXCEPT ![Len(s)] = x]
           a == s[Len(s)].data
           b == x.data
<1>0. Len(s) \in Nat /\ Len(s) \in 1..Len(s) /\ DOMAIN s = 1..Len(s)
  BY LenProperties
<1>1. m \in Seq(Events) /\ Len(m) = Len(s) /\ \A i \in 1..Len(s) : m[i] = IF i = Len(s) THEN x ELSE s[i]
  BY <1>0, ExceptSeq
<1>2. DataOf(s[Len(s)]) = a /\ DataOf(x) = b /\ a \in Seq(Nat) /\ b = Append(a, w)
  <2>1. s[Len(s)] \in Events
    BY <1>0, ElementOfSeq
  <2> QED
    BY <2>1 DEF DataOf, Events
<1> HIDE DEF a, b
<1>3. /\ b \in Seq(Nat) /\ Len(b) = Len(a) + 1 /\ b[Len(a)+1] = w /\ \A p \in 1..Len(a) : b[p] = a[p]
  BY <1>2, AppendProperties
<1>4. Len(a) \in Nat /\ DOMAIN a = 1..Len(a) /\ DOMAIN b = 1..Len(a)+1 /\ DOMAIN m = 1..Len(s)
  BY SMTT(30), <1>1, <1>2, <1>3, LenProperties
<1> HIDE DEF m
<1>5. DataOf(m[Len(s)]) = b
  BY <1>0, <1>1, <1>2
<1>6. ASSUME NEW i \in 1..Len(s), NEW p \in DOMAIN DataOf(m[i])
      PROVE  \/ i = Len(s) /\ p = Len(a)+1
             \/ i \in DOMAIN s /\ p \in DOMAIN DataOf(s[i]) /\ DataOf(m[i])[p] = DataOf(s[i])[p]
  <2>1. CASE i = Len(s) /\ p # Len(a)+1
    <3>1. p \in 1..Len(a)
      BY SMTT(30), <1>4, <1>5, <1>6, <2>1
    <3> QED
      BY <1>0, <1>2, <1>3, <1>4, <1>5, <2>1, <3>1, SMTT(30)
  <2>2. CASE i # Len(s)
    <3>1. m[i] = s[i]
      BY <1>1, <2>2
    <3> QED
      BY <1>0, <1>6, <3>1
  <2> QED
    BY <2>1, <2>2, SMTT(30)
<1>7. ASSUME NEW i \in DOMAIN s, NEW p \in DOMAIN DataOf(s[i])
      PROVE  p \in DOMAIN DataOf(m[i]) /\ DataOf(m[i])[p] = DataOf(s[i])[p]
  <2>1. CASE i = Len(s)
    <3>1. p \in 1..Len(a) /\ p \in 1..Len(a)+1
      BY <1>2, <1>4, <1>7, <2>1, SMTT(30)
    <3> QED
      BY <1>2, <1>3, <1>4, <1>5, <2>1, <3>1, SMTT(30)
  <2>2. CASE i # Len(s)
    <3>1. m[i] = s[i]
      BY <1>0, <1>1, <2>2
    <3> QED
      BY SMTT(30), <1>7, <3>1
  <2> QED
    BY <2>1, <2>2
<1>8. \A i \in DOMAIN s : i \in 1..Len(s)
  BY <1>0
<1>9. Extended(s, m, Len(s), Len(a) + 1, w)
  <2> DEFINE L == Len(s)
             P == Len(a) + 1
  <2>1. L \in Nat /\ L > 0 /\ P \in Nat /\ P > 0 /\ m \in Seq(Events) /\ DOMAIN m = 1..L
    <3>1. L \in Nat /\ L > 0
      BY <1>0, SMTT(30)
    <3>2. P \in Nat /\ P > 0
      BY SMTT(30), <1>4
    <3>3. m \in Seq(Events) /\ DOMAIN m = 1..L
      BY <1>1, <1>4
    <3> QED
      BY <3>1, <3>2, <3>3, SMTT(30)
  <2>2. DOMAIN DataOf(m[L]) = 1..P /\ DataOf(m[L])[P] = w
    BY <1>3, <1>4, <1>5
  <2>3. \A i \in 1..L : \A p \in DOMAIN DataOf(m[i]) :
          \/ i = L /\ p = P
          \/ i \in DOMAIN s /\ p \in DOMAIN DataOf(s[i]) /\ DataOf(m[i])[p] = DataOf(s[i])[p]
    BY <1>6
  <2>4. \A i \in DOMAIN s : i \in 1..L
    BY <1>8
  <2> HIDE DEF L, P
  <2>5. Extended(s, m, L, P, w)
    BY <1>7, <2>1, <2>2, <2>3, <2>4 DEF Extended
  <2> QED
    BY <2>5 DEF L, P
<1> QED
  BY <1>9 DEF m, a

LEMMA SequenceExtended ==
  ASSUME NEW s \in Seq(Events), NEW n \in Nat, InSequence(s, n), NEW m, NEW L, NEW P, Extended(s, m, L, P, n + 1)
  PROVE  InSequence(m, n + 1)
<1>1. /\ DOMAIN m = 1..L /\ L \in Nat /\ L > 0 /\ P \in Nat /\ P > 0
      /\ DOMAIN DataOf(m[L]) = 1..P /\ DataOf(m[L])[P] = n + 1
  BY DEF Extended
<1>2. \A i \in DOMAIN m : \A p \in DOMAIN DataOf(m[i]) :
          \/ i = L /\ p = P
          \/ i \in DOMAIN s /\ p \in DOMAIN DataOf(s[i]) /\ DataOf(m[i])[p] = DataOf(s[i])[p]
  BY DEF Extended
<1>3. \A i \in DOMAIN s : i \in DOMAIN m /\ \A p \in DOMAIN DataOf(s[i]) : p \in DOMAIN DataOf(m[i]) /\ DataOf(m[i])[p] = DataOf(s[i])[p]
  BY DEF Extended
<1>4. L \in DOMAIN m /\ P \in DOMAIN DataOf(m[L])
  BY <1>1
<1>5. ASSUME NEW k \in 1..n+1 PROVE \E i \in DOMAIN m : \E p \in DOMAIN DataOf(m[i]) : DataOf(m[i])[p] = k
  <2>1. CASE k = n + 1
    BY <1>1, <1>4, <2>1
  <2>2. CASE k \in 1..n
    <3>1. PICK i \in DOMAIN s : \E p \in DOMAIN DataOf(s[i]) : DataOf(s[i])[p] = k
      BY <2>2 DEF InSequence
    <3> QED
      BY <1>3, <3>1
  <2> QED
    BY <2>1, <2>2
<1>6. ASSUME NEW i \in DOMAIN m, NEW j \in DOMAIN m, NEW p \in DOMAIN DataOf(m[i]), NEW q \in DOMAIN DataOf(m[j])
      PROVE  /\ DataOf(m[i])[p] \in 1..n+1
             /\ i < j \/ (i = j /\ p < q) => DataOf(m[i])[p] < DataOf(m[j])[q]
  <2>0. i \in 1..L /\ j \in 1..L
    BY <1>1
  <2>1. CASE i = L /\ p = P
    <3>1. DataOf(m[i])[p] = n + 1
      BY <1>1, <2>1
    <3>2. ~(i < j)
      BY <1>1, <2>0, <2>1
    <3>3. ~(i = j /\ p < q)
      BY <1>1, <1>6, <2>1
    <3> QED
      BY <3>1, <3>2, <3>3
  <2>2. CASE /\ i \in DOMAIN s /\ p \in DOMAIN DataOf(s[i]) /\ DataOf(m[i])[p] = DataOf(s[i])[p]
             /\ j = L /\ q = P
    <3>1. DataOf(m[i])[p] \in 1..n
      BY <2>2 DEF InSequence
    <3>2. DataOf(m[j])[q] = n + 1
      BY <1>1, <2>2
    <3> QED
      BY <3>1, <3>2
  <2>3. CASE /\ i \in DOMAIN s /\ p \in DOMAIN DataOf(s[i]) /\ DataOf(m[i])[p] = DataOf(s[i])[p]
             /\ j \in DOMAIN s /\ q \in DOMAIN DataOf(s[j]) /\ DataOf(m[j])[q] = DataOf(s[j])[q]
    <3>1. /\ DataOf(s[i])[p] \in 1..n
          /\ i < j \/ (i = j /\ p < q) => DataOf(s[i])[p] < DataOf(s[j])[q]
      BY <2>3 DEF InSequence
    <3>2. DataOf(m[i])[p] \in 1..n+1
      BY <2>3, <3>1
    <3> QED
      BY <2>3, <3>1, <3>2
  <2> QED
    BY <1>2, <1>6, <2>1, <2>2, <2>3
<1> QED
  BY <1>5, <1>6 DEF InSequence

(* The next message, in an event of its own or behind the data of the last one. *)
LEMMA SequenceNext ==
  ASSUME NEW s \in Seq(Events), NEW n \in Nat, InSequence(s, n), NEW m, Carries(s, n + 1, m)
  PROVE  InSequence(m, n + 1) /\ m \in Seq(Events)
<1>0. n + 1 \in Nat
  OBVIOUS
<1> DEFINE w == n + 1
<1>w. w \in Nat /\ Carries(s, w, m)
  BY <1>0
<1>1. \E L, P : Extended(s, m, L, P, w)
  <2> HIDE DEF w
  <2>1. CASE \E e \in Events : e.kind = "WriteData" /\ e.data = <<w>> /\ m = Append(s, e)
    <3>1. PICK e \in Events : e.kind = "WriteData" /\ e.data = <<w>> /\ m = Append(s, e)
      BY <2>1
    <3>2. Extended(s, Append(s, e), Len(s) + 1, 1, w)
      BY <1>w, <3>1, ExtendsNew
    <3> QED
      BY <3>1, <3>2
  <2>2. CASE /\ Len(s) > 0 /\ s[Len(s)].kind = "WriteData"
             /\ \E x \in Events : /\ x.kind = "WriteData" /\ x.data = Append(s[Len(s)].data, w)
                                  /\ m = [s EXCEPT ![Len(s)] = x]
    <3>1. PICK x \in Events : /\ x.kind = "WriteData" /\ x.data = Append(s[Len(s)].data, w)
                              /\ m = [s EXCEPT ![Len(s)] = x]
      BY <2>2
    <3>2. Extended(s, [s EXCEPT ![Len(s)] = x], Len(s), Len(s[Len(s)].data) + 1, w)
      BY <1>w, <2>2, <3>1, ExtendsLast
    <3> QED
      BY <3>1, <3>2
  <2> QED
    BY <1>w, <2>1, <2>2 DEF Carries
<1> QED
  BY <1>1, SequenceExtended DEF Extended

(* The events that are emitted with no data in them. *)
Others == {e \in Events : e.kind # "WriteData"}
Dataless(es) == \/ es = <<>>
                \/ \E e \in Others : es = <<e>>
                \/ \E e, f \in Others : es = <<e, f>>

LEMMA SequenceCat ==
  ASSUME NEW s \in Seq(Events), NEW n \in Nat, InSequence(s, n), NEW es, Dataless(es)
  PROVE  InSequence(Cat(s, es), n) /\ Cat(s, es) \in Seq(Events)
<1>1. CASE es = <<>>
  BY <1>1, CatFacts
<1>a. ASSUME NEW t \in Seq(Events), InSequence(t, n), NEW e \in Others
      PROVE  InSequence(Append(t, e), n) /\ Append(t, e) \in Seq(Events)
  BY <1>a, SequenceOther, AppendProperties DEF Others
<1>2. ASSUME NEW e \in Others, es = <<e>> PROVE InSequence(Cat(s, es), n) /\ Cat(s, es) \in Seq(Events)
  <2>1. e \in Events /\ Cat(s, <<e>>) = Append(s, e)
    BY CatFacts DEF Others
  <2> QED
    BY <1>2, <1>a, <2>1
<1>3. ASSUME NEW e \in Others, NEW f \in Others, es = <<e, f>>
      PROVE  InSequence(Cat(s, es), n) /\ Cat(s, es) \in Seq(Events)
  <2>1. e \in Events /\ f \in Events /\ Cat(s, <<e, f>>) = Append(Append(s, e), f)
    BY CatFacts DEF Others
  <2>2. InSequence(Append(s, e), n) /\ Append(s, e) \in Seq(Events)
    BY <1>a
  <2>3. InSequence(Append(Append(s, e), f), n) /\ Append(Append(s, e), f) \in Seq(Events)
    BY <1>a, <2>2
  <2> QED
    BY <1>3, <2>1, <2>3
<1> QED
  BY <1>1, <1>2, <1>3 DEF Dataless

LEMMA DatalessEvents ==
  ASSUME NEW es, Dataless(es) PROVE AreEvents(es)
BY CatFacts DEF Dataless, Others

LEMMA CryptoEmits ==
  ASSUME QNow, CryptoInOrder, NEW es, Dataless(es), Emits(es)
  PROVE  CryptoInOrder'
<1>1. Stream \in Seq(Events) /\ written \in Nat /\ es \in Seq(Events)
  BY StreamIs, DatalessEvents DEF QNow, QInv, AreEvents
<1>2. Stream' = Stream \o es
  BY <1>1, EmitsFacts
<1>3. Stream' = Cat(Stream, es) /\ written' = written /\ errorReturned' = errorReturned
  BY <1>2 DEF Cat, Emits
<1>4. ASSUME ~errorReturned PROVE InSequence(Cat(Stream, es), written)
  BY <1>1, <1>4, SequenceCat DEF CryptoInOrder
<1> QED
  BY <1>3, <1>4 DEF CryptoInOrder

LEMMA CryptoWrites ==
  ASSUME QNow, CryptoInOrder, outLevel \in Levels, NEW pre, NEW post, Dataless(pre), Dataless(post),
         Writes(pre, outLevel, post)
  PROVE  CryptoInOrder'
<1>1. Stream \in Seq(Events) /\ written \in Nat /\ AreEvents(pre) /\ AreEvents(post)
  BY StreamIs, DatalessEvents DEF QNow, QInv
<1>2. PICK m : Stream' = Cat(m, post) /\ Carries(Cat(Stream, pre), written + 1, m)
  BY <1>1, WritesFacts
<1>3. written' = written + 1 /\ errorReturned' = errorReturned
  BY DEF Writes
<1>4. ASSUME ~errorReturned PROVE InSequence(Cat(m, post), written + 1)
  <2> DEFINE r == Cat(Stream, pre)
             w == written + 1
  <2>1. InSequence(r, written) /\ r \in Seq(Events) /\ w \in Nat
    BY <1>1, <1>4, SequenceCat DEF CryptoInOrder
  <2> HIDE DEF r
  <2>2. InSequence(m, w) /\ m \in Seq(Events)
    BY <1>1, <1>2, <2>1, SequenceNext DEF r
  <2> HIDE DEF w
  <2>3. InSequence(Cat(m, post), w)
    BY <2>1, <2>2, SequenceCat
  <2> QED
    BY <2>3 DEF w
<1> QED
  BY <1>2, <1>3, <1>4 DEF CryptoInOrder

(* What an event that is taken leaves of the stream. *)
LEMMA CryptoTakes ==
  ASSUME QNow, CryptoInOrder, TakeEvent PROVE CryptoInOrder'
<1>1. QInv(events, nextEvent, written, delivered) /\ Stream = StreamOf(delivered, events, nextEvent)
  BY StreamIs DEF QNow
<1>2. Stream' = StreamOf(delivered', events', nextEvent') /\ written' = written
      /\ errorReturned' = (errorReturned \/ handshakeErr)
  BY DEF Stream, StreamOf, TakeEvent
<1>3. CASE TakesError
  BY <1>2, <1>3 DEF TakesError, CryptoInOrder
<1>4. CASE TakesNone
  <2>1. events' = <<>> /\ nextEvent' = 0 /\ delivered' = delivered /\ nextEvent >= Len(events)
    BY <1>4 DEF TakesNone
  <2>2. Stream = delivered /\ written \in Nat /\ delivered \in Seq(Events)
    BY <1>1, <2>1, QDrained
  <2>3. Stream' = Stream
    BY <1>2, <2>1, <2>2, QEmpty
  <2> QED
    BY <1>2, <2>3 DEF CryptoInOrder
<1>5. CASE TakesNext
  <2>1. /\ nextEvent < Len(events) /\ delivered' = WithNext(delivered, events, nextEvent)
        /\ events' = Zeroed(events, nextEvent) /\ nextEvent' = nextEvent + 1
    BY <1>5 DEF TakesNext, Zeroed, WithNext
  <2>a. StreamOf(WithNext(delivered, events, nextEvent), Zeroed(events, nextEvent), nextEvent + 1)
          = StreamOf(delivered, events, nextEvent)
    BY <1>1, <2>1, QTakesNext
  <2>2. Stream' = Stream
    BY <1>1, <1>2, <2>1, <2>a
  <2> QED
    BY <1>2, <2>2 DEF CryptoInOrder
<1> QED
  BY <1>3, <1>4, <1>5 DEF TakeEvent

LEMMA OtherEvents ==
  /\ Dataless(<<>>)
  /\ \A k \in Kinds \ {"WriteData"} : Dataless(<<Plain(k)>>)
  /\ \A k \in Kinds \ {"WriteData"} : \A l \in Levels : Dataless(<<Event(k, l)>>)
  /\ Dataless(HandshakeSecrets)
  /\ Dataless(<<Plain("HandshakeDone"), Event("SetReadSecret", "Application")>>)
  /\ Dataless(<<Plain("TransportParameters"), Plain("RejectedEarlyData")>>)
<1>1. /\ \A k \in Kinds \ {"WriteData"} : Plain(k) \in Others
      /\ \A k \in Kinds \ {"WriteData"}, l \in Levels : Event(k, l) \in Others
  BY PlainEvents DEF Others
<1>2. /\ Event("SetWriteSecret", "Handshake") \in Others /\ Event("SetReadSecret", "Handshake") \in Others
      /\ Plain("HandshakeDone") \in Others /\ Event("SetReadSecret", "Application") \in Others
      /\ Plain("TransportParameters") \in Others /\ Plain("RejectedEarlyData") \in Others
  BY <1>1 DEF Kinds, Levels
<1> QED
  BY <1>1, <1>2 DEF Dataless, HandshakeSecrets

(* What a step does to the queue. *)
QueueEffect ==
    \/ UNCHANGED <<events, nextEvent, errorReturned, written, delivered>>
    \/ \E es : Dataless(es) /\ Emits(es)
    \/ \E pre, post : Dataless(pre) /\ Dataless(post) /\ Writes(pre, outLevel, post)
    \/ TakeEvent

LEMMA CryptoEffect ==
  ASSUME EventInv, CryptoInOrder, QueueEffect PROVE CryptoInOrder'
<1>0. QNow /\ outLevel \in Levels
  BY Known
<1>1. CASE UNCHANGED <<events, nextEvent, errorReturned, written, delivered>>
  <2>1. Stream' = Stream
    BY <1>1 DEF Stream
  <2> QED
    BY <1>1, <2>1 DEF CryptoInOrder
<1>2. CASE \E es : Dataless(es) /\ Emits(es)
  BY <1>0, <1>2, CryptoEmits
<1>3. CASE \E pre, post : Dataless(pre) /\ Dataless(post) /\ Writes(pre, outLevel, post)
  BY <1>0, <1>3, CryptoWrites
<1>4. CASE TakeEvent
  BY <1>0, <1>4, CryptoTakes
<1> QED
  BY <1>1, <1>2, <1>3, <1>4 DEF QueueEffect

LEMMA CryptoStep ==
  ASSUME EventInv, CryptoInOrder, Next PROVE CryptoInOrder'
<1>0. UNCHANGED queue => QueueEffect
  BY DEF QueueEffect, queue
<1>1. ASSUME \/ \E l \in ReadStages : NeedsData(l) \/ Rejects(l)
             \/ Woken \/ DrainWait \/ CloseBlocked \/ CloseSignal
             \/ ClientOffer \/ ServerCertificate \/ ClientCertificate \/ ClientFinished
      PROVE  QueueEffect
  BY <1>1, <1>0 DEF NeedsData, Rejects, Woken, DrainWait, CloseBlocked, CloseSignal, ClientOffer,
     ServerCertificate, ClientCertificate, ClientFinished
<1>2. ASSUME GetTransportParameters PROVE QueueEffect
  <2>1. UNCHANGED queue \/ Emits(<<Plain("TransportParametersRequired")>>)
    BY <1>2 DEF GetTransportParameters
  <2>2. Dataless(<<Plain("TransportParametersRequired")>>)
    BY OtherEvents DEF Kinds
  <2> QED
    BY <2>1, <2>2, <1>0 DEF QueueEffect
<1>3. ASSUME Resume PROVE CryptoInOrder'
  <2>1. CASE UNCHANGED queue
    BY <2>1, <1>0, CryptoEffect
  <2>2. CASE /\ events' = Append(events, Plain("ResumeSession"))
             /\ UNCHANGED <<nextEvent, errorReturned, written, delivered>>
    <3> DEFINE e == Plain("ResumeSession")
    <3>1. e \in Events /\ e.kind # "WriteData"
      BY PlainEvents DEF Kinds
    <3>2. QNow /\ events \in Seq(Events) /\ Stream \in Seq(Events) /\ written \in Nat
      BY Known DEF QNow, QInv
    <3>3. events' = Cat(events, <<e>>) /\ Append(Stream, e) = Cat(Stream, <<e>>) /\ AreEvents(<<e>>)
      BY <2>2, <3>1, <3>2, CatFacts
    <3> HIDE DEF e
    <3>4. StreamOf(delivered, Cat(events, <<e>>), nextEvent) = Cat(StreamOf(delivered, events, nextEvent), <<e>>)
      BY <3>2, <3>3, QCat DEF QNow
    <3>5. Stream' = StreamOf(delivered', events', nextEvent')
      BY DEF Stream, StreamOf
    <3>6. Stream' = Append(Stream, e)
      BY <2>2, <3>2, <3>3, <3>4, <3>5, StreamIs
    <3>7. ASSUME ~errorReturned PROVE InSequence(Append(Stream, e), written)
      BY <3>1, <3>2, <3>7, SequenceOther DEF CryptoInOrder
    <3> QED
      BY <2>2, <3>6, <3>7 DEF CryptoInOrder
  <2> QED
    BY <1>3, <2>1, <2>2 DEF Resume
<1>4. ASSUME Result PROVE QueueEffect
  <2>1. Emits(<<Plain("HandshakeDone")>>) \/ Emits(<<Plain("HandshakeDone"), Event("SetReadSecret", "Application")>>)
    BY <1>4 DEF Result
  <2>2. Dataless(<<Plain("HandshakeDone")>>)
    BY OtherEvents DEF Kinds
  <2> QED
    BY <2>1, <2>2, OtherEvents DEF QueueEffect
<1>5. ASSUME ClientHello \/ HelloRetryRequest PROVE QueueEffect
  <2>1. \/ \E post \in {<<>>, <<Event("SetWriteSecret", "Early")>>} : Writes(<<>>, outLevel, post)
        \/ \E pre \in {<<>>, <<Plain("RejectedEarlyData")>>} : Writes(pre, outLevel, <<>>)
    BY <1>5 DEF ClientHello, HelloRetryRequest
  <2>2. Dataless(<<Event("SetWriteSecret", "Early")>>) /\ Dataless(<<Plain("RejectedEarlyData")>>) /\ Dataless(<<>>)
    BY OtherEvents DEF Kinds, Levels
  <2> QED
    BY <2>1, <2>2 DEF QueueEffect
<1>6. ASSUME ServerHello PROVE QueueEffect
  <2>1. UNCHANGED queue \/ Emits(HandshakeSecrets)
    BY <1>6 DEF ServerHello
  <2> QED
    BY <2>1, <1>0, OtherEvents DEF QueueEffect
<1>7. ASSUME EncryptedExtensions \/ ReadRetryHello PROVE QueueEffect
  <2>1. \/ Emits(<<Plain("TransportParameters")>>)
        \/ Emits(<<Plain("TransportParameters"), Plain("RejectedEarlyData")>>)
    BY <1>7 DEF EncryptedExtensions, ReadRetryHello
  <2>2. Dataless(<<Plain("TransportParameters")>>)
    BY OtherEvents DEF Kinds
  <2> QED
    BY <2>1, <2>2, OtherEvents DEF QueueEffect
<1>8. ASSUME ServerFinished \/ SendServerFlight PROVE QueueEffect
  <2>1. UNCHANGED queue \/ Writes(<<>>, outLevel, <<Event("SetWriteSecret", "Application")>>)
    BY <1>8 DEF ServerFinished, SendServerFlight
  <2>2. Dataless(<<Event("SetWriteSecret", "Application")>>) /\ Dataless(<<>>)
    BY OtherEvents DEF Kinds, Levels
  <2> QED
    BY <2>1, <2>2, <1>0 DEF QueueEffect
<1>9. ASSUME ReadClientHello PROVE QueueEffect
  <2>1. Emits(<<Plain("TransportParameters")>>) \/ Writes(<<>>, outLevel, <<>>)
    BY <1>9 DEF ReadClientHello
  <2>2. Dataless(<<Plain("TransportParameters")>>) /\ Dataless(<<>>)
    BY OtherEvents DEF Kinds
  <2> QED
    BY <2>1, <2>2 DEF QueueEffect
<1>10. ASSUME ServerOffer PROVE QueueEffect
  <2>1. UNCHANGED queue \/ Emits(<<Event("SetReadSecret", "Early")>>)
    BY <1>10 DEF ServerOffer
  <2>2. Dataless(<<Event("SetReadSecret", "Early")>>)
    BY OtherEvents DEF Kinds, Levels
  <2> QED
    BY <2>1, <2>2, <1>0 DEF QueueEffect
<1>11. ASSUME SendServerHello \/ SendSessionTicket PROVE QueueEffect
  <2>1. UNCHANGED queue \/ Writes(<<>>, outLevel, <<>>) \/ Writes(<<>>, outLevel, HandshakeSecrets)
    BY <1>11 DEF SendServerHello, SendSessionTicket
  <2> QED
    BY <2>1, <1>0, OtherEvents DEF QueueEffect
<1>12. ASSUME Start \/ SetTransportParameters \/ Close \/ DeclineEarlyData \/ Cancel \/ RecvSignal \/ RangeBlocked
              \/ \E n \in 1..MaxChunk : HandleData(n)
       PROVE  QueueEffect
  BY <1>12, <1>0 DEF Start, SetTransportParameters, Close, DeclineEarlyData, Cancel, RecvSignal, RangeBlocked, HandleData
<1>13. ASSUME NextEvent \/ RecvBlocked PROVE QueueEffect
  <2>1. TakeEvent \/ UNCHANGED <<events, nextEvent, errorReturned, written, delivered>>
    BY <1>13 DEF NextEvent, RecvBlocked
  <2> QED
    BY <2>1 DEF QueueEffect
<1>14. ASSUME PostHandshake PROVE QueueEffect
  <2>1. UNCHANGED queue \/ Emits(<<Plain("StoreSession")>>) \/ Emits(<<>>)
    BY <1>14 DEF PostHandshake
  <2>2. Dataless(<<Plain("StoreSession")>>) /\ Dataless(<<>>)
    BY OtherEvents DEF Kinds
  <2> QED
    BY <2>1, <2>2, <1>0 DEF QueueEffect
<1> QED
  BY <1>1, <1>2, <1>3, <1>4, <1>5, <1>6, <1>7, <1>8, <1>9, <1>10, <1>11, <1>12, <1>13, <1>14, CryptoEffect
     DEF Next, HsStep, AppStep, AppCall

-----------------------------------------------------------------------------
(* The application's steps. *)

(* A step that leaves the events and the handshake's place alone. *)
LEMMA AppQuiet ==
  ASSUME EventInv, UNCHANGED <<cfg, early, outLevel, queue>>, handshakeErr => handshakeErr', Stage' = Stage,
         UNCHANGED <<canceled, session>>
  PROVE  EventInv'
BY SameEdge, QuietStep DEF Quiet

(* Start: nothing has happened yet. *)
LEMMA EventsStart ==
  ASSUME HsType, ControlInv, EventInv, Start PROVE EventInv'
<1>1. UNCHANGED <<cfg, canceled, session, early, outLevel, handshakeErr, queue>> /\ hs.pc = "none"
  BY DEF Start, conn, ControlInv
<1>2. CASE ~cfg.min13
  <2>1. Stage' = Stage
    BY <1>2 DEF Start, Stage
  <2> QED
    BY <1>1, <2>1, AppQuiet
<1>3. CASE cfg.min13
  <2> DEFINE l == IF cfg.isClient THEN "params" ELSE "readHello"
             s == Stream
             n == Len(delivered)
  <2>1. l \in {"params", "readHello"} /\ (cfg.isClient <=> l = "params") /\ HsGoto(l)
    BY <1>3 DEF Start, HsGoto
  <2> HIDE DEF l
  <2>2. Stage = "none" /\ Stage' = l
    BY <1>1, <2>1, GotoStage DEF HsLabels, Stages
  <2>3. UNCHANGED <<events, nextEvent, waitingForDrain, errorReturned, written, delivered>>
    BY <1>1 DEF queue
  <2>4. QNow' /\ Stream' = Stream /\ KeepsRest
    BY <1>1, <2>3, Known DEF QNow, Stream, KeepsRest
  <2>5. /\ DInv("none", outLevel, cfg.isClient, s, n, early, session, canceled, waitingForDrain)
        /\ SInv("none", outLevel, s, delivered, early, handshakeErr, errorReturned)
    BY <2>2, Known
  <2> HIDE DEF s, n
  <2>6. DInv(l, outLevel, cfg.isClient, s, n, early, session, canceled, waitingForDrain)
    BY <2>1, <2>5 DEF DInv, Undec
  <2>7. SInv(l, outLevel, s, delivered, early, handshakeErr, errorReturned)
    BY <2>1, <2>5 DEF SInv, DInv, Undec, Sealed
  <2> QED
    BY <1>1, <2>2, <2>3, <2>4, <2>6, <2>7, Assemble DEF s, n
<1> QED
  BY <1>2, <1>3

(* The context is canceled, or 0-RTT is declined: what the invariant says then *)
(* it said before.                                                             *)
LEMMA EventsDecline ==
  ASSUME EventInv, UNCHANGED <<cfg, early, outLevel, queue, handshakeErr>>, Stage' = Stage,
         \/ canceled' = TRUE /\ session' = session
         \/ canceled' = canceled /\ session = "offered" /\ session' = "declined"
  PROVE  EventInv'
<1>1. UNCHANGED <<events, nextEvent, waitingForDrain, errorReturned, written, delivered>>
  BY DEF queue
<1>2. QNow' /\ Stream' = Stream
  BY <1>1, Known DEF QNow, Stream
<1> DEFINE s == Stream
           n == Len(delivered)
           g == Stage
<1>3. /\ DInv(g, outLevel, cfg.isClient, s, n, early, session, canceled, waitingForDrain)
      /\ SInv(g, outLevel, s, delivered, early, handshakeErr, errorReturned)
  BY Known
<1>4. EventInv' <=> /\ DInv(g, outLevel, cfg.isClient, s, n, early, session', canceled', waitingForDrain)
                    /\ SInv(g, outLevel, s, delivered, early, handshakeErr, errorReturned)
  BY <1>1, <1>2 DEF EventInv, DNow, SNow
<1> HIDE DEF s, n, g
<1>5. DInv(g, outLevel, cfg.isClient, s, n, early, session', canceled', waitingForDrain)
  BY <1>3 DEF DInv, Undec
<1> QED
  BY <1>3, <1>4, <1>5

(* NextEvent lets the handshake go on: all events were taken. *)
LEMMA EventsDrained ==
  ASSUME EventInv, UNCHANGED <<cfg, canceled, early, outLevel, handshakeErr, events, nextEvent, errorReturned, written, delivered>>,
         Stage' = Stage, session' = Kept, nextEvent >= Len(events)
  PROVE  EventInv'
<1>1. QNow' /\ Stream' = Stream
  BY Known DEF QNow, Stream
<1>2. Stream = delivered /\ ~Pend(delivered, Len(delivered))
  BY Known, StreamIs, QDrained DEF QNow
<1> DEFINE s == Stream
           n == Len(delivered)
           g == Stage
<1>3. /\ DInv(g, outLevel, cfg.isClient, s, n, early, session, canceled, waitingForDrain)
      /\ SInv(g, outLevel, s, delivered, early, handshakeErr, errorReturned) /\ ~Pend(s, n)
  BY <1>2, Known
<1>4. EventInv' <=> /\ DInv(g, outLevel, cfg.isClient, s, n, early, session', canceled, waitingForDrain')
                    /\ SInv(g, outLevel, s, delivered, early, handshakeErr, errorReturned)
  BY <1>1 DEF EventInv, DNow, SNow
<1> HIDE DEF s, n, g
<1>5. session' # "offered" /\ (session' = "declined" => session = "declined")
  BY DEF Kept
<1>6. DInv(g, outLevel, cfg.isClient, s, n, early, session', canceled, waitingForDrain')
  BY <1>3, <1>5 DEF DInv
<1> QED
  BY <1>3, <1>4, <1>6

LEMMA EventsApp ==
  ASSUME HsType, ControlInv, EventInv, AppStep \/ AppCall PROVE EventInv'
<1>0. hs.pc \in HsLabels
  BY DEF HsType
<1>1. ASSUME NextEvent PROVE EventInv'
  <2>1. UNCHANGED <<cfg, hs, canceled, early, outLevel, handshakeErr>> /\ Stage' = Stage
    BY <1>1 DEF NextEvent, conn, Stage
  <2>2. CASE nextEvent >= Len(events) /\ waitingForDrain
    BY <1>1, <2>1, <2>2, EventsDrained DEF NextEvent
  <2>3. CASE ~(nextEvent >= Len(events) /\ waitingForDrain)
    BY <1>1, <2>1, <2>3, EventsTake DEF NextEvent
  <2> QED
    BY <2>2, <2>3
<1>2. ASSUME SetTransportParameters \/ \E n \in 1..MaxChunk : HandleData(n) PROVE EventInv'
  <2>1. UNCHANGED <<cfg, hs, early, outLevel, handshakeErr, queue, canceled, session>> /\ Stage' = Stage
    BY <1>2 DEF SetTransportParameters, HandleData, ctl, Stage
  <2> QED
    BY <2>1, AppQuiet
<1>3. ASSUME Close \/ DeclineEarlyData \/ Cancel PROVE EventInv'
  <2>1. UNCHANGED <<cfg, hs, early, outLevel, handshakeErr, queue>> /\ Stage' = Stage
    BY <1>3 DEF Close, DeclineEarlyData, Cancel, conn, Stage
  <2>2. \/ canceled' = TRUE /\ session' = session
        \/ canceled' = canceled /\ session = "offered" /\ session' = "declined"
    BY <1>3 DEF Close, DeclineEarlyData, Cancel
  <2> QED
    BY <2>1, <2>2, EventsDecline
<1>4. ASSUME SendSessionTicket PROVE EventInv'
  <2>1. UNCHANGED <<cfg, hs, early, outLevel, handshakeErr, canceled, session>> /\ Stage' = Stage
    BY <1>4 DEF SendSessionTicket, ctl, Stage
  <2>2. CASE Writes(<<>>, outLevel, <<>>)
    <3>1. KeepsRest
      BY <2>1, <2>2 DEF KeepsRest, Writes
    <3> QED
      BY <2>1, <2>2, <3>1, SameEdge, WritesOne
  <2>3. CASE UNCHANGED queue
    BY <2>1, <2>3, AppQuiet
  <2> QED
    BY <1>4, <2>2, <2>3 DEF SendSessionTicket
<1>5. ASSUME RecvSignal \/ RangeBlocked PROVE EventInv'
  <2>1. UNCHANGED <<cfg, early, outLevel, handshakeErr, queue, canceled, session>>
    BY <1>5 DEF RecvSignal, RangeBlocked, ctl, conn
  <2>2. \/ hs.pc = "signal" /\ HsGoto("woken")
        \/ hs.pc = "blocked" /\ HsGoto("signal")
        \/ hs' = hs
    BY <1>5 DEF RecvSignal, RangeBlocked, HsAt
  <2>3. Stage' = Stage
    BY <2>2, HsGotoFacts DEF Stage, HsLabels, Stages
  <2> QED
    BY <2>1, <2>3, AppQuiet
<1>6. ASSUME RecvBlocked PROVE EventInv'
  <2>1. UNCHANGED <<cfg, early, outLevel, handshakeErr, canceled, waitingForDrain>>
    BY <1>6 DEF RecvBlocked, conn
  <2>2. (hs.pc = "blocked" /\ HsGoto("signal")) \/ hs' = hs
    BY <1>6 DEF RecvBlocked, HsAt
  <2>3. Stage' = Stage
    BY <2>2, HsGotoFacts DEF Stage, HsLabels, Stages
  <2>4. CASE TakeEvent
    BY <2>1, <2>3, <2>4, EventsTake
  <2>5. CASE UNCHANGED <<session, events, nextEvent, errorReturned, written, delivered>>
    BY <2>1, <2>3, <2>5, AppQuiet DEF queue
  <2> QED
    BY <1>6, <2>4, <2>5 DEF RecvBlocked
<1>7. ASSUME PostHandshake PROVE EventInv'
  <2>1. UNCHANGED <<cfg, hs, early, outLevel, canceled, session>> /\ Stage' = Stage /\ (handshakeErr => handshakeErr')
    <3>1. UNCHANGED <<cfg, hs, early, outLevel, canceled, session>>
      BY <1>7 DEF PostHandshake, ctl
    <3>2. handshakeErr => handshakeErr'
      BY <1>7 DEF PostHandshake
    <3> QED
      BY <3>1, <3>2 DEF Stage
  <2>2. CASE UNCHANGED queue
    BY <2>1, <2>2, AppQuiet
  <2>3. CASE Emits(<<Plain("StoreSession")>>)
    <3> DEFINE e == Plain("StoreSession")
    <3>1. e \in Events /\ e.kind = "StoreSession" /\ e.level = "Initial"
      BY PlainEvents DEF Kinds
    <3>2. KeepsRest
      BY <2>1, <2>3 DEF KeepsRest, Emits
    <3> HIDE DEF e
    <3> QED
      BY <2>1, <2>3, <3>1, <3>2, SameEdge, AddsOne DEF e
  <2>4. CASE Emits(<<>>)
    <3>1. events \in Seq(Events)
      BY Known DEF QNow, QInv
    <3>2. UNCHANGED queue
      BY <2>4, <3>1, ConcatNone DEF Emits, queue
    <3> QED
      BY <2>1, <3>2, AppQuiet
  <2> QED
    BY <1>7, <2>2, <2>3, <2>4 DEF PostHandshake
<1>8. ASSUME Start PROVE EventInv'
  BY <1>8, EventsStart
<1> QED
  BY <1>1, <1>2, <1>3, <1>4, <1>5, <1>6, <1>7, <1>8 DEF AppStep, AppCall

-----------------------------------------------------------------------------
(* The theorems. *)

Inv == HsType /\ AppType /\ ControlInv /\ EventInv

LEMMA InitInv == Init => Inv
<1> SUFFICES ASSUME Init PROVE Inv
  OBVIOUS
<1>1. HsType /\ AppType
  BY DEF Init, HsType, AppType, HsLabels, Stages
<1>2. ControlInv
  BY DEF Init, ControlInv, Stages
<1>3. events = <<>> /\ nextEvent = 0 /\ written = 0 /\ delivered = <<>> /\ Stage = "none"
  BY DEF Init, Stage
<1>4. <<>> \in Seq(Events) /\ Len(<<>>) = 0 /\ DOMAIN <<>> = {}
  BY EmptySeq
<1>5. QNow /\ Stream = <<>>
  <2>1. QInv(<<>>, 0, 0, <<>>) /\ StreamOf(<<>>, <<>>, 0) = <<>>
    BY <1>4, QEmpty
  <2> QED
    BY <1>3, <2>1, StreamIs DEF QNow
<1>6. NoEarly(<<>>) /\ ~Pend(<<>>, 0) /\ Fine(<<>>) /\ \A k, l : ~Has(<<>>, k, l)
  BY <1>4 DEF NoEarly, Pend, Fine, InOrder, NoError, Has
<1>7. DNow
  BY <1>3, <1>4, <1>5, <1>6 DEF DNow, DInv, Init, Levels
<1>8. SNow
  BY <1>3, <1>5, <1>6 DEF SNow, SInv, Init
<1> QED
  BY <1>1, <1>2, <1>5, <1>7, <1>8 DEF Inv, EventInv

LEMMA StepInv == Inv /\ [Next]_vars => Inv'
<1> SUFFICES ASSUME Inv, [Next]_vars PROVE Inv'
  OBVIOUS
<1>0. HsType /\ AppType /\ ControlInv /\ EventInv
  BY DEF Inv
<1>1. CASE HsStep
  <2>1. ControlInv' /\ HsType' /\ EventInv' /\ app' = app
    BY <1>0, <1>1, ControlHsStep, EventsHsStep, HsMoves DEF HsMove
  <2> QED
    BY <1>0, <2>1 DEF Inv, AppType
<1>2. CASE AppStep \/ AppCall
  BY <1>0, <1>2, ControlApp, EventsApp DEF Inv
<1>3. CASE UNCHANGED vars
  <2>1. UNCHANGED <<cfg, app, hs, closed, started, canceled, session, hand, outLevel, early, handshakeErr, queue>>
    BY <1>3 DEF vars, ctl, conn
  <2>2. HsType' /\ AppType' /\ ControlInv' /\ Stage' = Stage
    BY <1>0, <2>1 DEF HsType, AppType, ControlInv, Stage
  <2>3. EventInv'
    BY <1>0, <2>1, <2>2, AppQuiet
  <2> QED
    BY <2>2, <2>3 DEF Inv
<1> QED
  BY <1>1, <1>2, <1>3 DEF Next

(* What EventInv says in the words of the model. *)
LEMMA InvHolds == Inv => ControlInv /\ QueueInv /\ DeclineInv /\ StreamInv
<1> SUFFICES ASSUME Inv PROVE ControlInv /\ QueueInv /\ DeclineInv /\ StreamInv
  OBVIOUS
<1>0. ControlInv /\ EventInv
  BY DEF Inv
<1>1. QNow /\ Stream \in Seq(Events) /\ delivered \in Seq(Events)
  BY <1>0, StreamIs DEF EventInv
<1>2. QueueInv
  BY <1>1 DEF QNow, QInv, QueueInv
<1>3. DeclineInv
  BY <1>0 DEF EventInv, DNow, DInv, Undec, DeclineInv, Undecided, NoneEarly, PendingResume, Pend
<1>4. StreamInv
  <2>1. CASE errorReturned
    BY <1>0, <2>1 DEF EventInv, SNow, SInv, StreamInv, EventsInOrder
  <2>2. CASE ~errorReturned
    <3>1. Fine(Stream) /\ SecretsInv /\ (outLevel = "Application" => Stage \in Sealed)
      BY <1>0, <2>2 DEF EventInv, SNow, SInv, SecretsInv, InStream, Has
    <3> QED
      BY <2>2, <3>1 DEF StreamInv, Fine, NoError
  <2> QED
    BY <2>1, <2>2
<1> QED
  BY <1>0, <1>2, <1>3, <1>4

(* The inductive invariants: who may be where, and what the stream of events   *)
(* holds at each stage of the handshake, for any set of configurations and any *)
(* amount of data from the peer.                                               *)
THEOREM QuicInvariant == Spec => [](ControlInv /\ QueueInv /\ DeclineInv /\ StreamInv)
<1>1. Inv /\ [Next]_vars => Inv'
  BY StepInv
<1>2. Init => Inv
  BY InitInv
<1>3. Inv => ControlInv /\ QueueInv /\ DeclineInv /\ StreamInv
  BY InvHolds
<1> QED
  BY <1>1, <1>2, <1>3, PTL DEF Spec

(* The two goroutines never touch the connection at the same time: while the   *)
(* handshake runs, a call waits on blockedc for it.                            *)
THEOREM HandoffHolds == Spec => []Handoff
<1>1. ControlInv => Handoff
  BY DEF ControlInv, Handoff
<1> QED
  BY <1>1, QuicInvariant, PTL

(* The handshake goroutine leaves both channels closed when it ends: by the    *)
(* time it ends well no bytes are left over, so that quicSetReadSecret does    *)
(* not fail in handshakeContext.                                               *)
THEOREM ExitLeavesChannelsClosed == Spec => []ExitClosesChannels
<1>1. ControlInv => ExitClosesChannels
  BY DEF ControlInv, ExitClosesChannels, HsAt
<1> QED
  BY <1>1, QuicInvariant, PTL

(* An application that declines 0-RTT when it is handed the session gets no    *)
(* 0-RTT secrets, now or later, unless the handshake is being canceled.        *)
THEOREM DeclineIsHonoured == Spec => []DeclineHonoured
<1>1. DeclineInv => DeclineHonoured
  BY DEF DeclineInv, DeclineHonoured, NoneEarly
<1> QED
  BY <1>1, QuicInvariant, PTL

(* The application gets the events in an order the QUIC layer can use: data    *)
(* behind its secrets, the 1-RTT read secret behind QUICHandshakeDone, the     *)
(* rejection of 0-RTT before the 1-RTT secrets, nothing behind an error.       *)
THEOREM EventsStayInOrder == Spec => []EventsInOrder
<1>1. Inv => EventsInOrder
  <2> SUFFICES ASSUME Inv PROVE EventsInOrder
    OBVIOUS
  <2>1. QNow /\ SNow
    BY DEF Inv, EventInv
  <2>2. CASE errorReturned
    BY <2>1, <2>2 DEF SNow, SInv, EventsInOrder
  <2>3. CASE ~errorReturned
    <3>1. Fine(StreamOf(delivered, events, nextEvent))
      BY <2>1, <2>3, StreamIs DEF SNow, SInv
    <3>2. delivered \in Seq(Events) /\ events \in Seq(Events) /\ nextEvent \in 0..Len(events)
      BY <2>1 DEF QNow, QInv
    <3> QED
      BY <3>1, <3>2, FineTaken DEF EventsInOrder
  <2> QED
    BY <2>2, <2>3
<1>2. Inv /\ [Next]_vars => Inv'
  BY StepInv
<1>3. Init => Inv
  BY InitInv
<1> QED
  BY <1>1, <1>2, <1>3, PTL DEF Spec

(* The bytes of each write reach the application in the order in which they    *)
(* were written, without loss and without repetition: the stream of events     *)
(* carries the numbers 1..written in sequence, although the last event grows   *)
(* while it waits and the queue is reused once its events are taken.           *)
THEOREM CryptoStaysInOrder == Spec => []CryptoInOrder
<1>1. Init => Inv /\ CryptoInOrder
  <2> SUFFICES ASSUME Init PROVE CryptoInOrder
    BY InitInv
  <2>1. Stream = <<>> /\ written = 0
    <3>1. events = <<>> /\ nextEvent = 0 /\ delivered = <<>> /\ written = 0
      BY DEF Init
    <3>2. QNow
      BY InitInv DEF Inv, EventInv
    <3>3. nextEvent >= Len(events)
      BY <3>1
    <3>4. Stream = delivered
      BY <3>2, <3>3, StreamIs, QDrained DEF QNow
    <3> QED
      BY <3>1, <3>4
  <2> QED
    BY <2>1 DEF CryptoInOrder, InSequence
<1>2. Inv /\ CryptoInOrder /\ [Next]_vars => (Inv /\ CryptoInOrder)'
  <2> SUFFICES ASSUME Inv, CryptoInOrder, [Next]_vars PROVE CryptoInOrder'
    BY StepInv
  <2>1. EventInv
    BY DEF Inv
  <2>2. CASE Next
    BY <2>1, <2>2, CryptoStep
  <2>3. CASE UNCHANGED vars
    <3>1. UNCHANGED <<events, nextEvent, errorReturned, written, delivered>>
      BY <2>3 DEF vars, queue
    <3>2. Stream' = Stream
      BY <3>1 DEF Stream
    <3> QED
      BY <3>1, <3>2 DEF CryptoInOrder
  <2> QED
    BY <2>2, <2>3
<1> QED
  BY <1>1, <1>2, PTL DEF Spec

=============================================================================
