--------------------------- MODULE ConnWireProofs ---------------------------
(***************************************************************************)
(* Proofs about what a Conn puts on the wire and about its read key, for   *)
(* every number of goroutines, calls and records: who holds c.in and c.out *)
(* first, then the numbers of the records, the place of application data   *)
(* among them, and the KeyUpdates.                                         *)
(***************************************************************************)
EXTENDS ConnProofs

Mutexes == {"hs", "in", "out"}

(* A step of goroutine g leaves the others where they are, with the mutexes    *)
(* they hold.                                                                  *)
OthersKeep(g) == \A h \in Goroutines \ {g} :
    th'[h] = th[h] /\ \A m \in Mutexes : mutex[m] = h => mutex'[m] = h

(* A call returns. *)
LEMMA ReturnKeeps ==
  ASSUME ThType, LockType, NEW g \in Goroutines, Return(g)
  PROVE  /\ OthersKeep(g) /\ HoldInvOf(g)'
         /\ th'[g].pc = "idle" /\ th'[g].op = "none" /\ th'[g].rec = "none"
<1>1. /\ \A h \in Goroutines \ {g} : th'[h] = th[h]
      /\ th'[g].pc = "idle" /\ th'[g].op = "none" /\ th'[g].rec = "none"
  BY EndsFacts DEF Return
<1>2. \A m \in Mutexes, h \in Goroutines \ {g} : mutex[m] = h => mutex'[m] = h
  BY DEF Return, Mutexes
<1> QED
  BY <1>1, <1>2 DEF OthersKeep, HoldInvOf, HoldsIn, Locked, At

(* A goroutine takes a free mutex. *)
LEMMA LockKeeps ==
  ASSUME LockType, NEW g \in Goroutines, NEW m \in Mutexes, Lock(g, m), OthersStay(g)
  PROVE  OthersKeep(g) /\ mutex'[m] = g /\ \A n \in Mutexes \ {m} : mutex'[n] = mutex[n]
<1>1. mutex'[m] = g /\ \A n \in Mutexes \ {m} : mutex'[n] = mutex[n]
  BY DEF Lock, LockType, Mutexes
<1>2. mutex[m] \notin Goroutines
  BY ConnAssumption DEF Lock
<1> QED
  BY <1>1, <1>2 DEF OthersKeep, OthersStay

(* A goroutine gives back a mutex it holds. *)
LEMMA UnlockKeeps ==
  ASSUME LockType, NEW g \in Goroutines, NEW m \in Mutexes, mutex[m] = g,
         mutex' = [mutex EXCEPT ![m] = None], OthersStay(g)
  PROVE  OthersKeep(g) /\ \A n \in Mutexes \ {m} : mutex'[n] = mutex[n]
<1>1. \A n \in Mutexes \ {m} : mutex'[n] = mutex[n]
  BY DEF LockType, Mutexes
<1> QED
  BY <1>1 DEF OthersKeep, OthersStay

(* A record is begun. *)
LEMMA StartFacts ==
  ASSUME TypesOK, NEW g \in Goroutines, NEW k \in Kinds, StartRecord(g, k)
  PROVE  /\ OthersStay(g) /\ th'[g].pc = "xmit" /\ th'[g].op = th[g].op
         /\ th'[g].rec = k /\ th'[g].nonce = seq
<1>1. ThType /\ seq \in Nat
  BY HelperTypes DEF TypesOK
<1> QED
  BY <1>1, SendsFacts DEF StartRecord, OthersStay

-----------------------------------------------------------------------------
(* Who holds c.in and c.out. *)

(* What a step of g has to show. *)
Holds(g) == OthersKeep(g) /\ HoldInvOf(g)'

(* A step of a goroutine by itself. *)
LEMMA HoldStep ==
  ASSUME ConnInv, HoldInv, NEW g \in Goroutines, Step(g) PROVE Holds(g)
<1>0. /\ ThType /\ LockType /\ TypesOK /\ HandshakeInvOf(g) /\ HoldInvOf(g)
      /\ th[g].rec \in Kinds \cup {"none"}
  BY HelperTypes DEF ConnInv, HandshakeInv, HoldInv, TypesOK, ThType, Threads
<1>a. ASSUME Return(g) PROVE Holds(g)
  BY <1>0, <1>a, ReturnKeeps DEF Holds
<1>b. ASSUME OthersStay(g), mutex' = mutex, HoldsIn(g)' => HoldsIn(g), ~Locked(g)'
      PROVE  Holds(g)
  BY <1>0, <1>b DEF Holds, OthersKeep, OthersStay, HoldInvOf
<1>c. ASSUME NEW k \in Kinds, StartRecord(g, k), Lock(g, "out"),
             HoldsIn(g) \/ k \in {"app", "closeNotify"}
      PROVE  Holds(g)
  <2>1. OthersKeep(g) /\ mutex'["out"] = g /\ mutex'["in"] = mutex["in"]
    BY <1>0, <1>c, StartFacts, LockKeeps DEF Mutexes
  <2>2. th'[g].pc = "xmit" /\ th'[g].rec = k
    BY <1>0, <1>c, StartFacts
  <2> QED
    BY <1>0, <1>c, <2>1, <2>2 DEF Holds, HoldInvOf, HoldsIn, Locked, At
<1>1. CASE WriteEnter(g)
  <2>1. OthersStay(g) /\ th'[g].pc \in {"idle", "hsFast"} /\ mutex' = mutex
    BY <1>0, <1>1, EndsFacts, GotoFacts DEF WriteEnter, OthersStay, Labels
  <2> QED
    BY <1>b, <2>1 DEF HoldsIn, Locked, At
<1>2. CASE HsFast(g) \/ HsLock(g)
  <2>1. CASE Return(g)
    BY <1>a, <2>1
  <2>2. CASE ~Return(g) /\ ~Lock(g, "hs")
    <3>1. OthersStay(g) /\ th'[g].pc \in {"hsLock", "inLock", "outLock"} /\ mutex' = mutex
      BY <1>0, <1>2, <2>2, GotoFacts, CtxFacts DEF HsFast, HsLock, AfterHandshake, OthersStay, Labels
    <3> QED
      BY <1>b, <3>1 DEF HoldsIn, Locked, At
  <2>3. CASE ~Return(g) /\ Lock(g, "hs")
    <3>1. mutex' # mutex
      BY <1>0, <2>3, ConnAssumption DEF Lock, LockType
    <3>2. OthersStay(g) /\ th'[g].pc = "hsInLock"
      BY <1>0, <1>2, <2>3, <3>1, GotoFacts DEF HsFast, HsLock, AfterHandshake, OthersStay, Labels
    <3> QED
      BY <1>0, <2>3, <3>2, LockKeeps DEF Holds, HoldInvOf, HoldsIn, Locked, At, Mutexes
  <2> QED
    BY <2>1, <2>2, <2>3
<1>3. CASE HsInLock(g) \/ InLock(g)
  <2>1. OthersStay(g) /\ th'[g].pc \in {"hsSend", "readRecord"} /\ Lock(g, "in")
    BY <1>0, <1>3, GotoFacts DEF HsInLock, InLock, OthersStay, Labels
  <2> QED
    BY <1>0, <2>1, LockKeeps DEF Holds, HoldInvOf, HoldsIn, Locked, At, Mutexes
<1>4. CASE HsSend(g) \/ HsFinish(g)
  BY <1>c, <1>4 DEF HsSend, HsFinish, HoldsIn, At, Kinds
<1>5. CASE KuLock(g) \/ AlertLock(g)
  <2>1. th[g].rec \in Kinds
    BY <1>0, <1>5 DEF KuLock, AlertLock, At, HandshakeInvOf, Kinds
  <2> QED
    BY <1>c, <1>5, <2>1 DEF KuLock, AlertLock, HoldsIn, At
<1>6. CASE HsRecvErr(g) \/ ReadErr(g)
  BY <1>a, <1>6 DEF HsRecvErr, ReadErr, HandshakeFails
<1>7. CASE HsDone(g)
  <2>0. mutex["hs"] = g /\ mutex["in"] = g
    BY <1>0, <1>7 DEF HsDone, At, HandshakeInvOf, HsPcs, HoldInvOf, HoldsIn
  <2>1. CASE th[g].op = "Handshake"
    BY <1>a, <1>7, <2>1 DEF HsDone
  <2>2. CASE th[g].op \in {"Read", "Write"}
    <3>1. \E l \in {"inLock", "outLock"} : Goto(g, l)
      BY SMTT(30), <1>7, <2>2 DEF HsDone
    <3>2. OthersStay(g) /\ th'[g].pc \in {"inLock", "outLock"}
      BY <1>0, <3>1, GotoFacts DEF OthersStay, Labels
    <3>3. mutex' = [mutex EXCEPT !["hs"] = None, !["in"] = None]
      BY SMTT(30), <1>7, <2>2 DEF HsDone
    <3> QED
      BY <1>0, <2>0, <3>2, <3>3 DEF Holds, OthersKeep, OthersStay, HoldInvOf, HoldsIn, Locked, At, LockType, Mutexes
  <2>3. CASE th[g].op = "Reneg"
    <3>1. GotoAs(g, "readRecord", "Read") /\ mutex' = [mutex EXCEPT !["hs"] = None]
      BY SMTT(30), <1>7, <2>3 DEF HsDone
    <3>2. OthersStay(g) /\ th'[g].pc = "readRecord"
      BY <1>0, <3>1, GotoAsFacts DEF OthersStay, Labels, Ops
    <3>3. OthersKeep(g) /\ mutex'["in"] = g
      BY <1>0, <2>0, <3>1, <3>2, UnlockKeeps DEF Mutexes
    <3> QED
      BY <3>2, <3>3 DEF Holds, HoldInvOf, Locked, At
  <2> QED
    BY <1>7, <2>1, <2>2, <2>3 DEF HsDone
<1>8. CASE RenegLock(g)
  <2>1. OthersStay(g) /\ th'[g].pc = "hsSend" /\ Lock(g, "hs")
    BY <1>0, <1>8, GotoAsFacts DEF RenegLock, OthersStay, Labels
  <2>2. mutex["in"] = g
    BY <1>0, <1>8 DEF RenegLock, At, HoldInvOf, HoldsIn
  <2> QED
    BY <1>0, <2>1, <2>2, LockKeeps DEF Holds, HoldInvOf, Locked, At, Mutexes
<1>9. CASE OutLock(g)
  BY <1>a, <1>c, <1>9 DEF OutLock, Kinds
<1>10. CASE Close(g) \/ CloseCheck(g) \/ CloseWrite(g)
  <2>1. CASE Return(g)
    BY <1>a, <2>1
  <2>2. CASE ~Return(g)
    <3>1. OthersStay(g) /\ th'[g].pc \in {"idle", "closeCheck", "notifyLock"} /\ mutex' = mutex
      BY <1>0, <1>10, <2>2, GotoFacts, EndsFacts DEF Close, CloseCheck, CloseWrite, OthersStay, Labels
    <3> QED
      BY <1>b, <3>1 DEF HoldsIn, Locked, At
  <2> QED
    BY <2>1, <2>2
<1>11. CASE NotifyLock(g)
  BY <1>a, <1>c, <1>11 DEF NotifyLock, Kinds
<1>12. ASSUME NEW ok \in BOOLEAN, XmitApp(g, ok) \/ XmitAlert(g, ok) \/ XmitCloseNotify(g, ok)
       PROVE  Holds(g)
  BY <1>a, <1>12 DEF XmitApp, XmitAlert, XmitCloseNotify, HandshakeFails
<1>d. ASSUME th[g].pc = "xmit", th[g].rec \notin {"oversize", "app", "closeNotify"}, OthersStay(g),
             \/ mutex' = [mutex EXCEPT !["out"] = None] /\ th'[g].pc # "xmit"
             \/ mutex' = mutex
      PROVE  Holds(g)
  <2>1. mutex["out"] = g /\ mutex["in"] = g
    BY <1>0, <1>d DEF HoldInvOf, HoldsIn, Locked, At
  <2>2. OthersKeep(g) /\ mutex'["in"] = g
    BY <1>0, <1>d, <2>1, UnlockKeeps DEF Mutexes, OthersKeep, OthersStay
  <2> QED
    BY <1>d, <2>1, <2>2 DEF Holds, HoldInvOf, Locked, At
<1>13. ASSUME NEW ok \in BOOLEAN, XmitKeyUpdate(g, ok) PROVE Holds(g)
  <2>1. th[g].pc = "xmit" /\ th[g].rec \in {"keyUpdate", "keyUpdateTail"}
    BY SMTT(30), <1>13 DEF XmitKeyUpdate, Transmit, At
  <2>2. \/ GotoWith(g, "readRecord", "none") /\ mutex' = [mutex EXCEPT !["out"] = None]
        \/ Sends(g, "softAlert", 0) /\ mutex' = mutex
    BY SMTT(30), <1>13 DEF XmitKeyUpdate
  <2>3. OthersStay(g) /\ (GotoWith(g, "readRecord", "none") => th'[g].pc # "xmit")
    BY <1>0, <2>2, GotoWithFacts, SendsFacts DEF OthersStay, Labels, Kinds
  <2> QED
    BY <1>d, <2>1, <2>2, <2>3
<1>14. ASSUME NEW ok \in BOOLEAN, XmitHandshake(g, ok) \/ XmitFinished(g, ok) PROVE Holds(g)
  <2>1. th[g].pc = "xmit" /\ th[g].rec \in {"handshake", "finished"}
    BY SMTT(30), <1>14 DEF XmitHandshake, XmitFinished, Transmit, At
  <2>2. CASE Return(g)
    BY <1>a, <2>2
  <2>3. CASE ~Return(g)
    <3>1. /\ mutex' = [mutex EXCEPT !["out"] = None]
          /\ \E l \in {"hsRecv", "hsDone"} : GotoWith(g, l, "none")
      BY SMTT(30), <1>14, <2>3 DEF XmitHandshake, XmitFinished, HandshakeFails
    <3>2. OthersStay(g) /\ th'[g].pc # "xmit"
      BY <1>0, <3>1, GotoWithFacts DEF OthersStay, Labels
    <3> QED
      BY <1>d, <2>1, <3>1, <3>2
  <2> QED
    BY <2>2, <2>3
<1> QED
  BY <1>1, <1>2, <1>3, <1>4, <1>5, <1>6, <1>7, <1>8, <1>9, <1>10, <1>11, <1>12, <1>13, <1>14 DEF Step

(* A step that the peer or the caller takes. *)
LEMMA HoldOther ==
  ASSUME ConnInv, HoldInv, NEW g \in Goroutines,
         PeerStep(g) \/ Cancel(g) \/ (\E o \in Ops : Call(g, o)) \/ (\E d \in {"none", "past"} : SetWriteDeadline(g, d))
  PROVE  Holds(g)
<1>0. ThType /\ LockType /\ TypesOK /\ HoldInvOf(g)
  BY HelperTypes DEF ConnInv, HoldInv
<1>a. ASSUME Return(g) PROVE Holds(g)
  BY <1>0, <1>a, ReturnKeeps, SMTT(30) DEF Holds
<1>b. ASSUME OthersStay(g), mutex' = mutex, HoldsIn(g)' => HoldsIn(g), Locked(g)' => Locked(g)
      PROVE  Holds(g)
  BY <1>0, <1>b, SMTT(30) DEF Holds, OthersKeep, OthersStay, HoldInvOf
<1>c. ASSUME mutex' = mutex, th[g].pc \in {"hsRecv", "readRecord"},
             \/ UNCHANGED th \/ StartRecord(g, "oversize")
             \/ \E l \in {"hsFinish", "renegLock"} : Goto(g, l)
             \/ \E l \in {"alertLock", "kuLock"}, k \in Kinds : GotoWith(g, l, k)
      PROVE  Holds(g)
  <2>1. /\ OthersStay(g)
        /\ \/ th'[g].pc \in {"hsRecv", "readRecord", "hsFinish", "renegLock", "alertLock", "kuLock"}
           \/ th'[g].pc = "xmit" /\ th'[g].rec = "oversize"
    BY <1>0, <1>c, GotoFacts, GotoWithFacts, StartFacts DEF OthersStay, Labels, Kinds
  <2> QED
    BY SMTT(30), <1>b, <1>c, <2>1 DEF HoldsIn, Locked, At
<1>1. CASE HsRecv(g)
  BY <1>a, <1>c, <1>1 DEF HsRecv, HandshakeFails, ThenAlert, At, Kinds
<1>2. CASE ReadTimeout(g) \/ RecvAppData(g) \/ RecvAlert(g)
  BY <1>a, <1>2 DEF ReadTimeout, RecvAppData, RecvAlert, HandshakeFails
<1>3. CASE RecvBad(g) \/ RecvUseless(g) \/ RecvOversize(g) \/ RecvHelloRequest(g)
  <2>1. th[g].pc = "readRecord" /\ mutex' = mutex
    BY <1>3 DEF RecvBad, RecvUseless, RecvOversize, RecvHelloRequest, ReceivesGood, Receives, At
  <2>2. \/ UNCHANGED th \/ Goto(g, "renegLock") \/ StartRecord(g, "oversize")
        \/ \E l \in {"alertLock", "kuLock"}, k \in Kinds : GotoWith(g, l, k)
    BY <1>3 DEF RecvBad, RecvUseless, RecvOversize, RecvHelloRequest, ThenAlert, Kinds
  <2> QED
    BY <1>c, <2>1, <2>2
<1>4. ASSUME NEW requested \in BOOLEAN, NEW tail \in BOOLEAN, RecvKeyUpdate(g, requested, tail) PROVE Holds(g)
  <2>1. th[g].pc = "readRecord" /\ mutex' = mutex
    BY <1>4 DEF RecvKeyUpdate, ReceivesGood, Receives, At
  <2>2. UNCHANGED th \/ \E l \in {"alertLock", "kuLock"}, k \in Kinds : GotoWith(g, l, k)
    BY <1>4 DEF RecvKeyUpdate, ThenAlert, Kinds
  <2> QED
    BY <1>c, <2>1, <2>2
<1>5. CASE Cancel(g)
  BY <1>0, <1>b, <1>5, CtxFacts DEF Cancel, OthersStay, HoldsIn, Locked, At
<1>6. ASSUME NEW o \in Ops, Call(g, o) PROVE Holds(g)
  <2>1. Entry(o) \in {"enter", "close", "closeWrite", "hsFast"}
    BY DEF Entry
  <2>2. OthersStay(g) /\ th'[g].pc = Entry(o) /\ mutex' = mutex
    BY <1>0, <1>6, <2>1, GotoAsFacts DEF Call, OthersStay, Labels
  <2> QED
    BY <1>b, <2>1, <2>2 DEF HoldsIn, Locked, At
<1>7. ASSUME NEW d \in {"none", "past"}, SetWriteDeadline(g, d) PROVE Holds(g)
  BY <1>b, <1>7 DEF SetWriteDeadline, OthersStay, HoldsIn, Locked, At
<1> QED
  BY <1>1, <1>2, <1>3, <1>4, <1>5, <1>6, <1>7 DEF PeerStep

(* What one goroutine does, as Next has it. *)
Moves(g) == \/ Step(g) \/ PeerStep(g) \/ Cancel(g)
            \/ \E o \in Ops : Call(g, o)
            \/ \E d \in {"none", "past"} : SetWriteDeadline(g, d)

(* The transport alone moves no goroutine, and changes no key and no record. *)
LEMMA NetSteps ==
  ASSUME [Next]_vars, \A g \in Goroutines : ~Moves(g)
  PROVE  UNCHANGED <<th, mutex, hs, inh, outh>>
<1>1. PeerStopsReading \/ PeerResets \/ DeadlinePasses \/ UNCHANGED vars
  BY DEF Next, Moves
<1> QED
  BY <1>1 DEF PeerStopsReading, PeerResets, DeadlinePasses, vars

(* Every step keeps the locks where they belong. *)
LEMMA HoldNext == ConnInv /\ HoldInv /\ [Next]_vars => HoldInv'
<1> SUFFICES ASSUME ConnInv, HoldInv, [Next]_vars PROVE HoldInv'
  OBVIOUS
<1>1. ASSUME NEW g \in Goroutines, Moves(g) PROVE HoldInv'
  <2>1. Holds(g)
    BY <1>1, HoldStep, HoldOther DEF Moves
  <2>2. ASSUME NEW h \in Goroutines \ {g} PROVE HoldInvOf(h)'
    BY <2>1, <2>2 DEF Holds, OthersKeep, HoldInv, HoldInvOf, HoldsIn, Locked, At, Mutexes
  <2> QED
    BY <2>1, <2>2 DEF Holds, HoldInv
<1>2. CASE \A g \in Goroutines : ~Moves(g)
  BY <1>2, NetSteps DEF HoldInv, HoldInvOf, HoldsIn, Locked, At
<1> QED
  BY <1>1, <1>2

-----------------------------------------------------------------------------
(* The three things a step can do to c.out and the wire. *)

(* Nothing: no record is begun or ended; a renegotiation may begin. *)
QuietOut(g) ==
    /\ UNCHANGED <<epoch, seq, closeNotifySent, wire>> /\ (complete' => complete)
    /\ th'[g].pc = "xmit" => /\ th[g].pc = "xmit" /\ th'[g].rec = th[g].rec
                             /\ th'[g].nonce = th[g].nonce

(* Begin a record of kind k, with c.out free before unless it is the unlocked  *)
(* alert, and as Write requires if it is application data.                     *)
Begins(g, k) ==
    /\ StartRecord(g, k) /\ complete' = complete
    /\ k # "oversize" => mutex["out"] = None
    /\ k = "app" => complete /\ ~closeNotifySent

(* Put it on the transport, or fail to, and perhaps change the key behind it. *)
Record(g)  == [kind |-> th[g].rec, epoch |-> epoch, seq |-> th[g].nonce]
Finishes(g) ==
    /\ th[g].pc = "xmit" /\ th[g].rec # "none"
    /\ wire' = wire \/ wire' = Append(wire, Record(g))
    /\ (closeNotifySent' <=> (closeNotifySent \/ th[g].rec = "closeNotify"))
    /\ th[g].rec = "handshake" => ~complete'
    /\ \/ epoch' = epoch /\ seq' = seq /\ th'[g].pc # "xmit" /\ complete' = complete
       \/ /\ epoch' = epoch + 1 /\ th[g].rec \notin {"oversize", "handshake"}
          /\ \/ th'[g].pc # "xmit"
             \/ th'[g].rec = "softAlert" /\ th'[g].nonce = 0 /\ seq' = 1
          /\ seq' \in Nat

OutMove(g) == QuietOut(g) \/ (\E k \in Kinds : Begins(g, k)) \/ Finishes(g)

(* A call that returns, or a goroutine that goes elsewhere, is quiet. *)
LEMMA QuietReturn ==
  ASSUME ThType, LockType, NEW g \in Goroutines, Return(g),
         UNCHANGED <<epoch, seq, closeNotifySent, wire>>, complete' = complete
  PROVE  QuietOut(g)
  BY ReturnKeeps DEF QuietOut

LEMMA OutMoveStep ==
  ASSUME ConnInv, NEW g \in Goroutines, Step(g) PROVE OutMove(g)
<1>0. /\ ThType /\ LockType /\ TypesOK /\ HandshakeInvOf(g) /\ th[g].rec \in Kinds \cup {"none"}
      /\ seq \in Nat
  BY HelperTypes DEF ConnInv, HandshakeInv, TypesOK, ThType, Threads
<1>1. CASE WriteEnter(g)
  <2>1. th'[g].pc \in {"idle", "hsFast"}
    BY <1>0, <1>1, EndsFacts, GotoFacts DEF WriteEnter, Labels
  <2> QED
    BY <1>1, <2>1 DEF WriteEnter, outh, hs, OutMove, QuietOut
<1>2. CASE HsFast(g) \/ HsLock(g)
  <2>1. UNCHANGED <<epoch, seq, closeNotifySent, wire>> /\ complete' = complete
    BY <1>2 DEF HsFast, HsLock, outh, hs
  <2>2. CASE Return(g)
    BY <1>0, <2>1, <2>2, QuietReturn DEF OutMove
  <2>3. CASE ~Return(g)
    <3>1. th'[g].pc \in {"hsLock", "inLock", "outLock", "hsInLock"}
      BY <1>0, <1>2, <2>3, GotoFacts, CtxFacts DEF HsFast, HsLock, AfterHandshake, Labels
    <3> QED
      BY <2>1, <3>1 DEF OutMove, QuietOut
  <2> QED
    BY <2>2, <2>3
<1>3. CASE HsInLock(g) \/ InLock(g)
  <2>1. th'[g].pc \in {"hsSend", "readRecord"}
    BY <1>0, <1>3, GotoFacts DEF HsInLock, InLock, Labels
  <2> QED
    BY <1>3, <2>1 DEF HsInLock, InLock, outh, hs, OutMove, QuietOut
<1>4. CASE HsSend(g) \/ HsFinish(g)
  <2>1. Begins(g, "handshake") \/ Begins(g, "finished")
    BY <1>4 DEF HsSend, HsFinish, hs, Lock, Begins
  <2> QED
    BY <2>1 DEF OutMove, Kinds
<1>5. CASE KuLock(g) \/ AlertLock(g)
  <2>1. th[g].rec \in Kinds /\ th[g].rec # "app"
    BY <1>0, <1>5 DEF KuLock, AlertLock, At, HandshakeInvOf, Kinds
  <2>2. Begins(g, th[g].rec)
    BY <1>5, <2>1 DEF KuLock, AlertLock, hs, Lock, Begins
  <2> QED
    BY <2>1, <2>2 DEF OutMove
<1>6. CASE HsRecvErr(g) \/ ReadErr(g)
  BY <1>0, <1>6, QuietReturn DEF HsRecvErr, ReadErr, HandshakeFails, hs, outh, OutMove
<1>7. CASE HsDone(g)
  <2>1. UNCHANGED <<epoch, seq, closeNotifySent, wire>> /\ complete' = complete
    BY <1>7 DEF HsDone, outh
  <2>2. CASE th[g].op = "Handshake"
    BY <1>0, <1>7, <2>1, <2>2, QuietReturn DEF HsDone, OutMove
  <2>3. CASE th[g].op # "Handshake"
    <3>1. (\E l \in {"inLock", "outLock"} : Goto(g, l)) \/ GotoAs(g, "readRecord", "Read")
      BY SMTT(30), <1>7, <2>3 DEF HsDone
    <3>2. th'[g].pc \in {"inLock", "outLock", "readRecord"}
      BY <1>0, <3>1, GotoFacts, GotoAsFacts DEF Labels, Ops
    <3> QED
      BY <2>1, <3>2 DEF OutMove, QuietOut
  <2> QED
    BY <2>2, <2>3
<1>8. CASE RenegLock(g)
  <2>1. th'[g].pc = "hsSend"
    BY <1>0, <1>8, GotoAsFacts DEF RenegLock, Labels
  <2> QED
    BY <1>8, <2>1 DEF RenegLock, outh, OutMove, QuietOut
<1>9. CASE OutLock(g)
  <2>1. CASE Return(g) /\ UNCHANGED outh
    BY <1>0, <1>9, <2>1, QuietReturn DEF OutLock, hs, outh, OutMove
  <2>2. CASE ~(Return(g) /\ UNCHANGED outh)
    <3>1. Begins(g, "app")
      BY <1>9, <2>2 DEF OutLock, hs, Begins
    <3> QED
      BY <3>1 DEF OutMove, Kinds
  <2> QED
    BY <2>1, <2>2
<1>10. CASE Close(g) \/ CloseCheck(g) \/ CloseWrite(g)
  <2>1. UNCHANGED <<epoch, seq, closeNotifySent, wire>> /\ complete' = complete
    BY <1>10 DEF Close, CloseCheck, CloseWrite, outh, hs
  <2>2. CASE Return(g)
    BY <1>0, <2>1, <2>2, QuietReturn DEF OutMove
  <2>3. CASE ~Return(g)
    <3>1. th'[g].pc \in {"idle", "closeCheck", "notifyLock"}
      BY <1>0, <1>10, <2>3, GotoFacts, EndsFacts DEF Close, CloseCheck, CloseWrite, Labels
    <3> QED
      BY <2>1, <3>1 DEF OutMove, QuietOut
  <2> QED
    BY <2>2, <2>3
<1>11. CASE NotifyLock(g)
  <2>1. CASE closeNotifySent
    BY <1>0, <1>11, <2>1, QuietReturn DEF NotifyLock, hs, outh, OutMove
  <2>2. CASE ~closeNotifySent
    <3>1. Begins(g, "closeNotify")
      BY <1>11, <2>2 DEF NotifyLock, hs, Begins
    <3> QED
      BY <3>1 DEF OutMove, Kinds
  <2> QED
    BY <2>1, <2>2
<1>a. ASSUME NEW ok \in BOOLEAN, Transmit(g, ok)
      PROVE  th[g].pc = "xmit" /\ (wire' = wire \/ wire' = Append(wire, Record(g)))
  BY <1>a DEF Transmit, At, Record
<1>12. ASSUME NEW ok \in BOOLEAN, XmitApp(g, ok) \/ XmitAlert(g, ok) PROVE OutMove(g)
  <2>1. Transmit(g, ok) /\ Return(g) /\ UNCHANGED <<epoch, seq, closeNotifySent, complete>>
    BY <1>12 DEF XmitApp, XmitAlert, HandshakeFails, hs
  <2>2. th[g].rec \in {"app", "alert", "softAlert", "oversize"}
    BY <1>12 DEF XmitApp, XmitAlert
  <2> QED
    BY <1>0, <1>a, <2>1, <2>2, ReturnKeeps DEF OutMove, Finishes
<1>13. ASSUME NEW ok \in BOOLEAN, XmitCloseNotify(g, ok) PROVE OutMove(g)
  BY <1>0, <1>a, <1>13, ReturnKeeps DEF XmitCloseNotify, hs, OutMove, Finishes
<1>14. ASSUME NEW ok \in BOOLEAN, XmitKeyUpdate(g, ok) PROVE OutMove(g)
  <2>1. /\ Transmit(g, ok) /\ th[g].rec \in {"keyUpdate", "keyUpdateTail"}
        /\ UNCHANGED <<closeNotifySent, complete>>
    BY SMTT(30), <1>14 DEF XmitKeyUpdate, hs
  <2>2. \/ epoch' = epoch + 1 /\ seq' = 0 /\ GotoWith(g, "readRecord", "none")
        \/ epoch' = epoch + 1 /\ seq' = 1 /\ Sends(g, "softAlert", 0)
        \/ epoch' = epoch /\ seq' = seq /\ GotoWith(g, "readRecord", "none")
    BY SMTT(30), <1>14 DEF XmitKeyUpdate
  <2>3. /\ GotoWith(g, "readRecord", "none") => th'[g].pc # "xmit"
        /\ Sends(g, "softAlert", 0) => th'[g].rec = "softAlert" /\ th'[g].nonce = 0
    BY <1>0, GotoWithFacts, SendsFacts DEF Labels, Kinds
  <2>4. th[g].pc = "xmit" /\ (wire' = wire \/ wire' = Append(wire, Record(g)))
    BY <1>a, <2>1
  <2> QED
    BY <2>1, <2>2, <2>3, <2>4 DEF OutMove, Finishes
<1>15. ASSUME NEW ok \in BOOLEAN, XmitHandshake(g, ok) \/ XmitFinished(g, ok) PROVE OutMove(g)
  <2>1. Transmit(g, ok) /\ closeNotifySent' = closeNotifySent /\ th[g].rec \in {"handshake", "finished"}
    BY SMTT(30), <1>15 DEF XmitHandshake, XmitFinished
  <2>2. th[g].pc = "xmit" /\ (wire' = wire \/ wire' = Append(wire, Record(g)))
    BY <1>a, <2>1
  <2>3. ~complete
    BY <1>0, <2>1, <2>2 DEF HandshakeInvOf
  <2>4. \/ HandshakeFails(g) /\ epoch' = epoch /\ seq' = seq
        \/ epoch' = epoch /\ seq' = seq /\ complete' = complete /\ GotoWith(g, "hsRecv", "none")
        \/ /\ th[g].rec = "finished" /\ epoch' = epoch + 1 /\ seq' = 0
           /\ GotoWith(g, "hsDone", "none")
    BY SMTT(30), <1>15 DEF XmitHandshake, XmitFinished, hs
  <2>5. th'[g].pc # "xmit"
    BY <1>0, <2>4, GotoWithFacts, ReturnKeeps DEF HandshakeFails, Labels
  <2>6. HandshakeFails(g) => complete' = complete
    BY DEF HandshakeFails
  <2> QED
    BY <2>1, <2>2, <2>3, <2>4, <2>5, <2>6 DEF OutMove, Finishes
<1> QED
  BY <1>1, <1>2, <1>3, <1>4, <1>5, <1>6, <1>7, <1>8, <1>9, <1>10, <1>11, <1>12, <1>13, <1>14, <1>15 DEF Step

(* The peer and the caller begin no record but the alert for an oversize       *)
(* message.                                                                    *)
LEMMA OutMoveOther ==
  ASSUME ConnInv, NEW g \in Goroutines,
         PeerStep(g) \/ Cancel(g) \/ (\E o \in Ops : Call(g, o)) \/ (\E d \in {"none", "past"} : SetWriteDeadline(g, d))
  PROVE  OutMove(g)
<1>0. ThType /\ LockType /\ TypesOK
  BY HelperTypes DEF ConnInv
<1>a. ASSUME UNCHANGED outh, UNCHANGED complete,
             \/ Return(g)
             \/ UNCHANGED th \/ \E l \in {"hsFinish", "renegLock"} : Goto(g, l)
             \/ \E l \in {"alertLock", "kuLock"}, k \in Kinds : GotoWith(g, l, k)
      PROVE  OutMove(g)
  <2>1. th' = th \/ th'[g].pc # "xmit"
    BY <1>0, <1>a, ReturnKeeps, GotoFacts, GotoWithFacts DEF Labels, Kinds
  <2> QED
    BY SMTT(30), <1>a, <2>1 DEF outh, OutMove, QuietOut
<1>1. CASE HsRecv(g) \/ ReadTimeout(g) \/ RecvAppData(g) \/ RecvAlert(g)
  <2>1. UNCHANGED outh /\ UNCHANGED complete
    BY <1>1 DEF HsRecv, ReadTimeout, RecvAppData, RecvAlert, HandshakeFails, hs
  <2>2. Return(g) \/ Goto(g, "hsFinish") \/ GotoWith(g, "alertLock", "alert")
    BY <1>1 DEF HsRecv, ReadTimeout, RecvAppData, RecvAlert, HandshakeFails, ThenAlert
  <2> QED
    BY <1>a, <2>1, <2>2 DEF Kinds
<1>2. CASE RecvBad(g) \/ RecvUseless(g) \/ RecvHelloRequest(g)
  <2>1. UNCHANGED outh /\ UNCHANGED complete
    BY <1>2 DEF RecvBad, RecvUseless, RecvHelloRequest, hs
  <2>2. \/ UNCHANGED th \/ Goto(g, "renegLock")
        \/ \E k \in Kinds : GotoWith(g, "alertLock", k)
    BY <1>2 DEF RecvBad, RecvUseless, RecvHelloRequest, ThenAlert, Kinds
  <2> QED
    BY <1>a, <2>1, <2>2
<1>3. CASE RecvOversize(g)
  <2>1. Begins(g, "oversize")
    BY <1>3 DEF RecvOversize, hs, Begins
  <2> QED
    BY <2>1 DEF OutMove, Kinds
<1>4. ASSUME NEW requested \in BOOLEAN, NEW tail \in BOOLEAN, RecvKeyUpdate(g, requested, tail) PROVE OutMove(g)
  <2>1. UNCHANGED outh /\ UNCHANGED complete
    BY <1>4 DEF RecvKeyUpdate, hs
  <2>2. UNCHANGED th \/ \E l \in {"alertLock", "kuLock"}, k \in Kinds : GotoWith(g, l, k)
    BY <1>4 DEF RecvKeyUpdate, ThenAlert, Kinds
  <2> QED
    BY <1>a, <2>1, <2>2
<1>5. CASE Cancel(g)
  BY <1>0, <1>5, CtxFacts DEF Cancel, hs, outh, OutMove, QuietOut
<1>6. ASSUME NEW o \in Ops, Call(g, o) PROVE OutMove(g)
  <2>1. Entry(o) \in {"enter", "close", "closeWrite", "hsFast"}
    BY DEF Entry
  <2>2. th'[g].pc = Entry(o)
    BY <1>0, <1>6, <2>1, GotoAsFacts DEF Call, Labels
  <2> QED
    BY <1>6, <2>1, <2>2 DEF Call, hs, outh, OutMove, QuietOut
<1>7. ASSUME NEW d \in {"none", "past"}, SetWriteDeadline(g, d) PROVE OutMove(g)
  BY <1>7 DEF SetWriteDeadline, hs, outh, OutMove, QuietOut
<1> QED
  BY <1>1, <1>2, <1>3, <1>4, <1>5, <1>6, <1>7 DEF PeerStep

-----------------------------------------------------------------------------
(* What the moves do to the wire. *)

WireInv == /\ SequenceInv /\ AppDataInv
           /\ LockedRecordsInSequence /\ NoAppDataAfterCloseNotify /\ NoAppDataMidHandshake

(* Who else is at the transport is so in the next state, and only they are. *)
LEMMA OthersAtTransport ==
  ASSUME NEW g \in Goroutines, OthersKeep(g), NEW h \in Goroutines \ {g}
  PROVE  /\ Locked(h)' <=> Locked(h)
         /\ SendsApp(h)' <=> SendsApp(h)
         /\ th'[h].nonce = th[h].nonce
  BY DEF OthersKeep, Locked, SendsApp, At

(* While g holds c.out, or it is free, no other goroutine has a record of the  *)
(* locked kind at the transport.                                               *)
LEMMA OnlyOneAtTransport ==
  ASSUME HoldInv, NEW g \in Goroutines, mutex["out"] \in {g, None}, NEW h \in Goroutines \ {g}
  PROVE  ~Locked(h) /\ ~SendsApp(h)
  BY ConnAssumption DEF HoldInv, HoldInvOf, Locked, SendsApp

(* The records on the wire are well typed. *)
LEMMA WireTypes ==
  ASSUME TypesOK, NEW i \in DOMAIN wire
  PROVE  wire[i].kind \in Kinds /\ wire[i].epoch \in Nat /\ wire[i].seq \in Nat
<1>1. wire \in Seq([kind : Kinds, epoch : Nat, seq : Nat])
  BY DEF TypesOK
<1>2. i \in 1..Len(wire)
  BY <1>1
<1>3. wire[i] \in [kind : Kinds, epoch : Nat, seq : Nat]
  BY <1>1, <1>2, ElementOfSeq
<1> QED
  BY <1>3

(* A record is added at the end of the wire. *)
LEMMA WireGrows ==
  ASSUME TypesOK, NEW r \in [kind : Kinds, epoch : Nat, seq : Nat], wire' = Append(wire, r)
  PROVE  /\ Len(wire) + 1 \in DOMAIN wire' /\ wire'[Len(wire) + 1] = r
         /\ \A i \in DOMAIN wire' : \/ i \in DOMAIN wire /\ wire'[i] = wire[i] /\ i < Len(wire) + 1
                                    \/ i = Len(wire) + 1 /\ wire'[i] = r
<1>1. wire \in Seq([kind : Kinds, epoch : Nat, seq : Nat])
  BY DEF TypesOK
<1>2. DOMAIN wire = 1..Len(wire) /\ Len(wire) \in Nat
  BY <1>1
<1>3. wire' \in Seq([kind : Kinds, epoch : Nat, seq : Nat]) /\ Len(wire') = Len(wire) + 1
  BY <1>1, AppendProperties
<1>4. DOMAIN wire' = 1..(Len(wire) + 1)
  BY <1>2, <1>3
<1>5. wire'[Len(wire) + 1] = r /\ \A i \in 1..Len(wire) : wire'[i] = wire[i]
  BY <1>1, AppendProperties
<1> QED
  BY <1>2, <1>4, <1>5

(* A quiet step keeps what the wire shows. *)
LEMMA WireQuiet ==
  ASSUME WireInv, NEW g \in Goroutines, OthersKeep(g), QuietOut(g) PROVE WireInv'
<1>1. /\ epoch' = epoch /\ seq' = seq /\ closeNotifySent' = closeNotifySent /\ wire' = wire
      /\ complete' => complete
  BY DEF QuietOut
<1>2. \A h \in Goroutines : /\ Locked(h)' => Locked(h) /\ th'[h].nonce = th[h].nonce
                            /\ SendsApp(h)' => SendsApp(h)
  BY OthersAtTransport DEF QuietOut, Locked, SendsApp, At
<1>3. SequenceInv'
  BY <1>1, <1>2 DEF WireInv, SequenceInv, Numbered
<1>4. AppDataInv'
  BY <1>1, <1>2 DEF WireInv, AppDataInv, OpenFlight
<1>5. LockedRecordsInSequence' /\ NoAppDataAfterCloseNotify' /\ NoAppDataMidHandshake'
  BY <1>1 DEF WireInv, LockedRecordsInSequence, NoAppDataAfterCloseNotify, NoAppDataMidHandshake
<1> QED
  BY <1>3, <1>4, <1>5 DEF WireInv

(* The record begun gets the next number, behind all that are on the wire. *)
LEMMA WireBegins ==
  ASSUME TypesOK, HoldInv, WireInv, NEW g \in Goroutines, NEW k \in Kinds,
         OthersKeep(g), Begins(g, k)
  PROVE  WireInv'
<1>0. epoch \in Nat /\ seq \in Nat /\ \A i \in DOMAIN wire : wire[i].seq \in Nat /\ wire[i].epoch \in Nat
  BY WireTypes DEF TypesOK
<1>1. /\ epoch' = epoch /\ closeNotifySent' = closeNotifySent /\ wire' = wire /\ complete' = complete
      /\ seq' = IF epoch = 0 THEN seq ELSE seq + 1
      /\ th'[g].pc = "xmit" /\ th'[g].rec = k /\ th'[g].nonce = seq
  BY StartFacts DEF Begins, StartRecord
<1>2. \A h \in Goroutines \ {g} : /\ Locked(h)' <=> Locked(h)
                                  /\ SendsApp(h)' <=> SendsApp(h)
                                  /\ th'[h].nonce = th[h].nonce
  BY OthersAtTransport
<1>3. SequenceInv'
  <2>1. ASSUME NEW i \in DOMAIN wire
        PROVE  wire'[i].epoch <= epoch' /\ (Numbered(wire[i])' => wire'[i].seq < seq')
    BY <1>0, <1>1, <2>1 DEF WireInv, SequenceInv, Numbered
  <2>2. ASSUME NEW h \in Goroutines, Locked(h)', epoch' > 0
        PROVE  /\ th'[h].nonce < seq'
               /\ \A i \in DOMAIN wire : Numbered(wire[i])' => wire'[i].seq < th'[h].nonce
    <3>1. CASE h = g
      BY <1>0, <1>1, <2>2, <3>1 DEF WireInv, SequenceInv, Numbered
    <3>2. CASE h # g
      <4>1. th[h].nonce \in Nat
        BY HelperTypes DEF ThType, Threads
      <4> QED
        BY <1>0, <1>1, <1>2, <2>2, <3>2, <4>1 DEF WireInv, SequenceInv, Numbered
    <3> QED
      BY <3>1, <3>2
  <2> QED
    BY <1>1, <2>1, <2>2 DEF SequenceInv, Numbered
<1>4. AppDataInv'
  <2>1. ASSUME SendsApp(g)' PROVE ~closeNotifySent /\ \A i \in DOMAIN wire : ~OpenFlight(wire[i])
    BY <1>1, <2>1 DEF Begins, WireInv, AppDataInv, SendsApp, At
  <2> QED
    BY <1>1, <1>2, <2>1 DEF WireInv, AppDataInv, OpenFlight
<1>5. LockedRecordsInSequence' /\ NoAppDataAfterCloseNotify' /\ NoAppDataMidHandshake'
  BY <1>1 DEF WireInv, LockedRecordsInSequence, NoAppDataAfterCloseNotify, NoAppDataMidHandshake
<1> QED
  BY <1>3, <1>4, <1>5 DEF WireInv

(* The record that leaves, or fails to, keeps what the wire shows, and so does *)
(* the change of key behind it.                                                *)
LEMMA WireFinishes ==
  ASSUME TypesOK, HoldInv, WireInv, NEW g \in Goroutines, OthersKeep(g), Finishes(g)
  PROVE  WireInv'
<1> DEFINE r == Record(g)
<1>0. /\ epoch \in Nat /\ seq \in Nat
      /\ \A i \in DOMAIN wire : wire[i].seq \in Nat /\ wire[i].epoch \in Nat
      /\ \A h \in Goroutines : th[h].nonce \in Nat
      /\ th[g].rec \in Kinds
  BY WireTypes, HelperTypes DEF TypesOK, ThType, Threads, Finishes
<1>1. /\ r.kind = th[g].rec /\ r.epoch = epoch /\ r.seq = th[g].nonce
      /\ r \in [kind : Kinds, epoch : Nat, seq : Nat]
  BY <1>0 DEF Record
<1> HIDE DEF r
<1>2. \A i \in DOMAIN wire' : \/ i \in DOMAIN wire /\ wire'[i] = wire[i]
                              \/ i = Len(wire) + 1 /\ wire'[i] = r
  BY <1>1, WireGrows DEF Finishes, r
<1>3. \A i, j \in DOMAIN wire' : i < j => /\ i \in DOMAIN wire /\ wire'[i] = wire[i]
                                          /\ \/ j \in DOMAIN wire /\ wire'[j] = wire[j]
                                             \/ wire'[j] = r
  <2>1. DOMAIN wire = 1..Len(wire) /\ Len(wire) \in Nat
    BY DEF TypesOK
  <2> QED
    BY <1>2, <2>1
<1>4. Locked(g) \/ th[g].rec = "oversize"
  BY DEF Finishes, Locked, At
<1>5. ASSUME NEW h \in Goroutines \ {g}, Locked(h) \/ SendsApp(h) PROVE th[g].rec = "oversize"
  BY <1>4, <1>5, OnlyOneAtTransport DEF HoldInv, HoldInvOf
<1>6. \A h \in Goroutines \ {g} : /\ Locked(h)' <=> Locked(h)
                                  /\ SendsApp(h)' <=> SendsApp(h)
                                  /\ th'[h].nonce = th[h].nonce
  BY OthersAtTransport
<1>7. \/ epoch' = epoch /\ seq' = seq /\ th'[g].pc # "xmit" /\ complete' = complete
      \/ /\ epoch' = epoch + 1 /\ th[g].rec \notin {"oversize", "handshake"}
         /\ \/ th'[g].pc # "xmit"
            \/ th'[g].rec = "softAlert" /\ th'[g].nonce = 0 /\ seq' = 1
         /\ seq' \in Nat
  BY DEF Finishes
<1>8. SequenceInv'
  <2>1. ASSUME NEW i \in DOMAIN wire'
        PROVE  wire'[i].epoch <= epoch' /\ (Numbered(wire[i])' => wire'[i].seq < seq')
    <3>1. CASE i \in DOMAIN wire /\ wire'[i] = wire[i]
      BY <1>0, <1>7, <3>1 DEF WireInv, SequenceInv, Numbered
    <3>2. CASE wire'[i] = r
      BY <1>0, <1>1, <1>4, <1>7, <3>2 DEF WireInv, SequenceInv, Numbered
    <3> QED
      BY <1>2, <2>1, <3>1, <3>2
  <2>2. ASSUME NEW h \in Goroutines, Locked(h)', epoch' > 0
        PROVE  /\ th'[h].nonce < seq'
               /\ \A i \in DOMAIN wire' : Numbered(wire[i])' => wire'[i].seq < th'[h].nonce
    <3>1. CASE h = g
      <4>1. epoch' = epoch + 1 /\ th'[h].nonce = 0 /\ seq' = 1
        BY <1>7, <2>2, <3>1 DEF Locked, At
      <4>2. \A i \in DOMAIN wire' : wire'[i].epoch <= epoch /\ wire'[i].epoch \in Nat
        BY <1>0, <1>1, <1>2 DEF WireInv, SequenceInv
      <4> QED
        BY <1>0, <4>1, <4>2 DEF Numbered
    <3>2. CASE h # g
      <4>1. Locked(h) /\ th[g].rec = "oversize" /\ epoch' = epoch /\ seq' = seq /\ th'[h].nonce = th[h].nonce
        BY <1>5, <1>6, <1>7, <2>2, <3>2
      <4> QED
        BY <1>0, <1>1, <1>2, <2>2, <4>1 DEF WireInv, SequenceInv, Numbered
    <3> QED
      BY <3>1, <3>2
  <2> QED
    BY <2>1, <2>2 DEF SequenceInv
<1>9. AppDataInv'
  <2>1. ASSUME NEW i \in DOMAIN wire'
        PROVE  /\ wire'[i].kind = "closeNotify" => closeNotifySent'
               /\ OpenFlight(wire[i])' => ~complete'
    <3>1. CASE i \in DOMAIN wire /\ wire'[i] = wire[i]
      <4>1. wire[i].epoch \in Nat /\ wire[i].epoch <= epoch
        BY <1>0, <3>1 DEF WireInv, SequenceInv
      <4> QED
        BY <1>0, <1>7, <3>1, <4>1 DEF Finishes, WireInv, AppDataInv, OpenFlight
    <3>2. CASE wire'[i] = r
      BY <1>1, <3>2 DEF Finishes, OpenFlight
    <3> QED
      BY <1>2, <2>1, <3>1, <3>2
  <2>2. ASSUME NEW h \in Goroutines, SendsApp(h)'
        PROVE  ~closeNotifySent' /\ \A i \in DOMAIN wire' : ~OpenFlight(wire[i])'
    <3>1. h # g
      BY <1>7, <2>2 DEF SendsApp, At
    <3>2. SendsApp(h) /\ th[g].rec = "oversize" /\ epoch' = epoch
      BY <1>5, <1>6, <1>7, <2>2, <3>1
    <3> QED
      BY <1>1, <1>2, <3>2 DEF Finishes, WireInv, AppDataInv, OpenFlight
  <2> QED
    BY <2>1, <2>2 DEF AppDataInv
<1>10. LockedRecordsInSequence'
  <2> SUFFICES ASSUME NEW i \in DOMAIN wire', NEW j \in DOMAIN wire', i < j,
                      wire'[i].epoch = wire'[j].epoch, wire'[i].epoch > 0,
                      wire'[i].kind # "oversize", wire'[j].kind # "oversize"
               PROVE  wire'[i].seq < wire'[j].seq
    BY DEF LockedRecordsInSequence
  <2>1. CASE j \in DOMAIN wire /\ wire'[j] = wire[j]
    BY <1>3, <2>1 DEF WireInv, LockedRecordsInSequence
  <2>2. CASE wire'[j] = r
    BY <1>1, <1>3, <1>4, <2>2 DEF WireInv, SequenceInv, Numbered
  <2> QED
    BY <1>3, <2>1, <2>2
<1>11. NoAppDataAfterCloseNotify'
  <2> SUFFICES ASSUME NEW i \in DOMAIN wire', NEW j \in DOMAIN wire', i < j,
                      wire'[i].kind = "closeNotify", wire'[j].kind = "app"
               PROVE  FALSE
    BY DEF NoAppDataAfterCloseNotify
  <2>1. CASE j \in DOMAIN wire /\ wire'[j] = wire[j]
    BY <1>3, <2>1 DEF WireInv, NoAppDataAfterCloseNotify
  <2>2. CASE wire'[j] = r
    BY <1>1, <1>3, <2>2 DEF Finishes, WireInv, AppDataInv, SendsApp, At
  <2> QED
    BY <1>3, <2>1, <2>2
<1>12. NoAppDataMidHandshake'
  <2> SUFFICES ASSUME NEW i \in DOMAIN wire', NEW j \in DOMAIN wire', i < j,
                      wire'[i].kind = "handshake", wire'[j].kind = "app"
               PROVE  wire'[i].epoch < wire'[j].epoch
    BY DEF NoAppDataMidHandshake
  <2>1. CASE j \in DOMAIN wire /\ wire'[j] = wire[j]
    BY <1>3, <2>1 DEF WireInv, NoAppDataMidHandshake
  <2>2. CASE wire'[j] = r
    <3>1. i \in DOMAIN wire /\ wire'[i] = wire[i] /\ wire[i].epoch <= epoch /\ wire[i].epoch \in Nat
      BY <1>0, <1>3 DEF WireInv, SequenceInv
    <3>2. ~OpenFlight(wire[i])
      BY <1>1, <2>2, <3>1 DEF Finishes, WireInv, AppDataInv, SendsApp, At
    <3> QED
      BY <1>0, <1>1, <2>2, <3>1, <3>2 DEF OpenFlight
  <2> QED
    BY <1>3, <2>1, <2>2
<1> QED
  BY <1>8, <1>9, <1>10, <1>11, <1>12 DEF WireInv

(* Every step keeps what the wire shows. *)
LEMMA WireNext == ConnInv /\ HoldInv /\ WireInv /\ [Next]_vars => WireInv'
<1> SUFFICES ASSUME ConnInv, HoldInv, WireInv, [Next]_vars PROVE WireInv'
  OBVIOUS
<1>1. ASSUME NEW g \in Goroutines, Moves(g) PROVE WireInv'
  <2>1. OthersKeep(g) /\ TypesOK
    BY <1>1, HoldStep, HoldOther DEF Moves, Holds, ConnInv
  <2>2. OutMove(g)
    BY <1>1, OutMoveStep, OutMoveOther DEF Moves
  <2> QED
    BY <2>1, <2>2, WireQuiet, WireBegins, WireFinishes DEF OutMove
<1>2. CASE \A g \in Goroutines : ~Moves(g)
  <2>1. UNCHANGED <<th, complete, epoch, seq, closeNotifySent, wire>>
    BY <1>2, NetSteps DEF hs, outh
  <2>2. SequenceInv' /\ AppDataInv'
    BY <2>1 DEF WireInv, SequenceInv, AppDataInv, Locked, SendsApp, At, Numbered, OpenFlight
  <2> QED
    BY <2>1, <2>2 DEF WireInv, LockedRecordsInSequence, NoAppDataAfterCloseNotify, NoAppDataMidHandshake
<1> QED
  BY <1>1, <1>2

-----------------------------------------------------------------------------
(* The KeyUpdates. *)

Updating(g) == /\ th[g].pc \in {"kuLock", "alertLock", "xmit"}
               /\ th[g].rec \in {"keyUpdate", "keyUpdateTail", "softAlert"}

(* A step that changes no key of c.in and no error of c.out, and leaves a      *)
(* KeyUpdate in progress if there was one.                                     *)
QuietKeys(g) ==
    /\ UNCHANGED <<inEpoch, peerEpoch, outErr>>
    /\ Answering(g)' => Answering(g)
    /\ Updating(g) => Updating(g)'
    /\ SendsApp(g)' => SendsApp(g) \/ outErr = "nil"

(* The keys change in the hands of the holder of c.in: they agree afterwards,  *)
(* or the peer is one ahead and an answer is due.                              *)
ChangesKeys(g) ==
    /\ HoldsIn(g) /\ ~SendsApp(g)'
    /\ \/ inEpoch' = peerEpoch' /\ ~Answering(g)'
       \/ peerEpoch' = inEpoch' + 1 /\ Updating(g)'

(* A write of g ends, with or without an error of c.out. *)
EndsWrite(g) ==
    /\ UNCHANGED <<inEpoch, peerEpoch>> /\ ~Answering(g)' /\ ~SendsApp(g)'
    /\ \/ outErr' # "nil" /\ Locked(g)
       \/ outErr' # "nil" /\ HoldsIn(g) /\ ~Updating(g)
       \/ SendsApp(g)

KeyMove(g) == QuietKeys(g) \/ ChangesKeys(g) \/ EndsWrite(g)

(* UpdatingKeys is that some goroutine is. *)
LEMMA UpdatingFacts ==
  /\ UpdatingKeys <=> \E g \in Goroutines : Updating(g)
  /\ UpdatingKeys' <=> \E g \in Goroutines : Updating(g)'
  BY DEF UpdatingKeys, Updating

(* The moves keep the read key in step. *)
LEMMA KeyMoveKeeps ==
  ASSUME TypesOK, HoldInv, ReadKeyInv, NEW g \in Goroutines, OthersKeep(g), KeyMove(g)
  PROVE  ReadKeyInv'
<1>0. inEpoch \in Nat /\ peerEpoch \in Nat
  BY DEF TypesOK
<1>1. \A h \in Goroutines \ {g} : /\ Answering(h)' <=> Answering(h)
                                  /\ Updating(h)' <=> Updating(h)
                                  /\ SendsApp(h)' <=> SendsApp(h)
  BY DEF OthersKeep, Answering, Updating, SendsApp, At
<1>2. \A h \in Goroutines : Answering(h) \/ Updating(h) => HoldsIn(h) /\ mutex["in"] = h
  BY DEF HoldInv, HoldInvOf, HoldsIn, Answering, Updating, At
<1>3. CASE QuietKeys(g)
  <2>1. inEpoch' = inEpoch /\ peerEpoch' = peerEpoch /\ outErr' = outErr
    BY <1>3 DEF QuietKeys
  <2>2. \A h \in Goroutines : Answering(h)' => peerEpoch' = inEpoch' + 1
    BY <1>1, <1>3, <2>1 DEF QuietKeys, ReadKeyInv
  <2>3. UpdatingKeys => UpdatingKeys'
    BY <1>1, <1>3, UpdatingFacts DEF QuietKeys
  <2>4. outErr # "nil" => \A h \in Goroutines : SendsApp(h)' => SendsApp(h)
    BY <1>1, <1>3 DEF QuietKeys
  <2> QED
    BY <2>1, <2>2, <2>3, <2>4 DEF ReadKeyInv
<1>4. CASE ChangesKeys(g)
  <2>1. \A h \in Goroutines \ {g} : ~Answering(h)'
    BY <1>1, <1>2, <1>4 DEF ChangesKeys, HoldInv, HoldInvOf
  <2>2. Answering(g)' => peerEpoch' = inEpoch' + 1
    BY <1>4 DEF ChangesKeys
  <2>3. inEpoch' # peerEpoch' => UpdatingKeys'
    BY <1>4, UpdatingFacts DEF ChangesKeys
  <2> QED
    BY <2>1, <2>2, <2>3 DEF ReadKeyInv
<1>5. CASE EndsWrite(g)
  <2>1. \A h \in Goroutines : Answering(h)' => peerEpoch' = inEpoch' + 1
    BY <1>1, <1>5 DEF EndsWrite, ReadKeyInv
  <2> SUFFICES ASSUME inEpoch # peerEpoch
               PROVE  UpdatingKeys' \/ (outErr' # "nil" /\ \A h \in Goroutines : ~SendsApp(h)')
    BY <1>5, <2>1 DEF EndsWrite, ReadKeyInv
  <2>2. CASE outErr' # "nil" /\ Locked(g)
    <3>1. \A h \in Goroutines \ {g} : ~SendsApp(h)
      BY <2>2, OnlyOneAtTransport DEF HoldInv, HoldInvOf
    <3> QED
      BY <1>1, <1>5, <2>2, <3>1 DEF EndsWrite
  <2>3. CASE outErr' # "nil" /\ HoldsIn(g) /\ ~Updating(g)
    <3>1. \A h \in Goroutines : ~Updating(h)
      BY <1>2, <2>3 DEF HoldInv, HoldInvOf
    <3>2. \A h \in Goroutines : ~SendsApp(h)
      BY <3>1, UpdatingFacts DEF ReadKeyInv
    <3> QED
      BY <1>1, <1>5, <2>3, <3>2 DEF EndsWrite
  <2>4. CASE SendsApp(g)
    <3>1. PICK h \in Goroutines : Updating(h)
      BY <2>4, UpdatingFacts DEF ReadKeyInv
    <3>2. h # g
      BY <2>4, <3>1 DEF Updating, SendsApp, At
    <3> QED
      BY <1>1, <3>1, <3>2, UpdatingFacts
  <2> QED
    BY <1>5, <2>2, <2>3, <2>4 DEF EndsWrite
<1> QED
  BY <1>3, <1>4, <1>5 DEF KeyMove

(* A goroutine that is neither at the transport nor handling a KeyUpdate, and  *)
(* does not begin to, is quiet.                                                *)
LEMMA QuietKeysElsewhere ==
  ASSUME NEW g \in Goroutines, UNCHANGED <<inEpoch, peerEpoch, outErr>>,
         th[g].pc \notin {"kuLock", "alertLock", "xmit"}, th'[g].pc \notin {"kuLock", "xmit"}
  PROVE  KeyMove(g)
  BY DEF KeyMove, QuietKeys, Answering, Updating, SendsApp, At

(* Beginning a record is quiet, application data if c.out has no error. *)
LEMMA QuietKeysBegins ==
  ASSUME TypesOK, NEW g \in Goroutines, NEW k \in Kinds, UNCHANGED <<inEpoch, peerEpoch>>,
         StartRecord(g, k), th[g].pc # "xmit",
         th[g].pc \in {"kuLock", "alertLock"} => k = th[g].rec,
         k \in {"keyUpdate", "keyUpdateTail"} => th[g].pc = "kuLock",
         k = "app" => outErr = "nil"
  PROVE  KeyMove(g)
<1>1. th'[g].pc = "xmit" /\ th'[g].rec = k /\ outErr' = outErr
  BY StartFacts DEF StartRecord
<1> QED
  BY <1>1 DEF KeyMove, QuietKeys, Answering, Updating, SendsApp, At

(* What a goroutine does by itself. *)
LEMMA KeyMoveStep ==
  ASSUME ConnInv, HoldInv, ReadKeyInv, NEW g \in Goroutines, Step(g) PROVE KeyMove(g)
<1>0. /\ ThType /\ LockType /\ TypesOK /\ HandshakeInvOf(g) /\ HoldInvOf(g)
      /\ th[g].rec \in Kinds \cup {"none"}
  BY HelperTypes DEF ConnInv, HandshakeInv, HoldInv, TypesOK, ThType, Threads
<1>a. ASSUME Return(g), UNCHANGED <<inEpoch, peerEpoch, outErr>>, th[g].pc \notin {"kuLock", "alertLock", "xmit"}
      PROVE  KeyMove(g)
  BY <1>0, <1>a, ReturnKeeps, QuietKeysElsewhere
<1>1. CASE WriteEnter(g)
  <2>1. th'[g].pc \in {"idle", "hsFast"}
    BY <1>0, <1>1, EndsFacts, GotoFacts DEF WriteEnter, Labels
  <2> QED
    BY <1>1, <2>1, QuietKeysElsewhere DEF WriteEnter, inh, outh, At
<1>2. CASE HsFast(g) \/ HsLock(g)
  <2>1. UNCHANGED <<inEpoch, peerEpoch, outErr>> /\ th[g].pc \in {"hsFast", "hsLock"}
    BY <1>2 DEF HsFast, HsLock, inh, outh, At
  <2>2. CASE Return(g)
    BY <1>a, <2>1, <2>2
  <2>3. CASE ~Return(g)
    <3>1. th'[g].pc \in {"hsLock", "inLock", "outLock", "hsInLock"}
      BY <1>0, <1>2, <2>3, GotoFacts, CtxFacts DEF HsFast, HsLock, AfterHandshake, Labels
    <3> QED
      BY <2>1, <3>1, QuietKeysElsewhere
  <2> QED
    BY <2>2, <2>3
<1>3. CASE HsInLock(g) \/ InLock(g)
  <2>1. th'[g].pc \in {"hsSend", "readRecord"}
    BY <1>0, <1>3, GotoFacts DEF HsInLock, InLock, Labels
  <2> QED
    BY <1>3, <2>1, QuietKeysElsewhere DEF HsInLock, InLock, inh, outh, At
<1>4. CASE HsSend(g) \/ HsFinish(g)
  BY <1>0, <1>4, QuietKeysBegins DEF HsSend, HsFinish, inh, At, Kinds
<1>5. CASE KuLock(g) \/ AlertLock(g)
  <2>1. /\ th[g].rec \in Kinds /\ th[g].rec # "app"
        /\ th[g].rec \in {"keyUpdate", "keyUpdateTail"} => th[g].pc = "kuLock"
        /\ th[g].pc # "xmit"
    BY <1>0, <1>5 DEF KuLock, AlertLock, At, HandshakeInvOf, Kinds
  <2>2. UNCHANGED <<inEpoch, peerEpoch>> /\ StartRecord(g, th[g].rec)
    BY <1>5 DEF KuLock, AlertLock, inh
  <2> QED
    BY <1>0, <2>1, <2>2, QuietKeysBegins
<1>6. CASE HsRecvErr(g) \/ ReadErr(g)
  <2>1. Return(g) /\ UNCHANGED <<inEpoch, peerEpoch, outErr>> /\ th[g].pc \in {"hsRecv", "readRecord"}
    BY <1>6 DEF HsRecvErr, ReadErr, HandshakeFails, outh, At
  <2> QED
    BY <1>a, <2>1
<1>7. CASE HsDone(g)
  <2>1. UNCHANGED <<inEpoch, peerEpoch, outErr>> /\ th[g].pc = "hsDone"
    BY <1>7 DEF HsDone, inh, outh, At
  <2>2. CASE th[g].op = "Handshake"
    BY <1>a, <1>7, <2>1, <2>2 DEF HsDone
  <2>3. CASE th[g].op # "Handshake"
    <3>1. (\E l \in {"inLock", "outLock"} : Goto(g, l)) \/ GotoAs(g, "readRecord", "Read")
      BY SMTT(30), <1>7, <2>3 DEF HsDone
    <3>2. th'[g].pc \in {"inLock", "outLock", "readRecord"}
      BY <1>0, <3>1, GotoFacts, GotoAsFacts DEF Labels, Ops
    <3> QED
      BY <2>1, <3>2, QuietKeysElsewhere
  <2> QED
    BY <2>2, <2>3
<1>8. CASE RenegLock(g)
  <2>1. th'[g].pc = "hsSend"
    BY <1>0, <1>8, GotoAsFacts DEF RenegLock, Labels
  <2> QED
    BY <1>8, <2>1, QuietKeysElsewhere DEF RenegLock, inh, outh, At
<1>9. CASE OutLock(g)
  <2>1. UNCHANGED <<inEpoch, peerEpoch>> /\ th[g].pc = "outLock"
    BY <1>9 DEF OutLock, inh, At
  <2>2. (Return(g) /\ UNCHANGED outErr) \/ (StartRecord(g, "app") /\ outErr = "nil")
    BY <1>9 DEF OutLock, outh
  <2> QED
    BY <1>0, <1>a, <2>1, <2>2, QuietKeysBegins DEF Kinds
<1>10. CASE Close(g) \/ CloseCheck(g) \/ CloseWrite(g)
  <2>1. UNCHANGED <<inEpoch, peerEpoch, outErr>> /\ th[g].pc \in {"close", "closeCheck", "closeWrite"}
    BY <1>10 DEF Close, CloseCheck, CloseWrite, inh, outh, At
  <2>2. CASE Return(g)
    BY <1>a, <2>1, <2>2
  <2>3. CASE ~Return(g)
    <3>1. th'[g].pc \in {"idle", "closeCheck", "notifyLock"}
      BY <1>0, <1>10, <2>3, GotoFacts, EndsFacts DEF Close, CloseCheck, CloseWrite, Labels
    <3> QED
      BY <2>1, <3>1, QuietKeysElsewhere
  <2> QED
    BY <2>2, <2>3
<1>11. CASE NotifyLock(g)
  <2>1. UNCHANGED <<inEpoch, peerEpoch>> /\ th[g].pc = "notifyLock"
    BY <1>11 DEF NotifyLock, inh, At
  <2>2. (Return(g) /\ UNCHANGED outErr) \/ StartRecord(g, "closeNotify")
    BY <1>11 DEF NotifyLock, outh
  <2> QED
    BY <1>0, <1>a, <2>1, <2>2, QuietKeysBegins DEF Kinds
<1>b. ASSUME th[g].pc = "xmit", Return(g), UNCHANGED <<inEpoch, peerEpoch>>
      PROVE  /\ ~Answering(g)' /\ ~SendsApp(g)'
             /\ UNCHANGED outErr /\ ~Updating(g) => KeyMove(g)
             /\ outErr' # "nil" /\ th[g].rec # "closeNotify" => KeyMove(g)
             /\ th[g].rec = "app" => KeyMove(g)
  <2>1. ~Answering(g)' /\ ~SendsApp(g)'
    BY <1>0, <1>b, ReturnKeeps DEF Answering, SendsApp, At
  <2> QED
    BY <1>b, <2>1 DEF KeyMove, QuietKeys, EndsWrite, Locked, HoldsIn, Updating, SendsApp, At
<1>12. ASSUME NEW ok \in BOOLEAN, XmitApp(g, ok) \/ XmitAlert(g, ok) PROVE KeyMove(g)
  <2>1. th[g].pc = "xmit" /\ Return(g) /\ UNCHANGED <<inEpoch, peerEpoch>>
    BY <1>12 DEF XmitApp, XmitAlert, Transmit, HandshakeFails, inh, At
  <2>2. th[g].rec = "app" \/ (outErr' # "nil" /\ th[g].rec # "closeNotify")
    BY <1>12 DEF XmitApp, XmitAlert
  <2> QED
    BY <1>b, <2>1, <2>2
<1>13. ASSUME NEW ok \in BOOLEAN, XmitCloseNotify(g, ok) PROVE KeyMove(g)
  <2>1. th[g].pc = "xmit" /\ Return(g) /\ UNCHANGED <<inEpoch, peerEpoch, outErr>> /\ th[g].rec = "closeNotify"
    BY <1>13 DEF XmitCloseNotify, Transmit, inh, At
  <2> QED
    BY <1>b, <2>1 DEF Updating
<1>14. ASSUME NEW ok \in BOOLEAN, XmitKeyUpdate(g, ok) PROVE KeyMove(g)
  <2>1. th[g].pc = "xmit" /\ th[g].rec \in {"keyUpdate", "keyUpdateTail"} /\ peerEpoch' = peerEpoch
    BY SMTT(30), <1>14 DEF XmitKeyUpdate, Transmit, At
  <2>2. Answering(g) /\ HoldsIn(g) /\ Locked(g) /\ peerEpoch = inEpoch + 1
    BY <2>1 DEF Answering, HoldsIn, Locked, At, ReadKeyInv
  <2>3. \/ inEpoch' = inEpoch + 1 /\ GotoWith(g, "readRecord", "none")
        \/ Sends(g, "softAlert", 0) /\ UNCHANGED <<outErr, inEpoch>>
        \/ outErr' # "nil" /\ GotoWith(g, "readRecord", "none") /\ inEpoch' = inEpoch
    BY SMTT(30), <1>14 DEF XmitKeyUpdate
  <2>4. /\ GotoWith(g, "readRecord", "none") => th'[g].pc = "readRecord"
        /\ Sends(g, "softAlert", 0) => th'[g].pc = "xmit" /\ th'[g].rec = "softAlert"
    BY <1>0, GotoWithFacts, SendsFacts DEF Labels, Kinds
  <2>5. CASE inEpoch' = inEpoch + 1 /\ GotoWith(g, "readRecord", "none")
    BY <2>1, <2>2, <2>4, <2>5 DEF KeyMove, ChangesKeys, Answering, SendsApp, At
  <2>6. CASE Sends(g, "softAlert", 0) /\ UNCHANGED <<outErr, inEpoch>>
    BY <2>1, <2>4, <2>6 DEF KeyMove, QuietKeys, Answering, Updating, SendsApp, At
  <2>7. CASE outErr' # "nil" /\ GotoWith(g, "readRecord", "none") /\ inEpoch' = inEpoch
    BY <2>1, <2>2, <2>4, <2>7 DEF KeyMove, EndsWrite, Answering, SendsApp, At
  <2> QED
    BY <2>3, <2>5, <2>6, <2>7
<1>15. ASSUME NEW ok \in BOOLEAN, XmitHandshake(g, ok) \/ XmitFinished(g, ok) PROVE KeyMove(g)
  <2>1. th[g].pc = "xmit" /\ th[g].rec \in {"handshake", "finished"} /\ outErr' = outErr
    BY SMTT(30), <1>15 DEF XmitHandshake, XmitFinished, Transmit, At
  <2>2. \/ (Return(g) \/ GotoWith(g, "hsRecv", "none")) /\ UNCHANGED <<inEpoch, peerEpoch>>
        \/ GotoWith(g, "hsDone", "none") /\ inEpoch' = peerEpoch'
    BY SMTT(30), <1>15 DEF XmitHandshake, XmitFinished, HandshakeFails, inh
  <2>3. th'[g].pc \in {"idle", "hsRecv", "hsDone"}
    BY <1>0, <2>2, GotoWithFacts, ReturnKeeps DEF Labels
  <2>4. HoldsIn(g) /\ ~Updating(g) /\ ~Answering(g)' /\ ~SendsApp(g)'
    BY <2>1, <2>3 DEF HoldsIn, Updating, Answering, SendsApp, At
  <2> QED
    BY <2>1, <2>2, <2>4 DEF KeyMove, QuietKeys, ChangesKeys
<1> QED
  BY <1>1, <1>2, <1>3, <1>4, <1>5, <1>6, <1>7, <1>8, <1>9, <1>10, <1>11, <1>12, <1>13, <1>14, <1>15 DEF Step

(* What its peer and its caller make it do. *)
LEMMA KeyMoveOther ==
  ASSUME ConnInv, HoldInv, NEW g \in Goroutines,
         PeerStep(g) \/ Cancel(g) \/ (\E o \in Ops : Call(g, o)) \/ (\E d \in {"none", "past"} : SetWriteDeadline(g, d))
  PROVE  KeyMove(g)
<1>0. ThType /\ LockType /\ TypesOK /\ inEpoch \in Nat
  BY HelperTypes, SMTT(30) DEF ConnInv, TypesOK
<1>a. ASSUME UNCHANGED <<inEpoch, peerEpoch, outErr>>, th[g].pc \in {"hsRecv", "readRecord"},
             \/ Return(g) \/ UNCHANGED th
             \/ \E l \in {"hsFinish", "renegLock"} : Goto(g, l)
             \/ \E k \in Kinds : GotoWith(g, "alertLock", k)
      PROVE  KeyMove(g)
  <2>1. th'[g].pc \in {"idle", "hsFinish", "renegLock", "alertLock", "hsRecv", "readRecord"}
    BY <1>0, <1>a, ReturnKeeps, GotoFacts, GotoWithFacts DEF Labels, Kinds
  <2> QED
    BY SMTT(30), <1>a, <2>1, QuietKeysElsewhere
<1>1. CASE HsRecv(g) \/ ReadTimeout(g) \/ RecvAppData(g) \/ RecvAlert(g)
  <2>1. UNCHANGED <<inEpoch, peerEpoch, outErr>> /\ th[g].pc \in {"hsRecv", "readRecord"}
    BY <1>1 DEF HsRecv, ReadTimeout, RecvAppData, RecvAlert, ReceivesGood, Receives, inh, outh, At
  <2>2. Return(g) \/ Goto(g, "hsFinish") \/ GotoWith(g, "alertLock", "alert")
    BY <1>1 DEF HsRecv, ReadTimeout, RecvAppData, RecvAlert, HandshakeFails, ThenAlert
  <2> QED
    BY <1>a, <2>1, <2>2 DEF Kinds
<1>2. CASE RecvBad(g) \/ RecvUseless(g) \/ RecvHelloRequest(g)
  <2>1. UNCHANGED <<inEpoch, peerEpoch, outErr>> /\ th[g].pc = "readRecord"
    BY <1>2 DEF RecvBad, RecvUseless, RecvHelloRequest, ReceivesGood, Receives, outh, At
  <2>2. \/ UNCHANGED th \/ Goto(g, "renegLock")
        \/ \E k \in Kinds : GotoWith(g, "alertLock", k)
    BY <1>2 DEF RecvBad, RecvUseless, RecvHelloRequest, ThenAlert, Kinds
  <2> QED
    BY <1>a, <2>1, <2>2
<1>3. CASE RecvOversize(g)
  <2>1. UNCHANGED <<inEpoch, peerEpoch>> /\ th[g].pc = "readRecord" /\ StartRecord(g, "oversize")
    BY <1>3 DEF RecvOversize, ReceivesGood, Receives, At
  <2> QED
    BY <1>0, <2>1, QuietKeysBegins DEF Kinds
<1>4. ASSUME NEW requested \in BOOLEAN, NEW tail \in BOOLEAN, RecvKeyUpdate(g, requested, tail) PROVE KeyMove(g)
  <2>1. th[g].pc = "readRecord" /\ inEpoch = peerEpoch /\ peerEpoch' = peerEpoch + 1
    BY <1>4 DEF RecvKeyUpdate, ReceivesGood, Receives, At
  <2>2. \/ inEpoch' = inEpoch + 1 /\ UNCHANGED th
        \/ /\ inEpoch' = inEpoch
           /\ \E l \in {"alertLock", "kuLock"}, k \in {"keyUpdate", "keyUpdateTail", "softAlert"} : GotoWith(g, l, k)
    BY <1>4 DEF RecvKeyUpdate, ThenAlert
  <2>3. CASE inEpoch' = inEpoch + 1 /\ UNCHANGED th
    BY <2>1, <2>3 DEF KeyMove, ChangesKeys, HoldsIn, Answering, SendsApp, At
  <2>4. ASSUME inEpoch' = inEpoch, NEW l \in {"alertLock", "kuLock"},
               NEW k \in {"keyUpdate", "keyUpdateTail", "softAlert"}, GotoWith(g, l, k)
        PROVE  KeyMove(g)
    <3>1. th'[g].pc = l /\ th'[g].rec = k
      BY <1>0, <2>4, GotoWithFacts DEF Labels, Kinds
    <3> QED
      BY SMTT(30), <2>1, <2>4, <3>1 DEF KeyMove, ChangesKeys, HoldsIn, Updating, SendsApp, At
  <2> QED
    BY <2>2, <2>3, <2>4
<1>b. ASSUME UNCHANGED <<inEpoch, peerEpoch, outErr>>, th'[g].pc = th[g].pc, th'[g].rec = th[g].rec
      PROVE  KeyMove(g)
  BY <1>b DEF KeyMove, QuietKeys, Answering, Updating, SendsApp, At
<1>5. CASE Cancel(g)
  BY <1>0, <1>b, <1>5, CtxFacts DEF Cancel, inh, outh
<1>6. ASSUME NEW o \in Ops, Call(g, o) PROVE KeyMove(g)
  <2>1. Entry(o) \in {"enter", "close", "closeWrite", "hsFast"}
    BY DEF Entry
  <2>2. th'[g].pc = Entry(o)
    BY <1>0, <1>6, <2>1, GotoAsFacts DEF Call, Labels
  <2> QED
    BY <1>6, <2>1, <2>2, QuietKeysElsewhere DEF Call, inh, outh, At
<1>7. ASSUME NEW d \in {"none", "past"}, SetWriteDeadline(g, d) PROVE KeyMove(g)
  BY <1>b, <1>7 DEF SetWriteDeadline, inh, outh
<1> QED
  BY <1>1, <1>2, <1>3, <1>4, <1>5, <1>6, <1>7, SMTT(30) DEF PeerStep

(* Every step keeps the read key in step. *)
LEMMA ReadKeyNext == ConnInv /\ HoldInv /\ ReadKeyInv /\ [Next]_vars => ReadKeyInv'
<1> SUFFICES ASSUME ConnInv, HoldInv, ReadKeyInv, [Next]_vars PROVE ReadKeyInv'
  OBVIOUS
<1>1. ASSUME NEW g \in Goroutines, Moves(g) PROVE ReadKeyInv'
  <2>1. OthersKeep(g) /\ TypesOK
    BY <1>1, HoldStep, HoldOther DEF Moves, Holds, ConnInv
  <2>2. KeyMove(g)
    BY <1>1, KeyMoveStep, KeyMoveOther DEF Moves
  <2> QED
    BY <2>1, <2>2, KeyMoveKeeps
<1>2. CASE \A g \in Goroutines : ~Moves(g)
  <2>1. UNCHANGED <<th, inEpoch, peerEpoch, outErr>>
    BY <1>2, NetSteps DEF inh, outh
  <2> QED
    BY <2>1 DEF ReadKeyInv, Answering, SendsApp, UpdatingKeys, At
<1> QED
  BY <1>1, <1>2

-----------------------------------------------------------------------------
(* The theorems. *)

ConnWireInv == ConnInv /\ HoldInv /\ WireInv /\ ReadKeyInv

(* The inductive invariant: ConnInv, the holders of c.in and c.out, what the   *)
(* wire shows, and how far the read key may be behind.                         *)
THEOREM WireInvariant == Spec => []ConnWireInv
<1>1. Init => ConnWireInv
  <2> SUFFICES ASSUME Init PROVE ConnWireInv
    OBVIOUS
  <2>1. ConnInv
    BY TypesInit, HandshakeInit, ActiveCallInit DEF ConnInv
  <2>2. /\ \A g \in Goroutines : th[g].pc = "idle"
        /\ DOMAIN wire = {} /\ inEpoch = peerEpoch
    BY DEF Init, Idle
  <2> QED
    BY <2>1, <2>2 DEF ConnWireInv, HoldInv, HoldInvOf, HoldsIn, Locked, At, WireInv, SequenceInv, AppDataInv,
       SendsApp, ReadKeyInv, Answering, LockedRecordsInSequence, NoAppDataAfterCloseNotify, NoAppDataMidHandshake
<1>2. ConnWireInv /\ [Next]_vars => ConnWireInv'
  <2>1. ConnInv /\ [Next]_vars => ConnInv'
    BY TypesNext, HandshakeNext, ActiveCallNext DEF ConnInv
  <2> QED
    BY <2>1, HoldNext, WireNext, ReadKeyNext DEF ConnWireInv
<1> QED
  BY <1>1, <1>2, PTL DEF Spec

(* Under one key, the records that Conn writes with c.out held leave in the    *)
(* order of their sequence numbers, whatever goroutines write them, and also   *)
(* next to the alert that readHandshake writes without the lock.               *)
THEOREM RecordsStayInSequence == Spec => []LockedRecordsInSequence
<1>1. ConnWireInv => LockedRecordsInSequence
  BY DEF ConnWireInv, WireInv
<1> QED
  BY <1>1, WireInvariant, PTL

(* No application data follows close_notify: a Write looks at closeNotifySent  *)
(* under c.out, which Close and CloseWrite hold until it is set.               *)
THEOREM CloseNotifyEndsData == Spec => []NoAppDataAfterCloseNotify
<1>1. ConnWireInv => NoAppDataAfterCloseNotify
  BY DEF ConnWireInv, WireInv
<1> QED
  BY <1>1, WireInvariant, PTL

(* No application data is sent between the first flight of a handshake or      *)
(* renegotiation and its change of keys, although Write looks at               *)
(* isHandshakeComplete without handshakeMutex.                                 *)
THEOREM HandshakeHoldsDataBack == Spec => []NoAppDataMidHandshake
<1>1. ConnWireInv => NoAppDataMidHandshake
  BY DEF ConnWireInv, WireInv
<1> QED
  BY <1>1, WireInvariant, PTL

(* The read key follows every KeyUpdate of the peer, unless its handling is    *)
(* not over or has left an error in c.out that no Write clears.                *)
THEOREM ReadKeysStayInSync == Spec => []ReadKeysInSync
<1>1. ConnWireInv => ReadKeysInSync
  BY DEF ConnWireInv, ReadKeyInv, ReadKeysInSync
<1> QED
  BY <1>1, WireInvariant, PTL
=============================================================================
