----------------------------- MODULE ConnProofs -----------------------------
(* Proofs about Conn, for every number of goroutines, calls and records. *)
EXTENDS Conn, FiniteSetTheorems, SequenceTheorems, TLAPS

(***************************************************************************)
(* What the control helpers do to th, so that later steps need not unfold  *)
(* records.                                                                *)
(***************************************************************************)
ThType == th \in [Goroutines -> Threads]

(* Goto changes the place of one goroutine only. *)
LEMMA GotoFacts ==
  ASSUME ThType, NEW g \in Goroutines, NEW l \in Labels, Goto(g, l)
  PROVE  /\ ThType' /\ \A h \in Goroutines \ {g} : th'[h] = th[h]
         /\ th'[g].pc = l /\ th'[g].op = th[g].op /\ th'[g].rec = th[g].rec /\ th'[g].nonce = th[g].nonce
<1> DEFINE t == [th[g] EXCEPT !.pc = l]
<1>1. t \in Threads /\ t.pc = l /\ t.op = th[g].op /\ t.rec = th[g].rec /\ t.nonce = th[g].nonce
  BY DEF ThType, Threads
<1>2. th' = [th EXCEPT ![g] = t]
  BY DEF ThType, Goto, Threads
<1> HIDE DEF t
<1> QED
  BY <1>1, <1>2 DEF ThType

(* GotoAs changes the place and the API call of one goroutine only. *)
LEMMA GotoAsFacts ==
  ASSUME ThType, NEW g \in Goroutines, NEW l \in Labels, NEW o \in Ops \cup {"Reneg"}, GotoAs(g, l, o)
  PROVE  /\ ThType' /\ \A h \in Goroutines \ {g} : th'[h] = th[h]
         /\ th'[g].pc = l /\ th'[g].op = o /\ th'[g].rec = th[g].rec /\ th'[g].nonce = th[g].nonce
<1> DEFINE t == [th[g] EXCEPT !.pc = l, !.op = o]
<1>1. t \in Threads /\ t.pc = l /\ t.op = o /\ t.rec = th[g].rec /\ t.nonce = th[g].nonce
  BY DEF ThType, Threads
<1>2. th' = [th EXCEPT ![g] = t]
  BY DEF ThType, GotoAs, Threads
<1> HIDE DEF t
<1> QED
  BY <1>1, <1>2 DEF ThType

(* GotoWith changes the place and the record kind of one goroutine only. *)
LEMMA GotoWithFacts ==
  ASSUME ThType, NEW g \in Goroutines, NEW l \in Labels, NEW k \in Kinds \cup {"none"}, GotoWith(g, l, k)
  PROVE  /\ ThType' /\ \A h \in Goroutines \ {g} : th'[h] = th[h]
         /\ th'[g].pc = l /\ th'[g].op = th[g].op /\ th'[g].rec = k /\ th'[g].nonce = th[g].nonce
<1> DEFINE t == [th[g] EXCEPT !.pc = l, !.rec = k]
<1>1. t \in Threads /\ t.pc = l /\ t.op = th[g].op /\ t.rec = k /\ t.nonce = th[g].nonce
  BY DEF ThType, Threads
<1>2. th' = [th EXCEPT ![g] = t]
  BY DEF ThType, GotoWith, Threads
<1> HIDE DEF t
<1> QED
  BY <1>1, <1>2 DEF ThType

(* Sends puts one goroutine at the transport with a record. *)
LEMMA SendsFacts ==
  ASSUME ThType, NEW g \in Goroutines, NEW k \in Kinds \cup {"none"}, NEW n \in Nat, Sends(g, k, n)
  PROVE  /\ ThType' /\ \A h \in Goroutines \ {g} : th'[h] = th[h]
         /\ th'[g].pc = "xmit" /\ th'[g].op = th[g].op /\ th'[g].rec = k /\ th'[g].nonce = n
<1> DEFINE t == [th[g] EXCEPT !.pc = "xmit", !.rec = k, !.nonce = n]
<1>1. "xmit" \in Labels
  BY DEF Labels
<1>2. t \in Threads /\ t.pc = "xmit" /\ t.op = th[g].op /\ t.rec = k /\ t.nonce = n
  BY <1>1 DEF ThType, Threads
<1>3. th' = [th EXCEPT ![g] = t]
  BY DEF ThType, Sends, Threads
<1> HIDE DEF t
<1> QED
  BY <1>2, <1>3 DEF ThType

(* Ends makes one goroutine idle. *)
LEMMA EndsFacts ==
  ASSUME ThType, NEW g \in Goroutines, Ends(g)
  PROVE  /\ ThType' /\ \A h \in Goroutines \ {g} : th'[h] = th[h]
         /\ th'[g].pc = "idle" /\ th'[g].op = "none" /\ th'[g].rec = "none" /\ th'[g].nonce = 0
<1>1. Idle \in Threads
  BY DEF Idle, Threads, Labels, Ops, Kinds
<1> QED
  BY <1>1 DEF ThType, Ends, Idle

(* The context of a HandshakeContext call is set on the way to handshakeMutex, *)
(* or fires: nothing else of a goroutine changes.                              *)
LEMMA CtxFacts ==
  ASSUME ThType, NEW g \in Goroutines
  PROVE  /\ HsFast(g) /\ ~complete =>
              /\ ThType' /\ \A h \in Goroutines \ {g} : th'[h] = th[h]
              /\ th'[g].pc = "hsLock" /\ th'[g].op = th[g].op /\ th'[g].rec = th[g].rec
              /\ th'[g].nonce = th[g].nonce
         /\ Cancel(g) =>
              /\ ThType' /\ \A h \in Goroutines \ {g} : th'[h] = th[h]
              /\ th'[g].pc = th[g].pc /\ th'[g].op = th[g].op /\ th'[g].rec = th[g].rec
              /\ th'[g].nonce = th[g].nonce
<1>1. ASSUME NEW c \in {"none", "armed"}, th' = [th EXCEPT ![g].pc = "hsLock", ![g].ctx = c]
      PROVE  /\ ThType' /\ \A h \in Goroutines \ {g} : th'[h] = th[h]
             /\ th'[g].pc = "hsLock" /\ th'[g].op = th[g].op /\ th'[g].rec = th[g].rec
             /\ th'[g].nonce = th[g].nonce
  <2> DEFINE t == [th[g] EXCEPT !.pc = "hsLock", !.ctx = c]
  <2>1. "hsLock" \in Labels
    BY DEF Labels
  <2>2. /\ t \in Threads /\ t.pc = "hsLock" /\ t.op = th[g].op /\ t.rec = th[g].rec
        /\ t.nonce = th[g].nonce
    BY <2>1 DEF ThType, Threads
  <2>3. th' = [th EXCEPT ![g] = t]
    BY <1>1 DEF ThType, Threads
  <2> HIDE DEF t
  <2> QED
    BY <2>2, <2>3 DEF ThType
<1>2. ASSUME th' = [th EXCEPT ![g].ctx = "fired"]
      PROVE  /\ ThType' /\ \A h \in Goroutines \ {g} : th'[h] = th[h]
             /\ th'[g].pc = th[g].pc /\ th'[g].op = th[g].op /\ th'[g].rec = th[g].rec
             /\ th'[g].nonce = th[g].nonce
  <2> DEFINE t == [th[g] EXCEPT !.ctx = "fired"]
  <2>1. /\ t \in Threads /\ t.pc = th[g].pc /\ t.op = th[g].op /\ t.rec = th[g].rec
        /\ t.nonce = th[g].nonce
    BY DEF ThType, Threads
  <2>2. th' = [th EXCEPT ![g] = t]
    BY <1>2 DEF ThType, Threads
  <2> HIDE DEF t
  <2> QED
    BY <2>1, <2>2 DEF ThType
<1>3. ASSUME HsFast(g), ~complete
      PROVE \E c \in {"none", "armed"} : th' = [th EXCEPT ![g].pc = "hsLock", ![g].ctx = c]
  BY <1>3 DEF HsFast
<1> QED
  BY <1>1, <1>2, <1>3 DEF Cancel

-----------------------------------------------------------------------------
(* Types, in the groups of variables that Conn's UNCHANGED lists name. *)

LockType == mutex \in [{"hs", "in", "out"} -> Goroutines \cup {None}]
AppType  == cfg \in Cfgs /\ calls \in 0..MaxCalls
HsType   == complete \in BOOLEAN /\ handshakeErr \in BOOLEAN /\ handshakes \in Nat
InType   == /\ inErr \in Errors /\ retry \in Nat /\ inEpoch \in Nat /\ peerEpoch \in Nat
            /\ recvd \in 0..MaxRecords
WireType == wire \in Seq([kind : Kinds, epoch : Nat, seq : Nat])
OutType  == /\ outErr \in Errors /\ epoch \in Nat /\ seq \in Nat /\ closeNotifySent \in BOOLEAN
            /\ WireType
NetType  == /\ connClosed \in BOOLEAN /\ broken \in BOOLEAN /\ stalled \in BOOLEAN
            /\ deadline \in {"none", "set", "past"}

(* The type invariant is the conjunction of the groups. *)
LEMMA TypesSplit ==
  TypesOK <=> /\ ThType /\ LockType /\ activeCall \in Int
              /\ AppType /\ HsType /\ InType /\ OutType /\ NetType
  BY Zenon DEF TypesOK, ThType, LockType, AppType, HsType, InType, WireType, OutType, NetType

(* The same of the next state. *)
LEMMA TypesJoin ==
  TypesOK' <=> /\ ThType' /\ LockType' /\ activeCall' \in Int
               /\ AppType' /\ HsType' /\ InType' /\ OutType' /\ NetType'
  BY Zenon DEF TypesOK, ThType, LockType, AppType, HsType, InType, WireType, OutType, NetType

(* A group that does not change keeps its type. *)
LEMMA TypesFrame ==
  /\ AppType /\ UNCHANGED app => AppType'
  /\ HsType /\ UNCHANGED hs => HsType'
  /\ InType /\ UNCHANGED inh => InType'
  /\ OutType /\ UNCHANGED outh => OutType'
  /\ NetType /\ UNCHANGED net => NetType'
  BY DEF app, hs, inh, outh, net, AppType, HsType, InType, WireType, OutType, NetType

(* The initial state is well typed. *)
LEMMA TypesInit == Init => TypesOK
<1> SUFFICES ASSUME Init PROVE TypesOK
  OBVIOUS
<1>1. WireType
  BY DEF Init, WireType
<1>2. ThType
  BY DEF ThType, Init, Idle, Threads, Labels, Ops, Kinds
<1>3. LockType
  BY DEF Init, LockType
<1>4. HsType /\ NetType /\ closeNotifySent \in BOOLEAN
  BY Zenon DEF Init, HsType, NetType
<1>5. activeCall \in Int /\ AppType /\ InType /\ outErr \in Errors /\ epoch \in Nat /\ seq \in Nat
  BY ConnAssumption DEF Init, Errors, AppType, InType
<1> QED
  BY <1>1, <1>2, <1>3, <1>4, <1>5, TypesSplit DEF OutType

(* What the helpers do to the types. *)
LEMMA HelperTypes ==
  ASSUME TypesOK, NEW g \in Goroutines
  PROVE  /\ ThType /\ LockType /\ WireType
         /\ Return(g) => ThType' /\ LockType' /\ activeCall' \in Int
         /\ \A m \in {"hs", "in", "out"} : Lock(g, m) => LockType'
         /\ \A k \in Kinds \cup {"none"} : StartRecord(g, k) => ThType' /\ seq' \in Nat
<1>1. ThType /\ LockType /\ WireType /\ seq \in Nat /\ activeCall \in Int
  BY TypesSplit DEF OutType
<1>2. ASSUME Return(g) PROVE ThType' /\ LockType' /\ activeCall' \in Int
  BY <1>1, <1>2, EndsFacts DEF Return, LockType
<1>3. ASSUME NEW m \in {"hs", "in", "out"}, Lock(g, m) PROVE LockType'
  BY <1>1, <1>3 DEF Lock, LockType
<1>4. ASSUME NEW k \in Kinds \cup {"none"}, StartRecord(g, k) PROVE ThType' /\ seq' \in Nat
  BY <1>1, <1>4, SendsFacts DEF StartRecord
<1> QED
  BY <1>1, <1>2, <1>3, <1>4

(* A record begun, a handshake failed and a handshake found complete keep the  *)
(* types of what they change.                                                  *)
LEMMA HelperTypes2 ==
  ASSUME TypesOK, NEW g \in Goroutines
  PROVE  /\ \A k \in Kinds \cup {"none"} : StartRecord(g, k) => ThType' /\ OutType'
         /\ HandshakeFails(g) => ThType' /\ LockType' /\ activeCall' \in Int /\ HsType'
         /\ AfterHandshake(g) => ThType' /\ LockType' /\ activeCall' \in Int
<1>1. ThType /\ LockType /\ activeCall \in Int /\ OutType /\ HsType
  BY TypesSplit
<1>2. ASSUME NEW k \in Kinds \cup {"none"}, StartRecord(g, k) PROVE ThType' /\ OutType'
  <2>1. ThType' /\ seq' \in Nat
    BY <1>2, HelperTypes
  <2>2. outErr' = outErr /\ epoch' = epoch /\ closeNotifySent' = closeNotifySent /\ wire' = wire
    BY <1>2 DEF StartRecord
  <2> QED
    BY <1>1, <2>1, <2>2 DEF OutType, WireType
<1>3. ASSUME HandshakeFails(g) PROVE ThType' /\ LockType' /\ activeCall' \in Int /\ HsType'
  <2>1. Return(g)
    BY <1>3 DEF HandshakeFails
  <2>2. HsType'
    BY <1>1, <1>3, Zenon DEF HandshakeFails, HsType
  <2> QED
    BY <2>1, <2>2, HelperTypes
<1>4. ASSUME AfterHandshake(g) PROVE ThType' /\ LockType' /\ activeCall' \in Int
  <2>1. CASE th[g].op = "Handshake"
    BY <1>4, <2>1, HelperTypes DEF AfterHandshake
  <2>2. CASE th[g].op # "Handshake"
    <3>1. \E l \in Labels : Goto(g, l)
      BY <1>4, <2>2 DEF AfterHandshake, Labels
    <3>2. mutex' = mutex /\ activeCall' = activeCall
      BY <1>4, <2>2 DEF AfterHandshake
    <3> QED
      BY <1>1, <3>1, <3>2, GotoFacts DEF LockType
  <2> QED
    BY <2>1, <2>2
<1> QED
  BY <1>2, <1>3, <1>4

(* A step of a goroutine by itself keeps the types. *)
LEMMA TypesStep ==
  ASSUME TypesOK, NEW g \in Goroutines, Step(g) PROVE TypesOK'
<1>0. /\ ThType /\ LockType /\ activeCall \in Int
      /\ AppType /\ HsType /\ InType /\ OutType /\ NetType
      /\ th[g].rec \in Kinds \cup {"none"}
  BY TypesSplit DEF ThType, Threads
<1> USE ConnAssumption
<1>1. CASE WriteEnter(g)
  <2>1. ThType' /\ activeCall' \in Int
    BY <1>1, <1>0, EndsFacts, GotoFacts DEF WriteEnter, Labels
  <2> QED
    BY <1>1, <1>0, <2>1, TypesJoin, TypesFrame DEF WriteEnter, LockType
<1>2. CASE HsFast(g)
  <2>1. ThType' /\ LockType' /\ activeCall' \in Int
    BY <1>2, <1>0, HelperTypes2, CtxFacts DEF HsFast, LockType
  <2> QED
    BY <1>2, <1>0, <2>1, TypesJoin, TypesFrame DEF HsFast
<1>3. CASE HsLock(g)
  <2>1. ThType' /\ LockType' /\ activeCall' \in Int
    BY <1>3, <1>0, HelperTypes, HelperTypes2, GotoFacts DEF HsLock, Labels
  <2> QED
    BY <1>3, <1>0, <2>1, TypesJoin, TypesFrame DEF HsLock
<1>4. CASE HsInLock(g)
  <2>1. ThType' /\ LockType'
    BY <1>4, <1>0, HelperTypes, GotoFacts DEF HsInLock, Labels
  <2> QED
    BY <1>4, <1>0, <2>1, TypesJoin, TypesFrame DEF HsInLock
<1>5. CASE InLock(g)
  <2>1. ThType' /\ LockType'
    BY <1>5, <1>0, HelperTypes, GotoFacts DEF InLock, Labels
  <2> QED
    BY <1>5, <1>0, <2>1, TypesJoin, TypesFrame DEF InLock
<1>6. CASE HsSend(g)
  <2>1. ThType' /\ LockType' /\ OutType'
    BY <1>6, <1>0, HelperTypes, HelperTypes2 DEF HsSend, Kinds
  <2> QED
    BY <1>6, <1>0, <2>1, TypesJoin, TypesFrame DEF HsSend
<1>7. CASE HsFinish(g)
  <2>1. ThType' /\ LockType' /\ OutType'
    BY <1>7, <1>0, HelperTypes, HelperTypes2 DEF HsFinish, Kinds
  <2> QED
    BY <1>7, <1>0, <2>1, TypesJoin, TypesFrame DEF HsFinish
<1>8. CASE KuLock(g)
  <2>1. ThType' /\ LockType' /\ OutType'
    BY <1>8, <1>0, HelperTypes, HelperTypes2 DEF KuLock, Kinds
  <2> QED
    BY <1>8, <1>0, <2>1, TypesJoin, TypesFrame DEF KuLock
<1>9. CASE AlertLock(g)
  <2>1. ThType' /\ LockType' /\ OutType'
    BY <1>9, <1>0, HelperTypes, HelperTypes2 DEF AlertLock, Kinds
  <2> QED
    BY <1>9, <1>0, <2>1, TypesJoin, TypesFrame DEF AlertLock
<1>10. CASE HsRecvErr(g)
  <2>1. ThType' /\ LockType' /\ activeCall' \in Int /\ HsType'
    BY <1>10, HelperTypes2 DEF HsRecvErr
  <2>2. InType'
    BY <1>10, <1>0 DEF HsRecvErr, InType, Errors
  <2> QED
    BY <1>10, <1>0, <2>1, <2>2, TypesJoin, TypesFrame DEF HsRecvErr
<1>11. CASE ReadErr(g)
  <2>1. ThType' /\ LockType' /\ activeCall' \in Int
    BY <1>11, HelperTypes DEF ReadErr
  <2>2. InType'
    BY <1>11, <1>0 DEF ReadErr, InType, Errors
  <2> QED
    BY <1>11, <1>0, <2>1, <2>2, TypesJoin, TypesFrame DEF ReadErr
<1>12. CASE HsDone(g)
  <2>1. ThType' /\ LockType' /\ activeCall' \in Int
    <3>1. CASE th[g].op = "Handshake"
      BY <1>12, <3>1, HelperTypes DEF HsDone
    <3>2. CASE th[g].op \in {"Read", "Write"}
      <4>1. \E l \in Labels : Goto(g, l)
        BY <1>12, <3>2 DEF HsDone, Labels
      <4>2. mutex' = [mutex EXCEPT !["hs"] = None, !["in"] = None] /\ activeCall' = activeCall
        BY SMTT(30), <1>12, <3>2 DEF HsDone
      <4> QED
        BY <1>0, <4>1, <4>2, GotoFacts DEF LockType
    <3>3. CASE th[g].op = "Reneg"
      <4>1. GotoAs(g, "readRecord", "Read")
        BY <1>12, <3>3 DEF HsDone
      <4>2. mutex' = [mutex EXCEPT !["hs"] = None] /\ activeCall' = activeCall
        BY <1>12, <3>3 DEF HsDone
      <4> QED
        BY <1>0, <4>1, <4>2, GotoAsFacts DEF LockType, Labels, Ops
    <3> QED
      BY <1>12, <3>1, <3>2, <3>3 DEF HsDone
  <2>2. HsType'
    <3>1. handshakeErr' \in BOOLEAN /\ complete' \in BOOLEAN
      BY <1>12, <1>0, Zenon DEF HsDone, HsType
    <3>2. handshakes' \in Nat
      BY <1>12, <1>0 DEF HsDone, HsType
    <3> QED
      BY <3>1, <3>2 DEF HsType
  <2> QED
    BY <1>12, <1>0, <2>1, <2>2, TypesJoin, TypesFrame DEF HsDone
<1>13. CASE RenegLock(g)
  <2>1. ThType' /\ LockType'
    BY <1>13, <1>0, HelperTypes, GotoAsFacts DEF RenegLock, Labels, Ops
  <2>2. HsType'
    BY <1>13, <1>0, Zenon DEF RenegLock, HsType
  <2> QED
    BY SMTT(30), <1>13, <1>0, <2>1, <2>2, TypesJoin, TypesFrame DEF RenegLock
<1>14. CASE OutLock(g)
  <2>1. ThType' /\ LockType' /\ activeCall' \in Int /\ OutType'
    BY <1>14, <1>0, HelperTypes, HelperTypes2, TypesFrame DEF OutLock, Kinds
  <2> QED
    BY <1>14, <1>0, <2>1, TypesJoin, TypesFrame DEF OutLock
<1>15. CASE Close(g)
  <2>1. ThType' /\ LockType' /\ activeCall' \in Int
    BY <1>15, <1>0, HelperTypes, EndsFacts, GotoFacts DEF Close, Labels, LockType
  <2>2. NetType'
    BY <1>15, <1>0, Zenon DEF Close, NetType
  <2> QED
    BY <1>15, <1>0, <2>1, <2>2, TypesJoin, TypesFrame DEF Close
<1>16. CASE CloseCheck(g)
  <2>1. ThType' /\ LockType' /\ activeCall' \in Int
    BY <1>16, <1>0, HelperTypes, GotoFacts DEF CloseCheck, Labels, LockType
  <2>2. NetType'
    BY <1>16, <1>0, Zenon DEF CloseCheck, NetType
  <2> QED
    BY <1>16, <1>0, <2>1, <2>2, TypesJoin, TypesFrame DEF CloseCheck
<1>17. CASE CloseWrite(g)
  <2>1. ThType' /\ LockType' /\ activeCall' \in Int
    BY <1>17, <1>0, HelperTypes, GotoFacts DEF CloseWrite, Labels, LockType
  <2> QED
    BY <1>17, <1>0, <2>1, TypesJoin, TypesFrame DEF CloseWrite
<1>18. CASE NotifyLock(g)
  <2>1. ThType' /\ LockType' /\ activeCall' \in Int /\ OutType'
    BY <1>18, <1>0, HelperTypes, HelperTypes2, TypesFrame DEF NotifyLock, Kinds
  <2>2. connClosed' \in BOOLEAN
    BY <1>18, <1>0, Zenon DEF NotifyLock, NetType
  <2>3. NetType'
    BY <1>18, <1>0, <2>2 DEF NotifyLock, NetType
  <2> QED
    BY <1>18, <1>0, <2>1, <2>3, TypesJoin, TypesFrame DEF NotifyLock
<1>19. ASSUME NEW ok \in BOOLEAN, Transmit(g, ok), th[g].rec # "none" PROVE WireType'
  <2>1. /\ [kind |-> th[g].rec, epoch |-> epoch, seq |-> th[g].nonce] \in [kind : Kinds, epoch : Nat, seq : Nat]
        /\ wire \in Seq([kind : Kinds, epoch : Nat, seq : Nat])
    BY <1>19, <1>0 DEF ThType, Threads, OutType, WireType
  <2> QED
    BY <1>19, <2>1, AppendProperties DEF Transmit, WireType
<1>20. ASSUME NEW ok \in BOOLEAN, XmitApp(g, ok) PROVE TypesOK'
  <2>1. WireType'
    BY <1>20, <1>19 DEF XmitApp
  <2>2. ThType' /\ LockType' /\ activeCall' \in Int
    BY <1>20, HelperTypes DEF XmitApp
  <2>3. OutType'
    BY <1>20, <1>0, <2>1 DEF XmitApp, OutType, Errors
  <2> QED
    BY <1>20, <1>0, <2>2, <2>3, TypesJoin, TypesFrame DEF XmitApp
<1>21. ASSUME NEW ok \in BOOLEAN, XmitAlert(g, ok) PROVE TypesOK'
  <2>1. WireType'
    BY <1>21, <1>19 DEF XmitAlert
  <2>2. ThType' /\ LockType' /\ activeCall' \in Int /\ HsType'
    BY <1>21, <1>0, HelperTypes, HelperTypes2, TypesFrame DEF XmitAlert
  <2>3. OutType'
    BY <1>21, <1>0, <2>1 DEF XmitAlert, OutType, Errors
  <2>4. InType'
    BY <1>21, <1>0 DEF XmitAlert, InType, Errors
  <2> QED
    BY <1>21, <1>0, <2>2, <2>3, <2>4, TypesJoin, TypesFrame DEF XmitAlert
<1>22. ASSUME NEW ok \in BOOLEAN, XmitCloseNotify(g, ok) PROVE TypesOK'
  <2>1. WireType'
    BY <1>22, <1>19 DEF XmitCloseNotify
  <2>2. ThType' /\ LockType' /\ activeCall' \in Int
    BY <1>22, HelperTypes DEF XmitCloseNotify
  <2>3. closeNotifySent' \in BOOLEAN /\ connClosed' \in BOOLEAN
    BY <1>22, Zenon DEF XmitCloseNotify
  <2>4. OutType' /\ NetType'
    BY <1>22, <1>0, <2>1, <2>3 DEF XmitCloseNotify, OutType, NetType
  <2> QED
    BY <1>22, <1>0, <2>2, <2>4, TypesJoin, TypesFrame DEF XmitCloseNotify
<1>23. ASSUME NEW ok \in BOOLEAN, XmitKeyUpdate(g, ok) PROVE TypesOK'
  <2>1. WireType'
    BY SMTT(30), <1>23, <1>19 DEF XmitKeyUpdate
  <2>2. ThType'
    BY <1>23, <1>0, GotoWithFacts, SendsFacts DEF XmitKeyUpdate, Labels, Kinds
  <2>3. LockType'
    BY <1>23, <1>0 DEF XmitKeyUpdate, LockType
  <2>4. OutType'
    BY <1>23, <1>0, <2>1 DEF XmitKeyUpdate, OutType, Errors
  <2>5. InType'
    BY <1>23, <1>0 DEF XmitKeyUpdate, InType
  <2> QED
    BY <1>23, <1>0, <2>2, <2>3, <2>4, <2>5, TypesJoin, TypesFrame, SMTT(30) DEF XmitKeyUpdate
<1>24. ASSUME NEW ok \in BOOLEAN, XmitHandshake(g, ok) PROVE TypesOK'
  <2>1. WireType'
    BY <1>24, <1>19 DEF XmitHandshake
  <2>2. OutType'
    BY <1>24, <1>0, <2>1 DEF XmitHandshake, OutType
  <2>3. CASE HandshakeFails(g)
    BY <1>24, <1>0, <2>2, <2>3, HelperTypes2, TypesJoin, TypesFrame DEF XmitHandshake
  <2>4. CASE ~HandshakeFails(g)
    <3>1. ThType'
      BY <1>24, <1>0, <2>4, GotoWithFacts DEF XmitHandshake, Labels
    <3>2. LockType' /\ activeCall' \in Int
      BY <1>24, <1>0, <2>4 DEF XmitHandshake, LockType
    <3> QED
      BY <1>24, <1>0, <2>2, <2>4, <3>1, <3>2, TypesJoin, TypesFrame DEF XmitHandshake
  <2> QED
    BY <2>3, <2>4
<1>25. ASSUME NEW ok \in BOOLEAN, XmitFinished(g, ok) PROVE TypesOK'
  <2>1. WireType'
    BY <1>25, <1>19 DEF XmitFinished
  <2>2. OutType'
    BY <1>25, <1>0, <2>1 DEF XmitFinished, OutType
  <2>3. InType'
    BY <1>25, <1>0 DEF XmitFinished, InType
  <2>4. CASE HandshakeFails(g)
    BY <1>25, <1>0, <2>2, <2>3, <2>4, HelperTypes2, TypesJoin, TypesFrame DEF XmitFinished
  <2>5. CASE ~HandshakeFails(g)
    <3>1. ThType'
      BY <1>25, <1>0, <2>5, GotoWithFacts DEF XmitFinished, Labels
    <3>2. LockType' /\ activeCall' \in Int
      BY <1>25, <1>0, <2>5 DEF XmitFinished, LockType
    <3>3. complete' \in BOOLEAN /\ handshakeErr' \in BOOLEAN
      BY <1>25, <1>0, <2>5, Zenon DEF XmitFinished, HsType
    <3>4. HsType'
      BY <1>25, <1>0, <2>5, <3>3 DEF XmitFinished, HsType
    <3> QED
      BY <1>25, <1>0, <2>2, <2>3, <3>1, <3>2, <3>4, TypesJoin, TypesFrame DEF XmitFinished
  <2> QED
    BY <2>4, <2>5
<1> QED
  BY <1>1, <1>2, <1>3, <1>4, <1>5, <1>6, <1>7, <1>8, <1>9, <1>10, <1>11, <1>12, <1>13, <1>14, <1>15, <1>16, <1>17, <1>18, <1>20, <1>21, <1>22, <1>23, <1>24, <1>25 DEF Step

(* A step that the peer, the caller or time takes keeps the types. *)
LEMMA TypesOther ==
  ASSUME TypesOK, NEW g \in Goroutines,
         PeerStep(g) \/ Cancel(g) \/ (\E o \in Ops : Call(g, o)) \/ (\E d \in {"none", "past"} : SetWriteDeadline(g, d))
  PROVE  TypesOK'
<1>0. /\ ThType /\ LockType /\ activeCall \in Int
      /\ AppType /\ HsType /\ InType /\ OutType /\ NetType
  BY TypesSplit, SMTT(30)
<1> USE ConnAssumption
<1>1. CASE HsRecv(g)
  <2>1. ThType' /\ LockType' /\ activeCall' \in Int /\ HsType'
    BY <1>1, <1>0, HelperTypes2, GotoFacts, GotoWithFacts, TypesFrame DEF HsRecv, ThenAlert, Labels, Kinds, LockType
  <2>2. InType'
    BY <1>1, <1>0 DEF HsRecv, InType, Errors
  <2> QED
    BY SMTT(30), <1>1, <1>0, <2>1, <2>2, TypesJoin, TypesFrame DEF HsRecv
<1>2. CASE ReadTimeout(g)
  <2>1. ThType' /\ LockType' /\ activeCall' \in Int /\ HsType'
    BY <1>2, <1>0, HelperTypes, HelperTypes2, TypesFrame DEF ReadTimeout
  <2> QED
    BY <1>2, <1>0, <2>1, TypesJoin, TypesFrame DEF ReadTimeout
<1>3. CASE RecvAppData(g)
  <2>1. ThType' /\ LockType' /\ activeCall' \in Int
    BY <1>3, HelperTypes DEF RecvAppData
  <2>2. InType'
    BY <1>3, <1>0 DEF RecvAppData, ReceivesGood, Receives, InType, Errors
  <2> QED
    BY <1>3, <1>0, <2>1, <2>2, TypesJoin, TypesFrame DEF RecvAppData
<1>4. CASE RecvAlert(g)
  <2>1. ThType' /\ LockType' /\ activeCall' \in Int
    BY <1>4, HelperTypes DEF RecvAlert
  <2>2. InType'
    BY <1>4, <1>0, SMTT(30) DEF RecvAlert, ReceivesGood, Receives, InType, Errors
  <2> QED
    BY <1>4, <1>0, <2>1, <2>2, TypesJoin, TypesFrame DEF RecvAlert
<1>5. CASE RecvBad(g)
  <2>1. ThType'
    BY <1>5, <1>0, GotoWithFacts, SMTT(30) DEF RecvBad, ThenAlert, Labels, Kinds
  <2>2. InType'
    BY <1>5, <1>0, SMTT(30) DEF RecvBad, ReceivesGood, Receives, InType
  <2> QED
    BY SMTT(30), <1>5, <1>0, <2>1, <2>2, TypesJoin, TypesFrame DEF RecvBad, LockType
<1>6. CASE RecvUseless(g)
  <2>1. ThType'
    BY <1>6, <1>0, GotoWithFacts DEF RecvUseless, ThenAlert, Labels, Kinds, ThType
  <2>2. InType'
    BY <1>6, <1>0 DEF RecvUseless, ReceivesGood, Receives, InType
  <2> QED
    BY SMTT(30), <1>6, <1>0, <2>1, <2>2, TypesJoin, TypesFrame DEF RecvUseless, LockType
<1>7. CASE RecvOversize(g)
  <2>1. ThType' /\ OutType'
    BY <1>7, HelperTypes2, SMTT(30) DEF RecvOversize, Kinds
  <2>2. InType'
    BY <1>7, <1>0, SMTT(30) DEF RecvOversize, ReceivesGood, Receives, InType
  <2> QED
    BY <1>7, <1>0, <2>1, <2>2, TypesJoin, TypesFrame DEF RecvOversize, LockType
<1>8. CASE RecvHelloRequest(g)
  <2>1. ThType'
    BY <1>8, <1>0, GotoFacts, GotoWithFacts, SMTT(30) DEF RecvHelloRequest, ThenAlert, Labels, Kinds
  <2>2. InType'
    BY <1>8, <1>0, SMTT(30) DEF RecvHelloRequest, ReceivesGood, Receives, InType
  <2> QED
    BY SMTT(30), <1>8, <1>0, <2>1, <2>2, TypesJoin, TypesFrame DEF RecvHelloRequest, LockType
<1>9. ASSUME NEW requested \in BOOLEAN, NEW tail \in BOOLEAN, RecvKeyUpdate(g, requested, tail) PROVE TypesOK'
  <2>1. ThType'
    BY <1>9, <1>0, GotoWithFacts DEF RecvKeyUpdate, ThenAlert, Labels, Kinds, ThType
  <2>2. InType'
    BY <1>9, <1>0 DEF RecvKeyUpdate, ReceivesGood, Receives, InType
  <2> QED
    BY SMTT(30), <1>9, <1>0, <2>1, <2>2, TypesJoin, TypesFrame DEF RecvKeyUpdate, LockType
<1>10. CASE Cancel(g)
  <2>1. ThType' /\ NetType'
    BY <1>10, <1>0, CtxFacts DEF Cancel, NetType
  <2> QED
    BY <1>10, <1>0, <2>1, TypesJoin, TypesFrame DEF Cancel, LockType
<1>11. ASSUME NEW o \in Ops, Call(g, o) PROVE TypesOK'
  <2>1. Entry(o) \in Labels
    BY DEF Entry, Labels
  <2>2. ThType'
    BY <1>11, <1>0, <2>1, GotoAsFacts DEF Call
  <2>3. AppType'
    BY <1>11, <1>0 DEF Call, AppType
  <2> QED
    BY <1>11, <1>0, <2>2, <2>3, TypesJoin, TypesFrame DEF Call, LockType
<1>12. ASSUME NEW d \in {"none", "past"}, SetWriteDeadline(g, d) PROVE TypesOK'
  <2>1. AppType' /\ NetType'
    BY <1>12, <1>0 DEF SetWriteDeadline, AppType, NetType
  <2> QED
    BY <1>12, <1>0, <2>1, TypesJoin, TypesFrame DEF SetWriteDeadline, ThType, LockType
<1> QED
  BY <1>1, <1>2, <1>3, <1>4, <1>5, <1>6, <1>7, <1>8, <1>9, <1>10, <1>11, <1>12, SMTT(30) DEF PeerStep

(* Every step keeps the types. *)
LEMMA TypesNext == TypesOK /\ [Next]_vars => TypesOK'
<1> SUFFICES ASSUME TypesOK, [Next]_vars PROVE TypesOK'
  OBVIOUS
<1>0. /\ ThType /\ LockType /\ activeCall \in Int
      /\ AppType /\ HsType /\ InType /\ OutType /\ NetType
  BY TypesSplit
<1>1. CASE PeerStopsReading \/ PeerResets \/ DeadlinePasses
  <2>1. NetType'
    BY <1>0, <1>1 DEF PeerStopsReading, PeerResets, DeadlinePasses, NetType
  <2> QED
    BY <1>0, <1>1, <2>1, TypesJoin, TypesFrame DEF PeerStopsReading, PeerResets, DeadlinePasses, ThType, LockType
<1>2. CASE UNCHANGED vars
  BY <1>0, <1>2, TypesJoin, TypesFrame DEF vars, ThType, LockType
<1> QED
  BY <1>1, <1>2, TypesStep, TypesOther DEF Next

-----------------------------------------------------------------------------
(* The handshake state and its mutex. *)

(* No handshake has begun in the initial state. *)
LEMMA HandshakeInit == Init => HandshakeInv
  BY ConnAssumption DEF Init, Idle, HandshakeInv, HandshakeInvOf, CompleteMeansNoError, HsPcs

OthersStay(g) == \A h \in Goroutines \ {g} : th'[h] = th[h]

(* A step that leaves the handshake state and its mutex alone has only its own *)
(* goroutine's part of the invariant to restore.                               *)
LEMMA HsFrame ==
  ASSUME HandshakeInv, NEW g \in Goroutines, OthersStay(g),
         (th'[g].op = "Reneg") <=> (th[g].op = "Reneg"),
         UNCHANGED <<complete, handshakeErr>>, mutex'["hs"] = mutex["hs"],
         (Decided <=> Decided') => HandshakeInvOf(g)'
  PROVE  HandshakeInv'
<1>1. Decided <=> Decided'
  BY DEF OthersStay, Decided
<1>2. HandshakeInvOf(g)'
  BY <1>1
<1>3. ASSUME NEW h \in Goroutines \ {g} PROVE HandshakeInvOf(h)'
  BY <1>1, <1>3 DEF OthersStay, HandshakeInv, HandshakeInvOf
<1> QED
  BY <1>2, <1>3 DEF HandshakeInv, CompleteMeansNoError

(* A call that does not hold handshakeMutex returns. *)
LEMMA HsReturn ==
  ASSUME HandshakeInv, ThType, LockType, NEW g \in Goroutines,
         Return(g), mutex["hs"] # g, UNCHANGED <<complete, handshakeErr>>
  PROVE  HandshakeInv'
<1>1. /\ OthersStay(g) /\ mutex'["hs"] = mutex["hs"]
      /\ th'[g].pc = "idle" /\ th'[g].op = "none" /\ th'[g].rec = "none"
  BY EndsFacts DEF Return, OthersStay
<1>2. th[g].op # "Reneg"
  BY DEF HandshakeInv, HandshakeInvOf
<1>3. HandshakeInvOf(g)'
  BY <1>1 DEF HandshakeInvOf, HsPcs
<1> QED
  BY <1>1, <1>2, <1>3, HsFrame

(* A handshake fails in the goroutine that runs it. *)
LEMMA HsFails ==
  ASSUME HandshakeInv, ThType, LockType, NEW g \in Goroutines,
         HandshakeFails(g), mutex["hs"] = g, th[g].pc # "hsDone"
  PROVE  HandshakeInv'
<1>1. /\ OthersStay(g) /\ mutex'["hs"] = None
      /\ th'[g].pc = "idle" /\ th'[g].op = "none" /\ th'[g].rec = "none"
      /\ handshakeErr'
  BY EndsFacts DEF HandshakeFails, Return, OthersStay
<1>2. ~complete /\ ~complete'
  BY DEF HandshakeFails, HandshakeInv, HandshakeInvOf
<1>3. HandshakeInvOf(g)'
  BY <1>1, ConnAssumption DEF HandshakeInvOf, HsPcs
<1>4. ASSUME NEW h \in Goroutines \ {g} PROVE HandshakeInvOf(h)'
  <2>1. HandshakeInvOf(h) /\ th'[h] = th[h] /\ mutex["hs"] # h /\ mutex'["hs"] # h
    BY <1>1, ConnAssumption DEF HandshakeInv, OthersStay
  <2> QED
    BY <2>1, <1>1, <1>2 DEF HandshakeInvOf, Decided, HsPcs
<1> QED
  BY <1>2, <1>3, <1>4 DEF HandshakeInv, CompleteMeansNoError

(* A step of a goroutine by itself keeps the handshake invariant. *)
LEMMA HandshakeStep ==
  ASSUME HandshakeInv, TypesOK, NEW g \in Goroutines, Step(g) PROVE HandshakeInv'
<1> USE DEF app, hs, OthersStay, HsPcs
<1>0. ThType /\ LockType /\ HandshakeInvOf(g) /\ g # None
  BY HelperTypes, ConnAssumption DEF HandshakeInv
<1>1. CASE WriteEnter(g)
  <2>1. mutex["hs"] # g /\ th[g].op # "Reneg"
    BY <1>0, <1>1 DEF WriteEnter, At, HandshakeInvOf
  <2> QED
    BY <1>0, <1>1, <2>1, HsFrame, EndsFacts, GotoFacts DEF WriteEnter, HandshakeInvOf, Labels
<1>2. CASE HsFast(g)
  <2>1. mutex["hs"] # g
    BY <1>0, <1>2 DEF HsFast, At, HandshakeInvOf
  <2>2. CASE ~complete
    BY <1>0, <1>2, <2>1, <2>2, HsFrame, CtxFacts DEF HsFast, HandshakeInvOf
  <2>3. CASE complete /\ th[g].op = "Handshake"
    BY <1>0, <1>2, <2>1, <2>3, HsReturn DEF HsFast, AfterHandshake
  <2>4. CASE complete /\ th[g].op # "Handshake"
    BY <1>0, <1>2, <2>1, <2>4, HsFrame, GotoFacts DEF HsFast, AfterHandshake, HandshakeInvOf, Labels, Decided
  <2> QED
    BY <2>2, <2>3, <2>4
<1>3. CASE HsLock(g)
  <2>1. mutex["hs"] = None
    BY <1>3 DEF HsLock
  <2>2. CASE Return(g)
    BY <1>0, <1>3, <2>1, <2>2, HsReturn DEF HsLock
  <2>3. CASE complete /\ ~Return(g)
    BY <1>0, <1>3, <2>1, <2>3, HsFrame, GotoFacts DEF HsLock, AfterHandshake, HandshakeInvOf, Labels, Decided
  <2>4. CASE ~complete /\ ~Return(g)
    <3>1. /\ \A h \in Goroutines \ {g} : th'[h] = th[h]
          /\ th'[g].pc = "hsInLock" /\ th'[g].op = th[g].op
          /\ mutex'["hs"] = g /\ ~handshakeErr /\ UNCHANGED <<complete, handshakeErr>>
      BY <1>0, <1>3, <2>4, GotoFacts DEF HsLock, Lock, Labels, LockType
    <3>2. Decided' <=> Decided
      BY <3>1 DEF Decided
    <3>3. HandshakeInvOf(g)'
      BY <1>0, <2>1, <2>4, <3>1 DEF HandshakeInvOf
    <3>4. ASSUME NEW h \in Goroutines \ {g} PROVE HandshakeInvOf(h)'
      BY <1>0, <2>1, <3>1, <3>2, <3>4, ConnAssumption DEF HandshakeInv, HandshakeInvOf
    <3> QED
      BY <1>0, <3>1, <3>3, <3>4 DEF HandshakeInv, CompleteMeansNoError
  <2> QED
    BY <2>2, <2>3, <2>4
<1>4. CASE HsInLock(g)
  BY <1>0, <1>4, HsFrame, GotoFacts DEF HsInLock, At, Lock, LockType, HandshakeInvOf, Labels
<1>5. CASE HsSend(g)
  BY <1>0, <1>5, HsFrame, SendsFacts DEF HsSend, StartRecord, At, Lock, LockType, HandshakeInvOf, Kinds, TypesOK
<1>6. CASE HsRecvErr(g)
  BY <1>0, <1>6, HsFails DEF HsRecvErr, At, HandshakeInvOf
<1>7. CASE HsFinish(g)
  BY <1>0, <1>7, HsFrame, SendsFacts DEF HsFinish, StartRecord, At, Lock, LockType, HandshakeInvOf, Kinds, TypesOK
<1>8. CASE HsDone(g)
  <2>1. mutex["hs"] = g /\ complete /\ complete' /\ ~handshakeErr' /\ Decided'
    BY <1>0, <1>8 DEF HsDone, At, HandshakeInvOf, Decided
  <2>2. /\ \A h \in Goroutines \ {g} : th'[h] = th[h]
        /\ th'[g].pc \in {"idle", "inLock", "outLock", "readRecord"}
        /\ th'[g].op # "Reneg" /\ mutex'["hs"] = None
    <3>1. CASE th[g].op = "Handshake"
      BY <1>0, <1>8, <2>1, <3>1, EndsFacts DEF HsDone, Return
    <3>2. CASE th[g].op \in {"Read", "Write"}
      BY SMTT(30), <1>0, <1>8, <3>2, GotoFacts DEF HsDone, Labels, LockType
    <3>3. CASE th[g].op = "Reneg"
      BY <1>0, <1>8, <3>3, GotoAsFacts DEF HsDone, Labels, Ops, LockType
    <3> QED
      BY <1>8, <3>1, <3>2, <3>3 DEF HsDone
  <2>3. HandshakeInvOf(g)'
    BY <1>0, <2>1, <2>2 DEF HandshakeInvOf
  <2>4. ASSUME NEW h \in Goroutines \ {g} PROVE HandshakeInvOf(h)'
    BY <1>0, <2>1, <2>2, <2>4, ConnAssumption DEF HandshakeInv, HandshakeInvOf
  <2> QED
    BY <2>1, <2>3, <2>4 DEF HandshakeInv, CompleteMeansNoError
<1>9. CASE InLock(g)
  BY <1>0, <1>9, HsFrame, GotoFacts DEF InLock, At, Lock, LockType, HandshakeInvOf, Labels
<1>10. CASE ReadErr(g)
  BY <1>0, <1>10, HsReturn DEF ReadErr, At, HandshakeInvOf
<1>11. CASE KuLock(g)
  BY SMTT(30), <1>0, <1>11, HsFrame, SendsFacts DEF KuLock, StartRecord, At, Lock, LockType, HandshakeInvOf, Kinds, TypesOK
<1>12. CASE RenegLock(g)
  <2>1. /\ \A h \in Goroutines \ {g} : th'[h] = th[h]
        /\ th'[g].pc = "hsSend" /\ th'[g].op = "Reneg"
        /\ mutex["hs"] = None /\ mutex'["hs"] = g /\ ~complete' /\ handshakeErr' = handshakeErr
    BY <1>0, <1>12, GotoAsFacts DEF RenegLock, Lock, Labels, LockType
  <2>2. Decided'
    BY <2>1 DEF Decided
  <2>3. HandshakeInvOf(g)'
    BY <1>0, <2>1, <2>2 DEF HandshakeInvOf
  <2>4. ASSUME NEW h \in Goroutines \ {g} PROVE HandshakeInvOf(h)'
    BY <1>0, <2>1, <2>2, <2>4, ConnAssumption DEF HandshakeInv, HandshakeInvOf
  <2> QED
    BY <1>0, <2>1, <2>3, <2>4 DEF HandshakeInv, CompleteMeansNoError
<1>13. CASE AlertLock(g)
  BY <1>0, <1>13, HsFrame, SendsFacts DEF AlertLock, StartRecord, At, Lock, LockType, HandshakeInvOf, Kinds, TypesOK
<1>14. CASE OutLock(g)
  <2>1. mutex["hs"] # g
    BY <1>0, <1>14 DEF OutLock, At, HandshakeInvOf
  <2>2. CASE Return(g)
    BY <1>0, <1>14, <2>1, <2>2, HsReturn DEF OutLock
  <2>3. CASE ~Return(g)
    <3>1. /\ \A h \in Goroutines \ {g} : th'[h] = th[h]
          /\ th'[g].pc = "xmit" /\ th'[g].rec = "app" /\ th'[g].op = th[g].op
      BY <1>0, <1>14, <2>3, SendsFacts DEF OutLock, StartRecord, Kinds, TypesOK
    <3>2. mutex'["hs"] = mutex["hs"]
      BY <1>0, <1>14, <2>3 DEF OutLock, Lock, LockType
    <3> QED
      BY <1>0, <1>14, <2>1, <3>1, <3>2, HsFrame DEF OutLock, HandshakeInvOf
  <2> QED
    BY <2>2, <2>3
<1>15. CASE Close(g)
  <2>1. mutex["hs"] # g /\ th[g].op # "Reneg"
    BY <1>0, <1>15 DEF Close, At, HandshakeInvOf
  <2>2. CASE Return(g)
    BY <1>0, <1>15, <2>1, <2>2, HsReturn DEF Close
  <2>3. CASE ~Return(g)
    BY <1>0, <1>15, <2>1, <2>3, HsFrame, EndsFacts, GotoFacts DEF Close, HandshakeInvOf, Labels
  <2> QED
    BY <2>2, <2>3
<1>16. CASE CloseCheck(g) \/ CloseWrite(g)
  <2>1. mutex["hs"] # g
    BY <1>0, <1>16 DEF CloseCheck, CloseWrite, At, HandshakeInvOf
  <2>2. CASE Return(g)
    BY <1>0, <1>16, <2>1, <2>2, HsReturn DEF CloseCheck, CloseWrite
  <2>3. CASE ~Return(g)
    BY <1>0, <1>16, <2>1, <2>3, HsFrame, GotoFacts DEF CloseCheck, CloseWrite, HandshakeInvOf, Labels
  <2> QED
    BY <2>2, <2>3
<1>17. CASE NotifyLock(g)
  <2>1. mutex["hs"] # g
    BY <1>0, <1>17 DEF NotifyLock, At, HandshakeInvOf
  <2>2. CASE Return(g)
    BY <1>0, <1>17, <2>1, <2>2, HsReturn DEF NotifyLock
  <2>3. CASE ~Return(g)
    BY SMTT(30), <1>0, <1>17, <2>1, <2>3, HsFrame, SendsFacts DEF NotifyLock, StartRecord, Lock, LockType, HandshakeInvOf, Kinds, TypesOK
  <2> QED
    BY <2>2, <2>3
<1>18. ASSUME NEW ok \in BOOLEAN, XmitApp(g, ok) \/ XmitCloseNotify(g, ok) PROVE HandshakeInv'
  BY <1>0, <1>18, HsReturn DEF XmitApp, XmitCloseNotify, Transmit, At, HandshakeInvOf
<1>19. ASSUME NEW ok \in BOOLEAN, XmitAlert(g, ok) PROVE HandshakeInv'
  BY <1>0, <1>19, HsReturn, HsFails DEF XmitAlert, Transmit, At
<1>20. ASSUME NEW ok \in BOOLEAN, XmitKeyUpdate(g, ok) PROVE HandshakeInv'
  <2>1. mutex["hs"] # g /\ mutex'["hs"] = mutex["hs"] /\ th[g].op # "Reneg" /\ Decided
    BY SMTT(30), <1>0, <1>20 DEF XmitKeyUpdate, Transmit, At, HandshakeInvOf, LockType
  <2>2. /\ \A h \in Goroutines \ {g} : th'[h] = th[h]
        /\ th'[g].op = th[g].op
        /\ th'[g].pc = "readRecord" \/ (th'[g].pc = "xmit" /\ th'[g].rec = "softAlert")
    BY <1>0, <1>20, GotoWithFacts, SendsFacts DEF XmitKeyUpdate, Labels, Kinds
  <2> QED
    BY <1>0, <1>20, <2>1, <2>2, HsFrame, SMTT(30) DEF XmitKeyUpdate, HandshakeInvOf
<1>21. ASSUME NEW ok \in BOOLEAN, XmitHandshake(g, ok) PROVE HandshakeInv'
  <2>1. mutex["hs"] = g /\ th[g].pc = "xmit"
    BY <1>0, <1>21 DEF XmitHandshake, Transmit, At, HandshakeInvOf
  <2>2. CASE HandshakeFails(g)
    BY <1>0, <2>1, <2>2, HsFails
  <2>3. CASE ~HandshakeFails(g)
    BY <1>0, <1>21, <2>1, <2>3, HsFrame, GotoWithFacts DEF XmitHandshake, HandshakeInvOf, LockType, Labels
  <2> QED
    BY <2>2, <2>3
<1>22. ASSUME NEW ok \in BOOLEAN, XmitFinished(g, ok) PROVE HandshakeInv'
  <2>1. mutex["hs"] = g /\ th[g].pc = "xmit"
    BY <1>0, <1>22 DEF XmitFinished, Transmit, At, HandshakeInvOf
  <2>2. CASE HandshakeFails(g)
    BY <1>0, <2>1, <2>2, HsFails
  <2>3. CASE ~HandshakeFails(g)
    <3>1. /\ \A h \in Goroutines \ {g} : th'[h] = th[h]
          /\ th'[g].pc = "hsDone" /\ th'[g].op = th[g].op
          /\ mutex'["hs"] = g /\ complete' /\ handshakeErr' = handshakeErr
      BY <1>0, <1>22, <2>1, <2>3, GotoWithFacts DEF XmitFinished, Labels, LockType
    <3>2. Decided'
      BY <3>1 DEF Decided
    <3>3. HandshakeInvOf(g)'
      BY <1>0, <2>1, <3>1, <3>2 DEF HandshakeInvOf
    <3>4. ASSUME NEW h \in Goroutines \ {g} PROVE HandshakeInvOf(h)'
      BY <1>0, <2>1, <3>1, <3>2, <3>4 DEF HandshakeInv, HandshakeInvOf
    <3> QED
      BY <1>0, <3>1, <3>3, <3>4 DEF HandshakeInv, CompleteMeansNoError
  <2> QED
    BY <2>2, <2>3
<1> QED
  BY <1>1, <1>2, <1>3, <1>4, <1>5, <1>6, <1>7, <1>8, <1>9, <1>10, <1>11, <1>12, <1>13, <1>14,
     <1>15, <1>16, <1>17, <1>18, <1>19, <1>20, <1>21, <1>22 DEF Step

(* A step that the peer, the caller or time takes keeps the handshake invariant. *)
LEMMA HandshakeOther ==
  ASSUME HandshakeInv, TypesOK, NEW g \in Goroutines,
         PeerStep(g) \/ Cancel(g) \/ (\E o \in Ops : Call(g, o)) \/ (\E d \in {"none", "past"} : SetWriteDeadline(g, d))
  PROVE  HandshakeInv'
<1> USE DEF app, hs, OthersStay, HsPcs
<1>0. ThType /\ LockType /\ HandshakeInvOf(g) /\ g # None
  BY HelperTypes, ConnAssumption DEF HandshakeInv
<1>1. CASE HsRecv(g)
  <2>1. mutex["hs"] = g /\ th[g].pc = "hsRecv"
    BY <1>0, <1>1, SMTT(30) DEF HsRecv, At, HandshakeInvOf
  <2>2. CASE HandshakeFails(g)
    BY SMTT(30), <1>0, <2>1, <2>2, HsFails
  <2>3. CASE ~HandshakeFails(g)
    BY <1>0, <1>1, <2>1, <2>3, HsFrame, GotoFacts, GotoWithFacts DEF HsRecv, ThenAlert, HandshakeInvOf, Labels, Kinds
  <2> QED
    BY <2>2, <2>3, SMTT(30)
<1>2. CASE ReadTimeout(g)
  BY <1>0, <1>2, HsReturn, HsFails DEF ReadTimeout, At, HandshakeInvOf
<1>3. CASE RecvAppData(g) \/ RecvAlert(g)
  BY <1>0, <1>3, HsReturn DEF RecvAppData, RecvAlert, ReceivesGood, Receives, At, HandshakeInvOf
<1>4. ASSUME th[g].pc = "readRecord", UNCHANGED <<complete, handshakeErr, mutex>>, OthersStay(g),
             th'[g].op = th[g].op, th'[g].pc \in {"readRecord", "alertLock", "xmit", "kuLock", "renegLock"},
             th'[g].pc = "alertLock" => th'[g].rec \in {"alert", "softAlert"},
             th'[g].pc = "xmit" => th'[g].rec = "oversize",
             th'[g].pc = "kuLock" => th'[g].rec \in {"keyUpdate", "keyUpdateTail"}
      PROVE  HandshakeInv'
  BY SMTT(30), <1>0, <1>4, HsFrame DEF HandshakeInvOf
<1>5. CASE RecvBad(g)
  BY SMTT(30), <1>0, <1>4, <1>5, GotoWithFacts DEF RecvBad, ThenAlert, ReceivesGood, Receives, At, Labels, Kinds
<1>6. CASE RecvUseless(g)
  <2>1. th[g].pc = "readRecord" /\ UNCHANGED <<complete, handshakeErr, mutex>> /\ (ThenAlert(g, "alert") \/ UNCHANGED th)
    BY <1>6 DEF RecvUseless, ReceivesGood, Receives, At
  <2> QED
    BY <1>0, <1>4, <2>1, GotoWithFacts DEF ThenAlert, Labels, Kinds
<1>7. CASE RecvOversize(g)
  BY SMTT(30), <1>0, <1>4, <1>7, SendsFacts DEF RecvOversize, StartRecord, ReceivesGood, Receives, At, Kinds, TypesOK
<1>8. CASE RecvHelloRequest(g)
  BY SMTT(30), <1>0, <1>4, <1>8, GotoFacts, GotoWithFacts DEF RecvHelloRequest, ThenAlert, ReceivesGood, Receives, At, Labels, Kinds
<1>9. ASSUME NEW requested \in BOOLEAN, NEW tail \in BOOLEAN, RecvKeyUpdate(g, requested, tail) PROVE HandshakeInv'
  <2>1. th[g].pc = "readRecord" /\ UNCHANGED <<complete, handshakeErr, mutex>>
    BY <1>9 DEF RecvKeyUpdate, ReceivesGood, Receives, At
  <2>2. \/ UNCHANGED th \/ GotoWith(g, "alertLock", "softAlert")
        \/ \E k \in {"keyUpdate", "keyUpdateTail"} : GotoWith(g, "kuLock", k)
    BY <1>9 DEF RecvKeyUpdate, ThenAlert
  <2> QED
    BY <1>0, <1>4, <2>1, <2>2, GotoWithFacts DEF Labels, Kinds
<1>10. CASE Cancel(g)
  BY <1>0, <1>10, HsFrame, CtxFacts DEF Cancel, HandshakeInvOf
<1>11. ASSUME NEW o \in Ops, Call(g, o) PROVE HandshakeInv'
  <2>1. Entry(o) \in {"enter", "close", "closeWrite", "hsFast"}
    BY DEF Entry
  <2>2. th[g].op # "Reneg" /\ mutex["hs"] # g
    BY SMTT(30), <1>0, <1>11 DEF Call, At, HandshakeInvOf
  <2>3. OthersStay(g) /\ th'[g].pc = Entry(o) /\ th'[g].op = o /\ o # "Reneg"
    BY <1>0, <1>11, <2>1, GotoAsFacts DEF Call, Labels, Ops
  <2> QED
    BY <1>0, <1>11, <2>1, <2>2, <2>3, HsFrame DEF Call, HandshakeInvOf
<1>12. ASSUME NEW d \in {"none", "past"}, SetWriteDeadline(g, d) PROVE HandshakeInv'
  BY <1>0, <1>12, HsFrame DEF SetWriteDeadline, HandshakeInvOf
<1> QED
  BY <1>1, <1>2, <1>3, <1>5, <1>6, <1>7, <1>8, <1>9, <1>10, <1>11, <1>12 DEF PeerStep

(* Every step keeps the handshake invariant. *)
LEMMA HandshakeNext == HandshakeInv /\ TypesOK /\ [Next]_vars => HandshakeInv'
<1> SUFFICES ASSUME HandshakeInv, TypesOK, [Next]_vars PROVE HandshakeInv'
  OBVIOUS
<1>1. CASE UNCHANGED <<th, mutex, hs>>
  BY <1>1 DEF hs, HandshakeInv, HandshakeInvOf, CompleteMeansNoError, Decided
<1>2. CASE PeerStopsReading \/ PeerResets \/ DeadlinePasses
  BY <1>1, <1>2 DEF PeerStopsReading, PeerResets, DeadlinePasses
<1>3. CASE UNCHANGED vars
  BY <1>1, <1>3 DEF vars
<1> QED
  BY <1>2, <1>3, HandshakeStep, HandshakeOther DEF Next

(* A handshake and a renegotiation cannot wait for each other: the first is    *)
(* undecided while it waits for c.in, the second was decided before it began.  *)
LEMMA NoCycle == HandshakeInv => NoLockCycle
<1> SUFFICES ASSUME HandshakeInv, NEW g \in Goroutines, NEW h \in Goroutines,
                    mutex["hs"] = g, At(g, "hsInLock"), At(h, "renegLock")
             PROVE  FALSE
  BY DEF NoLockCycle
<1>1. ~complete /\ ~handshakeErr
  BY DEF At, HandshakeInv, HandshakeInvOf
<1>2. PICK r \in Goroutines : th[r].op = "Reneg"
  BY <1>1 DEF At, HandshakeInv, HandshakeInvOf, Decided
<1>3. mutex["hs"] = r /\ th[r].pc # "hsInLock"
  BY <1>2 DEF HandshakeInv, HandshakeInvOf
<1> QED
  BY <1>3 DEF At

-----------------------------------------------------------------------------
(* The interlock of Write and Close. *)

(* The writers are finitely many, and none of them is there when Close sends. *)
LEMMA WritersFinite ==
  /\ IsFiniteSet(Writers) /\ Cardinality(Writers) \in Nat
  /\ Cardinality(Writers) = 0 <=> Writers = {}
<1>1. IsFiniteSet(Writers)
  BY ConnAssumption, FS_Subset DEF Writers
<1> QED
  BY <1>1, FS_CardinalityType, FS_EmptySet

(* No call is in progress in the initial state. *)
LEMMA ActiveCallInit == Init => ActiveCallInv
<1> SUFFICES ASSUME Init PROVE ActiveCallInv
  OBVIOUS
<1>1. Writers = {}
  BY DEF Init, Idle, Writers, Writing
<1>2. Cardinality(Writers) = 0
  BY <1>1, FS_EmptySet
<1>3. activeCall = 2 * Cardinality(Writers) + 0
  BY <1>2 DEF Init
<1> QED
  BY <1>3 DEF Init, Idle, ActiveCallInv, Closing, Reading, At

(* A step that moves no goroutine into or out of Write or Close. *)
LEMMA CallFrame ==
  ASSUME ActiveCallInv, NEW g \in Goroutines, OthersStay(g), activeCall' = activeCall,
         Writing(g)' <=> Writing(g), Closing(g)' => Closing(g),
         th'[g].pc = "idle" => th'[g].op = "none",
         th'[g].pc = "enter" => th'[g].op = "Write",
         th'[g].pc = "close" => th'[g].op = "Close",
         Reading(g)' => th'[g].op = "Read"
  PROVE  ActiveCallInv'
<1>1. \A h \in Goroutines : (Writing(h)' <=> Writing(h)) /\ (Closing(h)' => Closing(h))
  BY DEF OthersStay, Writing, Closing, At
<1>2. Writers' = Writers
  BY <1>1 DEF Writers
<1>3. \E closed \in {0, 1} : activeCall' = 2 * Cardinality(Writers') + closed
  BY <1>2 DEF ActiveCallInv
<1> QED
  BY <1>1, <1>3 DEF ActiveCallInv, OthersStay, Reading

(* The same, for a goroutine that goes on with the call it is in. *)
LEMMA CallGoesOn ==
  ASSUME ActiveCallInv, NEW g \in Goroutines, OthersStay(g), activeCall' = activeCall,
         th[g].pc \notin {"idle", "enter", "close"}, th'[g].pc \notin {"idle", "enter", "close"},
         th'[g].op = th[g].op \/ {th[g].op, th'[g].op} \subseteq {"Read", "Reneg"},
         Reading(g)' => th'[g].op = "Read"
  PROVE  ActiveCallInv'
  BY CallFrame DEF Writing, Closing, At

(* A call returns; a Write gives back what it added on entry. *)
LEMMA CallReturns ==
  ASSUME ActiveCallInv, ThType, NEW g \in Goroutines, Return(g), th[g].pc # "enter"
  PROVE  ActiveCallInv'
<1>1. OthersStay(g) /\ th'[g].pc = "idle" /\ th'[g].op = "none"
  BY EndsFacts DEF Return, OthersStay
<1>2. CASE th[g].op # "Write"
  BY <1>1, <1>2, CallFrame DEF Return, Writing, Closing, Reading, At
<1>3. CASE th[g].op = "Write"
  <2>1. g \in Writers
    BY <1>3 DEF Writers, Writing, At
  <2>2. Writers' = Writers \ {g}
    BY <1>1 DEF Writers, Writing, At, OthersStay
  <2>3. Cardinality(Writers') = Cardinality(Writers) - 1
    BY <2>1, <2>2, WritersFinite, FS_RemoveElement
  <2>4. activeCall' = activeCall - 2
    BY <1>3 DEF Return
  <2>5. PICK closed \in {0, 1} : activeCall = 2 * Cardinality(Writers) + closed
    BY DEF ActiveCallInv
  <2>6. activeCall' = 2 * Cardinality(Writers') + closed
    BY <2>3, <2>4, <2>5, WritersFinite
  <2>7. activeCall # 1
    BY <2>1, <2>5, WritersFinite
  <2>8. \A h \in Goroutines : ~Closing(h)
    BY <2>7 DEF ActiveCallInv
  <2>9. \A h \in Goroutines : ~Closing(h)'
    BY <1>1, <2>8 DEF Closing, At, OthersStay
  <2> QED
    BY <1>1, <2>6, <2>9 DEF ActiveCallInv, OthersStay, Reading
<1> QED
  BY <1>2, <1>3

(* A Write enters. *)
LEMMA CallWriteEnter ==
  ASSUME ActiveCallInv, TypesOK, NEW g \in Goroutines, WriteEnter(g) PROVE ActiveCallInv'
<1>0. ThType /\ th[g].pc = "enter" /\ th[g].op = "Write" /\ activeCall \in Int
  BY HelperTypes DEF WriteEnter, At, ActiveCallInv, TypesOK
<1>1. CASE activeCall % 2 = 1
  <2>1. OthersStay(g) /\ activeCall' = activeCall /\ th'[g].pc = "idle" /\ th'[g].op = "none"
    BY <1>0, <1>1, EndsFacts DEF WriteEnter, OthersStay
  <2> QED
    BY <1>0, <2>1, CallFrame DEF Writing, Closing, Reading, At
<1>2. CASE activeCall % 2 = 0
  <2>1. OthersStay(g) /\ activeCall' = activeCall + 2 /\ th'[g].pc = "hsFast" /\ th'[g].op = "Write"
    BY <1>0, <1>2, GotoFacts DEF WriteEnter, OthersStay, Labels
  <2>2. Writers' = Writers \cup {g} /\ g \notin Writers
    BY <1>0, <2>1 DEF Writers, Writing, At, OthersStay
  <2>3. Cardinality(Writers') = Cardinality(Writers) + 1
    BY <2>2, WritersFinite, FS_AddElement
  <2>4. PICK closed \in {0, 1} : activeCall = 2 * Cardinality(Writers) + closed
    BY DEF ActiveCallInv
  <2>5. activeCall' = 2 * Cardinality(Writers') + closed
    BY <2>1, <2>3, <2>4, WritersFinite
  <2>6. \A h \in Goroutines : ~Closing(h)
    BY <1>2 DEF ActiveCallInv
  <2>7. \A h \in Goroutines : ~Closing(h)'
    BY <2>1, <2>6 DEF Closing, At, OthersStay
  <2> QED
    BY <2>1, <2>5, <2>7 DEF ActiveCallInv, OthersStay, Reading
<1> QED
  BY <1>1, <1>2 DEF WriteEnter

(* Close sets the low bit. *)
LEMMA CallClose ==
  ASSUME ActiveCallInv, TypesOK, NEW g \in Goroutines, Close(g) PROVE ActiveCallInv'
<1>0. ThType /\ th[g].pc = "close" /\ th[g].op = "Close" /\ activeCall \in Int
  BY HelperTypes DEF Close, At, ActiveCallInv, TypesOK
<1>1. CASE activeCall % 2 = 1
  BY <1>0, <1>1, CallReturns DEF Close
<1>2. CASE activeCall % 2 = 0
  <2>1. /\ OthersStay(g) /\ activeCall' = activeCall + 1
        /\ \/ th'[g].pc = "idle" /\ th'[g].op = "none"
           \/ activeCall = 0 /\ th'[g].pc = "closeCheck" /\ th'[g].op = "Close"
    BY <1>0, <1>2, EndsFacts, GotoFacts DEF Close, OthersStay, Labels
  <2>2. Writers' = Writers
    BY <1>0, <2>1 DEF Writers, Writing, At, OthersStay
  <2>3. PICK closed \in {0, 1} : activeCall = 2 * Cardinality(Writers) + closed
    BY DEF ActiveCallInv
  <2>4. closed = 0
    BY <1>2, <2>3, WritersFinite
  <2>5. activeCall' = 2 * Cardinality(Writers') + 1
    BY <2>1, <2>2, <2>3, <2>4, WritersFinite
  <2>6. \A h \in Goroutines : ~Closing(h)
    BY <1>2 DEF ActiveCallInv
  <2>7. \A h \in Goroutines : Closing(h)' => activeCall' = 1
    BY <2>1, <2>6 DEF Closing, At, OthersStay
  <2> QED
    BY <2>1, <2>5, <2>7 DEF ActiveCallInv, OthersStay, Reading
<1> QED
  BY <1>1, <1>2 DEF Close

(* A step of a goroutine by itself keeps the count. *)
LEMMA ActiveCallStep ==
  ASSUME ActiveCallInv, HandshakeInv, TypesOK, NEW g \in Goroutines, Step(g) PROVE ActiveCallInv'
<1> USE DEF At, OthersStay
<1>0. ThType /\ seq \in Nat /\ th[g].rec \in Kinds \cup {"none"} /\ (Reading(g) => th[g].op = "Read")
  BY HelperTypes DEF TypesOK, ThType, Threads, ActiveCallInv
<1>1. CASE WriteEnter(g)
  BY <1>1, CallWriteEnter
<1>2. CASE HsFast(g) \/ HsLock(g)
  <2>1. th[g].pc \in {"hsFast", "hsLock"}
    BY <1>2 DEF HsFast, HsLock
  <2>2. CASE Return(g)
    BY <1>0, <2>1, <2>2, CallReturns
  <2>3. CASE ~Return(g)
    <3>1. /\ activeCall' = activeCall /\ th'[g].op = th[g].op /\ \A h \in Goroutines \ {g} : th'[h] = th[h]
          /\ th'[g].pc \in {"hsLock", "hsInLock", "inLock", "outLock"}
          /\ th'[g].pc = "inLock" => th[g].op = "Read"
      BY <1>0, <1>2, <2>3, GotoFacts, CtxFacts DEF HsFast, HsLock, AfterHandshake, Labels
    <3> QED
      BY <2>1, <3>1, CallGoesOn DEF Reading
  <2> QED
    BY <2>2, <2>3
<1>3. CASE HsInLock(g) \/ InLock(g)
  BY <1>0, <1>3, CallGoesOn, GotoFacts DEF HsInLock, InLock, Labels, Reading
<1>4. CASE HsSend(g) \/ HsFinish(g) \/ KuLock(g) \/ AlertLock(g)
  <2>1. th[g].pc = "alertLock" => th[g].rec \in {"alert", "softAlert"}
    BY DEF HandshakeInv, HandshakeInvOf
  <2>2. /\ activeCall' = activeCall /\ th'[g].op = th[g].op /\ \A h \in Goroutines \ {g} : th'[h] = th[h]
        /\ th'[g].pc = "xmit" /\ th[g].pc \in {"hsSend", "hsFinish", "kuLock", "alertLock"}
        /\ Reading(g)' => Reading(g)
    BY <1>0, <1>4, <2>1, SendsFacts DEF HsSend, HsFinish, KuLock, AlertLock, StartRecord, Kinds, Reading
  <2> QED
    BY <1>0, <2>2, CallGoesOn
<1>5. CASE HsRecvErr(g) \/ ReadErr(g)
  BY <1>0, <1>5, CallReturns, SMTT(30) DEF HsRecvErr, ReadErr, HandshakeFails
<1>6. CASE HsDone(g)
  <2>1. CASE Return(g)
    BY SMTT(30), <1>0, <1>6, <2>1, CallReturns DEF HsDone
  <2>2. CASE ~Return(g)
    BY <1>0, <1>6, <2>2, CallGoesOn, GotoFacts, GotoAsFacts DEF HsDone, Labels, Ops, Reading
  <2> QED
    BY <2>1, <2>2
<1>7. CASE RenegLock(g)
  BY <1>0, <1>7, CallGoesOn, GotoAsFacts DEF RenegLock, Labels, Reading
<1>8. CASE OutLock(g) \/ NotifyLock(g)
  <2>1. CASE Return(g)
    BY <1>0, <1>8, <2>1, CallReturns DEF OutLock, NotifyLock
  <2>2. CASE ~Return(g)
    BY <1>0, <1>8, <2>2, CallGoesOn, SendsFacts DEF OutLock, NotifyLock, StartRecord, Kinds, Reading
  <2> QED
    BY <2>1, <2>2
<1>9. CASE Close(g)
  BY <1>9, CallClose
<1>10. CASE CloseCheck(g) \/ CloseWrite(g)
  <2>1. CASE Return(g)
    BY <1>0, <1>10, <2>1, CallReturns DEF CloseCheck, CloseWrite
  <2>2. CASE ~Return(g)
    BY <1>0, <1>10, <2>2, CallGoesOn, GotoFacts DEF CloseCheck, CloseWrite, Labels, Reading
  <2> QED
    BY <2>1, <2>2
<1>11. ASSUME NEW ok \in BOOLEAN, XmitApp(g, ok) \/ XmitAlert(g, ok) \/ XmitCloseNotify(g, ok) PROVE ActiveCallInv'
  BY <1>0, <1>11, CallReturns DEF XmitApp, XmitAlert, XmitCloseNotify, Transmit, HandshakeFails
<1>12. ASSUME NEW ok \in BOOLEAN, XmitKeyUpdate(g, ok) PROVE ActiveCallInv'
  <2>1. Reading(g) /\ th[g].pc = "xmit" /\ activeCall' = activeCall
    BY SMTT(30), <1>12 DEF XmitKeyUpdate, Transmit, Reading
  <2>2. /\ \A h \in Goroutines \ {g} : th'[h] = th[h]
        /\ th'[g].op = th[g].op /\ th'[g].pc \in {"readRecord", "xmit"}
    BY <1>0, <1>12, GotoWithFacts, SendsFacts DEF XmitKeyUpdate, Labels, Kinds
  <2> QED
    BY <1>0, <2>1, <2>2, CallGoesOn
<1>13. ASSUME NEW ok \in BOOLEAN, XmitHandshake(g, ok) \/ XmitFinished(g, ok) PROVE ActiveCallInv'
  <2>1. th[g].pc = "xmit"
    BY <1>13 DEF XmitHandshake, XmitFinished, Transmit
  <2>2. CASE Return(g)
    BY <1>0, <2>1, <2>2, CallReturns
  <2>3. CASE ~Return(g)
    BY <1>0, <1>13, <2>1, <2>3, CallGoesOn, GotoWithFacts DEF XmitHandshake, XmitFinished, HandshakeFails, Labels, Reading
  <2> QED
    BY <2>2, <2>3
<1> QED
  BY <1>1, <1>2, <1>3, <1>4, <1>5, <1>6, <1>7, <1>8, <1>9, <1>10, <1>11, <1>12, <1>13 DEF Step

(* A step that the peer, the caller or time takes keeps the count. *)
LEMMA ActiveCallOther ==
  ASSUME ActiveCallInv, TypesOK, NEW g \in Goroutines,
         PeerStep(g) \/ Cancel(g) \/ (\E o \in Ops : Call(g, o)) \/ (\E d \in {"none", "past"} : SetWriteDeadline(g, d))
  PROVE  ActiveCallInv'
<1> USE DEF At, OthersStay
<1>0. ThType /\ seq \in Nat /\ (Reading(g) => th[g].op = "Read")
  BY HelperTypes DEF TypesOK, ActiveCallInv
<1>1. CASE HsRecv(g) \/ ReadTimeout(g) \/ RecvAppData(g) \/ RecvAlert(g)
  <2>1. th[g].pc \in {"hsRecv", "readRecord"}
    BY <1>1, SMTT(30) DEF HsRecv, ReadTimeout, RecvAppData, RecvAlert, ReceivesGood, Receives
  <2>2. CASE Return(g)
    BY SMTT(30), <1>0, <2>1, <2>2, CallReturns
  <2>3. CASE ~Return(g)
    BY <1>0, <1>1, <2>1, <2>3, CallGoesOn, GotoFacts, GotoWithFacts, SMTT(30)
       DEF HsRecv, ReadTimeout, RecvAppData, RecvAlert, HandshakeFails, ThenAlert, Labels, Kinds, Reading
  <2> QED
    BY <2>2, <2>3
<1>2. ASSUME th[g].pc = "readRecord", activeCall' = activeCall,
             \/ UNCHANGED th \/ Goto(g, "renegLock") \/ Sends(g, "oversize", seq)
             \/ \E l \in {"alertLock", "kuLock"}, k \in Kinds : GotoWith(g, l, k)
      PROVE  ActiveCallInv'
  <2>1. /\ \A h \in Goroutines \ {g} : th'[h] = th[h]
        /\ th'[g].op = th[g].op /\ th'[g].pc \in {"readRecord", "renegLock", "xmit", "alertLock", "kuLock"}
    BY <1>0, <1>2, GotoFacts, SendsFacts, GotoWithFacts DEF Labels, Kinds
  <2> QED
    BY SMTT(30), <1>0, <1>2, <2>1, CallGoesOn DEF Reading
<1>3. CASE RecvBad(g) \/ RecvUseless(g) \/ RecvOversize(g) \/ RecvHelloRequest(g)
  <2>1. th[g].pc = "readRecord" /\ activeCall' = activeCall
    BY <1>3 DEF RecvBad, RecvUseless, RecvOversize, RecvHelloRequest, ReceivesGood, Receives
  <2>2. \/ UNCHANGED th \/ Goto(g, "renegLock") \/ Sends(g, "oversize", seq)
        \/ \E l \in {"alertLock", "kuLock"}, k \in Kinds : GotoWith(g, l, k)
    BY <1>3 DEF RecvBad, RecvUseless, RecvOversize, RecvHelloRequest, StartRecord, ThenAlert, Kinds
  <2> QED
    BY <1>2, <2>1, <2>2
<1>4. ASSUME NEW requested \in BOOLEAN, NEW tail \in BOOLEAN, RecvKeyUpdate(g, requested, tail) PROVE ActiveCallInv'
  <2>1. th[g].pc = "readRecord" /\ activeCall' = activeCall
    BY <1>4 DEF RecvKeyUpdate, ReceivesGood, Receives
  <2>2. UNCHANGED th \/ \E l \in {"alertLock", "kuLock"}, k \in Kinds : GotoWith(g, l, k)
    BY <1>4 DEF RecvKeyUpdate, ThenAlert, Kinds
  <2> QED
    BY <1>2, <2>1, <2>2
<1>5. CASE Cancel(g)
  BY <1>0, <1>5, CtxFacts, CallFrame DEF Cancel, Writing, Closing, Reading, ActiveCallInv
<1>6. ASSUME NEW o \in Ops, Call(g, o) PROVE ActiveCallInv'
  <2>1. /\ Entry(o) \in {"enter", "close", "closeWrite", "hsFast"}
        /\ (o = "Write" <=> Entry(o) = "enter") /\ (o = "Close" <=> Entry(o) = "close")
    BY DEF Entry
  <2>2. th[g].pc = "idle" /\ th[g].op = "none" /\ activeCall' = activeCall
    BY <1>6 DEF Call, ActiveCallInv
  <2>3. th'[g].pc = Entry(o) /\ th'[g].op = o /\ \A h \in Goroutines \ {g} : th'[h] = th[h]
    BY <1>0, <1>6, <2>1, GotoAsFacts DEF Call, Labels
  <2> QED
    BY <2>1, <2>2, <2>3, CallFrame DEF Writing, Closing, Reading
<1>7. ASSUME NEW d \in {"none", "past"}, SetWriteDeadline(g, d) PROVE ActiveCallInv'
  BY <1>7, CallFrame DEF SetWriteDeadline, Writing, Closing, Reading, ActiveCallInv
<1> QED
  BY <1>1, <1>3, <1>4, <1>5, <1>6, <1>7 DEF PeerStep

(* Every step keeps the count. *)
LEMMA ActiveCallNext == ActiveCallInv /\ HandshakeInv /\ TypesOK /\ [Next]_vars => ActiveCallInv'
<1> SUFFICES ASSUME ActiveCallInv, HandshakeInv, TypesOK, [Next]_vars PROVE ActiveCallInv'
  OBVIOUS
<1>1. CASE UNCHANGED <<th, activeCall>>
  <2>1. Writers' = Writers
    BY <1>1 DEF Writers, Writing, At
  <2> QED
    BY <1>1, <2>1 DEF ActiveCallInv, Closing, Reading, At
<1>2. CASE PeerStopsReading \/ PeerResets \/ DeadlinePasses
  BY <1>1, <1>2 DEF PeerStopsReading, PeerResets, DeadlinePasses
<1>3. CASE UNCHANGED vars
  BY <1>1, <1>3 DEF vars
<1> QED
  BY <1>2, <1>3, ActiveCallStep, ActiveCallOther DEF Next

-----------------------------------------------------------------------------
(* The theorems. *)

ConnInv == TypesOK /\ HandshakeInv /\ ActiveCallInv

(* The inductive invariant: types, the handshake state under its mutex, and    *)
(* activeCall as a count of the Writes in progress.                            *)
THEOREM InductiveInvariant == Spec => []ConnInv
<1>1. Init => ConnInv
  BY TypesInit, HandshakeInit, ActiveCallInit DEF ConnInv
<1>2. ConnInv /\ [Next]_vars => ConnInv'
  BY TypesNext, HandshakeNext, ActiveCallNext DEF ConnInv
<1> QED
  BY <1>1, <1>2, PTL DEF Spec

(* Type correctness: in particular the activeCall.Add(-2) of Conn.Write never  *)
(* takes activeCall below zero.                                                *)
THEOREM TypeCorrect == Spec => []TypeOK
<1>1. ConnInv => TypeOK
  BY WritersFinite DEF ConnInv, ActiveCallInv, TypeOK
<1> QED
  BY <1>1, InductiveInvariant, PTL

(* isHandshakeComplete implies handshakeErr = nil whenever handshakeMutex is   *)
(* free, across failed and repeated renegotiations.                            *)
THEOREM CompleteImpliesNoError == Spec => []CompleteMeansNoError
<1>1. ConnInv => CompleteMeansNoError
  BY DEF ConnInv, HandshakeInv
<1> QED
  BY <1>1, InductiveInvariant, PTL

(* handshakeMutex and c.in are taken in both orders, by handshakeContext and by *)
(* handleRenegotiation, but never by two goroutines that wait for each other.   *)
THEOREM NoLockOrderDeadlock == Spec => []NoLockCycle
<1>1. ConnInv => NoLockCycle
  BY NoCycle DEF ConnInv
<1> QED
  BY <1>1, InductiveInvariant, PTL

(* Conn.Close sends close_notify only while no Conn.Write is in progress. *)
THEOREM CloseWriteInterlock == Spec => []CloseExcludesWrite
<1>1. ASSUME ConnInv, NEW g \in Goroutines, NEW h \in Goroutines, Closing(g), Writing(h) PROVE FALSE
  <2>1. activeCall = 1 /\ h \in Writers
    BY <1>1 DEF ConnInv, ActiveCallInv, Writers
  <2>2. Cardinality(Writers) # 0
    BY <2>1, WritersFinite
  <2> QED
    BY <1>1, <2>1, <2>2, WritersFinite DEF ConnInv, ActiveCallInv
<1>2. ConnInv => CloseExcludesWrite
  BY <1>1 DEF CloseExcludesWrite
<1> QED
  BY <1>2, InductiveInvariant, PTL
=============================================================================
