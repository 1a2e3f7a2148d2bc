---------------------------- MODULE HelloCodec ----------------------------
(***************************************************************************)
(* The ClientHello on the wire (handshake_messages.go) and Encrypted       *)
(* ClientHello (ech.go).  A ClientHello of the code is                     *)
(*   [random, sid, suites, x]                                              *)
(* where x holds the data of its extensions, an unset one of NoExts; the   *)
(* wire form lists the types of the extensions that are there, in order.   *)
(* Extensions that the handshake never looks at are left out: status and   *)
(* SCT requests, signature_algorithms_cert and cookies, which no server of *)
(* this code sends.  "legacy" stands for the extensions of TLS 1.2: points,*)
(* session_ticket, renegotiation_info, extended_master_secret.             *)
(***************************************************************************)
EXTENDS Naturals, SequencesExt

NoBinder == [label |-> "none"]
NoPSK    == [label |-> 0, binder |-> NoBinder]
NoECH    == [kind |-> "none"]
InnerECH == [kind |-> "inner"]           \* the extension is the byte 1
NoExts == [serverName |-> "", legacy |-> FALSE, earlyData |-> FALSE, quicTP |-> FALSE,
           ech |-> NoECH, curves |-> <<>>, sigs |-> <<>>, alpn |-> <<>>, versions |-> {},
           keyShares |-> <<>>, pskModes |-> FALSE, psk |-> NoPSK]

(* The order of marshalMsg, and the block of it that an inner hello            *)
(* compresses.                                                                 *)
PlainExts      == <<"serverName", "legacy", "earlyData", "quicTP", "ech">>
CompressedExts == <<"curves", "sigs", "alpn", "versions", "keyShares", "pskModes">>

(* Mutant: an outer hello offers the session too. *)
EmitsOuterPSK(m, echInner, t) == m.x[t] # NoExts[t] /\ (t = "legacy" => ~echInner)

(* marshalMsg: an extension that is set is written, but those of TLS 1.2 not   *)
(* into an inner hello and pre_shared_key not into an outer one.               *)
Emits(m, echInner, t) ==
    /\ m.x[t] # NoExts[t]
    /\ t = "legacy" => ~echInner
    /\ t = "psk" => echInner \/ m.x.ech.kind # "outer"

(* Those of a set of extensions, in the order of a list. *)
InOrder(list, exts) == SelectSeq(list, LAMBDA t : t \in exts)

Marshal(m, echInner) ==
    LET emitted == {t \in DOMAIN NoExts : Emits(m, echInner, t)}
        block == InOrder(CompressedExts, emitted)
        types == InOrder(PlainExts, emitted)
                 \o (IF echInner /\ block # <<>> THEN <<"outerExtensions">> ELSE block)
                 \o InOrder(<<"psk">>, emitted)
        Compressed(t) == echInner /\ Contains(CompressedExts, t)
    IN  [random |-> m.random, sid |-> IF echInner THEN 0 ELSE m.sid, suites |-> m.suites,
         types |-> types, outer |-> IF echInner THEN block ELSE <<>>,
         x |-> [t \in DOMAIN NoExts |-> IF t \in emitted /\ ~Compressed(t) THEN m.x[t] ELSE NoExts[t]]]

(* marshalWithoutBinders. *)
WithoutBinders(wire) == [wire EXCEPT !.x.psk.binder = NoBinder]

(* What a transcript keeps of a hello: all but the binders, which the rest of it *)
(* and the keys determine.                                                     *)
Digest(wire) ==
    IF wire.x.ech.kind = "outer" /\ wire.x.ech.payload.key # "none"
    THEN [WithoutBinders(wire) EXCEPT !.x.ech.payload.inner = WithoutBinders(@)]
    ELSE WithoutBinders(wire)

(* clientHelloMsg.unmarshal: no type twice, pre_shared_key last. *)
WellFormed(wire) ==
    /\ IsInjective(wire.types)
    /\ Contains(wire.types, "psk") => Last(wire.types) = "psk"

-----------------------------------------------------------------------------
(* Encrypted ClientHello. *)

(* computeAndUpdateOuterECHExtension: the inner hello is sealed under the ECH   *)
(* key, as message seq of the HPKE context of connection conn, and bound to    *)
(* the outer hello without the payload.  Only the first comes with the         *)
(* encapsulated key.                                                           *)
OuterECH(encap, payload) == [kind |-> "outer", encap |-> encap, payload |-> payload]
NoPayload == [key |-> "none"]
Seal(outer, inner, key, conn, seq) ==
    LET encap == seq = 0
        aad == Marshal([outer EXCEPT !.x.ech = OuterECH(encap, NoPayload)], FALSE)
    IN  [outer EXCEPT !.x.ech = OuterECH(encap,
            [key |-> key, conn |-> conn, seq |-> seq, aad |-> aad, inner |-> Marshal(inner, TRUE)])]

(* decryptECHPayload. *)
Opens(wire, key, conn, seq) ==
    LET p == wire.x.ech.payload IN
    /\ p.key = key /\ p.conn = conn /\ p.seq = seq
    /\ p.aad = [wire EXCEPT !.x.ech.payload = NoPayload]

(* decodeInnerClientHello: the session ID and the compressed extensions are the *)
(* outer hello's, which has them in the same order.                            *)
DecodeInner(outer) ==
    LET enc == outer.x.ech.payload.inner
        copied == ToSet(enc.outer)
        at == SelectInSeq(enc.types, LAMBDA t : t = "outerExtensions")
    IN  [enc EXCEPT !.sid = outer.sid, !.outer = <<>>,
                    !.types = IF at = 0 THEN @
                              ELSE SubSeq(@, 1, at - 1) \o enc.outer \o SubSeq(@, at + 1, Len(@)),
                    !.x = [t \in DOMAIN NoExts |-> IF t \in copied THEN outer.x[t] ELSE enc.x[t]]]
Decodes(outer) ==
    LET enc == outer.x.ech.payload.inner
        inner == DecodeInner(outer)
    IN  /\ ~Contains(enc.outer, "ech")
        /\ SelectSeq(outer.types, LAMBDA t : Contains(enc.outer, t)) = enc.outer
        /\ WellFormed(inner)
        /\ inner.x.ech = InnerECH /\ inner.x.versions = {13}
=============================================================================
