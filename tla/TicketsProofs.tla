--------------------------- MODULE TicketsProofs ---------------------------
(***************************************************************************)
(* Proofs about Tickets, for any number of handshakes, any rotation period *)
(* not longer than the lifetime, and without a bound on time: the bounds   *)
(* MaxTime and MaxHandshakes only restrict guards that no proof uses.      *)
(***************************************************************************)
EXTENDS Tickets, TLAPS

(* The handshakes keep the keys they captured and the sessions they resumed. *)
CapturesStay == \A h \in Handshakes : /\ th'[h].keys = th[h].keys
                                      /\ th'[h].at = th[h].at
                                      /\ th'[h].session = th[h].session

(* Only handshake h changes: it holds ks, captured at time t, and resumes s. *)
Becomes(h, ks, t, s) ==
    /\ th'[h].keys = ks /\ th'[h].at = t /\ th'[h].session = s
    /\ \A i \in Handshakes \ {h} : th'[i] = th[i]

-----------------------------------------------------------------------------
(* What the control operators do to a handshake. *)

(* Moving the program counter leaves captured keys and sessions alone. *)
LEMMA GotoFacts ==
    ASSUME th \in [Handshakes -> Threads], NEW h \in Handshakes, NEW l \in Labels,
           th' = [th EXCEPT ![h].pc = l]
    PROVE  th' \in [Handshakes -> Threads] /\ CapturesStay
  BY SMT DEF CapturesStay, Threads

(* So does going on from the Config of the client to the original one. *)
LEMMA NextConfigFacts ==
    ASSUME th \in [Handshakes -> Threads], NEW h \in Handshakes,
           th' = [th EXCEPT ![h].pc = "rlock", ![h].cf = "main"]
    PROVE  th' \in [Handshakes -> Threads] /\ CapturesStay
<1>1. "rlock" \in Labels /\ "main" \in Configs
  BY DEF Labels, Configs
<1> DEFINE t == [th[h] EXCEPT !.pc = "rlock", !.cf = "main"]
<1>2. t \in Threads /\ t.keys = th[h].keys /\ t.at = th[h].at /\ t.session = th[h].session
  BY <1>1 DEF Threads
<1>3. th' = [th EXCEPT ![h] = t]
  BY DEF Threads
<1> HIDE DEF t
<1> QED
  BY <1>2, <1>3 DEF CapturesStay

(* Captures gives the handshake the keys, as of now. *)
LEMMA CapturesFacts ==
    ASSUME th \in [Handshakes -> Threads], NEW h \in Handshakes, NEW ks \in KeyLists,
           now \in Nat, Captures(h, ks)
    PROVE  th' \in [Handshakes -> Threads] /\ Becomes(h, ks, now, th[h].session)
<1>1. "hello" \in Labels
  BY DEF Labels
<1> DEFINE t == [th[h] EXCEPT !.pc = "hello", !.keys = ks, !.at = now]
<1>2. t \in Threads /\ t.keys = ks /\ t.at = now /\ t.session = th[h].session
  BY <1>1 DEF Threads
<1>3. th' = [th EXCEPT ![h] = t]
  BY DEF Captures, Threads
<1> HIDE DEF t
<1> QED
  BY <1>2, <1>3 DEF Becomes

(* The record of an idle handshake, and of one that has just begun. *)
LEMMA IdleFacts ==
    /\ Idle \in Threads
    /\ Idle.keys = NoKeys /\ Idle.at = 0 /\ Idle.session = NoSession
    /\ \A cf \in Configs :
          LET new == [Idle EXCEPT !.pc = "rlock", !.cf = cf, !.config = cf] IN
          new \in Threads /\ new.keys = NoKeys /\ new.at = 0 /\ new.session = NoSession
<1>1. NoKeys \in KeyLists
  BY DEF NoKeys, KeyLists
<1>2. QED
  BY <1>1 DEF Idle, Threads, Labels, Configs, NoSession

(* A handshake that begins or ends has no keys and no session. *)
LEMMA ResetFacts ==
    ASSUME th \in [Handshakes -> Threads], NEW h \in Handshakes, NEW r \in Threads,
           r.keys = NoKeys, r.at = 0, r.session = NoSession,
           th' = [th EXCEPT ![h] = r]
    PROVE  th' \in [Handshakes -> Threads] /\ Becomes(h, NoKeys, 0, NoSession)
  BY DEF Becomes

(* checkForResumption changes the version and the session. *)
LEMMA ResumeFacts ==
    ASSUME th \in [Handshakes -> Threads], NEW h \in Handshakes, NEW v \in {12, 13},
           NEW s \in Sessions,
           th' = [th EXCEPT ![h].pc = "session", ![h].vers = v, ![h].session = s]
    PROVE  th' \in [Handshakes -> Threads] /\ Becomes(h, th[h].keys, th[h].at, s)
<1>1. "session" \in Labels
  BY DEF Labels
<1> DEFINE t == [th[h] EXCEPT !.pc = "session", !.vers = v, !.session = s]
<1>2. t \in Threads /\ t.keys = th[h].keys /\ t.at = th[h].at /\ t.session = s
  BY ZenonT(40), <1>1 DEF Threads
<1>3. th' = [th EXCEPT ![h] = t]
  BY DEF Threads
<1> HIDE DEF t
<1> QED
  BY ZenonT(40), <1>2, <1>3 DEF Becomes

LEMMA FullFacts ==
    ASSUME th \in [Handshakes -> Threads], NEW h \in Handshakes, NEW v \in {12, 13},
           th' = [th EXCEPT ![h].pc = "session", ![h].vers = v]
    PROVE  th' \in [Handshakes -> Threads] /\ CapturesStay
<1>1. "session" \in Labels
  BY DEF Labels
<1> DEFINE t == [th[h] EXCEPT !.pc = "session", !.vers = v]
<1>2. t \in Threads /\ t.keys = th[h].keys /\ t.at = th[h].at /\ t.session = th[h].session
  BY ZenonT(40), <1>1 DEF Threads
<1>3. th' = [th EXCEPT ![h] = t]
  BY DEF Threads
<1> HIDE DEF t
<1> QED
  BY <1>2, <1>3 DEF CapturesStay

-----------------------------------------------------------------------------
(* The lists of keys. *)

(* The keys of a list are keys, with a time of creation. *)
LEMMA KeyTypes ==
    ASSUME NEW ks \in KeyLists
    PROVE  /\ \A k \in AllKeys(ks) : k \in Keys /\ k.created \in Nat
           /\ ks.first # NoKey => ks.first \in AllKeys(ks)
           /\ ks.first.gen = "auto" => ks.first \in AllKeys(ks)
           /\ ks.old \subseteq AllKeys(ks)
           /\ \A k \in AllKeys(ks) : k = ks.first \/ k \in ks.old
  BY DEF KeyLists, Keys, AllKeys, NoKey

(* Without a first key there are none. *)
LEMMA NoFirstNoKeys ==
    ASSUME TypeOK, KeyListInv, auto.first = NoKey
    PROVE  auto = NoKeys /\ AllKeys(auto) = {}
<1>1. auto \in KeyLists
  BY DEF TypeOK
<1>2. auto.old = {}
  BY DEF KeyListInv
<1>3. auto = [first |-> auto.first, old |-> auto.old]
  BY <1>1 DEF KeyLists
<1> QED
  BY <1>2, <1>3 DEF NoKeys, AllKeys

(* A fresh list may be captured: its first key is young, the others expired    *)
(* after the last rotation at the earliest.                                    *)
LEMMA FreshFacts ==
    ASSUME TypeOK, KeyListInv, Fresh(auto)
    PROVE  /\ auto.first \in AllKeys(auto) /\ now - auto.first.created < Rotation
           /\ \A k \in AllKeys(auto) : now - k.created < Lifetime + Rotation
<1>1. auto \in KeyLists /\ now \in Nat
  BY DEF TypeOK
<1>2. auto.first # NoKey
  BY NoFirstNoKeys DEF Fresh
<1>3. auto.first \in AllKeys(auto) /\ now - auto.first.created < Rotation
  BY <1>1, <1>2, KeyTypes DEF Fresh
<1>4. ASSUME NEW k \in AllKeys(auto) PROVE now - k.created < Lifetime + Rotation
  <2>1. k.created \in Nat /\ auto.first.created \in Nat
    BY <1>1, <1>3, KeyTypes
  <2>2. CASE k = auto.first
    BY <1>1, <1>3, <2>1, <2>2, TicketsAssumption
  <2>3. CASE k \in auto.old
    <3>1. auto.first.created - k.created < Lifetime
      BY <2>3 DEF KeyListInv
    <3> QED
      BY <1>1, <1>3, <2>1, <3>1, TicketsAssumption
  <2> QED
    BY <1>1, <2>2, <2>3, KeyTypes
<1> QED
  BY <1>3, <1>4

(* A list that is not fresh holds keys older than a rotation period only. *)
LEMMA StaleFacts ==
    ASSUME TypeOK, KeyListInv, ~Fresh(auto), NEW k \in AllKeys(auto)
    PROVE  now - k.created >= Rotation
<1>1. auto \in KeyLists /\ now \in Nat
  BY DEF TypeOK
<1>2. auto.first # NoKey
  BY NoFirstNoKeys
<1>3. auto.first \in AllKeys(auto) /\ k.created \in Nat /\ auto.first.created \in Nat
  BY <1>1, <1>2, KeyTypes
<1>4. auto # NoKeys
  BY <1>2 DEF NoKeys
<1>5. now - auto.first.created >= Rotation
  BY <1>1, <1>3, <1>4, TicketsAssumption DEF Fresh
<1>6. CASE k = auto.first
  BY <1>5, <1>6
<1>7. CASE k \in auto.old
  <2>1. Rotation <= auto.first.created - k.created
    BY <1>7 DEF KeyListInv
  <2> QED
    BY <1>1, <1>3, <1>5, <2>1, TicketsAssumption
<1> QED
  BY <1>1, <1>6, <1>7, KeyTypes

(* A rotation makes a list of automatic keys, a rotation period apart, from    *)
(* which only expired keys are missing.                                        *)
LEMMA RotatedFacts ==
    ASSUME TypeOK, KeyListInv, AutoKeysSpaced, ~Fresh(auto),
           auto' = Rotated(auto), explicit' = explicit
    PROVE  /\ auto' \in KeyLists /\ \A k \in AllKeys(auto') : k.created <= now
           /\ KeyListInv' /\ AutoKeysSpaced'
           /\ auto'.first \in AllKeys(auto') /\ auto'.first.gen = "auto" /\ auto'.first.created = now
           /\ \A k \in AllKeys(auto) : now - k.created < Lifetime => k \in AllKeys(auto')
           /\ \A k \in AllKeys(auto') : now - k.created < Lifetime + Rotation
<1> DEFINE kept == {k \in AllKeys(auto) : now - k.created < Lifetime}
<1>1. auto \in KeyLists /\ now \in Nat /\ generated \in Nat
  BY DEF TypeOK
<1>2. NewKey \in Keys /\ NewKey # NoKey /\ NewKey.gen = "auto" /\ NewKey.created = now
  BY <1>1 DEF NewKey, Keys, NoKey
<1>3. kept \subseteq Keys /\ \A k \in AllKeys(auto) : k.created \in Nat
  BY <1>1, KeyTypes
<1>4. auto' = [first |-> NewKey, old |-> kept]
  BY DEF Rotated
<1> HIDE DEF kept
<1>5. auto' \in KeyLists
  BY <1>2, <1>3, <1>4 DEF KeyLists
<1>6. AllKeys(auto') = kept \cup {NewKey}
  BY <1>2, <1>4 DEF AllKeys
<1>7. \A k \in kept : /\ k \in AllKeys(auto) /\ now - k.created < Lifetime
                      /\ now - k.created >= Rotation /\ k.created \in Nat
  BY <1>3, StaleFacts DEF kept
<1>8. \A k \in AllKeys(auto') : k.created <= now
  BY <1>1, <1>2, <1>6, <1>7, TicketsAssumption
<1>9. KeyListInv'
  <2>1. \A k \in AllKeys(auto') : k.gen = "auto"
    BY <1>2, <1>6, <1>7 DEF KeyListInv
  <2>2. \A k \in auto'.old : /\ auto'.first # NoKey
                             /\ Rotation <= auto'.first.created - k.created
                             /\ auto'.first.created - k.created < Lifetime
    BY <1>1, <1>2, <1>4, <1>7, TicketsAssumption
  <2> QED
    BY <2>1, <2>2 DEF KeyListInv
<1>10. AutoKeysSpaced'
  <2> SUFFICES ASSUME NEW j \in AllKeys(auto'), NEW k \in AllKeys(auto'), j # k
               PROVE  j.created - k.created >= Rotation \/ k.created - j.created >= Rotation
    BY DEF AutoKeysSpaced
  <2>1. CASE j \in kept /\ k \in kept
    BY <1>7, <2>1 DEF AutoKeysSpaced
  <2>2. CASE j = NewKey /\ k \in kept
    BY <1>2, <1>7, <2>2
  <2>3. CASE j \in kept /\ k = NewKey
    BY <1>2, <1>7, <2>3
  <2> QED
    BY <1>6, <2>1, <2>2, <2>3
<1>11. \A k \in AllKeys(auto) : now - k.created < Lifetime => k \in AllKeys(auto')
  BY <1>6 DEF kept
<1>12. \A k \in AllKeys(auto') : now - k.created < Lifetime + Rotation
  BY <1>1, <1>2, <1>6, <1>7, TicketsAssumption
<1>13. auto'.first \in AllKeys(auto') /\ auto'.first.gen = "auto" /\ auto'.first.created = now
  BY <1>2, <1>4, <1>6
<1> QED
  BY <1>5, <1>8, <1>9, <1>10, <1>11, <1>12, <1>13

-----------------------------------------------------------------------------
(* How the parts of the invariant survive a step. *)

(* What is left of TicketsInv once the types and the automatic keys are known. *)
CapturedInv == FirstKeyFresh /\ KeysExpire /\ LiveKeyInv /\ SessionInv

(* A step that changes no keys, no tickets and no captured keys. *)
LEMMA QuietStep ==
    ASSUME TicketsInv, TypeOK', now' = now, auto' = auto, explicit' = explicit,
           tickets' = tickets, CapturesStay
    PROVE  TicketsInv'
<1>1. KeyListInv' /\ AutoKeysSpaced'
  BY DEF TicketsInv, KeyListInv, AutoKeysSpaced
<1>2. FirstKeyFresh' /\ KeysExpire'
  BY DEF TicketsInv, FirstKeyFresh, KeysExpire, CapturesStay
<1>3. LiveKeyInv'
  BY DEF TicketsInv, LiveKeyInv, NoLiveKeyLost, CapturesStay
<1>4. SessionInv'
  BY DEF TicketsInv, SessionInv, CapturesStay
<1> QED
  BY <1>1, <1>2, <1>3, <1>4 DEF TicketsInv

(* A handshake gets keys that it may hold, while live keys stay. *)
LEMMA CaptureStep ==
    ASSUME TicketsInv, now' = now, tickets' = tickets, NEW h \in Handshakes, NEW ks \in KeyLists,
           NEW s, Becomes(h, ks, now, s), s = th[h].session,
           \A k \in AllKeys(ks) : k.gen = "auto" => now - k.created < Lifetime + Rotation,
           ks.first.gen = "auto" =>
               now - ks.first.created < Rotation /\ ks.first \in AllKeys(auto'),
           \A k \in AllKeys(auto) : now - k.created < Lifetime => k \in AllKeys(auto')
    PROVE  CapturedInv'
<1>1. FirstKeyFresh'
  BY DEF TicketsInv, FirstKeyFresh, Becomes
<1>2. KeysExpire'
  BY DEF TicketsInv, KeysExpire, Becomes
<1>3. NoLiveKeyLost'
  BY DEF TicketsInv, LiveKeyInv, NoLiveKeyLost
<1>4. LiveKeyInv'
  BY <1>3 DEF TicketsInv, LiveKeyInv, Becomes
<1>5. SessionInv'
  BY DEF TicketsInv, SessionInv, Becomes
<1> QED
  BY <1>1, <1>2, <1>4, <1>5 DEF CapturedInv

(* A handshake begins or ends, and may leave a ticket behind that it may wrap. *)
LEMMA ResetStep ==
    ASSUME TicketsInv, TypeOK', now' = now, auto' = auto, explicit' = explicit,
           NEW h \in Handshakes, Becomes(h, NoKeys, 0, NoSession),
           \A t \in tickets' \ tickets :
               /\ t.createdAt <= t.born
               /\ t.key = th[h].keys.first
    PROVE  TicketsInv'
<1>1. KeyListInv' /\ AutoKeysSpaced'
  BY DEF TicketsInv, KeyListInv, AutoKeysSpaced
<1>2. NoKeys.first.gen # "auto" /\ AllKeys(NoKeys) = {}
  BY DEF NoKeys, NoKey, AllKeys
<1>3. FirstKeyFresh' /\ KeysExpire'
  BY <1>2 DEF TicketsInv, FirstKeyFresh, KeysExpire, Becomes
<1>4. NoLiveKeyLost'
  BY DEF TicketsInv, LiveKeyInv, NoLiveKeyLost
<1>5. LiveKeyInv'
  BY <1>2, <1>4 DEF TicketsInv, LiveKeyInv, Becomes
<1>6. SessionInv'
  BY DEF TicketsInv, SessionInv, Becomes
<1> QED
  BY <1>1, <1>3, <1>5, <1>6 DEF TicketsInv

(* ticketKeys reads its list: nothing changes but the handshake. *)
LEMMA LookUpStep ==
    ASSUME TicketsInv, NEW h \in Handshakes, LookUpKeys(h), UNCHANGED <<now, begun, configs, tickets>>
    PROVE  TicketsInv'
<1>0. /\ th \in [Handshakes -> Threads] /\ now \in Nat /\ auto \in KeyLists
      /\ th[h].cf \in Configs /\ explicit[th[h].cf] \in KeyLists
  BY DEF TicketsInv, TypeOK, Threads
<1>1. /\ now' = now /\ begun' = begun /\ tickets' = tickets /\ disabled' = disabled
      /\ legacy' = legacy /\ explicit' = explicit /\ auto' = auto /\ generated' = generated
  BY DEF configs
<1>2. ASSUME NEW ks \in KeyLists, Captures(h, ks),
             \A k \in AllKeys(ks) : k.gen = "auto" => now - k.created < Lifetime + Rotation,
             ks.first.gen = "auto" =>
                 now - ks.first.created < Rotation /\ ks.first \in AllKeys(auto)
      PROVE  TicketsInv'
  <2>1. th' \in [Handshakes -> Threads] /\ Becomes(h, ks, now, th[h].session)
    BY <1>0, <1>2, CapturesFacts
  <2>2. TypeOK'
    BY <1>1, <2>1 DEF TicketsInv, TypeOK
  <2>3. CapturedInv'
    BY <1>1, <1>2, <2>1, CaptureStep
  <2>4. KeyListInv' /\ AutoKeysSpaced'
    BY <1>1 DEF TicketsInv, KeyListInv, AutoKeysSpaced
  <2> QED
    BY <2>2, <2>3, <2>4 DEF TicketsInv, CapturedInv
<1>3. ASSUME th' \in [Handshakes -> Threads], CapturesStay PROVE TicketsInv'
  <2>1. TypeOK'
    BY <1>1, <1>3 DEF TicketsInv, TypeOK
  <2> QED
    BY <1>1, <1>3, <2>1, QuietStep
<1>4. CASE Captures(h, explicit[th[h].cf])
  <2>1. \A k \in AllKeys(explicit[th[h].cf]) : k.gen # "auto"
    BY <1>0 DEF TicketsInv, KeyListInv
  <2> QED
    BY <1>0, <1>2, <1>4, <2>1, KeyTypes
<1>5. CASE th' = [th EXCEPT ![h].pc = "rlock", ![h].cf = "main"]
  BY <1>0, <1>3, <1>5, NextConfigFacts
<1>6. CASE Fresh(auto) /\ Captures(h, auto)
  BY <1>0, <1>2, <1>6, FreshFacts DEF TicketsInv
<1>7. CASE Goto(h, "rotate")
  BY <1>0, <1>3, <1>7, GotoFacts DEF Goto, Labels
<1> QED
  BY <1>4, <1>5, <1>6, <1>7 DEF LookUpKeys

(* The explicit keys of a Config change; automatic and captured ones do not. *)
LEMMA ExplicitStep ==
    ASSUME TicketsInv, TypeOK', now' = now, auto' = auto, tickets' = tickets, CapturesStay,
           \A cf \in Configs : \A k \in AllKeys(explicit'[cf]) : k.gen # "auto"
    PROVE  TicketsInv'
<1>1. KeyListInv' /\ AutoKeysSpaced'
  BY DEF TicketsInv, KeyListInv, AutoKeysSpaced
<1>2. FirstKeyFresh' /\ KeysExpire'
  BY DEF TicketsInv, FirstKeyFresh, KeysExpire, CapturesStay
<1>3. LiveKeyInv'
  BY DEF TicketsInv, LiveKeyInv, NoLiveKeyLost, CapturesStay
<1>4. SessionInv'
  BY DEF TicketsInv, SessionInv, CapturesStay
<1> QED
  BY <1>1, <1>2, <1>3, <1>4 DEF TicketsInv

(* The two exclusive sections of ticketKeys. *)
LEMMA InitLegacyStep ==
    ASSUME TicketsInv, NEW h \in Handshakes, InitLegacy(h)
    PROVE  TicketsInv'
<1>0. /\ th \in [Handshakes -> Threads] /\ th[h].cf \in Configs
      /\ explicit \in [Configs -> KeyLists] /\ now \in Nat
      /\ legacy \in [Configs -> {"empty", "deprecated", "user"}]
  BY DEF TicketsInv, TypeOK, Threads
<1>1. th' \in [Handshakes -> Threads] /\ CapturesStay
  BY <1>0, GotoFacts DEF InitLegacy, Goto, Labels
<1>2. LegacyKey \in KeyLists /\ \A k \in AllKeys(LegacyKey) : k.gen # "auto"
  BY DEF LegacyKey, KeyLists, Keys, AllKeys, NoKey
<1>3. \/ explicit' = explicit
      \/ explicit' = [explicit EXCEPT ![th[h].cf] = LegacyKey]
  BY DEF InitLegacy
<1>4. legacy' = legacy \/ legacy' = [legacy EXCEPT ![th[h].cf] = "deprecated"]
  BY DEF InitLegacy
<1>5. explicit' \in [Configs -> KeyLists]
  BY <1>0, <1>2, <1>3
<1>6. legacy' \in [Configs -> {"empty", "deprecated", "user"}]
  BY <1>0, <1>4
<1>7. \A cf \in Configs : explicit'[cf] = explicit[cf] \/ explicit'[cf] = LegacyKey
  BY <1>0, <1>3
<1>8. \A cf \in Configs : \A k \in AllKeys(explicit'[cf]) : k.gen # "auto"
  BY <1>2, <1>7 DEF TicketsInv, KeyListInv
<1>9. TypeOK'
  BY <1>1, <1>5, <1>6 DEF InitLegacy, TicketsInv, TypeOK
<1> QED
  BY <1>1, <1>8, <1>9, ExplicitStep DEF InitLegacy

LEMMA RotateStep ==
    ASSUME TicketsInv, NEW h \in Handshakes, Rotate(h)
    PROVE  TicketsInv'
<1>0. /\ th \in [Handshakes -> Threads] /\ now \in Nat /\ auto \in KeyLists /\ generated \in Nat
      /\ TypeOK /\ KeyListInv /\ AutoKeysSpaced
  BY DEF TicketsInv, TypeOK
<1>1. /\ now' = now /\ begun' = begun /\ disabled' = disabled /\ legacy' = legacy
      /\ explicit' = explicit /\ tickets' = tickets /\ Captures(h, auto')
  BY DEF Rotate
<1>2. CASE Fresh(auto) /\ auto' = auto /\ generated' = generated
  <2>1. th' \in [Handshakes -> Threads] /\ Becomes(h, auto, now, th[h].session)
    BY <1>0, <1>1, <1>2, CapturesFacts
  <2>2. TypeOK' /\ KeyListInv' /\ AutoKeysSpaced'
    BY <1>0, <1>1, <1>2, <2>1 DEF TypeOK, KeyListInv, AutoKeysSpaced
  <2>3. CapturedInv'
    BY <1>0, <1>1, <1>2, <2>1, FreshFacts, CaptureStep
  <2> QED
    BY <2>2, <2>3 DEF TicketsInv, CapturedInv
<1>3. CASE ~Fresh(auto) /\ auto' = Rotated(auto) /\ generated' = generated + 1
  <2>1. /\ auto' \in KeyLists /\ \A k \in AllKeys(auto') : k.created <= now
        /\ KeyListInv' /\ AutoKeysSpaced'
        /\ auto'.first \in AllKeys(auto') /\ auto'.first.gen = "auto" /\ auto'.first.created = now
        /\ \A k \in AllKeys(auto) : now - k.created < Lifetime => k \in AllKeys(auto')
        /\ \A k \in AllKeys(auto') : now - k.created < Lifetime + Rotation
    BY <1>0, <1>1, <1>3, RotatedFacts
  <2>2. th' \in [Handshakes -> Threads] /\ Becomes(h, auto', now, th[h].session)
    BY <1>0, <1>1, <2>1, CapturesFacts
  <2>3. TypeOK'
    BY <1>0, <1>1, <1>3, <2>1, <2>2 DEF TypeOK
  <2>4. now - auto'.first.created < Rotation
    BY <1>0, <2>1, TicketsAssumption
  <2>5. CapturedInv'
    BY <1>0, <1>1, <2>1, <2>2, <2>4, CaptureStep
  <2> QED
    BY <2>1, <2>3, <2>5 DEF TicketsInv, CapturedInv
<1> QED
  BY <1>2, <1>3 DEF Rotate

(* The steps that use the keys. *)
LEMMA CheckForResumptionStep ==
    ASSUME TicketsInv, NEW h \in Handshakes, NEW v \in {12, 13}, CheckForResumption(h, v)
    PROVE  TicketsInv'
<1>0. th \in [Handshakes -> Threads] /\ tickets \subseteq Sessions
  BY DEF TicketsInv, TypeOK
<1>1. /\ now' = now /\ begun' = begun /\ tickets' = tickets /\ disabled' = disabled
      /\ legacy' = legacy /\ explicit' = explicit /\ auto' = auto /\ generated' = generated
  BY DEF CheckForResumption, configs
<1>2. CASE th' = [th EXCEPT ![h].pc = "session", ![h].vers = v]
  <2>1. th' \in [Handshakes -> Threads] /\ CapturesStay
    BY <1>0, <1>2, FullFacts
  <2>2. TypeOK'
    BY <1>1, <2>1 DEF TicketsInv, TypeOK
  <2> QED
    BY <1>1, <2>1, <2>2, QuietStep
<1>3. ASSUME NEW t \in tickets,
             th' = [th EXCEPT ![h].pc = "session", ![h].vers = v, ![h].session = t]
      PROVE  TicketsInv'
  <2>1. th' \in [Handshakes -> Threads] /\ Becomes(h, th[h].keys, th[h].at, t)
    BY <1>0, <1>3, ResumeFacts
  <2>2. TypeOK'
    BY <1>1, <2>1 DEF TicketsInv, TypeOK
  <2>3. KeyListInv' /\ AutoKeysSpaced'
    BY <1>1 DEF TicketsInv, KeyListInv, AutoKeysSpaced
  <2>4. FirstKeyFresh' /\ KeysExpire'
    BY <2>1 DEF TicketsInv, FirstKeyFresh, KeysExpire, Becomes
  <2>5. LiveKeyInv'
    BY <1>1, <2>1 DEF TicketsInv, LiveKeyInv, NoLiveKeyLost, Becomes
  <2>6. SessionInv'
    BY <1>1, <2>1 DEF TicketsInv, SessionInv, Becomes
  <2> QED
    BY <2>2, <2>3, <2>4, <2>5, <2>6 DEF TicketsInv
<1> QED
  BY <1>2, <1>3 DEF CheckForResumption

LEMMA SendSessionTicketStep ==
    ASSUME TicketsInv, NEW h \in Handshakes, SendSessionTicket(h)
    PROVE  TicketsInv'
<1>0. /\ th \in [Handshakes -> Threads] /\ tickets \subseteq Sessions /\ th[h] \in Threads
      /\ now \in Nat
  BY DEF TicketsInv, TypeOK
<1>1. /\ now' = now /\ begun' = begun /\ disabled' = disabled
      /\ legacy' = legacy /\ explicit' = explicit /\ auto' = auto /\ generated' = generated
  BY DEF SendSessionTicket, configs
<1>2. th' \in [Handshakes -> Threads] /\ Becomes(h, NoKeys, 0, NoSession)
  BY <1>0, IdleFacts, ResetFacts DEF SendSessionTicket
<1>3. CASE tickets' = tickets
  <2>1. TypeOK'
    BY <1>1, <1>2, <1>3 DEF TicketsInv, TypeOK
  <2> QED
    BY <1>1, <1>2, <1>3, <2>1, ResetStep
<1>4. CASE th[h].keys.first # NoKey /\ tickets' = tickets \cup {Wraps(h)}
  <2>1. th[h].keys \in KeyLists /\ th[h].vers \in {12, 13} /\ th[h].session \in Sessions \cup {NoSession}
    BY <1>0 DEF Threads
  <2>2. /\ Wraps(h).key = th[h].keys.first /\ Wraps(h).vers = th[h].vers
        /\ \/ Wraps(h).createdAt = now /\ Wraps(h).born = now
           \/ /\ th[h].session # NoSession
              /\ Wraps(h).createdAt = th[h].session.createdAt /\ Wraps(h).born = th[h].session.born
    BY DEF Wraps
  <2>3. Wraps(h).createdAt <= Wraps(h).born
    BY <1>0, <2>2 DEF TicketsInv, SessionInv
  <2>4. th[h].keys.first \in Keys
    BY <1>4, <2>1 DEF KeyLists
  <2>5. Wraps(h) \in Sessions
    BY <1>0, <2>1, <2>4 DEF Wraps, Sessions
  <2>6. TypeOK'
    BY <1>0, <1>1, <1>2, <1>4, <2>5 DEF TicketsInv, TypeOK
  <2> QED
    BY <1>1, <1>2, <1>4, <2>2, <2>3, <2>6, ResetStep
<1> QED
  BY <1>3, <1>4 DEF SendSessionTicket

-----------------------------------------------------------------------------
(* The invariant is inductive. *)

(* It holds at first. *)
LEMMA InitInv == Init => TicketsInv
<1> SUFFICES ASSUME Init PROVE TicketsInv
  OBVIOUS
<1>1. NoKeys \in KeyLists /\ AllKeys(NoKeys) = {} /\ NoKeys.old = {} /\ NoKeys.first.gen # "auto"
  BY DEF NoKeys, KeyLists, AllKeys, NoKey
<1>2. th \in [Handshakes -> Threads] /\ \A h \in Handshakes : th[h] = Idle
  BY IdleFacts DEF Init
<1>3. /\ disabled \in [Configs -> BOOLEAN]
      /\ legacy \in [Configs -> {"empty", "deprecated", "user"}]
  BY TicketsAssumption DEF Init, Configs
<1>4. TypeOK
  BY <1>1, <1>2, <1>3 DEF Init, TypeOK
<1>5. KeyListInv /\ AutoKeysSpaced
  BY <1>1 DEF Init, KeyListInv, AutoKeysSpaced
<1>6. FirstKeyFresh /\ KeysExpire
  BY <1>1, <1>2, IdleFacts DEF FirstKeyFresh, KeysExpire
<1>7. LiveKeyInv /\ SessionInv
  BY <1>1, <1>2, IdleFacts DEF Init, LiveKeyInv, NoLiveKeyLost, SessionInv
<1> QED
  BY <1>4, <1>5, <1>6, <1>7 DEF TicketsInv

(* A step of a handshake keeps it. *)
LEMMA HandshakeStep ==
    ASSUME TicketsInv, NEW h \in Handshakes, Handshake(h)
    PROVE  TicketsInv'
<1>0. th \in [Handshakes -> Threads] /\ now \in Nat
  BY DEF TicketsInv, TypeOK
<1>1. ASSUME NEW config \in Configs, ClientHello(h, config) PROVE TicketsInv'
  <2>1. th' \in [Handshakes -> Threads] /\ Becomes(h, NoKeys, 0, NoSession)
    BY <1>0, <1>1, IdleFacts, ResetFacts DEF ClientHello
  <2>2. /\ now' = now /\ begun' = begun + 1 /\ tickets' = tickets /\ disabled' = disabled
        /\ legacy' = legacy /\ explicit' = explicit /\ auto' = auto /\ generated' = generated
    BY <1>1 DEF ClientHello, configs
  <2>3. TypeOK'
    BY <2>1, <2>2 DEF TicketsInv, TypeOK
  <2> QED
    BY <2>1, <2>2, <2>3, ResetStep
<1>2. CASE RLock(h)
  <2>1. /\ now' = now /\ begun' = begun /\ tickets' = tickets /\ disabled' = disabled
        /\ legacy' = legacy /\ explicit' = explicit /\ auto' = auto /\ generated' = generated
    BY <1>2 DEF RLock, configs
  <2>2. CASE Captures(h, NoKeys)
    <3>1. NoKeys \in KeyLists /\ AllKeys(NoKeys) = {} /\ NoKeys.first.gen # "auto"
      BY DEF NoKeys, KeyLists, AllKeys, NoKey
    <3>2. th' \in [Handshakes -> Threads] /\ Becomes(h, NoKeys, now, th[h].session)
      BY <1>0, <2>2, <3>1, CapturesFacts
    <3>3. TypeOK' /\ KeyListInv' /\ AutoKeysSpaced'
      BY <2>1, <3>2 DEF TicketsInv, TypeOK, KeyListInv, AutoKeysSpaced
    <3>4. CapturedInv'
      BY <2>1, <3>1, <3>2, CaptureStep
    <3> QED
      BY <3>3, <3>4 DEF TicketsInv, CapturedInv
  <2>3. CASE Goto(h, "legacy")
    <3>1. th' \in [Handshakes -> Threads] /\ CapturesStay
      BY <1>0, <2>3, GotoFacts DEF Goto, Labels
    <3>2. TypeOK'
      BY <2>1, <3>1 DEF TicketsInv, TypeOK
    <3> QED
      BY <2>1, <3>1, <3>2, QuietStep
  <2>4. CASE LookUpKeys(h)
    BY <1>2, <2>4, LookUpStep DEF RLock
  <2> QED
    BY <1>2, <2>2, <2>3, <2>4 DEF RLock
<1>3. CASE InitLegacy(h)
  BY <1>3, InitLegacyStep
<1>4. CASE LookUp(h)
  BY <1>4, LookUpStep DEF LookUp
<1>5. CASE Rotate(h)
  BY <1>5, RotateStep
<1>6. ASSUME NEW v \in {12, 13}, CheckForResumption(h, v) PROVE TicketsInv'
  BY <1>6, CheckForResumptionStep
<1>7. CASE SendSessionTicket(h)
  BY <1>7, SendSessionTicketStep
<1> QED
  BY <1>1, <1>2, <1>3, <1>4, <1>5, <1>6, <1>7 DEF Handshake

(* So do the application and the clock. *)
LEMMA SetSessionTicketKeysStep ==
    ASSUME TicketsInv, NEW cf \in Configs, NEW ks \in AppKeys, SetSessionTicketKeys(cf, ks)
    PROVE  TicketsInv'
<1> DEFINE key(i) == [gen |-> "app", n |-> i, created |-> 0]
           new == [first |-> key(ks.first), old |-> {key(i) : i \in ks.old}]
<1>1. ks.first \in Nat /\ ks.old \subseteq Nat
  BY TicketsAssumption
<1>2. \A i \in Nat : key(i) \in Keys /\ key(i).gen = "app" /\ key(i) # NoKey
  BY DEF Keys, NoKey
<1>3. explicit \in [Configs -> KeyLists]
  BY DEF TicketsInv, TypeOK
<1>4. explicit' = [explicit EXCEPT ![cf] = new]
  BY DEF SetSessionTicketKeys
<1> HIDE DEF key
<1>5. new \in KeyLists /\ \A k \in AllKeys(new) : k.gen = "app"
  BY <1>1, <1>2 DEF KeyLists, AllKeys
<1> HIDE DEF new
<1>6. explicit' \in [Configs -> KeyLists]
  BY <1>3, <1>4, <1>5
<1>7. \A c \in Configs : explicit'[c] = explicit[c] \/ explicit'[c] = new
  BY <1>3, <1>4
<1>8. \A c \in Configs : \A k \in AllKeys(explicit'[c]) : k.gen # "auto"
  BY <1>5, <1>7 DEF TicketsInv, KeyListInv
<1>9. TypeOK'
  BY <1>6 DEF SetSessionTicketKeys, TicketsInv, TypeOK
<1> QED
  BY <1>8, <1>9, ExplicitStep DEF SetSessionTicketKeys, CapturesStay

LEMMA CloneStep == TicketsInv /\ Clone => TicketsInv'
<1> SUFFICES ASSUME TicketsInv, Clone PROVE TicketsInv'
  OBVIOUS
<1>1. "main" \in Configs /\ "client" \in Configs
  BY DEF Configs
<1>2. /\ disabled \in [Configs -> BOOLEAN] /\ explicit \in [Configs -> KeyLists]
      /\ legacy \in [Configs -> {"empty", "deprecated", "user"}]
  BY DEF TicketsInv, TypeOK
<1>3. /\ explicit' \in [Configs -> KeyLists]
      /\ legacy' \in [Configs -> {"empty", "deprecated", "user"}]
  BY <1>1, <1>2 DEF Clone
<1>4. disabled' \in [Configs -> BOOLEAN]
  BY <1>1, <1>2 DEF Clone
<1>5. \A c \in Configs : explicit'[c] = explicit[c] \/ explicit'[c] = explicit["main"]
  BY <1>1, <1>2 DEF Clone
<1>6. \A c \in Configs : \A k \in AllKeys(explicit'[c]) : k.gen # "auto"
  BY <1>1, <1>5 DEF TicketsInv, KeyListInv
<1>7. TypeOK'
  BY <1>3, <1>4 DEF Clone, TicketsInv, TypeOK
<1> QED
  BY <1>6, <1>7, ExplicitStep DEF Clone, CapturesStay

LEMMA TickStep == TicketsInv /\ Tick => TicketsInv'
<1> SUFFICES ASSUME TicketsInv, Tick PROVE TicketsInv'
  OBVIOUS
<1>1. /\ now \in Nat /\ now' = now + 1 /\ begun' = begun /\ th' = th /\ tickets' = tickets
      /\ disabled' = disabled /\ legacy' = legacy /\ explicit' = explicit /\ auto' = auto
      /\ generated' = generated
  BY DEF Tick, configs, TicketsInv, TypeOK
<1>2. \A k \in AllKeys(auto) : k.created \in Nat /\ k.created <= now'
  BY <1>1, KeyTypes DEF TicketsInv, TypeOK
<1>3. TypeOK'
  BY <1>1, <1>2 DEF TicketsInv, TypeOK
<1>4. KeyListInv' /\ AutoKeysSpaced' /\ FirstKeyFresh' /\ KeysExpire' /\ SessionInv'
  BY <1>1 DEF TicketsInv, KeyListInv, AutoKeysSpaced, FirstKeyFresh, KeysExpire, SessionInv
<1>5. \A t \in tickets : t.key.created \in Nat
  BY DEF TicketsInv, TypeOK, Sessions, Keys
<1>6. NoLiveKeyLost'
  BY <1>1, <1>5, TicketsAssumption DEF TicketsInv, LiveKeyInv, NoLiveKeyLost
<1>7. ASSUME NEW h \in Handshakes, th[h].keys.first.gen = "auto" PROVE th[h].keys.first.created \in Nat
  <2>1. th[h].keys \in KeyLists
    BY DEF TicketsInv, TypeOK, Threads
  <2> QED
    BY <1>7, <2>1, KeyTypes
<1>8. LiveKeyInv'
  BY <1>1, <1>6, <1>7, TicketsAssumption DEF TicketsInv, LiveKeyInv
<1> QED
  BY <1>3, <1>4, <1>8 DEF TicketsInv

(* Together: every step of the specification keeps it. *)
LEMMA NextInv == TicketsInv /\ [Next]_vars => TicketsInv'
<1> SUFFICES ASSUME TicketsInv, [Next]_vars PROVE TicketsInv'
  OBVIOUS
<1>1. ASSUME NEW h \in Handshakes, Handshake(h) PROVE TicketsInv'
  BY <1>1, HandshakeStep
<1>2. ASSUME NEW cf \in Configs, NEW ks \in AppKeys, SetSessionTicketKeys(cf, ks) PROVE TicketsInv'
  BY <1>2, SetSessionTicketKeysStep
<1>3. CASE Clone
  BY <1>3, CloneStep
<1>4. CASE Tick
  BY <1>4, TickStep
<1>5. CASE UNCHANGED vars
  <2>1. TypeOK'
    BY <1>5 DEF vars, configs, TicketsInv, TypeOK
  <2> QED
    BY <1>5, <2>1, QuietStep DEF vars, configs, CapturesStay
<1> QED
  BY <1>1, <1>2, <1>3, <1>4, <1>5 DEF Next

-----------------------------------------------------------------------------
(* Theorems. *)

(* The inductive invariant of the ticket keys holds always. *)
THEOREM TicketsInvariant == Spec => []TicketsInv
<1>1. Init => TicketsInv
  BY InitInv
<1>2. TicketsInv /\ [Next]_vars => TicketsInv'
  BY NextInv
<1> QED
  BY <1>1, <1>2, PTL DEF Spec

(* New tickets are always wrapped with a key that was younger than             *)
(* ticketKeyRotation when ticketKeys returned it.                              *)
THEOREM TicketsUseFreshKeys == Spec => []FirstKeyFresh
<1>1. TicketsInv => FirstKeyFresh
  BY DEF TicketsInv
<1> QED
  BY <1>1, TicketsInvariant, PTL

(* However many handshakes find the first key stale at once, they rotate once. *)
THEOREM RotatesOnce == Spec => []AutoKeysSpaced
<1>1. TicketsInv => AutoKeysSpaced
  BY DEF TicketsInv
<1> QED
  BY <1>1, TicketsInvariant, PTL

(* No automatic key outlives ticketKeyLifetime + ticketKeyRotation. *)
THEOREM KeysDoExpire == Spec => []KeysExpire
<1>1. TicketsInv => KeysExpire
  BY DEF TicketsInv
<1> QED
  BY <1>1, TicketsInvariant, PTL

(* No key is lost before it expires while a ticket depends on it. *)
THEOREM LiveKeysStay == Spec => []NoLiveKeyLost
<1>1. TicketsInv => NoLiveKeyLost
  BY DEF TicketsInv, LiveKeyInv
<1> QED
  BY <1>1, TicketsInvariant, PTL

(* Only checkForResumption gives a handshake a session. *)
LEMMA SessionSource ==
    ASSUME TicketsInv, [Next]_vars, NEW i \in Handshakes,
           th[i].session = NoSession, th'[i].session # NoSession
    PROVE  th'[i].session \in tickets /\ now - th'[i].session.createdAt <= Lifetime
<1>0. th \in [Handshakes -> Threads] /\ now \in Nat /\ tickets \subseteq Sessions
  BY DEF TicketsInv, TypeOK
<1>1. ASSUME NEW h \in Handshakes, Becomes(h, NoKeys, 0, NoSession) PROVE FALSE
  BY <1>1 DEF Becomes
<1>2. ASSUME CapturesStay PROVE FALSE
  BY <1>2 DEF CapturesStay
<1>3. ASSUME NEW h \in Handshakes, NEW ks, Captures(h, ks) PROVE FALSE
  <2>1. th'[i].session = th[i].session
    BY <1>0, <1>3 DEF Captures, Threads
  <2> QED
    BY <2>1
<1>4. ASSUME NEW h \in Handshakes, NEW l \in Labels, Goto(h, l) PROVE FALSE
  BY <1>0, <1>2, <1>4, GotoFacts DEF Goto
<1>5. ASSUME NEW h \in Handshakes, LookUpKeys(h) PROVE FALSE
  BY <1>0, <1>2, <1>3, <1>4, <1>5, NextConfigFacts DEF LookUpKeys, Labels
<1>6. ASSUME NEW h \in Handshakes, NEW config \in Configs, ClientHello(h, config) PROVE FALSE
  BY <1>0, <1>1, <1>6, IdleFacts, ResetFacts DEF ClientHello
<1>7. ASSUME NEW h \in Handshakes, SendSessionTicket(h) PROVE FALSE
  BY <1>0, <1>1, <1>7, IdleFacts, ResetFacts DEF SendSessionTicket
<1>8. ASSUME NEW h \in Handshakes, RLock(h) \/ InitLegacy(h) \/ LookUp(h) \/ Rotate(h) PROVE FALSE
  BY <1>3, <1>4, <1>5, <1>8 DEF RLock, InitLegacy, LookUp, Rotate, Labels
<1>9. ASSUME NEW cf \in Configs, NEW ks \in AppKeys, SetSessionTicketKeys(cf, ks) PROVE FALSE
  BY <1>9 DEF SetSessionTicketKeys
<1>10. ASSUME Clone \/ Tick \/ UNCHANGED vars PROVE FALSE
  BY <1>10 DEF Clone, Tick, vars
<1>11. ASSUME NEW h \in Handshakes, NEW v \in {12, 13}, CheckForResumption(h, v)
       PROVE  th'[i].session \in tickets /\ now - th'[i].session.createdAt <= Lifetime
  <2>1. CASE th' = [th EXCEPT ![h].pc = "session", ![h].vers = v]
    BY <1>0, <1>2, <2>1, FullFacts
  <2>2. ASSUME NEW t \in tickets, now - t.createdAt <= Lifetime,
               th' = [th EXCEPT ![h].pc = "session", ![h].vers = v, ![h].session = t]
        PROVE  th'[i].session \in tickets /\ now - th'[i].session.createdAt <= Lifetime
    <3>1. Becomes(h, th[h].keys, th[h].at, t)
      BY <1>0, <2>2, ResumeFacts
    <3> QED
      BY <2>2, <3>1 DEF Becomes
  <2> QED
    BY <1>11, <2>1, <2>2 DEF CheckForResumption
<1> QED
  BY <1>6, <1>7, <1>8, <1>9, <1>10, <1>11 DEF Next, Handshake

(* No master secret is resumed for longer than maxSessionTicketLifetime. *)
THEOREM SecretsDoExpire == Spec => SecretsExpire
<1> DEFINE Bounded == \A h \in Handshakes :
                         th[h].session = NoSession /\ th'[h].session # NoSession
                             => now - th'[h].session.born <= Lifetime
<1>1. ASSUME TicketsInv, [Next]_vars PROVE Bounded
  <2> SUFFICES ASSUME NEW h \in Handshakes,
                      th[h].session = NoSession, th'[h].session # NoSession
               PROVE  now - th'[h].session.born <= Lifetime
    OBVIOUS
  <2>1. th'[h].session \in tickets /\ now - th'[h].session.createdAt <= Lifetime
    BY <1>1, SessionSource
  <2>2. th'[h].session.createdAt <= th'[h].session.born
    BY <1>1, <2>1 DEF TicketsInv, SessionInv
  <2>3. th'[h].session.createdAt \in Nat /\ th'[h].session.born \in Nat /\ now \in Nat
    BY <1>1, <2>1 DEF TicketsInv, TypeOK, Sessions
  <2> QED
    BY <2>1, <2>2, <2>3, TicketsAssumption
<1>2. TicketsInv /\ [Next]_vars => [Bounded]_vars
  BY <1>1
<1>3. SecretsExpire <=> [][Bounded]_vars
  BY DEF SecretsExpire
<1> QED
  BY <1>2, <1>3, TicketsInvariant, PTL DEF Spec

(* Type correctness; no automatic key is dated in the future. *)
THEOREM TypeCorrect == Spec => []TypeOK
<1>1. TicketsInv => TypeOK
  BY DEF TicketsInv
<1> QED
  BY <1>1, TicketsInvariant, PTL

(* SetSessionTicketKeys and the lazy initialisation of SessionTicketKey are    *)
(* the only writers of sessionTicketKeys, and the second, which looks again    *)
(* under the exclusive lock, never overwrites the first.                       *)
THEOREM AppKeysDoPrevail == Spec => AppKeysPrevail
<1> DEFINE Prevail == explicit["main"].first.gen = "app" => explicit'["main"].first.gen = "app"
<1>1. ASSUME TicketsInv, [Next]_vars PROVE Prevail
  <2> SUFFICES ASSUME explicit["main"].first.gen = "app"
               PROVE  explicit'["main"].first.gen = "app"
    OBVIOUS
  <2>0. explicit \in [Configs -> KeyLists] /\ "main" \in Configs
    BY <1>1 DEF TicketsInv, TypeOK, Configs
  <2>1. CASE explicit' = explicit
    BY <2>1
  <2>2. ASSUME NEW h \in Handshakes, InitLegacy(h) PROVE explicit'["main"].first.gen = "app"
    <3>1. explicit["main"] # NoKeys
      BY DEF NoKeys, NoKey
    <3>2. explicit'["main"] = explicit["main"]
      BY <2>0, <2>2, <3>1 DEF InitLegacy
    <3> QED
      BY <3>2
  <2>3. ASSUME NEW h \in Handshakes, Handshake(h), ~InitLegacy(h) PROVE explicit' = explicit
    BY <2>3 DEF Handshake, ClientHello, RLock, LookUp, Rotate, CheckForResumption, SendSessionTicket, configs
  <2>4. ASSUME NEW cf \in Configs, NEW ks \in AppKeys, SetSessionTicketKeys(cf, ks)
        PROVE  explicit'["main"].first.gen = "app"
    <3> DEFINE new == [first |-> [gen |-> "app", n |-> ks.first, created |-> 0],
                       old |-> {[gen |-> "app", n |-> i, created |-> 0] : i \in ks.old}]
    <3>1. explicit' = [explicit EXCEPT ![cf] = new] /\ new.first.gen = "app"
      BY <2>4 DEF SetSessionTicketKeys
    <3> HIDE DEF new
    <3>2. explicit'["main"] = explicit["main"] \/ explicit'["main"] = new
      BY <2>0, <3>1
    <3> QED
      BY <3>1, <3>2
  <2>5. CASE Clone
    BY <2>0, <2>5 DEF Clone
  <2>6. CASE Tick \/ UNCHANGED vars
    BY <2>1, <2>6 DEF Tick, vars, configs
  <2> QED
    BY <1>1, <2>1, <2>2, <2>3, <2>4, <2>5, <2>6 DEF Next
<1>2. TicketsInv /\ [Next]_vars => [Prevail]_vars
  BY <1>1
<1>3. AppKeysPrevail <=> [][Prevail]_vars
  BY DEF AppKeysPrevail
<1> QED
  BY <1>2, <1>3, TicketsInvariant, PTL DEF Spec

=============================================================================
