------------------------------ MODULE Tickets ------------------------------
(***************************************************************************)
(* The session tickets of a server: the ticket keys that all connections   *)
(* of a Config share (Config.ticketKeys in common.go, with its two lock    *)
(* upgrades and its automatic rotation, SetSessionTicketKeys and Clone),   *)
(* and the handshakes that capture those keys at the ClientHello, resume a *)
(* session with any of them and wrap a new ticket with the first           *)
(* (handshake_server.go, handshake_server_tls13.go, ticket.go).            *)
(*                                                                         *)
(* Two Configs exist: "main", given to Server, and "client", the one that  *)
(* GetConfigForClient may return.  A step is one critical section of       *)
(* Config.mutex.  Of a list of keys only the first and the set of the      *)
(* others matter; time counts in arbitrary units.                          *)
(***************************************************************************)
EXTENDS Integers

CONSTANTS Handshakes,  \* server handshakes that run concurrently
          Rotation,    \* ticketKeyRotation
          Lifetime,    \* ticketKeyLifetime and maxSessionTicketLifetime
          Setups,      \* how the application set the two Configs up: [disabled, legacy]
          AppKeys,     \* the arguments of SetSessionTicketKeys: lists of key numbers
          MaxTime,     \* bound: the clock stops here
          MaxHandshakes \* bound: handshakes begun

ASSUME TicketsAssumption ==
    /\ Rotation \in Nat \ {0} /\ Lifetime \in Nat /\ Rotation <= Lifetime
    /\ Setups \subseteq [disabled : [{"main", "client"} -> BOOLEAN],
                         legacy : [{"main", "client"} -> {"empty", "user"}]]
    /\ AppKeys \subseteq [first : Nat, old : SUBSET Nat]
    /\ MaxTime \in Nat /\ MaxHandshakes \in Nat

VARIABLES
    now,         \* Config.time
    begun,       \* handshakes begun
    disabled,    \* config -> SessionTicketsDisabled
    legacy,      \* config -> SessionTicketKey: "empty", "deprecated" (randomised), "user"
    explicit,    \* config -> sessionTicketKeys
    auto,        \* autoSessionTicketKeys of "main"; ticketKeys reads no other
    generated,   \* keys that c.rand has produced
    th,          \* handshake -> place in the code, Config read, Config in use, version,
                 \* c.ticketKeys and when ticketKeys returned them, the session resumed
    tickets      \* tickets sent to clients

configs == <<disabled, legacy, explicit, auto, generated>>
vars    == <<now, begun, configs, th, tickets>>

Configs  == {"main", "client"}
Keys     == [gen : {"auto", "legacy", "app"}, n : Nat, created : Nat]
(* created is of use in automatic keys only: explicit ones do not expire. *)
NoKey    == [gen |-> "none"]
KeyLists == [first : Keys \cup {NoKey}, old : SUBSET Keys]
AllKeys(ks) == ks.old \cup ({ks.first} \ {NoKey})
NoKeys   == [first |-> NoKey, old |-> {}]
Sessions == [key : Keys, createdAt : Nat, born : Nat, vers : {12, 13}]
NoSession == [vers |-> 0]
Labels   == {"idle", "rlock", "legacy", "lookup", "rotate", "hello", "session"}
Threads  == [pc : Labels, cf : Configs, config : Configs, vers : {12, 13}, keys : KeyLists,
             at : Nat, session : Sessions \cup {NoSession}]
Idle     == [pc |-> "idle", cf |-> "main", config |-> "main", vers |-> 13, keys |-> NoKeys,
             at |-> 0, session |-> NoSession]

(* The variables keep their types, and every key was created in the past. *)
TypeOK ==
    /\ now \in Nat /\ begun \in Nat
    /\ disabled \in [Configs -> BOOLEAN]
    /\ legacy \in [Configs -> {"empty", "deprecated", "user"}]
    /\ explicit \in [Configs -> KeyLists]
    /\ auto \in KeyLists /\ \A k \in AllKeys(auto) : k.created <= now
    /\ generated \in Nat
    /\ th \in [Handshakes -> Threads]
    /\ tickets \subseteq Sessions

Init ==
    /\ now = 0 /\ begun = 0
    /\ \E s \in Setups : disabled = s.disabled /\ legacy = s.legacy
    /\ explicit = [cf \in Configs |-> NoKeys]
    /\ auto = NoKeys
    /\ generated = 0
    /\ th = [h \in Handshakes |-> Idle]
    /\ tickets = {}

-----------------------------------------------------------------------------
(* Config.ticketKeys. *)

At(h, label)   == th[h].pc = label
Goto(h, label) == th' = [th EXCEPT ![h].pc = label]

(* ticketKeys returns ks, which readClientHello keeps in c.ticketKeys. *)
Captures(h, ks) == th' = [th EXCEPT ![h].pc = "hello", ![h].keys = ks, ![h].at = now]

(* Mutant: the first key wraps tickets as long as it may open them. *)
FreshForLife(ks) == ks # NoKeys /\ now - ks.first.created < Lifetime

(* The first key is young enough to wrap tickets. *)
Fresh(ks) == ks # NoKeys /\ now - ks.first.created < Rotation

(* readClientHello: GetConfigForClient returned the Config in use, then        *)
(* ticketKeys starts with it, or with the original one.  The version is        *)
(* negotiated behind it.                                                       *)
ClientHello(h, config) ==
    /\ At(h, "idle") /\ begun < MaxHandshakes /\ begun' = begun + 1
    /\ th' = [th EXCEPT ![h] = [Idle EXCEPT !.pc = "rlock", !.cf = config, !.config = config]]
    /\ UNCHANGED <<now, configs, tickets>>

(* The keys of Config th[h].cf, once its legacy key has been looked at: the    *)
(* explicit ones, or those of the original Config, or the automatic ones.      *)
LookUpKeys(h) ==
    LET cf == th[h].cf IN
    \/ explicit[cf] # NoKeys /\ Captures(h, explicit[cf])
    \/ /\ explicit[cf] = NoKeys /\ cf = "client"
       /\ th' = [th EXCEPT ![h].pc = "rlock", ![h].cf = "main"]
    \/ /\ explicit[cf] = NoKeys /\ cf = "main"
       /\ IF Fresh(auto) THEN Captures(h, auto) ELSE Goto(h, "rotate")

(* initLegacySessionTicketKeyRLocked has something to write. *)
NeedsInit(cf) == legacy[cf] = "empty" \/ (legacy[cf] = "user" /\ explicit[cf] = NoKeys)

RLock(h) ==
    /\ At(h, "rlock")
    /\ LET cf == th[h].cf IN
       \/ disabled[cf] /\ Captures(h, NoKeys)
       \/ ~disabled[cf] /\ NeedsInit(cf) /\ Goto(h, "legacy")
       \/ ~disabled[cf] /\ ~NeedsInit(cf) /\ LookUpKeys(h)
    /\ UNCHANGED <<now, begun, configs, tickets>>

LegacyKey == [first |-> [gen |-> "legacy", n |-> 0, created |-> 0], old |-> {}]

(* Mutant: the condition is not looked at again under the exclusive lock. *)
InitLegacyUnchecked(h) ==
    /\ At(h, "legacy")
    /\ LET cf == th[h].cf IN
       \/ /\ legacy[cf] = "empty"
          /\ legacy' = [legacy EXCEPT ![cf] = "deprecated"] /\ UNCHANGED explicit
       \/ /\ legacy[cf] # "empty"
          /\ explicit' = [explicit EXCEPT ![cf] = LegacyKey]
          /\ UNCHANGED legacy
    /\ Goto(h, "lookup")
    /\ UNCHANGED <<now, begun, disabled, auto, generated, tickets>>

(* The exclusive section of initLegacySessionTicketKeyRLocked. *)
InitLegacy(h) ==
    /\ At(h, "legacy")
    /\ LET cf == th[h].cf IN
       \/ /\ legacy[cf] = "empty"
          /\ legacy' = [legacy EXCEPT ![cf] = "deprecated"] /\ UNCHANGED explicit
       \/ /\ legacy[cf] = "user" /\ explicit[cf] = NoKeys
          /\ explicit' = [explicit EXCEPT ![cf] = LegacyKey]
          /\ UNCHANGED legacy
       \/ /\ legacy[cf] = "deprecated" \/ (legacy[cf] = "user" /\ explicit[cf] # NoKeys)
          /\ UNCHANGED <<legacy, explicit>>
    /\ Goto(h, "lookup")
    /\ UNCHANGED <<now, begun, disabled, auto, generated, tickets>>

(* ... after which ticketKeys goes on with the read lock taken again. *)
LookUp(h) ==
    /\ At(h, "lookup") /\ LookUpKeys(h)
    /\ UNCHANGED <<now, begun, configs, tickets>>

(* Mutant: a key is stamped with the time of its next rotation. *)
NewKeyAhead == [gen |-> "auto", n |-> generated + 1, created |-> now + Rotation]

NewKey == [gen |-> "auto", n |-> generated + 1, created |-> now]
Rotated(ks) == [first |-> NewKey, old |-> {k \in AllKeys(ks) : now - k.created < Lifetime}]

(* Mutant: the first key is not looked at again under the exclusive lock. *)
RotateUnchecked(h) ==
    /\ At(h, "rotate")
    /\ auto' = Rotated(auto)
    /\ generated' = generated + 1
    /\ Captures(h, auto')
    /\ UNCHANGED <<now, begun, disabled, legacy, explicit, tickets>>

(* Mutant: a rotation drops the keys that are due for rotation. *)
RotateForgets(h) ==
    /\ At(h, "rotate")
    /\ \/ Fresh(auto) /\ UNCHANGED <<auto, generated>>
       \/ /\ ~Fresh(auto)
          /\ auto' = [first |-> NewKey, old |-> {}]
          /\ generated' = generated + 1
    /\ Captures(h, auto')
    /\ UNCHANGED <<now, begun, disabled, legacy, explicit, tickets>>

(* Mutant: a rotation keeps every key. *)
RotateHoards(h) ==
    /\ At(h, "rotate")
    /\ \/ Fresh(auto) /\ UNCHANGED <<auto, generated>>
       \/ /\ ~Fresh(auto)
          /\ auto' = [first |-> NewKey, old |-> AllKeys(auto)]
          /\ generated' = generated + 1
    /\ Captures(h, auto')
    /\ UNCHANGED <<now, begun, disabled, legacy, explicit, tickets>>

(* The exclusive section of the rotation: a new key in front, the expired ones *)
(* dropped, unless another handshake has rotated in the meantime.              *)
Rotate(h) ==
    /\ At(h, "rotate")
    /\ \/ Fresh(auto) /\ UNCHANGED <<auto, generated>>
       \/ /\ ~Fresh(auto)
          /\ auto' = Rotated(auto)
          /\ generated' = generated + 1
    /\ Captures(h, auto')
    /\ UNCHANGED <<now, begun, disabled, legacy, explicit, tickets>>

-----------------------------------------------------------------------------
(* The handshake that captured the keys. *)

(* decryptTicket: some captured key authenticates the ticket. *)
Decrypts(ks, t) == \E k \in AllKeys(ks) : k.gen = t.key.gen /\ k.n = t.key.n

(* checkForResumption of either version: a ticket that a captured key opens,   *)
(* not too old and of this version, is resumed, unless a check on the cipher   *)
(* suites or client certificates, abstracted here, stands against it.          *)
CheckForResumption(h, vers) ==
    /\ At(h, "hello")
    /\ \/ th' = [th EXCEPT ![h].pc = "session", ![h].vers = vers]
       \/ \E t \in tickets :
             /\ ~disabled[th[h].config] /\ Decrypts(th[h].keys, t)
             /\ now - t.createdAt <= Lifetime /\ t.vers = vers
             /\ th' = [th EXCEPT ![h].pc = "session", ![h].vers = vers, ![h].session = t]
    /\ UNCHANGED <<now, begun, configs, tickets>>

(* Mutant: re-wrapping a TLS 1.2 session restarts its age. *)
WrapsRestarting(h) ==
    [key |-> th[h].keys.first, createdAt |-> now, vers |-> th[h].vers,
     born |-> IF th[h].vers = 12 /\ th[h].session # NoSession THEN th[h].session.born ELSE now]

(* The ticket of this handshake: a resumed TLS 1.2 session keeps its master    *)
(* secret and its age; every other one has a new secret of its own.  The       *)
(* secret was derived earlier in this handshake: born, as createdAt does,      *)
(* counts from the wrapping.                                                   *)
Wraps(h) ==
    LET old == th[h].vers = 12 /\ th[h].session # NoSession IN
    [key |-> th[h].keys.first, createdAt |-> IF old THEN th[h].session.createdAt ELSE now,
     vers |-> th[h].vers, born |-> IF old THEN th[h].session.born ELSE now]

(* sendSessionTicket fails without keys; a client that takes no tickets, or a  *)
(* handshake that fails before, ends without one.                              *)
SendSessionTicket(h) ==
    /\ At(h, "session")
    /\ \/ UNCHANGED tickets
       \/ /\ ~disabled[th[h].config] /\ th[h].keys.first # NoKey
          /\ tickets' = tickets \cup {Wraps(h)}
    /\ th' = [th EXCEPT ![h] = Idle]
    /\ UNCHANGED <<now, begun, configs>>

-----------------------------------------------------------------------------
(* The application. *)

(* "The Config returned by this callback may not be subsequently modified":    *)
(* the application leaves it alone while a handshake uses it.                  *)
ClientConfigUnused == \A h \in Handshakes : th[h].config = "main"

SetSessionTicketKeys(cf, ks) ==
    /\ cf = "client" => ClientConfigUnused
    /\ LET key(i) == [gen |-> "app", n |-> i, created |-> 0]
       IN  explicit' = [explicit EXCEPT ![cf] = [first |-> key(ks.first), old |-> {key(i) : i \in ks.old}]]
    /\ UNCHANGED <<now, begun, disabled, legacy, auto, generated, th, tickets>>

(* The Config that GetConfigForClient returns from now on is a new Clone of    *)
(* the original one.                                                           *)
Clone ==
    /\ ClientConfigUnused
    /\ disabled' = [disabled EXCEPT !["client"] = disabled["main"]]
    /\ legacy' = [legacy EXCEPT !["client"] = legacy["main"]]
    /\ explicit' = [explicit EXCEPT !["client"] = explicit["main"]]
    /\ UNCHANGED <<now, begun, auto, generated, th, tickets>>

Tick == now < MaxTime /\ now' = now + 1 /\ UNCHANGED <<begun, configs, th, tickets>>

Handshake(h) ==
    \/ \E config \in Configs : ClientHello(h, config)
    \/ RLock(h) \/ InitLegacy(h) \/ LookUp(h) \/ Rotate(h)
    \/ \E vers \in {12, 13} : CheckForResumption(h, vers)
    \/ SendSessionTicket(h)

Next ==
    \/ \E h \in Handshakes : Handshake(h)
    \/ \E cf \in Configs, ks \in AppKeys : SetSessionTicketKeys(cf, ks)
    \/ Clone \/ Tick

Spec == Init /\ [][Next]_vars

-----------------------------------------------------------------------------
(* Properties. *)

(* Tickets are wrapped with a young key: the first automatic key that          *)
(* ticketKeys returns is younger than ticketKeyRotation, also when two         *)
(* handshakes met the old one at the same time.                                *)
FirstKeyFresh ==
    \A h \in Handshakes :
        th[h].keys.first.gen = "auto"
            => th[h].at - th[h].keys.first.created < Rotation

(* Automatic keys are created at least ticketKeyRotation apart: a rotation     *)
(* that several handshakes ask for happens once.                               *)
AutoKeysSpaced ==
    \A j, k \in AllKeys(auto) :
        j # k => \/ j.created - k.created >= Rotation
                 \/ k.created - j.created >= Rotation

(* No automatic key opens tickets for longer than its lifetime and one         *)
(* rotation period more: the fast path of ticketKeys drops nothing, so an      *)
(* expired key goes with the next rotation.                                    *)
KeysExpire ==
    \A h \in Handshakes : \A k \in AllKeys(th[h].keys) :
        k.gen = "auto" => th[h].at - k.created < Lifetime + Rotation

(* A ticket wrapped with an automatic key can be opened as long as its key     *)
(* lives: no rotation loses a key that is not expired.                         *)
NoLiveKeyLost ==
    \A t \in tickets :
        t.key.gen = "auto" /\ now - t.key.created < Lifetime => t.key \in AllKeys(auto)

(* A master secret is not resumed for longer than maxSessionTicketLifetime,    *)
(* however often TLS 1.2 re-wraps it in new tickets under new keys.            *)
SecretsExpire ==
    [][\A h \in Handshakes :
          th[h].session = NoSession /\ th'[h].session # NoSession
              => now - th'[h].session.born <= Lifetime]_vars

(* Keys set with SetSessionTicketKeys are not replaced by the deprecated       *)
(* SessionTicketKey, whose lazy initialisation may have begun before.          *)
AppKeysPrevail ==
    [][explicit["main"].first.gen = "app" => explicit'["main"].first.gen = "app"]_vars

(* A handshake whose Config has session tickets enabled has a key to wrap its  *)
(* ticket with; encryptTicket calls the opposite an internal error.            *)
TicketKeysAvailable ==
    \A h \in Handshakes :
        At(h, "session") /\ ~disabled[th[h].config] => th[h].keys.first # NoKey

-----------------------------------------------------------------------------
(* The inductive strengthening of the properties. *)

(* Old automatic keys are older than the first one by a rotation period, and   *)
(* were not expired when it came.  Explicit keys are none of them.             *)
KeyListInv ==
    /\ \A k \in AllKeys(auto) : k.gen = "auto"
    /\ \A k \in auto.old :
          /\ auto.first # NoKey
          /\ Rotation <= auto.first.created - k.created
          /\ auto.first.created - k.created < Lifetime
    /\ \A cf \in Configs : \A k \in AllKeys(explicit[cf]) : k.gen # "auto"

(* The key that a handshake is going to wrap with is live too. *)
LiveKeyInv ==
    /\ NoLiveKeyLost
    /\ \A h \in Handshakes :
          LET k == th[h].keys.first IN
          k.gen = "auto" /\ now - k.created < Lifetime => k \in AllKeys(auto)

(* A session is not older than its createdAt says. *)
SessionInv ==
    /\ \A t \in tickets : t.createdAt <= t.born
    /\ \A h \in Handshakes : th[h].session # NoSession => th[h].session.createdAt <= th[h].session.born

TicketsInv ==
    /\ TypeOK /\ KeyListInv /\ FirstKeyFresh /\ KeysExpire /\ AutoKeysSpaced
    /\ LiveKeyInv /\ SessionInv
=============================================================================
