# A verification of wtls: connections, records, handshakes, sessions and QUIC

wtls is a fork of Go's `crypto/tls`: TLS 1.0 to 1.3 clients and servers over a
stream, and the TLS 1.3 handshake for a QUIC transport. This directory holds TLA+
models of the parts that keep state, TLC configurations that check them on small
instances, and TLAPS proofs of the results that matter most for instances of any
size. `PROJECT.json` is the index: components, runs, mutants, the map from
definitions to source lines, findings, hazards and theorems.

    tlc -workers 2 -config MCConn.cfg MCConn     # one run; see the table of runs
    tlapm ConnProofs.tla                         # proofs; also ConnWireProofs, TicketsProofs,
                                                 # CachesProofs, QuicProofs, RecordsProofs,
                                                 # Handshake12Proofs, Handshake13Proofs

## Inventory

| part | state | operations | talks to |
|---|---|---|---|
| `Conn` (conn.go) | three mutexes (`handshakeMutex`, `in`, `out`), `activeCall`, `isHandshakeComplete`, `handshakeErr`, sticky errors, sequence numbers and keys of both halves, `rawInput`, `input`, `hand`, `retryCount`, `sendBuf` | `Read`, `Write`, `Close`, `CloseWrite`, `HandshakeContext`, deadlines | the transport, the handshake functions, `quicState` |
| Handshake, TLS 1.3 (handshake_*_tls13.go) | per-handshake structs: transcript, secrets, PSK, HelloRetryRequest, ECH | one function per flight, post-handshake messages | `Conn`, `Config`, `quicState`, tickets, session cache |
| Handshake, TLS <= 1.2 (handshake_client.go, handshake_server.go) | per-handshake structs: hello messages, suite, transcript hash, master secret, session | full and resumed handshake, renegotiation | the same |
| Ticket keys (common.go, ticket.go) | `Config.mutex`, `sessionTicketKeys`, `autoSessionTicketKeys`, the deprecated `SessionTicketKey` | `ticketKeys` (looks up, initialises, rotates), `SetSessionTicketKeys`, `Clone`, wrapping and opening tickets | all server handshakes of a `Config` |
| Session cache (common.go) | `lruSessionCache`: map, list, capacity | `Get`, `Put` | all client handshakes of a `Config` |
| `QUICConn` (quic.go) | event queue, `readbuf`, levels, channels `signalc` and `blockedc`, context | `Start`, `NextEvent`, `HandleData`, `SetTransportParameters`, `SendSessionTicket`, `Close` | a goroutine that runs the handshake |
| Negotiation (common.go, cipher_suites.go, defaults.go) | none | versions, suites, curves, ALPN, signature schemes | both handshakes |
| ECH (ech.go) | the client's and server's ECH contexts | offer, open, accept, reject | TLS 1.3 handshakes, the ClientHello codec |
| Certificate cache (cache.go) | a `sync.Map` of weak pointers | `newCert`, cleanups | `verifyServerCertificate` |
| Key schedule, PRF, record protection, key agreement, codec, key pair loading | none of their own | computations on bytes | everything |

What is hard here, and hardly reachable by tests, is listed with its line under
`hazards` in `PROJECT.json`. The main groups:

* **Locks in two orders.** A handshake takes `handshakeMutex` and then `in`; a
  renegotiation runs inside `Read`, which holds `in`, and takes `handshakeMutex`.
* **Close against everything.** `Close` must not wait for a blocked `Write`, must
  not send close_notify into the middle of one, and must let nothing follow it.
* **State read before a lock and used behind it.** `isHandshakeComplete`, the age
  of a ticket key, `SessionTicketsDisabled`, a cached session.
* **Lock upgrades.** `ticketKeys` gives up the read lock to take the write lock, in
  two places.
* **Hand-off without locks.** `QUICConn` and its goroutine share all of `Conn` and
  the event queue; only the order of channel operations keeps them apart.
* **State that outlives a connection.** A session is resumed under a `Config`, a
  policy and a clock other than those it was made under.
* **Buffered flights.** A message that is written and not flushed before the next
  read leaves both ends waiting.
* **Records are not messages.** A message may straddle records, a record may hold
  several, and keys change between messages: `hand` must be empty when they do.
* **Two hellos in one struct.** The inner and the outer ClientHello of ECH share their
  fields, are sent twice after a HelloRetryRequest, and go into two transcripts.
* **The garbage collector as an actor.** `newCert` works on weak pointers without a
  lock while certificates are collected and their cleanups run.

What makes each part correct, and is stated as a property of the modules:

* `Conn`: no deadlock of locks, records leave in sequence, nothing behind
  close_notify, no application data inside a handshake, keys in step with the peer,
  an established connection has no handshake error, calls return.
* Tickets: keys rotate once per period, are never lost while tickets under them are
  live, do expire; secrets expire however often they are wrapped again; keys set by
  the application win.
* Records: a message is taken under the keys of its sender, data arrive unchanged, in
  order and once, a peer that keeps to the protocol is never refused, a record that has
  arrived is delivered.
* Session cache: behaves as a least-recently-used cache, whose map and list agree.
* Certificate cache: the entry of a live certificate stays until it is replaced, that of
  a dead one is reclaimed.
* `QUICConn`: one goroutine at a time, no event lost, reordered or delivered twice,
  calls return.
* Handshakes: both ends agree, policy is respected on resumption too, compatible ends
  succeed, nobody waits for ever; with ECH, what is secret stays out of the clear and a
  rejection is reported.

## Modules

| module | models | shape |
|---|---|---|
| `Conn` | one `tls.Conn` used by several goroutines | one action per stretch of code between two synchronisation points; `th[g]` is where goroutine g is |
| `ConnProofs` | | theorems about `Conn`: types, locks, handshake and `activeCall` |
| `ConnWireProofs` | | theorems about what `Conn` sends and under which keys it reads; extends `ConnProofs` |
| `Tickets` | the ticket keys of a `Config` and of the one from `GetConfigForClient`, and the server handshakes that use them | one action per critical section of `Config.mutex` |
| `TicketsProofs` | | theorems about `Tickets` |
| `Records` | the reading half of one client `Conn`, and a peer that decides where records begin and end | one action per record processed, per stretch of `Read` and per kind of record the peer sends |
| `RecordsProofs` | | theorems about `Records` |
| `SessionCache` | `lruSessionCache` as a map into a list, and its use by client handshakes | `Get` and `Put` are atomic, as under the mutex of the cache |
| `LRU` | what the comments in `common.go` promise of such a cache: an ordered list of entries, from which a nil session removes one | the abstract specification of `SessionCache`, with a refinement mapping (`LRUButForNilPut`: every step but a nil `Put` of an absent name is one of `LRU`) |
| `CertCache` | `weakCertCache`: `newCert` and the collector | one action per access to the `sync.Map`; collection and cleanup are actions of their own |
| `ClientCaches` | both caches under the client connections of one process | composes `SessionCache` and `CertCache`; checked and proved against `LRU` |
| `CachesProofs` | | theorems about `ClientCaches` and the modules it composes |
| `QuicConn` | `QUICConn`, its event queue and the handshake goroutine | one action per function of the handshake, per stretch of a call between channel operations, and per rendezvous |
| `QuicProofs` | | theorems about `QuicConn` |
| `Handshake12` | client and server of TLS 1.1 and 1.2 talking to each other, over several connections | one action per message received, which also writes the answer |
| `Handshake12Proofs` | | theorems about `Handshake12` |
| `HelloCodec` | the ClientHello on the wire, and ECH's compression, sealing and opening | operators only |
| `Handshake13` | client and server of TLS 1.3 talking to each other, over TCP or QUIC | one action per message received, which also writes the answer; uses `HelloCodec` |
| `Handshake13Proofs` | | theorems about `Handshake13` |
| `MC*` | | values for the constants, for TLC |

### Conn

`mutex` maps `"hs"`, `"in"`, `"out"` to their holders. A goroutine makes a `Call`,
then follows the labels of `Labels`: `WriteEnter` (the counter in `activeCall`),
`HsFast`/`HsLock`/`HsInLock` (the double-checked start of `handshakeContext`),
`HsSend`/`HsRecv`/`HsFinish`/`HsDone` (the handshake as a flight out, a flight in and
the flight behind which the keys change), `InLock` and the `Recv...` actions (a record
arrives), `KuLock`/`RenegLock` (KeyUpdate and renegotiation, which need a second lock),
`AlertLock`, `OutLock`, `Close`/`CloseCheck`/`CloseWrite`/`NotifyLock`. A record takes
its sequence number when it is built (`StartRecord`) and appears in `wire` when the
transport takes it (`Xmit...`), so that two writers can overtake each other if no lock
keeps them apart. Deferred unlocks belong to the step that returns. The environment may
stop reading, reset the connection, let a deadline pass, cancel a handshake.

`sendBuf` is not part of this module: the alert of a renegotiation that fails is put on
the wire, while the code leaves it buffered. What a record holds is left to `Records`. `SetWriteDeadline` is taken not to be
called while a close_notify is on its way. A client's `Config` is not modified while in
use.

### Tickets

Of the key list only the first key (which wraps) and the set of the others (which open)
matter. A handshake captures keys at the ClientHello (`ClientHello`, `RLock`,
`InitLegacy`, `LookUp`, `Rotate`, in the order of `Config.ticketKeys`), may resume a
session (`CheckForResumption`) and wraps a new ticket (`SendSessionTicket`), which keeps
`createdAt` in TLS 1.2 and restarts it in TLS 1.3. `born` is when a session's secret was
made; only properties look at it. `Tick` lets time pass at any moment.

The fast path of `ticketKeys` prunes nothing, so an automatic key can be handed out for
up to a rotation period after `ticketKeyLifetime`. `KeysExpire` states the bound that
does hold.

### Records

One client `Conn` and its reading goroutine. `wire` holds what the transport has, `raw`
is `c.rawInput`, and the record `c` holds `hand`, `input`, `retryCount`, the read keys
and the place in the code. A handshake message is two halves and a record any number of
halves, which is what it takes to straddle two records, to share one, and to straddle a
key change. Keys are numbered by epoch, and a record opens exactly under the keys it was
protected with. `readRecordOrCCS` refuses, drops or takes a record (`RefuseRecord`,
`DropRecord`, `TakeRecord`, with its checks in their order in `RecordError`), or fails
without one (`ReadRefused`, `ReadEOF`, `ReadTimeout`). `HandshakeMessage`, `PostMessage13`
and `PostMessage12` are what is done with a message; `c.pc` is the place in `Read`: the
wait for data, the post-handshake loop, the look-ahead for an alert. A TLS 1.2 client
renegotiates or refuses to, following `Policies`.

The peer sends records of any kind at any time; `p.legal` notes whether it has kept to
the protocol so far, and `LegalNeverRefused` is about those that have. Two restrictions
keep it finite and change nothing that can be seen: it acts only while the client waits
(`PeerMayAct`; what it sends earlier stays unseen in the transport), and after its first
error it sends at most `MaxErrors` records, since errors stick. QUIC has no records and
is not part of this module.

### SessionCache, LRU, CertCache and ClientCaches

In `SessionCache` `m` is the map, `q` the list, `entry` what the list elements point to;
an element is reused by an eviction, as in the code. `LRU` has a single list of pairs
and is the cache that the comments on `ClientSessionCache` and `Put` describe: a session
is put in front, a nil session removes the entry of its name, if there is one. The code
departs from it in one kind of step, the nil `Put` of an absent name (`NilPut`), and
`LRUButForNilPut` admits that one besides those of `LRU`.
In `CertCache` a parsed certificate is a number, `alive` says which are not collected,
`wcc` is the map from a server's certificate bytes to a weak pointer, and `cleanups` what
`runtime.AddCleanup` has registered. `Load`, `LoadOrStore` and `CompareAndSwap` of
`newCert` are one step each. A collected number is used again only when no weak pointer
and no cleanup is left that could be mistaken for one of the new certificate.

`ClientCaches` composes the two: a full handshake gets its server's certificate from
`newCert`, a resumed one from the session, and a saved session (`kept`) holds it on. The
roots of the collector are thus the connections, the cached sessions, and nothing else,
and an eviction from one cache lets the other one shrink.

### QuicConn

`hs.pc` is the stage of the handshake goroutine, `app` the call that the application is
in. The goroutine sends on `blockedc` (`"blocked"`), then on `signalc` (`"signal"`); a
call receives (`RecvBlocked`, `RecvSignal`). Stages are the functions of both TLS 1.3
handshakes, reduced to what they read, the secrets they set and the events they emit;
HelloRetryRequest, PSK, 0-RTT, client certificates and failures at every read are
included. Methods of a `QUICConn` are not called concurrently, as its documentation
demands.

### Handshake12

`st[e]` is the `Conn` and handshake struct of end e; `st[e].out` is its write half with
`sendBuf`, `c.buffering` and the messages under way. The transcript hash is the list of
message kinds; a secret is the connection it was agreed on and, with the extended master
secret, the transcript it is bound to; a ticket is the session state sealed in it.
Whether a ticket can be opened, and is young enough, is a choice (`opens`), since
`Tickets` decides that; whether the certificates of a cached session are still valid is
one as well (`expired`). Between two connections both `Config`s may change: `AuthPolicy`
and `Interop` are about exactly that. The peer is always the other end of this
implementation, except that a client may lack the extended master secret. Renegotiation,
FIPS mode and failing callbacks other than `VerifyConnection` are left out.

### HelloCodec and Handshake13

Built in the same way. `HelloCodec` is what `marshalMsg`, `unmarshal`, `encodeInnerClientHello`,
`decodeInnerClientHello`, `computeAndUpdateOuterECHExtension` and `processECHClientHello` do
with a ClientHello, with an extension as a field that is set or not and the wire form as
the list of extensions in order: which are written into which of the two hellos, what an
inner one leaves to the outer one, what the associated data and a binder cover.

In `Handshake13` a transcript is the list of the messages hashed, a key a term made of
its label, its secret and the transcript it is derived from, so that two ends share a key
exactly when they agree on all three. A ticket is the number of the connection that
issued it; what is sealed in it stays with the server. `Agreement` compares the
traffic keys and the exporter of the two ends and what they have negotiated. Covered are key
shares and HelloRetryRequest, PSK with binders (of the inner hello under ECH), 0-RTT over
QUIC, client authentication, certificate selection by name and signature scheme, and ECH
accepted, rejected with and without retry configs, and confirmed across a
HelloRetryRequest. The peer is the other end of this implementation; cookies, GREASE,
a backend server behind an ECH proxy, FIPS mode and callbacks other than
`VerifyConnection` and `EncryptedClientHelloRejectionVerify` are left out.

## Runs

| run | checks | result |
|---|---|---|
| `conn` | safety of `Conn`: 3 goroutines, 4 calls, 2 records from the peer, TLS 1.3 client and renegotiating TLS 1.2 client | passes |
| `conn_live` | liveness of `Conn`: 2 goroutines, 2 calls | passes |
| `conn_records` | records leave in the order of their sequence numbers | violated |
| `records` | `MessageKeys`, `DataFaithful`, `LegalNeverRefused` and the liveness `DataDelivered`: TLS 1.2 and 1.3, 8 records, 2 bytes of data, 2 post-handshake messages | passes |
| `tickets` | 2 handshakes at a time, 3 in all, rotation 2, lifetime 3, 5 ticks | passes |
| `tickets_available` | a handshake with tickets enabled has ticket keys | violated |
| `client_caches` | the session cache against `LRU` but for nil `Put`s of absent names, its map against its list, and the entries of the certificate cache: 2 connections, 3 servers, a cache of 2 entries, 3 certificates | passes |
| `quic` | 3 kinds of connection, 4 messages from the peer in halves | passes |
| `quic_close` | `QUICConn.Close` returns | violated |
| `handshake12` | 8 client and 9 server `Config`s, 3 connections | passes |
| `handshake13` | 8 client and 7 server `Config`s, TCP and QUIC, 2 connections | passes |
| `handshake13_ech` | a client whose ECH is rejected gets an `ECHRejectionError` | violated |

A property of a passing run has a mutant: a definition changed as a plausible bug would
change the code, which makes TLC find that property violated. The mutants sit in the
modules, in front of the definition they stand in for.

### Why the bounds are enough

* `Conn`: a deadlock or an overtaking takes two goroutines and the third one to disturb
  them; four calls allow a `Close` and a `CloseWrite` around a `Read` and a `Write`; two
  records allow one renegotiation or KeyUpdate and a record behind it; `MaxUseless` is 1
  instead of 16, and is still exceeded. Goroutines are interchangeable (symmetry, in runs
  without liveness). The theorems hold for any number of all of these.
* `Tickets`: with rotation 2 and lifetime 3, five ticks see a key created, rotated out,
  kept and dropped; two handshakes race for a rotation, a third one resumes.
* `Records`: the handshake takes two records (TLS 1.3) or three (TLS 1.2) when each holds
  as much as it may; eight leave room for split messages, empty records and what follows the
  handshake. Two post-handshake messages can share a record, so that one stands behind a
  KeyUpdate under the old keys; two bytes tell lost, doubled and swapped data apart.
  `maxUselessRecords` is 2 instead of 16 and is reached and exceeded.
* `ClientCaches`: three names for two entries force evictions and the reuse of elements;
  with three certificates the old one of a server, whose cleanup is to run, and the new
  one of both connections coexist.
* `QuicConn`: eight halves are the longest server flight with a message split between two
  calls.
* `Handshake12`: one connection makes a session, the next resumes it, the third resumes
  what the second stored. The `Config`s are a default for each end and what may differ
  from it in one or two fields that matter to resumption: version, suites, certificates,
  roots, `ClientAuth`, callbacks, tickets, ALPN.
* `Handshake13`: one connection issues a ticket, the next resumes it under any other pair
  of `Config`s; a third would resume a session of the same form, since every TLS 1.3
  session is made anew from the connection it comes from. The `Config`s differ in what
  decides about HelloRetryRequest, the hash of the suite, ECH keys and retry, names and
  kinds of certificates, `ClientAuth` and callbacks.

Deadlock checking is off where the system may stop: when all calls are made, all
connections closed or the application makes no further call.

### Fairness

* `Conn` (`FairSpec`): strong fairness for each goroutine's steps, since a Go mutex hands
  itself to a waiter that has starved and a goroutine that can run repeatedly does; weak
  fairness for the expiry of a deadline that is set. Peers, resets, cancellations and
  further calls are not fair: nobody has to make them.
* `QuicConn`: weak fairness for the handshake goroutine and for the steps of a call in
  progress: a rendezvous stays enabled until it happens. Nothing is assumed of the calls
  the application makes, nor of cancellation.
* `Handshake12`: weak fairness for both ends: a message under way is delivered or the
  transport fails, and the ends run. Deadlines and cancellation are in `Conn`.
* `Records`: weak fairness for the reading goroutine only. Neither the peer nor a
  deadline is fair: `DataDelivered` is about bytes that the peer has sent.
* `Handshake13` states no fairness: with messages as nested records the ENABLED that
  fairness needs is beyond TLC. The invariant `NeverStuck` takes its place: an end that
  has not ended has something to do or to read, or its peer has.
* `ClientCaches` states none: what it checks are invariants and step properties.

## What the violations show

| finding | what happens |
|---|---|
| `conn.go:1112` | the alert for an oversized handshake message is sent without holding `out`, so it races for a sequence number with whoever holds `out`. In the run that is `CloseWrite`, whose close_notify leaves in the wrong order with the alert; the record of a `Write` is exposed alike |
| `common.go:1101` | a `Config` from `GetConfigForClient` that enables tickets gets no keys if the original one disables them |
| `handshake_client.go:465` | `loadSession` drops the error of a canceled `quicResumeSession`, and `Close` waits for ever |
| `handshake_server_tls13.go:160` | the outer hello of a QUIC client that offers 0-RTT under ECH has early_data but no pre_shared_key; a server that cannot open ECH refuses it with an alert, so the client never gets the `ECHRejectionError` and the retry configs that `common.go:845` promises |

Each is stated as a property that quotes or paraphrases the line of documentation or
comment that says otherwise; see `findings`.

### Noticed without a run of its own

* `conn.go:1357`: an error in answering a KeyUpdate is to "Surface the error at the next
  write", but `handleKeyUpdate` then returns without changing the read key, which the peer
  has changed, so a read fails first. A write deadline that has passed is enough, and
  `CloseWrite` leaves the connection with one (`conn.go:1480`), so that a connection closed
  for writing cannot be read past a KeyUpdate that asks for an answer. `ReadKeysInSync` is
  stated up to the first failed write; without the exemption TLC finds this.
* `common.go:1699`: `Put(key, nil)` for an absent key stores an entry with a nil session, where
  `common.go:396` and `common.go:1681` promise a removal. Two connections that loaded the same
  session and both delete it, as expired or after a failed handshake, are enough; in a full
  cache the entry takes the place of a live one. `LRU` has no such step, and
  `LRUButForNilPut` exempts it by name (`NilPut`); without the exemption TLC finds this.
* `conn.go:1471`: `Close` takes `out` before it sets the deadline that is to keep it from
  blocking; a `Read` that is blocked in a write of its own blocks it.
  `CloseReturnsUnlessReaderBlocked` shows that nothing else does.
* `conn.go:1404`: with TLS 1.2 data followed by a warning alert, `Read` has data to return
  and waits for another record, since the look-ahead drops the alert and reads on.
  `DataDelivered` counts a byte once a `Read` holds it.
* `conn.go:699`: a record of post-handshake messages resets `retryCount`, so a sequence of
  them in records of their own never meets `maxUselessRecords`.
* `conn.go:1313`: on a QUIC connection nothing resets `retryCount`, and the seventeenth
  post-handshake message is refused.
* `conn.go:1396`: with TLS 1.2, application data between the halves of a HelloRequest, or
  behind one and before the renegotiation it asks for has ended, is refused, though the
  protocol allows it. `p.legal` demands silence of the peer there (`p.asked`).
* `conn.go:1296`: a renegotiation that fails has `c.buffering` set, and its alert is not
  flushed.
* `quic.go:299`: `HandleData` sets `handshakeErr` on a connection whose handshake is
  complete, against what `conn.go:35` says of that field.

## What is proved

All theorems hold for every value of the constants that satisfies the modules' assumptions:
the bounds of the runs do not limit them. Each module of proofs defines an inductive
invariant, shows with one lemma per action (or one frame lemma for the actions that leave
a part alone) that it is preserved, and derives the properties from it.

**ConnProofs**, from `ConnAssumption` (finitely many goroutines, `None` is none of them).
The inductive invariant `ConnInv` is the conjunction of

* `TypesOK`;
* `HandshakeInv`: a goroutine is in the handshake code exactly when it holds
  `handshakeMutex` (or is writing the alert of a handshake that failed), the handshake is
  complete only at its last label, a first handshake waits for `in` only while it has no
  error, and a goroutine reads records only when a handshake has been decided
  (`Decided`). `CompleteMeansNoError` and `NoLockCycle` are not inductive alone: the first
  needs to know who may change its two variables, the second that a reader which wants to
  renegotiate and a handshake that has not ended exclude each other;
* `ActiveCallInv`: `activeCall` is twice the number of goroutines inside `Write`, plus
  one from the first `Close` on, and a goroutine that is going to send close_notify saw
  the count at zero. It gives `CloseExcludesWrite`, and that `activeCall` is never
  negative, which `TypeOK` claims.

Each part is shown to hold initially and to be preserved by every action, with frame
lemmas for the many actions that leave it alone; `InductiveInvariant` puts them together
and `TypeCorrect`, `CompleteImpliesNoError`, `NoLockOrderDeadlock` and
`CloseWriteInterlock` follow.

**TicketsProofs**, from `TicketsAssumption` (the rotation period is positive and not
longer than the lifetime). The inductive invariant `TicketsInv` adds to the properties themselves
`KeyListInv` (the old automatic keys of the `Config` are older than the first by a
rotation period at least and by less than a lifetime, so a rotation drops only what has
expired), `LiveKeyInv` (the key a handshake has captured for its ticket is live as well,
or a ticket sent late would be under a lost key) and `SessionInv` (the `createdAt` of a
session is not later than `born`, so that checking the one bounds the age of the other).
From it follow `TicketsUseFreshKeys`, `RotatesOnce`, `KeysDoExpire`, `LiveKeysStay` and
`SecretsDoExpire`; `TypeCorrect` is its type part, and `AppKeysDoPrevail` adds what a
handshake may hold that captured its keys before they were set. `MaxTime` and `MaxHandshakes` occur only in guards that no proof uses.

**ConnWireProofs** strengthens `ConnInv` to `ConnWireInv` by

* `HoldInv`: which goroutine holds `in` and `out` at which label, the exception being
  the alert that the code sends without `out` (the finding at `conn.go:1112`);
* `WireInv`: the sequence numbers on the wire and in the hands of writers
  (`SequenceInv`), when application data may still be on their way (`AppDataInv`), and the
  three properties of the wire;
* `ReadKeyInv`: how far the read key may be behind the KeyUpdates of the peer, depending
  on where the reader is.

`WireInvariant` is that it is one; `RecordsStayInSequence`, `CloseNotifyEndsData`,
`HandshakeHoldsDataBack` and `ReadKeysStayInSync` follow.

**CachesProofs** is about `ClientSpec`, the two caches under the client connections. Its
invariant is `ListInv` (the list has no element twice, the map points to exactly the
elements of the list, an element is in use iff it is in the list) and `CertInv` (what an
entry, a cleanup and a weak pointer can refer to). `CachesInvariant` establishes it,
`ListTypes`, `MapAlwaysMatchesList`, `NoEntryLeaks` and `LiveEntriesStay` state the
properties, and `SessionCacheIsLRU` is the refinement (`LRUButForNilPut`): initial states
are initial states of `LRU`, and every step of every connection is a step of `LRU`, or a nil
`Put` of a name without an entry, or changes none of its variables, for any capacity.

**QuicProofs** is about the hand-off between a `QUICConn` and its goroutine, without
locks. `ControlInv` says who can be where, given the state of the two channels; `QueueInv`
that the queue holds events and what has been taken from it is cleared; `DeclineInv` what
is left to happen when early data have been declined; `StreamInv` relates the events
delivered and queued to the secrets set so far. `QuicInvariant` establishes them, and
`HandoffHolds`, `ExitLeavesChannelsClosed`, `DeclineIsHonoured`, `EventsStayInOrder` and
`CryptoStaysInOrder` follow. The order of events is stated over `Stream`, the delivered
events followed by the queued ones, by positions.

**RecordsProofs**, from `RecordsAssumption`, for any number of records, bytes and
post-handshake messages and any `maxUselessRecords`. The invariants have to speak of
records that are under way: those in `raw` and in `wire` are a path from the place of the
reader to that of the peer. What a place is differs from one invariant to the next.

* `DataInv`: the bytes read, those held in `input` and those under way are, in this order,
  the bytes sent, and nothing follows a close_notify. `DataStaysFaithful` follows.
* `KeyInv`: `hand` holds halves of one key epoch only, the read key is the one that
  belongs to the step of the handshake (`Aligned`), and the messages of TLS 1.3, in
  `hand`, under way and yet to be sent, come in order (`OrderInv`). The last part is
  needed because a later timeout overwrites the error for an unexpected message, so that
  `MessageKeys` cannot lean on that error. `MessagesKeepTheirKeys` follows.
* `LegalInv`, for as long as the peer keeps to the protocol: from what the reader has acted
  on, the halves in `hand` lead to a place (the step of the handshake, the message that is
  half sent, the handshakes answered, the keys), the records under way lead on from it, each
  one of the protocol (`LegalRecord`), and the halves still to be sent end where the peer's
  fields say. A place also has the peer's count of useless records, and `CountFits` ties
  `retryCount` to it: in TLS 1.3, behind the handshake, `2 * retryCount + Len(hand)` is at
  most `2 * useless + 1`, for every message is two halves, is counted by the peer where it
  ends and by the reader when it is acted on. The reader's checks are then shown to pass at
  every such place. `LegalPeerNeverRefused` follows. Nothing is assumed of the policy or of
  the number of renegotiations: a peer whose HelloRequest is declined stands at step 1 with
  no ClientHello to answer, and until there is one only alerts are legal.

**Handshake12Proofs**, from `Handshake12Assumption`, for all `Config`s and any number of
connections. The inductive invariant `HandshakeInv` speaks of a *world*: the states of
both ends, their `Config`s and the certificates proved so far. Its parts are

* `MsgInv`: a message that is written or under way says of its sender what the sender
  still holds (`ClientMsg`, `ServerMsg`): a ServerHello is the one the server goes by, a
  ticket holds the server's session, a Finished is made with its master secret. This ties
  the ends together though they never see each other's state, and it is why
  each action has to be shown to keep what its end has said before;
* `ClientInv` and `ServerInv`: what an end has at each stage: what the hellos settled,
  whom it has authenticated and what `VerifyConnection` saw, its keys;
* `LinkInv`: what the ends have of each other, by the messages that were read;
* `CountInv` and `CacheInv`: a ticket, cached, offered or under way, is `Settled`: the
  client certificate in it is the one proved on the connection that made its master
  secret, and that will not change. This carries the policy over from one connection to
  the next, whatever the `Config`s in between.

`HandshakeInvariant` establishes it; `EndsAgree` (`Agreement`) and `PolicyIsKept`
(`AuthPolicy`) follow. The proof does not use which version, suite, curve or protocol the
server chooses, only that the client goes by the server's choice. The model computes the
state behind a flight by composing operators, so the proof first says what each operator
keeps (`Kept`), then what each flight does, then that each action preserves the invariant.

**Handshake13Proofs**, from `Handshake13Assumption`, for all `Config`s, over TCP and
QUIC, and any number of connections. The inductive invariant `Inv` has the same build:
`ClientInv` and `ServerInv` for what an end has at each stage, `ClientMsg` and `ServerMsg`
for what a message under way says of the end that wrote it, `Link` for what the ends have of each
other, and `SealedOK` and `CacheOK` for the tickets. Four thoughts carry it:

* An end derives its keys from a transcript, and its transcript says what it has negotiated:
  the suite, the group, the session and the ECH confirmation stand in the ServerHello, the server
  name in the hello before it, whether there was a HelloRetryRequest in its length, ALPN and
  early data in EncryptedExtensions (`SaysHello`, `SaysParams`, `ServerTh`, `ClientTh`).
  `FlightOK` says this of the server's Finished. When the client finds that Finished equal
  to the one it computes, secrets and transcripts are equal, and so is all they say
  (`FinishedSettles`). What the codec does to a hello need not be
  inverted for this, only known to keep the name, the ticket and the kind of ECH extension;
  this is why the proof needs no induction over extensions.
* A client that was rejected, or resumes, is the exception that `FinishedSettles` has to
  rule out: under `"rejected"` the transcript begins with the outer hello, which has an ECH
  extension of kind `outer` and no ticket, so a server that accepted ECH or resumed cannot
  have the same.
* The server derives the 0-RTT key before any Finished. The binder it has checked is over
  the transcript that the key comes from, so a binder that agrees is a key that agrees
  (`EarlyOK`, `EarlyKeyShared`); after a HelloRetryRequest the binder is over three
  messages, and there is no early data.
* Across connections it is enough to know that a ticket which is cached or offered was issued
  (`Issued`), and that what is sealed in an issued ticket holds a certificate that was proved.
  Tickets are only ever added (`Grows`).

`InvHolds` establishes it; `AgreementHolds`, `AuthPolicyHolds` and `ECHKeepsSecretsHolds`
follow. `NeverStuckHolds` needs a second invariant on top of it, `Alive`, about the messages under
way: what the server has written and is not read ends in a message after which the client does
not read again before it writes or ends (Finished, a ticket, an alert, a HelloRetryRequest); a
client that is not done has written hellos only; and the last message of an end that is done
ends the other one. `NeverStuck` itself is not inductive, since it does not say what follows
the message that an end is about to read.

For these proofs `Marshal` in `HelloCodec` selects the extensions through `InOrder`, with a
set where a local operator had been: the provers cannot carry an operator out of a LET.

Only model-checked:

* all liveness (`conn_live`, `DataDelivered`, the calls of `QuicConn` that return, what
  `Handshake12` must come to): fairness and ENABLED are out of the prover's reach;
* `Interop` of `Handshake12` and of `Handshake13`. It says that what the negotiation chooses
  suits both ends, and that a hello compressed by one end is restored by the other: both are
  computations on sequences, for which a proof would need induction over data.

## What is not modelled

* Cryptography: the computations of record protection, key schedule, PRF, key exchange,
  signatures and HPKE. What they are applied to (which secret, which transcript, which
  key) is in the handshake modules as terms.
* Encodings: the codecs of messages other than the ClientHello, `parseECHConfigList`,
  ticket bytes. They keep no state, and the repository tests them with vectors and round
  trips.
* In the handshakes: a peer other than this implementation, cookies, GREASE, ECH of a
  backend server behind a proxy, failing callbacks other than the two named above, FIPS
  mode and the GODEBUG defaults.
* In `Handshake12`: `TLS_FALLBACK_SCSV` (`handshake_server.go:403`), which this client
  never sends. The transport fails in reads only: a write or a flush that fails
  (`conn.go:947`) ends its own handshake as `Break` does. A client that misses the
  ServerKeyExchange fails without its buffered Certificate, which nobody would read.
* In `Handshake13`: the `GetCertificate` callback and `NameToCertificate`
  (`common.go:1308`); a second hello that does not parse or that is the inner one of a
  backend server (`handshake_server_tls13.go:601`), and an ECH extension of inner type in a
  first hello (`ech.go:560`): this client sends none of them.
* In `Records`: a record is fetched whole. A deadline in the middle of one leaves its bytes
  in `rawInput` and the next read goes on from there (`conn.go:676`); an EOF there is
  `io.ErrUnexpectedEOF` (`conn.go:629`) and not the end of data.
* In `Tickets`: the time between the derivation of a master secret and its wrapping, within
  one handshake (`handshake_server.go:721`).
* In `QuicConn`: `HandleData` at a level that is not being read (`quic.go:279`). It returns an
  error and sets `c.in.err`, which only `readRecordOrCCS` reads; QUIC has no records.
* `sendBuf` across a failed renegotiation, dynamic record sizes, the splitting of CBC
  records (`Write` is one record in `Conn`).
* `Dial`, `Listen`, key pair loading (`tls.go`): I/O.
* Tables: alert texts, generated names, allow-lists.

## Plan

Done: `Conn`, `Records`, `Tickets`, `SessionCache` with `LRU`, `CertCache` and their
composition, `QuicConn`, `Handshake12`, `HelloCodec` and `Handshake13`, and the proofs
listed above. What is left:

1. `Interop` for `Config`s of one suite, curve and protocol each, where the negotiation is
   no computation on sequences.
2. A bound on post-handshake messages of QUIC connections, and the alert of a renegotiation
   that fails: the two hazards without a property.

A module with a theorem may not reach a RECURSIVE operator, so modules that take helpers
from `SequencesExt` have to be looked at for those before they are proved about.
