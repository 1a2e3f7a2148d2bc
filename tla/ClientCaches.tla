---------------------------- MODULE ClientCaches ----------------------------
(***************************************************************************)
(* The two caches that the client connections of a process share, as one   *)
(* system: the session cache of their Config and the certificate cache of  *)
(* cache.go.  A full handshake parses the server's certificate through     *)
(* newCert (verifyServerCertificate); a resumed one takes it from the      *)
(* session.  A connection holds its certificate, and so does a cached      *)
(* session (sessionState): eviction from the one cache is what lets the    *)
(* collector take a certificate out of the other.                          *)
(***************************************************************************)
EXTENDS SessionCache

CONSTANT MaxCerts      \* bound: see CertCache

ASSUME CertAssumption == MaxCerts \in Nat

VARIABLES wcc, alive, cleanups, call,   \* of CertCache
          kept                          \* element -> certificate of its session

CC == INSTANCE CertCache

clientVars == <<vars, wcc, alive, cleanups, call, kept>>

(* A connection that has offered a session holds it, evicted or not.       *)
ClientInit == Init /\ CC!CertInit /\ kept = [e \in Elements |-> 0]

InCall(c) == call[c].pc \in {"store", "swap"}
Has(c)    == call[c].cert # 0
Offers(c, cert) == call' = [call EXCEPT ![c] = CC!Resumed(cert)]
Drops(c)  == call' = [call EXCEPT ![c] = CC!NotCalled]

(* An entry that loses its session loses its certificate.                  *)
Forget == kept' = [e \in Elements |-> IF entry'[e].state = Nil THEN 0 ELSE kept[e]]

CertsUnchanged == UNCHANGED <<wcc, alive, cleanups>>

ClientLoads(c, k) ==
    /\ LoadSession(c, k)
    /\ IF th'[c].session # Nil THEN Offers(c, kept[m[k]]) ELSE UNCHANGED call
    /\ UNCHANGED kept /\ CertsUnchanged

ClientDeletes(c) == DeleteExpired(c) /\ Forget /\ CertsUnchanged /\ UNCHANGED call

(* verifyServerCertificate: the steps of newCert, in a handshake.          *)
ClientVerifies(c) ==
    /\ th[c].pc = "handshake"
    /\ \/ CC!Load(c, th[c].server)
       \/ CC!LoadOrStore(c, th[c].server)
       \/ CC!Swap(c, th[c].server)
    /\ UNCHANGED <<vars, kept>>

(* sessionState puts the certificate of the connection into the session.   *)
ClientSaves(c, n) ==
    /\ Has(c) /\ ~InCall(c)
    /\ SaveSession(c, n)
    /\ kept' = [kept EXCEPT ![m'[th[c].server]] = call[c].cert]
    /\ CertsUnchanged /\ UNCHANGED call

ClientCompletes(c) ==
    /\ Has(c) /\ ~InCall(c)
    /\ Completes(c)
    /\ CertsUnchanged /\ UNCHANGED <<call, kept>>

ClientFails(c) == ~InCall(c) /\ Fails(c) /\ Forget /\ Drops(c) /\ CertsUnchanged

ClientCloses(c) == Closes(c) /\ Drops(c) /\ CertsUnchanged /\ UNCHANGED kept

Collector ==
    /\ LET roots == {call[c].cert : c \in Conns} \cup {kept[e] : e \in Elements}
       IN  \/ \E i \in alive : CC!Collect(i, roots)
           \/ \E k \in Servers, i \in CC!Certs : CC!Cleanup(k, i)
    /\ UNCHANGED <<vars, kept>>

ClientNext ==
    \/ \E c \in Conns :
         \/ \E k \in Servers : ClientLoads(c, k)
         \/ ClientDeletes(c) \/ ClientVerifies(c) \/ ClientCompletes(c)
         \/ ClientFails(c) \/ ClientCloses(c)
         \/ \E n \in 1..MaxSessions : ClientSaves(c, n)
    \/ Collector

ClientSpec == ClientInit /\ [][ClientNext]_clientVars

-----------------------------------------------------------------------------
(* In the composed system, with the sessions as the certificates' second   *)
(* holder: no entry of the certificate cache outlives its certificate for  *)
(* good (newCert's AddCleanup calls, cache.go).                            *)
EntriesReclaimed == CC!EntriesReclaimed

(* In the composed system: a certificate that a connection or a cached     *)
(* session holds keeps its entry, whichever stale cleanups run meanwhile   *)
(* (CompareAndSwap and CompareAndDelete, cache.go).                        *)
LiveEntryStays   == CC!LiveEntryStays

-----------------------------------------------------------------------------
(* What makes them inductive: a call that is about to store a certificate has  *)
(* one, and the entry that a call is about to replace stays dead until it has  *)
(* tried, as a new certificate is none that a pointer is left to.              *)
CertInv ==
    /\ wcc \in [Servers -> CC!Certs \cup {CC!NoCert}] /\ alive \subseteq CC!Certs
    /\ DOMAIN call = Conns
    /\ \A c \in Conns : /\ InCall(c) => call[c].cert \in CC!Certs
                        /\ call[c].pc = "swap" => call[c].entry \notin alive
    /\ EntriesReclaimed

(* The list and the map of the session cache as well: an element is in the     *)
(* list if and only if it has an entry.                                        *)
ListInv ==
    /\ TypeOK /\ MapMatchesList
    /\ \A e \in Elements : e \in Range(q) <=> entry[e] # Unused
=============================================================================
