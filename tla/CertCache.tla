----------------------------- MODULE CertCache -----------------------------
(***************************************************************************)
(* weakCertCache of cache.go: a map from the bytes of a certificate to a   *)
(* weak pointer to its parsed form.  newCert takes no lock; each access to *)
(* the map is one step, and connections and the garbage collector          *)
(* interleave between them.  A certificate that nothing holds any more is  *)
(* collected, which turns its weak pointers to nil at once and runs its    *)
(* cleanup some time later.  Each server has one certificate.              *)
(***************************************************************************)
EXTENDS Naturals, FiniteSets

CONSTANTS Conns,      \* connections, each in at most one call of newCert
          Servers,    \* whose certificates are parsed
          MaxCerts    \* bound: parsed certificates in memory, or with a pointer left

Certs  == 1..MaxCerts
NoCert == 0

VARIABLES wcc,        \* the map: server -> certificate its weak pointer is for
          alive,      \* the certificates that are not collected
          cleanups,   \* <<server, certificate>>: cleanups to run once it is collected
          call        \* connection -> its call of newCert

certVars == <<wcc, alive, cleanups, call>>

NotCalled      == [pc |-> "none", cert |-> NoCert]
Resumed(cert)  == [pc |-> "resumed", cert |-> cert]    \* from a session that is offered
Returned(cert) == [pc |-> "returned", cert |-> cert]

(* weak.Pointer.Value is nil.                                              *)
Dead(i) == i \notin alive

CertInit ==
    /\ wcc = [k \in Servers |-> NoCert]
    /\ alive = {} /\ cleanups = {}
    /\ call = [c \in Conns |-> NotCalled]

(* A certificate that nothing refers to, not even a dead pointer, is free  *)
(* to stand for a new one.                                                 *)
Fresh ==
    {i \in Certs : /\ Dead(i) /\ \A k \in Servers : wcc[k] # i
                   /\ \A k \in Servers : <<k, i>> \notin cleanups
                   /\ \A c \in Conns : call[c].pc = "swap" => call[c].entry # i}

(* Load finds a certificate that is alive, or the certificate is parsed.   *)
Load(c, k) ==
    /\ call[c].pc \in {"none", "resumed"}
    /\ UNCHANGED <<wcc, cleanups>>
    /\ \/ /\ ~Dead(wcc[k])
          /\ call' = [call EXCEPT ![c] = Returned(wcc[k])]
          /\ UNCHANGED alive
       \/ /\ Dead(wcc[k]) /\ Fresh # {}
          /\ LET i == CHOOSE i \in Fresh : TRUE
             IN  /\ alive' = alive \cup {i}
                 /\ call' = [call EXCEPT ![c] = [pc |-> "store", cert |-> i]]

(* LoadOrStore: the new certificate is stored with its cleanup, or another *)
(* one is there: used if it is alive, to be replaced if it is not.         *)
LoadOrStore(c, k) ==
    /\ call[c].pc = "store"
    /\ UNCHANGED alive
    /\ \/ /\ wcc[k] = NoCert
          /\ wcc' = [wcc EXCEPT ![k] = call[c].cert]
          /\ cleanups' = cleanups \cup {<<k, call[c].cert>>}
          /\ call' = [call EXCEPT ![c] = Returned(@.cert)]
       \/ /\ wcc[k] # NoCert
          /\ call' = [call EXCEPT ![c] =
                        IF Dead(wcc[k]) THEN [pc |-> "swap", cert |-> @.cert, entry |-> wcc[k]]
                                        ELSE Returned(wcc[k])]
          /\ UNCHANGED <<wcc, cleanups>>

(* Mutant: the certificate that is swapped in gets no cleanup.             *)
SwapNoCleanup(c, k) ==
    /\ call[c].pc = "swap"
    /\ wcc' = IF wcc[k] = call[c].entry THEN [wcc EXCEPT ![k] = call[c].cert] ELSE wcc
    /\ call' = [call EXCEPT ![c] = Returned(@.cert)]
    /\ UNCHANGED <<alive, cleanups>>

(* CompareAndSwap, with a cleanup if it succeeds; if it fails the new      *)
(* certificate is returned without being cached.                           *)
Swap(c, k) ==
    /\ call[c].pc = "swap"
    /\ IF wcc[k] = call[c].entry
       THEN /\ wcc' = [wcc EXCEPT ![k] = call[c].cert]
            /\ cleanups' = cleanups \cup {<<k, call[c].cert>>}
       ELSE UNCHANGED <<wcc, cleanups>>
    /\ call' = [call EXCEPT ![c] = Returned(@.cert)]
    /\ UNCHANGED alive

(* The collector takes a certificate outside roots.                        *)
Collect(i, roots) ==
    /\ i \in alive \ roots
    /\ alive' = alive \ {i}
    /\ UNCHANGED <<wcc, cleanups, call>>

(* Mutant: the cleanup deletes whatever entry it finds.                    *)
CleanupAny(k, i) ==
    /\ <<k, i>> \in cleanups /\ Dead(i)
    /\ wcc' = [wcc EXCEPT ![k] = NoCert]
    /\ cleanups' = cleanups \ {<<k, i>>}
    /\ UNCHANGED <<alive, call>>

(* A cleanup deletes the entry of its certificate, unless the entry has    *)
(* been replaced (CompareAndDelete).                                       *)
Cleanup(k, i) ==
    /\ <<k, i>> \in cleanups /\ Dead(i)
    /\ wcc' = IF wcc[k] = i THEN [wcc EXCEPT ![k] = NoCert] ELSE wcc
    /\ cleanups' = cleanups \ {<<k, i>>}
    /\ UNCHANGED <<alive, call>>

-----------------------------------------------------------------------------
(* No entry is left behind for good: one whose certificate is collected    *)
(* still has its cleanup to come, however newCert calls raced with it.     *)
EntriesReclaimed ==
    \A k \in Servers : wcc[k] # NoCert => <<k, wcc[k]>> \in cleanups

(* An entry whose certificate is alive stays: as long as one connection or *)
(* session holds a cached certificate, every newCert for it shares it.     *)
LiveEntryStays ==
    [][\A k \in Servers : wcc[k] \in alive => wcc'[k] = wcc[k]]_certVars
=============================================================================
