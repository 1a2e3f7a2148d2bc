---------------------------- MODULE CachesProofs ----------------------------
(***************************************************************************)
(* Proofs about the two caches that client connections share, for every    *)
(* number of connections, servers, sessions and certificates and every     *)
(* capacity: the certificate cache neither leaks nor forgets, and the map  *)
(* and the list of the session cache are the cache of LRU, but for NilPut. *)
(***************************************************************************)
EXTENDS ClientCaches, SequenceTheorems, FiniteSetTheorems, TLAPS

(* RemoveAt closes the gap that an element leaves. *)
LEMMA RemoveAtFacts ==
  ASSUME NEW S, NEW s \in Seq(S), NEW i \in 1..Len(s)
  PROVE  /\ RemoveAt(s, i) \in Seq(S) /\ Len(RemoveAt(s, i)) = Len(s) - 1
         /\ \A j \in 1..Len(s)-1 : RemoveAt(s, i)[j] = IF j < i THEN s[j] ELSE s[j+1]
<1> DEFINE a == SubSeq(s, 1, i-1)
           b == SubSeq(s, i+1, Len(s))
<1>0. Len(s) \in Nat /\ i \in Nat
  BY LenProperties
<1>1. a \in Seq(S) /\ Len(a) = i-1 /\ \A j \in 1..i-1 : a[j] = s[j]
  BY <1>0, SubSeqProperties
<1>2. b \in Seq(S) /\ Len(b) = Len(s) - i /\ \A j \in 1..Len(s)-i : b[j] = s[i+j]
  BY <1>0, SubSeqProperties
<1> HIDE DEF a, b
<1>3. /\ a \o b \in Seq(S) /\ Len(a \o b) = Len(a) + Len(b)
      /\ \A j \in 1..Len(a)+Len(b) : (a \o b)[j] = IF j <= Len(a) THEN a[j] ELSE b[j - Len(a)]
  BY <1>1, <1>2, ConcatProperties
<1>4. RemoveAt(s, i) = a \o b
  BY DEF RemoveAt, a, b
<1>5. ASSUME NEW j \in 1..Len(s)-1 PROVE (a \o b)[j] = IF j < i THEN s[j] ELSE s[j+1]
  <2>1. CASE j < i
    BY <1>0, <1>1, <1>2, <1>3, <2>1
  <2>2. CASE ~(j < i)
    <3>1. (a \o b)[j] = b[j - (i-1)] /\ j - (i-1) \in 1..Len(s)-i
      BY <1>0, <1>1, <1>2, <1>3, <2>2
    <3> QED
      BY <1>0, <1>2, <2>2, <3>1
  <2> QED
    BY <2>1, <2>2
<1>6. a \o b \in Seq(S) /\ Len(a \o b) = Len(s) - 1
  BY <1>0, <1>1, <1>2, <1>3
<1> QED
  BY <1>4, <1>5, <1>6

(* An element put in front of a sequence moves the others back by one. *)
LEMMA InFrontFacts ==
  ASSUME NEW S, NEW s \in Seq(S), NEW e \in S
  PROVE  /\ <<e>> \o s \in Seq(S) /\ Len(<<e>> \o s) = Len(s) + 1
         /\ \A j \in 1..Len(s)+1 : (<<e>> \o s)[j] = IF j = 1 THEN e ELSE s[j-1]
<1>1. <<e>> \in Seq(S) /\ Len(<<e>>) = 1 /\ <<e>>[1] = e
  OBVIOUS
<1>2. Len(s) \in Nat
  BY LenProperties
<1> DEFINE a == <<e>>
<1> HIDE DEF a
<1>3. /\ a \o s \in Seq(S) /\ Len(a \o s) = Len(a) + Len(s)
      /\ \A j \in 1..Len(a)+Len(s) : (a \o s)[j] = IF j <= Len(a) THEN a[j] ELSE s[j - Len(a)]
  BY <1>1, ConcatProperties DEF a
<1>4. Len(a) = 1 /\ a[1] = e
  BY <1>1 DEF a
<1> QED
  BY <1>2, <1>3, <1>4 DEF a

-----------------------------------------------------------------------------
(* The certificate cache. *)

(* The steps of newCert and of the collector keep the invariant, and leave an  *)
(* entry alone whose certificate is alive.                                     *)
LiveStays == \A k \in Servers : wcc[k] \in alive => wcc'[k] = wcc[k]

LEMMA LoadCert ==
  ASSUME CertInv, NEW c \in Conns, NEW k \in Servers, CC!Load(c, k) PROVE CertInv' /\ LiveStays
<1> USE DEF CertInv, EntriesReclaimed, CC!EntriesReclaimed, LiveStays, InCall, CC!Load
<1>1. CASE ~CC!Dead(wcc[k])
  BY <1>1 DEF CC!Returned
<1>2. CASE CC!Dead(wcc[k])
  <2> DEFINE i == CHOOSE i \in CC!Fresh : TRUE
  <2>1. i \in CC!Fresh
    BY <1>2
  <2>2. i \in CC!Certs /\ \A d \in Conns : call[d].pc = "swap" => call[d].entry # i
    BY <2>1 DEF CC!Fresh
  <2>3. /\ alive' = alive \cup {i} /\ wcc' = wcc /\ cleanups' = cleanups
        /\ call' = [call EXCEPT ![c] = [pc |-> "store", cert |-> i]]
    BY <1>2
  <2> HIDE DEF i
  <2> QED
    BY <2>2, <2>3
<1> QED
  BY <1>1, <1>2

LEMMA LoadOrStoreCert ==
  ASSUME CertAssumption, CertInv, NEW c \in Conns, NEW k \in Servers, CC!LoadOrStore(c, k) PROVE CertInv' /\ LiveStays
<1> USE DEF CertInv, EntriesReclaimed, CC!EntriesReclaimed, LiveStays, InCall
<1>0. CC!NoCert \notin alive
  BY CertAssumption DEF CC!Certs, CC!NoCert
<1>1. CASE wcc[k] = CC!NoCert
  BY <1>0, <1>1 DEF CC!LoadOrStore, CC!Returned
<1>2. CASE wcc[k] # CC!NoCert
  BY <1>2 DEF CC!LoadOrStore, CC!Returned, CC!Dead
<1> QED
  BY <1>1, <1>2

LEMMA SwapCert ==
  ASSUME CertInv, NEW c \in Conns, NEW k \in Servers, CC!Swap(c, k) PROVE CertInv' /\ LiveStays
BY DEF CertInv, EntriesReclaimed, CC!EntriesReclaimed, LiveStays, InCall, CC!Swap, CC!Returned

LEMMA CollectCert ==
  ASSUME CertInv, NEW i, NEW roots, CC!Collect(i, roots) PROVE CertInv' /\ LiveStays
BY DEF CertInv, EntriesReclaimed, CC!EntriesReclaimed, LiveStays, InCall, CC!Collect

LEMMA CleanupCert ==
  ASSUME CertInv, NEW k \in Servers, NEW i, CC!Cleanup(k, i) PROVE CertInv' /\ LiveStays
BY DEF CertInv, EntriesReclaimed, CC!EntriesReclaimed, LiveStays, InCall, CC!Cleanup, CC!Dead

(* A client's step outside newCert leaves the cache alone, and no call behind  *)
(* that is about to store or to replace an entry.                              *)
LEMMA OtherCert ==
  ASSUME CertInv, CertsUnchanged, NEW c \in Conns, NEW x, UNCHANGED call \/ Offers(c, x) \/ Drops(c)
  PROVE  CertInv' /\ LiveStays
BY DEF CertInv, EntriesReclaimed, CC!EntriesReclaimed, LiveStays, InCall, CertsUnchanged, Offers, Drops,
       CC!Resumed, CC!NotCalled

LEMMA CertStep ==
  ASSUME CertAssumption, TypeOK, CertInv, [ClientNext]_clientVars
  PROVE  CertInv' /\ LiveStays
<1>1. CASE UNCHANGED clientVars
  BY <1>1 DEF clientVars, CertInv, EntriesReclaimed, CC!EntriesReclaimed, LiveStays, InCall
<1>2. CASE Collector
  BY <1>2, CollectCert, CleanupCert DEF Collector
<1>3. ASSUME NEW c \in Conns, ClientVerifies(c) PROVE CertInv' /\ LiveStays
  <2>1. th[c].server \in Servers
    BY <1>3 DEF ClientVerifies, TypeOK, Threads, Idle
  <2> QED
    BY <1>3, <2>1, LoadCert, LoadOrStoreCert, SwapCert DEF ClientVerifies
<1>4. ASSUME NEW c \in Conns, NEW k \in Servers, ClientLoads(c, k) PROVE CertInv' /\ LiveStays
  <2>1. CertsUnchanged /\ (UNCHANGED call \/ Offers(c, kept[m[k]]))
    BY <1>4 DEF ClientLoads
  <2> QED
    BY <2>1, OtherCert
<1>5. ASSUME NEW c \in Conns,
             ClientDeletes(c) \/ ClientCompletes(c) \/ ClientFails(c) \/ ClientCloses(c)
                \/ \E n \in 1..MaxSessions : ClientSaves(c, n)
      PROVE  CertInv' /\ LiveStays
  <2>1. CertsUnchanged /\ (UNCHANGED call \/ Drops(c))
    BY <1>5 DEF ClientDeletes, ClientCompletes, ClientFails, ClientCloses, ClientSaves
  <2> QED
    BY <2>1, OtherCert
<1> QED
  BY <1>1, <1>2, <1>3, <1>4, <1>5 DEF ClientNext

-----------------------------------------------------------------------------
(* The list of the session cache. *)

(* The elements of a sequence are the ones at its places. *)
LEMMA InRange ==
  ASSUME NEW S, NEW s \in Seq(S)
  PROVE  /\ \A x : x \in Range(s) <=> \E i \in 1..Len(s) : s[i] = x
         /\ Range(s) \subseteq S
         /\ IsInjective(s) <=> \A i, j \in 1..Len(s) : s[i] = s[j] => i = j
<1>1. DOMAIN s = 1..Len(s)
  BY LenProperties
<1> QED
  BY <1>1, RangeOfSeq DEF Range, IsInjective

(* The list loses one element, and nothing else. *)
LEMMA UnlinkFacts ==
  ASSUME q \in Seq(Elements), IsInjective(q), NEW e \in Range(q)
  PROVE  /\ Unlinked(e) \in Seq(Elements) /\ Len(Unlinked(e)) = Len(q) - 1 /\ IsInjective(Unlinked(e))
         /\ \A d : d \in Range(Unlinked(e)) <=> d \in Range(q) /\ d # e
<1> DEFINE i == CHOOSE i \in DOMAIN q : q[i] = e
<1>0. Len(q) \in Nat /\ DOMAIN q = 1..Len(q)
  BY LenProperties
<1>1. i \in 1..Len(q) /\ q[i] = e
  BY <1>0 DEF Range
<1>2. Unlinked(e) = RemoveAt(q, i)
  BY DEF Unlinked
<1> HIDE DEF i
<1> DEFINE u == RemoveAt(q, i)
<1>3. /\ u \in Seq(Elements) /\ Len(u) = Len(q) - 1
      /\ \A j \in 1..Len(q)-1 : u[j] = IF j < i THEN q[j] ELSE q[j+1]
  BY <1>1, RemoveAtFacts
<1> HIDE DEF u
<1>4. \A a, b \in 1..Len(q) : q[a] = q[b] => a = b
  BY InRange
<1>5. IsInjective(u)
  <2> SUFFICES ASSUME NEW a \in 1..Len(u), NEW b \in 1..Len(u), u[a] = u[b] PROVE a = b
    BY <1>3, InRange
  <2>1. PICK aa \in {a, a+1} : aa \in 1..Len(q) /\ u[a] = q[aa] /\ (aa = a <=> a < i)
    BY <1>0, <1>1, <1>3
  <2>2. PICK bb \in {b, b+1} : bb \in 1..Len(q) /\ u[b] = q[bb] /\ (bb = b <=> b < i)
    BY <1>0, <1>1, <1>3
  <2>3. aa = bb
    BY <1>4, <2>1, <2>2
  <2> QED
    BY <1>0, <1>1, <2>1, <2>2, <2>3
<1>6. ASSUME NEW d, d \in Range(u) PROVE d \in Range(q) /\ d # e
  <2>1. PICK j \in 1..Len(u) : u[j] = d
    BY <1>3, <1>6, InRange
  <2>2. PICK jj \in {j, j+1} : jj \in 1..Len(q) /\ u[j] = q[jj] /\ jj # i
    BY <1>0, <1>1, <1>3
  <2> QED
    BY <1>1, <1>4, <2>1, <2>2, InRange
<1>7. ASSUME NEW d, d \in Range(q), d # e PROVE d \in Range(u)
  <2>1. PICK j \in 1..Len(q) : q[j] = d
    BY <1>7, InRange
  <2>2. j # i
    BY <1>1, <1>7, <2>1
  <2>3. CASE j < i
    <3>1. j \in 1..Len(u) /\ u[j] = d
      BY <1>0, <1>1, <1>3, <2>1, <2>3
    <3> QED
      BY <1>3, <3>1, InRange
  <2>4. CASE j > i
    <3>1. j-1 \in 1..Len(u) /\ u[j-1] = d
      BY <1>0, <1>1, <1>3, <2>1, <2>4
    <3> QED
      BY <1>3, <3>1, InRange
  <2> QED
    BY <1>0, <1>1, <2>2, <2>3, <2>4
<1> QED
  BY <1>2, <1>3, <1>5, <1>6, <1>7 DEF u

(* An element that is not in a list is put in front of it. *)
LEMMA PushFacts ==
  ASSUME NEW s \in Seq(Elements), IsInjective(s), NEW e \in Elements, e \notin Range(s)
  PROVE  /\ <<e>> \o s \in Seq(Elements) /\ Len(<<e>> \o s) = Len(s) + 1 /\ IsInjective(<<e>> \o s)
         /\ \A d : d \in Range(<<e>> \o s) <=> d \in Range(s) \/ d = e
<1> DEFINE t == <<e>> \o s
<1>0. Len(s) \in Nat
  BY LenProperties
<1>1. /\ t \in Seq(Elements) /\ Len(t) = Len(s) + 1
      /\ \A j \in 1..Len(s)+1 : t[j] = IF j = 1 THEN e ELSE s[j-1]
  BY InFrontFacts
<1> HIDE DEF t
<1>2. \A a, b \in 1..Len(s) : s[a] = s[b] => a = b
  BY InRange
<1>3. \A a \in 1..Len(s) : s[a] # e
  BY InRange
<1>4. IsInjective(t)
  <2> SUFFICES ASSUME NEW a \in 1..Len(t), NEW b \in 1..Len(t), t[a] = t[b] PROVE a = b
    BY <1>1, InRange
  <2>1. a = 1 \/ (a-1 \in 1..Len(s) /\ t[a] = s[a-1])
    BY <1>0, <1>1
  <2>2. b = 1 \/ (b-1 \in 1..Len(s) /\ t[b] = s[b-1])
    BY <1>0, <1>1
  <2>3. t[1] = e
    BY <1>0, <1>1
  <2> QED
    BY <1>0, <1>1, <1>2, <1>3, <2>1, <2>2, <2>3
<1>5. ASSUME NEW d, d \in Range(t) PROVE d \in Range(s) \/ d = e
  <2>1. PICK j \in 1..Len(t) : t[j] = d
    BY <1>1, <1>5, InRange
  <2>2. j = 1 \/ (j-1 \in 1..Len(s) /\ t[j] = s[j-1])
    BY <1>0, <1>1
  <2> QED
    BY <1>0, <1>1, <2>1, <2>2, InRange
<1>6. e \in Range(t)
  <2>1. 1 \in 1..Len(t) /\ t[1] = e
    BY <1>0, <1>1
  <2> QED
    BY <1>1, <2>1, InRange
<1>7. ASSUME NEW d, d \in Range(s) PROVE d \in Range(t)
  <2>1. PICK j \in 1..Len(s) : s[j] = d
    BY <1>7, InRange
  <2>2. j+1 \in 1..Len(t) /\ t[j+1] = d
    BY <1>0, <1>1, <2>1
  <2> QED
    BY SMTT(30), <1>1, <2>2, InRange
<1> QED
  BY <1>1, <1>4, <1>5, <1>6, <1>7 DEF t

(* The list has the same elements when one of them has moved to its front. *)
LEMMA MoveFacts ==
  ASSUME q \in Seq(Elements), IsInjective(q), NEW e \in Range(q), MoveToFront(e)
  PROVE  /\ q' \in Seq(Elements) /\ Len(q') = Len(q) /\ IsInjective(q')
         /\ \A d : d \in Range(q') <=> d \in Range(q)
<1>1. /\ Unlinked(e) \in Seq(Elements) /\ Len(Unlinked(e)) = Len(q) - 1 /\ IsInjective(Unlinked(e))
      /\ \A d : d \in Range(Unlinked(e)) <=> d \in Range(q) /\ d # e
  BY UnlinkFacts
<1>2. e \in Elements /\ Len(q) \in Nat
  BY InRange, LenProperties
<1> DEFINE u == Unlinked(e)
<1> HIDE DEF u
<1>3. /\ <<e>> \o u \in Seq(Elements) /\ Len(<<e>> \o u) = Len(u) + 1 /\ IsInjective(<<e>> \o u)
      /\ \A d : d \in Range(<<e>> \o u) <=> d \in Range(u) \/ d = e
  BY <1>1, <1>2, PushFacts DEF u
<1>4. q' = <<e>> \o u
  BY DEF MoveToFront, u
<1> QED
  BY <1>1, <1>2, <1>3, <1>4 DEF u

(* A cache that is not full has a free element (the list has each of its       *)
(* elements once, and fewer than there are).                                   *)
LEMMA FreeElement ==
  ASSUME CacheAssumption, ListInv, Len(q) < Capacity PROVE \E e \in Elements : entry[e] = Unused
<1> SUFFICES ASSUME \A e \in Elements : entry[e] # Unused PROVE FALSE
  OBVIOUS
<1>1. q \in Seq(Elements) /\ Len(q) \in Nat
  BY LenProperties DEF ListInv, TypeOK
<1>2. \A e \in Elements : \E i \in 1..Len(q) : q[i] = e
  BY <1>1, InRange DEF ListInv
<1>3. q \in [1..Len(q) -> Elements]
  BY <1>1, LenProperties, ElementOfSeq
<1>4. q \in Surjection(1..Len(q), Elements)
  BY <1>2, <1>3 DEF Surjection
<1>5. Cardinality(Elements) <= Len(q)
  BY <1>1, <1>4, FS_SurjCardinalityBound DEF ExistsSurjection
<1>6. Cardinality(Elements) = Capacity
  BY FS_Interval, CacheAssumption DEF Elements
<1> QED
  BY <1>1, <1>5, <1>6, CacheAssumption

(* The parts of the invariant that the cache itself is about. *)
CacheInv == m \in [Servers -> Elements \cup {0}] /\ entry \in [Elements -> Entries \cup {Unused}]
            /\ q \in Seq(Elements) /\ Len(q) <= Capacity /\ IsInjective(q) /\ MapMatchesList
            /\ \A e \in Elements : e \in Range(q) <=> entry[e] # Unused

LEMMA CacheOfList == ListInv <=> CacheInv /\ th \in [Conns -> Threads]
BY DEF ListInv, CacheInv, TypeOK

(* What an entry holds, as opposed to an element that is free. *)
LEMMA EntryFacts ==
  ASSUME NEW k \in Servers, NEW s \in Sessions \cup {Nil}
  PROVE  /\ [key |-> k, state |-> s] \in Entries /\ [key |-> k, state |-> s].key = k
         /\ \A x \in Entries : x # Unused /\ x.key \in Servers /\ x.state \in Sessions \cup {Nil}
                              /\ [x EXCEPT !.state = s] \in Entries /\ [x EXCEPT !.state = s].key = x.key
<1>1. \A x \in Entries : DOMAIN x = {"key", "state"}
  BY DEF Entries
<1>2. DOMAIN Unused = {"state"}
  BY DEF Unused
<1>3. \A x \in Entries : x # Unused
  BY <1>1, <1>2
<1> QED
  BY <1>3 DEF Entries

LEMMA PutKnownList ==
  ASSUME CacheAssumption, CacheInv, NEW k \in Servers, NEW s \in Sessions \cup {Nil}, PutKnown(k, s) PROVE CacheInv'
<1> DEFINE e == m[k]
<1>1. e \in Elements /\ e \in Range(q) /\ entry[e].key = k /\ entry[e] \in Entries
  BY DEF PutKnown, CacheInv, MapMatchesList
<1>2. Elements \subseteq Nat \ {0}
  BY CacheAssumption DEF Elements
<1>3. CASE s = Nil
  <2>1. /\ q' = Unlinked(e) /\ m' = [m EXCEPT ![k] = 0] /\ entry' = [entry EXCEPT ![e] = Unused]
    BY <1>3 DEF PutKnown
  <2>2. /\ q' \in Seq(Elements) /\ Len(q') = Len(q) - 1 /\ IsInjective(q')
        /\ \A d : d \in Range(q') <=> d \in Range(q) /\ d # e
    BY <1>1, <2>1, UnlinkFacts DEF CacheInv
  <2>3. Len(q') <= Capacity
    BY <2>2, LenProperties, CacheAssumption DEF CacheInv
  <2> HIDE DEF e
  <2>4. MapMatchesList'
    BY <1>1, <1>2, <2>1, <2>2 DEF MapMatchesList, CacheInv
  <2> QED
    BY <1>1, <2>1, <2>2, <2>3, <2>4 DEF CacheInv
<1>4. CASE s # Nil
  <2>1. MoveToFront(e) /\ m' = m /\ entry' = [entry EXCEPT ![e].state = s]
    BY <1>4 DEF PutKnown
  <2>2. /\ q' \in Seq(Elements) /\ Len(q') = Len(q) /\ IsInjective(q')
        /\ \A d : d \in Range(q') <=> d \in Range(q)
    BY <1>1, <2>1, MoveFacts DEF CacheInv
  <2> HIDE DEF e
  <2>3. /\ entry'[e] \in Entries /\ entry'[e].key = k /\ entry'[e] # Unused
        /\ \A d \in Elements \ {e} : entry'[d] = entry[d]
        /\ entry' \in [Elements -> Entries \cup {Unused}]
    <3> DEFINE x == [entry[e] EXCEPT !.state = s]
    <3>1. x \in Entries /\ x.key = k /\ x # Unused
      BY <1>1, EntryFacts
    <3>2. entry' = [entry EXCEPT ![e] = x]
      BY <2>1
    <3> HIDE DEF x
    <3> QED
      BY <1>1, <3>1, <3>2 DEF CacheInv
  <2>4. MapMatchesList'
    BY <1>1, <2>1, <2>2, <2>3 DEF MapMatchesList, CacheInv
  <2>5. \A d \in Elements : d \in Range(q') <=> entry'[d] # Unused
    BY <1>1, <2>2, <2>3 DEF CacheInv
  <2> QED
    BY <2>1, <2>2, <2>3, <2>4, <2>5 DEF CacheInv
<1> QED
  BY <1>3, <1>4

LEMMA PutNewList ==
  ASSUME CacheAssumption, ListInv, NEW k \in Servers, NEW s \in Sessions \cup {Nil}, PutNew(k, s) PROVE CacheInv'
<1> DEFINE e == CHOOSE e \in Elements : entry[e] = Unused
           n == [key |-> k, state |-> s]
<1>0. CacheInv
  BY CacheOfList
<1>1. e \in Elements /\ entry[e] = Unused
  BY FreeElement DEF PutNew
<1>2. /\ m[k] = 0 /\ Len(q) < Capacity /\ entry' = [entry EXCEPT ![e] = n]
      /\ q' = <<e>> \o q /\ m' = [m EXCEPT ![k] = e]
  BY DEF PutNew
<1>3. n \in Entries /\ n # Unused /\ n.key = k
  BY EntryFacts
<1> HIDE DEF e, n
<1>4. e \notin Range(q)
  BY <1>0, <1>1 DEF CacheInv
<1>5. /\ q' \in Seq(Elements) /\ Len(q') = Len(q) + 1 /\ IsInjective(q')
      /\ \A d : d \in Range(q') <=> d \in Range(q) \/ d = e
  BY <1>0, <1>1, <1>2, <1>4, PushFacts DEF CacheInv
<1>6. Len(q') <= Capacity
  BY <1>0, <1>2, <1>5, LenProperties, CacheAssumption DEF CacheInv
<1>7. Elements \subseteq Nat \ {0}
  BY CacheAssumption DEF Elements
<1>8. MapMatchesList'
  BY <1>0, <1>1, <1>2, <1>3, <1>4, <1>5, <1>7 DEF MapMatchesList, CacheInv
<1> QED
  BY <1>0, <1>1, <1>2, <1>3, <1>5, <1>6, <1>8 DEF CacheInv

LEMMA PutEvictingList ==
  ASSUME CacheAssumption, CacheInv, NEW k \in Servers, NEW s \in Sessions \cup {Nil}, PutEvicting(k, s) PROVE CacheInv'
<1> DEFINE e == Last(q)
           o == entry[e].key
           n == [key |-> k, state |-> s]
<1>1. /\ m[k] = 0 /\ entry' = [entry EXCEPT ![e] = n] /\ MoveToFront(e)
      /\ m' = [m EXCEPT ![o] = 0, ![k] = e]
  BY DEF PutEvicting
<1>2. e \in Range(q) /\ e \in Elements
  <2>1. Len(q) \in 1..Len(q)
    BY LenProperties, CacheAssumption DEF CacheInv, PutEvicting
  <2> QED
    BY <2>1, InRange DEF CacheInv, Last
<1>3. entry[e] \in Entries /\ o \in Servers /\ m[o] = e
  <2>1. entry[e] \in Entries
    BY <1>2 DEF CacheInv
  <2>2. o \in Servers
    BY <2>1, EntryFacts
  <2> QED
    BY <1>2, <2>1, <2>2 DEF CacheInv, MapMatchesList
<1>4. n \in Entries /\ n # Unused /\ n.key = k
  BY EntryFacts
<1>5. /\ q' \in Seq(Elements) /\ Len(q') = Len(q) /\ IsInjective(q')
      /\ \A d : d \in Range(q') <=> d \in Range(q)
  BY <1>1, <1>2, MoveFacts DEF CacheInv
<1>6. Elements \subseteq Nat \ {0}
  BY CacheAssumption DEF Elements
<1> HIDE DEF e, o, n
<1>7. \A d \in Elements : m[o] = d <=> d = e
  BY <1>3, <1>2
<1>8. MapMatchesList'
  BY <1>1, <1>2, <1>3, <1>4, <1>5, <1>6 DEF MapMatchesList, CacheInv, o
<1> QED
  BY <1>1, <1>2, <1>3, <1>4, <1>5, <1>8 DEF CacheInv

LEMMA PutList ==
  ASSUME CacheAssumption, ListInv, NEW k \in Servers, NEW s \in Sessions \cup {Nil}, Put(k, s) PROVE CacheInv'
BY CacheOfList, PutKnownList, PutNewList, PutEvictingList DEF Put

LEMMA GetList ==
  ASSUME CacheAssumption, CacheInv, NEW k \in Servers, Get(k)
  PROVE  CacheInv' /\ Found(k) \in Sessions \cup {Nil}
<1>1. m[k] = 0 \/ (m[k] \in Elements /\ m[k] \in Range(q) /\ entry[m[k]] \in Entries)
  BY DEF CacheInv, MapMatchesList
<1>2. m' = m /\ entry' = entry
  BY DEF Get
<1>3. Found(k) \in Sessions \cup {Nil}
  BY <1>1 DEF Found, Entries
<1>4. CASE m[k] = 0
  BY <1>2, <1>3, <1>4 DEF Get, CacheInv, MapMatchesList
<1>5. CASE m[k] # 0
  <2>1. /\ q' \in Seq(Elements) /\ Len(q') = Len(q) /\ IsInjective(q')
        /\ \A d : d \in Range(q') <=> d \in Range(q)
    BY <1>1, <1>5, MoveFacts DEF Get, CacheInv
  <2> QED
    BY <1>2, <1>3, <2>1 DEF CacheInv, MapMatchesList
<1> QED
  BY <1>4, <1>5

(* Every step of the session cache keeps its invariant. *)
LEMMA ListStep ==
  ASSUME CacheAssumption, ListInv, [Next]_vars PROVE ListInv'
<1>0. CacheInv /\ th \in [Conns -> Threads]
  BY CacheOfList
<1>1. CASE UNCHANGED vars
  <2>1. UNCHANGED <<m, q, entry, th>>
    BY <1>1 DEF vars
  <2>2. CacheInv'
    BY <1>0, <2>1 DEF CacheInv, MapMatchesList
  <2> QED
    BY <1>0, <2>1, <2>2, CacheOfList DEF ListInv, CacheInv, TypeOK
<1>2. ASSUME NEW c \in Conns, NEW k \in Servers, LoadSession(c, k) PROVE CacheInv' /\ th' \in [Conns -> Threads]
  <2>1. CacheInv' /\ Found(k) \in Sessions \cup {Nil}
    BY <1>0, <1>2, GetList DEF LoadSession
  <2>2. th' \in [Conns -> Threads]
    BY <1>0, <1>2, <2>1 DEF LoadSession, Goes, Threads
  <2> QED
    BY <2>1, <2>2
<1>3. ASSUME NEW c \in Conns, th[c].pc # "idle" PROVE th[c].server \in Servers
  BY <1>0, <1>3 DEF Threads, Idle
<1>4. ASSUME NEW c \in Conns, DeleteExpired(c) \/ Fails(c) \/ Completes(c) \/ Closes(c)
      PROVE  CacheInv' /\ th' \in [Conns -> Threads]
  <2>1. th[c].server \in Servers
    BY <1>3, <1>4 DEF DeleteExpired, Fails, Completes, Closes
  <2>2. Put(th[c].server, Nil) \/ UNCHANGED <<m, q, entry>>
    BY <1>4 DEF DeleteExpired, Fails, Completes, Closes
  <2>3. CacheInv'
    <3>1. CASE Put(th[c].server, Nil)
      BY <2>1, <3>1, PutList
    <3>2. CASE UNCHANGED <<m, q, entry>>
      BY <1>0, <3>2 DEF CacheInv, MapMatchesList
    <3> QED
      BY <2>2, <3>1, <3>2
  <2>4. th' \in [Conns -> Threads]
    BY <1>0, <1>4, <2>1 DEF DeleteExpired, Fails, Completes, Closes, Goes, Threads
  <2> QED
    BY <2>3, <2>4
<1>5. ASSUME NEW c \in Conns, NEW n \in 1..MaxSessions, SaveSession(c, n)
      PROVE  CacheInv' /\ th' \in [Conns -> Threads]
  <2>1. th[c].server \in Servers
    BY <1>3, <1>5 DEF SaveSession
  <2>2. [server |-> th[c].server, n |-> n] \in Sessions
    BY <2>1 DEF Sessions
  <2> QED
    BY <1>0, <1>5, <2>1, <2>2, PutList DEF SaveSession
<1>6. CASE Next
  <2>1. CacheInv' /\ th' \in [Conns -> Threads]
    BY <1>2, <1>4, <1>5, <1>6 DEF Next
  <2> QED
    BY <2>1 DEF ListInv, CacheInv, TypeOK
<1> QED
  BY <1>1, <1>6

(* What a client does with the certificates is no step of the session cache,   *)
(* and the rest is.                                                            *)
LEMMA SessionSteps == [ClientNext]_clientVars => [Next]_vars
BY DEF ClientNext, clientVars, Next, Collector, ClientLoads, ClientDeletes, ClientVerifies, ClientSaves,
       ClientCompletes, ClientFails, ClientCloses

-----------------------------------------------------------------------------
(* The refinement. *)

(* The entries of a list s of elements. *)
Mapped(f, s) == [i \in DOMAIN s |-> f[s[i]]]

LEMMA RecentIsMapped == Recent = Mapped(entry, q)
BY DEF Recent, Mapped

LEMMA MappedFacts ==
  ASSUME NEW T, NEW f \in [Elements -> T], NEW s \in Seq(Elements)
  PROVE  /\ Mapped(f, s) \in Seq(T) /\ Len(Mapped(f, s)) = Len(s)
         /\ \A i \in 1..Len(s) : Mapped(f, s)[i] = f[s[i]]
<1>1. DOMAIN s = 1..Len(s) /\ Len(s) \in Nat
  BY LenProperties
<1>2. \A i \in 1..Len(s) : s[i] \in Elements
  BY ElementOfSeq
<1>3. Mapped(f, s) = [i \in 1..Len(s) |-> f[s[i]]]
  BY <1>1 DEF Mapped
<1>4. [i \in 1..Len(s) |-> f[s[i]]] \in Seq(T)
  BY <1>1, <1>2, IsASeq
<1> QED
  BY <1>1, <1>3, <1>4, LenProperties

(* The entries of a list without one element are the ones of the list without  *)
(* the entry of that element.                                                  *)
LEMMA MappedRemoveAt ==
  ASSUME NEW T, NEW f \in [Elements -> T], NEW s \in Seq(Elements), NEW i \in 1..Len(s)
  PROVE  Mapped(f, RemoveAt(s, i)) = RemoveAt(Mapped(f, s), i)
<1> DEFINE u == RemoveAt(s, i)
           a == Mapped(f, s)
<1>0. Len(s) \in Nat
  BY LenProperties
<1>1. /\ u \in Seq(Elements) /\ Len(u) = Len(s) - 1
      /\ \A j \in 1..Len(s)-1 : u[j] = IF j < i THEN s[j] ELSE s[j+1]
  BY RemoveAtFacts
<1>2. a \in Seq(T) /\ Len(a) = Len(s) /\ \A j \in 1..Len(s) : a[j] = f[s[j]]
  BY MappedFacts
<1> HIDE DEF u, a
<1>3. /\ RemoveAt(a, i) \in Seq(T) /\ Len(RemoveAt(a, i)) = Len(s) - 1
      /\ \A j \in 1..Len(s)-1 : RemoveAt(a, i)[j] = IF j < i THEN a[j] ELSE a[j+1]
  BY <1>2, RemoveAtFacts
<1>4. Mapped(f, u) \in Seq(T) /\ Len(Mapped(f, u)) = Len(u) /\ \A j \in 1..Len(u) : Mapped(f, u)[j] = f[u[j]]
  BY <1>1, MappedFacts, ZenonT(40)
<1>5. ASSUME NEW j \in 1..Len(s)-1 PROVE Mapped(f, u)[j] = RemoveAt(a, i)[j]
  <2>1. j \in 1..Len(s) /\ j+1 \in 1..Len(s) /\ j \in 1..Len(u)
    BY <1>0, <1>1
  <2>2. CASE j < i
    <3>1. u[j] = s[j] /\ RemoveAt(a, i)[j] = a[j]
      BY <1>1, <1>3, <2>2
    <3> QED
      BY <1>2, <1>4, <2>1, <3>1
  <2>3. CASE ~(j < i)
    <3>1. u[j] = s[j+1] /\ RemoveAt(a, i)[j] = a[j+1]
      BY <1>1, <1>3, <2>3
    <3> QED
      BY <1>2, <1>4, <2>1, <3>1
  <2> QED
    BY <2>2, <2>3
<1> QED
  BY <1>1, <1>3, <1>4, <1>5, SeqEqual DEF u, a

LEMMA MappedInFront ==
  ASSUME NEW T, NEW f \in [Elements -> T], NEW s \in Seq(Elements), NEW e \in Elements
  PROVE  Mapped(f, <<e>> \o s) = <<f[e]>> \o Mapped(f, s)
<1> DEFINE u == <<e>> \o s
           a == Mapped(f, s)
           x == f[e]
<1>0. Len(s) \in Nat /\ x \in T
  BY LenProperties
<1>1. /\ u \in Seq(Elements) /\ Len(u) = Len(s) + 1
      /\ \A j \in 1..Len(s)+1 : u[j] = IF j = 1 THEN e ELSE s[j-1]
  BY InFrontFacts
<1>2. a \in Seq(T) /\ Len(a) = Len(s) /\ \A j \in 1..Len(s) : a[j] = f[s[j]]
  BY MappedFacts
<1> HIDE DEF u, a
<1> DEFINE v == <<x>> \o a
<1>3. v \in Seq(T) /\ Len(v) = Len(s) + 1 /\ \A j \in 1..Len(s)+1 : v[j] = IF j = 1 THEN x ELSE a[j-1]
  BY <1>0, <1>2, InFrontFacts
<1> HIDE DEF v
<1>4. Mapped(f, u) \in Seq(T) /\ Len(Mapped(f, u)) = Len(u) /\ \A j \in 1..Len(u) : Mapped(f, u)[j] = f[u[j]]
  BY ZenonT(40), <1>1, MappedFacts
<1>5. ASSUME NEW j \in 1..Len(s)+1 PROVE Mapped(f, u)[j] = v[j]
  <2>1. Mapped(f, u)[j] = f[u[j]]
    BY <1>1, <1>4
  <2>2. CASE j = 1
    BY <1>1, <1>3, <2>1, <2>2
  <2>3. CASE j # 1
    <3>1. j-1 \in 1..Len(s)
      BY <1>0, <2>3
    <3>2. u[j] = s[j-1] /\ v[j] = a[j-1] /\ a[j-1] = f[s[j-1]]
      BY <1>1, <1>2, <1>3, <2>3, <3>1
    <3> QED
      BY <2>1, <3>2
  <2> QED
    BY <2>2, <2>3
<1>6. Mapped(f, u) = v
  <2> DEFINE w == Mapped(f, u)
  <2>1. w \in Seq(T) /\ Len(w) = Len(v) /\ \A j \in 1..Len(v) : w[j] = v[j]
    BY <1>1, <1>3, <1>4, <1>5
  <2> HIDE DEF w
  <2>2. w = v
    BY <1>3, <2>1, SeqEqual
  <2> QED
    BY <2>2 DEF w
<1> QED
  BY <1>6 DEF u, a, v

(* Entries of elements outside a list do not matter. *)
LEMMA MappedSame ==
  ASSUME NEW f, NEW g, NEW s \in Seq(Elements), \A d \in Range(s) : f[d] = g[d]
  PROVE  Mapped(f, s) = Mapped(g, s)
BY DEF Mapped, Range

(* Dropping the last of a sequence with a new front drops the last of it. *)
LEMMA FrontInFront ==
  ASSUME NEW T, NEW s \in Seq(T), s # <<>>, NEW x \in T
  PROVE  Front(<<x>> \o s) = <<x>> \o RemoveAt(s, Len(s))
<1> DEFINE t == <<x>> \o s
           u == RemoveAt(s, Len(s))
<1>0. Len(s) \in Nat /\ Len(s) >= 1 /\ Len(s) \in 1..Len(s)
  BY LenProperties, EmptySeq
<1>1. /\ t \in Seq(T) /\ Len(t) = Len(s) + 1
      /\ \A j \in 1..Len(s)+1 : t[j] = IF j = 1 THEN x ELSE s[j-1]
  BY InFrontFacts
<1>2. /\ u \in Seq(T) /\ Len(u) = Len(s) - 1
      /\ \A j \in 1..Len(s)-1 : u[j] = IF j < Len(s) THEN s[j] ELSE s[j+1]
  BY <1>0, RemoveAtFacts
<1> HIDE DEF t, u
<1> DEFINE v == <<x>> \o u
<1>3. v \in Seq(T) /\ Len(v) = Len(u) + 1 /\ \A j \in 1..Len(u)+1 : v[j] = IF j = 1 THEN x ELSE u[j-1]
  BY <1>2, InFrontFacts
<1> HIDE DEF v
<1>4. Front(t) = SubSeq(t, 1, Len(s))
  BY <1>0, <1>1 DEF Front
<1>5. Front(t) \in Seq(T) /\ Len(Front(t)) = Len(s) /\ \A j \in 1..Len(s) : Front(t)[j] = t[j]
  BY <1>0, <1>1, <1>4, SubSeqProperties
<1>6. ASSUME NEW j \in 1..Len(s) PROVE Front(t)[j] = v[j]
  <2>1. j = 1 \/ (j-1 \in 1..Len(s)-1 /\ j-1 < Len(s))
    BY <1>0
  <2> QED
    BY <1>0, <1>1, <1>2, <1>3, <1>5, <2>1
<1>7. Front(t) = v
  <2>1. Len(v) = Len(s)
    BY <1>0, <1>2, <1>3
  <2> QED
    BY <1>3, <1>5, <1>6, <2>1, SeqEqual
<1> QED
  BY <1>7 DEF t, u, v

(* The entries in the order of use have the names that the map knows. *)
LEMMA RecentFacts ==
  ASSUME CacheAssumption, CacheInv
  PROVE  /\ Recent \in Seq(Entries) /\ Len(Recent) = Len(q) /\ DOMAIN Recent = 1..Len(q)
         /\ \A i \in 1..Len(q) : /\ Recent[i] = entry[q[i]] /\ q[i] \in Elements /\ entry[q[i]] \in Entries
                                 /\ q[i] # 0 /\ m[Recent[i].key] = q[i]
<1>1. q \in Seq(Elements) /\ Len(q) \in Nat
  BY LenProperties DEF CacheInv
<1>2. /\ Recent \in Seq(Entries \cup {Unused}) /\ Len(Recent) = Len(q)
      /\ \A i \in 1..Len(q) : Recent[i] = entry[q[i]]
  BY SMTT(30), <1>1, MappedFacts, RecentIsMapped DEF CacheInv
<1>3. ASSUME NEW i \in 1..Len(q)
      PROVE  q[i] \in Elements /\ entry[q[i]] \in Entries /\ q[i] # 0 /\ m[entry[q[i]].key] = q[i]
  <2>1. q[i] \in Elements /\ q[i] \in Range(q)
    BY <1>1, InRange
  <2>2. entry[q[i]] \in Entries
    BY <2>1 DEF CacheInv
  <2>3. entry[q[i]].key \in Servers
    BY <2>2 DEF Entries
  <2>4. q[i] # 0
    BY <2>1, CacheAssumption DEF Elements
  <2> QED
    BY <2>1, <2>2, <2>3, <2>4 DEF CacheInv, MapMatchesList
<1>4. DOMAIN Recent = 1..Len(q)
  BY <1>2, LenProperties
<1>5. Recent = [i \in 1..Len(q) |-> entry[q[i]]]
  BY <1>2, <1>4, <1>1, LenProperties DEF Recent, Mapped
<1>6. Recent \in Seq(Entries)
  BY <1>1, <1>3, <1>5, IsASeq
<1> QED
  BY <1>2, <1>3, <1>4, <1>6

(* The abstract cache seen through the map: without an element for a name it   *)
(* has no entry ...                                                            *)
LEMMA AbsentFacts ==
  ASSUME CacheAssumption, CacheInv, NEW k \in Servers, m[k] = 0
  PROVE  ~Abstract!Has(k) /\ Abstract!Others(k) = Recent
<1>1. \A i \in DOMAIN Recent : Recent[i].key # k
  BY RecentFacts
<1>2. ~Abstract!Has(k)
  BY <1>1 DEF Abstract!Has, Recent, Mapped
<1> QED
  BY <1>2 DEF Abstract!Others, Recent, Mapped

(* ... and with one it has the entry of that element, at its place.            *)
LEMMA PresentFacts ==
  ASSUME CacheAssumption, CacheInv, NEW k \in Servers, NEW i \in 1..Len(q), q[i] = m[k]
  PROVE  /\ Abstract!Has(k) /\ Abstract!Others(k) = RemoveAt(Recent, i)
         /\ entry[m[k]] = [key |-> k, state |-> Abstract!StateOf(k)]
<1>1. Recent[i] = entry[m[k]] /\ i \in DOMAIN Recent /\ entry[m[k]] \in Entries
  BY RecentFacts
<1>2. entry[m[k]].key = k
  BY RecentFacts DEF CacheInv, MapMatchesList
<1>3. \A j \in DOMAIN Recent : Recent[j].key = k => j = i
  <2>1. \A j \in 1..Len(q) : Recent[j].key = k => q[j] = q[i]
    BY RecentFacts
  <2>2. \A j \in 1..Len(q) : q[j] = q[i] => j = i
    BY InRange DEF CacheInv
  <2> QED
    BY <2>1, <2>2, RecentFacts
<1>4. Abstract!Has(k)
  BY <1>1, <1>2 DEF Abstract!Has, Recent, Mapped
<1>5. Abstract!Place(k) = i
  BY <1>1, <1>2, <1>3 DEF Abstract!Place, Recent, Mapped
<1>6. Abstract!Others(k) = RemoveAt(Recent, i)
  BY <1>4, <1>5, ZenonT(40) DEF Abstract!Others, Abstract!RemoveAt, RemoveAt, Recent, Mapped
<1>7. Abstract!StateOf(k) = entry[m[k]].state
  BY <1>1, <1>5 DEF Abstract!StateOf, Recent, Mapped
<1> QED
  BY <1>1, <1>2, <1>4, <1>6, <1>7 DEF Entries

(* A step of the cache is a step of the abstract one, a nil Put for a name     *)
(* that has no entry, or none.                                                 *)
AbstractStep == Abstract!Next \/ NilPut \/ Recent' = Recent

(* The list without its element at place i. *)
LEMMA RecentUnlinked ==
  ASSUME CacheAssumption, CacheInv, CacheInv', NEW i \in 1..Len(q),
         \A d \in Elements \ {q[i]} : entry'[d] = entry[d]
  PROVE  /\ Unlinked(q[i]) \in Seq(Elements)
         /\ Mapped(entry', Unlinked(q[i])) = RemoveAt(Recent, i)
<1> DEFINE e == q[i]
           u == RemoveAt(q, i)
<1>0. q \in Seq(Elements) /\ DOMAIN q = 1..Len(q) /\ IsInjective(q)
  BY LenProperties DEF CacheInv
<1>1. Unlinked(e) = u
  BY <1>0 DEF Unlinked, IsInjective
<1>2. e \in Range(q)
  BY SMTT(30), <1>0, InRange
<1>3. Unlinked(e) \in Seq(Elements) /\ \A d : d \in Range(Unlinked(e)) <=> d \in Range(q) /\ d # e
  BY <1>0, <1>2, UnlinkFacts
<1>4. \A d \in Range(u) : entry'[d] = entry[d]
  BY <1>0, <1>1, <1>3, InRange
<1>5. Mapped(entry', u) = Mapped(entry, u)
  BY <1>1, <1>3, <1>4, MappedSame
<1>6. Mapped(entry, u) = RemoveAt(Recent, i)
  BY <1>0, MappedRemoveAt, RecentIsMapped DEF CacheInv
<1> QED
  BY <1>1, <1>3, <1>5, <1>6

(* The list after its element at place i has moved to the front. *)
LEMMA RecentMoved ==
  ASSUME CacheAssumption, CacheInv, CacheInv', NEW i \in 1..Len(q), MoveToFront(q[i]),
         \A d \in Elements \ {q[i]} : entry'[d] = entry[d]
  PROVE  Recent' = <<entry'[q[i]]>> \o RemoveAt(Recent, i)
<1> DEFINE u == Unlinked(q[i])
<1>1. u \in Seq(Elements) /\ Mapped(entry', u) = RemoveAt(Recent, i)
  BY RecentUnlinked
<1>2. q[i] \in Elements /\ entry' \in [Elements -> Entries \cup {Unused}]
  BY RecentFacts DEF CacheInv
<1>3. q' = <<q[i]>> \o u
  BY DEF MoveToFront
<1> HIDE DEF u
<1>4. Mapped(entry', <<q[i]>> \o u) = <<entry'[q[i]]>> \o Mapped(entry', u)
  BY <1>1, <1>2, MappedInFront
<1>5. Recent' = Mapped(entry', q')
  BY DEF Recent, Mapped
<1> QED
  BY <1>1, <1>3, <1>4, <1>5

(* The place of the element that the map has for a name. *)
LEMMA PlaceOf ==
  ASSUME CacheInv, NEW k \in Servers, m[k] # 0 PROVE \E i \in 1..Len(q) : q[i] = m[k]
BY InRange DEF CacheInv, MapMatchesList

(* A name that is found is moved to the front. *)
LEMMA GetAbstract ==
  ASSUME CacheAssumption, CacheInv, NEW k \in Servers, Get(k) PROVE AbstractStep
<1>0. CacheInv'
  BY GetList
<1>1. CASE m[k] = 0
  BY <1>1 DEF Get, AbstractStep, Recent, Mapped
<1>2. CASE m[k] # 0
  <2>1. PICK i \in 1..Len(q) : q[i] = m[k]
    BY <1>2, PlaceOf
  <2>2. MoveToFront(q[i]) /\ entry' = entry
    BY <1>2, <2>1 DEF Get
  <2>3. Recent' = <<entry[m[k]]>> \o RemoveAt(Recent, i)
    BY <1>0, <2>1, <2>2, RecentMoved
  <2>4. /\ Abstract!Has(k) /\ Abstract!Others(k) = RemoveAt(Recent, i)
        /\ entry[m[k]] = [key |-> k, state |-> Abstract!StateOf(k)]
    BY <2>1, PresentFacts
  <2>5. Recent' = Abstract!InFront(k, Abstract!StateOf(k))
    BY <2>3, <2>4 DEF Abstract!InFront
  <2>6. Abstract!Touch(k)
    BY <2>4, <2>5 DEF Abstract!Touch, Recent, Mapped
  <2> QED
    BY <2>6 DEF AbstractStep, Abstract!Next
<1> QED
  BY <1>1, <1>2

(* A new entry for a name, behind which the others come in their order: it has *)
(* a session, or the name had no entry.                                        *)
LEMMA StoreFacts ==
  ASSUME CacheAssumption, CacheInv, NEW k \in Servers, NEW s \in Sessions \cup {Nil},
         s # Nil \/ ~Abstract!Has(k),
         NEW o \in Seq(Entries), Abstract!Others(k) = o,
         \/ Len(o) < Capacity /\ Recent' = <<[key |-> k, state |-> s]>> \o o
         \/ Len(o) = Capacity /\ Recent' = <<[key |-> k, state |-> s]>> \o RemoveAt(o, Len(o))
  PROVE  AbstractStep
<1> DEFINE x == [key |-> k, state |-> s]
<1>0. Len(o) \in Nat /\ Capacity \in Nat \ {0} /\ x \in Entries
  BY LenProperties, CacheAssumption, EntryFacts
<1>1. Abstract!InFront(k, s) = <<x>> \o o
  BY DEF Abstract!InFront
<1>2. Len(<<x>> \o o) = Len(o) + 1
  BY <1>0, InFrontFacts
<1>3. Recent' = IF Len(Abstract!InFront(k, s)) > Capacity THEN Front(Abstract!InFront(k, s))
                ELSE Abstract!InFront(k, s)
  <2>1. CASE Len(o) < Capacity
    BY <1>0, <1>1, <1>2, <2>1
  <2>2. CASE Len(o) = Capacity
    <3>1. o # <<>>
      BY <1>0, <2>2
    <3>2. Front(<<x>> \o o) = <<x>> \o RemoveAt(o, Len(o))
      BY <1>0, <3>1, FrontInFront
    <3>3. Recent' = <<x>> \o RemoveAt(o, Len(o))
      BY <1>0, <2>2
    <3>4. Len(Abstract!InFront(k, s)) > Capacity
      BY <1>0, <1>1, <1>2, <2>2
    <3> QED
      BY <1>1, <3>2, <3>3, <3>4
  <2> QED
    BY <2>1, <2>2
<1>4. Abstract!Store(k, s)
  BY <1>3 DEF Abstract!Store, Abstract!Front, Front, Recent, Mapped
<1>5. CASE s # Nil
  BY <1>4, <1>5 DEF AbstractStep, Abstract!Next
<1>6. CASE s = Nil
  BY <1>4, <1>6 DEF AbstractStep, NilPut
<1> QED
  BY <1>5, <1>6

LEMMA PutKnownAbstract ==
  ASSUME CacheAssumption, CacheInv, CacheInv', NEW k \in Servers, NEW s \in Sessions \cup {Nil}, PutKnown(k, s)
  PROVE  AbstractStep
<1>1. PICK i \in 1..Len(q) : q[i] = m[k]
  BY PlaceOf DEF PutKnown
<1>2. /\ Abstract!Has(k) /\ Abstract!Others(k) = RemoveAt(Recent, i)
      /\ entry[m[k]] = [key |-> k, state |-> Abstract!StateOf(k)]
  BY <1>1, PresentFacts
<1>3. m[k] \in Elements /\ entry[m[k]] \in Entries
  BY <1>1, RecentFacts
<1>4. \A d \in Elements \ {q[i]} : entry'[d] = entry[d]
  BY <1>1, <1>3 DEF PutKnown, CacheInv
<1>5. CASE s = Nil
  <2>1. q' = Unlinked(q[i])
    BY <1>1, <1>5 DEF PutKnown
  <2>2. Recent' = RemoveAt(Recent, i)
    BY <1>4, <2>1, RecentUnlinked DEF Recent, Mapped
  <2>3. Abstract!Erase(k)
    BY <1>2, <2>2 DEF Abstract!Erase, Recent, Mapped
  <2> QED
    BY <2>3 DEF AbstractStep, Abstract!Next
<1>6. CASE s # Nil
  <2>1. MoveToFront(q[i]) /\ entry' = [entry EXCEPT ![m[k]].state = s]
    BY <1>1, <1>6 DEF PutKnown
  <2>2. entry'[q[i]] = [key |-> k, state |-> s]
    <3>1. entry'[q[i]] = [entry[m[k]] EXCEPT !.state = s]
      BY <1>1, <1>3, <2>1 DEF CacheInv
    <3> QED
      BY <1>2, <3>1
  <2>3. Recent' = <<[key |-> k, state |-> s]>> \o RemoveAt(Recent, i)
    BY <1>4, <2>1, <2>2, RecentMoved
  <2>4. RemoveAt(Recent, i) \in Seq(Entries) /\ Len(RemoveAt(Recent, i)) < Capacity
    <3>1. Recent \in Seq(Entries) /\ Len(Recent) = Len(q) /\ Len(q) \in Nat /\ Len(q) <= Capacity
      BY RecentFacts, LenProperties DEF CacheInv
    <3> HIDE DEF Recent
    <3>2. RemoveAt(Recent, i) \in Seq(Entries) /\ Len(RemoveAt(Recent, i)) = Len(q) - 1
      BY <3>1, RemoveAtFacts
    <3> QED
      BY <3>1, <3>2, CacheAssumption
  <2> QED
    BY <1>2, <1>6, <2>3, <2>4, StoreFacts
<1> QED
  BY <1>5, <1>6

LEMMA PutNewAbstract ==
  ASSUME CacheAssumption, ListInv, CacheInv', NEW k \in Servers, NEW s \in Sessions \cup {Nil}, PutNew(k, s)
  PROVE  AbstractStep
<1> DEFINE e == CHOOSE e \in Elements : entry[e] = Unused
           n == [key |-> k, state |-> s]
<1>0. CacheInv
  BY CacheOfList
<1>1. e \in Elements /\ entry[e] = Unused
  BY FreeElement DEF PutNew
<1>2. m[k] = 0 /\ Len(q) < Capacity /\ entry' = [entry EXCEPT ![e] = n] /\ q' = <<e>> \o q
  BY DEF PutNew
<1> HIDE DEF e, n
<1>3. q \in Seq(Elements) /\ e \notin Range(q) /\ entry' \in [Elements -> Entries \cup {Unused}]
  BY <1>0, <1>1 DEF CacheInv
<1>4. entry'[e] = n /\ \A d \in Range(q) : entry'[d] = entry[d]
  BY <1>0, <1>1, <1>2, <1>3, InRange DEF CacheInv
<1>5. Mapped(entry', <<e>> \o q) = <<n>> \o Mapped(entry', q)
  BY <1>1, <1>3, <1>4, MappedInFront
<1>6. Mapped(entry', q) = Recent
  BY <1>3, <1>4, MappedSame, RecentIsMapped
<1>7. Recent' = <<n>> \o Recent
  BY <1>2, <1>5, <1>6 DEF Recent, Mapped
<1>8. Recent \in Seq(Entries) /\ Len(Recent) < Capacity
  BY <1>0, <1>2, RecentFacts
<1>9. ~Abstract!Has(k) /\ Abstract!Others(k) = Recent
  BY <1>0, <1>2, AbsentFacts
<1> QED
  BY <1>0, <1>7, <1>8, <1>9, StoreFacts DEF n

LEMMA PutEvictingAbstract ==
  ASSUME CacheAssumption, CacheInv, CacheInv', NEW k \in Servers, NEW s \in Sessions \cup {Nil}, PutEvicting(k, s)
  PROVE  AbstractStep
<1> DEFINE n == [key |-> k, state |-> s]
<1>0. Len(q) \in 1..Len(q) /\ Len(q) = Capacity /\ m[k] = 0
  BY LenProperties, CacheAssumption DEF CacheInv, PutEvicting
<1>1. MoveToFront(q[Len(q)]) /\ entry' = [entry EXCEPT ![q[Len(q)]] = n]
  BY DEF PutEvicting, Last
<1> HIDE DEF n
<1>2. q[Len(q)] \in Elements
  BY <1>0, RecentFacts
<1>3. entry'[q[Len(q)]] = n /\ \A d \in Elements \ {q[Len(q)]} : entry'[d] = entry[d]
  BY <1>1, <1>2 DEF CacheInv
<1>4. Recent' = <<n>> \o RemoveAt(Recent, Len(q))
  BY <1>0, <1>1, <1>3, RecentMoved
<1>5. Recent \in Seq(Entries) /\ Len(Recent) = Len(q)
  BY RecentFacts
<1>6. ~Abstract!Has(k) /\ Abstract!Others(k) = Recent
  BY <1>0, AbsentFacts
<1> QED
  BY <1>0, <1>4, <1>5, <1>6, StoreFacts DEF n

LEMMA PutAbstract ==
  ASSUME CacheAssumption, ListInv, NEW k \in Servers, NEW s \in Sessions \cup {Nil}, Put(k, s) PROVE AbstractStep
BY CacheOfList, PutList, PutKnownAbstract, PutNewAbstract, PutEvictingAbstract DEF Put

LEMMA AbstractNext ==
  ASSUME CacheAssumption, ListInv, [Next]_vars PROVE AbstractStep
<1>0. CacheInv /\ th \in [Conns -> Threads]
  BY CacheOfList
<1>1. CASE UNCHANGED <<m, q, entry>>
  BY <1>1 DEF AbstractStep, Recent, Mapped
<1>2. ASSUME NEW c \in Conns, NEW k \in Servers, LoadSession(c, k) PROVE AbstractStep
  BY <1>0, <1>2, GetAbstract DEF LoadSession
<1>3. ASSUME NEW c \in Conns, th[c].pc # "idle" PROVE th[c].server \in Servers
  BY <1>0, <1>3 DEF Threads, Idle
<1>4. ASSUME NEW c \in Conns, DeleteExpired(c) \/ Fails(c) PROVE AbstractStep
  <2>1. th[c].server \in Servers
    BY <1>3, <1>4 DEF DeleteExpired, Fails
  <2>2. Put(th[c].server, Nil) \/ UNCHANGED <<m, q, entry>>
    BY <1>4 DEF DeleteExpired, Fails
  <2> QED
    BY <1>1, <2>1, <2>2, PutAbstract
<1>5. ASSUME NEW c \in Conns, NEW n \in 1..MaxSessions, SaveSession(c, n) PROVE AbstractStep
  <2>1. th[c].server \in Servers
    BY <1>3, <1>5 DEF SaveSession
  <2>2. [server |-> th[c].server, n |-> n] \in Sessions
    BY <2>1 DEF Sessions
  <2> QED
    BY <1>5, <2>1, <2>2, PutAbstract DEF SaveSession
<1>6. CASE UNCHANGED vars
  BY <1>1, <1>6 DEF vars
<1>7. ASSUME NEW c \in Conns, Completes(c) \/ Closes(c) PROVE AbstractStep
  BY <1>1, <1>7 DEF Completes, Closes
<1> QED
  BY <1>2, <1>4, <1>5, <1>6, <1>7 DEF Next

-----------------------------------------------------------------------------
(* The theorems. *)

(* The invariants of both caches hold in every reachable state of the client   *)
(* side (cache.go, and lruSessionCache of common.go).                          *)
THEOREM CachesInvariant == ClientSpec => [](ListInv /\ CertInv)
<1>1. ClientInit => ListInv /\ CertInv
  <2> SUFFICES ASSUME ClientInit PROVE ListInv /\ CertInv
    OBVIOUS
  <2>1. /\ m = [k \in Servers |-> 0] /\ q = <<>> /\ entry = [e \in Elements |-> Unused]
        /\ th = [c \in Conns |-> Idle]
    BY DEF ClientInit, Init
  <2>2. q \in Seq(Elements) /\ Len(q) = 0 /\ IsInjective(q) /\ Range(q) = {}
    BY <2>1, InRange DEF Range, IsInjective
  <2>3. \A e \in Elements : e # 0
    BY CacheAssumption DEF Elements
  <2>4. TypeOK
    BY <2>1, <2>2, CacheAssumption DEF TypeOK, Threads
  <2>5. ListInv
    BY <2>1, <2>2, <2>3, <2>4 DEF ListInv, MapMatchesList
  <2>6. CertInv
    BY DEF ClientInit, CC!CertInit, CC!NotCalled, CertInv, EntriesReclaimed, CC!EntriesReclaimed, InCall
  <2> QED
    BY <2>5, <2>6
<1>2. ListInv /\ CertInv /\ [ClientNext]_clientVars => (ListInv /\ CertInv)'
  BY SessionSteps, ListStep, CertStep, CacheAssumption, CertAssumption DEF ListInv
<1> QED
  BY <1>1, <1>2, PTL DEF ClientSpec

(* The types, the bound on the list and its being without repetition.          *)
THEOREM ListTypes == ClientSpec => []TypeOK
<1>1. ListInv => TypeOK
  BY DEF ListInv
<1> QED
  BY <1>1, CachesInvariant, PTL

(* Whatever was put, evicted and deleted, by whichever connections, the map    *)
(* and the list of the session cache agree (lruSessionCache, common.go).       *)
THEOREM MapAlwaysMatchesList == ClientSpec => []MapMatchesList
<1>1. ListInv => MapMatchesList
  BY DEF ListInv
<1> QED
  BY <1>1, CachesInvariant, PTL

(* But for the nil Put of an absent name, the session cache is the             *)
(* least-recently-used cache that it is documented to be: every Put and Get of *)
(* common.go is a step of the abstract one, at any capacity, and that Put does *)
(* no more than store an entry.                                                *)
THEOREM SessionCacheIsLRU == ClientSpec => LRUButForNilPut
<1>1. ClientInit => Abstract!Init
  <2> SUFFICES ASSUME ClientInit PROVE Abstract!Init
    OBVIOUS
  <2>1. q = <<>> /\ DOMAIN q = {}
    BY DEF ClientInit, Init
  <2> QED
    BY <2>1 DEF Abstract!Init, Recent
<1>2. ListInv /\ [ClientNext]_clientVars => [Abstract!Next \/ NilPut]_Recent
  BY SessionSteps, AbstractNext, CacheAssumption DEF AbstractStep
<1> QED
  BY <1>1, <1>2, CachesInvariant, PTL DEF ClientSpec, LRUButForNilPut

(* However calls of newCert race with the collector and with each other, an    *)
(* entry of the certificate cache has its cleanup to come (cache.go).          *)
THEOREM NoEntryLeaks == ClientSpec => []EntriesReclaimed
<1>1. CertInv => EntriesReclaimed
  BY DEF CertInv
<1> QED
  BY <1>1, CachesInvariant, PTL

(* No call, late cleanup or collection takes the entry of a certificate that   *)
(* is alive out of the certificate cache or replaces it (cache.go).            *)
THEOREM LiveEntriesStay == ClientSpec => LiveEntryStays
<1>1. ListInv /\ CertInv /\ [ClientNext]_clientVars
      => [\A k \in Servers : wcc[k] \in alive => wcc'[k] = wcc[k]]_(CC!certVars)
  BY CertStep, CertAssumption DEF ListInv, LiveStays
<1> QED
  BY <1>1, CachesInvariant, PTL DEF ClientSpec, LiveEntryStays, CC!LiveEntryStays
=============================================================================
