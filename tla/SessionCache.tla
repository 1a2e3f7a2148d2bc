---------------------------- MODULE SessionCache ----------------------------
(***************************************************************************)
(* lruSessionCache of common.go, shared by the client connections of a     *)
(* Config: a map from server names to the elements of a doubly linked list *)
(* that it keeps in the order of use, and the way a client handshake uses  *)
(* it: loadSession, the deletion of a session that is expired or that a    *)
(* handshake failed with, and the storing of new tickets                   *)
(* (handshake_client.go, handshake_client_tls13.go).  Put and Get hold the *)
(* mutex of the cache and are one step each.                               *)
(***************************************************************************)
EXTENDS Naturals, SequencesExt

CONSTANTS Conns,        \* client connections
          Servers,      \* clientSessionCacheKey: names of servers
          Capacity,     \* c.capacity
          MaxSessions   \* bound: distinct sessions of one server

ASSUME CacheAssumption == Capacity \in Nat \ {0} /\ MaxSessions \in Nat \ {0}

VARIABLES m,       \* server -> its element, 0 if it has none
          q,       \* the elements, most recently used first
          entry,   \* element -> lruSessionCacheEntry
          th       \* connection -> place in the code, its server, the session it offers

vars == <<m, q, entry, th>>

Elements == 1..Capacity
Sessions == [server : Servers, n : 1..MaxSessions]
Nil      == [n |-> 0]
Entries  == [key : Servers, state : Sessions \cup {Nil}]
Unused   == [state |-> Nil]
Idle     == [pc |-> "idle"]
Threads  == {Idle} \cup [pc : {"expired", "handshake", "open"}, server : Servers,
                         session : Sessions \cup {Nil}]

(* The variables keep their types; the list holds an element once, and no more *)
(* of them than the capacity.                                                  *)
TypeOK ==
    /\ m \in [Servers -> Elements \cup {0}]
    /\ q \in Seq(Elements) /\ Len(q) <= Capacity /\ IsInjective(q)
    /\ entry \in [Elements -> Entries \cup {Unused}]
    /\ th \in [Conns -> Threads]

Init == /\ m = [k \in Servers |-> 0] /\ q = <<>>
        /\ entry = [e \in Elements |-> Unused]
        /\ th = [c \in Conns |-> Idle]

-----------------------------------------------------------------------------
(* The cache. *)

(* The list without one of its elements. *)
Unlinked(e)    == RemoveAt(q, CHOOSE i \in DOMAIN q : q[i] = e)
MoveToFront(e) == q' = <<e>> \o Unlinked(e)

(* A known name loses its entry (cs = nil) or is updated ... *)
PutKnown(k, cs) ==
    LET e == m[k] IN
    /\ e # 0
    /\ IF cs = Nil
       THEN q' = Unlinked(e) /\ m' = [m EXCEPT ![k] = 0] /\ entry' = [entry EXCEPT ![e] = Unused]
       ELSE MoveToFront(e) /\ UNCHANGED m /\ entry' = [entry EXCEPT ![e].state = cs]

(* ... a new one gets a new element (one that is free) ... *)
PutNew(k, cs) ==
    /\ m[k] = 0 /\ Len(q) < Capacity
    /\ LET e == CHOOSE e \in Elements : entry[e] = Unused
       IN  /\ entry' = [entry EXCEPT ![e] = [key |-> k, state |-> cs]]
           /\ q' = <<e>> \o q /\ m' = [m EXCEPT ![k] = e]

(* Mutant: the name of the evicted entry stays in the map. *)
PutEvictingForgetful(k, cs) ==
    /\ m[k] = 0 /\ Len(q) >= Capacity
    /\ LET e == Last(q)
       IN  /\ entry' = [entry EXCEPT ![e] = [key |-> k, state |-> cs]]
           /\ MoveToFront(e) /\ m' = [m EXCEPT ![k] = e]

(* Mutant: the most recently used entry makes room. *)
PutEvictingNewest(k, cs) ==
    /\ m[k] = 0 /\ Len(q) >= Capacity
    /\ LET e == Head(q)
       IN  /\ entry' = [entry EXCEPT ![e] = [key |-> k, state |-> cs]]
           /\ MoveToFront(e) /\ m' = [m EXCEPT ![entry[e].key] = 0, ![k] = e]

(* ... or, in a full cache, the least recently used one, which is renamed. *)
PutEvicting(k, cs) ==
    /\ m[k] = 0 /\ Len(q) >= Capacity
    /\ LET e == Last(q)
       IN  /\ entry' = [entry EXCEPT ![e] = [key |-> k, state |-> cs]]
           /\ MoveToFront(e) /\ m' = [m EXCEPT ![entry[e].key] = 0, ![k] = e]

Put(k, cs) == PutKnown(k, cs) \/ PutNew(k, cs) \/ PutEvicting(k, cs)

Get(k) == /\ IF m[k] # 0 THEN MoveToFront(m[k]) ELSE UNCHANGED q
          /\ UNCHANGED <<m, entry>>
Found(k) == IF m[k] # 0 THEN entry[m[k]].state ELSE Nil

-----------------------------------------------------------------------------
(* The client handshake. *)

Goes(c, pc, k, s) == th' = [th EXCEPT ![c] = [pc |-> pc, server |-> k, session |-> s]]

(* loadSession offers the session it finds, or leaves it alone (wrong version, *)
(* cipher suite or host name), or is about to delete it as expired.            *)
LoadSession(c, k) ==
    /\ th[c].pc = "idle" /\ Get(k)
    /\ \/ Goes(c, "handshake", k, Nil)
       \/ Found(k) # Nil /\ Goes(c, "handshake", k, Found(k))
       \/ Found(k) # Nil /\ Goes(c, "expired", k, Nil)

DeleteExpired(c) ==
    /\ th[c].pc = "expired" /\ Put(th[c].server, Nil)
    /\ Goes(c, "handshake", th[c].server, Nil)

(* A ticket arrives during the handshake (TLS 1.2) or behind it (TLS 1.3). *)
SaveSession(c, n) ==
    /\ th[c].pc \in {"handshake", "open"}
    /\ Put(th[c].server, [server |-> th[c].server, n |-> n])
    /\ UNCHANGED th

Completes(c) ==
    /\ th[c].pc = "handshake" /\ Goes(c, "open", th[c].server, Nil)
    /\ UNCHANGED <<m, q, entry>>

(* A handshake that fails throws away the session that it tried to resume. *)
Fails(c) ==
    /\ th[c].pc = "handshake"
    /\ IF th[c].session # Nil THEN Put(th[c].server, Nil) ELSE UNCHANGED <<m, q, entry>>
    /\ th' = [th EXCEPT ![c] = Idle]

Closes(c) ==
    /\ th[c].pc = "open"
    /\ th' = [th EXCEPT ![c] = Idle]
    /\ UNCHANGED <<m, q, entry>>

Next == \E c \in Conns :
    \/ \E k \in Servers : LoadSession(c, k)
    \/ DeleteExpired(c) \/ Completes(c) \/ Fails(c) \/ Closes(c)
    \/ \E n \in 1..MaxSessions : SaveSession(c, n)

Spec == Init /\ [][Next]_vars

-----------------------------------------------------------------------------
(* Properties. *)

(* The map leads to an element of the list by the name in its entry, and to    *)
(* every one: eviction renames an element, and has to move it in the map too.  *)
MapMatchesList ==
    \A k \in Servers, e \in Elements :
        m[k] = e <=> e \in Range(q) /\ entry[e].key = k

Recent   == [i \in DOMAIN q |-> entry[q[i]]]
Abstract == INSTANCE LRU WITH recent <- Recent

(* The one step that LRU does not have: Put looks at cs = nil only for a name  *)
(* that it knows, so the second of two deletions stores an entry without a     *)
(* session, in front of the others, where common.go promises a removal.        *)
NilPut == \E k \in Servers : ~Abstract!Has(k) /\ Abstract!Store(k, Nil)

(* But for that step the map and the list together behave as the cache that    *)
(* the comments on ClientSessionCache and on Put describe: the order of use,   *)
(* the eviction of the entry used longest ago, the bound, one entry per name,  *)
(* and the removal by a nil session; and that step does no more than store an  *)
(* entry like any other.                                                       *)
LRUButForNilPut == Abstract!Init /\ [][Abstract!Next \/ NilPut]_Recent
=============================================================================
