--------------------------------- MODULE LRU ---------------------------------
(***************************************************************************)
(* What the session cache promises, in the words of ClientSessionCache and *)
(* lruSessionCache (common.go): the entries, the most recently used first, *)
(* at most Capacity of them, one per server; a session is put in front,    *)
(* and a nil session in Put removes the entry of its server, if any.       *)
(***************************************************************************)
EXTENDS Naturals, SequencesExt

CONSTANTS Servers, Sessions, Capacity

VARIABLE recent      \* sequence of [key, state], most recently used first

Has(k)     == \E i \in DOMAIN recent : recent[i].key = k
Place(k)   == CHOOSE i \in DOMAIN recent : recent[i].key = k
StateOf(k) == recent[Place(k)].state
Others(k)  == IF Has(k) THEN RemoveAt(recent, Place(k)) ELSE recent
InFront(k, s) == <<[key |-> k, state |-> s]>> \o Others(k)

Touch(k)    == Has(k) /\ recent' = InFront(k, StateOf(k))
Store(k, s) == recent' = IF Len(InFront(k, s)) > Capacity THEN Front(InFront(k, s)) ELSE InFront(k, s)
Erase(k)    == recent' = Others(k)

Init == recent = <<>>
Next == \E k \in Servers : Touch(k) \/ Erase(k) \/ \E s \in Sessions : Store(k, s)
Spec == Init /\ [][Next]_recent
=============================================================================
