------------------------------- MODULE MCConn -------------------------------
(* Small instances of Conn for TLC. *)
EXTENDS Conn, TLC

Client13   == [vers |-> 13, isClient |-> TRUE, renegotiation |-> "Never"]
ClientOnce == [vers |-> 12, isClient |-> TRUE, renegotiation |-> "Once"]

BothVersions == {Client13, ClientOnce}

(* Goroutines are interchangeable. *)
GoroutineSymmetry == Permutations(Goroutines)
=============================================================================
