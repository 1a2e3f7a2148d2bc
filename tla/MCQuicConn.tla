----------------------------- MODULE MCQuicConn -----------------------------
(* Instances of QuicConn for TLC. *)
EXTENDS QuicConn

SomeCfgs ==
    {[isClient |-> TRUE,  sessionEvents |-> TRUE,  min13 |-> TRUE],
     [isClient |-> FALSE, sessionEvents |-> FALSE, min13 |-> TRUE],
     [isClient |-> TRUE,  sessionEvents |-> FALSE, min13 |-> FALSE]}
=============================================================================
