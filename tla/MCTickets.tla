----------------------------- MODULE MCTickets -----------------------------
(* Instances of Tickets for TLC. *)
EXTENDS Tickets, TLC

OneKey == {[first |-> 1, old |-> {}]}

Both(m, c) == [cf \in {"main", "client"} |-> IF cf = "main" THEN m ELSE c]
SomeSetups ==
    {[disabled |-> Both(FALSE, FALSE), legacy |-> Both("empty", "empty")],
     [disabled |-> Both(FALSE, FALSE), legacy |-> Both("user", "empty")],
     [disabled |-> Both(FALSE, TRUE),  legacy |-> Both("empty", "user")],
     [disabled |-> Both(TRUE, FALSE),  legacy |-> Both("empty", "empty")]}
HandshakeSymmetry == Permutations(Handshakes)
=============================================================================
