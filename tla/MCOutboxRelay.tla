--------------------------- MODULE MCOutboxRelay ---------------------------
(* Small instances of OutboxRelay for TLC: an order and its cancel, and an *)
(* event of another order.                                                 *)
EXTENDS OutboxRelay, TLC

OrderThenCancel == {<<1, 2>>}

(* The relays run the same loop. *)
Symmetry == Permutations(Relays)
=============================================================================
