--------------------------- MODULE MCOrderService ---------------------------
(* Small instances of OrderService for TLC. *)
EXTENDS OrderService, TLC

(* Handlers never look at the identity of an order or a worker. *)
Symmetry == Permutations(Orders) \cup Permutations(Workers)
=============================================================================
