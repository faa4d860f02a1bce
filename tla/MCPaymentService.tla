-------------------------- MODULE MCPaymentService --------------------------
(* Small instances of PaymentService for TLC. *)
EXTENDS PaymentService, TLC

(* Handlers never look at the identity of an order or a worker. *)
Symmetry == Permutations(Orders) \cup Permutations(Workers)
=============================================================================
