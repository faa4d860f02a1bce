--------------------------- MODULE MCPaymentSaga ---------------------------
(* Small instances of PaymentSaga for TLC: orders that compete for the     *)
(* only piece of one product.                                              *)
EXTENDS PaymentSaga

OneProduct == [o \in Orders |-> CHOOSE p \in Products : TRUE]
OnePiece   == [p \in Products |-> 1]
=============================================================================
