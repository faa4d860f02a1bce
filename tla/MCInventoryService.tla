------------------------- MODULE MCInventoryService -------------------------
(* Small instances of InventoryService for TLC: orders that compete for    *)
(* the only piece of one product.                                          *)
EXTENDS InventoryService, TLC

OneProduct == [o \in Orders |-> CHOOSE p \in Products : TRUE]
OnePiece   == [p \in Products |-> 1]

(* All orders are for the one product and no handler looks at identities.  *)
Symmetry == Permutations(Orders) \cup Permutations(Workers)
=============================================================================
