------------------------- MODULE InventoryLifecycle -------------------------
(***************************************************************************)
(* What Inventory Service promises about an order: one verdict, a piece    *)
(* less for each order that gets one, and a piece more for each kind of    *)
(* compensation, in atomic steps.  There are no transactions, locks,       *)
(* workers or redeliveries here.                                           *)
(***************************************************************************)
EXTENDS Naturals

CONSTANTS Orders, Products, Product, Stocked

VARIABLES
  stock,     \* what is left of each product
  verdict,   \* what each order was told: "deducted", "failed", or "open"
  restocked  \* the compensations each order has had

vars == <<stock, verdict, restocked>>

Compensations == {"order.cancelled", "payment.failed"}

Init ==
  /\ stock = Stocked
  /\ verdict = [o \in Orders |-> "open"]
  /\ restocked = [o \in Orders |-> {}]

(* Mutant: the last piece is not looked at. *)
DeductAlways(o) ==
  /\ verdict[o] = "open"
  /\ verdict' = [verdict EXCEPT ![o] = "deducted"]
  /\ stock' = [stock EXCEPT ![Product[o]] = @ - 1]
  /\ UNCHANGED restocked

Deduct(o) ==
  /\ verdict[o] = "open"
  /\ stock[Product[o]] > 0
  /\ verdict' = [verdict EXCEPT ![o] = "deducted"]
  /\ stock' = [stock EXCEPT ![Product[o]] = @ - 1]
  /\ UNCHANGED restocked

(* Refused.  There was nothing left when the service looked, which it does *)
(* without a lock: a restock may have been committed since.                *)
Refuse(o) ==
  /\ verdict[o] = "open"
  /\ verdict' = [verdict EXCEPT ![o] = "failed"]
  /\ UNCHANGED <<stock, restocked>>

(* A compensation puts a piece back whatever the verdict, or before it.    *)
Restock(o, t) ==
  /\ t \notin restocked[o]
  /\ restocked' = [restocked EXCEPT ![o] = @ \cup {t}]
  /\ stock' = [stock EXCEPT ![Product[o]] = @ + 1]
  /\ UNCHANGED verdict

Next ==
  \E o \in Orders :
    Deduct(o) \/ Refuse(o) \/ \E t \in Compensations : Restock(o, t)

Spec == Init /\ [][Next]_vars
=============================================================================
