--------------------------- MODULE OrderLifecycle ---------------------------
(***************************************************************************)
(* What Order Service promises about an order: it is created once and      *)
(* cancelled at most once, and the event that says so is written in the    *)
(* same step.  There are no requests, transactions or answers here.        *)
(***************************************************************************)
CONSTANT Orders

VARIABLES
  orders,  \* the status of each order, "none" before it exists
  events   \* the events written for other services

vars == <<orders, events>>

Event(t, o) == [type |-> t, order |-> o]

Init ==
  /\ orders = [o \in Orders |-> "none"]
  /\ events = {}

Create(o) ==
  /\ orders[o] = "none"
  /\ orders' = [orders EXCEPT ![o] = "pending"]
  /\ events' = events \cup {Event("order.created", o)}

(* No status but pending can be cancelled, and no other service changes    *)
(* the status: an order whose payment succeeded or failed is pending too.  *)
Cancel(o) ==
  /\ orders[o] = "pending"
  /\ orders' = [orders EXCEPT ![o] = "cancelled"]
  /\ events' = events \cup {Event("order.cancelled", o)}

Next == \E o \in Orders : Create(o) \/ Cancel(o)

Spec == Init /\ [][Next]_vars
=============================================================================
