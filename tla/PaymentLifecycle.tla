-------------------------- MODULE PaymentLifecycle --------------------------
(***************************************************************************)
(* What Payment Service promises the other services about an order: a      *)
(* cancel recorded by the service and the one outcome it announces.  Every *)
(* step here is atomic: there are no transactions, locks, workers,         *)
(* redeliveries or Stripe calls.  A completed payment that is cancelled    *)
(* becomes refunded in the same step, a cancelled payment is never         *)
(* announced as completed or failed, and a final outcome never changes.    *)
(***************************************************************************)
CONSTANT Orders

VARIABLES
  outcome,    \* what has been announced about each order
  cancelled   \* orders whose cancel has been recorded

vars == <<outcome, cancelled>>

Init ==
  /\ outcome = [o \in Orders |-> "open"]
  /\ cancelled = {}

Complete(o) ==
  /\ o \notin cancelled
  /\ outcome[o] = "open"
  /\ outcome' = [outcome EXCEPT ![o] = "completed"]
  /\ UNCHANGED cancelled

Fail(o) ==
  /\ o \notin cancelled
  /\ outcome[o] = "open"
  /\ outcome' = [outcome EXCEPT ![o] = "failed"]
  /\ UNCHANGED cancelled

(* The cancel of a completed payment refunds it in the same step. *)
Cancel(o) ==
  /\ o \notin cancelled
  /\ cancelled' = cancelled \cup {o}
  /\ outcome' = IF outcome[o] = "completed"
                  THEN [outcome EXCEPT ![o] = "refunded"]
                  ELSE outcome

(* The charge of a cancelled order turned out to have succeeded. *)
LateRefund(o) ==
  /\ o \in cancelled
  /\ outcome[o] = "open"
  /\ outcome' = [outcome EXCEPT ![o] = "refunded"]
  /\ UNCHANGED cancelled

Next == \E o \in Orders : Complete(o) \/ Fail(o) \/ Cancel(o) \/ LateRefund(o)

Spec == Init /\ [][Next]_vars
=============================================================================
