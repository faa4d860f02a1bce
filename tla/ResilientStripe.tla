-------------------------- MODULE ResilientStripe --------------------------
(***************************************************************************)
(* The Stripe client one process of Payment Service shares between its     *)
(* handlers (internal/resilientstripe/client.go): every call is a sequence *)
(* of attempts (retry-go) counted as one success or failure by a circuit   *)
(* breaker (gobreaker), one breaker for charges and one for refunds.       *)
(*                                                                         *)
(* A behaviour is the life of one process; a restart begins another, with  *)
(* closed breakers.  Time is only what the breaker makes of it: whether    *)
(* its timeout has elapsed since it opened.                                *)
(***************************************************************************)
EXTENDS Naturals

CONSTANTS
  Charger,    \* the goroutine consuming order.created, the only one to charge
  Refunders,  \* the goroutine consuming order.cancelled and the webhooks
  Attempts,   \* attempts per call: len(retryDelays)
  Threshold   \* consecutive failed calls that open a breaker

ASSUME ChargerAssumption   == Charger \notin Refunders
ASSUME AttemptsAssumption  == Attempts \in Nat \ {0}
ASSUME ThresholdAssumption == Threshold \in Nat \ {0}

Callers     == {Charger} \cup Refunders
Breakers    == {"stripe", "stripe-refund"}
MaxRequests == 1

(* Mutant: charges and refunds share a breaker. *)
SharedBreaker(c) == "stripe"
BreakerOf(c) == IF c = Charger THEN "stripe" ELSE "stripe-refund"

VARIABLES
  \* Stripe
  healthy,   \* every request is answered, and with a success
  \* gobreaker
  state,     \* the state of each breaker
  failures,  \* its counts.ConsecutiveFailures
  requests,  \* its counts.Requests, of which only MaxRequests matter
  expired,   \* open breakers whose timeout has elapsed
  current,   \* callers let through in the present generation of their breaker
  \* The calls
  pc,        \* what each caller does
  tries,     \* failed attempts of its call
  charge     \* what the Charger's last call returned

breakerVars == <<state, failures, requests, expired, current>>
callVars    == <<pc, tries, charge>>
vars        == <<healthy, breakerVars, callVars>>

Steps   == {"idle", "trying", "succeeded", "failed", "cancelled"}
Results == {"none", "succeeded", "failed", "cancelled", "ErrOpenState", "ErrTooManyRequests"}

(* The types of the variables.                                             *)
TypeOK ==
  /\ healthy \in BOOLEAN
  /\ state \in [Breakers -> {"closed", "open", "half-open"}]
  /\ failures \in [Breakers -> Nat]
  /\ requests \in [Breakers -> 0 .. MaxRequests]
  /\ expired \subseteq Breakers
  /\ current \subseteq Callers
  /\ pc \in [Callers -> Steps]
  /\ tries \in [Callers -> 0 .. Attempts]
  /\ charge \in Results

Init ==
  /\ healthy \in BOOLEAN
  /\ state = [b \in Breakers |-> "closed"]
  /\ failures = [b \in Breakers |-> 0]
  /\ requests = [b \in Breakers |-> 0]
  /\ expired = {}
  /\ current = {}
  /\ pc = [c \in Callers |-> "idle"]
  /\ tries = [c \in Callers |-> 0]
  /\ charge = "none"

Of(b) == {c \in Callers : BreakerOf(c) = b}

-----------------------------------------------------------------------------
(* The environment *)

(* Stripe, the network or a row of declined cards: outages come and go.    *)
HealthChanges ==
  /\ healthy' = ~healthy
  /\ UNCHANGED <<breakerVars, callVars>>

(* The timeout of an open breaker elapses. *)
TimeoutElapses(b) ==
  /\ state[b] = "open" /\ b \notin expired
  /\ expired' = expired \cup {b}
  /\ UNCHANGED <<healthy, state, failures, requests, current, callVars>>

-----------------------------------------------------------------------------
(* gobreaker *)

(* currentState: an open breaker becomes half-open when it is next looked  *)
(* at after its timeout.                                                   *)
CurrentState(b) == IF state[b] = "open" /\ b \in expired THEN "half-open" ELSE state[b]

(* setState: a new state is a new generation: its counts start at zero and *)
(* the calls of older ones no longer matter.                               *)
SetState(b, s) ==
  /\ state' = [state EXCEPT ![b] = s]
  /\ failures' = [failures EXCEPT ![b] = 0]
  /\ requests' = [requests EXCEPT ![b] = 0]
  /\ expired' = expired \ {b}
  /\ current' = current \ Of(b)

(* Only the consumer of order.created looks at the kind of error.          *)
Returns(c, result) == charge' = IF c = Charger THEN result ELSE charge

(* Mutant: the half-open breaker does not count the calls it lets through. *)
AdmitManyTrials(c) ==
  LET b == BreakerOf(c) IN
  /\ pc[c] = "idle"
  /\ CurrentState(b) = "half-open"
  /\ state' = [state EXCEPT ![b] = "half-open"]
  /\ failures' = [failures EXCEPT ![b] = 0]
  /\ requests' = [requests EXCEPT ![b] = 0]
  /\ expired' = expired \ {b}
  /\ current' = (IF state[b] = "open" THEN current \ Of(b) ELSE current) \cup {c}
  /\ pc' = [pc EXCEPT ![c] = "trying"]
  /\ tries' = [tries EXCEPT ![c] = 0]
  /\ UNCHANGED <<healthy, charge>>

(* Execute, beforeRequest: a closed breaker lets every call through.       *)
Admit(c) ==
  /\ pc[c] = "idle"
  /\ state[BreakerOf(c)] = "closed"
  /\ current' = current \cup {c}
  /\ pc' = [pc EXCEPT ![c] = "trying"]
  /\ tries' = [tries EXCEPT ![c] = 0]
  /\ UNCHANGED <<healthy, state, failures, requests, expired, charge>>

(* A half-open breaker lets MaxRequests calls of its generation through.   *)
AdmitTrial(c) ==
  LET b == BreakerOf(c) IN
  /\ pc[c] = "idle"
  /\ CurrentState(b) = "half-open"
  /\ state[b] = "open" \/ requests[b] < MaxRequests
  /\ state' = [state EXCEPT ![b] = "half-open"]
  /\ failures' = [failures EXCEPT ![b] = 0]
  /\ requests' = [requests EXCEPT ![b] = IF state[b] = "open" THEN 1 ELSE @ + 1]
  /\ expired' = expired \ {b}
  /\ current' = (IF state[b] = "open" THEN current \ Of(b) ELSE current) \cup {c}
  /\ pc' = [pc EXCEPT ![c] = "trying"]
  /\ tries' = [tries EXCEPT ![c] = 0]
  /\ UNCHANGED <<healthy, charge>>

(* Refused without an attempt: the circuit is open.                        *)
RefuseOpen(c) ==
  /\ pc[c] = "idle"
  /\ CurrentState(BreakerOf(c)) = "open"
  /\ tries' = [tries EXCEPT ![c] = 0]
  /\ Returns(c, "ErrOpenState")
  /\ UNCHANGED <<healthy, breakerVars, pc>>

(* Refused without an attempt: the trial of a half-open breaker is under   *)
(* way.                                                                    *)
RefuseTrial(c) ==
  /\ pc[c] = "idle"
  /\ state[BreakerOf(c)] = "half-open"
  /\ requests[BreakerOf(c)] >= MaxRequests
  /\ tries' = [tries EXCEPT ![c] = 0]
  /\ Returns(c, "ErrTooManyRequests")
  /\ UNCHANGED <<healthy, breakerVars, pc>>

-----------------------------------------------------------------------------
(* retry.DoWithData around the inner client *)

AttemptSucceeds(c) ==
  /\ pc[c] = "trying"
  /\ pc' = [pc EXCEPT ![c] = "succeeded"]
  /\ UNCHANGED <<healthy, breakerVars, tries, charge>>

(* An attempt fails: after a delay comes the next, until none is left.     *)
AttemptFails(c) ==
  /\ pc[c] = "trying"
  /\ ~healthy
  /\ tries' = [tries EXCEPT ![c] = @ + 1]
  /\ pc' = [pc EXCEPT ![c] = IF tries[c] + 1 = Attempts THEN "failed" ELSE "trying"]
  /\ UNCHANGED <<healthy, breakerVars, charge>>

(* The context of the call ends: a shutdown, or a webhook whose client has *)
(* gone away.                                                              *)
ContextEnds(c) ==
  /\ pc[c] = "trying"
  /\ pc' = [pc EXCEPT ![c] = "cancelled"]
  /\ UNCHANGED <<healthy, breakerVars, tries, charge>>

-----------------------------------------------------------------------------
(* Execute, afterRequest: the result of a call is counted, any error as a  *)
(* failure, and the call returns.                                          *)
Return(c) ==
  /\ pc[c] \in {"succeeded", "failed", "cancelled"}
  /\ pc' = [pc EXCEPT ![c] = "idle"]
  /\ Returns(c, pc[c])
  /\ UNCHANGED <<healthy, tries>>

Failed(c) == pc[c] \in {"failed", "cancelled"}

(* Mutant: the generation of a call is not looked at.                      *)
SupersededCounts(c) ==
  LET b == BreakerOf(c) IN
  /\ c \notin current
  /\ state[b] = "half-open"
  /\ SetState(b, IF Failed(c) THEN "open" ELSE "closed")
  /\ Return(c)

(* A call let through in an older generation is ignored, except that this  *)
(* look at an open breaker may find its timeout elapsed.                   *)
Superseded(c) ==
  LET b == BreakerOf(c) IN
  /\ c \notin current
  /\ IF CurrentState(b) = state[b] THEN UNCHANGED breakerVars ELSE SetState(b, "half-open")
  /\ Return(c)

(* Mutant: the failure that makes Threshold is counted like the others and *)
(* the breaker stays closed.                                               *)
ClosedForgets(c) ==
  LET b == BreakerOf(c) IN
  /\ c \in current
  /\ state[b] = "closed"
  /\ failures' = [failures EXCEPT ![b] = IF Failed(c) THEN @ + 1 ELSE 0]
  /\ current' = current \ {c}
  /\ UNCHANGED <<state, requests, expired>>
  /\ Return(c)

(* onSuccess and onFailure of a closed breaker that stays closed.          *)
CountInClosed(c) ==
  LET b == BreakerOf(c) IN
  /\ c \in current
  /\ state[b] = "closed"
  /\ Failed(c) => failures[b] + 1 < Threshold
  /\ failures' = [failures EXCEPT ![b] = IF Failed(c) THEN @ + 1 ELSE 0]
  /\ current' = current \ {c}
  /\ UNCHANGED <<state, requests, expired>>
  /\ Return(c)

(* ReadyToTrip: the failure that makes Threshold in a row.                 *)
Trip(c) ==
  LET b == BreakerOf(c) IN
  /\ c \in current
  /\ state[b] = "closed"
  /\ Failed(c) /\ failures[b] + 1 >= Threshold
  /\ SetState(b, "open")
  /\ Return(c)

(* Mutant: a trial whose context ended is not counted as a failure.        *)
InterruptedTrialForgotten(c) ==
  LET b == BreakerOf(c) IN
  /\ c \in current
  /\ state[b] = "half-open"
  /\ IF pc[c] = "cancelled"
       THEN current' = current \ {c} /\ UNCHANGED <<state, failures, requests, expired>>
       ELSE SetState(b, IF Failed(c) THEN "open" ELSE "closed")
  /\ Return(c)

(* The trial of a half-open breaker closes it or opens it again.           *)
TrialReturns(c) ==
  LET b == BreakerOf(c) IN
  /\ c \in current
  /\ state[b] = "half-open"
  /\ SetState(b, IF Failed(c) THEN "open" ELSE "closed")
  /\ Return(c)

-----------------------------------------------------------------------------
Call(c)    == Admit(c) \/ AdmitTrial(c)
Attempt(c) == AttemptSucceeds(c) \/ AttemptFails(c)
Result(c)  == Superseded(c) \/ CountInClosed(c) \/ Trip(c) \/ TrialReturns(c)

Next ==
  \/ HealthChanges
  \/ \E b \in Breakers : TimeoutElapses(b)
  \/ \E c \in Callers :
       Call(c) \/ RefuseOpen(c) \/ RefuseTrial(c) \/ Attempt(c) \/ ContextEnds(c) \/ Result(c)

Spec == Init /\ [][Next]_vars

(* Timers go off, attempts end (the HTTP client has a timeout), and calls  *)
(* return.  Orders and cancels keep coming.  From some time on Stripe is   *)
(* healthy and no context ends in the middle of a call.                    *)
Fairness ==
  /\ \A b \in Breakers : WF_vars(TimeoutElapses(b))
  /\ \A c \in Callers : WF_vars(Call(c)) /\ WF_vars(Attempt(c)) /\ WF_vars(Result(c))
  /\ <>[]healthy
  /\ <>[][\A c \in Callers : ~ContextEnds(c)]_vars

FairSpec == Spec /\ Fairness

-----------------------------------------------------------------------------
(* Properties *)

(* The error HandleOrderCreated takes for a final outcome: neither an open *)
(* circuit nor, since its transaction shares the context, a call whose     *)
(* context has ended and which therefore cannot commit.                    *)
Final(result) == result \in {"failed", "ErrTooManyRequests"}

(* A charge is called failed for good only after every attempt of its      *)
(* retry schedule was made and failed: an order refused by the breaker, or *)
(* interrupted by a shutdown, waits for its redelivery instead.  The kind  *)
(* of refusal a half-open breaker gives would be taken as final, so this   *)
(* rests on charges having a breaker of their own with one caller.         *)
FinalFailureIsExhausted ==
  Final(charge) /\ pc[Charger] = "idle" => tries[Charger] = Attempts

(* While a breaker tests recovery one call does: no two calls let through  *)
(* since it became half-open are under way.                                *)
TrialIsAlone ==
  \A b \in Breakers : state[b] = "half-open" =>
    \A c, d \in current \cap Of(b) : c = d

(* Only the success of the trial closes a breaker that has been open: the  *)
(* results of calls let through before it opened, however late, do not.    *)
TrialCloses ==
  [][\A b \in Breakers : state[b] # "closed" /\ state'[b] = "closed" =>
       \E c \in current \cap Of(b) : pc[c] = "succeeded" /\ pc'[c] = "idle"]_vars

(* Once Stripe is healthy for good each breaker closes for good, with      *)
(* whatever failures, trials and late results the outage left behind.      *)
Recovers == \A b \in Breakers : <>[](state[b] = "closed")

-----------------------------------------------------------------------------
(* What makes these inductive: the calls of the present generation are     *)
(* under way, an open breaker has none, and a half-open one has at most    *)
(* the one it counted.                                                     *)
BreakerInv(b) ==
  /\ state[b] = "closed" => failures[b] < Threshold
  /\ state[b] # "half-open" => requests[b] = 0
  /\ b \in expired => state[b] = "open"
  /\ state[b] = "open" => current \cap Of(b) = {}
  /\ state[b] = "half-open" /\ requests[b] = 0 => current \cap Of(b) = {}
  /\ state[b] = "half-open" /\ requests[b] > 0 =>
       \E c \in Of(b) : current \cap Of(b) = {c}

CallInv(c) ==
  /\ c \in current => pc[c] # "idle"
  /\ pc[c] = "trying" => tries[c] < Attempts
  /\ pc[c] = "failed" => tries[c] = Attempts

(* All of it.  In particular the Charger, alone on its breaker, is never   *)
(* refused because of a trial: the trial would be its own.                 *)
InductiveInv ==
  /\ TypeOK
  /\ \A b \in Breakers : BreakerInv(b)
  /\ \A c \in Callers : CallInv(c)
  /\ charge # "ErrTooManyRequests"
  /\ FinalFailureIsExhausted
=============================================================================
