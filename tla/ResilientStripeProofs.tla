------------------------ MODULE ResilientStripeProofs ------------------------
(***************************************************************************)
(* Machine-checked proofs about ResilientStripe, for every set of callers  *)
(* of refunds, every number of attempts and every threshold.               *)
(***************************************************************************)
EXTENDS ResilientStripe, TLAPS

(* Each caller uses one breaker, and the Charger is alone on its own.      *)
LEMMA Sharing ==
  /\ "stripe" # "stripe-refund"
  /\ \A c \in Callers : BreakerOf(c) \in Breakers /\ c \in Of(BreakerOf(c))
  /\ \A c \in Callers, b \in Breakers : c \in Of(b) => b = BreakerOf(c)
  /\ Charger \in Callers /\ Of("stripe") = {Charger}
BY ChargerAssumption DEF Callers, BreakerOf, Breakers, Of

(* A new state empties the counts and the generation of one breaker.       *)
LEMMA SetStateFits ==
  ASSUME TypeOK, NEW b \in Breakers, NEW s \in {"closed", "open", "half-open"},
         \A x \in Breakers : BreakerInv(x), SetState(b, s)
  PROVE  /\ state' \in [Breakers -> {"closed", "open", "half-open"}]
         /\ failures' \in [Breakers -> Nat]
         /\ requests' \in [Breakers -> 0 .. MaxRequests]
         /\ expired' \subseteq Breakers
         /\ current' \subseteq current
         /\ \A x \in Breakers : BreakerInv(x)'
<1> USE DEF TypeOK, SetState
<1>1. /\ state' \in [Breakers -> {"closed", "open", "half-open"}]
      /\ failures' \in [Breakers -> Nat]
      /\ requests' \in [Breakers -> 0 .. MaxRequests]
      /\ expired' \subseteq Breakers
      /\ current' \subseteq current
  BY DEF MaxRequests
<1>2. BreakerInv(b)'
  BY ThresholdAssumption DEF BreakerInv, Of
<1>3. ASSUME NEW x \in Breakers, x # b
      PROVE  BreakerInv(x)'
  <2>1. /\ state'[x] = state[x] /\ failures'[x] = failures[x] /\ requests'[x] = requests[x]
        /\ x \in expired' <=> x \in expired
    BY <1>3
  <2>2. current' \cap Of(x) = current \cap Of(x)
    BY <1>3, Sharing DEF Of
  <2>3. Of(x)' = Of(x)
    BY DEF Of
  <2> QED
    BY <1>3, <2>1, <2>2, <2>3 DEF BreakerInv
<1> QED
  BY <1>1, <1>2, <1>3

-----------------------------------------------------------------------------
(* Steps of the environment. *)
LEMMA EnvironmentInductive ==
  ASSUME InductiveInv,
         HealthChanges \/ (\E b \in Breakers : TimeoutElapses(b)) \/ UNCHANGED vars
  PROVE  InductiveInv'
<1> USE DEF InductiveInv
<1>1. CASE HealthChanges \/ UNCHANGED vars
  BY <1>1 DEF HealthChanges, vars, breakerVars, callVars, TypeOK, BreakerInv, CallInv,
              FinalFailureIsExhausted, Of
<1>2. ASSUME NEW b \in Breakers, TimeoutElapses(b)
      PROVE  InductiveInv'
  BY <1>2 DEF TimeoutElapses, callVars, TypeOK, BreakerInv, CallInv, FinalFailureIsExhausted, Of
<1> QED
  BY <1>1, <1>2

(* What a call that begins or is refused does to the callers.              *)
LEMMA AdmitInductive ==
  ASSUME InductiveInv, NEW c \in Callers, Admit(c)
  PROVE  InductiveInv'
<1> USE DEF InductiveInv, Admit
<1>1. TypeOK'
  BY AttemptsAssumption DEF TypeOK, Steps
<1>2. ASSUME NEW b \in Breakers PROVE BreakerInv(b)'
  <2>1. Of(b)' = Of(b)
    BY DEF Of
  <2>2. CASE state[b] = "closed"
    BY <2>2 DEF BreakerInv
  <2>3. CASE state[b] # "closed"
    <3>1. current' \cap Of(b) = current \cap Of(b)
      BY <2>3, Sharing
    <3> QED BY <2>1, <3>1 DEF BreakerInv
  <2> QED BY <2>2, <2>3
<1>3. ASSUME NEW d \in Callers PROVE CallInv(d)'
  BY AttemptsAssumption DEF CallInv, TypeOK
<1>4. FinalFailureIsExhausted'
  BY DEF FinalFailureIsExhausted, TypeOK
<1> QED
  BY <1>1, <1>2, <1>3, <1>4

(* A trial is the only call of its breaker's generation.                   *)
LEMMA AdmitTrialInductive ==
  ASSUME InductiveInv, NEW c \in Callers, AdmitTrial(c)
  PROVE  InductiveInv'
<1> DEFINE b == BreakerOf(c)
<1> USE DEF InductiveInv
<1>0. b \in Breakers /\ c \in Of(b) /\ Of(b)' = Of(b)
  BY Sharing DEF Of
<1>1. /\ state' = [state EXCEPT ![b] = "half-open"]
      /\ failures' = [failures EXCEPT ![b] = 0]
      /\ requests' = [requests EXCEPT ![b] = 1]
      /\ expired' = expired \ {b}
      /\ pc[c] = "idle" /\ pc' = [pc EXCEPT ![c] = "trying"]
      /\ tries' = [tries EXCEPT ![c] = 0]
      /\ UNCHANGED <<healthy, charge>>
  <2>1. /\ state' = [state EXCEPT ![b] = "half-open"]
        /\ failures' = [failures EXCEPT ![b] = 0]
        /\ expired' = expired \ {b}
        /\ pc[c] = "idle" /\ pc' = [pc EXCEPT ![c] = "trying"]
        /\ tries' = [tries EXCEPT ![c] = 0]
        /\ UNCHANGED <<healthy, charge>>
        /\ state[b] = "open" \/ requests[b] < 1
        /\ requests' = [requests EXCEPT ![b] = IF state[b] = "open" THEN 1 ELSE requests[b] + 1]
    BY DEF AdmitTrial, MaxRequests
  <2>2. requests[b] \in 0 .. 1
    BY <1>0 DEF TypeOK, MaxRequests
  <2>3. (IF state[b] = "open" THEN 1 ELSE requests[b] + 1) = 1
    <3> HIDE DEF b
    <3> QED BY <2>1, <2>2
  <2> QED BY <2>1, <2>3
<1>2. /\ current \cap Of(b) = {}
      /\ current' = current \cup {c}
  <2>1. state[b] \in {"open", "half-open"}
    BY <1>0 DEF AdmitTrial, CurrentState
  <2>2. CASE state[b] = "open"
    BY <1>0, <2>2 DEF AdmitTrial, BreakerInv
  <2>3. CASE state[b] = "half-open"
    <3>1. requests[b] = 0
      BY <1>0, <2>3 DEF AdmitTrial, MaxRequests, TypeOK
    <3> QED BY <1>0, <2>3, <3>1 DEF AdmitTrial, BreakerInv
  <2> QED BY <2>1, <2>2, <2>3
<1>3. TypeOK'
  BY <1>0, <1>1, <1>2, AttemptsAssumption DEF TypeOK, Steps, MaxRequests
<1>4. BreakerInv(b)'
  <2>1. current' \cap Of(b) = {c}
    BY <1>0, <1>2
  <2>2. /\ b' = b
        /\ state'[b] = "half-open" /\ requests'[b] = 1 /\ b \notin expired'
    BY <1>0, <1>1 DEF TypeOK, BreakerOf
  <2> HIDE DEF b
  <2> QED BY <1>0, <2>1, <2>2 DEF BreakerInv
<1>5. ASSUME NEW x \in Breakers, x # b PROVE BreakerInv(x)'
  <2>1. /\ state'[x] = state[x] /\ failures'[x] = failures[x] /\ requests'[x] = requests[x]
        /\ x \in expired' <=> x \in expired
    BY <1>1, <1>5 DEF TypeOK
  <2>2. current' \cap Of(x) = current \cap Of(x) /\ Of(x)' = Of(x)
    BY <1>0, <1>2, <1>5, Sharing DEF Of
  <2> QED BY <1>5, <2>1, <2>2 DEF BreakerInv
<1>6. ASSUME NEW d \in Callers PROVE CallInv(d)'
  BY <1>1, <1>2, AttemptsAssumption DEF CallInv, TypeOK
<1>7. FinalFailureIsExhausted'
  BY <1>1 DEF FinalFailureIsExhausted, TypeOK
<1>8. \A x \in Breakers : BreakerInv(x)'
  <2> HIDE DEF b
  <2> QED BY <1>4, <1>5
<1> QED
  BY <1>1, <1>3, <1>6, <1>7, <1>8

(* A refused call is no attempt: what the Charger hears is not final.  It  *)
(* is never refused because of a trial, which only it could have made.     *)
LEMMA RefuseInductive ==
  ASSUME InductiveInv, NEW c \in Callers, RefuseOpen(c) \/ RefuseTrial(c)
  PROVE  InductiveInv'
<1> USE DEF InductiveInv
<1>1. /\ pc[c] = "idle"
      /\ tries' = [tries EXCEPT ![c] = 0]
      /\ UNCHANGED <<healthy, breakerVars, pc>>
  BY DEF RefuseOpen, RefuseTrial
<1>2. charge' = IF c = Charger THEN "ErrOpenState" ELSE charge
  <2>1. CASE RefuseOpen(c)
    BY <2>1 DEF RefuseOpen, Returns
  <2>2. CASE RefuseTrial(c)
    <3>1. c # Charger
      <4> SUFFICES ASSUME c = Charger PROVE FALSE
        OBVIOUS
      <4>1. state["stripe"] = "half-open" /\ requests["stripe"] > 0
        BY <2>2 DEF RefuseTrial, BreakerOf, MaxRequests, TypeOK, Breakers
      <4>2. \E d \in Of("stripe") : current \cap Of("stripe") = {d}
        BY <4>1 DEF BreakerInv, Breakers
      <4>3. Charger \in current
        BY <4>2, Sharing
      <4> QED BY <1>1, <4>3, Sharing DEF CallInv
    <3> QED BY <2>2, <3>1 DEF RefuseTrial, Returns
  <2> QED BY <2>1, <2>2
<1>3. TypeOK'
  BY <1>1, <1>2, AttemptsAssumption DEF TypeOK, breakerVars, Results
<1>4. ASSUME NEW b \in Breakers PROVE BreakerInv(b)'
  BY <1>1 DEF BreakerInv, breakerVars, Of
<1>5. ASSUME NEW d \in Callers PROVE CallInv(d)'
  BY <1>1 DEF CallInv, breakerVars, TypeOK
<1>6. FinalFailureIsExhausted' /\ charge' # "ErrTooManyRequests"
  BY <1>1, <1>2 DEF FinalFailureIsExhausted, Final, TypeOK
<1> QED
  BY <1>3, <1>4, <1>5, <1>6

(* A call is given up as failed with the last of its attempts.             *)
LEMMA AttemptInductive ==
  ASSUME InductiveInv, NEW c \in Callers, Attempt(c) \/ ContextEnds(c)
  PROVE  InductiveInv'
<1> USE DEF InductiveInv, Attempt
<1>1. /\ pc[c] = "trying"
      /\ UNCHANGED <<healthy, breakerVars, charge>>
      /\ pc' \in [Callers -> Steps]
      /\ pc'[c] # "idle"
      /\ \A d \in Callers \ {c} : pc'[d] = pc[d] /\ tries'[d] = tries[d]
  BY DEF AttemptSucceeds, AttemptFails, ContextEnds, TypeOK, Steps
<1>2. /\ tries' \in [Callers -> 0 .. Attempts]
      /\ pc'[c] = "trying" => tries'[c] < Attempts
      /\ pc'[c] = "failed" => tries'[c] = Attempts
  <2>1. tries[c] \in Nat /\ tries[c] < Attempts
    BY <1>1 DEF CallInv, TypeOK
  <2>2. CASE AttemptFails(c)
    <3>1. tries' = [tries EXCEPT ![c] = tries[c] + 1]
      BY <2>2 DEF AttemptFails
    <3>2. pc'[c] = IF tries[c] + 1 = Attempts THEN "failed" ELSE "trying"
      BY <2>2 DEF AttemptFails, TypeOK
    <3>3. tries[c] + 1 \in 0 .. Attempts
      BY <2>1, AttemptsAssumption
    <3> QED BY <2>1, <3>1, <3>2, <3>3, AttemptsAssumption DEF TypeOK
  <2>3. CASE AttemptSucceeds(c) \/ ContextEnds(c)
    BY <2>1, <2>3 DEF AttemptSucceeds, ContextEnds, TypeOK
  <2> QED BY <2>2, <2>3
<1>3. TypeOK'
  BY <1>1, <1>2 DEF TypeOK, breakerVars
<1>4. ASSUME NEW b \in Breakers PROVE BreakerInv(b)'
  BY <1>1 DEF BreakerInv, breakerVars, Of
<1>5. ASSUME NEW d \in Callers PROVE CallInv(d)'
  BY <1>1, <1>2 DEF CallInv, breakerVars
<1>6. FinalFailureIsExhausted'
  BY <1>1, Sharing DEF FinalFailureIsExhausted
<1> QED
  BY <1>1, <1>3, <1>4, <1>5, <1>6

-----------------------------------------------------------------------------
(* What a returning call does to the callers, whatever its breaker makes of it. *)
LEMMA ReturnFits ==
  ASSUME InductiveInv, NEW c \in Callers, Return(c),
         current' \subseteq current \ {c}
  PROVE  /\ healthy' \in BOOLEAN
         /\ pc' \in [Callers -> Steps]
         /\ tries' \in [Callers -> 0 .. Attempts]
         /\ charge' \in Results \ {"ErrTooManyRequests"}
         /\ \A d \in Callers : CallInv(d)'
         /\ FinalFailureIsExhausted'
<1> USE DEF InductiveInv
<1>1. /\ pc[c] \in {"succeeded", "failed", "cancelled"}
      /\ pc' = [pc EXCEPT ![c] = "idle"]
      /\ charge' = IF c = Charger THEN pc[c] ELSE charge
      /\ UNCHANGED <<healthy, tries>>
  BY DEF Return, Returns
<1>2. ASSUME NEW d \in Callers PROVE CallInv(d)'
  BY <1>1, <1>2 DEF CallInv, TypeOK
<1>3. FinalFailureIsExhausted'
  <2>1. CASE c = Charger
    <3>1. pc[c] = "failed" => tries[c] = Attempts
      BY DEF CallInv
    <3> QED BY <1>1, <2>1, <3>1 DEF FinalFailureIsExhausted, Final
  <2>2. CASE c # Charger
    BY <1>1, <2>2, Sharing DEF FinalFailureIsExhausted, Final, TypeOK
  <2> QED BY <2>1, <2>2
<1> QED
  BY <1>1, <1>2, <1>3 DEF TypeOK, Steps, Results

(* A result is counted in its generation or not at all.                    *)
LEMMA ResultInductive ==
  ASSUME InductiveInv, NEW c \in Callers, Result(c)
  PROVE  InductiveInv'
<1> DEFINE b == BreakerOf(c)
<1> USE DEF InductiveInv
<1>0. b \in Breakers /\ c \in Of(b)
  BY Sharing
<1>1. Return(c)
  BY DEF Result, Superseded, CountInClosed, Trip, TrialReturns
<1>2. ASSUME NEW s \in {"closed", "open", "half-open"}, SetState(b, s)
      PROVE  InductiveInv'
  <2> HIDE DEF b
  <2>1. /\ state' \in [Breakers -> {"closed", "open", "half-open"}]
        /\ failures' \in [Breakers -> Nat]
        /\ requests' \in [Breakers -> 0 .. MaxRequests]
        /\ expired' \subseteq Breakers
        /\ current' \subseteq current
        /\ \A x \in Breakers : BreakerInv(x)'
    BY <1>0, <1>2, SetStateFits
  <2>2. current' \subseteq current \ {c}
    BY <1>0, <1>2 DEF SetState
  <2>3. /\ healthy' \in BOOLEAN
        /\ pc' \in [Callers -> Steps]
        /\ tries' \in [Callers -> 0 .. Attempts]
        /\ charge' \in Results \ {"ErrTooManyRequests"}
        /\ \A d \in Callers : CallInv(d)'
        /\ FinalFailureIsExhausted'
    BY <1>1, <2>2, ReturnFits
  <2> QED BY <2>1, <2>3 DEF TypeOK
<1>3. CASE c \notin current /\ UNCHANGED breakerVars
  <2>1. current' \subseteq current \ {c}
    BY <1>3 DEF breakerVars
  <2>2. /\ healthy' \in BOOLEAN
        /\ pc' \in [Callers -> Steps]
        /\ tries' \in [Callers -> 0 .. Attempts]
        /\ charge' \in Results \ {"ErrTooManyRequests"}
        /\ \A d \in Callers : CallInv(d)'
        /\ FinalFailureIsExhausted'
    BY <1>1, <2>1, ReturnFits
  <2>3. ASSUME NEW x \in Breakers PROVE BreakerInv(x)'
    BY <1>3 DEF BreakerInv, breakerVars, Of
  <2> QED BY <1>3, <2>2, <2>3 DEF TypeOK, breakerVars
<1>4. CASE CountInClosed(c)
  <2> HIDE DEF b
  <2>1. /\ c \in current /\ state[b] = "closed"
        /\ Failed(c) => failures[b] + 1 < Threshold
        /\ failures' = [failures EXCEPT ![b] = IF Failed(c) THEN failures[b] + 1 ELSE 0]
        /\ current' = current \ {c}
        /\ UNCHANGED <<state, requests, expired>>
    BY <1>4 DEF CountInClosed, b
  <2>2. /\ failures' \in [Breakers -> Nat]
        /\ failures'[b] < Threshold
    BY <1>0, <2>1, ThresholdAssumption DEF TypeOK
  <2>3. /\ healthy' \in BOOLEAN
        /\ pc' \in [Callers -> Steps]
        /\ tries' \in [Callers -> 0 .. Attempts]
        /\ charge' \in Results \ {"ErrTooManyRequests"}
        /\ \A d \in Callers : CallInv(d)'
        /\ FinalFailureIsExhausted'
    BY <1>1, <2>1, ReturnFits
  <2>4. BreakerInv(b)'
    <3>1. BreakerInv(b)
      BY <1>0
    <3> QED BY <2>1, <2>2, <3>1 DEF BreakerInv
  <2>5. ASSUME NEW x \in Breakers, x # b PROVE BreakerInv(x)'
    <3>1. current' \cap Of(x) = current \cap Of(x) /\ Of(x)' = Of(x)
      BY <2>1, <2>5, Sharing DEF Of, b
    <3>2. failures'[x] = failures[x]
      BY <2>1, <2>5 DEF TypeOK
    <3> QED BY <2>1, <2>5, <3>1, <3>2 DEF BreakerInv
  <2> QED BY <2>1, <2>2, <2>3, <2>4, <2>5 DEF TypeOK
<1> QED
  <2>1. CASE Superseded(c)
    BY <1>2, <1>3, <2>1 DEF Superseded
  <2>2. CASE Trip(c)
    BY <1>2, <2>2 DEF Trip
  <2>3. CASE TrialReturns(c)
    BY <1>2, <2>3 DEF TrialReturns
  <2> QED BY <1>4, <2>1, <2>2, <2>3 DEF Result

-----------------------------------------------------------------------------
(* Initially no call has been made and the breakers are closed.            *)
LEMMA InitInductive == Init => InductiveInv
BY AttemptsAssumption, ThresholdAssumption
   DEF Init, InductiveInv, TypeOK, BreakerInv, CallInv, FinalFailureIsExhausted, Final,
       MaxRequests, Results, Steps

(* The invariant of the breakers and the calls they let through.           *)
THEOREM Inductive == Spec => []InductiveInv
<1>1. ASSUME InductiveInv, [Next]_vars
      PROVE  InductiveInv'
  <2>1. CASE HealthChanges \/ (\E b \in Breakers : TimeoutElapses(b)) \/ UNCHANGED vars
    BY <1>1, <2>1, EnvironmentInductive
  <2>2. ASSUME NEW c \in Callers,
               Call(c) \/ RefuseOpen(c) \/ RefuseTrial(c) \/ Attempt(c) \/ ContextEnds(c) \/ Result(c)
        PROVE  InductiveInv'
    BY <1>1, <2>2, AdmitInductive, AdmitTrialInductive, RefuseInductive, AttemptInductive,
       ResultInductive DEF Call
  <2> QED BY <1>1, <2>1, <2>2 DEF Next
<1> QED BY <1>1, InitInductive, PTL DEF Spec

(* The variables keep their types.                                         *)
THEOREM TypeCorrect == Spec => []TypeOK
<1>1. InductiveInv => TypeOK
  BY DEF InductiveInv
<1> QED BY <1>1, Inductive, PTL

(* A charge is final only after every attempt was made and failed.         *)
THEOREM FinalFailuresAreExhausted == Spec => []FinalFailureIsExhausted
<1>1. InductiveInv => FinalFailureIsExhausted
  BY DEF InductiveInv
<1> QED BY <1>1, Inductive, PTL

(* A half-open breaker has at most one call of its generation under way.   *)
THEOREM TrialsAreAlone == Spec => []TrialIsAlone
<1>1. InductiveInv => TrialIsAlone
  <2> SUFFICES ASSUME InductiveInv, NEW b \in Breakers, state[b] = "half-open",
                      NEW c \in current \cap Of(b), NEW d \in current \cap Of(b)
               PROVE  c = d
    BY DEF TrialIsAlone
  <2>1. BreakerInv(b) /\ requests[b] \in 0 .. MaxRequests
    BY DEF InductiveInv, TypeOK
  <2>2. CASE requests[b] = 0
    BY <2>1, <2>2 DEF BreakerInv
  <2>3. CASE requests[b] > 0
    BY <2>1, <2>3 DEF BreakerInv
  <2> QED BY <2>1, <2>2, <2>3 DEF MaxRequests
<1> QED BY <1>1, Inductive, PTL

(* A breaker closes only with the success of the call that tested it.      *)
THEOREM OnlyTrialsClose == Spec => TrialCloses
<1> DEFINE Closes(b) ==
      \E c \in current \cap Of(b) : pc[c] = "succeeded" /\ pc'[c] = "idle"
<1>1. ASSUME InductiveInv, [Next]_vars, NEW b \in Breakers, state[b] # "closed", state'[b] = "closed"
      PROVE  Closes(b)
  <2>1. PICK c \in Callers : Call(c) \/ Result(c)
    BY <1>1 DEF Next, vars, breakerVars, HealthChanges, TimeoutElapses, RefuseOpen, RefuseTrial,
                Attempt, AttemptSucceeds, AttemptFails, ContextEnds
  <2>2. TypeOK /\ BreakerOf(c) \in Breakers /\ c \in Of(BreakerOf(c))
    BY <1>1, Sharing DEF InductiveInv
  <2>3. TrialReturns(c) /\ BreakerOf(c) = b
    BY <1>1, <2>1, <2>2 DEF Call, Result, Admit, AdmitTrial, Superseded, SetState, CountInClosed,
                            Trip, TrialReturns, breakerVars, TypeOK
  <2>4. pc[c] = "succeeded" /\ pc'[c] = "idle" /\ c \in current
    BY <1>1, <2>2, <2>3 DEF TrialReturns, SetState, Return, Failed, TypeOK
  <2> QED BY <2>2, <2>3, <2>4
<1>2. InductiveInv /\ [Next]_vars =>
        [\A b \in Breakers : state[b] # "closed" /\ state'[b] = "closed" => Closes(b)]_vars
  BY <1>1
<1> QED BY <1>2, Inductive, PTL DEF Spec, TrialCloses

-----------------------------------------------------------------------------
(* A breaker that tests recovery is never left without a trial: one is     *)
(* under way and will be counted, or the next call is one.                 *)
TrialIsUnderWayOrAdmitted ==
  \A b \in Breakers : state[b] = "half-open" =>
    \/ \E c \in current \cap Of(b) : pc[c] # "idle"
    \/ requests[b] < MaxRequests

(* No sequence of failures, late results and ended contexts leaves a       *)
(* half-open breaker refusing with nobody to close it: the part of         *)
(* Recovers that is no matter of fairness.                                 *)
THEOREM NoBreakerIsStuck == Spec => []TrialIsUnderWayOrAdmitted
<1>1. InductiveInv => TrialIsUnderWayOrAdmitted
  <2> SUFFICES ASSUME InductiveInv, NEW b \in Breakers, state[b] = "half-open",
                      ~(requests[b] < MaxRequests)
               PROVE  \E c \in current \cap Of(b) : pc[c] # "idle"
    BY DEF TrialIsUnderWayOrAdmitted
  <2>1. BreakerInv(b) /\ requests[b] > 0
    BY DEF InductiveInv, TypeOK, MaxRequests
  <2>2. PICK c \in Of(b) : current \cap Of(b) = {c}
    BY <2>1 DEF BreakerInv
  <2>3. CallInv(c)
    BY DEF InductiveInv, Of
  <2> QED BY <2>2, <2>3 DEF CallInv
<1> QED BY <1>1, Inductive, PTL
=============================================================================
