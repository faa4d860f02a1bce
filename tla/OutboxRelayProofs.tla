-------------------------- MODULE OutboxRelayProofs --------------------------
(***************************************************************************)
(* Machine-checked proofs about OutboxRelay, for every set of events and   *)
(* of relays and every batch size.                                         *)
(***************************************************************************)
EXTENDS OutboxRelay, FiniteSetTheorems, WellFoundedInduction, TLAPS

(* An empty table and idle relays satisfy the invariant.                   *)
LEMMA InitInv == Init => InductiveInv
  BY DEF Init, InductiveInv, TypeOK, ClaimsFit, LocksAreExclusive, PublishedWasSent

(* A batch is made of free rows. *)
LEMMA OldestIsFree == Oldest(Free) \subseteq Free
  BY DEF Oldest

(* A transaction that ends leaves nothing locked or marked, and the rest   *)
(* of the batch without a claim, which only an aborted relay may have.     *)
LEMMA TxEndsFits ==
  ASSUME InductiveInv, NEW r \in Relays, TxEnds(r),
         inserted' = inserted, sent' \in {sent} \cup {sent \cup {e} : e \in Events},
         todo' \in [Relays -> SUBSET Events], todo'[r] \subseteq todo[r],
         \A q \in Relays \ {r} : todo'[q] = todo[q],
         aborted' \subseteq Relays,
         \A q \in Relays \ {r} : q \in aborted' <=> q \in aborted,
         r \in aborted' \/ todo'[r] = {}
  PROVE  /\ ClaimsFit'
         /\ claimed' \in [Relays -> SUBSET Events] /\ marked' \in [Relays -> SUBSET Events]
         /\ claimed'[r] = {} /\ \A q \in Relays \ {r} : claimed'[q] = claimed[q]
  BY DEF TxEnds, InductiveInv, TypeOK, ClaimsFit

(* Every step of publishPending, every insert and every arrival keeps the  *)
(* invariant, and so does a session that ends in the middle of a batch.    *)
LEMMA NextInv == InductiveInv /\ [Next]_vars => InductiveInv'
  <1> SUFFICES ASSUME InductiveInv, [Next]_vars
               PROVE  InductiveInv'
    OBVIOUS
  <1> USE DEF InductiveInv, TypeOK, ClaimsFit, PublishedWasSent, LocksAreExclusive, txs, broker
  <1>1. ASSUME NEW e \in Events, Insert(e) \/ Arrives(e)
        PROVE  InductiveInv'
    BY <1>1 DEF Insert, Arrives
  <1>2. ASSUME NEW r \in Relays, FetchAndClaim(r)
        PROVE  InductiveInv'
    <2>1. Oldest(Free) \subseteq inserted \ published
          /\ \A s \in Relays : Oldest(Free) \cap claimed[s] = {}
      BY OldestIsFree DEF Free
    <2>2. marked[r] = {} /\ r \notin aborted
      BY <1>2 DEF FetchAndClaim, Busy
    <2> QED BY <1>2, <2>1, <2>2 DEF FetchAndClaim
  <1>3. ASSUME NEW r \in Relays, NEW e \in Events, WriteAndMark(r, e) \/ WriteFails(r, e)
        PROVE  InductiveInv'
    <2>1. /\ e \in todo[r] /\ todo' = [todo EXCEPT ![r] = @ \ {e}]
          /\ UNCHANGED <<inserted, published, kafka, claimed, aborted>>
      BY <1>3 DEF WriteAndMark, WriteFails, IsNext, Done
    <2>2. sent \subseteq sent' /\ sent' \subseteq sent \cup {e}
      BY <1>3 DEF WriteAndMark, WriteFails, PerhapsSent
    <2>3. \/ marked' = marked
          \/ r \notin aborted /\ e \in sent' /\ marked' = [marked EXCEPT ![r] = @ \cup {e}]
      BY <1>3 DEF WriteAndMark, WriteFails
    <2> QED BY <2>1, <2>2, <2>3
  <1>4. ASSUME NEW r \in Relays, NEW e \in Events, MarkFails(r, e)
        PROVE  InductiveInv'
    <2>1. /\ e \in todo[r] /\ todo' = [todo EXCEPT ![r] = @ \ {e}] /\ sent' = sent \cup {e}
          /\ aborted' = aborted \cup {r} /\ TxEnds(r)
          /\ UNCHANGED <<inserted, published, kafka>>
      BY <1>4 DEF MarkFails, IsNext, Done
    <2> HIDE DEF ClaimsFit
    <2>2. /\ ClaimsFit'
          /\ claimed' \in [Relays -> SUBSET Events] /\ marked' \in [Relays -> SUBSET Events]
          /\ claimed'[r] = {} /\ \A q \in Relays \ {r} : claimed'[q] = claimed[q]
      BY <2>1, TxEndsFits
    <2>3. e \in inserted
      BY <2>1 DEF ClaimsFit
    <2> QED BY <2>1, <2>2, <2>3
  <1>5. ASSUME NEW r \in Relays, SessionLost(r)
        PROVE  InductiveInv'
    <2> HIDE DEF ClaimsFit
    <2>1. /\ ClaimsFit'
          /\ claimed' \in [Relays -> SUBSET Events] /\ marked' \in [Relays -> SUBSET Events]
          /\ claimed'[r] = {} /\ \A q \in Relays \ {r} : claimed'[q] = claimed[q]
      BY <1>5, TxEndsFits DEF SessionLost
    <2> QED BY <1>5, <2>1 DEF SessionLost
  <1>6. ASSUME NEW r \in Relays, Commit(r) \/ Rollback(r)
        PROVE  InductiveInv'
    <2>1. /\ TxEnds(r) /\ todo' = [todo EXCEPT ![r] = {}] /\ aborted' = aborted \ {r}
          /\ UNCHANGED <<inserted, broker>>
          /\ published' = published \/ published' = published \cup marked[r]
      BY <1>6 DEF Commit, Rollback, Release
    <2>2. marked[r] \subseteq claimed[r] \cap sent
      OBVIOUS
    <2> HIDE DEF ClaimsFit
    <2>3. /\ ClaimsFit'
          /\ claimed' \in [Relays -> SUBSET Events] /\ marked' \in [Relays -> SUBSET Events]
          /\ claimed'[r] = {} /\ \A q \in Relays \ {r} : claimed'[q] = claimed[q]
      BY <2>1, TxEndsFits
    <2>4. LocksAreExclusive'
      BY <2>1, <2>2, <2>3
    <2> QED BY <2>1, <2>2, <2>3, <2>4
  <1>7. CASE UNCHANGED vars
    BY <1>7 DEF vars
  <1> QED BY <1>1, <1>2, <1>3, <1>4, <1>5, <1>6, <1>7 DEF Next

(* In every behaviour a relay whose transaction stands holds what it works *)
(* on, unpublished and alone, and what it has marked was sent; one whose   *)
(* transaction was aborted holds nothing and has nothing marked.           *)
THEOREM Inductive == Spec => []InductiveInv
  BY InitInv, NextInv, PTL DEF Spec

(* A row is never marked published unless its event was sent: whatever     *)
(* fails, the relays lose no event, only the network and the broker can.   *)
THEOREM RelaysLoseNothing == Spec => []PublishedWasSent
  <1>1. InductiveInv => PublishedWasSent
    BY DEF InductiveInv
  <1> QED BY <1>1, Inductive, PTL

(* No two relays whose transactions stand work on one row, and none on a   *)
(* published one, whatever relays go on without their locks.               *)
THEOREM RelaysDoNotOverlap == Spec => []ClaimsAreExclusive
  <1>1. InductiveInv => ClaimsAreExclusive
    <2>1. InductiveInv => \A r \in Relays \ aborted : Work(r) \subseteq claimed[r]
      BY DEF InductiveInv, ClaimsFit, Work
    <2> QED BY <2>1 DEF InductiveInv, LocksAreExclusive, ClaimsAreExclusive
  <1> QED BY <1>1, Inductive, PTL

-----------------------------------------------------------------------------
(* Each step of the relays is one of the channel, or none.                 *)
LEMMA StepOfChannel ==
  ASSUME InductiveInv, [Next]_vars
  PROVE  [Channel!Next]_Channel!vars
  <1>1. ASSUME NEW e \in Events, Insert(e)
        PROVE  Channel!Insert(e)
    BY <1>1 DEF Insert, Channel!Insert, broker
  <1>2. ASSUME NEW e \in Events, Arrives(e)
        PROVE  Channel!Deliver(e)
    BY <1>2 DEF Arrives, Channel!Deliver, InductiveInv
  <1>3. ASSUME NEW r \in Relays,
               \/ FetchAndClaim(r) \/ SessionLost(r) \/ Commit(r) \/ Rollback(r)
               \/ \E e \in Events : WriteAndMark(r, e) \/ MarkFails(r, e) \/ WriteFails(r, e)
        PROVE  UNCHANGED Channel!vars
    BY <1>3 DEF FetchAndClaim, SessionLost, Commit, Rollback, WriteAndMark, MarkFails, WriteFails,
                broker, Channel!vars
  <1>4. CASE UNCHANGED vars
    BY <1>4 DEF vars, broker, Channel!vars
  <1> QED BY <1>1, <1>2, <1>3, <1>4 DEF Next, Channel!Next

(* The relays implement the channel: Kafka is given committed events only, *)
(* in whatever way batches fail, and none is taken back.                   *)
THEOREM ImplementsChannel == Spec => ChannelSpec
  <1>1. Init => Channel!Init
    BY DEF Init, Channel!Init
  <1> QED BY <1>1, StepOfChannel, Inductive, PTL DEF Spec, ChannelSpec, Channel!Spec

-----------------------------------------------------------------------------
(* What a batch takes. *)

(* A set of natural numbers has a least element.                           *)
LEMMA LeastExists ==
  ASSUME NEW S \in SUBSET Nat, S # {}
  PROVE  \E n \in S : \A m \in S : n <= m
  <1> DEFINE R == OpToRel(<, Nat)
  <1>1. IsWellFoundedOn(R, Nat)
    BY NatLessThanWellFounded
  <1>2. \A m, n \in Nat : <<m, n>> \in R <=> m < n
    BY DEF OpToRel
  <1> HIDE DEF R
  <1>3. PICK n \in S : \A m \in S : ~ (<<m, n>> \in R)
    BY <1>1, WFMin
  <1>4. \A m \in S : n \in Nat /\ m \in Nat /\ ~ (m < n)
    BY <1>2, <1>3
  <1>5. \A m \in S : n <= m
    BY <1>4
  <1> QED BY <1>5

(* Among any events one was created first.                                 *)
LEMMA EarliestExists ==
  ASSUME NEW S \in SUBSET Events, S # {}
  PROVE  \E e \in S : \A d \in S : e <= d
  BY EventsAssumption, LeastExists

(* And one last.                                                           *)
LEMMA LatestExists ==
  ASSUME NEW S \in SUBSET Events, S # {}
  PROVE  \E e \in S : \A d \in S : d <= e
  <1> DEFINE After(e) == {d \in S : d > e}
             Counts   == {Cardinality(After(e)) : e \in S}
  <1>1. /\ S \subseteq Nat /\ IsFiniteSet(S)
        /\ \A e \in S : IsFiniteSet(After(e)) /\ Cardinality(After(e)) \in Nat
    <2>1. S \subseteq Nat /\ IsFiniteSet(S)
      BY EventsAssumption, FS_Subset
    <2>2. \A e \in S : After(e) \subseteq S
      OBVIOUS
    <2> HIDE DEF After
    <2> QED BY <2>1, <2>2, FS_Subset, FS_CardinalityType
  <1>2. PICK n \in Counts : \A k \in Counts : n <= k
    <2>1. Counts \subseteq Nat /\ Counts # {}
      BY <1>1
    <2> HIDE DEF Counts
    <2> QED BY <2>1, LeastExists
  <1>3. PICK e \in S : n = Cardinality(After(e))
    BY <1>2
  <1>4. ASSUME NEW d \in S, d > e
        PROVE  FALSE
    <2>1. After(d) \subseteq After(e) /\ After(d) # After(e)
      <3>1. d \in Nat /\ e \in Nat /\ S \subseteq Nat
        BY <1>1
      <3>2. d \in After(e) /\ d \notin After(d)
        BY <1>4, <3>1
      <3>3. \A x \in S : x > d => x > e
        BY <1>4, <3>1
      <3> QED BY <3>2, <3>3
    <2>2. Cardinality(After(d)) < Cardinality(After(e))
      <3> HIDE DEF After
      <3> QED BY <1>1, <2>1, FS_Subset
    <2>3. n <= Cardinality(After(d))
      BY <1>2
    <2> HIDE DEF After
    <2> QED BY <1>1, <1>3, <2>2, <2>3
  <1> QED BY <1>1, <1>4

(* The oldest rows are no more than the LIMIT.                             *)
LEMMA BatchFits ==
  ASSUME NEW S \in SUBSET Events
  PROVE  Cardinality(Oldest(S)) <= BatchSize
  <1>1. IsFiniteSet(S) /\ S \subseteq Nat
    BY EventsAssumption, FS_Subset
  <1>2. CASE Oldest(S) = {}
    BY <1>2, FS_EmptySet, BatchAssumption
  <1>3. CASE Oldest(S) # {}
    <2>1. Oldest(S) \subseteq S
      BY DEF Oldest
    <2>2. PICK e \in Oldest(S) : \A d \in Oldest(S) : d <= e
      BY <1>3, <2>1, LatestExists
    <2> DEFINE Older == {d \in S : d < e}
    <2>3. /\ IsFiniteSet(Older) /\ Cardinality(Older) \in Nat /\ Cardinality(Older) < BatchSize
          /\ IsFiniteSet(Oldest(S))
      <3>1. Older \subseteq S
        OBVIOUS
      <3>2. Cardinality(Older) < BatchSize
        BY <2>2 DEF Oldest
      <3> HIDE DEF Older
      <3> QED BY <1>1, <2>1, <3>1, <3>2, FS_Subset, FS_CardinalityType
    <2>4. Oldest(S) \subseteq Older \cup {e} /\ e \notin Older
      <3>1. e \in Nat /\ \A d \in Oldest(S) : d \in Nat /\ d \in S
        BY <1>1, <2>1
      <3>2. \A d \in Oldest(S) : d = e \/ d < e
        BY <2>2, <3>1
      <3>3. e \notin Older
        BY <3>1
      <3> QED BY <3>1, <3>2, <3>3
    <2>5. Cardinality(Older \cup {e}) = Cardinality(Older) + 1 /\ IsFiniteSet(Older \cup {e})
      <3> HIDE DEF Older
      <3> QED BY <2>3, <2>4, FS_AddElement
    <2>6. Cardinality(Oldest(S)) <= Cardinality(Older \cup {e})
      <3> HIDE DEF Older
      <3> QED BY <2>4, <2>5, FS_Subset
    <2>7. Cardinality(Oldest(S)) \in Nat
      BY <2>3, FS_CardinalityType
    <2> HIDE DEF Older
    <2> QED BY <2>3, <2>5, <2>6, <2>7, BatchAssumption
  <1> QED BY <1>2, <1>3

(* No relay ever holds more rows than a batch.                             *)
ClaimsAreBatches == \A r \in Relays : Cardinality(claimed[r]) <= BatchSize

(* What a transaction of a relay locks is bounded, so that the other       *)
(* relays find the rest of the table free.                                 *)
THEOREM ClaimsAreBounded == Spec => []ClaimsAreBatches
  <1>1. Init => ClaimsAreBatches
    BY FS_EmptySet, BatchAssumption DEF Init, ClaimsAreBatches
  <1>2. ASSUME InductiveInv, ClaimsAreBatches, [Next]_vars
        PROVE  ClaimsAreBatches'
    <2> USE DEF ClaimsAreBatches
    <2>1. ASSUME NEW r \in Relays, FetchAndClaim(r)
          PROVE  ClaimsAreBatches'
      <3>1. Free \in SUBSET Events
        BY <1>2 DEF Free, InductiveInv, TypeOK
      <3>2. Cardinality(Oldest(Free)) <= BatchSize
        BY <3>1, BatchFits
      <3> QED BY <1>2, <2>1, <3>2 DEF FetchAndClaim, InductiveInv, TypeOK
    <2>2. ASSUME NEW r \in Relays,
                 \/ SessionLost(r) \/ Commit(r) \/ Rollback(r)
                 \/ \E e \in Events : MarkFails(r, e)
          PROVE  ClaimsAreBatches'
      <3>1. claimed' = [claimed EXCEPT ![r] = {}]
        BY <2>2 DEF SessionLost, Commit, Rollback, Release, MarkFails, TxEnds
      <3> QED BY <1>2, <3>1, FS_EmptySet, BatchAssumption DEF InductiveInv, TypeOK
    <2>3. CASE claimed' = claimed
      BY <1>2, <2>3
    <2> QED
      BY <1>2, <2>1, <2>2, <2>3
         DEF Next, vars, txs, Insert, Arrives, WriteAndMark, WriteFails
  <1> QED BY <1>1, <1>2, Inductive, PTL DEF Spec

(* Events the writer never takes do not keep the others from being claimed:*)
(* whenever a relay claims and an event is free that the writer would take,*)
(* the batch has such an event.                                            *)
ClaimsReachWritable ==
  [][\A r \in Relays :
       FetchAndClaim(r) /\ Free \ Unwritable # {} => claimed'[r] \ Unwritable # {}]_vars

(* So it is if they are fewer than a batch: the part of WritableIsPublished*)
(* that is no matter of fairness.                                          *)
THEOREM UnwritableDoNotStarve ==
  ASSUME Cardinality(Unwritable \cap Events) < BatchSize
  PROVE  Spec => ClaimsReachWritable
  <1>1. ASSUME InductiveInv, NEW r \in Relays, FetchAndClaim(r), Free \ Unwritable # {}
        PROVE  claimed'[r] \ Unwritable # {}
    <2>1. Free \in SUBSET Events
      BY <1>1 DEF Free, InductiveInv, TypeOK
    <2>2. PICK e \in Free \ Unwritable : \A d \in Free \ Unwritable : e <= d
      BY <1>1, <2>1, EarliestExists
    <2> DEFINE Older == {d \in Free : d < e}
    <2>3. Older \subseteq Unwritable \cap Events
      BY <2>1, <2>2, EventsAssumption
    <2>4. Cardinality(Older) < BatchSize
      <3>1. IsFiniteSet(Unwritable \cap Events)
        BY EventsAssumption, FS_Subset
      <3>2. /\ Cardinality(Older) <= Cardinality(Unwritable \cap Events)
            /\ Cardinality(Older) \in Nat /\ Cardinality(Unwritable \cap Events) \in Nat
        <4> HIDE DEF Older
        <4> QED BY <2>3, <3>1, FS_Subset, FS_CardinalityType
      <3> HIDE DEF Older
      <3> QED BY <3>2, BatchAssumption
    <2>5. e \in Oldest(Free)
      BY <2>4 DEF Oldest
    <2>6. claimed'[r] = Oldest(Free)
      BY <1>1 DEF FetchAndClaim, InductiveInv, TypeOK
    <2> QED BY <2>2, <2>5, <2>6
  <1>2. InductiveInv =>
          \A r \in Relays :
            FetchAndClaim(r) /\ Free \ Unwritable # {} => claimed'[r] \ Unwritable # {}
    BY <1>1
  <1> QED BY <1>2, Inductive, PTL DEF ClaimsReachWritable
=============================================================================
