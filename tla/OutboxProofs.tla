---------------------------- MODULE OutboxProofs ----------------------------
(***************************************************************************)
(* Proofs about the outbox for any set of rows and ticks, any batch limit  *)
(* and any retry limit, with every fault allowed.                          *)
(*                                                                         *)
(* None of the invariants of module Outbox is inductive alone.  That a row *)
(* is worked on by one tick needs that locked rows are pending and claimed *)
(* rows dispatching; that a try is left for a delivery needs that a        *)
(* pending row has attempts left, and that a held row has one attempt more *)
(* than deliveries.  IInv is their conjunction with the type invariant.    *)
(***************************************************************************)
EXTENDS Outbox, TLAPS

\* One tick per row.
Exclusive ==
    \A m \in Msgs : \A t, u \in Ticks :
        phase[t][m] # "none" /\ phase[u][m] # "none" => t = u

\* What a tick's hold on a row says of the row.
HoldMeans ==
    \A m \in Msgs : \A t \in Ticks :
        /\ phase[t][m] = "locked" => status[m] = "pending"
        /\ phase[t][m] \in Claimed => status[m] = "dispatching"
        /\ phase[t][m] = "held" => delivered[m] < attempts[m]
        /\ phase[t][m] = "ok" => delivered[m] > 0

\* What the status of a row says of its counters.
StatusMeans ==
    \A m \in Msgs :
        /\ delivered[m] <= attempts[m]
        /\ status[m] = "absent" => attempts[m] = 0
        /\ status[m] = "pending" => attempts[m] < MaxAttempts
        /\ status[m] = "sent" => delivered[m] > 0
        /\ status[m] = "failed" => attempts[m] = MaxAttempts

IInv == TypeOK /\ Exclusive /\ HoldMeans /\ StatusMeans
USE DEF Statuses, Phases, Claimed

LEMMA BackoffNat == ASSUME NEW a \in Nat PROVE Backoff(a) \in Nat
<1>1. CASE a = 0 BY <1>1 DEF Backoff
<1>2. CASE a \in 1..5
  <2>1. a = 1 \/ a = 2 \/ a = 3 \/ a = 4 \/ a = 5 BY <1>2
  <2> QED BY <2>1 DEF Backoff
<1>3. CASE a > 5 BY <1>3 DEF Backoff
<1> QED BY <1>1, <1>2, <1>3

\* The inductive invariant holds in the empty table.
LEMMA InitInv == Init => IInv
<1> SUFFICES ASSUME Init PROVE IInv OBVIOUS
<1> USE OutboxAssumption DEF Init
<1>1. TypeOK BY DEF TypeOK
<1>2. Exclusive BY DEF Exclusive
<1>3. HoldMeans BY DEF HoldMeans
<1>4. StatusMeans BY DEF StatusMeans
<1> QED BY <1>1, <1>2, <1>3, <1>4 DEF IInv

\* ... and every step of the outbox keeps it.
LEMMA StepInv == IInv /\ [Next]_vars => IInv'
<1> SUFFICES ASSUME IInv, [Next]_vars PROVE IInv' OBVIOUS
<1> USE OutboxAssumption DEF IInv
<1>1. ASSUME NEW m \in Msgs, Enqueue(m) PROVE IInv'
  <2>1. TypeOK' BY <1>1 DEF Enqueue, TypeOK
  <2>2. Exclusive' BY <1>1 DEF Enqueue, Exclusive
  <2>3. HoldMeans' BY <1>1 DEF Enqueue, HoldMeans
  <2>4. StatusMeans' BY <1>1 DEF Enqueue, StatusMeans
  <2> QED BY <2>1, <2>2, <2>3, <2>4
<1>2. ASSUME NEW t \in Ticks, FetchSelect(t) PROVE IInv'
  <2>1. TypeOK' BY <1>2 DEF FetchSelect, TypeOK
  <2>2. Exclusive' BY <1>2 DEF FetchSelect, TypeOK, Exclusive, HoldMeans, Claimable
  <2>3. HoldMeans' BY <1>2 DEF FetchSelect, HoldMeans, Claimable
  <2>4. StatusMeans' BY <1>2 DEF FetchSelect, StatusMeans
  <2> QED BY <2>1, <2>2, <2>3, <2>4
<1>3. ASSUME NEW t \in Ticks, FetchCommit(t) PROVE IInv'
  <2>1. TypeOK' BY <1>3 DEF FetchCommit, TypeOK, HoldMeans, StatusMeans, LockedBy
  <2>2. Exclusive' BY <1>3 DEF FetchCommit, Exclusive, LockedBy
  <2>3. HoldMeans' BY <1>3 DEF FetchCommit, TypeOK, HoldMeans, Exclusive, StatusMeans, LockedBy
  <2>4. StatusMeans' BY <1>3 DEF FetchCommit, TypeOK, StatusMeans
  <2> QED BY <2>1, <2>2, <2>3, <2>4
<1>4. ASSUME NEW t \in Ticks, FetchRollback(t) PROVE IInv'
  <2>1. TypeOK' BY <1>4 DEF FetchRollback, TypeOK
  <2>2. Exclusive' BY <1>4 DEF FetchRollback, Exclusive
  <2>3. HoldMeans' BY <1>4 DEF FetchRollback, HoldMeans
  <2>4. StatusMeans' BY <1>4 DEF FetchRollback, StatusMeans
  <2> QED BY <2>1, <2>2, <2>3, <2>4
<1>5. ASSUME NEW t \in Ticks, TickStops(t) PROVE IInv'
  <2>1. TypeOK' BY <1>5 DEF TickStops, TypeOK
  <2>2. Exclusive' BY <1>5 DEF TickStops, TypeOK, Exclusive
  <2>3. HoldMeans' BY <1>5 DEF TickStops, TypeOK, HoldMeans
  <2>4. StatusMeans' BY <1>5 DEF TickStops, StatusMeans
  <2> QED BY <2>1, <2>2, <2>3, <2>4
<1>6. ASSUME NEW t \in Ticks, NEW m \in Msgs, TelegramOk(t, m) PROVE IInv'
  <2>1. TypeOK' BY <1>6 DEF TelegramOk, TypeOK
  <2>2. Exclusive' BY <1>6 DEF TelegramOk, Exclusive
  <2>3. HoldMeans' BY <1>6 DEF TelegramOk, TypeOK, HoldMeans, Exclusive
  <2>4. StatusMeans' BY <1>6 DEF TelegramOk, TypeOK, StatusMeans, HoldMeans
  <2> QED BY <2>1, <2>2, <2>3, <2>4
<1>7. ASSUME NEW t \in Ticks, NEW m \in Msgs, TelegramRefuses(t, m) PROVE IInv'
  <2>1. TypeOK' BY <1>7 DEF TelegramRefuses, TypeOK
  <2>2. Exclusive' BY <1>7 DEF TelegramRefuses, Exclusive
  <2>3. HoldMeans' BY <1>7 DEF TelegramRefuses, HoldMeans
  <2>4. StatusMeans' BY <1>7 DEF TelegramRefuses, StatusMeans
  <2> QED BY <2>1, <2>2, <2>3, <2>4
<1>8. ASSUME NEW t \in Ticks, NEW m \in Msgs, TelegramSilent(t, m) PROVE IInv'
  <2>1. TypeOK' BY <1>8 DEF TelegramSilent, TypeOK
  <2>2. Exclusive' BY <1>8 DEF TelegramSilent, Exclusive
  <2>3. HoldMeans' BY <1>8 DEF TelegramSilent, TypeOK, HoldMeans, Exclusive
  <2>4. StatusMeans' BY <1>8 DEF TelegramSilent, TypeOK, StatusMeans, HoldMeans
  <2> QED BY <2>1, <2>2, <2>3, <2>4
<1>9. ASSUME NEW t \in Ticks, NEW m \in Msgs, MarkSent(t, m) PROVE IInv'
  <2>1. TypeOK' BY <1>9 DEF MarkSent, TypeOK
  <2>2. Exclusive' BY <1>9 DEF MarkSent, Exclusive
  <2>3. HoldMeans' BY <1>9 DEF MarkSent, TypeOK, HoldMeans, Exclusive
  <2>4. StatusMeans' BY <1>9 DEF MarkSent, StatusMeans, HoldMeans
  <2> QED BY <2>1, <2>2, <2>3, <2>4
<1>10. ASSUME NEW t \in Ticks, NEW m \in Msgs, MarkFailed(t, m) PROVE IInv'
  <2>1. TypeOK' BY <1>10, BackoffNat DEF MarkFailed, TypeOK
  <2>2. Exclusive' BY <1>10 DEF MarkFailed, Exclusive
  <2>3. HoldMeans' BY <1>10 DEF MarkFailed, TypeOK, HoldMeans, Exclusive
  <2>4. StatusMeans' BY <1>10 DEF MarkFailed, TypeOK, StatusMeans
  <2> QED BY <2>1, <2>2, <2>3, <2>4
<1>11. ASSUME NEW t \in Ticks, NEW m \in Msgs, AckLost(t, m) PROVE IInv'
  <2>1. TypeOK' BY <1>11 DEF AckLost, TypeOK
  <2>2. Exclusive' BY <1>11 DEF AckLost, Exclusive
  <2>3. HoldMeans' BY <1>11 DEF AckLost, HoldMeans
  <2>4. StatusMeans' BY <1>11 DEF AckLost, StatusMeans
  <2> QED BY <2>1, <2>2, <2>3, <2>4
<1>12. CASE Minute
  <2>1. TypeOK' BY <1>12 DEF Minute, TypeOK
  <2>2. Exclusive' BY <1>12 DEF Minute, Exclusive
  <2>3. HoldMeans' BY <1>12 DEF Minute, HoldMeans
  <2>4. StatusMeans' BY <1>12 DEF Minute, StatusMeans
  <2> QED BY <2>1, <2>2, <2>3, <2>4
<1>13. CASE UNCHANGED vars
  <2>1. TypeOK' BY <1>13 DEF vars, TypeOK
  <2>2. Exclusive' BY <1>13 DEF vars, Exclusive
  <2>3. HoldMeans' BY <1>13 DEF vars, HoldMeans
  <2>4. StatusMeans' BY <1>13 DEF vars, StatusMeans
  <2> QED BY <2>1, <2>2, <2>3, <2>4
<1> QED
  BY <1>1, <1>2, <1>3, <1>4, <1>5, <1>6, <1>7, <1>8, <1>9, <1>10, <1>11, <1>12, <1>13 DEF Next, Fetch, Telegram, Ack

\* Type correctness, attempts within the limit included: the table and the
\* worker never leave the states the code names.
THEOREM TypeCorrect == Spec => []TypeOK
<1>1. IInv => TypeOK BY DEF IInv
<1> QED BY InitInv, StepInv, <1>1, PTL DEF Spec

\* However many workers fetch at once and whatever is lost, a row is in the
\* hands of at most one tick, and claimed rows are dispatching.
THEOREM NoDoubleClaim == Spec => []ClaimExclusive
<1>1. IInv => ClaimExclusive
  BY DEF IInv, Exclusive, HoldMeans, ClaimExclusive
<1> QED BY InitInv, StepInv, <1>1, PTL DEF Spec

\* A message is posted at most once per attempt, hence at most MaxAttempts
\* times.
THEOREM BoundedDelivery == Spec => []DeliveriesWithinAttempts
<1>1. IInv => DeliveriesWithinAttempts
  BY DEF IInv, StatusMeans, DeliveriesWithinAttempts
<1> QED BY InitInv, StepInv, <1>1, PTL DEF Spec

\* `sent` means posted, `failed` means that the attempts are used up.
THEOREM HonestEnds == Spec => []EndsForAReason
<1>1. IInv => EndsForAReason BY DEF IInv, StatusMeans, EndsForAReason
<1> QED BY InitInv, StepInv, <1>1, PTL DEF Spec

-----------------------------------------------------------------------------
\* The refinement: what each step of the outbox is in module Delivery.

LEMMA InitRefines == Init => Promise!Init
BY DEF Init, Promise!Init, PromisedState, PromisedStatus

LEMMA StepRefines == IInv /\ [Next]_vars => [Promise!Next]_(Promise!vars)
<1> SUFFICES ASSUME IInv, [Next]_vars
    PROVE Promise!Next \/ UNCHANGED Promise!vars
  BY DEF Promise!Next, Promise!vars
<1> USE OutboxAssumption DEF IInv
<1>a. ASSUME UNCHANGED <<status, attempts, delivered>>
      PROVE UNCHANGED Promise!vars
  BY <1>a DEF Promise!vars, PromisedState
<1>b. ASSUME NEW m \in Msgs, NEW s \in Statuses, status' = [status EXCEPT ![m] = s]
      PROVE PromisedState' = [PromisedState EXCEPT ![m] = PromisedStatus(s)]
  BY <1>b DEF PromisedState, TypeOK
<1>1. ASSUME NEW m \in Msgs, Enqueue(m) PROVE Promise!Queue(m)
  <2>1. PromisedState' = [PromisedState EXCEPT ![m] = "queued"]
    BY <1>1, <1>b DEF Enqueue, PromisedStatus
  <2>2. PromisedState[m] = "none"
    BY <1>1 DEF Enqueue, PromisedState, PromisedStatus
  <2> QED BY <1>1, <2>1, <2>2 DEF Enqueue, Promise!Queue
<1>2. ASSUME NEW t \in Ticks, FetchCommit(t) PROVE Promise!Start(LockedBy(t))
  <2>1. \A m \in LockedBy(t) :
          PromisedState[m] = "queued" /\ attempts[m] < MaxAttempts
    BY DEF LockedBy, HoldMeans, StatusMeans, PromisedState, PromisedStatus
  <2>2. PromisedState' = [m \in Msgs |-> IF m \in LockedBy(t) THEN "trying"
                                                          ELSE PromisedState[m]]
    BY <1>2 DEF FetchCommit, LockedBy, PromisedState, PromisedStatus
  <2> QED BY <1>2, <2>1, <2>2 DEF FetchCommit, Promise!Start
<1>3. ASSUME NEW t \in Ticks, NEW m \in Msgs,
             TelegramOk(t, m) \/ TelegramSilent(t, m)
      PROVE Promise!Deliver(m)
  <2>1. phase[t][m] = "held" /\ UNCHANGED <<status, attempts>>
        /\ delivered' = [delivered EXCEPT ![m] = @ + 1]
    BY <1>3 DEF TelegramOk, TelegramSilent
  <2>2. status[m] = "dispatching" /\ delivered[m] < attempts[m]
    BY <2>1 DEF HoldMeans
  <2> QED BY <2>1, <2>2 DEF Promise!Deliver, PromisedState, PromisedStatus
<1>4. ASSUME NEW t \in Ticks, NEW m \in Msgs, MarkSent(t, m)
      PROVE Promise!Confirm(m)
  <2>1. PromisedState' = [PromisedState EXCEPT ![m] = "sent"]
    BY <1>4, <1>b DEF MarkSent, PromisedStatus
  <2>2. PromisedState[m] = "trying" /\ delivered[m] > 0
    BY <1>4 DEF MarkSent, HoldMeans, PromisedState, PromisedStatus
  <2> QED BY <1>4, <2>1, <2>2 DEF MarkSent, Promise!Confirm
<1>5. ASSUME NEW t \in Ticks, NEW m \in Msgs, MarkFailed(t, m)
      PROVE Promise!GiveUp(m) \/ Promise!Requeue(m)
  <2>1. PromisedState[m] = "trying"
    BY <1>5 DEF MarkFailed, HoldMeans, PromisedState, PromisedStatus
  <2>2. CASE attempts[m] >= MaxAttempts
    <3>1. PromisedState' = [PromisedState EXCEPT ![m] = "failed"]
      BY <1>5, <2>2, <1>b DEF MarkFailed, PromisedStatus
    <3> QED BY <1>5, <2>1, <2>2, <3>1 DEF MarkFailed, Promise!GiveUp
  <2>3. CASE ~(attempts[m] >= MaxAttempts)
    <3>1. PromisedState' = [PromisedState EXCEPT ![m] = "queued"]
      BY <1>5, <2>3, <1>b DEF MarkFailed, PromisedStatus
    <3>2. attempts[m] < MaxAttempts BY <2>3 DEF TypeOK
    <3> QED BY <1>5, <2>1, <3>1, <3>2 DEF MarkFailed, Promise!Requeue
  <2> QED BY <2>2, <2>3
<1>6. ASSUME NEW t \in Ticks,
             \/ FetchSelect(t) \/ FetchRollback(t) \/ TickStops(t)
             \/ \E m \in Msgs : TelegramRefuses(t, m) \/ AckLost(t, m)
      PROVE UNCHANGED Promise!vars
  BY <1>6, <1>a DEF FetchSelect, FetchRollback, TickStops, TelegramRefuses, AckLost
<1>7. CASE Minute \/ UNCHANGED vars
  BY <1>7, <1>a DEF Minute, vars
<1>8. ASSUME NEW t \in Ticks PROVE LockedBy(t) \in SUBSET Msgs
  BY DEF LockedBy
<1> QED
  BY <1>1, <1>2, <1>3, <1>4, <1>5, <1>6, <1>7, <1>8
  DEF Next, Fetch, Telegram, Ack, Promise!Next

\* The outbox implements module Delivery: at least once for a message that ends
\* as sent, at most MaxAttempts times for any, end states for ever.
THEOREM OutboxRefines == Spec => ImplementsDelivery
<1> QED
  BY InitInv, StepInv, InitRefines, StepRefines, PTL
  DEF Spec, ImplementsDelivery, Promise!Spec
=============================================================================
