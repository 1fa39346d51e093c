------------------------------- MODULE Outbox -------------------------------
(***************************************************************************)
(* The outbox: the `outbox` table, the backend operations on it            *)
(* (backend/app/services/outbox_service.py behind api/bot/outbox.py) and   *)
(* the worker's dispatcher that drains it into Telegram                    *)
(* (worker/app/tasks/outbox_dispatcher.py, telegram_client.py).            *)
(*                                                                         *)
(* A dispatcher tick is a concurrent process: the cron fires every five    *)
(* seconds, a slow tick overlaps the next ones, and there may be several   *)
(* workers.  phase[t][m] is what tick t is doing with row m:               *)
(*   "none"    nothing                                                     *)
(*   "locked"  selected FOR UPDATE by t's fetch, not committed             *)
(*   "held"    claimed for t; Telegram has not answered yet                *)
(*   "ok"      Telegram answered ok; the ack to the backend is due         *)
(*   "err"     Telegram refused, or no answer came; the ack is due         *)
(* Message bodies, templates and keyboards are left out.  Time is counted  *)
(* in minutes, the unit of the backoff.                                    *)
(***************************************************************************)
EXTENDS Integers, FiniteSets

CONSTANTS Msgs,         \* row ids, numbers because fetch breaks ties by id
          Ticks,        \* dispatcher ticks that can run at the same time
          BatchLimit,   \* rows a fetch may claim (settings.outbox_batch_size)
          MaxAttempts,  \* max_attempts of mark_failed
          Faults        \* which of FaultKinds may happen

FaultKinds == {"fetch_rollback", "tick_stop", "ack_lost"}

ASSUME OutboxAssumption ==
    /\ Msgs \subseteq Nat
    /\ BatchLimit \in Nat \ {0}
    /\ MaxAttempts \in Nat \ {0}
    /\ Faults \subseteq FaultKinds

VARIABLES status,      \* row -> outbox.status, "absent" before the insert
          attempts,    \* row -> outbox.attempts
          sendAfter,   \* row -> outbox.send_after
          phase,       \* tick -> row -> see above
          delivered,   \* row -> times Telegram posted the message (history)
          now          \* the clock, in minutes

vars == <<status, attempts, sendAfter, phase, delivered, now>>

Statuses == {"absent", "pending", "dispatching", "sent", "failed"}
Phases   == {"none", "locked", "held", "ok", "err"}
Claimed  == {"held", "ok", "err"}

\* 2^attempts minutes, never more than an hour: min(2^a, 60), and 2^6 > 60.
Backoff(a) ==
    IF a <= 0 THEN 1 ELSE IF a <= 5 THEN <<2, 4, 8, 16, 32>>[a] ELSE 60

Idle(t) == \A m \in Msgs : phase[t][m] = "none"

-----------------------------------------------------------------------------
\* Mutant: the plain SELECT of the SQLite fallback, blind to row locks.
ClaimableUnlocked == {m \in Msgs : status[m] = "pending" /\ sendAfter[m] <= now}

\* Mutant: the last attempt is never made.
ClaimableButLast ==
    {m \in Msgs : /\ status[m] = "pending"
                  /\ sendAfter[m] <= now /\ attempts[m] + 1 < MaxAttempts
                  /\ \A u \in Ticks : phase[u][m] # "locked"}

\* The rows a fetch may still take: due, and not locked by another fetch.
Claimable ==
    {m \in Msgs : /\ status[m] = "pending"
                  /\ sendAfter[m] <= now
                  /\ \A u \in Ticks : phase[u][m] # "locked"}

\* ORDER BY send_after, id
Before(a, b) ==
    \/ sendAfter[a] < sendAfter[b]
    \/ sendAfter[a] = sendAfter[b] /\ a < b

\* B is what ORDER BY ... LIMIT returns.
IsBatch(B) ==
    /\ B # {} /\ B \subseteq Claimable
    /\ Cardinality(B) <= BatchLimit
    /\ \A b \in B, c \in Claimable \ B : Before(b, c)
    /\ Cardinality(B) = BatchLimit \/ B = Claimable

-----------------------------------------------------------------------------
Init ==
    /\ status = [m \in Msgs |-> "absent"]
    /\ attempts = [m \in Msgs |-> 0]
    /\ sendAfter = [m \in Msgs |-> 0]
    /\ phase = [t \in Ticks |-> [m \in Msgs |-> "none"]]
    /\ delivered = [m \in Msgs |-> 0]
    /\ now = 0

\* The transaction of a caller that enqueued row m commits.
Enqueue(m) ==
    /\ status[m] = "absent"
    /\ status' = [status EXCEPT ![m] = "pending"]
    /\ sendAfter' = [sendAfter EXCEPT ![m] = now]
    /\ UNCHANGED <<attempts, phase, delivered, now>>

\* SELECT ... FOR UPDATE SKIP LOCKED of fetch_pending.
FetchSelect(t) ==
    /\ Idle(t)
    /\ \E B \in SUBSET Claimable :
        /\ IsBatch(B)
        /\ phase' = [phase EXCEPT ![t] =
                        [m \in Msgs |-> IF m \in B THEN "locked" ELSE "none"]]
    /\ UNCHANGED <<status, attempts, sendAfter, delivered, now>>

LockedBy(t) == {m \in Msgs : phase[t][m] = "locked"}

\* Mutant: attempts counted by the ack instead of the claim.
FetchCommitUncounted(t) ==
    /\ LockedBy(t) # {}
    /\ status' = [m \in Msgs |->
                    IF m \in LockedBy(t) THEN "dispatching" ELSE status[m]]
    /\ phase' = [phase EXCEPT ![t] =
                    [m \in Msgs |-> IF m \in LockedBy(t) THEN "held" ELSE @[m]]]
    /\ UNCHANGED <<attempts, sendAfter, delivered, now>>

\* UPDATE ... SET status='dispatching', attempts=attempts+1 and the commit the
\* endpoint makes before it renders the rows and answers.
FetchCommit(t) ==
    /\ LockedBy(t) # {}
    /\ status' = [m \in Msgs |->
                    IF m \in LockedBy(t) THEN "dispatching" ELSE status[m]]
    /\ attempts' = [m \in Msgs |->
                    IF m \in LockedBy(t) THEN attempts[m] + 1 ELSE attempts[m]]
    /\ phase' = [phase EXCEPT ![t] =
                    [m \in Msgs |-> IF m \in LockedBy(t) THEN "held" ELSE @[m]]]
    /\ UNCHANGED <<sendAfter, delivered, now>>

\* The fetch transaction fails before its commit and is rolled back.
FetchRollback(t) ==
    /\ "fetch_rollback" \in Faults
    /\ LockedBy(t) # {}
    /\ phase' = [phase EXCEPT ![t] = [m \in Msgs |-> "none"]]
    /\ UNCHANGED <<status, attempts, sendAfter, delivered, now>>

\* The tick is gone with claimed rows in its hands: the reply of the fetch was
\* lost or was a 500 raised after the commit, the ARQ job timed out, or the
\* worker died.  Nothing looks at the rows again.
TickStops(t) ==
    /\ "tick_stop" \in Faults
    /\ \E m \in Msgs : phase[t][m] \in Claimed
    /\ phase' = [phase EXCEPT ![t] = [m \in Msgs |-> "none"]]
    /\ UNCHANGED <<status, attempts, sendAfter, delivered, now>>

-----------------------------------------------------------------------------
\* Telegram posts the message and its answer arrives (possibly on the one
\* repetition after a 429, which posts nothing).
TelegramOk(t, m) ==
    /\ phase[t][m] = "held"
    /\ delivered' = [delivered EXCEPT ![m] = @ + 1]
    /\ phase' = [phase EXCEPT ![t][m] = "ok"]
    /\ UNCHANGED <<status, attempts, sendAfter, now>>

\* Mutant: the dispatcher does not look at `ok` in Telegram's envelope.
TelegramRefusesUnnoticed(t, m) ==
    /\ phase[t][m] = "held"
    /\ phase' = [phase EXCEPT ![t][m] = "ok"]
    /\ UNCHANGED <<status, attempts, sendAfter, delivered, now>>

\* Telegram refuses (4xx, 5xx, two 429s), cannot be reached, or the payload is
\* malformed and nothing is sent.
TelegramRefuses(t, m) ==
    /\ phase[t][m] = "held"
    /\ phase' = [phase EXCEPT ![t][m] = "err"]
    /\ UNCHANGED <<status, attempts, sendAfter, delivered, now>>

\* Telegram posts the message but the answer is lost: the client reports a
\* network error.
TelegramSilent(t, m) ==
    /\ phase[t][m] = "held"
    /\ delivered' = [delivered EXCEPT ![m] = @ + 1]
    /\ phase' = [phase EXCEPT ![t][m] = "err"]
    /\ UNCHANGED <<status, attempts, sendAfter, now>>

\* POST /outbox/{id}/sent
MarkSent(t, m) ==
    /\ phase[t][m] = "ok"
    /\ status' = [status EXCEPT ![m] = "sent"]
    /\ phase' = [phase EXCEPT ![t][m] = "none"]
    /\ UNCHANGED <<attempts, sendAfter, delivered, now>>

\* Mutants of the failure ack: off by one; no retry.
MarkFailedLate(t, m) ==
    /\ phase[t][m] = "err"
    /\ IF attempts[m] > MaxAttempts
       THEN /\ status' = [status EXCEPT ![m] = "failed"]
            /\ UNCHANGED sendAfter
       ELSE /\ status' = [status EXCEPT ![m] = "pending"]
            /\ sendAfter' = [sendAfter EXCEPT ![m] = now + Backoff(attempts[m])]
    /\ phase' = [phase EXCEPT ![t][m] = "none"]
    /\ UNCHANGED <<attempts, delivered, now>>

MarkFailedEarly(t, m) ==
    /\ phase[t][m] = "err"
    /\ status' = [status EXCEPT ![m] = "failed"]
    /\ phase' = [phase EXCEPT ![t][m] = "none"]
    /\ UNCHANGED <<attempts, sendAfter, delivered, now>>

\* POST /outbox/{id}/failed
MarkFailed(t, m) ==
    /\ phase[t][m] = "err"
    /\ IF attempts[m] >= MaxAttempts
       THEN /\ status' = [status EXCEPT ![m] = "failed"]
            /\ UNCHANGED sendAfter
       ELSE /\ status' = [status EXCEPT ![m] = "pending"]
            /\ sendAfter' = [sendAfter EXCEPT ![m] = now + Backoff(attempts[m])]
    /\ phase' = [phase EXCEPT ![t][m] = "none"]
    /\ UNCHANGED <<attempts, delivered, now>>

\* The ack does not reach the backend, or is refused: the worker logs a
\* warning and drops it.
AckLost(t, m) ==
    /\ "ack_lost" \in Faults
    /\ phase[t][m] \in {"ok", "err"}
    /\ phase' = [phase EXCEPT ![t][m] = "none"]
    /\ UNCHANGED <<status, attempts, sendAfter, delivered, now>>

\* A minute passes.  Time nobody waits for is not modelled: this keeps the
\* clock finite without cutting any behaviour of the rows.
Minute ==
    /\ \E m \in Msgs : status[m] = "pending" /\ sendAfter[m] > now
    /\ now' = now + 1
    /\ UNCHANGED <<status, attempts, sendAfter, phase, delivered>>

-----------------------------------------------------------------------------
Fetch(t) == FetchSelect(t) \/ FetchCommit(t) \/ FetchRollback(t) \/ TickStops(t)

Telegram(t, m) == TelegramOk(t, m) \/ TelegramRefuses(t, m) \/ TelegramSilent(t, m)

Ack(t, m) == MarkSent(t, m) \/ MarkFailed(t, m) \/ AckLost(t, m)

Next ==
    \/ \E m \in Msgs : Enqueue(m)
    \/ \E t \in Ticks : Fetch(t)
    \/ \E t \in Ticks, m \in Msgs : Telegram(t, m) \/ Ack(t, m)
    \/ Minute

Spec == Init /\ [][Next]_vars

\* The cron keeps firing, a claimed message is processed by its coroutine, an
\* answer from Telegram or a timeout always comes, acks are posted and time
\* passes.  A fetch that keeps being tried commits in the end (strong fairness:
\* the database is not down for ever).  Nothing forces a fault, and nothing
\* forces a caller to enqueue.
Fairness ==
    /\ \A t \in Ticks :
        /\ WF_vars(FetchSelect(t))
        /\ SF_vars(FetchCommit(t))
        /\ \A m \in Msgs :
            /\ WF_vars(Telegram(t, m))
            /\ WF_vars(MarkSent(t, m) \/ MarkFailed(t, m))
    /\ WF_vars(Minute)

FairSpec == Spec /\ Fairness

-----------------------------------------------------------------------------
\* Type correctness; attempts never pass the limit of mark_failed.
TypeOK ==
    /\ status \in [Msgs -> Statuses]
    /\ attempts \in [Msgs -> 0..MaxAttempts]
    /\ sendAfter \in [Msgs -> Nat]
    /\ phase \in [Ticks -> [Msgs -> Phases]]
    /\ delivered \in [Msgs -> Nat]
    /\ now \in Nat

\* "Two workers can never claim the same row": at any time at most one tick
\* works on a row, from the locking select to the ack, whatever is lost on
\* the way, and a claimed row is exactly one in `dispatching`.
ClaimExclusive ==
    \A m \in Msgs : \A t, u \in Ticks :
        /\ phase[t][m] # "none" /\ phase[u][m] # "none" => t = u
        /\ phase[t][m] \in Claimed => status[m] = "dispatching"

\* A user never gets one message more often than the row has been claimed: a
\* lost Telegram answer or a lost ack costs at most one duplicate per retry.
DeliveriesWithinAttempts == \A m \in Msgs : delivered[m] <= attempts[m]

\* A row reaches its end states only for a reason: `sent` after Telegram posted
\* the message, `failed` after the last permitted attempt.
EndsForAReason ==
    \A m \in Msgs :
        /\ status[m] = "sent" => delivered[m] > 0
        /\ status[m] = "failed" => attempts[m] = MaxAttempts

\* A row as the promise sees it: claimed or not, how it ended.
PromisedStatus(s) ==
    IF s = "absent" THEN "none"
    ELSE IF s = "pending" THEN "queued"
    ELSE IF s = "dispatching" THEN "trying"
    ELSE s

PromisedState == [m \in Msgs |-> PromisedStatus(status[m])]

Promise == INSTANCE Delivery WITH
    MaxTries <- MaxAttempts, tries <- attempts, state <- PromisedState

\* The outbox implements the delivery promise: claims, locks, lost replies and
\* backoff are all stutters or single steps of module Delivery.
ImplementsDelivery == Promise!Spec

\* Nothing will look at the row again: it is claimed, and no tick holds it.
Stranded(m) == status[m] = "dispatching" /\ \A t \in Ticks : phase[t][m] \notin Claimed

\* Reliable sending: every row that was enqueued is eventually sent or given
\* up for good.
EveryRowSettles ==
    \A m \in Msgs :
        status[m] = "pending" ~> status[m] \in {"sent", "failed"}

\* Whatever is lost on the way, every row that was enqueued is eventually sent
\* or given up for good, unless a lost acknowledgement or a tick that stopped
\* left it claimed by nobody.
SettlesUnlessStranded ==
    \A m \in Msgs :
        status[m] = "pending" ~> status[m] \in {"sent", "failed"} \/ Stranded(m)
=============================================================================
