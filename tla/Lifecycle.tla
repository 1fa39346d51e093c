------------------------------ MODULE Lifecycle ------------------------------
(***************************************************************************)
(* What happens to subscriptions besides being paid for, side by side:     *)
(* rows and their keys (module Subscription), the notices about their end  *)
(* (Notices), and free trials with what referrers get for them (Trial).    *)
(* The three share no state here: each has its own view of the rows.       *)
(***************************************************************************)
EXTENDS Subscription

CONSTANTS TrialSubs, Referred, Ends, Ahead, Longer, Limit, MaxExtended, MaxMissed, Late,
          Customers, Attempts, Reissues, Payments, Whose

VARIABLES clock, ran, mark, ends, sent, queued, promos, extended, missed, cutoff,
          known, invited, bonusPaid, trialBonus, got, link, at, old, bonuses, minted,
          crashed, passed

N == INSTANCE Notices WITH
        now <- clock, status <- mark, expires <- ends,
        Trials <- TrialSubs, Bought <- Ends, Horizon <- Late

T == INSTANCE Trial WITH
        Users <- Customers, Requests <- Attempts,
        row <- got, key <- link, pc <- at, raced <- passed

ASSUME LifecycleAssumption == N!NoticesAssumption /\ T!TrialAssumption

nvars == <<clock, ran, mark, ends, sent, queued, promos, extended, missed, cutoff>>
tvars == <<known, invited, bonusPaid, trialBonus, got, link, at, old, bonuses, minted,
           crashed, passed>>

LifecycleInit == Init /\ N!Init /\ T!Init

\* Each of the three moves by itself.
Rows(action)    == action /\ UNCHANGED <<nvars, tvars>>
Notices(action) == action /\ UNCHANGED <<vars, tvars>>
Trials(action)  == action /\ UNCHANGED <<vars, nvars>>

LifecycleNext == Rows(Next) \/ Notices(N!Next) \/ Trials(T!Next)

LifecycleSpec == LifecycleInit /\ [][LifecycleNext]_<<vars, nvars, tvars>>

-----------------------------------------------------------------------------
\* Types of rows and keys, of notices and of trials.
Types == TypeOK /\ N!TypeOK /\ T!TypeOK

\* Notices arrive, once, while the worker is up and the limit is not reached: an
\* expiry is announced within an hour and a half, and a reminder survives one
\* start that was missed.
NoticesArrive == N!NoticesArrive

\* A user has one trial, unless two requests passed the check together.
OneTrial == T!OneTrial

\* A referrer is rewarded once for a served trial and once for a first payment.
RewardsEarned == T!RewardsEarned

\* An active trial has its key, a pending one somebody who works on it, unless the
\* one who did has died.
StatusIsHonest == T!StatusIsHonest
=============================================================================
