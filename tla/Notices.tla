------------------------------- MODULE Notices -------------------------------
(***************************************************************************)
(* The notices about the end of a subscription: the hourly crons of the    *)
(* worker that remind of it (notify_expiring.py, notify_trial_expiring.py),*)
(* mark it (mark_expired.py) and announce it (notify_expired.py).  Each    *)
(* cron is one transaction; ARQ starts it at its minute of the hour and    *)
(* does not make up for a start it missed.  notifications_sent is unique   *)
(* per subscription and kind.                                              *)
(*                                                                         *)
(* Time is counted in steps of ten minutes, so that the minutes at which   *)
(* the crons run and the windows they look through can be told apart.      *)
(***************************************************************************)
EXTENDS Integers, FiniteSets

CONSTANTS Subs, Trials,  \* subscriptions, and which of them are free trials
          Referred,      \* those whose user has the referral discount
          Bought,        \* subscription -> the moment it ends, as first bought
          Ahead,         \* kind of reminder -> how long before the end it is due
          Longer,        \* what an extension adds
          Limit,         \* rows a cron handles at most (LIMIT 500)
          MaxExtended, MaxMissed, Horizon   \* bounds

Reminders == {"expiry_3d", "trial_expiring_24h"}
Kinds     == Reminders \cup {"expired"}

Hour   == 6

\* Mutant: an expiry is announced within an hour only.
GraceHour == Hour

Grace == 2 * Hour       \* how long an expiry is worth announcing

\* The crons of each hour, at 23, 37, 43 and 53 minutes.
Crons  == {"expiry_3d", "trial_expiring_24h", "mark", "expired"}
Minute == [expiry_3d |-> 2, trial_expiring_24h |-> 3, mark |-> 4, expired |-> 5]

NoticesAssumption ==
    /\ Trials \subseteq Subs /\ Referred \subseteq Subs
    /\ Bought \in [Subs -> Nat]
    /\ Ahead \in [Reminders -> Nat] /\ \A k \in Reminders : Ahead[k] >= Hour
    /\ Longer \in Nat \ {0} /\ Limit \in Nat \ {0}
    /\ MaxExtended \in Nat /\ MaxMissed \in Nat /\ Horizon \in Nat

VARIABLES now,
          ran,        \* whether the cron of this minute has had its turn
          status, expires,
          sent,       \* subscription -> kinds in notifications_sent
          queued,     \* notices put into the outbox: subscription, kind, end
          promos,     \* subscriptions with a code TRIAL15_<id>
          extended,   \* how often a subscription was extended
          missed,     \* cron -> how many starts it missed so far
          cutoff      \* crons that found more rows than Limit so far

vars == <<now, ran, status, expires, sent, queued, promos, extended, missed, cutoff>>

Due(c) == now % Hour = Minute[c] /\ ~ran

Init ==
    /\ now = 0 /\ ran = FALSE
    /\ status = [s \in Subs |-> "active"]
    /\ expires = Bought
    /\ sent = [s \in Subs |-> {}]
    /\ queued = {}
    /\ promos = {}
    /\ extended = [s \in Subs |-> 0]
    /\ missed = [c \in Crons |-> 0]
    /\ cutoff = {}

\* Ten minutes pass.
Tick ==
    /\ now < Horizon
    /\ \A c \in Crons : ~Due(c)
    /\ now' = now + 1
    /\ ran' = FALSE
    /\ UNCHANGED <<status, expires, sent, queued, promos, extended, missed, cutoff>>

\* The worker is down, or the transaction fails and the task gives up.
Miss(c) ==
    /\ Due(c) /\ missed[c] < MaxMissed
    /\ missed' = [missed EXCEPT ![c] = @ + 1]
    /\ ran' = TRUE
    /\ UNCHANGED <<now, status, expires, sent, queued, promos, extended, cutoff>>

\* What a cron finds: rows in its window without a notice of its kind.
InWindow(k, s) ==
    IF k = "expired"
    THEN status[s] = "expired" /\ expires[s] >= now - Grace
    ELSE /\ status[s] = "active"
         /\ k = "trial_expiring_24h" => s \in Trials
         /\ expires[s] >= now + Ahead[k] - Hour
         /\ expires[s] <= now + Ahead[k] + Hour

Found(k) == {s \in Subs : InWindow(k, s) /\ k \notin sent[s]}

\* The rows a cron takes: those that end first, Limit of them.
Taken(k, B) ==
    /\ B \subseteq Found(k)
    /\ \A s \in B, v \in Found(k) \ B : expires[s] <= expires[v]
    /\ Cardinality(B) <= Limit
    /\ B # Found(k) => Cardinality(B) = Limit

\* auto_discount_for_referee: lost with the first payment.
HasAutoDiscount(s) == s \in Referred /\ extended[s] = 0

\* The select, the guard rows and the outbox rows of one notifying cron.  A
\* trial whose user has no referral discount gets a promo code of its own.
Notify(k) ==
    /\ Due(k)
    /\ \E B \in SUBSET Subs :
        /\ Taken(k, B)
        /\ sent' = [s \in Subs |-> IF s \in B THEN sent[s] \cup {k} ELSE sent[s]]
        /\ queued' = queued \cup {<<s, k, expires[s]>> : s \in B}
        /\ promos' = IF k = "trial_expiring_24h"
                     THEN promos \cup {s \in B : ~HasAutoDiscount(s)} ELSE promos
        /\ cutoff' = IF B # Found(k) THEN cutoff \cup {k} ELSE cutoff
    /\ ran' = TRUE
    /\ UNCHANGED <<now, status, expires, extended, missed>>

\* mark_expired_subscriptions_task.
MarkExpired ==
    /\ Due("mark")
    /\ status' = [s \in Subs |->
                    IF status[s] = "active" /\ expires[s] < now THEN "expired" ELSE status[s]]
    /\ ran' = TRUE
    /\ UNCHANGED <<now, expires, sent, queued, promos, extended, missed, cutoff>>

\* A paid extension, whether the row is still active or already expired.
Extend(s) ==
    /\ extended[s] < MaxExtended
    /\ extended' = [extended EXCEPT ![s] = @ + 1]
    /\ expires' = [expires EXCEPT ![s] = (IF @ > now THEN @ ELSE now) + Longer]
    /\ status' = [status EXCEPT ![s] = "active"]
    /\ UNCHANGED <<now, ran, sent, queued, promos, missed, cutoff>>

Next ==
    \/ Tick \/ MarkExpired
    \/ \E k \in Kinds : Notify(k)
    \/ \E c \in Crons : Miss(c)
    \/ \E s \in Subs : Extend(s)

Spec == Init /\ [][Next]_vars

-----------------------------------------------------------------------------
\* Types; personal codes are made for trials only.
TypeOK ==
    /\ now \in Nat /\ ran \in BOOLEAN
    /\ status \in [Subs -> {"active", "expired"}]
    /\ expires \in [Subs -> Nat]
    /\ sent \in [Subs -> SUBSET Kinds]
    /\ queued \subseteq Subs \X Kinds \X Nat
    /\ promos \subseteq Trials
    /\ extended \in [Subs -> Nat] /\ missed \in [Crons -> Nat] /\ cutoff \subseteq Kinds

\* A worker that is up announces an expiry within an hour and a half: the
\* two-hour window is never too narrow for the hour between two marks and the
\* ten minutes to the notice.
ExpiryAnnounced ==
    \/ missed["mark"] + missed["expired"] > 0
    \/ "expired" \in cutoff
    \/ \A s \in Subs : now > expires[s] + Hour + 3 => "expired" \in sent[s]

\* One missed start does not cost the user the reminder: its window is two
\* hours wide.  (Subscriptions at least as long as the reminder is early.)
ReminderSurvivesOneMiss ==
    \A s \in Subs :
        \/ missed["expiry_3d"] > 1 \/ "expiry_3d" \in cutoff \/ extended[s] > 0
        \/ Bought[s] < Ahead["expiry_3d"] + Hour
        \/ now <= expires[s] - Ahead["expiry_3d"] + Hour
        \/ "expiry_3d" \in sent[s]

\* A kind of notice is sent once in the life of a subscription, however often
\* it is extended: no two outbox rows differ in the end they speak of.
OncePerKind ==
    \A n, m \in queued : n[1] = m[1] /\ n[2] = m[2] => n = m

\* Notices arrive, once, while the worker is up and the limit is not reached.
NoticesArrive == ExpiryAnnounced /\ ReminderSurvivesOneMiss /\ OncePerKind
=============================================================================
