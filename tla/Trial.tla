-------------------------------- MODULE Trial --------------------------------
(***************************************************************************)
(* The free trial (backend/app/services/free_trial_service.py), the script *)
(* that reissues trials (backend/scripts/reissue_free_trials.py), and what *)
(* a referrer gets for a user: a personal code for the trial and a bonus   *)
(* for the first payment (referral_service.py).                            *)
(*                                                                         *)
(* None of the checks locks what it reads: that the user has no trial yet, *)
(* that the code was not issued, that the bonus was not paid.  A request   *)
(* stands for itself and for the subscription row it makes; the bot's own  *)
(* repetition of a POST is one more request.                               *)
(***************************************************************************)
EXTENDS Integers, FiniteSets

CONSTANTS Users,
          Requests,  \* activations of a trial
          Reissues,  \* rows the script handles, one each
          Payments,  \* payments at a gateway, settled by a webhook
          Whose      \* request, reissue or payment -> its user

Trials == Requests \cup Reissues

TrialAssumption ==
    /\ Requests \cap Reissues = {} /\ Trials \cap Payments = {}
    /\ Whose \in [Trials \cup Payments -> Users]
    /\ IsFiniteSet(Trials) /\ IsFiniteSet(Payments)

VARIABLES known,     \* users with a row
          invited,   \* users with a row in referrals
          bonusPaid, \* columns of that row: bonus_paid,
          trialBonus,\* and trial_bonus_issued_at # NULL
          row,       \* status of the subscription a request made
          key,       \* whether the provider has a key for it
          pc, old,   \* position; the row a reissue replaces
          bonuses,   \* ledger rows with the referral bonus, by payment
          minted,    \* requests whose code REFTRIAL15_<id> exists
          crashed,   \* requests and reissues that died on the way
          raced      \* <<user, check>>: two sessions passed the check at once

rows     == <<row, key, pc, old, crashed>>
referral == <<known, invited, bonusPaid, trialBonus, bonuses, minted>>
vars     == <<rows, referral, raced>>

None == "none"
Statuses == {None, "pending", "active", "failed", "deactivated"}
RowsOf(u) == {t \in Trials : Whose[t] = u /\ row[t] # None}

Init ==
    /\ known = {} /\ invited = {}
    /\ bonusPaid = {} /\ trialBonus = {} /\ bonuses = {} /\ minted = {}
    /\ row = [t \in Trials |-> None]
    /\ key = [t \in Trials |-> FALSE]
    /\ pc = [t \in Trials \cup Payments |-> "idle"]
    /\ old = [x \in Reissues |-> None]
    /\ crashed = {} /\ raced = {}

Go(t, p) == pc' = [pc EXCEPT ![t] = p]

\* Another session of the user passed the same check and has not acted yet.
Racing(t, p, check) ==
    {<<Whose[t], check>> : q \in {x \in DOMAIN pc \ {t} : Whose[x] = Whose[t] /\ pc[x] = p}}

-----------------------------------------------------------------------------
\* upsert_user at every update; a link of another user counts only when the row
\* is made by it.
Start(u, link) ==
    /\ u \notin known
    /\ known' = known \cup {u}
    /\ invited' = IF link THEN invited \cup {u} ELSE invited
    /\ UNCHANGED <<rows, bonusPaid, trialBonus, bonuses, minted, raced>>

\* Mutant: a trial that failed does not count as used.
CheckLenient(r) ==
    /\ pc[r] = "idle" /\ Whose[r] \in known
    /\ Go(r, IF \A t \in RowsOf(Whose[r]) : row[t] = "failed" THEN "checked" ELSE "over")
    /\ UNCHANGED <<row, key, old, crashed, referral, raced>>

\* has_free_trial: any row counts, whatever became of it.
Check(r) ==
    /\ pc[r] = "idle" /\ Whose[r] \in known
    /\ Go(r, IF RowsOf(Whose[r]) = {} THEN "checked" ELSE "over")
    /\ UNCHANGED <<row, key, old, crashed, referral, raced>>

\* The pending row is inserted and committed; nothing makes it unique.
Insert(r) ==
    /\ pc[r] = "checked"
    /\ row' = [row EXCEPT ![r] = "pending"]
    /\ Go(r, "pending")
    /\ raced' = raced \cup Racing(r, "checked", "trial")
    /\ UNCHANGED <<key, old, crashed, referral>>

\* create_key answers.
Issue(t) ==
    /\ t \in Trials /\ pc[t] = "pending"
    /\ key' = [key EXCEPT ![t] = TRUE]
    /\ Go(t, "issued")
    /\ UNCHANGED <<row, old, crashed, referral, raced>>

\* Mutant: the row is left pending when the provider fails.
IssueFailsQuietly(t) ==
    /\ t \in Trials /\ pc[t] = "pending"
    /\ key' \in {key, [key EXCEPT ![t] = TRUE]}
    /\ Go(t, "over")
    /\ UNCHANGED <<row, old, crashed, referral, raced>>

\* create_key fails, possibly after the key was made: the row is marked failed.
IssueFails(t) ==
    /\ t \in Trials /\ pc[t] = "pending"
    /\ key' \in {key, [key EXCEPT ![t] = TRUE]}
    /\ row' = [row EXCEPT ![t] = "failed"]
    /\ Go(t, "over")
    /\ UNCHANGED <<old, crashed, referral, raced>>

\* The row is committed as active; only a user's own activation is rewarded.
Activate(t) ==
    /\ t \in Trials /\ pc[t] = "issued"
    /\ row' = [row EXCEPT ![t] = "active"]
    /\ Go(t, IF t \in Requests THEN "served" ELSE "over")
    /\ UNCHANGED <<key, old, crashed, referral, raced>>

\* _issue_referrer_trial_bonus reads the referral.
Look(r) ==
    /\ pc[r] = "served"
    /\ Go(r, IF Whose[r] \in invited \ trialBonus THEN "minting" ELSE "over")
    /\ UNCHANGED <<row, key, old, crashed, referral, raced>>

\* Its transaction: the code, trial_bonus_issued_at and the message.
Mint(r) ==
    /\ pc[r] = "minting"
    /\ minted' = minted \cup {r}
    /\ trialBonus' = trialBonus \cup {Whose[r]}
    /\ raced' = raced \cup Racing(r, "minting", "code")
    /\ Go(r, "over")
    /\ UNCHANGED <<row, key, old, crashed, known, invited, bonusPaid, bonuses>>

\* It fails: the exception is logged, the trial stays.
MintFails(r) ==
    /\ pc[r] = "minting"
    /\ Go(r, "over")
    /\ UNCHANGED <<row, key, old, crashed, referral, raced>>

\* The backend or the script dies; what was committed stays.
Crash(t) ==
    /\ t \in Trials /\ pc[t] \notin {"idle", "over"}
    /\ Go(t, "over")
    /\ crashed' = crashed \cup {t}
    /\ UNCHANGED <<row, key, old, referral, raced>>

-----------------------------------------------------------------------------
\* The script reads its targets: trials that are active.
Pick(x, t) ==
    /\ pc[x] = "idle" /\ Whose[x] = Whose[t] /\ row[t] = "active"
    /\ \A y \in Reissues \ {x} : old[y] # t
    /\ old' = [old EXCEPT ![x] = t]
    /\ Go(x, "picked")
    /\ UNCHANGED <<row, key, crashed, referral, raced>>

\* delete_key; an unknown key is as good as deleted.
Kill(x) ==
    /\ pc[x] = "picked"
    /\ key' = [key EXCEPT ![old[x]] = FALSE]
    /\ Go(x, "killed")
    /\ UNCHANGED <<row, old, crashed, referral, raced>>

\* The provider cannot be reached: the row is given up, the key may be gone.
KillFails(x) ==
    /\ pc[x] = "picked"
    /\ key' \in {key, [key EXCEPT ![old[x]] = FALSE]}
    /\ Go(x, "over")
    /\ crashed' = crashed \cup {x}
    /\ UNCHANGED <<row, old, referral, raced>>

\* One transaction deactivates the old row and inserts the new one.
Replace(x) ==
    /\ pc[x] = "killed"
    /\ row' = [row EXCEPT ![old[x]] = "deactivated", ![x] = "pending"]
    /\ Go(x, "pending")
    /\ UNCHANGED <<key, old, crashed, referral, raced>>

-----------------------------------------------------------------------------
\* apply_referrer_bonus in the webhook's transaction reads bonus_paid.
Notice(p) ==
    /\ pc[p] = "idle" /\ Whose[p] \in known
    /\ Go(p, IF Whose[p] \in invited \ bonusPaid THEN "first" ELSE "later")
    /\ UNCHANGED <<row, key, old, crashed, referral, raced>>

\* Mutant: bonus_paid is not set.
SettleForgetting(p) ==
    /\ pc[p] \in {"first", "later"}
    /\ Go(p, "over")
    /\ bonuses' = IF pc[p] = "first" THEN bonuses \cup {p} ELSE bonuses
    /\ raced' = IF pc[p] = "first" THEN raced \cup Racing(p, "first", "bonus") ELSE raced
    /\ UNCHANGED <<row, key, old, crashed, known, invited, bonusPaid, trialBonus, minted>>

\* It locks the referrer, credits the bonus and sets bonus_paid; commit.
Settle(p) ==
    /\ pc[p] \in {"first", "later"}
    /\ Go(p, "over")
    /\ IF pc[p] = "first"
       THEN bonuses' = bonuses \cup {p} /\ bonusPaid' = bonusPaid \cup {Whose[p]}
       ELSE UNCHANGED <<bonuses, bonusPaid>>
    /\ raced' = IF pc[p] = "first" THEN raced \cup Racing(p, "first", "bonus") ELSE raced
    /\ UNCHANGED <<row, key, old, crashed, known, invited, trialBonus, minted>>

\* The webhook fails before its commit; the gateway sends the notice again.
Rollback(p) ==
    /\ p \in Payments /\ pc[p] \in {"first", "later"}
    /\ Go(p, "idle")
    /\ UNCHANGED <<row, key, old, crashed, referral, raced>>

-----------------------------------------------------------------------------
Next ==
    \/ \E u \in Users, link \in BOOLEAN : Start(u, link)
    \/ \E r \in Requests : Check(r) \/ Insert(r) \/ Look(r) \/ Mint(r) \/ MintFails(r)
    \/ \E t \in Trials : Issue(t) \/ IssueFails(t) \/ Activate(t) \/ Crash(t)
    \/ \E x \in Reissues : Kill(x) \/ KillFails(x) \/ Replace(x) \/ \E t \in Trials : Pick(x, t)
    \/ \E p \in Payments : Notice(p) \/ Settle(p) \/ Rollback(p)

Spec == Init /\ [][Next]_vars

-----------------------------------------------------------------------------
\* Types; codes are minted for activations only, bonuses for invited users.
TypeOK ==
    /\ known \subseteq Users /\ invited \subseteq known
    /\ bonusPaid \subseteq invited /\ trialBonus \subseteq invited
    /\ row \in [Trials -> Statuses] /\ key \in [Trials -> BOOLEAN]
    /\ pc \in [Trials \cup Payments ->
                {"idle", "checked", "pending", "issued", "served", "minting",
                 "picked", "killed", "first", "later", "over"}]
    /\ old \in [Reissues -> Trials \cup {None}]
    /\ bonuses \subseteq Payments /\ minted \subseteq Requests
    /\ crashed \subseteq Trials
    /\ raced \subseteq Users \X {"trial", "code", "bonus"}

\* A user activates one trial, whether it worked or not, and reissuing never gives
\* two: one row is alive at a time; unless two requests passed the check together.
OneTrial ==
    \A u \in Users : <<u, "trial">> \notin raced =>
        /\ Cardinality(RowsOf(u) \cap Requests) <= 1
        /\ Cardinality({t \in RowsOf(u) : row[t] \in {"pending", "active"}}) <= 1

\* An active trial has its key, unless the script took it away and then failed.
ActiveHasKey ==
    \A t \in Trials : row[t] = "active" =>
        key[t] \/ \E x \in Reissues : old[x] = t /\ (pc[x] = "killed" \/ x \in crashed)

\* The referrer is rewarded for a trial that was served, once, and for the first
\* payment, once, unless two sessions passed the same check together.
RewardsEarned ==
    /\ \A r \in minted : row[r] \in {"active", "deactivated"}
    /\ \A u \in Users :
        /\ <<u, "code">> \notin raced => Cardinality({r \in minted : Whose[r] = u}) <= 1
        /\ <<u, "bonus">> \notin raced => Cardinality({p \in bonuses : Whose[p] = u}) <= 1

\* A row stays pending only while somebody works on it or after a crash.
StrandedOnlyByCrash ==
    \A t \in Trials : row[t] = "pending" => pc[t] \in {"pending", "issued"} \/ t \in crashed

\* What the row says of a trial is so: it is served, or somebody works on it.
StatusIsHonest == ActiveHasKey /\ StrandedOnlyByCrash
=============================================================================
