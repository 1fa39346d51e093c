----------------------------- MODULE Subscription -----------------------------
(***************************************************************************)
(* The life of issued subscriptions: the columns status and expires_at of  *)
(* their rows, and the keys the provider NorthLine holds for them.  Both   *)
(* sides are changed by handlers that load the row, call the provider and  *)
(* commit afterwards, without locking the row in between:                  *)
(*   extensions (backend/app/services/extension_service.py),               *)
(*   the admin's stop, resume, delete and reconcile                        *)
(*   (backend/app/api/admin/subscriptions.py),                             *)
(*   the reconciliation batch (subscription_reconcile_service.py), and     *)
(*   the cron that marks rows expired (worker/app/tasks/mark_expired.py).  *)
(*                                                                         *)
(* SQLAlchemy sends the columns that differ from what the session loaded,  *)
(* and only those: an extension that loaded an active row does not write   *)
(* its status.  The model therefore keeps what each session loaded and     *)
(* writes updates column by column.  The unit of time is a day; the drift  *)
(* of an hour that reconciliation tolerates is smaller.                    *)
(***************************************************************************)
EXTENDS Integers, FiniteSets

CONSTANTS Subs,       \* subscriptions that were issued
          Requests,   \* HTTP requests, each an operation on one of them
          Target,     \* request -> its subscription
          Bought,     \* subscription -> its last day, as first bought
          Edited,     \* subscriptions whose key the provider may edit by itself
          Days,       \* what an extension adds
          Horizon,    \* the last day considered: a bound
          Threshold,  \* INVALID_KEY_BREAKER_THRESHOLD
          MaxFaults   \* faults: batches that die, bearers that expire, keys
                      \* the provider edits; a bound

\* An extension paid from balance, one a webhook settles, the admin's requests.
Ops        == {"balance", "paid", "stop", "resume", "delete", "recheck"}
Extensions == {"balance", "paid"}

ASSUME SubscriptionAssumption ==
    /\ Target \in [Requests -> Subs] /\ Edited \subseteq Subs
    /\ Bought \in [Subs -> Nat]
    /\ Days \in Nat \ {0} /\ Horizon \in Nat /\ Threshold \in Nat \ {0}
    /\ MaxFaults \in Nat
    /\ IsFiniteSet(Subs)

VARIABLES now,
          status, expires,   \* the columns of each row, committed
          state, until,      \* the provider's key: its state and its last day
          bearer,            \* whether the provider accepts our bearer token
          op, pc, mem, info, \* request: operation, position, row as loaded, answer
          batch,             \* "idle" or "running"
          todo, seen, found, \* rows to check, rows as loaded, updates sent
          invalid,           \* consecutive invalid_provider_key answers
          disowned, gaps,    \* rows deactivated as unknown; other outcomes so far
          faults,            \* batches that died, bearers that expired, keys edited
          raced,             \* a row was written under another session's snapshot, or
                             \* committed while two had changed its key
          unheard            \* subscriptions whose key changed unknown to the row

rows   == <<status, expires, raced>>
keys   == <<state, until, bearer>>
reqs   == <<op, pc, mem, info>>
cron   == <<batch, todo, seen, found, invalid, disowned, gaps>>
vars   == <<now, rows, keys, reqs, cron, faults, unheard>>

Statuses == {"active", "expired", "deactivated", "suspended"}
Row      == [status : Statuses, expires : Nat]

\* An UPDATE: the columns it sets; "keep" and -1 stand for a column left out.
Update   == [status : Statuses \cup {"keep"}, expires : Nat \cup {-1}]
Nothing  == [status |-> "keep", expires |-> -1]

\* What NorthLine answers to GET /keys/{id}.
Answers  == [state : {"active", "suspended", "expired", "deleted", "unknown"}, until : Nat]
NoAnswer == [state |-> "unknown", until |-> 0]

RowOf(s)  == [status |-> status[s], expires |-> expires[s]]
Later(d)  == (IF d > now THEN d ELSE now) + Days

\* The columns of u that differ from the row as the session loaded it.
Dirty(row, u) ==
    [status  |-> IF u.status = row.status THEN "keep" ELSE u.status,
     expires |-> IF u.expires = row.expires THEN -1 ELSE u.expires]

\* Mutant: columns the UPDATE leaves out are not kept.
AppliedRaw(row, u) == u

Applied(row, u) ==
    [status  |-> IF u.status = "keep" THEN row.status ELSE u.status,
     expires |-> IF u.expires = -1 THEN row.expires ELSE u.expires]

Sent(s)     == found[s] # Nothing               \* the batch locks the row of s
InFlight(r) == pc[r] \in {"loaded", "told"}
Watched(s)  == \/ \E r \in Requests : Target[r] = s /\ InFlight(r)
               \/ s \in todo

-----------------------------------------------------------------------------
Init ==
    /\ now = 1
    /\ status = [s \in Subs |-> "active"]
    /\ expires = Bought
    /\ state = [s \in Subs |-> "active"]
    /\ until = Bought
    /\ bearer = "ok"
    /\ op = [r \in Requests |-> "none"]
    /\ pc = [r \in Requests |-> "idle"]
    /\ mem = [r \in Requests |-> [status |-> "active", expires |-> 0]]
    /\ info = [r \in Requests |-> NoAnswer]
    /\ batch = "idle"
    /\ todo = {}
    /\ seen = [s \in Subs |-> [status |-> "active", expires |-> 0]]
    /\ found = [s \in Subs |-> Nothing]
    /\ invalid = 0
    /\ disowned = {}
    /\ gaps = 0
    /\ faults = 0
    /\ raced = FALSE
    /\ unheard = {}

\* A day passes.  Provider calls last seconds: none spans the change of day.
Tick ==
    /\ now < Horizon
    /\ \A r \in Requests : pc[r] # "told"
    /\ now' = now + 1
    /\ UNCHANGED <<rows, keys, reqs, cron, faults, unheard>>

\* The row of s becomes `row`; somebody else may still hold the old one, or have
\* changed the key as well.
Write(s, row, watched, crossed) ==
    /\ status' = [status EXCEPT ![s] = row.status]
    /\ expires' = [expires EXCEPT ![s] = row.expires]
    /\ raced' = (raced \/ (watched /\ row # RowOf(s)) \/ crossed)

\* The request is over; its session and what it loaded are gone.
End(r) ==
    /\ op' = [op EXCEPT ![r] = "none"]
    /\ pc' = [pc EXCEPT ![r] = "over"]
    /\ mem' = [mem EXCEPT ![r] = [status |-> "active", expires |-> 0]]
    /\ info' = [info EXCEPT ![r] = NoAnswer]

-----------------------------------------------------------------------------
\* _get_sub_or_404 and the status each handler insists on; 409 otherwise.
Admits(o, st) ==
    /\ o \in {"balance", "stop"} => st = "active"
    /\ o = "resume" => st = "suspended"

Load(r, o) ==
    /\ pc[r] = "idle"
    /\ IF Admits(o, status[Target[r]])
       THEN /\ op' = [op EXCEPT ![r] = o]
            /\ pc' = [pc EXCEPT ![r] = "loaded"]
            /\ mem' = [mem EXCEPT ![r] = RowOf(Target[r])]
            /\ UNCHANGED info
       ELSE End(r)
    /\ UNCHANGED <<now, rows, keys, cron, faults, unheard>>

\* NorthLine keeps deleted keys deleted; nothing works with a dead bearer.
Accepts(s) == bearer = "ok" /\ state[s] # "deleted"

KeyInfo(s) ==
    IF bearer = "dead" THEN {NoAnswer}
    ELSE IF state[s] = "deleted"
         THEN {NoAnswer, [state |-> "deleted", until |-> until[s]]}
    ELSE {[state |-> IF state[s] = "active" /\ until[s] < now THEN "expired"
                     ELSE state[s],
           until |-> until[s]]}

\* What the provider does to the key for a request it accepts.
Perform(r) ==
    LET s == Target[r] IN
    /\ until' = IF op[r] \in Extensions
                THEN [until EXCEPT ![s] = Later(@)] ELSE until
    /\ state' = IF op[r] = "stop" THEN [state EXCEPT ![s] = "suspended"]
                ELSE IF op[r] = "resume" THEN [state EXCEPT ![s] = "active"]
                ELSE IF op[r] = "delete" THEN [state EXCEPT ![s] = "deleted"]
                ELSE state

\* extend_key, stop_key, resume_key or delete_key answers.
CallHeard(r) ==
    /\ pc[r] = "loaded" /\ op[r] # "recheck"
    /\ Accepts(Target[r])
    /\ Perform(r)
    /\ pc' = [pc EXCEPT ![r] = "told"]
    /\ UNCHANGED <<now, rows, bearer, op, mem, info, cron, faults, unheard>>

\* A refusal, or the client gives up after three tries: the handler answers an
\* error and leaves the row alone.  The provider may have acted all the same.
CallFails(r) ==
    /\ pc[r] = "loaded"
    /\ \/ UNCHANGED <<keys, unheard>>
       \/ /\ op[r] # "recheck" /\ Accepts(Target[r])
          /\ Perform(r)
          /\ unheard' = unheard \cup {Target[r]}
          /\ UNCHANGED bearer
    /\ End(r)
    /\ UNCHANGED <<now, rows, cron, faults>>

\* get_key of the admin's reconcile.
Ask(r) ==
    /\ pc[r] = "loaded" /\ op[r] = "recheck"
    /\ \E i \in KeyInfo(Target[r]) : info' = [info EXCEPT ![r] = i]
    /\ pc' = [pc EXCEPT ![r] = "told"]
    /\ UNCHANGED <<now, rows, keys, op, mem, cron, faults, unheard>>

\* Mutant: the expiry the provider reports is taken even when it is earlier.
VerdictShortens(row, i) ==
    IF i.state \in {"unknown", "suspended"}
    THEN [status |-> "deactivated", expires |-> row.expires]
    ELSE IF i.state # "active"
    THEN [status |-> "expired", expires |-> row.expires]
    ELSE [status |-> row.status, expires |-> i.until]

\* Mutant: a later expiry at the provider is not pulled in.
VerdictKeeps(row, i) ==
    IF i.state \in {"unknown", "suspended"}
    THEN [status |-> "deactivated", expires |-> row.expires]
    ELSE IF i.state # "active"
    THEN [status |-> "expired", expires |-> row.expires]
    ELSE row

\* What reconciliation makes of a row, for the provider's answer i: a key that
\* is unknown or suspended deactivates it, any other state but active expires
\* it, a later expiry is pulled in, an earlier one is only logged.
Verdict(row, i) ==
    IF i.state \in {"unknown", "suspended"}
    THEN [status |-> "deactivated", expires |-> row.expires]
    ELSE IF i.state # "active"
    THEN [status |-> "expired", expires |-> row.expires]
    ELSE [status |-> row.status,
          expires |-> IF i.until > row.expires THEN i.until ELSE row.expires]

\* Mutant: an extension counts from today, not from the end of the paid time.
OutcomeFromNow(r) ==
    LET row == mem[r] IN
    IF op[r] \in Extensions
    THEN [status |-> "active", expires |-> now + Days]
    ELSE IF op[r] = "recheck" THEN Verdict(row, info[r])
    ELSE [status  |-> IF op[r] = "stop" THEN "suspended"
                      ELSE IF op[r] = "resume" THEN "active" ELSE "deactivated",
          expires |-> row.expires]

\* What a handler makes of the row it loaded.
Outcome(r) ==
    LET row == mem[r] IN
    IF op[r] \in Extensions
    THEN [status |-> "active", expires |-> Later(row.expires)]
    ELSE IF op[r] = "recheck" THEN Verdict(row, info[r])
    ELSE [status  |-> IF op[r] = "stop" THEN "suspended"
                      ELSE IF op[r] = "resume" THEN "active" ELSE "deactivated",
          expires |-> row.expires]

\* A request whose change of the key is not yet in the row.
Pending(r) == pc[r] = "told" /\ op[r] # "recheck"

\* Another request has changed the same key.
Crossed(r) ==
    Pending(r) /\ \E q \in Requests \ {r} : Target[q] = Target[r] /\ Pending(q)

\* The handler's UPDATE and commit; it waits while the batch has the row locked.
Commit(r) ==
    LET s == Target[r] IN
    /\ pc[r] = "told" /\ ~Sent(s)
    /\ Write(s, Applied(RowOf(s), Dirty(mem[r], Outcome(r))),
             (\E q \in Requests \ {r} : Target[q] = s /\ InFlight(q)) \/ s \in todo,
             Crossed(r))
    /\ End(r)
    /\ UNCHANGED <<now, keys, cron, faults, unheard>>

\* The backend dies under the request; what the provider did stays done.
Crash(r) ==
    /\ InFlight(r)
    /\ End(r)
    /\ unheard' = IF pc[r] = "told" THEN unheard \cup {Target[r]} ELSE unheard
    /\ UNCHANGED <<now, rows, keys, cron, faults>>

-----------------------------------------------------------------------------
\* The cron's UPDATE checks status and expires_at in the row it updates, again
\* after waiting for its lock.  Rows are independent of each other.
MarkExpired(s) ==
    /\ ~Sent(s)
    /\ status[s] = "active" /\ expires[s] < now
    /\ Write(s, [status |-> "expired", expires |-> expires[s]], Watched(s), FALSE)
    /\ UNCHANGED <<now, keys, reqs, cron, faults, unheard>>

\* The batch selects the active rows, without locking them.
BatchLoad ==
    LET selected == {s \in Subs : status[s] = "active"} IN
    /\ batch = "idle" /\ selected # {}
    /\ batch' = "running"
    /\ todo' = selected
    /\ seen' = [s \in Subs |-> IF s \in selected THEN RowOf(s) ELSE seen[s]]
    /\ invalid' = 0
    /\ UNCHANGED <<now, rows, keys, reqs, found, disowned, gaps, faults, unheard>>

Forget ==
    /\ batch' = "idle"
    /\ todo' = {}
    /\ found' = [s \in Subs |-> Nothing]
    /\ seen' = [s \in Subs |-> [status |-> "active", expires |-> 0]]
    /\ invalid' = 0
    /\ disowned' = {}
    /\ gaps' = 0

\* Mutant: the breaker trips one answer later.
BatchCheckLate(s) ==
    /\ batch = "running" /\ s \in todo
    /\ \E i \in KeyInfo(s) :
        IF i.state = "unknown" /\ invalid + 1 > Threshold
        THEN Forget
        ELSE /\ todo' = todo \ {s}
             /\ found' = [found EXCEPT ![s] = Dirty(seen[s], Verdict(seen[s], i))]
             /\ IF i.state = "unknown"
                THEN invalid' = invalid + 1 /\ disowned' = disowned \cup {s} /\ gaps' = gaps
                ELSE invalid' = 0 /\ disowned' = disowned /\ gaps' = gaps + 1
             /\ UNCHANGED <<batch, seen>>
    /\ UNCHANGED <<now, rows, keys, reqs, faults, unheard>>

\* get_key answers for the next row; a change is flushed at once, with the log
\* row, and locks the row until the batch ends.  Too many unknown keys in
\* succession look like a dead bearer: everything is rolled back.
BatchCheck(s) ==
    /\ batch = "running" /\ s \in todo
    /\ \E i \in KeyInfo(s) :
        IF i.state = "unknown" /\ invalid + 1 >= Threshold
        THEN Forget
        ELSE /\ todo' = todo \ {s}
             /\ found' = [found EXCEPT ![s] = Dirty(seen[s], Verdict(seen[s], i))]
             /\ IF i.state = "unknown"
                THEN invalid' = invalid + 1 /\ disowned' = disowned \cup {s} /\ gaps' = gaps
                ELSE invalid' = 0 /\ disowned' = disowned /\ gaps' = gaps + 1
             /\ UNCHANGED <<batch, seen>>
    /\ UNCHANGED <<now, rows, keys, reqs, faults, unheard>>

\* The provider is unavailable for this row: the row is skipped.
BatchMiss(s) ==
    /\ batch = "running" /\ s \in todo
    /\ todo' = todo \ {s}
    /\ invalid' = 0
    /\ gaps' = gaps + 1
    /\ UNCHANGED <<now, rows, keys, reqs, batch, seen, found, disowned, faults, unheard>>

BatchCommit ==
    /\ batch = "running" /\ todo = {}
    /\ LET new == [s \in Subs |-> Applied(RowOf(s), found[s])] IN
       /\ status' = [s \in Subs |-> new[s].status]
       /\ expires' = [s \in Subs |-> new[s].expires]
       /\ raced' = (raced \/ \E s \in Subs : new[s] # RowOf(s) /\ Watched(s))
    /\ Forget
    /\ UNCHANGED <<now, keys, reqs, faults, unheard>>

BatchDies ==
    /\ batch = "running" /\ faults < MaxFaults
    /\ faults' = faults + 1
    /\ Forget
    /\ UNCHANGED <<now, rows, keys, reqs, unheard>>

\* The operator's bearer token expires at the provider.
BearerDies ==
    /\ bearer = "ok" /\ faults < MaxFaults
    /\ bearer' = "dead"
    /\ faults' = faults + 1
    /\ UNCHANGED <<now, rows, state, until, reqs, cron, unheard>>

\* The provider changes a key without being asked: its own admin moves the end
\* by a day, the traffic quota suspends it.
OutOfBand(s) ==
    /\ s \in Edited /\ faults < MaxFaults /\ state[s] = "active"
    /\ \/ \E d \in {-1, 1} : until[s] + d >= 0 /\ until' = [until EXCEPT ![s] = @ + d] /\ UNCHANGED state
       \/ state' = [state EXCEPT ![s] = "suspended"] /\ UNCHANGED until
    /\ faults' = faults + 1
    /\ unheard' = unheard \cup {s}
    /\ UNCHANGED <<now, rows, bearer, reqs, cron>>

-----------------------------------------------------------------------------
Handle(r) == CallHeard(r) \/ CallFails(r) \/ Ask(r) \/ Commit(r)

Reconcile == BatchLoad \/ BatchCommit \/ \E s \in Subs : BatchCheck(s) \/ BatchMiss(s)

Next ==
    \/ Tick
    \/ \E r \in Requests : Handle(r) \/ Crash(r) \/ \E o \in Ops : Load(r, o)
    \/ \E s \in Subs : MarkExpired(s)
    \/ Reconcile \/ BatchDies
    \/ BearerDies \/ \E s \in Subs : OutOfBand(s)

Spec == Init /\ [][Next]_vars

\* The cron keeps starting batches, few of them die, and a provider that is
\* asked again and again answers in the end.
FairSpec ==
    /\ Spec
    /\ WF_vars(BatchLoad) /\ SF_vars(BatchCommit)
    /\ \A s \in Subs : SF_vars(BatchCheck(s))

-----------------------------------------------------------------------------
\* Types; an update in flight sets known columns only.
TypeOK ==
    /\ now \in Nat /\ bearer \in {"ok", "dead"}
    /\ status \in [Subs -> Statuses] /\ expires \in [Subs -> Nat]
    /\ state \in [Subs -> {"active", "suspended", "deleted"}]
    /\ until \in [Subs -> Nat]
    /\ op \in [Requests -> Ops \cup {"none"}]
    /\ pc \in [Requests -> {"idle", "loaded", "told", "over"}]
    /\ mem \in [Requests -> Row] /\ info \in [Requests -> Answers]
    /\ batch \in {"idle", "running"}
    /\ todo \subseteq Subs /\ seen \in [Subs -> Row] /\ found \in [Subs -> Update]
    /\ invalid \in Nat /\ disowned \subseteq Subs /\ gaps \in Nat
    /\ faults \in Nat /\ raced \in BOOLEAN /\ unheard \subseteq Subs

AtRest(s) == ~Watched(s) /\ ~Sent(s)

\* As long as no session wrote under another's snapshot, no two changes of one key
\* crossed and no change at the provider went unheard, row and key agree when nobody works on them: an active
\* row has a living key that lasts as long, a paused row a paused key.  (A key
\* paused before a paid extension arrives stays paused under an active row.)
RowMatchesKey ==
    ~raced => \A s \in Subs \ unheard : AtRest(s) =>
        /\ status[s] = "active" => /\ state[s] # "deleted"
                                   /\ expires[s] = until[s]
        /\ status[s] = "suspended" => state[s] = "suspended"
        /\ state[s] = "deleted" => status[s] \in {"deactivated", "expired"}

\* A dead bearer does not deactivate the fleet: a batch disowns at most
\* Threshold - 1 rows for each row it checked with another outcome, plus as many.
BreakerSpares == Cardinality(disowned) <= (Threshold - 1) * (gaps + 1)

\* Nobody's paid time is cut: expires_at moves forward only, as long as no
\* session writes under another's snapshot.
TimeNeverShrinks ==
    [][~raced' => \A s \in Subs : expires'[s] >= expires[s]]_vars

\* An active row whose key was deleted, or lasts longer than the row says.
Behind(s) ==
    status[s] = "active" /\ (state[s] = "deleted" \/ (state[s] = "active" /\ expires[s] < until[s]))

\* Reconciliation repairs what racing and lost answers left behind, in the rows
\* that are still active: paid time comes back, a deleted key is noticed.
RowCatchesUp ==
    \A s \in Subs : Behind(s) ~> (~Behind(s) \/ bearer = "dead")
=============================================================================
