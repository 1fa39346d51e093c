---------------------------- MODULE MCLifecycle ----------------------------
(***************************************************************************)
(* Rows, notices and trials explored one after the other: they share no    *)
(* state, so `part` is chosen at the start and says which of them moves.   *)
(* Rows are explored twice, with all requests and with all faults.         *)
(***************************************************************************)
EXTENDS Lifecycle

CONSTANTS s1, s2, r1, r2, u1, a1, a2, x1, p1, p2

VARIABLE part

\* Both requests work on s1, which ends today; the provider edits s2.
MCTarget == [r \in Requests |-> s1]
MCBought == [s \in Subs |-> IF s = s1 THEN 1 ELSE 2]

\* Notices counts in ten minutes: s2, a trial, ends half an hour before s1.
MCEnds  == [s \in Subs |-> IF s = s1 THEN 15 ELSE 12]
MCAhead == [k \in {"expiry_3d", "trial_expiring_24h"} |-> IF k = "expiry_3d" THEN 9 ELSE 8]

\* Every trial and every payment is of one user.
MCWhose == [t \in Attempts \cup Reissues \cup Payments |-> u1]

mcvars == <<part, vars, nvars, tvars>>

MCInit == part \in {"trials", "rows", "faults", "notices"} /\ LifecycleInit

\* "rows": two requests, which are alike, so that r1 is the first to start; of the
\* faults the bearer's.  "faults": one request, all faults.
MCRows(action) ==
    /\ part \in {"rows", "faults"} /\ Rows(action) /\ UNCHANGED part
    /\ part = "rows" => /\ UNCHANGED faults \/ bearer' # bearer
                        /\ pc'[r2] # "idle" => pc'[r1] # "idle"
    /\ part = "faults" => pc'[r2] = "idle"

MCNext ==
    \/ MCRows(Next)
    \/ part = "trials" /\ Trials(T!Next) /\ UNCHANGED part
    \/ part = "notices" /\ Notices(N!Next) /\ UNCHANGED part

MCSpec ==
    /\ MCInit /\ [][MCNext]_mcvars
    /\ WF_mcvars(MCRows(BatchLoad)) /\ SF_mcvars(MCRows(BatchCommit))
    /\ \A s \in Subs : SF_mcvars(MCRows(BatchCheck(s)))
=============================================================================
