----------------------------- MODULE TrialProofs -----------------------------
(***************************************************************************)
(* Proofs about trials, their reissue and what a referrer gets, for any    *)
(* users, requests, reissues and payments.                                 *)
(*                                                                         *)
(* The status is honest because a position tells what the row and the key  *)
(* are (Place, Taken): that needs no luck.  Everything that must happen    *)
(* only once rests on a check that was not made by two sessions at once:   *)
(* until one of them has acted, what it checked is still so (Once).        *)
(***************************************************************************)
EXTENDS Trial, FiniteSetTheorems, TLAPS

\* What the position of a request or reissue says about its row and its key.
Place(t) ==
    /\ pc[t] \notin {"first", "later"}
    /\ pc[t] \in {"checked", "served", "minting"} => t \in Requests
    /\ pc[t] \in {"picked", "killed"} => t \in Reissues
    /\ pc[t] \in {"idle", "checked", "picked", "killed"} => row[t] = None
    /\ pc[t] \in {"pending", "issued"} => row[t] = "pending"
    /\ pc[t] = "issued" => key[t]
    /\ pc[t] \in {"served", "minting"} => row[t] \in {"active", "deactivated"}
    /\ row[t] = "active" => pc[t] \in {"served", "minting", "over"}
    /\ row[t] = "pending" => pc[t] \in {"pending", "issued"} \/ t \in crashed
    /\ t \in crashed \cup minted => pc[t] = "over"
    /\ t \in minted => row[t] \in {"active", "deactivated"} /\ Whose[t] \in trialBonus
    /\ pc[t] = "minting" => Whose[t] \in invited

\* The row a reissue is about to replace is active, the user's, and its alone.
Taken(x) ==
    pc[x] \in {"picked", "killed"} =>
        /\ old[x] \in Trials /\ row[old[x]] = "active" /\ Whose[old[x]] = Whose[x]
        /\ \A y \in Reissues \ {x} : old[y] # old[x]

\* What the position of a webhook says about the bonus.
Booked(p) ==
    /\ pc[p] \in {"idle", "first", "later", "over"}
    /\ p \in bonuses => pc[p] = "over" /\ Whose[p] \in bonusPaid
    /\ pc[p] = "first" => Whose[p] \in invited

Positions ==
    /\ \A t \in Trials : Place(t)
    /\ \A x \in Reissues : Taken(x)
    /\ \A p \in Payments : Booked(p)

\* What was checked and not yet acted upon is still so, and what was acted upon
\* was acted upon once.
OnceTrial ==
    \A s, t \in Trials : Whose[s] = Whose[t] /\ <<Whose[s], "trial">> \notin raced =>
        /\ pc[s] = "checked" => row[t] = None
        /\ s \in Requests /\ t \in Requests /\ row[s] # None /\ row[t] # None => s = t
        /\ row[s] \in {"pending", "active"} /\ row[t] \in {"pending", "active"} => s = t

OnceCode ==
    \A r, q \in Requests : Whose[r] = Whose[q] /\ <<Whose[r], "code">> \notin raced =>
        /\ pc[r] = "minting" => Whose[r] \notin trialBonus
        /\ r \in minted /\ q \in minted => r = q

OnceBonus ==
    \A p, q \in Payments : Whose[p] = Whose[q] /\ <<Whose[p], "bonus">> \notin raced =>
        /\ pc[p] = "first" => Whose[p] \notin bonusPaid
        /\ p \in bonuses /\ q \in bonuses => p = q

IInv == TypeOK /\ Positions /\ ActiveHasKey /\ OnceTrial /\ OnceCode /\ OnceBonus

-----------------------------------------------------------------------------
\* At most one element.
LEMMA AtMostOne ==
  ASSUME NEW S, \A x, y \in S : x = y
  PROVE  Cardinality(S) <= 1
<1>1. CASE S = {} BY <1>1, FS_EmptySet
<1>2. CASE S # {}
  <2>1. PICK x : x \in S BY <1>2
  <2>2. S = {x} BY <2>1
  <2> QED BY <2>2, FS_Singleton
<1> QED BY <1>1, <1>2

\* Whoever acts while another session of the user stands at the same place races.
LEMMA RacingTells ==
  ASSUME TypeOK, NEW t \in Trials \cup Payments, NEW p, NEW check
  PROVE  /\ Racing(t, p, check) \subseteq {<<Whose[t], check>>}
         /\ \A q \in (Trials \cup Payments) \ {t} :
               Whose[q] = Whose[t] /\ pc[q] = p => <<Whose[t], check>> \in Racing(t, p, check)
<1>1. DOMAIN pc = Trials \cup Payments BY DEF TypeOK
<1> QED BY <1>1 DEF Racing

\* Nothing has happened yet.
LEMMA InitInv == ASSUME TrialAssumption PROVE Init => IInv
<1> SUFFICES ASSUME Init PROVE IInv OBVIOUS
<1> USE DEF Init, None
<1>1. TypeOK BY DEF TypeOK, Statuses
<1>2. Positions
  <2>1. \A t \in Trials \cup Payments : pc[t] = "idle" OBVIOUS
  <2>2. \A t \in Trials : row[t] = "none" OBVIOUS
  <2> QED BY <2>1, <2>2 DEF Positions, Place, Taken, Booked, Trials
<1>3. ActiveHasKey BY DEF ActiveHasKey
<1>4. OnceTrial /\ OnceCode /\ OnceBonus
  BY DEF OnceTrial, OnceCode, OnceBonus, Trials
<1> QED BY <1>1, <1>2, <1>3, <1>4 DEF IInv

-----------------------------------------------------------------------------
(* One lemma for each action.  What it leaves alone is behind UNCHANGED. *)

USE DEF Go, rows, referral, None, Trials

\* A new user has neither row nor reward.
LEMMA StartStep ==
  ASSUME TrialAssumption, IInv, NEW u \in Users, NEW viaLink \in BOOLEAN, Start(u, viaLink)
  PROVE  IInv'
<1> USE DEF Start, TrialAssumption
<1>0. TypeOK /\ Positions /\ ActiveHasKey /\ OnceTrial /\ OnceCode /\ OnceBonus BY DEF IInv
<1>1. TypeOK' BY <1>0 DEF TypeOK, Statuses
<1>2. Positions' BY <1>0 DEF TypeOK, Positions, Place, Taken, Booked
<1>3. ActiveHasKey' BY <1>0 DEF TypeOK, Positions, Place, Taken, Booked, ActiveHasKey
<1>4. OnceTrial' /\ OnceCode' /\ OnceBonus'
  BY <1>0 DEF TypeOK, Positions, Place, Taken, Booked,
                   OnceTrial, OnceCode, OnceBonus
<1> QED BY <1>1, <1>2, <1>3, <1>4 DEF IInv

\* Who passes the check has no row; who does not is over.
LEMMA CheckStep ==
  ASSUME TrialAssumption, IInv, NEW r \in Requests, Check(r)
  PROVE  IInv'
<1> USE DEF Check, RowsOf, TrialAssumption
<1>0. TypeOK /\ Positions /\ ActiveHasKey /\ OnceTrial /\ OnceCode /\ OnceBonus BY DEF IInv
<1>1. TypeOK' BY <1>0 DEF TypeOK, Statuses
<1>2. Positions' BY <1>0 DEF TypeOK, Positions, Place, Taken, Booked
<1>3. ActiveHasKey' BY <1>0 DEF TypeOK, Positions, Place, Taken, Booked, ActiveHasKey
<1>4. OnceTrial' /\ OnceCode' /\ OnceBonus'
  BY <1>0 DEF TypeOK, Positions, Place, Taken, Booked,
                   OnceTrial, OnceCode, OnceBonus
<1> QED BY <1>1, <1>2, <1>3, <1>4 DEF IInv

\* The first of several that passed the check marks the others as racing.
LEMMA InsertStep ==
  ASSUME TrialAssumption, IInv, NEW r \in Requests, Insert(r)
  PROVE  IInv'
<1> USE DEF Insert, TrialAssumption
<1>0. TypeOK /\ Positions /\ ActiveHasKey /\ OnceTrial /\ OnceCode /\ OnceBonus BY DEF IInv
<1>a. /\ Racing(r, "checked", "trial") \subseteq {<<Whose[r], "trial">>}
      /\ \A q \in (Trials \cup Payments) \ {r} :
            Whose[q] = Whose[r] /\ pc[q] = "checked" => <<Whose[r], "trial">> \in Racing(r, "checked", "trial")
  BY <1>0, RacingTells
<1>1. TypeOK' BY <1>0, <1>a DEF TypeOK, Statuses
<1>2. Positions' BY <1>0 DEF TypeOK, Positions, Place, Taken, Booked
<1>3. ActiveHasKey' BY <1>0 DEF TypeOK, Positions, Place, Taken, Booked, ActiveHasKey
<1>4. OnceTrial' /\ OnceCode' /\ OnceBonus'
  BY <1>0, <1>a DEF TypeOK, Positions, Place, Taken, Booked,
                   OnceTrial, OnceCode, OnceBonus
<1> QED BY <1>1, <1>2, <1>3, <1>4 DEF IInv

\* Who goes on to mint saw no code for the user.
LEMMA LookStep ==
  ASSUME TrialAssumption, IInv, NEW r \in Requests, Look(r)
  PROVE  IInv'
<1> USE DEF Look, TrialAssumption
<1>0. TypeOK /\ Positions /\ ActiveHasKey /\ OnceTrial /\ OnceCode /\ OnceBonus BY DEF IInv
<1>1. TypeOK' BY <1>0 DEF TypeOK, Statuses
<1>2. Positions' BY <1>0 DEF TypeOK, Positions, Place, Taken, Booked
<1>3. ActiveHasKey' BY <1>0 DEF TypeOK, Positions, Place, Taken, Booked, ActiveHasKey
<1>4. OnceTrial' /\ OnceCode' /\ OnceBonus'
  BY <1>0 DEF TypeOK, Positions, Place, Taken, Booked,
                   OnceTrial, OnceCode, OnceBonus
<1> QED BY <1>1, <1>2, <1>3, <1>4 DEF IInv

\* The code is minted once, or two looked at once.
LEMMA MintStep ==
  ASSUME TrialAssumption, IInv, NEW r \in Requests, Mint(r)
  PROVE  IInv'
<1> USE DEF Mint, TrialAssumption
<1>0. TypeOK /\ Positions /\ ActiveHasKey /\ OnceTrial /\ OnceCode /\ OnceBonus BY DEF IInv
<1>a. /\ Racing(r, "minting", "code") \subseteq {<<Whose[r], "code">>}
      /\ \A q \in (Trials \cup Payments) \ {r} :
            Whose[q] = Whose[r] /\ pc[q] = "minting" => <<Whose[r], "code">> \in Racing(r, "minting", "code")
  BY <1>0, RacingTells
<1>1. TypeOK' BY <1>0, <1>a DEF TypeOK, Statuses, Positions, Place, Booked
<1>2. Positions' BY <1>0 DEF TypeOK, Positions, Place, Taken, Booked
<1>3. ActiveHasKey' BY <1>0 DEF TypeOK, Positions, Place, Taken, Booked, ActiveHasKey
<1>4. OnceTrial' /\ OnceCode' /\ OnceBonus'
  BY <1>0, <1>a DEF TypeOK, Positions, Place, Taken, Booked,
                   OnceTrial, OnceCode, OnceBonus
<1> QED BY <1>1, <1>2, <1>3, <1>4 DEF IInv

\* Nothing is minted and nothing is marked.
LEMMA MintFailsStep ==
  ASSUME TrialAssumption, IInv, NEW r \in Requests, MintFails(r)
  PROVE  IInv'
<1> USE DEF MintFails, TrialAssumption
<1>0. TypeOK /\ Positions /\ ActiveHasKey /\ OnceTrial /\ OnceCode /\ OnceBonus BY DEF IInv
<1>1. TypeOK' BY <1>0 DEF TypeOK, Statuses
<1>2. Positions' BY <1>0 DEF TypeOK, Positions, Place, Taken, Booked
<1>3. ActiveHasKey' BY <1>0 DEF TypeOK, Positions, Place, Taken, Booked, ActiveHasKey
<1>4. OnceTrial' /\ OnceCode' /\ OnceBonus'
  BY <1>0 DEF TypeOK, Positions, Place, Taken, Booked,
                   OnceTrial, OnceCode, OnceBonus
<1> QED BY <1>1, <1>2, <1>3, <1>4 DEF IInv

\* The key is made, heard of or not.
LEMMA IssueStep ==
  ASSUME TrialAssumption, IInv, NEW t \in Trials, Issue(t) \/ IssueFails(t)
  PROVE  IInv'
<1> USE DEF Issue, IssueFails, TrialAssumption
<1>0. TypeOK /\ Positions /\ ActiveHasKey /\ OnceTrial /\ OnceCode /\ OnceBonus BY DEF IInv
<1>1. TypeOK'
  <2>1. key' \in [Trials -> BOOLEAN] BY <1>0 DEF TypeOK
  <2>2. row' \in [Trials -> Statuses] BY <1>0 DEF TypeOK, Statuses
  <2> QED BY <1>0, <2>1, <2>2 DEF TypeOK
<1>2. Positions' BY <1>0 DEF TypeOK, Positions, Place, Taken, Booked
<1>3. ActiveHasKey' BY <1>0 DEF TypeOK, Positions, Place, Taken, Booked, ActiveHasKey
<1>4. OnceTrial' /\ OnceCode' /\ OnceBonus'
  BY <1>0 DEF TypeOK, Positions, Place, Taken, Booked,
                   OnceTrial, OnceCode, OnceBonus
<1> QED BY <1>1, <1>2, <1>3, <1>4 DEF IInv

\* The row is active only after its key.
LEMMA ActivateStep ==
  ASSUME TrialAssumption, IInv, NEW t \in Trials, Activate(t)
  PROVE  IInv'
<1> USE DEF Activate, TrialAssumption
<1>0. TypeOK /\ Positions /\ ActiveHasKey /\ OnceTrial /\ OnceCode /\ OnceBonus BY DEF IInv
<1>1. TypeOK' BY <1>0 DEF TypeOK, Statuses
<1>2. Positions' BY <1>0 DEF TypeOK, Positions, Place, Taken, Booked
<1>3. ActiveHasKey' BY <1>0 DEF TypeOK, Positions, Place, Taken, Booked, ActiveHasKey
<1>4. OnceTrial' /\ OnceCode' /\ OnceBonus'
  BY <1>0 DEF TypeOK, Positions, Place, Taken, Booked,
                   OnceTrial, OnceCode, OnceBonus
<1> QED BY <1>1, <1>2, <1>3, <1>4 DEF IInv

\* A crash keeps rows, keys and rewards.
LEMMA CrashStep ==
  ASSUME TrialAssumption, IInv, NEW t \in Trials, Crash(t)
  PROVE  IInv'
<1> USE DEF Crash, TrialAssumption
<1>0. TypeOK /\ Positions /\ ActiveHasKey /\ OnceTrial /\ OnceCode /\ OnceBonus BY DEF IInv
<1>1. TypeOK' BY <1>0 DEF TypeOK, Statuses
<1>2. Positions' BY <1>0 DEF TypeOK, Positions, Place, Taken, Booked
<1>3. ActiveHasKey' BY <1>0 DEF TypeOK, Positions, Place, Taken, Booked, ActiveHasKey
<1>4. OnceTrial' /\ OnceCode' /\ OnceBonus'
  BY <1>0 DEF TypeOK, Positions, Place, Taken, Booked,
                   OnceTrial, OnceCode, OnceBonus
<1> QED BY <1>1, <1>2, <1>3, <1>4 DEF IInv

\* A key is taken only from the row a reissue holds.
LEMMA KillStep ==
  ASSUME TrialAssumption, IInv, NEW x \in Reissues, Kill(x) \/ KillFails(x)
  PROVE  IInv'
<1> USE DEF Kill, KillFails, TrialAssumption
<1>0. TypeOK /\ Positions /\ ActiveHasKey /\ OnceTrial /\ OnceCode /\ OnceBonus BY DEF IInv
<1>1. TypeOK' BY <1>0 DEF TypeOK, Statuses
<1>2. Positions' BY <1>0 DEF TypeOK, Positions, Place, Taken, Booked
<1>3. ActiveHasKey' BY <1>0 DEF TypeOK, Positions, Place, Taken, Booked, ActiveHasKey
<1>4. OnceTrial' /\ OnceCode' /\ OnceBonus'
  BY <1>0 DEF TypeOK, Positions, Place, Taken, Booked,
                   OnceTrial, OnceCode, OnceBonus
<1> QED BY <1>1, <1>2, <1>3, <1>4 DEF IInv

\* The old row ends as the new one begins.
LEMMA ReplaceStep ==
  ASSUME TrialAssumption, IInv, NEW x \in Reissues, Replace(x)
  PROVE  IInv'
<1> USE DEF Replace, TrialAssumption
<1>0. TypeOK /\ Positions /\ ActiveHasKey /\ OnceTrial /\ OnceCode /\ OnceBonus BY DEF IInv
<1>1. TypeOK' BY <1>0 DEF TypeOK, Statuses
<1>2. Positions' BY <1>0 DEF TypeOK, Positions, Place, Taken, Booked
<1>3. ActiveHasKey' BY <1>0 DEF TypeOK, Positions, Place, Taken, Booked, ActiveHasKey
<1>4. OnceTrial' /\ OnceCode' /\ OnceBonus'
  BY <1>0 DEF TypeOK, Positions, Place, Taken, Booked,
                   OnceTrial, OnceCode, OnceBonus
<1> QED BY <1>1, <1>2, <1>3, <1>4 DEF IInv

\* A row is picked by one reissue.
LEMMA PickStep ==
  ASSUME TrialAssumption, IInv, NEW x \in Reissues, NEW t \in Trials, Pick(x, t)
  PROVE  IInv'
<1> USE DEF Pick, TrialAssumption
<1>0. TypeOK /\ Positions /\ ActiveHasKey /\ OnceTrial /\ OnceCode /\ OnceBonus BY DEF IInv
<1>1. TypeOK' BY <1>0 DEF TypeOK, Statuses
<1>2. Positions' BY <1>0 DEF TypeOK, Positions, Place, Taken, Booked
<1>3. ActiveHasKey' BY <1>0 DEF TypeOK, Positions, Place, Taken, Booked, ActiveHasKey
<1>4. OnceTrial' /\ OnceCode' /\ OnceBonus'
  BY <1>0 DEF TypeOK, Positions, Place, Taken, Booked,
                   OnceTrial, OnceCode, OnceBonus
<1> QED BY <1>1, <1>2, <1>3, <1>4 DEF IInv

\* A webhook that goes on saw the bonus unpaid.
LEMMA NoticeStep ==
  ASSUME TrialAssumption, IInv, NEW p \in Payments, Notice(p) \/ Rollback(p)
  PROVE  IInv'
<1> USE DEF Notice, Rollback, TrialAssumption
<1>0. TypeOK /\ Positions /\ ActiveHasKey /\ OnceTrial /\ OnceCode /\ OnceBonus BY DEF IInv
<1>1. TypeOK' BY <1>0 DEF TypeOK, Statuses
<1>2. Positions' BY <1>0 DEF TypeOK, Positions, Place, Taken, Booked
<1>3. ActiveHasKey' BY <1>0 DEF TypeOK, Positions, Place, Taken, Booked, ActiveHasKey
<1>4. OnceTrial' /\ OnceCode' /\ OnceBonus'
  BY <1>0 DEF TypeOK, Positions, Place, Taken, Booked,
                   OnceTrial, OnceCode, OnceBonus
<1> QED BY <1>1, <1>2, <1>3, <1>4 DEF IInv

\* The bonus is paid once, or two webhooks saw it unpaid.
LEMMA SettleStep ==
  ASSUME TrialAssumption, IInv, NEW p \in Payments, Settle(p)
  PROVE  IInv'
<1> USE DEF Settle, TrialAssumption
<1>0. TypeOK /\ Positions /\ ActiveHasKey /\ OnceTrial /\ OnceCode /\ OnceBonus BY DEF IInv
<1>a. /\ Racing(p, "first", "bonus") \subseteq {<<Whose[p], "bonus">>}
      /\ \A q \in (Trials \cup Payments) \ {p} :
            Whose[q] = Whose[p] /\ pc[q] = "first" => <<Whose[p], "bonus">> \in Racing(p, "first", "bonus")
  BY <1>0, RacingTells
<1>1. TypeOK' BY <1>0, <1>a DEF TypeOK, Statuses, Positions, Place, Booked
<1>2. Positions' BY <1>0 DEF TypeOK, Positions, Place, Taken, Booked
<1>3. ActiveHasKey' BY <1>0 DEF TypeOK, Positions, Place, Taken, Booked, ActiveHasKey
<1>4. OnceTrial' /\ OnceCode' /\ OnceBonus'
  BY <1>0, <1>a DEF TypeOK, Positions, Place, Taken, Booked,
                   OnceTrial, OnceCode, OnceBonus
<1> QED BY <1>1, <1>2, <1>3, <1>4 DEF IInv

\* Nothing moves.
LEMMA StutterStep ==
  ASSUME IInv, UNCHANGED vars
  PROVE  IInv'
<1> USE DEF vars, rows, referral
<1>0. TypeOK /\ Positions /\ ActiveHasKey /\ OnceTrial /\ OnceCode /\ OnceBonus BY DEF IInv
<1>1. TypeOK' /\ ActiveHasKey' BY <1>0 DEF TypeOK, ActiveHasKey
<1>2. Positions' BY <1>0 DEF Positions, Place, Taken, Booked
<1>3. OnceTrial' /\ OnceCode' /\ OnceBonus' BY <1>0 DEF OnceTrial, OnceCode, OnceBonus
<1> QED BY <1>1, <1>2, <1>3 DEF IInv

\* Every action keeps the invariant.
LEMMA StepInv == ASSUME TrialAssumption PROVE IInv /\ [Next]_vars => IInv'
<1> SUFFICES ASSUME IInv, [Next]_vars PROVE IInv' OBVIOUS
<1>1. ASSUME NEW u \in Users, NEW viaLink \in BOOLEAN, Start(u, viaLink) PROVE IInv'
  BY <1>1, StartStep
<1>2. ASSUME NEW r \in Requests,
             Check(r) \/ Insert(r) \/ Look(r) \/ Mint(r) \/ MintFails(r)
      PROVE  IInv'
  BY <1>2, CheckStep, InsertStep, LookStep, MintStep, MintFailsStep
<1>3. ASSUME NEW t \in Trials, Issue(t) \/ IssueFails(t) \/ Activate(t) \/ Crash(t)
      PROVE  IInv'
  BY <1>3, IssueStep, ActivateStep, CrashStep
<1>4. ASSUME NEW x \in Reissues, Kill(x) \/ KillFails(x) \/ Replace(x) PROVE IInv'
  BY <1>4, KillStep, ReplaceStep
<1>5. ASSUME NEW x \in Reissues, NEW t \in Trials, Pick(x, t) PROVE IInv'
  BY <1>5, PickStep
<1>6. ASSUME NEW p \in Payments, Notice(p) \/ Settle(p) \/ Rollback(p) PROVE IInv'
  BY <1>6, NoticeStep, SettleStep
<1>7. ASSUME UNCHANGED vars PROVE IInv' BY <1>7, StutterStep
<1> QED BY <1>1, <1>2, <1>3, <1>4, <1>5, <1>6, <1>7 DEF Next

\* The invariant of the specification.
LEMMA Invariance == ASSUME TrialAssumption PROVE Spec => []IInv
<1>1. Init => IInv BY InitInv
<1>2. IInv /\ [Next]_vars => IInv' BY StepInv
<1> QED BY <1>1, <1>2, PTL DEF Spec

-----------------------------------------------------------------------------
\* Rows, keys, positions and rewards keep their types; bonuses and codes are for
\* invited users.
THEOREM TypeCorrect == ASSUME TrialAssumption PROVE Spec => []TypeOK
<1>1. IInv => TypeOK BY DEF IInv
<1> QED BY <1>1, Invariance, PTL

\* However many requests, repetitions and reissues of a user there are, he
\* activates one trial and has one alive, unless two requests passed the check
\* together.
THEOREM OneTrialEach == ASSUME TrialAssumption PROVE Spec => []OneTrial
<1>1. TrialAssumption /\ IInv => OneTrial
  <2> SUFFICES ASSUME IInv, NEW u \in Users, <<u, "trial">> \notin raced
               PROVE  /\ Cardinality(RowsOf(u) \cap Requests) <= 1
                      /\ Cardinality({t \in RowsOf(u) : row[t] \in {"pending", "active"}}) <= 1
    BY DEF OneTrial
  <2>1. OnceTrial BY DEF IInv
  <2>2. \A s, t \in RowsOf(u) \cap Requests : s = t BY <2>1 DEF OnceTrial, RowsOf, Trials
  <2>3. \A s, t \in {t \in RowsOf(u) : row[t] \in {"pending", "active"}} : s = t
    BY <2>1 DEF OnceTrial, RowsOf
  <2> QED BY <2>2, <2>3, AtMostOne
<1> QED BY <1>1, Invariance, PTL

\* A referrer gets a code only for a trial that was served; one code for a user's
\* trial and one bonus for his first payment, unless two sessions passed the same
\* check together.
THEOREM RewardsOnce == ASSUME TrialAssumption PROVE Spec => []RewardsEarned
<1>1. IInv => RewardsEarned
  <2> SUFFICES ASSUME IInv PROVE RewardsEarned OBVIOUS
  <2>1. \A r \in minted : row[r] \in {"active", "deactivated"}
    BY DEF IInv, TypeOK, Positions, Place, Trials
  <2>2. ASSUME NEW u \in Users, <<u, "code">> \notin raced
        PROVE  Cardinality({r \in minted : Whose[r] = u}) <= 1
    <3>1. \A r, q \in {r \in minted : Whose[r] = u} : r = q
      BY <2>2 DEF IInv, TypeOK, OnceCode
    <3> QED BY <3>1, AtMostOne
  <2>3. ASSUME NEW u \in Users, <<u, "bonus">> \notin raced
        PROVE  Cardinality({p \in bonuses : Whose[p] = u}) <= 1
    <3>1. \A p, q \in {p \in bonuses : Whose[p] = u} : p = q
      BY <2>3 DEF IInv, TypeOK, OnceBonus
    <3> QED BY <3>1, AtMostOne
  <2> QED BY <2>1, <2>2, <2>3 DEF RewardsEarned
<1> QED BY <1>1, Invariance, PTL

\* An active trial has its key, and a pending one somebody who works on it, but for
\* crashes and the script's own failures.
THEOREM HonestStatus == ASSUME TrialAssumption PROVE Spec => []StatusIsHonest
<1>1. IInv => StatusIsHonest
  BY DEF IInv, StatusIsHonest, StrandedOnlyByCrash, Positions, Place
<1> QED BY <1>1, Invariance, PTL
=============================================================================
