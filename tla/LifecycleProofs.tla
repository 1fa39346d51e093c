---------------------------- MODULE LifecycleProofs ----------------------------
(***************************************************************************)
(* Proofs about the life of subscriptions, for any rows, requests and      *)
(* thresholds: the types, that the breaker spares the fleet, that paid     *)
(* time is not cut and that rows follow keys as long as no session wrote   *)
(* under another's snapshot; about the notices of their end; and what      *)
(* module TrialProofs shows, for the three of them side by side.           *)
(***************************************************************************)
EXTENDS Lifecycle, FiniteSetTheorems, TLAPS

-----------------------------------------------------------------------------
(***************************************************************************)
(* Rows and keys.                                                          *)
(*                                                                         *)
(* The breaker needs to know what the batch counted: each run of unknown   *)
(* keys is shorter than the threshold, and is ended by another outcome     *)
(* (Counted).  Paid time needs that, without a race, what a session loaded *)
(* and has not written yet is what the row still says (Fresh).  Rows       *)
(* follow keys because between the answer about a change and its commit    *)
(* the key is exactly one change ahead of the row (Sync), and no answer    *)
(* about a key promises more than it has (Known).                          *)
(***************************************************************************)
\* What the batch counted.
Counted ==
    /\ invalid < Threshold
    /\ Cardinality(disowned) <= (Threshold - 1) * gaps + invalid
    /\ batch = "idle" => disowned = {} /\ gaps = 0

\* Without a race a snapshot in use is the row, and an UPDATE that was sent does
\* not shorten it.
Fresh ==
    ~raced =>
        /\ \A r \in Requests : InFlight(r) => mem[r] = RowOf(Target[r])
        /\ \A s \in todo : seen[s] = RowOf(s)
        /\ \A s \in Subs : found[s].expires = -1 \/ found[s].expires >= expires[s]

\* No request has changed the key of s without its row.
Calm(s) == \A q \in Requests : Target[q] = s => ~Pending(q)

\* r is the only one that has.
Alone(r) == Pending(r) /\ \A q \in Requests \ {r} : Target[q] = Target[r] => ~Pending(q)

\* What RowMatchesKey says of s, and that the key of any row lasts as long as it.
Agrees(s) ==
    /\ expires[s] = until[s]
    /\ status[s] = "active" => state[s] # "deleted"
    /\ status[s] = "suspended" => state[s] = "suspended"
    /\ state[s] = "deleted" => status[s] \in {"deactivated", "expired"}

\* The key is where r has brought it from what the row says.
Reached(r) ==
    LET s == Target[r] IN
    /\ until[s] = IF op[r] \in Extensions THEN Later(expires[s]) ELSE expires[s]
    /\ op[r] \in Extensions => state[s] # "deleted"
    /\ op[r] = "stop" => state[s] = "suspended"
    /\ op[r] = "resume" => state[s] = "active"

Sync(s) ==
    /\ Calm(s) => Agrees(s)
    /\ \A r \in Requests : Target[r] = s /\ Alone(r) => Reached(r)

\* An answer that is still to be written is not later than the key, and an UPDATE
\* that was sent takes a row out of service or leaves its status.
Known(s) ==
    /\ \A r \in Requests :
          Target[r] = s /\ pc[r] = "told" /\ op[r] = "recheck" => info[r].until <= until[s]
    /\ found[s].expires <= until[s]
    /\ found[s].status \in {"keep", "deactivated", "expired"}

\* As long as every change of a key was heard of: rows follow keys.
Followed == \A s \in Subs \ unheard : Known(s) /\ (~raced => Sync(s))

IInv == TypeOK /\ Counted /\ Fresh

-----------------------------------------------------------------------------
(* What the operators of the module return.                                *)

LEMMA DirtyUpdates ==
  ASSUME NEW row \in Row, NEW u \in Row
  PROVE  /\ Dirty(row, u) \in Update
         /\ Dirty(row, u).expires = -1 \/ Dirty(row, u).expires = u.expires
         /\ Applied(row, Dirty(row, u)) \in Row
         /\ Applied(row, Dirty(row, u)).expires = u.expires
<1>1. row.status \in Statuses /\ u.status \in Statuses /\ row.expires \in Nat /\ u.expires \in Nat
  BY DEF Row
<1> QED BY <1>1 DEF Dirty, Update, Applied, Row, Statuses

LEMMA AppliedIsRow ==
  ASSUME NEW row \in Row, NEW u \in Update
  PROVE  /\ Applied(row, u) \in Row
         /\ u = Nothing => Applied(row, u) = row
         /\ Applied(row, u).expires = row.expires \/ Applied(row, u).expires = u.expires
         /\ u.expires = -1 => Applied(row, u).expires = row.expires
<1>1. /\ row.status \in Statuses /\ row.expires \in Nat
      /\ u.status \in Statuses \cup {"keep"} /\ u.expires \in Nat \cup {-1}
      /\ row = [status |-> row.status, expires |-> row.expires]
  BY DEF Row, Update
<1> QED BY <1>1 DEF Applied, Row, Nothing

LEMMA VerdictIsRow ==
  ASSUME NEW row \in Row, NEW i \in Answers
  PROVE  Verdict(row, i) \in Row /\ Verdict(row, i).expires >= row.expires
<1>1. row.status \in Statuses /\ row.expires \in Nat /\ i.until \in Nat
  BY DEF Row, Answers
<1>2. CASE i.state \in {"unknown", "suspended"}
  BY <1>1, <1>2 DEF Verdict, Row, Statuses
<1>3. CASE i.state \notin {"unknown", "suspended"} /\ i.state # "active"
  BY <1>1, <1>3 DEF Verdict, Row, Statuses
<1>4. CASE i.state = "active"
  BY <1>1, <1>4 DEF Verdict, Row, Statuses
<1> QED BY <1>2, <1>3, <1>4

LEMMA KeyAnswers ==
  ASSUME TypeOK, NEW s \in Subs
  PROVE  KeyInfo(s) \subseteq Answers
<1>1. state[s] \in {"active", "suspended", "deleted"} /\ until[s] \in Nat
  BY DEF TypeOK
<1> QED BY <1>1 DEF KeyInfo, Answers, NoAnswer

LEMMA OutcomeIsRow ==
  ASSUME TypeOK, NEW r \in Requests
  PROVE  Outcome(r) \in Row /\ Outcome(r).expires >= mem[r].expires
<1>1. /\ mem[r] \in Row /\ info[r] \in Answers /\ now \in Nat /\ Days \in Nat \ {0}
      /\ mem[r].status \in Statuses /\ mem[r].expires \in Nat
  BY SubscriptionAssumption DEF TypeOK, Row
<1>2. CASE op[r] \in Extensions
  BY <1>1, <1>2 DEF Outcome, Later, Row, Statuses
<1>3. CASE op[r] \notin Extensions /\ op[r] = "recheck"
  BY <1>1, <1>3, VerdictIsRow DEF Outcome
<1>4. CASE op[r] \notin Extensions /\ op[r] # "recheck"
  BY <1>1, <1>4 DEF Outcome, Row, Statuses
<1> QED BY <1>2, <1>3, <1>4

LEMMA RowsAreRows ==
  ASSUME TypeOK, NEW s \in Subs
  PROVE  RowOf(s) \in Row /\ RowOf(s).expires = expires[s] /\ RowOf(s).status = status[s]
BY DEF TypeOK, RowOf, Row

\* Another answer adds Threshold - 1 to what may be disowned.
LEMMA Room ==
  ASSUME NEW t \in Nat \ {0}, NEW g \in Nat
  PROVE  (t - 1) * (g + 1) = (t - 1) * g + (t - 1) /\ (t - 1) * g \in Nat /\ (t - 1) * 0 = 0
OBVIOUS

-----------------------------------------------------------------------------
LEMMA InitInv == Init => IInv
<1> SUFFICES ASSUME Init PROVE IInv OBVIOUS
<1> USE DEF Init
<1>1. TypeOK
  BY SubscriptionAssumption DEF TypeOK, Row, Statuses, Answers, NoAnswer, Update, Nothing
<1>2. Counted BY SubscriptionAssumption, FS_EmptySet, Room DEF Counted
<1>3. Fresh BY DEF Fresh, InFlight, Nothing
<1> QED BY <1>1, <1>2, <1>3 DEF IInv

\* A step that leaves the batch alone leaves its counts alone.
LEMMA CountedStep == Counted /\ UNCHANGED cron => Counted'
BY DEF Counted, cron

\* The end of a request disturbs neither the types nor the snapshots.
LEMMA EndStep ==
  ASSUME TypeOK, NEW r \in Requests, End(r)
  PROVE  /\ op' \in [Requests -> Ops \cup {"none"}]
         /\ pc' \in [Requests -> {"idle", "loaded", "told", "over"}]
         /\ mem' \in [Requests -> Row] /\ info' \in [Requests -> Answers]
         /\ ~InFlight(r)'
         /\ \A q \in Requests \ {r} : pc'[q] = pc[q] /\ mem'[q] = mem[q]
<1>1. [status |-> "active", expires |-> 0] \in Row /\ NoAnswer \in Answers
  BY DEF Row, Statuses, Answers, NoAnswer
<1> QED BY <1>1 DEF End, TypeOK, InFlight

\* The rows stay: so does Fresh, if no request starts to rely on one.
LEMMA FreshStep ==
  ASSUME TypeOK, Fresh, rows' = rows, todo' = todo, seen' = seen, found' = found,
         \A q \in Requests : InFlight(q)' => InFlight(q) /\ mem'[q] = mem[q]
  PROVE  Fresh'
<1>1. \A s : RowOf(s)' = RowOf(s)
  BY DEF RowOf, rows
<1> QED BY <1>1 DEF Fresh, rows

\* One row is written, and Fresh stays: a race is recorded, or nobody holds it.
LEMMA WriteStep ==
  ASSUME TypeOK, Fresh, NEW s \in Subs, NEW row \in Row, NEW watched \in BOOLEAN,
         NEW crossed \in BOOLEAN, ~Sent(s), Write(s, row, watched, crossed),
         todo' = todo, seen' = seen, found' = found,
         \A q \in Requests : InFlight(q)' =>
            InFlight(q) /\ mem'[q] = mem[q] /\ (Target[q] = s => watched),
         s \in todo => watched
  PROVE  Fresh'
<1> SUFFICES ASSUME ~raced' PROVE Fresh'
  BY DEF Fresh
<1>1. ~raced /\ (watched => row = RowOf(s))
  BY DEF Write, TypeOK
<1>2. /\ RowOf(s)' = row
      /\ \A v \in Subs \ {s} : RowOf(v)' = RowOf(v) /\ expires'[v] = expires[v]
  <2>1. row = [status |-> row.status, expires |-> row.expires]
    BY DEF Row
  <2> QED BY <2>1 DEF Write, RowOf, TypeOK
<1>3. \A q \in Requests : Target[q] \in Subs
  BY SubscriptionAssumption
<1>4. \A q \in Requests : InFlight(q)' => mem'[q] = RowOf(Target[q])'
  BY <1>1, <1>2, <1>3 DEF Fresh
<1>5. \A v \in todo' : seen'[v] = RowOf(v)'
  BY <1>1, <1>2 DEF Fresh, TypeOK
<1>6. \A v \in Subs : found'[v].expires = -1 \/ found'[v].expires >= expires'[v]
  <2>1. found[s].expires = -1
    BY DEF Sent, Nothing
  <2> QED BY <1>1, <1>2, <2>1 DEF Fresh
<1> QED BY <1>4, <1>5, <1>6 DEF Fresh

\* Write keeps the types.
LEMMA WriteTypes ==
  ASSUME TypeOK, NEW s \in Subs, NEW row \in Row, NEW watched \in BOOLEAN,
         NEW crossed \in BOOLEAN, Write(s, row, watched, crossed)
  PROVE  status' \in [Subs -> Statuses] /\ expires' \in [Subs -> Nat] /\ raced' \in BOOLEAN
BY DEF TypeOK, Row, Write

\* The batch ends: nothing is left of what it counted, loaded and sent.
LEMMA ForgetStep ==
  ASSUME Forget
  PROVE  /\ batch' = "idle" /\ todo' = {} /\ seen' \in [Subs -> Row]
         /\ found' \in [Subs -> Update] /\ invalid' \in Nat /\ disowned' = {} /\ gaps' = 0
         /\ \A s \in Subs : found'[s] = Nothing
         /\ Counted'
<1>1. Nothing \in Update /\ [status |-> "active", expires |-> 0] \in Row
  BY DEF Nothing, Update, Row, Statuses
<1>2. Counted'
  BY SubscriptionAssumption, FS_EmptySet, Room DEF Forget, Counted
<1> QED BY <1>1, <1>2 DEF Forget

LEMMA StepInv == IInv /\ [Next]_vars => IInv'
<1> SUFFICES ASSUME IInv, [Next]_vars PROVE IInv' OBVIOUS
<1> USE DEF IInv
<1>1. ASSUME Tick PROVE IInv'
  <2>1. TypeOK' BY <1>1 DEF Tick, TypeOK, rows, keys, reqs, cron
  <2>2. Counted' BY <1>1, CountedStep DEF Tick
  <2>3. Fresh' BY <1>1, FreshStep DEF Tick, rows, reqs, cron, InFlight
  <2> QED BY <2>1, <2>2, <2>3
<1>2. ASSUME NEW r \in Requests, NEW o \in Ops, Load(r, o) PROVE IInv'
  <2>0. /\ UNCHANGED <<now, rows, keys, cron, faults, unheard>> /\ Target[r] \in Subs
        /\ RowOf(Target[r]) \in Row
    BY <1>2, SubscriptionAssumption, RowsAreRows DEF Load
  <2>1. TypeOK'
    <3>1. CASE End(r) BY <2>0, <3>1, EndStep DEF TypeOK, rows, keys, cron
    <3>2. CASE ~End(r) BY <1>2, <2>0, <3>2 DEF Load, TypeOK, rows, keys, cron
    <3> QED BY <3>1, <3>2
  <2>2. Counted' BY <2>0, CountedStep
  <2>3. Fresh'
    <3>1. CASE End(r) BY <2>0, <3>1, EndStep, FreshStep DEF cron, InFlight
    <3>2. CASE ~End(r)
      <4>1. /\ pc' = [pc EXCEPT ![r] = "loaded"]
            /\ mem' = [mem EXCEPT ![r] = RowOf(Target[r])]
        BY <1>2, <3>2 DEF Load
      <4>2. \A v : RowOf(v)' = RowOf(v)
        BY <2>0 DEF rows, RowOf
      <4>3. \A q \in Requests \ {r} : pc'[q] = pc[q] /\ mem'[q] = mem[q]
        BY <4>1 DEF TypeOK
      <4>4. mem'[r] = RowOf(Target[r])
        BY <4>1 DEF TypeOK
      <4>5. ~raced => \A q \in Requests : InFlight(q)' => mem'[q] = RowOf(Target[q])
        BY <4>3, <4>4 DEF Fresh, InFlight
      <4> QED BY <2>0, <4>2, <4>5 DEF Fresh, rows, cron
    <3> QED BY <3>1, <3>2
  <2> QED BY <2>1, <2>2, <2>3
<1>3. ASSUME NEW r \in Requests, CallHeard(r) PROVE IInv'
  <2>0. Target[r] \in Subs /\ Days \in Nat
    BY SubscriptionAssumption
  <2>1. TypeOK'
    <3>1. until' \in [Subs -> Nat] /\ state' \in [Subs -> {"active", "suspended", "deleted"}]
      BY <1>3, <2>0 DEF CallHeard, Perform, Later, TypeOK
    <3> QED BY <1>3, <3>1 DEF CallHeard, TypeOK, rows, cron
  <2>2. Counted' BY <1>3, CountedStep DEF CallHeard
  <2>3. Fresh' BY <1>3, FreshStep DEF CallHeard, rows, cron, InFlight, TypeOK
  <2> QED BY <2>1, <2>2, <2>3
<1>4. ASSUME NEW r \in Requests, CallFails(r) PROVE IInv'
  <2>0. Target[r] \in Subs /\ Days \in Nat /\ End(r)
    BY <1>4, SubscriptionAssumption DEF CallFails
  <2>1. TypeOK'
    <3>1. /\ until' \in [Subs -> Nat] /\ state' \in [Subs -> {"active", "suspended", "deleted"}]
          /\ bearer' = bearer /\ unheard' \subseteq Subs
      BY <1>4, <2>0 DEF CallFails, Perform, Later, TypeOK, keys
    <3> QED BY <1>4, <2>0, <3>1, EndStep DEF CallFails, TypeOK, rows, cron
  <2>2. Counted' BY <1>4, CountedStep DEF CallFails
  <2>3. Fresh' BY <1>4, <2>0, EndStep, FreshStep DEF CallFails, cron, InFlight
  <2> QED BY <2>1, <2>2, <2>3
<1>5. ASSUME NEW r \in Requests, Ask(r) PROVE IInv'
  <2>0. Target[r] \in Subs
    BY SubscriptionAssumption
  <2>1. TypeOK'
    <3>1. info' \in [Requests -> Answers]
      BY <1>5, <2>0, KeyAnswers DEF Ask, TypeOK
    <3> QED BY <1>5, <3>1 DEF Ask, TypeOK, rows, keys, cron
  <2>2. Counted' BY <1>5, CountedStep DEF Ask
  <2>3. Fresh' BY <1>5, FreshStep DEF Ask, rows, cron, InFlight, TypeOK
  <2> QED BY <2>1, <2>2, <2>3
<1>6. ASSUME NEW r \in Requests, Commit(r) PROVE IInv'
  <2> DEFINE s == Target[r]
             row == Applied(RowOf(s), Dirty(mem[r], Outcome(r)))
             watched == (\E q \in Requests \ {r} : Target[q] = s /\ InFlight(q)) \/ s \in todo
             crossed == Crossed(r)
  <2>1. s \in Subs /\ mem[r] \in Row /\ RowOf(s) \in Row /\ Outcome(r) \in Row
    BY SubscriptionAssumption, OutcomeIsRow, RowsAreRows DEF TypeOK
  <2>2. row \in Row /\ watched \in BOOLEAN /\ crossed \in BOOLEAN
    BY <2>1, DirtyUpdates, AppliedIsRow DEF Crossed, Pending
  <2>3. /\ ~Sent(s) /\ Write(s, row, watched, crossed) /\ End(r)
        /\ UNCHANGED <<now, keys, cron, faults, unheard>>
    BY <1>6 DEF Commit
  <2> HIDE DEF s, row, watched, crossed
  <2>4. TypeOK'
    BY <2>1, <2>2, <2>3, EndStep, WriteTypes DEF TypeOK, keys, cron
  <2>5. Counted' BY <2>3, CountedStep
  <2>6. \A q \in Requests : InFlight(q)' =>
            InFlight(q) /\ mem'[q] = mem[q] /\ (Target[q] = s => watched)
    BY <2>3, EndStep DEF InFlight, watched
  <2>7. Fresh' BY <2>1, <2>2, <2>3, <2>6, WriteStep DEF cron, watched
  <2> QED BY <2>4, <2>5, <2>7
<1>7. ASSUME NEW r \in Requests, Crash(r) PROVE IInv'
  <2>0. Target[r] \in Subs
    BY SubscriptionAssumption
  <2>1. TypeOK' BY <1>7, <2>0, EndStep DEF Crash, TypeOK, rows, keys, cron
  <2>2. Counted' BY <1>7, CountedStep DEF Crash
  <2>3. Fresh' BY <1>7, EndStep, FreshStep DEF Crash, cron, InFlight
  <2> QED BY <2>1, <2>2, <2>3
<1>8. ASSUME NEW s \in Subs, MarkExpired(s) PROVE IInv'
  <2> DEFINE row == [status |-> "expired", expires |-> expires[s]]
  <2>1. row \in Row /\ Watched(s) \in BOOLEAN
    BY DEF Row, Statuses, TypeOK, Watched
  <2>2. /\ ~Sent(s) /\ Write(s, row, Watched(s), FALSE)
        /\ UNCHANGED <<now, keys, reqs, cron, faults, unheard>>
    BY <1>8 DEF MarkExpired
  <2> HIDE DEF row
  <2>3. TypeOK' BY <2>1, <2>2, WriteTypes DEF TypeOK, keys, reqs, cron
  <2>4. Counted' BY <2>2, CountedStep
  <2>5. /\ \A q \in Requests : InFlight(q)' =>
              InFlight(q) /\ mem'[q] = mem[q] /\ (Target[q] = s => Watched(s))
        /\ s \in todo => Watched(s)
    BY <2>2 DEF InFlight, reqs, Watched
  <2>6. Fresh' BY <2>1, <2>2, <2>5, WriteStep DEF cron
  <2> QED BY <2>3, <2>4, <2>6
<1>9. ASSUME BatchLoad PROVE IInv'
  <2>0. \A s \in Subs : RowOf(s) \in Row
    BY RowsAreRows
  <2>1. TypeOK'
    <3>1. seen' \in [Subs -> Row]
      BY <1>9, <2>0 DEF BatchLoad, TypeOK
    <3> QED BY <1>9, <3>1 DEF BatchLoad, TypeOK, rows, keys, reqs
  <2>2. Counted'
    <3>1. invalid' = 0 /\ disowned' = {} /\ gaps' = 0 /\ batch' = "running"
      BY <1>9 DEF BatchLoad, Counted
    <3>2. Threshold \in Nat \ {0} /\ Cardinality({}) = 0 /\ (Threshold - 1) * 0 = 0
      BY SubscriptionAssumption, FS_EmptySet, Room
    <3> QED BY <3>1, <3>2 DEF Counted
  <2>3. Fresh'
    <3>1. \A s : RowOf(s)' = RowOf(s)
      BY <1>9 DEF BatchLoad, rows, RowOf
    <3>2. \A s \in todo' : seen'[s] = RowOf(s)
      BY <1>9 DEF BatchLoad
    <3> QED BY <1>9, <3>1, <3>2 DEF BatchLoad, Fresh, rows, reqs, InFlight
  <2> QED BY <2>1, <2>2, <2>3
<1>10. ASSUME NEW s \in Subs, BatchCheck(s) PROVE IInv'
  <2>0. UNCHANGED <<now, rows, keys, reqs, faults, unheard>> /\ s \in todo
    BY <1>10 DEF BatchCheck
  <2>1. PICK i \in KeyInfo(s) :
          IF i.state = "unknown" /\ invalid + 1 >= Threshold
          THEN Forget
          ELSE /\ todo' = todo \ {s}
               /\ found' = [found EXCEPT ![s] = Dirty(seen[s], Verdict(seen[s], i))]
               /\ IF i.state = "unknown"
                  THEN invalid' = invalid + 1 /\ disowned' = disowned \cup {s} /\ gaps' = gaps
                  ELSE invalid' = 0 /\ disowned' = disowned /\ gaps' = gaps + 1
               /\ UNCHANGED <<batch, seen>>
    BY <1>10 DEF BatchCheck
  <2>2. CASE Forget
    <3>1. TypeOK' BY <2>0, <2>2, ForgetStep DEF TypeOK, rows, keys, reqs
    <3>2. Fresh'
      <4>1. \A v : RowOf(v)' = RowOf(v)
        BY <2>0 DEF rows, RowOf
      <4> QED BY <2>0, <2>2, <4>1, ForgetStep DEF Fresh, rows, reqs, InFlight, Nothing
    <3> QED BY <3>1, <3>2, <2>2, ForgetStep
  <2>3. CASE ~Forget
    <3> DEFINE v == Verdict(seen[s], i)
               u == Dirty(seen[s], v)
    <3>1. i \in Answers /\ seen[s] \in Row
      BY KeyAnswers DEF TypeOK
    <3>2. v \in Row /\ v.expires >= seen[s].expires
      BY <3>1, VerdictIsRow
    <3>3. u \in Update /\ (u.expires = -1 \/ u.expires = v.expires)
      BY <3>1, <3>2, DirtyUpdates
    <3>4. /\ todo' = todo \ {s} /\ found' = [found EXCEPT ![s] = u]
          /\ \/ /\ invalid + 1 < Threshold /\ invalid' = invalid + 1
                /\ disowned' = disowned \cup {s} /\ gaps' = gaps
             \/ invalid' = 0 /\ disowned' = disowned /\ gaps' = gaps + 1
          /\ batch' = batch /\ seen' = seen /\ batch = "running"
      BY <1>10, <2>1, <2>3, SubscriptionAssumption DEF BatchCheck, TypeOK
    <3> HIDE DEF u, v
    <3>5. TypeOK' BY <2>0, <3>3, <3>4 DEF TypeOK, rows, keys, reqs
    <3>6. Counted'
      <4>1. IsFiniteSet(disowned)
        BY SubscriptionAssumption, FS_Subset DEF TypeOK
      <4>2. /\ Cardinality(disowned) \in Nat /\ invalid \in Nat /\ gaps \in Nat
            /\ Threshold \in Nat \ {0}
        BY <4>1, SubscriptionAssumption, FS_CardinalityType DEF TypeOK
      <4>3. /\ (Threshold - 1) * (gaps + 1) = (Threshold - 1) * gaps + (Threshold - 1)
            /\ (Threshold - 1) * gaps \in Nat
        BY <4>2, Room
      <4>4. /\ IsFiniteSet(disowned \cup {s}) /\ Cardinality(disowned \cup {s}) \in Nat
            /\ Cardinality(disowned \cup {s}) <= Cardinality(disowned) + 1
        <5>1. /\ IsFiniteSet(disowned \cup {s})
              /\ Cardinality(disowned \cup {s}) =
                   IF s \in disowned THEN Cardinality(disowned) ELSE Cardinality(disowned) + 1
          BY <4>1, FS_AddElement
        <5> QED BY <4>2, <5>1
      <4>5. CASE /\ invalid + 1 < Threshold /\ invalid' = invalid + 1
                 /\ disowned' = disowned \cup {s} /\ gaps' = gaps
        BY <3>4, <4>2, <4>3, <4>4, <4>5 DEF Counted
      <4>6. CASE invalid' = 0 /\ disowned' = disowned /\ gaps' = gaps + 1
        BY <3>4, <4>2, <4>3, <4>6 DEF Counted
      <4> QED BY <3>4, <4>5, <4>6
    <3>7. Fresh'
      <4>1. \A w : RowOf(w)' = RowOf(w)
        BY <2>0 DEF rows, RowOf
      <4>2. ~raced => u.expires = -1 \/ u.expires >= expires[s]
        <5>1. ~raced => seen[s].expires = expires[s]
          BY <2>0, RowsAreRows DEF Fresh
        <5>2. seen[s].expires \in Nat /\ v.expires \in Nat /\ expires[s] \in Nat
          BY <3>1, <3>2 DEF Row, TypeOK
        <5> QED BY <3>2, <3>3, <5>1, <5>2
      <4>3. ~raced => \A w \in Subs : found'[w].expires = -1 \/ found'[w].expires >= expires[w]
        BY <3>4, <4>2 DEF Fresh, TypeOK
      <4> QED BY <2>0, <3>4, <4>1, <4>3 DEF Fresh, rows, reqs, InFlight
    <3> QED BY <3>5, <3>6, <3>7
  <2> QED BY <2>2, <2>3
<1>11. ASSUME NEW s \in Subs, BatchMiss(s) PROVE IInv'
  <2>1. TypeOK' BY <1>11 DEF BatchMiss, TypeOK, rows, keys, reqs
  <2>2. Counted'
    <3>1. IsFiniteSet(disowned) /\ Cardinality(disowned) \in Nat /\ gaps \in Nat /\ invalid \in Nat
      BY SubscriptionAssumption, FS_Subset, FS_CardinalityType DEF TypeOK
    <3>2. /\ (Threshold - 1) * (gaps + 1) = (Threshold - 1) * gaps + (Threshold - 1)
          /\ (Threshold - 1) * gaps \in Nat /\ Threshold \in Nat \ {0}
      BY <3>1, SubscriptionAssumption, Room
    <3>3. /\ disowned' = disowned /\ gaps' = gaps + 1 /\ invalid' = 0
          /\ batch = "running" /\ batch' = batch
      BY <1>11 DEF BatchMiss
    <3> QED BY <3>1, <3>2, <3>3 DEF Counted
  <2>3. Fresh'
    <3>1. \A w : RowOf(w)' = RowOf(w)
      BY <1>11 DEF BatchMiss, rows, RowOf
    <3> QED BY <1>11, <3>1 DEF BatchMiss, Fresh, rows, reqs, InFlight
  <2> QED BY <2>1, <2>2, <2>3
<1>12. ASSUME BatchCommit PROVE IInv'
  <2> DEFINE new == [s \in Subs |-> Applied(RowOf(s), found[s])]
  <2>1. /\ status' = [s \in Subs |-> new[s].status]
        /\ expires' = [s \in Subs |-> new[s].expires]
        /\ raced' = (raced \/ \E s \in Subs : new[s] # RowOf(s) /\ Watched(s))
        /\ Forget /\ UNCHANGED <<now, keys, reqs, faults, unheard>>
    BY <1>12 DEF BatchCommit
  <2>2. \A s \in Subs : new[s] \in Row /\ RowOf(s) \in Row
    BY RowsAreRows, AppliedIsRow DEF TypeOK
  <2> HIDE DEF new
  <2>3. TypeOK'
    <3>1. status' \in [Subs -> Statuses] /\ expires' \in [Subs -> Nat]
      BY <2>1, <2>2 DEF Row
    <3>2. raced' \in BOOLEAN
      BY <2>1 DEF TypeOK
    <3> QED BY <2>1, <3>1, <3>2, ForgetStep DEF TypeOK, keys, reqs
  <2>4. Fresh'
    <3> SUFFICES ASSUME ~raced' PROVE Fresh'
      BY DEF Fresh
    <3>1. ~raced /\ \A s \in Subs : Watched(s) => new[s] = RowOf(s)
      BY <2>1
    <3>2. \A s \in Subs : RowOf(s)' = new[s]
      <4>1. \A s \in Subs : new[s] = [status |-> new[s].status, expires |-> new[s].expires]
        BY <2>2 DEF Row
      <4> QED BY <2>1, <4>1 DEF RowOf
    <3>3. \A r \in Requests : Target[r] \in Subs
      BY SubscriptionAssumption
    <3>4. \A r \in Requests : InFlight(r)' => mem'[r] = RowOf(Target[r])'
      BY <2>1, <3>1, <3>2, <3>3 DEF Fresh, Watched, InFlight, reqs
    <3> QED BY <2>1, <3>4, ForgetStep DEF Fresh, Nothing
  <2> QED BY <2>1, <2>3, <2>4, ForgetStep
<1>13. ASSUME BatchDies PROVE IInv'
  <2>0. Forget /\ UNCHANGED <<now, rows, keys, reqs, unheard>> /\ faults' = faults + 1
    BY <1>13 DEF BatchDies
  <2>1. TypeOK' BY <2>0, ForgetStep DEF TypeOK, rows, keys, reqs
  <2>2. Fresh'
    <3>1. \A v : RowOf(v)' = RowOf(v)
      BY <2>0 DEF rows, RowOf
    <3> QED BY <2>0, <3>1, ForgetStep DEF Fresh, rows, reqs, InFlight, Nothing
  <2> QED BY <2>0, <2>1, <2>2, ForgetStep
<1>14. ASSUME BearerDies PROVE IInv'
  <2>1. TypeOK' BY <1>14 DEF BearerDies, TypeOK, rows, reqs, cron
  <2>2. Counted' BY <1>14, CountedStep DEF BearerDies
  <2>3. Fresh' BY <1>14, FreshStep DEF BearerDies, reqs, cron, InFlight
  <2> QED BY <2>1, <2>2, <2>3
<1>15. ASSUME NEW s \in Subs, OutOfBand(s) PROVE IInv'
  <2>1. TypeOK'
    <3>1. until' \in [Subs -> Nat] /\ state' \in [Subs -> {"active", "suspended", "deleted"}]
      BY <1>15 DEF OutOfBand, TypeOK
    <3> QED BY <1>15, <3>1 DEF OutOfBand, TypeOK, rows, reqs, cron
  <2>2. Counted' BY <1>15, CountedStep DEF OutOfBand
  <2>3. Fresh' BY <1>15, FreshStep DEF OutOfBand, reqs, cron, InFlight
  <2> QED BY <2>1, <2>2, <2>3
<1>16. CASE UNCHANGED vars
  <2>1. UNCHANGED <<now, rows, keys, reqs, cron, faults, unheard>>
    BY <1>16 DEF vars
  <2>2. TypeOK' BY <2>1 DEF TypeOK, rows, keys, reqs, cron
  <2>3. Counted' BY <2>1, CountedStep
  <2>4. Fresh' BY <2>1, FreshStep DEF reqs, cron, InFlight
  <2> QED BY <2>2, <2>3, <2>4
<1> QED
  BY <1>1, <1>2, <1>3, <1>4, <1>5, <1>6, <1>7, <1>8, <1>9, <1>10, <1>11, <1>12, <1>13,
     <1>14, <1>15, <1>16 DEF Next, Handle, Reconcile

LEMMA Invariance == Spec => []IInv
BY InitInv, StepInv, PTL DEF Spec

-----------------------------------------------------------------------------
(* Rows follow keys.                                                       *)

\* Without a race, an UPDATE leaves in the row what the handler made of it.
LEMMA OutcomeIsWritten ==
  ASSUME NEW row \in Row, NEW u \in Row
  PROVE  Applied(row, Dirty(row, u)) = u
<1>1. /\ row.status \in Statuses /\ u.status \in Statuses
      /\ row.expires \in Nat /\ u.expires \in Nat
      /\ u = [status |-> u.status, expires |-> u.expires]
  BY DEF Row
<1> QED BY <1>1 DEF Dirty, Applied, Statuses

\* A verdict leaves the status or takes the row out of service; a later end is
\* the provider's.
LEMMA VerdictOfKey ==
  ASSUME NEW row \in Row, NEW i \in Answers
  PROVE  /\ Verdict(row, i).status \in {row.status, "deactivated", "expired"}
         /\ Verdict(row, i).expires = row.expires \/ Verdict(row, i).expires = i.until
         /\ Dirty(row, Verdict(row, i)).status \in {"keep", "deactivated", "expired"}
         /\ \/ Dirty(row, Verdict(row, i)).expires = -1
            \/ Dirty(row, Verdict(row, i)).expires = i.until
<1>1. row.status \in Statuses /\ row.expires \in Nat /\ i.until \in Nat
  BY DEF Row, Answers
<1>2. CASE i.state \in {"unknown", "suspended"}
  BY <1>1, <1>2 DEF Verdict, Dirty
<1>3. CASE i.state \notin {"unknown", "suspended"} /\ i.state # "active"
  BY <1>1, <1>3 DEF Verdict, Dirty
<1>4. CASE i.state = "active"
  BY <1>1, <1>4 DEF Verdict, Dirty
<1> QED BY <1>2, <1>3, <1>4

\* The provider reports no later end than the key has.
LEMMA AnswersOfKey ==
  ASSUME TypeOK, NEW s \in Subs, NEW i \in KeyInfo(s)
  PROVE  i.until <= until[s]
<1>1. until[s] \in Nat
  BY DEF TypeOK
<1> QED BY <1>1 DEF KeyInfo, NoAnswer

\* Nothing that Sync(s) depends on changes.
LEMMA SyncStays ==
  ASSUME NEW s \in Subs, Sync(s),
         status'[s] = status[s], expires'[s] = expires[s],
         state'[s] = state[s], until'[s] = until[s],
         now' = now \/ \A q \in Requests : ~Pending(q),
         \A q \in Requests : Target[q] = s =>
            /\ (Pending(q)' <=> Pending(q))
            /\ Pending(q) => op'[q] = op[q]
  PROVE  Sync(s)'
<1>1. (Calm(s)' => Calm(s)) /\ (Agrees(s) => Agrees(s)')
  BY DEF Calm, Agrees
<1>2. ASSUME NEW r \in Requests, Target[r] = s, Alone(r)' PROVE Reached(r)'
  <2>1. Pending(r) /\ Alone(r) /\ op'[r] = op[r]
    BY <1>2 DEF Alone
  <2>2. now' = now
    BY <2>1
  <2>3. Later(expires[s])' = Later(expires[s])
    BY <2>2 DEF Later
  <2> QED BY <1>2, <2>1, <2>3 DEF Reached, Sync
<1> QED BY <1>1, <1>2 DEF Sync

\* The end of a request that changed no key.
LEMMA EndIsQuiet ==
  ASSUME TypeOK, NEW r \in Requests, End(r)
  PROVE  /\ ~Pending(r)' /\ pc'[r] # "told"
         /\ \A q \in Requests \ {r} : Pending(q)' = Pending(q) /\ op'[q] = op[q]
                                      /\ pc'[q] = pc[q] /\ info'[q] = info[q]
BY DEF End, TypeOK, Pending

\* What is known of s stays so while its key does not end earlier and no answer
\* about it comes in.
LEMMA KnownStays ==
  ASSUME TypeOK, TypeOK', NEW s \in Subs, Known(s), until'[s] >= until[s],
         found'[s] = found[s] \/ found'[s] = Nothing,
         \A q \in Requests : Target[q] = s /\ pc'[q] = "told" /\ op'[q] = "recheck" =>
            pc[q] = "told" /\ op[q] = "recheck" /\ info'[q] = info[q]
  PROVE  Known(s)'
<1>1. until[s] \in Nat /\ until'[s] \in Nat /\ found[s] \in Update
  BY DEF TypeOK
<1>2. \A q \in Requests : info[q].until \in Nat
  BY DEF TypeOK, Answers
<1>3. found[s].expires \in Nat \cup {-1}
  BY <1>1 DEF Update
<1> QED BY <1>1, <1>2, <1>3 DEF Known, Nothing

LEMMA InitFollowed == Init => Followed
<1> SUFFICES ASSUME Init, NEW s \in Subs PROVE Known(s) /\ Sync(s)
  BY DEF Followed
<1>1. until[s] \in Nat /\ found[s] = Nothing
  BY SubscriptionAssumption DEF Init
<1> QED BY <1>1 DEF Init, Known, Sync, Calm, Agrees, Alone, Pending, Nothing

LEMMA FollowedStep == IInv /\ IInv' /\ Followed /\ [Next]_vars => Followed'
<1> SUFFICES ASSUME IInv, IInv', Followed, [Next]_vars, NEW s \in Subs, s \notin unheard'
             PROVE  Known(s)' /\ (~raced' => Sync(s)')
  BY DEF Followed
<1> USE DEF IInv
<1>a. /\ expires[s] \in Nat /\ until[s] \in Nat /\ now \in Nat /\ Days \in Nat \ {0}
      /\ \A r \in Requests : Target[r] \in Subs
  BY SubscriptionAssumption DEF TypeOK
<1>1. ASSUME Tick PROVE Known(s)' /\ (~raced' => Sync(s)')
  <2>1. /\ UNCHANGED <<rows, keys, reqs, cron, unheard>>
        /\ \A r \in Requests : ~Pending(r)
    BY <1>1 DEF Tick, Pending
  <2>2. Known(s) /\ (~raced' => Sync(s))
    BY <2>1 DEF Followed, rows
  <2>3. Known(s)'
    BY <1>a, <2>1, <2>2, KnownStays DEF keys, reqs, cron
  <2>4. ~raced' => Sync(s)'
    BY <2>1, <2>2, SyncStays DEF rows, keys, reqs, Pending
  <2> QED BY <2>3, <2>4
<1>2. ASSUME NEW r \in Requests, NEW o \in Ops, Load(r, o)
      PROVE  Known(s)' /\ (~raced' => Sync(s)')
  <2>1. UNCHANGED <<now, rows, keys, cron, unheard>> /\ pc[r] = "idle"
    BY <1>2 DEF Load
  <2>2. Known(s) /\ (~raced' => Sync(s))
    BY <2>1 DEF Followed, rows
  <2>3. /\ ~Pending(r) /\ ~Pending(r)' /\ pc'[r] # "told"
        /\ \A q \in Requests \ {r} : Pending(q)' = Pending(q) /\ op'[q] = op[q]
                                     /\ pc'[q] = pc[q] /\ info'[q] = info[q]
    <3>1. CASE End(r) BY <2>1, <3>1, EndIsQuiet DEF Pending
    <3>2. CASE ~End(r) BY <1>2, <3>2 DEF Load, Pending, TypeOK
    <3> QED BY <3>1, <3>2
  <2>4. Known(s)'
    BY <1>a, <2>1, <2>2, <2>3, KnownStays DEF keys, cron
  <2>5. \A q \in Requests : Target[q] = s =>
          /\ (Pending(q)' <=> Pending(q))
          /\ Pending(q) => op'[q] = op[q]
    BY <2>3
  <2>6. ~raced' => Sync(s)'
    BY <2>1, <2>2, <2>5, SyncStays DEF rows, keys
  <2> QED BY <2>4, <2>6
<1>3. ASSUME NEW r \in Requests, CallHeard(r) PROVE Known(s)' /\ (~raced' => Sync(s)')
  <2> DEFINE v == Target[r]
  <2>1. /\ UNCHANGED <<now, rows, bearer, op, mem, info, cron, unheard>>
        /\ pc[r] = "loaded" /\ op[r] # "recheck" /\ Accepts(v) /\ Perform(r)
        /\ pc' = [pc EXCEPT ![r] = "told"]
    BY <1>3 DEF CallHeard
  <2>2. Known(s) /\ (~raced' => Sync(s)) /\ v \in Subs
    BY <1>a, <2>1 DEF Followed, rows
  <2>3. /\ ~Pending(r) /\ Pending(r)'
        /\ \A q \in Requests \ {r} : Pending(q)' = Pending(q) /\ pc'[q] = pc[q]
    BY <2>1 DEF Pending, TypeOK
  <2>4. /\ s # v => until'[s] = until[s] /\ state'[s] = state[s]
        /\ until'[s] >= until[s]
        /\ s = v => /\ until'[s] = IF op[r] \in Extensions THEN Later(until[s]) ELSE until[s]
                    /\ state[s] # "deleted"
                    /\ op[r] \in Extensions => state'[s] = state[s]
                    /\ op[r] = "stop" => state'[s] = "suspended"
                    /\ op[r] = "resume" => state'[s] = "active"
    <3>1. until \in [Subs -> Nat] /\ state \in [Subs -> {"active", "suspended", "deleted"}]
      BY DEF TypeOK
    <3>2. until'[s] = IF s = v /\ op[r] \in Extensions THEN Later(until[s]) ELSE until[s]
      BY <2>1, <3>1 DEF Perform
    <3>3. /\ s # v => state'[s] = state[s]
          /\ s = v => /\ op[r] \in Extensions => state'[s] = state[s]
                      /\ op[r] = "stop" => state'[s] = "suspended"
                      /\ op[r] = "resume" => state'[s] = "active"
      BY <2>1, <3>1 DEF Perform, Extensions
    <3>4. Later(until[s]) >= until[s]
      BY <1>a DEF Later
    <3>5. s = v => state[s] # "deleted"
      BY <2>1 DEF Accepts
    <3> QED BY <1>a, <3>2, <3>3, <3>4, <3>5
  <2> HIDE DEF v
  <2>5. Known(s)'
    <3>1. \A q \in Requests : pc'[q] = "told" /\ op'[q] = "recheck" => pc[q] = "told"
      BY <2>1, <2>3
    <3> QED BY <2>1, <2>2, <2>4, <3>1, KnownStays DEF cron
  <2>6. ASSUME ~raced' PROVE Sync(s)'
    <3>1. status' = status /\ expires' = expires /\ op' = op /\ now' = now /\ Sync(s)
      BY <2>1, <2>2, <2>6 DEF rows
    <3>2. CASE s # v
      BY <2>3, <2>4, <3>1, <3>2, SyncStays DEF v
    <3>3. CASE s = v
      <4>1. ~Calm(s)'
        BY <2>3, <3>3 DEF Calm, v
      <4>2. ASSUME NEW q \in Requests, Target[q] = s, Alone(q)' PROVE Reached(q)'
        <5>1. q = r
          BY <2>3, <3>3, <4>2 DEF Alone, v
        <5>2. Calm(s)
          BY <2>3, <4>2, <5>1 DEF Calm, Alone
        <5>3. expires[s] = until[s]
          BY <3>1, <5>2 DEF Sync, Agrees
        <5> QED BY <2>4, <3>1, <3>3, <4>2, <5>1, <5>3 DEF Reached, Later
      <4> QED BY <4>1, <4>2 DEF Sync
    <3> QED BY <3>2, <3>3
  <2> QED BY <2>5, <2>6
<1>4. ASSUME NEW r \in Requests, CallFails(r) PROVE Known(s)' /\ (~raced' => Sync(s)')
  <2>1. UNCHANGED <<now, rows, cron>> /\ pc[r] = "loaded" /\ End(r)
    BY <1>4 DEF CallFails
  <2>2. s \notin unheard /\ until'[s] = until[s] /\ state'[s] = state[s]
    <3>1. CASE UNCHANGED <<keys, unheard>>
      BY <3>1 DEF keys
    <3>2. CASE Perform(r) /\ unheard' = unheard \cup {Target[r]}
      BY <3>2 DEF Perform, TypeOK
    <3> QED BY <1>4, <3>1, <3>2 DEF CallFails
  <2>3. Known(s) /\ (~raced' => Sync(s))
    BY <2>1, <2>2 DEF Followed, rows
  <2>4. ~Pending(r)
    BY <2>1 DEF Pending
  <2>5. Known(s)'
    BY <1>a, <2>1, <2>2, <2>3, EndIsQuiet, KnownStays DEF cron
  <2>6. \A q \in Requests : Target[q] = s =>
          /\ (Pending(q)' <=> Pending(q))
          /\ Pending(q) => op'[q] = op[q]
    BY <2>1, <2>4, EndIsQuiet
  <2>7. ~raced' => Sync(s)'
    BY <2>1, <2>2, <2>3, <2>6, SyncStays DEF rows
  <2> QED BY <2>5, <2>7
<1>5. ASSUME NEW r \in Requests, Ask(r) PROVE Known(s)' /\ (~raced' => Sync(s)')
  <2>1. /\ UNCHANGED <<now, rows, keys, op, cron, unheard>>
        /\ op[r] = "recheck" /\ pc' = [pc EXCEPT ![r] = "told"]
    BY <1>5 DEF Ask
  <2>2. PICK i \in KeyInfo(Target[r]) : info' = [info EXCEPT ![r] = i]
    BY <1>5 DEF Ask
  <2>3. Known(s) /\ (~raced' => Sync(s))
    BY <2>1 DEF Followed, rows
  <2>4. \A q \in Requests : Pending(q)' = Pending(q)
    BY <2>1 DEF Pending, TypeOK
  <2>5. Known(s)'
    <3>1. info'[r] = i /\ \A q \in Requests \ {r} : info'[q] = info[q] /\ pc'[q] = pc[q]
      BY <2>1, <2>2 DEF TypeOK
    <3>2. Target[r] = s => i.until <= until[s]
      BY <2>2, AnswersOfKey
    <3> QED BY <2>1, <2>3, <3>1, <3>2 DEF Known, keys, cron
  <2>6. ~raced' => Sync(s)'
    BY <2>1, <2>3, <2>4, SyncStays DEF rows, keys
  <2> QED BY <2>5, <2>6
<1>6. ASSUME NEW r \in Requests, Commit(r) PROVE Known(s)' /\ (~raced' => Sync(s)')
  <2> DEFINE v == Target[r]
             row == Applied(RowOf(v), Dirty(mem[r], Outcome(r)))
             watched == (\E q \in Requests \ {r} : Target[q] = v /\ InFlight(q)) \/ v \in todo
  <2>1. /\ pc[r] = "told" /\ ~Sent(v) /\ Write(v, row, watched, Crossed(r)) /\ End(r)
        /\ UNCHANGED <<now, keys, cron, unheard>>
    BY <1>6 DEF Commit
  <2>2. v \in Subs /\ mem[r] \in Row /\ RowOf(v) \in Row /\ Outcome(r) \in Row
    BY <1>a, OutcomeIsRow, RowsAreRows DEF TypeOK
  <2>3. Known(s) /\ (~raced => Sync(s))
    BY <2>1 DEF Followed
  <2>4. Known(s)'
    BY <1>a, <2>1, <2>3, EndIsQuiet, KnownStays DEF keys, cron
  <2>5. ASSUME ~raced' PROVE Sync(s)'
    <3>1. ~raced /\ ~Crossed(r) /\ (watched => row = RowOf(v))
      BY <2>1, <2>5 DEF Write, TypeOK, Crossed, Pending
    <3>2. row = Outcome(r) /\ mem[r] = RowOf(v)
      <4>1. mem[r] = RowOf(v)
        BY <2>1, <3>1 DEF Fresh, InFlight
      <4> QED BY <2>2, <4>1, OutcomeIsWritten
    <3>3. /\ status' = [status EXCEPT ![v] = row.status]
          /\ expires' = [expires EXCEPT ![v] = row.expires]
          /\ state' = state /\ until' = until /\ now' = now
      BY <2>1 DEF Write, keys
    <3>4. /\ ~Pending(r)'
          /\ \A q \in Requests \ {r} : Pending(q)' = Pending(q) /\ op'[q] = op[q]
      BY <2>1, EndIsQuiet
    <3>5. status \in [Subs -> Statuses] /\ expires \in [Subs -> Nat]
      BY DEF TypeOK
    <3>6. /\ mem[r].status = status[v] /\ mem[r].expires = expires[v]
      BY <2>2, <3>2, RowsAreRows
    <3> HIDE DEF v, row, watched
    <3>7. CASE s # v
      BY <2>3, <3>1, <3>3, <3>4, <3>5, <3>7, SyncStays DEF v
    <3>8. CASE s = v /\ Pending(r)
      <4>1. Alone(r)
        BY <3>1, <3>8 DEF Crossed, Alone, v
      <4>2. Reached(r)
        BY <2>3, <3>1, <3>8, <4>1 DEF Sync, v
      <4>3. Calm(s)'
        BY <3>4, <3>8, <4>1 DEF Calm, Alone, v
      <4>4. \A q \in Requests : Target[q] = s => ~Alone(q)'
        BY <4>3 DEF Calm, Alone
      <4>5. status'[s] = Outcome(r).status /\ expires'[s] = Outcome(r).expires
        BY <3>2, <3>3, <3>5, <3>8
      <4>6. Agrees(s)'
        <5>1. CASE op[r] \in Extensions
          BY <3>3, <3>6, <3>8, <4>2, <4>5, <5>1 DEF Agrees, Reached, Outcome, v
        <5>2. CASE op[r] \notin Extensions
          <6>1. op[r] # "recheck"
            BY <3>8 DEF Pending
          <6> QED BY <3>3, <3>6, <3>8, <4>2, <4>5, <5>2, <6>1 DEF Agrees, Reached, Outcome, v
        <5> QED BY <5>1, <5>2
      <4> QED BY <4>3, <4>4, <4>6 DEF Sync
    <3>9. CASE s = v /\ ~Pending(r)
      <4>1. op[r] = "recheck"
        BY <2>1, <3>9 DEF Pending
      <4>2. CASE row = RowOf(v)
        <5>1. row.status = status[s] /\ row.expires = expires[s]
          BY <3>9, <4>2, RowsAreRows
        <5>2. status'[s] = status[s] /\ expires'[s] = expires[s]
          BY <3>3, <3>5, <3>9, <5>1
        <5>3. \A q \in Requests : Target[q] = s =>
                /\ (Pending(q)' <=> Pending(q))
                /\ Pending(q) => op'[q] = op[q]
          BY <3>4, <3>9
        <5> QED BY <2>3, <3>1, <3>3, <5>2, <5>3, SyncStays
      <4>3. CASE row # RowOf(v)
        <5>1. Calm(s)
          BY <3>1, <3>9, <4>3 DEF Calm, watched, Pending, InFlight
        <5>2. Agrees(s)
          BY <2>3, <3>1, <5>1 DEF Sync
        <5>3. Outcome(r) = Verdict(mem[r], info[r])
          BY <4>1 DEF Outcome, Extensions
        <5>4. info[r].until \in Nat /\ info[r].until <= until[s] /\ info[r] \in Answers
          BY <2>1, <2>3, <3>9, <4>1 DEF Known, TypeOK, Answers, v
        <5>5. /\ row.status \in {status[s], "deactivated", "expired"}
              /\ row.expires >= expires[s]
              /\ row.expires = expires[s] \/ row.expires = info[r].until
          BY <2>2, <3>2, <3>6, <3>9, <5>3, <5>4, VerdictOfKey, VerdictIsRow
        <5>6. row.expires = expires[s]
          BY <1>a, <5>2, <5>4, <5>5 DEF Agrees
        <5>7. Agrees(s)'
          BY <3>3, <3>5, <3>9, <5>2, <5>5, <5>6 DEF Agrees
        <5>8. \A q \in Requests : Target[q] = s => ~Pending(q)'
          BY <3>4, <3>9, <5>1 DEF Calm
        <5> QED BY <5>7, <5>8 DEF Sync, Calm, Alone
      <4> QED BY <4>2, <4>3
    <3> QED BY <3>7, <3>8, <3>9
  <2> QED BY <2>4, <2>5
<1>7. ASSUME NEW r \in Requests, Crash(r) PROVE Known(s)' /\ (~raced' => Sync(s)')
  <2>1. /\ UNCHANGED <<now, rows, keys, cron>> /\ End(r) /\ InFlight(r)
        /\ unheard' = IF pc[r] = "told" THEN unheard \cup {Target[r]} ELSE unheard
    BY <1>7 DEF Crash
  <2>2. s \notin unheard /\ (Target[r] = s => ~Pending(r))
    BY <2>1 DEF Pending
  <2>3. Known(s) /\ (~raced' => Sync(s))
    BY <2>1, <2>2 DEF Followed, rows
  <2>4. Known(s)'
    BY <1>a, <2>1, <2>3, EndIsQuiet, KnownStays DEF keys, cron
  <2>5. \A q \in Requests : Target[q] = s =>
          /\ (Pending(q)' <=> Pending(q))
          /\ Pending(q) => op'[q] = op[q]
    BY <2>1, <2>2, EndIsQuiet
  <2>6. ~raced' => Sync(s)'
    BY <2>1, <2>3, <2>5, SyncStays DEF rows, keys
  <2> QED BY <2>4, <2>6
<1>8. ASSUME NEW v \in Subs, MarkExpired(v) PROVE Known(s)' /\ (~raced' => Sync(s)')
  <2> DEFINE row == [status |-> "expired", expires |-> expires[v]]
  <2>1. /\ status[v] = "active" /\ Write(v, row, Watched(v), FALSE)
        /\ UNCHANGED <<now, keys, reqs, cron, unheard>>
    BY <1>8 DEF MarkExpired
  <2>2. Known(s) /\ (~raced => Sync(s))
    BY <2>1 DEF Followed
  <2>3. Known(s)'
    BY <1>a, <2>1, <2>2, KnownStays DEF keys, reqs, cron
  <2>4. \A q \in Requests : Pending(q)' = Pending(q) /\ op'[q] = op[q]
    BY <2>1 DEF reqs, Pending
  <2>5. ASSUME ~raced' PROVE Sync(s)'
    <3>1. row # RowOf(v)
      BY <2>1 DEF RowOf
    <3>2. ~raced /\ ~Watched(v)
      BY <2>1, <2>5, <3>1 DEF Write, TypeOK, Watched
    <3>3. /\ status' = [status EXCEPT ![v] = "expired"]
          /\ expires' = [expires EXCEPT ![v] = expires[v]]
          /\ state' = state /\ until' = until /\ now' = now
      BY <2>1 DEF Write, keys
    <3>4. status \in [Subs -> Statuses] /\ expires \in [Subs -> Nat]
      BY DEF TypeOK
    <3>5. CASE s # v
      BY <2>2, <2>4, <3>2, <3>3, <3>4, <3>5, SyncStays
    <3>6. CASE s = v
      <4>1. Calm(s)
        BY <3>2, <3>6 DEF Calm, Watched, Pending, InFlight
      <4>2. Agrees(s)'
        BY <2>2, <3>2, <3>3, <3>4, <3>6, <4>1 DEF Sync, Agrees
      <4> QED BY <2>4, <4>1, <4>2 DEF Sync, Calm, Alone
    <3> QED BY <3>5, <3>6
  <2> QED BY <2>3, <2>5
<1>9. ASSUME BatchLoad \/ BatchDies \/ \E v \in Subs : BatchCheck(v) \/ BatchMiss(v)
      PROVE  Known(s)' /\ (~raced' => Sync(s)')
  <2>1. UNCHANGED <<now, rows, keys, reqs, unheard>>
    BY <1>9 DEF BatchLoad, BatchDies, BatchCheck, BatchMiss
  <2>2. Known(s) /\ (~raced' => Sync(s))
    BY <2>1 DEF Followed, rows
  <2>3. CASE found'[s] = found[s] \/ found'[s] = Nothing
    <3>1. Known(s)'
      BY <1>a, <2>1, <2>2, <2>3, KnownStays DEF keys, reqs
    <3>2. ~raced' => Sync(s)'
      BY <2>1, <2>2, SyncStays DEF rows, keys, reqs, Pending
    <3> QED BY <3>1, <3>2
  <2>4. CASE BatchCheck(s) /\ ~Forget
    <3>1. PICK i \in KeyInfo(s) : found' = [found EXCEPT ![s] = Dirty(seen[s], Verdict(seen[s], i))]
      BY <2>4 DEF BatchCheck
    <3>2. i \in Answers /\ seen[s] \in Row /\ i.until \in Nat /\ i.until <= until[s]
      BY KeyAnswers, AnswersOfKey DEF TypeOK, Answers
    <3>3. found'[s] = Dirty(seen[s], Verdict(seen[s], i))
      BY <3>1 DEF TypeOK
    <3>4. found'[s].expires <= until[s] /\ found'[s].status \in {"keep", "deactivated", "expired"}
      BY <1>a, <3>2, <3>3, VerdictOfKey
    <3>5. Known(s)'
      BY <2>1, <2>2, <3>4 DEF Known, keys, reqs
    <3>6. ~raced' => Sync(s)'
      BY <2>1, <2>2, SyncStays DEF rows, keys, reqs, Pending
    <3> QED BY <3>5, <3>6
  <2>5. \/ found'[s] = found[s] \/ found'[s] = Nothing
        \/ BatchCheck(s) /\ ~Forget
    <3>1. Forget => found'[s] = Nothing
      BY DEF Forget
    <3>2. BatchLoad => found' = found
      BY DEF BatchLoad
    <3>3. BatchDies => Forget
      BY DEF BatchDies
    <3>4. ASSUME NEW v \in Subs, BatchMiss(v) PROVE found' = found
      BY <3>4 DEF BatchMiss
    <3>5. ASSUME NEW v \in Subs, BatchCheck(v), ~Forget, v # s PROVE found'[s] = found[s]
      <4>1. PICK i \in KeyInfo(v) : found' = [found EXCEPT ![v] = Dirty(seen[v], Verdict(seen[v], i))]
        BY <3>5 DEF BatchCheck
      <4> QED BY <3>5, <4>1 DEF TypeOK
    <3> QED BY <1>9, <3>1, <3>2, <3>3, <3>4, <3>5
  <2> QED BY <2>3, <2>4, <2>5
<1>10. ASSUME BatchCommit PROVE Known(s)' /\ (~raced' => Sync(s)')
  <2> DEFINE new == [v \in Subs |-> Applied(RowOf(v), found[v])]
  <2>1. /\ status' = [v \in Subs |-> new[v].status]
        /\ expires' = [v \in Subs |-> new[v].expires]
        /\ raced' = (raced \/ \E v \in Subs : new[v] # RowOf(v) /\ Watched(v))
        /\ Forget /\ UNCHANGED <<now, keys, reqs, unheard>>
    BY <1>10 DEF BatchCommit
  <2>2. /\ new[s] = Applied(RowOf(s), found[s]) /\ RowOf(s) \in Row /\ found[s] \in Update
        /\ RowOf(s).status = status[s] /\ RowOf(s).expires = expires[s]
    BY RowsAreRows DEF TypeOK
  <2> HIDE DEF new
  <2>3. Known(s) /\ (~raced => Sync(s)) /\ found'[s] = Nothing
    BY <2>1 DEF Followed, Forget
  <2>4. Known(s)'
    BY <1>a, <2>1, <2>3, KnownStays DEF keys, reqs
  <2>5. ASSUME ~raced' PROVE Sync(s)'
    <3>1. ~raced /\ (Watched(s) => new[s] = RowOf(s))
      BY <2>1, <2>5
    <3>2. status'[s] = new[s].status /\ expires'[s] = new[s].expires
      BY <2>1
    <3>3. \A q \in Requests : Pending(q)' = Pending(q) /\ op'[q] = op[q]
      BY <2>1 DEF reqs, Pending
    <3>4. CASE new[s] = RowOf(s)
      BY <2>1, <2>2, <2>3, <3>1, <3>2, <3>3, <3>4, SyncStays DEF keys
    <3>5. CASE ~Watched(s)
      <4>1. Calm(s)
        BY <3>5 DEF Calm, Watched, Pending, InFlight
      <4>2. Agrees(s)
        BY <2>3, <3>1, <4>1 DEF Sync
      <4>3. found[s].expires \in Nat \cup {-1} /\ found[s].expires <= until[s]
            /\ (found[s].expires = -1 \/ found[s].expires >= expires[s])
            /\ found[s].status \in {"keep", "deactivated", "expired"}
        BY <2>2, <2>3, <3>1 DEF Fresh, Known, Update
      <4>4. expires'[s] = expires[s]
        <5>1. found[s].expires = -1 \/ found[s].expires = expires[s]
          BY <1>a, <4>2, <4>3 DEF Agrees
        <5> QED BY <2>2, <3>2, <5>1 DEF Applied
      <4>5. status'[s] \in {status[s], "deactivated", "expired"}
        BY <2>2, <3>2, <4>3 DEF Applied
      <4>6. Agrees(s)'
        BY <2>1, <4>2, <4>4, <4>5 DEF Agrees, keys
      <4> QED BY <3>3, <4>1, <4>6 DEF Sync, Calm, Alone
    <3> QED BY <3>1, <3>4, <3>5
  <2> QED BY <2>4, <2>5
<1>11. ASSUME BearerDies \/ UNCHANGED vars PROVE Known(s)' /\ (~raced' => Sync(s)')
  <2>1. UNCHANGED <<now, rows, state, until, reqs, cron, unheard>>
    BY <1>11 DEF BearerDies, vars, keys
  <2>2. Known(s) /\ (~raced' => Sync(s))
    BY <2>1 DEF Followed, rows
  <2>3. Known(s)'
    BY <1>a, <2>1, <2>2, KnownStays DEF reqs, cron
  <2>4. ~raced' => Sync(s)'
    BY <2>1, <2>2, SyncStays DEF rows, reqs, Pending
  <2> QED BY <2>3, <2>4
<1>12. ASSUME NEW v \in Subs, OutOfBand(v) PROVE Known(s)' /\ (~raced' => Sync(s)')
  <2>1. UNCHANGED <<now, rows, reqs, cron>> /\ unheard' = unheard \cup {v}
    BY <1>12 DEF OutOfBand
  <2>2. until'[s] = until[s] /\ state'[s] = state[s]
    BY <1>12, <2>1 DEF OutOfBand, TypeOK
  <2>3. Known(s) /\ (~raced' => Sync(s))
    BY <2>1 DEF Followed, rows
  <2>4. Known(s)'
    BY <1>a, <2>1, <2>2, <2>3, KnownStays DEF reqs, cron
  <2>5. ~raced' => Sync(s)'
    BY <2>1, <2>2, <2>3, SyncStays DEF rows, reqs, Pending
  <2> QED BY <2>4, <2>5
<1> QED
  BY <1>1, <1>2, <1>3, <1>4, <1>5, <1>6, <1>7, <1>8, <1>9, <1>10, <1>11, <1>12
  DEF Next, Handle, Reconcile

-----------------------------------------------------------------------------
\* Rows, keys, requests and the batch keep their types.
THEOREM TypeCorrect == Spec => []TypeOK
BY Invariance, PTL DEF IInv

\* However many keys are unknown in a row and in all, and whichever answers lie in
\* between, a batch disowns at most Threshold - 1 rows for each row with another
\* outcome, and as many more.
THEOREM FleetIsSpared == Spec => []BreakerSpares
<1>1. IInv => BreakerSpares
  <2> SUFFICES ASSUME IInv PROVE BreakerSpares OBVIOUS
  <2>1. IsFiniteSet(disowned) /\ Cardinality(disowned) \in Nat /\ gaps \in Nat /\ invalid \in Nat
    BY SubscriptionAssumption, FS_Subset, FS_CardinalityType DEF IInv, TypeOK
  <2>2. /\ (Threshold - 1) * (gaps + 1) = (Threshold - 1) * gaps + (Threshold - 1)
        /\ (Threshold - 1) * gaps \in Nat /\ Threshold \in Nat \ {0}
    BY <2>1, SubscriptionAssumption, Room
  <2> QED BY <2>1, <2>2 DEF IInv, Counted, BreakerSpares
<1> QED BY Invariance, <1>1, PTL

\* Extensions, the admin's requests, the crons and the provider in any order:
\* expires_at moves forward only, unless a session wrote under another's snapshot.
THEOREM PaidTimeIsKept == Spec => TimeNeverShrinks
<1> DEFINE Kept == ~raced' => \A s \in Subs : expires'[s] >= expires[s]
<1>1. IInv /\ [Next]_vars => [Kept]_vars
  <2> SUFFICES ASSUME IInv, Next, ~raced', NEW v \in Subs PROVE expires'[v] >= expires[v]
    OBVIOUS
  <2> USE DEF IInv
  <2>0. expires \in [Subs -> Nat]
    BY DEF TypeOK
  <2>1. CASE expires' = expires
    BY <2>0, <2>1
  <2>2. ASSUME NEW r \in Requests, Commit(r) PROVE expires'[v] >= expires[v]
    <3> DEFINE s == Target[r]
    <3>1. s \in Subs /\ mem[r] \in Row /\ Outcome(r) \in Row
          /\ Outcome(r).expires >= mem[r].expires /\ Outcome(r).expires \in Nat
      BY SubscriptionAssumption, OutcomeIsRow DEF TypeOK, Row
    <3>2. /\ expires' = [expires EXCEPT ![s] = Applied(RowOf(s), Dirty(mem[r], Outcome(r))).expires]
          /\ ~raced /\ InFlight(r)
      BY <2>2 DEF Commit, Write, InFlight, TypeOK
    <3>3. mem[r] = RowOf(s)
      BY <3>2 DEF Fresh
    <3>4. Applied(RowOf(s), Dirty(mem[r], Outcome(r))).expires = Outcome(r).expires
      BY <3>1, <3>3, DirtyUpdates
    <3>5. mem[r].expires = expires[s]
      BY <3>1, <3>3, RowsAreRows
    <3> QED BY <2>0, <3>1, <3>2, <3>4, <3>5
  <2>3. ASSUME NEW s \in Subs, MarkExpired(s) PROVE expires' = expires
    BY <2>0, <2>3 DEF MarkExpired, Write
  <2>4. ASSUME BatchCommit PROVE expires'[v] >= expires[v]
    <3>1. expires'[v] = Applied(RowOf(v), found[v]).expires /\ ~raced
      BY <2>4 DEF BatchCommit, TypeOK
    <3>2. found[v] \in Update /\ RowOf(v) \in Row /\ RowOf(v).expires = expires[v]
      BY RowsAreRows DEF TypeOK
    <3>3. found[v].expires = -1 \/ found[v].expires >= expires[v]
      BY <3>1 DEF Fresh
    <3>4. \/ expires'[v] = expires[v]
          \/ found[v].expires # -1 /\ expires'[v] = found[v].expires
      BY <3>1, <3>2, AppliedIsRow
    <3> QED BY <2>0, <3>3, <3>4
  <2>5. ASSUME NEW r \in Requests,
               \/ CallHeard(r) \/ CallFails(r) \/ Ask(r) \/ Crash(r) \/ \E o \in Ops : Load(r, o)
        PROVE expires' = expires
    BY <2>5 DEF CallHeard, CallFails, Ask, Crash, Load, rows
  <2>6. ASSUME Tick \/ BatchLoad \/ BatchDies \/ BearerDies PROVE expires' = expires
    BY <2>6 DEF Tick, BatchLoad, BatchDies, BearerDies, rows
  <2>7. ASSUME NEW s \in Subs, BatchCheck(s) \/ BatchMiss(s) \/ OutOfBand(s)
        PROVE expires' = expires
    BY <2>7 DEF BatchCheck, BatchMiss, OutOfBand, rows
  <2> QED
    BY <2>1, <2>2, <2>3, <2>4, <2>5, <2>6, <2>7 DEF Next, Handle, Reconcile
<1> QED BY Invariance, <1>1, PTL DEF Spec, TimeNeverShrinks

\* Any number of requests, batches and crons, and any losses: without a race, a row
\* whose key changed only by calls that were heard agrees with it when nobody works
\* on either.
THEOREM RowsFollowKeys == Spec => []RowMatchesKey
<1>1. IInv /\ Followed => RowMatchesKey
  <2> SUFFICES ASSUME Followed, ~raced, NEW s \in Subs \ unheard, AtRest(s)
               PROVE  Agrees(s)
    BY DEF RowMatchesKey, Agrees
  <2>1. Calm(s)
    BY DEF AtRest, Watched, Calm, Pending, InFlight
  <2> QED BY <2>1 DEF Followed, Sync
<1> QED BY Invariance, InitFollowed, FollowedStep, <1>1, PTL DEF Spec

-----------------------------------------------------------------------------
(***************************************************************************)
(* Notices.  Time is counted in steps of ten minutes, an hour is six.      *)
(*                                                                         *)
(* An expiry is announced because no row stays active over the mark that   *)
(* follows its end (MarkedInTime), and a marked row waits for the next     *)
(* cron only, which still finds it (AnnouncedNext).  A reminder's window   *)
(* holds two starts of its cron, each of which either finds the row, which *)
(* is active until its end (EndedFirst), or is missed (RemindedOr).        *)
(***************************************************************************)
\* The worker has missed neither a mark nor an announcement.
Up == missed["mark"] + missed["expired"] = 0

\* The cron of minute t has had its turn.
Passed(t) == t < clock \/ ran

Unheeded(k, s) == k \notin sent[s]

\* What is active has not ended before a mark that was made.
MarkedInTime ==
    Up => \A s \in Subs : \A t \in 0..clock :
        t % 6 = 4 /\ Passed(t) /\ mark[s] = "active" => ends[s] >= t

\* What is marked and not announced was marked ten minutes ago at most, and the
\* announcing cron is the next to run.
AnnouncedNext ==
    Up /\ "expired" \notin cutoff =>
        \A s \in Subs : mark[s] = "expired" /\ Unheeded("expired", s) =>
            \/ clock % 6 = 4 /\ ran /\ ends[s] >= clock - 6
            \/ clock % 6 = 5 /\ ~ran /\ ends[s] >= clock - 7

\* What is marked has ended; what was not extended ends as it was bought.
EndedFirst ==
    \A s \in Subs : /\ mark[s] = "expired" => ends[s] < clock
                    /\ extended[s] = 0 => ends[s] = Ends[s]

\* When the window of the reminder opens; it closes two hours later.
Opens(s) == ends[s] - Ahead["expiry_3d"] - 6

\* What was not reminded in its window: each start of the cron in it was missed.
RemindedOr ==
    "expiry_3d" \notin cutoff =>
        \A s \in Subs : extended[s] = 0 /\ Opens(s) >= 0 /\ Unheeded("expiry_3d", s) =>
            \A t \in 0..clock :
                t % 6 = 2 /\ Passed(t) /\ Opens(s) <= t /\ t <= Opens(s) + 12 =>
                    /\ missed["expiry_3d"] > 0
                    /\ t >= Opens(s) + 6 => missed["expiry_3d"] > 1

\* No notice is queued without its guard row, and none twice.
Guarded ==
    /\ \A n \in queued : n[2] \in sent[n[1]]
    /\ N!OncePerKind

NoticesInv ==
    N!TypeOK /\ MarkedInTime /\ AnnouncedNext /\ EndedFirst /\ RemindedOr /\ Guarded

LEMMA NoticesInit == N!Init => NoticesInv
<1> SUFFICES ASSUME N!Init PROVE NoticesInv OBVIOUS
<1> USE LifecycleAssumption DEF N!NoticesAssumption, N!Init, N!Reminders
<1>1. N!TypeOK BY DEF N!TypeOK, N!Kinds, N!Crons
<1>2. MarkedInTime /\ AnnouncedNext BY DEF MarkedInTime, AnnouncedNext
<1>3. EndedFirst BY DEF EndedFirst
<1>4. RemindedOr BY DEF RemindedOr, Passed
<1>5. Guarded BY DEF Guarded, N!OncePerKind
<1> QED BY <1>1, <1>2, <1>3, <1>4, <1>5 DEF NoticesInv

\* Time passes only when the cron of this minute has had its turn.
LEMMA TickNotices == NoticesInv /\ N!Tick => NoticesInv'
<1> SUFFICES ASSUME NoticesInv, N!Tick PROVE NoticesInv' OBVIOUS
<1> USE LifecycleAssumption DEF N!NoticesAssumption, N!Reminders
<1>0. /\ clock \in Nat /\ clock' = clock + 1 /\ ran' = FALSE /\ ends \in [Subs -> Nat]
      /\ UNCHANGED <<mark, ends, sent, queued, promos, extended, missed, cutoff>>
  BY DEF NoticesInv, N!Tick, N!TypeOK
<1>1. N!TypeOK'
  <2>1. N!TypeOK BY DEF NoticesInv
  <2>2. clock' \in Nat BY <1>0
  <2>3. ran' \in BOOLEAN BY <1>0
  <2> QED BY <1>0, <2>1, <2>2, <2>3 DEF N!TypeOK
<1>2. clock % 6 \in 2..5 => ran
  BY <1>0 DEF N!Tick, N!Due, N!Crons, N!Minute, N!Hour
<1>3. MarkedInTime'
  <2> SUFFICES ASSUME Up, NEW s \in Subs, NEW t \in 0..(clock+1), t % 6 = 4, t < clock + 1, mark[s] = "active"
               PROVE ends[s] >= t
    BY <1>0 DEF MarkedInTime, Passed, Up
  <2>1. t \in 0..clock /\ (t < clock \/ ran) BY <1>0, <1>2
  <2> QED BY <2>1 DEF NoticesInv, MarkedInTime, Passed
<1>4. AnnouncedNext'
  <2> SUFFICES ASSUME Up, "expired" \notin cutoff, NEW s \in Subs, mark[s] = "expired", Unheeded("expired", s)
               PROVE (clock + 1) % 6 = 5 /\ ends[s] >= clock + 1 - 7
    BY <1>0 DEF AnnouncedNext, Unheeded, Up
  <2>1. \/ clock % 6 = 4 /\ ran /\ ends[s] >= clock - 6
        \/ clock % 6 = 5 /\ ~ran /\ ends[s] >= clock - 7
    BY DEF NoticesInv, AnnouncedNext
  <2>2. ends[s] \in Nat BY <1>0
  <2> QED BY <1>0, <1>2, <2>1, <2>2
<1>5. EndedFirst' BY <1>0 DEF NoticesInv, EndedFirst
<1>6. RemindedOr'
  <2> SUFFICES ASSUME "expiry_3d" \notin cutoff,
                      NEW s \in Subs, extended[s] = 0, Opens(s) >= 0, Unheeded("expiry_3d", s),
                      NEW t \in 0..(clock + 1), t % 6 = 2, t < clock + 1,
                      Opens(s) <= t, t <= Opens(s) + 12
               PROVE  /\ missed["expiry_3d"] > 0
                      /\ t >= Opens(s) + 6 => missed["expiry_3d"] > 1
    BY <1>0 DEF RemindedOr, Passed, Opens, Unheeded
  <2>1. t \in 0..clock /\ Passed(t) BY <1>0, <1>2 DEF Passed
  <2> QED BY <2>1 DEF NoticesInv, RemindedOr
<1>7. Guarded' BY <1>0 DEF NoticesInv, Guarded, N!OncePerKind
<1> QED BY <1>1, <1>3, <1>4, <1>5, <1>6, <1>7 DEF NoticesInv

\* A missed start costs the one before it: then two were missed.
LEMMA MissNotices == NoticesInv /\ (\E c \in N!Crons : N!Miss(c)) => NoticesInv'
<1> SUFFICES ASSUME NoticesInv, NEW c \in N!Crons, N!Miss(c) PROVE NoticesInv' OBVIOUS
<1> USE LifecycleAssumption DEF N!NoticesAssumption, N!Reminders, N!Hour
<1>1. N!TypeOK BY DEF NoticesInv
<1>2. /\ clock \in Nat /\ ends \in [Subs -> Nat] /\ missed \in [N!Crons -> Nat]
      /\ missed' = [missed EXCEPT ![c] = @ + 1] /\ ran' = TRUE
      /\ UNCHANGED <<clock, mark, ends, sent, queued, promos, extended, cutoff>>
  BY <1>1 DEF N!Miss, N!TypeOK
<1>3. ~ran /\ clock % 6 = N!Minute[c] BY DEF N!Miss, N!Due
<1>4. missed' \in [N!Crons -> Nat] BY <1>2
<1>5. N!TypeOK'
  <2>1. ran' \in BOOLEAN BY <1>2
  <2> QED BY <1>1, <1>2, <1>4, <2>1 DEF N!TypeOK
<1>6. Up' => Up /\ c \notin {"mark", "expired"}
  BY <1>2, <1>4 DEF Up, N!Crons
<1>7. MarkedInTime'
  <2> SUFFICES ASSUME Up', NEW s \in Subs, NEW t \in 0..clock, t % 6 = 4, mark[s] = "active"
               PROVE ends[s] >= t
    BY <1>2 DEF MarkedInTime, Passed
  <2>1. t < clock BY <1>2, <1>3, <1>6 DEF N!Crons, N!Minute
  <2> QED BY <1>6, <2>1 DEF NoticesInv, MarkedInTime, Passed
<1>8. AnnouncedNext'
  <2> SUFFICES ASSUME Up', "expired" \notin cutoff, NEW s \in Subs, mark[s] = "expired", Unheeded("expired", s)
               PROVE FALSE
    BY <1>2 DEF AnnouncedNext, Unheeded
  <2>1. clock % 6 = 5 BY <1>3, <1>6 DEF NoticesInv, AnnouncedNext
  <2> QED BY <2>1, <1>3, <1>6 DEF N!Crons, N!Minute
<1>9. EndedFirst' BY <1>2 DEF NoticesInv, EndedFirst
<1>10. RemindedOr'
  <2> SUFFICES ASSUME "expiry_3d" \notin cutoff,
                      NEW s \in Subs, extended[s] = 0, Opens(s) >= 0, Unheeded("expiry_3d", s),
                      NEW t \in 0..clock, t % 6 = 2, Opens(s) <= t, t <= Opens(s) + 12
               PROVE  /\ missed'["expiry_3d"] > 0
                      /\ t >= Opens(s) + 6 => missed'["expiry_3d"] > 1
    BY <1>2 DEF RemindedOr, Passed, Opens, Unheeded
  <2>0. Opens(s) \in Int BY <1>2 DEF Opens
  <2>1. missed["expiry_3d"] \in Nat /\ missed'["expiry_3d"] \in Nat /\ missed'["expiry_3d"] >= missed["expiry_3d"]
    BY <1>2, <1>4 DEF N!Crons
  <2>2. CASE t < clock BY <2>1, <2>2 DEF NoticesInv, RemindedOr, Passed
  <2>3. CASE t = clock
    <3>1. c = "expiry_3d" BY <1>3, <2>3 DEF N!Crons, N!Minute
    <3>2. missed'["expiry_3d"] = missed["expiry_3d"] + 1 BY <1>2, <3>1
    <3>3. ASSUME t >= Opens(s) + 6 PROVE missed["expiry_3d"] > 0
      <4>1. /\ t - 6 \in 0..clock /\ (t - 6) % 6 = 2 /\ t - 6 < clock
            /\ Opens(s) <= t - 6 /\ t - 6 <= Opens(s) + 12
        BY <2>0, <2>3, <3>3, <1>2
      <4> QED BY <4>1 DEF NoticesInv, RemindedOr, Passed
    <3> QED BY <2>1, <3>2, <3>3
  <2> QED BY <2>2, <2>3, <1>2
<1>11. Guarded' BY <1>2 DEF NoticesInv, Guarded, N!OncePerKind
<1> QED BY <1>5, <1>7, <1>8, <1>9, <1>10, <1>11 DEF NoticesInv

LEMMA MarkNotices == NoticesInv /\ N!MarkExpired => NoticesInv'
<1> SUFFICES ASSUME NoticesInv, N!MarkExpired PROVE NoticesInv' OBVIOUS
<1> USE LifecycleAssumption DEF N!NoticesAssumption, N!Reminders, N!Hour
<1>1. N!TypeOK BY DEF NoticesInv
<1>2. /\ clock \in Nat /\ ends \in [Subs -> Nat] /\ missed \in [N!Crons -> Nat]
      /\ mark \in [Subs -> {"active", "expired"}]
      /\ UNCHANGED <<clock, ends, sent, queued, promos, extended, missed, cutoff>>
  BY <1>1 DEF N!MarkExpired, N!TypeOK
<1>3. ~ran /\ clock % 6 = 4 /\ ran' = TRUE BY DEF N!MarkExpired, N!Due, N!Minute
<1>4. \A s \in Subs :
        mark'[s] = IF mark[s] = "active" /\ ends[s] < clock THEN "expired" ELSE mark[s]
  BY DEF N!MarkExpired
<1>5. N!TypeOK'
  <2>1. ran' \in BOOLEAN BY <1>3
  <2>2. mark' \in [Subs -> {"active", "expired"}] BY <1>2 DEF N!MarkExpired
  <2> QED BY <1>1, <1>2, <2>1, <2>2 DEF N!TypeOK
<1>6. MarkedInTime'
  <2> SUFFICES ASSUME NEW s \in Subs, NEW t \in 0..clock, mark'[s] = "active"
               PROVE ends[s] >= t
    BY <1>2 DEF MarkedInTime, Passed
  <2>1. ends[s] >= clock BY <1>2, <1>4
  <2> QED BY <2>1, <1>2
<1>7. AnnouncedNext'
  <2> SUFFICES ASSUME Up, "expired" \notin cutoff, NEW s \in Subs, mark'[s] = "expired", Unheeded("expired", s)
               PROVE ends[s] >= clock - 6
    BY <1>2, <1>3 DEF AnnouncedNext, Unheeded, Up
  <2>1. mark[s] = "active"
    <3>1. mark[s] = "expired" => (clock % 6 = 4 /\ ran) \/ clock % 6 = 5
      BY DEF NoticesInv, AnnouncedNext
    <3> QED BY <1>2, <1>3, <3>1
  <2>2. CASE clock < 6 BY <1>2, <2>2
  <2>3. CASE clock >= 6
    <3>1. clock - 6 \in 0..clock /\ (clock - 6) % 6 = 4 /\ clock - 6 < clock BY <1>2, <1>3, <2>3
    <3> QED BY <2>1, <3>1 DEF NoticesInv, MarkedInTime, Passed
  <2> QED BY <2>2, <2>3, <1>2
<1>8. EndedFirst' BY <1>2, <1>4 DEF NoticesInv, EndedFirst
<1>9. RemindedOr'
  <2> SUFFICES ASSUME "expiry_3d" \notin cutoff,
                      NEW s \in Subs, extended[s] = 0, Opens(s) >= 0, Unheeded("expiry_3d", s),
                      NEW t \in 0..clock, t % 6 = 2, Opens(s) <= t, t <= Opens(s) + 12
               PROVE  /\ missed["expiry_3d"] > 0
                      /\ t >= Opens(s) + 6 => missed["expiry_3d"] > 1
    BY <1>2 DEF RemindedOr, Passed, Opens, Unheeded
  <2>1. t < clock BY <1>2, <1>3
  <2> QED BY <2>1 DEF NoticesInv, RemindedOr, Passed
<1>10. Guarded' BY <1>2 DEF NoticesInv, Guarded, N!OncePerKind
<1> QED BY <1>5, <1>6, <1>7, <1>8, <1>9, <1>10 DEF NoticesInv

LEMMA ExtendNotices == NoticesInv /\ (\E s \in Subs : N!Extend(s)) => NoticesInv'
<1> SUFFICES ASSUME NoticesInv, NEW x \in Subs, N!Extend(x) PROVE NoticesInv' OBVIOUS
<1> USE LifecycleAssumption DEF N!NoticesAssumption, N!Reminders, N!Hour
<1>1. N!TypeOK BY DEF NoticesInv
<1>2. /\ clock \in Nat /\ ends \in [Subs -> Nat] /\ extended \in [Subs -> Nat]
      /\ mark \in [Subs -> {"active", "expired"}]
      /\ UNCHANGED <<clock, ran, sent, queued, promos, missed, cutoff>>
  BY <1>1 DEF N!Extend, N!TypeOK
<1>3. /\ extended' \in [Subs -> Nat] /\ extended'[x] # 0
      /\ \A s \in Subs \ {x} : extended'[s] = extended[s]
  BY <1>2 DEF N!Extend
<1>4. /\ mark' \in [Subs -> {"active", "expired"}] /\ mark'[x] = "active"
      /\ \A s \in Subs \ {x} : mark'[s] = mark[s]
  BY <1>2 DEF N!Extend
<1>5. /\ ends' \in [Subs -> Nat] /\ ends'[x] >= clock
      /\ \A s \in Subs \ {x} : ends'[s] = ends[s]
  <2> DEFINE e == (IF ends[x] > clock THEN ends[x] ELSE clock) + Longer
  <2>1. e \in Nat /\ e >= clock BY <1>2
  <2>2. ends' = [ends EXCEPT ![x] = e] BY DEF N!Extend
  <2> HIDE DEF e
  <2> QED BY <1>2, <2>1, <2>2
<1>6. N!TypeOK' BY <1>1, <1>2, <1>3, <1>4, <1>5 DEF N!TypeOK
<1>7. MarkedInTime'
  <2> SUFFICES ASSUME Up, NEW s \in Subs, NEW t \in 0..clock, t % 6 = 4, Passed(t), mark'[s] = "active"
               PROVE ends'[s] >= t
    BY <1>2 DEF MarkedInTime, Passed, Up
  <2>1. CASE s = x BY <1>2, <1>5, <2>1
  <2>2. CASE s # x BY <1>4, <1>5, <2>2 DEF NoticesInv, MarkedInTime
  <2> QED BY <2>1, <2>2
<1>8. AnnouncedNext'
  <2> SUFFICES ASSUME Up, "expired" \notin cutoff, NEW s \in Subs, mark'[s] = "expired", Unheeded("expired", s)
               PROVE \/ clock % 6 = 4 /\ ran /\ ends'[s] >= clock - 6
                     \/ clock % 6 = 5 /\ ~ran /\ ends'[s] >= clock - 7
    BY <1>2 DEF AnnouncedNext, Unheeded, Up
  <2>1. mark[s] = "expired" /\ ends'[s] = ends[s] BY <1>4, <1>5
  <2> QED BY <2>1 DEF NoticesInv, AnnouncedNext
<1>9. EndedFirst' BY <1>2, <1>3, <1>4, <1>5 DEF NoticesInv, EndedFirst
<1>10. RemindedOr'
  <2> SUFFICES ASSUME "expiry_3d" \notin cutoff,
                      NEW s \in Subs, extended'[s] = 0, Opens(s)' >= 0, Unheeded("expiry_3d", s),
                      NEW t \in 0..clock, t % 6 = 2, Passed(t), Opens(s)' <= t, t <= Opens(s)' + 12
               PROVE  /\ missed["expiry_3d"] > 0
                      /\ t >= Opens(s)' + 6 => missed["expiry_3d"] > 1
    BY <1>2 DEF RemindedOr, Passed, Unheeded
  <2>1. extended[s] = 0 /\ Opens(s)' = Opens(s) BY <1>3, <1>5 DEF Opens
  <2> QED BY <2>1 DEF NoticesInv, RemindedOr
<1>11. Guarded' BY <1>2 DEF NoticesInv, Guarded, N!OncePerKind
<1> QED BY <1>6, <1>7, <1>8, <1>9, <1>10, <1>11 DEF NoticesInv

\* What a notifying cron does to the row of s.
LEMMA NotifyFacts ==
    ASSUME N!TypeOK, NEW k \in N!Kinds, N!Notify(k)
    PROVE  /\ clock \in Nat /\ ends \in [Subs -> Nat]
           /\ ~ran /\ clock % 6 = N!Minute[k] /\ ran' = TRUE
           /\ UNCHANGED <<clock, mark, ends, extended, missed>>
           /\ cutoff \subseteq cutoff' /\ cutoff' \subseteq N!Kinds
           /\ sent' \in [Subs -> SUBSET N!Kinds]
           /\ \A s \in Subs : /\ sent[s] \subseteq sent'[s] /\ sent'[s] \subseteq sent[s] \cup {k}
                              /\ k \notin cutoff' /\ s \in N!Found(k) => k \in sent'[s]
           /\ \A n \in queued' : \/ n \in queued
                                 \/ /\ n \in Subs \X N!Kinds \X Nat /\ n[2] = k
                                    /\ n = <<n[1], k, ends[n[1]]>>
                                    /\ k \notin sent[n[1]] /\ k \in sent'[n[1]]
           /\ promos' \subseteq TrialSubs
<1>1. /\ clock \in Nat /\ ends \in [Subs -> Nat] /\ sent \in [Subs -> SUBSET N!Kinds]
      /\ cutoff \subseteq N!Kinds /\ promos \subseteq TrialSubs
  BY DEF N!TypeOK
<1>2. PICK B \in SUBSET Subs :
        /\ N!Taken(k, B)
        /\ sent' = [s \in Subs |-> IF s \in B THEN sent[s] \cup {k} ELSE sent[s]]
        /\ queued' = queued \cup {<<s, k, ends[s]>> : s \in B}
        /\ promos' = IF k = "trial_expiring_24h"
                     THEN promos \cup {s \in B : ~N!HasAutoDiscount(s)} ELSE promos
        /\ cutoff' = IF B # N!Found(k) THEN cutoff \cup {k} ELSE cutoff
  BY DEF N!Notify
<1>3. B \subseteq N!Found(k) BY <1>2 DEF N!Taken
<1>4. ~ran /\ clock % 6 = N!Minute[k] /\ UNCHANGED <<clock, mark, ends, extended, missed>>
  BY DEF N!Notify, N!Due, N!Hour
<1>5. ran' = TRUE BY DEF N!Notify
<1>6. sent' \in [Subs -> SUBSET N!Kinds] BY <1>1, <1>2
<1>7. \A s \in Subs : /\ sent[s] \subseteq sent'[s] /\ sent'[s] \subseteq sent[s] \cup {k}
                      /\ s \in B => k \in sent'[s]
  BY <1>1, <1>2
<1>8. cutoff \subseteq cutoff' /\ cutoff' \subseteq N!Kinds /\ (k \notin cutoff' => B = N!Found(k))
  BY <1>1, <1>2
<1>9. \A n \in queued' : \/ n \in queued
                         \/ /\ n \in Subs \X N!Kinds \X Nat /\ n[2] = k
                            /\ n = <<n[1], k, ends[n[1]]>>
                            /\ k \notin sent[n[1]] /\ k \in sent'[n[1]]
  <2> SUFFICES ASSUME NEW s \in B
               PROVE  /\ <<s, k, ends[s]>> \in Subs \X N!Kinds \X Nat
                      /\ k \notin sent[s] /\ k \in sent'[s]
    BY <1>2
  <2>1. k \notin sent[s] BY <1>3 DEF N!Found
  <2> QED BY <1>1, <1>2, <1>7, <2>1
<1>10. promos' \subseteq TrialSubs
  <2>1. CASE k = "trial_expiring_24h"
    <3>1. B \subseteq TrialSubs BY <1>3, <2>1 DEF N!Found, N!InWindow
    <3> QED BY <1>1, <1>2, <2>1, <3>1
  <2>2. CASE k # "trial_expiring_24h" BY <1>1, <1>2, <2>2
  <2> QED BY <2>1, <2>2
<1>11. \A s \in Subs : k \notin cutoff' /\ s \in N!Found(k) => k \in sent'[s] BY <1>7, <1>8
<1> HIDE DEF N!Kinds, N!Minute, N!Found
<1> QED BY <1>1, <1>4, <1>5, <1>6, <1>7, <1>8, <1>9, <1>10, <1>11

LEMMA NotifyNotices == NoticesInv /\ (\E k \in N!Kinds : N!Notify(k)) => NoticesInv'
<1> SUFFICES ASSUME NoticesInv, NEW k \in N!Kinds, N!Notify(k) PROVE NoticesInv' OBVIOUS
<1> USE LifecycleAssumption DEF N!NoticesAssumption, N!Reminders, N!Hour
<1>1. N!TypeOK BY DEF NoticesInv
<1>2. /\ clock \in Nat /\ ends \in [Subs -> Nat] /\ extended \in [Subs -> Nat]
      /\ mark \in [Subs -> {"active", "expired"}]
      /\ missed \in [N!Crons -> Nat]
  BY <1>1 DEF N!TypeOK
<1>3. ~ran /\ clock % 6 = N!Minute[k] /\ ran' = TRUE BY <1>1, NotifyFacts
<1>4. UNCHANGED <<clock, mark, ends, extended, missed>> BY <1>1, NotifyFacts
<1>5. cutoff \subseteq cutoff' BY <1>1, NotifyFacts
<1>6. \A s \in Subs : /\ sent[s] \subseteq sent'[s] /\ sent'[s] \subseteq sent[s] \cup {k}
                      /\ k \notin cutoff' /\ s \in N!Found(k) => k \in sent'[s]
  BY <1>1, NotifyFacts
<1>7. N!TypeOK'
  <2>1. ran' \in BOOLEAN BY <1>3
  <2>2. /\ sent' \in [Subs -> SUBSET N!Kinds] /\ cutoff' \subseteq N!Kinds
        /\ promos' \subseteq TrialSubs
    BY <1>1, NotifyFacts
  <2>3. queued' \subseteq Subs \X N!Kinds \X Nat
    BY <1>1, NotifyFacts DEF N!TypeOK
  <2> HIDE DEF N!Kinds
  <2> QED BY <1>1, <1>4, <2>1, <2>2, <2>3 DEF N!TypeOK
<1>8. MarkedInTime'
  <2> SUFFICES ASSUME Up, NEW s \in Subs, NEW t \in 0..clock, t % 6 = 4, mark[s] = "active"
               PROVE ends[s] >= t
    BY <1>4 DEF MarkedInTime, Up
  <2>1. t < clock BY <1>2, <1>3 DEF N!Kinds, N!Minute
  <2> QED BY <2>1 DEF NoticesInv, MarkedInTime, Passed
<1>9. AnnouncedNext'
  <2> SUFFICES ASSUME Up, "expired" \notin cutoff', NEW s \in Subs, mark[s] = "expired", "expired" \notin sent'[s]
               PROVE FALSE
    BY <1>4 DEF AnnouncedNext, Unheeded, Up
  <2>1. clock % 6 = 5 /\ ends[s] >= clock - 7
    <3>1. "expired" \notin sent[s] /\ "expired" \notin cutoff BY <1>5, <1>6
    <3> QED BY <1>3, <3>1 DEF NoticesInv, AnnouncedNext, Unheeded
  <2>2. k = "expired" BY <1>3, <2>1 DEF N!Kinds, N!Minute
  <2>3. s \in N!Found("expired")
    <3>1. "expired" \notin sent[s] BY <1>6
    <3>2. ends[s] >= clock - N!Grace BY <1>2, <2>1 DEF N!Grace
    <3> QED BY <3>1, <3>2 DEF N!Found, N!InWindow
  <2> QED BY <1>6, <2>2, <2>3
<1>10. EndedFirst' BY <1>4 DEF NoticesInv, EndedFirst
<1>11. RemindedOr'
  <2> SUFFICES ASSUME "expiry_3d" \notin cutoff',
                      NEW s \in Subs, extended[s] = 0, Opens(s) >= 0, "expiry_3d" \notin sent'[s],
                      NEW t \in 0..clock, t % 6 = 2, Opens(s) <= t, t <= Opens(s) + 12
               PROVE  /\ missed["expiry_3d"] > 0
                      /\ t >= Opens(s) + 6 => missed["expiry_3d"] > 1
    BY <1>4 DEF RemindedOr, Unheeded, Opens
  <2>1. "expiry_3d" \notin sent[s] /\ "expiry_3d" \notin cutoff BY <1>5, <1>6
  <2>2. CASE t < clock BY <2>1, <2>2 DEF NoticesInv, RemindedOr, Passed, Unheeded
  <2>3. CASE t = clock
    <3>1. k = "expiry_3d" BY <1>3, <2>3 DEF N!Kinds, N!Minute
    <3>2. Ahead["expiry_3d"] \in Nat /\ Ahead["expiry_3d"] >= 6 BY DEF N!Hour
    <3>3. ends[s] >= clock + Ahead["expiry_3d"] - 6 /\ ends[s] <= clock + Ahead["expiry_3d"] + 6
      BY <1>2, <2>3, <3>2 DEF Opens
    <3>4. mark[s] = "active"
      <4>1. mark[s] # "expired" BY <1>2, <3>2, <3>3 DEF NoticesInv, EndedFirst
      <4> QED BY <1>2, <4>1
    <3>5. s \in N!Found("expiry_3d")
      BY <2>1, <3>3, <3>4 DEF N!Found, N!InWindow
    <3> QED BY <1>6, <3>1, <3>5
  <2> QED BY <2>2, <2>3, <1>2
<1>12. Guarded'
  <2>1. ASSUME NEW n \in queued' PROVE n[2] \in sent'[n[1]]
    <3>1. CASE n \in queued
      <4>1. n[1] \in Subs BY <1>1, <3>1 DEF N!TypeOK
      <4> QED BY <3>1, <4>1, <1>6 DEF NoticesInv, Guarded
    <3>2. CASE n \notin queued BY <2>1, <3>2, <1>1, NotifyFacts
    <3> QED BY <3>1, <3>2
  <2>2. ASSUME NEW n \in queued', NEW m \in queued', n[1] = m[1], n[2] = m[2] PROVE n = m
    <3>1. \A q \in queued' : \/ q \in queued /\ q[2] \in sent[q[1]]
                             \/ /\ q = <<q[1], k, ends[q[1]]>> /\ q[2] = k
                                /\ k \notin sent[q[1]]
      BY <1>1, NotifyFacts DEF NoticesInv, Guarded
    <3>2. CASE n \in queued /\ m \in queued
      BY <2>2, <3>2 DEF NoticesInv, Guarded, N!OncePerKind
    <3>3. CASE n \notin queued \/ m \notin queued
      <4>1. /\ n \in queued => n[2] \in sent[n[1]]
            /\ m \in queued => m[2] \in sent[m[1]]
        BY DEF NoticesInv, Guarded
      <4> QED BY <2>2, <3>1, <3>3, <4>1
    <3> QED BY <3>2, <3>3
  <2> QED BY <2>1, <2>2 DEF Guarded, N!OncePerKind
<1> QED BY <1>7, <1>8, <1>9, <1>10, <1>11, <1>12 DEF NoticesInv

LEMMA StutterNotices == NoticesInv /\ UNCHANGED nvars => NoticesInv'
BY DEF NoticesInv, nvars, N!TypeOK, MarkedInTime, AnnouncedNext, EndedFirst, RemindedOr, Guarded,
       N!OncePerKind, Up, Passed, Unheeded, Opens

\* Of six moments in succession one is at minute m of the hour.
LEMMA LastAt ==
    ASSUME NEW n \in Nat, NEW m \in 0..5, n >= 6
    PROVE  \E t \in 0..n : t % 6 = m /\ t < n /\ t >= n - 6
<1> DEFINE d == (n - 1 - m) % 6
<1>1. d \in 0..5 OBVIOUS
<1>2. (n - 1 - d) % 6 = m OBVIOUS
<1>3. n - 1 - d \in 0..n /\ n - 1 - d < n /\ n - 1 - d >= n - 6
  <2> HIDE DEF d
  <2> QED BY <1>1
<1> HIDE DEF d
<1> QED BY <1>2, <1>3

\* The mark after the end is at most an hour away, the notice ten minutes more.
LEMMA Announced == NoticesInv => N!ExpiryAnnounced
<1> SUFFICES ASSUME NoticesInv,
                    ~(missed["mark"] + missed["expired"] > 0), "expired" \notin cutoff,
                    NEW s \in Subs, clock > ends[s] + 6 + 3
             PROVE "expired" \in sent[s]
  BY DEF N!ExpiryAnnounced, N!Hour
<1>1. clock \in Nat /\ ends[s] \in Nat /\ mark[s] \in {"active", "expired"}
  BY DEF NoticesInv, N!TypeOK
<1>2. Up BY DEF NoticesInv, N!TypeOK, N!Crons, Up
<1>3. CASE mark[s] = "expired"
  BY <1>1, <1>2, <1>3 DEF NoticesInv, AnnouncedNext, Unheeded
<1>4. CASE mark[s] = "active"
  <2>0. clock >= 6 BY <1>1
  <2>1. PICK t \in 0..clock : t % 6 = 4 /\ t < clock /\ t >= clock - 6
    BY <1>1, <2>0, LastAt
  <2>2. ends[s] >= t BY <1>2, <1>4, <2>1 DEF NoticesInv, MarkedInTime, Passed
  <2> QED BY <1>1, <2>1, <2>2
<1> QED BY <1>1, <1>3, <1>4

\* The second start in a window that has closed was not missed as well.
LEMMA Reminded == NoticesInv => N!ReminderSurvivesOneMiss
<1> SUFFICES ASSUME NoticesInv, NEW s \in Subs,
                    ~(missed["expiry_3d"] > 1), "expiry_3d" \notin cutoff, ~(extended[s] > 0),
                    ~(Ends[s] < Ahead["expiry_3d"] + 6),
                    ~(clock <= ends[s] - Ahead["expiry_3d"] + 6)
             PROVE "expiry_3d" \in sent[s]
  BY DEF N!ReminderSurvivesOneMiss, N!Hour
<1>1. /\ clock \in Nat /\ ends[s] \in Nat /\ extended[s] \in Nat
      /\ Ends[s] \in Nat /\ Ahead["expiry_3d"] \in Nat
  BY LifecycleAssumption
  DEF N!NoticesAssumption, N!Reminders, NoticesInv, N!TypeOK
<1>2. extended[s] = 0 /\ ends[s] = Ends[s] BY <1>1 DEF NoticesInv, EndedFirst
<1>3. Opens(s) \in Nat /\ clock > Opens(s) + 12 BY <1>1, <1>2 DEF Opens
<1>4. PICK t \in 0..(Opens(s) + 12) : t % 6 = 2 /\ t < Opens(s) + 12 /\ t >= Opens(s) + 6
  <2>1. Opens(s) + 12 \in Nat /\ Opens(s) + 12 >= 6 /\ (Opens(s) + 12) - 6 = Opens(s) + 6 BY <1>3
  <2>2. \E t \in 0..(Opens(s) + 12) : t % 6 = 2 /\ t < Opens(s) + 12 /\ t >= (Opens(s) + 12) - 6
    BY <2>1, LastAt
  <2> QED BY <2>1, <2>2
<1>5. t \in 0..clock /\ t < clock /\ Opens(s) <= t BY <1>1, <1>3, <1>4
<1> QED BY <1>1, <1>2, <1>3, <1>4, <1>5 DEF NoticesInv, RemindedOr, Passed, Unheeded

LEMMA NoticesHold == LifecycleSpec => []NoticesInv
<1>1. LifecycleInit => NoticesInv BY NoticesInit DEF LifecycleInit
<1>2. NoticesInv /\ [LifecycleNext]_<<vars, nvars, tvars>> => NoticesInv'
  <2> SUFFICES ASSUME NoticesInv, [LifecycleNext]_<<vars, nvars, tvars>> PROVE NoticesInv' OBVIOUS
  <2>1. CASE N!Next
    BY <2>1, TickNotices, MissNotices, MarkNotices, ExtendNotices, NotifyNotices DEF N!Next
  <2>2. CASE UNCHANGED nvars BY <2>2, StutterNotices
  <2> QED BY <2>1, <2>2 DEF LifecycleNext, Rows, Notices, Trials
<1> QED BY <1>1, <1>2, PTL DEF LifecycleSpec

\* For any subscriptions, windows and limits, and any number of starts missed: an
\* expiry is announced within an hour and a half, a reminder survives one missed
\* start, and no kind of notice goes out twice.
THEOREM NoticesReachUsers == LifecycleSpec => []NoticesArrive
<1>1. NoticesInv => NoticesArrive
  BY Announced, Reminded DEF NoticesArrive, N!NoticesArrive, NoticesInv, Guarded
<1> QED BY <1>1, NoticesHold, PTL

-----------------------------------------------------------------------------
(***************************************************************************)
(* Trials, and the three side by side.                                     *)
(***************************************************************************)
TP == INSTANCE TrialProofs WITH
        Users <- Customers, Requests <- Attempts,
        row <- got, key <- link, pc <- at, raced <- passed

\* T and TP are instances of the same definitions.
LEMMA SameTrials ==
    /\ T!TrialAssumption <=> TP!TrialAssumption
    /\ T!Init <=> TP!Init
    /\ T!Next <=> TP!Next
    /\ tvars' = tvars => TP!vars' = TP!vars
<1>1. T!TrialAssumption <=> TP!TrialAssumption
  BY DEF T!TrialAssumption, TP!TrialAssumption, T!Trials, TP!Trials, T!IsFiniteSet, TP!IsFiniteSet
<1>2. T!Init <=> TP!Init
  BY DEF T!Init, TP!Init, T!None, TP!None, T!Trials, TP!Trials
<1>3. T!Next <=> TP!Next
  BY DEF T!Next, T!Start, T!Check, T!Insert, T!Issue, T!IssueFails, T!Activate, T!Look, T!Mint,
         T!MintFails, T!Crash, T!Pick, T!Kill, T!KillFails, T!Replace, T!Notice, T!Settle,
         T!Rollback, T!Go, T!Racing, T!RowsOf, T!Trials, T!None, T!rows, T!referral,
         TP!Next, TP!Start, TP!Check, TP!Insert, TP!Issue, TP!IssueFails, TP!Activate, TP!Look, TP!Mint,
         TP!MintFails, TP!Crash, TP!Pick, TP!Kill, TP!KillFails, TP!Replace, TP!Notice, TP!Settle,
         TP!Rollback, TP!Go, TP!Racing, TP!RowsOf, TP!Trials, TP!None, TP!rows, TP!referral
<1>4. tvars' = tvars => TP!vars' = TP!vars
  BY DEF tvars, TP!vars, TP!rows, TP!referral
<1> QED BY <1>1, <1>2, <1>3, <1>4

\* Each of the three behaves as if it were alone.
LEMMA SideBySide == LifecycleSpec => Spec /\ TP!Spec
<1>1. LifecycleInit => Init /\ TP!Init BY SameTrials DEF LifecycleInit
<1>2. [LifecycleNext]_<<vars, nvars, tvars>> => [Next]_vars /\ [TP!Next]_(TP!vars)
  BY SameTrials DEF LifecycleNext, Rows, Notices, Trials
<1> QED BY <1>1, <1>2, PTL DEF LifecycleSpec, Spec, TP!Spec

\* Rows and keys, notices and trials have their types.
THEOREM LifecycleTypes == LifecycleSpec => []Types
<1>1. TP!Spec => []TP!TypeOK BY SameTrials, LifecycleAssumption, TP!TypeCorrect
<1>2. TypeOK /\ NoticesInv /\ TP!TypeOK => Types
  BY DEF NoticesInv, Types, T!TypeOK, T!Trials, T!None, T!Statuses,
         TP!TypeOK, TP!Trials, TP!None, TP!Statuses
<1> QED BY <1>1, <1>2, SideBySide, TypeCorrect, NoticesHold, PTL

\* However many requests, repetitions and reissues of a user there are, he
\* activates one trial and has one alive, unless two requests passed the check
\* together.
THEOREM OneTrialEach == LifecycleSpec => []OneTrial
<1>1. TP!Spec => []TP!OneTrial BY SameTrials, LifecycleAssumption, TP!OneTrialEach
<1>2. TP!OneTrial => OneTrial
  BY DEF OneTrial, T!OneTrial, T!RowsOf, T!Trials, T!None, T!Cardinality,
         TP!OneTrial, TP!RowsOf, TP!Trials, TP!None, TP!Cardinality
<1> QED BY <1>1, <1>2, SideBySide, PTL

\* A referrer gets one code for a served trial and one bonus for a first payment,
\* unless two sessions passed the same check together.
THEOREM RewardsOnce == LifecycleSpec => []RewardsEarned
<1>1. TP!Spec => []TP!RewardsEarned BY SameTrials, LifecycleAssumption, TP!RewardsOnce
<1>2. TP!RewardsEarned => RewardsEarned
  BY DEF RewardsEarned, T!RewardsEarned, T!Cardinality, TP!RewardsEarned, TP!Cardinality
<1> QED BY <1>1, <1>2, SideBySide, PTL

\* An active trial has its key and a pending one somebody who works on it, whatever
\* fails, unless the one who did has died.
THEOREM HonestStatus == LifecycleSpec => []StatusIsHonest
<1>1. TP!Spec => []TP!StatusIsHonest BY SameTrials, LifecycleAssumption, TP!HonestStatus
<1>2. TP!StatusIsHonest => StatusIsHonest
  BY DEF StatusIsHonest, T!StatusIsHonest, T!ActiveHasKey, T!StrandedOnlyByCrash, T!Trials,
         TP!StatusIsHonest, TP!ActiveHasKey, TP!StrandedOnlyByCrash, TP!Trials
<1> QED BY <1>1, <1>2, SideBySide, PTL
=============================================================================
