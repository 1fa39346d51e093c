----------------------------- MODULE ShopProofs ------------------------------
(***************************************************************************)
(* Proofs about promo codes, for every number of users, codes and          *)
(* requests and every limit.                                               *)
(*                                                                         *)
(* The limit of a user holds because his activations are counted under the *)
(* lock.  The counter of all activations may be old when it is compared,   *)
(* so that its limit holds only for sessions that did not race.  The owner *)
(* is not looked at when money arrives: a promo_id that a dialogue holds   *)
(* was offered to the owner.                                               *)
(*                                                                         *)
(* Proofs about the dialogues that buy, for every number of messages,      *)
(* tariffs, prices and handlers that wait: DialogueInv says what a handler *)
(* knows when it reads the data again after it waited.                     *)
(***************************************************************************)
EXTENDS Shop, FiniteSetTheorems, TLAPS

\* A request is recorded once.
Fresh == \A a \in used : pc[a[3]] \in {"bought", "over"}

\* What a request on its way is about; only one that applies a code has still to
\* look whose it is.
Known ==
    \A r \in Requests :
        /\ pc[r] \in {"loaded", "bought", "invoiced"} =>
              /\ who[r] \in Users \X Codes
              /\ op[r] # "apply" => By(r) \in Owner[Code(r)]
        /\ pc[r] = "invoiced" => op[r] = "start"

\* What a dialogue was offered is for its user.
Mine == \A o \in offered : o[1] \in Owner[o[2]]

IInv ==
    /\ TypeOK /\ IsFiniteSet(used) /\ Fresh /\ Known /\ Mine
    /\ CountMatchesRows /\ PerUserLimit /\ PersonalStaysPersonal

USE DEF Row

-----------------------------------------------------------------------------
LEMMA InitInv == Init => IInv
<1> SUFFICES ASSUME Init PROVE IInv OBVIOUS
<1> USE FS_EmptySet DEF Init
<1>1. TypeOK BY DEF TypeOK, NoRow
<1>2. IsFiniteSet(used) /\ Fresh /\ Mine /\ PersonalStaysPersonal
  BY DEF Fresh, Mine, PersonalStaysPersonal
<1>3. Known BY DEF Known
<1>4. CountMatchesRows
  <2>1. \A c \in Codes : {a \in used : a[1] = c} = {} OBVIOUS
  <2> QED BY <2>1 DEF CountMatchesRows
<1>5. PerUserLimit
  <2>1. \A c \in Codes, u \in Users : UsedBy(c, u) = {} BY DEF UsedBy
  <2>2. 0 <= MaxPerUser BY PromoAssumption
  <2>3. \A c \in Codes, u \in Users : Cardinality(UsedBy(c, u)) = 0
    BY <2>1
  <2> HIDE DEF Init
  <2> QED BY ONLY <2>2, <2>3 DEF PerUserLimit
<1> QED BY <1>1, <1>2, <1>3, <1>4, <1>5 DEF IInv

\* One more element of a finite set.
LEMMA OneMore ==
  ASSUME NEW S, NEW x, IsFiniteSet(S), x \notin S
  PROVE  Cardinality(S) \in Nat /\ Cardinality(S \cup {x}) = Cardinality(S) + 1
BY FS_CardinalityType, FS_AddElement

\* A row and the counter keep together, and within the user's limit.
LEMMA RecordStep ==
  ASSUME IInv, NEW r \in Requests, Record(r),
         pc[r] \in {"loaded", "invoiced"}, By(r) \in Owner[Code(r)],
         Cardinality(UsedBy(Code(r), By(r))) < MaxPerUser
  PROVE  /\ used' \subseteq Codes \X Users \X Requests /\ current' \in [Codes -> Nat]
         /\ IsFiniteSet(used') /\ \A a \in used' : a \in used \/ a[3] = r
         /\ CountMatchesRows' /\ PerUserLimit' /\ PersonalStaysPersonal'
<1> DEFINE new == <<Code(r), By(r), r>>
<1>1. Code(r) \in Codes /\ By(r) \in Users
  BY DEF IInv, Known, By, Code
<1>2. new \notin used /\ new[1] = Code(r) /\ new[2] = By(r) /\ new[3] = r
  BY DEF IInv, Fresh
<1>3. used' = used \cup {new} /\ current' = [current EXCEPT ![Code(r)] = @ + 1]
  BY DEF Record
<1>4. used' \subseteq Codes \X Users \X Requests
  BY <1>1, <1>3 DEF IInv, TypeOK
<1>5. current' \in [Codes -> Nat] BY <1>1, <1>3 DEF IInv, TypeOK
<1> HIDE DEF new
<1>6. IsFiniteSet(used') BY <1>3, FS_AddElement DEF IInv
<1>7. CountMatchesRows'
  <2> SUFFICES ASSUME NEW c \in Codes
               PROVE  current'[c] = Cardinality({a \in used' : a[1] = c})
    BY DEF CountMatchesRows
  <2> DEFINE S == {a \in used : a[1] = c}
  <2>1. IsFiniteSet(S) /\ Cardinality(S) = current[c]
    BY FS_Subset DEF IInv, CountMatchesRows
  <2>2. CASE c = Code(r)
    <3>1. {a \in used' : a[1] = c} = S \cup {new} /\ new \notin S
      BY <1>2, <1>3, <2>2
    <3>2. current'[c] = current[c] + 1 BY <1>1, <1>3, <2>2 DEF IInv, TypeOK
    <3> HIDE DEF S
    <3> QED BY <2>1, <3>1, <3>2, OneMore
  <2>3. CASE c # Code(r)
    <3>1. {a \in used' : a[1] = c} = S BY <1>2, <1>3, <2>3
    <3>2. current'[c] = current[c] BY <1>1, <1>3, <2>3 DEF IInv, TypeOK
    <3> QED BY <2>1, <3>1, <3>2
  <2> QED BY <2>2, <2>3
<1>8. PerUserLimit'
  <2> SUFFICES ASSUME NEW c \in Codes, NEW u \in Users
               PROVE  Cardinality(UsedBy(c, u)') <= MaxPerUser
    BY DEF PerUserLimit
  <2>1. IsFiniteSet(UsedBy(c, u)) /\ Cardinality(UsedBy(c, u)) <= MaxPerUser
    BY FS_Subset DEF IInv, PerUserLimit, UsedBy
  <2>2. CASE c = Code(r) /\ u = By(r)
    <3>1. UsedBy(c, u)' = UsedBy(c, u) \cup {new} /\ new \notin UsedBy(c, u)
      BY <1>2, <1>3, <2>2 DEF UsedBy
    <3>2. Cardinality(UsedBy(c, u)) < MaxPerUser /\ MaxPerUser \in Nat
      BY <2>2, PromoAssumption
    <3> QED BY <2>1, <3>1, <3>2, OneMore
  <2>3. CASE ~(c = Code(r) /\ u = By(r))
    <3>1. UsedBy(c, u)' = UsedBy(c, u) BY <1>2, <1>3, <2>3 DEF UsedBy
    <3> QED BY <2>1, <3>1
  <2> QED BY <2>2, <2>3
<1>9. PersonalStaysPersonal' BY <1>2, <1>3 DEF IInv, PersonalStaysPersonal
<1>10. \A a \in used' : a \in used \/ a[3] = r BY <1>2, <1>3
<1> QED BY <1>4, <1>5, <1>6, <1>7, <1>8, <1>9, <1>10

\* What is left of a step that records r, or nothing.
LEMMA RecordOrNot ==
  ASSUME IInv, NEW r \in Requests,
         pc[r] \in {"loaded", "invoiced"},
         Record(r) => /\ By(r) \in Owner[Code(r)]
                      /\ Cardinality(UsedBy(Code(r), By(r))) < MaxPerUser,
         Record(r) \/ UNCHANGED <<used, current>>
  PROVE  /\ used' \subseteq Codes \X Users \X Requests /\ current' \in [Codes -> Nat]
         /\ IsFiniteSet(used') /\ \A a \in used' : a \in used \/ a[3] = r
         /\ CountMatchesRows' /\ PerUserLimit' /\ PersonalStaysPersonal'
<1>1. CASE Record(r) BY <1>1, RecordStep
<1>2. CASE UNCHANGED <<used, current>>
  <2>1. \A c, u : UsedBy(c, u)' = UsedBy(c, u) BY <1>2 DEF UsedBy
  <2> QED BY <1>2, <2>1 DEF IInv, TypeOK, CountMatchesRows, PerUserLimit, PersonalStaysPersonal
<1> QED BY <1>1, <1>2

\* What a request leaves behind when it goes on without its row, or is over.
LEMMA OverStep ==
  ASSUME IInv, NEW r \in Requests, NEW p \in {"bought", "invoiced", "over"}, Over(r, p),
         pc[r] \in {"loaded", "bought", "invoiced"},
         p = "invoiced" => pc[r] = "loaded" /\ op[r] = "start",
         \A a \in used' : a \in used \/ (a[3] = r /\ p # "invoiced")
  PROVE  /\ pc' \in [Requests -> {"idle", "loaded", "bought", "invoiced", "over"}]
         /\ op' \in [Requests -> {"none", "apply", "buy", "start"}]
         /\ who' \in [Requests -> {<<>>} \cup Users \X Codes]
         /\ mem' \in [Requests -> Row]
         /\ Known' /\ Fresh'
<1>1. /\ pc' \in [Requests -> {"idle", "loaded", "bought", "invoiced", "over"}]
      /\ mem' \in [Requests -> Row]
  BY DEF Over, IInv, TypeOK, NoRow
<1>2. /\ op' \in [Requests -> {"none", "apply", "buy", "start"}]
      /\ who' \in [Requests -> {<<>>} \cup Users \X Codes]
      /\ \A q \in Requests : q # r \/ p # "over" => op'[q] = op[q] /\ who'[q] = who[q]
  BY DEF Over, IInv, TypeOK
<1>3. \A q \in Requests : pc'[q] = IF q = r THEN p ELSE pc[q]
  BY DEF Over, IInv, TypeOK
<1>4. Known'
  <2> SUFFICES ASSUME NEW q \in Requests, pc'[q] \in {"loaded", "bought", "invoiced"}
               PROVE  /\ who'[q] \in Users \X Codes
                      /\ op'[q] # "apply" => By(q)' \in Owner[Code(q)']
                      /\ pc'[q] = "invoiced" => op'[q] = "start"
    BY DEF Known
  <2>1. op'[q] = op[q] /\ who'[q] = who[q] BY <1>2, <1>3
  <2>2. /\ who[q] \in Users \X Codes
        /\ op[q] # "apply" => By(q) \in Owner[Code(q)]
        /\ pc'[q] = "invoiced" => op[q] = "start"
    BY <1>3 DEF IInv, Known
  <2> QED BY <2>1, <2>2 DEF By, Code
<1>5. Fresh'
  <2> SUFFICES ASSUME NEW a \in used' PROVE pc'[a[3]] \in {"bought", "over"}
    BY DEF Fresh
  <2>1. CASE a \in used
    <3>1. pc[a[3]] \in {"bought", "over"} /\ a[3] \in Requests
      BY <2>1 DEF IInv, Fresh, TypeOK
    <3>2. CASE a[3] # r BY <1>3, <3>1, <3>2
    <3>3. CASE a[3] = r
      <4>1. pc[r] = "bought" BY <3>1, <3>3
      <4>2. p # "invoiced" BY <4>1
      <4> QED BY <1>3, <3>3, <4>2
    <3> QED BY <3>2, <3>3
  <2>2. CASE a[3] = r /\ p # "invoiced" BY <1>3, <2>2
  <2> QED BY <2>1, <2>2
<1> QED BY <1>1, <1>2, <1>4, <1>5

LEMMA StepInv == IInv /\ [Next]_vars => IInv'
<1> SUFFICES ASSUME IInv, [Next]_vars PROVE IInv' OBVIOUS
<1>0. \A r \in Requests : /\ mem[r] \in Row /\ total \in [Codes -> Nat]
                          /\ pc[r] \in {"loaded", "bought", "invoiced"} =>
                                Code(r) \in Codes /\ By(r) \in Users
  BY DEF IInv, TypeOK, Known, Code, By
\* Rows of codes come, change and lapse.
<1>1. ASSUME UNCHANGED <<current, used, offered, op, pc, who, mem, raced>>,
             exists' \subseteq Codes, past' \subseteq Codes, edits' \in Nat,
             active' \in [Codes -> BOOLEAN], total' \in [Codes -> Nat]
      PROVE  IInv'
  <2>1. TypeOK' /\ IsFiniteSet(used') /\ Fresh' /\ Mine' /\ PersonalStaysPersonal'
    BY <1>1 DEF IInv, TypeOK, Fresh, Mine, PersonalStaysPersonal
  <2>2. Known' BY <1>1 DEF IInv, Known, By, Code
  <2>3. CountMatchesRows' /\ PerUserLimit'
    BY <1>1 DEF IInv, CountMatchesRows, PerUserLimit, UsedBy
  <2> QED BY <2>1, <2>2, <2>3 DEF IInv
<1>2. ASSUME NEW c \in Codes, NEW t \in Totals, Create(c, t) PROVE IInv'
  BY <1>1, <1>2, PromoAssumption DEF Create, IInv, TypeOK
<1>3. ASSUME NEW c \in Codes, NEW t \in Totals, NEW on \in BOOLEAN, Patch(c, on, t) PROVE IInv'
  BY <1>1, <1>3, PromoAssumption DEF Patch, IInv, TypeOK
<1>4. ASSUME NEW c \in Codes, Lapse(c) PROVE IInv'
  BY <1>1, <1>4 DEF Lapse, IInv, TypeOK
<1>5. ASSUME NEW u \in Users, Leave(u) PROVE IInv'
  <2> USE <1>5 DEF Leave, codes
  <2>1. TypeOK' /\ IsFiniteSet(used') /\ Fresh' /\ Mine' /\ PersonalStaysPersonal'
    BY DEF IInv, TypeOK, Fresh, Mine, PersonalStaysPersonal
  <2>2. Known' BY DEF IInv, Known, By, Code
  <2>3. CountMatchesRows' /\ PerUserLimit' BY DEF IInv, CountMatchesRows, PerUserLimit, UsedBy
  <2> QED BY <2>1, <2>2, <2>3 DEF IInv
<1>6. ASSUME NEW r \in Requests, NEW o \in {"apply", "buy", "start"}, NEW u \in Users,
             NEW c \in Codes, Load(r, o, u, c)
      PROVE  IInv'
  <2> USE <1>6 DEF Load, codes
  <2>1. TypeOK'
    <3>1. RowOf(c) \in Row BY DEF RowOf, IInv, TypeOK
    <3> QED BY <3>1 DEF IInv, TypeOK
  <2>2. Fresh'
    <3>1. \A a \in used : a[3] \in Requests /\ a[3] # r BY DEF IInv, TypeOK, Fresh
    <3> QED BY <3>1 DEF IInv, TypeOK, Fresh
  <2>3. Known'
    <3> SUFFICES ASSUME NEW q \in Requests, pc'[q] \in {"loaded", "bought", "invoiced"}
                 PROVE  /\ who'[q] \in Users \X Codes
                        /\ op'[q] # "apply" => By(q)' \in Owner[Code(q)']
                        /\ pc'[q] = "invoiced" => op'[q] = "start"
      BY DEF Known
    <3>1. CASE q = r
      <4>1. pc'[q] = "loaded" /\ op'[q] = o /\ who'[q] = <<u, c>>
        BY <3>1 DEF IInv, TypeOK
      <4>2. o # "apply" => u \in Owner[c] BY DEF IInv, Mine
      <4> QED BY <4>1, <4>2 DEF By, Code
    <3>2. CASE q # r
      <4>1. pc'[q] = pc[q] /\ op'[q] = op[q] /\ who'[q] = who[q]
        BY <3>2 DEF IInv, TypeOK
      <4> QED BY <4>1 DEF IInv, Known, By, Code
    <3> QED BY <3>1, <3>2
  <2>4. IsFiniteSet(used') /\ Mine' /\ PersonalStaysPersonal'
    BY DEF IInv, Mine, PersonalStaysPersonal
  <2>5. CountMatchesRows' /\ PerUserLimit' BY DEF IInv, CountMatchesRows, PerUserLimit, UsedBy
  <2> QED BY <2>1, <2>2, <2>3, <2>4, <2>5 DEF IInv
\* A request that was loaded, bought or invoiced, moves on.
<1>7. ASSUME NEW r \in Requests, NEW p \in {"bought", "invoiced", "over"}, Over(r, p),
             pc[r] \in {"loaded", "bought", "invoiced"},
             p = "invoiced" => pc[r] = "loaded" /\ op[r] = "start",
             \/ UNCHANGED <<used, current>>
             \/ /\ pc[r] \in {"loaded", "invoiced"} /\ p # "invoiced" /\ Record(r)
                /\ By(r) \in Owner[Code(r)]
                /\ Cardinality(UsedBy(Code(r), By(r))) < MaxPerUser,
             offered' \subseteq Users \X (Codes \ Balance), Mine', raced' \subseteq Codes,
             UNCHANGED codes
      PROVE  IInv'
  <2>1. /\ used' \subseteq Codes \X Users \X Requests /\ current' \in [Codes -> Nat]
        /\ IsFiniteSet(used') /\ \A a \in used' : a \in used \/ (a[3] = r /\ p # "invoiced")
        /\ CountMatchesRows' /\ PerUserLimit' /\ PersonalStaysPersonal'
    <3>1. CASE UNCHANGED <<used, current>>
      <4>1. \A c, u : UsedBy(c, u)' = UsedBy(c, u) BY <3>1 DEF UsedBy
      <4> QED BY <3>1, <4>1
            DEF IInv, TypeOK, CountMatchesRows, PerUserLimit, PersonalStaysPersonal
    <3>2. CASE ~UNCHANGED <<used, current>>
      BY <1>7, <3>2, RecordStep
    <3> QED BY <3>1, <3>2
  <2>2. /\ pc' \in [Requests -> {"idle", "loaded", "bought", "invoiced", "over"}]
        /\ op' \in [Requests -> {"none", "apply", "buy", "start"}]
        /\ who' \in [Requests -> {<<>>} \cup Users \X Codes]
        /\ mem' \in [Requests -> Row]
        /\ Known' /\ Fresh'
    BY <1>7, <2>1, OverStep
  <2>3. TypeOK' BY <1>7, <2>1, <2>2 DEF IInv, TypeOK, codes
  <2> QED BY <1>7, <2>1, <2>2, <2>3 DEF IInv
<1>8. ASSUME NEW r \in Requests, UNCHANGED offered
      PROVE  offered' \subseteq Users \X (Codes \ Balance) /\ Mine'
  BY <1>8 DEF IInv, TypeOK, Mine
<1>9. ASSUME NEW r \in Requests, Compared(r), pc[r] = "loaded" PROVE raced' \subseteq Codes
  BY <1>0, <1>9 DEF Compared, IInv, TypeOK
<1>10. ASSUME NEW r \in Requests, Apply(r) PROVE IInv'
  <2>1. pc[r] = "loaded" /\ Over(r, "over") /\ raced' \subseteq Codes /\ UNCHANGED codes
    BY <1>9, <1>10 DEF Apply
  <2>2. By(r) \in Owner[Code(r)] /\ Cardinality(UsedBy(Code(r), By(r))) < MaxPerUser
    BY <1>10 DEF Apply, Valid, Room
  <2>3. CASE Code(r) \in Balance
    <3>1. Record(r) /\ UNCHANGED offered BY <1>10, <2>3 DEF Apply
    <3> QED BY <1>7, <1>8, <2>1, <2>2, <3>1
  <2>4. CASE Code(r) \notin Balance
    <3>1. /\ offered' = {o \in offered : o[1] # By(r)} \cup {<<By(r), Code(r)>>}
          /\ UNCHANGED <<used, current>>
      BY <1>10, <2>4 DEF Apply
    <3>2. offered' \subseteq Users \X (Codes \ Balance)
      BY <1>0, <2>1, <2>4, <3>1 DEF IInv, TypeOK
    <3>3. Mine' BY <2>2, <3>1 DEF IInv, Mine
    <3> QED BY <1>7, <2>1, <3>1, <3>2, <3>3
  <2> QED BY <2>3, <2>4
<1>11. ASSUME NEW r \in Requests, Reject(r) \/ Abort(r) PROVE IInv'
  <2>1. pc[r] = "loaded" /\ Over(r, "over") /\ UNCHANGED <<codes, current, used, offered, raced>>
    BY <1>11 DEF Reject, Abort
  <2>2. raced' \subseteq Codes BY <2>1 DEF IInv, TypeOK
  <2> QED BY <1>7, <1>8, <2>1, <2>2
<1>12. ASSUME NEW r \in Requests, Buy(r) PROVE IInv'
  <2>1. /\ pc[r] = "loaded" /\ Over(r, "bought") /\ raced' \subseteq Codes
        /\ UNCHANGED codes /\ UNCHANGED offered
    BY <1>9, <1>12 DEF Buy
  <2>2. By(r) \in Owner[Code(r)] BY <1>12 DEF Buy, IInv, Known
  <2>3. \/ UNCHANGED <<used, current>>
        \/ Record(r) /\ Cardinality(UsedBy(Code(r), By(r))) < MaxPerUser
    BY <1>12 DEF Buy, Room
  <2> QED BY <1>7, <1>8, <2>1, <2>2, <2>3
<1>13. ASSUME NEW r \in Requests, Bought(r) PROVE IInv'
  <2>1. /\ pc[r] = "bought" /\ Over(r, "over")
        /\ UNCHANGED codes /\ UNCHANGED <<used, current>> /\ raced' = raced
        /\ offered' \subseteq offered
    BY <1>13 DEF Bought
  <2>2. raced' \subseteq Codes /\ offered' \subseteq Users \X (Codes \ Balance) /\ Mine'
    BY <2>1 DEF IInv, TypeOK, Mine
  <2> QED BY <1>7, <2>1, <2>2
<1>14. ASSUME NEW r \in Requests, Invoice(r) PROVE IInv'
  <2>1. /\ pc[r] = "loaded" /\ op[r] = "start" /\ Over(r, "invoiced")
        /\ UNCHANGED <<codes, current, used, offered, raced>>
    BY <1>14 DEF Invoice
  <2>2. raced' \subseteq Codes BY <2>1 DEF IInv, TypeOK
  <2> QED BY <1>7, <1>8, <2>1, <2>2
<1>15. ASSUME NEW r \in Requests, Paid(r) PROVE IInv'
  <2>1. /\ pc[r] = "invoiced" /\ Over(r, "over")
        /\ UNCHANGED <<codes, offered, raced>>
    BY <1>15 DEF Paid
  <2>2. By(r) \in Owner[Code(r)] BY <2>1 DEF IInv, Known
  <2>3. \/ UNCHANGED <<used, current>>
        \/ Record(r) /\ Cardinality(UsedBy(Code(r), By(r))) < MaxPerUser
    BY <1>15 DEF Paid, Room
  <2>4. raced' \subseteq Codes BY <2>1 DEF IInv, TypeOK
  <2> QED BY <1>7, <1>8, <2>1, <2>2, <2>3, <2>4
<1>16. CASE UNCHANGED vars
  <2> USE <1>16 DEF vars, codes
  <2>1. TypeOK' /\ IsFiniteSet(used') /\ Fresh' /\ Mine' /\ PersonalStaysPersonal'
    BY DEF IInv, TypeOK, Fresh, Mine, PersonalStaysPersonal
  <2>2. Known' BY DEF IInv, Known, By, Code
  <2>3. CountMatchesRows' /\ PerUserLimit' BY DEF IInv, CountMatchesRows, PerUserLimit, UsedBy
  <2> QED BY <2>1, <2>2, <2>3 DEF IInv
<1> QED BY <1>2, <1>3, <1>4, <1>5, <1>6, <1>10, <1>11, <1>12, <1>13, <1>14, <1>15, <1>16 DEF Next

LEMMA Invariance == Spec => []IInv
<1>1. Init => IInv BY InitInv
<1>2. IInv /\ [Next]_vars => IInv' BY StepInv
<1> QED BY <1>1, <1>2, PTL DEF Spec

-----------------------------------------------------------------------------
\* Codes, requests and dialogues keep their types; a dialogue carries discount codes
\* only.
THEOREM TypeCorrect == Spec => []TypeOK
<1>1. IInv => TypeOK BY DEF IInv
<1> QED BY <1>1, Invariance, PTL

\* The counter of a code is the number of its rows, through aborts, refunds and
\* requests that find the code exhausted.
THEOREM CounterIsTrue == Spec => []CountMatchesRows
<1>1. IInv => CountMatchesRows BY DEF IInv
<1> QED BY <1>1, Invariance, PTL

\* However many requests and invoices of a user are on their way, he uses a code
\* max_per_user times at most, and a personal code only if it is his.
THEOREM LimitsOfAUser == Spec => []UserLimits
<1>1. IInv => UserLimits BY DEF IInv, UserLimits
<1> QED BY <1>1, Invariance, PTL

\* The total of a code is exceeded only by a session that compared what it had
\* loaded before the lock.
THEOREM TotalUnlessRaced == Spec => CapacityUnlessRaced
<1> DEFINE Fair == \A c \in Codes : current'[c] > current[c] /\ c \notin raced'
                                      => total[c] = 0 \/ current[c] < total[c]
<1>1. IInv /\ [Next]_vars => [Fair]_vars
  <2> SUFFICES ASSUME IInv, Next, NEW c \in Codes, current'[c] > current[c], c \notin raced'
               PROVE  total[c] = 0 \/ current[c] < total[c]
    OBVIOUS
  <2>0. current \in [Codes -> Nat] BY DEF IInv, TypeOK
  <2>a. current' # current BY <2>0
  <2>b. \A d \in Codes, t \in Totals : ~Create(d, t) BY <2>a DEF Create
  <2>c. \A d \in Codes, on \in BOOLEAN, t \in Totals : ~Patch(d, on, t) BY <2>a DEF Patch
  <2>d. (\A d \in Codes : ~Lapse(d)) /\ \A u \in Users : ~Leave(u)
    BY <2>a DEF Lapse, Leave
  <2>e. \A r \in Requests, o \in {"apply", "buy", "start"}, u \in Users, d \in Codes :
           ~Load(r, o, u, d)
    BY <2>a DEF Load
  <2>f. \A r \in Requests : ~Reject(r) /\ ~Abort(r) /\ ~Bought(r) /\ ~Invoice(r)
    BY <2>a DEF Reject, Abort, Bought, Invoice
  <2>1. PICK r \in Requests : Apply(r) \/ Buy(r) \/ Paid(r)
    BY <2>b, <2>c, <2>d, <2>e, <2>f DEF Next
  <2>2. Record(r)
    BY <2>0, <2>1 DEF Apply, Buy, Paid
  <2>3. c = Code(r) BY <2>0, <2>2 DEF Record
  <2>4. CASE Apply(r) \/ Buy(r)
    <3>1. Room(r, mem[r]) /\ Compared(r)
      BY <2>0, <2>4 DEF Apply, Buy, Valid
    <3>2. mem[r].current = current[c] /\ mem[r].total = total[c]
      BY <2>3, <3>1 DEF Compared
    <3> QED BY <3>1, <3>2 DEF Room
  <2>5. CASE Paid(r)
    <3>1. Room(r, RowOf(Code(r))) BY <2>0, <2>5 DEF Paid
    <3> QED BY <2>3, <3>1 DEF Room, RowOf
  <2> QED BY <2>1, <2>4, <2>5
<1> QED BY <1>1, Invariance, PTL DEF Spec, CapacityUnlessRaced

-----------------------------------------------------------------------------
\* Handlers that buy something know what: they read it before they waited.
Handlers == {"idle", "skip", "code", "priced", "pay", "extend", "ext_skip", "ext_code",
             "ext_priced", "ext_pay", "topup_pay", "solo"}
Buyers   == {"skip", "priced", "pay", "ext_skip", "ext_code", "ext_priced", "ext_pay"}
JobType  == [h : Handlers, m : Messages \cup {D!None}, seen : D!ScreenType, last : BOOLEAN,
             data : D!DataType]

\* A handler that the newest screen started holds what that screen shows.
Held(r) ==
    r.last => \/ /\ r.h = "pay" /\ r.data.dur = r.seen.item
                 /\ D!Paid(r.data) <= r.seen.price
              \/ /\ r.h = "topup_pay" /\ r.seen.item = D!None
                 /\ r.data.amount = r.seen.price

ScreenOK(s) ==
    /\ s \in D!ScreenType
    /\ s.k \in {"extprompt", "extpay"} => s.item \in Durations
    /\ s.k = "topup" => s.item = D!None
JobOK(r)  == r \in JobType /\ (r.h \in Buyers => r.data.dur \in Durations) /\ Held(r)
BillType  == [seen : D!ScreenType, last : BOOLEAN, item : D!Items, price : Nat]
BillOK(b) == b \in BillType /\ (b.last => b.item = b.seen.item /\ b.price <= b.seen.price)

\* The dialogue: what is bought is known where a handler is going to read it.
TalkOK ==
    /\ st \in D!States /\ data \in D!DataType
    /\ st \in {"promo", "method", "ext_promo"} => data.dur \in Durations
    /\ D!NewestIsHeld

ChatOK ==
    /\ chat \in [Messages -> D!ScreenType] /\ newest \in D!ScreenType
    /\ \A m \in Messages : ScreenOK(chat[m])

JobsOK == jobs \in [Jobs -> JobType] /\ \A j \in Jobs : JobOK(jobs[j])

DialogueInv == TalkOK /\ ChatOK /\ JobsOK /\ BillOK(bill)

-----------------------------------------------------------------------------
\* A discount makes nothing dearer.
LEMMA Cheaper ==
    ASSUME NEW p \in Nat, NEW q \in 0..100
    PROVE  D!Discounted(p, q) \in Nat /\ D!Discounted(p, q) <= p
<1> DEFINE w == p * (100 - q)
<1>1. p * q \in Nat OBVIOUS
<1>2. w = 100 * p - p * q OBVIOUS
<1>3. w \in Nat
  <2>1. 100 - q \in Nat OBVIOUS
  <2> QED BY <2>1
<1>4. w <= 100 * p BY <1>1, <1>2
<1> HIDE DEF w
<1>5. w \div 100 \in Nat /\ w \div 100 <= p BY <1>3, <1>4
<1> QED BY <1>5 DEF D!Discounted, w

\* No discount is more than the whole price.
LEMMA Percentages == Percents \cup {0} \subseteq 0..100
BY ShopAssumption DEF D!DialogueAssumption

\* Every duration has a price and a tariff.
LEMMA Prices == \A x \in Durations : Price[x] \in Nat /\ TariffOf[x] \in Tariffs
BY ShopAssumption DEF D!DialogueAssumption

\* What paying for x costs, with a code of p percent.
LEMMA PaidFacts ==
    ASSUME NEW d \in D!DataType, d.dur \in Durations
    PROVE  /\ D!Paid(d) = D!Discounted(Price[d.dur], d.pct)
           /\ D!Paid(d) \in Nat /\ D!Paid(d) <= Price[d.dur] /\ Price[d.dur] \in Nat
<1>1. d.pct \in 0..100 BY Percentages DEF D!DataType
<1>2. Price[d.dur] \in Nat BY Prices
<1> QED BY <1>1, <1>2, Cheaper DEF D!Paid

Kinds == {"menu", "catalog", "durations", "prompt", "retry", "pay", "invoice", "done", "profile",
          "sub", "extlist", "extprompt", "extpay", "amount", "topup", "blank"}

\* The kinds of screens are those that have an entry for their buttons.
LEMMA KindsOfScreens == DOMAIN D!Buttons = Kinds
BY DEF D!Buttons, Kinds

\* A screen is what it was made of.
LEMMA ScreenFacts ==
    ASSUME NEW k \in Kinds, NEW item \in D!Items, NEW price \in Nat
    PROVE  /\ D!Screen(k, item, price) \in D!ScreenType
           /\ D!Screen(k, item, price).k = k
           /\ D!Screen(k, item, price).item = item
           /\ D!Screen(k, item, price).price = price
BY KindsOfScreens DEF D!Screen, D!ScreenType

\* The button that pays for a top-up is on its screen alone.
LEMMA TopupButton == \A k \in Kinds : "topup_pay" \in D!Buttons[k] => k = "topup"
BY DEF D!Buttons, Kinds

\* A screen that names nothing to buy promises nothing.
LEMMA PlainScreens ==
    /\ \A k \in Kinds \ {"extprompt", "extpay", "pay", "topup"} :
         ScreenOK(D!Screen(k, D!None, 0)) /\ D!Screen(k, D!None, 0).k \notin {"pay", "topup"}
    /\ D!Blank = D!Screen("blank", D!None, 0) /\ D!Catalog = D!Screen("catalog", D!None, 0)
    /\ D!Blank \in D!ScreenType
<1>1. D!None \in D!Items BY DEF D!Items
<1>2. "blank" \in Kinds BY DEF Kinds
<1> QED BY <1>1, <1>2, ScreenFacts DEF ScreenOK, D!Blank, D!Catalog

\* An empty dialogue and no bill have their types.
LEMMA EmptyFacts == D!Empty \in D!DataType /\ BillOK(D!NoBill)
<1>1. D!Empty \in D!DataType BY DEF D!Empty, D!DataType
<1>2. D!None \in D!Items BY DEF D!Items
<1> QED BY <1>1, <1>2, PlainScreens DEF D!NoBill, BillType, BillOK

\* A handler that buys something is made with what it buys.
LEMMA JobFacts ==
    ASSUME NEW h \in Handlers, NEW m \in Messages \cup {D!None}, NEW s \in D!ScreenType,
           NEW d \in D!DataType, h \in Buyers => d.dur \in Durations
    PROVE  JobOK([h |-> h, m |-> m, data |-> d, seen |-> s, last |-> FALSE])
BY DEF JobOK, JobType, Held

\* A handler that does not run is as it should be.
LEMMA IdleOK == JobOK(D!Idle)
<1>1. "idle" \in Handlers /\ "idle" \notin Buyers BY DEF Handlers, Buyers
<1> QED BY <1>1, JobFacts, EmptyFacts, PlainScreens DEF D!Idle

-----------------------------------------------------------------------------
\* A screen is shown in some message, or in none.
Shown(s) == \E m \in Messages \cup {D!None} : D!Show(m, s)

\* An answer shows its screen.
LEMMA AnswerShows == ASSUME NEW s, D!Answer(s) PROVE Shown(s)
BY DEF D!Answer, Shown

\* What showing a screen does to the chat and to the newest payment screen.
LEMMA ShownChat ==
    ASSUME ChatOK, NEW s, ScreenOK(s), Shown(s)
    PROVE  /\ ChatOK'
           /\ s.k \in {"pay", "topup"} => newest' = s
           /\ s.k \notin {"pay", "topup"} /\ st' = st => newest' = newest
<1>1. PICK m \in Messages \cup {D!None} : D!Show(m, s) BY DEF Shown
<1>2. s \in D!ScreenType BY DEF ScreenOK
<1>3. chat' \in [Messages -> D!ScreenType] BY <1>1, <1>2 DEF D!Show, ChatOK
<1>4. \A x \in Messages : chat'[x] = chat[x] \/ chat'[x] = s BY <1>1 DEF D!Show, ChatOK
<1>5. newest' \in {s, newest, D!Blank} BY <1>1 DEF D!Show
<1>6. newest' \in D!ScreenType BY <1>2, <1>5, PlainScreens DEF ChatOK
<1>7. \A x \in Messages : ScreenOK(chat'[x]) BY <1>4 DEF ChatOK
<1>8. /\ s.k \in {"pay", "topup"} => newest' = s
      /\ s.k \notin {"pay", "topup"} /\ st' = st => newest' = newest
  BY <1>1 DEF D!Show
<1> QED BY <1>3, <1>6, <1>7, <1>8 DEF ChatOK, ScreenOK

\* A handler that ends leaves the others as they should be.
LEMMA EndJobs ==
    ASSUME JobsOK, NEW j \in Jobs, D!End(j) PROVE JobsOK'
<1>1. D!Idle \in JobType BY IdleOK DEF JobOK
<1>2. jobs' \in [Jobs -> JobType] BY <1>1 DEF JobsOK, D!End
<1>3. \A i \in Jobs : jobs'[i] = jobs[i] \/ jobs'[i] = D!Idle BY DEF JobsOK, D!End
<1>4. \A i \in Jobs : JobOK(jobs'[i]) BY <1>3, IdleOK DEF JobsOK
<1> QED BY <1>2, <1>4 DEF JobsOK, JobOK

\* So does a handler that does not wait.
LEMMA InstantJobs ==
    ASSUME JobsOK, D!Instant PROVE JobsOK' /\ BillOK(bill')
BY EmptyFacts DEF JobsOK, D!Instant, D!Silent

\* A step that charges nothing bills nothing.
LEMMA SilentBill == ASSUME D!Silent PROVE BillOK(bill')
BY EmptyFacts DEF D!Silent

\* A job as it is read.
LEMMA JobIs ==
    ASSUME JobsOK, NEW j \in Jobs
    PROVE  /\ jobs[j].h \in Handlers /\ jobs[j].m \in Messages \cup {D!None}
           /\ jobs[j].seen \in D!ScreenType /\ jobs[j].data \in D!DataType
           /\ jobs[j].h \in Buyers => jobs[j].data.dur \in Durations
           /\ jobs[j].last \in BOOLEAN /\ Held(jobs[j])
BY DEF JobsOK, JobOK, JobType

\* Who charges on the newest screen charges what it names, at its price or less.
LEMMA Charged ==
    ASSUME JobsOK, NEW j \in Jobs, NEW item \in D!Items, NEW price \in Nat,
           jobs[j].last => item = jobs[j].seen.item /\ price <= jobs[j].seen.price,
           D!Charge(j, item, price)
    PROVE  BillOK(bill')
<1>1. jobs[j].seen \in D!ScreenType /\ jobs[j].last \in BOOLEAN BY JobIs
<1> DEFINE b == [seen |-> jobs[j].seen, last |-> jobs[j].last, item |-> item, price |-> price]
<1>2. b \in BillType BY <1>1 DEF BillType
<1>3. b.last => b.item = b.seen.item /\ b.price <= b.seen.price OBVIOUS
<1>4. bill' = b BY DEF D!Charge
<1> HIDE DEF b
<1> QED BY <1>2, <1>3, <1>4 DEF BillOK

\* The dialogue is left alone, or leaves the states in which something is bought.
LEMMA StayTalk ==
    ASSUME TalkOK, ChatOK, NEW s, ScreenOK(s), s.k \notin {"pay", "topup"}, Shown(s), D!Stay
    PROVE  TalkOK' /\ ChatOK'
<1>1. ChatOK' /\ newest' = newest BY ShownChat DEF D!Stay
<1> QED BY <1>1 DEF TalkOK, D!Stay, D!NewestIsHeld, D!Paid, D!Discounted

Buying == {"promo", "method", "ext_promo", "topup_method"}

\* A state in which nothing is bought promises nothing.
LEMMA LeaveTalk ==
    ASSUME ChatOK, NEW to \in D!States \ Buying, NEW d \in D!DataType, D!Put(to, d),
           NEW s, ScreenOK(s), Shown(s)
    PROVE  TalkOK' /\ ChatOK'
<1>1. ChatOK' BY ShownChat
<1> QED BY <1>1 DEF TalkOK, D!Put, D!NewestIsHeld, Buying

\* Nor does a dialogue that is over.
LEMMA ClearTalk ==
    ASSUME ChatOK, D!Clear, NEW s, ScreenOK(s), Shown(s)
    PROVE  TalkOK' /\ ChatOK'
<1>1. D!None \in D!States \ Buying BY DEF D!States, D!None, Buying
<1> QED BY <1>1, EmptyFacts, LeaveTalk DEF D!Clear

\* A handler starts to wait, as it should be.
LEMMA BeginWith ==
    ASSUME DialogueInv, NEW j \in Jobs, NEW r, JobOK(r), jobs' = [jobs EXCEPT ![j] = r],
           UNCHANGED <<st, data, chat, newest>>, BillOK(bill')
    PROVE  DialogueInv'
<1>1. r \in JobType BY DEF JobOK
<1>2. jobs' \in [Jobs -> JobType] BY <1>1 DEF DialogueInv, JobsOK
<1>3. \A i \in Jobs : jobs'[i] = jobs[i] \/ jobs'[i] = r BY DEF DialogueInv, JobsOK
<1>4. \A i \in Jobs : JobOK(jobs'[i]) BY <1>3 DEF DialogueInv, JobsOK
<1>5. JobsOK' BY <1>2, <1>4 DEF JobsOK, JobOK, Held, D!Paid, D!Discounted
<1>6. TalkOK' /\ ChatOK'
  BY DEF DialogueInv, TalkOK, ChatOK, ScreenOK, D!NewestIsHeld, D!Paid, D!Discounted
<1> QED BY <1>5, <1>6 DEF DialogueInv, BillOK

\* Most start with what they read and nothing that was seen.
LEMMA BeginStep ==
    ASSUME DialogueInv, NEW j \in Jobs, NEW h \in Handlers \ {"pay", "topup_pay"},
           NEW m \in Messages, NEW d \in D!DataType, h \in Buyers => d.dur \in Durations,
           D!Begin(j, h, m, d)
    PROVE  DialogueInv'
<1>1. PICK s \in D!ScreenType :
        jobs' = [jobs EXCEPT ![j] = [h |-> h, m |-> m, data |-> d, seen |-> s, last |-> FALSE]]
  <2>1. chat[m] \in D!ScreenType /\ D!Blank \in D!ScreenType
    BY PlainScreens DEF DialogueInv, ChatOK
  <2>2. (h \in {"pay", "topup_pay"} /\ chat[m] = newest) = FALSE OBVIOUS
  <2> QED BY <2>1, <2>2 DEF D!Begin
<1> DEFINE r == [h |-> h, m |-> m, data |-> d, seen |-> s, last |-> FALSE]
<1>2. JobOK(r) BY JobFacts
<1>3. UNCHANGED <<st, data, chat, newest>> /\ BillOK(bill') BY EmptyFacts DEF D!Begin
<1>4. jobs' = [jobs EXCEPT ![j] = r] BY <1>1
<1> HIDE DEF r
<1> QED BY <1>2, <1>3, <1>4, BeginWith

\* Those that pay start with the screen whose button was pressed.
LEMMA PayBeginStep ==
    ASSUME DialogueInv, NEW j \in Jobs, NEW m \in Messages,
           D!PayBegin(j, m) \/ D!TopupPayBegin(j, m)
    PROVE  DialogueInv'
<1>1. PICK h \in {"pay", "topup_pay"} :
        /\ D!Begin(j, h, m, data)
        /\ D!Has(m, h) /\ st = (IF h = "pay" THEN "method" ELSE "topup_method")
  BY DEF D!PayBegin, D!TopupPayBegin
<1>2. PICK last \in BOOLEAN :
        /\ last <=> chat[m] = newest
        /\ jobs' = [jobs EXCEPT ![j] = [h |-> h, m |-> m, data |-> data, seen |-> chat[m],
                                        last |-> last]]
  <2>1. (h \in {"pay", "topup_pay"} /\ chat[m] = newest) \in BOOLEAN
        /\ ((h \in {"pay", "topup_pay"} /\ chat[m] = newest) <=> chat[m] = newest)
    BY <1>1
  <2> QED BY <1>1, <2>1 DEF D!Begin
<1> DEFINE r == [h |-> h, m |-> m, data |-> data, seen |-> chat[m], last |-> last]
<1>3. /\ data \in D!DataType /\ D!NewestIsHeld
      /\ st = "method" => data.dur \in Durations
      /\ ScreenOK(chat[m])
  BY DEF DialogueInv, TalkOK, ChatOK
<1>4. h = "topup_pay" => chat[m].item = D!None
  <2>1. chat[m].k \in Kinds BY <1>3, KindsOfScreens DEF ScreenOK, D!ScreenType
  <2> QED BY <1>1, <1>3, <2>1, TopupButton DEF D!Has, ScreenOK
<1>5. r \in JobType
  BY <1>3 DEF JobType, Handlers, ScreenOK
<1>6. h = "pay" => data.dur \in Durations BY <1>1, <1>3
<1>7. Held(r)
  BY <1>1, <1>2, <1>3, <1>4 DEF Held, D!NewestIsHeld
<1>8. JobOK(r) BY <1>5, <1>6, <1>7 DEF JobOK, Buyers
<1>9. UNCHANGED <<st, data, chat, newest>> /\ BillOK(bill')
  BY <1>1, EmptyFacts DEF D!Begin
<1>10. jobs' = [jobs EXCEPT ![j] = r] BY <1>2
<1> HIDE DEF r
<1> QED BY <1>8, <1>9, <1>10, BeginWith

\* The handlers are as they should be: nothing changed for them, or one ended.
Handled == (D!Instant \/ \E j \in Jobs : D!End(j)) /\ BillOK(bill')

\* Then the handlers and the bill stay as they should be.
LEMMA HandledJobs == JobsOK /\ Handled => JobsOK' /\ BillOK(bill')
BY EndJobs, InstantJobs DEF Handled

\* A step that leaves the dialogue alone and shows no payment screen.
LEMMA StayStep ==
    ASSUME DialogueInv, Handled, D!Stay, NEW s, ScreenOK(s), s.k \notin {"pay", "topup"}, Shown(s)
    PROVE  DialogueInv'
BY HandledJobs, StayTalk DEF DialogueInv

\* A step that ends the dialogue.
LEMMA ClearStep ==
    ASSUME DialogueInv, Handled, D!Clear, NEW s, ScreenOK(s), Shown(s)
    PROVE  DialogueInv'
BY HandledJobs, ClearTalk DEF DialogueInv

\* A step into a state in which nothing is bought.
LEMMA LeaveStep ==
    ASSUME DialogueInv, Handled, NEW to \in D!States \ Buying, NEW d \in D!DataType, D!Put(to, d),
           NEW s, ScreenOK(s), Shown(s)
    PROVE  DialogueInv'
BY HandledJobs, LeaveTalk DEF DialogueInv

\* A state in which something is bought is entered, or stays the same.
LEMMA EnterStep ==
    ASSUME DialogueInv, Handled, NEW s, ScreenOK(s), Shown(s), TalkOK'
    PROVE  DialogueInv'
BY HandledJobs, ShownChat DEF DialogueInv

-----------------------------------------------------------------------------
\* /start and the screens that leave the dialogue alone.
LEMMA LookStep ==
    ASSUME DialogueInv, NEW m \in Messages, NEW k \in {"menu", "sub"}, D!Look(m, k)
    PROVE  DialogueInv'
<1> DEFINE s == D!Screen(k, D!None, 0)
<1>1. ScreenOK(s) /\ s.k \notin {"pay", "topup"} BY PlainScreens DEF Kinds
<1>2. D!Stay /\ D!Show(m, s) /\ D!Instant BY DEF D!Look
<1>3. Handled BY <1>2, InstantJobs DEF Handled, DialogueInv
<1>4. Shown(s) BY <1>2 DEF Shown
<1> HIDE DEF s
<1> QED BY <1>1, <1>2, <1>3, <1>4, StayStep

\* The catalog and the profile end the dialogue.
LEMMA CatalogStep ==
    ASSUME DialogueInv, NEW m \in Messages, D!OpenCatalog(m) \/ D!OpenProfile(m)
    PROVE  DialogueInv'
<1>1. D!Clear /\ D!Instant BY DEF D!OpenCatalog, D!OpenProfile
<1>2. PICK s \in {D!Catalog, D!Blank, D!Screen("profile", D!None, 0)} : D!Show(m, s)
  BY DEF D!OpenCatalog, D!OpenProfile
<1>3. ScreenOK(s) BY PlainScreens DEF Kinds
<1>4. Handled BY <1>1, InstantJobs DEF Handled, DialogueInv
<1>5. Shown(s) BY <1>2 DEF Shown
<1> QED BY <1>1, <1>3, <1>4, <1>5, ClearStep

\* Opening a tariff changes nothing of what a state promises.
LEMMA PickTariffStep ==
    ASSUME DialogueInv, NEW m \in Messages, NEW t \in Tariffs, D!PickTariff(m, t)
    PROVE  DialogueInv'
<1> DEFINE s == D!Screen("durations", t, 0)
<1>1. ScreenOK(s) /\ s.k \notin {"pay", "topup"}
  <2>1. "durations" \in Kinds /\ t \in D!Items BY DEF Kinds, D!Items
  <2> QED BY <2>1, ScreenFacts DEF ScreenOK
<1>2. /\ st' = st /\ data' = [data EXCEPT !.tariff = t] /\ D!Instant /\ D!Show(m, s)
  BY DEF D!PickTariff, D!Put
<1>3. Handled BY <1>2, InstantJobs DEF Handled, DialogueInv
<1>4. Shown(s) BY <1>2 DEF Shown
<1> HIDE DEF s
<1>5. newest' = newest BY <1>1, <1>2, <1>4, ShownChat DEF DialogueInv
<1>6. /\ data' \in D!DataType /\ data'.dur = data.dur /\ data'.pct = data.pct
      /\ data'.amount = data.amount
  <2>1. data \in D!DataType BY DEF DialogueInv, TalkOK
  <2> QED BY <1>2, <2>1 DEF D!DataType
<1>7. TalkOK'
  BY <1>2, <1>5, <1>6 DEF DialogueInv, TalkOK, D!NewestIsHeld, D!Paid, D!Discounted
<1> QED BY <1>1, <1>3, <1>4, <1>7, EnterStep

\* A duration is chosen: the dialogue knows what is bought.
LEMMA PickDurationStep ==
    ASSUME DialogueInv, NEW m \in Messages, NEW x \in Durations, D!PickDuration(m, x)
    PROVE  DialogueInv'
<1> DEFINE s == D!Screen("prompt", D!None, 0)
<1>1. ScreenOK(s) BY PlainScreens DEF Kinds
<1>2. /\ st' = "promo" /\ data' = [data EXCEPT !.tariff = TariffOf[x], !.dur = x]
      /\ D!Instant /\ D!Show(m, s)
  BY DEF D!PickDuration, D!Put
<1>3. Handled BY <1>2, InstantJobs DEF Handled, DialogueInv
<1>4. Shown(s) BY <1>2 DEF Shown
<1>5. data' \in D!DataType /\ data'.dur = x
  <2>1. data \in D!DataType /\ TariffOf[x] \in Tariffs BY Prices DEF DialogueInv, TalkOK
  <2> QED BY <1>2, <2>1 DEF D!DataType
<1>6. TalkOK' BY <1>2, <1>5 DEF TalkOK, D!NewestIsHeld, D!States
<1> HIDE DEF s
<1> QED BY <1>1, <1>3, <1>4, <1>6, EnterStep

\* So does an extension.
LEMMA ExtDurationStep ==
    ASSUME DialogueInv, NEW m \in Messages, NEW x \in Durations, D!ExtDuration(m, x)
    PROVE  DialogueInv'
<1> DEFINE s == D!Screen("extprompt", x, 0)
<1>1. ScreenOK(s)
  <2>1. "extprompt" \in Kinds /\ x \in D!Items BY DEF Kinds, D!Items
  <2> QED BY <2>1, ScreenFacts DEF ScreenOK
<1>2. /\ st' = "ext_promo" /\ data' = [data EXCEPT !.dur = x] /\ D!Instant /\ D!Show(m, s)
  BY DEF D!ExtDuration, D!Put
<1>3. Handled BY <1>2, InstantJobs DEF Handled, DialogueInv
<1>4. Shown(s) BY <1>2 DEF Shown
<1>5. data' \in D!DataType /\ data'.dur = x
  <2>1. data \in D!DataType BY DEF DialogueInv, TalkOK
  <2> QED BY <1>2, <2>1 DEF D!DataType
<1>6. TalkOK' BY <1>2, <1>5 DEF TalkOK, D!NewestIsHeld, D!States
<1> HIDE DEF s
<1> QED BY <1>1, <1>3, <1>4, <1>6, EnterStep

\* Back to the durations of the tariff, or to the catalog.
LEMMA BackStep ==
    ASSUME DialogueInv, NEW m \in Messages, D!Back(m)
    PROVE  DialogueInv'
<1>1. D!Instant BY DEF D!Back
<1>2. Handled BY <1>1, InstantJobs DEF Handled, DialogueInv
<1>3. CASE data.tariff = D!None
  <2>1. D!Clear /\ Shown(D!Catalog) BY <1>3 DEF D!Back, Shown
  <2>2. ScreenOK(D!Catalog) BY PlainScreens DEF Kinds
  <2> QED BY <1>2, <2>1, <2>2, ClearStep
<1>4. CASE data.tariff # D!None
  <2> DEFINE s == D!Screen("durations", data.tariff, 0)
  <2>1. ScreenOK(s)
    <3>1. data.tariff \in Tariffs \cup {D!None} BY DEF DialogueInv, TalkOK, D!DataType
    <3>2. "durations" \in Kinds /\ data.tariff \in D!Items BY <3>1 DEF Kinds, D!Items
    <3> QED BY <3>2, ScreenFacts DEF ScreenOK
  <2>2. D!Put(D!None, data) /\ Shown(s) BY <1>4 DEF D!Back, Shown
  <2>3. data \in D!DataType BY DEF DialogueInv, TalkOK
  <2>4. D!None \in D!States \ Buying BY DEF D!States, D!None, Buying
  <2> HIDE DEF s
  <2> QED BY <1>2, <2>1, <2>2, <2>3, <2>4, LeaveStep
<1> QED BY <1>3, <1>4

\* Another code is asked for.
LEMMA RetryStep ==
    ASSUME DialogueInv, NEW m \in Messages, D!Retry(m)
    PROVE  DialogueInv'
<1> DEFINE s == D!Screen("prompt", D!None, 0)
<1>1. ScreenOK(s) /\ s.k \notin {"pay", "topup"} BY PlainScreens DEF Kinds
<1>2. D!Stay /\ D!Show(m, s) /\ D!Instant BY DEF D!Retry
<1>3. Handled BY <1>2, InstantJobs DEF Handled, DialogueInv
<1>4. Shown(s) BY <1>2 DEF Shown
<1> HIDE DEF s
<1> QED BY <1>1, <1>2, <1>3, <1>4, StayStep

\* Topping up and entering a code start from nothing.
LEMMA OpenStep ==
    ASSUME DialogueInv, NEW m \in Messages, D!Topup(m) \/ D!OpenPromo(m)
    PROVE  DialogueInv'
<1>1. D!Instant BY DEF D!Topup, D!OpenPromo
<1>2. Handled BY <1>1, InstantJobs DEF Handled, DialogueInv
<1>3. PICK to \in {"amount", "input"},
           s \in {D!Screen("amount", D!None, 0), D!Screen("done", D!None, 0)} :
        D!Put(to, D!Empty) /\ D!Show(m, s)
  BY DEF D!Topup, D!OpenPromo
<1>4. ScreenOK(s) /\ Shown(s) BY <1>3, PlainScreens DEF Kinds, Shown
<1>5. to \in D!States \ Buying BY DEF D!States, Buying
<1> QED BY <1>2, <1>3, <1>4, <1>5, EmptyFacts, LeaveStep

\* What is topped up is what the new screen asks to pay.
LEMMA TypeAmountStep ==
    ASSUME DialogueInv, NEW a \in Amounts, D!TypeAmount(a)
    PROVE  DialogueInv'
<1>1. D!Instant /\ a \in Nat BY ShopAssumption DEF D!TypeAmount, D!DialogueAssumption
<1>2. Handled BY <1>1, InstantJobs DEF Handled, DialogueInv
<1>3. CASE /\ D!Put("topup_method", [data EXCEPT !.amount = a])
           /\ D!Answer(D!Screen("topup", D!None, a))
  <2> DEFINE s == D!Screen("topup", D!None, a)
  <2>1. ScreenOK(s) /\ s.k = "topup" /\ s.price = a
    <3>1. "topup" \in Kinds /\ D!None \in D!Items BY DEF Kinds, D!Items
    <3> QED BY <3>1, <1>1, ScreenFacts DEF ScreenOK
  <2>2. Shown(s) BY <1>3, AnswerShows
  <2> HIDE DEF s
  <2>3. newest' = s BY <2>1, <2>2, ShownChat DEF DialogueInv
  <2>4. data' \in D!DataType /\ data'.amount = a
    <3>1. data \in D!DataType BY DEF DialogueInv, TalkOK
    <3>2. data' = [data EXCEPT !.amount = a] BY <1>3 DEF D!Put
    <3> QED BY <1>1, <3>1, <3>2 DEF D!DataType
  <2>5. st' = "topup_method" BY <1>3 DEF D!Put
  <2>6. TalkOK' BY <2>1, <2>3, <2>4, <2>5 DEF TalkOK, D!NewestIsHeld, D!States
  <2> QED BY <1>2, <2>1, <2>2, <2>6, EnterStep
<1>4. CASE D!Stay /\ D!Answer(D!Screen("amount", D!None, 0))
  <2> DEFINE s == D!Screen("amount", D!None, 0)
  <2>1. ScreenOK(s) /\ s.k \notin {"pay", "topup"} BY PlainScreens DEF Kinds
  <2>2. Shown(s) BY <1>4, AnswerShows
  <2> HIDE DEF s
  <2> QED BY <1>2, <1>4, <2>1, <2>2, StayStep
<1> QED BY <1>3, <1>4 DEF D!TypeAmount

-----------------------------------------------------------------------------
\* The buttons of an extension are on screens that say for how long.
LEMMA ExtButtons ==
    \A k \in Kinds : "ext_pay" \in D!Buttons[k] \/ "ext_promo_skip" \in D!Buttons[k]
                       => k \in {"extprompt", "extpay"}
BY DEF D!Buttons, Kinds

\* A pressed button of an extension says for how long.
LEMMA PressedFor ==
    ASSUME ChatOK, NEW m \in Messages, D!Has(m, "ext_pay") \/ D!Has(m, "ext_promo_skip")
    PROVE  chat[m].item \in Durations
<1>1. ScreenOK(chat[m]) BY DEF ChatOK
<1>2. chat[m].k \in Kinds BY <1>1, KindsOfScreens DEF ScreenOK, D!ScreenType
<1> QED BY <1>1, <1>2, ExtButtons DEF D!Has, ScreenOK

\* Every handler that waits has read what it needs.
LEMMA Begins ==
    ASSUME DialogueInv, NEW j \in Jobs, NEW m \in Messages,
           \/ D!SkipBegin(j, m) \/ D!CodeBegin(j, m) \/ D!PayBegin(j, m) \/ D!ExtendBegin(j, m)
           \/ D!ExtSkipBegin(j, m) \/ D!ExtCodeBegin(j, m) \/ D!ExtPayBegin(j, m)
           \/ D!TopupPayBegin(j, m) \/ D!SoloBegin(j, m)
    PROVE  DialogueInv'
<1>1. data \in D!DataType BY DEF DialogueInv, TalkOK
<1>2. CASE D!SkipBegin(j, m) \/ D!ExtCodeBegin(j, m)
  <2>1. data.dur \in Durations
    BY <1>2 DEF DialogueInv, TalkOK, D!SkipBegin, D!ExtCodeBegin
  <2>2. PICK h \in {"skip", "ext_code"} : D!Begin(j, h, m, data)
    BY <1>2 DEF D!SkipBegin, D!ExtCodeBegin
  <2>3. h \in Handlers BY DEF Handlers
  <2> QED BY <1>1, <2>1, <2>2, <2>3, BeginStep
<1>3. CASE D!CodeBegin(j, m) \/ D!ExtendBegin(j, m) \/ D!SoloBegin(j, m)
  <2>1. PICK h \in {"code", "extend", "solo"} : D!Begin(j, h, m, D!Empty)
    BY <1>3 DEF D!CodeBegin, D!ExtendBegin, D!SoloBegin
  <2>2. h \in Handlers /\ h \notin Buyers BY DEF Handlers, Buyers
  <2> QED BY <2>1, <2>2, EmptyFacts, BeginStep
<1>4. CASE D!ExtSkipBegin(j, m) \/ D!ExtPayBegin(j, m)
  <2> DEFINE d == [D!Empty EXCEPT !.dur = chat[m].item]
  <2>1. chat[m].item \in Durations
    BY <1>4, PressedFor DEF DialogueInv, D!ExtSkipBegin, D!ExtPayBegin
  <2>2. d \in D!DataType /\ d.dur \in Durations BY <2>1, EmptyFacts DEF D!DataType
  <2>3. PICK h \in {"ext_skip", "ext_pay"} : D!Begin(j, h, m, d)
    BY <1>4 DEF D!ExtSkipBegin, D!ExtPayBegin
  <2>4. h \in Handlers BY DEF Handlers
  <2> HIDE DEF d
  <2> QED BY <2>2, <2>3, <2>4, BeginStep
<1>5. CASE D!PayBegin(j, m) \/ D!TopupPayBegin(j, m) BY <1>5, PayBeginStep
<1> QED BY <1>2, <1>3, <1>4, <1>5

-----------------------------------------------------------------------------
\* The screens that most handlers show.
LEMMA Plain ==
    \A s \in {D!Blank, D!Catalog, D!Screen("retry", D!None, 0), D!Screen("done", D!None, 0),
              D!Screen("sub", D!None, 0), D!Screen("extlist", D!None, 0)} :
        ScreenOK(s) /\ s.k \notin {"pay", "topup"}
<1>1. {"retry", "done", "sub", "extlist", "blank", "catalog"}
        \subseteq Kinds \ {"extprompt", "extpay", "pay", "topup"}
  BY DEF Kinds
<1> QED BY <1>1, PlainScreens

\* A handler ended.
LEMMA Ended == \A j \in Jobs : D!End(j) /\ BillOK(bill') => Handled
BY DEF Handled

\* A handler edits the message whose button was pressed.
LEMMA JobShows ==
    ASSUME JobsOK, NEW j \in Jobs, NEW s, D!Show(jobs[j].m, s)
    PROVE  Shown(s)
BY JobIs DEF Shown

\* A payment method is asked for: the screen shows what is held, and at least its price.
LEMMA MethodStep ==
    ASSUME DialogueInv, Handled, st' = "method", data' \in D!DataType, data'.dur \in Durations,
           NEW price \in Nat, D!Paid(data') <= price, Shown(D!Screen("pay", data'.dur, price))
    PROVE  DialogueInv'
<1> DEFINE s == D!Screen("pay", data'.dur, price)
<1>1. ScreenOK(s) /\ s.k = "pay" /\ s.item = data'.dur /\ s.price = price
  <2>1. "pay" \in Kinds /\ data'.dur \in D!Items BY DEF Kinds, D!Items
  <2> QED BY <2>1, ScreenFacts DEF ScreenOK
<1>2. Shown(s) OBVIOUS
<1> HIDE DEF s
<1>3. newest' = s BY <1>1, <1>2, ShownChat DEF DialogueInv
<1>4. (D!Paid(data))' = D!Paid(data') BY DEF D!Paid, D!Discounted
<1>5. TalkOK' BY <1>1, <1>3, <1>4 DEF TalkOK, D!NewestIsHeld, D!States
<1> QED BY <1>1, <1>2, <1>5, EnterStep

\* Another state is entered, nothing in it is bought yet.
LEMMA InvoiceStep ==
    ASSUME DialogueInv, Handled, NEW to \in D!States \ Buying, NEW d \in D!DataType, D!Put(to, d),
           NEW k \in {"invoice", "extpay"}, NEW item \in D!Items, NEW price \in Nat,
           k = "extpay" => item \in Durations, Shown(D!Screen(k, item, price))
    PROVE  DialogueInv'
<1> DEFINE s == D!Screen(k, item, price)
<1>1. ScreenOK(s)
  <2>1. k \in Kinds BY DEF Kinds
  <2> QED BY <2>1, ScreenFacts DEF ScreenOK
<1>2. Shown(s) OBVIOUS
<1> HIDE DEF s
<1> QED BY <1>1, <1>2, LeaveStep

\* cb_promo_skip writes what it had read with the price it shows.
LEMMA SkipStep ==
    ASSUME DialogueInv, NEW j \in Jobs, D!Skip(j) PROVE DialogueInv'
<1> DEFINE d == jobs[j].data
<1>1. d \in D!DataType /\ d.dur \in Durations
  BY JobIs DEF DialogueInv, D!Skip, D!Runs, Buyers
<1>2. Handled BY SilentBill, Ended DEF D!Skip
<1>3. CASE /\ D!Put("method", [data EXCEPT !.tariff = d.tariff, !.dur = d.dur, !.amount = Price[d.dur]])
           /\ D!Show(jobs[j].m, D!Screen("pay", d.dur, Price[d.dur]))
  <2>1. data \in D!DataType /\ Price[d.dur] \in Nat BY <1>1, Prices DEF DialogueInv, TalkOK
  <2>2. data' = [data EXCEPT !.tariff = d.tariff, !.dur = d.dur, !.amount = Price[d.dur]]
    BY <1>3 DEF D!Put
  <2>3. data' \in D!DataType /\ data'.dur = d.dur
    BY <1>1, <2>1, <2>2 DEF D!DataType
  <2>4. D!Paid(data') <= Price[d.dur] BY <1>1, <2>3, PaidFacts
  <2>5. st' = "method" BY <1>3 DEF D!Put
  <2>6. Shown(D!Screen("pay", data'.dur, Price[d.dur])) BY <1>3, <2>3, JobShows DEF DialogueInv
  <2> QED BY <1>1, <1>2, <2>1, <2>3, <2>4, <2>5, <2>6, MethodStep
<1>4. CASE D!Stay /\ D!Show(jobs[j].m, D!Blank)
  BY <1>2, <1>4, Plain, JobShows, StayStep DEF DialogueInv
<1> QED BY <1>3, <1>4 DEF D!Skip

\* So does a discount, and the price shown is the one it leaves.
LEMMA PricedStep ==
    ASSUME DialogueInv, NEW j \in Jobs, D!Priced(j) PROVE DialogueInv'
<1> DEFINE d == jobs[j].data
<1>1. d \in D!DataType /\ d.dur \in Durations
  BY JobIs DEF DialogueInv, D!Priced, D!Runs, Buyers
<1>2. Handled BY SilentBill, Ended DEF D!Priced
<1>3. CASE /\ D!Put("method", [data EXCEPT !.tariff = d.tariff, !.dur = d.dur, !.pct = d.pct,
                                           !.amount = Price[d.dur]])
           /\ D!Answer(D!Screen("pay", d.dur, D!Discounted(Price[d.dur], d.pct)))
  <2>1. data \in D!DataType /\ Price[d.dur] \in Nat BY <1>1, Prices DEF DialogueInv, TalkOK
  <2>2. data' = [data EXCEPT !.tariff = d.tariff, !.dur = d.dur, !.pct = d.pct,
                             !.amount = Price[d.dur]]
    BY <1>3 DEF D!Put
  <2>3. data' \in D!DataType /\ data'.dur = d.dur /\ data'.pct = d.pct
    BY <1>1, <2>1, <2>2 DEF D!DataType
  <2>4. /\ D!Paid(data') = D!Discounted(Price[d.dur], d.pct)
        /\ D!Paid(data') \in Nat
    BY <1>1, <2>3, PaidFacts
  <2>5. st' = "method" BY <1>3 DEF D!Put
  <2>6. Shown(D!Screen("pay", data'.dur, D!Paid(data'))) BY <1>3, <2>3, <2>4, AnswerShows
  <2>7. D!Paid(data') <= D!Paid(data') BY <2>4
  <2> QED BY <1>1, <1>2, <2>3, <2>4, <2>5, <2>6, <2>7, MethodStep
<1>4. CASE D!Stay /\ D!Answer(D!Blank)
  BY <1>2, <1>4, Plain, AnswerShows, StayStep
<1> QED BY <1>3, <1>4 DEF D!Priced

\* Some other handlers change no more than the screen, or end the dialogue.
LEMMA PlainEnd ==
    ASSUME DialogueInv, Handled, D!Stay \/ D!Clear,
           NEW s \in {D!Blank, D!Catalog, D!Screen("retry", D!None, 0), D!Screen("done", D!None, 0),
                      D!Screen("sub", D!None, 0), D!Screen("extlist", D!None, 0)}, Shown(s)
    PROVE  DialogueInv'
BY Plain, StayStep, ClearStep

\* The durations of an extension.
LEMMA ExtendStep ==
    ASSUME DialogueInv, NEW j \in Jobs, D!Extend(j) PROVE DialogueInv'
<1>1. Handled BY SilentBill, Ended DEF D!Extend
<1>2. PICK s \in {D!Blank, D!Screen("extlist", D!None, 0)} :
        (D!Stay \/ D!Clear) /\ D!Show(jobs[j].m, s)
  BY DEF D!Extend
<1>3. Shown(s) BY <1>2, JobShows DEF DialogueInv
<1> QED BY <1>1, <1>2, <1>3, PlainEnd

\* A code entered by itself ends the dialogue.
LEMMA SoloStep ==
    ASSUME DialogueInv, NEW j \in Jobs, D!Solo(j) PROVE DialogueInv'
<1>1. Handled BY SilentBill, Ended DEF D!Solo
<1>2. PICK s \in {D!Blank, D!Screen("done", D!None, 0)} : (D!Stay \/ D!Clear) /\ D!Answer(s)
  BY DEF D!Solo
<1>3. Shown(s) BY <1>2, AnswerShows
<1> QED BY <1>1, <1>2, <1>3, PlainEnd

\* A code is refused, used up, or what is bought is read for the discount.
LEMMA CodeStep ==
    ASSUME DialogueInv, NEW j \in Jobs, NEW pct \in Percents, D!CodeAnswered(j, pct)
    PROVE  DialogueInv'
<1> DEFINE d == [data EXCEPT !.pct = pct]
<1>1. CASE D!End(j)
  <2>1. Handled BY <1>1, SilentBill, Ended DEF D!CodeAnswered
  <2>2. CASE \E s \in {D!Blank, D!Screen("retry", D!None, 0), D!Screen("done", D!None, 0)} :
               (D!Stay \/ D!Clear) /\ D!Answer(s)
    <3>1. PICK s \in {D!Blank, D!Screen("retry", D!None, 0), D!Screen("done", D!None, 0)} :
               (D!Stay \/ D!Clear) /\ D!Answer(s)
      BY <2>2
    <3>2. Shown(s) BY <3>1, AnswerShows
    <3> QED BY <2>1, <3>1, <3>2, PlainEnd
  <2>3. CASE UNCHANGED <<st, data, chat, newest>>
    BY <2>1, <2>3, HandledJobs
       DEF DialogueInv, TalkOK, ChatOK, ScreenOK, D!NewestIsHeld, D!Paid, D!Discounted
  <2> QED BY <1>1, <2>2, <2>3 DEF D!CodeAnswered
<1>2. CASE /\ data.tariff # D!None /\ data.dur # D!None
           /\ jobs' = [jobs EXCEPT ![j].h = "priced", ![j].data = d]
           /\ UNCHANGED <<st, data, chat, newest>>
  <2>1. data \in D!DataType /\ data.dur \in Durations
    BY <1>2 DEF DialogueInv, TalkOK, D!DataType
  <2>2. d \in D!DataType /\ d.dur \in Durations BY <2>1 DEF D!DataType
  <2> HIDE DEF d
  <2>3. JobsOK'
    <3> DEFINE r == [jobs[j] EXCEPT !.h = "priced", !.data = d]
    <3>1. jobs' = [jobs EXCEPT ![j] = r] BY <1>2 DEF DialogueInv, JobsOK, JobType
    <3>2. JobOK(r)
      <4>1. ~jobs[j].last /\ jobs[j] \in JobType
        BY JobIs DEF DialogueInv, JobsOK, Held, D!CodeAnswered, D!Runs
      <4>2. r \in JobType BY <2>2, <4>1 DEF JobType, Handlers
      <4>3. ~r.last /\ r.data = d BY <4>1 DEF JobType
      <4> QED BY <2>2, <4>2, <4>3 DEF JobOK, Held
    <3> HIDE DEF r
    <3>3. jobs' \in [Jobs -> JobType] BY <3>1, <3>2 DEF DialogueInv, JobsOK, JobOK
    <3>4. \A i \in Jobs : jobs'[i] = jobs[i] \/ jobs'[i] = r BY <3>1 DEF DialogueInv, JobsOK
    <3>5. \A i \in Jobs : JobOK(jobs'[i]) BY <3>2, <3>4 DEF DialogueInv, JobsOK
    <3> QED BY <3>3, <3>5 DEF JobsOK, JobOK
  <2>4. BillOK(bill') BY SilentBill DEF D!CodeAnswered
  <2>5. TalkOK' /\ ChatOK'
    BY <1>2 DEF DialogueInv, TalkOK, ChatOK, ScreenOK, D!NewestIsHeld, D!Paid, D!Discounted
  <2> QED BY <2>3, <2>4, <2>5 DEF DialogueInv
<1> QED BY <1>1, <1>2 DEF D!CodeAnswered

\* Paying bills what was read, and asks for no method any more.
LEMMA PayStep ==
    ASSUME DialogueInv, NEW j \in Jobs, D!Pay(j) PROVE DialogueInv'
<1> DEFINE d == jobs[j].data
<1>1. /\ d \in D!DataType /\ d.dur \in Durations /\ jobs[j].seen \in D!ScreenType
      /\ data \in D!DataType
  BY JobIs DEF DialogueInv, TalkOK, D!Pay, D!Runs, Buyers
<1>2. D!Paid(d) \in Nat /\ d.dur \in D!Items /\ D!None \in D!Items
  BY <1>1, PaidFacts DEF D!Items
<1>3. jobs[j].last => d.dur = jobs[j].seen.item /\ D!Paid(d) <= jobs[j].seen.price
  BY JobIs DEF DialogueInv, Held, D!Pay, D!Runs
<1>4. BillOK(bill')
  <2>1. D!Charge(j, d.dur, D!Paid(d)) \/ D!Silent BY DEF D!Pay
  <2> HIDE DEF d
  <2> QED BY <1>2, <1>3, <2>1, SilentBill, Charged DEF DialogueInv
<1>5. Handled BY <1>4, Ended DEF D!Pay
<1>6. CASE \E s \in {D!Blank, D!Catalog, D!Screen("done", D!None, 0)} :
             (D!Stay \/ D!Clear) /\ D!Show(jobs[j].m, s)
  <2>1. PICK s \in {D!Blank, D!Catalog, D!Screen("done", D!None, 0)} :
             (D!Stay \/ D!Clear) /\ D!Show(jobs[j].m, s)
    BY <1>6
  <2>2. Shown(s) BY <2>1, JobShows DEF DialogueInv
  <2> QED BY <1>5, <2>1, <2>2, PlainEnd
<1>7. CASE /\ D!Put("awaiting", data)
           /\ D!Show(jobs[j].m, D!Screen("invoice", D!None, D!Paid(d)))
  <2>1. Shown(D!Screen("invoice", D!None, D!Paid(d))) BY <1>7, JobShows DEF DialogueInv
  <2>2. "awaiting" \in D!States \ Buying BY DEF D!States, Buying
  <2> HIDE DEF d
  <2> QED BY <1>1, <1>2, <1>5, <1>7, <2>1, <2>2, InvoiceStep
<1> QED BY <1>6, <1>7 DEF D!Pay

\* An extension without a code.
LEMMA ExtSkipStep ==
    ASSUME DialogueInv, NEW j \in Jobs, D!ExtSkip(j) PROVE DialogueInv'
<1> DEFINE x == jobs[j].data.dur
<1>1. x \in Durations /\ data \in D!DataType
  BY JobIs DEF DialogueInv, TalkOK, D!ExtSkip, D!Runs, Buyers
<1>2. Handled BY SilentBill, Ended DEF D!ExtSkip
<1>3. CASE /\ D!Put("ext_method", [data EXCEPT !.dur = x, !.pct = 0])
           /\ D!Show(jobs[j].m, D!Screen("extpay", x, Price[x]))
  <2> DEFINE d == [data EXCEPT !.dur = x, !.pct = 0]
  <2>1. d \in D!DataType BY <1>1 DEF D!DataType
  <2>2. Shown(D!Screen("extpay", x, Price[x])) BY <1>3, JobShows DEF DialogueInv
  <2>3. "ext_method" \in D!States \ Buying BY DEF D!States, Buying
  <2>4. Price[x] \in Nat /\ x \in D!Items BY <1>1, Prices DEF D!Items
  <2>5. D!Put("ext_method", d) BY <1>3
  <2> HIDE DEF d, x
  <2> QED BY <1>1, <1>2, <2>1, <2>2, <2>3, <2>4, <2>5, InvoiceStep
<1>4. CASE D!Stay /\ D!Show(jobs[j].m, D!Blank)
  BY <1>2, <1>4, Plain, JobShows, StayStep DEF DialogueInv
<1> QED BY <1>3, <1>4 DEF D!ExtSkip

\* The percent of a code for an extension.
LEMMA ExtCodeStep ==
    ASSUME DialogueInv, NEW j \in Jobs, NEW pct \in Percents, D!ExtCodeAnswered(j, pct)
    PROVE  DialogueInv'
<1> DEFINE d == [jobs[j].data EXCEPT !.pct = pct]
<1>1. CASE /\ D!End(j)
           /\ \E s \in {D!Blank, D!Screen("retry", D!None, 0), D!Screen("done", D!None, 0)} :
                 (D!Stay \/ D!Clear) /\ D!Answer(s)
  <2>1. Handled BY <1>1, SilentBill, Ended DEF D!ExtCodeAnswered
  <2>2. PICK s \in {D!Blank, D!Screen("retry", D!None, 0), D!Screen("done", D!None, 0)} :
             (D!Stay \/ D!Clear) /\ D!Answer(s)
    BY <1>1
  <2>3. Shown(s) BY <2>2, AnswerShows
  <2> QED BY <2>1, <2>2, <2>3, PlainEnd
<1>2. CASE /\ D!Put("ext_method", [data EXCEPT !.pct = pct])
           /\ jobs' = [jobs EXCEPT ![j].h = "ext_priced", ![j].data.pct = pct]
           /\ newest' = (IF st' = st THEN newest ELSE D!Blank)
           /\ UNCHANGED chat
  <2>1. /\ jobs[j].data \in D!DataType /\ jobs[j].data.dur \in Durations
        /\ jobs[j] \in JobType /\ data \in D!DataType
    <3>1. jobs[j].h = "ext_code" /\ jobs[j] \in JobType /\ data \in D!DataType
      BY DEF DialogueInv, TalkOK, JobsOK, D!ExtCodeAnswered, D!Runs
    <3> QED BY <3>1, JobIs DEF DialogueInv, Buyers
  <2>2. d \in D!DataType /\ d.dur \in Durations BY <2>1 DEF D!DataType
  <2>3. JobsOK'
    <3> DEFINE r == [jobs[j] EXCEPT !.h = "ext_priced", !.data = d]
    <3>1. jobs' = [jobs EXCEPT ![j] = r] BY <1>2 DEF DialogueInv, JobsOK, JobType
    <3> HIDE DEF d
    <3>2. JobOK(r)
      <4>1. ~jobs[j].last BY JobIs DEF DialogueInv, Held, D!ExtCodeAnswered, D!Runs
      <4>2. r \in JobType BY <2>1, <2>2 DEF JobType, Handlers
      <4>3. ~r.last /\ r.data = d BY <2>1, <4>1 DEF JobType
      <4> QED BY <2>2, <4>2, <4>3 DEF JobOK, Held
    <3> HIDE DEF r
    <3>3. jobs' \in [Jobs -> JobType] BY <3>1, <3>2 DEF DialogueInv, JobsOK, JobOK
    <3>4. \A i \in Jobs : jobs'[i] = jobs[i] \/ jobs'[i] = r BY <3>1 DEF DialogueInv, JobsOK
    <3>5. \A i \in Jobs : JobOK(jobs'[i]) BY <3>2, <3>4 DEF DialogueInv, JobsOK
    <3> QED BY <3>3, <3>5 DEF JobsOK, JobOK
  <2>4. BillOK(bill') BY SilentBill DEF D!ExtCodeAnswered
  <2>5. TalkOK'
    <3>1. data' = [data EXCEPT !.pct = pct] /\ st' = "ext_method" BY <1>2 DEF D!Put
    <3>2. data' \in D!DataType BY <2>1, <3>1 DEF D!DataType
    <3> QED BY <3>1, <3>2 DEF TalkOK, D!NewestIsHeld, D!States
  <2>6. ChatOK' BY <1>2, PlainScreens DEF DialogueInv, ChatOK, ScreenOK
  <2> QED BY <2>3, <2>4, <2>5, <2>6 DEF DialogueInv
<1> QED BY <1>1, <1>2 DEF D!ExtCodeAnswered

\* Its price is shown, and nothing is written.
LEMMA ExtPricedStep ==
    ASSUME DialogueInv, NEW j \in Jobs, D!ExtPriced(j) PROVE DialogueInv'
<1> DEFINE d == jobs[j].data
           p == D!Discounted(Price[d.dur], d.pct)
<1>1. d \in D!DataType /\ d.dur \in Durations
  BY JobIs DEF DialogueInv, D!ExtPriced, D!Runs, Buyers
<1>2. Handled /\ D!Stay BY SilentBill, Ended DEF D!ExtPriced
<1>3. p \in Nat BY <1>1, PaidFacts
<1>4. PICK s \in {D!Screen("extpay", d.dur, p), D!Blank} : D!Answer(s) BY DEF D!ExtPriced
<1>5. Shown(s) BY <1>4, AnswerShows
<1>6. ScreenOK(s) /\ s.k \notin {"pay", "topup"}
  <2> HIDE DEF p
  <2>1. "extpay" \in Kinds /\ d.dur \in D!Items BY <1>1 DEF Kinds, D!Items
  <2> QED BY <1>1, <1>3, <1>4, <2>1, Plain, ScreenFacts DEF ScreenOK
<1> QED BY <1>2, <1>5, <1>6, StayStep

\* Paying an extension.
LEMMA ExtPayStep ==
    ASSUME DialogueInv, NEW j \in Jobs, D!ExtPay(j) PROVE DialogueInv'
<1> DEFINE x == jobs[j].data.dur
<1>1. x \in Durations /\ jobs[j].seen \in D!ScreenType /\ data \in D!DataType
  BY JobIs DEF DialogueInv, TalkOK, D!ExtPay, D!Runs, Buyers
<1>2. Price[x] \in Nat /\ x \in D!Items /\ D!None \in D!Items
  BY <1>1, Prices DEF D!Items
<1>3. BillOK(bill')
  <2>1. ~jobs[j].last BY JobIs DEF DialogueInv, Held, D!ExtPay, D!Runs
  <2>2. D!Charge(j, x, Price[x]) \/ D!Silent BY DEF D!ExtPay
  <2> HIDE DEF x
  <2> QED BY <1>2, <2>1, <2>2, SilentBill, Charged DEF DialogueInv
<1>4. Handled BY <1>3, Ended DEF D!ExtPay
<1>5. CASE \E s \in {D!Blank, D!Screen("sub", D!None, 0), D!Screen("done", D!None, 0)} :
             (D!Stay \/ D!Clear) /\ D!Show(jobs[j].m, s)
  <2>1. PICK s \in {D!Blank, D!Screen("sub", D!None, 0), D!Screen("done", D!None, 0)} :
             (D!Stay \/ D!Clear) /\ D!Show(jobs[j].m, s)
    BY <1>5
  <2>2. Shown(s) BY <2>1, JobShows DEF DialogueInv
  <2> QED BY <1>4, <2>1, <2>2, PlainEnd
<1>6. CASE /\ D!Put("ext_awaiting", data)
           /\ D!Show(jobs[j].m, D!Screen("invoice", D!None, Price[x]))
  <2>1. Shown(D!Screen("invoice", D!None, Price[x])) BY <1>6, JobShows DEF DialogueInv
  <2>2. "ext_awaiting" \in D!States \ Buying BY DEF D!States, Buying
  <2> HIDE DEF x
  <2> QED BY <1>1, <1>2, <1>4, <1>6, <2>1, <2>2, InvoiceStep
<1> QED BY <1>5, <1>6 DEF D!ExtPay

\* Paying what is topped up.
LEMMA TopupPayStep ==
    ASSUME DialogueInv, NEW j \in Jobs, D!TopupPay(j) PROVE DialogueInv'
<1> DEFINE a == jobs[j].data.amount
<1>1. a \in Nat /\ jobs[j].seen \in D!ScreenType /\ D!None \in D!Items
  BY JobIs DEF DialogueInv, D!DataType, D!Items
<1>2. BillOK(bill')
  <2>1. jobs[j].last => jobs[j].seen.item = D!None /\ a = jobs[j].seen.price
    BY JobIs DEF DialogueInv, Held, D!TopupPay, D!Runs
  <2>2. D!Charge(j, D!None, a) \/ D!Silent BY DEF D!TopupPay
  <2>3. jobs[j].last => D!None = jobs[j].seen.item /\ a <= jobs[j].seen.price BY <1>1, <2>1
  <2> HIDE DEF a
  <2> QED BY <1>1, <2>2, <2>3, SilentBill, Charged DEF DialogueInv
<1>3. Handled BY <1>2, Ended DEF D!TopupPay
<1>4. CASE D!Clear /\ D!Show(jobs[j].m, D!Screen("invoice", D!None, a))
  <2>1. Shown(D!Screen("invoice", D!None, a)) BY <1>4, JobShows DEF DialogueInv
  <2>2. D!None \in D!States \ Buying BY DEF D!States, D!None, Buying
  <2>3. D!Put(D!None, D!Empty) BY <1>4 DEF D!Clear
  <2> HIDE DEF a
  <2> QED BY <1>1, <1>3, <2>1, <2>2, <2>3, EmptyFacts, InvoiceStep
<1>5. CASE D!Stay /\ D!Show(jobs[j].m, D!Blank)
  BY <1>3, <1>5, Plain, JobShows, StayStep DEF DialogueInv
<1> QED BY <1>4, <1>5 DEF D!TopupPay

-----------------------------------------------------------------------------
\* A new chat.
LEMMA DialogueStarts == D!Init => DialogueInv
<1> SUFFICES ASSUME D!Init PROVE DialogueInv OBVIOUS
<1>1. chat \in [Messages -> D!ScreenType] /\ newest \in D!ScreenType
  BY PlainScreens DEF D!Init
<1>2. ScreenOK(D!Blank) BY Plain
<1>3. ChatOK BY <1>1, <1>2 DEF D!Init, ChatOK
<1>4. JobsOK BY IdleOK DEF D!Init, JobsOK, JobOK
<1>5. TalkOK BY EmptyFacts DEF D!Init, TalkOK, D!NewestIsHeld, D!States, D!None
<1> QED BY <1>3, <1>4, <1>5, EmptyFacts DEF D!Init, DialogueInv

\* Every step of a dialogue, one by one.
LEMMA DialogueMoves == DialogueInv /\ D!Next => DialogueInv'
<1> SUFFICES ASSUME DialogueInv, D!Next PROVE DialogueInv' OBVIOUS
<1>1. ASSUME NEW m \in Messages, NEW k \in {"menu", "sub"}, D!Look(m, k) PROVE DialogueInv'
  BY <1>1, LookStep
<1>2. ASSUME NEW m \in Messages, D!OpenCatalog(m) \/ D!OpenProfile(m) PROVE DialogueInv'
  BY <1>2, CatalogStep
<1>3. ASSUME NEW m \in Messages, D!Back(m) PROVE DialogueInv' BY <1>3, BackStep
<1>4. ASSUME NEW m \in Messages, D!Retry(m) PROVE DialogueInv' BY <1>4, RetryStep
<1>5. ASSUME NEW m \in Messages, D!Topup(m) \/ D!OpenPromo(m) PROVE DialogueInv'
  BY <1>5, OpenStep
<1>6. ASSUME NEW m \in Messages, NEW t \in Tariffs, D!PickTariff(m, t) PROVE DialogueInv'
  BY <1>6, PickTariffStep
<1>7. ASSUME NEW m \in Messages, NEW x \in Durations, D!PickDuration(m, x) PROVE DialogueInv'
  BY <1>7, PickDurationStep
<1>8. ASSUME NEW m \in Messages, NEW x \in Durations, D!ExtDuration(m, x) PROVE DialogueInv'
  BY <1>8, ExtDurationStep
<1>9. ASSUME NEW a \in Amounts, D!TypeAmount(a) PROVE DialogueInv' BY <1>9, TypeAmountStep
<1>10. ASSUME NEW j \in Jobs, NEW m \in Messages,
              \/ D!SkipBegin(j, m) \/ D!CodeBegin(j, m) \/ D!PayBegin(j, m) \/ D!ExtendBegin(j, m)
              \/ D!ExtSkipBegin(j, m) \/ D!ExtCodeBegin(j, m) \/ D!ExtPayBegin(j, m)
              \/ D!TopupPayBegin(j, m) \/ D!SoloBegin(j, m)
       PROVE  DialogueInv'
  BY <1>10, Begins
<1>11. ASSUME NEW j \in Jobs, D!Skip(j) PROVE DialogueInv' BY <1>11, SkipStep
<1>12. ASSUME NEW j \in Jobs, D!Priced(j) PROVE DialogueInv' BY <1>12, PricedStep
<1>13. ASSUME NEW j \in Jobs, D!Pay(j) PROVE DialogueInv' BY <1>13, PayStep
<1>14. ASSUME NEW j \in Jobs, D!Extend(j) PROVE DialogueInv' BY <1>14, ExtendStep
<1>15. ASSUME NEW j \in Jobs, D!ExtSkip(j) PROVE DialogueInv' BY <1>15, ExtSkipStep
<1>16. ASSUME NEW j \in Jobs, D!ExtPriced(j) PROVE DialogueInv' BY <1>16, ExtPricedStep
<1>17. ASSUME NEW j \in Jobs, D!ExtPay(j) PROVE DialogueInv' BY <1>17, ExtPayStep
<1>18. ASSUME NEW j \in Jobs, D!TopupPay(j) PROVE DialogueInv' BY <1>18, TopupPayStep
<1>19. ASSUME NEW j \in Jobs, D!Solo(j) PROVE DialogueInv' BY <1>19, SoloStep
<1>20. ASSUME NEW j \in Jobs, NEW pct \in Percents, D!CodeAnswered(j, pct) PROVE DialogueInv'
  BY <1>20, CodeStep
<1>21. ASSUME NEW j \in Jobs, NEW pct \in Percents, D!ExtCodeAnswered(j, pct) PROVE DialogueInv'
  BY <1>21, ExtCodeStep
<1> QED
  BY <1>1, <1>2, <1>3, <1>4, <1>5, <1>6, <1>7, <1>8, <1>9, <1>10, <1>11, <1>12, <1>13, <1>14,
     <1>15, <1>16, <1>17, <1>18, <1>19, <1>20, <1>21
     DEF D!Next

\* A step of the promo codes does not touch the dialogue.
LEMMA DialogueRests == DialogueInv /\ UNCHANGED dvars => DialogueInv'
BY DEF dvars, DialogueInv, TalkOK, ChatOK, ScreenOK, JobsOK, JobOK, BillType,
       D!NewestIsHeld, D!Paid, D!Discounted

\* The types of module Dialogue.
LEMMA DialogueTypes == DialogueInv => D!TypeOK
BY DEF DialogueInv, TalkOK, ChatOK, JobsOK, JobOK, JobType, BillOK, BillType, D!TypeOK

\* The invariant holds whatever the promo codes do meanwhile.
LEMMA DialogueHolds == ShopSpec => []DialogueInv
<1>1. ShopInit => DialogueInv BY DialogueStarts DEF ShopInit
<1>2. DialogueInv /\ [ShopNext]_<<vars, dvars>> => DialogueInv'
  BY DialogueMoves, DialogueRests DEF ShopNext, PromoCodes, Dialogues
<1> QED BY <1>1, <1>2, PTL DEF ShopSpec

\* What is shown about promo codes alone holds beside the dialogues.
LEMMA ShopIsPromo == ShopSpec => Spec
<1>1. ShopInit => Init BY DEF ShopInit
<1>2. [ShopNext]_<<vars, dvars>> => [Next]_vars BY DEF ShopNext, PromoCodes, Dialogues
<1> QED BY <1>1, <1>2, PTL DEF ShopSpec, Spec

\* Codes, requests, dialogues, screens and handlers keep their types.
THEOREM ShopTypes == ShopSpec => []Types
<1>1. TypeOK /\ DialogueInv => Types BY DialogueTypes DEF Types
<1> QED BY <1>1, ShopIsPromo, TypeCorrect, DialogueHolds, PTL

\* The newest payment screen keeps its word, whichever handlers waited: while a method is
\* asked for the dialogue holds what it shows, and who pays there is charged for that, at
\* its price or less.
THEOREM NewestScreenIsPaid == ShopSpec => []NewestScreenPays
<1>1. DialogueInv => NewestScreenPays
  BY DEF DialogueInv, TalkOK, BillOK, NewestScreenPays, D!NewestScreenPays, D!NewestIsCharged
<1> QED BY <1>1, DialogueHolds, PTL
=============================================================================
