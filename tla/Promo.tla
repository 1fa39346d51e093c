-------------------------------- MODULE Promo --------------------------------
(***************************************************************************)
(* Promo codes: applying one (backend/app/services/promo_service.py), the  *)
(* purchases that use a discount code (balance_service.py,                 *)
(* payment_service.py), the codes an admin creates and patches             *)
(* (api/admin/promos.py) and personal ones (personal_promo_service.py).    *)
(*                                                                         *)
(* A balance code is used up when it is applied; a discount code only when *)
(* the payment it lowers is paid.  Both lock the promo_codes row, but a    *)
(* session that loaded the row before keeps the attributes it loaded (the  *)
(* identity map), so that the limit of all activations is compared with an *)
(* old counter, while the activations of a user are counted afresh.  From  *)
(* the lock to the commit a session is alone with the row: one step.       *)
(***************************************************************************)
EXTENDS Integers, FiniteSets

CONSTANTS Users, Codes,
          Balance,     \* the codes that credit a balance; the others discount
          Owner,       \* code -> the users it is meant for: all, or just one
          Requests,    \* requests of the bot
          MaxPerUser,  \* max_per_user, of every code
          Totals,      \* values max_total_activations may take; 0: unlimited
          MaxEdits     \* how often a code may be patched or lapse: a bound

ASSUME PromoAssumption ==
    /\ Balance \subseteq Codes
    /\ Owner \in [Codes -> SUBSET Users]
    /\ MaxPerUser \in Nat \ {0} /\ Totals \subseteq Nat /\ MaxEdits \in Nat
    /\ IsFiniteSet(Requests)

VARIABLES exists,   \* codes that were created
          active, total, current,  \* columns of their rows
          past,     \* codes whose valid_until has passed
          edits,    \* patches and lapses so far
          used,     \* promo_activations: <<code, user, request>>
          offered,  \* <<user, code>>: the promo_id in the user's dialogue
          op, pc,   \* request: what it is, how far it got
          who,      \* request: its user and its code, <<>> before it is made
          mem,      \* request: the row as its session loaded it
          raced     \* codes whose counter a session compared when it was old

codes == <<exists, active, total, past, edits>>
vars  == <<codes, current, used, offered, op, pc, who, mem, raced>>

Row    == [active : BOOLEAN, total : Nat, current : Nat]
NoRow  == [active |-> FALSE, total |-> 0, current |-> 0]
RowOf(c) == [active |-> active[c], total |-> total[c], current |-> current[c]]

By(r)   == who[r][1]
Code(r) == who[r][2]

UsedBy(c, u) == {a \in used : a[1] = c /\ a[2] = u}

Init ==
    /\ exists = {} /\ past = {} /\ used = {} /\ offered = {} /\ raced = {}
    /\ edits = 0
    /\ active = [c \in Codes |-> TRUE]
    /\ total = [c \in Codes |-> 0]
    /\ current = [c \in Codes |-> 0]
    /\ op = [r \in Requests |-> "none"]
    /\ pc = [r \in Requests |-> "idle"]
    /\ who = [r \in Requests |-> <<>>]
    /\ mem = [r \in Requests |-> NoRow]

-----------------------------------------------------------------------------
\* create_promo, issue_personal_discount: a code is unique, a second attempt to
\* create it finds it or fails.
Create(c, t) ==
    /\ c \notin exists
    /\ exists' = exists \cup {c}
    /\ total' = [total EXCEPT ![c] = t]
    /\ UNCHANGED <<active, past, edits, current, used, offered, op, pc, who, mem, raced>>

\* patch_promo switches a code on or off, moves its limit or its last day.
Patch(c, on, t) ==
    /\ c \in exists /\ edits < MaxEdits
    /\ edits' = edits + 1
    /\ active' = [active EXCEPT ![c] = on]
    /\ total' = [total EXCEPT ![c] = t]
    /\ past' \in {past, past \ {c}}
    /\ UNCHANGED <<exists, current, used, offered, op, pc, who, mem, raced>>

\* valid_until passes.
Lapse(c) ==
    /\ c \in exists /\ edits < MaxEdits
    /\ edits' = edits + 1
    /\ past' = past \cup {c}
    /\ UNCHANGED <<exists, active, total, current, used, offered, op, pc, who, mem, raced>>

\* The user leaves the dialogue and its state is cleared.
Leave(u) ==
    /\ offered' = {o \in offered : o[1] # u}
    /\ UNCHANGED <<codes, current, used, op, pc, who, mem, raced>>

-----------------------------------------------------------------------------
\* A request loads the row of its code: POST /promo/apply by the code itself, a
\* purchase by the promo_id its dialogue holds.
Load(r, o, u, c) ==
    /\ pc[r] = "idle" /\ c \in exists
    /\ o # "apply" => <<u, c>> \in offered
    /\ who' = [who EXCEPT ![r] = <<u, c>>]
    /\ op' = [op EXCEPT ![r] = o]
    /\ pc' = [pc EXCEPT ![r] = "loaded"]
    /\ mem' = [mem EXCEPT ![r] = RowOf(c)]
    /\ UNCHANGED <<codes, current, used, offered, raced>>

\* Mutant: the limit is one activation too high.
RoomPlusOne(r, row) ==
    /\ row.total = 0 \/ row.current <= row.total
    /\ Cardinality(UsedBy(Code(r), By(r))) < MaxPerUser

\* Mutant: the activations of the user are not counted.
RoomForAnyone(r, row) == row.total = 0 \/ row.current < row.total

\* The two limits: of all activations on the row as loaded, of the user's own
\* on a count made under the lock.
Room(r, row) ==
    /\ row.total = 0 \/ row.current < row.total
    /\ Cardinality(UsedBy(Code(r), By(r))) < MaxPerUser

Valid(r) ==
    /\ mem[r].active /\ Code(r) \notin past
    /\ Room(r, mem[r])
    /\ By(r) \in Owner[Code(r)]

\* A row of promo_activations and the counter, in one transaction.
Record(r) ==
    /\ used' = used \cup {<<Code(r), By(r), r>>}
    /\ current' = [current EXCEPT ![Code(r)] = @ + 1]

\* The lock is taken, but the row is not read again.
Compared(r) ==
    raced' = IF mem[r].current # current[Code(r)] \/ mem[r].total # total[Code(r)]
             THEN raced \cup {Code(r)} ELSE raced

\* The request goes on without the row it loaded, or is over.
Over(r, p) ==
    /\ pc' = [pc EXCEPT ![r] = p]
    /\ mem' = [mem EXCEPT ![r] = NoRow]
    /\ op' = IF p = "over" THEN [op EXCEPT ![r] = "none"] ELSE op
    /\ who' = IF p = "over" THEN [who EXCEPT ![r] = <<>>] ELSE who

\* Mutant: the promo_id of a balance code is offered to a purchase as well.
ApplyOffering(r) ==
    /\ pc[r] = "loaded" /\ op[r] = "apply"
    /\ Valid(r)
    /\ IF Code(r) \in Balance
       THEN Record(r) ELSE UNCHANGED <<used, current>>
    /\ offered' = offered \cup {<<By(r), Code(r)>>}
    /\ Compared(r)
    /\ Over(r, "over")
    /\ UNCHANGED codes

\* validate_and_apply under the lock: a balance code is credited and recorded, a
\* discount code is only offered to the dialogue.
Apply(r) ==
    /\ pc[r] = "loaded" /\ op[r] = "apply"
    /\ Valid(r)
    /\ IF Code(r) \in Balance
       THEN Record(r) /\ UNCHANGED offered
       ELSE /\ offered' = {o \in offered : o[1] # By(r)} \cup {<<By(r), Code(r)>>}
            /\ UNCHANGED <<used, current>>
    /\ Compared(r)
    /\ Over(r, "over")
    /\ UNCHANGED codes

Reject(r) ==
    /\ pc[r] = "loaded" /\ op[r] = "apply" /\ ~Valid(r)
    /\ Over(r, "over")
    /\ UNCHANGED <<codes, current, used, offered, raced>>

\* The request's transaction fails and is rolled back.
Abort(r) ==
    /\ pc[r] = "loaded"
    /\ Over(r, "over")
    /\ UNCHANGED <<codes, current, used, offered, raced>>

\* Mutant: the counter is bumped also when nothing is recorded.
BuyCountingAll(r) ==
    /\ pc[r] = "loaded" /\ op[r] = "buy"
    /\ current' = [current EXCEPT ![Code(r)] = @ + 1]
    /\ used' = IF Room(r, mem[r]) THEN used \cup {<<Code(r), By(r), r>>} ELSE used
    /\ Compared(r)
    /\ Over(r, "bought")
    /\ UNCHANGED <<codes, offered>>

\* purchase_with_balance: the discounted price is debited and the activation
\* recorded in the same transaction; an exhausted code is only logged.
Buy(r) ==
    /\ pc[r] = "loaded" /\ op[r] = "buy"
    /\ IF Room(r, mem[r]) THEN Record(r) ELSE UNCHANGED <<used, current>>
    /\ Compared(r)
    /\ Over(r, "bought")
    /\ UNCHANGED <<codes, offered>>

\* The provider issues the key and the dialogue ends, or it does not and the
\* money goes back; the code stays used.
Bought(r) ==
    /\ pc[r] = "bought"
    /\ Over(r, "over")
    /\ \/ offered' = {o \in offered : o[1] # By(r)}
       \/ UNCHANGED offered
    /\ UNCHANGED <<codes, current, used, raced>>

\* A payment at a gateway, with the discount of a code that was valid when it
\* was typed; the promo_id stays in the dialogue.
Invoice(r) ==
    /\ pc[r] = "loaded" /\ op[r] = "start"
    /\ Over(r, "invoiced")
    /\ UNCHANGED <<codes, current, used, offered, raced>>

\* Its money arrives.  The webhook's session reads the row under the lock.
Paid(r) ==
    /\ pc[r] = "invoiced"
    /\ IF Room(r, RowOf(Code(r))) THEN Record(r) ELSE UNCHANGED <<used, current>>
    /\ Over(r, "over")
    /\ UNCHANGED <<codes, offered, raced>>

Next ==
    \/ \E c \in Codes, t \in Totals : Create(c, t) \/ \E on \in BOOLEAN : Patch(c, on, t)
    \/ \E c \in Codes : Lapse(c)
    \/ \E u \in Users : Leave(u)
    \/ \E r \in Requests :
        \/ \E o \in {"apply", "buy", "start"}, u \in Users, c \in Codes : Load(r, o, u, c)
        \/ Apply(r) \/ Reject(r) \/ Abort(r)
        \/ Buy(r) \/ Bought(r) \/ Invoice(r) \/ Paid(r)

Spec == Init /\ [][Next]_vars

-----------------------------------------------------------------------------
\* Types; only discount codes are carried by a dialogue.
TypeOK ==
    /\ exists \subseteq Codes /\ past \subseteq Codes /\ raced \subseteq Codes /\ edits \in Nat
    /\ active \in [Codes -> BOOLEAN]
    /\ total \in [Codes -> Nat] /\ current \in [Codes -> Nat]
    /\ used \subseteq Codes \X Users \X Requests
    /\ offered \subseteq Users \X (Codes \ Balance)
    /\ op \in [Requests -> {"none", "apply", "buy", "start"}]
    /\ pc \in [Requests -> {"idle", "loaded", "bought", "invoiced", "over"}]
    /\ who \in [Requests -> {<<>>} \cup Users \X Codes]
    /\ mem \in [Requests -> Row]

\* current_activations is the number of rows in promo_activations, whichever
\* requests abort, are refunded or find the code exhausted.
CountMatchesRows ==
    \A c \in Codes : current[c] = Cardinality({a \in used : a[1] = c})

\* A user never uses a code more often than max_per_user, however many requests
\* and invoices are on their way.
PerUserLimit ==
    \A c \in Codes, u \in Users : Cardinality(UsedBy(c, u)) <= MaxPerUser

\* A personal code is used by its owner only, although paying with a promo_id
\* does not look at the owner again.
PersonalStaysPersonal == \A a \in used : a[2] \in Owner[a[1]]

\* What one user may do with a code: use it so often, and only if it is his.
UserLimits == PerUserLimit /\ PersonalStaysPersonal

\* No code is used beyond max_total_activations or when all is used up, except
\* by a session that compared a counter it had loaded before the lock.
CapacityUnlessRaced ==
    [][\A c \in Codes :
        current'[c] > current[c] /\ c \notin raced'
            => total[c] = 0 \/ current[c] < total[c]]_vars
=============================================================================
