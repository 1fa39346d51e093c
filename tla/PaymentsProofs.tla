--------------------------- MODULE PaymentsProofs ---------------------------
(***************************************************************************)
(* Proofs about payments by webhook, for any payments and any number of    *)
(* notices.                                                                *)
(*                                                                         *)
(* That a subscription follows its payment holds however the notices of a  *)
(* payment overlap: IInv ties the subscription to each status and says     *)
(* what a handler knows.  That a payment settles once needs that its       *)
(* notices do not overlap: Alone adds that one handler runs at a time and  *)
(* that what it read - the payment is not terminal - is still true.        *)
(***************************************************************************)
EXTENDS Payments, TLAPS

\* What a handler knows between its steps.
Handling ==
    \A p \in Payments : \A n \in 1..MaxNotices :
        /\ pc[<<p, n>>] \in HasRow => gateway[p] = "confirmed"
        /\ pc[<<p, n>>] = "ok" => made[p]

\* What the status of a payment says of gateway and subscription.
StatusMeans ==
    \A p \in Payments :
        /\ status[p] = "none" => gateway[p] = "none"
        /\ status[p] \in Terminal => gateway[p] = "confirmed"
        /\ p \in Subscriptions =>
              /\ status[p] # "refunded"
              /\ status[p] = "pending" => sub[p] = "pending"

IInv == TypeOK /\ Handling /\ StatusMeans /\ SubscriptionFollowsPayment

\* Without overlap: one handler per payment, and its read is not stale.
Alone ==
    \A p \in Payments : \A n \in 1..MaxNotices :
        /\ \A j \in 1..MaxNotices :
              pc[<<p, n>>] \in Running /\ pc[<<p, j>>] \in Running => j = n
        /\ pc[<<p, n>>] \in Running \ {"refunded"} => status[p] \notin Terminal

OnceInv == IInv /\ Alone /\ SettledOnce

-----------------------------------------------------------------------------
LEMMA Purposes ==
    \A p \in Payments :
        /\ p \in Topups => p \notin Subscriptions /\ p \notin Extensions
        /\ p \in Subscriptions => p \notin Extensions
        /\ \A n \in 1..MaxNotices : <<p, n>> \in Notices
BY PaymentsAssumption DEF Payments, Notices

USE DEF PCs, Running, HasRow, Terminal

\* A handler's step keeps what the handlers know, if it knows what it claims.
LEMMA HandlingStep ==
  ASSUME TypeOK, Handling, gateway' = gateway, made' = made,
         NEW p \in Payments, NEW n \in 1..MaxNotices, NEW v \in PCs,
         pc' = [pc EXCEPT ![<<p, n>>] = v],
         v \in HasRow => gateway[p] = "confirmed",
         v = "ok" => made[p]
  PROVE  Handling'
<1> SUFFICES ASSUME NEW q \in Payments, NEW m \in 1..MaxNotices
             PROVE  /\ pc'[<<q, m>>] \in HasRow => gateway'[q] = "confirmed"
                    /\ pc'[<<q, m>>] = "ok" => made'[q]
  BY DEF Handling
<1>1. pc \in [Notices -> PCs] /\ <<p, n>> \in Notices /\ <<q, m>> \in Notices
  BY Purposes DEF TypeOK
<1>2. CASE <<q, m>> = <<p, n>>
  <2>1. pc'[<<q, m>>] = v /\ q = p BY <1>1, <1>2
  <2> QED BY <2>1
<1>3. CASE <<q, m>> # <<p, n>>
  <2>1. pc'[<<q, m>>] = pc[<<q, m>>] BY <1>1, <1>3
  <2> QED BY <2>1 DEF Handling
<1> QED BY <1>2, <1>3

\* The invariant holds before the first payment.
LEMMA InitInv == Init => IInv
<1> SUFFICES ASSUME Init PROVE IInv OBVIOUS
<1> USE DEF Init
<1>1. TypeOK BY DEF TypeOK
<1>2. Handling BY Purposes DEF Handling
<1>3. StatusMeans BY DEF StatusMeans
<1>4. SubscriptionFollowsPayment BY DEF SubscriptionFollowsPayment, Payments
<1> QED BY <1>1, <1>2, <1>3, <1>4 DEF IInv

\* ... and every step keeps it.
LEMMA StepInv == IInv /\ [Next]_vars => IInv'
<1> SUFFICES ASSUME IInv, [Next]_vars PROVE IInv' OBVIOUS
<1> USE DEF IInv, TypeOK
<1>1. ASSUME NEW p \in Payments, Create(p) PROVE IInv'
  <2>1. TypeOK' BY <1>1 DEF Create
  <2>2. Handling'
    <3>1. gateway[p] = "none"
      BY <1>1 DEF Create, StatusMeans
    <3>2. \A q \in Payments : gateway[q] = "confirmed" => gateway'[q] = "confirmed"
      BY <1>1, <3>1 DEF Create
    <3>3. made' = made /\ pc' = pc
      BY <1>1 DEF Create
    <3> QED BY <3>2, <3>3 DEF Handling
  <2>3. StatusMeans' BY <1>1 DEF Create, StatusMeans
  <2>4. SubscriptionFollowsPayment' BY <1>1 DEF Create, SubscriptionFollowsPayment
  <2> QED BY <2>1, <2>2, <2>3, <2>4 DEF IInv
<1>2. ASSUME NEW p \in Payments, Decide(p) PROVE IInv'
  <2>1. TypeOK' BY <1>2 DEF Decide, rows
  <2>2. Handling' BY <1>2 DEF Decide, Handling
  <2>3. StatusMeans' BY <1>2 DEF Decide, rows, StatusMeans
  <2>4. SubscriptionFollowsPayment' BY <1>2 DEF Decide, rows, SubscriptionFollowsPayment
  <2> QED BY <2>1, <2>2, <2>3, <2>4 DEF IInv
<1>3. ASSUME NEW p \in Payments, Expire(p) PROVE IInv'
  <2>1. TypeOK' BY <1>3 DEF Expire, FailSub
  <2>2. Handling' BY <1>3 DEF Expire, Handling
  <2>3. StatusMeans' BY <1>3 DEF Expire, FailSub, StatusMeans
  <2>4. SubscriptionFollowsPayment' BY <1>3 DEF Expire, FailSub, SubscriptionFollowsPayment, StatusMeans
  <2> QED BY <2>1, <2>2, <2>3, <2>4 DEF IInv
<1>4. ASSUME NEW p \in Payments, NEW n \in 1..MaxNotices, Receive(p, n) PROVE IInv'
  <2>1. TypeOK' BY <1>4 DEF Receive, rows
  <2>2. Handling'
    <3>1. PICK v \in {"acked", "read"} : pc' = [pc EXCEPT ![<<p, n>>] = v]
      BY <1>4 DEF Receive
    <3>2. gateway' = gateway /\ made' = made
      BY <1>4 DEF Receive
    <3>3. v \in PCs /\ v \notin HasRow /\ v # "ok"
      BY DEF PCs, HasRow
    <3> HIDE DEF IInv, TypeOK
    <3>4. TypeOK /\ Handling
      BY DEF IInv
    <3> QED BY <3>1, <3>2, <3>3, <3>4, HandlingStep
  <2>3. StatusMeans' BY <1>4 DEF Receive, rows, StatusMeans
  <2>4. SubscriptionFollowsPayment' BY <1>4 DEF Receive, rows, SubscriptionFollowsPayment
  <2> QED BY <2>1, <2>2, <2>3, <2>4 DEF IInv
<1>5. ASSUME NEW p \in Payments, NEW n \in 1..MaxNotices, MarkPaid(p, n) PROVE IInv'
  <2>1. TypeOK' BY <1>5 DEF MarkPaid, rows
  <2>2. Handling' BY <1>5, HandlingStep DEF MarkPaid, Handling
  <2>3. StatusMeans' BY <1>5 DEF MarkPaid, rows, StatusMeans
  <2>4. SubscriptionFollowsPayment' BY <1>5 DEF MarkPaid, rows, SubscriptionFollowsPayment
  <2> QED BY <2>1, <2>2, <2>3, <2>4 DEF IInv
<1>6. ASSUME NEW p \in Payments, NEW n \in 1..MaxNotices, CreditTopup(p, n) PROVE IInv'
  <2>1. TypeOK' BY <1>6, Purposes DEF CreditTopup
  <2>2. Handling' BY <1>6, HandlingStep DEF CreditTopup, Handling
  <2>3. StatusMeans' BY <1>6 DEF CreditTopup, StatusMeans, Handling
  <2>4. SubscriptionFollowsPayment' BY <1>6, Purposes DEF CreditTopup, SubscriptionFollowsPayment
  <2> QED BY <2>1, <2>2, <2>3, <2>4 DEF IInv
<1>7. ASSUME NEW p \in Payments, NEW n \in 1..MaxNotices, CallProvider(p, n) PROVE IInv'
  <2>1. TypeOK' BY <1>7 DEF CallProvider, rows
  <2>2. Handling'
    <3>1. PICK done \in BOOLEAN, heard \in BOOLEAN :
            /\ heard => done
            /\ made' = [made EXCEPT ![p] = @ \/ done]
            /\ pc' = [pc EXCEPT ![<<p, n>>] = IF heard THEN "ok" ELSE "err"]
      BY <1>7 DEF CallProvider
    <3>2. \A q \in Payments : made[q] => made'[q]
      BY <3>1
    <3>3. pc'[<<p, n>>] \in {"ok", "err"} /\ (pc'[<<p, n>>] = "ok" => made'[p])
      BY <3>1, Purposes
    <3>4. \A h \in Notices \ {<<p, n>>} : pc'[h] = pc[h]
      BY <3>1
    <3>5. pc[<<p, n>>] = "locked" /\ gateway' = gateway
      BY <1>7 DEF CallProvider
    <3>6. ASSUME NEW q \in Payments, NEW m \in 1..MaxNotices
          PROVE  /\ pc'[<<q, m>>] \in HasRow => gateway'[q] = "confirmed"
                 /\ pc'[<<q, m>>] = "ok" => made'[q]
      <4>1. CASE <<q, m>> = <<p, n>>
        BY <4>1, <3>3, <3>5 DEF Handling
      <4>2. CASE <<q, m>> # <<p, n>>
        <5>1. pc'[<<q, m>>] = pc[<<q, m>>] BY <4>2, <3>4, Purposes
        <5> QED BY <5>1, <3>2, <3>5 DEF Handling
      <4> QED BY <4>1, <4>2
    <3> QED BY <3>6 DEF Handling
  <2>3. StatusMeans' BY <1>7 DEF CallProvider, rows, StatusMeans
  <2>4. SubscriptionFollowsPayment' BY <1>7 DEF CallProvider, rows, SubscriptionFollowsPayment
  <2> QED BY <2>1, <2>2, <2>3, <2>4 DEF IInv
<1>8. ASSUME NEW p \in Payments, NEW n \in 1..MaxNotices, Activate(p, n) PROVE IInv'
  <2>1. TypeOK' BY <1>8 DEF Activate
  <2>2. Handling' BY <1>8, HandlingStep DEF Activate, Handling
  <2>3. StatusMeans' BY <1>8 DEF Activate, StatusMeans, Handling
  <2>4. SubscriptionFollowsPayment' BY <1>8 DEF Activate, SubscriptionFollowsPayment, Handling
  <2> QED BY <2>1, <2>2, <2>3, <2>4 DEF IInv
<1>9. ASSUME NEW p \in Payments, NEW n \in 1..MaxNotices, FailProvision(p, n) PROVE IInv'
  <2>1. TypeOK' BY <1>9 DEF FailProvision
  <2>2. Handling' BY <1>9, HandlingStep DEF FailProvision, Handling
  <2>3. StatusMeans' BY <1>9 DEF FailProvision, StatusMeans, Handling
  <2>4. SubscriptionFollowsPayment' BY <1>9 DEF FailProvision, SubscriptionFollowsPayment
  <2> QED BY <2>1, <2>2, <2>3, <2>4 DEF IInv
<1>10. ASSUME NEW p \in Payments, NEW n \in 1..MaxNotices, Extend(p, n) PROVE IInv'
  <2>1. TypeOK' BY <1>10, Purposes DEF Extend
  <2>2. Handling' BY <1>10, HandlingStep DEF Extend, Handling
  <2>3. StatusMeans' BY <1>10 DEF Extend, StatusMeans, Handling
  <2>4. SubscriptionFollowsPayment' BY <1>10, Purposes DEF Extend, SubscriptionFollowsPayment
  <2> QED BY <2>1, <2>2, <2>3, <2>4 DEF IInv
<1>11. ASSUME NEW p \in Payments, NEW n \in 1..MaxNotices, RefundExtension(p, n) PROVE IInv'
  <2>1. TypeOK' BY <1>11, Purposes DEF RefundExtension
  <2>2. Handling' BY <1>11, HandlingStep DEF RefundExtension, Handling
  <2>3. StatusMeans' BY <1>11, Purposes DEF RefundExtension, StatusMeans, Handling
  <2>4. SubscriptionFollowsPayment' BY <1>11, Purposes DEF RefundExtension, SubscriptionFollowsPayment
  <2> QED BY <2>1, <2>2, <2>3, <2>4 DEF IInv
<1>12. ASSUME NEW p \in Payments, NEW n \in 1..MaxNotices, Finish(p, n) PROVE IInv'
  <2>1. TypeOK' BY <1>12 DEF Finish, rows
  <2>2. Handling' BY <1>12, HandlingStep DEF Finish, Handling
  <2>3. StatusMeans' BY <1>12 DEF Finish, rows, StatusMeans
  <2>4. SubscriptionFollowsPayment' BY <1>12 DEF Finish, rows, SubscriptionFollowsPayment
  <2> QED BY <2>1, <2>2, <2>3, <2>4 DEF IInv
<1>13. ASSUME NEW p \in Payments, NEW n \in 1..MaxNotices, FailPayment(p, n) PROVE IInv'
  <2>1. TypeOK' BY <1>13 DEF FailPayment, FailSub
  <2>2. Handling' BY <1>13, HandlingStep DEF FailPayment, Handling
  <2>3. StatusMeans' BY <1>13 DEF FailPayment, FailSub, StatusMeans
  <2>4. SubscriptionFollowsPayment' BY <1>13 DEF FailPayment, FailSub, SubscriptionFollowsPayment, StatusMeans
  <2> QED BY <2>1, <2>2, <2>3, <2>4 DEF IInv
<1>14. ASSUME NEW p \in Payments, NEW n \in 1..MaxNotices, Crash(p, n) PROVE IInv'
  <2>1. TypeOK' BY <1>14 DEF Crash, rows
  <2>2. Handling' BY <1>14, HandlingStep DEF Crash, Handling
  <2>3. StatusMeans' BY <1>14 DEF Crash, rows, StatusMeans
  <2>4. SubscriptionFollowsPayment' BY <1>14 DEF Crash, rows, SubscriptionFollowsPayment
  <2> QED BY <2>1, <2>2, <2>3, <2>4 DEF IInv
<1>15. CASE UNCHANGED vars
  <2>1. TypeOK' BY <1>15 DEF vars, rows
  <2>2. Handling' BY <1>15 DEF vars, Handling
  <2>3. StatusMeans' BY <1>15 DEF vars, rows, StatusMeans
  <2>4. SubscriptionFollowsPayment' BY <1>15 DEF vars, rows, SubscriptionFollowsPayment
  <2> QED BY <2>1, <2>2, <2>3, <2>4 DEF IInv
<1> QED
  BY <1>1, <1>2, <1>3, <1>4, <1>5, <1>6, <1>7, <1>8, <1>9, <1>10, <1>11, <1>12, <1>13, <1>14, <1>15
  DEF Next, Settle

\* A handler reads a payment, writes it back and commits; in between nobody
\* else settles it, if its notices do not overlap.
LEMMA StepOnce ==
  ASSUME Overlap = FALSE
  PROVE  OnceInv /\ [Next]_vars => (Alone /\ SettledOnce)'
<1> SUFFICES ASSUME OnceInv, [Next]_vars PROVE (Alone /\ SettledOnce)' OBVIOUS
<1> USE DEF OnceInv, IInv, TypeOK
<1>1. ASSUME NEW p \in Payments, Create(p) PROVE (Alone /\ SettledOnce)'
  <2>1. Alone' BY <1>1 DEF Create, Alone
  <2>2. SettledOnce' BY <1>1 DEF Create, SettledOnce
  <2> QED BY <2>1, <2>2
<1>2. ASSUME NEW p \in Payments, Decide(p) PROVE (Alone /\ SettledOnce)'
  <2>1. Alone' BY <1>2 DEF Decide, rows, Alone
  <2>2. SettledOnce' BY <1>2 DEF Decide, rows, SettledOnce
  <2> QED BY <2>1, <2>2
<1>3. ASSUME NEW p \in Payments, Expire(p) PROVE (Alone /\ SettledOnce)'
  <2>1. Alone' BY <1>3 DEF Expire, Alone
  <2>2. SettledOnce' BY <1>3 DEF Expire, SettledOnce
  <2> QED BY <2>1, <2>2
<1>4. ASSUME NEW p \in Payments, NEW n \in 1..MaxNotices, Receive(p, n) PROVE (Alone /\ SettledOnce)'
  <2>1. Alone' BY <1>4, Purposes DEF Receive, rows, Alone
  <2>2. SettledOnce' BY <1>4 DEF Receive, rows, SettledOnce
  <2> QED BY <2>1, <2>2
<1>5. ASSUME NEW p \in Payments, NEW n \in 1..MaxNotices, MarkPaid(p, n) PROVE (Alone /\ SettledOnce)'
  <2>1. Alone' BY <1>5, Purposes DEF MarkPaid, rows, Alone
  <2>2. SettledOnce' BY <1>5 DEF MarkPaid, rows, SettledOnce
  <2> QED BY <2>1, <2>2
<1>6. ASSUME NEW p \in Payments, NEW n \in 1..MaxNotices, CreditTopup(p, n) PROVE (Alone /\ SettledOnce)'
  <2>1. Alone' BY <1>6, Purposes DEF CreditTopup, Alone
  <2>2. SettledOnce' BY <1>6 DEF CreditTopup, SettledOnce, Alone
  <2> QED BY <2>1, <2>2
<1>7. ASSUME NEW p \in Payments, NEW n \in 1..MaxNotices, CallProvider(p, n) PROVE (Alone /\ SettledOnce)'
  <2>1. Alone'
    <3>1. PICK v \in {"ok", "err"} : pc' = [pc EXCEPT ![<<p, n>>] = v]
      BY <1>7 DEF CallProvider
    <3>2. pc[<<p, n>>] = "locked" /\ status' = status
      BY <1>7 DEF CallProvider, rows
    <3> QED BY <3>1, <3>2, Purposes DEF Alone
  <2>2. SettledOnce' BY <1>7 DEF CallProvider, rows, SettledOnce
  <2> QED BY <2>1, <2>2
<1>8. ASSUME NEW p \in Payments, NEW n \in 1..MaxNotices, Activate(p, n) PROVE (Alone /\ SettledOnce)'
  <2>1. Alone' BY <1>8, Purposes DEF Activate, Alone
  <2>2. SettledOnce' BY <1>8, PaymentsAssumption DEF Activate, SettledOnce
  <2> QED BY <2>1, <2>2
<1>9. ASSUME NEW p \in Payments, NEW n \in 1..MaxNotices, FailProvision(p, n) PROVE (Alone /\ SettledOnce)'
  <2>1. Alone' BY <1>9, Purposes DEF FailProvision, Alone
  <2>2. SettledOnce' BY <1>9, PaymentsAssumption DEF FailProvision, SettledOnce
  <2> QED BY <2>1, <2>2
<1>10. ASSUME NEW p \in Payments, NEW n \in 1..MaxNotices, Extend(p, n) PROVE (Alone /\ SettledOnce)'
  <2>1. Alone' BY <1>10, Purposes DEF Extend, Alone
  <2>2. SettledOnce' BY <1>10 DEF Extend, SettledOnce, Alone
  <2> QED BY <2>1, <2>2
<1>11. ASSUME NEW p \in Payments, NEW n \in 1..MaxNotices, RefundExtension(p, n) PROVE (Alone /\ SettledOnce)'
  <2>1. Alone' BY <1>11, Purposes DEF RefundExtension, Alone
  <2>2. SettledOnce' BY <1>11 DEF RefundExtension, SettledOnce, Alone
  <2> QED BY <2>1, <2>2
<1>12. ASSUME NEW p \in Payments, NEW n \in 1..MaxNotices, Finish(p, n) PROVE (Alone /\ SettledOnce)'
  <2>1. Alone' BY <1>12, Purposes DEF Finish, rows, Alone
  <2>2. SettledOnce' BY <1>12 DEF Finish, rows, SettledOnce
  <2> QED BY <2>1, <2>2
<1>13. ASSUME NEW p \in Payments, NEW n \in 1..MaxNotices, FailPayment(p, n) PROVE (Alone /\ SettledOnce)'
  <2>1. Alone' BY <1>13, Purposes DEF FailPayment, Alone
  <2>2. SettledOnce' BY <1>13 DEF FailPayment, SettledOnce, StatusMeans
  <2> QED BY <2>1, <2>2
<1>14. ASSUME NEW p \in Payments, NEW n \in 1..MaxNotices, Crash(p, n) PROVE (Alone /\ SettledOnce)'
  <2>1. Alone' BY <1>14, Purposes DEF Crash, rows, Alone
  <2>2. SettledOnce' BY <1>14 DEF Crash, rows, SettledOnce
  <2> QED BY <2>1, <2>2
<1>15. CASE UNCHANGED vars
  <2>1. Alone' BY <1>15 DEF vars, rows, Alone
  <2>2. SettledOnce' BY <1>15 DEF vars, rows, SettledOnce
  <2> QED BY <2>1, <2>2
<1> QED
  BY <1>1, <1>2, <1>3, <1>4, <1>5, <1>6, <1>7, <1>8, <1>9, <1>10, <1>11, <1>12, <1>13, <1>14, <1>15
  DEF Next, Settle

-----------------------------------------------------------------------------
\* Types hold; only subscription payments ever touch a subscription.
THEOREM TypeCorrect == Spec => []TypeOK
<1>1. IInv => TypeOK BY DEF IInv
<1> QED BY InitInv, StepInv, <1>1, PTL DEF Spec

\* A subscription is active only if it was paid for and made, and dies with its
\* payment, whatever notices overlap and whenever the cron expires payments.
THEOREM SubscriptionsFollow == Spec => []SubscriptionFollowsPayment
<1>1. IInv => SubscriptionFollowsPayment BY DEF IInv
<1> QED BY InitInv, StepInv, <1>1, PTL DEF Spec

LEMMA OnceInvariant ==
  ASSUME Overlap = FALSE
  PROVE  Spec => []OnceInv
<1>1. Init => Alone /\ SettledOnce
  BY Purposes DEF Init, Alone, SettledOnce, Payments
<1>2. Init => OnceInv BY <1>1, InitInv DEF OnceInv
<1>3. OnceInv /\ [Next]_vars => OnceInv'
  BY StepInv, StepOnce DEF OnceInv
<1> QED BY <1>2, <1>3, PTL DEF Spec

\* If the gateway does not overlap the notices of one payment, the payment
\* settles once: however often it is notified, whichever handler crashes.
THEOREM SettlesOnce ==
  ASSUME Overlap = FALSE
  PROVE  Spec => []SettledOnce
<1>1. OnceInv => SettledOnce BY DEF OnceInv
<1> QED BY OnceInvariant, <1>1, PTL

\* Under the same assumption, what a payment buys is granted at most once: the
\* property that overlapping notices violate.
THEOREM NoDoubleGrant ==
  ASSUME Overlap = FALSE
  PROVE  Spec => []GrantedAtMostOnce
<1>1. OnceInv => GrantedAtMostOnce
  BY DEF OnceInv, SettledOnce, GrantedAtMostOnce
<1> QED BY OnceInvariant, <1>1, PTL

\* ... and no step leaves a terminal state or settles without a confirmation.
THEOREM StaysSettled ==
  ASSUME Overlap = FALSE
  PROVE  Spec => SettledForGood
<1> DEFINE Good(p) ==
      /\ status[p] \in Terminal => status'[p] = status[p]
      /\ status'[p] \in Terminal => gateway[p] = "confirmed"
<1>1. OnceInv /\ OnceInv' /\ [Next]_vars => [\A p \in Payments : Good(p)]_vars
  <2> SUFFICES ASSUME OnceInv, Next, NEW p \in Payments PROVE Good(p)
    OBVIOUS
  <2> USE DEF OnceInv, IInv, TypeOK
  <2>1. CASE UNCHANGED <<status, gateway>>
    BY <2>1 DEF StatusMeans
  <2>2. ASSUME NEW q \in Payments, Create(q) \/ Expire(q) PROVE Good(p)
    BY <2>2 DEF Create, Expire, StatusMeans
  <2>3. ASSUME NEW q \in Payments, NEW n \in 1..MaxNotices,
               \/ CreditTopup(q, n) \/ Activate(q, n) \/ FailProvision(q, n)
               \/ Extend(q, n) \/ RefundExtension(q, n) \/ FailPayment(q, n)
        PROVE Good(p)
    <3>1. status[q] \notin Terminal
      BY <2>3 DEF CreditTopup, Activate, FailProvision, Extend, RefundExtension,
                  FailPayment, Alone
    <3>2. \/ status' = [status EXCEPT ![q] = "failed"]
          \/ gateway[q] = "confirmed" /\ \E v \in Terminal : status' = [status EXCEPT ![q] = v]
      BY <2>3 DEF CreditTopup, Activate, FailProvision, Extend, RefundExtension,
                  FailPayment, Handling
    <3> QED BY <3>1, <3>2 DEF StatusMeans
  <2>4. ASSUME NEW q \in Payments, Decide(q) PROVE Good(p)
    BY <2>4 DEF Decide, StatusMeans, rows
  <2>5. ASSUME NEW q \in Payments, NEW n \in 1..MaxNotices,
               \/ Receive(q, n) \/ MarkPaid(q, n) \/ CallProvider(q, n)
               \/ Finish(q, n) \/ Crash(q, n)
        PROVE UNCHANGED <<status, gateway>>
    BY <2>5 DEF Receive, MarkPaid, CallProvider, Finish, Crash, rows
  <2> QED BY <2>1, <2>2, <2>3, <2>4, <2>5 DEF Next, Settle
<1> QED BY OnceInvariant, <1>1, PTL DEF Spec, SettledForGood

-----------------------------------------------------------------------------
\* The refinement of module Settlement, for notices that do not overlap.
Stages == [p \in Payments |-> Stage(p)]
Givens == [p \in Payments |-> Given(p)]

\* A step that touches the rows of p alone changes what has come of p alone.
LEMMA OnePayment ==
    ASSUME NEW p \in Payments,
           \A q \in Payments \ {p} : /\ status'[q] = status[q] /\ sub'[q] = sub[q]
                                     /\ granted'[q] = granted[q]
    PROVE  /\ Stages' = [Stages EXCEPT ![p] = Stage(p)']
           /\ Givens' = [Givens EXCEPT ![p] = Given(p)']
BY DEF Stages, Givens, Stage, Given

\* Before it is settled, a payment gave nothing.
LEMMA Waiting ==
    ASSUME OnceInv, NEW p \in Payments, NEW n \in 1..MaxNotices,
           pc[<<p, n>>] \in Running \ {"refunded"}, gateway[p] # "none"
    PROVE  /\ Stage(p) \in {"open", "dropped"}
           /\ p \in Subscriptions => sub[p] # "active" /\ Given(p) = 0
<1>1. status[p] \in {"pending", "failed", "expired"}
  BY DEF OnceInv, IInv, TypeOK, Alone, StatusMeans
<1> QED BY <1>1 DEF OnceInv, IInv, SubscriptionFollowsPayment, Stage, Given

\* What settles a payment is a way to settle it.
LEMMA SettlesAs ==
    ASSUME OnceInv, NEW p \in Payments, NEW n \in 1..MaxNotices,
           \/ CreditTopup(p, n) \/ Activate(p, n) \/ FailProvision(p, n)
           \/ Extend(p, n) \/ RefundExtension(p, n)
    PROVE  \E e \in Ends[p] : Promise!Settle(p, e)
<1> USE DEF OnceInv, IInv, TypeOK
<1>1. /\ gateway' = gateway /\ made' = made
      /\ \A q \in Payments \ {p} : /\ status'[q] = status[q] /\ sub'[q] = sub[q]
                                   /\ granted'[q] = granted[q]
  BY DEF CreditTopup, Activate, FailProvision, Extend, RefundExtension
<1>2. /\ Stages' = [Stages EXCEPT ![p] = Stage(p)']
      /\ Givens' = [Givens EXCEPT ![p] = Given(p)']
  BY <1>1, OnePayment
<1>3. pc[<<p, n>>] \in {"locked", "ok", "err"} /\ gateway[p] = "confirmed"
  BY DEF CreditTopup, Activate, FailProvision, Extend, RefundExtension, Handling
<1>4. /\ Stage(p) \in {"open", "dropped"}
      /\ p \in Subscriptions => sub[p] # "active" /\ Given(p) = 0
  BY <1>3, Waiting
<1>5. Promise!Unsettled(p) BY <1>4 DEF Promise!Unsettled, Stages
<1>6. Givens[p] = Given(p) BY DEF Givens
<1>7. CASE CreditTopup(p, n) \/ Extend(p, n)
  <2>1. p \notin Subscriptions /\ (p \in Extensions => made[p])
    BY <1>7, Purposes DEF CreditTopup, Extend, Handling
  <2>2. Stage(p)' = "given" /\ Given(p)' = Given(p) + 1 /\ refunds' = refunds
    BY <1>7, <2>1 DEF CreditTopup, Extend, Stage, Given
  <2>3. Promise!Settle(p, "given")
    BY <1>1, <1>2, <1>3, <1>5, <1>6, <2>1, <2>2 DEF Promise!Settle, Stages, Givens
  <2>4. "given" \in Ends[p] BY DEF Ends
  <2> QED BY <2>3, <2>4
<1>8. CASE Activate(p, n)
  <2>1. p \in Subscriptions /\ made[p]
    BY <1>8 DEF Activate, Handling
  <2>2. Stage(p)' = "given" /\ Given(p)' = Given(p) + 1 /\ refunds' = refunds
    BY <1>4, <1>8, <2>1 DEF Activate, Stage, Given
  <2>3. Promise!Settle(p, "given")
    BY <1>1, <1>2, <1>3, <1>5, <1>6, <2>1, <2>2 DEF Promise!Settle, Stages, Givens
  <2>4. "given" \in Ends[p] BY DEF Ends
  <2> QED BY <2>3, <2>4
<1>9. CASE FailProvision(p, n)
  <2>1. p \in Subscriptions BY <1>9 DEF FailProvision
  <2>2. Stage(p)' = "owed" /\ Given(p)' = Given(p) /\ refunds' = refunds
    BY <1>4, <1>9, <2>1 DEF FailProvision, Stage, Given
  <2>3. Givens' = Givens BY <1>2, <1>6, <2>2 DEF Givens
  <2>4. Promise!Settle(p, "owed")
    BY <1>1, <1>2, <1>3, <1>5, <2>2, <2>3 DEF Promise!Settle, Stages, Givens
  <2>5. "owed" \in Ends[p] BY <2>1 DEF Ends
  <2> QED BY <2>4, <2>5
<1>10. CASE RefundExtension(p, n)
  <2>1. p \in Extensions /\ p \notin Subscriptions BY <1>10, Purposes DEF RefundExtension
  <2>2. Stage(p)' = "returned" /\ Given(p)' = Given(p)
    BY <1>10, <2>1 DEF RefundExtension, Stage, Given
  <2>3. Givens' = Givens BY <1>2, <1>6, <2>2 DEF Givens
  <2>4. refunds' = [refunds EXCEPT ![p] = @ + 1] BY <1>10 DEF RefundExtension
  <2>5. Promise!Settle(p, "returned")
    BY <1>1, <1>2, <1>3, <1>5, <2>2, <2>3, <2>4 DEF Promise!Settle, Stages, Givens
  <2>6. "returned" \in Ends[p] BY <2>1 DEF Ends
  <2> QED BY <2>5, <2>6
<1> QED BY <1>7, <1>8, <1>9, <1>10

\* A step that leaves rows, gateway and provider alone is none of the promise.
LEMMA SameRows ==
    ASSUME UNCHANGED <<rows, gateway, made>>
    PROVE  UNCHANGED Promise!vars
<1>1. Stages' = Stages /\ Givens' = Givens
  BY DEF rows, Stages, Givens, Stage, Given
<1> QED BY <1>1 DEF rows, Promise!vars, Stages, Givens

\* Every step of the webhooks is one of the promise, or none.
LEMMA RefineStep ==
    ASSUME OnceInv, [Next]_vars
    PROVE  [Promise!Next]_(Promise!vars)
<1> USE DEF OnceInv, IInv, TypeOK
<1>1. ASSUME NEW p \in Payments, Create(p) PROVE Promise!Open(p)
  <2>1. /\ Stages' = [Stages EXCEPT ![p] = Stage(p)']
        /\ Givens' = [Givens EXCEPT ![p] = Given(p)']
    BY <1>1, OnePayment DEF Create
  <2>2. Stage(p) = "none" /\ Stage(p)' = "open" BY <1>1 DEF Create, Stage
  <2>3. Given(p)' = Given(p)
    BY <1>1 DEF Create, Given, SubscriptionFollowsPayment
  <2>4. Givens' = Givens BY <2>1, <2>3 DEF Givens
  <2> QED BY <1>1, <2>1, <2>2, <2>4 DEF Create, Promise!Open, Stages, Givens
<1>2. ASSUME NEW p \in Payments, Decide(p)
      PROVE  \E g \in {"confirmed", "canceled"} : Promise!Decide(p, g)
  <2>1. Stages' = Stages /\ Givens' = Givens
    BY <1>2 DEF Decide, rows, Stages, Givens, Stage, Given
  <2> QED BY <1>2, <2>1 DEF Decide, rows, Promise!Decide, Stages, Givens
<1>3. ASSUME NEW p \in Payments,
             \/ Expire(p)
             \/ \E n \in 1..MaxNotices : FailPayment(p, n)
      PROVE  Promise!Drop(p) \/ UNCHANGED Promise!vars
  <2>1. /\ gateway' = gateway /\ made' = made /\ refunds' = refunds
        /\ Stages' = [Stages EXCEPT ![p] = Stage(p)']
        /\ Givens' = [Givens EXCEPT ![p] = Given(p)']
    BY <1>3, OnePayment DEF Expire, FailPayment, FailSub
  <2>2. Stage(p) \in {"open", "dropped"} /\ Stage(p)' = "dropped"
    <3>1. CASE Expire(p) BY <3>1 DEF Expire, Stage
    <3>2. CASE \E n \in 1..MaxNotices : FailPayment(p, n)
      BY <3>2, Waiting DEF FailPayment, Stage
    <3> QED BY <1>3, <3>1, <3>2
  <2>3. Given(p)' = Given(p)
    BY <1>3, <2>2 DEF Expire, FailPayment, FailSub, Given, Stage, SubscriptionFollowsPayment
  <2>4. Givens' = Givens BY <2>1, <2>3 DEF Givens
  <2>5. CASE Stage(p) = "open"
    BY <2>1, <2>2, <2>4, <2>5 DEF Promise!Drop, Stages, Givens
  <2>6. CASE Stage(p) = "dropped"
    <3>1. Stages' = Stages BY <2>1, <2>2, <2>6 DEF Stages
    <3> QED BY <2>1, <2>4, <3>1 DEF Promise!vars, Stages, Givens
  <2> QED BY <2>2, <2>5, <2>6
<1>4. ASSUME NEW p \in Payments, NEW n \in 1..MaxNotices, CallProvider(p, n)
      PROVE  Promise!Make(p) \/ UNCHANGED Promise!vars
  <2>1. Stages' = Stages /\ Givens' = Givens /\ UNCHANGED <<rows, gateway>>
    BY <1>4 DEF CallProvider, rows, Stages, Givens, Stage, Given
  <2>2. CASE made' = made BY <2>1, <2>2, SameRows DEF rows
  <2>3. CASE made' # made
    <3>1. made' = [made EXCEPT ![p] = TRUE]
      <4>1. PICK done \in BOOLEAN : made' = [made EXCEPT ![p] = made[p] \/ done]
        BY <1>4 DEF CallProvider
      <4>2. CASE made[p] \/ done
        <5>1. (made[p] \/ done) = TRUE BY <4>2
        <5> QED BY <4>1, <5>1
      <4>3. CASE ~(made[p] \/ done)
        <5>1. (made[p] \/ done) = FALSE /\ made[p] = FALSE BY <4>3
        <5>2. made' = made BY <4>1, <5>1
        <5> QED BY <2>3, <5>2
      <4> QED BY <4>2, <4>3
    <3>2. p \in Subscriptions \cup Extensions BY <1>4 DEF CallProvider, Payments
    <3>3. gateway[p] = "confirmed" /\ pc[<<p, n>>] = "locked"
      BY <1>4 DEF CallProvider, Handling
    <3>4. Stage(p) \in {"open", "dropped"} BY <3>3, Waiting
    <3> QED BY <2>1, <3>1, <3>2, <3>3, <3>4
            DEF rows, Promise!Make, Promise!Unsettled, Stages, Givens
  <2> QED BY <2>2, <2>3
<1>5. ASSUME NEW p \in Payments, NEW n \in 1..MaxNotices,
             Receive(p, n) \/ MarkPaid(p, n) \/ Finish(p, n) \/ Crash(p, n)
      PROVE  UNCHANGED Promise!vars
  BY <1>5, SameRows DEF Receive, MarkPaid, Finish, Crash
<1>6. ASSUME UNCHANGED vars PROVE UNCHANGED Promise!vars
  BY <1>6, SameRows DEF vars
<1> QED
  BY <1>1, <1>2, <1>3, <1>4, <1>5, <1>6, SettlesAs DEF Next, Settle, Promise!Next

\* Without overlapping notices, the webhooks, the cron and the provider keep the
\* promise of module Settlement, whichever handlers crash.
THEOREM PaymentsRefine ==
  ASSUME Overlap = FALSE
  PROVE  Spec => ImplementsSettlement
<1>1. Init => Promise!Init
  BY DEF Init, Promise!Init, Stage, Given
<1>2. OnceInv /\ [Next]_vars => [Promise!Next]_(Promise!vars)
  BY RefineStep
<1> QED BY OnceInvariant, <1>1, <1>2, PTL DEF Spec, ImplementsSettlement, Promise!Spec
=============================================================================
