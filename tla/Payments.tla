------------------------------ MODULE Payments ------------------------------
(***************************************************************************)
(* Payments through an external gateway (Platega, CryptoBot): the backend  *)
(* creates a pending payment and its invoice                               *)
(* (backend/app/services/payment_service.py), the gateway reports the      *)
(* outcome by webhook (api/webhook/*.py), the webhook settles the payment, *)
(* and a worker cron expires payments nobody paid                          *)
(* (worker/app/tasks/expire_payments.py).                                  *)
(*                                                                         *)
(* A gateway repeats a notice that was not acknowledged, and may repeat    *)
(* one that was: notice n of payment p is handled by a request of its own, *)
(* <<p, n>>.  A handler is one database transaction that reads the payment *)
(* without a lock, writes its row early (from then on the row is locked),  *)
(* calls the VPN provider and commits.  The post-paid hooks (referral      *)
(* bonus, promo activation) touch other rows and are left out.             *)
(***************************************************************************)
EXTENDS Naturals

CONSTANTS Topups,         \* payments that fill the balance
          Subscriptions,  \* payments that buy a subscription
          Extensions,     \* payments that extend one
          MaxNotices,     \* webhook deliveries per payment
          Overlap         \* may two notices of a payment be handled at once?

Payments == Topups \cup Subscriptions \cup Extensions
Notices  == Payments \X (1..MaxNotices)

ASSUME PaymentsAssumption ==
    /\ MaxNotices \in Nat
    /\ Overlap \in BOOLEAN
    /\ Topups \cap Subscriptions = {}
    /\ (Topups \cup Subscriptions) \cap Extensions = {}

VARIABLES status,   \* payment -> payments.status, "none" before the insert
          gateway,  \* payment -> what became of its invoice at the gateway
          sub,      \* payment -> status of the subscription it was to buy
          granted,  \* payment -> times the balance was credited, or the expiry
                    \*            of the extended subscription was moved
          refunds,  \* payment -> times it was returned to the balance
          made,     \* payment -> the provider made (extended) the key; its
                    \*            idempotency key is the payment id
          pc        \* notice -> how far its handler is

rows == <<status, sub, granted, refunds>>
vars == <<rows, gateway, made, pc>>

PCs      == {"idle", "read", "locked", "ok", "err", "refunded", "acked", "crashed"}
Running  == {"read", "locked", "ok", "err", "refunded"}
HasRow   == {"locked", "ok", "err"}
Terminal == {"paid", "refunded"}

\* No transaction holds the row of p.
RowFree(p) == \A n \in 1..MaxNotices : pc[<<p, n>>] \notin HasRow

-----------------------------------------------------------------------------
Init ==
    /\ status = [p \in Payments |-> "none"]
    /\ gateway = [p \in Payments |-> "none"]
    /\ sub = [p \in Payments |-> "none"]
    /\ granted = [p \in Payments |-> 0]
    /\ refunds = [p \in Payments |-> 0]
    /\ made = [p \in Payments |-> FALSE]
    /\ pc = [h \in Notices |-> "idle"]

\* create_subscription_payment, create_topup_payment, create_extension_payment
\* and the commit of their endpoint.  When the invoice cannot be created the
\* transaction is rolled back, and nothing has happened.
Create(p) ==
    /\ status[p] = "none"
    /\ status' = [status EXCEPT ![p] = "pending"]
    /\ sub' = [sub EXCEPT ![p] = IF p \in Subscriptions THEN "pending" ELSE @]
    /\ gateway' = [gateway EXCEPT ![p] = "open"]
    /\ UNCHANGED <<granted, refunds, made, pc>>

\* The user pays, or the gateway cancels the invoice.
Decide(p) ==
    /\ gateway[p] = "open"
    /\ \E g \in {"confirmed", "canceled"} :
        gateway' = [gateway EXCEPT ![p] = g]
    /\ UNCHANGED <<rows, made, pc>>

\* The cascade of both ways a payment dies: only a pending subscription fails.
FailSub(p) == sub' = [sub EXCEPT ![p] = IF @ = "pending" THEN "failed" ELSE @]

\* Mutant: the cascade of the cron is forgotten.
ExpireAlone(p) ==
    /\ status[p] = "pending" /\ RowFree(p)
    /\ status' = [status EXCEPT ![p] = "expired"]
    /\ UNCHANGED <<sub, granted, refunds, gateway, made, pc>>

\* expire_pending_payments_task, at any time after the payment's time to live:
\* UPDATE ... WHERE status = 'pending' waits for a locked row and looks again.
Expire(p) ==
    /\ status[p] = "pending" /\ RowFree(p)
    /\ status' = [status EXCEPT ![p] = "expired"]
    /\ FailSub(p)
    /\ UNCHANGED <<granted, refunds, gateway, made, pc>>

-----------------------------------------------------------------------------
\* Mutants of the terminal check: none at all; expired payments are terminal.
ReceiveUnchecked(p, n) ==
    /\ gateway[p] \in {"confirmed", "canceled"}
    /\ pc[<<p, n>>] = "idle"
    /\ \A j \in 1..(n - 1) : pc[<<p, j>>] # "idle"
    /\ Overlap \/ \A j \in 1..MaxNotices : pc[<<p, j>>] \notin Running
    /\ pc' = [pc EXCEPT ![<<p, n>>] = "read"]
    /\ UNCHANGED <<rows, gateway, made>>

ReceiveInTime(p, n) ==
    /\ gateway[p] \in {"confirmed", "canceled"}
    /\ pc[<<p, n>>] = "idle"
    /\ \A j \in 1..(n - 1) : pc[<<p, j>>] # "idle"
    /\ Overlap \/ \A j \in 1..MaxNotices : pc[<<p, j>>] \notin Running
    /\ pc' = [pc EXCEPT ![<<p, n>>] =
                IF status[p] \in Terminal \cup {"expired"} THEN "acked" ELSE "read"]
    /\ UNCHANGED <<rows, gateway, made>>

\* Notice n arrives.  process_webhook_payment reads the payment without a lock
\* and answers at once when it is in a terminal state.
Receive(p, n) ==
    /\ gateway[p] \in {"confirmed", "canceled"}
    /\ pc[<<p, n>>] = "idle"
    /\ \A j \in 1..(n - 1) : pc[<<p, j>>] # "idle"
    /\ Overlap \/ \A j \in 1..MaxNotices : pc[<<p, j>>] \notin Running
    /\ pc' = [pc EXCEPT ![<<p, n>>] =
                IF status[p] \in Terminal THEN "acked" ELSE "read"]
    /\ UNCHANGED <<rows, gateway, made>>

\* _handle_paid: payment.status = 'paid' is flushed.  The UPDATE waits for the
\* row and then overwrites whatever another transaction has left there.
MarkPaid(p, n) ==
    /\ pc[<<p, n>>] = "read" /\ gateway[p] = "confirmed"
    /\ RowFree(p)
    /\ pc' = [pc EXCEPT ![<<p, n>>] = "locked"]
    /\ UNCHANGED <<rows, gateway, made>>

\* _credit_topup (the wallet side is module Wallet's Credit) and the commit.
CreditTopup(p, n) ==
    /\ p \in Topups /\ pc[<<p, n>>] = "locked"
    /\ status' = [status EXCEPT ![p] = "paid"]
    /\ granted' = [granted EXCEPT ![p] = @ + 1]
    /\ pc' = [pc EXCEPT ![<<p, n>>] = "acked"]
    /\ UNCHANGED <<sub, refunds, gateway, made>>

\* create_key or extend_key: the provider does it once per idempotency key, and
\* the client may give up although it was done.
CallProvider(p, n) ==
    /\ p \notin Topups /\ pc[<<p, n>>] = "locked"
    /\ \E done \in BOOLEAN, heard \in BOOLEAN :
        /\ heard => done
        /\ made' = [made EXCEPT ![p] = @ \/ done]
        /\ pc' = [pc EXCEPT ![<<p, n>>] = IF heard THEN "ok" ELSE "err"]
    /\ UNCHANGED <<rows, gateway>>

\* _provision_subscription_key, key in hand; whatever the subscription's status
\* was, expired payments included.
Activate(p, n) ==
    /\ p \in Subscriptions /\ pc[<<p, n>>] = "ok"
    /\ status' = [status EXCEPT ![p] = "paid"]
    /\ sub' = [sub EXCEPT ![p] = "active"]
    /\ pc' = [pc EXCEPT ![<<p, n>>] = "acked"]
    /\ UNCHANGED <<granted, refunds, gateway, made>>

\* ... and without a key: the money is kept, support has to step in.
FailProvision(p, n) ==
    /\ p \in Subscriptions /\ pc[<<p, n>>] = "err"
    /\ status' = [status EXCEPT ![p] = "paid"]
    /\ sub' = [sub EXCEPT ![p] = "failed_provider"]
    /\ pc' = [pc EXCEPT ![<<p, n>>] = "acked"]
    /\ UNCHANGED <<granted, refunds, gateway, made>>

\* apply_extension_after_payment: expires_at moves by the days paid for.
Extend(p, n) ==
    /\ p \in Extensions /\ pc[<<p, n>>] = "ok"
    /\ status' = [status EXCEPT ![p] = "paid"]
    /\ granted' = [granted EXCEPT ![p] = @ + 1]
    /\ pc' = [pc EXCEPT ![<<p, n>>] = "acked"]
    /\ UNCHANGED <<sub, refunds, gateway, made>>

\* Mutant: the refund leaves the payment paid.
RefundExtensionAsPaid(p, n) ==
    /\ p \in Extensions /\ pc[<<p, n>>] = "err"
    /\ status' = [status EXCEPT ![p] = "paid"]
    /\ refunds' = [refunds EXCEPT ![p] = @ + 1]
    /\ pc' = [pc EXCEPT ![<<p, n>>] = "refunded"]
    /\ UNCHANGED <<sub, granted, gateway, made>>

\* _refund_extension: credit the balance and commit, in the middle of the
\* handler; the row is free again.
RefundExtension(p, n) ==
    /\ p \in Extensions /\ pc[<<p, n>>] = "err"
    /\ status' = [status EXCEPT ![p] = "refunded"]
    /\ refunds' = [refunds EXCEPT ![p] = @ + 1]
    /\ pc' = [pc EXCEPT ![<<p, n>>] = "refunded"]
    /\ UNCHANGED <<sub, granted, gateway, made>>

\* The rest of that handler: hooks, commit, answer.
Finish(p, n) ==
    /\ pc[<<p, n>>] = "refunded"
    /\ pc' = [pc EXCEPT ![<<p, n>>] = "acked"]
    /\ UNCHANGED <<rows, gateway, made>>

\* Mutant: a subscription is failed whatever its status, or whether there is one.
FailPaymentHard(p, n) ==
    /\ pc[<<p, n>>] = "read" /\ gateway[p] = "canceled"
    /\ RowFree(p)
    /\ status' = [status EXCEPT ![p] = "failed"]
    /\ sub' = [sub EXCEPT ![p] = "failed"]
    /\ pc' = [pc EXCEPT ![<<p, n>>] = "acked"]
    /\ UNCHANGED <<granted, refunds, gateway, made>>

\* _handle_failed and the commit.
FailPayment(p, n) ==
    /\ pc[<<p, n>>] = "read" /\ gateway[p] = "canceled"
    /\ RowFree(p)
    /\ status' = [status EXCEPT ![p] = "failed"]
    /\ FailSub(p)
    /\ pc' = [pc EXCEPT ![<<p, n>>] = "acked"]
    /\ UNCHANGED <<granted, refunds, gateway, made>>

\* The handler dies or its transaction fails: rolled back, 500 or no answer.
\* What the provider did is not undone.
Crash(p, n) ==
    /\ pc[<<p, n>>] \in Running
    /\ pc' = [pc EXCEPT ![<<p, n>>] = "crashed"]
    /\ UNCHANGED <<rows, gateway, made>>

-----------------------------------------------------------------------------
Settle(p, n) ==
    \/ MarkPaid(p, n) \/ CreditTopup(p, n) \/ CallProvider(p, n)
    \/ Activate(p, n) \/ FailProvision(p, n)
    \/ Extend(p, n) \/ RefundExtension(p, n) \/ Finish(p, n)
    \/ FailPayment(p, n)

Next ==
    \/ \E p \in Payments : Create(p) \/ Decide(p) \/ Expire(p)
    \/ \E p \in Payments, n \in 1..MaxNotices :
        Receive(p, n) \/ Settle(p, n) \/ Crash(p, n)

Spec == Init /\ [][Next]_vars

\* The gateway repeats a notice while all earlier ones went unanswered, and a
\* handler that does not die runs on.
Redeliver(p, n) ==
    /\ \A j \in 1..(n - 1) : pc[<<p, j>>] = "crashed"
    /\ Receive(p, n)

FairSpec ==
    /\ Spec
    /\ \A p \in Payments, n \in 1..MaxNotices :
        WF_vars(Redeliver(p, n)) /\ WF_vars(Settle(p, n))

-----------------------------------------------------------------------------
\* Type correctness; only subscription payments have a subscription to fail.
TypeOK ==
    /\ status \in [Payments ->
                    {"none", "pending", "paid", "failed", "expired", "refunded"}]
    /\ gateway \in [Payments -> {"none", "open", "confirmed", "canceled"}]
    /\ sub \in [Payments ->
                    {"none", "pending", "active", "failed", "failed_provider"}]
    /\ granted \in [Payments -> Nat] /\ refunds \in [Payments -> Nat]
    /\ made \in [Payments -> BOOLEAN]
    /\ pc \in [Notices -> PCs]
    /\ \A p \in Payments \ Subscriptions : sub[p] = "none"

\* A payment settles once, over all its notices, crashes and repetitions: paid
\* top-ups and extensions were granted exactly once, a refunded one was
\* returned once and not granted, any other was neither.
SettledOnce ==
    \A p \in Topups \cup Extensions :
        /\ granted[p] = IF status[p] = "paid" THEN 1 ELSE 0
        /\ refunds[p] = IF status[p] = "refunded" THEN 1 ELSE 0

\* A subscription and the payment that buys it agree, also when the money comes
\* after the payment has expired: active only if paid and the key exists, paid
\* only if active or handed to support, dead together with its payment.
SubscriptionFollowsPayment ==
    \A p \in Subscriptions :
        /\ sub[p] = "active" => status[p] = "paid" /\ made[p]
        /\ status[p] = "paid" => sub[p] \in {"active", "failed_provider"}
        /\ status[p] \in {"failed", "expired"} => sub[p] = "failed"

\* No step takes a payment out of a terminal state, and none settles a payment
\* the gateway did not confirm.
SettledForGood ==
    [][\A p \in Payments :
        /\ status[p] \in Terminal => status'[p] = status[p]
        /\ status'[p] \in Terminal => gateway[p] = "confirmed"]_vars

\* The user's money is never lost on the way: a confirmed payment is settled,
\* unless the handler of every single notice died.
ConfirmedSettles ==
    \A p \in Payments :
        gateway[p] = "confirmed" ~>
            \/ status[p] \in Terminal
            \/ \A n \in 1..MaxNotices : pc[<<p, n>>] = "crashed"

\* Whatever notices overlap, what a payment buys is granted at most once.
GrantedAtMostOnce == \A p \in Topups \cup Extensions : granted[p] <= 1

-----------------------------------------------------------------------------
\* What a payment has come to, for the user: a subscription without a key is owed.
Stage(p) ==
    IF status[p] = "none" THEN "none"
    ELSE IF status[p] = "pending" THEN "open"
    ELSE IF status[p] \in {"failed", "expired"} THEN "dropped"
    ELSE IF status[p] = "refunded" THEN "returned"
    ELSE IF sub[p] = "failed_provider" THEN "owed" ELSE "given"

\* Times the user was given what he paid for.
Given(p) == IF p \in Subscriptions THEN IF sub[p] = "active" THEN 1 ELSE 0 ELSE granted[p]

Ends ==
    [p \in Payments |-> {"given"} \cup (IF p \in Extensions THEN {"returned"} ELSE {})
                                  \cup (IF p \in Subscriptions THEN {"owed"} ELSE {})]

Promise ==
    INSTANCE Settlement WITH Provided <- Subscriptions \cup Extensions,
                             state    <- [p \in Payments |-> Stage(p)],
                             invoice  <- gateway,
                             given    <- [p \in Payments |-> Given(p)],
                             returned <- refunds

\* Without overlapping notices the webhooks keep the promise of module Settlement:
\* confirmed money settles a payment once, however late and often it is notified, the
\* provider is called only for money that is not settled yet, and nothing is given
\* that the provider has not made.
ImplementsSettlement == Promise!Spec
=============================================================================
