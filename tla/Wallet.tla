------------------------------- MODULE Wallet -------------------------------
(***************************************************************************)
(* One user's wallet: users.balance_kopecks, the user's rows of            *)
(* balance_transactions, and everything that writes them - purchases from  *)
(* balance (backend/app/services/balance_service.py), extensions from      *)
(* balance (extension_service.py), the admin's adjust and set              *)
(* (api/admin/users.py), balance promo codes (promo_service.py) and the    *)
(* credits a payment webhook makes.  Other users' wallets share no row.    *)
(*                                                                         *)
(* Requests are concurrent database sessions.  Most of them load the user  *)
(* with a plain SELECT first and lock the row later.  The locking SELECT   *)
(* waits for the lock but does not refresh the object the session already  *)
(* holds (no populate_existing), so what is written back is computed from  *)
(* mem, the balance as that session knows it.                              *)
(*                                                                         *)
(* The bot posts an order and, when the answer does not come within its    *)
(* timeout, posts it again although nobody told the first handler: an      *)
(* order has several attempts, and they may all be running.                *)
(***************************************************************************)
EXTENDS Integers

CONSTANTS Buys,      \* clicks that buy a subscription from balance
          Extends,   \* clicks that extend one from balance
          Tries,     \* attempts of a click, 1..3 in the bot
          Price,     \* what a click costs
          Credits,   \* webhook credits: top-ups, referral bonuses, refunds
          Adjusts,   \* admin adjustments (signed) and balance promo codes
          Sets,      \* admin "set balance to" requests
          Amount,    \* what a credit or adjustment adds, what a set targets
          Initial    \* the balance to begin with

Orders   == Buys \cup Extends
Attempts == Orders \X Tries
Admin    == Adjusts \cup Sets
Sessions == Attempts \cup Admin

ASSUME WalletAssumption ==
    /\ Tries \subseteq Nat
    /\ Price \in [Orders -> Nat]
    /\ Initial \in Nat
    /\ Amount \in [Credits \cup Admin -> Int]
    /\ \A c \in Credits : Amount[c] > 0
    /\ \A s \in Sets : Amount[s] >= 0
    /\ Buys \cap Extends = {}
    /\ Adjusts \cap Sets = {}
    /\ Attempts \cap Admin = {}
    /\ Sessions \cap Credits = {}

VARIABLES balance,   \* users.balance_kopecks, committed
          ledger,    \* sum of the user's balance_transactions
          entry,     \* operation -> what its own balance_transactions add up to
          lock,      \* the attempts that hold the user row across steps
          pc,        \* session -> how far it is
          mem,       \* session -> the balance in its session's User object
          pay,       \* attempt -> status of its payments row
          sub,       \* attempt -> status of its subscription (or extension)
          key,       \* attempt -> whether the provider made (extended) the key
          raced      \* some write happened under another session's snapshot

rows == <<balance, ledger, entry, raced>>
vars == <<rows, lock, pc, mem, pay, sub, key>>

PCs == {"idle", "sent", "loaded", "charged", "issued", "failing",
        "answered", "crashed"}

\* The session holds a balance it may still write back.
Holds(s) == pc[s] \in {"loaded", "charged", "failing"}

\* An order under a 100% discount: it does not change the balance of its User
\* object, and an attribute that did not change is not part of the UPDATE.
IsFree(o) == o \in Attempts /\ Price[o[1]] = 0

\* The balance b is committed by operation o, with a balance_transactions row.
Write(o, b, amount) ==
    /\ balance' = IF IsFree(o) THEN balance ELSE b
    /\ ledger' = ledger + amount
    /\ entry' = [entry EXCEPT ![o] = @ + amount]
    /\ raced' = (raced \/ \E s \in Sessions \ {o} : Holds(s))

\* The request of s is over and its session, User object included, is gone.
End(s, how) ==
    /\ pc' = [pc EXCEPT ![s] = how]
    /\ mem' = [mem EXCEPT ![s] = 0]

-----------------------------------------------------------------------------
Init ==
    /\ balance = Initial
    /\ ledger = Initial
    /\ entry = [o \in Sessions \cup Credits |-> 0]
    /\ raced = FALSE
    /\ lock = {}
    /\ pc = [s \in Sessions |-> "idle"]
    /\ mem = [s \in Sessions |-> 0]
    /\ pay = [a \in Attempts |-> "none"]
    /\ sub = [a \in Attempts |-> "none"]
    /\ key = [a \in Attempts |-> FALSE]

\* The bot posts the click, or posts it again because attempt k - 1 was not
\* answered in time (ReadTimeout).  An answered attempt is never repeated.
Send(x, k) ==
    /\ pc[<<x, k>>] = "idle"
    /\ k - 1 \in Tries => pc[<<x, k - 1>>] \notin {"idle", "answered"}
    /\ pc' = [pc EXCEPT ![<<x, k>>] = "sent"]
    /\ UNCHANGED <<rows, lock, mem, pay, sub, key>>

\* The endpoint loads the user (UserService.get_by_tg_id, _get_user_or_404);
\* extensions and admin requests begin with this step.
Load(s) ==
    /\ pc[s] = IF s \in Attempts THEN "sent" ELSE "idle"
    /\ pc' = [pc EXCEPT ![s] = "loaded"]
    /\ mem' = [mem EXCEPT ![s] = balance]
    /\ UNCHANGED <<rows, lock, pay, sub, key>>

\* 402, nothing written.
Insufficient(a) ==
    /\ pc[a] = "loaded" /\ lock = {}
    /\ mem[a] < Price[a[1]]
    /\ End(a, "answered")
    /\ UNCHANGED <<rows, lock, pay, sub, key>>

-----------------------------------------------------------------------------
\* Mutant: the debit without its affordability check.
ChargeUnchecked(a) ==
    /\ a[1] \in Buys
    /\ pc[a] = "loaded" /\ lock = {}
    /\ Write(a, mem[a] - Price[a[1]], -Price[a[1]])
    /\ mem' = [mem EXCEPT ![a] = @ - Price[a[1]]]
    /\ sub' = [sub EXCEPT ![a] = "pending"]
    /\ pay' = [pay EXCEPT ![a] = "paid"]
    /\ pc' = [pc EXCEPT ![a] = "charged"]
    /\ UNCHANGED <<lock, key>>

\* Purchase from balance, first transaction: lock, check, debit, pending
\* subscription, paid payment, ledger row, commit.
Charge(a) ==
    /\ a[1] \in Buys
    /\ pc[a] = "loaded" /\ lock = {}
    /\ mem[a] >= Price[a[1]]
    /\ Write(a, mem[a] - Price[a[1]], -Price[a[1]])
    /\ mem' = [mem EXCEPT ![a] = @ - Price[a[1]]]
    /\ sub' = [sub EXCEPT ![a] = "pending"]
    /\ pay' = [pay EXCEPT ![a] = "paid"]
    /\ pc' = [pc EXCEPT ![a] = "charged"]
    /\ UNCHANGED <<lock, key>>

\* Mutant: the user row is not locked before the debit.
ReserveUnlocked(a) ==
    /\ a[1] \in Extends
    /\ pc[a] = "loaded"
    /\ mem[a] >= Price[a[1]]
    /\ lock' = lock \cup {a}
    /\ mem' = [mem EXCEPT ![a] = @ - Price[a[1]]]
    /\ pc' = [pc EXCEPT ![a] = "charged"]
    /\ UNCHANGED <<rows, pay, sub, key>>

\* Extension from balance: the same debit, but it stays in the open
\* transaction, with the user row locked, while the provider is called.
Reserve(a) ==
    /\ a[1] \in Extends
    /\ pc[a] = "loaded" /\ lock = {}
    /\ mem[a] >= Price[a[1]]
    /\ lock' = {a}
    /\ mem' = [mem EXCEPT ![a] = @ - Price[a[1]]]
    /\ pc' = [pc EXCEPT ![a] = "charged"]
    /\ UNCHANGED <<rows, pay, sub, key>>

\* NorthLine makes (extends) the key, or the client gives up after its own
\* retries: nothing was made, or it was and the answers were lost.
Issue(a) ==
    /\ pc[a] = "charged"
    /\ \E made \in BOOLEAN, heard \in BOOLEAN :
        /\ heard => made
        /\ key' = [key EXCEPT ![a] = made]
        /\ pc' = [pc EXCEPT ![a] = IF heard THEN "issued" ELSE "failing"]
    /\ UNCHANGED <<rows, lock, mem, pay, sub>>

\* Purchase, second transaction: the subscription becomes active.
Activate(a) ==
    /\ a[1] \in Buys /\ pc[a] = "issued"
    /\ sub' = [sub EXCEPT ![a] = "active"]
    /\ End(a, "answered")
    /\ UNCHANGED <<rows, lock, pay, key>>

\* Mutants of the refund: the payment stays paid; the ledger row is missing;
\* only a key that surely was not made is refunded.
RefundStillPaid(a) ==
    /\ a[1] \in Buys /\ pc[a] = "failing" /\ lock = {}
    /\ Write(a, mem[a] + Price[a[1]], Price[a[1]])
    /\ sub' = [sub EXCEPT ![a] = "failed"]
    /\ End(a, "answered")
    /\ UNCHANGED <<lock, pay, key>>

RefundUnbooked(a) ==
    /\ a[1] \in Buys /\ pc[a] = "failing" /\ lock = {}
    /\ Write(a, mem[a] + Price[a[1]], 0)
    /\ sub' = [sub EXCEPT ![a] = "failed"]
    /\ pay' = [pay EXCEPT ![a] = "refunded"]
    /\ End(a, "answered")
    /\ UNCHANGED <<lock, key>>

RefundIfNoKey(a) ==
    /\ a[1] \in Buys /\ pc[a] = "failing" /\ lock = {} /\ ~key[a]
    /\ Write(a, mem[a] + Price[a[1]], Price[a[1]])
    /\ sub' = [sub EXCEPT ![a] = "failed"]
    /\ pay' = [pay EXCEPT ![a] = "refunded"]
    /\ End(a, "answered")
    /\ UNCHANGED <<lock, key>>

\* _refund_after_failure: lock again, re-credit, fail the subscription, mark
\* the payment refunded, ledger row, commit; the bot gets a 502.
Refund(a) ==
    /\ a[1] \in Buys /\ pc[a] = "failing" /\ lock = {}
    /\ Write(a, mem[a] + Price[a[1]], Price[a[1]])
    /\ sub' = [sub EXCEPT ![a] = "failed"]
    /\ pay' = [pay EXCEPT ![a] = "refunded"]
    /\ End(a, "answered")
    /\ UNCHANGED <<lock, key>>

\* The endpoint of the extension commits debit, payment, ledger row and the
\* later expiry together.
CommitExtension(a) ==
    /\ a[1] \in Extends /\ pc[a] = "issued"
    /\ Write(a, mem[a], -Price[a[1]])
    /\ lock' = {}
    /\ sub' = [sub EXCEPT ![a] = "active"]
    /\ pay' = [pay EXCEPT ![a] = "paid"]
    /\ End(a, "answered")
    /\ UNCHANGED key

\* _refund_extension in the same transaction: two ledger rows that cancel out
\* and a refunded payment; its own commit, then a 502.
RefundExtension(a) ==
    /\ a[1] \in Extends /\ pc[a] = "failing"
    /\ Write(a, mem[a] + Price[a[1]], 0)
    /\ lock' = {}
    /\ pay' = [pay EXCEPT ![a] = "refunded"]
    /\ End(a, "answered")
    /\ UNCHANGED <<sub, key>>

\* The handler dies between two of its commits, with the backend or by an
\* error nobody catches: its open transaction is rolled back, its lock freed.
Crash(a) ==
    /\ pc[a] \in {"sent", "loaded", "charged", "issued", "failing"}
    /\ End(a, "crashed")
    /\ lock' = lock \ {a}
    /\ UNCHANGED <<rows, pay, sub, key>>

-----------------------------------------------------------------------------
\* A webhook's session sees the user for the first time when it locks the row.
Credit(c) ==
    /\ lock = {} /\ entry[c] = 0
    /\ Write(c, balance + Amount[c], Amount[c])
    /\ UNCHANGED <<lock, pc, mem, pay, sub, key>>

\* add_admin_adjust and the commit of its endpoint; also a balance promo code.
Adjust(s) ==
    /\ s \in Adjusts
    /\ pc[s] = "loaded" /\ lock = {}
    /\ IF Amount[s] = 0 \/ mem[s] + Amount[s] < 0
       THEN UNCHANGED rows
       ELSE Write(s, mem[s] + Amount[s], Amount[s])
    /\ End(s, "answered")
    /\ UNCHANGED <<lock, pay, sub, key>>

\* Mutant: the ledger row carries the target instead of the difference.
SetBalanceBooksTarget(s) ==
    /\ s \in Sets
    /\ pc[s] = "loaded"
    /\ IF Amount[s] = mem[s]
       THEN UNCHANGED rows
       ELSE lock = {} /\ Write(s, Amount[s], Amount[s])
    /\ End(s, "answered")
    /\ UNCHANGED <<lock, pay, sub, key>>

\* set_balance: delta = target - current, nothing at all when it is zero.
SetBalance(s) ==
    /\ s \in Sets
    /\ pc[s] = "loaded"
    /\ IF Amount[s] = mem[s]
       THEN UNCHANGED rows
       ELSE lock = {} /\ Write(s, Amount[s], Amount[s] - mem[s])
    /\ End(s, "answered")
    /\ UNCHANGED <<lock, pay, sub, key>>

-----------------------------------------------------------------------------
Purchase(a) == Charge(a) \/ Activate(a) \/ Refund(a)

Extension(a) == Reserve(a) \/ CommitExtension(a) \/ RefundExtension(a)

Handle(a) == Load(a) \/ Insufficient(a) \/ Purchase(a) \/ Issue(a) \/ Extension(a)

AdminRequest(s) == Load(s) \/ Adjust(s) \/ SetBalance(s)

Next ==
    \/ \E x \in Orders, k \in Tries : Send(x, k)
    \/ \E a \in Attempts : Handle(a) \/ Crash(a)
    \/ \E c \in Credits : Credit(c)
    \/ \E s \in Admin : AdminRequest(s)

Spec == Init /\ [][Next]_vars

\* A handler that does not die runs on: its statements execute, row locks are
\* granted in the end and the provider's client returns within its timeouts.
FairSpec == Spec /\ \A a \in Attempts : WF_vars(Handle(a))

-----------------------------------------------------------------------------
\* Type correctness; at most one session keeps the user row locked across steps.
TypeOK ==
    /\ balance \in Int /\ ledger \in Int
    /\ entry \in [Sessions \cup Credits -> Int]
    /\ raced \in BOOLEAN
    /\ lock \in {{}} \cup {{a} : a \in Extends \X Tries}
    /\ pc \in [Sessions -> PCs]
    /\ mem \in [Sessions -> Int]
    /\ pay \in [Attempts -> {"none", "paid", "refunded"}]
    /\ sub \in [Attempts -> {"none", "pending", "active", "failed"}]
    /\ key \in [Attempts -> BOOLEAN]

\* The balance is never negative, in the table or in a session, whatever stale
\* snapshots the writers start from.
NeverNegative == balance >= 0 /\ \A s \in Sessions : mem[s] >= 0

\* Payments, ledger and subscriptions of an attempt agree across its
\* transactions: a paid payment has exactly its price in the ledger, a refunded
\* one nets to nothing and left no subscription.
PaymentsMatchLedger ==
    \A a \in Attempts :
        /\ entry[a] = IF pay[a] = "paid" THEN -Price[a[1]] ELSE 0
        /\ pay[a] = "refunded" => sub[a] \in {"none", "failed"}
        /\ sub[a] = "active" => pay[a] = "paid" /\ key[a]

\* An answered attempt cost money only if the user has what he paid for: no
\* provider failure ends with the debit kept and no active subscription.
NoMoneyForNothing ==
    \A a \in Attempts :
        pc[a] = "answered" /\ pay[a] = "paid" => sub[a] = "active"

\* When no session writes while another one still holds a snapshot, the balance
\* is the sum of the ledger: refunds, extensions and sets book what they move.
SerialMeansBalanced == ~raced => balance = ledger

\* The balance is the sum of its ledger rows, whatever overlaps.
BalanceMatchesLedger == balance = ledger

\* A click the user made once is paid once.
OneChargePerClick ==
    \A x \in Orders : \A j, k \in Tries :
        pay[<<x, j>>] = "paid" /\ pay[<<x, k>>] = "paid" => j = k

\* Every attempt that reaches the backend ends: answered, or dead.  No handler
\* waits for ever on the row lock an extension keeps over its provider call.
EveryAttemptEnds ==
    \A a \in Attempts : pc[a] = "sent" ~> pc[a] \in {"answered", "crashed"}

-----------------------------------------------------------------------------
\* What an attempt has come to, for the user.
Stage(a) ==
    IF pay[a] = "none" THEN "new"
    ELSE IF pay[a] = "refunded" THEN "returned"
    ELSE IF sub[a] = "active" THEN "served" ELSE "paid"

Promise ==
    INSTANCE Account WITH Orders  <- Attempts,
                          Cost    <- [a \in Attempts |-> Price[a[1]]],
                          Changes <- {Amount[o] : o \in Credits \cup Adjusts},
                          Targets <- {Amount[s] : s \in Sets},
                          order   <- [a \in Attempts |-> Stage(a)]

\* As long as no session writes while another one holds a snapshot, the wallet keeps
\* the promise of module Account: balance and ledger move together, a debit finds the
\* money it takes, and what was paid is served or returned once.
AccountUnlessRaced == Promise!Init /\ [][raced' \/ Promise!Next]_(Promise!vars)
=============================================================================
