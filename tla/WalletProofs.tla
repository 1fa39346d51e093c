---------------------------- MODULE WalletProofs ----------------------------
(***************************************************************************)
(* Proofs about the wallet for any set of clicks, retries, credits and     *)
(* admin requests, any prices and any initial balance.                     *)
(*                                                                         *)
(* The invariants of module Wallet speak of committed rows; what makes     *)
(* them inductive is where each handler stands: what it has written so far *)
(* (Progress), that an extension in its provider call holds the row lock   *)
(* (Locks), that no session holds a negative balance (Funds), and that     *)
(* without a race every snapshot still to be written back is the balance   *)
(* of the table, less the open debit of an extension (Fresh).              *)
(***************************************************************************)
EXTENDS Wallet, TLAPS

\* A handler between its debit and its last commit.
Open(a) == pc[a] \in {"charged", "issued", "failing"}

\* What a handler's position says of the rows of its attempt.
Progress ==
    \A a \in Attempts :
        /\ pc[a] \in {"idle", "sent", "loaded"} =>
              pay[a] = "none" /\ sub[a] = "none" /\ entry[a] = 0
        /\ Open(a) /\ a[1] \in Buys =>
              pay[a] = "paid" /\ sub[a] = "pending" /\ entry[a] = -Price[a[1]]
        /\ Open(a) /\ a[1] \in Extends =>
              pay[a] = "none" /\ sub[a] = "none" /\ entry[a] = 0
        /\ pc[a] = "issued" => key[a]

Locks ==
    /\ \A a \in lock : a \in Attempts /\ a[1] \in Extends
    /\ \A a \in Attempts : a[1] \in Extends /\ Open(a) => lock = {a}

Funds == balance >= 0 /\ \A s \in Sessions : mem[s] >= 0

Fresh ==
    ~raced =>
        /\ balance = ledger
        /\ \A s \in Sessions :
            /\ pc[s] = "loaded" => mem[s] = balance
            /\ s \in Attempts /\ s[1] \in Buys /\ pc[s] \in {"charged", "failing"}
                  => mem[s] = balance
            /\ s \in Attempts /\ s[1] \in Extends /\ Open(s)
                  => mem[s] = balance - Price[s[1]]

IInv ==
    /\ TypeOK /\ Progress /\ PaymentsMatchLedger /\ NoMoneyForNothing
    /\ Locks /\ Funds /\ Fresh

-----------------------------------------------------------------------------
\* The identities the prover needs about attempts and sessions.
LEMMA AttemptFacts ==
    \A a \in Attempts :
        /\ a \in Sessions /\ a \notin Admin /\ a \notin Credits
        /\ Price[a[1]] \in Nat
        /\ a[1] \in Buys \/ a[1] \in Extends
        /\ ~(a[1] \in Buys /\ a[1] \in Extends)
        /\ a[1] \in Extends => a \in Extends \X Tries
BY WalletAssumption DEF Attempts, Sessions, Orders, Admin

LEMMA AdminFacts ==
    \A s \in Admin :
        s \in Sessions /\ s \notin Attempts /\ s \notin Credits /\ Amount[s] \in Int
BY WalletAssumption DEF Attempts, Sessions, Admin

LEMMA CreditFacts ==
    \A c \in Credits :
        c \notin Sessions /\ c \notin Attempts /\ Amount[c] \in Int /\ Amount[c] > 0
BY WalletAssumption DEF Sessions

USE DEF PCs

\* The inductive invariant holds before the first request.
LEMMA InitInv == Init => IInv
<1> SUFFICES ASSUME Init PROVE IInv OBVIOUS
<1> USE WalletAssumption DEF Init
<1>1. TypeOK
  <2>1. raced \in BOOLEAN /\ key \in [Attempts -> BOOLEAN] OBVIOUS
  <2> QED BY <2>1 DEF TypeOK
<1>2. Progress BY AttemptFacts DEF Progress, Open
<1>3. PaymentsMatchLedger BY AttemptFacts DEF PaymentsMatchLedger
<1>4. NoMoneyForNothing BY DEF NoMoneyForNothing
<1>5. Locks BY AttemptFacts DEF Locks, Open
<1>6. Funds BY DEF Funds
<1>7. Fresh BY AttemptFacts DEF Fresh, Open
<1> QED BY <1>1, <1>2, <1>3, <1>4, <1>5, <1>6, <1>7 DEF IInv

\* ... and every step of the wallet keeps it.
LEMMA StepInv == IInv /\ [Next]_vars => IInv'
<1> SUFFICES ASSUME IInv, [Next]_vars PROVE IInv' OBVIOUS
<1> USE DEF IInv, TypeOK
<1>1. ASSUME NEW x \in Orders, NEW k \in Tries, Send(x, k) PROVE IInv'
  <2>a. <<x, k>> \in Attempts BY DEF Attempts
  <2>1. TypeOK'
    BY <1>1, <2>a DEF Send, rows
  <2>2. Progress'
    BY <1>1, <2>a DEF Send, rows, Progress, Open
  <2>3. PaymentsMatchLedger'
    BY <1>1, <2>a DEF Send, rows, PaymentsMatchLedger
  <2>4. NoMoneyForNothing'
    BY <1>1, <2>a DEF Send, NoMoneyForNothing
  <2>5. Locks'
    BY <1>1, <2>a DEF Send, Locks, Open
  <2>6. Funds'
    BY <1>1, <2>a DEF Send, rows, Funds
  <2>7. Fresh'
    BY <1>1, <2>a DEF Send, rows, Fresh, Open
  <2> QED BY <2>1, <2>2, <2>3, <2>4, <2>5, <2>6, <2>7 DEF IInv
<1>2. ASSUME NEW s \in Sessions, Load(s) PROVE IInv'
  <2>1. TypeOK'
    BY <1>2 DEF Load, rows
  <2>2. Progress'
    BY <1>2 DEF Load, rows, Progress, Open
  <2>3. PaymentsMatchLedger'
    BY <1>2 DEF Load, rows, PaymentsMatchLedger
  <2>4. NoMoneyForNothing'
    BY <1>2 DEF Load, NoMoneyForNothing
  <2>5. Locks'
    BY <1>2 DEF Load, Locks, Open
  <2>6. Funds'
    BY <1>2 DEF Load, rows, Funds
  <2>7. Fresh'
    BY <1>2 DEF Load, rows, Fresh, Open
  <2> QED BY <2>1, <2>2, <2>3, <2>4, <2>5, <2>6, <2>7 DEF IInv
<1>3. ASSUME NEW a \in Attempts, Insufficient(a) PROVE IInv'
  <2>1. TypeOK'
    BY <1>3, AttemptFacts DEF Insufficient, End, rows
  <2>2. Progress'
    BY <1>3 DEF Insufficient, End, rows, Progress, Open
  <2>3. PaymentsMatchLedger'
    BY <1>3 DEF Insufficient, rows, PaymentsMatchLedger
  <2>4. NoMoneyForNothing'
    BY <1>3 DEF Insufficient, End, NoMoneyForNothing, Progress
  <2>5. Locks'
    BY <1>3 DEF Insufficient, End, Locks, Open
  <2>6. Funds'
    BY <1>3 DEF Insufficient, End, rows, Funds
  <2>7. Fresh'
    BY <1>3 DEF Insufficient, End, rows, Fresh, Open
  <2> QED BY <2>1, <2>2, <2>3, <2>4, <2>5, <2>6, <2>7 DEF IInv
<1>4. ASSUME NEW a \in Attempts, Charge(a) PROVE IInv'
  <2>1. TypeOK'
    BY <1>4, AttemptFacts DEF Charge, Write
  <2>2. Progress'
    BY <1>4, AttemptFacts DEF Charge, Write, Progress, Open
  <2>3. PaymentsMatchLedger'
    BY <1>4, AttemptFacts DEF Charge, Write, PaymentsMatchLedger, Progress
  <2>4. NoMoneyForNothing'
    BY <1>4 DEF Charge, NoMoneyForNothing
  <2>5. Locks'
    BY <1>4, AttemptFacts DEF Charge, Locks, Open
  <2>6. Funds'
    BY <1>4, AttemptFacts DEF Charge, Write, Funds
  <2>7. Fresh'
    <3>1. CASE raced' BY <3>1 DEF Fresh
    <3>2. CASE ~raced'
      <4>1. ~raced /\ \A s \in Sessions \ {a} : ~Holds(s)
        BY <1>4, <3>2 DEF Charge, Write
      <4>2. mem[a] = balance
        BY <1>4, <4>1, AttemptFacts DEF Charge, Fresh
      <4>3. balance' = ledger' /\ balance' = balance - Price[a[1]]
        BY <1>4, <4>1, <4>2, AttemptFacts DEF Charge, Write, IsFree, Fresh
      <4>4. \A s \in Sessions \ {a} : pc'[s] = pc[s]
        BY <1>4 DEF Charge
      <4>5. \A s \in Sessions \ {a} :
              /\ pc'[s] \notin {"loaded", "charged", "failing"}
              /\ s \in Attempts /\ s[1] \in Extends => pc'[s] # "issued"
        BY <1>4, <4>1, <4>4 DEF Charge, Holds, Locks, Open
      <4> QED
        BY <1>4, <4>2, <4>3, <4>5, AttemptFacts DEF Charge, Fresh, Open
    <3> QED BY <3>1, <3>2
  <2> QED BY <2>1, <2>2, <2>3, <2>4, <2>5, <2>6, <2>7 DEF IInv
<1>5. ASSUME NEW a \in Attempts, Reserve(a) PROVE IInv'
  <2>1. TypeOK'
    BY <1>5, AttemptFacts DEF Reserve, rows
  <2>2. Progress'
    BY <1>5, AttemptFacts DEF Reserve, rows, Progress, Open
  <2>3. PaymentsMatchLedger'
    BY <1>5 DEF Reserve, rows, PaymentsMatchLedger
  <2>4. NoMoneyForNothing'
    BY <1>5 DEF Reserve, NoMoneyForNothing
  <2>5. Locks'
    BY <1>5 DEF Reserve, Locks, Open
  <2>6. Funds'
    BY <1>5, AttemptFacts DEF Reserve, rows, Funds
  <2>7. Fresh'
    BY <1>5, AttemptFacts DEF Reserve, rows, Fresh, Open
  <2> QED BY <2>1, <2>2, <2>3, <2>4, <2>5, <2>6, <2>7 DEF IInv
<1>6. ASSUME NEW a \in Attempts, Issue(a) PROVE IInv'
  <2>1. TypeOK'
    BY <1>6 DEF Issue, rows
  <2>2. Progress'
    BY <1>6 DEF Issue, rows, Progress, Open
  <2>3. PaymentsMatchLedger'
    BY <1>6, AttemptFacts DEF Issue, rows, PaymentsMatchLedger, Progress, Open
  <2>4. NoMoneyForNothing'
    BY <1>6 DEF Issue, NoMoneyForNothing
  <2>5. Locks'
    BY <1>6 DEF Issue, Locks, Open
  <2>6. Funds'
    BY <1>6 DEF Issue, rows, Funds
  <2>7. Fresh'
    BY <1>6 DEF Issue, rows, Fresh, Open
  <2> QED BY <2>1, <2>2, <2>3, <2>4, <2>5, <2>6, <2>7 DEF IInv
<1>7. ASSUME NEW a \in Attempts, Activate(a) PROVE IInv'
  <2>1. TypeOK'
    BY <1>7, AttemptFacts DEF Activate, End, rows
  <2>2. Progress'
    BY <1>7, AttemptFacts DEF Activate, End, rows, Progress, Open
  <2>3. PaymentsMatchLedger'
    BY <1>7 DEF Activate, rows, PaymentsMatchLedger, Progress, Open
  <2>4. NoMoneyForNothing'
    BY <1>7 DEF Activate, End, NoMoneyForNothing
  <2>5. Locks'
    BY <1>7 DEF Activate, End, Locks, Open
  <2>6. Funds'
    BY <1>7 DEF Activate, End, rows, Funds
  <2>7. Fresh'
    BY <1>7 DEF Activate, End, rows, Fresh, Open
  <2> QED BY <2>1, <2>2, <2>3, <2>4, <2>5, <2>6, <2>7 DEF IInv
<1>8. ASSUME NEW a \in Attempts, Refund(a) PROVE IInv'
  <2>1. TypeOK'
    BY <1>8, AttemptFacts DEF Refund, End, Write
  <2>2. Progress'
    BY <1>8, AttemptFacts DEF Refund, End, Write, Progress, Open
  <2>3. PaymentsMatchLedger'
    <3>0. entry[a] = -Price[a[1]] /\ Price[a[1]] \in Nat
      BY <1>8, AttemptFacts DEF Refund, Progress, Open
    <3>1. entry' = [entry EXCEPT ![a] = 0]
      <4>1. entry' = [entry EXCEPT ![a] = @ + Price[a[1]]]
        BY <1>8 DEF Refund, Write
      <4>2. entry[a] + Price[a[1]] = 0 BY <3>0
      <4> QED BY <4>1, <4>2
    <3>2. key' = key BY <1>8 DEF Refund
    <3> QED
      BY <1>8, <3>1, <3>2, AttemptFacts DEF Refund, PaymentsMatchLedger
  <2>4. NoMoneyForNothing'
    BY <1>8 DEF Refund, End, NoMoneyForNothing
  <2>5. Locks'
    BY <1>8 DEF Refund, End, Locks, Open
  <2>6. Funds'
    BY <1>8, AttemptFacts DEF Refund, End, Write, Funds
  <2>7. Fresh'
    <3>1. CASE raced' BY <3>1 DEF Fresh
    <3>2. CASE ~raced'
      <4>1. ~raced /\ \A s \in Sessions \ {a} : ~Holds(s)
        BY <1>8, <3>2 DEF Refund, Write
      <4>2. mem[a] = balance
        BY <1>8, <4>1, AttemptFacts DEF Refund, Fresh
      <4>3. balance' = ledger' /\ balance' = balance + Price[a[1]]
        BY <1>8, <4>1, <4>2, AttemptFacts DEF Refund, Write, IsFree, Fresh
      <4>4. \A s \in Sessions \ {a} : pc'[s] = pc[s]
        BY <1>8 DEF Refund, End
      <4>5. \A s \in Sessions \ {a} :
              /\ pc'[s] \notin {"loaded", "charged", "failing"}
              /\ s \in Attempts /\ s[1] \in Extends => pc'[s] # "issued"
        BY <1>8, <4>1, <4>4 DEF Refund, Holds, Locks, Open
      <4> QED
        BY <1>8, <4>2, <4>3, <4>5, AttemptFacts DEF Refund, End, Fresh, Open
    <3> QED BY <3>1, <3>2
  <2> QED BY <2>1, <2>2, <2>3, <2>4, <2>5, <2>6, <2>7 DEF IInv
<1>9. ASSUME NEW a \in Attempts, CommitExtension(a) PROVE IInv'
  <2>1. TypeOK'
    BY <1>9, AttemptFacts DEF CommitExtension, End, Write
  <2>2. Progress'
    BY <1>9, AttemptFacts DEF CommitExtension, End, Write, Progress, Open
  <2>3. PaymentsMatchLedger'
    BY <1>9, AttemptFacts DEF CommitExtension, Write, PaymentsMatchLedger, Progress, Open
  <2>4. NoMoneyForNothing'
    BY <1>9 DEF CommitExtension, End, NoMoneyForNothing
  <2>5. Locks'
    <3>1. lock = {a} /\ lock' = {}
      BY <1>9 DEF CommitExtension, Locks, Open
    <3>2. pc'[a] = "answered" /\ \A s \in Sessions \ {a} : pc'[s] = pc[s]
      BY <1>9, AttemptFacts DEF CommitExtension, End
    <3>3. ASSUME NEW b \in Attempts, b[1] \in Extends PROVE ~Open(b)'
      <4>1. CASE b = a BY <3>2, <4>1 DEF Open
      <4>2. CASE b # a
        <5>1. ~Open(b) BY <3>1, <3>3, <4>2 DEF Locks
        <5> QED BY <3>2, <4>2, <5>1, AttemptFacts DEF Open
      <4> QED BY <4>1, <4>2
    <3> QED BY <3>1, <3>3 DEF Locks
  <2>6. Funds'
    BY <1>9, AttemptFacts DEF CommitExtension, End, Write, Funds
  <2>7. Fresh'
    <3>1. lock = {a} BY <1>9 DEF CommitExtension, Locks, Open
    <3>2. CASE raced' BY <3>2 DEF Fresh
    <3>3. CASE ~raced'
      <4>1. ~raced /\ \A s \in Sessions \ {a} : ~Holds(s)
        BY <1>9, <3>3 DEF CommitExtension, Write, IsFree
      <4>2. balance' = ledger'
        BY <1>9, <4>1, AttemptFacts
        DEF CommitExtension, Write, IsFree, Fresh, Open
      <4>3. \A s \in Sessions \ {a} : pc'[s] = pc[s]
        BY <1>9 DEF CommitExtension, End
      <4>4. pc'[a] = "answered"
        BY <1>9, AttemptFacts DEF CommitExtension, End
      <4>5. \A s \in Sessions :
              /\ pc'[s] \notin {"loaded", "charged", "failing"}
              /\ s \in Attempts /\ s[1] \in Extends => pc'[s] # "issued"
        BY <4>1, <4>3, <4>4, <3>1 DEF Holds, Locks, Open
      <4> QED BY <4>2, <4>5 DEF Fresh, Open
    <3> QED BY <3>2, <3>3
  <2> QED BY <2>1, <2>2, <2>3, <2>4, <2>5, <2>6, <2>7 DEF IInv
<1>10. ASSUME NEW a \in Attempts, RefundExtension(a) PROVE IInv'
  <2>1. TypeOK'
    BY <1>10, AttemptFacts DEF RefundExtension, End, Write
  <2>2. Progress'
    BY <1>10, AttemptFacts DEF RefundExtension, End, Write, Progress, Open
  <2>3. PaymentsMatchLedger'
    BY <1>10 DEF RefundExtension, Write, PaymentsMatchLedger, Progress, Open
  <2>4. NoMoneyForNothing'
    BY <1>10 DEF RefundExtension, End, NoMoneyForNothing
  <2>5. Locks'
    BY <1>10, AttemptFacts DEF RefundExtension, End, Locks, Open
  <2>6. Funds'
    BY <1>10, AttemptFacts DEF RefundExtension, End, Write, Funds
  <2>7. Fresh'
    BY <1>10, AttemptFacts DEF RefundExtension, End, Write, Fresh, Open
  <2> QED BY <2>1, <2>2, <2>3, <2>4, <2>5, <2>6, <2>7 DEF IInv
<1>11. ASSUME NEW a \in Attempts, Crash(a) PROVE IInv'
  <2>1. TypeOK'
    BY <1>11, AttemptFacts DEF Crash, End, rows
  <2>2. Progress'
    BY <1>11 DEF Crash, End, rows, Progress, Open
  <2>3. PaymentsMatchLedger'
    BY <1>11 DEF Crash, rows, PaymentsMatchLedger
  <2>4. NoMoneyForNothing'
    BY <1>11 DEF Crash, End, NoMoneyForNothing
  <2>5. Locks'
    BY <1>11, AttemptFacts DEF Crash, End, Locks, Open
  <2>6. Funds'
    BY <1>11 DEF Crash, End, rows, Funds
  <2>7. Fresh'
    BY <1>11 DEF Crash, End, rows, Fresh, Open
  <2> QED BY <2>1, <2>2, <2>3, <2>4, <2>5, <2>6, <2>7 DEF IInv
<1>12. ASSUME NEW c \in Credits, Credit(c) PROVE IInv'
  <2>1. TypeOK'
    BY <1>12, CreditFacts DEF Credit, Write
  <2>2. Progress'
    BY <1>12, CreditFacts DEF Credit, Write, Progress, Open
  <2>3. PaymentsMatchLedger'
    BY <1>12, CreditFacts DEF Credit, Write, PaymentsMatchLedger
  <2>4. NoMoneyForNothing'
    BY <1>12 DEF Credit, NoMoneyForNothing
  <2>5. Locks'
    BY <1>12 DEF Credit, Locks, Open
  <2>6. Funds'
    BY <1>12, CreditFacts DEF Credit, Write, Funds
  <2>7. Fresh'
    BY <1>12, CreditFacts DEF Credit, Write, IsFree, Fresh, Locks, Open, Holds
  <2> QED BY <2>1, <2>2, <2>3, <2>4, <2>5, <2>6, <2>7 DEF IInv
<1>13. ASSUME NEW s \in Admin, Adjust(s) PROVE IInv'
  <2>b. End(s, "answered") BY <1>13 DEF Adjust
  <2>a. pc' \in [Sessions -> PCs] /\ mem' \in [Sessions -> Int]
    BY <2>b, AdminFacts DEF End
  <2>1. TypeOK'
    <3>1. CASE Amount[s] = 0 \/ mem[s] + Amount[s] < 0
      BY <1>13, <2>a, <3>1 DEF Adjust, rows
    <3>2. CASE ~(Amount[s] = 0 \/ mem[s] + Amount[s] < 0)
      <4>1. raced' \in BOOLEAN BY <1>13, <3>2 DEF Adjust, Write, IsFree
      <4> QED
        BY <1>13, <2>a, <3>2, <4>1, AdminFacts DEF Adjust, Write, IsFree
    <3> QED BY <3>1, <3>2
  <2>2. Progress'
    BY <1>13, AttemptFacts DEF Adjust, End, Write, rows, Progress, Open
  <2>3. PaymentsMatchLedger'
    BY <1>13, AttemptFacts DEF Adjust, Write, rows, PaymentsMatchLedger
  <2>4. NoMoneyForNothing'
    BY <1>13 DEF Adjust, End, NoMoneyForNothing, Progress
  <2>5. Locks'
    BY <1>13 DEF Adjust, End, Locks, Open
  <2>6. Funds'
    BY <1>13, AdminFacts DEF Adjust, End, Write, rows, Funds
  <2>7. Fresh'
    <3>1. CASE Amount[s] = 0 \/ mem[s] + Amount[s] < 0
      BY <1>13, <3>1, AdminFacts DEF Adjust, End, rows, Fresh, Open
    <3>2. CASE ~(Amount[s] = 0 \/ mem[s] + Amount[s] < 0)
      <4>1. CASE raced' BY <4>1 DEF Fresh
      <4>2. CASE ~raced'
        <5>1. ~raced /\ \A u \in Sessions \ {s} : ~Holds(u)
          BY <1>13, <3>2, <4>2 DEF Adjust, Write, IsFree
        <5>2. balance' = ledger'
          BY <1>13, <3>2, <5>1, AdminFacts DEF Adjust, Write, IsFree, Fresh
        <5>3. pc'[s] = "answered" /\ \A u \in Sessions \ {s} : pc'[u] = pc[u]
          BY <1>13, AdminFacts DEF Adjust, End
        <5>4. \A u \in Sessions :
                /\ pc'[u] \notin {"loaded", "charged", "failing"}
                /\ u \in Attempts /\ u[1] \in Extends => pc'[u] # "issued"
          BY <1>13, <3>2, <5>1, <5>3 DEF Adjust, Holds, Locks, Open
        <5> QED BY <5>2, <5>4 DEF Fresh, Open
      <4> QED BY <4>1, <4>2
    <3> QED BY <3>1, <3>2
  <2> QED BY <2>1, <2>2, <2>3, <2>4, <2>5, <2>6, <2>7 DEF IInv
<1>14. ASSUME NEW s \in Admin, SetBalance(s) PROVE IInv'
  <2>b. End(s, "answered") BY <1>14 DEF SetBalance
  <2>a. pc' \in [Sessions -> PCs] /\ mem' \in [Sessions -> Int]
    BY <2>b, AdminFacts DEF End
  <2>1. TypeOK'
    <3>1. CASE Amount[s] = mem[s]
      BY <1>14, <2>a, <3>1 DEF SetBalance, rows
    <3>2. CASE ~(Amount[s] = mem[s])
      <4>1. raced' \in BOOLEAN BY <1>14, <3>2 DEF SetBalance, Write, IsFree
      <4> QED
        BY <1>14, <2>a, <3>2, <4>1, AdminFacts DEF SetBalance, Write, IsFree
    <3> QED BY <3>1, <3>2
  <2>2. Progress'
    BY <1>14, AttemptFacts DEF SetBalance, End, Write, rows, Progress, Open
  <2>3. PaymentsMatchLedger'
    BY <1>14, AttemptFacts DEF SetBalance, Write, rows, PaymentsMatchLedger
  <2>4. NoMoneyForNothing'
    BY <1>14 DEF SetBalance, End, NoMoneyForNothing, Progress
  <2>5. Locks'
    BY <1>14 DEF SetBalance, End, Locks, Open
  <2>6. Funds'
    BY <1>14, WalletAssumption DEF SetBalance, End, Write, rows, Funds
  <2>7. Fresh'
    <3>1. CASE Amount[s] = mem[s]
      BY <1>14, <3>1, AdminFacts DEF SetBalance, End, rows, Fresh, Open
    <3>2. CASE ~(Amount[s] = mem[s])
      <4>1. CASE raced' BY <4>1 DEF Fresh
      <4>2. CASE ~raced'
        <5>1. ~raced /\ \A u \in Sessions \ {s} : ~Holds(u)
          BY <1>14, <3>2, <4>2 DEF SetBalance, Write, IsFree
        <5>2. balance' = ledger'
          BY <1>14, <3>2, <5>1, AdminFacts DEF SetBalance, Write, IsFree, Fresh
        <5>3. pc'[s] = "answered" /\ \A u \in Sessions \ {s} : pc'[u] = pc[u]
          BY <1>14, AdminFacts DEF SetBalance, End
        <5>4. \A u \in Sessions :
                /\ pc'[u] \notin {"loaded", "charged", "failing"}
                /\ u \in Attempts /\ u[1] \in Extends => pc'[u] # "issued"
          BY <1>14, <3>2, <5>1, <5>3 DEF SetBalance, Holds, Locks, Open
        <5> QED BY <5>2, <5>4 DEF Fresh, Open
      <4> QED BY <4>1, <4>2
    <3> QED BY <3>1, <3>2
  <2> QED BY <2>1, <2>2, <2>3, <2>4, <2>5, <2>6, <2>7 DEF IInv
<1>15. CASE UNCHANGED vars
  <2>1. TypeOK'
    BY <1>15 DEF vars, rows
  <2>2. Progress'
    BY <1>15 DEF vars, rows, Progress, Open
  <2>3. PaymentsMatchLedger'
    BY <1>15 DEF vars, rows, PaymentsMatchLedger
  <2>4. NoMoneyForNothing'
    BY <1>15 DEF vars, NoMoneyForNothing
  <2>5. Locks'
    BY <1>15 DEF vars, Locks, Open
  <2>6. Funds'
    BY <1>15 DEF vars, rows, Funds
  <2>7. Fresh'
    BY <1>15 DEF vars, rows, Fresh, Open
  <2> QED BY <2>1, <2>2, <2>3, <2>4, <2>5, <2>6, <2>7 DEF IInv
<1> QED
  BY <1>1, <1>2, <1>3, <1>4, <1>5, <1>6, <1>7, <1>8, <1>9, <1>10, <1>11, <1>12, <1>13, <1>14, <1>15
  DEF Next, Handle, Purchase, Extension, AdminRequest, Sessions

-----------------------------------------------------------------------------
\* Types hold; in particular at most one session keeps the row locked.
THEOREM TypeCorrect == Spec => []TypeOK
<1>1. IInv => TypeOK BY DEF IInv
<1> QED BY InitInv, StepInv, <1>1, PTL DEF Spec

\* No schedule of purchases, refunds, retries, crashes, credits and admin
\* requests drives the balance below zero.
THEOREM NeverOverdrawn == Spec => []NeverNegative
<1>1. IInv => NeverNegative BY DEF IInv, Funds, NeverNegative
<1> QED BY InitInv, StepInv, <1>1, PTL DEF Spec

\* Payments, ledger rows and subscriptions of an attempt agree across its
\* separately committed transactions and its crashes.
THEOREM PaymentsBooked == Spec => []PaymentsMatchLedger
<1>1. IInv => PaymentsMatchLedger BY DEF IInv
<1> QED BY InitInv, StepInv, <1>1, PTL DEF Spec

\* An answered attempt that kept the money gave a subscription.
THEOREM PaidIsServed == Spec => []NoMoneyForNothing
<1>1. IInv => NoMoneyForNothing BY DEF IInv
<1> QED BY InitInv, StepInv, <1>1, PTL DEF Spec

\* Balance and ledger can only part when a session writes under the snapshot
\* of another one.
THEOREM BalancedUnlessRaced == Spec => []SerialMeansBalanced
<1>1. IInv => SerialMeansBalanced BY DEF IInv, Fresh, SerialMeansBalanced
<1> QED BY InitInv, StepInv, <1>1, PTL DEF Spec

-----------------------------------------------------------------------------
\* The refinement of module Account, for sessions that do not race.
Stages == [a \in Attempts |-> Stage(a)]

\* A step that touches payment and subscription of a alone turns the order of a alone.
LEMMA OneOrder ==
    ASSUME NEW a \in Attempts,
           \A b \in Attempts \ {a} : pay'[b] = pay[b] /\ sub'[b] = sub[b]
    PROVE  Stages' = [Stages EXCEPT ![a] = Stage(a)']
BY DEF Stages, Stage

\* A write without a race goes to a balance that is the sum of the ledger, and no
\* other session is going to write back what it knows.
LEMMA WriteUnraced ==
    ASSUME IInv, NEW o, NEW b, NEW amount, Write(o, b, amount), ~raced'
    PROVE  /\ ~raced /\ balance = ledger
           /\ balance' = (IF IsFree(o) THEN balance ELSE b) /\ ledger' = ledger + amount
           /\ \A s \in Sessions \ {o} : ~Holds(s)
BY DEF IInv, Write, Fresh

\* An order turns as its handler commits.
LEMMA OrderStep ==
    ASSUME IInv, ~raced', NEW a \in Attempts,
           \/ Charge(a) \/ Activate(a) \/ Refund(a) \/ CommitExtension(a) \/ RefundExtension(a)
    PROVE  Promise!Next
<1> USE DEF IInv, TypeOK
<1>1. \A b \in Attempts \ {a} : pay'[b] = pay[b] /\ sub'[b] = sub[b]
  BY DEF Charge, Activate, Refund, CommitExtension, RefundExtension
<1>2. Stages' = [Stages EXCEPT ![a] = Stage(a)'] BY <1>1, OneOrder
<1>3. Price[a[1]] \in Nat /\ balance \in Int /\ ledger \in Int /\ mem[a] \in Int /\ mem[a] >= 0
  BY AttemptFacts DEF Funds
<1>4. CASE Charge(a)
  <2>1. ~raced /\ balance' = (IF IsFree(a) THEN balance ELSE mem[a] - Price[a[1]])
        /\ ledger' = ledger + (-Price[a[1]])
    BY <1>4, WriteUnraced DEF Charge
  <2>2. mem[a] = balance /\ mem[a] >= Price[a[1]]
    BY <1>4, <2>1, AttemptFacts DEF Charge, Fresh
  <2>3. balance' = balance + (-Price[a[1]])
    BY <1>3, <2>1, <2>2 DEF IsFree
  <2>4. Stage(a) = "new" /\ Stage(a)' = "paid"
    BY <1>4 DEF Charge, Stage, Progress
  <2>5. Promise!Pay(a)
    BY <1>2, <1>3, <2>1, <2>2, <2>3, <2>4 DEF Promise!Pay, Promise!Turn, Promise!Move, Stages
  <2> QED BY <2>5 DEF Promise!Next
<1>5. CASE Activate(a)
  <2>1. Stage(a) = "paid" /\ Stage(a)' = "served"
    BY <1>5 DEF Activate, Stage, Progress, Open
  <2>2. Promise!Serve(a)
    BY <1>2, <1>5, <2>1 DEF Activate, rows, Promise!Serve, Promise!Turn, Stages
  <2> QED BY <2>2 DEF Promise!Next
<1>6. CASE Refund(a)
  <2>1. ~raced /\ balance' = (IF IsFree(a) THEN balance ELSE mem[a] + Price[a[1]])
        /\ ledger' = ledger + Price[a[1]]
    BY <1>6, WriteUnraced DEF Refund
  <2>2. mem[a] = balance BY <1>6, <2>1, AttemptFacts DEF Refund, Fresh
  <2>3. balance' = balance + Price[a[1]] /\ balance + Price[a[1]] >= 0
    BY <1>3, <2>1, <2>2 DEF IsFree
  <2>4. Stage(a) = "paid" /\ Stage(a)' = "returned"
    BY <1>6 DEF Refund, Stage, Progress, Open
  <2>5. Promise!Return(a)
    BY <1>2, <2>1, <2>3, <2>4 DEF Promise!Return, Promise!Turn, Promise!Move, Stages
  <2> QED BY <2>5 DEF Promise!Next
<1>7. CASE CommitExtension(a)
  <2>1. ~raced /\ balance' = (IF IsFree(a) THEN balance ELSE mem[a])
        /\ ledger' = ledger + (-Price[a[1]])
    BY <1>7, WriteUnraced DEF CommitExtension
  <2>2. mem[a] = balance - Price[a[1]]
    BY <1>7, <2>1, AttemptFacts DEF CommitExtension, Fresh, Open
  <2>3. balance' = balance + (-Price[a[1]]) /\ balance + (-Price[a[1]]) >= 0
    BY <1>3, <2>1, <2>2 DEF IsFree
  <2>4. Stage(a) = "new" /\ Stage(a)' = "served"
    BY <1>7 DEF CommitExtension, Stage, Progress, Open
  <2>5. Promise!PayServed(a)
    BY <1>2, <2>1, <2>3, <2>4 DEF Promise!PayServed, Promise!Turn, Promise!Move, Stages
  <2> QED BY <2>5 DEF Promise!Next
<1>8. CASE RefundExtension(a)
  <2>1. ~raced /\ balance' = (IF IsFree(a) THEN balance ELSE mem[a] + Price[a[1]])
        /\ ledger' = ledger + 0
    BY <1>8, WriteUnraced DEF RefundExtension
  <2>2. mem[a] = balance - Price[a[1]]
    BY <1>8, <2>1, AttemptFacts DEF RefundExtension, Fresh, Open
  <2>3. balance' = balance /\ ledger' = ledger
    BY <1>3, <2>1, <2>2
  <2>4. Stage(a) = "new" /\ Stage(a)' = "returned"
    BY <1>8 DEF RefundExtension, Stage, Progress, Open
  <2>5. Promise!Decline(a)
    BY <1>2, <2>3, <2>4 DEF Promise!Decline, Promise!Turn, Stages
  <2> QED BY <2>5 DEF Promise!Next
<1> QED BY <1>4, <1>5, <1>6, <1>7, <1>8

\* Every other writer moves balance and ledger alike.
LEMMA WriterStep ==
    ASSUME IInv, ~raced',
           \/ \E c \in Credits : Credit(c)
           \/ \E s \in Admin : Adjust(s) \/ SetBalance(s)
    PROVE  Promise!Next \/ UNCHANGED Promise!vars
<1> USE DEF IInv, TypeOK
<1>1. Stages' = Stages BY DEF Credit, Adjust, SetBalance, Stages, Stage
<1>2. balance \in Int /\ balance >= 0 BY DEF Funds
<1>3. ASSUME NEW c \in Credits, Credit(c) PROVE Promise!Next
  <2>1. balance' = balance + Amount[c] /\ ledger' = ledger + Amount[c]
    BY <1>3, CreditFacts DEF Credit, Write, IsFree
  <2>2. balance + Amount[c] >= 0 BY <1>2, CreditFacts
  <2>3. Promise!Change(Amount[c])
    BY <1>1, <2>1, <2>2 DEF Promise!Change, Promise!Move, Stages
  <2> QED BY <2>3 DEF Promise!Next
<1>4. ASSUME NEW s \in Admin, Adjust(s) PROVE Promise!Next \/ UNCHANGED Promise!vars
  <2>1. CASE UNCHANGED rows BY <1>1, <2>1 DEF rows, Promise!vars, Stages
  <2>2. CASE mem[s] + Amount[s] >= 0 /\ Write(s, mem[s] + Amount[s], Amount[s])
    <3>1. ~raced /\ balance' = mem[s] + Amount[s] /\ ledger' = ledger + Amount[s]
      BY <2>2, WriteUnraced, AdminFacts DEF IsFree
    <3>2. mem[s] = balance BY <1>4, <3>1, AdminFacts DEF Adjust, Fresh
    <3>3. Promise!Change(Amount[s])
      BY <1>1, <2>2, <3>1, <3>2 DEF Promise!Change, Promise!Move, Stages
    <3>4. s \in Adjusts BY <1>4 DEF Adjust
    <3> QED BY <3>3, <3>4 DEF Promise!Next
  <2> QED
    <3>1. mem[s] + Amount[s] \in Int BY AdminFacts
    <3> QED BY <1>4, <2>1, <2>2, <3>1 DEF Adjust
<1>5. ASSUME NEW s \in Admin, SetBalance(s) PROVE Promise!Next \/ UNCHANGED Promise!vars
  <2>1. CASE UNCHANGED rows BY <1>1, <2>1 DEF rows, Promise!vars, Stages
  <2>2. CASE Write(s, Amount[s], Amount[s] - mem[s])
    <3>1. ~raced /\ balance' = Amount[s] /\ ledger' = ledger + (Amount[s] - mem[s])
      BY <2>2, WriteUnraced, AdminFacts DEF IsFree
    <3>2. mem[s] = balance BY <1>5, <3>1, AdminFacts DEF SetBalance, Fresh
    <3>3. s \in Sets /\ Amount[s] >= 0 /\ Amount[s] \in Int
      BY <1>5, WalletAssumption DEF SetBalance, Admin
    <3>4. balance + (Amount[s] - balance) = Amount[s] BY <1>2, <3>3
    <3>5. Promise!SetTo(Amount[s])
      BY <1>1, <3>1, <3>2, <3>3, <3>4 DEF Promise!SetTo, Promise!Move, Stages
    <3> QED BY <3>3, <3>5 DEF Promise!Next
  <2> QED BY <1>5, <2>1, <2>2 DEF SetBalance
<1> QED BY <1>3, <1>4, <1>5

\* All the rest is none of the account.
LEMMA SameRows ==
    ASSUME UNCHANGED <<rows, pay, sub>> PROVE UNCHANGED Promise!vars
<1>1. Stages' = Stages BY DEF Stages, Stage
<1> QED BY <1>1 DEF rows, Promise!vars, Stages

\* As long as nothing raced, every step of the wallet is one of the account, or none.
LEMMA RefineStep ==
    ASSUME IInv, [Next]_vars
    PROVE  [raced' \/ Promise!Next]_(Promise!vars)
<1> SUFFICES ASSUME ~raced' PROVE Promise!Next \/ UNCHANGED Promise!vars OBVIOUS
<1>1. ASSUME NEW x \in Orders, NEW k \in Tries, Send(x, k) PROVE UNCHANGED Promise!vars
  BY <1>1, SameRows DEF Send
<1>2. ASSUME NEW a \in Sessions,
             Load(a) \/ Insufficient(a) \/ Issue(a) \/ Reserve(a) \/ Crash(a)
      PROVE  UNCHANGED Promise!vars
  BY <1>2, SameRows DEF Load, Insufficient, Issue, Reserve, Crash
<1>3. ASSUME UNCHANGED vars PROVE UNCHANGED Promise!vars
  BY <1>3, SameRows DEF vars
<1> QED
  BY <1>1, <1>2, <1>3, OrderStep, WriterStep
     DEF Next, Handle, Purchase, Extension, AdminRequest, Sessions

\* As long as no session writes while another one holds a snapshot, the wallet keeps
\* the promise of module Account, with every handler, retry and crash.
THEOREM WalletRefines == Spec => AccountUnlessRaced
<1>1. Init => Promise!Init BY DEF Init, Promise!Init, Stage
<1>2. IInv /\ [Next]_vars => [raced' \/ Promise!Next]_(Promise!vars) BY RefineStep
<1> QED BY InitInv, StepInv, <1>1, <1>2, PTL DEF Spec, AccountUnlessRaced
=============================================================================
