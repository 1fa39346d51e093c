------------------------------ MODULE Account ------------------------------
(***************************************************************************)
(* What a wallet promises its user, without sessions, locks, snapshots or  *)
(* retries: one balance and one book, which every operation moves at once  *)
(* and by the same amount, never below nothing.  An order is paid at its   *)
(* price from money that is there; what was paid is then served or         *)
(* returned, once.                                                         *)
(***************************************************************************)
EXTENDS Integers

CONSTANTS Orders,
          Cost,     \* order -> what it costs
          Changes,  \* amounts that credits and adjustments add or take
          Targets,  \* balances that are set
          Initial

VARIABLES balance,
          ledger,   \* the sum of what was booked
          order     \* order -> "new", "paid", "served" or "returned"

vars == <<balance, ledger, order>>

Init ==
    /\ balance = Initial /\ ledger = Initial
    /\ order = [o \in Orders |-> "new"]

Move(amount) ==
    /\ balance + amount >= 0
    /\ balance' = balance + amount
    /\ ledger' = ledger + amount

Turn(o, from, to) ==
    /\ order[o] = from
    /\ order' = [order EXCEPT ![o] = to]

Pay(o)    == Turn(o, "new", "paid") /\ Move(-Cost[o])
Serve(o)  == Turn(o, "paid", "served") /\ UNCHANGED <<balance, ledger>>
Return(o) == Turn(o, "paid", "returned") /\ Move(Cost[o])

\* Paid and served, or paid and returned, in one step.
PayServed(o) == Turn(o, "new", "served") /\ Move(-Cost[o])
Decline(o)   == Turn(o, "new", "returned") /\ UNCHANGED <<balance, ledger>>

Change(amount) == Move(amount) /\ UNCHANGED order
SetTo(target)  == Move(target - balance) /\ UNCHANGED order

Next ==
    \/ \E o \in Orders : Pay(o) \/ Serve(o) \/ Return(o) \/ PayServed(o) \/ Decline(o)
    \/ \E amount \in Changes : Change(amount)
    \/ \E target \in Targets : SetTo(target)

Spec == Init /\ [][Next]_vars
=============================================================================
