----------------------------- MODULE Settlement -----------------------------
(***************************************************************************)
(* What payments through a gateway promise a user, without webhooks,       *)
(* transactions, crons or repetitions: a payment is opened once and may be *)
(* dropped, but the user's money is what counts.  Money the gateway        *)
(* confirmed settles the payment once, dropped or not, in one of the ways  *)
(* that go with its purpose; nothing else settles it.  The VPN provider    *)
(* works only for money that is confirmed and not yet settled, and what it *)
(* makes is given only after it was made.  A settled payment stays.        *)
(***************************************************************************)
EXTENDS Naturals

CONSTANTS Payments,
          Provided,  \* payments for something the VPN provider makes
          Ends       \* payment -> ways to settle it: "given", "returned", "owed"

VARIABLES state,     \* payment -> "none", "open", "dropped" or one of its ends
          invoice,   \* payment -> what became of it at the gateway
          made,      \* payment -> the provider made what is paid for
          given,     \* payment -> times the user was given what he paid for
          returned   \* payment -> times the money went to his balance instead

vars == <<state, invoice, made, given, returned>>

Init ==
    /\ state = [p \in Payments |-> "none"]
    /\ invoice = [p \in Payments |-> "none"]
    /\ made = [p \in Payments |-> FALSE]
    /\ given = [p \in Payments |-> 0]
    /\ returned = [p \in Payments |-> 0]

Unsettled(p) == state[p] \in {"open", "dropped"}

Open(p) ==
    /\ state[p] = "none"
    /\ state' = [state EXCEPT ![p] = "open"]
    /\ invoice' = [invoice EXCEPT ![p] = "open"]
    /\ UNCHANGED <<made, given, returned>>

Decide(p, g) ==
    /\ invoice[p] = "open"
    /\ invoice' = [invoice EXCEPT ![p] = g]
    /\ UNCHANGED <<state, made, given, returned>>

Drop(p) ==
    /\ state[p] = "open"
    /\ state' = [state EXCEPT ![p] = "dropped"]
    /\ UNCHANGED <<invoice, made, given, returned>>

Make(p) ==
    /\ p \in Provided
    /\ Unsettled(p) /\ invoice[p] = "confirmed"
    /\ made' = [made EXCEPT ![p] = TRUE]
    /\ UNCHANGED <<state, invoice, given, returned>>

Settle(p, e) ==
    /\ Unsettled(p) /\ invoice[p] = "confirmed"
    /\ e = "given" /\ p \in Provided => made[p]
    /\ state' = [state EXCEPT ![p] = e]
    /\ given' = IF e = "given" THEN [given EXCEPT ![p] = @ + 1] ELSE given
    /\ returned' = IF e = "returned" THEN [returned EXCEPT ![p] = @ + 1] ELSE returned
    /\ UNCHANGED <<invoice, made>>

Next ==
    \E p \in Payments :
        \/ Open(p) \/ Drop(p) \/ Make(p)
        \/ \E g \in {"confirmed", "canceled"} : Decide(p, g)
        \/ \E e \in Ends[p] : Settle(p, e)

Spec == Init /\ [][Next]_vars
=============================================================================
