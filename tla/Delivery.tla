------------------------------ MODULE Delivery ------------------------------
(***************************************************************************)
(* What the outbox promises its callers, without workers, locks, clocks or *)
(* HTTP: a message is queued once, then tried a bounded number of times;   *)
(* each try delivers it to Telegram at most once; it ends as sent only     *)
(* after some try delivered it, and as failed only when the tries are used *)
(* up.  Neither end state is ever left.  Delivery is thus at least once    *)
(* for a message that ends as sent, and at most MaxTries times for any.    *)
(***************************************************************************)
EXTENDS Naturals

CONSTANTS Msgs,      \* the messages callers may hand to the outbox
          MaxTries   \* delivery attempts a message gets

VARIABLES state,     \* message -> "none", "queued", "trying", "sent" or "failed"
          tries,     \* message -> attempts started
          delivered  \* message -> times Telegram posted it in the chat

vars == <<state, tries, delivered>>

Init ==
    /\ state = [m \in Msgs |-> "none"]
    /\ tries = [m \in Msgs |-> 0]
    /\ delivered = [m \in Msgs |-> 0]

Queue(m) ==
    /\ state[m] = "none"
    /\ state' = [state EXCEPT ![m] = "queued"]
    /\ UNCHANGED <<tries, delivered>>

\* A batch of queued messages is taken up together.
Start(S) ==
    /\ \A m \in S : state[m] = "queued" /\ tries[m] < MaxTries
    /\ state' = [m \in Msgs |-> IF m \in S THEN "trying" ELSE state[m]]
    /\ tries' = [m \in Msgs |-> IF m \in S THEN tries[m] + 1 ELSE tries[m]]
    /\ UNCHANGED delivered

Deliver(m) ==
    /\ state[m] = "trying"
    /\ delivered[m] < tries[m]
    /\ delivered' = [delivered EXCEPT ![m] = @ + 1]
    /\ UNCHANGED <<state, tries>>

Confirm(m) ==
    /\ state[m] = "trying"
    /\ delivered[m] > 0
    /\ state' = [state EXCEPT ![m] = "sent"]
    /\ UNCHANGED <<tries, delivered>>

Requeue(m) ==
    /\ state[m] = "trying"
    /\ tries[m] < MaxTries
    /\ state' = [state EXCEPT ![m] = "queued"]
    /\ UNCHANGED <<tries, delivered>>

GiveUp(m) ==
    /\ state[m] = "trying"
    /\ tries[m] >= MaxTries
    /\ state' = [state EXCEPT ![m] = "failed"]
    /\ UNCHANGED <<tries, delivered>>

Next ==
    \/ \E S \in SUBSET Msgs : Start(S)
    \/ \E m \in Msgs :
        Queue(m) \/ Deliver(m) \/ Confirm(m) \/ Requeue(m) \/ GiveUp(m)

Spec == Init /\ [][Next]_vars
=============================================================================
