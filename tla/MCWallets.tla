------------------------------ MODULE MCWallets ------------------------------
\* One click of each kind with every other writer of the wallet ("writers"), and
\* both clicks repeated by the bot with no other writer ("retries"): `part` is
\* chosen at the start.
EXTENDS MCWallet

VARIABLE part

MCInit == part \in {"writers", "retries"} /\ Init

MCNext ==
    /\ UNCHANGED part
    /\ \/ \E x \in Orders, k \in Tries : (k = 1 \/ part = "retries") /\ Send(x, k)
       \/ \E a \in Attempts : Handle(a) \/ Crash(a)
       \/ part = "writers" /\ \E c \in Credits : Credit(c)
       \/ part = "writers" /\ \E s \in Admin : AdminRequest(s)

MCSpec ==
    /\ MCInit /\ [][MCNext]_<<part, vars>>
    /\ \A a \in Attempts : WF_vars(Handle(a))
=============================================================================
