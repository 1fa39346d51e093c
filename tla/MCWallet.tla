------------------------------ MODULE MCWallet ------------------------------
\* Orders cost 2, sets go to 3, an adjustment takes 2 and a credit adds 1: the
\* initial balance of 3 or 4 pays for one order or for two, and every writer
\* changes whether the next one is affordable.
EXTENDS Wallet

CONSTANTS b1, e1, c1, a1, s1

MCOneTry   == {1}
MCTwoTries == 1..2
MCPrice    == [x \in Orders |-> 2]
MCAmount   == [o \in Credits \cup Admin |->
                IF o \in Sets THEN 3 ELSE IF o \in Adjusts THEN -2 ELSE 1]
=============================================================================
