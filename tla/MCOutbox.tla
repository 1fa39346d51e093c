------------------------------ MODULE MCOutbox ------------------------------
\* Outbox on two rows and two overlapping ticks.
EXTENDS Outbox

MCMsgs == 1..2
=============================================================================
