----------------------------- MODULE MCPayments -----------------------------
\* One payment of each purpose; payments share no row, so one is enough.
EXTENDS Payments

CONSTANTS topup, purchase, extension
=============================================================================
