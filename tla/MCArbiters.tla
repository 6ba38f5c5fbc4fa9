---------------------------- MODULE MCArbiters ----------------------------
\* The arbiters with as many requesters as their tests and references use.
EXTENDS Arbiters
=============================================================================
