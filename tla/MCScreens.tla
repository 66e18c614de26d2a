----------------------------- MODULE MCScreens -----------------------------
\* Screens on a small instance: two players.
EXTENDS Screens, TLC

CONSTANTS p1, p2

=============================================================================
