------------------------------ MODULE MCFighter ------------------------------
(* A platform of a few places.                                              *)
EXTENDS Fighter, TLC

=============================================================================
