---------------------------- MODULE MCGameMatch ----------------------------
(* A room of two, a client, and the players it may meet there.              *)
EXTENDS GameMatch, TLC

Others   == PlayerIds \ {Local}
Symmetry == Permutations(Others)

=============================================================================
