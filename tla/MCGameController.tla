-------------------------- MODULE MCGameController --------------------------
(* Two players and any server.                                              *)
EXTENDS GameController, TLC

Symmetry == Permutations(PlayerIds)

=============================================================================
