------------------------------ MODULE MCJumper ------------------------------
(* Two platforms that overlap; under the end of the upper one is none.      *)
EXTENDS Jumper, TLC

Rock(left, right, level) == [left |-> left, right |-> right, level |-> level]
SmallHill == {Rock(0, 5, 0), Rock(2, 7, 1)}

=============================================================================
