------------------------------ MODULE MCStaking -------------------------------
(* Instances of Staking for TLC. *)
EXTENDS Staking, TLC

UpDown == {-1, 2}
SubUpDown == {-1, 0, 2}
BackForth == {-1, 1}
Symmetry == Permutations(Accounts)
==============================================================================
