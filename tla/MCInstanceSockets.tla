-------------------------- MODULE MCInstanceSockets --------------------------
(* Two instances of one plugin, in either format.                           *)
EXTENDS InstanceSockets, TLC

Sym == Permutations(Instances)
=============================================================================
