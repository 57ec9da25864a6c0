---------------------------- MODULE MCConfigApply ----------------------------
(* ConfigApply on small instances. *)
EXTENDS ConfigApply, TLC

CONSTANTS r1, r2

Symmetric == Permutations(Requests)
=============================================================================
