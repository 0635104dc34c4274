---------------------------- MODULE MCPickleApi ----------------------------
(* Instances of PickleApi.                                                   *)
EXTENDS PickleApi, TLC

NameSymmetry == Permutations(Fqdn)

=============================================================================
