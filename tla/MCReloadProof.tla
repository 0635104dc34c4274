---------------------------- MODULE MCReloadProof ----------------------------
(* Instances of ReloadProof: one name before the proof file, one after it.   *)
EXTENDS ReloadProof, TLC

NonceSymmetry == Permutations(Nonce)

=============================================================================
