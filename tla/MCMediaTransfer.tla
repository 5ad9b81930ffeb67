-------------------------- MODULE MCMediaTransfer ---------------------------
(* Instances of MediaTransfer for TLC; the workers are interchangeable.      *)
EXTENDS MediaTransfer, TLC

Symmetry == Permutations(Workers)
=============================================================================
