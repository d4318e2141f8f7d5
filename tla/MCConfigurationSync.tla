------------------------ MODULE MCConfigurationSync ------------------------
(* Instances of ConfigurationSync, and of the inductive invariant its proofs *)
(* use, for TLC.                                                           *)
EXTENDS ConfigurationSync_proofs, TLC

Symmetry == Permutations(Sensors) \cup Permutations(Edits) \cup Permutations(Syncs)
=============================================================================
