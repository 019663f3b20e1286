---------------------------- MODULE MCZoteroSync ----------------------------
(* Instances of the metadata sync for TLC; all constants are in the cfgs. *)
EXTENDS ZoteroSyncProperties, TLC

Symmetry == Permutations(Workers)
=============================================================================
