--------------------------- MODULE MCUploadIntake ---------------------------
(* Instances of the upload intake for TLC; all constants are in the cfgs. *)
EXTENDS UploadIntakeProperties
=============================================================================
