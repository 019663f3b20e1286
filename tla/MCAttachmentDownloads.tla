------------------------ MODULE MCAttachmentDownloads -------------------------
(* Instances of the download for TLC; all constants are in the cfgs.       *)
EXTENDS AttachmentDownloadsProperties
=============================================================================
