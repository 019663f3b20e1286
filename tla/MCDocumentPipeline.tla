------------------------- MODULE MCDocumentPipeline -------------------------
(***************************************************************************)
(* Instances of the document pipeline for TLC.  A document's and a         *)
(* worker's name say what it is.                                           *)
(***************************************************************************)
EXTENDS DocumentPipelineProperties

SourceTable == [upload |-> "BROWSER_UPLOAD", old |-> "BROWSER_UPLOAD", old2 |-> "BROWSER_UPLOAD",
                zotero |-> "ZOTERO_ATTACHMENT", crawl |-> "CRAWLER", crawl2 |-> "CRAWLER"]
SkewTable == [fast |-> 1, exact |-> 0, slow |-> -1]

MCSourceOf == [d \in Docs |-> SourceTable[d]]
MCHasBatch == [d \in Docs |-> d \notin {"old", "old2"}]
MCSkew == [w \in ValWorkers |-> SkewTable[w]]
MCRetryDelay == [n \in 1..MaxAttempts |-> IF n = 1 THEN 1 ELSE 2]

\* One toolchain everywhere, and one that only "other" extraction workers run.
MCPinOf == [w \in ValWorkers |-> "current"]
MCToolchainOf == [w \in ExtWorkers |-> IF w = "other" THEN "next" ELSE "current"]
=============================================================================
