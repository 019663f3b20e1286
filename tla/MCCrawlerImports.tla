-------------------------- MODULE MCCrawlerImports --------------------------
(* Instances of the crawler import for TLC; all constants are in the cfgs. *)
EXTENDS CrawlerImportsProperties
=============================================================================
