---------------------------- MODULE MCZoteroOAuth -----------------------------
(* Instances of the Zotero authorization for TLC.                          *)
EXTENDS ZoteroOAuthProperties, TLC

CONSTANTS r1, r2, a1, a2, k1, k2
MCRequests == {r1, r2}
MCAuthorizations == {a1, a2}
MCKeys == {k1, k2}
MCSymmetry == Permutations(MCRequests) \cup Permutations(MCAuthorizations) \cup Permutations(MCKeys)
=============================================================================
