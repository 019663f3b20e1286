----------------------- MODULE ZoteroOAuthProperties ------------------------
(* What ZoteroOAuth is expected to keep.                                   *)
EXTENDS ZoteroOAuth

Shapes ==
  /\ attempt \in [Authorizations -> {"NONE", "PENDING", "CLAIMED", "SUCCEEDED", "FAILED", "EXPIRED", "GONE"}]
  /\ connection \in [key : Keys \cup {None}, code : RevocationCodes \cup {"none", "other"},
                     unresolved : BOOLEAN, unreadable : SUBSET Keys]
  /\ outbox \in [Keys -> [status : {"none", "pending", "processing"},
                          lease : Requests \cup {None}, stale : BOOLEAN]]
  /\ zotero \in [Keys -> {"unissued", "live", "deleted"}]
  /\ {audited, lost} \subseteq SUBSET Keys

Carried(k) == \E p \in Requests :
  hand[p].key = k /\ hand[p].phase \in {"exchanged", "reconciling", "uncertain"}

\* No key that Zotero has issued is forgotten while it lives: it is installed,
\* waits for its revocation, is on its way, or is named by an audit event for
\* manual cleanup; only a process that dies takes one with it.
KeysAreAccountedFor ==
  /\ Shapes
  /\ \A k \in Keys : zotero[k] = "live" =>
       \/ k = connection.key \/ k \in Entries(outbox) \cup connection.unreadable
       \/ k \in audited \cup lost \/ Carried(k)

\* A reconnect never installs a key whose DELETE is on its way, and no DELETE
\* is sent for the key that is installed, although both come from rows that
\* were read before a call to Zotero.
InstalledKeyIsNotBeingDeleted ==
  \A p \in Requests : At(p, "deleting") => hand[p].key # connection.key

\* "A claimed worker may already be deleting this provider key.  The
\* serializable row update makes either its claim or this reconnect win;
\* installing a token after the claim is forbidden." (oauth-service.ts:2040)
InstalledKeyLives == connection.key # None => zotero[connection.key] = "live"

\* A temporary credential is exchanged by one callback only, however many
\* arrive for it.
OneCallbackWins ==
  \A p, q \in Requests :
    /\ {hand[p].phase, hand[q].phase} \subseteq {"claimed", "exchanged", "reconciling", "uncertain"}
    /\ hand[p].a = hand[q].a
    => p = q

\* While a revocation is outstanding the connection says so, so that
\* retryPendingZoteroRevocations finds it.
OutboxIsAnnounced == Entries(outbox) # {} => connection.code \in RevocationCodes
=============================================================================
