---------------------------- MODULE MCRemediator ----------------------------
(***************************************************************************)
(* Small instances of Remediator for TLC: two downloads that share an      *)
(* episode, one with a candidate to import and one to remove.              *)
(***************************************************************************)
EXTENDS Remediator, TLC

CONSTANTS d1, d2, e1, e2, f1, f2, r1

Choice(kind, fingerprint, episodes, blocklist) ==
  [kind |-> kind, fingerprint |-> fingerprint, episodes |-> episodes, blocklist |-> blocklist]

\* Two candidates that share an episode, both to be imported.
ImportVerdicts ==
  (d1 :> {Choice("import", f1, {e1}, FALSE)}) @@ (d2 :> {Choice("import", f2, {e1, e2}, FALSE)})

\* An unusable release to remove and blocklist, with a search to follow.
CleanupVerdicts ==
  d1 :> {Choice("remove_unusable", f1, {e1, e2}, TRUE)}

\* A release to import, by an automatic cycle or by a request.
ManualVerdicts ==
  d1 :> {Choice("import", f1, {e1}, FALSE)}

\* The one imported, the other removed with a search to follow, sharing an episode.
MixedVerdicts ==
  (d1 :> {Choice("import", f1, {e1}, FALSE)})
    @@ (d2 :> {Choice("remove_unusable", f2, {e1, e2}, TRUE)})

Live == {[dryRun |-> FALSE, search |-> TRUE]}
LiveOrDry == {[dryRun |-> d, search |-> TRUE] : d \in BOOLEAN}
AnyConfig == [dryRun : BOOLEAN, search : BOOLEAN]

ExpiresAt3 == [r \in Requests |-> 3]
=============================================================================
