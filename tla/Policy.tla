------------------------------- MODULE Policy -------------------------------
(***************************************************************************)
(* What internal/policy decides about a download, against a library that   *)
(* earlier decisions have changed: import it, remove it, or leave it.      *)
(*                                                                         *)
(* An observation keeps what tells decisions apart.  sound stands for all  *)
(* the checks that make Evaluate refuse incomplete or conflicting input,   *)
(* scoped for those of RejectedCleanup; a file's rejections are a class:   *)
(* none, only "not an upgrade" ones, only Sample or No audio, or others.   *)
(* What Sonarr does with an import or a removal is external.               *)
(***************************************************************************)
EXTENDS Integers

CONSTANTS
  Episodes,
  File,          \* the files there are: quality, revision, score, known
  Policies,      \* profiles with the permissions and the proper preference
  Observations,  \* what may be observed of a download
  Tracked,       \* the episodes whose history is kept
  NoFile

Revision == [real : Nat, version : Nat]

ASSUME PolicyAssumption ==
  /\ NoFile \notin File /\ Tracked \subseteq Episodes
  /\ \A f \in File : f.revision \in Revision /\ f.score \in Int /\ f.known \in BOOLEAN
  /\ \A p \in Policies :
       /\ \A f \in File : p.order[f.quality] \in Nat
       /\ p.minScore \in Int /\ p.cutoffScore \in Int /\ p.minUpgrade \in Nat
       /\ p.cutoff \in Nat
       /\ p.propers \in {"preferAndUpgrade", "doNotUpgrade", "doNotPrefer"}
  /\ \A o \in Observations :
       /\ o.rows \cup o.grabbed \subseteq Episodes
       /\ \A x \in o.files : x.file \in File /\ x.episodes \subseteq Episodes

VARIABLES
  library,  \* the file of each episode
  policy,   \* the current profile and permissions
  former,   \* history: some file that an import has replaced
  last      \* the last decision that was carried out

vars == <<library, policy, former, last>>

TypeOK ==
  /\ library \in [Episodes -> File \cup {NoFile}]
  /\ policy \in Policies
  /\ former \in [Tracked -> File \cup {NoFile}]
  /\ last \in {"none", "import", "remove_redundant", "remove_unusable", "remove_blocked"}

Init ==
  /\ library \in [Episodes -> File \cup {NoFile}]
  /\ policy \in Policies
  /\ former = [e \in Tracked |-> NoFile]
  /\ last = "none"

----------------------------------------------------------------------------
(* profile.go: the comparison of a candidate with a file of the library.   *)

Order(f) == policy.order[f.quality]
Allowed(f) == f.quality \in policy.allowed

\* Real decides before Version.
RevisionCompare(a, b) ==
  CASE a.real > b.real \/ (a.real = b.real /\ a.version > b.version) -> 1
    [] a.real < b.real \/ (a.real = b.real /\ a.version < b.version) -> -1
    [] OTHER -> 0

\* A file with missing data, or a score that contradicts the profile.
Acceptable(f) == f.known /\ Allowed(f) /\ f.score >= policy.minScore

Newer(n, o) == RevisionCompare(n.revision, o.revision)
Prefers == policy.propers # "doNotPrefer"

InferiorInGroup(n, o) ==
  /\ Order(n) = Order(o)
  /\ (Prefers /\ Newer(n, o) < 0) \/ n.score < o.score
Inferior(n, o) ==
  \/ Order(n) < Order(o)
  \/ /\ Order(n) = Order(o)
     /\ (Prefers /\ Newer(n, o) < 0) \/ n.score < o.score
Equal(n, o) ==
  /\ Order(n) = Order(o) /\ n.score = o.score
  /\ ~Prefers \/ Newer(n, o) = 0

PermittedByCutoffs(n, o) ==
  /\ policy.upgradeAllowed
  /\ \/ Order(n) > Order(o) /\ Order(o) < policy.cutoff
     \/ /\ Order(n) <= Order(o)
        /\ \/ /\ Newer(n, o) > 0 /\ n.quality = o.quality
              /\ policy.propers = "preferAndUpgrade"
           \/ /\ n.score > o.score /\ o.score < policy.cutoffScore
              /\ n.score - o.score >= policy.minUpgrade
Permitted(n, o) ==
  /\ Allowed(n) /\ n.score >= policy.minScore
  /\ PermittedByCutoffs(n, o)

\* Compare: -1, 0 or 1, or "unknown" for a comparison that fails.
Compare(n, o) ==
  CASE ~n.known \/ ~o.known -> "unknown"
    [] n.known /\ o.known /\ Inferior(n, o) -> "inferior"
    [] n.known /\ o.known /\ ~Inferior(n, o) /\ Equal(n, o) -> "equal"
    [] OTHER -> "better"
Upgrade(n, o) == Compare(n, o) = "better" /\ Permitted(n, o)

----------------------------------------------------------------------------
(* policy.go: Evaluate and RejectedCleanup; service.go: decision. *)

Previewed(o) == UNION {x.episodes : x \in o.files}

\* o.rows are the episodes of the queue rows, o.grabbed those of the history.
Intended(o) == o.rows \cup o.grabbed \cup Previewed(o)

\* busy holds the episodes of other active downloads, or Episodes for one that
\* is not identified.
Competing(o, episodes) == o.unidentified \/ o.busy \cap episodes # {}

Has(e) == library[e] # NoFile

Importable(o) ==
  \A x \in o.files :
    /\ x.rejections = "none"
    /\ \A e \in x.episodes :
         IF Has(e) THEN Upgrade(x.file, library[e]) ELSE Acceptable(x.file)

\* A comparison that fails does not prove redundancy.
RedundantUnlessUpgrade(o) ==
  \A x \in o.files :
    /\ x.rejections \in {"none", "redundant"}
    /\ \A e \in x.episodes :
         /\ Has(e) /\ Acceptable(library[e]) /\ Compare(x.file, library[e]) # "unknown"
         /\ ~Upgrade(x.file, library[e])
Redundant(o) ==
  \A x \in o.files :
    /\ x.rejections \in {"none", "redundant"}
    /\ \A e \in x.episodes :
         /\ Has(e) /\ Acceptable(library[e])
         /\ Compare(x.file, library[e]) \in {"inferior", "equal"}

Unusable(o) == \A x \in o.files : x.rejections = "unusable"

\* An intended episode that is not in the preview has an acceptable file.
OthersSatisfiedIfPresent(o) ==
  \A e \in Intended(o) \ Previewed(o) : Has(e)
OthersSatisfied(o) ==
  \A e \in Intended(o) \ Previewed(o) : Has(e) /\ Acceptable(library[e])

Evaluate(o) ==
  IF ~o.eligible \/ ~o.sound \/ o.files = {} \/ Competing(o, Intended(o)) \/ ~OthersSatisfied(o)
  THEN "defer"
  ELSE CASE Importable(o) -> IF policy.recovery THEN "import" ELSE "defer"
         [] ~Importable(o) /\ Redundant(o) ->
              IF policy.cleanup THEN "remove_redundant" ELSE "defer"
         [] ~Importable(o) /\ ~Redundant(o) /\ Unusable(o) ->
              IF policy.cleanup THEN "remove_unusable" ELSE "defer"
         [] OTHER -> "defer"

\* Sonarr's own rejection, or its executable warning, is enough to remove.
Rejected(o) ==
  /\ o.eligible /\ o.scoped /\ (o.files # {} \/ o.warning)
  /\ o.warning \/ \E x \in o.files : x.rejections # "none"
RejectedCleanup(o) ==
  IF Rejected(o) /\ policy.cleanup /\ ~Competing(o, o.rows \cup Previewed(o))
  THEN "remove_blocked" ELSE "defer"

Decision(o) ==
  IF ~o.warning /\ Evaluate(o) # "defer" THEN Evaluate(o) ELSE RejectedCleanup(o)

----------------------------------------------------------------------------
(* A decision is carried out. *)

After(o) ==
  [e \in Episodes |->
     IF \E x \in o.files : e \in x.episodes
     THEN (CHOOSE x \in o.files : e \in x.episodes).file ELSE library[e]]

\* External: Sonarr imports the files of the decision, all of them.
Import(o) ==
  /\ Decision(o) = "import" /\ last' = "import"
  /\ library' = After(o)
  /\ former' \in [Tracked -> File \cup {NoFile}]
  /\ \A e \in Tracked :
       former'[e] \in {former[e]} \cup (IF Has(e) /\ library'[e] # library[e] THEN {library[e]} ELSE {})
  /\ UNCHANGED policy

\* External: the downloaded data is gone, the library is not touched.
Remove(o) ==
  /\ Decision(o) \in {"remove_redundant", "remove_unusable", "remove_blocked"}
  /\ last' = Decision(o)
  /\ UNCHANGED <<library, policy, former>>

Next == \E o \in Observations : Import(o) \/ Remove(o)

Spec == Init /\ [][Next]_vars

----------------------------------------------------------------------------
(* Properties. *)

\* What the profile prefers, as an order of its own: group first, and within a
\* group no loss of revision or score for a gain of the other.
Better(n, o) ==
  \/ Order(n) > Order(o)
  \/ /\ Order(n) = Order(o) /\ n.score >= o.score
     /\ Prefers => Newer(n, o) >= 0
     /\ n.score > o.score \/ (Prefers /\ Newer(n, o) > 0)

\* Under one policy no sequence of imports leads back: a file that an import
\* has replaced never becomes the file of the episode again.
NoReturn == \A e \in Tracked : former[e] # NoFile => library[e] # former[e]

\* A release is only removed as redundant when the library has an acceptable
\* file for all it was grabbed for, and no file of the release is better than
\* the one it would replace, whether or not the profile permits the upgrade.
RedundantCovered ==
  \A o \in Observations : Decision(o) = "remove_redundant" =>
    /\ \A e \in Intended(o) : Has(e) /\ Acceptable(library[e])
    /\ \A x \in o.files : \A e \in x.episodes :
         x.file.known /\ ~Better(x.file, library[e])

\* After an import every episode the release was grabbed for has an acceptable
\* file: a pack is imported as a whole or not at all.
ImportSatisfies ==
  \A o \in Observations : Decision(o) = "import" =>
    \A e \in Intended(o) : After(o)[e] # NoFile /\ Acceptable(After(o)[e])

\* Whatever is imported or removed, an acceptable file is only replaced by a
\* better acceptable one.
NeverWorse ==
  [][\A e \in Episodes :
       Has(e) /\ Acceptable(library[e]) /\ library'[e] # library[e] =>
         library'[e] # NoFile /\ Acceptable(library'[e]) /\ Better(library'[e], library[e])]_vars
=============================================================================
