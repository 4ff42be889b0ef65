---------------------------- MODULE PolicyProofs ----------------------------
(***************************************************************************)
(* Imports under one policy only ever move the file of an episode up in    *)
(* the order Better, for every profile, library and set of downloads.      *)
(* Better is transitive and irreflexive, so no sequence of imports leads   *)
(* back: the inductive invariant says that the file of an episode is       *)
(* better than any file an import has replaced.                            *)
(***************************************************************************)
EXTENDS Policy, TLAPS

\* The profile the comparisons are made under, as the assumption describes it.
Measured(f) ==
  /\ f.revision.real \in Nat /\ f.revision.version \in Nat
  /\ f.score \in Int /\ Order(f) \in Nat

LEMMA FilesMeasured ==
  ASSUME NEW f \in File, policy \in Policies
  PROVE  Measured(f)
  BY PolicyAssumption DEF Measured, Order, Revision

\* RevisionCompare orders revisions lexicographically.
LEMMA RevisionOrder ==
  ASSUME NEW a \in Revision, NEW b \in Revision, NEW c \in Revision
  PROVE  /\ RevisionCompare(a, a) = 0
         /\ RevisionCompare(a, b) >= 0 /\ RevisionCompare(b, c) >= 0
            => RevisionCompare(a, c) >= 0
         /\ RevisionCompare(a, b) > 0 /\ RevisionCompare(b, c) >= 0
            => RevisionCompare(a, c) > 0
         /\ RevisionCompare(a, b) >= 0 /\ RevisionCompare(b, c) > 0
            => RevisionCompare(a, c) > 0
  BY DEF RevisionCompare, Revision

\* No file is better than itself.
LEMMA BetterIrreflexive ==
  ASSUME NEW f \in File, policy \in Policies
  PROVE  ~Better(f, f)
  <1>1. Measured(f)
    BY FilesMeasured
  <1>2. Newer(f, f) = 0
    BY PolicyAssumption, RevisionOrder DEF Newer
  <1> QED
    BY <1>1, <1>2 DEF Better, Measured

\* Better than what is better than f is better than f.
LEMMA BetterTransitive ==
  ASSUME NEW n \in File, NEW o \in File, NEW f \in File, policy \in Policies,
         Better(n, o), Better(o, f)
  PROVE  Better(n, f)
  <1>1. Measured(n) /\ Measured(o) /\ Measured(f)
    BY FilesMeasured
  <1>2. n.revision \in Revision /\ o.revision \in Revision /\ f.revision \in Revision
    BY PolicyAssumption
  <1>3. /\ Newer(n, o) >= 0 /\ Newer(o, f) >= 0 => Newer(n, f) >= 0
        /\ Newer(n, o) > 0 /\ Newer(o, f) >= 0 => Newer(n, f) > 0
        /\ Newer(n, o) >= 0 /\ Newer(o, f) > 0 => Newer(n, f) > 0
    BY <1>2, RevisionOrder DEF Newer
  <1>4. CASE Order(n) > Order(o) \/ Order(o) > Order(f)
    BY <1>1, <1>4 DEF Better, Measured
  <1>5. CASE Order(n) = Order(o) /\ Order(o) = Order(f)
    BY <1>1, <1>3, <1>5 DEF Better, Measured
  <1> QED
    BY <1>1, <1>4, <1>5 DEF Better, Measured

\* What Compare and the profile's permissions let through is better.
LEMMA UpgradeIsBetter ==
  ASSUME NEW n \in File, NEW o \in File, policy \in Policies, Upgrade(n, o)
  PROVE  Better(n, o)
  <1>1. Measured(n) /\ Measured(o)
    BY FilesMeasured
  <1>2. ~Inferior(n, o) /\ ~Equal(n, o) /\ PermittedByCutoffs(n, o)
    BY Zenon DEF Upgrade, Compare, Permitted
  <1>3. Newer(n, o) \in {-1, 0, 1}
    BY DEF Newer, RevisionCompare
  <1>4. policy.propers = "preferAndUpgrade" => Prefers
    BY DEF Prefers
  <1> QED
    BY <1>1, <1>2, <1>3, <1>4 DEF Better, Inferior, Equal, PermittedByCutoffs, Measured

\* What an import makes of an episode that had a file.
LEMMA ImportUpgrades ==
  ASSUME TypeOK, NEW o \in Observations, Import(o), NEW e \in Episodes
  PROVE  /\ library'[e] \in File \cup {NoFile}
         /\ library[e] # NoFile /\ library'[e] # library[e]
            => library'[e] # NoFile /\ Better(library'[e], library[e])
         /\ library[e] # NoFile => library'[e] # NoFile
  <1>1. library' = After(o) /\ Importable(o)
    BY DEF Import, Decision, Evaluate, RejectedCleanup
  <1>2. CASE \E x \in o.files : e \in x.episodes
    <2> DEFINE x == CHOOSE y \in o.files : e \in y.episodes
    <2>1. x \in o.files /\ e \in x.episodes
      BY <1>2
    <2>2. library'[e] = x.file
      BY <1>1, <1>2 DEF After
    <2>3. x.file \in File
      BY <2>1, PolicyAssumption
    <2>4. library[e] # NoFile => Upgrade(x.file, library[e])
      BY <1>1, <2>1 DEF Importable, Has
    <2>5. library[e] # NoFile => Better(x.file, library[e])
      BY <2>3, <2>4, UpgradeIsBetter DEF TypeOK
    <2> QED
      BY <2>2, <2>3, <2>5, PolicyAssumption
  <1>3. CASE ~\E x \in o.files : e \in x.episodes
    <2>1. library'[e] = library[e]
      BY <1>1, <1>3 DEF After
    <2> QED
      BY <2>1 DEF TypeOK
  <1> QED
    BY <1>2, <1>3

\* The type invariant holds of every behaviour.
THEOREM TypeCorrect == Spec => []TypeOK
  <1>1. Init => TypeOK
    BY DEF Init, TypeOK
  <1>2. TypeOK /\ [Next]_vars => TypeOK'
    <2> SUFFICES ASSUME TypeOK, [Next]_vars PROVE TypeOK'
      OBVIOUS
    <2>1. ASSUME NEW o \in Observations, Import(o) PROVE TypeOK'
      <3>1. \A e \in Episodes : library'[e] \in File \cup {NoFile}
        BY <2>1, ImportUpgrades
      <3>2. library' = [e \in Episodes |-> library'[e]]
        BY <2>1 DEF Import, After
      <3>3. library' \in [Episodes -> File \cup {NoFile}]
        BY <3>1, <3>2
      <3> QED
        BY <2>1, <3>3 DEF TypeOK, Import
    <2>2. ASSUME NEW o \in Observations, Remove(o) PROVE TypeOK'
      BY <2>2 DEF TypeOK, Remove
    <2>3. CASE UNCHANGED vars
      BY <2>3 DEF TypeOK, vars
    <2> QED
      BY <2>1, <2>2, <2>3 DEF Next
  <1> QED
    BY <1>1, <1>2, PTL DEF Spec

\* Any file that an import has replaced is worse than the one there is.
Improved ==
  \A e \in Tracked : former[e] # NoFile =>
    library[e] # NoFile /\ Better(library[e], former[e])

\* No sequence of imports under one policy leads back to a replaced file.
THEOREM NeverReturns == Spec => []NoReturn
  <1>1. Init => Improved
    BY DEF Init, Improved
  <1>2. TypeOK /\ TypeOK' /\ Improved /\ [Next]_vars => Improved'
    <2> SUFFICES ASSUME TypeOK, TypeOK', Improved, [Next]_vars PROVE Improved'
      OBVIOUS
    <2>1. ASSUME NEW o \in Observations, Import(o), NEW e \in Tracked, former'[e] # NoFile
          PROVE  (library[e] # NoFile /\ Better(library[e], former[e]))'
      <3>0. e \in Episodes /\ policy' = policy /\ policy \in Policies
        BY <2>1, PolicyAssumption DEF Import, TypeOK
      <3>1. library[e] \in File \cup {NoFile} /\ library'[e] \in File \cup {NoFile}
            /\ former[e] \in File \cup {NoFile} /\ former'[e] \in File \cup {NoFile}
        BY <3>0, <2>1 DEF TypeOK
      <3>2. \/ former'[e] = former[e]
            \/ former'[e] = library[e] /\ library[e] # NoFile /\ library'[e] # library[e]
        BY <2>1 DEF Import, Has
      <3>3. library[e] # NoFile /\ library'[e] # library[e]
            => library'[e] # NoFile /\ Better(library'[e], library[e])
        BY <2>1, <3>0, ImportUpgrades
      <3>4. library'[e] # NoFile /\ Better(library'[e], former'[e])
        <4>1. CASE former'[e] = library[e] /\ library[e] # NoFile /\ library'[e] # library[e]
          BY <3>3, <4>1
        <4>2. CASE former'[e] = former[e]
          <5>1. library[e] # NoFile /\ Better(library[e], former[e])
            BY <2>1, <4>2 DEF Improved
          <5>2. CASE library'[e] = library[e]
            BY <4>2, <5>1, <5>2
          <5>3. CASE library'[e] # library[e]
            <6>1. library'[e] # NoFile /\ Better(library'[e], library[e])
              BY <3>3, <5>1, <5>3
            <6>2. library'[e] \in File /\ library[e] \in File /\ former[e] \in File
              BY <2>1, <3>1, <4>2, <5>1, <6>1
            <6>3. Better(library'[e], former[e])
              BY <3>0, <5>1, <6>1, <6>2, BetterTransitive
            <6> QED
              BY <4>2, <6>1, <6>3
          <5> QED
            BY <5>2, <5>3
        <4> QED
          BY <3>2, <4>1, <4>2
      <3> QED
        BY <3>0, <3>4 DEF Better, Order, Prefers, Newer
    <2>2. ASSUME NEW o \in Observations, Remove(o) PROVE Improved'
      BY <2>2 DEF Improved, Remove, Better, Order, Prefers, Newer
    <2>3. CASE UNCHANGED vars
      BY <2>3 DEF Improved, vars, Better, Order, Prefers, Newer
    <2>4. CASE \E o \in Observations : Import(o)
      <3>1. PICK o \in Observations : Import(o)
        BY <2>4
      <3> QED
        BY <2>1, <3>1 DEF Improved
    <2> QED
      BY <2>2, <2>3, <2>4 DEF Next
  <1>3. TypeOK /\ Improved => NoReturn
    <2> SUFFICES ASSUME TypeOK, Improved, NEW e \in Tracked, former[e] # NoFile
                 PROVE  library[e] # former[e]
      BY DEF NoReturn
    <2>1. former[e] \in File /\ policy \in Policies /\ Better(library[e], former[e])
      BY DEF TypeOK, Improved
    <2> QED
      BY <2>1, BetterIrreflexive
  <1> QED
    BY <1>1, <1>2, <1>3, TypeCorrect, PTL DEF Spec

\* An import puts an acceptable file in the place of a file it replaces.
LEMMA ImportAcceptable ==
  ASSUME NEW o \in Observations, Import(o), NEW e \in Episodes,
         library[e] # NoFile, library'[e] # library[e]
  PROVE  Acceptable(library'[e])
  <1>1. library' = After(o) /\ Importable(o)
    BY DEF Import, Decision, Evaluate, RejectedCleanup
  <1>2. PICK y \in o.files : e \in y.episodes
    BY <1>1 DEF After
  <1> DEFINE x == CHOOSE z \in o.files : e \in z.episodes
  <1>3. x \in o.files /\ e \in x.episodes /\ library'[e] = x.file
    BY <1>1, <1>2 DEF After
  <1>4. Upgrade(x.file, library[e])
    BY <1>1, <1>3 DEF Importable, Has
  <1>5. Acceptable(x.file)
    BY <1>4, Zenon DEF Upgrade, Compare, Permitted, Acceptable
  <1> QED
    BY <1>3, <1>5

\* No step of a behaviour replaces an acceptable file by a worse one.
THEOREM OnlyBetter == Spec => NeverWorse
  <1> DEFINE Step ==
        \A e \in Episodes :
          Has(e) /\ Acceptable(library[e]) /\ library'[e] # library[e] =>
            library'[e] # NoFile /\ Acceptable(library'[e]) /\ Better(library'[e], library[e])
  <1>1. TypeOK /\ [Next]_vars => [Step]_vars
    <2> SUFFICES ASSUME TypeOK, Next, NEW e \in Episodes,
                        Has(e), library'[e] # library[e]
                 PROVE  library'[e] # NoFile /\ Acceptable(library'[e])
                        /\ Better(library'[e], library[e])
      OBVIOUS
    <2>1. PICK o \in Observations : Import(o)
      BY DEF Next, Remove
    <2>2. library'[e] # NoFile /\ Better(library'[e], library[e])
      BY <2>1, ImportUpgrades DEF Has
    <2>3. Acceptable(library'[e])
      BY <2>1, ImportAcceptable DEF Has
    <2> QED
      BY <2>2, <2>3
  <1> QED
    BY <1>1, TypeCorrect, PTL DEF Spec, NeverWorse

----------------------------------------------------------------------------
(* What one decision says of the library it is made against. *)

\* What the decisions of Evaluate rest on.
LEMMA EvaluateRests ==
  ASSUME NEW o
  PROVE  /\ Decision(o) = "import" => OthersSatisfied(o) /\ Importable(o)
         /\ Decision(o) = "remove_redundant" => OthersSatisfied(o) /\ Redundant(o)
  BY DEF Decision, Evaluate, RejectedCleanup

\* The comparison never calls a better file inferior or equal (Compare).
LEMMA NotBetter ==
  ASSUME TypeOK, NEW n \in File, NEW o \in File, Inferior(n, o) \/ Equal(n, o)
  PROVE  ~Better(n, o)
  <1>1. Order(n) \in Nat /\ Order(o) \in Nat /\ n.score \in Int /\ o.score \in Int
    BY PolicyAssumption DEF TypeOK, Order
  <1>2. Newer(n, o) \in Int
    BY DEF Newer, RevisionCompare
  <1> QED
    BY <1>1, <1>2 DEF Inferior, Equal, Better

\* Whatever downloads contain and the library has become, a release is removed
\* as redundant only if the library has an acceptable file for all it was
\* grabbed for and nothing in the release is better, permitted or not
\* (Evaluate, Compare, intendedEpisodes).
THEOREM OnlyRedundantRemoved == Spec => []RedundantCovered
  <1>1. TypeOK => RedundantCovered
    <2> SUFFICES ASSUME TypeOK, NEW o \in Observations, Decision(o) = "remove_redundant"
                 PROVE  /\ \A e \in Intended(o) : Has(e) /\ Acceptable(library[e])
                        /\ \A x \in o.files : \A e \in x.episodes :
                             x.file.known /\ ~Better(x.file, library[e])
      BY DEF RedundantCovered
    <2>1. OthersSatisfied(o) /\ Redundant(o)
      BY EvaluateRests
    <2>2. \A e \in Intended(o) : Has(e) /\ Acceptable(library[e])
      BY <2>1 DEF OthersSatisfied, Redundant, Previewed
    <2>3. ASSUME NEW x \in o.files, NEW e \in x.episodes
          PROVE  x.file.known /\ ~Better(x.file, library[e])
      <3>1. Compare(x.file, library[e]) \in {"inferior", "equal"}
        BY <2>1 DEF Redundant
      <3>2. x.file.known /\ (Inferior(x.file, library[e]) \/ Equal(x.file, library[e]))
        BY <3>1 DEF Compare
      <3>3. x.file \in File /\ library[e] \in File
        BY <2>1, PolicyAssumption DEF Redundant, Has, TypeOK
      <3>4. ~Better(x.file, library[e])
        BY <3>2, <3>3, NotBetter
      <3> QED
        BY <3>2, <3>4
    <2> QED
      BY <2>2, <2>3
  <1> QED
    BY <1>1, TypeCorrect, PTL

\* Any pack, with any library: an import leaves no episode the release was
\* grabbed for without an acceptable file (Evaluate, intendedEpisodes).
THEOREM PacksComplete == Spec => []ImportSatisfies
  <1>1. TypeOK => ImportSatisfies
    <2> SUFFICES ASSUME TypeOK, NEW o \in Observations, Decision(o) = "import",
                        NEW e \in Intended(o)
                 PROVE  After(o)[e] # NoFile /\ Acceptable(After(o)[e])
      BY DEF ImportSatisfies
    <2>1. OthersSatisfied(o) /\ Importable(o)
      BY EvaluateRests
    <2>2. e \in Episodes
      BY PolicyAssumption DEF Intended, Previewed
    <2>3. CASE e \notin Previewed(o)
      <3>1. After(o)[e] = library[e]
        BY <2>2, <2>3 DEF After, Previewed
      <3> QED
        BY <2>1, <2>3, <3>1 DEF OthersSatisfied, Has
    <2>4. CASE e \in Previewed(o)
      <3> DEFINE x == CHOOSE z \in o.files : e \in z.episodes
      <3>1. \E z \in o.files : e \in z.episodes
        BY <2>4 DEF Previewed
      <3>2. x \in o.files /\ e \in x.episodes /\ After(o)[e] = x.file
        BY <2>2, <3>1 DEF After
      <3>3. x.file \in File /\ x.file # NoFile
        BY <3>2, PolicyAssumption
      <3>4. Acceptable(x.file)
        <4>1. CASE ~Has(e)
          BY <2>1, <3>2, <4>1 DEF Importable
        <4>2. CASE Has(e)
          <5>1. Upgrade(x.file, library[e])
            BY <2>1, <3>2, <4>2 DEF Importable
          <5> QED
            BY <5>1, Zenon DEF Upgrade, Compare, Permitted, Acceptable
        <4> QED
          BY <4>1, <4>2
      <3> QED
        BY <3>2, <3>3, <3>4
    <2> QED
      BY <2>3, <2>4
  <1> QED
    BY <1>1, TypeCorrect, PTL
=============================================================================
