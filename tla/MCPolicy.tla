------------------------------ MODULE MCPolicy ------------------------------
(***************************************************************************)
(* Policy over a profile of four qualities, two of them in one group and   *)
(* one not allowed.                                                        *)
(***************************************************************************)
EXTENDS Policy, FiniteSets

CONSTANTS e1, e2

Made(quality, real, version, score, known) ==
  [quality |-> quality, revision |-> [real |-> real, version |-> version],
   score |-> score, known |-> known]

\* Every combination, for the history of one episode.
AllFiles ==
  {Made(q, r[1], r[2], s, TRUE) : q \in 0..3, r \in {<<0, 1>>, <<0, 2>>, <<1, 1>>}, s \in 0..2}

\* A few telling ones, for packs.
SomeFiles ==
  {Made(1, 0, 1, 1, TRUE), Made(1, 0, 2, 1, TRUE), Made(1, 0, 1, 2, TRUE), Made(3, 0, 1, 1, TRUE),
   Made(3, 0, 1, 0, TRUE), Made(0, 0, 1, 2, TRUE), Made(2, 0, 1, 1, FALSE)}

Propers == {"preferAndUpgrade", "doNotUpgrade", "doNotPrefer"}
Profile(propers, upgrade, cutoff, cleanup) ==
  [order |-> [q \in 0..3 |-> IF q = 3 THEN 2 ELSE IF q = 0 THEN 0 ELSE 1],
   allowed |-> {1, 2, 3}, cutoff |-> cutoff, minScore |-> 1, cutoffScore |-> 2, minUpgrade |-> 1,
   upgradeAllowed |-> upgrade, propers |-> propers, recovery |-> TRUE, cleanup |-> cleanup]
Profiles == {Profile(p, u, c, TRUE) : p \in Propers, u \in BOOLEAN, c \in 1..2}
PackProfiles == {Profile("preferAndUpgrade", TRUE, 2, TRUE), Profile("preferAndUpgrade", FALSE, 2, TRUE),
                 Profile("doNotPrefer", TRUE, 2, FALSE)}

Classes == {"none", "redundant", "unusable", "other"}
Previews == [file : File, episodes : SUBSET Episodes \ {{}}, rejections : Classes]
Seen(files, rows, grabbed, defect, warning) ==
  [files |-> files, rows |-> rows, grabbed |-> grabbed, warning |-> warning,
   eligible |-> defect # "ineligible", sound |-> defect # "unsound", scoped |-> defect # "unscoped",
   unidentified |-> defect = "unidentified",
   busy |-> IF defect = "busy" THEN {e1} ELSE {}]

\* One file of one episode.
Singles == {Seen({x}, {e1}, {}, "none", FALSE) : x \in [file : File, episodes : {{e1}}, rejections : Classes]}

\* Packs of one or two files, some of whose episodes may not be previewed.
Disjoint(xs) == \A x, y \in xs : x = y \/ x.episodes \cap y.episodes = {}
Parts == {{x} : x \in Previews} \cup
         {{x, y} : x \in {p \in Previews : p.episodes = {e1} /\ p.rejections # "other"},
                   y \in {p \in Previews : p.episodes = {e2} /\ p.rejections # "other"}}
Packs ==
  {Seen(xs, {e1}, {e2}, d, FALSE) :
     xs \in Parts, d \in {"none", "unscoped"}}
  \cup {Seen(xs, {e1}, {}, d, w) :
          xs \in {{x} : x \in Previews}, w \in BOOLEAN,
          d \in {"none", "ineligible", "unsound", "unscoped", "unidentified", "busy"}}
=============================================================================
