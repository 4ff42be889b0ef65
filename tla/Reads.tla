-------------------------------- MODULE Reads --------------------------------
(***************************************************************************)
(* What a mutation rests on: the reads of supplementary resources (series,  *)
(* profiles, episodes, files, settings), which internal/sonarr caches for   *)
(* one cycle with their errors, and the reads that are always made anew     *)
(* (queue rows, previews, history).  Sonarr may change any of them between  *)
(* any two requests; a mutation of its own changes what it is about.        *)
(*                                                                         *)
(* A cycle observes every candidate, verifies earlier attempts, plans, and  *)
(* for each plan starts a new cache, observes again and sends the mutation  *)
(* only when nothing it decided on has changed.                             *)
(***************************************************************************)
EXTENDS Naturals, FiniteSets

CONSTANTS
  Resources,      \* what can be read
  Cached,         \* those that resource and Media cache
  Values,         \* what they may say
  Plans,          \* the actions a cycle may plan
  Uses,           \* the resources the decision of each is made from
  Verifications   \* bound on the reads made to verify attempts

ASSUME ReadsAssumption ==
  /\ Cached \subseteq Resources
  /\ Uses \in [Plans -> SUBSET Resources]
  /\ Verifications \in Nat

Missing == "missing"  \* not in the cache
Failed == "failed"    \* the error of a read

VARIABLES
  sonarr,    \* what each resource says in Sonarr
  cache,     \* Client.cache
  pc,        \* "idle", "observe", "verify", "execute", "check" or "sent"
  toRead,    \* the resources this observation has still to read
  seen,      \* what it has read
  verifying, \* reads left to verify attempts with
  planned,   \* the plans not yet executed
  basis,     \* what they were decided on
  checking,  \* the plan whose fresh checks run
  failure,   \* Status.ReadFailure
  since      \* history: the values each resource had since these checks began

vars == <<sonarr, cache, pc, toRead, seen, verifying, planned, basis, checking,
          failure, since>>

Observed == UNION {Uses[p] : p \in Plans}
Nothing == [r \in Resources |-> Missing]

TypeOK ==
  /\ sonarr \in [Resources -> Values]
  /\ cache \in [Resources -> Values \cup {Missing, Failed}]
  /\ pc \in {"idle", "observe", "verify", "execute", "check", "sent"}
  /\ toRead \subseteq Resources
  /\ seen \in [Resources -> Values \cup {Missing}]
  /\ basis \in [Resources -> Values \cup {Missing}]
  /\ verifying \in 0..Verifications
  /\ planned \subseteq Plans /\ checking \subseteq Plans
  /\ failure \in BOOLEAN
  /\ since \in [Resources -> SUBSET Values]

Init ==
  /\ sonarr \in [Resources -> Values]
  /\ cache = Nothing /\ pc = "idle" /\ toRead = {} /\ seen = Nothing
  /\ verifying = 0 /\ planned = {} /\ basis = Nothing /\ checking = {}
  /\ failure = FALSE
  /\ since = [r \in Resources |-> {}]

----------------------------------------------------------------------------
(* The client. *)

BeginCycle == cache' = Nothing

\* resource and Media: what a read of r answers; an error is cached too.
Caches(r, answer) ==
  cache' = IF r \in Cached THEN [cache EXCEPT ![r] = answer] ELSE cache

Read(r, answer) ==
  \/ /\ cache[r] # Missing /\ answer = cache[r]
     /\ UNCHANGED cache
  \/ /\ cache[r] = Missing /\ answer \in {sonarr[r], Failed}
     /\ Caches(r, answer)

\* A read that failed shows nothing.
IsError(answer) == answer = Failed

----------------------------------------------------------------------------
(* A cycle. *)

Start ==
  /\ pc = "idle" /\ pc' = "observe"
  /\ BeginCycle
  /\ toRead' = Observed /\ seen' = Nothing /\ failure' = FALSE
  /\ verifying' = Verifications
  /\ UNCHANGED <<sonarr, planned, basis, checking, since>>

\* observe, while the queue scan of a cycle is turned into candidates: a
\* failed read ends the cycle.
Observe(r, answer) ==
  /\ pc = "observe" /\ r \in toRead
  /\ Read(r, answer)
  /\ IF IsError(answer)
     THEN pc' = "idle" /\ toRead' = {} /\ UNCHANGED seen
     ELSE /\ toRead' = toRead \ {r} /\ seen' = [seen EXCEPT ![r] = answer]
          /\ pc' = IF toRead' = {} THEN "verify" ELSE pc
  /\ UNCHANGED <<sonarr, verifying, planned, basis, checking, failure, since>>

\* verify reads through the same cache; a failed read leaves its attempt for
\* a later cycle and forbids the mutations of this one.
Verify(r, answer) ==
  /\ pc = "verify" /\ verifying > 0
  /\ Read(r, answer)
  /\ verifying' = verifying - 1
  /\ failure' = (failure \/ IsError(answer))
  /\ UNCHANGED <<sonarr, pc, toRead, seen, planned, basis, checking, since>>

Plan(chosen) ==
  /\ pc = "verify" /\ pc' = "execute"
  /\ failure => chosen = {}
  /\ planned' = chosen /\ basis' = seen
  /\ verifying' = 0
  /\ UNCHANGED <<sonarr, cache, toRead, seen, checking, failure, since>>

\* execute and searchDecision begin with a new cache.
FreshChecksReusingReads(p) ==
  /\ toRead' = Uses[p] /\ seen' = Nothing /\ UNCHANGED cache
FreshChecks(p) ==
  /\ toRead' = Uses[p] /\ seen' = Nothing /\ BeginCycle

NotRefused == TRUE
MayExecute == ~failure

Execute(p) ==
  /\ pc = "execute" /\ p \in planned
  /\ MayExecute
  /\ pc' = "check" /\ checking' = {p} /\ planned' = planned \ {p}
  /\ FreshChecks(p)
  /\ since' = [r \in Resources |-> {sonarr[r]}]
  /\ UNCHANGED <<sonarr, verifying, basis, failure>>

\* The reads of the fresh checks, one after another.
Check(r, answer) ==
  /\ pc = "check" /\ r \in toRead
  /\ Read(r, answer)
  /\ IF IsError(answer)
     THEN /\ failure' = TRUE /\ pc' = "execute"
          /\ toRead' = {} /\ checking' = {} /\ UNCHANGED seen
     ELSE /\ toRead' = toRead \ {r} /\ seen' = [seen EXCEPT ![r] = answer]
          /\ UNCHANGED <<failure, pc, checking>>
  /\ UNCHANGED <<sonarr, verifying, planned, basis, since>>

Unchanged(p) == \A r \in Uses[p] : seen[r] = basis[r]

\* The decision has changed since it was planned.
Refuse(p) ==
  /\ pc = "check" /\ toRead = {} /\ checking = {p} /\ ~Unchanged(p)
  /\ pc' = "execute" /\ checking' = {}
  /\ UNCHANGED <<sonarr, cache, toRead, seen, verifying, planned, basis, failure, since>>

\* The mutation reaches Sonarr.
Send(p) ==
  /\ pc = "check" /\ toRead = {} /\ checking = {p} /\ Unchanged(p)
  /\ pc' = "sent"
  /\ UNCHANGED <<sonarr, cache, toRead, seen, verifying, planned, basis, checking, failure, since>>

\* What it does to the resources it was decided on, and its answer.
Effect(p, after) ==
  /\ pc = "sent" /\ pc' = "execute"
  /\ checking = {p} /\ checking' = {}
  /\ sonarr' = [r \in Resources |-> IF r \in Uses[p] THEN after[r] ELSE sonarr[r]]
  /\ UNCHANGED <<cache, toRead, seen, verifying, planned, basis, failure, since>>

EndCycle ==
  /\ pc = "execute" /\ (planned = {} \/ ~MayExecute)
  /\ pc' = "idle" /\ planned' = {} /\ basis' = Nothing /\ seen' = Nothing
  /\ UNCHANGED <<sonarr, cache, toRead, verifying, checking, failure, since>>

\* Operators and other programs change Sonarr.
Change(r, value) ==
  /\ pc # "idle" /\ sonarr[r] # value
  /\ sonarr' = [sonarr EXCEPT ![r] = value]
  /\ since' = [since EXCEPT ![r] = @ \cup {value}]
  /\ UNCHANGED <<cache, pc, toRead, seen, verifying, planned, basis, checking, failure>>

Next ==
  \/ Start
  \/ \E r \in Resources, answer \in Values \cup {Failed} :
        Observe(r, answer) \/ Verify(r, answer) \/ Check(r, answer)
  \/ \E chosen \in SUBSET Plans : Plan(chosen)
  \/ \E p \in Plans : Execute(p) \/ Refuse(p) \/ Send(p)
  \/ \E p \in Plans, after \in [Resources -> Values] : Effect(p, after)
  \/ EndCycle
  \/ \E r \in Resources, value \in Values : Change(r, value)

Spec == Init /\ [][Next]_vars

----------------------------------------------------------------------------
(* Properties. *)

\* Whatever a mutation was decided on was so at some moment after its own
\* fresh checks began: neither the scan nor the checks of an earlier mutation
\* of the cycle, whose effects they predate, vouch for it (execute).
DecidedOnFreshReads ==
  pc = "sent" => \A p \in checking : \A r \in Uses[p] : basis[r] \in since[r]

\* Once a required read has failed, in verification or in fresh checks, the
\* cycle sends nothing more.
SilentAfterFailure == pc = "sent" => ~failure
=============================================================================
