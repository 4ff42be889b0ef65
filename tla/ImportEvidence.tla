---------------------------- MODULE ImportEvidence ----------------------------
(***************************************************************************)
(* How verify of internal/service establishes what one transmitted import   *)
(* did: it reads the command, the download's history and each episode's     *)
(* current file, one request after another, while Sonarr goes on importing  *)
(* and other programs and operators change the library.                     *)
(*                                                                         *)
(* Remediator abstracts all of this to an answer of verify; here the answer *)
(* is computed from the reads.  The deadline that relabels a pending        *)
(* attempt is left to Remediator.  Time counts ticks of 1/TicksPerSecond s. *)
(***************************************************************************)
EXTENDS Naturals, FiniteSets

CONSTANTS
  Episodes,        \* the episodes of the decision
  Intended,        \* those a file is imported for; the others keep theirs
  TicksPerSecond,
  Started,         \* when the attempt was recorded, before it was sent
  Others,          \* bound on what others do to the library and the profiles
  MaxTime          \* bound on the clock

ASSUME ImportEvidenceAssumption ==
  /\ Intended \subseteq Episodes /\ Intended # {}
  /\ TicksPerSecond \in Nat \ {0} /\ Started \in Nat /\ MaxTime \in Nat
  /\ Others \in Nat
  /\ Started > TicksPerSecond

\* A file is known by its ID; two files may have been given the same path.
Files == {"none", "before", "ours", "other"}
Paths == {"p", "q"}
Event == [episode : Episodes, dropped : {"ours", "theirs"}, path : Paths, date : Nat]
CommandStates == {"running", "completed", "failed"}

VARIABLES
  now,        \* the clock
  file,       \* the current file of each episode
  path,       \* and its path
  acceptable, \* the files that the current profiles accept
  events,     \* the import events of the download's history
  command,    \* our command in Sonarr
  others,     \* what other programs may still do
  delivered,  \* history: when our command imported each episode, 0 if it has not
  ack,        \* Attempt.Ack: the command's ID is known
  outcome,    \* Attempt.Outcome
  evidence,   \* Attempt.VerifiedEpisodes
  pc,         \* what verify reads next
  scan,       \* now of the cycle that verifies
  known,      \* the command state read
  history,    \* the events read
  rest,       \* the episodes not yet looked at
  complete    \* those found to be as intended

world == <<now, file, path, acceptable, events, command, others, delivered>>
reading == <<pc, scan, known, history, rest, complete>>
vars == <<world, ack, outcome, evidence, reading>>

TypeOK ==
  /\ now \in Nat /\ scan \in Nat
  /\ file \in [Episodes -> Files] /\ path \in [Episodes -> Paths]
  /\ acceptable \subseteq Files \ {"none"}
  /\ events \subseteq Event /\ history \subseteq Event
  /\ command \in CommandStates /\ known \in CommandStates
  /\ others \in Nat
  /\ delivered \in [Episodes -> Nat]
  /\ ack \in BOOLEAN
  /\ outcome \in {"pending", "partial", "verified", "failed"}
  /\ evidence \subseteq Intended
  /\ pc \in {"wait", "command", "history", "episodes"}
  /\ rest \subseteq Episodes /\ complete \subseteq Episodes

\* The profiles accepted what was sent and what was to stay.  An earlier import
\* of the same path, undone since, may be in the history.
Init ==
  /\ now = Started
  /\ file = [e \in Episodes |-> "before"] /\ path = [e \in Episodes |-> "q"]
  /\ acceptable = Files \ {"none"}
  /\ events \in SUBSET {[episode |-> e, dropped |-> "ours", path |-> "p", date |-> 1] :
                          e \in Intended}
  /\ command = "running" /\ others = Others
  /\ delivered = [e \in Episodes |-> 0]
  /\ ack \in BOOLEAN /\ outcome = "pending" /\ evidence = {}
  /\ pc = "wait" /\ scan = 0 /\ known = "running" /\ history = {}
  /\ rest = {} /\ complete = {}

----------------------------------------------------------------------------
(* Sonarr and the library. *)

Truncated(t) == t - (t % TicksPerSecond)
\* Sonarr may leave out the fraction of a second.
Dates(t) == {t, Truncated(t)}

Recorded(e, dropped, to, date) ==
  events' = events \cup {[episode |-> e, dropped |-> dropped, path |-> to, date |-> date]}

\* The file and its event appear together, while the command runs.
Imports(e) ==
  /\ command = "running" /\ delivered[e] = 0
  /\ file' = [file EXCEPT ![e] = "ours"] /\ path' = [path EXCEPT ![e] = "p"]
  /\ \E date \in Dates(now) : Recorded(e, "ours", "p", date)
  /\ delivered' = [delivered EXCEPT ![e] = now]
  /\ UNCHANGED <<now, acceptable, command, others>>

CommandEnds(state) ==
  /\ command = "running" /\ command' = state
  /\ state = "completed" => \A e \in Intended : delivered[e] # 0
  /\ UNCHANGED <<now, file, path, acceptable, events, others, delivered>>

\* Another download of the same name is imported, or the file is deleted.
Replaced(e, to) ==
  /\ others > 0 /\ others' = others - 1
  /\ file' = [file EXCEPT ![e] = "other"] /\ path' = [path EXCEPT ![e] = to]
  /\ Recorded(e, "theirs", to, now)
  /\ UNCHANGED <<now, acceptable, command, delivered>>
Deleted(e) ==
  /\ others > 0 /\ others' = others - 1
  /\ file[e] # "none" /\ file' = [file EXCEPT ![e] = "none"]
  /\ UNCHANGED <<now, path, acceptable, events, command, delivered>>

\* A profile, or the formats of a file, are changed: a file is no longer
\* acceptable, or is again.
Reprofiled(f) ==
  /\ others > 0 /\ others' = others - 1
  /\ acceptable' = IF f \in acceptable THEN acceptable \ {f} ELSE acceptable \cup {f}
  /\ UNCHANGED <<now, file, path, events, command, delivered>>

Tick ==
  /\ now < MaxTime /\ now' = now + 1
  /\ UNCHANGED <<file, path, acceptable, events, command, others, delivered>>

WorldChanges ==
  /\ \/ \E e \in Intended : Imports(e)
     \/ \E state \in {"completed", "failed"} : CommandEnds(state)
     \/ \E e \in Episodes : (\E to \in Paths : Replaced(e, to)) \/ Deleted(e)
     \/ \E f \in Files \ {"none"} : Reprofiled(f)
     \/ Tick
  /\ UNCHANGED <<ack, outcome, evidence, reading>>

----------------------------------------------------------------------------
(* verify. *)

Pending == outcome \in {"pending", "partial"}

\* A cycle whose queue scan succeeded verifies what is still pending.
Cycle ==
  /\ pc = "wait" /\ Pending
  /\ scan' = now
  /\ pc' = IF ack THEN "command" ELSE "history"
  /\ known' = "running" /\ history' = {} /\ rest' = Episodes /\ complete' = {}
  /\ UNCHANGED <<world, ack, outcome, evidence>>

ReadCommand ==
  /\ pc = "command" /\ pc' = "history"
  /\ known' = command
  /\ UNCHANGED <<world, ack, outcome, evidence, scan, history, rest, complete>>

ReadHistory ==
  /\ pc = "history" /\ pc' = "episodes"
  /\ history' = events
  /\ UNCHANGED <<world, ack, outcome, evidence, scan, known, rest, complete>>

EventAfterStart(date) == Started <= date /\ date <= scan
EventWithinAttempt(date) ==
  /\ date <= scan
  /\ (IF date % TicksPerSecond = 0 THEN Truncated(Started) ELSE Started) <= date

CorrelatedByEpisode(h, e) == h.episode = e /\ EventWithinAttempt(h.date)
Correlated(h, e) ==
  h.episode = e /\ h.dropped = "ours" /\ EventWithinAttempt(h.date)

\* An episode is as intended when its current file is acceptable and the one the
\* event names, or, where nothing was to be imported, the one it had.
AsIntended(e) ==
  /\ file[e] \in acceptable
  /\ IF e \in Intended
     THEN file[e] # "before" /\ \E h \in history : Correlated(h, e) /\ h.path = path[e]
     ELSE file[e] = "before"

\* The event of an episode is evidence before its current file is read.
Imported(e) ==
  evidence' = IF e \in Intended /\ \E h \in history : Correlated(h, e)
              THEN evidence \cup {e} ELSE evidence

\* Every episode looked at: the outcome.
KnownFailureAlone(found) == known = "failed"
KnownFailure(found) == known = "failed" /\ found = {}

Outcome(found, intended) ==
  CASE intended = Episodes -> "verified"
    [] intended # Episodes /\ KnownFailure(found) -> "failed"
    [] intended # Episodes /\ ~KnownFailure(found) ->
         IF found # {} THEN "partial" ELSE outcome

LookAt(e) ==
  /\ pc = "episodes" /\ e \in rest
  /\ Imported(e)
  /\ rest' = rest \ {e}
  /\ complete' = IF AsIntended(e) THEN complete \cup {e} ELSE complete
  /\ IF rest' = {}
     THEN outcome' = Outcome(evidence', complete') /\ pc' = "wait"
     ELSE UNCHANGED <<outcome, pc>>
  /\ UNCHANGED <<world, ack, scan, known, history>>

\* A read fails: of the command or the history, or of an episode, whose event
\* has already been taken as evidence.  What is established stays.
ReadFails ==
  /\ \/ pc \in {"command", "history"} /\ UNCHANGED evidence
     \/ pc = "episodes" /\ \E e \in rest : Imported(e)
  /\ outcome' = IF evidence' # {} THEN "partial" ELSE outcome
  /\ pc' = "wait"
  /\ UNCHANGED <<world, ack, scan, known, history, rest, complete>>

Verify == Cycle \/ ReadCommand \/ ReadHistory \/ (\E e \in Episodes : LookAt(e))

Next == WorldChanges \/ Verify \/ ReadFails

Spec == Init /\ [][Next]_vars

\* Cycles go on, and every read is answered or fails.
FairSpec == Spec /\ WF_vars(Verify \/ ReadFails)

----------------------------------------------------------------------------
(* Properties. *)

Delivered == {e \in Episodes : delivered[e] # 0}

\* What is kept for good as evidence was imported by this attempt, and so was
\* all that a verified import was sent for: no event of another import, no
\* earlier event of the same path and no coincidence of reads passes for it.
EvidenceIsTrue ==
  /\ evidence \subseteq Delivered
  /\ outcome = "verified" => Intended \subseteq Delivered

\* A known failure, after which the same import may be sent again, had
\* imported nothing when the scan that found it began.
FailedBeforeScan ==
  outcome = "failed" => \A e \in Intended : delivered[e] = 0 \/ delivered[e] >= scan

\* Reads go on failing.
Unreadable == []<><<ReadFails>>_vars

\* The command has done what it was sent for, its files are there, and the
\* profiles accept them.
AsSent ==
  /\ \A e \in Episodes : file[e] \in acceptable
  /\ command = "completed"
  /\ \A e \in Intended : file[e] = "ours"
  /\ \A e \in Episodes \ Intended : file[e] = "before"

\* An import that completed, and whose files stay and stay acceptable, is found
\* out to be complete, though its answer was lost, though Sonarr leaves out
\* fractions of seconds, and though reads fail for some time.  One whose file
\* the current profile does not accept stays partial.
Recognised == Unreadable \/ (<>[]AsSent => <>(outcome = "verified"))
=============================================================================
