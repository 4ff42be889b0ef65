-------------------------------- MODULE Health --------------------------------
(***************************************************************************)
(* What healthcheck says of the service: it reads the status that the last   *)
(* save left in the store, and judges by it whether a process it cannot see  *)
(* is alive and still reads all it has to (internal/service Run, Cycle,      *)
(* failed; internal/state UpdateStatus, Healthy).                           *)
(*                                                                         *)
(* Times of the status are kept as ages, which stop growing once they are    *)
(* too old.  A cycle is over within CycleTime and an overdue one is begun at *)
(* once; time passes meanwhile, so that what is saved is already old.       *)
(***************************************************************************)
EXTENDS Naturals

CONSTANTS
  Downloads,    \* eligible downloads, for each of which more has to be read
  Selections,   \* what a manual execution may select
  Poll,         \* poll_interval
  CycleTime     \* the deadline of a cycle

ASSUME HealthAssumption ==
  /\ Poll \in Nat \ {0} /\ CycleTime \in Nat
  /\ Selections \subseteq SUBSET Downloads

VARIABLES
  sonarr,     \* whether Sonarr answers
  broken,     \* the downloads for which a required read fails
  db,         \* the committed Status
  status,     \* Status in memory
  pc,         \* "off", "wait", "queue", "observe", "verify", "end" or "preview"
  selected,   \* the downloads of this cycle
  automatic,  \* whether the timer started it
  begun,      \* time since the cycle or preview began
  next,       \* time to the next automatic cycle
  missed,     \* history: reads have failed since the last complete scan
  failed,     \* history: the same when the status was last saved
  scanned,    \* history: time since the queue and all selected reads succeeded
  stopped,    \* history: the last process ended in order
  calm,       \* history: no read or save of this process failed since a cycle
  busy        \* history: time spent in cycles and previews since the beginning
              \* of the cycle whose heartbeat was last saved

vars == <<sonarr, broken, db, status, pc, selected, automatic, begun, next,
          missed, failed, scanned, stopped, calm, busy>>
world == <<sonarr, broken>>
task == <<selected, automatic, begun>>
history == <<missed, failed, scanned, stopped, calm, busy>>

Old == 3 * Poll + 1
Status == [ready : BOOLEAN, failure : BOOLEAN, connected : BOOLEAN,
           heartbeat : 0..Old, scan : 0..Old]

TypeOK ==
  /\ sonarr \in BOOLEAN /\ broken \subseteq Downloads
  /\ db \in Status /\ status \in Status
  /\ pc \in {"off", "wait", "queue", "observe", "verify", "end", "preview"}
  /\ selected \subseteq Downloads /\ automatic \in BOOLEAN
  /\ begun \in 0..CycleTime /\ next \in 0..Poll
  /\ missed \in BOOLEAN /\ failed \in BOOLEAN /\ scanned \in 0..Old
  /\ stopped \in BOOLEAN /\ calm \in BOOLEAN /\ busy \in 0..Old

NewStatus ==
  [ready |-> FALSE, failure |-> FALSE, connected |-> FALSE, heartbeat |-> Old, scan |-> Old]

Init ==
  /\ sonarr \in BOOLEAN /\ broken = {}
  /\ db = NewStatus /\ status = NewStatus
  /\ pc = "off" /\ selected = {} /\ automatic = TRUE /\ begun = 0 /\ next = 0
  /\ missed = FALSE /\ failed = FALSE /\ scanned = Old /\ stopped = FALSE /\ calm = FALSE
  /\ busy = 0

\* Healthy, of the committed status.
FreshForPoll(age) == age <= Poll
Fresh(age) == age <= 3 * Poll
Healthy ==
  /\ db.ready /\ ~db.failure /\ db.connected
  /\ Fresh(db.heartbeat) /\ Fresh(db.scan)

----------------------------------------------------------------------------
(* The process. *)

\* Run: the status of the last process stays, but for Ready.
Start ==
  /\ pc = "off" /\ pc' = "wait"
  /\ status' = [db EXCEPT !.ready = TRUE] /\ db' = status'
  /\ next' = 0 /\ stopped' = FALSE /\ calm' = FALSE /\ busy' = 0 /\ missed' = failed
  /\ UNCHANGED <<world, task, failed, scanned>>

\* The signal, or an error Run returns: the last save may fail as well.
Ends(s) ==
  /\ pc' = "off" /\ calm' = FALSE /\ UNCHANGED busy
  /\ status' = [s EXCEPT !.ready = FALSE, !.heartbeat = 0]
  /\ \/ db' = status' /\ stopped' = TRUE /\ failed' = missed'
     \/ UNCHANGED <<db, stopped, failed>>

\* A signal within a cycle first fails its reads, like a Sonarr that is gone.
Stop ==
  /\ pc = "wait"
  /\ UNCHANGED <<world, task, next, missed, scanned>>
  /\ Ends(status)

Crash ==
  /\ pc # "off" /\ pc' = "off" /\ calm' = FALSE
  /\ UNCHANGED <<world, db, status, task, next, missed, failed, scanned, stopped, busy>>

Begin(where, downloads, bytimer) ==
  /\ pc = "wait" /\ pc' = where
  /\ selected' = downloads /\ automatic' = bytimer /\ begun' = 0
  /\ UNCHANGED <<world, db, status, next, history>>

Cycle == next = 0 /\ Begin("queue", Downloads, TRUE)
Execution(downloads) == next > 0 /\ Begin("queue", downloads, FALSE)
\* A preview reads and decides on a copy, which nobody saves.
Preview == next > 0 /\ Begin("preview", {}, FALSE)
EndPreview ==
  /\ pc = "preview" /\ pc' = "wait"
  /\ UNCHANGED <<world, db, status, task, next, history>>

----------------------------------------------------------------------------
(* A cycle. *)

\* UpdateStatus dates the heartbeat with the beginning of the cycle.
Beats(s) == [s EXCEPT !.heartbeat = begun]

\* The save that ends a cycle.  When it fails, an automatic cycle ends the
\* process, while a manual one reports it.
CycleSaved(s) ==
  \/ /\ status' = s /\ db' = s /\ pc' = "wait"
     /\ next' = IF automatic THEN Poll ELSE next
     /\ failed' = missed' /\ calm' = ~missed' /\ busy' = begun /\ UNCHANGED stopped
  \/ /\ automatic /\ UNCHANGED next
     /\ Ends(s)
  \/ /\ ~automatic /\ status' = s /\ pc' = "wait" /\ calm' = FALSE
     /\ UNCHANGED <<db, next, failed, stopped, busy>>

\* failed.
Deferred == missed' = TRUE /\ CycleSaved(Beats([status EXCEPT !.failure = TRUE, !.connected = FALSE]))

QueueFails ==
  /\ pc = "queue" /\ ~sonarr
  /\ Deferred
  /\ UNCHANGED <<world, task, scanned>>

StillFailed(s) == [s EXCEPT !.connected = TRUE]
Reconnected(s) == [s EXCEPT !.connected = TRUE, !.failure = FALSE]

ReadQueue ==
  /\ pc = "queue" /\ sonarr /\ pc' = "observe"
  /\ status' = Reconnected(status)
  /\ UNCHANGED <<world, db, task, next, history>>

\* The first download that cannot be read ends the cycle.
ObserveFails(d) ==
  /\ pc = "observe" /\ d \in selected \cap broken
  /\ Deferred
  /\ UNCHANGED <<world, task, scanned>>

Observe ==
  /\ pc = "observe" /\ selected \cap broken = {} /\ pc' = "verify"
  /\ status' = [status EXCEPT !.scan = begun]
  /\ scanned' = begun /\ missed' = FALSE
  /\ UNCHANGED <<world, db, task, next, failed, stopped, calm, busy>>

\* Reads to verify an attempt, or before a mutation, fail; without such a
\* failure a mutation saves the status as it is.
FailureForgotten == UNCHANGED status
FailureRecorded == status' = [status EXCEPT !.failure = TRUE]

VerifyFails ==
  /\ pc = "verify" /\ ~sonarr /\ pc' = "end"
  /\ FailureRecorded /\ missed' = TRUE
  /\ UNCHANGED <<world, db, task, next, failed, scanned, stopped, calm, busy>>

Mutate ==
  /\ pc = "verify" /\ sonarr
  /\ db' = status /\ failed' = missed
  /\ UNCHANGED <<world, status, pc, task, next, missed, scanned, stopped, calm, busy>>

Verify ==
  /\ pc = "verify" /\ sonarr /\ pc' = "end"
  /\ UNCHANGED <<world, db, status, task, next, history>>

End ==
  /\ pc = "end"
  /\ UNCHANGED <<world, task, missed, scanned>>
  /\ CycleSaved(Beats(status))

----------------------------------------------------------------------------
(* Time, and Sonarr. *)

Older(age) == IF age < Old THEN age + 1 ELSE age
Aged(s) == [s EXCEPT !.heartbeat = Older(@), !.scan = Older(@)]

InCycle == pc \in {"queue", "observe", "verify", "end", "preview"}

WithinDeadline == InCycle => begun < CycleTime

Tick ==
  /\ pc = "wait" => next > 0
  /\ WithinDeadline
  /\ begun' = IF InCycle THEN begun + 1 ELSE begun
  /\ next' = IF pc # "off" /\ next > 0 THEN next - 1 ELSE next
  /\ db' = Aged(db) /\ status' = Aged(status)
  /\ scanned' = Older(scanned)
  /\ busy' = IF InCycle THEN Older(busy) ELSE busy
  /\ UNCHANGED <<world, pc, selected, automatic, missed, failed, stopped, calm>>

Answers(answers) ==
  /\ sonarr' = answers /\ sonarr # answers
  /\ UNCHANGED <<broken, db, status, pc, task, next, history>>

Breaks(downloads) ==
  /\ broken' = downloads /\ broken # downloads
  /\ UNCHANGED <<sonarr, db, status, pc, task, next, history>>

CycleStep ==
  \/ Cycle \/ EndPreview \/ QueueFails \/ ReadQueue \/ Observe
  \/ \E d \in Downloads : ObserveFails(d)
  \/ VerifyFails \/ Verify \/ End

Next ==
  \/ Start \/ Stop \/ Crash \/ CycleStep \/ Mutate \/ Preview \/ Tick
  \/ \E downloads \in Selections : Execution(downloads)
  \/ \E answers \in BOOLEAN : Answers(answers)
  \/ \E downloads \in SUBSET Downloads : Breaks(downloads)

Spec == Init /\ [][Next]_vars

\* Time passes, also in a loop of restarts; an overdue cycle is begun and goes on.
FairSpec == Spec /\ SF_vars(Tick) /\ WF_vars(CycleStep)

----------------------------------------------------------------------------
(* Properties. *)

\* A service is healthy when this process or one before it has scanned within
\* three polling intervals, the last cycle that could be saved found all it had
\* to read, and it has not been stopped; a preview does not count as a scan
\* (TECH.md: "local readiness, a heartbeat and complete scan no older than three
\* poll intervals, and no unresolved required-read/state failure").  A failure
\* is resolved by the next scan, even by a manual one of other downloads.
HealthyTruthful ==
  Healthy => scanned <= 3 * Poll /\ ~stopped /\ ~failed

\* Cycles, manual ones and previews have not taken more than two polling
\* intervals since the cycle of the last heartbeat began.
Prompt == busy <= 2 * Poll

\* While no read and no save fails and the service is prompt there is no alarm,
\* although the heartbeat of a cycle is old when it is saved, and a preview or a
\* manual cycle can delay the next one.
NoFalseAlarm == calm /\ Prompt => Healthy

\* The service runs and nothing fails any more, for good.
Works == pc # "off" /\ sonarr /\ broken = {}

\* Health comes back by itself, and for good if the service is prompt
\* (PRODUCT.md, 39: outages degrade health "without causing the service to reset
\* state").
RecoveryNoticed == <>[](Works /\ Prompt) => <>[]Healthy
=============================================================================
