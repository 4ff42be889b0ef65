# sonarr-remediator in TLA+

sonarr-remediator watches Sonarr's download queue and, after a waiting time,
acts on completed downloads that Sonarr cannot import by itself: it imports
them, removes them as redundant, or removes them as unusable and searches for a
replacement. An action in Sonarr cannot be undone, and its answer can be lost.
The service therefore records every intent before it calls Sonarr and verifies
the outcome from what Sonarr shows afterwards. These modules specify that
protocol and the abstract log it implements, the waits, the reads it rests on, the
hand-over of manual requests, the life of the store and its processes, what
healthcheck says, and the decisions of the policy. TLC checks them on small instances;
TLAPS proves every safety property of the runs for all values of the constants.

`PROJECT.json` lists components, runs, hazards, theorems and, under `map`, the
source lines each definition stands for.

    tlc -workers 2 -config core_import.cfg MCRefines
    tlapm RemediatorProofs.tla

## 1. Inventory

| Part | State | Operations | What makes it correct |
|---|---|---|---|
| Observer loop, `service.go` | clocks of each issue, the plan of the cycle, `Status.ReadFailure` | `Run`, `Cycle`, `failed`, `expirePending`, `gate`, `reserve`, `execute`, `response` | an unresolved mutation is never replayed; intents are durable first; budgets, cooldowns, retries; nothing in dry-run; every wait ends |
| Verification and search, `verify.go` | outcomes and evidence of attempts, continuations of removals | `verify`, `searchDecision`, `search` | outcomes are final; one search at most for one verified removal; partial evidence survives |
| Manual requests, `manual.go` | receipts, admission token, request and result channels | `Request`, `runRequest`, `accept`, `finishTrigger` | one execution per identifier; receipts end; exit codes tell the truth |
| State store, `state.go`, `receipts.go` | one SQLite row per kind of record, schema version, owner lock | `Open`, `Save`, `Close`, `Prune`, `Budget`, `Healthy` | one owner; history is only extended; pruning removes nothing that a gate still counts; health is true |
| Control server, `control/socket.go` | handler slots, connections, the socket file | `Start`, `serve`, `Close`, `Call` | shutdown ends; nobody waits for ever; the path leads to the owner |
| Policy, `policy.go`, `profile.go` | none (pure) | `Evaluate`, `RejectedCleanup`, `Competing`, `Compare` | imports improve; packs are covered; no circle of upgrades |
| Sonarr client, `sonarr/client.go` | cache of one cycle's reads | `BeginCycle`, reads, paging, mutations | a scan of a changing queue is exact or fails; fresh checks are fresh |
| Process, `cmd/sonarr-remediator` | none | open, serve, run, close, healthcheck, trigger | order of start and stop; exit codes |
| Configuration, logging, peer credentials | none | parsing, output, one system call | not modelled |
| `cmd/fake-sonarr`, `scripts/` | | test double, release automation | not modelled |

How they interact:

- `Run` is one goroutine and the only writer of the store. It alternates between
  automatic cycles, started by a timer, and manual calls, taken from a channel.
- A handler of the control server acquires the admission token, puts its call in
  the buffered channel `s.requests` and waits for the result or the end of its
  own context. It never touches the store.
- `Cycle` reads Sonarr through the cached client, calls the pure policy, and saves
  the store at each step of a mutation. `Save` is one SQLite transaction.
- A crash loses memory and keeps the last committed save. `Open` turns accepted
  receipts into interrupted ones and intents into uncertain outcomes.

The hard part is everything between two saves: a crash, a failed save, a lost
answer, a read that fails half-way, a restart with other permissions, a manual
request that overrides waits, IDs that are used again after a prune. And
everything between two requests to Sonarr, which changes meanwhile: pages of one
scan, the command, the history and the files of one verification, the plan and the
execution. The hazards are listed with their lines in `PROJECT.json`.

## 2. Modules

| Module | Models | Extends |
|---|---|---|
| `Store` | the records, `Save`, recovery on `Open`, `Budget`, `Prune`, receipts | |
| `Remediator` | the observer loop with verification, search and receipts | `Store` |
| `MCRemediator` | instances of it | `Remediator` |
| `RemediatorProofs` | its theorems, the refinement among them | `RemediatorRefines`, TLAPS |
| `Mutations` | the abstract log of mutations: what the loop promises | |
| `RemediatorRefines` | the mapping under which `Remediator` implements it | `Remediator` |
| `MCRefines` | the instances with the mapping | `MCRemediator`, `RemediatorRefines` |
| `WaitClock` | the eligibility and rejection clocks of issues | |
| `WaitClockProofs` | its theorems | `WaitClock`, TLAPS |
| `QueueScan` | a paged scan of a queue that changes, and its retries | |
| `Reads`, `MCReads` | the read cache and the fresh checks before each mutation | |
| `ClientProofs` | the theorems of scans and reads | `QueueScan`, `Reads`, TLAPS |
| `ImportEvidence` | what the reads of `verify` establish about an import | |
| `ImportEvidenceProofs` | its theorems | `ImportEvidence`, TLAPS |
| `Control` | connections, handlers, admission token, `Run`'s select, shutdown | |
| `ControlProofs` | its theorems | `Control`, TLAPS |
| `Lifecycle`, `MCLifecycle` | owner lock, schema, binding, socket file, queries, over several processes | |
| `LifecycleProofs` | its theorems | `Lifecycle`, TLAPS |
| `Health` | the status record, and what healthcheck says by it | |
| `HealthProofs` | its theorems | `Health`, TLAPS |
| `Policy` | decisions over previews, and the library they lead to | |
| `MCPolicy` | profiles, files and observations for TLC | `Policy` |
| `PolicyProofs` | its theorems | `Policy`, TLAPS |

A definition whose name extends that of the definition after it
(`KnownFailureAlone` before `KnownFailure`, `AfterErrorUnfinished` before `AfterError`)
is a plausible mistake in the code behind the latter. Nothing uses it. Putting
it in place of the correct one makes the property named with it in
`PROJECT.json` fail, so that each property is known to depend on the code it is
about.

### Store and Remediator

`attempts`, `issues`, `operations` and `triggers` are the maps of `state.Data`
in memory; `disk` is the committed copy. `SaveCommits` and `SaveFails` are the
two results of `Save`. `pc` names the places where something can come between
two steps of the goroutine:

| `pc` | In the code |
|---|---|
| `down` | no process |
| `idle` | `Run`'s select |
| `scan` | a manual cycle that has its receipt and has not yet scanned |
| `verify` | `verify` of the attempts in `todo`, one at a time |
| `plan` | the candidates of `Cycle`, up to the limits of a scan |
| `exec` | `execute` of `plans`, searches after the others |
| `intent` | `reserve` has saved the intent; nothing is sent |
| `sent` | Sonarr may have executed it; no answer is recorded |
| `receipt` | a manual cycle that ended or failed; its receipt is still accepted |
| `exit` | an error or a signal; the last save before the process ends |

`sent` is a history variable: every mutation transmitted, with the settings it was
sent under and how it ended. Most properties are about `sent`, so that they speak
of what Sonarr received and not of what the service believes.

What is abstracted, and why it loses no behaviour:

- Sonarr's answers to reads are chosen freely at each read: queue states,
  command states, and history that shows none, some or all of an outcome.
  `evidence` stands for `VerifiedEpisodes` and `RemovalVerified`. The one thing
  assumed of Sonarr is that an acknowledgement follows a transmission.
- The decision of the policy for a download is any of `Verdicts[d]`.
- A candidate that still waits is one the cycle does not select. `WaitClock`
  models when the wait ends.
- Plans are a set instead of a sorted list. The order is kept where the code
  makes it matter: searches come last.
- `cfg.search` is `Cleanup.Enabled` together with `ReplacementSearch`. A restart
  may come up with any of `Configs`.
- Every issue status but "resolved" is "open". Previews (which write nothing),
  status updates, reports and logging are left out, but for the errors a
  report's size causes.
- A request has the time `Expires`, and `Validate` is what it is: the code accepts a
  request that has not expired and that was issued no later than a second from now,
  for two minutes at most. `RequestSpan` is the sum, which is less than the hour.
- IDs are one more than the largest retained ID, as in `nextID`, so they are used
  again after a prune. The wall clock is monotonic.
- `searchDecision`'s error for a missing issue is not an action:
  `ContinuationIntact` shows that it cannot occur.

### Mutations and RemediatorRefines

`Mutations` has two variables: the log of what was sent, and the entries of unknown
outcome. `Send` appends a mutation that concerns no download and no episode of an
entry of unknown outcome; `Resolve` ends the uncertainty of one entry for good.
There is no memory, no disk, no crash and no time. Under the mapping, `log` is
`sent` with its downloads and episodes and `unknown` is the set of its entries that
are open: `Transmit` is a `Send`, whatever the kind of action, a `Verify` that ends an outcome
is a `Resolve`, and every other step, a crash and a restart included, is a stutter.

### WaitClock

The clocks of an issue are counted in ticks: `elapsed` with `lastSeen` for
eligibility, `rejectedElapsed` with `rejectedLastSeen` for a rejection. Steps are
complete scans, automatic or for a selection (`Scan`), failed scans, the begin and
end of an action, the end of a cycle, restarts and ticks. `issues` and `pending` are in memory,
`saved` is what the last save has committed: that of an intent (`Begin`), of the end of a cycle
(`EndCycle`), of a failed scan or of a receipt. `Restart` goes back to it at any point, so a scan
whose save fails or is never reached loses its resets and its progress. The history goes back with it, in
`Saves` and `Restart`: it tells of the scans of this process and of those that were saved, because
a scan that nothing kept cannot count for or against a clock. The history variable `watch` records
from the scans alone for how long a download was really seen, which is what the
properties compare the clocks with. It counts twice: `most`, which no correct clock
may exceed, and `least`, which none may fall short of. Time 0 stands for Go's zero
time, so the clock begins more than two polls later: at time 1 of a poll of 4, a
rejection clock that was never set would be taken for one that was seen last at 0.

### QueueScan, Reads and ImportEvidence

Each of the three puts one sequence of requests against a Sonarr that changes
between any two of them.

`QueueScan` keeps Sonarr's queue as a sequence of rows that becomes any other one
between two requests: rows arrive, move and leave, several at once. `ReadPage` is one
iteration of `pages` with its checks; `Retry` is the loop of `Queue`. The history
variables record which rows were queued at the first page, and which ever since.

`Reads` keeps the cache of the client with its errors, and a cycle that observes,
verifies, plans and executes. `BeginCycle` empties the cache at the start of a cycle
and of each fresh check. `since` records all values a resource had since the checks
of the mutation at hand began. `Resources` not in `Cached` are always requested. `Unchanged` compares
all that was read, while the code compares identity, kind and fingerprint, and for a search
nothing; what is sent is the fresh decision in any case, and the properties are about that one.

`ImportEvidence` computes what `Remediator` chooses freely: `ReadCommand`,
`ReadHistory` and one `LookAt` per episode are the reads of `verify`, in its order,
while the command imports, another download replaces files, files are deleted, profiles
change and time passes. `acceptable` are the files that the present profiles accept, without
which an episode is not recognised (`verify.go:76`). Times have fractions of a second that Sonarr's dates may lack.

### Lifecycle and Health

`Lifecycle` has the processes around one store: `pc` goes from `TakeLock` over the
version, the schema of a new store and the records to the save that ends `Open`;
then over the inspection, replacement and binding of the socket path into the
service; and back over the deferred calls of `run`. A process can die at every
step; the kernel frees its lock and its listener, while store and socket file stay.
A start that fails leaves no socket file in the model; if it is the last step of it that fails
(`socket.go:104-108`), the code leaves one, which the next owner removes under the lock
like that of a killed process. What records say is abstracted to a log that each update extends. Queries read the
version and the records in two steps.

`Health` keeps the status record in memory and on disk, with the ages of its times.
A cycle reads the queue, observes, verifies and saves, and each part may fail or the
save may. The history variables record when all reads last succeeded, whether
some failed since, and how long cycles and previews have taken since the beginning of the cycle
whose heartbeat was saved last (`busy`); the properties compare `Healthy`, which only sees the
committed record, with them. Nothing of the relation of `Poll` and `CycleTime` is assumed.

### Control

Three kinds of process: callers (`Call`, `Leave`, `Return`) with the handlers of
their connections (`Admit`, `GiveUp`, `Send`, `TakeResult`, `Abandon`, `Reply`),
`Run` (`Cycle`, `Wait`, `Timer`, `Dispatch` and the steps of a manual call up to
`Release`), and the end of the process (`Signal`, `Stop`, `Close`). `requests` is
the channel with a buffer of one that `Run` reads, `admission` the token and
`result` the answer. `Exit` is the end of the command: SIGINT may turn what it
would report into 130, and then the report is printed or it is not (`Unprinted`). `interrupted`
records for whom it did. A context ends by timeout,
by disconnection or by the shutdown. A cycle makes one mutation at most here, and
repeated identifiers are left to `Remediator`. A caller whose call is over may
return with another one.

### Policy

`Policy` keeps the content of `Evaluate` that decisions depend on: files with
quality, revision and score, a profile with groups, cutoffs and the proper
setting, previews with their class of rejection, and the episodes the queue and
the grab history attribute to a download. The checks that refuse incomplete or
conflicting data are flags of an observation. `Next` applies imports and removals
to a library, so that sequences of decisions can be checked and not only single
ones.

## 3. Runs and bounds

| Run | States | What it shows |
|---|---|---|
| `core_import` | 561 k | Two downloads that share an episode, imported over crashes, failed saves, lost answers and unreadable evidence. `NoReplay`, `WriteAhead`, `AttemptCap`, `CooldownRespected`, `OutcomesFinal`, the type invariant, and the refinement `ImplementsMutations` |
| `core_cleanup` | 448 k | Removal and the search that continues it, over restarts into any permissions. `SearchFollowsRemoval`, `ContinuationIntact`, `DryRunSilent` |
| `core_manual` | 496 k | A request that overrides waits beside automatic cycles, with a retention shorter than an hour. `HourlyBudget`, `ReceiptsValid`, `RetryRespected`, `ManualOnce`; `RequestEnds` and `NoSilentWait` under fairness |
| `wait_clock` | 2.1 M | Scans, failed scans, crashes and failed saves between a scan and its save. `OnlyWatchedTime`, `WaitsNoLonger`, `RejectedContinuously` |
| `wait_reappears` | violation | finding 1 |
| `control` | 108 k | An executing and a previewing caller that come back: `OneCall`, `HonestExit`; `ObserverNotStarved` and `ShutdownEnds` under fairness |
| `policy` | 1008 | Sequences of imports and removals of packs of one or two files: `NoReturn`, `NeverWorse`, `RedundantCovered`, `ImportSatisfies` |
| `queue_scan` | 13 k | A queue of up to four rows, one of them malformed, that becomes any other, read in two pages with one retry: `ScanTruthful`; `ScanEnds` under fairness |
| `reads` | 404 k | Two plans that share a cached resource and use one that is never cached: `DecidedOnFreshReads`, `SilentAfterFailure` |
| `import_evidence` | 565 k | An episode to import and one to leave alone, with profiles that change: `EvidenceIsTrue`, `FailedBeforeScan`; `Recognised` under fairness |
| `lifecycle` | 14 k | Three processes, one of them configured for another Sonarr, and a query: `HistoryKept`, `ControlServes`, `QueryTruthful` |
| `health` | 544 k | Cycles, executions and previews, each as long as a poll: `HealthyTruthful`, `NoFalseAlarm`; `RecoveryNoticed` under fairness |

The runs check the type invariant of the core. The `TypeOK` of the other modules
states the range of their variables for the reader.

Bounds, all constants of the modules:

- `MaxTime` 2 or 3 and `MaxID` 2 or 3 cap the clock and the attempts. With
  `Hour` and `Cooldown` 2, `Retention` 1 or 2, `RetryInterval` and
  `VerifyDeadline` 1, every interval begins and ends within the run, and
  attempts are pruned and IDs used again. `HourLimit` 1 (manual) and
  `MaxAttempts` 1 (import) are met and refused.
- Two downloads with a common episode are the smallest instance with a conflict
  that is not the same download; more downloads only repeat it. The theorems of
  section 6 remove this bound for the properties that depend on it most.
- `core_manual` sets `Retention` shorter than `Hour` because `Prune` has to keep
  what the budget counts even then. `RetryRespected` needs `RetryInterval <=
  Retention`: the code forgets attempts after the retention and does not relate
  the two settings.
- `core_manual` has a request that expires at time 3 with `RequestSpan` equal to `Hour`,
  the largest that the assumption allows: in the last tick in which it is accepted,
  what it sent in the first is in the budget for one more tick.
- `WaitClock` watches one download with two identities from time 5 to 10, with a poll of
  2, a recovery wait of 3, a cleanup wait of 2: a wait fits in a run with a gap, a lost
  scan or another wait before it. Downloads do not share clocks.
- `control` has one slot for two callers, so that a connection is refused; the call of
  a handler that gave it up is still under way while the next one is served. With
  two slots and three callers the invariants hold as well (6.4 M states), but
  liveness is too large to check.
- `MCPolicy` has four qualities, two of them in one group and one not allowed, and
  seven files that differ in group, revision, score and known data, over three
  profiles, one of which permits no upgrades. All four properties are proved for every
  profile and file.
- `QueueScan` has two rows per page and two pages, the least in which a row can move
  over a boundary, and one retry. Pages with fewer rows than `PageSize` occur, totals
  above the limit of `MaxPages` do not; `ScansAreTruthful` is proved with both.
- `ImportEvidence` counts two ticks a second and begins in the middle of one, so that
  dates with and without fractions differ; other programs change the library or a profile
  twice, so that a file may become unacceptable and acceptable again.
- `Lifecycle` has two inodes, so that a new socket file may get the number of one
  that was removed, and `MaxLog` 2: two updates can be told from one that was lost.
- `Health` has a poll of 2 and cycles of up to 2: a cycle, a preview and another cycle together
  can take three polls, and without `Prompt` the run finds the alarm of section 5. Ages stop
  growing at three polls and one.

Deadlock is checked except in `policy`, where a library may be one that no
observation acts on, and in `import_evidence`, which ends with a final outcome.

## 4. Fairness

`Remediator.FairSpec` has weak fairness of `Observe`, `Tick` and `Open`. `Run`
polls with a timer, each call of Sonarr has an HTTP timeout, a cycle has a
deadline, and the container's restart policy starts the process again. `Accept`,
`Stop` and `Crash` have none. `NoSilentWait` speaks of behaviours in which the
process does not crash, refuse its cycles or stop for ever again: a service that is
never up long enough for one scan moves nothing.

`Control.FairSpec` has weak fairness of `Run` and `Stop` (cycles end), of `Close`, of each handler and of the end of each handler's context, which has a
deadline of two minutes at most. Nothing is assumed of callers, of signals, or of
Go's choice among ready cases of a select: `ObserverNotStarved` does not rest on
the select being fair but on the check of an overdue observation before it.

The other modules assume that every request is answered or fails, since it has a
timeout, and nothing of Sonarr: `QueueScan` has weak fairness of its steps as a
whole, so `ScanEnds` holds however the queue changes; `ImportEvidence` has weak
fairness of the reads of `verify`, and `Recognised` excepts reads that fail for ever
again. `Health` has weak fairness of the steps of a cycle, which has a deadline,
and strong fairness of time, which passes also in a loop of restarts.

## 5. Findings

1. `wait_reappears`, `service.go:202`. An issue that is resolved and whose download
   is eligible (again) stays resolved. Only a protected state reopens it, so it never
   becomes a candidate, although `PRODUCT.md` gives it the wait of observed
   eligibility.

Further disagreements were met while the modules were written. No property that
holds states them, so they are recorded here:

- `service.go:254`: the rejection clock of a download that vanishes while an action of
  it is unresolved is not reset, while `PRODUCT.md` and `TECH.md` say absence resets
  it. `WaitClock` has the behaviour.
- `state.go:196`: a process that ends between the commit of the schema of a new store
  and its first save leaves a store that every later `Open` refuses as incomplete.
  In `Lifecycle` no later process gets past `LoadRecords`; nothing is lost, as
  `HistoryKept` and `QueryTruthful` show, but an operator has to remove the file.
- `client.go:163`: when a row leaves a page already read and another one arrives, the
  total stays the same and a row that was queued all the time is missed by a scan
  that succeeds. `ScanTruthful` therefore claims exactness only of a queue that no
  other row joined; the download it misses is taken for absent by that scan.
- `verify.go:211`: events are judged by the beginning of the cycle. An episode imported
  after it, of a command that has failed by the time it is read, does not count, and
  the attempt is failed though it imported something. `FailedBeforeScan` says what
  does hold.
- `service.go:163`: the scan of a manual execution clears the read failure that an
  automatic cycle recorded for a download the execution does not read, although
  `TECH.md:352-354` asks for "no unresolved required-read/state failure". In `Health`
  the failure of the last saved cycle is what a healthy status excludes.
- `service.go:48`: a start sets only `Ready`. Until three polls have passed since the last
  scan of the process before it, that scan and its result make the new one healthy,
  which may not have read anything yet. `HealthyTruthful` says "this process or one before it".
- `state.go:446`: with the default poll of 60 s and a deadline of 50 s, a working service
  looks unhealthy when a cycle, a preview and the next cycle each take all their time: the
  heartbeat is then 210 s old. `NoFalseAlarm` and `RecoveryNoticed` are about a
  service that is `Prompt`: since the beginning of the cycle of the last heartbeat, no more
  than two polls were spent in cycles, executions and previews. That holds for the defaults
  as long as two such cycles and what comes between them take 120 s at most.
- `service.go:202`, `service.go:445`: a scan that resets a clock (another identity, a return to a
  protected state) or adds to it changes memory only. When the process crashes before the
  next save, or that save and the last one of the process fail, the old clock is back, and
  the scan that reset it has no effect; `PRODUCT.md:99-101` says that waiting
  progress survives a restart and that such a scan resets it. `WaitClock` has the
  behaviour. Its three properties say what the code does keep: a clock and its last
  observation are restored together.
- `cmd/sonarr-remediator/manual.go:144-158`: an execution that SIGINT interrupts has exit code
  130; if its report cannot be printed either, the code is 1, which `OPERATIONS.md:87`
  gives to requests that did nothing, though this one may have been sent. Rule 30 of
  manual-trigger's `PRODUCT.md:198-204` wants 130 and a warning. `HonestExit` excepts the case.
- `verify.go:76`: an import that completed and stays, but whose file the present profile does
  not accept, stays partial, and protects its download until an operator acts.
  `Recognised` is about acceptable files.

Two things were met that no sentence of the documentation settles. A newer revision
with a lower score and the older one with the higher score are each "inferior" to the
other (`profile.go:163`). And the attempt budget of a candidate ends with the
history retention: `AttemptCap` and `RetryRespected` say so.

## 6. Theorems

All are of the form `Spec => []Inv` (or `[][A]_vars`) and hold for any downloads,
episodes, requests, verdicts, limits, intervals, processes and callers that satisfy
the named assumptions of their modules: `StoreAssumption`, `RemediatorAssumption`,
`PolicyAssumption`, `WaitClockAssumption`, `QueueScanAssumption`, `ReadsAssumption`,
`ImportEvidenceAssumption`, `ControlAssumption`, `LifecycleAssumption` and
`HealthAssumption`. They say that limits and intervals are numbers, that a request does
not outlast an hour (two minutes and a second in the code), that the configuration is
one the program accepts and that the values that stand for "none" are no others. One
theorem, `RetryHolds`, has a hypothesis of its own.

**RemediatorProofs.** `TypeCorrect` proves `TypeOK`, `NeverReplayed` proves `NoReplay`,
`AlwaysRecorded` proves `WriteAhead`. Neither of the latter is inductive: they say
nothing of what memory and disk contain in a state in which the process is about to
crash or to send. `ReplayInv` adds

- `Sound(attempts, sent)` and `Sound(disk.attempts, sent)`: every open transmission
  has its unresolved attempt there: in memory and, independently, in the committed store.
  The second is what `Recover` starts from, the first what the gate reads.
- `OpenKeyed`: open transmissions have different IDs, though IDs are used again
  after a prune.
- `ToVerify`: the attempts still to be verified are unresolved and not being sent.
- `UnderWay`: at `intent` and `sent` the attempt of `executing` is unresolved.
- `Intended`: at `intent` memory and disk agree, and no open transmission has the ID
  that is about to be sent.

`Sound` says, besides, that IDs are unique in each copy and that its unresolved
attempts do not conflict.

The argument: the gate refuses an action while an attempt in memory that conflicts
with it is unresolved; by `Sound` every open transmission is such an attempt; a
failed save leaves the disk at least as cautious as it was; and `Prune` keeps what is
unresolved. The proof has one lemma per action.

Ten more theorems add to `ReplayInv` what they need. They share the lemma that each
step either relabels the recorded attempts (`Relabels`: outcomes that are not final may
change), adds one with a free ID, or drops what `Prune` drops.

- `DryRunNeverSends` proves `DryRunSilent` from `SilentInv`: whatever is planned was
  allowed by the settings and the request of the cycle, both last until nothing is
  planned any more (`Allowed`), and nothing planned outlives a cycle or a crash.
- `OutcomesAreFinal` proves `OutcomesFinal` from `FinalInv`: memory agrees with every final
  outcome on disk that it still has (`Agreed`), and what it has dropped is `Older` than
  any attempt a later step can add, so that an ID used again cannot be taken for it.
- `ReceiptsAlwaysValid` proves `ReceiptsValid` from `ReceiptInv`: receipts and attempts name
  each other (`Named`) in memory and on disk, independently, and the request of a
  cycle has an accepted receipt (`Underlying`), which `Prune` keeps.
- `ContinuationsIntact` proves `ContinuationIntact` from `ContinuedInv`: also a removal that is
  still pending has its issue, since `verify` opens the continuation only later, and
  `Prune` keeps the removal of an open continuation, in memory and on disk.
- `BudgetHolds`, `CapHolds`, `CooldownHolds` and `RetryHolds` prove `HourlyBudget`, `AttemptCap`,
  `CooldownRespected` and `RetryRespected` from one invariant, `LimitInv`. Memory and disk
  each know of every transmission that is not past all windows (`Knows`): its attempt
  is there (`Remembered`), is taken for no other (`Genuine`), and nothing that conflicts
  with one whose verification may be repeated was sent after it (`LastWord`), so that a
  late outcome cannot move a cooldown over what has been sent since. What is pending
  in memory and was sent is pending on disk (`Backed`): a crash forgets no outcome that was
  relied on. The transmissions that a limit counts map one to one to attempts that the
  gate counts, so the gate counts at least as many. `Limits` says what `sent` obeys,
  and `Clear`, which the gate establishes and holds until the request goes out, what the
  next transmission needs. `RetryHolds` assumes `RetryInterval <= Retention`: an import
  whose attempt is pruned is not known to the gate.
- `RequestsSendOnce` proves `ManualOnce` from `OnceInv`, which joins the two invariants above: every
  attempt names the request of the transmission it tells of (`Signed`), and no request
  outlasts the hour of what it sends (`Dated`). While a request can still be
  accepted, what it sent is thus not past every window (`LimitInv`), so its attempt is
  there, and the attempt's receipt with it (`ReceiptInv`). Retention plays no part: the
  receipt may expire early, but not before the hour of the budget is over. A longer
  timeout than an hour would break it.
- `SearchesFollow` proves `SearchFollowsRemoval` from `SearchInv`. For each download the searches
  sent are no more than the removals that are verified and that the attempts no longer
  have to verify, and fewer when a search is due (`Paid`): in memory and on disk, since a
  crash between the verification of a removal and the save of its continuation verifies
  it again. `Heard` says that a removal is only verified after it was sent.

The refinement: `RefinesMutations` proves `ImplementsMutations`: `Spec` implements
`Abstract!Spec` under the mapping of section 2. The initial states map to the empty
log. A step that transmits maps to `Send`: its guard, that nothing of unknown outcome
is concerned, is not a guard of `Transmit`, which is several saves after the gate, but
follows from `ReplayInv` and from `NoReplay` in the state after it. A `Verify` that ends
a transmission maps to `Resolve`, by `OpenKeyed` of one entry only, and the other steps
leave `sent` alone. There is one lemma per kind of step.

**PolicyProofs.** `TypeCorrect` proves `TypeOK`, `NeverReturns` proves `NoReturn` and
`OnlyBetter` proves `NeverWorse`. The lemmas show that `Better`, the preference of the profile stated as an order (group first, within a group
no loss of revision or score for a gain of the other), is irreflexive and transitive
under every setting for propers, and that whatever `Compare` and the cutoffs let through
is better. The invariant `Improved` keeps each replaced file below the present one.
`OnlyRedundantRemoved` proves `RedundantCovered` and `PacksComplete` proves `ImportSatisfies`,
both from what `EvaluateRests` says a decision has checked, for any library. `NotBetter` is
the lemma behind the former: a comparison that is decided and not positive excludes that
the release is better, also where no cutoff would let it replace the file.

**WaitClockProofs.** `CountsOnlyWatchedTime` proves `OnlyWatchedTime` and
`CountsAllWatchedTime` proves `WaitsNoLonger`, `CountsOnlyRejection` proves
`RejectedContinuously`. Of the first two: a clock is between the two counts of what
the scans have shown. The comparison alone is not inductive, since whether a scan adds
to a clock depends on `lastSeen`, `eligible` and `previous`, and whether it adds to a
count on `watch`. In `ClockInv`, `Agree` says that the two tell of the same last scan and
the same identity and status, `Times` that nothing was seen in the future or at the time
of a scan that is still due, and `Counted` is the comparison. The lemmas `Advance` and
`WatchedIs` say what one scan makes of one issue and of its history; each action is then
a case of them. All of it is said of memory (`InMemory`) and, independently, of what is
saved (`OnDisk`), since `Restart` makes the former out of the latter. `SavedKept` shows that a
commit makes the latter out of the former: the end of a cycle prunes only what is
resolved (`Settled`), and no time counts over a restart, which is why `Gap` forgets the last scan.
`Rejecting` adds that the clock of rejections and the last rejection it was told of lie within the time of continuous rejection. Its proof needs that nothing was ever seen at
the zero time, which a model whose clock began at 1 did not have, and a poll of at least 4 would
have shown it; `Times` says so now.

**ClientProofs.** `AlwaysSilent` proves `SilentAfterFailure`: checks run only while no read has
failed. `AlwaysFresh` proves `DecidedOnFreshReads` with `CheckInv`: from the moment the fresh
checks begin, `since` holds the present value of every resource (`Present`), the cache
nothing from before that moment (`CacheFresh`) and neither does what was read for the
plan under check (`SeenFresh`). It is `CacheFresh` that a missing `BeginCycle` breaks.
`ScansAreTruthful` proves `ScanTruthful` from `ScanInv`: a scan that is reading has different rows,
all seen since its first page, whose total is the number of rows queued then (`Gathered`), and
before its first page nothing of a rejected one. A scan that completes has as many rows
as there were then, and if no other row came these can only be the same ones.

**ImportEvidenceProofs.** `EvidenceAlwaysTrue` proves `EvidenceIsTrue` and `FailureIsCertain` proves
`FailedBeforeScan`. `EvidenceInv` says that an event names the attempt's path only for what the attempt
imported, or is older than the attempt (`Truthful`), in Sonarr and in the history that was read, and
that everything imported has its event (`Announced`). `FailureInv` adds that what was imported before
the scan of the cycle is in the history that was read after the command, and is evidence as soon as
its episode has been looked at. `DatedWithin` is the arithmetic: a date that lost its fraction of a
second still counts, because the beginning of the attempt loses its own.

**LifecycleProofs.** `HistoryAlwaysKept` proves `HistoryKept`, `ControlLeads` proves
`ControlServes` and `QueriesTruthful` proves `QueryTruthful`. `LifeInv` says that every process
that is not off holds the lock (`Owned`), so that there is one at most; that the memory
of whoever has opened the store extends what is committed, and for its own instance
(`Loyal`); and that only a running service listens, at the socket path (`Served`). A save
therefore extends the history. `QueryInv` adds that what a query saw at its start is a
prefix of what is committed, by `HistoryKept` a prefix for good.

**ControlProofs.** `OneCallOnly` proves `OneCall` and `ExitsHonestly` proves `HonestExit`. In
`CallInv`, `Alone` says that while the token is out there is exactly one call that is waited for,
queued or executed, and where; `Unsent` that a call which was not admitted has left no
result and no effect; and `Truth` that every code on its way from the cycle through the result
channel and the report to the caller agrees with the effect, which is final once there is a
result. `Exited` is what it says of a command that is over, and excepts code 1 of one that was
interrupted. The case that needs it is a handler that gives up between admission and result.

**HealthProofs.** `HealthAlwaysTruthful` proves `HealthyTruthful`. `Dated` says that a status, in
memory or committed, never knows of a younger scan than there was and, before the cycle
at hand has scanned, of none of that cycle; `Recorded` that failed reads are on record
in memory and in what is saved of it. `NeverFalseAlarm` proves `NoFalseAlarm` for
any poll and any deadline: in `CalmInv`, `Lapse` says that the committed heartbeat is as old as the
time spent in cycles and previews since its cycle began (`busy`) and the part of the present wait
that has passed, which is at most a poll. A `Prompt` service thus never reaches three.

What is only model-checked is liveness (`RequestEnds`, `NoSilentWait`, `ObserverNotStarved`,
`ShutdownEnds`, `ScanEnds`, `Recognised` and `RecoveryNoticed`): it rests on fairness and
`ENABLED`, which are beyond the prover used, as is induction over data. No module uses a
RECURSIVE operator.

## 7. Not modelled

- Configuration: its values are the constants of the modules; parsing has no state.
- HTTP, the decoding of JSON and the shape of Sonarr's resources: a request is
  answered or fails. The checks of `policy` and `service` that refuse incomplete data
  are a flag of an observation.
- The evidence for removals and searches (`verify.go:100-149`): `Remediator` chooses
  it freely.
- The order of candidates within a cycle and the content of previews: `Remediator`
  chooses the order freely, and its safety does not rest on it. Whether every
  candidate is served in the end when the allowance is short is not checked.
- Reports, log lines and the counters of the periodic summary: no decision reads
  them.
- Peer credentials, file permissions and corrupt records, the fake Sonarr and the
  scripts.

## 8. Plan

Done: the life of a mutation (`Store`, `Remediator`) and the abstract log it implements;
the policy; the waits (`WaitClock`); requests and shutdown (`Control`); scans, the read
cache and import evidence (`QueueScan`, `Reads`, `ImportEvidence`); the processes around a
store (`Lifecycle`) and health. Every safety property and the refinement are proved. Left,
most important first:

1. `WaitClock` as the source of candidates of `Remediator`, on one download, and
   `ImportEvidence` as the source of its answers, with the steps of the one shown to be
   steps of the other.
2. The evidence for removals, with the blocklist, in the manner of `ImportEvidence`.
3. The order of candidates under a short allowance, and what a preview promises.
