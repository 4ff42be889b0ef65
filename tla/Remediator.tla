----------------------------- MODULE Remediator -----------------------------
(***************************************************************************)
(* The observer loop of internal/service: one cycle after another scans    *)
(* Sonarr's queue, verifies the unresolved attempts, plans, and executes   *)
(* each plan as  fresh checks - durable intent - transmission - response.  *)
(*                                                                         *)
(* The observer is one goroutine, so what it computes between two saves or *)
(* calls of Sonarr is one step; pc names the places where a crash, a tick  *)
(* of the clock, a failed save or an answer of Sonarr can come between.    *)
(* What Sonarr answers to a read is chosen freely at every read.           *)
(***************************************************************************)
EXTENDS Store, Sequences

CONSTANTS
  Verdicts,          \* the decisions policy may reach for each download
  Configs,           \* the permissions a restart may come up with
  Overriding,        \* the requests made with --override-wait
  Expires,           \* when each request expires
  RequestSpan,       \* control.MaxTimeout and the second Validate allows a clock
  HourLimit,         \* Config.Limits.MutationsPerHour
  ScanLimit,         \* Config.Limits.MutationsPerScan
  MaxAttempts,       \* Config.Recovery.MaxAttempts
  RetryInterval,     \* Config.Recovery.RetryInterval
  VerifyDeadline,    \* the 10 minutes of verify and expirePending
  MaxTime, MaxID     \* bounds on the clock and on attempt IDs

ASSUME RemediatorAssumption ==
  /\ Verdicts \in [Downloads -> SUBSET Decision]
  /\ \A d \in Downloads : \A v \in Verdicts[d] :
        v.kind # "search" /\ (v.blocklist => v.kind = "remove_unusable")
  /\ Configs \subseteq [dryRun : BOOLEAN, search : BOOLEAN]
  /\ Overriding \subseteq Requests
  /\ Expires \in [Requests -> Nat]
  /\ RequestSpan \in Nat /\ RequestSpan <= Hour
  /\ HourLimit \in Nat \ {0} /\ ScanLimit \in Nat \ {0} /\ MaxAttempts \in Nat \ {0}
  /\ RetryInterval \in Nat \ {0} /\ VerifyDeadline \in Nat \ {0}
  /\ MaxTime \in Nat /\ MaxID \in Nat

VARIABLES
  cfg,         \* s.Config: background dry-run and replacement search
  pc,          \* where the observer is
  request,     \* s.request: the request of this cycle, or Background
  scanTime,    \* now as Cycle read it
  queue,       \* the complete queue scan of this cycle
  todo,        \* IDs of the attempts this cycle has still to verify
  plans,       \* the planned actions not yet executed
  executing,   \* ID of the attempt being transmitted
  readFailed,  \* Status.ReadFailure is set
  sent         \* history: every mutating request sent to Sonarr, in order

cycleVars == <<request, scanTime, queue, todo, plans, executing, readFailed>>
vars == <<now, dataVars, disk, cfg, pc, cycleVars, sent>>

Steps == {"down", "idle", "scan", "verify", "plan", "exec", "intent", "sent", "receipt", "exit"}
Plan == [download : Downloads, decision : Decision]
Transmission == [id : Nat, download : Downloads, decision : Decision,
                 started : Nat, request : Requests \cup {Background},
                 dryRun : BOOLEAN, override : BOOLEAN,
                 end : {"open", "verified", "submitted", "failed"}, ended : Nat]

TypeOK ==
  /\ StoreTypeOK
  /\ cfg \in Configs
  /\ pc \in Steps
  /\ request \in Requests \cup {Background}
  /\ scanTime \in Nat
  /\ queue \in [Downloads -> {"absent", "protected", "eligible"}]
  /\ todo \in SUBSET Nat
  /\ plans \in SUBSET Plan
  /\ executing \in Nat
  /\ readFailed \in BOOLEAN
  /\ sent \in Seq(Transmission)

EmptyQueue == [d \in Downloads |-> "absent"]

\* What is forgotten between cycles (ReadFailure is only read within one).
CycleReset ==
  /\ scanTime' = 0 /\ queue' = EmptyQueue /\ todo' = {} /\ plans' = {}
  /\ executing' = 0 /\ readFailed' = FALSE

Init ==
  /\ StoreInit
  /\ cfg \in Configs
  /\ pc = "down" /\ request = Background
  /\ scanTime = 0 /\ queue = EmptyQueue /\ todo = {} /\ plans = {}
  /\ executing = 0 /\ readFailed = FALSE
  /\ sent = <<>>

----------------------------------------------------------------------------
(* Gates: may this mutation be sent now? *)

Override == request \in Overriding
Conflict(a, d, v) == a.download = d \/ a.decision.episodes \cap v.episodes # {}
CoolingSinceStart(a, t) ==
  a.outcome \in {"verified", "submitted"} /\ t < a.started + Cooldown
Cooling(a, t) == a.outcome \in {"verified", "submitted"} /\ t < a.finished + Cooldown

ImportAttempts(d, v) ==
  {a \in attempts : ~a.dryRun /\ a.download = d /\ a.decision.kind = "import"
                      /\ a.decision.fingerprint = v.fingerprint}

\* parent is the removal a search continues, 0 for any other action.
Protected(d, v, t, parent) ==
  \E a \in attempts :
    /\ ~a.dryRun /\ Conflict(a, d, v)
    /\ Pending(a) \/ (a.id # parent /\ Cooling(a, t) /\ ~Override)

ExhaustedLate(d, v) == Cardinality(ImportAttempts(d, v)) > MaxAttempts
Exhausted(d, v) == Cardinality(ImportAttempts(d, v)) >= MaxAttempts
RetryWaitSinceStart(d, v, t) ==
  \E a \in ImportAttempts(d, v) : t < a.started + RetryInterval
RetryWait(d, v, t) == \E a \in ImportAttempts(d, v) : t < Ended(a) + RetryInterval

Gate(d, v, t, parent) ==
  /\ Budget(t) < HourLimit
  /\ ~Protected(d, v, t, parent)
  /\ v.kind = "import" => ~Exhausted(d, v) /\ ~RetryWait(d, v, t)

PlanGate(v) ==
  /\ Cardinality(plans) < ScanLimit
  /\ Cardinality(plans) + Budget(scanTime) < HourLimit
  /\ \A p \in plans : p.decision.episodes \cap v.episodes = {}

\* Whether this cycle may send anything at all.
MayMutateWhenAsked == TRUE
MayMutate == request # Background \/ ~cfg.dryRun

\* An error returned by Cycle ends the process in the background; a manual
\* request only finishes its receipt.
AfterErrorUnfinished == IF request = Background THEN "exit" ELSE "idle"
AfterError == IF request = Background THEN "exit" ELSE "receipt"

SaveThenIgnored(step) == (SaveCommits \/ SaveFails) /\ pc' = step
SaveThen(step) ==
  \/ SaveCommits /\ pc' = step
  \/ SaveFails /\ pc' = AfterError

----------------------------------------------------------------------------
(* The start of a cycle: one complete queue scan, or a failed read. *)

\* What a complete scan at time t makes of the issue of a download that is
\* shown as q.  A resolved issue that is eligible again stays resolved.
Scanned(i, q, pending, t) ==
  CASE q = "absent" ->
         IF i.state = "open" /\ ~pending THEN [state |-> "resolved", resolvedAt |-> t] ELSE i
    [] q = "protected" ->
         IF i.state = "none" THEN i
         ELSE [state |-> IF pending THEN i.state ELSE "open", resolvedAt |-> 0]
    [] q = "eligible" ->
         [state |-> IF i.state = "none" THEN "open" ELSE i.state, resolvedAt |-> 0]

VerifiableAcknowledged == {a \in attempts : Pending(a) /\ a.ack}
VerifiableOrFailed == {a \in attempts : Pending(a) \/ a.outcome = "failed"}
Verifiable == {a \in attempts : Pending(a)}

\* An automatic cycle starts from "idle", a manual one from "scan".
Scan(q) ==
  /\ pc \in {"idle", "scan"}
  /\ issues' = [d \in Downloads |-> Scanned(issues[d], q[d], HasPending(d), now)]
  /\ scanTime' = now /\ queue' = q
  /\ todo' = {a.id : a \in Verifiable}
  /\ pc' = IF todo' = {} THEN "plan" ELSE "verify"
  /\ readFailed' = FALSE
  /\ UNCHANGED <<now, attempts, operations, triggers, disk, cfg, request, plans, executing, sent>>

Overdue(a, t) == a.started + VerifyDeadline <= t

\* failed: a required read failed before the scan was complete.
ScanFails ==
  LET expired == {a \in attempts : Pending(a) /\ a.outcome # "partial" /\ Overdue(a, now)}
  IN  /\ pc \in {"idle", "scan"}
      /\ attempts' = {IF a \in expired THEN [a EXCEPT !.outcome = "uncertain"] ELSE a :
                        a \in attempts}
      /\ issues' = [d \in Downloads |->
                      IF issues[d].state # "none" /\ \E a \in expired : a.download = d
                      THEN [issues[d] EXCEPT !.state = "open"] ELSE issues[d]]
      /\ UNCHANGED <<now, operations, triggers, cfg, cycleVars, sent>>
      /\ SaveThen(IF request = Background THEN "idle" ELSE "receipt")

\* An unsupported Sonarr version, a selection or a report that is too large:
\* Cycle returns the error at once.  The last two only meet manual requests.
CycleRefused ==
  /\ \/ pc \in {"idle", "scan"}
     \/ pc = "plan" /\ request # Background
  /\ pc' = AfterError
  /\ plans' = {}
  /\ UNCHANGED <<now, dataVars, disk, cfg, request, scanTime, queue, todo, executing, readFailed, sent>>

----------------------------------------------------------------------------
(* verify: command is the state of the attempt's Sonarr command, reading    *)
(* what the history, blocklist and library reads show.                      *)

Commands == {"running", "failed", "unreadable"}
Readings == {"unreadable", "interrupted", "none", "some", "all"}
IsRemoval(a) == a.decision.kind \in Removals

\* The part of the outcome verified by now.  "interrupted" reads new import
\* evidence before a later read fails.
Evidence(a, command, reading) ==
  \/ a.evidence
  \/ /\ a.decision.kind = "import" /\ command # "unreadable"
     /\ reading \in {"interrupted", "some", "all"}
  \/ IsRemoval(a) /\ a.ack /\ queue[a.download] = "absent"

Unreadable(a, command, reading) ==
  CASE a.decision.kind = "import" ->
         command = "unreadable" \/ reading \in {"unreadable", "interrupted"}
    [] a.decision.kind = "search" -> command = "unreadable"
    [] OTHER -> /\ a.decision.blocklist /\ Evidence(a, command, reading)
                /\ reading \in {"unreadable", "interrupted"}

Complete(a, command, reading) ==
  /\ ~Unreadable(a, command, reading)
  /\ CASE a.decision.kind = "import" -> reading = "all"
       [] a.decision.kind = "search" -> a.ack /\ command = "running"
       [] OTHER -> /\ Evidence(a, command, reading)
                   /\ a.decision.blocklist => reading = "all"

KnownFailed(a, command) == ~IsRemoval(a) /\ a.ack /\ command = "failed"

\* The command is only read of an acknowledged import or search.
Answers(a) == (IF IsRemoval(a) \/ ~a.ack THEN {"running"} ELSE Commands) \X Readings

OutcomeAfter(a, command, reading) ==
  LET late == IF Overdue(a, scanTime) /\ a.outcome # "partial" THEN "uncertain" ELSE a.outcome
      some == Evidence(a, command, reading)
  IN  CASE Unreadable(a, command, reading) ->
             IF a.decision.kind = "import" /\ some THEN "partial" ELSE late
        [] Complete(a, command, reading) ->
             IF a.decision.kind = "search" THEN "submitted" ELSE "verified"
        [] some /\ ~Complete(a, command, reading) /\ ~Unreadable(a, command, reading) -> "partial"
        [] OTHER -> IF KnownFailed(a, command) THEN "failed" ELSE late

\* An operation whose search is over is finished; a verified unusable removal
\* opens one when searches are permitted.
ContinuationAfter(a, outcome) ==
  IF a.decision.kind = "search" /\ outcome \in {"submitted", "failed"}
     /\ operations[a.download].state # "none"
  THEN [operations EXCEPT ![a.download].state = "finished"]
  ELSE IF a.decision.kind = "remove_unusable" /\ outcome = "verified" /\ cfg.search
  THEN [operations EXCEPT ![a.download] =
          [state |-> "pending-search", removal |-> a.id, episodes |-> a.decision.episodes]]
  ELSE operations

Settle(a, outcome) ==
  sent' = [k \in 1..Len(sent) |->
             IF sent[k].id = a.id /\ sent[k].started = a.started
             THEN [sent[k] EXCEPT !.end = outcome, !.ended = scanTime] ELSE sent[k]]

\* What verify writes about attempt a.
Verified(a, command, reading) ==
  LET outcome == OutcomeAfter(a, command, reading)
      ends == outcome \in {"verified", "submitted", "failed"}
  IN  /\ attempts' = (attempts \ {a}) \cup
           {[a EXCEPT !.outcome = outcome, !.evidence = Evidence(a, command, reading),
                      !.finished = IF ends THEN scanTime ELSE @]}
      /\ operations' = ContinuationAfter(a, outcome)
      /\ issues' = IF outcome \in {"verified", "submitted"} /\ issues[a.download].state # "none"
                   THEN [issues EXCEPT ![a.download] =
                           [state |-> "resolved", resolvedAt |-> scanTime]]
                   ELSE issues
      /\ IF ends THEN Settle(a, outcome) ELSE UNCHANGED sent
      /\ readFailed' = (readFailed \/ Unreadable(a, command, reading))
      /\ todo' = todo \ {a.id}

\* The oldest attempt of todo is verified.
Verify ==
  /\ pc = "verify"
  /\ \E a \in attempts :
       /\ a.id \in todo /\ \A i \in todo : a.id <= i
       /\ \E answer \in Answers(a) : Verified(a, answer[1], answer[2])
  /\ pc' = IF todo' = {} THEN "plan" ELSE "verify"
  /\ UNCHANGED <<now, triggers, disk, cfg, request, scanTime, queue, plans, executing>>
----------------------------------------------------------------------------
(* The plan of a cycle.  Waiting times are not modelled here: a candidate   *)
(* that is never selected is one that still waits.                          *)

Candidate(d) ==
  /\ queue[d] = "eligible" /\ issues[d].state = "open"
  /\ ~HasPending(d)
  /\ \A p \in plans : p.download # d

Select(d, v) ==
  /\ pc = "plan" /\ MayMutate /\ ~readFailed
  /\ Candidate(d)
  /\ \A p \in plans : p.decision.kind # "search"
  /\ Gate(d, v, scanTime, 0) /\ PlanGate(v)
  /\ plans' = plans \cup {[download |-> d, decision |-> v]}
  /\ UNCHANGED <<now, dataVars, disk, cfg, pc, request, scanTime, queue, todo, executing, readFailed, sent>>

NewAttemptFromZero(i, d, v, t) ==
  [id |-> i - 1, download |-> d, decision |-> v, dryRun |-> FALSE, started |-> t, finished |-> 0,
   outcome |-> "intent", ack |-> FALSE, evidence |-> FALSE, request |-> request]
NewAttempt(i, d, v, t) ==
  [id |-> i, download |-> d, decision |-> v, dryRun |-> FALSE, started |-> t, finished |-> 0,
   outcome |-> "intent", ack |-> FALSE, evidence |-> FALSE, request |-> request]

\* recommend: what an automatic cycle records in dry-run mode.
Recommend(d, v) ==
  /\ pc = "plan" /\ ~MayMutate
  /\ Candidate(d)
  /\ Gate(d, v, scanTime, 0)
  /\ \A a \in attempts : a.dryRun /\ a.download = d => a.decision # v
  /\ \E i \in 1..MaxID :
       /\ IsNextID(i)
       /\ attempts' = attempts \cup
            {[NewAttempt(i, d, v, scanTime) EXCEPT !.dryRun = TRUE, !.finished = scanTime,
                                                   !.outcome = "recommended"]}
  /\ UNCHANGED <<now, issues, operations, triggers, disk, cfg, pc, cycleVars, sent>>

SearchAttempted(d) ==
  \E a \in attempts : ~a.dryRun /\ a.download = d /\ a.decision.kind = "search"

Parents(d) == {a \in attempts : a.id = operations[d].removal}

\* searchDecision up to the point where it looks for an earlier search.
SearchPermitted(d) ==
  /\ operations[d].state = "pending-search"
  /\ cfg.search /\ ~readFailed /\ ~HasPending(d)
  /\ \E a \in Parents(d) : a.decision.kind = "remove_unusable" /\ a.outcome = "verified"

\* The decision to search for the episodes still monitored and missing.
SearchDecision(d, targets) ==
  [kind |-> "search", episodes |-> targets, blocklist |-> FALSE,
   fingerprint |-> (CHOOSE a \in Parents(d) : TRUE).decision.fingerprint]

SearchReady(d, v) ==
  /\ SearchPermitted(d) /\ ~SearchAttempted(d)
  /\ issues[d].state # "none"
  /\ Gate(d, v, now, operations[d].removal)

SelectSearch(d, targets) ==
  LET v == SearchDecision(d, targets)
  IN  /\ pc = "plan" /\ MayMutate
      /\ SearchReady(d, v) /\ PlanGate(v)
      /\ \A p \in plans : p.decision.kind = "search" => p.download # d
      /\ plans' = plans \cup {[download |-> d, decision |-> v]}
      /\ UNCHANGED <<now, dataVars, disk, cfg, pc, request, scanTime, queue, todo, executing, readFailed, sent>>

\* A search was already attempted, or no episode needs one any more.
EndContinuation(d) ==
  /\ pc = "plan" /\ MayMutate
  /\ SearchPermitted(d)
  /\ operations' = [operations EXCEPT ![d].state = "finished"]
  /\ UNCHANGED <<now, attempts, issues, triggers, disk, cfg, pc, cycleVars, sent>>

\* A read that the decision to search needs fails: nothing more is sent.
SearchUnreadable(d) ==
  /\ pc = "plan" /\ MayMutate
  /\ SearchPermitted(d) /\ ~SearchAttempted(d)
  /\ readFailed' = TRUE
  /\ UNCHANGED <<now, dataVars, disk, cfg, pc, request, scanTime, queue, todo, plans, executing, sent>>

PlanDone ==
  /\ pc = "plan" /\ pc' = "exec"
  /\ queue' = EmptyQueue  \* it is not read again
  /\ UNCHANGED <<now, dataVars, disk, cfg, request, scanTime, todo, plans, executing, readFailed, sent>>

----------------------------------------------------------------------------
(* execute and search: fresh checks, durable intent, transmission, response *)

\* The fresh checks of a plan refuse it, its gate has closed, or a required
\* read fails, which refuses every later plan too.
Skip(p) ==
  /\ pc = "exec" /\ p \in plans
  /\ plans' = plans \ {p}
  /\ \/ UNCHANGED operations /\ readFailed' \in {readFailed, TRUE}
     \/ /\ p.decision.kind = "search" /\ SearchPermitted(p.download)
        /\ operations' = [operations EXCEPT ![p.download].state = "finished"]
        /\ UNCHANGED readFailed
  /\ UNCHANGED <<now, attempts, issues, triggers, disk, cfg, pc, request, scanTime, queue, todo, executing, sent>>

\* reserve: the intent and the receipt's reference to it become durable in
\* one transaction before anything is sent.
Reserve(p, v) ==
  \E i \in 1..MaxID :
    /\ IsNextID(i)
    /\ attempts' = attempts \cup {NewAttempt(i, p.download, v, now)}
    /\ issues' = [issues EXCEPT ![p.download].state = "open"]
    /\ triggers' = IF request = Background THEN triggers
                   ELSE [triggers EXCEPT ![request].attempts = @ \cup {i}]
    /\ executing' = i
    /\ UNCHANGED operations
    /\ SaveThen("intent")

Execute(p) ==
  /\ pc = "exec" /\ ~readFailed
  /\ p \in plans /\ p.decision.kind # "search"
  /\ Gate(p.download, p.decision, now, 0)
  /\ Reserve(p, p.decision)
  /\ plans' = plans \ {p}
  /\ UNCHANGED <<now, cfg, request, scanTime, queue, todo, readFailed, sent>>

\* Continuations follow the other plans; their targets are chosen afresh.
Search(p, targets) ==
  /\ pc = "exec" /\ ~readFailed
  /\ p \in plans /\ \A q \in plans : q.decision.kind = "search"
  /\ SearchReady(p.download, SearchDecision(p.download, targets))
  /\ Reserve(p, SearchDecision(p.download, targets))
  /\ plans' = plans \ {p}
  /\ UNCHANGED <<now, cfg, request, scanTime, queue, todo, readFailed, sent>>

Transmit ==
  /\ pc = "intent" /\ pc' = "sent"
  /\ \E a \in attempts :
       /\ a.id = executing
       /\ sent' = Append(sent,
            [id |-> a.id, download |-> a.download, decision |-> a.decision,
             started |-> a.started, request |-> request, dryRun |-> cfg.dryRun,
             override |-> Override, end |-> "open", ended |-> 0])
  /\ UNCHANGED <<now, dataVars, disk, cfg, cycleVars>>

\* The answer, or its absence, is recorded.  An acknowledgement needs a
\* transmission; an error may also come before anything was sent.
Respond(ack) ==
  /\ pc = "sent" \/ (pc = "intent" /\ ~ack)
  /\ \E a \in attempts :
       /\ a.id = executing
       /\ attempts' = (attempts \ {a}) \cup
            {[a EXCEPT !.ack = ack, !.outcome = IF ack THEN "pending" ELSE "uncertain"]}
       /\ operations' = IF a.decision.kind = "search"
                        THEN [operations EXCEPT ![a.download].state = "search-attempted"]
                        ELSE operations
  /\ executing' = 0
  /\ UNCHANGED <<now, issues, triggers, cfg, request, scanTime, queue, todo, plans, readFailed, sent>>
  /\ SaveThen("exec")

\* History is pruned and the cycle's findings are saved.  A manual cycle
\* whose reads failed returns that error before its save.
EndCycle ==
  /\ pc = "exec" /\ plans = {}
  /\ Prune(scanTime)
  /\ \/ request # Background /\ readFailed /\ SaveFails /\ pc' = "receipt"
     \/ /\ request = Background \/ ~readFailed
        /\ SaveThen(IF request = Background THEN "idle" ELSE "receipt")
  /\ CycleReset
  /\ UNCHANGED <<now, cfg, request, sent>>

----------------------------------------------------------------------------
(* Manual requests that execute. *)

\* Validate: a request neither expired nor issued ahead of the clock.
Valid(r) == now < Expires[r] /\ Expires[r] <= now + RequestSpan

AcceptableUnlessOpen(r) == triggers[r].status # "accepted" /\ Valid(r)
Acceptable(r) == triggers[r].status = "none" /\ Valid(r)

\* The receipt is durable before the cycle starts.  A repeated request is
\* answered from its receipt, and a failed save takes the receipt back:
\* neither changes the store.
Accept(r) ==
  /\ pc = "idle" /\ Acceptable(r)
  /\ triggers' = [triggers EXCEPT ![r] = [NoReceipt EXCEPT !.status = "accepted"]]
  /\ request' = r /\ pc' = "scan"
  /\ UNCHANGED <<now, attempts, issues, operations, cfg, scanTime, queue, todo, plans, executing, readFailed, sent>>
  /\ SaveCommits

\* A failed save is only reported: the service goes on.
FinishTrigger ==
  /\ pc = "receipt" /\ pc' = "idle"
  /\ triggers' = [triggers EXCEPT ![request].status = "finished", ![request].finished = now]
  /\ request' = Background /\ CycleReset
  /\ UNCHANGED <<now, attempts, issues, operations, cfg, sent>>
  /\ SaveCommits \/ SaveFails

----------------------------------------------------------------------------
(* The process. *)

Open(c) ==
  /\ pc = "down" /\ pc' = "idle"
  /\ Recover /\ SaveCommits
  /\ cfg' = c
  /\ UNCHANGED <<now, cycleVars, sent>>

\* A stop between cycles, or an error of a cycle, saves once more and exits.
Stop ==
  /\ pc = "idle" /\ pc' = "exit"
  /\ UNCHANGED <<now, dataVars, disk, cfg, cycleVars, sent>>

Exit ==
  /\ pc = "exit" /\ pc' = "down"
  /\ UNCHANGED dataVars /\ SaveCommits
  /\ request' = Background /\ CycleReset
  /\ UNCHANGED <<now, cfg, sent>>

\* The process dies anywhere; so does a final save that fails.
Crash ==
  /\ pc # "down" /\ pc' = "down"
  /\ Forget
  /\ request' = Background /\ CycleReset
  /\ UNCHANGED <<now, disk, cfg, sent>>

Tick ==
  /\ now < MaxTime /\ now' = now + 1
  /\ UNCHANGED <<dataVars, disk, cfg, pc, cycleVars, sent>>

\* One step of the observer's goroutine.
Observe ==
  \/ \E q \in [Downloads -> {"absent", "protected", "eligible"}] : Scan(q)
  \/ ScanFails
  \/ CycleRefused
  \/ Verify
  \/ \E d \in Downloads : \E v \in Verdicts[d] : Select(d, v) \/ Recommend(d, v)
  \/ \E d \in Downloads : \E targets \in SUBSET operations[d].episodes \ {{}} :
        SelectSearch(d, targets)
  \/ \E d \in Downloads : EndContinuation(d) \/ SearchUnreadable(d)
  \/ PlanDone
  \/ \E p \in plans : Skip(p) \/ Execute(p)
  \/ \E p \in plans : \E targets \in SUBSET operations[p.download].episodes \ {{}} :
        Search(p, targets)
  \/ Transmit
  \/ \E ack \in BOOLEAN : Respond(ack)
  \/ EndCycle
  \/ FinishTrigger
  \/ Exit

Next ==
  \/ Observe
  \/ \E r \in Requests : Accept(r)
  \/ \E c \in Configs : Open(c)
  \/ Stop
  \/ Crash
  \/ Tick

Spec == Init /\ [][Next]_vars

\* The observer's loop and the clock go on (Run polls, every call of Sonarr has
\* a timeout), and a process that stopped is started again.
FairSpec ==
  Spec /\ WF_vars(Observe) /\ WF_vars(Tick) /\ WF_vars(\E c \in Configs : Open(c))

----------------------------------------------------------------------------
(* Properties. *)

Conflicting(s, t) ==
  s.download = t.download \/ s.decision.episodes \cap t.decision.episodes # {}
SameImport(s, t) ==
  /\ s.decision.kind = "import" /\ t.decision.kind = "import"
  /\ s.download = t.download /\ s.decision.fingerprint = t.decision.fingerprint
\* Two records, of an attempt or of its transmission, are about the same one.
SameAttempt(s, a) ==
  s.id = a.id /\ s.started = a.started /\ s.download = a.download /\ s.decision = a.decision

\* The transmissions up to the j-th that satisfy P.
Sent(j, P(_)) == {i \in 1..j : P(sent[i])}

\* A mutation whose outcome is unknown (sent, lost, unacknowledged, past its
\* deadline, before or after a restart) is never replayed: no other mutation
\* of its download or of one of its episodes is sent before it is resolved.
NoReplay ==
  \A i, j \in DOMAIN sent :
    i < j /\ sent[i].end = "open" /\ sent[j].end = "open" => ~Conflicting(sent[i], sent[j])

\* reserve: whatever is sent is in the committed store before it is sent and
\* stays there while its outcome is open, whichever save fails or however
\* the process dies.
WriteAhead ==
  \A i \in DOMAIN sent : sent[i].end = "open" =>
    /\ \E a \in disk.attempts : SameAttempt(sent[i], a) /\ Pending(a)
    /\ \E a \in attempts : SameAttempt(sent[i], a) /\ Pending(a)

\* Config.Limits.MutationsPerHour bounds what is sent in any rolling hour,
\* over restarts, pruning, failed saves and manual requests.
HourlyBudget ==
  \A j \in DOMAIN sent :
    LET Recent(s) == sent[j].started < s.started + Hour
    IN  Cardinality(Sent(j, Recent)) <= HourLimit

\* Config.Recovery.MaxAttempts bounds the imports of an unchanged candidate as
\* long as the first of them is within the history retention.
AttemptCap ==
  \A j \in DOMAIN sent :
    LET Retained(s) == SameImport(s, sent[j]) /\ sent[j].started < s.started + Retention
    IN  Cardinality(Sent(j, Retained)) <= MaxAttempts

\* Config.Limits.EpisodeCooldown: after a verified outcome nothing else is sent
\* for its download or episodes, but for the search that follows a removal and
\* for requests that override waits.
CooldownRespected ==
  \A i, j \in DOMAIN sent :
    /\ i < j /\ Conflicting(sent[i], sent[j]) /\ ~sent[j].override
    /\ sent[i].end \in {"verified", "submitted"}
    /\ ~(sent[j].decision.kind = "search" /\ sent[i].decision.kind = "remove_unusable")
    => sent[i].ended + Cooldown <= sent[j].started

\* Config.Recovery.RetryInterval separates the imports of one candidate, as
\* long as the history retention covers it.
RetryRespected ==
  \A i, j \in DOMAIN sent :
    i < j /\ SameImport(sent[i], sent[j])
    => sent[i].end # "open" /\ sent[i].ended + RetryInterval <= sent[j].started

\* A verified unusable removal leads to one replacement search at most, and
\* nothing else leads to one, over crashes between any two of its steps.
SearchFollowsRemoval ==
  \A j \in DOMAIN sent :
    LET Search_(s) == s.download = sent[j].download /\ s.decision.kind = "search"
        Removal(s) == /\ s.download = sent[j].download /\ s.end = "verified"
                      /\ s.decision.kind = "remove_unusable"
    IN  sent[j].decision.kind = "search" =>
          Cardinality(Sent(j, Search_)) <= Cardinality(Sent(j, Removal))

\* What a save leaves behind, Open accepts: the receipts of manual requests
\* and the attempts they made name each other, through every prune.
ReceiptsValid == ValidReceipts(disk)

\* A search that is due finds the issue it was observed as (searchDecision
\* stops the service otherwise) and the removal that justifies it, under the
\* ID it was recorded with.
ContinuationIntact ==
  \A d \in Downloads : operations[d].state = "pending-search" =>
    /\ issues[d].state # "none"
    /\ \E a \in attempts : /\ a.id = operations[d].removal /\ a.download = d
                           /\ a.decision.kind = "remove_unusable" /\ a.outcome = "verified"

\* A background cycle in dry-run mode sends nothing, whatever earlier runs of
\* the process left to be done.
DryRunSilent ==
  \A i \in DOMAIN sent : sent[i].dryRun => sent[i].request # Background

\* Terminal outcomes are durable for good: a committed outcome that protects,
\* counts or justifies something is never taken back by a later save.
OutcomesFinal ==
  [][\A a \in disk.attempts : a.outcome \in {"verified", "submitted", "failed"} =>
       \A b \in disk'.attempts :
          b.id = a.id /\ b.started = a.started => b.outcome = a.outcome]_vars

\* A manual request executes once at most: it is not executed again after it
\* has sent something, whether it was finished, interrupted or pruned.
ManualOnce ==
  [][\A r \in Requests : request' = r /\ request # r =>
       \A i \in DOMAIN sent : sent[i].request # r]_vars

\* The process keeps dying or refusing its cycles.
Faulty == []<><<Crash \/ CycleRefused \/ Stop>>_vars

\* An accepted request does not stay accepted: it is finished, whatever fails
\* in its cycle, or interrupted by the restart that follows a crash.
RequestEnds ==
  \A r \in Requests : triggers[r].status = "accepted" ~> triggers[r].status # "accepted"

\* A mutation does not stay "intent" or "pending": by its deadline it is
\* resolved, or shown to the operator as uncertain or partial, even if
\* no scan ever succeeds.
NoSilentWait ==
  \A d \in Downloads :
    Faulty \/ ((\E a \in attempts : /\ a.download = d /\ a.outcome \in {"intent", "pending"}
                                   /\ Overdue(a, MaxTime))
               ~> \A a \in attempts : a.download = d /\ Overdue(a, MaxTime)
                                     => a.outcome \notin {"intent", "pending"})

=============================================================================
