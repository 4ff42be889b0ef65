----------------------------- MODULE WaitClock -----------------------------
(***************************************************************************)
(* The waits of internal/service: how Cycle advances, freezes and resets   *)
(* the eligibility and rejection clocks of each issue, scan by scan, over  *)
(* missed polls, failed reads, restarts and manual cycles that look at     *)
(* selected downloads only.  Remediator leaves these clocks out.           *)
(*                                                                         *)
(* A scan shows each download as absent or as rows with an identity, which *)
(* are eligible or protected.  Whether its candidate is rejected is only   *)
(* known of the selected downloads.  Scan, verification and actions of one *)
(* cycle share the time the cycle read.  Every status of an issue but      *)
(* "resolved" is "open"; continuations, which keep an issue from being     *)
(* pruned, are left to Remediator.  Time 0 is Go's zero time; every scan   *)
(* is more than two polls after it.                                        *)
(*                                                                         *)
(* What a scan makes of the clocks is in memory until the next save: that  *)
(* of an intent, that of the end of the cycle, or that of a receipt.  A    *)
(* process that ends before it loses the scan, its resets as well as its   *)
(* progress.  A failed save ends an automatic cycle and the process (as    *)
(* Restart does, after a last save or not); after a manual one the process *)
(* goes on with what it has in memory.                                     *)
(***************************************************************************)
EXTENDS Integers

CONSTANTS
  Downloads, Identities,
  Poll,           \* Config.PollInterval
  RecoveryWait,   \* Config.Recovery.Wait
  CleanupWait,    \* Config.Cleanup.Wait
  Retention,      \* Config.HistoryRetention
  MaxTime         \* bound on the clock

ASSUME WaitClockAssumption ==
  /\ Poll \in Nat \ {0} /\ RecoveryWait \in Nat \ {0} /\ CleanupWait \in Nat \ {0}
  /\ Retention \in Nat \ {0}
  /\ MaxTime \in Nat

VARIABLES
  now,       \* the wall clock
  cycle,     \* what the service does at this time
  previous,  \* s.previous: the last complete scan, 0 after a failure or a start
  issues,    \* Data.Issues, for each download
  pending,   \* the downloads with an unresolved attempt
  watch,     \* history: what the complete scans have shown of each download
  saved      \* the last committed issues and attempts, and the history of then

vars == <<now, cycle, previous, issues, pending, watch, saved>>

Rows == [status : {"absent"}]
          \cup [status : {"protected", "eligible"}, identity : Identities, rejected : BOOLEAN]
Absent == [status |-> "absent"]

Issue == [state : {"none", "open", "resolved"}, identity : Identities \cup {"none"},
          eligible : BOOLEAN, elapsed : Nat, lastSeen : Nat,
          rejected : BOOLEAN, rejectedElapsed : Nat, rejectedLastSeen : Nat,
          resolvedAt : Nat]
NoIssue == [state |-> "none", identity |-> "none", eligible |-> FALSE, elapsed |-> 0,
            lastSeen |-> 0, rejected |-> FALSE, rejectedElapsed |-> 0, rejectedLastSeen |-> 0,
            resolvedAt |-> 0]

\* scan: the last complete scan, forgotten in a gap; most and least: the time
\* watched as eligible under this identity, since it was last protected and
\* since it was last anything else; rejected: since when it is rejected.
Watch == [scan : Nat, rows : Rows, identity : Identities \cup {"none"},
          most : Nat, least : Nat, rejected : Nat]
NoWatch == [scan |-> 0, rows |-> Absent, identity |-> "none",
            most |-> 0, least |-> 0, rejected |-> 0]

TypeOK ==
  /\ now \in Nat \ {0} /\ cycle \in {"due", "verify", "plan", "over"} /\ previous \in Nat
  /\ issues \in [Downloads -> Issue]
  /\ pending \in SUBSET Downloads
  /\ watch \in [Downloads -> Watch]
  /\ saved \in [issues : [Downloads -> Issue], pending : SUBSET Downloads,
                watch : [Downloads -> Watch]]

Init ==
  /\ now = 2 * Poll + 1 /\ cycle = "due" /\ previous = 0
  /\ issues = [d \in Downloads |-> NoIssue]
  /\ pending = {}
  /\ watch = [d \in Downloads |-> NoWatch]
  /\ saved = [issues |-> issues, pending |-> pending, watch |-> watch]

Least(a, b) == IF a < b THEN a ELSE b

----------------------------------------------------------------------------
(* What Cycle makes of the issue i of a download shown as rows r. *)

StartedOverOnReturn(i, r) ==
  IF r.status # "eligible" \/ ~i.eligible \/ i.state = "resolved"
  THEN [i EXCEPT !.elapsed = 0, !.rejected = FALSE, !.rejectedElapsed = 0,
                 !.rejectedLastSeen = 0]
  ELSE i
StartedOver(i, r) ==
  IF \/ r.identity # i.identity \/ r.status # "eligible" \/ ~i.eligible
     \/ i.state = "resolved"
  THEN [i EXCEPT !.elapsed = 0, !.rejected = FALSE, !.rejectedElapsed = 0,
                 !.rejectedLastSeen = 0]
  ELSE i

AdvancedInTime(i, r) ==
  IF /\ r.status = "eligible" /\ i.eligible /\ r.identity = i.identity
     /\ previous # 0 /\ previous < now /\ now - previous <= Poll
     /\ i.lastSeen = previous
  THEN [i EXCEPT !.elapsed = @ + Least(Poll, now - previous)]
  ELSE i

\* Time counts between two complete scans that both show the download, at most
\* two polls apart, and then for one poll at most.
Advanced(i, r) ==
  IF /\ r.status = "eligible" /\ i.eligible /\ r.identity = i.identity
     /\ previous # 0 /\ previous < now /\ now - previous <= 2 * Poll
     /\ i.lastSeen = previous
  THEN [i EXCEPT !.elapsed = @ + Least(Poll, now - previous)]
  ELSE i

\* The rejection clock of an observed download runs from its own last
\* observation, so that a manual cycle for another one does not consume it.
RejectionObservedAgain(i, r) ==
  [i EXCEPT !.rejected = r.rejected,
            !.rejectedLastSeen = IF r.rejected THEN now ELSE 0,
            !.rejectedElapsed =
              IF /\ r.rejected /\ previous # 0
                 /\ i.rejectedLastSeen < now /\ now - i.rejectedLastSeen <= 2 * Poll
              THEN @ + Least(Poll, now - i.rejectedLastSeen) ELSE @]
RejectionObserved(i, r) ==
  [i EXCEPT !.rejected = r.rejected,
            !.rejectedLastSeen = IF r.rejected THEN now ELSE 0,
            !.rejectedElapsed =
              IF ~r.rejected THEN 0
              ELSE IF /\ i.rejected /\ previous # 0
                      /\ i.rejectedLastSeen < now /\ now - i.rejectedLastSeen <= 2 * Poll
              THEN @ + Least(Poll, now - i.rejectedLastSeen) ELSE @]

Shown(d, r, selected) ==
  LET clocks == Advanced(StartedOver(issues[d], r), r)
      observed == IF r.status = "eligible" /\ d \in selected
                  THEN RejectionObserved(clocks, r) ELSE clocks
  IN  [observed EXCEPT
         !.identity = r.identity, !.eligible = (r.status = "eligible"), !.lastSeen = now,
         !.resolvedAt = 0,
         !.state = IF \/ issues[d].state = "none"
                      \/ r.status # "eligible" /\ d \notin pending THEN "open" ELSE @]

Vanished(d) ==
  IF issues[d].state = "open" /\ d \notin pending
  THEN [issues[d] EXCEPT !.state = "resolved", !.resolvedAt = now,
                         !.eligible = FALSE, !.elapsed = 0, !.rejected = FALSE, !.rejectedElapsed = 0, !.rejectedLastSeen = 0]
  ELSE issues[d]

Observed(d, r, selected) ==
  CASE r.status = "absent" -> Vanished(d)
    [] r.status = "protected" /\ issues[d].state = "none" -> NoIssue
    [] OTHER -> Shown(d, r, selected)

\* Prune forgets an issue that has been resolved for longer than the retention.
Pruned(i) ==
  IF i.state = "resolved" /\ i.resolvedAt # 0 /\ now > i.resolvedAt + Retention
  THEN NoIssue ELSE i

\* The history of download d after a complete scan.
Watched(d, r) ==
  LET w == watch[d]
      same == r.status # "absent" /\ w.identity = r.identity
      counts == /\ same /\ r.status = "eligible" /\ w.rows.status = "eligible"
                /\ w.scan # 0 /\ now - w.scan <= 2 * Poll
      time == IF counts THEN Least(Poll, now - w.scan) ELSE 0
  IN  [scan |-> now, rows |-> r,
       identity |-> IF r.status = "absent" THEN w.identity ELSE r.identity,
       most |-> IF r.status = "absent" \/ (same /\ r.status = "eligible")
                THEN w.most + time ELSE 0,
       least |-> IF same /\ r.status = "eligible" THEN w.least + time ELSE 0,
       rejected |-> 0]

\* Since when the download is rejected: an observation that is not a rejection
\* ends it, and so does another identity or a protected state.
RejectedSince(d, r, selected) ==
  CASE r.status = "absent" -> IF d \in pending THEN watch[d].rejected ELSE 0
    [] r.status = "eligible" /\ d \in selected ->
         IF ~r.rejected THEN 0
         ELSE IF watch[d].rejected = 0 \/ watch[d].identity # r.identity THEN now
         ELSE watch[d].rejected
    [] r.status = "eligible" /\ d \notin selected /\ watch[d].identity = r.identity ->
         watch[d].rejected
    [] OTHER -> 0

----------------------------------------------------------------------------
(* Cycles, actions, saves and restarts. *)

\* A gap: no time is counted from what was seen before it.
Gap(w) == [d \in Downloads |-> [w[d] EXCEPT !.scan = 0]]

\* Save, when everything else of the step is done.
Commits == saved' = [issues |-> issues', pending |-> pending', watch |-> Gap(watch')]
Saves(succeeds) == IF succeeds THEN Commits ELSE UNCHANGED saved

\* A complete scan; an automatic cycle selects every download.
Scan(q, selected) ==
  /\ cycle = "due" /\ cycle' = "verify"
  /\ issues' = [d \in Downloads |-> Observed(d, q[d], selected)]
  /\ watch' = [d \in Downloads |-> [Watched(d, q[d]) EXCEPT
                                      !.rejected = RejectedSince(d, q[d], selected)]]
  /\ previous' = now
  /\ UNCHANGED <<now, pending, saved>>

\* failed: a required read failed.
ScanFails(succeeds) ==
  /\ cycle = "due" /\ cycle' = "over"
  /\ previous' = 0
  /\ issues' = [d \in Downloads |-> [issues[d] EXCEPT !.rejectedLastSeen = 0]]
  /\ watch' = Gap(watch)
  /\ UNCHANGED <<now, pending>>
  /\ Saves(succeeds)

\* The end of a cycle that has scanned.  One that an error ends does not prune.
EndCycle(error, succeeds) ==
  /\ cycle \in {"verify", "plan"} /\ cycle' = "over"
  /\ issues' = IF error THEN issues ELSE [d \in Downloads |-> Pruned(issues[d])]
  /\ UNCHANGED <<now, previous, pending, watch>>
  /\ Saves(succeeds)

\* Between cycles the receipt of a manual request is saved, and the end of Run.
SaveReceipt ==
  /\ cycle \in {"due", "over"}
  /\ UNCHANGED <<now, cycle, previous, issues, pending, watch>>
  /\ Commits

\* The process ends or crashes, and the next one begins with what was saved.
\* s.previous is not persistent.  No two cycles read the same time.
Restart ==
  /\ previous' = 0
  /\ cycle' = IF cycle = "due" THEN "due" ELSE "over"
  /\ issues' = saved.issues /\ pending' = saved.pending /\ watch' = saved.watch
  /\ UNCHANGED <<now, saved>>

\* verify ends the action of d: its outcome is verified, or a known failure.
End(d, verified) ==
  /\ cycle = "verify" /\ d \in pending
  /\ pending' = pending \ {d}
  /\ issues' = IF verified /\ issues[d].state # "none"
               THEN [issues EXCEPT ![d].state = "resolved", ![d].resolvedAt = now]
               ELSE issues
  /\ UNCHANGED <<now, cycle, previous, watch, saved>>

CleanupElapsed(i) == IF i.rejected THEN i.rejectedElapsed ELSE i.elapsed

\* A candidate whose wait is over gets an action.  A manual request may waive
\* the wait, and the removal of a mismatched or executable release has none.  An
\* intent that cannot be saved ends the cycle and stays in memory.
Begin(d, kind, waived, succeeds) ==
  /\ cycle \in {"verify", "plan"} /\ cycle' = IF succeeds THEN "plan" ELSE "over"
  /\ issues[d].lastSeen = now /\ issues[d].eligible
  /\ issues[d].state # "resolved" /\ d \notin pending
  /\ CASE waived -> TRUE
       [] kind = "import" -> issues[d].elapsed >= RecoveryWait
       [] kind = "remove" -> CleanupElapsed(issues[d]) >= CleanupWait
  /\ pending' = pending \cup {d}
  /\ UNCHANGED <<now, previous, issues, watch>>
  /\ Saves(succeeds)

Tick ==
  /\ cycle \in {"due", "over"}
  /\ now < MaxTime /\ now' = now + 1 /\ cycle' = "due"
  /\ UNCHANGED <<previous, issues, pending, watch, saved>>

Next ==
  \/ \E q \in [Downloads -> Rows], selected \in SUBSET Downloads : Scan(q, selected)
  \/ \E succeeds \in BOOLEAN :
       \/ ScanFails(succeeds)
       \/ \E error \in BOOLEAN : EndCycle(error, succeeds)
       \/ \E d \in Downloads, kind \in {"import", "remove"}, waived \in BOOLEAN :
            Begin(d, kind, waived, succeeds)
  \/ SaveReceipt \/ Restart
  \/ \E d \in Downloads, verified \in BOOLEAN : End(d, verified)
  \/ Tick

Spec == Init /\ [][Next]_vars

----------------------------------------------------------------------------
(* Properties. *)

\* All three are about the scans of this process and those that were saved: the
\* history goes back with the clocks when a process ends before it has saved.

\* The eligibility clock never runs ahead of the time its download was watched
\* as eligible under one identity: downtime, failed scans and missed polls do
\* not count, and neither does what was seen before it was last protected.  A
\* crash between a scan and a save leaves no clock that mixes the two.
OnlyWatchedTime ==
  \A d \in Downloads : issues[d].elapsed <= watch[d].most

\* It does not lag behind either: as long as the issue is not taken for
\* resolved, every watched poll counts, over gaps, over other downloads' manual
\* cycles and over restarts, but for the scans that were never saved.
WaitsNoLonger ==
  \A d \in Downloads :
    issues[d].state = "open" /\ watch[d].rows.status = "eligible"
    => watch[d].least <= issues[d].elapsed

\* The rejection clock of an issue that is open only holds time since the
\* download was last observed as something else than rejected under its identity,
\* in a scan that was not lost.
RejectedContinuously ==
  \A d \in Downloads :
    issues[d].state = "open" /\ issues[d].rejectedElapsed > 0 =>
      /\ watch[d].rejected # 0
      /\ watch[d].rejected + issues[d].rejectedElapsed <= issues[d].lastSeen

\* A download that is watched as eligible for the whole recovery wait becomes a
\* candidate, whatever was seen of it before.
BecomesDue ==
  \A d \in Downloads :
    /\ watch[d].scan = now /\ watch[d].rows.status = "eligible"
    /\ watch[d].least >= RecoveryWait
    => d \in pending \/ (issues[d].state # "resolved" /\ issues[d].elapsed >= RecoveryWait)
=============================================================================
