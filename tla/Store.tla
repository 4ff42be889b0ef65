------------------------------- MODULE Store -------------------------------
(***************************************************************************)
(* The durable store of internal/state: what the observer remembers        *)
(* (Data), the one-transaction Save that makes it durable, what Open does  *)
(* to it after a restart, and what Prune may forget.                       *)
(*                                                                         *)
(* The variables attempts, issues, operations and triggers are the fields  *)
(* of Store.Data that decide what the service does; disk is the last       *)
(* committed transaction.  A download without an issue or an operation,    *)
(* and a request without a receipt, have state "none".  Time is a natural  *)
(* number of ticks; 0 is Go's zero time and no clock ever shows it.        *)
(***************************************************************************)
EXTENDS Naturals, FiniteSets

CONSTANTS
  Downloads,     \* Sonarr download IDs
  Episodes,      \* episode IDs
  Fingerprints,  \* what identifies an unchanged candidate
  Requests,      \* identifiers of manual requests that execute
  Background,    \* the absence of a request: an automatic cycle
  Hour,          \* the rolling window of the mutation budget
  Cooldown,      \* Config.Limits.EpisodeCooldown
  Retention      \* Config.HistoryRetention

ASSUME StoreAssumption ==
  /\ Background \notin Requests
  /\ Hour \in Nat \ {0} /\ Cooldown \in Nat \ {0} /\ Retention \in Nat \ {0}

VARIABLES
  now,         \* the wall clock
  attempts,    \* Data.Attempts: a set, IDs give the order of the slice
  issues,      \* Data.Issues
  operations,  \* Data.Operations: replacement-search continuations
  triggers,    \* Data.Triggers: receipts of manual requests
  disk         \* the records the last committed transaction wrote

dataVars == <<attempts, issues, operations, triggers>>

----------------------------------------------------------------------------
Removals == {"remove_redundant", "remove_unusable", "remove_blocked"}
Kinds == {"import", "search"} \cup Removals
Unresolved == {"intent", "pending", "uncertain", "partial"}
Outcomes == Unresolved \cup {"verified", "submitted", "failed", "recommended"}

Decision == [kind : Kinds, fingerprint : Fingerprints,
             episodes : SUBSET Episodes, blocklist : BOOLEAN]

\* evidence abstracts VerifiedEpisodes (non-empty) and RemovalVerified: the
\* part of an outcome that has been verified and is never withdrawn.
Attempt == [id : Nat \ {0}, download : Downloads, decision : Decision,
            dryRun : BOOLEAN, started : Nat, finished : Nat,
            outcome : Outcomes, ack : BOOLEAN, evidence : BOOLEAN,
            request : Requests \cup {Background}]

\* Every status but "resolved" is "open": the others are read by nobody.
Issue == [state : {"none", "open", "resolved"}, resolvedAt : Nat]
Operation == [state : {"none", "pending-search", "search-attempted", "finished"},
              removal : Nat, episodes : SUBSET Episodes]
Receipt == [status : {"none", "accepted", "finished", "interrupted"},
            finished : Nat, attempts : SUBSET (Nat \ {0})]

NoIssue == [state |-> "none", resolvedAt |-> 0]
NoOperation == [state |-> "none", removal |-> 0, episodes |-> {}]
NoReceipt == [status |-> "none", finished |-> 0, attempts |-> {}]

Data == [attempts : SUBSET Attempt, issues : [Downloads -> Issue],
         operations : [Downloads -> Operation], triggers : [Requests -> Receipt]]

Snapshot == [attempts |-> attempts, issues |-> issues,
             operations |-> operations, triggers |-> triggers]

StoreTypeOK == now \in Nat \ {0} /\ Snapshot \in Data /\ disk \in Data

\* A fresh store that Open has initialised and saved.
StoreInit ==
  /\ now = 1
  /\ attempts = {}
  /\ issues = [d \in Downloads |-> NoIssue]
  /\ operations = [d \in Downloads |-> NoOperation]
  /\ triggers = [r \in Requests |-> NoReceipt]
  /\ disk = Snapshot

\* Save writes all records in one transaction: all of them or none.
SaveCommits == disk' = Snapshot'
SaveFails == disk' = disk

----------------------------------------------------------------------------
PendingWithoutUncertain(a) == ~a.dryRun /\ a.outcome \in Unresolved \ {"uncertain"}
Pending(a) == ~a.dryRun /\ a.outcome \in Unresolved

HasPending(d) == \E a \in attempts : a.download = d /\ Pending(a)

BudgetAcknowledged(t) ==
  Cardinality({a \in attempts : a.ack /\ a.started + Hour > t})
Budget(t) == Cardinality({a \in attempts : ~a.dryRun /\ a.started + Hour > t})

Ended(a) == IF a.finished = 0 THEN a.started ELSE a.finished

\* nextID: one more than the largest ID still in the store.
IsNextID(n) ==
  /\ \A a \in attempts : a.id < n
  /\ n = 1 \/ \E a \in attempts : n = a.id + 1

----------------------------------------------------------------------------
(* Retention: retainAttempt and Prune. *)

OpenOperation(d) == operations[d].state \notin {"none", "finished"}

NeededOnceSearched(a) ==
  operations[a.download].state = "search-attempted" /\ operations[a.download].removal = a.id
NeededForContinuation(a) ==
  OpenOperation(a.download) /\ operations[a.download].removal = a.id

RetainAttempt(a, t) ==
  \/ Pending(a)
  \/ issues[a.download].state = "open"
  \/ NeededForContinuation(a)
  \/ a.started + Hour > t
  \/ a.finished # 0 /\ a.finished + Cooldown > t
  \/ Ended(a) + Retention > t

\* A receipt outlives its retention while it is accepted or while one of its
\* attempts is retained or has a continuation.
ReceiptKeptByAge(r, t) ==
  \/ triggers[r].status = "accepted"
  \/ triggers[r].finished = 0 \/ t <= triggers[r].finished + Retention

ReceiptKept(r, t) ==
  \/ triggers[r].status = "accepted"
  \/ \E a \in attempts : a.request = r /\ (RetainAttempt(a, t) \/ OpenOperation(a.download))
  \/ triggers[r].finished = 0 \/ t <= triggers[r].finished + Retention

IssueExpired(d, t) ==
  /\ issues[d].state = "resolved" /\ issues[d].resolvedAt # 0
  /\ t > issues[d].resolvedAt + Retention
  /\ ~HasPending(d) /\ ~OpenOperation(d)

Prune(t) ==
  LET expired == {d \in Downloads : IssueExpired(d, t)}
      kept == {r \in Requests : ReceiptKept(r, t)}
      referenced == UNION {triggers[r].attempts : r \in kept}
  IN  /\ triggers' = [r \in Requests |-> IF r \in kept THEN triggers[r] ELSE NoReceipt]
      /\ issues' = [d \in Downloads |-> IF d \in expired THEN NoIssue ELSE issues[d]]
      /\ operations' = [d \in Downloads |->
                          IF d \in expired THEN NoOperation ELSE operations[d]]
      /\ attempts' = {a \in attempts : a.id \in referenced \/ RetainAttempt(a, t)}

----------------------------------------------------------------------------
(* Open: what a restart makes of the records it finds. *)

\* validateReceipts: receipts and manual attempts name each other exactly.
ValidReceipts(data) ==
  /\ \A r \in Requests : \A i \in data.triggers[r].attempts :
        \E a \in data.attempts : a.id = i /\ a.request = r
  /\ \A a \in data.attempts : a.request # Background =>
        /\ data.triggers[a.request].status # "none"
        /\ a.id \in data.triggers[a.request].attempts

Interrupted(a) == IF a.outcome = "intent" THEN [a EXCEPT !.outcome = "uncertain"] ELSE a

RecoveredUnlessIntent(data) == {a \in data.attempts : a.outcome # "intent"}
Recovered(data) == {Interrupted(a) : a \in data.attempts}

Recover ==
  /\ ValidReceipts(disk)
  /\ attempts' = Recovered(disk)
  /\ triggers' = [r \in Requests |->
        IF disk.triggers[r].status = "accepted"
        THEN [disk.triggers[r] EXCEPT !.status = "interrupted", !.finished = now]
        ELSE disk.triggers[r]]
  /\ issues' = disk.issues
  /\ operations' = disk.operations

\* A crash loses what was not committed.
Forget ==
  /\ attempts' = disk.attempts
  /\ issues' = disk.issues
  /\ operations' = disk.operations
  /\ triggers' = disk.triggers
=============================================================================
