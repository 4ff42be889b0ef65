------------------------------ MODULE QueueScan ------------------------------
(***************************************************************************)
(* A paged scan of internal/sonarr: pages reads one page after another of a *)
(* list that Sonarr goes on changing, and Queue starts a scan that looks    *)
(* wrong again.  History and Blocklist are the same scan with one try.      *)
(*                                                                         *)
(* Sonarr sorts the queue by the time left, so rows arrive and move at any  *)
(* place.  A page is one request: its rows and the reported total belong    *)
(* together, but two pages need not.                                        *)
(***************************************************************************)
EXTENDS Naturals, FiniteSets, SequencesExt

CONSTANTS
  Rows,       \* the queue rows that may exist
  Malformed,  \* those without the identities a tracked row needs
  PageSize,   \* rows per page (100)
  MaxPages,   \* pages per scan (1000)
  Tries       \* scans before Queue gives up (3)

ASSUME QueueScanAssumption ==
  /\ IsFiniteSet(Rows) /\ Malformed \subseteq Rows
  /\ PageSize \in Nat \ {0} /\ MaxPages \in Nat \ {0} /\ Tries \in Nat \ {0}

VARIABLES
  queue,    \* Sonarr's queue, in the order it is paged
  outcome,  \* "idle", "reading", "complete" or "failed"
  try,      \* which scan this is, from 1
  page,     \* the page to read next
  all,      \* the rows read so far
  total,    \* totalRecords of the first page, Unknown before it
  before,   \* history: the rows queued when the first page was read
  ever      \* history: the rows queued at some time since then

readingVars == <<outcome, try, page, all, total>>
historyVars == <<before, ever>>
scanVars == <<queue, readingVars, historyVars>>

Unknown == MaxPages * PageSize + 1
Queued == ToSet(queue)

Queues == {q \in UNION {[1..n -> Rows] : n \in 0..Cardinality(Rows)} : IsInjective(q)}

ScanTypeOK ==
  /\ queue \in Queues /\ all \in Queues
  /\ outcome \in {"idle", "reading", "complete", "failed"}
  /\ try \in 1..Tries /\ page \in 1..MaxPages
  /\ total \in 0..Unknown
  /\ before \subseteq ever /\ ever \subseteq Rows

\* pages starts with nothing read.
Fresh == page' = 1 /\ all' = <<>> /\ total' = Unknown

ScanInit ==
  /\ queue \in Queues
  /\ outcome = "idle" /\ try = 1 /\ page = 1 /\ all = <<>> /\ total = Unknown
  /\ before = {} /\ ever = {}

----------------------------------------------------------------------------
(* Sonarr. *)

\* While a scan reads, its history follows the queue.
Followed ==
  IF outcome = "reading" /\ total # Unknown
  THEN ever' = ever \cup ToSet(queue') /\ UNCHANGED before
  ELSE UNCHANGED historyVars

\* Between two requests rows arrive, leave and move, any number of them.
SonarrChanges ==
  /\ outcome = "reading"
  /\ \E q \in Queues : q # queue /\ queue' = q
  /\ Followed
  /\ UNCHANGED readingVars

----------------------------------------------------------------------------
(* The scan. *)

Begin ==
  /\ outcome # "reading" /\ outcome' = "reading"
  /\ try' = 1 /\ Fresh
  /\ before' = {} /\ ever' = {}
  /\ UNCHANGED queue

\* A scan that looks wrong is started again, twice at most.
RetryWithoutEnd ==
  /\ outcome' = "reading" /\ Fresh /\ UNCHANGED try
Retry ==
  IF try < Tries
  THEN outcome' = "reading" /\ try' = try + 1 /\ Fresh
  ELSE outcome' = "failed" /\ UNCHANGED <<try, page, all, total>>

\* The records of page n.
Records(n) == SubSeq(queue, (n - 1) * PageSize + 1,
                     IF n * PageSize < Len(queue) THEN n * PageSize ELSE Len(queue))

\* What makes a page, read after the rows of all, contradict the others.
ContradictsUnlessSeen(records, reported) ==
  \/ reported > MaxPages * PageSize
  \/ total # Unknown /\ total # reported
  \/ Len(all) + Len(records) > reported
Contradicts(records, reported) ==
  \/ reported > MaxPages * PageSize
  \/ total # Unknown /\ total # reported
  \/ ToSet(records) \cap ToSet(all) # {}
  \/ Len(all) + Len(records) > reported

\* The history starts at the first page of a scan.
Recorded ==
  IF page = 1
  THEN before' = Queued /\ ever' = Queued
  ELSE UNCHANGED historyVars

\* A list that is not read to its end goes on after a full page.
More(records) == Len(records) = PageSize /\ page < MaxPages

ReadPage ==
  LET records == Records(page)
      reported == Len(queue)
      read == all \o records
      ends == Len(read) = reported
  IN  /\ outcome = "reading"
      /\ Recorded
      /\ UNCHANGED queue
      /\ \/ /\ ~Contradicts(records, reported) /\ ends
            /\ outcome' = IF ToSet(read) \cap Malformed = {} THEN "complete" ELSE "failed"
            /\ all' = read /\ total' = reported
            /\ UNCHANGED <<try, page>>
         \/ /\ ~Contradicts(records, reported) /\ ~ends /\ More(records)
            /\ page' = page + 1 /\ all' = read /\ total' = reported
            /\ UNCHANGED <<outcome, try>>
         \/ /\ Contradicts(records, reported) \/ (~ends /\ ~More(records))
            /\ Retry

\* A transport error, an error status or a page that does not parse.
ReadFails ==
  /\ outcome = "reading"
  /\ Retry
  /\ UNCHANGED <<queue, historyVars>>

\* The cycle's deadline ends the tries at once.
Deadline ==
  /\ outcome = "reading" /\ outcome' = "failed"
  /\ UNCHANGED <<queue, try, page, all, total, historyVars>>

ScanNext == SonarrChanges \/ Begin \/ ReadPage \/ ReadFails \/ Deadline

ScanSpec == ScanInit /\ [][ScanNext]_scanVars

\* Every request has a timeout: it is answered or fails.
FairScanSpec == ScanSpec /\ WF_scanVars(ReadPage \/ ReadFails \/ Deadline)

----------------------------------------------------------------------------
(* Properties. *)

\* A successful scan shows no row of an earlier, rejected scan and no row that
\* Sonarr did not show while it was read; and of a queue that no other row
\* joined meanwhile it is exact: rows that move between pages, or leave and come
\* back, are neither lost nor counted twice (pages, and the retries of Queue).
ScanTruthful ==
  outcome = "complete" => ToSet(all) \subseteq ever /\ (before = ever => ToSet(all) = before)

\* Every scan ends, however long Sonarr keeps changing its queue or failing.
ScanEnds == outcome = "reading" ~> outcome # "reading"

=============================================================================
