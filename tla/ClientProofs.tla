---------------------------- MODULE ClientProofs ----------------------------
(***************************************************************************)
(* What the reads of the Sonarr client can be trusted for.  The fresh       *)
(* checks of Reads, for any resources, plans and values: the cache they     *)
(* start with is empty, so whatever it answers was read after they began.   *)
(* The scans of QueueScan, for any rows and sizes: a scan whose pages do    *)
(* not contradict each other has as many different rows as were queued when *)
(* it began.                                                                *)
(***************************************************************************)
EXTENDS Reads, QueueScan, FiniteSetTheorems, FunctionTheorems, SequenceTheorems, TLAPS

----------------------------------------------------------------------------
(* A failed read ends the mutations of a cycle. *)

\* A plan is only checked, and sent, as long as no required read has failed.
SilentInv == pc \in {"check", "sent"} => ~failure

\* Once a required read has failed, in verification or in fresh checks, the
\* cycle sends nothing more, whatever it has planned (Cycle, execute).
THEOREM AlwaysSilent == Spec => []SilentAfterFailure
  <1>1. Init => SilentInv
    BY DEF Init, SilentInv
  <1>2. SilentInv /\ [Next]_vars => SilentInv'
    <2> SUFFICES ASSUME SilentInv, [Next]_vars
                 PROVE  SilentInv'
      OBVIOUS
    <2>1. CASE Start
      BY <2>1 DEF Start, SilentInv
    <2>2. ASSUME NEW r, NEW answer, Observe(r, answer)
          PROVE  SilentInv'
      BY <2>2 DEF Observe, SilentInv
    <2>3. ASSUME NEW r, NEW answer, Verify(r, answer)
          PROVE  SilentInv'
      BY <2>3 DEF Verify, SilentInv
    <2>4. ASSUME NEW r, NEW answer, Check(r, answer)
          PROVE  SilentInv'
      BY <2>4 DEF Check, SilentInv
    <2>5. ASSUME NEW chosen, Plan(chosen)
          PROVE  SilentInv'
      BY <2>5 DEF Plan, SilentInv
    <2>6. ASSUME NEW p, Execute(p) \/ Refuse(p) \/ Send(p)
          PROVE  SilentInv'
      BY <2>6 DEF Execute, Refuse, Send, MayExecute, SilentInv
    <2>7. ASSUME NEW p, NEW after, Effect(p, after)
          PROVE  SilentInv'
      BY <2>7 DEF Effect, SilentInv
    <2>8. CASE EndCycle
      BY <2>8 DEF EndCycle, SilentInv
    <2>9. ASSUME NEW r, NEW value, Change(r, value)
          PROVE  SilentInv'
      BY <2>9 DEF Change, SilentInv
    <2>10. CASE UNCHANGED vars
      BY <2>10 DEF vars, SilentInv
    <2> QED
      BY <2>1, <2>2, <2>3, <2>4, <2>5, <2>6, <2>7, <2>8, <2>9, <2>10 DEF Next
  <1>3. SilentInv => SilentAfterFailure
    BY DEF SilentInv, SilentAfterFailure
  <1> QED
    BY <1>1, <1>2, <1>3, PTL DEF Spec

----------------------------------------------------------------------------
(* Fresh checks. *)

\* The variables that the argument looks into.
Kinds ==
  /\ sonarr \in [Resources -> Values]
  /\ cache \in [Resources -> Values \cup {Missing, Failed}]
  /\ since \in [Resources -> SUBSET Values]
  /\ seen \in [Resources -> Values \cup {Missing}]

\* While checks run, since has the present value of each resource.
Present == pc \in {"check", "sent"} => \A r \in Resources : sonarr[r] \in since[r]

\* The cache of the checks holds nothing older than they are.
CacheFresh ==
  pc \in {"check", "sent"} =>
    \A r \in Resources : cache[r] \in since[r] \cup {Missing, Failed}

\* What they have read so far was so since they began.
SeenFresh ==
  pc = "check" => \A p \in checking : \A r \in Uses[p] \ toRead : seen[r] \in since[r]

CheckInv == Kinds /\ Present /\ CacheFresh /\ SeenFresh /\ checking \subseteq Plans /\ DecidedOnFreshReads

\* A read that does not fail answers the present value or one of the cache.
LEMMA ReadAnswers ==
  ASSUME Kinds, Present, CacheFresh, pc = "check", NEW r \in Resources, NEW answer,
         Read(r, answer), ~IsError(answer)
  PROVE  answer \in since[r]
  BY DEF Kinds, Present, CacheFresh, Read, IsError, Missing, Failed

\* It leaves the cache with what it answered, and everything else as it was.
LEMMA ReadCaches ==
  ASSUME Kinds, NEW r \in Resources, NEW answer, Read(r, answer)
  PROVE  /\ cache' \in [Resources -> Values \cup {Missing, Failed}]
         /\ \A q \in Resources : cache'[q] \in {cache[q], sonarr[q], Failed}
  BY DEF Kinds, Read, Caches, Missing, Failed

LEMMA CheckInitial == Init => CheckInv
  BY DEF Init, CheckInv, Kinds, Present, CacheFresh, SeenFresh, DecidedOnFreshReads, Nothing,
         Missing

\* A cycle that does not check anything keeps the invariant.
LEMMA CycleKeeps ==
  ASSUME CheckInv,
         \/ Start \/ EndCycle
         \/ \E r \in Resources, answer \in Values \cup {Failed} :
              Observe(r, answer) \/ Verify(r, answer)
         \/ \E chosen \in SUBSET Plans : Plan(chosen)
         \/ \E p \in Plans : Refuse(p)
         \/ \E p \in Plans, after \in [Resources -> Values] : Effect(p, after)
  PROVE  CheckInv'
  <1> USE DEF CheckInv, Present, CacheFresh, SeenFresh, DecidedOnFreshReads
  <1>1. CASE Start
    BY <1>1 DEF Start, Kinds, BeginCycle, Nothing
  <1>2. CASE EndCycle
    BY <1>2 DEF EndCycle, Kinds, Nothing
  <1>3. ASSUME NEW r \in Resources, NEW answer \in Values \cup {Failed}, Observe(r, answer)
        PROVE  CheckInv'
    <2>1. cache' \in [Resources -> Values \cup {Missing, Failed}]
      BY <1>3, ReadCaches DEF Observe
    <2>2. seen' \in [Resources -> Values \cup {Missing}]
      BY <1>3 DEF Observe, IsError, Kinds
    <2> QED
      BY <1>3, <2>1, <2>2 DEF Observe, Kinds
  <1>4. ASSUME NEW r \in Resources, NEW answer \in Values \cup {Failed}, Verify(r, answer)
        PROVE  CheckInv'
    <2>1. cache' \in [Resources -> Values \cup {Missing, Failed}]
      BY <1>4, ReadCaches DEF Verify
    <2> QED
      BY <1>4, <2>1 DEF Verify, Kinds
  <1>5. ASSUME NEW chosen \in SUBSET Plans, Plan(chosen)
        PROVE  CheckInv'
    BY <1>5 DEF Plan, Kinds
  <1>6. ASSUME NEW p \in Plans, Refuse(p)
        PROVE  CheckInv'
    BY <1>6 DEF Refuse, Kinds
  <1>7. ASSUME NEW p \in Plans, NEW after \in [Resources -> Values], Effect(p, after)
        PROVE  CheckInv'
    BY <1>7 DEF Effect, Kinds
  <1> QED
    BY <1>1, <1>2, <1>3, <1>4, <1>5, <1>6, <1>7

\* execute starts with an empty cache and the present values.
LEMMA ExecuteKeeps ==
  ASSUME CheckInv, NEW p \in Plans, Execute(p)
  PROVE  CheckInv'
  <1>1. Kinds'
    BY DEF CheckInv, Kinds, Execute, FreshChecks, BeginCycle, Nothing
  <1>2. Present' /\ CacheFresh'
    BY <1>1 DEF CheckInv, Kinds, Execute, FreshChecks, BeginCycle, Nothing, Present, CacheFresh
  <1>3. SeenFresh' /\ DecidedOnFreshReads' /\ checking' \subseteq Plans
    BY DEF Execute, FreshChecks, SeenFresh, DecidedOnFreshReads
  <1> QED
    BY <1>1, <1>2, <1>3 DEF CheckInv

\* Each read of the checks adds a fresh value to what they have seen.
LEMMA CheckKeeps ==
  ASSUME CheckInv, NEW r \in Resources, NEW answer \in Values \cup {Failed}, Check(r, answer)
  PROVE  CheckInv'
  <1>1. /\ cache' \in [Resources -> Values \cup {Missing, Failed}]
        /\ \A q \in Resources : cache'[q] \in {cache[q], sonarr[q], Failed}
    BY ReadCaches DEF CheckInv, Check
  <1>2. CASE IsError(answer)
    BY <1>1, <1>2 DEF CheckInv, Check, Kinds, Present, CacheFresh, SeenFresh, DecidedOnFreshReads
  <1>3. CASE ~IsError(answer)
    <2>1. answer \in since[r]
      BY <1>3, ReadAnswers DEF CheckInv, Check
    <2>2. Kinds' /\ Present' /\ CacheFresh'
      BY <1>1, <1>3 DEF CheckInv, Check, IsError, Kinds, Present, CacheFresh
    <2>3. SeenFresh'
      <3>1. /\ toRead' = toRead \ {r} /\ seen' = [seen EXCEPT ![r] = answer]
            /\ pc' = pc /\ checking' = checking /\ since' = since
        BY <1>3 DEF Check
      <3>2. seen'[r] \in since[r] /\ \A q \in Resources \ {r} : seen'[q] = seen[q]
        BY <2>1, <3>1 DEF CheckInv, Kinds
      <3>3. \A p \in checking : Uses[p] \subseteq Resources
        BY ReadsAssumption DEF CheckInv
      <3> QED
        BY <3>1, <3>2, <3>3 DEF CheckInv, SeenFresh
    <2>4. DecidedOnFreshReads' /\ checking' \subseteq Plans
      BY <1>3 DEF CheckInv, Check, DecidedOnFreshReads
    <2> QED
      BY <2>2, <2>3, <2>4 DEF CheckInv
  <1> QED
    BY <1>2, <1>3

\* A mutation is sent when all it was decided on has been seen as it was.
LEMMA SendKeeps ==
  ASSUME CheckInv, NEW p \in Plans, Send(p)
  PROVE  CheckInv'
  BY DEF CheckInv, Kinds, Present, CacheFresh, SeenFresh, DecidedOnFreshReads, Send, Unchanged

\* Sonarr's changes are added to since.
LEMMA ChangeKeeps ==
  ASSUME CheckInv, NEW r \in Resources, NEW value \in Values, Change(r, value)
  PROVE  CheckInv'
  <1>1. /\ sonarr' \in [Resources -> Values] /\ since' \in [Resources -> SUBSET Values]
        /\ \A q \in Resources : since[q] \subseteq since'[q]
        /\ \A q \in Resources : sonarr'[q] = sonarr[q] \/ sonarr'[q] \in since'[q]
    BY DEF CheckInv, Kinds, Change
  <1>2. Kinds' /\ Present' /\ CacheFresh'
    BY <1>1 DEF CheckInv, Kinds, Present, CacheFresh, Change
  <1>3. \A p \in checking : \A q \in Uses[p] : q \in Resources
    BY ReadsAssumption DEF CheckInv
  <1>4. SeenFresh' /\ DecidedOnFreshReads' /\ checking' \subseteq Plans
    BY <1>1, <1>3 DEF CheckInv, SeenFresh, DecidedOnFreshReads, Change
  <1> QED
    BY <1>2, <1>4 DEF CheckInv

\* Whatever a mutation is sent on was so after its own fresh checks began: the
\* scan, the verification and the checks of earlier mutations of the cycle do
\* not vouch for it, though all of them share one cache (execute, BeginCycle).
THEOREM AlwaysFresh == Spec => []DecidedOnFreshReads
  <1>1. CheckInv /\ [Next]_vars => CheckInv'
    <2> SUFFICES ASSUME CheckInv, [Next]_vars
                 PROVE  CheckInv'
      OBVIOUS
    <2>1. CASE UNCHANGED vars
      BY <2>1 DEF vars, CheckInv, Kinds, Present, CacheFresh, SeenFresh, DecidedOnFreshReads
    <2> QED
      BY <2>1, CycleKeeps, ExecuteKeeps, CheckKeeps, SendKeeps, ChangeKeeps DEF Next
  <1>2. CheckInv => DecidedOnFreshReads
    BY DEF CheckInv
  <1> QED
    BY <1>1, <1>2, CheckInitial, PTL DEF Spec

----------------------------------------------------------------------------
(* Rows in a sequence. *)

\* A sequence without repetitions has as many elements as places.
LEMMA InjectiveCount ==
  ASSUME NEW S, NEW s \in Seq(S), IsInjective(s)
  PROVE  IsFiniteSet(ToSet(s)) /\ Cardinality(ToSet(s)) = Len(s)
  <1>1. Len(s) \in Nat /\ DOMAIN s = 1..Len(s) /\ s \in [1..Len(s) -> S]
    BY LenProperties
  <1>2. s \in [1..Len(s) -> ToSet(s)]
    BY <1>1 DEF ToSet
  <1>3. s \in Bijection(1..Len(s), ToSet(s))
    BY <1>1, <1>2 DEF Bijection, Injection, Surjection, IsInjective, ToSet
  <1>4. ExistsBijection(1..Len(s), ToSet(s))
    BY <1>3 DEF ExistsBijection
  <1>5. IsFiniteSet(1..Len(s)) /\ Cardinality(1..Len(s)) = Len(s)
    BY <1>1, FS_Interval
  <1> QED
    BY <1>4, <1>5, FS_Bijection

\* Neither do two of them, one after the other, if they share none.
LEMMA JoinedInjective ==
  ASSUME NEW S, NEW s \in Seq(S), NEW t \in Seq(S), IsInjective(s), IsInjective(t),
         ToSet(s) \cap ToSet(t) = {}
  PROVE  /\ s \o t \in Seq(S) /\ IsInjective(s \o t) /\ Len(s \o t) = Len(s) + Len(t)
         /\ ToSet(s \o t) \subseteq ToSet(s) \cup ToSet(t)
  <1> DEFINE j == s \o t
  <1>1. /\ j \in Seq(S) /\ Len(j) = Len(s) + Len(t)
        /\ \A i \in 1..Len(s) + Len(t) : j[i] = IF i <= Len(s) THEN s[i] ELSE t[i - Len(s)]
    BY ConcatProperties
  <1>2. /\ Len(s) \in Nat /\ Len(t) \in Nat
        /\ DOMAIN s = 1..Len(s) /\ DOMAIN t = 1..Len(t) /\ DOMAIN j = 1..Len(s) + Len(t)
    BY <1>1, LenProperties
  <1> HIDE DEF j
  <1>3. \A i \in DOMAIN j : \/ i \in DOMAIN s /\ j[i] = s[i]
                            \/ i - Len(s) \in DOMAIN t /\ j[i] = t[i - Len(s)] /\ i > Len(s)
    BY <1>1, <1>2
  <1>4. \A i \in DOMAIN s, k \in DOMAIN t : s[i] # t[k]
    BY DEF ToSet
  <1>5. IsInjective(j)
    <2> SUFFICES ASSUME NEW a \in DOMAIN j, NEW b \in DOMAIN j, j[a] = j[b]
                 PROVE  a = b
      BY DEF IsInjective
    <2>1. CASE a \in DOMAIN s /\ j[a] = s[a] /\ b \in DOMAIN s /\ j[b] = s[b]
      BY <2>1 DEF IsInjective
    <2>2. CASE /\ a - Len(s) \in DOMAIN t /\ j[a] = t[a - Len(s)]
               /\ b - Len(s) \in DOMAIN t /\ j[b] = t[b - Len(s)]
      <3>1. a - Len(s) = b - Len(s)
        BY <2>2 DEF IsInjective
      <3> QED
        BY <1>2, <3>1
    <2> QED
      BY <1>3, <1>4, <2>1, <2>2
  <1>6. ToSet(j) \subseteq ToSet(s) \cup ToSet(t)
    BY <1>3 DEF ToSet
  <1> QED
    BY <1>1, <1>5, <1>6 DEF j

LEMMA QueueIs ==
  ASSUME NEW q \in Queues
  PROVE  /\ q \in Seq(Rows) /\ IsInjective(q)
         /\ IsFiniteSet(ToSet(q)) /\ Cardinality(ToSet(q)) = Len(q)
  <1>1. q \in Seq(Rows) /\ IsInjective(q)
    BY QueueScanAssumption, FS_CardinalityType DEF Queues
  <1> QED
    BY <1>1, InjectiveCount

\* A page holds some of the rows queued when it is read, none of them twice.
LEMMA RecordsAre ==
  ASSUME queue \in Queues, NEW n \in Nat \ {0}
  PROVE  Records(n) \in Seq(Rows) /\ IsInjective(Records(n)) /\ ToSet(Records(n)) \subseteq Queued
  <1> DEFINE first == (n - 1) * PageSize + 1
             full == n * PageSize
             last == IF full < Len(queue) THEN full ELSE Len(queue)
  <1>1. first \in Nat /\ first >= 1 /\ full \in Nat
    BY QueueScanAssumption
  <1>2. queue \in Seq(Rows) /\ IsInjective(queue) /\ Len(queue) \in Nat
        /\ DOMAIN queue = 1..Len(queue)
    BY QueueIs, LenProperties
  <1> HIDE DEF first, full
  <1>3. last \in Nat /\ last <= Len(queue)
    BY <1>1, <1>2
  <1>4. Records(n) = SubSeq(queue, first, last)
    BY DEF Records, first, full
  <1> HIDE DEF last
  <1>5. \A i \in first..last : i \in DOMAIN queue /\ queue[i] \in Rows
    BY <1>1, <1>2, <1>3
  <1>6. /\ Records(n) \in Seq(Rows)
        /\ Len(Records(n)) = IF first <= last THEN last - first + 1 ELSE 0
        /\ \A i \in 1..last - first + 1 : Records(n)[i] = queue[first + i - 1]
    BY <1>1, <1>3, <1>4, <1>5, SubSeqProperties
  <1>7. DOMAIN Records(n) = 1..last - first + 1
    <2>1. DOMAIN Records(n) = 1..Len(Records(n))
      BY <1>6, LenProperties
    <2> QED
      BY <1>1, <1>3, <1>6, <2>1
  <1>8. \A i \in 1..last - first + 1 : first + i - 1 \in first..last
    BY <1>1, <1>3
  <1>9. IsInjective(Records(n))
    <2> SUFFICES ASSUME NEW a \in 1..last - first + 1, NEW b \in 1..last - first + 1,
                        Records(n)[a] = Records(n)[b]
                 PROVE  a = b
      BY <1>7 DEF IsInjective
    <2>1. first + a - 1 = first + b - 1
      BY <1>2, <1>5, <1>6, <1>8 DEF IsInjective
    <2> QED
      BY <1>1, <1>3, <2>1
  <1>10. ToSet(Records(n)) \subseteq Queued
    BY <1>5, <1>6, <1>7, <1>8 DEF ToSet, Queued
  <1> QED
    BY <1>6, <1>9, <1>10

----------------------------------------------------------------------------
(* A scan. *)

\* What has been read in the scan at hand, and of how many rows.
Gathered ==
  /\ ToSet(all) \subseteq ever /\ Queued \subseteq ever
  /\ total # Unknown /\ total = Cardinality(before) /\ IsFiniteSet(before)

\* Before its first page a scan has nothing, not even of a rejected one; then
\* it has gathered rows; and one that completed has all it was told of.
ScanInv ==
  /\ queue \in Queues
  /\ all \in Seq(Rows) /\ IsInjective(all)
  /\ page \in Nat \ {0}
  /\ outcome = "reading" /\ page = 1 => all = <<>> /\ total = Unknown
  /\ outcome = "reading" /\ page # 1 => Gathered
  /\ outcome = "complete" => /\ ToSet(all) \subseteq ever
                             /\ IsFiniteSet(before) /\ Len(all) = Cardinality(before)

\* Of so many different rows, if none has joined those of the first page, none
\* of these is missing.
LEMMA ScanIsTruthful == ScanInv => ScanTruthful
  <1> SUFFICES ASSUME ScanInv, outcome = "complete"
               PROVE  ToSet(all) \subseteq ever /\ (before = ever => ToSet(all) = before)
    BY DEF ScanTruthful
  <1>1. IsFiniteSet(ToSet(all)) /\ Cardinality(ToSet(all)) = Cardinality(before)
    BY InjectiveCount DEF ScanInv
  <1>2. ASSUME before = ever PROVE ToSet(all) = before
    BY <1>1, <1>2, FS_Subset DEF ScanInv
  <1> QED
    BY <1>2 DEF ScanInv

LEMMA EmptyIs == <<>> \in Seq(Rows) /\ IsInjective(<<>>) /\ ToSet(<<>>) = {} /\ Len(<<>>) = 0
  BY DEF IsInjective, ToSet

LEMMA ScanInitial == ScanInit => ScanInv
  BY EmptyIs DEF ScanInit, ScanInv

\* A scan that fails, and one that is started again.
LEMMA RetryKeeps ==
  ASSUME ScanInv, Retry, UNCHANGED queue
  PROVE  ScanInv'
  <1>1. CASE outcome' = "reading" /\ page' = 1 /\ all' = <<>> /\ total' = Unknown
    BY <1>1, EmptyIs DEF ScanInv, Unknown
  <1>2. CASE outcome' = "failed" /\ UNCHANGED <<page, all, total>>
    BY <1>2 DEF ScanInv
  <1> QED
    BY <1>1, <1>2 DEF Retry, Fresh

\* A page that contradicts none of the others.
LEMMA PageKeeps ==
  ASSUME ScanInv, ReadPage
  PROVE  ScanInv'
  <1> DEFINE records == Records(page)
             reported == Len(queue)
             read == all \o records
             ends == Len(read) = reported
  <1>1. /\ outcome = "reading" /\ Recorded /\ UNCHANGED queue /\ queue \in Queues
        /\ page \in Nat \ {0} /\ all \in Seq(Rows) /\ IsInjective(all)
    BY DEF ReadPage, ScanInv
  <1>2. records \in Seq(Rows) /\ IsInjective(records) /\ ToSet(records) \subseteq Queued
    BY <1>1, RecordsAre
  <1>3. reported \in Nat /\ IsFiniteSet(Queued) /\ Cardinality(Queued) = reported
    BY <1>1, QueueIs, LenProperties DEF Queued
  <1>4. MaxPages * PageSize \in Nat
    BY QueueScanAssumption
  <1> HIDE DEF records, reported
  <1>5. CASE ~Contradicts(records, reported)
    <2>1. /\ ~(reported > MaxPages * PageSize)
          /\ total # Unknown => total = reported
          /\ ToSet(records) \cap ToSet(all) = {}
      BY <1>5 DEF Contradicts
    <2>2. /\ read \in Seq(Rows) /\ IsInjective(read)
          /\ ToSet(read) \subseteq ToSet(all) \cup ToSet(records)
      <3>1. ToSet(all) \cap ToSet(records) = {}
        BY <2>1
      <3> QED
        BY <1>1, <1>2, <3>1, JoinedInjective
    <2>3. reported # Unknown
      BY <1>3, <1>4, <2>1 DEF Unknown
    <2>4. /\ ToSet(read) \subseteq ever' /\ Queued \subseteq ever'
          /\ reported = Cardinality(before') /\ IsFiniteSet(before')
      <3>1. CASE page = 1
        <4>1. all = <<>> /\ before' = Queued /\ ever' = Queued
          BY <1>1, <3>1 DEF ScanInv, Recorded
        <4> QED
          BY <1>2, <1>3, <2>2, <4>1, EmptyIs
      <3>2. CASE page # 1
        <4>1. Gathered /\ UNCHANGED <<before, ever>>
          BY <1>1, <3>2 DEF ScanInv, Recorded, historyVars
        <4> QED
          BY <1>2, <2>1, <2>2, <4>1 DEF Gathered
      <3> QED
        BY <3>1, <3>2
    <2> HIDE DEF read
    <2>5. CASE /\ ends /\ outcome' \in {"complete", "failed"}
               /\ all' = read /\ total' = reported /\ page' = page
      BY <1>1, <2>2, <2>4, <2>5 DEF ScanInv
    <2>6. CASE ~ends /\ outcome' = outcome /\ page' = page + 1 /\ all' = read /\ total' = reported
      <3>1. page' # 1 /\ page' \in Nat \ {0}
        BY <1>1, <2>6
      <3>2. Gathered'
        BY <1>1, <2>3, <2>4, <2>6 DEF Gathered, Queued, Unknown
      <3> QED
        BY <1>1, <2>2, <2>6, <3>1, <3>2 DEF ScanInv
    <2>7. CASE Retry
      BY <1>1, <2>7, RetryKeeps
    <2>8. \/ ends /\ outcome' \in {"complete", "failed"} /\ all' = read /\ total' = reported /\ page' = page
          \/ ~ends /\ outcome' = outcome /\ page' = page + 1 /\ all' = read /\ total' = reported
          \/ Retry
      BY <1>5 DEF ReadPage, records, reported, read
    <2> QED
      BY <2>5, <2>6, <2>7, <2>8
  <1>6. CASE Contradicts(records, reported)
    <2>1. Retry
      BY <1>6 DEF ReadPage, records, reported
    <2> QED
      BY <1>1, <2>1, RetryKeeps
  <1> QED
    BY <1>5, <1>6

\* Sonarr's changes are followed.
LEMMA QueueKeeps ==
  ASSUME ScanInv, SonarrChanges
  PROVE  ScanInv'
  <1>1. outcome = "reading" /\ queue' \in Queues /\ Followed /\ UNCHANGED readingVars
    BY DEF SonarrChanges
  <1>2. CASE page = 1
    BY <1>1, <1>2 DEF ScanInv, readingVars, Unknown
  <1>3. CASE page # 1
    <2>1. Gathered /\ ever' = ever \cup Queued' /\ before' = before
      BY <1>1, <1>3 DEF ScanInv, Followed, Gathered, Queued
    <2>2. Gathered'
      BY <1>1, <2>1 DEF Gathered, readingVars, Unknown
    <2> QED
      BY <1>1, <1>3, <2>2 DEF ScanInv, readingVars
  <1> QED
    BY <1>2, <1>3

LEMMA ScanKept == ScanInv /\ [ScanNext]_scanVars => ScanInv'
  <1> SUFFICES ASSUME ScanInv, [ScanNext]_scanVars
               PROVE  ScanInv'
    OBVIOUS
  <1>1. CASE Begin
    BY <1>1, EmptyIs DEF Begin, Fresh, ScanInv
  <1>2. CASE ReadFails
    BY <1>2, RetryKeeps DEF ReadFails
  <1>3. CASE Deadline
    BY <1>3 DEF Deadline, ScanInv
  <1>4. CASE UNCHANGED scanVars
    BY <1>4 DEF scanVars, readingVars, historyVars, ScanInv, Gathered, Queued, Unknown
  <1> QED
    BY <1>1, <1>2, <1>3, <1>4, QueueKeeps, PageKeeps DEF ScanNext

\* A scan that completes is truthful, whatever Sonarr does to its queue between
\* two pages, however often the scan has been started again before, and for any
\* page size and limits (pages, Client.Queue).
THEOREM ScansAreTruthful == ScanSpec => []ScanTruthful
  BY ScanInitial, ScanKept, ScanIsTruthful, PTL DEF ScanSpec
=============================================================================
