--------------------------- MODULE WaitClockProofs ---------------------------
(***************************************************************************)
(* The eligibility clock counts the watched time and nothing else, and the  *)
(* rejection clock no time from before the last observation that was not a  *)
(* rejection, for any downloads, polls, waits and retention.  Both hold in   *)
(* memory and in what was saved, which a restart puts in its place.          *)
(***************************************************************************)
EXTENDS WaitClock, TLAPS

----------------------------------------------------------------------------
(* The inductive invariant. *)

\* A cycle that is due comes after everything that has been seen.
Times ==
  /\ previous <= now /\ (cycle = "due" => previous < now) /\ now > 2 * Poll
  /\ \A d \in Downloads : /\ issues[d].lastSeen <= now
                          /\ cycle = "due" => issues[d].lastSeen < now

\* An issue and what was watched of its download tell of the same scan.
Agree(i, w) ==
  /\ w.scan = previous
  /\ i.eligible => w.identity = i.identity
  /\ previous # 0 /\ i.eligible /\ i.lastSeen = previous => w.rows.status = "eligible"
  /\ w.rows.status = "eligible" => i.state # "none"
  /\ i.state = "open" /\ w.rows.status = "eligible" =>
       i.eligible /\ (previous # 0 => i.lastSeen = previous)

\* The clock is between the two counts.
Counted(i, w) ==
  /\ i.elapsed <= w.most
  /\ i.state = "open" /\ w.rows.status = "eligible" => w.least <= i.elapsed
  /\ w.rows.status # "eligible" => w.least = 0

\* The rejection clock of an issue that is not taken for resolved, and the last
\* rejection it was told of, lie within the time of continuous rejection.  After
\* a failed scan no rejection has been told, and the clock does not run on.
Rejecting(i, w) ==
  /\ i.state = "none" => ~i.rejected /\ i.rejectedElapsed = 0
  /\ i.state # "resolved" /\ (i.rejected \/ i.rejectedElapsed > 0) =>
       /\ w.rejected # 0 /\ w.rejected + i.rejectedElapsed <= i.lastSeen
       /\ i.rejectedLastSeen # 0 => w.rejected + i.rejectedElapsed <= i.rejectedLastSeen

InMemory ==
  \A d \in Downloads : /\ Agree(issues[d], watch[d]) /\ Counted(issues[d], watch[d])
                       /\ Rejecting(issues[d], watch[d]) /\ watch[d].rejected <= now

\* What was saved fits the history of the scans that were: a process that begins
\* with it agrees with that history.
Kept(i, w) ==
  /\ i.lastSeen <= now /\ (cycle = "due" => i.lastSeen < now)
  /\ w.scan = 0
  /\ i.eligible => w.identity = i.identity
  /\ w.rows.status = "eligible" => i.state # "none"
  /\ i.state = "open" /\ w.rows.status = "eligible" => i.eligible
  /\ Counted(i, w) /\ Rejecting(i, w) /\ w.rejected <= now
OnDisk == \A d \in Downloads : Kept(saved.issues[d], saved.watch[d])

\* A cycle that may yet prune has settled every issue it shows.
Settled ==
  cycle \in {"verify", "plan"} =>
    \A d \in Downloads : issues[d].resolvedAt \in {0, now} \/ watch[d].rows.status # "eligible"

ClockInv == TypeOK /\ Times /\ InMemory /\ OnDisk /\ Settled

----------------------------------------------------------------------------
(* What a scan makes of one issue. *)

LEMMA RowsHave ==
  ASSUME NEW r \in Rows
  PROVE  /\ r.status \in {"absent", "protected", "eligible"}
         /\ r.status # "absent" => r.identity \in Identities /\ r.rejected \in BOOLEAN
  BY DEF Rows

LEMMA Over ==
  ASSUME NEW i \in Issue, NEW r \in Rows
  PROVE  LET j == StartedOver(i, r)
         IN  /\ j \in Issue
             /\ j.state = i.state /\ j.identity = i.identity /\ j.eligible = i.eligible
             /\ j.lastSeen = i.lastSeen
             /\ IF r.identity # i.identity \/ r.status # "eligible" \/ ~i.eligible \/ i.state = "resolved"
                THEN j.elapsed = 0 /\ ~j.rejected /\ j.rejectedElapsed = 0
                ELSE j = i
  BY DEF StartedOver, Issue

\* The time a scan adds.
Polled == Least(Poll, now - previous)

LEMMA PolledIsTime ==
  ASSUME now \in Nat, previous \in Nat, previous < now
  PROVE  Polled \in Nat
  BY WaitClockAssumption DEF Polled, Least

Adds(i, r) ==
  /\ r.status = "eligible" /\ i.eligible /\ r.identity = i.identity
  /\ previous # 0 /\ previous < now /\ now - previous <= 2 * Poll
  /\ i.lastSeen = previous

LEMMA Advance ==
  ASSUME now \in Nat, previous \in Nat, NEW i \in Issue, NEW r \in Rows
  PROVE  LET j == Advanced(i, r)
         IN  /\ j \in Issue
             /\ j.state = i.state
             /\ j.rejected = i.rejected /\ j.rejectedElapsed = i.rejectedElapsed
             /\ j.rejectedLastSeen = i.rejectedLastSeen
             /\ IF Adds(i, r) THEN j.elapsed = i.elapsed + Polled ELSE j.elapsed = i.elapsed
  <1>1. CASE Adds(i, r)
    <2>1. Advanced(i, r) = [i EXCEPT !.elapsed = i.elapsed + Polled]
      BY <1>1 DEF Adds, Advanced, Polled, Issue
    <2>2. i.elapsed + Polled \in Nat
      BY <1>1, PolledIsTime DEF Adds, Issue
    <2> HIDE DEF Polled
    <2> QED
      BY <1>1, <2>1, <2>2 DEF Issue
  <1>2. CASE ~Adds(i, r)
    BY <1>2 DEF Adds, Advanced
  <1> QED
    BY <1>1, <1>2

LEMMA Rejection ==
  ASSUME now \in Nat, NEW i \in Issue, NEW r \in Rows, r.status = "eligible"
  PROVE  LET j == RejectionObserved(i, r)
         IN  /\ j \in Issue /\ j.state = i.state /\ j.elapsed = i.elapsed
             /\ j.rejected = r.rejected
             /\ j.rejectedLastSeen = IF r.rejected THEN now ELSE 0
             /\ ~r.rejected => j.rejectedElapsed = 0
             /\ r.rejected => \/ j.rejectedElapsed = i.rejectedElapsed
                             \/ /\ i.rejected /\ now - i.rejectedLastSeen <= 2 * Poll
                                /\ i.rejectedElapsed <= j.rejectedElapsed
                                /\ j.rejectedElapsed <= i.rejectedElapsed + (now - i.rejectedLastSeen)
  <1> DEFINE seen == IF r.rejected THEN now ELSE 0
             time == IF ~r.rejected THEN 0
                     ELSE IF /\ i.rejected /\ previous # 0
                             /\ i.rejectedLastSeen < now /\ now - i.rejectedLastSeen <= 2 * Poll
                     THEN i.rejectedElapsed + Least(Poll, now - i.rejectedLastSeen)
                     ELSE i.rejectedElapsed
  <1>1. r.rejected \in BOOLEAN
    BY RowsHave
  <1>2. seen \in Nat /\ time \in Nat
    BY WaitClockAssumption DEF Least, Issue
  <1>3. RejectionObserved(i, r) =
          [i EXCEPT !.rejected = r.rejected, !.rejectedLastSeen = seen, !.rejectedElapsed = time]
    BY DEF RejectionObserved, Issue
  <1>4. /\ ~r.rejected => time = 0
        /\ r.rejected => \/ time = i.rejectedElapsed
                        \/ /\ i.rejected /\ now - i.rejectedLastSeen <= 2 * Poll
                           /\ i.rejectedElapsed <= time
                           /\ time <= i.rejectedElapsed + (now - i.rejectedLastSeen)
    BY WaitClockAssumption DEF Least, Issue
  <1> HIDE DEF time
  <1>5. seen = IF r.rejected THEN now ELSE 0
    OBVIOUS
  <1> HIDE DEF seen
  <1>6. LET j == RejectionObserved(i, r)
        IN  /\ j \in Issue /\ j.state = i.state /\ j.elapsed = i.elapsed
            /\ j.rejected = r.rejected /\ j.rejectedLastSeen = seen /\ j.rejectedElapsed = time
    BY <1>1, <1>2, <1>3 DEF Issue
  <1> QED
    BY <1>4, <1>5, <1>6

\* An issue that a scan shows.
LEMMA ShownIs ==
  ASSUME TypeOK, NEW d \in Downloads, NEW r \in Rows, NEW selected, r.status # "absent"
  PROVE  LET i == issues[d]
             j == Shown(d, r, selected)
         IN  /\ j \in Issue
             /\ j.identity = r.identity /\ (j.eligible <=> r.status = "eligible")
             /\ j.lastSeen = now /\ j.resolvedAt = 0
             /\ \/ j.state = i.state
                \/ j.state = "open" /\ (i.state = "none" \/ r.status # "eligible")
             /\ j.state # "none"
             /\ LET start == IF \/ r.identity # i.identity \/ r.status # "eligible"
                                \/ ~i.eligible \/ i.state = "resolved"
                             THEN 0 ELSE i.elapsed
                IN  j.elapsed = IF Adds(i, r) THEN start + Polled ELSE start
  <1> DEFINE i == issues[d]
             a == StartedOver(i, r)
             b == Advanced(a, r)
             c == IF r.status = "eligible" /\ d \in selected THEN RejectionObserved(b, r) ELSE b
             state == IF i.state = "none" \/ (r.status # "eligible" /\ d \notin pending)
                      THEN "open" ELSE c.state
             eligible == r.status = "eligible"
  <1>1. i \in Issue /\ now \in Nat /\ previous \in Nat
    BY DEF TypeOK
  <1>2. /\ a \in Issue /\ a.state = i.state /\ a.identity = i.identity /\ a.eligible = i.eligible
        /\ a.lastSeen = i.lastSeen
        /\ IF r.identity # i.identity \/ r.status # "eligible" \/ ~i.eligible \/ i.state = "resolved"
           THEN a.elapsed = 0 ELSE a.elapsed = i.elapsed
    BY <1>1, Over
  <1>3. Adds(a, r) <=> Adds(i, r)
    BY <1>2 DEF Adds
  <1>4. /\ b \in Issue /\ b.state = a.state
        /\ IF Adds(a, r) THEN b.elapsed = a.elapsed + Polled ELSE b.elapsed = a.elapsed
    BY <1>1, <1>2, Advance
  <1>5. c \in Issue /\ c.state = b.state /\ c.elapsed = b.elapsed
    BY <1>1, <1>4, Rejection
  <1>6. Shown(d, r, selected) =
          [c EXCEPT !.identity = r.identity, !.eligible = eligible, !.lastSeen = now,
                    !.resolvedAt = 0, !.state = state]
    BY DEF Shown
  <1>7. r.identity \in Identities
    BY RowsHave
  <1> HIDE DEF a, b, c
  <1>8. state \in {"none", "open", "resolved"} /\ state # "none"
        /\ (state = i.state \/ (state = "open" /\ (i.state = "none" \/ r.status # "eligible")))
    <2>1. c.state = i.state
      BY <1>2, <1>4, <1>5
    <2>2. i.state \in {"none", "open", "resolved"}
      BY <1>1 DEF Issue
    <2> QED
      BY <2>1, <2>2
  <1>9. eligible \in BOOLEAN /\ (eligible <=> r.status = "eligible") /\ now \in Nat
    BY <1>1
  <1> HIDE DEF state, eligible
  <1>10. Shown(d, r, selected) =
           [state |-> state, identity |-> r.identity, eligible |-> eligible, elapsed |-> c.elapsed,
            lastSeen |-> now, rejected |-> c.rejected, rejectedElapsed |-> c.rejectedElapsed,
            rejectedLastSeen |-> c.rejectedLastSeen, resolvedAt |-> 0]
    BY <1>5, <1>6 DEF Issue
  <1>11. /\ c.elapsed \in Nat /\ c.rejected \in BOOLEAN /\ c.rejectedElapsed \in Nat
         /\ c.rejectedLastSeen \in Nat
    BY <1>5 DEF Issue
  <1>12. Shown(d, r, selected) \in Issue
    BY <1>7, <1>8, <1>9, <1>10, <1>11 DEF Issue
  <1>13. /\ Shown(d, r, selected).elapsed = c.elapsed /\ Shown(d, r, selected).state = state
         /\ Shown(d, r, selected).identity = r.identity /\ Shown(d, r, selected).lastSeen = now
         /\ Shown(d, r, selected).eligible = eligible
         /\ Shown(d, r, selected).resolvedAt = 0
    BY <1>10
  <1> QED
    BY <1>2, <1>3, <1>4, <1>5, <1>8, <1>9, <1>12, <1>13

\* Its rejection clock.
StartsOver(i, r) ==
  r.identity # i.identity \/ r.status # "eligible" \/ ~i.eligible \/ i.state = "resolved"

\* It is zero, what it was, or runs on from the last rejection.
LEMMA ShownRejects ==
  ASSUME TypeOK, NEW d \in Downloads, NEW r \in Rows, NEW selected, r.status # "absent"
  PROVE  LET i == issues[d]
             j == Shown(d, r, selected)
             looked == r.status = "eligible" /\ d \in selected
         IN  /\ j.rejected = IF looked THEN r.rejected ELSE ~StartsOver(i, r) /\ i.rejected
             /\ \/ j.rejectedElapsed = 0
                \/ /\ ~StartsOver(i, r) /\ j.rejectedElapsed = i.rejectedElapsed
                   /\ looked => r.rejected
                \/ /\ ~StartsOver(i, r) /\ i.rejected /\ looked /\ r.rejected
                   /\ now - i.rejectedLastSeen <= 2 * Poll
                   /\ j.rejectedElapsed <= i.rejectedElapsed + (now - i.rejectedLastSeen)
             /\ IF looked /\ r.rejected THEN j.rejectedLastSeen = now
                ELSE \/ j.rejectedLastSeen = i.rejectedLastSeen
                     \/ ~j.rejected /\ j.rejectedElapsed = 0
  <1> DEFINE i == issues[d]
             a == StartedOver(i, r)
             b == Advanced(a, r)
             looked == r.status = "eligible" /\ d \in selected
             c == IF looked THEN RejectionObserved(b, r) ELSE b
             j == Shown(d, r, selected)
  <1>1. i \in Issue /\ now \in Nat /\ previous \in Nat
    BY DEF TypeOK
  <1>2. /\ a \in Issue
        /\ IF StartsOver(i, r) THEN ~a.rejected /\ a.rejectedElapsed = 0 ELSE a = i
    BY <1>1, Over DEF StartsOver
  <1>3. /\ b \in Issue /\ b.rejected = a.rejected /\ b.rejectedElapsed = a.rejectedElapsed
        /\ b.rejectedLastSeen = a.rejectedLastSeen
    BY <1>1, <1>2, Advance
  <1>4. /\ j.rejected = c.rejected /\ j.rejectedElapsed = c.rejectedElapsed
        /\ j.rejectedLastSeen = c.rejectedLastSeen
    <2>1. c \in Issue
      BY <1>1, <1>3, Rejection
    <2> QED
      BY <2>1 DEF Shown, Issue
  <1> HIDE DEF a, b
  <1>5. CASE looked
    <2>1. c = RejectionObserved(b, r)
      BY <1>5
    <2>2. r.rejected \in BOOLEAN
      BY <1>5, RowsHave
    <2>3. /\ c.rejected = r.rejected /\ c.rejectedLastSeen = IF r.rejected THEN now ELSE 0
          /\ ~r.rejected => c.rejectedElapsed = 0
          /\ r.rejected => \/ c.rejectedElapsed = b.rejectedElapsed
                          \/ /\ b.rejected /\ now - b.rejectedLastSeen <= 2 * Poll
                             /\ c.rejectedElapsed <= b.rejectedElapsed + (now - b.rejectedLastSeen)
      BY <1>1, <1>3, <1>5, <2>1, Rejection
    <2> HIDE DEF c
    <2> QED
      BY <1>2, <1>3, <1>4, <1>5, <2>2, <2>3
  <1>6. CASE ~looked
    <2>1. c = b
      BY <1>6
    <2>2. i.rejected \in BOOLEAN /\ b.rejected \in BOOLEAN
      BY <1>1, <1>3 DEF Issue
    <2> HIDE DEF c, j
    <2>3. j.rejected = (~StartsOver(i, r) /\ i.rejected)
      BY <1>2, <1>3, <1>4, <2>1, <2>2
    <2> QED
      BY <1>2, <1>3, <1>4, <1>6, <2>1, <2>3 DEF j
  <1> QED
    BY <1>5, <1>6

\* One that it does not show.
LEMMA VanishedIs ==
  ASSUME TypeOK, NEW d \in Downloads
  PROVE  LET i == issues[d]
             j == Vanished(d)
         IN  /\ j \in Issue
             /\ \/ j = i
                \/ i.state = "open" /\ j.state = "resolved" /\ ~j.eligible /\ j.elapsed = 0
                   /\ j.lastSeen = i.lastSeen
  <1>1. issues[d] \in Issue /\ now \in Nat
    BY DEF TypeOK
  <1> QED
    BY <1>1 DEF Vanished, Issue

LEMMA NoIssueIs ==
  /\ NoIssue \in Issue /\ NoIssue.state = "none" /\ ~NoIssue.eligible
  /\ NoIssue.elapsed = 0 /\ NoIssue.lastSeen = 0 /\ NoIssue.resolvedAt = 0
  BY DEF NoIssue, Issue

----------------------------------------------------------------------------
(* What it adds to the history. *)

Same(w, r) == r.status # "absent" /\ w.identity = r.identity
Counts(w, r) ==
  /\ Same(w, r) /\ r.status = "eligible" /\ w.rows.status = "eligible"
  /\ w.scan # 0 /\ now - w.scan <= 2 * Poll

LEMMA WatchedIs ==
  ASSUME TypeOK, NEW d \in Downloads, NEW r \in Rows, NEW since \in Nat,
         watch[d].scan = previous, previous < now
  PROVE  LET w == watch[d]
             v == [Watched(d, r) EXCEPT !.rejected = since]
             time == IF Counts(w, r) THEN Polled ELSE 0
         IN  /\ v \in Watch
             /\ v.scan = now /\ v.rows = r
             /\ v.identity = IF r.status = "absent" THEN w.identity ELSE r.identity
             /\ v.most = IF r.status = "absent" \/ (Same(w, r) /\ r.status = "eligible")
                         THEN w.most + time ELSE 0
             /\ v.least = IF Same(w, r) /\ r.status = "eligible" THEN w.least + time ELSE 0
  <1> DEFINE w == watch[d]
             v == [Watched(d, r) EXCEPT !.rejected = since]
             time == IF Counts(w, r) THEN Polled ELSE 0
             identity == IF r.status = "absent" THEN w.identity ELSE r.identity
             most == IF r.status = "absent" \/ (Same(w, r) /\ r.status = "eligible")
                     THEN w.most + time ELSE 0
             least == IF Same(w, r) /\ r.status = "eligible" THEN w.least + time ELSE 0
  <1>1. /\ now \in Nat /\ previous \in Nat
        /\ w.identity \in Identities \cup {"none"} /\ w.most \in Nat /\ w.least \in Nat
    BY DEF TypeOK, Watch
  <1>2. time \in Nat
    BY <1>1, PolledIsTime
  <1>3. Watched(d, r) = [scan |-> now, rows |-> r, identity |-> identity, most |-> most,
                         least |-> least, rejected |-> 0]
    BY DEF Watched, Same, Counts, Polled
  <1>4. identity \in Identities \cup {"none"}
    BY <1>1, RowsHave
  <1>5. most \in Nat /\ least \in Nat
    BY <1>1, <1>2
  <1> HIDE DEF identity, most, least
  <1>6. v = [scan |-> now, rows |-> r, identity |-> identity, most |-> most,
             least |-> least, rejected |-> since]
    BY <1>3
  <1>7. v \in Watch
    BY <1>1, <1>4, <1>5, <1>6 DEF Watch
  <1>8. /\ v.scan = now /\ v.rows = r /\ v.identity = identity /\ v.most = most /\ v.least = least
    BY <1>6
  <1> QED
    BY <1>7, <1>8 DEF identity, most, least

LEMMA RejectedIsTime ==
  ASSUME TypeOK, NEW d \in Downloads, NEW r \in Rows, NEW selected
  PROVE  RejectedSince(d, r, selected) \in Nat
  <1>1. watch[d].rejected \in Nat /\ now \in Nat
    BY DEF TypeOK, Watch
  <1>2. r.status \in {"absent", "protected", "eligible"}
    BY RowsHave
  <1> QED
    BY <1>1, <1>2 DEF RejectedSince

----------------------------------------------------------------------------
(* A scan keeps the invariant, for one download and for all. *)

Fits(i, w) ==
  /\ i \in Issue /\ w \in Watch
  /\ i.lastSeen <= now /\ w.scan = now
  /\ i.eligible => w.identity = i.identity
  /\ i.eligible /\ i.lastSeen = now => w.rows.status = "eligible"
  /\ w.rows.status = "eligible" => i.state # "none"
  /\ i.state = "open" /\ w.rows.status = "eligible" => i.eligible /\ i.lastSeen = now
  /\ i.resolvedAt = 0 \/ w.rows.status # "eligible"
  /\ Counted(i, w)

LEMMA ScanKeepsOne ==
  ASSUME ClockInv, cycle = "due", NEW d \in Downloads, NEW r \in Rows, NEW selected
  PROVE  Fits(Observed(d, r, selected),
              [Watched(d, r) EXCEPT !.rejected = RejectedSince(d, r, selected)])
  <1> DEFINE was == issues[d]
             i == Observed(d, r, selected)
             w == [Watched(d, r) EXCEPT !.rejected = RejectedSince(d, r, selected)]
             time == IF Counts(watch[d], r) THEN Polled ELSE 0
  <1> SUFFICES Fits(i, w)
    OBVIOUS
  <1>1. /\ TypeOK /\ was \in Issue /\ now \in Nat /\ previous \in Nat /\ previous < now
        /\ was.lastSeen < now /\ was.lastSeen \in Nat /\ was.elapsed \in Nat
        /\ Agree(was, watch[d]) /\ Counted(was, watch[d])
    BY DEF ClockInv, InMemory, Times, TypeOK, Issue
  <1>2. Polled \in Nat /\ watch[d].most \in Nat /\ watch[d].least \in Nat
    BY <1>1, PolledIsTime DEF TypeOK, Watch
  <1>3. /\ w \in Watch
        /\ w.scan = now /\ w.rows = r
        /\ w.identity = IF r.status = "absent" THEN watch[d].identity ELSE r.identity
        /\ w.most = IF r.status = "absent" \/ (Same(watch[d], r) /\ r.status = "eligible")
                    THEN watch[d].most + time ELSE 0
        /\ w.least = IF Same(watch[d], r) /\ r.status = "eligible" THEN watch[d].least + time ELSE 0
    BY <1>1, WatchedIs, RejectedIsTime DEF Agree
  <1> HIDE DEF w
  <1>4. r.status \in {"absent", "protected", "eligible"}
    BY RowsHave
  <1>5. CASE r.status = "absent"
    <2>1. i = Vanished(d)
      BY <1>5 DEF Observed
    <2> HIDE DEF i
    <2>2. /\ i \in Issue /\ i.lastSeen < now /\ i.elapsed <= was.elapsed
          /\ i.eligible => was.eligible /\ i.identity = was.identity
      BY <1>1, <2>1, VanishedIs
    <2>3. w.most >= watch[d].most /\ w.least = 0 /\ w.identity = watch[d].identity
      BY <1>2, <1>3, <1>5 DEF Same
    <2>4. w.rows.status = "absent" /\ w.scan = now /\ w \in Watch /\ w.most \in Nat
      BY <1>3, <1>5 DEF Watch
    <2>5. i.elapsed <= w.most
      <3>1. i.elapsed \in Nat
        BY <2>2 DEF Issue
      <3> QED
        BY <1>1, <1>2, <2>2, <2>3, <2>4, <3>1 DEF Counted
    <2>6. i.eligible => w.identity = i.identity
      BY <1>1, <2>2, <2>3 DEF Agree
    <2>7. i.lastSeen \in Nat
      BY <2>2 DEF Issue
    <2> QED
      BY <1>1, <2>2, <2>3, <2>4, <2>5, <2>6, <2>7 DEF Counted, Fits
  <1>6. CASE r.status = "protected" /\ was.state = "none"
    <2>1. i = NoIssue
      BY <1>6 DEF Observed
    <2> QED
      BY <1>1, <1>2, <1>3, <1>6, <2>1, NoIssueIs DEF Counted, Fits
  <1>7. CASE r.status # "absent" /\ ~(r.status = "protected" /\ was.state = "none")
    <2>1. Observed(d, r, selected) = Shown(d, r, selected)
      BY <1>7 DEF Observed
    <2>2. i = Shown(d, r, selected)
      BY <2>1
    <2> HIDE DEF i
    <2>3. /\ i \in Issue
          /\ i.identity = r.identity /\ (i.eligible <=> r.status = "eligible")
          /\ i.lastSeen = now /\ i.resolvedAt = 0
          /\ \/ i.state = was.state
             \/ i.state = "open" /\ (was.state = "none" \/ r.status # "eligible")
          /\ i.state # "none"
      BY <1>1, <1>7, <2>2, ShownIs
    <2>4. LET start == IF \/ r.identity # was.identity \/ r.status # "eligible"
                          \/ ~was.eligible \/ was.state = "resolved"
                       THEN 0 ELSE was.elapsed
          IN  i.elapsed = IF Adds(was, r) THEN start + Polled ELSE start
      BY <1>1, <1>7, <2>2, ShownIs
    <2>5. i.elapsed <= w.most
      <3>1. CASE r.status # "eligible"
        BY <1>2, <1>3, <2>4, <3>1 DEF Adds
      <3>2. CASE r.status = "eligible" /\ was.eligible /\ r.identity = was.identity
        <4>1. Same(watch[d], r)
          BY <1>1, <1>7, <3>2 DEF Same, Agree
        <4>2. Adds(was, r) => Counts(watch[d], r)
          BY <1>1, <3>2, <4>1 DEF Agree, Adds, Counts
        <4>3. w.most = watch[d].most + time /\ was.elapsed <= watch[d].most
          BY <1>1, <1>3, <3>2, <4>1 DEF Counted
        <4> QED
          BY <1>1, <1>2, <2>4, <4>2, <4>3
      <3>3. CASE r.status = "eligible" /\ ~(was.eligible /\ r.identity = was.identity)
        <4>1. i.elapsed = 0
          BY <2>4, <3>3 DEF Adds
        <4> QED
          BY <1>2, <1>3, <4>1
      <3> QED
        BY <3>1, <3>2, <3>3
    <2>6. i.state = "open" /\ r.status = "eligible" => w.least <= i.elapsed
      <3> SUFFICES ASSUME i.state = "open", r.status = "eligible"
                   PROVE  w.least <= i.elapsed
        OBVIOUS
      <3>1. was.state \in {"open", "none"} /\ i.elapsed \in Nat
        BY <1>1, <2>3 DEF Issue
      <3>2. CASE watch[d].rows.status # "eligible" \/ ~Same(watch[d], r)
        BY <1>1, <1>2, <1>3, <3>1, <3>2 DEF Counted, Counts
      <3>3. CASE watch[d].rows.status = "eligible" /\ was.state = "open" /\ Same(watch[d], r)
        <4>1. /\ was.eligible /\ r.identity = was.identity
              /\ previous # 0 => was.lastSeen = previous
          BY <1>1, <3>3 DEF Agree, Same
        <4>2. Counts(watch[d], r) => Adds(was, r)
          BY <1>1, <4>1 DEF Agree, Counts, Adds
        <4>3. w.least = watch[d].least + time /\ watch[d].least <= was.elapsed
          BY <1>1, <1>3, <3>3 DEF Counted
        <4> QED
          BY <1>1, <1>2, <2>4, <3>3, <4>1, <4>2, <4>3
      <3> QED
        BY <1>1, <3>1, <3>2, <3>3 DEF Agree
    <2>7. r.status # "eligible" => w.least = 0
      BY <1>3
    <2> QED
      BY <1>1, <1>3, <1>7, <2>3, <2>5, <2>6, <2>7 DEF Counted, Fits
  <1> QED
    BY <1>4, <1>5, <1>6, <1>7

\* The rejection clock after a scan fits the history, which starts anew exactly
\* where the clock does.
LEMMA ScanRejects ==
  ASSUME ClockInv, cycle = "due", NEW d \in Downloads, NEW r \in Rows, NEW selected
  PROVE  LET i == Observed(d, r, selected)
             w == [Watched(d, r) EXCEPT !.rejected = RejectedSince(d, r, selected)]
         IN  Rejecting(i, w) /\ w.rejected <= now
  <1> DEFINE was == issues[d]
             i == Observed(d, r, selected)
             w == [Watched(d, r) EXCEPT !.rejected = RejectedSince(d, r, selected)]
             since == watch[d].rejected
             looked == r.status = "eligible" /\ d \in selected
  <1> SUFFICES Rejecting(i, w) /\ w.rejected <= now
    OBVIOUS
  <1>1. /\ TypeOK /\ was \in Issue /\ now \in Nat /\ now > 2 * Poll
        /\ was.lastSeen < now /\ was.lastSeen \in Nat /\ was.rejectedElapsed \in Nat
        /\ was.rejectedLastSeen \in Nat /\ was.rejected \in BOOLEAN
        /\ was.eligible => watch[d].identity = was.identity
        /\ Rejecting(was, watch[d]) /\ since <= now /\ since \in Nat
    BY DEF ClockInv, InMemory, Times, TypeOK, Issue, Watch, Agree
  <1>2. w.rejected = RejectedSince(d, r, selected)
    BY DEF Watched
  <1> HIDE DEF w
  <1>3. r.status \in {"absent", "protected", "eligible"}
    BY RowsHave
  <1>4. w.rejected <= now
    BY <1>1, <1>2, <1>3 DEF RejectedSince
  <1>5. CASE (i.state = "resolved" \/ (~i.rejected /\ ~(i.rejectedElapsed > 0))) /\ i \in Issue
    <2>1. i.state = "none" => ~i.rejected /\ i.rejectedElapsed = 0
      BY <1>5 DEF Issue
    <2> QED
      BY <1>4, <1>5, <2>1 DEF Rejecting
  <1>6. ~NoIssue.rejected /\ ~(NoIssue.rejectedElapsed > 0) /\ NoIssue \in Issue
    BY NoIssueIs DEF NoIssue
  <1>7. CASE r.status = "absent"
    <2>1. i = Vanished(d)
      BY <1>7 DEF Observed
    <2>2. (Vanished(d) = was \/ Vanished(d).state = "resolved") /\ Vanished(d) \in Issue
      BY <1>1, VanishedIs
    <2>3. CASE i = was /\ d \in pending
      <3>1. w.rejected = since
        BY <1>2, <1>7, <2>3 DEF RejectedSince
      <3> QED
        BY <1>1, <1>4, <2>3, <3>1 DEF Rejecting
    <2>4. CASE i = was /\ d \notin pending /\ i = Vanished(d)
      <3>1. was.state # "open"
        BY <1>1, <2>4 DEF Vanished, Issue
      <3>2. was.state # "none" \/ (~was.rejected /\ ~(was.rejectedElapsed > 0))
        BY <1>1 DEF Rejecting
      <3>3. was.state \in {"none", "open", "resolved"}
        BY <1>1 DEF Issue
      <3> QED
        BY <1>1, <1>5, <2>4, <3>1, <3>2, <3>3
    <2> QED
      BY <1>5, <2>1, <2>2, <2>3, <2>4
  <1>8. CASE r.status = "protected" /\ was.state = "none"
    <2>1. i = NoIssue
      BY <1>8 DEF Observed
    <2> QED
      BY <1>5, <1>6, <2>1
  <1>9. CASE r.status # "absent" /\ ~(r.status = "protected" /\ was.state = "none")
    <2>1. Observed(d, r, selected) = Shown(d, r, selected)
      BY <1>9 DEF Observed
    <2>2. i = Shown(d, r, selected)
      BY <2>1
    <2> HIDE DEF i
    <2>3. i \in Issue /\ i.lastSeen = now /\ i.rejectedElapsed \in Nat /\ i.state # "none"
      BY <1>1, <1>9, <2>2, ShownIs DEF Issue
    <2>4. i.rejected = IF looked THEN r.rejected ELSE ~StartsOver(was, r) /\ was.rejected
      BY <1>1, <1>9, <2>2, ShownRejects
    <2>5. \/ i.rejectedElapsed = 0
          \/ /\ ~StartsOver(was, r) /\ i.rejectedElapsed = was.rejectedElapsed
             /\ looked => r.rejected
          \/ /\ ~StartsOver(was, r) /\ was.rejected /\ looked /\ r.rejected
             /\ now - was.rejectedLastSeen <= 2 * Poll
             /\ i.rejectedElapsed <= was.rejectedElapsed + (now - was.rejectedLastSeen)
      BY <1>1, <1>9, <2>2, ShownRejects
    <2>6. IF looked /\ r.rejected THEN i.rejectedLastSeen = now
          ELSE \/ i.rejectedLastSeen = was.rejectedLastSeen
               \/ ~i.rejected /\ i.rejectedElapsed = 0
      BY <1>1, <1>9, <2>2, ShownRejects
    <2>7. /\ ~StartsOver(was, r) => /\ r.status = "eligible" /\ watch[d].identity = r.identity
                                    /\ was.state # "resolved"
      BY <1>1 DEF StartsOver
    <2>8. CASE ~StartsOver(was, r) /\ (was.rejected \/ was.rejectedElapsed > 0)
      <3>1. /\ since # 0 /\ since + was.rejectedElapsed <= was.lastSeen
            /\ was.rejectedLastSeen # 0 => since + was.rejectedElapsed <= was.rejectedLastSeen
        BY <1>1, <2>7, <2>8 DEF Rejecting
      <3>2. (looked /\ ~r.rejected) \/ w.rejected = since
        BY <1>2, <2>7, <2>8, <3>1 DEF RejectedSince
      <3>3. CASE looked /\ ~r.rejected
        BY <1>5, <2>4, <2>5, <3>3, <2>3
      <3>4. CASE w.rejected = since
        <4>1. since + i.rejectedElapsed <= now
          <5>1. CASE i.rejectedElapsed = 0 \/ i.rejectedElapsed = was.rejectedElapsed
            BY <1>1, <3>1, <5>1
          <5>2. CASE /\ now - was.rejectedLastSeen <= 2 * Poll
                     /\ i.rejectedElapsed <= was.rejectedElapsed + (now - was.rejectedLastSeen)
            <6>1. was.rejectedLastSeen # 0
              BY <1>1, <5>2, WaitClockAssumption
            <6> QED
              BY <1>1, <2>3, <3>1, <5>2, <6>1
          <5> QED
            BY <2>5, <5>1, <5>2
        <4>2. i.rejected \/ i.rejectedElapsed > 0 =>
                (i.rejectedLastSeen # 0 => since + i.rejectedElapsed <= i.rejectedLastSeen)
          <5>1. CASE i.rejectedLastSeen = now
            BY <4>1, <5>1
          <5>2. CASE i.rejectedLastSeen = was.rejectedLastSeen /\ i.rejectedElapsed <= was.rejectedElapsed
            BY <1>1, <2>3, <3>1, <5>2
          <5>3. CASE looked /\ r.rejected
            <6>1. i.rejectedLastSeen = now
              BY <2>6, <5>3
            <6> QED
              BY <5>1, <6>1
          <5> QED
            BY <1>1, <2>3, <2>5, <2>6, <5>1, <5>2, <5>3
        <4> QED
          BY <1>4, <2>3, <3>1, <3>4, <4>1, <4>2 DEF Rejecting
      <3> QED
        BY <3>2, <3>3, <3>4
    <2>9. CASE ~(~StartsOver(was, r) /\ (was.rejected \/ was.rejectedElapsed > 0))
      <3>1. i.rejectedElapsed = 0
        BY <1>1, <2>5, <2>9
      <3>2. CASE looked /\ r.rejected
        <4>1. i.rejectedLastSeen = now
          BY <2>6, <3>2
        <4>2. w.rejected \in Nat /\ w.rejected # 0
          BY <1>1, <1>2, <3>2 DEF RejectedSince
        <4> QED
          BY <1>1, <1>4, <2>3, <3>1, <4>1, <4>2 DEF Rejecting
      <3>3. CASE ~(looked /\ r.rejected)
        <4>1. ~i.rejected
          BY <1>9, <2>4, <2>9, <3>3, RowsHave
        <4> QED
          BY <2>3, <1>5, <3>1, <4>1
      <3> QED
        BY <3>2, <3>3
    <2> QED
      BY <2>8, <2>9
  <1> QED
    BY <1>3, <1>4, <1>7, <1>8, <1>9

\* A gap, in which nothing is counted.
LEMMA GapIs ==
  ASSUME NEW ws \in [Downloads -> Watch]
  PROVE  /\ Gap(ws) \in [Downloads -> Watch]
         /\ \A d \in Downloads :
              /\ Gap(ws)[d].scan = 0 /\ Gap(ws)[d].rows = ws[d].rows
              /\ Gap(ws)[d].identity = ws[d].identity
              /\ Gap(ws)[d].most = ws[d].most /\ Gap(ws)[d].least = ws[d].least
              /\ Gap(ws)[d].rejected = ws[d].rejected
  <1>1. ASSUME NEW d \in Downloads
        PROVE  LET v == [ws[d] EXCEPT !.scan = 0]
               IN  /\ v \in Watch
                   /\ v.scan = 0 /\ v.rows = ws[d].rows /\ v.identity = ws[d].identity
                   /\ v.most = ws[d].most /\ v.least = ws[d].least /\ v.rejected = ws[d].rejected
    BY DEF Watch
  <1> QED
    BY <1>1 DEF Gap

Saved ==
  saved \in [issues : [Downloads -> Issue], pending : SUBSET Downloads,
            watch : [Downloads -> Watch]]

\* A save commits what is true in memory; without one the disk stays as it was.
LEMMA SavedKept ==
  ASSUME ClockInv, Commits \/ UNCHANGED saved, UNCHANGED now, cycle' = "due" => cycle = "due",
         issues' \in [Downloads -> Issue], watch' \in [Downloads -> Watch],
         pending' \in SUBSET Downloads, Times', InMemory'
  PROVE  Saved' /\ OnDisk'
  <1>1. CASE UNCHANGED saved
    BY <1>1 DEF ClockInv, TypeOK, Saved, OnDisk, Kept, Counted, Rejecting
  <1>2. CASE Commits
    <2>1. /\ saved'.issues = issues' /\ saved'.pending = pending'
          /\ saved'.watch = Gap(watch')
      BY <1>2 DEF Commits
    <2>2. Saved'
      BY <1>2, GapIs DEF Commits, Saved
    <2>3. ASSUME NEW d \in Downloads
          PROVE  Kept(saved.issues[d], saved.watch[d])'
      <3>1. /\ saved'.issues[d] = issues'[d] /\ saved'.watch[d] = Gap(watch')[d]
        BY <2>1
      <3>2. /\ Agree(issues[d], watch[d])' /\ Counted(issues[d], watch[d])'
            /\ Rejecting(issues[d], watch[d])' /\ (watch[d].rejected <= now)'
            /\ (issues[d].lastSeen <= now)' /\ (cycle = "due" => issues[d].lastSeen < now)'
        BY DEF InMemory, Times
      <3>3. LET w == Gap(watch')[d]
            IN  /\ w.scan = 0 /\ w.rows = watch'[d].rows /\ w.identity = watch'[d].identity
                /\ w.most = watch'[d].most /\ w.least = watch'[d].least
                /\ w.rejected = watch'[d].rejected
        BY GapIs
      <3> QED
        BY <3>1, <3>2, <3>3 DEF Kept, Agree, Counted, Rejecting
    <2> QED
      BY <2>2, <2>3 DEF OnDisk
  <1> QED
    BY <1>1, <1>2

LEMMA ScanKeeps ==
  ASSUME ClockInv, NEW q \in [Downloads -> Rows], NEW selected, Scan(q, selected)
  PROVE  ClockInv'
  <1> DEFINE After(d) == Observed(d, q[d], selected)
             Seen(d) == [Watched(d, q[d]) EXCEPT !.rejected = RejectedSince(d, q[d], selected)]
  <1>1. /\ cycle = "due" /\ cycle' = "verify" /\ previous' = now
        /\ UNCHANGED <<now, pending, saved>>
        /\ issues' = [d \in Downloads |-> After(d)] /\ watch' = [d \in Downloads |-> Seen(d)]
    BY DEF Scan
  <1>2. now \in Nat \ {0} /\ pending \in SUBSET Downloads
    BY DEF ClockInv, TypeOK
  <1>3. \A d \in Downloads : Fits(After(d), Seen(d))
    BY <1>1, ScanKeepsOne
  <1>4. \A d \in Downloads : Rejecting(After(d), Seen(d)) /\ Seen(d).rejected <= now
    BY <1>1, ScanRejects
  <1> HIDE DEF After, Seen
  <1>5. \A d \in Downloads : issues'[d] = After(d) /\ watch'[d] = Seen(d)
    BY <1>1
  <1>6. issues' \in [Downloads -> Issue] /\ watch' \in [Downloads -> Watch]
    BY <1>1, <1>3 DEF Fits
  <1>7. Times'
    BY <1>1, <1>2, <1>3, <1>5 DEF Fits, Times, ClockInv
  <1>8. InMemory'
    <2> SUFFICES ASSUME NEW d \in Downloads
                 PROVE  /\ Agree(issues[d], watch[d])' /\ Counted(issues[d], watch[d])'
                        /\ Rejecting(issues[d], watch[d])' /\ (watch[d].rejected <= now)'
      BY DEF InMemory
    <2>1. Agree(issues[d], watch[d])' /\ Counted(issues[d], watch[d])'
      BY <1>1, <1>2, <1>3, <1>5 DEF Fits, Agree, Counted
    <2>2. Rejecting(issues[d], watch[d])' /\ (watch[d].rejected <= now)'
      BY <1>1, <1>4, <1>5 DEF Rejecting
    <2> QED
      BY <2>1, <2>2
  <1>9. Settled'
    BY <1>1, <1>3, <1>5 DEF Fits, Settled
  <1>10. Saved' /\ OnDisk'
    BY <1>1, <1>2, <1>6, <1>7, <1>8, SavedKept
  <1>11. TypeOK'
    BY <1>1, <1>2, <1>6, <1>10 DEF TypeOK, Saved
  <1> QED
    BY <1>7, <1>8, <1>9, <1>10, <1>11 DEF ClockInv

----------------------------------------------------------------------------
(* So do the other steps. *)

LEMMA ScanFailsKeeps ==
  ASSUME ClockInv, NEW succeeds, ScanFails(succeeds)
  PROVE  ClockInv'
  <1>1. /\ previous' = 0 /\ watch' = Gap(watch) /\ UNCHANGED <<now, pending>>
        /\ cycle' = "over" /\ (Commits \/ UNCHANGED saved)
        /\ issues' = [d \in Downloads |-> [issues[d] EXCEPT !.rejectedLastSeen = 0]]
    BY DEF ScanFails, Saves
  <1>2. /\ now \in Nat \ {0} /\ pending \in SUBSET Downloads
        /\ issues \in [Downloads -> Issue] /\ watch \in [Downloads -> Watch]
    BY DEF ClockInv, TypeOK
  <1>3. /\ issues' \in [Downloads -> Issue]
        /\ \A d \in Downloads :
             /\ issues'[d].state = issues[d].state /\ issues'[d].identity = issues[d].identity
             /\ issues'[d].eligible = issues[d].eligible /\ issues'[d].elapsed = issues[d].elapsed
             /\ issues'[d].lastSeen = issues[d].lastSeen
             /\ issues'[d].rejected = issues[d].rejected
             /\ issues'[d].rejectedElapsed = issues[d].rejectedElapsed
             /\ issues'[d].rejectedLastSeen = 0
    <2>1. ASSUME NEW d \in Downloads
          PROVE  LET j == [issues[d] EXCEPT !.rejectedLastSeen = 0]
                 IN  /\ j \in Issue
                     /\ j.state = issues[d].state /\ j.identity = issues[d].identity
                     /\ j.eligible = issues[d].eligible /\ j.elapsed = issues[d].elapsed
                     /\ j.lastSeen = issues[d].lastSeen
                     /\ j.rejected = issues[d].rejected /\ j.rejectedLastSeen = 0
                     /\ j.rejectedElapsed = issues[d].rejectedElapsed
      BY <1>2 DEF Issue
    <2> QED
      BY <1>1, <2>1
  <1>4. /\ watch' \in [Downloads -> Watch]
        /\ \A d \in Downloads :
             /\ watch'[d].scan = 0 /\ watch'[d].rows = watch[d].rows
             /\ watch'[d].identity = watch[d].identity
             /\ watch'[d].most = watch[d].most /\ watch'[d].least = watch[d].least
             /\ watch'[d].rejected = watch[d].rejected
    BY <1>1, <1>2, GapIs
  <1>5. Times'
    BY <1>1, <1>2, <1>3 DEF ClockInv, Times
  <1>6. InMemory'
    <2> SUFFICES ASSUME NEW d \in Downloads
                 PROVE  /\ Agree(issues[d], watch[d])' /\ Counted(issues[d], watch[d])'
                        /\ Rejecting(issues[d], watch[d])' /\ (watch[d].rejected <= now)'
      BY DEF InMemory
    <2> QED
      BY <1>1, <1>3, <1>4 DEF ClockInv, InMemory, Agree, Counted, Rejecting
  <1>7. Saved' /\ OnDisk'
    BY <1>1, <1>2, <1>3, <1>4, <1>5, <1>6, SavedKept
  <1>8. TypeOK'
    BY <1>1, <1>2, <1>3, <1>4, <1>7 DEF TypeOK, Saved
  <1>9. Settled'
    BY <1>1 DEF Settled
  <1> QED
    BY <1>5, <1>6, <1>7, <1>8, <1>9 DEF ClockInv

\* Only an issue that the last scan did not show is pruned.
LEMMA EndCycleKeeps ==
  ASSUME ClockInv, NEW error, NEW succeeds, EndCycle(error, succeeds)
  PROVE  ClockInv'
  <1>1. /\ cycle \in {"verify", "plan"} /\ cycle' = "over"
        /\ UNCHANGED <<now, previous, pending, watch>> /\ (Commits \/ UNCHANGED saved)
        /\ issues' = IF error THEN issues ELSE [d \in Downloads |-> Pruned(issues[d])]
    BY DEF EndCycle, Saves
  <1>2. /\ now \in Nat \ {0} /\ pending \in SUBSET Downloads
        /\ issues \in [Downloads -> Issue] /\ watch \in [Downloads -> Watch]
    BY DEF ClockInv, TypeOK
  <1>3. \A d \in Downloads :
          issues'[d] = issues[d] \/ (issues'[d] = NoIssue /\ watch[d].rows.status # "eligible")
    <2>1. ASSUME NEW d \in Downloads
          PROVE  \/ Pruned(issues[d]) = issues[d]
                 \/ Pruned(issues[d]) = NoIssue /\ watch[d].rows.status # "eligible"
      <3>1. issues[d].resolvedAt \in {0, now} \/ watch[d].rows.status # "eligible"
        BY <1>1 DEF ClockInv, Settled
      <3>2. Retention \in Nat
        BY WaitClockAssumption
      <3> QED
        BY <1>2, <3>1, <3>2 DEF Pruned
    <2> QED
      BY <1>1, <1>2, <2>1
  <1>4. issues' \in [Downloads -> Issue]
    BY <1>1, <1>2, NoIssueIs DEF Pruned
  <1>5. Times'
    <2>1. \A d \in Downloads : issues'[d].lastSeen <= now
      BY <1>2, <1>3, NoIssueIs DEF ClockInv, Times
    <2> QED
      BY <1>1, <2>1 DEF ClockInv, Times
  <1>6. InMemory'
    <2> SUFFICES ASSUME NEW d \in Downloads
                 PROVE  /\ Agree(issues[d], watch[d])' /\ Counted(issues[d], watch[d])'
                        /\ Rejecting(issues[d], watch[d])' /\ (watch[d].rejected <= now)'
      BY DEF InMemory
    <2>1. CASE issues'[d] = issues[d]
      BY <1>1, <2>1 DEF ClockInv, InMemory, Agree, Counted, Rejecting
    <2>2. CASE issues'[d] = NoIssue /\ watch[d].rows.status # "eligible"
      <3>1. ~NoIssue.rejected /\ NoIssue.rejectedElapsed = 0 /\ ~(NoIssue.rejectedElapsed > 0)
        BY DEF NoIssue
      <3>2. watch[d].most \in Nat
        BY <1>2 DEF Watch
      <3> QED
        BY <1>1, <2>2, <3>1, <3>2, NoIssueIs DEF ClockInv, InMemory, Agree, Counted, Rejecting
    <2> QED
      BY <1>3, <2>1, <2>2
  <1>7. Saved' /\ OnDisk'
    BY <1>1, <1>2, <1>4, <1>5, <1>6, SavedKept
  <1>8. TypeOK' /\ Settled'
    BY <1>1, <1>2, <1>4, <1>7 DEF ClockInv, TypeOK, Saved, Settled
  <1> QED
    BY <1>5, <1>6, <1>7, <1>8 DEF ClockInv

LEMMA SaveReceiptKeeps ==
  ASSUME ClockInv, SaveReceipt
  PROVE  ClockInv'
  <1>1. UNCHANGED <<now, cycle, previous, issues, pending, watch>> /\ Commits
    BY DEF SaveReceipt
  <1>2. Times' /\ InMemory' /\ Settled'
    BY <1>1 DEF ClockInv, Times, InMemory, Agree, Counted, Rejecting, Settled
  <1>3. Saved' /\ OnDisk'
    BY <1>1, <1>2, SavedKept DEF ClockInv, TypeOK
  <1> QED
    BY <1>1, <1>2, <1>3 DEF ClockInv, TypeOK, Saved

\* A process begins with what was saved, and in a gap.
LEMMA RestartKeeps ==
  ASSUME ClockInv, Restart
  PROVE  ClockInv'
  <1>1. /\ previous' = 0 /\ cycle' \in {"due", "over"} /\ (cycle' = "due" <=> cycle = "due")
        /\ issues' = saved.issues /\ pending' = saved.pending /\ watch' = saved.watch
        /\ UNCHANGED <<now, saved>>
    BY DEF Restart
  <1>2. now \in Nat \ {0} /\ now > 2 * Poll /\ Saved
    BY DEF ClockInv, TypeOK, Times, Saved
  <1>3. \A d \in Downloads : Kept(saved.issues[d], saved.watch[d])
    BY DEF ClockInv, OnDisk
  <1>4. TypeOK'
    BY <1>1, <1>2 DEF Saved, TypeOK
  <1>5. Times'
    BY <1>1, <1>2, <1>3 DEF Kept, Times
  <1>6. InMemory'
    BY <1>1, <1>3 DEF Kept, InMemory, Agree, Counted, Rejecting
  <1>7. OnDisk' /\ Settled'
    BY <1>1, <1>3 DEF Kept, OnDisk, Counted, Rejecting, Settled
  <1> QED
    BY <1>4, <1>5, <1>6, <1>7 DEF ClockInv

LEMMA BeginKeeps ==
  ASSUME ClockInv, NEW d \in Downloads, NEW kind, NEW waived, NEW succeeds,
         Begin(d, kind, waived, succeeds)
  PROVE  ClockInv'
  <1>1. /\ UNCHANGED <<now, previous, issues, watch>> /\ cycle' \in {"plan", "over"}
        /\ cycle \in {"verify", "plan"} /\ pending' = pending \cup {d}
        /\ Commits \/ UNCHANGED saved
    BY DEF Begin, Saves
  <1>2. Times' /\ InMemory' /\ Settled'
    BY <1>1 DEF ClockInv, Times, InMemory, Agree, Counted, Rejecting, Settled
  <1>3. pending' \in SUBSET Downloads
    BY <1>1 DEF ClockInv, TypeOK
  <1>4. Saved' /\ OnDisk'
    BY <1>1, <1>2, <1>3, SavedKept DEF ClockInv, TypeOK
  <1> QED
    BY <1>1, <1>2, <1>3, <1>4 DEF ClockInv, TypeOK, Saved

LEMMA EndKeeps ==
  ASSUME ClockInv, NEW d \in Downloads, NEW verified, End(d, verified)
  PROVE  ClockInv'
  <1>1. /\ cycle = "verify" /\ pending' = pending \ {d}
        /\ UNCHANGED <<now, cycle, previous, watch, saved>>
    BY DEF End
  <1>2. issues \in [Downloads -> Issue] /\ now \in Nat
    BY DEF ClockInv, TypeOK
  <1>3. /\ issues' \in [Downloads -> Issue]
        /\ \A e \in Downloads :
             /\ issues'[e].state \in {issues[e].state, "resolved"}
             /\ issues'[e].identity = issues[e].identity
             /\ issues'[e].eligible = issues[e].eligible /\ issues'[e].elapsed = issues[e].elapsed
             /\ issues'[e].lastSeen = issues[e].lastSeen
             /\ issues'[e].rejected = issues[e].rejected
             /\ issues'[e].rejectedElapsed = issues[e].rejectedElapsed
             /\ issues'[e].rejectedLastSeen = issues[e].rejectedLastSeen
             /\ issues'[e].resolvedAt \in {issues[e].resolvedAt, now}
    <2>1. CASE UNCHANGED issues
      BY <1>2, <2>1
    <2>2. CASE issues' = [issues EXCEPT ![d].state = "resolved", ![d].resolvedAt = now]
      <3> DEFINE j == [issues[d] EXCEPT !.state = "resolved", !.resolvedAt = now]
      <3>1. /\ j \in Issue /\ j.state = "resolved" /\ j.identity = issues[d].identity
            /\ j.eligible = issues[d].eligible /\ j.elapsed = issues[d].elapsed
            /\ j.lastSeen = issues[d].lastSeen
            /\ j.rejected = issues[d].rejected
            /\ j.rejectedElapsed = issues[d].rejectedElapsed
            /\ j.rejectedLastSeen = issues[d].rejectedLastSeen
            /\ j.resolvedAt = now
        BY <1>2 DEF Issue
      <3>2. issues' = [issues EXCEPT ![d] = j]
        BY <1>2, <2>2
      <3> HIDE DEF j
      <3> QED
        BY <1>2, <3>1, <3>2
    <2> QED
      BY <2>1, <2>2 DEF End
  <1>4. Times' /\ Settled'
    BY <1>1, <1>3 DEF ClockInv, Times, Settled
  <1>5. InMemory'
    <2> SUFFICES ASSUME NEW e \in Downloads
                 PROVE  /\ Agree(issues[e], watch[e])' /\ Counted(issues[e], watch[e])'
                        /\ Rejecting(issues[e], watch[e])' /\ (watch[e].rejected <= now)'
      BY DEF InMemory
    <2> QED
      BY <1>1, <1>3 DEF ClockInv, InMemory, Agree, Counted, Rejecting
  <1>6. OnDisk' /\ TypeOK'
    BY <1>1, <1>3 DEF ClockInv, TypeOK, OnDisk, Kept, Counted, Rejecting
  <1> QED
    BY <1>4, <1>5, <1>6 DEF ClockInv

LEMMA TickKeeps ==
  ASSUME ClockInv, Tick
  PROVE  ClockInv'
  <1>1. now' = now + 1 /\ now \in Nat /\ UNCHANGED <<previous, issues, pending, watch, saved>>
        /\ cycle' = "due"
    BY DEF Tick, ClockInv, TypeOK
  <1>2. /\ previous \in Nat
        /\ \A d \in Downloads :
             /\ issues[d].lastSeen \in Nat /\ watch[d].rejected \in Nat
             /\ saved.issues[d].lastSeen \in Nat /\ saved.watch[d].rejected \in Nat
    BY DEF ClockInv, TypeOK, Issue, Watch
  <1>3. TypeOK' /\ Settled'
    BY <1>1 DEF ClockInv, TypeOK, Settled
  <1>4. Times'
    BY <1>1, <1>2, WaitClockAssumption DEF ClockInv, Times
  <1>5. \A d \in Downloads : watch'[d].rejected <= now'
    BY <1>1, <1>2 DEF ClockInv, InMemory
  <1>6. InMemory'
    BY <1>1, <1>5 DEF ClockInv, InMemory, Agree, Counted, Rejecting
  <1>7. \A d \in Downloads : /\ saved'.issues[d].lastSeen < now'
                             /\ saved'.watch[d].rejected <= now'
    BY <1>1, <1>2 DEF ClockInv, OnDisk, Kept
  <1>8. \A d \in Downloads : saved'.issues[d].lastSeen <= now'
    BY <1>1, <1>2 DEF ClockInv, OnDisk, Kept
  <1>9. OnDisk'
    BY <1>1, <1>7, <1>8 DEF ClockInv, OnDisk, Kept, Counted, Rejecting
  <1> QED
    BY <1>3, <1>4, <1>6, <1>9 DEF ClockInv

LEMMA ClockInitial == Init => ClockInv
  <1> SUFFICES ASSUME Init
               PROVE  ClockInv
    OBVIOUS
  <1>1. /\ NoWatch \in Watch /\ NoWatch.scan = 0 /\ NoWatch.rows.status = "absent"
        /\ NoWatch.most = 0 /\ NoWatch.least = 0 /\ NoWatch.rejected = 0
    BY DEF NoWatch, Watch, Rows, Absent
  <1>2. ~NoIssue.rejected /\ NoIssue.rejectedElapsed = 0 /\ ~(NoIssue.rejectedElapsed > 0)
    BY DEF NoIssue
  <1>3. now \in Nat \ {0} /\ now > 2 * Poll /\ 0 <= now /\ 0 < now
    BY WaitClockAssumption DEF Init
  <1>4. /\ \A d \in Downloads : /\ issues[d] = NoIssue /\ saved.issues[d] = NoIssue
                                /\ watch[d] = NoWatch /\ saved.watch[d] = NoWatch
        /\ previous = 0
    BY DEF Init
  <1>5. TypeOK
    BY <1>1, <1>3, NoIssueIs DEF Init, TypeOK
  <1>6. Times /\ Settled
    BY <1>3, <1>4, NoIssueIs DEF Times, Settled
  <1>7. Counted(NoIssue, NoWatch) /\ Rejecting(NoIssue, NoWatch)
    BY <1>1, <1>2, NoIssueIs DEF Counted, Rejecting
  <1>8. Agree(NoIssue, NoWatch) /\ NoWatch.rejected <= now
    BY <1>1, <1>3, <1>4, NoIssueIs DEF Agree
  <1>9. Kept(NoIssue, NoWatch)
    BY <1>1, <1>3, <1>7, <1>8, NoIssueIs DEF Kept
  <1>10. InMemory /\ OnDisk
    BY <1>4, <1>7, <1>8, <1>9 DEF InMemory, OnDisk
  <1> QED
    BY <1>5, <1>6, <1>10 DEF ClockInv

LEMMA ClockKept == ClockInv /\ [Next]_vars => ClockInv'
  <1> SUFFICES ASSUME ClockInv, [Next]_vars
               PROVE  ClockInv'
    OBVIOUS
  <1>1. CASE UNCHANGED vars
    BY <1>1 DEF vars, ClockInv, TypeOK, Times, InMemory, OnDisk, Kept, Settled, Agree, Counted,
                Rejecting
  <1> QED
    BY <1>1, ScanKeeps, ScanFailsKeeps, EndCycleKeeps, SaveReceiptKeeps, RestartKeeps,
       BeginKeeps, EndKeeps, TickKeeps DEF Next

LEMMA ClockInvariant == Spec => []ClockInv
  BY ClockInitial, ClockKept, PTL DEF Spec

----------------------------------------------------------------------------
(* The theorems. *)

\* No wait is over early: downtime, failed scans, missed polls and what was
\* seen under another identity or before a protected state do not count,
\* whatever the intervals, wherever a process ends between a scan and a save
\* and whichever saves fail, by the scans that were not lost (Cycle's clocks).
THEOREM CountsOnlyWatchedTime == Spec => []OnlyWatchedTime
  <1>1. ClockInv => OnlyWatchedTime
    BY DEF ClockInv, InMemory, Counted, OnlyWatchedTime
  <1> QED
    BY <1>1, ClockInvariant, PTL

\* No wait of an issue that is open lags behind what the scans have shown of
\* its download, through gaps, other downloads' manual cycles and restarts, but
\* for the scans that were lost before a save.
THEOREM CountsAllWatchedTime == Spec => []WaitsNoLonger
  <1>1. ClockInv => WaitsNoLonger
    BY DEF ClockInv, InMemory, Counted, WaitsNoLonger
  <1> QED
    BY <1>1, ClockInvariant, PTL

\* The rejection clock of an open issue holds no time from before the last
\* observation that was not a rejection, from before another identity or a
\* protected state, whatever manual cycles look at other downloads and whatever
\* scans and saves fail in between; a lost scan is no observation (Cycle's
\* rejected clock).
THEOREM CountsOnlyRejection == Spec => []RejectedContinuously
  <1>1. ClockInv => RejectedContinuously
    <2> SUFFICES ASSUME ClockInv, NEW d \in Downloads, issues[d].state = "open",
                        issues[d].rejectedElapsed > 0
                 PROVE  /\ watch[d].rejected # 0
                        /\ watch[d].rejected + issues[d].rejectedElapsed <= issues[d].lastSeen
      BY DEF RejectedContinuously
    <2> QED
      BY DEF ClockInv, InMemory, Rejecting
  <1> QED
    BY <1>1, ClockInvariant, PTL
=============================================================================
