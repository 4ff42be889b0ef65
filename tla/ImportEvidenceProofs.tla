------------------------- MODULE ImportEvidenceProofs -------------------------
(***************************************************************************)
(* Why the evidence for an import is what it says, for any episodes, any    *)
(* resolution of Sonarr's dates and any interference of other programs.     *)
(***************************************************************************)
EXTENDS ImportEvidence, Integers, TLAPS

----------------------------------------------------------------------------
(* Dates without their fraction of a second. *)

LEMMA Fractions ==
  ASSUME NEW t \in Nat
  PROVE  /\ Truncated(t) \in Nat /\ Truncated(t) <= t
         /\ Truncated(t) % TicksPerSecond = 0
         /\ \A s \in Nat : s <= t => Truncated(s) <= Truncated(t)
  <1> DEFINE T == TicksPerSecond
             q == t \div T
  <1>1. T \in Nat \ {0}
    BY ImportEvidenceAssumption
  <1> HIDE DEF T
  <1>2. t % T \in 0..T-1 /\ t % T <= t /\ t - (t % T) \in Nat
    BY <1>1
  <1>3. t = T * q + (t % T) /\ q \in Nat
    BY <1>1
  <1>4. (T * q) % T = 0
    BY <1>1, <1>3
  <1> HIDE DEF q
  <1>5. T * q \in Nat /\ t - (t % T) = T * q
    BY <1>1, <1>2, <1>3
  <1>6. ASSUME NEW s \in Nat, s <= t PROVE s - (s % T) <= t - (t % T)
    BY <1>1, <1>6
  <1>7. \A s \in Nat : Truncated(s) = s - (s % T)
    BY DEF Truncated, T
  <1> QED
    BY <1>2, <1>4, <1>5, <1>6, <1>7 DEF T

\* What the attempt has imported before the cycle's scan is dated within it,
\* with or without the fraction.
LEMMA DatedWithin ==
  ASSUME NEW t \in Nat, scan \in Nat, Started <= t, t <= scan, NEW date \in Dates(t)
  PROVE  EventWithinAttempt(date)
  <1>1. Started \in Nat
    BY ImportEvidenceAssumption
  <1>2. /\ Truncated(t) \in Nat /\ Truncated(t) <= t /\ Truncated(t) % TicksPerSecond = 0
        /\ Truncated(Started) <= Truncated(t) /\ Truncated(Started) \in Nat
        /\ Truncated(Started) <= Started
    BY <1>1, Fractions
  <1>3. CASE date = Truncated(t)
    <2>1. date <= scan
      BY <1>2, <1>3
    <2>2. date % TicksPerSecond = 0 /\ Truncated(Started) <= date
      BY <1>2, <1>3
    <2> QED
      BY <2>1, <2>2 DEF EventWithinAttempt
  <1>4. CASE date = t
    BY <1>1, <1>2, <1>4 DEF EventWithinAttempt
  <1> QED
    BY <1>3, <1>4 DEF Dates

\* The import that was undone before the attempt is not.
LEMMA FormerWithout == ~EventWithinAttempt(1)
  <1>1. TicksPerSecond \in Nat \ {0} /\ Started \in Nat /\ Started > TicksPerSecond
    BY ImportEvidenceAssumption
  <1>2. CASE 1 % TicksPerSecond = 0
    <2>1. TicksPerSecond = 1
      BY <1>1, <1>2
    <2>2. Started % 1 = 0
      BY <1>1
    <2>3. Truncated(Started) = Started
      BY <1>1, <2>1, <2>2 DEF Truncated
    <2>4. ~(Truncated(Started) <= 1)
      BY <1>1, <2>3
    <2> QED
      BY <1>2, <2>4 DEF EventWithinAttempt
  <1>3. CASE 1 % TicksPerSecond # 0
    <2>1. ~(Started <= 1)
      BY <1>1
    <2> QED
      BY <1>3, <2>1 DEF EventWithinAttempt
  <1> QED
    BY <1>2, <1>3

----------------------------------------------------------------------------
(* The inductive invariant. *)

Kinds ==
  /\ now \in Nat /\ scan \in Nat /\ Started <= now /\ scan <= now
  /\ delivered \in [Episodes -> Nat]
  /\ \A e \in Episodes : delivered[e] <= now /\ (delivered[e] # 0 => Started <= delivered[e])
  /\ rest \subseteq Episodes /\ complete \subseteq Episodes
  /\ evidence \subseteq Intended

\* An event says that an import was ours only if it was, but for one of an
\* earlier import; and every import of ours has its event.
Truthful(events_) ==
  \A h \in events_ : h.dropped = "ours" => h.date = 1 \/ delivered[h.episode] # 0
Announced(events_, e) ==
  \E h \in events_ : h.episode = e /\ h.dropped = "ours" /\ h.date \in Dates(delivered[e])

\* What was imported before the scan, as far as the history can show it.
Before(e) == delivered[e] # 0 /\ delivered[e] < scan

EvidenceInv ==
  /\ Kinds
  /\ Truthful(events) /\ Truthful(history)
  /\ \A e \in Intended : delivered[e] # 0 => Announced(events, e)
  /\ EvidenceIsTrue
  /\ complete \cap Intended \subseteq Delivered

FailureInv ==
  /\ pc # "wait" => Pending
  /\ pc \in {"command", "history"} => rest = Episodes
  /\ pc = "episodes" => \A e \in Intended : Before(e) => Announced(history, e)
  /\ pc = "episodes" => \A e \in Intended \ rest : Before(e) => e \in evidence
  /\ FailedBeforeScan

\* An event of an attempt's import is correlated with it, and no other is.
LEMMA CorrelatedIsOurs ==
  ASSUME EvidenceInv, NEW e \in Episodes, NEW h \in history, Correlated(h, e)
  PROVE  e \in Delivered
  <1>1. h.dropped = "ours" /\ h.episode = e /\ h.date # 1
    BY FormerWithout DEF Correlated
  <1> QED
    BY <1>1 DEF EvidenceInv, Truthful, Delivered

LEMMA AnnouncedIsCorrelated ==
  ASSUME EvidenceInv, NEW e \in Episodes, Before(e), Announced(history, e)
  PROVE  \E h \in history : Correlated(h, e)
  <1>1. PICK h \in history : h.episode = e /\ h.dropped = "ours" /\ h.date \in Dates(delivered[e])
    BY DEF Announced
  <1>2. delivered[e] \in Nat /\ scan \in Nat /\ Started <= delivered[e] /\ delivered[e] <= scan
    BY DEF Before, EvidenceInv, Kinds
  <1>3. EventWithinAttempt(h.date)
    BY <1>1, <1>2, DatedWithin
  <1> QED
    BY <1>1, <1>3 DEF Correlated

----------------------------------------------------------------------------
(* Sonarr and the library. *)

\* What the world leaves alone when it does not import for the attempt.
LEMMA OthersKeep ==
  ASSUME EvidenceInv, FailureInv,
         UNCHANGED <<delivered, outcome, evidence, reading>>,
         now' \in Nat, now <= now',
         events \subseteq events', \A h \in events' \ events : h.dropped # "ours"
  PROVE  EvidenceInv' /\ FailureInv'
  <1> USE DEF EvidenceInv, FailureInv
  <1>1. UNCHANGED <<pc, scan, known, history, rest, complete>>
    BY DEF reading
  <1>2. Kinds'
    BY <1>1, ImportEvidenceAssumption DEF Kinds
  <1>3. Truthful(events)' /\ Truthful(history)'
    BY <1>1 DEF Truthful
  <1>4. \A e \in Intended : delivered'[e] # 0 => Announced(events, e)'
    BY DEF Announced, Dates
  <1>5. EvidenceIsTrue' /\ FailedBeforeScan' /\ Delivered' = Delivered /\ Pending' = Pending
    BY <1>1 DEF EvidenceIsTrue, FailedBeforeScan, Delivered, Pending
  <1>6. \A e : Before(e)' = Before(e) /\ Announced(history, e)' = Announced(history, e)
    BY <1>1 DEF Before, Announced, Dates
  <1> QED
    BY <1>1, <1>2, <1>3, <1>4, <1>5, <1>6

\* An import that the attempt has sent: after the scan at hand.
LEMMA ImportsKeep ==
  ASSUME EvidenceInv, FailureInv, NEW e \in Intended, Imports(e),
         UNCHANGED <<outcome, evidence, reading>>
  PROVE  EvidenceInv' /\ FailureInv'
  <1> USE DEF EvidenceInv, FailureInv
  <1>1. UNCHANGED <<pc, scan, known, history, rest, complete>>
    BY DEF reading
  <1>2. PICK date \in Dates(now) : Recorded(e, "ours", "p", date)
    BY DEF Imports
  <1> DEFINE h == [episode |-> e, dropped |-> "ours", path |-> "p", date |-> date]
  <1>3. events' = events \cup {h} /\ now' = now /\ delivered[e] = 0
        /\ delivered' = [delivered EXCEPT ![e] = now]
    BY <1>2 DEF Imports, Recorded
  <1>4. e \in Episodes /\ now > 0 /\ now \in Nat
    BY ImportEvidenceAssumption DEF Kinds
  <1>5. /\ delivered' \in [Episodes -> Nat] /\ delivered'[e] = now
        /\ \A f \in Episodes \ {e} : delivered'[f] = delivered[f]
    BY <1>3, <1>4 DEF Kinds
  <1>6. Kinds'
    BY <1>1, <1>3, <1>4, <1>5 DEF Kinds
  <1>7. Truthful(events)' /\ Truthful(history)'
    <2>1. ASSUME NEW f, f = e \/ delivered[f] # 0 PROVE delivered'[f] # 0
      BY <1>3, <1>4, <1>5, <2>1 DEF Kinds
    <2> QED
      BY <1>1, <1>3, <2>1 DEF Truthful
  <1>8. ASSUME NEW f \in Intended, delivered'[f] # 0 PROVE Announced(events, f)'
    <2>1. CASE f = e
      <3>1. h \in events' /\ h.episode = e /\ h.dropped = "ours" /\ h.date = date
        BY <1>3
      <3>2. date \in Dates(delivered'[e])
        BY <1>2, <1>5
      <3> QED
        BY <2>1, <3>1, <3>2 DEF Announced, Dates
    <2>2. CASE f # e
      BY <1>3, <1>5, <1>8, <2>2, ImportEvidenceAssumption DEF Announced, Dates
    <2> QED
      BY <2>1, <2>2
  <1>9. Delivered \subseteq Delivered'
    BY <1>3, <1>4, <1>5 DEF Delivered
  <1>10. EvidenceIsTrue'
    BY <1>9 DEF EvidenceIsTrue
  <1>11. ASSUME NEW f \in Intended, Before(f)'
         PROVE  Before(f) /\ delivered'[f] = delivered[f]
    <2>1. f # e
      BY <1>1, <1>3, <1>5, <1>11 DEF Before, Kinds
    <2> QED
      BY <1>1, <1>5, <1>11, <2>1, ImportEvidenceAssumption DEF Before
  <1>12. FailedBeforeScan'
    BY <1>1, <1>5, ImportEvidenceAssumption DEF FailedBeforeScan, Kinds
  <1>13. \A f : delivered'[f] = delivered[f] => Announced(history, f)' = Announced(history, f)
    BY <1>1 DEF Announced, Dates
  <1> QED
    BY <1>1, <1>6, <1>7, <1>8, <1>9, <1>10, <1>11, <1>12, <1>13 DEF Pending

LEMMA WorldKeeps ==
  ASSUME EvidenceInv, FailureInv, WorldChanges
  PROVE  EvidenceInv' /\ FailureInv'
  <1>1. UNCHANGED <<ack, outcome, evidence, reading>> /\ now \in Nat
    BY DEF WorldChanges, EvidenceInv, Kinds
  <1>2. CASE \E e \in Intended : Imports(e)
    BY <1>1, <1>2, ImportsKeep
  <1>3. CASE \E state \in {"completed", "failed"} : CommandEnds(state)
    BY <1>1, <1>3, OthersKeep DEF CommandEnds
  <1>4. ASSUME NEW e \in Episodes, NEW to \in Paths, Replaced(e, to)
        PROVE  EvidenceInv' /\ FailureInv'
    BY <1>1, <1>4, OthersKeep DEF Replaced, Recorded
  <1>5. ASSUME NEW e \in Episodes, Deleted(e)
        PROVE  EvidenceInv' /\ FailureInv'
    BY <1>1, <1>5, OthersKeep DEF Deleted
  <1>6. CASE \E f \in Files \ {"none"} : Reprofiled(f)
    BY <1>1, <1>6, OthersKeep DEF Reprofiled
  <1>7. CASE Tick
    BY <1>1, <1>7, OthersKeep DEF Tick
  <1> QED
    BY <1>2, <1>3, <1>4, <1>5, <1>6, <1>7 DEF WorldChanges

----------------------------------------------------------------------------
(* verify. *)

\* The reads that come before the episodes.
LEMMA ReadsKeep ==
  ASSUME EvidenceInv, FailureInv, Cycle \/ ReadCommand \/ ReadHistory
  PROVE  EvidenceInv' /\ FailureInv'
  <1> USE DEF EvidenceInv, FailureInv
  <1>1. UNCHANGED <<now, events, delivered, outcome, evidence>>
    BY DEF Cycle, ReadCommand, ReadHistory, world
  <1>2. EvidenceIsTrue' /\ Delivered' = Delivered /\ Pending' = Pending /\ Truthful(events)'
        /\ \A e : Announced(events, e)' = Announced(events, e)
    BY <1>1 DEF EvidenceIsTrue, Delivered, Pending, Truthful, Announced, Dates
  <1>3. CASE Cycle
    <2>1. /\ pc = "wait" /\ pc' \in {"command", "history"} /\ Pending /\ scan' = now
          /\ history' = {} /\ rest' = Episodes /\ complete' = {}
      BY <1>3 DEF Cycle
    <2>2. Kinds'
      BY <1>1, <2>1 DEF Kinds
    <2>3. Truthful(history)' /\ FailedBeforeScan'
      BY <1>1, <2>1 DEF Truthful, FailedBeforeScan, Pending
    <2> QED
      BY <1>1, <1>2, <2>1, <2>2, <2>3
  <1>4. CASE ReadCommand
    <2>1. pc = "command" /\ pc' = "history" /\ UNCHANGED <<scan, history, rest, complete>>
      BY <1>4 DEF ReadCommand
    <2>2. Kinds' /\ Truthful(history)' /\ FailedBeforeScan'
      BY <1>1, <2>1 DEF Kinds, Truthful, FailedBeforeScan
    <2> QED
      BY <1>1, <1>2, <2>1, <2>2
  <1>5. CASE ReadHistory
    <2>1. /\ pc = "history" /\ pc' = "episodes" /\ history' = events
          /\ UNCHANGED <<scan, rest, complete>>
      BY <1>5 DEF ReadHistory
    <2>2. Kinds' /\ Truthful(history)' /\ FailedBeforeScan'
      BY <1>1, <2>1 DEF Kinds, Truthful, FailedBeforeScan
    <2>3. ASSUME NEW e \in Intended, Before(e)'
          PROVE  Announced(history, e)'
      BY <1>1, <2>1, <2>3 DEF Before, Announced, Dates
    <2>4. rest = Episodes
      BY <2>1
    <2> QED
      BY <1>1, <1>2, <2>1, <2>2, <2>3, <2>4, ImportEvidenceAssumption
  <1> QED
    BY <1>3, <1>4, <1>5
\* Evidence is taken from the events of an episode, whatever becomes of the
\* reads that follow.
LEMMA ImportedIs ==
  ASSUME EvidenceInv, NEW e \in Episodes, Imported(e)
  PROVE  /\ evidence \subseteq evidence' /\ evidence' \subseteq Intended \cap Delivered
         /\ e \in Intended /\ Before(e) /\ Announced(history, e) => e \in evidence'
  <1>1. evidence \subseteq Intended \cap Delivered
    BY DEF EvidenceInv, Kinds, EvidenceIsTrue
  <1>2. evidence' = IF e \in Intended /\ \E h \in history : Correlated(h, e)
                    THEN evidence \cup {e} ELSE evidence
    BY DEF Imported
  <1>3. (\E h \in history : Correlated(h, e)) => e \in Delivered
    BY CorrelatedIsOurs
  <1>4. Before(e) /\ Announced(history, e) => \E h \in history : Correlated(h, e)
    BY AnnouncedIsCorrelated
  <1> QED
    BY <1>1, <1>2, <1>3, <1>4

\* What a failed read and a look at an episode leave alone.
LEMMA LookingKeeps ==
  ASSUME EvidenceInv, UNCHANGED <<world, scan, history>>
  PROVE  /\ UNCHANGED <<now, events, delivered, scan, history>>
         /\ Truthful(events)' /\ Truthful(history)' /\ Delivered' = Delivered
         /\ \A e : /\ Announced(events, e)' = Announced(events, e)
                   /\ Announced(history, e)' = Announced(history, e)
                   /\ Before(e)' = Before(e)
  BY DEF EvidenceInv, world, Truthful, Delivered, Announced, Dates, Before

LEMMA LookAtKeeps ==
  ASSUME EvidenceInv, FailureInv, NEW e \in Episodes, LookAt(e)
  PROVE  EvidenceInv' /\ FailureInv'
  <1>1. /\ pc = "episodes" /\ e \in rest /\ rest' = rest \ {e} /\ Imported(e)
        /\ complete' = IF AsIntended(e) THEN complete \cup {e} ELSE complete
        /\ IF rest' = {} THEN outcome' = Outcome(evidence', complete') /\ pc' = "wait"
           ELSE UNCHANGED <<outcome, pc>>
        /\ UNCHANGED <<world, ack, scan, known, history>>
    BY DEF LookAt
  <1>2. /\ UNCHANGED <<now, events, delivered, scan, history>>
        /\ Truthful(events)' /\ Truthful(history)' /\ Delivered' = Delivered
        /\ \A f : /\ Announced(events, f)' = Announced(events, f)
                  /\ Announced(history, f)' = Announced(history, f)
                  /\ Before(f)' = Before(f)
    BY <1>1, LookingKeeps
  <1>3. /\ evidence \subseteq evidence' /\ evidence' \subseteq Intended \cap Delivered
        /\ e \in Intended /\ Before(e) /\ Announced(history, e) => e \in evidence'
    BY <1>1, ImportedIs
  <1>4. Kinds'
    BY <1>1, <1>2, <1>3 DEF EvidenceInv, Kinds
  <1>5. complete' \cap Intended \subseteq Delivered
    <2>1. AsIntended(e) /\ e \in Intended => e \in Delivered
      BY CorrelatedIsOurs DEF AsIntended
    <2> QED
      BY <1>1, <2>1 DEF EvidenceInv
  <1>6. outcome' = "verified" => Intended \subseteq Delivered
    <2>1. outcome \in {"pending", "partial"}
      BY <1>1 DEF FailureInv, Pending
    <2>2. ASSUME outcome' = "verified" PROVE complete' = Episodes
      BY <1>1, <2>1, <2>2 DEF Outcome
    <2> QED
      BY <1>5, <2>2, ImportEvidenceAssumption
  <1>7. EvidenceInv'
    BY <1>2, <1>3, <1>4, <1>5, <1>6 DEF EvidenceInv, EvidenceIsTrue
  <1>8. \A f \in Intended \ rest' : Before(f) => f \in evidence'
    BY <1>1, <1>3 DEF FailureInv
  <1>9. FailedBeforeScan'
    <2>1. ASSUME outcome' = "failed" PROVE rest' = {} /\ evidence' = {}
      <3>1. outcome # "failed"
        BY <1>1 DEF FailureInv, Pending
      <3> QED
        BY <1>1, <2>1, <3>1 DEF Outcome, KnownFailure
    <2>2. ASSUME outcome' = "failed", NEW f \in Intended
          PROVE  delivered'[f] = 0 \/ delivered'[f] >= scan'
      <3>1. ~Before(f)
        BY <1>8, <2>1, <2>2
      <3>2. delivered[f] \in Nat /\ scan \in Nat
        BY ImportEvidenceAssumption DEF EvidenceInv, Kinds
      <3> QED
        BY <1>2, <3>1, <3>2 DEF Before
    <2> QED
      BY <2>2 DEF FailedBeforeScan
  <1>10. FailureInv'
    BY <1>1, <1>2, <1>8, <1>9 DEF FailureInv, Pending
  <1> QED
    BY <1>7, <1>10

LEMMA ReadFailsKeeps ==
  ASSUME EvidenceInv, FailureInv, ReadFails
  PROVE  EvidenceInv' /\ FailureInv'
  <1>1. /\ pc # "wait" /\ pc' = "wait"
        /\ UNCHANGED evidence \/ \E e \in rest : Imported(e)
        /\ outcome' = IF evidence' # {} THEN "partial" ELSE outcome
        /\ UNCHANGED <<world, ack, scan, known, history, rest, complete>>
    BY DEF ReadFails
  <1>2. /\ UNCHANGED <<now, events, delivered, scan, history>>
        /\ Truthful(events)' /\ Truthful(history)' /\ Delivered' = Delivered
        /\ \A f : /\ Announced(events, f)' = Announced(events, f)
                  /\ Announced(history, f)' = Announced(history, f)
                  /\ Before(f)' = Before(f)
    BY <1>1, LookingKeeps
  <1>3. evidence' \subseteq Intended \cap Delivered
    <2>1. CASE UNCHANGED evidence
      BY <2>1 DEF EvidenceInv, Kinds, EvidenceIsTrue
    <2>2. CASE \E e \in rest : Imported(e)
      BY <2>2, ImportedIs DEF EvidenceInv, Kinds
    <2> QED
      BY <1>1, <2>1, <2>2
  <1>4. outcome' \in {"pending", "partial"}
    BY <1>1 DEF FailureInv, Pending
  <1>5. EvidenceInv'
    BY <1>1, <1>2, <1>3, <1>4 DEF EvidenceInv, Kinds, EvidenceIsTrue
  <1>6. FailureInv'
    BY <1>1, <1>4 DEF FailureInv, FailedBeforeScan
  <1> QED
    BY <1>5, <1>6

LEMMA EvidenceInitial == Init => EvidenceInv /\ FailureInv
  <1> SUFFICES ASSUME Init
               PROVE  EvidenceInv /\ FailureInv
    OBVIOUS
  <1>1. Kinds
    BY ImportEvidenceAssumption DEF Init, Kinds
  <1>2. Truthful(events) /\ Truthful(history)
    BY DEF Init, Truthful
  <1>3. EvidenceIsTrue /\ FailedBeforeScan
    BY DEF Init, EvidenceIsTrue, FailedBeforeScan
  <1> QED
    BY <1>1, <1>2, <1>3, ImportEvidenceAssumption DEF Init, EvidenceInv, FailureInv

LEMMA EvidenceKept ==
  EvidenceInv /\ FailureInv /\ [Next]_vars => (EvidenceInv /\ FailureInv)'
  <1> SUFFICES ASSUME EvidenceInv, FailureInv, [Next]_vars
               PROVE  EvidenceInv' /\ FailureInv'
    OBVIOUS
  <1>1. CASE UNCHANGED vars
    BY <1>1 DEF vars, world, reading, EvidenceInv, FailureInv, Kinds, Truthful, Announced, Dates,
                Before, EvidenceIsTrue, FailedBeforeScan, Delivered, Pending
  <1>2. ASSUME NEW e \in Episodes, LookAt(e)
        PROVE  EvidenceInv' /\ FailureInv'
    BY <1>2, LookAtKeeps
  <1> QED
    BY <1>1, <1>2, WorldKeeps, ReadsKeep, ReadFailsKeeps DEF Next, Verify

----------------------------------------------------------------------------
(* The theorems. *)

\* What is recorded as evidence, and all of a verified import, is what the
\* attempt has imported: no event of another import, no earlier event of the
\* same path and no coincidence of reads passes for it (verify, event).
THEOREM EvidenceAlwaysTrue == Spec => []EvidenceIsTrue
  <1>1. EvidenceInv => EvidenceIsTrue
    BY DEF EvidenceInv
  <1> QED
    BY <1>1, EvidenceInitial, EvidenceKept, PTL DEF Spec

\* An import that verify gives up as failed, so that it may be sent again, had
\* imported nothing when the cycle scanned the queue: whatever it had imported
\* until then is in the history that was read, with a date that counts.
THEOREM FailureIsCertain == Spec => []FailedBeforeScan
  <1>1. FailureInv => FailedBeforeScan
    BY DEF FailureInv
  <1> QED
    BY <1>1, EvidenceInitial, EvidenceKept, PTL DEF Spec
=============================================================================
