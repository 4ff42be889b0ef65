----------------------------- MODULE HealthProofs -----------------------------
(***************************************************************************)
(* Why healthcheck may believe what the last save left in the store, for    *)
(* any polling interval, deadline and downloads.                           *)
(***************************************************************************)
EXTENDS Health, Integers, TLAPS

Statuses ==
  [ready : BOOLEAN, failure : BOOLEAN, connected : BOOLEAN, heartbeat : Nat, scan : Nat]

Kinds ==
  /\ db \in Statuses /\ status \in Statuses
  /\ begun \in Nat /\ scanned \in Nat /\ busy \in Nat
  /\ missed \in BOOLEAN /\ failed \in BOOLEAN /\ stopped \in BOOLEAN

\* A scan that a status knows of is no younger than the last one, and before
\* the cycle at hand has scanned, it is older than that cycle.
Dated(s) == s.scan <= 3 * Poll => scanned <= s.scan /\ (pc \in {"queue", "observe"} => begun <= s.scan)

\* Failed reads are on record wherever something is saved, and in what is.
Recorded ==
  /\ missed /\ pc \notin {"off", "observe"} => status.failure
  /\ failed => db.failure

HealthInv ==
  /\ Kinds
  /\ Dated(db) /\ (pc # "off" => Dated(status))
  /\ Recorded
  /\ stopped => pc = "off" /\ ~db.ready

LEMMA HealthInitial == Init => HealthInv
  <1> SUFFICES ASSUME Init
               PROVE  HealthInv
    OBVIOUS
  <1>1. Old \in Nat /\ Old > 3 * Poll
    BY HealthAssumption DEF Old
  <1>2. NewStatus \in Statuses /\ NewStatus.scan = Old
    BY <1>1 DEF NewStatus, Statuses
  <1>3. Kinds
    BY <1>1, <1>2 DEF Init, Kinds
  <1>4. ~(NewStatus.scan <= 3 * Poll)
    BY <1>1, <1>2, HealthAssumption
  <1> QED
    BY <1>3, <1>4 DEF Init, HealthInv, Dated, Recorded

\* The end of a process, with or without its last save.
LEMMA EndsKeep ==
  ASSUME HealthInv, pc # "off", NEW s, missed' \in BOOLEAN,
         s \in Statuses,
         s.scan = status.scan, missed' => s.failure,
         Ends(s), UNCHANGED <<begun, scanned>>
  PROVE  HealthInv'
  <1> USE DEF HealthInv, Kinds, Statuses
  <1>1. /\ pc' = "off" /\ UNCHANGED busy /\ status' = [s EXCEPT !.ready = FALSE, !.heartbeat = 0]
        /\ \/ db' = status' /\ stopped' = TRUE /\ failed' = missed'
           \/ UNCHANGED <<db, stopped, failed>>
    BY DEF Ends
  <1>2. /\ status' \in Statuses
        /\ ~status'.ready /\ status'.failure = s.failure /\ status'.scan = status.scan
    BY <1>1
  <1>3. CASE db' = status' /\ stopped' = TRUE /\ failed' = missed'
    <2>1. Dated(db)'
      BY <1>1, <1>2, <1>3 DEF Dated
    <2>2. Recorded'
      BY <1>1, <1>2, <1>3 DEF Recorded
    <2> QED
      BY <1>1, <1>2, <1>3, <2>1, <2>2
  <1>4. CASE UNCHANGED <<db, stopped, failed>>
    BY <1>1, <1>2, <1>4 DEF Dated, Recorded
  <1> QED
    BY <1>1, <1>3, <1>4

\* The save that ends a cycle.
LEMMA CycleSavedKeeps ==
  ASSUME HealthInv, pc # "off", NEW s, missed' \in BOOLEAN,
         s \in Statuses,
         s.scan = status.scan, missed' => s.failure,
         CycleSaved(s), UNCHANGED <<begun, scanned>>
  PROVE  HealthInv'
  <1> USE DEF HealthInv, Kinds, Statuses
  <1>1. CASE Ends(s)
    BY <1>1, EndsKeep
  <1>2. CASE /\ status' = s /\ db' = s /\ pc' = "wait" /\ failed' = missed'
             /\ busy' = begun /\ UNCHANGED stopped
    BY <1>2 DEF Dated, Recorded
  <1>3. CASE status' = s /\ pc' = "wait" /\ UNCHANGED <<db, failed, stopped, busy>>
    BY <1>3 DEF Dated, Recorded
  <1> QED
    BY <1>1, <1>2, <1>3 DEF CycleSaved

LEMMA CycleKeeps ==
  ASSUME HealthInv, QueueFails \/ (\E d \in Downloads : ObserveFails(d)) \/ End
  PROVE  HealthInv'
  <1> USE DEF HealthInv, Kinds, Statuses
  <1>1. CASE QueueFails \/ \E d \in Downloads : ObserveFails(d)
    <2> DEFINE s == Beats([status EXCEPT !.failure = TRUE, !.connected = FALSE])
    <2>1. /\ s \in Statuses
          /\ s.scan = status.scan /\ s.failure
      BY DEF Beats
    <2>2. pc # "off" /\ missed' = TRUE /\ CycleSaved(s) /\ UNCHANGED <<begun, scanned>>
      BY <1>1 DEF QueueFails, ObserveFails, Deferred, task
    <2> QED
      BY <2>1, <2>2, CycleSavedKeeps
  <1>2. CASE End
    <2> DEFINE s == Beats(status)
    <2>1. /\ s \in Statuses
          /\ s.scan = status.scan /\ s.failure = status.failure
      BY DEF Beats
    <2>2. pc = "end" /\ missed' = missed /\ CycleSaved(s) /\ UNCHANGED <<begun, scanned>>
      BY <1>2 DEF End, task
    <2>3. missed => s.failure
      BY <2>1, <2>2 DEF Recorded
    <2> QED
      BY <2>1, <2>2, <2>3, CycleSavedKeeps
  <1> QED
    BY <1>1, <1>2

\* Reads and mutations within a cycle.
LEMMA ReadsKeep ==
  ASSUME HealthInv, ReadQueue \/ Observe \/ VerifyFails \/ Mutate \/ Verify
  PROVE  HealthInv'
  <1> USE DEF HealthInv, Kinds, Statuses
  <1>1. CASE ReadQueue
    BY <1>1 DEF ReadQueue, Reconnected, Dated, Recorded, task, history
  <1>2. CASE Observe
    <2>1. /\ pc = "observe" /\ pc' = "verify" /\ status' = [status EXCEPT !.scan = begun]
          /\ scanned' = begun /\ missed' = FALSE /\ UNCHANGED <<begun, db, failed, stopped, busy>>
      BY <1>2 DEF Observe, task
    <2>2. status' \in Statuses /\ status'.scan = begun
      BY <2>1
    <2>3. Dated(db)'
      BY <2>1 DEF Dated
    <2>4. Dated(status)'
      BY <2>1, <2>2 DEF Dated
    <2> QED
      BY <2>1, <2>2, <2>3, <2>4 DEF Recorded
  <1>3. CASE VerifyFails
    BY <1>3 DEF VerifyFails, FailureRecorded, Dated, Recorded, task
  <1>4. CASE Mutate
    BY <1>4 DEF Mutate, Dated, Recorded, task
  <1>5. CASE Verify
    BY <1>5 DEF Verify, Dated, Recorded, task, history
  <1> QED
    BY <1>1, <1>2, <1>3, <1>4, <1>5

LEMMA ProcessKeeps ==
  ASSUME HealthInv,
         \/ Start \/ Stop \/ Crash \/ Cycle \/ Preview \/ EndPreview
         \/ \E downloads \in Selections : Execution(downloads)
  PROVE  HealthInv'
  <1> USE DEF HealthInv, Kinds, Statuses
  <1>1. CASE Start
    BY <1>1 DEF Start, Dated, Recorded, task
  <1>2. CASE Stop
    <2>1. pc = "wait" /\ Ends(status) /\ UNCHANGED <<begun, scanned, missed>>
      BY <1>2 DEF Stop, task
    <2>2. missed => status.failure
      BY <2>1 DEF Recorded
    <2> QED
      BY <2>1, <2>2, EndsKeep
  <1>3. CASE Crash
    BY <1>3 DEF Crash, Dated, Recorded, task
  <1>4. CASE Cycle \/ Preview \/ \E downloads \in Selections : Execution(downloads)
    <2>1. /\ pc = "wait" /\ pc' \in {"queue", "preview"} /\ begun' = 0
          /\ UNCHANGED <<db, status, missed, failed, scanned, stopped, busy>>
      BY <1>4 DEF Cycle, Preview, Execution, Begin, history
    <2> QED
      BY <2>1 DEF Dated, Recorded
  <1>5. CASE EndPreview
    BY <1>5 DEF EndPreview, Dated, Recorded, task, history
  <1> QED
    BY <1>1, <1>2, <1>3, <1>4, <1>5

LEMMA Ageing ==
  ASSUME NEW s \in Statuses
  PROVE  /\ Aged(s) \in Statuses /\ Aged(s).scan = Older(s.scan)
         /\ Aged(s).failure = s.failure /\ Aged(s).ready = s.ready
  <1>1. Older(s.heartbeat) \in Nat /\ Older(s.scan) \in Nat
    BY DEF Older, Statuses
  <1> QED
    BY <1>1 DEF Aged, Statuses

\* Time passes for the statuses, the cycle and the last scan alike.
LEMMA TickKeeps ==
  ASSUME HealthInv, Tick
  PROVE  HealthInv'
  <1> USE HealthAssumption DEF HealthInv, Kinds
  <1>1. /\ db' = Aged(db) /\ status' = Aged(status) /\ scanned' = Older(scanned)
        /\ begun' = IF InCycle THEN begun + 1 ELSE begun
        /\ busy' = IF InCycle THEN Older(busy) ELSE busy
        /\ UNCHANGED <<pc, missed, failed, stopped>>
    BY DEF Tick
  <1>2. \A age \in Nat : Older(age) \in {age, age + 1} /\ (age <= 3 * Poll => Older(age) = age + 1)
    BY DEF Older, Old
  <1>3. ASSUME NEW s \in Statuses
        PROVE  /\ Aged(s) \in Statuses /\ Aged(s).scan = Older(s.scan)
               /\ Aged(s).failure = s.failure /\ Aged(s).ready = s.ready
    BY Ageing
  <1>4. Kinds'
    BY <1>1, <1>2, <1>3
  <1>5. ASSUME NEW s \in Statuses, Dated(s),
               Aged(s).scan <= 3 * Poll
        PROVE  scanned' <= Aged(s).scan /\ (pc' \in {"queue", "observe"} => begun' <= Aged(s).scan)
    BY <1>1, <1>2, <1>3, <1>5 DEF Dated, InCycle, Statuses
  <1>6. Dated(db)' /\ (pc' # "off" => Dated(status)')
    BY <1>1, <1>5 DEF Dated
  <1>7. Recorded'
    BY <1>1, <1>3 DEF Recorded
  <1> QED
    BY <1>1, <1>3, <1>4, <1>6, <1>7

LEMMA HealthKept == HealthInv /\ [Next]_vars => HealthInv'
  <1> SUFFICES ASSUME HealthInv, [Next]_vars
               PROVE  HealthInv'
    OBVIOUS
  <1>1. ASSUME UNCHANGED <<db, status, pc, begun, missed, failed, scanned, stopped, busy>>
        PROVE  HealthInv'
    BY <1>1 DEF HealthInv, Kinds, Dated, Recorded
  <1>2. ASSUME NEW x, Answers(x) \/ Breaks(x)
        PROVE  HealthInv'
    BY <1>1, <1>2 DEF Answers, Breaks, task, history
  <1>3. CASE UNCHANGED vars
    BY <1>1, <1>3 DEF vars
  <1> QED
    BY <1>2, <1>3, CycleKeeps, ReadsKeep, ProcessKeeps, TickKeeps DEF Next, CycleStep

LEMMA HealthInvariant == Spec => []HealthInv
  BY HealthInitial, HealthKept, PTL DEF Spec

\* A healthy status is the truth about a process that healthcheck cannot see:
\* whatever crashes, failed saves, restarts and manual cycles led to it, all
\* reads of a cycle of this process or one before it succeeded within three
\* polls, the last cycle saved found all it had to read, and the process was
\* not stopped (UpdateStatus, failed, Healthy).
THEOREM HealthAlwaysTruthful == Spec => []HealthyTruthful
  <1>1. HealthInv => HealthyTruthful
    BY HealthAssumption DEF HealthInv, Kinds, Statuses, Dated, Recorded, HealthyTruthful, Healthy, Fresh
  <1> QED
    BY <1>1, HealthInvariant, PTL
----------------------------------------------------------------------------
(* No false alarm. *)

\* How old the heartbeat and the scan of a calm process may have become since
\* the cycle of the heartbeat began: for what has been spent in cycles and
\* previews, and for what has run down of the interval.
Lapse == busy + Poll - next

Ranges ==
  /\ automatic \in BOOLEAN /\ calm \in BOOLEAN
  /\ begun <= CycleTime /\ next \in Nat /\ next <= Poll
  /\ pc \in {"off", "wait", "queue", "observe", "verify", "end", "preview"}

\* What a running process has in its status.
Marked ==
  /\ pc # "off" => status.ready
  /\ pc \in {"observe", "verify", "end"} => status.connected
  /\ pc \in {"observe", "verify"} => ~status.failure
  /\ pc = "end" /\ ~missed => ~status.failure
  /\ pc \in {"verify", "end"} => status.scan <= begun
  /\ InCycle /\ Prompt => begun <= busy

\* What a calm process has committed.
Assured ==
  calm => /\ pc # "off"
          /\ db.ready /\ ~db.failure /\ db.connected
          /\ Prompt => db.heartbeat <= Lapse /\ db.scan <= Lapse
          /\ status.heartbeat = db.heartbeat

CalmInv == Kinds /\ Ranges /\ Marked /\ Assured

\* A process that ends is not calm.
LEMMA EndsUncalm ==
  ASSUME CalmInv, NEW s, s \in Statuses, Ends(s), missed' \in BOOLEAN,
         UNCHANGED <<begun, scanned, automatic, next>>
  PROVE  CalmInv'
  <1>1. /\ pc' = "off" /\ calm' = FALSE /\ UNCHANGED busy
        /\ status' = [s EXCEPT !.ready = FALSE, !.heartbeat = 0]
        /\ \/ db' = status' /\ stopped' = TRUE /\ failed' = missed'
           \/ UNCHANGED <<db, stopped, failed>>
    BY DEF Ends
  <1>2. status' \in Statuses
    BY <1>1 DEF Statuses
  <1> QED
    BY <1>1, <1>2 DEF CalmInv, Kinds, Ranges, Marked, Assured, InCycle

\* The save that ends a cycle dates both with the cycle.
LEMMA CycleSavedCalm ==
  ASSUME CalmInv, pc \in {"queue", "observe", "end"}, missed' \in BOOLEAN,
         NEW s, s \in Statuses, s.ready, s.heartbeat = begun,
         ~missed' => ~s.failure /\ s.connected /\ s.scan <= begun,
         CycleSaved(s), UNCHANGED <<begun, scanned, automatic>>
  PROVE  CalmInv'
  <1> USE HealthAssumption DEF CalmInv
  <1>1. CASE automatic /\ UNCHANGED next /\ Ends(s)
    BY <1>1, EndsUncalm
  <1>2. CASE /\ status' = s /\ db' = s /\ pc' = "wait" /\ next' = IF automatic THEN Poll ELSE next
             /\ failed' = missed' /\ calm' = ~missed' /\ busy' = begun /\ UNCHANGED stopped
    <2>1. Kinds' /\ Ranges' /\ Marked'
      BY <1>2 DEF Kinds, Ranges, Marked, InCycle, Statuses
    <2>2. Lapse' \in Int /\ Lapse' >= begun
      <3>1. busy' = begun /\ begun \in Nat /\ next' \in Nat /\ next' <= Poll
        BY <1>2 DEF Kinds, Ranges
      <3>2. \A b, p, n \in Nat : n <= p => b + p - n \in Int /\ b + p - n >= b
        OBVIOUS
      <3>3. Lapse' = begun + Poll - next' /\ Poll \in Nat
        BY <3>1 DEF Lapse
      <3> QED
        BY <3>1, <3>2, <3>3
    <2>3. Assured'
      <3>1. begun \in Nat
        BY DEF Kinds
      <3>2. SUFFICES ASSUME calm'
                     PROVE  /\ pc' # "off" /\ db'.ready /\ ~db'.failure /\ db'.connected
                            /\ Prompt' => db'.heartbeat <= Lapse' /\ db'.scan <= Lapse'
                            /\ status'.heartbeat = db'.heartbeat
        BY DEF Assured
      <3>3. ~s.failure /\ s.connected /\ s.scan <= begun /\ s.scan \in Nat
        BY <1>2, <3>2 DEF Statuses
      <3> QED
        BY <1>2, <2>2, <3>1, <3>3
    <2> QED
      BY <2>1, <2>3
  <1>3. CASE ~automatic /\ status' = s /\ pc' = "wait" /\ calm' = FALSE
             /\ UNCHANGED <<db, next, failed, stopped, busy>>
    BY <1>3 DEF Kinds, Ranges, Marked, Assured, InCycle
  <1> QED
    BY <1>1, <1>2, <1>3 DEF CycleSaved

LEMMA CycleCalm ==
  ASSUME CalmInv, QueueFails \/ (\E d \in Downloads : ObserveFails(d)) \/ End
  PROVE  CalmInv'
  <1> USE DEF CalmInv
  <1>1. CASE QueueFails \/ \E d \in Downloads : ObserveFails(d)
    <2> DEFINE s == Beats([status EXCEPT !.failure = TRUE, !.connected = FALSE])
    <2>1. s \in Statuses /\ s.ready = status.ready /\ s.heartbeat = begun
      BY DEF Beats, Kinds, Statuses
    <2>2. /\ pc \in {"queue", "observe"} /\ missed' = TRUE
          /\ CycleSaved(s) /\ UNCHANGED <<begun, scanned, automatic>>
      BY <1>1 DEF QueueFails, ObserveFails, Deferred, task
    <2> QED
      BY <2>1, <2>2, CycleSavedCalm DEF Marked
  <1>2. CASE End
    <2> DEFINE s == Beats(status)
    <2>1. /\ s \in Statuses /\ s.ready = status.ready /\ s.heartbeat = begun
          /\ s.failure = status.failure /\ s.connected = status.connected /\ s.scan = status.scan
      BY DEF Beats, Kinds, Statuses
    <2>2. pc = "end" /\ missed' = missed /\ CycleSaved(s) /\ UNCHANGED <<begun, scanned, automatic>>
      BY <1>2 DEF End, task
    <2>3. missed \in BOOLEAN
      BY DEF Kinds
    <2> QED
      BY <2>1, <2>2, <2>3, CycleSavedCalm DEF Marked
  <1> QED
    BY <1>1, <1>2

LEMMA ReadsCalm ==
  ASSUME CalmInv, ReadQueue \/ Observe \/ VerifyFails \/ Mutate \/ Verify
  PROVE  CalmInv'
  <1> USE HealthAssumption DEF CalmInv, Kinds, Ranges, Statuses, InCycle
  <1>1. CASE ReadQueue
    BY <1>1 DEF ReadQueue, Reconnected, Marked, Assured, Lapse, Prompt, task, history
  <1>2. CASE Observe
    <2>1. /\ pc = "observe" /\ pc' = "verify" /\ status' = [status EXCEPT !.scan = begun]
          /\ scanned' = begun /\ missed' = FALSE
          /\ UNCHANGED <<db, begun, next, automatic, failed, stopped, calm, busy>>
      BY <1>2 DEF Observe, task
    <2>2. /\ status' \in Statuses /\ status'.scan = begun /\ status'.ready = status.ready
          /\ status'.failure = status.failure /\ status'.connected = status.connected
          /\ status'.heartbeat = status.heartbeat
      BY <2>1
    <2>3. Marked'
      BY <2>1, <2>2 DEF Marked, Prompt
    <2>4. Lapse' = Lapse /\ Prompt' = Prompt
      BY <2>1 DEF Lapse, Prompt
    <2> QED
      BY <2>1, <2>2, <2>3, <2>4 DEF Assured
  <1>3. CASE VerifyFails
    BY <1>3 DEF VerifyFails, FailureRecorded, Marked, Assured, Lapse, Prompt, task
  <1>4. CASE Mutate
    <2>1. /\ pc = "verify" /\ db' = status /\ failed' = missed
          /\ UNCHANGED <<status, pc, begun, next, automatic, missed, scanned, stopped, calm, busy>>
      BY <1>4 DEF Mutate, task
    <2>2. Lapse' = Lapse /\ Prompt' = Prompt /\ Lapse \in Int
      BY <2>1 DEF Lapse, Prompt
    <2>3. Prompt => begun <= Lapse
      BY <2>1 DEF Marked, Lapse
    <2>4. Assured'
      BY <2>1, <2>2, <2>3 DEF Marked, Assured
    <2> QED
      BY <2>1, <2>2, <2>4 DEF Marked
  <1>5. CASE Verify
    BY <1>5 DEF Verify, Marked, Assured, Lapse, Prompt, task, history
  <1> QED
    BY <1>1, <1>2, <1>3, <1>4, <1>5

LEMMA ProcessCalm ==
  ASSUME CalmInv,
         \/ Start \/ Stop \/ Crash \/ Cycle \/ Preview \/ EndPreview
         \/ \E downloads \in Selections : Execution(downloads)
  PROVE  CalmInv'
  <1> USE HealthAssumption DEF CalmInv
  <1>1. CASE Start
    <2>1. /\ pc' = "wait" /\ status' = [db EXCEPT !.ready = TRUE] /\ db' = status'
          /\ next' = 0 /\ stopped' = FALSE /\ calm' = FALSE /\ missed' = failed
          /\ UNCHANGED <<automatic, begun, failed, scanned>> /\ busy' = 0
      BY <1>1 DEF Start, task
    <2>2. status' \in Statuses /\ status'.ready
      BY <2>1 DEF Kinds, Statuses
    <2>3. Kinds'
      BY <2>1, <2>2 DEF Kinds
    <2>4. Ranges'
      <3>1. automatic' \in BOOLEAN /\ calm' \in BOOLEAN
        BY <2>1 DEF Ranges
      <3>2. begun' <= CycleTime /\ next' \in Nat /\ next' <= Poll
        BY <2>1 DEF Ranges
      <3> QED
        BY <2>1, <3>1, <3>2 DEF Ranges
    <2> QED
      BY <2>1, <2>2, <2>3, <2>4 DEF InCycle, Marked, Assured
  <1>2. CASE Stop
    <2>1. pc = "wait" /\ Ends(status) /\ UNCHANGED <<begun, scanned, missed, automatic, next>>
      BY <1>2 DEF Stop, task
    <2>2. status \in Statuses /\ missed \in BOOLEAN
      BY DEF Kinds
    <2> QED
      BY <2>1, <2>2, EndsUncalm
  <1>3. CASE Crash
    BY <1>3 DEF Crash, Kinds, Ranges, InCycle, Marked, Assured, task
  <1>4. CASE Cycle \/ Preview \/ \E downloads \in Selections : Execution(downloads)
    <2>1. /\ pc = "wait" /\ pc' \in {"queue", "preview"} /\ begun' = 0
          /\ automatic' \in BOOLEAN
          /\ UNCHANGED <<db, status, next, missed, failed, scanned, stopped, calm, busy>>
      BY <1>4 DEF Cycle, Preview, Execution, Begin, history
    <2>2. Kinds' /\ Ranges'
      BY <2>1 DEF Kinds, Ranges
    <2>3. Lapse' = Lapse /\ Prompt' = Prompt
      BY <2>1 DEF Lapse, Prompt
    <2>4. Marked'
      BY <2>1 DEF Kinds, Marked
    <2> QED
      BY <2>1, <2>2, <2>3, <2>4 DEF Assured
  <1>5. CASE EndPreview
    <2>1. /\ pc = "preview" /\ pc' = "wait"
          /\ UNCHANGED <<db, status, next, automatic, begun, missed, failed, scanned, stopped, calm, busy>>
      BY <1>5 DEF EndPreview, task, history
    <2>2. Kinds' /\ Ranges' /\ Marked'
      BY <2>1 DEF Kinds, Ranges, Marked, InCycle
    <2>3. Lapse' = Lapse /\ Prompt' = Prompt
      BY <2>1 DEF Lapse, Prompt
    <2> QED
      BY <2>1, <2>2, <2>3 DEF Assured
  <1> QED
    BY <1>1, <1>2, <1>3, <1>4, <1>5

LEMMA TickCalm ==
  ASSUME CalmInv, Tick
  PROVE  CalmInv'
  <1> USE HealthAssumption DEF CalmInv
  <1>1. /\ db' = Aged(db) /\ status' = Aged(status) /\ scanned' = Older(scanned)
        /\ begun' = IF InCycle THEN begun + 1 ELSE begun
        /\ next' = IF pc # "off" /\ next > 0 THEN next - 1 ELSE next
        /\ busy' = IF InCycle THEN Older(busy) ELSE busy
        /\ UNCHANGED <<pc, automatic, missed, failed, stopped, calm>>
        /\ pc = "wait" => next > 0
        /\ InCycle => begun < CycleTime
    BY DEF Tick, WithinDeadline
  <1>2. \A age \in Nat : Older(age) \in Nat /\ Older(age) <= age + 1
    BY DEF Older
  <1>3. ASSUME NEW s \in Statuses
        PROVE  /\ Aged(s) \in Statuses /\ Aged(s).scan = Older(s.scan)
               /\ Aged(s).heartbeat = Older(s.heartbeat)
               /\ Aged(s).failure = s.failure /\ Aged(s).ready = s.ready
               /\ Aged(s).connected = s.connected
    <2>1. Older(s.heartbeat) \in Nat /\ Older(s.scan) \in Nat
      BY <1>2 DEF Statuses
    <2> QED
      BY <2>1 DEF Aged, Statuses
  <1>4. Kinds' /\ Ranges'
    BY <1>1, <1>2, <1>3 DEF Kinds, Ranges
  <1>5. status.scan \in Nat /\ db.scan \in Nat /\ db.heartbeat \in Nat /\ begun \in Nat /\ busy \in Nat
    BY DEF Kinds, Statuses
  <1>6. Prompt' => Prompt /\ busy' = IF InCycle THEN busy + 1 ELSE busy
    <2>1. Poll \in Nat /\ Old = 3 * Poll + 1
      BY DEF Old
    <2>2. CASE InCycle /\ busy < Old
      BY <1>1, <1>5, <2>1, <2>2 DEF Older, Prompt
    <2>3. CASE InCycle /\ ~(busy < Old)
      BY <1>1, <1>5, <2>1, <2>3 DEF Older, Prompt
    <2>4. CASE ~InCycle
      BY <1>1, <2>4 DEF Prompt
    <2> QED
      BY <2>2, <2>3, <2>4
  <1>7. Marked'
    BY <1>1, <1>2, <1>3, <1>5, <1>6 DEF Kinds, Ranges, Marked, InCycle
  <1>8. pc # "off" /\ Prompt' => Lapse' \in Int /\ Lapse \in Int /\ Lapse + 1 <= Lapse'
    BY <1>1, <1>5, <1>6 DEF Lapse, InCycle, Ranges
  <1>9. Assured'
    BY <1>1, <1>2, <1>3, <1>5, <1>8, <1>6 DEF Assured, Kinds
  <1> QED
    BY <1>4, <1>7, <1>9

LEMMA CalmInitial == Init => CalmInv
  <1> SUFFICES ASSUME Init
               PROVE  CalmInv
    OBVIOUS
  <1>1. Old \in Nat
    BY HealthAssumption DEF Old
  <1>2. NewStatus \in Statuses
    BY <1>1 DEF NewStatus, Statuses
  <1>3. Kinds
    BY <1>1, <1>2 DEF Init, Kinds
  <1>4. Ranges
    <2>1. automatic \in BOOLEAN /\ calm \in BOOLEAN
      BY DEF Init
    <2>2. begun <= CycleTime /\ next \in Nat /\ next <= Poll
      BY HealthAssumption DEF Init
    <2> QED
      BY <2>1, <2>2 DEF Init, Ranges
  <1> QED
    BY <1>3, <1>4 DEF Init, CalmInv, Marked, Assured, InCycle

LEMMA CalmKept == CalmInv /\ [Next]_vars => CalmInv'
  <1> SUFFICES ASSUME CalmInv, [Next]_vars
               PROVE  CalmInv'
    OBVIOUS
  <1>1. ASSUME UNCHANGED <<db, status, pc, automatic, begun, next, missed, failed, scanned, stopped, calm, busy>>
        PROVE  CalmInv'
    BY <1>1 DEF CalmInv, Kinds, Ranges, Marked, Assured, Lapse, Prompt, InCycle
  <1>2. ASSUME NEW x, Answers(x) \/ Breaks(x)
        PROVE  CalmInv'
    BY <1>1, <1>2 DEF Answers, Breaks, task, history
  <1>3. CASE UNCHANGED vars
    BY <1>1, <1>3 DEF vars
  <1> QED
    BY <1>2, <1>3, CycleCalm, ReadsCalm, ProcessCalm, TickCalm DEF Next, CycleStep

\* While nothing fails and the service is prompt there is no alarm, for any
\* interval and any deadline of a cycle: neither the age that a heartbeat
\* already has when it is saved, nor the previews and manual cycles before the
\* next automatic one make healthcheck report a service that is well, unless
\* they and the cycles together took more than two intervals (UpdateStatus,
\* Healthy).
THEOREM NeverFalseAlarm == Spec => []NoFalseAlarm
  <1>1. CalmInv => NoFalseAlarm
    <2> SUFFICES ASSUME CalmInv, calm, Prompt
                 PROVE  Healthy
      BY DEF NoFalseAlarm
    <2>1. Lapse \in Int /\ Lapse <= 3 * Poll
      BY HealthAssumption DEF CalmInv, Kinds, Ranges, Lapse, Prompt
    <2> QED
      BY <2>1, HealthAssumption DEF CalmInv, Kinds, Statuses, Assured, Healthy, Fresh
  <1> QED
    BY <1>1, CalmInitial, CalmKept, PTL DEF Spec
=============================================================================
