-------------------------- MODULE RemediatorProofs --------------------------
(***************************************************************************)
(* What holds of the observer loop for every choice of its constants: the  *)
(* types of its state; that a mutation of unknown outcome is recorded      *)
(* durably and never replayed; that dry-run sends nothing; that outcomes,  *)
(* receipts and continuations last; the limits on what is sent; that a     *)
(* replacement search follows one removal only; and that the loop          *)
(* implements the log of mutations.                                        *)
(***************************************************************************)
EXTENDS RemediatorRefines, FiniteSetTheorems, FunctionTheorems, SequenceTheorems, TLAPS

----------------------------------------------------------------------------
(* Types. *)

\* The four parts of the store have the types of their records.
PartsOK ==
  /\ attempts \in SUBSET Attempt
  /\ issues \in [Downloads -> Issue]
  /\ operations \in [Downloads -> Operation]
  /\ triggers \in [Requests -> Receipt]

\* What Save writes is well typed exactly when the parts are.
LEMMA SnapshotParts == Snapshot \in Data <=> PartsOK
  BY DEF Snapshot, Data, PartsOK

LEMMA SnapshotPartsPrime == Snapshot' \in Data <=> PartsOK'
  BY DEF Snapshot, Data, PartsOK

\* The records that stand for an absent issue, operation and receipt.
LEMMA AbsentRecords ==
  NoIssue \in Issue /\ NoOperation \in Operation /\ NoReceipt \in Receipt
  BY DEF NoIssue, NoOperation, NoReceipt, Issue, Operation, Receipt

\* A candidate's decision, and the search that continues a removal, are decisions.
LEMMA VerdictType ==
  ASSUME NEW d \in Downloads, NEW v \in Verdicts[d]
  PROVE  v \in Decision
  BY RemediatorAssumption

LEMMA SearchDecisionType ==
  ASSUME PartsOK, NEW d \in Downloads, SearchPermitted(d),
         NEW targets \in SUBSET operations[d].episodes
  PROVE  SearchDecision(d, targets) \in Decision
  <1>1. targets \in SUBSET Episodes
    BY DEF PartsOK, Operation
  <1>2. (CHOOSE a \in Parents(d) : TRUE) \in Attempt
    BY DEF SearchPermitted, Parents, PartsOK
  <1>3. (CHOOSE a \in Parents(d) : TRUE).decision.fingerprint \in Fingerprints
    BY <1>2 DEF Attempt, Decision
  <1> QED BY <1>1, <1>3 DEF SearchDecision, Decision, Kinds

\* The attempt that reserve and recommend record.
LEMMA NewAttemptType ==
  ASSUME NEW i \in Nat \ {0}, NEW d \in Downloads, NEW v \in Decision, NEW t \in Nat,
         request \in Requests \cup {Background}
  PROVE  NewAttempt(i, d, v, t) \in Attempt
  BY DEF NewAttempt, Attempt, Outcomes, Unresolved

\* Settling transmissions keeps their sequence well typed.
LEMMA SettleType ==
  ASSUME sent \in Seq(Transmission), NEW a, scanTime \in Nat,
         NEW outcome \in {"verified", "submitted", "failed"}, Settle(a, outcome)
  PROVE  sent' \in Seq(Transmission)
  <1>1. ASSUME NEW k \in 1..Len(sent)
        PROVE  (IF sent[k].id = a.id /\ sent[k].started = a.started
                THEN [sent[k] EXCEPT !.end = outcome, !.ended = scanTime] ELSE sent[k])
               \in Transmission
    <2>1. sent[k] \in Transmission
      OBVIOUS
    <2>2. [sent[k] EXCEPT !.end = outcome, !.ended = scanTime] \in Transmission
      BY <2>1 DEF Transmission
    <2> QED BY <2>1, <2>2
  <1>2. sent' \in [1..Len(sent) -> Transmission]
    BY <1>1 DEF Settle
  <1>3. Len(sent) \in Nat
    OBVIOUS
  <1> QED BY <1>2, <1>3, SeqDef

\* verify gives an attempt one of the outcomes.
LEMMA OutcomeType ==
  ASSUME NEW a \in Attempt, NEW command, NEW reading
  PROVE  OutcomeAfter(a, command, reading) \in Outcomes
  BY DEF OutcomeAfter, Attempt, Outcomes, Unresolved

\* Evidence is a Boolean.
LEMMA EvidenceType ==
  ASSUME NEW a \in Attempt, NEW command, NEW reading
  PROVE  Evidence(a, command, reading) \in BOOLEAN
  BY DEF Evidence, Attempt

\* verify leaves operations.
LEMMA ContinuationType ==
  ASSUME PartsOK, NEW a \in attempts, NEW outcome
  PROVE  ContinuationAfter(a, outcome) \in [Downloads -> Operation]
  BY DEF ContinuationAfter, PartsOK, Operation, Attempt, Decision

\* What Prune leaves is well typed.
LEMMA PruneType ==
  ASSUME PartsOK, NEW t \in Nat, Prune(t)
  PROVE  PartsOK'
  BY AbsentRecords DEF Prune, PartsOK

\* What Open makes of well typed records is well typed.
LEMMA RecoverType ==
  ASSUME disk \in Data, now \in Nat \ {0}, Recover
  PROVE  PartsOK'
  <1>1. \A a \in Attempt : Interrupted(a) \in Attempt
    BY DEF Interrupted, Attempt, Outcomes, Unresolved
  <1>2. \A r \in Receipt :
          [r EXCEPT !.status = "interrupted", !.finished = now] \in Receipt
    BY DEF Receipt
  <1> QED BY <1>1, <1>2 DEF Recover, Recovered, Data, PartsOK

\* Saving or failing to save keeps the committed records well typed.
LEMMA SaveType ==
  ASSUME PartsOK', disk \in Data, SaveCommits \/ SaveFails
  PROVE  disk' \in Data
  BY SnapshotPartsPrime DEF SaveCommits, SaveFails

LEMMA CycleResetType ==
  ASSUME CycleReset
  PROVE  /\ scanTime' \in Nat /\ todo' \in SUBSET Nat /\ plans' \in SUBSET Plan
         /\ queue' \in [Downloads -> {"absent", "protected", "eligible"}]
         /\ executing' \in Nat /\ readFailed' \in BOOLEAN
  BY DEF CycleReset, EmptyQueue

\* Types, with the record sets of the store replaced by their parts.
LEMMA TypeParts ==
  TypeOK <=> /\ now \in Nat \ {0} /\ PartsOK /\ disk \in Data
             /\ cfg \in Configs /\ pc \in Steps
             /\ request \in Requests \cup {Background} /\ scanTime \in Nat
             /\ queue \in [Downloads -> {"absent", "protected", "eligible"}]
             /\ todo \in SUBSET Nat /\ plans \in SUBSET Plan /\ executing \in Nat
             /\ readFailed \in BOOLEAN /\ sent \in Seq(Transmission)
  BY SnapshotParts DEF TypeOK, StoreTypeOK

LEMMA TypePartsPrime ==
  TypeOK' <=> /\ now' \in Nat \ {0} /\ PartsOK' /\ disk' \in Data
              /\ cfg' \in Configs /\ pc' \in Steps
              /\ request' \in Requests \cup {Background} /\ scanTime' \in Nat
              /\ queue' \in [Downloads -> {"absent", "protected", "eligible"}]
              /\ todo' \in SUBSET Nat /\ plans' \in SUBSET Plan /\ executing' \in Nat
              /\ readFailed' \in BOOLEAN /\ sent' \in Seq(Transmission)
  BY SnapshotPartsPrime DEF TypeOK, StoreTypeOK

\* Every step keeps the types.
LEMMA TypeStep == TypeOK /\ [Next]_vars => TypeOK'
  <1> SUFFICES ASSUME TypeOK, [Next]_vars PROVE TypeOK'
    OBVIOUS
  <1> USE TypeParts, TypePartsPrime
  <1>1. ASSUME NEW q \in [Downloads -> {"absent", "protected", "eligible"}], Scan(q)
        PROVE TypeOK'
    <2>1. \A i \in Issue, x \in {"absent", "protected", "eligible"}, b \in BOOLEAN :
            Scanned(i, x, b, now) \in Issue
      BY DEF Scanned, Issue
    <2>2. \A d \in Downloads : HasPending(d) \in BOOLEAN
      BY DEF HasPending
    <2>3. issues' \in [Downloads -> Issue]
      BY <1>1, <2>1, <2>2 DEF Scan, PartsOK
    <2>4. todo' \in SUBSET Nat
      BY <1>1 DEF Scan, PartsOK, Verifiable, Attempt
    <2> QED BY <1>1, <2>3, <2>4 DEF Scan, PartsOK, Steps
  <1>2. CASE ScanFails
    <2>1. \A a \in Attempt : [a EXCEPT !.outcome = "uncertain"] \in Attempt
      BY DEF Attempt, Outcomes, Unresolved
    <2>2. \A i \in Issue : [i EXCEPT !.state = "open"] \in Issue
      BY DEF Issue
    <2>3. PartsOK'
      BY <1>2, <2>1, <2>2 DEF ScanFails, PartsOK
    <2>4. disk' \in Data
      BY <1>2, <2>3, SaveType DEF ScanFails, SaveThen
    <2> QED BY <1>2, <2>3, <2>4 DEF ScanFails, SaveThen, AfterError, Steps, cycleVars
  <1>3. CASE CycleRefused
    BY <1>3 DEF CycleRefused, AfterError, Steps, PartsOK, dataVars
  <1>4. CASE Verify
    <2>1. PICK a \in attempts : \E answer \in Answers(a) : Verified(a, answer[1], answer[2])
      BY <1>4 DEF Verify
    <2>2. PICK answer \in Answers(a) : Verified(a, answer[1], answer[2])
      BY <2>1
    <2> DEFINE outcome == OutcomeAfter(a, answer[1], answer[2])
    <2>3. a \in Attempt
      BY DEF PartsOK
    <2>4. outcome \in Outcomes /\ Evidence(a, answer[1], answer[2]) \in BOOLEAN
      BY <2>3, OutcomeType, EvidenceType
    <2>5. \A o \in Outcomes, e \in BOOLEAN, f \in Nat :
            [a EXCEPT !.outcome = o, !.evidence = e, !.finished = f] \in Attempt
      BY <2>3 DEF Attempt
    <2>6. a.finished \in Nat
      BY <2>3 DEF Attempt
    <2>7. attempts' \in SUBSET Attempt
      <3>1. PICK f \in Nat : attempts' = (attempts \ {a}) \cup
              {[a EXCEPT !.outcome = outcome, !.evidence = Evidence(a, answer[1], answer[2]),
                         !.finished = f]}
        BY <2>2, <2>6 DEF Verified
      <3>2. [a EXCEPT !.outcome = outcome, !.evidence = Evidence(a, answer[1], answer[2]),
                      !.finished = f] \in Attempt
        <4> HIDE DEF outcome
        <4> QED BY <2>4, <2>5
      <3> QED BY <3>1, <3>2 DEF PartsOK
    <2>8. operations' \in [Downloads -> Operation]
      BY <2>2, ContinuationType DEF Verified
    <2>9. issues' \in [Downloads -> Issue]
      BY <2>2, <2>3 DEF PartsOK, Issue, Verified
    <2>10. sent' \in Seq(Transmission)
      BY <2>2, SettleType DEF Verified
    <2>11. readFailed' \in BOOLEAN
      BY <2>2, <2>3 DEF Unreadable, Attempt, Decision, Evidence, Verified
    <2>12. todo' \in SUBSET Nat
      BY <2>2 DEF Verified
    <2> QED BY <1>4, <2>12, <2>7, <2>8, <2>9, <2>10, <2>11 DEF Verify, PartsOK, Steps
  <1>5. ASSUME NEW d \in Downloads, NEW v \in Verdicts[d], Select(d, v) PROVE TypeOK'
    BY <1>5, VerdictType DEF Select, PartsOK, dataVars, Plan
  <1>6. ASSUME NEW d \in Downloads, NEW v \in Verdicts[d], Recommend(d, v) PROVE TypeOK'
    <2>1. PICK i \in 1..MaxID : attempts' = attempts \cup
            {[NewAttempt(i, d, v, scanTime) EXCEPT !.dryRun = TRUE, !.finished = scanTime,
                                                   !.outcome = "recommended"]}
      BY <1>6 DEF Recommend
    <2>2. i \in Nat \ {0}
      BY RemediatorAssumption
    <2>3. NewAttempt(i, d, v, scanTime) \in Attempt
      BY <2>2, NewAttemptType, VerdictType
    <2>4. \A a \in Attempt :
            [a EXCEPT !.dryRun = TRUE, !.finished = scanTime, !.outcome = "recommended"]
            \in Attempt
      BY DEF Attempt, Outcomes
    <2> QED BY <1>6, <2>1, <2>3, <2>4 DEF Recommend, PartsOK, cycleVars
  <1>7. ASSUME NEW d \in Downloads, NEW targets \in SUBSET operations[d].episodes,
               SelectSearch(d, targets)
        PROVE TypeOK'
    <2>1. SearchDecision(d, targets) \in Decision
      BY <1>7, SearchDecisionType DEF SelectSearch, SearchReady
    <2> QED BY <1>7, <2>1 DEF SelectSearch, PartsOK, dataVars, Plan
  <1>8. ASSUME NEW d \in Downloads, EndContinuation(d) PROVE TypeOK'
    <2>1. \A o \in Operation : [o EXCEPT !.state = "finished"] \in Operation
      BY DEF Operation
    <2> QED BY <1>8, <2>1 DEF EndContinuation, PartsOK, cycleVars
  <1>9. ASSUME NEW d \in Downloads, SearchUnreadable(d) PROVE TypeOK'
    BY <1>9 DEF SearchUnreadable, PartsOK, dataVars
  <1>10. CASE PlanDone
    BY <1>10 DEF PlanDone, PartsOK, dataVars, Steps, EmptyQueue
  <1>11. ASSUME NEW p \in plans, Skip(p) PROVE TypeOK'
    <2>1. \A o \in Operation : [o EXCEPT !.state = "finished"] \in Operation
      BY DEF Operation
    <2>2. p.download \in Downloads
      BY DEF Plan
    <2>3. operations' \in [Downloads -> Operation]
      <3>1. \/ operations' = operations
            \/ operations' = [operations EXCEPT ![p.download].state = "finished"]
        BY <1>11 DEF Skip
      <3> QED BY <2>1, <2>2, <3>1 DEF PartsOK
    <2>4. readFailed' \in BOOLEAN /\ plans' \in SUBSET Plan
      BY <1>11 DEF Skip
    <2> QED BY <1>11, <2>3, <2>4 DEF Skip, PartsOK
  <1>12. ASSUME NEW p \in plans, NEW v \in Decision, Reserve(p, v),
                UNCHANGED <<now, cfg, request, scanTime, queue, todo, readFailed, sent>>,
                plans' = plans \ {p}
         PROVE TypeOK'
    <2>1. PICK i \in 1..MaxID :
            /\ attempts' = attempts \cup {NewAttempt(i, p.download, v, now)}
            /\ issues' = [issues EXCEPT ![p.download].state = "open"]
            /\ triggers' = IF request = Background THEN triggers
                           ELSE [triggers EXCEPT ![request].attempts = @ \cup {i}]
            /\ executing' = i
      BY <1>12 DEF Reserve
    <2>2. i \in Nat \ {0} /\ p.download \in Downloads
      BY RemediatorAssumption DEF Plan
    <2>3. attempts' \in SUBSET Attempt
      BY <2>1, <2>2, NewAttemptType DEF PartsOK
    <2>4. \A x \in Issue : [x EXCEPT !.state = "open"] \in Issue
      BY DEF Issue
    <2>5. issues' \in [Downloads -> Issue]
      BY <2>1, <2>2, <2>4 DEF PartsOK
    <2>6. \A r \in Receipt : [r EXCEPT !.attempts = @ \cup {i}] \in Receipt
      BY <2>2 DEF Receipt
    <2>7. triggers' \in [Requests -> Receipt]
      BY <2>1, <2>6 DEF PartsOK
    <2>8. PartsOK'
      BY <1>12, <2>3, <2>5, <2>7 DEF PartsOK, Reserve
    <2>9. disk' \in Data
      BY <1>12, <2>8, SaveType DEF Reserve, SaveThen
    <2> QED BY <1>12, <2>1, <2>2, <2>8, <2>9 DEF Reserve, SaveThen, AfterError, Steps
  <1>13. ASSUME NEW p \in plans, Execute(p) PROVE TypeOK'
    BY <1>12, <1>13 DEF Execute, Plan
  <1>14. ASSUME NEW p \in plans, NEW targets \in SUBSET operations[p.download].episodes,
                Search(p, targets)
         PROVE TypeOK'
    <2>1. SearchDecision(p.download, targets) \in Decision
      BY <1>14, SearchDecisionType DEF Search, SearchReady, Plan
    <2> QED BY <1>12, <1>14, <2>1 DEF Search
  <1>15. CASE Transmit
    <2>1. PICK a \in attempts : sent' = Append(sent,
            [id |-> a.id, download |-> a.download, decision |-> a.decision,
             started |-> a.started, request |-> request, dryRun |-> cfg.dryRun,
             override |-> Override, end |-> "open", ended |-> 0])
      BY <1>15 DEF Transmit
    <2>2. a \in Attempt
      BY DEF PartsOK
    <2>3. cfg.dryRun \in BOOLEAN
      BY RemediatorAssumption
    <2>4. sent' \in Seq(Transmission)
      BY <2>1, <2>2, <2>3 DEF Transmission, Attempt, Override
    <2> QED BY <1>15, <2>4 DEF Transmit, PartsOK, dataVars, cycleVars, Steps
  <1>16. ASSUME NEW ack \in BOOLEAN, Respond(ack) PROVE TypeOK'
    <2>1. PICK a \in attempts :
            /\ attempts' = (attempts \ {a}) \cup
                 {[a EXCEPT !.ack = ack, !.outcome = IF ack THEN "pending" ELSE "uncertain"]}
            /\ operations' = IF a.decision.kind = "search"
                             THEN [operations EXCEPT ![a.download].state = "search-attempted"]
                             ELSE operations
      BY <1>16 DEF Respond
    <2>2. a \in Attempt
      BY DEF PartsOK
    <2>3. [a EXCEPT !.ack = ack, !.outcome = IF ack THEN "pending" ELSE "uncertain"] \in Attempt
      BY <2>2 DEF Attempt, Outcomes, Unresolved
    <2>4. \A o \in Operation : [o EXCEPT !.state = "search-attempted"] \in Operation
      BY DEF Operation
    <2>5. a.download \in Downloads
      BY <2>2 DEF Attempt
    <2>6. operations' \in [Downloads -> Operation]
      BY <2>1, <2>4, <2>5 DEF PartsOK
    <2>7. PartsOK'
      BY <1>16, <2>1, <2>3, <2>6 DEF Respond, PartsOK
    <2>8. disk' \in Data
      BY <1>16, <2>7, SaveType DEF Respond, SaveThen
    <2> QED BY <1>16, <2>7, <2>8 DEF Respond, SaveThen, AfterError, Steps
  <1>17. CASE EndCycle
    <2>1. PartsOK'
      BY <1>17, PruneType DEF EndCycle
    <2>2. disk' \in Data
      BY <1>17, <2>1, SaveType DEF EndCycle, SaveThen
    <2> QED BY <1>17, <2>1, <2>2, CycleResetType DEF EndCycle, SaveThen, AfterError, Steps
  <1>18. ASSUME NEW r \in Requests, Accept(r) PROVE TypeOK'
    <2>1. [NoReceipt EXCEPT !.status = "accepted"] \in Receipt
      BY DEF NoReceipt, Receipt
    <2>2. PartsOK'
      BY <1>18, <2>1 DEF Accept, PartsOK
    <2>3. disk' \in Data
      BY <1>18, <2>2, SaveType DEF Accept
    <2> QED BY <1>18, <2>2, <2>3 DEF Accept, Steps
  <1>19. CASE FinishTrigger
    <2>1. \A r \in Receipt : [r EXCEPT !.status = "finished", !.finished = now] \in Receipt
      BY DEF Receipt
    <2>2. triggers' \in [Requests -> Receipt]
      BY <1>19, <2>1 DEF FinishTrigger, PartsOK
    <2>3. PartsOK'
      BY <1>19, <2>2 DEF FinishTrigger, PartsOK
    <2>4. disk' \in Data
      BY <1>19, <2>3, SaveType DEF FinishTrigger
    <2> QED BY <1>19, <2>3, <2>4, CycleResetType DEF FinishTrigger, Steps
  <1>20. ASSUME NEW c \in Configs, Open(c) PROVE TypeOK'
    <2>1. PartsOK'
      BY <1>20, RecoverType DEF Open
    <2>2. disk' \in Data
      BY <1>20, <2>1, SaveType DEF Open
    <2> QED BY <1>20, <2>1, <2>2 DEF Open, cycleVars, Steps
  <1>21. CASE Stop
    BY <1>21 DEF Stop, PartsOK, dataVars, cycleVars, Steps
  <1>22. CASE Exit
    <2>1. PartsOK'
      BY <1>22 DEF Exit, PartsOK, dataVars
    <2>2. disk' \in Data
      BY <1>22, <2>1, SaveType DEF Exit
    <2> QED BY <1>22, <2>1, <2>2, CycleResetType DEF Exit, Steps
  <1>23. CASE Crash
    <2>1. PartsOK'
      BY <1>23 DEF Crash, Forget, Data, PartsOK
    <2> QED BY <1>23, <2>1, CycleResetType DEF Crash, Steps
  <1>24. CASE Tick
    BY <1>24 DEF Tick, PartsOK, dataVars, cycleVars
  <1>25. CASE UNCHANGED vars
    BY <1>25 DEF vars, PartsOK, dataVars, cycleVars
  <1> QED BY <1>1, <1>2, <1>3, <1>4, <1>5, <1>6, <1>7, <1>8, <1>9, <1>10, <1>11, <1>13,
             <1>14, <1>15, <1>16, <1>17, <1>18, <1>19, <1>20, <1>21, <1>22, <1>23, <1>24,
             <1>25 DEF Next, Observe

\* The types hold at the first start.
LEMMA TypeInit == Init => TypeOK
  <1> SUFFICES ASSUME Init PROVE TypeOK
    OBVIOUS
  <1>1. PartsOK
    BY AbsentRecords DEF Init, StoreInit, PartsOK
  <1>2. disk \in Data
    BY <1>1, SnapshotParts DEF Init, StoreInit
  <1>3. sent \in Seq(Transmission)
    BY DEF Init
  <1>4. now \in Nat \ {0}
    BY DEF Init, StoreInit
  <1>5. /\ cfg \in Configs /\ pc \in Steps /\ request \in Requests \cup {Background}
        /\ scanTime \in Nat /\ queue \in [Downloads -> {"absent", "protected", "eligible"}]
        /\ todo \in SUBSET Nat /\ plans \in SUBSET Plan /\ executing \in Nat
        /\ readFailed \in BOOLEAN
    BY DEF Init, EmptyQueue, Steps
  <1> QED BY <1>1, <1>2, <1>3, <1>4, <1>5, TypeParts

\* The state of the observer and of its store is always of the type TypeOK states.
THEOREM TypeCorrect == Spec => []TypeOK
  BY TypeInit, TypeStep, PTL DEF Spec

----------------------------------------------------------------------------
(* The invariant behind NoReplay and WriteAhead.  A set A of attempts is    *)
(* sound for the transmissions S when IDs identify its members, those of    *)
(* unknown outcome do not conflict, and it records every open transmission. *)
(* Both the attempts in memory and those of the last commit are sound: a    *)
(* crash makes the second the first.                                        *)

Keyed(A) == \A a, b \in A : a.id = b.id => a = b
Apart(A) ==
  \A a, b \in A : a # b /\ Pending(a) /\ Pending(b) => ~Conflict(a, b.download, b.decision)
Records(A, S) ==
  \A i \in DOMAIN S : S[i].end = "open" => \E a \in A : SameAttempt(S[i], a) /\ Pending(a)
Sound(A, S) == Keyed(A) /\ Apart(A) /\ Records(A, S)

\* Open transmissions have different IDs.
OpenKeyed(S) ==
  \A i, j \in DOMAIN S : i # j /\ S[i].end = "open" /\ S[j].end = "open" => S[i].id # S[j].id

\* What verify looks at is pending, what is being transmitted is pending, and
\* what is about to be transmitted is committed and was not transmitted yet.
ToVerify == pc = "verify" => \A a \in attempts : a.id \in todo => Pending(a)
UnderWay == pc \in {"intent", "sent"} => \E a \in attempts : a.id = executing /\ Pending(a)
Intended ==
  pc = "intent" =>
    /\ disk.attempts = attempts
    /\ \A i \in DOMAIN sent : sent[i].end = "open" => sent[i].id # executing

ReplayInv ==
  /\ TypeOK
  /\ Sound(attempts, sent) /\ Sound(disk.attempts, sent) /\ OpenKeyed(sent)
  /\ ToVerify /\ UnderWay /\ Intended

\* Every member of B is a member of A or its continuation, and is pending only
\* if that one was.
Traces(B, A) == \A b \in B : \E a \in A : SameAttempt(a, b) /\ (Pending(b) => Pending(a))
\* Besides, every pending member of A has a pending continuation in B.
Continues(B, A) ==
  /\ Traces(B, A)
  /\ \A a \in A : Pending(a) => \E b \in B : SameAttempt(a, b) /\ Pending(b)

\* Steps that resolve or relabel attempts bring no conflict among pending ones.
LEMMA TracesApart ==
  ASSUME NEW A, NEW B, Apart(A), Keyed(B), Traces(B, A)
  PROVE  Apart(B)
  <1> SUFFICES ASSUME NEW b \in B, NEW c \in B, b # c, Pending(b), Pending(c)
               PROVE  ~Conflict(b, c.download, c.decision)
    BY DEF Apart
  <1>1. PICK a \in A : SameAttempt(a, b) /\ Pending(a)
    BY DEF Traces
  <1>2. PICK d \in A : SameAttempt(d, c) /\ Pending(d)
    BY DEF Traces
  <1>3. a # d
    BY <1>1, <1>2 DEF Keyed, SameAttempt
  <1>4. ~Conflict(a, d.download, d.decision)
    BY <1>1, <1>2, <1>3 DEF Apart
  <1> QED BY <1>1, <1>2, <1>4 DEF Conflict, SameAttempt

\* Steps that only relabel attempts keep them sound.
LEMMA ContinuedIsSound ==
  ASSUME NEW A, NEW B, NEW S, Sound(A, S), Keyed(B), Continues(B, A)
  PROVE  Sound(B, S)
  <1>1. Apart(B)
    BY TracesApart DEF Sound, Continues
  <1>2. Records(B, S)
    <2> SUFFICES ASSUME NEW i \in DOMAIN S, S[i].end = "open"
                 PROVE  \E b \in B : SameAttempt(S[i], b) /\ Pending(b)
      BY DEF Records
    <2>1. PICK a \in A : SameAttempt(S[i], a) /\ Pending(a)
      BY DEF Sound, Records
    <2>2. PICK b \in B : SameAttempt(a, b) /\ Pending(b)
      BY <2>1 DEF Continues
    <2> QED BY <2>1, <2>2 DEF SameAttempt
  <1> QED BY <1>1, <1>2 DEF Sound

\* One attempt replaced by its continuation.
LEMMA ReplacedContinues ==
  ASSUME NEW A, Keyed(A), NEW a \in A, NEW b, SameAttempt(a, b),
         Pending(b) => Pending(a)
  PROVE  /\ Keyed((A \ {a}) \cup {b}) /\ Traces((A \ {a}) \cup {b}, A)
         /\ Pending(b) => Continues((A \ {a}) \cup {b}, A)
  BY DEF Keyed, Traces, Continues, SameAttempt

\* An interrupted intent stays pending, as every other attempt stays what it was.
LEMMA InterruptedSame ==
  ASSUME NEW a \in Attempt
  PROVE  SameAttempt(a, Interrupted(a)) /\ (Pending(Interrupted(a)) <=> Pending(a))
  BY DEF Attempt, Interrupted, SameAttempt, Pending, Unresolved

\* So does an attempt that is declared uncertain while it is pending.
LEMMA UncertainSame ==
  ASSUME NEW a \in Attempt, Pending(a)
  PROVE  /\ SameAttempt(a, [a EXCEPT !.outcome = "uncertain"])
         /\ Pending([a EXCEPT !.outcome = "uncertain"])
  BY DEF Attempt, SameAttempt, Pending, Unresolved

\* Open: recovery after a restart.
LEMMA RecoveredIsSound ==
  ASSUME NEW S, disk \in Data, Sound(disk.attempts, S), Recover
  PROVE  Sound(attempts', S)
  <1>1. disk.attempts \in SUBSET Attempt
    BY DEF Data
  <1>2. attempts' = {Interrupted(a) : a \in disk.attempts}
    BY DEF Recover, Recovered
  <1>3. Keyed(attempts')
    BY <1>1, <1>2, InterruptedSame DEF Sound, Keyed, SameAttempt
  <1>4. Continues(attempts', disk.attempts)
    BY <1>1, <1>2, InterruptedSame DEF Continues, Traces
  <1> QED BY <1>3, <1>4, ContinuedIsSound

\* expirePending: a failed scan.
LEMMA ExpiredIsSound ==
  ASSUME NEW S, attempts \in SUBSET Attempt, Sound(attempts, S), ScanFails
  PROVE  Sound(attempts', S)
  <1> DEFINE expired == {a \in attempts : /\ Pending(a) /\ a.outcome # "partial"
                                          /\ Overdue(a, now)}
             After(a) == IF a \in expired THEN [a EXCEPT !.outcome = "uncertain"] ELSE a
  <1>1. attempts' = {After(a) : a \in attempts}
    BY DEF ScanFails
  <1>2. \A a \in attempts : SameAttempt(a, After(a)) /\ (Pending(After(a)) <=> Pending(a))
    BY UncertainSame DEF SameAttempt
  <1> HIDE DEF After
  <1>3. Keyed(attempts')
    BY <1>1, <1>2 DEF Sound, Keyed, SameAttempt
  <1>4. Continues(attempts', attempts)
    BY <1>1, <1>2 DEF Continues, Traces
  <1> QED BY <1>3, <1>4, ContinuedIsSound

\* Prune: every pending attempt is retained.
LEMMA PrunedIsSound ==
  ASSUME NEW S, Sound(attempts, S), NEW t, Prune(t)
  PROVE  Sound(attempts', S)
  <1>1. \A a \in attempts' : a \in attempts
    BY DEF Prune
  <1>2. \A a \in attempts : Pending(a) => a \in attempts'
    BY DEF Prune, RetainAttempt
  <1>3. Keyed(attempts') /\ Continues(attempts', attempts)
    BY <1>1, <1>2 DEF Sound, Keyed, Continues, Traces, SameAttempt
  <1> QED BY <1>3, ContinuedIsSound

\* T is S with some open transmissions settled.
Settled(T, S) ==
  DOMAIN T = DOMAIN S /\ \A i \in DOMAIN S : T[i].end = "open" => T[i] = S[i]

LEMMA SettledIsSound ==
  ASSUME NEW A, NEW S, NEW T, Settled(T, S)
  PROVE  (Sound(A, S) => Sound(A, T)) /\ (OpenKeyed(S) => OpenKeyed(T))
  BY DEF Settled, Sound, Records, OpenKeyed

\* Settling an attempt closes all its transmissions and opens none.
LEMMA SettleCloses ==
  ASSUME sent \in Seq(Transmission), NEW a,
         NEW outcome \in {"verified", "submitted", "failed"}, Settle(a, outcome)
  PROVE  /\ Settled(sent', sent)
         /\ \A i \in DOMAIN sent' :
              sent'[i].end = "open" => ~(sent[i].id = a.id /\ sent[i].started = a.started)
  <1>1. DOMAIN sent = 1..Len(sent) /\ DOMAIN sent' = 1..Len(sent)
    <2>1. DOMAIN sent = 1..Len(sent)
      BY LenProperties
    <2>2. DOMAIN sent' = 1..Len(sent)
      BY Zenon DEF Settle
    <2> QED BY <2>1, <2>2
  <1>2. ASSUME NEW i \in 1..Len(sent), sent[i].id = a.id, sent[i].started = a.started
        PROVE  sent'[i].end = outcome
    <2>1. sent'[i] = [sent[i] EXCEPT !.end = outcome, !.ended = scanTime]
      BY <1>2 DEF Settle
    <2>2. sent[i] \in Transmission
      OBVIOUS
    <2> QED BY <2>1, <2>2 DEF Transmission
  <1>3. ASSUME NEW i \in 1..Len(sent), ~(sent[i].id = a.id /\ sent[i].started = a.started)
        PROVE  sent'[i] = sent[i]
    BY <1>3 DEF Settle
  <1> QED BY <1>1, <1>2, <1>3 DEF Settled

\* A pending attempt that verify does not end stays unresolved.
LEMMA NotEndedIsUnresolved ==
  ASSUME NEW a \in Attempt, Pending(a), NEW command, NEW reading,
         OutcomeAfter(a, command, reading) \notin {"verified", "submitted", "failed"}
  PROVE  OutcomeAfter(a, command, reading) \in Unresolved
  BY DEF OutcomeAfter, Pending, Unresolved

\* verify: the attempt it ends leaves no open transmission behind.
LEMMA VerifiedIsSound ==
  ASSUME TypeOK, Sound(attempts, sent), Sound(disk.attempts, sent), OpenKeyed(sent),
         NEW a \in attempts, Pending(a), NEW command, NEW reading,
         Verified(a, command, reading)
  PROVE  /\ Sound(attempts', sent') /\ Sound(disk.attempts, sent') /\ OpenKeyed(sent')
         /\ \A b \in attempts' : b.id # a.id => b \in attempts
  <1> DEFINE outcome == OutcomeAfter(a, command, reading)
             ends == outcome \in {"verified", "submitted", "failed"}
             f == IF ends THEN scanTime ELSE a.finished
             b == [a EXCEPT !.outcome = outcome, !.evidence = Evidence(a, command, reading),
                            !.finished = f]
  <1>1. a \in Attempt /\ sent \in Seq(Transmission)
    BY TypeParts DEF PartsOK
  <1>2. attempts' = (attempts \ {a}) \cup {b}
    BY DEF Verified
  <1>3. SameAttempt(a, b) /\ b.id = a.id /\ b.outcome = outcome /\ b.dryRun = a.dryRun
    BY <1>1 DEF Attempt, SameAttempt
  <1>4. Keyed(attempts)
    BY DEF Sound
  <1>5. \A c \in attempts' : c.id # a.id => c \in attempts
    BY <1>2, <1>3
  <1> HIDE DEF b
  <1>6. Keyed(attempts') /\ Traces(attempts', attempts)
    BY <1>2, <1>3, <1>4, ReplacedContinues
  <1>7. CASE ends
    <2>1. Settle(a, outcome)
      BY <1>7 DEF Verified
    <2>2. /\ Settled(sent', sent)
          /\ \A i \in DOMAIN sent' :
               sent'[i].end = "open" => ~(sent[i].id = a.id /\ sent[i].started = a.started)
      BY <1>1, <1>7, <2>1, SettleCloses
    <2>3. Sound(disk.attempts, sent') /\ OpenKeyed(sent')
      BY <2>2, SettledIsSound
    <2>4. Records(attempts', sent')
      <3> SUFFICES ASSUME NEW i \in DOMAIN sent', sent'[i].end = "open"
                   PROVE  \E c \in attempts' : SameAttempt(sent'[i], c) /\ Pending(c)
        BY DEF Records
      <3>1. PICK c \in attempts : SameAttempt(sent[i], c) /\ Pending(c)
        BY <2>2 DEF Sound, Records, Settled
      <3>2. c # a
        BY <2>2, <3>1 DEF SameAttempt
      <3> QED BY <1>2, <2>2, <3>1, <3>2 DEF Settled
    <2>5. Apart(attempts')
      BY <1>6, TracesApart DEF Sound
    <2> QED BY <1>5, <1>6, <2>3, <2>4, <2>5 DEF Sound
  <1>8. CASE ~ends
    <2>1. outcome \in Unresolved
      BY <1>1, <1>8, NotEndedIsUnresolved
    <2>2. Pending(b)
      BY <1>3, <2>1 DEF Pending
    <2>3. sent' = sent
      BY <1>8 DEF Verified
    <2>4. Sound(attempts', sent)
      BY <1>2, <1>3, <1>4, <1>6, <2>2, ReplacedContinues, ContinuedIsSound
    <2> QED BY <1>5, <2>3, <2>4
  <1> QED BY <1>7, <1>8

\* reserve: the gate lets in no attempt that conflicts with a pending one.
LEMMA ReservedIsSound ==
  ASSUME TypeOK, Sound(attempts, sent), NEW p \in plans, NEW v \in Decision,
         ~Protected(p.download, v, now, 0) \/ \E x : ~Protected(p.download, v, now, x),
         Reserve(p, v)
  PROVE  /\ Sound(attempts', sent)
         /\ \E a \in attempts' : a.id = executing' /\ Pending(a)
         /\ \A i \in DOMAIN sent : sent[i].end = "open" => sent[i].id # executing'
  <1>1. PICK i \in 1..MaxID :
          /\ IsNextID(i) /\ executing' = i
          /\ attempts' = attempts \cup {NewAttempt(i, p.download, v, now)}
    BY DEF Reserve
  <1> DEFINE a == NewAttempt(i, p.download, v, now)
  <1>2. /\ a.id = i /\ a.download = p.download /\ a.decision = v /\ Pending(a)
    BY DEF NewAttempt, Pending, Unresolved
  <1>3. attempts \in SUBSET Attempt /\ i \in Nat
    BY TypeParts, RemediatorAssumption DEF PartsOK
  <1> HIDE DEF a
  <1>4. \A b \in attempts : b.id # i
    BY <1>1, <1>3 DEF IsNextID, Attempt
  <1>5. \A b \in attempts : Pending(b) => ~Conflict(b, p.download, v)
    BY DEF Protected, Pending
  <1>6. \A b \in attempts : Pending(b) => ~Conflict(a, b.download, b.decision)
    BY <1>2, <1>5 DEF Conflict
  <1>7. attempts' = attempts \cup {a}
    BY <1>1 DEF a
  <1>8. Keyed(attempts')
    BY <1>2, <1>4, <1>7 DEF Sound, Keyed
  <1>9. Apart(attempts')
    BY <1>2, <1>5, <1>6, <1>7 DEF Sound, Apart
  <1>10. Records(attempts', sent)
    BY <1>7 DEF Sound, Records
  <1>11. \A k \in DOMAIN sent : sent[k].end = "open" => sent[k].id # i
    BY <1>4 DEF Sound, Records, SameAttempt
  <1> QED BY <1>1, <1>2, <1>7, <1>8, <1>9, <1>10, <1>11 DEF Sound

\* A step that saves or fails to save leaves sound committed attempts.
LEMMA SavedIsSound ==
  ASSUME Sound(attempts', sent'), Sound(disk.attempts, sent'), SaveCommits \/ SaveFails
  PROVE  Sound(disk'.attempts, sent')
  BY DEF SaveCommits, SaveFails, Snapshot

\* A transmission adds one open transmission, of the attempt under way.
LEMMA TransmittedIsSound ==
  ASSUME ReplayInv, Transmit
  PROVE  Sound(attempts, sent') /\ OpenKeyed(sent')
  <1>1. PICK a \in attempts : a.id = executing /\ sent' = Append(sent,
            [id |-> a.id, download |-> a.download, decision |-> a.decision,
             started |-> a.started, request |-> request, dryRun |-> cfg.dryRun,
             override |-> Override, end |-> "open", ended |-> 0])
    BY DEF Transmit
  <1> DEFINE s == [id |-> a.id, download |-> a.download, decision |-> a.decision,
                   started |-> a.started, request |-> request, dryRun |-> cfg.dryRun,
                   override |-> Override, end |-> "open", ended |-> 0]
  <1>2. pc = "intent" /\ sent \in Seq(Transmission) /\ Sound(attempts, sent) /\ OpenKeyed(sent)
    BY TypeParts DEF Transmit, ReplayInv
  <1>3. Pending(a)
    BY <1>1, <1>2 DEF ReplayInv, UnderWay, Sound, Keyed
  <1>4. SameAttempt(s, a) /\ s.end = "open" /\ s.id = executing
    BY <1>1 DEF SameAttempt
  <1>5. \A i \in DOMAIN sent : sent[i].end = "open" => sent[i].id # executing
    BY <1>2 DEF ReplayInv, Intended
  <1> HIDE DEF s
  <1>6. sent' = Append(sent, s)
    BY <1>1 DEF s
  <1>7. DOMAIN sent = 1..Len(sent) /\ Len(sent) \in Nat
    BY <1>2, LenProperties
  <1>8. /\ DOMAIN sent' = 1..(Len(sent) + 1) /\ sent'[Len(sent) + 1] = s
        /\ \A i \in 1..Len(sent) : sent'[i] = sent[i]
    BY <1>2, <1>6, <1>7
  <1>9. \A i \in DOMAIN sent' : i \in DOMAIN sent \/ i = Len(sent) + 1
    BY <1>7, <1>8
  <1>10. Records(attempts, sent')
    BY <1>2, <1>3, <1>4, <1>7, <1>8, <1>9 DEF Sound, Records
  <1>11. OpenKeyed(sent')
    BY <1>2, <1>4, <1>5, <1>7, <1>8, <1>9 DEF OpenKeyed
  <1> QED BY <1>2, <1>10, <1>11 DEF Sound

\* The answer of Sonarr, or its absence, leaves the attempt under way pending.
LEMMA RespondedIsSound ==
  ASSUME ReplayInv, NEW ack \in BOOLEAN, Respond(ack)
  PROVE  Sound(attempts', sent)
  <1>1. PICK a \in attempts :
          /\ a.id = executing
          /\ attempts' = (attempts \ {a}) \cup
               {[a EXCEPT !.ack = ack, !.outcome = IF ack THEN "pending" ELSE "uncertain"]}
    BY DEF Respond
  <1> DEFINE b == [a EXCEPT !.ack = ack, !.outcome = IF ack THEN "pending" ELSE "uncertain"]
  <1>2. pc \in {"intent", "sent"} /\ Sound(attempts, sent) /\ a \in Attempt
    BY TypeParts DEF Respond, ReplayInv, PartsOK
  <1>3. Pending(a)
    BY <1>1, <1>2 DEF ReplayInv, UnderWay, Sound, Keyed
  <1>4. SameAttempt(a, b) /\ Pending(b)
    BY <1>2, <1>3 DEF Attempt, SameAttempt, Pending, Unresolved
  <1> HIDE DEF b
  <1>5. attempts' = (attempts \ {a}) \cup {b}
    BY <1>1 DEF b
  <1>6. Keyed(attempts') /\ Continues(attempts', attempts)
    BY <1>2, <1>3, <1>4, <1>5, ReplacedContinues DEF Sound
  <1> QED BY <1>2, <1>6, ContinuedIsSound

\* A recommendation is never pending.
LEMMA RecommendedIsSound ==
  ASSUME TypeOK, Sound(attempts, sent), NEW d \in Downloads, NEW v \in Verdicts[d],
         Recommend(d, v)
  PROVE  Sound(attempts', sent)
  <1>1. PICK i \in 1..MaxID : IsNextID(i) /\ attempts' = attempts \cup
          {[NewAttempt(i, d, v, scanTime) EXCEPT !.dryRun = TRUE, !.finished = scanTime,
                                                 !.outcome = "recommended"]}
    BY DEF Recommend
  <1> DEFINE a == [NewAttempt(i, d, v, scanTime) EXCEPT !.dryRun = TRUE, !.finished = scanTime,
                                                        !.outcome = "recommended"]
  <1>2. a.id = i /\ ~Pending(a)
    BY DEF NewAttempt, Pending
  <1>3. \A b \in attempts : b.id # i
    BY <1>1, TypeParts, RemediatorAssumption DEF IsNextID, PartsOK, Attempt
  <1> HIDE DEF a
  <1>4. attempts' = attempts \cup {a}
    BY <1>1 DEF a
  <1>5. Keyed(attempts') /\ Apart(attempts') /\ Records(attempts', sent)
    BY <1>2, <1>3, <1>4 DEF Sound, Keyed, Apart, Records
  <1> QED BY <1>5 DEF Sound

LEMMA ReplayInit == Init => ReplayInv
  <1> SUFFICES ASSUME Init PROVE ReplayInv
    OBVIOUS
  <1>1. attempts = {} /\ disk.attempts = {} /\ sent = <<>> /\ pc = "down"
    BY DEF Init, StoreInit, Snapshot
  <1>2. Sound({}, <<>>) /\ OpenKeyed(<<>>)
    BY DEF Sound, Keyed, Apart, Records, OpenKeyed
  <1> QED BY <1>1, <1>2, TypeInit DEF ReplayInv, ToVerify, UnderWay, Intended

\* The steps that change neither attempts nor what was committed or sent.
LEMMA QuietStep ==
  ASSUME ReplayInv, UNCHANGED <<attempts, disk, sent>>
  PROVE  Sound(attempts', sent') /\ Sound(disk'.attempts, sent') /\ OpenKeyed(sent')
  BY DEF ReplayInv

\* One case per action, each by its lemma.
LEMMA ReplayStep == ReplayInv /\ [Next]_vars => ReplayInv'
  <1> SUFFICES ASSUME ReplayInv, [Next]_vars PROVE ReplayInv'
    OBVIOUS
  <1> DEFINE Sounds == Sound(attempts', sent') /\ Sound(disk'.attempts, sent') /\ OpenKeyed(sent')
             Elsewhere == pc' \notin {"verify", "intent", "sent"}
  <1>1. TypeOK /\ TypeOK' /\ PartsOK /\ disk \in Data /\ sent \in Seq(Transmission)
    BY TypeStep, TypeParts DEF ReplayInv
  <1>2. /\ Sound(attempts, sent) /\ Sound(disk.attempts, sent) /\ OpenKeyed(sent)
        /\ ToVerify /\ UnderWay /\ Intended
    BY DEF ReplayInv
  <1>3. ASSUME Sounds, Elsewhere PROVE ReplayInv'
    BY <1>1, <1>3 DEF ReplayInv, ToVerify, UnderWay, Intended
  <1>4. ASSUME UNCHANGED <<attempts, disk, sent>>, Elsewhere PROVE ReplayInv'
    BY <1>3, <1>4, QuietStep
  <1>5. ASSUME Sound(attempts', sent), UNCHANGED sent, SaveCommits \/ SaveFails, Elsewhere
        PROVE  ReplayInv'
    BY <1>2, <1>3, <1>5, SavedIsSound DEF SaveCommits, SaveFails, Snapshot
  <1>6. ASSUME NEW q \in [Downloads -> {"absent", "protected", "eligible"}], Scan(q)
        PROVE ReplayInv'
    <2>1. Sounds
      BY <1>6, QuietStep DEF Scan
    <2>2. pc' = "verify" => \A a \in attempts' : a.id \in todo' => Pending(a)
      BY <1>2, <1>6 DEF Scan, Verifiable, Sound, Keyed
    <2>3. pc' \in {"plan", "verify"}
      BY <1>6 DEF Scan
    <2> QED BY <1>1, <2>1, <2>2, <2>3 DEF ReplayInv, ToVerify, UnderWay, Intended
  <1>7. CASE ScanFails
    BY <1>1, <1>2, <1>5, <1>7, ExpiredIsSound DEF ScanFails, SaveThen, AfterError, PartsOK
  <1>8. CASE CycleRefused
    BY <1>4, <1>8 DEF CycleRefused, AfterError, dataVars
  <1>9. CASE Verify
    <2>1. PICK a \in attempts :
            a.id \in todo /\ \E answer \in Answers(a) : Verified(a, answer[1], answer[2])
      BY <1>9 DEF Verify
    <2>2. PICK answer \in Answers(a) : Verified(a, answer[1], answer[2])
      BY <2>1
    <2>3. pc = "verify" /\ pc' \in {"plan", "verify"} /\ disk' = disk
      BY <1>9 DEF Verify
    <2>4. Pending(a)
      BY <1>2, <2>1, <2>3 DEF ToVerify
    <2>5. Sounds /\ \A b \in attempts' : b.id # a.id => b \in attempts
      BY <1>1, <1>2, <2>2, <2>3, <2>4, VerifiedIsSound
    <2>6. todo' = todo \ {a.id}
      BY <2>2 DEF Verified
    <2>7. ToVerify'
      BY <1>2, <2>3, <2>5, <2>6 DEF ToVerify
    <2> QED BY <1>1, <2>3, <2>5, <2>7 DEF ReplayInv, UnderWay, Intended
  <1>10. ASSUME NEW d \in Downloads, NEW v \in Verdicts[d], Select(d, v) PROVE ReplayInv'
    BY <1>4, <1>10 DEF Select, dataVars
  <1>11. ASSUME NEW d \in Downloads, NEW v \in Verdicts[d], Recommend(d, v) PROVE ReplayInv'
    BY <1>1, <1>2, <1>3, <1>11, RecommendedIsSound DEF Recommend
  <1>12. ASSUME NEW d \in Downloads, NEW targets, SelectSearch(d, targets) PROVE ReplayInv'
    BY <1>4, <1>12 DEF SelectSearch, dataVars
  <1>13. ASSUME NEW d \in Downloads, EndContinuation(d) \/ SearchUnreadable(d)
         PROVE ReplayInv'
    BY <1>4, <1>13 DEF EndContinuation, SearchUnreadable, dataVars
  <1>14. CASE PlanDone
    BY <1>4, <1>14 DEF PlanDone, dataVars
  <1>15. ASSUME NEW p \in plans, Skip(p) PROVE ReplayInv'
    BY <1>4, <1>15 DEF Skip
  <1>16. ASSUME NEW p \in plans, NEW v \in Decision, NEW parent,
                ~Protected(p.download, v, now, parent), Reserve(p, v), UNCHANGED sent
         PROVE ReplayInv'
    <2>1. /\ Sound(attempts', sent)
          /\ \E a \in attempts' : a.id = executing' /\ Pending(a)
          /\ \A i \in DOMAIN sent : sent[i].end = "open" => sent[i].id # executing'
      BY <1>1, <1>2, <1>16, ReservedIsSound
    <2>2. CASE SaveCommits /\ pc' = "intent"
      <3>1. disk'.attempts = attempts'
        BY <2>2 DEF SaveCommits, Snapshot
      <3> QED BY <1>1, <1>2, <1>16, <2>1, <2>2, <3>1
              DEF ReplayInv, ToVerify, UnderWay, Intended
    <2>3. CASE SaveFails /\ pc' = AfterError
      BY <1>5, <1>16, <2>1, <2>3 DEF AfterError
    <2> QED BY <1>16, <2>2, <2>3 DEF Reserve, SaveThen
  <1>17. ASSUME NEW p \in plans, Execute(p) PROVE ReplayInv'
    <2>1. p.decision \in Decision
      BY <1>1, TypeParts DEF Plan
    <2> QED BY <1>16, <1>17, <2>1 DEF Execute, Gate
  <1>18. ASSUME NEW p \in plans, NEW targets \in SUBSET operations[p.download].episodes,
                Search(p, targets)
         PROVE ReplayInv'
    <2>1. p.download \in Downloads
      BY <1>1, TypeParts DEF Plan
    <2>2. SearchReady(p.download, SearchDecision(p.download, targets))
      BY <1>18 DEF Search
    <2>3. SearchDecision(p.download, targets) \in Decision
      BY <1>1, <2>1, <2>2, SearchDecisionType DEF SearchReady
    <2> QED BY <1>16, <1>18, <2>2, <2>3 DEF Search, SearchReady, Gate
  <1>19. CASE Transmit
    <2>1. Sound(attempts, sent') /\ OpenKeyed(sent') /\ pc = "intent" /\ pc' = "sent"
      BY <1>19, TransmittedIsSound DEF Transmit
    <2>2. disk' = disk /\ attempts' = attempts /\ executing' = executing
      BY <1>19 DEF Transmit, dataVars, cycleVars
    <2>3. disk.attempts = attempts
      BY <1>2, <2>1 DEF Intended
    <2> QED BY <1>1, <1>2, <2>1, <2>2, <2>3 DEF ReplayInv, ToVerify, UnderWay, Intended
  <1>20. ASSUME NEW ack \in BOOLEAN, Respond(ack) PROVE ReplayInv'
    BY <1>5, <1>20, RespondedIsSound DEF Respond, SaveThen, AfterError
  <1>21. CASE EndCycle
    BY <1>2, <1>5, <1>21, PrunedIsSound DEF EndCycle, SaveThen, AfterError
  <1>22. ASSUME NEW r \in Requests, Accept(r) PROVE ReplayInv'
    BY <1>2, <1>5, <1>22 DEF Accept
  <1>23. CASE FinishTrigger
    BY <1>2, <1>5, <1>23 DEF FinishTrigger
  <1>24. ASSUME NEW c \in Configs, Open(c) PROVE ReplayInv'
    BY <1>1, <1>2, <1>5, <1>24, RecoveredIsSound DEF Open
  <1>25. CASE Stop
    BY <1>4, <1>25 DEF Stop, dataVars
  <1>26. CASE Exit
    BY <1>2, <1>5, <1>26 DEF Exit, dataVars
  <1>27. CASE Crash
    BY <1>2, <1>3, <1>27 DEF Crash, Forget
  <1>28. CASE Tick
    <2>1. UNCHANGED <<attempts, disk, sent, pc, todo, executing>>
      BY <1>28 DEF Tick, dataVars, cycleVars
    <2> QED BY <1>1, <1>2, <2>1, QuietStep DEF ReplayInv, ToVerify, UnderWay, Intended
  <1>29. CASE UNCHANGED vars
    <2>1. UNCHANGED <<attempts, disk, sent, pc, todo, executing>>
      BY <1>29 DEF vars, dataVars, cycleVars
    <2> QED BY <1>1, <1>2, <2>1, QuietStep DEF ReplayInv, ToVerify, UnderWay, Intended
  <1> QED BY <1>6, <1>7, <1>8, <1>9, <1>10, <1>11, <1>12, <1>13, <1>14, <1>15, <1>17,
             <1>18, <1>19, <1>20, <1>21, <1>22, <1>23, <1>24, <1>25, <1>26, <1>27, <1>28,
             <1>29 DEF Next, Observe

LEMMA ReplayInvariant == Spec => []ReplayInv
  BY ReplayInit, ReplayStep, PTL DEF Spec

\* Pending attempts of one store do not conflict, so neither do the open
\* transmissions it records.
LEMMA NoReplayFromInv == ReplayInv => NoReplay
  <1> SUFFICES ASSUME ReplayInv, NEW i \in DOMAIN sent, NEW j \in DOMAIN sent, i < j,
                      sent[i].end = "open", sent[j].end = "open"
               PROVE  ~Conflicting(sent[i], sent[j])
    BY DEF NoReplay
  <1>1. i # j
    BY TypeParts, LenProperties DEF ReplayInv
  <1>2. PICK a \in attempts : SameAttempt(sent[i], a) /\ Pending(a)
    BY DEF ReplayInv, Sound, Records
  <1>3. PICK b \in attempts : SameAttempt(sent[j], b) /\ Pending(b)
    BY DEF ReplayInv, Sound, Records
  <1>4. a # b
    BY <1>1, <1>2, <1>3 DEF ReplayInv, OpenKeyed, SameAttempt
  <1>5. ~Conflict(a, b.download, b.decision)
    BY <1>2, <1>3, <1>4 DEF ReplayInv, Sound, Apart
  <1> QED BY <1>2, <1>3, <1>5 DEF Conflict, Conflicting, SameAttempt

\* No mutation is sent while one of unknown outcome concerns its download or
\* one of its episodes, for any candidates, limits, requests and failures.
THEOREM NeverReplayed == Spec => []NoReplay
  BY NoReplayFromInv, ReplayInvariant, PTL

\* Every mutation of unknown outcome is recorded as pending, in memory and in
\* the last committed transaction, at every point a crash can come.
THEOREM AlwaysRecorded == Spec => []WriteAhead
  <1>1. ReplayInv => WriteAhead
    BY DEF ReplayInv, WriteAhead, Sound, Records
  <1> QED BY <1>1, ReplayInvariant, PTL

----------------------------------------------------------------------------
(* Dry-run.  What a cycle may send is decided when it plans; the settings   *)
(* and the request that allow it last until nothing is planned any more.    *)

Allowed ==
  pc \in {"intent", "sent"} \/ (pc \in {"plan", "exec"} /\ plans # {}) => MayMutate
Unplanned == pc \in {"down", "idle", "scan", "verify"} => plans = {}

SilentInv == TypeOK /\ Allowed /\ Unplanned /\ DryRunSilent

LEMMA SilentInit == Init => SilentInv
  BY TypeInit DEF Init, SilentInv, Allowed, Unplanned, DryRunSilent

\* The end of an outcome does not change under what it was sent.
LEMMA SettleStaysSilent ==
  ASSUME sent \in Seq(Transmission), DryRunSilent, NEW a,
         NEW outcome \in {"verified", "submitted", "failed"}, Settle(a, outcome)
  PROVE  DryRunSilent'
  <1>1. DOMAIN sent = 1..Len(sent) /\ DOMAIN sent' = 1..Len(sent)
    <2>1. DOMAIN sent = 1..Len(sent)
      BY LenProperties
    <2>2. DOMAIN sent' = 1..Len(sent)
      BY Zenon DEF Settle
    <2> QED BY <2>1, <2>2
  <1>2. ASSUME NEW k \in 1..Len(sent), sent[k].id = a.id, sent[k].started = a.started
        PROVE  sent'[k].dryRun = sent[k].dryRun /\ sent'[k].request = sent[k].request
    <2>1. sent'[k] = [sent[k] EXCEPT !.end = outcome, !.ended = scanTime]
      BY <1>2 DEF Settle
    <2>2. sent[k] \in Transmission
      OBVIOUS
    <2> QED BY <2>1, <2>2 DEF Transmission
  <1>3. ASSUME NEW k \in 1..Len(sent), ~(sent[k].id = a.id /\ sent[k].started = a.started)
        PROVE  sent'[k] = sent[k]
    BY <1>3 DEF Settle
  <1> QED BY <1>1, <1>2, <1>3 DEF DryRunSilent

LEMMA SilentStep == SilentInv /\ [Next]_vars => SilentInv'
  <1> SUFFICES ASSUME SilentInv, [Next]_vars PROVE Allowed' /\ Unplanned' /\ DryRunSilent'
    BY TypeStep DEF SilentInv
  <1>1. sent \in Seq(Transmission) /\ Allowed /\ Unplanned /\ DryRunSilent
    BY TypeParts DEF SilentInv
  <1>2. ASSUME UNCHANGED sent, Allowed', Unplanned'
        PROVE  Allowed' /\ Unplanned' /\ DryRunSilent'
    BY <1>1, <1>2 DEF DryRunSilent
  <1>3. ASSUME UNCHANGED <<plans, cfg, request>>,
               \/ UNCHANGED pc
               \/ pc' \in {"exit", "receipt"}
               \/ pc \in {"idle", "scan"} /\ pc' \in {"idle", "verify", "plan"}
               \/ pc = "verify" /\ pc' = "plan"
               \/ pc = "plan" /\ pc' = "exec"
               \/ pc \in {"intent", "sent"} /\ pc' \in {"sent", "exec"}
        PROVE  Allowed' /\ Unplanned'
    BY <1>1, <1>3 DEF Allowed, Unplanned, MayMutate
  <1>4. ASSUME plans' = {}, pc' \notin {"intent", "sent"}
        PROVE  Allowed' /\ Unplanned'
    BY <1>4 DEF Allowed, Unplanned
  <1>5. ASSUME UNCHANGED <<plans, cfg, request, sent>>,
               \/ UNCHANGED pc
               \/ pc' \in {"exit", "receipt"}
               \/ pc \in {"idle", "scan"} /\ pc' \in {"idle", "verify", "plan"}
               \/ pc = "plan" /\ pc' = "exec"
               \/ pc \in {"intent", "sent"} /\ pc' \in {"sent", "exec"}
        PROVE  Allowed' /\ Unplanned' /\ DryRunSilent'
    BY <1>2, <1>3, <1>5
  <1>12. ASSUME NEW q, Scan(q) PROVE Allowed' /\ Unplanned' /\ DryRunSilent'
    BY <1>5, <1>12 DEF Scan
  <1>13. CASE ScanFails
    BY <1>5, <1>13 DEF ScanFails, SaveThen, AfterError, cycleVars
  <1>14. CASE PlanDone \/ Stop \/ Tick \/ UNCHANGED vars
    BY <1>5, <1>14 DEF PlanDone, Stop, Tick, vars, cycleVars
  <1>15. ASSUME NEW d, EndContinuation(d) \/ SearchUnreadable(d) \/ \E v : Recommend(d, v)
         PROVE  Allowed' /\ Unplanned' /\ DryRunSilent'
    BY <1>5, <1>15 DEF EndContinuation, SearchUnreadable, Recommend, cycleVars
  <1>16. ASSUME NEW ack, Respond(ack) PROVE Allowed' /\ Unplanned' /\ DryRunSilent'
    BY <1>5, <1>16 DEF Respond, SaveThen, AfterError
  <1>6. ASSUME CycleRefused \/ EndCycle \/ FinishTrigger \/ Exit \/ Crash
        PROVE  Allowed' /\ Unplanned' /\ DryRunSilent'
    <2>1. UNCHANGED sent /\ plans' = {} /\ pc' \in {"idle", "receipt", "exit", "down"}
      BY <1>6 DEF CycleRefused, EndCycle, FinishTrigger, Exit, Crash, CycleReset, SaveThen, AfterError
    <2> QED BY <1>2, <1>4, <2>1
  <1>7. ASSUME (\E c \in Configs : Open(c)) \/ \E r \in Requests : Accept(r)
        PROVE  Allowed' /\ Unplanned' /\ DryRunSilent'
    <2>1. UNCHANGED <<sent, plans>> /\ pc \in {"down", "idle"} /\ pc' \in {"idle", "scan"}
      BY <1>7 DEF Open, Accept, cycleVars
    <2> QED BY <1>1, <1>2, <1>4, <2>1 DEF Unplanned
  <1>8. CASE Verify
    <2>1. /\ UNCHANGED <<plans, cfg, request>> /\ pc = "verify" /\ pc' \in {"plan", "verify"}
          /\ \/ UNCHANGED sent
             \/ \E a : \E outcome \in {"verified", "submitted", "failed"} : Settle(a, outcome)
      BY <1>8 DEF Verify, Verified
    <2> QED BY <1>1, <1>2, <1>3, <2>1, SettleStaysSilent
  <1>9. ASSUME \/ \E d \in Downloads : \E v \in Verdicts[d] : Select(d, v)
               \/ \E d \in Downloads : \E targets : SelectSearch(d, targets)
        PROVE  Allowed' /\ Unplanned' /\ DryRunSilent'
    <2>1. UNCHANGED <<sent, cfg, request, pc>> /\ pc = "plan" /\ MayMutate
      BY <1>9 DEF Select, SelectSearch
    <2> QED BY <1>2, <2>1 DEF Allowed, Unplanned, MayMutate
  <1>10. ASSUME NEW p \in plans, Skip(p) \/ Execute(p) \/ \E targets : Search(p, targets)
         PROVE  Allowed' /\ Unplanned' /\ DryRunSilent'
    <2>1. /\ UNCHANGED <<sent, cfg, request>>
          /\ pc = "exec" /\ pc' \in {"exec", "intent", "exit", "receipt"}
      BY <1>10 DEF Skip, Execute, Search, Reserve, SaveThen, AfterError
    <2> QED BY <1>1, <1>2, <2>1 DEF Allowed, Unplanned, MayMutate
  <1>11. CASE Transmit
    <2>1. /\ pc = "intent" /\ pc' = "sent" /\ UNCHANGED <<plans, cfg, request>>
          /\ \E a : sent' = Append(sent,
               [id |-> a.id, download |-> a.download, decision |-> a.decision,
                started |-> a.started, request |-> request, dryRun |-> cfg.dryRun,
                override |-> Override, end |-> "open", ended |-> 0])
      BY <1>11 DEF Transmit, cycleVars
    <2>2. MayMutate
      BY <1>1, <2>1 DEF Allowed
    <2>3. DryRunSilent'
      BY <1>1, <2>1, <2>2 DEF DryRunSilent, MayMutate
    <2> QED BY <1>3, <2>1, <2>3
  <1> QED BY <1>6, <1>7, <1>8, <1>9, <1>10, <1>11, <1>12, <1>13, <1>14, <1>15, <1>16
          DEF Next, Observe

\* No restart into dry-run, no continuation and no plan of an earlier cycle
\* makes a background cycle send anything in that mode (Cycle, execute).
THEOREM DryRunNeverSends == Spec => []DryRunSilent
  <1>1. SilentInv => DryRunSilent
    BY DEF SilentInv
  <1> QED BY <1>1, SilentInit, SilentStep, PTL DEF Spec

----------------------------------------------------------------------------
(* What the steps make of the recorded attempts: those with a final outcome *)
(* stay what they were, and all keep their key and their request.           *)

Final == {"verified", "submitted", "failed"}

Follows(b, a) ==
  /\ SameAttempt(a, b) /\ b.request = a.request /\ b.dryRun = a.dryRun
  /\ a.outcome \notin Unresolved => b = a
  /\ Pending(b) => Pending(a)

\* B are the attempts of A, with the pending ones relabelled.
Relabels(B, A) ==
  /\ \A b \in B : \E a \in A : Follows(b, a)
  /\ \A a \in A : \E b \in B : Follows(b, a)

\* Besides, the pending ones stay pending.
Lasts(B, A) == \A a \in A : Pending(a) => \E b \in B : SameAttempt(a, b) /\ Pending(b)

LEMMA SameRelabels ==
  ASSUME NEW A
  PROVE  Relabels(A, A) /\ Lasts(A, A)
  BY DEF Relabels, Follows, Lasts, SameAttempt

\* One pending attempt is relabelled.
LEMMA OneRelabelled ==
  ASSUME NEW A, NEW a \in A, NEW b, Pending(a), SameAttempt(a, b), b.request = a.request,
         b.dryRun = a.dryRun
  PROVE  /\ Relabels((A \ {a}) \cup {b}, A)
         /\ Pending(b) => Lasts((A \ {a}) \cup {b}, A)
  <1>1. Follows(b, a)
    BY DEF Follows, Pending
  <1>2. \A c \in A : Follows(c, c)
    BY DEF Follows, SameAttempt
  <1> QED BY <1>1, <1>2 DEF Relabels, Lasts, Follows

\* verify.
LEMMA VerifiedRelabels ==
  ASSUME PartsOK, NEW a \in attempts, Pending(a), NEW command, NEW reading,
         Verified(a, command, reading)
  PROVE  /\ Relabels(attempts', attempts)
         /\ OutcomeAfter(a, command, reading) \notin Final => Lasts(attempts', attempts)
  <1> DEFINE f == IF OutcomeAfter(a, command, reading) \in {"verified", "submitted", "failed"}
                  THEN scanTime ELSE a.finished
             b == [a EXCEPT !.outcome = OutcomeAfter(a, command, reading),
                            !.evidence = Evidence(a, command, reading), !.finished = f]
  <1>1. a \in Attempt
    BY DEF PartsOK
  <1>2. attempts' = (attempts \ {a}) \cup {b}
    BY DEF Verified
  <1>3. SameAttempt(a, b) /\ b.request = a.request /\ b.dryRun = a.dryRun
    BY <1>1 DEF Attempt, SameAttempt
  <1>4. OutcomeAfter(a, command, reading) \notin Final => Pending(b)
    BY <1>1, NotEndedIsUnresolved DEF Attempt, Final, Pending
  <1> HIDE DEF b
  <1> QED BY <1>2, <1>3, <1>4, OneRelabelled

\* expirePending.
LEMMA ExpiredRelabels ==
  ASSUME PartsOK, ScanFails
  PROVE  Relabels(attempts', attempts) /\ Lasts(attempts', attempts)
  <1> DEFINE expired == {a \in attempts : /\ Pending(a) /\ a.outcome # "partial"
                                          /\ Overdue(a, now)}
             After(a) == IF a \in expired THEN [a EXCEPT !.outcome = "uncertain"] ELSE a
  <1>1. attempts' = {After(a) : a \in attempts}
    BY DEF ScanFails
  <1>2. ASSUME NEW a \in attempts PROVE Follows(After(a), a) /\ (Pending(a) => Pending(After(a)))
    <2>1. CASE a \in expired
      <3>1. a \in Attempt /\ Pending(a) /\ After(a) = [a EXCEPT !.outcome = "uncertain"]
        BY <2>1 DEF PartsOK
      <3>2. /\ [a EXCEPT !.outcome = "uncertain"].request = a.request
            /\ [a EXCEPT !.outcome = "uncertain"].dryRun = a.dryRun
        BY <3>1 DEF Attempt
      <3> QED BY <3>1, <3>2, UncertainSame DEF Follows, Pending
    <2>2. CASE a \notin expired
      <3>1. After(a) = a
        BY <2>2
      <3> QED BY <3>1 DEF Follows, SameAttempt
    <2> QED BY <2>1, <2>2
  <1> HIDE DEF After
  <1> QED BY <1>1, <1>2 DEF Relabels, Lasts, Follows

\* The answer to a mutation.
LEMMA RespondedRelabels ==
  ASSUME ReplayInv, NEW ack \in BOOLEAN, Respond(ack)
  PROVE  Relabels(attempts', attempts) /\ Lasts(attempts', attempts)
  <1>1. PICK a \in attempts :
          /\ a.id = executing
          /\ attempts' = (attempts \ {a}) \cup
               {[a EXCEPT !.ack = ack, !.outcome = IF ack THEN "pending" ELSE "uncertain"]}
    BY DEF Respond
  <1> DEFINE b == [a EXCEPT !.ack = ack, !.outcome = IF ack THEN "pending" ELSE "uncertain"]
  <1>2. pc \in {"intent", "sent"} /\ Keyed(attempts) /\ a \in Attempt
    BY TypeParts DEF Respond, ReplayInv, Sound, PartsOK
  <1>3. Pending(a)
    BY <1>1, <1>2 DEF ReplayInv, UnderWay, Keyed
  <1>4. SameAttempt(a, b) /\ b.request = a.request /\ b.dryRun = a.dryRun
    BY <1>2 DEF Attempt, SameAttempt
  <1>5. attempts' = (attempts \ {a}) \cup {b}
    BY <1>1
  <1>6. Pending(b)
    BY <1>2, <1>3 DEF Attempt, Pending, Unresolved
  <1> HIDE DEF b
  <1> QED BY <1>3, <1>4, <1>5, <1>6, OneRelabelled

\* The answer to a restart: an intent becomes uncertain.
LEMMA RecoveredRelabels ==
  ASSUME disk \in Data, Recover
  PROVE  Relabels(attempts', disk.attempts) /\ Lasts(attempts', disk.attempts)
  <1>1. ASSUME NEW a \in disk.attempts
        PROVE  Follows(Interrupted(a), a) /\ (Pending(a) => Pending(Interrupted(a)))
    <2>1. a \in Attempt
      BY DEF Data
    <2>2. Interrupted(a).request = a.request /\ Interrupted(a).dryRun = a.dryRun
      BY <2>1 DEF Interrupted, Attempt
    <2>3. a.outcome \notin Unresolved => Interrupted(a) = a
      BY DEF Interrupted, Unresolved
    <2>4. SameAttempt(a, Interrupted(a)) /\ (Pending(Interrupted(a)) <=> Pending(a))
      BY <2>1, InterruptedSame
    <2> QED BY <2>2, <2>3, <2>4 DEF Follows
  <1>2. attempts' = {Interrupted(a) : a \in disk.attempts}
    BY DEF Recover, Recovered
  <1>3. Relabels(attempts', disk.attempts)
    BY <1>1, <1>2 DEF Relabels
  <1>4. Lasts(attempts', disk.attempts)
    BY <1>1, <1>2 DEF Lasts, Follows
  <1> QED BY <1>3, <1>4

----------------------------------------------------------------------------
(* Outcomes are final.  Memory agrees with every final outcome on disk, and *)
(* what it has dropped is older than whatever it may still record under the *)
(* same ID.                                                                 *)

SameKey(a, b) == a.id = b.id /\ a.started = b.started
Agreed(D, A) ==
  \A a \in D : \A b \in A : SameKey(a, b) /\ a.outcome \in Final => b.outcome = a.outcome
Dropped(a, A) == \A b \in A : ~SameKey(a, b)
Older(a) == a.started < now /\ (pc \in {"verify", "plan"} => a.started < scanTime)

FinalInv ==
  /\ ReplayInv /\ scanTime <= now
  /\ Agreed(disk.attempts, attempts)
  /\ \A a \in disk.attempts : Dropped(a, attempts) => Older(a)

LEMMA FinalInit == Init => FinalInv
  <1> SUFFICES ASSUME Init PROVE FinalInv
    OBVIOUS
  <1>1. disk.attempts = {} /\ now = 1 /\ scanTime = 0
    BY DEF Init, StoreInit, Snapshot
  <1> QED BY <1>1, ReplayInit DEF FinalInv, Agreed

\* Relabelled attempts agree with what the former ones agreed with, and none
\* is dropped.
LEMMA RelabelledAgree ==
  ASSUME NEW A, NEW B, NEW D, Relabels(B, A)
  PROVE  /\ Agreed(D, A) => Agreed(D, B)
         /\ \A a \in D : Dropped(a, B) => Dropped(a, A)
  <1>1. ASSUME Agreed(D, A), NEW a \in D, NEW b \in B, SameKey(a, b), a.outcome \in Final
        PROVE  b.outcome = a.outcome
    <2>1. PICK c \in A : Follows(b, c)
      BY DEF Relabels
    <2>2. SameKey(a, c) /\ c.outcome = a.outcome
      BY <1>1, <2>1 DEF Follows, SameAttempt, SameKey, Agreed
    <2> QED BY <1>1, <2>1, <2>2 DEF Follows, Final, Unresolved
  <1>2. ASSUME NEW a \in D, Dropped(a, B), NEW c \in A
        PROVE  ~SameKey(a, c)
    BY <1>2 DEF Relabels, Dropped, Follows, SameAttempt, SameKey
  <1> QED BY <1>1, <1>2 DEF Agreed, Dropped

LEMMA KeyedAgree ==
  ASSUME NEW A, Keyed(A)
  PROVE  Agreed(A, A) /\ \A a \in A : ~Dropped(a, A)
  BY DEF Keyed, Agreed, Dropped, SameKey

\* An attempt with an ID that is free, started when everything dropped is older.
LEMMA AddedAgrees ==
  ASSUME FinalInv, NEW b, attempts' = attempts \cup {b},
         \A a \in attempts : a.id # b.id,
         b.started = now \/ (pc = "plan" /\ b.started = scanTime)
  PROVE  /\ Agreed(disk.attempts, attempts')
         /\ \A a \in disk.attempts : Dropped(a, attempts') => Dropped(a, attempts)
  <1>1. ASSUME NEW a \in disk.attempts, SameKey(a, b) PROVE FALSE
    <2>1. Dropped(a, attempts)
      BY <1>1 DEF Dropped, SameKey
    <2>2. Older(a)
      BY <2>1 DEF FinalInv
    <2>3. a.started \in Nat /\ now \in Nat /\ scanTime \in Nat
      BY TypeParts DEF FinalInv, ReplayInv, Data, Attempt
    <2> QED BY <1>1, <2>2, <2>3 DEF Older, SameKey
  <1> QED BY <1>1 DEF FinalInv, Agreed, Dropped

\* Prune drops what is older than the scan it follows.
LEMMA PrunedAgree ==
  ASSUME FinalInv, Prune(scanTime)
  PROVE  /\ Agreed(disk.attempts, attempts')
         /\ \A a \in disk.attempts : Dropped(a, attempts') => a.started < now
  <1>1. attempts' \subseteq attempts
    BY DEF Prune
  <1>2. ASSUME NEW a \in disk.attempts, Dropped(a, attempts')
        PROVE  a.started < now
    <2>1. CASE Dropped(a, attempts)
      BY <2>1 DEF FinalInv, Older
    <2>2. CASE ~Dropped(a, attempts)
      <3>1. PICK c \in attempts : SameKey(a, c)
        BY <2>2 DEF Dropped
      <3>2. ~RetainAttempt(c, scanTime)
        BY <1>2, <3>1 DEF Prune, Dropped
      <3>3. ~(c.started + Hour > scanTime)
        BY <3>2 DEF RetainAttempt
      <3>4. /\ c.started \in Nat /\ now \in Nat /\ scanTime \in Nat /\ scanTime <= now
            /\ Hour \in Nat \ {0}
        BY TypeParts, StoreAssumption DEF FinalInv, ReplayInv, PartsOK, Attempt
      <3> QED BY <3>1, <3>3, <3>4 DEF SameKey
    <2> QED BY <2>1, <2>2
  <1> QED BY <1>1, <1>2 DEF FinalInv, Agreed

\* Every step keeps what memory agrees on with the store, whatever it saves.
LEMMA FinalStep ==
  ASSUME FinalInv, [Next]_vars
  PROVE  /\ Agreed(disk.attempts, attempts') /\ FinalInv'
         /\ disk' = disk \/ disk'.attempts = attempts'
  <1> DEFINE Goal == /\ Agreed(disk.attempts, attempts') /\ FinalInv'
                     /\ disk' = disk \/ disk'.attempts = attempts'
  <1>1. /\ ReplayInv /\ ReplayInv' /\ TypeOK /\ PartsOK /\ disk \in Data
        /\ now \in Nat /\ scanTime \in Nat /\ scanTime <= now
        /\ Keyed(attempts) /\ Keyed(disk.attempts) /\ Keyed(attempts')
        /\ Agreed(disk.attempts, attempts)
    BY ReplayStep, TypeParts DEF FinalInv, ReplayInv, Sound
  \* What is left to show of a step that changes attempts and may save.
  <1>2. ASSUME Agreed(disk.attempts, attempts'), scanTime' <= now',
               UNCHANGED disk \/ SaveCommits \/ SaveFails,
               \A a \in disk.attempts : Dropped(a, attempts') => Older(a)'
        PROVE  Goal
    <2>1. CASE disk' = disk
      BY <1>1, <1>2, <2>1 DEF FinalInv
    <2>2. CASE disk'.attempts = attempts'
      BY <1>1, <1>2, <2>2, KeyedAgree DEF FinalInv
    <2> QED BY <1>2, <2>1, <2>2 DEF SaveCommits, SaveFails, Snapshot
  <1>3. ASSUME Relabels(attempts', attempts), UNCHANGED <<now, scanTime>>,
               UNCHANGED disk \/ SaveCommits \/ SaveFails,
               pc' \in {"verify", "plan"} => pc \in {"verify", "plan"}
        PROVE  Goal
    <2>1. /\ Agreed(disk.attempts, attempts')
          /\ \A a \in disk.attempts : Dropped(a, attempts') => Dropped(a, attempts)
      BY <1>1, <1>3, RelabelledAgree
    <2>2. \A a \in disk.attempts : Dropped(a, attempts') => Older(a)'
      BY <1>3, <2>1 DEF FinalInv, Older
    <2> QED BY <1>1, <1>2, <1>3, <2>1, <2>2
  <1>4. ASSUME UNCHANGED <<attempts, now, scanTime>>,
               UNCHANGED disk \/ SaveCommits \/ SaveFails,
               pc' \in {"verify", "plan"} => pc \in {"verify", "plan"}
        PROVE  Goal
    BY <1>3, <1>4, SameRelabels
  <1>5. ASSUME UNCHANGED <<attempts, now>>, scanTime' = 0 \/ UNCHANGED scanTime,
               UNCHANGED disk \/ SaveCommits \/ SaveFails,
               pc' \notin {"verify", "plan"}
        PROVE  Goal
    BY <1>1, <1>2, <1>5 DEF FinalInv, Older
  <1>6. ASSUME NEW q, Scan(q) PROVE Goal
    <2>1. \A a \in disk.attempts : Dropped(a, attempts') => Older(a)'
      BY <1>6 DEF Scan, FinalInv, Older
    <2> QED BY <1>1, <1>2, <1>6, <2>1 DEF Scan
  <1>7. CASE ScanFails
    <2>1. UNCHANGED <<now, scanTime>> /\ (SaveCommits \/ SaveFails) /\ pc' \notin {"verify", "plan"}
      BY <1>7 DEF ScanFails, SaveThen, AfterError, cycleVars
    <2> QED BY <1>1, <1>3, <1>7, <2>1, ExpiredRelabels
  <1>8. CASE Verify
    <2>1. PICK a \in attempts :
            a.id \in todo /\ \E answer \in Answers(a) : Verified(a, answer[1], answer[2])
      BY <1>8 DEF Verify
    <2>2. pc = "verify" /\ UNCHANGED <<now, scanTime, disk>>
      BY <1>8 DEF Verify
    <2>3. Pending(a)
      BY <1>1, <2>1, <2>2 DEF ReplayInv, ToVerify
    <2> QED BY <1>1, <1>3, <2>1, <2>2, <2>3, VerifiedRelabels
  <1>9. ASSUME NEW b, attempts' = attempts \cup {b}, \A a \in attempts : a.id # b.id,
               b.started = now \/ (pc = "plan" /\ b.started = scanTime),
               UNCHANGED <<now, scanTime>>, UNCHANGED disk \/ SaveCommits \/ SaveFails,
               pc' \in {"verify", "plan"} => pc \in {"verify", "plan"}
        PROVE  Goal
    <2>1. /\ Agreed(disk.attempts, attempts')
          /\ \A a \in disk.attempts : Dropped(a, attempts') => Dropped(a, attempts)
      BY <1>9, AddedAgrees
    <2>2. \A a \in disk.attempts : Dropped(a, attempts') => Older(a)'
      BY <1>9, <2>1 DEF FinalInv, Older
    <2> QED BY <1>1, <1>2, <1>9, <2>1, <2>2
  <1>10. ASSUME NEW i \in 1..MaxID, IsNextID(i) PROVE \A a \in attempts : a.id # i
    BY <1>1, <1>10, RemediatorAssumption DEF IsNextID, PartsOK, Attempt
  <1>11. ASSUME NEW d, NEW v, Recommend(d, v) PROVE Goal
    <2>1. PICK i \in 1..MaxID : IsNextID(i) /\ attempts' = attempts \cup
            {[NewAttempt(i, d, v, scanTime) EXCEPT !.dryRun = TRUE, !.finished = scanTime,
                                                   !.outcome = "recommended"]}
      BY <1>11 DEF Recommend
    <2> DEFINE b == [NewAttempt(i, d, v, scanTime) EXCEPT
                       !.dryRun = TRUE, !.finished = scanTime, !.outcome = "recommended"]
    <2>2. b.id = i /\ b.started = scanTime
      BY DEF NewAttempt
    <2>3. attempts' = attempts \cup {b}
      BY <2>1
    <2> HIDE DEF b
    <2>4. pc = "plan" /\ UNCHANGED <<now, scanTime, disk, pc>>
      BY <1>11 DEF Recommend, cycleVars
    <2> QED BY <1>9, <1>10, <2>1, <2>2, <2>3, <2>4
  <1>12. ASSUME NEW p, NEW v, Reserve(p, v), UNCHANGED <<now, scanTime>> PROVE Goal
    <2>1. PICK i \in 1..MaxID :
            IsNextID(i) /\ attempts' = attempts \cup {NewAttempt(i, p.download, v, now)}
      BY <1>12 DEF Reserve
    <2>2. NewAttempt(i, p.download, v, now).id = i /\ NewAttempt(i, p.download, v, now).started = now
      BY DEF NewAttempt
    <2>3. (SaveCommits \/ SaveFails) /\ pc' \notin {"verify", "plan"}
      BY <1>12 DEF Reserve, SaveThen, AfterError
    <2> QED BY <1>9, <1>10, <1>12, <2>1, <2>2, <2>3
  <1>13. ASSUME NEW p, Execute(p) PROVE Goal
    BY <1>12, <1>13 DEF Execute
  <1>14. ASSUME NEW p, NEW targets, Search(p, targets) PROVE Goal
    BY <1>12, <1>14 DEF Search
  <1>15. ASSUME NEW ack \in BOOLEAN, Respond(ack) PROVE Goal
    <2>1. UNCHANGED <<now, scanTime>> /\ (SaveCommits \/ SaveFails) /\ pc' \notin {"verify", "plan"}
      BY <1>15 DEF Respond, SaveThen, AfterError
    <2> QED BY <1>1, <1>3, <1>15, <2>1, RespondedRelabels
  <1>16. CASE EndCycle
    <2>1. /\ Prune(scanTime) /\ now' = now /\ scanTime' = 0
          /\ SaveCommits \/ SaveFails
          /\ pc' \notin {"verify", "plan"}
      BY <1>16 DEF EndCycle, CycleReset, SaveThen, AfterError
    <2>2. /\ Agreed(disk.attempts, attempts')
          /\ \A a \in disk.attempts : Dropped(a, attempts') => a.started < now
      BY <2>1, PrunedAgree
    <2>3. \A a \in disk.attempts : Dropped(a, attempts') => Older(a)'
      BY <2>1, <2>2 DEF Older
    <2> QED BY <1>1, <1>2, <2>1, <2>2, <2>3
  <1>17. CASE (\E c \in Configs : Open(c)) \/ Crash
    <2>1. Relabels(attempts', disk.attempts)
      BY <1>1, <1>17, RecoveredRelabels, SameRelabels DEF Open, Crash, Forget
    <2>2. /\ now' = now /\ (scanTime' = 0 \/ UNCHANGED scanTime)
          /\ UNCHANGED disk \/ SaveCommits
      BY <1>17 DEF Open, Crash, CycleReset, cycleVars
    <2>3. /\ Agreed(disk.attempts, attempts')
          /\ \A a \in disk.attempts : ~Dropped(a, attempts')
      BY <1>1, <2>1, RelabelledAgree, KeyedAgree
    <2> QED BY <1>1, <1>2, <2>2, <2>3
  <1>18. ASSUME NEW d, \/ EndContinuation(d) \/ SearchUnreadable(d)
                       \/ \E v : Select(d, v)
                       \/ \E targets : SelectSearch(d, targets)
         PROVE  Goal
    BY <1>4, <1>18 DEF EndContinuation, SearchUnreadable, Select, SelectSearch, dataVars, cycleVars
  <1>19. CASE (\E p \in plans : Skip(p)) \/ PlanDone \/ CycleRefused \/ Transmit
    BY <1>4, <1>19 DEF Skip, PlanDone, CycleRefused, AfterError, Transmit, dataVars, cycleVars
  <1>20. CASE (\E r \in Requests : Accept(r)) \/ FinishTrigger \/ Stop \/ Exit
    BY <1>5, <1>20 DEF Accept, FinishTrigger, Stop, Exit, CycleReset, dataVars, cycleVars
  <1>21. CASE Tick
    <2>1. UNCHANGED <<attempts, disk, pc, scanTime>> /\ now' = now + 1
      BY <1>21 DEF Tick, dataVars, cycleVars
    <2>2. \A a \in disk.attempts : a.started \in Nat
      BY <1>1 DEF Data, Attempt
    <2>3. \A a \in disk.attempts : Older(a) => Older(a)'
      BY <1>1, <2>1, <2>2 DEF Older
    <2> QED BY <1>1, <1>2, <2>1, <2>3 DEF FinalInv
  <1>22. CASE UNCHANGED vars
    BY <1>4, <1>22 DEF vars, dataVars, cycleVars
  <1> QED BY <1>6, <1>7, <1>8, <1>11, <1>13, <1>14, <1>15, <1>16, <1>17, <1>18, <1>19, <1>20,
             <1>21, <1>22 DEF Next, Observe

\* A committed outcome that protects, counts or justifies something is never
\* taken back: not by a failed save, nor by a restart, nor by a new attempt
\* with an ID that a prune has freed (Save, Prune, nextID).
THEOREM OutcomesAreFinal == Spec => OutcomesFinal
  <1>1. FinalInv /\ [Next]_vars =>
          [\A a \in disk.attempts : a.outcome \in {"verified", "submitted", "failed"} =>
             \A b \in disk'.attempts :
                b.id = a.id /\ b.started = a.started => b.outcome = a.outcome]_vars
    <2> SUFFICES ASSUME FinalInv, [Next]_vars, NEW a \in disk.attempts,
                        a.outcome \in Final, NEW b \in disk'.attempts,
                        b.id = a.id, b.started = a.started
                 PROVE  b.outcome = a.outcome
      BY DEF Final
    <2>1. Agreed(disk.attempts, attempts') /\ (disk' = disk \/ disk'.attempts = attempts')
      BY FinalStep
    <2>2. CASE disk' = disk
      BY <2>2 DEF FinalInv, ReplayInv, Sound, Keyed
    <2>3. CASE disk'.attempts = attempts'
      BY <2>1, <2>3 DEF Agreed, SameKey
    <2> QED BY <2>1, <2>2, <2>3
  <1>2. FinalInv /\ [Next]_vars => FinalInv'
    BY FinalStep
  <1> QED BY <1>1, <1>2, FinalInit, PTL DEF Spec, OutcomesFinal

----------------------------------------------------------------------------
(* Receipts and the attempts of manual requests name each other, in memory  *)
(* and in the store, independently.                                         *)

Named(A, T) ==
  /\ \A r \in Requests : \A i \in T[r].attempts : \E a \in A : a.id = i /\ a.request = r
  /\ \A a \in A : a.request # Background =>
       T[a.request].status # "none" /\ a.id \in T[a.request].attempts

\* The receipt of the request of a cycle is accepted; without a process there
\* is no request.
Underlying ==
  /\ request # Background => triggers[request].status = "accepted"
  /\ pc = "down" => request = Background

ReceiptInv ==
  /\ ReplayInv /\ Underlying
  /\ Named(attempts, triggers) /\ Named(disk.attempts, disk.triggers)

LEMMA ReceiptInit == Init => ReceiptInv
  BY ReplayInit DEF Init, StoreInit, Snapshot, ReceiptInv, Underlying, Named, NoReceipt

\* Relabelled attempts are named by the same receipts, and receipts may change
\* their status.
LEMMA RelabelledNamed ==
  ASSUME NEW A, NEW B, NEW T, NEW U, Named(A, T), Relabels(B, A),
         \A r \in Requests : /\ U[r].attempts = T[r].attempts
                             /\ T[r].status # "none" => U[r].status # "none",
         \A a \in A : a.request \in Requests \cup {Background}
  PROVE  Named(B, U)
  <1>1. ASSUME NEW r \in Requests, NEW i \in U[r].attempts
        PROVE  \E b \in B : b.id = i /\ b.request = r
    <2>1. PICK a \in A : a.id = i /\ a.request = r
      BY DEF Named
    <2>2. PICK b \in B : Follows(b, a)
      BY DEF Relabels
    <2> QED BY <2>1, <2>2 DEF Follows, SameAttempt
  <1>2. ASSUME NEW b \in B, b.request # Background
        PROVE  U[b.request].status # "none" /\ b.id \in U[b.request].attempts
    <2>1. PICK a \in A : Follows(b, a)
      BY DEF Relabels
    <2>2. a.id = b.id /\ a.request = b.request /\ a.request \in Requests
      BY <1>2, <2>1 DEF Follows, SameAttempt
    <2> QED BY <1>2, <2>2 DEF Named
  <1> QED BY <1>1, <1>2 DEF Named

\* What Prune keeps of the receipts names what it keeps of the attempts.
LEMMA PrunedNamed ==
  ASSUME PartsOK, Keyed(attempts), Named(attempts, triggers), NEW t, Prune(t)
  PROVE  Named(attempts', triggers')
  <1> DEFINE kept == {r \in Requests : ReceiptKept(r, t)}
             referenced == UNION {triggers[r].attempts : r \in kept}
  <1>1. /\ triggers' = [r \in Requests |-> IF r \in kept THEN triggers[r] ELSE NoReceipt]
        /\ attempts' = {a \in attempts : a.id \in referenced \/ RetainAttempt(a, t)}
    BY DEF Prune
  <1>2. ASSUME NEW r \in Requests, NEW i \in triggers'[r].attempts
        PROVE  \E a \in attempts' : a.id = i /\ a.request = r
    <2>1. r \in kept /\ i \in triggers[r].attempts
      BY <1>1, <1>2 DEF NoReceipt
    <2>2. PICK a \in attempts : a.id = i /\ a.request = r
      BY <2>1 DEF Named
    <2> QED BY <1>1, <2>1, <2>2
  <1>3. ASSUME NEW a \in attempts', a.request # Background
        PROVE  triggers'[a.request].status # "none" /\ a.id \in triggers'[a.request].attempts
    <2>1. a \in attempts /\ a.request \in Requests
      BY <1>1, <1>3 DEF PartsOK, Attempt
    <2>2. triggers[a.request].status # "none" /\ a.id \in triggers[a.request].attempts
      BY <1>3, <2>1 DEF Named
    <2>3. a.request \in kept
      <3>1. CASE RetainAttempt(a, t)
        BY <2>1, <3>1 DEF ReceiptKept
      <3>2. CASE a.id \in referenced
        <4>1. PICK r \in kept : a.id \in triggers[r].attempts
          BY <3>2
        <4>2. PICK b \in attempts : b.id = a.id /\ b.request = r
          BY <4>1 DEF Named
        <4> QED BY <2>1, <4>1, <4>2 DEF Keyed
      <3> QED BY <1>1, <3>1, <3>2
    <2> QED BY <1>1, <2>1, <2>2, <2>3
  <1> QED BY <1>2, <1>3 DEF Named

\* reserve names the intent in the receipt of the request, in the same step.
LEMMA ReservedNamed ==
  ASSUME TypeOK, Underlying, Named(attempts, triggers), NEW p, NEW v, Reserve(p, v),
         UNCHANGED request
  PROVE  Named(attempts', triggers') /\ Underlying'
  <1>1. PICK i \in 1..MaxID :
          /\ attempts' = attempts \cup {NewAttempt(i, p.download, v, now)}
          /\ triggers' = IF request = Background THEN triggers
                         ELSE [triggers EXCEPT ![request].attempts = @ \cup {i}]
    BY DEF Reserve
  <1> DEFINE b == NewAttempt(i, p.download, v, now)
  <1>2. b.id = i /\ b.request = request
    BY DEF NewAttempt
  <1> HIDE DEF b
  <1>3. attempts' = attempts \cup {b}
    BY <1>1 DEF b
  <1>4. /\ PartsOK /\ request \in Requests \cup {Background}
        /\ triggers \in [Requests -> Receipt]
    BY TypeParts DEF PartsOK
  <1>5. \A a \in attempts : a.request \in Requests \cup {Background}
    BY <1>4 DEF PartsOK, Attempt
  <1>6. CASE request = Background
    <2>1. pc' # "down"
      BY DEF Reserve, SaveThen, AfterError
    <2> QED BY <1>1, <1>2, <1>3, <1>6, <2>1 DEF Named, Underlying
  <1>7. CASE request # Background
    <2>1. /\ request \in Requests /\ triggers[request].status = "accepted"
          /\ triggers' = [triggers EXCEPT ![request] =
               [triggers[request] EXCEPT !.attempts = triggers[request].attempts \cup {i}]]
      BY <1>1, <1>4, <1>7 DEF Underlying
    <2>2. \A r \in Requests :
            /\ triggers'[r].status = triggers[r].status
            /\ triggers'[r].attempts = IF r = request THEN triggers[r].attempts \cup {i}
                                       ELSE triggers[r].attempts
      BY <1>4, <2>1 DEF Receipt
    <2>3. ASSUME NEW r \in Requests, NEW k \in triggers'[r].attempts
          PROVE  \E a \in attempts' : a.id = k /\ a.request = r
      <3>1. CASE k \in triggers[r].attempts
        BY <1>3, <3>1 DEF Named
      <3>2. CASE k \notin triggers[r].attempts
        <4>1. k \in IF r = request THEN triggers[r].attempts \cup {i} ELSE triggers[r].attempts
          BY <2>2, <2>3
        <4>2. k = i /\ r = request
          BY <3>2, <4>1
        <4>3. b \in attempts' /\ b.id = k /\ b.request = r
          BY <1>2, <1>3, <4>2
        <4> QED BY <4>3
      <3> QED BY <3>1, <3>2
    <2>4. ASSUME NEW a \in attempts', a.request # Background
          PROVE  triggers'[a.request].status # "none" /\ a.id \in triggers'[a.request].attempts
      <3>1. CASE a \in attempts
        BY <1>5, <2>2, <2>4, <3>1 DEF Named
      <3>2. CASE a = b
        BY <1>2, <2>1, <2>2, <3>2
      <3> QED BY <1>3, <3>1, <3>2
    <2>5. Underlying'
      <3>1. pc' # "down"
        BY DEF Reserve, SaveThen, AfterError
      <3> QED BY <2>1, <2>2, <3>1 DEF Underlying
    <2> QED BY <2>3, <2>4, <2>5 DEF Named
  <1> QED BY <1>6, <1>7

LEMMA ReceiptStep ==
  ASSUME ReceiptInv, [Next]_vars
  PROVE  ReceiptInv'
  <1>1. /\ ReplayInv /\ ReplayInv' /\ TypeOK /\ PartsOK /\ disk \in Data
        /\ Keyed(attempts) /\ Underlying
        /\ request \in Requests \cup {Background}
        /\ Named(attempts, triggers) /\ Named(disk.attempts, disk.triggers)
        /\ \A a \in attempts : a.request \in Requests \cup {Background}
        /\ \A a \in disk.attempts : a.request \in Requests \cup {Background}
    BY ReplayStep, TypeParts DEF ReceiptInv, ReplayInv, Sound, PartsOK, Data, Attempt
  <1>2. ASSUME Named(attempts', triggers'), Underlying',
               UNCHANGED disk \/ SaveCommits \/ SaveFails
        PROVE  ReceiptInv'
    BY <1>1, <1>2 DEF ReceiptInv, SaveCommits, SaveFails, Snapshot
  <1>3. ASSUME Relabels(attempts', attempts), UNCHANGED triggers,
               request' \in {request, Background},
               pc' = "down" => pc = "down" \/ request' = Background,
               UNCHANGED disk \/ SaveCommits \/ SaveFails
        PROVE  ReceiptInv'
    <2>1. Named(attempts', triggers')
      BY <1>1, <1>3, RelabelledNamed
    <2> QED BY <1>1, <1>2, <1>3, <2>1 DEF Underlying
  <1>4. ASSUME UNCHANGED <<attempts, triggers>>, request' \in {request, Background},
               pc' = "down" => pc = "down" \/ request' = Background,
               UNCHANGED disk \/ SaveCommits \/ SaveFails
        PROVE  ReceiptInv'
    BY <1>3, <1>4, SameRelabels
  <1>5. CASE ScanFails
    <2>1. UNCHANGED <<triggers, request>> /\ (SaveCommits \/ SaveFails) /\ pc' # "down"
      BY <1>5 DEF ScanFails, SaveThen, AfterError, cycleVars
    <2> QED BY <1>1, <1>3, <1>5, <2>1, ExpiredRelabels
  <1>6. CASE Verify
    <2>1. PICK a \in attempts :
            a.id \in todo /\ \E answer \in Answers(a) : Verified(a, answer[1], answer[2])
      BY <1>6 DEF Verify
    <2>2. pc = "verify" /\ pc' # "down" /\ UNCHANGED <<triggers, request, disk>>
      BY <1>6 DEF Verify
    <2>3. Pending(a)
      BY <1>1, <2>1, <2>2 DEF ReplayInv, ToVerify
    <2> QED BY <1>1, <1>3, <2>1, <2>2, <2>3, VerifiedRelabels
  <1>7. ASSUME NEW d, NEW v, Recommend(d, v) PROVE ReceiptInv'
    <2>1. PICK i \in 1..MaxID : attempts' = attempts \cup
            {[NewAttempt(i, d, v, scanTime) EXCEPT !.dryRun = TRUE, !.finished = scanTime,
                                                   !.outcome = "recommended"]}
      BY <1>7 DEF Recommend
    <2> DEFINE b == [NewAttempt(i, d, v, scanTime) EXCEPT
                       !.dryRun = TRUE, !.finished = scanTime, !.outcome = "recommended"]
    <2>2. b.request = Background
      BY <1>7 DEF NewAttempt, Recommend, MayMutate
    <2>3. attempts' = attempts \cup {b}
      BY <2>1
    <2> HIDE DEF b
    <2>4. UNCHANGED <<triggers, request, disk, pc>>
      BY <1>7 DEF Recommend, cycleVars
    <2>5. Named(attempts', triggers')
      BY <1>1, <2>2, <2>3, <2>4 DEF Named
    <2> QED BY <1>1, <1>2, <2>4, <2>5 DEF Underlying
  <1>8. ASSUME NEW p, NEW v, Reserve(p, v), UNCHANGED request PROVE ReceiptInv'
    BY <1>1, <1>2, <1>8, ReservedNamed DEF Reserve, SaveThen
  <1>9. ASSUME NEW p, Execute(p) \/ \E targets : Search(p, targets) PROVE ReceiptInv'
    BY <1>8, <1>9 DEF Execute, Search
  <1>10. ASSUME NEW ack \in BOOLEAN, Respond(ack) PROVE ReceiptInv'
    <2>1. UNCHANGED <<triggers, request>> /\ (SaveCommits \/ SaveFails) /\ pc' # "down"
      BY <1>10 DEF Respond, SaveThen, AfterError
    <2> QED BY <1>1, <1>3, <1>10, <2>1, RespondedRelabels
  <1>11. CASE EndCycle
    <2>1. Prune(scanTime) /\ request' = request /\ (SaveCommits \/ SaveFails) /\ pc' # "down"
      BY <1>11 DEF EndCycle, SaveThen, AfterError
    <2>2. Named(attempts', triggers')
      BY <1>1, <2>1, PrunedNamed
    <2>3. Underlying'
      <3>1. CASE request # Background
        <4>1. triggers[request].status = "accepted"
          BY <1>1, <3>1 DEF Underlying
        <4> QED BY <1>1, <2>1, <3>1, <4>1 DEF Prune, ReceiptKept, Underlying
      <3> QED BY <2>1, <3>1 DEF Underlying
    <2> QED BY <1>2, <2>1, <2>2, <2>3
  <1>12. ASSUME NEW r \in Requests, Accept(r) PROVE ReceiptInv'
    <2>1. /\ triggers' = [triggers EXCEPT ![r] = [NoReceipt EXCEPT !.status = "accepted"]]
          /\ UNCHANGED attempts /\ request' = r /\ SaveCommits /\ pc' = "scan"
          /\ triggers[r].status = "none"
      BY <1>12 DEF Accept, Acceptable
    <2>2. \A s \in Requests :
            IF s = r THEN triggers'[s].status = "accepted" /\ triggers'[s].attempts = {}
            ELSE triggers'[s] = triggers[s]
      BY <1>1, <2>1 DEF PartsOK, NoReceipt
    <2>3. Named(attempts', triggers')
      BY <1>1, <2>1, <2>2 DEF Named
    <2> QED BY <1>2, <2>1, <2>2, <2>3 DEF Underlying
  <1>13. CASE FinishTrigger
    <2>1. /\ attempts' = attempts /\ request' = Background /\ (SaveCommits \/ SaveFails)
          /\ triggers' = [triggers EXCEPT ![request].status = "finished",
                                          ![request].finished = now]
      BY <1>13 DEF FinishTrigger
    <2>2. \A r \in Requests : /\ triggers'[r].attempts = triggers[r].attempts
                              /\ triggers[r].status # "none" => triggers'[r].status # "none"
      BY <1>1, <2>1 DEF PartsOK, Receipt
    <2>3. Relabels(attempts', attempts)
      BY <2>1, SameRelabels
    <2>4. Named(attempts', triggers')
      BY <1>1, <2>2, <2>3, RelabelledNamed
    <2> QED BY <1>2, <2>1, <2>4 DEF Underlying
  <1>14. ASSUME NEW c, Open(c) PROVE ReceiptInv'
    <2>1. Recover /\ SaveCommits /\ pc = "down" /\ request' = request
      BY <1>14 DEF Open, cycleVars
    <2>2. \A r \in Requests :
            /\ triggers'[r].attempts = disk.triggers[r].attempts
            /\ disk.triggers[r].status # "none" => triggers'[r].status # "none"
      BY <1>1, <2>1 DEF Recover, Data, Receipt
    <2>3. Named(attempts', triggers')
      BY <1>1, <2>1, <2>2, RecoveredRelabels, RelabelledNamed
    <2> QED BY <1>1, <1>2, <2>1, <2>2, <2>3 DEF Underlying
  <1>15. CASE Crash
    BY <1>1, <1>2, <1>15 DEF Crash, Forget, Underlying
  <1>16. ASSUME NEW d, \/ EndContinuation(d) \/ SearchUnreadable(d)
                       \/ \E v : Select(d, v)
                       \/ \E targets : SelectSearch(d, targets)
         PROVE  ReceiptInv'
    BY <1>4, <1>16 DEF EndContinuation, SearchUnreadable, Select, SelectSearch, dataVars, cycleVars
  <1>17. CASE (\E p \in plans : Skip(p)) \/ PlanDone \/ CycleRefused \/ Transmit \/ \E q : Scan(q)
    BY <1>4, <1>17 DEF Skip, PlanDone, CycleRefused, AfterError, Transmit, Scan, dataVars, cycleVars
  <1>18. CASE Stop \/ Exit \/ Tick \/ UNCHANGED vars
    BY <1>4, <1>18 DEF Stop, Exit, Tick, vars, dataVars, cycleVars
  <1> QED BY <1>5, <1>6, <1>7, <1>9, <1>10, <1>11, <1>12, <1>13, <1>14, <1>15, <1>16, <1>17,
             <1>18 DEF Next, Observe

\* Open never finds a store it refuses for its receipts: each committed receipt
\* names the committed attempts of its request and they name it, whichever
\* step a save or a crash comes after (validateReceipts).
THEOREM ReceiptsAlwaysValid == Spec => []ReceiptsValid
  <1>1. ReceiptInv => ReceiptsValid
    BY DEF ReceiptInv, Named, ReceiptsValid, ValidReceipts
  <1>2. ReceiptInv /\ [Next]_vars => ReceiptInv'
    BY ReceiptStep
  <1> QED BY <1>1, <1>2, ReceiptInit, PTL DEF Spec

----------------------------------------------------------------------------
(* Continuations.  What a replacement search needs is there, in memory and  *)
(* in the store, as long as it is due; and whoever is pending has an issue. *)

Justified(A, O, d) ==
  \E a \in A : /\ a.id = O[d].removal /\ a.download = d
               /\ a.decision.kind = "remove_unusable" /\ a.outcome = "verified"
Due(O, d) == O[d].state = "pending-search"

Continued(A, I, O) ==
  /\ \A a \in A : Pending(a) => I[a.download].state # "none"
  /\ \A d \in Downloads : Due(O, d) => I[d].state # "none" /\ Justified(A, O, d)

ContinuedInv ==
  /\ ReplayInv
  /\ Continued(attempts, issues, operations)
  /\ Continued(disk.attempts, disk.issues, disk.operations)

LEMMA ContinuedInit == Init => ContinuedInv
  BY ReplayInit DEF Init, StoreInit, Snapshot, ContinuedInv, Continued, Due, NoOperation

\* Issues may change their status and continuations may end.
LEMMA RelabelledContinued ==
  ASSUME NEW A, NEW B, NEW I, NEW J, NEW O, NEW P, Continued(A, I, O), Relabels(B, A),
         A \in SUBSET Attempt,
         \A d \in Downloads :
           /\ I[d].state # "none" => J[d].state # "none"
           /\ Due(P, d) => Due(O, d) /\ P[d].removal = O[d].removal
  PROVE  Continued(B, J, P)
  <1>1. ASSUME NEW b \in B, Pending(b) PROVE J[b.download].state # "none"
    <2>1. PICK a \in A : Follows(b, a)
      BY DEF Relabels
    <2>2. Pending(a) /\ a.download = b.download /\ a.download \in Downloads
      BY <1>1, <2>1 DEF Follows, SameAttempt, Attempt
    <2> QED BY <2>2 DEF Continued
  <1>2. ASSUME NEW d \in Downloads, Due(P, d)
        PROVE  J[d].state # "none" /\ Justified(B, P, d)
    <2>1. Due(O, d) /\ P[d].removal = O[d].removal
      BY <1>2
    <2>2. PICK a \in A : /\ a.id = O[d].removal /\ a.download = d
                         /\ a.decision.kind = "remove_unusable" /\ a.outcome = "verified"
      BY <2>1 DEF Continued, Justified
    <2>3. a \in B
      BY <2>2 DEF Relabels, Follows, Unresolved
    <2> QED BY <1>2, <2>1, <2>2, <2>3 DEF Continued, Justified
  <1> QED BY <1>1, <1>2 DEF Continued

\* verify opens a continuation for the removal it verifies, which has an issue
\* since it was pending.
LEMMA VerifiedContinued ==
  ASSUME PartsOK, Continued(attempts, issues, operations), NEW a \in attempts, Pending(a),
         NEW command, NEW reading, Verified(a, command, reading)
  PROVE  Continued(attempts', issues', operations')
  <1> DEFINE outcome == OutcomeAfter(a, command, reading)
             f == IF outcome \in {"verified", "submitted", "failed"} THEN scanTime ELSE a.finished
             b == [a EXCEPT !.outcome = outcome, !.evidence = Evidence(a, command, reading),
                            !.finished = f]
  <1>1. /\ a \in Attempt /\ a.download \in Downloads
        /\ issues \in [Downloads -> Issue] /\ operations \in [Downloads -> Operation]
    BY DEF PartsOK, Attempt
  <1>2. b \in attempts' /\ operations' = ContinuationAfter(a, outcome)
    BY DEF Verified
  <1>3. /\ b.id = a.id /\ b.download = a.download /\ b.decision = a.decision
        /\ b.outcome = outcome
    BY <1>1 DEF Attempt
  <1>4. issues' = IF outcome \in {"verified", "submitted"} /\ issues[a.download].state # "none"
                  THEN [issues EXCEPT ![a.download] =
                          [state |-> "resolved", resolvedAt |-> scanTime]]
                  ELSE issues
    BY DEF Verified
  <1>5. \A d \in Downloads : issues[d].state # "none" => issues'[d].state # "none"
    BY <1>1, <1>4
  <1>6. Relabels(attempts', attempts)
    BY VerifiedRelabels
  <1> HIDE DEF b, outcome
  <1>7. CASE a.decision.kind = "remove_unusable" /\ outcome = "verified" /\ cfg.search
    <2>1. operations' = [operations EXCEPT ![a.download] =
            [state |-> "pending-search", removal |-> a.id, episodes |-> a.decision.episodes]]
      BY <1>2, <1>7 DEF ContinuationAfter
    <2> DEFINE P == [operations EXCEPT ![a.download].state = "finished"]
    <2>2. \A d \in Downloads : /\ Due(P, d) => Due(operations, d)
                               /\ Due(P, d) => P[d].removal = operations[d].removal
      BY <1>1 DEF Due, Operation
    <2>3. Continued(attempts', issues', P)
      BY <1>1, <1>5, <1>6, <2>2, RelabelledContinued DEF PartsOK
    <2>4. issues'[a.download].state # "none"
      BY <1>1, <1>5 DEF Continued
    <2>5. operations'[a.download].removal = a.id
      BY <1>1, <2>1
    <2>6. Justified(attempts', operations', a.download)
      BY <1>2, <1>3, <1>7, <2>5 DEF Justified
    <2>7. ASSUME NEW d \in Downloads, d # a.download, Due(operations', d)
          PROVE  issues'[d].state # "none" /\ Justified(attempts', operations', d)
      <3>1. operations'[d] = operations[d] /\ P[d] = operations[d]
        BY <1>1, <2>1, <2>7
      <3> QED BY <2>3, <2>7, <3>1 DEF Continued, Due, Justified
    <2> QED BY <1>1, <2>3, <2>4, <2>6, <2>7 DEF Continued
  <1>8. CASE ~(a.decision.kind = "remove_unusable" /\ outcome = "verified" /\ cfg.search)
    <2>1. \/ operations' = operations
          \/ operations' = [operations EXCEPT ![a.download].state = "finished"]
      BY <1>2, <1>8 DEF ContinuationAfter
    <2>2. \A d \in Downloads : /\ Due(operations', d) => Due(operations, d)
                               /\ Due(operations', d) =>
                                    operations'[d].removal = operations[d].removal
      BY <1>1, <2>1 DEF Due, Operation
    <2> QED BY <1>5, <1>6, <2>2, RelabelledContinued DEF PartsOK
  <1> QED BY <1>7, <1>8

\* Prune keeps the removal of an open continuation and its issue.
LEMMA PrunedContinued ==
  ASSUME PartsOK, Continued(attempts, issues, operations), NEW t, Prune(t)
  PROVE  Continued(attempts', issues', operations')
  <1>1. attempts' \subseteq attempts /\ \A a \in attempts : RetainAttempt(a, t) => a \in attempts'
    BY DEF Prune
  <1>2. \A d \in Downloads :
          /\ IssueExpired(d, t) => issues'[d] = NoIssue /\ operations'[d] = NoOperation
          /\ ~IssueExpired(d, t) => issues'[d] = issues[d] /\ operations'[d] = operations[d]
    BY DEF Prune
  <1>3. ASSUME NEW a \in attempts', Pending(a) PROVE issues'[a.download].state # "none"
    <2>1. a \in attempts /\ a.download \in Downloads /\ ~IssueExpired(a.download, t)
      BY <1>1, <1>3 DEF PartsOK, Attempt, IssueExpired, HasPending
    <2> QED BY <1>2, <1>3, <2>1 DEF Continued
  <1>4. ASSUME NEW d \in Downloads, Due(operations', d)
        PROVE  issues'[d].state # "none" /\ Justified(attempts', operations', d)
    <2>1. /\ ~IssueExpired(d, t) /\ issues'[d] = issues[d] /\ operations'[d] = operations[d]
          /\ Due(operations, d)
      BY <1>2, <1>4 DEF Due, NoOperation
    <2>2. PICK a \in attempts : /\ a.id = operations[d].removal /\ a.download = d
                                /\ a.decision.kind = "remove_unusable" /\ a.outcome = "verified"
      BY <2>1 DEF Continued, Justified
    <2>3. RetainAttempt(a, t)
      BY <2>1, <2>2 DEF RetainAttempt, NeededForContinuation, OpenOperation, Due
    <2> QED BY <1>1, <2>1, <2>2, <2>3 DEF Continued, Justified
  <1> QED BY <1>3, <1>4 DEF Continued

\* reserve gives the download of its intent an issue; whatever is added else is
\* never pending.
LEMMA AddedContinued ==
  ASSUME NEW A, NEW I, NEW J, NEW O, NEW b, Continued(A, I, O),
         \A d \in Downloads : I[d].state # "none" => J[d].state # "none",
         \A a \in A : a.download \in Downloads,
         Pending(b) => J[b.download].state # "none"
  PROVE  Continued(A \cup {b}, J, O)
  BY DEF Continued, Justified

\* A scan takes no issue away.
LEMMA ScannedStays ==
  ASSUME NEW i \in Issue, i.state # "none", NEW q, q \in {"absent", "protected", "eligible"},
         NEW b \in BOOLEAN, NEW t
  PROVE  Scanned(i, q, b, t).state # "none"
  BY DEF Scanned, Issue

LEMMA ContinuedStep ==
  ASSUME ContinuedInv, [Next]_vars
  PROVE  ContinuedInv'
  <1>1. /\ ReplayInv /\ ReplayInv' /\ TypeOK /\ PartsOK /\ disk \in Data
        /\ attempts \in SUBSET Attempt /\ disk.attempts \in SUBSET Attempt
        /\ issues \in [Downloads -> Issue] /\ operations \in [Downloads -> Operation]
        /\ \A a \in attempts : a.download \in Downloads
        /\ Continued(attempts, issues, operations)
        /\ Continued(disk.attempts, disk.issues, disk.operations)
    BY ReplayStep, TypeParts DEF ContinuedInv, ReplayInv, PartsOK, Data, Attempt
  <1> DEFINE Save == UNCHANGED disk \/ SaveCommits \/ SaveFails
             IssuesStay == \A d \in Downloads :
                             issues[d].state # "none" => issues'[d].state # "none"
             Ends(d, state) == operations' = [operations EXCEPT ![d].state = state]
  <1>2. ASSUME Continued(attempts', issues', operations'), Save PROVE ContinuedInv'
    BY <1>1, <1>2 DEF ContinuedInv, SaveCommits, SaveFails, Snapshot
  <1>3. ASSUME Relabels(attempts', attempts), IssuesStay, Save,
               \/ UNCHANGED operations
               \/ \E d \in Downloads : Ends(d, "finished") \/ Ends(d, "search-attempted")
        PROVE  ContinuedInv'
    <2>1. \A d \in Downloads : /\ Due(operations', d) => Due(operations, d)
                               /\ Due(operations', d) =>
                                    operations'[d].removal = operations[d].removal
      BY <1>1, <1>3 DEF Due, Operation
    <2>2. Continued(attempts', issues', operations')
      BY <1>1, <1>3, <2>1, RelabelledContinued
    <2> QED BY <1>2, <1>3, <2>2
  <1>4. Relabels(attempts, attempts)
    BY SameRelabels
  <1>5. ASSUME UNCHANGED <<attempts, issues>>, Save,
               \/ UNCHANGED operations
               \/ \E d \in Downloads : Ends(d, "finished")
        PROVE  ContinuedInv'
    BY <1>3, <1>4, <1>5
  <1>6. ASSUME NEW q \in [Downloads -> {"absent", "protected", "eligible"}], Scan(q)
        PROVE  ContinuedInv'
    <2>1. issues' = [d \in Downloads |-> Scanned(issues[d], q[d], HasPending(d), now)]
      BY <1>6 DEF Scan
    <2>2. ASSUME NEW d \in Downloads, issues[d].state # "none" PROVE issues'[d].state # "none"
      <3>1. issues[d] \in Issue /\ HasPending(d) \in BOOLEAN
        BY <1>1 DEF HasPending
      <3> QED BY <2>1, <2>2, <3>1, ScannedStays
    <2>3. UNCHANGED <<attempts, operations, disk>>
      BY <1>6 DEF Scan
    <2> QED BY <1>3, <1>4, <2>2, <2>3
  <1>7. CASE ScanFails
    <2>1. UNCHANGED operations /\ (SaveCommits \/ SaveFails)
      BY <1>7 DEF ScanFails, SaveThen
    <2>2. IssuesStay
      BY <1>1, <1>7 DEF ScanFails, Issue
    <2> QED BY <1>1, <1>3, <1>7, <2>1, <2>2, ExpiredRelabels
  <1>8. CASE Verify
    <2>1. PICK a \in attempts :
            a.id \in todo /\ \E answer \in Answers(a) : Verified(a, answer[1], answer[2])
      BY <1>8 DEF Verify
    <2>2. pc = "verify" /\ UNCHANGED disk
      BY <1>8 DEF Verify
    <2>3. Pending(a)
      BY <1>1, <2>1, <2>2 DEF ReplayInv, ToVerify
    <2> QED BY <1>1, <1>2, <2>1, <2>2, <2>3, VerifiedContinued
  <1>9. ASSUME NEW d \in Downloads, NEW v, Recommend(d, v) PROVE ContinuedInv'
    <2>1. PICK i \in 1..MaxID : attempts' = attempts \cup
            {[NewAttempt(i, d, v, scanTime) EXCEPT !.dryRun = TRUE, !.finished = scanTime,
                                                   !.outcome = "recommended"]}
      BY <1>9 DEF Recommend
    <2> DEFINE b == [NewAttempt(i, d, v, scanTime) EXCEPT
                       !.dryRun = TRUE, !.finished = scanTime, !.outcome = "recommended"]
    <2>2. ~Pending(b)
      BY DEF NewAttempt, Pending
    <2>3. attempts' = attempts \cup {b}
      BY <2>1
    <2> HIDE DEF b
    <2>4. UNCHANGED <<issues, operations, disk>>
      BY <1>9 DEF Recommend
    <2>5. Continued(attempts', issues', operations')
      BY <1>1, <2>2, <2>3, <2>4, AddedContinued
    <2> QED BY <1>2, <2>4, <2>5
  <1>10. ASSUME NEW p \in plans, NEW v, Reserve(p, v) PROVE ContinuedInv'
    <2>1. PICK i \in 1..MaxID : attempts' = attempts \cup {NewAttempt(i, p.download, v, now)}
      BY <1>10 DEF Reserve
    <2> DEFINE b == NewAttempt(i, p.download, v, now)
    <2>2. b.download = p.download
      BY DEF NewAttempt
    <2>3. attempts' = attempts \cup {b}
      BY <2>1
    <2> HIDE DEF b
    <2>4. /\ issues' = [issues EXCEPT ![p.download].state = "open"] /\ UNCHANGED operations
          /\ SaveCommits \/ SaveFails
      BY <1>10 DEF Reserve, SaveThen
    <2>5. p.download \in Downloads
      BY <1>1, TypeParts DEF Plan
    <2>6. IssuesStay /\ issues'[b.download].state # "none"
      BY <1>1, <2>2, <2>4, <2>5 DEF Issue
    <2>7. Continued(attempts', issues', operations')
      BY <1>1, <2>3, <2>4, <2>6, AddedContinued
    <2> QED BY <1>2, <2>4, <2>7
  <1>11. ASSUME NEW p \in plans, Execute(p) \/ \E targets : Search(p, targets) PROVE ContinuedInv'
    BY <1>10, <1>11 DEF Execute, Search
  <1>12. ASSUME NEW ack \in BOOLEAN, Respond(ack) PROVE ContinuedInv'
    <2>1. /\ UNCHANGED issues /\ (SaveCommits \/ SaveFails)
          /\ \/ UNCHANGED operations
             \/ \E a \in attempts : Ends(a.download, "search-attempted")
      BY <1>12 DEF Respond, SaveThen
    <2>2. Relabels(attempts', attempts)
      BY <1>1, <1>12, RespondedRelabels
    <2> QED BY <1>1, <1>3, <2>1, <2>2
  <1>13. CASE EndCycle
    <2>1. Prune(scanTime) /\ (SaveCommits \/ SaveFails)
      BY <1>13 DEF EndCycle, SaveThen
    <2>2. Continued(attempts', issues', operations')
      BY <1>1, <2>1, PrunedContinued
    <2> QED BY <1>2, <2>1, <2>2
  <1>14. ASSUME NEW c, Open(c) PROVE ContinuedInv'
    <2>1. Recover /\ SaveCommits /\ issues' = disk.issues /\ operations' = disk.operations
      BY <1>14 DEF Open, Recover
    <2>2. Continued(attempts', issues', operations')
      BY <1>1, <2>1, RecoveredRelabels, RelabelledContinued
    <2> QED BY <1>2, <2>1, <2>2
  <1>15. CASE Crash
    BY <1>1, <1>2, <1>15 DEF Crash, Forget
  <1>16. ASSUME NEW d \in Downloads, \/ EndContinuation(d) \/ SearchUnreadable(d)
                                     \/ \E v : Select(d, v)
                                     \/ \E targets : SelectSearch(d, targets)
         PROVE  ContinuedInv'
    BY <1>5, <1>16 DEF EndContinuation, SearchUnreadable, Select, SelectSearch, dataVars
  <1>17. ASSUME NEW p \in plans, Skip(p) PROVE ContinuedInv'
    <2>1. p.download \in Downloads
      BY <1>1, TypeParts DEF Plan
    <2> QED BY <1>5, <1>17, <2>1 DEF Skip
  <1>18. CASE PlanDone \/ CycleRefused \/ Transmit \/ Stop \/ Exit \/ Tick \/ UNCHANGED vars
    BY <1>5, <1>18 DEF PlanDone, CycleRefused, Transmit, Stop, Exit, Tick, vars, dataVars
  <1>19. CASE (\E r \in Requests : Accept(r)) \/ FinishTrigger
    BY <1>5, <1>19 DEF Accept, FinishTrigger
  <1> QED BY <1>6, <1>7, <1>8, <1>9, <1>11, <1>12, <1>13, <1>14, <1>15, <1>16, <1>17, <1>18,
             <1>19 DEF Next, Observe

\* A replacement search that is due finds the issue and the verified removal it
\* continues, under the ID it was recorded with, after any crash, failed save,
\* prune or reuse of IDs (searchDecision, Prune).
THEOREM ContinuationsIntact == Spec => []ContinuationIntact
  <1>1. ContinuedInv => ContinuationIntact
    BY DEF ContinuedInv, Continued, Due, Justified, ContinuationIntact
  <1>2. ContinuedInv /\ [Next]_vars => ContinuedInv'
    BY ContinuedStep
  <1> QED BY <1>1, <1>2, ContinuedInit, PTL DEF Spec

----------------------------------------------------------------------------
(* Limits.  What the gates count are attempts, what the limits are about is *)
(* what was sent.  Both copies of the attempts tell of everything sent that *)
(* is not yet past every window.                                            *)

\* What attempt a says of transmission s.
Matches(s, a) ==
  /\ SameAttempt(s, a) /\ ~a.dryRun
  /\ Pending(a) \/ (a.outcome = s.end /\ a.finished = s.ended)
Past(s, t) ==
  /\ s.end # "open" /\ s.started + Hour <= t /\ s.started + Retention <= t
  /\ s.ended + Retention <= t /\ s.ended + Cooldown <= t

\* The attempts A know the transmissions S at time t: none is forgotten too
\* early, none is mistaken for another, and none that may have to be verified
\* again was followed by one that conflicts with it.
Remembered(A, S, t) ==
  \A i \in DOMAIN S : Past(S[i], t) \/ \E a \in A : Matches(S[i], a)
Genuine(A, S) ==
  \A i \in DOMAIN S : \A a \in A : ~a.dryRun /\ SameKey(S[i], a) => SameAttempt(S[i], a)
LastWord(A, S) ==
  \A i, j \in DOMAIN S : i < j /\ Conflicting(S[i], S[j]) =>
    \A a \in A : Pending(a) => ~SameKey(S[i], a)
Timely(A, t) ==
  \A a \in A : a.started <= t /\ (~a.dryRun => a.started > 0)
Knows(A, S, t) ==
  /\ IsFiniteSet(A) /\ Keyed(A)
  /\ Remembered(A, S, t) /\ Genuine(A, S) /\ LastWord(A, S) /\ Timely(A, t)

\* Transmissions have different keys and end after they start.
Ordered(S) ==
  /\ \A i, j \in DOMAIN S : i # j => ~SameKey(S[i], S[j])
  /\ \A i \in DOMAIN S : S[i].started > 0 /\ (S[i].end # "open" => S[i].started <= S[i].ended)

\* What was sent and is pending in A is pending in D.
Backed(A, D, S) ==
  \A a \in A : Pending(a) /\ (\E i \in DOMAIN S : SameKey(S[i], a)) =>
    \E b \in D : SameAttempt(a, b) /\ Pending(b)

\* The transmissions that count against one of e.
Windowed(S, n, e) == {i \in 1..n : e.started < S[i].started + Hour}
Imports(S, n, e) ==
  {i \in 1..n : SameImport(S[i], e) /\ e.started < S[i].started + Retention}
Cooled(s, e, override) ==
  /\ Conflicting(s, e) /\ ~override /\ s.end \in {"verified", "submitted"}
  /\ ~(e.decision.kind = "search" /\ s.decision.kind = "remove_unusable")
  => s.ended + Cooldown <= e.started
Retried(s, e) ==
  SameImport(s, e) =>
    s.end # "open" /\ (RetryInterval <= Retention => s.ended + RetryInterval <= e.started)

\* The limits of what was sent, and those a transmission of e must meet next.
Limits(S) ==
  \A j \in DOMAIN S :
    /\ Cardinality(Windowed(S, j, S[j])) <= HourLimit
    /\ Cardinality(Imports(S, j, S[j])) <= MaxAttempts
    /\ \A i \in DOMAIN S : i < j => Cooled(S[i], S[j], S[j].override) /\ Retried(S[i], S[j])
Clear(S, e, override) ==
  /\ \A i \in DOMAIN S : ~SameKey(S[i], e) /\ Cooled(S[i], e, override) /\ Retried(S[i], e)
  /\ Cardinality(Windowed(S, Len(S), e)) < HourLimit
  /\ e.decision.kind = "import" => Cardinality(Imports(S, Len(S), e)) < MaxAttempts

LimitInv ==
  /\ FinalInv
  /\ Knows(attempts, sent, now) /\ Knows(disk.attempts, sent, now)
  /\ Ordered(sent) /\ Backed(attempts, disk.attempts, sent) /\ Limits(sent)
  /\ pc = "verify" => \A a \in attempts : a.started <= scanTime
  /\ pc = "intent" => \A a \in attempts : a.id = executing => Clear(sent, a, Override)

LEMMA LimitInit == Init => LimitInv
  <1> SUFFICES ASSUME Init PROVE LimitInv
    OBVIOUS
  <1>1. attempts = {} /\ disk.attempts = {} /\ sent = <<>> /\ pc = "down"
    BY DEF Init, StoreInit, Snapshot
  <1>2. DOMAIN sent = {}
    BY <1>1
  <1>3. Knows({}, sent, now)
    BY <1>2, FS_EmptySet DEF Knows, Keyed, Remembered, Genuine, LastWord, Timely
  <1> QED BY <1>1, <1>2, <1>3, FinalInit DEF LimitInv, Ordered, Backed, Limits

\* What the limits say of sent.
LEMMA LimitsMean ==
  ASSUME Limits(sent), TypeOK
  PROVE  /\ HourlyBudget /\ AttemptCap /\ CooldownRespected
         /\ RetryInterval <= Retention => RetryRespected
  <1>1. HourlyBudget
    BY DEF Limits, HourlyBudget, Sent, Windowed
  <1>2. AttemptCap
    BY DEF Limits, AttemptCap, Sent, Imports
  <1>3. CooldownRespected
    BY DEF Limits, CooldownRespected, Cooled
  <1>4. RetryInterval <= Retention => RetryRespected
    BY DEF Limits, RetryRespected, Retried
  <1> QED BY <1>1, <1>2, <1>3, <1>4

\* A set of attempts with as many IDs as another that has them all is finite.
LEMMA KeyedFinite ==
  ASSUME NEW A, NEW B, IsFiniteSet(A), Keyed(B), \A b \in B : \E a \in A : a.id = b.id
  PROVE  IsFiniteSet(B)
  <1> DEFINE f == [b \in B |-> CHOOSE a \in A : a.id = b.id]
  <1>1. \A b \in B : f[b] \in A /\ f[b].id = b.id
    OBVIOUS
  <1>2. f \in [B -> A]
    BY <1>1
  <1>3. \A b, c \in B : f[b] = f[c] => b = c
    BY <1>1 DEF Keyed
  <1> HIDE DEF f
  <1>4. f \in Injection(B, A)
    BY <1>2, <1>3, Fun_IsInj
  <1> QED BY <1>4, FS_Injection

\* Relabelled attempts that all last know what the former ones knew.
LEMMA RelabelledKnow ==
  ASSUME NEW A, NEW B, NEW S, NEW t, Knows(A, S, t), Keyed(B), Relabels(B, A), Lasts(B, A)
  PROVE  Knows(B, S, t)
  <1>1. IsFiniteSet(B)
    BY KeyedFinite DEF Relabels, Follows, SameAttempt, Knows
  <1>2. Remembered(B, S, t)
    <2> SUFFICES ASSUME NEW i \in DOMAIN S, NEW a \in A, Matches(S[i], a)
                 PROVE  \E b \in B : Matches(S[i], b)
      BY DEF Remembered, Knows
    <2>1. CASE Pending(a)
      <3>1. PICK b \in B : SameAttempt(a, b) /\ Pending(b)
        BY <2>1 DEF Lasts
      <3> QED BY <3>1 DEF Matches, SameAttempt, Pending
    <2>2. CASE ~Pending(a)
      <3>1. PICK b \in B : Follows(b, a)
        BY DEF Relabels
      <3> QED BY <2>2, <3>1 DEF Matches, Follows, Pending
    <2> QED BY <2>1, <2>2
  <1>3. Genuine(B, S) /\ LastWord(B, S) /\ Timely(B, t)
    BY DEF Knows, Genuine, LastWord, Timely, Relabels, Follows, SameKey, SameAttempt
  <1> QED BY <1>1, <1>2, <1>3 DEF Knows

\* What is past stays past.
LEMMA PastLater ==
  ASSUME NEW s, s.started \in Nat, s.ended \in Nat, NEW t \in Nat, NEW u \in Nat, t <= u,
         Past(s, t)
  PROVE  Past(s, u)
  <1>1. Hour \in Nat /\ Retention \in Nat /\ Cooldown \in Nat
    BY StoreAssumption
  <1> DEFINE h == s.started + Hour
             r == s.started + Retention
             q == s.ended + Retention
             c == s.ended + Cooldown
  <1>2. h \in Nat /\ r \in Nat /\ q \in Nat /\ c \in Nat
    BY <1>1
  <1>3. h <= t /\ r <= t /\ q <= t /\ c <= t /\ s.end # "open"
    BY DEF Past
  <1> HIDE DEF h, r, q, c
  <1>4. h <= u /\ r <= u /\ q <= u /\ c <= u
    BY <1>2, <1>3
  <1> QED BY <1>3, <1>4 DEF Past, h, r, q, c

\* Prune drops what is past every window by the time of the scan.
LEMMA PrunedKnow ==
  ASSUME PartsOK, now \in Nat, scanTime \in Nat, scanTime <= now, sent \in Seq(Transmission),
         Ordered(sent), Knows(attempts, sent, now), Prune(scanTime)
  PROVE  Knows(attempts', sent, now)
  <1>1. attempts' \subseteq attempts
    BY DEF Prune
  <1>2. IsFiniteSet(attempts')
    BY <1>1, FS_Subset DEF Knows
  <1>3. Remembered(attempts', sent, now)
    <2> SUFFICES ASSUME NEW i \in DOMAIN sent, ~Past(sent[i], now)
                 PROVE  \E a \in attempts' : Matches(sent[i], a)
      BY DEF Remembered
    <2>1. PICK a \in attempts : Matches(sent[i], a)
      BY DEF Knows, Remembered
    <2>2. ASSUME a \notin attempts' PROVE FALSE
      <3>1. ~RetainAttempt(a, scanTime)
        BY <2>2 DEF Prune
      <3>2. /\ a.outcome = sent[i].end /\ a.finished = sent[i].ended
            /\ a.started = sent[i].started
        BY <2>1, <3>1 DEF RetainAttempt, Matches, SameAttempt
      <3>3. a \in Attempt /\ sent[i] \in Transmission
        BY DEF PartsOK
      <3>4. /\ sent[i].started \in Nat /\ sent[i].ended \in Nat /\ sent[i].end # "open"
            /\ sent[i].started > 0 /\ sent[i].started <= sent[i].ended
        BY <3>2, <3>3 DEF Attempt, Outcomes, Unresolved, Transmission, Ordered
      <3>5. /\ ~(sent[i].started + Hour > scanTime)
            /\ ~(sent[i].ended + Cooldown > scanTime)
            /\ ~(sent[i].ended + Retention > scanTime)
        BY <3>1, <3>2, <3>4 DEF RetainAttempt, Ended
      <3>6. Past(sent[i], scanTime)
        <4>1. sent[i].started + Hour <= scanTime
          BY <3>4, <3>5, StoreAssumption
        <4>2. sent[i].ended + Cooldown <= scanTime
          BY <3>4, <3>5, StoreAssumption
        <4>3. /\ sent[i].ended + Retention <= scanTime
              /\ sent[i].started + Retention <= scanTime
          BY <3>4, <3>5, StoreAssumption
        <4> QED BY <3>4, <4>1, <4>2, <4>3 DEF Past
      <3> QED BY <3>4, <3>6, PastLater
    <2> QED BY <2>1, <2>2
  <1> QED BY <1>1, <1>2, <1>3 DEF Knows, Keyed, Genuine, LastWord, Timely

\* Time passes.
LEMMA LaterKnow ==
  ASSUME NEW A \in SUBSET Attempt, sent \in Seq(Transmission), now \in Nat,
         Knows(A, sent, now)
  PROVE  Knows(A, sent, now + 1)
  <1>1. ASSUME NEW i \in DOMAIN sent, Past(sent[i], now)
        PROVE  Past(sent[i], now + 1)
    <2>1. sent[i] \in Transmission
      OBVIOUS
    <2>2. sent[i].started \in Nat /\ sent[i].ended \in Nat
      BY <2>1 DEF Transmission
    <2> QED BY <1>1, <2>2, PastLater
  <1>2. Timely(A, now + 1)
    BY DEF Knows, Timely, Attempt
  <1> QED BY <1>1, <1>2 DEF Knows, Remembered

\* An attempt with an ID that is free: a recommendation, or one that starts now.
LEMMA AddedKnow ==
  ASSUME PartsOK, now \in Nat \ {0}, sent \in Seq(Transmission), Knows(attempts, sent, now),
         NEW b, attempts' = attempts \cup {b}, \A a \in attempts : a.id # b.id,
         b.started \in Nat, b.started <= now, b.dryRun \/ b.started = now
  PROVE  /\ Knows(attempts', sent, now)
         /\ \A i \in DOMAIN sent : b.dryRun \/ ~SameKey(sent[i], b)
  <1>1. ASSUME NEW i \in DOMAIN sent, ~b.dryRun, SameKey(sent[i], b)
        PROVE  FALSE
    <2>1. ~Past(sent[i], now)
      BY <1>1, StoreAssumption DEF Past, SameKey
    <2>2. PICK a \in attempts : Matches(sent[i], a)
      BY <2>1 DEF Knows, Remembered
    <2> QED BY <1>1, <2>2 DEF Matches, SameAttempt, SameKey
  <1>2. IsFiniteSet(attempts')
    BY FS_AddElement DEF Knows
  <1>3. Keyed(attempts') /\ Remembered(attempts', sent, now) /\ Timely(attempts', now)
    BY DEF Knows, Keyed, Remembered, Timely
  <1>4. Genuine(attempts', sent) /\ LastWord(attempts', sent)
    BY <1>1 DEF Knows, Genuine, LastWord, Pending
  <1> QED BY <1>1, <1>2, <1>3, <1>4 DEF Knows

\* What was sent and is not past every window is counted among the attempts.
LEMMA CountedAttempts ==
  ASSUME Ordered(sent), NEW A, NEW t, Knows(A, sent, t),
         NEW W \in SUBSET DOMAIN sent, \A i \in W : ~Past(sent[i], t),
         NEW T \in SUBSET A, \A i \in W : \A a \in A : Matches(sent[i], a) => a \in T
  PROVE  Cardinality(W) <= Cardinality(T) /\ IsFiniteSet(T)
  <1> DEFINE f == [i \in W |-> CHOOSE a \in A : Matches(sent[i], a)]
  <1>1. \A i \in W : f[i] \in T /\ Matches(sent[i], f[i])
    BY DEF Knows, Remembered
  <1>2. f \in [W -> T]
    BY <1>1
  <1>3. \A i, j \in W : f[i] = f[j] => i = j
    BY <1>1 DEF Ordered, Matches, SameAttempt, SameKey
  <1>4. IsFiniteSet(T)
    BY FS_Subset DEF Knows
  <1> HIDE DEF f
  <1>5. f \in Injection(W, T)
    BY <1>2, <1>3, Fun_IsInj
  <1> QED BY <1>4, <1>5, FS_Injection

\* Sets of positions in sent, and what one more position adds to them.
LEMMA CountedPositions ==
  ASSUME NEW m \in Nat, NEW W \in SUBSET (1..m)
  PROVE  IsFiniteSet(W) /\ Cardinality(W) \in Nat
  <1>1. IsFiniteSet(1..m)
    BY FS_Interval
  <1>2. IsFiniteSet(W)
    BY <1>1, FS_Subset
  <1> QED BY <1>2, FS_CardinalityType

\* A set below a limit stays within it when one position is added.
LEMMA OneMore ==
  ASSUME NEW m \in Nat, NEW W \in SUBSET (1..m), NEW limit \in Nat, Cardinality(W) < limit,
         NEW V \in SUBSET (W \cup {m + 1})
  PROVE  Cardinality(V) <= limit
  <1>1. IsFiniteSet(W) /\ Cardinality(W) \in Nat
    BY CountedPositions
  <1>2. /\ IsFiniteSet(W \cup {m + 1})
        /\ Cardinality(W \cup {m + 1}) = IF m + 1 \in W THEN Cardinality(W) ELSE Cardinality(W) + 1
    BY <1>1, FS_AddElement
  <1>3. IsFiniteSet(V) /\ Cardinality(V) <= Cardinality(W \cup {m + 1})
    BY <1>2, FS_Subset
  <1>4. Cardinality(V) \in Nat
    BY <1>3, FS_CardinalityType
  <1> QED BY <1>1, <1>2, <1>3, <1>4

\* What the gate lets through meets the limits: e is the attempt that reserve
\* records for decision v of download d.
LEMMA GateClears ==
  ASSUME LimitInv, NEW d \in Downloads, NEW v \in Decision, NEW parent,
         Gate(d, v, now, parent), NEW e,
         e.download = d, e.decision = v, e.started = now,
         \A i \in DOMAIN sent : ~SameKey(sent[i], e),
         \A a \in attempts :
           a.id = parent => v.kind = "search" /\ a.decision.kind = "remove_unusable"
  PROVE  Clear(sent, e, Override)
  <1>1. /\ PartsOK /\ now \in Nat \ {0} /\ sent \in Seq(Transmission)
        /\ Knows(attempts, sent, now) /\ Ordered(sent)
    BY TypeParts DEF LimitInv, FinalInv, ReplayInv
  <1>2. DOMAIN sent = 1..Len(sent) /\ Len(sent) \in Nat
    BY <1>1, LenProperties
  <1>3. ASSUME NEW i \in DOMAIN sent
        PROVE  /\ sent[i] \in Transmission /\ sent[i].started \in Nat /\ sent[i].ended \in Nat
               /\ sent[i].started > 0
               /\ sent[i].end # "open" => sent[i].started <= sent[i].ended
               /\ Past(sent[i], now) \/ \E a \in attempts : Matches(sent[i], a)
    <2>1. sent[i] \in Transmission
      BY <1>1
    <2> QED BY <1>1, <2>1 DEF Transmission, Ordered, Knows, Remembered
  <1>4. ASSUME NEW i \in DOMAIN sent PROVE Cooled(sent[i], e, Override)
    <2> SUFFICES ASSUME Conflicting(sent[i], e), ~Override,
                        sent[i].end \in {"verified", "submitted"},
                        ~(v.kind = "search" /\ sent[i].decision.kind = "remove_unusable")
                 PROVE  sent[i].ended + Cooldown <= now
      BY DEF Cooled
    <2>1. CASE Past(sent[i], now)
      BY <2>1 DEF Past
    <2>2. ASSUME NEW a \in attempts, Matches(sent[i], a)
          PROVE  sent[i].ended + Cooldown <= now
      <3>1. ~a.dryRun /\ Conflict(a, d, v) /\ a.decision = sent[i].decision
        BY <2>2 DEF Matches, SameAttempt, Conflict, Conflicting
      <3>2. ~Pending(a) /\ (a.id = parent \/ ~Cooling(a, now))
        BY <3>1 DEF Gate, Protected
      <3>3. a.id # parent
        BY <3>1
      <3>4. a.outcome = sent[i].end /\ a.finished = sent[i].ended
        BY <2>2, <3>2 DEF Matches
      <3> QED BY <1>1, <1>3, <3>2, <3>3, <3>4, StoreAssumption DEF Cooling
    <2> QED BY <1>3, <2>1, <2>2
  <1>5. ASSUME NEW i \in DOMAIN sent PROVE Retried(sent[i], e)
    <2> SUFFICES ASSUME SameImport(sent[i], e)
                 PROVE  /\ sent[i].end # "open"
                        /\ RetryInterval <= Retention => sent[i].ended + RetryInterval <= now
      BY DEF Retried
    <2>1. v.kind = "import" /\ sent[i].download = d
      BY DEF SameImport
    <2>2. \A a \in attempts : a.download = d => ~Pending(a)
      BY DEF Gate, Protected, Pending, Conflict
    <2>3. sent[i].end # "open"
      BY <2>1, <2>2 DEF LimitInv, FinalInv, ReplayInv, Sound, Records, SameAttempt
    <2>4. CASE Past(sent[i], now)
      BY <1>1, <1>3, <2>3, <2>4, StoreAssumption, RemediatorAssumption DEF Past
    <2>5. ASSUME NEW a \in attempts, Matches(sent[i], a)
          PROVE  sent[i].ended + RetryInterval <= now
      <3>1. a \in ImportAttempts(d, v) /\ ~Pending(a)
        BY <2>1, <2>2, <2>5 DEF Matches, SameAttempt, ImportAttempts, SameImport
      <3>2. ~(now < Ended(a) + RetryInterval)
        BY <2>1, <3>1 DEF Gate, RetryWait
      <3>3. a.finished = sent[i].ended
        BY <2>5, <3>1 DEF Matches
      <3>4. Ended(a) = sent[i].ended
        BY <1>3, <2>3, <3>3 DEF Ended
      <3> QED BY <1>1, <1>3, <3>2, <3>4, RemediatorAssumption
    <2> QED BY <1>3, <2>3, <2>4, <2>5
  <1>6. Cardinality(Windowed(sent, Len(sent), e)) < HourLimit
    <2> DEFINE W == Windowed(sent, Len(sent), e)
               T == {a \in attempts : ~a.dryRun /\ a.started + Hour > now}
    <2>1. W \in SUBSET DOMAIN sent /\ T \in SUBSET attempts
      BY <1>2 DEF Windowed
    <2>2. \A i \in W : now < sent[i].started + Hour
      BY DEF Windowed
    <2>3. \A i \in W : ~Past(sent[i], now)
      BY <1>1, <1>3, <2>1, <2>2, StoreAssumption DEF Past
    <2>4. \A i \in W : \A a \in attempts : Matches(sent[i], a) => a \in T
      BY <1>1, <1>3, <2>1, <2>2, StoreAssumption DEF Matches, SameAttempt
    <2>5. Cardinality(T) < HourLimit
      BY DEF Gate, Budget
    <2> HIDE DEF W, T
    <2>6. Cardinality(W) <= Cardinality(T) /\ IsFiniteSet(T)
      BY <1>1, <2>1, <2>3, <2>4, CountedAttempts
    <2>7. Cardinality(W) \in Nat /\ Cardinality(T) \in Nat
      BY <1>2, <2>1, <2>6, CountedPositions, FS_CardinalityType
    <2>8. Cardinality(W) < HourLimit
      BY <2>5, <2>6, <2>7, RemediatorAssumption
    <2> QED BY <2>8 DEF W
  <1>7. ASSUME v.kind = "import" PROVE Cardinality(Imports(sent, Len(sent), e)) < MaxAttempts
    <2> DEFINE W == Imports(sent, Len(sent), e)
               T == ImportAttempts(d, v)
    <2>1. W \in SUBSET DOMAIN sent /\ T \in SUBSET attempts
      BY <1>2 DEF Imports, ImportAttempts
    <2>2. \A i \in W : now < sent[i].started + Retention /\ SameImport(sent[i], e)
      BY DEF Imports
    <2>3. \A i \in W : ~Past(sent[i], now)
      BY <1>1, <1>3, <2>1, <2>2, StoreAssumption DEF Past
    <2>4. \A i \in W : \A a \in attempts : Matches(sent[i], a) => a \in T
      BY <2>2 DEF Matches, SameAttempt, SameImport, ImportAttempts
    <2>5. ~(Cardinality(T) >= MaxAttempts)
      BY <1>7 DEF Gate, Exhausted
    <2> HIDE DEF W, T
    <2>6. Cardinality(W) <= Cardinality(T) /\ IsFiniteSet(T)
      BY <1>1, <2>1, <2>3, <2>4, CountedAttempts
    <2>7. Cardinality(W) \in Nat /\ Cardinality(T) \in Nat
      BY <1>2, <2>1, <2>6, CountedPositions, FS_CardinalityType
    <2>8. Cardinality(W) < MaxAttempts
      BY <2>5, <2>6, <2>7, RemediatorAssumption
    <2> QED BY <2>8 DEF W
  <1>8. \A i \in DOMAIN sent : ~SameKey(sent[i], e)
    OBVIOUS
  <1> QED BY <1>4, <1>5, <1>6, <1>7, <1>8 DEF Clear

\* What the limits count of transmissions lasts when they are settled.
SameHead(s, t) ==
  /\ s.id = t.id /\ s.started = t.started /\ s.download = t.download
  /\ s.decision = t.decision /\ s.override = t.override /\ s.request = t.request

\* Settle writes how transmissions ended and nothing else.
LEMMA SettleKeepsHeads ==
  ASSUME sent \in Seq(Transmission), NEW a,
         NEW outcome \in {"verified", "submitted", "failed"}, Settle(a, outcome)
  PROVE  /\ DOMAIN sent' = DOMAIN sent
         /\ \A i \in DOMAIN sent :
              /\ SameHead(sent'[i], sent[i])
              /\ SameKey(sent[i], a) => sent'[i].end = outcome /\ sent'[i].ended = scanTime
              /\ ~SameKey(sent[i], a) => sent'[i] = sent[i]
  <1>1. DOMAIN sent = 1..Len(sent)
    BY LenProperties
  <1>2. DOMAIN sent' = 1..Len(sent)
    BY Zenon DEF Settle
  <1>3. ASSUME NEW i \in 1..Len(sent), SameKey(sent[i], a)
        PROVE  SameHead(sent'[i], sent[i]) /\ sent'[i].end = outcome /\ sent'[i].ended = scanTime
    <2>1. sent'[i] = [sent[i] EXCEPT !.end = outcome, !.ended = scanTime]
      BY <1>3 DEF Settle, SameKey
    <2>2. sent[i] \in Transmission
      OBVIOUS
    <2> QED BY <2>1, <2>2 DEF Transmission, SameHead
  <1>4. ASSUME NEW i \in 1..Len(sent), ~SameKey(sent[i], a) PROVE sent'[i] = sent[i]
    BY <1>4 DEF Settle, SameKey
  <1> QED BY <1>1, <1>2, <1>3, <1>4 DEF SameHead

\* Whether two transmissions conflict or repeat an import is in their heads.
LEMMA HeadsAgree ==
  ASSUME NEW s, NEW s2, NEW t, NEW t2, SameHead(s2, s), SameHead(t2, t)
  PROVE  /\ SameImport(s2, t2) <=> SameImport(s, t)
         /\ Conflicting(s2, t2) <=> Conflicting(s, t)
  BY DEF SameHead, SameImport, Conflicting

\* verify ends an attempt: nothing that conflicts with it was sent after it.
LEMMA EndedLimits ==
  ASSUME sent \in Seq(Transmission), Limits(sent), LastWord(attempts, sent),
         NEW a \in attempts, Pending(a),
         NEW outcome \in {"verified", "submitted", "failed"}, Settle(a, outcome)
  PROVE  Limits(sent')
  <1>1. /\ DOMAIN sent' = DOMAIN sent /\ DOMAIN sent = 1..Len(sent) /\ Len(sent) \in Nat
        /\ \A i \in DOMAIN sent : /\ SameHead(sent'[i], sent[i])
                                  /\ ~SameKey(sent[i], a) => sent'[i] = sent[i]
    BY SettleKeepsHeads, LenProperties
  <1> SUFFICES ASSUME NEW j \in DOMAIN sent
               PROVE  /\ Cardinality(Windowed(sent', j, sent'[j])) <= HourLimit
                      /\ Cardinality(Imports(sent', j, sent'[j])) <= MaxAttempts
                      /\ \A i \in DOMAIN sent : i < j =>
                           /\ Cooled(sent'[i], sent'[j], sent'[j].override)
                           /\ Retried(sent'[i], sent'[j])
    BY <1>1 DEF Limits
  <1>2. \A i \in 1..j : i \in DOMAIN sent
    BY <1>1
  <1>3. Windowed(sent', j, sent'[j]) = Windowed(sent, j, sent[j])
    BY <1>1, <1>2 DEF Windowed, SameHead
  <1>4. Imports(sent', j, sent'[j]) = Imports(sent, j, sent[j])
    BY <1>1, <1>2, HeadsAgree DEF Imports, SameHead
  <1>5. ASSUME NEW i \in DOMAIN sent, i < j
        PROVE  Cooled(sent'[i], sent'[j], sent'[j].override) /\ Retried(sent'[i], sent'[j])
    <2>1. CASE Conflicting(sent[i], sent[j])
      <3>1. sent'[i] = sent[i]
        BY <1>1, <1>5, <2>1 DEF LastWord
      <3>2. Cooled(sent[i], sent[j], sent[j].override) /\ Retried(sent[i], sent[j])
        BY <1>5 DEF Limits
      <3>3. SameHead(sent'[j], sent[j])
        BY <1>1
      <3> QED BY <3>1, <3>2, <3>3 DEF SameHead, Cooled, Retried, Conflicting, SameImport
    <2>2. CASE ~Conflicting(sent[i], sent[j])
      <3>1. ~Conflicting(sent'[i], sent'[j])
        BY <1>1, <2>2, HeadsAgree
      <3> QED BY <3>1 DEF Cooled, Retried, Conflicting, SameImport
    <2> QED BY <2>1, <2>2
  <1> QED BY <1>3, <1>4, <1>5 DEF Limits

\* Both copies know it: the one that was ended, and the one that is pending.
LEMMA EndedKnow ==
  ASSUME sent \in Seq(Transmission), NEW A, NEW B, NEW t, Knows(A, sent, t),
         NEW a, NEW outcome \in {"verified", "submitted", "failed"}, Settle(a, outcome),
         Keyed(B), Relabels(B, A),
         \A c \in A : ~SameKey(c, a) => c \in B,
         \A i \in DOMAIN sent : SameKey(sent[i], a) => \E b \in B : Matches(sent'[i], b)
  PROVE  Knows(B, sent', t)
  <1>1. /\ DOMAIN sent' = DOMAIN sent
        /\ \A i \in DOMAIN sent : /\ SameHead(sent'[i], sent[i])
                                  /\ ~SameKey(sent[i], a) => sent'[i] = sent[i]
    BY SettleKeepsHeads
  <1>2. IsFiniteSet(B)
    BY KeyedFinite DEF Relabels, Follows, SameAttempt, Knows
  <1>3. Remembered(B, sent', t)
    BY <1>1 DEF Knows, Remembered, Matches, SameAttempt, SameKey
  <1>4. Genuine(B, sent')
    BY <1>1 DEF Knows, Genuine, Relabels, Follows, SameKey, SameAttempt, SameHead
  <1>5. LastWord(B, sent')
    <2> SUFFICES ASSUME NEW i \in DOMAIN sent, NEW j \in DOMAIN sent, i < j,
                        Conflicting(sent'[i], sent'[j]), NEW b \in B, Pending(b)
                 PROVE  ~SameKey(sent'[i], b)
      BY <1>1 DEF LastWord
    <2>1. Conflicting(sent[i], sent[j])
      BY <1>1, HeadsAgree
    <2>2. PICK c \in A : Follows(b, c)
      BY DEF Relabels
    <2>3. ~SameKey(sent[i], c)
      BY <2>1, <2>2 DEF Knows, LastWord, Follows
    <2> QED BY <1>1, <2>2, <2>3 DEF SameKey, SameHead, Follows, SameAttempt
  <1>6. Timely(B, t)
    BY DEF Knows, Timely, Relabels, Follows, SameAttempt
  <1> QED BY <1>2, <1>3, <1>4, <1>5, <1>6 DEF Knows

\* The invariant after verify has ended an attempt: memory has its outcome, and
\* the store, which is saved later, still has it pending.
LEMMA EndedLimited ==
  ASSUME LimitInv, pc = "verify", NEW a \in attempts, Pending(a), NEW command, NEW reading,
         Verified(a, command, reading), OutcomeAfter(a, command, reading) \in Final,
         UNCHANGED disk, Keyed(attempts')
  PROVE  /\ Knows(attempts', sent', now) /\ Knows(disk.attempts, sent', now)
         /\ Ordered(sent') /\ Backed(attempts', disk.attempts, sent') /\ Limits(sent')
  <1> DEFINE outcome == OutcomeAfter(a, command, reading)
             b == [a EXCEPT !.outcome = outcome, !.evidence = Evidence(a, command, reading),
                            !.finished = scanTime]
  <1>1. /\ PartsOK /\ sent \in Seq(Transmission) /\ a \in Attempt /\ scanTime \in Nat
        /\ Knows(attempts, sent, now) /\ Knows(disk.attempts, sent, now)
        /\ Ordered(sent) /\ Backed(attempts, disk.attempts, sent) /\ Limits(sent)
        /\ Keyed(attempts) /\ Keyed(disk.attempts) /\ a.started <= scanTime
    BY TypeParts DEF LimitInv, FinalInv, ReplayInv, PartsOK, Sound
  <1>2. /\ outcome \in {"verified", "submitted", "failed"} /\ Settle(a, outcome)
        /\ attempts' = (attempts \ {a}) \cup {b}
    BY DEF Verified, Final
  <1>3. /\ SameAttempt(a, b) /\ ~b.dryRun /\ ~Pending(b)
        /\ b.outcome = outcome /\ b.finished = scanTime
    BY <1>1, <1>2 DEF Attempt, SameAttempt, Pending, Unresolved
  <1> HIDE DEF b, outcome
  <1>4. Relabels(attempts', attempts)
    BY <1>1, VerifiedRelabels
  <1>5. /\ DOMAIN sent' = DOMAIN sent
        /\ \A i \in DOMAIN sent :
             /\ SameHead(sent'[i], sent[i])
             /\ SameKey(sent[i], a) => sent'[i].end = outcome /\ sent'[i].ended = scanTime
             /\ ~SameKey(sent[i], a) => sent'[i] = sent[i]
    BY <1>1, <1>2, SettleKeepsHeads
  <1>6. ASSUME NEW i \in DOMAIN sent, SameKey(sent[i], a)
        PROVE  /\ \E c \in attempts' : Matches(sent'[i], c)
               /\ \E c \in disk.attempts : Matches(sent'[i], c)
    <2>1. SameAttempt(sent[i], a)
      BY <1>1, <1>6 DEF Knows, Genuine, Pending
    <2>2. SameAttempt(sent'[i], a)
      BY <1>5, <2>1 DEF SameAttempt, SameHead
    <2>3. Matches(sent'[i], b)
      BY <1>3, <1>5, <1>6, <2>2 DEF Matches, SameAttempt
    <2>4. PICK c \in disk.attempts : SameAttempt(a, c) /\ Pending(c)
      BY <1>1, <1>6 DEF Backed
    <2>5. Matches(sent'[i], c)
      BY <2>2, <2>4 DEF Matches, SameAttempt, Pending
    <2> QED BY <1>2, <2>3, <2>5
  <1>7. \A c \in attempts : ~SameKey(c, a) => c \in attempts'
    BY <1>2 DEF SameKey
  <1>8. Knows(attempts', sent', now)
    BY <1>1, <1>2, <1>4, <1>6, <1>7, EndedKnow
  <1>9. Knows(disk.attempts, sent', now)
    BY <1>1, <1>2, <1>6, SameRelabels, EndedKnow
  <1>10. Ordered(sent')
    <2>1. \A i \in DOMAIN sent : sent'[i].started > 0
      BY <1>1, <1>5 DEF Ordered, SameHead
    <2>2. ASSUME NEW i \in DOMAIN sent, sent'[i].end # "open"
          PROVE  sent'[i].started <= sent'[i].ended
      BY <1>1, <1>5, <2>2 DEF Ordered, SameHead, SameKey
    <2>3. \A i, j \in DOMAIN sent : i # j => ~SameKey(sent'[i], sent'[j])
      BY <1>1, <1>5 DEF Ordered, SameHead, SameKey
    <2> QED BY <1>5, <2>1, <2>2, <2>3 DEF Ordered
  <1>11. Backed(attempts', disk.attempts, sent')
    BY <1>1, <1>2, <1>3, <1>5 DEF Backed, SameHead, SameKey
  <1>12. Limits(sent')
    BY <1>1, <1>2, EndedLimits DEF Knows
  <1> QED BY <1>8, <1>9, <1>10, <1>11, <1>12

\* A transmission of an attempt that meets the limits.
LEMMA TransmittedLimited ==
  ASSUME LimitInv, Transmit
  PROVE  /\ Knows(attempts, sent', now) /\ Ordered(sent') /\ Limits(sent')
         /\ disk.attempts = attempts
  <1>1. PICK a \in attempts : a.id = executing /\ sent' = Append(sent,
            [id |-> a.id, download |-> a.download, decision |-> a.decision,
             started |-> a.started, request |-> request, dryRun |-> cfg.dryRun,
             override |-> Override, end |-> "open", ended |-> 0])
    BY DEF Transmit
  <1> DEFINE s == [id |-> a.id, download |-> a.download, decision |-> a.decision,
                   started |-> a.started, request |-> request, dryRun |-> cfg.dryRun,
                   override |-> Override, end |-> "open", ended |-> 0]
             n == Len(sent) + 1
  <1>2. /\ sent \in Seq(Transmission) /\ pc = "intent" /\ disk.attempts = attempts
        /\ Knows(attempts, sent, now) /\ Ordered(sent) /\ Limits(sent)
        /\ Clear(sent, a, Override) /\ Apart(attempts) /\ Keyed(attempts)
    BY <1>1, TypeParts DEF LimitInv, FinalInv, ReplayInv, Sound, Intended, Transmit
  <1>3. Pending(a)
    BY <1>1, <1>2 DEF LimitInv, FinalInv, ReplayInv, UnderWay, Keyed
  <1>4. /\ SameAttempt(s, a) /\ s.end = "open" /\ s.override = Override
        /\ s.started = a.started /\ s.decision = a.decision /\ s.download = a.download
    BY DEF SameAttempt
  <1>5. sent' = Append(sent, s)
    BY <1>1
  <1> HIDE DEF s
  <1>6. DOMAIN sent = 1..Len(sent) /\ Len(sent) \in Nat
    BY <1>2, LenProperties
  <1>7. /\ DOMAIN sent' = 1..n /\ sent'[n] = s
        /\ \A i \in 1..Len(sent) : sent'[i] = sent[i]
    BY <1>2, <1>5, <1>6
  <1>8. \A i \in DOMAIN sent' : (i \in DOMAIN sent /\ i < n /\ sent'[i] = sent[i]) \/ i = n
    BY <1>6, <1>7
  <1>9. n \notin DOMAIN sent /\ n \in Nat /\ DOMAIN sent \subseteq Nat
    BY <1>6
  <1>10. Remembered(attempts, sent', now)
    <2>1. Matches(s, a)
      BY <1>3, <1>4 DEF Matches, Pending
    <2> QED BY <1>2, <1>7, <1>8, <2>1 DEF Knows, Remembered
  <1>11. Genuine(attempts, sent')
    BY <1>2, <1>4, <1>7, <1>8 DEF Knows, Genuine, Keyed, SameKey, SameAttempt
  <1>12. LastWord(attempts, sent')
    <2> SUFFICES ASSUME NEW i \in DOMAIN sent', NEW j \in DOMAIN sent', i < j,
                        Conflicting(sent'[i], sent'[j]), NEW b \in attempts, Pending(b),
                        SameKey(sent'[i], b)
                 PROVE  FALSE
      BY DEF LastWord
    <2>1. i \in DOMAIN sent /\ sent'[i] = sent[i]
      BY <1>7, <1>8, <1>9
    <2>2. CASE j = n
      <3>1. SameAttempt(sent[i], b)
        BY <1>2, <2>1 DEF Knows, Genuine, Pending
      <3>2. b # a
        BY <1>2, <2>1 DEF Clear, SameKey
      <3>3. ~Conflict(b, a.download, a.decision)
        BY <1>2, <1>3, <3>2 DEF Apart
      <3> QED BY <1>4, <1>7, <2>1, <2>2, <3>1, <3>3 DEF Conflict, Conflicting, SameAttempt
    <2>3. CASE j # n
      BY <1>2, <1>8, <2>1, <2>3 DEF Knows, LastWord
    <2> QED BY <2>2, <2>3
  <1>13. Ordered(sent')
    <2>1. s.started > 0 /\ s.end = "open"
      BY <1>2, <1>3, <1>4 DEF Knows, Timely, Pending
    <2>2. \A i \in DOMAIN sent : ~SameKey(sent[i], s) /\ ~SameKey(s, sent[i])
      BY <1>2, <1>4 DEF Clear, SameKey, SameAttempt
    <2> QED BY <1>2, <1>7, <1>8, <2>1, <2>2 DEF Ordered
  <1>14. ASSUME NEW j \in DOMAIN sent
         PROVE  /\ Windowed(sent', j, sent'[j]) = Windowed(sent, j, sent[j])
                /\ Imports(sent', j, sent'[j]) = Imports(sent, j, sent[j])
    <2>1. \A i \in 1..j : sent'[i] = sent[i]
      BY <1>6, <1>7
    <2>2. sent'[j] = sent[j]
      BY <1>6, <1>7
    <2> QED BY <2>1, <2>2 DEF Windowed, Imports
  <1>15. Cardinality(Windowed(sent', n, s)) <= HourLimit
    <2> DEFINE W == Windowed(sent, Len(sent), a)
               V == Windowed(sent', n, s)
    <2>1. V \in SUBSET (W \cup {Len(sent) + 1}) /\ W \in SUBSET (1..Len(sent))
      BY <1>4, <1>6, <1>7 DEF Windowed
    <2>2. Cardinality(W) < HourLimit /\ HourLimit \in Nat
      BY <1>2, RemediatorAssumption DEF Clear
    <2> HIDE DEF W, V
    <2>3. Cardinality(V) <= HourLimit
      BY <1>6, <2>1, <2>2, OneMore
    <2> QED BY <2>3 DEF V
  <1>16. Cardinality(Imports(sent', n, s)) <= MaxAttempts
    <2> DEFINE W == Imports(sent, Len(sent), a)
               V == Imports(sent', n, s)
    <2>1. V \in SUBSET (W \cup {Len(sent) + 1}) /\ W \in SUBSET (1..Len(sent))
      BY <1>4, <1>6, <1>7 DEF Imports, SameImport
    <2>2. MaxAttempts \in Nat
      BY RemediatorAssumption
    <2>3. CASE a.decision.kind = "import"
      <3>1. Cardinality(W) < MaxAttempts
        BY <1>2, <2>3 DEF Clear
      <3> HIDE DEF W, V
      <3>2. Cardinality(V) <= MaxAttempts
        BY <1>6, <2>1, <2>2, <3>1, OneMore
      <3> QED BY <3>2 DEF V
    <2>4. CASE a.decision.kind # "import"
      <3>1. V = {}
        BY <1>4, <2>4 DEF Imports, SameImport
      <3> HIDE DEF V
      <3>2. Cardinality(V) = 0
        BY <3>1, FS_EmptySet
      <3>3. Cardinality(V) <= MaxAttempts
        BY <2>2, <3>2
      <3> QED BY <3>3 DEF V
    <2> QED BY <2>3, <2>4
  <1>17. \A i \in DOMAIN sent : Cooled(sent[i], s, Override) /\ Retried(sent[i], s)
    BY <1>2, <1>4 DEF Clear, Cooled, Retried, Conflicting, SameImport
  <1>18. Limits(sent')
    <2> SUFFICES ASSUME NEW j \in DOMAIN sent'
                 PROVE  /\ Cardinality(Windowed(sent', j, sent'[j])) <= HourLimit
                        /\ Cardinality(Imports(sent', j, sent'[j])) <= MaxAttempts
                        /\ \A i \in DOMAIN sent' : i < j =>
                             /\ Cooled(sent'[i], sent'[j], sent'[j].override)
                             /\ Retried(sent'[i], sent'[j])
      BY DEF Limits
    <2>1. CASE j = n
      BY <1>4, <1>7, <1>8, <1>9, <1>15, <1>16, <1>17, <2>1
    <2>2. CASE j # n
      <3>1. j \in DOMAIN sent /\ sent'[j] = sent[j] /\ j < n
        BY <1>8, <2>2
      <3>2. \A i \in DOMAIN sent' : i < j => i \in DOMAIN sent /\ sent'[i] = sent[i]
        BY <1>8, <1>9, <3>1
      <3> QED BY <1>2, <1>14, <3>1, <3>2 DEF Limits
    <2> QED BY <2>1, <2>2
  <1>19. Knows(attempts, sent', now)
    BY <1>2, <1>10, <1>11, <1>12 DEF Knows
  <1> QED BY <1>2, <1>13, <1>18, <1>19

\* Each step keeps what both copies know, whatever it saves.
LEMMA LimitStep ==
  ASSUME LimitInv, [Next]_vars
  PROVE  LimitInv'
  <1>1. /\ FinalInv /\ FinalInv' /\ ReplayInv /\ ReplayInv' /\ PartsOK /\ disk \in Data
        /\ now \in Nat \ {0} /\ scanTime \in Nat /\ scanTime <= now
        /\ sent \in Seq(Transmission)
        /\ Keyed(attempts) /\ Keyed(attempts') /\ Keyed(disk.attempts)
    BY FinalStep, TypeParts DEF LimitInv, FinalInv, ReplayInv, Sound
  <1>2. /\ Knows(attempts, sent, now) /\ Knows(disk.attempts, sent, now) /\ Ordered(sent)
        /\ Backed(attempts, disk.attempts, sent) /\ Limits(sent)
    BY DEF LimitInv
  \* What is left to show of a step that may save.
  <1>3. ASSUME UNCHANGED <<now, sent>>, Knows(attempts', sent, now),
               Backed(attempts', disk.attempts, sent),
               UNCHANGED disk \/ SaveCommits \/ SaveFails,
               pc' \notin {"verify", "intent"}
        PROVE  LimitInv'
    <2>1. CASE disk' = disk
      BY <1>1, <1>2, <1>3, <2>1 DEF LimitInv
    <2>2. CASE disk'.attempts = attempts'
      <3>1. Backed(attempts', attempts', sent)
        BY DEF Backed, SameAttempt
      <3> QED BY <1>1, <1>2, <1>3, <2>2, <3>1 DEF LimitInv
    <2> QED BY <1>3, <2>1, <2>2 DEF SaveCommits, SaveFails, Snapshot
  <1>4. ASSUME UNCHANGED <<now, sent>>, Relabels(attempts', attempts), Lasts(attempts', attempts)
        PROVE  Knows(attempts', sent, now) /\ Backed(attempts', disk.attempts, sent)
    <2>1. Backed(attempts', disk.attempts, sent)
      BY <1>2, <1>4 DEF Backed, Relabels, Follows, SameKey, SameAttempt
    <2> QED BY <1>1, <1>2, <1>4, <2>1, RelabelledKnow
  <1>5. ASSUME UNCHANGED <<attempts, now, sent>>, UNCHANGED disk \/ SaveCommits \/ SaveFails,
               pc' \notin {"verify", "intent"}
        PROVE  LimitInv'
    BY <1>2, <1>3, <1>5
  <1>6. ASSUME NEW q, Scan(q) PROVE LimitInv'
    <2>1. /\ UNCHANGED <<now, attempts, disk, sent>> /\ scanTime' = now
          /\ pc' \in {"plan", "verify"}
      BY <1>6 DEF Scan
    <2> QED BY <1>1, <1>2, <2>1 DEF LimitInv, Knows, Timely
  <1>7. CASE ScanFails
    <2>1. /\ UNCHANGED <<now, sent>> /\ (SaveCommits \/ SaveFails)
          /\ pc' \notin {"verify", "intent"}
      BY <1>7 DEF ScanFails, SaveThen, AfterError
    <2>2. Relabels(attempts', attempts) /\ Lasts(attempts', attempts)
      BY <1>1, <1>7, ExpiredRelabels
    <2> QED BY <1>3, <1>4, <2>1, <2>2
  <1>8. CASE Verify
    <2>1. PICK a \in attempts :
            a.id \in todo /\ \E answer \in Answers(a) : Verified(a, answer[1], answer[2])
      BY <1>8 DEF Verify
    <2>2. PICK answer \in Answers(a) : Verified(a, answer[1], answer[2])
      BY <2>1
    <2>3. pc = "verify" /\ pc' \in {"plan", "verify"} /\ UNCHANGED <<now, disk, scanTime>>
      BY <1>8 DEF Verify
    <2>4. Pending(a)
      BY <1>1, <2>1, <2>3 DEF ReplayInv, ToVerify
    <2>5. Relabels(attempts', attempts)
      BY <1>1, <2>2, <2>4, VerifiedRelabels
    <2>6. \A b \in attempts' : b.started <= scanTime
      BY <2>3, <2>5 DEF LimitInv, Relabels, Follows, SameAttempt
    <2>7. CASE OutcomeAfter(a, answer[1], answer[2]) \in Final
      <3>1. /\ Knows(attempts', sent', now) /\ Knows(disk.attempts, sent', now)
            /\ Ordered(sent') /\ Backed(attempts', disk.attempts, sent') /\ Limits(sent')
        BY <1>1, <2>2, <2>3, <2>4, <2>7, EndedLimited
      <3> QED BY <1>1, <2>3, <2>6, <3>1 DEF LimitInv
    <2>8. CASE OutcomeAfter(a, answer[1], answer[2]) \notin Final
      <3>1. sent' = sent
        BY <2>2, <2>8 DEF Verified, Final
      <3>2. Lasts(attempts', attempts)
        BY <1>1, <2>2, <2>4, <2>8, VerifiedRelabels
      <3>3. Knows(attempts', sent, now) /\ Backed(attempts', disk.attempts, sent)
        BY <1>4, <2>3, <2>5, <3>1, <3>2
      <3> QED BY <1>1, <1>2, <2>3, <2>6, <3>1, <3>3 DEF LimitInv
    <2> QED BY <2>7, <2>8
  <1>9. ASSUME NEW i \in 1..MaxID, IsNextID(i) PROVE \A a \in attempts : a.id # i
    BY <1>1, <1>9, RemediatorAssumption DEF IsNextID, PartsOK, Attempt
  <1>10. ASSUME NEW d, NEW v, Recommend(d, v) PROVE LimitInv'
    <2>1. PICK i \in 1..MaxID : IsNextID(i) /\ attempts' = attempts \cup
            {[NewAttempt(i, d, v, scanTime) EXCEPT !.dryRun = TRUE, !.finished = scanTime,
                                                   !.outcome = "recommended"]}
      BY <1>10 DEF Recommend
    <2> DEFINE b == [NewAttempt(i, d, v, scanTime) EXCEPT
                       !.dryRun = TRUE, !.finished = scanTime, !.outcome = "recommended"]
    <2>2. b.id = i /\ b.started = scanTime /\ b.dryRun
      BY DEF NewAttempt
    <2>3. attempts' = attempts \cup {b}
      BY <2>1
    <2> HIDE DEF b
    <2>4. pc' = "plan" /\ UNCHANGED <<now, disk, sent>>
      BY <1>10 DEF Recommend
    <2>5. Knows(attempts', sent, now)
      BY <1>1, <1>2, <1>9, <2>1, <2>2, <2>3, AddedKnow
    <2>6. Backed(attempts', disk.attempts, sent)
      BY <1>2, <2>2, <2>3 DEF Backed, Pending
    <2> QED BY <1>3, <2>4, <2>5, <2>6
  <1>11. ASSUME NEW p \in plans, NEW v \in Decision, NEW parent, Gate(p.download, v, now, parent),
                \A a \in attempts :
                  a.id = parent => v.kind = "search" /\ a.decision.kind = "remove_unusable",
                Reserve(p, v), UNCHANGED <<now, request, sent>>
         PROVE  LimitInv'
    <2>1. PICK i \in 1..MaxID :
            /\ IsNextID(i) /\ executing' = i
            /\ attempts' = attempts \cup {NewAttempt(i, p.download, v, now)}
      BY <1>11 DEF Reserve
    <2> DEFINE b == NewAttempt(i, p.download, v, now)
    <2>2. b.id = i /\ b.started = now /\ b.download = p.download /\ b.decision = v /\ ~b.dryRun
      BY DEF NewAttempt
    <2>3. attempts' = attempts \cup {b}
      BY <2>1
    <2> HIDE DEF b
    <2>4. /\ Knows(attempts', sent, now)
          /\ \A k \in DOMAIN sent : ~SameKey(sent[k], b)
      <3>1. b.started \in Nat /\ b.started <= now /\ \A a \in attempts : a.id # b.id
        BY <1>1, <1>9, <2>1, <2>2
      <3>2. /\ Knows(attempts', sent, now)
            /\ \A k \in DOMAIN sent : b.dryRun \/ ~SameKey(sent[k], b)
        BY <1>1, <1>2, <2>2, <2>3, <3>1, AddedKnow
      <3> QED BY <2>2, <3>2
    <2>5. Backed(attempts', disk.attempts, sent)
      BY <1>2, <2>3, <2>4 DEF Backed
    <2>6. p.download \in Downloads
      BY TypeParts, <1>1 DEF ReplayInv, Plan
    <2>7. Clear(sent, b, Override)
      BY <1>11, <2>2, <2>4, <2>6, GateClears
    <2>8. \A a \in attempts' : a.id = executing' => a = b
      BY <1>9, <2>1, <2>2, <2>3
    <2>9. Override' = Override
      BY <1>11 DEF Override
    <2>10. CASE SaveCommits /\ pc' = "intent"
      <3>1. disk'.attempts = attempts' /\ Backed(attempts', attempts', sent)
        BY <2>10 DEF SaveCommits, Snapshot, Backed, SameAttempt
      <3> QED BY <1>1, <1>2, <1>11, <2>4, <2>7, <2>8, <2>9, <2>10, <3>1 DEF LimitInv
    <2>11. CASE SaveFails /\ pc' = AfterError
      BY <1>3, <1>11, <2>4, <2>5, <2>11 DEF AfterError
    <2> QED BY <1>11, <2>10, <2>11 DEF Reserve, SaveThen
  <1>12. ASSUME NEW p \in plans, Execute(p) PROVE LimitInv'
    <2>1. p.decision \in Decision /\ \A a \in attempts : a.id # 0
      BY <1>1, TypeParts DEF ReplayInv, Plan, PartsOK, Attempt
    <2> QED BY <1>11, <1>12, <2>1 DEF Execute
  <1>13. ASSUME NEW p \in plans, NEW targets \in SUBSET operations[p.download].episodes,
                Search(p, targets)
         PROVE  LimitInv'
    <2> DEFINE d == p.download
               v == SearchDecision(d, targets)
    <2>1. d \in Downloads
      BY <1>1, TypeParts DEF ReplayInv, Plan
    <2>2. SearchReady(d, v)
      BY <1>13 DEF Search
    <2>3. v \in Decision /\ v.kind = "search"
      BY <1>1, <2>1, <2>2, SearchDecisionType DEF SearchReady, SearchDecision
    <2>4. \A a \in attempts : a.id = operations[d].removal => a.decision.kind = "remove_unusable"
      BY <1>1, <2>2 DEF SearchReady, SearchPermitted, Parents, Keyed
    <2> HIDE DEF v
    <2>5. /\ Gate(d, v, now, operations[d].removal) /\ Reserve(p, v)
          /\ UNCHANGED <<now, request, sent>>
      BY <1>13, <2>2 DEF Search, SearchReady, v
    <2> QED BY <1>11, <2>3, <2>4, <2>5
  <1>14. CASE Transmit
    <2>1. /\ Knows(attempts, sent', now) /\ Ordered(sent') /\ Limits(sent')
          /\ disk.attempts = attempts
      BY <1>14, TransmittedLimited
    <2>2. UNCHANGED <<now, attempts, disk>> /\ pc' = "sent"
      BY <1>14 DEF Transmit, dataVars
    <2>3. Backed(attempts, attempts, sent')
      BY DEF Backed, SameAttempt
    <2> QED BY <1>1, <2>1, <2>2, <2>3 DEF LimitInv
  <1>15. ASSUME NEW ack \in BOOLEAN, Respond(ack) PROVE LimitInv'
    <2>1. /\ UNCHANGED <<now, sent>> /\ (SaveCommits \/ SaveFails)
          /\ pc' \notin {"verify", "intent"}
      BY <1>15 DEF Respond, SaveThen, AfterError
    <2>2. Relabels(attempts', attempts) /\ Lasts(attempts', attempts)
      BY <1>1, <1>15, RespondedRelabels
    <2> QED BY <1>3, <1>4, <2>1, <2>2
  <1>16. CASE EndCycle
    <2>1. /\ Prune(scanTime) /\ UNCHANGED <<now, sent>> /\ (SaveCommits \/ SaveFails)
          /\ pc' \notin {"verify", "intent"}
      BY <1>16 DEF EndCycle, SaveThen, AfterError
    <2>2. Knows(attempts', sent, now)
      BY <1>1, <1>2, <2>1, PrunedKnow
    <2>3. Backed(attempts', disk.attempts, sent)
      BY <1>2, <2>1 DEF Backed, Prune
    <2> QED BY <1>3, <2>1, <2>2, <2>3
  <1>17. CASE (\E c \in Configs : Open(c)) \/ Crash
    <2>1. Relabels(attempts', disk.attempts) /\ Lasts(attempts', disk.attempts)
      BY <1>1, <1>17, RecoveredRelabels, SameRelabels DEF Open, Crash, Forget
    <2>2. UNCHANGED <<now, sent>> /\ (UNCHANGED disk \/ SaveCommits) /\ pc' \in {"idle", "down"}
      BY <1>17 DEF Open, Crash
    <2>3. Knows(attempts', sent, now)
      BY <1>1, <1>2, <2>1, RelabelledKnow
    <2>4. Backed(attempts', disk.attempts, sent)
      BY <2>1 DEF Backed, Relabels, Follows, SameAttempt
    <2> QED BY <1>3, <2>2, <2>3, <2>4
  <1>18. ASSUME NEW d, \/ EndContinuation(d) \/ SearchUnreadable(d)
                       \/ \E v : Select(d, v)
                       \/ \E targets : SelectSearch(d, targets)
         PROVE  LimitInv'
    BY <1>5, <1>18 DEF EndContinuation, SearchUnreadable, Select, SelectSearch, dataVars
  <1>19. CASE (\E p \in plans : Skip(p)) \/ PlanDone \/ CycleRefused
    BY <1>5, <1>19 DEF Skip, PlanDone, CycleRefused, AfterError, dataVars
  <1>20. CASE (\E r \in Requests : Accept(r)) \/ FinishTrigger \/ Stop \/ Exit
    BY <1>5, <1>20 DEF Accept, FinishTrigger, Stop, Exit, dataVars
  <1>21. CASE Tick
    <2>1. /\ UNCHANGED <<attempts, disk, sent, pc, scanTime, executing, request>>
          /\ now' = now + 1
      BY <1>21 DEF Tick, dataVars, cycleVars
    <2>2. Knows(attempts, sent, now') /\ Knows(disk.attempts, sent, now')
      BY <1>1, <1>2, <2>1, LaterKnow DEF PartsOK, Data
    <2> QED BY <1>1, <1>2, <2>1, <2>2 DEF LimitInv, Override
  <1>22. CASE UNCHANGED vars
    <2>1. UNCHANGED <<attempts, disk, sent, pc, scanTime, executing, request, now>>
      BY <1>22 DEF vars, dataVars, cycleVars
    <2> QED BY <1>1, <1>2, <2>1 DEF LimitInv, Override
  <1> QED BY <1>6, <1>7, <1>8, <1>10, <1>12, <1>13, <1>14, <1>15, <1>16, <1>17, <1>18, <1>19,
             <1>20, <1>21, <1>22 DEF Next, Observe

LEMMA LimitInvariant == Spec => []LimitInv
  BY LimitInit, LimitStep, PTL DEF Spec

\* The properties that follow.
LEMMA InvLimits ==
  ASSUME LimitInv
  PROVE  /\ HourlyBudget /\ AttemptCap /\ CooldownRespected
         /\ RetryInterval <= Retention => RetryRespected
  BY LimitsMean DEF LimitInv, FinalInv, ReplayInv

\* In no rolling hour more is sent than Config.Limits.MutationsPerHour allows:
\* the budget counts attempts, which crashes, failed saves, restarts and any
\* retention leave as many as were sent (Budget, Prune).
THEOREM BudgetHolds == Spec => []HourlyBudget
  BY InvLimits, LimitInvariant, PTL

\* An unchanged candidate is imported no more often than
\* Config.Recovery.MaxAttempts allows while its attempts are retained (gate).
THEOREM CapHolds == Spec => []AttemptCap
  BY InvLimits, LimitInvariant, PTL

\* After a verified outcome its download and episodes are left alone for
\* Config.Limits.EpisodeCooldown, however late it was verified (gate, verify).
THEOREM CooldownHolds == Spec => []CooldownRespected
  BY InvLimits, LimitInvariant, PTL

\* Where the retention covers Config.Recovery.RetryInterval, it separates the
\* imports of one candidate (gate, Prune).
THEOREM RetryHolds == ASSUME RetryInterval <= Retention PROVE Spec => []RetryRespected
  BY InvLimits, LimitInvariant, PTL

----------------------------------------------------------------------------
(* Manual requests.  What a request sent is remembered until the request has *)
(* expired, and an attempt that is remembered keeps its receipt.             *)

\* The attempts that tell of a transmission name the request that sent it.
Signed(A, S) ==
  \A i \in DOMAIN S : \A a \in A :
    ~a.dryRun /\ SameKey(S[i], a) => a.request = S[i].request

\* No request outlasts the hour of what it sends.
ExpiresWithin(r, t) == r # Background => Expires[r] <= t + Hour
Dated(S) == \A i \in DOMAIN S : ExpiresWithin(S[i].request, S[i].started)

OnceInv ==
  /\ LimitInv /\ ReceiptInv
  /\ Signed(attempts, sent) /\ Signed(disk.attempts, sent) /\ Dated(sent)
  /\ ExpiresWithin(request, now)
  /\ pc = "intent" => \A a \in attempts : a.id = executing =>
                        a.request = request /\ ExpiresWithin(request, a.started)

LEMMA OnceInit == Init => OnceInv
  BY LimitInit, ReceiptInit DEF Init, StoreInit, Snapshot, OnceInv, Signed, Dated, ExpiresWithin

\* A request is signed by what relabels what signed it.
LEMMA RelabelledSigned ==
  ASSUME NEW A, NEW B, NEW S, Signed(A, S), Relabels(B, A)
  PROVE  Signed(B, S)
  BY DEF Signed, Relabels, Follows, SameKey, SameAttempt

\* Of what is accepted nothing was sent: a transmission of an unexpired request
\* is remembered by an attempt, and the attempt by the receipt of the request.
LEMMA AcceptedUnsent ==
  ASSUME OnceInv, NEW r \in Requests, Accept(r), NEW i \in DOMAIN sent
  PROVE  sent[i].request # r
  <1> SUFFICES ASSUME sent[i].request = r PROVE FALSE
    OBVIOUS
  <1>1. /\ triggers[r].status = "none" /\ now < Expires[r]
        /\ Expires[r] \in Nat /\ now \in Nat /\ r # Background
    BY TypeParts, RemediatorAssumption, StoreAssumption
       DEF Accept, Acceptable, Valid, OnceInv, LimitInv, FinalInv, ReplayInv
  <1>2. sent[i].started \in Nat /\ Hour \in Nat
    <2>1. sent \in Seq(Transmission)
      BY TypeParts DEF OnceInv, LimitInv, FinalInv, ReplayInv
    <2>2. sent[i] \in Transmission
      BY <2>1
    <2> QED BY <2>2, StoreAssumption DEF Transmission
  <1>3. Expires[r] <= sent[i].started + Hour
    BY <1>1 DEF OnceInv, Dated, ExpiresWithin
  <1>4. ~Past(sent[i], now)
    <2>1. ~(sent[i].started + Hour <= now)
      BY <1>1, <1>2, <1>3
    <2> QED BY <2>1 DEF Past
  <1>5. PICK a \in attempts : Matches(sent[i], a)
    BY <1>4 DEF OnceInv, LimitInv, Knows, Remembered
  <1>6. a.request = r
    BY <1>5 DEF OnceInv, Signed, Matches, SameAttempt, SameKey
  <1> QED BY <1>1, <1>5, <1>6 DEF OnceInv, ReceiptInv, Named

\* A transmission is signed by the attempt it is made of, and by no other.
LEMMA TransmittedSigned ==
  ASSUME OnceInv, Transmit
  PROVE  Signed(attempts, sent') /\ Signed(disk.attempts, sent') /\ Dated(sent')
  <1>1. PICK a \in attempts : a.id = executing /\ sent' = Append(sent,
            [id |-> a.id, download |-> a.download, decision |-> a.decision,
             started |-> a.started, request |-> request, dryRun |-> cfg.dryRun,
             override |-> Override, end |-> "open", ended |-> 0])
    BY DEF Transmit
  <1> DEFINE s == [id |-> a.id, download |-> a.download, decision |-> a.decision,
                   started |-> a.started, request |-> request, dryRun |-> cfg.dryRun,
                   override |-> Override, end |-> "open", ended |-> 0]
             n == Len(sent) + 1
  <1>2. /\ sent \in Seq(Transmission) /\ pc = "intent" /\ Keyed(attempts)
        /\ disk.attempts = attempts
    BY TransmittedLimited, TypeParts
       DEF OnceInv, LimitInv, FinalInv, ReplayInv, Sound, Transmit
  <1>3. s.id = a.id /\ s.started = a.started /\ s.request = request
    OBVIOUS
  <1>4. a.request = request /\ ExpiresWithin(request, a.started)
    BY <1>1, <1>2 DEF OnceInv
  <1>5. sent' = Append(sent, s)
    BY <1>1
  <1> HIDE DEF s
  <1>6. /\ DOMAIN sent = 1..Len(sent) /\ DOMAIN sent' = 1..n /\ Len(sent) \in Nat
        /\ sent'[n] = s /\ \A i \in 1..Len(sent) : sent'[i] = sent[i]
    <2>1. Len(sent) \in Nat /\ Len(sent') = n /\ DOMAIN sent = 1..Len(sent)
      BY <1>2, <1>5, LenProperties
    <2>2. DOMAIN sent' = 1..n
      BY <1>2, <1>5, <2>1
    <2>3. sent'[n] = s /\ \A i \in 1..Len(sent) : sent'[i] = sent[i]
      BY <1>2, <1>5, <2>1
    <2> QED BY <2>1, <2>2, <2>3
  <1>7. \A i \in DOMAIN sent' : i \in DOMAIN sent \/ i = n
    BY <1>6
  <1>8. Signed(attempts, sent')
    <2> SUFFICES ASSUME NEW i \in DOMAIN sent', NEW b \in attempts, ~b.dryRun,
                        SameKey(sent'[i], b)
                 PROVE  b.request = sent'[i].request
      BY DEF Signed
    <2>1. CASE i \in DOMAIN sent
      BY <1>6, <2>1 DEF OnceInv, Signed
    <2>2. CASE i = n
      BY <1>2, <1>3, <1>4, <1>6, <2>2 DEF Keyed, SameKey
    <2> QED BY <1>7, <2>1, <2>2
  <1>9. Dated(sent')
    <2> SUFFICES ASSUME NEW i \in DOMAIN sent'
                 PROVE  ExpiresWithin(sent'[i].request, sent'[i].started)
      BY DEF Dated
    <2>1. CASE i \in DOMAIN sent
      BY <1>6, <2>1 DEF OnceInv, Dated
    <2>2. CASE i = n
      BY <1>3, <1>4, <1>6, <2>2
    <2> QED BY <1>7, <2>1, <2>2
  <1> QED BY <1>2, <1>8, <1>9

LEMMA OnceStep ==
  ASSUME OnceInv, [Next]_vars
  PROVE  OnceInv'
  <1>1. /\ LimitInv /\ LimitInv' /\ ReceiptInv /\ ReceiptInv' /\ ReplayInv /\ PartsOK
        /\ disk \in Data /\ now \in Nat \ {0} /\ sent \in Seq(Transmission) /\ Keyed(attempts)
        /\ Hour \in Nat
    BY LimitStep, ReceiptStep, TypeParts, StoreAssumption
       DEF OnceInv, LimitInv, FinalInv, ReplayInv, Sound
  <1>2. /\ Signed(attempts, sent) /\ Signed(disk.attempts, sent) /\ Dated(sent)
        /\ ExpiresWithin(request, now)
    BY DEF OnceInv
  \* What is left to show of a step that sends nothing and may save.
  <1>3. ASSUME UNCHANGED <<now, sent>>, Signed(attempts', sent),
               UNCHANGED disk \/ SaveCommits \/ SaveFails, ExpiresWithin(request', now),
               pc' # "intent"
        PROVE  OnceInv'
    <2>1. disk'.attempts = disk.attempts \/ disk'.attempts = attempts'
      BY <1>3 DEF SaveCommits, SaveFails, Snapshot
    <2> QED BY <1>1, <1>2, <1>3, <2>1 DEF OnceInv
  <1>4. ASSUME UNCHANGED <<now, sent>>, Relabels(attempts', attempts),
               UNCHANGED disk \/ SaveCommits \/ SaveFails,
               request' \in {request, Background}, pc' # "intent"
        PROVE  OnceInv'
    <2>1. Signed(attempts', sent) /\ ExpiresWithin(request', now)
      BY <1>2, <1>4, RelabelledSigned DEF ExpiresWithin
    <2> QED BY <1>3, <1>4, <2>1
  <1>5. ASSUME UNCHANGED <<attempts, now, sent>>, UNCHANGED disk \/ SaveCommits \/ SaveFails,
               request' \in {request, Background}, pc' # "intent"
        PROVE  OnceInv'
    BY <1>4, <1>5, SameRelabels
  <1>6. CASE ScanFails
    <2>1. /\ UNCHANGED <<now, sent, request>> /\ (SaveCommits \/ SaveFails) /\ pc' # "intent"
      BY <1>6 DEF ScanFails, SaveThen, AfterError, cycleVars
    <2> QED BY <1>1, <1>4, <1>6, <2>1, ExpiredRelabels
  <1>7. CASE Verify
    <2>1. PICK a \in attempts :
            a.id \in todo /\ \E answer \in Answers(a) : Verified(a, answer[1], answer[2])
      BY <1>7 DEF Verify
    <2>2. PICK answer \in Answers(a) : Verified(a, answer[1], answer[2])
      BY <2>1
    <2>3. pc = "verify" /\ pc' \in {"plan", "verify"} /\ UNCHANGED <<now, disk, request>>
      BY <1>7 DEF Verify
    <2>4. Pending(a)
      BY <1>1, <2>1, <2>3 DEF ReplayInv, ToVerify
    <2>5. Signed(attempts', sent)
      BY <1>1, <1>2, <2>2, <2>4, VerifiedRelabels, RelabelledSigned
    <2>6. DOMAIN sent' = DOMAIN sent /\ \A i \in DOMAIN sent : SameHead(sent'[i], sent[i])
      <3>1. CASE sent' = sent
        BY <3>1 DEF SameHead
      <3>2. ASSUME NEW outcome \in {"verified", "submitted", "failed"}, Settle(a, outcome)
            PROVE  DOMAIN sent' = DOMAIN sent /\ \A i \in DOMAIN sent : SameHead(sent'[i], sent[i])
        BY <1>1, <3>2, SettleKeepsHeads
      <3> QED BY <2>2, <3>1, <3>2 DEF Verified
    <2>7. Signed(attempts', sent') /\ Signed(disk.attempts, sent') /\ Dated(sent')
      BY <1>2, <2>5, <2>6 DEF Signed, Dated, SameHead, SameKey
    <2> QED BY <1>1, <1>2, <2>3, <2>7 DEF OnceInv
  <1>8. ASSUME NEW i \in 1..MaxID, IsNextID(i) PROVE \A a \in attempts : a.id # i
    BY <1>1, <1>8, RemediatorAssumption DEF IsNextID, PartsOK, Attempt
  <1>9. ASSUME NEW d, NEW v, Recommend(d, v) PROVE OnceInv'
    <2>1. PICK i \in 1..MaxID : attempts' = attempts \cup
            {[NewAttempt(i, d, v, scanTime) EXCEPT !.dryRun = TRUE, !.finished = scanTime,
                                                   !.outcome = "recommended"]}
      BY <1>9 DEF Recommend
    <2> DEFINE b == [NewAttempt(i, d, v, scanTime) EXCEPT
                       !.dryRun = TRUE, !.finished = scanTime, !.outcome = "recommended"]
    <2>2. b.dryRun /\ attempts' = attempts \cup {b}
      BY <2>1 DEF NewAttempt
    <2> HIDE DEF b
    <2>3. Signed(attempts', sent)
      BY <1>2, <2>2 DEF Signed
    <2> QED BY <1>2, <1>3, <1>9, <2>3 DEF Recommend, cycleVars
  <1>10. ASSUME NEW p, NEW v, Reserve(p, v), UNCHANGED <<now, request, sent>>
         PROVE  OnceInv'
    <2>1. PICK i \in 1..MaxID :
            /\ IsNextID(i) /\ executing' = i
            /\ attempts' = attempts \cup {NewAttempt(i, p.download, v, now)}
      BY <1>10 DEF Reserve
    <2> DEFINE b == NewAttempt(i, p.download, v, now)
    <2>2. b.id = i /\ b.started = now /\ b.request = request /\ ~b.dryRun
      BY DEF NewAttempt
    <2>3. attempts' = attempts \cup {b}
      BY <2>1
    <2> HIDE DEF b
    <2>4. \A k \in DOMAIN sent : ~SameKey(sent[k], b)
      <3>1. b.started \in Nat /\ b.started <= now /\ \A a \in attempts : a.id # b.id
        BY <1>1, <1>8, <2>1, <2>2
      <3> QED BY <1>1, <2>2, <2>3, <3>1, AddedKnow DEF LimitInv
    <2>5. Signed(attempts', sent)
      BY <1>2, <2>3, <2>4 DEF Signed
    <2>6. \A a \in attempts' : a.id = executing' => a = b
      BY <1>8, <2>1, <2>2, <2>3
    <2>7. CASE SaveCommits /\ pc' = "intent"
      <3>1. disk'.attempts = attempts'
        BY <2>7 DEF SaveCommits, Snapshot
      <3> QED BY <1>1, <1>2, <1>10, <2>2, <2>5, <2>6, <3>1 DEF OnceInv
    <2>8. CASE SaveFails /\ pc' = AfterError
      BY <1>2, <1>3, <1>10, <2>5, <2>8 DEF AfterError
    <2> QED BY <1>10, <2>7, <2>8 DEF Reserve, SaveThen
  <1>11. ASSUME NEW p, Execute(p) \/ \E targets : Search(p, targets) PROVE OnceInv'
    BY <1>10, <1>11 DEF Execute, Search
  <1>12. CASE Transmit
    <2>1. UNCHANGED <<now, attempts, disk, request>> /\ pc' = "sent"
      BY <1>12 DEF Transmit, dataVars, cycleVars
    <2> QED BY <1>1, <1>2, <1>12, <2>1, TransmittedSigned DEF OnceInv
  <1>13. ASSUME NEW ack \in BOOLEAN, Respond(ack) PROVE OnceInv'
    <2>1. UNCHANGED <<now, sent, request>> /\ (SaveCommits \/ SaveFails) /\ pc' # "intent"
      BY <1>13 DEF Respond, SaveThen, AfterError
    <2> QED BY <1>1, <1>4, <1>13, <2>1, RespondedRelabels
  <1>14. CASE EndCycle
    <2>1. /\ Prune(scanTime) /\ UNCHANGED <<now, sent, request>> /\ (SaveCommits \/ SaveFails)
          /\ pc' # "intent"
      BY <1>14 DEF EndCycle, SaveThen, AfterError
    <2>2. Signed(attempts', sent)
      BY <1>2, <2>1 DEF Signed, Prune
    <2> QED BY <1>2, <1>3, <2>1, <2>2
  <1>15. ASSUME NEW r \in Requests, Accept(r) PROVE OnceInv'
    <2>1. UNCHANGED <<now, attempts, sent>> /\ request' = r /\ pc' = "scan" /\ SaveCommits
      BY <1>15 DEF Accept
    <2>2. Expires[r] \in Nat /\ RequestSpan \in Nat /\ RequestSpan <= Hour
          /\ Expires[r] <= now + RequestSpan
      BY <1>15, RemediatorAssumption DEF Accept, Acceptable, Valid
    <2>3. ExpiresWithin(r, now)
      BY <1>1, <2>2 DEF ExpiresWithin
    <2> QED BY <1>2, <1>3, <2>1, <2>3
  <1>16. CASE (\E c \in Configs : Open(c)) \/ Crash
    <2>1. Relabels(attempts', disk.attempts)
      BY <1>1, <1>16, RecoveredRelabels, SameRelabels DEF Open, Crash, Forget, ReplayInv
    <2>2. /\ UNCHANGED <<now, sent>> /\ (UNCHANGED disk \/ SaveCommits)
          /\ pc' \in {"idle", "down"} /\ request' \in {request, Background}
      BY <1>16 DEF Open, Crash, cycleVars
    <2>3. Signed(attempts', sent) /\ ExpiresWithin(request', now)
      BY <1>2, <2>1, <2>2, RelabelledSigned DEF ExpiresWithin
    <2> QED BY <1>3, <2>2, <2>3
  <1>17. ASSUME NEW d, \/ EndContinuation(d) \/ SearchUnreadable(d)
                       \/ \E v : Select(d, v)
                       \/ \E targets : SelectSearch(d, targets)
         PROVE  OnceInv'
    BY <1>5, <1>17 DEF EndContinuation, SearchUnreadable, Select, SelectSearch, dataVars, cycleVars
  <1>18. CASE (\E p \in plans : Skip(p)) \/ PlanDone \/ CycleRefused \/ \E q : Scan(q)
    BY <1>5, <1>18 DEF Skip, PlanDone, CycleRefused, AfterError, Scan, dataVars
  <1>19. CASE FinishTrigger \/ Stop \/ Exit
    BY <1>5, <1>19 DEF FinishTrigger, Stop, Exit, dataVars, cycleVars
  <1>20. CASE Tick
    <2>1. /\ UNCHANGED <<attempts, disk, sent, pc, executing, request>> /\ now' = now + 1
      BY <1>20 DEF Tick, dataVars, cycleVars
    <2>2. ExpiresWithin(request, now + 1)
      <3>1. request \in Requests \cup {Background}
        BY <1>1, TypeParts DEF ReplayInv
      <3>2. request # Background => Expires[request] \in Nat
        BY <3>1, RemediatorAssumption
      <3> QED BY <1>1, <1>2, <3>2 DEF ExpiresWithin
    <2> QED BY <1>1, <1>2, <2>1, <2>2 DEF OnceInv
  <1>21. CASE UNCHANGED vars
    <2>1. UNCHANGED <<attempts, disk, sent, pc, executing, request, now>>
      BY <1>21 DEF vars, dataVars, cycleVars
    <2> QED BY <1>1, <1>2, <2>1 DEF OnceInv
  <1> QED BY <1>6, <1>7, <1>9, <1>11, <1>12, <1>13, <1>14, <1>15, <1>16, <1>17, <1>18, <1>19,
             <1>20, <1>21 DEF Next, Observe

\* Only an acceptance gives a cycle a request.
LEMMA RequestsAccepted ==
  ASSUME [Next]_vars, NEW r \in Requests, request' = r, request # r
  PROVE  Accept(r)
  <1>1. r # Background
    BY StoreAssumption
  <1>2. ASSUME UNCHANGED request \/ request' = Background PROVE FALSE
    BY <1>1, <1>2
  <1>3. ASSUME NEW q, Accept(q) PROVE q = r
    BY <1>3 DEF Accept
  <1>4. ASSUME NEW q, Scan(q) PROVE FALSE
    BY <1>2, <1>4 DEF Scan
  <1>5. CASE ScanFails \/ CycleRefused \/ Verify \/ PlanDone \/ Transmit \/ EndCycle
    BY <1>2, <1>5 DEF ScanFails, CycleRefused, Verify, PlanDone, Transmit, EndCycle, cycleVars
  <1>6. ASSUME NEW d, NEW v, Select(d, v) \/ Recommend(d, v) \/ SelectSearch(d, v)
        PROVE  FALSE
    BY <1>2, <1>6 DEF Select, Recommend, SelectSearch, cycleVars
  <1>7. ASSUME NEW d, EndContinuation(d) \/ SearchUnreadable(d) PROVE FALSE
    BY <1>2, <1>7 DEF EndContinuation, SearchUnreadable, cycleVars
  <1>8. ASSUME NEW p, NEW targets, Skip(p) \/ Execute(p) \/ Search(p, targets)
        PROVE  FALSE
    BY <1>2, <1>8 DEF Skip, Execute, Search
  <1>9. ASSUME NEW ack, Respond(ack) PROVE FALSE
    BY <1>2, <1>9 DEF Respond
  <1>10. ASSUME NEW c, Open(c) PROVE FALSE
    BY <1>2, <1>10 DEF Open, cycleVars
  <1>11. CASE FinishTrigger \/ Exit \/ Stop \/ Crash \/ Tick \/ UNCHANGED vars
    BY <1>2, <1>11 DEF FinishTrigger, Exit, Stop, Crash, Tick, vars, cycleVars
  <1> QED BY <1>3, <1>4, <1>5, <1>6, <1>7, <1>8, <1>9, <1>10, <1>11 DEF Next, Observe

\* A manual request that has sent something is never executed again, over
\* crashes, failed saves, repeats and pruning: its receipt lasts as long as
\* what it sent, and that longer than the request (Manual, Validate, Prune).
THEOREM RequestsSendOnce == Spec => ManualOnce
  <1>1. OnceInv /\ [Next]_vars =>
          [\A r \in Requests : request' = r /\ request # r =>
             \A i \in DOMAIN sent : sent[i].request # r]_vars
    BY RequestsAccepted, AcceptedUnsent
  <1>2. OnceInv /\ [Next]_vars => OnceInv'
    BY OnceStep
  <1> QED BY <1>1, <1>2, OnceInit, PTL DEF Spec, ManualOnce

----------------------------------------------------------------------------
(* Searches.  Every search was permitted by a verified removal of its own:  *)
(* one that is still due has a removal that no search was sent for.         *)

\* Something about a removal is only known once it was sent and acknowledged.
Heard(A, S) ==
  \A a \in A : ~a.dryRun /\ IsRemoval(a) /\ (a.ack \/ a.evidence) =>
    \E i \in DOMAIN S : SameKey(S[i], a)

Searches(S, d, n) == {i \in 1..n : S[i].download = d /\ S[i].decision.kind = "search"}
Removed(S, d, n) ==
  {i \in 1..n : /\ S[i].download = d /\ S[i].end = "verified"
                /\ S[i].decision.kind = "remove_unusable"}

\* Removals that the attempts A no longer have to verify.
Known(A, S, d) ==
  {i \in Removed(S, d, Len(S)) : \A a \in A : Pending(a) => ~SameKey(S[i], a)}
Searching(A, d) == \E a \in A : Pending(a) /\ a.download = d /\ a.decision.kind = "search"
Owed(A, O, d) == Due(O, d) /\ ~Searching(A, d)

Paid(A, O, S) ==
  \A d \in Downloads :
    /\ Cardinality(Searches(S, d, Len(S))) <= Cardinality(Known(A, S, d))
    /\ Owed(A, O, d) => Cardinality(Searches(S, d, Len(S))) < Cardinality(Known(A, S, d))

Follow(S) ==
  \A j \in DOMAIN S :
    S[j].decision.kind = "search" =>
      Cardinality(Searches(S, S[j].download, j)) <= Cardinality(Removed(S, S[j].download, j))

SearchInv ==
  /\ LimitInv
  /\ Heard(attempts, sent) /\ Heard(disk.attempts, sent)
  /\ Paid(attempts, operations, sent) /\ Paid(disk.attempts, disk.operations, sent)
  /\ Follow(sent)
  /\ pc = "intent" => \A a \in attempts :
       a.id = executing /\ a.decision.kind = "search" =>
         Cardinality(Searches(sent, a.download, Len(sent))) <
           Cardinality(Known(attempts, sent, a.download))
  /\ pc = "sent" => \A a \in attempts :
       a.id = executing => \E i \in DOMAIN sent : SameKey(sent[i], a)

LEMMA SearchInit == Init => SearchInv
  <1> SUFFICES ASSUME Init PROVE SearchInv
    OBVIOUS
  <1>1. /\ attempts = {} /\ disk.attempts = {} /\ sent = <<>> /\ pc = "down"
        /\ \A d \in Downloads : ~Due(operations, d) /\ ~Due(disk.operations, d)
    BY DEF Init, StoreInit, Snapshot, Due, NoOperation
  <1>2. Heard({}, sent) /\ Follow(sent)
    BY <1>1 DEF Heard, Follow
  <1>3. \A d \in Downloads : Searches(sent, d, Len(sent)) = {} /\ Known({}, sent, d) = {}
    BY <1>1 DEF Searches, Known, Removed
  <1>4. Paid({}, operations, sent) /\ Paid({}, disk.operations, sent)
    <2>1. \A d \in Downloads : /\ Cardinality(Searches(sent, d, Len(sent))) = 0
                             /\ Cardinality(Known({}, sent, d)) = 0
      BY <1>3, FS_EmptySet
    <2> QED BY <1>1, <2>1 DEF Paid, Owed
  <1> QED BY <1>1, <1>2, <1>4, LimitInit DEF SearchInv

\* B tells of a removal no more than A does.
Heeds(B, A) ==
  \A b \in B : \E a \in A :
    /\ SameAttempt(a, b) /\ b.dryRun = a.dryRun
    /\ b.ack \/ b.evidence => a.ack \/ a.evidence \/ ~IsRemoval(a)

LEMMA HeedsHeard ==
  ASSUME NEW A, NEW B, NEW S, Heeds(B, A), Heard(A, S)
  PROVE  Heard(B, S)
  BY DEF Heeds, Heard, SameAttempt, SameKey, IsRemoval

\* expirePending.
LEMMA ExpiredHeeds ==
  ASSUME PartsOK, ScanFails
  PROVE  Heeds(attempts', attempts)
  <1> DEFINE expired == {a \in attempts : /\ Pending(a) /\ a.outcome # "partial"
                                          /\ Overdue(a, now)}
             After(a) == IF a \in expired THEN [a EXCEPT !.outcome = "uncertain"] ELSE a
  <1>1. attempts' = {After(a) : a \in attempts}
    BY DEF ScanFails
  <1>2. ASSUME NEW a \in attempts
        PROVE  /\ SameAttempt(a, After(a)) /\ After(a).dryRun = a.dryRun
               /\ After(a).ack = a.ack /\ After(a).evidence = a.evidence
    <2>1. CASE a \in expired
      <3>1. a \in Attempt /\ After(a) = [a EXCEPT !.outcome = "uncertain"]
        BY <2>1 DEF PartsOK
      <3> HIDE DEF After
      <3> QED BY <3>1 DEF Attempt, SameAttempt
    <2>2. CASE a \notin expired
      <3>1. After(a) = a
        BY <2>2
      <3> QED BY <3>1 DEF SameAttempt
    <2> QED BY <2>1, <2>2
  <1> HIDE DEF After
  <1> QED BY <1>1, <1>2 DEF Heeds

\* Open.
LEMMA RecoveredHeeds ==
  ASSUME disk \in Data, Recover
  PROVE  Heeds(attempts', disk.attempts)
  <1>1. attempts' = {Interrupted(a) : a \in disk.attempts}
    BY DEF Recover, Recovered
  <1>2. ASSUME NEW a \in disk.attempts
        PROVE  /\ SameAttempt(a, Interrupted(a)) /\ Interrupted(a).dryRun = a.dryRun
               /\ Interrupted(a).ack = a.ack /\ Interrupted(a).evidence = a.evidence
    <2>1. a \in Attempt
      BY DEF Data
    <2> QED BY <2>1 DEF Interrupted, Attempt, SameAttempt
  <1> QED BY <1>1, <1>2 DEF Heeds

\* verify: the evidence for a removal needs its acknowledgement.
LEMMA VerifiedHeeds ==
  ASSUME PartsOK, NEW a \in attempts, NEW command, NEW reading, Verified(a, command, reading)
  PROVE  Heeds(attempts', attempts)
  <1> DEFINE f == IF OutcomeAfter(a, command, reading) \in {"verified", "submitted", "failed"}
                  THEN scanTime ELSE a.finished
             b == [a EXCEPT !.outcome = OutcomeAfter(a, command, reading),
                            !.evidence = Evidence(a, command, reading), !.finished = f]
  <1>1. a \in Attempt
    BY DEF PartsOK
  <1>2. attempts' = (attempts \ {a}) \cup {b}
    BY DEF Verified
  <1>3. /\ SameAttempt(a, b) /\ b.dryRun = a.dryRun /\ b.ack = a.ack
        /\ b.evidence = Evidence(a, command, reading)
    BY <1>1 DEF Attempt, SameAttempt
  <1> HIDE DEF b
  <1>4. IsRemoval(a) /\ Evidence(a, command, reading) => a.evidence \/ a.ack
    BY DEF Evidence, IsRemoval, Removals
  <1>5. \A c \in attempts : SameAttempt(c, c)
    BY DEF SameAttempt
  <1> QED BY <1>2, <1>3, <1>4, <1>5 DEF Heeds

\* What is known and owed decides whether all searches are paid for.
LEMMA PaidFrom ==
  ASSUME NEW A, NEW B, NEW O, NEW P, NEW S, NEW T, NEW d,
         Len(S) \in Nat, Len(T) = Len(S),
         Searches(T, d, Len(T)) = Searches(S, d, Len(S)),
         Known(A, S, d) \subseteq Known(B, T, d),
         Owed(B, P, d) => Owed(A, O, d),
         /\ Cardinality(Searches(S, d, Len(S))) <= Cardinality(Known(A, S, d))
         /\ Owed(A, O, d) => Cardinality(Searches(S, d, Len(S))) < Cardinality(Known(A, S, d))
  PROVE  /\ Cardinality(Searches(T, d, Len(T))) <= Cardinality(Known(B, T, d))
         /\ Owed(B, P, d) => Cardinality(Searches(T, d, Len(T))) < Cardinality(Known(B, T, d))
  <1>1. /\ Known(A, S, d) \in SUBSET (1..Len(S)) /\ Known(B, T, d) \in SUBSET (1..Len(S))
        /\ Searches(S, d, Len(S)) \in SUBSET (1..Len(S))
    BY DEF Known, Removed, Searches
  <1>2. /\ IsFiniteSet(Known(B, T, d)) /\ Cardinality(Known(B, T, d)) \in Nat
        /\ Cardinality(Known(A, S, d)) \in Nat
        /\ Cardinality(Searches(S, d, Len(S))) \in Nat
    BY <1>1, CountedPositions
  <1>3. Cardinality(Known(A, S, d)) <= Cardinality(Known(B, T, d))
    BY <1>2, FS_Subset
  <1> QED BY <1>2, <1>3

\* Attempts of which the same are pending, and continuations that may end.
LEMMA RelabelledPaid ==
  ASSUME NEW A, NEW B, NEW O, NEW P, sent \in Seq(Transmission), Paid(A, O, sent),
         Relabels(B, A), Lasts(B, A), \A d \in Downloads : Due(P, d) => Due(O, d)
  PROVE  Paid(B, P, sent)
  <1> SUFFICES ASSUME NEW d \in Downloads
               PROVE  /\ Cardinality(Searches(sent, d, Len(sent))) <=
                           Cardinality(Known(B, sent, d))
                      /\ Owed(B, P, d) => Cardinality(Searches(sent, d, Len(sent))) <
                                            Cardinality(Known(B, sent, d))
    BY DEF Paid
  <1>1. Known(A, sent, d) \subseteq Known(B, sent, d)
    BY DEF Known, Relabels, Follows, SameAttempt, SameKey
  <1>2. Owed(B, P, d) => Owed(A, O, d)
    BY DEF Owed, Searching, Lasts, SameAttempt
  <1>3. Len(sent) \in Nat
    BY LenProperties
  <1> QED BY <1>1, <1>2, <1>3, PaidFrom DEF Paid

\* reserve and recommend: a new attempt, of which nothing was sent.
LEMMA AddedPaid ==
  ASSUME sent \in Seq(Transmission), Paid(attempts, operations, sent),
         NEW b, attempts' = attempts \cup {b}, operations' = operations,
         \A i \in DOMAIN sent : Pending(b) => ~SameKey(sent[i], b)
  PROVE  /\ Paid(attempts', operations', sent)
         /\ \A d \in Downloads : Known(attempts, sent, d) = Known(attempts', sent, d)
  <1>1. Len(sent) \in Nat /\ DOMAIN sent = 1..Len(sent)
    BY LenProperties
  <1>2. ASSUME NEW d \in Downloads
        PROVE  /\ Known(attempts, sent, d) = Known(attempts', sent, d)
               /\ Owed(attempts', operations', d) => Owed(attempts, operations, d)
    BY <1>1 DEF Known, Removed, Owed, Searching
  <1> QED BY <1>1, <1>2, PaidFrom DEF Paid

\* Prune keeps what is pending and opens nothing.
LEMMA PrunedPaid ==
  ASSUME sent \in Seq(Transmission), Paid(attempts, operations, sent), NEW t, Prune(t)
  PROVE  Paid(attempts', operations', sent)
  <1>1. attempts' \subseteq attempts /\ \A a \in attempts : Pending(a) => a \in attempts'
    BY DEF Prune, RetainAttempt
  <1>2. \A d \in Downloads : Due(operations', d) => Due(operations, d)
    BY DEF Prune, Due, NoOperation
  <1>3. Len(sent) \in Nat
    BY LenProperties
  <1>4. ASSUME NEW d \in Downloads
        PROVE  /\ Known(attempts, sent, d) \subseteq Known(attempts', sent, d)
               /\ Owed(attempts', operations', d) => Owed(attempts, operations, d)
    BY <1>1, <1>2 DEF Known, Owed, Searching
  <1> QED BY <1>3, <1>4, PaidFrom DEF Paid

\* Settle writes over a sequence, of which it changes no length.
LEMMA SettledLength ==
  ASSUME sent \in Seq(Transmission), NEW a, NEW outcome, Settle(a, outcome)
  PROVE  Len(sent') = Len(sent)
  <1> DEFINE T(k) == IF sent[k].id = a.id /\ sent[k].started = a.started
                     THEN [sent[k] EXCEPT !.end = outcome, !.ended = scanTime] ELSE sent[k]
  <1>1. sent' = [k \in 1..Len(sent) |-> T(k)]
    BY DEF Settle
  <1>2. Len(sent) \in Nat
    BY LenProperties
  <1> HIDE DEF T
  <1> QED BY <1>1, <1>2

\* A removal that is known of late pays for one search more.
LEMMA StrictlyMore ==
  ASSUME NEW d, NEW A, NEW B, NEW S, NEW T, Len(S) \in Nat, Len(T) = Len(S),
         Searches(T, d, Len(T)) = Searches(S, d, Len(S)),
         Known(A, S, d) \subseteq Known(B, T, d),
         NEW i \in Known(B, T, d), i \notin Known(A, S, d),
         Cardinality(Searches(S, d, Len(S))) <= Cardinality(Known(A, S, d))
  PROVE  Cardinality(Searches(T, d, Len(T))) < Cardinality(Known(B, T, d))
  <1>1. /\ Known(A, S, d) \in SUBSET (1..Len(S)) /\ Known(B, T, d) \in SUBSET (1..Len(S))
        /\ Searches(S, d, Len(S)) \in SUBSET (1..Len(S))
    BY DEF Known, Removed, Searches
  <1>2. /\ IsFiniteSet(Known(B, T, d)) /\ Cardinality(Known(B, T, d)) \in Nat
        /\ Cardinality(Known(A, S, d)) \in Nat
        /\ Cardinality(Searches(S, d, Len(S))) \in Nat
    BY <1>1, CountedPositions
  <1>3. /\ Cardinality(Known(A, S, d)) <= Cardinality(Known(B, T, d))
        /\ Cardinality(Known(A, S, d)) # Cardinality(Known(B, T, d))
    BY <1>2, FS_Subset
  <1> QED BY <1>2, <1>3

\* Transmit: a search that is sent was still owed when it was reserved.
LEMMA TransmittedPaid ==
  ASSUME SearchInv, Transmit
  PROVE  /\ Heard(attempts, sent') /\ Follow(sent')
         /\ Paid(attempts, operations, sent') /\ Paid(attempts, disk.operations, sent')
         /\ \A a \in attempts : a.id = executing => \E i \in DOMAIN sent' : SameKey(sent'[i], a)
  <1>1. PICK a \in attempts : a.id = executing /\ sent' = Append(sent,
            [id |-> a.id, download |-> a.download, decision |-> a.decision,
             started |-> a.started, request |-> request, dryRun |-> cfg.dryRun,
             override |-> Override, end |-> "open", ended |-> 0])
    BY DEF Transmit
  <1> DEFINE s == [id |-> a.id, download |-> a.download, decision |-> a.decision,
                   started |-> a.started, request |-> request, dryRun |-> cfg.dryRun,
                   override |-> Override, end |-> "open", ended |-> 0]
             n == Len(sent) + 1
  <1>2. /\ sent \in Seq(Transmission) /\ pc = "intent" /\ disk.attempts = attempts
        /\ Keyed(attempts) /\ PartsOK /\ Heard(attempts, sent) /\ Follow(sent)
        /\ Paid(attempts, operations, sent) /\ Paid(attempts, disk.operations, sent)
    BY TypeParts
       DEF SearchInv, LimitInv, FinalInv, ReplayInv, Sound, Intended, Transmit
  <1>3. Pending(a)
    BY <1>1, <1>2 DEF SearchInv, LimitInv, FinalInv, ReplayInv, UnderWay, Keyed
  <1>4. /\ s.decision = a.decision /\ s.download = a.download /\ s.end = "open"
        /\ SameKey(s, a)
    BY DEF SameKey
  <1>5. sent' = Append(sent, s)
    BY <1>1
  <1> HIDE DEF s
  <1>6. DOMAIN sent = 1..Len(sent) /\ Len(sent) \in Nat
    BY <1>2, LenProperties
  <1>7. /\ DOMAIN sent' = 1..n /\ sent'[n] = s /\ Len(sent') = n
        /\ \A i \in 1..Len(sent) : sent'[i] = sent[i]
    BY <1>2, <1>5, <1>6
  <1>8. Heard(attempts, sent')
    BY <1>2, <1>6, <1>7 DEF Heard
  <1>9. \A b \in attempts : b.id = executing => \E i \in DOMAIN sent' : SameKey(sent'[i], b)
    BY <1>1, <1>2, <1>4, <1>6, <1>7 DEF Keyed
  <1>10. ASSUME NEW d, NEW j \in 1..Len(sent)
         PROVE  Searches(sent', d, j) = Searches(sent, d, j) /\ Removed(sent', d, j) = Removed(sent, d, j)
    <2>1. \A i \in 1..j : sent'[i] = sent[i]
      BY <1>6, <1>7
    <2> QED BY <2>1 DEF Searches, Removed
  <1>11. ASSUME NEW d
         PROVE  /\ Known(attempts, sent, d) \subseteq Known(attempts, sent', d)
                /\ Searches(sent', d, n) \subseteq Searches(sent, d, Len(sent)) \cup {n}
                /\ Known(attempts, sent, d) \in SUBSET (1..Len(sent))
                /\ Searches(sent, d, Len(sent)) \in SUBSET (1..Len(sent))
                /\ Known(attempts, sent', d) \in SUBSET (1..n)
    BY <1>6, <1>7 DEF Known, Removed, Searches
  <1>12. ASSUME NEW d
         PROVE  /\ Cardinality(Known(attempts, sent, d)) <= Cardinality(Known(attempts, sent', d))
                /\ Cardinality(Known(attempts, sent, d)) \in Nat
                /\ Cardinality(Known(attempts, sent', d)) \in Nat
    <2>1. n \in Nat
      BY <1>6
    <2> HIDE DEF n
    <2>2. IsFiniteSet(Known(attempts, sent', d)) /\ Cardinality(Known(attempts, sent', d)) \in Nat
      BY <1>11, <2>1, CountedPositions
    <2>3. Cardinality(Known(attempts, sent, d)) \in Nat
      BY <1>6, <1>11, CountedPositions
    <2>4. Cardinality(Known(attempts, sent, d)) <= Cardinality(Known(attempts, sent', d))
      BY <1>11, <2>2, FS_Subset
    <2> QED BY <2>2, <2>3, <2>4
  <1>13. ASSUME NEW d \in Downloads, NEW O, Paid(attempts, O, sent)
         PROVE  /\ Cardinality(Searches(sent', d, n)) <= Cardinality(Known(attempts, sent', d))
                /\ Owed(attempts, O, d) =>
                     Cardinality(Searches(sent', d, n)) < Cardinality(Known(attempts, sent', d))
    <2>1. CASE a.download = d /\ a.decision.kind = "search"
      <3>1. Cardinality(Searches(sent, d, Len(sent))) < Cardinality(Known(attempts, sent, d))
        BY <1>1, <1>2, <2>1 DEF SearchInv
      <3>2. Cardinality(Searches(sent', d, n)) <= Cardinality(Known(attempts, sent, d))
        BY <1>6, <1>11, <1>12, <3>1, OneMore
      <3>3. IsFiniteSet(Searches(sent', d, n)) /\ Cardinality(Searches(sent', d, n)) \in Nat
        <4>1. Searches(sent', d, n) \in SUBSET (1..n) /\ n \in Nat
          BY <1>6 DEF Searches
        <4> QED BY <4>1, CountedPositions
      <3>4. ~Owed(attempts, O, d)
        BY <1>3, <2>1 DEF Owed, Searching
      <3> QED BY <1>12, <3>2, <3>3, <3>4
    <2>2. CASE ~(a.download = d /\ a.decision.kind = "search")
      <3>1. Searches(sent', d, n) = Searches(sent, d, Len(sent))
        BY <1>4, <1>6, <1>7, <2>2 DEF Searches
      <3>2. Cardinality(Searches(sent, d, Len(sent))) \in Nat
        BY <1>6, <1>11, CountedPositions
      <3> QED BY <1>12, <1>13, <3>1, <3>2 DEF Paid
    <2> QED BY <2>1, <2>2
  <1>14. Paid(attempts, operations, sent') /\ Paid(attempts, disk.operations, sent')
    BY <1>2, <1>7, <1>13 DEF Paid
  <1>15. Follow(sent')
    <2> SUFFICES ASSUME NEW j \in 1..n, sent'[j].decision.kind = "search"
                 PROVE  Cardinality(Searches(sent', sent'[j].download, j)) <=
                          Cardinality(Removed(sent', sent'[j].download, j))
      BY <1>7 DEF Follow
    <2>1. CASE j = n
      <3> DEFINE d == a.download
      <3>1. sent'[j].download = d /\ d \in Downloads
        BY <1>2, <1>4, <1>7, <2>1 DEF PartsOK, Attempt
      <3>2. Cardinality(Searches(sent', d, n)) <= Cardinality(Known(attempts, sent', d))
        BY <1>2, <1>13, <3>1
      <3>3. Known(attempts, sent', d) \subseteq Removed(sent', d, n)
        BY <1>7 DEF Known
      <3>4. /\ Removed(sent', d, n) \in SUBSET (1..n) /\ Searches(sent', d, n) \in SUBSET (1..n)
            /\ n \in Nat
        BY <1>6 DEF Removed, Searches
      <3>5. /\ IsFiniteSet(Removed(sent', d, n)) /\ Cardinality(Removed(sent', d, n)) \in Nat
            /\ Cardinality(Searches(sent', d, n)) \in Nat
        BY <3>4, CountedPositions
      <3>6. Cardinality(Known(attempts, sent', d)) <= Cardinality(Removed(sent', d, n))
        BY <3>3, <3>5, FS_Subset
      <3> QED BY <1>12, <2>1, <3>1, <3>2, <3>5, <3>6
    <2>2. CASE j # n
      <3>1. j \in DOMAIN sent /\ j \in 1..Len(sent) /\ sent'[j] = sent[j]
        BY <1>6, <1>7, <2>2
      <3> QED BY <1>2, <1>10, <3>1 DEF Follow
    <2> QED BY <2>1, <2>2
  <1> QED BY <1>8, <1>9, <1>14, <1>15

\* verify ends a removal only as verified, and a search as anything but that.
LEMMA RemovalVerified ==
  ASSUME NEW a \in Attempt, Pending(a), NEW command, NEW reading,
         OutcomeAfter(a, command, reading) \in Final
  PROVE  /\ IsRemoval(a) => OutcomeAfter(a, command, reading) = "verified" /\ (a.ack \/ a.evidence)
         /\ a.decision.kind = "search" => OutcomeAfter(a, command, reading) # "verified"
  <1>1. Complete(a, command, reading) /\ IsRemoval(a) => a.ack \/ a.evidence
    BY DEF Complete, Evidence, IsRemoval, Removals
  <1>2. /\ a.outcome \notin Final
        /\ (IF Overdue(a, scanTime) /\ a.outcome # "partial" THEN "uncertain" ELSE a.outcome)
             \notin Final
    BY DEF Pending, Unresolved, Final
  <1>3. Complete(a, command, reading) => ~Unreadable(a, command, reading)
    BY DEF Complete
  <1>4. a.decision.kind = "search" => ~IsRemoval(a)
    BY DEF IsRemoval, Removals
  <1>5. ASSUME Unreadable(a, command, reading)
        PROVE  OutcomeAfter(a, command, reading) \notin Final
    <2> DEFINE late == IF Overdue(a, scanTime) /\ a.outcome # "partial"
                       THEN "uncertain" ELSE a.outcome
    <2>1. OutcomeAfter(a, command, reading) =
            IF a.decision.kind = "import" /\ Evidence(a, command, reading) THEN "partial" ELSE late
      BY <1>3, <1>5, Zenon DEF OutcomeAfter
    <2>2. late \notin Final
      BY <1>2
    <2> HIDE DEF late
    <2> QED BY <2>1, <2>2 DEF Final
  <1>6. ~Unreadable(a, command, reading) /\ ~Complete(a, command, reading) =>
          OutcomeAfter(a, command, reading) \notin Final \/
            (KnownFailed(a, command) /\ OutcomeAfter(a, command, reading) = "failed")
    BY <1>2 DEF OutcomeAfter, Final
  <1>7. Complete(a, command, reading) =>
          OutcomeAfter(a, command, reading) =
            IF a.decision.kind = "search" THEN "submitted" ELSE "verified"
    BY <1>3 DEF OutcomeAfter
  <1> QED BY <1>1, <1>3, <1>4, <1>5, <1>6, <1>7 DEF KnownFailed, Final

\* verify ends an attempt: a removal that a search may follow is one more.
LEMMA EndedPaid ==
  ASSUME SearchInv, pc = "verify", NEW a \in attempts, Pending(a), NEW command, NEW reading,
         Verified(a, command, reading), OutcomeAfter(a, command, reading) \in Final,
         UNCHANGED disk, Keyed(attempts')
  PROVE  /\ Heard(attempts', sent') /\ Heard(disk.attempts, sent')
         /\ Paid(attempts', operations', sent') /\ Paid(disk.attempts, disk.operations, sent')
         /\ Follow(sent')
  <1> DEFINE outcome == OutcomeAfter(a, command, reading)
             b == [a EXCEPT !.outcome = outcome, !.evidence = Evidence(a, command, reading),
                            !.finished = scanTime]
  <1>1. /\ PartsOK /\ sent \in Seq(Transmission) /\ a \in Attempt
        /\ a.download \in Downloads
        /\ Genuine(attempts, sent) /\ Backed(attempts, disk.attempts, sent)
        /\ Heard(attempts, sent) /\ Heard(disk.attempts, sent) /\ Follow(sent)
        /\ Paid(attempts, operations, sent) /\ Paid(disk.attempts, disk.operations, sent)
        /\ Keyed(attempts) /\ Apart(attempts)
    BY TypeParts DEF SearchInv, LimitInv, FinalInv, ReplayInv, PartsOK, Sound, Knows, Attempt
  <1>2. /\ outcome \in {"verified", "submitted", "failed"} /\ Settle(a, outcome)
        /\ attempts' = (attempts \ {a}) \cup {b}
        /\ operations' = ContinuationAfter(a, outcome)
    BY DEF Verified, Final
  <1>3. SameAttempt(a, b) /\ ~Pending(b)
    BY <1>1, <1>2 DEF Attempt, SameAttempt, Pending, Unresolved
  <1>4. /\ IsRemoval(a) => outcome = "verified" /\ (a.ack \/ a.evidence)
        /\ a.decision.kind = "search" => outcome # "verified"
    BY <1>1, RemovalVerified
  <1> HIDE DEF b, outcome
  <1>5. /\ DOMAIN sent' = DOMAIN sent
        /\ \A i \in DOMAIN sent :
             /\ SameHead(sent'[i], sent[i])
             /\ SameKey(sent[i], a) => sent'[i].end = outcome
             /\ ~SameKey(sent[i], a) => sent'[i] = sent[i]
    BY <1>1, <1>2, SettleKeepsHeads
  <1>6. DOMAIN sent = 1..Len(sent) /\ Len(sent) \in Nat /\ Len(sent') = Len(sent)
    <2>1. DOMAIN sent = 1..Len(sent) /\ Len(sent) \in Nat
      BY <1>1, LenProperties
    <2>2. Len(sent') = Len(sent)
      BY <1>1, <1>2, <2>1, SettledLength
    <2> QED BY <2>1, <2>2
  <1>7. Heard(attempts', sent') /\ Heard(disk.attempts, sent')
    <2>1. Heard(attempts', sent)
      BY <1>1, VerifiedHeeds, HeedsHeard
    <2> QED BY <1>1, <1>5, <2>1 DEF Heard, SameKey, SameHead
  <1>8. ASSUME NEW d, NEW j \in 0..Len(sent)
        PROVE  /\ Searches(sent', d, j) = Searches(sent, d, j)
               /\ Removed(sent, d, j) \subseteq Removed(sent', d, j)
    <2>1. \A i \in 1..j : i \in DOMAIN sent
      BY <1>6
    <2>2. Searches(sent', d, j) = Searches(sent, d, j)
      BY <1>5, <2>1 DEF Searches, SameHead
    <2>3. ASSUME NEW i \in Removed(sent, d, j) PROVE i \in Removed(sent', d, j)
      <3>1. /\ i \in 1..j /\ i \in DOMAIN sent /\ sent[i].download = d
            /\ sent[i].end = "verified" /\ sent[i].decision.kind = "remove_unusable"
        BY <2>1, <2>3 DEF Removed
      <3>2. sent'[i].end = "verified"
        <4>1. CASE SameKey(sent[i], a)
          <5>1. SameAttempt(sent[i], a)
            BY <1>1, <3>1, <4>1 DEF Genuine, Pending
          <5> QED BY <1>4, <1>5, <3>1, <4>1, <5>1 DEF IsRemoval, Removals, SameAttempt
        <4>2. CASE ~SameKey(sent[i], a)
          BY <1>5, <3>1, <4>2
        <4> QED BY <4>1, <4>2
      <3> QED BY <1>5, <3>1, <3>2 DEF Removed, SameHead
    <2> QED BY <2>2, <2>3
  <1>9. ASSUME NEW d, NEW A, NEW B, \A c \in B : Pending(c) => \E e \in A : Pending(e) /\ SameKey(e, c)
        PROVE  Known(A, sent, d) \subseteq Known(B, sent', d)
    <2> SUFFICES ASSUME NEW i \in Known(A, sent, d) PROVE i \in Known(B, sent', d)
      OBVIOUS
    <2>1. i \in Removed(sent, d, Len(sent)) /\ \A e \in A : Pending(e) => ~SameKey(sent[i], e)
      BY DEF Known
    <2>2. i \in Removed(sent', d, Len(sent')) /\ i \in DOMAIN sent
      <3>1. Len(sent) \in 0..Len(sent)
        BY <1>6
      <3>2. Removed(sent, d, Len(sent)) \subseteq Removed(sent', d, Len(sent))
        BY <1>8, <3>1
      <3>3. i \in 1..Len(sent)
        BY <2>1 DEF Removed
      <3> QED BY <1>6, <2>1, <3>2, <3>3
    <2> QED BY <1>5, <1>9, <2>1, <2>2 DEF Known, SameKey, SameHead
  <1>10. \A c \in attempts' : Pending(c) => c \in attempts /\ c # a
    BY <1>2, <1>3
  <1>11. Paid(disk.attempts, disk.operations, sent')
    <2> SUFFICES ASSUME NEW d \in Downloads
                 PROVE  /\ Cardinality(Searches(sent', d, Len(sent'))) <=
                             Cardinality(Known(disk.attempts, sent', d))
                        /\ Owed(disk.attempts, disk.operations, d) =>
                             Cardinality(Searches(sent', d, Len(sent'))) <
                               Cardinality(Known(disk.attempts, sent', d))
      BY DEF Paid
    <2>1. Known(disk.attempts, sent, d) \subseteq Known(disk.attempts, sent', d)
      BY <1>9 DEF SameKey
    <2>2. Searches(sent', d, Len(sent')) = Searches(sent, d, Len(sent))
      BY <1>6, <1>8
    <2> QED BY <1>1, <1>6, <2>1, <2>2, PaidFrom DEF Paid
  <1>12. Paid(attempts', operations', sent')
    <2> SUFFICES ASSUME NEW d \in Downloads
                 PROVE  /\ Cardinality(Searches(sent', d, Len(sent'))) <=
                             Cardinality(Known(attempts', sent', d))
                        /\ Owed(attempts', operations', d) =>
                             Cardinality(Searches(sent', d, Len(sent'))) <
                               Cardinality(Known(attempts', sent', d))
      BY DEF Paid
    <2>1. Known(attempts, sent, d) \subseteq Known(attempts', sent', d)
      BY <1>9, <1>10 DEF SameKey
    <2>2. Searches(sent', d, Len(sent')) = Searches(sent, d, Len(sent))
      BY <1>6, <1>8
    <2>3. CASE Owed(attempts', operations', d) => Owed(attempts, operations, d)
      BY <1>1, <1>6, <2>1, <2>2, <2>3, PaidFrom DEF Paid
    <2>4. CASE Owed(attempts', operations', d) /\ ~Due(operations, d)
      <3>1. a.download = d /\ a.decision.kind = "remove_unusable" /\ outcome = "verified"
        <4>1. operations \in [Downloads -> Operation]
          BY <1>1 DEF PartsOK
        <4> QED BY <1>2, <2>4, <4>1 DEF ContinuationAfter, Owed, Due, Operation
      <3>2. PICK i \in DOMAIN sent : SameKey(sent[i], a)
        BY <1>1, <1>4, <3>1 DEF Heard, Pending, IsRemoval, Removals
      <3>3. SameAttempt(sent[i], a)
        BY <1>1, <3>2 DEF Genuine, Pending
      <3>4. i \in Removed(sent', d, Len(sent'))
        BY <1>5, <1>6, <3>1, <3>2, <3>3 DEF Removed, SameHead, SameAttempt
      <3>5. i \in Known(attempts', sent', d)
        BY <1>1, <1>5, <1>10, <3>2, <3>4 DEF Known, SameKey, SameHead, Keyed
      <3>6. i \notin Known(attempts, sent, d)
        BY <3>2 DEF Known
      <3>7. Cardinality(Searches(sent, d, Len(sent))) <= Cardinality(Known(attempts, sent, d))
        BY <1>1 DEF Paid
      <3>8. Cardinality(Searches(sent', d, Len(sent'))) < Cardinality(Known(attempts', sent', d))
        BY <1>6, <2>1, <2>2, <3>5, <3>6, <3>7, StrictlyMore
      <3>9. Cardinality(Searches(sent', d, Len(sent'))) \in Nat /\
            Cardinality(Known(attempts', sent', d)) \in Nat
        <4>1. /\ Searches(sent', d, Len(sent')) \in SUBSET (1..Len(sent))
              /\ Known(attempts', sent', d) \in SUBSET (1..Len(sent))
          BY <1>6 DEF Searches, Known, Removed
        <4> QED BY <1>6, <4>1, CountedPositions
      <3> QED BY <3>8, <3>9
    <2>5. CASE Owed(attempts', operations', d) /\ Due(operations, d) /\ ~Owed(attempts, operations, d)
      <3>1. PICK c \in attempts : Pending(c) /\ c.download = d /\ c.decision.kind = "search"
        BY <2>5 DEF Owed, Searching
      <3>2. c \notin attempts'
        BY <2>5, <3>1 DEF Owed, Searching
      <3>3. c = a
        BY <1>2, <3>1, <3>2
      <3>4. outcome \in {"submitted", "failed"} /\ a.decision.kind = "search" /\ a.download = d
        BY <1>2, <1>4, <3>1, <3>3
      <3>5. operations[d].state = "pending-search" /\ operations \in [Downloads -> Operation]
        BY <1>1, <2>5 DEF Due, PartsOK
      <3>6. operations' = [operations EXCEPT ![d].state = "finished"]
        BY <1>2, <3>4, <3>5 DEF ContinuationAfter
      <3>7. operations'[d].state = "finished"
        BY <3>5, <3>6 DEF Operation
      <3> QED BY <2>5, <3>7 DEF Owed, Due
    <2> QED BY <2>3, <2>4, <2>5
  <1>13. Follow(sent')
    <2> SUFFICES ASSUME NEW j \in DOMAIN sent, sent'[j].decision.kind = "search"
                 PROVE  Cardinality(Searches(sent', sent'[j].download, j)) <=
                          Cardinality(Removed(sent', sent'[j].download, j))
      BY <1>5 DEF Follow
    <2> DEFINE d == sent[j].download
    <2>1. sent'[j].download = d /\ sent[j].decision.kind = "search" /\ j \in 0..Len(sent) /\ j \in Nat
      BY <1>5, <1>6 DEF SameHead
    <2>2. Cardinality(Searches(sent, d, j)) <= Cardinality(Removed(sent, d, j))
      BY <1>1, <2>1 DEF Follow
    <2>3. Searches(sent', d, j) = Searches(sent, d, j) /\ Removed(sent, d, j) \subseteq Removed(sent', d, j)
      BY <1>8, <2>1
    <2>4. /\ Searches(sent, d, j) \in SUBSET (1..j) /\ Removed(sent, d, j) \in SUBSET (1..j)
          /\ Removed(sent', d, j) \in SUBSET (1..j)
      BY DEF Searches, Removed
    <2> HIDE DEF d
    <2>5. /\ IsFiniteSet(Removed(sent', d, j)) /\ Cardinality(Removed(sent', d, j)) \in Nat
          /\ Cardinality(Removed(sent, d, j)) \in Nat /\ Cardinality(Searches(sent, d, j)) \in Nat
      BY <2>1, <2>4, CountedPositions
    <2>6. Cardinality(Removed(sent, d, j)) <= Cardinality(Removed(sent', d, j))
      BY <2>3, <2>5, FS_Subset
    <2> QED BY <2>1, <2>2, <2>3, <2>5, <2>6
  <1> QED BY <1>7, <1>11, <1>12, <1>13

\* Each step keeps every search paid for, in memory and in the store.
LEMMA SearchStep ==
  ASSUME SearchInv, [Next]_vars
  PROVE  SearchInv'
  <1>1. /\ LimitInv /\ LimitInv' /\ ReplayInv /\ ReplayInv' /\ PartsOK /\ disk \in Data
        /\ sent \in Seq(Transmission)
        /\ Keyed(attempts) /\ Keyed(attempts') /\ Keyed(disk.attempts)
    BY LimitStep, TypeParts DEF SearchInv, LimitInv, FinalInv, ReplayInv, Sound
  <1>2. /\ Heard(attempts, sent) /\ Heard(disk.attempts, sent) /\ Follow(sent)
        /\ Paid(attempts, operations, sent) /\ Paid(disk.attempts, disk.operations, sent)
    BY DEF SearchInv
  \* What is left to show of a step that may save.
  <1>3. ASSUME UNCHANGED sent, Heard(attempts', sent), Paid(attempts', operations', sent),
               UNCHANGED disk \/ SaveCommits \/ SaveFails,
               pc' \notin {"intent", "sent"}
        PROVE  SearchInv'
    <2>1. CASE disk' = disk
      BY <1>1, <1>2, <1>3, <2>1 DEF SearchInv
    <2>2. CASE disk'.attempts = attempts' /\ disk'.operations = operations'
      BY <1>1, <1>2, <1>3, <2>2 DEF SearchInv
    <2> QED BY <1>3, <2>1, <2>2 DEF SaveCommits, SaveFails, Snapshot
  <1>4. ASSUME UNCHANGED <<attempts, sent>>,
               \A d \in Downloads : Due(operations', d) => Due(operations, d),
               UNCHANGED disk \/ SaveCommits \/ SaveFails,
               pc' \notin {"intent", "sent"}
        PROVE  SearchInv'
    <2>1. Paid(attempts', operations', sent)
      BY <1>1, <1>2, <1>4, SameRelabels, RelabelledPaid
    <2> QED BY <1>2, <1>3, <1>4, <2>1
  <1>5. ASSUME UNCHANGED <<attempts, operations, sent>>,
               UNCHANGED disk \/ SaveCommits \/ SaveFails,
               pc' \notin {"intent", "sent"}
        PROVE  SearchInv'
    BY <1>4, <1>5
  <1>6. CASE (\E q : Scan(q)) \/ CycleRefused \/ PlanDone
    BY <1>5, <1>6 DEF Scan, CycleRefused, AfterError, PlanDone, dataVars
  <1>7. CASE ScanFails
    <2>1. /\ UNCHANGED <<operations, sent>> /\ (SaveCommits \/ SaveFails)
          /\ pc' \notin {"intent", "sent"}
      BY <1>7 DEF ScanFails, SaveThen, AfterError
    <2>2. Heard(attempts', sent)
      BY <1>1, <1>2, <1>7, ExpiredHeeds, HeedsHeard
    <2>3. Relabels(attempts', attempts) /\ Lasts(attempts', attempts)
      BY <1>1, <1>7, ExpiredRelabels
    <2>4. Paid(attempts', operations', sent)
      BY <1>1, <1>2, <2>1, <2>3, RelabelledPaid
    <2> QED BY <1>3, <2>1, <2>2, <2>4
  <1>8. CASE Verify
    <2>1. PICK a \in attempts :
            a.id \in todo /\ \E answer \in Answers(a) : Verified(a, answer[1], answer[2])
      BY <1>8 DEF Verify
    <2>2. PICK answer \in Answers(a) : Verified(a, answer[1], answer[2])
      BY <2>1
    <2>3. pc = "verify" /\ pc' \in {"plan", "verify"} /\ UNCHANGED disk
      BY <1>8 DEF Verify
    <2>4. Pending(a)
      BY <1>1, <2>1, <2>3 DEF ReplayInv, ToVerify
    <2>5. CASE OutcomeAfter(a, answer[1], answer[2]) \in Final
      <3>1. /\ Heard(attempts', sent') /\ Heard(disk.attempts, sent') /\ Follow(sent')
            /\ Paid(attempts', operations', sent') /\ Paid(disk.attempts, disk.operations, sent')
        BY <1>1, <2>2, <2>3, <2>4, <2>5, EndedPaid
      <3> QED BY <1>1, <2>3, <3>1 DEF SearchInv
    <2>6. CASE OutcomeAfter(a, answer[1], answer[2]) \notin Final
      <3>1. sent' = sent /\ operations' = operations
        BY <2>2, <2>6 DEF Verified, Final, ContinuationAfter
      <3>2. Relabels(attempts', attempts) /\ Lasts(attempts', attempts)
        BY <1>1, <2>2, <2>4, <2>6, VerifiedRelabels
      <3>3. Heard(attempts', sent)
        BY <1>1, <1>2, <2>2, VerifiedHeeds, HeedsHeard
      <3>4. Paid(attempts', operations', sent)
        BY <1>1, <1>2, <3>1, <3>2, RelabelledPaid
      <3> QED BY <1>3, <2>3, <3>1, <3>3, <3>4
    <2> QED BY <2>5, <2>6
  <1>9. ASSUME NEW i \in 1..MaxID, IsNextID(i) PROVE \A a \in attempts : a.id # i
    BY <1>1, <1>9, RemediatorAssumption DEF IsNextID, PartsOK, Attempt
  <1>10. ASSUME NEW d, NEW v, Recommend(d, v) PROVE SearchInv'
    <2>1. PICK i \in 1..MaxID : IsNextID(i) /\ attempts' = attempts \cup
            {[NewAttempt(i, d, v, scanTime) EXCEPT !.dryRun = TRUE, !.finished = scanTime,
                                                   !.outcome = "recommended"]}
      BY <1>10 DEF Recommend
    <2> DEFINE b == [NewAttempt(i, d, v, scanTime) EXCEPT
                       !.dryRun = TRUE, !.finished = scanTime, !.outcome = "recommended"]
    <2>2. b.dryRun
      BY DEF NewAttempt
    <2>3. attempts' = attempts \cup {b}
      BY <2>1
    <2> HIDE DEF b
    <2>4. pc' = "plan" /\ UNCHANGED <<operations, disk, sent>>
      BY <1>10 DEF Recommend
    <2>5. Paid(attempts', operations', sent)
      BY <1>1, <1>2, <2>2, <2>3, <2>4, AddedPaid DEF Pending
    <2>6. Heard(attempts', sent)
      BY <1>2, <2>2, <2>3 DEF Heard
    <2> QED BY <1>3, <2>4, <2>5, <2>6
  <1>11. ASSUME NEW p \in plans, NEW v \in Decision, Reserve(p, v), UNCHANGED <<now, sent>>,
                v.kind = "search" => Owed(attempts, operations, p.download)
         PROVE  SearchInv'
    <2>1. PICK i \in 1..MaxID :
            /\ IsNextID(i) /\ executing' = i
            /\ attempts' = attempts \cup {NewAttempt(i, p.download, v, now)}
      BY <1>11 DEF Reserve
    <2> DEFINE b == NewAttempt(i, p.download, v, now)
    <2>2. /\ b.id = i /\ b.download = p.download /\ b.decision = v /\ b.started = now
          /\ ~b.dryRun /\ ~b.ack /\ ~b.evidence
      BY DEF NewAttempt
    <2>3. attempts' = attempts \cup {b} /\ operations' = operations
      BY <1>11, <2>1 DEF Reserve
    <2> HIDE DEF b
    <2>4. \A k \in DOMAIN sent : ~SameKey(sent[k], b)
      <3>1. /\ now \in Nat \ {0} /\ Knows(attempts, sent, now)
            /\ b.started \in Nat /\ b.started <= now /\ \A a \in attempts : a.id # b.id
        BY <1>1, <1>9, <2>1, <2>2, TypeParts DEF LimitInv, ReplayInv
      <3>2. \A k \in DOMAIN sent : b.dryRun \/ ~SameKey(sent[k], b)
        BY <1>1, <2>2, <2>3, <3>1, AddedKnow
      <3> QED BY <2>2, <3>2
    <2>5. /\ Paid(attempts', operations', sent)
          /\ \A d \in Downloads : Known(attempts, sent, d) = Known(attempts', sent, d)
      BY <1>1, <1>2, <2>3, <2>4, AddedPaid
    <2>6. Heard(attempts', sent)
      BY <1>2, <2>2, <2>3 DEF Heard
    <2>7. \A a \in attempts' : a.id = executing' => a = b
      BY <1>9, <2>1, <2>2, <2>3
    <2>8. p.download \in Downloads
      BY TypeParts, <1>1 DEF ReplayInv, Plan
    <2>9. v.kind = "search" => Cardinality(Searches(sent, p.download, Len(sent))) <
                                 Cardinality(Known(attempts', sent, p.download))
      BY <1>2, <1>11, <2>5, <2>8 DEF Paid
    <2>10. CASE SaveCommits /\ pc' = "intent"
      <3>1. disk'.attempts = attempts' /\ disk'.operations = operations'
        BY <2>10 DEF SaveCommits, Snapshot
      <3> QED BY <1>1, <1>2, <1>11, <2>2, <2>5, <2>6, <2>7, <2>9, <2>10, <3>1 DEF SearchInv
    <2>11. CASE SaveFails /\ pc' = AfterError
      BY <1>3, <1>11, <2>5, <2>6, <2>11 DEF AfterError
    <2> QED BY <1>11, <2>10, <2>11 DEF Reserve, SaveThen
  <1>12. ASSUME NEW p \in plans, Execute(p) PROVE SearchInv'
    <2>1. p.decision \in Decision
      BY <1>1, TypeParts DEF ReplayInv, Plan
    <2> QED BY <1>11, <1>12, <2>1 DEF Execute
  <1>13. ASSUME NEW p \in plans, NEW targets \in SUBSET operations[p.download].episodes,
                Search(p, targets)
         PROVE  SearchInv'
    <2> DEFINE d == p.download
               v == SearchDecision(d, targets)
    <2>1. d \in Downloads
      BY <1>1, TypeParts DEF ReplayInv, Plan
    <2>2. SearchReady(d, v)
      BY <1>13 DEF Search
    <2>3. v \in Decision
      BY <1>1, <2>1, <2>2, SearchDecisionType DEF SearchReady
    <2>4. Owed(attempts, operations, d)
      BY <2>2 DEF SearchReady, SearchPermitted, HasPending, Owed, Due, Searching
    <2> HIDE DEF v
    <2>5. Reserve(p, v) /\ UNCHANGED <<now, sent>>
      BY <1>13 DEF Search, v
    <2> QED BY <1>11, <2>3, <2>4, <2>5
  <1>14. CASE Transmit
    <2>1. /\ Heard(attempts, sent') /\ Follow(sent')
          /\ Paid(attempts, operations, sent') /\ Paid(attempts, disk.operations, sent')
          /\ \A a \in attempts : a.id = executing => \E i \in DOMAIN sent' : SameKey(sent'[i], a)
      BY <1>14, TransmittedPaid
    <2>2. /\ UNCHANGED <<attempts, operations, disk, executing>> /\ pc = "intent" /\ pc' = "sent"
      BY <1>14 DEF Transmit, dataVars, cycleVars
    <2>3. disk.attempts = attempts
      BY <1>1, <2>2 DEF ReplayInv, Intended
    <2> QED BY <1>1, <2>1, <2>2, <2>3 DEF SearchInv
  <1>15. ASSUME NEW ack \in BOOLEAN, Respond(ack) PROVE SearchInv'
    <2>1. UNCHANGED sent /\ (SaveCommits \/ SaveFails) /\ pc' \notin {"intent", "sent"}
      BY <1>15 DEF Respond, SaveThen, AfterError
    <2>2. PICK a \in attempts :
            /\ a.id = executing
            /\ attempts' = (attempts \ {a}) \cup
                 {[a EXCEPT !.ack = ack, !.outcome = IF ack THEN "pending" ELSE "uncertain"]}
            /\ operations' = IF a.decision.kind = "search"
                             THEN [operations EXCEPT ![a.download].state = "search-attempted"]
                             ELSE operations
      BY <1>15 DEF Respond
    <2> DEFINE b == [a EXCEPT !.ack = ack, !.outcome = IF ack THEN "pending" ELSE "uncertain"]
    <2>3. /\ SameAttempt(a, b) /\ b.dryRun = a.dryRun /\ b.ack = ack /\ b.evidence = a.evidence
          /\ operations \in [Downloads -> Operation]
      BY <1>1 DEF PartsOK, Attempt, SameAttempt
    <2>4. attempts' = (attempts \ {a}) \cup {b}
      BY <2>2
    <2> HIDE DEF b
    <2>5. ack => \E i \in DOMAIN sent : SameKey(sent[i], a)
      BY <1>15, <2>2 DEF Respond, SearchInv
    <2>6. Heard(attempts', sent)
      <3>1. ~b.dryRun /\ IsRemoval(b) /\ (b.ack \/ b.evidence) =>
              \E i \in DOMAIN sent : SameKey(sent[i], b)
        BY <1>2, <2>3, <2>5 DEF Heard, IsRemoval, SameAttempt, SameKey
      <3> QED BY <1>2, <2>4, <3>1 DEF Heard
    <2>7. Relabels(attempts', attempts) /\ Lasts(attempts', attempts)
      BY <1>1, <1>15, RespondedRelabels
    <2>8. \A d \in Downloads : Due(operations', d) => Due(operations, d)
      BY <2>2, <2>3 DEF Due, Operation
    <2>9. Paid(attempts', operations', sent)
      BY <1>1, <1>2, <2>7, <2>8, RelabelledPaid
    <2> QED BY <1>3, <2>1, <2>6, <2>9
  <1>16. CASE EndCycle
    <2>1. /\ Prune(scanTime) /\ UNCHANGED sent /\ (SaveCommits \/ SaveFails)
          /\ pc' \notin {"intent", "sent"}
      BY <1>16 DEF EndCycle, SaveThen, AfterError
    <2>2. Paid(attempts', operations', sent)
      BY <1>1, <1>2, <2>1, PrunedPaid
    <2>3. Heard(attempts', sent)
      BY <1>2, <2>1 DEF Heard, Prune
    <2> QED BY <1>3, <2>1, <2>2, <2>3
  <1>17. CASE (\E c \in Configs : Open(c)) \/ Crash
    <2>1. /\ Relabels(attempts', disk.attempts) /\ Lasts(attempts', disk.attempts)
          /\ operations' = disk.operations
      BY <1>1, <1>17, RecoveredRelabels, SameRelabels DEF Open, Crash, Forget, Recover
    <2>2. UNCHANGED sent /\ (UNCHANGED disk \/ SaveCommits) /\ pc' \in {"idle", "down"}
      BY <1>17 DEF Open, Crash
    <2>3. Heard(attempts', sent)
      BY <1>1, <1>2, <1>17, RecoveredHeeds, HeedsHeard DEF Open, Crash, Forget
    <2>4. Paid(attempts', operations', sent)
      BY <1>1, <1>2, <2>1, RelabelledPaid
    <2> QED BY <1>3, <2>2, <2>3, <2>4
  <1>18. ASSUME NEW d, SearchUnreadable(d) \/ (\E v : Select(d, v))
                       \/ (\E targets : SelectSearch(d, targets))
         PROVE  SearchInv'
    BY <1>5, <1>18 DEF SearchUnreadable, Select, SelectSearch, dataVars
  <1>19. ASSUME NEW d, operations' = operations \/
                       operations' = [operations EXCEPT ![d].state = "finished"]
         PROVE  \A e \in Downloads : Due(operations', e) => Due(operations, e)
    BY <1>1, <1>19 DEF PartsOK, Operation, Due
  <1>20. ASSUME NEW d, EndContinuation(d) PROVE SearchInv'
    BY <1>4, <1>19, <1>20 DEF EndContinuation
  <1>21. ASSUME NEW p, Skip(p) PROVE SearchInv'
    BY <1>4, <1>19, <1>21 DEF Skip
  <1>22. CASE (\E r \in Requests : Accept(r)) \/ FinishTrigger \/ Stop \/ Exit
    BY <1>5, <1>22 DEF Accept, FinishTrigger, Stop, Exit, dataVars
  <1>23. CASE Tick \/ UNCHANGED vars
    <2>1. UNCHANGED <<attempts, operations, disk, sent, pc, executing>>
      BY <1>23 DEF Tick, vars, dataVars, cycleVars
    <2> QED BY <1>1, <1>2, <2>1 DEF SearchInv
  <1> QED BY <1>6, <1>7, <1>8, <1>10, <1>12, <1>13, <1>14, <1>15, <1>16, <1>17, <1>18, <1>20,
             <1>21, <1>22, <1>23 DEF Next, Observe

\* Whatever crashes or fails between the removal, its verification, the search
\* and its answer: no removal is followed by two searches, and no search comes
\* without one (searchDecision, verify).
THEOREM SearchesFollow == Spec => []SearchFollowsRemoval
  <1>1. SearchInv => SearchFollowsRemoval
    <2> SUFFICES ASSUME Follow(sent), NEW j \in DOMAIN sent, sent[j].decision.kind = "search"
                 PROVE  Cardinality({i \in 1..j : /\ sent[i].download = sent[j].download
                                                  /\ sent[i].decision.kind = "search"}) <=
                        Cardinality({i \in 1..j : /\ sent[i].download = sent[j].download
                                                  /\ sent[i].end = "verified"
                                                  /\ sent[i].decision.kind = "remove_unusable"})
      BY DEF SearchInv, SearchFollowsRemoval, Sent
    <2> QED BY DEF Follow, Searches, Removed
  <1>2. SearchInv /\ [Next]_vars => SearchInv'
    BY SearchStep
  <1> QED BY <1>1, <1>2, SearchInit, PTL DEF Spec

----------------------------------------------------------------------------
(* The observer loop implements the log of mutations.  Only Transmit and   *)
(* Verify change what was sent; ReplayInv makes the one a Send and the      *)
(* other a Resolve of a single mutation.                                    *)

\* Every step but a transmission and a verification leaves what was sent.
LEMMA SentChanges == [Next]_vars => Transmit \/ Verify \/ UNCHANGED sent
  <1> SUFFICES ASSUME [Next]_vars, ~Transmit, ~Verify PROVE UNCHANGED sent
    OBVIOUS
  <1>1. ASSUME NEW q, Scan(q) PROVE UNCHANGED sent
    BY <1>1 DEF Scan
  <1>2. CASE ScanFails \/ CycleRefused \/ PlanDone \/ EndCycle \/ FinishTrigger \/ Exit
    BY <1>2 DEF ScanFails, CycleRefused, PlanDone, EndCycle, FinishTrigger, Exit
  <1>3. ASSUME NEW d, NEW v, Select(d, v) \/ Recommend(d, v) \/ SelectSearch(d, v)
        PROVE  UNCHANGED sent
    BY <1>3 DEF Select, Recommend, SelectSearch
  <1>4. ASSUME NEW d, EndContinuation(d) \/ SearchUnreadable(d) PROVE UNCHANGED sent
    BY <1>4 DEF EndContinuation, SearchUnreadable
  <1>5. ASSUME NEW p, NEW targets, Skip(p) \/ Execute(p) \/ Search(p, targets)
        PROVE  UNCHANGED sent
    BY <1>5 DEF Skip, Execute, Search
  <1>6. ASSUME NEW ack, Respond(ack) PROVE UNCHANGED sent
    BY <1>6 DEF Respond
  <1>7. ASSUME NEW r, Accept(r) \/ Open(r) PROVE UNCHANGED sent
    BY <1>7 DEF Accept, Open
  <1>8. CASE Stop \/ Crash \/ Tick \/ UNCHANGED vars
    BY <1>8 DEF Stop, Crash, Tick, vars
  <1> QED BY <1>1, <1>2, <1>3, <1>4, <1>5, <1>6, <1>7, <1>8 DEF Next, Observe

\* What keeps the last transmission apart from the earlier ones.
LEMMA NoReplayAfter == ReplayInv' => NoReplay'
  BY NoReplayFromInv, PTL

\* A transmission of something that no open transmission conflicts with is a Send.
LEMMA TransmitSends ==
  ASSUME ReplayInv, ReplayInv', Transmit
  PROVE  \E m \in Abstract!Mutation : Abstract!Send(m)
  <1>1. PICK a \in attempts : sent' = Append(sent,
            [id |-> a.id, download |-> a.download, decision |-> a.decision,
             started |-> a.started, request |-> request, dryRun |-> cfg.dryRun,
             override |-> Override, end |-> "open", ended |-> 0])
    BY DEF Transmit
  <1> DEFINE s == [id |-> a.id, download |-> a.download, decision |-> a.decision,
                   started |-> a.started, request |-> request, dryRun |-> cfg.dryRun,
                   override |-> Override, end |-> "open", ended |-> 0]
             n == Len(sent) + 1
  <1>2. sent \in Seq(Transmission) /\ sent' \in Seq(Transmission)
    BY TypeParts, TypePartsPrime DEF ReplayInv
  <1>3. /\ Len(sent) \in Nat /\ DOMAIN sent = 1..Len(sent) /\ DOMAIN sent' = 1..n
        /\ sent'[n] = s /\ \A k \in 1..Len(sent) : sent'[k] = sent[k]
    <2>1. Len(sent) \in Nat /\ Len(sent') = n
      BY <1>1, <1>2
    <2>2. DOMAIN sent = 1..Len(sent) /\ DOMAIN sent' = 1..n
      BY <1>2, <2>1
    <2>3. sent'[n] = s /\ \A k \in 1..Len(sent) : sent'[k] = sent[k]
      BY <1>1, <1>2, <2>1
    <2> QED BY <2>1, <2>2, <2>3
  <1>4. Logged(s) \in Abstract!Mutation
    BY TypeParts DEF ReplayInv, PartsOK, Attempt, Decision, Abstract!Mutation, Logged
  <1>5. SentLog' = Append(SentLog, Logged(s))
    <2>1. SentLog \in Seq({Logged(x) : x \in Transmission})
      BY <1>2, <1>3, SeqDef DEF SentLog
    <2>2. Len(SentLog) = Len(sent)
      BY <1>3, <2>1 DEF SentLog
    <2>3. DOMAIN SentLog' = 1..n /\ DOMAIN Append(SentLog, Logged(s)) = 1..n
      BY <1>3, <2>1, <2>2 DEF SentLog
    <2>4. \A k \in 1..n : SentLog'[k] = Append(SentLog, Logged(s))[k]
      BY <1>3, <2>1, <2>2 DEF SentLog
    <2> QED BY <2>3, <2>4, <1>3, <2>1, <2>2 DEF SentLog
  <1>6. SentUnknown' = SentUnknown \cup {Len(SentLog) + 1}
    <2>1. Len(SentLog) = Len(sent)
      BY <1>3 DEF SentLog
    <2>2. s.end = "open"
      OBVIOUS
    <2> HIDE DEF s
    <2> QED BY <1>3, <2>1, <2>2 DEF SentUnknown
  <1>7. \A k \in SentUnknown : ~Abstract!Concerns(SentLog[k], Logged(s))
    <2> SUFFICES ASSUME NEW k \in SentUnknown
                 PROVE  ~Abstract!Concerns(SentLog[k], Logged(s))
      OBVIOUS
    <2>1. NoReplay'
      BY NoReplayAfter
    <2>2. k \in 1..Len(sent) /\ k < n /\ n \in DOMAIN sent' /\ k \in DOMAIN sent'
      BY <1>3 DEF SentUnknown
    <2>3. sent'[k].end = "open" /\ sent'[n].end = "open"
      BY <1>3, <2>2 DEF SentUnknown
    <2>4. ~Conflicting(sent'[k], sent'[n])
      BY <2>1, <2>2, <2>3 DEF NoReplay
    <2> QED BY <1>3, <2>2, <2>4 DEF Conflicting, SentLog, Logged, Abstract!Concerns
  <1> QED BY <1>4, <1>5, <1>6, <1>7 DEF Abstract!Send

\* Verifying an attempt resolves the one open transmission of it, if any.
LEMMA VerifyResolves ==
  ASSUME ReplayInv, Verify
  PROVE  \/ \E k \in SentUnknown : Abstract!Resolve(k)
         \/ UNCHANGED <<SentLog, SentUnknown>>
  <1>1. PICK a \in attempts : \E answer \in Answers(a) : Verified(a, answer[1], answer[2])
    BY DEF Verify
  <1>2. PICK answer \in Answers(a) : Verified(a, answer[1], answer[2])
    BY <1>1
  <1> DEFINE outcome == OutcomeAfter(a, answer[1], answer[2])
  <1>3. CASE UNCHANGED sent
    BY <1>3 DEF SentLog, SentUnknown
  <1>4. CASE Settle(a, outcome) /\ outcome \in {"verified", "submitted", "failed"}
    <2> DEFINE Of(k) == sent[k].id = a.id /\ sent[k].started = a.started
    <2>1. sent \in Seq(Transmission)
      BY TypeParts DEF ReplayInv
    <2>2. DOMAIN sent = 1..Len(sent) /\ DOMAIN sent' = DOMAIN sent
      <3>1. DOMAIN sent = 1..Len(sent)
        BY <2>1, LenProperties
      <3> HIDE DEF outcome
      <3>2. DOMAIN sent' = 1..Len(sent)
        BY <1>4 DEF Settle
      <3> QED BY <3>1, <3>2
    <2>3. \A k \in DOMAIN sent :
            sent'[k] = IF Of(k) THEN [sent[k] EXCEPT !.end = outcome, !.ended = scanTime]
                       ELSE sent[k]
      BY <1>4, <2>2 DEF Settle
    <2>4. \A k \in DOMAIN sent : sent[k] \in Transmission
      BY <2>1
    <2>5. \A k \in DOMAIN sent : Logged(sent'[k]) = Logged(sent[k])
      <3> HIDE DEF outcome
      <3> QED BY <2>3, <2>4 DEF Logged, Transmission
    <2>6. UNCHANGED SentLog
      BY <2>2, <2>5 DEF SentLog
    <2>7. \A k \in DOMAIN sent : sent'[k].end = IF Of(k) THEN outcome ELSE sent[k].end
      <3> HIDE DEF outcome
      <3> QED BY <2>3, <2>4 DEF Transmission
    <2>8. SentUnknown' = SentUnknown \ {k \in DOMAIN sent : Of(k)}
      <3>1. outcome # "open"
        BY <1>4
      <3> HIDE DEF outcome, Of
      <3> QED BY <2>2, <2>7, <3>1 DEF SentUnknown
    <2>9. CASE \A k \in SentUnknown : ~Of(k)
      BY <2>6, <2>8, <2>9 DEF SentUnknown
    <2>10. CASE \E k \in SentUnknown : Of(k)
      <3>1. PICK k \in SentUnknown : Of(k)
        BY <2>10
      <3>2. \A j \in SentUnknown : Of(j) => j = k
        BY <3>1 DEF ReplayInv, OpenKeyed, SentUnknown
      <3>3. SentUnknown' = SentUnknown \ {k}
        BY <2>8, <3>1, <3>2 DEF SentUnknown
      <3> QED BY <2>6, <3>1, <3>3 DEF Abstract!Resolve
    <2> QED BY <2>9, <2>10
  <1> QED BY <1>2, <1>3, <1>4 DEF Verified

\* The observer implements the log of mutations of Mutations.tla, for any
\* candidates, limits, requests, crashes and failures.
THEOREM RefinesMutations == Spec => ImplementsMutations
  <1>1. Init => Abstract!Init
    BY DEF Init, Abstract!Init, SentLog, SentUnknown
  <1>2. ReplayInv /\ ReplayInv' /\ [Next]_vars => [Abstract!Next]_<<SentLog, SentUnknown>>
    <2> SUFFICES ASSUME ReplayInv, ReplayInv', [Next]_vars
                 PROVE  Abstract!Next \/ UNCHANGED <<SentLog, SentUnknown>>
      OBVIOUS
    <2>1. CASE Transmit
      BY <2>1, TransmitSends DEF Abstract!Next
    <2>2. CASE Verify
      BY <2>2, VerifyResolves DEF Abstract!Next
    <2>3. CASE UNCHANGED sent
      BY <2>3 DEF SentLog, SentUnknown
    <2> QED BY <2>1, <2>2, <2>3, SentChanges
  <1> QED BY <1>1, <1>2, ReplayInvariant, PTL DEF Spec, Abstract!Spec, ImplementsMutations
=============================================================================
