---------------------------- MODULE ControlProofs ----------------------------
(***************************************************************************)
(* The hand-over of manual requests, for any number of callers and slots:   *)
(* the admission token counts the one call that is waiting or executing,    *)
(* and exit codes tell what was sent.                                      *)
(***************************************************************************)
EXTENDS Control, FiniteSetTheorems, TLAPS

----------------------------------------------------------------------------
(* The inductive invariant. *)

Kinds ==
  /\ caller \in [Callers -> {"new", "connected"} \cup Codes]
  /\ handler \in [Callers -> {None, "serve", "waiting", "dispatched", "reply"}]
  /\ report \in [Callers -> {None, "0", "1", "2", "3"}]
  /\ admission \in {0, 1}
  /\ requests \in Callers \cup {None}
  /\ result \in [Callers -> {None, "0", "1", "2", "3"}]
  /\ loop \in {"top", "select", "overdue", "manual", "cycle", "release", "over"}
  /\ current \in Callers \cup {None}
  /\ effect \in [Callers -> {None, "reserved", "acknowledged", "uncertain"}]
  /\ interrupted \in SUBSET Callers

\* The call the token stands for is at one place.
Alone ==
  /\ admission = 0 => Outstanding = {}
  /\ \A c, d \in Outstanding : c = d
  /\ admission = 1 => Outstanding # {}
  /\ requests = None \/ current = None
  /\ loop \in {"top", "select"} => current = None
  /\ loop \in {"overdue", "manual", "cycle", "release"} => current # None

\* A call that has not been sent has left no trace of an earlier one.
Fresh(c) == effect[c] = None /\ result[c] = None /\ c \notin {requests, current}
Unsent ==
  \A c \in Callers : /\ caller[c] = "new" \/ handler[c] \in {"serve", "waiting"} => Fresh(c)
                     /\ caller[c] = "new" => handler[c] = None
                     /\ report[c] # None <=> handler[c] = "reply"

\* Nothing more is done about a call, and a code that says what was done.
Settled(c) == c # requests /\ (c = current => loop = "release")
Honest(c, code) ==
  /\ code \in {"1", "2"} => effect[c] \in {None, "reserved"}
  /\ code = "0" => effect[c] = "acknowledged"
Told(c, code) == code \in {"0", "1", "2"} => Settled(c) /\ Honest(c, code)
Exited(c) == (caller[c] = "1" /\ c \in interrupted) \/ Told(c, caller[c])

\* Whatever passes a code on, from the cycle to the caller, passes a true one.
Truth ==
  \A c \in Executing :
    /\ result[c] # None => Settled(c)
    /\ Told(c, result[c]) /\ Told(c, report[c]) /\ Exited(c)
    /\ handler[c] # None =>
         \/ caller[c] \in {"connected", "3", "130"}
         \/ (caller[c] = "1" /\ c \in interrupted)
    /\ ~Settled(c) /\ loop # "cycle" => effect[c] = None

CallInv == Kinds /\ Alone /\ Unsent /\ Truth

LEMMA ControlInitial == Init => CallInv
  BY ControlAssumption DEF Init, CallInv, Kinds, Alone, Outstanding, Unsent, Fresh, Truth,
     Exited, Told, Honest, Settled, None, Codes

\* The trigger command: an execution ends with a code that is true, or it was
\* interrupted and its report not printed.
LEMMA ExitTold ==
  ASSUME NEW c \in Callers, NEW code \in {"0", "1", "2", "3"}, Exit(c, code), CallInv
  PROVE  \E exit \in Codes :
           /\ caller' = [caller EXCEPT ![c] = exit]
           /\ interrupted' \in SUBSET Callers /\ interrupted \subseteq interrupted'
           /\ \/ exit \in {"3", "130"}
              \/ (exit = "1" /\ c \in interrupted')
              \/ exit = code
              \/ (exit = "1" /\ (c \in Executing => code \in {"1", "2"}))
  <1>0. PICK seen \in {code, "130"} : \E exit \in {seen, Unprinted(c, seen)} :
          /\ caller' = [caller EXCEPT ![c] = exit]
          /\ interrupted' = interrupted \cup (IF seen = "130" THEN {c} ELSE {})
    BY DEF Exit
  <1>1. PICK exit \in {seen, Unprinted(c, seen)} :
          /\ caller' = [caller EXCEPT ![c] = exit]
          /\ interrupted' = interrupted \cup (IF seen = "130" THEN {c} ELSE {})
    BY <1>0
  <1>2. exit \in Codes
    BY <1>1 DEF Unprinted, Codes
  <1>3. interrupted' \in SUBSET Callers /\ interrupted \subseteq interrupted'
    BY <1>1 DEF CallInv, Kinds
  <1>4. CASE seen = "130"
    BY <1>1, <1>2, <1>3, <1>4 DEF Unprinted, Codes
  <1>5. CASE seen = code
    BY <1>1, <1>2, <1>3, <1>5 DEF Unprinted, Codes
  <1> QED
    BY <1>4, <1>5

\* The trigger command.
LEMMA CallKeeps ==
  ASSUME CallInv, NEW c \in Callers, Call(c)
  PROVE  CallInv'
  <1> USE ControlAssumption DEF CallInv, Kinds, Codes, None
  <1>1. /\ caller[c] = "new" /\ handler[c] = None /\ Fresh(c)
        /\ UNCHANGED <<cancelled, report, admission, requests, result, loop, current, due, effect>>
    BY DEF Call, Unsent, channels, loopVars
  <1>2. Unanswered(c) \in {"1", "3"} /\ (c \in Executing => Unanswered(c) = "3")
    BY DEF Unanswered
  <1>3. \/ Exit(c, "1") /\ UNCHANGED handler
        \/ Exit(c, Unanswered(c)) /\ UNCHANGED handler
        \/ /\ caller' = [caller EXCEPT ![c] = "connected"] /\ UNCHANGED interrupted
           /\ handler' = [handler EXCEPT ![c] = "serve"]
    BY DEF Call
  <1>4. PICK exit \in Codes \cup {"connected"} :
          /\ caller' = [caller EXCEPT ![c] = exit]
          /\ interrupted' \in SUBSET Callers /\ interrupted \subseteq interrupted'
          /\ \/ UNCHANGED handler /\ exit \in {"1", "3", "130"}
             \/ exit = "connected" /\ handler' = [handler EXCEPT ![c] = "serve"]
    BY <1>2, <1>3, ExitTold
  <1>5. Kinds'
    BY <1>1, <1>4
  <1>6. Alone'
    BY <1>1, <1>4 DEF Alone, Outstanding
  <1>7. Unsent'
    BY <1>1, <1>4 DEF Unsent, Fresh
  <1>8. Truth'
    BY <1>1, <1>4 DEF Truth, Exited, Told, Honest, Settled, Fresh
  <1> QED
    BY <1>5, <1>6, <1>7, <1>8

LEMMA LeaveKeeps ==
  ASSUME CallInv, NEW c \in Callers, Leave(c)
  PROVE  CallInv'
  <1> USE ControlAssumption DEF CallInv, Kinds, Codes, None
  <1>1. /\ caller[c] = "connected" /\ Exit(c, Unanswered(c))
        /\ UNCHANGED <<handler, report, admission, requests, result, loop, current, effect>>
    BY DEF Leave, channels, loopVars
  <1>2. Unanswered(c) \in {"1", "3"} /\ (c \in Executing => Unanswered(c) = "3")
    BY DEF Unanswered
  <1>3. PICK exit \in Codes :
          /\ caller' = [caller EXCEPT ![c] = exit]
          /\ interrupted' \in SUBSET Callers /\ interrupted \subseteq interrupted'
          /\ c \in Executing => exit \in {"3", "130"} \/ (exit = "1" /\ c \in interrupted')
    BY <1>1, <1>2, ExitTold
  <1>4. Kinds' /\ Alone'
    BY <1>1, <1>3 DEF Alone, Outstanding
  <1>5. Unsent'
    BY <1>1, <1>3 DEF Unsent, Fresh
  <1>6. Truth'
    BY <1>1, <1>3 DEF Truth, Exited, Told, Honest, Settled
  <1> QED
    BY <1>4, <1>5, <1>6

LEMMA ReturnKeeps ==
  ASSUME CallInv, NEW c \in Callers, Return(c)
  PROVE  CallInv'
  <1> USE ControlAssumption DEF CallInv, Kinds, Codes, None
  <1>1. /\ handler[c] = None /\ c \notin {requests, current}
        /\ caller' = [caller EXCEPT ![c] = "new"]
        /\ effect' = [effect EXCEPT ![c] = None] /\ result' = [result EXCEPT ![c] = None]
        /\ interrupted' = interrupted \ {c}
        /\ UNCHANGED <<handler, report, admission, requests, loop, current>>
    BY DEF Return
  <1>2. Kinds' /\ Alone'
    BY <1>1 DEF Alone, Outstanding
  <1>3. Unsent' /\ Truth'
    BY <1>1 DEF Unsent, Fresh, Truth, Exited, Told, Honest, Settled
  <1> QED
    BY <1>2, <1>3

\* Steps that only end a context, the service or the server.
LEMMA OthersKeep ==
  ASSUME CallInv, UNCHANGED <<caller, interrupted, handler, report, admission, requests, result, current, effect>>,
         \/ UNCHANGED loop
         \/ loop \in {"top", "select"} /\ loop' \in {"top", "select", "over"}
         \/ loop = "overdue" /\ loop' \in {"manual", "over"}
         \/ loop = "manual" /\ loop' = "cycle"
  PROVE  CallInv'
  <1> USE ControlAssumption DEF CallInv, Kinds, Codes, None
  <1>1. Kinds' /\ Alone'
    BY DEF Alone, Outstanding
  <1>2. Unsent'
    BY DEF Unsent, Fresh
  <1>3. Truth'
    BY <1>1 DEF Alone, Truth, Exited, Told, Honest, Settled
  <1> QED
    BY <1>1, <1>2, <1>3

----------------------------------------------------------------------------
(* The handlers. *)

LEMMA AdmitKeeps ==
  ASSUME CallInv, NEW c \in Callers, Admit(c)
  PROVE  CallInv'
  <1> USE ControlAssumption DEF CallInv, Kinds, Codes, None
  <1>1. /\ handler[c] = "serve"
        /\ UNCHANGED <<caller, interrupted, requests, result, loop, current, effect>>
    BY DEF Admit, Unsent, callVars, channels, loopVars
  <1>2. Fresh(c)
    BY <1>1 DEF Admit, Unsent
  <1>3. CASE admission = 0
    <2>1. admission' = 1 /\ handler' = [handler EXCEPT ![c] = "waiting"] /\ UNCHANGED report
      BY <1>3 DEF Admit, Admissible
    <2>2. Kinds' /\ Unsent'
      BY <1>1, <1>2, <2>1 DEF Unsent, Fresh
    <2>3. Outstanding' = {c}
      BY <1>1, <1>3, <2>1 DEF Alone, Outstanding
    <2>4. Alone' /\ Truth'
      BY <1>1, <2>1, <2>3 DEF Alone, Truth, Exited, Told, Honest, Settled
    <2> QED
      BY <2>2, <2>4
  <1>4. CASE admission # 0
    <2>1. /\ UNCHANGED admission /\ handler' = [handler EXCEPT ![c] = "reply"]
          /\ report' = [report EXCEPT ![c] = "1"]
      BY <1>4 DEF Admit, Admissible, Answer
    <2>2. Kinds' /\ Unsent'
      BY <1>1, <1>2, <2>1 DEF Unsent, Fresh
    <2>3. Outstanding' = Outstanding
      BY <1>1, <2>1 DEF Outstanding
    <2>4. Alone'
      BY <1>1, <2>1, <2>3 DEF Alone
    <2>5. Truth'
      BY <1>1, <1>2, <2>1 DEF Fresh, Truth, Exited, Told, Honest, Settled
    <2> QED
      BY <2>2, <2>4, <2>5
  <1> QED
    BY <1>3, <1>4

LEMMA GiveUpKeeps ==
  ASSUME CallInv, NEW c \in Callers, GiveUp(c)
  PROVE  CallInv'
  <1> USE ControlAssumption DEF CallInv, Kinds, Codes, None
  <1>1. /\ handler[c] = "waiting" /\ admission = 1 /\ admission' = 0
        /\ handler' = [handler EXCEPT ![c] = "reply"] /\ report' = [report EXCEPT ![c] = "1"]
        /\ UNCHANGED <<caller, interrupted, requests, result, loop, current, effect>>
    BY DEF GiveUp, Answer, loopVars
  <1>2. Fresh(c)
    BY <1>1 DEF Unsent
  <1>3. Kinds' /\ Unsent'
    BY <1>1, <1>2 DEF Unsent, Fresh
  <1>4. c \in Outstanding /\ (\A d \in Outstanding : d = c)
    BY <1>1 DEF Alone, Outstanding
  <1>5. Outstanding' = {}
    BY <1>1, <1>2, <1>4 DEF Outstanding, Fresh
  <1>6. Alone' /\ Truth'
    BY <1>1, <1>2, <1>5 DEF Alone, Fresh, Truth, Exited, Told, Honest, Settled
  <1> QED
    BY <1>3, <1>6

LEMMA SendKeeps ==
  ASSUME CallInv, NEW c \in Callers, Send(c)
  PROVE  CallInv'
  <1> USE ControlAssumption DEF CallInv, Kinds, Codes, None
  <1>1. /\ handler[c] = "waiting" /\ requests = None /\ requests' = c
        /\ handler' = [handler EXCEPT ![c] = "dispatched"]
        /\ UNCHANGED <<caller, interrupted, report, admission, result, loop, current, effect>>
    BY DEF Send, loopVars
  <1>2. Fresh(c) /\ caller[c] # "new"
    BY <1>1 DEF Unsent
  <1>3. current = None
    BY <1>1, <1>2 DEF Alone, Outstanding, Fresh
  <1>4. Outstanding' = Outstanding
    BY <1>1 DEF Outstanding
  <1>5. Kinds' /\ Alone' /\ Unsent'
    BY <1>1, <1>2, <1>3, <1>4 DEF Alone, Unsent, Fresh
  <1>6. Truth'
    <2>1. ASSUME NEW d \in Executing, d # c
          PROVE  Settled(d)' <=> Settled(d)
      BY <1>1, <2>1 DEF Settled
    <2>2. \A d \in Executing : d # c => handler'[d] = handler[d]
      BY <1>1
    <2>3. c \in Executing => \/ caller[c] \in {"connected", "3", "130"}
                              \/ (caller[c] = "1" /\ c \in interrupted)
      BY <1>1 DEF Truth
    <2>4. report[c] = None /\ result[c] = None /\ effect[c] = None
      BY <1>1, <1>2 DEF Unsent, Fresh
    <2> QED
      BY <1>1, <2>1, <2>2, <2>3, <2>4 DEF Truth, Exited, Told, Honest
  <1> QED
    BY <1>5, <1>6

\* The handler has an answer: its caller's call is settled if it says so.
LEMMA AnswerKeeps ==
  ASSUME CallInv, NEW c \in Callers, NEW code \in {"0", "1", "2", "3"},
         handler[c] = "dispatched", Answer(c, code), c \in Executing => Told(c, code),
         UNCHANGED <<caller, interrupted, admission, requests, result, loop, current, effect>>
  PROVE  CallInv'
  <1> USE ControlAssumption DEF CallInv, Kinds, Codes, None
  <1>1. /\ handler' = [handler EXCEPT ![c] = "reply"]
        /\ report' = [report EXCEPT ![c] = code]
    BY DEF Answer
  <1>2. Kinds' /\ Unsent'
    BY <1>1 DEF Unsent, Fresh
  <1>3. Outstanding' = Outstanding
    BY <1>1 DEF Outstanding
  <1>4. Alone'
    BY <1>1, <1>3 DEF Alone
  <1>5. Truth'
    BY <1>1 DEF Truth, Exited, Told, Honest, Settled
  <1> QED
    BY <1>2, <1>4, <1>5

LEMMA ReplyKeeps ==
  ASSUME CallInv, NEW c \in Callers, Reply(c)
  PROVE  CallInv'
  <1> USE ControlAssumption DEF CallInv, Kinds, Codes, None
  <1>1. /\ handler[c] = "reply" /\ handler' = [handler EXCEPT ![c] = None]
        /\ report' = [report EXCEPT ![c] = None]
        /\ UNCHANGED <<admission, requests, result, loop, current, effect>>
    BY DEF Reply, channels, loopVars
  <1>2. \/ UNCHANGED <<caller, interrupted>>
        \/ \E exit \in Codes :
             /\ caller' = [caller EXCEPT ![c] = exit]
             /\ interrupted' \in SUBSET Callers /\ interrupted \subseteq interrupted'
             /\ c \in Executing => Told(c, exit) \/ (exit = "1" /\ c \in interrupted')
    <2>1. report[c] \in {"0", "1", "2", "3"} /\ (c \in Executing => Told(c, report[c]))
      BY <1>1 DEF Unsent, Truth
    <2>2. Unanswered(c) \in {"1", "3"} /\ (c \in Executing => Unanswered(c) = "3")
      BY DEF Unanswered
    <2>3. ASSUME NEW code \in {"0", "1", "2", "3"}, Exit(c, code), c \in Executing => Told(c, code)
          PROVE  \E exit \in Codes :
             /\ caller' = [caller EXCEPT ![c] = exit]
             /\ interrupted' \in SUBSET Callers /\ interrupted \subseteq interrupted'
             /\ c \in Executing => Told(c, exit) \/ (exit = "1" /\ c \in interrupted')
      <3>1. PICK exit \in Codes :
              /\ caller' = [caller EXCEPT ![c] = exit]
              /\ interrupted' \in SUBSET Callers /\ interrupted \subseteq interrupted'
              /\ \/ exit \in {"3", "130"}
                 \/ (exit = "1" /\ c \in interrupted')
                 \/ exit = code
                 \/ (exit = "1" /\ (c \in Executing => code \in {"1", "2"}))
        BY <2>3, ExitTold
      <3>2. c \in Executing => Told(c, exit) \/ (exit = "1" /\ c \in interrupted')
        BY <2>3, <3>1 DEF Told, Honest
      <3> QED
        BY <3>1, <3>2
    <2>4. UNCHANGED <<caller, interrupted>> \/ Exit(c, report[c]) \/ Exit(c, Unanswered(c))
      BY DEF Reply
    <2>5. c \in Executing => Told(c, Unanswered(c))
      BY <2>2 DEF Told
    <2> QED
      BY <2>1, <2>2, <2>3, <2>4, <2>5
  <1>3. Kinds' /\ Unsent'
    BY <1>1, <1>2 DEF Unsent, Fresh
  <1>4. Outstanding' = Outstanding
    BY <1>1 DEF Outstanding
  <1>5. Alone'
    BY <1>1, <1>4 DEF Alone
  <1>6. Truth'
    BY <1>1, <1>2 DEF Truth, Exited, Told, Honest, Settled
  <1> QED
    BY <1>3, <1>5, <1>6

LEMMA HandleKeeps ==
  ASSUME CallInv, NEW c \in Callers, Handle(c)
  PROVE  CallInv'
  <1>1. CASE TakeResult(c)
    <2>1. result[c] \in {"0", "1", "2", "3"} /\ (c \in Executing => Told(c, result[c]))
      BY <1>1 DEF TakeResult, CallInv, Kinds, Truth, None
    <2> QED
      BY <1>1, <2>1, AnswerKeeps DEF TakeResult, channels, loopVars
  <1>2. CASE Abandon(c)
    <2>1. AbandonCode(c) \in {"1", "3"} /\ (c \in Executing => AbandonCode(c) = "3")
      BY DEF AbandonCode
    <2> QED
      BY <1>2, <2>1, AnswerKeeps DEF Abandon, AfterAbandon, Told, loopVars
  <1> QED
    BY <1>1, <1>2, AdmitKeeps, GiveUpKeeps, SendKeeps, ReplyKeeps DEF Handle

----------------------------------------------------------------------------
(* The observer. *)

LEMMA DispatchKeeps ==
  ASSUME CallInv, Dispatch
  PROVE  CallInv'
  <1> USE ControlAssumption DEF CallInv, Kinds, Codes, None
  <1>1. /\ loop = "select" /\ requests # None /\ current' = requests /\ requests' = None
        /\ loop' \in {"overdue", "manual"} /\ current = None
        /\ UNCHANGED <<caller, interrupted, handler, report, admission, result, effect>>
    BY DEF Dispatch, Alone, callVars
  <1>2. Outstanding' = Outstanding
    BY <1>1 DEF Outstanding
  <1>3. Kinds' /\ Alone' /\ Unsent'
    BY <1>1, <1>2 DEF Alone, Unsent, Fresh
  <1>4. \A d \in Executing : Settled(d)' <=> Settled(d)
    BY <1>1 DEF Settled
  <1>5. Truth'
    BY <1>1, <1>4 DEF Truth, Exited, Told, Honest
  <1> QED
    BY <1>3, <1>5

\* The result of a call, which says what its cycle did.
LEMMA FinishKeeps ==
  ASSUME CallInv, NEW code \in {"0", "1", "2", "3"}, Finished(code), loop \in {"manual", "cycle"},
         current \in Executing => Honest(current, code)
  PROVE  CallInv'
  <1> USE ControlAssumption DEF CallInv, Kinds, Codes, None
  <1>1. /\ current \in Callers /\ requests = None /\ loop' = "release"
        /\ result' = [result EXCEPT ![current] = code]
        /\ UNCHANGED <<caller, interrupted, handler, report, admission, requests, current, effect>>
    BY DEF Finished, Alone, callVars
  <1>2. Outstanding' = Outstanding
    BY <1>1 DEF Outstanding
  <1>3. Kinds' /\ Alone' /\ Unsent'
    BY <1>1, <1>2 DEF Alone, Unsent, Fresh
  <1>4. \A d \in Executing : Settled(d)'
    BY <1>1 DEF Settled
  <1>5. Truth'
    BY <1>1, <1>4 DEF Truth, Exited, Told, Honest
  <1> QED
    BY <1>3, <1>5

LEMMA EffectKeeps ==
  ASSUME CallInv, loop = "cycle", NEW known \in {"reserved", "acknowledged", "uncertain"},
         effect' = [effect EXCEPT ![current] = known],
         UNCHANGED <<callVars, channels, loop, current, due, server>>
  PROVE  CallInv'
  <1> USE ControlAssumption DEF CallInv, Kinds, Codes, None
  <1>1. /\ current \in Callers /\ requests = None
        /\ UNCHANGED <<caller, interrupted, handler, report, admission, requests, result>>
    BY DEF Alone, callVars, channels
  <1>2. Kinds' /\ Alone' /\ Unsent'
    BY <1>1 DEF Alone, Outstanding, Unsent, Fresh
  <1>3. ~Settled(current)
    BY DEF Settled
  <1>4. \A d \in Executing : Settled(d)' <=> Settled(d)
    BY <1>1 DEF Settled
  <1>5. Truth'
    BY <1>1, <1>3, <1>4 DEF Truth, Exited, Told, Honest
  <1> QED
    BY <1>2, <1>5

LEMMA ReleaseKeeps ==
  ASSUME CallInv, Release
  PROVE  CallInv'
  <1> USE ControlAssumption DEF CallInv, Kinds, Codes, None
  <1>1. /\ current \in Callers /\ requests = None /\ current' = None /\ loop = "release"
        /\ loop' = "top" /\ admission = 1 /\ admission' = 0
        /\ UNCHANGED <<caller, interrupted, handler, report, requests, result, effect>>
    BY DEF Release, Alone, callVars
  <1>2. current \in Outstanding /\ (\A d \in Outstanding : d = current)
    BY <1>1 DEF Alone, Outstanding
  <1>3. handler[current] # "waiting"
    BY <1>1 DEF Unsent, Fresh
  <1>4. Outstanding' = {}
    BY <1>1, <1>2, <1>3 DEF Outstanding
  <1>5. Kinds' /\ Alone' /\ Unsent'
    BY <1>1, <1>4 DEF Alone, Unsent, Fresh
  <1>6. \A d \in Executing : Settled(d) /\ Settled(d)'
    BY <1>1 DEF Settled
  <1>7. Truth'
    BY <1>1, <1>6 DEF Truth, Exited, Told, Honest
  <1> QED
    BY <1>5, <1>7

LEMMA RunKeeps ==
  ASSUME CallInv, Run
  PROVE  CallInv'
  <1>1. CASE Cycle \/ Wait \/ Timer \/ Evaluate
    <2>1. UNCHANGED <<caller, interrupted, handler, report, admission, requests, result, current, effect>>
      BY <1>1 DEF Cycle, Wait, Timer, Evaluate, callVars, channels
    <2>2. \/ loop \in {"top", "select"} /\ loop' \in {"top", "select", "over"}
          \/ loop = "overdue" /\ loop' \in {"manual", "over"}
          \/ loop = "manual" /\ loop' = "cycle"
      BY <1>1 DEF Cycle, Wait, Timer, Evaluate
    <2> QED
      BY <2>1, <2>2, OthersKeep
  <1>2. CASE Refuse
    <2>1. current \in Executing => effect[current] = None
      BY <1>2 DEF Refuse, CallInv, Truth, Settled
    <2> QED
      BY <1>2, <2>1, FinishKeeps DEF Refuse, Honest
  <1>3. CASE EndManual
    <2>1. PICK failed \in BOOLEAN :
            /\ current \in cancelled \/ effect[current] = "reserved" => failed
            /\ \E code \in {ExitCode(failed)}
                 \cup (IF current \in Executing THEN {"3"} ELSE IF failed THEN {} ELSE {"0"}) :
                 Finished(code)
      BY <1>3 DEF EndManual
    <2>2. loop = "cycle" /\ current \in Callers
      BY <1>3 DEF EndManual, CallInv, Alone, Kinds
    <2>3. ExitCode(failed) \in {"0", "1", "2", "3"} /\ Honest(current, ExitCode(failed))
      BY <2>1, <2>2 DEF ExitCode, Honest, CallInv, Kinds, None
    <2>4. current \in Executing => Honest(current, "3")
      BY DEF Honest
    <2> QED
      BY <2>1, <2>2, <2>3, <2>4, FinishKeeps
  <1>4. CASE Reserve \/ \E known \in {"acknowledged", "uncertain"} : Submit(known)
    BY <1>4, EffectKeeps DEF Reserve, Submit
  <1> QED
    BY <1>1, <1>2, <1>3, <1>4, DispatchKeeps, ReleaseKeeps DEF Run

LEMMA ControlKept == CallInv /\ [Next]_vars => CallInv'
  <1> SUFFICES ASSUME CallInv, [Next]_vars
               PROVE  CallInv'
    OBVIOUS
  <1>1. ASSUME UNCHANGED <<callVars, channels, loop, current, effect>>
        PROVE  CallInv'
    BY <1>1, OthersKeep DEF callVars, channels
  <1>2. ASSUME NEW c \in Callers, Cancel(c)
        PROVE  CallInv'
    BY <1>2, OthersKeep DEF Cancel, channels, loopVars
  <1>3. CASE Signal \/ Close
    BY <1>3, OthersKeep DEF Signal, Close, callVars, channels, loopVars
  <1>4. CASE Stop
    BY <1>4, OthersKeep DEF Stop, callVars, channels
  <1>5. CASE DueNext
    BY <1>1, <1>5 DEF DueNext
  <1>6. CASE UNCHANGED vars
    BY <1>1, <1>6 DEF vars, loopVars
  <1> QED
    BY <1>2, <1>3, <1>4, <1>5, <1>6, CallKeeps, LeaveKeeps, ReturnKeeps, HandleKeeps, RunKeeps
    DEF Next

LEMMA ControlInvariant == Spec => []CallInv
  BY ControlInitial, ControlKept, PTL DEF Spec

----------------------------------------------------------------------------
(* The theorems. *)

\* However many callers come, leave, are cancelled and come back, the token
\* counts the one request that is waiting or executing: it is given back once,
\* by the handler or by Run (Request, Run).
THEOREM OneCallOnly == Spec => []OneCall
  <1>1. CallInv => OneCall
    <2> SUFFICES ASSUME CallInv
                 PROVE  Cardinality(Outstanding) = admission
      BY DEF OneCall
    <2>1. CASE admission = 0
      BY <2>1, FS_EmptySet DEF CallInv, Alone
    <2>2. CASE admission = 1
      <3>1. PICK c : c \in Outstanding
        BY <2>2 DEF CallInv, Alone
      <3>2. Outstanding = {c}
        BY <3>1 DEF CallInv, Alone
      <3> QED
        BY <2>2, <3>2, FS_Singleton
    <2> QED
      BY <2>1, <2>2 DEF CallInv, Kinds
  <1> QED
    BY <1>1, ControlInvariant, PTL

\* Whichever way an answer takes or fails to take, an execution that ends with 2,
\* or with 1 and was not interrupted, has sent nothing, and one that ends with 0
\* has its submission acknowledged (Manual, serve, Call, manualCommandRun).
THEOREM ExitsHonestly == Spec => []HonestExit
  <1>1. CallInv => HonestExit
    BY DEF CallInv, Truth, Exited, Told, Honest, HonestExit
  <1> QED
    BY <1>1, ControlInvariant, PTL
=============================================================================
