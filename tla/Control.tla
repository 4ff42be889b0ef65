------------------------------ MODULE Control ------------------------------
(***************************************************************************)
(* Manual control: the callers of the trigger command, the handlers that   *)
(* internal/control runs for their connections, and how Service.Request    *)
(* hands one call at a time to the observer loop of Service.Run.           *)
(*                                                                         *)
(* Every channel and context is kept: the slots of the listener, the       *)
(* admission token, the buffers of s.requests and of a call's result, the  *)
(* cancellation of a handler by its caller, its deadline or the server.    *)
(* What a cycle does to the store is modelled in Remediator; here it sends *)
(* a mutation or not, with a known or an unknown result.  A caller that    *)
(* has exited may come back with a new request.                            *)
(***************************************************************************)
EXTENDS Naturals, FiniteSets

CONSTANTS
  Callers,       \* processes that run the trigger command
  Executing,     \* those that use --execute; the others preview
  HandlerLimit   \* slots of control.Start

None == "none"

ASSUME ControlAssumption ==
  /\ Executing \subseteq Callers /\ HandlerLimit \in Nat \ {0} /\ IsFiniteSet(Callers)
  /\ None \notin Callers

VARIABLES
  caller,     \* of each caller: not started, connected, or its exit code
  handler,    \* of each caller: where the handler of its connection is
  cancelled,  \* the handlers whose context is done
  report,     \* the exit code of the report a handler is to write
  admission,  \* tokens in s.admission
  requests,   \* the caller whose call s.requests holds, or "none"
  result,     \* the buffered result of each call
  loop,       \* where Run is
  current,    \* the caller whose request Run has taken, or "none"
  due,        \* the next automatic cycle is due
  server,     \* the control server
  effect,     \* history: what the request of each caller did to Sonarr
  interrupted \* history: the callers that SIGINT reached

callVars == <<caller, handler, cancelled, report, interrupted>>
loopVars == <<loop, current, due, effect>>
channels == <<admission, requests, result>>
vars == <<callVars, channels, loopVars, server>>

Codes == {"0", "1", "2", "3", "130"}

TypeOK ==
  /\ caller \in [Callers -> {"new", "connected"} \cup Codes]
  /\ handler \in [Callers -> {None, "serve", "waiting", "dispatched", "reply"}]
  /\ cancelled \in SUBSET Callers
  /\ report \in [Callers -> Codes \cup {None}]
  /\ admission \in {0, 1}
  /\ requests \in Callers \cup {None}
  /\ result \in [Callers -> Codes \cup {None}]
  /\ loop \in {"top", "select", "overdue", "manual", "cycle", "release", "over"}
  /\ current \in Callers \cup {None}
  /\ due \in BOOLEAN
  /\ server \in {"up", "closing", "closed"}
  /\ effect \in [Callers -> {None, "reserved", "acknowledged", "uncertain"}]
  /\ interrupted \in SUBSET Callers

Init ==
  /\ caller = [c \in Callers |-> "new"] /\ handler = [c \in Callers |-> None]
  /\ cancelled = {} /\ report = [c \in Callers |-> None]
  /\ admission = 0 /\ requests = None /\ result = [c \in Callers |-> None]
  /\ loop = "top" /\ current = None /\ due = TRUE
  /\ server = "up"
  /\ effect = [c \in Callers |-> None] /\ interrupted = {}

----------------------------------------------------------------------------
(* The trigger command: control.Call. *)

\* The code of a call whose answer is not known: it may have been executed.
Unanswered(c) == IF c \in Executing THEN "3" ELSE "1"

Serving == {c \in Callers : handler[c] # None}

\* What the command exits with when it cannot print its report: an interrupted
\* execution exits with 1.
Unprinted(c, code) == IF c \in Executing /\ code \in {"0", "3"} THEN "3" ELSE "1"

\* The end of the command: SIGINT turns whatever it reports into 130, and then
\* the report is printed or it is not.
Exit(c, code) ==
  \E seen \in {code, "130"} : \E exit \in {seen, Unprinted(c, seen)} :
    /\ caller' = [caller EXCEPT ![c] = exit]
    /\ interrupted' = interrupted \cup (IF seen = "130" THEN {c} ELSE {})

\* A connection gets a slot, or is closed at once.
Call(c) ==
  /\ caller[c] = "new"
  /\ CASE server # "up" -> Exit(c, "1") /\ UNCHANGED handler
       [] server = "up" /\ Cardinality(Serving) >= HandlerLimit ->
            Exit(c, Unanswered(c)) /\ UNCHANGED handler
       [] OTHER -> /\ caller' = [caller EXCEPT ![c] = "connected"]
                   /\ handler' = [handler EXCEPT ![c] = "serve"]
                   /\ UNCHANGED interrupted
  /\ UNCHANGED <<cancelled, report, channels, loopVars, server>>

\* Its deadline, a closed connection or SIGINT ends the wait for the answer.
Leave(c) ==
  /\ caller[c] = "connected" /\ Exit(c, Unanswered(c))
  /\ UNCHANGED <<handler, cancelled, report, channels, loopVars, server>>

\* The next request of the same operator, with an identifier of its own.
Return(c) ==
  /\ caller[c] \in Codes /\ handler[c] = None /\ current # c /\ requests # c
  /\ caller' = [caller EXCEPT ![c] = "new"]
  /\ cancelled' = cancelled \ {c}
  /\ effect' = [effect EXCEPT ![c] = None]
  /\ result' = [result EXCEPT ![c] = None]
  /\ interrupted' = interrupted \ {c}
  /\ UNCHANGED <<handler, report, admission, requests, loop, current, due, server>>

----------------------------------------------------------------------------
(* A handler: Server.serve around Service.Request. *)

Answer(c, code) ==
  /\ handler' = [handler EXCEPT ![c] = "reply"]
  /\ report' = [report EXCEPT ![c] = code]

\* The deadline of the request, the end of the connection, or Close.
Cancel(c) ==
  /\ handler[c] \in {"serve", "waiting", "dispatched"} /\ c \notin cancelled
  /\ cancelled' = cancelled \cup {c}
  /\ UNCHANGED <<caller, interrupted, handler, report, channels, loopVars, server>>

Admissible == admission = 0

\* The context may be done before the request is admitted.
Admit(c) ==
  /\ handler[c] = "serve"
  /\ IF Admissible
     THEN /\ admission' = admission + 1 /\ handler' = [handler EXCEPT ![c] = "waiting"]
          /\ UNCHANGED report
     ELSE Answer(c, "1") /\ UNCHANGED admission
  /\ UNCHANGED <<caller, interrupted, cancelled, requests, result, loopVars, server>>

GiveUp(c) ==
  /\ handler[c] = "waiting" /\ c \in cancelled
  /\ admission > 0 /\ admission' = admission - 1
  /\ Answer(c, "1")
  /\ UNCHANGED <<caller, interrupted, cancelled, requests, result, loopVars, server>>

\* The buffer of s.requests has room for the one call that is admitted.  A
\* select that could also see the end of the context takes either way.
Send(c) ==
  /\ handler[c] = "waiting" /\ requests = None
  /\ requests' = c /\ handler' = [handler EXCEPT ![c] = "dispatched"]
  /\ UNCHANGED <<caller, interrupted, cancelled, report, admission, result, loopVars, server>>

TakeResult(c) ==
  /\ handler[c] = "dispatched" /\ result[c] # None
  /\ Answer(c, result[c])
  /\ UNCHANGED <<caller, interrupted, cancelled, channels, loopVars, server>>

\* Run still serves the call and gives the token back when it is done.
AbandonCodeFailed(c) == "1"
AbandonCode(c) == IF c \in Executing THEN "3" ELSE "1"
AfterAbandonReleased == 0
AfterAbandon == admission
MayAbandonNever(c) == FALSE
MayAbandon(c) == c \in cancelled

Abandon(c) ==
  /\ handler[c] = "dispatched" /\ MayAbandon(c)
  /\ Answer(c, AbandonCode(c)) /\ admission' = AfterAbandon
  /\ UNCHANGED <<caller, interrupted, cancelled, requests, result, loopVars, server>>

\* The report reaches the caller, unless the connection is gone.
Reply(c) ==
  /\ handler[c] = "reply"
  /\ handler' = [handler EXCEPT ![c] = None]
  /\ cancelled' = cancelled \cup {c}
  /\ report' = [report EXCEPT ![c] = None]
  /\ IF caller[c] = "connected"
     THEN \E code \in {report[c]} \cup (IF server = "up" THEN {} ELSE {Unanswered(c)}) :
            Exit(c, code)
     ELSE UNCHANGED <<caller, interrupted>>
  /\ UNCHANGED <<channels, loopVars, server>>

Handle(c) == Admit(c) \/ GiveUp(c) \/ Send(c) \/ TakeResult(c) \/ Abandon(c) \/ Reply(c)

----------------------------------------------------------------------------
(* The observer: Service.Run and Service.Manual. *)

DueNext == due' = TRUE /\ ~due /\ UNCHANGED <<callVars, channels, loop, current, effect, server>>

\* An overdue observation has priority over manual requests.
OverdueAlone == due /\ admission = 0
Overdue == due

\* An automatic cycle; its error ends the service.
Cycle ==
  /\ (loop = "top" /\ Overdue /\ server = "up") \/ loop = "overdue"
  /\ due' = FALSE
  /\ loop' \in {IF loop = "top" THEN "select" ELSE "manual", "over"}
  /\ UNCHANGED <<callVars, channels, current, effect, server>>

Wait ==
  /\ loop = "top" /\ ~Overdue /\ server = "up" /\ loop' = "select"
  /\ UNCHANGED <<callVars, channels, current, due, effect, server>>

Timer ==
  /\ loop = "select" /\ due /\ loop' = "top"
  /\ UNCHANGED <<callVars, channels, current, due, effect, server>>

\* Run takes the call, whether or not its handler still waits for it.
Dispatch ==
  /\ loop = "select" /\ requests # None
  /\ current' = requests /\ requests' = None
  /\ loop' = IF Overdue THEN "overdue" ELSE "manual"
  /\ UNCHANGED <<callVars, admission, result, due, effect, server>>

Finished(code) ==
  /\ result' = [result EXCEPT ![current] = code]
  /\ loop' = "release"
  /\ UNCHANGED <<callVars, admission, requests, current, due, effect, server>>

\* A request that is over, or whose receipt cannot be saved, is refused.
Refuse == loop = "manual" /\ (current \in cancelled \/ current \in Executing) /\ Finished("1")

Evaluate ==
  /\ loop = "manual" /\ current \notin cancelled /\ loop' = "cycle"
  /\ UNCHANGED <<callVars, channels, current, due, effect, server>>

\* The intent of a mutation is saved, or its save fails and the cycle with it.
Reserve ==
  /\ loop = "cycle" /\ current \in Executing \ cancelled /\ effect[current] = None
  /\ effect' = [effect EXCEPT ![current] = "reserved"]
  /\ UNCHANGED <<callVars, channels, loop, current, due, server>>

Submit(known) ==
  /\ loop = "cycle" /\ effect[current] = "reserved"
  /\ effect' = [effect EXCEPT ![current] = known]
  /\ UNCHANGED <<callVars, channels, loop, current, due, server>>

\* The exit code of a finished cycle: failed by an error or its deadline.
ExitCode(failed) ==
  CASE failed -> IF effect[current] = None THEN "1" ELSE "3"
    [] ~failed /\ effect[current] = "acknowledged" -> "0"
    [] ~failed /\ effect[current] = "uncertain" -> "3"
    [] OTHER -> "2"

\* The receipt of an executed request is saved last; if that fails, exit 3.  A
\* preview exits with 0 when it found something to do.
EndManual ==
  /\ loop = "cycle"
  /\ \E failed \in BOOLEAN :
       /\ current \in cancelled \/ effect[current] = "reserved" => failed
       /\ \E code \in {ExitCode(failed)}
              \cup (IF current \in Executing THEN {"3"} ELSE IF failed THEN {} ELSE {"0"}) :
            Finished(code)

\* Run takes a token back for the call it has served.
Release ==
  /\ loop = "release" /\ admission > 0
  /\ admission' = admission - 1
  /\ loop' = "top" /\ current' = None
  /\ UNCHANGED <<callVars, requests, result, due, effect, server>>

Run ==
  \/ Cycle \/ Wait \/ Timer \/ Dispatch
  \/ Refuse \/ Evaluate \/ Reserve
  \/ \E known \in {"acknowledged", "uncertain"} : Submit(known)
  \/ EndManual \/ Release

----------------------------------------------------------------------------
(* The end of the process: observe waits for Run, then closes the server.  *)

\* SIGTERM cancels the context of Run, of the server and of its handlers.
Signal ==
  /\ server = "up" /\ server' = "closing"
  /\ cancelled' = cancelled \cup {c \in Callers : handler[c] \in {"serve", "waiting", "dispatched"}}
  /\ UNCHANGED <<caller, interrupted, handler, report, channels, loopVars>>

Stop ==
  /\ server # "up" /\ loop \in {"top", "select"} /\ loop' = "over"
  /\ UNCHANGED <<callVars, channels, current, due, effect, server>>

\* Close: Run has returned; no handler is left when it returns.
Close ==
  \/ loop = "over" /\ Signal
  \/ /\ loop = "over" /\ server = "closing" /\ Serving = {} /\ server' = "closed"
     /\ UNCHANGED <<callVars, channels, loopVars>>

Next ==
  \/ \E c \in Callers : Call(c) \/ Leave(c) \/ Return(c) \/ Cancel(c) \/ Handle(c)
  \/ DueNext \/ Run \/ Signal \/ Stop \/ Close

Spec == Init /\ [][Next]_vars

\* Goroutines go on, the calls of a cycle have timeouts, and every request
\* expires.  Nothing is assumed of callers, signals and the choice of a select.
FairSpec ==
  /\ Spec /\ WF_vars(Run \/ Stop) /\ WF_vars(Close)
  /\ \A c \in Callers : WF_vars(Handle(c)) /\ WF_vars(Cancel(c))

----------------------------------------------------------------------------
(* Properties. *)

Outstanding == {c \in Callers : handler[c] = "waiting" \/ c \in {requests, current}}

\* At most one request is waiting or executing, and the token that says so is
\* neither lost nor given back twice, whichever of the two sides of a call
\* gives it up first.
OneCall == Cardinality(Outstanding) = admission

\* The exit code tells the truth about an execution: one that ends with 2, or
\* with 1 and was not interrupted, has sent nothing, and 0 is an acknowledged
\* submission.  An interrupted command whose report cannot be printed exits with
\* 1 whatever was sent (manualCommandRun, main).
HonestExit ==
  \A c \in Executing :
    /\ caller[c] = "2" \/ (caller[c] = "1" /\ c \notin interrupted) =>
         effect[c] \in {None, "reserved"}
    /\ caller[c] = "0" => effect[c] = "acknowledged"

\* Repeated requests do not starve the automatic observation.
ObserverNotStarved == due ~> ~due \/ server # "up" \/ loop = "over"

\* Once the service is stopped, Close returns: no handler waits for ever.
ShutdownEnds == server = "closing" ~> server = "closed"
=============================================================================
