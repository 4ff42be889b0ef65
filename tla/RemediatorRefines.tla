-------------------------- MODULE RemediatorRefines --------------------------
(***************************************************************************)
(* The observer loop seen as Mutations: a transmission is a Send, the       *)
(* verification of its outcome is a Resolve, and every other step of a      *)
(* cycle, a save, a crash, a restart or a manual request is a stutter.      *)
(***************************************************************************)
EXTENDS Remediator

\* The parts of a transmission that the abstract log keeps.
Logged(s) == [download |-> s.download, episodes |-> s.decision.episodes]

SentLog == [k \in DOMAIN sent |-> Logged(sent[k])]
SentUnknown == {k \in DOMAIN sent : sent[k].end = "open"}

Abstract == INSTANCE Mutations WITH log <- SentLog, unknown <- SentUnknown

\* The observer implements the log of mutations: whatever fails in execute,
\* verify and Save, and however often the process is restarted, each step
\* sends at most one mutation that concerns none of unknown outcome, or
\* resolves one that stays resolved.
ImplementsMutations == Abstract!Spec
=============================================================================
