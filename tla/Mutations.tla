----------------------------- MODULE Mutations -----------------------------
(***************************************************************************)
(* What the observer promises about the mutations it sends to Sonarr, apart *)
(* from cycles, saves, crashes and requests: they form a log, the outcome   *)
(* of each is unknown until it is resolved, once and for all, and nothing   *)
(* is sent about a download or an episode of a mutation whose outcome is    *)
(* unknown.                                                                 *)
(***************************************************************************)
EXTENDS Naturals, Sequences

CONSTANTS Downloads, Episodes

VARIABLES
  log,     \* the mutations sent so far, in order
  unknown  \* the positions in log of those whose outcome is unknown

Mutation == [download : Downloads, episodes : SUBSET Episodes]

Concerns(m, n) == m.download = n.download \/ m.episodes \cap n.episodes # {}

Init == log = <<>> /\ unknown = {}

Send(m) ==
  /\ \A k \in unknown : ~Concerns(log[k], m)
  /\ log' = Append(log, m)
  /\ unknown' = unknown \cup {Len(log) + 1}

Resolve(k) ==
  /\ k \in unknown
  /\ unknown' = unknown \ {k}
  /\ UNCHANGED log

Next == (\E m \in Mutation : Send(m)) \/ (\E k \in unknown : Resolve(k))

Spec == Init /\ [][Next]_<<log, unknown>>
=============================================================================
