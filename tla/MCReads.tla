------------------------------- MODULE MCReads -------------------------------
(***************************************************************************)
(* Two plans that share a series; one was also decided on queue rows, which *)
(* are never cached, the other on its episode.                              *)
(***************************************************************************)
EXTENDS Reads, TLC

Shared == ("first" :> {"rows", "series"}) @@ ("second" :> {"series", "episode"})
=============================================================================
