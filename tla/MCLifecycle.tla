----------------------------- MODULE MCLifecycle -----------------------------
(***************************************************************************)
(* Two runs of the service for one Sonarr instance and one for another.     *)
(***************************************************************************)
EXTENDS Lifecycle, TLC

ForOneOrOther == ("p1" :> "tv") @@ ("p2" :> "tv") @@ ("p3" :> "anime")
=============================================================================
