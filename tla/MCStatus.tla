----------------------------- MODULE MCStatus -----------------------------
(* Two repositories that both have one unit. *)
EXTENDS Status, TLC

CONSTANTS A, B, app

MCRepoOrder == <<A, B>>
MCUnitsOf == A :> {app} @@ B :> {app}
===========================================================================
