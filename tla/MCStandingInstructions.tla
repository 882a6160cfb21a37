----------------------- MODULE MCStandingInstructions -----------------------
(***************************************************************************)
(* Two instructions: rent runs every other tick and has no end, gym runs   *)
(* every tick and ends before the clock does.                              *)
(***************************************************************************)
EXTENDS StandingInstructions, TLC

CONSTANTS rent, gym

MCInstructions == {rent, gym}

MCPeriod == (rent :> 2) @@ (gym :> 1)

MCEndAt == (rent :> 9) @@ (gym :> 3)
=============================================================================
