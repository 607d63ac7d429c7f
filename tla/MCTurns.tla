------------------------------- MODULE MCTurns -------------------------------
(***************************************************************************)
(* Timers mode: a player that answers and a visualization that may fail.   *)
(***************************************************************************)
EXTENDS Netorcai, TLC

CONSTANTS p1, v1, g1

MCRole == (p1 :> "player") @@ (v1 :> "visualization") @@ (g1 :> "game logic")
MCNbMax == [r \in PvRole |-> IF r = "special player" THEN 0 ELSE 1]
=============================================================================
