------------------------------- MODULE MCFast --------------------------------
(***************************************************************************)
(* Fast mode: a player and a special player that may both fail or leave at *)
(* any moment, and an abort by signal.                                     *)
(***************************************************************************)
EXTENDS Netorcai, TLC

CONSTANTS p1, s1, g1

MCRole == (p1 :> "player") @@ (s1 :> "special player") @@ (g1 :> "game logic")
MCNbMax == [r \in PvRole |-> IF r = "visualization" THEN 0 ELSE 1]
=============================================================================
