------------------------------- MODULE MCGame --------------------------------
(***************************************************************************)
(* Two players and a game logic, from the start of the program on.         *)
(***************************************************************************)
EXTENDS Netorcai, TLC

CONSTANTS p1, p2, g1

MCRole == (p1 :> "player") @@ (p2 :> "player") @@ (g1 :> "game logic")
MCNbMax == [r \in PvRole |-> IF r = "player" THEN 2 ELSE 0]
MCSets == {<<"nb-turns-max", 2>>}
MCSymmetry == Permutations({p1, p2})
=============================================================================
