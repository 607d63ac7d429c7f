------------------------------- MODULE MCLobby -------------------------------
(***************************************************************************)
(* Before the game: automatic start, the three prompt commands, a server   *)
(* that may stop, and more players than there are places.                  *)
(***************************************************************************)
EXTENDS Netorcai, TLC

CONSTANTS p1, p2, g1

MCRole == (p1 :> "player") @@ (p2 :> "player") @@ (g1 :> "game logic")
MCNbMax == [r \in PvRole |-> IF r = "player" THEN 1 ELSE 0]
MCSets == {<<"player", 2>>, <<"nb-turns-max", 0>>}
MCSymmetry == Permutations({p1, p2})
=============================================================================
