--------------------------- MODULE ClientProtocol ----------------------------
(***************************************************************************)
(* What netorcai promises to one player or visualization: the order of the *)
(* messages it receives and the turn numbers they carry.  Compared with    *)
(* client.state, ACKED is the moment between the TURN_ACK of a player and  *)
(* the forwarding of its actions, ENDED follows GAME_ENDS, and LEAVING is  *)
(* a logged client that is being removed.                                  *)
(***************************************************************************)
EXTENDS Integers

CONSTANT plays   \* TRUE for a player, FALSE for a visualization

VARIABLES
  phase,   \* the state netorcai associates with the client
  turn,    \* the number of the last TURN, -1 before the first
  last     \* the type of the last message sent to the client

protoVars == <<phase, turn, last>>

ProtoInit == phase = "UNLOGGED" /\ turn = -1 /\ last = "none"

LoginAck ==
  /\ phase = "UNLOGGED" /\ phase' = "LOGGED"
  /\ last' = "LOGIN_ACK" /\ turn' = turn

GameStarts ==
  /\ phase = "LOGGED" /\ phase' = "READY"
  /\ last' = "GAME_STARTS" /\ turn' = turn

\* The phases in which the client has no TURN left to acknowledge.  The
\* TURN_ACK of a visualization is handled at once.
MayBeSentTurn ==
  phase \in {"READY", "ACKED"} \/ (~plays /\ phase = "THINKING")

\* A TURN is newer than all earlier ones; turns may be skipped.
Turn ==
  /\ MayBeSentTurn /\ phase' = "THINKING"
  /\ last' = "TURN" /\ turn' > turn

TurnAck ==
  /\ \/ plays /\ phase = "THINKING" /\ phase' = "ACKED"
     \/ plays /\ phase = "ACKED" /\ phase' = "READY"
     \/ ~plays /\ phase = "THINKING" /\ phase' = "READY"
  /\ UNCHANGED <<turn, last>>

GameEnds ==
  /\ phase \in {"READY", "THINKING"} /\ phase' = "ENDED"
  /\ last' = "GAME_ENDS" /\ turn' = turn

\* A message that is refused or cannot be sent: only KICK may follow.
Leave ==
  /\ phase \notin {"UNLOGGED", "ENDED", "LEAVING", "KICKED"}
  /\ phase' = "LEAVING"
  /\ \/ turn' = turn
     \/ MayBeSentTurn /\ turn' > turn
  /\ last' = last

\* Nothing follows a KICK.
KickClient ==
  /\ phase \notin {"ACKED", "KICKED"} /\ phase' = "KICKED"
  /\ last' = "KICK" /\ turn' = turn

ProtoNext == \/ LoginAck \/ GameStarts \/ Turn \/ TurnAck \/ GameEnds
             \/ Leave \/ KickClient

ProtoStep == [ProtoNext]_protoVars

ProtoSpec == ProtoInit /\ [][ProtoNext]_protoVars
=============================================================================
