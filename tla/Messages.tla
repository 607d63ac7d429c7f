------------------------------ MODULE Messages -------------------------------
(***************************************************************************)
(* The message readers of messages.go and the field readers of readutil.go *)
(* on JSON objects, and the handler that applies them to what module       *)
(* Framing delivers: readLoginMessage first, then the reader of the role.  *)
(*                                                                         *)
(* An object is a function on some field names.  A value is tagged with    *)
(* its JSON type.  A number n stands for n / 2: numbers need not be        *)
(* integral.  A nickname is reduced to its length and whether it has white *)
(* space, a version to its major number or "not a version".                *)
(***************************************************************************)
EXTENDS Framing

CONSTANTS
  Object,             \* Object[content] is what json.Unmarshal makes of it
  expectedTurnNumber, nbPlayers

ASSUME MessagesAssumption == nbPlayers \in Nat

VersionMajor == 2
Roles == {"player", "special player", "visualization", "game logic"}

VARIABLE handler  \* what it expects, the messages read, the last winner

messageVars == <<framingVars, handler>>

Missing == [type |-> "missing"]
Field(data, field) == IF field \in DOMAIN data THEN data[field] ELSE Missing

IsString(data, field) == Field(data, field).type = "string"
IsNumber(data, field) == Field(data, field).type = "number"
IsObject(data, field) == Field(data, field).type = "object"
IsArray(data, field) == Field(data, field).type = "array"

\* ReadInt converts a float64 to an int, towards zero.
ReadInt(data, field) ==
  LET n == Field(data, field).value
  IN IF n >= 0 THEN n \div 2 ELSE -((-n) \div 2)

checkMessageType(data, expected) ==
  IsString(data, "message_type") /\ data["message_type"].value = expected

readLoginMessage(data) ==
  /\ checkMessageType(data, "LOGIN")
  /\ IsString(data, "nickname")
  /\ data["nickname"].value.length \in 1 .. 10 /\ ~data["nickname"].value.blank
  /\ IsString(data, "role") /\ data["role"].value \in Roles
  /\ IsString(data, "metaprotocol_version")
  /\ data["metaprotocol_version"].value = VersionMajor

readTurnAckMessage(data) ==
  /\ checkMessageType(data, "TURN_ACK")
  /\ IsNumber(data, "turn_number")
  /\ ReadInt(data, "turn_number") = expectedTurnNumber
  /\ IsArray(data, "actions")

readDoInitAckMessage(data) ==
  /\ checkMessageType(data, "DO_INIT_ACK")
  /\ IsObject(data, "initial_game_state")
  /\ IsObject(data["initial_game_state"].value, "all_clients")

\* Mutant: the upper bound of winner_player_id is missing.
readDoTurnAckAnyWinner(data) ==
  /\ checkMessageType(data, "DO_TURN_ACK")
  /\ IsNumber(data, "winner_player_id")
  /\ ReadInt(data, "winner_player_id") >= -1
  /\ IsObject(data, "game_state")
  /\ IsObject(data["game_state"].value, "all_clients")

readDoTurnAckMessage(data) ==
  /\ checkMessageType(data, "DO_TURN_ACK")
  /\ IsNumber(data, "winner_player_id")
  /\ ReadInt(data, "winner_player_id") \in -1 .. nbPlayers - 1
  /\ IsObject(data, "game_state")
  /\ IsObject(data["game_state"].value, "all_clients")

Accepts(data) ==
  CASE handler.expects = "LOGIN"       -> readLoginMessage(data)
    [] handler.expects = "TURN_ACK"    -> readTurnAckMessage(data)
    [] handler.expects = "DO_INIT_ACK" -> readDoInitAckMessage(data)
    [] handler.expects = "DO_TURN_ACK" -> readDoTurnAckMessage(data)

\* What the handler expects after data.
Then(data) ==
  CASE handler.expects = "LOGIN" ->
         IF data["role"].value = "game logic" THEN "DO_INIT_ACK" ELSE "TURN_ACK"
    [] handler.expects = "TURN_ACK" -> "TURN_ACK"
    [] OTHER -> "DO_TURN_ACK"

\* A message that its reader refuses leads to a KICK: nothing more is read.
HandleMessage ==
  /\ handler.expects # "nothing" /\ handler.read < Len(incoming)
  /\ LET data == Object[incoming[handler.read + 1]]
     IN handler' =
          [expects |-> IF Accepts(data) THEN Then(data) ELSE "nothing",
           read    |-> handler.read + 1,
           winner  |-> IF handler.expects = "DO_TURN_ACK" /\ Accepts(data)
                       THEN ReadInt(data, "winner_player_id")
                       ELSE handler.winner]
  /\ UNCHANGED framingVars

MessagesInit ==
  FramingInit /\ handler = [expects |-> "LOGIN", read |-> 0, winner |-> -1]
MessagesNext == HandleMessage \/ (FramingNext /\ UNCHANGED handler)
MessagesSpec == MessagesInit /\ [][MessagesNext]_messageVars

-----------------------------------------------------------------------------
TypeOfMessage(i) == Object[sent[i]]["message_type"].value
RoleNamed == Object[sent[1]]["role"].value
TypeInSession(i) ==
  CASE i = 1 -> "LOGIN"
    [] i > 1 /\ RoleNamed # "game logic" -> "TURN_ACK"
    [] i = 2 /\ RoleNamed = "game logic" -> "DO_INIT_ACK"
    [] OTHER -> "DO_TURN_ACK"
Accepted == IF handler.expects = "nothing" THEN handler.read - 1
                                           ELSE handler.read

\* Whatever is sent and wherever the socket is cut, the messages that a
\* handler acts upon are the first ones sent: LOGIN, then only messages of the
\* role it names.  The winner it keeps is nobody or a player of the game.
SessionFollowsProtocol ==
  /\ \A i \in 1 .. Accepted : TypeOfMessage(i) = TypeInSession(i)
  /\ handler.winner \in -1 .. nbPlayers - 1

\* turn_number and winner_player_id are integral numbers (docs/metaprotocol.rst)
\* in every message that a handler acts upon.
AcceptedNumbersIntegral ==
  \A i \in 1 .. Accepted : \A f \in {"turn_number", "winner_player_id"} :
    f \in DOMAIN Object[sent[i]] => Object[sent[i]][f].value % 2 = 0
=============================================================================
