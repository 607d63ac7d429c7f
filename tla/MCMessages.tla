------------------------------ MODULE MCMessages -----------------------------
(***************************************************************************)
(* Sequences of three messages, valid or not, at and beyond the limits of  *)
(* the sizes.  Bytes are digits below 3, sizes go up to 80.                *)
(***************************************************************************)
EXTENDS Messages, TLC

Str(v) == [type |-> "string", value |-> v]
Num(n) == [type |-> "number", value |-> n]
Arr    == [type |-> "array", value |-> "[]"]
Obj(o) == [type |-> "object", value |-> o]
State  == Obj([all_clients |-> Obj("{}")])

Login(role, length, major) ==
  [message_type |-> Str("LOGIN"), role |-> Str(role),
   nickname |-> Str([length |-> length, blank |-> FALSE]),
   metaprotocol_version |-> Str(major)]
TurnAck(n, a) ==
  [message_type |-> Str("TURN_ACK"), turn_number |-> n, actions |-> a]
DoTurnAck(n, s) ==
  [message_type |-> Str("DO_TURN_ACK"), winner_player_id |-> n,
   game_state |-> s]

\* Contents of three digits fit as a first message, the longer ones do not.
MCObject ==
  (<<0, 0, 0>> :> Login("player", 10, 2)) @@
  (<<0, 0, 1>> :> Login("game logic", 1, 2)) @@
  (<<0, 1, 0>> :> Login("player", 11, 2)) @@
  (<<0, 1, 1>> :> Login("player", 10, 3)) @@
  (<<1, 0>>    :> Login("referee", 3, 2)) @@
  (<<1>>       :> [message_type |-> Str("TURN_ACK")]) @@
  (<<1, 0, 0>> :> TurnAck(Num(1), Arr)) @@
  (<<1, 0, 1>> :> TurnAck(Num(-1), Arr)) @@
  (<<1, 1, 0>> :> TurnAck(Num(2), Arr)) @@
  (<<1, 1, 1>> :> TurnAck(Str(0), Arr)) @@
  (<<0, 0, 0, 0>> :> [message_type |-> Str("DO_INIT_ACK"),
                      initial_game_state |-> State]) @@
  (<<0, 0, 0, 1>> :> [message_type |-> Str("DO_INIT_ACK"),
                      initial_game_state |-> Obj([x |-> Num(0)])]) @@
  (<<0, 0, 0, 0, 0, 0>> :> DoTurnAck(Num(3), State)) @@
  (<<0, 0, 0, 0, 0, 1>> :> DoTurnAck(Num(4), State)) @@
  (<<0, 0, 0, 0, 1, 0>> :> DoTurnAck(Num(-3), State)) @@
  (<<0, 0, 0, 0, 1, 1>> :> DoTurnAck(Num(-4), State)) @@
  (<<0, 0, 0, 1, 0, 0>> :> DoTurnAck(Num(0), Arr))

MCJson == DOMAIN MCObject
MCContent == MCJson \cup {<<>>, <<0>>, <<0, 0, 0, 0, 0, 0, 0>>}
=============================================================================
