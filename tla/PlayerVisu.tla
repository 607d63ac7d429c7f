----------------------------- MODULE PlayerVisu ------------------------------
(***************************************************************************)
(* The goroutine of a logged player or visualization (control_pv.go).  A   *)
(* client is abstracted to the messages its reader goroutine delivers.     *)
(***************************************************************************)
EXTENDS NetorcaiState

\* A message that cannot be read, or that readTurnAckMessage refuses whatever
\* the turn; a TURN_ACK is represented by its turn number.
BadMessage == -2

\* A client that is not faulty only acknowledges the TURN it is working on.
Incoming(c) ==
  IF c \in Faulty
  THEN {BadMessage, lastTurn[c] - 1, lastTurn[c], lastTurn[c] + 1}
  ELSE {n \in {lastTurn[c]} : state[c] = "THINKING"}

\* The last two steps of KickLoggedPlayerOrVisu need the mutex.
KickLogged(c) == Goto(c, "kick")

\* Mutant: the slice is shortened without the swap.
RemoveLast(s, c) == IF c \notin Elems(s) THEN s ELSE SubSeq(s, 1, Len(s) - 1)

\* The client list without c: the last element takes its place.
SwapRemove(s, c) ==
  IF c \notin Elems(s) THEN s
  ELSE LET i == CHOOSE j \in DOMAIN s : s[j] = c
       IN [j \in 1 .. Len(s) - 1 |-> IF j = i THEN s[Len(s)] ELSE s[j]]

PvTerminate(c) ==
  /\ pc[c] \in {"loop", "fin"} /\ c \in Pvs
  /\ canTerminate[c]
  /\ canTerminate' = [canTerminate EXCEPT ![c] = FALSE]
  /\ Kick(c)
  /\ Goto(c, "done")
  /\ UNCHANGED <<gsVars, pvVars, chanVars, glVars, mainVars>>

\* Mutant: the pointer to the game logic is not copied.
ReceiveGameStartsOnly(c) ==
  /\ pc[c] = "loop"
  /\ Send(c, "GAME_STARTS")
  /\ state' = [state EXCEPT ![c] = "READY"]
  /\ UNCHANGED pc

\* The receiving side of the unbuffered gameStarts channel.
ReceiveGameStarts(c) ==
  /\ pc[c] = "loop"
  /\ \/ /\ Send(c, "GAME_STARTS")
        /\ state' = [state EXCEPT ![c] = "READY"]
        /\ Goto(c, "copyGL")
     \/ /\ c \in Faulty
        /\ KickLogged(c)
        /\ UNCHANGED <<state, wire>>

CopyGLPointer(c) ==
  /\ pc[c] = "copyGL" /\ MutexFree
  /\ glClient' = [glClient EXCEPT ![c] = TRUE]
  /\ Goto(c, "loop")
  /\ UNCHANGED <<gsVars, state, wire, canTerminate, playerID, playerInfo,
                 newTurn, gameEnds, lastTurn, turnBuffer, chanVars, glVars,
                 mainVars>>

ReceiveGameEnds(c) ==
  /\ pc[c] = "loop"
  /\ gameEnds[c]
  /\ gameEnds' = [gameEnds EXCEPT ![c] = FALSE]
  /\ \/ Send(c, "GAME_ENDS") /\ Goto(c, "endKick")
     \/ c \in Faulty /\ KickLogged(c) /\ UNCHANGED wire
  /\ UNCHANGED <<gsVars, state, canTerminate, playerID, playerInfo, newTurn,
                 lastTurn, turnBuffer, glClient, chanVars, glVars, mainVars>>

KickAfterGameEnds(c) ==
  /\ pc[c] = "endKick"
  /\ Kick(c)
  /\ Goto(c, "fin")
  /\ UNCHANGED <<gsVars, canTerminate, pvVars, chanVars, glVars, mainVars>>

\* lastTurnNumberSent is updated before the message is sent.
SendTurn(c, n, next) ==
  /\ lastTurn' = [lastTurn EXCEPT ![c] = n]
  /\ \/ /\ Send(c, "TURN")
        /\ state' = [state EXCEPT ![c] = "THINKING"]
        /\ Goto(c, next)
     \/ /\ c \in Faulty
        /\ KickLogged(c)
        /\ UNCHANGED <<state, wire>>

ReceiveNewTurn(c) ==
  /\ Running /\ pc[c] = "loop"
  /\ newTurn[c] # <<>>
  /\ newTurn' = [newTurn EXCEPT ![c] = Tail(@)]
  /\ \/ /\ state[c] = "READY"
        /\ SendTurn(c, Head(newTurn[c]), "loop")
        /\ UNCHANGED turnBuffer
     \/ /\ state[c] # "READY"
        /\ turnBuffer' = [turnBuffer EXCEPT
             ![c] = IF state[c] = "THINKING" THEN Head(newTurn[c]) ELSE @]
        /\ UNCHANGED <<lastTurn, state, wire, pc>>
  /\ UNCHANGED <<gsVars, canTerminate, playerID, playerInfo, gameEnds,
                 glClient, chanVars, glVars, mainVars>>

\* Mutant: the state of the client is not checked.
AcceptsAnyState(c, n) == n = lastTurn[c]

\* A TURN_ACK is accepted for the last TURN sent, while the client thinks.
AcceptsTurnAck(c, n) == n = lastTurn[c] /\ state[c] = "THINKING"

RefuseMessage(c, n) ==
  /\ pc[c] = "loop"
  /\ ~AcceptsTurnAck(c, n)
  /\ KickLogged(c)
  /\ UNCHANGED <<gsVars, state, wire, canTerminate, pvVars, chanVars, glVars,
                 mainVars>>

\* Mutant: the turn buffer is not emptied.
AfterTurnAckKeepsBuffer(c) ==
  \/ turnBuffer[c] # NoTurn /\ SendTurn(c, turnBuffer[c], "loop")
     /\ UNCHANGED turnBuffer
  \/ /\ turnBuffer[c] = NoTurn
     /\ state' = [state EXCEPT ![c] = "READY"]
     /\ Goto(c, "loop")
     /\ UNCHANGED <<turnBuffer, lastTurn, wire>>

\* What follows the forwarding of the actions: a buffered TURN is sent.
AfterTurnAck(c) ==
  \/ /\ turnBuffer[c] # NoTurn
     /\ SendTurn(c, turnBuffer[c], "loop")
     /\ turnBuffer' = [turnBuffer EXCEPT ![c] = NoTurn]
  \/ /\ turnBuffer[c] = NoTurn
     /\ state' = [state EXCEPT ![c] = "READY"]
     /\ Goto(c, "loop")
     /\ UNCHANGED <<turnBuffer, lastTurn, wire>>

ReceiveTurnAck(c, n) ==
  /\ pc[c] = "loop"
  /\ AcceptsTurnAck(c, n)
  /\ \/ /\ IsPlayer(c)
        /\ Goto(c, "forward")
        /\ UNCHANGED <<state, wire, lastTurn, turnBuffer>>
     \/ ~IsPlayer(c) /\ AfterTurnAck(c)
  /\ UNCHANGED <<gsVars, canTerminate, playerID, playerInfo, newTurn,
                 gameEnds, glClient, chanVars, glVars, mainVars>>

\* glClient.playerAction <- ... blocks while the channel is full.
ForwardActions(c) ==
  /\ pc[c] = "forward"
  /\ playerAction = <<>>
  /\ playerAction' = Append(playerAction,
                            [id |-> playerID[c], turn |-> lastTurn[c]])
  /\ AfterTurnAck(c)
  /\ UNCHANGED <<gsVars, canTerminate, playerID, playerInfo, newTurn,
                 gameEnds, glClient, start, playerDisconnected, glVars,
                 mainVars>>

KickLock(c) ==
  /\ pc[c] = "kick" /\ MutexFree
  /\ mutex' = c
  /\ playerInfo' = [playerInfo EXCEPT
       ![c] = IF IsPlayer(c) /\ @ # "nil" THEN "disconnected" ELSE @]
  /\ Goto(c, "kicking")
  /\ UNCHANGED <<gameState, nbMax, nbTurnsMax, roster, state, wire,
                 canTerminate, playerID, newTurn, gameEnds, lastTurn,
                 turnBuffer, glClient, chanVars, glVars, mainVars>>

\* Mutant: the special players are forgotten.
NotifyPlayersOnly(c) ==
  IF Role[c] = "player" /\ gameState = "GAME_RUNNING" /\ Fast
  THEN /\ playerDisconnected = <<>>
       /\ playerDisconnected' = Append(playerDisconnected, playerID[c])
  ELSE UNCHANGED playerDisconnected

\* In fast mode the game logic goroutine is told that the player left: the
\* send is done with the mutex held, and blocks while the channel is full.
\* (The code reads the identifier before it blocks; identifiers only change
\* before GAME_STARTS, and then the game logic never reads this channel.)
NotifyDisconnection(c) ==
  IF IsPlayer(c) /\ gameState = "GAME_RUNNING" /\ Fast
  THEN /\ playerDisconnected = <<>>
       /\ playerDisconnected' = Append(playerDisconnected, playerID[c])
  ELSE UNCHANGED playerDisconnected

KickUnlock(c) ==
  /\ pc[c] = "kicking"
  /\ NotifyDisconnection(c)
  /\ roster' = [roster EXCEPT ![Role[c]] = SwapRemove(@, c)]
  /\ mutex' = "free"
  /\ Kick(c)
  /\ Goto(c, "done")
  /\ UNCHANGED <<gameState, nbMax, nbTurnsMax, canTerminate, pvVars, start,
                 playerAction, glVars, mainVars>>

\* The messages of the client itself, and the steps of its goroutine.
PvInput(c) ==
  \E n \in Incoming(c) : RefuseMessage(c, n) \/ ReceiveTurnAck(c, n)
PvStep(c) ==
  \/ PvTerminate(c) \/ CopyGLPointer(c) \/ ReceiveGameEnds(c)
  \/ KickAfterGameEnds(c) \/ ReceiveNewTurn(c) \/ ForwardActions(c)
  \/ KickLock(c) \/ KickUnlock(c)
=============================================================================
