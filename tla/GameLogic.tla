----------------------------- MODULE GameLogic -------------------------------
(***************************************************************************)
(* The goroutine of the game logic (control_gl.go): the start of the game, *)
(* the turns in fast mode and with timers, the end of the game.            *)
(***************************************************************************)
EXTENDS PlayerVisu, Functions

GLStart(g) ==
  /\ pc[g] = "waitStart"
  /\ start > 0
  /\ start' = start - 1
  /\ Goto(g, "copy")
  /\ UNCHANGED <<gsVars, state, wire, canTerminate, pvVars, playerAction,
                 playerDisconnected, glVars, mainVars>>

\* The select branches on canTerminate, waitGameLogicFinition's included.
GLTerminate(g) ==
  /\ pc[g] \in {"waitStart", "initAck", "ack", "collect", "timers", "fin"}
  /\ pc[g] = "collect" => awaited # {}
  /\ g \in GLs
  /\ canTerminate[g]
  /\ canTerminate' = [canTerminate EXCEPT ![g] = FALSE]
  /\ Kick(g)
  /\ Goto(g, "closing")
  /\ UNCHANGED <<gsVars, pvVars, chanVars, glVars, mainVars>>

GLClose(g) ==
  /\ pc[g] = "closing"
  /\ Goto(g, "done")
  /\ UNCHANGED <<gsVars, state, wire, canTerminate, pvVars, chanVars, glVars,
                 mainVars>>

\* Kick, onexit <- code, then waitGameLogicFinition.
GLLeaves(g) ==
  /\ Kick(g)
  /\ "gl" \notin exits
  /\ exits' = exits \cup {"gl"}
  /\ Goto(g, "fin")

\* A message before the game starts.
GLEarlyMessage(g) ==
  /\ g \in Faulty
  /\ pc[g] = "waitStart"
  /\ Goto(g, "earlyKick")
  /\ UNCHANGED <<gsVars, state, wire, canTerminate, pvVars, chanVars, glVars,
                 mainVars>>

GLEarlyKick(g) ==
  /\ pc[g] = "earlyKick" /\ MutexFree
  /\ GLLeaves(g)
  /\ UNCHANGED <<gsVars, canTerminate, pvVars, chanVars, glVars, mainPc,
                 server, promptPc>>

\* Mutant: the lists are copied without the mutex.
GLCopyWithoutMutex(g) ==
  /\ pc[g] = "copy"
  /\ snap' = [taken |-> TRUE, players |-> roster["player"],
              specialPlayers |-> roster["special player"],
              visus |-> roster["visualization"], nbTurnsMax |-> nbTurnsMax]
  /\ Goto(g, "assign")
  /\ UNCHANGED <<gsVars, state, wire, canTerminate, pvVars, chanVars, todo,
                 turnNumber, playerActions, connectedPlayers, awaited, timers,
                 mainVars>>

GLCopyLists(g) ==
  /\ pc[g] = "copy" /\ MutexFree
  /\ snap' = [taken |-> TRUE, players |-> roster["player"],
              specialPlayers |-> roster["special player"],
              visus |-> roster["visualization"], nbTurnsMax |-> nbTurnsMax]
  /\ Goto(g, "assign")
  /\ UNCHANGED <<gsVars, state, wire, canTerminate, pvVars, chanVars, todo,
                 turnNumber, playerActions, connectedPlayers, awaited, timers,
                 mainVars>>

\* rand.Perm(n)
Perm(n) == Bijection(1 .. n, 0 .. n - 1)

IndexOf(s, c) == CHOOSE i \in DOMAIN s : s[i] = c

\* Special players come first, in list order; players are shuffled.
AssignedID(c, perm) ==
  IF c \in Elems(snap.specialPlayers) THEN IndexOf(snap.specialPlayers, c) - 1
  ELSE perm[IndexOf(snap.players, c)] + Len(snap.specialPlayers)

\* Neither the identifiers nor the player informations are written with the
\* mutex held.
GLAssignIDs(g) ==
  /\ pc[g] = "assign"
  /\ \E perm \in Perm(Len(snap.players)) :
       playerID' = [c \in Client |-> IF c \in Elems(AllPlayers)
                                     THEN AssignedID(c, perm)
                                     ELSE playerID[c]]
  /\ Goto(g, "infos")
  /\ UNCHANGED <<gsVars, state, wire, canTerminate, playerInfo, newTurn,
                 gameEnds, lastTurn, turnBuffer, glClient, chanVars, glVars,
                 mainVars>>

\* playersInfo is built, then DO_INIT is sent.
GLSendDoInit(g) ==
  /\ pc[g] = "infos"
  /\ playerInfo' = [c \in Client |-> IF c \in Elems(AllPlayers)
                                     THEN "connected" ELSE playerInfo[c]]
  /\ \/ /\ Send(g, "DO_INIT")
        /\ Goto(g, "initAck")
        /\ UNCHANGED <<state, exits>>
     \/ g \in Faulty /\ GLLeaves(g)
  /\ UNCHANGED <<gsVars, canTerminate, playerID, newTurn, gameEnds, lastTurn,
                 turnBuffer, glClient, chanVars, glVars, mainPc, server,
                 promptPc>>

GLDoInitAck(g) ==
  /\ pc[g] = "initAck"
  /\ todo' = Recipients
  /\ Goto(g, "starts")
  /\ UNCHANGED <<gsVars, state, wire, canTerminate, pvVars, chanVars, snap,
                 turnNumber, playerActions, connectedPlayers, awaited, timers,
                 mainVars>>

\* An invalid message, a read error, or no DO_INIT_ACK within 3 seconds.
GLRefuseMessage(g) ==
  /\ g \in Faulty
  /\ pc[g] \in {"initAck", "ack", "timers"}
  /\ GLLeaves(g)
  /\ UNCHANGED <<gsVars, canTerminate, pvVars, chanVars, glVars, mainPc,
                 server, promptPc>>

\* The gameStarts channels are unbuffered: sender and receiver step together.
GLSendGameStarts(g) ==
  /\ pc[g] = "starts"
  /\ todo # <<>>
  /\ ReceiveGameStarts(Head(todo))
  /\ todo' = Tail(todo)
  /\ UNCHANGED <<gsVars, canTerminate, pvVars, chanVars, snap, turnNumber,
                 playerActions, connectedPlayers, awaited, timers, mainVars>>

GLStartsSent(g) ==
  /\ pc[g] = "starts"
  /\ todo = <<>>
  /\ Goto(g, "firstTurn")
  /\ UNCHANGED <<gsVars, state, wire, canTerminate, pvVars, chanVars, glVars,
                 mainVars>>

\* The first DO_TURN: at once in fast mode, else after the first delay.
GLFirstDoTurn(g) ==
  /\ pc[g] = "firstTurn"
  /\ Send(g, "DO_TURN")
  /\ connectedPlayers' = IF Fast THEN 0 .. Len(AllPlayers) - 1 ELSE {}
  /\ Goto(g, IF Fast THEN "ack" ELSE "timers")
  /\ UNCHANGED <<gsVars, state, canTerminate, pvVars, chanVars, snap, todo,
                 turnNumber, playerActions, awaited, timers, mainVars>>

\* A game logic that is not faulty sends one DO_TURN_ACK for each DO_TURN.
DoTurnAnswered(g) == g \in Faulty \/ timers.sleeping = 0

\* Mutant: the next DO_TURN is triggered after the last turn too.
GLGameFinishedWithTimer(g) ==
  /\ pc[g] \in {"ack", "timers"}
  /\ DoTurnAnswered(g)
  /\ turnNumber + 1 >= snap.nbTurnsMax
  /\ turnNumber' = turnNumber + 1
  /\ \A c \in Elems(Recipients) : ~gameEnds[c]
  /\ gameEnds' = [c \in Client |-> c \in Elems(Recipients) \/ gameEnds[c]]
  /\ timers' = [timers EXCEPT !.sleeping = @ + 1]
  /\ GLLeaves(g)
  /\ UNCHANGED <<gsVars, canTerminate, playerID, playerInfo, newTurn,
                 lastTurn, turnBuffer, glClient, chanVars, snap, todo,
                 playerActions, connectedPlayers, awaited, mainPc, server,
                 promptPc>>

\* handleGlGameFinished, onexit <- 0, then waitGameLogicFinition.
GLGameFinished(g) ==
  /\ pc[g] \in {"ack", "timers"}
  /\ DoTurnAnswered(g)
  /\ turnNumber + 1 >= snap.nbTurnsMax
  /\ turnNumber' = turnNumber + 1
  /\ \A c \in Elems(Recipients) : ~gameEnds[c]
  /\ gameEnds' = [c \in Client |-> c \in Elems(Recipients) \/ gameEnds[c]]
  /\ GLLeaves(g)
  /\ UNCHANGED <<gsVars, canTerminate, playerID, playerInfo, newTurn,
                 lastTurn, turnBuffer, glClient, chanVars, snap, todo,
                 playerActions, connectedPlayers, awaited, timers, mainPc,
                 server, promptPc>>

GLDoTurnAck(g) ==
  /\ pc[g] \in {"ack", "timers"}
  /\ DoTurnAnswered(g)
  /\ turnNumber + 1 < snap.nbTurnsMax
  /\ turnNumber' = turnNumber + 1
  /\ todo' = Recipients
  /\ Goto(g, "turns")
  /\ UNCHANGED <<gsVars, state, wire, canTerminate, pvVars, chanVars, snap,
                 playerActions, connectedPlayers, awaited, timers, mainVars>>

\* Mutant: the newTurn channels have one place less.
GLForwardEarlyFull(g) ==
  /\ pc[g] = "turns"
  /\ todo # <<>>
  /\ Len(newTurn[Head(todo)]) + 1 < NewTurnCap
  /\ newTurn' = [newTurn EXCEPT ![Head(todo)] = Append(@, turnNumber - 1)]
  /\ todo' = Tail(todo)
  /\ UNCHANGED <<gsVars, connVars, playerID, playerInfo, gameEnds, lastTurn,
                 turnBuffer, glClient, chanVars, snap, turnNumber,
                 playerActions, connectedPlayers, awaited, timers, mainVars>>

\* One send of handleGlForwardTurnToClients; newTurn has a bounded buffer.
GLForwardTurn(g) ==
  /\ pc[g] = "turns"
  /\ todo # <<>>
  /\ Len(newTurn[Head(todo)]) < NewTurnCap
  /\ newTurn' = [newTurn EXCEPT ![Head(todo)] = Append(@, turnNumber - 1)]
  /\ todo' = Tail(todo)
  /\ UNCHANGED <<gsVars, connVars, playerID, playerInfo, gameEnds, lastTurn,
                 turnBuffer, glClient, chanVars, snap, turnNumber,
                 playerActions, connectedPlayers, awaited, timers, mainVars>>

\* The turn is forwarded: wait for the players, or start a timer goroutine.
GLTurnForwarded(g) ==
  /\ pc[g] = "turns"
  /\ todo = <<>>
  /\ \/ /\ Fast
        /\ awaited' = connectedPlayers
        /\ Goto(g, "collect")
        /\ UNCHANGED timers
     \/ /\ ~Fast
        /\ timers' = [timers EXCEPT !.sleeping = @ + 1]
        /\ Goto(g, "timers")
        /\ UNCHANGED awaited
  /\ UNCHANGED <<gsVars, state, wire, canTerminate, pvVars, chanVars, snap,
                 todo, turnNumber, playerActions, connectedPlayers, mainVars>>

\* Mutant: the actions of players that left are kept.
GLFastAnyAction(g) ==
  /\ pc[g] = "collect" /\ awaited # {}
  /\ playerAction # <<>>
  /\ playerAction' = Tail(playerAction)
  /\ awaited' = awaited \ {Head(playerAction).id}
  /\ playerActions' = Append(playerActions, Head(playerAction))
  /\ UNCHANGED <<gsVars, connVars, pvVars, start, playerDisconnected, snap,
                 todo, turnNumber, connectedPlayers, timers, mainVars>>

GLFastAction(g) ==
  /\ pc[g] = "collect" /\ awaited # {}
  /\ playerAction # <<>>
  /\ playerAction' = Tail(playerAction)
  /\ awaited' = awaited \ {Head(playerAction).id}
  /\ playerActions' = IF Head(playerAction).id \in connectedPlayers
                      THEN Append(playerActions, Head(playerAction))
                      ELSE playerActions
  /\ UNCHANGED <<gsVars, connVars, pvVars, start, playerDisconnected, snap,
                 todo, turnNumber, connectedPlayers, timers, mainVars>>

\* Mutant: the player is awaited again in the next turn.
GLFastStillConnected(g) ==
  /\ pc[g] = "collect" /\ awaited # {}
  /\ playerDisconnected # <<>>
  /\ playerDisconnected' = Tail(playerDisconnected)
  /\ awaited' = awaited \ {Head(playerDisconnected)}
  /\ UNCHANGED <<gsVars, connVars, pvVars, start, playerAction, snap, todo,
                 turnNumber, playerActions, connectedPlayers, timers, mainVars>>

GLFastDisconnection(g) ==
  /\ pc[g] = "collect" /\ awaited # {}
  /\ playerDisconnected # <<>>
  /\ playerDisconnected' = Tail(playerDisconnected)
  /\ awaited' = awaited \ {Head(playerDisconnected)}
  /\ connectedPlayers' = connectedPlayers \ {Head(playerDisconnected)}
  /\ UNCHANGED <<gsVars, connVars, pvVars, start, playerAction, snap, todo,
                 turnNumber, playerActions, timers, mainVars>>

GLFastDoTurn(g) ==
  /\ pc[g] = "collect" /\ awaited = {}
  /\ Send(g, "DO_TURN")
  /\ playerActions' = <<>>
  /\ Goto(g, "ack")
  /\ UNCHANGED <<gsVars, state, canTerminate, pvVars, chanVars, snap, todo,
                 turnNumber, connectedPlayers, awaited, timers, mainVars>>

\* Mutant: the earlier action of the player is kept.
AppendAction(s, a) == Append(s, a)

\* An action of the same player is in the slice.
Kept(s, a) == \E i \in DOMAIN s : s[i].id = a.id

\* An action replaces the one of the same player and becomes the last.
PlaceAction(s, a) ==
  IF Kept(s, a)
  THEN LET k == CHOOSE i \in DOMAIN s :
                  s[i].id = a.id /\ \A j \in 1 .. i - 1 : s[j].id # a.id
       IN [i \in DOMAIN s |-> IF i = Len(s) THEN a
                              ELSE IF i = k THEN s[Len(s)] ELSE s[i]]
  ELSE Append(s, a)

\* The turn loop shares the slice with the timer goroutines, unsynchronised.
\* One that empties it while the loop appends is undone by the length that
\* append stores.
GLTimersAction(g) ==
  /\ Running /\ pc[g] = "timers"
  /\ playerAction # <<>>
  /\ playerAction' = Tail(playerAction)
  /\ playerActions' = PlaceAction(playerActions, Head(playerAction))
  /\ \/ UNCHANGED timers
     \/ /\ timers.sent > 0 /\ ~Kept(playerActions, Head(playerAction))
        /\ timers' = [timers EXCEPT !.sent = @ - 1]
  /\ UNCHANGED <<gsVars, connVars, pvVars, start, playerDisconnected, snap,
                 todo, turnNumber, connectedPlayers, awaited, mainVars>>

\* One that empties it before the swap or the replacement leaves the index of
\* the last element at -1: the panic of the handler ends the program.
GLTimersPanics(g) ==
  /\ Running /\ pc[g] = "timers"
  /\ playerAction # <<>>
  /\ timers.sent > 0 /\ Kept(playerActions, Head(playerAction))
  /\ mainPc' = "crashed"
  /\ UNCHANGED <<gsVars, connVars, pvVars, chanVars, glVars, server, promptPc,
                 exits>>

\* The goroutine started after each turn: it sends DO_TURN after the delay,
\* whatever became of the game, then empties playerActions.  What DO_TURN
\* holds when the loop changes the slice meanwhile is module ActionBuffer's.
TimerSend(g) ==
  /\ Running /\ g \in Elems(roster["game logic"])
  /\ timers.sleeping > 0
  /\ timers' = [sleeping |-> timers.sleeping - 1, sent |-> timers.sent + 1]
  /\ wire' = [wire EXCEPT ![g] = IF pc[g] = "done" THEN @ ELSE "DO_TURN"]
  /\ UNCHANGED <<gsVars, pc, state, canTerminate, pvVars, chanVars, snap,
                 todo, turnNumber, playerActions, connectedPlayers, awaited,
                 mainVars>>

TimerReset ==
  /\ Running
  /\ timers.sent > 0
  /\ timers' = [timers EXCEPT !.sent = @ - 1]
  /\ playerActions' = <<>>
  /\ UNCHANGED <<gsVars, connVars, pvVars, chanVars, snap, todo, turnNumber,
                 connectedPlayers, awaited, mainVars>>

\* waitGameLogicFinition drops actions and disconnections.
GLDrain(g) ==
  /\ pc[g] = "fin" /\ g \in GLs
  /\ playerAction # <<>> \/ playerDisconnected # <<>>
  /\ \/ playerAction # <<>> /\ playerAction' = Tail(playerAction)
                            /\ UNCHANGED playerDisconnected
     \/ playerDisconnected # <<>> /\ UNCHANGED playerAction
                            /\ playerDisconnected' = Tail(playerDisconnected)
  /\ UNCHANGED <<gsVars, connVars, pvVars, start, glVars, mainVars>>

\* The messages of the game logic itself, its goroutine and its timers.
GLInput(g) == GLEarlyMessage(g) \/ GLRefuseMessage(g)
GLAnswer(g) == GLDoInitAck(g) \/ GLGameFinished(g) \/ GLDoTurnAck(g)
GLStep(g) ==
  \/ GLStart(g) \/ GLTerminate(g) \/ GLClose(g) \/ GLEarlyKick(g)
  \/ GLCopyLists(g) \/ GLAssignIDs(g) \/ GLSendDoInit(g)
  \/ GLSendGameStarts(g) \/ GLStartsSent(g) \/ GLFirstDoTurn(g)
  \/ GLForwardTurn(g) \/ GLTurnForwarded(g)
  \/ GLFastAction(g) \/ GLFastDisconnection(g) \/ GLFastDoTurn(g)
  \/ GLTimersAction(g) \/ GLTimersPanics(g) \/ GLDrain(g)
=============================================================================
