-------------------------------- MODULE Login --------------------------------
(***************************************************************************)
(* From the accepted connection to the role's handler (handleClient and    *)
(* autostart in control.go; the accepting loop in network.go).             *)
(***************************************************************************)
EXTENDS NetorcaiState

Limit(r) == IF r = "game logic" THEN 1 ELSE nbMax[r]

\* RunServer accepts a connection and starts its handler.
Connect(c) ==
  /\ server = "accepting" /\ mainPc # "wait"   \* not closed by Cleanup
  /\ pc[c] = "none"
  /\ Goto(c, "first")
  /\ UNCHANGED <<gsVars, state, wire, canTerminate, pvVars, chanVars, glVars,
                 mainVars>>

\* The first message cannot be read, or is not a valid LOGIN.
RefuseFirstMessage(c) ==
  /\ c \in Faulty
  /\ pc[c] = "first"
  /\ Kick(c)
  /\ Goto(c, "done")
  /\ UNCHANGED <<gsVars, canTerminate, pvVars, chanVars, glVars, mainVars>>

ReadLogin(c) ==
  /\ pc[c] = "first"
  /\ Goto(c, "login")
  /\ UNCHANGED <<gsVars, state, wire, canTerminate, pvVars, chanVars, glVars,
                 mainVars>>

\* Mutant: any role may log in during the game.
LoginDeniedWhenFull(c) == Len(roster[Role[c]]) >= Limit(Role[c])

\* A visualization may log in at any time, the other roles before the game.
LoginDenied(c) ==
  \/ Role[c] # "visualization" /\ gameState # "GAME_NOT_RUNNING"
  \/ Len(roster[Role[c]]) >= Limit(Role[c])

\* The handler of the role of c, once c is logged in.
RoleHandler(c) == IF Role[c] = "game logic" THEN "waitStart" ELSE "loop"

DenyLogin(c) ==
  /\ pc[c] = "login" /\ MutexFree
  /\ LoginDenied(c) \/ c \in Faulty   \* a LOGIN_ACK that cannot be sent
  /\ Kick(c)
  /\ Goto(c, "done")
  /\ UNCHANGED <<gsVars, canTerminate, pvVars, chanVars, glVars, mainVars>>

\* The mutex is held from the checks to the insertion in the list; autostart
\* and the set command do not wait for it.
AcceptLogin(c) ==
  /\ pc[c] = "login" /\ MutexFree
  /\ ~LoginDenied(c)
  /\ Send(c, "LOGIN_ACK")
  /\ mutex' = c
  /\ Goto(c, "accept")
  /\ UNCHANGED <<gameState, nbMax, nbTurnsMax, roster, state, canTerminate,
                 pvVars, chanVars, glVars, mainVars>>

\* The state of a game logic is left CLIENT_UNLOGGED by the code.
JoinList(c) ==
  /\ pc[c] = "accept"
  /\ roster' = [roster EXCEPT ![Role[c]] = Append(@, c)]
  /\ state' = [state EXCEPT ![c] = IF c \in GLs THEN @ ELSE "LOGGED"]
  /\ mutex' = "free"
  /\ Goto(c, IF Autostart THEN AutoPc[1] ELSE RoleHandler(c))
  /\ UNCHANGED <<gameState, nbMax, nbTurnsMax, wire, canTerminate, pvVars,
                 chanVars, glVars, mainVars>>

AutoRole == <<"player", "special player", "visualization", "game logic">>

\* Mutant: the game logic is not counted among the expected clients.
AutostartReadWithoutGL(c, k) ==
  /\ pc[c] = AutoPc[k]
  /\ Goto(c, IF k < 4 /\ Len(roster[AutoRole[k]]) # Limit(AutoRole[k])
               THEN RoleHandler(c)
             ELSE IF k < 4 THEN AutoPc[k + 1] ELSE "autoSet")
  /\ UNCHANGED <<gsVars, state, wire, canTerminate, pvVars, chanVars, glVars,
                 mainVars>>

\* areAllExpectedClientsConnected reads the four lists one after the other,
\* without the mutex.
AutostartRead(c, k) ==
  /\ pc[c] = AutoPc[k]
  /\ Goto(c, IF Len(roster[AutoRole[k]]) # Limit(AutoRole[k])
               THEN RoleHandler(c)
             ELSE IF k < 4 THEN AutoPc[k + 1] ELSE "autoSet")
  /\ UNCHANGED <<gsVars, state, wire, canTerminate, pvVars, chanVars, glVars,
                 mainVars>>

AutostartSet(c) ==
  /\ pc[c] = "autoSet"
  /\ gameState' = "GAME_RUNNING"
  /\ Goto(c, "autoSend")
  /\ UNCHANGED <<mutex, nbMax, nbTurnsMax, roster, state, wire, canTerminate,
                 pvVars, chanVars, glVars, mainVars>>

\* gs.GameLogic[0].start <- 1 blocks while the channel is full.
AutostartSend(c) ==
  /\ pc[c] = "autoSend"
  /\ start < 1
  /\ start' = start + 1
  /\ Goto(c, RoleHandler(c))
  /\ UNCHANGED <<gsVars, state, wire, canTerminate, pvVars, playerAction,
                 playerDisconnected, glVars, mainVars>>

FirstMessage(c) == RefuseFirstMessage(c) \/ ReadLogin(c)
LoginStep(c) ==
  \/ DenyLogin(c) \/ AcceptLogin(c) \/ JoinList(c)
  \/ \E k \in 1..4 : AutostartRead(c, k)
  \/ AutostartSet(c) \/ AutostartSend(c)
=============================================================================
