----------------------------- MODULE GameProofs -----------------------------
(***************************************************************************)
(* The start order, the mutex that a panic of Cleanup leaves locked, the   *)
(* actions of a turn and the end of a game: what they rest on is kept by   *)
(* every step.                                                             *)
(***************************************************************************)
EXTENDS OperatorProofs

\* Some leaves are large: the provers get more time than by default.
USE ZenonT(20), SMTT(40)
USE DEF gsVars, connVars, pvVars, chanVars, glVars, mainVars, vars

\* With SessionInv, it is preserved by every step: clients only come to a
\* server that listens, which it does with the mutex, and without --autostart
\* only the prompt starts games.
GameInv ==
  /\ \A c \in Client : /\ pc[c] # "none" => server \in {"accepting", "down"}
                       /\ pc[c] \in AutoPcs => Autostart
                       /\ pc[c] = "collect" => Fast
  /\ mutex = "main" => server \in {"starting", "failed"}
  /\ StartOrderedOnce
  /\ OneActionPerPlayer

\* What the goroutines of the clients do to the state that GameInv is about.
HandlersKeep ==
  /\ UNCHANGED <<server, promptPc>>
  /\ mutex' = "main" => mutex = "main"
  /\ \A c \in Client :
       /\ pc'[c] # "none" => pc[c] # "none" \/ server = "accepting"
       /\ pc'[c] \in AutoPcs => pc[c] \in AutoPcs \/ Autostart
       /\ pc'[c] = "collect" => pc[c] = "collect" \/ Fast
       /\ pc'[c] \in PlayPc => pc[c] \in PlayPc \/ start' = start - 1
  /\ gameState' = gameState \/ \E c \in Client : pc[c] \in AutoPcs
  /\ \/ start' = start
     \/ start' = start - 1
     \/ \E c \in Client : pc[c] \in AutoPcs
  /\ \/ playerActions' = playerActions
     \/ OneEach(playerActions) => OneEach(playerActions')
     \/ \E c \in Client : pc[c] = "collect"

\* Such a step preserves the invariant.
LEMMA HandlersGame ==
  ASSUME VarsTypeOK, VarsTypeOK', StartInv, GameInv, HandlersKeep
  PROVE  GameInv'
<1>1. ASSUME NEW c \in Client
      PROVE  /\ pc'[c] # "none" => server' \in {"accepting", "down"}
             /\ pc'[c] \in AutoPcs => Autostart
             /\ pc'[c] = "collect" => Fast
  BY DEF GameInv, HandlersKeep
<1>2. ~Autostart => gameState' = gameState
  BY DEF GameInv, HandlersKeep
<1>3. mutex' = "main" => server' \in {"starting", "failed"}
  BY DEF GameInv, HandlersKeep
<1>4. ASSUME ~Autostart
      PROVE  start' = start \/ start' = start - 1
  BY <1>4 DEF GameInv, HandlersKeep
<1>5. start \in 0 .. 1 /\ start' \in 0 .. 1
  BY DEF VarsTypeOK, ChanTypeOK
<1>6. StartOrderedOnce'
  <2> SUFFICES ASSUME ~Autostart
               PROVE  /\ promptPc' = "starting" =>
                           start' = 0 /\ gameState' = "GAME_RUNNING"
                      /\ \A g \in GLs : pc'[g] \in PlayPc =>
                           start' = 0 /\ promptPc' # "starting"
    BY DEF StartOrderedOnce
  <2>1. promptPc = "starting" => start = 0 /\ gameState = "GAME_RUNNING"
    BY DEF GameInv, StartOrderedOnce
  <2>2. promptPc' = promptPc
    BY DEF HandlersKeep
  <2>3. promptPc' = "starting" => start' = 0 /\ gameState' = "GAME_RUNNING"
    BY <1>2, <1>4, <1>5, <2>1, <2>2
  <2>4. ASSUME NEW g \in GLs, pc'[g] \in PlayPc
        PROVE  start' = 0 /\ promptPc' # "starting"
    <3>1. CASE pc[g] \in PlayPc
      <4>1. start = 0 /\ promptPc # "starting"
        BY <3>1 DEF GameInv, StartOrderedOnce
      <4> QED BY <1>4, <1>5, <2>2, <4>1
    <3>2. CASE start' = start - 1
      BY <1>5, <2>1, <2>2, <3>2
    <3> QED BY <2>4, <3>1, <3>2 DEF HandlersKeep, GLs
  <2> QED BY <2>3, <2>4
<1>7. OneActionPerPlayer'
  BY DEF GameInv, HandlersKeep, OneActionPerPlayer, OneEach
<1> QED BY <1>1, <1>3, <1>6, <1>7 DEF GameInv

-----------------------------------------------------------------------------
(* The goroutines of the clients.                                          *)

\* Up to the handler of the role, only autostart changes the game.
LEMMA LoginKeeps ==
  ASSUME VarsTypeOK, NEW c \in Client,
         Connect(c) \/ FirstMessage(c) \/ LoginStep(c)
  PROVE  HandlersKeep
<1>0. c # "main"
  BY ConstantsAssumption
<1> USE <1>0 DEF VarsTypeOK, ConnTypeOK, Goto, HandlersKeep, AutoPcs, PlayPc
<1>1. CASE Connect(c)
  BY <1>1 DEF Connect
<1>2. CASE RefuseFirstMessage(c) \/ ReadLogin(c)
  BY <1>2 DEF RefuseFirstMessage, ReadLogin
<1>3. CASE DenyLogin(c) \/ AcceptLogin(c)
  BY <1>3 DEF DenyLogin, AcceptLogin
<1>4. CASE JoinList(c)
  <2>1. pc'[c] = IF Autostart THEN "auto1" ELSE RoleHandler(c)
    BY <1>4 DEF JoinList, AutoPc
  <2>2. pc'[c] \in {"auto1", "waitStart", "loop"}
    BY <2>1 DEF RoleHandler
  <2>3. pc'[c] = "auto1" => Autostart
    BY <2>1 DEF RoleHandler
  <2>4. \A d \in Client : d # c => pc'[d] = pc[d]
    BY <1>4 DEF JoinList
  <2>5. pc[c] = "accept" /\ mutex' = "free"
        /\ UNCHANGED <<mainVars, gameState, start, playerActions>>
    BY <1>4 DEF JoinList
  <2> QED BY <2>2, <2>3, <2>4, <2>5
<1>5. ASSUME NEW k \in 1 .. 4, AutostartRead(c, k)
      PROVE  HandlersKeep
  <2>1. pc[c] \in AutoPcs
    BY <1>5, AutoReadTarget DEF AutoPcs
  <2>2. pc'[c] \in AutoPcs \cup {"waitStart", "loop"}
    BY <1>5, AutoReadTarget DEF RoleHandler
  <2>3. \A d \in Client : d # c => pc'[d] = pc[d]
    BY <1>5 DEF AutostartRead
  <2>4. UNCHANGED <<mainVars, mutex, gameState, start, playerActions>>
    BY <1>5 DEF AutostartRead
  <2> QED BY <2>1, <2>2, <2>3, <2>4
<1>6. CASE AutostartSet(c)
  BY <1>6 DEF AutostartSet
<1>7. CASE AutostartSend(c)
  BY <1>7 DEF AutostartSend, RoleHandler
<1> QED BY <1>1, <1>2, <1>3, <1>4, <1>5, <1>6, <1>7
        DEF FirstMessage, LoginStep

\* Players and visualizations leave all of it alone.
LEMMA PvsKeep ==
  ASSUME VarsTypeOK, NEW c \in Client, PvInput(c) \/ PvStep(c)
  PROVE  HandlersKeep
<1>0. c # "main"
  BY ConstantsAssumption
<1> USE <1>0 DEF VarsTypeOK, ConnTypeOK, Goto, KickLogged, HandlersKeep, AutoPcs,
            PlayPc
<1>1. ASSUME NEW n \in Incoming(c), RefuseMessage(c, n)
      PROVE  HandlersKeep
  BY <1>1 DEF RefuseMessage
<1>2. ASSUME NEW n \in Incoming(c), ReceiveTurnAck(c, n)
      PROVE  HandlersKeep
  BY <1>2 DEF ReceiveTurnAck, AfterTurnAck, SendTurn
<1>3. CASE PvTerminate(c) \/ CopyGLPointer(c) \/ KickAfterGameEnds(c)
  BY <1>3 DEF PvTerminate, CopyGLPointer, KickAfterGameEnds
<1>4. CASE ReceiveGameEnds(c)
  BY <1>4 DEF ReceiveGameEnds
<1>5. CASE ReceiveNewTurn(c)
  BY <1>5 DEF ReceiveNewTurn, SendTurn
<1>6. CASE ForwardActions(c)
  BY <1>6 DEF ForwardActions, AfterTurnAck, SendTurn
<1>7. CASE KickLock(c) \/ KickUnlock(c)
  BY <1>7 DEF KickLock, KickUnlock
<1> QED BY <1>1, <1>2, <1>3, <1>4, <1>5, <1>6, <1>7 DEF PvInput, PvStep

\* The goroutine of the game logic receives the start order before it plays,
\* and its fast and timed loops stay apart.
LEMMA GLsKeep ==
  ASSUME VarsTypeOK, NEW g \in Client,
         GLInput(g) \/ GLAnswer(g) \/ GLStep(g) \/ TimerSend(g)
  PROVE  HandlersKeep
<1>0. g # "main"
  BY ConstantsAssumption
<1> USE <1>0 DEF VarsTypeOK, ConnTypeOK, Goto, KickLogged, GLLeaves, HandlersKeep,
            AutoPcs, PlayPc
<1>1. CASE GLEarlyMessage(g) \/ GLRefuseMessage(g)
  BY <1>1 DEF GLEarlyMessage, GLRefuseMessage
<1>2. CASE GLDoInitAck(g) \/ GLGameFinished(g) \/ GLDoTurnAck(g)
  BY <1>2 DEF GLDoInitAck, GLGameFinished, GLDoTurnAck
<1>3. CASE GLStart(g)
  BY <1>3 DEF GLStart
<1>4. CASE GLTerminate(g) \/ GLClose(g) \/ GLEarlyKick(g)
  BY <1>4 DEF GLTerminate, GLClose, GLEarlyKick
<1>5. CASE GLCopyLists(g) \/ GLAssignIDs(g) \/ GLSendDoInit(g)
  BY <1>5 DEF GLCopyLists, GLAssignIDs, GLSendDoInit
<1>6. CASE GLSendGameStarts(g)
  BY <1>6 DEF GLSendGameStarts, ReceiveGameStarts
<1>7. CASE GLStartsSent(g) \/ GLFirstDoTurn(g)
  BY <1>7 DEF GLStartsSent, GLFirstDoTurn
<1>8. CASE GLForwardTurn(g) \/ GLTurnForwarded(g)
  BY <1>8 DEF GLForwardTurn, GLTurnForwarded
<1>9. CASE GLFastAction(g) \/ GLFastDisconnection(g) \/ GLFastDoTurn(g)
  BY <1>9 DEF GLFastAction, GLFastDisconnection, GLFastDoTurn
<1>10. CASE GLTimersAction(g)
  <2>1. playerActions \in Seq(Action) /\ Head(playerAction) \in Action
    BY <1>10, HeadTailProperties DEF GLTimersAction, ChanTypeOK, GlTypeOK
  <2>2. OneEach(playerActions) => OneEach(playerActions')
    BY <1>10, <2>1, PlaceActionOneEach DEF GLTimersAction
  <2> QED BY <1>10, <2>2 DEF GLTimersAction
<1>11. CASE GLDrain(g)
  BY <1>11 DEF GLDrain
<1>12. CASE TimerSend(g)
  BY <1>12 DEF TimerSend
<1>13. CASE GLTimersPanics(g)
  BY <1>13 DEF GLTimersPanics
<1> QED BY <1>1, <1>2, <1>3, <1>4, <1>5, <1>6, <1>7, <1>8, <1>9, <1>10, <1>11,
           <1>12, <1>13
        DEF GLInput, GLAnswer, GLStep

-----------------------------------------------------------------------------
(* The other goroutines.                                                   *)

\* main, the server, the prompt and the signals.
LEMMA MainGame ==
  ASSUME VarsTypeOK, SessionInv, GameInv,
         Signal \/ PromptStep \/ MainStep \/ ServerStop \/ PromptStarted
         \/ StartupStep
  PROVE  GameInv'
<1> USE DEF GameInv, StartOrderedOnce, OneActionPerPlayer, PromptReady, MutexFree
<1>1. CASE Signal \/ PromptQuit
  BY <1>1 DEF Signal, PromptQuit
<1>2. ASSUME NEW s \in PromptSets,
             PromptSetLimit(s[1], s[2]) \/ PromptSetTurns(s[1], s[2])
      PROVE  GameInv'
  BY <1>2 DEF PromptSetLimit, PromptSetTurns
<1>3. CASE PromptStart
  <2>1. gameState = "GAME_NOT_RUNNING" /\ start \in 0 .. 1
    BY <1>3 DEF PromptStart, VarsTypeOK, ChanTypeOK
  <2>2. ~(start > 0) /\ \A c \in Client : pc[c] \notin PlayPc
    BY <2>1, ZenonT(40) DEF SessionInv, StartInv
  <2>3. start = 0
    BY <2>1, <2>2
  <2>4. \A g \in GLs : pc[g] \notin PlayPc
    BY <2>2 DEF GLs
  <2> QED BY <1>3, <2>3, <2>4 DEF PromptStart
<1>4. CASE PromptStarted
  <2>1. \A g \in GLs : pc[g] \in PlayPc => Autostart
    BY <1>4 DEF PromptStarted
  <2> QED BY <1>4, <2>1 DEF PromptStarted
<1>5. CASE MainExit \/ Cleanup
  BY <1>5 DEF MainExit, Cleanup
<1>6. CASE CleanupPanics
  BY <1>6 DEF CleanupPanics
<1>7. ASSUME NEW s \in exits, MainSelect(s)
      PROVE  GameInv'
  BY <1>7 DEF MainSelect
<1>8. CASE ServerListen \/ ServerStop
  BY <1>8 DEF ServerListen, ServerStop
<1>9. CASE PromptRun
  BY <1>9 DEF PromptRun
<1> QED BY <1>1, <1>2, <1>3, <1>4, <1>5, <1>6, <1>7, <1>8, <1>9
        DEF PromptStep, MainStep, StartupStep

-----------------------------------------------------------------------------
(* Together.                                                               *)

\* The invariant holds before the server listens.
LEMMA InitGameInv == Init => GameInv
BY SMTT(40) DEF Init, GameInv, StartOrderedOnce, OneActionPerPlayer,
       AutoPcs, PlayPc, GLs

\* Every step preserves it.
LEMMA NextGameInv ==
  VarsTypeOK /\ VarsTypeOK' /\ SessionInv /\ GameInv /\ [Next]_vars => GameInv'
<1> SUFFICES ASSUME VarsTypeOK, VarsTypeOK', SessionInv, GameInv, [Next]_vars
             PROVE  GameInv'
  OBVIOUS
<1>0. StartInv
  BY DEF SessionInv
<1>1. ASSUME NEW c \in Client,
             Connect(c) \/ FirstMessage(c) \/ LoginStep(c)
      PROVE  GameInv'
  BY <1>0, <1>1, LoginKeeps, HandlersGame
<1>2. ASSUME NEW c \in Client, PvInput(c) \/ PvStep(c)
      PROVE  GameInv'
  BY <1>0, <1>2, PvsKeep, HandlersGame
<1>3. ASSUME NEW c \in Client,
             GLInput(c) \/ GLAnswer(c) \/ GLStep(c) \/ TimerSend(c)
      PROVE  GameInv'
  BY <1>0, <1>3, GLsKeep, HandlersGame
<1>4. CASE TimerReset
  <2>1. OneActionPerPlayer'
    BY <1>4, SMTT(40) DEF TimerReset, OneActionPerPlayer
  <2> QED BY <1>4, <2>1
          DEF TimerReset, GameInv, StartOrderedOnce
<1>5. ASSUME Signal \/ PromptStep \/ MainStep \/ ServerStop \/ PromptStarted
             \/ StartupStep
      PROVE  GameInv'
  BY <1>5, MainGame
<1>6. CASE UNCHANGED vars
  BY <1>6 DEF GameInv, StartOrderedOnce, OneActionPerPlayer
<1> QED BY <1>1, <1>2, <1>3, <1>4, <1>5, <1>6 DEF Next, Environment, Handler

-----------------------------------------------------------------------------
(* Nothing follows the KICK of a game logic that answers.                  *)

\* What holds of the turns and of the timers while the handler of the game
\* logic g is at a place: a finished game has no timer.
Late(g) ==
  /\ pc[g] \in AutoPcs \cup {"waitStart", "earlyKick", "copy"} => ~snap.taken
  /\ pc[g] \in PlayPc \ {"copy"} =>
       snap.taken /\ turnNumber < snap.nbTurnsMax
  /\ g \notin Faulty =>
       /\ pc[g] # "earlyKick"
       /\ state[g] = "KICKED" => pc[g] \in {"fin", "closing", "done"}
       /\ pc[g] = "fin" => timers.sleeping = 0 /\ wire[g] = "KICK"
       /\ pc[g] = "done" /\ ~Listed(g) => wire[g] = "KICK"
       /\ /\ pc[g] \in {"closing", "done"} /\ Listed(g)
          /\ snap.taken /\ turnNumber >= snap.nbTurnsMax
          => timers.sleeping = 0 /\ wire[g] = "KICK"

\* With SessionInv and ProtoInv, it is preserved by every step.
LateInv ==
  /\ ~snap.taken => turnNumber = 0 /\ timers.sleeping = 0
  /\ \A g \in GLs : Late(g)

\* The list of game logics holds one.
LEMMA OneListed ==
  ASSUME VarsTypeOK, SessionInv, NEW g \in GLs, Listed(g), NEW h \in GLs, h # g
  PROVE  ~Listed(h) /\ pc[h] \in Early \cup {"done"}
<1> DEFINE s == roster["game logic"]
<1>1. g \in Elems(s) /\ (Listed(h) => h \in Elems(s))
  BY DEF Listed, GLs
<1>2. s \in Seq(Client) /\ Len(s) <= 1
  BY DEF SessionInv, GameLogicInv, VarsTypeOK, GsTypeOK, AllRole
<1> HIDE DEF s
<1>3. DOMAIN s = 1 .. Len(s) /\ Len(s) \in Nat
  BY <1>2
<1>4. \A i \in DOMAIN s : i = 1
  BY <1>2, <1>3
<1>5. ~Listed(h)
  BY <1>1, <1>4 DEF Elems
<1>6. h \in Client
  BY DEF GLs
<1> QED BY <1>5, <1>6 DEF SessionInv, RosterInv, InSession, Early

\* A step that leaves the game logics, the turns and the timers alone.
LEMMA LateQuiet ==
  ASSUME LateInv, UNCHANGED <<snap, turnNumber>>,
         timers'.sleeping = timers.sleeping,
         roster'["game logic"] = roster["game logic"],
         \A g \in GLs : pc'[g] = pc[g] /\ state'[g] = state[g] /\ wire'[g] = wire[g]
  PROVE  LateInv'
<1>1. ASSUME NEW g \in GLs
      PROVE  Late(g)'
  <2>1. Listed(g)' = Listed(g)
    BY DEF Listed, GLs
  <2>2. Late(g)
    BY DEF LateInv
  <2>3. pc'[g] = pc[g] /\ state'[g] = state[g] /\ wire'[g] = wire[g]
    OBVIOUS
  <2> QED BY <2>1, <2>2, <2>3, ZenonT(40) DEF Late
<1> QED BY <1>1 DEF LateInv

\* A step of one game logic's handler that leaves turns and timers alone.
LEMMA LateStep ==
  ASSUME LateInv, UNCHANGED <<snap, turnNumber, timers>>,
         NEW g \in GLs, Late(g)',
         \A h \in GLs : h # g =>
           /\ pc'[h] = pc[h] /\ state'[h] = state[h] /\ wire'[h] = wire[h]
           /\ (Listed(h)' <=> Listed(h))
  PROVE  LateInv'
<1>1. ASSUME NEW h \in GLs, h # g
      PROVE  Late(h)'
  BY <1>1 DEF LateInv, Late
<1> QED BY <1>1 DEF LateInv

\* A step of the listed game logic or of its timers.
LEMMA LateSession ==
  ASSUME VarsTypeOK, SessionInv, LateInv, UNCHANGED roster,
         NEW g \in GLs, Listed(g), Late(g)',
         snap.taken => snap'.taken,
         ~snap'.taken => turnNumber' = 0 /\ timers'.sleeping = 0,
         \A h \in GLs : h # g =>
           pc'[h] = pc[h] /\ state'[h] = state[h] /\ wire'[h] = wire[h]
  PROVE  LateInv'
<1>1. ASSUME NEW h \in GLs, h # g
      PROVE  Late(h)'
  <2>1. ~Listed(h) /\ pc[h] \in Early \cup {"done"}
    BY <1>1, OneListed
  <2>2. ~Listed(h)'
    BY <2>1 DEF Listed
  <2>3. Late(h)
    BY DEF LateInv
  <2> QED BY <1>1, <2>1, <2>2, <2>3 DEF Late, Early, AutoPcs, PlayPc
<1> QED BY <1>1 DEF LateInv

\* Up to the handler of the role: a game logic that joins the list has no
\* game before it.
LEMMA LoginLate ==
  ASSUME VarsTypeOK, SessionInv, LateInv, NEW c \in Client,
         Connect(c) \/ FirstMessage(c) \/ LoginStep(c)
  PROVE  LateInv'
<1>a. /\ pc \in [Client -> Pc] /\ state \in [Client -> ClientState]
      /\ wire \in [Client -> Message] /\ roster \in [AllRole -> Seq(Client)]
  BY DEF VarsTypeOK, ConnTypeOK, GsTypeOK
<1>b. /\ UNCHANGED <<snap, turnNumber, timers>>
      /\ \A d \in Client : d # c =>
           pc'[d] = pc[d] /\ state'[d] = state[d] /\ wire'[d] = wire[d]
  BY <1>a DEF Connect, FirstMessage, LoginStep, RefuseFirstMessage, ReadLogin,
     DenyLogin, AcceptLogin, JoinList, AutostartRead, AutostartSet,
     AutostartSend, Goto, Send, Kick
<1>c. UNCHANGED roster \/ JoinList(c)
  BY DEF Connect, FirstMessage, LoginStep, RefuseFirstMessage, ReadLogin,
     DenyLogin, AcceptLogin, AutostartRead, AutostartSet, AutostartSend
<1>1. CASE c \notin GLs
  <2>1. roster'["game logic"] = roster["game logic"]
    BY <1>1, <1>a, <1>c DEF JoinList, GLs, AllRole
  <2> QED BY <1>1, <1>b, <2>1, LateQuiet DEF GLs
<1>2. CASE c \in GLs
  <2>a. Late(c)
    BY <1>2 DEF LateInv
  <2>b. Listed(c) => pc[c] \notin Early
    BY DEF SessionInv, RosterInv
  <2>1. CASE ~JoinList(c)
    <3>1. UNCHANGED roster /\ \A d \in Client : (Listed(d)' <=> Listed(d))
      BY <1>c, <2>1 DEF Listed
    <3>2. CASE Connect(c) \/ ReadLogin(c) \/ AcceptLogin(c)
      <4>1. /\ pc[c] \in {"none", "first", "login"}
            /\ pc'[c] \in {"first", "login", "accept"} /\ state'[c] = state[c]
        BY <1>a, <3>2 DEF Connect, ReadLogin, AcceptLogin, Goto
      <4>2. Late(c)'
        BY <2>a, <4>1 DEF Late, AutoPcs, PlayPc
      <4> QED BY <1>2, <1>b, <3>1, <4>2, LateStep DEF GLs
    <3>3. CASE RefuseFirstMessage(c) \/ DenyLogin(c)
      <4>1. /\ pc[c] \in {"first", "login"} /\ pc'[c] = "done" /\ Kick(c)
            /\ pc[c] = "first" => c \in Faulty
        BY <1>a, <3>3 DEF RefuseFirstMessage, DenyLogin, Goto
      <4>2. ~Listed(c)'
        BY <2>b, <3>1, <4>1 DEF Early
      <4>3. c \notin Faulty => wire'[c] = "KICK"
        BY <1>a, <2>a, <4>1 DEF Late, Kick
      <4>4. Late(c)'
        BY <4>1, <4>2, <4>3 DEF Late, AutoPcs, PlayPc
      <4> QED BY <1>2, <1>b, <3>1, <4>4, LateStep DEF GLs
    <3>4. CASE \/ \E k \in 1 .. 4 : AutostartRead(c, k)
               \/ AutostartSet(c) \/ AutostartSend(c)
      <4>1. /\ pc[c] \in AutoPcs /\ state'[c] = state[c]
            /\ pc'[c] \in AutoPcs \cup {"waitStart"}
        <5>1. RoleHandler(c) = "waitStart"
          BY <1>2 DEF RoleHandler, GLs
        <5>2. ASSUME NEW k \in 1 .. 4, AutostartRead(c, k)
              PROVE  pc[c] \in AutoPcs /\ pc'[c] \in AutoPcs \cup {"waitStart"}
                     /\ state'[c] = state[c]
          BY <5>1, <5>2, AutoReadTarget DEF AutoPcs, AutostartRead
        <5> QED BY <1>a, <3>4, <5>1, <5>2
                DEF AutostartSet, AutostartSend, Goto, AutoPcs
      <4>2. Late(c)'
        BY <1>b, <2>a, <4>1 DEF Late, AutoPcs, PlayPc
      <4> QED BY <1>2, <1>b, <3>1, <4>2, LateStep DEF GLs
    <3> QED BY <2>1, <3>2, <3>3, <3>4 DEF FirstMessage, LoginStep
  <2>2. CASE JoinList(c)
    <3>1. /\ pc[c] = "accept" /\ state'[c] = state[c]
          /\ pc'[c] \in {"auto1", "waitStart"}
      <4>1. RoleHandler(c) = "waitStart" /\ AutoPc[1] = "auto1"
        BY <1>2 DEF RoleHandler, GLs, AutoPc
      <4> QED BY <1>2, <1>a, <2>2, <4>1 DEF JoinList, Goto
    <3>2. ~snap.taken
      <4>1. NbGL = 0
        BY <1>2, <3>1 DEF SessionInv, GameLogicInv, NbGL
      <4>2. gameState = "GAME_RUNNING" => NbGL = 1
        BY DEF SessionInv, GameLogicInv, NbGL
      <4> QED BY <4>1, <4>2 DEF SessionInv, StartInv
    <3>3. ASSUME NEW h \in GLs, h # c
          PROVE  (Listed(h)' <=> Listed(h))
      <4>1. /\ roster'["game logic"] = Append(roster["game logic"], c)
            /\ roster["game logic"] \in Seq(Client)
        BY <1>2, <1>a, <2>2 DEF JoinList, GLs, AllRole
      <4>2. Elems(roster'["game logic"]) = Elems(roster["game logic"]) \cup {c}
        BY <4>1, AppendList
      <4>3. Role[h] = "game logic"
        BY DEF GLs
      <4>4. /\ Listed(h) <=> h \in Elems(roster["game logic"])
            /\ Listed(h)' <=> h \in Elems(roster'["game logic"])
        BY <4>3 DEF Listed, Elems
      <4> QED BY <3>3, <4>2, <4>4
    <3>4. Late(c)'
      BY <1>b, <2>a, <3>1, <3>2 DEF Late, AutoPcs, PlayPc
    <3> QED BY <1>2, <1>b, <3>3, <3>4, LateStep DEF GLs
  <2> QED BY <2>1, <2>2
<1> QED BY <1>1, <1>2

\* Players and visualizations leave the game logics alone.
LEMMA PvLate ==
  ASSUME VarsTypeOK, SessionInv, LateInv, NEW c \in Client, PvInput(c) \/ PvStep(c)
  PROVE  LateInv'
<1>a. /\ pc \in [Client -> Pc] /\ state \in [Client -> ClientState]
      /\ wire \in [Client -> Message] /\ roster \in [AllRole -> Seq(Client)]
  BY DEF VarsTypeOK, ConnTypeOK, GsTypeOK
<1>1. c \in Pvs
  <2>1. PvTerminate(c) \/ pc[c] \in PvPc
    BY DEF PvInput, PvStep, RefuseMessage, ReceiveTurnAck, CopyGLPointer,
       ReceiveGameEnds, KickAfterGameEnds, ReceiveNewTurn, ForwardActions,
       KickLock, KickUnlock, PvPc
  <2> QED BY <2>1 DEF PvTerminate, SessionInv, GameLogicInv
<1>2. \A d \in Client : d # c =>
        pc'[d] = pc[d] /\ state'[d] = state[d] /\ wire'[d] = wire[d]
  BY <1>a DEF PvInput, PvStep, RefuseMessage, ReceiveTurnAck, AfterTurnAck,
     SendTurn, PvTerminate, CopyGLPointer, ReceiveGameEnds, KickAfterGameEnds,
     ReceiveNewTurn, ForwardActions, KickLock, KickUnlock, KickLogged, Goto,
     Send, Kick
<1>3. UNCHANGED <<snap, turnNumber, timers>>
  BY DEF PvInput, PvStep, RefuseMessage, ReceiveTurnAck, PvTerminate,
     CopyGLPointer, ReceiveGameEnds, KickAfterGameEnds, ReceiveNewTurn,
     ForwardActions, KickLock, KickUnlock
<1>4. roster'["game logic"] = roster["game logic"]
  <2>1. UNCHANGED roster \/ KickUnlock(c)
    BY DEF PvInput, PvStep, RefuseMessage, ReceiveTurnAck, PvTerminate,
       CopyGLPointer, ReceiveGameEnds, KickAfterGameEnds, ReceiveNewTurn,
       ForwardActions, KickLock
  <2> QED BY <1>1, <1>a, <2>1 DEF KickUnlock, Pvs, AllRole
<1> QED BY <1>1, <1>2, <1>3, <1>4, LateQuiet DEF Pvs, GLs

\* The handler of the game logic and its timers: the game finishes when the
\* last DO_TURN is answered, so that no timer is left.
LEMMA GLLate ==
  ASSUME VarsTypeOK, SessionInv, ProtoInv, LateInv, NEW g \in Client,
         GLInput(g) \/ GLAnswer(g) \/ GLStep(g) \/ TimerSend(g)
  PROVE  LateInv'
<1>a. /\ pc \in [Client -> Pc] /\ state \in [Client -> ClientState]
      /\ wire \in [Client -> Message] /\ todo \in Seq(Client)
      /\ timers \in [sleeping : Nat, sent : Nat] /\ turnNumber \in Nat
  BY DEF VarsTypeOK, ConnTypeOK, GlTypeOK
<1>b. pc[g] \in GlPc => g \in GLs
  <2>1. g \in Pvs => pc[g] \notin GlPc
    BY DEF ProtoInv, PhaseOf, Early, AutoPcs, PvPc, GlPc
  <2> QED BY <2>1 DEF Pvs, GLs
<1>c. g \in GLs => Late(g)
  BY DEF LateInv
<1>d. InSession(g) => Listed(g)
  BY DEF SessionInv, RosterInv
<1>1. CASE \/ GLFastAction(g) \/ GLFastDisconnection(g) \/ GLTimersAction(g)
           \/ GLTimersPanics(g) \/ GLDrain(g) \/ GLForwardTurn(g)
  <2>1. /\ UNCHANGED <<pc, state, wire, roster, snap, turnNumber>>
        /\ UNCHANGED timers \/ timers' = [timers EXCEPT !.sent = @ - 1]
    BY <1>1 DEF GLFastAction, GLFastDisconnection, GLTimersAction,
       GLTimersPanics, GLDrain, GLForwardTurn
  <2>2. timers'.sleeping = timers.sleeping
    BY <1>a, <2>1
  <2> QED BY <2>1, <2>2, LateQuiet
<1>2. CASE GLSendGameStarts(g)
  <2>1. PICK h \in Client : h = Head(todo)
    BY <1>2, <1>a, SMTT(40) DEF GLSendGameStarts
  <2>2. ReceiveGameStarts(h) /\ UNCHANGED <<roster, snap, turnNumber, timers>>
    BY <1>2, <2>1 DEF GLSendGameStarts
  <2>3. h \in Pvs
    BY <2>2 DEF ReceiveGameStarts, SessionInv, GameLogicInv, PvPc
  <2>4. \A d \in Client : d # h =>
          pc'[d] = pc[d] /\ state'[d] = state[d] /\ wire'[d] = wire[d]
    BY <1>a, <2>2 DEF ReceiveGameStarts, KickLogged, Goto, Send
  <2> QED BY <2>2, <2>3, <2>4, LateQuiet DEF Pvs, GLs
<1>3. CASE \/ GLStart(g) \/ GLEarlyMessage(g) \/ GLAssignIDs(g)
           \/ GLDoInitAck(g) \/ GLStartsSent(g) \/ GLFirstDoTurn(g)
           \/ GLFastDoTurn(g) \/ (GLSendDoInit(g) /\ Goto(g, "initAck"))
  <2>1. /\ \/ pc[g] = "waitStart" /\ pc'[g] = "copy"
           \/ pc[g] = "waitStart" /\ pc'[g] = "earlyKick" /\ g \in Faulty
           \/ /\ pc[g] \in PlayPc \ {"copy"}
              /\ pc'[g] \in PlayPc \ {"copy"}
        /\ \A d \in Client : state'[d] = state[d]
        /\ \A d \in Client : d # g => pc'[d] = pc[d] /\ wire'[d] = wire[d]
    BY <1>3, <1>a DEF GLStart, GLEarlyMessage, GLAssignIDs, GLDoInitAck,
       GLStartsSent, GLFirstDoTurn, GLFastDoTurn, GLSendDoInit, Goto, Send,
       PlayPc, GLLeaves
  <2>2. UNCHANGED <<roster, snap, turnNumber, timers>>
    BY <1>3 DEF GLStart, GLEarlyMessage, GLAssignIDs, GLDoInitAck,
       GLStartsSent, GLFirstDoTurn, GLFastDoTurn, GLSendDoInit
  <2>3. g \in GLs
    BY <1>b, <2>1 DEF PlayPc, GlPc
  <2>4. Late(g)'
    BY <1>c, <2>1, <2>2, <2>3 DEF Late, AutoPcs, PlayPc
  <2>5. \A h \in GLs : (Listed(h)' <=> Listed(h))
    BY <2>2 DEF Listed
  <2> QED BY <2>1, <2>2, <2>3, <2>4, <2>5, LateStep DEF GLs
<1>4. CASE \/ GLTerminate(g) \/ GLClose(g) \/ GLEarlyKick(g)
           \/ GLRefuseMessage(g) \/ (GLSendDoInit(g) /\ GLLeaves(g))
  <2>1. /\ \/ /\ pc[g] \in PlayPc \cup {"waitStart", "fin"}
              /\ pc'[g] = "closing" /\ Kick(g) /\ pc[g] # "copy" /\ g \in GLs
           \/ pc[g] = "closing" /\ pc'[g] = "done" /\ UNCHANGED <<state, wire>>
           \/ pc'[g] = "fin" /\ (g \in Faulty \/ pc[g] = "earlyKick")
        /\ pc[g] \in GlPc \/ g \in GLs
        /\ \A d \in Client : d # g =>
             pc'[d] = pc[d] /\ state'[d] = state[d] /\ wire'[d] = wire[d]
    BY <1>4, <1>a DEF GLTerminate, GLClose, GLEarlyKick, GLRefuseMessage,
       GLSendDoInit, GLLeaves, Goto, Send, Kick, PlayPc, GlPc
  <2>2. UNCHANGED <<roster, snap, turnNumber, timers>>
    BY <1>4 DEF GLTerminate, GLClose, GLEarlyKick, GLRefuseMessage,
       GLSendDoInit
  <2>3. g \in GLs
    BY <1>b, <2>1
  <2>4. \A h \in GLs : (Listed(h)' <=> Listed(h))
    BY <2>2 DEF Listed
  <2>5. Late(g)'
    <3>1. CASE pc'[g] = "fin" /\ (g \in Faulty \/ pc[g] = "earlyKick")
      BY <1>c, <2>3, <3>1 DEF Late, AutoPcs, PlayPc
    <3>2. CASE /\ pc[g] = "closing" /\ pc'[g] = "done"
               /\ UNCHANGED <<state, wire>>
      <4>1. Listed(g)'
        BY <1>d, <2>3, <2>4, <3>2 DEF InSession
      <4>2. Listed(g)
        BY <1>d, <3>2 DEF InSession
      <4> QED BY <1>c, <2>2, <2>3, <3>2, <4>1, <4>2 DEF Late, AutoPcs, PlayPc
    <3>3. CASE /\ pc[g] \in PlayPc \cup {"waitStart", "fin"}
               /\ pc'[g] = "closing" /\ Kick(g) /\ pc[g] # "copy"
      <4>1. CASE pc[g] = "fin"
        <5>1. wire'[g] = "KICK" \/ wire'[g] = wire[g]
          BY <1>a, <3>3 DEF Kick
        <5> QED BY <1>c, <2>2, <2>3, <3>3, <4>1, <5>1
                DEF Late, AutoPcs, PlayPc
      <4>2. CASE pc[g] # "fin"
        <5>1. ~(snap.taken /\ turnNumber >= snap.nbTurnsMax)
          <6>1. CASE pc[g] = "waitStart"
            BY <1>c, <2>3, <6>1 DEF Late
          <6>2. CASE pc[g] \in PlayPc \ {"copy"}
            <7>1. turnNumber < snap.nbTurnsMax
              BY <1>c, <2>3, <6>2 DEF Late
            <7>2. turnNumber \in Nat /\ snap.nbTurnsMax \in Nat
              BY DEF VarsTypeOK, GlTypeOK
            <7> QED BY <7>1, <7>2
          <6> QED BY <3>3, <4>2, <6>1, <6>2
        <5> QED BY <2>2, <3>3, <5>1, ZenonT(40) DEF Late, AutoPcs, PlayPc
      <4> QED BY <4>1, <4>2
    <3> QED BY <2>1, <3>1, <3>2, <3>3
  <2> QED BY <2>1, <2>2, <2>3, <2>4, <2>5, LateStep DEF GLs
<1>5. CASE \/ GLCopyLists(g) \/ GLGameFinished(g) \/ GLDoTurnAck(g)
           \/ GLTurnForwarded(g)
  <2>1. /\ pc[g] \in {"copy", "ack", "timers", "turns"} /\ UNCHANGED roster
        /\ \A d \in Client : d # g =>
             pc'[d] = pc[d] /\ state'[d] = state[d] /\ wire'[d] = wire[d]
    BY <1>5, <1>a DEF GLCopyLists, GLGameFinished, GLDoTurnAck,
       GLTurnForwarded, GLLeaves, Goto, Kick
  <2>2. g \in GLs /\ Listed(g)
    BY <1>b, <1>d, <2>1 DEF GlPc, InSession
  <2>3. g \notin Faulty => state[g] # "KICKED"
    BY <1>c, <2>1, <2>2 DEF Late
  <2>4. pc[g] # "copy" => snap.taken
    BY <1>c, <2>1, <2>2 DEF Late, PlayPc
  <2>5. CASE GLCopyLists(g)
    <3>1. ~snap.taken
      BY <1>c, <2>2, <2>5 DEF GLCopyLists, Late
    <3>2. turnNumber = 0
      BY <3>1 DEF LateInv
    <3>3. snap'.taken /\ turnNumber' = 0 /\ snap'.nbTurnsMax \in Nat \ {0}
      BY <2>5, <3>2 DEF GLCopyLists, VarsTypeOK, GsTypeOK
    <3>4. pc'[g] = "assign" /\ state'[g] = state[g]
      BY <1>a, <2>5 DEF GLCopyLists, Goto
    <3>5. turnNumber' < snap'.nbTurnsMax
      BY <3>3
    <3>6. Late(g)'
      BY <2>3, <3>3, <3>4, <3>5 DEF Late, AutoPcs, PlayPc
    <3> QED BY <2>1, <2>2, <3>3, <3>6, LateSession DEF GLs
  <2>6. CASE GLGameFinished(g)
    <3>1. /\ pc'[g] = "fin" /\ Kick(g) /\ UNCHANGED <<snap, timers>>
          /\ g \notin Faulty => timers.sleeping = 0
      BY <1>a, <2>6 DEF GLGameFinished, GLLeaves, Goto, DoTurnAnswered
    <3>2. g \notin Faulty => wire'[g] = "KICK"
      BY <1>a, <2>3, <3>1 DEF Kick
    <3>3. Late(g)'
      BY <3>1, <3>2 DEF Late, AutoPcs, PlayPc
    <3>4. pc[g] # "copy"
      BY <2>6 DEF GLGameFinished
    <3> QED BY <2>1, <2>2, <2>4, <3>1, <3>3, <3>4, LateSession DEF GLs
  <2>7. CASE GLDoTurnAck(g) \/ GLTurnForwarded(g)
    <3>1. /\ pc[g] # "copy" /\ pc'[g] \in {"turns", "collect", "timers"}
          /\ UNCHANGED snap /\ state'[g] = state[g]
      BY <1>a, <2>7 DEF GLDoTurnAck, GLTurnForwarded, Goto
    <3>2. turnNumber' < snap.nbTurnsMax
      BY <1>c, <2>2, <2>7 DEF GLDoTurnAck, GLTurnForwarded, Late, PlayPc
    <3>3. Late(g)'
      BY <2>3, <2>4, <3>1, <3>2 DEF Late, AutoPcs, PlayPc
    <3> QED BY <2>1, <2>2, <2>4, <3>1, <3>3, LateSession DEF GLs
  <2> QED BY <1>5, <2>5, <2>6, <2>7
<1>6. CASE TimerSend(g)
  <2>1. /\ UNCHANGED <<pc, state, roster, snap, turnNumber>>
        /\ \A d \in Client : d # g => wire'[d] = wire[d]
    BY <1>6, <1>a DEF TimerSend
  <2>2. timers.sleeping # 0
    <3>1. timers.sleeping > 0
      BY <1>6 DEF TimerSend
    <3>2. timers.sleeping \in Nat
      BY <1>a
    <3> QED BY <3>1, <3>2
  <2>3. g \in GLs /\ Listed(g)
    BY <1>6 DEF TimerSend, SessionInv, RosterInv, AllRole, GLs, Listed
  <2>4. snap.taken
    BY <2>2 DEF LateInv
  <2>5. g \notin Faulty =>
          /\ pc[g] # "fin"
          /\ pc[g] \in {"closing", "done"} => ~(turnNumber >= snap.nbTurnsMax)
    BY <1>c, <2>2, <2>3, <2>4 DEF Late
  <2>6. Listed(g)'
    BY <2>1, <2>3 DEF Listed
  <2>7. Late(g)'
    BY <1>c, <2>1, <2>3, <2>4, <2>5, <2>6 DEF Late
  <2> QED BY <2>1, <2>3, <2>4, <2>7, LateSession DEF GLs
<1>7. GLSendDoInit(g) => Goto(g, "initAck") \/ GLLeaves(g)
  BY DEF GLSendDoInit
<1> QED BY <1>1, <1>2, <1>3, <1>4, <1>5, <1>6, <1>7, ZenonT(40)
        DEF GLInput, GLAnswer, GLStep

\* The invariant holds before anyone connects.
LEMMA InitLate == Init => LateInv
BY SMTT(40) DEF Init, LateInv, Late, GLs, AutoPcs, PlayPc

\* Every step preserves it.
LEMMA NextLate ==
  VarsTypeOK /\ SessionInv /\ ProtoInv /\ LateInv /\ [Next]_vars => LateInv'
<1> SUFFICES ASSUME VarsTypeOK, SessionInv, ProtoInv, LateInv, [Next]_vars
             PROVE  LateInv'
  OBVIOUS
<1>1. ASSUME NEW c \in Client,
             \/ Connect(c) \/ FirstMessage(c) \/ LoginStep(c)
             \/ PvInput(c) \/ PvStep(c)
             \/ GLInput(c) \/ GLAnswer(c) \/ GLStep(c) \/ TimerSend(c)
      PROVE  LateInv'
  BY <1>1, LoginLate, PvLate, GLLate
<1>2. ASSUME Signal \/ PromptStep \/ MainStep \/ ServerStop \/ PromptStarted
             \/ StartupStep \/ TimerReset \/ UNCHANGED vars
      PROVE  LateInv'
  <2>1. /\ UNCHANGED <<pc, state, wire, snap, turnNumber>>
        /\ UNCHANGED timers \/ TimerReset
        /\ UNCHANGED roster
    BY <1>2 DEF Signal, PromptStep, PromptStart, PromptQuit, PromptSetLimit,
       PromptSetTurns, MainStep, MainExit, Cleanup, CleanupPanics, MainSelect,
       ServerStop, PromptStarted, StartupStep, ServerListen, PromptRun,
       TimerReset
  <2>2. timers'.sleeping = timers.sleeping
    BY <2>1 DEF TimerReset, VarsTypeOK, GlTypeOK
  <2> QED BY <2>1, <2>2, LateQuiet
<1> QED BY <1>1, <1>2 DEF Next, Environment, Handler
=============================================================================
