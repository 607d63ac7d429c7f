--------------------------- MODULE BarrierProofs ----------------------------
(***************************************************************************)
(* The turn barrier of the fast mode: where the last turn is, and who is   *)
(* awaited, whatever step is taken.                                        *)
(***************************************************************************)
EXTENDS OperatorProofs

\* Some leaves are large: the provers get more time than by default.
USE ZenonT(20), SMTT(40)
USE DEF gsVars, connVars, pvVars, chanVars, glVars, mainVars, vars

-----------------------------------------------------------------------------
(* The invariant.                                                          *)

\* The handler of c sends no more actions.
Leaving(c) == pc[c] \in {"kick", "kicking", "endKick", "fin", "done"}

InChannel(c) == \E a \in Elems(playerAction) : a.id = playerID[c]

\* No turn has been forwarded yet.
Calm == /\ playerAction = <<>> /\ playerActions = <<>>
        /\ \A c \in Pvs : newTurn[c] = <<>> /\ state[c] # "THINKING"

\* The players of the game have distinct identifiers.
Identified ==
  /\ \A c \in Players : playerID[c] \in 0 .. Len(AllPlayers) - 1
  /\ \A i \in 0 .. Len(AllPlayers) - 1 : \E c \in Players : playerID[c] = i
  /\ \A c, d \in Players : playerID[c] = playerID[d] => c = d

\* The departure of c has been reported.
Told(c) == pc[c] = "done" /\ mainPc = "select" =>
             playerID[c] \in Elems(playerDisconnected)

\* The game logic g has put the last turn in newTurn of c, and awaits its action.
Asked(g, c) == \/ pc[g] = "turns" /\ c \notin Elems(todo)
               \/ pc[g] = "collect" /\ playerID[c] \in awaited

\* The last turn, n, is in one place on its way to c and back, when c is asked,
\* and nowhere when it is not.
Served(c, n, asked) ==
  /\ \A a \in Elems(playerAction) : a.id = playerID[c] => asked /\ a.turn = n
  /\ ~Leaving(c) =>
       \/ ~asked /\ newTurn[c] = <<>> /\ state[c] # "THINKING"
       \/ asked /\ InChannel(c) /\ newTurn[c] = <<>> /\ state[c] # "THINKING"
       \/ /\ asked /\ ~InChannel(c) /\ newTurn[c] = <<>>
          /\ state[c] = "THINKING" /\ turnBuffer[c] = NoTurn /\ lastTurn[c] = n
       \/ /\ asked /\ ~InChannel(c) /\ newTurn[c] = <<n>>
          /\ state[c] # "THINKING"

\* A connected player is served, one that is not has left.
Seated(g, c) == IF playerID[c] \in connectedPlayers
                THEN Told(c) /\ Served(c, turnNumber - 1, Asked(g, c))
                ELSE Leaving(c)

Collected ==
  /\ awaited \subseteq connectedPlayers
  /\ connectedPlayers \ awaited \subseteq {a.id : a \in Elems(playerActions)}
  /\ OneEach(playerActions)
  /\ \A a \in Elems(playerActions) : a.turn = turnNumber - 1 /\ a.id \notin awaited

RoundPc == {"ack", "turns", "collect"}

\* What holds while the handler of the game logic g is at a place.
BarrierAt(g) ==
  /\ pc[g] # "timers"
  /\ pc[g] = "assign" => \A c \in Client : playerID[c] = -1
  /\ pc[g] \in {"assign", "infos", "initAck", "starts", "firstTurn"} => Calm
  /\ pc[g] \in {"infos", "initAck", "starts", "firstTurn"} \cup RoundPc =>
       Identified
  /\ pc[g] = "starts" => \A c \in Players : c \in Elems(todo) \/ Told(c)
  /\ pc[g] = "firstTurn" => \A c \in Players : Told(c)
  /\ pc[g] \in RoundPc =>
       /\ \A i \in connectedPlayers : \E c \in Players : playerID[c] = i
       /\ \A c \in Players : Seated(g, c)
       /\ \A a \in Elems(playerAction) : \E c \in Players : playerID[c] = a.id
  /\ pc[g] \in {"ack", "turns"} => playerActions = <<>>
  /\ pc[g] = "collect" => Collected

\* What holds wherever it is.
BarrierBase ==
  /\ timers.sleeping = 0 /\ timers.sent = 0
  /\ ~snap.taken => Calm /\ \A c \in Client : playerID[c] = -1
  /\ snap.taken => \A c \in Players : c \in Client /\ IsPlayer(c)
  /\ \A i \in Elems(playerDisconnected) :
       i = -1 \/ \E c \in Players : playerID[c] = i /\ pc[c] = "done"

BarrierHolds == BarrierBase /\ \A g \in GLs : BarrierAt(g)

\* The lists are copied once.
CopiedOnce == \A g \in GLs : pc[g] = "copy" => ~snap.taken

\* With SessionInv, ProtoInv and CopiedOnce, it is preserved by every step.
BarrierInv == Fast => BarrierHolds

-----------------------------------------------------------------------------
(* Frames.                                                                 *)

\* Outside of the game there is nothing to keep.
LEMMA BarrierNowhere ==
  ASSUME NEW g, pc[g] \in Early \cup AutoPcs \cup
                  {"waitStart", "earlyKick", "copy", "fin", "closing", "done"}
  PROVE  BarrierAt(g)
BY DEF BarrierAt, Early, AutoPcs, RoundPc

\* The same after a step.
LEMMA BarrierNowherePrime ==
  ASSUME NEW g, pc'[g] \in Early \cup AutoPcs \cup
                  {"waitStart", "earlyKick", "copy", "fin", "closing", "done"}
  PROVE  BarrierAt(g)'
BY DEF BarrierAt, Early, AutoPcs, RoundPc

\* The game logic g has told the player d that the game starts, and the first
\* turn has not begun.
Waits(g, d) == \/ pc[g] = "firstTurn"
               \/ pc[g] = "starts" /\ d \notin Elems(todo)

\* A step of another goroutine than that of the game logic g.
LEMMA OthersBarrier ==
  ASSUME NEW g, BarrierAt(g), pc'[g] = pc[g],
         UNCHANGED <<playerID, playerActions, snap, todo, turnNumber,
                     connectedPlayers, awaited>>,
         Calm => Calm',
         \A d \in Players : Waits(g, d) /\ Told(d) => Told(d)',
         \A d \in Players : pc[g] \in RoundPc /\ Seated(g, d) => Seated(g, d)',
         \A a \in Elems(playerAction') :
           a \in Elems(playerAction) \/ \E d \in Players : playerID[d] = a.id
  PROVE  BarrierAt(g)'
<1>1. /\ Players' = Players
      /\ Identified' = Identified /\ Collected' = Collected
  BY SMTT(40) DEF Players, AllPlayers, Identified, Collected, OneEach
<1>2. Elems(playerAction)' = Elems(playerAction') /\ Elems(todo)' = Elems(todo)
  BY DEF Elems
<1>3. pc'[g] = "starts" => \A c \in Players : c \in Elems(todo) \/ Told(c)'
  <2>1. pc[g] = "starts" => \A c \in Players : c \in Elems(todo) \/ Told(c)
    BY DEF BarrierAt
  <2>2. ASSUME NEW c \in Players, pc[g] = "starts", c \notin Elems(todo)
        PROVE  Told(c)'
    <3>1. Told(c) /\ Waits(g, c)
      BY <2>1, <2>2 DEF Waits
    <3> QED BY <3>1
  <2> QED BY <2>2
<1>4. pc'[g] = "firstTurn" => \A c \in Players : Told(c)'
  <2>1. pc[g] = "firstTurn" => \A c \in Players : Told(c)
    BY DEF BarrierAt
  <2>2. ASSUME NEW c \in Players, pc[g] = "firstTurn"
        PROVE  Told(c)'
    <3>1. Told(c) /\ Waits(g, c)
      BY <2>1, <2>2 DEF Waits
    <3> QED BY <3>1
  <2> QED BY <2>2
<1>5. pc'[g] \in RoundPc =>
        /\ \A i \in connectedPlayers : \E c \in Players : playerID[c] = i
        /\ \A c \in Players : Seated(g, c)'
        /\ \A a \in Elems(playerAction') : \E c \in Players : playerID[c] = a.id
  BY DEF BarrierAt
<1> QED BY <1>1, <1>2, <1>3, <1>4, <1>5 DEF BarrierAt

\* The player d is seated as before by a step that neither takes a turn from
\* its channel nor sends or receives an action.
LEMMA SeatKept ==
  ASSUME NEW g, NEW d, UNCHANGED <<playerID, playerAction, turnNumber>>,
         (playerID[d] \in connectedPlayers') = (playerID[d] \in connectedPlayers),
         playerID[d] \in connectedPlayers => Asked(g, d)' = Asked(g, d),
         Told(d) => Told(d)', Leaving(d) => Leaving(d)',
         ~Leaving(d)' =>
           /\ newTurn'[d] = newTurn[d] /\ turnBuffer'[d] = turnBuffer[d]
           /\ lastTurn'[d] = lastTurn[d]
           /\ (state'[d] = "THINKING") = (state[d] = "THINKING"),
         Seated(g, d)
  PROVE  Seated(g, d)'
<1>1. InChannel(d)' = InChannel(d)
  BY DEF InChannel
<1>2. CASE playerID[d] \notin connectedPlayers
  BY <1>2 DEF Seated
<1>3. CASE playerID[d] \in connectedPlayers
  <2>1. Told(d)' /\ Served(d, turnNumber - 1, Asked(g, d))
    BY <1>3 DEF Seated
  <2>2. Served(d, turnNumber - 1, Asked(g, d))'
    BY <1>1, <1>3, <2>1 DEF Served
  <2> QED BY <1>3, <2>1, <2>2 DEF Seated
<1> QED BY <1>2, <1>3

\* In particular by a step of another goroutine.
LEMMA SameSeat ==
  ASSUME NEW g, NEW d, pc'[g] = pc[g],
         UNCHANGED <<playerID, playerAction, todo, turnNumber, connectedPlayers,
                     awaited>>,
         Told(d) => Told(d)', Leaving(d) => Leaving(d)',
         ~Leaving(d)' =>
           /\ newTurn'[d] = newTurn[d] /\ turnBuffer'[d] = turnBuffer[d]
           /\ lastTurn'[d] = lastTurn[d]
           /\ (state'[d] = "THINKING") = (state[d] = "THINKING"),
         Seated(g, d)
  PROVE  Seated(g, d)'
<1>1. Asked(g, d)' = Asked(g, d)
  BY DEF Asked
<1> QED BY <1>1, SeatKept

\* A player that is not asked anything has no turn and no action on the way.
Idle(c) == /\ ~InChannel(c)
           /\ ~Leaving(c) => newTurn[c] = <<>> /\ state[c] # "THINKING"

\* That is what it means to be served then.
LEMMA IdleServed ==
  ASSUME NEW g, NEW c
  PROVE  /\ Seated(g, c) /\ playerID[c] \in connectedPlayers /\ ~Asked(g, c)
              => Idle(c)
         /\ Told(c)' /\ playerID'[c] \in connectedPlayers' /\ ~Asked(g, c)'
            /\ Idle(c)' => Seated(g, c)'
<1>1. ASSUME Seated(g, c), playerID[c] \in connectedPlayers, ~Asked(g, c)
      PROVE  Idle(c)
  BY <1>1 DEF Seated, Served, Idle, InChannel
<1>2. ASSUME Told(c)', playerID'[c] \in connectedPlayers', ~Asked(g, c)',
             Idle(c)'
      PROVE  Seated(g, c)'
  BY <1>2 DEF Seated, Served, Idle, InChannel
<1> QED BY <1>1, <1>2

\* A client of the copied lists that has been reached is past GAME_STARTS.
LEMMA ReachedStarted ==
  ASSUME VarsTypeOK, ProtoInv, NEW g \in GLs, NEW d \in Players,
         Waits(g, d) \/ pc[g] \in RoundPc
  PROVE  Started(d)
<1>1. Players \subseteq Elems(Recipients)
  <2>1. AllPlayers \in Seq(Client) /\ snap.visus \in Seq(Client)
    BY ConcatProperties DEF AllPlayers, VarsTypeOK, GlTypeOK
  <2> QED BY <2>1, ElemsConcat, SMTT(40) DEF Players, Recipients
<1>2. StartsAt(pc[g])
  BY DEF ProtoInv, StartsInv
<1>3. CASE pc[g] \in TurnsPc
  BY <1>1, <1>2, <1>3 DEF StartsAt
<1>4. CASE pc[g] = "starts" /\ d \notin Elems(todo)
  BY <1>1, <1>2, <1>4 DEF StartsAt
<1> QED BY <1>3, <1>4 DEF Waits, RoundPc, TurnsPc

\* What a step of the handler of c leaves alone.
KeepsGame(c) ==
  /\ UNCHANGED <<playerID, playerActions, snap, todo, turnNumber,
                 connectedPlayers, awaited, timers, mainPc>>
  /\ \A d \in Client : d # c =>
       /\ pc'[d] = pc[d] /\ state'[d] = state[d] /\ newTurn'[d] = newTurn[d]
       /\ turnBuffer'[d] = turnBuffer[d] /\ lastTurn'[d] = lastTurn[d]

\* Such a step preserves the part of the invariant that is about no place.
LEMMA KeepsBase ==
  ASSUME BarrierBase, NEW c, KeepsGame(c), Players \subseteq Client,
         ~snap.taken => Calm',
         pc[c] = "done" => pc'[c] = "done",
         \A i \in Elems(playerDisconnected') :
           \/ i \in Elems(playerDisconnected) \/ i = -1
           \/ c \in Players /\ playerID[c] = i /\ pc'[c] = "done"
  PROVE  BarrierBase'
<1>1. /\ Players' = Players /\ snap' = snap /\ playerID' = playerID
      /\ timers' = timers
  BY DEF KeepsGame, Players, AllPlayers
<1>2. Elems(playerDisconnected)' = Elems(playerDisconnected')
  BY DEF Elems
<1>3. ASSUME NEW i \in Elems(playerDisconnected')
      PROVE  i = -1 \/ \E d \in Players : playerID[d] = i /\ pc'[d] = "done"
  <2>1. CASE i \in Elems(playerDisconnected) /\ i # -1
    <3>1. PICK d \in Players : playerID[d] = i /\ pc[d] = "done"
      BY <2>1 DEF BarrierBase
    <3>2. pc'[d] = "done"
      BY <3>1 DEF KeepsGame
    <3> QED BY <3>1, <3>2
  <2> QED BY <1>3, <2>1
<1> QED BY <1>1, <1>2, <1>3 DEF BarrierBase

\* The lists hold clients.
LEMMA PlayersClients ==
  ASSUME VarsTypeOK
  PROVE  Players \subseteq Client
<1>1. /\ snap.players \in Seq(Client) /\ snap.specialPlayers \in Seq(Client)
  BY DEF VarsTypeOK, GlTypeOK
<1>2. \A s \in Seq(Client) : Elems(s) \subseteq Client
  BY ElementOfSeq, LenProperties DEF Elems
<1> QED BY <1>1, <1>2, ElemsConcat, SMTT(40) DEF Players, AllPlayers

\* A step of c that neither takes a turn nor sends an action, and that does
\* not end its handler while the game goes on.
LEMMA MoveBarrier ==
  ASSUME VarsTypeOK, ProtoInv, BarrierBase, NEW g \in GLs, BarrierAt(g),
         NEW c \in Client, c # g, KeepsGame(c),
         UNCHANGED <<playerAction, playerDisconnected>>,
         newTurn'[c] = newTurn[c],
         c \in Pvs /\ state'[c] = "THINKING" => state[c] = "THINKING",
         c \in Players /\ Started(c) =>
           /\ Leaving(c) => Leaving(c)'
           /\ ~Leaving(c)' => /\ turnBuffer'[c] = turnBuffer[c]
                              /\ lastTurn'[c] = lastTurn[c]
                              /\ (state'[c] = "THINKING") =
                                   (state[c] = "THINKING")
           /\ pc'[c] = "done" /\ mainPc = "select" => pc[c] = "done"
  PROVE  BarrierAt(g)'
<1>0. Players \subseteq Client
  BY PlayersClients
<1>1. g \in Client /\ pc'[g] = pc[g]
  BY DEF GLs, KeepsGame
<1>2. UNCHANGED <<playerID, playerActions, snap, todo, turnNumber,
                  connectedPlayers, awaited, mainPc>>
  BY DEF KeepsGame
<1>3. Calm => Calm'
  BY DEF Calm, KeepsGame, Pvs
<1>4. ASSUME NEW d \in Players, Waits(g, d) \/ pc[g] \in RoundPc
      PROVE  Told(d) => Told(d)'
  <2>1. pc'[d] = "done" /\ mainPc = "select" => pc[d] = "done"
    BY <1>0, <1>4, ReachedStarted DEF KeepsGame
  <2> QED BY <1>2, <2>1 DEF Told
<1>5. ASSUME NEW d \in Players, pc[g] \in RoundPc, Seated(g, d)
      PROVE  Seated(g, d)'
  <2>1. /\ Leaving(d) => Leaving(d)'
        /\ ~Leaving(d)' =>
             /\ newTurn'[d] = newTurn[d] /\ turnBuffer'[d] = turnBuffer[d]
             /\ lastTurn'[d] = lastTurn[d]
             /\ (state'[d] = "THINKING") = (state[d] = "THINKING")
    <3>1. CASE d = c
      BY <1>5, <3>1, ReachedStarted
    <3>2. CASE d # c
      BY <1>0, <3>2 DEF KeepsGame, Leaving
    <3> QED BY <3>1, <3>2
  <2> QED BY <1>1, <1>2, <1>4, <1>5, <2>1, SameSeat
<1> QED BY <1>1, <1>2, <1>3, <1>4, <1>5, OthersBarrier

-----------------------------------------------------------------------------
(* The goroutines of the clients and of the program.                       *)

\* The steps up to the handler of the role: no player of the game takes one.
LEMMA LoginBarrier ==
  ASSUME VarsTypeOK, ProtoInv, BarrierHolds, NEW c \in Client,
         Connect(c) \/ FirstMessage(c) \/ LoginStep(c)
  PROVE  BarrierHolds'
<1>a. pc \in [Client -> Pc] /\ state \in [Client -> ClientState]
  BY DEF VarsTypeOK, ConnTypeOK
<1>1. /\ KeepsGame(c)
      /\ UNCHANGED <<playerAction, playerDisconnected, newTurn>>
      /\ state'[c] \in {state[c], "KICKED", "LOGGED"}
  BY <1>a DEF KeepsGame, Connect, FirstMessage, LoginStep, RefuseFirstMessage,
     ReadLogin, DenyLogin, AcceptLogin, JoinList, AutostartRead, AutostartSet,
     AutostartSend, Goto, Kick
<1>2. /\ pc[c] \in Early \cup AutoPcs
      /\ pc'[c] \in Early \cup AutoPcs \cup {"done", RoleHandler(c)}
  <2>1. ASSUME NEW k \in 1 .. 4, AutostartRead(c, k)
        PROVE  pc[c] \in AutoPcs /\ pc'[c] \in AutoPcs \cup {RoleHandler(c)}
    BY <2>1, AutoReadTarget DEF AutoPcs
  <2>2. CASE JoinList(c)
    BY <1>a, <2>2 DEF JoinList, Goto, AutoPc, Early, AutoPcs
  <2>3. CASE \/ Connect(c) \/ FirstMessage(c) \/ DenyLogin(c) \/ AcceptLogin(c)
             \/ AutostartSet(c) \/ AutostartSend(c)
    BY <1>a, <2>3 DEF Connect, FirstMessage, RefuseFirstMessage, ReadLogin,
       DenyLogin, AcceptLogin, AutostartSet, AutostartSend, Goto, Early, AutoPcs
  <2> QED BY <2>1, <2>2, <2>3 DEF LoginStep
<1>3. Calm => Calm'
  BY <1>1 DEF Calm, KeepsGame, Pvs
<1>4. BarrierBase'
  <2>1. pc[c] # "done"
    BY <1>2 DEF Early, AutoPcs
  <2> QED BY <1>1, <1>3, <2>1, KeepsBase, PlayersClients
          DEF BarrierHolds, BarrierBase
<1>5. ASSUME NEW g \in GLs
      PROVE  BarrierAt(g)'
  <2>1. CASE g = c
    <3>1. RoleHandler(c) = "waitStart"
      BY <2>1 DEF RoleHandler, GLs
    <3> QED BY <1>2, <2>1, <3>1, BarrierNowherePrime
  <2>2. CASE g # c
    <3>1. ~Started(c)
      BY <1>2 DEF Started
    <3> QED BY <1>1, <2>2, <3>1, MoveBarrier DEF BarrierHolds
  <2> QED BY <2>1, <2>2
<1> QED BY <1>4, <1>5 DEF BarrierHolds

\* A player or visualization that takes no turn and sends no action.
LEMMA PvMovesBarrier ==
  ASSUME VarsTypeOK, SessionInv, ProtoInv, BarrierHolds, NEW c \in Pvs,
         \/ PvTerminate(c) \/ CopyGLPointer(c) \/ ReceiveGameEnds(c)
         \/ KickAfterGameEnds(c) \/ KickLock(c)
         \/ \E n : RefuseMessage(c, n) \/ ReceiveTurnAck(c, n)
  PROVE  BarrierHolds'
<1>a. /\ pc \in [Client -> Pc] /\ state \in [Client -> ClientState]
      /\ turnBuffer \in [Client -> Int] /\ lastTurn \in [Client -> Int]
      /\ c \in Client
  BY DEF VarsTypeOK, ConnTypeOK, PvTypeOK, Pvs
<1>1. /\ KeepsGame(c)
      /\ UNCHANGED <<playerAction, playerDisconnected, newTurn>>
  BY <1>a DEF KeepsGame, PvTerminate, CopyGLPointer, ReceiveGameEnds,
     KickAfterGameEnds, KickLock, RefuseMessage, ReceiveTurnAck, AfterTurnAck,
     SendTurn, KickLogged, Goto, Kick
<1>2. CASE \E n : ReceiveTurnAck(c, n) /\ ~IsPlayer(c)
  <2>1. /\ pc[c] = "loop" /\ state[c] = "THINKING" /\ ~IsPlayer(c)
        /\ pc'[c] \in {"loop", "kick"}
    BY <1>2, <1>a DEF ReceiveTurnAck, AcceptsTurnAck, AfterTurnAck, SendTurn,
       KickLogged, Goto
  <2>2. snap.taken /\ c \notin Players
    BY <2>1 DEF BarrierHolds, BarrierBase, Calm
  <2>3. BarrierBase'
    BY <1>1, <2>1, <2>2, KeepsBase, PlayersClients DEF BarrierHolds
  <2>4. ASSUME NEW g \in GLs
        PROVE  BarrierAt(g)'
    <3>1. c # g
      BY DEF Pvs, GLs
    <3> QED BY <1>1, <1>a, <2>1, <2>2, <3>1, MoveBarrier DEF BarrierHolds
  <2> QED BY <2>3, <2>4 DEF BarrierHolds
<1>3. CASE ~ \E n : ReceiveTurnAck(c, n) /\ ~IsPlayer(c)
  <2>1. /\ \/ pc[c] = "copyGL" /\ pc'[c] = "loop"
           \/ pc[c] = "loop" /\ pc'[c] = "forward"
           \/ /\ pc[c] # "done"
              /\ pc'[c] \in {"endKick", "kick", "fin", "kicking"}
           \/ pc[c] # "done" /\ pc'[c] = "done" /\ canTerminate[c]
        /\ turnBuffer'[c] = turnBuffer[c] /\ lastTurn'[c] = lastTurn[c]
        /\ state'[c] \in {state[c], "KICKED"}
        /\ pc'[c] \in {"loop", "forward"} => state'[c] = state[c]
    BY <1>3, <1>a DEF PvTerminate, CopyGLPointer, ReceiveGameEnds,
       KickAfterGameEnds, KickLock, RefuseMessage, ReceiveTurnAck, KickLogged,
       Goto, Kick
  <2>2. canTerminate[c] => mainPc # "select"
    BY <1>a DEF SessionInv, RosterInv, Ending
  <2>3. Calm => Calm'
    BY <1>1, <2>1 DEF Calm, KeepsGame, Pvs
  <2>4. BarrierBase'
    BY <1>1, <2>1, <2>3, KeepsBase, PlayersClients DEF BarrierHolds, BarrierBase
  <2>5. /\ Leaving(c) => Leaving(c)'
        /\ ~Leaving(c)' => state'[c] = state[c]
        /\ pc'[c] = "done" /\ mainPc = "select" => pc[c] = "done"
    BY <2>1, <2>2 DEF Leaving
  <2>6. ASSUME NEW g \in GLs
        PROVE  BarrierAt(g)'
    <3>1. c # g
      BY DEF Pvs, GLs
    <3>2. state'[c] = "THINKING" => state[c] = "THINKING"
      BY <2>1
    <3> QED BY <1>1, <1>a, <2>1, <2>5, <3>1, <3>2, MoveBarrier DEF BarrierHolds
  <2> QED BY <2>4, <2>6 DEF BarrierHolds
<1> QED BY <1>2, <1>3

\* A player that takes a turn from its channel is ready for it.
LEMMA NewTurnBarrier ==
  ASSUME VarsTypeOK, ProtoInv, BarrierHolds, NEW c \in Pvs, ReceiveNewTurn(c)
  PROVE  BarrierHolds'
<1>a. /\ pc \in [Client -> Pc] /\ state \in [Client -> ClientState]
      /\ turnBuffer \in [Client -> Int] /\ lastTurn \in [Client -> Int]
      /\ newTurn \in [Client -> Seq(Int)] /\ c \in Client
  BY DEF VarsTypeOK, ConnTypeOK, PvTypeOK, Pvs
<1>b. Players \subseteq Client
  BY PlayersClients
<1>1. /\ KeepsGame(c) /\ pc[c] = "loop" /\ pc'[c] \in {"loop", "kick"}
      /\ UNCHANGED <<playerAction, playerDisconnected>>
      /\ newTurn[c] # <<>> /\ newTurn'[c] = Tail(newTurn[c])
  BY <1>a DEF KeepsGame, ReceiveNewTurn, SendTurn, KickLogged, Goto
<1>2. snap.taken /\ ~Calm
  BY <1>1 DEF BarrierHolds, BarrierBase, Calm
<1>3. BarrierBase'
  BY <1>1, <1>2, <1>b, KeepsBase DEF BarrierHolds
<1>4. \A d \in Players : Told(d) => Told(d)'
  BY <1>1, <1>b DEF Told, KeepsGame
<1>5. ASSUME NEW g \in GLs
      PROVE  BarrierAt(g)'
  <2>1. g # c /\ pc'[g] = pc[g] /\ BarrierAt(g)
    BY <1>1 DEF Pvs, GLs, KeepsGame, BarrierHolds
  <2>2. UNCHANGED <<playerID, playerActions, snap, todo, turnNumber,
                    connectedPlayers, awaited>>
    BY <1>1 DEF KeepsGame
  <2>3. ASSUME NEW d \in Players, d # c, Seated(g, d)
        PROVE  Seated(g, d)'
    <3>1. /\ pc'[d] = pc[d] /\ state'[d] = state[d] /\ newTurn'[d] = newTurn[d]
          /\ turnBuffer'[d] = turnBuffer[d] /\ lastTurn'[d] = lastTurn[d]
      BY <1>1, <1>b, <2>3 DEF KeepsGame
    <3>2. Leaving(d)' = Leaving(d)
      BY <3>1 DEF Leaving
    <3> QED BY <1>1, <1>4, <2>1, <2>2, <2>3, <3>1, <3>2, SameSeat
  <2>4. ASSUME c \in Players, pc[g] \in RoundPc, Seated(g, c)
        PROVE  Seated(g, c)'
    <3> DEFINE n == turnNumber - 1
    <3>1. ~Leaving(c)
      BY <1>1 DEF Leaving
    <3>2. playerID[c] \in connectedPlayers /\ Told(c) /\ Served(c, n, Asked(g, c))
      BY <2>4, <3>1 DEF Seated
    <3>3. /\ Asked(g, c) /\ ~InChannel(c) /\ newTurn[c] = <<n>>
          /\ state[c] # "THINKING"
      BY <1>1, <3>1, <3>2 DEF Served
    <3>4. Started(c) /\ PhaseOf(c)
      BY <2>4, ReachedStarted DEF ProtoInv
    <3>5. state[c] = "READY" /\ turnBuffer[c] = NoTurn
      BY <1>1, <3>3, <3>4 DEF Started, PhaseOf, Playing
    <3>6. Head(newTurn[c]) = n /\ Tail(newTurn[c]) = <<>>
      <4>1. Head(<<n>>) = n /\ Tail(<<n>>) = <<>>
        BY SMT
      <4> QED BY <3>3, <4>1
    <3>7. /\ turnBuffer'[c] = NoTurn /\ lastTurn'[c] = n
          /\ \/ state'[c] = "THINKING"
             \/ pc'[c] = "kick"
      BY <1>a, <3>5, <3>6 DEF ReceiveNewTurn, SendTurn, KickLogged, Goto
    <3>8. Asked(g, c)' = Asked(g, c) /\ InChannel(c)' = InChannel(c)
      BY <1>1, <2>1, <2>2 DEF Asked, InChannel
    <3>9. Served(c, n, Asked(g, c))'
      <4>1. \A a \in Elems(playerAction') : a.id = playerID'[c] =>
              Asked(g, c) /\ a.turn = n
        BY <1>1, <2>2, <3>2 DEF Served
      <4>2. ~Leaving(c)' => state'[c] = "THINKING"
        BY <3>7 DEF Leaving
      <4>3. n' = n
        BY <2>2
      <4>4. newTurn'[c] = <<>>
        BY <1>1, <3>6
      <4> HIDE DEF n
      <4> QED BY <1>1, <3>3, <3>7, <3>8, <4>1, <4>2, <4>3, <4>4 DEF Served
    <3> QED BY <1>4, <2>2, <2>4, <3>2, <3>9 DEF Seated
  <2> QED BY <1>1, <1>2, <1>4, <2>1, <2>2, <2>3, <2>4, OthersBarrier
<1> QED BY <1>3, <1>5 DEF BarrierHolds

\* A player that forwards an action forwards that of the last turn, to a game
\* logic that awaits it.
LEMMA ForwardBarrier ==
  ASSUME VarsTypeOK, SessionInv, ProtoInv, BarrierHolds, NEW c \in Pvs,
         ForwardActions(c)
  PROVE  BarrierHolds'
<1>a. /\ pc \in [Client -> Pc] /\ state \in [Client -> ClientState]
      /\ turnBuffer \in [Client -> Int] /\ lastTurn \in [Client -> Int]
      /\ playerID \in [Client -> Int] /\ c \in Client
  BY DEF VarsTypeOK, ConnTypeOK, PvTypeOK, Pvs
<1>b. Players \subseteq Client
  BY PlayersClients
<1> DEFINE act == [id |-> playerID[c], turn |-> lastTurn[c]]
<1>1. /\ KeepsGame(c) /\ pc[c] = "forward" /\ pc'[c] \in {"loop", "kick"}
      /\ UNCHANGED <<playerDisconnected, newTurn>>
      /\ playerAction = <<>> /\ playerAction' = Append(<<>>, act)
  BY <1>a DEF KeepsGame, ForwardActions, AfterTurnAck, SendTurn, KickLogged, Goto
<1>2. Elems(playerAction) = {} /\ Elems(playerAction') = {act}
  <2>1. act \in Action
    BY <1>a DEF Action
  <2> QED BY <1>1, <2>1, ChannelElems
<1>3. state[c] = "THINKING" /\ IsPlayer(c)
  BY <1>1 DEF ProtoInv, PhaseOf
<1>4. snap.taken /\ ~Calm
  BY <1>3 DEF BarrierHolds, BarrierBase, Calm
<1>5. c \in Players
  BY <1>1, <1>3, <1>4, <1>a DEF SessionInv, StartInv, InSession, Players
<1>6. BarrierBase'
  BY <1>1, <1>4, <1>b, KeepsBase DEF BarrierHolds
<1>7. \A d \in Players : Told(d) => Told(d)'
  BY <1>1, <1>b DEF Told, KeepsGame
<1>8. act.id = playerID[c] /\ act.turn = lastTurn[c]
  OBVIOUS
<1> HIDE DEF act
<1>9. ASSUME NEW g \in GLs
      PROVE  BarrierAt(g)'
  <2>1. g # c /\ pc'[g] = pc[g] /\ BarrierAt(g)
    BY <1>1 DEF Pvs, GLs, KeepsGame, BarrierHolds
  <2>2. UNCHANGED <<playerID, playerActions, snap, todo, turnNumber,
                    connectedPlayers, awaited>>
    BY <1>1 DEF KeepsGame
  <2>3. \A d : Asked(g, d)' = Asked(g, d)
    BY <2>1, <2>2 DEF Asked
  <2>4. \A d : ~InChannel(d)
    BY <1>2 DEF InChannel
  <2>5. \A d : InChannel(d)' <=> playerID[d] = playerID[c]
    BY <1>2, <1>8, <2>2 DEF InChannel, Elems
  <2>6. ASSUME NEW d \in Players, d # c, pc[g] \in RoundPc, Seated(g, d)
        PROVE  Seated(g, d)'
    <3>1. /\ pc'[d] = pc[d] /\ state'[d] = state[d] /\ newTurn'[d] = newTurn[d]
          /\ turnBuffer'[d] = turnBuffer[d] /\ lastTurn'[d] = lastTurn[d]
      BY <1>1, <1>b, <2>6 DEF KeepsGame
    <3>2. Leaving(d)' = Leaving(d)
      BY <3>1 DEF Leaving
    <3>3. playerID[d] # playerID[c]
      BY <1>5, <2>1, <2>6 DEF BarrierAt, Identified
    <3>4. ASSUME playerID[d] \in connectedPlayers
          PROVE  Told(d)' /\ Served(d, turnNumber - 1, Asked(g, d))'
      <4>1. Told(d) /\ Served(d, turnNumber - 1, Asked(g, d))
        BY <2>6, <3>4 DEF Seated
      <4>2. \A a \in Elems(playerAction') : a.id # playerID'[d]
        BY <1>2, <1>8, <2>2, <3>3
      <4>3. ~InChannel(d) /\ ~InChannel(d)'
        BY <2>4, <2>5, <3>3
      <4> QED BY <1>7, <2>2, <2>3, <3>1, <3>2, <4>1, <4>2, <4>3 DEF Served, Elems
    <3> QED BY <2>2, <2>6, <3>2, <3>4 DEF Seated
  <2>7. ASSUME pc[g] \in RoundPc, Seated(g, c)
        PROVE  Seated(g, c)'
    <3> DEFINE n == turnNumber - 1
    <3>1. ~Leaving(c)
      BY <1>1 DEF Leaving
    <3>2. playerID[c] \in connectedPlayers /\ Told(c) /\ Served(c, n, Asked(g, c))
      BY <2>7, <3>1 DEF Seated
    <3>3. /\ Asked(g, c) /\ newTurn[c] = <<>>
          /\ turnBuffer[c] = NoTurn /\ lastTurn[c] = n
      BY <1>3, <3>1, <3>2 DEF Served
    <3>4. state'[c] = "READY"
      BY <1>a, <3>3 DEF ForwardActions, AfterTurnAck
    <3>5. Served(c, n, Asked(g, c))'
      <4>1. \A a \in Elems(playerAction') : a.turn = n
        BY <1>2, <1>8, <3>3
      <4>2. InChannel(c)' /\ Asked(g, c)' /\ newTurn'[c] = <<>>
        BY <1>1, <2>3, <2>5, <3>3
      <4>3. n' = n
        BY <2>2
      <4> HIDE DEF n
      <4> QED BY <3>4, <4>1, <4>2, <4>3 DEF Served, Elems
    <3> QED BY <1>5, <1>7, <2>2, <3>2, <3>5 DEF Seated
  <2> QED BY <1>2, <1>4, <1>5, <1>7, <1>8, <2>1, <2>2, <2>6, <2>7, OthersBarrier
<1> QED BY <1>6, <1>9 DEF BarrierHolds

\* A player that leaves the game is reported to the game logic.
LEMMA KickBarrier ==
  ASSUME VarsTypeOK, SessionInv, ProtoInv, BarrierHolds, Fast, NEW c \in Pvs,
         KickUnlock(c)
  PROVE  BarrierHolds'
<1>a. /\ pc \in [Client -> Pc] /\ state \in [Client -> ClientState]
      /\ playerID \in [Client -> Int] /\ c \in Client
  BY DEF VarsTypeOK, ConnTypeOK, PvTypeOK, Pvs
<1>b. Players \subseteq Client
  BY PlayersClients
<1>1. /\ KeepsGame(c) /\ pc[c] = "kicking" /\ pc'[c] = "done"
      /\ UNCHANGED <<playerAction, newTurn>> /\ state'[c] = "KICKED"
      /\ NotifyDisconnection(c)
  BY <1>a DEF KeepsGame, KickUnlock, Kick, Goto
<1>2. snap.taken => gameState = "GAME_RUNNING"
  BY DEF SessionInv, StartInv
<1>3. \/ /\ Elems(playerDisconnected) = {}
         /\ Elems(playerDisconnected') = {playerID[c]} /\ IsPlayer(c)
      \/ /\ playerDisconnected' = playerDisconnected
         /\ ~(IsPlayer(c) /\ gameState = "GAME_RUNNING")
  <2>1. playerID[c] \in Int
    BY <1>a
  <2> QED BY <1>1, <2>1, ChannelElems DEF NotifyDisconnection
<1>4. snap.taken /\ IsPlayer(c) => c \in Players
  BY <1>1, <1>a DEF SessionInv, StartInv, InSession, Players
<1>5. Calm => Calm'
  BY <1>1 DEF Calm, KeepsGame, Pvs
<1>6. BarrierBase'
  <2>1. ~snap.taken => playerID[c] = -1
    BY <1>a DEF BarrierHolds, BarrierBase
  <2>2. \A i \in Elems(playerDisconnected') :
          \/ i \in Elems(playerDisconnected) \/ i = -1
          \/ c \in Players /\ playerID[c] = i /\ pc'[c] = "done"
    BY <1>1, <1>3, <1>4, <2>1
  <2>3. ~snap.taken => Calm'
    BY <1>5 DEF BarrierHolds, BarrierBase
  <2> QED BY <1>1, <1>b, <2>2, <2>3, KeepsBase DEF BarrierHolds
<1>7. ASSUME NEW d \in Players, snap.taken, Told(d)
      PROVE  Told(d)'
  <2>1. IsPlayer(d) /\ d \in Client
    BY <1>7 DEF BarrierHolds, BarrierBase
  <2>2. CASE d = c
    <3>1. Elems(playerDisconnected') = {playerID[c]} /\ playerID' = playerID
      BY <1>1, <1>2, <1>3, <1>7, <2>1, <2>2 DEF KeepsGame
    <3> QED BY <2>2, <3>1 DEF Told, Elems
  <2>3. CASE d # c
    <3>1. pc'[d] = pc[d] /\ playerID' = playerID /\ mainPc' = mainPc
      BY <1>1, <2>1, <2>3 DEF KeepsGame
    <3>2. CASE playerDisconnected' = playerDisconnected
      BY <1>7, <3>1, <3>2 DEF Told
    <3>3. CASE Elems(playerDisconnected) = {}
      BY <1>7, <3>1, <3>3 DEF Told
    <3> QED BY <1>3, <3>2, <3>3
  <2> QED BY <2>2, <2>3
<1>8. ASSUME NEW g \in GLs
      PROVE  BarrierAt(g)'
  <2>1. g # c /\ pc'[g] = pc[g] /\ BarrierAt(g)
    BY <1>1 DEF Pvs, GLs, KeepsGame, BarrierHolds
  <2>2. UNCHANGED <<playerID, playerActions, snap, todo, turnNumber,
                    connectedPlayers, awaited>>
    BY <1>1 DEF KeepsGame
  <2>3. pc[g] \in {"starts", "firstTurn"} \cup RoundPc => snap.taken
    BY DEF ProtoInv, StartsInv, StartsAt, PlayPc, RoundPc
  <2>4. \A d \in Players : Waits(g, d) /\ Told(d) => Told(d)'
    BY <1>7, <2>3 DEF Waits
  <2>5. ASSUME NEW d \in Players, pc[g] \in RoundPc, Seated(g, d)
        PROVE  Seated(g, d)'
    <3>1. Told(d) => Told(d)'
      BY <1>7, <2>3, <2>5
    <3>2. /\ Leaving(d) => Leaving(d)'
          /\ ~Leaving(d)' =>
               /\ newTurn'[d] = newTurn[d] /\ turnBuffer'[d] = turnBuffer[d]
               /\ lastTurn'[d] = lastTurn[d]
               /\ (state'[d] = "THINKING") = (state[d] = "THINKING")
      <4>1. CASE d = c
        BY <1>1, <4>1 DEF Leaving
      <4>2. CASE d # c
        BY <1>1, <1>b, <4>2 DEF KeepsGame, Leaving
      <4> QED BY <4>1, <4>2
    <3> QED BY <1>1, <2>1, <2>2, <2>5, <3>1, <3>2, SameSeat
  <2>6. \A a \in Elems(playerAction') : a \in Elems(playerAction)
    BY <1>1
  <2> QED BY <1>5, <2>1, <2>2, <2>4, <2>5, <2>6, OthersBarrier
<1> QED BY <1>6, <1>8 DEF BarrierHolds

\* The steps of a player or visualization.
LEMMA PvBarrier ==
  ASSUME VarsTypeOK, SessionInv, ProtoInv, BarrierHolds, Fast, NEW c \in Client,
         PvInput(c) \/ PvStep(c)
  PROVE  BarrierHolds'
<1>1. c \in Pvs
  <2>1. PvTerminate(c) \/ pc[c] \in PvPc
    BY DEF PvInput, PvStep, RefuseMessage, ReceiveTurnAck, CopyGLPointer,
       ReceiveGameEnds, KickAfterGameEnds, ReceiveNewTurn, ForwardActions,
       KickLock, KickUnlock, PvPc
  <2> QED BY <2>1 DEF PvTerminate, SessionInv, GameLogicInv
<1>2. CASE PvInput(c)
  BY <1>1, <1>2, PvMovesBarrier DEF PvInput
<1>3. CASE PvStep(c)
  BY <1>1, <1>3, PvMovesBarrier, NewTurnBarrier, ForwardBarrier, KickBarrier
     DEF PvStep
<1> QED BY <1>2, <1>3

\* A step that leaves the game alone.
LEMMA QuietBarrier ==
  ASSUME BarrierHolds,
         UNCHANGED <<pc, state, newTurn, turnBuffer, lastTurn, playerID,
                     playerAction, playerActions, playerDisconnected, snap, todo,
                     turnNumber, connectedPlayers, awaited, timers>>,
         mainPc' = "select" => mainPc = "select"
  PROVE  BarrierHolds'
<1>1. BarrierBase'
  BY DEF BarrierHolds, BarrierBase, Calm, Players, AllPlayers, IsPlayer
<1>2. \A d : Told(d) => Told(d)'
  BY DEF Told
<1>3. ASSUME NEW g \in GLs
      PROVE  BarrierAt(g)'
  <2>1. BarrierAt(g)
    BY DEF BarrierHolds
  <2>2. Calm' = Calm /\ \A d : Leaving(d)' = Leaving(d)
    BY DEF Calm, Leaving
  <2>3. \A d : Seated(g, d) => Seated(g, d)'
    BY <1>2, <2>2, SameSeat
  <2> QED BY <1>2, <2>1, <2>2, <2>3, OthersBarrier
<1> QED BY <1>1, <1>3 DEF BarrierHolds

\* main, the server, the prompt and the signals; there are no timers.
LEMMA MainBarrier ==
  ASSUME VarsTypeOK, BarrierHolds,
         \/ Signal \/ PromptStep \/ MainStep \/ ServerStop \/ PromptStarted
         \/ StartupStep \/ TimerReset \/ UNCHANGED vars
  PROVE  BarrierHolds'
<1>1. ~TimerReset
  <2>1. timers.sent = 0
    BY DEF BarrierHolds, BarrierBase
  <2>2. ~(timers.sent > 0)
    BY <2>1, SMT
  <2> QED BY <2>2 DEF TimerReset
<1>2. /\ UNCHANGED <<pc, state, newTurn, turnBuffer, lastTurn, playerID,
                     playerAction, playerActions, playerDisconnected, snap, todo,
                     turnNumber, connectedPlayers, awaited, timers>>
      /\ mainPc' = "select" => mainPc = "select"
  BY <1>1 DEF Signal, PromptStep, PromptStart, PromptQuit, PromptSetLimit,
     PromptSetTurns, MainStep, MainExit, Cleanup, CleanupPanics, MainSelect,
     ServerStop, PromptStarted, StartupStep, ServerListen, PromptRun
<1> QED BY <1>2, QuietBarrier

-----------------------------------------------------------------------------
(* The goroutine of the game logic.                                        *)

\* What the steps of the game logic keep of the first part.
LEMMA GLBase ==
  ASSUME BarrierBase, UNCHANGED <<playerID, snap, timers>>,
         Players \subseteq Client, ~snap.taken => Calm',
         \A d \in Client : pc[d] = "done" => pc'[d] = "done",
         \A i \in Elems(playerDisconnected') : i \in Elems(playerDisconnected)
  PROVE  BarrierBase'
<1>1. Players' = Players
  BY DEF Players, AllPlayers
<1>2. Elems(playerDisconnected)' = Elems(playerDisconnected')
  BY DEF Elems
<1>3. ASSUME NEW i \in Elems(playerDisconnected'), i # -1
      PROVE  \E d \in Players : playerID[d] = i /\ pc'[d] = "done"
  <2>1. PICK d \in Players : playerID[d] = i /\ pc[d] = "done"
    BY <1>3 DEF BarrierBase
  <2> QED BY <2>1
<1> QED BY <1>1, <1>2, <1>3 DEF BarrierBase

\* Only the game logic in session matters.
LEMMA SessionBarrier ==
  ASSUME VarsTypeOK, SessionInv, NEW g \in GLs, InSession(g),
         \A h \in GLs : h # g => pc'[h] = pc[h],
         BarrierBase', BarrierAt(g)'
  PROVE  BarrierHolds'
<1>1. ASSUME NEW h \in GLs, h # g
      PROVE  BarrierAt(h)'
  BY <1>1, OneGameLogic, BarrierNowherePrime
<1> QED BY <1>1 DEF BarrierHolds

\* Handlers stay within the code of their role.
LEMMA GLPlace ==
  ASSUME ProtoInv, NEW g \in Client, pc[g] \in GlPc
  PROVE  g \in GLs /\ InSession(g)
<1>1. g \in Pvs => pc[g] \notin GlPc
  BY DEF ProtoInv, PhaseOf, Early, AutoPcs, PvPc, GlPc
<1> QED BY <1>1 DEF Pvs, GLs, InSession, GlPc

\* The steps before and after the game.
LEMMA GLOutside ==
  ASSUME VarsTypeOK, SessionInv, ProtoInv, BarrierHolds, NEW g \in Client,
         \/ GLStart(g) \/ GLTerminate(g) \/ GLClose(g) \/ GLEarlyMessage(g)
         \/ GLEarlyKick(g) \/ GLRefuseMessage(g) \/ GLGameFinished(g)
         \/ GLDrain(g) \/ (GLSendDoInit(g) /\ GLLeaves(g))
  PROVE  BarrierHolds'
<1>a. pc \in [Client -> Pc] /\ state \in [Client -> ClientState]
  BY DEF VarsTypeOK, ConnTypeOK
<1>b. Players \subseteq Client
  BY PlayersClients
<1>1. /\ pc'[g] \in {"copy", "earlyKick", "fin", "closing", "done"}
      /\ pc[g] \in GlPc \/ (g \in GLs /\ pc[g] = "fin")
      /\ \A d \in Client : d # g => pc'[d] = pc[d] /\ state'[d] = state[d]
  BY <1>a DEF GLStart, GLTerminate, GLClose, GLEarlyMessage, GLEarlyKick,
     GLRefuseMessage, GLGameFinished, GLDrain, GLSendDoInit, GLLeaves, Goto,
     Kick, GlPc
<1>2. UNCHANGED <<newTurn, playerID, snap, timers, playerActions>>
  BY DEF GLStart, GLTerminate, GLClose, GLEarlyMessage, GLEarlyKick,
     GLRefuseMessage, GLGameFinished, GLDrain, GLSendDoInit
<1>3. /\ UNCHANGED playerDisconnected \/ Elems(playerDisconnected') = {}
      /\ UNCHANGED playerAction \/ playerAction' = <<>>
  <2>1. CASE UNCHANGED <<playerDisconnected, playerAction>>
    BY <2>1
  <2>2. CASE GLDrain(g)
    <3>1. /\ playerAction \in Seq(Action) /\ Len(playerAction) <= 1
          /\ playerDisconnected \in Seq(Int) /\ Len(playerDisconnected) <= 1
      BY DEF VarsTypeOK, ChanTypeOK
    <3>2. playerAction # <<>> => Tail(playerAction) = <<>>
      BY <3>1, ChannelElems
    <3>3. playerDisconnected # <<>> => Elems(Tail(playerDisconnected)) = {}
      BY <3>1, ChannelElems
    <3> QED BY <2>2, <3>2, <3>3 DEF GLDrain
  <2> QED BY <2>1, <2>2
          DEF GLStart, GLTerminate, GLClose, GLEarlyMessage, GLEarlyKick,
              GLRefuseMessage, GLGameFinished, GLSendDoInit
<1>4. g \in GLs /\ InSession(g)
  BY <1>1, GLPlace DEF InSession
<1>5. Calm => Calm'
  BY <1>1, <1>2, <1>3, <1>4 DEF Calm, Pvs, GLs
<1>6. BarrierBase'
  <2>1. pc[g] # "done"
    BY <1>1 DEF GlPc
  <2>2. \A i \in Elems(playerDisconnected') : i \in Elems(playerDisconnected)
    BY <1>3
  <2>3. ~snap.taken => Calm'
    BY <1>5 DEF BarrierHolds, BarrierBase
  <2> QED BY <1>1, <1>2, <1>b, <2>1, <2>2, <2>3, GLBase DEF BarrierHolds
<1>7. BarrierAt(g)'
  BY <1>1, BarrierNowherePrime
<1> QED BY <1>1, <1>4, <1>6, <1>7, SessionBarrier DEF GLs

\* The lists are copied before anyone has an identifier.
LEMMA CopyBarrier ==
  ASSUME VarsTypeOK, SessionInv, ProtoInv, CopiedOnce, BarrierHolds, NEW g \in GLs,
         GLCopyLists(g)
  PROVE  BarrierHolds'
<1>a. pc \in [Client -> Pc] /\ g \in Client
  BY DEF VarsTypeOK, ConnTypeOK, GLs
<1>1. /\ pc[g] = "copy" /\ pc'[g] = "assign"
      /\ \A d \in Client : d # g => pc'[d] = pc[d]
      /\ UNCHANGED <<state, newTurn, playerID, timers, playerActions,
                     playerAction, playerDisconnected>>
  BY <1>a DEF GLCopyLists, Goto
<1>2. ~snap.taken
  BY <1>1 DEF CopiedOnce
<1>3. Calm /\ \A c \in Client : playerID[c] = -1
  BY <1>2 DEF BarrierHolds, BarrierBase
<1>4. Calm' /\ \A c \in Client : playerID'[c] = -1
  BY <1>1, <1>3 DEF Calm
<1>5. ASSUME NEW i \in Elems(playerDisconnected')
      PROVE  i = -1
  BY <1>1, <1>3, PlayersClients DEF BarrierHolds, BarrierBase
<1>6. ASSUME NEW c \in Players'
      PROVE  c \in Client /\ IsPlayer(c)
  <2> DEFINE p == roster["player"]
             s == roster["special player"]
  <2>1. p \in Seq(Client) /\ s \in Seq(Client)
    BY DEF VarsTypeOK, GsTypeOK, AllRole, PvRole
  <2>2. snap'.players = p /\ snap'.specialPlayers = s
    BY DEF GLCopyLists
  <2>3. Players' = Elems(p \o s)
    BY <2>2 DEF Players, AllPlayers, Elems
  <2>4. /\ \A d \in Elems(p) : Role[d] = "player"
        /\ \A d \in Elems(s) : Role[d] = "special player"
    BY DEF SessionInv, RosterInv, AllRole, PvRole
  <2> HIDE DEF p, s
  <2>5. c \in Elems(p) \/ c \in Elems(s)
    BY <2>1, <2>3, ElemsConcat, SMTT(40)
  <2>6. c \in Client
    BY <2>1, <2>5, ElementOfSeq, LenProperties DEF Elems
  <2>7. Role[c] \in {"player", "special player"}
    BY <2>4, <2>5
  <2> QED BY <2>6, <2>7 DEF IsPlayer
<1>7. snap'.taken
  BY DEF GLCopyLists
<1>8. BarrierBase'
  <2>1. timers'.sleeping = 0 /\ timers'.sent = 0
    BY <1>1 DEF BarrierHolds, BarrierBase
  <2> QED BY <1>5, <1>6, <1>7, <2>1 DEF BarrierBase, IsPlayer, Elems
<1>9. BarrierAt(g)'
  BY <1>1, <1>4 DEF BarrierAt, RoundPc
<1>10. InSession(g)
  BY <1>1 DEF InSession
<1> QED BY <1>1, <1>8, <1>9, <1>10, SessionBarrier DEF GLs

\* Each player gets an identifier of its own.
LEMMA AssignBarrier ==
  ASSUME VarsTypeOK, SessionInv, ProtoInv, BarrierHolds, NEW g \in GLs,
         GLAssignIDs(g)
  PROVE  BarrierHolds'
<1>a. /\ pc \in [Client -> Pc] /\ g \in Client
      /\ snap.players \in Seq(Client) /\ snap.specialPlayers \in Seq(Client)
      /\ snap.visus \in Seq(Client)
  BY DEF VarsTypeOK, ConnTypeOK, GlTypeOK, GLs
<1>b. Players \subseteq Client
  BY PlayersClients
<1>1. /\ pc[g] = "assign" /\ pc'[g] = "infos"
      /\ \A d \in Client : d # g => pc'[d] = pc[d]
      /\ UNCHANGED <<state, newTurn, snap, timers, playerActions, playerAction,
                     playerDisconnected>>
  BY <1>a DEF GLAssignIDs, Goto
<1>2. PICK perm \in Perm(Len(snap.players)) :
        playerID' = [c \in Client |-> IF c \in Elems(AllPlayers)
                                      THEN AssignedID(c, perm)
                                      ELSE playerID[c]]
  BY DEF GLAssignIDs
<1>3. \A c \in Players : playerID'[c] = AssignedID(c, perm)
  BY <1>2, <1>b DEF Players
<1>4. snap.taken /\ BarrierAt(g)
  BY <1>1 DEF BarrierHolds, ProtoInv, StartsInv, StartsAt, PlayPc
<1>5. Calm /\ \A c \in Client : playerID[c] = -1
  BY <1>1, <1>4 DEF BarrierAt
<1>6. NoDuplicates(AllPlayers)
  <2>1. NoDuplicates(Recipients)
    BY <1>4 DEF ProtoInv, StartsInv
  <2>2. AllPlayers \in Seq(Client)
    BY <1>a, ConcatProperties DEF AllPlayers
  <2> QED BY <1>a, <2>1, <2>2, PartsDistinct DEF Recipients
<1>7. Players' = Players /\ Len(AllPlayers)' = Len(AllPlayers)
  BY <1>1 DEF Players, AllPlayers
<1>8. Identified'
  <2>1. /\ \A c \in Players : playerID'[c] \in 0 .. Len(AllPlayers) - 1
        /\ \A i \in 0 .. Len(AllPlayers) - 1 :
             \E c \in Players : playerID'[c] = i
        /\ \A c, d \in Players : playerID'[c] = playerID'[d] => c = d
    <3>1. /\ \A c \in Players :
               AssignedID(c, perm) \in 0 .. Len(AllPlayers) - 1
          /\ \A i \in 0 .. Len(AllPlayers) - 1 :
               \E c \in Players : AssignedID(c, perm) = i
          /\ \A c, d \in Players : AssignedID(c, perm) = AssignedID(d, perm)
               => c = d
      BY <1>6, <1>a, AssignedIDs
    <3> QED BY <1>3, <3>1
  <2> QED BY <1>7, <2>1 DEF Identified
<1>9. \A i \in Elems(playerDisconnected') : i = -1
  BY <1>1, <1>5, <1>b DEF BarrierHolds, BarrierBase
<1>10. BarrierBase'
  <2>1. /\ timers'.sleeping = 0 /\ timers'.sent = 0
        /\ \A c \in Players : c \in Client /\ IsPlayer(c)
    BY <1>1, <1>4 DEF BarrierHolds, BarrierBase
  <2> QED BY <1>1, <1>4, <1>7, <1>9, <2>1 DEF BarrierBase, IsPlayer, Elems
<1>11. Calm'
  BY <1>1, <1>5 DEF Calm
<1>12. BarrierAt(g)'
  BY <1>1, <1>8, <1>11 DEF BarrierAt, RoundPc
<1>13. InSession(g)
  BY <1>1 DEF InSession
<1> QED BY <1>1, <1>10, <1>12, <1>13, SessionBarrier DEF GLs

\* The broadcast of GAME_STARTS reaches every player.
LEMMA StartsBarrier ==
  ASSUME VarsTypeOK, SessionInv, ProtoInv, BarrierHolds, NEW g \in GLs,
         \/ GLSendDoInit(g) /\ Goto(g, "initAck")
         \/ GLDoInitAck(g) \/ GLSendGameStarts(g) \/ GLStartsSent(g)
  PROVE  BarrierHolds'
<1>a. /\ pc \in [Client -> Pc] /\ state \in [Client -> ClientState]
      /\ g \in Client /\ todo \in Seq(Client)
  BY DEF VarsTypeOK, ConnTypeOK, GlTypeOK, GLs
<1>b. Players \subseteq Client /\ BarrierAt(g)
  BY PlayersClients DEF BarrierHolds
<1>1. /\ pc[g] \in {"infos", "initAck", "starts"} /\ pc'[g] # "done"
      /\ UNCHANGED <<newTurn, playerID, snap, timers, playerActions,
                     playerAction, playerDisconnected, mainPc>>
  BY <1>a DEF GLSendDoInit, GLDoInitAck, GLSendGameStarts, GLStartsSent,
     ReceiveGameStarts, KickLogged, Goto
<1>2. InSession(g) /\ Calm /\ Identified
  BY <1>1, <1>b DEF InSession, BarrierAt
<1>3. Players' = Players /\ Identified' = Identified
  BY <1>1, SMTT(40) DEF Players, AllPlayers, Identified
<1>4. CASE GLSendGameStarts(g)
  <2>1. PICK h \in Client : h = Head(todo)
    BY <1>4, <1>a, SMTT(40) DEF GLSendGameStarts
  <2>2. /\ pc[g] = "starts" /\ todo # <<>> /\ todo' = Tail(todo)
        /\ ReceiveGameStarts(h)
    BY <1>4, <2>1 DEF GLSendGameStarts
  <2>3. /\ pc[h] = "loop" /\ pc'[h] \in {"copyGL", "kick"}
        /\ state'[h] \in {state[h], "READY"}
        /\ \A d \in Client : d # h => pc'[d] = pc[d] /\ state'[d] = state[d]
    BY <1>a, <2>2 DEF ReceiveGameStarts, KickLogged, Goto
  <2>4. h \in Pvs
    BY <2>3 DEF SessionInv, GameLogicInv, PvPc
  <2>5. NoDuplicates(todo)
    BY <2>2 DEF ProtoInv, StartsInv, StartsAt
  <2>6. Elems(todo)' = Elems(todo) \ {h}
    BY <1>a, <2>1, <2>2, <2>5, TailList DEF Elems
  <2>7. Calm'
    BY <1>1, <1>2, <2>3 DEF Calm, Pvs
  <2>8. pc'[g] = "starts" /\ \A k \in GLs : pc'[k] = pc[k]
    BY <2>2, <2>3, <2>4 DEF Pvs, GLs
  <2>9. ASSUME NEW c \in Players
        PROVE  c \in Elems(todo)' \/ Told(c)'
    <3>1. c \in Elems(todo) \/ Told(c)
      BY <1>b, <2>2 DEF BarrierAt
    <3>2. CASE c = h
      BY <2>3, <3>2 DEF Told
    <3>3. CASE c # h
      BY <1>1, <1>b, <2>3, <2>6, <3>1, <3>3 DEF Told
    <3> QED BY <3>2, <3>3
  <2>10. BarrierAt(g)'
    BY <1>2, <1>3, <2>7, <2>8, <2>9 DEF BarrierAt, RoundPc
  <2>11. BarrierBase'
    <3>1. \A d \in Client : pc[d] = "done" => pc'[d] = "done"
      BY <2>3
    <3> QED BY <1>1, <1>b, <2>7, <3>1, GLBase DEF BarrierHolds
  <2> QED BY <1>2, <2>8, <2>10, <2>11, SessionBarrier
<1>5. CASE ~GLSendGameStarts(g)
  <2>1. /\ \A d \in Client : d # g => pc'[d] = pc[d]
        /\ \A d \in Client : state'[d] = state[d]
        /\ \/ pc'[g] = "initAck"
           \/ pc'[g] = "starts" /\ todo' = Recipients
           \/ pc[g] = "starts" /\ pc'[g] = "firstTurn" /\ todo = <<>>
    <3>1. CASE GLSendDoInit(g) /\ Goto(g, "initAck")
      <4>1. pc'[g] = "initAck"
        BY <1>a, <3>1 DEF Goto
      <4> QED BY <1>a, <3>1, <4>1 DEF GLSendDoInit, GLLeaves, Goto
    <3>2. CASE GLDoInitAck(g) \/ GLStartsSent(g)
      BY <1>a, <3>2 DEF GLDoInitAck, GLStartsSent, Goto
    <3> QED BY <1>5, <3>1, <3>2
  <2>2. Calm'
    BY <1>1, <1>2, <2>1 DEF Calm, Pvs
  <2>3. BarrierBase'
    <3>1. \A d \in Client : pc[d] = "done" => pc'[d] = "done"
      BY <1>1, <2>1
    <3> QED BY <1>1, <1>b, <2>2, <3>1, GLBase DEF BarrierHolds
  <2>4. BarrierAt(g)'
    <3>1. CASE pc'[g] = "initAck"
      BY <1>2, <1>3, <2>2, <3>1 DEF BarrierAt, RoundPc
    <3>2. CASE pc'[g] = "starts" /\ todo' = Recipients
      <4>1. Players \subseteq Elems(todo')
        <5>1. AllPlayers \in Seq(Client) /\ snap.visus \in Seq(Client)
          BY ConcatProperties DEF AllPlayers, VarsTypeOK, GlTypeOK
        <5> QED BY <3>2, <5>1, ElemsConcat, SMTT(40) DEF Players, Recipients
      <4>2. Elems(todo)' = Elems(todo')
        BY DEF Elems
      <4> QED BY <1>2, <1>3, <2>2, <3>2, <4>1, <4>2 DEF BarrierAt, RoundPc
    <3>3. CASE pc[g] = "starts" /\ pc'[g] = "firstTurn" /\ todo = <<>>
      <4>1. Elems(todo) = {}
        BY <3>3, ChannelElems
      <4>2. \A c \in Players : Told(c)
        BY <1>b, <3>3, <4>1 DEF BarrierAt
      <4>3. ASSUME NEW c \in Players
            PROVE  Told(c)'
        <5>1. pc'[c] = "done" => pc[c] = "done"
          BY <1>1, <1>b, <2>1
        <5> QED BY <1>1, <4>2, <5>1 DEF Told
      <4> QED BY <1>2, <1>3, <2>2, <3>3, <4>3 DEF BarrierAt, RoundPc
    <3> QED BY <2>1, <3>1, <3>2, <3>3
  <2> QED BY <1>2, <2>1, <2>3, <2>4, SessionBarrier DEF GLs
<1> QED BY <1>4, <1>5

\* What the steps of the turns leave alone.
LEMMA TurnStep ==
  ASSUME VarsTypeOK, ProtoInv, BarrierHolds, NEW g \in GLs,
         \/ GLFirstDoTurn(g) \/ GLDoTurnAck(g) \/ GLForwardTurn(g)
         \/ GLTurnForwarded(g) \/ GLFastAction(g) \/ GLFastDisconnection(g)
         \/ GLFastDoTurn(g)
  PROVE  /\ g \in Client /\ InSession(g) /\ BarrierAt(g) /\ snap.taken
         /\ Players' = Players /\ Players \subseteq Pvs
         /\ UNCHANGED <<playerID, snap, mainPc, state, turnBuffer, lastTurn>>
         /\ \A d \in Client : d # g => pc'[d] = pc[d]
         /\ \A d \in Players : pc'[d] = pc[d] /\ Leaving(d)' = Leaving(d)
         /\ Identified /\ Identified'
<1>a. pc \in [Client -> Pc] /\ g \in Client
  BY DEF VarsTypeOK, ConnTypeOK, GLs
<1>1. /\ UNCHANGED <<playerID, snap, mainPc, state, turnBuffer, lastTurn>>
      /\ pc[g] \in {"firstTurn", "timers"} \cup RoundPc
      /\ \A d \in Client : d # g => pc'[d] = pc[d]
  BY <1>a DEF GLFirstDoTurn, GLDoTurnAck, GLForwardTurn, GLTurnForwarded,
     GLFastAction, GLFastDisconnection, GLFastDoTurn, Goto, RoundPc
<1>2. InSession(g) /\ BarrierAt(g) /\ snap.taken
  BY <1>1 DEF InSession, RoundPc, BarrierHolds, ProtoInv, StartsInv, StartsAt,
     PlayPc
<1>3. Players \subseteq Pvs
  BY <1>2 DEF BarrierHolds, BarrierBase, Pvs, IsPlayer
<1>4. \A d \in Players : d # g /\ pc'[d] = pc[d]
  BY <1>1, <1>3 DEF Pvs, GLs
<1>5. Identified /\ Players' = Players
  BY <1>1, <1>2 DEF BarrierAt, Players, AllPlayers
<1>6. Identified'
  BY <1>1, <1>5 DEF Identified, AllPlayers
<1> QED BY <1>1, <1>2, <1>3, <1>4, <1>5, <1>6, <1>a DEF Leaving

\* Such a step preserves the first part of the invariant.
LEMMA TurnBase ==
  ASSUME VarsTypeOK, BarrierHolds, NEW g \in Client, InSession(g), snap.taken,
         \A d \in Client : d # g => pc'[d] = pc[d],
         UNCHANGED <<playerID, snap, timers>>,
         \A i \in Elems(playerDisconnected') : i \in Elems(playerDisconnected)
  PROVE  BarrierBase'
<1>1. \A d \in Client : pc[d] = "done" => pc'[d] = "done"
  BY DEF InSession
<1> QED BY <1>1, GLBase, PlayersClients DEF BarrierHolds

\* The first turn: everyone is connected and nobody has anything to do.
LEMMA FirstTurnBarrier ==
  ASSUME VarsTypeOK, SessionInv, ProtoInv, BarrierHolds, Fast,
         NEW g \in GLs, GLFirstDoTurn(g)
  PROVE  BarrierHolds'
<1>a. /\ g \in Client /\ InSession(g) /\ BarrierAt(g) /\ snap.taken
      /\ Players' = Players /\ Players \subseteq Pvs
      /\ UNCHANGED <<playerID, snap, mainPc, state, turnBuffer, lastTurn>>
      /\ \A d \in Client : d # g => pc'[d] = pc[d]
      /\ \A d \in Players : pc'[d] = pc[d] /\ Leaving(d)' = Leaving(d)
      /\ Identified /\ Identified'
  BY TurnStep
<1>1. /\ pc[g] = "firstTurn" /\ pc'[g] = "ack"
      /\ connectedPlayers' = 0 .. Len(AllPlayers) - 1
      /\ UNCHANGED <<newTurn, playerAction, playerDisconnected, playerActions,
                     timers>>
  BY <1>a DEF GLFirstDoTurn, Goto, VarsTypeOK, ConnTypeOK
<1>2. Calm /\ \A c \in Players : Told(c)
  BY <1>1, <1>a DEF BarrierAt
<1>3. ASSUME NEW c \in Players
      PROVE  Seated(g, c)'
  <2>1. Told(c)'
    BY <1>1, <1>2, <1>a DEF Told
  <2>2. playerID'[c] \in connectedPlayers'
    BY <1>1, <1>a DEF Identified
  <2>3. ~Asked(g, c)'
    BY <1>1 DEF Asked
  <2>4. Idle(c)'
    BY <1>1, <1>2, <1>a, ChannelElems, SMTT(40) DEF Idle, Calm, InChannel, Elems
  <2> QED BY <2>1, <2>2, <2>3, <2>4, IdleServed
<1>4. BarrierAt(g)'
  <2>1. \A i \in connectedPlayers' : \E c \in Players : playerID'[c] = i
    BY <1>1, <1>a, SMTT(40) DEF Identified
  <2>2. Elems(playerAction)' = {}
    BY <1>1, <1>2, SMTT(40) DEF Calm, Elems
  <2>3. playerActions' = <<>>
    BY <1>1, <1>2 DEF Calm
  <2> QED BY <1>1, <1>3, <1>a, <2>1, <2>2, <2>3 DEF BarrierAt
<1>5. BarrierBase'
  BY <1>1, <1>a, TurnBase
<1> QED BY <1>4, <1>5, <1>a, SessionBarrier DEF GLs

\* The next turn: the players that are connected have nothing to do yet.
LEMMA TurnAckBarrier ==
  ASSUME VarsTypeOK, SessionInv, ProtoInv, BarrierHolds, NEW g \in GLs,
         GLDoTurnAck(g)
  PROVE  BarrierHolds'
<1>a. /\ g \in Client /\ InSession(g) /\ BarrierAt(g) /\ snap.taken
      /\ Players' = Players /\ Players \subseteq Pvs
      /\ UNCHANGED <<playerID, snap, mainPc, state, turnBuffer, lastTurn>>
      /\ \A d \in Client : d # g => pc'[d] = pc[d]
      /\ \A d \in Players : pc'[d] = pc[d] /\ Leaving(d)' = Leaving(d)
      /\ Identified /\ Identified'
  BY TurnStep
<1>1. /\ pc[g] = "ack" /\ pc'[g] = "turns" /\ todo' = Recipients
      /\ UNCHANGED <<newTurn, playerAction, playerDisconnected, playerActions,
                     connectedPlayers, timers>>
  BY <1>a DEF GLDoTurnAck, Goto, VarsTypeOK, ConnTypeOK, BarrierAt
<1>2. Players \subseteq Elems(todo')
  <2>1. AllPlayers \in Seq(Client) /\ snap.visus \in Seq(Client)
    BY ConcatProperties DEF AllPlayers, VarsTypeOK, GlTypeOK
  <2> QED BY <1>1, <2>1, ElemsConcat, SMTT(40) DEF Players, Recipients
<1>3. ASSUME NEW c \in Players
      PROVE  Seated(g, c)'
  <2>1. Seated(g, c)
    BY <1>1, <1>a DEF BarrierAt, RoundPc
  <2>2. CASE playerID[c] \notin connectedPlayers
    BY <1>1, <1>a, <2>1, <2>2 DEF Seated
  <2>3. CASE playerID[c] \in connectedPlayers
    <3>1. ~Asked(g, c) /\ ~Asked(g, c)'
      BY <1>1, <1>2 DEF Asked, Elems
    <3>2. Idle(c) /\ Told(c)
      BY <2>1, <2>3, <3>1, IdleServed DEF Seated
    <3>3. Idle(c)' /\ Told(c)'
      BY <1>1, <1>a, <3>2 DEF Idle, InChannel, Told
    <3> QED BY <1>1, <1>a, <2>3, <3>1, <3>3, IdleServed
  <2> QED BY <2>2, <2>3
<1>4. BarrierAt(g)'
  <2>1. /\ \A i \in connectedPlayers : \E c \in Players : playerID[c] = i
        /\ \A a \in Elems(playerAction) : \E c \in Players : playerID[c] = a.id
        /\ playerActions = <<>>
    BY <1>1, <1>a DEF BarrierAt, RoundPc
  <2> QED BY <1>1, <1>3, <1>a, <2>1 DEF BarrierAt
<1>5. BarrierBase'
  BY <1>1, <1>a, TurnBase
<1> QED BY <1>4, <1>5, <1>a, SessionBarrier DEF GLs

\* Forwarding a turn: the client it goes to is asked for its action.
LEMMA ForwardTurnBarrier ==
  ASSUME VarsTypeOK, SessionInv, ProtoInv, BarrierHolds, NEW g \in GLs,
         GLForwardTurn(g)
  PROVE  BarrierHolds'
<1>a. /\ g \in Client /\ InSession(g) /\ BarrierAt(g) /\ snap.taken
      /\ Players' = Players /\ Players \subseteq Pvs
      /\ UNCHANGED <<playerID, snap, mainPc, state, turnBuffer, lastTurn>>
      /\ \A d \in Client : d # g => pc'[d] = pc[d]
      /\ \A d \in Players : pc'[d] = pc[d] /\ Leaving(d)' = Leaving(d)
      /\ Identified /\ Identified'
  BY TurnStep
<1>b. todo \in Seq(Client) /\ newTurn \in [Client -> Seq(Int)]
  BY DEF VarsTypeOK, GlTypeOK, PvTypeOK
<1>1. /\ pc[g] = "turns" /\ todo # <<>> /\ todo' = Tail(todo)
      /\ newTurn' = [newTurn EXCEPT ![Head(todo)] = Append(@, turnNumber - 1)]
      /\ UNCHANGED <<pc, playerAction, playerDisconnected, playerActions,
                     connectedPlayers, timers, turnNumber>>
  BY DEF GLForwardTurn
<1>2. /\ Head(todo) \in Elems(todo)
      /\ Elems(todo)' = Elems(todo) \ {Head(todo)}
  <2>1. NoDuplicates(todo)
    BY <1>1 DEF ProtoInv, StartsInv, StartsAt
  <2>2. Elems(todo)' = Elems(todo')
    BY DEF Elems
  <2> QED BY <1>1, <1>b, <2>1, <2>2, TailList
<1>3. ASSUME NEW c \in Players
      PROVE  Seated(g, c)'
  <2>1. Seated(g, c) /\ c \in Client
    BY <1>1, <1>a DEF BarrierAt, RoundPc, Pvs
  <2>2. Told(c)' = Told(c)
    BY <1>1, <1>a DEF Told
  <2>3. CASE playerID[c] \notin connectedPlayers
    BY <1>1, <1>a, <2>1, <2>3 DEF Seated
  <2>4. CASE playerID[c] \in connectedPlayers /\ c # Head(todo)
    <3>1. Asked(g, c)' = Asked(g, c)
      BY <1>1, <1>2, <2>4 DEF Asked
    <3>2. newTurn'[c] = newTurn[c]
      BY <1>1, <1>b, <2>1, <2>4
    <3> QED BY <1>1, <1>a, <2>1, <2>2, <2>4, <3>1, <3>2, SeatKept
  <2>5. CASE playerID[c] \in connectedPlayers /\ c = Head(todo)
    <3>1. ~Asked(g, c) /\ Asked(g, c)'
      BY <1>1, <1>2, <2>5 DEF Asked
    <3>2. Idle(c) /\ Told(c)
      BY <2>1, <2>5, <3>1, IdleServed DEF Seated
    <3>3. ~Leaving(c) => newTurn'[c] = <<turnNumber - 1>>
      <4>1. newTurn'[c] = Append(newTurn[c], turnNumber - 1)
        BY <1>1, <1>b, <2>1, <2>5
      <4>2. Append(<<>>, turnNumber - 1) = <<turnNumber - 1>>
        OBVIOUS
      <4> QED BY <3>2, <4>1, <4>2 DEF Idle
    <3>4. ~InChannel(c)' /\ InChannel(c)' = InChannel(c)
      BY <1>1, <1>a, <3>2 DEF Idle, InChannel
    <3>5. Served(c, turnNumber - 1, Asked(g, c))'
      BY <1>1, <1>a, <3>1, <3>2, <3>3, <3>4 DEF Served, Idle, InChannel
    <3> QED BY <1>1, <1>a, <2>2, <2>5, <3>2, <3>5 DEF Seated
  <2> QED BY <2>3, <2>4, <2>5
<1>4. BarrierAt(g)'
  <2>1. /\ \A i \in connectedPlayers : \E c \in Players : playerID[c] = i
        /\ \A a \in Elems(playerAction) : \E c \in Players : playerID[c] = a.id
        /\ playerActions = <<>>
    BY <1>1, <1>a DEF BarrierAt, RoundPc
  <2> QED BY <1>1, <1>3, <1>a, <2>1 DEF BarrierAt
<1>5. BarrierBase'
  BY <1>1, <1>a, TurnBase
<1> QED BY <1>4, <1>5, <1>a, SessionBarrier DEF GLs

\* The turn is forwarded: everyone connected has been asked, and is awaited.
LEMMA ForwardedBarrier ==
  ASSUME VarsTypeOK, SessionInv, ProtoInv, BarrierHolds, Fast,
         NEW g \in GLs, GLTurnForwarded(g)
  PROVE  BarrierHolds'
<1>a. /\ g \in Client /\ InSession(g) /\ BarrierAt(g) /\ snap.taken
      /\ Players' = Players /\ Players \subseteq Pvs
      /\ UNCHANGED <<playerID, snap, mainPc, state, turnBuffer, lastTurn>>
      /\ \A d \in Client : d # g => pc'[d] = pc[d]
      /\ \A d \in Players : pc'[d] = pc[d] /\ Leaving(d)' = Leaving(d)
      /\ Identified /\ Identified'
  BY TurnStep
<1>1. /\ pc[g] = "turns" /\ todo = <<>> /\ awaited' = connectedPlayers
      /\ pc'[g] = "collect"
      /\ UNCHANGED <<newTurn, playerAction, playerDisconnected, playerActions,
                     connectedPlayers, timers, turnNumber>>
  BY <1>a DEF GLTurnForwarded, Goto, VarsTypeOK, ConnTypeOK
<1>2. /\ \A i \in connectedPlayers : \E c \in Players : playerID[c] = i
      /\ \A a \in Elems(playerAction) : \E c \in Players : playerID[c] = a.id
      /\ playerActions = <<>>
      /\ \A c \in Players : Seated(g, c)
  BY <1>1, <1>a DEF BarrierAt, RoundPc
<1>3. ASSUME NEW c \in Players
      PROVE  Seated(g, c)'
  <2>1. Told(c)' = Told(c)
    BY <1>1, <1>a DEF Told
  <2>2. playerID[c] \in connectedPlayers => Asked(g, c)' = Asked(g, c)
    BY <1>1, <1>a, SMTT(40) DEF Asked, Elems
  <2> QED BY <1>1, <1>2, <1>a, <2>1, <2>2, SeatKept
<1>4. Collected'
  BY <1>1, <1>2, SMTT(40) DEF Collected, OneEach, Elems
<1>5. BarrierAt(g)'
  BY <1>1, <1>2, <1>3, <1>4, <1>a DEF BarrierAt
<1>6. BarrierBase'
  BY <1>1, <1>a, TurnBase
<1> QED BY <1>5, <1>6, <1>a, SessionBarrier DEF GLs

\* The actions are sent: nobody is awaited any more, and nobody is asked.
LEMMA FastDoTurnBarrier ==
  ASSUME VarsTypeOK, SessionInv, ProtoInv, BarrierHolds,
         NEW g \in GLs, GLFastDoTurn(g)
  PROVE  BarrierHolds'
<1>a. /\ g \in Client /\ InSession(g) /\ BarrierAt(g) /\ snap.taken
      /\ Players' = Players /\ Players \subseteq Pvs
      /\ UNCHANGED <<playerID, snap, mainPc, state, turnBuffer, lastTurn>>
      /\ \A d \in Client : d # g => pc'[d] = pc[d]
      /\ \A d \in Players : pc'[d] = pc[d] /\ Leaving(d)' = Leaving(d)
      /\ Identified /\ Identified'
  BY TurnStep
<1>1. /\ pc[g] = "collect" /\ awaited = {} /\ pc'[g] = "ack"
      /\ playerActions' = <<>>
      /\ UNCHANGED <<newTurn, playerAction, playerDisconnected,
                     connectedPlayers, timers, turnNumber, awaited>>
  BY <1>a DEF GLFastDoTurn, Goto, VarsTypeOK, ConnTypeOK
<1>2. /\ \A i \in connectedPlayers : \E c \in Players : playerID[c] = i
      /\ \A a \in Elems(playerAction) : \E c \in Players : playerID[c] = a.id
      /\ \A c \in Players : Seated(g, c)
  BY <1>1, <1>a DEF BarrierAt, RoundPc
<1>3. ASSUME NEW c \in Players
      PROVE  Seated(g, c)'
  <2>1. Told(c)' = Told(c)
    BY <1>1, <1>a DEF Told
  <2>2. Asked(g, c)' = Asked(g, c)
    BY <1>1, <1>a DEF Asked
  <2> QED BY <1>1, <1>2, <1>a, <2>1, <2>2, SeatKept
<1>5. BarrierAt(g)'
  BY <1>1, <1>2, <1>3, <1>a DEF BarrierAt
<1>6. BarrierBase'
  BY <1>1, <1>a, TurnBase
<1> QED BY <1>5, <1>6, <1>a, SessionBarrier DEF GLs

\* An action arrives: its player was awaited, is no more, and is not asked
\* anything; or it has left, and the action is dropped.
LEMMA FastActionBarrier ==
  ASSUME VarsTypeOK, SessionInv, ProtoInv, BarrierHolds,
         NEW g \in GLs, GLFastAction(g)
  PROVE  BarrierHolds'
<1>a. /\ g \in Client /\ InSession(g) /\ BarrierAt(g) /\ snap.taken
      /\ Players' = Players /\ Players \subseteq Pvs
      /\ UNCHANGED <<playerID, snap, mainPc, state, turnBuffer, lastTurn>>
      /\ \A d \in Client : d # g => pc'[d] = pc[d]
      /\ \A d \in Players : pc'[d] = pc[d] /\ Leaving(d)' = Leaving(d)
      /\ Identified /\ Identified'
  BY TurnStep
<1> DEFINE a == Head(playerAction)
<1>1. /\ pc[g] = "collect" /\ playerAction # <<>>
      /\ playerAction' = Tail(playerAction)
      /\ awaited' = awaited \ {a.id}
      /\ playerActions' = IF a.id \in connectedPlayers
                          THEN Append(playerActions, a) ELSE playerActions
      /\ UNCHANGED <<pc, newTurn, playerDisconnected, connectedPlayers, timers,
                     turnNumber, todo>>
  BY DEF GLFastAction
<1>2. /\ a \in Action /\ Elems(playerAction) = {a} /\ playerAction' = <<>>
      /\ Elems(playerAction)' = {} /\ playerActions \in Seq(Action)
  <2>1. playerAction \in Seq(Action) /\ Len(playerAction) <= 1
        /\ playerActions \in Seq(Action)
    BY DEF VarsTypeOK, ChanTypeOK, GlTypeOK
  <2>2. /\ Head(playerAction) \in Action
        /\ Elems(playerAction) = {Head(playerAction)}
        /\ Tail(playerAction) = <<>>
    BY <1>1, <2>1, ChannelElems
  <2>3. Elems(playerAction)' = {}
    BY <1>1, <2>2 DEF Elems
  <2> QED BY <1>1, <2>1, <2>2, <2>3
<1> HIDE DEF a
<1>3. /\ \A i \in connectedPlayers : \E c \in Players : playerID[c] = i
      /\ \A c \in Players : Seated(g, c)
      /\ \E c \in Players : playerID[c] = a.id
      /\ Collected
  BY <1>1, <1>2, <1>a DEF BarrierAt, RoundPc
<1>4. ASSUME a.id \in connectedPlayers
      PROVE  a.id \in awaited /\ a.turn = turnNumber - 1
  <2>1. PICK c \in Players : playerID[c] = a.id
    BY <1>3
  <2>2. Served(c, turnNumber - 1, Asked(g, c))
    BY <1>3, <1>4, <2>1 DEF Seated
  <2>3. Asked(g, c) /\ a.turn = turnNumber - 1
    BY <1>2, <2>1, <2>2 DEF Served
  <2> QED BY <1>1, <2>1, <2>3 DEF Asked
<1>5. ASSUME NEW c \in Players
      PROVE  Seated(g, c)'
  <2>1. Told(c)' = Told(c)
    BY <1>1, <1>a DEF Told
  <2>2. ~InChannel(c)'
    BY <1>2 DEF InChannel
  <2>3. CASE playerID[c] \notin connectedPlayers
    BY <1>1, <1>3, <1>a, <2>3 DEF Seated
  <2>4. CASE playerID[c] \in connectedPlayers /\ playerID[c] = a.id
    <3>1. Told(c) /\ Served(c, turnNumber - 1, Asked(g, c))
      BY <1>3, <2>4 DEF Seated
    <3>2. InChannel(c)
      BY <1>2, <2>4 DEF InChannel
    <3>3. ~Asked(g, c)'
      BY <1>1, <1>a, <2>4 DEF Asked
    <3>4. ~Leaving(c) => newTurn[c] = <<>> /\ state[c] # "THINKING"
      BY <1>2, <2>4, <3>1, <3>2 DEF Served
    <3>5. Idle(c)'
      BY <1>1, <1>a, <2>2, <3>4 DEF Idle
    <3> QED BY <1>1, <1>a, <2>1, <2>4, <3>1, <3>3, <3>5, IdleServed
  <2>5. CASE playerID[c] \in connectedPlayers /\ playerID[c] # a.id
    <3>1. Told(c) /\ Served(c, turnNumber - 1, Asked(g, c))
      BY <1>3, <2>5 DEF Seated
    <3>2. ~InChannel(c)
      BY <1>2, <2>5 DEF InChannel
    <3>3. Asked(g, c)' = Asked(g, c)
      BY <1>1, <1>a, <2>5 DEF Asked
    <3>4. Served(c, turnNumber - 1, Asked(g, c))'
      BY <1>1, <1>2, <1>a, <2>2, <3>1, <3>2, <3>3 DEF Served
    <3> QED BY <1>1, <1>a, <2>1, <2>5, <3>1, <3>4 DEF Seated
  <2> QED BY <2>3, <2>4, <2>5
<1>6. Collected'
  <2>0. Elems(playerActions)' = Elems(playerActions')
    BY DEF Elems
  <2>1. CASE a.id \in connectedPlayers
    <3>1. /\ Elems(playerActions)' = Elems(playerActions) \cup {a}
          /\ OneEach(playerActions)
             /\ (\A b \in Elems(playerActions) : b.id # a.id)
               => OneEach(Append(playerActions, a))
      BY <1>1, <1>2, <2>0, <2>1, AppendedAction
    <3>2. \A b \in Elems(playerActions) : b.id # a.id
      BY <1>3, <1>4, <2>1 DEF Collected
    <3>3. OneEach(playerActions)'
      BY <1>1, <1>3, <2>1, <3>1, <3>2 DEF Collected, OneEach
    <3>4. /\ awaited' \subseteq connectedPlayers'
          /\ connectedPlayers' \ awaited' \subseteq
               {b.id : b \in Elems(playerActions) \cup {a}}
      BY <1>1, <1>3, SMTT(40) DEF Collected
    <3>5. \A b \in Elems(playerActions) \cup {a} :
            b.turn = turnNumber' - 1 /\ b.id \notin awaited'
      BY <1>1, <1>3, <1>4, <2>1 DEF Collected
    <3> QED BY <3>1, <3>3, <3>4, <3>5 DEF Collected
  <2>2. CASE a.id \notin connectedPlayers
    <3>1. awaited' = awaited /\ playerActions' = playerActions
      BY <1>1, <1>3, <2>2 DEF Collected
    <3> QED BY <1>1, <1>3, <3>1 DEF Collected, OneEach
  <2> QED BY <2>1, <2>2
<1>7. BarrierAt(g)'
  BY <1>1, <1>2, <1>3, <1>5, <1>6, <1>a DEF BarrierAt
<1>8. BarrierBase'
  BY <1>1, <1>a, TurnBase
<1> QED BY <1>7, <1>8, <1>a, SessionBarrier DEF GLs

\* A departure arrives: the player has left, and is not awaited any more.
LEMMA DisconnectionBarrier ==
  ASSUME VarsTypeOK, SessionInv, ProtoInv, BarrierHolds,
         NEW g \in GLs, GLFastDisconnection(g)
  PROVE  BarrierHolds'
<1>a. /\ g \in Client /\ InSession(g) /\ BarrierAt(g) /\ snap.taken
      /\ Players' = Players /\ Players \subseteq Pvs
      /\ UNCHANGED <<playerID, snap, mainPc, state, turnBuffer, lastTurn>>
      /\ \A d \in Client : d # g => pc'[d] = pc[d]
      /\ \A d \in Players : pc'[d] = pc[d] /\ Leaving(d)' = Leaving(d)
      /\ Identified /\ Identified'
  BY TurnStep
<1> DEFINE k == Head(playerDisconnected)
<1>1. /\ pc[g] = "collect" /\ playerDisconnected # <<>>
      /\ playerDisconnected' = Tail(playerDisconnected)
      /\ awaited' = awaited \ {k}
      /\ connectedPlayers' = connectedPlayers \ {k}
      /\ UNCHANGED <<pc, newTurn, playerAction, playerActions, timers,
                     turnNumber, todo>>
  BY DEF GLFastDisconnection
<1>2. Elems(playerDisconnected) = {k} /\ Elems(playerDisconnected') = {}
  <2>1. playerDisconnected \in Seq(Int) /\ Len(playerDisconnected) <= 1
    BY DEF VarsTypeOK, ChanTypeOK
  <2>2. Elems(playerDisconnected) = {k} /\ Elems(Tail(playerDisconnected)) = {}
    BY <1>1, <2>1, ChannelElems
  <2>3. playerDisconnected' = Tail(playerDisconnected)
    BY <1>1
  <2> QED BY <2>2, <2>3
<1> HIDE DEF k
<1>3. /\ \A i \in connectedPlayers : \E c \in Players : playerID[c] = i
      /\ \A c \in Players : Seated(g, c)
      /\ \A b \in Elems(playerAction) : \E c \in Players : playerID[c] = b.id
      /\ Collected
  BY <1>1, <1>a DEF BarrierAt, RoundPc
<1>4. \A c \in Players : playerID[c] = k => pc[c] = "done"
  <2>1. \A c \in Players : playerID[c] # -1
    <3>1. \A c \in Players : playerID[c] \in 0 .. Len(AllPlayers) - 1
      BY <1>a DEF Identified
    <3>2. -1 \notin 0 .. Len(AllPlayers) - 1
      BY SMT
    <3> QED BY <3>1, <3>2
  <2>2. k = -1 \/ \E c \in Players : playerID[c] = k /\ pc[c] = "done"
    BY <1>2 DEF BarrierHolds, BarrierBase
  <2> QED BY <1>a, <2>1, <2>2, SMTT(40) DEF Identified
<1>5. ASSUME NEW c \in Players
      PROVE  Seated(g, c)'
  <2>1. CASE playerID[c] = k
    <3>1. Leaving(c)'
      BY <1>4, <1>a, <2>1 DEF Leaving
    <3> QED BY <1>1, <1>a, <2>1, <3>1 DEF Seated
  <2>2. CASE playerID[c] # k
    <3>1. (playerID[c] \in connectedPlayers') = (playerID[c] \in connectedPlayers)
      BY <1>1, <2>2
    <3>2. Asked(g, c)' = Asked(g, c)
      BY <1>1, <1>a, <2>2 DEF Asked
    <3>3. Told(c) => Told(c)'
      BY <1>1, <1>2, <1>a, <2>2 DEF Told
    <3> QED BY <1>1, <1>3, <1>a, <3>1, <3>2, <3>3, SeatKept
  <2> QED BY <2>1, <2>2
<1>6. Collected'
  <2>1. OneEach(playerActions)' = OneEach(playerActions)
        /\ Elems(playerActions)' = Elems(playerActions)
    BY <1>1 DEF OneEach, Elems
  <2> QED BY <1>1, <1>3, <2>1 DEF Collected
<1>7. BarrierAt(g)'
  BY <1>1, <1>3, <1>5, <1>6, <1>a DEF BarrierAt
<1>8. BarrierBase'
  BY <1>1, <1>2, <1>a, TurnBase
<1> QED BY <1>7, <1>8, <1>a, SessionBarrier DEF GLs

\* The steps of a game logic, together.
LEMMA GLBarrier ==
  ASSUME VarsTypeOK, SessionInv, ProtoInv, CopiedOnce, BarrierHolds, Fast,
         NEW g \in Client,
         GLInput(g) \/ GLAnswer(g) \/ GLStep(g) \/ TimerSend(g)
  PROVE  BarrierHolds'
<1>1. ~TimerSend(g)
  <2>1. timers.sleeping = 0
    BY DEF BarrierHolds, BarrierBase
  <2>2. ~(timers.sleeping > 0)
    BY <2>1, SMT
  <2> QED BY <2>2 DEF TimerSend
<1>2. pc[g] \in GlPc => g \in GLs
  BY GLPlace
<1>3. ~GLTimersAction(g) /\ ~GLTimersPanics(g)
  <2>1. pc[g] = "timers" => g \in GLs
    BY <1>2 DEF GlPc, PlayPc
  <2> QED BY <2>1 DEF GLTimersAction, GLTimersPanics, BarrierHolds, BarrierAt
<1>4. ASSUME \/ GLCopyLists(g) \/ GLAssignIDs(g) \/ GLSendDoInit(g)
             \/ GLDoInitAck(g) \/ GLSendGameStarts(g) \/ GLStartsSent(g)
             \/ GLFirstDoTurn(g) \/ GLDoTurnAck(g) \/ GLForwardTurn(g)
             \/ GLTurnForwarded(g) \/ GLFastAction(g)
             \/ GLFastDisconnection(g) \/ GLFastDoTurn(g)
      PROVE  g \in GLs
  BY <1>2, <1>4 DEF GLCopyLists, GLAssignIDs, GLSendDoInit, GLDoInitAck,
     GLSendGameStarts, GLStartsSent, GLFirstDoTurn, GLDoTurnAck, GLForwardTurn,
     GLTurnForwarded, GLFastAction, GLFastDisconnection, GLFastDoTurn, GlPc,
     PlayPc
<1>5. GLSendDoInit(g) => Goto(g, "initAck") \/ GLLeaves(g)
  BY DEF GLSendDoInit
<1>6. ASSUME \/ GLStart(g) \/ GLTerminate(g) \/ GLClose(g)
             \/ GLEarlyMessage(g) \/ GLEarlyKick(g) \/ GLRefuseMessage(g)
             \/ GLGameFinished(g) \/ GLDrain(g)
             \/ (GLSendDoInit(g) /\ GLLeaves(g))
      PROVE  BarrierHolds'
  BY <1>6, GLOutside
<1>7. ASSUME \/ GLSendDoInit(g) /\ Goto(g, "initAck")
             \/ GLDoInitAck(g) \/ GLSendGameStarts(g) \/ GLStartsSent(g)
      PROVE  BarrierHolds'
  BY <1>4, <1>7, StartsBarrier
<1>8. ASSUME GLCopyLists(g) \/ GLAssignIDs(g)
      PROVE  BarrierHolds'
  BY <1>4, <1>8, CopyBarrier, AssignBarrier
<1>9. ASSUME \/ GLFirstDoTurn(g) \/ GLDoTurnAck(g) \/ GLForwardTurn(g)
             \/ GLTurnForwarded(g)
      PROVE  BarrierHolds'
  BY <1>4, <1>9, FirstTurnBarrier, TurnAckBarrier, ForwardTurnBarrier,
     ForwardedBarrier
<1>10. ASSUME GLFastAction(g) \/ GLFastDisconnection(g) \/ GLFastDoTurn(g)
       PROVE  BarrierHolds'
  BY <1>4, <1>10, FastActionBarrier, DisconnectionBarrier, FastDoTurnBarrier
<1> QED BY <1>1, <1>3, <1>5, <1>6, <1>7, <1>8, <1>9, <1>10, ZenonT(40)
        DEF GLInput, GLAnswer, GLStep

-----------------------------------------------------------------------------
(* Together.                                                               *)

\* The invariant holds before anyone connects.
LEMMA InitBarrier == Init => BarrierInv
<1> SUFFICES ASSUME Init
             PROVE  BarrierHolds
  BY DEF BarrierInv
<1>1. BarrierBase
  <2>1. Calm /\ timers.sleeping = 0 /\ timers.sent = 0
    BY DEF Init, Calm, Pvs
  <2>2. ~snap.taken /\ \A c \in Client : playerID[c] = -1
    BY DEF Init, NoSnap
  <2>3. Elems(playerDisconnected) = {}
    BY DEF Init, Elems
  <2> QED BY <2>1, <2>2, <2>3 DEF BarrierBase
<1>2. \A g \in GLs : BarrierAt(g)
  BY BarrierNowhere DEF Init, GLs, Early
<1> QED BY <1>1, <1>2 DEF BarrierHolds

\* Every step preserves it.
LEMMA NextBarrier ==
  VarsTypeOK /\ SessionInv /\ ProtoInv /\ CopiedOnce /\ BarrierInv /\ [Next]_vars
    => BarrierInv'
<1> SUFFICES ASSUME VarsTypeOK, SessionInv, ProtoInv, CopiedOnce, BarrierHolds, Fast,
                    [Next]_vars
             PROVE  BarrierHolds'
  BY DEF BarrierInv
<1>1. ASSUME NEW c \in Client, Connect(c) \/ FirstMessage(c) \/ LoginStep(c)
      PROVE  BarrierHolds'
  BY <1>1, LoginBarrier
<1>2. ASSUME NEW c \in Client, PvInput(c) \/ PvStep(c)
      PROVE  BarrierHolds'
  BY <1>2, PvBarrier
<1>3. ASSUME NEW c \in Client,
             GLInput(c) \/ GLAnswer(c) \/ GLStep(c) \/ TimerSend(c)
      PROVE  BarrierHolds'
  BY <1>3, GLBarrier
<1>4. ASSUME \/ Signal \/ PromptStep \/ MainStep \/ ServerStop \/ PromptStarted
             \/ StartupStep \/ TimerReset \/ UNCHANGED vars
      PROVE  BarrierHolds'
  BY <1>4, MainBarrier
<1> QED BY <1>1, <1>2, <1>3, <1>4 DEF Next, Environment, Handler
=============================================================================
