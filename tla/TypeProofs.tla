----------------------------- MODULE TypeProofs -----------------------------
(***************************************************************************)
(* Every step keeps the types of the state.                                *)
(***************************************************************************)
EXTENDS OperatorProofs

\* Some leaves are large: the provers get more time than by default.
USE ZenonT(20), SMTT(40)
USE DEF gsVars, connVars, pvVars, chanVars, glVars, mainVars, vars

-----------------------------------------------------------------------------
(* One lemma per goroutine.                                                *)

\* The initial values have their types.
LEMMA InitTypeOK == Init => VarsTypeOK
<1> SUFFICES ASSUME Init PROVE VarsTypeOK
  OBVIOUS
<1> USE ConstantsAssumption DEF Init
<1>1. GsTypeOK
  BY SMTT(40) DEF GsTypeOK
<1>2. ConnTypeOK
  BY DEF ConnTypeOK, Pc, ClientState, Message
<1>3. PvTypeOK
  BY SMTT(40) DEF PvTypeOK, NoTurn
<1>4. ChanTypeOK /\ GlTypeOK /\ MainTypeOK
  BY SMTT(40) DEF ChanTypeOK, GlTypeOK, MainTypeOK, NoSnap
<1> QED BY <1>1, <1>2, <1>3, <1>4 DEF VarsTypeOK

\* A group of variables that a step leaves alone keeps its type.
LEMMA TypesUnchanged ==
  ASSUME VarsTypeOK
  PROVE  /\ UNCHANGED gsVars => GsTypeOK'
         /\ UNCHANGED connVars => ConnTypeOK'
         /\ UNCHANGED pvVars => PvTypeOK'
         /\ UNCHANGED chanVars => ChanTypeOK'
         /\ UNCHANGED glVars => GlTypeOK'
         /\ UNCHANGED mainVars => MainTypeOK'
<1>1. UNCHANGED gsVars => GsTypeOK'
  BY DEF VarsTypeOK, GsTypeOK
<1>2. UNCHANGED connVars => ConnTypeOK'
  BY DEF VarsTypeOK, ConnTypeOK
<1>3. UNCHANGED pvVars => PvTypeOK'
  BY DEF VarsTypeOK, PvTypeOK
<1>4. UNCHANGED chanVars => ChanTypeOK'
  BY DEF VarsTypeOK, ChanTypeOK
<1>5. UNCHANGED glVars => GlTypeOK'
  BY DEF VarsTypeOK, GlTypeOK
<1>6. UNCHANGED mainVars => MainTypeOK'
  BY DEF VarsTypeOK, MainTypeOK
<1> QED BY <1>1, <1>2, <1>3, <1>4, <1>5, <1>6

\* The operations of the code on a channel of capacity 1.
LEMMA SendOnEmpty ==
  ASSUME NEW S, NEW a \in S
  PROVE  Append(<<>>, a) \in Seq(S) /\ Len(Append(<<>>, a)) <= 1
BY AppendProperties

\* The other operation takes the only element.
LEMMA ReceiveOne ==
  ASSUME NEW S, NEW q \in Seq(S), Len(q) <= 1, q # <<>>
  PROVE  Head(q) \in S /\ Tail(q) \in Seq(S) /\ Len(Tail(q)) <= 1
BY HeadTailProperties, SMTT(40)

\* Channels keep their capacity when they are used with these operations.
LEMMA ChanTypeStep ==
  ASSUME ChanTypeOK,
         \/ start' = start
         \/ start < 1 /\ start' = start + 1
         \/ start > 0 /\ start' = start - 1,
         \/ playerAction' = playerAction
         \/ playerAction # <<>> /\ playerAction' = Tail(playerAction)
         \/ \E a \in Action : playerAction' = Append(<<>>, a),
         \/ playerDisconnected' = playerDisconnected
         \/ /\ playerDisconnected # <<>>
            /\ playerDisconnected' = Tail(playerDisconnected)
         \/ \E i \in Int : playerDisconnected' = Append(<<>>, i)
  PROVE  ChanTypeOK'
<1>1. start' \in 0 .. 1
  BY SMTT(40) DEF ChanTypeOK
<1>2. playerAction' \in Seq(Action) /\ Len(playerAction') <= 1
  BY SendOnEmpty, ReceiveOne, ZenonT(40) DEF ChanTypeOK
<1>3. playerDisconnected' \in Seq(Int) /\ Len(playerDisconnected') <= 1
  BY SendOnEmpty, ReceiveOne, ZenonT(40) DEF ChanTypeOK
<1> QED BY <1>1, <1>2, <1>3, ZenonT(40) DEF ChanTypeOK

\* The steps of a connection up to the handler of its role.
LEMMA LoginTypeOK ==
  ASSUME VarsTypeOK, NEW c \in Client,
      Connect(c) \/ FirstMessage(c) \/ LoginStep(c)
  PROVE  VarsTypeOK'
<1> USE ConstantsAssumption DEF VarsTypeOK
<1>a. RoleHandler(c) \in Pc /\ \A k \in 1 .. 4 : AutoPc[k] \in Pc
  BY SMTT(40) DEF RoleHandler, AutoPc, Pc, GlPc, PvPc
<1>1. CASE Connect(c)
  <2>1. ConnTypeOK'
    BY <1>1 DEF Connect, ConnTypeOK, Goto, Send, Kick, Pc, ClientState, Message
  <2> QED BY <1>1, <2>1, TypesUnchanged DEF VarsTypeOK, Connect
<1>2. CASE RefuseFirstMessage(c)
  <2>1. ConnTypeOK'
    BY <1>2 DEF RefuseFirstMessage, ConnTypeOK, Goto, Send, Kick, Pc,
        ClientState, Message
  <2> QED BY <1>2, <2>1, TypesUnchanged DEF VarsTypeOK, RefuseFirstMessage
<1>3. CASE ReadLogin(c)
  <2>1. ConnTypeOK'
    BY <1>3
    DEF ReadLogin, ConnTypeOK, Goto, Send, Kick, Pc, ClientState, Message
  <2> QED BY <1>3, <2>1, TypesUnchanged DEF VarsTypeOK, ReadLogin
<1>4. CASE DenyLogin(c)
  <2>1. ConnTypeOK'
    BY <1>4
    DEF DenyLogin, ConnTypeOK, Goto, Send, Kick, Pc, ClientState, Message
  <2> QED BY <1>4, <2>1, TypesUnchanged DEF VarsTypeOK, DenyLogin
<1>5. CASE AcceptLogin(c)
  <2>1. GsTypeOK'
    BY <1>5 DEF AcceptLogin, GsTypeOK
  <2>2. ConnTypeOK'
    BY <1>5 DEF AcceptLogin, ConnTypeOK, Goto, Send, Kick, Pc, ClientState,
        Message
  <2> QED BY <1>5, <2>1, <2>2, TypesUnchanged DEF VarsTypeOK, AcceptLogin
<1>6. CASE JoinList(c)
  <2>1. GsTypeOK'
    BY <1>6, AppendProperties DEF JoinList, GsTypeOK
  <2>2. ConnTypeOK'
    BY <1>6, <1>a, SMTT(40) DEF JoinList, ConnTypeOK, Goto, ClientState
  <2> QED BY <1>6, <2>1, <2>2, TypesUnchanged DEF VarsTypeOK, JoinList
<1>7. ASSUME NEW k \in 1 .. 4, AutostartRead(c, k)
      PROVE  VarsTypeOK'
  <2> DEFINE l == IF Len(roster[AutoRole[k]]) # Limit(AutoRole[k])
                    THEN RoleHandler(c)
                  ELSE IF k < 4 THEN AutoPc[k + 1] ELSE "autoSet"
  <2>a. l \in Pc
    <3>1. k < 4 => k + 1 \in 1 .. 4
      BY SMTT(40)
    <3>2. "autoSet" \in Pc
      BY DEF Pc
    <3> QED BY <1>a, <3>1, <3>2
  <2>b. pc' = [pc EXCEPT ![c] = l]
    BY <1>7 DEF AutostartRead, Goto
  <2> HIDE DEF l
  <2>1. ConnTypeOK'
    BY <1>7, <2>a, <2>b DEF AutostartRead, ConnTypeOK
  <2> QED BY <1>7, <2>1, TypesUnchanged DEF VarsTypeOK, AutostartRead
<1>8. CASE AutostartSet(c)
  <2>1. GsTypeOK'
    BY <1>8 DEF AutostartSet, GsTypeOK
  <2>2. ConnTypeOK'
    BY <1>8 DEF AutostartSet, ConnTypeOK, Goto, Send, Kick, Pc, ClientState,
        Message
  <2> QED BY <1>8, <2>1, <2>2, TypesUnchanged DEF VarsTypeOK, AutostartSet
<1>9. CASE AutostartSend(c)
  <2>1. ConnTypeOK'
    BY <1>9, <1>a DEF AutostartSend, ConnTypeOK, Goto
  <2>2. ChanTypeOK'
    BY <1>9, ChanTypeStep, ZenonT(40) DEF AutostartSend
  <2> QED BY <1>9, <2>1, <2>2, TypesUnchanged DEF VarsTypeOK, AutostartSend
<1> QED BY <1>1, <1>2, <1>3, <1>4, <1>5, <1>6, <1>7, <1>8, <1>9
DEF FirstMessage, LoginStep

\* The steps of a logged player or visualization.
LEMMA PvStepsTypeOK ==
  ASSUME VarsTypeOK, NEW c \in Client, PvInput(c) \/ PvStep(c)
  PROVE  VarsTypeOK'
<1> USE ConstantsAssumption DEF VarsTypeOK, PvPc
<1>1. CASE PvTerminate(c)
  <2>1. ConnTypeOK'
    BY <1>1 DEF PvTerminate, ConnTypeOK, Goto, Send, Kick, Pc, ClientState,
        Message
  <2> QED BY <1>1, <2>1, TypesUnchanged DEF VarsTypeOK, PvTerminate
<1>2. CASE CopyGLPointer(c)
  <2>1. ConnTypeOK'
    BY <1>2 DEF CopyGLPointer, ConnTypeOK, Goto, Send, Kick, Pc, ClientState,
        Message
  <2>2. PvTypeOK'
    BY <1>2 DEF CopyGLPointer, PvTypeOK
  <2> QED BY <1>2, <2>1, <2>2, TypesUnchanged DEF VarsTypeOK, CopyGLPointer
<1>3. CASE ReceiveGameEnds(c)
  <2>1. ConnTypeOK'
    BY <1>3 DEF ReceiveGameEnds, KickLogged, ConnTypeOK, Goto, Send, Kick, Pc,
        ClientState, Message
  <2>2. PvTypeOK'
    BY <1>3 DEF ReceiveGameEnds, PvTypeOK
  <2> QED BY <1>3, <2>1, <2>2, TypesUnchanged DEF VarsTypeOK, ReceiveGameEnds
<1>4. CASE KickAfterGameEnds(c)
  <2>1. ConnTypeOK'
    BY <1>4 DEF KickAfterGameEnds, ConnTypeOK, Goto, Send, Kick, Pc,
        ClientState, Message
  <2> QED BY <1>4, <2>1, TypesUnchanged DEF VarsTypeOK, KickAfterGameEnds
<1>5. CASE ReceiveNewTurn(c)
  <2>1. ConnTypeOK'
    BY <1>5 DEF ReceiveNewTurn, SendTurn, KickLogged, ConnTypeOK, Goto, Send,
        Kick, Pc, ClientState, Message
  <2> DEFINE q == newTurn[c]
  <2>a. q \in Seq(Int) /\ q # <<>> /\ Len(q) <= NewTurnCap
    BY <1>5 DEF ReceiveNewTurn, PvTypeOK
  <2>b. newTurn' = [newTurn EXCEPT ![c] = Tail(q)]
    BY <1>5 DEF ReceiveNewTurn
  <2> HIDE DEF q
  <2>c. /\ Head(q) \in Int /\ Tail(q) \in Seq(Int)
        /\ Len(Tail(q)) <= NewTurnCap
    BY <2>a, HeadTailProperties, LenProperties, SMTT(40)
  <2>d. newTurn' \in [Client -> Seq(Int)]
        /\ \A d \in Client : Len(newTurn'[d]) <= NewTurnCap
    BY <2>b, <2>c DEF PvTypeOK
  <2>e. lastTurn' \in [Client -> Int] /\ turnBuffer' \in [Client -> Int]
    BY <1>5, <2>c, SMTT(40) DEF ReceiveNewTurn, SendTurn, PvTypeOK, q
  <2>2. PvTypeOK'
    BY <1>5, <2>d, <2>e DEF ReceiveNewTurn, PvTypeOK
  <2> QED BY <1>5, <2>1, <2>2, TypesUnchanged DEF VarsTypeOK, ReceiveNewTurn
<1>6. CASE ForwardActions(c)
  <2>1. ConnTypeOK'
    BY <1>6 DEF ForwardActions, AfterTurnAck, SendTurn, KickLogged,
        ConnTypeOK, Goto, Send, Kick, Pc, ClientState, Message
  <2>2. PvTypeOK'
    BY <1>6, SMTT(40) DEF ForwardActions, AfterTurnAck, SendTurn, NoTurn, PvTypeOK
  <2>a. [id |-> playerID[c], turn |-> lastTurn[c]] \in Action
    BY DEF PvTypeOK, Action
  <2>3. ChanTypeOK'
    BY <1>6, <2>a, ChanTypeStep, ZenonT(40) DEF ForwardActions
  <2> QED BY <1>6, <2>1, <2>2, <2>3, TypesUnchanged DEF VarsTypeOK, ForwardActions
<1>7. CASE KickLock(c)
  <2>1. GsTypeOK'
    BY <1>7 DEF KickLock, GsTypeOK
  <2>2. ConnTypeOK'
    BY <1>7
    DEF KickLock, ConnTypeOK, Goto, Send, Kick, Pc, ClientState, Message
  <2>3. PvTypeOK'
    BY <1>7 DEF KickLock, PvTypeOK
  <2> QED BY <1>7, <2>1, <2>2, <2>3, TypesUnchanged DEF VarsTypeOK, KickLock
<1>8. CASE KickUnlock(c)
  <2>1. GsTypeOK'
    BY <1>8, SwapRemoveType DEF KickUnlock, GsTypeOK
  <2>2. ConnTypeOK'
    BY <1>8
    DEF KickUnlock, ConnTypeOK, Goto, Send, Kick, Pc, ClientState, Message
  <2>3. ChanTypeOK'
    <3>1. playerID[c] \in Int
      BY DEF PvTypeOK
    <3> QED BY <1>8, <3>1, ChanTypeStep, ZenonT(40)
            DEF KickUnlock, NotifyDisconnection
  <2> QED BY <1>8, <2>1, <2>2, <2>3, TypesUnchanged DEF VarsTypeOK, KickUnlock
<1>9. ASSUME NEW n \in Incoming(c), RefuseMessage(c, n)
      PROVE  VarsTypeOK'
  <2>1. ConnTypeOK'
    BY <1>9 DEF RefuseMessage, KickLogged, ConnTypeOK, Goto, Send, Kick, Pc,
        ClientState, Message
  <2> QED BY <1>9, <2>1, TypesUnchanged DEF VarsTypeOK, RefuseMessage
<1>10. ASSUME NEW n \in Incoming(c), ReceiveTurnAck(c, n)
       PROVE  VarsTypeOK'
  <2>1. ConnTypeOK'
    BY <1>10 DEF ReceiveTurnAck, AfterTurnAck, SendTurn, KickLogged,
        ConnTypeOK, Goto, Send, Kick, Pc, ClientState, Message
  <2>2. PvTypeOK'
    BY <1>10, SMTT(40) DEF ReceiveTurnAck, AfterTurnAck, SendTurn, NoTurn, PvTypeOK
  <2> QED BY <1>10, <2>1, <2>2, TypesUnchanged DEF VarsTypeOK, ReceiveTurnAck
<1> QED BY <1>1, <1>2, <1>3, <1>4, <1>5, <1>6, <1>7, <1>8, <1>9, <1>10
DEF PvInput, PvStep

\* What the set command accepts is a limit, and a number of turns.
LEMMA SetAcceptsType ==
  ASSUME NEW s \in PromptSets, SetAccepts(s[1], s[2])
  PROVE  s[2] \in Nat /\ (s[1] = "nb-turns-max" => s[2] \in Nat \ {0})
<1>1. s[2] \in Int
  BY ConstantsAssumption
<1> QED BY <1>1 DEF SetAccepts, MinValue

\* The steps of main, of the server and of the prompt.
LEMMA MainStepsTypeOK ==
  ASSUME VarsTypeOK,
         Signal \/ PromptStep \/ MainStep \/ ServerStop \/ PromptStarted
           \/ StartupStep
  PROVE  VarsTypeOK'
<1> USE ConstantsAssumption DEF VarsTypeOK
<1>1. CASE Signal
  <2>1. MainTypeOK'
    BY <1>1 DEF Signal, MainTypeOK
  <2> QED BY <1>1, <2>1, TypesUnchanged DEF VarsTypeOK, Signal
<1>2. CASE PromptStart
  <2>1. GsTypeOK'
    BY <1>2, ZenonT(40) DEF PromptStart, GsTypeOK
  <2>2. MainTypeOK'
    BY <1>2, ZenonT(40) DEF PromptStart, MainTypeOK
  <2> QED BY <1>2, <2>1, <2>2, TypesUnchanged, ZenonT(40) DEF VarsTypeOK, PromptStart
<1>3. CASE PromptQuit
  <2>1. MainTypeOK'
    BY <1>3 DEF PromptQuit, MainTypeOK
  <2> QED BY <1>3, <2>1, TypesUnchanged DEF VarsTypeOK, PromptQuit
<1>4. ASSUME NEW s \in PromptSets, PromptSetLimit(s[1], s[2])
      PROVE  VarsTypeOK'
  <2>1. s[2] \in Nat
    BY <1>4, SetAcceptsType, ZenonT(40) DEF PromptSetLimit
  <2>2. GsTypeOK'
    BY <1>4, <2>1 DEF PromptSetLimit, GsTypeOK
  <2> QED BY <1>4, <2>2, TypesUnchanged DEF VarsTypeOK, PromptSetLimit
<1>5. ASSUME NEW s \in PromptSets, PromptSetTurns(s[1], s[2])
      PROVE  VarsTypeOK'
  <2>1. s[2] \in Nat \ {0}
    BY <1>5, SetAcceptsType, ZenonT(40) DEF PromptSetTurns
  <2>2. GsTypeOK'
    BY <1>5, <2>1 DEF PromptSetTurns, GsTypeOK
  <2> QED BY <1>5, <2>2, TypesUnchanged DEF VarsTypeOK, PromptSetTurns
<1>6. CASE PromptStarted
  <2>1. GsTypeOK'
    BY <1>6 DEF PromptStarted, GsTypeOK
  <2>2. ChanTypeOK'
    BY <1>6, ChanTypeStep, ZenonT(40) DEF PromptStarted
  <2>3. MainTypeOK'
    BY <1>6 DEF PromptStarted, MainTypeOK
  <2> QED BY <1>6, <2>1, <2>2, <2>3, TypesUnchanged DEF VarsTypeOK, PromptStarted
<1>7. CASE MainExit
  <2>1. MainTypeOK'
    BY <1>7 DEF MainExit, MainTypeOK
  <2> QED BY <1>7, <2>1, TypesUnchanged DEF VarsTypeOK, MainExit
<1>8. CASE Cleanup
  <2>1. ConnTypeOK'
    BY <1>8 DEF Cleanup, ConnTypeOK, Goto, Send, Kick, Pc, ClientState, Message
  <2>2. MainTypeOK'
    BY <1>8 DEF Cleanup, MainTypeOK
  <2> QED BY <1>8, <2>1, <2>2, TypesUnchanged DEF VarsTypeOK, Cleanup
<1>9. ASSUME NEW s \in exits, MainSelect(s)
      PROVE  VarsTypeOK'
  <2>1. MainTypeOK'
    BY <1>9 DEF MainSelect, MainTypeOK
  <2> QED BY <1>9, <2>1, TypesUnchanged DEF VarsTypeOK, MainSelect
<1>10. CASE ServerStop
  <2>1. MainTypeOK'
    BY <1>10 DEF ServerStop, MainTypeOK
  <2> QED BY <1>10, <2>1, TypesUnchanged DEF VarsTypeOK, ServerStop
<1>11. CASE CleanupPanics
  <2>1. MainTypeOK'
    BY <1>11 DEF CleanupPanics, MainTypeOK
  <2>2. GsTypeOK'
    BY <1>11 DEF CleanupPanics, GsTypeOK
  <2> QED BY <1>11, <2>1, <2>2, TypesUnchanged DEF VarsTypeOK, CleanupPanics
<1>12. CASE ServerListen
  <2>1. MainTypeOK'
    BY <1>12 DEF ServerListen, MainTypeOK
  <2> QED BY <1>12, <2>1, TypesUnchanged DEF VarsTypeOK, ServerListen
<1>13. CASE PromptRun
  <2>1. MainTypeOK'
    BY <1>13 DEF PromptRun, MainTypeOK
  <2> QED BY <1>13, <2>1, TypesUnchanged DEF VarsTypeOK, PromptRun
<1> QED BY <1>1, <1>2, <1>3, <1>4, <1>5, <1>6, <1>7, <1>8, <1>9, <1>10,
          <1>11, <1>12, <1>13
  DEF PromptStep, MainStep, StartupStep

\* The types of the state of the game logic but its lists, which only the start
\* of a game changes.
LEMMA GlTypeStep ==
  ASSUME GlTypeOK, UNCHANGED snap,
         todo' \in Seq(Client), turnNumber' \in Nat,
         playerActions' \in Seq(Action),
         connectedPlayers' \subseteq Int, awaited' \subseteq Int,
         timers' \in [sleeping : Nat, sent : Nat]
  PROVE  GlTypeOK'
BY DEF GlTypeOK

\* The steps of the game logic and of its timers.
LEMMA GLStepsTypeOK ==
  ASSUME VarsTypeOK, NEW g \in Client,
         GLInput(g) \/ GLAnswer(g) \/ GLStep(g) \/ TimerSend(g)
  PROVE  VarsTypeOK'
<1> USE ConstantsAssumption DEF VarsTypeOK, GlPc
<1>a. Recipients \in Seq(Client) /\ AllPlayers \in Seq(Client)
      /\ Len(AllPlayers) \in Nat
  BY ConcatProperties, LenProperties, ZenonT(40) DEF Recipients, AllPlayers, GlTypeOK
<1>b. /\ todo \in Seq(Client) /\ turnNumber \in Nat
      /\ playerActions \in Seq(Action)
      /\ connectedPlayers \subseteq Int /\ awaited \subseteq Int
      /\ timers \in [sleeping : Nat, sent : Nat]
  BY DEF GlTypeOK
<1>1. CASE GLStart(g)
  <2>1. ConnTypeOK'
    BY <1>1 DEF GLStart, ConnTypeOK, Goto, Send, Kick, Pc, ClientState, Message
  <2>2. ChanTypeOK'
    BY <1>1, ChanTypeStep, ZenonT(40) DEF GLStart
  <2> QED BY <1>1, <2>1, <2>2, TypesUnchanged DEF VarsTypeOK, GLStart
<1>2. CASE GLTerminate(g)
  <2>1. ConnTypeOK'
    BY <1>2 DEF GLTerminate, ConnTypeOK, Goto, Send, Kick, Pc, ClientState,
        Message
  <2> QED BY <1>2, <2>1, TypesUnchanged DEF VarsTypeOK, GLTerminate
<1>3. CASE GLClose(g)
  <2>1. ConnTypeOK'
    BY <1>3 DEF GLClose, ConnTypeOK, Goto, Send, Kick, Pc, ClientState, Message
  <2> QED BY <1>3, <2>1, TypesUnchanged DEF VarsTypeOK, GLClose
<1>4. CASE GLEarlyMessage(g)
  <2>1. ConnTypeOK'
    BY <1>4 DEF GLEarlyMessage, ConnTypeOK, Goto, Send, Kick, Pc, ClientState,
        Message
  <2> QED BY <1>4, <2>1, TypesUnchanged DEF VarsTypeOK, GLEarlyMessage
<1>5. CASE GLEarlyKick(g)
  <2>1. ConnTypeOK'
    BY <1>5 DEF GLEarlyKick, GLLeaves, ConnTypeOK, Goto, Send, Kick, Pc,
        ClientState, Message
  <2>2. MainTypeOK'
    BY <1>5 DEF GLEarlyKick, GLLeaves, MainTypeOK
  <2> QED BY <1>5, <2>1, <2>2, TypesUnchanged DEF VarsTypeOK, GLEarlyKick
<1>6. CASE GLCopyLists(g)
  <2>1. ConnTypeOK'
    BY <1>6, ZenonT(40) DEF GLCopyLists, ConnTypeOK, Goto, Send, Kick, Pc,
        ClientState, Message
  <2>2. GlTypeOK'
    BY <1>6, ZenonT(40) DEF GLCopyLists, GsTypeOK, AllRole, PvRole, GlTypeOK
  <2> QED BY <1>6, <2>1, <2>2, TypesUnchanged, ZenonT(40) DEF VarsTypeOK, GLCopyLists
<1>7. CASE GLAssignIDs(g)
  <2>1. ConnTypeOK'
    BY <1>7 DEF GLAssignIDs, ConnTypeOK, Goto, Send, Kick, Pc, ClientState,
        Message
  <2>2. PvTypeOK'
    BY <1>7, AssignedIDType, SMTT(40) DEF GLAssignIDs, GlTypeOK, PvTypeOK
  <2> QED BY <1>7, <2>1, <2>2, TypesUnchanged DEF VarsTypeOK, GLAssignIDs
<1>8. CASE GLSendDoInit(g)
  <2>1. ConnTypeOK'
    BY <1>8 DEF GLSendDoInit, GLLeaves, ConnTypeOK, Goto, Send, Kick, Pc,
        ClientState, Message
  <2>2. PvTypeOK'
    BY <1>8 DEF GLSendDoInit, PvTypeOK
  <2>3. MainTypeOK'
    BY <1>8, ZenonT(40) DEF GLSendDoInit, GLLeaves, MainTypeOK
  <2> QED BY <1>8, <2>1, <2>2, <2>3, TypesUnchanged DEF VarsTypeOK, GLSendDoInit
<1>9. CASE GLDoInitAck(g)
  <2>1. ConnTypeOK'
    BY <1>9 DEF GLDoInitAck, ConnTypeOK, Goto, Send, Kick, Pc, ClientState,
        Message
  <2>2. GlTypeOK'
    BY <1>9, <1>a, <1>b, GlTypeStep DEF GLDoInitAck
  <2> QED BY <1>9, <2>1, <2>2, TypesUnchanged DEF VarsTypeOK, GLDoInitAck
<1>10. CASE GLRefuseMessage(g)
  <2>1. ConnTypeOK'
    BY <1>10 DEF GLRefuseMessage, GLLeaves, ConnTypeOK, Goto, Send, Kick, Pc,
        ClientState, Message
  <2>2. MainTypeOK'
    BY <1>10 DEF GLRefuseMessage, GLLeaves, MainTypeOK
  <2> QED BY <1>10, <2>1, <2>2, TypesUnchanged DEF VarsTypeOK, GLRefuseMessage
<1>11. CASE GLSendGameStarts(g)
  <2>a. Head(todo) \in Client /\ Tail(todo) \in Seq(Client)
    <3>1. todo \in Seq(Client) /\ todo # <<>>
      BY <1>11, <1>b, Zenon DEF GLSendGameStarts
    <3> QED BY <3>1, HeadTailProperties, Zenon
  <2>1. ConnTypeOK'
    BY <1>11, <2>a, ZenonT(40) DEF GLSendGameStarts, ReceiveGameStarts, KickLogged,
        PvPc, ConnTypeOK, Goto, Send, Pc, ClientState, Message
  <2>2. GlTypeOK'
    BY <1>11, <2>a, <1>b, GlTypeStep DEF GLSendGameStarts
  <2> QED BY <1>11, <2>1, <2>2, TypesUnchanged DEF VarsTypeOK, GLSendGameStarts
<1>12. CASE GLStartsSent(g)
  <2>1. ConnTypeOK'
    BY <1>12 DEF GLStartsSent, ConnTypeOK, Goto, Send, Kick, Pc, ClientState,
        Message
  <2> QED BY <1>12, <2>1, TypesUnchanged DEF VarsTypeOK, GLStartsSent
<1>13. CASE GLFirstDoTurn(g)
  <2>1. ConnTypeOK'
    BY <1>13 DEF GLFirstDoTurn, ConnTypeOK, Goto, Send, Kick, Pc, ClientState,
        Message
  <2>a. connectedPlayers' \subseteq Int
    BY <1>13, <1>a, SMTT(40) DEF GLFirstDoTurn
  <2>2. GlTypeOK'
    BY <1>13, <2>a, <1>b, GlTypeStep DEF GLFirstDoTurn
  <2> QED BY <1>13, <2>1, <2>2, TypesUnchanged DEF VarsTypeOK, GLFirstDoTurn
<1>14. CASE GLGameFinished(g)
  <2>1. ConnTypeOK'
    BY <1>14 DEF GLGameFinished, GLLeaves, ConnTypeOK, Goto, Send, Kick, Pc,
        ClientState, Message
  <2>2. PvTypeOK'
    BY <1>14 DEF GLGameFinished, PvTypeOK
  <2>3. GlTypeOK'
    BY <1>14, <1>b, GlTypeStep, SMTT(40) DEF GLGameFinished
  <2>4. MainTypeOK'
    BY <1>14 DEF GLGameFinished, GLLeaves, MainTypeOK
  <2> QED BY <1>14, <2>1, <2>2, <2>3, <2>4, TypesUnchanged
  DEF VarsTypeOK, GLGameFinished
<1>15. CASE GLDoTurnAck(g)
  <2>1. ConnTypeOK'
    BY <1>15 DEF GLDoTurnAck, ConnTypeOK, Goto, Send, Kick, Pc, ClientState,
        Message
  <2>2. GlTypeOK'
    BY <1>15, <1>a, <1>b, GlTypeStep, SMTT(40) DEF GLDoTurnAck
  <2> QED BY <1>15, <2>1, <2>2, TypesUnchanged DEF VarsTypeOK, GLDoTurnAck
<1>16. CASE GLForwardTurn(g)
  <2> DEFINE h == Head(todo)
  <2>a. h \in Client /\ Tail(todo) \in Seq(Client) /\ turnNumber - 1 \in Int
    <3>1. todo \in Seq(Client) /\ todo # <<>> /\ turnNumber \in Nat
      BY <1>16, <1>b, Zenon DEF GLForwardTurn
    <3>2. turnNumber - 1 \in Int
      BY <3>1, SMT
    <3> QED BY <3>1, <3>2, HeadTailProperties, Zenon
  <2>f. newTurn[h] \in Seq(Int)
    BY <2>a DEF PvTypeOK
  <2>b. /\ Append(newTurn[h], turnNumber - 1) \in Seq(Int)
        /\ Len(Append(newTurn[h], turnNumber - 1)) = Len(newTurn[h]) + 1
        /\ Len(newTurn[h]) \in Nat
    BY <2>a, <2>f, AppendProperties, LenProperties, SMTT(40)
  <2>c. newTurn' = [newTurn EXCEPT ![h] = Append(newTurn[h], turnNumber - 1)]
        /\ Len(newTurn[h]) < NewTurnCap
    BY <1>16 DEF GLForwardTurn
  <2> HIDE DEF h
  <2>d. newTurn' \in [Client -> Seq(Int)]
    BY <2>a, <2>b, <2>c DEF PvTypeOK
  <2>e. \A c \in Client : Len(newTurn'[c]) <= NewTurnCap
    BY <2>a, <2>b, <2>c, SMTT(40) DEF PvTypeOK
  <2>1. PvTypeOK'
    BY <1>16, <2>d, <2>e, ZenonT(40) DEF GLForwardTurn, PvTypeOK
  <2>2. GlTypeOK'
    BY <1>16, <2>a, <1>b, GlTypeStep DEF GLForwardTurn
  <2> QED BY <1>16, <2>1, <2>2, TypesUnchanged DEF VarsTypeOK, GLForwardTurn
<1>17. CASE GLTurnForwarded(g)
  <2>1. ConnTypeOK'
    BY <1>17 DEF GLTurnForwarded, ConnTypeOK, Goto, Send, Kick, Pc,
        ClientState, Message
  <2>a. timers.sleeping + 1 \in Nat
    BY SMTT(40) DEF GlTypeOK
  <2>b. \/ UNCHANGED timers
        \/ timers' = [timers EXCEPT !.sleeping = timers.sleeping + 1]
    BY <1>17 DEF GLTurnForwarded
  <2>c. timers' \in [sleeping : Nat, sent : Nat]
    BY <2>a, <2>b, ZenonT(40) DEF GlTypeOK
  <2>2. GlTypeOK'
    BY <1>17, <2>c, <1>b, GlTypeStep DEF GLTurnForwarded
  <2> QED BY <1>17, <2>1, <2>2, TypesUnchanged DEF VarsTypeOK, GLTurnForwarded
<1>18. CASE GLFastAction(g)
  <2>a. Head(playerAction) \in Action
    BY <1>18, ReceiveOne, ZenonT(40) DEF GLFastAction, ChanTypeOK
  <2>b. playerActions' \in Seq(Action)
    BY <1>18, <2>a, AppendProperties, ZenonT(40) DEF GLFastAction, GlTypeOK
  <2>1. ChanTypeOK'
    BY <1>18, ChanTypeStep, ZenonT(40) DEF GLFastAction
  <2>2. GlTypeOK'
    BY <1>18, <2>b, <1>b, GlTypeStep, ZenonT(40) DEF GLFastAction
  <2> QED BY <1>18, <2>1, <2>2, TypesUnchanged DEF VarsTypeOK, GLFastAction
<1>19. CASE GLFastDisconnection(g)
  <2>1. ChanTypeOK'
    BY <1>19, ChanTypeStep, ZenonT(40) DEF GLFastDisconnection
  <2>2. GlTypeOK'
    BY <1>19, <1>b, GlTypeStep, ZenonT(40) DEF GLFastDisconnection
  <2> QED BY <1>19, <2>1, <2>2, TypesUnchanged DEF VarsTypeOK, GLFastDisconnection
<1>20. CASE GLFastDoTurn(g)
  <2>1. ConnTypeOK'
    BY <1>20 DEF GLFastDoTurn, ConnTypeOK, Goto, Send, Kick, Pc, ClientState,
        Message
  <2>2. GlTypeOK'
    <3>1. /\ playerActions' = <<>>
          /\ UNCHANGED <<snap, todo, turnNumber, connectedPlayers, awaited, timers>>
      BY <1>20, Zenon DEF GLFastDoTurn
    <3>2. playerActions' \in Seq(Action)
      BY <3>1, EmptySeq
    <3> QED BY <1>b, <3>1, <3>2, GlTypeStep, Zenon
  <2> QED BY <1>20, <2>1, <2>2, TypesUnchanged DEF VarsTypeOK, GLFastDoTurn
<1>21. CASE GLTimersAction(g)
  <2>1. ChanTypeOK'
    BY <1>21, ChanTypeStep, ZenonT(40) DEF GLTimersAction
  <2>a. Head(playerAction) \in Action
    BY <1>21, ReceiveOne, ZenonT(40) DEF GLTimersAction, ChanTypeOK
  <2>b. playerActions' \in Seq(Action)
    BY <1>21, <1>b, <2>a, PlaceActionType, ZenonT(40) DEF GLTimersAction
  <2>c. timers.sent > 0 => timers.sent - 1 \in Nat
    BY <1>b, SMTT(40)
  <2>d. timers' \in [sleeping : Nat, sent : Nat]
    BY <1>21, <1>b, <2>c, ZenonT(40) DEF GLTimersAction
  <2>2. GlTypeOK'
    BY <1>21, <1>b, <2>b, <2>d, GlTypeStep, ZenonT(40) DEF GLTimersAction
  <2> QED BY <1>21, <2>1, <2>2, TypesUnchanged DEF VarsTypeOK, GLTimersAction
<1>22. CASE GLDrain(g)
  <2>1. ChanTypeOK'
    BY <1>22, ChanTypeStep, ZenonT(40) DEF GLDrain
  <2> QED BY <1>22, <2>1, TypesUnchanged DEF VarsTypeOK, GLDrain
<1>23. CASE TimerSend(g)
  <2>1. ConnTypeOK'
    BY <1>23, ZenonT(40) DEF TimerSend, ConnTypeOK, Message
  <2>a. timers.sleeping \in Nat /\ timers.sent \in Nat
    BY DEF GlTypeOK
  <2>e. timers.sleeping > 0
    BY <1>23, ZenonT(40) DEF TimerSend
  <2>c. timers.sleeping - 1 \in Nat /\ timers.sent + 1 \in Nat
    BY <2>a, <2>e, SMTT(40)
  <2>d. timers' = [sleeping |-> timers.sleeping - 1, sent |-> timers.sent + 1]
    BY <1>23, ZenonT(40) DEF TimerSend
  <2>b. timers' \in [sleeping : Nat, sent : Nat]
    BY <2>c, <2>d, ZenonT(40)
  <2>2. GlTypeOK'
    BY <1>23, <2>b, <1>b, GlTypeStep, ZenonT(40) DEF TimerSend
  <2> QED BY <1>23, <2>1, <2>2, TypesUnchanged, ZenonT(40) DEF VarsTypeOK, TimerSend
<1>24. CASE GLTimersPanics(g)
  <2>1. MainTypeOK'
    BY <1>24 DEF GLTimersPanics, MainTypeOK
  <2> QED BY <1>24, <2>1, TypesUnchanged DEF VarsTypeOK, GLTimersPanics
<1> QED BY <1>1, <1>2, <1>3, <1>4, <1>5, <1>6, <1>7, <1>8, <1>9, <1>10, <1>11,
           <1>12, <1>13, <1>14, <1>15, <1>16, <1>17, <1>18, <1>19, <1>20,
           <1>21, <1>22, <1>23, <1>24, ZenonT(40)
        DEF GLInput, GLAnswer, GLStep

\* The reset of the actions by a timer goroutine.
LEMMA TimerResetTypeOK ==
  ASSUME VarsTypeOK, TimerReset
  PROVE  VarsTypeOK'
<1>1. timers.sleeping \in Nat /\ timers.sent \in Nat /\ timers.sent > 0
      /\ timers' = [timers EXCEPT !.sent = timers.sent - 1]
  BY DEF VarsTypeOK, GlTypeOK, TimerReset
<1>a. timers.sent - 1 \in Nat
  BY <1>1
<1>2. timers' \in [sleeping : Nat, sent : Nat]
  BY <1>1, <1>a, ZenonT(40) DEF VarsTypeOK, GlTypeOK
<1>3. GlTypeOK'
  BY <1>2, SMTT(40) DEF VarsTypeOK, GlTypeOK, TimerReset
<1> QED BY <1>3, TypesUnchanged DEF VarsTypeOK, TimerReset

\* Every step of every goroutine keeps the types.
LEMMA NextTypeOK == VarsTypeOK /\ [Next]_vars => VarsTypeOK'
<1> SUFFICES ASSUME VarsTypeOK, [Next]_vars PROVE VarsTypeOK'
  OBVIOUS
<1>1. CASE UNCHANGED vars
  BY <1>1, TypesUnchanged DEF VarsTypeOK
<1>2. CASE Next
  BY <1>2, LoginTypeOK, PvStepsTypeOK, GLStepsTypeOK, MainStepsTypeOK,
     TimerResetTypeOK
  DEF Next, Environment, Handler
<1> QED BY <1>1, <1>2
=============================================================================
