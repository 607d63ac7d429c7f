--------------------------- MODULE SessionProofs ----------------------------
(***************************************************************************)
(* Who is in the client lists, who holds the mutex, what the start of the  *)
(* game implies, and that the game logic stays.                            *)
(***************************************************************************)
EXTENDS OperatorProofs

\* Some leaves are large: the provers get more time than by default.
USE ZenonT(20), SMTT(40)
USE DEF gsVars, connVars, pvVars, chanVars, glVars, mainVars, vars

-----------------------------------------------------------------------------
(* Who is listed.                                                          *)

\* A step of one handler that leaves the lists alone: it stays before the
\* insertion, stays in its session, or ends when the program ends.
LEMMA RosterStep ==
  ASSUME RosterInv, NEW c \in Client, UNCHANGED <<roster, mainPc>>,
         \A d \in Client : d # c => pc'[d] = pc[d],
         \A d \in Client : canTerminate'[d] => canTerminate[d],
         \/ pc'[c] = pc[c]
         \/ pc[c] \in Early /\ pc'[c] \in Early \cup {"done"}
         \/ /\ pc[c] \notin Early \cup {"done"}
            /\ pc'[c] \notin Early \cup {"done"}
            /\ pc'[c] = "closing" => Ending
         \/ pc[c] \notin Early /\ pc'[c] = "done" /\ Ending
  PROVE  RosterInv'
BY DEF RosterInv, InSession, Listed, Early, Ending

\* A step that leaves the handlers and the lists alone.
LEMMA RosterQuiet ==
  ASSUME RosterInv, UNCHANGED <<roster, pc>>, Ending => Ending',
         \A d \in Client : canTerminate'[d] => canTerminate[d] \/ Ending'
  PROVE  RosterInv'
BY DEF RosterInv, InSession, Listed, Ending

\* The steps up to the handler of the role.
LEMMA LoginRoster ==
  ASSUME VarsTypeOK, RosterInv, NEW c \in Client,
         Connect(c) \/ FirstMessage(c) \/ LoginStep(c)
  PROVE  RosterInv'
<1> USE DEF VarsTypeOK, ConnTypeOK, Goto, Send, Kick
<1>1. CASE Connect(c)
  BY <1>1, RosterStep DEF Connect, Early
<1>2. CASE RefuseFirstMessage(c)
  BY <1>2, RosterStep DEF RefuseFirstMessage, Early
<1>3. CASE ReadLogin(c)
  BY <1>3, RosterStep DEF ReadLogin, Early
<1>4. CASE DenyLogin(c)
  BY <1>4, RosterStep DEF DenyLogin, Early
<1>5. CASE AcceptLogin(c)
  BY <1>5, RosterStep DEF AcceptLogin, Early
<1>6. CASE JoinList(c)
  <2>1. /\ pc[c] = "accept" /\ ~Listed(c)
        /\ pc'[c] \notin Early \cup {"done", "closing"}
        /\ \A d \in Client : d # c => pc'[d] = pc[d]
        /\ UNCHANGED <<canTerminate, mainPc>>
    BY <1>6 DEF JoinList, RosterInv, RoleHandler, AutoPc, Early
  <2>2. /\ roster'[Role[c]] = Append(roster[Role[c]], c)
        /\ \A r \in AllRole : r # Role[c] => roster'[r] = roster[r]
        /\ roster[Role[c]] \in Seq(Client)
        /\ Role[c] \in AllRole
    BY <1>6, ConstantsAssumption DEF JoinList, GsTypeOK
  <2>3. /\ Elems(roster'[Role[c]]) = Elems(roster[Role[c]]) \cup {c}
        /\ NoDuplicates(roster[Role[c]]) => NoDuplicates(roster'[Role[c]])
    BY <2>1, <2>2, AppendList, SMTT(40) DEF Listed
  <2>4. \A r \in AllRole : /\ NoDuplicates(roster'[r])
                          /\ \A d \in Elems(roster'[r]) : Role[d] = r
    <3>1. ASSUME NEW r \in AllRole
          PROVE  /\ NoDuplicates(roster'[r])
                 /\ \A d \in Elems(roster'[r]) : Role[d] = r
      <4>1. /\ NoDuplicates(roster[r])
            /\ \A d \in Elems(roster[r]) : Role[d] = r
        BY DEF RosterInv
      <4>2. CASE r = Role[c]
        BY <2>3, <4>1, <4>2
      <4>3. CASE r # Role[c]
        BY <2>2, <4>1, <4>3
      <4> QED BY <4>2, <4>3
    <3> QED BY <3>1
  <2>5. /\ Listed(c)'
        /\ \A d \in Client : d # c => (Listed(d)' <=> Listed(d))
    <3>1. ASSUME NEW d \in Client, d # c
          PROVE  Listed(d)' <=> Listed(d)
      <4>1. CASE Role[d] = Role[c]
        BY <2>3, <3>1, <4>1 DEF Listed
      <4>2. CASE Role[d] # Role[c]
        BY <2>2, <3>1, <4>2, ConstantsAssumption DEF Listed
      <4> QED BY <4>1, <4>2
    <3> QED BY <2>3, <3>1 DEF Listed
  <2>6. ASSUME NEW d \in Client
        PROVE  /\ InSession(d)' => Listed(d)'
               /\ Listed(d)' => pc'[d] \notin Early
               /\ Listed(d)' /\ pc'[d] = "done" => Ending'
               /\ canTerminate'[d] \/ pc'[d] = "closing" => Ending'
    <3>1. CASE d = c
      BY <2>1, <2>5, <3>1 DEF RosterInv, InSession, Early, Ending
    <3>2. CASE d # c
      BY <2>1, <2>5, <3>2 DEF RosterInv, InSession, Early, Ending
    <3> QED BY <3>1, <3>2
  <2> QED BY <2>4, <2>6 DEF RosterInv
<1>7. ASSUME NEW k \in 1 .. 4, AutostartRead(c, k)
      PROVE  RosterInv'
  <2>1. /\ pc[c] \notin Early \cup {"done"}
        /\ pc'[c] \notin Early \cup {"done", "closing"}
    <3>1. k < 4 => k + 1 \in 1 .. 4
      OBVIOUS
    <3>2. \A j \in 1 .. 4 : AutoPc[j] \notin Early \cup {"done", "closing"}
      BY DEF AutoPc, Early
    <3>3. RoleHandler(c) \notin Early \cup {"done", "closing"}
      BY DEF RoleHandler, Early
    <3>4. "autoSet" \notin Early \cup {"done", "closing"}
      BY DEF Early
    <3>5. pc'[c] = RoleHandler(c) \/ pc'[c] = "autoSet"
          \/ (k < 4 /\ pc'[c] = AutoPc[k + 1])
      BY <1>7 DEF AutostartRead
    <3>6. pc[c] = AutoPc[k]
      BY <1>7 DEF AutostartRead
    <3> QED BY <3>1, <3>2, <3>3, <3>4, <3>5, <3>6
  <2> QED BY <1>7, <2>1, RosterStep DEF AutostartRead
<1>8. CASE AutostartSet(c)
  BY <1>8, RosterStep DEF AutostartSet, Early
<1>9. CASE AutostartSend(c)
  BY <1>9, RosterStep DEF AutostartSend, RoleHandler, Early
<1> QED BY <1>1, <1>2, <1>3, <1>4, <1>5, <1>6, <1>7, <1>8, <1>9
        DEF FirstMessage, LoginStep

\* The steps of a player or visualization.
LEMMA PvRoster ==
  ASSUME VarsTypeOK, RosterInv, NEW c \in Client,
         PvInput(c) \/ PvStep(c)
  PROVE  RosterInv'
<1> USE DEF VarsTypeOK, ConnTypeOK, Goto, Send, Kick
<1>1. CASE PvTerminate(c)
  BY <1>1, RosterStep DEF PvTerminate, RosterInv, Early
<1>2. CASE CopyGLPointer(c)
  BY <1>2, RosterStep DEF CopyGLPointer, Early
<1>3. CASE ReceiveGameEnds(c)
  BY <1>3, RosterStep DEF ReceiveGameEnds, KickLogged, Early
<1>4. CASE KickAfterGameEnds(c)
  BY <1>4, RosterStep DEF KickAfterGameEnds, Early
<1>5. CASE ReceiveNewTurn(c)
  BY <1>5, RosterStep DEF ReceiveNewTurn, SendTurn, KickLogged, Early
<1>6. CASE ForwardActions(c)
  BY <1>6, RosterStep
  DEF ForwardActions, AfterTurnAck, SendTurn, KickLogged, Early
<1>7. CASE KickLock(c)
  BY <1>7, RosterStep DEF KickLock, Early
<1>8. CASE KickUnlock(c)
  <2> DEFINE s == roster[Role[c]]
  <2>1. /\ pc[c] = "kicking" /\ pc'[c] = "done"
        /\ \A d \in Client : d # c => pc'[d] = pc[d]
        /\ UNCHANGED <<canTerminate, mainPc>>
    BY <1>8 DEF KickUnlock
  <2>2. /\ roster'[Role[c]] = SwapRemove(s, c)
        /\ \A r \in AllRole : r # Role[c] => roster'[r] = roster[r]
        /\ s \in Seq(Client)
        /\ Role[c] \in AllRole
    BY <1>8, ConstantsAssumption DEF KickUnlock, GsTypeOK
  <2>3. /\ Elems(roster'[Role[c]]) = Elems(s) \ {c}
        /\ NoDuplicates(roster'[Role[c]])
    BY <2>2, SwapRemoveList, SMTT(40) DEF RosterInv
  <2>4. \A r \in AllRole : /\ NoDuplicates(roster'[r])
                          /\ \A d \in Elems(roster'[r]) : Role[d] = r
    BY <2>1, <2>2, <2>3 DEF RosterInv, Listed
  <2>5. /\ ~Listed(c)'
        /\ \A d \in Client : d # c => (Listed(d)' <=> Listed(d))
    <3>1. ASSUME NEW d \in Client, d # c
          PROVE  Listed(d)' <=> Listed(d)
      <4>1. CASE Role[d] = Role[c]
        BY <2>3, <3>1, <4>1 DEF Listed
      <4>2. CASE Role[d] # Role[c]
        BY <2>2, <3>1, <4>2, ConstantsAssumption DEF Listed
      <4> QED BY <4>1, <4>2
    <3> QED BY <2>3, <3>1 DEF Listed
  <2>6. ASSUME NEW d \in Client
        PROVE  /\ InSession(d)' => Listed(d)'
               /\ Listed(d)' => pc'[d] \notin Early
               /\ Listed(d)' /\ pc'[d] = "done" => Ending'
               /\ canTerminate'[d] \/ pc'[d] = "closing" => Ending'
    <3>1. CASE d = c
      BY <2>1, <2>5, <3>1 DEF RosterInv, InSession, Early, Ending
    <3>2. CASE d # c
      BY <2>1, <2>5, <3>2 DEF RosterInv, InSession, Early, Ending
    <3> QED BY <3>1, <3>2
  <2> QED BY <2>4, <2>6 DEF RosterInv
<1>9. ASSUME NEW n \in Incoming(c), RefuseMessage(c, n)
      PROVE  RosterInv'
  BY <1>9, RosterStep DEF RefuseMessage, KickLogged, Early
<1>10. ASSUME NEW n \in Incoming(c), ReceiveTurnAck(c, n)
       PROVE  RosterInv'
  BY <1>10, RosterStep
  DEF ReceiveTurnAck, AfterTurnAck, SendTurn, KickLogged, Early
<1> QED BY <1>1, <1>2, <1>3, <1>4, <1>5, <1>6, <1>7, <1>8, <1>9, <1>10
        DEF PvInput, PvStep

\* The steps of the game logic and of its timers.
LEMMA GLRoster ==
  ASSUME VarsTypeOK, RosterInv, NEW g \in Client,
         GLInput(g) \/ GLAnswer(g) \/ GLStep(g) \/ TimerSend(g)
  PROVE  RosterInv'
<1> USE DEF VarsTypeOK, ConnTypeOK, Goto, Send, Kick
<1>1. CASE GLStart(g)
  BY <1>1, RosterStep DEF GLStart, Early
<1>2. CASE GLTerminate(g)
  BY <1>2, RosterStep DEF GLTerminate, RosterInv, Early
<1>3. CASE GLClose(g)
  BY <1>3, RosterStep DEF GLClose, RosterInv, Early
<1>4. CASE GLEarlyMessage(g)
  BY <1>4, RosterStep DEF GLEarlyMessage, Early
<1>5. CASE GLEarlyKick(g)
  BY <1>5, RosterStep DEF GLEarlyKick, GLLeaves, Early
<1>6. CASE GLCopyLists(g)
  BY <1>6, RosterStep DEF GLCopyLists, Early
<1>7. CASE GLAssignIDs(g)
  BY <1>7, RosterStep DEF GLAssignIDs, Early
<1>8. CASE GLSendDoInit(g)
  BY <1>8, RosterStep DEF GLSendDoInit, GLLeaves, Early
<1>9. CASE GLDoInitAck(g)
  BY <1>9, RosterStep DEF GLDoInitAck, Early
<1>10. CASE GLRefuseMessage(g)
  BY <1>10, RosterStep DEF GLRefuseMessage, GLLeaves, Early
<1>11. CASE GLSendGameStarts(g)
  <2>1. Head(todo) \in Client
    BY <1>11, HeadTailProperties DEF GLSendGameStarts, GlTypeOK
  <2> QED BY <1>11, <2>1, RosterStep
          DEF GLSendGameStarts, ReceiveGameStarts, KickLogged, Early
<1>12. CASE GLStartsSent(g)
  BY <1>12, RosterStep DEF GLStartsSent, Early
<1>13. CASE GLFirstDoTurn(g)
  BY <1>13, RosterStep DEF GLFirstDoTurn, Early
<1>14. CASE GLGameFinished(g)
  BY <1>14, RosterStep DEF GLGameFinished, GLLeaves, Early
<1>15. CASE GLDoTurnAck(g)
  BY <1>15, RosterStep DEF GLDoTurnAck, Early
<1>16. CASE GLForwardTurn(g)
  BY <1>16, RosterQuiet DEF GLForwardTurn, Ending
<1>17. CASE GLTurnForwarded(g)
  BY <1>17, RosterStep DEF GLTurnForwarded, Early
<1>18. CASE GLFastAction(g)
  BY <1>18, RosterQuiet DEF GLFastAction, Ending
<1>19. CASE GLFastDisconnection(g)
  BY <1>19, RosterQuiet DEF GLFastDisconnection, Ending
<1>20. CASE GLFastDoTurn(g)
  BY <1>20, RosterStep DEF GLFastDoTurn, Early
<1>21. CASE GLTimersAction(g)
  BY <1>21, RosterQuiet DEF GLTimersAction, Ending
<1>22. CASE GLDrain(g)
  BY <1>22, RosterQuiet DEF GLDrain, Ending
<1>23. CASE TimerSend(g)
  BY <1>23, RosterQuiet DEF TimerSend, Ending
<1>24. CASE GLTimersPanics(g)
  BY <1>24, RosterQuiet DEF GLTimersPanics, Ending
<1> QED BY <1>1, <1>2, <1>3, <1>4, <1>5, <1>6, <1>7, <1>8, <1>9, <1>10, <1>11,
    <1>12, <1>13, <1>14, <1>15, <1>16, <1>17, <1>18, <1>19, <1>20, <1>21,
    <1>22, <1>23, <1>24
        DEF GLInput, GLAnswer, GLStep

\* The steps of main, of the server, of the prompt and of a timer.
LEMMA MainRoster ==
  ASSUME VarsTypeOK, RosterInv, 
         Signal \/ PromptStep \/ MainStep \/ ServerStop \/ PromptStarted
           \/ StartupStep \/ TimerReset
  PROVE  RosterInv'
<1> USE DEF VarsTypeOK, ConnTypeOK, Ending
<1>1. CASE Signal
  BY <1>1, RosterQuiet DEF Signal
<1>2. CASE PromptStart
  BY <1>2, RosterQuiet DEF PromptStart
<1>3. CASE PromptQuit
  BY <1>3, RosterQuiet DEF PromptQuit
<1>4. ASSUME NEW s \in PromptSets, PromptSetLimit(s[1], s[2])
      PROVE  RosterInv'
  BY <1>4, RosterQuiet DEF PromptSetLimit
<1>5. ASSUME NEW s \in PromptSets, PromptSetTurns(s[1], s[2])
      PROVE  RosterInv'
  BY <1>5, RosterQuiet DEF PromptSetTurns
<1>6. CASE PromptStarted
  BY <1>6, RosterQuiet DEF PromptStarted
<1>7. CASE MainExit
  BY <1>7, RosterQuiet DEF MainExit
<1>8. CASE Cleanup
  BY <1>8, RosterQuiet DEF Cleanup
<1>9. ASSUME NEW s \in exits, MainSelect(s)
      PROVE  RosterInv'
  BY <1>9, RosterQuiet DEF MainSelect
<1>10. CASE ServerStop
  BY <1>10, RosterQuiet DEF ServerStop
<1>11. CASE TimerReset
  BY <1>11, RosterQuiet DEF TimerReset
<1>12. CASE CleanupPanics
  BY <1>12, RosterQuiet DEF CleanupPanics
<1>13. CASE ServerListen
  BY <1>13, RosterQuiet DEF ServerListen
<1>14. CASE PromptRun
  BY <1>14, RosterQuiet DEF PromptRun
<1> QED BY <1>1, <1>2, <1>3, <1>4, <1>5, <1>6, <1>7, <1>8, <1>9, <1>10, <1>11,
          <1>12, <1>13, <1>14
        DEF PromptStep, MainStep, StartupStep

-----------------------------------------------------------------------------
(* Who holds the mutex.                                                    *)

\* A step of one handler takes the free mutex, releases the mutex that it
\* holds, or leaves the mutex alone.
LEMMA MutexStep ==
  ASSUME MutexInv, NEW c \in Client, UNCHANGED promptPc,
         \A d \in Client : d # c => pc'[d] = pc[d],
         \/ mutex = "free" /\ mutex' = c
         \/ /\ pc[c] \in {"accept", "kicking"} /\ mutex' = "free"
            /\ pc'[c] \notin {"accept", "kicking"}
         \/ /\ mutex' = mutex
            /\ pc'[c] = pc[c] \/ pc'[c] \notin {"accept", "kicking"}
  PROVE  MutexInv'
BY ConstantsAssumption DEF MutexInv

\* The steps up to the handler of the role.
LEMMA LoginMutex ==
  ASSUME VarsTypeOK, MutexInv, NEW c \in Client,
         Connect(c) \/ FirstMessage(c) \/ LoginStep(c)
  PROVE  MutexInv'
<1> USE DEF VarsTypeOK, ConnTypeOK, Goto, Send, Kick, MutexFree
<1>1. CASE Connect(c)
  BY <1>1, MutexStep DEF Connect
<1>2. CASE RefuseFirstMessage(c)
  BY <1>2, MutexStep DEF RefuseFirstMessage
<1>3. CASE ReadLogin(c)
  BY <1>3, MutexStep DEF ReadLogin
<1>4. CASE DenyLogin(c)
  BY <1>4, MutexStep DEF DenyLogin
<1>5. CASE AcceptLogin(c)
  BY <1>5, MutexStep DEF AcceptLogin
<1>6. CASE JoinList(c)
  BY <1>6, MutexStep DEF JoinList, RoleHandler, AutoPc
<1>7. ASSUME NEW k \in 1 .. 4, AutostartRead(c, k)
      PROVE  MutexInv'
  <2>1. pc'[c] \notin {"accept", "kicking"}
    BY <1>7, AutoReadTarget DEF RoleHandler
  <2> QED BY <1>7, <2>1, MutexStep DEF AutostartRead
<1>8. CASE AutostartSet(c)
  BY <1>8, MutexStep DEF AutostartSet
<1>9. CASE AutostartSend(c)
  BY <1>9, MutexStep DEF AutostartSend, RoleHandler, AutoPc
<1> QED BY <1>1, <1>2, <1>3, <1>4, <1>5, <1>6, <1>7, <1>8, <1>9
        DEF FirstMessage, LoginStep

\* The steps of a player or visualization.
LEMMA PvMutex ==
  ASSUME VarsTypeOK, MutexInv, NEW c \in Client,
         PvInput(c) \/ PvStep(c)
  PROVE  MutexInv'
<1> USE DEF VarsTypeOK, ConnTypeOK, Goto, Send, Kick, MutexFree
<1>1. CASE PvTerminate(c)
  BY <1>1, MutexStep DEF PvTerminate
<1>2. CASE CopyGLPointer(c)
  BY <1>2, MutexStep DEF CopyGLPointer
<1>3. CASE ReceiveGameEnds(c)
  BY <1>3, MutexStep DEF ReceiveGameEnds, KickLogged
<1>4. CASE KickAfterGameEnds(c)
  BY <1>4, MutexStep DEF KickAfterGameEnds
<1>5. CASE ReceiveNewTurn(c)
  BY <1>5, MutexStep DEF ReceiveNewTurn, SendTurn, KickLogged
<1>6. CASE ForwardActions(c)
  BY <1>6, MutexStep DEF ForwardActions, AfterTurnAck, SendTurn, KickLogged
<1>7. CASE KickLock(c)
  BY <1>7, MutexStep DEF KickLock
<1>8. CASE KickUnlock(c)
  BY <1>8, MutexStep DEF KickUnlock
<1>9. ASSUME NEW n \in Incoming(c), RefuseMessage(c, n)
      PROVE  MutexInv'
  BY <1>9, MutexStep DEF RefuseMessage, KickLogged, AcceptsTurnAck
<1>10. ASSUME NEW n \in Incoming(c), ReceiveTurnAck(c, n)
       PROVE  MutexInv'
  BY <1>10, MutexStep
  DEF ReceiveTurnAck, AfterTurnAck, SendTurn, KickLogged, AcceptsTurnAck
<1> QED BY <1>1, <1>2, <1>3, <1>4, <1>5, <1>6, <1>7, <1>8, <1>9, <1>10
        DEF PvInput, PvStep

\* The steps of the game logic and of its timers.
LEMMA GLMutex ==
  ASSUME VarsTypeOK, MutexInv, NEW g \in Client,
         GLInput(g) \/ GLAnswer(g) \/ GLStep(g) \/ TimerSend(g)
  PROVE  MutexInv'
<1> USE DEF VarsTypeOK, ConnTypeOK, Goto, Send, Kick, MutexFree
<1>1. CASE GLStart(g)
  BY <1>1, MutexStep DEF GLStart
<1>2. CASE GLTerminate(g)
  BY <1>2, MutexStep DEF GLTerminate
<1>3. CASE GLClose(g)
  BY <1>3, MutexStep DEF GLClose
<1>4. CASE GLEarlyMessage(g)
  BY <1>4, MutexStep DEF GLEarlyMessage
<1>5. CASE GLEarlyKick(g)
  BY <1>5, MutexStep DEF GLEarlyKick, GLLeaves
<1>6. CASE GLCopyLists(g)
  BY <1>6, MutexStep DEF GLCopyLists
<1>7. CASE GLAssignIDs(g)
  BY <1>7, MutexStep DEF GLAssignIDs
<1>8. CASE GLSendDoInit(g)
  BY <1>8, MutexStep DEF GLSendDoInit, GLLeaves
<1>9. CASE GLDoInitAck(g)
  BY <1>9, MutexStep DEF GLDoInitAck
<1>10. CASE GLRefuseMessage(g)
  BY <1>10, MutexStep DEF GLRefuseMessage, GLLeaves
<1>11. CASE GLSendGameStarts(g)
  <2>1. Head(todo) \in Client
    BY <1>11, HeadTailProperties DEF GLSendGameStarts, GlTypeOK
  <2> QED BY <1>11, <2>1, MutexStep
          DEF GLSendGameStarts, ReceiveGameStarts, KickLogged
<1>12. CASE GLStartsSent(g)
  BY <1>12, MutexStep DEF GLStartsSent
<1>13. CASE GLFirstDoTurn(g)
  BY <1>13, MutexStep DEF GLFirstDoTurn
<1>14. CASE GLGameFinished(g)
  BY <1>14, MutexStep DEF GLGameFinished, GLLeaves
<1>15. CASE GLDoTurnAck(g)
  BY <1>15, MutexStep DEF GLDoTurnAck
<1>16. CASE GLForwardTurn(g)
  BY <1>16, MutexStep DEF GLForwardTurn
<1>17. CASE GLTurnForwarded(g)
  BY <1>17, MutexStep DEF GLTurnForwarded
<1>18. CASE GLFastAction(g)
  BY <1>18, MutexStep DEF GLFastAction
<1>19. CASE GLFastDisconnection(g)
  BY <1>19, MutexStep DEF GLFastDisconnection
<1>20. CASE GLFastDoTurn(g)
  BY <1>20, MutexStep DEF GLFastDoTurn
<1>21. CASE GLTimersAction(g)
  BY <1>21, MutexStep DEF GLTimersAction
<1>22. CASE GLDrain(g)
  BY <1>22, MutexStep DEF GLDrain
<1>23. CASE TimerSend(g)
  BY <1>23, MutexStep DEF TimerSend
<1>24. CASE GLTimersPanics(g)
  BY <1>24, MutexStep DEF GLTimersPanics
<1> QED BY <1>1, <1>2, <1>3, <1>4, <1>5, <1>6, <1>7, <1>8, <1>9, <1>10, <1>11,
    <1>12, <1>13, <1>14, <1>15, <1>16, <1>17, <1>18, <1>19, <1>20, <1>21,
    <1>22, <1>23, <1>24
        DEF GLInput, GLAnswer, GLStep

\* The steps of main, of the server, of the prompt and of a timer.
LEMMA MainMutex ==
  ASSUME VarsTypeOK, MutexInv, 
         Signal \/ PromptStep \/ MainStep \/ ServerStop \/ PromptStarted
           \/ StartupStep \/ TimerReset
  PROVE  MutexInv'
<1> USE DEF VarsTypeOK, ConnTypeOK, Goto, Send, Kick, MutexFree
<1>1. CASE Signal
  BY <1>1, ConstantsAssumption DEF Signal, MutexInv
<1>2. CASE PromptStart
  BY <1>2, ConstantsAssumption DEF PromptStart, MutexInv
<1>3. CASE PromptQuit
  BY <1>3, ConstantsAssumption DEF PromptQuit, MutexInv
<1>4. ASSUME NEW s \in PromptSets, PromptSetLimit(s[1], s[2])
      PROVE  MutexInv'
  BY <1>4, ConstantsAssumption DEF PromptSetLimit, MutexInv
<1>5. ASSUME NEW s \in PromptSets, PromptSetTurns(s[1], s[2])
      PROVE  MutexInv'
  BY <1>5, ConstantsAssumption DEF PromptSetTurns, MutexInv
<1>6. CASE PromptStarted
  BY <1>6, ConstantsAssumption DEF PromptStarted, MutexInv
<1>7. CASE MainExit
  BY <1>7, ConstantsAssumption DEF MainExit, MutexInv
<1>8. CASE Cleanup
  BY <1>8, ConstantsAssumption DEF Cleanup, MutexInv
<1>9. ASSUME NEW s \in exits, MainSelect(s)
      PROVE  MutexInv'
  BY <1>9, ConstantsAssumption DEF MainSelect, MutexInv
<1>10. CASE ServerStop
  BY <1>10, ConstantsAssumption DEF ServerStop, MutexInv
<1>11. CASE TimerReset
  BY <1>11, ConstantsAssumption DEF TimerReset, MutexInv
<1>12. CASE CleanupPanics
  BY <1>12, ConstantsAssumption DEF CleanupPanics, MutexInv
<1>13. CASE ServerListen
  BY <1>13, ConstantsAssumption DEF ServerListen, MutexInv
<1>14. CASE PromptRun
  BY <1>14, ConstantsAssumption DEF PromptRun, MutexInv
<1> QED BY <1>1, <1>2, <1>3, <1>4, <1>5, <1>6, <1>7, <1>8, <1>9, <1>10, <1>11,
          <1>12, <1>13, <1>14
        DEF PromptStep, MainStep, StartupStep

-----------------------------------------------------------------------------
(* What the start of the game implies.                                     *)

GamePc == PlayPc \cup {"autoSend", "copyGL"}

\* A step of one handler that leaves the copy of the lists alone: whatever
\* needs a running game had it before or finds it after the step, and no
\* player logs in once the lists are copied.
LEMMA StartStep ==
  ASSUME StartInv, NEW c \in Client, UNCHANGED snap,
         gameState' # gameState => gameState' = "GAME_RUNNING",
         start' > 0 => start > 0 \/ gameState' = "GAME_RUNNING",
         promptPc' = "starting" =>
           promptPc = "starting" \/ gameState' = "GAME_RUNNING",
         \A d \in Client : d # c => pc'[d] = pc[d],
         pc'[c] \in GamePc => pc[c] \in GamePc \/ gameState' = "GAME_RUNNING",
         snap.taken /\ IsPlayer(c) =>
           /\ pc'[c] = "accept" => pc[c] = "accept"
           /\ InSession(c)' => InSession(c)
  PROVE  StartInv'
<1>1. AllPlayers' = AllPlayers
  BY DEF AllPlayers
<1>2. \/ start' > 0
      \/ promptPc' = "starting"
      \/ snap.taken
      \/ \E d \in Client : pc'[d] \in GamePc
      => gameState' = "GAME_RUNNING"
  BY DEF StartInv, GamePc
<1>3. ASSUME snap.taken, NEW d \in Client, IsPlayer(d)
      PROVE  /\ pc'[d] # "accept"
             /\ InSession(d)' => d \in Elems(AllPlayers)
  BY <1>3 DEF StartInv, InSession
<1> QED BY <1>1, <1>2, <1>3 DEF StartInv, GamePc, IsPlayer

\* The steps up to the handler of the role.
LEMMA LoginStart ==
  ASSUME VarsTypeOK, StartInv, NEW c \in Client,
         Connect(c) \/ FirstMessage(c) \/ LoginStep(c)
  PROVE  StartInv'
<1> USE DEF VarsTypeOK, ConnTypeOK, Goto, Send, Kick, MutexFree
<1>a. /\ \/ start > 0 \/ promptPc = "starting" \/ snap.taken
         \/ pc[c] \in GamePc
         => gameState = "GAME_RUNNING"
      /\ snap.taken /\ IsPlayer(c) => pc[c] # "accept"
  BY DEF StartInv, GamePc
<1>1. CASE Connect(c)
  BY <1>1, <1>a, StartStep DEF Connect, GamePc, PlayPc, InSession
<1>2. CASE RefuseFirstMessage(c)
  BY <1>2, <1>a, StartStep DEF RefuseFirstMessage, GamePc, PlayPc, InSession
<1>3. CASE ReadLogin(c)
  BY <1>3, <1>a, StartStep DEF ReadLogin, GamePc, PlayPc, InSession
<1>4. CASE DenyLogin(c)
  BY <1>4, <1>a, StartStep DEF DenyLogin, GamePc, PlayPc, InSession
<1>5. CASE AcceptLogin(c)
  BY <1>5, <1>a, StartStep
  DEF AcceptLogin, GamePc, PlayPc, InSession, LoginDenied, IsPlayer
<1>6. CASE JoinList(c)
  BY <1>6, <1>a, StartStep
  DEF JoinList, GamePc, PlayPc, InSession, RoleHandler, AutoPc
<1>7. ASSUME NEW k \in 1 .. 4, AutostartRead(c, k)
      PROVE  StartInv'
  <2>1. /\ pc'[c] \notin GamePc \cup {"accept"} /\ InSession(c)
    BY <1>7, AutoReadTarget DEF RoleHandler, GamePc, PlayPc, InSession
  <2> QED BY <1>7, <2>1, StartStep DEF AutostartRead
<1>8. CASE AutostartSet(c)
  BY <1>8, <1>a, StartStep DEF AutostartSet, GamePc, PlayPc, InSession
<1>9. CASE AutostartSend(c)
  BY <1>9, <1>a, StartStep
  DEF AutostartSend, GamePc, PlayPc, InSession, RoleHandler
<1> QED BY <1>1, <1>2, <1>3, <1>4, <1>5, <1>6, <1>7, <1>8, <1>9
        DEF FirstMessage, LoginStep

\* The steps of a player or visualization.
LEMMA PvStart ==
  ASSUME VarsTypeOK, StartInv, NEW c \in Client,
         PvInput(c) \/ PvStep(c)
  PROVE  StartInv'
<1> USE DEF VarsTypeOK, ConnTypeOK, Goto, Send, Kick, MutexFree
<1>a. /\ \/ start > 0 \/ promptPc = "starting" \/ snap.taken
         \/ pc[c] \in GamePc
         => gameState = "GAME_RUNNING"
      /\ snap.taken /\ IsPlayer(c) => pc[c] # "accept"
  BY DEF StartInv, GamePc
<1>1. CASE PvTerminate(c)
  BY <1>1, <1>a, StartStep DEF PvTerminate, GamePc, PlayPc, InSession
<1>2. CASE CopyGLPointer(c)
  BY <1>2, <1>a, StartStep DEF CopyGLPointer, GamePc, PlayPc, InSession
<1>3. CASE ReceiveGameEnds(c)
  BY <1>3, <1>a, StartStep
  DEF ReceiveGameEnds, KickLogged, GamePc, PlayPc, InSession
<1>4. CASE KickAfterGameEnds(c)
  BY <1>4, <1>a, StartStep DEF KickAfterGameEnds, GamePc, PlayPc, InSession
<1>5. CASE ReceiveNewTurn(c)
  BY <1>5, <1>a, StartStep
  DEF ReceiveNewTurn, SendTurn, KickLogged, GamePc, PlayPc, InSession
<1>6. CASE ForwardActions(c)
  BY <1>6, <1>a, StartStep DEF ForwardActions, AfterTurnAck, SendTurn,
      KickLogged, GamePc, PlayPc, InSession
<1>7. CASE KickLock(c)
  BY <1>7, <1>a, StartStep DEF KickLock, GamePc, PlayPc, InSession
<1>8. CASE KickUnlock(c)
  BY <1>8, <1>a, StartStep DEF KickUnlock, GamePc, PlayPc, InSession
<1>9. ASSUME NEW n \in Incoming(c), RefuseMessage(c, n)
      PROVE  StartInv'
  BY <1>9, <1>a, StartStep
  DEF RefuseMessage, KickLogged, AcceptsTurnAck, GamePc, PlayPc, InSession
<1>10. ASSUME NEW n \in Incoming(c), ReceiveTurnAck(c, n)
       PROVE  StartInv'
  BY <1>10, <1>a, StartStep DEF ReceiveTurnAck, AfterTurnAck, SendTurn,
      KickLogged, AcceptsTurnAck, GamePc, PlayPc, InSession
<1> QED BY <1>1, <1>2, <1>3, <1>4, <1>5, <1>6, <1>7, <1>8, <1>9, <1>10
        DEF PvInput, PvStep

\* The steps of the game logic and of its timers.
LEMMA GLStarts ==
  ASSUME VarsTypeOK, RosterInv, MutexInv, StartInv, NEW g \in Client,
         GLInput(g) \/ GLAnswer(g) \/ GLStep(g) \/ TimerSend(g)
  PROVE  StartInv'
<1> USE DEF VarsTypeOK, ConnTypeOK, Goto, Send, Kick, MutexFree
<1>a. /\ \/ start > 0 \/ promptPc = "starting" \/ snap.taken
         \/ pc[g] \in GamePc
         => gameState = "GAME_RUNNING"
      /\ snap.taken /\ IsPlayer(g) => pc[g] # "accept"
  BY DEF StartInv, GamePc
<1>1. CASE GLStart(g)
  BY <1>1, <1>a, StartStep DEF GLStart, GamePc, PlayPc, InSession
<1>2. CASE GLTerminate(g)
  BY <1>2, <1>a, StartStep DEF GLTerminate, GamePc, PlayPc, InSession
<1>3. CASE GLClose(g)
  BY <1>3, <1>a, StartStep DEF GLClose, GamePc, PlayPc, InSession
<1>4. CASE GLEarlyMessage(g)
  BY <1>4, <1>a, StartStep DEF GLEarlyMessage, GamePc, PlayPc, InSession
<1>5. CASE GLEarlyKick(g)
  BY <1>5, <1>a, StartStep DEF GLEarlyKick, GLLeaves, GamePc, PlayPc, InSession
<1>6. CASE GLCopyLists(g)
  <2>1. /\ gameState' = "GAME_RUNNING" /\ snap'.taken /\ pc[g] = "copy"
        /\ \A d \in Client : d # g => pc'[d] = pc[d]
        /\ pc'[g] = "assign" /\ mutex = "free"
    BY <1>6, <1>a DEF GLCopyLists, GamePc, PlayPc
  <2>2. \A d \in Client : pc'[d] # "accept" /\ (InSession(d)' => InSession(d))
    BY <2>1, ConstantsAssumption DEF MutexInv, InSession
  <2>3. Elems(AllPlayers')
          = Elems(roster["player"]) \cup Elems(roster["special player"])
    <3>1. /\ AllPlayers' = roster["player"] \o roster["special player"]
          /\ roster["player"] \in Seq(Client)
          /\ roster["special player"] \in Seq(Client)
      BY <1>6 DEF GLCopyLists, AllPlayers, GsTypeOK, AllRole, PvRole
    <3> DEFINE ps == roster["player"]
               sps == roster["special player"]
    <3>2. Elems(ps \o sps) = Elems(ps) \cup Elems(sps)
      <4>1. ps \in Seq(Client) /\ sps \in Seq(Client)
        BY <3>1
      <4> HIDE DEF ps, sps
      <4> QED BY <4>1, ElemsConcat, SMTT(40)
    <3>3. Elems(AllPlayers') = Elems(ps \o sps)
      BY <3>1
    <3> QED BY <3>2, <3>3
  <2>4. ASSUME NEW d \in Client, IsPlayer(d), InSession(d)
        PROVE  d \in Elems(AllPlayers')
    <3>1. d \in Elems(roster[Role[d]])
      BY <2>4 DEF RosterInv, Listed
    <3> QED BY <2>3, <2>4, <3>1 DEF IsPlayer
  <2> QED BY <2>1, <2>2, <2>4 DEF StartInv, IsPlayer
<1>7. CASE GLAssignIDs(g)
  BY <1>7, <1>a, StartStep DEF GLAssignIDs, GamePc, PlayPc, InSession
<1>8. CASE GLSendDoInit(g)
  BY <1>8, <1>a, StartStep
  DEF GLSendDoInit, GLLeaves, GamePc, PlayPc, InSession
<1>9. CASE GLDoInitAck(g)
  BY <1>9, <1>a, StartStep DEF GLDoInitAck, GamePc, PlayPc, InSession
<1>10. CASE GLRefuseMessage(g)
  BY <1>10, <1>a, StartStep
  DEF GLRefuseMessage, GLLeaves, GamePc, PlayPc, InSession
<1>11. CASE GLSendGameStarts(g)
  <2>1. Head(todo) \in Client
    BY <1>11, HeadTailProperties DEF GLSendGameStarts, GlTypeOK
  <2>2. gameState = "GAME_RUNNING" /\ pc[Head(todo)] = "loop"
    BY <1>11, <1>a DEF GLSendGameStarts, ReceiveGameStarts, GamePc, PlayPc
  <2> QED BY <1>11, <2>1, <2>2, StartStep
          DEF GLSendGameStarts, ReceiveGameStarts, KickLogged, InSession
<1>12. CASE GLStartsSent(g)
  BY <1>12, <1>a, StartStep DEF GLStartsSent, GamePc, PlayPc, InSession
<1>13. CASE GLFirstDoTurn(g)
  BY <1>13, <1>a, StartStep DEF GLFirstDoTurn, GamePc, PlayPc, InSession
<1>14. CASE GLGameFinished(g)
  BY <1>14, <1>a, StartStep
  DEF GLGameFinished, GLLeaves, GamePc, PlayPc, InSession
<1>15. CASE GLDoTurnAck(g)
  BY <1>15, <1>a, StartStep DEF GLDoTurnAck, GamePc, PlayPc, InSession
<1>16. CASE GLForwardTurn(g)
  BY <1>16, <1>a, StartStep DEF GLForwardTurn, GamePc, PlayPc, InSession
<1>17. CASE GLTurnForwarded(g)
  BY <1>17, <1>a, StartStep DEF GLTurnForwarded, GamePc, PlayPc, InSession
<1>18. CASE GLFastAction(g)
  BY <1>18, <1>a, StartStep DEF GLFastAction, GamePc, PlayPc, InSession
<1>19. CASE GLFastDisconnection(g)
  BY <1>19, <1>a, StartStep DEF GLFastDisconnection, GamePc, PlayPc, InSession
<1>20. CASE GLFastDoTurn(g)
  BY <1>20, <1>a, StartStep DEF GLFastDoTurn, GamePc, PlayPc, InSession
<1>21. CASE GLTimersAction(g)
  BY <1>21, <1>a, StartStep DEF GLTimersAction, GamePc, PlayPc, InSession
<1>22. CASE GLDrain(g)
  BY <1>22, <1>a, StartStep DEF GLDrain, GamePc, PlayPc, InSession
<1>23. CASE TimerSend(g)
  BY <1>23, <1>a, StartStep DEF TimerSend, GamePc, PlayPc, InSession
<1>24. CASE GLTimersPanics(g)
  BY <1>24, <1>a, StartStep DEF GLTimersPanics, GamePc, PlayPc, InSession
<1> QED BY <1>1, <1>2, <1>3, <1>4, <1>5, <1>6, <1>7, <1>8, <1>9, <1>10, <1>11,
    <1>12, <1>13, <1>14, <1>15, <1>16, <1>17, <1>18, <1>19, <1>20, <1>21,
    <1>22, <1>23, <1>24
        DEF GLInput, GLAnswer, GLStep

\* The steps of main, of the server, of the prompt and of a timer.
LEMMA MainStart ==
  ASSUME VarsTypeOK, StartInv, 
         Signal \/ PromptStep \/ MainStep \/ ServerStop \/ PromptStarted
           \/ StartupStep \/ TimerReset
  PROVE  StartInv'
<1> USE DEF VarsTypeOK, ConnTypeOK, Goto, Send, Kick, MutexFree
<1>1. CASE Signal
  BY <1>1 DEF Signal, StartInv, InSession, AllPlayers, IsPlayer
<1>2. CASE PromptStart
  BY <1>2 DEF PromptStart, StartInv, InSession, AllPlayers, IsPlayer
<1>3. CASE PromptQuit
  BY <1>3 DEF PromptQuit, StartInv, InSession, AllPlayers, IsPlayer
<1>4. ASSUME NEW s \in PromptSets, PromptSetLimit(s[1], s[2])
      PROVE  StartInv'
  BY <1>4 DEF PromptSetLimit, StartInv, InSession, AllPlayers, IsPlayer
<1>5. ASSUME NEW s \in PromptSets, PromptSetTurns(s[1], s[2])
      PROVE  StartInv'
  BY <1>5 DEF PromptSetTurns, StartInv, InSession, AllPlayers, IsPlayer
<1>6. CASE PromptStarted
  BY <1>6 DEF PromptStarted, StartInv, InSession, AllPlayers, IsPlayer
<1>7. CASE MainExit
  BY <1>7 DEF MainExit, StartInv, InSession, AllPlayers, IsPlayer
<1>8. CASE Cleanup
  BY <1>8 DEF Cleanup, StartInv, InSession, AllPlayers, IsPlayer
<1>9. ASSUME NEW s \in exits, MainSelect(s)
      PROVE  StartInv'
  BY <1>9 DEF MainSelect, StartInv, InSession, AllPlayers, IsPlayer
<1>10. CASE ServerStop
  BY <1>10 DEF ServerStop, StartInv, InSession, AllPlayers, IsPlayer
<1>11. CASE TimerReset
  BY <1>11 DEF TimerReset, StartInv, InSession, AllPlayers, IsPlayer
<1>12. CASE CleanupPanics
  BY <1>12 DEF CleanupPanics, StartInv, InSession, AllPlayers, IsPlayer
<1>13. CASE ServerListen
  BY <1>13 DEF ServerListen, StartInv, InSession, AllPlayers, IsPlayer
<1>14. CASE PromptRun
  BY <1>14 DEF PromptRun, StartInv, InSession, AllPlayers, IsPlayer
<1> QED BY <1>1, <1>2, <1>3, <1>4, <1>5, <1>6, <1>7, <1>8, <1>9, <1>10, <1>11,
          <1>12, <1>13, <1>14
        DEF PromptStep, MainStep, StartupStep

-----------------------------------------------------------------------------
(* The game logic stays.                                                   *)

\* What GameLogicInv says of one handler.
KnowsGL(c) ==
  /\ pc[c] = "accept" /\ c \in GLs => NbGL = 0
  /\ pc[c] \in {"autoSet", "autoSend"} => NbGL = 1
  /\ pc[c] \in PvPc => c \in Pvs
  /\ pc[c] \in AutoPcs /\ c \in Pvs => state[c] = "LOGGED"
  /\ pc[c] = "forward" => glClient[c]
  /\ pc[c] = "loop" /\ state[c] \in {"READY", "THINKING"} => glClient[c]

\* A step of one handler that leaves the list of game logics alone.
LEMMA GameLogicStep ==
  ASSUME GameLogicInv, NEW c \in Client, NbGL' = NbGL,
         gameState' = "GAME_RUNNING" =>
           gameState = "GAME_RUNNING" \/ NbGL = 1,
         \A d \in Client : d # c => /\ pc'[d] = pc[d] /\ state'[d] = state[d]
                                    /\ glClient'[d] = glClient[d],
         KnowsGL(c)'
  PROVE  GameLogicInv'
<1>1. ASSUME NEW d \in Client
      PROVE  KnowsGL(d)'
  <2>1. KnowsGL(d)
    BY Zenon DEF GameLogicInv, KnowsGL, NbGL
  <2>2. CASE d = c
    BY <2>2, Zenon
  <2>3. CASE d # c
    <3>1. /\ pc'[d] = pc[d] /\ state'[d] = state[d] /\ glClient'[d] = glClient[d]
      BY <2>3, Zenon
    <3> QED BY <2>1, <3>1, Zenon DEF KnowsGL
  <2> QED BY <2>2, <2>3
<1> QED BY <1>1 DEF GameLogicInv, KnowsGL, NbGL

\* A step that leaves the handlers and the list of game logics alone.
LEMMA GameLogicQuiet ==
  ASSUME GameLogicInv, UNCHANGED <<roster, pc, state, glClient>>,
         gameState' = "GAME_RUNNING" =>
           gameState = "GAME_RUNNING" \/ NbGL = 1
  PROVE  GameLogicInv'
BY DEF GameLogicInv, NbGL

\* The steps up to the handler of the role.
LEMMA LoginGameLogic ==
  ASSUME VarsTypeOK, MutexInv, GameLogicInv, NEW c \in Client,
         Connect(c) \/ FirstMessage(c) \/ LoginStep(c)
  PROVE  GameLogicInv'
<1> USE DEF VarsTypeOK, ConnTypeOK, Goto, Send, Kick, MutexFree
<1>a. KnowsGL(c)
  BY DEF GameLogicInv, KnowsGL, NbGL
<1>1. CASE Connect(c)
  BY <1>1, <1>a, GameLogicStep
  DEF Connect, NbGL, KnowsGL, PvPc, AutoPcs, Pvs, GLs
<1>2. CASE RefuseFirstMessage(c)
  BY <1>2, <1>a, GameLogicStep
  DEF RefuseFirstMessage, NbGL, KnowsGL, PvPc, AutoPcs, Pvs, GLs
<1>3. CASE ReadLogin(c)
  BY <1>3, <1>a, GameLogicStep
  DEF ReadLogin, NbGL, KnowsGL, PvPc, AutoPcs, Pvs, GLs
<1>4. CASE DenyLogin(c)
  BY <1>4, <1>a, GameLogicStep
  DEF DenyLogin, NbGL, KnowsGL, PvPc, AutoPcs, Pvs, GLs
<1>5. CASE AcceptLogin(c)
  <2>1. c \in GLs => NbGL = 0
    <3>1. ASSUME c \in GLs
          PROVE  NbGL = 0
      <4>1. Role[c] = "game logic"
        BY <3>1 DEF GLs
      <4>2. Limit(Role[c]) = 1
        BY <4>1, ZenonT(40) DEF Limit
      <4>3. ~(NbGL >= 1)
        BY <1>5, <4>1, <4>2 DEF AcceptLogin, LoginDenied, NbGL
      <4>4. NbGL \in Nat
        BY LenProperties DEF NbGL, GsTypeOK, AllRole
      <4> QED BY <4>3, <4>4, SMTT(40)
    <3> QED BY <3>1
  <2>2. KnowsGL(c)'
    BY <1>5, <2>1 DEF AcceptLogin, KnowsGL, NbGL, PvPc, AutoPcs
  <2> QED BY <1>5, <2>2, GameLogicStep DEF AcceptLogin, NbGL
<1>6. CASE JoinList(c)
  <2>1. /\ pc[c] = "accept"
        /\ pc'[c] = "auto1" \/ pc'[c] = RoleHandler(c)
        /\ \A d \in Client : d # c => pc'[d] = pc[d] /\ state'[d] = state[d]
        /\ c \in Pvs => state'[c] = "LOGGED"
        /\ UNCHANGED <<gameState, glClient>>
    BY <1>6 DEF JoinList, AutoPc, GLs, Pvs
  <2>2. CASE c \in GLs
    <3>1. NbGL = 0 /\ NbGL' = 1
      <4>1. /\ roster'["game logic"] = Append(roster["game logic"], c)
            /\ roster["game logic"] \in Seq(Client)
        BY <1>6, <2>2 DEF JoinList, GLs, GsTypeOK, AllRole
      <4>2. NbGL = 0
        BY <1>a, <2>1, <2>2 DEF KnowsGL
      <4>3. Len(Append(roster["game logic"], c)) = 1
        <5>1. Len(Append(roster["game logic"], c))
                = Len(roster["game logic"]) + 1
          BY <4>1, AppendList
        <5>2. Len(roster["game logic"]) = 0
          BY <4>2 DEF NbGL
        <5> DEFINE n == Len(roster["game logic"])
                   m == Len(Append(roster["game logic"], c))
        <5>3. m = n + 1 /\ n = 0
          BY <5>1, <5>2
        <5> HIDE DEF m, n
        <5>4. m = 1
          BY <5>3, SMTT(40)
        <5> QED BY <5>4 DEF m
      <4>4. NbGL' = Len(Append(roster["game logic"], c))
        BY <4>1 DEF NbGL
      <4> QED BY <4>2, <4>3, <4>4
    <3>2. ASSUME NEW d \in Client, d # c
          PROVE  KnowsGL(d)'
      <4>1. KnowsGL(d)
        BY DEF GameLogicInv, KnowsGL, NbGL
      <4>2. pc[d] # "accept"
        BY <2>1, <3>2 DEF MutexInv
      <4> QED BY <2>1, <3>1, <3>2, <4>1, <4>2 DEF KnowsGL
    <3>3. KnowsGL(c)'
      BY <2>1, <2>2, <3>1 DEF KnowsGL, RoleHandler, PvPc, AutoPcs, GLs, Pvs
    <3>4. gameState' = "GAME_RUNNING" => NbGL' = 1
      BY <3>1
    <3>5. \A d \in Client : KnowsGL(d)'
      BY <3>2, <3>3
    <3>6. NbGL' <= 1
      BY <3>1, SMTT(40)
    <3> QED BY <3>4, <3>5, <3>6 DEF GameLogicInv, KnowsGL, NbGL
  <2>3. CASE c \notin GLs
    <3>1. NbGL' = NbGL /\ c \in Pvs
      BY <1>6, <2>3 DEF JoinList, GLs, Pvs, NbGL, GsTypeOK, AllRole
    <3>2. KnowsGL(c)'
      BY <2>1, <2>3, <3>1 DEF KnowsGL, RoleHandler, PvPc, AutoPcs
    <3> QED BY <2>1, <3>1, <3>2, GameLogicStep
  <2> QED BY <2>2, <2>3
<1>7. ASSUME NEW k \in 1 .. 4, AutostartRead(c, k)
      PROVE  GameLogicInv'
  <2>1. UNCHANGED <<roster, state, glClient>>
    BY <1>7 DEF AutostartRead
  <2>2. c \in Pvs => state[c] = "LOGGED"
    BY <1>7, <1>a, AutoReadTarget DEF KnowsGL, AutoPcs
  <2>3. KnowsGL(c)'
    <3>1. CASE pc'[c] = RoleHandler(c)
      BY <2>1, <2>2, <3>1 DEF RoleHandler, KnowsGL, PvPc, AutoPcs, Pvs
    <3>2. CASE pc'[c] \in {"auto2", "auto3", "auto4"}
      BY <2>1, <2>2, <3>2 DEF KnowsGL, PvPc
    <3>3. CASE pc'[c] = "autoSet" /\ NbGL = 1
      BY <2>1, <2>2, <3>3 DEF KnowsGL, NbGL, PvPc
    <3> QED BY <1>7, <3>1, <3>2, <3>3, AutoReadTarget DEF NbGL
  <2> QED BY <1>7, <2>3, GameLogicStep DEF AutostartRead, NbGL
<1>8. CASE AutostartSet(c)
  BY <1>8, <1>a, GameLogicStep
  DEF AutostartSet, NbGL, KnowsGL, PvPc, AutoPcs, Pvs, GLs
<1>9. CASE AutostartSend(c)
  BY <1>9, <1>a, GameLogicStep
  DEF AutostartSend, NbGL, KnowsGL, PvPc, AutoPcs, Pvs, GLs, RoleHandler
<1> QED BY <1>1, <1>2, <1>3, <1>4, <1>5, <1>6, <1>7, <1>8, <1>9
        DEF FirstMessage, LoginStep

\* The steps of a player or visualization.
LEMMA PvGameLogic ==
  ASSUME VarsTypeOK, GameLogicInv, NEW c \in Client,
         PvInput(c) \/ PvStep(c)
  PROVE  GameLogicInv'
<1> USE DEF VarsTypeOK, ConnTypeOK, Goto, Send, Kick, MutexFree
<1>a. KnowsGL(c)
  BY DEF GameLogicInv, KnowsGL, NbGL
<1>1. CASE PvTerminate(c)
  BY <1>1, <1>a, GameLogicStep
  DEF PvTerminate, NbGL, KnowsGL, PvPc, AutoPcs, Pvs, GLs
<1>2. CASE CopyGLPointer(c)
  <2>1. KnowsGL(c)'
    BY <1>2, <1>a DEF CopyGLPointer, PvTypeOK, KnowsGL, NbGL, PvPc, AutoPcs
  <2> QED BY <1>2, <2>1, GameLogicStep DEF CopyGLPointer, PvTypeOK, NbGL
<1>3. CASE ReceiveGameEnds(c)
  BY <1>3, <1>a, GameLogicStep
  DEF ReceiveGameEnds, KickLogged, NbGL, KnowsGL, PvPc, AutoPcs, Pvs, GLs
<1>4. CASE KickAfterGameEnds(c)
  BY <1>4, <1>a, GameLogicStep
  DEF KickAfterGameEnds, NbGL, KnowsGL, PvPc, AutoPcs, Pvs, GLs
<1>5. CASE ReceiveNewTurn(c)
  BY <1>5, <1>a, GameLogicStep DEF ReceiveNewTurn, SendTurn, KickLogged, NbGL,
      KnowsGL, PvPc, AutoPcs, Pvs, GLs
<1>6. CASE ForwardActions(c)
  BY <1>6, <1>a, GameLogicStep DEF ForwardActions, AfterTurnAck, SendTurn,
      KickLogged, NbGL, KnowsGL, PvPc, AutoPcs, Pvs, GLs
<1>7. CASE KickLock(c)
  BY <1>7, <1>a, GameLogicStep
  DEF KickLock, NbGL, KnowsGL, PvPc, AutoPcs, Pvs, GLs
<1>8. CASE KickUnlock(c)
  <2>1. c \in Pvs
    BY <1>8, <1>a DEF KickUnlock, KnowsGL, PvPc
  <2>2. NbGL' = NbGL
    BY <1>8, <2>1 DEF KickUnlock, Pvs, NbGL, GsTypeOK, AllRole
  <2>3. KnowsGL(c)'
    BY <1>8 DEF KickUnlock, KnowsGL, PvPc, AutoPcs
  <2> QED BY <1>8, <2>2, <2>3, GameLogicStep DEF KickUnlock
<1>9. ASSUME NEW n \in Incoming(c), RefuseMessage(c, n)
      PROVE  GameLogicInv'
  BY <1>9, <1>a, GameLogicStep DEF RefuseMessage, KickLogged, AcceptsTurnAck,
      NbGL, KnowsGL, PvPc, AutoPcs, Pvs, GLs
<1>10. ASSUME NEW n \in Incoming(c), ReceiveTurnAck(c, n)
       PROVE  GameLogicInv'
  BY <1>10, <1>a, GameLogicStep DEF ReceiveTurnAck, AfterTurnAck, SendTurn,
      KickLogged, AcceptsTurnAck, NbGL, KnowsGL, PvPc, AutoPcs, Pvs, GLs
<1> QED BY <1>1, <1>2, <1>3, <1>4, <1>5, <1>6, <1>7, <1>8, <1>9, <1>10
        DEF PvInput, PvStep

\* The steps of the game logic and of its timers.
LEMMA GLGameLogic ==
  ASSUME VarsTypeOK, GameLogicInv, NEW g \in Client,
         GLInput(g) \/ GLAnswer(g) \/ GLStep(g) \/ TimerSend(g)
  PROVE  GameLogicInv'
<1> USE DEF VarsTypeOK, ConnTypeOK, Goto, Send, Kick, MutexFree
<1>a. KnowsGL(g)
  BY DEF GameLogicInv, KnowsGL, NbGL
<1>1. CASE GLStart(g)
  BY <1>1, <1>a, GameLogicStep
  DEF GLStart, NbGL, KnowsGL, PvPc, AutoPcs, Pvs, GLs
<1>2. CASE GLTerminate(g)
  BY <1>2, <1>a, GameLogicStep
  DEF GLTerminate, NbGL, KnowsGL, PvPc, AutoPcs, Pvs, GLs
<1>3. CASE GLClose(g)
  BY <1>3, <1>a, GameLogicStep
  DEF GLClose, NbGL, KnowsGL, PvPc, AutoPcs, Pvs, GLs
<1>4. CASE GLEarlyMessage(g)
  BY <1>4, <1>a, GameLogicStep
  DEF GLEarlyMessage, NbGL, KnowsGL, PvPc, AutoPcs, Pvs, GLs
<1>5. CASE GLEarlyKick(g)
  BY <1>5, <1>a, GameLogicStep
  DEF GLEarlyKick, GLLeaves, NbGL, KnowsGL, PvPc, AutoPcs, Pvs, GLs
<1>6. CASE GLCopyLists(g)
  BY <1>6, <1>a, GameLogicStep
  DEF GLCopyLists, NbGL, KnowsGL, PvPc, AutoPcs, Pvs, GLs
<1>7. CASE GLAssignIDs(g)
  BY <1>7, <1>a, GameLogicStep
  DEF GLAssignIDs, NbGL, KnowsGL, PvPc, AutoPcs, Pvs, GLs
<1>8. CASE GLSendDoInit(g)
  BY <1>8, <1>a, GameLogicStep
  DEF GLSendDoInit, GLLeaves, NbGL, KnowsGL, PvPc, AutoPcs, Pvs, GLs
<1>9. CASE GLDoInitAck(g)
  BY <1>9, <1>a, GameLogicStep
  DEF GLDoInitAck, NbGL, KnowsGL, PvPc, AutoPcs, Pvs, GLs
<1>10. CASE GLRefuseMessage(g)
  BY <1>10, <1>a, GameLogicStep
  DEF GLRefuseMessage, GLLeaves, NbGL, KnowsGL, PvPc, AutoPcs, Pvs, GLs
<1>11. CASE GLSendGameStarts(g)
  <2>1. PICK c \in Client : c = Head(todo)
    BY <1>11, HeadTailProperties DEF GLSendGameStarts, GlTypeOK
  <2>2. KnowsGL(c)
    BY DEF GameLogicInv, KnowsGL, NbGL
  <2>3. KnowsGL(c)'
    BY <1>11, <2>1, <2>2 DEF GLSendGameStarts, ReceiveGameStarts, KickLogged,
        KnowsGL, NbGL, PvPc, AutoPcs
  <2> QED BY <1>11, <2>1, <2>3, GameLogicStep
          DEF GLSendGameStarts, ReceiveGameStarts, KickLogged, NbGL
<1>12. CASE GLStartsSent(g)
  BY <1>12, <1>a, GameLogicStep
  DEF GLStartsSent, NbGL, KnowsGL, PvPc, AutoPcs, Pvs, GLs
<1>13. CASE GLFirstDoTurn(g)
  BY <1>13, <1>a, GameLogicStep
  DEF GLFirstDoTurn, NbGL, KnowsGL, PvPc, AutoPcs, Pvs, GLs
<1>14. CASE GLGameFinished(g)
  BY <1>14, <1>a, GameLogicStep
  DEF GLGameFinished, GLLeaves, NbGL, KnowsGL, PvPc, AutoPcs, Pvs, GLs
<1>15. CASE GLDoTurnAck(g)
  BY <1>15, <1>a, GameLogicStep
  DEF GLDoTurnAck, NbGL, KnowsGL, PvPc, AutoPcs, Pvs, GLs
<1>16. CASE GLForwardTurn(g)
  BY <1>16, GameLogicQuiet DEF GLForwardTurn, NbGL
<1>17. CASE GLTurnForwarded(g)
  BY <1>17, <1>a, GameLogicStep
  DEF GLTurnForwarded, NbGL, KnowsGL, PvPc, AutoPcs, Pvs, GLs
<1>18. CASE GLFastAction(g)
  BY <1>18, GameLogicQuiet DEF GLFastAction, NbGL
<1>19. CASE GLFastDisconnection(g)
  BY <1>19, GameLogicQuiet DEF GLFastDisconnection, NbGL
<1>20. CASE GLFastDoTurn(g)
  BY <1>20, <1>a, GameLogicStep
  DEF GLFastDoTurn, NbGL, KnowsGL, PvPc, AutoPcs, Pvs, GLs
<1>21. CASE GLTimersAction(g)
  BY <1>21, GameLogicQuiet DEF GLTimersAction, NbGL
<1>22. CASE GLDrain(g)
  BY <1>22, GameLogicQuiet DEF GLDrain, NbGL
<1>23. CASE TimerSend(g)
  BY <1>23, GameLogicQuiet DEF TimerSend, NbGL
<1>24. CASE GLTimersPanics(g)
  BY <1>24, GameLogicQuiet DEF GLTimersPanics, NbGL
<1> QED BY <1>1, <1>2, <1>3, <1>4, <1>5, <1>6, <1>7, <1>8, <1>9, <1>10, <1>11,
    <1>12, <1>13, <1>14, <1>15, <1>16, <1>17, <1>18, <1>19, <1>20, <1>21,
    <1>22, <1>23, <1>24
        DEF GLInput, GLAnswer, GLStep

\* The steps of main, of the server, of the prompt and of a timer.
LEMMA MainGameLogic ==
  ASSUME VarsTypeOK, GameLogicInv, 
         Signal \/ PromptStep \/ MainStep \/ ServerStop \/ PromptStarted
           \/ StartupStep \/ TimerReset
  PROVE  GameLogicInv'
<1> USE DEF VarsTypeOK, ConnTypeOK, Goto, Send, Kick, MutexFree
<1>1. CASE Signal
  BY <1>1, GameLogicQuiet DEF Signal, NbGL
<1>2. CASE PromptStart
  BY <1>2, GameLogicQuiet DEF PromptStart, NbGL
<1>3. CASE PromptQuit
  BY <1>3, GameLogicQuiet DEF PromptQuit, NbGL
<1>4. ASSUME NEW s \in PromptSets, PromptSetLimit(s[1], s[2])
      PROVE  GameLogicInv'
  BY <1>4, GameLogicQuiet DEF PromptSetLimit, NbGL
<1>5. ASSUME NEW s \in PromptSets, PromptSetTurns(s[1], s[2])
      PROVE  GameLogicInv'
  BY <1>5, GameLogicQuiet DEF PromptSetTurns, NbGL
<1>6. CASE PromptStarted
  BY <1>6, GameLogicQuiet DEF PromptStarted, NbGL
<1>7. CASE MainExit
  BY <1>7, GameLogicQuiet DEF MainExit, NbGL
<1>8. CASE Cleanup
  BY <1>8, GameLogicQuiet DEF Cleanup, NbGL
<1>9. ASSUME NEW s \in exits, MainSelect(s)
      PROVE  GameLogicInv'
  BY <1>9, GameLogicQuiet DEF MainSelect, NbGL
<1>10. CASE ServerStop
  BY <1>10, GameLogicQuiet DEF ServerStop, NbGL
<1>11. CASE TimerReset
  BY <1>11, GameLogicQuiet DEF TimerReset, NbGL
<1>12. CASE CleanupPanics
  BY <1>12, GameLogicQuiet DEF CleanupPanics, NbGL
<1>13. CASE ServerListen
  BY <1>13, GameLogicQuiet DEF ServerListen, NbGL
<1>14. CASE PromptRun
  BY <1>14, GameLogicQuiet DEF PromptRun, NbGL
<1> QED BY <1>1, <1>2, <1>3, <1>4, <1>5, <1>6, <1>7, <1>8, <1>9, <1>10, <1>11,
          <1>12, <1>13, <1>14
        DEF PromptStep, MainStep, StartupStep

-----------------------------------------------------------------------------
(* The four together.                                                      *)

\* The lists are empty and no handler runs at the start.
LEMMA InitSessionInv == Init => SessionInv
<1> SUFFICES ASSUME Init
             PROVE  SessionInv
  OBVIOUS
<1>1. \A r \in AllRole : /\ roster[r] = <<>> /\ Elems(roster[r]) = {}
                         /\ NoDuplicates(roster[r])
  BY SMTT(40) DEF Init, Elems, NoDuplicates
<1>2. \A c \in Client : pc[c] = "none" /\ canTerminate[c] = FALSE
  BY DEF Init
<1>3. RosterInv
  <2>1. \A c \in Client : ~Listed(c) /\ ~InSession(c)
    BY <1>1, <1>2, ConstantsAssumption DEF Listed, InSession
  <2> QED BY <1>1, <1>2, <2>1 DEF RosterInv
<1>4. MutexInv
  BY <1>2 DEF Init, MutexInv
<1>5. StartInv
  BY <1>2 DEF Init, StartInv, NoSnap, PlayPc
<1>6. GameLogicInv
  <2>1. Len(roster["game logic"]) = 0 /\ gameState = "GAME_NOT_RUNNING"
    BY <1>1 DEF AllRole, Init
  <2>2. Len(roster["game logic"]) <= 1
    <3> DEFINE n == Len(roster["game logic"])
    <3>1. n = 0
      BY <2>1
    <3> HIDE DEF n
    <3>2. n <= 1
      BY <3>1
    <3> QED BY <3>2 DEF n
  <2> QED BY <1>2, <2>1, <2>2 DEF GameLogicInv, AutoPcs, PvPc
<1> QED BY <1>3, <1>4, <1>5, <1>6 DEF SessionInv

\* Every step of every goroutine preserves the invariant.
LEMMA NextSessionInv == VarsTypeOK /\ SessionInv /\ [Next]_vars => SessionInv'
<1> SUFFICES ASSUME VarsTypeOK, SessionInv, [Next]_vars
             PROVE  SessionInv'
  OBVIOUS
<1> USE DEF SessionInv
<1>1. ASSUME NEW c \in Client, Connect(c) \/ FirstMessage(c) \/ LoginStep(c)
      PROVE  SessionInv'
  BY <1>1, LoginRoster, LoginMutex, LoginStart, LoginGameLogic
<1>2. ASSUME NEW c \in Client, PvInput(c) \/ PvStep(c)
      PROVE  SessionInv'
  BY <1>2, PvRoster, PvMutex, PvStart, PvGameLogic
<1>3. ASSUME NEW c \in Client,
             GLInput(c) \/ GLAnswer(c) \/ GLStep(c) \/ TimerSend(c)
      PROVE  SessionInv'
  BY <1>3, GLRoster, GLMutex, GLStarts, GLGameLogic
<1>4. ASSUME Signal \/ PromptStep \/ MainStep \/ ServerStop \/ PromptStarted
             \/ StartupStep \/ TimerReset
      PROVE  SessionInv'
  BY <1>4, MainRoster, MainMutex, MainStart, MainGameLogic
<1>5. CASE UNCHANGED vars
  <2>1. RosterInv'
    BY <1>5 DEF RosterInv, InSession, Listed, Ending
  <2>2. MutexInv'
    BY <1>5 DEF MutexInv
  <2>3. StartInv'
    BY <1>5 DEF StartInv, InSession, AllPlayers
  <2>4. GameLogicInv'
    BY <1>5 DEF GameLogicInv
  <2> QED BY <2>1, <2>2, <2>3, <2>4
<1> HIDE DEF SessionInv
<1> QED BY <1>1, <1>2, <1>3, <1>4, <1>5 DEF Next, Environment, Handler
=============================================================================
