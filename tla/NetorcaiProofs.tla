--------------------------- MODULE NetorcaiProofs ---------------------------
(***************************************************************************)
(* The theorems, for any number of clients and turns.                      *)
(***************************************************************************)
EXTENDS TypeProofs, SessionProofs, ProtocolProofs, GameProofs, BarrierProofs

\* Some leaves are large: the provers get more time than by default.
USE ZenonT(20), SMTT(40)
USE DEF gsVars, connVars, pvVars, chanVars, glVars, mainVars, vars

\* The variables keep their types.
THEOREM VarsTypeCorrect == Spec => []VarsTypeOK
BY InitTypeOK, NextTypeOK, PTL DEF Spec

\* The inductive invariant holds in every reachable state.
THEOREM SessionCorrect == Spec => []SessionInv
<1> QED BY InitSessionInv, NextSessionInv, VarsTypeCorrect, PTL DEF Spec

\* The lists of the clients are exact whatever the logins, departures and the
\* swap-removals of KickLoggedPlayerOrVisu: every session is in the list of
\* its role, once, and until Cleanup nobody else is.
THEOREM RosterIsExact == Spec => []RosterExact
<1>1. VarsTypeOK /\ SessionInv => RosterExact
  <2> SUFFICES ASSUME VarsTypeOK, SessionInv
               PROVE  RosterExact
    OBVIOUS
  <2>1. ASSUME mainPc \in {"select", "cleanup", "panicked"}, NEW r \in AllRole,
               NEW c \in Elems(roster[r])
        PROVE  InSession(c)
    <3>1. c \in Client
      BY <2>1, SMTT(40) DEF VarsTypeOK, GsTypeOK, Elems
    <3>2. Listed(c)
      BY <2>1 DEF SessionInv, RosterInv, Listed
    <3> QED BY <2>1, <3>1, <3>2
            DEF SessionInv, RosterInv, InSession, Early, Ending
  <2> QED BY <2>1 DEF RosterExact, SessionInv, RosterInv, Listed
<1> QED BY <1>1, VarsTypeCorrect, SessionCorrect, PTL

\* A player whose LOGIN was accepted is in the lists that the game logic's
\* goroutine copies when the game starts.
THEOREM NobodyIsMissed == Spec => []NobodyMissesTheStart
<1>1. SessionInv => NobodyMissesTheStart
  BY DEF SessionInv, StartInv, NobodyMissesTheStart
<1> QED BY <1>1, SessionCorrect, PTL

\* gs.GameLogic[0] exists wherever it is read, and the local pointer to the
\* game logic is set wherever a player uses it.
THEOREM GameLogicIsThere == Spec => []NoNilGameLogic
<1>1. SessionInv => NoNilGameLogic
  BY DEF SessionInv, StartInv, GameLogicInv, NoNilGameLogic
<1> QED BY <1>1, SessionCorrect, PTL

\* The inductive invariant holds in every reachable state: client.state
\* follows the handler, GAME_STARTS is handed out once, turns are queued in
\* order.
THEOREM ProtoCorrect == Spec => []ProtoInv
<1> QED BY InitProto, NextProto, VarsTypeCorrect, SessionCorrect, PTL DEF Spec

\* Every reachable state is well typed, whatever the number of clients and
\* turns: the set command only writes what the command line allows, and a
\* handler that has logged in stays within the code of its role.
THEOREM TypeCorrect == Spec => []TypeOK
<1>1. VarsTypeOK /\ SessionInv /\ ProtoInv => TypeOK
  <2> SUFFICES ASSUME VarsTypeOK, SessionInv, ProtoInv, NEW c \in Client
               PROVE  pc[c] \in LoginPc \cup RolePc(c) \cup {"fin", "done"}
    BY DEF TypeOK
  <2>1. CASE c \in GLs
    <3>1. c \notin Pvs
      BY <2>1 DEF GLs, Pvs
    <3>2. pc[c] \in Pc \ PvPc
      BY <3>1 DEF VarsTypeOK, ConnTypeOK, SessionInv, GameLogicInv
    <3> QED BY <2>1, <3>2 DEF Pc, LoginPc, RolePc
  <2>2. CASE c \notin GLs
    <3>1. c \in Pvs
      BY <2>2 DEF GLs, Pvs
    <3>2. pc[c] \in Early \cup AutoPcs \cup PvPc \cup {"fin", "done"}
      BY <3>1 DEF ProtoInv, PhaseOf
    <3> QED BY <2>2, <3>2 DEF Early, AutoPcs, LoginPc, RolePc
  <2> QED BY <2>1, <2>2
<1> QED BY <1>1, VarsTypeCorrect, SessionCorrect, ProtoCorrect, PTL

\* The program implements ClientProtocol for every player and visualization:
\* each step of any goroutine is a step of that protocol or leaves the client
\* alone.
THEOREM ProtocolImplemented == Spec => ClientsSeeProtocol
<1>1. VarsTypeOK /\ SessionInv /\ ProtoInv /\ [Next]_vars
        => [\A c \in Pvs : Proto(c)!ProtoStep]_vars
  BY NextProto DEF Simulates
<1>2. Init => \A c \in Pvs : Proto(c)!ProtoInit
  BY InitProto
<1> QED BY <1>1, <1>2, VarsTypeCorrect, SessionCorrect, ProtoCorrect, PTL
        DEF Spec, ClientsSeeProtocol

\* The invariant holds in every reachable state.
THEOREM GameInvCorrect == Spec => []GameInv
<1> QED BY InitGameInv, NextGameInv, VarsTypeCorrect, SessionCorrect, PTL DEF Spec

\* When Cleanup panics at a nil listener and leaves the mutex locked, no client
\* is connected.
THEOREM NobodyIsLockedOut == Spec => []NobodyLockedOut
<1>1. GameInv => NobodyLockedOut
  BY DEF GameInv, NobodyLockedOut
<1> QED BY <1>1, GameInvCorrect, PTL

\* The prompt orders one start, its send never blocks with the mutex held,
\* and no order is left over while the game is played.
THEOREM StartIsOrderedOnce == Spec => []StartOrderedOnce
<1>1. GameInv => StartOrderedOnce
  BY DEF GameInv
<1> QED BY <1>1, GameInvCorrect, PTL

\* With timers, the slice that the turn loop keeps holds at most one action of
\* each player, in whatever order actions and timers come and whatever the race
\* of the two on the slice leaves.
THEOREM ActionsOfOnePlayer == Spec => []OneActionPerPlayer
<1>1. GameInv => OneActionPerPlayer
  BY DEF GameInv
<1> QED BY <1>1, GameInvCorrect, PTL

\* A game logic that answers each DO_TURN once is sent nothing after its KICK,
\* unless netorcai aborts the game.
THEOREM NothingAfterKick == Spec => []LateTurnOnlyOnAbort
<1>1. VarsTypeOK /\ SessionInv /\ LateInv => LateTurnOnlyOnAbort
  <2> SUFFICES ASSUME VarsTypeOK, SessionInv, LateInv, NEW g \in GLs \ Faulty,
                      state[g] = "KICKED",
                      \/ mainPc = "select"
                      \/ snap.taken /\ turnNumber >= snap.nbTurnsMax
               PROVE  wire[g] = "KICK"
    BY DEF LateTurnOnlyOnAbort
  <2>1. Late(g) /\ g \in Client
    BY DEF LateInv, GLs
  <2>2. pc[g] = "closing" => Listed(g)
    BY <2>1 DEF SessionInv, RosterInv, InSession
  <2>3. pc[g] \in {"closing", "done"} /\ Listed(g) => mainPc # "select"
    BY <2>1 DEF SessionInv, RosterInv, Ending
  <2> QED BY <2>1, <2>2, <2>3 DEF Late
<1> QED BY <1>1, InitLate, NextLate, VarsTypeCorrect, SessionCorrect, ProtoCorrect,
           PTL DEF Spec

\* The invariant holds in every reachable state.
THEOREM BarrierInvCorrect == Spec => []BarrierInv
<1>1. LateInv => CopiedOnce
  BY DEF LateInv, Late, CopiedOnce
<1> QED BY <1>1, InitBarrier, NextBarrier, InitLate, NextLate, VarsTypeCorrect,
           SessionCorrect, ProtoCorrect, PTL DEF Spec

\* In the fast mode, the actions of a turn are sent to the game logic when
\* there is exactly one from each connected player, and all of them answer the
\* turn that was sent last.
THEOREM BarrierIsExact == Spec => []FastBarrier
<1>1. GameInv /\ BarrierInv => FastBarrier
  <2> SUFFICES ASSUME GameInv, BarrierInv, NEW g \in GLs, pc[g] = "collect",
                      awaited = {}
               PROVE  /\ connectedPlayers \subseteq
                           {a.id : a \in Elems(playerActions)}
                      /\ OneEach(playerActions)
                      /\ \A a \in Elems(playerActions) : a.turn = turnNumber - 1
    BY DEF FastBarrier, OneEach
  <2>1. Collected
    BY DEF GameInv, BarrierInv, BarrierHolds, BarrierAt, GLs
  <2> QED BY <2>1 DEF Collected
<1> QED BY <1>1, GameInvCorrect, BarrierInvCorrect, PTL

\* A player that netorcai waits for is connected, or its departure is about to
\* be taken from playerDisconnected.
THEOREM NobodyGhostAwaited == Spec => []NoGhostAwaited
<1>1. GameInv /\ BarrierInv => NoGhostAwaited
  <2> SUFFICES ASSUME GameInv, BarrierInv, NEW g \in GLs, pc[g] = "collect",
                      mainPc = "select", NEW i \in awaited
               PROVE  \/ i \in Elems(playerDisconnected)
                      \/ \E c \in Players : playerID[c] = i /\ pc[c] # "done"
    BY DEF NoGhostAwaited, Players
  <2>1. BarrierAt(g)
    BY DEF GameInv, BarrierInv, BarrierHolds, GLs
  <2>2. i \in connectedPlayers
    BY <2>1 DEF BarrierAt, Collected
  <2>3. PICK c \in Players : playerID[c] = i
    BY <2>1, <2>2 DEF BarrierAt, RoundPc
  <2>4. Told(c)
    BY <2>1, <2>2, <2>3 DEF BarrierAt, RoundPc, Seated
  <2> QED BY <2>3, <2>4 DEF Told
<1> QED BY <1>1, GameInvCorrect, BarrierInvCorrect, PTL
=============================================================================
