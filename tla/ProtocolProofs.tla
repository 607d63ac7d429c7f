--------------------------- MODULE ProtocolProofs ---------------------------
(***************************************************************************)
(* Every step is one that ClientProtocol allows to each player and         *)
(* visualization, and keeps the invariant that this needs.                 *)
(***************************************************************************)
EXTENDS OperatorProofs

\* Some leaves are large: the provers get more time than by default.
USE ZenonT(20), SMTT(40)
USE DEF gsVars, connVars, pvVars, chanVars, glVars, mainVars, vars

-----------------------------------------------------------------------------
(* Turns in order.                                                         *)

\* The handler takes a turn from newTurn and sends, keeps or drops it.
LEMMA OrderPop ==
  ASSUME NEW c, NEW n \in Int, InOrder(c, n), newTurn[c] \in Seq(Int),
         lastTurn[c] \in Int, turnBuffer[c] \in Int,
         newTurn[c] # <<>>, newTurn'[c] = Tail(newTurn[c]),
         \/ /\ turnBuffer[c] = NoTurn /\ turnBuffer'[c] = NoTurn
            /\ lastTurn'[c] = Head(newTurn[c])
         \/ /\ turnBuffer'[c] = Head(newTurn[c]) /\ lastTurn'[c] = lastTurn[c]
         \/ /\ turnBuffer'[c] = turnBuffer[c] /\ lastTurn'[c] = lastTurn[c]
  PROVE  InOrder(c, n)' /\ lastTurn[c] < Head(newTurn[c])
<1> DEFINE s == newTurn[c]
           h == Head(newTurn[c])
<1>1. /\ 1 \in DOMAIN s /\ h = s[1] /\ h \in Int
      /\ \A i \in DOMAIN Tail(s) :
           /\ i \in Int /\ i + 1 \in DOMAIN s /\ 1 < i + 1
           /\ Tail(s)[i] = s[i + 1] /\ s[i + 1] \in Int
  OBVIOUS
<1>2. -1 <= lastTurn[c] /\ lastTurn[c] < h /\ turnBuffer[c] < h /\ h < n
  BY <1>1 DEF InOrder
<1>3. ASSUME NEW i \in DOMAIN Tail(s)
      PROVE  /\ h < Tail(s)[i] /\ Tail(s)[i] < n /\ Tail(s)[i] \in Int
             /\ lastTurn[c] < Tail(s)[i] /\ turnBuffer[c] < Tail(s)[i]
             /\ \A j \in DOMAIN Tail(s) : i < j => Tail(s)[i] < Tail(s)[j]
  <2>1. /\ i \in Int /\ i + 1 \in DOMAIN s /\ 1 < i + 1
        /\ Tail(s)[i] = s[i + 1]
    BY <1>1
  <2>2. s[1] < s[i + 1] /\ s[i + 1] < n /\ lastTurn[c] < s[i + 1]
        /\ turnBuffer[c] < s[i + 1]
    BY <1>1, <2>1 DEF InOrder
  <2>3. ASSUME NEW j \in DOMAIN Tail(s), i < j
        PROVE  Tail(s)[i] < Tail(s)[j]
    <3>1. j \in Int /\ j + 1 \in DOMAIN s /\ Tail(s)[j] = s[j + 1]
      BY <1>1
    <3>2. i + 1 < j + 1
      BY <2>1, <2>3, <3>1
    <3>3. s[i + 1] < s[j + 1]
      BY <2>1, <3>1, <3>2 DEF InOrder
    <3> QED BY <2>1, <3>1, <3>3
  <2> QED BY <1>1, <2>1, <2>2, <2>3
<1>4. newTurn'[c] = Tail(s)
  OBVIOUS
<1>5. lastTurn'[c] \in {lastTurn[c], h} /\ turnBuffer'[c] \in {turnBuffer[c], h}
  OBVIOUS
<1>6. /\ -1 <= lastTurn'[c] /\ lastTurn'[c] < n
      /\ turnBuffer'[c] # NoTurn =>
           lastTurn'[c] < turnBuffer'[c] /\ turnBuffer'[c] < n
  <2> HIDE DEF h
  <2>1. h \in Int
    BY <1>1
  <2>2. turnBuffer[c] # NoTurn => lastTurn[c] < turnBuffer[c] /\ turnBuffer[c] < n
    BY DEF InOrder
  <2>3. lastTurn[c] < n
    BY DEF InOrder
  <2>4. \/ turnBuffer[c] = NoTurn /\ turnBuffer'[c] = NoTurn /\ lastTurn'[c] = h
        \/ turnBuffer'[c] = h /\ lastTurn'[c] = lastTurn[c]
        \/ turnBuffer'[c] = turnBuffer[c] /\ lastTurn'[c] = lastTurn[c]
    BY DEF h
  <2> QED BY <1>2, <2>1, <2>2, <2>3, <2>4 DEF NoTurn
<1> HIDE DEF h, s
<1>7. ASSUME NEW i \in DOMAIN newTurn'[c]
      PROVE  /\ lastTurn'[c] < newTurn'[c][i] /\ turnBuffer'[c] < newTurn'[c][i]
             /\ newTurn'[c][i] < n
             /\ \A j \in DOMAIN newTurn'[c] : i < j => newTurn'[c][i] < newTurn'[c][j]
  BY <1>3, <1>4, <1>5
<1> QED BY <1>2, <1>6, <1>7 DEF InOrder, h

\* The handler sends the turn of turnBuffer.
LEMMA OrderFlush ==
  ASSUME NEW c, NEW n \in Int, InOrder(c, n), newTurn[c] \in Seq(Int),
         lastTurn[c] \in Int, turnBuffer[c] \in Int, turnBuffer[c] # NoTurn,
         newTurn'[c] = newTurn[c], lastTurn'[c] = turnBuffer[c],
         turnBuffer'[c] = NoTurn
  PROVE  InOrder(c, n)' /\ lastTurn[c] < turnBuffer[c]
<1>1. /\ -1 <= lastTurn[c] /\ lastTurn[c] < turnBuffer[c] /\ turnBuffer[c] < n
  BY DEF InOrder
<1>2. \A i \in DOMAIN newTurn[c] : newTurn[c][i] \in Int
  OBVIOUS
<1>3. ASSUME NEW i \in DOMAIN newTurn[c]
      PROVE  /\ turnBuffer[c] < newTurn[c][i] /\ NoTurn < newTurn[c][i]
             /\ newTurn[c][i] < n
             /\ \A j \in DOMAIN newTurn[c] : i < j => newTurn[c][i] < newTurn[c][j]
  <2>1. /\ turnBuffer[c] < newTurn[c][i] /\ newTurn[c][i] < n
        /\ \A j \in DOMAIN newTurn[c] : i < j => newTurn[c][i] < newTurn[c][j]
    BY DEF InOrder
  <2> QED BY <1>1, <1>2, <2>1 DEF NoTurn
<1>4. -1 <= turnBuffer[c]
  BY <1>1
<1> QED BY <1>1, <1>3, <1>4, ZenonT(40) DEF InOrder

\* A turn is put in newTurn.
LEMMA OrderPush ==
  ASSUME NEW c, NEW n \in Int, InOrder(c, n), newTurn[c] \in Seq(Int),
         lastTurn[c] \in Int, turnBuffer[c] \in Int,
         newTurn'[c] = Append(newTurn[c], n), lastTurn'[c] = lastTurn[c],
         turnBuffer'[c] = turnBuffer[c]
  PROVE  InOrder(c, n + 1)'
<1> DEFINE s == newTurn[c]
           u == Append(newTurn[c], n)
<1>1. \A i \in DOMAIN u : /\ i \in Int /\ u[i] \in Int /\ i <= Len(s) + 1
                          /\ \/ i \in DOMAIN s /\ u[i] = s[i]
                             \/ i = Len(s) + 1 /\ u[i] = n
  OBVIOUS
<1>2. Len(s) \in Int /\ \A i \in DOMAIN s : i <= Len(s)
  OBVIOUS
<1>3. /\ -1 <= lastTurn[c] /\ lastTurn[c] < n /\ turnBuffer[c] < n
      /\ turnBuffer[c] # NoTurn => lastTurn[c] < turnBuffer[c]
  BY DEF InOrder, NoTurn
<1>4. ASSUME NEW i \in DOMAIN s
      PROVE  /\ lastTurn[c] < s[i] /\ turnBuffer[c] < s[i] /\ s[i] < n
             /\ \A j \in DOMAIN s : i < j => s[i] < s[j]
  BY DEF InOrder
<1> HIDE DEF u, s
<1>5. ASSUME NEW i \in DOMAIN u
      PROVE  /\ lastTurn[c] < u[i] /\ turnBuffer[c] < u[i] /\ u[i] < n + 1
             /\ \A j \in DOMAIN u : i < j => u[i] < u[j]
  <2>1. /\ lastTurn[c] < u[i] /\ turnBuffer[c] < u[i] /\ u[i] < n + 1
    BY <1>1, <1>3, <1>4
  <2>2. ASSUME NEW j \in DOMAIN u, i < j
        PROVE  u[i] < u[j]
    <3>1. i \in DOMAIN s /\ u[i] = s[i]
      BY <1>1, <1>2, <2>2
    <3>2. CASE j \in DOMAIN s /\ u[j] = s[j]
      BY <1>4, <2>2, <3>1, <3>2
    <3>3. CASE u[j] = n
      BY <1>4, <3>1, <3>3
    <3> QED BY <1>1, <3>2, <3>3
  <2> QED BY <2>1, <2>2
<1>6. newTurn'[c] = u
  BY DEF u
<1>7. lastTurn[c] < n + 1 /\ turnBuffer[c] < n + 1
  BY <1>3
<1> QED BY <1>3, <1>5, <1>6, <1>7, ZenonT(40) DEF InOrder

\* What is in order before a later turn.
LEMMA OrderLater ==
  ASSUME NEW c, NEW n \in Int, NEW m \in Int, n <= m, InOrder(c, n),
         lastTurn[c] \in Int, turnBuffer[c] \in Int, newTurn[c] \in Seq(Int)
  PROVE  InOrder(c, m)
BY DEF InOrder

-----------------------------------------------------------------------------
(* Frames.                                                                 *)

\* Every step of the program is a step of the protocol of each client.
Simulates == \A c \in Pvs : Proto(c)!ProtoStep

\* What a step that is not about c leaves alone.
SameClient(c) ==
  /\ pc'[c] = pc[c] /\ state'[c] = state[c] /\ wire'[c] = wire[c]
  /\ lastTurn'[c] = lastTurn[c] /\ turnBuffer'[c] = turnBuffer[c]
  /\ newTurn'[c] = newTurn[c] /\ gameEnds'[c] = gameEnds[c]

\* The phases that the handler's place alone determines.
LEMMA PhaseIs ==
  ASSUME NEW c
  PROVE  /\ pc[c] = "accept" => Phase(c) = "LOGGED"
         /\ pc[c] = "forward" => Phase(c) = "ACKED"
         /\ pc[c] \in {"kick", "kicking"} => Phase(c) = "LEAVING"
         /\ pc[c] = "endKick" => Phase(c) = "ENDED"
         /\ pc[c] \notin {"accept", "forward", "kick", "kicking", "endKick"}
              => Phase(c) = state[c]
BY ZenonT(40) DEF Phase

\* The same after a step.
LEMMA PhaseIsPrime ==
  ASSUME NEW c
  PROVE  /\ pc'[c] = "accept" => Phase(c)' = "LOGGED"
         /\ pc'[c] = "forward" => Phase(c)' = "ACKED"
         /\ pc'[c] \in {"kick", "kicking"} => Phase(c)' = "LEAVING"
         /\ pc'[c] = "endKick" => Phase(c)' = "ENDED"
         /\ pc'[c] \notin {"accept", "forward", "kick", "kicking", "endKick"}
              => Phase(c)' = state'[c]
BY ZenonT(40) DEF Phase

\* Turn numbers are integers.
LEMMA NextTurnType ==
  ASSUME VarsTypeOK, NEW c
  PROVE  NextTurn(c) \in Int
BY SMTT(40) DEF NextTurn, VarsTypeOK, GlTypeOK

\* A client that is left alone sees nothing.
LEMMA SameStep ==
  ASSUME NEW c, SameClient(c)
  PROVE  /\ Proto(c)!ProtoStep
         /\ PhaseOf(c) => PhaseOf(c)'
         /\ Started(c)' = Started(c) /\ Playing(c)' = Playing(c)
         /\ \A n : InOrder(c, n) => InOrder(c, n)'
<1>1. Phase(c)' = Phase(c)
  BY ZenonT(40) DEF SameClient, Phase
<1>2. Proto(c)!ProtoStep
  BY <1>1, ZenonT(40) DEF SameClient, Proto!ProtoStep, Proto!protoVars
<1>3. Started(c)' = Started(c) /\ Playing(c)' = Playing(c)
  BY DEF SameClient, Started, Playing
<1>4. PhaseOf(c) => PhaseOf(c)'
  BY <1>3 DEF SameClient, PhaseOf
<1>5. \A n : InOrder(c, n) => InOrder(c, n)'
  BY DEF SameClient, InOrder
<1> QED BY <1>2, <1>3, <1>4, <1>5

\* A step of the goroutine of one player or visualization.
LEMMA PvKeeps ==
  ASSUME VarsTypeOK, ProtoInv, NEW c \in Pvs,
         UNCHANGED <<snap, todo, turnNumber>>,
         \A d \in Client : d # c => SameClient(d),
         Proto(c)!ProtoStep, PhaseOf(c)', Started(c) => Started(c)',
         Playing(c)' => Playing(c), gameEnds'[c] => gameEnds[c],
         \A n \in Int : InOrder(c, n) => InOrder(c, n)'
  PROVE  ProtoInv' /\ Simulates
<1>1. Simulates
  BY SameStep DEF Simulates, Pvs
<1>2. ASSUME NEW d \in Pvs
      PROVE  /\ PhaseOf(d)' /\ (Started(d) => Started(d)')
             /\ (Playing(d)' => Playing(d)) /\ (gameEnds'[d] => gameEnds[d])
             /\ \A n \in Int : InOrder(d, n) => InOrder(d, n)'
  <2>1. CASE d = c
    BY <2>1
  <2>2. CASE d # c
    <3>1. SameClient(d) /\ PhaseOf(d)
      BY <2>2 DEF ProtoInv, Pvs
    <3> QED BY <3>1, SameStep DEF SameClient
  <2> QED BY <2>1, <2>2
<1>3. ASSUME NEW g \in GLs
      PROVE  pc'[g] = pc[g]
  BY DEF GLs, Pvs, SameClient
<1>4. ASSUME NEW d \in Pvs
      PROVE  InOrder(d, NextTurn(d))'
  <2>1. NextTurn(d)' = NextTurn(d)
    BY <1>3 DEF NextTurn, Forwarding
  <2>2. PICK n \in Int : n = NextTurn(d)
    BY SMTT(40) DEF NextTurn, VarsTypeOK, GlTypeOK
  <2>3. InOrder(d, n)' /\ n = NextTurn(d)'
    BY <1>2, <2>1, <2>2 DEF ProtoInv
  <2> QED BY <2>3 DEF InOrder
<1>5. UNCHANGED Recipients
  BY DEF Recipients, AllPlayers
<1>6. ASSUME NEW l, StartsAt(l), snap.taken => Elems(Recipients) \subseteq Pvs
      PROVE  StartsAt(l)'
  BY <1>2, <1>5, <1>6 DEF StartsAt, PlayPc, TurnsPc
<1>7. ASSUME NEW g \in GLs
      PROVE  StartsAt(pc[g])'
  <2>1. PICK l : l = pc[g]
    OBVIOUS
  <2>2. StartsAt(l)' /\ l = pc'[g]
    BY <1>3, <1>6, <2>1 DEF ProtoInv, StartsInv
  <2> QED BY <2>2 DEF StartsAt
<1>8. StartsInv'
  BY <1>2, <1>5, <1>7 DEF ProtoInv, StartsInv
<1> QED BY <1>1, <1>2, <1>4, <1>8 DEF ProtoInv

\* A step of the goroutine of a game logic that is about itself.
LEMMA GLKeeps ==
  ASSUME ProtoInv, VarsTypeOK, NEW g \in GLs, UNCHANGED <<snap, todo, turnNumber>>,
         \A c \in Client : c # g => SameClient(c),
         pc'[g] # "turns", StartsAt(pc'[g])
  PROVE  ProtoInv' /\ Simulates
<1>1. ASSUME NEW c \in Pvs
      PROVE  SameClient(c) /\ c # g
  BY DEF GLs, Pvs
<1>2. Simulates
  BY <1>1, SameStep DEF Simulates
<1>3. ASSUME NEW c \in Pvs
      PROVE  /\ PhaseOf(c)' /\ Started(c)' = Started(c)
             /\ Playing(c)' = Playing(c) /\ gameEnds'[c] = gameEnds[c]
             /\ \A n : InOrder(c, n) => InOrder(c, n)'
  <2>1. PhaseOf(c)
    BY DEF ProtoInv
  <2> QED BY <1>1, <2>1, SameStep DEF SameClient
<1>4. ASSUME NEW c \in Pvs
      PROVE  InOrder(c, NextTurn(c))'
  <2>1. /\ NextTurn(c) \in Int /\ NextTurn(c)' \in Int
        /\ NextTurn(c) <= NextTurn(c)'
    <3>1. Forwarding(c)' => Forwarding(c)
      BY DEF Forwarding, SameClient, GLs
    <3>2. turnNumber \in Int /\ turnNumber' = turnNumber
      BY SMTT(40) DEF VarsTypeOK, GlTypeOK
    <3> HIDE DEF Forwarding
    <3> QED BY <3>1, <3>2 DEF NextTurn
  <2>2. PICK n \in Int : n = NextTurn(c)
    BY <2>1
  <2>3. InOrder(c, n)'
    BY <1>3, <2>2 DEF ProtoInv
  <2>4. PICK m \in Int : m = NextTurn(c)' /\ n <= m
    BY <2>1, <2>2
  <2>5. InOrder(c, m)'
    <3>1. /\ lastTurn'[c] \in Int /\ turnBuffer'[c] \in Int
          /\ newTurn'[c] \in Seq(Int)
      BY <1>1 DEF SameClient, VarsTypeOK, PvTypeOK, Pvs
    <3> QED BY <2>3, <2>4, <3>1 DEF InOrder
  <2> QED BY <2>4, <2>5 DEF InOrder
<1>5. UNCHANGED Recipients
  BY DEF Recipients, AllPlayers
<1>6. ASSUME NEW l, StartsAt(l), snap.taken => Elems(Recipients) \subseteq Pvs
      PROVE  StartsAt(l)'
  BY <1>3, <1>5, <1>6 DEF StartsAt, PlayPc, TurnsPc
<1>7. ASSUME NEW h \in GLs
      PROVE  StartsAt(pc[h])'
  <2>1. PICK l : l = pc'[h]
    OBVIOUS
  <2>2. StartsAt(l)
    <3>1. CASE h = g
      BY <2>1, <3>1
    <3>2. CASE h # g
      BY <2>1, <3>2 DEF GLs, SameClient, ProtoInv, StartsInv
    <3> QED BY <3>1, <3>2
  <2>3. StartsAt(l)'
    BY <1>6, <2>2 DEF ProtoInv, StartsInv
  <2> QED BY <2>1, <2>3 DEF StartsAt
<1>8. StartsInv'
  BY <1>3, <1>5, <1>7 DEF ProtoInv, StartsInv
<1> QED BY <1>2, <1>3, <1>4, <1>8 DEF ProtoInv

\* A step that leaves all clients alone.
LEMMA ProtoQuiet ==
  ASSUME ProtoInv, UNCHANGED <<pc, state, snap, todo, turnNumber, lastTurn,
                               turnBuffer, newTurn, gameEnds>>,
         \A c \in Pvs : wire'[c] = wire[c]
  PROVE  ProtoInv' /\ Simulates
<1>1. \A c \in Pvs : SameClient(c)
  BY DEF SameClient
<1>2. Simulates
  BY <1>1, SameStep DEF Simulates
<1>3. StartsInv'
  BY DEF ProtoInv, StartsInv, StartsAt, Recipients, AllPlayers, Started,
         Playing
<1>4. ASSUME NEW c \in Pvs
      PROVE  PhaseOf(c)' /\ InOrder(c, NextTurn(c))'
  <2>1. PICK n : n = NextTurn(c)
    OBVIOUS
  <2>2. NextTurn(c)' = n
    BY <2>1 DEF NextTurn, Forwarding
  <2>3. PhaseOf(c) /\ InOrder(c, n)
    BY <2>1 DEF ProtoInv
  <2>4. PhaseOf(c)' /\ InOrder(c, n)'
    BY <1>1, <2>3, SameStep
  <2> QED BY <2>2, <2>4, ZenonT(40)
<1> QED BY <1>2, <1>3, <1>4 DEF ProtoInv

\* Where a game logic is not concerned by the game's start.
LEMMA StartsNowhere ==
  ASSUME NEW l \in Early \cup {"fin", "closing", "done"}
  PROVE  StartsAt(l)
BY DEF StartsAt, Early, BeforeStarts, AutoPcs, PlayPc, TurnsPc

\* Where a game logic's handler is not concerned by the start, after a step.
LEMMA StartsNowherePrime ==
  ASSUME NEW l \in Early \cup {"fin", "closing", "done"}
  PROVE  StartsAt(l)'
BY DEF StartsAt, Early, BeforeStarts, AutoPcs, PlayPc, TurnsPc

\* A step of the game logic in session: only its handler matters.
LEMMA OnlySessionMoves ==
  ASSUME VarsTypeOK, SessionInv, NEW g \in GLs, InSession(g),
         \A h \in GLs : h # g => pc'[h] = pc[h]
  PROVE  /\ \A c : Forwarding(c) <=> pc[g] = "turns" /\ c \in Elems(todo)
         /\ \A c : Forwarding(c)' <=> pc'[g] = "turns" /\ c \in Elems(todo)'
         /\ StartsAt(pc[g])' => \A h \in GLs : StartsAt(pc[h])'
<1>1. \A h \in GLs : h # g => pc[h] \in Early \cup {"done"}
  BY OneGameLogic
<1>2. \A h \in GLs : h # g => pc[h] # "turns" /\ pc'[h] # "turns"
  BY <1>1 DEF Early
<1>3. \A c : Forwarding(c) <=> pc[g] = "turns" /\ c \in Elems(todo)
  BY <1>2 DEF Forwarding
<1>4. \A c : Forwarding(c)' <=> pc'[g] = "turns" /\ c \in Elems(todo)'
  BY <1>2 DEF Forwarding
<1>5. ASSUME StartsAt(pc[g])', NEW h \in GLs
      PROVE  StartsAt(pc[h])'
  <2>1. CASE h = g
    BY <1>5, <2>1
  <2>2. CASE h # g
    <3>1. PICK l \in Early \cup {"done"} : l = pc'[h]
      BY <1>1, <2>2
    <3>2. StartsAt(l)'
      BY StartsNowherePrime
    <3> QED BY <3>1, <3>2 DEF StartsAt
  <2> QED BY <2>1, <2>2
<1> QED BY <1>3, <1>4, <1>5

\* Before the lists are copied, nobody plays.
LEMMA StartsLater ==
  ASSUME NEW l \in AutoPcs \cup {"waitStart", "earlyKick", "copy"},
         \A c \in Pvs : ~Playing(c)
  PROVE  StartsAt(l)
BY DEF StartsAt, AutoPcs, PlayPc, TurnsPc

\* What a step of the handler of c leaves alone when it has no TURN to send.
Moves(c) ==
  /\ UNCHANGED <<snap, todo, turnNumber, lastTurn, turnBuffer, newTurn>>
  /\ \A d \in Client : d # c =>
       /\ pc'[d] = pc[d] /\ state'[d] = state[d] /\ wire'[d] = wire[d]
       /\ gameEnds'[d] = gameEnds[d]
  /\ gameEnds'[c] => gameEnds[c]

\* Such a step of a player or visualization.
LEMMA PvMoves ==
  ASSUME VarsTypeOK, ProtoInv, NEW c \in Pvs, Moves(c), Proto(c)!ProtoStep, PhaseOf(c)',
         Started(c) => Started(c)', Playing(c)' => Playing(c)
  PROVE  ProtoInv' /\ Simulates
<1>1. \A n : InOrder(c, n) => InOrder(c, n)'
  BY DEF Moves, InOrder
<1>2. \A d \in Client : d # c => SameClient(d)
  BY DEF Moves, SameClient
<1> QED BY <1>1, <1>2, PvKeeps DEF Moves

\* Such a step of a game logic.
LEMMA GLMoves ==
  ASSUME ProtoInv, VarsTypeOK, NEW g \in GLs, Moves(g), pc'[g] # "turns",
         StartsAt(pc'[g])
  PROVE  ProtoInv' /\ Simulates
<1>1. \A d \in Client : d # g => SameClient(d)
  BY DEF Moves, SameClient
<1> QED BY <1>1, GLKeeps DEF Moves

\* A client that is refused, or whose handler ends, is sent at most one KICK.
LEMMA KickIsLast ==
  ASSUME VarsTypeOK, NEW c \in Client, Kick(c),
         Phase(c) # "ACKED", Phase(c)' = "KICKED", lastTurn' = lastTurn,
         (state[c] = "KICKED") <=> (Phase(c) = "KICKED")
  PROVE  Proto(c)!ProtoStep
<1>1. wire'[c] = IF state[c] = "KICKED" THEN wire[c] ELSE "KICK"
  BY DEF Kick, VarsTypeOK, ConnTypeOK
<1>2. CASE Phase(c) = "KICKED"
  BY <1>1, <1>2 DEF Proto!ProtoStep, Proto!protoVars
<1>3. CASE Phase(c) # "KICKED"
  BY <1>1, <1>3 DEF Proto!ProtoStep, Proto!ProtoNext, Proto!KickClient
<1> QED BY <1>2, <1>3

-----------------------------------------------------------------------------
(* One lemma per goroutine.                                                *)

\* The steps up to the handler of the role.
LEMMA LoginProto ==
  ASSUME VarsTypeOK, SessionInv, ProtoInv, NEW c \in Client,
         Connect(c) \/ FirstMessage(c) \/ LoginStep(c)
  PROVE  ProtoInv' /\ Simulates
<1>a. Moves(c)
  BY DEF VarsTypeOK, ConnTypeOK, Moves, Connect, FirstMessage, RefuseFirstMessage,
         ReadLogin, LoginStep, DenyLogin, AcceptLogin, JoinList, AutostartRead,
         AutostartSet, AutostartSend, Goto, Send, Kick
<1>b. /\ UNCHANGED turnBuffer
      /\ pc \in [Client -> Pc] /\ state \in [Client -> ClientState]
      /\ wire \in [Client -> Message]
  BY <1>a DEF Moves, VarsTypeOK, ConnTypeOK
<1>1. CASE c \in Pvs
  <2>a. PhaseOf(c)
    BY <1>1 DEF ProtoInv
  <2>1. CASE \/ Connect(c) \/ ReadLogin(c)
    <3>1. /\ pc[c] \in {"none", "first"} /\ pc'[c] \in {"first", "login"}
          /\ UNCHANGED <<state, wire, lastTurn>>
      BY <1>b, <2>1 DEF Connect, ReadLogin, Goto
    <3>2. Phase(c)' = Phase(c)
      BY <3>1, PhaseIs, PhaseIsPrime
    <3>3. Proto(c)!ProtoStep
      BY <3>1, <3>2 DEF Proto!ProtoStep, Proto!protoVars
    <3>4. PhaseOf(c)' /\ ~Started(c) /\ (Playing(c)' => Playing(c))
      BY <1>b, <2>a, <3>1 DEF PhaseOf, Started, Playing, Early, AutoPcs, PvPc
    <3> QED BY <1>1, <1>a, <3>3, <3>4, PvMoves
  <2>2. CASE RefuseFirstMessage(c) \/ DenyLogin(c)
    <3>1. /\ pc[c] \in {"first", "login"} /\ pc'[c] = "done" /\ Kick(c)
          /\ state[c] = "UNLOGGED" /\ state'[c] = "KICKED"
          /\ lastTurn' = lastTurn
      BY <1>b, <2>2, <2>a
      DEF RefuseFirstMessage, DenyLogin, Goto, Kick, PhaseOf, Early
    <3>2. Phase(c)' = "KICKED" /\ Phase(c) = "UNLOGGED"
      BY <3>1, PhaseIs, PhaseIsPrime
    <3>3. Proto(c)!ProtoStep
      BY <3>1, <3>2, KickIsLast
    <3>4. PhaseOf(c)' /\ ~Started(c) /\ ~Playing(c)'
      BY <1>b, <2>a, <3>1 DEF PhaseOf, Started, Playing, Early, AutoPcs, PvPc
    <3> QED BY <1>1, <1>a, <3>3, <3>4, PvMoves
  <2>3. CASE AcceptLogin(c)
    <3>1. /\ pc[c] = "login" /\ pc'[c] = "accept" /\ wire'[c] = "LOGIN_ACK"
          /\ state[c] = "UNLOGGED" /\ UNCHANGED <<state, lastTurn>>
      BY <1>b, <2>3, <2>a DEF AcceptLogin, Goto, Send, PhaseOf, Early
    <3>2. Phase(c)' = "LOGGED" /\ Phase(c) = "UNLOGGED"
      BY <3>1, PhaseIs, PhaseIsPrime
    <3>3. Proto(c)!ProtoStep
      BY <3>1, <3>2 DEF Proto!ProtoStep, Proto!ProtoNext, Proto!LoginAck
    <3>4. PhaseOf(c)' /\ ~Started(c) /\ ~Playing(c)'
      BY <1>b, <2>a, <3>1 DEF PhaseOf, Started, Playing, Early, AutoPcs, PvPc
    <3> QED BY <1>1, <1>a, <3>3, <3>4, PvMoves
  <2>4. CASE \/ JoinList(c) \/ AutostartSet(c) \/ AutostartSend(c)
             \/ \E k \in 1 .. 4 : AutostartRead(c, k)
    <3>1. /\ pc[c] \in {"accept"} \cup AutoPcs
          /\ pc'[c] \in {"loop"} \cup AutoPcs
          /\ state'[c] = "LOGGED"
          /\ pc[c] = "accept" \/ state[c] = "LOGGED"
          /\ UNCHANGED <<wire, lastTurn>>
      <4>1. CASE JoinList(c)
        BY <1>b, <1>1, <4>1
        DEF JoinList, Goto, AutoPc, AutoPcs, RoleHandler, Pvs, GLs
      <4>2. CASE AutostartSet(c) \/ AutostartSend(c)
        <5>1. /\ pc[c] \in {"autoSet", "autoSend"}
              /\ pc'[c] \in {"autoSend", "loop"}
              /\ UNCHANGED <<state, wire, lastTurn>>
          BY <1>b, <1>1, <4>2
          DEF AutostartSet, AutostartSend, Goto, RoleHandler, Pvs
        <5> QED BY <2>a, <5>1 DEF AutoPcs, PhaseOf
      <4>3. ASSUME NEW k \in 1 .. 4, AutostartRead(c, k)
            PROVE  <3>1!:
        <5>1. UNCHANGED <<state, wire, lastTurn>>
          BY <4>3 DEF AutostartRead
        <5>2. RoleHandler(c) = "loop"
          BY <1>1 DEF RoleHandler, Pvs
        <5> QED BY <2>a, <4>3, <5>1, <5>2, AutoReadTarget DEF AutoPcs, PhaseOf
      <4> QED BY <2>4, <4>1, <4>2, <4>3
    <3>2. Phase(c)' = "LOGGED" /\ Phase(c) = "LOGGED"
      BY <3>1, PhaseIs, PhaseIsPrime DEF AutoPcs
    <3>3. Proto(c)!ProtoStep
      BY <3>1, <3>2 DEF Proto!ProtoStep, Proto!protoVars
    <3>4. PhaseOf(c)' /\ ~Started(c) /\ ~Playing(c)'
      BY <1>b, <2>a, <3>1 DEF PhaseOf, Started, Playing, Early, AutoPcs, PvPc
    <3> QED BY <1>1, <1>a, <3>3, <3>4, PvMoves
  <2> QED BY <2>1, <2>2, <2>3, <2>4 DEF FirstMessage, LoginStep
<1>2. CASE c \in GLs
  <2>1. CASE \/ Connect(c) \/ FirstMessage(c) \/ DenyLogin(c)
             \/ AcceptLogin(c)
    <3>1. pc'[c] \in Early \cup {"done"}
      BY <1>b, <2>1 DEF Connect, FirstMessage, RefuseFirstMessage, ReadLogin,
         DenyLogin, AcceptLogin, Goto, Early
    <3> QED BY <1>2, <1>a, <3>1, StartsNowhere, GLMoves DEF Early
  <2>2. CASE JoinList(c)
    <3>1. pc[c] = "accept" /\ pc'[c] \in {"auto1", "waitStart"}
      BY <1>b, <1>2, <2>2 DEF JoinList, Goto, AutoPc, RoleHandler, GLs
    <3>2. ~snap.taken
      <4>1. NbGL = 0
        BY <1>2, <3>1 DEF SessionInv, GameLogicInv, NbGL
      <4>2. gameState = "GAME_RUNNING" => NbGL = 1
        BY DEF SessionInv, GameLogicInv, NbGL
      <4>3. gameState # "GAME_RUNNING"
        BY <4>1, <4>2
      <4> QED BY <4>3 DEF SessionInv, StartInv
    <3>3. \A d \in Pvs : ~Playing(d)
      BY <3>2 DEF ProtoInv, StartsInv
    <3> QED BY <1>2, <1>a, <3>1, <3>3, StartsLater, GLMoves DEF AutoPcs
  <2>3. CASE \/ AutostartSet(c) \/ AutostartSend(c)
             \/ \E k \in 1 .. 4 : AutostartRead(c, k)
    <3>1. pc[c] \in AutoPcs /\ pc'[c] \in AutoPcs \cup {"waitStart"}
      <4>1. CASE AutostartSet(c) \/ AutostartSend(c)
        BY <1>b, <1>2, <4>1
        DEF AutostartSet, AutostartSend, Goto, AutoPcs, RoleHandler, GLs
      <4>2. ASSUME NEW k \in 1 .. 4, AutostartRead(c, k)
            PROVE  <3>1!:
        <5>1. RoleHandler(c) = "waitStart"
          BY <1>2 DEF RoleHandler, GLs
        <5> QED BY <4>2, <5>1, AutoReadTarget DEF AutoPcs
      <4> QED BY <2>3, <4>1, <4>2
    <3>2. \A d \in Pvs : ~Playing(d)
      BY <1>2, <3>1 DEF ProtoInv, StartsInv, StartsAt, BeforeStarts
    <3> QED BY <1>2, <1>a, <3>1, <3>2, StartsLater, GLMoves DEF AutoPcs
  <2> QED BY <2>1, <2>2, <2>3 DEF LoginStep
<1> QED BY <1>1, <1>2 DEF Pvs, GLs

\* A TURN is sent, or the client is found to be gone.
LEMMA TurnSent ==
  ASSUME VarsTypeOK, NEW c \in Pvs, NEW n \in Int, SendTurn(c, n, "loop"),
         lastTurn[c] < n, Phase(c) = "ACKED" \/ Phase(c) = state[c],
         \/ pc[c] = "forward"
         \/ pc[c] = "loop" /\ state[c] = "READY"
         \/ pc[c] = "loop" /\ state[c] = "THINKING" /\ ~IsPlayer(c)
  PROVE  /\ Proto(c)!ProtoStep
         /\ \/ pc'[c] = "loop" /\ state'[c] = "THINKING"
            \/ pc'[c] = "kick" /\ state' = state
         /\ lastTurn'[c] = n
         /\ \A d \in Client : d # c =>
              /\ pc'[d] = pc[d] /\ state'[d] = state[d] /\ wire'[d] = wire[d]
              /\ lastTurn'[d] = lastTurn[d]
<1>1. /\ pc \in [Client -> Pc] /\ state \in [Client -> ClientState]
      /\ wire \in [Client -> Message] /\ lastTurn \in [Client -> Int]
  BY DEF VarsTypeOK, ConnTypeOK, PvTypeOK
<1>2. /\ \/ pc'[c] = "loop" /\ state'[c] = "THINKING" /\ wire'[c] = "TURN"
         \/ pc'[c] = "kick" /\ state' = state /\ wire' = wire
      /\ lastTurn'[c] = n
      /\ \A d \in Client : d # c =>
           /\ pc'[d] = pc[d] /\ state'[d] = state[d] /\ wire'[d] = wire[d]
           /\ lastTurn'[d] = lastTurn[d]
  BY <1>1 DEF SendTurn, Send, Goto, KickLogged, Pvs
<1>3. \/ Phase(c)' = "THINKING" /\ wire'[c] = "TURN"
      \/ Phase(c)' = "LEAVING" /\ wire'[c] = wire[c]
  BY <1>2, PhaseIsPrime
<1>4. /\ Phase(c) \in {"ACKED", "READY", "THINKING"}
      /\ Phase(c) = "THINKING" => ~IsPlayer(c)
  BY PhaseIs
<1>5. lastTurn'[c] > lastTurn[c]
  BY <1>1, <1>2 DEF Pvs
<1>6. Proto(c)!ProtoStep
  BY <1>3, <1>4, <1>5
  DEF Proto!ProtoStep, Proto!ProtoNext, Proto!Turn, Proto!Leave,
      Proto!MayBeSentTurn
<1> QED BY <1>2, <1>6

\* The handler of a player or visualization.
LEMMA PvProto ==
  ASSUME VarsTypeOK, SessionInv, ProtoInv, NEW c \in Client,
         PvInput(c) \/ PvStep(c)
  PROVE  ProtoInv' /\ Simulates
<1>a. /\ pc \in [Client -> Pc] /\ state \in [Client -> ClientState]
      /\ wire \in [Client -> Message] /\ lastTurn \in [Client -> Int]
      /\ turnBuffer \in [Client -> Int] /\ newTurn \in [Client -> Seq(Int)]
      /\ gameEnds \in [Client -> BOOLEAN]
  BY DEF VarsTypeOK, ConnTypeOK, PvTypeOK
<1>b. /\ pc[c] \in {"loop", "copyGL", "forward", "endKick", "kick", "kicking",
                    "fin"}
      /\ pc[c] = "fin" => c \in Pvs
  BY DEF PvInput, RefuseMessage, ReceiveTurnAck, PvStep, PvTerminate,
         CopyGLPointer, ReceiveGameEnds, KickAfterGameEnds, ReceiveNewTurn,
         ForwardActions, KickLock, KickUnlock
<1>c. c \in Pvs
  BY <1>b DEF SessionInv, GameLogicInv, PvPc
<1>d. PhaseOf(c)
  BY <1>c DEF ProtoInv
<1>1. CASE PvTerminate(c) \/ KickAfterGameEnds(c) \/ KickUnlock(c)
  <2>1. /\ pc[c] \in {"loop", "fin", "endKick", "kicking"}
        /\ pc'[c] \in {"fin", "done"} /\ Kick(c)
        /\ state'[c] = "KICKED" /\ UNCHANGED pvVars /\ Moves(c)
    BY <1>1, <1>a
    DEF PvTerminate, KickAfterGameEnds, KickUnlock, Kick, Goto, Moves
  <2>2. (state[c] = "KICKED") <=> (pc[c] = "fin")
    BY <1>d, <2>1 DEF PhaseOf, Playing
  <2>3. /\ Phase(c)' = "KICKED" /\ Phase(c) # "ACKED"
        /\ (state[c] = "KICKED") <=> (Phase(c) = "KICKED")
    BY <2>1, <2>2, <1>a, PhaseIs, PhaseIsPrime DEF ClientState
  <2>4. Proto(c)!ProtoStep
    BY <2>1, <2>3, KickIsLast
  <2>5. PhaseOf(c)' /\ Started(c)' /\ ~Playing(c)'
    BY <2>1 DEF PhaseOf, Started, Playing, Early, AutoPcs, PvPc
  <2> QED BY <1>c, <2>1, <2>4, <2>5, PvMoves
<1>2. CASE CopyGLPointer(c) \/ KickLock(c)
  <2>1. /\ \/ pc[c] = "copyGL" /\ pc'[c] = "loop"
           \/ pc[c] = "kick" /\ pc'[c] = "kicking"
        /\ UNCHANGED <<state, wire, lastTurn, turnBuffer>> /\ Moves(c)
    BY <1>2, <1>a DEF CopyGLPointer, KickLock, Goto, Moves
  <2>2. Phase(c)' = Phase(c)
    BY <2>1, PhaseIs, PhaseIsPrime
  <2>3. Proto(c)!ProtoStep
    BY <2>1, <2>2 DEF Proto!ProtoStep, Proto!protoVars
  <2>4. PhaseOf(c)' /\ Started(c)' /\ (Playing(c)' => Playing(c))
    BY <1>d, <2>1 DEF PhaseOf, Started, Playing, Early, AutoPcs, PvPc
  <2> QED BY <1>c, <2>1, <2>3, <2>4, PvMoves
<1>3. CASE ReceiveGameEnds(c)
  <2>1. /\ pc[c] = "loop" /\ gameEnds[c]
        /\ \/ pc'[c] = "endKick" /\ wire'[c] = "GAME_ENDS"
           \/ pc'[c] = "kick" /\ wire' = wire
        /\ UNCHANGED <<state, lastTurn, turnBuffer>> /\ Moves(c)
    BY <1>3, <1>a DEF ReceiveGameEnds, Goto, Send, KickLogged, Moves
  <2>2. state[c] \in {"READY", "THINKING"}
    BY <1>c, <1>d, <2>1 DEF ProtoInv, StartsInv, Started, PhaseOf, Playing
  <2>3. /\ Phase(c) = state[c]
        /\ \/ Phase(c)' = "ENDED" /\ wire'[c] = "GAME_ENDS"
           \/ Phase(c)' = "LEAVING" /\ wire'[c] = wire[c]
    BY <2>1, PhaseIs, PhaseIsPrime
  <2>4. Proto(c)!ProtoStep
    BY <2>1, <2>2, <2>3
    DEF Proto!ProtoStep, Proto!ProtoNext, Proto!GameEnds, Proto!Leave
  <2>5. PhaseOf(c)' /\ Started(c)' /\ Playing(c)
    BY <1>d, <2>1, <2>2 DEF PhaseOf, Started, Playing, Early, AutoPcs, PvPc
  <2> QED BY <1>c, <2>1, <2>4, <2>5, PvMoves
<1>4. CASE ReceiveNewTurn(c)
  <2>1. /\ pc[c] = "loop" /\ newTurn[c] # <<>>
        /\ newTurn'[c] = Tail(newTurn[c])
        /\ \A d \in Client : d # c => newTurn'[d] = newTurn[d]
        /\ UNCHANGED <<gameEnds, snap, todo, turnNumber>>
    BY <1>4, <1>a DEF ReceiveNewTurn
  <2>2. /\ newTurn[c] \in Seq(Int) /\ Head(newTurn[c]) \in Int
        /\ lastTurn[c] \in Int /\ turnBuffer[c] \in Int
        /\ Phase(c) = state[c]
    <3>1. newTurn[c] \in Seq(Int)
      BY <1>a
    <3>2. Head(newTurn[c]) \in Int
      BY <2>1, <3>1
    <3> QED BY <1>a, <2>1, <3>1, <3>2, PhaseIs
  <2>3. CASE state[c] = "READY" /\ SendTurn(c, Head(newTurn[c]), "loop")
             /\ turnBuffer' = turnBuffer
    <3>1. turnBuffer[c] = NoTurn
      BY <1>d, <2>3 DEF PhaseOf
    <3>2. lastTurn'[c] = Head(newTurn[c])
      BY <1>a, <2>3 DEF SendTurn
    <3>3. \A n \in Int : InOrder(c, n) =>
            InOrder(c, n)' /\ lastTurn[c] < Head(newTurn[c])
      BY <2>1, <2>2, <2>3, <3>1, <3>2, OrderPop
    <3>4. lastTurn[c] < Head(newTurn[c])
      BY <1>c, <3>3, NextTurnType DEF ProtoInv
    <3>5. /\ Proto(c)!ProtoStep
          /\ \/ pc'[c] = "loop" /\ state'[c] = "THINKING"
             \/ pc'[c] = "kick" /\ state' = state
          /\ \A d \in Client : d # c =>
               /\ pc'[d] = pc[d] /\ state'[d] = state[d] /\ wire'[d] = wire[d]
               /\ lastTurn'[d] = lastTurn[d]
      BY <1>c, <2>1, <2>2, <2>3, <3>4, TurnSent
    <3>6. PhaseOf(c)' /\ Started(c)' /\ Playing(c)
      BY <1>d, <2>1, <2>3, <3>1, <3>5
      DEF PhaseOf, Started, Playing, Early, AutoPcs, PvPc
    <3>7. \A d \in Client : d # c => SameClient(d)
      BY <2>1, <2>3, <3>5 DEF SameClient
    <3> QED BY <1>c, <2>1, <3>3, <3>5, <3>6, <3>7, PvKeeps
  <2>4. CASE /\ state[c] # "READY"
             /\ turnBuffer' = [turnBuffer EXCEPT ![c] =
                  IF state[c] = "THINKING" THEN Head(newTurn[c]) ELSE @]
             /\ UNCHANGED <<lastTurn, state, wire, pc>>
    <3>1. /\ turnBuffer'[c] = IF state[c] = "THINKING" THEN Head(newTurn[c])
                              ELSE turnBuffer[c]
          /\ \A d \in Client : d # c => turnBuffer'[d] = turnBuffer[d]
      BY <1>a, <2>4
    <3>2. \A n \in Int : InOrder(c, n) => InOrder(c, n)'
      BY <2>1, <2>2, <2>4, <3>1, OrderPop
    <3>3. Phase(c)' = Phase(c)
      BY <2>4, ZenonT(40) DEF Phase
    <3>4. Proto(c)!ProtoStep
      BY <2>4, <3>3 DEF Proto!ProtoStep, Proto!protoVars
    <3>5. /\ PhaseOf(c)' /\ (Started(c) => Started(c)')
          /\ (Playing(c)' => Playing(c))
      BY <1>d, <2>1, <2>4, <3>1
      DEF PhaseOf, Started, Playing, Early, AutoPcs, PvPc
    <3>6. \A d \in Client : d # c => SameClient(d)
      BY <2>1, <2>4, <3>1 DEF SameClient
    <3> QED BY <1>c, <2>1, <3>2, <3>4, <3>5, <3>6, PvKeeps
  <2> QED BY <1>4, <2>3, <2>4 DEF ReceiveNewTurn
<1>5. ASSUME NEW n \in Incoming(c), RefuseMessage(c, n)
      PROVE  ProtoInv' /\ Simulates
  <2>1. /\ pc[c] = "loop" /\ pc'[c] = "kick"
        /\ UNCHANGED <<state, wire, lastTurn, turnBuffer>> /\ Moves(c)
    BY <1>5, <1>a DEF RefuseMessage, KickLogged, Goto, Moves
  <2>2. /\ Phase(c) = state[c] /\ Phase(c)' = "LEAVING"
        /\ state[c] \in {"LOGGED", "READY", "THINKING"}
    BY <1>d, <2>1, PhaseIs, PhaseIsPrime DEF PhaseOf, Playing
  <2>3. Proto(c)!ProtoStep
    BY <2>1, <2>2 DEF Proto!ProtoStep, Proto!ProtoNext, Proto!Leave
  <2>4. PhaseOf(c)' /\ Started(c)' /\ (Playing(c)' => Playing(c))
    BY <1>d, <2>1, <2>2 DEF PhaseOf, Started, Playing, Early, AutoPcs, PvPc
  <2> QED BY <1>c, <2>1, <2>3, <2>4, PvMoves
<1>6. CASE /\ AfterTurnAck(c)
           /\ \/ pc[c] = "forward"
              \/ pc[c] = "loop" /\ state[c] = "THINKING" /\ ~IsPlayer(c)
           /\ UNCHANGED <<newTurn, gameEnds, snap, todo, turnNumber>>
  <2>1. /\ state[c] = "THINKING" /\ Playing(c)
        /\ newTurn[c] \in Seq(Int) /\ lastTurn[c] \in Int
        /\ turnBuffer[c] \in Int
        /\ Phase(c) = "ACKED" \/ Phase(c) = state[c]
    BY <1>6, <1>a, <1>d, PhaseIs DEF PhaseOf, Playing
  <2>2. CASE /\ turnBuffer[c] # NoTurn
             /\ SendTurn(c, turnBuffer[c], "loop")
             /\ turnBuffer' = [turnBuffer EXCEPT ![c] = NoTurn]
    <3>1. /\ lastTurn'[c] = turnBuffer[c] /\ turnBuffer'[c] = NoTurn
          /\ \A d \in Client : d # c => turnBuffer'[d] = turnBuffer[d]
      BY <1>a, <2>2 DEF SendTurn
    <3>2. \A n \in Int : InOrder(c, n) =>
            InOrder(c, n)' /\ lastTurn[c] < turnBuffer[c]
      BY <1>6, <2>1, <2>2, <3>1, OrderFlush
    <3>3. lastTurn[c] < turnBuffer[c]
      BY <1>c, <3>2, NextTurnType DEF ProtoInv
    <3>4. /\ Proto(c)!ProtoStep
          /\ \/ pc'[c] = "loop" /\ state'[c] = "THINKING"
             \/ pc'[c] = "kick" /\ state' = state
          /\ \A d \in Client : d # c =>
               /\ pc'[d] = pc[d] /\ state'[d] = state[d] /\ wire'[d] = wire[d]
               /\ lastTurn'[d] = lastTurn[d]
      BY <1>c, <1>6, <2>1, <2>2, <3>3, TurnSent
    <3>5. PhaseOf(c)' /\ Started(c)'
      BY <2>1, <3>1, <3>4
      DEF PhaseOf, Started, Playing, Early, AutoPcs, PvPc
    <3>6. \A d \in Client : d # c => SameClient(d)
      BY <1>6, <3>1, <3>4 DEF SameClient
    <3> QED BY <1>c, <1>6, <2>1, <3>2, <3>4, <3>5, <3>6, PvKeeps
  <2>3. CASE /\ turnBuffer[c] = NoTurn
             /\ state' = [state EXCEPT ![c] = "READY"]
             /\ Goto(c, "loop")
             /\ UNCHANGED <<turnBuffer, lastTurn, wire>>
    <3>1. /\ pc'[c] = "loop" /\ state'[c] = "READY" /\ turnBuffer'[c] = NoTurn
          /\ Moves(c)
      BY <1>6, <1>a, <2>3 DEF Goto, Moves
    <3>2. /\ Phase(c)' = "READY"
          /\ \/ Phase(c) = "ACKED" /\ IsPlayer(c)
             \/ Phase(c) = "THINKING" /\ ~IsPlayer(c)
      BY <1>6, <1>d, <3>1, PhaseIs, PhaseIsPrime DEF PhaseOf
    <3>3. Proto(c)!ProtoStep
      BY <2>3, <3>2 DEF Proto!ProtoStep, Proto!ProtoNext, Proto!TurnAck
    <3>4. PhaseOf(c)' /\ Started(c)'
      BY <3>1 DEF PhaseOf, Started, Playing, Early, AutoPcs, PvPc
    <3> QED BY <1>c, <2>1, <3>1, <3>3, <3>4, PvMoves
  <2> QED BY <1>6, <2>2, <2>3 DEF AfterTurnAck
<1>7. ASSUME NEW n \in Incoming(c), ReceiveTurnAck(c, n)
      PROVE  ProtoInv' /\ Simulates
  <2>1. /\ pc[c] = "loop" /\ state[c] = "THINKING"
        /\ UNCHANGED <<newTurn, gameEnds, snap, todo, turnNumber>>
    BY <1>7 DEF ReceiveTurnAck, AcceptsTurnAck
  <2>2. CASE IsPlayer(c) /\ Goto(c, "forward")
             /\ UNCHANGED <<state, wire, lastTurn, turnBuffer>>
    <3>1. pc'[c] = "forward" /\ Moves(c)
      BY <1>a, <2>1, <2>2 DEF Goto, Moves
    <3>2. Phase(c) = "THINKING" /\ Phase(c)' = "ACKED"
      BY <2>1, <3>1, PhaseIs, PhaseIsPrime
    <3>3. Proto(c)!ProtoStep
      BY <2>2, <3>2 DEF Proto!ProtoStep, Proto!ProtoNext, Proto!TurnAck
    <3>4. PhaseOf(c)' /\ Started(c)' /\ Playing(c)
      BY <2>1, <2>2, <3>1 DEF PhaseOf, Started, Playing, Early, AutoPcs, PvPc
    <3> QED BY <1>c, <3>1, <3>3, <3>4, PvMoves
  <2>3. CASE ~IsPlayer(c) /\ AfterTurnAck(c)
    BY <1>6, <2>1, <2>3
  <2> QED BY <1>7, <2>2, <2>3 DEF ReceiveTurnAck
<1>8. CASE ForwardActions(c)
  BY <1>6, <1>8 DEF ForwardActions
<1> QED BY <1>1, <1>2, <1>3, <1>4, <1>5, <1>7, <1>8 DEF PvInput, PvStep

\* The steps of a game logic's handler that only move it.
LEMMA GLMovesProto ==
  ASSUME VarsTypeOK, ProtoInv, NEW g \in GLs,
         \/ GLStart(g) \/ GLTerminate(g) \/ GLClose(g) \/ GLEarlyMessage(g)
         \/ GLEarlyKick(g) \/ GLAssignIDs(g) \/ GLSendDoInit(g)
         \/ GLRefuseMessage(g) \/ GLStartsSent(g) \/ GLFirstDoTurn(g)
         \/ GLTurnForwarded(g) \/ GLFastDoTurn(g)
  PROVE  ProtoInv' /\ Simulates
<1>a. /\ g \in Client /\ pc \in [Client -> Pc]
      /\ state \in [Client -> ClientState] /\ wire \in [Client -> Message]
  BY DEF VarsTypeOK, ConnTypeOK, GLs
<1>b. Moves(g)
  BY <1>a DEF Moves, GLStart, GLTerminate, GLClose, GLEarlyMessage,
     GLEarlyKick, GLAssignIDs, GLSendDoInit, GLRefuseMessage, GLStartsSent,
     GLFirstDoTurn, GLTurnForwarded, GLFastDoTurn, GLLeaves, Goto, Send, Kick
<1>c. StartsAt(pc[g])
  BY DEF ProtoInv, StartsInv
<1>1. CASE \/ GLTerminate(g) \/ GLClose(g) \/ GLEarlyKick(g)
           \/ GLRefuseMessage(g) \/ (GLSendDoInit(g) /\ GLLeaves(g))
  <2>1. pc'[g] \in {"fin", "closing", "done"}
    BY <1>1, <1>a DEF GLTerminate, GLClose, GLEarlyKick, GLRefuseMessage,
       GLSendDoInit, GLLeaves, Goto
  <2> QED BY <1>b, <2>1, StartsNowhere, GLMoves
<1>2. CASE GLStart(g) \/ GLEarlyMessage(g)
  <2>1. pc[g] = "waitStart" /\ pc'[g] \in {"copy", "earlyKick"}
    BY <1>2, <1>a DEF GLStart, GLEarlyMessage, Goto
  <2>2. \A c \in Pvs : ~Playing(c)
    BY <1>c, <2>1 DEF StartsAt, BeforeStarts
  <2> QED BY <1>b, <2>1, <2>2, StartsLater, GLMoves
<1>3. CASE GLAssignIDs(g) \/ (GLSendDoInit(g) /\ Goto(g, "initAck"))
  <2>1. pc[g] \in {"assign", "infos"} /\ pc'[g] \in {"infos", "initAck"}
    BY <1>3, <1>a DEF GLAssignIDs, GLSendDoInit, Goto
  <2>2. StartsAt(pc'[g])
    BY <1>c, <2>1 DEF StartsAt, BeforeStarts, PlayPc, TurnsPc
  <2> QED BY <1>b, <2>1, <2>2, GLMoves
<1>4. CASE \/ GLStartsSent(g) \/ GLFirstDoTurn(g) \/ GLTurnForwarded(g)
           \/ GLFastDoTurn(g)
  <2>1. /\ pc[g] \in {"starts", "firstTurn", "turns", "collect"}
        /\ pc[g] = "starts" => todo = <<>>
        /\ pc'[g] \in {"firstTurn", "ack", "collect", "timers"}
    BY <1>4, <1>a
    DEF GLStartsSent, GLFirstDoTurn, GLTurnForwarded, GLFastDoTurn, Goto
  <2>2. \A c \in Elems(Recipients) : Started(c)
    <3>1. pc[g] = "starts" => Elems(todo) = {}
      BY <2>1 DEF Elems
    <3> QED BY <1>c, <2>1, <3>1 DEF StartsAt, TurnsPc
  <2>3. snap.taken
    BY <1>c, <2>1 DEF StartsAt, PlayPc
  <2>4. StartsAt(pc'[g])
    BY <2>1, <2>2, <2>3 DEF StartsAt, BeforeStarts, AutoPcs
  <2> QED BY <1>b, <2>1, <2>4, GLMoves
<1>5. GLSendDoInit(g) => Goto(g, "initAck") \/ GLLeaves(g)
  BY DEF GLSendDoInit
<1> QED BY <1>1, <1>2, <1>3, <1>4, <1>5, ZenonT(40)

\* The steps of a game logic's handler that leave its place and the clients
\* alone, and its timers.
LEMMA GLQuietProto ==
  ASSUME VarsTypeOK, SessionInv, ProtoInv, NEW g \in Client,
         \/ GLFastAction(g) \/ GLFastDisconnection(g) \/ GLTimersAction(g)
         \/ GLTimersPanics(g) \/ GLDrain(g) \/ TimerSend(g)
  PROVE  ProtoInv' /\ Simulates
<1>1. CASE \/ GLFastAction(g) \/ GLFastDisconnection(g) \/ GLTimersAction(g)
           \/ GLTimersPanics(g) \/ GLDrain(g)
  <2>1. UNCHANGED <<pc, state, wire, snap, todo, turnNumber, lastTurn,
                    turnBuffer, newTurn, gameEnds>>
    BY <1>1 DEF GLFastAction, GLFastDisconnection, GLTimersAction,
       GLTimersPanics, GLDrain
  <2> QED BY <2>1, ProtoQuiet
<1>2. CASE TimerSend(g)
  <2>1. UNCHANGED <<pc, state, snap, todo, turnNumber, lastTurn, turnBuffer,
                    newTurn, gameEnds>>
    BY <1>2 DEF TimerSend
  <2>2. g \notin Pvs
    BY <1>2 DEF TimerSend, SessionInv, RosterInv, AllRole, Pvs
  <2>3. \A c \in Pvs : wire'[c] = wire[c]
    BY <1>2, <2>2 DEF TimerSend, VarsTypeOK, ConnTypeOK, Pvs
  <2> QED BY <2>1, <2>3, ProtoQuiet
<1> QED BY <1>1, <1>2

\* The lists that are copied hold players and visualizations, once.
LEMMA CopiedLists ==
  ASSUME VarsTypeOK, SessionInv, NEW g \in GLs, GLCopyLists(g)
  PROVE  NoDuplicates(Recipients)' /\ Elems(Recipients)' \subseteq Pvs
<1> DEFINE p == roster["player"]
           s == roster["special player"]
           v == roster["visualization"]
<1>1. p \in Seq(Client) /\ s \in Seq(Client) /\ v \in Seq(Client)
  BY DEF VarsTypeOK, GsTypeOK, AllRole, PvRole
<1>2. /\ NoDuplicates(p) /\ NoDuplicates(s) /\ NoDuplicates(v)
      /\ \A c \in Elems(p) : Role[c] = "player"
      /\ \A c \in Elems(s) : Role[c] = "special player"
      /\ \A c \in Elems(v) : Role[c] = "visualization"
  BY DEF SessionInv, RosterInv, AllRole, PvRole
<1>3. Recipients' = (p \o s) \o v
  BY DEF GLCopyLists, Recipients, AllPlayers
<1> HIDE DEF p, s, v
<1>4. Elems(p) \subseteq Client /\ Elems(s) \subseteq Client
      /\ Elems(v) \subseteq Client
  BY <1>1 DEF Elems
<1>5. Elems(p) \cap Elems(s) = {}
  BY <1>2
<1>6. /\ p \o s \in Seq(Client) /\ NoDuplicates(p \o s)
      /\ Elems(p \o s) = Elems(p) \cup Elems(s)
  <2>1. p \o s \in Seq(Client)
    BY <1>1
  <2>2. NoDuplicates(p \o s)
    BY <1>1, <1>2, <1>5, ConcatDistinct, Zenon
  <2>3. Elems(p \o s) = Elems(p) \cup Elems(s)
    BY <1>1, ClientsConcat, Zenon
  <2> QED BY <2>1, <2>2, <2>3
<1>7. Elems(p \o s) \cap Elems(v) = {}
  BY <1>2, <1>6
<1>8. /\ NoDuplicates((p \o s) \o v)
      /\ Elems((p \o s) \o v) = Elems(p) \cup Elems(s) \cup Elems(v)
  <2>1. PICK q \in Seq(Client) : q = p \o s
    BY <1>6
  <2>2. NoDuplicates(q) /\ Elems(q) \cap Elems(v) = {}
    BY <1>6, <1>7, <2>1
  <2>3. NoDuplicates(q \o v)
    BY <1>1, <1>2, <2>2, ConcatDistinct, Zenon
  <2>4. Elems(q \o v) = Elems(q) \cup Elems(v)
    BY <1>1, ClientsConcat, Zenon
  <2> QED BY <1>6, <2>1, <2>3, <2>4
<1>9. Elems((p \o s) \o v) \subseteq Pvs
  BY <1>2, <1>4, <1>8 DEF Pvs
<1>10. /\ NoDuplicates(Recipients)' = NoDuplicates((p \o s) \o v)
       /\ Elems(Recipients)' = Elems((p \o s) \o v)
  BY <1>3 DEF NoDuplicates, Elems
<1> QED BY <1>8, <1>9, <1>10

\* Steps of the game logic's handler that change what the game is about, and
\* no handler of a client.
LEMMA GLGameStep ==
  ASSUME VarsTypeOK, SessionInv, ProtoInv, NEW g \in GLs, InSession(g),
         \A c \in Client : c # g =>
           pc'[c] = pc[c] /\ state'[c] = state[c] /\ wire'[c] = wire[c],
         UNCHANGED <<lastTurn, turnBuffer, newTurn>>,
         \/ UNCHANGED snap
         \/ /\ snap'.taken /\ NoDuplicates(Recipients)'
            /\ Elems(Recipients)' \subseteq Pvs,
         \A c \in Pvs : gameEnds'[c] => gameEnds[c] \/ Started(c),
         pc[g] # "turns", turnNumber' \in Int,
         IF pc'[g] = "turns" THEN turnNumber' = turnNumber + 1
                             ELSE turnNumber' >= turnNumber,
         StartsAt(pc[g])'
  PROVE  ProtoInv' /\ Simulates
<1>1. ASSUME NEW c \in Pvs
      PROVE  /\ pc'[c] = pc[c] /\ state'[c] = state[c] /\ wire'[c] = wire[c]
             /\ Started(c)' = Started(c) /\ Playing(c)' = Playing(c)
             /\ PhaseOf(c)' /\ Proto(c)!ProtoStep
  <2>1. c \in Client /\ c # g
    BY DEF Pvs, GLs
  <2>2. pc'[c] = pc[c] /\ state'[c] = state[c] /\ wire'[c] = wire[c]
    BY <2>1
  <2>3. Started(c)' = Started(c) /\ Playing(c)' = Playing(c)
    BY <2>2 DEF Started, Playing
  <2>4. PhaseOf(c)
    BY DEF ProtoInv
  <2>5. PhaseOf(c)'
    BY <2>2, <2>3, <2>4 DEF PhaseOf
  <2>6. Phase(c)' = Phase(c)
    BY <2>2, ZenonT(40) DEF Phase
  <2>7. Proto(c)!ProtoStep
    BY <2>2, <2>6 DEF Proto!ProtoStep, Proto!protoVars
  <2> QED BY <2>2, <2>3, <2>5, <2>7
<1>2. \A h \in GLs : h # g => pc'[h] = pc[h]
  BY DEF GLs
<1>3. ASSUME NEW c \in Pvs
      PROVE  InOrder(c, NextTurn(c))'
  <2>1. NextTurn(c) = turnNumber
    BY <1>2, OnlySessionMoves DEF NextTurn
  <2>2. turnNumber \in Int
    BY SMTT(40) DEF VarsTypeOK, GlTypeOK
  <2>3. NextTurn(c)' \in Int /\ turnNumber <= NextTurn(c)'
    <3>1. Forwarding(c)' => pc'[g] = "turns"
      BY <1>2, OnlySessionMoves
    <3>2. CASE Forwarding(c)'
      <4>1. NextTurn(c)' = turnNumber' - 1
        BY <3>2, ZenonT(40) DEF NextTurn
      <4>2. turnNumber' = turnNumber + 1
        BY <3>1, <3>2
      <4> QED BY <2>2, <4>1, <4>2
    <3>3. CASE ~Forwarding(c)'
      <4>1. NextTurn(c)' = turnNumber'
        BY <3>3, ZenonT(40) DEF NextTurn
      <4> QED BY <2>2, <4>1
    <3> QED BY <3>2, <3>3
  <2>4. InOrder(c, turnNumber)
    BY <2>1 DEF ProtoInv
  <2>5. PICK m \in Int : m = NextTurn(c)'
    BY <2>3
  <2>6. /\ lastTurn[c] \in Int /\ turnBuffer[c] \in Int
        /\ newTurn[c] \in Seq(Int)
    BY DEF VarsTypeOK, PvTypeOK, Pvs
  <2>7. InOrder(c, m)
    BY <2>2, <2>3, <2>4, <2>5, <2>6, OrderLater
  <2> QED BY <2>5, <2>7 DEF InOrder
<1>4. snap'.taken => NoDuplicates(Recipients)' /\ Elems(Recipients)' \subseteq Pvs
  <2>1. CASE UNCHANGED snap
    <3>1. UNCHANGED Recipients
      BY <2>1 DEF Recipients, AllPlayers
    <3> QED BY <2>1, <3>1 DEF ProtoInv, StartsInv, NoDuplicates, Elems
  <2> QED BY <2>1
<1>5. ASSUME NEW c \in Pvs
      PROVE  (Playing(c)' => snap'.taken) /\ (gameEnds'[c] => Started(c)')
  BY <1>1 DEF ProtoInv, StartsInv
<1>6. \A h \in GLs : StartsAt(pc[h])'
  BY <1>2, OnlySessionMoves
<1>7. StartsInv'
  BY <1>4, <1>5, <1>6 DEF StartsInv
<1> QED BY <1>1, <1>3, <1>7 DEF ProtoInv, Simulates

\* The lists are copied.
LEMMA CopyProto ==
  ASSUME VarsTypeOK, SessionInv, ProtoInv, NEW g \in GLs, GLCopyLists(g)
  PROVE  ProtoInv' /\ Simulates
<1>1. /\ pc[g] = "copy" /\ pc'[g] = "assign" /\ snap'.taken
      /\ \A c \in Client : c # g =>
           pc'[c] = pc[c] /\ state'[c] = state[c] /\ wire'[c] = wire[c]
      /\ UNCHANGED <<lastTurn, turnBuffer, newTurn, gameEnds, turnNumber,
                     state>>
  BY DEF GLCopyLists, Goto, VarsTypeOK, ConnTypeOK, GLs
<1>2. StartsAt(pc[g])
  BY DEF ProtoInv, StartsInv
<1>3. \A c \in Pvs : ~Playing(c)
  BY <1>1, <1>2 DEF StartsAt, BeforeStarts
<1>4. StartsAt(pc[g])'
  BY <1>1, <1>3 DEF StartsAt, TurnsPc, Playing
<1>5. InSession(g) /\ turnNumber \in Int
  BY <1>1, SMTT(40) DEF InSession, VarsTypeOK, GlTypeOK
<1>6. turnNumber >= turnNumber
  BY <1>5
<1> QED BY <1>1, <1>4, <1>5, <1>6, CopiedLists, GLGameStep

\* The answers of the game logic: GAME_STARTS, TURN or GAME_ENDS will follow.
LEMMA GLAnswerProto ==
  ASSUME VarsTypeOK, SessionInv, ProtoInv, NEW g \in GLs, GLAnswer(g)
  PROVE  ProtoInv' /\ Simulates
<1>a. /\ g \in Client /\ pc \in [Client -> Pc]
      /\ state \in [Client -> ClientState] /\ wire \in [Client -> Message]
      /\ turnNumber \in Int
  <2>1. turnNumber \in Int
    BY SMTT(40) DEF VarsTypeOK, GlTypeOK
  <2> QED BY <2>1 DEF VarsTypeOK, ConnTypeOK, GLs
<1>b. StartsAt(pc[g])
  BY DEF ProtoInv, StartsInv
<1>1. /\ pc[g] \in {"initAck", "ack", "timers"}
      /\ \A c \in Client : c # g =>
           pc'[c] = pc[c] /\ state'[c] = state[c] /\ wire'[c] = wire[c]
      /\ UNCHANGED <<lastTurn, turnBuffer, newTurn, snap>>
  BY <1>a DEF GLAnswer, GLDoInitAck, GLGameFinished, GLDoTurnAck, GLLeaves,
     Goto, Kick
<1>2. /\ InSession(g) /\ pc[g] # "turns" /\ snap.taken /\ UNCHANGED Recipients
      /\ NoDuplicates(Recipients) /\ Elems(Recipients) \subseteq Pvs
  BY <1>b, <1>1 DEF InSession, StartsAt, PlayPc, ProtoInv, StartsInv,
     Recipients, AllPlayers
<1>3. ASSUME NEW c \in Pvs
      PROVE  Started(c)' = Started(c) /\ Playing(c)' = Playing(c)
  BY <1>1 DEF Started, Playing, Pvs, GLs
<1>4. CASE GLDoInitAck(g)
  <2>1. /\ pc[g] = "initAck" /\ pc'[g] = "starts" /\ todo' = Recipients
        /\ UNCHANGED <<turnNumber, gameEnds>>
    BY <1>a, <1>4 DEF GLDoInitAck, Goto
  <2>2. \A c \in Pvs : ~Playing(c)'
    BY <1>b, <1>3, <2>1 DEF StartsAt, BeforeStarts
  <2>3. NoDuplicates(todo)' /\ Elems(todo)' = Elems(Recipients)
        /\ Elems(Recipients)' = Elems(Recipients)
    BY <1>2, <2>1 DEF NoDuplicates, Elems
  <2>4. StartsAt(pc[g])'
    BY <1>1, <1>2, <2>1, <2>2, <2>3 DEF StartsAt, BeforeStarts, AutoPcs, TurnsPc
  <2>5. turnNumber >= turnNumber
    BY <1>a, SMTT(40)
  <2> QED BY <1>a, <1>1, <1>2, <2>1, <2>4, <2>5, GLGameStep
<1>5. CASE GLGameFinished(g)
  <2>1. /\ pc[g] \in {"ack", "timers"} /\ pc'[g] = "fin"
        /\ turnNumber' = turnNumber + 1
        /\ \A c \in Client : gameEnds'[c] =>
             gameEnds[c] \/ c \in Elems(Recipients)
    BY <1>a, <1>5 DEF GLGameFinished, GLLeaves, Goto
  <2>2. \A c \in Pvs : gameEnds'[c] => gameEnds[c] \/ Started(c)
    BY <1>b, <2>1 DEF StartsAt, TurnsPc, Pvs
  <2>3. StartsAt(pc[g])'
    BY <2>1, StartsNowherePrime DEF StartsAt, BeforeStarts, AutoPcs, PlayPc,
       TurnsPc
  <2>4. turnNumber' \in Int /\ turnNumber' >= turnNumber
    BY <1>a, <2>1
  <2> QED BY <1>1, <1>2, <2>1, <2>2, <2>3, <2>4, GLGameStep
<1>6. CASE GLDoTurnAck(g)
  <2>1. /\ pc[g] \in {"ack", "timers"} /\ pc'[g] = "turns"
        /\ turnNumber' = turnNumber + 1 /\ todo' = Recipients
        /\ UNCHANGED gameEnds
    BY <1>a, <1>6 DEF GLDoTurnAck, Goto
  <2>2. \A c \in Elems(Recipients) : Started(c)'
    BY <1>b, <1>2, <1>3, <2>1 DEF StartsAt, TurnsPc
  <2>3. NoDuplicates(todo)' /\ Elems(todo)' = Elems(Recipients)
        /\ Elems(Recipients)' = Elems(Recipients)
    BY <1>2, <2>1 DEF NoDuplicates, Elems
  <2>4. StartsAt(pc[g])'
    BY <1>1, <1>2, <2>1, <2>2, <2>3 DEF StartsAt, BeforeStarts, AutoPcs
  <2>5. turnNumber' \in Int
    BY <1>a, <2>1, SMTT(40)
  <2> QED BY <1>1, <1>2, <2>1, <2>4, <2>5, GLGameStep
<1> QED BY <1>4, <1>5, <1>6 DEF GLAnswer

\* GAME_STARTS is handed to the next client.
LEMMA GameStartsProto ==
  ASSUME VarsTypeOK, SessionInv, ProtoInv, NEW g \in GLs, GLSendGameStarts(g)
  PROVE  ProtoInv' /\ Simulates
<1>a. /\ pc \in [Client -> Pc] /\ state \in [Client -> ClientState]
      /\ wire \in [Client -> Message] /\ todo \in Seq(Client)
  BY DEF VarsTypeOK, ConnTypeOK, GlTypeOK
<1>1. /\ pc[g] = "starts" /\ todo # <<>> /\ todo' = Tail(todo)
      /\ UNCHANGED <<snap, turnNumber, lastTurn, turnBuffer, newTurn, gameEnds>>
  BY DEF GLSendGameStarts
<1>2. /\ StartsAt(pc[g]) /\ snap.taken /\ UNCHANGED Recipients
      /\ NoDuplicates(Recipients) /\ Elems(Recipients) \subseteq Pvs
  BY <1>1 DEF StartsAt, PlayPc, ProtoInv, StartsInv, Recipients, AllPlayers
<1>3. /\ NoDuplicates(todo) /\ Elems(todo) \subseteq Elems(Recipients)
      /\ \A c \in Elems(Recipients) :
           IF c \in Elems(todo) THEN ~Playing(c) ELSE Started(c)
  BY <1>1, <1>2 DEF StartsAt
<1>h. PICK h : h = Head(todo)
  OBVIOUS
<1>4. /\ h \in Elems(todo) /\ NoDuplicates(Tail(todo))
      /\ Elems(Tail(todo)) = Elems(todo) \ {h}
  BY <1>a, <1>h, <1>1, <1>3, TailList
<1>5. h \in Pvs /\ h \in Client /\ h # g /\ PhaseOf(h) /\ ~Playing(h)
  BY <1>2, <1>3, <1>4 DEF Pvs, GLs, ProtoInv
<1>6. /\ pc[h] = "loop"
      /\ \/ wire'[h] = "GAME_STARTS" /\ state'[h] = "READY" /\ pc'[h] = "copyGL"
         \/ pc'[h] = "kick" /\ UNCHANGED <<state, wire>>
      /\ \A c \in Client : c # h =>
           pc'[c] = pc[c] /\ state'[c] = state[c] /\ wire'[c] = wire[c]
  BY <1>a, <1>h, <1>5
  DEF GLSendGameStarts, ReceiveGameStarts, Send, Goto, KickLogged
<1>7. state[h] = "LOGGED" /\ turnBuffer[h] = NoTurn /\ Phase(h) = "LOGGED"
  BY <1>5, <1>6, PhaseIs DEF PhaseOf
<1>8. /\ \/ Phase(h)' = "READY" /\ wire'[h] = "GAME_STARTS"
         \/ Phase(h)' = "LEAVING" /\ wire'[h] = wire[h]
      /\ lastTurn'[h] = lastTurn[h]
  BY <1>1, <1>6, PhaseIsPrime
<1>9. Proto(h)!ProtoStep
  BY <1>7, <1>8
  DEF Proto!ProtoStep, Proto!ProtoNext, Proto!GameStarts, Proto!Leave
<1>10. PhaseOf(h)' /\ Started(h)'
  BY <1>1, <1>6, <1>7 DEF PhaseOf, Started, Playing, Early, AutoPcs, PvPc
<1>11. ASSUME NEW c \in Pvs, c # h
       PROVE  /\ Proto(c)!ProtoStep /\ PhaseOf(c)'
              /\ Started(c)' = Started(c) /\ Playing(c)' = Playing(c)
  <2>1. SameClient(c) /\ PhaseOf(c)
    BY <1>1, <1>6, <1>11 DEF SameClient, Pvs, ProtoInv
  <2> QED BY <2>1, SameStep
<1>12. Simulates
  BY <1>9, <1>11 DEF Simulates
<1>13. /\ InSession(g) /\ pc'[g] = "starts"
       /\ \A k \in GLs : k # g => pc'[k] = pc[k]
  BY <1>1, <1>5, <1>6 DEF InSession, GLs, Pvs
<1>14. ASSUME NEW c \in Pvs
       PROVE  InOrder(c, NextTurn(c))'
  <2>1. ~Forwarding(c) /\ ~Forwarding(c)'
    BY <1>1, <1>13, OnlySessionMoves
  <2>2. NextTurn(c) = turnNumber /\ NextTurn(c)' = turnNumber
    BY <1>1, <2>1, ZenonT(40) DEF NextTurn
  <2>3. InOrder(c, turnNumber)
    BY <2>2 DEF ProtoInv
  <2> QED BY <1>1, <2>2, <2>3 DEF InOrder
<1>15. Elems(todo)' = Elems(todo) \ {h} /\ NoDuplicates(todo)'
  BY <1>1, <1>4 DEF Elems, NoDuplicates
<1>16. Elems(Recipients)' = Elems(Recipients) /\ NoDuplicates(Recipients)'
  BY <1>2 DEF Elems, NoDuplicates
<1>17. ASSUME NEW c \in Elems(Recipients)
       PROVE  IF c \in Elems(todo)' THEN ~Playing(c)' ELSE Started(c)'
  <2>1. CASE c = h
    BY <1>10, <1>15, <2>1
  <2>2. CASE c # h
    BY <1>2, <1>3, <1>11, <1>15, <2>2
  <2> QED BY <2>1, <2>2
<1>18. StartsAt(pc[g])'
  BY <1>1, <1>2, <1>3, <1>13, <1>15, <1>16, <1>17
  DEF StartsAt, BeforeStarts, AutoPcs, TurnsPc
<1>19. \A k \in GLs : StartsAt(pc[k])'
  BY <1>13, <1>18, OnlySessionMoves
<1>20. ASSUME NEW c \in Pvs
       PROVE  (Playing(c)' => snap'.taken) /\ (gameEnds'[c] => Started(c)')
  BY <1>1, <1>2, <1>10, <1>11 DEF ProtoInv, StartsInv
<1>21. StartsInv'
  BY <1>1, <1>2, <1>16, <1>19, <1>20 DEF StartsInv
<1> QED BY <1>10, <1>11, <1>12, <1>14, <1>21 DEF ProtoInv

\* A turn is put in the newTurn channel of the next client.
LEMMA ForwardProto ==
  ASSUME VarsTypeOK, SessionInv, ProtoInv, NEW g \in GLs, GLForwardTurn(g)
  PROVE  ProtoInv' /\ Simulates
<1> DEFINE h == Head(todo)
<1>a. /\ lastTurn \in [Client -> Int] /\ turnBuffer \in [Client -> Int]
      /\ newTurn \in [Client -> Seq(Int)] /\ todo \in Seq(Client)
      /\ turnNumber \in Int
  BY SMTT(40) DEF VarsTypeOK, PvTypeOK, GlTypeOK
<1>1. /\ pc[g] = "turns" /\ todo # <<>> /\ todo' = Tail(todo)
      /\ newTurn' = [newTurn EXCEPT ![h] = Append(@, turnNumber - 1)]
      /\ UNCHANGED <<pc, state, wire, snap, turnNumber, lastTurn, turnBuffer,
                     gameEnds>>
  BY DEF GLForwardTurn
<1>2. /\ StartsAt(pc[g]) /\ UNCHANGED Recipients
      /\ snap.taken => /\ NoDuplicates(Recipients)
                       /\ Elems(Recipients) \subseteq Pvs
  BY <1>1 DEF ProtoInv, StartsInv, Recipients, AllPlayers
<1>3. /\ NoDuplicates(todo) /\ Elems(todo) \subseteq Elems(Recipients)
      /\ snap.taken /\ \A c \in Elems(Recipients) : Started(c)
  BY <1>1, <1>2 DEF StartsAt, TurnsPc, PlayPc
<1>4. /\ h \in Elems(todo) /\ NoDuplicates(Tail(todo))
      /\ Elems(Tail(todo)) = Elems(todo) \ {h}
  BY <1>a, <1>1, <1>3, TailList
<1>5. h \in Pvs /\ h \in Client
  BY <1>2, <1>3, <1>4 DEF Pvs
<1> HIDE DEF h
<1>6. /\ newTurn'[h] = Append(newTurn[h], turnNumber - 1)
      /\ \A c \in Client : c # h => newTurn'[c] = newTurn[c]
  BY <1>a, <1>1, <1>5
<1>7. ASSUME NEW c \in Pvs
      PROVE  /\ Proto(c)!ProtoStep /\ PhaseOf(c)'
             /\ Started(c)' = Started(c) /\ Playing(c)' = Playing(c)
  <2>1. Phase(c)' = Phase(c)
    BY <1>1, ZenonT(40) DEF Phase
  <2>2. Proto(c)!ProtoStep
    BY <1>1, <2>1 DEF Proto!ProtoStep, Proto!protoVars
  <2>3. PhaseOf(c)
    BY DEF ProtoInv
  <2> QED BY <1>1, <2>2, <2>3 DEF PhaseOf, Started, Playing
<1>8. InSession(g) /\ pc'[g] = "turns" /\ \A k \in GLs : k # g => pc'[k] = pc[k]
  BY <1>1 DEF InSession
<1>9. Elems(todo)' = Elems(todo) \ {h} /\ NoDuplicates(todo)'
  BY <1>1, <1>4 DEF Elems, NoDuplicates
<1>10. Elems(Recipients)' = Elems(Recipients) /\ NoDuplicates(Recipients)'
  BY <1>2, <1>3 DEF Elems, NoDuplicates
<1>11. ASSUME NEW c \in Pvs
       PROVE  InOrder(c, NextTurn(c))'
  <2>a. /\ lastTurn[c] \in Int /\ turnBuffer[c] \in Int
        /\ newTurn[c] \in Seq(Int)
    BY <1>a DEF Pvs
  <2>1. CASE c = h
    <3>1. Forwarding(c) /\ ~Forwarding(c)'
      BY <1>1, <1>4, <1>8, <1>9, <2>1, OnlySessionMoves
    <3>2. NextTurn(c) = turnNumber - 1 /\ NextTurn(c)' = turnNumber
      BY <1>1, <3>1, ZenonT(40) DEF NextTurn
    <3>3. PICK n \in Int : n = turnNumber - 1 /\ n + 1 = turnNumber
      BY <1>a
    <3>4. InOrder(c, n)
      BY <3>2, <3>3 DEF ProtoInv
    <3>5. InOrder(c, n + 1)'
      BY <1>1, <1>6, <2>a, <2>1, <3>3, <3>4, OrderPush
    <3> QED BY <3>2, <3>3, <3>5 DEF InOrder
  <2>2. CASE c # h
    <3>1. Forwarding(c)' <=> Forwarding(c)
      BY <1>1, <1>8, <1>9, <2>2, OnlySessionMoves
    <3>2. NextTurn(c)' = NextTurn(c)
      BY <1>1, <3>1, ZenonT(40) DEF NextTurn
    <3>3. PICK n : n = NextTurn(c)
      OBVIOUS
    <3>4. InOrder(c, n) /\ n = NextTurn(c)'
      BY <3>2, <3>3 DEF ProtoInv
    <3>5. newTurn'[c] = newTurn[c]
      BY <1>6, <2>2 DEF Pvs
    <3> QED BY <1>1, <3>4, <3>5 DEF InOrder
  <2> QED BY <2>1, <2>2
<1>12. StartsAt(pc[g])'
  BY <1>1, <1>2, <1>3, <1>7, <1>8, <1>9, <1>10
  DEF StartsAt, BeforeStarts, AutoPcs
<1>13. \A k \in GLs : StartsAt(pc[k])'
  BY <1>8, <1>12, OnlySessionMoves
<1>14. StartsInv'
  BY <1>1, <1>2, <1>3, <1>7, <1>10, <1>13 DEF ProtoInv, StartsInv
<1> QED BY <1>7, <1>11, <1>14 DEF ProtoInv, Simulates

\* The handler of the game logic and its timers.
LEMMA GLProto ==
  ASSUME VarsTypeOK, SessionInv, ProtoInv, NEW g \in Client,
         GLInput(g) \/ GLAnswer(g) \/ GLStep(g) \/ TimerSend(g)
  PROVE  ProtoInv' /\ Simulates
<1>1. CASE \/ GLFastAction(g) \/ GLFastDisconnection(g) \/ GLTimersAction(g)
           \/ GLTimersPanics(g) \/ GLDrain(g) \/ TimerSend(g)
  BY <1>1, GLQuietProto
<1>2. ASSUME pc[g] \in GlPc
      PROVE  g \in GLs
  <2>1. g \in Pvs => pc[g] \notin GlPc
    BY DEF ProtoInv, PhaseOf, Early, AutoPcs, PvPc, GlPc
  <2> QED BY <1>2, <2>1 DEF Pvs, GLs
<1>3. CASE \/ GLStart(g) \/ GLTerminate(g) \/ GLClose(g) \/ GLEarlyMessage(g)
           \/ GLEarlyKick(g) \/ GLAssignIDs(g) \/ GLSendDoInit(g)
           \/ GLRefuseMessage(g) \/ GLStartsSent(g) \/ GLFirstDoTurn(g)
           \/ GLTurnForwarded(g) \/ GLFastDoTurn(g)
  <2>1. GLTerminate(g) \/ pc[g] \in GlPc
    BY <1>3 DEF GLStart, GLClose, GLEarlyMessage, GLEarlyKick, GLAssignIDs,
       GLSendDoInit, GLRefuseMessage, GLStartsSent, GLFirstDoTurn,
       GLTurnForwarded, GLFastDoTurn, GlPc
  <2>2. g \in GLs
    BY <1>2, <2>1 DEF GLTerminate
  <2> QED BY <1>3, <2>2, GLMovesProto
<1>4. CASE \/ GLAnswer(g) \/ GLCopyLists(g) \/ GLSendGameStarts(g)
           \/ GLForwardTurn(g)
  <2>1. pc[g] \in GlPc
    BY <1>4 DEF GLAnswer, GLDoInitAck, GLGameFinished, GLDoTurnAck,
       GLCopyLists, GLSendGameStarts, GLForwardTurn, GlPc
  <2> QED BY <1>2, <1>4, <2>1, GLAnswerProto, CopyProto, GameStartsProto,
             ForwardProto
<1> QED BY <1>1, <1>3, <1>4 DEF GLInput, GLStep

\* The main, server and prompt goroutines.
LEMMA MainProto ==
  ASSUME ProtoInv,
         Signal \/ PromptStep \/ MainStep \/ ServerStop \/ PromptStarted
           \/ StartupStep \/ TimerReset
  PROVE  ProtoInv' /\ Simulates
<1>1. UNCHANGED <<pc, state, wire, snap, todo, turnNumber, lastTurn,
                  turnBuffer, newTurn, gameEnds>>
  BY DEF Signal, PromptStep, PromptStart, PromptQuit, PromptSetLimit,
         PromptSetTurns, MainStep, MainExit, Cleanup, CleanupPanics, MainSelect,
         ServerStop, PromptStarted, StartupStep, ServerListen, PromptRun,
         TimerReset
<1> QED BY <1>1, ProtoQuiet

-----------------------------------------------------------------------------
(* Together.                                                               *)

\* Nobody is connected at first, and nothing was sent.
LEMMA InitProto == Init => ProtoInv /\ \A c \in Pvs : Proto(c)!ProtoInit
<1> SUFFICES ASSUME Init
             PROVE  ProtoInv /\ \A c \in Pvs : Proto(c)!ProtoInit
  OBVIOUS
<1>1. ASSUME NEW c \in Client
      PROVE  /\ pc[c] = "none" /\ state[c] = "UNLOGGED" /\ wire[c] = "none"
             /\ lastTurn[c] = -1 /\ turnBuffer[c] = NoTurn
             /\ newTurn[c] = <<>> /\ ~gameEnds[c]
  BY DEF Init
<1>2. ~snap.taken /\ turnNumber = 0
  BY DEF Init, NoSnap
<1>3. ASSUME NEW c \in Pvs
      PROVE  /\ PhaseOf(c) /\ ~Playing(c) /\ ~gameEnds[c]
             /\ InOrder(c, NextTurn(c)) /\ Proto(c)!ProtoInit
  <2>1. c \in Client
    BY DEF Pvs
  <2>2. PhaseOf(c) /\ ~Playing(c) /\ ~gameEnds[c]
    BY <1>1, <2>1 DEF PhaseOf, Playing, Early, AutoPcs, PvPc
  <2>3. NextTurn(c) = 0
    BY <1>1, <1>2 DEF NextTurn, Forwarding, GLs
  <2>4. InOrder(c, 0)
    BY <1>1, <2>1, SMTT(40) DEF InOrder
  <2>5. Phase(c) = "UNLOGGED"
    BY <1>1, <2>1, PhaseIs
  <2>6. Proto(c)!ProtoInit
    BY <1>1, <2>1, <2>5 DEF Proto!ProtoInit
  <2> QED BY <2>2, <2>3, <2>4, <2>6
<1>4. \A g \in GLs : StartsAt(pc[g])
  BY <1>1, StartsNowhere DEF GLs, Early
<1> QED BY <1>2, <1>3, <1>4 DEF ProtoInv, StartsInv

\* Every step keeps the invariant and is a step of the protocol of each client.
LEMMA NextProto ==
  VarsTypeOK /\ SessionInv /\ ProtoInv /\ [Next]_vars => ProtoInv' /\ Simulates
<1> SUFFICES ASSUME VarsTypeOK, SessionInv, ProtoInv, [Next]_vars
             PROVE  ProtoInv' /\ Simulates
  OBVIOUS
<1>1. ASSUME NEW c \in Client,
             Connect(c) \/ FirstMessage(c) \/ LoginStep(c)
      PROVE  ProtoInv' /\ Simulates
  BY <1>1, LoginProto
<1>2. ASSUME NEW c \in Client, PvInput(c) \/ PvStep(c)
      PROVE  ProtoInv' /\ Simulates
  BY <1>2, PvProto
<1>3. ASSUME NEW c \in Client,
             GLInput(c) \/ GLAnswer(c) \/ GLStep(c) \/ TimerSend(c)
      PROVE  ProtoInv' /\ Simulates
  BY <1>3, GLProto
<1>4. CASE Signal \/ PromptStep \/ MainStep \/ ServerStop \/ PromptStarted
             \/ StartupStep \/ TimerReset
  BY <1>4, MainProto
<1>5. CASE UNCHANGED vars
  BY <1>5, ProtoQuiet
<1> QED BY <1>1, <1>2, <1>3, <1>4, <1>5 DEF Next, Environment, Handler
=============================================================================
