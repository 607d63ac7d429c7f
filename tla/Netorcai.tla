------------------------------ MODULE Netorcai -------------------------------
(***************************************************************************)
(* The whole program: logins, sessions, the game logic, main and prompt,   *)
(* with the properties that make it correct.                               *)
(***************************************************************************)
EXTENDS Login, GameLogic, MainLoop

Handler(c) == LoginStep(c) \/ PvStep(c) \/ GLStep(c)

\* What the clients, the administrator and the system do to the program.
Environment ==
  \/ \E c \in Client : \/ Connect(c) \/ FirstMessage(c)
                       \/ PvInput(c) \/ GLInput(c) \/ GLAnswer(c)
  \/ Signal \/ PromptStep

Next ==
  \/ Environment
  \/ \E c \in Client : Handler(c) \/ TimerSend(c)
  \/ TimerReset \/ MainStep \/ ServerStop \/ PromptStarted \/ StartupStep

Spec == Init /\ [][Next]_vars

\* Goroutines that can proceed eventually do: the mutex is taken finitely
\* often, so no stronger fairness is needed.  Every player or visualization
\* answers or closes its socket in finite time, as --fast assumes, and so does
\* a client that has not logged in; a game logic that is not faulty answers.
Fairness ==
  /\ \A c \in Client : WF_vars(FirstMessage(c)) /\ WF_vars(Handler(c))
  /\ \A c \in Pvs : WF_vars(PvInput(c))
  /\ \A g \in GLs : WF_vars(TimerSend(g))
  /\ \A g \in GLs \ Faulty : WF_vars(GLAnswer(g))
  /\ WF_vars(TimerReset) /\ WF_vars(MainStep) /\ WF_vars(ServerStop)
  /\ WF_vars(PromptStarted) /\ WF_vars(ServerListen) /\ WF_vars(PromptRun)

FairSpec == Spec /\ Fairness

-----------------------------------------------------------------------------
GsTypeOK ==
  /\ mutex \in Client \cup {"free", "prompt", "main"}
  /\ gameState \in {"GAME_NOT_RUNNING", "GAME_RUNNING"}
  /\ nbMax \in [PvRole -> Nat] /\ nbTurnsMax \in Nat \ {0}
  /\ roster \in [AllRole -> Seq(Client)]
ConnTypeOK ==
  /\ pc \in [Client -> Pc]
  /\ state \in [Client -> ClientState]
  /\ wire \in [Client -> Message]
  /\ canTerminate \in [Client -> BOOLEAN]
PvTypeOK ==
  /\ playerID \in [Client -> Int]
  /\ playerInfo \in [Client -> {"nil", "connected", "disconnected"}]
  /\ newTurn \in [Client -> Seq(Int)]
  /\ \A c \in Client : Len(newTurn[c]) <= NewTurnCap
  /\ gameEnds \in [Client -> BOOLEAN]
  /\ lastTurn \in [Client -> Int]
  /\ turnBuffer \in [Client -> Int]
  /\ glClient \in [Client -> BOOLEAN]
ChanTypeOK ==
  /\ start \in 0 .. 1
  /\ playerAction \in Seq(Action) /\ Len(playerAction) <= 1
  /\ playerDisconnected \in Seq(Int) /\ Len(playerDisconnected) <= 1
GlTypeOK ==
  /\ snap \in [taken : BOOLEAN, players : Seq(Client),
               specialPlayers : Seq(Client), visus : Seq(Client),
               nbTurnsMax : Nat]
  /\ todo \in Seq(Client)
  /\ turnNumber \in Nat
  /\ playerActions \in Seq(Action)
  /\ connectedPlayers \subseteq Int /\ awaited \subseteq Int
  /\ timers \in [sleeping : Nat, sent : Nat]
MainTypeOK ==
  /\ mainPc \in {"select", "cleanup", "wait", "panicked", "exited", "crashed"}
  /\ server \in {"starting", "failed", "accepting", "down"}
  /\ promptPc \in {"new", "opening", "idle", "starting"}
  /\ exits \subseteq {"guard", "server", "shell", "gl"}

LoginPc == {"none", "first", "login", "accept", "auto1", "auto2", "auto3",
            "auto4", "autoSet", "autoSend"}
RolePc(c) == IF c \in GLs THEN GlPc ELSE PvPc

VarsTypeOK == /\ GsTypeOK /\ ConnTypeOK /\ PvTypeOK
              /\ ChanTypeOK /\ GlTypeOK /\ MainTypeOK

\* Every variable keeps its type: the prompt's set command never writes a
\* number of turns that the command line refuses, and a handler that has
\* logged in stays within the code of its role.
TypeOK == /\ VarsTypeOK
          /\ \A c \in Client :
               pc[c] \in LoginPc \cup RolePc(c) \cup {"fin", "done"}

-----------------------------------------------------------------------------
NoDuplicates(s) == \A i, j \in DOMAIN s : s[i] = s[j] => i = j

\* Between the insertion in the list and the end of its handler.
InSession(c) == pc[c] \notin {"none", "first", "login", "accept", "done"}

\* The client lists that every login, kick and Cleanup relies on are exact:
\* each session is in the list of its role and only once, and only Cleanup
\* leaves clients that are gone in the lists.  KickLoggedPlayerOrVisu moves
\* elements inside the lists while others join and leave.
RosterExact ==
  /\ \A r \in AllRole : /\ NoDuplicates(roster[r])
                        /\ \A c \in Elems(roster[r]) : Role[c] = r
  /\ \A c \in Client : InSession(c) => c \in Elems(roster[Role[c]])
  /\ mainPc \in {"select", "cleanup", "panicked"} =>
       \A r \in AllRole : \A c \in Elems(roster[r]) : InSession(c)

\* A player whose LOGIN was accepted is never left out of the game that
\* starts: the lists are copied with the mutex, logins are refused from
\* GAME_RUNNING on, and GAME_RUNNING precedes the start order.
NobodyMissesTheStart ==
  snap.taken =>
    \A c \in Client : IsPlayer(c) /\ InSession(c) => c \in Elems(AllPlayers)

\* gs.GameLogic[0] is never read from an empty list and glClient is never nil
\* when a player forwards its actions.
NoNilGameLogic ==
  /\ gameState = "GAME_RUNNING" => Len(roster["game logic"]) = 1
  /\ \A c \in Client :
       /\ pc[c] \in {"autoSet", "autoSend", "copyGL"} =>
            Len(roster["game logic"]) = 1
       /\ pc[c] = "forward" => glClient[c]

\* In fast mode the game logic computes a turn with exactly one action of
\* each connected player, all of them about the last turn: late actions and
\* disconnections of two channels never mix two turns.
FastBarrier ==
  \A g \in GLs : pc[g] = "collect" /\ awaited = {} =>
    /\ connectedPlayers \subseteq {a.id : a \in Elems(playerActions)}
    /\ \A i, j \in DOMAIN playerActions :
         playerActions[i].id = playerActions[j].id => i = j
    /\ \A a \in Elems(playerActions) : a.turn = turnNumber - 1

\* The turn barrier of the fast mode never waits for a player that is gone
\* without its disconnection being on the way.
NoGhostAwaited ==
  \A g \in GLs : pc[g] = "collect" /\ mainPc = "select" =>
    \A i \in awaited :
      \/ i \in Elems(playerDisconnected)
      \/ \E c \in Elems(AllPlayers) : playerID[c] = i /\ pc[c] # "done"

\* Where the game logic's goroutine is after it has received a start order.
PlayPc == {"copy", "assign", "infos", "initAck", "starts", "firstTurn", "ack",
           "turns", "collect", "timers"}

\* At the prompt, a game is started once: the start order never finds the
\* channel full, so the prompt never waits with the mutex held, and no order
\* is left over once the game logic's goroutine has received one.
StartOrderedOnce ==
  ~Autostart =>
    /\ promptPc = "starting" => start = 0 /\ gameState = "GAME_RUNNING"
    /\ \A g \in GLs : pc[g] \in PlayPc => start = 0 /\ promptPc # "starting"

\* The mutex that a panic of Cleanup leaves locked locks out nobody: Cleanup
\* meets a nil listener only before RunServer has listened, and RunServer
\* listens with the mutex, so no client is, or will be, connected.
NobodyLockedOut == mutex = "main" => \A c \in Client : pc[c] = "none"

\* With timers, the slice in which the turn loop keeps the actions never has
\* two of one player, wherever the earlier one stands and also when a timer
\* goroutine empties the slice while the loop changes it.
OneActionPerPlayer ==
  ~Fast => \A i, j \in DOMAIN playerActions :
             playerActions[i].id = playerActions[j].id => i = j

\* A game logic that answers every DO_TURN once is sent nothing after its
\* KICK, although timer goroutines send DO_TURN whatever became of the game;
\* when netorcai aborts, a late timer may still write to the socket.
LateTurnOnlyOnAbort ==
  \A g \in GLs \ Faulty :
    /\ state[g] = "KICKED"
    /\ mainPc = "select" \/ (snap.taken /\ turnNumber >= snap.nbTurnsMax)
    => wire[g] = "KICK"

-----------------------------------------------------------------------------
(* The inductive invariant behind RosterExact, NobodyMissesTheStart and    *)
(* NoNilGameLogic.                                                         *)

Early  == {"none", "first", "login", "accept"}
Listed(c) == c \in Elems(roster[Role[c]])
Ending == mainPc \notin {"select", "cleanup", "panicked"}

\* Who is listed, and that only handlers told to terminate end while listed.
RosterInv ==
  /\ \A r \in AllRole : /\ NoDuplicates(roster[r])
                        /\ \A c \in Elems(roster[r]) : Role[c] = r
  /\ \A c \in Client : /\ InSession(c) => Listed(c)
                       /\ Listed(c) => pc[c] \notin Early
                       /\ Listed(c) /\ pc[c] = "done" => Ending
                       /\ canTerminate[c] \/ pc[c] = "closing" => Ending

\* Who holds the mutex between two steps.
MutexInv ==
  /\ \A c \in Client : pc[c] \in {"accept", "kicking"} => mutex = c
  /\ promptPc = "starting" => mutex = "prompt"

\* GAME_RUNNING precedes all that the start order leads to; no player joins
\* the lists once they are copied.
StartInv ==
  /\ \/ start > 0
     \/ promptPc = "starting"
     \/ snap.taken
     \/ \E c \in Client : pc[c] \in PlayPc \cup {"autoSend", "copyGL"}
     => gameState = "GAME_RUNNING"
  /\ snap.taken =>
       \A c \in Client : IsPlayer(c) =>
         /\ pc[c] # "accept"
         /\ InSession(c) => c \in Elems(AllPlayers)

AutoPcs == {"auto1", "auto2", "auto3", "auto4", "autoSet", "autoSend"}

\* There is one game logic from the start order on, and it stays; a client in
\* the game knows it.
GameLogicInv ==
  /\ Len(roster["game logic"]) <= 1
  /\ gameState = "GAME_RUNNING" => Len(roster["game logic"]) = 1
  /\ \A c \in Client :
       /\ pc[c] = "accept" /\ c \in GLs => Len(roster["game logic"]) = 0
       /\ pc[c] \in {"autoSet", "autoSend"} => Len(roster["game logic"]) = 1
       /\ pc[c] \in PvPc => c \in Pvs
       /\ pc[c] \in AutoPcs /\ c \in Pvs => state[c] = "LOGGED"
       /\ \/ pc[c] = "forward"
          \/ pc[c] = "loop" /\ state[c] \in {"READY", "THINKING"}
          => glClient[c]

\* The four together are preserved by every step of every goroutine.
SessionInv == RosterInv /\ MutexInv /\ StartInv /\ GameLogicInv

-----------------------------------------------------------------------------
(* The inductive invariant behind ClientsSeeProtocol.                      *)

Playing(c) == state[c] \in {"READY", "THINKING"}

\* c is past GAME_STARTS, or leaves.
Started(c) == /\ pc[c] \notin Early \cup AutoPcs
              /\ pc[c] = "loop" => state[c] # "LOGGED"

\* How client.state follows the handler of a player or visualization.
PhaseOf(c) ==
  /\ pc[c] \in Early \cup AutoPcs \cup PvPc \cup {"fin", "done"}
  /\ pc[c] \in Early => state[c] = "UNLOGGED"
  /\ pc[c] \in AutoPcs => state[c] = "LOGGED"
  /\ pc[c] = "loop" => state[c] = "LOGGED" \/ Playing(c)
  /\ pc[c] = "copyGL" => state[c] = "READY"
  /\ pc[c] = "forward" => state[c] = "THINKING" /\ IsPlayer(c)
  /\ pc[c] \in {"kick", "kicking", "endKick"} => state[c] # "KICKED"
  /\ pc[c] \in {"fin", "done"} => state[c] = "KICKED"
  /\ state[c] \in {"UNLOGGED", "LOGGED", "READY"} => turnBuffer[c] = NoTurn

BeforeStarts == AutoPcs \cup
  {"waitStart", "earlyKick", "copy", "assign", "infos", "initAck"}
TurnsPc == {"firstTurn", "ack", "turns", "collect", "timers"}

\* What holds while a game logic's handler is at l: GAME_STARTS reaches the
\* clients of the copied lists once, before any other message of the game.
StartsAt(l) ==
  /\ l \in BeforeStarts => \A c \in Pvs : ~Playing(c)
  /\ l \in PlayPc \ {"copy"} => snap.taken
  /\ l \in {"starts", "turns"} =>
       NoDuplicates(todo) /\ Elems(todo) \subseteq Elems(Recipients)
  /\ l = "starts" =>
       \A c \in Elems(Recipients) :
         IF c \in Elems(todo) THEN ~Playing(c) ELSE Started(c)
  /\ l \in TurnsPc => \A c \in Elems(Recipients) : Started(c)

StartsInv ==
  /\ snap.taken => NoDuplicates(Recipients) /\ Elems(Recipients) \subseteq Pvs
  /\ \A c \in Pvs : /\ Playing(c) => snap.taken
                    /\ gameEnds[c] => Started(c)
  /\ \A g \in GLs : StartsAt(pc[g])

\* The number of the next TURN that will be put in newTurn of c.
Forwarding(c) == \E g \in GLs : pc[g] = "turns" /\ c \in Elems(todo)
NextTurn(c) == IF Forwarding(c) THEN turnNumber - 1 ELSE turnNumber

\* Turns are queued in order: the last one sent, the one in turnBuffer, those
\* in newTurn, and n, the next one.
InOrder(c, n) ==
  /\ -1 <= lastTurn[c] /\ lastTurn[c] < n
  /\ turnBuffer[c] # NoTurn => lastTurn[c] < turnBuffer[c] /\ turnBuffer[c] < n
  /\ \A i \in DOMAIN newTurn[c] :
       /\ lastTurn[c] < newTurn[c][i] /\ turnBuffer[c] < newTurn[c][i]
       /\ newTurn[c][i] < n
       /\ \A j \in DOMAIN newTurn[c] : i < j => newTurn[c][i] < newTurn[c][j]

\* With SessionInv, it is preserved by every step.
ProtoInv ==
  StartsInv /\ \A c \in Pvs : PhaseOf(c) /\ InOrder(c, NextTurn(c))

-----------------------------------------------------------------------------
\* The phase of ClientProtocol that c is in.
Phase(c) ==
  CASE pc[c] = "accept" -> "LOGGED"
    [] pc[c] = "forward" -> "ACKED"
    [] pc[c] \in {"kick", "kicking"} -> "LEAVING"
    [] pc[c] = "endKick" -> "ENDED"
    [] OTHER -> state[c]

Proto(c) == INSTANCE ClientProtocol WITH
  plays <- IsPlayer(c), phase <- Phase(c), turn <- lastTurn[c], last <- wire[c]

\* Every player and visualization sees the promised protocol: one GAME_STARTS,
\* TURNs with increasing numbers and only when the last one is acknowledged,
\* GAME_ENDS only during the game, and nothing after KICK.
\* It is \A c \in Pvs : Proto(c)!ProtoSpec, in a form that TLC evaluates.
ClientsSeeProtocol ==
  /\ \A c \in Pvs : Proto(c)!ProtoInit
  /\ [][\A c \in Pvs : Proto(c)!ProtoStep]_vars

-----------------------------------------------------------------------------
\* A game that starts is played to its end and the program exits: no handler
\* is left waiting on a channel that nobody serves any more.
GameCompletes == gameState = "GAME_RUNNING" ~> mainPc = "exited"

\* Once its turns have begun, a game is played to its last turn, and main tells
\* every client in the lists to terminate, whether the players answer or leave,
\* if the newTurn channels have room for all its turns.  A signal may end it
\* earlier, and with timers the race on playerActions may end the program.
TurnsPlayed ==
  \/ <>("guard" \in exits)
  \/ /\ \E g \in GLs : pc[g] \in {"ack", "timers"}
     /\ snap.nbTurnsMax <= NewTurnCap + 1
     ~> \/ turnNumber >= snap.nbTurnsMax /\ mainPc = "wait"
        \/ ~Fast /\ mainPc = "crashed"

\* An abort (signal or quit) of a program that has started ends it.
AbortCompletes ==
  mainPc = "cleanup" /\ promptPc # "new" /\ server = "accepting" ~> ~Running

\* With --autostart, the game starts once all expected clients are connected.
AutostartStarts ==
  (\A r \in AllRole : Len(roster[r]) = Limit(r)) ~> snap.taken

\* A client that stays until the end of a finished game is told the result:
\* no GAME_ENDS is left in the channel of a handler that returned.
GameEndsDelivered == \A c \in Pvs \ Faulty : pc[c] = "done" => ~gameEnds[c]
=============================================================================
