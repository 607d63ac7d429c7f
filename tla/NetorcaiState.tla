---------------------------- MODULE NetorcaiState ----------------------------
(***************************************************************************)
(* The state shared by netorcai's goroutines: GlobalState and its mutex,   *)
(* one handler goroutine per connection, the channels between handlers,    *)
(* the game logic's goroutine, its timers, the main goroutine, the server  *)
(* and the prompt.  The modules that EXTEND this one give the steps of     *)
(* each goroutine; module Netorcai composes them.                          *)
(***************************************************************************)
EXTENDS Integers, Sequences, FiniteSets

CONSTANTS
  Client,          \* the connections that may be opened
  Role,            \* Role[c] is the role field of the LOGIN message of c
  Faulty,          \* clients that may send anything, close, or not answer
  InitNbMax,       \* --nb-players-max, --nb-splayers-max, --nb-visus-max
  InitNbTurnsMax,  \* --nb-turns-max
  Autostart,       \* --autostart
  Fast,            \* --fast
  NewTurnCap,      \* capacity of the newTurn channels (100 in the code)
  PromptCommands,  \* commands typed at the prompt, among start, quit, set
  PromptSets,      \* pairs of a variable and a value, for set
  Signals,         \* TRUE iff SIGINT or SIGTERM may be received
  ServerFails      \* TRUE iff Listen and Accept may fail on their own

PvRole  == {"player", "special player", "visualization"}
AllRole == PvRole \cup {"game logic"}

ASSUME ConstantsAssumption ==
  /\ Role \in [Client -> AllRole]
  /\ Faulty \subseteq Client
  /\ InitNbMax \in [PvRole -> Nat]
  /\ InitNbTurnsMax \in Nat \ {0}
  /\ Autostart \in BOOLEAN /\ Fast \in BOOLEAN
  /\ NewTurnCap \in Nat \ {0}
  /\ PromptCommands \subseteq {"start", "quit", "set"}
  /\ PromptSets \subseteq ((PvRole \cup {"nb-turns-max"}) \X Int)
  /\ Signals \in BOOLEAN /\ ServerFails \in BOOLEAN
  /\ Client \cap {"free", "prompt", "main"} = {}

VARIABLES
  \* GlobalState
  mutex,           \* holder of gs.Mutex, or "free"
  gameState,       \* gs.GameState
  nbMax,           \* gs.NbPlayersMax, gs.NbSpecialPlayersMax, gs.NbVisusMax
  nbTurnsMax,      \* gs.NbTurnsMax
  roster,          \* gs.Players, gs.SpecialPlayers, gs.Visus, gs.GameLogic
  \* every connection
  pc,              \* where the handler goroutine is
  state,           \* client.state
  wire,            \* type of the last message written to the socket
  canTerminate,    \* client.canTerminate, capacity 1: is it full?
  \* players and visualizations
  playerID, playerInfo, newTurn, gameEnds,
  lastTurn,        \* lastTurnNumberSent
  turnBuffer,      \* the turn held in turnBuffer, or NoTurn
  glClient,        \* is the local pointer to the game logic set?
  \* channels of the game logic, all of capacity 1
  start, playerAction, playerDisconnected,
  \* the game logic goroutine
  snap,            \* the lists and parameters copied when the game starts
  todo,            \* recipients the current broadcast has not reached yet
  turnNumber, playerActions, connectedPlayers,
  awaited,         \* the identifiers that actionReceived maps to false
  timers,          \* goroutines that will send DO_TURN, that will reset
  \* main, server and prompt goroutines
  mainPc, server, promptPc,
  exits            \* the exit channels (capacity 1) that hold a value

gsVars   == <<mutex, gameState, nbMax, nbTurnsMax, roster>>
connVars == <<pc, state, wire, canTerminate>>
pvVars   == <<playerID, playerInfo, newTurn, gameEnds, lastTurn, turnBuffer,
              glClient>>
chanVars == <<start, playerAction, playerDisconnected>>
glVars   == <<snap, todo, turnNumber, playerActions, connectedPlayers,
              awaited, timers>>
mainVars == <<mainPc, server, promptPc, exits>>
vars     == <<gsVars, connVars, pvVars, chanVars, glVars, mainVars>>

GLs == {c \in Client : Role[c] = "game logic"}
Pvs == {c \in Client : Role[c] # "game logic"}
IsPlayer(c) == Role[c] \in {"player", "special player"}

NoTurn == -1
AutoPc == <<"auto1", "auto2", "auto3", "auto4">>
PvPc == {"loop", "copyGL", "forward", "endKick", "kick", "kicking"}
GlPc == {"waitStart", "earlyKick", "copy", "assign", "infos", "initAck",
         "starts", "firstTurn", "ack", "turns", "collect", "timers",
         "closing"}
Pc   == {"none", "first", "login", "accept", "auto1", "auto2", "auto3",
         "auto4", "autoSet", "autoSend", "fin", "done"} \cup PvPc \cup GlPc
Message == {"none", "LOGIN_ACK", "GAME_STARTS", "TURN", "GAME_ENDS", "KICK",
            "DO_INIT", "DO_TURN"}
ClientState == {"UNLOGGED", "LOGGED", "READY", "THINKING", "KICKED"}
Action == [id : Int, turn : Int]

NoSnap == [taken |-> FALSE, players |-> <<>>, specialPlayers |-> <<>>,
           visus |-> <<>>, nbTurnsMax |-> 0]
AllPlayers == snap.players \o snap.specialPlayers
Recipients == AllPlayers \o snap.visus

\* What a sequence holds.
Elems(s) == {s[i] : i \in DOMAIN s}

Init ==
  /\ mutex = "free"
  /\ gameState = "GAME_NOT_RUNNING"
  /\ nbMax = InitNbMax
  /\ nbTurnsMax = InitNbTurnsMax
  /\ roster = [r \in AllRole |-> <<>>]
  /\ pc = [c \in Client |-> "none"]
  /\ state = [c \in Client |-> "UNLOGGED"]
  /\ wire = [c \in Client |-> "none"]
  /\ canTerminate = [c \in Client |-> FALSE]
  /\ playerID = [c \in Client |-> -1]
  /\ playerInfo = [c \in Client |-> "nil"]
  /\ newTurn = [c \in Client |-> <<>>]
  /\ gameEnds = [c \in Client |-> FALSE]
  /\ lastTurn = [c \in Client |-> -1]
  /\ turnBuffer = [c \in Client |-> NoTurn]
  /\ glClient = [c \in Client |-> FALSE]
  /\ start = 0 /\ playerAction = <<>> /\ playerDisconnected = <<>>
  /\ snap = NoSnap /\ todo = <<>>
  /\ turnNumber = 0 /\ playerActions = <<>>
  /\ connectedPlayers = {} /\ awaited = {}
  /\ timers = [sleeping |-> 0, sent |-> 0]
  /\ mainPc = "select" /\ server = "starting" /\ promptPc = "new"
  /\ exits = {}

\* sendMessage: what reaches the socket of c.
Send(c, m) == wire' = [wire EXCEPT ![c] = m]

\* The program is not over: main has not returned, and no panic has ended it.
Running == mainPc \notin {"exited", "crashed"}

\* The handler of c goes to l, as long as there is a program.
Goto(c, l) == Running /\ pc' = [pc EXCEPT ![c] = l]

\* LockGlobalStateMutex blocks until the mutex is free.
MutexFree == mutex = "free"

\* Kick: at most one KICK is sent to a client.
Kick(c) ==
  /\ state' = [state EXCEPT ![c] = "KICKED"]
  /\ wire' = [wire EXCEPT ![c] = IF state[c] = "KICKED" THEN @ ELSE "KICK"]
=============================================================================
