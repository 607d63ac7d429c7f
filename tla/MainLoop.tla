------------------------------ MODULE MainLoop -------------------------------
(***************************************************************************)
(* The main goroutine and Cleanup, the end of the accepting loop, the      *)
(* signal guard and the prompt (main.go, control.go, network.go,           *)
(* prompt.go).                                                             *)
(***************************************************************************)
EXTENDS NetorcaiState

\* The guard goroutine passes one signal on to main.
Signal ==
  /\ Signals
  /\ mainPc = "select" /\ "guard" \notin exits
  /\ exits' = exits \cup {"guard"}
  /\ UNCHANGED <<gsVars, connVars, pvVars, chanVars, glVars, mainPc, server,
                 promptPc>>

\* main waits on the four exit channels; it returns without Cleanup when the
\* server ended by itself.
MainSelect(s) ==
  /\ mainPc = "select"
  /\ s \in exits
  /\ exits' = exits \ {s}
  /\ mainPc' = IF s = "server" THEN "wait" ELSE "cleanup"
  /\ UNCHANGED <<gsVars, connVars, pvVars, chanVars, glVars, server, promptPc>>

\* Cleanup panics on a nil pointer: on globalGS, which the prompt goroutine
\* sets, before it locks the mutex, or on the listener, which the server sets,
\* with the mutex locked for good.  The deferred WaitGroup.Wait of main then
\* waits for the server and the handlers, which go on.
CleanupPanics ==
  /\ mainPc = "cleanup"
  /\ \/ promptPc = "new" /\ UNCHANGED mutex
     \/ /\ promptPc # "new" /\ server \in {"starting", "failed"}
        /\ MutexFree /\ mutex' = "main"
  /\ mainPc' = "panicked"
  /\ UNCHANGED <<gameState, nbMax, nbTurnsMax, roster, connVars, pvVars,
                 chanVars, glVars, server, promptPc, exits>>

\* Cleanup tells every client of the lists to terminate.  It waits until each
\* canTerminate channel, of capacity 1, has accepted the reason.
Cleanup ==
  /\ mainPc = "cleanup" /\ MutexFree
  /\ promptPc # "new" /\ server \in {"accepting", "down"}
  /\ canTerminate' = [c \in Client |->
       canTerminate[c] \/ \E r \in AllRole : c \in Elems(roster[r])]
  /\ mainPc' = "wait"
  /\ UNCHANGED <<gsVars, pc, state, wire, pvVars, chanVars, glVars, server,
                 promptPc, exits>>

\* Mutant: RunServer sets the listener without the mutex.
ServerListenUnlocked ==
  /\ Running /\ server = "starting"
  /\ server' = "accepting"
  /\ UNCHANGED <<gsVars, connVars, pvVars, chanVars, glVars, mainPc, promptPc,
                 exits>>

\* RunServer listens with the mutex held.
ServerListen ==
  /\ Running /\ server = "starting" /\ MutexFree
  /\ server' = "accepting"
  /\ UNCHANGED <<gsVars, connVars, pvVars, chanVars, glVars, mainPc, promptPc,
                 exits>>

\* Listen fails, or Accept: always once Cleanup has closed the listener.
ServerStop ==
  /\ Running
  /\ \/ /\ server = "starting" /\ MutexFree /\ ServerFails
        /\ server' = "failed"
     \/ /\ server = "accepting"
        /\ ServerFails \/ mainPc = "wait"
        /\ server' = "down"
  /\ exits' = exits \cup {"server"}
  /\ UNCHANGED <<gsVars, connVars, pvVars, chanVars, glVars, mainPc, promptPc>>

\* main returns, or its panic ends the program, once the WaitGroup counts no
\* server and no handler.
MainExit ==
  /\ mainPc \in {"wait", "panicked"}
  /\ server \in {"failed", "down"}
  /\ \A c \in Client : pc[c] \in {"none", "done"}
  /\ mainPc' = IF mainPc = "wait" THEN "exited" ELSE "crashed"
  /\ UNCHANGED <<gsVars, connVars, pvVars, chanVars, glVars, server, promptPc,
                 exits>>

\* RunPrompt sets globalGS; the interactive prompt is then created with the
\* mutex held, the simple one reads lines at once.
PromptRun ==
  /\ Running
  /\ \/ promptPc = "new" /\ promptPc' \in {"opening", "idle"}
     \/ promptPc = "opening" /\ MutexFree /\ promptPc' = "idle"
  /\ UNCHANGED <<gsVars, connVars, pvVars, chanVars, glVars, mainPc, server,
                 exits>>

PromptReady(cmd) == Running /\ cmd \in PromptCommands /\ promptPc = "idle"

\* Mutant: a running game can be started again.
PromptStartAgain ==
  /\ PromptReady("start") /\ MutexFree
  /\ Len(roster["game logic"]) = 1
  /\ gameState' = "GAME_RUNNING"
  /\ mutex' = "prompt"
  /\ promptPc' = "starting"
  /\ UNCHANGED <<nbMax, nbTurnsMax, roster, connVars, pvVars, chanVars, glVars,
                 mainPc, server, exits>>

\* The start command, when a game can be started; it keeps the mutex until
\* the start channel has accepted the order.
PromptStart ==
  /\ PromptReady("start") /\ MutexFree
  /\ gameState = "GAME_NOT_RUNNING"
  /\ Len(roster["game logic"]) = 1
  /\ gameState' = "GAME_RUNNING"
  /\ mutex' = "prompt"
  /\ promptPc' = "starting"
  /\ UNCHANGED <<nbMax, nbTurnsMax, roster, connVars, pvVars, chanVars, glVars,
                 mainPc, server, exits>>

PromptStarted ==
  /\ Running /\ promptPc = "starting"
  /\ start < 1
  /\ start' = start + 1
  /\ mutex' = "free"
  /\ promptPc' = "idle"
  /\ UNCHANGED <<gameState, nbMax, nbTurnsMax, roster, connVars, pvVars,
                 playerAction, playerDisconnected, glVars, mainPc, server,
                 exits>>

\* The quit command, or the end of the interactive prompt: the send blocks the
\* prompt while the channel is full.
PromptQuit ==
  /\ PromptReady("quit")
  /\ "shell" \notin exits
  /\ exits' = exits \cup {"shell"}
  /\ UNCHANGED <<gsVars, connVars, pvVars, chanVars, glVars, mainPc, server,
                 promptPc>>

\* Mutant: nb-turns-max may be set to 0.
MinValueOffByOne(variable) == IF variable = "player" THEN 1 ELSE 0

\* The ranges that the set command accepts.
MinValue(variable) ==
  IF variable \in {"nb-turns-max", "player"} THEN 1 ELSE 0
MaxValue(variable) == IF variable = "nb-turns-max" THEN 65535 ELSE 1024
SetAccepts(variable, v) == v >= MinValue(variable) /\ v <= MaxValue(variable)

\* The set command writes the limits without the mutex.
PromptSetLimit(r, v) ==
  /\ PromptReady("set")
  /\ r \in PvRole /\ SetAccepts(r, v)
  /\ nbMax' = [nbMax EXCEPT ![r] = v]
  /\ UNCHANGED <<mutex, gameState, nbTurnsMax, roster, connVars, pvVars,
                 chanVars, glVars, mainVars>>

PromptSetTurns(variable, v) ==
  /\ PromptReady("set")
  /\ variable = "nb-turns-max"
  /\ SetAccepts(variable, v)
  /\ nbTurnsMax' = v
  /\ UNCHANGED <<mutex, gameState, nbMax, roster, connVars, pvVars, chanVars,
                 glVars, mainVars>>

PromptStep ==
  \/ PromptStart \/ PromptQuit
  \/ \E s \in PromptSets :
       PromptSetLimit(s[1], s[2]) \/ PromptSetTurns(s[1], s[2])

MainStep ==
  MainExit \/ Cleanup \/ CleanupPanics \/ \E s \in exits : MainSelect(s)
StartupStep == ServerListen \/ PromptRun
=============================================================================
