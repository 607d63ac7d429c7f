# netorcai in TLA+

netorcai orchestrates a game between network clients: players, special players,
visualizations and one game logic. The game logic computes the turns; netorcai
forwards the state of the game to the clients and their actions to the game
logic. It is a Go program: one goroutine per connection, a goroutine per
connection that reads the socket, timer goroutines, the accepting server, the
prompt and main, which communicate by channels and by a global state with a
mutex. What is hard to test in it is how these goroutines interleave. This
directory models them, checks the model with TLC and proves part of it with
TLAPS.

## 1. Inventory

| Part | Code | State that matters | Module |
|---|---|---|---|
| Global state, mutex, lists | `control.go` 28-81 | `GameState`, limits, four lists, who holds the mutex | `NetorcaiState` |
| Login, automatic start | `control.go` 83-262, `network.go` 29-75 | where a connection is, its `state` | `Login` |
| Players, visualizations | `control_pv.go` | turn buffer, last turn sent, pointer to the game logic, channels `gameStarts`, `newTurn`, `gameEnds`, `canTerminate` | `PlayerVisu` |
| Game logic | `control_gl.go` | copied lists, turn number, collected actions, players waited for, timers, channels `start`, `playerAction`, `playerDisconnected` | `GameLogic` |
| Actions of a turn, with timers | `control_gl.go` 204-247 | length and elements of the slice `playerActions`, which two goroutines share | `ActionBuffer` |
| Main, signals, termination, prompt | `main.go` 40-229, `control.go` 300-339, `network.go` 29-62, `prompt.go` | exit channels, WaitGroup, listener, `globalGS`, prompt commands | `MainLoop` |
| All together | | | `Netorcai` |
| What one client is promised | `control_pv.go`, `docs/metaprotocol.rst` | phase, last turn, last message | `ClientProtocol` |
| Framing | `network.go` 77-165, `SendBytes` of `client/go` | bytes on the socket, what the reader has read | `Framing` |
| Message readers | `messages.go` 90-262, `readutil.go` 8-67 | what a handler expects | `Messages` |
| Command line, reading side of the client library, tests | `main.go`, `client/go`, `test` | none | not modelled (section 5) |

The hazards that guided the choice of properties are listed in `PROJECT.json`:
unsynchronised reads and writes (automatic start, `set`, identifiers), sends on
channels whose reader is gone or that are made with the mutex held, lists that
are copied once, `select` between several ready channels at the end of a game,
logins that race with the start and with the cleanup, an abort before the
program has started, timers that outlive the game, sizes at their limits.

## 2. The model

`NetorcaiState` declares the constants and variables; `Login`, `PlayerVisu`,
`GameLogic` and `MainLoop` define the steps of one kind of goroutine each;
`Netorcai` composes them in `Next` and states the properties. Three modules
stand beside this composition. `ClientProtocol` is the abstract specification
that the composition implements. `Framing` with `Messages` on top of it is one
direction of one connection in bytes; the composition uses its result, that
a handler receives whole messages in order and then an error. `ActionBuffer`
has the single reads and writes of the slice `playerActions`, of which
`GameLogic` has the outcomes.

*Control.* `pc[c]` says where the handler of connection `c` is. A step is a
receive branch of a `select`, a send, or a critical section. Reception on an
unbuffered channel is one joint step of sender and receiver
(`GLSendGameStarts` with `ReceiveGameStarts`); a send on a buffered channel is
a step guarded by the room in the channel, so a full channel blocks its sender,
also when the sender holds the mutex (`KickLock`, `KickUnlock`). A critical
section in which nothing can block is one step guarded by `MutexFree`; the
login holds the mutex over two steps (`AcceptLogin`, `JoinList`), because the
automatic start and `set` do not wait for the mutex. The four reads of
`areAllExpectedClientsConnected` are four steps. A departed handler has
`pc = "done"` and receives nothing any more.

*Data.* A TURN or a TURN_ACK is its turn number, an action list is the pair of
player and turn, other messages are their type. `wire[c]` is the type of the
last message written to the socket. Identifiers are assigned with every
permutation that `rand.Perm` can return.

*Clients.* `Faulty` clients may send anything that the code can tell apart (an
unreadable message, a TURN_ACK for an older, the last, or a later turn), close
their socket (an unreadable message, a failed send), or, for the game logic,
not answer or answer without being asked. The other clients behave as the
metaprotocol says. The reader goroutine only passes messages on: the reception
of a message and the read of the socket are one step.

*Abstractions to keep in mind.*

- Delays are abstracted: a timer may fire at any moment after it is started,
  and the 3 seconds for DO_INIT_ACK may elapse with a faulty game logic.
- `Cleanup` delivers to all `canTerminate` channels in one step: each is empty
  before, and nothing a terminating client does depends on the others.
- The order in which a slice of players gets identifiers and `playerInfo` is
  not visible: each of the two loops is one step, without the mutex.
- A departing player's identifier is read when its send completes. The code
  reads it before it blocks; the two differ only before GAME_STARTS, when the
  game logic's goroutine can no longer reach the loop that reads the channel.
- The turn loop and the timer goroutines access `playerActions` without
  synchronisation. `GameLogic` has one step per outcome that matters to the
  control of the program: the two in either order; an emptying that the length
  stored by `append` undoes (`GLTimersAction`); an index in a slice that was
  emptied after `range` had found an element, which is a panic of a handler and
  ends the program (`GLTimersPanics`). What DO_TURN holds meanwhile is the
  subject of `ActionBuffer`.
- A failed LOGIN_ACK follows the code's error branch, although `sendMessage`
  ignores the error of `Flush`.

*Start of the program.* main starts the server's and the prompt's goroutines
and waits. `ServerListen` sets the listener with the mutex held, `PromptRun`
sets `globalGS` and, when interactive, creates the prompt with the mutex held.
A signal may come before either: `CleanupPanics` is Cleanup with a nil pointer.
The deferred `WaitGroup.Wait` then holds main back (`mainPc = "panicked"`) until
the server and all handlers have returned. Until then the server, the prompt and
the handlers go on, with the mutex locked for good when the listener was nil.
`Running` is false only when the process has ended.

*Framing.* `sendMessage` and `SendBytes` write the size, the content and a
newline; `SendBytes` checks the size only when it is told to (`checkSize`). The
socket may be cut after any byte. The reader takes the size, checks it, takes the
content and gives it to `json.Unmarshal`. A byte is a digit below `Base`.
*Messages.* A JSON object is a function on field names with tagged
values, a number `n` stands for n / 2, so that `ReadInt` has something to
truncate. `HandleMessage` applies the reader that the role calls for.

*Action buffer.* The turn loop ranges, swaps, replaces and appends; a timer
goroutine reads the length once, the elements one by one, and sets the length
to 0. An index outside the slice is a panic.

## 3. Properties and runs

The runs of the composition use three connections: two clients and the game
logic. Two clients are enough for the interactions in the code: two players that
leave at once contend for `playerDisconnected`, of capacity 1 (`fast`); two
actions stand in the slice, so that a replacement swaps (`timers`); two list
elements are swapped, and two players compete for one place (`lobby`); a turn
barrier opens with one player present and one gone (`fast`). `NewTurnCap` stands
for the 100 places of `newTurn`; values 1 to 3 put the limit within the reach of
games of 3 or 4 turns. Deadlock is not checked: the program stops when main
returns, and states in which goroutines wait for ever are the subject of the
liveness properties.

Passing runs (`TurnsPlayed` is a liveness property, checked under `FairSpec`):

| Run | Instance | Properties |
|---|---|---|
| `fast` | `MCFast`: player and special player, both faulty; 4 turns, signals | `ProtoInv`, `NoNilGameLogic`, `FastBarrier`, `NoGhostAwaited`, `StartOrderedOnce`, `NobodyLockedOut`, `TurnsPlayed` |
| `timers` | `MCGame`: two players with timers, `newTurn` of one place; 3 turns, or 2 after `set` | `OneActionPerPlayer`, `ClientsSeeProtocol` |
| `turns` | `MCTurns`: with timers, a player and a faulty visualization; 3 turns | `LateTurnOnlyOnAbort`, `TurnsPlayed` |
| `lobby` | `MCLobby`: two players for one place, all faulty, automatic start, start, `set` of a limit and of 0 turns, quit, failing server | `TypeOK`, `SessionInv`, `NobodyMissesTheStart`, `NoNilGameLogic`, `RosterExact` |
| `messages` | `MCMessages`: 20 contents around both limits, three messages with and without `checkSize`, a cut at any byte | `DeliveredInOrder`, `AcceptedFits`, `SessionFollowsProtocol` |

- `FastBarrier`: when the barrier of a turn opens, the actions are those of
  that turn, one per player, and none of a connected player is missing.
- `NoGhostAwaited`: every player that the barrier waits for is there, or its
  departure is in the channel.
- `StartOrderedOnce`: at the prompt the start order never meets a full channel,
  and none is left over while the game is played.
- `NobodyLockedOut`: when a panic of Cleanup leaves the mutex locked, no client
  is connected, and none will be: the listener is set with the same mutex.
- `TurnsPlayed`: a game whose turns have begun is played to its last turn, and
  main then tells the clients to terminate, whether players answer or leave. It
  speaks of games whose turns fit in `newTurn`: nobody empties the channel of a
  client that has left, so a game with more turns after the departure than the
  channel has places (100 in the code) blocks. It ends when the clients are told,
  because what follows does not always end: a late action (run `game_timers`) or
  two departures after the game logic's goroutine has returned block for ever. A
  signal, and with timers the panic of the race on `playerActions`, are
  exceptions.
- `OneActionPerPlayer`: with timers, a later action replaces the earlier one of
  the same player in the slice of the turn loop, in every order of actions and
  timers and also when the two overlap.
- `TypeOK`: besides the types, `set` writes only what the command line allows,
  and a handler that has logged in stays within the code of its role.
- `SessionInv`: the inductive invariant behind the next three (section 4).
- `RosterExact`: the lists hold exactly the sessions, each once.
- `NobodyMissesTheStart`: an accepted player is in the lists that are copied.
- `NoNilGameLogic`: `GameLogic[0]` and `glClient` exist where they are used.
- `ClientsSeeProtocol`: each player and visualization sees `ClientProtocol`;
  the mapping takes `client.state` and refines it by where the handler is
  (`Phase`). It is stated as an initial predicate and an action property,
  because TLC does not check a quantified temporal formula. `ProtoInv` is the
  invariant that it follows from.
- `LateTurnOnlyOnAbort`: a game logic that answers each DO_TURN once is sent
  nothing after its KICK. Two things break it in the code, and the property
  excludes both: a game logic that answers twice, and an abort, in which a
  sleeping timer writes to a client that was kicked.
- `DeliveredInOrder`: what was sent arrives whole and in order.
- `AcceptedFits`: the reader delivers what is within its limits and stops at a
  size only when it is above them; a content that passes the sender's check is
  too big only as a first message, newline included.
- `SessionFollowsProtocol`: handlers act upon LOGIN first and then only upon
  messages of the role; the winner kept is nobody or an index of a player.

*Fairness.* Weak fairness on each handler, on the timers, main, the server and
the prompt's pending send: the Go scheduler runs every goroutine that can
proceed, and the mutex is requested finitely often, so waiting for it needs no
more. Weak fairness on the messages of players and visualizations and on the
first message of a connection: `--fast` assumes that players "play/crash in
finite time". A game logic that is not faulty answers. A `select` between ready
channels is not fair to any one of them, only to the handler as a whole.

Violations. Each run checks a statement of the documentation, of a comment or
of a test, which the code does not meet; `PROJECT.json` quotes the statement.

| Run | Property | What happens |
|---|---|---|
| `autostart` | `AutostartStarts` | two handlers order the start; the game logic's handler blocks on its own `start` channel |
| `early_departure` | `GameCompletes` | a player leaves between the copy of the lists and GAME_STARTS; the send to its `gameStarts` never completes |
| `game_timers` | `GameCompletes` | at the end, a second late action finds no reader, and main waits for its sender |
| `abort` | `AbortCompletes` | a login accepted after Cleanup is never told to terminate (no game is started in this run) |
| `game_ends` | `GameEndsDelivered` | `select` takes `canTerminate` before `gameEnds` |
| `actions_race` | `AtMostOneElementPerPlayer` | a timer reads the length that `append` has stored before the element, and marshals what an earlier turn left there |
| `integral` | `AcceptedNumbersIntegral` | a TURN_ACK with turn number 1/2 is accepted for turn 0, because `ReadInt` truncates |

Each property of a passing run comes with a mutant: a variant of one definition
with a plausible mistake (a dropped guard, a missing reset, an unlocked copy)
under which TLC finds the property violated. The variants stand before the
definition they vary and are marked `Mutant`.

## 4. Proofs

The theorems about the server hold for every set of clients, roles, limits,
capacity and prompt command, and assume only `ConstantsAssumption` of
`NetorcaiState`. Those about a connection hold for every set of contents and
JSON objects, all limits and any number of messages and players, and assume
`FramingAssumption` (a size fits in four bytes) and `MessagesAssumption` (the
number of players is a natural number).

| Module | What it proves |
|---|---|
| `OperatorProofs` | lemmas on the operators of the model: lists, swap-removal, actions, identifiers |
| `TypeProofs`, `SessionProofs`, `ProtocolProofs`, `GameProofs`, `BarrierProofs` | one inductive invariant each: the steps, one lemma per goroutine |
| `NetorcaiProofs` | the theorems about `Spec` that follow from them |
| `FramingProofs` | the theorems about `MessagesSpec` |

The five modules in the second line extend only `OperatorProofs`, not each
other: an invariant that another one rests on is a hypothesis of its lemmas, and
`NetorcaiProofs` puts them together.

| Invariant | Theorems |
|---|---|
| `VarsTypeOK` | `TypeCorrect`: `Spec => []TypeOK`, with `SessionInv` and `ProtoInv` |
| `SessionInv` | `SessionCorrect`: `Spec => []SessionInv`; `RosterIsExact`, `NobodyIsMissed`, `GameLogicIsThere` |
| `ProtoInv` | `ProtoCorrect`: `Spec => []ProtoInv`; `ProtocolImplemented`: `Spec => ClientsSeeProtocol` |
| `GameInv`, `LateInv` | `NobodyIsLockedOut`, `StartIsOrderedOnce`, `ActionsOfOnePlayer`, `NothingAfterKick` |
| `BarrierInv` | `BarrierIsExact`: `Spec => []FastBarrier`; `NobodyGhostAwaited`: `Spec => []NoGhostAwaited` |
| `MessagesInv` | `MessagesArriveInOrder`, `AcceptedIsReadable`, `SessionsFollowProtocol`: `MessagesSpec => []P` for the three properties of the run `messages` |

*Types.* `VarsTypeOK` is the conjunction of one predicate per group of
variables; a step is proved for the groups it changes and `TypesUnchanged` covers
the others. The second half of `TypeOK`, that a handler stays within the code of
its role, is not inductive with it: it follows from `SessionInv` and `ProtoInv`.

*Sessions.* `RosterExact`, `NobodyMissesTheStart` and `NoNilGameLogic` are not
inductive. `SessionInv` adds what they rest on:

- `RosterInv`: a listed client is past its login, and a handler ends while its
  client is listed only when told to terminate, so `canTerminate` implies that
  Cleanup has run. `SwapRemoveList` shows that the swap-removal removes exactly
  one client, `AppendList` that joining adds exactly one.
- `MutexInv`: a handler between the checks of its login and the insertion, or
  between the two halves of a kick, holds the mutex. It is why no login is in
  progress when the lists are copied.
- `StartInv`: whatever follows a start order implies `GAME_RUNNING`, and no
  player logs in from then on.
- `GameLogicInv`: at most one game logic is listed, it is there from the start
  order on, and a client that plays knows it.

Each of the four has a frame lemma for the steps of one handler (`RosterStep`,
`MutexStep`, `StartStep`, `GameLogicStep`) and one lemma per goroutine with one
case per action.

*Refinement.* That a client sees `ClientProtocol` needs two facts about the game
logic's goroutine and the channel in between, which `ProtoInv` states together
with the relation of `state` and `pc` (`PhaseOf`):

- `StartsInv`: GAME_STARTS goes once to each client of the copied lists, before
  anything else of the game. It follows where the broadcast is (`todo`), and
  needs that the lists have no duplicates and that only one game logic's handler
  is past the login (`OneGameLogic`, from `SessionInv`).
- `InOrder`: the last turn sent, the turn in `turnBuffer`, the turns in
  `newTurn` and the next turn to be queued are strictly increasing. `OrderPop`,
  `OrderPush`, `OrderFlush` and `OrderLater` are what the four operations on
  this chain do; the next turn depends on whether the current broadcast has
  reached the client (`NextTurn`).

`NextProto` proves for each step both that `ProtoInv` is preserved and that the
step is one of `ClientProtocol`, or a stutter, for every client.

*Games.* `GameInv` relates the start of the program to the start of a game: a
connected client implies a listener, the mutex stays locked by main only while
there is none (so `ServerListen` is disabled from then on), and without the
automatic start only the prompt orders a game. It also keeps the
two loops apart, because only the timed one replaces earlier actions
(`PlaceActionOneEach`). `LateInv` says that the turn number is below
the limit while a game is played, and that a game logic which is not faulty has
no timer asleep once it is kicked at the end: it answers only a DO_TURN that was
sent, and the last answer starts no timer (`GLLate`).

*The turn barrier.* `FastBarrier` and `NoGhostAwaited` say something only when
the barrier opens or waits; `BarrierInv` says where the last turn is at any
moment, and why a departure reaches the barrier:

- `Identified`: the identifiers are a bijection between the players of the
  copied lists and `0 .. n - 1` (`AssignedIDs`, because `rand.Perm` is a
  bijection), so an action or a departure belongs to one player.
- `Served`: when the game logic has put turn `n` in `newTurn` of a player and
  awaits its action (`Asked`), the turn is in exactly one of the channel, the
  hands of the player or `playerAction`, and nowhere when it does not. This is
  why no action of an earlier turn can arrive. It uses `StartsInv` and `PhaseOf`:
  a player that is sent a turn has been told that the game starts.
- `Told`: a handler of a player that has returned while the program runs has put
  the identifier in `playerDisconnected`. `BarrierBase` adds the converse: what
  is in that channel is `-1` or the identifier of such a player.
- `Collected`: the actions kept so far are one for each connected player that is
  not awaited any more, all of the last turn.
- `CopiedOnce` (from `LateInv`): the lists are copied once, so the identifiers
  do not change during a game.

A player is `Seated` when it is connected and served, or leaving. Each step of
the game logic in a turn has a lemma that shows every player seated afterwards
and `Collected`; a step of a player changes only its own seat (`OthersBarrier`).
`Fast` is a hypothesis: with timers there is no barrier.

*Framing.* That the reader never takes a size for a content rests on where the
bytes are. `Laid` says it without recursion: some function gives the offset of
each frame in the stream, one frame starts where the one before ends, and every
byte that is still there is the byte of its frame. `InStep` adds that the reader
stands at the start of the next frame, or behind its size. Sending extends the
offsets (`LaidAppend`), a read shifts them (`LaidTake`), a cut leaves them
(`LaidCut`), and the next frame is found when a content has been read
(`LaidNext`). `SizeRoundTrip` is that `Uint32` reads what `PutUint32` writes, for
any base; `SizeIsNext` and `ContentIsNext` are what the two reads return.
`StopReason` is `AcceptedFits` with what keeps it true when more is sent.

*Sessions on the wire.* `HandlerInv` relates what a handler expects to how many
messages it has read and to the role in the first one. With `DeliveredInOrder`
the message read next is the next one sent (`HandleSession`); `ReadIntIs` is
that `ReadInt` rounds towards zero.

Only model-checked: the liveness properties, because TLAPS proves neither
liveness under fairness nor ENABLED. The safety and action properties of all
passing runs are proved; the runs check them on small instances.

## 5. Not modelled

- The command line (`main.go`): sequential, without state; the options are the
  constants of the model.
- `print`, completion and the parsing of a line at the prompt: they change
  nothing that another goroutine's control depends on. `print` reads the limits
  and the delays, without the mutex.
- Delays: their lengths are not modelled, so nothing is said about real time.
- `ReadMessage` of the Go client library, which is the reader of `Framing`
  without its limits, and the decoding of the messages of netorcai in clients.
- Two goroutines inside `sendMessage` for the same client at the same moment:
  what a `bufio.Writer` without a lock then writes is not defined by the code.
  `LateTurnOnlyOnAbort` bounds when a timer and the handler can meet.
- Contents of game states, nicknames, log messages and debugging of the mutex.
- The integration tests, which are quoted where they state what netorcai does.
