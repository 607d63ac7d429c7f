---------------------------- MODULE ActionBuffer -----------------------------
(***************************************************************************)
(* The playerActions slice of gameLogicGameControlTimers, which the turn   *)
(* loop and a timer goroutine access without synchronisation: one step per *)
(* read or write of its length and of its elements.  Module GameLogic has  *)
(* the outcomes that reach the program's control: an emptying that is      *)
(* undone and a panic.                                                     *)
(*                                                                         *)
(* The backing array has grown to its final size; it holds what earlier    *)
(* turns left.  An element is reduced to its player_id.                    *)
(***************************************************************************)
EXTENDS Integers, Sequences, FiniteSets

CONSTANT PlayerID  \* a finite set

VARIABLES
  array, len,   \* the slice
  loop,         \* the turn loop: pc, PlayerID of the action, the length that
                \* range read, actionIndex, the index and values of the swap
  timer,        \* the timer goroutine: pc, the length that sendDoTurn read
  content       \* player_actions of DO_TURN, as far as it is marshalled

bufferVars == <<array, len, loop, timer, content>>

BufferInit ==
  /\ array \in [1 .. Cardinality(PlayerID) -> PlayerID] /\ len = 0
  /\ \E p \in PlayerID :
       loop = [pc |-> "select", id |-> p, n |-> 0, i |-> 1, last |-> 0,
               x |-> p, y |-> p]
  /\ timer = [pc |-> "sleep", n |-> 0]
  /\ content = <<>>

LoopOnly == UNCHANGED <<timer, content>>
At(l) == loop.pc = l
Store(i, v) == array' = [array EXCEPT ![i] = v]

ReceiveAction(p) ==
  /\ At("select") /\ LoopOnly /\ UNCHANGED <<array, len>>
  /\ loop' = [loop EXCEPT !.pc = "range", !.id = p, !.n = len, !.i = 1]

RangeElement ==
  /\ At("range") /\ LoopOnly /\ UNCHANGED <<array, len>>
  /\ loop' = IF loop.i > loop.n THEN [loop EXCEPT !.pc = "append"]
             ELSE IF array[loop.i] = loop.id THEN [loop EXCEPT !.pc = "swap"]
             ELSE [loop EXCEPT !.i = @ + 1]

\* An index out of range, in a slice that a timer has emptied, ends netorcai.
SwapRead ==
  /\ At("swap") /\ LoopOnly /\ UNCHANGED <<array, len>>
  /\ loop' = IF loop.i > len THEN [loop EXCEPT !.pc = "panicked"]
             ELSE [loop EXCEPT !.pc = "swapLast", !.last = len,
                               !.x = array[loop.i], !.y = array[len]]
SwapWrite ==
  /\ At("swapLast") \/ At("swapIndex")
  /\ LoopOnly /\ UNCHANGED len
  /\ IF At("swapLast") THEN Store(loop.last, loop.x) ELSE Store(loop.i, loop.y)
  /\ loop' = [loop EXCEPT !.pc = IF @ = "swapLast" THEN "swapIndex"
                                 ELSE "replace"]
ReplaceLast ==
  /\ At("replace") /\ LoopOnly /\ UNCHANGED len
  /\ IF len = 0 THEN UNCHANGED array ELSE Store(len, loop.id)
  /\ loop' = [loop EXCEPT !.pc = IF len = 0 THEN "panicked" ELSE "select"]

\* append stores the new length and the element, in either order.
AppendFirst ==
  /\ At("append") /\ LoopOnly
  /\ \/ /\ len' = len + 1 /\ UNCHANGED array
        /\ loop' = [loop EXCEPT !.pc = "appendElement", !.last = len + 1]
     \/ /\ Store(len + 1, loop.id) /\ UNCHANGED len
        /\ loop' = [loop EXCEPT !.pc = "appendLength", !.last = len + 1]
AppendSecond ==
  /\ LoopOnly
  /\ \/ At("appendElement") /\ Store(loop.last, loop.id) /\ UNCHANGED len
     \/ At("appendLength") /\ len' = loop.last /\ UNCHANGED array
  /\ loop' = [loop EXCEPT !.pc = "select"]

\* sendDoTurn reads the length once and the elements one by one.
TimerWakes ==
  /\ timer.pc = "sleep" /\ ~At("panicked")
  /\ timer' = [pc |-> "marshal", n |-> len] /\ content' = <<>>
  /\ UNCHANGED <<array, len, loop>>
MarshalElement ==
  /\ timer.pc = "marshal" /\ ~At("panicked")
  /\ IF Len(content) < timer.n
     THEN content' = Append(content, array[Len(content) + 1]) /\ UNCHANGED timer
     ELSE timer' = [timer EXCEPT !.pc = "sent"] /\ UNCHANGED content
  /\ UNCHANGED <<array, len, loop>>
EmptySlice ==
  /\ timer.pc = "sent" /\ ~At("panicked")
  /\ len' = 0
  /\ timer' = [timer EXCEPT !.pc = "sleep"]
  /\ UNCHANGED <<array, loop, content>>

BufferNext ==
  \/ \E p \in PlayerID : ReceiveAction(p)
  \/ RangeElement \/ SwapRead \/ SwapWrite \/ ReplaceLast
  \/ AppendFirst \/ AppendSecond
  \/ TimerWakes \/ MarshalElement \/ EmptySlice

BufferSpec == BufferInit /\ [][BufferNext]_bufferVars

-----------------------------------------------------------------------------
\* "There is at most one array element per player" in player_actions of
\* DO_TURN (docs/metaprotocol.rst), whatever the turn loop does to the slice
\* while a timer goroutine marshals it.
AtMostOneElementPerPlayer ==
  \A i, j \in DOMAIN content : content[i] = content[j] => i = j
=============================================================================
