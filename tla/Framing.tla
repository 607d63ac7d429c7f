------------------------------- MODULE Framing -------------------------------
(***************************************************************************)
(* The messages of one direction of a connection: sendMessage of netorcai  *)
(* or SendBytes of the Go client library on one side, readClientMessages   *)
(* or ReadMessage on the other.  The socket may be cut at any byte.        *)
(*                                                                         *)
(* A byte is a number below Base (256); CONTENT_SIZE is four of them.      *)
(***************************************************************************)
EXTENDS Integers, Sequences

CONSTANTS
  Base,         \* 256
  FirstLimit,   \* 1023, the reader's limit on the first CONTENT_SIZE
  Limit,        \* 16777215, its limit on the others and the sender's limit
  Content,      \* the contents that the sender tries to send
  Newline,      \* 0x0A
  Json,         \* the contents that json.Unmarshal accepts as an object
  MaxSent       \* bound on the number of messages

ASSUME FramingAssumption ==
  /\ Base \in Nat \ {0, 1} /\ Newline \in 0 .. Base - 1
  /\ FirstLimit \in Nat /\ Limit \in Nat
  /\ Content \subseteq Seq(0 .. Base - 1) /\ Json \subseteq Content
  /\ \A c \in Content : Len(c) + 1 < Base * (Base * (Base * Base))
  /\ MaxSent \in Nat

VARIABLES
  sent,      \* the contents that were written
  stream,    \* the bytes on their way
  closed,    \* is the socket closed?
  reader,    \* pc of the reader and the CONTENT_SIZE that it has read
  incoming,  \* incomingMessages: the contents that the handler has received
  err        \* the error that ended the reader, or "nil"

framingVars == <<sent, stream, closed, reader, incoming, err>>

FramingInit ==
  /\ sent = <<>> /\ stream = <<>> /\ closed = FALSE
  /\ reader = [pc |-> "size", size |-> 0]
  /\ incoming = <<>> /\ err = "nil"

\* binary.LittleEndian: PutUint32, of a value reduced to four bytes, and Uint32.
Shift(n) == n \div Base
PutUint32(n) == <<n % Base, Shift(n) % Base, Shift(Shift(n)) % Base,
                  Shift(Shift(Shift(n))) % Base>>
Uint32(b) == b[1] + Base * (b[2] + Base * (b[3] + Base * b[4]))

\* CONTENT_SIZE counts the newline that the sender adds.
Frame(content) ==
  PutUint32(Len(content) + 1) \o content \o <<Newline>>

\* Mutant: the newline is not counted by the check of the size.
FitsWithoutNewline(content) == Len(content) <= Limit
Fits(content) == Len(content) < Limit

\* sendMessage refuses a content that is too big and writes nothing; SendBytes
\* of the client library does so when it is told to check the size.
Send(content, checkSize) ==
  /\ ~closed /\ Len(sent) < MaxSent
  /\ checkSize => Fits(content)
  /\ sent' = Append(sent, content)
  /\ stream' = stream \o Frame(content)
  /\ UNCHANGED <<closed, reader, incoming, err>>

\* The socket is closed or breaks; the bytes after some point are lost.
Cut ==
  /\ ~closed
  /\ closed' = TRUE
  /\ \E n \in 0 .. Len(stream) : stream' = SubSeq(stream, 1, n)
  /\ UNCHANGED <<sent, reader, incoming, err>>

Maximum == IF incoming = <<>> THEN FirstLimit ELSE Limit

\* The reader stops for good after an error.
Stop(e) ==
  /\ reader' = [reader EXCEPT !.pc = "stopped"]
  /\ err' = e
  /\ UNCHANGED incoming

\* io.ReadFull of n bytes, which are taken from the stream.
Available(n) == Len(stream) >= n
Take(n) == stream' = SubSeq(stream, n + 1, Len(stream))

ReadSize ==
  /\ reader.pc = "size" /\ Available(4) /\ Take(4)
  /\ LET contentSize == Uint32(stream)
     IN IF contentSize > Maximum
        THEN Stop("too big")
        ELSE /\ reader' = [pc |-> "content", size |-> contentSize]
             /\ UNCHANGED <<incoming, err>>
  /\ UNCHANGED <<sent, closed>>

\* The final newline is white space to json.Unmarshal.
Unmarshalled(buf) ==
  IF buf # <<>> /\ buf[Len(buf)] = Newline THEN SubSeq(buf, 1, Len(buf) - 1)
  ELSE buf

\* Mutant: Read instead of io.ReadFull takes the bytes that there are.
ReadContentShort ==
  /\ reader.pc = "content" /\ stream # <<>> /\ stream' = <<>>
  /\ LET n == IF Available(reader.size) THEN reader.size ELSE Len(stream)
     IN /\ Unmarshalled(SubSeq(stream, 1, n)) \in Json
        /\ incoming' = Append(incoming, Unmarshalled(SubSeq(stream, 1, n)))
  /\ reader' = [pc |-> "size", size |-> 0]
  /\ UNCHANGED <<sent, closed, err>>

ReadContent ==
  /\ reader.pc = "content" /\ Available(reader.size) /\ Take(reader.size)
  /\ LET contentBuf == SubSeq(stream, 1, reader.size)
     IN IF Unmarshalled(contentBuf) \in Json
        THEN /\ incoming' = Append(incoming, Unmarshalled(contentBuf))
             /\ reader' = [pc |-> "size", size |-> 0]
             /\ UNCHANGED err
        ELSE Stop("not JSON")
  /\ UNCHANGED <<sent, closed>>

ReadFails ==
  /\ closed /\ stream' = <<>>
  /\ \/ reader.pc = "size" /\ ~Available(4)
     \/ reader.pc = "content" /\ ~Available(reader.size)
  /\ Stop("read error")
  /\ UNCHANGED <<sent, closed>>

FramingNext ==
  \/ \E content \in Content, checkSize \in BOOLEAN : Send(content, checkSize)
  \/ Cut \/ ReadSize \/ ReadContent \/ ReadFails

-----------------------------------------------------------------------------
\* What the handler receives is what was sent, whole and in order, wherever
\* the socket is cut: a size is never taken for a content or the reverse.
DeliveredInOrder ==
  /\ Len(incoming) <= Len(sent)
  /\ \A i \in DOMAIN incoming : incoming[i] = sent[i]

\* The limits of the two sides agree.  The reader hands over nothing that is
\* above its limit, and it stops at a size only when the content is above the
\* limit; a content that passes the sender's check stops it only as the first
\* message, whose limit is smaller.  Otherwise only a content that is not JSON,
\* or the end of the socket, stops the reader.
AcceptedFits ==
  /\ \A i \in DOMAIN incoming :
       Len(incoming[i]) + 1 <= IF i = 1 THEN FirstLimit ELSE Limit
  /\ err = "too big" =>
       LET content == sent[Len(incoming) + 1]
       IN Len(content) + 1 > Maximum /\ (Fits(content) => incoming = <<>>)
  /\ err = "not JSON" => sent[Len(incoming) + 1] \notin Json
  /\ err = "read error" => closed
=============================================================================
