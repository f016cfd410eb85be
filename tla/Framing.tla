------------------------------- MODULE Framing -------------------------------
(***************************************************************************)
(* How a message crosses a connection: mySend (include/mysock.c) to RecvProc *)
(* (swssvc/sservice.cpp) on the way to the server, SendProc to myRecv on the *)
(* way back.  A frame is a length of PrefixBytes bytes and the message, sent *)
(* in pieces of at most Buffer bytes into a stream that hands out pieces of  *)
(* any size.  In the client two threads send, under gSection.  The server    *)
(* receives again when it has answered, and only then.                      *)
(*                                                                         *)
(* Byte i of the frame of m is <<m, i>>.  External: the stream.             *)
(***************************************************************************)
EXTENDS Naturals, Sequences

CONSTANTS
  Messages,      \* the messages that may be sent
  Length,        \* their lengths
  Answered,      \* those the server answers: no heartbeat, no refused request
  Clients,       \* the threads of the client that send
  Worker,        \* the server, which sends replies
  Nobody,        \* the section is free
  Unknown,       \* the length of the message is not known yet
  Garbage,       \* bytes that are no message
  PrefixBytes,   \* sizeof(size)
  Buffer,        \* BUFFER_SIZE
  MaxTodo        \* bound on the messages of one sender

Senders == Clients \union {Worker}

ASSUME FramingAssumption ==
  /\ Length \in [Messages -> Nat] /\ Answered \subseteq Messages
  /\ Worker \notin Clients /\ Nobody \notin Senders
  /\ Unknown \notin Nat /\ Garbage \notin Messages
  /\ PrefixBytes \in Nat \ {0} /\ Buffer \in Nat \ {0} /\ MaxTodo \in Nat

VARIABLES
  way,       \* "request": client to server; "reply": server to client
  todo,      \* each sender's messages, the one it is sending first
  put,       \* how many bytes of its frame are in the stream
  section,   \* who is in gSection
  wire,      \* the stream: bytes that were sent and not received
  size,      \* the reader: the length of the message, once it is known
  buffer,    \* the bytes it has stored; offset is their number
  reader,    \* "receives", "answers", is "silent": it does neither and nothing will
             \* make it, has "ended", or "spins" at the end of the stream
  closed,    \* the sending side has closed the connection
  broken,    \* a length did not arrive in one piece, not as it was sent, or not at all
  begun,     \* the messages in the order in which their lengths were sent
  received   \* the messages that were received

sending == <<todo, put, section, begun>>
receiving == <<size, buffer, reader, received>>
vars == <<way, sending, wire, receiving, closed, broken>>

FrameLength(m) == PrefixBytes + Length[m]
Bytes(m, i, j) == [k \in 1..(j - i + 1) |-> <<m, i + k - 1>>]

Least(i, j) == IF i < j THEN i ELSE j

\* The message b is, if all of it is there and in order.
Decoded(b) ==
  LET whole == {m \in Messages : b = Bytes(m, PrefixBytes + 1, FrameLength(m))}
  IN IF whole # {} THEN CHOOSE m \in whole : TRUE ELSE Garbage

\* Mutant of Allocated: the client's macro on the server.
AllocatedTight(n) == ((n + Buffer - 1) \div Buffer) * Buffer

\* ALIGNLENGHT: in sevdef.h it counts the terminating zero, in mysock.h it does not.
Allocated(n) ==
  LET bytes == IF way = "request" THEN n + 1 ELSE n
  IN ((bytes + Buffer - 1) \div Buffer) * Buffer

TypeOK ==
  /\ way \in {"request", "reply"}
  /\ todo \in [Senders -> Seq(Messages)]
  /\ put \in [Senders -> Nat]
  /\ section \in Senders \union {Nobody}
  /\ wire \in Seq(Messages \X Nat) /\ buffer \in Seq(Messages \X Nat)
  /\ size \in Nat \union {Unknown}
  /\ reader \in {"receives", "answers", "silent", "ended", "spins"}
  /\ closed \in BOOLEAN /\ broken \in BOOLEAN
  /\ begun \in Seq(Messages) /\ received \in Seq(Messages \union {Garbage})

-----------------------------------------------------------------------------
(* mySend and SendProc.                                                    *)

Current(w) == Head(todo[w])
Sending(w) == ~closed /\ todo[w] # <<>>

\* EnterCriticalSection(section), in the client only.
Enter(w) ==
  /\ w \in Clients /\ Sending(w) /\ put[w] = 0 /\ section = Nobody
  /\ section' = w
  /\ UNCHANGED <<way, todo, put, begun, wire, receiving, closed, broken>>

\* Mutant of MaySend: the caller passes no section.
MaySendAlways(w) == Sending(w)

MaySend(w) == Sending(w) /\ (w \in Clients => section = w)

\* The length goes out in one call.  SendProc hands WSASend a variable of its own
\* and returns: when the call does not copy it at once, the length sent is whatever
\* the stack holds by then.
PutLength(w) ==
  /\ MaySend(w) /\ put[w] = 0
  /\ \/ /\ wire' = wire \o Bytes(Current(w), 1, PrefixBytes)
        /\ UNCHANGED broken
     \/ /\ w = Worker
        /\ broken' = TRUE
        /\ UNCHANGED wire
  /\ put' = [put EXCEPT ![w] = PrefixBytes]
  /\ begun' = Append(begun, Current(w))
  /\ UNCHANGED <<way, todo, section, receiving, closed>>

\* The next piece, of which send may take less than it is given.
PutPiece(w) ==
  /\ MaySend(w) /\ put[w] \in PrefixBytes..(FrameLength(Current(w)) - 1)
  /\ \E n \in 1..Least(Buffer, FrameLength(Current(w)) - put[w]) :
       /\ wire' = wire \o Bytes(Current(w), put[w] + 1, put[w] + n)
       /\ put' = [put EXCEPT ![w] = @ + n]
  /\ UNCHANGED <<way, todo, section, begun, receiving, closed, broken>>

\* Mutant of Finish: the section is not left.
FinishInside(w) ==
  /\ MaySend(w) /\ put[w] = FrameLength(Current(w))
  /\ todo' = [todo EXCEPT ![w] = Tail(@)]
  /\ put' = [put EXCEPT ![w] = 0]
  /\ UNCHANGED <<way, section, begun, wire, receiving, closed, broken>>

Finish(w) ==
  /\ MaySend(w) /\ put[w] = FrameLength(Current(w))
  /\ todo' = [todo EXCEPT ![w] = Tail(@)]
  /\ put' = [put EXCEPT ![w] = 0]
  /\ section' = IF w \in Clients THEN Nobody ELSE section
  /\ UNCHANGED <<way, begun, wire, receiving, closed, broken>>

\* The sender's side closes the connection, be it in the middle of a message.
Close ==
  /\ ~closed
  /\ closed' = TRUE
  /\ UNCHANGED <<way, sending, wire, receiving, broken>>

-----------------------------------------------------------------------------
(* RecvProc and myRecv.                                                    *)

\* What the reader does next.  The client receives the next reply.  In the server the
\* worker has the message: only SendProc, behind a reply, asks for the next one.  An
\* empty one never gets to the worker.
After(m) ==
  {r \in {"receives", "answers", "silent"} :
     IF way = "reply" \/ (m \in Messages /\ Length[m] = 0)
       THEN r = "receives"
       ELSE r # "receives" /\ (m \in Messages => (r = "answers" <=> m \in Answered))}

\* The message is complete.
Received(m) ==
  /\ received' = Append(received, m)
  /\ size' = Unknown
  /\ buffer' = <<>>
  /\ reader' \in After(m)

\* What there is of the length is taken for all of it.  A message of length 0 is
\* complete; RecvProc receives again.
ReceiveLength ==
  /\ reader = "receives" /\ size = Unknown /\ wire # <<>>
  /\ LET m == wire[1][1]
     IN \/ /\ Len(wire) >= PrefixBytes
           /\ wire' = SubSeq(wire, PrefixBytes + 1, Len(wire))
           /\ IF SubSeq(wire, 1, PrefixBytes) # Bytes(m, 1, PrefixBytes)
                THEN Received(Garbage)
                ELSE IF Length[m] = 0 THEN Received(m)
                     ELSE size' = Length[m] /\ UNCHANGED <<buffer, reader, received>>
           /\ UNCHANGED broken
        \/ /\ PrefixBytes > 1
           /\ broken' = TRUE
           /\ UNCHANGED <<wire, receiving>>
  /\ UNCHANGED <<way, sending, closed>>

\* How many bytes the next receive asks for.
Wanted == Least(Buffer, size - Len(buffer))

ReceivePiece ==
  /\ reader = "receives" /\ size # Unknown /\ wire # <<>>
  /\ \E n \in 1..Least(Wanted, Len(wire)) :
       LET stored == buffer \o SubSeq(wire, 1, n)
       IN /\ wire' = SubSeq(wire, n + 1, Len(wire))
          /\ IF Len(stored) >= size
               THEN Received(Decoded(stored))
               ELSE buffer' = stored /\ UNCHANGED <<size, reader, received>>
  /\ UNCHANGED <<way, sending, closed, broken>>

\* SendProc sends the reply and receives again.  Towards a client that is gone the
\* send may end in an error, which closes the connection, or fail at once, which
\* nobody looks at.
Answer ==
  /\ reader = "answers"
  /\ reader' \in {"receives"} \union IF closed THEN {"ended", "silent"} ELSE {}
  /\ UNCHANGED <<way, sending, wire, size, buffer, received, closed, broken>>

\* Mutant of EndOfStream: the server does as myRecv does.
EndOfStreamSpins ==
  /\ closed /\ wire = <<>> /\ reader = "receives"
  /\ reader' = "spins"
  /\ UNCHANGED <<way, sending, wire, size, buffer, received, closed, broken>>

\* A receive that gives no bytes.  ServerThread closes the socket.  myRecv stores
\* nothing and asks again, for ever; when it was to receive a length, it goes on with
\* one that was never set: it may find no memory for it, or take it for the length of
\* an empty message that nobody sent.
EndOfStream ==
  /\ closed /\ wire = <<>> /\ reader = "receives"
  /\ \/ way = "request" /\ reader' = "ended" /\ UNCHANGED broken
     \/ way = "reply" /\ reader' = "spins" /\ UNCHANGED broken
     \/ way = "reply" /\ size = Unknown /\ reader' = "ended" /\ UNCHANGED broken
     \/ way = "reply" /\ size = Unknown /\ broken' = TRUE /\ UNCHANGED reader
  /\ UNCHANGED <<way, sending, wire, size, buffer, received, closed>>

-----------------------------------------------------------------------------

\* The messages of one sender.
Todos == UNION {[1..n -> Messages] : n \in 0..MaxTodo}

Init ==
  /\ \/ way = "request" /\ todo \in [Senders -> Todos] /\ todo[Worker] = <<>>
     \/ way = "reply" /\ todo \in [Senders -> Todos] /\ \A w \in Clients : todo[w] = <<>>
  /\ put = [w \in Senders |-> 0]
  /\ section = Nobody
  /\ wire = <<>>
  /\ size = Unknown /\ buffer = <<>> /\ reader = "receives" /\ received = <<>>
  /\ closed = FALSE /\ broken = FALSE
  /\ begun = <<>>

SendStep(w) == Enter(w) \/ PutLength(w) \/ PutPiece(w) \/ Finish(w)
ReceiveStep == ReceiveLength \/ ReceivePiece \/ Answer \/ EndOfStream

\* After a length that is not the one sent, reader and sender no longer agree where
\* a message begins, and the specification ends.
Next ==
  /\ ~broken
  /\ \/ \E w \in Senders : SendStep(w)
     \/ ReceiveStep
     \/ Close

\* Threads go on, what was sent arrives, and a reply that was asked for is sent.
Fairness ==
  /\ \A w \in Senders : WF_vars(~broken /\ SendStep(w))
  /\ WF_vars(~broken /\ ReceiveStep)

Spec == Init /\ [][Next]_vars /\ Fairness

-----------------------------------------------------------------------------
(* Properties.                                                             *)

Chan == INSTANCE Channel WITH sent <- begun, received <- received

\* However the stream cuts them up and whichever thread sends, messages arrive whole,
\* once, and in the order in which they were begun: the heartbeat of one thread never
\* gets into a request of the other (gSection in mySend).
KeepsChannel == Chan!Spec

\* The zero that ends a message is written into the memory allocated for it, in the
\* client except when the message fills its last buffer (ALIGNLENGHT, RecvProc, myRecv).
WithinBuffer ==
  size # Unknown =>
    /\ Len(buffer) < size
    /\ size < Allocated(size) \/ (way = "reply" /\ size % Buffer = 0)

\* The server has received a message and will not answer it.
Unanswered ==
  /\ way = "request" /\ received # <<>>
  /\ LET m == received[Len(received)]
     IN m \in Messages => m \notin Answered /\ Length[m] # 0

\* What was to be sent is received, as long as the connection is not closed and up to
\* the first message that the server does not answer (SendProc, RecvProc).
EveryMessageArrives ==
  <>(broken \/ closed \/ Unanswered \/ (received = begun /\ \A w \in Senders : todo[w] = <<>>))

\* No whole message is left for the reader.
NoneWhole ==
  \/ received = begun
  \/ /\ Len(begun) = Len(received) + 1
     /\ \E w \in Senders : put[w] # 0 /\ put[w] < FrameLength(Current(w))

\* A server that receives notices the end of the connection, wherever in a message it
\* comes (ServerThread); of myRecv, and of a server that is silent, this cannot be said.
EndIsSeen ==
  way = "request" /\ closed /\ reader = "receives" /\ NoneWhole ~> broken \/ reader = "ended"
=============================================================================
