--------------------------------- MODULE Conn ---------------------------------
(***************************************************************************)
(* One connection on its worker: TcpConnection, Buffer, Channel, and what  *)
(* EventLoop and EpollDispatcher do for it.  The main thread makes it, its *)
(* worker's loop reads, handles and sends, and other threads (the workers  *)
(* of other players, the turn checker) write to it through the callback in *)
(* RoomList.  Bytes are pieces: a package is its head and its body.        *)
(***************************************************************************)
EXTENDS Naturals, Sequences, SequencesExt

CONSTANTS
  Main,       \* the thread that accepts connections
  Loop,       \* the worker the connection belongs to
  Writer,     \* other threads; each has one message for this client
  Request,    \* what the client may ask, each once
  Bye,        \* the requests that end the connection
  Key,        \* the server's public key, the first message
  None        \* no message

ASSUME ConstantsAssumption ==
  /\ Bye \subseteq Request
  /\ Main # Loop /\ {Main, Loop} \cap Writer = {}
  /\ Key \notin Request \cup Writer /\ None \notin Request \cup Writer \cup {Key}
  /\ Request \cap Writer = {}

Thread == {Main, Loop} \cup Writer
Message == {Key} \cup Request \cup Writer
Package(m) == <<<<m, "head">>, <<m, "body">>>>
Piece == (Message \cup {None}) \X {"head", "body"}
Junk == <<None, "body">>        \* what racing threads leave in a buffer

VARIABLES
  conn,       \* "new": not yet added, "open", "gone": destroyed
  events,     \* m_channel->m_events: "read" or "write", never both
  interest,   \* what epoll watches for the connection
  taskQ,      \* m_taskQ, of the tasks for this connection
  wake,       \* there are bytes in the loop's socket pair
  rbuf,       \* m_readBuf, what is readable
  wbuf,       \* m_writeBuf, what is readable
  toServer,   \* pieces that reached the server's socket, not yet read
  toClient,   \* pieces sent to the client
  closed,     \* the client has closed its end
  reset,      \* the socket is in error
  pc,         \* where each thread is
  asked,      \* history: requests sent
  handled,    \* history: requests handled
  queued,     \* history: messages given to addWriteTask and prepareSecretKey
  garbled,    \* history: a piece of a package was parsed as a whole one
  crowded,    \* history: a request was sent before the last one was handled
  overlapped  \* history: two threads were at the write buffer at once

net == <<toServer, toClient, closed, reset>>
loop == <<conn, interest, taskQ>>
reading == <<rbuf, asked, handled, garbled, crowded>>
vars == <<loop, events, wake, wbuf, pc, queued, overlapped, net, reading>>

Init ==
  /\ conn = "new" /\ events = "write" /\ interest = "none"
  /\ taskQ = << >> /\ wake = FALSE
  /\ rbuf = << >> /\ wbuf = << >> /\ toServer = << >> /\ toClient = << >>
  /\ closed = FALSE /\ reset = FALSE
  /\ pc = [t \in Thread |-> IF t = Main THEN "new"
                            ELSE IF t = Loop THEN "wait" ELSE "idle"]
  /\ asked = << >> /\ handled = << >> /\ queued = << >>
  /\ garbled = FALSE /\ crowded = FALSE /\ overlapped = FALSE

At(t, here) == pc[t] = here
Goto(t, there) == pc' = [pc EXCEPT ![t] = there]

\* between the first and the last step on buffer and events
Busy(t) == pc[t] \in {"body", "event", "push", "check", "calm"}
Others(t) == \E u \in Thread \ {t} : Busy(u)
Watch == overlapped' = (overlapped \/ \E t \in Thread : Busy(t)' /\ Others(t)')

\* what is written to a buffer or a stream with junk in it is junk
Torn(s) == Junk \in ToSet(s)
Put(s, pieces) == IF Torn(s) THEN s ELSE s \o pieces

\* m_writeBuf after a step of t that should leave it s: if another thread is
\* at it too, its positions and its memory can be anything
Buffered(t, s) == wbuf' \in IF Others(t) THEN {s, <<Junk>>} ELSE {s}
-----------------------------------------------------------------------------
(* Mutations *)

\* the write event is not set
SetWriteOff(t) ==
  /\ At(t, "event") /\ Goto(t, "push")
  /\ UNCHANGED <<loop, events, wake, wbuf, queued, net, reading>>

\* the loop goes back to reading although something is left to send
CheckOff ==
  /\ At(Loop, "check") /\ Goto(Loop, "calm")
  /\ UNCHANGED <<loop, events, wake, wbuf, queued, net, reading>>

\* the loop never goes back to reading
CheckNever ==
  /\ At(Loop, "check") /\ Goto(Loop, "tasks")
  /\ UNCHANGED <<loop, events, wake, wbuf, queued, net, reading>>

\* the end of the stream is taken for an empty read
EndOfStreamOff ==
  /\ At(Loop, "wait") /\ conn = "open" /\ interest = "read"
  /\ closed /\ ~reset /\ toServer = << >>
  /\ Goto(Loop, "tasks")
  /\ UNCHANGED <<loop, events, wake, wbuf, queued, net, reading>>

\* the read position stays where it was
RestOff(s) == s

\* the write event is cleared, and no other set
SetReadOff ==
  /\ At(Loop, "calm") /\ Goto(Loop, "push")
  /\ events' = "none"
  /\ UNCHANGED <<loop, wake, wbuf, queued, net, reading>>
-----------------------------------------------------------------------------
(* The client, as the code in src/ sees it *)

Ask(r) ==
  /\ ~closed /\ r \notin ToSet(asked) /\ conn # "gone"
  /\ asked' = Append(asked, r)
  /\ toServer' = toServer \o Package(r)
  /\ crowded' = (crowded \/ Len(handled) < Len(asked))
  /\ UNCHANGED <<loop, events, wake, wbuf, pc, queued, overlapped>>
  /\ UNCHANGED <<toClient, closed, reset, rbuf, handled, garbled>>

\* the client closes, in order or not
Close ==
  /\ ~closed /\ closed' = TRUE
  /\ reset' \in BOOLEAN
  /\ UNCHANGED <<loop, events, wake, wbuf, pc, queued, overlapped, reading>>
  /\ UNCHANGED <<toServer, toClient>>
-----------------------------------------------------------------------------
(* EventLoop::addTask *)

\* acceptConnection: the constructor queues the key and the task
AcceptConnection ==
  /\ At(Main, "new") /\ Goto(Main, "wake")
  /\ wbuf' = Package(Key)
  /\ queued' = <<Key>>
  /\ events' = "write"
  /\ taskQ' = Append(taskQ, "add")
  /\ UNCHANGED <<conn, interest, wake, overlapped, net, reading>>

\* taskWakeup, by a thread that is not the loop's
TaskWakeup(t) ==
  /\ At(t, "wake") /\ Goto(t, "done")
  /\ wake' = TRUE
  /\ UNCHANGED <<loop, events, wbuf, queued, net, reading>>

\* addTask(MODIFY), after which the loop's own thread runs processTaskQ
AddModify(t) ==
  /\ At(t, "push") /\ Goto(t, IF t = Loop THEN "tasks" ELSE "wake")
  /\ taskQ' = Append(taskQ, "modify")
  /\ UNCHANGED <<conn, interest, events, wake, wbuf, queued, net, reading>>
-----------------------------------------------------------------------------
(* TcpConnection::addWriteTask, on any thread.  The message of the loop is  *)
(* the answer to the request it handles.                                   *)

Text(t) == IF t = Loop THEN Last(handled) ELSE t

\* a message for the player, through the callback that RoomList has of it
Tell(w) ==
  /\ At(w, "idle") /\ conn = "open" /\ handled # << >>
  /\ Goto(w, "head")
  /\ UNCHANGED <<loop, events, wake, wbuf, queued, net, reading>>

AppendHead(t) ==
  /\ At(t, "head") /\ Goto(t, "body")
  /\ Buffered(t, Put(wbuf, <<<<Text(t), "head">>>>))
  /\ queued' = Append(queued, Text(t))
  /\ UNCHANGED <<loop, events, wake, net, reading>>

AppendBody(t) ==
  /\ At(t, "body") /\ Goto(t, "event")
  /\ Buffered(t, Put(wbuf, <<<<Text(t), "body">>>>))
  /\ UNCHANGED <<loop, events, wake, queued, net, reading>>

\* setCurrentEvent(WriteEvent), which takes the read event away
SetWrite(t) ==
  /\ At(t, "event") /\ Goto(t, "push")
  /\ events' = "write"
  /\ UNCHANGED <<loop, wake, wbuf, queued, net, reading>>

AddWriteTask(t) == AppendHead(t) \/ AppendBody(t) \/ SetWrite(t) \/ AddModify(t)
-----------------------------------------------------------------------------
(* EventLoop::run: dispatch, then processTaskQ *)

Watched(ev) == At(Loop, "wait") /\ conn = "open" /\ interest = ev /\ ~reset

\* readMessge
ReadMessage ==
  /\ At(Loop, "wait") /\ wake
  /\ wake' = FALSE /\ Goto(Loop, "tasks")
  /\ UNCHANGED <<loop, events, wbuf, queued, net, reading>>

\* epoll_wait ends after two seconds, or for an event that dispatch skips
Timeout ==
  /\ At(Loop, "wait") /\ taskQ # << >> /\ Goto(Loop, "tasks")
  /\ UNCHANGED <<loop, events, wake, wbuf, queued, net, reading>>

\* processRead with data: socketRead takes what has arrived
SocketRead ==
  /\ Watched("read") /\ Goto(Loop, "parse")
  /\ \E n \in 1 .. Len(toServer) :
       /\ rbuf' = rbuf \o SubSeq(toServer, 1, n)
       /\ toServer' = SubSeq(toServer, n + 1, Len(toServer))
  /\ UNCHANGED <<loop, events, wake, wbuf, queued>>
  /\ UNCHANGED <<toClient, closed, reset, asked, handled, garbled, crowded>>

\* processRead at the end of the stream: addDeleteTask
EndOfStream ==
  /\ Watched("read") /\ closed /\ toServer = << >>
  /\ taskQ' = Append(taskQ, "delete") /\ Goto(Loop, "tasks")
  /\ UNCHANGED <<conn, interest, events, wake, wbuf, queued, net, reading>>

Rest(s) == SubSeq(s, 3, Len(s))

\* the read buffer begins with a whole package
Whole == Len(rbuf) >= 2 /\ ~garbled /\ rbuf[1][2] = "head" /\ rbuf[2] = <<rbuf[1][1], "body">>

\* parseRequest: one package, whatever else the buffer holds
ParseRequest ==
  /\ At(Loop, "parse") /\ Whole
  /\ rbuf' = Rest(rbuf)
  /\ handled' = Append(handled, rbuf[1][1])
  /\ IF rbuf[1][1] \in Bye
     THEN taskQ' = Append(taskQ, "delete") /\ Goto(Loop, "tasks")
     ELSE UNCHANGED taskQ /\ Goto(Loop, "head")
  /\ UNCHANGED <<conn, interest, events, wake, wbuf, queued, net>>
  /\ UNCHANGED <<asked, garbled, crowded>>

\* part of a package is read past its end: m_readPos runs ahead of m_writePos,
\* and neither this nor any later package is understood
ParsePart ==
  /\ At(Loop, "parse") /\ ~Whole
  /\ rbuf' = << >> /\ garbled' = TRUE /\ Goto(Loop, "tasks")
  /\ UNCHANGED <<loop, events, wake, wbuf, queued, net, asked, handled, crowded>>

\* processWrite: sendData sends some of the buffer.  A client that has closed
\* answers with a reset.
SendData ==
  /\ Watched("write") /\ wbuf # << >> /\ Goto(Loop, "check")
  /\ \E n \in 1 .. Len(wbuf) :
       /\ Buffered(Loop, SubSeq(wbuf, n + 1, Len(wbuf)))
       /\ toClient' = IF closed THEN toClient ELSE Put(toClient, SubSeq(wbuf, 1, n))
  /\ reset' = closed
  /\ UNCHANGED <<loop, events, wake, queued, toServer, closed, reading>>

\* has all been sent?
Check ==
  /\ At(Loop, "check") /\ Goto(Loop, IF wbuf = << >> THEN "calm" ELSE "tasks")
  /\ UNCHANGED <<loop, events, wake, wbuf, queued, net, reading>>

\* setCurrentEvent(ReadEvent)
SetRead ==
  /\ At(Loop, "calm") /\ Goto(Loop, "push")
  /\ events' = "read"
  /\ UNCHANGED <<loop, wake, wbuf, queued, net, reading>>

\* what the tasks do.  The channel of a connection that is gone is not in the
\* map, and such a task does nothing.
EpollCtl == interest' = events
AddChannel == conn' = "open" /\ EpollCtl
ModifyChannel == conn = "open" /\ EpollCtl /\ UNCHANGED conn
RemoveChannel == conn = "open" /\ conn' = "gone" /\ interest' = "none"
NoChannel == conn # "open" /\ UNCHANGED <<conn, interest>>

\* processTaskQ
ProcessTask ==
  /\ At(Loop, "tasks") /\ taskQ # << >>
  /\ taskQ' = Tail(taskQ)
  /\ \/ Head(taskQ) = "add" /\ AddChannel
     \/ Head(taskQ) = "modify" /\ ModifyChannel
     \/ Head(taskQ) = "delete" /\ RemoveChannel
     \/ Head(taskQ) # "add" /\ NoChannel
  /\ UNCHANGED <<events, wake, wbuf, pc, queued, net, reading>>

TasksDone ==
  /\ At(Loop, "tasks") /\ taskQ = << >> /\ Goto(Loop, "wait")
  /\ UNCHANGED <<loop, events, wake, wbuf, queued, net, reading>>
-----------------------------------------------------------------------------
LoopStep ==
  /\ \/ ReadMessage \/ Timeout \/ SocketRead \/ EndOfStream \/ ParseRequest
     \/ ParsePart \/ SendData \/ Check \/ SetRead \/ ProcessTask \/ TasksDone
     \/ AddWriteTask(Loop)
  /\ Watch

WriterStep(w) == (AddWriteTask(w) \/ TaskWakeup(w)) /\ Watch
TellStep(w) == Tell(w) /\ Watch
MainStep == AcceptConnection \/ (TaskWakeup(Main) /\ Watch)
Client == Close \/ \E r \in Request : Ask(r)

Next == LoopStep \/ MainStep \/ Client \/ \E w \in Writer : TellStep(w) \/ WriterStep(w)

\* the threads run; the client may stop anywhere, and nobody has to write
Fairness ==
  /\ WF_vars(LoopStep) /\ WF_vars(MainStep)
  /\ \A w \in Writer : WF_vars(WriterStep(w))

Spec == Init /\ [][Next]_vars /\ Fairness
-----------------------------------------------------------------------------
(* Properties *)

\* where a thread can be
Places == {"new", "idle", "head", "body", "event", "push", "wake",
           "done", "wait", "parse", "check", "calm", "tasks"}

TypeOK ==
  /\ conn \in {"new", "open", "gone"}
  /\ events \in {"read", "write"} /\ interest \in {"none", "read", "write"}
  /\ taskQ \in Seq({"add", "modify", "delete"}) /\ wake \in BOOLEAN
  /\ rbuf \in Seq(Piece) /\ wbuf \in Seq(Piece)
  /\ toServer \in Seq(Piece) /\ toClient \in Seq(Piece)
  /\ closed \in BOOLEAN /\ reset \in BOOLEAN
  /\ pc \in [Thread -> Places]
  /\ asked \in Seq(Request) /\ handled \in Seq(Message) /\ queued \in Seq(Message)
  /\ garbled \in BOOLEAN /\ crowded \in BOOLEAN /\ overlapped \in BOOLEAN

\* Unless two threads have been at the write buffer at once, epoll watches
\* for writing exactly while there is something to write and for reading
\* otherwise, whenever every task has run: processWrite, addWriteTask, modify.
InterestFollowsData ==
  (At(Loop, "wait") /\ ~Others(Loop) /\ taskQ = << >> /\ conn = "open" /\ ~overlapped)
    => (interest = "write" <=> wbuf # << >>)

\* The messages of a piece of stream that is all packages.
Frames(s) == [i \in 1 .. Len(s) \div 2 |-> s[2 * i][1]]

\* Requests are handled in the order in which they were sent, none twice and
\* none that was not sent, however they arrive: parseRequest's framing.
HandledInOrder == garbled \/ IsPrefix(handled, asked)

\* Messages written to a connection by handlers on any thread reach a client
\* that stays, whole, once and in order, as long as no two threads are at the
\* buffer at once: addWriteTask and processWrite implement a pipe.
Replies == INSTANCE Pipe WITH
  accepted <- queued, delivered <- Frames(toClient), open <- ~closed,
  intact <- ~overlapped /\ ~reset /\ conn # "gone"
RepliesArrive == Replies!Spec

\* What a client sends one request at a time is handled: parseRequest and
\* processRead implement a pipe, if every package arrives in one piece.
Requests == INSTANCE Pipe WITH
  accepted <- asked, delivered <- handled, open <- ~closed,
  intact <- ~crowded /\ ~garbled /\ ~overlapped /\ ~reset /\ conn # "gone"
RequestsAreHandled == Requests!Spec

\* A connection that its client closes is destroyed, which is how its player
\* is found to be away, unless the socket is in error, which dispatch skips:
\* processRead, addDeleteTask, remove.
ClosedIsDestroyed ==
  []~reset /\ []~overlapped => (closed ~> conn = "gone")

\* README.md, line 9: the protocol solves sticky packets.  Requests that
\* arrive together are all handled.
StickyPackets ==
  []~closed /\ []~garbled /\ []~overlapped =>
    (Len(handled) < Len(asked) ~> conn = "gone" \/ Len(handled) = Len(asked))
=============================================================================
