------------------------------ MODULE ConnProofs ------------------------------
(***************************************************************************)
(* Proofs about Conn for any number of other threads that write to the     *)
(* connection, and any requests: its types, that epoll watches for what is *)
(* needed, that requests are handled in order, and that both directions    *)
(* implement the safety part of a pipe.                                    *)
(***************************************************************************)
EXTENDS Conn, SequenceTheorems, TLAPS

\* where each kind of thread can be
MainSteps   == {"new", "wake", "done"}
WriterSteps == {"idle", "head", "body", "event", "push", "wake", "done"}
LoopSteps   == {"wait", "parse", "head", "body", "event", "push", "check", "calm", "tasks"}

PlacesOK ==
  /\ DOMAIN pc = Thread
  /\ pc \in [Thread -> MainSteps \cup WriterSteps \cup LoopSteps]
  /\ pc[Main] \in MainSteps /\ pc[Loop] \in LoopSteps
  /\ \A w \in Writer : pc[w] \in WriterSteps

\* The connection is in the loop's hands while the loop works for it, and
\* nobody writes to it before that.
StageOK ==
  /\ pc[Main] = "new" =>
       conn = "new" /\ events = "write" /\ wbuf = << >> /\ taskQ = << >>
  /\ conn = "new" =>
       /\ \A w \in Writer : pc[w] = "idle"
       /\ pc[Loop] \in {"wait", "tasks"}
  /\ pc[Loop] \notin {"wait", "tasks"} => conn = "open"

\* Either two threads have been at the write buffer at once, or at most one is.
AloneAtBuffer ==
  ~overlapped => \A t, u \in Thread : Busy(t) /\ Busy(u) => t = u

\* How the events and the buffer agree, when nobody is at them and at each
\* place where somebody is.
Agree == events = "write" <=> wbuf # << >>
EventsFollowData ==
  ~overlapped =>
    /\ pc[Main] # "new" /\ (\A t \in Thread : ~Busy(t)) => Agree
    /\ \A t \in Thread :
         /\ pc[t] \in {"body", "event"} => wbuf # << >>
         /\ pc[t] = "push" => Agree
         /\ pc[t] = "check" => events = "write"
         /\ pc[t] = "calm" => wbuf = << >>

\* Nothing but an event that has not been queued yet, or a queued task that has
\* not been run yet, keeps epoll from watching for the events.
InterestFollowsEvents ==
  (conn = "open" /\ taskQ = << >> /\ \A t \in Thread : pc[t] # "push")
    => interest = events

Inv ==
  /\ PlacesOK /\ StageOK /\ AloneAtBuffer
  /\ EventsFollowData /\ InterestFollowsEvents

\* What comes from the client is made of requests, and the loop answers one it
\* has handled.
Asked == Seq(Request \X {"head", "body"})
TypeInv ==
  /\ TypeOK
  /\ rbuf \in Asked /\ toServer \in Asked /\ handled \in Seq(Request)
  /\ pc[Loop] \in {"head", "body"} => handled # << >>

-----------------------------------------------------------------------------
USE DEF Places

\* A package is two pieces, and what is put behind a stream is of its pieces.
LEMMA PackageType ==
  ASSUME NEW m \in Message
  PROVE  /\ Package(m) \in Seq(Piece) /\ Package(m) # << >>
         /\ m \in Request => Package(m) \in Asked
  BY DEF Package, Piece, Asked

\* A stream that something is put behind stays a stream, and is not empty.
LEMMA PutType ==
  ASSUME NEW s \in Seq(Piece), NEW p \in Seq(Piece)
  PROVE  /\ Put(s, p) \in Seq(Piece)
         /\ p # << >> => Put(s, p) # << >>
<1>1. CASE Torn(s)
  BY <1>1 DEF Put, Torn, ToSet
<1>2. CASE ~Torn(s)
  <2>1. Put(s, p) = s \o p /\ Put(s, p) \in Seq(Piece)
    BY <1>2 DEF Put
  <2>2. Len(s \o p) = Len(s) + Len(p)
    OBVIOUS
  <2>3. p # << >> => Len(p) > 0
    OBVIOUS
  <2> QED BY <2>1, <2>2, <2>3
<1> QED BY <1>1, <1>2

\* What racing threads leave in the buffer is a piece.
LEMMA JunkType == <<Junk>> \in Seq(Piece) /\ <<Junk>> # << >>
  BY DEF Junk, Piece

\* The buffer after a step is what it should be, unless another thread is at it.
LEMMA BufferedType ==
  ASSUME NEW t, NEW s \in Seq(Piece), Buffered(t, s)
  PROVE  /\ wbuf' \in Seq(Piece)
         /\ s # << >> => wbuf' # << >>
         /\ ~Others(t) => wbuf' = s
<1>1. CASE Others(t)
  <2>1. wbuf' = s \/ wbuf' = <<Junk>>
    BY <1>1, Zenon DEF Buffered
  <2> QED BY <1>1, <2>1, JunkType
<1>2. CASE ~Others(t)
  BY <1>2 DEF Buffered
<1> QED BY <1>1, <1>2

\* The threads and the messages, as the assumptions have them.
LEMMA ThreadFacts ==
  /\ Main \in Thread /\ Loop \in Thread /\ Main # Loop
  /\ Writer = Thread \ {Main, Loop}
  /\ Request \subseteq Message /\ Writer \subseteq Message /\ Key \in Message
  BY ConstantsAssumption DEF Thread, Message

\* Whoever writes has a message to write.
LEMMA TextType ==
  ASSUME TypeInv, NEW t \in Thread \ {Main}, pc[t] \in {"head", "body"}
  PROVE  /\ Text(t) \in Message
         /\ <<<<Text(t), "head">>>> \in Seq(Piece) /\ <<<<Text(t), "body">>>> \in Seq(Piece)
<1>1. Text(t) \in Message
  <2>1. CASE t = Loop
    <3>1. Len(handled) \in 1 .. Len(handled)
      BY <2>1 DEF TypeInv
    <3> QED BY <2>1, <3>1, ThreadFacts DEF TypeInv, Text, Last
  <2>2. CASE t # Loop
    BY <2>2, ThreadFacts DEF Text
  <2> QED BY <2>1, <2>2
<1> QED BY <1>1 DEF Piece

\* Watch sees to it that nobody is beside another at the buffer unnoticed.
LEMMA WatchAlone ==
  ASSUME Watch
  PROVE  AloneAtBuffer' /\ (~overlapped' => ~overlapped)
  BY DEF Watch, AloneAtBuffer, Others

\* At first nobody is at the buffer.
LEMMA InvInit == Init => Inv
  BY ConstantsAssumption DEF Init, Inv, PlacesOK, StageOK, AloneAtBuffer,
     EventsFollowData, InterestFollowsEvents, Busy, Agree, Thread, MainSteps,
     WriterSteps, LoopSteps

\* Steps that touch none of what the invariant speaks of.
LEMMA InvStutter ==
  ASSUME Inv, UNCHANGED <<loop, events, wbuf, pc, overlapped>>
  PROVE  Inv'
  BY DEF Inv, PlacesOK, StageOK, AloneAtBuffer, EventsFollowData,
     InterestFollowsEvents, Busy, Agree, loop

\* A thread moves between places off the buffer.
LEMMA InvMove ==
  ASSUME Inv, NEW t \in Thread, NEW there, Goto(t, there), Watch,
         UNCHANGED <<loop, events, wbuf>>,
         PlacesOK', StageOK', pc[t] \notin {"push", "calm"},
         ~Busy(t), there \notin {"body", "event", "push", "check", "calm"},
         pc[Main] = "new" => pc'[Main] = "new"
  PROVE  Inv'
<1>1. \A u \in Thread : Busy(u)' <=> Busy(u)
  BY DEF Busy, Goto, Inv, PlacesOK
<1>2. EventsFollowData'
  BY <1>1, WatchAlone DEF Inv, EventsFollowData, Agree, Goto, PlacesOK
<1>3. InterestFollowsEvents'
  BY DEF Inv, InterestFollowsEvents, Goto, PlacesOK, loop
<1> QED BY <1>2, <1>3, WatchAlone DEF Inv

\* A step in a place of its own kind keeps every thread in its places.
LEMMA PlacesStep ==
  ASSUME PlacesOK, NEW t \in Thread, NEW there, Goto(t, there),
         \/ t = Main /\ there \in MainSteps
         \/ t = Loop /\ there \in LoopSteps
         \/ t \in Writer /\ there \in WriterSteps
  PROVE  PlacesOK' /\ pc'[t] = there /\ \A u \in Thread \ {t} : pc'[u] = pc[u]
  BY ConstantsAssumption DEF PlacesOK, Goto, Thread

\* Steps on the way from the loop's wait to its tasks, and back.
LEMMA InvLoopMove ==
  ASSUME Inv, NEW there \in {"wait", "parse", "head", "tasks"}, Goto(Loop, there), Watch,
         UNCHANGED <<loop, events, wbuf>>, pc[Loop] \in {"wait", "parse", "tasks"},
         there \in {"parse", "head"} => conn = "open"
  PROVE  Inv'
<1>1. Loop \in Thread /\ Main \in Thread /\ Main # Loop /\ Writer \subseteq Thread \ {Main, Loop}
  BY ConstantsAssumption DEF Thread
<1>2. PlacesOK' /\ pc'[Loop] = there /\ \A u \in Thread \ {Loop} : pc'[u] = pc[u]
  BY <1>1, PlacesStep DEF Inv, LoopSteps
<1>3. StageOK'
  BY <1>1, <1>2 DEF Inv, StageOK, loop
<1>4. ~Busy(Loop)
  BY DEF Busy
<1> QED BY <1>1, <1>2, <1>3, <1>4, InvMove

\* The loop's steps off the write buffer.
LEMMA InvLoop ==
  ASSUME Inv, ReadMessage \/ Timeout \/ SocketRead \/ ParsePart \/ TasksDone, Watch
  PROVE  Inv'
<1>1. CASE ReadMessage
  BY <1>1, InvLoopMove DEF ReadMessage, At
<1>2. CASE Timeout
  BY <1>2, InvLoopMove DEF Timeout, At
<1>3. CASE SocketRead
  BY <1>3, InvLoopMove DEF SocketRead, Watched, At
<1>4. CASE ParsePart
  BY <1>4, InvLoopMove DEF ParsePart, At
<1>5. CASE TasksDone
  BY <1>5, InvLoopMove DEF TasksDone, At
<1> QED BY <1>1, <1>2, <1>3, <1>4, <1>5

\* Of an unnoticed step to or from the buffer, the others stay away from it.
LEMMA OthersAway ==
  ASSUME Inv, Watch, NEW t \in Thread, Busy(t) \/ Busy(t)', ~overlapped',
         \A u \in Thread \ {t} : pc'[u] = pc[u]
  PROVE  /\ ~overlapped
         /\ \A u \in Thread \ {t} :
              /\ pc'[u] \notin {"body", "event", "push", "check", "calm"}
              /\ ~Busy(u) /\ ~Busy(u)'
<1>1. AloneAtBuffer /\ AloneAtBuffer' /\ ~overlapped
  BY WatchAlone DEF Inv
<1>2. \A u \in Thread \ {t} : Busy(u)' <=> Busy(u)
  BY DEF Busy
<1>3. \A u \in Thread \ {t} : ~Busy(u) /\ ~Busy(u)'
  BY <1>1, <1>2 DEF AloneAtBuffer
<1> QED BY <1>1, <1>3 DEF Busy

-----------------------------------------------------------------------------
\* The types

\* At first there is nothing of any kind.
LEMMA TypeInit == Init => TypeInv
<1> SUFFICES ASSUME Init PROVE TypeInv
  OBVIOUS
<1>1. /\ pc \in [Thread -> Places]
      /\ pc[Loop] = "wait"
  BY ThreadFacts DEF Init
<1>2. \A S : << >> \in Seq(S)
  OBVIOUS
<1> QED BY <1>1, <1>2 DEF Init, TypeInv, TypeOK, Asked

\* A thread of the server goes on to one of the places there are.
LEMMA GotoType ==
  ASSUME TypeOK, NEW t \in Thread, NEW there, Goto(t, there),
         there \in Places
  PROVE  /\ pc' \in [Thread -> Places]
         /\ pc'[t] = there /\ \A u \in Thread \ {t} : pc'[u] = pc[u]
  BY DEF TypeOK, Goto

\* The first pieces of a stream, and what is left without them.
LEMMA CutType ==
  ASSUME NEW S, NEW s \in Seq(S), NEW n \in Nat, n <= Len(s)
  PROVE  SubSeq(s, 1, n) \in Seq(S) /\ SubSeq(s, n + 1, Len(s)) \in Seq(S)
<1>1. Len(s) \in Nat /\ \A i \in 1 .. Len(s) : s[i] \in S
  OBVIOUS
<1>2. SubSeq(s, 1, n) \in Seq(S)
  BY <1>1, SubSeqProperties
<1>3. SubSeq(s, n + 1, Len(s)) \in Seq(S)
  BY <1>1, SubSeqProperties
<1> QED BY <1>2, <1>3

\* The client
LEMMA TypeClient ==
  ASSUME TypeInv, Client
  PROVE  TypeInv'
<1>1. CASE Close
  BY <1>1 DEF Close, TypeInv, TypeOK, loop, reading
<1>2. ASSUME NEW r \in Request, Ask(r)
      PROVE  TypeInv'
  <2>1. toServer' \in Asked /\ toServer' \in Seq(Piece)
    <3>1. Package(r) \in Asked /\ Package(r) \in Seq(Piece)
      BY PackageType, ThreadFacts
    <3> QED BY <1>2, <3>1 DEF Ask, TypeInv, TypeOK, Asked
  <2>2. asked' \in Seq(Request) /\ crowded' \in BOOLEAN
    BY <1>2 DEF Ask, TypeInv, TypeOK
  <2> QED BY <1>2, <2>1, <2>2 DEF Ask, TypeInv, TypeOK, loop
<1> QED BY <1>1, <1>2 DEF Client

\* What every thread does to write a message
LEMMA TypeAddWriteTask ==
  ASSUME TypeInv, NEW t \in Thread \ {Main}, AddWriteTask(t), Watch
  PROVE  TypeInv'
<1>1. overlapped' \in BOOLEAN
  BY DEF Watch, TypeInv, TypeOK
<1>2. CASE AppendHead(t)
  <2>1. wbuf' \in Seq(Piece) /\ queued' \in Seq(Message)
    <3>1. pc[t] = "head"
      BY <1>2 DEF AppendHead, At
    <3>2. Put(wbuf, <<<<Text(t), "head">>>>) \in Seq(Piece)
      BY <3>1, TextType, PutType DEF TypeInv, TypeOK
    <3>3. Text(t) \in Message /\ queued \in Seq(Message)
      BY <3>1, TextType DEF TypeInv, TypeOK
    <3>4. wbuf' \in Seq(Piece)
      BY <1>2, <3>2, BufferedType DEF AppendHead
    <3> QED BY <1>2, <3>3, <3>4 DEF AppendHead
  <2>2. /\ pc' \in [Thread -> Places]
        /\ pc[t] = "head" /\ pc'[t] = "body" /\ \A u \in Thread \ {t} : pc'[u] = pc[u]
    BY <1>2, GotoType DEF AppendHead, At, TypeInv
  <2>3. pc'[Loop] \in {"head", "body"} => handled' # << >>
    BY <1>2, <2>2, ThreadFacts DEF AppendHead, TypeInv, reading
  <2> QED BY <1>1, <1>2, <2>1, <2>2, <2>3
          DEF AppendHead, TypeInv, TypeOK, loop, net, reading
<1>3. CASE AppendBody(t)
  <2>1. wbuf' \in Seq(Piece)
    <3>1. pc[t] = "body"
      BY <1>3 DEF AppendBody, At
    <3>2. Put(wbuf, <<<<Text(t), "body">>>>) \in Seq(Piece)
      BY <3>1, TextType, PutType DEF TypeInv, TypeOK
    <3> QED BY <1>3, <3>2, BufferedType DEF AppendBody
  <2> QED BY <1>1, <1>3, <2>1, GotoType, ThreadFacts
          DEF AppendBody, TypeInv, TypeOK, loop, net, reading
<1>4. CASE SetWrite(t)
  BY <1>1, <1>4, GotoType, ThreadFacts DEF SetWrite, TypeInv, TypeOK, loop, net, reading
<1>5. CASE AddModify(t)
  <2>1. taskQ' \in Seq({"add", "modify", "delete"})
    BY <1>5 DEF AddModify, TypeInv, TypeOK
  <2> DEFINE there == IF t = Loop THEN "tasks" ELSE "wake"
  <2>2. Goto(t, there) /\ there \in {"tasks", "wake"}
    BY <1>5 DEF AddModify
  <2> QED BY <1>1, <1>5, <2>1, <2>2, GotoType, ThreadFacts
          DEF AddModify, TypeInv, TypeOK, net, reading
<1> QED BY <1>2, <1>3, <1>4, <1>5 DEF AddWriteTask

\* The other threads
LEMMA TypeOthers ==
  ASSUME TypeInv
  PROVE  /\ MainStep => TypeInv'
         /\ \A w \in Writer : TellStep(w) \/ WriterStep(w) => TypeInv'
<1>1. ASSUME AcceptConnection PROVE TypeInv'
  <2>1. Package(Key) \in Seq(Piece) /\ <<Key>> \in Seq(Message)
    BY PackageType, ThreadFacts
  <2>2. taskQ' \in Seq({"add", "modify", "delete"})
    BY <1>1 DEF AcceptConnection, TypeInv, TypeOK
  <2> QED BY <1>1, <2>1, <2>2, GotoType, ThreadFacts
          DEF AcceptConnection, TypeInv, TypeOK, net, reading
<1>2. ASSUME NEW t \in Thread \ {Loop}, TaskWakeup(t), Watch PROVE TypeInv'
  <2>1. overlapped' \in BOOLEAN
    BY <1>2 DEF Watch, TypeInv, TypeOK
  <2> QED BY <1>2, <2>1, GotoType, ThreadFacts
          DEF TaskWakeup, TypeInv, TypeOK, loop, net, reading
<1>3. ASSUME NEW w \in Writer, Tell(w), Watch PROVE TypeInv'
  <2>1. overlapped' \in BOOLEAN
    BY <1>3 DEF Watch, TypeInv, TypeOK
  <2> QED BY <1>3, <2>1, GotoType, ThreadFacts
          DEF Tell, TypeInv, TypeOK, loop, net, reading
<1> QED BY <1>1, <1>2, <1>3, TypeAddWriteTask, ThreadFacts
        DEF MainStep, TellStep, WriterStep

\* The loop
LEMMA TypeLoop ==
  ASSUME TypeInv, LoopStep
  PROVE  TypeInv'
<1> USE DEF TypeInv, TypeOK
<1>1. overlapped' \in BOOLEAN /\ Loop \in Thread /\ Watch
  BY ThreadFacts DEF LoopStep, Watch
<1>2. CASE ReadMessage
  BY <1>1, <1>2, GotoType DEF ReadMessage, loop, net, reading
<1>3. CASE Timeout
  BY <1>1, <1>3, GotoType DEF Timeout, loop, net, reading
<1>4. CASE SocketRead
  <2>1. PICK n \in 1 .. Len(toServer) :
          /\ rbuf' = rbuf \o SubSeq(toServer, 1, n)
          /\ toServer' = SubSeq(toServer, n + 1, Len(toServer))
    BY <1>4 DEF SocketRead
  <2>2. n \in Nat /\ n <= Len(toServer)
    OBVIOUS
  <2>3. rbuf' \in Asked /\ toServer' \in Asked
    BY <2>1, <2>2, CutType DEF Asked
  <2>4. rbuf' \in Seq(Piece) /\ toServer' \in Seq(Piece)
    BY <2>1, <2>2, CutType
  <2>5. /\ pc' \in [Thread -> Places]
        /\ pc'[Loop] = "parse"
    BY <1>1, <1>4, GotoType DEF SocketRead
  <2>6. UNCHANGED <<loop, events, wake, wbuf, queued,
                   toClient, closed, reset, asked, handled, garbled, crowded>>
    BY <1>4 DEF SocketRead
  <2> QED BY <1>1, <2>3, <2>4, <2>5, <2>6 DEF loop
<1>5. CASE EndOfStream
  <2>1. taskQ' \in Seq({"add", "modify", "delete"})
    BY <1>5 DEF EndOfStream
  <2> QED BY <1>1, <1>5, <2>1, GotoType DEF EndOfStream, net, reading
<1>6. CASE ParseRequest
  <2>1. Len(rbuf) >= 2
    BY <1>6 DEF ParseRequest, Whole
  <2>2. rbuf[1] \in Request \X {"head", "body"}
    BY <2>1 DEF Asked
  <2>3. handled' \in Seq(Request) /\ handled' # << >>
    <3>1. rbuf[1][1] \in Request
      BY <2>2
    <3>2. handled' = Append(handled, rbuf[1][1])
      BY <1>6 DEF ParseRequest
    <3> HIDE DEF TypeOK
    <3> QED BY <3>1, <3>2, AppendProperties
  <2>4. rbuf' = SubSeq(rbuf, 2 + 1, Len(rbuf))
    BY <1>6 DEF ParseRequest, Rest
  <2>5. rbuf' \in Asked /\ rbuf' \in Seq(Piece)
    <3>1. 2 \in Nat /\ 2 <= Len(rbuf)
      BY <2>1
    <3>2. rbuf' \in Asked
      BY <2>4, <3>1, CutType DEF Asked
    <3>3. rbuf' \in Seq(Piece)
      BY <2>4, <3>1, CutType
    <3> QED BY <3>2, <3>3
  <2>6. handled' \in Seq(Message)
    BY <2>3, ThreadFacts
  <2>7. CASE rbuf[1][1] \in Bye
    <3>1. taskQ' = Append(taskQ, "delete") /\ Goto(Loop, "tasks")
      BY <1>6, <2>7 DEF ParseRequest
    <3>2. taskQ' \in Seq({"add", "modify", "delete"})
      BY <3>1
    <3> QED BY <1>1, <1>6, <2>3, <2>5, <2>6, <3>1, <3>2, GotoType DEF ParseRequest, net
  <2>8. CASE rbuf[1][1] \notin Bye
    <3>1. UNCHANGED taskQ /\ Goto(Loop, "head")
      BY <1>6, <2>8 DEF ParseRequest
    <3> QED BY <1>1, <1>6, <2>3, <2>5, <2>6, <3>1, GotoType DEF ParseRequest, net
  <2> QED BY <2>7, <2>8
<1>7. CASE ParsePart
  BY <1>1, <1>7, GotoType DEF ParsePart, loop, net, Asked
<1>8. CASE SendData
  <2>1. PICK n \in 1 .. Len(wbuf) :
       /\ Buffered(Loop, SubSeq(wbuf, n + 1, Len(wbuf)))
       /\ toClient' = IF closed THEN toClient ELSE Put(toClient, SubSeq(wbuf, 1, n))
    BY <1>8 DEF SendData
  <2>2. SubSeq(wbuf, 1, n) \in Seq(Piece) /\ SubSeq(wbuf, n + 1, Len(wbuf)) \in Seq(Piece)
    BY CutType
  <2>3. wbuf' \in Seq(Piece) /\ toClient' \in Seq(Piece)
    BY <2>1, <2>2, BufferedType, PutType
  <2> QED BY <1>1, <1>8, <2>3, GotoType DEF SendData, loop, reading
<1>9. CASE Check
  BY <1>1, <1>9, GotoType DEF Check, loop, net, reading
<1>10. CASE SetRead
  BY <1>1, <1>10, GotoType DEF SetRead, loop, net, reading
<1>11. CASE ProcessTask
  <2>1. taskQ' \in Seq({"add", "modify", "delete"})
    BY <1>11, HeadTailProperties DEF ProcessTask
  <2>2. conn' \in {"new", "open", "gone"} /\ interest' \in {"none", "read", "write"}
    BY <1>11 DEF ProcessTask, AddChannel, ModifyChannel, RemoveChannel, NoChannel, EpollCtl
  <2> QED BY <1>1, <1>11, <2>1, <2>2 DEF ProcessTask, net, reading
<1>12. CASE TasksDone
  BY <1>1, <1>12, GotoType DEF TasksDone, loop, net, reading
<1>13. CASE AddWriteTask(Loop)
  BY <1>1, <1>13, TypeAddWriteTask, ThreadFacts
<1> QED BY <1>2, <1>3, <1>4, <1>5, <1>6, <1>7, <1>8, <1>9, <1>10, <1>11, <1>12, <1>13
        DEF LoopStep

\* Every variable of Conn keeps its type, for any number of threads that write
\* and any requests: what is framed, queued and sent are packages and pieces.
THEOREM TypeCorrect == Spec => []TypeOK
<1>1. TypeInv /\ [Next]_vars => TypeInv'
  <2> SUFFICES ASSUME TypeInv, [Next]_vars PROVE TypeInv'
    OBVIOUS
  <2>1. CASE UNCHANGED vars
    BY <2>1 DEF vars, TypeInv, TypeOK, loop, net, reading
  <2> QED BY <2>1, TypeLoop, TypeOthers, TypeClient DEF Next
<1>2. TypeInv => TypeOK
  BY DEF TypeInv
<1> QED BY <1>1, <1>2, TypeInit, PTL DEF Spec

-----------------------------------------------------------------------------
\* What epoll watches for

\* Whoever is at the buffer has a connection.
LEMMA StageAtBuffer ==
  ASSUME Inv, NEW t \in Thread \ {Main},
         pc[t] \in {"head", "body", "event", "push", "check", "calm"}
  PROVE  conn # "new" /\ pc[Main] # "new" /\ (t = Loop => conn = "open")
  BY ThreadFacts DEF Inv, StageOK

\* A queue to which a task was added is not empty.
LEMMA TaskQueued ==
  ASSUME TypeOK, NEW task \in {"add", "modify", "delete"}
  PROVE  Append(taskQ, task) # << >>
<1> DEFINE Tasks == {"add", "modify", "delete"}
<1>1. taskQ \in Seq(Tasks) /\ task \in Tasks
  BY DEF TypeOK
<1> HIDE DEF Tasks
<1> QED BY <1>1, AppendProperties

\* A step at the buffer is good for the events if it is for the thread itself.
LEMMA EventsStep ==
  ASSUME Inv, Watch, NEW t \in Thread \ {Main}, Busy(t) \/ Busy(t)',
         \A u \in Thread \ {t} : pc'[u] = pc[u],
         ~overlapped' =>
           /\ pc'[t] \in {"body", "event"} => wbuf' # << >>
           /\ pc'[t] = "push" => Agree'
           /\ pc'[t] = "check" => events' = "write"
           /\ pc'[t] = "calm" => wbuf' = << >>
           /\ ~Busy(t)' => Agree'
  PROVE  EventsFollowData' /\ AloneAtBuffer'
<1>1. ASSUME ~overlapped' PROVE
        \A u \in Thread \ {t} : pc'[u] \notin {"body", "event", "push", "check", "calm"}
  BY <1>1, OthersAway
<1> QED BY <1>1, WatchAlone DEF EventsFollowData

\* addWriteTask, on any thread
LEMMA InvAddWriteTask ==
  ASSUME TypeInv, Inv, NEW t \in Thread \ {Main}, AddWriteTask(t), Watch
  PROVE  Inv'
<1>1. CASE AppendHead(t)
  <2>1. pc[t] = "head" /\ Goto(t, "body") /\ UNCHANGED <<loop, events>>
    BY <1>1 DEF AppendHead, At
  <2>2. PlacesOK' /\ pc'[t] = "body" /\ \A u \in Thread \ {t} : pc'[u] = pc[u]
    BY <2>1, ThreadFacts, PlacesStep DEF Inv, LoopSteps, WriterSteps
  <2>3. StageOK'
    BY <2>1, <2>2, StageAtBuffer, ThreadFacts DEF Inv, StageOK, loop
  <2>4. wbuf' # << >>
    BY <1>1, <2>1, TextType, PutType, BufferedType DEF AppendHead, TypeInv, TypeOK
  <2>5. EventsFollowData' /\ AloneAtBuffer'
    BY <2>2, <2>4, EventsStep DEF Busy
  <2>6. InterestFollowsEvents'
    BY <2>1, <2>2 DEF Inv, InterestFollowsEvents, loop
  <2> QED BY <2>2, <2>3, <2>5, <2>6 DEF Inv
<1>2. CASE AppendBody(t)
  <2>1. pc[t] = "body" /\ Goto(t, "event") /\ UNCHANGED <<loop, events>>
    BY <1>2 DEF AppendBody, At
  <2>2. PlacesOK' /\ pc'[t] = "event" /\ \A u \in Thread \ {t} : pc'[u] = pc[u]
    BY <2>1, ThreadFacts, PlacesStep DEF Inv, LoopSteps, WriterSteps
  <2>3. StageOK'
    BY <2>1, <2>2, StageAtBuffer, ThreadFacts DEF Inv, StageOK, loop
  <2>4. wbuf' # << >>
    BY <1>2, <2>1, TextType, PutType, BufferedType DEF AppendBody, TypeInv, TypeOK
  <2>5. EventsFollowData' /\ AloneAtBuffer'
    BY <2>2, <2>4, EventsStep DEF Busy
  <2>6. InterestFollowsEvents'
    BY <2>1, <2>2 DEF Inv, InterestFollowsEvents, loop
  <2> QED BY <2>2, <2>3, <2>5, <2>6 DEF Inv
<1>3. CASE SetWrite(t)
  <2>1. pc[t] = "event" /\ Goto(t, "push") /\ events' = "write" /\ UNCHANGED <<loop, wbuf>>
    BY <1>3 DEF SetWrite, At
  <2>2. PlacesOK' /\ pc'[t] = "push" /\ \A u \in Thread \ {t} : pc'[u] = pc[u]
    BY <2>1, ThreadFacts, PlacesStep DEF Inv, LoopSteps, WriterSteps
  <2>3. StageOK'
    BY <2>1, <2>2, StageAtBuffer, ThreadFacts DEF Inv, StageOK, loop
  <2>4. ~overlapped' => wbuf' # << >>
    BY <2>1, WatchAlone DEF Inv, EventsFollowData
  <2>5. EventsFollowData' /\ AloneAtBuffer'
    BY <2>1, <2>2, <2>4, EventsStep DEF Busy, Agree
  <2>6. InterestFollowsEvents'
    BY <2>2 DEF InterestFollowsEvents
  <2> QED BY <2>2, <2>3, <2>5, <2>6 DEF Inv
<1>4. CASE AddModify(t)
  <2> DEFINE there == IF t = Loop THEN "tasks" ELSE "wake"
  <2>1. /\ pc[t] = "push" /\ Goto(t, there) /\ taskQ' = Append(taskQ, "modify")
        /\ UNCHANGED <<conn, interest, events, wbuf>>
    BY <1>4 DEF AddModify, At
  <2>2. PlacesOK' /\ pc'[t] = there /\ \A u \in Thread \ {t} : pc'[u] = pc[u]
    BY <2>1, ThreadFacts, PlacesStep DEF Inv, LoopSteps, WriterSteps
  <2>3. StageOK'
    BY <2>1, <2>2, StageAtBuffer, ThreadFacts DEF Inv, StageOK
  <2>4. ~overlapped' => Agree'
    BY <2>1, WatchAlone DEF Inv, EventsFollowData, Agree
  <2>5. EventsFollowData' /\ AloneAtBuffer'
    BY <2>1, <2>2, <2>4, EventsStep DEF Busy
  <2>6. taskQ' # << >>
    BY <2>1, TaskQueued DEF TypeInv
  <2> QED BY <2>2, <2>3, <2>5, <2>6 DEF Inv, InterestFollowsEvents
<1> QED BY <1>1, <1>2, <1>3, <1>4 DEF AddWriteTask

\* The loop's steps at the write buffer
LEMMA InvSend ==
  ASSUME TypeInv, Inv, SendData \/ Check \/ SetRead, Watch
  PROVE  Inv'
<1>0. Loop \in Thread \ {Main}
  BY ThreadFacts
<1>1. CASE SendData
  <2>1. /\ pc[Loop] = "wait" /\ Goto(Loop, "check") /\ UNCHANGED <<loop, events>>
        /\ conn = "open" /\ interest = "write" /\ wbuf # << >>
    BY <1>1 DEF SendData, Watched, At
  <2>2. PlacesOK' /\ pc'[Loop] = "check" /\ \A u \in Thread \ {Loop} : pc'[u] = pc[u]
    BY <1>0, <2>1, PlacesStep DEF Inv, LoopSteps
  <2>3. StageOK'
    BY <2>1, <2>2, ThreadFacts DEF Inv, StageOK, loop
  <2>4. ~overlapped' => events' = "write"
    <3>1. SUFFICES ASSUME ~overlapped' PROVE events = "write"
      BY <2>1
    <3>2. ~overlapped /\ \A u \in Thread : ~Busy(u)
      BY <1>0, <2>1, <2>2, <3>1, OthersAway DEF Busy
    <3>3. pc[Main] # "new"
      BY <2>1 DEF Inv, StageOK
    <3> QED BY <2>1, <3>2, <3>3 DEF Inv, EventsFollowData, Agree
  <2>5. EventsFollowData' /\ AloneAtBuffer'
    BY <1>0, <2>2, <2>4, EventsStep DEF Busy
  <2>6. InterestFollowsEvents'
    BY <2>1, <2>2, ThreadFacts DEF Inv, InterestFollowsEvents, loop
  <2> QED BY <2>2, <2>3, <2>5, <2>6 DEF Inv
<1>2. CASE Check
  <2> DEFINE there == IF wbuf = << >> THEN "calm" ELSE "tasks"
  <2>1. pc[Loop] = "check" /\ Goto(Loop, there) /\ UNCHANGED <<loop, events, wbuf>>
    BY <1>2 DEF Check, At
  <2>2. PlacesOK' /\ pc'[Loop] = there /\ \A u \in Thread \ {Loop} : pc'[u] = pc[u]
    BY <1>0, <2>1, PlacesStep DEF Inv, LoopSteps
  <2>3. StageOK'
    BY <1>0, <2>1, <2>2, StageAtBuffer, ThreadFacts DEF Inv, StageOK, loop
  <2>4. ~overlapped' => events' = "write"
    BY <1>0, <2>1, WatchAlone DEF Inv, EventsFollowData
  <2>5. EventsFollowData' /\ AloneAtBuffer'
    BY <1>0, <2>1, <2>2, <2>4, EventsStep DEF Busy, Agree
  <2>6. InterestFollowsEvents'
    BY <2>1, <2>2, ThreadFacts DEF Inv, InterestFollowsEvents, loop
  <2> QED BY <2>2, <2>3, <2>5, <2>6 DEF Inv
<1>3. CASE SetRead
  <2>1. pc[Loop] = "calm" /\ Goto(Loop, "push") /\ events' = "read" /\ UNCHANGED <<loop, wbuf>>
    BY <1>3 DEF SetRead, At
  <2>2. PlacesOK' /\ pc'[Loop] = "push" /\ \A u \in Thread \ {Loop} : pc'[u] = pc[u]
    BY <1>0, <2>1, PlacesStep DEF Inv, LoopSteps
  <2>3. StageOK'
    BY <1>0, <2>1, <2>2, StageAtBuffer, ThreadFacts DEF Inv, StageOK, loop
  <2>4. ~overlapped' => wbuf' = << >>
    BY <1>0, <2>1, WatchAlone DEF Inv, EventsFollowData
  <2>5. EventsFollowData' /\ AloneAtBuffer'
    BY <1>0, <2>1, <2>2, <2>4, EventsStep DEF Busy, Agree
  <2>6. InterestFollowsEvents'
    BY <1>0, <2>2 DEF InterestFollowsEvents
  <2> QED BY <2>2, <2>3, <2>5, <2>6 DEF Inv
<1> QED BY <1>1, <1>2, <1>3

\* The steps of the loop that queue a task without going to the buffer, or run one.
LEMMA InvTasks ==
  ASSUME TypeInv, Inv, EndOfStream \/ ParseRequest \/ ProcessTask, Watch
  PROVE  Inv'
<1>0. Loop \in Thread \ {Main}
  BY ThreadFacts
<1>1. ASSUME NEW there \in {"tasks", "head"}, Goto(Loop, there),
             UNCHANGED <<conn, interest, events, wbuf>>,
             pc[Loop] \in {"wait", "parse"}, conn = "open",
             taskQ' = taskQ \/ taskQ' = Append(taskQ, "delete")
      PROVE  Inv'
  <2>1. PlacesOK' /\ pc'[Loop] = there /\ \A u \in Thread \ {Loop} : pc'[u] = pc[u]
    BY <1>0, <1>1, PlacesStep DEF Inv, LoopSteps
  <2>2. pc[Main] # "new"
    BY <1>1 DEF Inv, StageOK
  <2>3. StageOK'
    BY <1>0, <1>1, <2>1, <2>2, ThreadFacts DEF Inv, StageOK
  <2>4. \A u \in Thread : Busy(u)' <=> Busy(u)
    BY <1>0, <1>1, <2>1 DEF Busy
  <2>5. EventsFollowData' /\ AloneAtBuffer'
    BY <1>0, <1>1, <2>1, <2>2, <2>4, WatchAlone DEF Inv, EventsFollowData, Agree
  <2>6. InterestFollowsEvents'
    <3>1. Append(taskQ, "delete") # << >>
      BY TaskQueued DEF TypeInv
    <3> QED BY <1>0, <1>1, <2>1, <3>1 DEF Inv, InterestFollowsEvents
  <2> QED BY <2>1, <2>3, <2>5, <2>6 DEF Inv
<1>2. CASE EndOfStream
  BY <1>1, <1>2 DEF EndOfStream, Watched, At
<1>3. CASE ParseRequest
  <2>1. pc[Loop] = "parse" /\ conn = "open"
    BY <1>3 DEF ParseRequest, At, Inv, StageOK
  <2>2. UNCHANGED <<conn, interest, events, wbuf>>
    BY <1>3 DEF ParseRequest
  <2>3. CASE rbuf[1][1] \in Bye
    BY <1>1, <1>3, <2>1, <2>2, <2>3 DEF ParseRequest
  <2>4. CASE rbuf[1][1] \notin Bye
    BY <1>1, <1>3, <2>1, <2>2, <2>4 DEF ParseRequest
  <2> QED BY <2>3, <2>4
<1>4. CASE ProcessTask
  <2>1. /\ pc[Loop] = "tasks" /\ taskQ # << >> /\ UNCHANGED <<events, wbuf, pc>>
        /\ conn' = conn \/ conn' \in {"open", "gone"}
    BY <1>4 DEF ProcessTask, At, AddChannel, ModifyChannel, RemoveChannel, NoChannel
  <2>2. pc[Main] # "new"
    BY <2>1 DEF Inv, StageOK
  <2>3. PlacesOK'
    BY <2>1 DEF Inv, PlacesOK
  <2>4. StageOK'
    BY <2>1, <2>2 DEF Inv, StageOK
  <2>5. EventsFollowData' /\ AloneAtBuffer'
    BY <2>1, WatchAlone DEF Inv, EventsFollowData, Agree, Busy
  <2>6. conn' = "open" => interest' = events'
    BY <1>4, <2>1 DEF ProcessTask, AddChannel, ModifyChannel, RemoveChannel, NoChannel, EpollCtl
  <2> QED BY <2>3, <2>4, <2>5, <2>6 DEF Inv, InterestFollowsEvents
<1> QED BY <1>2, <1>3, <1>4

\* Main, and the steps of others off the buffer
LEMMA InvOthers ==
  ASSUME TypeInv, Inv
  PROVE  /\ MainStep => Inv'
         /\ \A w \in Writer : TellStep(w) \/ WriterStep(w) => Inv'
<1>1. ASSUME AcceptConnection PROVE Inv'
  <2>1. /\ pc[Main] = "new" /\ Goto(Main, "wake") /\ events' = "write" /\ wbuf' = Package(Key)
        /\ taskQ' = Append(taskQ, "add") /\ UNCHANGED <<conn, interest, overlapped>>
    BY <1>1 DEF AcceptConnection, At
  <2>2. PlacesOK' /\ pc'[Main] = "wake" /\ \A u \in Thread \ {Main} : pc'[u] = pc[u]
    BY <2>1, ThreadFacts, PlacesStep DEF Inv, MainSteps
  <2>3. StageOK'
    BY <2>1, <2>2, ThreadFacts DEF Inv, StageOK
  <2>4. conn = "new" /\ \A u \in Thread : ~Busy(u) /\ ~Busy(u)'
    BY <2>1, <2>2, ThreadFacts DEF Inv, StageOK, Busy
  <2>5. wbuf' # << >> /\ taskQ' # << >>
    BY <2>1, PackageType, ThreadFacts DEF TypeInv, TypeOK
  <2>6. AloneAtBuffer' /\ EventsFollowData'
    BY <2>1, <2>4, <2>5 DEF AloneAtBuffer, EventsFollowData, Agree, Busy
  <2> QED BY <2>2, <2>3, <2>5, <2>6 DEF Inv, InterestFollowsEvents
<1>2. ASSUME NEW t \in Thread \ {Loop}, TaskWakeup(t), Watch PROVE Inv'
  <2>1. pc[t] = "wake" /\ Goto(t, "done") /\ UNCHANGED <<loop, events, wbuf>>
    BY <1>2 DEF TaskWakeup, At
  <2>2. PlacesOK' /\ pc'[t] = "done" /\ \A u \in Thread \ {t} : pc'[u] = pc[u]
    BY <2>1, ThreadFacts, PlacesStep DEF Inv, MainSteps, WriterSteps
  <2>3. StageOK'
    BY <2>1, <2>2, ThreadFacts DEF Inv, StageOK, loop
  <2> QED BY <1>2, <2>1, <2>2, <2>3, InvMove, ThreadFacts DEF Busy
<1>3. ASSUME NEW w \in Writer, Tell(w), Watch PROVE Inv'
  <2>1. pc[w] = "idle" /\ conn = "open" /\ Goto(w, "head") /\ UNCHANGED <<loop, events, wbuf>>
    BY <1>3 DEF Tell, At
  <2>2. PlacesOK' /\ pc'[w] = "head" /\ \A u \in Thread \ {w} : pc'[u] = pc[u]
    BY <2>1, ThreadFacts, PlacesStep DEF Inv, WriterSteps
  <2>3. StageOK'
    BY <2>1, <2>2, ThreadFacts DEF Inv, StageOK, loop
  <2> QED BY <1>3, <2>1, <2>2, <2>3, InvMove, ThreadFacts DEF Busy
<1> QED BY <1>1, <1>2, <1>3, InvAddWriteTask, ThreadFacts
        DEF MainStep, TellStep, WriterStep

\* Every step keeps the types and the invariant, ...
LEMMA InvStep == TypeInv /\ Inv /\ [Next]_vars => (TypeInv /\ Inv)'
<1> SUFFICES ASSUME TypeInv, Inv, [Next]_vars PROVE TypeInv' /\ Inv'
  OBVIOUS
<1>1. TypeInv'
  <2>1. CASE UNCHANGED vars
    BY <2>1 DEF vars, TypeInv, TypeOK, loop, net, reading
  <2> QED BY <2>1, TypeLoop, TypeOthers, TypeClient DEF Next
<1>2. CASE UNCHANGED vars
  BY <1>1, <1>2, InvStutter DEF vars
<1>3. CASE Client
  BY <1>1, <1>3, InvStutter DEF Client, Close, Ask
<1>4. CASE LoopStep
  BY <1>1, <1>4, InvLoop, InvSend, InvTasks, InvAddWriteTask, ThreadFacts DEF LoopStep
<1>5. CASE MainStep \/ \E w \in Writer : TellStep(w) \/ WriterStep(w)
  BY <1>1, <1>5, InvOthers
<1> QED BY <1>2, <1>3, <1>4, <1>5 DEF Next

\* ... which therefore hold throughout.
LEMMA InvAlways == Spec => [](TypeInv /\ Inv)
<1>1. Init => TypeInv /\ Inv
  BY TypeInit, InvInit
<1> QED BY <1>1, InvStep, PTL DEF Spec

\* Epoll watches for writing exactly while there is something to write, however
\* many threads write, as long as they do it one after another: the events and
\* the buffer agree whenever nobody is between the two, and every change of the
\* events has a task behind it.
THEOREM EpollWatchesForData == Spec => []InterestFollowsData
<1>1. TypeInv /\ Inv => InterestFollowsData
  <2> SUFFICES ASSUME Inv, At(Loop, "wait"), ~Others(Loop), taskQ = << >>,
                      conn = "open", ~overlapped
               PROVE  interest = "write" <=> wbuf # << >>
    BY DEF InterestFollowsData
  <2>1. \A t \in Thread : ~Busy(t)
    BY ThreadFacts DEF At, Others, Busy
  <2>2. pc[Main] # "new"
    BY DEF Inv, StageOK
  <2>3. interest = events
    BY <2>1 DEF Inv, InterestFollowsEvents, Busy
  <2> QED BY <2>1, <2>2, <2>3 DEF Inv, EventsFollowData, Agree
<1> QED BY <1>1, InvAlways, PTL

-----------------------------------------------------------------------------
\* Framing

\* What has been handled begins what has been asked, and what has not been
\* handled is on its way, head and body of each request in turn.
Stream == rbuf \o toServer
Waiting == Len(asked) - Len(handled)
Framed ==
  ~garbled =>
    /\ Waiting \in Nat /\ Len(Stream) = 2 * Waiting
    /\ \A i \in 1 .. Len(handled) : handled[i] = asked[i]
    /\ \A i \in 1 .. Waiting :
         /\ Stream[2 * i - 1] = <<asked[Len(handled) + i], "head">>
         /\ Stream[2 * i] = <<asked[Len(handled) + i], "body">>

\* The stream is of pieces of requests, and the buffer is its beginning.
LEMMA StreamType ==
  ASSUME TypeInv
  PROVE  /\ Stream \in Asked /\ Len(Stream) = Len(rbuf) + Len(toServer)
         /\ asked \in Seq(Request) /\ handled \in Seq(Request)
         /\ Len(asked) \in Nat /\ Len(handled) \in Nat /\ Len(rbuf) \in Nat
         /\ \A i \in 1 .. Len(rbuf) : Stream[i] = rbuf[i]
  BY ConcatProperties DEF TypeInv, TypeOK, Stream, Asked

\* Streams are joined in any grouping.
LEMMA Regroup ==
  ASSUME NEW a \in Asked, NEW b \in Asked, NEW c \in Asked
  PROVE  (a \o b) \o c = a \o (b \o c)
<1> DEFINE S == Request \X {"head", "body"}
<1>1. a \in Seq(S) /\ b \in Seq(S) /\ c \in Seq(S)
  BY DEF Asked
<1> HIDE DEF S
<1> QED BY <1>1, ConcatAssociative

\* A request is asked behind the others.
LEMMA FramedAsk ==
  ASSUME TypeInv, Framed, NEW r \in Request, Ask(r)
  PROVE  Framed'
<1> SUFFICES ASSUME ~garbled PROVE Framed'
  BY DEF Ask, Framed
<1> DEFINE P == Package(r)  n == Len(asked)  k == Len(handled)
<1>1. /\ asked' = Append(asked, r) /\ toServer' = toServer \o P
      /\ UNCHANGED <<rbuf, handled, garbled>>
  BY DEF Ask
<1>2. P \in Asked /\ Len(P) = 2 /\ P[1] = <<r, "head">> /\ P[2] = <<r, "body">>
  BY DEF Package, Asked
<1>3. Stream' = Stream \o P
  <2> HIDE DEF P
  <2>1. rbuf \in Asked /\ toServer \in Asked
    BY DEF TypeInv
  <2>2. (rbuf \o toServer) \o P = rbuf \o (toServer \o P)
    BY <1>2, <2>1, Regroup
  <2>3. rbuf' = rbuf /\ toServer' = toServer \o P
    BY <1>1
  <2> QED BY <2>2, <2>3, Zenon DEF Stream
<1>4. /\ n \in Nat /\ k \in Nat /\ Stream \in Asked /\ Waiting = n - k /\ Waiting \in Nat
      /\ Len(Stream) = 2 * Waiting
  BY StreamType DEF Framed, Waiting
<1>5. /\ Len(Stream') = 2 * Waiting + 2
      /\ \A j \in 1 .. 2 * Waiting : Stream'[j] = Stream[j]
      /\ Stream'[2 * Waiting + 1] = <<r, "head">>
      /\ Stream'[2 * Waiting + 2] = <<r, "body">>
  <2> DEFINE S == Request \X {"head", "body"}  l == 2 * Waiting
  <2> HIDE DEF P, S
  <2>1. Stream \in Seq(S) /\ P \in Seq(S)
    BY <1>2, <1>4 DEF Asked, S
  <2>2. /\ Len(Stream \o P) = Len(Stream) + Len(P)
        /\ \A j \in 1 .. Len(Stream) + Len(P) :
             (Stream \o P)[j] = IF j <= Len(Stream) THEN Stream[j] ELSE P[j - Len(Stream)]
    BY <2>1, ConcatProperties
  <2>3. Len(Stream) = l /\ l \in Nat /\ Len(P) = 2
    BY <1>2, <1>4
  <2> HIDE DEF l
  <2>4. Len(Stream') = l + 2 /\ \A j \in 1 .. l : Stream'[j] = Stream[j]
    BY <1>3, <2>2, <2>3
  <2>5. Stream'[l + 1] = P[1] /\ Stream'[l + 2] = P[2]
    BY <1>3, <2>2, <2>3
  <2> QED BY <1>2, <2>4, <2>5 DEF l
<1>6. /\ Len(asked') = n + 1 /\ asked'[n + 1] = r
      /\ \A j \in 1 .. n : asked'[j] = asked[j]
  BY <1>1, StreamType, AppendProperties
<1>7. Waiting' = Waiting + 1 /\ Waiting' \in Nat /\ Len(Stream') = 2 * Waiting'
  BY <1>1, <1>4, <1>5, <1>6 DEF Waiting
<1>8. \A i \in 1 .. Len(handled') : handled'[i] = asked'[i]
  BY <1>1, <1>4, <1>6 DEF Framed
<1>9. ASSUME NEW i \in 1 .. Waiting'
      PROVE  /\ Stream'[2 * i - 1] = <<asked'[Len(handled') + i], "head">>
             /\ Stream'[2 * i] = <<asked'[Len(handled') + i], "body">>
  <2>1. CASE i <= Waiting
    <3>1. /\ Stream[2 * i - 1] = <<asked[k + i], "head">>
          /\ Stream[2 * i] = <<asked[k + i], "body">>
      BY <1>4, <1>9, <2>1 DEF Framed
    <3>2. 2 * i - 1 \in 1 .. 2 * Waiting /\ 2 * i \in 1 .. 2 * Waiting /\ k + i \in 1 .. n
      BY <1>4, <1>9, <2>1
    <3> QED BY <1>1, <1>5, <1>6, <3>1, <3>2
  <2>2. CASE i = Waiting + 1
    <3>1. 2 * i - 1 = 2 * Waiting + 1 /\ 2 * i = 2 * Waiting + 2 /\ k + i = n + 1
      BY <1>4, <2>2
    <3> QED BY <1>1, <1>5, <1>6, <3>1
  <2> QED BY <1>4, <1>7, <1>9, <2>1, <2>2
<1> QED BY <1>7, <1>8, <1>9 DEF Framed

\* socketRead moves some of the stream into the buffer.
LEMMA FramedRead ==
  ASSUME TypeInv, Framed, SocketRead
  PROVE  Framed'
<1>1. PICK n \in 1 .. Len(toServer) :
        /\ rbuf' = rbuf \o SubSeq(toServer, 1, n)
        /\ toServer' = SubSeq(toServer, n + 1, Len(toServer))
  BY DEF SocketRead
<1>2. toServer \in Asked /\ rbuf \in Asked /\ Len(toServer) \in Nat /\ n \in Nat /\ n <= Len(toServer)
  BY DEF TypeInv, Asked
<1>3. SubSeq(toServer, 1, n) \in Asked /\ SubSeq(toServer, n + 1, Len(toServer)) \in Asked
  BY <1>2, CutType DEF Asked
<1>4. SubSeq(toServer, 1, n) \o SubSeq(toServer, n + 1, Len(toServer)) = toServer
  <2>1. SubSeq(toServer, 1, n) \o SubSeq(toServer, n + 1, Len(toServer))
          = SubSeq(toServer, 1, Len(toServer))
    BY <1>2, ConcatAdjacentSubSeq DEF Asked
  <2> QED BY <1>2, <2>1, SubSeqFull DEF Asked
<1>5. Stream' = Stream
  <2> DEFINE a == SubSeq(toServer, 1, n)
             b == SubSeq(toServer, n + 1, Len(toServer))
  <2>1. (rbuf \o a) \o b = rbuf \o (a \o b)
    <3> HIDE DEF a, b
    <3>1. a \in Asked /\ b \in Asked
      BY <1>3 DEF a, b
    <3>2. rbuf \in Asked
      BY <1>2
    <3> QED BY <3>1, <3>2, Regroup
  <2>2. rbuf' = rbuf \o a /\ toServer' = b /\ a \o b = toServer
    BY <1>1, <1>4
  <2> HIDE DEF a, b
  <2> QED BY <2>1, <2>2, Zenon DEF Stream
<1> QED BY <1>5 DEF SocketRead, Framed, Waiting

\* Two elements are taken off the front of the first of two sequences.
LEMMA RestOfJoined ==
  ASSUME NEW S, NEW r \in Seq(S), NEW u \in Seq(S), NEW n \in Nat, NEW m \in Nat,
         n = Len(r), m = Len(u), n >= 2, NEW a, a = SubSeq(r, 3, n)
  PROVE  /\ Len(r \o u) = n + m /\ Len(a \o u) = n + m - 2
         /\ \A j \in 1 .. n + m - 2 : (a \o u)[j] = (r \o u)[j + 2]
<1>1. \A i \in 3 .. n : r[i] \in S
  OBVIOUS
<1>2. /\ a \in Seq(S) /\ Len(a) = IF 3 <= n THEN n - 3 + 1 ELSE 0
      /\ \A i \in 1 .. n - 3 + 1 : a[i] = r[3 + i - 1]
  BY <1>1, SubSeqProperties
<1>3. Len(a) = n - 2 /\ \A i \in 1 .. n - 2 : a[i] = r[i + 2]
  <2>1. Len(a) = n - 2
    BY <1>2
  <2>2. ASSUME NEW i \in 1 .. n - 2 PROVE a[i] = r[i + 2]
    <3>1. i \in 1 .. n - 3 + 1 /\ 3 + i - 1 = i + 2
      OBVIOUS
    <3> QED BY <1>2, <3>1
  <2> QED BY <2>1, <2>2
<1>4. /\ Len(r \o u) = n + m
      /\ \A i \in 1 .. n + m : (r \o u)[i] = IF i <= n THEN r[i] ELSE u[i - n]
  BY ConcatProperties
<1>5. /\ Len(a \o u) = Len(a) + Len(u)
      /\ \A i \in 1 .. Len(a) + Len(u) : (a \o u)[i] = IF i <= Len(a) THEN a[i] ELSE u[i - Len(a)]
  BY <1>2, ConcatProperties
<1>6. /\ Len(a \o u) = n + m - 2
      /\ \A i \in 1 .. n + m - 2 : (a \o u)[i] = IF i <= n - 2 THEN a[i] ELSE u[i - (n - 2)]
  <2>1. Len(a) + Len(u) = n + m - 2
    BY <1>3
  <2> QED BY <1>3, <1>5, <2>1
<1>7. ASSUME NEW j \in 1 .. n + m - 2 PROVE (a \o u)[j] = (r \o u)[j + 2]
  <2>1. j + 2 \in 1 .. n + m
    OBVIOUS
  <2>2. CASE j <= n - 2
    <3>1. (a \o u)[j] = a[j] /\ (r \o u)[j + 2] = r[j + 2]
      BY <1>4, <1>6, <2>1, <2>2
    <3> QED BY <1>3, <2>2, <3>1
  <2>3. CASE ~(j <= n - 2)
    <3>1. (a \o u)[j] = u[j - (n - 2)] /\ (r \o u)[j + 2] = u[j + 2 - n]
      BY <1>4, <1>6, <2>1, <2>3
    <3>2. j - (n - 2) = j + 2 - n
      OBVIOUS
    <3> QED BY <3>1, <3>2
  <2> QED BY <2>2, <2>3
<1> QED BY <1>4, <1>6, <1>7

\* Two pieces are taken off the front of the stream.
LEMMA StreamRest ==
  ASSUME TypeInv, Len(rbuf) >= 2, rbuf' = Rest(rbuf), UNCHANGED toServer
  PROVE  /\ Len(Stream') = Len(Stream) - 2
         /\ \A j \in 1 .. Len(Stream) - 2 : Stream'[j] = Stream[j + 2]
<1> DEFINE S == Request \X {"head", "body"}
<1>1. rbuf \in Seq(S) /\ toServer \in Seq(S) /\ Len(rbuf) \in Nat /\ Len(toServer) \in Nat
  BY DEF TypeInv, Asked
<1>2. rbuf' = SubSeq(rbuf, 3, Len(rbuf)) /\ toServer' = toServer
  BY DEF Rest
<1> HIDE DEF S
<1>3. /\ Len(rbuf \o toServer) = Len(rbuf) + Len(toServer)
      /\ Len(rbuf' \o toServer) = Len(rbuf) + Len(toServer) - 2
      /\ \A j \in 1 .. Len(rbuf) + Len(toServer) - 2 :
           (rbuf' \o toServer)[j] = (rbuf \o toServer)[j + 2]
  BY <1>1, <1>2, RestOfJoined
<1> QED BY <1>2, <1>3 DEF Stream

\* A request that is handled is the first that was not.
LEMMA FramedParse ==
  ASSUME TypeInv, Framed, ParseRequest
  PROVE  Framed'
<1> DEFINE n == Len(asked)  k == Len(handled)
<1>1. /\ Len(rbuf) >= 2 /\ ~garbled /\ rbuf' = Rest(rbuf)
      /\ handled' = Append(handled, rbuf[1][1]) /\ UNCHANGED <<toServer, asked, garbled>>
  BY DEF ParseRequest, Whole, net
<1>2. /\ n \in Nat /\ k \in Nat /\ Waiting = n - k /\ Waiting \in Nat
      /\ Len(Stream) = 2 * Waiting /\ Len(toServer) \in Nat /\ Len(rbuf) \in Nat
  BY <1>1, StreamType DEF Framed, Waiting, TypeInv, TypeOK
<1>3. Waiting >= 1 /\ Stream[1] = rbuf[1]
  BY <1>1, <1>2, StreamType
<1>4. rbuf[1][1] = asked[k + 1]
  <2>1. 1 \in 1 .. Waiting /\ 2 * 1 - 1 = 1
    BY <1>2, <1>3
  <2>2. Stream[2 * 1 - 1] = <<asked[k + 1], "head">>
    BY <1>1, <2>1 DEF Framed
  <2>3. rbuf[1] = <<asked[k + 1], "head">>
    BY <1>3, <2>1, <2>2
  <2> QED BY <2>3
<1>5. asked[k + 1] \in Request
  BY <1>2, <1>3, StreamType
<1>6. /\ Len(handled') = k + 1 /\ handled'[k + 1] = asked[k + 1]
      /\ \A i \in 1 .. k : handled'[i] = handled[i]
  BY <1>1, <1>4, <1>5, StreamType, AppendProperties
<1>7. Waiting' = Waiting - 1 /\ Waiting' \in Nat
  BY <1>1, <1>2, <1>3, <1>6 DEF Waiting
<1>8. /\ Len(Stream') = 2 * Waiting'
      /\ \A j \in 1 .. 2 * Waiting - 2 : Stream'[j] = Stream[j + 2]
  BY <1>1, <1>2, <1>7, StreamRest
<1>9. \A i \in 1 .. Len(handled') : handled'[i] = asked'[i]
  BY <1>1, <1>2, <1>6 DEF Framed
<1>10. ASSUME NEW i \in 1 .. Waiting'
       PROVE  /\ Stream'[2 * i - 1] = <<asked'[Len(handled') + i], "head">>
              /\ Stream'[2 * i] = <<asked'[Len(handled') + i], "body">>
  <2>1. i + 1 \in 1 .. Waiting /\ k + (i + 1) = (k + 1) + i
    BY <1>2, <1>7
  <2>2. /\ Stream[2 * (i + 1) - 1] = <<asked[k + (i + 1)], "head">>
        /\ Stream[2 * (i + 1)] = <<asked[k + (i + 1)], "body">>
    BY <1>1, <2>1 DEF Framed
  <2>3. /\ Stream'[2 * i - 1] = Stream[2 * (i + 1) - 1]
        /\ Stream'[2 * i] = Stream[2 * (i + 1)]
    <3>1. /\ 2 * i - 1 \in 1 .. 2 * Waiting - 2 /\ 2 * i \in 1 .. 2 * Waiting - 2
          /\ 2 * i - 1 + 2 = 2 * (i + 1) - 1 /\ 2 * i + 2 = 2 * (i + 1)
      BY <1>2, <1>7
    <3> QED BY <1>8, <3>1
  <2> QED BY <1>1, <1>6, <2>1, <2>2, <2>3
<1> QED BY <1>7, <1>8, <1>9, <1>10 DEF Framed

\* A sequence that agrees with the beginning of another is that beginning.
LEMMA BeginningIs ==
  ASSUME NEW S, NEW s \in Seq(S), NEW t \in Seq(S), NEW n \in Nat, Len(s) = n, n <= Len(t),
         \A i \in 1 .. n : s[i] = t[i]
  PROVE  s = SubSeq(t, 1, n)
<1>1. \A i \in 1 .. n : t[i] \in S
  OBVIOUS
<1>2. /\ SubSeq(t, 1, n) \in Seq(S)
      /\ Len(SubSeq(t, 1, n)) = IF 1 <= n THEN n - 1 + 1 ELSE 0
      /\ \A i \in 1 .. n - 1 + 1 : SubSeq(t, 1, n)[i] = t[1 + i - 1]
  BY <1>1, SubSeqProperties
<1>3. Len(SubSeq(t, 1, n)) = n
  BY <1>2
<1>4. ASSUME NEW i \in 1 .. n PROVE SubSeq(t, 1, n)[i] = t[i]
  <2>1. i \in 1 .. n - 1 + 1 /\ 1 + i - 1 = i
    OBVIOUS
  <2> QED BY <1>2, <2>1
<1> QED BY <1>2, <1>3, <1>4, SeqEqual

\* Every step keeps the framing, ...
LEMMA FramedStep == TypeInv /\ Framed /\ [Next]_vars => (TypeInv /\ Framed)'
<1> SUFFICES ASSUME TypeInv, Framed, [Next]_vars PROVE TypeInv' /\ Framed'
  OBVIOUS
<1>1. TypeInv'
  <2>1. CASE UNCHANGED vars
    BY <2>1 DEF vars, TypeInv, TypeOK, loop, net, reading
  <2> QED BY <2>1, TypeLoop, TypeOthers, TypeClient DEF Next
<1>2. ASSUME UNCHANGED <<rbuf, toServer, asked, handled, garbled>> PROVE Framed'
  BY <1>2 DEF Framed, Waiting, Stream
<1>3. CASE UNCHANGED vars
  BY <1>1, <1>2, <1>3 DEF vars, net, reading
<1>4. ASSUME Client PROVE Framed'
  <2>1. CASE Close
    BY <1>2, <2>1 DEF Close, reading
  <2> QED BY <1>4, <2>1, FramedAsk DEF Client
<1>5. ASSUME NEW t \in Thread, AddWriteTask(t) PROVE Framed'
  BY <1>2, <1>5 DEF AddWriteTask, AppendHead, AppendBody, SetWrite, AddModify, net, reading
<1>6. ASSUME LoopStep PROVE Framed'
  <2>1. CASE ParsePart
    BY <2>1 DEF ParsePart, Framed
  <2>2. CASE ReadMessage \/ Timeout \/ EndOfStream \/ Check \/ SetRead \/ ProcessTask \/ TasksDone
    BY <1>2, <2>2 DEF ReadMessage, Timeout, EndOfStream, Check, SetRead, ProcessTask,
       TasksDone, net, reading
  <2>3. CASE SendData
    BY <1>2, <2>3 DEF SendData, reading
  <2> QED BY <1>5, <1>6, <2>1, <2>2, <2>3, FramedRead, FramedParse, ThreadFacts DEF LoopStep
<1>7. ASSUME MainStep \/ \E w \in Writer : TellStep(w) \/ WriterStep(w) PROVE Framed'
  <2>1. CASE AcceptConnection
    BY <1>2, <2>1 DEF AcceptConnection, net, reading
  <2>2. ASSUME NEW t \in Thread, TaskWakeup(t) \/ Tell(t) PROVE Framed'
    BY <1>2, <2>2 DEF TaskWakeup, Tell, net, reading
  <2> QED BY <1>5, <1>7, <2>1, <2>2, ThreadFacts DEF MainStep, TellStep, WriterStep
<1> QED BY <1>1, <1>3, <1>4, <1>6, <1>7 DEF Next

\* ... which therefore holds throughout.
LEMMA FramedAlways == Spec => [](TypeInv /\ Framed)
<1>1. Init => TypeInv /\ Framed
  <2>1. Init => Framed
    BY DEF Init, Framed, Waiting, Stream
  <2> QED BY <2>1, TypeInit
<1> QED BY <1>1, FramedStep, PTL DEF Spec

\* Requests are handled in the order in which they were sent, none twice and
\* none that was not sent, while no part of a package was parsed as a whole one.
THEOREM HandledAsAsked == Spec => []HandledInOrder
<1>1. TypeInv /\ Framed => HandledInOrder
  <2> SUFFICES ASSUME TypeInv, Framed, ~garbled PROVE IsPrefix(handled, asked)
    BY DEF HandledInOrder
  <2> DEFINE k == Len(handled)
  <2>1. /\ handled \in Seq(Request) /\ asked \in Seq(Request)
        /\ k \in Nat /\ k <= Len(asked) /\ \A i \in 1 .. k : handled[i] = asked[i]
    BY StreamType DEF Framed, Waiting
  <2>2. handled = SubSeq(handled, 1, k) /\ handled = SubSeq(asked, 1, k)
    BY <2>1, BeginningIs
  <2> QED BY <2>1, <2>2 DEF IsPrefix
<1> QED BY <1>1, FramedAlways, PTL

-----------------------------------------------------------------------------
\* The pipes

\* A connection is added once, when it is new, and a socket in error is one
\* whose client has gone.
AddedOnce == \A i \in 1 .. Len(taskQ) : taskQ[i] = "add" => i = 1 /\ conn = "new"
GoneForGood == AddedOnce /\ (reset => closed)

\* What the loop takes from a queue and what is put behind it.
LEMMA AddedOnceStep ==
  ASSUME TypeOK, AddedOnce, conn # "new" => conn' # "new",
         \/ taskQ' = taskQ /\ conn' = conn
         \/ \E task \in {"modify", "delete"} : taskQ' = Append(taskQ, task) /\ conn' = conn
         \/ taskQ = << >> /\ taskQ' = Append(taskQ, "add") /\ conn' = "new"
         \/ taskQ # << >> /\ taskQ' = Tail(taskQ)
  PROVE  AddedOnce'
<1> DEFINE Tasks == {"add", "modify", "delete"}
<1>0. taskQ \in Seq(Tasks) /\ Len(taskQ) \in Nat
  BY DEF TypeOK
<1>1. CASE taskQ' = taskQ /\ conn' = conn
  BY <1>1 DEF AddedOnce
<1>2. ASSUME NEW task \in {"modify", "delete"}, taskQ' = Append(taskQ, task), conn' = conn
      PROVE  AddedOnce'
  <2>1. task \in Tasks
    OBVIOUS
  <2> HIDE DEF Tasks
  <2>2. /\ Len(taskQ') = Len(taskQ) + 1 /\ taskQ'[Len(taskQ) + 1] = task
        /\ \A i \in 1 .. Len(taskQ) : taskQ'[i] = taskQ[i]
    BY <1>0, <1>2, <2>1, AppendProperties
  <2> QED BY <1>0, <1>2, <2>2 DEF AddedOnce
<1>3. CASE taskQ = << >> /\ taskQ' = Append(taskQ, "add") /\ conn' = "new"
  BY <1>3 DEF AddedOnce
<1>4. CASE taskQ # << >> /\ taskQ' = Tail(taskQ)
  <2> HIDE DEF Tasks
  <2>1. /\ Len(taskQ') = Len(taskQ) - 1
        /\ \A i \in 1 .. Len(taskQ') : taskQ'[i] = taskQ[i + 1]
    BY <1>0, <1>4, HeadTailProperties
  <2>2. ASSUME NEW i \in 1 .. Len(taskQ') PROVE taskQ'[i] # "add"
    <3>1. i + 1 \in 1 .. Len(taskQ) /\ i + 1 # 1
      BY <1>0, <2>1
    <3> QED BY <2>1, <3>1 DEF AddedOnce
  <2> QED BY <2>2 DEF AddedOnce
<1> QED BY <1>1, <1>2, <1>3, <1>4

\* What a step never takes back: the end of the client, an error, a race, an
\* unread package, a crowd, and the end of the connection.
LEMMA LostForGood ==
  ASSUME TypeInv, Inv, GoneForGood, [Next]_vars
  PROVE  /\ GoneForGood'
         /\ closed => closed'
         /\ reset => reset'
         /\ overlapped => overlapped'
         /\ garbled => garbled'
         /\ crowded => crowded'
         /\ conn = "gone" => conn' = "gone"
<1> DEFINE Kept == /\ closed => closed'
                   /\ reset => reset'
                   /\ overlapped => overlapped'
                   /\ garbled => garbled'
                   /\ crowded => crowded'
                   /\ conn = "gone" => conn' = "gone"
<1>0. TypeOK /\ AddedOnce
  BY DEF TypeInv, GoneForGood
<1>1. ASSUME UNCHANGED <<conn, taskQ, net>>, overlapped => overlapped', garbled => garbled',
             crowded => crowded'
      PROVE  GoneForGood' /\ Kept
  BY <1>0, <1>1, AddedOnceStep DEF GoneForGood, net
<1>2. CASE UNCHANGED vars
  BY <1>1, <1>2 DEF vars, loop, reading
<1>3. CASE Client
  <2>1. CASE Close
    BY <1>0, <2>1, AddedOnceStep DEF Close, GoneForGood, loop, reading
  <2>2. ASSUME NEW r \in Request, Ask(r) PROVE GoneForGood' /\ Kept
    BY <1>0, <2>2, AddedOnceStep DEF Ask, GoneForGood, loop
  <2> QED BY <1>3, <2>1, <2>2 DEF Client
<1>4. CASE AcceptConnection
  <2>1. taskQ = << >> /\ conn = "new" /\ taskQ' = Append(taskQ, "add")
        /\ UNCHANGED <<conn, overlapped, net, reading>>
    BY <1>4 DEF AcceptConnection, At, Inv, StageOK
  <2>2. AddedOnce'
    BY <1>0, <2>1, AddedOnceStep
  <2> QED BY <2>1, <2>2 DEF GoneForGood, net, reading
<1>5. ASSUME NEW t \in Thread, AddWriteTask(t), Watch PROVE GoneForGood' /\ Kept
  <2>1. CASE AppendHead(t) \/ AppendBody(t) \/ SetWrite(t)
    BY <1>1, <1>5, <2>1, WatchAlone DEF AppendHead, AppendBody, SetWrite, loop, reading, Watch
  <2>2. CASE AddModify(t)
    <3>1. AddedOnce'
      BY <1>0, <2>2, AddedOnceStep DEF AddModify
    <3> QED BY <1>5, <2>2, <3>1 DEF AddModify, GoneForGood, net, reading, Watch
  <2> QED BY <1>5, <2>1, <2>2 DEF AddWriteTask
<1>6. ASSUME NEW t \in Thread, TaskWakeup(t) \/ Tell(t), Watch PROVE GoneForGood' /\ Kept
  BY <1>1, <1>6 DEF TaskWakeup, Tell, loop, reading, Watch
<1>7. CASE LoopStep
  <2>0. Watch
    BY <1>7 DEF LoopStep
  <2>1. CASE ReadMessage \/ Timeout \/ Check \/ SetRead \/ TasksDone
    BY <1>1, <2>0, <2>1 DEF ReadMessage, Timeout, Check, SetRead, TasksDone, loop, reading, Watch
  <2>2. CASE ParsePart
    BY <1>1, <2>0, <2>2 DEF ParsePart, loop, Watch
  <2>3. CASE SocketRead
    BY <1>0, <2>0, <2>3, AddedOnceStep DEF SocketRead, GoneForGood, loop, Watch
  <2>4. CASE EndOfStream
    <3>1. AddedOnce'
      BY <1>0, <2>4, AddedOnceStep DEF EndOfStream
    <3> QED BY <2>0, <2>4, <3>1 DEF EndOfStream, GoneForGood, net, reading, Watch
  <2>5. CASE ParseRequest
    <3>1. /\ UNCHANGED <<conn, net, garbled, crowded>>
          /\ taskQ' = taskQ \/ taskQ' = Append(taskQ, "delete")
      BY <2>5 DEF ParseRequest
    <3>2. AddedOnce'
      BY <1>0, <3>1, AddedOnceStep
    <3> QED BY <2>0, <3>1, <3>2 DEF GoneForGood, net, Watch
  <2>6. CASE SendData
    BY <1>0, <2>0, <2>6, AddedOnceStep DEF SendData, Watched, GoneForGood, loop, reading, Watch
  <2>7. CASE ProcessTask
    <3>1. /\ taskQ # << >> /\ taskQ' = Tail(taskQ) /\ UNCHANGED <<net, reading>>
      BY <2>7 DEF ProcessTask
    <3>2. taskQ \in Seq({"add", "modify", "delete"}) /\ 1 \in 1 .. Len(taskQ) /\ Head(taskQ) = taskQ[1]
      BY <1>0, <3>1 DEF TypeOK
    <3>3. Head(taskQ) = "add" => conn = "new"
      BY <1>0, <3>2 DEF AddedOnce
    <3>4. /\ conn # "new" => conn' # "new"
          /\ conn = "gone" => conn' = "gone"
      BY <2>7, <3>3 DEF ProcessTask, AddChannel, ModifyChannel, RemoveChannel, NoChannel
    <3>5. AddedOnce'
      BY <1>0, <3>1, <3>4, AddedOnceStep
    <3> QED BY <2>0, <3>1, <3>4, <3>5 DEF GoneForGood, net, reading, Watch
  <2> QED BY <1>5, <1>7, <2>0, <2>1, <2>2, <2>3, <2>4, <2>5, <2>6, <2>7, ThreadFacts DEF LoopStep
<1> QED BY <1>2, <1>3, <1>4, <1>5, <1>6, <1>7, ThreadFacts
        DEF Next, MainStep, TellStep, WriterStep

\* What keeps a pipe closed or broken holds throughout.
LEMMA GoneAlways == Spec => []GoneForGood
<1>1. Init => GoneForGood
  BY DEF Init, GoneForGood, AddedOnce
<1>2. GoneForGood /\ TypeInv /\ Inv /\ [Next]_vars => GoneForGood'
  BY LostForGood
<1> QED BY <1>1, <1>2, InvAlways, PTL DEF Spec

-----------------------------------------------------------------------------
\* The pipe from the client

\* Asking puts a request into the pipe and parsing takes one out of it.
LEMMA RequestsMove ==
  ASSUME TypeInv, Framed, TypeInv', Framed', [Next]_vars, ~garbled'
  PROVE  \/ \E m \in Message : asked' = Append(asked, m) /\ UNCHANGED handled
         \/ /\ \E n \in Len(handled) + 1 .. Len(asked) : handled' = SubSeq(asked, 1, n)
            /\ UNCHANGED asked
         \/ UNCHANGED <<asked, handled>>
<1>1. CASE UNCHANGED vars
  BY <1>1 DEF vars, reading
<1>2. CASE Client
  <2>1. CASE Close
    BY <2>1 DEF Close, reading
  <2>2. ASSUME NEW r \in Request, Ask(r)
        PROVE  \E m \in Message : asked' = Append(asked, m) /\ UNCHANGED handled
    BY <2>2, ThreadFacts DEF Ask
  <2> QED BY <1>2, <2>1, <2>2 DEF Client
<1>3. ASSUME NEW t \in Thread, AddWriteTask(t) \/ TaskWakeup(t) \/ Tell(t)
      PROVE  UNCHANGED <<asked, handled>>
  BY <1>3 DEF AddWriteTask, AppendHead, AppendBody, SetWrite, AddModify, TaskWakeup, Tell, reading
<1>4. CASE AcceptConnection
  BY <1>4 DEF AcceptConnection, reading
<1>5. CASE ReadMessage \/ Timeout \/ SocketRead \/ EndOfStream \/ ParsePart
           \/ SendData \/ Check \/ SetRead \/ ProcessTask \/ TasksDone
  BY <1>5 DEF ReadMessage, Timeout, SocketRead, EndOfStream, ParsePart, SendData, Check, SetRead,
     ProcessTask, TasksDone, reading
<1>6. CASE ParseRequest
  <2> DEFINE n == Len(handled) + 1
  <2>1. UNCHANGED asked /\ handled' = Append(handled, rbuf[1][1])
    BY <1>6 DEF ParseRequest
  <2>2. /\ asked \in Seq(Request) /\ handled \in Seq(Request) /\ handled' \in Seq(Request)
        /\ Len(asked) \in Nat /\ Len(handled) \in Nat
    BY <2>1, StreamType DEF TypeInv
  <2>3. Len(handled') = n
    BY <2>1, <2>2
  <2>4. n <= Len(asked) /\ \A i \in 1 .. n : handled'[i] = asked[i]
    BY <2>1, <2>2, <2>3 DEF Framed, Waiting
  <2>5. handled' = SubSeq(asked, 1, n)
    <3>1. n \in Nat
      BY <2>2
    <3> HIDE DEF n
    <3> QED BY <2>2, <2>3, <2>4, <3>1, BeginningIs
  <2> QED BY <2>1, <2>2, <2>4, <2>5
<1> QED BY <1>1, <1>2, <1>3, <1>4, <1>5, <1>6, ThreadFacts
        DEF Next, MainStep, LoopStep, TellStep, WriterStep

\* parseRequest and processRead implement a pipe from the client to the
\* handlers, but for liveness: what is handled is what was asked, in order and
\* once, and once the promise is lost it stays lost.
THEOREM RequestsComeInOrder == Spec => Requests!Safety
<1>1. Init => Requests!Init
  BY DEF Init, Requests!Init
<1>2. GoneForGood /\ TypeInv /\ Inv /\ Framed /\ (TypeInv /\ Framed)' /\ [Next]_vars
        => [Requests!Next]_(Requests!vars)
  <2> SUFFICES ASSUME GoneForGood, TypeInv, Inv, Framed, TypeInv', Framed', [Next]_vars
               PROVE  Requests!Next
    OBVIOUS
  <2>1. CASE ~(~crowded' /\ ~garbled' /\ ~overlapped' /\ ~reset' /\ conn' # "gone")
    BY <2>1 DEF Requests!Next
  <2>2. CASE ~crowded' /\ ~garbled' /\ ~overlapped' /\ ~reset' /\ conn' # "gone"
    <3>1. ~closed' => ~closed
      BY LostForGood
    <3>2. \/ \E m \in Message : asked' = Append(asked, m) /\ UNCHANGED handled
          \/ /\ \E n \in Len(handled) + 1 .. Len(asked) : handled' = SubSeq(asked, 1, n)
             /\ UNCHANGED asked
          \/ UNCHANGED <<asked, handled>>
      BY <2>2, RequestsMove
    <3>3. Requests!Accept \/ Requests!Deliver \/ UNCHANGED <<asked, handled>>
      BY <3>2 DEF Requests!Accept, Requests!Deliver
    <3> QED BY <2>2, <3>1, <3>3 DEF Requests!Next
  <2> QED BY <2>1, <2>2
<1>3. GoneForGood /\ TypeInv /\ Inv /\ [Next]_vars =>
        [~(~crowded /\ ~garbled /\ ~overlapped /\ ~reset /\ conn # "gone") =>
           ~(~crowded /\ ~garbled /\ ~overlapped /\ ~reset /\ conn # "gone")']_(Requests!vars)
  BY LostForGood
<1> QED BY <1>1, <1>2, <1>3, GoneAlways, InvAlways, FramedAlways, PTL
        DEF Spec, Requests!Safety, Requests!Stays

-----------------------------------------------------------------------------
\* The pipe to the client

\* Every place in a stream is that of a head or of a body.
LEMMA HeadOrBody ==
  ASSUME NEW j \in Nat \ {0}
  PROVE  \E i \in Nat \ {0} : j = 2 * i - 1 \/ j = 2 * i
<1> DEFINE i == (j + 1) \div 2
<1>1. i \in Nat \ {0} /\ (j = 2 * i - 1 \/ j = 2 * i)
  OBVIOUS
<1> QED BY <1>1

\* What has been sent and what is in the buffer are the messages that were
\* queued, head and body of each in turn, but for the body of a message whose
\* head has just been put there.
Out == toClient \o wbuf
Halfway == \E t \in Thread : pc[t] = "body"
Packed ==
  /\ \A i \in 1 .. Len(queued) : Out[2 * i - 1] = <<queued[i], "head">>
  /\ \A i \in 1 .. Len(queued) : 2 * i <= Len(Out) => Out[2 * i] = <<queued[i], "body">>
  /\ Halfway => Len(Out) = 2 * Len(queued) - 1
  /\ ~Halfway => Len(Out) = 2 * Len(queued)
  /\ \A t \in Thread : pc[t] = "body" => queued # << >> /\ Text(t) = queued[Len(queued)]
SentInOrder ==
  /\ ~overlapped /\ ~reset => Packed
  /\ pc[Main] = "new" => queued = << >> /\ toClient = << >>

LEMMA OutType ==
  ASSUME TypeOK
  PROVE  /\ Out \in Seq(Piece) /\ Len(Out) = Len(toClient) + Len(wbuf)
         /\ Len(toClient) \in Nat /\ Len(wbuf) \in Nat /\ Len(queued) \in Nat
         /\ \A i \in 1 .. Len(toClient) : Out[i] = toClient[i]
         /\ \A i \in 1 .. Len(wbuf) : Out[Len(toClient) + i] = wbuf[i]
<1>1. toClient \in Seq(Piece) /\ wbuf \in Seq(Piece) /\ queued \in Seq(Message)
  BY DEF TypeOK
<1> HIDE DEF Piece
<1>2. /\ Out \in Seq(Piece) /\ Len(Out) = Len(toClient) + Len(wbuf)
      /\ \A i \in 1 .. Len(toClient) + Len(wbuf) :
           Out[i] = IF i <= Len(toClient) THEN toClient[i] ELSE wbuf[i - Len(toClient)]
  BY <1>1, ConcatProperties DEF Out
<1>3. Len(toClient) \in Nat /\ Len(wbuf) \in Nat /\ Len(queued) \in Nat
  BY <1>1
<1>4. ASSUME NEW i \in 1 .. Len(wbuf) PROVE Out[Len(toClient) + i] = wbuf[i]
  <2>1. /\ Len(toClient) + i \in 1 .. Len(toClient) + Len(wbuf)
        /\ ~(Len(toClient) + i <= Len(toClient))
        /\ Len(toClient) + i - Len(toClient) = i
    BY <1>3
  <2> QED BY <1>2, <2>1
<1> QED BY <1>2, <1>3, <1>4

\* Packed pieces are not junk.
LEMMA PackedIsWhole ==
  ASSUME TypeOK, Packed
  PROVE  /\ Len(Out) <= 2 * Len(queued)
         /\ \A j \in 1 .. Len(Out) : Out[j] # Junk
         /\ ~Torn(wbuf) /\ ~Torn(toClient)
<1>1. Len(Out) <= 2 * Len(queued)
  BY OutType DEF Packed
<1>2. \A i \in 1 .. Len(queued) : queued[i] # None
  <2>1. None \notin Message
    BY ConstantsAssumption DEF Message
  <2>2. \A i \in 1 .. Len(queued) : queued[i] \in Message
    BY DEF TypeOK
  <2> QED BY <2>1, <2>2
<1>3. ASSUME NEW j \in 1 .. Len(Out) PROVE Out[j] # Junk
  <2>1. j \in Nat \ {0}
    BY OutType
  <2>2. PICK i \in Nat \ {0} : j = 2 * i - 1 \/ j = 2 * i
    BY <2>1, HeadOrBody
  <2>3. i \in 1 .. Len(queued)
    BY <1>1, <2>2, OutType
  <2>4. Out[j] = <<queued[i], "head">> \/ Out[j] = <<queued[i], "body">>
    BY <2>2, <2>3 DEF Packed
  <2> QED BY <1>2, <2>3, <2>4 DEF Junk
<1>4. ~Torn(wbuf)
  <2>1. \A i \in 1 .. Len(wbuf) : Len(toClient) + i \in 1 .. Len(Out) /\ wbuf[i] # Junk
    BY <1>3, OutType
  <2>2. DOMAIN wbuf = 1 .. Len(wbuf)
    BY DEF TypeOK
  <2> QED BY <2>1, <2>2 DEF Torn, ToSet
<1>5. ~Torn(toClient)
  <2>1. \A i \in 1 .. Len(toClient) : i \in 1 .. Len(Out) /\ toClient[i] # Junk
    BY <1>3, OutType
  <2>2. DOMAIN toClient = 1 .. Len(toClient)
    BY DEF TypeOK
  <2> QED BY <2>1, <2>2 DEF Torn, ToSet
<1> QED BY <1>1, <1>3, <1>4, <1>5

\* A piece put behind the buffer is behind everything.
LEMMA OutPut ==
  ASSUME TypeOK, ~Torn(wbuf), NEW p \in Piece, wbuf' = Put(wbuf, <<p>>), toClient' = toClient
  PROVE  /\ Len(Out') = Len(Out) + 1 /\ Out'[Len(Out) + 1] = p
         /\ \A j \in 1 .. Len(Out) : Out'[j] = Out[j]
<1> DEFINE s == <<p>>
<1>1. wbuf' = wbuf \o s
  BY DEF Put
<1>2. toClient \in Seq(Piece) /\ wbuf \in Seq(Piece) /\ s \in Seq(Piece) /\ Len(s) = 1 /\ s[1] = p
  BY DEF TypeOK
<1> HIDE DEF s, Piece
<1>3. Out' = Out \o s
  <2>1. (toClient \o wbuf) \o s = toClient \o (wbuf \o s)
    BY <1>2, ConcatAssociative
  <2> QED BY <1>1, <2>1, Zenon DEF Out
<1>4. Out \in Seq(Piece) /\ Len(Out) \in Nat
  BY OutType
<1>5. /\ Len(Out \o s) = Len(Out) + Len(s)
      /\ \A i \in 1 .. Len(Out) + Len(s) :
           (Out \o s)[i] = IF i <= Len(Out) THEN Out[i] ELSE s[i - Len(Out)]
  BY <1>2, <1>4, ConcatProperties
<1> QED BY <1>2, <1>3, <1>4, <1>5

\* Sending moves pieces from the buffer to the client.
LEMMA OutSend ==
  ASSUME TypeOK, ~Torn(toClient), NEW n \in 1 .. Len(wbuf),
         wbuf' = SubSeq(wbuf, n + 1, Len(wbuf)), toClient' = Put(toClient, SubSeq(wbuf, 1, n))
  PROVE  /\ Out' = Out /\ Len(toClient') = Len(toClient) + n
         /\ toClient' \in Seq(Piece) /\ Len(toClient') <= Len(Out)
         /\ \A i \in 1 .. Len(toClient') : toClient'[i] = Out[i]
<1> DEFINE a == SubSeq(wbuf, 1, n)  b == SubSeq(wbuf, n + 1, Len(wbuf))
<1>1. toClient' = toClient \o a /\ wbuf' = b
  BY DEF Put
<1>2. toClient \in Seq(Piece) /\ wbuf \in Seq(Piece) /\ Len(wbuf) \in Nat /\ n \in Nat /\ n <= Len(wbuf)
  BY DEF TypeOK
<1> HIDE DEF Piece
<1>3. a \in Seq(Piece) /\ b \in Seq(Piece)
  BY <1>2, CutType
<1>4. a \o b = wbuf
  <2>1. a \o b = SubSeq(wbuf, 1, Len(wbuf))
    BY <1>2, ConcatAdjacentSubSeq
  <2> QED BY <1>2, <2>1, SubSeqFull
<1>5. Len(a) = n
  <2>1. \A i \in 1 .. n : wbuf[i] \in Piece
    BY <1>2
  <2>2. Len(a) = IF 1 <= n THEN n - 1 + 1 ELSE 0
    BY <1>2, <2>1, SubSeqProperties
  <2> QED BY <1>2, <2>2
<1> HIDE DEF a, b
<1>6. (toClient \o a) \o b = toClient \o (a \o b)
  <2>1. toClient \in Seq(Piece)
    BY <1>2
  <2> QED BY <1>3, <2>1, ConcatAssociative
<1>7. toClient \o a \in Seq(Piece) /\ Len(toClient \o a) = Len(toClient) + Len(a)
  BY <1>2, <1>3, ConcatProperties
<1>8. Out' = Out
  BY <1>1, <1>4, <1>6, Zenon DEF Out
<1>9. Len(toClient') <= Len(Out) /\ \A i \in 1 .. Len(toClient') : toClient'[i] = Out[i]
  <2>1. PICK c \in Seq(Piece) : c = toClient'
    BY <1>1, <1>7
  <2>2. Out = c \o b
    BY <1>1, <1>8, <2>1, Zenon DEF Out
  <2>3. /\ Len(c \o b) = Len(c) + Len(b)
        /\ \A i \in 1 .. Len(c) + Len(b) :
             (c \o b)[i] = IF i <= Len(c) THEN c[i] ELSE b[i - Len(c)]
    BY <1>3, ConcatProperties
  <2>4. Len(c) \in Nat /\ Len(b) \in Nat
    BY <1>3
  <2>5. Len(c) <= Len(Out) /\ \A i \in 1 .. Len(c) : c[i] = Out[i]
    BY <2>2, <2>3, <2>4
  <2> QED BY <2>1, <2>5
<1> QED BY <1>1, <1>5, <1>7, <1>8, <1>9

\* Steps that do not touch the stream
LEMMA SentFrame ==
  ASSUME SentInOrder, UNCHANGED <<toClient, wbuf, queued>>, ~overlapped' => ~overlapped,
         ~reset' => ~reset, pc'[Main] = "new" => pc[Main] = "new",
         \A t \in Thread : pc'[t] = "body" <=> pc[t] = "body",
         \A t \in Thread : pc[t] = "body" => Text(t)' = Text(t)
  PROVE  SentInOrder'
<1>1. Out' = Out /\ (Halfway' <=> Halfway)
  BY DEF Out, Halfway
<1>2. Packed => Packed'
  BY <1>1 DEF Packed
<1> QED BY <1>2 DEF SentInOrder

\* A thread that goes from and to places that are not "body"
LEMMA SentMove ==
  ASSUME TypeInv, SentInOrder, UNCHANGED <<toClient, wbuf, queued>>, ~overlapped' => ~overlapped,
         ~reset' => ~reset,
         \/ UNCHANGED <<pc, handled>>
         \/ /\ \E t \in Thread, there \in Places \ {"body", "new"} :
                 pc[t] # "body" /\ Goto(t, there)
            /\ UNCHANGED handled \/ pc[Loop] # "body"
  PROVE  SentInOrder'
<1>1. CASE UNCHANGED <<pc, handled>>
  BY <1>1, SentFrame DEF Text
<1>2. ASSUME NEW t \in Thread, NEW there \in Places \ {"body", "new"}, pc[t] # "body",
             Goto(t, there), UNCHANGED handled \/ pc[Loop] # "body"
      PROVE  SentInOrder'
  <2>1. /\ pc'[t] = there /\ \A u \in Thread \ {t} : pc'[u] = pc[u]
    BY <1>2, GotoType DEF TypeInv
  <2>2. \A u \in Thread : pc'[u] = "body" <=> pc[u] = "body"
    BY <1>2, <2>1
  <2>3. pc'[Main] = "new" => pc[Main] = "new"
    BY <1>2, <2>1, ThreadFacts
  <2>4. \A u \in Thread : pc[u] = "body" => Text(u)' = Text(u)
    BY <1>2 DEF Text
  <2> QED BY <2>2, <2>3, <2>4, SentFrame
<1> QED BY <1>1, <1>2

\* addWriteTask puts a message behind those that were queued, head first ...
LEMMA SentHead ==
  ASSUME TypeInv, Inv, SentInOrder, NEW t \in Thread \ {Main}, AppendHead(t), Watch
  PROVE  SentInOrder'
<1> DEFINE n == Len(queued)  m == Text(t)
<1>1. /\ pc[t] = "head" /\ Goto(t, "body") /\ queued' = Append(queued, m)
      /\ Buffered(t, Put(wbuf, <<<<m, "head">>>>)) /\ UNCHANGED <<loop, toClient, reset, handled>>
  BY DEF AppendHead, At, net, reading
<1>2. pc'[t] = "body" /\ \A u \in Thread \ {t} : pc'[u] = pc[u]
  BY <1>1, GotoType DEF TypeInv
<1>3. pc[Main] # "new" /\ pc'[Main] # "new"
  BY <1>1, <1>2, StageAtBuffer, ThreadFacts
<1>4. SUFFICES ASSUME ~overlapped', ~reset' PROVE Packed'
  BY <1>3 DEF SentInOrder
<1>5. /\ ~overlapped /\ ~reset
      /\ \A u \in Thread \ {t} : ~Busy(u) /\ ~Busy(u)'
  <2>1. Busy(t)'
    BY <1>2 DEF Busy
  <2> QED BY <1>1, <1>2, <1>4, <2>1, OthersAway
<1>6. \A u \in Thread \ {t} : pc'[u] # "body" /\ pc[u] # "body"
  BY <1>5 DEF Busy
<1>7. Packed /\ ~Halfway /\ Halfway'
  BY <1>1, <1>2, <1>5, <1>6 DEF SentInOrder, Halfway
<1>8. TypeOK /\ ~Torn(wbuf) /\ <<m, "head">> \in Piece /\ m \in Message
  BY <1>1, <1>7, PackedIsWhole, TextType DEF TypeInv, Piece
<1>9. wbuf' = Put(wbuf, <<<<m, "head">>>>)
  BY <1>1, <1>5 DEF Buffered, Others
<1>10. /\ Len(Out) = 2 * n /\ n \in Nat
       /\ Len(Out') = 2 * n + 1 /\ Out'[2 * n + 1] = <<m, "head">>
       /\ \A j \in 1 .. 2 * n : Out'[j] = Out[j]
  <2>1. Len(Out) = 2 * n /\ n \in Nat
    BY <1>7, <1>8, OutType DEF Packed
  <2> HIDE DEF n, m
  <2> QED BY <1>1, <1>8, <1>9, <2>1, OutPut
<1>11. /\ Len(queued') = n + 1 /\ queued'[n + 1] = m
       /\ \A i \in 1 .. n : queued'[i] = queued[i]
       /\ queued' # << >>
  <2>1. queued \in Seq(Message)
    BY <1>8 DEF TypeOK
  <2> HIDE DEF m
  <2> QED BY <1>1, <1>8, <2>1, AppendProperties
<1>12. ASSUME NEW i \in 1 .. Len(queued')
       PROVE  /\ Out'[2 * i - 1] = <<queued'[i], "head">>
              /\ 2 * i <= Len(Out') => Out'[2 * i] = <<queued'[i], "body">>
  <2> HIDE DEF n, m
  <2>1. CASE i = n + 1
    <3>1. 2 * i - 1 = 2 * n + 1 /\ ~(2 * i <= 2 * n + 1)
      BY <1>10, <2>1
    <3> QED BY <1>10, <1>11, <2>1, <3>1
  <2>2. CASE i # n + 1
    <3>1. i \in 1 .. n /\ 2 * i - 1 \in 1 .. 2 * n /\ 2 * i \in 1 .. 2 * n
      BY <1>10, <1>11, <2>2
    <3>2. Out[2 * i - 1] = <<queued[i], "head">> /\ Out[2 * i] = <<queued[i], "body">>
      BY <1>7, <1>10, <3>1 DEF Packed, n
    <3> QED BY <1>10, <1>11, <3>1, <3>2
  <2> QED BY <2>1, <2>2
<1>13. Text(t)' = m
  BY <1>1 DEF Text
<1>14. \A u \in Thread : pc'[u] = "body" => queued' # << >> /\ Text(u)' = queued'[Len(queued')]
  BY <1>6, <1>11, <1>13
<1>15. Len(Out') = 2 * Len(queued') - 1
  BY <1>10, <1>11
<1> QED BY <1>7, <1>12, <1>14, <1>15 DEF Packed

\* ... and then the body.
LEMMA SentBody ==
  ASSUME TypeInv, Inv, SentInOrder, NEW t \in Thread \ {Main}, AppendBody(t), Watch
  PROVE  SentInOrder'
<1> DEFINE n == Len(queued)  m == Text(t)
<1>1. /\ pc[t] = "body" /\ Goto(t, "event") /\ UNCHANGED queued
      /\ Buffered(t, Put(wbuf, <<<<m, "body">>>>)) /\ UNCHANGED <<loop, toClient, reset, handled>>
  BY DEF AppendBody, At, net, reading
<1>2. pc'[t] = "event" /\ \A u \in Thread \ {t} : pc'[u] = pc[u]
  BY <1>1, GotoType DEF TypeInv
<1>3. pc[Main] # "new" /\ pc'[Main] # "new"
  BY <1>1, <1>2, StageAtBuffer, ThreadFacts
<1>4. SUFFICES ASSUME ~overlapped', ~reset' PROVE Packed'
  BY <1>3 DEF SentInOrder
<1>5. /\ ~overlapped /\ ~reset
      /\ \A u \in Thread \ {t} : ~Busy(u) /\ ~Busy(u)'
  <2>1. Busy(t)'
    BY <1>2 DEF Busy
  <2> QED BY <1>1, <1>2, <1>4, <2>1, OthersAway
<1>6. \A u \in Thread : pc'[u] # "body"
  BY <1>2, <1>5 DEF Busy
<1>7. Packed /\ Halfway /\ ~Halfway' /\ m = queued[n] /\ queued # << >>
  BY <1>1, <1>5, <1>6 DEF SentInOrder, Halfway, Packed
<1>8. TypeOK /\ ~Torn(wbuf) /\ <<m, "body">> \in Piece
  BY <1>1, <1>7, PackedIsWhole, TextType DEF TypeInv, Piece
<1>9. wbuf' = Put(wbuf, <<<<m, "body">>>>)
  BY <1>1, <1>5 DEF Buffered, Others
<1>10. /\ Len(Out) = 2 * n - 1 /\ n \in Nat \ {0}
       /\ Len(Out') = 2 * n /\ Out'[2 * n] = <<m, "body">>
       /\ \A j \in 1 .. 2 * n - 1 : Out'[j] = Out[j]
  <2>1. Len(Out) = 2 * n - 1 /\ n \in Nat
    BY <1>7, <1>8, OutType DEF Packed
  <2>2. n # 0
    BY <1>7, <1>8 DEF TypeOK
  <2> HIDE DEF n, m
  <2>3. /\ Len(Out') = Len(Out) + 1 /\ Out'[Len(Out) + 1] = <<m, "body">>
        /\ \A j \in 1 .. Len(Out) : Out'[j] = Out[j]
    BY <1>1, <1>8, <1>9, OutPut
  <2>4. Len(Out) + 1 = 2 * n
    BY <2>1
  <2> QED BY <2>1, <2>2, <2>3, <2>4
<1>12. ASSUME NEW i \in 1 .. n
       PROVE  /\ Out'[2 * i - 1] = <<queued[i], "head">>
              /\ Out'[2 * i] = <<queued[i], "body">>
  <2>0. Out[2 * i - 1] = <<queued[i], "head">>
    BY <1>7 DEF Packed
  <2>1. CASE i = n
    <3>1. 2 * i - 1 \in 1 .. 2 * n - 1
      BY <1>10, <2>1
    <3> QED BY <1>7, <1>10, <2>0, <2>1, <3>1
  <2>2. CASE i # n
    <3>1. 2 * i - 1 \in 1 .. 2 * n - 1 /\ 2 * i \in 1 .. 2 * n - 1
      BY <1>10, <2>2
    <3>2. Out[2 * i] = <<queued[i], "body">>
      BY <1>7, <1>10, <3>1 DEF Packed
    <3> QED BY <1>10, <2>0, <3>1, <3>2
  <2> QED BY <2>1, <2>2
<1> QED BY <1>1, <1>6, <1>7, <1>10, <1>12 DEF Packed

\* sendData sends what is first, and nobody else is at the buffer then.
LEMMA SentData ==
  ASSUME TypeInv, Inv, SentInOrder, SendData, Watch
  PROVE  /\ SentInOrder'
         /\ ~overlapped' /\ ~reset' =>
              /\ ~overlapped /\ ~reset /\ Len(toClient') >= Len(toClient)
              /\ toClient' \in Seq(Piece) /\ Len(toClient') <= Len(Out)
              /\ \A i \in 1 .. Len(toClient') : toClient'[i] = Out[i]
<1>1. /\ pc[Loop] = "wait" /\ Goto(Loop, "check") /\ conn = "open" /\ ~reset
      /\ reset' = closed /\ UNCHANGED <<loop, queued, handled>>
  BY DEF SendData, Watched, At, reading
<1>2. pc'[Loop] = "check" /\ \A u \in Thread \ {Loop} : pc'[u] = pc[u]
  BY <1>1, GotoType, ThreadFacts DEF TypeInv
<1>3. pc[Main] # "new" /\ pc'[Main] # "new"
  BY <1>1, <1>2, ThreadFacts DEF Inv, StageOK
<1>4. ASSUME ~overlapped', ~reset'
      PROVE  /\ ~overlapped /\ Packed' /\ Len(toClient') >= Len(toClient)
             /\ toClient' \in Seq(Piece) /\ Len(toClient') <= Len(Out)
             /\ \A i \in 1 .. Len(toClient') : toClient'[i] = Out[i]
  <2>1. /\ ~overlapped
        /\ \A u \in Thread \ {Loop} : ~Busy(u) /\ ~Busy(u)'
    <3>1. Busy(Loop)'
      BY <1>2 DEF Busy
    <3> QED BY <1>2, <1>4, <3>1, OthersAway, ThreadFacts
  <2>2. \A u \in Thread : pc'[u] # "body" /\ pc[u] # "body"
    BY <1>1, <1>2, <2>1 DEF Busy
  <2>3. Packed /\ ~Halfway /\ ~Halfway'
    BY <1>1, <2>1, <2>2 DEF SentInOrder, Halfway
  <2>4. TypeOK /\ ~Torn(toClient) /\ ~closed
    BY <1>1, <1>4, <2>3, PackedIsWhole DEF TypeInv
  <2>5. PICK n \in 1 .. Len(wbuf) :
          wbuf' = SubSeq(wbuf, n + 1, Len(wbuf)) /\ toClient' = Put(toClient, SubSeq(wbuf, 1, n))
    BY <2>1, <2>4 DEF SendData, Buffered, Others
  <2>6. /\ Out' = Out /\ Len(toClient') = Len(toClient) + n
        /\ toClient' \in Seq(Piece) /\ Len(toClient') <= Len(Out)
        /\ \A i \in 1 .. Len(toClient') : toClient'[i] = Out[i]
    BY <2>4, <2>5, OutSend
  <2>7. Len(toClient') >= Len(toClient)
    BY <2>4, <2>6, OutType
  <2>8. Packed'
    BY <1>1, <2>2, <2>3, <2>6 DEF Packed
  <2> QED BY <2>1, <2>6, <2>7, <2>8
<1> QED BY <1>1, <1>3, <1>4 DEF SentInOrder

\* The constructor puts the key there, before anybody else is at the connection.
LEMMA SentKey ==
  ASSUME TypeInv, Inv, SentInOrder, AcceptConnection
  PROVE  /\ SentInOrder' /\ queued = << >>
<1>1. /\ pc[Main] = "new" /\ Goto(Main, "wake") /\ wbuf' = Package(Key) /\ queued' = <<Key>>
      /\ UNCHANGED toClient
  BY DEF AcceptConnection, At, net
<1>2. pc'[Main] = "wake" /\ \A u \in Thread \ {Main} : pc'[u] = pc[u]
  BY <1>1, GotoType, ThreadFacts DEF TypeInv
<1>3. queued = << >> /\ toClient = << >>
  BY <1>1 DEF SentInOrder
<1>4. \A u \in Thread : pc'[u] # "body"
  <2>1. pc[Loop] # "body" /\ \A w \in Writer : pc[w] # "body"
    BY <1>1 DEF Inv, StageOK
  <2> QED BY <1>2, <2>1, ThreadFacts
<1>5. Out' = Package(Key)
  BY <1>1, <1>3 DEF Out, Package
<1>6. Len(Out') = 2 /\ Out'[1] = <<Key, "head">> /\ Out'[2] = <<Key, "body">>
  BY <1>5 DEF Package
<1>7. Len(queued') = 1 /\ queued'[1] = Key
  BY <1>1
<1>8. Packed'
  BY <1>4, <1>6, <1>7 DEF Packed, Halfway
<1> QED BY <1>2, <1>3, <1>8 DEF SentInOrder

\* Every step keeps what has been sent in order.
LEMMA SentStep ==
  ASSUME TypeInv, Inv, GoneForGood, SentInOrder, [Next]_vars
  PROVE  SentInOrder'
<1>0. (~overlapped' => ~overlapped) /\ (~reset' => ~reset)
  BY LostForGood
<1>1. CASE UNCHANGED vars
  BY <1>0, <1>1, SentMove DEF vars, net, reading
<1>2. CASE Client
  <2>1. UNCHANGED <<toClient, wbuf, queued, pc, handled>>
    BY <1>2 DEF Client, Close, Ask, reading
  <2> QED BY <1>0, <2>1, SentMove
<1>3. ASSUME NEW t \in Thread \ {Main}, AddWriteTask(t), Watch PROVE SentInOrder'
  <2>1. CASE SetWrite(t)
    <3>1. pc[t] # "body" /\ Goto(t, "push") /\ UNCHANGED <<toClient, wbuf, queued, handled>>
      BY <2>1 DEF SetWrite, At, net, reading
    <3> QED BY <1>0, <3>1, SentMove
  <2>2. CASE AddModify(t)
    <3> DEFINE there == IF t = Loop THEN "tasks" ELSE "wake"
    <3>1. pc[t] # "body" /\ Goto(t, there) /\ UNCHANGED <<toClient, wbuf, queued, handled>>
      BY <2>2 DEF AddModify, At, net, reading
    <3>2. there \in Places \ {"body", "new"}
      OBVIOUS
    <3> QED BY <1>0, <3>1, <3>2, SentMove
  <2> QED BY <1>3, <2>1, <2>2, SentHead, SentBody DEF AddWriteTask
<1>4. ASSUME NEW t \in Thread, TaskWakeup(t) \/ Tell(t) PROVE SentInOrder'
  <2>1. CASE TaskWakeup(t)
    <3>1. pc[t] # "body" /\ Goto(t, "done") /\ UNCHANGED <<toClient, wbuf, queued, handled>>
      BY <2>1 DEF TaskWakeup, At, net, reading
    <3> QED BY <1>0, <3>1, SentMove
  <2>2. CASE Tell(t)
    <3>1. pc[t] # "body" /\ Goto(t, "head") /\ UNCHANGED <<toClient, wbuf, queued, handled>>
      BY <2>2 DEF Tell, At, net, reading
    <3> QED BY <1>0, <3>1, SentMove
  <2> QED BY <1>4, <2>1, <2>2
<1>5. ASSUME NEW there \in Places \ {"body", "new"}, pc[Loop] # "body", Goto(Loop, there),
             UNCHANGED <<toClient, wbuf, queued>>
      PROVE  SentInOrder'
  BY <1>0, <1>5, SentMove, ThreadFacts
<1>6. CASE LoopStep
  <2>1. CASE ReadMessage
    BY <1>5, <2>1 DEF ReadMessage, At, net
  <2>2. CASE Timeout
    BY <1>5, <2>2 DEF Timeout, At, net
  <2>3. CASE SocketRead
    BY <1>5, <2>3 DEF SocketRead, Watched, At
  <2>4. CASE EndOfStream
    BY <1>5, <2>4 DEF EndOfStream, Watched, At, net
  <2>5. CASE ParseRequest
    <3>1. pc[Loop] # "body" /\ UNCHANGED <<toClient, wbuf, queued>>
          /\ (Goto(Loop, "tasks") \/ Goto(Loop, "head"))
      BY <2>5 DEF ParseRequest, At, net
    <3> QED BY <1>5, <3>1
  <2>6. CASE ParsePart
    BY <1>5, <2>6 DEF ParsePart, At, net
  <2>7. CASE SendData
    BY <1>6, <2>7, SentData DEF LoopStep
  <2>8. CASE Check
    BY <1>5, <2>8 DEF Check, At, net
  <2>9. CASE SetRead
    BY <1>5, <2>9 DEF SetRead, At, net
  <2>10. CASE ProcessTask
    BY <1>0, <2>10, SentMove DEF ProcessTask, net, reading
  <2>11. CASE TasksDone
    BY <1>5, <2>11 DEF TasksDone, At, net
  <2> QED BY <1>3, <1>6, <2>1, <2>2, <2>3, <2>4, <2>5, <2>6, <2>7, <2>8, <2>9, <2>10, <2>11, ThreadFacts
          DEF LoopStep
<1> QED BY <1>1, <1>2, <1>3, <1>4, <1>6, SentKey, ThreadFacts
        DEF Next, MainStep, TellStep, WriterStep

\* The messages of a stream of packages are those that it was made of.
LEMMA FramesAre ==
  ASSUME NEW s \in Seq(Piece), NEW q \in Seq(Message), Len(s) <= 2 * Len(q),
         \A i \in 1 .. Len(q) : 2 * i <= Len(s) => s[2 * i] = <<q[i], "body">>
  PROVE  \E k \in Nat : /\ k = Len(s) \div 2 /\ k <= Len(q)
                        /\ Frames(s) = SubSeq(q, 1, k) /\ Len(Frames(s)) = k
<1> DEFINE k == Len(s) \div 2
<1>1. Len(s) \in Nat /\ Len(q) \in Nat
  OBVIOUS
<1>2. k \in Nat /\ 2 * k <= Len(s)
  BY <1>1
<1>3. k <= Len(q)
  BY <1>1, <1>2
<1>4. Frames(s) = [i \in 1 .. k |-> s[2 * i][1]]
  BY DEF Frames
<1> HIDE DEF k
<1>5. ASSUME NEW i \in 1 .. k PROVE s[2 * i][1] = q[i] /\ q[i] \in Message
  <2>1. 2 * i <= Len(s) /\ i \in 1 .. Len(q)
    BY <1>1, <1>2, <1>3
  <2>2. s[2 * i] = <<q[i], "body">>
    BY <2>1
  <2> QED BY <2>1, <2>2
<1>6. /\ Frames(s) \in Seq(Message) /\ Len(Frames(s)) = k
      /\ \A i \in 1 .. k : Frames(s)[i] = q[i]
  <2> DEFINE g == [i \in 1 .. k |-> s[2 * i][1]]
  <2>1. \A i \in 1 .. k : g[i] = q[i] /\ g[i] \in Message
    BY <1>5
  <2>2. DOMAIN g = 1 .. k
    OBVIOUS
  <2>3. g \in [1 .. k -> Message]
    BY <1>5
  <2> HIDE DEF g, Message
  <2>4. g \in Seq(Message) /\ Len(g) = k
    BY <1>2, <2>2, <2>3
  <2> QED BY <1>4, <2>1, <2>4 DEF g
<1>7. Frames(s) = SubSeq(q, 1, k)
  BY <1>1, <1>2, <1>3, <1>6, BeginningIs
<1> QED BY <1>2, <1>3, <1>6, <1>7 DEF k

\* What the client can take out of the beginning of the stream is the first of
\* the messages.
LEMMA FirstAre ==
  ASSUME TypeOK, Packed, NEW s \in Seq(Piece), Len(s) <= Len(Out),
         \A i \in 1 .. Len(s) : s[i] = Out[i]
  PROVE  \E k \in Nat : /\ k = Len(s) \div 2 /\ k <= Len(queued)
                        /\ Frames(s) = SubSeq(queued, 1, k) /\ Len(Frames(s)) = k
<1>1. queued \in Seq(Message) /\ Len(s) <= 2 * Len(queued)
  <2>1. Len(s) \in Nat /\ Len(Out) \in Nat /\ Len(queued) \in Nat
    BY OutType
  <2> QED BY <2>1, PackedIsWhole DEF TypeOK
<1>2. ASSUME NEW i \in 1 .. Len(queued), 2 * i <= Len(s)
      PROVE  s[2 * i] = <<queued[i], "body">>
  <2>1. 2 * i \in 1 .. Len(s) /\ 2 * i <= Len(Out)
    BY <1>1, <1>2, OutType
  <2> QED BY <2>1 DEF Packed
<1> QED BY <1>1, <1>2, FramesAre

\* Every step of the connection is one of the pipe to the client.
LEMMA RepliesMove ==
  ASSUME TypeInv, Inv, SentInOrder, [Next]_vars, ~overlapped', ~reset'
  PROVE  \/ \E m \in Message : queued' = Append(queued, m) /\ UNCHANGED toClient
         \/ /\ UNCHANGED queued
            /\ \/ UNCHANGED Frames(toClient)
               \/ \E n \in Len(Frames(toClient)) + 1 .. Len(queued) :
                    Frames(toClient)' = SubSeq(queued, 1, n)
<1>1. ASSUME UNCHANGED <<toClient, queued>> PROVE UNCHANGED queued /\ UNCHANGED Frames(toClient)
  BY <1>1 DEF Frames
<1>2. CASE UNCHANGED vars
  BY <1>1, <1>2 DEF vars, net
<1>3. CASE Client
  BY <1>1, <1>3 DEF Client, Close, Ask
<1>4. ASSUME NEW t \in Thread \ {Main}, AddWriteTask(t)
      PROVE  \/ \E m \in Message : queued' = Append(queued, m) /\ UNCHANGED toClient
             \/ UNCHANGED <<toClient, queued>>
  <2>1. CASE AppendHead(t)
    <3>1. pc[t] = "head" /\ queued' = Append(queued, Text(t)) /\ UNCHANGED toClient
      BY <2>1 DEF AppendHead, At, net
    <3> QED BY <3>1, TextType
  <2> QED BY <1>4, <2>1 DEF AddWriteTask, AppendBody, SetWrite, AddModify, net
<1>5. ASSUME NEW t \in Thread, TaskWakeup(t) \/ Tell(t) PROVE UNCHANGED <<toClient, queued>>
  BY <1>5 DEF TaskWakeup, Tell, net
<1>6. CASE AcceptConnection
  <2>1. queued' = <<Key>> /\ queued = << >> /\ UNCHANGED toClient
    BY <1>6, SentKey DEF AcceptConnection, net
  <2> QED BY <2>1, ThreadFacts
<1>7. CASE ReadMessage \/ Timeout \/ SocketRead \/ EndOfStream \/ ParseRequest \/ ParsePart
           \/ Check \/ SetRead \/ ProcessTask \/ TasksDone
  BY <1>1, <1>7 DEF ReadMessage, Timeout, SocketRead, EndOfStream, ParseRequest, ParsePart, Check,
     SetRead, ProcessTask, TasksDone, net
<1>8. CASE SendData /\ Watch
  <2>1. /\ ~overlapped /\ ~reset /\ Len(toClient') >= Len(toClient)
        /\ toClient' \in Seq(Piece) /\ Len(toClient') <= Len(Out)
        /\ \A i \in 1 .. Len(toClient') : toClient'[i] = Out[i]
    BY <1>8, SentData
  <2>2. UNCHANGED queued /\ TypeOK /\ Packed
    BY <1>8, <2>1 DEF SendData, SentInOrder, TypeInv
  <2>3. /\ toClient \in Seq(Piece) /\ Len(toClient) <= Len(Out)
        /\ \A i \in 1 .. Len(toClient) : toClient[i] = Out[i]
    <3>1. toClient \in Seq(Piece)
      BY <2>2 DEF TypeOK
    <3>2. /\ Len(Out) = Len(toClient) + Len(wbuf) /\ Len(toClient) \in Nat /\ Len(wbuf) \in Nat
          /\ \A i \in 1 .. Len(toClient) : toClient[i] = Out[i]
      BY <2>2, OutType
    <3> QED BY <3>1, <3>2
  <2>4. PICK k \in Nat : /\ k = Len(toClient) \div 2 /\ k <= Len(queued)
                         /\ Frames(toClient) = SubSeq(queued, 1, k) /\ Len(Frames(toClient)) = k
    BY <2>2, <2>3, FirstAre
  <2>5. PICK l \in Nat : /\ l = Len(toClient') \div 2 /\ l <= Len(queued)
                         /\ Frames(toClient') = SubSeq(queued, 1, l)
    BY <2>1, <2>2, FirstAre
  <2>6. k <= l
    <3>1. Len(toClient) \in Nat /\ Len(toClient') \in Nat
      BY <2>1, <2>3
    <3> QED BY <2>1, <2>4, <2>5, <3>1
  <2>7. Len(queued) \in Nat
    BY <2>2, OutType
  <2>8. l = k \/ l \in k + 1 .. Len(queued)
    BY <2>5, <2>6, <2>7
  <2>9. Frames(toClient)' = Frames(toClient')
    BY DEF Frames
  <2> QED BY <2>2, <2>4, <2>5, <2>8, <2>9
<1> QED BY <1>1, <1>2, <1>3, <1>4, <1>5, <1>6, <1>7, <1>8, ThreadFacts
        DEF Next, MainStep, LoopStep, TellStep, WriterStep

\* The order of what was sent holds throughout.
LEMMA SentAlways == Spec => []SentInOrder
<1>1. Init => SentInOrder
  <2> SUFFICES ASSUME Init PROVE SentInOrder
    OBVIOUS
  <2>1. queued = << >> /\ toClient = << >> /\ wbuf = << >>
    BY DEF Init
  <2>2. \A t \in Thread : pc[t] # "body"
    BY DEF Init
  <2>3. Packed
    BY <2>1, <2>2 DEF Packed, Halfway, Out
  <2> QED BY <2>1, <2>3 DEF SentInOrder
<1>2. SentInOrder /\ GoneForGood /\ TypeInv /\ Inv /\ [Next]_vars => SentInOrder'
  BY SentStep
<1> QED BY <1>1, <1>2, GoneAlways, InvAlways, PTL DEF Spec

\* addWriteTask and processWrite implement a pipe to the client, but for
\* liveness: as long as no two threads are at the buffer at once and the socket
\* is not in error, the client gets whole messages, in the order in which they
\* were queued and each once, however the socket cuts the stream.
THEOREM RepliesComeInOrder == Spec => Replies!Safety
<1>1. Init => Replies!Init
  <2> SUFFICES ASSUME Init PROVE Replies!Init
    OBVIOUS
  <2>1. Frames(<< >>) = << >>
    BY DEF Frames
  <2> QED BY <2>1 DEF Init, Replies!Init
<1>2. GoneForGood /\ TypeInv /\ Inv /\ SentInOrder /\ [Next]_vars => [Replies!Next]_(Replies!vars)
  <2> SUFFICES ASSUME GoneForGood, TypeInv, Inv, SentInOrder, [Next]_vars
               PROVE  Replies!Next
    OBVIOUS
  <2>1. CASE ~(~overlapped' /\ ~reset' /\ conn' # "gone")
    BY <2>1 DEF Replies!Next
  <2>2. CASE ~overlapped' /\ ~reset' /\ conn' # "gone"
    <3>1. ~closed' => ~closed
      BY LostForGood
    <3>2. \/ \E m \in Message : queued' = Append(queued, m) /\ UNCHANGED toClient
          \/ /\ UNCHANGED queued
             /\ \/ UNCHANGED Frames(toClient)
                \/ \E n \in Len(Frames(toClient)) + 1 .. Len(queued) :
                     Frames(toClient)' = SubSeq(queued, 1, n)
      BY <2>2, RepliesMove
    <3>3. UNCHANGED toClient => UNCHANGED Frames(toClient)
      BY DEF Frames
    <3>4. Replies!Accept \/ Replies!Deliver \/ UNCHANGED <<queued, Frames(toClient)>>
      BY <3>2, <3>3 DEF Replies!Accept, Replies!Deliver
    <3> QED BY <2>2, <3>1, <3>4 DEF Replies!Next
  <2> QED BY <2>1, <2>2
<1>3. GoneForGood /\ TypeInv /\ Inv /\ [Next]_vars =>
        [~(~overlapped /\ ~reset /\ conn # "gone") =>
           ~(~overlapped /\ ~reset /\ conn # "gone")']_(Replies!vars)
  BY LostForGood
<1> QED BY <1>1, <1>2, <1>3, GoneAlways, SentAlways, InvAlways, PTL
        DEF Spec, Replies!Safety, Replies!Stays
===============================================================================
