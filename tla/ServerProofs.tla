----------------------------- MODULE ServerProofs -----------------------------
(***************************************************************************)
(* Proofs about Server for any number of workers and of requests, whatever *)
(* thread SIGINT is delivered to, the checkers and the workers included:   *)
(* its types, that no ring of threads waits for each other's mutexes, that *)
(* connections are given to loops that exist, and that no checker is left  *)
(* when the program exits.                                                 *)
(***************************************************************************)
EXTENDS Server, SequenceTheorems, FiniteSetTheorems, TLAPS

UnlockOp(m) == [op |-> "unlock", m |-> m]
UseOp(m) == [op |-> "use", m |-> m]

\* What is left to lock and unlock: nothing is done under DisconnectManager's
\* mutex, and under ConnectionManager's only that of DisconnectManager is used.
Nested(p) ==
  \A i \in 1 .. Len(p) : p[i].op = "lock" =>
    \/ p[i].m = "DM" /\ i + 1 <= Len(p) /\ p[i + 1] = UnlockOp("DM")
    \/ /\ p[i].m = "CM" /\ i + 2 <= Len(p)
       /\ p[i + 1] = UseOp("DM") /\ p[i + 2] = UnlockOp("CM")

Program == {p \in Seq(Op) : Nested(p)}

\* What a thread that holds a mutex does next, if SIGINT did not strike it.
InOrder(t) ==
  /\ owner["DM"] = t => prog[t] # << >> /\ First(t) = UnlockOp("DM")
  /\ owner["CM"] = t =>
       \/ prog[t] # << >> /\ First(t) = UnlockOp("CM")
       \/ Len(prog[t]) >= 2 /\ First(t) = UseOp("DM") /\ prog[t][2] = UnlockOp("CM")
  /\ \A m \in Mutex \ {"CM", "DM"} : owner[m] # t

OrderInv ==
  /\ step = "redis" => alive = {Main}
  /\ step = "redis" \/ redisReady => \A t \in Thread :
       prog[t] \in Program /\ (handler # t => InOrder(t))

\* The workers are made one after the other, each when the one before has its loop.
WorkersMade(k) ==
  /\ alive \cap Worker = 0 .. k - 1
  /\ step \notin {"start", "await", "run"} => k = 0
  /\ step = "start" => k < Workers /\ 0 .. k - 1 \subseteq loopMade
  /\ step = "await" => k > 0 /\ 0 .. k - 2 \subseteq loopMade
  /\ step = "run" => Worker \subseteq loopMade

LoopInv == (\E k \in 0 .. Workers : WorkersMade(k)) /\ GivenToLoop

\* How far the handler of SIGINT is, and with it the checkers.
Making(c) == IF c = Hearts THEN "makeHearts" ELSE "makeTurns"
Joining(c) == IF c = Hearts THEN "joinHearts" ELSE "joinTurns"
StopInv ==
  /\ handler # Nobody => handler \in alive
  /\ handler = Nobody <=> stage = "none"
  /\ step \in {"redis", "hearts", "makeHearts"} => alive = {Main}
  /\ step \in {"turns", "makeTurns"} => alive \subseteq {Main, Hearts}
  /\ handler = Nobody => \A c \in Checker : c \in alive \/ step = Making(c) => flag[c]
  /\ handler # Hearts =>
       /\ \A c \in Checker : c \in alive /\ ~flag[c] => stage = Joining(c)
       /\ stage \in {"stopHearts", "joinHearts", "exit"} => Turns \notin alive
       /\ stage = "exit" => Hearts \notin alive
  /\ handler = Hearts => stage # "exit" /\ (stage # "joinHearts" => flag[Hearts])
  /\ outcome = "exited" => stage = "exit"
-----------------------------------------------------------------------------
\* The threads that are named are not the same, and no workers.
LEMMA Distinct ==
  /\ Main # Turns /\ Main # Hearts /\ Turns # Hearts /\ Nobody \notin Thread
  /\ Main \notin Worker /\ Turns \notin Worker /\ Hearts \notin Worker
<1>1. \A a, b, c : Cardinality({a, b, c}) # 4
  <2> SUFFICES ASSUME NEW a, NEW b, NEW c PROVE Cardinality({a, b, c}) # 4
    OBVIOUS
  <2>1. IsFiniteSet({}) /\ Cardinality({}) = 0
    BY FS_EmptySet
  <2>2. IsFiniteSet({a}) /\ Cardinality({a}) = 1
    BY FS_Singleton
  <2>3. /\ IsFiniteSet({a} \cup {b})
        /\ Cardinality({a} \cup {b}) \in {1, 2}
    BY <2>2, FS_AddElement
  <2>4. Cardinality(({a} \cup {b}) \cup {c}) \in {1, 2, 3}
    BY <2>3, FS_AddElement
  <2>5. ({a} \cup {b}) \cup {c} = {a, b, c}
    OBVIOUS
  <2> QED BY <2>4, <2>5
<1>2. Cardinality({Main, Turns, Hearts, Nobody}) = 4
  BY ConstantsAssumption
<1>3. ASSUME \/ Main = Turns \/ Main = Hearts \/ Turns = Hearts
             \/ Nobody \in {Main, Turns, Hearts}
      PROVE  FALSE
  <2>1. \/ {Main, Turns, Hearts, Nobody} = {Turns, Hearts, Nobody}
        \/ {Main, Turns, Hearts, Nobody} = {Main, Hearts, Nobody}
        \/ {Main, Turns, Hearts, Nobody} = {Main, Turns, Hearts}
    BY <1>3
  <2> QED BY <1>1, <1>2, <2>1
<1> QED BY <1>3, ConstantsAssumption DEF Thread, Checker

\* What is put together from parts of a kind is of that kind.
LEMMA PutTogether ==
  ASSUME NEW P, << >> \in P, \A p, q \in P : p \o q \in P, \A m \in Mutex : Touch(m) \in P,
         Locked("DM", IF redisReady THEN Nothing ELSE initRedisConnection) \in P,
         Locked("CM", recordPlayerDisconnect) \in P
  PROVE  /\ Request \subseteq P /\ LOG \in P /\ initRedisConnection \in P
         /\ \A c \in Checker : Round(c) \subseteq P
<1>1. /\ Touch("DM") \in P /\ Touch("CM") \in P /\ Touch("TM") \in P
      /\ Touch("RL") \in P /\ Touch("LOG") \in P
  BY DEF Mutex
<1>2. \A won \in BOOLEAN : EndGame(won) \in P
  <2>1. EndGame(TRUE) \in P
    BY <1>1 DEF EndGame, getPlayers, clearRoomTimeouts, ScoreGame, cleanupGame
  <2>2. EndGame(FALSE) \in P
    BY <1>1 DEF EndGame, getPlayers, Nothing
  <2> QED BY <2>1, <2>2
<1>3. \A won \in BOOLEAN : executeAIPlay(won) \in P
  <2> SUFFICES ASSUME NEW won \in BOOLEAN PROVE executeAIPlay(won) \in P
    OBVIOUS
  <2> DEFINE end == IF won THEN Nothing ELSE getPlayers \o isDisconnectedPlayer
  <2>1. end \in P
    BY <1>1 DEF getPlayers, isDisconnectedPlayer, Nothing
  <2> DEFINE play == Locked("DM", IF redisReady THEN Nothing ELSE initRedisConnection)
  <2>2. play \in P
    OBVIOUS
  <2>3. executeAIPlay(won) = play \o EndGame(won) \o end
    BY DEF executeAIPlay
  <2> HIDE DEF end, play
  <2> QED BY <1>2, <2>1, <2>2, <2>3
<1>4. \A won, absent \in BOOLEAN : PlayAHand(won, absent) \in P
  <2> SUFFICES ASSUME NEW won \in BOOLEAN, NEW absent \in BOOLEAN
               PROVE  PlayAHand(won, absent) \in P
    OBVIOUS
  <2> DEFINE next == IF absent THEN executeAIPlay(FALSE) ELSE startPlayerTurn
             end == IF won THEN Nothing ELSE isDisconnectedPlayer \o next
  <2>1. next \in P
    BY <1>1, <1>3 DEF startPlayerTurn
  <2> HIDE DEF next
  <2>2. end \in P
    BY <1>1, <2>1 DEF isDisconnectedPlayer, Nothing
  <2>3. PlayAHand(won, absent) = finishPlayerTurn \o getPlayers \o EndGame(won) \o end
    BY DEF PlayAHand, next
  <2> HIDE DEF end
  <2> QED BY <1>1, <1>2, <2>2, <2>3 DEF finishPlayerTurn, getPlayers
<1>5. AddRoom \in P
  BY <1>1 DEF AddRoom, removePlayer, addUser, unregisterConnection, registerConnection, LOG,
     getPlayers, clearRoomTimeouts, cleanupGame
<1>6. ReconnectRequest \in P /\ GameOver \in P /\ Destroy \in P
  BY <1>1 DEF ReconnectRequest, GameOver, Destroy, updateHeartbeat, addUser,
     removePlayerFromDisconnectList, registerConnection, ScoreGame, getPlayers, cleanupGame,
     clearRoomTimeouts, unregisterConnection, recordPlayerDisconnect
<1>7. Request \subseteq P
  BY <1>1, <1>4, <1>5, <1>6 DEF Request, updateHeartbeat
<1>8. HeartRound \subseteq P
  BY <1>1 DEF HeartRound
<1>9. TurnRound \subseteq P
  <2>1. \A won \in BOOLEAN :
          Touch("TM") \o finishPlayerTurn \o recordPlayerDisconnect \o executeAIPlay(won)
            \o isDisconnectedPlayer \o startPlayerTurn \in P
    BY <1>1, <1>3 DEF finishPlayerTurn, recordPlayerDisconnect, isDisconnectedPlayer,
       startPlayerTurn
  <2> QED BY <1>1, <2>1 DEF TurnRound
<1> QED BY <1>1, <1>7, <1>8, <1>9 DEF Round, LOG, initRedisConnection

\* A mutex is taken before what is done under it, and given back after it.
LEMMA LockedIs ==
  ASSUME NEW m \in Mutex, NEW body \in Seq(Op)
  PROVE  /\ Locked(m, body) \in Seq(Op) /\ Len(Locked(m, body)) = Len(body) + 2
         /\ Locked(m, body)[1] = [op |-> "lock", m |-> m]
         /\ \A i \in 1 .. Len(body) : Locked(m, body)[i + 1] = body[i]
         /\ Locked(m, body)[Len(body) + 2] = UnlockOp(m)
<1> DEFINE first == <<[op |-> "lock", m |-> m]>>
           last == <<[op |-> "unlock", m |-> m]>>
<1>1. /\ first \in Seq(Op) /\ Len(first) = 1 /\ first[1] = [op |-> "lock", m |-> m]
      /\ last \in Seq(Op) /\ Len(last) = 1 /\ last[1] = UnlockOp(m)
  BY DEF Op, UnlockOp
<1>2. Locked(m, body) = (first \o body) \o last
  BY DEF Locked
<1> HIDE DEF first, last
<1>3. Len(body) \in Nat
  BY LenProperties
<1>4. /\ first \o body \in Seq(Op) /\ Len(first \o body) = Len(body) + 1
      /\ (first \o body)[1] = first[1]
      /\ \A i \in 1 .. Len(body) : (first \o body)[i + 1] = body[i]
  <2>1. /\ first \o body \in Seq(Op) /\ Len(first \o body) = Len(first) + Len(body)
        /\ \A i \in 1 .. Len(first) + Len(body) :
             (first \o body)[i] = IF i <= Len(first) THEN first[i] ELSE body[i - Len(first)]
    BY <1>1, ConcatProperties
  <2> QED BY <1>1, <1>3, <2>1
<1> DEFINE front == first \o body
<1>5. /\ front \in Seq(Op) /\ Len(front) = Len(body) + 1 /\ front[1] = first[1]
      /\ \A i \in 1 .. Len(body) : front[i + 1] = body[i]
  BY <1>4
<1> HIDE DEF front
<1>6. /\ front \o last \in Seq(Op) /\ Len(front \o last) = Len(front) + Len(last)
      /\ \A i \in 1 .. Len(front) + Len(last) :
           (front \o last)[i] = IF i <= Len(front) THEN front[i] ELSE last[i - Len(front)]
  BY <1>1, <1>5, ConcatProperties
<1>7. Locked(m, body) = front \o last
  BY <1>2 DEF front
<1> QED BY <1>1, <1>3, <1>5, <1>6, <1>7

\* All a thread may do are operations, ...
LEMMA AreOperations ==
  /\ Request \subseteq Seq(Op) /\ LOG \in Seq(Op) /\ initRedisConnection \in Seq(Op)
  /\ \A c \in Checker : Round(c) \subseteq Seq(Op)
<1>1. << >> \in Seq(Op) /\ \A p, q \in Seq(Op) : p \o q \in Seq(Op)
  BY ConcatProperties, EmptySeq
<1>2. \A m \in Mutex : Touch(m) \in Seq(Op)
  BY DEF Touch, Op
<1>3. \A m \in Mutex : \A p \in Seq(Op) : Locked(m, p) \in Seq(Op)
  BY LockedIs
<1>4. Locked("DM", IF redisReady THEN Nothing ELSE initRedisConnection) \in Seq(Op)
  BY <1>1, <1>2, <1>3 DEF Mutex, Nothing, initRedisConnection
<1>5. Locked("CM", recordPlayerDisconnect) \in Seq(Op)
  BY <1>2, <1>3 DEF Mutex, recordPlayerDisconnect
<1> QED BY <1>1, <1>2, <1>4, <1>5, PutTogether

\* A mutex that is given back at once is in no one's way.
LEMMA OneUse == \A m \in Mutex : Touch(m) \in Program
  BY DEF Touch, Op, Program, Nested

\* ... and nested as they should once Redis is there.
LEMMA AreNested ==
  ASSUME redisReady
  PROVE  /\ Request \subseteq Program /\ LOG \in Program
         /\ \A c \in Checker : Round(c) \subseteq Program
<1>1. << >> \in Program
  BY EmptySeq DEF Program, Nested
<1>2. \A p, q \in Program : p \o q \in Program
  <2> SUFFICES ASSUME NEW p \in Program, NEW q \in Program PROVE p \o q \in Program
    OBVIOUS
  <2>1. p \in Seq(Op) /\ q \in Seq(Op) /\ Nested(p) /\ Nested(q)
    BY DEF Program
  <2>2. /\ p \o q \in Seq(Op) /\ Len(p \o q) = Len(p) + Len(q)
        /\ \A i \in 1 .. Len(p) + Len(q) :
             (p \o q)[i] = IF i <= Len(p) THEN p[i] ELSE q[i - Len(p)]
    BY <2>1, ConcatProperties
  <2>3. Len(p) \in Nat /\ Len(q) \in Nat
    BY <2>1, LenProperties
  <2>4. Nested(p \o q)
    <3> SUFFICES ASSUME NEW i \in 1 .. Len(p) + Len(q), (p \o q)[i].op = "lock"
                 PROVE  \/ /\ (p \o q)[i].m = "DM" /\ i + 1 <= Len(p) + Len(q)
                           /\ (p \o q)[i + 1] = UnlockOp("DM")
                        \/ /\ (p \o q)[i].m = "CM" /\ i + 2 <= Len(p) + Len(q)
                           /\ (p \o q)[i + 1] = UseOp("DM") /\ (p \o q)[i + 2] = UnlockOp("CM")
      BY <2>2 DEF Nested
    <3>1. CASE i <= Len(p)
      <4>1. i \in 1 .. Len(p) /\ p[i].op = "lock" /\ (p \o q)[i] = p[i]
        BY <2>2, <2>3, <3>1
      <4>2. \/ p[i].m = "DM" /\ i + 1 <= Len(p) /\ p[i + 1] = UnlockOp("DM")
            \/ /\ p[i].m = "CM" /\ i + 2 <= Len(p)
               /\ p[i + 1] = UseOp("DM") /\ p[i + 2] = UnlockOp("CM")
        BY <2>1, <4>1 DEF Nested
      <4>3. \A j \in {i, i + 1, i + 2} : j <= Len(p) => (p \o q)[j] = p[j]
        BY <2>2, <2>3
      <4> QED BY <2>3, <4>1, <4>2, <4>3
    <3>2. CASE ~(i <= Len(p))
      <4> DEFINE j == i - Len(p)
      <4>1. j \in 1 .. Len(q) /\ (p \o q)[i] = q[j] /\ q[j].op = "lock"
        BY <2>2, <2>3, <3>2
      <4>2. \/ q[j].m = "DM" /\ j + 1 <= Len(q) /\ q[j + 1] = UnlockOp("DM")
            \/ /\ q[j].m = "CM" /\ j + 2 <= Len(q)
               /\ q[j + 1] = UseOp("DM") /\ q[j + 2] = UnlockOp("CM")
        BY <2>1, <4>1 DEF Nested
      <4>3. j + 1 <= Len(q) => (p \o q)[i + 1] = q[j + 1]
        BY <2>2, <2>3, <3>2
      <4>4. j + 2 <= Len(q) => (p \o q)[i + 2] = q[j + 2]
        BY <2>2, <2>3, <3>2
      <4>5. /\ j + 1 <= Len(q) => i + 1 <= Len(p) + Len(q)
            /\ j + 2 <= Len(q) => i + 2 <= Len(p) + Len(q)
        BY <2>3
      <4> HIDE DEF j
      <4> QED BY <4>1, <4>2, <4>3, <4>4, <4>5
    <3> QED BY <3>1, <3>2
  <2> QED BY <2>2, <2>4 DEF Program
<1>3. \A m \in Mutex : Touch(m) \in Program
  BY OneUse
<1>4. Locked("DM", Nothing) \in Program
  <2> DEFINE p == Locked("DM", Nothing)
  <2>1. Nothing \in Seq(Op) /\ Len(Nothing) = 0 /\ "DM" \in Mutex
    BY EmptySeq DEF Nothing, Mutex
  <2>2. /\ p \in Seq(Op) /\ Len(p) = Len(Nothing) + 2
        /\ p[1] = [op |-> "lock", m |-> "DM"] /\ p[Len(Nothing) + 2] = UnlockOp("DM")
    BY <2>1, LockedIs
  <2> HIDE DEF p
  <2>3. Len(p) = 2 /\ p[1].op = "lock" /\ p[1].m = "DM" /\ p[2] = UnlockOp("DM")
        /\ p[2].op = "unlock"
    BY <2>1, <2>2 DEF UnlockOp
  <2>4. Nested(p)
    BY <2>3 DEF Nested
  <2> QED BY <2>2, <2>4 DEF Program, p
<1>5. Locked("CM", recordPlayerDisconnect) \in Program
  <2> DEFINE p == Locked("CM", recordPlayerDisconnect)
  <2>1. /\ recordPlayerDisconnect \in Seq(Op) /\ Len(recordPlayerDisconnect) = 1
        /\ recordPlayerDisconnect[1] = UseOp("DM") /\ "CM" \in Mutex
    BY DEF recordPlayerDisconnect, Touch, UseOp, Op, Mutex
  <2>2. /\ p \in Seq(Op) /\ Len(p) = Len(recordPlayerDisconnect) + 2
        /\ p[1] = [op |-> "lock", m |-> "CM"]
        /\ \A i \in 1 .. Len(recordPlayerDisconnect) : p[i + 1] = recordPlayerDisconnect[i]
        /\ p[Len(recordPlayerDisconnect) + 2] = UnlockOp("CM")
    BY <2>1, LockedIs
  <2> HIDE DEF p
  <2>3. /\ Len(p) = 3 /\ p[1].op = "lock" /\ p[1].m = "CM"
        /\ p[2] = UseOp("DM") /\ p[2].op = "use" /\ p[3] = UnlockOp("CM") /\ p[3].op = "unlock"
    BY <2>1, <2>2 DEF UnlockOp, UseOp
  <2>4. Nested(p)
    BY <2>3 DEF Nested
  <2> QED BY <2>2, <2>4 DEF Program, p
<1>6. Locked("DM", IF redisReady THEN Nothing ELSE initRedisConnection) \in Program
  BY <1>4
<1> QED BY <1>1, <1>2, <1>3, <1>5, <1>6, PutTogether

-----------------------------------------------------------------------------
USE DEF boot, work, signal

\* A thread goes on with the rest of what it has to do.
LEMMA Rest ==
  ASSUME TypeOK, NEW t \in Thread, prog[t] # << >>
  PROVE  /\ First(t) \in Op /\ First(t).m \in Mutex /\ Tail(prog[t]) \in Seq(Op)
         /\ First(t) = prog[t][1] /\ Len(Tail(prog[t])) = Len(prog[t]) - 1
         /\ Len(prog[t]) \in Nat \ {0}
         /\ \A i \in 1 .. Len(prog[t]) - 1 : Tail(prog[t])[i] = prog[t][i + 1]
<1>1. prog[t] \in Seq(Op)
  BY DEF TypeOK
<1> DEFINE p == prog[t]
           S == Op
<1>2. p \in Seq(S) /\ p # << >>
  BY <1>1
<1> HIDE DEF p, S
<1>3. /\ Head(p) \in S /\ Tail(p) \in Seq(S) /\ Head(p) = p[1] /\ Len(Tail(p)) = Len(p) - 1
      /\ Len(p) \in Nat \ {0} /\ \A i \in 1 .. Len(p) - 1 : Tail(p)[i] = p[i + 1]
  BY <1>2
<1> QED BY <1>3 DEF p, S, First, Op

\* Types are kept by whoever goes on with what he has to do, ...
LEMMA TypeMoves ==
  ASSUME TypeOK, NEW t \in Thread, Moves(t)
  PROVE  TypeOK'
<1>1. prog[t] # << >> /\ prog' = [prog EXCEPT ![t] = Tail(prog[t])]
      /\ UNCHANGED <<boot, flag, alive, work, signal>>
  BY DEF Moves, Lock, Unlock, Use, NextIs, Proceed
<1>2. prog' \in [Thread -> Seq(Op)]
  BY <1>1, Rest DEF TypeOK
<1>3. owner' \in [Mutex -> Thread \cup {Nobody}]
  BY DEF Moves, Lock, Unlock, Use, Give, TypeOK
<1> QED BY <1>1, <1>2, <1>3 DEF TypeOK

\* ... the checkers, the workers, ...
LEMMA TypeThreads ==
  ASSUME TypeOK,
         \/ \E c \in Checker : CheckerLoop(c) \/ CheckerEnds(c)
         \/ \E w \in Worker : MakeLoop(w) \/ HandleRequest(w)
  PROVE  TypeOK'
<1>1. ASSUME NEW c \in Checker, CheckerLoop(c) PROVE TypeOK'
  <2>1. c \in Thread /\ Round(c) \subseteq Seq(Op)
    BY AreOperations DEF Thread
  <2>2. prog' \in [Thread -> Seq(Op)]
    BY <1>1, <2>1 DEF CheckerLoop, TypeOK
  <2> QED BY <1>1, <2>2 DEF CheckerLoop, TypeOK
<1>2. ASSUME NEW c \in Checker, CheckerEnds(c) PROVE TypeOK'
  BY <1>2 DEF CheckerEnds, TypeOK
<1>3. ASSUME NEW w \in Worker, MakeLoop(w) PROVE TypeOK'
  BY <1>3 DEF MakeLoop, TypeOK
<1>4. ASSUME NEW w \in Worker, HandleRequest(w) PROVE TypeOK'
  <2>1. w \in Thread /\ Request \subseteq Seq(Op)
    BY AreOperations DEF Thread
  <2>2. prog' \in [Thread -> Seq(Op)]
    BY <1>4, <2>1 DEF HandleRequest, TypeOK
  <2>3. queue' \in [Worker -> Nat]
    BY <1>4 DEF HandleRequest, TypeOK
  <2> QED BY <1>4, <2>2, <2>3 DEF HandleRequest, TypeOK
<1> QED BY <1>1, <1>2, <1>3, <1>4

\* ... main, ...
LEMMA TypeMain ==
  ASSUME TypeOK, Boot \/ Accept
  PROVE  TypeOK'
<1>1. Main \in Thread /\ Hearts \in Checker /\ Turns \in Checker /\ Worker \subseteq Thread
      /\ Checker \subseteq Thread
  BY DEF Thread, Checker
<1>2. initRedisConnection \in Seq(Op) /\ LOG \in Seq(Op)
  BY AreOperations
<1>3. CASE InitRedis
  <2>1. prog' \in [Thread -> Seq(Op)]
    BY <1>1, <1>2, <1>3 DEF InitRedis, TypeOK
  <2> QED BY <1>3, <2>1 DEF InitRedis, TypeOK
<1>4. CASE StartHearts \/ StartTurns
  BY <1>1, <1>4 DEF StartHearts, StartTurns, StartChecker, TypeOK
<1>5. ASSUME NEW w \in Worker, StartWorker(w) PROVE TypeOK'
  BY <1>1, <1>5 DEF StartWorker, TypeOK
<1>6. ASSUME NEW w \in Worker, AwaitWorker(w) PROVE TypeOK'
  BY <1>6 DEF AwaitWorker, TypeOK
<1>7. CASE Accept
  <2>1. prog' \in [Thread -> Seq(Op)]
    BY <1>1, <1>2, <1>7 DEF Accept, TypeOK
  <2>2. arrived' \in 0 .. MaxRequests /\ queue' \in [Worker -> Nat]
    BY <1>7, ConstantsAssumption DEF Accept, TypeOK
  <2>3. index' \in Worker
    BY <1>7, ConstantsAssumption DEF Accept, TypeOK, NextIndex, Worker
  <2> QED BY <1>7, <2>1, <2>2, <2>3 DEF Accept, TypeOK
<1> QED BY <1>3, <1>4, <1>5, <1>6, <1>7 DEF Boot

\* ... and the handler of SIGINT.
LEMMA TypeSignal ==
  ASSUME TypeOK, SignalHandler \/ \E t \in Struck : Interrupt(t)
  PROVE  TypeOK'
<1>1. ASSUME NEW t \in Struck, Interrupt(t) PROVE TypeOK'
  <2>1. t \in Thread
    BY ConstantsAssumption
  <2>2. owner' \in [Mutex -> Thread \cup {Nobody}]
    BY <1>1, <2>1 DEF Interrupt, Give, TypeOK
  <2> QED BY <1>1, <2>1, <2>2 DEF Interrupt, TypeOK
<1>2. CASE HandlerLogs \/ Exit
  BY <1>2 DEF HandlerLogs, Exit, TypeOK
<1>3. ASSUME NEW c \in Checker, NEW now, NEW join \in {"joinTurns", "joinHearts"},
             NEW next \in {"stopHearts", "exit"},
             StopChecker(c, now, join, next) \/ JoinChecker(c, now, next)
      PROVE  TypeOK'
  BY <1>3 DEF StopChecker, JoinChecker, Stop, TypeOK
<1> QED BY <1>1, <1>2, <1>3 DEF SignalHandler, Checker

\* The state of the model has the types it is meant to have, whatever handlers
\* and checkers are made to do and wherever SIGINT strikes.
THEOREM TypeCorrect == Spec => []TypeOK
<1>1. Init => TypeOK
  <2> SUFFICES ASSUME Init PROVE TypeOK
    OBVIOUS
  <2>1. prog \in [Thread -> Seq(Op)]
    BY EmptySeq DEF Init
  <2>2. index \in Worker /\ arrived \in 0 .. MaxRequests
    BY ConstantsAssumption DEF Init, Worker
  <2> QED BY <2>1, <2>2 DEF Init, TypeOK, Thread
<1>2. TypeOK /\ [Next]_vars => TypeOK'
  <2> SUFFICES ASSUME TypeOK, [Next]_vars PROVE TypeOK'
    OBVIOUS
  <2>1. CASE UNCHANGED vars
    BY <2>1 DEF vars, TypeOK
  <2>2. CASE Next
    BY <2>2, TypeMoves, TypeThreads, TypeMain, TypeSignal
       DEF Next, MainStep, CheckerStep, WorkerStep, Thread
  <2> QED BY <2>1, <2>2
<1> QED BY <1>1, <1>2, PTL DEF Spec

-----------------------------------------------------------------------------
\* What is left of a nested program is nested.
LEMMA RestIsNested ==
  ASSUME TypeOK, NEW t \in Thread, prog[t] # << >>, prog[t] \in Program
  PROVE  Tail(prog[t]) \in Program
<1> DEFINE p == prog[t]
           q == Tail(prog[t])
<1>1. /\ q \in Seq(Op) /\ Len(q) = Len(p) - 1 /\ Len(p) \in Nat \ {0}
      /\ \A i \in 1 .. Len(p) - 1 : q[i] = p[i + 1]
  BY Rest
<1>2. Nested(p)
  BY DEF Program
<1> HIDE DEF p, q
<1>3. Nested(q)
  <2> SUFFICES ASSUME NEW i \in 1 .. Len(q), q[i].op = "lock"
               PROVE  \/ q[i].m = "DM" /\ i + 1 <= Len(q) /\ q[i + 1] = UnlockOp("DM")
                      \/ /\ q[i].m = "CM" /\ i + 2 <= Len(q)
                         /\ q[i + 1] = UseOp("DM") /\ q[i + 2] = UnlockOp("CM")
    BY DEF Nested
  <2> DEFINE j == i + 1
  <2>1. j \in 1 .. Len(p) /\ q[i] = p[j]
    BY <1>1
  <2>2. /\ j + 1 <= Len(p) => i + 1 <= Len(q) /\ q[i + 1] = p[j + 1]
        /\ j + 2 <= Len(p) => i + 2 <= Len(q) /\ q[i + 2] = p[j + 2]
    BY <1>1
  <2> HIDE DEF j
  <2> QED BY <1>2, <2>1, <2>2 DEF Nested
<1> QED BY <1>1, <1>3 DEF Program, q

\* Nothing happens to a thread, or only to what it does not hold.
LEMMA InOrderStays ==
  ASSUME NEW t \in Thread, InOrder(t), prog'[t] = prog[t],
         \A m \in Mutex : owner'[m] = t => owner[m] = t
  PROVE  InOrder(t)'
  BY DEF InOrder, First, Mutex

\* The locks are taken in order, by whoever takes one, ...
LEMMA OrderMoves ==
  ASSUME TypeOK, NEW t \in Thread, Moves(t), prog[t] \in Program, InOrder(t)
  PROVE  /\ prog'[t] \in Program /\ InOrder(t)'
         /\ \A u \in Thread \ {t} : InOrder(u) => InOrder(u)'
<1> DEFINE m == First(t).m
<1>1. prog[t] # << >> /\ prog' = [prog EXCEPT ![t] = Tail(prog[t])]
  BY DEF Moves, Lock, Unlock, Use, NextIs, Proceed
<1>2. /\ m \in Mutex /\ First(t) \in Op /\ First(t) = prog[t][1] /\ Len(prog[t]) \in Nat \ {0}
      /\ Len(Tail(prog[t])) = Len(prog[t]) - 1 /\ Tail(prog[t]) \in Seq(Op)
      /\ \A i \in 1 .. Len(prog[t]) - 1 : Tail(prog[t])[i] = prog[t][i + 1]
  BY <1>1, Rest
<1>3. prog'[t] = Tail(prog[t]) /\ \A u \in Thread \ {t} : prog'[u] = prog[u]
  BY <1>1 DEF TypeOK
<1>4. prog'[t] \in Program
  BY <1>1, <1>3, RestIsNested
<1>5. \A n \in Mutex : /\ owner'[n] # owner[n] => n = m
                       /\ owner'[n] \in {owner[n], t, Nobody}
  BY <1>2 DEF Moves, Lock, Unlock, Use, Give, TypeOK
<1>6. Nobody \notin Thread
  BY Distinct
<1>7. \A u \in Thread \ {t} : InOrder(u) => InOrder(u)'
  BY <1>3, <1>5, <1>6, InOrderStays
<1>8. InOrder(t)'
  <2>1. Len(prog'[t]) >= 1 => prog'[t] # << >> /\ First(t)' = prog'[t][1]
                                  /\ prog'[t][1] = prog[t][2]
    <3> DEFINE q == Tail(prog[t])
    <3>1. q \in Seq(Op) /\ Len(q) = Len(prog[t]) - 1 /\ Len(prog[t]) \in Nat
          /\ \A i \in 1 .. Len(prog[t]) - 1 : q[i] = prog[t][i + 1]
      BY <1>2
    <3>2. prog'[t] = q
      BY <1>3
    <3> HIDE DEF q
    <3>3. Len(q) >= 1 => q # << >> /\ Head(q) = q[1]
      BY <3>1
    <3>4. Len(q) >= 1 => q[1] = prog[t][2]
      BY <3>1
    <3> QED BY <3>2, <3>3, <3>4 DEF First
  <2>2. CASE Lock(t)
    <3>1. First(t).op = "lock" /\ owner' = [owner EXCEPT ![m] = t] /\ owner[m] = Nobody
      BY <2>2 DEF Lock, NextIs, Wait, Give
    <3>2. \A n \in Mutex : owner[n] # t
      BY <1>6, <3>1 DEF InOrder, UnlockOp, UseOp, Mutex
    <3>3. \A n \in Mutex : owner'[n] = t => n = m
      BY <3>1, <3>2 DEF TypeOK
    <3>4. \/ m = "DM" /\ 2 <= Len(prog[t]) /\ prog[t][2] = UnlockOp("DM")
          \/ /\ m = "CM" /\ 3 <= Len(prog[t])
             /\ prog[t][2] = UseOp("DM") /\ prog[t][3] = UnlockOp("CM")
      BY <1>2, <3>1 DEF Program, Nested
    <3>5. CASE m = "DM"
      <4>1. prog'[t] # << >> /\ First(t)' = UnlockOp("DM")
        BY <1>2, <1>3, <2>1, <3>4, <3>5
      <4> QED BY <3>3, <3>5, <4>1 DEF InOrder, Mutex
    <3>6. CASE m = "CM"
      <4>1. Len(prog'[t]) >= 2 /\ First(t)' = UseOp("DM") /\ prog'[t][2] = UnlockOp("CM")
        BY <1>2, <1>3, <2>1, <3>4, <3>6
      <4> QED BY <3>3, <3>6, <4>1 DEF InOrder, Mutex
    <3> QED BY <3>4, <3>5, <3>6
  <2>3. CASE Unlock(t)
    <3>1. First(t).op = "unlock" /\ owner' = [owner EXCEPT ![m] = Nobody]
      BY <2>3 DEF Unlock, NextIs, Give
    <3>2. \A n \in Mutex : owner[n] = t => n = m
      BY <1>2, <3>1 DEF InOrder, UnlockOp, UseOp, Mutex
    <3>3. \A n \in Mutex : owner'[n] # t
      BY <1>2, <1>6, <3>1, <3>2 DEF TypeOK
    <3> QED BY <3>3 DEF InOrder, Mutex
  <2>4. CASE Use(t)
    <3>1. First(t).op = "use" /\ owner' = owner
      BY <2>4 DEF Use, NextIs
    <3>2. \A n \in Mutex : owner[n] = t =>
            n = "CM" /\ Len(prog[t]) >= 2 /\ prog[t][2] = UnlockOp("CM")
      BY <3>1 DEF InOrder, UnlockOp, UseOp, Mutex
    <3>3. owner["CM"] = t => prog'[t] # << >> /\ First(t)' = UnlockOp("CM")
      BY <1>2, <1>3, <2>1, <3>2 DEF Mutex
    <3> QED BY <3>1, <3>2, <3>3 DEF InOrder, Mutex
  <2> QED BY <2>2, <2>3, <2>4 DEF Moves
<1> QED BY <1>4, <1>7, <1>8

\* ... and whatever else a thread begins to do.
LEMMA OrderBegins ==
  ASSUME TypeOK, NEW t \in Thread, InOrder(t), prog[t] = << >>,
         NEW p \in Program, prog' = [prog EXCEPT ![t] = p], owner' = owner
  PROVE  /\ prog'[t] \in Program /\ InOrder(t)'
         /\ \A u \in Thread \ {t} : prog'[u] = prog[u] /\ (InOrder(u) => InOrder(u)')
<1>1. prog'[t] = p /\ \A u \in Thread \ {t} : prog'[u] = prog[u]
  BY DEF TypeOK
<1>2. Len(prog[t]) = 0
  BY EmptySeq
<1>3. \A m \in Mutex : owner[m] # t
  BY <1>2 DEF InOrder, Mutex
<1>4. InOrder(t)'
  BY <1>3 DEF InOrder, Mutex
<1> QED BY <1>1, <1>4, InOrderStays

\* Every step keeps the order of the locks.
LEMMA OrderStep == TypeOK /\ OrderInv /\ [Next]_vars => OrderInv'
<1> SUFFICES ASSUME TypeOK, OrderInv, [Next]_vars PROVE OrderInv'
  OBVIOUS
<1> DEFINE Good == \A t \in Thread : prog[t] \in Program /\ (handler # t => InOrder(t))
<1>1. ASSUME UNCHANGED <<prog, owner, handler, redisReady>>, step' = "redis" => step = "redis",
             step = "redis" => step' = "redis" /\ alive' = alive
      PROVE  OrderInv'
  BY <1>1 DEF OrderInv, InOrder, First
<1>2. CASE UNCHANGED vars
  BY <1>1, <1>2 DEF vars
<1>3. ASSUME NEW t \in Thread, Moves(t) PROVE OrderInv'
  <2>1. UNCHANGED <<step, redisReady, alive, handler>> /\ handler # t
        /\ prog' = [prog EXCEPT ![t] = Tail(prog[t])]
    BY <1>3 DEF Moves, Lock, Unlock, Use, NextIs, Proceed, Runs
  <2>2. ASSUME Good PROVE Good'
    <3>1. /\ prog'[t] \in Program /\ InOrder(t)'
          /\ \A u \in Thread \ {t} : InOrder(u) => InOrder(u)'
      BY <1>3, <2>1, <2>2, OrderMoves
    <3>2. \A u \in Thread \ {t} : prog'[u] = prog[u]
      BY <2>1 DEF TypeOK
    <3> QED BY <2>1, <2>2, <3>1, <3>2
  <2> QED BY <2>1, <2>2 DEF OrderInv
<1>4. ASSUME NEW t \in Thread, prog[t] = << >>, handler # t, UNCHANGED <<owner, handler>>,
             NEW P, redisReady' => P \subseteq Program, \E p \in P : prog' = [prog EXCEPT ![t] = p],
             step' # "redis", redisReady' => redisReady \/ step = "redis"
      PROVE  OrderInv'
  <2>1. ASSUME redisReady' PROVE Good'
    <3>1. Good
      BY <1>4, <2>1 DEF OrderInv
    <3>2. PICK p \in Program : prog' = [prog EXCEPT ![t] = p]
      BY <1>4, <2>1
    <3>3. /\ prog'[t] \in Program /\ InOrder(t)'
          /\ \A u \in Thread \ {t} : prog'[u] = prog[u] /\ (InOrder(u) => InOrder(u)')
      BY <1>4, <3>1, <3>2, OrderBegins
    <3> QED BY <1>4, <3>1, <3>3
  <2> QED BY <1>4, <2>1 DEF OrderInv
<1>5. ASSUME NEW c \in Checker, CheckerLoop(c) PROVE OrderInv'
  <2>1. c \in Thread /\ step # "redis" /\ redisReady' = redisReady /\ step' = step
    BY <1>5, Distinct DEF Thread, Checker, CheckerLoop, Idle, Runs, OrderInv
  <2>2. redisReady' => Round(c) \subseteq Program
    BY <2>1, AreNested
  <2>3. prog[c] = << >> /\ handler # c /\ UNCHANGED <<owner, handler>>
        /\ \E p \in Round(c) : prog' = [prog EXCEPT ![c] = p]
    BY <1>5 DEF CheckerLoop, Idle, Runs
  <2> QED BY <1>4, <2>1, <2>2, <2>3
<1>6. ASSUME NEW c \in Checker, CheckerEnds(c) PROVE OrderInv'
  <2>1. step # "redis"
    BY <1>6, Distinct DEF Checker, CheckerEnds, Idle, Runs, OrderInv
  <2> QED BY <1>1, <1>6, <2>1 DEF CheckerEnds
<1>7. ASSUME NEW w \in Worker, MakeLoop(w) PROVE OrderInv'
  BY <1>1, <1>7 DEF MakeLoop
<1>8. ASSUME NEW w \in Worker, HandleRequest(w) PROVE OrderInv'
  <2>1. w \in Thread /\ step # "redis" /\ redisReady' = redisReady /\ step' = step
    BY <1>8, Distinct DEF Thread, HandleRequest, Idle, Runs, OrderInv
  <2>2. redisReady' => Request \subseteq Program
    BY <2>1, AreNested
  <2>3. prog[w] = << >> /\ handler # w /\ UNCHANGED <<owner, handler>>
        /\ \E p \in Request : prog' = [prog EXCEPT ![w] = p]
    BY <1>8 DEF HandleRequest, Idle, Runs
  <2> QED BY <1>4, <2>1, <2>2, <2>3
<1>9. CASE InitRedis
  <2>1. initRedisConnection \in Program
    BY OneUse DEF initRedisConnection, Mutex
  <2>2. {initRedisConnection} \subseteq Program /\ Main \in Thread
    BY <2>1 DEF Thread
  <2> QED BY <1>4, <1>9, <2>2 DEF InitRedis, Idle, Runs
<1>10. CASE StartHearts \/ StartTurns
  BY <1>1, <1>10 DEF StartHearts, StartTurns, StartChecker
<1>11. ASSUME NEW w \in Worker, StartWorker(w) \/ AwaitWorker(w) PROVE OrderInv'
  BY <1>1, <1>11 DEF StartWorker, AwaitWorker
<1>12. CASE Accept
  <2>1. LOG \in Program
    BY OneUse DEF LOG, Mutex
  <2>2. {LOG} \subseteq Program /\ Main \in Thread
    BY <2>1 DEF Thread
  <2> QED BY <1>4, <1>12, <2>2 DEF Accept, Idle, Runs
<1>13. CASE SignalHandler
  BY <1>1, <1>13 DEF SignalHandler, HandlerLogs, Exit, StopChecker, JoinChecker
<1>14. ASSUME NEW t \in Struck, Interrupt(t) PROVE OrderInv'
  <2>1. t \in Thread /\ handler = Nobody /\ handler' = t
        /\ UNCHANGED <<step, redisReady, alive, prog>>
        /\ \A m \in Mutex : owner'[m] \in {owner[m], t}
    BY <1>14, ConstantsAssumption DEF Interrupt, Give, TypeOK
  <2>2. ASSUME Good PROVE Good'
    <3>1. \A u \in Thread \ {t} : InOrder(u) => InOrder(u)'
      BY <2>1, InOrderStays
    <3> QED BY <2>1, <2>2, <3>1, Distinct
  <2> QED BY <2>1, <2>2 DEF OrderInv
<1> QED BY <1>2, <1>3, <1>5, <1>6, <1>7, <1>8, <1>9, <1>10, <1>11, <1>12, <1>13, <1>14
        DEF Next, MainStep, CheckerStep, WorkerStep, Boot, Thread

\* Once DisconnectManager has its Redis connection, no ring of threads waits
\* for each other's mutexes and none for its own: ConnectionManager's mutex is
\* taken before DisconnectManager's, and nothing under that one.
THEOREM NoRingOfLocks == Spec => []NoDeadlock
<1>1. Init => OrderInv
  <2> SUFFICES ASSUME Init PROVE OrderInv
    OBVIOUS
  <2>1. << >> \in Program
    BY EmptySeq DEF Program, Nested
  <2>2. \A m \in Mutex : owner[m] \notin Thread
    BY Distinct DEF Init
  <2> QED BY <2>1, <2>2 DEF Init, OrderInv, InOrder, Mutex
<1>2. TypeOK /\ OrderInv => NoDeadlock
  <2> SUFFICES ASSUME TypeOK, OrderInv, redisReady, NEW S \in (SUBSET Thread) \ {{}},
                      \A t \in S : WaitsFor(t) \in S
               PROVE  FALSE
    BY DEF NoDeadlock
  <2>1. \A t \in S : /\ handler # t /\ prog[t] # << >> /\ First(t).op # "unlock"
                     /\ First(t).m \in Mutex /\ owner[First(t).m] \in S
    BY Rest, Distinct DEF WaitsFor
  <2>2. \A t \in S : InOrder(t)
    BY <2>1 DEF OrderInv
  <2>3. \A t \in S : \A m \in Mutex : owner[m] = t => m = "CM" /\ First(t) = UseOp("DM")
    BY <2>1, <2>2 DEF InOrder, UnlockOp, Mutex
  <2>4. PICK t \in S : TRUE
    OBVIOUS
  <2> DEFINE u == owner[First(t).m]
  <2>5. u \in S /\ First(u) = UseOp("DM")
    BY <2>1, <2>3
  <2>6. owner["DM"] \in S
    BY <2>1, <2>5 DEF UseOp
  <2> QED BY <2>3, <2>6 DEF Mutex
<1> QED BY <1>1, <1>2, OrderStep, TypeCorrect, PTL DEF Spec
-----------------------------------------------------------------------------
\* Whatever is neither done by main nor puts a request into a queue keeps the
\* workers as they are.
LEMMA LoopStays ==
  ASSUME LoopInv, step' = step, alive' \cap Worker = alive \cap Worker,
         loopMade \subseteq loopMade',
         \A w \in Worker : queue'[w] > 0 => queue[w] > 0
  PROVE  LoopInv'
<1>1. ASSUME NEW k \in 0 .. Workers, WorkersMade(k) PROVE WorkersMade(k)'
  BY <1>1 DEF WorkersMade
<1>2. \A w \in Worker : queue'[w] > 0 => w \in loopMade'
  BY DEF LoopInv, GivenToLoop
<1> QED BY <1>1, <1>2 DEF LoopInv, GivenToLoop

\* Every step keeps the workers in line and gives to loops that are made.
LEMMA LoopStep == TypeOK /\ LoopInv /\ [Next]_vars => LoopInv'
<1> SUFFICES ASSUME TypeOK, LoopInv, [Next]_vars PROVE LoopInv'
  OBVIOUS
<1>1. CASE UNCHANGED vars
  BY <1>1, LoopStays DEF vars, boot, work
<1>2. ASSUME NEW t \in Thread, Moves(t) PROVE LoopInv'
  <2>1. UNCHANGED <<step, alive, loopMade, queue>>
    BY <1>2 DEF Moves, Lock, Unlock, Use, Proceed, boot, work
  <2> QED BY <2>1, LoopStays
<1>3. ASSUME NEW c \in Checker, CheckerLoop(c) \/ CheckerEnds(c) PROVE LoopInv'
  <2>1. UNCHANGED <<step, loopMade, queue>> /\ alive' \in {alive, alive \ {c}}
    BY <1>3 DEF CheckerLoop, CheckerEnds, boot, work
  <2>2. alive' \cap Worker = alive \cap Worker
    BY <1>3, <2>1, Distinct DEF Checker
  <2> QED BY <2>1, <2>2, LoopStays
<1>4. ASSUME NEW w \in Worker, MakeLoop(w) PROVE LoopInv'
  <2>1. UNCHANGED <<step, alive, queue>> /\ loopMade \subseteq loopMade'
    BY <1>4 DEF MakeLoop, work
  <2> QED BY <2>1, LoopStays
<1>5. ASSUME NEW w \in Worker, HandleRequest(w) PROVE LoopInv'
  <2>1. UNCHANGED <<step, alive, loopMade>> /\ \A v \in Worker : queue'[v] > 0 => queue[v] > 0
    BY <1>5 DEF HandleRequest, boot, TypeOK
  <2> QED BY <2>1, LoopStays
<1>6. PICK k \in 0 .. Workers : WorkersMade(k)
  BY DEF LoopInv
<1>7. Workers \in Nat \ {0} /\ k \in Nat /\ Cardinality(alive \cap Worker) = k
  <2>1. Cardinality(0 .. k - 1) = k
    BY FS_Interval, ConstantsAssumption
  <2>2. alive \cap Worker = 0 .. k - 1
    BY <1>6 DEF WorkersMade
  <2>3. Cardinality(alive \cap Worker) = k
    BY <2>1, <2>2
  <2> QED BY <2>3, ConstantsAssumption
<1>8. CASE InitRedis \/ StartHearts \/ StartTurns
  <2>1. step \notin {"start", "await", "run"} /\ step' \notin {"await", "run"}
        /\ UNCHANGED <<loopMade, queue>>
        /\ alive' \in {alive, alive \cup {Hearts}, alive \cup {Turns}}
    BY <1>8 DEF InitRedis, StartHearts, StartTurns, StartChecker, work
  <2>2. alive' \cap Worker = alive \cap Worker
    BY <2>1, Distinct
  <2>3. k = 0
    BY <1>6, <2>1 DEF WorkersMade
  <2>4. alive' \cap Worker = 0 .. 0 - 1 /\ 0 < Workers /\ 0 .. 0 - 1 \subseteq loopMade'
    BY <1>6, <1>7, <2>2, <2>3 DEF WorkersMade
  <2>5. WorkersMade(k)'
    BY <2>1, <2>3, <2>4 DEF WorkersMade
  <2> QED BY <2>1, <2>5 DEF LoopInv, GivenToLoop
<1>9. ASSUME NEW w \in Worker, StartWorker(w) PROVE LoopInv'
  <2>1. step = "start" /\ step' = "await" /\ w = k /\ alive' = alive \cup {w}
        /\ UNCHANGED <<loopMade, queue>>
    BY <1>7, <1>9 DEF StartWorker, work
  <2>2. k + 1 \in 0 .. Workers /\ alive' \cap Worker = 0 .. k
    BY <1>6, <1>7, <1>9, <2>1 DEF WorkersMade, Worker
  <2>3. WorkersMade(k + 1)'
    BY <1>6, <1>7, <2>1, <2>2 DEF WorkersMade
  <2> QED BY <2>1, <2>2, <2>3 DEF LoopInv, GivenToLoop
<1>10. ASSUME NEW w \in Worker, AwaitWorker(w) PROVE LoopInv'
  <2>1. step = "await" /\ w = k - 1 /\ w \in loopMade /\ UNCHANGED <<alive, loopMade, queue>>
        /\ step' = IF w = Workers - 1 THEN "run" ELSE "start"
    BY <1>7, <1>10 DEF AwaitWorker, work
  <2>2. 0 .. k - 1 \subseteq loopMade
    BY <1>6, <1>7, <2>1 DEF WorkersMade
  <2>3. WorkersMade(k)'
    BY <1>6, <1>7, <2>1, <2>2 DEF WorkersMade, Worker
  <2> QED BY <2>1, <2>3 DEF LoopInv, GivenToLoop
<1>11. CASE Accept
  <2>1. step = "run" /\ UNCHANGED <<step, alive, loopMade>>
    BY <1>11 DEF Accept
  <2>2. Worker \subseteq loopMade
    BY <1>6, <2>1 DEF WorkersMade
  <2>3. WorkersMade(k)'
    BY <1>6, <2>1 DEF WorkersMade
  <2> QED BY <2>1, <2>2, <2>3 DEF LoopInv, GivenToLoop
<1>12. CASE SignalHandler \/ \E t \in Struck : Interrupt(t)
  <2>1. UNCHANGED <<step, alive, loopMade, queue>>
    BY <1>12 DEF SignalHandler, HandlerLogs, Exit, StopChecker, JoinChecker, Interrupt, boot, work
  <2> QED BY <2>1, LoopStays
<1> QED BY <1>1, <1>2, <1>3, <1>4, <1>5, <1>8, <1>9, <1>10, <1>11, <1>12
        DEF Next, MainStep, CheckerStep, WorkerStep, Boot, Thread

\* No connection is given to a worker before its loop is made, however many
\* workers there are.
THEOREM LoopBeforeConnections == Spec => []GivenToLoop
<1>1. Init => LoopInv
  <2> SUFFICES ASSUME Init PROVE LoopInv
    OBVIOUS
  <2>1. 0 \in 0 .. Workers /\ alive \cap Worker = 0 .. 0 - 1
    BY ConstantsAssumption, Distinct DEF Init
  <2>2. WorkersMade(0)
    BY <2>1 DEF Init, WorkersMade
  <2> QED BY <2>1, <2>2 DEF Init, LoopInv, GivenToLoop
<1>2. LoopInv => GivenToLoop
  BY DEF LoopInv
<1> QED BY <1>1, <1>2, LoopStep, TypeCorrect, PTL DEF Spec

-----------------------------------------------------------------------------
\* Every step keeps the handler of SIGINT and the checkers together.
LEMMA StopStep == TypeOK /\ StopInv /\ [Next]_vars => StopInv'
<1> SUFFICES ASSUME TypeOK, StopInv, [Next]_vars PROVE StopInv'
  OBVIOUS
<1>1. ASSUME UNCHANGED <<step, flag, alive, signal>> PROVE StopInv'
  BY <1>1 DEF StopInv, signal
<1>2. CASE UNCHANGED vars
  BY <1>1, <1>2 DEF vars, boot
<1>3. ASSUME NEW t \in Thread, Moves(t) PROVE StopInv'
  BY <1>1, <1>3 DEF Moves, Lock, Unlock, Use, Proceed, boot
<1>4. ASSUME NEW c \in Checker, CheckerLoop(c) PROVE StopInv'
  BY <1>1, <1>4 DEF CheckerLoop, boot
<1>5. ASSUME NEW c \in Checker, CheckerEnds(c) PROVE StopInv'
  <2>1. handler # c /\ c \in alive /\ alive' = alive \ {c} /\ UNCHANGED <<step, flag, signal>>
        /\ c \in {Hearts, Turns} /\ ~flag[c]
    BY <1>5 DEF CheckerEnds, Idle, Runs, boot, Checker
  <2>2. step \notin {"redis", "hearts", "makeHearts"}
    BY <2>1, Distinct DEF StopInv
  <2> QED BY <2>1, <2>2, Distinct DEF StopInv, signal
<1>6. ASSUME NEW w \in Worker, MakeLoop(w) \/ HandleRequest(w) PROVE StopInv'
  BY <1>1, <1>6 DEF MakeLoop, HandleRequest, boot
<1>7. CASE InitRedis
  <2>1. step = "redis" /\ step' = "hearts" /\ UNCHANGED <<flag, alive, signal>>
    BY <1>7 DEF InitRedis
  <2> QED BY <2>1 DEF StopInv, Making, signal
<1>8. CASE StartHearts
  <2>1. handler = Nobody /\ alive = {Main} /\ step \in {"hearts", "makeHearts"}
    BY <1>8 DEF StartHearts, StartChecker, Idle, Runs, StopInv
  <2>2. CASE step = "hearts"
    <3>1. step' = "makeHearts" /\ flag'[Hearts] /\ UNCHANGED <<alive, signal>>
      BY <1>8, <2>2 DEF StartHearts, StartChecker, TypeOK, Checker
    <3> QED BY <2>1, <3>1, Distinct DEF StopInv, Making, Checker, signal
  <2>3. CASE step = "makeHearts"
    <3>1. step' = "turns" /\ alive' = {Main, Hearts} /\ UNCHANGED <<flag, signal>> /\ flag[Hearts]
      BY <1>8, <2>1, <2>3 DEF StartHearts, StartChecker, StopInv, Making, Checker
    <3> QED BY <2>1, <3>1, Distinct DEF StopInv, Making, Checker, signal
  <2> QED BY <2>1, <2>2, <2>3
<1>9. CASE StartTurns
  <2>1. handler \in {Nobody, Hearts} /\ alive \subseteq {Main, Hearts}
        /\ step \in {"turns", "makeTurns"}
    BY <1>9 DEF StartTurns, StartChecker, Idle, Runs, StopInv
  <2>2. CASE step = "turns"
    <3>1. step' = "makeTurns" /\ flag'[Turns] /\ flag'[Hearts] = flag[Hearts]
          /\ UNCHANGED <<alive, signal>>
      BY <1>9, <2>2, Distinct DEF StartTurns, StartChecker, TypeOK, Checker
    <3> QED BY <2>1, <3>1, Distinct DEF StopInv, Making, Checker, signal
  <2>3. CASE step = "makeTurns"
    <3>1. step' = "start" /\ alive' = alive \cup {Turns} /\ UNCHANGED <<flag, signal>>
          /\ (handler = Nobody => flag[Turns])
      BY <1>9, <2>3, Distinct DEF StartTurns, StartChecker, StopInv, Making, Checker
    <3> QED BY <2>1, <3>1, Distinct DEF StopInv, Making, Checker, signal
  <2> QED BY <2>1, <2>2, <2>3
<1>10. ASSUME NEW w \in Worker, StartWorker(w) \/ AwaitWorker(w) PROVE StopInv'
  <2>1. step \in {"start", "await"} /\ step' \in {"start", "await", "run"}
        /\ UNCHANGED <<flag, signal>> /\ alive' \in {alive, alive \cup {w}}
    BY <1>10 DEF StartWorker, AwaitWorker
  <2>2. alive \subseteq alive' /\ \A c \in Checker : c \in alive' => c \in alive
    BY <2>1, Distinct DEF Checker
  <2> QED BY <2>1, <2>2 DEF StopInv, Making, Checker, signal
<1>11. CASE Accept
  BY <1>1, <1>11 DEF Accept
<1>12. ASSUME NEW t \in Struck, Interrupt(t) PROVE StopInv'
  <2>1. t \in alive /\ t # Nobody /\ handler = Nobody /\ handler' = t /\ stage' = "log"
        /\ UNCHANGED <<step, flag, alive, outcome>>
    BY <1>12, ConstantsAssumption, Distinct DEF Interrupt, Runs, boot
  <2> QED BY <2>1 DEF StopInv, Checker, Interrupt, Runs
<1>13. CASE HandlerLogs
  <2>1. stage = "log" /\ stage' = "stopTurns" /\ UNCHANGED <<step, flag, alive, handler, outcome>>
    BY <1>13 DEF HandlerLogs, In, boot
  <2> QED BY <2>1 DEF StopInv, Joining
<1>14. CASE Exit
  <2>1. stage = "exit" /\ UNCHANGED <<step, flag, alive, handler, stage>>
    BY <1>14 DEF Exit, In, boot
  <2> QED BY <2>1 DEF StopInv
<1>15. CASE StopChecker(Turns, "stopTurns", "joinTurns", "stopHearts")
  <2>1. stage = "stopTurns" /\ UNCHANGED <<step, alive, handler, outcome>> /\ outcome = "up"
        /\ handler # Nobody /\ flag'[Hearts] = flag[Hearts]
        /\ IF flag[Turns] THEN stage' = "joinTurns" ELSE stage' = "stopHearts" /\ flag' = flag
    BY <1>15, Distinct DEF StopChecker, Stop, In, boot, TypeOK, Checker
  <2> QED BY <2>1, Distinct DEF StopInv, Joining, Checker
<1>16. CASE JoinChecker(Turns, "joinTurns", "stopHearts")
  <2>1. stage = "joinTurns" /\ UNCHANGED <<step, flag, alive, handler>> /\ handler # Nobody
        /\ outcome = "up"
        /\ IF handler = Turns THEN outcome' = "aborted" /\ stage' = stage
           ELSE Turns \notin alive /\ stage' = "stopHearts" /\ outcome' = outcome
    BY <1>16 DEF JoinChecker, Joined, In, boot
  <2> QED BY <2>1, Distinct DEF StopInv, Joining, Checker
<1>17. CASE StopChecker(Hearts, "stopHearts", "joinHearts", "exit")
  <2>1. stage = "stopHearts" /\ UNCHANGED <<step, alive, handler, outcome>> /\ outcome = "up"
        /\ handler # Nobody /\ flag'[Turns] = flag[Turns]
        /\ IF flag[Hearts] THEN stage' = "joinHearts" ELSE stage' = "exit" /\ flag' = flag
    BY <1>17, Distinct DEF StopChecker, Stop, In, boot, TypeOK, Checker
  <2> QED BY <2>1, Distinct DEF StopInv, Joining, Checker
<1>18. CASE JoinChecker(Hearts, "joinHearts", "exit")
  <2>1. stage = "joinHearts" /\ UNCHANGED <<step, flag, alive, handler>> /\ handler # Nobody
        /\ outcome = "up"
        /\ IF handler = Hearts THEN outcome' = "aborted" /\ stage' = stage
           ELSE Hearts \notin alive /\ stage' = "exit" /\ outcome' = outcome
    BY <1>18 DEF JoinChecker, Joined, In, boot
  <2> QED BY <2>1, Distinct DEF StopInv, Joining, Checker
<1> QED BY <1>2, <1>3, <1>4, <1>5, <1>6, <1>7, <1>8, <1>9, <1>10, <1>11, <1>12, <1>13, <1>14,
           <1>15, <1>16, <1>17, <1>18
        DEF Next, MainStep, CheckerStep, WorkerStep, Boot, SignalHandler, Thread

\* When the program exits no checker is left, whatever thread SIGINT struck and
\* whatever main was starting.
THEOREM CheckersEnd == Spec => []CheckersEndFirst
<1>1. Init => StopInv
  <2> SUFFICES ASSUME Init PROVE StopInv
    OBVIOUS
  <2>1. alive = {Main} /\ step = "redis" /\ handler = Nobody /\ stage = "none" /\ outcome = "up"
    BY DEF Init
  <2> QED BY <2>1, Distinct DEF StopInv, Making, Checker, Thread
<1>2. StopInv => CheckersEndFirst
  <2> SUFFICES ASSUME StopInv, outcome = "exited" PROVE alive \cap Checker = {}
    BY DEF CheckersEndFirst
  <2>1. stage = "exit" /\ handler # Hearts
    BY DEF StopInv
  <2> QED BY <2>1 DEF StopInv, Checker
<1> QED BY <1>1, <1>2, StopStep, TypeCorrect, PTL DEF Spec
=============================================================================
