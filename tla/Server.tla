-------------------------------- MODULE Server --------------------------------
(***************************************************************************)
(* The threads of the server, from main to the end of signalHandler: the   *)
(* workers of the thread pool, the heartbeat checker, the turn checker, and *)
(* the mutexes of the singletons they share.  Of a handler only its locks  *)
(* are kept: what a function does is the sequence of mutexes it takes and  *)
(* gives back.                                                             *)
(***************************************************************************)
EXTENDS Naturals, Sequences, FiniteSets

CONSTANTS
  Main,         \* the main thread, which accepts connections
  Turns,        \* the thread of TurnTimeoutManager
  Hearts,       \* the thread of ConnectionManager
  Nobody,       \* no thread
  Struck,       \* the threads SIGINT may be delivered to
  Workers,      \* how many worker threads
  MaxRequests   \* how many requests arrive

Worker == 0 .. Workers - 1
Checker == {Turns, Hearts}
Thread == {Main} \cup Checker \cup Worker

ASSUME ConstantsAssumption ==
  /\ Workers \in Nat \ {0} /\ MaxRequests \in Nat
  /\ Cardinality({Main, Turns, Hearts, Nobody}) = 4
  /\ {Main, Turns, Hearts, Nobody} \cap Worker = {}
  /\ Struck \subseteq Thread

\* ConnectionManager, DisconnectManager, TurnTimeoutManager, RoomList, and the
\* one inside glog.  Those of GameStateManager and of the event loops are left
\* out: nothing is locked under them.
Mutex == {"CM", "DM", "TM", "RL", "LOG"}

VARIABLES
  step,        \* how far main is
  redisReady,  \* DisconnectManager::m_redisInitialized
  flag,        \* m_running of each checker
  alive,       \* threads that run
  loopMade,    \* workers whose m_evLoop is set
  index,       \* ThreadPool::m_index
  queue,       \* of a worker: requests not yet handled
  arrived,     \* requests so far
  prog,        \* of a thread: what it has still to lock and unlock
  owner,       \* of a mutex: the thread that holds it
  handler,     \* the thread that SIGINT interrupted
  stage,       \* how far signalHandler is
  outcome      \* "up", "exited" or "aborted"

boot == <<step, redisReady, loopMade, index>>
work == <<queue, arrived>>
signal == <<handler, stage, outcome>>
vars == <<boot, flag, alive, work, prog, owner, signal>>

Init ==
  /\ step = "redis" /\ redisReady = FALSE
  /\ flag = [c \in Checker |-> FALSE] /\ alive = {Main}
  /\ loopMade = {} /\ index = 0
  /\ queue = [w \in Worker |-> 0] /\ arrived = 0
  /\ prog = [t \in Thread |-> << >>] /\ owner = [m \in Mutex |-> Nobody]
  /\ handler = Nobody /\ stage = "none" /\ outcome = "up"

\* t can go on: it exists and signalHandler does not run on it
Runs(t) == outcome = "up" /\ t \in alive /\ handler # t
Held(t) == {m \in Mutex : owner[m] = t}
-----------------------------------------------------------------------------
(* What functions lock.  A mutex taken and given back with nothing between *)
(* is "use": one step, unless SIGINT strikes in it.                        *)

Locked(m, body) == <<[op |-> "lock", m |-> m]>> \o body \o <<[op |-> "unlock", m |-> m]>>
Touch(m) == <<[op |-> "use", m |-> m]>>
Nothing == << >>

recordPlayerDisconnect == Touch("DM")
removePlayerFromDisconnectList == Touch("DM")
isDisconnectedPlayer == Touch("DM")
cleanupGame == Touch("DM")
initRedisConnection == Touch("DM")
registerConnection == Touch("CM")
unregisterConnection == Touch("CM")
updateHeartbeat == Touch("CM")
startPlayerTurn == Touch("TM")
finishPlayerTurn == Touch("TM")
clearRoomTimeouts == Touch("TM")
getPlayers == Touch("RL")
addUser == Touch("RL")
removePlayer == Touch("RL")
LOG == Touch("LOG")

\* calculateAndUpdateGameScores, with sendScoreUpdateToRoom
ScoreGame == getPlayers

\* checkAndHandleGameEnd, if there is a winner
EndGame(won) ==
  getPlayers \o IF won THEN clearRoomTimeouts \o getPlayers \o ScoreGame \o cleanupGame
                ELSE Nothing

-----------------------------------------------------------------------------
(* Mutations *)

\* the connection is made anew each time
executeAIPlay_Always(won) ==
  Locked("DM", initRedisConnection) \o EndGame(won)
    \o (IF won THEN Nothing ELSE getPlayers \o isDisconnectedPlayer)

\* main goes on without waiting for the worker
AwaitWorkerOff(w) ==
  /\ step = "await" /\ Runs(Main) /\ w = Cardinality(alive \cap Worker) - 1
  /\ step' = IF w = Workers - 1 THEN "run" ELSE "start"
  /\ UNCHANGED <<redisReady, loopMade, index, flag, alive, work, prog, owner, signal>>

\* the checker is waited for but not told
StopOff(c) == UNCHANGED flag

\* the handler does not wait for the checker
JoinedOff(c) == TRUE

\* a wakeup is taken for a request
HandleRequestOff(w) ==
  /\ Runs(w) /\ prog[w] = << >> /\ w \in loopMade
  /\ queue' = [queue EXCEPT ![w] = @ - 1]
  /\ prog' = [prog EXCEPT ![w] = updateHeartbeat]
  /\ UNCHANGED <<boot, flag, alive, arrived, owner, signal>>
-----------------------------------------------------------------------------
(* The paths through handlers and checkers, each in full: an early return  *)
(* only cuts one short, and none returns under a lock                      *)

executeAIPlay(won) ==
  Locked("DM", IF redisReady THEN Nothing ELSE initRedisConnection) \o EndGame(won)
    \o (IF won THEN Nothing ELSE getPlayers \o isDisconnectedPlayer)

\* parseRequest's case PlayAHand, then handleDisconnect if the next is absent
PlayAHand(won, absent) ==
  finishPlayerTurn \o getPlayers \o EndGame(won) \o
  (IF won THEN Nothing
   ELSE isDisconnectedPlayer \o IF absent THEN executeAIPlay(FALSE) ELSE startPlayerTurn)

\* handleAddRoom, then readyForPlay
AddRoom ==
  removePlayer \o addUser \o unregisterConnection \o registerConnection \o LOG
    \o getPlayers \o clearRoomTimeouts \o cleanupGame

\* the case GameOver
GameOver == ScoreGame \o getPlayers \o cleanupGame \o clearRoomTimeouts

\* handleReconnectRequest
ReconnectRequest ==
  updateHeartbeat \o removePlayerFromDisconnectList \o addUser \o registerConnection

\* ~Communication
Destroy == unregisterConnection \o recordPlayerDisconnect

Request ==
  {updateHeartbeat, AddRoom, ReconnectRequest, GameOver, Destroy}
    \cup {PlayAHand(won, absent) : won \in BOOLEAN, absent \in BOOLEAN}

\* one round of heartbeatCheckerThread: handleTimeoutConnection holds m_mutex
\* while it records the player
HeartRound ==
  {Touch("CM"), Touch("CM") \o Locked("CM", recordPlayerDisconnect)}

\* one round of checkTimeouts: handleTimeout is called without m_mutex
TurnRound ==
  {Touch("TM")} \cup
  {Touch("TM") \o finishPlayerTurn \o recordPlayerDisconnect \o executeAIPlay(won)
     \o isDisconnectedPlayer \o startPlayerTurn : won \in BOOLEAN}

Round(c) == IF c = Turns THEN TurnRound ELSE HeartRound
-----------------------------------------------------------------------------
(* A thread at work *)

First(t) == Head(prog[t])
NextIs(t, op) == Runs(t) /\ prog[t] # << >> /\ First(t).op = op
Wait(t) == owner[First(t).m] = Nobody
Give(t, who) == owner' = [owner EXCEPT ![First(t).m] = who]
Proceed(t) ==
  /\ prog' = [prog EXCEPT ![t] = Tail(@)]
  /\ UNCHANGED <<boot, flag, alive, work, signal>>

Lock(t) == NextIs(t, "lock") /\ Wait(t) /\ Give(t, t) /\ Proceed(t)
Unlock(t) == NextIs(t, "unlock") /\ Give(t, Nobody) /\ Proceed(t)
Use(t) == NextIs(t, "use") /\ Wait(t) /\ UNCHANGED owner /\ Proceed(t)

Idle(t) == Runs(t) /\ prog[t] = << >>

\* a checker begins a round, or ends
CheckerLoop(c) ==
  /\ Idle(c) /\ flag[c]
  /\ \E p \in Round(c) : prog' = [prog EXCEPT ![c] = p]
  /\ UNCHANGED <<boot, flag, alive, work, owner, signal>>

CheckerEnds(c) ==
  /\ Idle(c) /\ ~flag[c]
  /\ alive' = alive \ {c}
  /\ UNCHANGED <<boot, flag, work, prog, owner, signal>>

\* WorkerThread::running makes the loop and runs it
MakeLoop(w) ==
  /\ Idle(w) /\ w \notin loopMade
  /\ loopMade' = loopMade \cup {w}
  /\ UNCHANGED <<step, redisReady, index, flag, alive, work, prog, owner, signal>>

HandleRequest(w) ==
  /\ Idle(w) /\ w \in loopMade /\ queue[w] > 0
  /\ queue' = [queue EXCEPT ![w] = @ - 1]
  /\ \E p \in Request : prog' = [prog EXCEPT ![w] = p]
  /\ UNCHANGED <<boot, flag, alive, arrived, owner, signal>>
-----------------------------------------------------------------------------
(* main, up to TcpServer::run *)

\* initRedisConnection, which may fail
InitRedis ==
  /\ Idle(Main) /\ step = "redis" /\ step' = "hearts"
  /\ prog' = [prog EXCEPT ![Main] = initRedisConnection]
  /\ redisReady' \in BOOLEAN
  /\ UNCHANGED <<loopMade, index, flag, alive, work, owner, signal>>

\* startHeartbeatChecker, startTimeoutChecker: m_running is set, then the
\* thread is made
StartChecker(c, now, making, next) ==
  /\ Idle(Main)
  /\ \/ step = now /\ step' = making /\ flag' = [flag EXCEPT ![c] = TRUE] /\ UNCHANGED alive
     \/ step = making /\ step' = next /\ alive' = alive \cup {c} /\ UNCHANGED flag
  /\ UNCHANGED <<redisReady, loopMade, index, work, prog, owner, signal>>

StartHearts == StartChecker(Hearts, "hearts", "makeHearts", "turns")
StartTurns == StartChecker(Turns, "turns", "makeTurns", "start")

\* ThreadPool::run and WorkerThread::run: the thread is made and waited for
StartWorker(w) ==
  /\ Idle(Main) /\ step = "start" /\ w = Cardinality(alive \cap Worker)
  /\ alive' = alive \cup {w} /\ step' = "await"
  /\ UNCHANGED <<redisReady, loopMade, index, flag, work, prog, owner, signal>>

AwaitWorker(w) ==
  /\ step = "await" /\ Runs(Main) /\ w = Cardinality(alive \cap Worker) - 1
  /\ w \in loopMade
  /\ step' = IF w = Workers - 1 THEN "run" ELSE "start"
  /\ UNCHANGED <<redisReady, loopMade, index, flag, alive, work, prog, owner, signal>>

NextIndex == (index + 1) % Workers

\* acceptConnection and takeWorkerEventLoop: the workers in turn.  The task
\* for the new connection goes through the loop's queue.
Accept ==
  /\ Idle(Main) /\ step = "run" /\ arrived < MaxRequests
  /\ arrived' = arrived + 1
  /\ queue' = [queue EXCEPT ![index] = @ + 1]
  /\ index' = NextIndex
  /\ prog' = [prog EXCEPT ![Main] = LOG]
  /\ UNCHANGED <<step, redisReady, loopMade, flag, alive, owner, signal>>

Boot == InitRedis \/ StartHearts \/ StartTurns \/ \E w \in Worker : StartWorker(w) \/ AwaitWorker(w)
-----------------------------------------------------------------------------
(* signalHandler *)

\* SIGINT is delivered to any thread, wherever it is
Interrupt(t) ==
  /\ Runs(t) /\ handler = Nobody
  /\ handler' = t /\ stage' = "log"
  /\ \/ UNCHANGED owner
     \/ NextIs(t, "use") /\ Wait(t) /\ Give(t, t)
  /\ UNCHANGED <<boot, flag, alive, work, prog, outcome>>

In(now) == outcome = "up" /\ handler # Nobody /\ stage = now

\* LOG, which takes the mutex of glog
HandlerLogs ==
  /\ In("log") /\ owner["LOG"] = Nobody /\ stage' = "stopTurns"
  /\ UNCHANGED <<boot, flag, alive, work, prog, owner, handler, outcome>>

Stop(c) == flag' = [flag EXCEPT ![c] = FALSE]

\* stopTimeoutChecker, stopHeartbeatChecker
StopChecker(c, now, join, next) ==
  /\ In(now)
  /\ IF flag[c] THEN Stop(c) /\ stage' = join
     ELSE UNCHANGED flag /\ stage' = next
  /\ UNCHANGED <<boot, alive, work, prog, owner, handler, outcome>>

Joined(c) == c \notin alive

\* join; a thread that joins itself throws, and the program aborts
JoinChecker(c, now, next) ==
  /\ In(now)
  /\ IF handler = c THEN outcome' = "aborted" /\ UNCHANGED stage
     ELSE Joined(c) /\ stage' = next /\ UNCHANGED outcome
  /\ UNCHANGED <<boot, flag, alive, work, prog, owner, handler>>

\* OpenSSL, glog and the server are cleaned up
Exit ==
  /\ In("exit") /\ outcome' = "exited"
  /\ UNCHANGED <<boot, flag, alive, work, prog, owner, handler, stage>>

SignalHandler ==
  \/ HandlerLogs \/ Exit
  \/ StopChecker(Turns, "stopTurns", "joinTurns", "stopHearts")
  \/ JoinChecker(Turns, "joinTurns", "stopHearts")
  \/ StopChecker(Hearts, "stopHearts", "joinHearts", "exit")
  \/ JoinChecker(Hearts, "joinHearts", "exit")
-----------------------------------------------------------------------------
Moves(t) == Lock(t) \/ Unlock(t) \/ Use(t)
CheckerStep(c) == Moves(c) \/ CheckerLoop(c) \/ CheckerEnds(c)
WorkerStep(w) == Moves(w) \/ MakeLoop(w) \/ HandleRequest(w)
MainStep == Moves(Main) \/ Boot

Next ==
  \/ MainStep \/ Accept \/ SignalHandler
  \/ \E c \in Checker : CheckerStep(c)
  \/ \E w \in Worker : WorkerStep(w)
  \/ \E t \in Struck : Interrupt(t)

\* Every thread runs; clients and signals may come or not.  A mutex that is
\* free again and again is taken at last: the checkers sleep between rounds.
Fairness ==
  /\ WF_vars(MainStep) /\ WF_vars(SignalHandler)
  /\ \A t \in Checker : SF_vars(CheckerStep(t))
  /\ \A t \in Worker : SF_vars(WorkerStep(t))

Spec == Init /\ [][Next]_vars /\ Fairness
-----------------------------------------------------------------------------
(* Properties *)

Op == [op : {"lock", "unlock", "use"}, m : Mutex]

TypeOK ==
  /\ step \in {"redis", "hearts", "makeHearts", "turns", "makeTurns", "start", "await", "run"}
  /\ redisReady \in BOOLEAN /\ flag \in [Checker -> BOOLEAN]
  /\ alive \subseteq Thread /\ loopMade \subseteq Worker /\ index \in Worker
  /\ queue \in [Worker -> Nat] /\ arrived \in 0 .. MaxRequests
  /\ prog \in [Thread -> Seq(Op)]
  /\ owner \in [Mutex -> Thread \cup {Nobody}]
  /\ handler \in Thread \cup {Nobody} /\ outcome \in {"up", "exited", "aborted"}
  /\ stage \in {"none", "log", "stopTurns", "joinTurns", "stopHearts", "joinHearts", "exit"}

\* the thread that t waits for
WaitsFor(t) ==
  IF t \in alive /\ prog[t] # << >> /\ First(t).op # "unlock" /\ handler # t
  THEN owner[First(t).m] ELSE Nobody

\* No ring of threads waits for the mutexes of each other, and no thread for
\* one of its own, once DisconnectManager has its Redis connection: the lock
\* order of the singletons, with handleTimeoutConnection and executeAIPlay.
NoDeadlock ==
  redisReady => \A S \in (SUBSET Thread) \ {{}} : \E t \in S : WaitsFor(t) \notin S

\* No connection is given to a worker without a loop, the thread made or not:
\* the handshake of WorkerThread::run with running, and the round of
\* takeWorkerEventLoop.
GivenToLoop == \A w \in Worker : queue[w] > 0 => w \in loopMade

\* When the program exits no checker is left that could use what is being
\* destroyed, wherever SIGINT struck, in the middle of starting one too.
CheckersEndFirst == outcome = "exited" => alive \cap Checker = {}

\* SIGINT ends the program if it strikes a thread that holds no mutex and is
\* not a checker: signalHandler, stopTimeoutChecker, stopHeartbeatChecker.
StopsCleanly ==
  (handler \in Thread \ Checker /\ Held(handler) = {} /\ redisReady) ~> outcome = "exited"

\* What arrives is handled to its end, unless SIGINT comes: neither the checkers nor the
\* other handlers keep a worker from its mutexes for ever.
ArrivalsHandled ==
  \A w \in Worker :
    (queue[w] > 0 /\ redisReady) ~> ((queue[w] = 0 /\ Idle(w)) \/ handler # Nobody)
=============================================================================
