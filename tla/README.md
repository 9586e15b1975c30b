# A TLA+ development of the Landlord server

The repository is a server for the card game Landlord (斗地主): C++, one
reactor thread per worker, state shared between connections in Redis, MySQL
and a few singletons. This directory models its game logic, model-checks it
with TLC and proves the main results with TLAPS.

## Inventory

### Threads

| thread | started by | what it does |
|---|---|---|
| main loop | `main.cpp`, `tcp/TcpServer.cpp` | accepts connections and gives each to a worker in turn |
| 8 workers | `thread/ThreadPool.cpp` | one `EventLoop` each; a connection's requests run on its worker, one at a time |
| heartbeat checker | `ConnectionManager::startHeartbeatChecker` | every few seconds finds connections without heartbeat |
| turn checker | `TurnTimeoutManager::startTimeoutChecker` | every second finds turns that ran out, and plays for those players |

SIGINT stops the server: `signalHandler` in `main.cpp` runs on whatever thread
it strikes, stops both checkers, waits for them and exits.

### Components, their state and their operations

| component | state | operations | what makes it correct |
|---|---|---|---|
| Room matching (`game/Room.cpp`, `Communication::handleAddRoom`, `handleLeaveRoom`) | Redis: sets OnePlayer, TwoPlayers, ThreePlayers, Invalid; one sorted set per room; hash Players; lock keys | automatic and manual join, leave, the lock | three seats per room; categories that do not promise seats that are taken; a joined player stays joined; requests end |
| RoomList | map room -> user -> callback | addUser, removePlayer, getPlayers, removeRoom | agrees with Redis; a full room starts once |
| Dealing and bidding (`startGame`, `dealCards`, `handleGrabLord`, `GameStateManager`) | Redis hands, bottom, order; bids, landlord, stake, multiplier in memory | start, redeal, bid | each card is somewhere once; nothing of the last game is left |
| Turns (`parseRequest`, case PlayAHand) | Redis `_state`: phase, current_turn, game_controller | play, pass | one player on turn, who knows it; no card lost |
| Automatic player (`DisconnectManager`) | set of absent players | executeAIPlay, chain of absent players | plays in turn; never stops the game |
| Turn timers (`TurnTimeoutManager`) | running timers | start, finish, clear, handle those that ran out | only the player on turn is timed |
| Scoring (`checkAndHandleGameEnd`, `handleGameOver`, `calculateAndUpdateGameScores`) | MySQL scores, Redis copies, score lock of a room | end of game, clients' GameOver, Continue, the transaction, loading a score | scored if won, once, balanced; all of a settlement or nothing; Redis agrees with MySQL |
| Connections (`ConnectionManager`, `~Communication`, `handleReconnectRequest`) | connections and heartbeats, reconnect tokens | lose, drop, reconnect | who is away is known to be away, who is back is back |
| Accounts (`handleLogin`, `handleRegister`, `MysqlConn`) | tables user and information, the column status | register, login, goodbye, and whoever resets the status | one login per account; nobody locked out; no half account |
| Write path (`TcpConnection`, `Buffer`, `Channel`) | read and write buffers, event flags | addWriteTask, processWrite, framing | every queued message is sent, whole and in order |
| Reactor (`EventLoop`, `EpollDispatcher`) | task queue, channel map, what epoll watches | addTask, processTaskQ, wake-up, dispatch | every task is run; epoll watches for what is needed |
| Locks, start and stop (`main.cpp`, `ThreadPool`, `WorkerThread`, the singletons' mutexes) | threads, their loops, who holds what | start, hand out loops, SIGINT | no ring of waiting threads; stopping ends, and ends the checkers first |
| Codec, crypto, HTTP, JSON config | none of the game | conversions | out of scope |

Components meet in three places: the *singletons* (each with its own mutex,
held for one call only, but by `handleTimeoutConnection`), *Redis* (single commands are atomic, sequences of them
are not), and the *callbacks* in `RoomList`, through which one connection's
handler writes to another connection.

### What is hard here

Any two Redis commands of a handler may have another handler's between them;
the room lock is a key with a time to live. Lists made under a mutex are used
after it is released (`checkTimeouts`). Others are told of a move before its
effects are stored. Connections and heartbeats are lost in the middle of
everything, and a replaced connection's destructor runs late. A game is ended
by whoever notices. `PROJECT.json` lists these hazards line by line, with the
properties that cover each, or the reason why none does yet.

## Modules

| module | what it is |
|---|---|
| `RoomMatch`, `MCRoomMatch`, `RoomMatchProofs` | room matching, at the grain of Redis commands; its TLC instances; its theorems |
| `Game`, `MCGame`, `GameProofs`, `GameCardProofs`, `GameTurnProofs` | a table of three from the deal to the next deal; its TLC instances; its theorems: types and scores, the cards, the turns |
| `Pipe` | abstract: what one direction of a connection promises |
| `Conn`, `ConnProofs` | one connection on its worker's loop, written to by other threads; implements `Pipe` in both directions; its theorems |
| `Session`, `SessionProofs` | accounts, login state, heartbeats, losing a connection and coming back; its theorems |
| `Ledger` | abstract: scores change by whole settlements |
| `Score`, `MCScore`, `ScoreProofs` | the score transaction, statement by statement; implements `Ledger`; its theorems |
| `Server`, `MCServer`, `ServerProofs` | the threads of the program and the mutexes they share, from `main` to SIGINT; its theorems |

What the modules share is kept apart on purpose: `Game` takes the settlement of
a game as one step, which `Score` takes apart; `Session` knows of a game only
that one goes on, which is what `Game` plays; `Server` keeps nothing of a
handler but the mutexes it takes; `Conn` nothing but what it reads and writes.

### RoomMatch

A user is a connection; `pc[u]` says where the handler of its request is, and
`room`, `todo`, `tier`, `attempt`, `ret` are the handler's local variables.
`Workers` bounds how many handlers run at once, as the workers do.

| code | actions |
|---|---|
| `handleAddRoom`, `handleLeaveRoom` | `AutoRoom`, `ManualRoom`, `LeaveRoom` |
| `acquireLock(WithRetry)` | `Acquire`, `GiveUp` |
| `releaseLock` | `ReleaseGet`, `ReleaseDel` |
| `leaveRoom`, `RoomList::removePlayer` | `LeaveMove`, `LeaveRem`, `LeaveCount`, `LeaveDel`, `RemovePlayer` |
| `joinRoomWithoutLock` | `FindRooms`, `TryListed`, `ListExhausted`, `TryNew`, `Refused` |
| `joinRoom` | `JoinCount`, `JoinMove`, `JoinAdd` |
| rest of `handleAddRoom`, `readyForPlay` | `UpdatePlayerScore`, `AddUser`, `ReadyForPlay` |

Commands are merged only where no other handler can change what they read:
under the room lock, the category sets belong to its holder. The score is left
out; a room's sorted set is the set of its members. A lock attempt with retries
fails only if the lock is held. The fallback of `joinRoomWithoutLock` ignores a
failed join, so `UpdatePlayerScore` can put a user into a room without the lock:
the history variable `forced` remembers those, and the properties speak of the
members who came in through `joinRoom` (`Seated`). `starts` counts the games
started for the present occupants of a room. No lock expires in this module:
its properties hold as long as every critical section ends within the 3
seconds of its lock.

### Game

A thread is the worker of a player's connection, or the turn checker;
`pc[t]` is where its handler is, `who[t]` the player it acts for, `ai[t]`
whether as the automatic player.

| code | actions |
|---|---|
| `readyForPlay`, `startGame`, `dealCards`, redeal | `ReadyForPlay`, and `StartGame`, `Deal` inside others |
| `handleGrabLord`, `recordGrabLordBet`, `sendLordDeterminedToAllPlayers`, `handleReDealCardsInternal` | `GrabLord` (`NextBid`, `LordDetermined`, `Deal`, `TooFew`) |
| PlayAHand | `Play`; `ReadHand`, `WriteHand` for each card; `EndGame` or `GameGoesOn`; `PassTurn` |
| `executeAIPlay` | `AINothing`, `AIMove`, the same `ReadHand` ... `EndGame`, `AITell` |
| `handleDisconnect` | `Chain` |
| `checkTimeouts`, `handleTimeout`, `checkAndHandleNextPlayer` | `Collect`, `HandleTimeout`, `CheckNextPlayer` |
| `~Communication`, `handleTimeoutConnection`, `handleReconnectRequest` | `Drop`, `DropSuperseded`, `HeartbeatLost`, `Reconnect` |
| `handleGameOver`, `restartGame` | `GameOver`, `Continue` |
| `handleLeaveRoom`, `RoomList::removePlayer`, once cards are dealt | `LeaveRoom` |

`client[p]` is what the player's program is doing, as far as the server's
messages tell it; it is external, modelled from the messages the server sends.
A player on turn may play any set of its cards: the server does not check plays.
`due` and `fouls` record, from the rules of the game alone, whose move it is and
who moved out of turn. A timer's 30 or 5 seconds are not counted: a running
timer may run out.

Grain. Steps of one handler are separated where another actor can see the
difference with the properties checked. A score transaction, a deal, the end of a game
(messages, scores and clean-up) and `restartGame` under its lock are single
steps. `pend_cards` and `pend_count` go with `game_controller`.

Clients and the clock act whenever they like: a client may answer a message
before the handler that sent it has ended, a timer may run out during a move, a
player may reconnect in the middle of one. A network round trip and 30-second
timers make that rare, and the code does nothing against it. `haste` counts how
often it has happened (`Begin`), and `MaxTroubles` bounds faults and haste
together. The turn can get lost then: a client told early plays before
`Communication.cpp:395` passes the turn to it, `handleTimeout` marks absent a
player who has just played. So what is said of turns and of the end of a game is
said while `Patient`: until somebody acts in the middle of a handler. Lost
heartbeats, closed connections and leaves come between any two steps, and are
excepted nowhere. What is said of cards and scores does not depend on `Patient`:
`raced` remembers at whose hand two threads were at once (a played card may come
back into it, and no card is lost), `overdealt` that cards were given out while
a thread was at a hand, whose stale copy is then written over them.

`Announce` says whether clients send GameOver when they learn of the end. The
server reacts to that message, though it also ends games itself.

A player who leaves in the middle of a game loses his callback and nothing
else: his place in the order stays, the timers run out on his turns, and the
automatic player plays for him. But `checkAndHandleGameEnd` looks for the winner
among the players in the room, so if the last card played is one of his the game
goes on: `EndUnseen` names that state, and the properties except it. A redeal to
fewer than three clears the cards and deals none (`TooFew`). Leaving is one step
here; `RoomMatch` takes it apart.

`Shuffles` are whole packs without repeats, from which each of the three gets a
card and the bottom the rest: `dealCards` deals 51 of 54 cards, 17 each, and keeps
three.

Not in `Game`: somebody who joins the room of a game that goes on, failures of
Redis and MySQL (`Score` has those of a settlement), the expiry of reconnect
tokens (30 minutes), 32-bit overflow.

### Conn and Pipe

Bytes are abstracted to *pieces*: a package is its head and its body, which is
what framing tells apart. `conn` is the connection as the loop knows it,
`events` what `m_channel->m_events` says and `interest` what epoll watches: they
differ until a queued task has run. `wbuf` and `rbuf` are the readable parts of
the buffers.

| code | actions |
|---|---|
| `acceptConnection`, `TcpConnection` | `AcceptConnection`, with `prepareSecretKey`'s message |
| `addWriteTask` | `AppendHead`, `AppendBody`, `SetWrite`, `AddModify`, on any thread |
| `addTask`, `taskWakeup`, `readMessge` | the appends to `taskQ`; `TaskWakeup`, `ReadMessage` |
| `processTaskQ`, `add`, `modify`, `remove` of loop and dispatcher | `ProcessTask` (`AddChannel`, `ModifyChannel`, `RemoveChannel`, `NoChannel`), `TasksDone` |
| `processRead`, `parseRequest`, `Buffer::data` | `SocketRead`, `EndOfStream`, `ParseRequest`, `ParsePart` |
| `processWrite`, `sendData` | `SendData`, `Check`, `SetRead` |
| `handleGoodBye` | a request in `Bye` |

What the code leaves undefined is a choice: two threads that are between the
first and last of their steps on the write buffer at once may leave anything in
it (`Buffered`). `overlapped` remembers that this has happened (which is wider
than the race at `TcpConnection.cpp:138`: the lost write event itself is
excepted with it, not shown), `garbled` that a
package was parsed before it had arrived whole, `crowded` that a client sent a
request before its last one was handled, `reset` is a socket in error. Writers
write only to a connection that has not been destroyed.

`Pipe` is the promise: what went in comes out in order and once, and all of it
comes out while the pipe is open and intact. `Conn` implements it twice,
with `accepted`, `delivered` mapped to `queued` and the whole packages in
`toClient` (`RepliesArrive`), and to `asked` and `handled`
(`RequestsAreHandled`). The pipe is intact while the excepted cases above have
not come about: each is a hazard listed with its line, and outside of them the
whole of `addWriteTask`, the task queue, epoll's interest and the partial sends
must fit together for the promise to hold.

### Session

`link[c]` is the network's view of a connection, `conns[c]` the entry of
`ConnectionManager`, `callback[u]` the connection `RoomList` writes a user in the
room to, `cur` and `room` are `m_currentUserName` and whether
`m_currentRoomName` is set, `session[c]` is whom the client believes to be.
`checker` holds the heartbeat checker's list, and its place in
`handleTimeoutConnection`, which it runs with the manager's mutex held: handlers
that need the mutex wait (`Free`).

| code | actions |
|---|---|
| `handleRegister` | `SignUp`, `CheckExists`, `InsertUser`, `InsertInfo`, `Commit` |
| `handleLogin` | `Login`, `CheckLogin`, `SetOnline`, `RegisterConnection` |
| `handleReconnectRequest` | `Reconnect`, `ValidateToken`, `Forget`, `RemoveFromDisconnectList`, `BackOnline`, `BackRegister` |
| `handleHeartbeat`, `handleGoodBye` | `Heartbeat`, `GoodBye` |
| `handleAddRoom`, `handleLeaveRoom`, for connections | `Join`, `JoinRefused`, `Leave` |
| `~Communication` | `UnregisterConnection`, `SetOffline`, `RecordPlayerDisconnect` |
| `heartbeatCheckerThread` | `GetTimeoutConnections`, `HandleTimeoutConnection`, `MarkOffline`, `MarkAway`, `GenerateReconnectToken` |
| `startGame`, `checkAndHandleGameEnd`, for connections | `StartGame`, `EndGame` |
| `saveRsaKey` after a crash | `Restart` |

Faults: a statement or a commit fails, a heartbeat is late, the process is
restarted. The result of a commit is not looked at: a login whose commit fails
lets the user in with his status unset (`SetOnline`, `Communication.cpp:650`), a
registration whose commit fails is reported as done (`Commit`, line 578).
`raced` and `overlaid` remember what the server does not guard against: two
handlers that let in one user at once, and a user let in beside an old
connection of his, whose destructor then undoes the login.

With three connections of one user there is another way: `handleReconnectRequest`
does not look whether the status could be set to online (`BackOnline`), and if it
could not, a third connection may log in as the user who is back.
`OneSession` and `WrittenToWhereHeIs` therefore except failed statements, of
which a failed commit of the login is one. The run
has two connections; the attempt to prove them for more found it.

### Score and Ledger

A job is one call of `calculateAndUpdateGameScores`. A MySQL connection has the
rows its transaction has updated (`tx`), the snapshot of its first select
(`view`; repeatable read, InnoDB's default) and autocommit (`auto`).

| code | actions |
|---|---|
| `calculateScoreChanges`, the call | `Share`, `Begin` |
| `acquireLockWithRetry`, `releaseLock` | `AcquireLock`, `ReleaseLock` |
| `MysqlConn::transaction`, `commit`, `rollback` | part of `AcquireLock`; `Commit`, `Rollback` |
| the loop over the players | `SelectScore`, `UpdateScore`, `UpdatePlayerScore` |
| `handleAddRoom`'s score, `handleLeaveRoom` | `AddRoom`, `MoveTo`, `LoadScore`, `StoreScore`, `LeaveRoom` |
| a game in the room | `NewGame` |

Faults: a select, an update, a commit, the load of a score or a Redis command
fails. `crossed` remembers a player settled for two rooms at once (the lock is
one for each room), `strayed` one settled for a room he had left, `mixed` calls
for two rooms at work on one connection, where each's commit or rollback ends the
other's transaction too. The `lock`
does not expire. The stake is one: `Game` has bids and bombs.

`Ledger` says that the scores change only by whole settlements, a landlord
against two farmers. `Score` implements it (`ScoresSettled`) whatever fails but
a select, whose failure the code takes for a score of zero, while nobody is
`crossed` and no connection `mixed`.

### Server

A handler is the sequence of mutexes it takes, from the first to the last call of
its path (`PlayAHand`, `AddRoom`, `ReconnectRequest`, ...): `Locked` is a mutex
held around others, `Touch` one taken for one function. A thread runs its
sequence with `Lock`, `Unlock` and `Use`.

| code | actions |
|---|---|
| `main`, `initRedisConnection` | `InitRedis` |
| `startHeartbeatChecker`, `startTimeoutChecker` | `StartHearts`, `StartTurns`, each in two steps |
| `ThreadPool::run`, `WorkerThread::run`, `running` | `StartWorker`, `MakeLoop`, `AwaitWorker` |
| `acceptConnection`, `takeWorkerEventLoop` | `Accept` |
| `heartbeatCheckerThread`, `timeoutCheckerThread` | `CheckerLoop`, `CheckerEnds` |
| a worker's loop | `HandleRequest` |
| `signalHandler`, `stopTimeoutChecker`, `stopHeartbeatChecker` | `Interrupt`, `HandlerLogs`, `StopChecker`, `JoinChecker`, `Exit` |

`Interrupt` may strike in the middle of a `Use`, with the mutex held. A thread
on which the handler runs does nothing else. A checker that joins itself throws:
`outcome` is "aborted".

## Runs

| run | module | asks |
|---|---|---|
| `match_safety` | MCRoomMatch | lock, seats and categories under interleaved joins and leaves |
| `match_live` | MCRoomMatch | does every request end? |
| `match_start` | MCRoomMatch | *violation*: one full room, two games |
| `game_turns` | MCGame | turns, cards, end and scores of two games with a fault |
| `game_takeover` | MCGame | does the server finish a game alone? |
| `game_again` | MCGame | *violation*: a game scored twice |
| `conn_pipe` | Conn | do both directions of a connection work, with threads and a client that closes? |
| `conn_sticky` | Conn | *violation*: two requests in one read |
| `session` | Session | who is online, absent, locked out, written to, with faults |
| `score_tx` | MCScore | whole settlements, copies that agree, with faults |
| `score_shared` | MCScore | *violation*: two settlements on one MySQL connection |
| `server` | MCServer | deadlock, start, handing out loops, SIGINT |

### What they show

Matching: under the room lock as the code uses it, and as long as no lock
expires, two handlers never work on one room at once (`MutualExclusion`), a room
never seats a fourth player and is never offered as smaller than it is
(`CategoryBound`), a broken party's room stays closed (`BrokenRoomStaysClosed`),
and whoever was told of a seat has it (`SeatAgreement`). What the stale names in
OnePlayer and TwoPlayers do is promise players who are gone,
never hide one who is there.

Playing: whatever two threads do at one hand at once, no card is lost and none
gets to another hand, and unless they meet there no played card comes back
(`CardsConserved`); scores balance (`ZeroSum`). Through a disconnection, a lost
heartbeat or a player who leaves at any moment, timeouts and reconnections, and
until a client or a timer acts in the middle of a handler, the table agrees on
the turn, the turn is never lost, nobody is moved for out of turn, and a game is
scored if a player in the room has no cards left, and only if somebody has none. If all clients fall silent once the landlord is known,
the timers and the automatic player still finish the game (`SilentGameEnds`),
unless it is one who left whose last card they play.

Connections: unless two threads are at one write buffer at once, a message or
a request handed to a connection arrives whole, once and in order, and
arrives at all while the client stays and the socket is not in error
(`RepliesArrive`, `RequestsAreHandled`); epoll watches for writing exactly while
there is something to write (`InterestFollowsData`); a closed connection is
destroyed, even if other threads write to it (`ClosedIsDestroyed`).

Sessions: an account has both its rows or none, whatever fails (`RowsAgree`). A
user is in once and not taken for absent while present, and one who is online in MySQL
has a connection whose end will set him offline (`OneSession`, `HereIsNotAway`,
`NotLockedOut`), except in the cases these properties name; the others in a room
write to the connection he is on (`WrittenToWhereHeIs`). A client lost
without a word is found, set offline, marked absent, and can come back
(`GoneIsOffline`, `LostIsNoticed`).

Scores: MySQL changes by whole settlements (`ScoresSettled`), no transaction is
left open (`NothingLeftOpen`), the players are told what was saved
(`ToldIsSaved`), and when nothing fails Redis agrees with MySQL at rest
(`CacheAgrees`).

Threads: no ring of threads waits for the singletons' mutexes, although
`handleTimeoutConnection` calls another singleton under the mutex of its own
(`NoDeadlock`); no worker's loop is handed out before it is made
(`GivenToLoop`); SIGINT, struck in no critical section and on no checker, ends
the program (`StopsCleanly`), and always the checkers first (`CheckersEndFirst`);
requests are handled although the checkers compete for the mutexes
(`ArrivalsHandled`).

The four violation runs check what a comment or the README says and the code does
not do; `PROJECT.json`, "findings", quotes each.

Behaviours noticed while modelling that no run shows
are listed as hazards instead: a room lock that expires between `GET`
and `DEL` (`Room.cpp:315`), a stale name in TwoPlayers (`Room.cpp:221`), a timer
started after the end (`TurnTimeoutManager.cpp:125`), a stale list of timed-out
turns (`TurnTimeoutManager.cpp:107`), no timer after `handleDisconnect`
(`Communication.cpp:142`), and a multiplier, a landlord and bids that outlive
their game (`Communication.cpp:1641`). The last contradicts two comments: a
new game begins with the state of the last one cleared (`Communication.cpp:1634`),
and with the multiplier reset (`GameStateManager.cpp:20`, in a function nothing
calls). `Game` has it as the code does, and no property rests on a multiplier
that was reset.

### Bounds, and why they are enough

* `match_safety`: four users, one room, two workers, five requests, one round
  of `joinRoomWithoutLock`. Four users are one more than a room seats; all the
  sets and locks are kept per room and a handler works on one room at a time,
  so a second room adds no interaction within the first. Five requests fill a room, break it
  and refill it. `match_live` has two rounds, so that the loop is
  entered again.
* `game_turns`: four cards, one each and one in the bottom, which completes the
  two jokers (a bomb) in the landlord's hand; two deals, so that a game follows
  a game; one trouble at any moment: a fault (a closed connection, a lost
  heartbeat, a player who leaves), then reconnection and the late destructor; or
  a client or timer that acts during a handler, by which two threads come to be
  at one hand. Bids of 3 only.
* `game_takeover`: seven cards, so that rounds go round the table; bids of 0, 1
  and 3, so that bidding passes on, is decided by the third bid, and ends in a
  redeal.
* `conn_pipe`: one thread that writes besides the loop and the accepting thread,
  one request and one that ends the connection. Three messages go to the client
  (key, reply, the other player's) in every split the socket can make; two
  threads are what it takes to be at a buffer at once. `conn_sticky`: two
  requests and no other thread.
* `session`: one account, two connections. Accounts share nothing but the
  checker's list and the room; two connections are what it takes to log in
  twice, to reconnect beside an old connection, and to register one name twice.
  One kind of fault in a behaviour, at any moment and as often as it likes (a
  restart once). One room.
* `score_tx`: two rooms with three and two players and one who moves, so that a game can be
  played in either; three calls, two of them for one room (the server's and a
  client's GameOver); two games; one kind of fault. The landlord wins: the
  farmers' win only changes signs. `score_shared`: two full rooms, a call each
  on the connection of `Communication::getInstance`, an update that may fail.
* `server`: two workers, one request of every kind, the endless rounds of both checkers, one
  SIGINT on the main thread or on the turn checker. A lock order needs two
  threads to be broken; the turn checker takes the same paths through
  `executeAIPlay` as a worker does, so one worker and both checkers contend for every mutex.
  With one request in flight two workers never contend in the run; of any number
  of workers the theorem `NoRingOfLocks` speaks.
* `MaxRequests`, `MaxDeals`, `MaxTroubles`, `MaxFaults` and `MaxGames` end behaviours, clients
  need not do anything, and the server's process ends; deadlock checking is
  off for that reason (the server has no terminal state of its own, but a room
  whose players are all gone or silent stops).
* Symmetry: users in `RoomMatch`, players in `Game` (the seating takes every
  order); it is not used where liveness is checked, nor in the other modules.

### Fairness

`match_live`: weak fairness of each handler's next step, `WF_vars(Work(u))`: a
worker thread that has a request keeps executing it. Nothing is assumed of the
users, nor that a lock is ever won: `GiveUp` is the bounded retry.
`game_takeover`: weak fairness of the handlers' steps and of the checker thread,
which wakes every second. No client is assumed to do anything, and none does
after bidding.

`conn_pipe`, `conn_sticky`: weak fairness of the loop's thread, of the accepting
thread, and of a thread that has begun `addWriteTask`. Nobody has to write
(`Tell` is not fair) and the client may send nothing, or stop anywhere.
`session`: weak fairness of every handler's next step and of the checker, which
wakes every few seconds, and of time: a connection whose client is gone runs out of
heartbeats. Clients need not send heartbeats, close or come back. The
fairness is stated without the history variables, which no step waits for.
`server`: weak fairness of main and of the signal handler; strong fairness of
workers and checkers, because a mutex may be free and taken again and again: a
checker sleeps between two rounds, during which the others run.

## Proofs

Every invariant and every action property of the passing runs is a theorem, for
all values of the constants; what remains with TLC is liveness. The assumptions
are the named `ConstantsAssumption` of each module, and no others.

An inductive invariant is given by its parts, each of which is kept by every
action from itself and the parts before it; the proof of a part has a step for each
action. TLC checked the stronger invariants on the runs' instances, as invariants
of a run, before they were proved.

`RoomMatchProofs` proves, for any finite set of users, any rooms, any number of workers,
attempts and requests, that `Spec` implies

| theorem | property | argument |
|---|---|---|
| `TypeCorrect` | `TypeOK` | with which steps have a room chosen, and rounds left |
| `RoomLockExcludes` | `MutualExclusion` | `HoldsLock`: whoever is in its critical section is the value of the lock key; two holders would be one |
| `RoomsStayWithinBounds` | `CategoryBound` | `CategoryInv`: the bound must count the player whose `JoinMove` is done and `JoinAdd` is not (`Prospective`), and holds while the lock is held too |
| `SeatsAgree` | `SeatAgreement` | `SeatInv`: carries the membership from `JoinAdd` through `AddUser`, and says that `LeaveDel` deletes an empty room |
| `BrokenRoomsStayClosed` | `BrokenRoomStaysClosed` | `ClosedInv`: a room in Invalid is in none of the joinable sets, and only its emptying removes it |

`CategoryBound` alone is not inductive: between `JoinMove` and `JoinAdd` the
name has moved and the member is not there yet, which is why the bound is
stated of the prospective members. That no lock expires is part of `RoomMatch`: the
theorems say what holds while every critical section ends within the 3 seconds of
its lock.

`GameProofs` proves for every pack, every bid set, every bound, and clients and
timers that act at any moment:

| theorem | property | argument |
|---|---|---|
| `TypeCorrect` | `TypeOK` | five parts, one lemma each; `ThreadsOK` says that a thread at work has a player, without which a turn could pass from nobody |
| `ScoresBalance` | `ZeroSum` | `SettleSum`: what `calculateScoreChanges` gives, it takes |

`GameCardProofs` proves for the same, whoever meets at whose hand:

| theorem | property | argument |
|---|---|---|
| `NoCardLost` | `CardsConserved` | `HandInv`, below |

`removeCardFromPlayer` reads a hand, takes a card out of the copy and writes the
copy back, and two threads can do so at one hand, each writing over the
other's removal. That nothing is lost rests on `CopyInv`: every copy of a hand
agrees with the hand on the cards that are not played. So whatever is written
back, in whatever order, only played cards come or go. `TakenInv` says why: what
a thread takes out counts as played before it starts. `AloneInv` is for hands at
which no two threads have met: the copy is the hand. `GoingOut`: a card both in
such a hand and played is one its thread still has to take out. `InOneHand`,
`Undealt` and `Somewhere` are the property, during handlers too;
`CardsConserved` speaks of the table at rest alone, and is not inductive.

`GameTurnProofs` proves for the same, of properties that speak of the time until
somebody acts in the middle of a handler (`Patient`):

| theorem | property | argument |
|---|---|---|
| `LastCardScores` | `WinnerIsScored` | `ScoredInv`: between the last card and the score some thread is about to look for a winner |
| `MovesInTurn` | `EveryoneInTurn` | `FoulInv`: whoever moves out of turn does so after the end of a game was missed, which leaves a trace: a player who went without cards (`GoneOut`) |
| `OneTurn` | `TurnAgreement` | `TurnInv`, below |
| `TurnsArrive` | `NoLostTurn` | `TurnInv` |

`TurnInv` says where the hand-over of the turn stands at each place of a handler
(`AtWork`): who moved, who is due, whom the clients believe to be next, and that
no timer runs while a thread is at it. It rests on `ThreadInv` (while `Patient`,
one thread at a time works on the game), `BidInv` (from the deal to the landlord
nothing is pending) and `ClientInv` (who is there, from what his client does).
`TurnAgreement` alone speaks of the table at rest and says nothing of how the step
before left the timers; it is not inductive.

`ConnProofs` proves for any number of threads that write to the connection, and
any requests:

| theorem | property | argument |
|---|---|---|
| `TypeCorrect` | `TypeOK` | what comes from the client is pieces of requests, and the loop answers one it has handled |
| `EpollWatchesForData` | `InterestFollowsData` | `EventsFollowData`: how events and buffer agree, at each place a thread can be in at the buffer, and when nobody is at it; `InterestFollowsEvents`: a change of the events that epoll has not seen has a thread about to queue a task, or a task, behind it |
| `HandledAsAsked` | `HandledInOrder` | `Framed`: buffer and socket together hold head and body of each request not yet handled, in turn |
| `RequestsComeInOrder` | `Requests!Safety` | the step simulation of `Pipe`: by `Framed`, `ParseRequest` takes out the first request that is waiting, and no other step takes out any |
| `RepliesComeInOrder` | `Replies!Safety` | `SentInOrder`: what has been sent and what is in the buffer are head and body of each queued message, in turn, but for the body of a message whose writer is between the two (`Packed`); so `SendData`, whatever it cuts off, delivers the next whole messages |

`InterestFollowsData` speaks of the loop at rest; it is not inductive because a
thread may append, set the event and queue its task while the loop dispatches,
which is why the invariant goes through those places one by one. `Safety` of `Pipe`
is all of it but `Drains`. That a lost promise stays lost needs `GoneForGood`: the
task that adds a connection is the first of its queue and never comes back, and
a socket in error is one whose client has closed.

`SessionProofs` proves for any users and any number of connections:

| theorem | property | argument |
|---|---|---|
| `TypeCorrect` | `TypeOK` | the types alone are inductive (`TypesKept`); that a handler works for a user, and that the entry the checker is at stays there, follows from `EntryInv` |
| `TablesAgree` | `RowsAgree` | `InsertsOK`: what an open transaction has inserted is in no table and in no other open transaction |
| `NobodyLockedOut` | `NotLockedOut` | `OnlineIsWatched`: who is online has a connection whose destructor, or whose entry with the checker, is still to come; with `EntryInv`, which ties entries, sessions and handlers together |
| `OneSessionOnly` | `OneSession` | `InIsOnline`: who is in, or past the check that lets him in, is online, and nobody else is past it as the same user; with `WatchInv`: what `raced`, `overlaid` and the absence of late heartbeats say of the present state |
| `WrittenWhereTheyAre` | `WrittenToWhereHeIs` | `WrittenThere`: from `RemoveFromDisconnectList` on the callback is that of the connection that comes back, or gone |
| `HereAreNotAway` | `HereIsNotAway` | `BackIsNotAway`: nobody marks a player absent between his removal from the list and his entry |

`ScoreProofs` proves for any players, rooms, calls, connections and faults:

| theorem | property | argument |
|---|---|---|
| `TypeCorrect` | `TypeOK` | a job at a player's turn has a player (`InTurn`) |
| `SettledAsAWhole` | `ScoresSettled` | the step simulation of `Ledger`: a commit is a settlement, all else a stutter. `WroteInv`: what a job has written is what its connection will commit; `ReadInv`: what it reads is what is committed; `BalanceInv`: its shares, done and to be done, are those of a landlord and two farmers |
| `ToldWhatIsSaved` | `ToldIsSaved` | `ToldInv`, from `WroteInv` across the commit |
| `NobodyIsBlocked` | `NothingLeftOpen` | `DbOK`: what a connection has open a job at work on it has done |
| `CacheIsRight` | `CacheAgrees` | `CacheInv`: the sorted set has what the job at work has written, and what MySQL has of the others; a player on the move takes his score along |

All rest on `LocksOK` (the job that holds a room's lock is the one at work there)
and `Apart` (what `crossed`, `mixed` and `strayed` exclude).

`ServerProofs` proves for any number of workers and requests, wherever SIGINT
strikes:

| theorem | property | argument |
|---|---|---|
| `TypeCorrect` | `TypeOK` | what is left of a handler is a sequence of operations |
| `NoRingOfLocks` | `NoDeadlock` | `OrderInv`: under DisconnectManager's mutex nothing is locked, under ConnectionManager's only that one, and what is left of every handler keeps to it (`Nested`); so of any threads one waits for none of them |
| `LoopBeforeConnections` | `GivenToLoop` | `LoopInv`: the workers are made one after the other, each when the one before has its loop |
| `CheckersEnd` | `CheckersEndFirst` | `StopInv`: how far the handler of SIGINT is, and which checkers can still be alive then, for a SIGINT between a checker's flag and its thread too |

Only model-checked: what must happen in the end (`RequestsEnd`, `SilentGameEnds`,
`ClosedIsDestroyed`, `GoneIsOffline`, `LostIsNoticed`, `StopsCleanly`,
`ArrivalsHandled`, and the `Drains` of the two pipes in `RepliesArrive` and
`RequestsAreHandled`). Liveness under fairness needs ENABLED, which the prover
does not do. The properties of the violation runs are false, and proved of nothing.

## Not modelled

* The poll and select dispatchers: alternatives to epoll that nothing makes.
* Protobuf encoding, encryption, configuration files: conversions without state
  of the game. HTTP: a server this program does not start.
* The expiry of locks and tokens in Redis, and Redis exceptions outside `Score`.
* `m_taskQ.empty()` without the mutex (`EventLoop.cpp:113`), the growth of a
  buffer, failures of system calls (they end the program).
* GameStateManager's mutex and those of the event loops: nothing is locked under
  them, so they cannot be part of a ring.
* Two connections with one generated id; the life of the callbacks in
  `RoomList`: what a call into a destroyed connection does is undefined, and
  nothing is promised after it.

## Plan

1. `PlayRace`: two bids or plays that meet, the unlocked pointer to
   the room state (`Communication.cpp:1220`); what is left of `TurnInv` once
   somebody has acted in the middle of a handler.
2. A composition of matching and playing: a player who joins the room of a game
   that goes on (`Room.cpp:379`), the life of the callbacks in `RoomList`.
3. An abstract specification of the card game (whose turn, which cards), `Game`
   while `Patient` as its implementation, and the proof of it, of which
   `TurnInv` and `HandInv` are most.
4. Room locks that expire (`Room.cpp:315`): what of `RoomMatch` is left.
5. What the liveness properties need of safety, as theorems: that a state in which
   nothing can go on is one in which nothing has to.
