--------------------------------- MODULE Score --------------------------------
(***************************************************************************)
(* What becomes of the scores: calculateAndUpdateGameScores, statement by  *)
(* statement, with its distributed lock, its MySQL transaction and the     *)
(* copies in Redis, and the loading of a score when a player joins a room. *)
(* A job is one call of calculateAndUpdateGameScores; the end of a game    *)
(* makes one, and so does every GameOver message.                          *)
(***************************************************************************)
EXTENDS Integers, FiniteSets, FiniteSetsExt, Functions

CONSTANTS
  User,       \* players; their numbers are the order of their names
  Room,       \* rooms
  Start,      \* where each user is in the beginning
  Mover,      \* users who go from room to room
  Job,        \* calls, each made once
  RoomOf,     \* the room of each call
  Db,         \* MySQL connections
  DbOf,       \* the connection of each call
  NoJob,      \* not a call
  Faults,     \* what may go wrong: a subset of Kinds
  MaxFaults,  \* so many kinds of it in one behaviour
  Winner,     \* who may win: landlord, farmers
  MaxGames    \* games in one behaviour

\* statements, commits, locks and Redis commands that fail
Kinds == {"select", "update", "commit", "load", "redis"}

ASSUME ConstantsAssumption ==
  /\ User \subseteq Nat /\ IsFiniteSet(User) /\ Mover \subseteq User /\ Start \in [User -> Room]
  /\ RoomOf \in [Job -> Room] /\ DbOf \in [Job -> Db] /\ NoJob \notin Job
  /\ Faults \subseteq Kinds /\ Winner \subseteq {"lord", "farmers"}
  /\ MaxFaults \in Nat /\ MaxGames \in Nat

VARIABLES
  score,      \* MySQL: information.score, committed
  tx, view,   \* of a connection: what it has updated, what it reads
  auto,       \* of a connection: autocommit is on
  cache,      \* Redis: the sorted set of each room, users to scores
  lock,       \* Redis: room_score_update_<room>, and whose it is
  place,      \* Redis: Players, the room a user was in last
  inside,     \* the user is in that room
  order,      \* Redis: the three players of the room's game
  won,        \* the landlord wins, or the farmers
  pc,         \* where a job is
  gain,       \* scoreChanges of a job, less those done
  current,    \* currentScore of a job
  ok,         \* allUpdatesSuccess of a job
  final,      \* finalScores of a job
  at, carried,\* where handleAddRoom is for a user, and its score
  games,      \* history: games so far
  faults,     \* history: kinds of faults so far
  crossed,    \* history: a player was settled for two rooms at once
  mixed,      \* history: calls for two rooms were at work on one connection
  strayed     \* history: a player was settled for a room he had left

mysql == <<score, tx, view, auto>>
rooms == <<place, inside, order, won, at, carried, games>>
jobs == <<pc, gain, current, ok, final>>
history == <<crossed, mixed, strayed>>
vars == <<mysql, cache, lock, rooms, jobs, faults, history>>

Empty == [u \in {} |-> 0]
With(f, u, n) == [v \in DOMAIN f \cup {u} |-> IF v = u THEN n ELSE f[v]]
Members(r) == {u \in User : inside[u] /\ place[u] = r}

Init ==
  /\ score = [u \in User |-> 0]
  /\ tx = [d \in Db |-> Empty] /\ view = tx /\ auto = [d \in Db |-> TRUE]
  /\ place = Start /\ inside = [u \in User |-> TRUE]
  /\ cache = [r \in Room |-> [u \in {v \in User : Start[v] = r} |-> 0]]
  /\ lock = [r \in Room |-> NoJob]
  /\ order = [r \in Room |-> {}] /\ won = [r \in Room |-> "none"]
  /\ pc = [j \in Job |-> "idle"] /\ gain = [j \in Job |-> Empty]
  /\ current = [j \in Job |-> 0] /\ ok = [j \in Job |-> TRUE] /\ final = gain
  /\ at = [u \in User |-> "idle"] /\ carried = score
  /\ games = 0 /\ faults = {}
  /\ crossed = FALSE /\ mixed = FALSE /\ strayed = FALSE

At(j, here) == pc[j] = here
Goto(j, there) == pc' = [pc EXCEPT ![j] = there]
Busy(j) == pc[j] \notin {"idle", "lock", "done"}
Fault(kind) ==
  /\ kind \in Faults /\ Cardinality(faults \cup {kind}) <= MaxFaults
  /\ faults' = faults \cup {kind}
\* what connection d reads of a score: its own update, or the score as of the
\* first select of the transaction
Reads(d) == [u \in User |-> IF u \in DOMAIN tx[d] THEN tx[d][u]
                            ELSE IF u \in DOMAIN view[d] THEN view[d][u] ELSE score[u]]
\* mysql_commit or mysql_rollback, and autocommit again
EndTransaction(d, keep) ==
  /\ score' = IF keep THEN [u \in User |-> IF u \in DOMAIN tx[d] THEN tx[d][u] ELSE score[u]]
              ELSE score
  /\ tx' = [tx EXCEPT ![d] = Empty] /\ view' = [view EXCEPT ![d] = Empty]
  /\ auto' = [auto EXCEPT ![d] = TRUE]
-----------------------------------------------------------------------------
(* Mutations *)

\* the landlord's double share is doubled again
ShareTwice(r, u) == IF won[r] = "lord" /\ u = Min(order[r]) THEN 4 ELSE -1

\* a failed update leaves the transaction open
RollbackOff(j) ==
  /\ At(j, "end") /\ ~ok[j] /\ Goto(j, "release")
  /\ UNCHANGED <<mysql, cache, lock, rooms, gain, current, ok, final, faults>>

\* what worked of a failed settlement is kept
RollbackKeeps(j) ==
  /\ At(j, "end") /\ ~ok[j] /\ Goto(j, "release")
  /\ EndTransaction(DbOf[j], TRUE)
  /\ UNCHANGED <<cache, lock, rooms, gain, current, ok, final, faults>>

\* a score of zero is taken for the real one
LoadScoreOff(u) ==
  /\ at[u] = "load" /\ at' = [at EXCEPT ![u] = "store"]
  /\ UNCHANGED <<mysql, cache, lock, place, inside, order, won, carried, games, jobs, faults>>

\* the updates are not kept
CommitOff(j) ==
  /\ At(j, "end") /\ ok[j] /\ Goto(j, "tell")
  /\ EndTransaction(DbOf[j], FALSE)
  /\ UNCHANGED <<cache, lock, rooms, gain, current, ok, final, faults>>
-----------------------------------------------------------------------------
(* Rooms, as far as scores are concerned *)

\* three players, a landlord, and a winner in the end
NewGame(r) ==
  /\ games < MaxGames /\ games' = games + 1
  /\ Cardinality(Members(r)) = 3 /\ \A u \in Members(r) : at[u] = "idle"
  /\ order' = [order EXCEPT ![r] = Members(r)]
  /\ \E w \in Winner : won' = [won EXCEPT ![r] = w]
  /\ UNCHANGED <<mysql, cache, lock, place, inside, at, carried, jobs, faults>>

\* handleLeaveRoom: Players still names the room
LeaveRoom(u) ==
  /\ u \in Mover /\ at[u] = "idle" /\ inside[u]
  /\ inside' = [inside EXCEPT ![u] = FALSE]
  /\ cache' = [cache EXCEPT ![place[u]] = Restrict(@, DOMAIN @ \ {u})]
  /\ UNCHANGED <<mysql, lock, place, order, won, at, carried, games, jobs, faults>>

\* handleAddRoom: first the score of the last room, zero if there is none
AddRoom(u) ==
  /\ u \in Mover /\ at[u] = "idle" /\ at' = [at EXCEPT ![u] = "move"]
  /\ carried' = [carried EXCEPT ![u] =
       IF u \in DOMAIN cache[place[u]] THEN cache[place[u]][u] ELSE 0]
  /\ UNCHANGED <<mysql, cache, lock, place, inside, order, won, games, jobs, faults>>

\* leaveRoom of the old room, joinRoom of the new one
MoveTo(u, r) ==
  /\ at[u] = "move" /\ at' = [at EXCEPT ![u] = IF carried[u] = 0 THEN "load" ELSE "store"]
  /\ Cardinality(DOMAIN cache[r]) < 3
  /\ place' = [place EXCEPT ![u] = r] /\ inside' = [inside EXCEPT ![u] = TRUE]
  /\ LET left == [cache EXCEPT ![place[u]] = Restrict(@, DOMAIN @ \ {u})]
     IN  cache' = [left EXCEPT ![r] = With(@, u, 0)]
  /\ UNCHANGED <<mysql, lock, order, won, carried, games, jobs, faults>>

\* the score is loaded from MySQL, if it is zero and the select works
LoadScore(u) ==
  /\ at[u] = "load" /\ at' = [at EXCEPT ![u] = "store"]
  /\ \/ carried' = [carried EXCEPT ![u] = score[u]] /\ UNCHANGED faults
     \/ Fault("load") /\ UNCHANGED carried
  /\ UNCHANGED <<mysql, cache, lock, place, inside, order, won, games, jobs>>

StoreScore(u) ==
  /\ at[u] = "store" /\ at' = [at EXCEPT ![u] = "idle"]
  /\ \/ cache' = [cache EXCEPT ![place[u]] = With(@, u, carried[u])] /\ UNCHANGED faults
     \/ Fault("redis") /\ UNCHANGED cache
  /\ carried' = [carried EXCEPT ![u] = 0]
  /\ UNCHANGED <<mysql, lock, place, inside, order, won, games, jobs>>
-----------------------------------------------------------------------------
(* calculateAndUpdateGameScores *)

\* calculateScoreChanges, with a stake of one; the landlord is the first
Share(r, u) ==
  LET gains == IF u = Min(order[r]) THEN 2 ELSE -1
  IN  IF won[r] = "lord" THEN gains ELSE -gains

\* it does not ask whether the game was settled before
Begin(j) ==
  LET r == RoomOf[j]
  IN  /\ At(j, "idle") /\ won[r] # "none" /\ Goto(j, "lock")
      /\ gain' = [gain EXCEPT ![j] = [u \in order[r] |-> Share(r, u)]]
      /\ UNCHANGED <<mysql, cache, lock, rooms, current, ok, final, faults>>

LockFree(r) == lock[r] = NoJob

\* acquireLockWithRetry: the lock is got, or given up while another has it
AcquireLock(j) ==
  /\ At(j, "lock")
  /\ \/ /\ LockFree(RoomOf[j]) /\ Goto(j, "select")
        /\ lock' = [lock EXCEPT ![RoomOf[j]] = j]
        /\ auto' = [auto EXCEPT ![DbOf[j]] = FALSE]
        /\ UNCHANGED gain
     \/ /\ lock[RoomOf[j]] # NoJob /\ Goto(j, "done")
        /\ gain' = [gain EXCEPT ![j] = Empty]
        /\ UNCHANGED <<lock, auto>>
  /\ UNCHANGED <<score, tx, view, cache, rooms, current, ok, final, faults>>

\* the players in the order of the map's keys
NextPlayer(j) == Min(DOMAIN gain[j])

\* select; a score that cannot be read is taken for zero
SelectScore(j) ==
  LET d == DbOf[j]
  IN  /\ At(j, "select") /\ gain[j] # Empty /\ Goto(j, "update")
      /\ \/ /\ current' = [current EXCEPT ![j] = Reads(d)[NextPlayer(j)]] /\ UNCHANGED faults
            /\ view' = [view EXCEPT ![d] = IF auto[d] \/ @ # Empty THEN @ ELSE score]
         \/ /\ Fault("select") /\ current' = [current EXCEPT ![j] = 0]
            /\ UNCHANGED view
      /\ UNCHANGED <<score, tx, auto, cache, lock, rooms, gain, ok, final>>

\* the row is free, or locked by this very transaction
RowFree(d, u) == \A e \in Db \ {d} : u \notin DOMAIN tx[e]

NewScore(j) == current[j] + gain[j][NextPlayer(j)]

UpdateScore(j) ==
  LET d == DbOf[j]  u == NextPlayer(j)
  IN  /\ At(j, "update") /\ Goto(j, "cache")
      /\ \/ /\ RowFree(d, u)
            /\ IF auto[d]
               THEN score' = [score EXCEPT ![u] = NewScore(j)] /\ UNCHANGED tx
               ELSE tx' = [tx EXCEPT ![d] = With(@, u, NewScore(j))] /\ UNCHANGED score
            /\ UNCHANGED <<ok, faults>>
         \/ /\ Fault("update") /\ ok' = [ok EXCEPT ![j] = FALSE]
            /\ UNCHANGED <<score, tx>>
      /\ UNCHANGED <<view, auto, cache, lock, rooms, gain, current, final>>

\* UpdatePlayerScore, in the middle of the transaction
UpdatePlayerScore(j) ==
  LET u == NextPlayer(j)
  IN  /\ At(j, "cache") /\ Goto(j, IF DOMAIN gain[j] = {u} THEN "end" ELSE "select")
      /\ gain' = [gain EXCEPT ![j] = Restrict(@, DOMAIN @ \ {u})]
      /\ final' = [final EXCEPT ![j] = With(@, u, NewScore(j))]
      /\ \/ /\ ok[j] /\ cache' = [cache EXCEPT ![RoomOf[j]] = With(@, u, NewScore(j))]
            /\ UNCHANGED faults
         \/ ~ok[j] /\ UNCHANGED <<cache, faults>>
         \/ ok[j] /\ Fault("redis") /\ UNCHANGED cache
      /\ UNCHANGED <<mysql, lock, rooms, current, ok>>

\* nobody looks whether the commit worked
Commit(j) ==
  /\ At(j, "end") /\ ok[j] /\ Goto(j, "tell")
  /\ \/ EndTransaction(DbOf[j], TRUE) /\ UNCHANGED faults
     \/ EndTransaction(DbOf[j], FALSE) /\ Fault("commit")
  /\ UNCHANGED <<cache, lock, rooms, gain, current, ok, final>>

Rollback(j) ==
  /\ At(j, "end") /\ ~ok[j] /\ Goto(j, "release")
  /\ EndTransaction(DbOf[j], FALSE)
  /\ UNCHANGED <<cache, lock, rooms, gain, current, ok, final, faults>>

\* sendScoreUpdateToRoom, if the updates worked, tells the room finalScores
ReleaseLock(j) ==
  /\ pc[j] \in {"tell", "release"} /\ Goto(j, "done")
  /\ lock' = [lock EXCEPT ![RoomOf[j]] = NoJob]
  /\ final' = [final EXCEPT ![j] = Empty] /\ current' = [current EXCEPT ![j] = 0]
  /\ ok' = [ok EXCEPT ![j] = TRUE]
  /\ UNCHANGED <<mysql, cache, rooms, gain, faults>>

JobStep(j) ==
  \/ AcquireLock(j) \/ SelectScore(j) \/ UpdateScore(j) \/ UpdatePlayerScore(j)
  \/ Commit(j) \/ Rollback(j) \/ ReleaseLock(j)
-----------------------------------------------------------------------------
Settles(j) == DOMAIN gain[j] \cup DOMAIN final[j]

Watch ==
  /\ crossed' = (crossed \/ \E j, k \in Job :
       RoomOf[j] # RoomOf[k] /\ Busy(j)' /\ Busy(k)' /\ (Settles(j) \cap Settles(k))' # {})
  /\ mixed' = (mixed \/ \E j, k \in Job :
       RoomOf[j] # RoomOf[k] /\ Busy(j)' /\ Busy(k)' /\ DbOf[j] = DbOf[k])
  /\ strayed' = (strayed \/ \E j \in Job : Busy(j)' /\ \E u \in Settles(j)' :
       at'[u] # "idle" \/ u \notin Members(RoomOf[j])')

Player(u) ==
  \/ LeaveRoom(u) \/ AddRoom(u) \/ LoadScore(u) \/ StoreScore(u)
  \/ \E r \in Room : MoveTo(u, r)

Next ==
  /\ \/ \E j \in Job : Begin(j) \/ JobStep(j)
     \/ \E r \in Room : NewGame(r)
     \/ \E u \in Mover : Player(u)
  /\ Watch

Spec == Init /\ [][Next]_vars
-----------------------------------------------------------------------------
(* Properties *)

Scores(f) == DOMAIN f \subseteq User /\ f \in [DOMAIN f -> Int]
ScoresOf(f, S) == DOMAIN f = S /\ \A x \in S : Scores(f[x])

TypeOK ==
  /\ score \in [User -> Int] /\ carried \in [User -> Int]
  /\ ScoresOf(tx, Db) /\ ScoresOf(view, Db) /\ auto \in [Db -> BOOLEAN]
  /\ ScoresOf(cache, Room) /\ order \in [Room -> SUBSET User]
  /\ lock \in [Room -> Job \cup {NoJob}] /\ won \in [Room -> {"none", "lord", "farmers"}]
  /\ place \in [User -> Room] /\ inside \in [User -> BOOLEAN]
  /\ pc \in [Job -> {"idle", "lock", "select", "update", "cache", "end",
                     "tell", "release", "done"}]
  /\ ScoresOf(gain, Job) /\ ScoresOf(final, Job)
  /\ \A j \in Job : Range(gain[j]) \subseteq {-2, -1, 1, 2}
  /\ current \in [Job -> Int] /\ ok \in [Job -> BOOLEAN]
  /\ at \in [User -> {"idle", "move", "load", "store"}]
  /\ games \in 0 .. MaxGames /\ faults \subseteq Faults
  /\ crossed \in BOOLEAN /\ mixed \in BOOLEAN /\ strayed \in BOOLEAN

\* Scores in MySQL change only by whole settlements, whatever fails but a
\* select, as long as no player is settled for two rooms at once and no calls
\* for two rooms share a connection: the lock and the transaction of
\* calculateAndUpdateGameScores implement a ledger.
Settlements == INSTANCE Ledger WITH
  Stake <- {-1, 1}, intact <- ~crossed /\ ~mixed /\ "select" \notin faults
ScoresSettled == Settlements!Spec

\* What sendScoreUpdateToRoom tells the room is what MySQL says at that time,
\* if the commit worked and no other room was settled on the connection or for
\* one of the players.
ToldIsSaved ==
  [][\A j \in Job :
       (At(j, "tell") /\ ~At(j, "tell")') =>
          \/ crossed \/ mixed \/ "commit" \in faults
          \/ \A u \in DOMAIN final[j] : final[j][u] = score[u]]_vars

\* Whenever nobody is at work in a room, its sorted set has its players with
\* their scores, unless something failed, a player was settled for two rooms
\* at once, or for a room he had left: UpdatePlayerScore, handleAddRoom.
CacheAgrees ==
  \/ faults # {} \/ crossed \/ strayed
  \/ \A r \in Room :
       (\A u \in User : at[u] = "idle") /\ (\A j \in Job : ~Busy(j))
         => cache[r] = Restrict(score, Members(r))

\* A connection with no call on it has no transaction open and commits every
\* statement, so that nobody waits for its rows and no later statement on it
\* is lost: transaction, commit and rollback of MysqlConn.
NothingLeftOpen ==
  \A d \in Db : (\A j \in Job : DbOf[j] = d => ~Busy(j)) => auto[d] /\ tx[d] = Empty

\* Communication.cpp, line 1016: "分数更新失败，事务已回滚", the update has
\* failed and the transaction was rolled back.  A settlement that failed has
\* changed nobody's score, so that those of a room's players balance.
NothingHalfSettled ==
  ((\A j \in Job : ~Busy(j)) /\ "select" \notin faults) =>
    \A r \in Room : MapThenSumSet(LAMBDA u : score[u], order[r]) = 0
=============================================================================
