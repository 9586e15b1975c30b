------------------------------ MODULE RoomMatch ------------------------------
(***************************************************************************)
(* Room matching: how players enter and leave rooms (game/Room.cpp), and   *)
(* what the request handlers around it do to the in-memory room list       *)
(* (Communication::handleAddRoom, handleLeaveRoom, readyForPlay).          *)
(*                                                                         *)
(* Every user is one connection, served by one worker thread, which runs   *)
(* one request at a time.  Connections on different workers interleave     *)
(* between any two Redis commands; a Redis command is atomic, and so is a  *)
(* RoomList method (it holds the RoomList mutex).  The room lock is a      *)
(* Redis key with a time to live: SET NX EX takes it, and it is given back *)
(* by a GET that compares the value and a separate DEL.                    *)
(*                                                                         *)
(* Abstracted: scores (the zset is the set of its members), the retries of *)
(* acquireLockWithRetry (an acquisition fails only when the lock is held), *)
(* and Redis exceptions.                                                   *)
(***************************************************************************)
EXTENDS Naturals, FiniteSets

CONSTANTS
  Users,        \* the users, each with one connection
  Rooms,        \* the room names getRoomName and the clients can produce
  NoUser,       \* the value of a lock key that does not exist
  NoRoom,       \* the empty room name
  Workers,      \* how many requests the worker threads serve at a time
  MaxAttempts,  \* MAX_ATTEMPTS of joinRoomWithoutLock
  MaxRequests   \* bound: requests the users make together

ASSUME ConstantsAssumption ==
  /\ IsFiniteSet(Users) /\ NoUser \notin Users
  /\ NoRoom \notin Rooms
  /\ Workers \in Nat
  /\ MaxAttempts \in Nat \ {0}
  /\ MaxRequests \in Nat

VARIABLES
  onePlayer, twoPlayers, threePlayers, invalid,  \* the Redis sets of room names
  zset,      \* zset[r]: members of the sorted set named r
  players,   \* the Redis hash Players: the room a user joined last
  lock,      \* lock[r]: whose value the key room_lock_r holds
  roomList,  \* RoomList::m_roomMap: the users with a callback in room r
  pc,        \* where the handler of a user's request is
  op,        \* the request being served
  room,      \* the room the handler works on
  todo,      \* the rooms left of the list joinRoomWithoutLock read
  tier,      \* which of its alternatives joinRoomWithoutLock is trying
  attempt,   \* and how often it has gone round
  ret,       \* where control goes when the room lock is given back
  seat,      \* the room the user was told it is in
  requests,  \* how many requests there have been
  starts,    \* history: calls of startGame for the users now in roomList[r]
  forced     \* history: users put in zset[r] without the room lock

redis  == <<onePlayer, twoPlayers, threePlayers, invalid, zset, players>>
local  == <<op, room, todo, tier, attempt, ret>>
client == <<seat, requests>>
vars   == <<redis, lock, roomList, pc, local, client, starts, forced>>

JoinSteps  == {"joinCount", "joinMove", "joinAdd"}
LeaveSteps == {"leaveMove", "leaveRem", "leaveCount", "leaveDel"}
Critical   == JoinSteps \cup LeaveSteps \cup {"relGet", "relDel"}
PCs        == Critical \cup {"idle", "leaveLock", "left", "find", "try", "joinLock",
                             "refused", "joined", "addUser", "respond"}

Empty(r) == zset[r] = {}     \* Redis keeps no empty sorted set: !exists(r)

Init ==
  /\ onePlayer = {} /\ twoPlayers = {} /\ threePlayers = {} /\ invalid = {}
  /\ zset = [r \in Rooms |-> {}]
  /\ players = [u \in Users |-> NoRoom]
  /\ lock = [r \in Rooms |-> NoUser]
  /\ roomList = [r \in Rooms |-> {}]
  /\ pc = [u \in Users |-> "idle"]
  /\ op = [u \in Users |-> "leave"]
  /\ room = [u \in Users |-> NoRoom]
  /\ todo = [u \in Users |-> {}]
  /\ tier = [u \in Users |-> "two"]
  /\ attempt = [u \in Users |-> 0]
  /\ ret = [u \in Users |-> "left"]
  /\ seat = [u \in Users |-> NoRoom]
  /\ requests = 0
  /\ starts = [r \in Rooms |-> 0]
  /\ forced = [r \in Rooms |-> {}]

(* Mutations: ways the operators below could plausibly go wrong.           *)
LockFree_NoNX(r)     == TRUE                          \* SET without NX
Deserted_AtOne(r)    == Cardinality(zset[r]) <= 1     \* off by one
Joinable_Any(r)      == TRUE                          \* no else branch
NextAttempt_Stuck(u) == attempt[u]                    \* no increment
LastAttempt_Late(u)  == attempt[u] = MaxAttempts      \* off by one
PromoteOne_Copied(r) == onePlayer                     \* SADD for SMOVE
-----------------------------------------------------------------------------
Goto(u, label) == pc' = [pc EXCEPT ![u] = label]

\* the handler returns: its local variables are gone
Return(u) ==
  /\ Goto(u, "idle")
  /\ op' = [op EXCEPT ![u] = "leave"]
  /\ room' = [room EXCEPT ![u] = NoRoom]
  /\ todo' = [todo EXCEPT ![u] = {}]
  /\ tier' = [tier EXCEPT ![u] = "two"]
  /\ attempt' = [attempt EXCEPT ![u] = 0]
  /\ ret' = [ret EXCEPT ![u] = "left"]
-----------------------------------------------------------------------------
(* Requests.  A user that is still in a room leaves it before it joins     *)
(* another; whereAmI reads the hash Players, which leaving does not clear. *)

Request(u, kind) ==
  /\ pc[u] = "idle"
  /\ Cardinality({v \in Users : pc[v] # "idle"}) < Workers
  /\ requests < MaxRequests
  /\ requests' = requests + 1
  /\ op' = [op EXCEPT ![u] = kind]
  /\ seat' = [seat EXCEPT ![u] = NoRoom]
  /\ UNCHANGED <<redis, lock, roomList, ret, starts, forced>>

\* handleAddRoom for AutoRoom
AutoRoom(u) ==
  /\ Request(u, "auto")
  /\ room' = [room EXCEPT ![u] = players[u]]
  /\ Goto(u, IF players[u] = NoRoom THEN "find" ELSE "leaveLock")
  /\ UNCHANGED <<todo, tier, attempt>>

\* handleAddRoom for ManualRoom; the wanted room waits in todo
ManualRoom(u, r) ==
  /\ Request(u, "manual")
  /\ room' = [room EXCEPT ![u] = IF players[u] = NoRoom THEN r ELSE players[u]]
  /\ Goto(u, IF players[u] = NoRoom THEN "joinLock" ELSE "leaveLock")
  /\ todo' = [todo EXCEPT ![u] = {r}]
  /\ UNCHANGED <<tier, attempt>>

\* handleLeaveRoom for the room the client is in
LeaveRoom(u) ==
  /\ Request(u, "leave")
  /\ seat[u] # NoRoom
  /\ room' = [room EXCEPT ![u] = seat[u]]
  /\ Goto(u, "leaveLock")
  /\ UNCHANGED <<todo, tier, attempt>>
-----------------------------------------------------------------------------
(* The room lock.                                                          *)

LockFree(r) == lock[r] = NoUser

\* acquireLock, SET NX EX
Acquire(u, at, next) ==
  /\ pc[u] = at
  /\ LockFree(room[u])
  /\ lock' = [lock EXCEPT ![room[u]] = u]
  /\ Goto(u, next)
  /\ UNCHANGED <<redis, roomList, local, client, starts, forced>>

\* acquireLockWithRetry, all tries used up
GiveUp(u, at, next) ==
  /\ pc[u] = at
  /\ ~LockFree(room[u])
  /\ Goto(u, next)
  /\ UNCHANGED <<redis, lock, roomList, local, client, starts, forced>>

\* releaseLock: GET, compare with the value of m_lockValues
ReleaseGet(u) ==
  /\ pc[u] = "relGet"
  /\ Goto(u, IF lock[room[u]] = u THEN "relDel" ELSE ret[u])
  /\ UNCHANGED <<redis, lock, roomList, local, client, starts, forced>>

\* releaseLock: DEL, whatever the key holds by now
ReleaseDel(u) ==
  /\ pc[u] = "relDel"
  /\ lock' = [lock EXCEPT ![room[u]] = NoUser]
  /\ Goto(u, ret[u])
  /\ UNCHANGED <<redis, roomList, local, client, starts, forced>>

\* the code after the lock: `next` once it is given back
Unlocking(u, next) ==
  /\ Goto(u, "relGet")
  /\ ret' = [ret EXCEPT ![u] = next]
-----------------------------------------------------------------------------
(* Room::leaveRoom, then RoomList::removePlayer.                           *)

LeaveMove(u) ==
  /\ pc[u] = "leaveMove"
  /\ IF room[u] \in threePlayers
     THEN /\ threePlayers' = threePlayers \ {room[u]}
          /\ invalid' = invalid \cup {room[u]}
     ELSE UNCHANGED <<threePlayers, invalid>>
  /\ Goto(u, "leaveRem")
  /\ UNCHANGED <<onePlayer, twoPlayers, zset, players, lock, roomList, local, client,
                 starts, forced>>

LeaveRem(u) ==
  /\ pc[u] = "leaveRem"
  /\ zset' = [zset EXCEPT ![room[u]] = @ \ {u}]
  /\ forced' = [forced EXCEPT ![room[u]] = @ \ {u}]
  /\ Goto(u, "leaveCount")
  /\ UNCHANGED <<onePlayer, twoPlayers, threePlayers, invalid, players, lock, roomList,
                 local, client, starts>>

\* ZCARD
Deserted(r) == Cardinality(zset[r]) = 0

LeaveCount(u) ==
  /\ pc[u] = "leaveCount"
  /\ IF Deserted(room[u])
     THEN Goto(u, "leaveDel") /\ UNCHANGED ret
     ELSE Unlocking(u, "left")
  /\ UNCHANGED <<redis, lock, roomList, op, room, todo, tier, attempt, client, starts,
                 forced>>

LeaveDel(u) ==
  /\ pc[u] = "leaveDel"
  /\ zset' = [zset EXCEPT ![room[u]] = {}]
  /\ invalid' = invalid \ {room[u]}
  /\ Unlocking(u, "left")
  /\ UNCHANGED <<onePlayer, twoPlayers, threePlayers, players, lock, roomList, op, room,
                 todo, tier, attempt, client, starts, forced>>

\* removePlayer runs whether or not leaveRoom got the lock
RemovePlayer(u) ==
  /\ pc[u] = "left"
  /\ roomList' = [roomList EXCEPT ![room[u]] = @ \ {u}]
  /\ starts' = [starts EXCEPT ![room[u]] = IF u \in roomList[room[u]] THEN 0 ELSE @]
  /\ \/ op[u] = "leave" /\ Return(u)
     \/ /\ op[u] = "auto"
        /\ Goto(u, "find")
        /\ UNCHANGED local
     \/ /\ op[u] = "manual"
        /\ Goto(u, "joinLock")
        /\ \E r \in todo[u] : room' = [room EXCEPT ![u] = r]
        /\ UNCHANGED <<op, todo, tier, attempt, ret>>
  /\ UNCHANGED <<redis, lock, client, forced>>
-----------------------------------------------------------------------------
(* Room::joinRoomWithoutLock.                                              *)

\* getTwoPlayerRooms, getOnePlayerRooms: SMEMBERS
FindRooms(u) ==
  /\ pc[u] = "find"
  /\ todo' = [todo EXCEPT ![u] = IF tier[u] = "two" THEN twoPlayers ELSE onePlayer]
  /\ Goto(u, "try")
  /\ UNCHANGED <<redis, lock, roomList, op, room, tier, attempt, ret, client, starts,
                 forced>>

\* the next room of the shuffled list
TryListed(u, r) ==
  /\ pc[u] = "try"
  /\ r \in todo[u]
  /\ room' = [room EXCEPT ![u] = r]
  /\ todo' = [todo EXCEPT ![u] = @ \ {r}]
  /\ Goto(u, "joinLock")
  /\ UNCHANGED <<redis, lock, roomList, op, tier, attempt, ret, client, starts, forced>>

ListExhausted(u) ==
  /\ pc[u] = "try"
  /\ todo[u] = {}
  /\ tier[u] \in {"two", "one"}
  /\ tier' = [tier EXCEPT ![u] = IF @ = "two" THEN "one" ELSE "new"]
  /\ Goto(u, IF tier[u] = "two" THEN "find" ELSE "try")
  /\ UNCHANGED <<redis, lock, roomList, op, room, todo, attempt, ret, client, starts,
                 forced>>

\* getRoomName: any name, drawn without looking whether the room exists
TryNew(u, r) ==
  /\ pc[u] = "try"
  /\ tier[u] \in {"new", "fallback"}
  /\ room' = [room EXCEPT ![u] = r]
  /\ Goto(u, "joinLock")
  /\ UNCHANGED <<redis, lock, roomList, op, todo, tier, attempt, ret, client, starts,
                 forced>>

\* a round of joinRoomWithoutLock that joined nothing
NextAttempt(u) == attempt[u] + 1
LastAttempt(u) == NextAttempt(u) = MaxAttempts

\* joinRoom returned false.  A manual join ends: its refusal carries no room
\* name, so readyForPlay("") finds nobody to tell.  The fallback of
\* joinRoomWithoutLock does not look at the result.
Refused(u) ==
  /\ pc[u] = "refused"
  /\ \/ op[u] = "manual" /\ Return(u)
     \/ /\ op[u] = "auto" /\ tier[u] \in {"two", "one"}
        /\ Goto(u, "try")
        /\ UNCHANGED local
     \/ /\ op[u] = "auto" /\ tier[u] = "new"
        /\ attempt' = [attempt EXCEPT ![u] = NextAttempt(u)]
        /\ tier' = [tier EXCEPT ![u] = IF LastAttempt(u) THEN "fallback" ELSE "two"]
        /\ Goto(u, IF LastAttempt(u) THEN "try" ELSE "find")
        /\ UNCHANGED <<op, room, todo, ret>>
     \/ /\ op[u] = "auto" /\ tier[u] = "fallback"
        /\ Goto(u, "joined")
        /\ UNCHANGED local
  /\ UNCHANGED <<redis, lock, roomList, client, starts, forced>>
-----------------------------------------------------------------------------
(* Room::joinRoom(userName, roomName) under the room lock.                 *)

\* ZCARD
JoinCount(u) ==
  /\ pc[u] = "joinCount"
  /\ IF Cardinality(zset[room[u]]) >= 3
     THEN Unlocking(u, "refused")
     ELSE Goto(u, "joinMove") /\ UNCHANGED ret
  /\ UNCHANGED <<redis, lock, roomList, op, room, todo, tier, attempt, client, starts,
                 forced>>

\* SMOVE takes the name out of OnePlayer
PromoteOne(r) == onePlayer \ {r}

\* the sets of room names after a player enters r; the tests in this order
MoveUp(r) ==
  \/ /\ Empty(r)
     /\ onePlayer' = onePlayer \cup {r}
     /\ UNCHANGED <<twoPlayers, threePlayers>>
  \/ /\ ~Empty(r) /\ r \in onePlayer
     /\ onePlayer' = PromoteOne(r)
     /\ twoPlayers' = twoPlayers \cup {r}
     /\ UNCHANGED threePlayers
  \/ /\ ~Empty(r) /\ r \notin onePlayer /\ r \in twoPlayers
     /\ twoPlayers' = twoPlayers \ {r}
     /\ threePlayers' = threePlayers \cup {r}
     /\ UNCHANGED onePlayer
  \/ /\ ~Empty(r) /\ r \notin onePlayer /\ r \notin twoPlayers
     /\ UNCHANGED <<onePlayer, twoPlayers, threePlayers>>

Joinable(r) == Empty(r) \/ r \in onePlayer \/ r \in twoPlayers

JoinMove(u) ==
  /\ pc[u] = "joinMove"
  /\ MoveUp(room[u])
  /\ IF Joinable(room[u])
     THEN Goto(u, "joinAdd") /\ UNCHANGED ret
     ELSE Unlocking(u, "refused")
  /\ UNCHANGED <<invalid, zset, players, lock, roomList, op, room, todo, tier, attempt,
                 client, starts, forced>>

\* ZADD, and HSET of a field only this user's handler touches
JoinAdd(u) ==
  /\ pc[u] = "joinAdd"
  /\ zset' = [zset EXCEPT ![room[u]] = @ \cup {u}]
  /\ players' = [players EXCEPT ![u] = room[u]]
  /\ forced' = [forced EXCEPT ![room[u]] = @ \ {u}]
  /\ Unlocking(u, "joined")
  /\ UNCHANGED <<onePlayer, twoPlayers, threePlayers, invalid, lock, roomList, op, room,
                 todo, tier, attempt, client, starts>>
-----------------------------------------------------------------------------
(* The rest of handleAddRoom, then readyForPlay.                           *)

\* UpdatePlayerScore: ZADD without the room lock
UpdatePlayerScore(u) ==
  /\ pc[u] = "joined"
  /\ zset' = [zset EXCEPT ![room[u]] = @ \cup {u}]
  /\ forced' = [forced EXCEPT ![room[u]] =
                  IF u \in zset[room[u]] THEN @ ELSE @ \cup {u}]
  /\ Goto(u, "addUser")
  /\ UNCHANGED <<onePlayer, twoPlayers, threePlayers, invalid, players, lock, roomList,
                 local, client, starts>>

AddUser(u) ==
  /\ pc[u] = "addUser"
  /\ roomList' = [roomList EXCEPT ![room[u]] = @ \cup {u}]
  /\ starts' = [starts EXCEPT ![room[u]] = IF u \in roomList[room[u]] THEN @ ELSE 0]
  /\ seat' = [seat EXCEPT ![u] = room[u]]
  /\ Goto(u, "respond")
  /\ UNCHANGED <<redis, lock, local, requests, forced>>

\* readyForPlay(roomName): tells everyone in the room, starts a full one
ReadyForPlay(u) ==
  /\ pc[u] = "respond"
  /\ starts' = [starts EXCEPT ![room[u]] =
                  IF Cardinality(roomList[room[u]]) = 3 THEN @ + 1 ELSE @]
  /\ Return(u)
  /\ UNCHANGED <<redis, lock, roomList, seat, requests, forced>>

-----------------------------------------------------------------------------
Work(u) ==
  \/ Acquire(u, "leaveLock", "leaveMove")
  \/ GiveUp(u, "leaveLock", "left")
  \/ LeaveMove(u)
  \/ LeaveRem(u)
  \/ LeaveCount(u)
  \/ LeaveDel(u)
  \/ RemovePlayer(u)
  \/ FindRooms(u)
  \/ \E r \in Rooms : TryListed(u, r) \/ TryNew(u, r)
  \/ ListExhausted(u)
  \/ Acquire(u, "joinLock", "joinCount")
  \/ GiveUp(u, "joinLock", "refused")
  \/ JoinCount(u)
  \/ JoinMove(u)
  \/ JoinAdd(u)
  \/ ReleaseGet(u)
  \/ ReleaseDel(u)
  \/ Refused(u)
  \/ UpdatePlayerScore(u)
  \/ AddUser(u)
  \/ ReadyForPlay(u)

Ask(u) ==
  \/ AutoRoom(u)
  \/ \E r \in Rooms : ManualRoom(u, r)
  \/ LeaveRoom(u)

Next == \E u \in Users : Ask(u) \/ Work(u)

\* no lock outlives its time to live: every critical section ends within 3s
Spec == Init /\ [][Next]_vars

\* a worker thread that has a request keeps running it
FairSpec == Spec /\ \A u \in Users : WF_vars(Work(u))
-----------------------------------------------------------------------------
(* Properties.                                                             *)

\* Every variable keeps its type; attempt stays within MAX_ATTEMPTS
\* (joinRoomWithoutLock leaves its loop).
TypeOK ==
  /\ onePlayer \subseteq Rooms /\ twoPlayers \subseteq Rooms
  /\ threePlayers \subseteq Rooms /\ invalid \subseteq Rooms
  /\ zset \in [Rooms -> SUBSET Users]
  /\ players \in [Users -> Rooms \cup {NoRoom}]
  /\ lock \in [Rooms -> Users \cup {NoUser}]
  /\ roomList \in [Rooms -> SUBSET Users]
  /\ pc \in [Users -> PCs]
  /\ op \in [Users -> {"auto", "manual", "leave"}]
  /\ room \in [Users -> Rooms \cup {NoRoom}]
  /\ todo \in [Users -> SUBSET Rooms]
  /\ tier \in [Users -> {"two", "one", "new", "fallback"}]
  /\ attempt \in [Users -> 0..MaxAttempts]
  /\ ret \in [Users -> {"left", "refused", "joined"}]
  /\ seat \in [Users -> Rooms \cup {NoRoom}]
  /\ requests \in 0..MaxRequests
  /\ starts \in [Rooms -> Nat]
  /\ forced \in [Rooms -> SUBSET Users]

\* The room lock does what joinRoom's comment asks of it (Room.cpp:107): no
\* two handlers are at once inside joinRoom or leaveRoom of the same room.
MutualExclusion ==
  \A u, v \in Users :
    (u # v /\ pc[u] \in Critical /\ pc[v] \in Critical) => room[u] # room[v]

\* The members of r who came in through joinRoom.
Seated(r) == zset[r] \ forced[r]

\* Whatever order players join and leave in, a room never seats more than
\* three, and a room that automatic matching will offer as a one- or
\* two-player room never holds more players than that: stale names in the
\* sets OnePlayer and TwoPlayers (leaveRoom does not remove them) can only
\* promise too many players, never hide one.
CategoryBound ==
  \A r \in Rooms :
    /\ Cardinality(Seated(r)) <= 3
    /\ (LockFree(r) /\ r \in onePlayer)  => Cardinality(Seated(r)) <= 1
    /\ (LockFree(r) /\ r \in twoPlayers) => Cardinality(Seated(r)) <= 2

\* A room whose party of three broke up (leaveRoom moved it to Invalid)
\* seats nobody new until it has emptied.
BrokenRoomStaysClosed ==
  [][\A r \in invalid : Seated(r)' \subseteq Seated(r)]_vars

\* A user that was told it is in a room has its callback in RoomList and is
\* a member of the Redis room: no other player's leaveRoom deletes it.  The
\* exception is a user the fallback of joinRoomWithoutLock put in unlocked.
SeatAgreement ==
  \A u \in Users : seat[u] # NoRoom =>
    /\ u \in roomList[seat[u]]
    /\ u \in zset[seat[u]] \cup forced[seat[u]]

\* Every request ends: joinRoomWithoutLock does not go round for ever,
\* whatever the other players do to the rooms it tries.
RequestsEnd == \A u \in Users : pc[u] # "idle" ~> pc[u] = "idle"

\* What README.md:14 says the distributed lock is for: joining is free of
\* races, so three players who fill a room start one game.
StartedOnce == \A r \in Rooms : starts[r] <= 1
=============================================================================
