--------------------------- MODULE RoomMatchProofs ---------------------------
(***************************************************************************)
(* Proofs about RoomMatch for every set of users and rooms and every bound,*)
(* as long as no lock outlives its time to live, as Spec has it.           *)
(***************************************************************************)
EXTENDS RoomMatch, FiniteSetTheorems, TLAPS

\* Outside these places the handler has chosen a room.
RoomChosen == \A u \in Users : pc[u] \notin {"idle", "find", "try"} => room[u] \in Rooms

\* The loop of joinRoomWithoutLock has rounds left until it falls back.
RoundsLeft == \A u \in Users : tier[u] # "fallback" => attempt[u] < MaxAttempts

TypeInv == TypeOK /\ RoomChosen /\ RoundsLeft

\* Whoever is between acquireLock and the DEL holds the lock.
HoldsLock == \A u \in Users : pc[u] \in Critical => lock[room[u]] = u

\* At the start nobody is anywhere.
LEMMA TypeInit == Init => TypeInv
  BY ConstantsAssumption
  DEF Init, TypeInv, TypeOK, RoomChosen, RoundsLeft, PCs, Critical, JoinSteps, LeaveSteps

\* Every step of a handler keeps the types.
LEMMA TypeStep == TypeInv /\ [Next]_vars => TypeInv'
<1> SUFFICES ASSUME TypeInv, [Next]_vars PROVE TypeInv'
  OBVIOUS
<1> USE ConstantsAssumption DEF TypeInv, TypeOK, RoomChosen, RoundsLeft, PCs, Critical,
      JoinSteps, LeaveSteps, redis, local, client, Goto, Return, Unlocking
<1>1. ASSUME NEW u \in Users, AutoRoom(u) PROVE TypeInv'
  BY <1>1 DEF AutoRoom, Request
<1>2. ASSUME NEW u \in Users, NEW r \in Rooms, ManualRoom(u, r) PROVE TypeInv'
  BY <1>2 DEF ManualRoom, Request
<1>3. ASSUME NEW u \in Users, LeaveRoom(u) PROVE TypeInv'
  BY <1>3 DEF LeaveRoom, Request
<1>4. ASSUME NEW u \in Users, Acquire(u, "leaveLock", "leaveMove") PROVE TypeInv'
  BY <1>4 DEF Acquire
<1>5. ASSUME NEW u \in Users, GiveUp(u, "leaveLock", "left") PROVE TypeInv'
  BY <1>5 DEF GiveUp
<1>6. ASSUME NEW u \in Users, LeaveMove(u) PROVE TypeInv'
  BY <1>6 DEF LeaveMove
<1>7. ASSUME NEW u \in Users, LeaveRem(u) PROVE TypeInv'
  BY <1>7 DEF LeaveRem
<1>8. ASSUME NEW u \in Users, LeaveCount(u) PROVE TypeInv'
  BY <1>8 DEF LeaveCount
<1>9. ASSUME NEW u \in Users, LeaveDel(u) PROVE TypeInv'
  BY <1>9 DEF LeaveDel
<1>10. ASSUME NEW u \in Users, RemovePlayer(u) PROVE TypeInv'
  <2>1. CASE op[u] = "leave"
    BY <1>10, <2>1, SMTT(60) DEF RemovePlayer
  <2>2. CASE op[u] = "auto"
    BY <1>10, <2>2 DEF RemovePlayer
  <2>3. CASE op[u] = "manual"
    BY SMTT(60), <1>10, <2>3 DEF RemovePlayer
  <2> QED
    BY <2>1, <2>2, <2>3
<1>11. ASSUME NEW u \in Users, FindRooms(u) PROVE TypeInv'
  BY <1>11 DEF FindRooms
<1>12. ASSUME NEW u \in Users, NEW r \in Rooms, TryListed(u, r) PROVE TypeInv'
  BY <1>12 DEF TryListed
<1>13. ASSUME NEW u \in Users, NEW r \in Rooms, TryNew(u, r) PROVE TypeInv'
  BY <1>13 DEF TryNew
<1>14. ASSUME NEW u \in Users, ListExhausted(u) PROVE TypeInv'
  BY <1>14 DEF ListExhausted
<1>15. ASSUME NEW u \in Users, Acquire(u, "joinLock", "joinCount") PROVE TypeInv'
  BY <1>15 DEF Acquire
<1>16. ASSUME NEW u \in Users, GiveUp(u, "joinLock", "refused") PROVE TypeInv'
  BY <1>16 DEF GiveUp
<1>17. ASSUME NEW u \in Users, JoinCount(u) PROVE TypeInv'
  BY <1>17 DEF JoinCount
<1>18. ASSUME NEW u \in Users, JoinMove(u) PROVE TypeInv'
  BY <1>18 DEF JoinMove, MoveUp, PromoteOne
<1>19. ASSUME NEW u \in Users, JoinAdd(u) PROVE TypeInv'
  BY <1>19 DEF JoinAdd
<1>20. ASSUME NEW u \in Users, ReleaseGet(u) PROVE TypeInv'
  BY <1>20 DEF ReleaseGet
<1>21. ASSUME NEW u \in Users, ReleaseDel(u) PROVE TypeInv'
  BY <1>21 DEF ReleaseDel
<1>22. ASSUME NEW u \in Users, Refused(u) PROVE TypeInv'
  <2>1. CASE op[u] = "manual"
    BY SMTT(60), <1>22, <2>1 DEF Refused
  <2>2. CASE op[u] = "auto" /\ tier[u] \in {"two", "one"}
    BY <1>22, <2>2 DEF Refused
  <2>3. CASE op[u] = "auto" /\ tier[u] = "new"
    <3>1. attempt[u] + 1 \in 0..MaxAttempts
      BY <2>3
    <3> QED
      BY SMTT(60), <1>22, <2>3, <3>1 DEF Refused, NextAttempt, LastAttempt
  <2>4. CASE op[u] = "auto" /\ tier[u] = "fallback"
    BY <1>22, <2>4 DEF Refused
  <2> QED
    BY <1>22, <2>1, <2>2, <2>3, <2>4 DEF Refused
<1>23. ASSUME NEW u \in Users, UpdatePlayerScore(u) PROVE TypeInv'
  BY <1>23 DEF UpdatePlayerScore
<1>24. ASSUME NEW u \in Users, AddUser(u) PROVE TypeInv'
  BY <1>24 DEF AddUser
<1>25. ASSUME NEW u \in Users, ReadyForPlay(u) PROVE TypeInv'
  BY <1>25 DEF ReadyForPlay
<1>26. CASE UNCHANGED vars
  BY <1>26 DEF vars
<1> QED
  BY <1>1, <1>2, <1>3, <1>4, <1>5, <1>6, <1>7, <1>8, <1>9, <1>10, <1>11, <1>12, <1>13,
     <1>14, <1>15, <1>16, <1>17, <1>18, <1>19, <1>20, <1>21, <1>22, <1>23, <1>24, <1>25,
     <1>26 DEF Next, Ask, Work
-----------------------------------------------------------------------------
(* Mutual exclusion.                                                       *)

\* A handler in its critical section keeps the lock until it releases it itself.
LEMMA HoldsStep == TypeInv /\ HoldsLock /\ [Next]_vars => HoldsLock'
<1> SUFFICES ASSUME TypeInv, HoldsLock, [Next]_vars, NEW v \in Users, pc'[v] \in Critical
             PROVE  lock'[room'[v]] = v
  BY DEF HoldsLock
<1> USE DEF TypeInv, TypeOK, RoomChosen, HoldsLock, Critical, JoinSteps, LeaveSteps,
      local, Goto, Return, Unlocking
<1>1. ASSUME NEW u \in Users, Ask(u) PROVE lock'[room'[v]] = v
  <2>1. ASSUME AutoRoom(u) PROVE lock'[room'[v]] = v
    BY <2>1 DEF AutoRoom, Request
  <2>2. ASSUME NEW r \in Rooms, ManualRoom(u, r) PROVE lock'[room'[v]] = v
    BY <2>2 DEF ManualRoom, Request
  <2>3. ASSUME LeaveRoom(u) PROVE lock'[room'[v]] = v
    BY <2>3 DEF LeaveRoom, Request
  <2> QED
    BY <1>1, <2>1, <2>2, <2>3 DEF Ask
<1>2. ASSUME NEW u \in Users, Acquire(u, "leaveLock", "leaveMove")
                              \/ Acquire(u, "joinLock", "joinCount")
      PROVE  lock'[room'[v]] = v
  BY <1>2, ConstantsAssumption DEF Acquire, LockFree
<1>3. ASSUME NEW u \in Users, GiveUp(u, "leaveLock", "left") \/ GiveUp(u, "joinLock", "refused")
      PROVE  lock'[room'[v]] = v
  BY <1>3 DEF GiveUp
<1>4. ASSUME NEW u \in Users, LeaveMove(u) \/ LeaveRem(u) \/ LeaveCount(u) \/ LeaveDel(u)
      PROVE  lock'[room'[v]] = v
  BY <1>4 DEF LeaveMove, LeaveRem, LeaveCount, LeaveDel
<1>5. ASSUME NEW u \in Users, RemovePlayer(u) PROVE lock'[room'[v]] = v
  BY <1>5 DEF RemovePlayer
<1>6. ASSUME NEW u \in Users, FindRooms(u) \/ ListExhausted(u) PROVE lock'[room'[v]] = v
  BY <1>6 DEF FindRooms, ListExhausted
<1>7. ASSUME NEW u \in Users, NEW r \in Rooms, TryListed(u, r) \/ TryNew(u, r)
      PROVE  lock'[room'[v]] = v
  BY <1>7 DEF TryListed, TryNew
<1>8. ASSUME NEW u \in Users, JoinCount(u) \/ JoinMove(u) \/ JoinAdd(u)
      PROVE  lock'[room'[v]] = v
  BY <1>8 DEF JoinCount, JoinMove, JoinAdd
<1>9. ASSUME NEW u \in Users, ReleaseGet(u) \/ ReleaseDel(u) PROVE lock'[room'[v]] = v
  BY <1>9 DEF ReleaseGet, ReleaseDel
<1>10. ASSUME NEW u \in Users, Refused(u) PROVE lock'[room'[v]] = v
  BY <1>10 DEF Refused
<1>11. ASSUME NEW u \in Users, UpdatePlayerScore(u) \/ AddUser(u) \/ ReadyForPlay(u)
       PROVE  lock'[room'[v]] = v
  BY <1>11 DEF UpdatePlayerScore, AddUser, ReadyForPlay
<1>12. CASE UNCHANGED vars
  BY <1>12 DEF vars
<1> QED
  BY <1>1, <1>2, <1>3, <1>4, <1>5, <1>6, <1>7, <1>8, <1>9, <1>10, <1>11, <1>12
  DEF Next, Work

\* The types are right in every reachable state.
THEOREM TypeCorrect == Spec => []TypeOK
<1>1. Spec => []TypeInv
  BY TypeInit, TypeStep, PTL DEF Spec
<1> QED
  BY <1>1, PTL DEF TypeInv

\* No two handlers are inside joinRoom or leaveRoom of one room.
THEOREM RoomLockExcludes == Spec => []MutualExclusion
<1>1. Init => HoldsLock
  BY DEF Init, HoldsLock, Critical, JoinSteps, LeaveSteps
<1>2. Spec => [](TypeInv /\ HoldsLock)
  BY <1>1, TypeInit, TypeStep, HoldsStep, PTL DEF Spec
<1>3. TypeInv /\ HoldsLock => MutualExclusion
  BY DEF HoldsLock, MutualExclusion
<1> QED
  BY <1>2, <1>3, PTL
-----------------------------------------------------------------------------
(* Capacity.  A player inside joinRoom whose room name has been moved up,  *)
(* but who has not been added yet, already counts.                         *)

Prospective(r) == Seated(r) \cup {u \in Users : pc[u] = "joinAdd" /\ room[u] = r}

CategoryInv ==
  \A r \in Rooms :
    /\ Cardinality(Prospective(r)) <= 3
    /\ r \in onePlayer  => Cardinality(Prospective(r)) <= 1
    /\ r \in twoPlayers => Cardinality(Prospective(r)) <= 2

\* A step adds nothing to what room r is worth.
NoGain(r) ==
  /\ Prospective(r)' \subseteq Prospective(r)
  /\ r \in onePlayer' => r \in onePlayer
  /\ r \in twoPlayers' => r \in twoPlayers

\* Sets of users are finite, and a bound on one bounds its subsets.
LEMMA UsersFinite == ASSUME NEW S \in SUBSET Users
                     PROVE  IsFiniteSet(S) /\ Cardinality(S) \in Nat
  BY FS_Subset, FS_CardinalityType, ConstantsAssumption

\* What bounds a set of users bounds its subsets.
LEMMA SmallerSet == ASSUME NEW S \in SUBSET Users, NEW T \in SUBSET S
                    PROVE  Cardinality(T) <= Cardinality(S)
  BY UsersFinite, FS_Subset

\* Only JoinMove makes a room's name worth more.
LEMMA GainStep ==
  ASSUME TypeInv, [Next]_vars, NEW r \in Rooms,
         ~ \E u \in Users : JoinMove(u) /\ room[u] = r
  PROVE  NoGain(r)
<1> USE DEF TypeInv, TypeOK, RoomChosen, NoGain, Prospective, Seated, redis, local, Goto,
      Return, Unlocking
<1>1. ASSUME NEW u \in Users, Ask(u) PROVE NoGain(r)
  <2>1. ASSUME AutoRoom(u) PROVE NoGain(r)
    BY <2>1 DEF AutoRoom, Request
  <2>2. ASSUME NEW q \in Rooms, ManualRoom(u, q) PROVE NoGain(r)
    BY <2>2 DEF ManualRoom, Request
  <2>3. ASSUME LeaveRoom(u) PROVE NoGain(r)
    BY <2>3 DEF LeaveRoom, Request
  <2> QED
    BY <1>1, <2>1, <2>2, <2>3 DEF Ask
<1>2. ASSUME NEW u \in Users, Acquire(u, "leaveLock", "leaveMove")
                              \/ Acquire(u, "joinLock", "joinCount")
      PROVE  NoGain(r)
  BY <1>2 DEF Acquire
<1>3. ASSUME NEW u \in Users, GiveUp(u, "leaveLock", "left") \/ GiveUp(u, "joinLock", "refused")
      PROVE  NoGain(r)
  BY <1>3 DEF GiveUp
<1>4. ASSUME NEW u \in Users, LeaveMove(u) \/ LeaveRem(u) \/ LeaveCount(u) \/ LeaveDel(u)
      PROVE  NoGain(r)
  BY <1>4 DEF LeaveMove, LeaveRem, LeaveCount, LeaveDel
<1>5. ASSUME NEW u \in Users, RemovePlayer(u) PROVE NoGain(r)
  BY <1>5 DEF RemovePlayer
<1>6. ASSUME NEW u \in Users, FindRooms(u) \/ ListExhausted(u) PROVE NoGain(r)
  BY <1>6 DEF FindRooms, ListExhausted
<1>7. ASSUME NEW u \in Users, NEW q \in Rooms, TryListed(u, q) \/ TryNew(u, q)
      PROVE  NoGain(r)
  BY <1>7 DEF TryListed, TryNew
<1>8. ASSUME NEW u \in Users, JoinCount(u) \/ JoinAdd(u) PROVE NoGain(r)
  BY <1>8 DEF JoinCount, JoinAdd
<1>9. ASSUME NEW u \in Users, JoinMove(u), room[u] # r PROVE NoGain(r)
  BY <1>9 DEF JoinMove, MoveUp, PromoteOne
<1>10. ASSUME NEW u \in Users, ReleaseGet(u) \/ ReleaseDel(u) PROVE NoGain(r)
  BY <1>10 DEF ReleaseGet, ReleaseDel
<1>11. ASSUME NEW u \in Users, Refused(u) PROVE NoGain(r)
  BY <1>11 DEF Refused
<1>12. ASSUME NEW u \in Users, UpdatePlayerScore(u) \/ AddUser(u) \/ ReadyForPlay(u)
       PROVE  NoGain(r)
  BY <1>12 DEF UpdatePlayerScore, AddUser, ReadyForPlay
<1>13. CASE UNCHANGED vars
  BY <1>13 DEF vars
<1> QED
  BY <1>1, <1>2, <1>3, <1>4, <1>5, <1>6, <1>7, <1>8, <1>9, <1>10, <1>11, <1>12, <1>13
  DEF Next, Work

\* JoinMove makes room for one more player, and only under the lock, so for
\* one at a time.
LEMMA JoinMoveStep ==
  ASSUME TypeInv, HoldsLock, CategoryInv, NEW r \in Rooms,
         NEW u \in Users, JoinMove(u), room[u] = r
  PROVE  /\ Cardinality(Prospective(r)') <= 3
         /\ r \in onePlayer'  => Cardinality(Prospective(r)') <= 1
         /\ r \in twoPlayers' => Cardinality(Prospective(r)') <= 2
<1> DEFINE P == Prospective(r)
           Q == Prospective(r)'
<1>1. P \in SUBSET Users /\ Cardinality(P) \in Nat
  BY UsersFinite DEF TypeInv, TypeOK, RoomChosen, JoinMove, Prospective, Seated
<1>2. Q \subseteq P \cup {u}
  BY DEF JoinMove, Prospective, Seated, Goto, Unlocking, TypeInv, TypeOK
<1>3. Cardinality(P \cup {u}) <= Cardinality(P) + 1 /\ Cardinality(P \cup {u}) \in Nat
  BY <1>1, UsersFinite, FS_AddElement
<1>4. Cardinality(Q) <= Cardinality(P) + 1 /\ Cardinality(Q) \in Nat
  BY <1>1, <1>2, <1>3, SmallerSet, UsersFinite
<1>5. ~Joinable(r) => Q \subseteq P /\ onePlayer' = onePlayer /\ twoPlayers' = twoPlayers
  BY DEF JoinMove, MoveUp, Joinable, Prospective, Seated, Goto, Unlocking, TypeInv, TypeOK
<1>6. CASE Empty(r)
  <2>1. \A v \in Users : pc[v] = "joinAdd" /\ room[v] = r => v = u
    BY DEF HoldsLock, JoinMove, Critical, JoinSteps
  <2>2. Q \subseteq {u}
    BY <1>6, <2>1, <1>2 DEF Prospective, Seated, Empty
  <2>3. Cardinality({u}) = 1
    BY FS_Singleton
  <2> QED
    BY <2>2, <2>3, <1>4, SmallerSet
<1>7. CASE ~Empty(r) /\ r \in onePlayer
  BY <1>1, <1>4, <1>7 DEF CategoryInv, JoinMove, MoveUp, PromoteOne
<1>8. CASE ~Empty(r) /\ r \notin onePlayer /\ r \in twoPlayers
  BY <1>1, <1>4, <1>8 DEF CategoryInv, JoinMove, MoveUp
<1>9. CASE ~Joinable(r)
  <2>1. Cardinality(Q) <= Cardinality(P)
    BY <1>1, <1>5, <1>9, SmallerSet
  <2> QED
    BY <1>1, <1>4, <1>5, <1>9, <2>1 DEF CategoryInv
<1> QED
  BY <1>6, <1>7, <1>8, <1>9 DEF Joinable

\* No step lets a room be offered for more seats than it has left.
LEMMA CategoryStep == TypeInv /\ HoldsLock /\ CategoryInv /\ [Next]_vars => CategoryInv'
<1> SUFFICES ASSUME TypeInv, HoldsLock, CategoryInv, [Next]_vars, NEW r \in Rooms
             PROVE  /\ Cardinality(Prospective(r)') <= 3
                    /\ r \in onePlayer'  => Cardinality(Prospective(r)') <= 1
                    /\ r \in twoPlayers' => Cardinality(Prospective(r)') <= 2
  BY DEF CategoryInv
<1>1. CASE \E u \in Users : JoinMove(u) /\ room[u] = r
  BY <1>1, JoinMoveStep
<1>2. CASE ~ \E u \in Users : JoinMove(u) /\ room[u] = r
  <2>1. NoGain(r)
    BY <1>2, GainStep
  <2>2. Prospective(r) \in SUBSET Users
    BY DEF Prospective, Seated, TypeInv, TypeOK
  <2>3. Cardinality(Prospective(r)') <= Cardinality(Prospective(r))
    BY <2>1, <2>2, SmallerSet DEF NoGain
  <2>4. Cardinality(Prospective(r)') \in Nat /\ Cardinality(Prospective(r)) \in Nat
    BY <2>1, <2>2, UsersFinite DEF NoGain
  <2> QED
    BY <2>1, <2>3, <2>4 DEF NoGain, CategoryInv
<1> QED
  BY <1>1, <1>2

\* A room never seats more than three, and never more than the set of room
\* names it is offered from says.
THEOREM RoomsStayWithinBounds == Spec => []CategoryBound
<1>1. Init => HoldsLock /\ CategoryInv
  <2>1. Init => \A r \in Rooms : Prospective(r) = {}
    BY DEF Init, Prospective, Seated
  <2>2. Cardinality({}) = 0
    BY FS_EmptySet
  <2>3. Init => CategoryInv
    BY <2>1, <2>2 DEF CategoryInv
  <2>4. Init => HoldsLock
    BY DEF Init, HoldsLock, Critical, JoinSteps, LeaveSteps
  <2> QED
    BY <2>3, <2>4
<1>2. Spec => [](TypeInv /\ HoldsLock /\ CategoryInv)
  BY <1>1, TypeInit, TypeStep, HoldsStep, CategoryStep, PTL DEF Spec
<1>3. TypeInv /\ CategoryInv => CategoryBound
  <2> SUFFICES ASSUME TypeInv, CategoryInv, NEW r \in Rooms
               PROVE  /\ Cardinality(Seated(r)) <= 3
                      /\ r \in onePlayer  => Cardinality(Seated(r)) <= 1
                      /\ r \in twoPlayers => Cardinality(Seated(r)) <= 2
    BY DEF CategoryBound
  <2>1. Prospective(r) \in SUBSET Users /\ Seated(r) \in SUBSET Prospective(r)
    BY DEF Prospective, Seated, TypeInv, TypeOK
  <2>2. /\ Cardinality(Seated(r)) <= Cardinality(Prospective(r))
        /\ Cardinality(Seated(r)) \in Nat /\ Cardinality(Prospective(r)) \in Nat
    BY <2>1, SmallerSet, UsersFinite
  <2> QED
    BY <2>2 DEF CategoryInv
<1> QED
  BY <1>2, <1>3, PTL
-----------------------------------------------------------------------------
(* Seats.  Only its own user leaves a place in a room: the DEL of another  *)
(* player's leaveRoom comes when nobody is seated there.                   *)

Present(u, r) == u \in zset[r] \cup forced[r]

SeatInv ==
  \A u \in Users :
    /\ seat[u] # NoRoom => /\ pc[u] \in {"respond", "idle"}
                           /\ u \in roomList[seat[u]]
                           /\ Present(u, seat[u])
    /\ pc[u] = "addUser" => Present(u, room[u])
    /\ pc[u] = "leaveDel" => Seated(room[u]) = {}

\* What SeatInv says of one user.
SeatOf(v) ==
  /\ seat[v] # NoRoom => /\ pc[v] \in {"respond", "idle"}
                         /\ v \in roomList[seat[v]]
                         /\ Present(v, seat[v])
  /\ pc[v] = "addUser" => Present(v, room[v])
  /\ pc[v] = "leaveDel" => Seated(room[v]) = {}

\* No step takes a user's seat away but the user's own leaving.
LEMMA SeatStep == TypeInv /\ HoldsLock /\ SeatInv /\ [Next]_vars => SeatInv'
<1> SUFFICES ASSUME TypeInv, HoldsLock, SeatInv, [Next]_vars, NEW v \in Users
             PROVE  SeatOf(v)'
  BY DEF SeatInv, SeatOf
<1> USE DEF TypeInv, TypeOK, RoomChosen, SeatInv, SeatOf, Present, Seated, redis, local,
      client, Goto, Return, Unlocking
<1>1. ASSUME NEW u \in Users, AutoRoom(u) PROVE SeatOf(v)'
  BY <1>1 DEF AutoRoom, Request
<1>2. ASSUME NEW u \in Users, NEW q \in Rooms, ManualRoom(u, q) PROVE SeatOf(v)'
  BY <1>2 DEF ManualRoom, Request
<1>3. ASSUME NEW u \in Users, LeaveRoom(u) PROVE SeatOf(v)'
  BY <1>3 DEF LeaveRoom, Request
<1>4. ASSUME NEW u \in Users, Acquire(u, "leaveLock", "leaveMove")
                              \/ Acquire(u, "joinLock", "joinCount")
      PROVE  SeatOf(v)'
  BY <1>4 DEF Acquire, LockFree
<1>5. ASSUME NEW u \in Users, GiveUp(u, "leaveLock", "left") \/ GiveUp(u, "joinLock", "refused")
      PROVE  SeatOf(v)'
  BY <1>5 DEF GiveUp
<1>6. ASSUME NEW u \in Users, LeaveMove(u) PROVE SeatOf(v)'
  BY <1>6 DEF LeaveMove
<1>7. ASSUME NEW u \in Users, LeaveRem(u) PROVE SeatOf(v)'
  BY <1>7 DEF LeaveRem
<1>8. ASSUME NEW u \in Users, LeaveCount(u) PROVE SeatOf(v)'
  <2>1. Deserted(room[u]) => Seated(room[u]) = {}
    BY <1>8, UsersFinite, FS_EmptySet DEF Deserted, LeaveCount
  <2> QED
    BY <1>8, <2>1 DEF LeaveCount
<1>9. ASSUME NEW u \in Users, LeaveDel(u) PROVE SeatOf(v)'
  BY <1>9 DEF LeaveDel
<1>10. ASSUME NEW u \in Users, RemovePlayer(u) PROVE SeatOf(v)'
  BY <1>10 DEF RemovePlayer
<1>11. ASSUME NEW u \in Users, FindRooms(u) \/ ListExhausted(u) PROVE SeatOf(v)'
  BY <1>11 DEF FindRooms, ListExhausted
<1>12. ASSUME NEW u \in Users, NEW q \in Rooms, TryListed(u, q) \/ TryNew(u, q)
      PROVE  SeatOf(v)'
  BY <1>12 DEF TryListed, TryNew
<1>13. ASSUME NEW u \in Users, JoinCount(u) PROVE SeatOf(v)'
  BY <1>13 DEF JoinCount
<1>14. ASSUME NEW u \in Users, JoinMove(u) PROVE SeatOf(v)'
  BY <1>14 DEF JoinMove, MoveUp, PromoteOne, Joinable
<1>15. ASSUME NEW u \in Users, JoinAdd(u) PROVE SeatOf(v)'
  <2>1. v # u /\ pc[v] = "leaveDel" => room[v] # room[u]
    BY <1>15 DEF JoinAdd, HoldsLock, Critical, JoinSteps, LeaveSteps
  <2> QED
    BY <1>15, <2>1 DEF JoinAdd
<1>16. ASSUME NEW u \in Users, ReleaseGet(u) \/ ReleaseDel(u) PROVE SeatOf(v)'
  BY <1>16 DEF ReleaseGet, ReleaseDel
<1>17. ASSUME NEW u \in Users, Refused(u) PROVE SeatOf(v)'
  BY <1>17 DEF Refused
<1>18. ASSUME NEW u \in Users, UpdatePlayerScore(u) PROVE SeatOf(v)'
  BY <1>18 DEF UpdatePlayerScore
<1>19. ASSUME NEW u \in Users, AddUser(u) PROVE SeatOf(v)'
  BY <1>19 DEF AddUser
<1>20. ASSUME NEW u \in Users, ReadyForPlay(u) PROVE SeatOf(v)'
  BY <1>20 DEF ReadyForPlay
<1>21. CASE UNCHANGED vars
  BY <1>21 DEF vars
<1> QED
  BY <1>1, <1>2, <1>3, <1>4, <1>5, <1>6, <1>7, <1>8, <1>9, <1>10, <1>11, <1>12, <1>13,
     <1>14, <1>15, <1>16, <1>17, <1>18, <1>19, <1>20, <1>21
  DEF Next, Ask, Work

\* Being told that one is in a room is right until one leaves it.
THEOREM SeatsAgree == Spec => []SeatAgreement
<1>1. Init => HoldsLock /\ SeatInv
  BY DEF Init, SeatInv, Seated, Present, HoldsLock, Critical, JoinSteps, LeaveSteps
<1>2. Spec => [](TypeInv /\ HoldsLock /\ SeatInv)
  BY <1>1, TypeInit, TypeStep, HoldsStep, SeatStep, PTL DEF Spec
<1>3. SeatInv => SeatAgreement
  BY DEF SeatInv, SeatAgreement, Present
<1> QED
  BY <1>2, <1>3, PTL
-----------------------------------------------------------------------------
(* Broken-up rooms.                                                        *)

\* The two classes of a room that was full share no name with the others.
Disjoint == /\ \A r \in invalid : r \notin onePlayer \cup twoPlayers \cup threePlayers
            /\ \A r \in threePlayers : r \notin onePlayer \cup twoPlayers

\* A name in Invalid outlives its room only inside leaveRoom.
Emptying == \A r \in invalid :
              Empty(r) => \E w \in Users : /\ pc[w] \in {"leaveCount", "leaveDel"}
                                           /\ room[w] = r

Populated == \A r \in threePlayers : ~Empty(r)

\* What the holder of the room lock knows after its first steps.
Known == \A w \in Users :
           /\ pc[w] \in {"leaveRem", "leaveCount", "leaveDel"} => room[w] \notin threePlayers
           /\ pc[w] = "joinAdd" => room[w] \notin invalid

ClosedInv == Disjoint /\ Emptying /\ Populated /\ Known

\* No step but the last one's leaving reopens a room that is closed.
LEMMA ClosedStep == TypeInv /\ HoldsLock /\ ClosedInv /\ [Next]_vars => ClosedInv'
<1> SUFFICES ASSUME TypeInv, HoldsLock, ClosedInv, [Next]_vars
             PROVE  ClosedInv'
  OBVIOUS
<1> USE DEF TypeInv, TypeOK, RoomChosen, ClosedInv, Disjoint, Emptying, Populated, Known,
      Empty, redis, local, Goto, Return, Unlocking
<1>1. ASSUME NEW u \in Users, AutoRoom(u) PROVE ClosedInv'
  BY <1>1 DEF AutoRoom, Request
<1>2. ASSUME NEW u \in Users, NEW q \in Rooms, ManualRoom(u, q) PROVE ClosedInv'
  BY <1>2 DEF ManualRoom, Request
<1>3. ASSUME NEW u \in Users, LeaveRoom(u) PROVE ClosedInv'
  BY <1>3 DEF LeaveRoom, Request
<1>4. ASSUME NEW u \in Users, Acquire(u, "leaveLock", "leaveMove")
                              \/ Acquire(u, "joinLock", "joinCount")
      PROVE  ClosedInv'
  <2>1. Disjoint' /\ Populated'
    BY <1>4 DEF Acquire, LockFree
  <2>2. Emptying'
    BY <1>4 DEF Acquire, LockFree
  <2>3. Known'
    BY <1>4 DEF Acquire, LockFree
  <2> QED
    BY <2>1, <2>2, <2>3
<1>5. ASSUME NEW u \in Users, GiveUp(u, "leaveLock", "left") \/ GiveUp(u, "joinLock", "refused")
      PROVE  ClosedInv'
  BY <1>5 DEF GiveUp
<1>6. ASSUME NEW u \in Users, LeaveMove(u) PROVE ClosedInv'
  <2>1. Disjoint' /\ Populated'
    BY <1>6 DEF LeaveMove, HoldsLock, Critical, LeaveSteps, JoinSteps
  <2>2. Emptying'
    BY <1>6 DEF LeaveMove, HoldsLock, Critical, LeaveSteps, JoinSteps
  <2>3. Known'
    BY <1>6 DEF LeaveMove, HoldsLock, Critical, LeaveSteps, JoinSteps
  <2> QED
    BY <2>1, <2>2, <2>3
<1>7. ASSUME NEW u \in Users, LeaveRem(u) PROVE ClosedInv'
  BY <1>7 DEF LeaveRem
<1>8. ASSUME NEW u \in Users, LeaveCount(u) PROVE ClosedInv'
  <2>1. Disjoint' /\ Populated'
    BY <1>8 DEF LeaveCount, Deserted
  <2>2. Emptying'
    BY <1>8, UsersFinite, FS_EmptySet DEF LeaveCount, Deserted
  <2>3. Known'
    BY <1>8 DEF LeaveCount, Deserted
  <2> QED
    BY <2>1, <2>2, <2>3
<1>9. ASSUME NEW u \in Users, LeaveDel(u) PROVE ClosedInv'
  BY <1>9 DEF LeaveDel
<1>10. ASSUME NEW u \in Users, RemovePlayer(u) PROVE ClosedInv'
  <2>1. Disjoint' /\ Populated'
    BY <1>10 DEF RemovePlayer
  <2>2. Emptying'
    BY <1>10 DEF RemovePlayer
  <2>3. Known'
    BY <1>10 DEF RemovePlayer
  <2> QED
    BY <2>1, <2>2, <2>3
<1>11. ASSUME NEW u \in Users, FindRooms(u) \/ ListExhausted(u) PROVE ClosedInv'
  BY <1>11 DEF FindRooms, ListExhausted
<1>12. ASSUME NEW u \in Users, NEW q \in Rooms, TryListed(u, q) \/ TryNew(u, q)
      PROVE  ClosedInv'
  BY <1>12 DEF TryListed, TryNew
<1>13. ASSUME NEW u \in Users, JoinCount(u) PROVE ClosedInv'
  <2>1. Disjoint' /\ Populated'
    BY <1>13 DEF JoinCount
  <2>2. Emptying'
    BY <1>13 DEF JoinCount
  <2>3. Known'
    BY <1>13 DEF JoinCount
  <2> QED
    BY <2>1, <2>2, <2>3
<1>14. ASSUME NEW u \in Users, JoinMove(u) PROVE ClosedInv'
  <2>1. Disjoint' /\ Populated'
    BY <1>14 DEF JoinMove, MoveUp, PromoteOne, Joinable, HoldsLock, Critical,
      LeaveSteps, JoinSteps
  <2>2. Emptying'
    BY <1>14 DEF JoinMove, MoveUp, PromoteOne, Joinable, HoldsLock, Critical,
      LeaveSteps, JoinSteps
  <2>3. Known'
    BY <1>14 DEF JoinMove, MoveUp, PromoteOne, Joinable, HoldsLock, Critical,
      LeaveSteps, JoinSteps
  <2> QED
    BY <2>1, <2>2, <2>3
<1>15. ASSUME NEW u \in Users, JoinAdd(u) PROVE ClosedInv'
  BY <1>15 DEF JoinAdd
<1>16. ASSUME NEW u \in Users, ReleaseGet(u) \/ ReleaseDel(u) PROVE ClosedInv'
  BY <1>16 DEF ReleaseGet, ReleaseDel
<1>17. ASSUME NEW u \in Users, Refused(u) PROVE ClosedInv'
  <2>1. Disjoint' /\ Populated'
    BY <1>17 DEF Refused
  <2>2. Emptying'
    BY <1>17 DEF Refused
  <2>3. Known'
    BY <1>17 DEF Refused
  <2> QED
    BY <2>1, <2>2, <2>3
<1>18. ASSUME NEW u \in Users, UpdatePlayerScore(u) PROVE ClosedInv'
  BY <1>18 DEF UpdatePlayerScore
<1>19. ASSUME NEW u \in Users, AddUser(u) PROVE ClosedInv'
  BY <1>19 DEF AddUser
<1>20. ASSUME NEW u \in Users, ReadyForPlay(u) PROVE ClosedInv'
  BY <1>20 DEF ReadyForPlay
<1>21. CASE UNCHANGED vars
  BY <1>21 DEF vars
<1> QED
  BY <1>1, <1>2, <1>3, <1>4, <1>5, <1>6, <1>7, <1>8, <1>9, <1>10, <1>11, <1>12, <1>13,
     <1>14, <1>15, <1>16, <1>17, <1>18, <1>19, <1>20, <1>21
  DEF Next, Ask, Work

\* A room whose party broke up seats nobody new until it has emptied.
THEOREM BrokenRoomsStayClosed == Spec => BrokenRoomStaysClosed
<1>1. Init => HoldsLock /\ ClosedInv
  BY DEF Init, ClosedInv, Disjoint, Emptying, Populated, Known, HoldsLock, Critical,
    JoinSteps, LeaveSteps
<1>2. Spec => [](TypeInv /\ HoldsLock /\ ClosedInv)
  BY <1>1, TypeInit, TypeStep, HoldsStep, ClosedStep, PTL DEF Spec
<1>3. ASSUME TypeInv, ClosedInv, [Next]_vars
      PROVE  [\A r \in invalid : Seated(r)' \subseteq Seated(r)]_vars
  <2> SUFFICES ASSUME NEW r \in invalid PROVE Seated(r)' \subseteq Seated(r)
    OBVIOUS
  <2>1. r \in Rooms
    BY <1>3 DEF TypeInv, TypeOK
  <2>2. CASE \E u \in Users : JoinMove(u) /\ room[u] = r
    BY <1>3, <2>2 DEF JoinMove, Seated, TypeInv, TypeOK
  <2>3. CASE ~ \E u \in Users : JoinMove(u) /\ room[u] = r
    <3>1. NoGain(r)
      BY <1>3, <2>1, <2>3, GainStep
    <3>2. Prospective(r) = Seated(r)
      BY <1>3 DEF ClosedInv, Known, Prospective
    <3> QED
      BY <3>1, <3>2 DEF NoGain, Prospective
  <2> QED
    BY <2>2, <2>3
<1> QED
  BY <1>2, <1>3, PTL DEF Spec, BrokenRoomStaysClosed
=============================================================================
