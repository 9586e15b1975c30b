------------------------------ MODULE ScoreProofs -----------------------------
(***************************************************************************)
(* Proofs about Score for any number of players, rooms, calls, connections *)
(* and faults.                                                             *)
(***************************************************************************)
EXTENDS Score, FiniteSetTheorems, WellFoundedInduction, TLAPS

\* A transaction of the job is open.
Working(j) == pc[j] \in {"select", "update", "cache", "end"}

\* The players whose new score the job has written to MySQL, and what it wrote.
Done(j) == DOMAIN final[j] \cup (IF pc[j] = "cache" THEN {NextPlayer(j)} ELSE {})
Wrote(j, u) == IF u \in DOMAIN final[j] THEN final[j][u] ELSE NewScore(j)

\* What the score of u is once connection d has committed.
Pending(d, u) == IF u \in DOMAIN tx[d] THEN tx[d][u] ELSE score[u]

\* The job that holds the lock of a room is the one at work there, ...
LocksOK == \A j \in Job : Busy(j) <=> lock[RoomOf[j]] = j

\* ... and a job knows shares before, scores after a player's turn comes.
JobsOK == \A j \in Job :
  /\ ~Busy(j) => DOMAIN final[j] = {}
  /\ pc[j] \in {"idle", "done", "end", "tell", "release"} => DOMAIN gain[j] = {}
  /\ pc[j] \in {"lock", "select", "update", "cache"} => DOMAIN gain[j] # {}
  /\ DOMAIN gain[j] \cap DOMAIN final[j] = {}
  /\ ~ok[j] => "update" \in faults

\* A game that has a winner has three players.
OrderOK == \A r \in Room : won[r] # "none" => Cardinality(order[r]) = 3

\* What a connection has in its transaction a job at work on it has done.
DbOK == \A d \in Db :
  /\ (\A j \in Job : DbOf[j] = d => ~Working(j)) =>
        auto[d] /\ DOMAIN tx[d] = {} /\ DOMAIN view[d] = {}
  /\ \A u \in DOMAIN tx[d] : \E j \in Job : DbOf[j] = d /\ Working(j) /\ u \in Done(j)
  /\ ~mixed => \A j \in Job : DbOf[j] = d /\ Working(j) => ~auto[d]

\* What the history variables say of the present.
Apart ==
  /\ ~crossed => \A j, k \in Job :
       RoomOf[j] # RoomOf[k] /\ Busy(j) /\ Busy(k) => Settles(j) \cap Settles(k) = {}
  /\ ~mixed => \A j, k \in Job :
       RoomOf[j] # RoomOf[k] /\ Busy(j) /\ Busy(k) => DbOf[j] # DbOf[k]
  /\ ~strayed => \A j \in Job : Busy(j) => \A u \in Settles(j) :
       at[u] = "idle" /\ inside[u] /\ place[u] = RoomOf[j]

\* What a job has written will be there when its connection commits.
WroteInv ==
  ~crossed /\ (~mixed \/ faults = {}) =>
    \A j \in Job : Working(j) /\ ok[j] =>
      \A u \in Done(j) : Wrote(j, u) = Pending(DbOf[j], u)

\* What a job reads is what is committed: its connection reads nothing older, ...
ViewOK(j) ==
  \/ DOMAIN view[DbOf[j]] = {}
  \/ \A u \in Settles(j) : u \in DOMAIN view[DbOf[j]] /\ view[DbOf[j]][u] = score[u]

\* ... and what it has read is right unless the select failed.
CurrentOK(j) ==
  "select" \notin faults /\ pc[j] \in {"update", "cache"} => current[j] = score[NextPlayer(j)]

ReadInv == ~crossed /\ ~mixed => \A j \in Job : Working(j) => ViewOK(j) /\ CurrentOK(j)

\* By how much the job changes the score of u.
Change(j, u) == IF u \in DOMAIN final[j] THEN final[j][u] - score[u] ELSE gain[j][u]

IsSettlement(j, lord, farmers, stake) ==
  /\ lord \notin farmers /\ Cardinality(farmers) = 2 /\ Settles(j) = {lord} \cup farmers
  /\ Change(j, lord) = 2 * stake /\ \A u \in farmers : Change(j, u) = -stake

\* The shares of a job, done and to be done, are those of a landlord and two farmers.
Balanced(j) == \E lord \in User, farmers \in SUBSET User, stake \in {-1, 1} :
  IsSettlement(j, lord, farmers, stake)

Balances(j) ==
  pc[j] = "lock" \/ (Working(j) /\ ok[j] /\ ~crossed /\ ~mixed /\ "select" \notin faults)

BalanceInv == \A j \in Job : Balances(j) => Balanced(j)

\* What a job tells is committed.
ToldInv ==
  ~crossed /\ ~mixed /\ "commit" \notin faults =>
    \A j \in Job : pc[j] = "tell" => \A u \in DOMAIN final[j] : final[j][u] = score[u]

\* The sorted sets have the players of the rooms, ...
MembersCached == \A r \in Room : DOMAIN cache[r] = Members(r)

\* ... with the scores that the job at work has written, ...
WrittenCached == \A j \in Job : Working(j) =>
  \A u \in DOMAIN final[j] : cache[RoomOf[j]][u] = final[j][u]

\* ... or else those of MySQL; a player on the move takes his score with him,
\* or has none.
PlayerCached(u) ==
  /\ inside[u] /\ at[u] = "idle" /\ (\A j \in Job : Working(j) => u \notin Done(j)) =>
       cache[place[u]][u] = score[u]
  /\ at[u] \in {"load", "store"} => inside[u]
  /\ at[u] = "move" => carried[u] \in {0, score[u]}
  /\ at[u] = "store" => carried[u] = score[u]

CacheInv ==
  faults = {} /\ ~crossed /\ ~strayed =>
    MembersCached /\ WrittenCached /\ \A u \in User : PlayerCached(u)
-----------------------------------------------------------------------------
\* The helpers of the model.

\* A score is set or added.
LEMMA WithIs ==
  ASSUME NEW f, NEW u, NEW n
  PROVE  /\ DOMAIN With(f, u, n) = DOMAIN f \cup {u} /\ With(f, u, n)[u] = n
         /\ \A v \in DOMAIN f \ {u} : With(f, u, n)[v] = f[v]
         /\ Scores(f) /\ u \in User /\ n \in Int => Scores(With(f, u, n))
<1>1. /\ DOMAIN With(f, u, n) = DOMAIN f \cup {u} /\ With(f, u, n)[u] = n
      /\ \A v \in DOMAIN f \ {u} : With(f, u, n)[v] = f[v]
  BY DEF With
<1>2. ASSUME Scores(f), u \in User, n \in Int PROVE Scores(With(f, u, n))
  BY <1>2 DEF With, Scores
<1> QED BY <1>1, <1>2

\* A score is removed.
LEMMA RemovedIs ==
  ASSUME NEW f, NEW u
  PROVE  /\ DOMAIN Restrict(f, DOMAIN f \ {u}) = DOMAIN f \ {u}
         /\ \A v \in DOMAIN f \ {u} : Restrict(f, DOMAIN f \ {u})[v] = f[v]
         /\ Scores(f) => Scores(Restrict(f, DOMAIN f \ {u}))
BY DEF Restrict, Scores

\* What is empty is Empty.
LEMMA EmptyIs ==
  /\ DOMAIN Empty = {} /\ Scores(Empty)
  /\ \A f : Scores(f) => (f = Empty <=> DOMAIN f = {})
BY DEF Empty, Scores

\* One of several books is replaced.
LEMMA Replaced ==
  ASSUME NEW S, NEW f, ScoresOf(f, S), NEW x \in S, NEW g, Scores(g)
  PROVE  /\ ScoresOf([f EXCEPT ![x] = g], S) /\ [f EXCEPT ![x] = g][x] = g
         /\ \A y \in S \ {x} : [f EXCEPT ![x] = g][y] = f[y]
BY DEF ScoresOf

\* The first of some players is one of them: Nat is well-founded.
LEMMA MinIs ==
  ASSUME NEW S, S \subseteq User, S # {}
  PROVE  Min(S) \in S
<1> DEFINE R == {p \in Nat \X Nat : p[1] < p[2]}
<1>1. S \subseteq Nat
  BY ConstantsAssumption
<1>2. IsWellFoundedOn(R, Nat)
  BY NatLessThanWellFounded DEF OpToRel
<1> HIDE DEF R
<1>3. PICK x \in S : \A y \in S : ~(<<y, x>> \in R)
  BY <1>1, <1>2, WFMin
<1>4. \A y \in S : x <= y
  <2> SUFFICES ASSUME NEW y \in S, ~(x <= y) PROVE FALSE
    OBVIOUS
  <2>1. x \in Nat /\ y \in Nat /\ y < x
    BY <1>1
  <2>2. <<y, x>> \in Nat \X Nat /\ <<y, x>>[1] < <<y, x>>[2]
    BY <2>1
  <2>3. <<y, x>> \in R
    BY <2>2 DEF R
  <2> QED BY <1>3, <2>3
<1> QED BY <1>4 DEF Min

\* What a job does is done in the right order.
LEMMA NextIs ==
  ASSUME TypeOK, NEW j \in Job, DOMAIN gain[j] # {}
  PROVE  NextPlayer(j) \in DOMAIN gain[j] /\ NextPlayer(j) \in User
         /\ gain[j][NextPlayer(j)] \in {-2, -1, 1, 2} /\ NewScore(j) \in Int
<1>1. DOMAIN gain[j] \subseteq User
  BY DEF TypeOK, ScoresOf, Scores
<1>2. NextPlayer(j) \in DOMAIN gain[j]
  BY <1>1, MinIs DEF NextPlayer
<1>3. gain[j][NextPlayer(j)] \in {-2, -1, 1, 2}
  BY <1>2 DEF TypeOK, Range
<1> QED BY <1>1, <1>2, <1>3 DEF NewScore, TypeOK

\* A landlord who wins gets twice what each farmer pays, one who loses pays it.
LEMMA SharesAre ==
  \A r, u : Share(r, u) = IF won[r] = "lord" THEN IF u = Min(order[r]) THEN 2 ELSE -1
                         ELSE IF u = Min(order[r]) THEN -2 ELSE 1
BY DEF Share

-----------------------------------------------------------------------------
\* Types are kept by the players, ...
LEMMA TypePlayers ==
  ASSUME TypeOK, crossed' \in BOOLEAN, mixed' \in BOOLEAN, strayed' \in BOOLEAN,
         \/ \E r \in Room : NewGame(r)
         \/ \E u \in User : LeaveRoom(u) \/ AddRoom(u) \/ LoadScore(u) \/ StoreScore(u)
         \/ \E u \in User, r \in Room : MoveTo(u, r)
  PROVE  TypeOK'
<1>1. ASSUME NEW r \in Room, NewGame(r) PROVE TypeOK'
  <2>1. Members(r) \subseteq User /\ games' \in 0 .. MaxGames
    BY <1>1, ConstantsAssumption DEF NewGame, Members, TypeOK
  <2>2. order' \in [Room -> SUBSET User] /\ won' \in [Room -> {"none", "lord", "farmers"}]
    BY <1>1, <2>1, ConstantsAssumption DEF NewGame, TypeOK
  <2> QED BY <1>1, <2>1, <2>2 DEF NewGame, TypeOK, mysql, jobs
<1>2. ASSUME NEW u \in User, LeaveRoom(u) PROVE TypeOK'
  <2>1. place[u] \in Room /\ ScoresOf(cache, Room)
    BY DEF TypeOK
  <2>2. Scores(Restrict(cache[place[u]], DOMAIN cache[place[u]] \ {u}))
    BY <2>1, RemovedIs DEF ScoresOf
  <2>3. ScoresOf([cache EXCEPT ![place[u]] = Restrict(@, DOMAIN @ \ {u})], Room)
    BY <2>1, <2>2, Replaced
  <2>4. ScoresOf(cache', Room)
    BY <1>2, <2>3 DEF LeaveRoom
  <2> QED BY <1>2, <2>4 DEF LeaveRoom, TypeOK, mysql, jobs
<1>3. ASSUME NEW u \in User, AddRoom(u) PROVE TypeOK'
  <2>1. carried' \in [User -> Int]
    BY <1>3 DEF AddRoom, TypeOK, ScoresOf, Scores
  <2> QED BY <1>3, <2>1 DEF AddRoom, TypeOK, mysql, jobs
<1>4. ASSUME NEW u \in User, LoadScore(u) PROVE TypeOK'
  BY <1>4 DEF LoadScore, TypeOK, mysql, jobs, Fault
<1>5. ASSUME NEW u \in User, StoreScore(u) PROVE TypeOK'
  <2>1. place[u] \in Room /\ carried[u] \in Int
    BY DEF TypeOK
  <2>2. Scores(With(cache[place[u]], u, carried[u]))
    BY <2>1, WithIs DEF TypeOK, ScoresOf
  <2>3. ScoresOf([cache EXCEPT ![place[u]] = With(@, u, carried[u])], Room)
    BY <2>1, <2>2, Replaced DEF TypeOK
  <2>4. ScoresOf(cache', Room)
    BY <1>5, <2>3 DEF StoreScore, TypeOK
  <2>5. faults' \subseteq Faults /\ carried' \in [User -> Int] /\ at' \in [User -> {"idle", "move", "load", "store"}]
    BY <1>5 DEF StoreScore, Fault, TypeOK
  <2>6. UNCHANGED <<mysql, lock, place, inside, order, won, games, jobs>>
    BY <1>5 DEF StoreScore
  <2> QED BY <2>4, <2>5, <2>6 DEF TypeOK, mysql, jobs
<1>6. ASSUME NEW u \in User, NEW r \in Room, MoveTo(u, r) PROVE TypeOK'
  <2> DEFINE p == place[u]
             left == [cache EXCEPT ![p] = Restrict(cache[p], DOMAIN cache[p] \ {u})]
  <2>0. p \in Room /\ ScoresOf(cache, Room)
    BY DEF TypeOK
  <2>1. ScoresOf(left, Room)
    <3> HIDE DEF p
    <3>1. Scores(Restrict(cache[p], DOMAIN cache[p] \ {u}))
      BY <2>0, RemovedIs DEF ScoresOf
    <3> QED BY <2>0, <3>1, Replaced
  <2>2. cache' = [left EXCEPT ![r] = With(left[r], u, 0)]
    BY <1>6 DEF MoveTo
  <2> HIDE DEF left, p
  <2>3. Scores(With(left[r], u, 0))
    <3>1. Scores(left[r])
      BY <2>1 DEF ScoresOf
    <3>2. 0 \in Int
      OBVIOUS
    <3> HIDE DEF left
    <3> QED BY <3>1, <3>2, WithIs
  <2>4. ScoresOf([left EXCEPT ![r] = With(left[r], u, 0)], Room)
    BY <2>1, <2>3, Replaced
  <2>5. ScoresOf(cache', Room)
    BY <2>2, <2>4
  <2> QED BY <1>6, <2>5 DEF MoveTo, TypeOK, mysql, jobs
<1> QED BY <1>1, <1>2, <1>3, <1>4, <1>5, <1>6


\* A job at a player's turn has a player.
InTurn == \A j \in Job : pc[j] \in {"update", "cache"} => DOMAIN gain[j] # {}

\* ... by the jobs, ...
LEMMA TypeJobs ==
  ASSUME TypeOK, InTurn, crossed' \in BOOLEAN, mixed' \in BOOLEAN, strayed' \in BOOLEAN,
         NEW j \in Job, Begin(j) \/ JobStep(j)
  PROVE  TypeOK'
<1> DEFINE d == DbOf[j]
           r == RoomOf[j]
           u == NextPlayer(j)
<1>1. d \in Db /\ r \in Room
  BY ConstantsAssumption
<1>2. ScoresOf(tx, Db) /\ ScoresOf(view, Db) /\ ScoresOf(cache, Room) /\ ScoresOf(gain, Job)
      /\ ScoresOf(final, Job)
  BY DEF TypeOK
<1>3. /\ Scores(tx[d]) /\ Scores(view[d]) /\ Scores(cache[r]) /\ Scores(gain[j]) /\ Scores(final[j])
      /\ Scores(Empty)
  BY <1>1, <1>2, EmptyIs DEF ScoresOf
<1>4. ASSUME DOMAIN gain[j] # {}
      PROVE  u \in DOMAIN gain[j] /\ u \in User /\ gain[j][u] \in {-2, -1, 1, 2} /\ NewScore(j) \in Int
  BY <1>4, NextIs
<1> HIDE DEF d, r, u
<1>0. ASSUME UNCHANGED rooms,
             score' \in [User -> Int], ScoresOf(tx', Db), ScoresOf(view', Db), auto' \in [Db -> BOOLEAN],
             ScoresOf(cache', Room), lock' \in [Room -> Job \cup {NoJob}],
             \E there \in {"lock", "select", "update", "cache", "end", "tell", "release", "done"} :
               Goto(j, there),
             ScoresOf(gain', Job), \A k \in Job : Range(gain'[k]) \subseteq {-2, -1, 1, 2},
             ScoresOf(final', Job), current' \in [Job -> Int], ok' \in [Job -> BOOLEAN],
             faults' \subseteq Faults
      PROVE  TypeOK'
  <2>1. pc' \in [Job -> {"idle", "lock", "select", "update", "cache", "end", "tell", "release", "done"}]
    BY <1>0 DEF Goto, TypeOK
  <2> QED BY <1>0, <2>1 DEF TypeOK, rooms
<1>5. CASE Begin(j)
  <2> DEFINE g == [v \in order[r] |-> Share(r, v)]
  <2>1. gain' = [gain EXCEPT ![j] = g] /\ Goto(j, "lock")
        /\ UNCHANGED <<mysql, cache, lock, rooms, current, ok, final, faults>>
    BY <1>5 DEF Begin, r
  <2>2. \A v \in order[r] : Share(r, v) \in {-2, -1, 1, 2}
    BY SharesAre
  <2>3. order[r] \subseteq User
    BY <1>1 DEF TypeOK
  <2>4. Scores(g) /\ Range(g) \subseteq {-2, -1, 1, 2}
    <3>1. DOMAIN g = order[r] /\ g = [v \in DOMAIN g |-> Share(r, v)]
      OBVIOUS
    <3>2. \A v \in DOMAIN g : g[v] \in {-2, -1, 1, 2}
      BY <2>2
    <3> HIDE DEF g
    <3>3. g \in [DOMAIN g -> {-2, -1, 1, 2}]
      BY <3>1, <3>2
    <3> QED BY <2>3, <3>1, <3>3 DEF Scores, Range
  <2> HIDE DEF g
  <2>5. ScoresOf([gain EXCEPT ![j] = g], Job) /\ [gain EXCEPT ![j] = g][j] = g
        /\ \A k \in Job \ {j} : [gain EXCEPT ![j] = g][k] = gain[k]
    BY <1>2, <2>4, Replaced
  <2>6. ScoresOf(gain', Job) /\ \A k \in Job : Range(gain'[k]) \subseteq {-2, -1, 1, 2}
    BY <2>1, <2>4, <2>5 DEF TypeOK
  <2> QED BY <1>0, <2>1, <2>6 DEF TypeOK, mysql
<1>6. CASE AcquireLock(j)
  <2>1. /\ Goto(j, "select") \/ Goto(j, "done")
        /\ \/ lock' = [lock EXCEPT ![r] = j] /\ auto' = [auto EXCEPT ![d] = FALSE] /\ gain' = gain
           \/ gain' = [gain EXCEPT ![j] = Empty] /\ lock' = lock /\ auto' = auto
        /\ UNCHANGED <<score, tx, view, cache, rooms, current, ok, final, faults>>
    BY <1>6 DEF AcquireLock, r, d
  <2>2. ScoresOf([gain EXCEPT ![j] = Empty], Job) /\ [gain EXCEPT ![j] = Empty][j] = Empty
        /\ \A k \in Job \ {j} : [gain EXCEPT ![j] = Empty][k] = gain[k]
    BY <1>2, <1>3, Replaced
  <2>3. Range(Empty) \subseteq {-2, -1, 1, 2}
    BY EmptyIs DEF Range
  <2>4. ScoresOf(gain', Job) /\ \A k \in Job : Range(gain'[k]) \subseteq {-2, -1, 1, 2}
    BY <2>1, <2>2, <2>3 DEF TypeOK
  <2>5. lock' \in [Room -> Job \cup {NoJob}]
    BY <2>1 DEF TypeOK
  <2>6. auto' \in [Db -> BOOLEAN]
    BY <2>1 DEF TypeOK
  <2> QED BY <1>0, <2>1, <2>4, <2>5, <2>6 DEF TypeOK
<1>7. CASE SelectScore(j)
  <2>1. DOMAIN gain[j] # {}
    BY <1>3, <1>7, EmptyIs DEF SelectScore
  <2>2. Reads(d)[u] \in Int
    BY <1>3, <1>4, <2>1 DEF Reads, Scores, TypeOK
  <2>3. /\ Goto(j, "update") /\ faults' \in SUBSET Faults
        /\ current' \in {[current EXCEPT ![j] = Reads(d)[u]], [current EXCEPT ![j] = 0]}
        /\ view' \in {view, [view EXCEPT ![d] = view[d]], [view EXCEPT ![d] = score]}
        /\ UNCHANGED <<score, tx, auto, cache, lock, rooms, gain, ok, final>>
    BY <1>7 DEF SelectScore, Fault, d, u, TypeOK
  <2>4. Scores(score)
    BY DEF Scores, TypeOK
  <2>5. ScoresOf([view EXCEPT ![d] = view[d]], Db) /\ ScoresOf([view EXCEPT ![d] = score], Db)
    BY <1>1, <1>2, <1>3, <2>4, Replaced
  <2>6. ScoresOf(view', Db)
    BY <1>2, <2>3, <2>5
  <2>7. current' \in [Job -> Int]
    BY <2>2, <2>3 DEF TypeOK
  <2> QED BY <1>0, <2>3, <2>6, <2>7 DEF TypeOK
<1>8. CASE UpdateScore(j)
  <2>1. /\ Goto(j, "cache") /\ faults' \in SUBSET Faults
        /\ \/ score' = [score EXCEPT ![u] = NewScore(j)] /\ tx' = tx
           \/ tx' = [tx EXCEPT ![d] = With(tx[d], u, NewScore(j))] /\ score' = score
           \/ tx' = tx /\ score' = score
        /\ ok' \in {ok, [ok EXCEPT ![j] = FALSE]}
        /\ UNCHANGED <<view, auto, cache, lock, rooms, gain, current, final>>
    BY <1>8 DEF UpdateScore, Fault, d, u, TypeOK
  <2>2. DOMAIN gain[j] # {}
    BY <1>8 DEF UpdateScore, At, InTurn
  <2>3. Scores(With(tx[d], u, NewScore(j)))
    BY <1>3, <1>4, <2>2, WithIs
  <2>4. ScoresOf([tx EXCEPT ![d] = With(tx[d], u, NewScore(j))], Db)
    BY <1>1, <1>2, <2>3, Replaced
  <2>5. score \in [User -> Int] /\ [score EXCEPT ![u] = NewScore(j)] \in [User -> Int]
    BY <1>4, <2>2 DEF TypeOK
  <2>6. score' \in [User -> Int] /\ ScoresOf(tx', Db)
    BY <1>2, <2>1, <2>4, <2>5
  <2>7. ok' \in [Job -> BOOLEAN]
    BY <2>1 DEF TypeOK
  <2> QED BY <1>0, <2>1, <2>6, <2>7 DEF TypeOK
<1>9. CASE UpdatePlayerScore(j)
  <2> DEFINE g == Restrict(gain[j], DOMAIN gain[j] \ {u})
             f == With(final[j], u, NewScore(j))
             c == With(cache[r], u, NewScore(j))
  <2>1. /\ Goto(j, "end") \/ Goto(j, "select")
        /\ gain' = [gain EXCEPT ![j] = g] /\ final' = [final EXCEPT ![j] = f]
        /\ cache' \in {cache, [cache EXCEPT ![r] = c]} /\ faults' \in SUBSET Faults
        /\ UNCHANGED <<mysql, lock, rooms, current, ok>>
    BY <1>9 DEF UpdatePlayerScore, Fault, r, u, TypeOK
  <2>2. DOMAIN gain[j] # {}
    BY <1>9 DEF UpdatePlayerScore, At, InTurn
  <2>3. Scores(f) /\ Scores(c)
    BY <1>3, <1>4, <2>2, WithIs
  <2>4. Scores(g) /\ DOMAIN g \subseteq DOMAIN gain[j] /\ \A v \in DOMAIN g : g[v] = gain[j][v]
    BY <1>3, RemovedIs
  <2> HIDE DEF f, c, g
  <2>5. Range(g) \subseteq Range(gain[j])
    BY <2>4 DEF Range
  <2>6. /\ ScoresOf([gain EXCEPT ![j] = g], Job) /\ [gain EXCEPT ![j] = g][j] = g
        /\ \A k \in Job \ {j} : [gain EXCEPT ![j] = g][k] = gain[k]
    BY <1>2, <2>4, Replaced
  <2>7. ScoresOf([final EXCEPT ![j] = f], Job) /\ ScoresOf([cache EXCEPT ![r] = c], Room)
    BY <1>1, <1>2, <2>3, Replaced
  <2>8. ScoresOf(gain', Job) /\ \A k \in Job : Range(gain'[k]) \subseteq {-2, -1, 1, 2}
    BY <2>1, <2>5, <2>6 DEF TypeOK
  <2>9. ScoresOf(final', Job) /\ ScoresOf(cache', Room)
    BY <1>2, <2>1, <2>7
  <2> QED BY <1>0, <2>1, <2>8, <2>9 DEF TypeOK, mysql
<1>10. ASSUME NEW keep \in BOOLEAN, EndTransaction(d, keep), Goto(j, "tell") \/ Goto(j, "release"),
              UNCHANGED <<cache, lock, rooms, gain, current, ok, final>>, faults' \subseteq Faults
       PROVE  TypeOK'
  <2>1. ScoresOf([tx EXCEPT ![d] = Empty], Db) /\ ScoresOf([view EXCEPT ![d] = Empty], Db)
    BY <1>1, <1>2, <1>3, Replaced
  <2>2. ScoresOf(tx', Db) /\ ScoresOf(view', Db) /\ auto' \in [Db -> BOOLEAN]
    BY <1>10, <2>1 DEF EndTransaction, TypeOK
  <2>3. score' \in [User -> Int]
    BY <1>3, <1>10 DEF EndTransaction, TypeOK, Scores
  <2> QED BY <1>0, <1>10, <2>2, <2>3 DEF TypeOK
<1>11. CASE Commit(j) \/ Rollback(j)
  <2>1. /\ EndTransaction(d, TRUE) \/ EndTransaction(d, FALSE)
        /\ Goto(j, "tell") \/ Goto(j, "release")
        /\ faults' \subseteq Faults
        /\ UNCHANGED <<cache, lock, rooms, gain, current, ok, final>>
    BY <1>11 DEF Commit, Rollback, Fault, d, TypeOK
  <2> QED BY <1>10, <2>1
<1>12. CASE ReleaseLock(j)
  <2>1. /\ Goto(j, "done") /\ lock' = [lock EXCEPT ![r] = NoJob]
        /\ final' = [final EXCEPT ![j] = Empty] /\ current' = [current EXCEPT ![j] = 0]
        /\ ok' = [ok EXCEPT ![j] = TRUE] /\ UNCHANGED <<mysql, cache, rooms, gain, faults>>
    BY <1>12 DEF ReleaseLock, r
  <2>2. ScoresOf([final EXCEPT ![j] = Empty], Job)
    BY <1>2, <1>3, Replaced
  <2>3. ScoresOf(final', Job) /\ lock' \in [Room -> Job \cup {NoJob}] /\ current' \in [Job -> Int]
        /\ ok' \in [Job -> BOOLEAN]
    BY <1>1, <2>1, <2>2 DEF TypeOK
  <2> QED BY <1>0, <2>1, <2>3 DEF TypeOK, mysql
<1> QED BY <1>5, <1>6, <1>7, <1>8, <1>9, <1>11, <1>12 DEF JobStep

\* A job works for itself.
LEMMA JobAlone ==
  ASSUME TypeOK, NEW j \in Job, Begin(j) \/ JobStep(j)
  PROVE  /\ \A k \in Job \ {j} : /\ pc'[k] = pc[k] /\ gain'[k] = gain[k] /\ current'[k] = current[k]
                                 /\ ok'[k] = ok[k] /\ final'[k] = final[k]
         /\ rooms' = rooms
<1>1. DOMAIN pc = Job /\ DOMAIN gain = Job /\ DOMAIN current = Job /\ DOMAIN ok = Job
      /\ DOMAIN final = Job
  BY DEF TypeOK, ScoresOf
<1>2. CASE Begin(j)
  BY <1>1, <1>2 DEF Begin, Goto
<1>3. CASE AcquireLock(j)
  BY <1>1, <1>3 DEF AcquireLock, Goto
<1>4. CASE SelectScore(j)
  BY <1>1, <1>4 DEF SelectScore, Goto
<1>5. CASE UpdateScore(j)
  BY <1>1, <1>5 DEF UpdateScore, Goto
<1>6. CASE UpdatePlayerScore(j)
  BY <1>1, <1>6 DEF UpdatePlayerScore, Goto
<1>7. CASE Commit(j) \/ Rollback(j)
  BY <1>1, <1>7 DEF Commit, Rollback, Goto
<1>8. CASE ReleaseLock(j)
  BY <1>1, <1>8 DEF ReleaseLock, Goto
<1> QED BY <1>2, <1>3, <1>4, <1>5, <1>6, <1>7, <1>8 DEF JobStep

\* ... and every step keeps a player for a job at a player's turn.
LEMMA InTurnStays ==
  ASSUME TypeOK, InTurn, [Next]_vars
  PROVE  InTurn'
<1> DEFINE Quiet(j) == pc'[j] = pc[j] /\ gain'[j] = gain[j]
<1>1. ASSUME UNCHANGED <<pc, gain>> PROVE InTurn'
  BY <1>1 DEF InTurn
<1>2. CASE UNCHANGED vars
  BY <1>1, <1>2 DEF vars, jobs
<1>3. ASSUME NEW r \in Room, NewGame(r) PROVE InTurn'
  BY <1>1, <1>3 DEF NewGame, jobs
<1>4. ASSUME NEW u \in Mover, Player(u) PROVE InTurn'
  BY <1>1, <1>4 DEF Player, LeaveRoom, AddRoom, LoadScore, StoreScore, MoveTo, jobs
<1>5. ASSUME NEW j \in Job, Begin(j) \/ JobStep(j) PROVE InTurn'
  <2>1. \A k \in Job \ {j} : pc'[k] = pc[k] /\ gain'[k] = gain[k]
    BY <1>5, JobAlone
  <2>2. pc'[j] \in {"update", "cache"} => DOMAIN gain'[j] # {}
    <3>1. CASE pc[j] = "select"
      <4>1. gain[j] # Empty /\ gain' = gain
        BY <1>5, <3>1 DEF JobStep, Begin, AcquireLock, SelectScore, UpdateScore, UpdatePlayerScore,
                          Commit, Rollback, ReleaseLock, At
      <4>2. Scores(gain[j])
        BY DEF TypeOK, ScoresOf
      <4> QED BY <4>1, <4>2, EmptyIs
    <3>2. CASE pc[j] = "update"
      <4>1. gain' = gain
        BY <1>5, <3>2 DEF JobStep, Begin, AcquireLock, SelectScore, UpdateScore, UpdatePlayerScore,
                          Commit, Rollback, ReleaseLock, At
      <4> QED BY <3>2, <4>1 DEF InTurn
    <3>3. CASE pc[j] \notin {"select", "update"}
      <4>1. pc'[j] \notin {"update", "cache"}
        BY <1>5, <3>3 DEF JobStep, Begin, AcquireLock, SelectScore, UpdateScore, UpdatePlayerScore,
                          Commit, Rollback, ReleaseLock, At, Goto, TypeOK
      <4> QED BY <4>1
    <3> QED BY <3>1, <3>2, <3>3
  <2> QED BY <2>1, <2>2 DEF InTurn
<1> QED BY <1>2, <1>3, <1>4, <1>5 DEF Next

\* The history variables are Boolean.
LEMMA TypeWatch == Watch /\ TypeOK => crossed' \in BOOLEAN /\ mixed' \in BOOLEAN /\ strayed' \in BOOLEAN
BY DEF Watch

\* The state of the model has the types it is meant to have.
THEOREM TypeCorrect == Spec => []TypeOK
<1> DEFINE Typed == TypeOK /\ InTurn
<1>1. Init => Typed
  <2> SUFFICES ASSUME Init PROVE Typed
    OBVIOUS
  <2>1. tx = [d \in Db |-> Empty] /\ view = [d \in Db |-> Empty] /\ gain = [j \in Job |-> Empty]
        /\ final = [j \in Job |-> Empty] /\ score = [u \in User |-> 0] /\ carried = score
        /\ cache = [r \in Room |-> [u \in {v \in User : Start[v] = r} |-> 0]]
    BY DEF Init
  <2>2. ScoresOf(tx, Db) /\ ScoresOf(view, Db) /\ ScoresOf(gain, Job) /\ ScoresOf(final, Job)
    BY <2>1, EmptyIs DEF ScoresOf
  <2>3. ScoresOf(cache, Room)
    BY <2>1 DEF ScoresOf, Scores
  <2>4. \A j \in Job : Range(gain[j]) \subseteq {-2, -1, 1, 2}
    BY <2>1, EmptyIs DEF Range
  <2>5. InTurn
    BY DEF Init, InTurn
  <2>6. score \in [User -> Int] /\ carried \in [User -> Int] /\ order \in [Room -> SUBSET User]
        /\ place \in [User -> Room] /\ inside \in [User -> BOOLEAN]
        /\ at \in [User -> {"idle", "move", "load", "store"}]
    BY <2>1, ConstantsAssumption DEF Init
  <2>7. lock \in [Room -> Job \cup {NoJob}] /\ won \in [Room -> {"none", "lord", "farmers"}]
        /\ auto \in [Db -> BOOLEAN] /\ current \in [Job -> Int] /\ ok \in [Job -> BOOLEAN]
    BY DEF Init
  <2>8. /\ pc \in [Job -> {"idle", "lock", "select", "update", "cache", "end",
                         "tell", "release", "done"}]
        /\ games \in 0 .. MaxGames /\ faults \subseteq Faults
        /\ crossed = FALSE /\ mixed = FALSE /\ strayed = FALSE
    BY ConstantsAssumption DEF Init
  <2>9. TypeOK
    BY <2>2, <2>3, <2>4, <2>6, <2>7, <2>8 DEF TypeOK
  <2> QED BY <2>5, <2>9
<1>2. Typed /\ [Next]_vars => Typed'
  <2> SUFFICES ASSUME Typed, [Next]_vars PROVE Typed'
    OBVIOUS
  <2>1. InTurn'
    BY InTurnStays
  <2>2. CASE UNCHANGED vars
    BY <2>1, <2>2 DEF vars, mysql, rooms, jobs, history, TypeOK
  <2>3. CASE Next
    <3>1. crossed' \in BOOLEAN /\ mixed' \in BOOLEAN /\ strayed' \in BOOLEAN
      BY <2>3, TypeWatch DEF Next
    <3>2. TypeOK'
      BY <2>3, <3>1, TypePlayers, TypeJobs, ConstantsAssumption DEF Next, Player
    <3> QED BY <2>1, <3>2
  <2> QED BY <2>1, <2>2, <2>3
<1>3. Typed => TypeOK
  OBVIOUS
<1> QED BY <1>1, <1>2, <1>3, PTL DEF Spec
-----------------------------------------------------------------------------
\* What the steps of a job do, read off their definitions.

\* Begin: the shares of the players are worked out.
LEMMA BeginIs ==
  ASSUME TypeOK, NEW j \in Job, Begin(j)
  PROVE  /\ pc[j] = "idle" /\ pc'[j] = "lock" /\ won[RoomOf[j]] # "none"
         /\ DOMAIN gain'[j] = order[RoomOf[j]]
         /\ \A u \in order[RoomOf[j]] : gain'[j][u] = Share(RoomOf[j], u)
         /\ UNCHANGED <<mysql, cache, lock, rooms, current, ok, final, faults>>
BY DEF Begin, At, Goto, TypeOK, ScoresOf

\* AcquireLock: the lock is got and a transaction begun, or the job is done.
LEMMA AcquireIs ==
  ASSUME TypeOK, NEW j \in Job, AcquireLock(j)
  PROVE  /\ pc[j] = "lock"
         /\ \/ /\ lock[RoomOf[j]] = NoJob /\ lock' = [lock EXCEPT ![RoomOf[j]] = j]
               /\ pc'[j] = "select" /\ auto' = [auto EXCEPT ![DbOf[j]] = FALSE] /\ UNCHANGED gain
            \/ pc'[j] = "done" /\ DOMAIN gain'[j] = {} /\ UNCHANGED <<lock, auto>>
         /\ UNCHANGED <<score, tx, view, cache, rooms, current, ok, final, faults>>
BY EmptyIs DEF AcquireLock, LockFree, At, Goto, TypeOK, ScoresOf

\* SelectScore: the first select of a transaction fixes what it reads.
LEMMA SelectIs ==
  ASSUME TypeOK, NEW j \in Job, SelectScore(j)
  PROVE  /\ pc[j] = "select" /\ pc'[j] = "update" /\ DOMAIN gain[j] # {}
         /\ \/ /\ current'[j] = Reads(DbOf[j])[NextPlayer(j)] /\ faults' = faults
               /\ view'[DbOf[j]] = IF auto[DbOf[j]] \/ DOMAIN view[DbOf[j]] # {} THEN view[DbOf[j]]
                                   ELSE score
            \/ faults' = faults \cup {"select"} /\ view' = view
         /\ \A d \in Db \ {DbOf[j]} : view'[d] = view[d]
         /\ UNCHANGED <<score, tx, auto, cache, lock, rooms, gain, ok, final>>
<1>1. Scores(gain[j]) /\ DbOf[j] \in Db /\ Scores(view[DbOf[j]]) /\ DOMAIN view = Db
  BY ConstantsAssumption DEF TypeOK, ScoresOf
<1>2. (gain[j] # Empty <=> DOMAIN gain[j] # {}) /\ (view[DbOf[j]] # Empty <=> DOMAIN view[DbOf[j]] # {})
  BY <1>1, EmptyIs
<1>3. pc[j] = "select" /\ pc'[j] = "update" /\ gain[j] # Empty
      /\ UNCHANGED <<score, tx, auto, cache, lock, rooms, gain, ok, final>>
  BY DEF SelectScore, At, Goto, TypeOK
<1>4. \/ /\ current'[j] = Reads(DbOf[j])[NextPlayer(j)] /\ faults' = faults
         /\ view' = [view EXCEPT ![DbOf[j]] =
                       IF auto[DbOf[j]] \/ view[DbOf[j]] # Empty THEN view[DbOf[j]] ELSE score]
      \/ faults' = faults \cup {"select"} /\ view' = view
  BY DEF SelectScore, Fault, TypeOK
<1> QED BY <1>1, <1>2, <1>3, <1>4

\* UpdateScore: written to the transaction, or at once under autocommit, or not at all.
LEMMA UpdateIs ==
  ASSUME TypeOK, NEW j \in Job, UpdateScore(j)
  PROVE  /\ pc[j] = "update" /\ pc'[j] = "cache"
         /\ \/ /\ auto[DbOf[j]] /\ score' = [score EXCEPT ![NextPlayer(j)] = NewScore(j)]
               /\ UNCHANGED <<tx, ok, faults>>
            \/ /\ ~auto[DbOf[j]] /\ DOMAIN tx'[DbOf[j]] = DOMAIN tx[DbOf[j]] \cup {NextPlayer(j)}
               /\ tx'[DbOf[j]][NextPlayer(j)] = NewScore(j)
               /\ \A u \in DOMAIN tx[DbOf[j]] \ {NextPlayer(j)} : tx'[DbOf[j]][u] = tx[DbOf[j]][u]
               /\ UNCHANGED <<score, ok, faults>>
            \/ ok'[j] = FALSE /\ faults' = faults \cup {"update"} /\ UNCHANGED <<score, tx>>
         /\ \A d \in Db \ {DbOf[j]} : tx'[d] = tx[d]
         /\ UNCHANGED <<view, auto, cache, lock, rooms, gain, current, final>>
<1> DEFINE d == DbOf[j]
           w == With(tx[d], NextPlayer(j), NewScore(j))
<1>1. d \in Db /\ DOMAIN tx = Db
  BY ConstantsAssumption DEF TypeOK, ScoresOf
<1>2. pc[j] = "update" /\ pc'[j] = "cache"
      /\ UNCHANGED <<view, auto, cache, lock, rooms, gain, current, final>>
  BY DEF UpdateScore, At, Goto, TypeOK
<1>3. \/ /\ auto[d] /\ score' = [score EXCEPT ![NextPlayer(j)] = NewScore(j)]
         /\ UNCHANGED <<tx, ok, faults>>
      \/ ~auto[d] /\ tx' = [tx EXCEPT ![d] = w] /\ UNCHANGED <<score, ok, faults>>
      \/ ok'[j] = FALSE /\ faults' = faults \cup {"update"} /\ UNCHANGED <<score, tx>>
  BY DEF UpdateScore, Fault, TypeOK
<1>4. DOMAIN w = DOMAIN tx[d] \cup {NextPlayer(j)} /\ w[NextPlayer(j)] = NewScore(j)
      /\ \A u \in DOMAIN tx[d] \ {NextPlayer(j)} : w[u] = tx[d][u]
  BY DEF With
<1> HIDE DEF w
<1> QED BY <1>1, <1>2, <1>3, <1>4

\* UpdatePlayerScore: a share is done, and in the sorted set unless something failed.
LEMMA CacheIs ==
  ASSUME TypeOK, NEW j \in Job, UpdatePlayerScore(j)
  PROVE  /\ pc[j] = "cache" /\ pc'[j] = IF DOMAIN gain[j] = {NextPlayer(j)} THEN "end" ELSE "select"
         /\ DOMAIN gain'[j] = DOMAIN gain[j] \ {NextPlayer(j)}
         /\ \A u \in DOMAIN gain'[j] : gain'[j][u] = gain[j][u]
         /\ DOMAIN final'[j] = DOMAIN final[j] \cup {NextPlayer(j)}
         /\ final'[j][NextPlayer(j)] = NewScore(j)
         /\ \A u \in DOMAIN final[j] \ {NextPlayer(j)} : final'[j][u] = final[j][u]
         /\ \/ /\ ok[j] /\ faults' = faults
               /\ DOMAIN cache'[RoomOf[j]] = DOMAIN cache[RoomOf[j]] \cup {NextPlayer(j)}
               /\ cache'[RoomOf[j]][NextPlayer(j)] = NewScore(j)
               /\ \A u \in DOMAIN cache[RoomOf[j]] \ {NextPlayer(j)} :
                    cache'[RoomOf[j]][u] = cache[RoomOf[j]][u]
               /\ \A r \in Room \ {RoomOf[j]} : cache'[r] = cache[r]
            \/ ~ok[j] /\ faults' = faults /\ cache' = cache
            \/ faults' = faults \cup {"redis"} /\ cache' = cache
         /\ UNCHANGED <<mysql, lock, rooms, current, ok>>
<1> DEFINE r == RoomOf[j]
           u == NextPlayer(j)
           g == Restrict(gain[j], DOMAIN gain[j] \ {u})
           f == With(final[j], u, NewScore(j))
           c == With(cache[r], u, NewScore(j))
<1>1. r \in Room /\ DOMAIN cache = Room /\ DOMAIN gain = Job /\ DOMAIN final = Job
  BY ConstantsAssumption DEF TypeOK, ScoresOf
<1>2. pc[j] = "cache" /\ pc'[j] = (IF DOMAIN gain[j] = {u} THEN "end" ELSE "select")
      /\ UNCHANGED <<mysql, lock, rooms, current, ok>>
  BY DEF UpdatePlayerScore, At, Goto, TypeOK
<1>3. gain' = [gain EXCEPT ![j] = g] /\ final' = [final EXCEPT ![j] = f]
  BY DEF UpdatePlayerScore
<1>4. \/ ok[j] /\ cache' = [cache EXCEPT ![r] = c] /\ faults' = faults
      \/ ~ok[j] /\ faults' = faults /\ cache' = cache
      \/ faults' = faults \cup {"redis"} /\ cache' = cache
  BY DEF UpdatePlayerScore, Fault
<1>5. DOMAIN g = DOMAIN gain[j] \ {u} /\ \A v \in DOMAIN g : g[v] = gain[j][v]
  BY RemovedIs
<1>6. /\ DOMAIN f = DOMAIN final[j] \cup {u} /\ f[u] = NewScore(j)
      /\ \A v \in DOMAIN final[j] \ {u} : f[v] = final[j][v]
      /\ DOMAIN c = DOMAIN cache[r] \cup {u} /\ c[u] = NewScore(j)
      /\ \A v \in DOMAIN cache[r] \ {u} : c[v] = cache[r][v]
  BY DEF With
<1> HIDE DEF g, f, c
<1>7. gain'[j] = g /\ final'[j] = f
  BY <1>1, <1>3
<1> QED BY <1>1, <1>2, <1>4, <1>5, <1>6, <1>7

\* Commit and Rollback: the transaction is over, and kept or not.
LEMMA EndIs ==
  ASSUME TypeOK, NEW j \in Job, Commit(j) \/ Rollback(j)
  PROVE  /\ pc[j] = "end"
         /\ \/ /\ ok[j] /\ pc'[j] = "tell" /\ faults' = faults
               /\ \A u \in User : score'[u] = Pending(DbOf[j], u)
            \/ ok[j] /\ pc'[j] = "tell" /\ faults' = faults \cup {"commit"} /\ score' = score
            \/ ~ok[j] /\ pc'[j] = "release" /\ faults' = faults /\ score' = score
         /\ auto'[DbOf[j]] /\ DOMAIN tx'[DbOf[j]] = {} /\ DOMAIN view'[DbOf[j]] = {}
         /\ \A d \in Db \ {DbOf[j]} : auto'[d] = auto[d] /\ tx'[d] = tx[d] /\ view'[d] = view[d]
         /\ UNCHANGED <<cache, lock, rooms, gain, current, ok, final>>
<1>1. DbOf[j] \in Db /\ DOMAIN tx = Db /\ DOMAIN view = Db /\ DOMAIN auto = Db /\ DOMAIN Empty = {}
  BY ConstantsAssumption, EmptyIs DEF TypeOK, ScoresOf
<1>2. ASSUME NEW keep \in BOOLEAN, EndTransaction(DbOf[j], keep)
      PROVE  /\ IF keep THEN \A u \in User : score'[u] = Pending(DbOf[j], u) ELSE score' = score
             /\ auto'[DbOf[j]] /\ DOMAIN tx'[DbOf[j]] = {} /\ DOMAIN view'[DbOf[j]] = {}
             /\ \A d \in Db \ {DbOf[j]} : auto'[d] = auto[d] /\ tx'[d] = tx[d] /\ view'[d] = view[d]
  BY <1>1, <1>2 DEF EndTransaction, Pending
<1>3. CASE Commit(j)
  <2>1. pc[j] = "end" /\ ok[j] /\ pc'[j] = "tell"
        /\ UNCHANGED <<cache, lock, rooms, gain, current, ok, final>>
    BY <1>3 DEF Commit, At, Goto, TypeOK
  <2>2. \/ EndTransaction(DbOf[j], TRUE) /\ faults' = faults
        \/ EndTransaction(DbOf[j], FALSE) /\ faults' = faults \cup {"commit"}
    BY <1>3 DEF Commit, Fault
  <2> QED BY <1>2, <2>1, <2>2
<1>4. CASE Rollback(j)
  <2>1. pc[j] = "end" /\ ~ok[j] /\ pc'[j] = "release" /\ EndTransaction(DbOf[j], FALSE)
        /\ UNCHANGED <<cache, lock, rooms, gain, current, ok, final, faults>>
    BY <1>4 DEF Rollback, At, Goto, TypeOK
  <2> QED BY <1>2, <2>1
<1> QED BY <1>3, <1>4

\* ReleaseLock: the job is done.
LEMMA ReleaseIs ==
  ASSUME TypeOK, NEW j \in Job, ReleaseLock(j)
  PROVE  /\ pc[j] \in {"tell", "release"} /\ pc'[j] = "done" /\ DOMAIN final'[j] = {} /\ ok'[j] = TRUE
         /\ lock' = [lock EXCEPT ![RoomOf[j]] = NoJob]
         /\ UNCHANGED <<mysql, cache, rooms, gain, faults>>
BY EmptyIs DEF ReleaseLock, Goto, TypeOK, ScoresOf

\* A job for which nothing changes.
LEMMA JobStays ==
  ASSUME NEW j \in Job, pc'[j] = pc[j], gain'[j] = gain[j], current'[j] = current[j], final'[j] = final[j]
  PROVE  /\ Busy(j)' = Busy(j) /\ Working(j)' = Working(j) /\ Done(j)' = Done(j)
         /\ Settles(j)' = Settles(j) /\ NextPlayer(j)' = NextPlayer(j) /\ NewScore(j)' = NewScore(j)
         /\ \A u : Wrote(j, u)' = Wrote(j, u)
BY DEF Busy, Working, Done, Settles, NextPlayer, NewScore, Wrote

-----------------------------------------------------------------------------
\* Faults stay, and so does what was seen of the jobs; whatever is no step of a
\* job leaves MySQL, the locks and the jobs alone.
LEMMA StepsAre ==
  ASSUME TypeOK, [Next]_vars
  PROVE  /\ \/ \E j \in Job : Begin(j) \/ JobStep(j)
            \/ UNCHANGED <<mysql, lock, jobs>>
         /\ faults \subseteq faults'
         /\ (crossed => crossed') /\ (mixed => mixed') /\ (strayed => strayed')
<1>1. CASE UNCHANGED vars
  BY <1>1 DEF vars, history
<1>2. CASE Next
  <2>1. (crossed => crossed') /\ (mixed => mixed') /\ (strayed => strayed')
    BY <1>2 DEF Next, Watch
  <2>2. ASSUME \/ \E r \in Room : NewGame(r)
               \/ \E u \in Mover : Player(u)
        PROVE  UNCHANGED <<mysql, lock, jobs>> /\ faults \subseteq faults'
    BY <2>2 DEF NewGame, Player, LeaveRoom, AddRoom, LoadScore, StoreScore, MoveTo, Fault
  <2>3. ASSUME NEW j \in Job, Begin(j) \/ JobStep(j) PROVE faults \subseteq faults'
    <3>1. CASE Begin(j) \/ AcquireLock(j) \/ ReleaseLock(j)
      BY <3>1, BeginIs, AcquireIs, ReleaseIs
    <3>2. CASE SelectScore(j) \/ UpdateScore(j)
      BY <3>2, SelectIs, UpdateIs
    <3>3. CASE UpdatePlayerScore(j) \/ Commit(j) \/ Rollback(j)
      BY <3>3, CacheIs, EndIs
    <3> QED BY <2>3, <3>1, <3>2, <3>3 DEF JobStep
  <2> QED BY <1>2, <2>1, <2>2, <2>3 DEF Next
<1> QED BY <1>1, <1>2

\* A room has one job at work, and so has a connection if none was shared.
LEMMA OneAtWork ==
  ASSUME LocksOK, Apart, NEW j \in Job, NEW k \in Job, Busy(j), Busy(k),
         RoomOf[j] = RoomOf[k] \/ (~mixed /\ DbOf[j] = DbOf[k])
  PROVE  j = k
BY DEF LocksOK, Apart

\* A lock is held by the job at work in its room.
LEMMA LocksStep ==
  ASSUME TypeOK, LocksOK, [Next]_vars
  PROVE  LocksOK'
<1>1. CASE UNCHANGED <<mysql, lock, jobs>>
  BY <1>1 DEF LocksOK, Busy, jobs
<1>2. ASSUME NEW j \in Job, Begin(j) \/ JobStep(j) PROVE LocksOK'
  <2>1. \A k \in Job \ {j} : Busy(k)' <=> Busy(k)
    BY <1>2, JobAlone DEF Busy
  <2>2. NoJob \notin Job /\ RoomOf \in [Job -> Room] /\ DOMAIN lock = Room
    BY ConstantsAssumption DEF TypeOK
  <2>3. ASSUME lock' = lock, Busy(j)' <=> Busy(j) PROVE LocksOK'
    BY <2>1, <2>3 DEF LocksOK
  <2>4. CASE Begin(j)
    BY <2>3, <2>4, BeginIs DEF Busy
  <2>5. CASE AcquireLock(j)
    <3>1. CASE lock' = lock
      BY <2>3, <2>5, <3>1, <2>2, AcquireIs DEF Busy
    <3>2. CASE lock[RoomOf[j]] = NoJob /\ lock' = [lock EXCEPT ![RoomOf[j]] = j] /\ pc'[j] = "select"
      BY <2>1, <2>2, <3>2 DEF LocksOK, Busy
    <3> QED BY <2>5, <3>1, <3>2, AcquireIs
  <2>6. CASE SelectScore(j)
    BY <2>3, <2>6, SelectIs DEF Busy
  <2>7. CASE UpdateScore(j)
    BY <2>3, <2>7, UpdateIs DEF Busy
  <2>8. CASE UpdatePlayerScore(j)
    BY <2>3, <2>8, CacheIs DEF Busy
  <2>9. CASE Commit(j) \/ Rollback(j)
    BY <2>3, <2>9, EndIs DEF Busy
  <2>10. CASE ReleaseLock(j)
    <3>1. Busy(j) /\ ~Busy(j)' /\ lock' = [lock EXCEPT ![RoomOf[j]] = NoJob]
      BY <2>10, ReleaseIs DEF Busy
    <3> QED BY <2>1, <2>2, <3>1 DEF LocksOK
  <2> QED BY <1>2, <2>4, <2>5, <2>6, <2>7, <2>8, <2>9, <2>10 DEF JobStep
<1> QED BY <1>1, <1>2, StepsAre

\* A game with a winner has three players.
LEMMA OrderStep ==
  ASSUME TypeOK, OrderOK, [Next]_vars
  PROVE  OrderOK'
<1>1. ASSUME UNCHANGED <<order, won>> PROVE OrderOK'
  BY <1>1 DEF OrderOK
<1>2. CASE UNCHANGED vars
  BY <1>1, <1>2 DEF vars, rooms
<1>3. ASSUME NEW r \in Room, NewGame(r) PROVE OrderOK'
  <2>1. order' = [order EXCEPT ![r] = Members(r)] /\ Cardinality(Members(r)) = 3
        /\ \E w \in Winner : won' = [won EXCEPT ![r] = w]
    BY <1>3 DEF NewGame
  <2> QED BY <2>1 DEF OrderOK, TypeOK
<1>4. ASSUME NEW u \in Mover, Player(u) PROVE OrderOK'
  BY <1>1, <1>4 DEF Player, LeaveRoom, AddRoom, LoadScore, StoreScore, MoveTo
<1>5. ASSUME NEW j \in Job, Begin(j) \/ JobStep(j) PROVE OrderOK'
  BY <1>1, <1>5, JobAlone DEF rooms
<1> QED BY <1>2, <1>3, <1>4, <1>5 DEF Next

\* A job has what it is to have at each step.
LEMMA JobsStep ==
  ASSUME TypeOK, OrderOK, JobsOK, [Next]_vars
  PROVE  JobsOK'
<1> DEFINE Fine(j) ==
      /\ ~Busy(j) => DOMAIN final[j] = {}
      /\ pc[j] \in {"idle", "done", "end", "tell", "release"} => DOMAIN gain[j] = {}
      /\ pc[j] \in {"lock", "select", "update", "cache"} => DOMAIN gain[j] # {}
      /\ DOMAIN gain[j] \cap DOMAIN final[j] = {}
      /\ ~ok[j] => "update" \in faults
<1>1. faults \subseteq faults'
  BY StepsAre
<1>2. CASE UNCHANGED <<mysql, lock, jobs>>
  BY <1>1, <1>2 DEF JobsOK, Busy, jobs
<1>3. ASSUME NEW j \in Job, Begin(j) \/ JobStep(j) PROVE JobsOK'
  <2>1. \A k \in Job \ {j} : Fine(k)'
    BY <1>1, <1>3, JobAlone DEF JobsOK, Busy
  <2>2. Fine(j)
    BY DEF JobsOK
  <2>3. CASE Begin(j)
    <3>1. Cardinality(order[RoomOf[j]]) = 3
      BY <2>3, BeginIs, ConstantsAssumption DEF OrderOK
    <3>2. order[RoomOf[j]] # {}
      BY <3>1, FS_EmptySet
    <3>3. pc[j] = "idle" /\ pc'[j] = "lock" /\ DOMAIN gain'[j] = order[RoomOf[j]]
          /\ UNCHANGED <<final, ok, faults>>
      BY <2>3, BeginIs
    <3>4. Fine(j)'
      BY <2>2, <3>2, <3>3 DEF Busy
    <3> QED BY <2>1, <3>4 DEF JobsOK
  <2>4. CASE AcquireLock(j)
    <3>1. Fine(j)'
      BY <2>2, <2>4, AcquireIs DEF Busy
    <3> QED BY <2>1, <3>1 DEF JobsOK
  <2>5. CASE SelectScore(j)
    <3>1. Fine(j)'
      BY <1>1, <2>2, <2>5, SelectIs DEF Busy
    <3> QED BY <2>1, <3>1 DEF JobsOK
  <2>6. CASE UpdateScore(j)
    <3>1. pc[j] = "update" /\ pc'[j] = "cache" /\ UNCHANGED <<gain, final>>
          /\ (~ok'[j] => ~ok[j] \/ "update" \in faults')
      BY <2>6, UpdateIs
    <3>2. Fine(j)'
      BY <1>1, <2>2, <3>1 DEF Busy
    <3> QED BY <2>1, <3>2 DEF JobsOK
  <2>7. CASE UpdatePlayerScore(j)
    <3> DEFINE u == NextPlayer(j)
    <3>1. /\ pc[j] = "cache" /\ pc'[j] = IF DOMAIN gain[j] = {u} THEN "end" ELSE "select"
          /\ DOMAIN gain'[j] = DOMAIN gain[j] \ {u} /\ DOMAIN final'[j] = DOMAIN final[j] \cup {u}
          /\ ok' = ok
      BY <2>7, CacheIs
    <3>2. u \in DOMAIN gain[j]
      BY <2>2, <3>1, NextIs
    <3> HIDE DEF u
    <3>3. Fine(j)'
      BY <1>1, <2>2, <3>1, <3>2 DEF Busy
    <3> QED BY <2>1, <3>3 DEF JobsOK
  <2>8. CASE Commit(j) \/ Rollback(j)
    <3>1. pc[j] = "end" /\ pc'[j] \in {"tell", "release"} /\ UNCHANGED <<gain, ok, final>>
      BY <2>8, EndIs
    <3>2. Fine(j)'
      BY <1>1, <2>2, <3>1 DEF Busy
    <3> QED BY <2>1, <3>2 DEF JobsOK
  <2>9. CASE ReleaseLock(j)
    <3>1. Fine(j)'
      BY <2>2, <2>9, ReleaseIs DEF Busy
    <3> QED BY <2>1, <3>1 DEF JobsOK
  <2> QED BY <1>3, <2>3, <2>4, <2>5, <2>6, <2>7, <2>8, <2>9 DEF JobStep
<1> QED BY <1>2, <1>3, StepsAre

\* Watch watches.
LEMMA ApartStep ==
  ASSUME TypeOK, Apart, [Next]_vars
  PROVE  Apart'
<1>1. CASE UNCHANGED vars
  BY <1>1 DEF vars, rooms, jobs, history, Apart, Busy, Settles
<1>2. CASE Watch
  BY <1>2 DEF Watch, Apart, Members
<1> QED BY <1>1, <1>2 DEF Next

\* Connections are closed when nobody is at work on them.
LEMMA DbStep ==
  ASSUME TypeOK, LocksOK, JobsOK, Apart, DbOK, [Next]_vars
  PROVE  DbOK'
<1>1. mixed => mixed'
  BY StepsAre
<1>2. CASE UNCHANGED <<mysql, lock, jobs>>
  BY <1>1, <1>2 DEF mysql, jobs, DbOK, Working, Done, NextPlayer
<1>3. ASSUME NEW j \in Job, Begin(j) \/ JobStep(j) PROVE DbOK'
  <2> DEFINE e == DbOf[j]
  <2>1. \A k \in Job \ {j} : (Working(k)' <=> Working(k)) /\ Done(k)' = Done(k)
    BY <1>3, JobAlone, JobStays
  <2>2. e \in Db /\ DOMAIN auto = Db /\ DOMAIN tx = Db /\ DOMAIN view = Db
    BY ConstantsAssumption DEF TypeOK, ScoresOf
  <2>3. ASSUME Working(j)' <=> Working(j), Working(j) => Done(j) \subseteq Done(j)', auto' = auto, tx' = tx,
               \A d \in Db : (d # e \/ ~Working(j)) => view'[d] = view[d]
        PROVE  DbOK'
    <3> SUFFICES ASSUME NEW d \in Db
                 PROVE  /\ (\A k \in Job : DbOf[k] = d => ~Working(k)') =>
                              auto[d] /\ DOMAIN tx[d] = {} /\ DOMAIN view'[d] = {}
                        /\ \A u \in DOMAIN tx[d] : \E k \in Job : DbOf[k] = d /\ Working(k)' /\ u \in Done(k)'
                        /\ ~mixed' => \A k \in Job : DbOf[k] = d /\ Working(k)' => ~auto[d]
      BY <2>3 DEF DbOK
    <3>1. \A k \in Job : (Working(k)' <=> Working(k)) /\ (Working(k) => Done(k) \subseteq Done(k)')
      BY <2>1, <2>3
    <3>2. (\A k \in Job : DbOf[k] = d => ~Working(k)') => view'[d] = view[d]
      BY <2>3, <3>1
    <3> QED BY <1>1, <3>1, <3>2 DEF DbOK
  <2>4. CASE Begin(j)
    <3>1. ~Working(j) /\ ~Working(j)' /\ UNCHANGED mysql
      BY <2>4, BeginIs DEF Working
    <3> QED BY <2>3, <3>1 DEF mysql
  <2>5. CASE AcquireLock(j)
    <3>1. CASE auto' = auto /\ pc'[j] = "done"
      <4>1. ~Working(j) /\ ~Working(j)' /\ UNCHANGED <<tx, view>>
        BY <2>5, <3>1, AcquireIs DEF Working
      <4> QED BY <2>3, <3>1, <4>1
    <3>2. CASE auto' = [auto EXCEPT ![e] = FALSE] /\ pc'[j] = "select"
      <4>1. ~Working(j) /\ Working(j)' /\ UNCHANGED <<tx, view>>
        BY <2>5, <3>2, AcquireIs DEF Working
      <4>2. ~auto'[e] /\ \A d \in Db \ {e} : auto'[d] = auto[d]
        BY <2>2, <3>2
      <4> HIDE DEF e
      <4>3. \A d \in Db : (\A k \in Job : DbOf[k] = d => ~Working(k)') =>
              auto'[d] /\ DOMAIN tx'[d] = {} /\ DOMAIN view'[d] = {}
        BY <2>1, <4>1, <4>2 DEF DbOK, e
      <4>4. \A d \in Db : \A u \in DOMAIN tx'[d] :
              \E k \in Job : DbOf[k] = d /\ Working(k)' /\ u \in Done(k)'
        BY <2>1, <4>1 DEF DbOK
      <4>5. ~mixed' => \A d \in Db : \A k \in Job : DbOf[k] = d /\ Working(k)' => ~auto'[d]
        BY <1>1, <2>1, <4>2 DEF DbOK, e
      <4> QED BY <4>3, <4>4, <4>5 DEF DbOK
    <3> QED BY <2>5, <3>1, <3>2, AcquireIs
  <2>6. CASE SelectScore(j)
    <3>1. Working(j) /\ Working(j)' /\ Done(j) \subseteq Done(j)' /\ auto' = auto /\ tx' = tx
          /\ \A d \in Db \ {e} : view'[d] = view[d]
      BY <2>6, SelectIs DEF Working, Done
    <3> QED BY <2>3, <3>1
  <2>7. CASE UpdateScore(j)
    <3>1. /\ Working(j) /\ Working(j)' /\ Done(j)' = Done(j) \cup {NextPlayer(j)}
          /\ UNCHANGED <<view, auto>> /\ DOMAIN tx'[e] \subseteq DOMAIN tx[e] \cup {NextPlayer(j)}
          /\ \A d \in Db \ {e} : tx'[d] = tx[d]
      BY <2>7, UpdateIs DEF Working, Done, NextPlayer
    <3> HIDE DEF e
    <3>2. \A d \in Db : (\A k \in Job : DbOf[k] = d => ~Working(k)') =>
            auto'[d] /\ DOMAIN tx'[d] = {} /\ DOMAIN view'[d] = {}
      BY <2>1, <3>1 DEF DbOK, e
    <3>3. \A d \in Db : \A u \in DOMAIN tx'[d] :
            \E k \in Job : DbOf[k] = d /\ Working(k)' /\ u \in Done(k)'
      <4> SUFFICES ASSUME NEW d \in Db, NEW u \in DOMAIN tx'[d]
                   PROVE  \E k \in Job : DbOf[k] = d /\ Working(k)' /\ u \in Done(k)'
        OBVIOUS
      <4>1. CASE u \in DOMAIN tx[d]
        BY <2>1, <3>1, <4>1 DEF DbOK
      <4>2. CASE u \notin DOMAIN tx[d]
        BY <3>1, <4>2 DEF e
      <4> QED BY <4>1, <4>2
    <3>4. ~mixed' => \A d \in Db : \A k \in Job : DbOf[k] = d /\ Working(k)' => ~auto'[d]
      BY <1>1, <2>1, <3>1 DEF DbOK
    <3> QED BY <3>2, <3>3, <3>4 DEF DbOK
  <2>8. CASE UpdatePlayerScore(j)
    <3>1. Working(j) /\ Working(j)' /\ Done(j) \subseteq Done(j)' /\ UNCHANGED mysql
      BY <2>8, CacheIs DEF Working, Done
    <3> QED BY <2>3, <3>1 DEF mysql
  <2>9. CASE Commit(j) \/ Rollback(j)
    <3>1. /\ Working(j) /\ ~Working(j)' /\ auto'[e] /\ DOMAIN tx'[e] = {} /\ DOMAIN view'[e] = {}
          /\ \A d \in Db \ {e} : auto'[d] = auto[d] /\ tx'[d] = tx[d] /\ view'[d] = view[d]
      BY <2>9, EndIs DEF Working
    <3>2. ~mixed' => \A k \in Job : DbOf[k] = e => ~Working(k)'
      BY <1>1, <2>1, <3>1, OneAtWork DEF Working, Busy
    <3> HIDE DEF e
    <3>3. \A d \in Db : (\A k \in Job : DbOf[k] = d => ~Working(k)') =>
            auto'[d] /\ DOMAIN tx'[d] = {} /\ DOMAIN view'[d] = {}
      BY <2>1, <3>1 DEF DbOK, e
    <3>4. \A d \in Db : \A u \in DOMAIN tx'[d] :
            \E k \in Job : DbOf[k] = d /\ Working(k)' /\ u \in Done(k)'
      BY <2>1, <3>1 DEF DbOK, e
    <3>5. ~mixed' => \A d \in Db : \A k \in Job : DbOf[k] = d /\ Working(k)' => ~auto'[d]
      BY <1>1, <2>1, <3>1, <3>2 DEF DbOK
    <3> QED BY <3>3, <3>4, <3>5 DEF DbOK
  <2>10. CASE ReleaseLock(j)
    <3>1. ~Working(j) /\ ~Working(j)' /\ UNCHANGED mysql
      BY <2>10, ReleaseIs DEF Working
    <3> QED BY <2>3, <3>1 DEF mysql
  <2> QED BY <1>3, <2>4, <2>5, <2>6, <2>7, <2>8, <2>9, <2>10 DEF JobStep
<1> QED BY <1>2, <1>3, StepsAre

-----------------------------------------------------------------------------
\* What the lemmas on scores rest on.
Base == TypeOK /\ LocksOK /\ OrderOK /\ JobsOK /\ DbOK /\ Apart

\* What a job settles are users, and some of them are done.
LEMMA SettlesAre ==
  ASSUME Base, NEW j \in Job
  PROVE  /\ Settles(j) \subseteq User /\ DOMAIN final[j] \subseteq Settles(j)
         /\ Working(j) => Busy(j) /\ Done(j) \subseteq Settles(j)
         /\ DOMAIN gain[j] # {} => /\ NextPlayer(j) \in DOMAIN gain[j] /\ NextPlayer(j) \in Settles(j)
                                   /\ NextPlayer(j) \notin DOMAIN final[j]
<1>1. DOMAIN gain[j] \subseteq User /\ DOMAIN final[j] \subseteq User
  BY DEF Base, TypeOK, ScoresOf, Scores
<1>2. DOMAIN gain[j] # {} => NextPlayer(j) \in DOMAIN gain[j]
  BY NextIs DEF Base
<1>3. DOMAIN gain[j] \cap DOMAIN final[j] = {} /\ (pc[j] = "cache" => DOMAIN gain[j] # {})
  BY DEF Base, JobsOK
<1> QED BY <1>1, <1>2, <1>3 DEF Settles, Working, Busy, Done

\* What is open of a player whom a job settles, that job has done.
LEMMA RowIsOwn ==
  ASSUME Base, ~crossed, NEW j \in Job, Busy(j), NEW u \in Settles(j),
         NEW d \in Db, u \in DOMAIN tx[d]
  PROVE  d = DbOf[j] /\ Working(j) /\ u \in Done(j)
<1>1. PICK k \in Job : DbOf[k] = d /\ Working(k) /\ u \in Done(k)
  BY DEF Base, DbOK
<1>2. Busy(k) /\ u \in Settles(k)
  BY <1>1, SettlesAre
<1>3. RoomOf[j] = RoomOf[k]
  BY <1>2 DEF Base, Apart
<1>4. j = k
  BY <1>2, <1>3, OneAtWork DEF Base
<1> QED BY <1>1, <1>4

\* A job commits the scores of its own players only.
LEMMA ScoreKept ==
  ASSUME Base, ~crossed, ~mixed, NEW j \in Job, Begin(j) \/ JobStep(j),
         NEW k \in Job \ {j}, Busy(k), NEW u \in Settles(k)
  PROVE  score'[u] = score[u]
<1>1. CASE Begin(j) \/ AcquireLock(j) \/ ReleaseLock(j)
  BY <1>1, BeginIs, AcquireIs, ReleaseIs DEF Base, mysql
<1>2. CASE SelectScore(j) \/ UpdatePlayerScore(j)
  BY <1>2, SelectIs, CacheIs DEF Base, mysql
<1>3. CASE UpdateScore(j)
  <2>1. TypeOK /\ DbOK /\ DbOf[j] \in Db
    BY ConstantsAssumption DEF Base
  <2>2. pc[j] = "update" /\ (auto[DbOf[j]] \/ score' = score)
    BY <1>3, <2>1, UpdateIs
  <2>3. Working(j)
    BY <2>2 DEF Working
  <2>4. ~auto[DbOf[j]]
    BY <2>1, <2>3 DEF DbOK
  <2> QED BY <2>2, <2>4
<1>4. CASE Commit(j) \/ Rollback(j)
  <2>1. Busy(j) /\ DbOf[j] \in Db /\ u \in User
    BY <1>4, EndIs, SettlesAre, ConstantsAssumption DEF Base, Busy
  <2>2. DbOf[j] # DbOf[k]
    BY <2>1, OneAtWork DEF Base
  <2>3. u \notin DOMAIN tx[DbOf[j]]
    BY <2>1, <2>2, RowIsOwn
  <2> QED BY <1>4, <2>1, <2>3, EndIs DEF Base, Pending
<1> QED BY <1>1, <1>2, <1>3, <1>4 DEF JobStep

\* What a job has written will be there when its connection commits.
LEMMA WroteStep ==
  ASSUME Base, WroteInv, [Next]_vars
  PROVE  WroteInv'
<1> SUFFICES ASSUME ~crossed', ~mixed' \/ faults' = {},
                    NEW k \in Job, Working(k)', ok'[k], NEW u \in Done(k)'
             PROVE  Wrote(k, u)' = Pending(DbOf[k], u)'
  BY DEF WroteInv
<1>1. ~crossed /\ (~mixed \/ faults = {}) /\ faults \subseteq faults'
  BY StepsAre DEF Base
<1>2. \A i \in Job : Working(i) /\ ok[i] => \A v \in Done(i) : Wrote(i, v) = Pending(DbOf[i], v)
  BY <1>1 DEF WroteInv
<1>3. TypeOK /\ JobsOK /\ LocksOK /\ Apart
  BY DEF Base
<1>4. CASE UNCHANGED <<mysql, lock, jobs>>
  BY <1>2, <1>4 DEF mysql, jobs, Working, Done, NextPlayer, Wrote, NewScore, Pending
<1>5. ASSUME NEW j \in Job, Begin(j) \/ JobStep(j) PROVE Wrote(k, u)' = Pending(DbOf[k], u)'
  <2> DEFINE e == DbOf[j]
             n == NextPlayer(j)
  <2>1. e \in Db /\ DbOf[k] \in Db
    BY ConstantsAssumption
  <2>2. CASE k # j
    <3>1. Working(k) /\ Done(k)' = Done(k) /\ Wrote(k, u)' = Wrote(k, u) /\ ok'[k] = ok[k]
      BY <1>3, <1>5, <2>2, JobAlone, JobStays
    <3>2. Busy(k) /\ u \in Done(k) /\ u \in Settles(k) /\ u \in User
      BY <3>1, SettlesAre
    <3>3. Wrote(k, u) = Pending(DbOf[k], u)
      BY <1>2, <3>1, <3>2
    <3>4. ASSUME UNCHANGED <<score, tx>> PROVE Wrote(k, u)' = Pending(DbOf[k], u)'
      BY <3>1, <3>3, <3>4 DEF Pending
    <3>5. CASE Begin(j) \/ AcquireLock(j) \/ ReleaseLock(j)
      BY <1>3, <3>4, <3>5, BeginIs, AcquireIs, ReleaseIs DEF mysql
    <3>6. CASE SelectScore(j) \/ UpdatePlayerScore(j)
      BY <1>3, <3>4, <3>6, SelectIs, CacheIs DEF mysql
    <3>7. CASE UpdateScore(j)
      <4>1. Busy(j) /\ DOMAIN gain[j] # {}
        BY <1>3, <3>7, UpdateIs DEF Busy, JobsOK
      <4>2. n \in Settles(j)
        BY <4>1, SettlesAre
      <4>3. RoomOf[j] # RoomOf[k]
        BY <1>3, <2>2, <3>2, <4>1, OneAtWork
      <4>4. u # n
        BY <1>1, <1>3, <3>2, <4>1, <4>2, <4>3 DEF Apart
      <4>5. score'[u] = score[u]
        <5>1. score' = score \/ score' = [score EXCEPT ![n] = NewScore(j)]
          BY <1>3, <3>7, UpdateIs
        <5>2. DOMAIN score = User
          BY <1>3 DEF TypeOK
        <5> HIDE DEF n
        <5> QED BY <3>2, <4>4, <5>1, <5>2
      <4>6. /\ u \in DOMAIN tx'[DbOf[k]] <=> u \in DOMAIN tx[DbOf[k]]
            /\ u \in DOMAIN tx[DbOf[k]] => tx'[DbOf[k]][u] = tx[DbOf[k]][u]
        <5>1. CASE tx'[DbOf[k]] = tx[DbOf[k]]
          BY <5>1
        <5>2. CASE /\ DbOf[k] = e /\ DOMAIN tx'[e] = DOMAIN tx[e] \cup {n}
                   /\ \A v \in DOMAIN tx[e] \ {n} : tx'[e][v] = tx[e][v]
          BY <4>4, <5>2
        <5>3. CASE tx' = tx
          BY <5>3
        <5>4. \/ tx' = tx
              \/ /\ DOMAIN tx'[e] = DOMAIN tx[e] \cup {n}
                 /\ \A v \in DOMAIN tx[e] \ {n} : tx'[e][v] = tx[e][v]
          BY <1>3, <3>7, UpdateIs
        <5>5. \A d \in Db \ {e} : tx'[d] = tx[d]
          BY <1>3, <3>7, UpdateIs
        <5> QED BY <2>1, <5>1, <5>2, <5>3, <5>4, <5>5
      <4> QED BY <3>1, <3>3, <4>5, <4>6 DEF Pending
    <3>8. CASE Commit(j) \/ Rollback(j)
      <4>1. Busy(j)
        BY <1>3, <3>8, EndIs DEF Busy
      <4>2. RoomOf[j] # RoomOf[k]
        BY <1>3, <2>2, <3>2, <4>1, OneAtWork
      <4>3. CASE DbOf[k] = e
        <5>1. mixed /\ mixed'
          BY <1>3, <3>2, <4>1, <4>2, <4>3, StepsAre DEF Apart
        <5>2. faults = {} /\ faults' = {} /\ ok[j]
          BY <1>1, <1>3, <5>1 DEF JobsOK
        <5>3. \A v \in User : score'[v] = Pending(e, v)
          BY <1>3, <3>8, <5>2, EndIs
        <5>4. DOMAIN tx'[e] = {}
          BY <1>3, <3>8, EndIs
        <5> QED BY <3>1, <3>2, <3>3, <4>3, <5>3, <5>4 DEF Pending
      <4>4. CASE DbOf[k] # e
        <5>1. tx'[DbOf[k]] = tx[DbOf[k]]
          BY <1>3, <2>1, <3>8, <4>4, EndIs
        <5>2. u \notin DOMAIN tx[e]
          BY <1>1, <2>1, <3>2, <4>4, RowIsOwn
        <5>3. score'[u] = score[u]
          BY <1>3, <3>2, <3>8, <5>2, EndIs DEF Pending
        <5> QED BY <3>1, <3>3, <5>1, <5>3 DEF Pending
      <4> QED BY <4>3, <4>4
    <3> QED BY <1>5, <3>5, <3>6, <3>7, <3>8 DEF JobStep
  <2>3. CASE k = j
    <3>1. CASE Begin(j) \/ Commit(j) \/ Rollback(j) \/ ReleaseLock(j)
      <4>1. ~Working(j)'
        BY <1>3, <3>1, BeginIs, EndIs, ReleaseIs DEF Working
      <4> QED BY <2>3, <4>1
    <3>2. CASE AcquireLock(j)
      <4>1. pc[j] = "lock" /\ final' = final /\ pc'[j] # "cache"
        BY <1>3, <3>2, AcquireIs
      <4>2. DOMAIN final[j] = {}
        BY <1>3, <4>1 DEF JobsOK, Busy
      <4> QED BY <2>3, <4>1, <4>2 DEF Done
    <3>3. CASE SelectScore(j)
      <4>1. pc[j] = "select" /\ pc'[j] = "update" /\ UNCHANGED <<score, tx, gain, ok, final>>
        BY <1>3, <3>3, SelectIs
      <4>2. u \in DOMAIN final[j] /\ Working(j) /\ u \in Done(j) /\ ok[j]
        BY <2>3, <4>1 DEF Done, Working
      <4> QED BY <1>2, <2>3, <4>1, <4>2 DEF Wrote, Pending
    <3>4. CASE UpdateScore(j)
      <4>1. /\ pc[j] = "update" /\ pc'[j] = "cache" /\ UNCHANGED <<gain, current, final>>
            /\ \/ score' = [score EXCEPT ![n] = NewScore(j)] /\ UNCHANGED <<tx, ok>>
               \/ /\ DOMAIN tx'[e] = DOMAIN tx[e] \cup {n} /\ tx'[e][n] = NewScore(j)
                  /\ \A v \in DOMAIN tx[e] \ {n} : tx'[e][v] = tx[e][v]
                  /\ UNCHANGED <<score, ok>>
        BY <1>3, <2>3, <3>4, UpdateIs
      <4>2. /\ Working(j) /\ Busy(j) /\ ok[j] /\ DOMAIN gain[j] # {} /\ n' = n
            /\ NewScore(j)' = NewScore(j)
        BY <1>3, <2>3, <4>1 DEF Working, Busy, JobsOK, NextPlayer, NewScore
      <4>3. n \in Settles(j) /\ n \notin DOMAIN final[j] /\ n \in User /\ Done(j) = DOMAIN final[j]
        BY <4>1, <4>2, SettlesAre DEF Done
      <4>4. n \notin DOMAIN tx[e]
        BY <1>1, <2>1, <4>2, <4>3, RowIsOwn
      <4>5. CASE u = n
        <5>1. Wrote(j, u)' = NewScore(j)
          BY <4>1, <4>2, <4>3, <4>5 DEF Wrote
        <5>2. Pending(e, u)' = NewScore(j)
          BY <1>3, <4>1, <4>3, <4>4, <4>5 DEF Pending, TypeOK
        <5> QED BY <2>3, <5>1, <5>2
      <4>6. CASE u # n
        <5>1. u \in DOMAIN final[j] /\ Wrote(j, u)' = final[j][u] /\ Wrote(j, u) = final[j][u]
          BY <2>3, <4>1, <4>2, <4>6 DEF Done, Wrote
        <5>2. Wrote(j, u) = Pending(e, u) /\ u \in User
          BY <1>2, <4>2, <4>3, <5>1, SettlesAre
        <5>3. Pending(e, u)' = Pending(e, u)
          BY <1>3, <4>1, <4>6, <5>2 DEF Pending, TypeOK
        <5> QED BY <2>3, <5>1, <5>2, <5>3
      <4> QED BY <4>5, <4>6
    <3>5. CASE UpdatePlayerScore(j)
      <4>1. /\ pc[j] = "cache" /\ pc'[j] \in {"select", "end"} /\ UNCHANGED <<score, tx, ok>>
            /\ DOMAIN final'[j] = DOMAIN final[j] \cup {n} /\ final'[j][n] = NewScore(j)
            /\ \A v \in DOMAIN final[j] \ {n} : final'[j][v] = final[j][v]
        BY <1>3, <3>5, CacheIs DEF mysql
      <4>2. Working(j) /\ ok[j] /\ Done(j) = DOMAIN final'[j] /\ u \in DOMAIN final'[j]
        BY <2>3, <4>1 DEF Working, Done
      <4>3. n \notin DOMAIN final[j]
        BY <1>3, <4>1, SettlesAre DEF JobsOK
      <4>4. Wrote(j, u)' = Wrote(j, u)
        BY <4>1, <4>2, <4>3 DEF Wrote
      <4>5. Wrote(j, u) = Pending(e, u) /\ Pending(e, u)' = Pending(e, u)
        BY <1>2, <4>1, <4>2 DEF Pending
      <4> QED BY <2>3, <4>4, <4>5
    <3> QED BY <1>5, <3>1, <3>2, <3>3, <3>4, <3>5 DEF JobStep
  <2> QED BY <2>2, <2>3
<1> QED BY <1>3, <1>4, <1>5, StepsAre

\* What a job settles stays the same from the lock to the end.
LEMMA SettlesStay ==
  ASSUME Base, NEW j \in Job, UpdatePlayerScore(j)
  PROVE  Settles(j)' = Settles(j)
<1>1. TypeOK /\ pc[j] = "cache"
  BY CacheIs DEF Base
<1>2. NextPlayer(j) \in DOMAIN gain[j]
  BY <1>1, SettlesAre DEF Base, JobsOK
<1>3. /\ DOMAIN gain'[j] = DOMAIN gain[j] \ {NextPlayer(j)}
      /\ DOMAIN final'[j] = DOMAIN final[j] \cup {NextPlayer(j)}
  BY <1>1, CacheIs
<1> QED BY <1>2, <1>3 DEF Settles

\* Within a transaction nothing is committed, unless a connection is shared.
LEMMA UpdateKeeps ==
  ASSUME Base, ~mixed, NEW j \in Job, UpdateScore(j)
  PROVE  score' = score
<1>1. TypeOK /\ DbOK /\ DbOf[j] \in Db
  BY ConstantsAssumption DEF Base
<1>2. pc[j] = "update" /\ (auto[DbOf[j]] \/ score' = score)
  BY <1>1, UpdateIs
<1> QED BY <1>1, <1>2 DEF DbOK, Working

\* A job reads what is committed.
LEMMA ReadStep ==
  ASSUME Base, Base', ReadInv, [Next]_vars
  PROVE  ReadInv'
<1> SUFFICES ASSUME ~crossed', ~mixed', NEW k \in Job, Working(k)'
             PROVE  ViewOK(k)' /\ CurrentOK(k)'
  BY DEF ReadInv
<1>1. ~crossed /\ ~mixed /\ faults \subseteq faults'
  BY StepsAre DEF Base
<1>2. \A i \in Job : Working(i) => ViewOK(i) /\ CurrentOK(i)
  BY <1>1 DEF ReadInv
<1>3. TypeOK /\ JobsOK /\ LocksOK /\ Apart /\ DbOK
  BY DEF Base
<1>4. CASE UNCHANGED <<mysql, lock, jobs>>
  BY <1>1, <1>2, <1>4 DEF mysql, jobs, Working, ViewOK, CurrentOK, Settles, NextPlayer
<1>5. ASSUME NEW j \in Job, Begin(j) \/ JobStep(j) PROVE ViewOK(k)' /\ CurrentOK(k)'
  <2> DEFINE e == DbOf[j]
             n == NextPlayer(j)
  <2>1. e \in Db /\ DbOf[k] \in Db
    BY ConstantsAssumption
  <2>2. CASE k # j
    <3>1. /\ Working(k) /\ Settles(k)' = Settles(k) /\ NextPlayer(k)' = NextPlayer(k)
          /\ pc'[k] = pc[k] /\ current'[k] = current[k]
      BY <1>3, <1>5, <2>2, JobAlone, JobStays
    <3>2. Busy(k) /\ ViewOK(k) /\ CurrentOK(k)
      BY <1>2, <3>1, SettlesAre
    <3>3. \A u \in Settles(k) : score'[u] = score[u]
      BY <1>1, <1>5, <2>2, <3>2, ScoreKept
    <3>4. pc[k] \in {"update", "cache"} => NextPlayer(k) \in Settles(k)
      BY <1>3, SettlesAre DEF JobsOK
    <3>5. view'[DbOf[k]] = view[DbOf[k]]
      <4>1. Busy(j) => DbOf[j] # DbOf[k]
        BY <1>1, <1>3, <2>2, <3>2, OneAtWork
      <4>2. CASE Begin(j) \/ AcquireLock(j) \/ ReleaseLock(j)
        BY <1>3, <4>2, BeginIs, AcquireIs, ReleaseIs DEF mysql
      <4>3. CASE UpdateScore(j) \/ UpdatePlayerScore(j)
        BY <1>3, <4>3, UpdateIs, CacheIs DEF mysql
      <4>4. CASE SelectScore(j)
        <5>1. Busy(j) /\ \A d \in Db \ {e} : view'[d] = view[d]
          BY <1>3, <4>4, SelectIs DEF Busy
        <5> QED BY <2>1, <4>1, <5>1
      <4>5. CASE Commit(j) \/ Rollback(j)
        <5>1. Busy(j) /\ \A d \in Db \ {e} : view'[d] = view[d]
          BY <1>3, <4>5, EndIs DEF Busy
        <5> QED BY <2>1, <4>1, <5>1
      <4> QED BY <1>5, <4>2, <4>3, <4>4, <4>5 DEF JobStep
    <3>6. ViewOK(k)'
      BY <3>1, <3>2, <3>3, <3>5 DEF ViewOK
    <3>7. CurrentOK(k)'
      BY <1>1, <3>1, <3>2, <3>3, <3>4 DEF CurrentOK
    <3> QED BY <3>6, <3>7
  <2>3. CASE k = j
    <3>1. CASE Begin(j) \/ Commit(j) \/ Rollback(j) \/ ReleaseLock(j)
      <4>1. ~Working(j)'
        BY <1>3, <3>1, BeginIs, EndIs, ReleaseIs DEF Working
      <4> QED BY <2>3, <4>1
    <3>2. CASE AcquireLock(j)
      <4>1. pc[j] = "lock" /\ pc'[j] = "select" /\ view' = view
        BY <1>3, <2>3, <3>2, AcquireIs DEF Working
      <4>2. ASSUME NEW i \in Job, DbOf[i] = e, Working(i) PROVE FALSE
        <5>1. i # j /\ pc'[i] = pc[i]
          BY <1>3, <1>5, <4>1, <4>2, JobAlone DEF Working
        <5>2. Busy(i)' /\ Busy(j)'
          BY <4>1, <4>2, <5>1 DEF Busy, Working
        <5>3. RoomOf[i] = RoomOf[j]
          BY <4>2, <5>2 DEF Base, Apart
        <5> QED BY <5>1, <5>2, <5>3 DEF Base, LocksOK
      <4>3. DOMAIN view[e] = {}
        BY <1>3, <2>1, <4>2 DEF DbOK
      <4> QED BY <2>3, <4>1, <4>3 DEF ViewOK, CurrentOK
    <3>3. CASE SelectScore(j)
      <4>1. /\ pc[j] = "select" /\ DOMAIN gain[j] # {} /\ UNCHANGED <<score, gain, final>>
            /\ \/ /\ current'[j] = Reads(e)[n]
                  /\ view'[e] = IF auto[e] \/ DOMAIN view[e] # {} THEN view[e] ELSE score
               \/ "select" \in faults' /\ view' = view
        BY <1>3, <3>3, SelectIs
      <4>2. Working(j) /\ Busy(j) /\ Settles(j)' = Settles(j) /\ n' = n
        BY <4>1 DEF Working, Busy, Settles, NextPlayer
      <4>3. ~auto[e] /\ ViewOK(j)
        BY <1>1, <1>2, <1>3, <2>1, <4>2 DEF DbOK
      <4>4. n \in Settles(j) /\ n \notin DOMAIN final[j] /\ n \in User /\ Settles(j) \subseteq User
        BY <4>1, SettlesAre
      <4>5. n \notin DOMAIN tx[e]
        <5>1. n \notin Done(j)
          BY <4>1, <4>4 DEF Done
        <5> QED BY <1>1, <2>1, <4>2, <4>4, <5>1, RowIsOwn
      <4>6. DOMAIN score = User
        BY <1>3 DEF TypeOK
      <4>7. ViewOK(j)'
        BY <4>1, <4>2, <4>3, <4>4, <4>6 DEF ViewOK
      <4>8. Reads(e)[n] = score[n]
        BY <4>3, <4>4, <4>5 DEF Reads, ViewOK
      <4>9. CurrentOK(j)'
        BY <4>1, <4>2, <4>8 DEF CurrentOK
      <4> QED BY <2>3, <4>7, <4>9
    <3>4. CASE UpdateScore(j)
      <4>1. pc[j] = "update" /\ UNCHANGED <<view, gain, current, final>>
        BY <1>3, <3>4, UpdateIs
      <4>2. score' = score
        BY <1>1, <3>4, UpdateKeeps
      <4>3. Working(j) /\ Settles(j)' = Settles(j) /\ n' = n
        BY <4>1 DEF Working, Settles, NextPlayer
      <4>4. ViewOK(j) /\ CurrentOK(j)
        BY <1>2, <4>3
      <4> QED BY <1>1, <2>3, <4>1, <4>2, <4>3, <4>4 DEF ViewOK, CurrentOK
    <3>5. CASE UpdatePlayerScore(j)
      <4>1. pc[j] = "cache" /\ pc'[j] \in {"select", "end"} /\ UNCHANGED <<score, view>>
        BY <1>3, <3>5, CacheIs DEF mysql
      <4>2. Settles(j)' = Settles(j) /\ ViewOK(j)
        BY <1>2, <3>5, <4>1, SettlesStay DEF Working
      <4> QED BY <2>3, <4>1, <4>2 DEF ViewOK, CurrentOK
    <3> QED BY <1>5, <3>1, <3>2, <3>3, <3>4, <3>5 DEF JobStep
  <2> QED BY <2>2, <2>3
<1> QED BY <1>3, <1>4, <1>5, StepsAre

\* What balances goes on balancing if nothing changes of it.
LEMMA SameBalance ==
  ASSUME NEW j \in Job, Balanced(j), Settles(j)' = Settles(j),
         \A u \in Settles(j) : Change(j, u)' = Change(j, u)
  PROVE  Balanced(j)'
<1>1. PICK lord \in User, farmers \in SUBSET User, stake \in {-1, 1} :
        IsSettlement(j, lord, farmers, stake)
  BY DEF Balanced
<1>2. lord \in Settles(j) /\ farmers \subseteq Settles(j)
  BY <1>1 DEF IsSettlement
<1>3. IsSettlement(j, lord, farmers, stake)'
  BY <1>1, <1>2 DEF IsSettlement
<1> QED BY <1>3 DEF Balanced

\* The shares of a game balance: two farmers and a landlord, who has the double.
LEMMA SharesBalance ==
  ASSUME Base, NEW j \in Job, Begin(j)
  PROVE  Balanced(j)'
<1> PICK S, lord, stake : /\ S = order[RoomOf[j]] /\ lord = Min(S)
                          /\ stake = IF won[RoomOf[j]] = "lord" THEN 1 ELSE -1
  OBVIOUS
<1>1. TypeOK /\ JobsOK /\ OrderOK /\ RoomOf[j] \in Room
  BY ConstantsAssumption DEF Base
<1>2. /\ pc[j] = "idle" /\ won[RoomOf[j]] # "none" /\ DOMAIN gain'[j] = S /\ final' = final
      /\ \A u \in S : gain'[j][u] = Share(RoomOf[j], u)
  BY <1>1, BeginIs
<1>3. S \subseteq User /\ Cardinality(S) = 3
  BY <1>1, <1>2 DEF TypeOK, OrderOK
<1>4. IsFiniteSet(S)
  BY <1>3, FS_Subset, ConstantsAssumption
<1>5. S # {}
  BY <1>3, FS_EmptySet
<1>6. lord \in S
  BY <1>3, <1>5, MinIs
<1>7. Cardinality(S \ {lord}) = Cardinality(S) - 1
  BY <1>4, <1>6, FS_RemoveElement
<1>8. Cardinality(S \ {lord}) = 2
  BY <1>3, <1>7
<1>9. DOMAIN final'[j] = {}
  BY <1>1, <1>2 DEF JobsOK, Busy
<1>10. Settles(j)' = S /\ \A u \in S : Change(j, u)' = Share(RoomOf[j], u)
  BY <1>2, <1>9 DEF Settles, Change
<1>11. Share(RoomOf[j], lord) = 2 * stake /\ \A u \in S \ {lord} : Share(RoomOf[j], u) = -stake
  BY SharesAre
<1>12. S = {lord} \cup (S \ {lord}) /\ lord \in User /\ S \ {lord} \in SUBSET User
       /\ stake \in {-1, 1}
  BY <1>3, <1>6
<1>13. IsSettlement(j, lord, S \ {lord}, stake)'
  BY <1>6, <1>8, <1>10, <1>11, <1>12 DEF IsSettlement
<1> QED BY <1>12, <1>13 DEF Balanced

\* The shares of a job balance until it has committed them.
LEMMA BalanceStep ==
  ASSUME Base, ReadInv, BalanceInv, [Next]_vars
  PROVE  BalanceInv'
<1> SUFFICES ASSUME NEW k \in Job, Balances(k)' PROVE Balanced(k)'
  BY DEF BalanceInv
<1>1. (~crossed' => ~crossed) /\ (~mixed' => ~mixed) /\ faults \subseteq faults'
  BY StepsAre DEF Base
<1>2. TypeOK /\ JobsOK
  BY DEF Base
<1>3. ASSUME Balances(k), Settles(k)' = Settles(k),
             \A u \in Settles(k) : Change(k, u)' = Change(k, u)
      PROVE  Balanced(k)'
  BY <1>3, SameBalance DEF BalanceInv
<1>4. CASE UNCHANGED <<mysql, lock, jobs>>
  BY <1>1, <1>3, <1>4 DEF mysql, jobs, Balances, Working, Settles, Change
<1>5. ASSUME NEW j \in Job, Begin(j) \/ JobStep(j) PROVE Balanced(k)'
  <2>1. CASE k # j
    <3>1. /\ Settles(k)' = Settles(k) /\ Working(k)' = Working(k) /\ pc'[k] = pc[k]
          /\ gain'[k] = gain[k] /\ final'[k] = final[k] /\ ok'[k] = ok[k]
      BY <1>2, <1>5, <2>1, JobAlone, JobStays
    <3>2. Balances(k)
      BY <1>1, <3>1 DEF Balances
    <3>3. CASE pc[k] = "lock"
      <4>1. DOMAIN final[k] = {}
        BY <1>2, <3>3 DEF JobsOK, Busy
      <4> QED BY <1>3, <3>1, <3>2, <4>1 DEF Change
    <3>4. CASE pc[k] # "lock"
      <4>1. ~crossed /\ ~mixed /\ Working(k) /\ Busy(k)
        BY <3>2, <3>4, SettlesAre DEF Balances
      <4>2. \A u \in Settles(k) : score'[u] = score[u]
        BY <1>5, <2>1, <4>1, ScoreKept
      <4> QED BY <1>3, <3>1, <3>2, <4>2 DEF Change
    <3> QED BY <3>3, <3>4
  <2>2. CASE k = j
    <3>1. CASE Begin(j)
      BY <2>2, <3>1, SharesBalance
    <3>2. CASE Commit(j) \/ Rollback(j) \/ ReleaseLock(j)
      <4>1. ~Working(j)' /\ pc'[j] # "lock"
        BY <1>2, <3>2, EndIs, ReleaseIs DEF Working
      <4> QED BY <2>2, <4>1 DEF Balances
    <3>3. ASSUME UNCHANGED <<score, gain, final>>, Balances(j) PROVE Balanced(j)'
      BY <1>3, <2>2, <3>3 DEF Settles, Change
    <3>4. CASE AcquireLock(j)
      <4>1. UNCHANGED <<score, final>> /\ pc[j] = "lock" /\ (pc'[j] = "done" \/ gain' = gain)
        BY <1>2, <3>4, AcquireIs
      <4>2. pc'[j] # "done"
        BY <2>2 DEF Balances, Working
      <4> QED BY <2>2, <3>3, <4>1, <4>2 DEF Balances
    <3>5. CASE SelectScore(j)
      <4>1. UNCHANGED <<score, gain, final, ok>> /\ pc[j] = "select" /\ pc'[j] = "update"
        BY <1>2, <3>5, SelectIs
      <4> QED BY <1>1, <2>2, <3>3, <4>1 DEF Balances, Working
    <3>6. CASE UpdateScore(j)
      <4>1. /\ UNCHANGED <<gain, final>> /\ pc[j] = "update" /\ pc'[j] = "cache"
            /\ (ok'[j] = FALSE \/ ok' = ok)
        BY <1>2, <3>6, UpdateIs
      <4>2. Balances(j) /\ ~mixed
        BY <1>1, <2>2, <4>1 DEF Balances, Working
      <4> QED BY <2>2, <3>3, <3>6, <4>1, <4>2, UpdateKeeps
    <3>7. CASE UpdatePlayerScore(j)
      <4>0. PICK n : n = NextPlayer(j)
        OBVIOUS
      <4>1. /\ pc[j] = "cache" /\ pc'[j] \in {"select", "end"} /\ UNCHANGED <<score, ok, current>>
            /\ DOMAIN gain'[j] = DOMAIN gain[j] \ {n}
            /\ \A u \in DOMAIN gain'[j] : gain'[j][u] = gain[j][u]
            /\ DOMAIN final'[j] = DOMAIN final[j] \cup {n} /\ final'[j][n] = NewScore(j)
            /\ \A u \in DOMAIN final[j] \ {n} : final'[j][u] = final[j][u]
        BY <1>2, <3>7, <4>0, CacheIs DEF mysql
      <4>2. Balances(j) /\ ~crossed /\ ~mixed /\ "select" \notin faults /\ Working(j)
        BY <1>1, <2>2, <4>1 DEF Balances, Working
      <4>3. current[j] = score[n] /\ n \in DOMAIN gain[j] /\ n \notin DOMAIN final[j] /\ n \in User
        <5>1. DOMAIN gain[j] # {}
          BY <1>2, <4>1 DEF JobsOK
        <5>2. CurrentOK(j)
          BY <4>2 DEF ReadInv
        <5> QED BY <1>2, <4>0, <4>1, <4>2, <5>1, <5>2, SettlesAre, NextIs DEF CurrentOK
      <4>4. gain[j][n] \in Int /\ score[n] \in Int
        <5>1. gain[j][n] \in {-2, -1, 1, 2}
          BY <1>2, <4>0, <4>3, NextIs
        <5>2. score[n] \in Int
          BY <1>2, <4>3 DEF TypeOK
        <5> QED BY <5>1, <5>2
      <4>5. Change(j, n)' = gain[j][n] /\ Change(j, n) = gain[j][n]
        BY <4>0, <4>1, <4>3, <4>4 DEF Change, NewScore
      <4>6. \A u \in Settles(j) \ {n} : Change(j, u)' = Change(j, u)
        BY <4>1 DEF Change, Settles
      <4>7. Settles(j)' = Settles(j)
        BY <3>7, SettlesStay
      <4> QED BY <1>3, <2>2, <4>2, <4>5, <4>6, <4>7
    <3> QED BY <1>5, <2>2, <3>1, <3>2, <3>4, <3>5, <3>6, <3>7 DEF JobStep
  <2> QED BY <2>1, <2>2
<1> QED BY <1>2, <1>4, <1>5, StepsAre

\* What a job tells is what it has committed.
LEMMA ToldStep ==
  ASSUME Base, WroteInv, ToldInv, [Next]_vars
  PROVE  ToldInv'
<1> SUFFICES ASSUME ~crossed', ~mixed', "commit" \notin faults',
                    NEW k \in Job, pc'[k] = "tell", NEW u \in DOMAIN final'[k]
             PROVE  final'[k][u] = score'[u]
  BY DEF ToldInv
<1>1. ~crossed /\ ~mixed /\ "commit" \notin faults
  BY StepsAre DEF Base
<1>2. TypeOK /\ JobsOK
  BY DEF Base
<1>3. CASE UNCHANGED <<mysql, lock, jobs>>
  BY <1>1, <1>3 DEF mysql, jobs, ToldInv
<1>4. ASSUME NEW j \in Job, Begin(j) \/ JobStep(j) PROVE final'[k][u] = score'[u]
  <2>1. CASE k # j
    <3>1. pc[k] = "tell" /\ final'[k] = final[k]
      BY <1>2, <1>4, <2>1, JobAlone
    <3>2. Busy(k) /\ u \in Settles(k)
      BY <3>1, SettlesAre DEF Busy
    <3>3. score'[u] = score[u]
      BY <1>1, <1>4, <2>1, <3>2, ScoreKept
    <3> QED BY <1>1, <3>1, <3>3 DEF ToldInv
  <2>2. CASE k = j
    <3>1. pc'[j] = "tell" => Commit(j)
      <4>1. CASE Begin(j) \/ AcquireLock(j) \/ ReleaseLock(j)
        BY <1>2, <4>1, BeginIs, AcquireIs, ReleaseIs
      <4>2. CASE SelectScore(j) \/ UpdateScore(j) \/ UpdatePlayerScore(j)
        BY <1>2, <4>2, SelectIs, UpdateIs, CacheIs
      <4>3. CASE Rollback(j)
        <5>1. ~ok[j]
          BY <4>3 DEF Rollback
        <5> QED BY <1>2, <4>3, <5>1, EndIs
      <4> QED BY <1>4, <4>1, <4>2, <4>3 DEF JobStep
    <3>2. /\ pc[j] = "end" /\ ok[j] /\ final' = final
          /\ \A v \in User : score'[v] = Pending(DbOf[j], v)
      BY <1>2, <2>2, <3>1, EndIs
    <3>3. Working(j) /\ Done(j) = DOMAIN final[j] /\ u \in Done(j)
      BY <2>2, <3>2 DEF Working, Done
    <3>4. u \in User
      BY <3>3, SettlesAre
    <3>5. Wrote(j, u) = final[j][u] /\ Wrote(j, u) = Pending(DbOf[j], u)
      BY <1>1, <3>2, <3>3 DEF Wrote, WroteInv
    <3> QED BY <2>2, <3>2, <3>4, <3>5
  <2> QED BY <2>1, <2>2
<1> QED BY <1>2, <1>3, <1>4, StepsAre

-----------------------------------------------------------------------------
\* All of it holds in the beginning ...
LEMMA ScoredInit ==
  ASSUME Init, TypeOK
  PROVE  /\ LocksOK /\ OrderOK /\ JobsOK /\ DbOK /\ Apart
         /\ WroteInv /\ ReadInv /\ BalanceInv /\ ToldInv
<1>1. /\ \A j \in Job : pc[j] = "idle" /\ DOMAIN gain[j] = {} /\ DOMAIN final[j] = {} /\ ok[j]
      /\ \A d \in Db : auto[d] /\ DOMAIN tx[d] = {} /\ DOMAIN view[d] = {}
      /\ \A r \in Room : lock[r] = NoJob /\ won[r] = "none"
  BY EmptyIs DEF Init
<1>2. \A j \in Job : ~Busy(j) /\ ~Working(j)
  BY <1>1 DEF Busy, Working
<1>3. RoomOf \in [Job -> Room] /\ NoJob \notin Job
  BY ConstantsAssumption
<1>4. LocksOK
  BY <1>1, <1>2, <1>3 DEF LocksOK
<1>5. OrderOK /\ JobsOK
  BY <1>1, <1>2 DEF OrderOK, JobsOK
<1>6. DbOK /\ Apart
  BY <1>1, <1>2 DEF DbOK, Apart
<1>7. WroteInv /\ ReadInv /\ ToldInv
  BY <1>1, <1>2 DEF WroteInv, ReadInv, ToldInv
<1>8. BalanceInv
  BY <1>1, <1>2 DEF BalanceInv, Balances
<1> QED BY <1>4, <1>5, <1>6, <1>7, <1>8

\* ... and from then on.
Scored == Base /\ WroteInv /\ ReadInv /\ BalanceInv /\ ToldInv

\* The inductive invariant holds in every state.
LEMMA ScoredAlways == Spec => []Scored
<1>1. Init /\ TypeOK => Scored
  BY ScoredInit DEF Scored, Base
<1>2. TypeOK /\ TypeOK' /\ Scored /\ [Next]_vars => Scored'
  <2> SUFFICES ASSUME TypeOK, TypeOK', Scored, [Next]_vars PROVE Scored'
    OBVIOUS
  <2>1. Base /\ WroteInv /\ ReadInv /\ BalanceInv /\ ToldInv
    BY DEF Scored
  <2>2. LocksOK /\ OrderOK /\ JobsOK /\ DbOK /\ Apart
    BY <2>1 DEF Base
  <2>3. LocksOK' /\ OrderOK' /\ JobsOK'
    BY <2>2, LocksStep, OrderStep, JobsStep
  <2>4. DbOK' /\ Apart'
    BY <2>2, DbStep, ApartStep
  <2>5. Base'
    BY <2>3, <2>4 DEF Base
  <2>6. WroteInv' /\ ReadInv'
    BY <2>1, <2>5, WroteStep, ReadStep
  <2>7. BalanceInv' /\ ToldInv'
    BY <2>1, BalanceStep, ToldStep
  <2> QED BY <2>5, <2>6, <2>7 DEF Scored
<1>3. Spec => []TypeOK
  BY TypeCorrect
<1> QED BY <1>1, <1>2, <1>3, PTL DEF Spec

\* What no job has open, MySQL has not open: transaction, commit and rollback
\* of MysqlConn, whatever fails.
THEOREM NobodyIsBlocked == Spec => []NothingLeftOpen
<1>1. Scored => NothingLeftOpen
  <2> SUFFICES ASSUME Scored, NEW d \in Db, \A j \in Job : DbOf[j] = d => ~Busy(j)
               PROVE  auto[d] /\ tx[d] = Empty
    BY DEF NothingLeftOpen
  <2>1. \A j \in Job : DbOf[j] = d => ~Working(j)
    BY DEF Busy, Working
  <2>2. auto[d] /\ DOMAIN tx[d] = {}
    BY <2>1 DEF Scored, Base, DbOK
  <2>3. Scores(tx[d])
    BY DEF Scored, Base, TypeOK, ScoresOf
  <2> QED BY <2>2, <2>3, EmptyIs
<1> QED BY <1>1, ScoredAlways, PTL

\* A job leaves "tell" with what it has committed.
THEOREM ToldWhatIsSaved == Spec => ToldIsSaved
<1>1. Scored => \A j \in Job :
        (At(j, "tell") /\ ~At(j, "tell")') =>
           \/ crossed \/ mixed \/ "commit" \in faults
           \/ \A u \in DOMAIN final[j] : final[j][u] = score[u]
  BY DEF Scored, ToldInv, At
<1>2. Scored /\ [Next]_vars =>
        [\A j \in Job :
           (At(j, "tell") /\ ~At(j, "tell")') =>
              \/ crossed \/ mixed \/ "commit" \in faults
              \/ \A u \in DOMAIN final[j] : final[j][u] = score[u]]_vars
  BY <1>1
<1> QED BY <1>2, ScoredAlways, PTL DEF Spec, ToldIsSaved

\* The ledger counts as the model does.
LEMMA SameCardinality == \A S : Settlements!Cardinality(S) = Cardinality(S)
BY DEF Settlements!Cardinality, Cardinality

\* A commit settles a game for its landlord and its two farmers at once.
LEMMA CommitSettles ==
  ASSUME Scored, ~crossed, ~mixed, "select" \notin faults, NEW j \in Job,
         pc[j] = "end", ok[j], \A u \in User : score'[u] = Pending(DbOf[j], u),
         score' \in [User -> Int]
  PROVE  \E lord \in User, stake \in {-1, 1} : \E farmers \in SUBSET (User \ {lord}) :
           Cardinality(farmers) = 2 /\ Settlements!Settle(lord, farmers, stake)
<1>1. Base /\ WroteInv /\ TypeOK /\ JobsOK /\ LocksOK /\ Apart /\ DbOK
  BY DEF Scored, Base
<1>2. Working(j) /\ Busy(j) /\ Done(j) = DOMAIN final[j] /\ DOMAIN gain[j] = {}
  BY <1>1 DEF Working, Busy, Done, JobsOK
<1>3. PICK lord \in User, farmers \in SUBSET User, stake \in {-1, 1} :
        IsSettlement(j, lord, farmers, stake)
  BY <1>2 DEF Scored, BalanceInv, Balances, Balanced
<1>4. /\ lord \notin farmers /\ Cardinality(farmers) = 2 /\ DOMAIN final[j] = {lord} \cup farmers
      /\ Change(j, lord) = 2 * stake /\ \A u \in farmers : Change(j, u) = -stake
  BY <1>2, <1>3 DEF IsSettlement, Settles
<1>5. \A u \in DOMAIN final[j] : score'[u] = final[j][u] /\ Change(j, u) = score'[u] - score[u]
  <2> SUFFICES ASSUME NEW u \in DOMAIN final[j]
               PROVE  score'[u] = final[j][u] /\ Change(j, u) = score'[u] - score[u]
    OBVIOUS
  <2>1. u \in User
    BY <1>1, <1>4
  <2>2. final[j][u] = Pending(DbOf[j], u)
    BY <1>1, <1>2 DEF WroteInv, Wrote
  <2> QED BY <2>1, <2>2 DEF Change
<1>6. \A u \in User \ DOMAIN final[j] : score'[u] = score[u]
  <2> SUFFICES ASSUME NEW u \in User \ DOMAIN final[j] PROVE score'[u] = score[u]
    OBVIOUS
  <2>1. DbOf[j] \in Db
    BY ConstantsAssumption
  <2>2. u \notin DOMAIN tx[DbOf[j]]
    <3> SUFFICES ASSUME u \in DOMAIN tx[DbOf[j]] PROVE FALSE
      OBVIOUS
    <3>1. PICK k \in Job : DbOf[k] = DbOf[j] /\ Working(k) /\ u \in Done(k)
      BY <1>1, <2>1 DEF DbOK
    <3>2. k = j
      BY <1>1, <1>2, <3>1, SettlesAre, OneAtWork
    <3> QED BY <1>2, <3>1, <3>2
  <2> QED BY <2>2 DEF Pending
<1>7. \A u \in User : score'[u] \in Int /\ score[u] \in Int
  BY <1>1 DEF TypeOK
<1>8. score'[lord] = score[lord] + 2 * stake
  BY <1>4, <1>5, <1>7
<1>9. \A u \in farmers : score'[u] = score[u] - stake
  BY <1>4, <1>5, <1>7
<1>10. score' = [u \in User |-> CASE u = lord -> score[u] + 2 * stake
                                  [] u \in farmers -> score[u] - stake
                                  [] OTHER -> score[u]]
  <2>1. \A u \in User : score'[u] = CASE u = lord -> score[u] + 2 * stake
                                      [] u \in farmers -> score[u] - stake
                                      [] OTHER -> score[u]
    BY <1>4, <1>6, <1>8, <1>9
  <2> QED BY <2>1
<1>11. Settlements!Settle(lord, farmers, stake)
  BY <1>10 DEF Settlements!Settle
<1>12. farmers \in SUBSET (User \ {lord})
  BY <1>4
<1> QED BY <1>4, <1>11, <1>12

\* The lock and the transaction of calculateAndUpdateGameScores implement a
\* ledger: scores change by whole settlements.
THEOREM SettledAsAWhole == Spec => ScoresSettled
<1>1. Init => Settlements!Init
  BY DEF Init, Settlements!Init
<1>2. Scored /\ TypeOK' /\ [Next]_vars => [Settlements!Next]_(Settlements!vars)
  <2> SUFFICES ASSUME Scored, TypeOK', [Next]_vars PROVE Settlements!Next
    OBVIOUS
  <2>1. Base /\ TypeOK
    BY DEF Scored, Base
  <2>2. CASE ~(~crossed' /\ ~mixed' /\ "select" \notin faults')
    BY <2>2 DEF Settlements!Next
  <2>3. CASE ~crossed' /\ ~mixed' /\ "select" \notin faults'
    <3>1. ~crossed /\ ~mixed /\ "select" \notin faults
      BY <2>1, <2>3, StepsAre
    <3>2. ASSUME score' = score PROVE Settlements!Next
      BY <2>3, <3>2 DEF Settlements!Next
    <3>3. CASE UNCHANGED <<mysql, lock, jobs>>
      BY <3>2, <3>3 DEF mysql
    <3>4. ASSUME NEW j \in Job, Begin(j) \/ JobStep(j) PROVE Settlements!Next
      <4>1. CASE Begin(j) \/ AcquireLock(j) \/ ReleaseLock(j)
        BY <2>1, <3>2, <4>1, BeginIs, AcquireIs, ReleaseIs DEF mysql
      <4>2. CASE SelectScore(j) \/ UpdatePlayerScore(j)
        BY <2>1, <3>2, <4>2, SelectIs, CacheIs DEF mysql
      <4>3. CASE UpdateScore(j)
        BY <2>1, <3>1, <3>2, <4>3, UpdateKeeps
      <4>4. CASE Commit(j) \/ Rollback(j)
        <5>1. \/ score' = score
              \/ pc[j] = "end" /\ ok[j] /\ \A u \in User : score'[u] = Pending(DbOf[j], u)
          BY <2>1, <4>4, EndIs
        <5>2. CASE pc[j] = "end" /\ ok[j] /\ \A u \in User : score'[u] = Pending(DbOf[j], u)
          <6>1. score' \in [User -> Int]
            BY DEF TypeOK
          <6>2. \E lord \in User, stake \in {-1, 1} : \E farmers \in SUBSET (User \ {lord}) :
                  Cardinality(farmers) = 2 /\ Settlements!Settle(lord, farmers, stake)
            BY <3>1, <5>2, <6>1, CommitSettles
          <6> QED BY <2>3, <6>2, SameCardinality DEF Settlements!Next
        <5> QED BY <3>2, <5>1, <5>2
      <4> QED BY <3>4, <4>1, <4>2, <4>3, <4>4 DEF JobStep
    <3> QED BY <2>1, <3>3, <3>4, StepsAre
  <2> QED BY <2>2, <2>3
<1>3. Scored /\ [Next]_vars =>
        [~(~crossed /\ ~mixed /\ "select" \notin faults) =>
           ~(~crossed /\ ~mixed /\ "select" \notin faults)']_(Settlements!vars)
  BY StepsAre DEF Scored, Base
<1>4. Spec => []TypeOK
  BY TypeCorrect
<1> QED BY <1>1, <1>2, <1>3, <1>4, ScoredAlways, PTL DEF Spec, ScoresSettled, Settlements!Spec

-----------------------------------------------------------------------------
\* The players of a job at work are at rest in its room.
LEMMA AtRest ==
  ASSUME Base, ~strayed, NEW j \in Job, Working(j), NEW u \in Done(j) \cup DOMAIN final[j]
  PROVE  at[u] = "idle" /\ inside[u] /\ place[u] = RoomOf[j] /\ u \in User
<1>1. Busy(j) /\ u \in Settles(j) /\ u \in User
  BY SettlesAre
<1> QED BY <1>1 DEF Base, Apart

\* The sorted sets stay right when a player does something of his own, ...
LEMMA PlayerFrame ==
  ASSUME Base, TypeOK', CacheInv, faults' = {}, ~crossed', ~strayed', faults = {}, ~crossed, ~strayed,
         UNCHANGED <<mysql, lock, jobs>>, Apart', NEW u \in User,
         at[u] # "idle" \/ at'[u] # "idle" \/ ~inside'[u],
         \A v \in User \ {u} : /\ at'[v] = at[v] /\ inside'[v] = inside[v]
                               /\ place'[v] = place[v] /\ carried'[v] = carried[v],
         \A r \in Room : \A v \in User \ {u} :
           /\ v \in DOMAIN cache'[r] <=> v \in DOMAIN cache[r]
           /\ v \in DOMAIN cache[r] => cache'[r][v] = cache[r][v],
         \A r \in Room : u \in DOMAIN cache'[r] <=> (inside'[u] /\ place'[u] = r),
         PlayerCached(u)'
  PROVE  CacheInv'
<1>1. MembersCached /\ WrittenCached /\ \A v \in User : PlayerCached(v)
  BY DEF CacheInv
<1>2. \A j \in Job : Working(j)' = Working(j) /\ Done(j)' = Done(j) /\ final'[j] = final[j]
                     /\ Busy(j)' = Busy(j) /\ Settles(j)' = Settles(j) /\ RoomOf[j] \in Room
  BY ConstantsAssumption DEF jobs, Working, Done, Busy, Settles, NextPlayer
<1>3. \A v \in User : score'[v] = score[v] /\ place[v] \in Room
  BY DEF mysql, Base, TypeOK
<1>4. MembersCached'
  <2>1. \A r \in Room : DOMAIN cache'[r] \subseteq User
    BY DEF TypeOK, ScoresOf, Scores
  <2>2. \A r \in Room : \A v \in User : v \in DOMAIN cache'[r] <=> (inside'[v] /\ place'[v] = r)
    BY <1>1 DEF MembersCached, Members
  <2> QED BY <2>1, <2>2 DEF MembersCached, Members
<1>5. WrittenCached'
  <2> SUFFICES ASSUME NEW j \in Job, Working(j)', NEW v \in DOMAIN final'[j]
               PROVE  cache'[RoomOf[j]][v] = final'[j][v]
    BY DEF WrittenCached
  <2>1. Working(j) /\ v \in DOMAIN final[j] /\ Busy(j)' /\ v \in Settles(j)'
    BY <1>2, SettlesAre
  <2>2. at[v] = "idle" /\ inside[v] /\ place[v] = RoomOf[j] /\ v \in User
    BY <2>1, AtRest
  <2>3. at'[v] = "idle" /\ inside'[v]
    BY <2>1 DEF Apart
  <2>4. v # u
    BY <2>2, <2>3
  <2>5. v \in DOMAIN cache[RoomOf[j]]
    BY <1>1, <1>2, <2>2 DEF MembersCached, Members
  <2> QED BY <1>1, <1>2, <2>1, <2>2, <2>4, <2>5 DEF WrittenCached
<1>6. ASSUME NEW v \in User PROVE PlayerCached(v)'
  <2>1. CASE v = u
    BY <2>1
  <2>2. CASE v # u
    <3>1. /\ at'[v] = at[v] /\ inside'[v] = inside[v] /\ place'[v] = place[v]
          /\ carried'[v] = carried[v] /\ PlayerCached(v)
      BY <1>1, <2>2
    <3>2. inside[v] => v \in DOMAIN cache[place[v]]
      BY <1>1, <1>3 DEF MembersCached, Members
    <3>3. inside[v] => cache'[place[v]][v] = cache[place[v]][v]
      BY <1>3, <2>2, <3>2
    <3> QED BY <1>2, <1>3, <3>1, <3>3 DEF PlayerCached
  <2> QED BY <2>1, <2>2
<1> QED BY <1>4, <1>5, <1>6 DEF CacheInv

\* ... leaves, comes back, and has his score fetched and stored, ...
LEMMA CachePlayers ==
  ASSUME Base, TypeOK', Apart', CacheInv, faults' = {}, ~crossed', ~strayed',
         faults = {}, ~crossed, ~strayed, NEW u \in Mover, Player(u)
  PROVE  CacheInv'
<1>1. MembersCached /\ WrittenCached /\ PlayerCached(u) /\ u \in User
  BY ConstantsAssumption DEF CacheInv
<1>2. /\ at \in [User -> {"idle", "move", "load", "store"}] /\ inside \in [User -> BOOLEAN]
      /\ place \in [User -> Room] /\ carried \in [User -> Int] /\ DOMAIN cache = Room
  BY DEF Base, TypeOK, ScoresOf
<1>3. \A r \in Room : \A v \in User : v \in DOMAIN cache[r] <=> (inside[v] /\ place[v] = r)
  BY <1>1 DEF MembersCached, Members
<1>4. CASE LeaveRoom(u)
  <2>1. /\ at[u] = "idle" /\ at' = at /\ inside[u] /\ inside' = [inside EXCEPT ![u] = FALSE]
        /\ UNCHANGED <<mysql, lock, jobs, place, carried>>
        /\ cache' = [cache EXCEPT ![place[u]] =
                       Restrict(cache[place[u]], DOMAIN cache[place[u]] \ {u})]
    BY <1>4 DEF LeaveRoom
  <2>2. \A r \in Room : r # place[u] => cache'[r] = cache[r]
    BY <1>2, <2>1
  <2>3. /\ DOMAIN cache'[place[u]] = DOMAIN cache[place[u]] \ {u}
        /\ \A v \in DOMAIN cache[place[u]] \ {u} : cache'[place[u]][v] = cache[place[u]][v]
    <3>1. PICK w : w = Restrict(cache[place[u]], DOMAIN cache[place[u]] \ {u})
      OBVIOUS
    <3>2. /\ DOMAIN w = DOMAIN cache[place[u]] \ {u}
          /\ \A v \in DOMAIN cache[place[u]] \ {u} : w[v] = cache[place[u]][v]
      BY <3>1, RemovedIs
    <3>3. cache' = [cache EXCEPT ![place[u]] = w] /\ place[u] \in Room
      BY <1>1, <1>2, <2>1, <3>1
    <3> QED BY <1>2, <3>2, <3>3
  <2>4. ~inside'[u] /\ at'[u] = "idle"
    BY <1>1, <1>2, <2>1
  <2>5. PlayerCached(u)'
    BY <2>4 DEF PlayerCached
  <2>6. \A v \in User \ {u} : /\ at'[v] = at[v] /\ inside'[v] = inside[v]
                              /\ place'[v] = place[v] /\ carried'[v] = carried[v]
    BY <1>2, <2>1
  <2>7. \A r \in Room : \A v \in User \ {u} :
          /\ v \in DOMAIN cache'[r] <=> v \in DOMAIN cache[r]
          /\ v \in DOMAIN cache[r] => cache'[r][v] = cache[r][v]
    BY <2>2, <2>3
  <2>8. \A r \in Room : u \in DOMAIN cache'[r] <=> (inside'[u] /\ place'[u] = r)
    BY <1>1, <1>3, <2>2, <2>3, <2>4
  <2> QED BY <1>1, <2>1, <2>4, <2>5, <2>6, <2>7, <2>8, PlayerFrame
<1>5. CASE AddRoom(u)
  <2>1. /\ at[u] = "idle" /\ at' = [at EXCEPT ![u] = "move"]
        /\ carried' = [carried EXCEPT ![u] =
             IF u \in DOMAIN cache[place[u]] THEN cache[place[u]][u] ELSE 0]
        /\ UNCHANGED <<mysql, lock, jobs, cache, place, inside>>
    BY <1>5 DEF AddRoom
  <2>2. at'[u] = "move"
    BY <1>1, <1>2, <2>1
  <2>3. ASSUME NEW j \in Job, Working(j) PROVE u \notin Done(j)
    <3>1. Done(j)' = Done(j) /\ Busy(j)' /\ Settles(j)' = Settles(j) /\ Done(j) \subseteq Settles(j)
      BY <2>1, <2>3, SettlesAre DEF jobs, Done, Busy, Settles, NextPlayer
    <3> QED BY <2>2, <3>1 DEF Apart
  <2>4. PlayerCached(u)'
    <3>1. carried'[u] \in {0, score[u]}
      BY <1>1, <1>2, <1>3, <2>1, <2>3 DEF PlayerCached
    <3>2. score' = score
      BY <2>1 DEF mysql
    <3> QED BY <2>2, <3>1, <3>2 DEF PlayerCached
  <2>5. \A v \in User \ {u} : /\ at'[v] = at[v] /\ inside'[v] = inside[v]
                              /\ place'[v] = place[v] /\ carried'[v] = carried[v]
    BY <1>2, <2>1
  <2>6. \A r \in Room : u \in DOMAIN cache'[r] <=> (inside'[u] /\ place'[u] = r)
    BY <1>1, <1>3, <2>1
  <2> QED BY <1>1, <2>1, <2>2, <2>4, <2>5, <2>6, PlayerFrame
<1>6. ASSUME NEW r \in Room, MoveTo(u, r) PROVE CacheInv'
  <2>0. PICK p, left : p = place[u]
          /\ left = [cache EXCEPT ![p] = Restrict(cache[p], DOMAIN cache[p] \ {u})]
    OBVIOUS
  <2>1. /\ at[u] = "move" /\ at' = [at EXCEPT ![u] = IF carried[u] = 0 THEN "load" ELSE "store"]
        /\ place' = [place EXCEPT ![u] = r] /\ inside' = [inside EXCEPT ![u] = TRUE]
        /\ cache' = [left EXCEPT ![r] = With(left[r], u, 0)]
        /\ UNCHANGED <<mysql, lock, jobs, carried>>
    BY <1>6, <2>0 DEF MoveTo
  <2>2. /\ p \in Room /\ DOMAIN left = Room /\ DOMAIN left[p] = DOMAIN cache[p] \ {u}
        /\ \A v \in DOMAIN cache[p] \ {u} : left[p][v] = cache[p][v]
        /\ \A q \in Room \ {p} : left[q] = cache[q]
    <3>1. PICK w : w = Restrict(cache[p], DOMAIN cache[p] \ {u})
      OBVIOUS
    <3>2. DOMAIN w = DOMAIN cache[p] \ {u} /\ \A v \in DOMAIN cache[p] \ {u} : w[v] = cache[p][v]
      BY <3>1, RemovedIs
    <3>3. left = [cache EXCEPT ![p] = w] /\ p \in Room
      BY <1>1, <1>2, <2>0, <3>1
    <3> QED BY <1>2, <3>2, <3>3
  <2>3. /\ \A q \in Room \ {r} : cache'[q] = left[q]
        /\ DOMAIN cache'[r] = DOMAIN left[r] \cup {u}
        /\ \A v \in DOMAIN left[r] \ {u} : cache'[r][v] = left[r][v]
    <3>1. PICK w : w = With(left[r], u, 0)
      OBVIOUS
    <3>2. DOMAIN w = DOMAIN left[r] \cup {u} /\ \A v \in DOMAIN left[r] \ {u} : w[v] = left[r][v]
      BY <3>1 DEF With
    <3>3. cache' = [left EXCEPT ![r] = w]
      BY <2>1, <3>1
    <3> QED BY <2>2, <3>2, <3>3
  <2>4. at'[u] = (IF carried[u] = 0 THEN "load" ELSE "store") /\ inside'[u] /\ place'[u] = r
        /\ carried'[u] = carried[u] /\ score' = score
    BY <1>1, <1>2, <2>1 DEF mysql
  <2>5. PlayerCached(u)'
    BY <1>1, <2>1, <2>4 DEF PlayerCached
  <2>6. \A v \in User \ {u} : /\ at'[v] = at[v] /\ inside'[v] = inside[v]
                              /\ place'[v] = place[v] /\ carried'[v] = carried[v]
    BY <1>2, <2>1
  <2>7. \A q \in Room : \A v \in User \ {u} :
          /\ v \in DOMAIN cache'[q] <=> v \in DOMAIN cache[q]
          /\ v \in DOMAIN cache[q] => cache'[q][v] = cache[q][v]
    BY <2>2, <2>3
  <2>8. \A q \in Room : u \in DOMAIN cache'[q] <=> (inside'[u] /\ place'[u] = q)
    <3>1. u \in DOMAIN cache'[r]
      BY <2>3
    <3>2. \A q \in Room \ {r, p} : u \notin DOMAIN cache'[q]
      BY <1>1, <1>3, <2>0, <2>2, <2>3
    <3>3. r # p => u \notin DOMAIN cache'[p]
      BY <2>2, <2>3
    <3> QED BY <2>4, <3>1, <3>2, <3>3
  <2> QED BY <1>1, <2>1, <2>5, <2>6, <2>7, <2>8, PlayerFrame
<1>7. CASE LoadScore(u)
  <2>1. /\ at[u] = "load" /\ at' = [at EXCEPT ![u] = "store"]
        /\ carried' = [carried EXCEPT ![u] = score[u]]
        /\ UNCHANGED <<mysql, lock, jobs, cache, place, inside>>
    BY <1>7 DEF LoadScore, Fault
  <2>2. at'[u] = "store" /\ carried'[u] = score[u] /\ score' = score /\ inside'[u]
    BY <1>1, <1>2, <2>1 DEF mysql, PlayerCached
  <2>3. PlayerCached(u)'
    BY <2>2 DEF PlayerCached
  <2>4. \A v \in User \ {u} : /\ at'[v] = at[v] /\ inside'[v] = inside[v]
                              /\ place'[v] = place[v] /\ carried'[v] = carried[v]
    BY <1>2, <2>1
  <2>5. \A r \in Room : u \in DOMAIN cache'[r] <=> (inside'[u] /\ place'[u] = r)
    BY <1>1, <1>3, <2>1
  <2> QED BY <1>1, <2>1, <2>3, <2>4, <2>5, PlayerFrame
<1>8. CASE StoreScore(u)
  <2>1. /\ at[u] = "store" /\ at' = [at EXCEPT ![u] = "idle"]
        /\ carried' = [carried EXCEPT ![u] = 0]
        /\ cache' = [cache EXCEPT ![place[u]] = With(cache[place[u]], u, carried[u])]
        /\ UNCHANGED <<mysql, lock, jobs, place, inside>>
    BY <1>8 DEF StoreScore, Fault
  <2>2. /\ \A q \in Room \ {place[u]} : cache'[q] = cache[q]
        /\ DOMAIN cache'[place[u]] = DOMAIN cache[place[u]] \cup {u}
        /\ cache'[place[u]][u] = carried[u]
        /\ \A v \in DOMAIN cache[place[u]] \ {u} : cache'[place[u]][v] = cache[place[u]][v]
    <3>1. PICK w : w = With(cache[place[u]], u, carried[u])
      OBVIOUS
    <3>2. /\ DOMAIN w = DOMAIN cache[place[u]] \cup {u} /\ w[u] = carried[u]
          /\ \A v \in DOMAIN cache[place[u]] \ {u} : w[v] = cache[place[u]][v]
      BY <3>1 DEF With
    <3>3. cache' = [cache EXCEPT ![place[u]] = w] /\ place[u] \in Room
      BY <1>1, <1>2, <2>1, <3>1
    <3> QED BY <1>2, <3>2, <3>3
  <2>3. carried[u] = score[u] /\ inside[u] /\ score' = score /\ at'[u] = "idle"
        /\ place' = place /\ inside' = inside
    BY <1>1, <1>2, <2>1 DEF mysql, PlayerCached
  <2>4. PlayerCached(u)'
    BY <2>2, <2>3 DEF PlayerCached
  <2>5. \A v \in User \ {u} : /\ at'[v] = at[v] /\ inside'[v] = inside[v]
                              /\ place'[v] = place[v] /\ carried'[v] = carried[v]
    BY <1>2, <2>1
  <2>6. \A r \in Room : \A v \in User \ {u} :
          /\ v \in DOMAIN cache'[r] <=> v \in DOMAIN cache[r]
          /\ v \in DOMAIN cache[r] => cache'[r][v] = cache[r][v]
    BY <2>2
  <2>7. \A r \in Room : u \in DOMAIN cache'[r] <=> (inside'[u] /\ place'[u] = r)
    BY <1>1, <1>3, <2>2, <2>3
  <2> QED BY <1>1, <2>1, <2>4, <2>5, <2>6, <2>7, PlayerFrame
<1> QED BY <1>4, <1>5, <1>6, <1>7, <1>8 DEF Player

\* ... and when a job works: nothing but what it has done changes ...
LEMMA JobFrame ==
  ASSUME Base, CacheInv, faults = {}, ~crossed, ~strayed, UNCHANGED <<cache, rooms>>,
         \A k \in Job : /\ Working(k) => Working(k)' /\ Done(k) \subseteq Done(k)'
                        /\ Working(k)' => /\ final'[k] = final[k]
                                          /\ Working(k) \/ DOMAIN final[k] = {},
         \A u \in User : \/ score'[u] = score[u]
                         \/ at[u] = "idle" /\ \E k \in Job : Working(k)' /\ u \in Done(k)'
  PROVE  CacheInv'
<1>1. MembersCached /\ WrittenCached /\ \A u \in User : PlayerCached(u)
  BY DEF CacheInv
<1>2. place' = place /\ inside' = inside /\ at' = at /\ carried' = carried /\ cache' = cache
  BY DEF rooms
<1>3. MembersCached'
  BY <1>1, <1>2 DEF MembersCached, Members
<1>4. WrittenCached'
  BY <1>1, <1>2 DEF WrittenCached
<1>5. ASSUME NEW u \in User PROVE PlayerCached(u)'
  <2>1. PlayerCached(u) /\ (at[u] = "idle" \/ score'[u] = score[u])
    BY <1>1
  <2>2. (\A k \in Job : Working(k)' => u \notin Done(k)') =>
          score'[u] = score[u] /\ \A k \in Job : Working(k) => u \notin Done(k)
    OBVIOUS
  <2> QED BY <1>2, <2>1, <2>2 DEF PlayerCached
<1> QED BY <1>3, <1>4, <1>5 DEF CacheInv

\* ... until it has committed.
LEMMA CacheJobs ==
  ASSUME Base, WroteInv, CacheInv, faults' = {}, ~crossed', ~strayed',
         faults = {}, ~crossed, ~strayed, NEW j \in Job, Begin(j) \/ JobStep(j)
  PROVE  CacheInv'
<1> DEFINE e == DbOf[j]
           r == RoomOf[j]
<1>1. PICK n : n = NextPlayer(j)
  OBVIOUS
<1>2. e \in Db /\ r \in Room /\ TypeOK /\ JobsOK /\ LocksOK /\ Apart /\ DbOK /\ ok[j]
  BY ConstantsAssumption DEF Base, JobsOK
<1>3. MembersCached /\ WrittenCached /\ \A u \in User : PlayerCached(u)
  BY DEF CacheInv
<1>4. \A k \in Job \ {j} : Working(k)' = Working(k) /\ Done(k)' = Done(k) /\ final'[k] = final[k]
  BY <1>2, JobAlone, JobStays
<1>5. ASSUME UNCHANGED <<cache, rooms>>, Working(j) => Working(j)' /\ Done(j) \subseteq Done(j)',
             Working(j)' => final'[j] = final[j] /\ (Working(j) \/ DOMAIN final[j] = {}),
             \A u \in User : \/ score'[u] = score[u]
                             \/ at[u] = "idle" /\ Working(j)' /\ u \in Done(j)'
      PROVE  CacheInv'
  <2>1. \A k \in Job : /\ Working(k) => Working(k)' /\ Done(k) \subseteq Done(k)'
                       /\ Working(k)' => /\ final'[k] = final[k]
                                         /\ Working(k) \/ DOMAIN final[k] = {}
    BY <1>4, <1>5
  <2> QED BY <1>5, <2>1, JobFrame
<1>6. CASE Begin(j)
  <2>1. UNCHANGED <<score, cache, rooms>> /\ ~Working(j) /\ ~Working(j)'
    BY <1>2, <1>6, BeginIs DEF Working, mysql
  <2> QED BY <1>5, <2>1
<1>7. CASE AcquireLock(j)
  <2>1. UNCHANGED <<score, cache, rooms, final>> /\ ~Working(j) /\ pc[j] = "lock"
    BY <1>2, <1>7, AcquireIs DEF Working
  <2>2. DOMAIN final[j] = {}
    BY <1>2, <2>1 DEF JobsOK, Busy
  <2> QED BY <1>5, <2>1, <2>2
<1>8. CASE SelectScore(j)
  <2>1. /\ UNCHANGED <<score, cache, rooms, final>> /\ Working(j) /\ Working(j)'
        /\ Done(j) \subseteq Done(j)'
    BY <1>2, <1>8, SelectIs DEF Working, Done
  <2> QED BY <1>5, <2>1
<1>9. CASE UpdateScore(j)
  <2>1. /\ UNCHANGED <<cache, rooms, final, gain>> /\ pc[j] = "update" /\ pc'[j] = "cache"
        /\ score' = score \/ score' = [score EXCEPT ![n] = NewScore(j)]
    BY <1>1, <1>2, <1>9, UpdateIs
  <2>2. Working(j) /\ Working(j)' /\ Done(j) = DOMAIN final[j] /\ Done(j)' = DOMAIN final[j] \cup {n}
    BY <1>1, <2>1 DEF Working, Done, NextPlayer
  <2>3. DOMAIN gain[j] # {} /\ Busy(j)
    BY <1>2, <2>1 DEF JobsOK, Busy
  <2>4. n \in Settles(j)
    BY <1>1, <2>3, SettlesAre
  <2>5. at[n] = "idle"
    BY <1>2, <2>3, <2>4 DEF Apart
  <2>6. \A u \in User : score'[u] = score[u] \/ u = n
    BY <1>2, <2>1 DEF TypeOK
  <2> QED BY <1>5, <2>1, <2>2, <2>5, <2>6
<1>10. CASE UpdatePlayerScore(j)
  <2>1. /\ pc[j] = "cache" /\ pc'[j] \in {"select", "end"} /\ UNCHANGED <<score, rooms>>
        /\ DOMAIN final'[j] = DOMAIN final[j] \cup {n} /\ final'[j][n] = NewScore(j)
        /\ \A u \in DOMAIN final[j] \ {n} : final'[j][u] = final[j][u]
    BY <1>1, <1>2, <1>10, CacheIs DEF mysql
  <2>2. /\ DOMAIN cache'[r] = DOMAIN cache[r] \cup {n} /\ cache'[r][n] = NewScore(j)
        /\ \A u \in DOMAIN cache[r] \ {n} : cache'[r][u] = cache[r][u]
        /\ \A q \in Room \ {r} : cache'[q] = cache[q]
    BY <1>1, <1>2, <1>10, CacheIs
  <2>3. Working(j) /\ Working(j)' /\ Busy(j) /\ Done(j) = DOMAIN final'[j] /\ Done(j)' = DOMAIN final'[j]
    BY <1>1, <2>1 DEF Working, Busy, Done
  <2>4. inside[n] /\ place[n] = r /\ n \in User
    BY <2>1, <2>3, AtRest
  <2>5. place' = place /\ inside' = inside /\ at' = at /\ carried' = carried
    BY <2>1 DEF rooms
  <2>6. MembersCached'
    BY <1>3, <2>2, <2>4, <2>5 DEF MembersCached, Members
  <2>7. WrittenCached'
    <3> SUFFICES ASSUME NEW k \in Job, Working(k)', NEW u \in DOMAIN final'[k]
                 PROVE  cache'[RoomOf[k]][u] = final'[k][u]
      BY DEF WrittenCached
    <3>1. CASE k = j
      <4>1. CASE u = n
        BY <2>1, <2>2, <3>1, <4>1
      <4>2. CASE u # n
        <5>1. u \in DOMAIN final[j] /\ final'[j][u] = final[j][u] /\ cache[r][u] = final[j][u]
          BY <1>3, <2>1, <2>3, <3>1, <4>2 DEF WrittenCached
        <5>2. u \in DOMAIN cache[r]
          <6>1. inside[u] /\ place[u] = r /\ u \in User
            BY <2>3, <5>1, AtRest
          <6> QED BY <1>2, <1>3, <6>1 DEF MembersCached, Members
        <5> QED BY <2>2, <3>1, <4>2, <5>1, <5>2
      <4> QED BY <4>1, <4>2
    <3>2. CASE k # j
      <4>1. Working(k) /\ final'[k] = final[k] /\ RoomOf[k] \in Room
        BY <1>4, <3>2, ConstantsAssumption
      <4>2. RoomOf[k] # r
        BY <1>2, <2>3, <3>2, <4>1, SettlesAre, OneAtWork
      <4> QED BY <1>3, <2>2, <4>1, <4>2 DEF WrittenCached
    <3> QED BY <3>1, <3>2
  <2>8. ASSUME NEW u \in User PROVE PlayerCached(u)'
    <3>1. ASSUME inside[u], at[u] = "idle", \A k \in Job : Working(k)' => u \notin Done(k)'
          PROVE  cache'[place[u]][u] = score[u]
      <4>1. u \notin Done(j) /\ u # n
        BY <2>1, <2>3, <3>1
      <4>2. \A k \in Job : Working(k) => u \notin Done(k)
        BY <1>4, <3>1, <4>1
      <4>3. cache[place[u]][u] = score[u] /\ place[u] \in Room
        BY <1>2, <1>3, <3>1, <4>2 DEF PlayerCached, TypeOK
      <4>4. u \in DOMAIN cache[place[u]]
        BY <1>3, <3>1, <4>3 DEF MembersCached, Members
      <4> QED BY <2>2, <4>1, <4>3, <4>4
    <3>2. PlayerCached(u) /\ score' = score
      BY <1>3, <2>1
    <3> QED BY <2>5, <3>1, <3>2 DEF PlayerCached
  <2> QED BY <2>6, <2>7, <2>8 DEF CacheInv
<1>11. CASE Commit(j) \/ Rollback(j)
  <2>1. /\ pc[j] = "end" /\ pc'[j] = "tell" /\ UNCHANGED <<cache, rooms, final>>
        /\ \A u \in User : score'[u] = Pending(e, u)
    BY <1>2, <1>11, EndIs
  <2>2. Working(j) /\ ~Working(j)' /\ Done(j) = DOMAIN final[j]
    BY <2>1 DEF Working, Done
  <2>3. place' = place /\ inside' = inside /\ at' = at /\ carried' = carried /\ cache' = cache
    BY <2>1 DEF rooms
  <2>4. MembersCached'
    BY <1>3, <2>3 DEF MembersCached, Members
  <2>5. WrittenCached'
    BY <1>3, <1>4, <2>2, <2>3 DEF WrittenCached
  <2>6. ASSUME NEW u \in User, \A k \in Job : DbOf[k] = e /\ Working(k) => u \notin Done(k)
        PROVE  score'[u] = score[u]
    <3>1. u \notin DOMAIN tx[e]
      BY <1>2, <2>6 DEF DbOK
    <3> QED BY <2>1, <3>1 DEF Pending
  <2>7. ASSUME NEW u \in User PROVE PlayerCached(u)'
    <3>1. ASSUME inside[u], at[u] = "idle", \A k \in Job : Working(k)' => u \notin Done(k)'
          PROVE  cache[place[u]][u] = score'[u]
      <4>1. \A k \in Job \ {j} : Working(k) => u \notin Done(k)
        BY <1>4, <3>1
      <4>2. CASE u \in Done(j)
        <5>1. place[u] = r /\ cache[r][u] = final[j][u]
          BY <1>3, <2>2, <4>2, AtRest DEF WrittenCached
        <5>2. Wrote(j, u) = final[j][u] /\ Wrote(j, u) = Pending(e, u)
          BY <1>2, <2>2, <4>2 DEF Wrote, WroteInv
        <5> QED BY <2>1, <5>1, <5>2
      <4>3. CASE u \notin Done(j)
        <5>1. \A k \in Job : Working(k) => u \notin Done(k)
          BY <4>1, <4>3
        <5> QED BY <1>3, <2>6, <3>1, <5>1 DEF PlayerCached
      <4> QED BY <4>2, <4>3
    <3>2. at[u] # "idle" => score'[u] = score[u]
      <4>1. at[u] # "idle" => \A k \in Job : Working(k) => u \notin Done(k)
        BY AtRest
      <4> QED BY <2>6, <4>1
    <3> QED BY <1>3, <2>3, <3>1, <3>2 DEF PlayerCached
  <2> QED BY <2>4, <2>5, <2>7 DEF CacheInv
<1>12. CASE ReleaseLock(j)
  <2>1. UNCHANGED <<score, cache, rooms>> /\ ~Working(j) /\ ~Working(j)'
    BY <1>2, <1>12, ReleaseIs DEF Working, mysql
  <2> QED BY <1>5, <2>1
<1> QED BY <1>6, <1>7, <1>8, <1>9, <1>10, <1>11, <1>12 DEF JobStep

\* The sorted sets are right as long as nothing fails.
LEMMA CacheStep ==
  ASSUME Scored, Scored', CacheInv, [Next]_vars
  PROVE  CacheInv'
<1> SUFFICES ASSUME faults' = {}, ~crossed', ~strayed' PROVE CacheInv'
  BY DEF CacheInv
<1>1. Base /\ WroteInv /\ TypeOK /\ TypeOK' /\ Apart'
  BY DEF Scored, Base
<1>2. faults = {} /\ ~crossed /\ ~strayed
  BY <1>1, StepsAre
<1>3. CASE UNCHANGED vars
  <2>1. UNCHANGED <<mysql, cache, place, inside, at, carried, jobs>>
    BY <1>3 DEF vars, rooms
  <2> QED BY <1>2, <2>1 DEF CacheInv, MembersCached, Members, WrittenCached, PlayerCached, Working,
                            Done, NextPlayer, mysql, jobs
<1>4. ASSUME NEW j \in Job, Begin(j) \/ JobStep(j) PROVE CacheInv'
  BY <1>1, <1>2, <1>4, CacheJobs
<1>5. ASSUME NEW r \in Room, NewGame(r) PROVE CacheInv'
  <2>1. UNCHANGED <<mysql, cache, place, inside, at, carried, jobs>>
    BY <1>5 DEF NewGame
  <2> QED BY <1>2, <2>1 DEF CacheInv, MembersCached, Members, WrittenCached, PlayerCached, Working,
                            Done, NextPlayer, mysql, jobs
<1>6. ASSUME NEW u \in Mover, Player(u) PROVE CacheInv'
  BY <1>1, <1>2, <1>6, CachePlayers
<1> QED BY <1>3, <1>4, <1>5, <1>6 DEF Next

\* Players of a room at rest have in its sorted set what MySQL has of them.
THEOREM CacheIsRight == Spec => []CacheAgrees
<1>1. Init => CacheInv
  <2> SUFFICES ASSUME Init PROVE CacheInv
    OBVIOUS
  <2>1. /\ place = Start /\ \A u \in User : inside[u] /\ at[u] = "idle" /\ score[u] = 0
        /\ \A r \in Room : cache[r] = [u \in {v \in User : Start[v] = r} |-> 0]
        /\ \A j \in Job : ~Working(j)
    BY DEF Init, Working
  <2>2. Start \in [User -> Room]
    BY ConstantsAssumption
  <2>3. \A r \in Room : DOMAIN cache[r] = {v \in User : Start[v] = r}
    BY <2>1
  <2>4. MembersCached
    BY <2>1, <2>3 DEF MembersCached, Members
  <2>5. \A u \in User : cache[place[u]][u] = 0
    <3> SUFFICES ASSUME NEW u \in User PROVE cache[Start[u]][u] = 0
      BY <2>1
    <3>1. cache[Start[u]] = [v \in {w \in User : Start[w] = Start[u]} |-> 0]
      BY <2>1, <2>2
    <3>2. u \in {w \in User : Start[w] = Start[u]}
      OBVIOUS
    <3> QED BY <3>1, <3>2
  <2>6. WrittenCached /\ \A u \in User : PlayerCached(u)
    BY <2>1, <2>5 DEF WrittenCached, PlayerCached
  <2> QED BY <2>4, <2>6 DEF CacheInv
<1>2. Scored /\ Scored' /\ CacheInv /\ [Next]_vars => CacheInv'
  BY CacheStep
<1>3. Scored /\ CacheInv => CacheAgrees
  <2> SUFFICES ASSUME Scored, CacheInv, faults = {}, ~crossed, ~strayed, NEW r \in Room,
                      \A u \in User : at[u] = "idle", \A j \in Job : ~Busy(j)
               PROVE  cache[r] = Restrict(score, Members(r))
    BY DEF CacheAgrees
  <2>1. DOMAIN cache[r] = Members(r) /\ Members(r) \subseteq User
    BY DEF CacheInv, MembersCached, Members
  <2>2. \A u \in Members(r) : cache[r][u] = score[u]
    BY DEF CacheInv, PlayerCached, Members, Busy, Working
  <2>3. Scores(cache[r])
    BY DEF Scored, Base, TypeOK, ScoresOf
  <2>4. cache[r] = [u \in Members(r) |-> cache[r][u]]
    BY <2>1, <2>3 DEF Scores
  <2>5. Restrict(score, Members(r)) = [u \in Members(r) |-> score[u]]
    BY <2>1 DEF Restrict
  <2> QED BY <2>2, <2>4, <2>5
<1> QED BY <1>1, <1>2, <1>3, ScoredAlways, PTL DEF Spec

=============================================================================
