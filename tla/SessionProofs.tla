---------------------------- MODULE SessionProofs -----------------------------
(***************************************************************************)
(* Proofs about Session for any accounts and any number of connections:    *)
(* its types, that both tables agree, that nobody is locked out, and that  *)
(* a user is logged in once, written to where he is and not taken for      *)
(* absent.  Three connections of one user are needed for some of what can  *)
(* go wrong; TLC checks two.                                               *)
(***************************************************************************)
EXTENDS Session, TLAPS

\* handleRegister between the first insert and the commit
Inserting == {"insertInfo", "commit"}

\* What an open transaction has inserted is in no table yet, and in no other
\* open transaction: the key of the tables and the row locks.
InsertsOK ==
  /\ \A c \in Conn :
       /\ pc[c] \in {"exists", "insertUser"} \cup Inserting => who[c] \in User
       /\ tx[c] # {} => pc[c] \in Inserting /\ user[who[c]] = 0
       /\ "info" \in tx[c] => pc[c] = "commit"
  /\ \A c, d \in Conn : \A table \in tx[c] \cap tx[d] : c # d => who[c] # who[d]

RowsInv == RowsAgree /\ InsertsOK

\* where the handler of a connection with a session may be
Inside == {"idle", "offline", "record"}

\* A handler works on a connection that exists, the destructor on one that
\* is closing, and all but the destructor for a user.
HandlersOK ==
  \A c \in Conn :
    /\ pc[c] # "idle" => Exists(c)
    /\ pc[c] \in {"offline", "record"} => link[c] = "closing"
    /\ pc[c] \notin Inside => who[c] \in User

\* A client that has been let in is the user that the connection knows.
SessionsOK ==
  \A c \in Conn : session[c] # None =>
    /\ cur[c] = session[c] /\ pc[c] \in Inside /\ link[c] # "none"

\* The entry of a connection is that of its session, until it is destroyed.
EntriesOK ==
  \A c \in Conn :
    /\ conns[c].user # None =>
         Exists(c) /\ pc[c] = "idle" /\ session[c] = conns[c].user
    /\ conns[c].active \/ conns[c].inRoom => conns[c].user # None

\* The checker works for an entry.
CheckerOK ==
  checker.at # "idle" => checker.conn \in Conn /\ conns[checker.conn].user # None

\* The end of connection c is seen, or will be, by the destructor or the checker.
Watched(c, u) ==
  \/ pc[c] \in {"register", "backRegister"} /\ who[c] = u
  \/ /\ session[c] = u /\ Exists(c) /\ pc[c] # "record"
     /\ \/ link[c] = "closing" \/ conns[c].active
        \/ checker.at = "status" /\ checker.conn = c

OnlineIsWatched ==
  faults \cap {"sql", "restart"} # {} \/
  \A u \in User : status[u] => \E c \in Conn : Watched(c, u)

EntryInv == HandlersOK /\ SessionsOK /\ EntriesOK /\ CheckerOK

\* Without a late heartbeat the checker leaves alone a client that is there.
PunctualOK ==
  "slow" \in faults \/
  \A c \in Conn : link[c] \in {"none", "up"} =>
    /\ conns[c].active => conns[c].fresh
    /\ c \notin checker.todo /\ (checker.at # "idle" => checker.conn # c)

\* What raced and overlaid say.
NotRaced ==
  ~raced => \A c, d \in Conn :
    c # d /\ pc[c] \in Entering /\ pc[d] \in Entering => who[c] # who[d]
NotOverlaid ==
  ~overlaid => \A c, d \in Conn :
    c # d /\ cur[d] # None /\ link[d] \in {"silent", "closing"} =>
      /\ pc[c] \in Entering => who[c] # cur[d]
      /\ link[c] = "up" => cur[c] # cur[d]

\* A client that is in, and there
Up(c) == link[c] = "up" /\ session[c] # None

\* handleReconnectRequest
Returning == {"validate", "forget", "back", "backOnline", "backRegister"}

\* Nobody comes back as a user whose client is there.
BackIsAlone ==
  ~raced => \A c, d \in Conn : c # d /\ Up(c) /\ pc[d] \in Returning => session[c] # who[d]

Careful == ~raced /\ ~overlaid /\ faults \cap {"slow", "sql"} = {}

\* Who is in, or about to be, is online in MySQL, and nobody else is let in, or
\* about to be, as the same user.
UpIsOnline == \A c \in Conn : Up(c) => status[session[c]]
NextIsOnline == \A c \in Conn : pc[c] \in {"register", "backRegister"} => status[who[c]]
NoneEnters ==
  \A c, d \in Conn : c # d /\ Up(c) /\ pc[d] \in Entering \ {"login"} => session[c] # who[d]
UpAlone == \A c, d \in Conn : c # d /\ Up(c) /\ Up(d) => session[c] # session[d]
InIsOnline == Careful => UpIsOnline /\ NextIsOnline /\ NoneEnters /\ UpAlone

\* The callback of a player in the room is that of his client.
CallbackIsHis == \A c \in Conn : Up(c) /\ conns[c].inRoom => callback[session[c]] \in {c, None}
NextCallbackIsHis ==
  \A c \in Conn : pc[c] = "backRegister" => callback[who[c]] \in {c, None}
WrittenThere == Careful => CallbackIsHis /\ NextCallbackIsHis

\* Whoever is back, or about to be, is not in the list of absent players.
PlayerIsHere == \A c \in Conn : Up(c) /\ Player(c) /\ playing => ~away[session[c]]
NextIsHere == \A c \in Conn : pc[c] \in {"backOnline", "backRegister"} => ~away[who[c]]
BackIsNotAway ==
  raced \/ overlaid \/ "slow" \in faults \/ (PlayerIsHere /\ NextIsHere)

WatchInv == PunctualOK /\ NotRaced /\ NotOverlaid /\ BackIsAlone

-----------------------------------------------------------------------------
USE DEF mysql, manager, here, world

\* A statement leaves statuses, and faults that may happen.
LEMMA StatementType ==
  ASSUME Types, NEW u, NEW online \in BOOLEAN, SetStatus(u, online)
  PROVE  status' \in [User -> BOOLEAN] /\ faults' \subseteq Faults
  BY DEF Types, SetStatus, Fault

\* A handler that goes on goes to one of its places.
Places == {"idle", "exists", "insertUser", "insertInfo", "commit", "login", "online",
           "register", "validate", "back", "forget", "backOnline", "backRegister",
           "offline", "record"}

\* What becomes of an entry when one of its fields is set.
EntryRecord == [user : User \cup {None}, inRoom : BOOLEAN, active : BOOLEAN, fresh : BOOLEAN]

\* A heartbeat comes, or is due.
LEMMA FreshSet ==
  ASSUME Types, NEW c \in Conn, NEW b \in BOOLEAN, conns' = [conns EXCEPT ![c].fresh = b]
  PROVE  /\ conns' \in [Conn -> EntryRecord]
         /\ \A d \in Conn :
              /\ conns'[d].user = conns[d].user /\ conns'[d].inRoom = conns[d].inRoom
              /\ conns'[d].active = conns[d].active
              /\ conns'[d].fresh = IF d = c THEN b ELSE conns[d].fresh
<1>1. \A e \in EntryRecord :
        /\ [e EXCEPT !.fresh = b] \in EntryRecord
        /\ [e EXCEPT !.fresh = b].user = e.user /\ [e EXCEPT !.fresh = b].inRoom = e.inRoom
        /\ [e EXCEPT !.fresh = b].active = e.active /\ [e EXCEPT !.fresh = b].fresh = b
  BY DEF EntryRecord
<1>2. conns \in [Conn -> EntryRecord]
  BY DEF Types, EntryRecord
<1>3. conns' = [conns EXCEPT ![c] = [conns[c] EXCEPT !.fresh = b]]
  OBVIOUS
<1> QED
  <2> DEFINE e == [conns[c] EXCEPT !.fresh = b]
  <2>1. conns' = [conns EXCEPT ![c] = e] /\ e \in EntryRecord
        /\ e.user = conns[c].user /\ e.inRoom = conns[c].inRoom
        /\ e.active = conns[c].active /\ e.fresh = b
    BY <1>1, <1>2, <1>3
  <2> HIDE DEF e
  <2> QED BY <2>1, <1>2

\* The checker takes a connection: its entry is no longer active.
LEMMA ActiveCleared ==
  ASSUME Types, NEW c \in Conn, conns' = [conns EXCEPT ![c].active = FALSE]
  PROVE  /\ conns' \in [Conn -> EntryRecord]
         /\ \A d \in Conn :
              /\ conns'[d].user = conns[d].user /\ conns'[d].inRoom = conns[d].inRoom
              /\ conns'[d].active = IF d = c THEN FALSE ELSE conns[d].active
              /\ conns'[d].fresh = conns[d].fresh
<1>1. \A e \in EntryRecord :
        /\ [e EXCEPT !.active = FALSE] \in EntryRecord
        /\ [e EXCEPT !.active = FALSE].user = e.user
        /\ [e EXCEPT !.active = FALSE].inRoom = e.inRoom
        /\ [e EXCEPT !.active = FALSE].active = FALSE
        /\ [e EXCEPT !.active = FALSE].fresh = e.fresh
  BY DEF EntryRecord
<1>2. conns \in [Conn -> EntryRecord]
  BY DEF Types, EntryRecord
<1>3. conns' = [conns EXCEPT ![c] = [conns[c] EXCEPT !.active = FALSE]]
  OBVIOUS
<1> QED
  <2> DEFINE e == [conns[c] EXCEPT !.active = FALSE]
  <2>1. conns' = [conns EXCEPT ![c] = e] /\ e \in EntryRecord
        /\ e.user = conns[c].user /\ e.inRoom = conns[c].inRoom
        /\ e.active = FALSE /\ e.fresh = conns[c].fresh
    BY <1>1, <1>2, <1>3
  <2> HIDE DEF e
  <2> QED BY <2>1, <1>2

\* What becomes of the checker in each of its steps.
CheckerRecord ==
  [at : {"idle", "status", "away", "token"}, todo : SUBSET Conn, conn : Conn \cup {None}]

\* The list of connections to be looked at is set, ...
LEMMA TodoSet ==
  ASSUME NEW k \in CheckerRecord, NEW S \in SUBSET Conn
  PROVE  /\ [k EXCEPT !.todo = S] \in CheckerRecord
         /\ [k EXCEPT !.todo = S].todo = S /\ [k EXCEPT !.todo = S].at = k.at
         /\ [k EXCEPT !.todo = S].conn = k.conn
  BY DEF CheckerRecord

\* ... the checker goes on, ...
LEMMA PlaceSet ==
  ASSUME NEW k \in CheckerRecord, NEW there \in {"idle", "status", "away", "token"}
  PROVE  /\ [k EXCEPT !.at = there] \in CheckerRecord
         /\ [k EXCEPT !.at = there].todo = k.todo /\ [k EXCEPT !.at = there].at = there
         /\ [k EXCEPT !.at = there].conn = k.conn
  BY DEF CheckerRecord

\* ... a connection is taken, ...
LEMMA TakenSet ==
  ASSUME NEW k \in CheckerRecord, NEW c \in Conn
  PROVE  /\ [k EXCEPT !.at = "status", !.conn = c] \in CheckerRecord
         /\ [k EXCEPT !.at = "status", !.conn = c].todo = k.todo
         /\ [k EXCEPT !.at = "status", !.conn = c].at = "status"
         /\ [k EXCEPT !.at = "status", !.conn = c].conn = c
  BY DEF CheckerRecord

\* The checker is done with a connection.
LEMMA ResumedIs ==
  ASSUME Types
  PROVE  /\ Resumed \in CheckerRecord /\ Resumed.at = "idle" /\ Resumed.conn = None
         /\ Resumed.todo = checker.todo \ {checker.conn}
<1>1. Resting \in CheckerRecord /\ Resting.at = "idle" /\ Resting.conn = None
  BY DEF Resting, CheckerRecord
<1>2. checker.todo \ {checker.conn} \in SUBSET Conn
  BY DEF Types
<1>3. \A k \in CheckerRecord, S \in SUBSET Conn :
        /\ [k EXCEPT !.todo = S] \in CheckerRecord
        /\ [k EXCEPT !.todo = S].todo = S /\ [k EXCEPT !.todo = S].at = k.at
        /\ [k EXCEPT !.todo = S].conn = k.conn
  BY DEF CheckerRecord
<1> QED BY <1>1, <1>2, <1>3 DEF Resumed

\* Types are kept by the handlers, ...
LEMMA TypeHandler ==
  ASSUME Types, Watch, NEW c \in Conn, Handler(c)
  PROVE  Types'
<1> USE DEF Types, Watch
<1>1. CASE CheckExists(c)
  BY <1>1 DEF CheckExists, Goto
<1>2. CASE InsertUser(c)
  BY <1>2 DEF InsertUser, Insert, Fault, Goto
<1>3. CASE InsertInfo(c)
  BY <1>3 DEF InsertInfo, Insert, Fault, Goto
<1>4. CASE Commit(c)
  <2>1. ASSUME NEW f \in [User -> Nat]
        PROVE  [f EXCEPT ![who[c]] = @ + 1] \in [User -> Nat]
    <3>1. CASE who[c] \notin User
      BY <3>1
    <3>2. CASE who[c] \in User
      BY <3>2
    <3> QED BY <3>1, <3>2
  <2>2. user' \in [User -> Nat] /\ info' \in [User -> Nat]
    <3>1. \/ user' = user /\ info' = info
          \/ /\ user' = [user EXCEPT ![who[c]] = @ + 1]
             /\ info' = [info EXCEPT ![who[c]] = @ + 1]
      BY <1>4 DEF Commit
    <3>2. /\ [user EXCEPT ![who[c]] = @ + 1] \in [User -> Nat]
          /\ [info EXCEPT ![who[c]] = @ + 1] \in [User -> Nat]
      BY <2>1
    <3> QED BY <3>1, <3>2
  <2>3. tx' \in [Conn -> SUBSET {"user", "info"}]
    BY <1>4 DEF Commit
  <2>4. faults' \subseteq Faults
    BY <1>4 DEF Commit, Fault
  <2> QED BY <1>4, <2>2, <2>3, <2>4 DEF Commit, Goto
<1>5. CASE CheckLogin(c)
  BY <1>5 DEF CheckLogin, Goto
<1>6. CASE SetOnline(c)
  <2>1. status' \in [User -> BOOLEAN] /\ faults' \subseteq Faults
    BY <1>6, StatementType DEF SetOnline
  <2> QED BY <1>6, <2>1 DEF SetOnline, Goto
<1>7. CASE RegisterConnection(c)
  BY <1>7 DEF RegisterConnection, Goto, Entry
<1>8. CASE ValidateToken(c)
  BY <1>8 DEF ValidateToken, Goto
<1>9. CASE Forget(c)
  BY <1>9, StatementType DEF Forget, Goto
<1>10. CASE RemoveFromDisconnectList(c)
  BY <1>10 DEF RemoveFromDisconnectList, Goto
<1>11. CASE BackOnline(c)
  BY <1>11, StatementType DEF BackOnline, Goto
<1>12. CASE BackRegister(c)
  BY <1>12 DEF BackRegister, Goto, Entry
<1>13. CASE UnregisterConnection(c)
  BY <1>13 DEF UnregisterConnection, Goto, Unknown
<1>14. CASE SetOffline(c)
  BY <1>14, StatementType DEF SetOffline, Goto
<1>15. CASE RecordPlayerDisconnect(c)
  BY <1>15 DEF RecordPlayerDisconnect, Goto
<1> QED BY <1>1, <1>2, <1>3, <1>4, <1>5, <1>6, <1>7, <1>8, <1>9, <1>10, <1>11, <1>12,
           <1>13, <1>14, <1>15 DEF Handler

\* ... by what clients do, ...
LEMMA TypeClient ==
  ASSUME Types, Watch, NEW c \in Conn, Heartbeat(c) \/ Client(c) \/ Expire(c)
  PROVE  Types'
<1> USE DEF Types, Watch
<1>1. CASE Heartbeat(c)
  BY <1>1, FreshSet DEF Heartbeat, EntryRecord
<1>2. CASE Expire(c)
  <2>1. conns' = [conns EXCEPT ![c].fresh = FALSE] /\ faults' \subseteq Faults
    BY <1>2 DEF Expire, Fault
  <2>2. conns' \in [Conn -> EntryRecord]
    BY <2>1, FreshSet
  <2> QED BY <1>2, <2>1, <2>2 DEF Expire, EntryRecord
<1>3. CASE Connect(c)
  BY <1>3 DEF Connect
<1>4. CASE Close(c)
  BY <1>4 DEF Close
<1>5. CASE Vanish(c)
  BY <1>5 DEF Vanish
<1>6. CASE Join(c)
  BY <1>6 DEF Join, Entry
<1>7. CASE JoinRefused(c)
  BY <1>7 DEF JoinRefused
<1>8. CASE Leave(c)
  BY <1>8 DEF Leave
<1>9. CASE GoodBye(c)
  BY <1>9, StatementType DEF GoodBye
<1>10. ASSUME NEW u \in User, SignUp(c, u) PROVE Types'
  BY <1>10 DEF SignUp, Asks, Begin
<1>11. ASSUME NEW u \in User, Login(c, u) PROVE Types'
  BY <1>11 DEF Login, Asks, Begin
<1>12. ASSUME NEW u \in User, Reconnect(c, u) PROVE Types'
  BY <1>12 DEF Reconnect, Begin
<1> QED BY <1>1, <1>2, <1>3, <1>4, <1>5, <1>6, <1>7, <1>8, <1>9, <1>10, <1>11, <1>12
        DEF Client

\* ... and by the checker, the game and a restart.
LEMMA TypeOthers ==
  ASSUME Types, Watch, Checker \/ StartGame \/ EndGame \/ Restart
  PROVE  Types'
<1> USE DEF Types, Watch
<1>1. CASE GetTimeoutConnections
  BY <1>1 DEF GetTimeoutConnections, Silent
<1>2. ASSUME NEW c \in Conn, HandleTimeoutConnection(c) PROVE Types'
  <2>1. checker \in CheckerRecord /\ checker.todo \ {c} \in SUBSET Conn
    BY DEF CheckerRecord
  <2>2. checker' \in CheckerRecord
    <3>1. \/ checker' = [checker EXCEPT !.at = "status", !.conn = c]
          \/ checker' = [checker EXCEPT !.todo = checker.todo \ {c}]
      BY <1>2 DEF HandleTimeoutConnection
    <3>2. CASE checker' = [checker EXCEPT !.at = "status", !.conn = c]
      BY <2>1, <3>2 DEF CheckerRecord
    <3>3. CASE checker' = [checker EXCEPT !.todo = checker.todo \ {c}]
      BY <2>1, <3>3 DEF CheckerRecord
    <3> QED BY <3>1, <3>2, <3>3
  <2>3. conns' \in [Conn -> EntryRecord]
    BY <1>2, ActiveCleared DEF HandleTimeoutConnection, EntryRecord
  <2> QED BY <1>2, <2>2, <2>3 DEF HandleTimeoutConnection, CheckerRecord, EntryRecord
<1>3. CASE MarkOffline
  BY <1>3, StatementType DEF MarkOffline, Resumed, Resting
<1>4. CASE MarkAway
  BY <1>4 DEF MarkAway
<1>5. CASE GenerateReconnectToken
  BY <1>5 DEF GenerateReconnectToken, Resumed, Resting
<1>6. CASE StartGame
  BY <1>6 DEF StartGame
<1>7. CASE EndGame
  BY <1>7 DEF EndGame
<1>8. CASE Restart
  BY <1>8 DEF Restart, Fault, Unknown, Resting
<1> QED BY <1>1, <1>2, <1>3, <1>4, <1>5, <1>6, <1>7, <1>8 DEF Checker

\* The variables keep their types.
LEMMA TypesKept == Spec => []Types
<1>1. Init => Types
  <2> SUFFICES ASSUME Init PROVE Types
    OBVIOUS
  <2>1. /\ user \in [User -> Nat] /\ info \in [User -> Nat]
        /\ status \in [User -> BOOLEAN] /\ tx \in [Conn -> SUBSET {"user", "info"}]
    BY DEF Init
  <2>2. /\ conns \in [Conn -> [user : User \cup {None}, inRoom : BOOLEAN,
                               active : BOOLEAN, fresh : BOOLEAN]]
        /\ checker \in [at : {"idle", "status", "away", "token"}, todo : SUBSET Conn,
                        conn : Conn \cup {None}]
    BY DEF Init, Unknown, Resting
  <2> QED BY <2>1, <2>2 DEF Init, Types
<1>2. Types /\ [Next]_vars => Types'
  <2> SUFFICES ASSUME Types, [Next]_vars PROVE Types'
    OBVIOUS
  <2>1. CASE UNCHANGED vars
    BY <2>1 DEF Types, vars, core
  <2>2. CASE Next
    BY <2>2, TypeHandler, TypeClient, TypeOthers DEF Next, Act
  <2> QED BY <2>1, <2>2
<1> QED BY <1>1, <1>2, PTL DEF Spec

-----------------------------------------------------------------------------
\* Nothing happens to the tables and to who registers.
LEMMA RowsStutter ==
  ASSUME Types, RowsInv, UNCHANGED <<user, info, tx, pc, who>>
  PROVE  RowsInv'
  BY DEF RowsInv, RowsAgree, InsertsOK, Inserting

\* A handler goes on, not between the first insert and the commit.
LEMMA RowsMove ==
  ASSUME Types, RowsInv, UNCHANGED <<user, info, tx>>,
         NEW c \in Conn, pc[c] \notin Inserting,
         NEW there \in Places \ Inserting, pc' = [pc EXCEPT ![c] = there],
         NEW u, who' = [who EXCEPT ![c] = u],
         there \in {"exists", "insertUser"} => u \in User
  PROVE  RowsInv'
<1> USE DEF RowsInv, InsertsOK, Inserting
<1>1. tx[c] = {}
  OBVIOUS
<1>2. RowsAgree'
  BY DEF RowsAgree
<1> QED BY <1>1, <1>2 DEF Types

\* ... and knows where to.
LEMMA RowsGoto ==
  ASSUME Types, RowsInv, UNCHANGED <<user, info, tx>>,
         NEW c \in Conn, pc[c] \notin Inserting,
         NEW there \in Places \ Inserting, Goto(c, there),
         there \in {"exists", "insertUser"} => who[c] \in User
  PROVE  RowsInv'
<1>1. CASE there = "idle"
  BY <1>1, RowsMove DEF Goto
<1>2. CASE there # "idle"
  <2>1. who' = [who EXCEPT ![c] = who[c]]
    BY <1>2 DEF Goto, Types
  <2> QED BY <1>2, <2>1, RowsMove DEF Goto
<1> QED BY <1>1, <1>2

\* An insert puts a row in the transaction only if nobody has it, or will.
LEMMA RowsInsert ==
  ASSUME Types, RowsInv, NEW c \in Conn, InsertUser(c) \/ InsertInfo(c)
  PROVE  RowsInv'
<1> USE DEF RowsInv, InsertsOK, Inserting, RowsAgree
<1>1. PICK table \in {"user", "info"} :
        /\ \A d \in Conn \ {c} : table \in tx[d] => who[d] # who[c]
        /\ \/ tx' = [tx EXCEPT ![c] = @ \cup {table}] /\ user[who[c]] = 0
           \/ tx' = tx
        /\ pc[c] = IF table = "user" THEN "insertUser" ELSE "insertInfo"
        /\ pc' = [pc EXCEPT ![c] = IF table = "user" THEN "insertInfo" ELSE "commit"]
  BY DEF InsertUser, InsertInfo, Insert, At, Goto
<1>2. UNCHANGED <<user, info, who>>
  BY DEF InsertUser, InsertInfo, Insert, Goto
<1>3. who[c] \in User
  BY <1>1
<1>4. CASE tx' = tx
  BY <1>1, <1>2, <1>4 DEF Types
<1>5. CASE tx' = [tx EXCEPT ![c] = @ \cup {table}] /\ user[who[c]] = 0
  BY <1>1, <1>2, <1>5 DEF Types
<1> QED BY <1>1, <1>4, <1>5

\* A commit makes a row in both tables, or in none.
LEMMA RowsCommit ==
  ASSUME Types, RowsInv, NEW c \in Conn, Commit(c)
  PROVE  RowsInv'
<1> USE DEF RowsInv, InsertsOK, Inserting
<1>1. /\ pc[c] = "commit" /\ pc' = [pc EXCEPT ![c] = "idle"]
      /\ who' = [who EXCEPT ![c] = None] /\ tx' = [tx EXCEPT ![c] = {}]
      /\ who[c] \in User
  BY DEF Commit, At, Goto
<1>2. CASE UNCHANGED <<user, info>>
  BY <1>1, <1>2 DEF Types, RowsAgree
<1>3. CASE /\ tx[c] = {"user", "info"}
           /\ user' = [user EXCEPT ![who[c]] = @ + 1]
           /\ info' = [info EXCEPT ![who[c]] = @ + 1]
  <2>1. user[who[c]] = 0 /\ info[who[c]] = 0
    BY <1>1, <1>3 DEF RowsAgree
  <2>2. RowsAgree'
    BY <1>1, <1>3, <2>1 DEF Types, RowsAgree
  <2>3. \A d \in Conn : d # c /\ tx[d] # {} => who[d] # who[c]
    BY <1>3 DEF Types
  <2>4. \A d \in Conn : tx'[d] # {} => user'[who[d]] = user[who[d]]
    BY <1>1, <1>3, <2>3 DEF Types
  <2>5. \A d \in Conn : d # c => pc'[d] = pc[d] /\ who'[d] = who[d] /\ tx'[d] = tx[d]
    BY <1>1 DEF Types
  <2>6. pc'[c] = "idle" /\ tx'[c] = {}
    BY <1>1 DEF Types
  <2>7. \A d \in Conn :
          /\ pc'[d] \in {"exists", "insertUser", "insertInfo", "commit"} => who'[d] \in User
          /\ tx'[d] # {} => pc'[d] \in {"insertInfo", "commit"} /\ user'[who'[d]] = 0
          /\ "info" \in tx'[d] => pc'[d] = "commit"
    BY <2>4, <2>5, <2>6
  <2>8. \A d, e \in Conn : \A table \in tx'[d] \cap tx'[e] : d # e => who'[d] # who'[e]
    BY <2>5, <2>6
  <2> QED BY <2>2, <2>7, <2>8
<1> QED BY <1>2, <1>3 DEF Commit, Complete

\* Every step keeps the tables and the open transactions in order.
LEMMA RowsStep == Types /\ RowsInv /\ [Next]_vars => RowsInv'
<1> SUFFICES ASSUME Types, RowsInv, [Next]_vars PROVE RowsInv'
  OBVIOUS
<1>1. CASE UNCHANGED vars
  BY <1>1, RowsStutter DEF vars, core
<1>2. ASSUME NEW c \in Conn, Handler(c) PROVE RowsInv'
  <2> USE DEF Inserting, Places, At
  <2>1. CASE CheckExists(c)
    <3>1. who[c] \in User
      BY <2>1 DEF CheckExists, RowsInv, InsertsOK
    <3>2. CASE Goto(c, "idle")
      BY <2>1, <3>2, RowsGoto DEF CheckExists
    <3>3. CASE Goto(c, "insertUser")
      BY <2>1, <3>1, <3>3, RowsGoto DEF CheckExists
    <3> QED BY <2>1, <3>2, <3>3 DEF CheckExists
  <2>2. CASE InsertUser(c) \/ InsertInfo(c)
    BY <2>2, RowsInsert
  <2>3. CASE Commit(c)
    BY <2>3, RowsCommit
  <2>4. CASE CheckLogin(c)
    BY <2>4, RowsGoto DEF CheckLogin
  <2>5. CASE SetOnline(c)
    BY <2>5, RowsGoto DEF SetOnline
  <2>6. CASE RegisterConnection(c)
    BY <2>6, RowsGoto DEF RegisterConnection
  <2>7. CASE ValidateToken(c)
    BY <2>7, RowsGoto DEF ValidateToken
  <2>8. CASE Forget(c)
    BY <2>8, RowsGoto DEF Forget
  <2>9. CASE RemoveFromDisconnectList(c)
    BY <2>9, RowsGoto DEF RemoveFromDisconnectList
  <2>10. CASE BackOnline(c)
    BY <2>10, RowsGoto DEF BackOnline
  <2>11. CASE BackRegister(c)
    BY <2>11, RowsGoto DEF BackRegister
  <2>12. CASE UnregisterConnection(c)
    BY <2>12, RowsGoto DEF UnregisterConnection
  <2>13. CASE SetOffline(c)
    BY <2>13, RowsGoto DEF SetOffline
  <2>14. CASE RecordPlayerDisconnect(c)
    BY <2>14, RowsGoto DEF RecordPlayerDisconnect
  <2> QED BY <1>2, <2>1, <2>2, <2>3, <2>4, <2>5, <2>6, <2>7, <2>8, <2>9, <2>10, <2>11,
             <2>12, <2>13, <2>14 DEF Handler
<1>3. ASSUME NEW c \in Conn, Heartbeat(c) \/ Client(c) \/ Expire(c) PROVE RowsInv'
  <2>1. ASSUME NEW u \in User, NEW first \in {"exists", "login", "validate"}, Begin(c, u, first)
        PROVE  RowsInv'
    BY <2>1, RowsMove DEF Begin, At, Places, Inserting
  <2>2. ASSUME NEW u \in User, SignUp(c, u) \/ Login(c, u) \/ Reconnect(c, u) PROVE RowsInv'
    BY <2>1, <2>2 DEF SignUp, Login, Asks, Reconnect
  <2>3. CASE \/ Heartbeat(c) \/ Expire(c) \/ Connect(c) \/ Close(c) \/ Vanish(c)
             \/ Join(c) \/ JoinRefused(c) \/ Leave(c) \/ GoodBye(c)
    BY <2>3, RowsStutter
       DEF Heartbeat, Expire, Connect, Close, Vanish, Join, JoinRefused, Leave, GoodBye
  <2> QED BY <1>3, <2>2, <2>3 DEF Client
<1>4. CASE Checker \/ StartGame \/ EndGame
  BY <1>4, RowsStutter DEF Checker, GetTimeoutConnections, HandleTimeoutConnection, MarkOffline,
     MarkAway, GenerateReconnectToken, StartGame, EndGame
<1>5. CASE Restart
  BY <1>5 DEF Restart, RowsInv, RowsAgree, InsertsOK, Inserting
<1> QED BY <1>1, <1>2, <1>3, <1>4, <1>5 DEF Next, Act

\* A name has one row in both tables or in none, whatever fails and whoever
\* else registers.
THEOREM TablesAgree == Spec => []RowsAgree
<1>1. Init => RowsInv
  BY DEF Init, RowsInv, RowsAgree, InsertsOK, Inserting
<1>2. RowsInv => RowsAgree
  BY DEF RowsInv
<1> QED BY <1>1, <1>2, RowsStep, TypesKept, PTL DEF Spec

-----------------------------------------------------------------------------
\* Handlers, sessions and entries stay in order, whatever a handler does, ...
LEMMA EntryHandler ==
  ASSUME Types, EntryInv, NEW c \in Conn, Handler(c)
  PROVE  EntryInv'
<1> USE DEF Types, EntryInv, HandlersOK, SessionsOK, EntriesOK, CheckerOK, Exists, Inside,
            At, Goto, Free
<1>1. CASE CheckExists(c)
  BY <1>1 DEF CheckExists
<1>2. CASE InsertUser(c) \/ InsertInfo(c)
  <2>1. CASE InsertUser(c)
    BY <2>1 DEF InsertUser, Insert
  <2>2. CASE InsertInfo(c)
    BY <2>2 DEF InsertInfo, Insert
  <2> QED BY <1>2, <2>1, <2>2
<1>3. CASE Commit(c)
  BY <1>3 DEF Commit
<1>4. CASE CheckLogin(c)
  BY <1>4 DEF CheckLogin
<1>5. CASE SetOnline(c)
  BY <1>5 DEF SetOnline, SetStatus
<1>6. CASE RegisterConnection(c)
  BY <1>6, ConstantsAssumption DEF RegisterConnection, Entry
<1>7. CASE ValidateToken(c)
  BY <1>7 DEF ValidateToken
<1>8. CASE Forget(c)
  BY <1>8 DEF Forget
<1>9. CASE RemoveFromDisconnectList(c)
  BY <1>9 DEF RemoveFromDisconnectList
<1>10. CASE BackOnline(c)
  BY <1>10 DEF BackOnline
<1>11. CASE BackRegister(c)
  BY <1>11, ConstantsAssumption DEF BackRegister, Entry
<1>12. CASE UnregisterConnection(c)
  BY <1>12 DEF UnregisterConnection, Unknown
<1>13. CASE SetOffline(c)
  BY <1>13 DEF SetOffline
<1>14. CASE RecordPlayerDisconnect(c)
  BY <1>14 DEF RecordPlayerDisconnect
<1> QED BY <1>1, <1>2, <1>3, <1>4, <1>5, <1>6, <1>7, <1>8, <1>9, <1>10, <1>11, <1>12,
           <1>13, <1>14 DEF Handler

\* ... a client, ...
LEMMA EntryClient ==
  ASSUME Types, EntryInv, NEW c \in Conn, Heartbeat(c) \/ Client(c) \/ Expire(c)
  PROVE  EntryInv'
<1> USE DEF Types, EntryInv, HandlersOK, SessionsOK, EntriesOK, CheckerOK, Exists, Inside,
            At, Free
<1>1. ASSUME NEW b \in BOOLEAN, conns' = [conns EXCEPT ![c].fresh = b],
             UNCHANGED <<link, pc, who, cur, session, checker>>
      PROVE  EntryInv'
  <2>1. \A d \in Conn : /\ conns'[d].user = conns[d].user /\ conns'[d].inRoom = conns[d].inRoom
                        /\ conns'[d].active = conns[d].active
    BY <1>1, FreshSet
  <2> QED BY <1>1, <2>1
<1>2. CASE Heartbeat(c) \/ Expire(c)
  BY <1>1, <1>2 DEF Heartbeat, Expire
<1>3. CASE Connect(c)
  BY <1>3 DEF Connect
<1>4. CASE Close(c)
  BY <1>4 DEF Close
<1>5. CASE Vanish(c)
  BY <1>5 DEF Vanish
<1>6. CASE Join(c)
  BY <1>6 DEF Join, Entry
<1>7. CASE JoinRefused(c)
  BY <1>7 DEF JoinRefused
<1>8. CASE Leave(c)
  BY <1>8 DEF Leave
<1>9. CASE GoodBye(c)
  BY <1>9 DEF GoodBye
<1>10. ASSUME NEW u \in User, SignUp(c, u) \/ Login(c, u) PROVE EntryInv'
  BY <1>10 DEF SignUp, Login, Asks, Begin
<1>11. ASSUME NEW u \in User, Reconnect(c, u) PROVE EntryInv'
  BY <1>11 DEF Reconnect, Begin
<1> QED BY <1>2, <1>3, <1>4, <1>5, <1>6, <1>7, <1>8, <1>9, <1>10, <1>11 DEF Client

\* ... the checker or a restart.
LEMMA EntryOthers ==
  ASSUME Types, EntryInv, Checker \/ StartGame \/ EndGame \/ Restart
  PROVE  EntryInv'
<1> USE DEF EntryInv, HandlersOK, SessionsOK, EntriesOK, CheckerOK, Exists, Inside
<1> checker \in CheckerRecord
  BY DEF Types, CheckerRecord
<1>1. ASSUME UNCHANGED <<link, pc, who, cur, session, conns>>,
             checker'.at # "idle" => checker.at # "idle" /\ checker'.conn = checker.conn
      PROVE  EntryInv'
  BY <1>1
<1>2. CASE GetTimeoutConnections
  <2>1. Silent \in SUBSET Conn
    BY DEF Silent
  <2>2. checker'.at = checker.at
    BY <1>2, <2>1, TodoSet DEF GetTimeoutConnections
  <2> QED BY <1>2, <2>2 DEF GetTimeoutConnections, Free
<1>3. ASSUME NEW c \in Conn, HandleTimeoutConnection(c) PROVE EntryInv'
  <2>1. CASE conns[c].active
    <3>1. /\ conns' = [conns EXCEPT ![c].active = FALSE]
          /\ checker' = [checker EXCEPT !.at = "status", !.conn = c]
      BY <1>3, <2>1 DEF HandleTimeoutConnection
    <3>2. checker'.conn = c
      <4>1. checker \in CheckerRecord
        BY DEF Types, CheckerRecord
      <4> QED BY <3>1, <4>1 DEF CheckerRecord
    <3>3. \A d \in Conn : /\ conns'[d].user = conns[d].user
                          /\ conns'[d].inRoom = conns[d].inRoom
                          /\ conns'[d].active => conns[d].active
      BY <3>1, ActiveCleared
    <3> QED BY <1>3, <2>1, <3>2, <3>3 DEF HandleTimeoutConnection
  <2>2. CASE ~conns[c].active
    <3>1. checker.todo \ {c} \in SUBSET Conn
      BY DEF Types
    <3>2. checker' = [checker EXCEPT !.todo = checker.todo \ {c}]
      BY <1>3, <2>2 DEF HandleTimeoutConnection
    <3>3. checker'.at = checker.at
      BY <3>1, <3>2, TodoSet
    <3> QED BY <1>3, <2>2, <3>3 DEF HandleTimeoutConnection, Free
  <2> QED BY <2>1, <2>2
<1>4. CASE MarkOffline
  <2>1. checker.at # "idle"
    BY <1>4 DEF MarkOffline
  <2>2. CASE checker' = Resumed
    BY <1>1, <1>4, <2>2, ResumedIs DEF MarkOffline
  <2>3. CASE checker' = [checker EXCEPT !.at = "away"]
    <3>1. checker'.conn = checker.conn
      BY <2>3, PlaceSet
    <3> QED BY <1>1, <1>4, <2>1, <3>1 DEF MarkOffline
  <2> QED BY <1>4, <2>2, <2>3 DEF MarkOffline
<1>5. CASE MarkAway
  <2>1. checker'.conn = checker.conn
    BY <1>5, PlaceSet DEF MarkAway
  <2> QED BY <1>1, <1>5, <2>1 DEF MarkAway
<1>6. CASE GenerateReconnectToken
  BY <1>1, <1>6, ResumedIs DEF GenerateReconnectToken
<1>7. CASE StartGame \/ EndGame
  BY <1>1, <1>7 DEF StartGame, EndGame
<1>8. CASE Restart
  BY <1>8 DEF Restart, Unknown, Resting
<1> QED BY <1>2, <1>3, <1>4, <1>5, <1>6, <1>7, <1>8 DEF Checker

\* Every step keeps handlers, sessions, entries and checker in order, ...
LEMMA EntryStep == Types /\ EntryInv /\ [Next]_vars => EntryInv'
<1> SUFFICES ASSUME Types, EntryInv, [Next]_vars PROVE EntryInv'
  OBVIOUS
<1>1. CASE UNCHANGED vars
  BY <1>1 DEF vars, core, EntryInv, HandlersOK, SessionsOK, EntriesOK, CheckerOK, Exists
<1>2. CASE Next
  BY <1>2, EntryHandler, EntryClient, EntryOthers DEF Next, Act
<1> QED BY <1>1, <1>2

\* ... so that they always are: handleLogin and handleReconnectRequest register a
\* connection for the session they begin, ~Communication takes it away.
LEMMA EntriesInOrder == Spec => []EntryInv
<1>1. Init => EntryInv
  <2> SUFFICES ASSUME Init PROVE EntryInv
    OBVIOUS
  <2>1. /\ checker.at = "idle"
        /\ \A c \in Conn : /\ conns[c].user = None /\ ~conns[c].active /\ ~conns[c].inRoom
                           /\ pc[c] = "idle" /\ session[c] = None
    BY DEF Init, Unknown, Resting
  <2> QED BY <2>1 DEF EntryInv, HandlersOK, SessionsOK, EntriesOK, CheckerOK, Inside
<1> QED BY <1>1, EntryStep, TypesKept, PTL DEF Spec

\* The state of the model has the types it is meant to have, a handler works
\* for a user, and nobody takes the entry the checker is at: whoever writes
\* m_connections takes m_mutex.
THEOREM TypeCorrect == Spec => []TypeOK
<1>1. Types /\ EntryInv => TypeOK
  <2> SUFFICES ASSUME Types, EntryInv PROVE TypeOK
    OBVIOUS
  <2>1. checker.at # "idle" => conns[checker.conn].user \in User
    BY DEF Types, EntryInv, CheckerOK
  <2>2. \A c \in Conn : pc[c] \notin {"idle", "offline", "record"} => who[c] \in User
    BY DEF EntryInv, HandlersOK, Inside
  <2> QED BY <2>1, <2>2 DEF TypeOK
<1> QED BY <1>1, EntriesInOrder, TypesKept, PTL

-----------------------------------------------------------------------------
\* A statement does what it says if none has failed.
LEMMA StatementWorks ==
  ASSUME Types, NEW u, NEW online \in BOOLEAN, SetStatus(u, online), "sql" \notin faults'
  PROVE  status' = [status EXCEPT ![u] = online] /\ faults' = faults
  BY DEF SetStatus, Fault

\* Whoever will see the end of a connection of a user goes on to do so until
\* the user is offline, whatever a handler does, ...
LEMMA WatchedHandler ==
  ASSUME Types, EntryInv, "sql" \notin faults', NEW d \in Conn, Handler(d),
         NEW c \in Conn, NEW u \in User, Watched(c, u), status'[u]
  PROVE  Watched(c, u)'
<1> USE DEF Types, Watched, Exists, Inside, At, Goto, Free, EntryInv, HandlersOK, SessionsOK
<1>1. CASE CheckExists(d)
  BY <1>1 DEF CheckExists
<1>2. CASE InsertUser(d)
  BY <1>2 DEF InsertUser, Insert
<1>3. CASE InsertInfo(d)
  BY <1>3 DEF InsertInfo, Insert
<1>4. CASE Commit(d)
  BY <1>4 DEF Commit
<1>5. CASE CheckLogin(d)
  BY <1>5 DEF CheckLogin
<1>6. CASE SetOnline(d)
  <2>1. pc[d] = "online" /\ UNCHANGED <<link, session, conns, checker>>
    BY <1>6 DEF SetOnline
  <2>2. c # d
    BY <2>1, ConstantsAssumption
  <2>3. pc'[c] = pc[c] /\ who'[c] = who[c]
    BY <1>6, <2>2 DEF SetOnline
  <2> QED BY <2>1, <2>3
<1>7. CASE RegisterConnection(d)
  <2>1. conns'[d].active /\ session'[d] = who[d] /\ pc'[d] = "idle" /\ link' = link
    BY <1>7 DEF RegisterConnection, Entry
  <2>2. CASE c = d
    <3>1. pc[c] \in {"register", "backRegister"} /\ session[c] = None /\ Exists(c)
      BY <1>7, <2>2 DEF RegisterConnection
    <3>2. who[c] = u
      BY <3>1, ConstantsAssumption
    <3> QED BY <2>1, <2>2, <3>1, <3>2
  <2>3. CASE c # d
    BY <1>7, <2>3 DEF RegisterConnection
  <2> QED BY <2>2, <2>3
<1>8. CASE ValidateToken(d)
  BY <1>8 DEF ValidateToken
<1>9. CASE Forget(d)
  BY <1>9 DEF Forget
<1>10. CASE RemoveFromDisconnectList(d)
  BY <1>10 DEF RemoveFromDisconnectList
<1>11. CASE BackOnline(d)
  BY <1>11 DEF BackOnline
<1>12. CASE BackRegister(d)
  <2>1. conns'[d].active /\ session'[d] = who[d] /\ pc'[d] = "idle" /\ link' = link
    BY <1>12 DEF BackRegister, Entry
  <2>2. CASE c = d
    <3>1. pc[c] \in {"register", "backRegister"} /\ session[c] = None /\ Exists(c)
      BY <1>12, <2>2 DEF BackRegister
    <3>2. who[c] = u
      BY <3>1, ConstantsAssumption
    <3> QED BY <2>1, <2>2, <3>1, <3>2
  <2>3. CASE c # d
    BY <1>12, <2>3 DEF BackRegister
  <2> QED BY <2>2, <2>3
<1>13. CASE UnregisterConnection(d)
  BY <1>13 DEF UnregisterConnection, Unknown
<1>14. CASE SetOffline(d)
  <2>1. ASSUME cur[d] # None PROVE ~status'[cur[d]]
    <3>1. status' = [status EXCEPT ![cur[d]] = FALSE]
      BY <1>14, <2>1, StatementWorks DEF SetOffline
    <3> QED BY <2>1, <3>1
  <2> QED BY <1>14, <2>1, ConstantsAssumption DEF SetOffline
<1>15. CASE RecordPlayerDisconnect(d)
  BY <1>15 DEF RecordPlayerDisconnect
<1> QED BY <1>1, <1>2, <1>3, <1>4, <1>5, <1>6, <1>7, <1>8, <1>9, <1>10, <1>11, <1>12,
           <1>13, <1>14, <1>15 DEF Handler

\* ... a client, ...
LEMMA WatchedClient ==
  ASSUME Types, EntryInv, NEW d \in Conn, Heartbeat(d) \/ Client(d) \/ Expire(d),
         NEW c \in Conn, NEW u \in User, Watched(c, u)
  PROVE  Watched(c, u)'
<1> USE DEF Types, Watched, Exists, Inside, At, Free, EntryInv, HandlersOK, SessionsOK
<1>1. ASSUME NEW b \in BOOLEAN, conns' = [conns EXCEPT ![d].fresh = b],
             UNCHANGED <<link, pc, who, cur, session, checker>>
      PROVE  Watched(c, u)'
  <2>1. conns'[c].active = conns[c].active
    BY <1>1, FreshSet
  <2> QED BY <1>1, <2>1
<1>2. CASE Heartbeat(d) \/ Expire(d)
  BY <1>1, <1>2 DEF Heartbeat, Expire
<1>3. CASE Connect(d) \/ Close(d) \/ Vanish(d) \/ GoodBye(d)
  <2>1. UNCHANGED <<pc, who, cur, session, conns, checker>>
    BY <1>3 DEF Connect, Close, Vanish, GoodBye
  <2>2. PICK new \in {"up", "silent", "closing"} :
          link' = [link EXCEPT ![d] = new] /\ (new # "closing" => link[d] # "closing")
    BY <1>3 DEF Connect, Close, Vanish, GoodBye
  <2> QED BY <2>1, <2>2
<1>4. CASE Join(d)
  BY <1>4 DEF Join, Entry
<1>5. CASE JoinRefused(d) \/ Leave(d)
  BY <1>5 DEF JoinRefused, Leave
<1>6. ASSUME NEW v \in User, SignUp(d, v) \/ Login(d, v) PROVE Watched(c, u)'
  BY <1>6 DEF SignUp, Login, Asks, Begin
<1>7. ASSUME NEW v \in User, Reconnect(d, v) PROVE Watched(c, u)'
  BY <1>7 DEF Reconnect, Begin
<1> QED BY <1>2, <1>3, <1>4, <1>5, <1>6, <1>7 DEF Client

\* ... or the checker.
LEMMA WatchedChecker ==
  ASSUME Types, EntryInv, "sql" \notin faults', Checker,
         NEW c \in Conn, NEW u \in User, Watched(c, u), status'[u]
  PROVE  Watched(c, u)'
<1> USE DEF Watched, Exists
<1> checker \in CheckerRecord
  BY DEF Types, CheckerRecord
<1>1. CASE GetTimeoutConnections
  BY <1>1 DEF GetTimeoutConnections, Free
<1>2. ASSUME NEW d \in Conn, HandleTimeoutConnection(d) PROVE Watched(c, u)'
  <2>1. CASE conns[d].active
    <3>1. /\ conns' = [conns EXCEPT ![d].active = FALSE]
          /\ checker' = [checker EXCEPT !.at = "status", !.conn = d]
      BY <1>2, <2>1 DEF HandleTimeoutConnection
    <3>2. checker'.at = "status" /\ checker'.conn = d
      BY <3>1, TakenSet
    <3>3. c # d => conns'[c].active = conns[c].active
      BY <3>1, ActiveCleared
    <3> QED BY <1>2, <3>2, <3>3 DEF HandleTimeoutConnection, Free
  <2>2. CASE ~conns[d].active
    BY <1>2, <2>2 DEF HandleTimeoutConnection, Free
  <2> QED BY <2>1, <2>2
<1>3. CASE MarkOffline
  <2>1. status' = [status EXCEPT ![conns[checker.conn].user] = FALSE]
    BY <1>3, StatementWorks DEF MarkOffline
  <2>2. checker.conn = c => session[c] = conns[c].user
    BY <1>3 DEF MarkOffline, EntryInv, CheckerOK, EntriesOK
  <2>3. checker.conn = c => session[c] # u
    BY <2>1, <2>2 DEF Types
  <2> QED BY <1>3, <2>3 DEF MarkOffline
<1>4. CASE MarkAway \/ GenerateReconnectToken
  BY <1>4 DEF MarkAway, GenerateReconnectToken
<1> QED BY <1>1, <1>2, <1>3, <1>4 DEF Checker

\* What has failed is not forgotten.
LEMMA FaultsStay == [Next]_vars => faults \subseteq faults'
<1> SUFFICES ASSUME [Next]_vars PROVE faults \subseteq faults'
  OBVIOUS
<1> USE DEF Fault, SetStatus
<1>1. CASE UNCHANGED vars
  BY <1>1 DEF vars, core
<1>2. ASSUME NEW c \in Conn, Handler(c) PROVE faults \subseteq faults'
  BY <1>2 DEF Handler, CheckExists, InsertUser, InsertInfo, Insert, Commit, CheckLogin, SetOnline,
     RegisterConnection, ValidateToken, Forget, RemoveFromDisconnectList, BackOnline,
     BackRegister, UnregisterConnection, SetOffline, RecordPlayerDisconnect
<1>3. ASSUME NEW c \in Conn, Heartbeat(c) \/ Client(c) \/ Expire(c)
      PROVE  faults \subseteq faults'
  BY <1>3 DEF Heartbeat, Client, Expire, Connect, Close, Vanish, Join, JoinRefused, Leave, GoodBye,
     SignUp, Login, Reconnect, Asks, Begin
<1>4. CASE Checker \/ StartGame \/ EndGame \/ Restart
  BY <1>4 DEF Checker, GetTimeoutConnections, HandleTimeoutConnection, MarkOffline,
     MarkAway, GenerateReconnectToken, StartGame, EndGame, Restart
<1> QED BY <1>1, <1>2, <1>3, <1>4 DEF Next, Act

\* Only two steps set a user online.
LEMMA SetsOnline ==
  ASSUME Types, EntryInv, "sql" \notin faults', Next, ~Restart,
         NEW u \in User, ~status[u], status'[u]
  PROVE  \E c \in Conn : Watched(c, u)'
<1> USE DEF Types
<1>1. ASSUME NEW d \in Conn, SetOnline(d) \/ BackOnline(d)
      PROVE  \E c \in Conn : Watched(c, u)'
  <2>1. who[d] = u /\ pc'[d] \in {"register", "backRegister"} /\ who'[d] = u
    BY <1>1 DEF SetOnline, BackOnline, SetStatus, Goto
  <2> QED BY <2>1 DEF Watched
<1>2. \E d \in Conn : SetOnline(d) \/ BackOnline(d)
  <2> SUFFICES ASSUME ~\E d \in Conn : SetOnline(d) \/ BackOnline(d)
               PROVE  ~status'[u]
    OBVIOUS
  <2> USE DEF SetStatus
  <2>1. ASSUME NEW c \in Conn, Handler(c) PROVE ~status'[u]
    BY <2>1 DEF Handler, CheckExists, InsertUser, InsertInfo, Insert, Commit, CheckLogin,
       RegisterConnection, ValidateToken, Forget, RemoveFromDisconnectList,
       BackRegister, UnregisterConnection, SetOffline, RecordPlayerDisconnect
  <2>2. ASSUME NEW c \in Conn, Heartbeat(c) \/ Client(c) \/ Expire(c) PROVE ~status'[u]
    BY <2>2 DEF Heartbeat, Client, Expire, Connect, Close, Vanish, Join, JoinRefused, Leave,
       GoodBye, SignUp, Login, Reconnect, Asks, Begin
  <2>3. CASE Checker \/ StartGame \/ EndGame
    BY <2>3 DEF Checker, GetTimeoutConnections, HandleTimeoutConnection, MarkOffline,
       MarkAway, GenerateReconnectToken, StartGame, EndGame
  <2> QED BY <2>1, <2>2, <2>3 DEF Next, Act
<1> QED BY <1>1, <1>2

\* Whoever is online has a connection whose end will be seen.
LEMMA OnlineStep == Types /\ EntryInv /\ OnlineIsWatched /\ [Next]_vars => OnlineIsWatched'
<1> SUFFICES ASSUME Types, EntryInv, OnlineIsWatched, [Next]_vars,
                    faults' \cap {"sql", "restart"} = {}, NEW u \in User, status'[u]
             PROVE  \E c \in Conn : Watched(c, u)'
  BY DEF OnlineIsWatched
<1>1. "sql" \notin faults' /\ faults \cap {"sql", "restart"} = {} /\ ~Restart
  BY FaultsStay DEF Restart, Fault
<1>2. CASE UNCHANGED vars
  BY <1>1, <1>2 DEF vars, core, OnlineIsWatched, Watched, Exists
<1>3. CASE Next /\ ~status[u]
  BY <1>1, <1>3, SetsOnline
<1>4. CASE Next /\ status[u]
  <2>1. PICK c \in Conn : Watched(c, u)
    BY <1>1, <1>4 DEF OnlineIsWatched
  <2>2. ASSUME NEW d \in Conn, Act(d) PROVE Watched(c, u)'
    BY <1>1, <2>1, <2>2, WatchedHandler, WatchedClient DEF Act
  <2>3. CASE Checker
    BY <1>1, <2>1, <2>3, WatchedChecker
  <2>4. CASE StartGame \/ EndGame
    BY <2>1, <2>4 DEF StartGame, EndGame, Watched, Exists
  <2> QED BY <1>1, <1>4, <2>2, <2>3, <2>4 DEF Next
<1> QED BY <1>2, <1>3, <1>4

\* A user who is online has a connection whose end will set him offline, unless
\* a statement failed or the server was restarted: nobody is locked out.
THEOREM NobodyLockedOut == Spec => []NotLockedOut
<1>1. Init => OnlineIsWatched
  BY DEF Init, OnlineIsWatched
<1>2. Types /\ EntryInv /\ OnlineIsWatched => NotLockedOut
  BY ConstantsAssumption DEF Types, EntryInv, SessionsOK, OnlineIsWatched, NotLockedOut,
     Watched, Answers
<1> QED BY <1>1, <1>2, OnlineStep, EntriesInOrder, TypesKept, PTL DEF Spec

-----------------------------------------------------------------------------
\* raced and overlaid are never taken back, and say what they are meant to say.
LEMMA WatchStep ==
  ASSUME Watch
  PROVE  (~raced' => ~raced) /\ (~overlaid' => ~overlaid) /\ NotRaced' /\ NotOverlaid'
<1>1. (~raced' => ~raced) /\ NotRaced'
  BY DEF Watch, NotRaced
<1>2. (~overlaid' => ~overlaid) /\ NotOverlaid'
  BY DEF Watch, NotOverlaid
<1> QED BY <1>1, <1>2

\* A punctual client stays out of the checker's hands, whatever is done to its
\* connection, ...
LEMMA PunctualConn ==
  ASSUME Types, EntryInv, PunctualOK, "slow" \notin faults', faults \subseteq faults',
         NEW d \in Conn, Act(d)
  PROVE  PunctualOK'
<1> USE DEF PunctualOK
<1>1. ASSUME UNCHANGED <<conns, checker>>,
             \A c \in Conn : link'[c] \in {"none", "up"} => link[c] \in {"none", "up"}
      PROVE  PunctualOK'
  BY <1>1
<1>2. ASSUME NEW e, conns' = [conns EXCEPT ![d] = e], e.active => e.fresh,
             UNCHANGED <<checker, link>>
      PROVE  PunctualOK'
  BY <1>2 DEF Types
<1>3. CASE RegisterConnection(d) \/ BackRegister(d)
  BY <1>2, <1>3 DEF RegisterConnection, BackRegister, Entry
<1>4. CASE UnregisterConnection(d)
  BY <1>2, <1>4 DEF UnregisterConnection, Unknown
<1>5. CASE Join(d)
  BY <1>2, <1>5 DEF Join, Entry
<1>6. CASE Heartbeat(d)
  <2>1. /\ conns' = [conns EXCEPT ![d].fresh = TRUE] /\ UNCHANGED <<checker, link>>
    BY <1>6 DEF Heartbeat
  <2>2. \A c \in Conn : conns'[c].active = conns[c].active
                       /\ (conns[c].fresh => conns'[c].fresh)
    BY <2>1, FreshSet
  <2> QED BY <2>1, <2>2
<1>7. CASE Expire(d)
  <2>1. /\ conns' = [conns EXCEPT ![d].fresh = FALSE] /\ UNCHANGED <<checker, link>>
        /\ link[d] # "up"
    BY <1>7 DEF Expire, Fault
  <2>2. \A c \in Conn : conns'[c].active = conns[c].active
                       /\ (c # d => conns'[c].fresh = conns[c].fresh)
    BY <2>1, FreshSet
  <2>3. link[d] = "none" => ~conns[d].active
    BY DEF EntryInv, EntriesOK, Exists
  <2> QED BY <2>1, <2>2, <2>3
<1>8. CASE Handler(d) /\ ~(RegisterConnection(d) \/ BackRegister(d) \/ UnregisterConnection(d))
  <2>1. UNCHANGED <<conns, checker>>
    BY <1>8 DEF Handler, CheckExists, InsertUser, InsertInfo, Insert, Commit, CheckLogin,
       SetOnline, ValidateToken, Forget, RemoveFromDisconnectList, BackOnline, SetOffline,
       RecordPlayerDisconnect
  <2>2. link' = link \/ link' = [link EXCEPT ![d] = "down"]
    BY <1>8 DEF Handler, CheckExists, InsertUser, InsertInfo, Insert, Commit, CheckLogin,
       SetOnline, ValidateToken, Forget, RemoveFromDisconnectList, BackOnline, SetOffline,
       RecordPlayerDisconnect
  <2> QED BY <1>1, <2>1, <2>2 DEF Types
<1>9. CASE Client(d) /\ ~Join(d)
  <2>1. UNCHANGED <<conns, checker>>
    BY <1>9 DEF Client, Connect, Close, Vanish, JoinRefused, Leave, GoodBye, SignUp, Login,
       Reconnect, Asks, Begin
  <2>2. \/ link' = link \/ link' = [link EXCEPT ![d] = "silent"]
        \/ link' = [link EXCEPT ![d] = "closing"]
        \/ link[d] = "none" /\ link' = [link EXCEPT ![d] = "up"]
    BY <1>9 DEF Client, Connect, Close, Vanish, JoinRefused, Leave, GoodBye, SignUp, Login,
       Reconnect, Asks, Begin
  <2> QED BY <1>1, <2>1, <2>2 DEF Types
<1> QED BY <1>3, <1>4, <1>5, <1>6, <1>7, <1>8, <1>9 DEF Act

\* ... or by the checker or a restart.
LEMMA PunctualOthers ==
  ASSUME Types, EntryInv, PunctualOK, "slow" \notin faults', faults \subseteq faults',
         Checker \/ StartGame \/ EndGame \/ Restart
  PROVE  PunctualOK'
<1> USE DEF PunctualOK
<1> checker \in CheckerRecord
  BY DEF Types, CheckerRecord
<1>1. CASE GetTimeoutConnections
  <2>1. Silent \in SUBSET Conn
    BY DEF Silent
  <2>2. checker'.todo = Silent /\ checker'.at = checker.at /\ checker'.conn = checker.conn
    BY <1>1, <2>1, TodoSet DEF GetTimeoutConnections
  <2>3. \A c \in Conn : link[c] \in {"none", "up"} => c \notin Silent
    BY DEF Silent
  <2> QED BY <1>1, <2>2, <2>3 DEF GetTimeoutConnections
<1>2. ASSUME NEW d \in Conn, HandleTimeoutConnection(d) PROVE PunctualOK'
  <2>1. d \in checker.todo /\ link' = link
    BY <1>2 DEF HandleTimeoutConnection
  <2>2. CASE conns[d].active
    <3>1. /\ conns' = [conns EXCEPT ![d].active = FALSE]
          /\ checker' = [checker EXCEPT !.at = "status", !.conn = d]
      BY <1>2, <2>2 DEF HandleTimeoutConnection
    <3>2. checker'.conn = d /\ checker'.todo = checker.todo
      BY <3>1, TakenSet
    <3>3. \A c \in Conn : conns'[c].fresh = conns[c].fresh
                         /\ (conns'[c].active => conns[c].active)
      BY <3>1, ActiveCleared
    <3> QED BY <2>1, <3>2, <3>3
  <2>3. CASE ~conns[d].active
    <3>1. checker.todo \ {d} \in SUBSET Conn
      BY DEF Types
    <3>2. checker' = [checker EXCEPT !.todo = checker.todo \ {d}] /\ conns' = conns
      BY <1>2, <2>3 DEF HandleTimeoutConnection
    <3>3. /\ checker'.todo = checker.todo \ {d}
          /\ checker'.at = checker.at /\ checker'.conn = checker.conn
      BY <3>1, <3>2, TodoSet
    <3> QED BY <2>1, <3>2, <3>3
  <2> QED BY <2>2, <2>3
<1>3. CASE checker.at # "idle" /\ checker' = Resumed /\ UNCHANGED <<link, conns>>
  BY <1>3, ResumedIs
<1>4. ASSUME NEW there \in {"away", "token"}, checker.at # "idle",
             checker' = [checker EXCEPT !.at = there], UNCHANGED <<link, conns>>
      PROVE  PunctualOK'
  <2>1. checker'.todo = checker.todo /\ checker'.conn = checker.conn
    BY <1>4, PlaceSet
  <2> QED BY <1>4, <2>1
<1>5. CASE MarkOffline
  BY <1>3, <1>4, <1>5 DEF MarkOffline
<1>6. CASE MarkAway
  BY <1>4, <1>6 DEF MarkAway
<1>7. CASE GenerateReconnectToken
  BY <1>3, <1>7 DEF GenerateReconnectToken
<1>8. CASE StartGame \/ EndGame
  BY <1>8 DEF StartGame, EndGame
<1>9. CASE Restart
  BY <1>9 DEF Restart, Unknown, Resting
<1> QED BY <1>1, <1>2, <1>5, <1>6, <1>7, <1>8, <1>9 DEF Checker

\* From where to where a handler goes.
Moves ==
  {<<"exists", "idle">>, <<"exists", "insertUser">>, <<"insertUser", "insertInfo">>,
   <<"insertInfo", "commit">>, <<"commit", "idle">>,
   <<"login", "online">>, <<"login", "idle">>, <<"online", "register">>, <<"online", "idle">>,
   <<"register", "idle">>,
   <<"validate", "back">>, <<"validate", "forget">>, <<"forget", "idle">>,
   <<"back", "backOnline">>, <<"backOnline", "backRegister">>, <<"backRegister", "idle">>,
   <<"idle", "offline">>, <<"offline", "record">>, <<"record", "idle">>}

\* A handler goes on along a move, and the others stay where they are.
LEMMA HandlerMoves ==
  ASSUME Types, NEW d \in Conn, Handler(d)
  PROVE  /\ \A c \in Conn \ {d} : pc'[c] = pc[c] /\ who'[c] = who[c]
         /\ <<pc[d], pc'[d]>> \in Moves
         /\ who'[d] = IF pc'[d] = "idle" THEN None ELSE who[d]
<1> USE DEF Types, Moves, At
<1>1. ASSUME NEW there \in Places, Goto(d, there)
      PROVE  /\ \A c \in Conn \ {d} : pc'[c] = pc[c] /\ who'[c] = who[c]
             /\ pc'[d] = there /\ who'[d] = IF there = "idle" THEN None ELSE who[d]
  BY <1>1 DEF Goto
<1>2. ASSUME NEW there \in Places, <<pc[d], there>> \in Moves, Goto(d, there)
      PROVE  /\ \A c \in Conn \ {d} : pc'[c] = pc[c] /\ who'[c] = who[c]
             /\ <<pc[d], pc'[d]>> \in Moves
             /\ who'[d] = IF pc'[d] = "idle" THEN None ELSE who[d]
  BY <1>1, <1>2
<1> SUFFICES \E there \in Places : Goto(d, there) /\ <<pc[d], there>> \in Moves
  BY <1>2
<1> USE DEF Places
<1>3. CASE CheckExists(d)
  BY <1>3 DEF CheckExists
<1>4. CASE InsertUser(d) \/ InsertInfo(d)
  BY <1>4 DEF InsertUser, InsertInfo
<1>5. CASE Commit(d)
  BY <1>5 DEF Commit
<1>6. CASE CheckLogin(d)
  BY <1>6 DEF CheckLogin
<1>7. CASE SetOnline(d)
  BY <1>7 DEF SetOnline
<1>8. CASE RegisterConnection(d)
  BY <1>8 DEF RegisterConnection
<1>9. CASE ValidateToken(d)
  BY <1>9 DEF ValidateToken
<1>10. CASE Forget(d)
  BY <1>10 DEF Forget
<1>11. CASE RemoveFromDisconnectList(d)
  BY <1>11 DEF RemoveFromDisconnectList
<1>12. CASE BackOnline(d)
  BY <1>12 DEF BackOnline
<1>13. CASE BackRegister(d)
  BY <1>13 DEF BackRegister
<1>14. CASE UnregisterConnection(d)
  BY <1>14 DEF UnregisterConnection
<1>15. CASE SetOffline(d)
  BY <1>15 DEF SetOffline
<1>16. CASE RecordPlayerDisconnect(d)
  BY <1>16 DEF RecordPlayerDisconnect
<1> QED BY <1>3, <1>4, <1>5, <1>6, <1>7, <1>8, <1>9, <1>10, <1>11, <1>12, <1>13, <1>14,
           <1>15, <1>16 DEF Handler

\* Nobody comes back as a user whose client is there: the client would have
\* been let in at the same time.
LEMMA BackStep ==
  ASSUME Types, EntryInv, NotRaced, BackIsAlone, Next, ~raced
  PROVE  \A c, d \in Conn : c # d /\ Up(c)' /\ pc'[d] \in Returning => session'[c] # who'[d]
<1> USE DEF Types, BackIsAlone, Up, Returning, At, Goto
<1>1. ASSUME UNCHANGED <<pc, who, session>>,
             \A c \in Conn : link'[c] = "up" => link[c] = "up" \/ session[c] = None
      PROVE  \A c, d \in Conn : c # d /\ Up(c)' /\ pc'[d] \in Returning => session'[c] # who'[d]
  BY <1>1
<1>2. ASSUME NEW d \in Conn, Handler(d)
      PROVE  \A c, e \in Conn : c # e /\ Up(c)' /\ pc'[e] \in Returning => session'[c] # who'[e]
  <2>1. CASE RegisterConnection(d) \/ BackRegister(d)
    <3>1. /\ pc[d] \in {"register", "backRegister"} /\ pc' = [pc EXCEPT ![d] = "idle"]
          /\ who' = [who EXCEPT ![d] = None] /\ session' = [session EXCEPT ![d] = who[d]]
          /\ link' = link
      BY <2>1 DEF RegisterConnection, BackRegister
    <3> QED BY <3>1 DEF NotRaced, Entering
  <2>2. CASE ~(RegisterConnection(d) \/ BackRegister(d))
    <3>1. session' = session /\ (link' = link \/ link' = [link EXCEPT ![d] = "down"])
      BY <1>2, <2>2 DEF Handler, CheckExists, InsertUser, InsertInfo, Insert, Commit, CheckLogin,
         SetOnline, ValidateToken, Forget, RemoveFromDisconnectList, BackOnline,
         UnregisterConnection, SetOffline, RecordPlayerDisconnect
    <3>2. \A c \in Conn \ {d} : pc'[c] = pc[c] /\ who'[c] = who[c]
      BY <1>2, HandlerMoves
    <3>3. pc'[d] \in Returning => pc[d] \in Returning /\ who'[d] = who[d]
      BY <1>2, HandlerMoves DEF Moves
    <3>4. \A c \in Conn : Up(c)' => Up(c)
      BY <3>1
    <3>5. \A c \in Conn : pc'[c] \in Returning => pc[c] \in Returning /\ who'[c] = who[c]
      BY <3>2, <3>3
    <3> QED BY <3>1, <3>4, <3>5
  <2> QED BY <2>1, <2>2
<1>3. ASSUME NEW d \in Conn, Heartbeat(d) \/ Client(d) \/ Expire(d)
      PROVE  \A c, e \in Conn : c # e /\ Up(c)' /\ pc'[e] \in Returning => session'[c] # who'[e]
  <2>1. ASSUME NEW u \in User, SignUp(d, u) \/ Login(d, u)
        PROVE  \A c, e \in Conn : c # e /\ Up(c)' /\ pc'[e] \in Returning => session'[c] # who'[e]
    <3>1. PICK first \in {"exists", "login"} : Begin(d, u, first)
      BY <2>1 DEF SignUp, Login, Asks
    <3>2. /\ UNCHANGED <<link, session>> /\ pc'[d] \notin Returning
          /\ \A c \in Conn \ {d} : pc'[c] = pc[c] /\ who'[c] = who[c]
      BY <3>1 DEF Begin
    <3>3. \A c \in Conn : pc'[c] \in Returning => pc[c] \in Returning /\ who'[c] = who[c]
      BY <3>2
    <3> QED BY <3>2, <3>3
  <2>2. ASSUME NEW u \in User, Reconnect(d, u)
        PROVE  \A c, e \in Conn : c # e /\ Up(c)' /\ pc'[e] \in Returning => session'[c] # who'[e]
    BY <2>2 DEF Reconnect, Begin
  <2>3. CASE Connect(d)
    BY <1>1, <2>3 DEF Connect, EntryInv, SessionsOK
  <2>4. CASE Heartbeat(d) \/ Expire(d) \/ Close(d) \/ Vanish(d) \/ Join(d) \/ JoinRefused(d)
             \/ Leave(d) \/ GoodBye(d)
    BY <1>1, <2>4 DEF Heartbeat, Expire, Close, Vanish, Join, JoinRefused, Leave, GoodBye
  <2> QED BY <1>3, <2>1, <2>2, <2>3, <2>4 DEF Client
<1>4. CASE Checker \/ StartGame \/ EndGame
  BY <1>1, <1>4 DEF Checker, GetTimeoutConnections, HandleTimeoutConnection, MarkOffline,
     MarkAway, GenerateReconnectToken, StartGame, EndGame
<1>5. CASE Restart
  BY <1>5 DEF Restart
<1> QED BY <1>2, <1>3, <1>4, <1>5 DEF Next, Act

\* Every step keeps what raced, overlaid and a punctual heartbeat stand for, ...
LEMMA WatchInvStep == Types /\ EntryInv /\ WatchInv /\ [Next]_vars => WatchInv'
<1> SUFFICES ASSUME Types, EntryInv, WatchInv, [Next]_vars PROVE WatchInv'
  OBVIOUS
<1> USE DEF WatchInv
<1>1. CASE UNCHANGED vars
  BY <1>1 DEF vars, core, PunctualOK, NotRaced, NotOverlaid, BackIsAlone, Up
<1>2. CASE Next
  <2>1. (~raced' => ~raced) /\ NotRaced' /\ NotOverlaid'
    BY <1>2, WatchStep DEF Next
  <2>2. faults \subseteq faults'
    BY FaultsStay
  <2>3. PunctualOK'
    <3>1. CASE "slow" \in faults'
      BY <3>1 DEF PunctualOK
    <3>2. CASE "slow" \notin faults'
      BY <1>2, <2>2, <3>2, PunctualConn, PunctualOthers DEF Next
    <3> QED BY <3>1, <3>2
  <2>4. BackIsAlone'
    BY <1>2, <2>1, BackStep DEF BackIsAlone
  <2> QED BY <2>1, <2>3, <2>4
<1> QED BY <1>1, <1>2

\* ... so that it always holds.
LEMMA WatchKept == Spec => []WatchInv
<1>1. Init => WatchInv
  <2> SUFFICES ASSUME Init PROVE WatchInv
    OBVIOUS
  <2>1. PunctualOK
    BY DEF Init, Unknown, Resting, PunctualOK
  <2>2. NotRaced /\ NotOverlaid /\ BackIsAlone
    BY DEF Init, NotRaced, NotOverlaid, BackIsAlone, Up, Entering, Returning
  <2> QED BY <2>1, <2>2 DEF WatchInv
<1> QED BY <1>1, WatchInvStep, EntriesInOrder, TypesKept, PTL DEF Spec

-----------------------------------------------------------------------------
\* The parts of InIsOnline.
InParts == UpIsOnline /\ NextIsOnline /\ NoneEnters /\ UpAlone

\* Who is let in, and whose status is set, is let in and online: only one who
\* is not online comes to be let in.
LEMMA InFrame ==
  ASSUME Types, EntryInv, InParts, UNCHANGED session, UpIsOnline', NextIsOnline',
         \A c \in Conn : link'[c] = "up" => link[c] = "up" \/ session[c] = None,
         \A c \in Conn : pc'[c] \in Entering \ {"login"} =>
           who'[c] = who[c] /\ (pc[c] \in Entering \ {"login"} \/ ~status[who[c]])
                            /\ (pc[c] \in Entering \ {"login"} \/ pc[c] = "login")
  PROVE  InParts'
<1>1. \A c \in Conn : Up(c)' => Up(c)
  BY DEF Up
<1>2. UpAlone'
  BY <1>1 DEF InParts, UpAlone
<1>3. NoneEnters'
  <2> SUFFICES ASSUME NEW c \in Conn, NEW d \in Conn, c # d, Up(c)',
                      pc'[d] \in Entering \ {"login"}
               PROVE  session'[c] # who'[d]
    BY DEF NoneEnters
  <2>1. Up(c) /\ status[session[c]] /\ session'[c] = session[c] /\ who'[d] = who[d]
    BY <1>1 DEF InParts, UpIsOnline
  <2>2. CASE pc[d] \in Entering \ {"login"}
    BY <2>1, <2>2 DEF InParts, NoneEnters
  <2>3. CASE ~status[who[d]]
    BY <2>1, <2>3
  <2> QED BY <2>2, <2>3
<1> QED BY <1>2, <1>3 DEF InParts

\* ... A status is reset of a user who is not in and not about to be.
LEMMA InLowered ==
  ASSUME Types, EntryInv, InParts, UNCHANGED session,
         NEW u, status' = [status EXCEPT ![u] = FALSE],
         \A c \in Conn : link'[c] = "up" => link[c] = "up",
         \A c \in Conn : link'[c] = "up" /\ session[c] # None => session[c] # u,
         \A c \in Conn : pc'[c] \in Entering => pc'[c] = pc[c] /\ who'[c] = who[c],
         \A c \in Conn : pc'[c] \in {"register", "backRegister"} => who[c] # u
  PROVE  InParts'
<1>1. UpIsOnline'
  <2> SUFFICES ASSUME NEW c \in Conn, Up(c)' PROVE status'[session'[c]]
    BY DEF UpIsOnline
  <2>1. Up(c) /\ session'[c] = session[c] /\ session[c] # u
    BY DEF Up
  <2>2. session[c] \in User
    BY <2>1 DEF Types, Up
  <2>3. status[session[c]]
    BY <2>1 DEF InParts, UpIsOnline
  <2> QED BY <2>1, <2>2, <2>3 DEF Types
<1>2. NextIsOnline'
  <2> SUFFICES ASSUME NEW c \in Conn, pc'[c] \in {"register", "backRegister"}
               PROVE  status'[who'[c]]
    BY DEF NextIsOnline
  <2>1. pc[c] = pc'[c] /\ who'[c] = who[c] /\ who[c] # u
    BY DEF Entering
  <2>2. who[c] \in User
    BY <2>1 DEF EntryInv, HandlersOK, Inside
  <2>3. status[who[c]]
    BY <2>1 DEF InParts, NextIsOnline
  <2> QED BY <2>1, <2>2, <2>3 DEF Types
<1>3. \A c \in Conn : pc'[c] \in Entering \ {"login"} =>
           who'[c] = who[c] /\ (pc[c] \in Entering \ {"login"} \/ ~status[who[c]])
                            /\ (pc[c] \in Entering \ {"login"} \/ pc[c] = "login")
  OBVIOUS
<1> QED BY <1>1, <1>2, <1>3, InFrame

\* ... No status changes.
LEMMA InSame ==
  ASSUME Types, EntryInv, InParts, UNCHANGED <<status, session>>,
         \A c \in Conn : link'[c] = "up" => link[c] = "up" \/ session[c] = None,
         \A c \in Conn : pc'[c] \in Entering \ {"login"} =>
           /\ who'[c] = who[c]
           /\ pc[c] \in Entering \ {"login"} \/ (pc[c] = "login" /\ ~status[who[c]]),
         \A c \in Conn : pc'[c] \in {"register", "backRegister"} => pc'[c] = pc[c]
  PROVE  InParts'
<1>1. UpIsOnline'
  BY DEF Up, InParts, UpIsOnline
<1>2. NextIsOnline'
  BY DEF InParts, NextIsOnline, Entering
<1> QED BY <1>1, <1>2, InFrame

\* ... Nobody goes on.
LEMMA InUnmoved ==
  ASSUME Types, EntryInv, InParts, UNCHANGED <<status, session>>,
         \A c \in Conn : link'[c] = "up" => link[c] = "up" \/ session[c] = None,
         \A c \in Conn : pc'[c] \in Entering \ {"login"} => pc'[c] = pc[c] /\ who'[c] = who[c]
  PROVE  InParts'
<1>1. \A c \in Conn : pc'[c] \in Entering \ {"login"} =>
           /\ who'[c] = who[c]
           /\ pc[c] \in Entering \ {"login"} \/ (pc[c] = "login" /\ ~status[who[c]])
  OBVIOUS
<1>2. \A c \in Conn : pc'[c] \in {"register", "backRegister"} => pc'[c] = pc[c]
  BY DEF Entering
<1> QED BY <1>1, <1>2, InSame

\* ... A status is set of the user who is about to be let in.
LEMMA InRaised ==
  ASSUME Types, EntryInv, InParts, UNCHANGED <<link, session>>,
         NEW d \in Conn, pc[d] \in {"online", "backOnline"},
         pc'[d] \in {"register", "backRegister"},
         who' = who, status' = [status EXCEPT ![who[d]] = TRUE],
         \A c \in Conn \ {d} : pc'[c] = pc[c]
  PROVE  InParts'
<1>1. who[d] \in User
  BY DEF EntryInv, HandlersOK, Inside
<1>2. \A u \in User : (status[u] => status'[u]) /\ status'[who[d]]
  BY <1>1 DEF Types
<1>3. UpIsOnline'
  <2> SUFFICES ASSUME NEW c \in Conn, Up(c)' PROVE status'[session'[c]]
    BY DEF UpIsOnline
  <2>1. Up(c) /\ session'[c] = session[c] /\ session[c] \in User
    BY DEF Up, Types
  <2> QED BY <1>2, <2>1 DEF InParts, UpIsOnline
<1>4. NextIsOnline'
  <2> SUFFICES ASSUME NEW c \in Conn \ {d}, pc'[c] \in {"register", "backRegister"}
               PROVE  status'[who'[c]]
    BY <1>1, <1>2 DEF NextIsOnline
  <2>1. who[c] \in User /\ status[who[c]]
    BY DEF EntryInv, HandlersOK, Inside, InParts, NextIsOnline
  <2> QED BY <1>2, <2>1
<1>5. \A c \in Conn : pc'[c] \in Entering \ {"login"} =>
           who'[c] = who[c] /\ (pc[c] \in Entering \ {"login"} \/ ~status[who[c]])
                            /\ (pc[c] \in Entering \ {"login"} \/ pc[c] = "login")
  BY DEF Entering
<1>6. \A c \in Conn : link'[c] = "up" => link[c] = "up" \/ session[c] = None
  OBVIOUS
<1> QED BY <1>3, <1>4, <1>5, <1>6, InFrame

\* ... A user is let in.
LEMMA InEntered ==
  ASSUME Types, EntryInv, InParts, NotRaced, ~raced, UNCHANGED <<link, status>>,
         NEW d \in Conn, pc[d] \in {"register", "backRegister"}, pc'[d] = "idle",
         session' = [session EXCEPT ![d] = who[d]],
         \A c \in Conn \ {d} : pc'[c] = pc[c] /\ who'[c] = who[c]
  PROVE  InParts'
<1>1. session'[d] = who[d] /\ status[who[d]] /\ \A c \in Conn \ {d} : session'[c] = session[c]
  BY DEF InParts, NextIsOnline, Types
<1>2. \A c \in Conn \ {d} : Up(c)' => Up(c) /\ session[c] # who[d]
  BY <1>1 DEF InParts, NoneEnters, Up, Entering
<1>3. \A c \in Conn \ {d} : pc[c] \in Entering => who[c] # who[d]
  BY DEF NotRaced, Entering
<1>4. UpIsOnline'
  BY <1>1, <1>2 DEF InParts, UpIsOnline
<1>5. UpAlone'
  BY <1>1, <1>2 DEF InParts, UpAlone
<1>6. NextIsOnline'
  <2> SUFFICES ASSUME NEW c \in Conn, pc'[c] \in {"register", "backRegister"}
               PROVE  status'[who'[c]]
    BY DEF NextIsOnline
  <2> QED BY DEF InParts, NextIsOnline
<1>7. NoneEnters'
  <2> SUFFICES ASSUME NEW c \in Conn, NEW e \in Conn, c # e, Up(c)',
                      pc'[e] \in Entering \ {"login"}
               PROVE  session'[c] # who'[e]
    BY DEF NoneEnters
  <2>1. e # d /\ pc[e] = pc'[e] /\ who'[e] = who[e]
    BY DEF Entering
  <2>2. CASE c = d
    BY <1>1, <1>3, <2>1, <2>2
  <2>3. CASE c # d
    <3>1. Up(c) /\ session'[c] = session[c]
      BY <1>1, <1>2, <2>3
    <3> QED BY <2>1, <3>1 DEF InParts, NoneEnters
  <2> QED BY <2>2, <2>3
<1> QED BY <1>4, <1>5, <1>6, <1>7 DEF InParts

\* Who is in stays online and alone, whatever a handler does, ...
LEMMA InHandler ==
  ASSUME Types, EntryInv, NotRaced, NotOverlaid, ~raced, ~overlaid, InParts,
         "sql" \notin faults', NEW d \in Conn, Handler(d)
  PROVE  InParts'
<1>a. /\ \A c \in Conn \ {d} : pc'[c] = pc[c] /\ who'[c] = who[c]
      /\ <<pc[d], pc'[d]>> \in Moves /\ who'[d] = IF pc'[d] = "idle" THEN None ELSE who[d]
  BY HandlerMoves
<1>b. \A c \in Conn : session[c] # None => cur[c] = session[c] /\ pc[c] \in Inside
  BY DEF EntryInv, SessionsOK
<1>c. pc \in [Conn -> Places] /\ link \in [Conn -> {"none", "up", "silent", "closing", "down"}]
  BY DEF Types, Places
<1>1. CASE SetOffline(d)
  <2>1. pc[d] = "offline" /\ link[d] = "closing" /\ UNCHANGED <<link, session>> /\ pc'[d] = "record"
    BY <1>1, <1>a DEF SetOffline, At, EntryInv, HandlersOK, Moves
  <2>2. \A c \in Conn : pc'[c] \in Entering => pc'[c] = pc[c] /\ who'[c] = who[c]
    BY <1>a, <2>1 DEF Entering
  <2>3. CASE cur[d] = None
    <3>1. status' = status
      BY <1>1, <2>3 DEF SetOffline
    <3> QED BY <2>1, <2>2, <3>1, InUnmoved
  <2>4. CASE cur[d] # None
    <3>1. status' = [status EXCEPT ![cur[d]] = FALSE]
      BY <1>1, <2>4, StatementWorks DEF SetOffline
    <3>2. \A c \in Conn : link[c] = "up" /\ session[c] # None => session[c] # cur[d]
      BY <1>b, <2>1, <2>4 DEF NotOverlaid
    <3>3. \A c \in Conn : pc[c] \in Entering => who[c] # cur[d]
      BY <2>1, <2>4 DEF NotOverlaid, Entering
    <3>4. \A c \in Conn : pc'[c] \in {"register", "backRegister"} => who[c] # cur[d]
      BY <2>2, <3>3 DEF Entering
    <3> QED BY <2>1, <2>2, <3>1, <3>2, <3>4, InLowered
  <2> QED BY <2>3, <2>4
<1>2. CASE Forget(d)
  <2>1. /\ pc[d] = "forget" /\ UNCHANGED <<link, session>> /\ pc'[d] = "idle"
        /\ status' = [status EXCEPT ![who[d]] = FALSE]
    BY <1>2, <1>a, StatementWorks DEF Forget, At, Moves
  <2>2. \A c \in Conn : pc'[c] \in Entering => c # d /\ pc'[c] = pc[c] /\ who'[c] = who[c]
    BY <1>a, <2>1 DEF Entering
  <2>3. \A c \in Conn : link[c] = "up" /\ session[c] # None => session[c] # who[d]
    <3> SUFFICES ASSUME NEW c \in Conn, link[c] = "up", session[c] # None
                 PROVE  session[c] # who[d]
      OBVIOUS
    <3>1. c # d
      BY <1>b, <2>1 DEF Inside
    <3> QED BY <2>1, <3>1 DEF InParts, NoneEnters, Up, Entering
  <2>4. \A c \in Conn : pc'[c] \in {"register", "backRegister"} => who[c] # who[d]
    BY <2>1, <2>2 DEF NotRaced, Entering
  <2> QED BY <2>1, <2>2, <2>3, <2>4, InLowered
<1>3. CASE SetOnline(d)
  <2>1. pc[d] = "online" /\ UNCHANGED <<link, session>>
    BY <1>3 DEF SetOnline, At
  <2>2. CASE pc'[d] = "idle"
    <3>1. status' = status
      BY <1>3, <2>2, <1>c DEF SetOnline, Goto, Places
    <3>2. \A c \in Conn : pc'[c] \in Entering \ {"login"} => pc'[c] = pc[c] /\ who'[c] = who[c]
      BY <1>a, <2>2 DEF Entering
    <3> QED BY <2>1, <3>1, <3>2, InUnmoved
  <2>3. CASE pc'[d] # "idle"
    <3>1. status' = [status EXCEPT ![who[d]] = TRUE] /\ pc'[d] = "register" /\ who' = who
      <4>1. SetStatus(who[d], TRUE) /\ pc'[d] = "register" /\ who' = who
        BY <1>3, <2>3, <1>c DEF SetOnline, Goto
      <4> QED BY <4>1, <1>c, StatementWorks
    <3> QED BY <1>a, <2>1, <3>1, InRaised
  <2> QED BY <2>2, <2>3
<1>4. CASE BackOnline(d)
  <2>1. /\ pc[d] = "backOnline" /\ UNCHANGED <<link, session>>
        /\ pc'[d] = "backRegister" /\ who' = who
        /\ status' = [status EXCEPT ![who[d]] = TRUE]
    BY <1>4, <1>c, StatementWorks DEF BackOnline, At, Goto
  <2> QED BY <1>a, <2>1, InRaised
<1>5. CASE RegisterConnection(d) \/ BackRegister(d)
  <2>1. /\ pc[d] \in {"register", "backRegister"} /\ UNCHANGED <<link, status>>
        /\ session' = [session EXCEPT ![d] = who[d]] /\ pc'[d] = "idle"
    BY <1>5, <1>c DEF RegisterConnection, BackRegister, Goto, At
  <2> QED BY <1>a, <2>1, InEntered
<1>6. CASE CheckLogin(d)
  <2>1. pc[d] = "login" /\ UNCHANGED <<status, session, link>> /\ pc'[d] \in {"online", "idle"}
    BY <1>6, <1>c DEF CheckLogin, At, Goto
  <2>2. pc'[d] = "online" => ~status[who[d]]
    BY <1>6, <1>c DEF CheckLogin, MayEnter, Goto
  <2>3. \A c \in Conn : pc'[c] \in Entering \ {"login"} =>
           /\ who'[c] = who[c]
           /\ pc[c] \in Entering \ {"login"} \/ (pc[c] = "login" /\ ~status[who[c]])
    <3> SUFFICES ASSUME NEW c \in Conn, pc'[c] \in Entering \ {"login"}
                 PROVE  /\ who'[c] = who[c]
                        /\ pc[c] \in Entering \ {"login"} \/ (pc[c] = "login" /\ ~status[who[c]])
      OBVIOUS
    <3>1. CASE c = d
      BY <1>a, <2>1, <2>2, <3>1 DEF Entering
    <3>2. CASE c # d
      <4>1. pc'[c] = pc[c] /\ who'[c] = who[c]
        BY <1>a, <3>2
      <4> QED BY <4>1
    <3> QED BY <3>1, <3>2
  <2>4. \A c \in Conn : pc'[c] \in {"register", "backRegister"} => pc'[c] = pc[c]
    BY <1>a, <2>1
  <2> QED BY <2>1, <2>3, <2>4, InSame
<1>7. CASE CheckExists(d) \/ InsertUser(d) \/ InsertInfo(d) \/ Commit(d) \/ ValidateToken(d)
           \/ RemoveFromDisconnectList(d) \/ UnregisterConnection(d) \/ RecordPlayerDisconnect(d)
  <2>1. /\ pc[d] \in {"exists", "insertUser", "insertInfo", "commit", "validate", "back", "idle",
                      "record"}
        /\ UNCHANGED <<status, session>>
        /\ \A c \in Conn : link'[c] = "up" => link[c] = "up"
    BY <1>7, <1>c DEF CheckExists, InsertUser, InsertInfo, Insert, Commit, ValidateToken,
       RemoveFromDisconnectList, UnregisterConnection, RecordPlayerDisconnect, At
  <2>2. pc'[d] \in Entering => pc[d] \in Entering \ {"login"} /\ who'[d] = who[d]
    BY <1>a, <2>1 DEF Moves, Entering
  <2>3. pc'[d] \notin {"register", "backRegister"}
    BY <1>a, <2>1 DEF Moves
  <2>4. \A c \in Conn : pc'[c] \in Entering \ {"login"} =>
           /\ who'[c] = who[c]
           /\ pc[c] \in Entering \ {"login"} \/ (pc[c] = "login" /\ ~status[who[c]])
    <3> SUFFICES ASSUME NEW c \in Conn, pc'[c] \in Entering \ {"login"}
                 PROVE  who'[c] = who[c] /\ pc[c] \in Entering \ {"login"}
      OBVIOUS
    <3>1. CASE c = d
      BY <2>2, <3>1
    <3>2. CASE c # d
      <4>1. pc'[c] = pc[c] /\ who'[c] = who[c]
        BY <1>a, <3>2
      <4> QED BY <4>1
    <3> QED BY <3>1, <3>2
  <2>5. \A c \in Conn : pc'[c] \in {"register", "backRegister"} => pc'[c] = pc[c]
    BY <1>a, <2>3
  <2> QED BY <2>1, <2>4, <2>5, InSame
<1> QED BY <1>1, <1>2, <1>3, <1>4, <1>5, <1>6, <1>7 DEF Handler

\* ... whatever a client does, ...
LEMMA InClient ==
  ASSUME Types, EntryInv, InParts, BackIsAlone, NotRaced', NotOverlaid', ~raced', ~overlaid',
         "sql" \notin faults', NEW d \in Conn, Heartbeat(d) \/ Client(d) \/ Expire(d)
  PROVE  InParts'
<1>c. pc \in [Conn -> Places] /\ link \in [Conn -> {"none", "up", "silent", "closing", "down"}]
  BY DEF Types, Places
<1>1. ASSUME UNCHANGED <<status, session, pc, who>>,
             \A c \in Conn : link'[c] = "up" => link[c] = "up" \/ session[c] = None
      PROVE  InParts'
  <2>1. \A c \in Conn : pc'[c] \in Entering \ {"login"} => pc'[c] = pc[c] /\ who'[c] = who[c]
    BY <1>1
  <2>2. UNCHANGED <<status, session>>
    BY <1>1
  <2> QED BY <1>1, <2>1, <2>2, InUnmoved
<1>2. CASE \/ Heartbeat(d) \/ Expire(d) \/ Close(d) \/ Vanish(d)
           \/ Join(d) \/ JoinRefused(d) \/ Leave(d)
  <2>1. UNCHANGED <<status, session, pc, who>>
    BY <1>2 DEF Heartbeat, Expire, Close, Vanish, Join, JoinRefused, Leave
  <2>2. \A c \in Conn : link'[c] = "up" => link[c] = "up"
    BY <1>c, <1>2 DEF Heartbeat, Expire, Close, Vanish, Join, JoinRefused, Leave
  <2> QED BY <1>1, <2>1, <2>2
<1>3. CASE Connect(d)
  <2>1. session[d] = None
    BY <1>3 DEF Connect, EntryInv, SessionsOK
  <2> QED BY <1>1, <1>3, <2>1 DEF Connect
<1>4. CASE GoodBye(d)
  <2>1. /\ UNCHANGED <<session, pc, who, cur>> /\ link' = [link EXCEPT ![d] = "closing"]
        /\ session[d] # None /\ link[d] = "up" /\ status' = [status EXCEPT ![session[d]] = FALSE]
    BY <1>4, StatementWorks DEF GoodBye
  <2>2. \A c \in Conn : link'[c] = "up" => c # d /\ link[c] = "up"
    BY <1>c, <2>1
  <2>3. \A c \in Conn : link'[c] = "up" /\ session[c] # None => session[c] # session[d]
    BY <2>1, <2>2 DEF InParts, UpAlone, Up
  <2>4. \A c \in Conn : pc'[c] \in Entering => pc'[c] = pc[c] /\ who'[c] = who[c]
    BY <2>1
  <2>5. \A c \in Conn : pc'[c] \in {"register", "backRegister"} => who[c] # session[d]
    <3> SUFFICES ASSUME NEW c \in Conn, pc[c] \in {"register", "backRegister"}
                 PROVE  who[c] # session[d]
      BY <2>1
    <3>1. c # d
      BY <2>1 DEF EntryInv, SessionsOK, Inside
    <3> QED BY <2>1, <3>1 DEF InParts, NoneEnters, Up, Entering
  <2> QED BY <2>1, <2>2, <2>3, <2>4, <2>5, InLowered
<1>5. ASSUME NEW u \in User, SignUp(d, u) \/ Login(d, u) PROVE InParts'
  <2>1. /\ UNCHANGED <<status, session, link>> /\ pc'[d] \in {"exists", "login"}
        /\ \A c \in Conn \ {d} : pc'[c] = pc[c] /\ who'[c] = who[c]
    BY <1>5, <1>c DEF SignUp, Login, Asks, Begin, Types
  <2>2. \A c \in Conn : pc'[c] \in Entering \ {"login"} => pc'[c] = pc[c] /\ who'[c] = who[c]
    BY <2>1 DEF Entering
  <2> QED BY <2>1, <2>2, InUnmoved
<1>6. ASSUME NEW u \in User, Reconnect(d, u) PROVE InParts'
  <2>1. /\ UNCHANGED <<status, session, link>> /\ pc'[d] = "validate" /\ who'[d] = u
        /\ \A c \in Conn \ {d} : pc'[c] = pc[c] /\ who'[c] = who[c]
        /\ \A c \in Conn : link[c] = "up" => session[c] # u
    BY <1>6, <1>c DEF Reconnect, Begin, Types
  <2>2. UpIsOnline' /\ UpAlone'
    BY <2>1 DEF InParts, UpIsOnline, UpAlone, Up
  <2>3. NextIsOnline'
    BY <2>1 DEF InParts, NextIsOnline
  <2>4. NoneEnters'
    <3> SUFFICES ASSUME NEW c \in Conn, NEW e \in Conn, c # e, Up(c)',
                        pc'[e] \in Entering \ {"login"}
                 PROVE  session'[c] # who'[e]
      BY DEF NoneEnters
    <3>1. Up(c) /\ session'[c] = session[c] /\ session[c] # u
      BY <2>1 DEF Up
    <3>2. CASE e = d
      BY <2>1, <3>1, <3>2
    <3>3. CASE e # d
      BY <2>1, <3>1, <3>3 DEF InParts, NoneEnters
    <3> QED BY <3>2, <3>3
  <2> QED BY <2>2, <2>3, <2>4 DEF InParts
<1> QED BY <1>2, <1>3, <1>4, <1>5, <1>6 DEF Client

\* ... or the checker, the game or a restart.
LEMMA InOthers ==
  ASSUME Types, EntryInv, PunctualOK, NotOverlaid, ~overlaid, "slow" \notin faults, InParts,
         "sql" \notin faults', Checker \/ StartGame \/ EndGame \/ Restart
  PROVE  InParts'
<1>1. CASE GetTimeoutConnections \/ (\E c \in Conn : HandleTimeoutConnection(c)) \/ MarkAway
           \/ GenerateReconnectToken \/ StartGame \/ EndGame
  <2>1. UNCHANGED <<status, session, pc, who, link>>
    BY <1>1 DEF GetTimeoutConnections, HandleTimeoutConnection, MarkAway, GenerateReconnectToken,
       StartGame, EndGame
  <2> QED BY <2>1, InUnmoved
<1>2. CASE MarkOffline
  <2> DEFINE d == checker.conn
  <2>1. /\ d \in Conn /\ conns[d].user # None
        /\ UNCHANGED <<session, pc, who, link>>
        /\ status' = [status EXCEPT ![conns[d].user] = FALSE]
    BY <1>2, StatementWorks DEF MarkOffline, EntryInv, CheckerOK
  <2>2. session[d] = conns[d].user /\ cur[d] = session[d] /\ Exists(d) /\ pc[d] = "idle"
    BY <2>1 DEF EntryInv, EntriesOK, SessionsOK
  <2>3. link[d] \in {"silent", "closing"}
    <3>1. link[d] # "up"
      BY <1>2, <2>1 DEF PunctualOK, MarkOffline
    <3> QED BY <2>2, <3>1 DEF Exists
  <2>4. \A c \in Conn : link[c] = "up" /\ session[c] # None => session[c] # conns[d].user
    BY <2>1, <2>2, <2>3 DEF NotOverlaid, EntryInv, SessionsOK
  <2>5. \A c \in Conn : pc[c] \in {"register", "backRegister"} => who[c] # conns[d].user
    BY <2>1, <2>2, <2>3 DEF NotOverlaid, Entering
  <2> HIDE DEF d
  <2> QED BY <2>1, <2>4, <2>5, InLowered
<1>3. CASE Restart
  <2>1. UNCHANGED <<status, session>> /\ \A c \in Conn : link'[c] # "up" /\ pc'[c] = "idle"
    BY <1>3 DEF Restart
  <2>2. \A c \in Conn : pc'[c] \notin Entering
    BY <2>1 DEF Entering
  <2> QED BY <2>1, <2>2, InUnmoved
<1> QED BY <1>1, <1>2, <1>3 DEF Checker

\* With care, who is in is online and alone, and so is who is about to be.
LEMMA InStep == Types /\ EntryInv /\ WatchInv /\ InIsOnline /\ [Next]_vars => InIsOnline'
<1> SUFFICES ASSUME Types, EntryInv, WatchInv, InIsOnline, [Next]_vars, Careful' PROVE InParts'
  BY DEF InIsOnline, InParts
<1>1. faults \subseteq faults'
  BY FaultsStay
<1>2. CASE UNCHANGED vars
  BY <1>2 DEF vars, core, InIsOnline, InParts, Careful, UpIsOnline, NextIsOnline, NoneEnters,
     UpAlone, Up
<1>3. CASE Next
  <2>1. ~raced /\ ~overlaid /\ NotRaced' /\ NotOverlaid'
    BY <1>3, WatchStep DEF Next, Careful
  <2>2. "sql" \notin faults' /\ "slow" \notin faults /\ ~raced' /\ ~overlaid'
    BY <1>1 DEF Careful
  <2>3. InParts
    BY <1>1, <2>1 DEF InIsOnline, InParts, Careful
  <2> QED BY <1>3, <2>1, <2>2, <2>3, InHandler, InClient, InOthers DEF Next, Act, WatchInv
<1> QED BY <1>2, <1>3

\* As long as no two handlers let in one user at once, none is let in beside an
\* old connection of his, no heartbeat is late and no statement fails, a user
\* is logged in once, on however many connections he tries.
THEOREM OneSessionOnly == Spec => []OneSession
<1>1. Init => InIsOnline
  BY DEF Init, InIsOnline, UpIsOnline, NextIsOnline, NoneEnters, UpAlone, Up, Entering
<1>2. InIsOnline => OneSession
  BY DEF InIsOnline, OneSession, Careful, UpAlone, Up
<1> QED BY <1>1, <1>2, InStep, WatchKept, EntriesInOrder, TypesKept, PTL DEF Spec

-----------------------------------------------------------------------------
\* The parts of WrittenThere.
Written == CallbackIsHis /\ NextCallbackIsHis

\* Whoever is in the room was there, and is written to as before.
LEMMA WrittenFrame ==
  ASSUME Written, UNCHANGED callback,
         \A c \in Conn : Up(c)' /\ conns'[c].inRoom =>
           Up(c) /\ conns[c].inRoom /\ session'[c] = session[c],
         \A c \in Conn : pc'[c] = "backRegister" => pc[c] = "backRegister" /\ who'[c] = who[c]
  PROVE  Written'
<1>1. CallbackIsHis'
  BY DEF Written, CallbackIsHis
<1>2. NextCallbackIsHis'
  BY DEF Written, NextCallbackIsHis
<1> QED BY <1>1, <1>2 DEF Written

\* A player is written to on connection d, or nowhere: he is on no other.
LEMMA WrittenAnew ==
  ASSUME Types, EntryInv, Written, NEW d \in Conn, NEW u \in User,
         callback' = [callback EXCEPT ![u] = d] \/ callback' = [callback EXCEPT ![u] = None],
         link' = link, session' = session,
         \A c \in Conn \ {d} : Up(c) => session[c] # u,
         \A c \in Conn \ {d} : pc[c] = "backRegister" => who[c] # u,
         \A c \in Conn \ {d} : conns'[c] = conns[c] /\ pc'[c] = pc[c] /\ who'[c] = who[c],
         Up(d) => session[d] = u, pc'[d] = "backRegister" => who'[d] = u
  PROVE  Written'
<1>1. PICK v \in {d, None} : \A w \in User : callback'[w] = IF w = u THEN v ELSE callback[w]
  BY DEF Types
<1>2. \A c \in Conn : Up(c)' <=> Up(c)
  BY DEF Up
<1>3. CallbackIsHis'
  <2> SUFFICES ASSUME NEW c \in Conn, Up(c)', conns'[c].inRoom
               PROVE  callback'[session'[c]] \in {c, None}
    BY DEF CallbackIsHis
  <2>1. CASE c = d
    BY <1>1, <1>2, <2>1
  <2>2. CASE c # d
    <3>1. Up(c) /\ session[c] # u /\ session[c] \in User /\ conns[c].inRoom
      BY <1>2, <2>2 DEF Types, Up
    <3> QED BY <1>1, <3>1 DEF Written, CallbackIsHis
  <2> QED BY <2>1, <2>2
<1>4. NextCallbackIsHis'
  <2> SUFFICES ASSUME NEW c \in Conn, pc'[c] = "backRegister"
               PROVE  callback'[who'[c]] \in {c, None}
    BY DEF NextCallbackIsHis
  <2>1. CASE c = d
    BY <1>1, <2>1
  <2>2. CASE c # d
    <3>1. pc[c] = "backRegister" /\ who'[c] = who[c] /\ who[c] # u
      BY <2>2
    <3>2. who[c] \in User /\ callback[who[c]] \in {c, None}
      BY <3>1 DEF EntryInv, HandlersOK, Inside, Written, NextCallbackIsHis
    <3> QED BY <1>1, <3>1, <3>2
  <2> QED BY <2>1, <2>2
<1> QED BY <1>3, <1>4 DEF Written

\* A player is written to where he is, whatever a handler does, ...
LEMMA WrittenHandler ==
  ASSUME Types, EntryInv, NotRaced, ~raced, InParts, Written, NEW d \in Conn, Handler(d)
  PROVE  Written'
<1>a. /\ \A c \in Conn \ {d} : pc'[c] = pc[c] /\ who'[c] = who[c]
      /\ <<pc[d], pc'[d]>> \in Moves /\ who'[d] = IF pc'[d] = "idle" THEN None ELSE who[d]
  BY HandlerMoves
<1>1. CASE BackOnline(d)
  <2>1. /\ pc[d] = "backOnline" /\ who[d] \in User /\ UNCHANGED <<link, session, conns>>
        /\ callback' = [callback EXCEPT ![who[d]] = d]
    BY <1>1 DEF BackOnline, At, EntryInv, HandlersOK, Inside
  <2>2. ~Up(d)
    BY <2>1 DEF EntryInv, SessionsOK, Inside, Up
  <2>3. \A c \in Conn \ {d} : Up(c) => session[c] # who[d]
    BY <2>1 DEF InParts, NoneEnters, Entering
  <2>4. \A c \in Conn \ {d} : pc[c] = "backRegister" => who[c] # who[d]
    BY <2>1 DEF NotRaced, Entering
  <2>5. pc'[d] = "backRegister" => who'[d] = who[d]
    BY <1>a
  <2>6. \A c \in Conn \ {d} : conns'[c] = conns[c] /\ pc'[c] = pc[c] /\ who'[c] = who[c]
    BY <1>a, <2>1
  <2> QED BY <2>1, <2>2, <2>3, <2>4, <2>5, <2>6, WrittenAnew
<1>2. CASE BackRegister(d)
  <2>1. /\ pc[d] = "backRegister" /\ UNCHANGED <<link, callback>>
        /\ session' = [session EXCEPT ![d] = who[d]] /\ pc'[d] = "idle"
        /\ \A c \in Conn \ {d} : conns'[c] = conns[c]
    BY <1>2, <1>a DEF BackRegister, At, Moves, Types
  <2>2. session'[d] = who[d] /\ \A c \in Conn \ {d} : session'[c] = session[c]
    BY <2>1 DEF Types
  <2>3. CallbackIsHis'
    <3> SUFFICES ASSUME NEW c \in Conn, Up(c)', conns'[c].inRoom
                 PROVE  callback'[session'[c]] \in {c, None}
      BY DEF CallbackIsHis
    <3>1. CASE c = d
      BY <2>1, <2>2, <3>1 DEF Written, NextCallbackIsHis
    <3>2. CASE c # d
      BY <2>1, <2>2, <3>2 DEF Written, CallbackIsHis, Up
    <3> QED BY <3>1, <3>2
  <2>4. NextCallbackIsHis'
    <3> SUFFICES ASSUME NEW c \in Conn, pc'[c] = "backRegister"
                 PROVE  callback'[who'[c]] \in {c, None}
      BY DEF NextCallbackIsHis
    <3>1. pc[c] = "backRegister" /\ who'[c] = who[c]
      BY <1>a, <2>1
    <3> QED BY <2>1, <3>1 DEF Written, NextCallbackIsHis
  <2> QED BY <2>3, <2>4 DEF Written
<1>3. CASE RegisterConnection(d)
  <2>1. /\ UNCHANGED <<link, callback>> /\ ~conns'[d].inRoom /\ pc'[d] = "idle"
        /\ \A c \in Conn \ {d} : conns'[c] = conns[c] /\ session'[c] = session[c]
    BY <1>3, <1>a DEF RegisterConnection, At, Moves, Types, Entry
  <2>2. \A c \in Conn : pc'[c] = "backRegister" => pc[c] = "backRegister" /\ who'[c] = who[c]
    BY <1>a, <2>1
  <2>3. \A c \in Conn : Up(c)' /\ conns'[c].inRoom =>
           Up(c) /\ conns[c].inRoom /\ session'[c] = session[c]
    BY <2>1 DEF Up
  <2> QED BY <2>1, <2>2, <2>3, WrittenFrame
<1>4. CASE UnregisterConnection(d)
  <2>1. /\ UNCHANGED <<link, session, callback>> /\ ~conns'[d].inRoom /\ pc[d] = "idle"
        /\ \A c \in Conn \ {d} : conns'[c] = conns[c]
    BY <1>4 DEF UnregisterConnection, At, Types, Unknown
  <2>2. \A c \in Conn : pc'[c] = "backRegister" => pc[c] = "backRegister" /\ who'[c] = who[c]
    BY <1>a, <2>1 DEF Moves
  <2>3. \A c \in Conn : Up(c)' /\ conns'[c].inRoom =>
           Up(c) /\ conns[c].inRoom /\ session'[c] = session[c]
    BY <2>1 DEF Up
  <2> QED BY <2>1, <2>2, <2>3, WrittenFrame
<1>5. CASE \/ CheckExists(d) \/ InsertUser(d) \/ InsertInfo(d) \/ Commit(d) \/ CheckLogin(d)
           \/ SetOnline(d) \/ ValidateToken(d) \/ Forget(d) \/ RemoveFromDisconnectList(d)
           \/ SetOffline(d) \/ RecordPlayerDisconnect(d)
  <2>b. pc[d] # "backOnline"
    BY <1>5 DEF CheckExists, InsertUser, InsertInfo, Commit, CheckLogin, SetOnline,
       ValidateToken, Forget, RemoveFromDisconnectList, SetOffline, RecordPlayerDisconnect, At
  <2>1. UNCHANGED <<conns, session, callback>> /\ pc[d] # "backOnline"
        /\ (link' = link \/ link' = [link EXCEPT ![d] = "down"])
    BY <1>5, <2>b DEF CheckExists, InsertUser, InsertInfo, Insert, Commit, CheckLogin,
       SetOnline, ValidateToken, Forget, RemoveFromDisconnectList, SetOffline,
       RecordPlayerDisconnect
  <2>2. \A c \in Conn : Up(c)' => Up(c)
    BY <2>1 DEF Up, Types
  <2>3. pc'[d] # "backRegister"
    BY <1>a, <2>1 DEF Moves
  <2>4. \A c \in Conn : pc'[c] = "backRegister" => pc[c] = "backRegister" /\ who'[c] = who[c]
    BY <1>a, <2>3
  <2> QED BY <2>1, <2>2, <2>4, WrittenFrame
<1> QED BY <1>1, <1>2, <1>3, <1>4, <1>5 DEF Handler

\* ... a client, ...
LEMMA WrittenClient ==
  ASSUME Types, EntryInv, InParts, Written, NEW d \in Conn,
         Heartbeat(d) \/ Client(d) \/ Expire(d)
  PROVE  Written'
<1>1. CASE Join(d) \/ Leave(d)
  <2>1. /\ pc[d] = "idle" /\ Up(d) /\ UNCHANGED <<link, session, pc, who>>
        /\ session[d] \in User /\ \A c \in Conn \ {d} : conns'[c] = conns[c]
    BY <1>1 DEF Join, Leave, At, Types, Up
  <2>2. \/ callback' = [callback EXCEPT ![session[d]] = d]
        \/ callback' = [callback EXCEPT ![session[d]] = None]
    BY <1>1 DEF Join, Leave
  <2>3. \A c \in Conn \ {d} : Up(c) => session[c] # session[d]
    BY <2>1 DEF InParts, UpAlone
  <2>4. \A c \in Conn \ {d} : pc[c] = "backRegister" => who[c] # session[d]
    BY <2>1 DEF InParts, NoneEnters, Entering
  <2>5. \A c \in Conn \ {d} : conns'[c] = conns[c] /\ pc'[c] = pc[c] /\ who'[c] = who[c]
    BY <2>1
  <2> QED BY <2>1, <2>2, <2>3, <2>4, <2>5, WrittenAnew
<1>2. CASE Heartbeat(d) \/ Expire(d)
  <2>1. PICK b \in BOOLEAN : conns' = [conns EXCEPT ![d].fresh = b]
    BY <1>2 DEF Heartbeat, Expire
  <2>2. \A c \in Conn : conns'[c].inRoom = conns[c].inRoom
    BY <2>1, FreshSet
  <2>3. UNCHANGED <<callback, link, session, pc, who>>
    BY <1>2 DEF Heartbeat, Expire
  <2> QED BY <2>2, <2>3, WrittenFrame DEF Up
<1>3. CASE Client(d) /\ ~(Join(d) \/ Leave(d))
  <2>1. UNCHANGED <<callback, session, conns>>
    BY <1>3 DEF Client, Connect, Close, Vanish, JoinRefused, GoodBye, SignUp, Login,
       Reconnect, Asks, Begin
  <2>2. \A c \in Conn : link'[c] = "up" => link[c] = "up" \/ link[c] = "none"
    BY <1>3 DEF Types, Client, Connect, Close, Vanish, JoinRefused, GoodBye, SignUp, Login,
       Reconnect, Asks, Begin
  <2>3. \A c \in Conn : Up(c)' => Up(c)
    BY <2>1, <2>2 DEF Up, EntryInv, SessionsOK
  <2>4. \A c \in Conn : pc'[c] = "backRegister" => pc[c] = "backRegister" /\ who'[c] = who[c]
    <3>1. CASE UNCHANGED <<pc, who>>
      BY <3>1
    <3>2. ASSUME NEW u \in User, NEW first \in {"exists", "login", "validate"}, Begin(d, u, first)
          PROVE  \A c \in Conn :
                   pc'[c] = "backRegister" => pc[c] = "backRegister" /\ who'[c] = who[c]
      BY <3>2 DEF Begin, Types
    <3> QED BY <1>3, <3>1, <3>2 DEF Client, Connect, Close, Vanish, JoinRefused, GoodBye, SignUp,
               Login, Reconnect, Asks
  <2> QED BY <2>1, <2>3, <2>4, WrittenFrame
<1> QED BY <1>1, <1>2, <1>3

\* ... or the checker, the game or a restart.
LEMMA WrittenOthers ==
  ASSUME Types, Written, Checker \/ StartGame \/ EndGame \/ Restart
  PROVE  Written'
<1>1. CASE Restart
  <2>1. \A c \in Conn : ~conns'[c].inRoom /\ pc'[c] = "idle"
    BY <1>1 DEF Restart, Unknown
  <2> QED BY <2>1 DEF Written, CallbackIsHis, NextCallbackIsHis
<1>2. CASE Checker \/ StartGame \/ EndGame
  <2>1. UNCHANGED <<callback, session, link, pc, who>>
    BY <1>2 DEF Checker, GetTimeoutConnections, HandleTimeoutConnection, MarkOffline,
       MarkAway, GenerateReconnectToken, StartGame, EndGame
  <2>2. conns' = conns \/ \E c \in Conn : conns' = [conns EXCEPT ![c].active = FALSE]
    BY <1>2 DEF Checker, GetTimeoutConnections, HandleTimeoutConnection, MarkOffline,
       MarkAway, GenerateReconnectToken, StartGame, EndGame
  <2>3. \A c \in Conn : conns'[c].inRoom = conns[c].inRoom
    BY <2>2, ActiveCleared
  <2> QED BY <2>1, <2>3, WrittenFrame DEF Up
<1> QED BY <1>1, <1>2

\* With care, a player is written to where he is.
LEMMA WrittenStep ==
  Types /\ EntryInv /\ WatchInv /\ InIsOnline /\ WrittenThere /\ [Next]_vars => WrittenThere'
<1> SUFFICES ASSUME Types, EntryInv, WatchInv, InIsOnline, WrittenThere, [Next]_vars, Careful'
             PROVE  Written'
  BY DEF WrittenThere, Written
<1>1. faults \subseteq faults'
  BY FaultsStay
<1>2. CASE UNCHANGED vars
  BY <1>2 DEF vars, core, WrittenThere, Written, Careful, CallbackIsHis, NextCallbackIsHis, Up
<1>3. CASE Next
  <2>1. ~raced /\ ~overlaid
    BY <1>3, WatchStep DEF Next, Careful
  <2>2. InParts /\ Written
    BY <1>1, <2>1 DEF InIsOnline, InParts, WrittenThere, Written, Careful
  <2> QED BY <1>3, <2>1, <2>2, WrittenHandler, WrittenClient, WrittenOthers DEF Next, Act, WatchInv
<1> QED BY <1>2, <1>3

\* As long as nobody is let in twice at once or beside an old connection of
\* his, no heartbeat is late and no statement fails, the others in the room
\* write to the connection on which a player is there, however many he has had.
THEOREM WrittenWhereTheyAre == Spec => []WrittenToWhereHeIs
<1>1. Init => InIsOnline /\ WrittenThere
  BY DEF Init, InIsOnline, UpIsOnline, NextIsOnline, NoneEnters, UpAlone, Up, Entering,
     WrittenThere, CallbackIsHis, NextCallbackIsHis
<1>2. Types /\ EntryInv /\ WrittenThere => WrittenToWhereHeIs
  <2> SUFFICES ASSUME Types, EntryInv, CallbackIsHis, NEW c \in Conn, link[c] = "up", Player(c)
               PROVE  callback[cur[c]] = c
    BY DEF WrittenThere, WrittenToWhereHeIs, Careful
  <2>1. conns[c].user # None /\ callback[cur[c]] # None
    BY DEF EntryInv, EntriesOK, Player, Seated
  <2>2. session[c] # None /\ cur[c] = session[c]
    BY <2>1 DEF EntryInv, EntriesOK, SessionsOK
  <2> QED BY <2>1, <2>2 DEF CallbackIsHis, Up, Player
<1> QED BY <1>1, <1>2, InStep, WrittenStep, WatchKept, EntriesInOrder, TypesKept, PTL DEF Spec

-----------------------------------------------------------------------------
\* The parts of BackIsNotAway.
Present == PlayerIsHere /\ NextIsHere

\* Nobody is marked absent but users who are not there and not coming.
LEMMA PresentFrame ==
  ASSUME Types, EntryInv, Present,
         \A u \in User : away'[u] => \/ away[u]
           \/ \A c \in Conn : /\ link'[c] = "up" /\ session'[c] # None => session'[c] # u
                              /\ pc'[c] \in {"backOnline", "backRegister"} => who'[c] # u,
         \A c \in Conn : Up(c)' /\ Player(c)' /\ playing' =>
           Up(c) /\ Player(c) /\ playing /\ session'[c] = session[c],
         \A c \in Conn : pc'[c] \in {"backOnline", "backRegister"} =>
           pc[c] \in {"backOnline", "backRegister"} /\ who'[c] = who[c]
  PROVE  Present'
<1>1. PlayerIsHere'
  <2> SUFFICES ASSUME NEW c \in Conn, Up(c)', Player(c)', playing' PROVE ~away'[session'[c]]
    BY DEF PlayerIsHere
  <2>1. Up(c) /\ ~away[session[c]] /\ session'[c] = session[c]
    BY DEF Present, PlayerIsHere
  <2>2. session[c] \in User
    BY <2>1 DEF Up, Types
  <2> QED BY <2>1, <2>2 DEF Up
<1>2. NextIsHere'
  <2> SUFFICES ASSUME NEW c \in Conn, pc'[c] \in {"backOnline", "backRegister"}
               PROVE  ~away'[who'[c]]
    BY DEF NextIsHere
  <2>1. pc[c] \in {"backOnline", "backRegister"} /\ who'[c] = who[c] /\ ~away[who[c]]
    BY DEF Present, NextIsHere
  <2>2. who[c] \in User
    BY <2>1 DEF EntryInv, HandlersOK, Inside
  <2> QED BY <2>1, <2>2
<1> QED BY <1>1, <1>2 DEF Present

\* ... nobody at all.
LEMMA PresentSame ==
  ASSUME Types, EntryInv, Present, away' = away,
         \A c \in Conn : Up(c)' /\ Player(c)' /\ playing' =>
           Up(c) /\ Player(c) /\ playing /\ session'[c] = session[c],
         \A c \in Conn : pc'[c] \in {"backOnline", "backRegister"} =>
           pc[c] \in {"backOnline", "backRegister"} /\ who'[c] = who[c]
  PROVE  Present'
<1>1. \A u \in User : away'[u] => \/ away[u]
        \/ \A c \in Conn : /\ link'[c] = "up" /\ session'[c] # None => session'[c] # u
                           /\ pc'[c] \in {"backOnline", "backRegister"} => who'[c] # u
  OBVIOUS
<1> QED BY <1>1, PresentFrame

\* A player who is there is not taken for absent, whatever a handler does, ...
LEMMA PresentHandler ==
  ASSUME Types, EntryInv, NotRaced, NotOverlaid, BackIsAlone, ~raced, ~overlaid, Present,
         NEW d \in Conn, Handler(d)
  PROVE  Present'
<1>a. /\ \A c \in Conn \ {d} : pc'[c] = pc[c] /\ who'[c] = who[c]
      /\ <<pc[d], pc'[d]>> \in Moves /\ who'[d] = IF pc'[d] = "idle" THEN None ELSE who[d]
  BY HandlerMoves
<1>b. ASSUME pc'[d] \notin {"backOnline", "backRegister"}
      PROVE  \A c \in Conn : pc'[c] \in {"backOnline", "backRegister"} =>
               pc[c] \in {"backOnline", "backRegister"} /\ who'[c] = who[c]
  BY <1>a, <1>b
<1>1. CASE BackOnline(d)
  <2>1. /\ pc[d] = "backOnline" /\ who[d] \in User
        /\ UNCHANGED <<link, session, conns, cur, away, playing>>
        /\ callback' = [callback EXCEPT ![who[d]] = d]
    BY <1>1 DEF BackOnline, At, EntryInv, HandlersOK, Inside
  <2>2. \A c \in Conn : Up(c) => cur[c] = session[c] /\ session[c] # who[d] /\ c # d
    <3> SUFFICES ASSUME NEW c \in Conn, Up(c)
                 PROVE  cur[c] = session[c] /\ session[c] # who[d] /\ c # d
      OBVIOUS
    <3>1. cur[c] = session[c] /\ c # d
      BY <2>1 DEF EntryInv, SessionsOK, Up, Inside
    <3> QED BY <2>1, <3>1 DEF BackIsAlone, Returning
  <2>3. \A c \in Conn : Up(c)' => Up(c)
    BY <2>1 DEF Up
  <2>4. \A c \in Conn : Up(c)' /\ Player(c)' /\ playing' =>
           Up(c) /\ Player(c) /\ playing /\ session'[c] = session[c]
    <3> SUFFICES ASSUME NEW c \in Conn, Up(c)', Player(c)', playing'
                 PROVE  Up(c) /\ Player(c) /\ playing /\ session'[c] = session[c]
      OBVIOUS
    <3>1. Up(c) /\ cur[c] # who[d] /\ cur[c] \in User
      BY <2>2, <2>3 DEF Up, Types
    <3>2. callback'[cur[c]] = callback[cur[c]]
      BY <2>1, <3>1 DEF Types
    <3> QED BY <2>1, <3>1, <3>2 DEF Player, Seated
  <2>5. \A c \in Conn : pc'[c] \in {"backOnline", "backRegister"} =>
           pc[c] \in {"backOnline", "backRegister"} /\ who'[c] = who[c]
    BY <1>a, <2>1
  <2> QED BY <2>1, <2>4, <2>5, PresentSame
<1>2. CASE RegisterConnection(d) \/ BackRegister(d)
  <2>1. /\ UNCHANGED <<link, callback, away, playing>> /\ pc'[d] = "idle"
        /\ pc[d] \in {"register", "backRegister"} /\ session'[d] = who[d]
        /\ \A c \in Conn \ {d} : /\ conns'[c] = conns[c] /\ session'[c] = session[c]
                                /\ cur'[c] = cur[c]
        /\ pc[d] = "register" => ~conns'[d].inRoom
    <3>1. pc'[d] = "idle" /\ pc[d] \in {"register", "backRegister"}
      BY <1>2, <1>a DEF RegisterConnection, BackRegister, At, Moves
    <3>2. /\ UNCHANGED <<link, callback, away, playing>> /\ session'[d] = who[d]
          /\ \A c \in Conn \ {d} : /\ conns'[c] = conns[c] /\ session'[c] = session[c]
                                  /\ cur'[c] = cur[c]
      BY <1>2 DEF RegisterConnection, BackRegister, Types
    <3>3. pc[d] = "register" => ~conns'[d].inRoom
      BY <1>2 DEF RegisterConnection, BackRegister, At, Types, Entry
    <3> QED BY <3>1, <3>2, <3>3
  <2>2. PlayerIsHere'
    <3> SUFFICES ASSUME NEW c \in Conn, Up(c)', Player(c)', playing' PROVE ~away'[session'[c]]
      BY DEF PlayerIsHere
    <3>1. CASE c = d
      <4>1. pc[d] = "backRegister"
        BY <2>1, <3>1 DEF Player
      <4> QED BY <2>1, <3>1, <4>1 DEF Present, NextIsHere
    <3>2. CASE c # d
      BY <2>1, <3>2 DEF Present, PlayerIsHere, Up, Player, Seated
    <3> QED BY <3>1, <3>2
  <2>3. NextIsHere'
    <3> SUFFICES ASSUME NEW c \in Conn, pc'[c] \in {"backOnline", "backRegister"}
                 PROVE  ~away'[who'[c]]
      BY DEF NextIsHere
    <3> QED BY <1>b, <2>1 DEF Present, NextIsHere
  <2> QED BY <2>2, <2>3 DEF Present
<1>3. CASE UnregisterConnection(d)
  <2>1. /\ UNCHANGED <<link, session, callback, cur, away, playing>> /\ ~conns'[d].inRoom
        /\ \A c \in Conn \ {d} : conns'[c] = conns[c]
    BY <1>3 DEF UnregisterConnection, Types, Unknown
  <2>2. pc[d] = "idle" /\ pc'[d] = "offline"
    BY <1>3, <1>a DEF UnregisterConnection, At, Moves
  <2>3. \A c \in Conn : Up(c)' /\ Player(c)' /\ playing' =>
           Up(c) /\ Player(c) /\ playing /\ session'[c] = session[c]
    BY <2>1 DEF Up, Player, Seated
  <2> QED BY <1>b, <2>1, <2>2, <2>3, PresentSame
<1>4. CASE RecordPlayerDisconnect(d)
  <2>1. /\ UNCHANGED <<session, callback, cur, conns, playing>>
        /\ link[d] = "closing" /\ link' = [link EXCEPT ![d] = "down"]
        /\ away' = away \/ away' = [away EXCEPT ![cur[d]] = TRUE]
    BY <1>4 DEF RecordPlayerDisconnect, At, EntryInv, HandlersOK
  <2>2. pc[d] = "record" /\ pc'[d] = "idle"
    BY <1>4, <1>a DEF RecordPlayerDisconnect, At, Moves
  <2>3. \A c \in Conn : link'[c] = "up" => link[c] = "up" /\ c # d
    BY <2>1 DEF Types
  <2>4. \A c \in Conn : Up(c)' /\ Player(c)' /\ playing' =>
           Up(c) /\ Player(c) /\ playing /\ session'[c] = session[c]
    BY <2>1, <2>3 DEF Up, Player, Seated
  <2>5. \A u \in User : away'[u] => \/ away[u]
           \/ \A c \in Conn : /\ link'[c] = "up" /\ session'[c] # None => session'[c] # u
                              /\ pc'[c] \in {"backOnline", "backRegister"} => who'[c] # u
    <3> SUFFICES ASSUME NEW u \in User, away'[u], ~away[u], NEW c \in Conn
                 PROVE  /\ link'[c] = "up" /\ session'[c] # None => session'[c] # u
                        /\ pc'[c] \in {"backOnline", "backRegister"} => who'[c] # u
      OBVIOUS
    <3>1. u = cur[d] /\ u # None
      BY <2>1, ConstantsAssumption DEF Types
    <3>2. ASSUME link'[c] = "up", session'[c] # None PROVE session'[c] # u
      <4>1. link[c] = "up" /\ c # d /\ cur[c] = session[c] /\ session'[c] = session[c]
        BY <2>1, <2>3, <3>2 DEF EntryInv, SessionsOK
      <4> QED BY <2>1, <3>1, <4>1 DEF NotOverlaid
    <3>3. ASSUME pc'[c] \in {"backOnline", "backRegister"} PROVE who'[c] # u
      <4>1. c # d /\ pc[c] \in Entering /\ who'[c] = who[c]
        BY <1>a, <2>2, <3>3 DEF Entering
      <4> QED BY <2>1, <3>1, <4>1 DEF NotOverlaid
    <3> QED BY <3>2, <3>3
  <2>6. \A c \in Conn : pc'[c] \in {"backOnline", "backRegister"} =>
           pc[c] \in {"backOnline", "backRegister"} /\ who'[c] = who[c]
    BY <1>b, <2>2
  <2> QED BY <2>4, <2>5, <2>6, PresentFrame
<1>5. CASE RemoveFromDisconnectList(d)
  <2>1. /\ UNCHANGED <<session, callback, cur, conns, playing, link>> /\ pc[d] = "back"
        /\ away' = [away EXCEPT ![who[d]] = FALSE] /\ who[d] \in User
    BY <1>5 DEF RemoveFromDisconnectList, At, EntryInv, HandlersOK, Inside
  <2>2. \A u \in User : (away'[u] => away[u]) /\ ~away'[who[d]]
    BY <2>1 DEF Types
  <2>3. PlayerIsHere'
    <3> SUFFICES ASSUME NEW c \in Conn, Up(c)', Player(c)', playing' PROVE ~away'[session'[c]]
      BY DEF PlayerIsHere
    <3>1. ~away[session[c]] /\ session'[c] = session[c] /\ session[c] \in User
      BY <2>1 DEF Present, PlayerIsHere, Up, Player, Seated, Types
    <3> QED BY <2>2, <3>1
  <2>4. NextIsHere'
    <3> SUFFICES ASSUME NEW c \in Conn, pc'[c] \in {"backOnline", "backRegister"}
                 PROVE  ~away'[who'[c]]
      BY DEF NextIsHere
    <3>1. CASE c = d
      <4>1. who'[c] = who[d]
        BY <1>a, <3>1
      <4> QED BY <2>1, <2>2, <4>1
    <3>2. CASE c # d
      <4>1. pc[c] \in {"backOnline", "backRegister"} /\ who'[c] = who[c]
        BY <1>a, <3>2
      <4>2. who[c] \in User /\ ~away[who[c]]
        BY <4>1 DEF EntryInv, HandlersOK, Inside, Present, NextIsHere
      <4> QED BY <2>2, <4>1, <4>2
    <3> QED BY <3>1, <3>2
  <2> QED BY <2>3, <2>4 DEF Present
<1>6. CASE \/ CheckExists(d) \/ InsertUser(d) \/ InsertInfo(d) \/ Commit(d) \/ CheckLogin(d)
           \/ SetOnline(d) \/ ValidateToken(d) \/ Forget(d) \/ SetOffline(d)
  <2>1. UNCHANGED <<session, callback, cur, conns, playing, link, away>>
    BY <1>6 DEF CheckExists, InsertUser, InsertInfo, Insert, Commit, CheckLogin,
       SetOnline, ValidateToken, Forget, SetOffline
  <2>2. pc[d] \notin {"back", "backOnline"}
    BY <1>6 DEF CheckExists, InsertUser, InsertInfo, Commit, CheckLogin, SetOnline,
       ValidateToken, Forget, SetOffline, At
  <2>3. pc'[d] \notin {"backOnline", "backRegister"}
    BY <1>a, <2>2 DEF Moves
  <2>4. \A c \in Conn : Up(c)' /\ Player(c)' /\ playing' =>
           Up(c) /\ Player(c) /\ playing /\ session'[c] = session[c]
    BY <2>1 DEF Up, Player, Seated
  <2> QED BY <1>b, <2>1, <2>3, <2>4, PresentSame
<1> QED BY <1>1, <1>2, <1>3, <1>4, <1>5, <1>6 DEF Handler

\* ... a client, ...
LEMMA PresentClient ==
  ASSUME Types, EntryInv, Present, NEW d \in Conn, Heartbeat(d) \/ Client(d) \/ Expire(d)
  PROVE  Present'
<1>1. away' = away /\ playing' = playing
  BY DEF Heartbeat, Expire, Client, Connect, Close, Vanish, Join, Leave, JoinRefused, GoodBye,
     SignUp, Login, Reconnect, Asks, Begin
<1>2. \A c \in Conn : pc'[c] \in {"backOnline", "backRegister"} =>
        pc[c] \in {"backOnline", "backRegister"} /\ who'[c] = who[c]
  <2>1. CASE UNCHANGED <<pc, who>>
    BY <2>1
  <2>2. ASSUME NEW u \in User, NEW first \in {"exists", "login", "validate"}, Begin(d, u, first)
        PROVE  \A c \in Conn : pc'[c] \in {"backOnline", "backRegister"} =>
                 pc[c] \in {"backOnline", "backRegister"} /\ who'[c] = who[c]
    BY <2>2 DEF Begin, Types
  <2> QED BY <2>1, <2>2 DEF Heartbeat, Expire, Client, Connect, Close, Vanish, Join, Leave,
             JoinRefused, GoodBye, SignUp, Login, Reconnect, Asks
<1>3. session' = session /\ \A c \in Conn : link'[c] = "up" => link[c] \in {"up", "none"}
  BY DEF Types, Heartbeat, Expire, Client, Connect, Close, Vanish, Join, Leave, JoinRefused,
     GoodBye, SignUp, Login, Reconnect, Asks, Begin
<1>4. \A c \in Conn : Up(c)' => Up(c)
  BY <1>3 DEF Up, EntryInv, SessionsOK
<1>5. \A c \in Conn : Up(c)' => cur'[c] = cur[c]
  <2>1. cur' = cur \/ (session[d] = None /\ \E u \in User : cur' = [cur EXCEPT ![d] = u])
    BY DEF Heartbeat, Expire, Client, Connect, Close, Vanish, Join, Leave, JoinRefused,
       GoodBye, SignUp, Login, Reconnect, Asks, Begin
  <2> QED BY <1>4, <2>1 DEF Up, Types
<1>6. ~playing \/ \A c \in Conn : conns'[c].inRoom = conns[c].inRoom
  <2>1. CASE Heartbeat(d) \/ Expire(d)
    <3>1. PICK b \in BOOLEAN : conns' = [conns EXCEPT ![d].fresh = b]
      BY <2>1 DEF Heartbeat, Expire
    <3> QED BY <3>1, FreshSet
  <2>2. CASE Client(d)
    BY <2>2 DEF Client, Connect, Close, Vanish, Join, Leave, JoinRefused, GoodBye, SignUp, Login,
       Reconnect, Asks, Begin
  <2> QED BY <2>1, <2>2
<1>7. ~playing \/ \A u \in User : callback'[u] # None => callback[u] # None
  BY DEF Types, Heartbeat, Expire, Client, Connect, Close, Vanish, Join, Leave, JoinRefused,
     GoodBye, SignUp, Login, Reconnect, Asks, Begin
<1>8. \A c \in Conn : Up(c)' /\ Player(c)' /\ playing' =>
        Up(c) /\ Player(c) /\ playing /\ session'[c] = session[c]
  <2> SUFFICES ASSUME NEW c \in Conn, Up(c)', Player(c)', playing'
               PROVE  Up(c) /\ Player(c) /\ playing /\ session'[c] = session[c]
    OBVIOUS
  <2>1. Up(c) /\ cur'[c] = cur[c] /\ playing /\ session'[c] = session[c]
    BY <1>1, <1>3, <1>4, <1>5
  <2>2. cur[c] \in User
    BY <2>1 DEF Types, EntryInv, SessionsOK, Up
  <2> QED BY <1>6, <1>7, <2>1, <2>2 DEF Player, Seated
<1> QED BY <1>1, <1>2, <1>8, PresentSame

\* ... or the checker, the game or a restart.
LEMMA PresentOthers ==
  ASSUME Types, EntryInv, PunctualOK, NotOverlaid, ~overlaid, "slow" \notin faults, Present,
         Checker \/ StartGame \/ EndGame \/ Restart
  PROVE  Present'
<1>1. CASE Restart
  <2>1. ~playing' /\ \A c \in Conn : pc'[c] = "idle"
    BY <1>1 DEF Restart
  <2> QED BY <2>1 DEF Present, PlayerIsHere, NextIsHere
<1>2. CASE StartGame \/ EndGame
  <2>1. \A u \in User : ~away'[u]
    BY <1>2 DEF StartGame, EndGame
  <2>2. UNCHANGED <<pc, who, session>>
    BY <1>2 DEF StartGame, EndGame
  <2>3. \A c \in Conn : Up(c)' => session'[c] \in User
    BY <2>2 DEF Up, Types
  <2>4. \A c \in Conn : pc'[c] \in {"backOnline", "backRegister"} => who'[c] \in User
    BY <2>2 DEF EntryInv, HandlersOK, Inside
  <2> QED BY <2>1, <2>3, <2>4 DEF Present, PlayerIsHere, NextIsHere
<1>3. ASSUME UNCHANGED <<callback, cur, session, link, pc, who, playing>>,
             \A c \in Conn : conns'[c].inRoom = conns[c].inRoom
      PROVE  /\ \A c \in Conn : Up(c)' /\ Player(c)' /\ playing' =>
                  Up(c) /\ Player(c) /\ playing /\ session'[c] = session[c]
             /\ \A c \in Conn : pc'[c] \in {"backOnline", "backRegister"} =>
                  pc[c] \in {"backOnline", "backRegister"} /\ who'[c] = who[c]
  BY <1>3 DEF Up, Player, Seated
<1>4. CASE GetTimeoutConnections \/ MarkOffline \/ GenerateReconnectToken
           \/ \E c \in Conn : HandleTimeoutConnection(c)
  <2>1. UNCHANGED <<callback, cur, session, link, pc, who, playing, away>>
    BY <1>4 DEF GetTimeoutConnections, HandleTimeoutConnection, MarkOffline,
       GenerateReconnectToken
  <2>2. conns' = conns \/ \E c \in Conn : conns' = [conns EXCEPT ![c].active = FALSE]
    BY <1>4 DEF GetTimeoutConnections, HandleTimeoutConnection, MarkOffline,
       GenerateReconnectToken
  <2>3. \A c \in Conn : conns'[c].inRoom = conns[c].inRoom
    BY <2>2, ActiveCleared
  <2>4. UNCHANGED <<callback, cur, session, link, pc, who, playing>> /\ away' = away
    BY <2>1
  <2> QED BY <1>3, <2>3, <2>4, PresentSame
<1>5. CASE MarkAway
  <2> DEFINE d == checker.conn
  <2>1. /\ d \in Conn /\ conns[d].user # None
        /\ UNCHANGED <<callback, cur, session, link, pc, who, playing>> /\ conns' = conns
        /\ away' = [away EXCEPT ![conns[d].user] = TRUE]
    BY <1>5 DEF MarkAway, EntryInv, CheckerOK
  <2>2. session[d] = conns[d].user /\ cur[d] = session[d] /\ Exists(d) /\ pc[d] = "idle"
    BY <2>1 DEF EntryInv, EntriesOK, SessionsOK
  <2>3. link[d] \in {"silent", "closing"}
    <3>1. link[d] # "up"
      BY <1>5, <2>1 DEF PunctualOK, MarkAway
    <3> QED BY <2>2, <3>1 DEF Exists
  <2>4. \A c \in Conn : link[c] = "up" /\ session[c] # None => session[c] # conns[d].user
    BY <2>1, <2>2, <2>3 DEF NotOverlaid, EntryInv, SessionsOK
  <2>5. \A c \in Conn : pc[c] \in {"backOnline", "backRegister"} => who[c] # conns[d].user
    BY <2>1, <2>2, <2>3 DEF NotOverlaid, Entering
  <2>6. \A u \in User : away'[u] => \/ away[u]
           \/ \A c \in Conn : /\ link'[c] = "up" /\ session'[c] # None => session'[c] # u
                              /\ pc'[c] \in {"backOnline", "backRegister"} => who'[c] # u
    <3> HIDE DEF d
    <3> SUFFICES ASSUME NEW u \in User, away'[u], ~away[u]
                 PROVE  \A c \in Conn :
                          /\ link'[c] = "up" /\ session'[c] # None => session'[c] # u
                          /\ pc'[c] \in {"backOnline", "backRegister"} => who'[c] # u
      OBVIOUS
    <3>1. u = conns[d].user
      BY <2>1 DEF Types
    <3> QED BY <2>1, <2>4, <2>5, <3>1
  <2>7. \A c \in Conn : conns'[c].inRoom = conns[c].inRoom
    BY <2>1
  <2> HIDE DEF d
  <2> QED BY <1>3, <2>1, <2>6, <2>7, PresentFrame
<1> QED BY <1>1, <1>2, <1>4, <1>5 DEF Checker

\* Whoever is in the room, or back in it, is not in the list of absent players.
LEMMA PresentStep ==
  Types /\ EntryInv /\ WatchInv /\ BackIsNotAway /\ [Next]_vars => BackIsNotAway'
<1> SUFFICES ASSUME Types, EntryInv, WatchInv, BackIsNotAway, [Next]_vars,
                    ~raced', ~overlaid', "slow" \notin faults'
             PROVE  Present'
  BY DEF BackIsNotAway, Present
<1>1. faults \subseteq faults'
  BY FaultsStay
<1>2. CASE UNCHANGED vars
  BY <1>2 DEF vars, core, BackIsNotAway, Present, PlayerIsHere, NextIsHere, Up, Player, Seated
<1>3. CASE Next
  <2>1. ~raced /\ ~overlaid
    BY <1>3, WatchStep DEF Next
  <2>2. Present /\ "slow" \notin faults
    BY <1>1, <2>1 DEF BackIsNotAway, Present
  <2> QED BY <1>3, <2>1, <2>2, PresentHandler, PresentClient, PresentOthers DEF Next, Act, WatchInv
<1> QED BY <1>2, <1>3

\* Unless he was let in twice at once or beside an old connection of his, or a
\* heartbeat was late, a player whose client is there is not taken for absent
\* while a game goes on, even if statements fail.
THEOREM HereAreNotAway == Spec => []HereIsNotAway
<1>1. Init => BackIsNotAway
  BY DEF Init, BackIsNotAway, PlayerIsHere, NextIsHere
<1>2. Types /\ EntryInv /\ BackIsNotAway => HereIsNotAway
  <2> SUFFICES ASSUME Types, EntryInv, PlayerIsHere, NEW c \in Conn, link[c] = "up", Player(c),
                      playing
               PROVE  ~away[cur[c]]
    BY DEF BackIsNotAway, HereIsNotAway
  <2>1. conns[c].user # None
    BY DEF EntryInv, EntriesOK, Player
  <2>2. session[c] # None /\ cur[c] = session[c]
    BY <2>1 DEF EntryInv, EntriesOK, SessionsOK
  <2> QED BY <2>2 DEF PlayerIsHere, Up
<1> QED BY <1>1, <1>2, PresentStep, WatchKept, EntriesInOrder, TypesKept, PTL DEF Spec
=============================================================================
