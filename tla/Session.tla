------------------------------- MODULE Session --------------------------------
(***************************************************************************)
(* Accounts and who is online: registering, logging in and out, heart-     *)
(* beats, losing a connection, coming back, and what the MySQL column      *)
(* "status", the heartbeat checker, the list of absent players and the     *)
(* reconnect tokens make of it.  A handler is cut at its SQL statements    *)
(* and at its calls of the managers.  There is one room.                   *)
(***************************************************************************)
EXTENDS Naturals, FiniteSets

CONSTANTS
  User,       \* accounts
  Conn,       \* connections, each used once
  None,       \* no user
  Faults,     \* what may go wrong: a subset of Kinds
  MaxFaults   \* so many kinds of it in one behaviour

\* "slow": a client that is there is late with its heartbeat
\* "sql": a statement fails;  "restart": the server is restarted
Kinds == {"slow", "sql", "restart"}

ASSUME ConstantsAssumption ==
  /\ None \notin User /\ Faults \subseteq Kinds /\ MaxFaults \in Nat

VARIABLES
  user, info,  \* MySQL: rows of each name in the two tables
  status,      \* MySQL: information.status is 1
  tx,          \* MySQL: the rows each connection's transaction has inserted
  token,       \* Redis: the user has a reconnect token for the room
  callback,    \* RoomList: through which connection a user in the room is
               \* written to, None if he is not in the room
  playing,     \* a game goes on in the room
  conns,       \* ConnectionManager::m_connections
  away,        \* DisconnectManager::m_disconnectedPlayers
  checker,     \* the heartbeat checker; it holds m_mutex unless at "idle"
  link,        \* "none", "up", "silent": client lost, "closing", "down"
  cur, room,   \* m_currentUserName, and whether m_currentRoomName is set
  pc, who,     \* where the handler of a connection is, and its user
  session,     \* the user as which the client has been let in
  faults,      \* history: kinds of faults so far
  raced,       \* history: two handlers let in one user at once
  overlaid     \* history: a user was let in beside an old connection of his

mysql == <<user, info, status, tx>>
manager == <<conns, checker>>
here == <<link, cur, room, session>>
world == <<token, callback, playing, away>>
core == <<mysql, manager, here, world, pc, who, faults>>
vars == <<core, raced, overlaid>>

Unknown == [user |-> None, inRoom |-> FALSE, active |-> FALSE, fresh |-> FALSE]
Entry(u, inRoom) == [user |-> u, inRoom |-> inRoom, active |-> TRUE, fresh |-> TRUE]
Resting == [at |-> "idle", todo |-> {}, conn |-> None]

Init ==
  /\ user = [u \in User |-> 0] /\ info = user
  /\ status = [u \in User |-> FALSE] /\ tx = [c \in Conn |-> {}]
  /\ token = status /\ callback = [u \in User |-> None]
  /\ away = status /\ playing = FALSE
  /\ conns = [c \in Conn |-> Unknown] /\ checker = Resting
  /\ link = [c \in Conn |-> "none"]
  /\ cur = [c \in Conn |-> None] /\ room = [c \in Conn |-> FALSE]
  /\ pc = [c \in Conn |-> "idle"] /\ who = cur /\ session = cur
  /\ faults = {} /\ raced = FALSE /\ overlaid = FALSE

Seated(u) == callback[u] # None
Exists(c) == link[c] \in {"up", "silent", "closing"}
Resumed == [Resting EXCEPT !.todo = checker.todo \ {checker.conn}]
Free == checker.at = "idle"                  \* ConnectionManager::m_mutex
At(c, here_) == pc[c] = here_
Goto(c, there) ==
  /\ pc' = [pc EXCEPT ![c] = there]
  /\ who' = IF there = "idle" THEN [who EXCEPT ![c] = None] ELSE who
Fault(kind) ==
  /\ kind \in Faults /\ Cardinality(faults \cup {kind}) <= MaxFaults
  /\ faults' = faults \cup {kind}

\* a statement that sets the status; its failure goes unnoticed
SetStatus(u, online) ==
  \/ status' = [status EXCEPT ![u] = online] /\ UNCHANGED faults
  \/ Fault("sql") /\ UNCHANGED status
-----------------------------------------------------------------------------
(* Mutations *)

\* both tables are not written in one transaction
InsertUserAlone(c) ==
  /\ At(c, "insertUser") /\ Goto(c, "insertInfo")
  /\ \/ user' = [user EXCEPT ![who[c]] = @ + 1] /\ tx' = [tx EXCEPT ![c] = {"user"}] /\ UNCHANGED faults
     \/ Fault("sql") /\ UNCHANGED <<user, tx>>
  /\ UNCHANGED <<info, status, manager, here, world>>

\* the status is not looked at
MayEnterOff(u) == info[u] > 0

\* the heartbeat checker does not reset the status
MarkOfflineOff ==
  /\ checker.at = "status"
  /\ checker' = IF conns[checker.conn].inRoom THEN [checker EXCEPT !.at = "away"]
                ELSE Resumed
  /\ UNCHANGED <<mysql, conns, here, world, pc, who, faults>>

\* an absent player gets no token to come back with
MarkAwayOff ==
  /\ checker.at = "away" /\ checker' = Resumed
  /\ away' = [away EXCEPT ![conns[checker.conn].user] = TRUE]
  /\ UNCHANGED <<mysql, conns, here, token, callback, playing, pc, who, faults>>

\* a player who returns stays in the list of absent ones
RemoveOff(c) ==
  /\ At(c, "back") /\ Goto(c, "backOnline")
  /\ UNCHANGED <<mysql, manager, here, world, faults>>

\* the old callback stays when the player comes back: insert, no assignment
BackOnlineInsert(c) ==
  /\ At(c, "backOnline") /\ Goto(c, "backRegister")
  /\ callback' = [callback EXCEPT ![who[c]] = IF @ = None THEN c ELSE @]
  /\ SetStatus(who[c], TRUE)
  /\ UNCHANGED <<user, info, tx, manager, here, token, playing, away>>

\* the destructor leaves the status
SetOfflineOff(c) ==
  /\ At(c, "offline") /\ Goto(c, "record")
  /\ UNCHANGED <<mysql, manager, here, world, faults>>

\* the mutex of the manager is not taken
UnregisterUnlocked(c) ==
  /\ At(c, "idle") /\ link[c] = "closing" /\ Goto(c, "offline")
  /\ conns' = [conns EXCEPT ![c] = Unknown]
  /\ UNCHANGED <<mysql, checker, here, world, faults>>
-----------------------------------------------------------------------------
(* Links; the client is modelled as the code in src/ sees it *)

Connect(c) ==
  /\ link[c] = "none" /\ link' = [link EXCEPT ![c] = "up"]
  /\ UNCHANGED <<mysql, manager, cur, room, session, world, pc, who, faults>>

\* the client closes, or a lost one is found to be closed after all
Close(c) ==
  /\ link[c] \in {"up", "silent"} /\ link' = [link EXCEPT ![c] = "closing"]
  /\ UNCHANGED <<mysql, manager, cur, room, session, world, pc, who, faults>>

\* the client is lost, and the server's socket does not tell
Vanish(c) ==
  /\ link[c] = "up" /\ link' = [link EXCEPT ![c] = "silent"]
  /\ UNCHANGED <<mysql, manager, cur, room, session, world, pc, who, faults>>

\* HEARTBEAT_TIMEOUT_SECONDS go by without a heartbeat
Expire(c) ==
  /\ conns[c].fresh /\ Free
  /\ conns' = [conns EXCEPT ![c].fresh = FALSE]
  /\ IF link[c] = "up" THEN Fault("slow") ELSE UNCHANGED faults
  /\ UNCHANGED <<mysql, checker, here, world, pc, who>>

\* a handler of connection c begins for user u, whom the client says it is
Begin(c, u, first) ==
  /\ At(c, "idle") /\ link[c] = "up" /\ session[c] = None
  /\ pc' = [pc EXCEPT ![c] = first] /\ who' = [who EXCEPT ![c] = u]
  /\ UNCHANGED <<mysql, manager, link, session, world, faults>>

Asks(c, u, first) == Begin(c, u, first) /\ UNCHANGED <<cur, room>>
-----------------------------------------------------------------------------
(* handleRegister *)

SignUp(c, u) == user[u] = 0 /\ Asks(c, u, "exists")

\* select; a failed one refuses as well
CheckExists(c) ==
  /\ At(c, "exists")
  /\ \/ user[who[c]] = 0 /\ Goto(c, "insertUser")
     \/ Goto(c, "idle")
  /\ UNCHANGED <<mysql, manager, here, world, faults>>

\* one row of one table, in the transaction of c.  The name is a key: another
\* transaction that has inserted it is waited for, and a second row fails.
Insert(c, table, rows) ==
  /\ \A d \in Conn \ {c} : table \in tx[d] => who[d] # who[c]
  /\ \/ rows[who[c]] = 0 /\ tx' = [tx EXCEPT ![c] = @ \cup {table}] /\ UNCHANGED faults
     \/ rows[who[c]] > 0 /\ UNCHANGED <<tx, faults>>
     \/ Fault("sql") /\ UNCHANGED tx
  /\ UNCHANGED <<user, info, status, manager, here, world>>

InsertUser(c) == At(c, "insertUser") /\ Goto(c, "insertInfo") /\ Insert(c, "user", user)
InsertInfo(c) == At(c, "insertInfo") /\ Goto(c, "commit") /\ Insert(c, "info", info)

Complete(rows) == rows = {"user", "info"}

\* commit, or rollback when one of the two failed; a commit that fails goes
\* unnoticed, and leaves no row
Commit(c) ==
  /\ At(c, "commit") /\ Goto(c, "idle")
  /\ tx' = [tx EXCEPT ![c] = {}]
  /\ \/ /\ Complete(tx[c])
        /\ user' = [user EXCEPT ![who[c]] = @ + 1]
        /\ info' = [info EXCEPT ![who[c]] = @ + 1]
        /\ UNCHANGED faults
     \/ Complete(tx[c]) /\ Fault("sql") /\ UNCHANGED <<user, info>>
     \/ ~Complete(tx[c]) /\ UNCHANGED <<user, info, faults>>
  /\ UNCHANGED <<status, manager, here, world>>
-----------------------------------------------------------------------------
(* handleLogin *)

Login(c, u) == Asks(c, u, "login")

MayEnter(u) == info[u] > 0 /\ ~status[u]

\* select; a failed one refuses as well
CheckLogin(c) ==
  /\ At(c, "login")
  /\ \/ MayEnter(who[c]) /\ Goto(c, "online")
     \/ Goto(c, "idle")
  /\ UNCHANGED <<mysql, manager, here, world, faults>>

\* update, and commit: a failed update is rolled back and refuses, a failed
\* commit goes unnoticed, and the user is let in with the status as it was
SetOnline(c) ==
  /\ At(c, "online")
  /\ \/ SetStatus(who[c], TRUE) /\ Goto(c, "register")
     \/ Goto(c, "idle") /\ UNCHANGED <<status, faults>>
  /\ UNCHANGED <<user, info, tx, manager, here, world>>

RegisterConnection(c) ==
  /\ At(c, "register") /\ Free /\ Goto(c, "idle")
  /\ cur' = [cur EXCEPT ![c] = who[c]] /\ session' = [session EXCEPT ![c] = who[c]]
  /\ conns' = [conns EXCEPT ![c] = Entry(who[c], FALSE)]
  /\ UNCHANGED <<mysql, checker, link, room, world, faults>>
-----------------------------------------------------------------------------
(* Requests of a client that is in *)

\* handleAddRoom, as far as it is about connections; a room in which a game
\* goes on is full, or closed
Join(c) ==
  /\ At(c, "idle") /\ link[c] = "up" /\ session[c] # None /\ Free /\ ~playing
  /\ callback' = [callback EXCEPT ![session[c]] = c]
  /\ room' = [room EXCEPT ![c] = TRUE]
  /\ conns' = [conns EXCEPT ![c] = Entry(cur[c], TRUE)]
  /\ UNCHANGED <<mysql, checker, link, cur, session, token, away, playing, pc, who, faults>>

\* a room that is full is asked for by its name: parseRequest notes it, and
\* handleAddRoom refuses
JoinRefused(c) ==
  /\ At(c, "idle") /\ link[c] = "up" /\ session[c] # None /\ playing
  /\ ~Seated(session[c]) /\ ~room[c]
  /\ room' = [room EXCEPT ![c] = TRUE]
  /\ UNCHANGED <<mysql, manager, link, cur, session, world, pc, who, faults>>

\* handleLeaveRoom; neither the connection nor its entry forgets the room
Leave(c) ==
  /\ At(c, "idle") /\ link[c] = "up" /\ session[c] # None /\ Seated(session[c])
  /\ callback' = [callback EXCEPT ![session[c]] = None]
  /\ UNCHANGED <<mysql, manager, here, token, away, playing, pc, who, faults>>

\* handleHeartbeat
Heartbeat(c) ==
  /\ At(c, "idle") /\ link[c] = "up" /\ conns[c].user # None /\ ~conns[c].fresh /\ Free
  /\ conns' = [conns EXCEPT ![c].fresh = TRUE]
  /\ UNCHANGED <<mysql, checker, here, world, pc, who, faults>>

\* handleGoodBye, which goes on with the destructor
GoodBye(c) ==
  /\ At(c, "idle") /\ link[c] = "up" /\ session[c] # None
  /\ SetStatus(session[c], FALSE)
  /\ link' = [link EXCEPT ![c] = "closing"]
  /\ UNCHANGED <<user, info, tx, manager, cur, room, session, world, pc, who>>
-----------------------------------------------------------------------------
(* ~Communication *)

UnregisterConnection(c) ==
  /\ At(c, "idle") /\ link[c] = "closing" /\ Free /\ Goto(c, "offline")
  /\ conns' = [conns EXCEPT ![c] = Unknown]
  /\ UNCHANGED <<mysql, checker, here, world, faults>>

SetOffline(c) ==
  /\ At(c, "offline") /\ Goto(c, "record")
  /\ IF cur[c] # None THEN SetStatus(cur[c], FALSE) ELSE UNCHANGED <<status, faults>>
  /\ UNCHANGED <<user, info, tx, manager, here, world>>

RecordPlayerDisconnect(c) ==
  /\ At(c, "record") /\ Goto(c, "idle")
  /\ link' = [link EXCEPT ![c] = "down"]
  /\ away' = IF room[c] THEN [away EXCEPT ![cur[c]] = TRUE] ELSE away
  /\ UNCHANGED <<mysql, manager, cur, room, session, token, callback, playing, faults>>
-----------------------------------------------------------------------------
(* handleReconnectRequest, from a client that lost a connection on which it  *)
(* was in the room.  parseRequest notes user and room before the token is   *)
(* looked at.                                                              *)

Reconnect(c, u) ==
  /\ \E d \in Conn : session[d] = u /\ room[d]
  /\ ~\E d \in Conn : link[d] = "up" /\ session[d] = u
  /\ Begin(c, u, "validate")
  /\ cur' = [cur EXCEPT ![c] = u] /\ room' = [room EXCEPT ![c] = TRUE]

ValidateToken(c) ==
  /\ At(c, "validate") /\ Goto(c, IF token[who[c]] THEN "back" ELSE "forget")
  /\ UNCHANGED <<mysql, manager, here, world, faults>>

\* no token: the client may log in anew
Forget(c) ==
  /\ At(c, "forget") /\ Goto(c, "idle")
  /\ SetStatus(who[c], FALSE)
  /\ UNCHANGED <<user, info, tx, manager, here, world>>

RemoveFromDisconnectList(c) ==
  /\ At(c, "back") /\ Goto(c, "backOnline")
  /\ away' = [away EXCEPT ![who[c]] = FALSE]
  /\ UNCHANGED <<mysql, manager, here, token, callback, playing, faults>>

\* addUser replaces the callback, then the status is set
BackOnline(c) ==
  /\ At(c, "backOnline") /\ Goto(c, "backRegister")
  /\ callback' = [callback EXCEPT ![who[c]] = c]
  /\ SetStatus(who[c], TRUE)
  /\ UNCHANGED <<user, info, tx, manager, here, token, playing, away>>

BackRegister(c) ==
  /\ At(c, "backRegister") /\ Free /\ Goto(c, "idle")
  /\ cur' = [cur EXCEPT ![c] = who[c]] /\ session' = [session EXCEPT ![c] = who[c]]
  /\ room' = [room EXCEPT ![c] = TRUE]
  /\ conns' = [conns EXCEPT ![c] = Entry(who[c], TRUE)]
  /\ UNCHANGED <<mysql, checker, link, world, faults>>
-----------------------------------------------------------------------------
(* heartbeatCheckerThread *)

Silent == {c \in Conn : conns[c].active /\ ~conns[c].fresh}

GetTimeoutConnections ==
  /\ Free /\ checker.todo = {} /\ Silent # {}
  /\ checker' = [checker EXCEPT !.todo = Silent]
  /\ UNCHANGED <<mysql, conns, here, world, pc, who, faults>>

\* takes the mutex; a heartbeat since the list was made is not looked at
HandleTimeoutConnection(c) ==
  /\ Free /\ c \in checker.todo
  /\ IF conns[c].active
     THEN /\ conns' = [conns EXCEPT ![c].active = FALSE]
          /\ checker' = [checker EXCEPT !.at = "status", !.conn = c]
     ELSE /\ checker' = [checker EXCEPT !.todo = @ \ {c}]
          /\ UNCHANGED conns
  /\ UNCHANGED <<mysql, here, world, pc, who, faults>>

MarkOffline ==
  /\ checker.at = "status"
  /\ SetStatus(conns[checker.conn].user, FALSE)
  /\ checker' = IF conns[checker.conn].inRoom THEN [checker EXCEPT !.at = "away"]
                ELSE Resumed
  /\ UNCHANGED <<user, info, tx, conns, here, world, pc, who>>

MarkAway ==
  /\ checker.at = "away" /\ checker' = [checker EXCEPT !.at = "token"]
  /\ away' = [away EXCEPT ![conns[checker.conn].user] = TRUE]
  /\ UNCHANGED <<mysql, conns, here, token, callback, playing, pc, who, faults>>

GenerateReconnectToken ==
  /\ checker.at = "token"
  /\ checker' = Resumed
  /\ token' = [token EXCEPT ![conns[checker.conn].user] = TRUE]
  /\ UNCHANGED <<mysql, conns, here, callback, away, playing, pc, who, faults>>

Checker ==
  \/ GetTimeoutConnections \/ MarkOffline \/ MarkAway \/ GenerateReconnectToken
  \/ \E c \in Conn : HandleTimeoutConnection(c)
-----------------------------------------------------------------------------
\* startGame and checkAndHandleGameEnd, as far as they are about connections
StartGame ==
  /\ ~playing /\ (\E u \in User : Seated(u)) /\ playing' = TRUE
  /\ away' = [u \in User |-> FALSE]
  /\ UNCHANGED <<mysql, manager, here, token, callback, pc, who, faults>>

EndGame ==
  /\ playing /\ playing' = FALSE
  /\ token' = [u \in User |-> FALSE] /\ away' = token'
  /\ UNCHANGED <<mysql, manager, here, callback, pc, who, faults>>

\* the process ends and is started again: saveRsaKey clears Redis
Restart ==
  /\ Fault("restart") /\ "restart" \notin faults
  /\ tx' = [c \in Conn |-> {}]
  /\ token' = [u \in User |-> FALSE] /\ away' = token'
  /\ callback' = [u \in User |-> None] /\ playing' = FALSE
  /\ conns' = [c \in Conn |-> Unknown] /\ checker' = Resting
  /\ link' = [c \in Conn |-> IF link[c] = "none" THEN "none" ELSE "down"]
  /\ pc' = [c \in Conn |-> "idle"] /\ who' = [c \in Conn |-> None]
  /\ UNCHANGED <<user, info, status, cur, room, session>>
-----------------------------------------------------------------------------
Handler(c) ==
  \/ CheckExists(c) \/ InsertUser(c) \/ InsertInfo(c) \/ Commit(c)
  \/ CheckLogin(c) \/ SetOnline(c) \/ RegisterConnection(c)
  \/ ValidateToken(c) \/ Forget(c) \/ RemoveFromDisconnectList(c)
  \/ BackOnline(c) \/ BackRegister(c)
  \/ UnregisterConnection(c) \/ SetOffline(c) \/ RecordPlayerDisconnect(c)

Client(c) ==
  \/ Connect(c) \/ Close(c) \/ Vanish(c) \/ Join(c) \/ JoinRefused(c) \/ Leave(c) \/ GoodBye(c)
  \/ \E u \in User : SignUp(c, u) \/ Login(c, u) \/ Reconnect(c, u)

Entering == {"login", "online", "register", "validate", "forget", "back", "backOnline", "backRegister"}
Watch ==
  /\ raced' = (raced \/ \E c, d \in Conn :
       c # d /\ pc'[c] \in Entering /\ pc'[d] \in Entering /\ who'[c] = who'[d])
  /\ overlaid' = (overlaid \/ \E c, d \in Conn :
       /\ c # d /\ cur'[d] # None /\ link'[d] \in {"silent", "closing"}
       /\ \/ who'[c] = cur'[d] /\ pc'[c] \in Entering
          \/ cur'[c] = cur'[d] /\ link'[c] = "up")

Act(c) == Handler(c) \/ Heartbeat(c) \/ Client(c) \/ Expire(c)

Next == (Checker \/ StartGame \/ EndGame \/ Restart \/ \E c \in Conn : Act(c)) /\ Watch

\* workers and the checker run, and time passes for a connection without
\* heartbeats; clients need do nothing
Fairness ==
  /\ WF_core(Checker)
  /\ WF_core(\E c \in Conn : link[c] # "up" /\ Expire(c))
  /\ \A c \in Conn : WF_core(Handler(c))

Spec == Init /\ [][Next]_vars /\ Fairness
-----------------------------------------------------------------------------
(* Properties *)

Types ==
  /\ user \in [User -> Nat] /\ info \in [User -> Nat]
  /\ status \in [User -> BOOLEAN] /\ tx \in [Conn -> SUBSET {"user", "info"}]
  /\ token \in [User -> BOOLEAN] /\ callback \in [User -> Conn \cup {None}]
  /\ away \in [User -> BOOLEAN] /\ playing \in BOOLEAN
  /\ conns \in [Conn -> [user : User \cup {None}, inRoom : BOOLEAN,
                         active : BOOLEAN, fresh : BOOLEAN]]
  /\ checker \in [at : {"idle", "status", "away", "token"}, todo : SUBSET Conn,
                  conn : Conn \cup {None}]
  /\ link \in [Conn -> {"none", "up", "silent", "closing", "down"}]
  /\ cur \in [Conn -> User \cup {None}] /\ room \in [Conn -> BOOLEAN]
  /\ pc \in [Conn -> {"idle", "exists", "insertUser", "insertInfo", "commit",
                      "login", "online", "register", "validate", "back", "forget",
                      "backOnline", "backRegister", "offline", "record"}]
  /\ who \in [Conn -> User \cup {None}] /\ session \in [Conn -> User \cup {None}]
  /\ faults \subseteq Faults /\ raced \in BOOLEAN /\ overlaid \in BOOLEAN

\* The variables have their types, a handler works for a user, and so does the
\* checker: nobody takes the entry of m_connections it is at, for it holds
\* m_mutex until it has read all of it.
TypeOK ==
  /\ Types
  /\ checker.at # "idle" => conns[checker.conn].user \in User
  /\ \A c \in Conn : pc[c] \notin {"idle", "offline", "record"} => who[c] \in User

\* A name has one row in both tables or in none, whichever statement of
\* whichever of two registrations fails: handleRegister's transaction.
RowsAgree == \A u \in User : user[u] = info[u] /\ user[u] <= 1

\* As long as no two handlers let in one user at once, none is let in beside
\* an old connection of his, no heartbeat is late and no statement fails (the
\* status of a player who comes back is set without a look at the result), a
\* user is logged in once: the status check of handleLogin with everything
\* that resets it.
OneSession ==
  raced \/ overlaid \/ faults \cap {"slow", "sql"} # {} \/
  \A c, d \in Conn : (c # d /\ link[c] = "up" /\ link[d] = "up" /\ session[c] # None)
                       => session[c] # session[d]

\* the server will see that u is offline through connection c
Answers(c, u) ==
  \/ pc[c] \in {"register", "backRegister"} /\ who[c] = u
  \/ /\ Exists(c) /\ cur[c] = u /\ pc[c] # "record"
     /\ \/ link[c] # "silent"
        \/ conns[c].active
        \/ pc[c] # "idle"
        \/ checker.at = "status" /\ checker.conn = c

\* Unless a statement failed or the server was restarted, a user who is online
\* in MySQL has a connection whose end will set him offline, so that nobody
\* is locked out: login, reconnect, destructor and heartbeat checker together.
NotLockedOut ==
  faults \cap {"sql", "restart"} # {} \/
  \A u \in User : status[u] => \E c \in Conn : Answers(c, u)

\* A user whose clients have all gone is offline some time: the checker finds
\* what the socket does not tell.
GoneIsOffline ==
  \A u \in User :
    status[u] ~> \/ ~status[u] \/ faults \cap {"sql", "restart"} # {}
                 \/ \E c \in Conn : link[c] = "up" /\ cur[c] = u

\* connection c has been let into the room, and its player is there
Player(c) == conns[c].inRoom /\ Seated(cur[c])

\* connection c of user u is gone without a word
LostOn(c, u) == link[c] = "silent" /\ cur[c] = u

\* A player whose connection is lost while it is watched and a game goes on is
\* marked absent and can come back, unless he comes back before that or leaves,
\* or the game ends: handleAddRoom's entry and the heartbeat checker.
LostIsNoticed ==
  \A u \in User :
    (\E c \in Conn : LostOn(c, u) /\ Player(c) /\ playing /\ conns[c].active) ~>
      \/ away[u] /\ token[u]
      \/ ~Seated(u) \/ ~playing \/ ~\E c \in Conn : LostOn(c, u)
      \/ \E d \in Conn : link[d] \in {"up", "closing"} /\ u \in {who[d], cur[d]}

\* The others in a room write to the connection on which a player is there,
\* never to one that he has lost, as long as he is logged in once (see
\* OneSession): addUser, which replaces the callback when he comes back, with
\* handleAddRoom and handleReconnectRequest.
WrittenToWhereHeIs ==
  raced \/ overlaid \/ faults \cap {"slow", "sql"} # {} \/
  \A c \in Conn : (link[c] = "up" /\ Player(c)) => callback[cur[c]] = c

\* A player who joined or came back is not taken for absent while a game goes
\* on and his connection works, unless he was let in beside an old connection
\* of his, whose end marks him: isDisconnectedPlayer with
\* handleReconnectRequest, ~Communication and the heartbeat checker.
HereIsNotAway ==
  raced \/ overlaid \/ "slow" \in faults \/
  \A c \in Conn : (link[c] = "up" /\ Player(c) /\ playing) => ~away[cur[c]]
=============================================================================
