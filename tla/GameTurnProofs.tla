---------------------------- MODULE GameTurnProofs ----------------------------
(***************************************************************************)
(* Proofs about Game: whose turn it is and who knows it, and when a game   *)
(* is scored, for every pack of cards, any number of deals and of faults,  *)
(* for as long as clients and timers have waited for the handlers to end   *)
(* (Patient): from the first time one does not, nothing is claimed.        *)
(*                                                                         *)
(* The invariants are one conjunct each of TableInv; every one is shown to *)
(* be kept by every step before that, from itself and from those before.   *)
(***************************************************************************)
EXTENDS GameCardProofs

\* The turn goes round the table.
LEMMA RoundTheTable ==
  ASSUME order \in Seating
  PROVE  /\ After(order[1]) = order[2]
         /\ After(order[2]) = order[3]
         /\ After(order[3]) = order[1]
<1> DEFINE before(i) == IF i = 1 THEN 3 ELSE i - 1
<1>0. order # << >>
  BY SeatsAreTaken
<1>1. ASSUME NEW k \in 1..3 PROVE
       After(order[k]) = order[IF k = 3 THEN 1 ELSE k + 1]
  <2> DEFINE n == IF k = 3 THEN 1 ELSE k + 1
  <2>1. \A i \in 1..3 : order[before(i)] = order[k] <=> i = n
    BY SeatsAreTaken
  <2>2. n \in 1..3
    OBVIOUS
  <2>3. (CHOOSE i \in 1..3 : order[before(i)] = order[k]) = n
    <3> HIDE DEF n, before
    <3> QED BY <2>1, <2>2
  <2>4. After(order[k]) = order[CHOOSE i \in 1..3 : order[before(i)] = order[k]]
    BY <1>0 DEF After
  <2> QED BY <2>3, <2>4
<1> QED BY <1>1

\* Somebody else comes next, and who moves makes him the one who is due.
LEMMA NextIsAnother ==
  ASSUME order \in Seating, NEW p \in Players
  PROVE  /\ After(p) \in Players /\ After(p) # p
         /\ Moves(p) /\ settled = 0 =>
              /\ due' = After(p)
              /\ fouls' = IF p = due THEN fouls ELSE fouls \cup {p}
<1>1. After(p) \in Players /\ After(p) # p
  BY SeatsAreTaken, RoundTheTable
<1>2. ASSUME Moves(p), settled = 0
      PROVE  /\ due' = After(p)
             /\ fouls' = IF p = due THEN fouls ELSE fouls \cup {p}
  <2>1. /\ order # << >> /\ order[1] # order[2] /\ order[1] # order[3] /\ order[2] # order[3]
        /\ p = order[1] \/ p = order[2] \/ p = order[3]
    BY SeatsAreTaken
  <2>2. /\ fouls' = IF p = due THEN fouls ELSE fouls \cup {p}
        /\ due' \in {q \in Players : <<p, q>> \in {<<order[1], order[2]>>,
             <<order[2], order[3]>>, <<order[3], order[1]>>}}
    BY <1>2, <2>1 DEF Moves
  <2>3. \/ p = order[1] /\ due' = order[2]
        \/ p = order[2] /\ due' = order[3]
        \/ p = order[3] /\ due' = order[1]
    BY <2>2
  <2> QED BY <2>1, <2>2, <2>3, RoundTheTable
<1> QED BY <1>1, <1>2

-----------------------------------------------------------------------------
\* One thread at a time works on the game.
ThreadInv ==
  /\ \A t, u \in Threads : pc[t] # "idle" /\ pc[u] # "idle" => t = u
  /\ \A t \in Threads : /\ pc[t] = "expire" => t = Checker
                        /\ pc[t] \in {"idle", "next"} => ~ai[t]
                        /\ pc[t] \in {"ai", "tell", "done"} => ai[t]
  /\ pc[Checker] \notin {"idle", "expire"} => ai[Checker]
  /\ expired # {} => pc[Checker] # "idle"

\* Between the deal and the landlord the table is at rest.
BidInv ==
  /\ order # << >> /\ phase = "" =>
       /\ AllIdle /\ timers = {} /\ settled = 0 /\ played = {} /\ fouls = {}
       /\ bottom # {} /\ \A p \in Players : hand[p] # {} /\ client[p] # "play"
  /\ (\E p \in Players : client[p] = "bid") => order # << >> /\ phase = ""
  /\ phase = "playing" => order # << >>

\* What a client is doing tells whether its player is there.
ClientInv ==
  /\ \A p \in Players : /\ p \notin conn => client[p] \in {"out", "left"}
                        /\ client[p] = "left" => p \notin members
                        /\ client[p] = "over" => settled > 0
                        /\ settled = 0 /\ p \notin members => client[p] = "left"
  /\ deals = 0 => /\ AllIdle /\ timers = {} /\ order = << >> /\ settled = 0
                  /\ members = Players /\ \A p \in Players : client[p] # "play"

\* Who waits finds every handler at its end ...
LEMMA Waits == TypeOK /\ Patient' /\ Begin => AllIdle
  BY DEF TypeOK, HistoryOK, Patient, Begin

\* ... and who waits now has always waited.
LEMMA AlwaysWaited == TypeOK /\ [Next]_vars /\ Patient' => Patient
<1> SUFFICES ASSUME TypeOK, [Next]_vars, haste' = 0 PROVE haste = 0
  BY DEF Patient
<1>1. haste \in Nat
  BY DEF TypeOK, HistoryOK
<1>2. haste' = haste \/ haste' = haste + 1
  BY Zenon DEF Next, Bidding, Playing, Handlers, Timeouts, Faults, Returning, vars, Begin,
    ReadyForPlay, GrabLord, Play, ReadHand, WriteHand, EndGame, GameGoesOn, PassTurn, AINothing,
    AIMove, AITell, Chain, Collect, HandleTimeout, CheckNextPlayer, Drop, HeartbeatLost,
    DropSuperseded, LeaveRoom, Reconnect, Continue, GameOver
<1> QED BY <1>1, <1>2

\* No second thread sets to work while one is at it, while all are patient
\* (the threads of Communication.cpp and TurnTimeoutManager.cpp).
LEMMA ThreadStep ==
  ASSUME TypeOK, Patient', ThreadInv, [Next]_vars
  PROVE  ThreadInv'
<1>b. Begin => AllIdle
  BY Waits
<1> USE <1>b
<1>0. Checker \in Threads
  BY DEF Threads
<1>z. pc \in [Threads -> Steps] /\ ai \in [Threads -> BOOLEAN]
  BY DEF TypeOK, ThreadsOK
<1>w. ASSUME NEW t \in Threads, pc[t] # "idle", expired' = expired,
             \A u \in Threads \ {t} : pc'[u] = pc[u] /\ ai'[u] = ai[u],
             \/ pc'[t] \in {"remove", "write"} /\ (t = Checker => ai'[t])
             \/ pc'[t] \in {"ai", "tell", "done"} /\ ai'[t]
             \/ pc'[t] \in {"idle", "next"} /\ ~ai'[t] /\ t # Checker
             \/ pc'[t] \in {"idle", "next"} /\ ~ai'[t] /\ pc[t] # "expire" /\ ~ai[t]
      PROVE  ThreadInv'
  BY <1>w, <1>0 DEF ThreadInv
<1> USE <1>z DEF AllIdle, Goto, Return, run
<1>1. CASE ReadyForPlay
  BY <1>1 DEF ReadyForPlay, StartGame, Deal, ThreadInv
<1>2. ASSUME NEW p \in Players, NEW bet \in Bets, GrabLord(p, bet) PROVE ThreadInv'
  BY <1>2 DEF GrabLord, ThreadInv
<1>3. ASSUME NEW p \in Players, NEW C \in SUBSET hand[p], Play(p, C) PROVE ThreadInv'
  <2>1. p # Checker /\ p \in Threads
    BY ConstantsAssumption DEF Threads
  <2>2. /\ AllIdle /\ expired' = expired /\ ai' = ai
        /\ pc'[p] \in {"next", "remove"} /\ \A u \in Threads \ {p} : pc'[u] = pc[u]
    BY <1>3, <2>1 DEF Play
  <2> QED BY <2>1, <2>2, <1>0 DEF ThreadInv
<1>4. ASSUME NEW t \in Threads, ReadHand(t) PROVE ThreadInv'
  BY <1>4, <1>w DEF ReadHand, ThreadInv
<1>5. ASSUME NEW t \in Threads, WriteHand(t) PROVE ThreadInv'
  BY <1>5, <1>w DEF WriteHand, ThreadInv
<1>6. ASSUME NEW t \in Threads, EndGame(t) PROVE ThreadInv'
  <2>1. /\ pc[t] = "remove" /\ expired' = expired
        /\ \A u \in Threads \ {t} : pc'[u] = pc[u] /\ ai'[u] = ai[u]
        /\ \/ ai'[t] /\ ai[t] /\ pc'[t] = "done"
           \/ ~ai'[t] /\ ~ai[t] /\ pc'[t] = "idle"
    BY <1>6 DEF EndGame
  <2> QED BY <2>1, <1>w
<1>7. ASSUME NEW t \in Threads, GameGoesOn(t) PROVE ThreadInv'
  BY <1>7, <1>w DEF GameGoesOn, ThreadInv
<1>8. ASSUME NEW t \in Threads, PassTurn(t) PROVE ThreadInv'
  <2>1. /\ pc[t] = "next" /\ expired' = expired
        /\ \A u \in Threads \ {t} : pc'[u] = pc[u] /\ ai'[u] = ai[u]
        /\ \/ ai'[t] /\ pc'[t] = "ai"
           \/ ~ai'[t] /\ ~ai[t] /\ pc'[t] = "idle"
    BY <1>8 DEF PassTurn, ThreadInv
  <2> QED BY <2>1, <1>w
<1>9. ASSUME NEW t \in Threads, AINothing(t) PROVE ThreadInv'
  BY <1>9, <1>w DEF AINothing, ThreadInv
<1>10. ASSUME NEW t \in Threads, AIMove(t) PROVE ThreadInv'
  BY <1>10, <1>w DEF AIMove, ThreadInv
<1>11. ASSUME NEW t \in Threads, AITell(t) PROVE ThreadInv'
  BY <1>11, <1>w DEF AITell, ThreadInv
<1>12. ASSUME NEW t \in Threads, Chain(t) PROVE ThreadInv'
  <2>1. /\ pc[t] = "done" /\ expired' = expired /\ t # Checker
        /\ \A u \in Threads \ {t} : pc'[u] = pc[u] /\ ai'[u] = ai[u]
        /\ \/ ai'[t] /\ pc'[t] = "ai"
           \/ ~ai'[t] /\ pc'[t] = "idle"
    BY <1>12 DEF Chain, ThreadInv
  <2> QED BY <2>1, <1>w
<1>13. ASSUME NEW X \in SUBSET timers, Collect(X) PROVE ThreadInv'
  <2>1. /\ AllIdle /\ ai' = ai
        /\ pc'[Checker] = "expire" /\ \A u \in Threads \ {Checker} : pc'[u] = pc[u]
    BY <1>13, <1>0 DEF Collect
  <2> QED BY <2>1, <1>0 DEF ThreadInv
<1>14. ASSUME NEW p \in expired, HandleTimeout(p) PROVE ThreadInv'
  <2>1. /\ ai'[Checker] /\ pc[Checker] = "expire" /\ pc'[Checker] = "ai"
        /\ \A u \in Threads \ {Checker} : pc'[u] = pc[u] /\ ai'[u] = ai[u]
    BY <1>14, <1>0 DEF HandleTimeout
  <2> QED BY <2>1, <1>0 DEF ThreadInv
<1>15. CASE CheckNextPlayer
  <2>1. /\ pc[Checker] = "done" /\ expired' = expired
        /\ \A u \in Threads \ {Checker} : pc'[u] = pc[u] /\ ai'[u] = ai[u]
        /\ \/ expired = {} /\ pc'[Checker] = "idle" /\ ~ai'[Checker]
           \/ pc'[Checker] = "expire"
    BY <1>15, <1>0 DEF CheckNextPlayer
  <2> QED BY <2>1, <1>0 DEF ThreadInv
<1>16. ASSUME NEW p \in Players, Drop(p) PROVE ThreadInv'
  BY <1>16 DEF Drop, ThreadInv
<1>17. ASSUME NEW p \in Players, HeartbeatLost(p) PROVE ThreadInv'
  BY <1>17 DEF HeartbeatLost, ThreadInv
<1>18. ASSUME NEW p \in Players, DropSuperseded(p) PROVE ThreadInv'
  BY <1>18 DEF DropSuperseded, ThreadInv
<1>19. ASSUME NEW p \in Players, Reconnect(p) PROVE ThreadInv'
  BY <1>19 DEF Reconnect, ThreadInv
<1>20. ASSUME NEW p \in Players, Continue(p) PROVE ThreadInv'
  BY <1>20 DEF Continue, ThreadInv
<1>21. ASSUME NEW p \in Players, GameOver(p) PROVE ThreadInv'
  BY <1>21 DEF GameOver, ThreadInv
<1>22. ASSUME NEW p \in Players, LeaveRoom(p) PROVE ThreadInv'
  BY <1>22 DEF LeaveRoom, ThreadInv
<1>23. CASE UNCHANGED vars
  BY <1>23 DEF vars, ThreadInv
<1> QED
  BY <1>1, <1>2, <1>3, <1>4, <1>5, <1>6, <1>7, <1>8, <1>9, <1>10, <1>11, <1>12, <1>13,
    <1>14, <1>15, <1>16, <1>17, <1>18, <1>19, <1>20, <1>21, <1>22, <1>23
  DEF Next, Bidding, Playing, Handlers, Timeouts, Faults, Returning

\* The table stays at rest until the landlord is known (dealCards,
\* handleGrabLord, sendLordDeterminedToAllPlayers).
LEMMA BidStep ==
  ASSUME TypeOK, Patient', BidInv, ClientInv, [Next]_vars
  PROVE  BidInv'
<1>b. Begin => AllIdle
  BY Waits
<1> USE <1>b
<1>z. /\ client \in [Players -> Doings] /\ pc \in [Threads -> Steps]
      /\ hand \in [Players -> SUBSET Cards] /\ timers \subseteq Players /\ settled \in Nat
  BY DEF TypeOK, PresenceOK, ThreadsOK, StoreOK, HistoryOK
<1> USE <1>z DEF AllIdle
<1>0. ASSUME Deal, AllIdle, pc' = pc, timers' = {} PROVE BidInv'
  <2>1. /\ bottom' # {} /\ \A p \in Players : hand'[p] # {}
        /\ order' # << >>
    BY <1>0, DealtOut, SeatsAreTaken
  <2>2. PICK p \in Players : client' = Shown(Players, "watch", p, "bid")
    BY <1>0, SeatsAreTaken DEF Deal
  <2>3. \A q \in Players : client'[q] # "play"
    BY <2>2 DEF ClientInv, Shown
  <2>4. phase' = "" /\ settled' = 0 /\ played' = {} /\ fouls' = {}
    BY <1>0 DEF Deal
  <2> QED BY <1>0, <2>1, <2>3, <2>4 DEF BidInv
<1>x. ASSUME ~(order # << >> /\ phase = ""), order' = order, phase' = phase,
             \A p \in Players : client'[p] = "bid" => client[p] = "bid"
      PROVE  BidInv'
  BY <1>x DEF BidInv
<1>w. ASSUME NEW t \in Threads, pc[t] # "idle", UNCHANGED store,
             \A p \in Players : client'[p] = "bid" => client[p] = "bid"
      PROVE  BidInv'
  BY <1>w, <1>x DEF BidInv, store
<1>1. CASE ReadyForPlay
  <2>1. Deal /\ timers' = {} /\ pc' = pc /\ AllIdle
    BY <1>1 DEF ReadyForPlay, StartGame, run
  <2> QED BY <1>0, <2>1
<1>2. ASSUME NEW p \in Players, NEW bet \in Bets, GrabLord(p, bet) PROVE BidInv'
  <2>0. AllIdle /\ pc' = pc /\ order # << >> /\ phase = ""
    BY <1>2 DEF GrabLord, run, BidInv
  <2>1. CASE NextBid(p)
    BY <2>0, <2>1 DEF NextBid, store, history, BidInv
  <2>2. CASE Deal /\ timers' = timers
    BY <2>0, <2>2, <1>0 DEF BidInv
  <2>3. CASE TooFew
    BY <2>0, <2>3 DEF TooFew, Shown, BidInv, ClientInv
  <2>4. ASSUME NEW q, LordDetermined(q), q \in Players PROVE BidInv'
    BY <2>0, <2>4 DEF LordDetermined, Shown, BidInv, ClientInv
  <2> QED BY <1>2, <2>1, <2>2, <2>3, <2>4, BidType DEF GrabLord
<1>3. ASSUME NEW p \in Players, NEW C \in SUBSET hand[p], Play(p, C) PROVE BidInv'
  BY <1>3, <1>x DEF Play, BidInv, Told, store
<1>4. ASSUME NEW t \in Threads, ReadHand(t) PROVE BidInv'
  BY <1>4, <1>w DEF ReadHand
<1>5. ASSUME NEW t \in Threads, WriteHand(t) PROVE BidInv'
  BY <1>5, <1>w DEF WriteHand
<1>6. ASSUME NEW t \in Threads, EndGame(t) PROVE BidInv'
  BY <1>6, <1>w DEF EndGame, Shown
<1>7. ASSUME NEW t \in Threads, GameGoesOn(t) PROVE BidInv'
  BY <1>7, <1>w DEF GameGoesOn
<1>8. ASSUME NEW t \in Threads, PassTurn(t) PROVE BidInv'
  BY <1>8, <1>w DEF PassTurn
<1>9. ASSUME NEW t \in Threads, AINothing(t) PROVE BidInv'
  BY <1>9, <1>w DEF AINothing
<1>10. ASSUME NEW t \in Threads, AIMove(t) PROVE BidInv'
  BY <1>10, <1>w DEF AIMove
<1>11. ASSUME NEW t \in Threads, AITell(t) PROVE BidInv'
  BY <1>11, <1>w DEF AITell, Told
<1>12. ASSUME NEW t \in Threads, Chain(t) PROVE BidInv'
  BY <1>12, <1>w DEF Chain
<1>13. ASSUME NEW X \in SUBSET timers, Collect(X) PROVE BidInv'
  BY <1>13, <1>x DEF Collect, BidInv, store, history, run
<1>14. ASSUME NEW p \in expired, HandleTimeout(p) PROVE BidInv'
  BY <1>14, <1>w DEF HandleTimeout, Threads
<1>15. CASE CheckNextPlayer
  BY <1>15, <1>w DEF CheckNextPlayer, Threads
<1>16. ASSUME NEW p \in Players, Drop(p) PROVE BidInv'
  BY <1>16 DEF Drop, store, run, history, BidInv
<1>17. ASSUME NEW p \in Players, HeartbeatLost(p) PROVE BidInv'
  BY <1>17 DEF HeartbeatLost, store, run, history, BidInv
<1>18. ASSUME NEW p \in Players, DropSuperseded(p) PROVE BidInv'
  BY <1>18 DEF DropSuperseded, store, run, history, BidInv
<1>19. ASSUME NEW p \in Players, Reconnect(p) PROVE BidInv'
  BY <1>19 DEF Reconnect, Resync, store, run, history, BidInv
<1>20. ASSUME NEW p \in Players, Continue(p) PROVE BidInv'
  <2>1. CASE StartGame
    BY <1>20, <2>1, <1>0 DEF Continue, StartGame, run
  <2>2. CASE ~StartGame
    BY <1>20, <2>2 DEF Continue, StartGame, ClientInv, store, run, history, BidInv
  <2> QED BY <2>1, <2>2
<1>21. ASSUME NEW p \in Players, GameOver(p) PROVE BidInv'
  <2>0. client[p] = "over"
    BY <1>21 DEF GameOver
  <2>1. settled > 0
    BY <2>0 DEF ClientInv
  <2>2. settled # 0
    BY <2>1
  <2>3. ~(order # << >> /\ phase = "")
    BY <2>2 DEF BidInv
  <2>4. order' = << >> /\ phase' = "" /\ client' = client
    BY <1>21 DEF GameOver
  <2> QED BY <2>3, <2>4 DEF BidInv
<1>22. ASSUME NEW p \in Players, LeaveRoom(p) PROVE BidInv'
  BY <1>22 DEF LeaveRoom, store, run, history, BidInv
<1>23. CASE UNCHANGED vars
  BY <1>23 DEF vars, store, run, history, BidInv
<1> QED
  BY <1>1, <1>2, <1>3, <1>4, <1>5, <1>6, <1>7, <1>8, <1>9, <1>10, <1>11, <1>12, <1>13,
    <1>14, <1>15, <1>16, <1>17, <1>18, <1>19, <1>20, <1>21, <1>22, <1>23
  DEF Next, Bidding, Playing, Handlers, Timeouts, Faults, Returning

\* A client that has gone is gone from the room until it comes back
\* (~Communication, handleLeaveRoom, handleReconnectRequest, restartGame).
LEMMA ClientStep ==
  ASSUME TypeOK, Patient', BidInv, ClientInv, [Next]_vars
  PROVE  ClientInv'
<1>b. Begin => AllIdle
  BY Waits
<1> USE <1>b
<1>z. /\ client \in [Players -> Doings] /\ pc \in [Threads -> Steps]
      /\ timers \subseteq Players /\ settled \in Nat /\ deals \in Nat
      /\ members \subseteq Players /\ conn \subseteq Players
  BY DEF TypeOK, PresenceOK, ThreadsOK, HistoryOK
<1> USE <1>z DEF AllIdle
<1>0. ASSUME Deal, members' = Players, conn' = conn,
             \A p \in Players : client[p] # "left"
      PROVE  ClientInv'
  <2>0. deals' = deals + 1 /\ settled' = 0
    BY <1>0 DEF Deal
  <2>1. deals' # 0
    BY <2>0
  <2>2. PICK p \in Players : client' = Shown(Players, "watch", p, "bid")
    BY <1>0, SeatsAreTaken DEF Deal
  <2>3. \A q \in Players : IF q \in conn THEN client'[q] \in {"watch", "bid"}
                                         ELSE client'[q] = client[q]
    BY <2>2 DEF Shown
  <2>4. \A q \in Players : q \notin conn => client'[q] = "out" \/ client'[q] = "left"
    BY <2>3 DEF ClientInv
  <2> QED BY <1>0, <2>0, <2>1, <2>3, <2>4 DEF ClientInv
<1>x. ASSUME deals # 0, deals' = deals, settled' = settled,
             conn' = conn, members' = members,
             \A p \in Players : \/ client'[p] = client[p]
                                \/ p \in conn /\ client'[p] \in {"play", "watch"}
                                     /\ client[p] \in {"play", "watch"}
      PROVE  ClientInv'
  BY <1>x DEF ClientInv
<1>w. ASSUME NEW t \in Threads, pc[t] # "idle", deals' = deals, settled' = settled,
             conn' = conn, members' = members,
             \A p \in Players : \/ client'[p] = client[p]
                                \/ p \in conn /\ client'[p] \in {"play", "watch"}
                                     /\ client[p] \in {"play", "watch"}
      PROVE  ClientInv'
  BY <1>w, <1>x DEF ClientInv
<1>1. CASE ReadyForPlay
  BY <1>1, <1>0 DEF ReadyForPlay, StartGame, net, ClientInv
<1>2. ASSUME NEW p \in Players, NEW bet \in Bets, GrabLord(p, bet) PROVE ClientInv'
  <2>0. /\ deals # 0 /\ settled = 0
        /\ members' = members /\ conn' = conn
    BY <1>2 DEF GrabLord, net, BidInv, ClientInv
  <2>1. CASE NextBid(p)
    BY <2>0, <2>1, <1>2 DEF GrabLord, NextBid, history, ClientInv
  <2>2. CASE Deal /\ members = Players
    BY <2>0, <2>2, <1>0 DEF ClientInv
  <2>3. CASE TooFew
    BY <2>0, <2>3 DEF TooFew, Shown, history, ClientInv
  <2>4. ASSUME NEW q, LordDetermined(q), q \in Players PROVE ClientInv'
    BY <2>0, <2>4 DEF LordDetermined, Shown, ClientInv
  <2> QED BY <1>2, <2>1, <2>2, <2>3, <2>4, BidType DEF GrabLord
<1>3. ASSUME NEW p \in Players, NEW C \in SUBSET hand[p], Play(p, C) PROVE ClientInv'
  <2>1. deals # 0
    BY <1>3 DEF Play, ClientInv
  <2> QED BY <1>3, <2>1, <1>x DEF Play, Told, net
<1>4. ASSUME NEW t \in Threads, ReadHand(t) PROVE ClientInv'
  BY <1>4, <1>w DEF ReadHand, net, history
<1>5. ASSUME NEW t \in Threads, WriteHand(t) PROVE ClientInv'
  BY <1>5, <1>w DEF WriteHand, net, history
<1>6. ASSUME NEW t \in Threads, EndGame(t) PROVE ClientInv'
  <2>1. deals # 0 /\ settled + 1 > 0
    BY <1>6 DEF EndGame, ClientInv
  <2> QED BY <1>6, <2>1 DEF EndGame, Shown, ClientInv
<1>7. ASSUME NEW t \in Threads, GameGoesOn(t) PROVE ClientInv'
  BY <1>7, <1>w DEF GameGoesOn, net, history
<1>8. ASSUME NEW t \in Threads, PassTurn(t) PROVE ClientInv'
  BY <1>8, <1>w DEF PassTurn, net, history
<1>9. ASSUME NEW t \in Threads, AINothing(t) PROVE ClientInv'
  BY <1>9, <1>w DEF AINothing, net, history
<1>10. ASSUME NEW t \in Threads, AIMove(t) PROVE ClientInv'
  BY <1>10, <1>w DEF AIMove, net, history
<1>11. ASSUME NEW t \in Threads, AITell(t) PROVE ClientInv'
  BY <1>11, <1>w DEF AITell, Told, net, history
<1>12. ASSUME NEW t \in Threads, Chain(t) PROVE ClientInv'
  BY <1>12, <1>w DEF Chain, net, history
<1>13. ASSUME NEW X \in SUBSET timers, Collect(X) PROVE ClientInv'
  <2>1. deals # 0
    BY <1>13 DEF Collect, ClientInv
  <2> QED BY <1>13, <2>1, <1>x DEF Collect, net, history
<1>14. ASSUME NEW p \in expired, HandleTimeout(p) PROVE ClientInv'
  BY <1>14, <1>w DEF HandleTimeout, net, history, Threads
<1>15. CASE CheckNextPlayer
  BY <1>15, <1>w DEF CheckNextPlayer, net, history, Threads
<1>16. ASSUME NEW p \in Players, Drop(p) PROVE ClientInv'
  BY <1>16 DEF Drop, store, run, history, net, ClientInv
<1>17. ASSUME NEW p \in Players, HeartbeatLost(p) PROVE ClientInv'
  BY <1>17 DEF HeartbeatLost, store, run, history, net, ClientInv
<1>18. ASSUME NEW p \in Players, DropSuperseded(p) PROVE ClientInv'
  BY <1>18 DEF DropSuperseded, store, run, history, net, ClientInv
<1>19. ASSUME NEW p \in Players, Reconnect(p) PROVE ClientInv'
  <2>1. phase # "" => phase = "playing"
    BY DEF TypeOK, StoreOK
  <2> QED BY <2>1, <1>19 DEF Reconnect, Resync, store, run, history, ClientInv, BidInv
<1>20. ASSUME NEW p \in Players, Continue(p) PROVE ClientInv'
  <2>0. /\ settled > 0 /\ deals # 0 /\ p \in Players
        /\ conn' = conn /\ client[p] = "over" /\ p \in conn
    BY <1>20 DEF Continue, ClientInv, net
  <2>1. CASE StartGame /\ members' = Players
    <3>1. members' \subseteq members \cup {p}
      BY <1>20 DEF Continue
    <3>2. \A q \in Players : client[q] # "left"
      BY <2>0, <2>1, <3>1 DEF ClientInv
    <3> QED BY <2>0, <2>1, <3>2, <1>0 DEF StartGame
  <2>2. CASE ~(StartGame /\ members' = Players)
    <3>1. /\ client' = [client EXCEPT ![p] = "wait"] /\ deals' = deals /\ settled' = settled
          /\ members' \subseteq members \cup {p}
      BY <1>20, <2>2 DEF Continue, history
    <3> QED BY <2>0, <3>1 DEF ClientInv
  <2> QED BY <2>1, <2>2
<1>21. ASSUME NEW p \in Players, GameOver(p) PROVE ClientInv'
  <2>0. client[p] = "over"
    BY <1>21 DEF GameOver
  <2>1. settled > 0 /\ deals # 0
    BY <2>0 DEF ClientInv
  <2>2. settled' \in {settled, settled + 1}
    BY <1>21 DEF GameOver
  <2>3. settled' > 0
    BY <2>1, <2>2
  <2>4. client' = client /\ conn' = conn /\ deals' = deals
    BY <1>21 DEF GameOver, net
  <2>5. members' = members
    BY <1>21 DEF GameOver
  <2> QED BY <2>1, <2>3, <2>4, <2>5 DEF ClientInv
<1>22. ASSUME NEW p \in Players, LeaveRoom(p) PROVE ClientInv'
  <2>1. deals # 0 /\ settled' = settled
    BY <1>22 DEF LeaveRoom, history
  <2> QED BY <1>22, <2>1 DEF LeaveRoom, ClientInv, net, history
<1>23. CASE UNCHANGED vars
  BY <1>23 DEF vars, store, run, history, net, ClientInv
<1> QED
  BY <1>1, <1>2, <1>3, <1>4, <1>5, <1>6, <1>7, <1>8, <1>9, <1>10, <1>11, <1>12, <1>13,
    <1>14, <1>15, <1>16, <1>17, <1>18, <1>19, <1>20, <1>21, <1>22, <1>23
  DEF Next, Bidding, Playing, Handlers, Timeouts, Faults, Returning
-----------------------------------------------------------------------------
-----------------------------------------------------------------------------
\* A thread takes out of a hand what is in it, and knows the hand it writes back.
RemovalInv ==
  \A t \in Threads :
    /\ pc[t] \in {"remove", "write"} => cards[t] \subseteq hand[who[t]]
    /\ pc[t] = "write" => got[t] = hand[who[t]]

\* While one thread at a time is at work the hands do not change behind its back
\* (removeCardFromPlayer, dealCards, addCardsToPlayer).
LEMMA RemovalStep ==
  ASSUME TypeOK, Patient', ThreadInv, RemovalInv, [Next]_vars
  PROVE  RemovalInv'
<1>b. Begin => AllIdle
  BY Waits
<1>t. /\ pc \in [Threads -> Steps] /\ who \in [Threads -> Players \cup {NoOne}]
      /\ cards \in [Threads -> SUBSET Cards] /\ got \in [Threads -> SUBSET Cards]
      /\ hand \in [Players -> SUBSET Cards] /\ Players \subseteq Threads
      /\ \A t \in Threads : pc[t] \notin {"idle", "expire"} => who[t] \in Players
  BY DEF TypeOK, ThreadsOK, StoreOK, Threads
<1>c. Checker \in Threads
  BY DEF Threads
<1>0. ASSUME AllIdle, pc' = pc PROVE RemovalInv'
  BY <1>0 DEF AllIdle, RemovalInv
<1>u. ASSUME UNCHANGED <<hand, pc, who, cards, got>> PROVE RemovalInv'
  BY <1>u DEF RemovalInv
<1>w. ASSUME NEW t \in Threads, hand' = hand,
             \A u \in Threads \ {t} : pc'[u] = pc[u] /\ who'[u] = who[u]
                                      /\ cards'[u] = cards[u] /\ got'[u] = got[u],
             pc'[t] \in {"remove", "write"} => cards'[t] \subseteq hand[who'[t]],
             pc'[t] = "write" => got'[t] = hand[who'[t]]
      PROVE  RemovalInv'
  <2> SUFFICES ASSUME NEW u \in Threads
               PROVE  /\ pc'[u] \in {"remove", "write"} => cards'[u] \subseteq hand'[who'[u]]
                      /\ pc'[u] = "write" => got'[u] = hand'[who'[u]]
    BY DEF RemovalInv
  <2>1. CASE u = t
    BY <1>w, <2>1
  <2>2. CASE u # t
    BY <1>w, <2>2 DEF RemovalInv
  <2> QED BY <2>1, <2>2
<1>1. CASE ReadyForPlay
  BY <1>1, <1>0 DEF ReadyForPlay, run
<1>2. ASSUME NEW p \in Players, NEW bet \in Bets, GrabLord(p, bet) PROVE RemovalInv'
  BY <1>2, <1>0, <1>b DEF GrabLord, run
<1>3. ASSUME NEW p \in Players, NEW C \in SUBSET hand[p], Play(p, C) PROVE RemovalInv'
  <2>1. /\ hand' = hand /\ who'[p] = p /\ cards'[p] = C
        /\ pc'[p] \in {"next", "remove"} /\ p \in Threads
        /\ \A u \in Threads \ {p} : pc'[u] = pc[u] /\ who'[u] = who[u]
                                    /\ cards'[u] = cards[u] /\ got'[u] = got[u]
    BY <1>3, <1>t DEF Play, Goto
  <2> QED BY <2>1, <1>w
<1>4. ASSUME NEW t \in Threads, ReadHand(t) PROVE RemovalInv'
  <2>1. /\ hand' = hand /\ who' = who /\ cards[t] \subseteq hand[who[t]]
        /\ cards'[t] \subseteq cards[t] /\ (pc'[t] = "write" => got'[t] = hand[who[t]])
        /\ \A u \in Threads \ {t} : pc'[u] = pc[u] /\ cards'[u] = cards[u] /\ got'[u] = got[u]
    BY <1>4, <1>t DEF ReadHand, Goto, RemovalInv
  <2> QED BY <2>1, <1>w
<1>5. ASSUME NEW t \in Threads, WriteHand(t) PROVE RemovalInv'
  <2>1. /\ pc[t] = "write" /\ who[t] \in Players /\ got[t] = hand[who[t]]
        /\ cards[t] \subseteq hand[who[t]]
    BY <1>5, <1>t DEF WriteHand, RemovalInv
  <2>2. PICK c \in cards[t] :
          /\ cards' = [cards EXCEPT ![t] = @ \ {c}]
          /\ hand' = IF c \in got[t] THEN [hand EXCEPT ![who[t]] = got[t] \ {c}] ELSE hand
    BY <1>5 DEF WriteHand
  <2>3. /\ hand'[who[t]] = hand[who[t]] \ {c} /\ cards'[t] = cards[t] \ {c}
        /\ who' = who /\ pc'[t] = "remove" /\ \A u \in Threads \ {t} : pc'[u] = pc[u]
    BY <1>5, <2>1, <2>2, <1>t DEF WriteHand, Goto
  <2>4. \A u \in Threads \ {t} : pc'[u] = "idle"
    BY <2>1, <2>3 DEF ThreadInv
  <2> QED BY <2>1, <2>3, <2>4 DEF RemovalInv
<1>6. ASSUME NEW t \in Threads, EndGame(t) PROVE RemovalInv'
  <2>1. /\ hand' = hand /\ pc'[t] \notin {"remove", "write"}
        /\ \A u \in Threads \ {t} : pc'[u] = pc[u] /\ who'[u] = who[u]
                                    /\ cards'[u] = cards[u] /\ got'[u] = got[u]
    BY <1>6, <1>t DEF EndGame, Goto, Return
  <2> QED BY <2>1, <1>w
<1>7. ASSUME NEW t \in Threads, GameGoesOn(t) PROVE RemovalInv'
  <2>1. /\ hand' = hand /\ pc'[t] \notin {"remove", "write"}
        /\ \A u \in Threads \ {t} : pc'[u] = pc[u] /\ who'[u] = who[u]
                                    /\ cards'[u] = cards[u] /\ got'[u] = got[u]
    BY <1>7, <1>t DEF GameGoesOn, Goto, Return
  <2> QED BY <2>1, <1>w
<1>8. ASSUME NEW t \in Threads, PassTurn(t) PROVE RemovalInv'
  <2>1. /\ hand' = hand /\ pc'[t] \notin {"remove", "write"}
        /\ \A u \in Threads \ {t} : pc'[u] = pc[u] /\ who'[u] = who[u]
                                    /\ cards'[u] = cards[u] /\ got'[u] = got[u]
    BY <1>8, <1>t DEF PassTurn, Goto, Return
  <2> QED BY <2>1, <1>w
<1>9. ASSUME NEW t \in Threads, AINothing(t) PROVE RemovalInv'
  <2>1. /\ hand' = hand /\ pc'[t] \notin {"remove", "write"}
        /\ \A u \in Threads \ {t} : pc'[u] = pc[u] /\ who'[u] = who[u]
                                    /\ cards'[u] = cards[u] /\ got'[u] = got[u]
    BY <1>9, <1>t DEF AINothing, Goto, Return
  <2> QED BY <2>1, <1>w
<1>10. ASSUME NEW t \in Threads, AIMove(t) PROVE RemovalInv'
  <2>1. /\ hand' = hand /\ who' = who /\ got' = got
        /\ pc'[t] = "remove" => cards'[t] = Smallest(hand[who[t]])
        /\ pc'[t] \in {"remove", "tell"}
        /\ \A u \in Threads \ {t} : pc'[u] = pc[u] /\ cards'[u] = cards[u]
    BY <1>10, <1>t DEF AIMove, Goto
  <2>2. Smallest(hand[who[t]]) \subseteq hand[who[t]]
    BY DEF Smallest
  <2> QED BY <2>1, <2>2, <1>w
<1>11. ASSUME NEW t \in Threads, AITell(t) PROVE RemovalInv'
  <2>1. /\ hand' = hand /\ pc'[t] \notin {"remove", "write"}
        /\ \A u \in Threads \ {t} : pc'[u] = pc[u] /\ who'[u] = who[u]
                                    /\ cards'[u] = cards[u] /\ got'[u] = got[u]
    BY <1>11, <1>t DEF AITell, Goto, Return
  <2> QED BY <2>1, <1>w
<1>12. ASSUME NEW t \in Threads, Chain(t) PROVE RemovalInv'
  <2>1. /\ hand' = hand /\ pc'[t] \notin {"remove", "write"}
        /\ \A u \in Threads \ {t} : pc'[u] = pc[u] /\ who'[u] = who[u]
                                    /\ cards'[u] = cards[u] /\ got'[u] = got[u]
    BY <1>12, <1>t DEF Chain, Goto, Return
  <2> QED BY <2>1, <1>w
<1>13. ASSUME NEW X \in SUBSET timers, Collect(X) PROVE RemovalInv'
  <2>1. /\ hand' = hand /\ pc'[Checker] \notin {"remove", "write"}
        /\ \A u \in Threads \ {Checker} : pc'[u] = pc[u] /\ who'[u] = who[u]
                                    /\ cards'[u] = cards[u] /\ got'[u] = got[u]
    BY <1>13, <1>t, <1>c DEF Collect, Goto, Return
  <2> QED BY <2>1, <1>w, <1>c
<1>14. ASSUME NEW p \in expired, HandleTimeout(p) PROVE RemovalInv'
  <2>1. /\ hand' = hand /\ pc'[Checker] \notin {"remove", "write"}
        /\ \A u \in Threads \ {Checker} : pc'[u] = pc[u] /\ who'[u] = who[u]
                                    /\ cards'[u] = cards[u] /\ got'[u] = got[u]
    BY <1>14, <1>t, <1>c DEF HandleTimeout, Goto, Return
  <2> QED BY <2>1, <1>w, <1>c
<1>15. CASE CheckNextPlayer
  <2>1. /\ hand' = hand /\ pc'[Checker] \notin {"remove", "write"}
        /\ \A u \in Threads \ {Checker} : pc'[u] = pc[u] /\ who'[u] = who[u]
                                    /\ cards'[u] = cards[u] /\ got'[u] = got[u]
    BY <1>15, <1>t, <1>c DEF CheckNextPlayer, Goto, Return
  <2> QED BY <2>1, <1>w, <1>c
<1>16. ASSUME NEW p \in Players, Drop(p) PROVE RemovalInv'
  BY <1>16, <1>u DEF Drop, run
<1>17. ASSUME NEW p \in Players, HeartbeatLost(p) PROVE RemovalInv'
  BY <1>17, <1>u DEF HeartbeatLost, run
<1>18. ASSUME NEW p \in Players, DropSuperseded(p) PROVE RemovalInv'
  BY <1>18, <1>u DEF DropSuperseded, run
<1>19. ASSUME NEW p \in Players, Reconnect(p) PROVE RemovalInv'
  BY <1>19, <1>u DEF Reconnect, run
<1>20. ASSUME NEW p \in Players, Continue(p) PROVE RemovalInv'
  BY <1>20, <1>0, <1>b DEF Continue, run
<1>21. ASSUME NEW p \in Players, GameOver(p) PROVE RemovalInv'
  BY <1>21, <1>0, <1>b DEF GameOver, run
<1>22. ASSUME NEW p \in Players, LeaveRoom(p) PROVE RemovalInv'
  BY <1>22, <1>u DEF LeaveRoom, run
<1>23. CASE UNCHANGED vars
  BY <1>23, <1>u DEF vars, run
<1> QED
  BY <1>1, <1>2, <1>3, <1>4, <1>5, <1>6, <1>7, <1>8, <1>9, <1>10, <1>11, <1>12, <1>13,
    <1>14, <1>15, <1>16, <1>17, <1>18, <1>19, <1>20, <1>21, <1>22, <1>23
  DEF Next, Bidding, Playing, Handlers, Timeouts, Faults, Returning
-----------------------------------------------------------------------------
\* Who has played the last card is about to be scored, or was, or has left.
AboutToScore == \E t \in Threads : pc[t] = "remove" /\ cards[t] = {}
ScoredInv ==
  /\ settled # 0 => \E p \in Players : hand[p] = {}
  /\ phase = "playing" /\ settled = 0 /\ (\E p \in members : hand[p] = {}) => AboutToScore


\* Nobody in the room runs out of cards and nobody is scored, and nobody is
\* scored while all have cards (removeCardFromPlayer, checkAndHandleGameEnd).
LEMMA ScoredStep ==
  ASSUME TypeOK, Patient', ThreadInv, BidInv, ClientInv, RemovalInv, ScoredInv, [Next]_vars
  PROVE  ScoredInv'
<1>b. Begin => AllIdle
  BY Waits
<1> USE <1>b
<1>t. /\ pc \in [Threads -> Steps] /\ who \in [Threads -> Players \cup {NoOne}]
      /\ cards \in [Threads -> SUBSET Cards] /\ got \in [Threads -> SUBSET Cards]
      /\ hand \in [Players -> SUBSET Cards] /\ Players \subseteq Threads
      /\ \A t \in Threads : pc[t] \notin {"idle", "expire"} => who[t] \in Players
      /\ members \subseteq Players /\ Checker \in Threads
  BY DEF TypeOK, ThreadsOK, StoreOK, PresenceOK, Threads
<1>n. settled \in Nat
  BY DEF TypeOK, HistoryOK
<1>0. ASSUME Deal PROVE ScoredInv'
  <2>1. phase' = "" /\ settled' = 0
    BY <1>0 DEF Deal
  <2> QED BY <2>1 DEF ScoredInv
<1>u. ASSUME UNCHANGED <<hand, settled, phase, pc, cards>>, members' \subseteq members
      PROVE  ScoredInv'
  BY <1>u DEF ScoredInv, AboutToScore
<1>w. ASSUME NEW t \in Threads, pc[t] # "remove" \/ cards[t] # {},
             UNCHANGED <<hand, settled, phase, members>>,
             \A u \in Threads \ {t} : pc'[u] = pc[u] /\ cards'[u] = cards[u]
      PROVE  ScoredInv'
  <2>1. AboutToScore => AboutToScore'
    BY <1>w DEF AboutToScore
  <2> QED BY <1>w, <2>1 DEF ScoredInv
<1>1. CASE ReadyForPlay
  BY <1>1, <1>0 DEF ReadyForPlay, StartGame, run
<1>2. ASSUME NEW p \in Players, NEW bet \in Bets, GrabLord(p, bet) PROVE ScoredInv'
  <2>0. /\ order # << >> /\ phase = "" /\ settled = 0 /\ pc' = pc /\ cards' = cards
        /\ members' = members /\ \A q \in Players : hand[q] # {}
    BY <1>2 DEF GrabLord, BidInv, run
  <2>1. CASE NextBid(p)
    BY <2>0, <2>1, <1>u DEF NextBid, store, history
  <2>2. CASE Deal
    BY <2>2, <1>0
  <2>3. CASE TooFew
    BY <2>0, <2>3 DEF TooFew, history, ScoredInv
  <2>4. ASSUME NEW q, LordDetermined(q), q \in Players PROVE ScoredInv'
    <3>1. settled' = 0 /\ \A r \in Players : hand'[r] # {}
      BY <2>0, <2>4, <1>t DEF LordDetermined
    <3> QED BY <2>0, <3>1, <1>t DEF ScoredInv
  <2> QED BY <1>2, <2>1, <2>2, <2>3, <2>4, BidType DEF GrabLord
<1>3. ASSUME NEW p \in Players, NEW C \in SUBSET hand[p], Play(p, C) PROVE ScoredInv'
  <2>1. /\ UNCHANGED <<hand, settled, phase, members>>
        /\ \A u \in Threads \ {p} : pc'[u] = pc[u] /\ cards'[u] = cards[u]
        /\ pc[p] = "idle"
    BY <1>3, <1>t DEF Play, Goto, Return, store, history
  <2> QED BY <2>1, <1>t, <1>w
<1>4. ASSUME NEW t \in Threads, ReadHand(t) PROVE ScoredInv'
  <2>1. /\ pc[t] = "remove" /\ cards[t] # {} /\ UNCHANGED <<hand, settled, phase, members>>
        /\ \A u \in Threads \ {t} : pc'[u] = pc[u] /\ cards'[u] = cards[u]
    BY <1>4, <1>t DEF ReadHand, Goto, Return, store, history
  <2> QED BY <2>1, <1>w
<1>5. ASSUME NEW t \in Threads, WriteHand(t) PROVE ScoredInv'
  <2>1. /\ pc[t] = "write" /\ who[t] \in Players /\ got[t] = hand[who[t]]
        /\ cards[t] \subseteq hand[who[t]]
    BY <1>5, <1>t DEF WriteHand, RemovalInv
  <2>2. PICK c \in cards[t] :
          /\ cards' = [cards EXCEPT ![t] = @ \ {c}]
          /\ hand' = IF c \in got[t] THEN [hand EXCEPT ![who[t]] = got[t] \ {c}] ELSE hand
    BY <1>5 DEF WriteHand
  <2>3. /\ UNCHANGED <<settled, phase, members>> /\ pc'[t] = "remove"
        /\ cards'[t] = cards[t] \ {c}
        /\ \A q \in Players \ {who[t]} : hand'[q] = hand[q]
        /\ hand'[who[t]] = hand[who[t]] \ {c} /\ hand[who[t]] # {}
    BY <1>5, <2>1, <2>2, <1>t DEF WriteHand, Goto, store, history
  <2>4. hand'[who[t]] = {} => AboutToScore'
    BY <2>1, <2>3 DEF AboutToScore
  <2>5. AboutToScore => \E u \in Threads : pc[u] = "remove"
    BY DEF AboutToScore
  <2>6. ~AboutToScore
    BY <2>1, <2>5 DEF ThreadInv
  <2>7. settled # 0 => \E p \in Players : hand'[p] = {}
    BY <2>3 DEF ScoredInv
  <2>8. phase = "playing" /\ settled = 0 => \A p \in members : hand[p] # {}
    BY <2>6 DEF ScoredInv
  <2>9. phase = "playing" /\ settled = 0 /\ (\E p \in members : hand'[p] = {}) => AboutToScore'
    BY <2>3, <2>4, <2>8, <1>t
  <2> QED BY <2>3, <2>7, <2>9 DEF ScoredInv
<1>6. ASSUME NEW t \in Threads, EndGame(t) PROVE ScoredInv'
  <2>1. settled' = settled + 1 /\ hand' = hand
    BY <1>6 DEF EndGame
  <2>2. settled' # 0
    BY <2>1, <1>n
  <2>3. \E p \in Players : hand[p] = {}
    BY <1>6 DEF EndGame, HasWon
  <2> QED BY <2>1, <2>2, <2>3 DEF ScoredInv
<1>7. ASSUME NEW t \in Threads, GameGoesOn(t) PROVE ScoredInv'
  <2>1. /\ UNCHANGED <<hand, settled, phase, members>>
        /\ phase = "playing" => \A w \in members : hand[w] # {}
    BY <1>7, <1>t DEF GameGoesOn, HasWon, store, history
  <2> QED BY <2>1 DEF ScoredInv
<1>8. ASSUME NEW t \in Threads, PassTurn(t) PROVE ScoredInv'
  <2>1. /\ UNCHANGED <<hand, settled, phase, members>>
        /\ \A u \in Threads \ {t} : pc'[u] = pc[u] /\ cards'[u] = cards[u]
        /\ pc[t] # "remove"
    BY <1>8, <1>t DEF PassTurn, Goto, Return, store, history
  <2> QED BY <2>1, <1>w
<1>9. ASSUME NEW t \in Threads, AINothing(t) PROVE ScoredInv'
  <2>1. /\ UNCHANGED <<hand, settled, phase, members>>
        /\ \A u \in Threads \ {t} : pc'[u] = pc[u] /\ cards'[u] = cards[u]
        /\ pc[t] # "remove"
    BY <1>9, <1>t DEF AINothing, Goto, Return, store, history
  <2> QED BY <2>1, <1>w
<1>10. ASSUME NEW t \in Threads, AIMove(t) PROVE ScoredInv'
  <2>1. /\ UNCHANGED <<hand, settled, phase, members>>
        /\ \A u \in Threads \ {t} : pc'[u] = pc[u] /\ cards'[u] = cards[u]
        /\ pc[t] # "remove"
    BY <1>10, <1>t DEF AIMove, Goto, store
  <2> QED BY <2>1, <1>w
<1>11. ASSUME NEW t \in Threads, AITell(t) PROVE ScoredInv'
  <2>1. /\ UNCHANGED <<hand, settled, phase, members>>
        /\ \A u \in Threads \ {t} : pc'[u] = pc[u] /\ cards'[u] = cards[u]
        /\ pc[t] # "remove"
    BY <1>11, <1>t DEF AITell, Goto, Return, store, history
  <2> QED BY <2>1, <1>w
<1>12. ASSUME NEW t \in Threads, Chain(t) PROVE ScoredInv'
  <2>1. /\ UNCHANGED <<hand, settled, phase, members>>
        /\ \A u \in Threads \ {t} : pc'[u] = pc[u] /\ cards'[u] = cards[u]
        /\ pc[t] # "remove"
    BY <1>12, <1>t DEF Chain, Goto, Return, store, history
  <2> QED BY <2>1, <1>w
<1>13. ASSUME NEW X \in SUBSET timers, Collect(X) PROVE ScoredInv'
  <2>1. /\ UNCHANGED <<hand, settled, phase, members>>
        /\ \A u \in Threads \ {Checker} : pc'[u] = pc[u] /\ cards'[u] = cards[u]
        /\ pc[Checker] # "remove"
    BY <1>13, <1>t DEF Collect, Goto, Return, store, history
  <2> QED BY <2>1, <1>w, <1>t
<1>14. ASSUME NEW p \in expired, HandleTimeout(p) PROVE ScoredInv'
  <2>1. /\ UNCHANGED <<hand, settled, phase, members>>
        /\ \A u \in Threads \ {Checker} : pc'[u] = pc[u] /\ cards'[u] = cards[u]
        /\ pc[Checker] # "remove"
    BY <1>14, <1>t DEF HandleTimeout, Goto, Return, store, history
  <2> QED BY <2>1, <1>w, <1>t
<1>15. CASE CheckNextPlayer
  <2>1. /\ UNCHANGED <<hand, settled, phase, members>>
        /\ \A u \in Threads \ {Checker} : pc'[u] = pc[u] /\ cards'[u] = cards[u]
        /\ pc[Checker] # "remove"
    BY <1>15, <1>t DEF CheckNextPlayer, Goto, Return, store, history
  <2> QED BY <2>1, <1>w, <1>t
<1>16. ASSUME NEW p \in Players, Drop(p) PROVE ScoredInv'
  BY <1>16, <1>u DEF Drop, store, run, history, net
<1>17. ASSUME NEW p \in Players, HeartbeatLost(p) PROVE ScoredInv'
  BY <1>17, <1>u DEF HeartbeatLost, store, run, history, net
<1>18. ASSUME NEW p \in Players, DropSuperseded(p) PROVE ScoredInv'
  BY <1>18, <1>u DEF DropSuperseded, store, run, history, net
<1>19. ASSUME NEW p \in Players, Reconnect(p) PROVE ScoredInv'
  <2>1. /\ UNCHANGED <<hand, settled, phase, pc, cards>>
        /\ settled = 0 => members' = members
    BY <1>19 DEF Reconnect, ClientInv, store, run, history
  <2> QED BY <2>1 DEF ScoredInv, AboutToScore
<1>20. ASSUME NEW p \in Players, Continue(p) PROVE ScoredInv'
  <2>1. CASE Deal
    BY <2>1, <1>0
  <2>2. CASE ~Deal
    <3>1. client[p] = "over" /\ p \in Players
      BY <1>20 DEF Continue
    <3>2. settled # 0
      BY <3>1, <1>n DEF ClientInv
    <3>3. UNCHANGED <<hand, settled>>
      BY <1>20, <2>2 DEF Continue, StartGame, history
    <3> QED BY <3>2, <3>3 DEF ScoredInv
  <2> QED BY <2>1, <2>2
<1>21. ASSUME NEW p \in Players, GameOver(p) PROVE ScoredInv'
  <2>1. phase' = "" /\ \A q \in Players : hand'[q] = {}
    BY <1>21 DEF GameOver
  <2>2. P1 \in Players
    BY DEF Players
  <2> QED BY <2>1, <2>2 DEF ScoredInv
<1>22. ASSUME NEW p \in Players, LeaveRoom(p) PROVE ScoredInv'
  BY <1>22, <1>u DEF LeaveRoom, store, run, history, net
<1>23. CASE UNCHANGED vars
  BY <1>23, <1>u DEF vars, store, run, history
<1> QED
  BY <1>1, <1>2, <1>3, <1>4, <1>5, <1>6, <1>7, <1>8, <1>9, <1>10, <1>11, <1>12, <1>13,
    <1>14, <1>15, <1>16, <1>17, <1>18, <1>19, <1>20, <1>21, <1>22, <1>23
  DEF Next, Bidding, Playing, Handlers, Timeouts, Faults, Returning
-----------------------------------------------------------------------------
\* q comes after p at the table.
Follows(p, q) == \/ p = order[1] /\ q = order[2]
                 \/ p = order[2] /\ q = order[3]
                 \/ p = order[3] /\ q = order[1]

\* A game goes on, and its end has not been missed.
Live == phase = "playing" /\ settled = 0 /\ ~EndUnseen

\* p and nobody else believes to be the next to play, as far as the server
\* listens.
BelievesOnly(p) ==
  /\ \A q \in conn \ offline : client[q] = "play" => q = p
  /\ p \in (members \cap conn) \ offline => client[p] = "play"
Attending == \A q \in (members \cap conn) \ offline : client[q] \in {"play", "watch"}

\* The turn while nothing is being done, ...
AtRest == turn = due /\ timers \subseteq {due} /\ BelievesOnly(due)

\* ... and where the hand-over stands while a thread is at it.
AtWork(t) ==
  \/ pc[t] = "expire" /\ AtRest /\ expired = {due}
  \/ /\ timers = {} /\ expired = {}
     /\ \/ pc[t] = "ai" /\ who[t] = due /\ due \in offline /\ BelievesOnly(due)
        \/ /\ pc[t] = "tell" \/ (pc[t] \in {"remove", "write"} /\ ai[t])
           /\ Follows(who[t], due) /\ who[t] \in offline
           /\ \A q \in conn \ offline : client[q] # "play"
        \/ /\ pc[t] = "next" \/ (pc[t] \in {"remove", "write"} /\ ~ai[t])
           /\ Follows(who[t], due) /\ BelievesOnly(due)
        \/ /\ pc[t] = "done" /\ turn = due
           /\ Follows(who[t], due) /\ BelievesOnly(due)

TurnInv ==
  Live => /\ Attending /\ due \in Players
          /\ AllIdle => AtRest
          /\ \A t \in Threads : pc[t] # "idle" => AtWork(t)

\* getNextPlayer agrees with the order at the table.
LEMMA NextFollows ==
  ASSUME order \in Seating, NEW p \in Players, NEW q
  PROVE  Follows(p, q) <=> q = After(p)
  BY SeatsAreTaken, RoundTheTable DEF Follows

\* At every step of a hand-over it is clear who knows what: PlayAHand,
\* handleDisconnect, executeAIPlay, handleTimeout, handleReconnectSync.
LEMMA TurnStep ==
  ASSUME TypeOK, Patient', ThreadInv, BidInv, ClientInv, RemovalInv, ScoredInv, TurnInv,
         [Next]_vars
  PROVE  TurnInv'
<1>b. Begin => AllIdle
  BY Waits
<1> USE <1>b
<1>t. /\ pc \in [Threads -> Steps] /\ who \in [Threads -> Players \cup {NoOne}]
      /\ ai \in [Threads -> BOOLEAN] /\ client \in [Players -> Doings]
      /\ hand \in [Players -> SUBSET Cards] /\ Players \subseteq Threads
      /\ \A t \in Threads : pc[t] \notin {"idle", "expire"} => who[t] \in Players
      /\ members \subseteq Players /\ Checker \in Threads /\ conn \subseteq Players
      /\ offline \subseteq Players /\ expired \subseteq Players /\ timers \subseteq Players
  BY DEF TypeOK, ThreadsOK, StoreOK, PresenceOK, Threads
<1>n. settled \in Nat
  BY DEF TypeOK, HistoryOK
<1>o. Live => order \in Seating
  BY DEF Live, BidInv, TypeOK, StoreOK
<1>a. ASSUME NEW t \in Threads, pc[t] # "idle", Live
      PROVE  AtWork(t)
  BY <1>a DEF TurnInv
<1>d. ASSUME Deal PROVE TurnInv'
  <2>1. phase' = ""
    BY <1>d DEF Deal
  <2> QED BY <2>1 DEF TurnInv, Live
<1>u. ASSUME UNCHANGED <<hand, phase, settled, members>>, Live' PROVE Live
  BY <1>u DEF Live, EndUnseen
<1>w. ASSUME NEW t \in Threads, pc[t] # "idle",
             \A u \in Threads \ {t} : pc'[u] = pc[u],
             Attending', due' \in Players,
             pc'[t] # "idle" => AtWork(t)', pc'[t] = "idle" => AtRest'
      PROVE  TurnInv'
  <2>1. \A u \in Threads \ {t} : pc'[u] = "idle"
    BY <1>w DEF ThreadInv
  <2> QED BY <1>w, <2>1 DEF TurnInv, AllIdle
<1>r. ASSUME NEW t \in Threads,
             \A u \in Threads \ {t} : pc'[u] = pc[u],
             UNCHANGED <<due, turn, timers, expired, conn, members, offline, client, order, who, ai>>,
             Live' => Live,
             \/ pc[t] \in {"remove", "write"} /\ pc'[t] \in {"remove", "write"}
             \/ pc[t] = "remove" /\ pc'[t] = IF ai[t] THEN "tell" ELSE "next"
      PROVE  TurnInv'
  <2> SUFFICES ASSUME Live' PROVE TurnInv'
    BY DEF TurnInv
  <2>1. Attending /\ due \in Players /\ AtWork(t)
    BY <1>r DEF TurnInv
  <2>2. Attending' /\ due' \in Players
    BY <1>r, <2>1 DEF Attending
  <2>3. BelievesOnly(due) => BelievesOnly(due)'
    BY <1>r DEF BelievesOnly
  <2>4. Follows(who[t], due) => Follows(who[t], due)'
    BY <1>r DEF Follows
  <2>5. AtWork(t)'
    BY <1>r, <2>1, <2>3, <2>4, <1>t DEF AtWork
  <2> QED BY <1>r, <2>2, <2>5, <1>w
<1>f. ASSUME Live' => Live,
             UNCHANGED <<due, turn, timers, expired, order, pc, who, ai>>,
             members' \subseteq members, conn' \subseteq conn, offline \subseteq offline',
             \A q \in conn' \ offline' : \/ client'[q] = client[q]
                                         \/ client'[q] # "play" /\ q \notin members'
      PROVE  TurnInv'
  <2> SUFFICES ASSUME Live' PROVE TurnInv'
    BY DEF TurnInv
  <2>1. Attending /\ due \in Players
    BY <1>f DEF TurnInv
  <2>2. Attending' /\ due' \in Players
    BY <1>f, <2>1 DEF Attending
  <2>3. BelievesOnly(due) => BelievesOnly(due)'
    BY <1>f DEF BelievesOnly
  <2>4. AtRest => AtRest'
    BY <1>f, <2>3 DEF AtRest
  <2>5. ASSUME NEW t \in Threads, AtWork(t) PROVE AtWork(t)'
    <3>1. Follows(who[t], due) => Follows(who[t], due)'
      BY <1>f DEF Follows
    <3>2. (\A q \in conn \ offline : client[q] # "play")
             => (\A q \in conn' \ offline' : client'[q] # "play")
      BY <1>f
    <3> QED BY <1>f, <2>3, <2>4, <2>5, <3>1, <3>2 DEF AtWork
  <2> QED BY <1>f, <2>2, <2>4, <2>5 DEF TurnInv, AllIdle
<1>1. CASE ReadyForPlay
  BY <1>1, <1>d DEF ReadyForPlay, StartGame
<1>2. ASSUME NEW p \in Players, NEW bet \in Bets, GrabLord(p, bet) PROVE TurnInv'
  <2>0. /\ order # << >> /\ phase = "" /\ AllIdle /\ pc' = pc /\ timers = {}
        /\ settled = 0
    BY <1>2 DEF GrabLord, BidInv, run
  <2>1. CASE NextBid(p)
    BY <2>0, <2>1 DEF NextBid, store, TurnInv, Live
  <2>2. CASE Deal
    BY <2>2, <1>d
  <2>3. CASE TooFew
    BY <2>3 DEF TooFew, TurnInv, Live
  <2>4. ASSUME NEW q, LordDetermined(q), q \in Players PROVE TurnInv'
    <3>1. CASE phase' = phase
      BY <2>0, <3>1 DEF TurnInv, Live
    <3>2. CASE phase' # phase
      <4>1. /\ turn' = q /\ due' = q /\ timers' = {q}
            /\ client' = Shown(members, "watch", q, "play")
        BY <2>0, <2>4, <3>2 DEF LordDetermined
      <4>2. UNCHANGED <<members, conn, offline>>
        BY <1>2 DEF GrabLord, net
      <4>3. \A r \in Players \ members : client[r] # "play"
        BY <2>0 DEF ClientInv
      <4>4. \A r \in Players : client'[r] = IF r \notin members \cap conn THEN client[r]
                                        ELSE IF r = q THEN "play" ELSE "watch"
        BY <4>1 DEF Shown
      <4>5. AtRest' /\ Attending'
        BY <4>1, <4>2, <4>3, <4>4, <1>t, <2>4 DEF AtRest, Attending, BelievesOnly
      <4>6. \A t \in Threads : pc'[t] = "idle"
        BY <2>0 DEF AllIdle
      <4> QED BY <4>1, <4>5, <4>6, <2>4 DEF TurnInv
    <3> QED BY <3>1, <3>2
  <2> QED BY <1>2, <2>1, <2>2, <2>3, <2>4, BidType DEF GrabLord
<1>3. ASSUME NEW p \in Players, NEW C \in SUBSET hand[p], Play(p, C) PROVE TurnInv'
  <2>1. /\ client[p] = "play" /\ p \in conn \ offline /\ AllIdle /\ Moves(p)
        /\ timers' = timers \ {p} /\ client' = Told((members \ offline) \cup {p}, p)
        /\ who'[p] = p /\ pc'[p] \in {"next", "remove"} /\ ai' = ai
        /\ \A u \in Threads \ {p} : pc'[u] = pc[u]
        /\ UNCHANGED <<hand, phase, settled, members, conn, offline, expired, order>>
    BY <1>3, <1>t DEF Play, Goto, Without, store, net
  <2> SUFFICES ASSUME Live' PROVE TurnInv'
    BY DEF TurnInv
  <2>2. Live /\ settled = 0
    BY <2>1, <1>u DEF Live
  <2>3. /\ Attending /\ AtRest
    BY <2>1, <2>2 DEF TurnInv
  <2>4. p = due /\ timers' = {}
    BY <2>1, <2>3 DEF AtRest, BelievesOnly
  <2>5. PICK n \in Players : n = After(p)
    BY <2>2, <1>o, NextIsAnother
  <2>6. due' = n /\ n # p /\ Follows(p, n)
    BY <2>1, <2>2, <2>5, <1>o, NextIsAnother, NextFollows
  <2>7. Follows(p, due)'
    BY <2>1, <2>6 DEF Follows
  <2>8. ~ai'[p] /\ expired' = {}
    BY <2>1, <1>t DEF ThreadInv, AllIdle
  <2>9. \A q \in Players : client'[q] =
          IF q \in ((members \ offline) \cup {p}) \cap conn /\ client[q] \in {"play", "watch"}
          THEN IF q = n THEN "play" ELSE "watch"
          ELSE client[q]
    BY <2>1, <2>5 DEF Told
  <2>10. Attending' /\ BelievesOnly(due)'
    BY <2>1, <2>3, <2>4, <2>6, <2>9, <1>t DEF Attending, AtRest, BelievesOnly
  <2>11. AtWork(p)'
    BY <2>1, <2>4, <2>7, <2>8, <2>10 DEF AtWork
  <2>12. \A u \in Threads \ {p} : pc'[u] = "idle"
    BY <2>1 DEF AllIdle
  <2>13. pc'[p] # "idle" /\ p \in Threads /\ due' \in Players
    BY <2>1, <2>6, <1>t
  <2> QED BY <2>10, <2>11, <2>12, <2>13 DEF TurnInv, AllIdle
<1>4. ASSUME NEW t \in Threads, ReadHand(t) PROVE TurnInv'
  <2>1. /\ pc[t] = "remove" /\ pc'[t] \in {"remove", "write"}
        /\ UNCHANGED <<hand, phase, settled, members>>
        /\ UNCHANGED <<due, turn, timers, expired, conn, members, offline, client, order, who, ai>>
        /\ \A u \in Threads \ {t} : pc'[u] = pc[u]
    BY <1>4, <1>t DEF ReadHand, Goto, store, net, history
  <2>2. Live' => Live
    BY <2>1, <1>u
  <2> QED BY <2>1, <2>2, <1>r
<1>5. ASSUME NEW t \in Threads, WriteHand(t) PROVE TurnInv'
  <2>1. /\ pc[t] = "write" /\ who[t] \in Players /\ got[t] = hand[who[t]]
        /\ cards[t] \subseteq hand[who[t]]
    BY <1>5, <1>t DEF WriteHand, RemovalInv
  <2>2. PICK c \in cards[t] :
          hand' = IF c \in got[t] THEN [hand EXCEPT ![who[t]] = got[t] \ {c}] ELSE hand
    BY <1>5 DEF WriteHand
  <2>3. /\ UNCHANGED <<due, turn, timers, expired, conn, members, offline, client, order, who, ai>>
        /\ UNCHANGED <<phase, settled>> /\ pc'[t] = "remove"
        /\ \A u \in Threads \ {t} : pc'[u] = pc[u]
    BY <1>5, <1>t DEF WriteHand, Goto, store, net, history
  <2>4. \A q \in Players : hand[q] = {} => hand'[q] = {}
    BY <2>1, <2>2, <1>t
  <2>5. Live' => Live
    BY <2>3, <2>4 DEF Live, EndUnseen
  <2> QED BY <2>1, <2>3, <2>5, <1>r
<1>6. ASSUME NEW t \in Threads, EndGame(t) PROVE TurnInv'
  <2>1. settled' = settled + 1
    BY <1>6 DEF EndGame
  <2>2. settled' # 0
    BY <2>1, <1>n
  <2> QED BY <2>2 DEF TurnInv, Live
<1>7. ASSUME NEW t \in Threads, GameGoesOn(t) PROVE TurnInv'
  <2>1. /\ pc[t] = "remove" /\ pc'[t] = IF ai[t] THEN "tell" ELSE "next"
        /\ UNCHANGED <<hand, phase, settled, members>>
        /\ UNCHANGED <<due, turn, timers, expired, conn, members, offline, client, order, who, ai>>
        /\ \A u \in Threads \ {t} : pc'[u] = pc[u]
    BY <1>7, <1>t DEF GameGoesOn, Goto, store, net, history
  <2>2. Live' => Live
    BY <2>1, <1>u
  <2> QED BY <2>1, <2>2, <1>r
<1>8. ASSUME NEW t \in Threads, PassTurn(t) PROVE TurnInv'
  <2>1. pc[t] = "next" /\ who[t] \in Players
    BY <1>8, <1>t DEF PassTurn
  <2>2. PICK n : n = After(who[t])
    OBVIOUS
  <2>3. /\ turn' = n
        /\ \/ n \in offline /\ pc'[t] = "ai" /\ who'[t] = n /\ timers' = timers
           \/ n \notin offline /\ timers' = timers \cup {n} /\ pc'[t] = "idle"
           \/ n = NoOne
        /\ UNCHANGED <<hand, phase, settled, members>>
        /\ UNCHANGED <<due, expired, conn, offline, client, order>>
        /\ \A u \in Threads \ {t} : pc'[u] = pc[u]
    BY <1>8, <2>2, <1>t DEF PassTurn, Goto, Return, store, net, history
  <2> SUFFICES ASSUME Live' PROVE TurnInv'
    BY DEF TurnInv
  <2>4. Live
    BY <2>3, <1>u
  <2>5. /\ Attending /\ due \in Players /\ timers = {} /\ expired = {}
        /\ Follows(who[t], due) /\ BelievesOnly(due)
    BY <2>1, <2>4, <1>a DEF TurnInv, AtWork
  <2>6. n = due /\ n # NoOne
    BY <2>1, <2>2, <2>4, <2>5, <1>o, NextFollows, ConstantsAssumption
  <2>7. BelievesOnly(due)' /\ Attending' /\ due' \in Players
    BY <2>3, <2>5 DEF BelievesOnly, Attending
  <2>8. pc'[t] # "idle" => AtWork(t)'
    BY <2>3, <2>5, <2>6, <2>7 DEF AtWork
  <2>9. pc'[t] = "idle" => AtRest'
    BY <2>3, <2>5, <2>6, <2>7 DEF AtRest
  <2> QED BY <2>1, <2>3, <2>7, <2>8, <2>9, <1>w
<1>9. ASSUME NEW t \in Threads, AINothing(t) PROVE TurnInv'
  <2>1. /\ pc[t] = "ai" /\ hand[who[t]] = {} /\ who[t] \in Players
        /\ UNCHANGED <<hand, phase, settled, members>>
    BY <1>9, <1>t DEF AINothing, store, history
  <2> SUFFICES ASSUME Live' PROVE FALSE
    BY DEF TurnInv
  <2>2. Live
    BY <2>1, <1>u
  <2>3. who[t] \in members /\ phase = "playing" /\ settled = 0
    BY <2>1, <2>2 DEF Live, EndUnseen
  <2>4. AboutToScore
    BY <2>1, <2>3 DEF ScoredInv
  <2> QED BY <2>1, <2>4 DEF AboutToScore, ThreadInv
<1>10. ASSUME NEW t \in Threads, AIMove(t) PROVE TurnInv'
  <2>1. /\ pc[t] = "ai" /\ who[t] \in Players /\ Moves(who[t])
        /\ pc'[t] \in {"remove", "tell"} /\ ai[t]
        /\ UNCHANGED <<hand, phase, settled, members>>
        /\ UNCHANGED <<turn, timers, expired, conn, offline, client, order, who, ai>>
        /\ \A u \in Threads \ {t} : pc'[u] = pc[u]
    BY <1>10, <1>t DEF AIMove, Goto, store, net, ThreadInv
  <2> SUFFICES ASSUME Live' PROVE TurnInv'
    BY DEF TurnInv
  <2>2. Live /\ settled = 0
    BY <2>1, <1>u DEF Live
  <2>3. /\ Attending /\ timers = {} /\ expired = {}
        /\ who[t] = due /\ due \in offline /\ BelievesOnly(due)
    BY <2>1, <2>2, <1>a DEF TurnInv, AtWork
  <2>4. PICK n \in Players : n = After(who[t])
    BY <2>1, <2>2, <1>o, NextIsAnother
  <2>5. due' = n /\ Follows(who[t], n)
    BY <2>1, <2>2, <2>4, <1>o, NextIsAnother, NextFollows
  <2>6. Follows(who[t], due)' /\ who'[t] \in offline'
    BY <2>1, <2>3, <2>5 DEF Follows
  <2>7. \A q \in conn' \ offline' : client'[q] # "play"
    BY <2>1, <2>3 DEF BelievesOnly
  <2>8. AtWork(t)' /\ Attending' /\ due' \in Players
    BY <2>1, <2>3, <2>5, <2>6, <2>7 DEF AtWork, Attending
  <2> QED BY <2>1, <2>8, <1>w
<1>11. ASSUME NEW t \in Threads, AITell(t) PROVE TurnInv'
  <2>1. pc[t] = "tell" /\ who[t] \in Players
    BY <1>11, <1>t DEF AITell
  <2>2. PICK n : n = After(who[t])
    OBVIOUS
  <2>3. /\ turn' = n /\ pc'[t] = "done"
        /\ client' = Told((members \ offline) \ {who[t]}, who[t])
        /\ UNCHANGED <<hand, phase, settled, members>>
        /\ UNCHANGED <<due, timers, expired, conn, offline, order, who>>
        /\ \A u \in Threads \ {t} : pc'[u] = pc[u]
    BY <1>11, <2>2, <1>t DEF AITell, Goto, store, net, history
  <2> SUFFICES ASSUME Live' PROVE TurnInv'
    BY DEF TurnInv
  <2>4. Live
    BY <2>3, <1>u
  <2>5. /\ Attending /\ due \in Players /\ timers = {} /\ expired = {}
        /\ Follows(who[t], due) /\ \A q \in conn \ offline : client[q] # "play"
    BY <2>1, <2>4, <1>a DEF TurnInv, AtWork
  <2>6. n = due /\ n # who[t]
    BY <2>1, <2>2, <2>4, <2>5, <1>o, NextFollows, NextIsAnother
  <2>7. \A q \in Players : client'[q] =
          IF q \in ((members \ offline) \ {who[t]}) \cap conn /\ client[q] \in {"play", "watch"}
          THEN IF q = n THEN "play" ELSE "watch"
          ELSE client[q]
    BY <2>2, <2>3 DEF Told
  <2>8. Attending' /\ BelievesOnly(due)'
    BY <2>3, <2>5, <2>6, <2>7, <1>t DEF Attending, BelievesOnly
  <2>9. Follows(who[t], due)'
    BY <2>3, <2>5 DEF Follows
  <2>10. AtWork(t)' /\ due' \in Players
    BY <2>3, <2>5, <2>6, <2>8, <2>9 DEF AtWork
  <2> QED BY <2>1, <2>3, <2>8, <2>10, <1>w
<1>12. ASSUME NEW t \in Threads, Chain(t) PROVE TurnInv'
  <2>1. pc[t] = "done" /\ who[t] \in Players
    BY <1>12, <1>t DEF Chain
  <2>2. PICK n : n = After(who[t])
    OBVIOUS
  <2>3. /\ turn' = n
        /\ \/ n \in offline /\ pc'[t] = "ai" /\ who'[t] = n
           \/ pc'[t] = "idle"
        /\ UNCHANGED <<hand, phase, settled, members>>
        /\ UNCHANGED <<due, timers, expired, conn, offline, client, order>>
        /\ \A u \in Threads \ {t} : pc'[u] = pc[u]
    BY <1>12, <2>2, <1>t DEF Chain, Goto, Return, store, net, history
  <2> SUFFICES ASSUME Live' PROVE TurnInv'
    BY DEF TurnInv
  <2>4. Live
    BY <2>3, <1>u
  <2>5. /\ Attending /\ due \in Players /\ timers = {} /\ expired = {}
        /\ Follows(who[t], due) /\ BelievesOnly(due)
    BY <2>1, <2>4, <1>a DEF TurnInv, AtWork
  <2>6. n = due
    BY <2>1, <2>2, <2>4, <2>5, <1>o, NextFollows
  <2>7. BelievesOnly(due)' /\ Attending' /\ due' \in Players
    BY <2>3, <2>5 DEF BelievesOnly, Attending
  <2>8. pc'[t] # "idle" => AtWork(t)'
    BY <2>3, <2>5, <2>6, <2>7 DEF AtWork
  <2>9. pc'[t] = "idle" => AtRest'
    BY <2>3, <2>5, <2>6, <2>7 DEF AtRest
  <2> QED BY <2>1, <2>3, <2>7, <2>8, <2>9, <1>w
<1>13. ASSUME NEW X \in SUBSET timers, Collect(X) PROVE TurnInv'
  <2>1. /\ AllIdle /\ X # {} /\ expired' = X /\ pc'[Checker] = "expire"
        /\ UNCHANGED <<hand, phase, settled, members>>
        /\ UNCHANGED <<due, turn, timers, conn, offline, client>>
        /\ \A u \in Threads \ {Checker} : pc'[u] = pc[u]
    BY <1>13, <1>t DEF Collect, Goto, store, net, history
  <2> SUFFICES ASSUME Live' PROVE TurnInv'
    BY DEF TurnInv
  <2>2. Attending /\ due \in Players /\ AtRest
    BY <2>1, <1>u DEF TurnInv
  <2>3. AtRest' /\ Attending' /\ due' \in Players /\ X = {due}
    BY <2>1, <2>2 DEF AtRest, Attending, BelievesOnly
  <2>4. AtWork(Checker)'
    BY <2>1, <2>3 DEF AtWork
  <2>5. \A u \in Threads \ {Checker} : pc'[u] = "idle"
    BY <2>1 DEF AllIdle
  <2> QED BY <2>1, <2>3, <2>4, <2>5, <1>t DEF TurnInv, AllIdle
<1>14. ASSUME NEW p \in expired, HandleTimeout(p) PROVE TurnInv'
  <2>1. /\ pc[Checker] = "expire" /\ pc'[Checker] = "ai" /\ who'[Checker] = p
        /\ expired' = expired \ {p} /\ timers' = timers \ {p} /\ offline' = offline \cup {p}
        /\ UNCHANGED <<hand, phase, settled, members, due, conn, client>>
        /\ \A u \in Threads \ {Checker} : pc'[u] = pc[u]
    BY <1>14, <1>t DEF HandleTimeout, Without, Goto, store, net, history
  <2> SUFFICES ASSUME Live' PROVE TurnInv'
    BY DEF TurnInv
  <2>2. Attending /\ due \in Players /\ AtRest /\ expired = {due}
    BY <2>1, <1>u, <1>t, <1>a DEF TurnInv, AtWork
  <2>3. p = due /\ expired' = {} /\ timers' = {}
    BY <2>1, <2>2, <1>14 DEF AtRest
  <2>4. Attending' /\ due' \in Players /\ BelievesOnly(due)'
    BY <2>1, <2>2, <2>3 DEF AtRest, Attending, BelievesOnly
  <2>5. AtWork(Checker)'
    BY <2>1, <2>3, <2>4 DEF AtWork
  <2>6. pc[Checker] # "idle" /\ pc'[Checker] # "idle"
    BY <2>1
  <2> QED BY <2>1, <2>4, <2>5, <2>6, <1>t, <1>w
<1>15. CASE CheckNextPlayer
  <2>1. pc[Checker] = "done" /\ who[Checker] \in Players
    BY <1>15, <1>t DEF CheckNextPlayer
  <2>2. PICK n : n = After(who[Checker])
    OBVIOUS
  <2>3. /\ timers' = IF n = NoOne THEN timers ELSE timers \cup {n}
        /\ expired = {} => pc'[Checker] = "idle"
        /\ UNCHANGED <<hand, phase, settled, members>>
        /\ UNCHANGED <<due, turn, expired, conn, offline, client, order>>
        /\ \A u \in Threads \ {Checker} : pc'[u] = pc[u]
    BY <1>15, <2>2, <1>t DEF CheckNextPlayer, Goto, Return, store, net, history
  <2> SUFFICES ASSUME Live' PROVE TurnInv'
    BY DEF TurnInv
  <2>4. Live
    BY <2>3, <1>u
  <2>5. /\ Attending /\ due \in Players /\ timers = {} /\ expired = {}
        /\ Follows(who[Checker], due) /\ BelievesOnly(due) /\ turn = due
    BY <2>1, <2>4, <1>a, <1>t DEF TurnInv, AtWork
  <2>6. n = due
    BY <2>1, <2>2, <2>4, <2>5, <1>o, NextFollows
  <2>7. BelievesOnly(due)' /\ Attending' /\ due' \in Players
    BY <2>3, <2>5 DEF BelievesOnly, Attending
  <2>8. AtRest' /\ pc'[Checker] = "idle"
    BY <2>3, <2>5, <2>6, <2>7 DEF AtRest
  <2>9. pc[Checker] # "idle"
    BY <2>1
  <2> QED BY <2>3, <2>7, <2>8, <2>9, <1>w, <1>t
<1>16. ASSUME NEW p \in Players, Drop(p) PROVE TurnInv'
  <2>1. /\ UNCHANGED <<hand, phase, settled, members>>
        /\ UNCHANGED <<due, turn, timers, expired, order, pc, who, ai>>
        /\ conn' \subseteq conn /\ offline \subseteq offline'
        /\ \A q \in conn' \ offline' : client'[q] = client[q]
    BY <1>16, <1>t DEF Drop, store, net, run, history
  <2>2. Live' => Live
    BY <2>1, <1>u
  <2> QED BY <2>1, <2>2, <1>f
<1>17. ASSUME NEW p \in Players, HeartbeatLost(p) PROVE TurnInv'
  <2>1. /\ UNCHANGED <<hand, phase, settled, members>>
        /\ UNCHANGED <<due, turn, timers, expired, order, pc, who, ai>>
        /\ conn' \subseteq conn /\ offline \subseteq offline'
        /\ \A q \in conn' \ offline' : client'[q] = client[q]
    BY <1>17, <1>t DEF HeartbeatLost, store, net, run, history
  <2>2. Live' => Live
    BY <2>1, <1>u
  <2> QED BY <2>1, <2>2, <1>f
<1>18. ASSUME NEW p \in Players, DropSuperseded(p) PROVE TurnInv'
  <2>1. /\ UNCHANGED <<hand, phase, settled, members>>
        /\ UNCHANGED <<due, turn, timers, expired, order, pc, who, ai>>
        /\ conn' \subseteq conn /\ offline \subseteq offline'
        /\ \A q \in conn' \ offline' : client'[q] = client[q]
    BY <1>18, <1>t DEF DropSuperseded, store, net, run, history
  <2>2. Live' => Live
    BY <2>1, <1>u
  <2> QED BY <2>1, <2>2, <1>f
<1>19. ASSUME NEW p \in Players, Reconnect(p) PROVE TurnInv'
  <2>1. /\ AllIdle /\ pc' = pc /\ client[p] # "left"
        /\ offline' = offline \ {p} /\ members' = members \cup {p} /\ conn' = conn \cup {p}
        /\ UNCHANGED <<hand, phase, settled, due, turn, timers>>
        /\ \A q \in Players \ {p} : client'[q] = client[q]
        /\ client'[p] = IF phase # "" /\ turn = p THEN "play" ELSE "watch"
    BY <1>19, <1>t DEF Reconnect, Resync, store, run, history
  <2> SUFFICES ASSUME Live' PROVE TurnInv'
    BY DEF TurnInv
  <2>2. settled = 0 /\ phase = "playing"
    BY <2>1 DEF Live
  <2>3. members' = members
    BY <2>1, <2>2 DEF ClientInv
  <2>4. Live
    BY <2>1, <2>3, <1>u
  <2>5. Attending /\ due \in Players /\ AtRest
    BY <2>1, <2>4 DEF TurnInv
  <2>6. AtRest' /\ Attending' /\ due' \in Players
    BY <2>1, <2>2, <2>3, <2>5, <1>t DEF AtRest, Attending, BelievesOnly
  <2>7. \A t \in Threads : pc'[t] = "idle"
    BY <2>1 DEF AllIdle
  <2> QED BY <2>6, <2>7 DEF TurnInv
<1>20. ASSUME NEW p \in Players, Continue(p) PROVE TurnInv'
  <2>1. CASE Deal
    BY <2>1, <1>d
  <2>2. CASE ~Deal
    <3>1. client[p] = "over" /\ p \in Players
      BY <1>20 DEF Continue
    <3>2. settled # 0
      BY <3>1, <1>n DEF ClientInv
    <3>3. settled' = settled
      BY <1>20, <2>2 DEF Continue, StartGame, history
    <3> QED BY <3>2, <3>3 DEF TurnInv, Live
  <2> QED BY <2>1, <2>2
<1>21. ASSUME NEW p \in Players, GameOver(p) PROVE TurnInv'
  <2>1. phase' = ""
    BY <1>21 DEF GameOver
  <2> QED BY <2>1 DEF TurnInv, Live
<1>22. ASSUME NEW p \in Players, LeaveRoom(p) PROVE TurnInv'
  <2>1. /\ UNCHANGED <<hand, phase, settled>> /\ members' = members \ {p}
        /\ UNCHANGED <<due, turn, timers, expired, order, pc, who, ai, conn, offline>>
        /\ \A q \in Players \ {p} : client'[q] = client[q]
        /\ client'[p] = "left"
    BY <1>22, <1>t DEF LeaveRoom, store, net, run, history
  <2>2. Live' => Live
    BY <2>1, <1>t DEF Live, EndUnseen
  <2>3. \A q \in conn' \ offline' :
          client'[q] = client[q] \/ (client'[q] # "play" /\ q \notin members')
    <3>1. client'[p] # "play" /\ p \notin members'
      BY <2>1
    <3>2. \A q \in conn' \ offline' : q = p \/ client'[q] = client[q]
      BY <2>1, <1>t
    <3> QED BY <3>1, <3>2
  <2> QED BY <2>1, <2>2, <2>3, <1>f
<1>23. CASE UNCHANGED vars
  <2>1. /\ UNCHANGED <<hand, phase, settled, members>>
        /\ UNCHANGED <<due, turn, timers, expired, order, pc, who, ai, conn, offline, client>>
    BY <1>23 DEF vars, store, net, run, history
  <2>2. Live' => Live
    BY <2>1, <1>u
  <2> QED BY <2>1, <2>2, <1>f
<1> QED
  BY <1>1, <1>2, <1>3, <1>4, <1>5, <1>6, <1>7, <1>8, <1>9, <1>10, <1>11, <1>12, <1>13,
    <1>14, <1>15, <1>16, <1>17, <1>18, <1>19, <1>20, <1>21, <1>22, <1>23
  DEF Next, Bidding, Playing, Handlers, Timeouts, Faults, Returning
-----------------------------------------------------------------------------
\* p left without cards, and is not coming back.
GoneOut(p) == p \notin members /\ client[p] = "left" /\ hand[p] = {}

\* Out of turn one moves only after the end of a game has been missed.
FoulInv == fouls # {} => \E p \in Players : GoneOut(p)

\* Who moves out of turn does so because a player who left had no cards
\* (handleLeaveRoom, checkAndHandleGameEnd).
LEMMA FoulStep ==
  ASSUME TypeOK, Patient', BidInv, ClientInv, RemovalInv, TurnInv, FoulInv, [Next]_vars
  PROVE  FoulInv'
<1>b. Begin => AllIdle
  BY Waits
<1> USE <1>b
<1>t. /\ client \in [Players -> Doings] /\ hand \in [Players -> SUBSET Cards]
      /\ \A t \in Threads : pc[t] \notin {"idle", "expire"} => who[t] \in Players
  BY DEF TypeOK, ThreadsOK, StoreOK, PresenceOK
<1>p. phase # "" => phase = "playing"
  BY DEF TypeOK, StoreOK
<1>d. ASSUME Deal PROVE FoulInv'
  BY <1>d DEF Deal, FoulInv
<1>u. ASSUME fouls' = fouls \/ \E q \in Players : GoneOut(q),
             \A q \in Players : GoneOut(q) => GoneOut(q)'
      PROVE  FoulInv'
  BY <1>u DEF FoulInv
<1>m. ASSUME NEW p, Moves(p), order # << >> => phase = "playing", Live => p = due
      PROVE  fouls' = fouls \/ \E q \in Players : GoneOut(q)
  <2>1. CASE settled # 0 \/ order = << >>
    <3>1. settled # 0 => settled > 0
      BY DEF TypeOK, HistoryOK
    <3>2. settled > 0 \/ order = << >>
      BY <2>1, <3>1
    <3> QED BY <1>m, <3>2 DEF Moves
  <2>2. CASE settled = 0 /\ order # << >>
    <3>1. CASE p = due
      <4>1. ~(settled > 0)
        BY <2>2
      <4> QED BY <1>m, <2>2, <3>1, <4>1 DEF Moves
    <3>2. CASE EndUnseen
      BY <2>2, <3>2 DEF EndUnseen, ClientInv, GoneOut
    <3> QED BY <1>m, <2>2, <3>1, <3>2 DEF Live
  <2> QED BY <2>1, <2>2
<1>1. CASE ReadyForPlay
  BY <1>1, <1>d DEF ReadyForPlay, StartGame
<1>2. ASSUME NEW p \in Players, NEW bet \in Bets, GrabLord(p, bet) PROVE FoulInv'
  <2>1. fouls = {}
    BY <1>2 DEF GrabLord, BidInv
  <2>2. fouls' = {}
    BY <1>2, <2>1 DEF GrabLord, NextBid, Deal, TooFew, LordDetermined, history
  <2> QED BY <2>2 DEF FoulInv
<1>3. ASSUME NEW p \in Players, NEW C \in SUBSET hand[p], Play(p, C) PROVE FoulInv'
  <2>1. /\ client[p] = "play" /\ p \in conn \ offline /\ AllIdle /\ Moves(p)
        /\ client' = Told((members \ offline) \cup {p}, p)
        /\ UNCHANGED <<hand, members>>
    BY <1>3 DEF Play
  <2>2. order # << >> => phase = "playing"
    BY <2>1, <1>p DEF BidInv
  <2>3. Live => p = due
    BY <2>1 DEF TurnInv, AtRest, BelievesOnly
  <2>4. fouls' = fouls \/ \E q \in Players : GoneOut(q)
    BY <2>1, <2>2, <2>3, <1>m
  <2>5. \A q \in Players : client[q] = "left" => client'[q] = "left"
    BY <2>1 DEF Told
  <2> QED BY <2>1, <2>4, <2>5, <1>u DEF GoneOut
<1>4. ASSUME NEW t \in Threads, ReadHand(t) PROVE FoulInv'
  <2>1. /\ UNCHANGED <<hand, members, client, fouls>>
    BY <1>4 DEF ReadHand, store, net, run, history
  <2> QED BY <2>1, <1>u DEF GoneOut
<1>5. ASSUME NEW t \in Threads, WriteHand(t) PROVE FoulInv'
  <2>1. /\ pc[t] = "write" /\ who[t] \in Players /\ got[t] = hand[who[t]]
        /\ cards[t] \subseteq hand[who[t]]
    BY <1>5, <1>t DEF WriteHand, RemovalInv
  <2>2. PICK c \in cards[t] :
          hand' = IF c \in got[t] THEN [hand EXCEPT ![who[t]] = got[t] \ {c}] ELSE hand
    BY <1>5 DEF WriteHand
  <2>3. \A q \in Players : hand[q] = {} => hand'[q] = {}
    BY <2>1, <2>2, <1>t
  <2>4. UNCHANGED <<members, client, fouls>>
    BY <1>5 DEF WriteHand, history
  <2> QED BY <2>3, <2>4, <1>u DEF GoneOut
<1>6. ASSUME NEW t \in Threads, EndGame(t) PROVE FoulInv'
  <2>1. /\ UNCHANGED <<hand, members, fouls>>
        /\ \A q \in Players \ members : client'[q] = client[q]
    BY <1>6, <1>t DEF EndGame, Shown
  <2> QED BY <2>1, <1>u DEF GoneOut
<1>7. ASSUME NEW t \in Threads, GameGoesOn(t) PROVE FoulInv'
  <2>1. /\ UNCHANGED <<hand, members, client, fouls>>
    BY <1>7 DEF GameGoesOn, store, net, run, history
  <2> QED BY <2>1, <1>u DEF GoneOut
<1>8. ASSUME NEW t \in Threads, PassTurn(t) PROVE FoulInv'
  <2>1. /\ UNCHANGED <<hand, members, client, fouls>>
    BY <1>8 DEF PassTurn, store, net, run, history
  <2> QED BY <2>1, <1>u DEF GoneOut
<1>9. ASSUME NEW t \in Threads, AINothing(t) PROVE FoulInv'
  <2>1. /\ UNCHANGED <<hand, members, client, fouls>>
    BY <1>9 DEF AINothing, store, net, run, history
  <2> QED BY <2>1, <1>u DEF GoneOut
<1>10. ASSUME NEW t \in Threads, AIMove(t) PROVE FoulInv'
  <2>1. /\ pc[t] = "ai" /\ Moves(who[t]) /\ UNCHANGED <<hand, members, client>>
        /\ who[t] \in Players
    BY <1>10, <1>t DEF AIMove, net
  <2>2. order # << >> => phase = "playing"
    BY <2>1, <1>p DEF BidInv, AllIdle
  <2>3. Live => who[t] = due
    BY <2>1 DEF TurnInv, AtWork
  <2>4. fouls' = fouls \/ \E q \in Players : GoneOut(q)
    BY <2>1, <2>2, <2>3, <1>m
  <2> QED BY <2>1, <2>4, <1>u DEF GoneOut
<1>11. ASSUME NEW t \in Threads, AITell(t) PROVE FoulInv'
  <2>1. /\ UNCHANGED <<hand, members, fouls>>
        /\ \A q \in Players : client[q] = "left" => client'[q] = "left"
    BY <1>11, <1>t DEF AITell, Told, Shown, store, net, run, history
  <2> QED BY <2>1, <1>u DEF GoneOut
<1>12. ASSUME NEW t \in Threads, Chain(t) PROVE FoulInv'
  <2>1. /\ UNCHANGED <<hand, members, client, fouls>>
    BY <1>12 DEF Chain, store, net, run, history
  <2> QED BY <2>1, <1>u DEF GoneOut
<1>13. ASSUME NEW X \in SUBSET timers, Collect(X) PROVE FoulInv'
  <2>1. /\ UNCHANGED <<hand, members, client, fouls>>
    BY <1>13 DEF Collect, store, net, run, history
  <2> QED BY <2>1, <1>u DEF GoneOut
<1>14. ASSUME NEW p \in expired, HandleTimeout(p) PROVE FoulInv'
  <2>1. /\ UNCHANGED <<hand, members, client, fouls>>
    BY <1>14 DEF HandleTimeout, store, net, run, history
  <2> QED BY <2>1, <1>u DEF GoneOut
<1>15. CASE CheckNextPlayer
  <2>1. /\ UNCHANGED <<hand, members, client, fouls>>
    BY <1>15 DEF CheckNextPlayer, store, net, run, history
  <2> QED BY <2>1, <1>u DEF GoneOut
<1>16. ASSUME NEW p \in Players, Drop(p) PROVE FoulInv'
  <2>1. /\ UNCHANGED <<hand, members, fouls>>
        /\ \A q \in Players : client[q] = "left" => client'[q] = "left"
    BY <1>16, <1>t DEF Drop, Told, Shown, store, net, run, history
  <2> QED BY <2>1, <1>u DEF GoneOut
<1>17. ASSUME NEW p \in Players, HeartbeatLost(p) PROVE FoulInv'
  <2>1. /\ UNCHANGED <<hand, members, client, fouls>>
    BY <1>17 DEF HeartbeatLost, store, net, run, history
  <2> QED BY <2>1, <1>u DEF GoneOut
<1>18. ASSUME NEW p \in Players, DropSuperseded(p) PROVE FoulInv'
  <2>1. /\ UNCHANGED <<hand, members, client, fouls>>
    BY <1>18 DEF DropSuperseded, store, net, run, history
  <2> QED BY <2>1, <1>u DEF GoneOut
<1>19. ASSUME NEW p \in Players, Reconnect(p) PROVE FoulInv'
  <2>1. /\ UNCHANGED <<hand, fouls>> /\ members' = members \cup {p}
        /\ client[p] # "left" /\ \A q \in Players \ {p} : client'[q] = client[q]
    BY <1>19, <1>t DEF Reconnect, Resync, history
  <2> QED BY <2>1, <1>u DEF GoneOut
<1>20. ASSUME NEW p \in Players, Continue(p) PROVE FoulInv'
  <2>1. CASE Deal
    BY <2>1, <1>d
  <2>2. CASE ~Deal
    <3>1. /\ UNCHANGED <<hand, fouls>> /\ members' \subseteq members \cup {p}
          /\ client[p] # "left" /\ \A q \in Players \ {p} : client'[q] = client[q]
      BY <1>20, <2>2, <1>t DEF Continue, StartGame, history
    <3> QED BY <3>1, <1>u DEF GoneOut
  <2> QED BY <2>1, <2>2
<1>21. ASSUME NEW p \in Players, GameOver(p) PROVE FoulInv'
  <2>1. UNCHANGED <<members, client, fouls>> /\ \A q \in Players : hand'[q] = {}
    BY <1>21 DEF GameOver, net
  <2> QED BY <2>1, <1>u DEF GoneOut
<1>22. ASSUME NEW p \in Players, LeaveRoom(p) PROVE FoulInv'
  <2>1. /\ UNCHANGED <<hand, fouls>> /\ members' = members \ {p}
        /\ client' = [client EXCEPT ![p] = "left"]
    BY <1>22 DEF LeaveRoom, history
  <2>2. \A q \in Players : client[q] = "left" => client'[q] = "left"
    BY <2>1, <1>t
  <2> QED BY <2>1, <2>2, <1>u DEF GoneOut
<1>23. CASE UNCHANGED vars
  <2>1. /\ UNCHANGED <<hand, members, client, fouls>>
    BY <1>23 DEF vars, store, net, run, history
  <2> QED BY <2>1, <1>u DEF GoneOut
<1> QED
  BY <1>1, <1>2, <1>3, <1>4, <1>5, <1>6, <1>7, <1>8, <1>9, <1>10, <1>11, <1>12, <1>13,
    <1>14, <1>15, <1>16, <1>17, <1>18, <1>19, <1>20, <1>21, <1>22, <1>23
  DEF Next, Bidding, Playing, Handlers, Timeouts, Faults, Returning

\* What holds of a table as long as everyone waits.
TableInv == /\ TypeOK /\ ThreadInv /\ BidInv /\ ClientInv /\ RemovalInv
            /\ ScoredInv /\ TurnInv /\ FoulInv

\* An empty room is as it should be.
LEMMA TableInit == Init => TableInv
<1> SUFFICES ASSUME Init PROVE TableInv
  OBVIOUS
<1>1. /\ order = << >> /\ phase = "" /\ settled = 0 /\ fouls = {} /\ expired = {} /\ timers = {}
      /\ members = Players /\ conn = Players
      /\ \A t \in Threads : pc[t] = "idle" /\ ~ai[t]
      /\ \A p \in Players : client[p] = "wait"
  BY DEF Init
<1>2. Checker \in Threads
  BY DEF Threads
<1>3. ThreadInv
  BY <1>1, <1>2 DEF ThreadInv
<1>4. BidInv /\ ClientInv
  BY <1>1 DEF BidInv, ClientInv, AllIdle
<1>5. RemovalInv
  BY <1>1 DEF RemovalInv
<1>6. ScoredInv /\ TurnInv /\ FoulInv
  BY <1>1 DEF ScoredInv, TurnInv, Live, FoulInv
<1> QED BY <1>3, <1>4, <1>5, <1>6, TypeInit DEF TableInv

\* A table stays as it should be until somebody does not wait.
LEMMA TableCorrect == Spec => [](Patient => TableInv)
<1> DEFINE Inv == TypeOK /\ (Patient => TableInv)
<1>1. Init => Inv
  BY TableInit, TypeInit
<1>2. Inv /\ [Next]_vars => Inv'
  <2>1. TypeOK /\ [Next]_vars => TypeOK'
    BY StoreStep, ScoringStep, PresenceStep, ThreadsStep, HistoryStep DEF TypeOK
  <2>2. TableInv /\ [Next]_vars /\ Patient' => TableInv'
    BY <2>1, ThreadStep, BidStep, ClientStep, RemovalStep, ScoredStep, TurnStep, FoulStep
    DEF TableInv
  <2> QED BY <2>1, <2>2, AlwaysWaited
<1>3. Inv => (Patient => TableInv)
  OBVIOUS
<1> QED BY <1>1, <1>2, <1>3, PTL DEF Spec

\* A game is scored if somebody in the room has played the last card, and only
\* if somebody has (checkAndHandleGameEnd, handleLeaveRoom).
THEOREM LastCardScores == Spec => []WinnerIsScored
<1>1. (Patient => TableInv) => WinnerIsScored
  <2> SUFFICES ASSUME Patient, TableInv, AllIdle, phase = "playing" PROVE
         /\ (\E p \in members : hand[p] = {}) => settled > 0
         /\ settled > 0 => \E p \in Players : hand[p] = {}
    BY DEF WinnerIsScored
  <2>1. ~AboutToScore
    BY DEF AllIdle, AboutToScore
  <2>2. (\E p \in members : hand[p] = {}) => settled # 0
    BY <2>1 DEF TableInv, ScoredInv
  <2>3. settled \in Nat
    BY DEF TableInv, TypeOK, HistoryOK
  <2>4. settled # 0 <=> settled > 0
    BY <2>3
  <2>5. settled # 0 => \E p \in Players : hand[p] = {}
    BY DEF TableInv, ScoredInv
  <2> QED BY <2>2, <2>4, <2>5
<1> QED BY TableCorrect, <1>1, PTL

\* Nobody moves, or is moved for, out of turn, and current_turn follows the
\* rules of the game (PlayAHand, executeAIPlay, getNextPlayer).
THEOREM MovesInTurn == Spec => []EveryoneInTurn
<1>1. (Patient => TableInv) => EveryoneInTurn
  <2> SUFFICES ASSUME Patient, TableInv
               PROVE  (EndUnseen \/ fouls = {}) /\ (Underway => turn = due)
    BY DEF EveryoneInTurn
  <2>1. EndUnseen \/ fouls = {}
    BY DEF TableInv, FoulInv, GoneOut, EndUnseen
  <2>2. Underway => turn = due
    BY DEF TableInv, TurnInv, Live, Underway, AtRest
  <2> QED BY <2>1, <2>2
<1> QED BY TableCorrect, <1>1, PTL

\* The clients the server listens to, its timers and current_turn name the
\* same player (PlayAHand, handleDisconnect, handleTimeout).
THEOREM OneTurn == Spec => []TurnAgreement
<1>1. (Patient => TableInv) => TurnAgreement
  BY DEF TableInv, TurnInv, Live, Underway, AtRest, BelievesOnly, TurnAgreement
<1> QED BY TableCorrect, <1>1, PTL

\* Whose turn it is knows it: no hand-over gets lost (Told, Resync).
THEOREM TurnsArrive == Spec => []NoLostTurn
<1>1. (Patient => TableInv) => NoLostTurn
  BY DEF TableInv, TurnInv, Live, Underway, AtRest, BelievesOnly, NoLostTurn
<1> QED BY TableCorrect, <1>1, PTL
===============================================================================
