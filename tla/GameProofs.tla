------------------------------ MODULE GameProofs ------------------------------
(***************************************************************************)
(* Proofs about Game for every pack of cards and every bound, whenever     *)
(* clients and timers act: its types, and that the scores balance.         *)
(***************************************************************************)
EXTENDS Game, TLAPS

\* getNextPlayer names a player, or nobody when there is no order.
LEMMA AfterType ==
  ASSUME NEW p \in Players, order \in Seating \cup {<< >>}
  PROVE  After(p) \in Players \cup {NoOne}
<1>1. CASE order = << >>
  BY <1>1 DEF After
<1>2. CASE order \in Seating /\ order # << >>
  <2> DEFINE follows(i) == order[IF i = 1 THEN 3 ELSE i - 1] = p
             n == CHOOSE i \in 1..3 : follows(i)
  <2>1. /\ order[1] \in Players /\ order[2] \in Players /\ order[3] \in Players
        /\ p = order[1] \/ p = order[2] \/ p = order[3]
    BY <1>2 DEF Seating, Orders
  <2>2. \E i \in 1..3 : follows(i)
    <3>1. CASE p = order[1]
      BY <3>1
    <3>2. CASE p = order[2]
      BY <3>2
    <3>3. CASE p = order[3]
      BY <3>3
    <3> QED BY <2>1, <3>1, <3>2, <3>3
  <2>3. n \in 1..3
    <3> HIDE DEF follows
    <3> QED BY <2>2
  <2>4. order[n] \in Players
    <3> HIDE DEF n
    <3> QED BY <2>1, <2>3
  <2> QED BY <1>2, <2>4 DEF After
<1> QED BY <1>1, <1>2

\* A pack is dealt out in cards.
LEMMA DealType ==
  ASSUME NEW s \in Shuffles
  PROVE  /\ \A i : DealtTo(s, i) \subseteq Cards
         /\ BottomOf(s) \subseteq Cards
<1>1. s \in Seq(Cards) /\ Len(s) \in Nat /\ BottomSize \in Nat /\ BottomSize + 3 <= Len(s)
  BY ConstantsAssumption
<1>2. \A k \in 1 .. Len(s) : s[k] \in Cards
  BY <1>1
<1> QED BY <1>1, <1>2 DEF DealtTo, BottomOf

\* What clients are told is something a client can be doing.
LEMMA ShownType ==
  ASSUME PresenceOK, NEW S, NEW p, NEW q,
         NEW c \in Doings, NEW d \in Doings
  PROVE  /\ Shown(S, c, p, d) \in [Players -> Doings]
         /\ Told(S, q) \in [Players -> Doings]
  BY DEF PresenceOK, Shown, Told, Doings

\* The smallest card of a hand is of the hand.
LEMMA SmallestType ==
  ASSUME NEW S \in SUBSET Cards
  PROVE  Smallest(S) \subseteq Cards
  BY DEF Smallest

\* The record of moves speaks of players.
LEMMA MovesType ==
  ASSUME HistoryOK, StoreOK, NEW p \in Players, Moves(p)
  PROVE  fouls' \subseteq Players /\ due' \in Players \cup {NoOne}
  BY DEF HistoryOK, StoreOK, Moves

\* What begins during a handler is counted.
LEMMA BeginType == HistoryOK /\ Begin => haste' \in Nat
  BY DEF HistoryOK, Begin

\* A race for a hand is a race for the hand of a player.
LEMMA TakesType ==
  ASSUME HistoryOK, NEW t, NEW p \in Players, NEW C, Takes(t, p, C)
  PROVE  raced' \subseteq Players
  BY DEF HistoryOK, Takes

\* A thread that returns leaves its local variables as they were at first.
LEMMA ReturnType ==
  ASSUME ThreadsOK, NEW t \in Threads, Return(t)
  PROVE  ThreadsOK'
  BY DEF ThreadsOK, Return, Goto, Steps

\* A scored game leaves whole numbers.
LEMMA SettleType ==
  ASSUME ScoringOK, NEW w, Settle(w)
  PROVE  score' \in [Players -> Int]
<1> DEFINE final == baseBet * multiplier
           won   == IF w = lord THEN final ELSE -final
<1>1. final \in Int
  BY DEF ScoringOK
<1>2. won \in Int /\ 2 * won \in Int /\ -won \in Int
  <2> HIDE DEF final
  <2> QED BY <1>1
<1> HIDE DEF won
<1>3. ASSUME NEW p \in Players
      PROVE  score[p] + (IF p = lord THEN 2 * won ELSE -won) \in Int
  BY <1>2 DEF ScoringOK
<1> QED BY <1>3 DEF Settle, ScoringOK, won, final

\* Everything is well typed in an empty room.
LEMMA TypeInit == Init => TypeOK
<1> SUFFICES ASSUME Init PROVE TypeOK
  OBVIOUS
<1>1. StoreOK
  BY DEF Init, StoreOK
<1>2. ScoringOK
  <2>1. /\ score = [p \in Players |-> 0] /\ lord = NoOne /\ highPlayer = NoOne
        /\ baseBet = 0 /\ highBet = 0 /\ multiplier = 1 /\ grabCount = 0
    BY DEF Init
  <2>2. score \in [Players -> Int]
    BY <2>1
  <2> QED BY <2>1, <2>2 DEF ScoringOK
<1>3. PresenceOK
  BY DEF Init, PresenceOK, Doings
<1>4. ThreadsOK
  <2>1. /\ pc = [t \in Threads |-> "idle"] /\ who = [t \in Threads |-> NoOne]
        /\ ai = [t \in Threads |-> FALSE] /\ cards = [t \in Threads |-> {}]
        /\ got = [t \in Threads |-> {}] /\ iter = [t \in Threads |-> 0]
    BY DEF Init
  <2>2. /\ ai \in [Threads -> BOOLEAN] /\ cards \in [Threads -> SUBSET Cards]
        /\ got \in [Threads -> SUBSET Cards] /\ iter \in [Threads -> 0..2]
    BY <2>1
  <2>3. /\ pc \in [Threads -> Steps] /\ who \in [Threads -> Players \cup {NoOne}]
    BY <2>1 DEF Steps
  <2> QED BY <2>1, <2>2, <2>3 DEF ThreadsOK
<1>5. HistoryOK
  BY DEF Init, HistoryOK
<1> QED BY <1>1, <1>2, <1>3, <1>4, <1>5 DEF TypeOK

\* A step that may hand the turn over works for a player.
LEMMA TurnType ==
  ASSUME TypeOK, NEW t \in Threads, pc[t] \notin {"idle", "expire"}
  PROVE  After(who[t]) \in Players \cup {NoOne}
  BY AfterType DEF TypeOK, StoreOK, ThreadsOK

\* The bid that counts has a bidder.
LEMMA BidType ==
  ASSUME TypeOK, NEW p \in Players, NEW bet \in Bets
  PROVE  LET high == IF bet > highBet THEN bet ELSE highBet
             best == IF bet > highBet THEN p ELSE highPlayer
         IN /\ high \in 0..3 /\ best \in Players \cup {NoOne}
            /\ high # 0 => best \in Players
  BY ConstantsAssumption DEF TypeOK, ScoringOK

\* A deal leaves every player with cards.
LEMMA DealStep == Deal => StoreOK'
<1> SUFFICES ASSUME Deal PROVE StoreOK'
  OBVIOUS
<1>1. PICK s \in Shuffles, o \in Seating :
        /\ order' = o
        /\ hand' = [p \in Players |-> DealtTo(s, CHOOSE i \in 1..3 : o[i] = p)]
        /\ bottom' = BottomOf(s)
  BY DEF Deal
<1>2. hand' \in [Players -> SUBSET Cards] /\ bottom' \in SUBSET Cards
  BY <1>1, DealType
<1> QED BY <1>1, <1>2 DEF Deal, StoreOK

\* Every step keeps the types: of what Redis holds about the game, ...
LEMMA StoreStep == TypeOK /\ [Next]_vars => StoreOK'
<1> SUFFICES ASSUME TypeOK, [Next]_vars PROVE StoreOK'
  OBVIOUS
<1> USE DEF StoreOK, store
<1>0. ASSUME Deal PROVE StoreOK'
  BY <1>0, DealStep
<1>1. CASE ReadyForPlay
  BY <1>1, <1>0 DEF ReadyForPlay, StartGame
<1>2. ASSUME NEW p \in Players, NEW bet \in Bets, GrabLord(p, bet) PROVE StoreOK'
  <2>1. ASSUME NEW q, LordDetermined(q), q \in Players PROVE StoreOK'
    BY <2>1 DEF TypeOK, LordDetermined
  <2>2. CASE NextBid(p)
    BY <2>2 DEF TypeOK, NextBid
  <2>3. CASE TooFew
    BY <2>3 DEF TooFew
  <2> QED BY <1>2, <2>1, <2>2, <2>3, <1>0, BidType DEF GrabLord
<1>3. ASSUME NEW p \in Players, NEW C \in SUBSET hand[p], Play(p, C) PROVE StoreOK'
  BY <1>3 DEF TypeOK, Play
<1>4. ASSUME NEW t \in Threads, ReadHand(t) PROVE StoreOK'
  BY <1>4 DEF TypeOK, ReadHand
<1>5. ASSUME NEW t \in Threads, WriteHand(t) PROVE StoreOK'
  <2>1. \A c : got[t] \ {c} \in SUBSET Cards
    BY DEF TypeOK, ThreadsOK
  <2> QED BY <1>5, <2>1 DEF TypeOK, WriteHand
<1>6. ASSUME NEW t \in Threads, EndGame(t) PROVE StoreOK'
  <2>1. controller' \in Players \cup {NoOne}
    BY <1>6 DEF TypeOK, ThreadsOK, EndGame
  <2> QED BY <1>6, <2>1 DEF TypeOK, EndGame
<1>7. ASSUME NEW t \in Threads, GameGoesOn(t) PROVE StoreOK'
  <2>1. controller' \in Players \cup {NoOne}
    BY <1>7 DEF TypeOK, ThreadsOK, GameGoesOn
  <2> QED BY <1>7, <2>1 DEF TypeOK, GameGoesOn
<1>8. ASSUME NEW t \in Threads, PassTurn(t) PROVE StoreOK'
  BY <1>8, TurnType DEF TypeOK, PassTurn
<1>9. ASSUME NEW t \in Threads, AINothing(t) PROVE StoreOK'
  BY <1>9 DEF TypeOK, AINothing
<1>10. ASSUME NEW t \in Threads, AIMove(t) PROVE StoreOK'
  BY <1>10 DEF TypeOK, AIMove
<1>11. ASSUME NEW t \in Threads, AITell(t) PROVE StoreOK'
  BY <1>11, TurnType DEF TypeOK, AITell
<1>12. ASSUME NEW t \in Threads, Chain(t) PROVE StoreOK'
  BY <1>12, TurnType DEF TypeOK, Chain
<1>13. ASSUME NEW X \in SUBSET timers, Collect(X) PROVE StoreOK'
  BY <1>13 DEF TypeOK, Collect
<1>14. ASSUME NEW p \in expired, HandleTimeout(p) PROVE StoreOK'
  BY <1>14 DEF TypeOK, HandleTimeout
<1>15. CASE CheckNextPlayer
  BY <1>15 DEF TypeOK, CheckNextPlayer
<1>16. ASSUME NEW p \in Players, Drop(p) PROVE StoreOK'
  BY <1>16 DEF TypeOK, Drop
<1>17. ASSUME NEW p \in Players, HeartbeatLost(p) PROVE StoreOK'
  BY <1>17 DEF TypeOK, HeartbeatLost
<1>18. ASSUME NEW p \in Players, DropSuperseded(p) PROVE StoreOK'
  BY <1>18 DEF TypeOK, DropSuperseded
<1>19. ASSUME NEW p \in Players, Reconnect(p) PROVE StoreOK'
  BY <1>19 DEF TypeOK, Reconnect
<1>20. ASSUME NEW p \in Players, Continue(p) PROVE StoreOK'
  BY <1>20, <1>0 DEF TypeOK, Continue, StartGame
<1>21. ASSUME NEW p \in Players, GameOver(p) PROVE StoreOK'
  BY <1>21 DEF TypeOK, GameOver
<1>22. ASSUME NEW p \in Players, LeaveRoom(p) PROVE StoreOK'
  BY <1>22 DEF TypeOK, LeaveRoom
<1>23. CASE UNCHANGED vars
  BY <1>23 DEF TypeOK, vars
<1> QED
  BY <1>1, <1>2, <1>3, <1>4, <1>5, <1>6, <1>7, <1>8, <1>9, <1>10, <1>11, <1>12, <1>13,
    <1>14, <1>15, <1>16, <1>17, <1>18, <1>19, <1>20, <1>21, <1>22, <1>23
  DEF Next, Bidding, Playing, Handlers, Timeouts, Faults, Returning

\* ... of the bids and the scores, ...
LEMMA ScoringStep == TypeOK /\ [Next]_vars => ScoringOK'
<1> SUFFICES ASSUME TypeOK, [Next]_vars PROVE ScoringOK'
  OBVIOUS
<1> USE DEF TypeOK, ScoringOK, scoring
<1>1. CASE ReadyForPlay
  BY <1>1 DEF ReadyForPlay
<1>2. ASSUME NEW p \in Players, NEW bet \in Bets, GrabLord(p, bet) PROVE ScoringOK'
  <2>1. CASE highBet' = 0 /\ highPlayer' = NoOne /\ lord' = lord /\ baseBet' = baseBet
    BY <1>2, <2>1 DEF GrabLord
  <2> QED BY <1>2, <2>1, BidType DEF GrabLord
<1>3. ASSUME NEW p \in Players, NEW C \in SUBSET hand[p], Play(p, C) PROVE ScoringOK'
  <2>1. multiplier' \in Nat
    BY <1>3 DEF Play
  <2> QED BY <1>3, <2>1 DEF Play
<1>4. ASSUME NEW t \in Threads, ReadHand(t) PROVE ScoringOK'
  BY <1>4 DEF ReadHand
<1>5. ASSUME NEW t \in Threads, WriteHand(t) PROVE ScoringOK'
  BY <1>5 DEF WriteHand
<1>6. ASSUME NEW t \in Threads, EndGame(t) PROVE ScoringOK'
  <2>1. score' \in [Players -> Int]
    BY <1>6, SettleType DEF EndGame
  <2> QED BY <1>6, <2>1 DEF EndGame
<1>7. ASSUME NEW t \in Threads, GameGoesOn(t) PROVE ScoringOK'
  BY <1>7 DEF GameGoesOn
<1>8. ASSUME NEW t \in Threads, PassTurn(t) PROVE ScoringOK'
  BY <1>8 DEF PassTurn
<1>9. ASSUME NEW t \in Threads, AINothing(t) PROVE ScoringOK'
  BY <1>9 DEF AINothing
<1>10. ASSUME NEW t \in Threads, AIMove(t) PROVE ScoringOK'
  BY <1>10 DEF AIMove
<1>11. ASSUME NEW t \in Threads, AITell(t) PROVE ScoringOK'
  BY <1>11 DEF AITell
<1>12. ASSUME NEW t \in Threads, Chain(t) PROVE ScoringOK'
  BY <1>12 DEF Chain
<1>13. ASSUME NEW X \in SUBSET timers, Collect(X) PROVE ScoringOK'
  BY <1>13 DEF Collect
<1>14. ASSUME NEW p \in expired, HandleTimeout(p) PROVE ScoringOK'
  BY <1>14 DEF HandleTimeout
<1>15. CASE CheckNextPlayer
  BY <1>15 DEF CheckNextPlayer
<1>16. ASSUME NEW p \in Players, Drop(p) PROVE ScoringOK'
  BY <1>16 DEF Drop
<1>17. ASSUME NEW p \in Players, HeartbeatLost(p) PROVE ScoringOK'
  BY <1>17 DEF HeartbeatLost
<1>18. ASSUME NEW p \in Players, DropSuperseded(p) PROVE ScoringOK'
  BY <1>18 DEF DropSuperseded
<1>19. ASSUME NEW p \in Players, Reconnect(p) PROVE ScoringOK'
  BY <1>19 DEF Reconnect
<1>20. ASSUME NEW p \in Players, Continue(p) PROVE ScoringOK'
  BY <1>20 DEF Continue
<1>21. ASSUME NEW p \in Players, GameOver(p) PROVE ScoringOK'
  <2>1. score' \in [Players -> Int]
    BY <1>21, SettleType DEF GameOver
  <2> QED BY <1>21, <2>1 DEF GameOver
<1>22. ASSUME NEW p \in Players, LeaveRoom(p) PROVE ScoringOK'
  BY <1>22 DEF LeaveRoom
<1>23. CASE UNCHANGED vars
  BY <1>23 DEF vars, scoring, net, run
<1> QED
  BY <1>1, <1>2, <1>3, <1>4, <1>5, <1>6, <1>7, <1>8, <1>9, <1>10, <1>11, <1>12, <1>13,
    <1>14, <1>15, <1>16, <1>17, <1>18, <1>19, <1>20, <1>21, <1>22, <1>23
  DEF Next, Bidding, Playing, Handlers, Timeouts, Faults, Returning

\* ... of who is there, ...
LEMMA PresenceStep == TypeOK /\ [Next]_vars => PresenceOK'
<1> SUFFICES ASSUME TypeOK, [Next]_vars PROVE PresenceOK'
  OBVIOUS
<1> USE DEF TypeOK, PresenceOK, Doings, net
<1>0. ASSUME Deal PROVE client' \in [Players -> Doings]
  BY <1>0 DEF Deal, Shown
<1>1. CASE ReadyForPlay
  BY <1>1, <1>0 DEF ReadyForPlay, StartGame
<1>2. ASSUME NEW p \in Players, NEW bet \in Bets, GrabLord(p, bet) PROVE PresenceOK'
  <2>1. ASSUME NEW q, LordDetermined(q), q \in Players PROVE timers' \subseteq Players
    BY <2>1 DEF LordDetermined
  <2>2. ASSUME NEW q, LordDetermined(q) PROVE client' \in [Players -> Doings]
    BY <2>2 DEF LordDetermined, Shown
  <2>3. CASE NextBid(p)
    BY <1>2, <2>3 DEF GrabLord, NextBid
  <2>4. CASE TooFew /\ timers' = timers
    BY <1>2, <2>4 DEF GrabLord, TooFew, Shown
  <2> QED BY <1>2, <2>1, <2>2, <2>3, <2>4, <1>0, BidType DEF GrabLord
<1>3. ASSUME NEW p \in Players, NEW C \in SUBSET hand[p], Play(p, C) PROVE PresenceOK'
  BY <1>3, ShownType DEF Play, Without
<1>4. ASSUME NEW t \in Threads, ReadHand(t) PROVE PresenceOK'
  BY <1>4 DEF ReadHand
<1>5. ASSUME NEW t \in Threads, WriteHand(t) PROVE PresenceOK'
  BY <1>5 DEF WriteHand
<1>6. ASSUME NEW t \in Threads, EndGame(t) PROVE PresenceOK'
  BY <1>6, ShownType DEF EndGame
<1>7. ASSUME NEW t \in Threads, GameGoesOn(t) PROVE PresenceOK'
  BY <1>7 DEF GameGoesOn
<1>8. ASSUME NEW t \in Threads, PassTurn(t) PROVE PresenceOK'
  BY <1>8, TurnType DEF PassTurn
<1>9. ASSUME NEW t \in Threads, AINothing(t) PROVE PresenceOK'
  BY <1>9 DEF AINothing
<1>10. ASSUME NEW t \in Threads, AIMove(t) PROVE PresenceOK'
  BY <1>10 DEF AIMove
<1>11. ASSUME NEW t \in Threads, AITell(t) PROVE PresenceOK'
  BY <1>11, ShownType DEF AITell
<1>12. ASSUME NEW t \in Threads, Chain(t) PROVE PresenceOK'
  BY <1>12 DEF Chain
<1>13. ASSUME NEW X \in SUBSET timers, Collect(X) PROVE PresenceOK'
  BY <1>13 DEF Collect
<1>14. ASSUME NEW p \in expired, HandleTimeout(p) PROVE PresenceOK'
  BY <1>14 DEF HandleTimeout, Without
<1>15. CASE CheckNextPlayer
  <2>1. After(who[Checker]) \in Players \cup {NoOne}
    BY <1>15, TurnType DEF CheckNextPlayer, Threads
  <2> QED BY <1>15, <2>1 DEF CheckNextPlayer
<1>16. ASSUME NEW p \in Players, Drop(p) PROVE PresenceOK'
  BY <1>16 DEF Drop
<1>17. ASSUME NEW p \in Players, HeartbeatLost(p) PROVE PresenceOK'
  BY <1>17 DEF HeartbeatLost
<1>18. ASSUME NEW p \in Players, DropSuperseded(p) PROVE PresenceOK'
  BY <1>18 DEF DropSuperseded
<1>19. ASSUME NEW p \in Players, Reconnect(p) PROVE PresenceOK'
  BY <1>19 DEF Reconnect, Resync
<1>20. ASSUME NEW p \in Players, Continue(p) PROVE PresenceOK'
  <2>1. client' \in [Players -> Doings] /\ timers' \subseteq Players /\ offline'
    \subseteq Players
    BY <1>20, <1>0 DEF Continue, StartGame
  <2> QED BY <1>20, <2>1 DEF Continue
<1>21. ASSUME NEW p \in Players, GameOver(p) PROVE PresenceOK'
  BY <1>21 DEF GameOver
<1>22. ASSUME NEW p \in Players, LeaveRoom(p) PROVE PresenceOK'
  BY <1>22 DEF LeaveRoom
<1>23. CASE UNCHANGED vars
  BY <1>23 DEF vars, scoring, net, run
<1> QED
  BY <1>1, <1>2, <1>3, <1>4, <1>5, <1>6, <1>7, <1>8, <1>9, <1>10, <1>11, <1>12, <1>13,
    <1>14, <1>15, <1>16, <1>17, <1>18, <1>19, <1>20, <1>21, <1>22, <1>23
  DEF Next, Bidding, Playing, Handlers, Timeouts, Faults, Returning

\* ... of what the threads are at, ...
LEMMA ThreadsStep == TypeOK /\ [Next]_vars => ThreadsOK'
<1> SUFFICES ASSUME TypeOK, [Next]_vars PROVE ThreadsOK'
  OBVIOUS
<1> USE DEF TypeOK, ThreadsOK, Steps
<1>1. CASE ReadyForPlay
  BY <1>1 DEF ReadyForPlay, run
<1>2. ASSUME NEW p \in Players, NEW bet \in Bets, GrabLord(p, bet) PROVE ThreadsOK'
  BY <1>2 DEF GrabLord, run
<1>3. ASSUME NEW p \in Players, NEW C \in SUBSET hand[p], Play(p, C) PROVE ThreadsOK'
  BY <1>3 DEF Play, Goto, Threads, StoreOK
<1>4. ASSUME NEW t \in Threads, ReadHand(t) PROVE ThreadsOK'
  BY <1>4 DEF ReadHand, Goto, StoreOK
<1>5. ASSUME NEW t \in Threads, WriteHand(t) PROVE ThreadsOK'
  BY <1>5 DEF WriteHand, Goto
<1>6. ASSUME NEW t \in Threads, EndGame(t) PROVE ThreadsOK'
  <2>1. CASE Return(t)
    BY <2>1, ReturnType DEF Threads
  <2>2. CASE ~Return(t)
    BY <1>6, <2>2 DEF EndGame, Goto, PresenceOK, Threads
  <2> QED BY <2>1, <2>2
<1>7. ASSUME NEW t \in Threads, GameGoesOn(t) PROVE ThreadsOK'
  BY <1>7 DEF GameGoesOn, Goto
<1>8. ASSUME NEW t \in Threads, PassTurn(t) PROVE ThreadsOK'
  <2>1. CASE Return(t)
    BY <2>1, ReturnType
  <2>2. CASE /\ After(who[t]) \in offline /\ Goto(t, "ai")
             /\ who' = [who EXCEPT ![t] = After(who[t])] /\ ai' = [ai EXCEPT ![t] = TRUE]
             /\ UNCHANGED <<cards, got, iter>>
    <3>1. After(who[t]) \in Players
      BY <2>2 DEF PresenceOK
    <3> QED BY <2>2, <3>1 DEF Goto
  <2> QED BY <1>8, <2>1, <2>2 DEF PassTurn
<1>9. ASSUME NEW t \in Threads, AINothing(t) PROVE ThreadsOK'
  BY <1>9 DEF AINothing, Goto
<1>10. ASSUME NEW t \in Threads, AIMove(t) PROVE ThreadsOK'
  <2>1. Smallest(hand[who[t]]) \subseteq Cards
    BY <1>10, SmallestType DEF AIMove, StoreOK
  <2> QED BY <1>10, <2>1 DEF AIMove, Goto
<1>11. ASSUME NEW t \in Threads, AITell(t) PROVE ThreadsOK'
  BY <1>11 DEF AITell, Goto
<1>12. ASSUME NEW t \in Threads, Chain(t) PROVE ThreadsOK'
  <2>1. CASE Return(t)
    BY <2>1, ReturnType DEF Threads
  <2>2. CASE ~Return(t)
    BY <1>12, <2>2 DEF Chain, Goto, PresenceOK, Threads
  <2> QED BY <2>1, <2>2
<1>13. ASSUME NEW X \in SUBSET timers, Collect(X) PROVE ThreadsOK'
  BY <1>13 DEF Collect, Goto
<1>14. ASSUME NEW p \in expired, HandleTimeout(p) PROVE ThreadsOK'
  BY <1>14 DEF HandleTimeout, Goto, Threads, PresenceOK
<1>15. CASE CheckNextPlayer
  <2>1. CASE Return(Checker)
    BY <2>1, ReturnType DEF Threads
  <2>2. CASE ~Return(Checker)
    BY <1>15, <2>2 DEF CheckNextPlayer, Goto, PresenceOK, Threads
  <2> QED BY <2>1, <2>2
<1>16. ASSUME NEW p \in Players, Drop(p) PROVE ThreadsOK'
  BY <1>16 DEF Drop, run
<1>17. ASSUME NEW p \in Players, HeartbeatLost(p) PROVE ThreadsOK'
  BY <1>17 DEF HeartbeatLost, run
<1>18. ASSUME NEW p \in Players, DropSuperseded(p) PROVE ThreadsOK'
  BY <1>18 DEF DropSuperseded, run
<1>19. ASSUME NEW p \in Players, Reconnect(p) PROVE ThreadsOK'
  BY <1>19 DEF Reconnect, run
<1>20. ASSUME NEW p \in Players, Continue(p) PROVE ThreadsOK'
  BY <1>20 DEF Continue, run
<1>21. ASSUME NEW p \in Players, GameOver(p) PROVE ThreadsOK'
  BY <1>21 DEF GameOver, run
<1>22. ASSUME NEW p \in Players, LeaveRoom(p) PROVE ThreadsOK'
  BY <1>22 DEF LeaveRoom, run
<1>23. CASE UNCHANGED vars
  BY <1>23 DEF vars, scoring, net, run
<1> QED
  BY <1>1, <1>2, <1>3, <1>4, <1>5, <1>6, <1>7, <1>8, <1>9, <1>10, <1>11, <1>12, <1>13,
    <1>14, <1>15, <1>16, <1>17, <1>18, <1>19, <1>20, <1>21, <1>22, <1>23
  DEF Next, Bidding, Playing, Handlers, Timeouts, Faults, Returning

\* ... and of the history.
LEMMA HistoryStep == TypeOK /\ [Next]_vars => HistoryOK'
<1> SUFFICES ASSUME TypeOK, [Next]_vars PROVE HistoryOK'
  OBVIOUS
<1> USE DEF TypeOK, HistoryOK, history
<1>0. ASSUME Deal, faults' = faults, haste' \in Nat PROVE HistoryOK'
  <2>1. /\ deals' = deals + 1 /\ settled' = 0 /\ winner' = NoOne /\ played' = {}
        /\ due' = NoOne /\ fouls' = {} /\ raced' = {}
    BY <1>0 DEF Deal
  <2>2. overdealt' \in BOOLEAN
    BY <1>0, Zenon DEF Deal
  <2> QED BY <1>0, <2>1, <2>2
<1>1. CASE ReadyForPlay
  <2>1. faults' = faults /\ haste' \in Nat
    BY <1>1 DEF ReadyForPlay
  <2> QED BY <1>1, <2>1, <1>0 DEF ReadyForPlay, StartGame
<1>2. ASSUME NEW p \in Players, NEW bet \in Bets, GrabLord(p, bet) PROVE HistoryOK'
  <2>0. faults' = faults /\ haste' \in Nat
    BY <1>2, BeginType DEF GrabLord
  <2>1. ASSUME NEW q, LordDetermined(q), q \in Players PROVE HistoryOK'
    <3>1. /\ due' \in {due, q} /\ deals' = deals /\ settled' = settled
          /\ winner' = winner /\ played' = played /\ fouls' = fouls /\ raced' = raced
      BY <2>1 DEF LordDetermined
    <3>2. overdealt' = overdealt \/ overdealt' = (overdealt \/ \E t \in Threads : AtHand(t))
      BY <2>1, Zenon DEF LordDetermined
    <3>3. overdealt' \in BOOLEAN
      BY <3>2, Zenon
    <3> QED BY <2>0, <2>1, <3>1, <3>3
  <2>2. CASE NextBid(p)
    BY <2>0, <2>2 DEF NextBid
  <2>3. CASE TooFew
    BY <2>0, <2>3 DEF TooFew
  <2> QED BY <1>2, <2>0, <2>1, <2>2, <2>3, <1>0, BidType DEF GrabLord
<1>3. ASSUME NEW p \in Players, NEW C \in SUBSET hand[p], Play(p, C) PROVE HistoryOK'
  <2>1. haste' \in Nat /\ raced' \subseteq Players
    BY <1>3, BeginType, TakesType DEF Play
  <2> QED BY <1>3, <2>1, MovesType DEF Play, StoreOK
<1>4. ASSUME NEW t \in Threads, ReadHand(t) PROVE HistoryOK'
  BY <1>4 DEF ReadHand
<1>5. ASSUME NEW t \in Threads, WriteHand(t) PROVE HistoryOK'
  BY <1>5 DEF WriteHand
<1>6. ASSUME NEW t \in Threads, EndGame(t) PROVE HistoryOK'
  BY <1>6 DEF EndGame
<1>7. ASSUME NEW t \in Threads, GameGoesOn(t) PROVE HistoryOK'
  BY <1>7 DEF GameGoesOn
<1>8. ASSUME NEW t \in Threads, PassTurn(t) PROVE HistoryOK'
  BY <1>8 DEF PassTurn
<1>9. ASSUME NEW t \in Threads, AINothing(t) PROVE HistoryOK'
  BY <1>9 DEF AINothing
<1>10. ASSUME NEW t \in Threads, AIMove(t) PROVE HistoryOK'
  <2>1. who[t] \in Players
    BY <1>10 DEF AIMove, ThreadsOK
  <2>2. Smallest(hand[who[t]]) \subseteq Cards
    BY <2>1, SmallestType DEF StoreOK
  <2>3. raced' \subseteq Players
    BY <1>10, <2>1, TakesType DEF AIMove
  <2> QED BY <1>10, <2>1, <2>2, <2>3, MovesType DEF AIMove
<1>11. ASSUME NEW t \in Threads, AITell(t) PROVE HistoryOK'
  BY <1>11 DEF AITell
<1>12. ASSUME NEW t \in Threads, Chain(t) PROVE HistoryOK'
  BY <1>12 DEF Chain
<1>13. ASSUME NEW X \in SUBSET timers, Collect(X) PROVE HistoryOK'
  BY <1>13, BeginType DEF Collect
<1>14. ASSUME NEW p \in expired, HandleTimeout(p) PROVE HistoryOK'
  BY <1>14 DEF HandleTimeout
<1>15. CASE CheckNextPlayer
  BY <1>15 DEF CheckNextPlayer
<1>16. ASSUME NEW p \in Players, Drop(p) PROVE HistoryOK'
  BY <1>16 DEF Drop
<1>17. ASSUME NEW p \in Players, HeartbeatLost(p) PROVE HistoryOK'
  BY <1>17 DEF HeartbeatLost
<1>18. ASSUME NEW p \in Players, DropSuperseded(p) PROVE HistoryOK'
  BY <1>18 DEF DropSuperseded
<1>19. ASSUME NEW p \in Players, Reconnect(p) PROVE HistoryOK'
  BY <1>19, BeginType DEF Reconnect
<1>20. ASSUME NEW p \in Players, Continue(p) PROVE HistoryOK'
  <2>1. faults' = faults /\ haste' \in Nat
    BY <1>20, BeginType DEF Continue
  <2> QED BY <1>20, <2>1, <1>0 DEF Continue, StartGame
<1>21. ASSUME NEW p \in Players, GameOver(p) PROVE HistoryOK'
  <2>1. /\ settled' \in {settled, settled + 1} /\ deals' = deals /\ faults' = faults
        /\ winner' = winner /\ played' = played /\ due' = due /\ fouls' = fouls
        /\ raced' = raced /\ overdealt' = overdealt /\ haste' \in Nat
    BY <1>21, BeginType DEF GameOver
  <2> QED BY <2>1
<1>22. ASSUME NEW p \in Players, LeaveRoom(p) PROVE HistoryOK'
  BY <1>22 DEF LeaveRoom
<1>23. CASE UNCHANGED vars
  BY <1>23 DEF vars
<1> QED
  BY <1>1, <1>2, <1>3, <1>4, <1>5, <1>6, <1>7, <1>8, <1>9, <1>10, <1>11, <1>12, <1>13,
    <1>14, <1>15, <1>16, <1>17, <1>18, <1>19, <1>20, <1>21, <1>22, <1>23
  DEF Next, Bidding, Playing, Handlers, Timeouts, Faults, Returning

\* Every variable keeps a value of its kind (all of Game), for every pack of
\* cards and whenever clients and timers act.
THEOREM TypeCorrect == Spec => []TypeOK
<1>1. TypeOK /\ [Next]_vars => TypeOK'
  BY StoreStep, ScoringStep, PresenceStep, ThreadsStep, HistoryStep DEF TypeOK
<1> QED BY TypeInit, <1>1, PTL DEF Spec

\* Scoring a game takes from the losers what it gives to the winners.
LEMMA SettleSum ==
  ASSUME ScoringOK, NEW w, Settle(w), ZeroSum
  PROVE  ZeroSum'
<1> DEFINE final == baseBet * multiplier
           won   == IF w = lord THEN final ELSE -final
<1>1. won \in Int
  <2>1. final \in Int
    BY DEF ScoringOK
  <2> HIDE DEF final
  <2> QED BY <2>1
<1>2. \/ score' = score
      \/ /\ lord \in Players
         /\ score' = [p \in Players |-> score[p] + (IF p = lord THEN 2 * won ELSE -won)]
  BY DEF Settle
<1>3. score[P1] \in Int /\ score[P2] \in Int /\ score[P3] \in Int
  BY DEF ScoringOK, Players
<1> HIDE DEF won
<1>4. CASE score' = score
  BY <1>4 DEF ZeroSum
<1>5. CASE /\ lord \in Players
           /\ score' = [p \in Players |-> score[p] + (IF p = lord THEN 2 * won ELSE -won)]
  BY <1>1, <1>3, <1>5, ConstantsAssumption DEF ZeroSum, Players
<1> QED BY <1>2, <1>4, <1>5

\* The scores of the three always add up to nothing: however often a game is
\* scored, and whatever overlaps (calculateAndUpdateGameScores).
THEOREM ScoresBalance == Spec => []ZeroSum
<1>1. Init => ZeroSum
  <2> SUFFICES ASSUME Init PROVE ZeroSum
    OBVIOUS
  <2>1. score = [p \in Players |-> 0]
    BY DEF Init
  <2> QED BY <2>1 DEF ZeroSum, Players
<1>2. TypeOK /\ ZeroSum /\ [Next]_vars => ZeroSum'
  <2> SUFFICES ASSUME TypeOK, ZeroSum, [Next]_vars PROVE ZeroSum'
    OBVIOUS
  <2>1. CASE UNCHANGED score
    BY <2>1 DEF ZeroSum
  <2>2. ASSUME NEW t \in Threads, EndGame(t) PROVE ZeroSum'
    BY <2>2, SettleSum DEF EndGame, TypeOK
  <2>3. ASSUME NEW p \in Players, GameOver(p) PROVE ZeroSum'
    BY <2>3, SettleSum DEF GameOver, TypeOK
  <2>4. UNCHANGED score \/ (\E t \in Threads : EndGame(t)) \/ (\E p \in Players :
    GameOver(p))
    BY DEF Next, Bidding, Playing, Handlers, Timeouts, Faults, Returning, vars,
      ReadyForPlay, GrabLord, Play, ReadHand, WriteHand, GameGoesOn, PassTurn, AINothing,
      AIMove, AITell, Chain, Collect, HandleTimeout, CheckNextPlayer, Drop,
      HeartbeatLost, DropSuperseded, LeaveRoom, Reconnect, Continue
  <2> QED BY <2>1, <2>2, <2>3, <2>4
<1> QED BY <1>1, <1>2, TypeCorrect, PTL DEF Spec
=============================================================================
