--------------------------------- MODULE Game ---------------------------------
(***************************************************************************)
(* A table of three: dealing, bidding for the landlord, playing in turn,   *)
(* the automatic player that stands in for absent ones, turn timers,       *)
(* disconnections and reconnections, scoring, and the next game            *)
(* (game/Communication.cpp, DisconnectManager.cpp, TurnTimeoutManager.cpp, *)
(* GameStateManager.cpp, BombDetector.cpp, the card store of Room.cpp).    *)
(*                                                                         *)
(* A thread is the worker that serves a player's connection or the         *)
(* checker thread of TurnTimeoutManager.  A handler is cut into steps      *)
(* where it gives others a chance to see or change what it works on: the   *)
(* reading and the writing of a hand, the end-of-game check, the message   *)
(* to the others, the hand-over of the turn.  Heartbeat losses and closed  *)
(* connections come between any two steps.                                 *)
(*                                                                         *)
(* Abstracted: the order of a game (by score, frozen when cards are dealt) *)
(* is any permutation; pend_cards and pend_count go with game_controller;  *)
(* the score transaction is one step; names are distinct constants.        *)
(***************************************************************************)
EXTENDS Integers, Sequences, FiniteSets

CONSTANTS
  P1, P2, P3,   \* the three players
  Checker,      \* the thread of TurnTimeoutManager
  NoOne,        \* the empty user name
  Cards,        \* pairs <<suit, point>>; the jokers have the points 14 and 15
  BottomSize,   \* how many cards are not dealt
  Shuffles,     \* the orders in which the cards can come off the pack
  Bets,         \* what a player may bid
  Announce,     \* do clients send GameOver when they learn of the end?
  MaxDeals,     \* bound: deals
  MaxTroubles   \* bound: connections closed, heartbeats lost, players who leave,
                \* and clients or timers that do not wait for a handler to end

Players == {P1, P2, P3}
Threads == Players \cup {Checker}

ASSUME ConstantsAssumption ==
  /\ P1 # P2 /\ P1 # P3 /\ P2 # P3
  /\ Checker \notin Players /\ NoOne \notin Players /\ NoOne # Checker
  /\ Cards \subseteq Nat \X Nat
  /\ BottomSize \in Nat \ {0}
  /\ Shuffles \subseteq Seq(Cards)
  /\ \A s \in Shuffles :          \* the whole pack, and enough for everybody
       /\ BottomSize + 3 <= Len(s) /\ {s[k] : k \in 1 .. Len(s)} = Cards
       /\ \A j, k \in 1 .. Len(s) : s[j] = s[k] => j = k
  /\ Bets \subseteq 0..3
  /\ Announce \in BOOLEAN
  /\ MaxDeals \in Nat /\ MaxTroubles \in Nat

VARIABLES
  hand,        \* Redis <room>_cards: what each player still holds
  bottom,      \* Redis <room>_bottom
  order,       \* Redis <room>_game_order, << >> when there is none
  phase,       \* Redis <room>_state game_phase
  turn,        \*                    current_turn
  controller,  \*                    game_controller
  lord, baseBet, multiplier, grabCount, highBet, highPlayer,
               \* GameRoomState of GameStateManager
  score,       \* MySQL information.score, as the change since the beginning
  members,     \* RoomList: who has a callback in the room
  offline,     \* DisconnectManager::m_disconnectedPlayers
  timers,      \* TurnTimeoutManager::m_activeTurns
  expired,     \* the checker's list of turns that ran out
  token,       \* players with a reconnect token in Redis
  conn,        \* players with an open connection
  active,      \* ConnectionManager: players whose connection is active
  superseded,  \* players whose connection before the last one is still open
  client,      \* what each client is doing
  pc, who, ai, cards, got, iter,
               \* per thread: its step, the player it acts for, whether as the
               \* automatic player, the cards to remove, the hand it read,
               \* and how often handleDisconnect has gone round
  deals, faults,  \* how often cards were dealt, how many faults there were
  haste,       \* how often a client or the clock acted during a handler
  settled,     \* history: how often this deal was scored
  winner,      \* history: the winner the clients were told
  played,      \* history: the cards played of this deal
  due,         \* history: whose move it is by the rules of the game
  fouls,       \* history: players who moved, or were moved for, out of turn
  raced,       \* history: players at whose hand two threads were at once
  overdealt    \* history: cards were given out while a thread was at a hand

store   == <<bottom, order, phase>>
scoring == <<lord, baseBet, multiplier, grabCount, highBet, highPlayer>>
net     == <<token, conn, active, superseded>>
run     == <<pc, who, ai, cards, got, iter>>
history == <<settled, winner, played, due, fouls, raced, overdealt>>
vars    == <<hand, store, turn, controller, scoring, score, members, offline,
             timers, expired, net, client, run, deals, faults, haste, history>>
-----------------------------------------------------------------------------
(* Operators on cards and players.                                         *)

Orders == {<<a, b, c>> : a, b, c \in Players}
Seating == {o \in Orders : {o[1], o[2], o[3]} = Players}

(* Mutations: ways the operators below could plausibly go wrong.           *)
After_Back(p) ==                                    \* the wrong neighbour
  IF order = << >> THEN NoOne
  ELSE order[CHOOSE i \in 1..3 : order[IF i = 3 THEN 1 ELSE i + 1] = p]
Told_NotNext(S, p) ==                               \* the next one is left out
  [q \in Players |-> IF q \in S \cap conn /\ client[q] = "play" THEN "watch"
                     ELSE client[q]]
Without_None(p) == timers                           \* the timer runs on
Return_Loops(t) ==                                  \* the loop is not left
  /\ pc' = [pc EXCEPT ![t] = "done"]
  /\ who' = [who EXCEPT ![t] = NoOne]
  /\ UNCHANGED <<ai, cards, got, iter>>
Settle_Single(w) ==                                 \* two losers, one share
  score' = IF order = << >> \/ lord \notin Players THEN score
           ELSE [p \in Players |-> IF (p = lord) = (w = lord)
                                   THEN score[p] + baseBet * multiplier
                                   ELSE score[p] - baseBet * multiplier]
HasWon_OneLeft(w) ==                                \* off by one
  phase = "playing" /\ w \in members /\ Cardinality(hand[w]) <= 1
isFirstHand_NoLead(p) == controller = p             \* nobody leads at first
WriteHand_ReadOnce(t) ==                            \* one copy for all cards
  /\ pc[t] = "write"
  /\ \E c \in cards[t] :
       /\ cards' = [cards EXCEPT ![t] = @ \ {c}]
       /\ hand' = IF c \in got[t] THEN [hand EXCEPT ![who[t]] = got[t] \ {c}] ELSE hand
       /\ pc' = [pc EXCEPT ![t] = IF cards[t] = {c} THEN "remove" ELSE "write"]
  /\ UNCHANGED <<store, turn, controller, scoring, score, members, offline, timers, got,
                 expired, net, client, who, ai, iter, deals, faults, haste, history>>
-----------------------------------------------------------------------------
\* getNextPlayer: in the frozen order; nobody when the order is gone
After(p) ==
  IF order = << >> THEN NoOne
  ELSE order[CHOOSE i \in 1..3 : order[IF i = 1 THEN 3 ELSE i - 1] = p]

\* where the cards of a pack go: round the table, and to the bottom
DealtTo(s, i)  == {s[k] : k \in {j \in 1 .. Len(s) - BottomSize : ((j - 1) % 3) + 1 = i}}
BottomOf(s)    == {s[k] : k \in Len(s) - BottomSize + 1 .. Len(s)}

\* getSmallestCard: the one that is least by point, then by suit
Smallest(C) == {c \in C : \A d \in C : c[2] < d[2] \/ (c[2] = d[2] /\ c[1] <= d[1])}

\* detectBomb: both jokers, or four of a kind
isJokerBomb(C)  == Cardinality(C) = 2 /\ {c[2] : c \in C} = {14, 15}
isNormalBomb(C) == /\ Cardinality(C) = 4
                   /\ \E n \in 1..13 : {c[2] : c \in C} = {n}
detectBomb(C)   == isJokerBomb(C) \/ isNormalBomb(C)

AllIdle == \A t \in Threads : pc[t] = "idle"

Bearable == faults + haste < MaxTroubles

\* a client or the clock starts something new in this room
Begin ==
  \/ AllIdle /\ UNCHANGED haste
  \/ ~AllIdle /\ Bearable /\ haste' = haste + 1

\* thread t has cards to take out of the hand of who[t]
AtHand(t) == pc[t] \in {"remove", "write"} /\ cards[t] # {}

\* history: t sets to work at the hand of p, to take C out of it
Takes(t, p, C) ==
  raced' = IF C # {} /\ \E u \in Threads \ {t} : AtHand(u) /\ who[u] = p THEN raced \cup {p}
           ELSE raced

\* the clients of S learn that p moved; one that is not playing ignores it
Told(S, p) ==
  [q \in Players |->
     IF q \in S \cap conn /\ client[q] \in {"play", "watch"}
     THEN IF q = After(p) THEN "play" ELSE "watch"
     ELSE client[q]]

\* everyone connected in S is now doing c, except that p is doing d
Shown(S, c, p, d) ==
  [q \in Players |-> IF q \notin S \cap conn THEN client[q]
                     ELSE IF q = p THEN d ELSE c]

\* history, until the game is scored: p moves, the next one round the table is due
Moves(p) ==
  IF settled > 0 \/ order = << >> THEN UNCHANGED <<due, fouls>>
  ELSE /\ fouls' = IF p = due THEN fouls ELSE fouls \cup {p}
       /\ due' \in {q \in Players : <<p, q>> \in {<<order[1], order[2]>>,
                                     <<order[2], order[3]>>, <<order[3], order[1]>>}}

\* finishPlayerTurn
Without(p) == timers \ {p}

Goto(t, label) == pc' = [pc EXCEPT ![t] = label]

\* a thread is done with this room: its local variables are gone
Return(t) ==
  /\ Goto(t, "idle")
  /\ who' = [who EXCEPT ![t] = NoOne]
  /\ ai' = [ai EXCEPT ![t] = FALSE]
  /\ cards' = [cards EXCEPT ![t] = {}]
  /\ got' = [got EXCEPT ![t] = {}]
  /\ iter' = [iter EXCEPT ![t] = 0]

Init ==
  /\ hand = [p \in Players |-> {}] /\ bottom = {} /\ order = << >>
  /\ phase = "" /\ turn = NoOne /\ controller = NoOne
  /\ lord = NoOne /\ baseBet = 0 /\ multiplier = 1
  /\ grabCount = 0 /\ highBet = 0 /\ highPlayer = NoOne
  /\ score = [p \in Players |-> 0]
  /\ members = Players /\ offline = {} /\ timers = {} /\ expired = {}
  /\ token = {} /\ conn = Players /\ active = Players /\ superseded = {}
  /\ client = [p \in Players |-> "wait"]
  /\ pc = [t \in Threads |-> "idle"]
  /\ who = [t \in Threads |-> NoOne]
  /\ ai = [t \in Threads |-> FALSE]
  /\ cards = [t \in Threads |-> {}]
  /\ got = [t \in Threads |-> {}]
  /\ iter = [t \in Threads |-> 0]
  /\ deals = 0 /\ faults = 0 /\ haste = 0
  /\ settled = 0 /\ winner = NoOne /\ played = {} /\ due = NoOne /\ fouls = {}
  /\ raced = {} /\ overdealt = FALSE
-----------------------------------------------------------------------------
(* Dealing and bidding.                                                    *)

\* dealCards and the message StartGame: clearRoomCards deletes the state of
\* the room too, the cards go round, the rest is the bottom
Deal ==
  /\ deals < MaxDeals
  /\ deals' = deals + 1
  /\ \E s \in Shuffles, o \in Seating :
       /\ order' = o
       /\ hand' = [p \in Players |-> DealtTo(s, CHOOSE i \in 1..3 : o[i] = p)]
       /\ bottom' = BottomOf(s)
       /\ client' = Shown(Players, "watch", o[1], "bid")
  /\ phase' = "" /\ turn' = NoOne /\ controller' = NoOne
  /\ settled' = 0 /\ winner' = NoOne /\ played' = {}
  /\ due' = NoOne /\ fouls' = {}
  /\ raced' = {} /\ overdealt' = (\E t \in Threads : AtHand(t))

\* handleReDealCardsInternal when somebody has left: the cards are cleared,
\* none are dealt, and StartGame is sent all the same
TooFew ==
  /\ order' = << >> /\ hand' = [p \in Players |-> {}] /\ bottom' = {}
  /\ phase' = "" /\ turn' = NoOne /\ controller' = NoOne
  /\ client' = Shown(members, "watch", NoOne, "watch")
  /\ UNCHANGED <<deals, history>>

\* startGame: GameStateManager is only told that the last game is over
StartGame ==
  /\ timers' = {}
  /\ offline' = {}
  /\ Deal

\* readyForPlay, when the third player has joined
ReadyForPlay ==
  /\ deals = 0 /\ AllIdle
  /\ StartGame
  /\ UNCHANGED <<scoring, score, members, expired, net, run, faults, haste>>

\* a bid that decides nothing yet: the others are told, the next one bids
NextBid(p) ==
  /\ client' = [q \in Players |->
       IF q = p THEN "watch"
       ELSE IF q = After(p) /\ q \in (members \cap conn) \ offline THEN "bid"
       ELSE client[q]]
  /\ UNCHANGED <<hand, store, turn, controller, timers, deals, history>>

\* sendLordDeterminedToAllPlayers
LordDetermined(p) ==
  /\ IF members = {} THEN UNCHANGED timers ELSE timers' = timers \cup {p}
  /\ IF members # {} /\ bottom # {}
     THEN /\ hand' = [hand EXCEPT ![p] = @ \cup bottom]
          /\ turn' = p /\ controller' = NoOne /\ phase' = "playing"
          /\ client' = Shown(members, "watch", p, "play")
          /\ due' = p
          /\ overdealt' = (overdealt \/ \E t \in Threads : AtHand(t))
     ELSE UNCHANGED <<hand, turn, controller, phase, client, due, overdealt>>
  /\ UNCHANGED <<bottom, order, deals, settled, winner, played, fouls, raced>>

\* handleGrabLord with recordGrabLordBet and resetGrabLordState
GrabLord(p, bet) ==
  LET high == IF bet > highBet THEN bet ELSE highBet
      best == IF bet > highBet THEN p ELSE highPlayer
      shouldFinish == bet = 3 \/ grabCount + 1 = 3
  IN
  /\ client[p] = "bid" /\ p \in conn /\ pc[p] = "idle" /\ Begin
  /\ \/ /\ ~shouldFinish
        /\ grabCount' = grabCount + 1 /\ highBet' = high /\ highPlayer' = best
        /\ UNCHANGED <<lord, baseBet>>
        /\ NextBid(p)
     \/ /\ shouldFinish
        /\ grabCount' = 0 /\ highBet' = 0 /\ highPlayer' = NoOne
        /\ \/ /\ high = 0
              /\ UNCHANGED <<lord, baseBet, timers>>
              /\ (members = Players /\ Deal) \/ (members # Players /\ TooFew)
           \/ /\ high # 0
              /\ lord' = best /\ baseBet' = high
              /\ LordDetermined(best)
  /\ UNCHANGED <<multiplier, score, members, offline, expired, net, run, faults>>
-----------------------------------------------------------------------------
(* The handler of PlayAHand.                                               *)

\* up to the bomb check: the timer is cancelled, the state says who played,
\* and the others are told, before anything else is known
Play(p, C) ==
  /\ client[p] = "play" /\ p \in conn /\ pc[p] = "idle" /\ Begin
  /\ p \notin offline
  /\ timers' = Without(p)
  /\ turn' = p
  /\ controller' = IF C = {} THEN controller ELSE p
  /\ client' = Told((members \ offline) \cup {p}, p)
  /\ multiplier' = IF detectBomb(C) THEN multiplier * 2 ELSE multiplier
  /\ who' = [who EXCEPT ![p] = p]
  /\ cards' = [cards EXCEPT ![p] = C]
  /\ Goto(p, IF C = {} THEN "next" ELSE "remove")
  /\ Moves(p)
  /\ played' = played \cup C
  /\ Takes(p, p, C)
  /\ UNCHANGED <<hand, store, lord, baseBet, grabCount, highBet, highPlayer, score,
                 members, offline, expired, net, ai, got, iter, deals, faults,
                 settled, winner, overdealt>>

\* removeCardFromPlayer, card after card: the hand is read ...
ReadHand(t) ==
  /\ pc[t] = "remove" /\ cards[t] # {}
  /\ \/ /\ hand[who[t]] = {}
        /\ \E c \in cards[t] : cards' = [cards EXCEPT ![t] = @ \ {c}]
        /\ UNCHANGED <<pc, got>>
     \/ /\ hand[who[t]] # {}
        /\ got' = [got EXCEPT ![t] = hand[who[t]]]
        /\ Goto(t, "write")
        /\ UNCHANGED cards
  /\ UNCHANGED <<hand, store, turn, controller, scoring, score, members, offline,
                 timers, expired, net, client, who, ai, iter, deals, faults, haste, history>>

\* ... and what is left of it is written back
WriteHand(t) ==
  /\ pc[t] = "write"
  /\ \E c \in cards[t] :
       /\ cards' = [cards EXCEPT ![t] = @ \ {c}]
       /\ hand' = IF c \in got[t] THEN [hand EXCEPT ![who[t]] = got[t] \ {c}] ELSE hand
  /\ got' = [got EXCEPT ![t] = {}]
  /\ Goto(t, "remove")
  /\ UNCHANGED <<store, turn, controller, scoring, score, members, offline, timers,
                 expired, net, client, who, ai, iter, deals, faults, haste, history>>

\* calculateScoreChanges and calculateAndUpdateGameScores
Settle(w) ==
  LET final == baseBet * multiplier
      won   == IF w = lord THEN final ELSE -final
  IN score' = IF order = << >> \/ lord \notin Players THEN score
              ELSE [p \in Players |-> score[p] + (IF p = lord THEN 2 * won ELSE -won)]

\* checkAndHandleGameEnd looks for a player in the room without cards
HasWon(w) == phase = "playing" /\ w \in members /\ hand[w] = {}

EndGame(t) ==
  /\ pc[t] = "remove" /\ cards[t] = {}
  /\ \E w \in Players : HasWon(w) /\ Settle(w) /\ winner' = w
  /\ controller' = IF ai[t] THEN who[t] ELSE controller
  /\ timers' = {} /\ token' = {} /\ offline' = {}
  /\ client' = Shown(members, "over", NoOne, "over")
  /\ settled' = settled + 1
  /\ \/ ai[t] /\ Goto(t, "done") /\ UNCHANGED <<who, ai, cards, got, iter>>
     \/ ~ai[t] /\ Return(t)
  /\ UNCHANGED <<hand, store, turn, scoring, members, expired, conn, active,
                 superseded, deals, faults, haste, played, due, fouls, raced, overdealt>>

GameGoesOn(t) ==
  /\ pc[t] = "remove" /\ cards[t] = {}
  /\ \A w \in Players : ~HasWon(w)
  /\ controller' = IF ai[t] THEN who[t] ELSE controller
  /\ Goto(t, IF ai[t] THEN "tell" ELSE "next")
  /\ UNCHANGED <<hand, store, turn, scoring, score, members, offline, timers, expired,
                 net, client, who, ai, cards, got, iter, deals, faults, haste, history>>

\* the turn passes: an absent player is stood in for, a present one is timed
PassTurn(t) ==
  LET next == After(who[t]) IN
  /\ pc[t] = "next"
  /\ turn' = next
  /\ \/ /\ next \in offline
        /\ Goto(t, "ai")
        /\ who' = [who EXCEPT ![t] = next]
        /\ ai' = [ai EXCEPT ![t] = TRUE]
        /\ UNCHANGED <<timers, cards, got, iter>>
     \/ /\ next \in Players \ offline
        /\ timers' = timers \cup {next}
        /\ Return(t)
     \/ /\ next = NoOne
        /\ UNCHANGED timers
        /\ Return(t)
  /\ UNCHANGED <<hand, store, controller, scoring, score, members, offline, expired,
                 net, client, deals, faults, haste, history>>
-----------------------------------------------------------------------------
(* executeAIPlay, run by handleDisconnect or by the checker thread.        *)

isFirstHand(p) == controller \in {NoOne, p}

\* a player without cards is left alone
AINothing(t) ==
  /\ pc[t] = "ai" /\ hand[who[t]] = {}
  /\ Goto(t, "done")
  /\ UNCHANGED <<hand, store, turn, controller, scoring, score, members, offline,
                 timers, expired, net, client, who, ai, cards, got, iter, deals,
                 faults, haste, history>>

\* one that leads plays the smallest card, one that follows passes
AIMove(t) ==
  LET p == who[t] IN
  /\ pc[t] = "ai" /\ hand[p] # {}
  /\ \/ /\ isFirstHand(p)
        /\ cards' = [cards EXCEPT ![t] = Smallest(hand[p])]
        /\ played' = played \cup Smallest(hand[p])
        /\ Takes(t, p, Smallest(hand[p]))
        /\ Goto(t, "remove")
     \/ /\ ~isFirstHand(p)
        /\ Goto(t, "tell")
        /\ UNCHANGED <<cards, played, raced>>
  /\ Moves(p)
  /\ UNCHANGED <<hand, store, turn, controller, scoring, score, members, offline,
                 timers, expired, net, client, who, ai, got, iter, deals, faults, haste,
                 settled, winner, overdealt>>

\* sendAIPlayMessage, and the turn goes on
AITell(t) ==
  /\ pc[t] = "tell"
  /\ client' = Told((members \ offline) \ {who[t]}, who[t])
  /\ turn' = After(who[t])
  /\ Goto(t, "done")
  /\ UNCHANGED <<hand, store, controller, scoring, score, members, offline, timers,
                 expired, net, who, ai, cards, got, iter, deals, faults, haste, history>>

\* handleDisconnect goes on with the next absent player, three at most
Chain(t) ==
  LET next == After(who[t]) IN
  /\ pc[t] = "done" /\ t # Checker
  /\ turn' = next
  /\ \/ /\ next \in offline /\ iter[t] + 1 < 3
        /\ Goto(t, "ai")
        /\ who' = [who EXCEPT ![t] = next]
        /\ iter' = [iter EXCEPT ![t] = @ + 1]
        /\ UNCHANGED <<ai, cards, got>>
     \/ /\ ~(next \in offline /\ iter[t] + 1 < 3)
        /\ Return(t)
  /\ UNCHANGED <<hand, store, controller, scoring, score, members, offline, timers,
                 expired, net, client, deals, faults, haste, history>>
-----------------------------------------------------------------------------
(* The checker thread of TurnTimeoutManager.                               *)

\* checkTimeouts: the turns that ran out are listed under the mutex ...
Collect(X) ==
  /\ pc[Checker] = "idle" /\ Begin
  /\ X # {} /\ X \subseteq timers
  /\ expired' = X
  /\ Goto(Checker, "expire")
  /\ UNCHANGED <<hand, store, turn, controller, scoring, score, members, offline,
                 timers, net, client, who, ai, cards, got, iter, deals, faults, history>>

\* ... and handled outside it: handleTimeout
HandleTimeout(p) ==
  /\ pc[Checker] = "expire" /\ p \in expired
  /\ expired' = expired \ {p}
  /\ timers' = Without(p)
  /\ offline' = offline \cup {p}
  /\ who' = [who EXCEPT ![Checker] = p]
  /\ ai' = [ai EXCEPT ![Checker] = TRUE]
  /\ Goto(Checker, "ai")
  /\ UNCHANGED <<hand, store, turn, controller, scoring, score, members, net, client,
                 cards, got, iter, deals, faults, haste, history>>

\* checkAndHandleNextPlayer: the next turn is timed, for 30 seconds or for 5
CheckNextPlayer ==
  LET next == After(who[Checker]) IN
  /\ pc[Checker] = "done"
  /\ timers' = IF next = NoOne THEN timers ELSE timers \cup {next}
  /\ \/ /\ expired = {}
        /\ Return(Checker)
     \/ /\ expired # {}
        /\ Goto(Checker, "expire")
        /\ UNCHANGED <<who, ai, cards, got, iter>>
  /\ UNCHANGED <<hand, store, turn, controller, scoring, score, members, offline,
                 expired, net, client, deals, faults, haste, history>>
-----------------------------------------------------------------------------
(* Connections.                                                            *)

\* ~Communication: the connection is closed, no reconnect token is made
Drop(p) ==
  /\ p \in conn /\ pc[p] = "idle" /\ Bearable
  /\ conn' = conn \ {p}
  /\ active' = active \ {p}
  /\ offline' = offline \cup {p}
  /\ client' = [client EXCEPT ![p] = IF @ = "left" THEN @ ELSE "out"]
  /\ faults' = faults + 1
  /\ UNCHANGED <<hand, store, turn, controller, scoring, score, members, timers,
                 expired, token, superseded, run, deals, haste, history>>

\* handleTimeoutConnection: the connection stays open
HeartbeatLost(p) ==
  /\ p \in active /\ Bearable
  /\ active' = active \ {p}
  /\ offline' = offline \cup {p}
  /\ token' = token \cup {p}
  /\ faults' = faults + 1
  /\ UNCHANGED <<hand, store, turn, controller, scoring, score, members, timers,
                 expired, conn, superseded, client, run, deals, haste, history>>

\* handleReconnectSync: the client learns whose turn it is
Resync(p) == [client EXCEPT ![p] = IF phase # "" /\ turn = p THEN "play" ELSE "watch"]

\* handleReconnectRequest, on a new connection
Reconnect(p) ==
  /\ p \in token /\ (p \in offline \/ p \notin conn) /\ client[p] # "left"
  /\ pc[p] = "idle" /\ Begin
  /\ offline' = offline \ {p}
  /\ members' = members \cup {p}
  /\ superseded' = IF p \in conn THEN superseded \cup {p} ELSE superseded
  /\ conn' = conn \cup {p}
  /\ active' = active \cup {p}
  /\ client' = Resync(p)
  /\ UNCHANGED <<hand, store, turn, controller, scoring, score, timers, expired,
                 token, run, deals, faults, history>>

\* ~Communication of a connection that the player has replaced
DropSuperseded(p) ==
  /\ p \in superseded
  /\ superseded' = superseded \ {p}
  /\ offline' = offline \cup {p}
  /\ UNCHANGED <<hand, store, turn, controller, scoring, score, members, timers,
                 expired, token, conn, active, client, run, deals, faults, haste, history>>

\* handleLeaveRoom, in the middle of a game or after it: the callback is
\* removed, and nothing else of the game is told
LeaveRoom(p) ==
  /\ client[p] \notin {"out", "left"} /\ p \in conn /\ pc[p] = "idle"
  /\ deals > 0 /\ Bearable
  /\ members' = members \ {p}
  /\ client' = [client EXCEPT ![p] = "left"]
  /\ faults' = faults + 1
  /\ UNCHANGED <<hand, store, turn, controller, scoring, score, offline, timers,
                 expired, net, run, deals, haste, history>>
-----------------------------------------------------------------------------
(* After the game.                                                         *)

\* restartGame, under its lock: the third to continue starts the game
Continue(p) ==
  LET there == (IF members = Players THEN {} ELSE members) \cup {p} IN
  /\ client[p] = "over" /\ p \in conn /\ pc[p] = "idle" /\ Begin
  /\ members' = there
  /\ \/ /\ there = Players
        /\ StartGame
     \/ /\ there # Players
        /\ client' = [client EXCEPT ![p] = "wait"]
        /\ UNCHANGED <<hand, store, turn, controller, offline, timers, deals, history>>
  /\ UNCHANGED <<scoring, score, expired, net, run, faults>>

\* the message GameOver, with the winner the client was told
GameOver(p) ==
  /\ Announce
  /\ client[p] = "over" /\ p \in conn /\ pc[p] = "idle" /\ Begin
  /\ Settle(winner)
  /\ settled' = IF order = << >> THEN settled ELSE settled + 1
  /\ hand' = [q \in Players |-> {}] /\ bottom' = {} /\ order' = << >>
  /\ phase' = "" /\ turn' = NoOne /\ controller' = NoOne
  /\ offline' = {} /\ timers' = {}
  /\ UNCHANGED <<scoring, members, expired, net, client, run, deals, faults,
                 winner, played, due, fouls, raced, overdealt>>
-----------------------------------------------------------------------------
Bidding   == \E p \in Players, bet \in Bets : GrabLord(p, bet)
Playing   == \E p \in Players : \E C \in SUBSET hand[p] : Play(p, C)
Handlers  == \E t \in Threads :
               \/ ReadHand(t) \/ WriteHand(t) \/ EndGame(t) \/ GameGoesOn(t)
               \/ PassTurn(t) \/ AINothing(t) \/ AIMove(t) \/ AITell(t) \/ Chain(t)
Timeouts  == \/ \E X \in SUBSET timers : Collect(X)
             \/ \E p \in expired : HandleTimeout(p)
             \/ CheckNextPlayer
Faults    == \E p \in Players : Drop(p) \/ HeartbeatLost(p) \/ DropSuperseded(p) \/ LeaveRoom(p)
Returning == \E p \in Players : Reconnect(p) \/ Continue(p) \/ GameOver(p)

Next == ReadyForPlay \/ Bidding \/ Playing \/ Handlers \/ Timeouts \/ Faults \/ Returning

Spec == Init /\ [][Next]_vars

\* Once the landlord is known the clients fall silent: only the server moves.
\* Its threads run, and the checker wakes every second.
SilentNext == ReadyForPlay \/ Bidding \/ Handlers \/ Timeouts \/ Faults
SilentSpec == Init /\ [][SilentNext]_vars /\ WF_vars(Handlers) /\ WF_vars(Timeouts)
-----------------------------------------------------------------------------
(* Properties.                                                             *)

Doings == {"wait", "bid", "play", "watch", "over", "out", "left"}
Steps == {"idle", "remove", "write", "next", "ai", "tell", "done", "expire"}

StoreOK ==
  /\ hand \in [Players -> SUBSET Cards] /\ bottom \in SUBSET Cards
  /\ order \in Seating \cup {<< >>}
  /\ phase \in {"", "playing"}
  /\ turn \in Players \cup {NoOne} /\ controller \in Players \cup {NoOne}

ScoringOK ==
  /\ lord \in Players \cup {NoOne} /\ highPlayer \in Players \cup {NoOne}
  /\ baseBet \in 0..3 /\ highBet \in 0..3 /\ (highBet # 0 => highPlayer \in Players)
  /\ multiplier \in Nat /\ grabCount \in Nat
  /\ score \in [Players -> Int]

PresenceOK ==
  /\ members \subseteq Players /\ offline \subseteq Players /\ timers \subseteq Players
  /\ expired \subseteq Players /\ token \subseteq Players /\ conn \subseteq Players
  /\ active \subseteq Players /\ superseded \subseteq Players
  /\ client \in [Players -> Doings]

\* a thread at work knows the player it works for
ThreadsOK ==
  /\ pc \in [Threads -> Steps] /\ who \in [Threads -> Players \cup {NoOne}]
  /\ ai \in [Threads -> BOOLEAN] /\ cards \in [Threads -> SUBSET Cards]
  /\ got \in [Threads -> SUBSET Cards] /\ iter \in [Threads -> 0..2]
  /\ \A t \in Threads : pc[t] \notin {"idle", "expire"} => who[t] \in Players

HistoryOK ==
  /\ deals \in Nat /\ faults \in Nat /\ haste \in Nat /\ settled \in Nat /\ played \in SUBSET Cards
  /\ winner \in Players \cup {NoOne} /\ due \in Players \cup {NoOne}
  /\ fouls \subseteq Players /\ raced \subseteq Players /\ overdealt \in BOOLEAN

\* Every variable has a value of its kind, and no handler goes on for nobody.
TypeOK == StoreOK /\ ScoringOK /\ PresenceOK /\ ThreadsOK /\ HistoryOK

\* What one wins another loses: however often a game is scored, by whom and
\* in whatever interleaving, the three balances add up to nothing
\* (GameStateManager::calculateScoreChanges, calculateAndUpdateGameScores).
ZeroSum == score[P1] + score[P2] + score[P3] = 0

\* the last card of one who has left was played: by its rules the game is
\* over, and checkAndHandleGameEnd, which looks at the players in the room,
\* does not see it
EndUnseen == \E p \in Players \ members : hand[p] = {}

\* so far every client, and every timer, has waited for the handlers to end
Patient == haste = 0

Underway == AllIdle /\ phase = "playing" /\ settled = 0 /\ ~EndUnseen

\* No connected client the server listens to believes it is its turn but the
\* player current_turn names, and no other player is being timed (PlayAHand,
\* handleDisconnect, handleTimeout and the messages they send).
TurnAgreement ==
  Patient /\ Underway => /\ {p \in conn \ offline : client[p] = "play"} \subseteq {turn}
              /\ timers \subseteq {turn}

\* The player whose turn it is knows it, if it is there to know: no hand-over
\* of the turn, by a player or by the automatic player, gets lost.
NoLostTurn ==
  Patient /\ Underway /\ turn \in (members \cap conn) \ offline => client[turn] = "play"

\* Nobody moves, or is moved for, out of turn, and current_turn follows the
\* rules of the game (PlayAHand, executeAIPlay, getNextPlayer).
EveryoneInTurn == Patient => (EndUnseen \/ fouls = {}) /\ (Underway => turn = due)

\* Even when the automatic player and the client play for one hand at once, no
\* card is lost and none gets to another hand; unless they do, a card that was
\* played does not come back.  (Cards given out while a thread is at a hand are
\* another matter: its stale copy is written over them.)  dealCards,
\* addCardsToPlayer, removeCardFromPlayer.
CardsConserved ==
  AllIdle /\ order # << >> /\ ~overdealt =>
    /\ \A p, q \in Players : p # q => hand[p] \cap hand[q] = {}
    /\ \A p \in Players \ raced : hand[p] \cap played = {}
    /\ (UNION {hand[p] : p \in Players}) \cup played
         \cup (IF phase = "" THEN bottom ELSE {}) = Cards

\* A game is scored if somebody who is still in the room has played the last
\* card, the client or the automatic player for him, and only if somebody has
\* (checkAndHandleGameEnd, called by the handler of PlayAHand and by
\* executeAIPlay, with handleLeaveRoom).
WinnerIsScored ==
  Patient /\ AllIdle /\ phase = "playing" =>
    /\ (\E p \in members : hand[p] = {}) => settled > 0
    /\ settled > 0 => \E p \in Players : hand[p] = {}

\* Once the landlord is known the game gets to its end and is scored, even if
\* no client says another word, unless the automatic player plays the last card
\* of one who has left (handleTimeout, checkAndHandleNextPlayer).
SilentGameEnds == phase = "playing" ~> settled > 0 \/ EndUnseen

\* "游戏已正式结束" (checkAndHandleGameEnd, of the phase "ended"): a game that
\* is over is not scored again.
ScoredOnce == Patient => settled <= 1
=============================================================================
