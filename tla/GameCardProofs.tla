---------------------------- MODULE GameCardProofs ----------------------------
(***************************************************************************)
(* Where every card of Game is, for every pack of cards, any number of     *)
(* deals and of faults, and with clients and timers that wait for nobody:  *)
(* the automatic player and the client may be at one hand together.        *)
(*                                                                         *)
(* A hand is read, changed and written back without a lock, so of a card   *)
(* that was played nothing is certain.  The invariant says what two copies *)
(* of one hand always agree on: the cards that were not played.            *)
(***************************************************************************)
EXTENDS GameProofs

\* A seating names every player once.
LEMMA SeatsAreTaken ==
  ASSUME NEW o \in Seating
  PROVE  /\ o # << >> /\ o[1] \in Players /\ o[2] \in Players /\ o[3] \in Players
         /\ o[1] # o[2] /\ o[1] # o[3] /\ o[2] # o[3]
         /\ \A p \in Players : p = o[1] \/ p = o[2] \/ p = o[3]
<1>1. PICK a \in Players, b \in Players, c \in Players : o = <<a, b, c>>
  BY DEF Seating, Orders
<1>2. {a, b, c} = Players
  BY <1>1 DEF Seating
<1>3. P1 \in {a, b, c} /\ P2 \in {a, b, c} /\ P3 \in {a, b, c}
  BY <1>2 DEF Players
<1>4. a # b /\ a # c /\ b # c
  BY <1>3, ConstantsAssumption
<1>5. o # << >> /\ o[1] = a /\ o[2] = b /\ o[3] = c
  BY <1>1
<1> QED BY <1>2, <1>4, <1>5

\* The place of a player at the table.
LEMMA PlaceOfPlayer ==
  ASSUME NEW o \in Seating, NEW k \in 1..3
  PROVE  (CHOOSE i \in 1..3 : o[i] = o[k]) = k
<1>1. \A i \in 1..3 : o[i] = o[k] <=> i = k
  BY SeatsAreTaken
<1> QED BY <1>1

\* A player is dealt every third card.
LEMMA EveryThird ==
  ASSUME NEW j \in Nat \ {0}
  PROVE  ((j - 1) % 3) + 1 \in 1..3
  OBVIOUS

\* A deal gives every card a place, and only one.
LEMMA DealtOut ==
  ASSUME Deal
  PROVE  /\ order' \in Seating /\ bottom' # {}
         /\ \A p \in Players : hand'[p] # {} /\ hand'[p] \cap bottom' = {}
         /\ \A p, q \in Players : p # q => hand'[p] \cap hand'[q] = {}
         /\ \A c \in Cards : c \in bottom' \/ \E p \in Players : c \in hand'[p]
<1>1. PICK s \in Shuffles, o \in Seating :
        /\ order' = o
        /\ hand' = [p \in Players |-> DealtTo(s, CHOOSE i \in 1..3 : o[i] = p)]
        /\ bottom' = BottomOf(s)
  BY DEF Deal
<1> DEFINE L == Len(s)
           B == BottomSize
<1>2. /\ L \in Nat /\ B \in Nat \ {0} /\ B + 3 <= L
      /\ {s[k] : k \in 1 .. L} = Cards
      /\ \A j, k \in 1 .. L : s[j] = s[k] => j = k
  <2>1. s \in Seq(Cards)
    BY ConstantsAssumption
  <2>2. L \in Nat
    BY <2>1
  <2>3. B \in Nat \ {0} /\ B + 3 <= L
    BY ConstantsAssumption
  <2>4. {s[k] : k \in 1 .. L} = Cards
    BY ConstantsAssumption, ZenonT(20)
  <2>5. \A j, k \in 1 .. L : s[j] = s[k] => j = k
    BY ConstantsAssumption, ZenonT(20)
  <2> QED BY <2>2, <2>3, <2>4, <2>5
<1>3. \A k \in 1..3 : hand'[o[k]] = DealtTo(s, k)
  BY <1>1, PlaceOfPlayer, SeatsAreTaken
<1>4. \A k \in 1..3 : DealtTo(s, k) = {s[n] : n \in {j \in 1 .. L - B : ((j - 1) % 3) + 1 = k}}
  BY DEF DealtTo
<1>5. BottomOf(s) = {s[n] : n \in L - B + 1 .. L}
  BY DEF BottomOf
<1> HIDE DEF L, B
<1>6. BottomOf(s) # {}
  <2>1. L \in L - B + 1 .. L
    BY <1>2
  <2> QED BY <2>1, <1>5
<1>7. ASSUME NEW k \in 1..3 PROVE DealtTo(s, k) # {}
  <2>1. k \in 1 .. L - B
    BY <1>2
  <2>2. ((k - 1) % 3) + 1 = k
    OBVIOUS
  <2>3. k \in {j \in 1 .. L - B : ((j - 1) % 3) + 1 = k}
    BY <2>1, <2>2
  <2> DEFINE J == {j \in 1 .. L - B : ((j - 1) % 3) + 1 = k}
  <2>4. DealtTo(s, k) = {s[n] : n \in J}
    BY <1>4
  <2> HIDE DEF J
  <2> QED BY <2>3, <2>4 DEF J
<1>8. ASSUME NEW k \in 1..3 PROVE DealtTo(s, k) \cap BottomOf(s) = {}
  <2> SUFFICES ASSUME NEW c \in DealtTo(s, k), c \in BottomOf(s) PROVE FALSE
    OBVIOUS
  <2>1. PICK m \in 1 .. L - B : c = s[m]
    BY <1>4
  <2>2. PICK n \in L - B + 1 .. L : c = s[n]
    BY <1>5
  <2>3. m \in 1 .. L /\ n \in 1 .. L /\ m # n
    BY <1>2
  <2> QED BY <1>2, <2>1, <2>2, <2>3
<1>9. ASSUME NEW k \in 1..3, NEW l \in 1..3, k # l
      PROVE  DealtTo(s, k) \cap DealtTo(s, l) = {}
  <2> SUFFICES ASSUME NEW c \in DealtTo(s, k), c \in DealtTo(s, l) PROVE FALSE
    OBVIOUS
  <2>1. PICK m \in 1 .. L - B : c = s[m] /\ ((m - 1) % 3) + 1 = k
    BY <1>4
  <2>2. PICK n \in 1 .. L - B : c = s[n] /\ ((n - 1) % 3) + 1 = l
    BY <1>4
  <2>3. m \in 1 .. L /\ n \in 1 .. L /\ m # n
    <3>1. m \in 1 .. L /\ n \in 1 .. L
      BY <1>2
    <3>2. m # n
      BY <1>9, <2>1, <2>2
    <3> QED BY <3>1, <3>2
  <2> QED BY <1>2, <2>1, <2>2, <2>3
<1>10. ASSUME NEW c \in Cards
       PROVE  c \in BottomOf(s) \/ \E k \in 1..3 : c \in DealtTo(s, k)
  <2>1. PICK n \in 1 .. L : c = s[n]
    BY <1>2
  <2>2. CASE n \in L - B + 1 .. L
    BY <2>1, <2>2, <1>5
  <2>3. CASE n \notin L - B + 1 .. L
    <3>1. n \in 1 .. L - B
      BY <2>3, <1>2
    <3>2. PICK k \in 1..3 : ((n - 1) % 3) + 1 = k
      BY EveryThird
    <3> QED BY <2>1, <3>1, <3>2, <1>4
  <2> QED BY <2>2, <2>3
<1>11. ASSUME NEW p \in Players PROVE \E k \in 1..3 : p = o[k]
  BY SeatsAreTaken
<1>12. \A p \in Players : hand'[p] # {} /\ hand'[p] \cap bottom' = {}
  BY <1>1, <1>3, <1>7, <1>8, <1>11
<1>13. ASSUME NEW p \in Players, NEW q \in Players, p # q PROVE hand'[p] \cap hand'[q] = {}
  <2>1. PICK k \in 1..3 : p = o[k]
    BY <1>11
  <2>2. PICK l \in 1..3 : q = o[l]
    BY <1>11
  <2> QED BY <2>1, <2>2, <1>13, <1>3, <1>9
<1>14. \A c \in Cards : c \in bottom' \/ \E p \in Players : c \in hand'[p]
  <2>1. \A k \in 1..3 : o[k] \in Players
    BY SeatsAreTaken
  <2> QED BY <2>1, <1>1, <1>3, <1>10
<1> QED BY <1>1, <1>6, <1>12, <1>13, <1>14
-----------------------------------------------------------------------------
\* Who bids sits at a table where no landlord is known and no game is over.
BidderInv ==
  /\ \A p \in Players : client[p] \in {"bid", "over"} => p \in conn
  /\ \A p \in Players : client[p] = "bid" =>
       p \in members /\ phase = "" /\ \A q \in Players : client[q] # "over"
  /\ deals = 0 => /\ members = Players /\ phase = ""
                  /\ \A p \in Players : client[p] \notin {"bid", "over"}

\* A deal, the landlord and the end of a game put an end to the bids before
\* (dealCards, sendLordDeterminedToAllPlayers, checkAndHandleGameEnd).
LEMMA BidderStep ==
  ASSUME TypeOK, BidderInv, [Next]_vars
  PROVE  BidderInv'
<1>z. /\ client \in [Players -> Doings] /\ deals \in Nat
      /\ members \subseteq Players /\ conn \subseteq Players
  BY DEF TypeOK, PresenceOK, HistoryOK
<1>p. phase # "" => phase = "playing"
  BY DEF TypeOK, StoreOK
<1> USE <1>z
<1>0. ASSUME Deal, members' = Players, conn' = conn PROVE BidderInv'
  <2>0. phase' = ""
    BY <1>0 DEF Deal
  <2>1. deals' # 0
    <3>1. deals' = deals + 1
      BY <1>0 DEF Deal
    <3> QED BY <3>1
  <2>2. PICK p \in Players : client' = Shown(Players, "watch", p, "bid")
    BY <1>0, SeatsAreTaken DEF Deal
  <2>3. \A q \in Players : IF q \in conn THEN client'[q] \in {"watch", "bid"}
                                         ELSE client'[q] = client[q]
    BY <2>2 DEF Shown
  <2> QED BY <1>0, <2>0, <2>1, <2>3 DEF BidderInv
<1>w. ASSUME UNCHANGED <<phase, deals>>, members' = members, conn' = conn,
             \A p \in Players : client'[p] \in {client[p], "play", "watch"}
      PROVE  BidderInv'
  BY <1>w DEF BidderInv
<1>1. CASE ReadyForPlay
  BY <1>1, <1>0 DEF ReadyForPlay, StartGame, net, BidderInv
<1>2. ASSUME NEW p \in Players, NEW bet \in Bets, GrabLord(p, bet) PROVE BidderInv'
  <2>0. /\ deals # 0 /\ phase = "" /\ members' = members /\ conn' = conn
        /\ client[p] = "bid" /\ \A q \in Players : client[q] # "over"
    BY <1>2 DEF GrabLord, net, BidderInv
  <2>1. CASE NextBid(p)
    BY <2>0, <2>1 DEF NextBid, store, BidderInv
  <2>2. CASE Deal /\ members = Players
    BY <2>0, <2>2, <1>0
  <2>3. CASE TooFew
    BY <2>0, <2>3 DEF TooFew, Shown, BidderInv
  <2>4. ASSUME NEW q, LordDetermined(q), q \in Players PROVE BidderInv'
    BY <2>0, <2>4 DEF LordDetermined, Shown, BidderInv
  <2> QED BY <1>2, <2>1, <2>2, <2>3, <2>4, BidType DEF GrabLord
<1>3. ASSUME NEW p \in Players, NEW C \in SUBSET hand[p], Play(p, C) PROVE BidderInv'
  BY <1>3, <1>w DEF Play, Told, net, store
<1>4. ASSUME NEW t \in Threads, ReadHand(t) PROVE BidderInv'
  BY <1>4, <1>w DEF ReadHand, net, store
<1>5. ASSUME NEW t \in Threads, WriteHand(t) PROVE BidderInv'
  BY <1>5, <1>w DEF WriteHand, net, store
<1>6. ASSUME NEW t \in Threads, EndGame(t) PROVE BidderInv'
  <2>1. phase = "playing" /\ deals # 0 /\ \A q \in Players : client[q] # "bid"
    BY <1>6 DEF EndGame, HasWon, BidderInv
  <2> QED BY <1>6, <2>1 DEF EndGame, Shown, store, BidderInv
<1>7. ASSUME NEW t \in Threads, GameGoesOn(t) PROVE BidderInv'
  BY <1>7, <1>w DEF GameGoesOn, net, store
<1>8. ASSUME NEW t \in Threads, PassTurn(t) PROVE BidderInv'
  BY <1>8, <1>w DEF PassTurn, net, store
<1>9. ASSUME NEW t \in Threads, AINothing(t) PROVE BidderInv'
  BY <1>9, <1>w DEF AINothing, net, store
<1>10. ASSUME NEW t \in Threads, AIMove(t) PROVE BidderInv'
  BY <1>10, <1>w DEF AIMove, net, store
<1>11. ASSUME NEW t \in Threads, AITell(t) PROVE BidderInv'
  BY <1>11, <1>w DEF AITell, Told, net, store
<1>12. ASSUME NEW t \in Threads, Chain(t) PROVE BidderInv'
  BY <1>12, <1>w DEF Chain, net, store
<1>13. ASSUME NEW X \in SUBSET timers, Collect(X) PROVE BidderInv'
  BY <1>13, <1>w DEF Collect, net, store
<1>14. ASSUME NEW p \in expired, HandleTimeout(p) PROVE BidderInv'
  BY <1>14, <1>w DEF HandleTimeout, net, store
<1>15. CASE CheckNextPlayer
  BY <1>15, <1>w DEF CheckNextPlayer, net, store
<1>16. ASSUME NEW p \in Players, Drop(p) PROVE BidderInv'
  BY <1>16 DEF Drop, store, BidderInv
<1>17. ASSUME NEW p \in Players, HeartbeatLost(p) PROVE BidderInv'
  BY <1>17, <1>w DEF HeartbeatLost, store
<1>18. ASSUME NEW p \in Players, DropSuperseded(p) PROVE BidderInv'
  BY <1>18, <1>w DEF DropSuperseded, store
<1>19. ASSUME NEW p \in Players, Reconnect(p) PROVE BidderInv'
  BY <1>19, <1>p DEF Reconnect, Resync, store, BidderInv
<1>20. ASSUME NEW p \in Players, Continue(p) PROVE BidderInv'
  <2>0. /\ conn' = conn /\ client[p] = "over" /\ p \in Players /\ deals # 0
        /\ \A q \in Players : client[q] # "bid"
    BY <1>20 DEF Continue, net, BidderInv
  <2>1. CASE Deal /\ members' = Players
    BY <2>0, <2>1, <1>0
  <2>2. CASE ~(Deal /\ members' = Players)
    <3>1. client' = [client EXCEPT ![p] = "wait"] /\ deals' = deals
      BY <1>20, <2>2 DEF Continue, StartGame
    <3> QED BY <2>0, <3>1 DEF BidderInv
  <2> QED BY <2>1, <2>2
<1>21. ASSUME NEW p \in Players, GameOver(p) PROVE BidderInv'
  <2>1. /\ client' = client /\ conn' = conn /\ deals' = deals /\ members' = members
        /\ phase' = ""
    BY <1>21 DEF GameOver, net
  <2> QED BY <2>1 DEF BidderInv
<1>22. ASSUME NEW p \in Players, LeaveRoom(p) PROVE BidderInv'
  <2>1. /\ deals # 0 /\ deals' = deals /\ phase' = phase /\ conn' = conn
        /\ members' = members \ {p} /\ client' = [client EXCEPT ![p] = "left"]
    BY <1>22 DEF LeaveRoom, store, net
  <2> QED BY <2>1 DEF BidderInv
<1>23. CASE UNCHANGED vars
  BY <1>23, <1>w DEF vars, store, net
<1> QED
  BY <1>1, <1>2, <1>3, <1>4, <1>5, <1>6, <1>7, <1>8, <1>9, <1>10, <1>11, <1>12, <1>13,
    <1>14, <1>15, <1>16, <1>17, <1>18, <1>19, <1>20, <1>21, <1>22, <1>23
  DEF Next, Bidding, Playing, Handlers, Timeouts, Faults, Returning
-----------------------------------------------------------------------------
\* The two copies of a hand, in the store and in a thread that is to write it,
\* agree on the cards that were not played; unless two threads are at a hand,
\* they agree on all, and a played card is on its way out.
WriteInv == \A t \in Threads : pc[t] = "write" => cards[t] # {}
TakenInv == \A t \in Threads : AtHand(t) => cards[t] \subseteq played
CopyInv ==
  \A t \in Threads : pc[t] = "write" =>
    /\ got[t] \ played = hand[who[t]] \ played
    /\ \A q \in Players \ {who[t]} : got[t] \cap hand[q] = {}
    /\ \A u \in Threads : pc[u] = "write" /\ who[u] # who[t] => got[t] \cap got[u] = {}
    /\ phase = "" => got[t] \cap bottom = {}
AloneInv ==
  \A t \in Threads : AtHand(t) /\ who[t] \notin raced =>
    /\ pc[t] = "write" => got[t] = hand[who[t]]
    /\ \A u \in Threads : AtHand(u) /\ who[u] = who[t] => u = t
GoingOut ==
  \A p \in Players \ raced : \A c \in hand[p] \cap played :
    \E t \in Threads : AtHand(t) /\ who[t] = p /\ c \in cards[t]
InOneHand == \A p, q \in Players : p # q => hand[p] \cap hand[q] = {}
Undealt ==
  phase = "" => played \cap bottom = {} /\ \A p \in Players : hand[p] \cap bottom = {}
Somewhere ==
  \A c \in Cards : \/ \E p \in Players : c \in hand[p]
                   \/ c \in played \/ (phase = "" /\ c \in bottom)
DealInv == /\ TakenInv /\ CopyInv /\ AloneInv /\ GoingOut
           /\ InOneHand /\ Undealt /\ Somewhere
HandInv == WriteInv /\ (order # << >> /\ ~overdealt => DealInv)

\* A deal finds nobody at a hand, or the deal is marked.
LEMMA HandDeal ==
  ASSUME TypeOK, WriteInv, Deal, run' = run
  PROVE  HandInv'
<1>r. UNCHANGED <<pc, who, cards, got>>
  BY DEF run
<1>1. WriteInv'
  BY <1>r DEF WriteInv
<1>2. phase' = "" /\ played' = {} /\ raced' = {}
  BY DEF Deal
<1>3. overdealt' = (\E t \in Threads : AtHand(t))
  BY Zenon DEF Deal
<1>4. ASSUME ~overdealt' PROVE DealInv'
  <2>1. \A t \in Threads : ~AtHand(t)
    BY <1>3, <1>4, Zenon
  <2>2. \A t \in Threads : pc[t] # "write"
    BY <2>1 DEF WriteInv, AtHand
  <2>3. \A t \in Threads : ~AtHand(t)'
    BY <2>1, <1>r DEF AtHand
  <2>4. \A t \in Threads : pc'[t] # "write"
    BY <2>2, <1>r
  <2>5. TakenInv' /\ CopyInv' /\ AloneInv'
    BY <2>3, <2>4 DEF TakenInv, CopyInv, AloneInv
  <2>6. GoingOut' /\ InOneHand' /\ Undealt' /\ Somewhere'
    BY <1>2, DealtOut DEF GoingOut, InOneHand, Undealt, Somewhere
  <2> QED BY <2>5, <2>6 DEF DealInv
<1> QED BY <1>1, <1>4 DEF HandInv

\* A thread that does not touch the cards leaves them as they are.
LEMMA HandAside ==
  ASSUME HandInv, UNCHANGED <<hand, bottom, order, phase, played, raced, overdealt>>,
         \A t \in Threads : \/ ~AtHand(t) /\ ~AtHand(t)' /\ pc[t] # "write" /\ pc'[t] # "write"
                            \/ /\ pc'[t] = pc[t] /\ who'[t] = who[t]
                               /\ cards'[t] = cards[t] /\ got'[t] = got[t]
  PROVE  HandInv'
<1>1. WriteInv'
  BY DEF HandInv, WriteInv
<1>2. ASSUME NEW t \in Threads
      PROVE  /\ AtHand(t)' <=> AtHand(t)
             /\ pc'[t] = "write" <=> pc[t] = "write"
             /\ AtHand(t) \/ pc[t] = "write" =>
                   who'[t] = who[t] /\ cards'[t] = cards[t] /\ got'[t] = got[t]
  BY DEF AtHand
<1>3. ASSUME DealInv PROVE DealInv'
  <2>1. TakenInv'
    BY <1>2, <1>3 DEF DealInv, TakenInv
  <2>2. CopyInv'
    BY <1>2, <1>3 DEF DealInv, CopyInv
  <2>3. AloneInv'
    <3>1. ASSUME NEW t \in Threads, AtHand(t)', who'[t] \notin raced'
          PROVE  /\ pc'[t] = "write" => got'[t] = hand'[who'[t]]
                 /\ \A u \in Threads : AtHand(u)' /\ who'[u] = who'[t] => u = t
      <4>1. AtHand(t) /\ who[t] \notin raced /\ who'[t] = who[t] /\ got'[t] = got[t]
        BY <3>1, <1>2
      <4>2. /\ pc[t] = "write" => got[t] = hand[who[t]]
            /\ \A u \in Threads : AtHand(u) /\ who[u] = who[t] => u = t
        BY <4>1, <1>3 DEF DealInv, AloneInv
      <4> QED BY <4>1, <4>2, <1>2
    <3> QED BY <3>1 DEF AloneInv
  <2>4. GoingOut'
    BY <1>2, <1>3 DEF DealInv, GoingOut
  <2>5. InOneHand' /\ Undealt' /\ Somewhere'
    BY <1>3 DEF DealInv, InOneHand, Undealt, Somewhere
  <2> QED BY <2>1, <2>2, <2>3, <2>4, <2>5 DEF DealInv
<1> QED BY <1>1, <1>3 DEF HandInv

\* A thread sets to work at the hand of p, to take C out of it.
LEMMA HandTake ==
  ASSUME TypeOK, HandInv, NEW t \in Threads, NEW p \in Players, NEW C \in SUBSET hand[p],
         pc[t] \notin {"remove", "write"}, pc'[t] # "write", C # {} => pc'[t] = "remove",
         who'[t] = p, cards'[t] = C, played' = played \cup C, Takes(t, p, C),
         UNCHANGED <<hand, bottom, order, phase, overdealt>>,
         \A u \in Threads \ {t} : /\ pc'[u] = pc[u] /\ who'[u] = who[u]
                                  /\ cards'[u] = cards[u] /\ got'[u] = got[u]
  PROVE  HandInv'
<1>1. WriteInv'
  BY DEF HandInv, WriteInv
<1>2. ASSUME NEW u \in Threads \ {t} PROVE AtHand(u)' <=> AtHand(u)
  BY DEF AtHand
<1>3. ~AtHand(t) /\ (AtHand(t)' => C # {})
  BY DEF AtHand
<1>4. ASSUME DealInv PROVE DealInv'
  <2>1. TakenInv'
    BY <1>2, <1>3, <1>4 DEF DealInv, TakenInv
  <2>2. CopyInv'
    <3>1. ASSUME NEW u \in Threads, pc'[u] = "write"
          PROVE  /\ u # t /\ pc[u] = "write" /\ who'[u] = who[u] /\ got'[u] = got[u]
      BY <3>1
    <3>2. ASSUME NEW u \in Threads, pc'[u] = "write", who[u] \in Players
          PROVE  got'[u] \ played' = hand'[who'[u]] \ played'
      <4>1. got[u] \ played = hand[who[u]] \ played
        BY <3>1, <3>2, <1>4 DEF DealInv, CopyInv
      <4> QED BY <4>1, <3>1, <3>2
    <3>3. \A u \in Threads : pc[u] = "write" => who[u] \in Players
      BY DEF TypeOK, ThreadsOK
    <3>4. ASSUME NEW u \in Threads, pc'[u] = "write"
          PROVE  /\ \A q \in Players \ {who'[u]} : got'[u] \cap hand'[q] = {}
                 /\ \A v \in Threads : pc'[v] = "write" /\ who'[v] # who'[u]
                                       => got'[u] \cap got'[v] = {}
                 /\ phase' = "" => got'[u] \cap bottom' = {}
      <4>1. /\ pc[u] = "write"
            /\ \A q \in Players \ {who[u]} : got[u] \cap hand[q] = {}
            /\ \A v \in Threads : pc[v] = "write" /\ who[v] # who[u] => got[u] \cap got[v] = {}
            /\ phase = "" => got[u] \cap bottom = {}
        BY <3>1, <3>4, <1>4 DEF DealInv, CopyInv
      <4>2. \A v \in Threads : pc'[v] = "write" /\ who'[v] # who'[u] => got'[u] \cap got'[v] = {}
        BY <4>1, <3>1, <3>4
      <4> QED BY <4>1, <4>2, <3>1, <3>4
    <3> QED BY <3>1, <3>2, <3>3, <3>4 DEF CopyInv
  <2>3. /\ raced \subseteq raced'
        /\ AtHand(t)' /\ p \notin raced' => \A u \in Threads \ {t} : AtHand(u) => who[u] # p
    BY <1>3 DEF Takes
  <2>4. AloneInv'
    <3>1. ASSUME NEW u \in Threads, AtHand(u)', who'[u] \notin raced'
          PROVE  /\ pc'[u] = "write" => got'[u] = hand'[who'[u]]
                 /\ \A v \in Threads : AtHand(v)' /\ who'[v] = who'[u] => v = u
      <4>1. CASE u = t
        BY <4>1, <3>1, <2>3, <1>2
      <4>2. CASE u # t
        <5>1. AtHand(u) /\ who'[u] = who[u] /\ who[u] \notin raced
          BY <4>2, <3>1, <1>2, <2>3
        <5>2. /\ pc[u] = "write" => got[u] = hand[who[u]]
              /\ \A v \in Threads : AtHand(v) /\ who[v] = who[u] => v = u
          BY <5>1, <1>4 DEF DealInv, AloneInv
        <5>3. AtHand(t)' => who[u] # p
          BY <4>2, <5>1, <2>3, <3>1
        <5> QED BY <4>2, <5>1, <5>2, <5>3, <1>2
      <4> QED BY <4>1, <4>2
    <3> QED BY <3>1 DEF AloneInv
  <2>5. GoingOut'
    <3>1. ASSUME NEW q \in Players \ raced', NEW c \in hand'[q] \cap played'
          PROVE  \E u \in Threads : AtHand(u)' /\ who'[u] = q /\ c \in cards'[u]
      <4>1. CASE c \in C
        <5>1. q = p
          BY <4>1, <1>4 DEF DealInv, InOneHand
        <5>2. AtHand(t)'
          BY <4>1 DEF AtHand
        <5> QED BY <4>1, <5>1, <5>2
      <4>2. CASE c \notin C
        <5>1. PICK u \in Threads : AtHand(u) /\ who[u] = q /\ c \in cards[u]
          BY <4>2, <2>3, <1>4 DEF DealInv, GoingOut
        <5>2. u # t
          BY <5>1, <1>3
        <5> QED BY <5>1, <5>2, <1>2
      <4> QED BY <4>1, <4>2
    <3> QED BY <3>1 DEF GoingOut
  <2>6. InOneHand' /\ Undealt' /\ Somewhere'
    BY <1>4 DEF DealInv, InOneHand, Undealt, Somewhere
  <2> QED BY <2>1, <2>2, <2>4, <2>5, <2>6 DEF DealInv
<1> QED BY <1>1, <1>4 DEF HandInv

\* A thread reads the hand it works on, or finds nothing left to read
\* (removeCardFromPlayer).
LEMMA HandRead ==
  ASSUME TypeOK, HandInv, NEW t \in Threads, ReadHand(t)
  PROVE  HandInv'
<1>t. /\ pc \in [Threads -> Steps] /\ cards \in [Threads -> SUBSET Cards]
      /\ got \in [Threads -> SUBSET Cards]
      /\ \A u \in Threads : pc[u] \notin {"idle", "expire"} => who[u] \in Players
  BY DEF TypeOK, ThreadsOK
<1> DEFINE p == who[t]
<1>1. /\ UNCHANGED <<hand, bottom, order, phase, played, raced, overdealt, who>>
      /\ pc[t] = "remove" /\ cards[t] # {} /\ p \in Players
      /\ \A u \in Threads \ {t} : pc'[u] = pc[u] /\ cards'[u] = cards[u] /\ got'[u] = got[u]
  BY <1>t DEF ReadHand, Goto, store, history
<1>2. \/ hand[p] = {} /\ pc'[t] = "remove" /\ cards'[t] \subseteq cards[t]
      \/ pc'[t] = "write" /\ cards'[t] = cards[t] /\ got'[t] = hand[p]
  BY <1>t DEF ReadHand, Goto
<1> HIDE DEF p
<1>3. WriteInv'
  BY <1>1, <1>2 DEF HandInv, WriteInv
<1>4. ASSUME NEW u \in Threads
      PROVE  /\ AtHand(u)' => AtHand(u)
             /\ u # t => (AtHand(u)' <=> AtHand(u))
             /\ pc'[u] = "write" => u = t \/ pc[u] = "write"
             /\ cards'[u] \subseteq cards[u]
  BY <1>1, <1>2 DEF AtHand
<1>5. ASSUME DealInv PROVE DealInv'
  <2>1. TakenInv'
    BY <1>1, <1>4, <1>5 DEF DealInv, TakenInv
  <2>2. CopyInv'
    <3>1. ASSUME NEW u \in Threads, pc'[u] = "write", u # t
          PROVE  /\ got'[u] \ played = hand[who[u]] \ played
                 /\ \A q \in Players \ {who[u]} : got'[u] \cap hand[q] = {}
                 /\ \A v \in Threads \ {t} : pc'[v] = "write" /\ who[v] # who[u]
                                               => got'[u] \cap got'[v] = {}
                 /\ phase = "" => got'[u] \cap bottom = {}
      BY <3>1, <1>1, <1>5 DEF DealInv, CopyInv
    <3>2. ASSUME pc'[t] = "write"
          PROVE  /\ got'[t] \ played = hand[p] \ played
                 /\ \A q \in Players \ {p} : got'[t] \cap hand[q] = {}
                 /\ \A v \in Threads \ {t} : pc'[v] = "write" /\ who[v] # p
                                               => got'[t] \cap got'[v] = {}
                 /\ phase = "" => got'[t] \cap bottom = {}
      <4>1. got'[t] = hand[p]
        BY <3>2, <1>2
      <4>2. \A v \in Threads \ {t} : pc'[v] = "write" /\ who[v] # p => got'[v] \cap hand[p] = {}
        BY <3>1, <1>1
      <4> QED BY <4>1, <4>2, <1>1, <1>5 DEF DealInv, InOneHand, Undealt
    <3>3. ASSUME NEW u \in Threads, pc'[u] = "write"
          PROVE  /\ got'[u] \ played = hand[who[u]] \ played
                 /\ \A q \in Players \ {who[u]} : got'[u] \cap hand[q] = {}
                 /\ \A v \in Threads : pc'[v] = "write" /\ who[v] # who[u]
                                         => got'[u] \cap got'[v] = {}
                 /\ phase = "" => got'[u] \cap bottom = {}
      <4>1. CASE u = t
        BY <4>1, <3>2, <3>3 DEF p
      <4>2. CASE u # t
        <5>1. pc'[t] = "write" /\ who[t] # who[u] => got'[u] \cap got'[t] = {}
          BY <4>2, <3>2, <3>3 DEF p
        <5> QED BY <4>2, <5>1, <3>1, <3>3
      <4> QED BY <4>1, <4>2
    <3> QED BY <1>1, <3>3 DEF CopyInv
  <2>3. AloneInv'
    <3>1. ASSUME NEW u \in Threads, AtHand(u)', who[u] \notin raced
          PROVE  /\ pc'[u] = "write" => got'[u] = hand[who[u]]
                 /\ \A v \in Threads : AtHand(v)' /\ who[v] = who[u] => v = u
      <4>1. /\ pc[u] = "write" => got[u] = hand[who[u]]
            /\ \A v \in Threads : AtHand(v) /\ who[v] = who[u] => v = u
        BY <3>1, <1>4, <1>5 DEF DealInv, AloneInv
      <4>2. pc'[u] = "write" => got'[u] = hand[who[u]]
        BY <4>1, <1>1, <1>2 DEF p
      <4> QED BY <4>1, <4>2, <1>4
    <3> QED BY <3>1, <1>1 DEF AloneInv
  <2>4. GoingOut'
    <3>1. ASSUME NEW q \in Players \ raced, NEW c \in hand[q] \cap played
          PROVE  \E u \in Threads : AtHand(u)' /\ who[u] = q /\ c \in cards'[u]
      <4>1. PICK u \in Threads : AtHand(u) /\ who[u] = q /\ c \in cards[u]
        BY <3>1, <1>5 DEF DealInv, GoingOut
      <4>2. CASE u = t
        <5>1. pc'[t] = "write" /\ cards'[t] = cards[t]
          BY <4>1, <4>2, <3>1, <1>2 DEF p
        <5> QED BY <4>1, <4>2, <5>1 DEF AtHand
      <4>3. CASE u # t
        BY <4>1, <4>3, <1>1, <1>4
      <4> QED BY <4>2, <4>3
    <3> QED BY <3>1, <1>1 DEF GoingOut
  <2>5. InOneHand' /\ Undealt' /\ Somewhere'
    BY <1>1, <1>5 DEF DealInv, InOneHand, Undealt, Somewhere
  <2> QED BY <2>1, <2>2, <2>3, <2>4, <2>5 DEF DealInv
<1> QED BY <1>1, <1>3, <1>5 DEF HandInv

\* A thread writes its copy back, without a card that was played: whatever
\* another thread did to the hand meanwhile, what was not played is in both
\* (removeCardFromPlayer).
LEMMA HandWrite ==
  ASSUME TypeOK, HandInv, NEW t \in Threads, WriteHand(t)
  PROVE  HandInv'
<1>t. /\ pc \in [Threads -> Steps] /\ cards \in [Threads -> SUBSET Cards]
      /\ got \in [Threads -> SUBSET Cards] /\ hand \in [Players -> SUBSET Cards]
      /\ \A u \in Threads : pc[u] \notin {"idle", "expire"} => who[u] \in Players
  BY DEF TypeOK, ThreadsOK, StoreOK
<1> DEFINE p == who[t]
<1>1. PICK c \in cards[t] :
        /\ cards' = [cards EXCEPT ![t] = @ \ {c}]
        /\ hand' = IF c \in got[t] THEN [hand EXCEPT ![p] = got[t] \ {c}] ELSE hand
  BY DEF WriteHand
<1>2. /\ UNCHANGED <<bottom, order, phase, played, raced, overdealt, who>>
      /\ pc[t] = "write" /\ pc'[t] = "remove" /\ cards'[t] = cards[t] \ {c} /\ p \in Players
      /\ \A u \in Threads \ {t} : pc'[u] = pc[u] /\ cards'[u] = cards[u] /\ got'[u] = got[u]
  BY <1>1, <1>t DEF WriteHand, Goto, store, history
<1>3. /\ \A q \in Players \ {p} : hand'[q] = hand[q]
      /\ hand'[p] = IF c \in got[t] THEN got[t] \ {c} ELSE hand[p]
  BY <1>1, <1>2, <1>t
<1> HIDE DEF p
<1>4. WriteInv'
  BY <1>2 DEF HandInv, WriteInv
<1>5. ASSUME NEW u \in Threads
      PROVE  /\ AtHand(u)' => AtHand(u)
             /\ u # t => (AtHand(u)' <=> AtHand(u))
             /\ pc'[u] = "write" => u # t /\ pc[u] = "write"
             /\ cards'[u] \subseteq cards[u]
  BY <1>2 DEF AtHand
<1>6. ASSUME DealInv PROVE DealInv'
  <2>0. AtHand(t) /\ c \in played
    <3>1. AtHand(t)
      BY <1>1, <1>2 DEF AtHand
    <3> QED BY <3>1, <1>1, <1>6 DEF DealInv, TakenInv
  <2>1. TakenInv'
    BY <1>2, <1>5, <1>6 DEF DealInv, TakenInv
  <2>2. /\ got[t] \ played = hand[p] \ played
        /\ \A q \in Players \ {p} : got[t] \cap hand[q] = {}
        /\ \A u \in Threads : pc[u] = "write" /\ who[u] # p => got[t] \cap got[u] = {}
        /\ phase = "" => got[t] \cap bottom = {}
    BY <1>2, <1>6 DEF DealInv, CopyInv, p
  <2>3. hand'[p] \ played = hand[p] \ played /\ hand'[p] \subseteq hand[p] \cup got[t]
    BY <1>3, <2>0, <2>2
  <2>4. \A q \in Players : hand'[q] \ played = hand[q] \ played
    BY <1>3, <2>3
  <2>5. CopyInv'
    <3>1. ASSUME NEW u \in Threads, pc'[u] = "write"
          PROVE  /\ got'[u] \ played = hand'[who[u]] \ played
                 /\ \A q \in Players \ {who[u]} : got'[u] \cap hand'[q] = {}
                 /\ \A v \in Threads : pc'[v] = "write" /\ who[v] # who[u]
                                         => got'[u] \cap got'[v] = {}
                 /\ phase = "" => got'[u] \cap bottom = {}
      <4>1. u # t /\ pc[u] = "write" /\ got'[u] = got[u] /\ who[u] \in Players
        BY <3>1, <1>2, <1>5, <1>t
      <4>2. /\ got[u] \ played = hand[who[u]] \ played
            /\ \A q \in Players \ {who[u]} : got[u] \cap hand[q] = {}
            /\ \A v \in Threads : pc[v] = "write" /\ who[v] # who[u] => got[u] \cap got[v] = {}
            /\ phase = "" => got[u] \cap bottom = {}
        BY <4>1, <1>6 DEF DealInv, CopyInv
      <4>3. got'[u] \ played = hand'[who[u]] \ played
        BY <4>1, <4>2, <2>4
      <4>4. ASSUME NEW q \in Players \ {who[u]} PROVE got'[u] \cap hand'[q] = {}
        <5>1. CASE q = p
          <6>1. got[u] \cap got[t] = {} /\ got[u] \cap hand[p] = {}
            BY <5>1, <4>2, <1>2 DEF p
          <6> QED BY <4>1, <5>1, <6>1, <2>3
        <5>2. CASE q # p
          BY <4>1, <4>2, <5>2, <1>3
        <5> QED BY <5>1, <5>2
      <4>5. \A v \in Threads : pc'[v] = "write" /\ who[v] # who[u] => got'[u] \cap got'[v] = {}
        BY <4>1, <4>2, <1>2, <1>5
      <4> QED BY <4>1, <4>2, <4>3, <4>4, <4>5
    <3> QED BY <3>1, <1>2 DEF CopyInv
  <2>6. p \notin raced => /\ got[t] = hand[p]
                          /\ \A u \in Threads : AtHand(u) /\ who[u] = p => u = t
    BY <2>0, <1>2, <1>6 DEF DealInv, AloneInv, p
  <2>7. AloneInv'
    <3>1. ASSUME NEW u \in Threads, AtHand(u)', who[u] \notin raced
          PROVE  /\ pc'[u] = "write" => got'[u] = hand'[who[u]]
                 /\ \A v \in Threads : AtHand(v)' /\ who[v] = who[u] => v = u
      <4>1. /\ pc[u] = "write" => got[u] = hand[who[u]]
            /\ \A v \in Threads : AtHand(v) /\ who[v] = who[u] => v = u
        BY <3>1, <1>5, <1>6 DEF DealInv, AloneInv
      <4>2. ASSUME pc'[u] = "write" PROVE got'[u] = hand'[who[u]]
        <5>1. u # t /\ pc[u] = "write" /\ got'[u] = got[u] /\ who[u] \in Players
          BY <4>2, <1>2, <1>5, <1>t
        <5>2. who[u] # p
          BY <5>1, <4>1, <2>0 DEF p
        <5> QED BY <5>1, <5>2, <4>1, <1>3
      <4> QED BY <4>1, <4>2, <1>5
    <3> QED BY <3>1, <1>2 DEF AloneInv
  <2>8. GoingOut'
    <3>1. ASSUME NEW q \in Players \ raced, NEW d \in hand'[q] \cap played
          PROVE  \E u \in Threads : AtHand(u)' /\ who[u] = q /\ d \in cards'[u]
      <4>1. CASE q = p
        <5>1. d \in hand[p] /\ d # c
          BY <3>1, <4>1, <2>6, <1>1, <1>3
        <5>2. PICK u \in Threads : AtHand(u) /\ who[u] = p /\ d \in cards[u]
          BY <3>1, <4>1, <5>1, <1>6 DEF DealInv, GoingOut
        <5>3. u = t /\ d \in cards'[t]
          BY <3>1, <4>1, <5>1, <5>2, <2>6, <1>2
        <5>4. AtHand(t)'
          BY <5>3, <1>2 DEF AtHand
        <5> QED BY <4>1, <5>2, <5>3, <5>4
      <4>2. CASE q # p
        <5>1. d \in hand[q]
          BY <3>1, <4>2, <1>3
        <5>2. PICK u \in Threads : AtHand(u) /\ who[u] = q /\ d \in cards[u]
          BY <3>1, <5>1, <1>6 DEF DealInv, GoingOut
        <5>3. u # t
          BY <4>2, <5>2 DEF p
        <5> QED BY <5>2, <5>3, <1>2, <1>5
      <4> QED BY <4>1, <4>2
    <3> QED BY <3>1, <1>2 DEF GoingOut
  <2>9. InOneHand'
    <3>1. ASSUME NEW q \in Players, NEW r \in Players, q # r PROVE hand'[q] \cap hand'[r] = {}
      <4>1. hand[q] \cap hand[r] = {}
        BY <3>1, <1>6 DEF DealInv, InOneHand
      <4>2. CASE q = p
        BY <4>1, <4>2, <3>1, <1>3, <2>2, <2>3
      <4>3. CASE r = p
        BY <4>1, <4>3, <3>1, <1>3, <2>2, <2>3
      <4>4. CASE q # p /\ r # p
        BY <4>1, <4>4, <3>1, <1>3
      <4> QED BY <4>2, <4>3, <4>4
    <3> QED BY <3>1 DEF InOneHand
  <2>10. Undealt'
    <3>1. ASSUME phase = "", NEW q \in Players PROVE hand'[q] \cap bottom = {}
      <4>1. hand[q] \cap bottom = {} /\ got[t] \cap bottom = {}
        BY <3>1, <2>2, <1>6 DEF DealInv, Undealt
      <4>2. CASE q = p
        BY <4>1, <4>2, <2>3
      <4>3. CASE q # p
        BY <4>1, <4>3, <1>3
      <4> QED BY <4>2, <4>3
    <3> QED BY <3>1, <1>2, <1>6 DEF DealInv, Undealt
  <2>11. Somewhere'
    <3>1. ASSUME NEW d \in Cards, d \notin played, ~(phase = "" /\ d \in bottom)
          PROVE  \E q \in Players : d \in hand'[q]
      <4>1. PICK q \in Players : d \in hand[q]
        BY <3>1, <1>6 DEF DealInv, Somewhere
      <4> QED BY <3>1, <4>1, <2>4
    <3> QED BY <3>1, <1>2 DEF Somewhere
  <2> QED BY <2>1, <2>5, <2>7, <2>8, <2>9, <2>10, <2>11 DEF DealInv
<1> QED BY <1>2, <1>4, <1>6 DEF HandInv

\* The bottom goes to the landlord, once (sendLordDeterminedToAllPlayers).
LEMMA HandLord ==
  ASSUME TypeOK, HandInv, NEW q \in Players, LordDetermined(q), run' = run, phase = ""
  PROVE  HandInv'
<1>r. UNCHANGED <<pc, who, cards, got>>
  BY DEF run
<1>u. UNCHANGED <<bottom, order, played, raced>>
  BY DEF LordDetermined
<1>1. CASE UNCHANGED <<hand, phase, overdealt>>
  <2>1. \A t \in Threads : /\ pc'[t] = pc[t] /\ who'[t] = who[t]
                           /\ cards'[t] = cards[t] /\ got'[t] = got[t]
    BY <1>r
  <2> QED BY <1>u, <1>1, <2>1, HandAside
<1>2. CASE ~UNCHANGED <<hand, phase, overdealt>>
  <2>1. members # {} /\ bottom # {}
    BY <1>2, Zenon DEF LordDetermined
  <2>2. hand' = [hand EXCEPT ![q] = @ \cup bottom] /\ phase' = "playing"
    BY <2>1, Zenon DEF LordDetermined
  <2>3. overdealt' = (overdealt \/ \E t \in Threads : AtHand(t))
    BY <2>1, Zenon DEF LordDetermined
  <2>4. \A r \in Players : hand'[r] = IF r = q THEN hand[r] \cup bottom ELSE hand[r]
    BY <2>2 DEF TypeOK, StoreOK
  <2>5. WriteInv'
    BY <1>r DEF HandInv, WriteInv
  <2>6. ASSUME ~overdealt', DealInv PROVE DealInv'
    <3>1. \A t \in Threads : ~AtHand(t)
      BY <2>3, <2>6, Zenon
    <3>2. \A t \in Threads : pc[t] # "write"
      BY <3>1 DEF HandInv, WriteInv, AtHand
    <3>3. \A t \in Threads : ~AtHand(t)' /\ pc'[t] # "write"
      BY <3>1, <3>2, <1>r DEF AtHand
    <3>4. TakenInv' /\ CopyInv' /\ AloneInv'
      BY <3>3 DEF TakenInv, CopyInv, AloneInv
    <3>5. /\ played \cap bottom = {} /\ \A r \in Players : hand[r] \cap bottom = {}
          /\ \A r \in Players \ raced : hand[r] \cap played = {}
      BY <2>6, <3>1 DEF DealInv, Undealt, GoingOut
    <3>6. GoingOut'
      <4>1. \A r \in Players \ raced : hand'[r] \cap played = {}
        BY <3>5, <2>4
      <4> QED BY <4>1, <1>u DEF GoingOut
    <3>7. Undealt'
      BY <2>2 DEF Undealt
    <3>8. InOneHand'
      BY <3>5, <2>4, <2>6 DEF DealInv, InOneHand
    <3>9. Somewhere'
      <4>1. \A c \in Cards : (\E r \in Players : c \in hand[r]) \/ c \in played \/ c \in bottom
        BY <2>6 DEF DealInv, Somewhere
      <4> QED BY <4>1, <2>4, <1>u DEF Somewhere
    <3> QED BY <3>4, <3>6, <3>7, <3>8, <3>9 DEF DealInv
  <2>7. ~overdealt' => ~overdealt
    BY <2>3, Zenon
  <2> QED BY <2>5, <2>6, <2>7, <1>u DEF HandInv
<1> QED BY <1>1, <1>2

\* Every step leaves the cards in order (dealCards, addCardsToPlayer,
\* removeCardFromPlayer, clearRoomCards).
LEMMA HandStep ==
  ASSUME TypeOK, BidderInv, HandInv, [Next]_vars
  PROVE  HandInv'
<1>t. /\ pc \in [Threads -> Steps] /\ who \in [Threads -> Players \cup {NoOne}]
      /\ cards \in [Threads -> SUBSET Cards] /\ got \in [Threads -> SUBSET Cards]
      /\ hand \in [Players -> SUBSET Cards] /\ Players \subseteq Threads
      /\ \A t \in Threads : pc[t] \notin {"idle", "expire"} => who[t] \in Players
      /\ Checker \in Threads
  BY DEF TypeOK, ThreadsOK, StoreOK, Threads
<1>n. ASSUME order' = << >>, run' = run PROVE HandInv'
  BY <1>n DEF HandInv, WriteInv, run
<1>d. ASSUME Deal, run' = run PROVE HandInv'
  BY <1>d, HandDeal DEF HandInv
<1>u. ASSUME UNCHANGED <<hand, bottom, order, phase, played, raced, overdealt>>, run' = run
      PROVE  HandInv'
  <2>1. \A t \in Threads : /\ pc'[t] = pc[t] /\ who'[t] = who[t]
                           /\ cards'[t] = cards[t] /\ got'[t] = got[t]
    BY <1>u DEF run
  <2> QED BY <1>u, <2>1, HandAside
<1>w. ASSUME NEW t \in Threads, pc[t] \notin {"remove", "write"} \/ (pc[t] = "remove" /\ cards[t] = {}),
             pc'[t] \notin {"remove", "write"},
             UNCHANGED <<hand, bottom, order, phase, played, raced, overdealt>>,
             \A u \in Threads \ {t} : /\ pc'[u] = pc[u] /\ who'[u] = who[u]
                                      /\ cards'[u] = cards[u] /\ got'[u] = got[u]
      PROVE  HandInv'
  <2>1. ~AtHand(t) /\ ~AtHand(t)' /\ pc[t] # "write" /\ pc'[t] # "write"
    BY <1>w DEF AtHand
  <2> QED BY <1>w, <2>1, HandAside
<1>1. CASE ReadyForPlay
  BY <1>1, <1>d DEF ReadyForPlay, StartGame
<1>2. ASSUME NEW p \in Players, NEW bet \in Bets, GrabLord(p, bet) PROVE HandInv'
  <2>0. run' = run /\ phase = ""
    BY <1>2 DEF GrabLord, BidderInv
  <2>1. CASE NextBid(p)
    BY <2>0, <2>1, <1>u DEF NextBid, store, history
  <2>2. CASE Deal
    BY <2>0, <2>2, <1>d
  <2>3. CASE TooFew
    BY <2>0, <2>3, <1>n DEF TooFew
  <2>4. ASSUME NEW q, LordDetermined(q), q \in Players PROVE HandInv'
    BY <2>0, <2>4, HandLord
  <2> QED BY <1>2, <2>1, <2>2, <2>3, <2>4, BidType DEF GrabLord
<1>3. ASSUME NEW p \in Players, NEW C \in SUBSET hand[p], Play(p, C) PROVE HandInv'
  <2>1. /\ UNCHANGED <<hand, bottom, order, phase, overdealt>> /\ played' = played \cup C
        /\ who'[p] = p /\ cards'[p] = C /\ pc'[p] = (IF C = {} THEN "next" ELSE "remove")
        /\ pc[p] = "idle" /\ Takes(p, p, C) /\ p \in Threads
        /\ \A u \in Threads \ {p} : /\ pc'[u] = pc[u] /\ who'[u] = who[u]
                                    /\ cards'[u] = cards[u] /\ got'[u] = got[u]
    BY <1>3, <1>t DEF Play, Goto, store
  <2>2. pc[p] \notin {"remove", "write"} /\ pc'[p] # "write" /\ (C # {} => pc'[p] = "remove")
    BY <2>1
  <2> QED BY <2>1, <2>2, HandTake
<1>4. ASSUME NEW t \in Threads, ReadHand(t) PROVE HandInv'
  BY <1>4, HandRead
<1>5. ASSUME NEW t \in Threads, WriteHand(t) PROVE HandInv'
  BY <1>5, HandWrite
<1>6. ASSUME NEW t \in Threads, EndGame(t) PROVE HandInv'
  <2>1. /\ pc[t] = "remove" /\ cards[t] = {} /\ pc'[t] \in {"done", "idle"}
        /\ UNCHANGED <<hand, bottom, order, phase, played, raced, overdealt>>
        /\ \A u \in Threads \ {t} : /\ pc'[u] = pc[u] /\ who'[u] = who[u]
                                    /\ cards'[u] = cards[u] /\ got'[u] = got[u]
    BY <1>6, <1>t DEF EndGame, Goto, Return, store
  <2> QED BY <2>1, <1>w
<1>7. ASSUME NEW t \in Threads, GameGoesOn(t) PROVE HandInv'
  <2>1. /\ pc[t] \notin {"remove", "write"} \/ (pc[t] = "remove" /\ cards[t] = {})
        /\ pc'[t] \notin {"remove", "write"}
        /\ UNCHANGED <<hand, bottom, order, phase, played, raced, overdealt>>
        /\ \A u \in Threads \ {t} : /\ pc'[u] = pc[u] /\ who'[u] = who[u]
                                    /\ cards'[u] = cards[u] /\ got'[u] = got[u]
    BY <1>7, <1>t DEF GameGoesOn, Goto, Return, store, history
  <2> QED BY <2>1, <1>w
<1>8. ASSUME NEW t \in Threads, PassTurn(t) PROVE HandInv'
  <2>1. /\ pc[t] \notin {"remove", "write"} \/ (pc[t] = "remove" /\ cards[t] = {})
        /\ pc'[t] \notin {"remove", "write"}
        /\ UNCHANGED <<hand, bottom, order, phase, played, raced, overdealt>>
        /\ \A u \in Threads \ {t} : /\ pc'[u] = pc[u] /\ who'[u] = who[u]
                                    /\ cards'[u] = cards[u] /\ got'[u] = got[u]
    BY <1>8, <1>t DEF PassTurn, Goto, Return, store, history
  <2> QED BY <2>1, <1>w
<1>9. ASSUME NEW t \in Threads, AINothing(t) PROVE HandInv'
  <2>1. /\ pc[t] \notin {"remove", "write"} \/ (pc[t] = "remove" /\ cards[t] = {})
        /\ pc'[t] \notin {"remove", "write"}
        /\ UNCHANGED <<hand, bottom, order, phase, played, raced, overdealt>>
        /\ \A u \in Threads \ {t} : /\ pc'[u] = pc[u] /\ who'[u] = who[u]
                                    /\ cards'[u] = cards[u] /\ got'[u] = got[u]
    BY <1>9, <1>t DEF AINothing, Goto, Return, store, history
  <2> QED BY <2>1, <1>w
<1>10. ASSUME NEW t \in Threads, AIMove(t) PROVE HandInv'
  <2>0. pc[t] = "ai" /\ who[t] \in Players
    BY <1>10, <1>t DEF AIMove
  <2> DEFINE C == Smallest(hand[who[t]])
  <2>1. /\ UNCHANGED <<hand, bottom, order, phase, overdealt, who, got>>
        /\ \A u \in Threads \ {t} : pc'[u] = pc[u] /\ cards'[u] = cards[u]
        /\ \/ cards'[t] = C /\ played' = played \cup C /\ pc'[t] = "remove"
              /\ Takes(t, who[t], C)
           \/ cards'[t] = cards[t] /\ played' = played /\ pc'[t] = "tell" /\ raced' = raced
    BY <1>10, <1>t DEF AIMove, Goto, store
  <2>2. C \subseteq hand[who[t]]
    BY DEF Smallest
  <2> HIDE DEF C
  <2>3. CASE cards'[t] = C /\ played' = played \cup C /\ pc'[t] = "remove" /\ Takes(t, who[t], C)
    <3>1. /\ pc[t] \notin {"remove", "write"} /\ pc'[t] # "write" /\ who'[t] = who[t]
          /\ C # {} => pc'[t] = "remove"
      BY <2>0, <2>1, <2>3
    <3> QED BY <2>0, <2>1, <2>2, <2>3, <3>1, HandTake
  <2>4. CASE cards'[t] = cards[t] /\ played' = played /\ pc'[t] = "tell" /\ raced' = raced
    BY <2>0, <2>1, <2>4, <1>w
  <2> QED BY <2>1, <2>3, <2>4
<1>11. ASSUME NEW t \in Threads, AITell(t) PROVE HandInv'
  <2>1. /\ pc[t] \notin {"remove", "write"} \/ (pc[t] = "remove" /\ cards[t] = {})
        /\ pc'[t] \notin {"remove", "write"}
        /\ UNCHANGED <<hand, bottom, order, phase, played, raced, overdealt>>
        /\ \A u \in Threads \ {t} : /\ pc'[u] = pc[u] /\ who'[u] = who[u]
                                    /\ cards'[u] = cards[u] /\ got'[u] = got[u]
    BY <1>11, <1>t DEF AITell, Goto, Return, store, history
  <2> QED BY <2>1, <1>w
<1>12. ASSUME NEW t \in Threads, Chain(t) PROVE HandInv'
  <2>1. /\ pc[t] \notin {"remove", "write"} \/ (pc[t] = "remove" /\ cards[t] = {})
        /\ pc'[t] \notin {"remove", "write"}
        /\ UNCHANGED <<hand, bottom, order, phase, played, raced, overdealt>>
        /\ \A u \in Threads \ {t} : /\ pc'[u] = pc[u] /\ who'[u] = who[u]
                                    /\ cards'[u] = cards[u] /\ got'[u] = got[u]
    BY <1>12, <1>t DEF Chain, Goto, Return, store, history
  <2> QED BY <2>1, <1>w
<1>13. ASSUME NEW X \in SUBSET timers, Collect(X) PROVE HandInv'
  <2>1. /\ pc[Checker] \notin {"remove", "write"} /\ pc'[Checker] \notin {"remove", "write"}
        /\ UNCHANGED <<hand, bottom, order, phase, played, raced, overdealt>>
        /\ \A u \in Threads \ {Checker} : /\ pc'[u] = pc[u] /\ who'[u] = who[u]
                                          /\ cards'[u] = cards[u] /\ got'[u] = got[u]
    BY <1>13, <1>t DEF Collect, Goto, Return, store, history
  <2> QED BY <2>1, <1>w, <1>t
<1>14. ASSUME NEW p \in expired, HandleTimeout(p) PROVE HandInv'
  <2>1. /\ pc[Checker] \notin {"remove", "write"} /\ pc'[Checker] \notin {"remove", "write"}
        /\ UNCHANGED <<hand, bottom, order, phase, played, raced, overdealt>>
        /\ \A u \in Threads \ {Checker} : /\ pc'[u] = pc[u] /\ who'[u] = who[u]
                                          /\ cards'[u] = cards[u] /\ got'[u] = got[u]
    BY <1>14, <1>t DEF HandleTimeout, Goto, Return, store, history
  <2> QED BY <2>1, <1>w, <1>t
<1>15. CASE CheckNextPlayer
  <2>1. /\ pc[Checker] \notin {"remove", "write"} /\ pc'[Checker] \notin {"remove", "write"}
        /\ UNCHANGED <<hand, bottom, order, phase, played, raced, overdealt>>
        /\ \A u \in Threads \ {Checker} : /\ pc'[u] = pc[u] /\ who'[u] = who[u]
                                          /\ cards'[u] = cards[u] /\ got'[u] = got[u]
    BY <1>15, <1>t DEF CheckNextPlayer, Goto, Return, store, history
  <2> QED BY <2>1, <1>w, <1>t
<1>16. ASSUME NEW p \in Players, Drop(p) PROVE HandInv'
  BY <1>16, <1>u DEF Drop, store, history
<1>17. ASSUME NEW p \in Players, HeartbeatLost(p) PROVE HandInv'
  BY <1>17, <1>u DEF HeartbeatLost, store, history
<1>18. ASSUME NEW p \in Players, DropSuperseded(p) PROVE HandInv'
  BY <1>18, <1>u DEF DropSuperseded, store, history
<1>19. ASSUME NEW p \in Players, Reconnect(p) PROVE HandInv'
  BY <1>19, <1>u DEF Reconnect, store, history
<1>20. ASSUME NEW p \in Players, Continue(p) PROVE HandInv'
  <2>1. CASE Deal
    BY <1>20, <2>1, <1>d DEF Continue
  <2>2. CASE ~Deal
    BY <1>20, <2>2, <1>u DEF Continue, StartGame, store, history
  <2> QED BY <2>1, <2>2
<1>21. ASSUME NEW p \in Players, GameOver(p) PROVE HandInv'
  BY <1>21, <1>n DEF GameOver
<1>22. ASSUME NEW p \in Players, LeaveRoom(p) PROVE HandInv'
  BY <1>22, <1>u DEF LeaveRoom, store, history
<1>23. CASE UNCHANGED vars
  BY <1>23, <1>u DEF vars, store, history
<1> QED
  BY <1>1, <1>2, <1>3, <1>4, <1>5, <1>6, <1>7, <1>8, <1>9, <1>10, <1>11, <1>12, <1>13,
    <1>14, <1>15, <1>16, <1>17, <1>18, <1>19, <1>20, <1>21, <1>22, <1>23
  DEF Next, Bidding, Playing, Handlers, Timeouts, Faults, Returning

\* No card is lost and none is in two hands, whatever the pack, however often
\* players drop out, and although the automatic player and a client who is back
\* take cards out of one hand at once, each writing what it read before
\* (dealCards, addCardsToPlayer, removeCardFromPlayer).  Of the cards that were
\* played, only those of a hand two threads were at can come back.
THEOREM NoCardLost == Spec => []CardsConserved
<1> DEFINE Inv == TypeOK /\ BidderInv /\ HandInv
<1>1. Init => Inv
  <2> SUFFICES ASSUME Init PROVE Inv
    OBVIOUS
  <2>1. /\ order = << >> /\ phase = "" /\ members = Players
        /\ \A t \in Threads : pc[t] = "idle"
        /\ \A p \in Players : client[p] = "wait"
    BY DEF Init
  <2>2. BidderInv /\ HandInv
    BY <2>1 DEF BidderInv, HandInv, WriteInv
  <2> QED BY <2>2, TypeInit
<1>2. Inv /\ [Next]_vars => Inv'
  <2>1. TypeOK /\ [Next]_vars => TypeOK'
    BY StoreStep, ScoringStep, PresenceStep, ThreadsStep, HistoryStep DEF TypeOK
  <2> QED BY <2>1, BidderStep, HandStep
<1>3. Inv => CardsConserved
  <2> SUFFICES ASSUME Inv, AllIdle, order # << >>, ~overdealt PROVE
         /\ \A p, q \in Players : p # q => hand[p] \cap hand[q] = {}
         /\ \A p \in Players \ raced : hand[p] \cap played = {}
         /\ (UNION {hand[p] : p \in Players}) \cup played
              \cup (IF phase = "" THEN bottom ELSE {}) = Cards
    BY DEF CardsConserved
  <2>1. GoingOut /\ InOneHand /\ Somewhere
    BY DEF HandInv, DealInv
  <2>2. \A p \in Players \ raced : hand[p] \cap played = {}
    BY <2>1 DEF GoingOut, AtHand, AllIdle
  <2>3. \A p, q \in Players : p # q => hand[p] \cap hand[q] = {}
    BY <2>1 DEF InOneHand
  <2>4. bottom \subseteq Cards /\ played \subseteq Cards /\ \A p \in Players : hand[p] \subseteq Cards
    BY DEF TypeOK, StoreOK, HistoryOK
  <2> DEFINE held == UNION {hand[p] : p \in Players}
             left == IF phase = "" THEN bottom ELSE {}
  <2>5. \A c : c \in held <=> \E p \in Players : c \in hand[p]
    OBVIOUS
  <2>6. \A c : c \in left <=> phase = "" /\ c \in bottom
    OBVIOUS
  <2> HIDE DEF held, left
  <2>7. held \cup played \cup left = Cards
    BY <2>1, <2>4, <2>5, <2>6 DEF Somewhere
  <2>8. (UNION {hand[p] : p \in Players}) \cup played
              \cup (IF phase = "" THEN bottom ELSE {}) = Cards
    BY <2>7 DEF held, left
  <2> QED BY <2>2, <2>3, <2>8
<1> QED BY <1>1, <1>2, <1>3, PTL DEF Spec
=============================================================================
