------------------------------- MODULE MCGame -------------------------------
(* Small instances of Game for TLC: seven cards or four, two or one of them *)
(* for each player and one for the bottom, among them the two jokers.       *)
EXTENDS Game, TLC

\* a pack whose bottom completes a pair of jokers
Pack7   == << <<1, 3>>, <<1, 4>>, <<2, 4>>, <<0, 14>>, <<1, 6>>, <<2, 3>>, <<0, 15>> >>
Pack4   == << <<0, 14>>, <<1, 3>>, <<2, 4>>, <<0, 15>> >>
Cards7  == {Pack7[i] : i \in 1..7}
Cards4  == {Pack4[i] : i \in 1..4}
Packs7  == {Pack7}
Packs4  == {Pack4}

\* The players are interchangeable: the seating takes every order.
Symmetric == Permutations(Players)
=============================================================================
