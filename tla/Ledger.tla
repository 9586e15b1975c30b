-------------------------------- MODULE Ledger --------------------------------
(***************************************************************************)
(* What the scores in MySQL are meant to be: they change only when a game  *)
(* is settled, for its landlord and its two farmers at once, one paying    *)
(* what the others get.  Once the ledger is not intact nothing more is     *)
(* promised.                                                               *)
(***************************************************************************)
EXTENDS Integers, FiniteSets

CONSTANTS
  User,    \* whose scores are kept
  Stake    \* what a farmer can win or lose

VARIABLES
  score,   \* the score of every user
  intact   \* the promise is still in force

vars == <<score, intact>>

Init == score = [u \in User |-> 0] /\ intact = TRUE

\* the landlord gets from two farmers, or pays to them, the stake
Settle(lord, farmers, stake) ==
  score' = [u \in User |-> CASE u = lord -> score[u] + 2 * stake
                             [] u \in farmers -> score[u] - stake
                             [] OTHER -> score[u]]

Next ==
  \/ /\ intact'
     /\ \/ UNCHANGED score
        \/ \E lord \in User, stake \in Stake :
             \E farmers \in SUBSET (User \ {lord}) :
               Cardinality(farmers) = 2 /\ Settle(lord, farmers, stake)
  \/ ~intact'

Spec == Init /\ [][Next]_vars /\ [][~intact => ~intact']_vars
=============================================================================
