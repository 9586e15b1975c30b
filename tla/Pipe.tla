--------------------------------- MODULE Pipe ---------------------------------
(***************************************************************************)
(* What one direction of a connection promises: messages come out in the   *)
(* order in which they went in, none twice, and as long as the connection  *)
(* is open and intact every one of them comes out.  Once it is not intact  *)
(* nothing more is promised.                                               *)
(***************************************************************************)
EXTENDS Naturals, Sequences

CONSTANT Message      \* what goes through

VARIABLES
  accepted,   \* the messages that went in
  delivered,  \* the messages that came out
  open,       \* nobody has closed the connection
  intact      \* the promise is still in force

vars == <<accepted, delivered, open, intact>>

Init == accepted = << >> /\ delivered = << >> /\ open = TRUE /\ intact = TRUE

Accept ==
  /\ \E m \in Message : accepted' = Append(accepted, m)
  /\ UNCHANGED delivered

\* one message or several that were waiting
Deliver ==
  /\ \E n \in Len(delivered) + 1 .. Len(accepted) :
       delivered' = SubSeq(accepted, 1, n)
  /\ UNCHANGED accepted

\* the connection can be closed, or lose its promise, with any other step
Next ==
  \/ /\ intact'
     /\ Accept \/ Deliver \/ UNCHANGED <<accepted, delivered>>
     /\ open' => open
  \/ ~intact'

\* whatever happens, what is lost stays lost
Stays == [][~intact => ~intact']_vars

\* what went in comes out, unless the pipe is closed or its promise lost
Drains == accepted # delivered ~> (accepted = delivered \/ ~open \/ ~intact)

\* what a pipe never does, and with it what it does in the end
Safety == Init /\ [][Next]_vars /\ Stays
Spec == Safety /\ Drains
=============================================================================
