------------------------------- MODULE MCScore --------------------------------
(***************************************************************************)
(* Scores in two rooms: the first three users begin in the first room, the *)
(* others in the second.  A client's call has a connection of its own; all *)
(* calls for automatic players use that of Communication::getInstance.     *)
(***************************************************************************)
EXTENDS Score

CONSTANTS r1, r2, client1, client2, silent1, silent2, own1, own2, shared

MCStart == [u \in User |-> IF u <= 3 THEN r1 ELSE r2]
MCRoomOf == [j \in Job |-> IF j \in {client1, silent1} THEN r1 ELSE r2]
MCDbOf == [j \in Job |-> CASE j = client1 -> own1 [] j = client2 -> own2 [] OTHER -> shared]
=============================================================================
