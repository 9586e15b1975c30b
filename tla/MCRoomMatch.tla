---------------------------- MODULE MCRoomMatch ----------------------------
(* Small instances of RoomMatch for TLC. *)
EXTENDS RoomMatch, TLC

\* Users are interchangeable: no action compares a user with anything
\* but another user.
Symmetric == Permutations(Users)
=============================================================================
