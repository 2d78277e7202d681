--------------------------- MODULE MCMatchmaking ---------------------------
(***************************************************************************)
(* Matchmaking for TLC: tables of two, and the kinds of the users' matches.*)
(***************************************************************************)
EXTENDS Matchmaking, TLC

CONSTANTS u1, u2, u3, r1

\* everybody in the public queue
AllPublic == [u \in Users |-> "Default"]
\* users a configured match names
AllNamed == [u \in Users |-> "MatchServer"]

\* With either nothing tells the users apart.
Alike == Permutations(Users)
=============================================================================
