----------------------------- MODULE MCSession -----------------------------
(* Small instances of Session for TLC. *)
EXTENDS Session, TLC

CONSTANTS a1, a2

\* The agents are alike.
Alike == Permutations(Agents)

=============================================================================
