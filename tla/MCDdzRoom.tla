----------------------------- MODULE MCDdzRoom -----------------------------
(***************************************************************************)
(* DdzRoom for TLC.  Two runs share the module: bidding (several deals, a  *)
(* forced landlord, shown cards, hands of two) and playing (paid doubling, *)
(* and what must happen in the end).                                       *)
(***************************************************************************)
EXTENDS DdzRoom

\* seat 2's hero may force the landlord
BiddingSkill == <<"none", "forceRob", "none">>
\* seat 1's hero may waive the price of the last doubling
DoublingSkill == <<"freeMax", "none", "none">>
=============================================================================
