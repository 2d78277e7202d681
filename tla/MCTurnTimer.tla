---------------------------- MODULE MCTurnTimer ----------------------------
(***************************************************************************)
(* TurnTimer for TLC.  Times are in seconds: the first timer ticks twice,  *)
(* the second one counts the three seconds of a doubling phase.            *)
(***************************************************************************)
EXTENDS TurnTimer

\* a bid, the decision of a doubling phase, and a play: the clocks of the first two
\* may both still run in the third
BidDoublePlay == <<"Bid", "Double", "Play">>
=============================================================================
