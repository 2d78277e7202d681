--------------------------- MODULE MCTimingWheel ---------------------------
(***************************************************************************)
(* TimingWheel for TLC: a word of five bits, so that the wheel wraps every *)
(* 32 ticks and every level is used.                                       *)
(***************************************************************************)
EXTENDS TimingWheel

\* every delay an int can express in the small word, and one that is no delay
AllDelays == {0} \cup 1..(Word \div 2 - 1)

=============================================================================
