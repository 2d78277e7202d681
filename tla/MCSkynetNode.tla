---------------------------- MODULE MCSkynetNode ----------------------------
(***************************************************************************)
(* Instances of SkynetNode for TLC.                                        *)
(***************************************************************************)
EXTENDS SkynetNode, TLC

CONSTANTS s1, s2, s3, w1, w2

\* In the run without liveness s1 and s3 are booted and s2 is launched by one of them;
\* nothing tells s1 and s3 apart.
BootedSymmetry == Permutations({s1, s3})

\* The first four workers of a node have weight -1, the next four 0.
Weights == [w \in Workers |-> IF w = w1 THEN -1 ELSE 0]

MessageSet == [id : Ids, src : Services \cup {"timer", "socket"}, kind : {"text", "error"}]

=============================================================================
