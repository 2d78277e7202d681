------------------------ MODULE MCCriticalSection ------------------------
(* CriticalSection for TLC. The coroutines are not symmetric in a liveness *)
(* run, so no symmetry set is declared.                                    *)
EXTENDS CriticalSection
=============================================================================
