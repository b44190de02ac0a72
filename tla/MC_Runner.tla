----------------------------- MODULE MC_Runner -----------------------------
(* Model-checking instance of the Runner: two instances, exit codes 0 and  *)
(* 1, one automatic restart, two StartInstance calls per instance.         *)
EXTENDS Runner

CONSTANTS i1, i2

MCInstances == {i1, i2}
MCExitCodes == {0, 1}
=============================================================================
