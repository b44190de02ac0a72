-------------------------- MODULE MC_AosCoreRunner --------------------------
(* Model-checking instance of AosCore with the Runner: one instance, whose *)
(* StartInstance or StopInstance may be in progress when AosCore::Stop     *)
(* begins; exit codes 0 and 1.                                             *)
EXTENDS AosCoreRunner

CONSTANTS i1

MCInstances == {i1}
MCExitCodes == {0, 1}
=============================================================================
