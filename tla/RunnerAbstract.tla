--------------------------- MODULE RunnerAbstract ---------------------------
(***************************************************************************)
(* What the Runner promises per instance (spec section 4.5): an instance   *)
(* is absent, being started, running, or its start failed (Failed is       *)
(* surfaced and no running entry is left).  StartInstance leads from       *)
(* absent or failed through starting to running or failed, or fails at    *)
(* once; StopInstance makes a running or failed instance absent.           *)
(***************************************************************************)
CONSTANT Instances

VARIABLE phase

Phases == {"absent", "starting", "running", "failed"}

TypeOK == phase \in [Instances -> Phases]

Init == phase = [i \in Instances |-> "absent"]

Start(i) ==
    /\ phase[i] \in {"absent", "failed"}
    /\ phase' = [phase EXCEPT ![i] = "starting"]

(* StartInstance returns {Failed} before any start began.                  *)
Reject(i) ==
    /\ phase[i] \in {"absent", "failed"}
    /\ phase' = [phase EXCEPT ![i] = "failed"]

Started(i) ==
    /\ phase[i] = "starting"
    /\ phase' = [phase EXCEPT ![i] = "running"]

StartFailed(i) ==
    /\ phase[i] = "starting"
    /\ phase' = [phase EXCEPT ![i] = "failed"]

Stop(i) ==
    /\ phase[i] \in {"running", "failed"}
    /\ phase' = [phase EXCEPT ![i] = "absent"]

Next ==
    \E i \in Instances :
        Start(i) \/ Reject(i) \/ Started(i) \/ StartFailed(i) \/ Stop(i)

(* A StartInstance call always returns.                                    *)
Spec ==
    /\ Init /\ [][Next]_phase
    /\ \A i \in Instances : WF_phase(Started(i) \/ StartFailed(i))

=============================================================================
