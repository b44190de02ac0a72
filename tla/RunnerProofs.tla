---------------------------- MODULE RunnerProofs ----------------------------
(***************************************************************************)
(* Proofs about the Runner for every value of the constants: the type      *)
(* invariant, and ActiveOnlyIfObserved through an inductive invariant.     *)
(***************************************************************************)
EXTENDS Runner, TLAPS

(* ActiveOnlyIfObserved is not inductive: a step of StartWake or of the    *)
(* monitor copies a state read earlier, and StartBegin clears sawActive.   *)
(* The strengthening says where such earlier reads are held and that a     *)
(* caller clearing sawActive holds none.                                   *)
StartingPcs == {"getStatus", "register", "waiting"}

(* mStartingUnits holds an entry exactly for the callers waiting on it.   *)
StartingWaits ==
    \A i \in Instances : i \in DOMAIN starting <=> pc[i] = "waiting"

(* An entry of mRunningUnits belongs to an instance whose last             *)
(* StartInstance returned Active.                                          *)
RunningStarted == \A i \in DOMAIN running : view[i] = "started"

(* A caller inside StartInstance has not been returned Active.             *)
StartingNotStarted ==
    \A i \in Instances : pc[i] \in StartingPcs => view[i] # "started"

(* A caller inside StopInstance has erased its running entry.              *)
StoppingUntracked ==
    \A i \in Instances : pc[i] = "stopping" => i \notin DOMAIN running

(* Every "active" the Runner holds for a start in progress was read        *)
(* during that start.                                                      *)
HeldActiveObserved ==
    /\ \A i \in Instances :
         pc[i] = "register" /\ initStatus[i].state = "active" => sawActive[i]
    /\ \A i \in DOMAIN starting :
         starting[i].state = "active" => sawActive[i]

IInv ==
    /\ TypeOK
    /\ ActiveOnlyIfObserved
    /\ StartingWaits
    /\ RunningStarted
    /\ StartingNotStarted
    /\ StoppingUntracked
    /\ HeldActiveObserved

(* Every step the Runner's code can take, whatever its caller does: a     *)
(* call begun at any moment, Runner::Start, and Runner::Stop with calls    *)
(* still in progress.                                                      *)
AnyStep ==
    \/ \E i \in Instances : \/ StartBegin(i) \/ StopBegin(i)
                            \/ CallStep(i) \/ Systemd(i)
    \/ MonitorPoll \/ MonitorExit \/ RunnerStop \/ RunnerJoin
    \/ RunnerStart \/ Terminated

-----------------------------------------------------------------------------
(* The state after Runner::Init, with or without the monitor thread of     *)
(* Runner::Start, satisfies IInv.                                          *)
LEMMA InitMapsIInv ==
    ASSUME InitMaps, mon \in {"running", "exited"},
           rstate \in {"created", "started"}
    PROVE  IInv
<1> USE ConstantsAssumption
<1>1. TypeOK
  <2>1. sd \in [Instances -> UnitStatus]
    BY DEF InitMaps, UnitStatus, UnitStates, ExitVals
  <2>2. initStatus \in [Instances -> UnitStatus]
    BY DEF InitMaps, UnitStatus, UnitStates, ExitVals, NoStatus
  <2>3. DOMAIN starting = {} /\ DOMAIN running = {} /\ DOMAIN reported = {}
    BY DEF InitMaps, EmptyMap
  <2>4. restarts \in [Instances -> 0..StartBurst]
        /\ starts \in [Instances -> 0..MaxStarts]
    BY DEF InitMaps
  <2>5. pc \in [Instances -> Pcs] /\ sawActive \in [Instances -> BOOLEAN]
        /\ view \in [Instances -> {"stopped", "started", "failed"}]
    BY DEF InitMaps, Pcs
  <2>6. closed \in BOOLEAN /\ mon \in {"running", "exited"}
        /\ rstate \in {"created", "started", "stopping", "stopped"}
    BY DEF InitMaps
  <2> QED
    BY <2>1, <2>2, <2>3, <2>4, <2>5, <2>6 DEF TypeOK
<1>2. DOMAIN starting = {} /\ DOMAIN running = {}
  BY DEF InitMaps, EmptyMap
<1> QED
  BY <1>1, <1>2 DEF InitMaps, IInv, ActiveOnlyIfObserved, StartingWaits, RunningStarted,
      StartingNotStarted, StoppingUntracked, HeldActiveObserved,
      StartingPcs, NoStatus

(* Runner::Init and Runner::Start establish IInv.                          *)
LEMMA InitIInv == Init => IInv
BY InitMapsIInv DEF Init

LEMMA CreatedIInv == Created => IInv
BY InitMapsIInv DEF Created

(* Every step of a caller, of the monitor, of Start, Stop and systemd      *)
(* keeps IInv, whether or not the Launcher respects the Runner's           *)
(* lifecycle: IInv does not depend on who calls.                           *)
LEMMA StepIInv == IInv /\ [AnyStep]_vars => IInv'
<1> SUFFICES ASSUME IInv, [AnyStep]_vars PROVE IInv'
    OBVIOUS
<1> USE ConstantsAssumption
<1>0. TypeOK
    BY DEF IInv
<1> USE <1>0
<1>1. ASSUME NEW i \in Instances, StartBegin(i) PROVE IInv'
  <2>0. StartJob(sd[i]) \in UnitStatus
    BY DEF TypeOK, StartJob, UnitStatus, UnitStates
  <2>1. TypeOK'
    <3>1. sd' \in [Instances -> UnitStatus]
      BY <1>1, <2>0 DEF StartBegin, TypeOK
    <3>2. starts' \in [Instances -> 0..MaxStarts]
      BY <1>1 DEF StartBegin, TypeOK
    <3>3. sawActive' \in [Instances -> BOOLEAN]
      BY <1>1 DEF StartBegin, TypeOK
    <3>4. view' \in [Instances -> {"stopped", "started", "failed"}]
          /\ pc' \in [Instances -> Pcs]
      BY <1>1 DEF StartBegin, TypeOK, Pcs
    <3> QED
      BY <1>1, <3>1, <3>2, <3>3, <3>4 DEF StartBegin, TypeOK
  <2>2. i \notin DOMAIN running /\ i \notin DOMAIN starting
    BY <1>1 DEF StartBegin, IInv, RunningStarted, StartingWaits
  <2>10. ActiveOnlyIfObserved'
    BY <1>1, <2>2 DEF StartBegin, IInv, ActiveOnlyIfObserved, TypeOK
  <2>11. StartingWaits'
    BY <1>1, <2>2 DEF StartBegin, IInv, StartingWaits, TypeOK
  <2>12. RunningStarted'
    BY <1>1, <2>2 DEF StartBegin, IInv, RunningStarted, TypeOK
  <2>13. StartingNotStarted'
    BY <1>1, <2>2 DEF StartBegin, IInv, StartingNotStarted, TypeOK
  <2>14. StoppingUntracked'
    BY <1>1, <2>2 DEF StartBegin, IInv, StoppingUntracked, TypeOK
  <2>15. HeldActiveObserved'
    BY <1>1, <2>2 DEF StartBegin, IInv, HeldActiveObserved, TypeOK
  <2> QED
    BY <2>1, <2>10, <2>11, <2>12, <2>13, <2>14, <2>15 DEF IInv
<1>2. ASSUME NEW i \in Instances, StartGetStatus(i) PROVE IInv'
  <2>1. TypeOK'
    <3>1. CASE /\ initStatus' = [initStatus EXCEPT ![i] = sd[i]]
               /\ sawActive' = [sawActive EXCEPT ![i] =
                                   @ \/ sd[i].state = "active"]
               /\ pc' = [pc EXCEPT ![i] = "register"]
               /\ UNCHANGED view
      BY <1>2, <3>1 DEF StartGetStatus, TypeOK, Pcs
    <3>2. CASE /\ view' = [view EXCEPT ![i] = "failed"]
               /\ pc' = [pc EXCEPT ![i] = "idle"]
               /\ UNCHANGED <<initStatus, sawActive>>
      BY <1>2, <3>2 DEF StartGetStatus, TypeOK, Pcs
    <3> QED
      BY <1>2, <3>1, <3>2 DEF StartGetStatus
  <2>10. ActiveOnlyIfObserved'
    BY <1>2 DEF StartGetStatus, IInv, ActiveOnlyIfObserved, TypeOK, StartingPcs
  <2>11. StartingWaits'
    BY <1>2 DEF StartGetStatus, IInv, StartingWaits, TypeOK, StartingPcs
  <2>12. RunningStarted'
    BY <1>2 DEF StartGetStatus, IInv, RunningStarted, StartingNotStarted,
       TypeOK, StartingPcs
  <2>13. StartingNotStarted'
    BY <1>2 DEF StartGetStatus, IInv, StartingNotStarted, TypeOK, StartingPcs
  <2>14. StoppingUntracked'
    BY <1>2 DEF StartGetStatus, IInv, StoppingUntracked, TypeOK, StartingPcs
  <2>15. HeldActiveObserved'
    BY <1>2 DEF StartGetStatus, IInv, HeldActiveObserved, TypeOK, StartingPcs
  <2> QED
    BY <2>1, <2>10, <2>11, <2>12, <2>13, <2>14, <2>15 DEF IInv
<1>3. ASSUME NEW i \in Instances, StartRegister(i) PROVE IInv'
  <2>2. DOMAIN starting' = DOMAIN starting \cup {i}
        /\ starting'[i] = initStatus[i]
        /\ \A j \in DOMAIN starting \ {i} : starting'[j] = starting[j]
    BY <1>3 DEF StartRegister, Put
  <2>1. TypeOK'
    BY <1>3, <2>2 DEF StartRegister, TypeOK, NoStatus, UnitStatus, UnitStates,
       ExitVals, Pcs
  <2>10. ActiveOnlyIfObserved'
    BY <1>3, <2>2 DEF StartRegister, IInv, ActiveOnlyIfObserved, TypeOK, StartingPcs
  <2>11. StartingWaits'
    BY <1>3, <2>2 DEF StartRegister, IInv, StartingWaits, TypeOK, StartingPcs
  <2>12. RunningStarted'
    BY <1>3, <2>2 DEF StartRegister, IInv, RunningStarted, TypeOK, StartingPcs
  <2>13. StartingNotStarted'
    BY <1>3, <2>2 DEF StartRegister, IInv, StartingNotStarted, TypeOK, StartingPcs
  <2>14. StoppingUntracked'
    BY <1>3, <2>2 DEF StartRegister, IInv, StoppingUntracked, TypeOK, StartingPcs
  <2>15. HeldActiveObserved'
    BY <1>3, <2>2 DEF StartRegister, IInv, HeldActiveObserved, TypeOK, StartingPcs
  <2> QED
    BY <2>1, <2>10, <2>11, <2>12, <2>13, <2>14, <2>15 DEF IInv
<1>4. ASSUME NEW i \in Instances, StartWake(i) PROVE IInv'
  <2>2. DOMAIN starting' = DOMAIN starting \ {i}
        /\ \A j \in DOMAIN starting \ {i} : starting'[j] = starting[j]
    BY <1>4 DEF StartWake, Erase
  <2>3. i \in DOMAIN starting /\ starting[i] \in UnitStatus
    BY <1>4 DEF StartWake, IInv, StartingWaits, TypeOK
  <2>4. CASE starting[i].state # "active"
    <3>1. TypeOK'
      BY <1>4, <2>2, <2>3, <2>4 DEF StartWake, TypeOK, Pcs
    <3>2. ActiveOnlyIfObserved'
      BY <1>4, <2>2, <2>3, <2>4 DEF StartWake, IInv, ActiveOnlyIfObserved, TypeOK, StartingNotStarted, StartingPcs
    <3>3. StartingWaits'
      BY <1>4, <2>2, <2>3, <2>4 DEF StartWake, IInv, StartingWaits, TypeOK, StartingNotStarted, StartingPcs
    <3>4. RunningStarted'
      BY <1>4, <2>2, <2>3, <2>4 DEF StartWake, IInv, RunningStarted, TypeOK, StartingNotStarted, StartingPcs
    <3>5. StartingNotStarted'
      BY <1>4, <2>2, <2>3, <2>4 DEF StartWake, IInv, StartingNotStarted, TypeOK, StartingNotStarted, StartingPcs
    <3>6. StoppingUntracked'
      BY <1>4, <2>2, <2>3, <2>4 DEF StartWake, IInv, StoppingUntracked, TypeOK, StartingNotStarted, StartingPcs
    <3>7. HeldActiveObserved'
      BY <1>4, <2>2, <2>3, <2>4 DEF StartWake, IInv, HeldActiveObserved, TypeOK, StartingNotStarted, StartingPcs
    <3> QED
      BY <3>1, <3>2, <3>3, <3>4, <3>5, <3>6, <3>7 DEF IInv
  <2>5. CASE starting[i].state = "active"
    <3>0. DOMAIN running' = DOMAIN running \cup {i}
          /\ running'[i] = [state |-> "Active", exit |-> starting[i].exit]
          /\ \A j \in DOMAIN running \ {i} : running'[j] = running[j]
      BY <1>4, <2>5 DEF StartWake, Put
    <3>1. TypeOK'
      <4>1. /\ DOMAIN running' \subseteq Instances
            /\ \A j \in DOMAIN running' : running'[j] \in RunStatus
        <5>1. [state |-> "Active", exit |-> starting[i].exit] \in RunStatus
          BY <2>3 DEF UnitStatus, RunStatus, RunStates
        <5> QED
          BY <3>0, <5>1 DEF IInv, TypeOK
      <4>2. /\ DOMAIN starting' \subseteq Instances
            /\ \A j \in DOMAIN starting' : starting'[j] \in UnitStatus
        BY <2>2 DEF IInv, TypeOK
      <4>3. /\ pc' \in [Instances -> Pcs]
            /\ view' \in [Instances -> {"stopped", "started", "failed"}]
        BY <1>4, <2>5 DEF StartWake, IInv, TypeOK, Pcs
      <4> QED
        BY <1>4, <4>1, <4>2, <4>3 DEF StartWake, IInv, TypeOK
    <3>9. sawActive[i]
      BY <2>3, <2>5 DEF IInv, HeldActiveObserved
    <3>2. ActiveOnlyIfObserved'
      BY <1>4, <2>2, <2>3, <2>5, <3>0, <3>9 DEF StartWake, IInv, ActiveOnlyIfObserved, TypeOK, StartingNotStarted, StartingPcs
    <3>3. StartingWaits'
      BY <1>4, <2>2, <2>3, <2>5, <3>0, <3>9 DEF StartWake, IInv, StartingWaits, TypeOK, StartingNotStarted, StartingPcs
    <3>4. RunningStarted'
      BY <1>4, <2>2, <2>3, <2>5, <3>0, <3>9 DEF StartWake, IInv, RunningStarted, TypeOK, StartingNotStarted, StartingPcs
    <3>5. StartingNotStarted'
      BY <1>4, <2>2, <2>3, <2>5, <3>0, <3>9 DEF StartWake, IInv, StartingNotStarted, TypeOK, StartingNotStarted, StartingPcs
    <3>6. StoppingUntracked'
      BY <1>4, <2>2, <2>3, <2>5, <3>0, <3>9 DEF StartWake, IInv, StoppingUntracked, TypeOK, StartingNotStarted, StartingPcs
    <3>7. HeldActiveObserved'
      BY <1>4, <2>2, <2>3, <2>5, <3>0, <3>9 DEF StartWake, IInv, HeldActiveObserved, TypeOK, StartingNotStarted, StartingPcs
    <3> QED
      BY <3>1, <3>2, <3>3, <3>4, <3>5, <3>6, <3>7 DEF IInv
  <2> QED
    BY <2>4, <2>5
<1>5. ASSUME NEW i \in Instances, StopBegin(i) PROVE IInv'
  <2>2. DOMAIN running' = DOMAIN running \ {i}
        /\ \A j \in DOMAIN running \ {i} : running'[j] = running[j]
    BY <1>5 DEF StopBegin, Erase
  <2>1. TypeOK'
    BY <1>5, <2>2 DEF StopBegin, TypeOK, Pcs
  <2>10. ActiveOnlyIfObserved'
    BY <1>5, <2>2 DEF StopBegin, IInv, ActiveOnlyIfObserved, TypeOK, StartingPcs
  <2>11. StartingWaits'
    BY <1>5, <2>2 DEF StopBegin, IInv, StartingWaits, TypeOK, StartingPcs
  <2>12. RunningStarted'
    BY <1>5, <2>2 DEF StopBegin, IInv, RunningStarted, TypeOK, StartingPcs
  <2>13. StartingNotStarted'
    BY <1>5, <2>2 DEF StopBegin, IInv, StartingNotStarted, TypeOK, StartingPcs
  <2>14. StoppingUntracked'
    BY <1>5, <2>2 DEF StopBegin, IInv, StoppingUntracked, TypeOK, StartingPcs
  <2>15. HeldActiveObserved'
    BY <1>5, <2>2 DEF StopBegin, IInv, HeldActiveObserved, TypeOK, StartingPcs
  <2> QED
    BY <2>1, <2>10, <2>11, <2>12, <2>13, <2>14, <2>15 DEF IInv
<1>6. ASSUME NEW i \in Instances, StopUnits(i) PROVE IInv'
  <2>2. sd'[i] \in UnitStatus
    BY <1>6 DEF StopUnits, TypeOK, UnitStatus, UnitStates
  <2>1. TypeOK'
    BY <1>6, <2>2 DEF StopUnits, TypeOK, Pcs
  <2>10. ActiveOnlyIfObserved'
    BY <1>6 DEF StopUnits, IInv, ActiveOnlyIfObserved, TypeOK, StartingPcs
  <2>11. StartingWaits'
    BY <1>6 DEF StopUnits, IInv, StartingWaits, TypeOK, StartingPcs
  <2>12. RunningStarted'
    BY <1>6 DEF StopUnits, IInv, RunningStarted, StoppingUntracked, TypeOK,
       StartingPcs
  <2>13. StartingNotStarted'
    BY <1>6 DEF StopUnits, IInv, StartingNotStarted, TypeOK, StartingPcs
  <2>14. StoppingUntracked'
    BY <1>6 DEF StopUnits, IInv, StoppingUntracked, TypeOK, StartingPcs
  <2>15. HeldActiveObserved'
    BY <1>6 DEF StopUnits, IInv, HeldActiveObserved, TypeOK, StartingPcs
  <2> QED
    BY <2>1, <2>10, <2>11, <2>12, <2>13, <2>14, <2>15 DEF IInv
<1>7. ASSUME NEW i \in Instances, Systemd(i) PROVE IInv'
  <2>1. TypeOK'
    <3>1. CASE UnitActivated(i)
      BY <3>1 DEF UnitActivated, sdVars, TypeOK, UnitStatus, UnitStates
    <3>2. CASE UnitExited(i)
      <4>1. PICK c \in ExitCodes :
              sd' = [sd EXCEPT ![i] = [state |-> "failed", exit |-> c]]
              \/ sd' = [sd EXCEPT ![i] = [state |-> "inactive", exit |-> c]]
        BY <3>2 DEF UnitExited
      <4>2. sd' \in [Instances -> UnitStatus]
        BY <4>1 DEF TypeOK, UnitStatus, UnitStates, ExitVals
      <4> QED
        BY <3>2, <4>2 DEF UnitExited, sdVars, TypeOK
    <3>3. CASE UnitRestarted(i)
      BY <3>3 DEF UnitRestarted, sdVars, TypeOK, UnitStatus, UnitStates
    <3> QED
      BY <1>7, <3>1, <3>2, <3>3 DEF Systemd
  <2>10. ActiveOnlyIfObserved'
    BY <1>7 DEF Systemd, UnitActivated, UnitExited, UnitRestarted, sdVars, IInv, ActiveOnlyIfObserved, TypeOK
  <2>11. StartingWaits'
    BY <1>7 DEF Systemd, UnitActivated, UnitExited, UnitRestarted, sdVars, IInv, StartingWaits, TypeOK
  <2>12. RunningStarted'
    BY <1>7 DEF Systemd, UnitActivated, UnitExited, UnitRestarted, sdVars, IInv, RunningStarted, TypeOK
  <2>13. StartingNotStarted'
    BY <1>7 DEF Systemd, UnitActivated, UnitExited, UnitRestarted, sdVars, IInv, StartingNotStarted, TypeOK
  <2>14. StoppingUntracked'
    BY <1>7 DEF Systemd, UnitActivated, UnitExited, UnitRestarted, sdVars, IInv, StoppingUntracked, TypeOK
  <2>15. HeldActiveObserved'
    BY <1>7 DEF Systemd, UnitActivated, UnitExited, UnitRestarted, sdVars, IInv, HeldActiveObserved, TypeOK
  <2> QED
    BY <2>1, <2>10, <2>11, <2>12, <2>13, <2>14, <2>15 DEF IInv
<1>8. CASE MonitorPoll
  <2> DEFINE newRunning == [j \in DOMAIN running |->
                              IF j \in Listed THEN RunStatusOf(sd[j])
                              ELSE running[j]]
             newStarting == [j \in DOMAIN starting |->
                              IF j \in Listed THEN sd[j] ELSE starting[j]]
             newSaw == [j \in Instances |->
                          sawActive[j] \/ (j \in Listed
                                           /\ sd[j].state = "active")]
  <2>0. UNCHANGED <<sd, restarts, closed, rstate, pc, initStatus, view, starts>>
    BY <1>8 DEF MonitorPoll
  <2>1. CASE UNCHANGED <<starting, running, reported, sawActive>>
    <3>1. mon' \in {"running", "exited"}
      BY <1>8 DEF MonitorPoll
    <3> QED
      BY <2>0, <2>1, <3>1 DEF IInv, TypeOK, ActiveOnlyIfObserved,
         StartingWaits, RunningStarted, StartingNotStarted,
         StoppingUntracked, HeldActiveObserved
  <2>2. CASE /\ starting' = newStarting /\ running' = newRunning
             /\ reported' \in {newRunning, reported}
             /\ sawActive' = newSaw /\ UNCHANGED mon
    <3>1. \A j \in DOMAIN running : RunStatusOf(sd[j]) \in RunStatus
      BY DEF TypeOK, RunStatusOf, ToInstanceState, RunStatus, RunStates,
         UnitStatus, ExitVals
    <3>2. TypeOK'
      BY <2>0, <2>2, <3>1 DEF TypeOK
    <3>3. ActiveOnlyIfObserved'
      BY <2>0, <2>2 DEF IInv, ActiveOnlyIfObserved, TypeOK, RunStatusOf,
         ToInstanceState
    <3>4. HeldActiveObserved'
      BY <2>0, <2>2 DEF IInv, HeldActiveObserved, TypeOK
    <3>5. StartingWaits' /\ RunningStarted' /\ StartingNotStarted'
          /\ StoppingUntracked'
      BY <2>0, <2>2 DEF IInv, StartingWaits, RunningStarted,
         StartingNotStarted, StoppingUntracked
    <3> QED
      BY <3>2, <3>3, <3>4, <3>5 DEF IInv
  <2> QED
    BY <1>8, <2>1, <2>2 DEF MonitorPoll
<1>9. CASE MonitorExit \/ RunnerStop \/ RunnerJoin \/ RunnerStart
  BY <1>9 DEF MonitorExit, RunnerStop, RunnerJoin, RunnerStart, IInv, TypeOK,
     ActiveOnlyIfObserved, StartingWaits, RunningStarted,
     StartingNotStarted, StoppingUntracked, HeldActiveObserved
<1>10. CASE Terminated \/ UNCHANGED vars
  BY <1>10 DEF Terminated, vars, IInv, TypeOK, ActiveOnlyIfObserved,
     StartingWaits, RunningStarted, StartingNotStarted, StoppingUntracked,
     HeldActiveObserved
<1> QED
  BY <1>1, <1>2, <1>3, <1>4, <1>5, <1>6, <1>7, <1>8, <1>9, <1>10
     DEF AnyStep, CallStep

(* Every step of the Runner used as the Launcher uses it keeps IInv.       *)
LEMMA NextIInv == IInv /\ [Next]_vars => IInv'
BY StepIInv DEF Next, Caller, AnyStep

(* IInv holds in every reachable state of the Runner.                      *)
THEOREM IInvariant == Spec => []IInv
BY InitIInv, NextIInv, PTL DEF Spec

(* Type correctness of the Runner's maps, the callers' locals and systemd  *)
(* for every set of instances, exit codes and bounds.                      *)
THEOREM TypeCorrect == Spec => []TypeOK
BY IInvariant, PTL DEF IInv

(* The Runner never holds or returns Active for an instance unless it read *)
(* "active" from systemd since the StartInstance call that started it      *)
(* (GetStartingUnitState and MonitorUnits).                                *)
THEOREM ActiveObserved == Spec => []ActiveOnlyIfObserved
BY IInvariant, PTL DEF IInv

-----------------------------------------------------------------------------
(***************************************************************************)
(* Refinement: every Runner step is a step of RunnerAbstract, or leaves    *)
(* the abstract phase of every instance unchanged, under AbsPhase.         *)
(***************************************************************************)

(* What AbsPhase reads of instance j is the same before and after a step.  *)
AbsAgree(j) ==
    /\ pc'[j] = pc[j] /\ view'[j] = view[j]
    /\ (j \in DOMAIN running' <=> j \in DOMAIN running)

(* A step that changes only instance i's inputs changes only its phase.    *)
LEMMA AbsPhaseExcept ==
    ASSUME NEW i \in Instances, NEW v,
           \A j \in Instances \ {i} : AbsAgree(j),
           AbsPhase'[i] = v
    PROVE  AbsPhase' = [AbsPhase EXCEPT ![i] = v]
<1>1. \A j \in Instances \ {i} : AbsPhase'[j] = AbsPhase[j]
  BY DEF AbsPhase, AbsAgree
<1>2. DOMAIN AbsPhase' = Instances /\ DOMAIN AbsPhase = Instances
  BY DEF AbsPhase
<1>3. AbsPhase' = [j \in Instances |-> AbsPhase'[j]]
  BY DEF AbsPhase
<1> QED
  BY <1>1, <1>2, <1>3

(* A step that changes no instance's inputs leaves AbsPhase unchanged.    *)
LEMMA AbsPhaseSame ==
    ASSUME \A j \in Instances : AbsAgree(j)
    PROVE  AbsPhase' = AbsPhase
<1>1. \A j \in Instances : AbsPhase'[j] = AbsPhase[j]
  BY DEF AbsPhase, AbsAgree
<1> QED
  BY <1>1 DEF AbsPhase

(* A step that changes instance i's inputs but not its phase, and no other *)
(* instance's inputs, leaves AbsPhase unchanged.                          *)
LEMMA AbsPhaseKeep ==
    ASSUME NEW i \in Instances,
           \A j \in Instances \ {i} : AbsAgree(j),
           AbsPhase'[i] = AbsPhase[i]
    PROVE  AbsPhase' = AbsPhase
<1>1. \A j \in Instances : AbsPhase'[j] = AbsPhase[j]
  BY DEF AbsPhase, AbsAgree
<1> QED
  BY <1>1 DEF AbsPhase

(* Outside a call, an instance is running exactly while mRunningUnits     *)
(* holds it, failed while its last StartInstance returned Failed.          *)
LEMMA IdlePhase ==
    ASSUME NEW i \in Instances, pc[i] = "idle"
    PROVE  AbsPhase[i] = IF i \in DOMAIN running THEN "running"
                         ELSE IF view[i] = "failed" THEN "failed"
                         ELSE "absent"
BY DEF AbsPhase

(* Every step of the Runner, whoever calls it, is a RunnerAbstract step of *)
(* one instance or leaves AbsPhase unchanged.                              *)
LEMMA AbsStep == IInv /\ [AnyStep]_vars => [Abs!Next]_AbsPhase
<1> SUFFICES ASSUME IInv, [AnyStep]_vars PROVE [Abs!Next]_AbsPhase
  OBVIOUS
<1>0. /\ pc \in [Instances -> Pcs]
      /\ view \in [Instances -> {"stopped", "started", "failed"}]
  BY DEF IInv, TypeOK
<1>1. ASSUME NEW i \in Instances, StartBegin(i)
      PROVE  [Abs!Next]_AbsPhase
  <2>1. AbsPhase[i] \in {"absent", "failed"}
    BY <1>1, IdlePhase DEF StartBegin, IInv, RunningStarted
  <2>2. \A j \in Instances \ {i} : AbsAgree(j)
    BY <1>0, <1>1 DEF StartBegin, AbsAgree
  <2>3. CASE view' = [view EXCEPT ![i] = "failed"] /\ UNCHANGED <<sd, pc>>
    <3>1. AbsPhase'[i] = "failed"
      <4>1. i \notin DOMAIN running
        BY <1>1 DEF StartBegin, IInv, RunningStarted
      <4> QED
        BY <1>0, <1>1, <2>3, <4>1 DEF StartBegin, AbsPhase
    <3> QED
      BY <2>1, <2>2, <3>1, AbsPhaseExcept DEF Abs!Next, Abs!Reject
  <2>4. CASE pc' = [pc EXCEPT ![i] = "getStatus"]
    <3>1. AbsPhase'[i] = "starting"
      BY <1>0, <2>4 DEF AbsPhase
    <3> QED
      BY <2>1, <2>2, <3>1, AbsPhaseExcept DEF Abs!Next, Abs!Start
  <2> QED
    BY <1>1, <2>3, <2>4 DEF StartBegin
<1>2. ASSUME NEW i \in Instances, StartGetStatus(i)
      PROVE  [Abs!Next]_AbsPhase
  <2>1. AbsPhase[i] = "starting"
    BY <1>2 DEF StartGetStatus, AbsPhase
  <2>2. \A j \in Instances \ {i} : AbsAgree(j)
    BY <1>0, <1>2 DEF StartGetStatus, AbsAgree
  <2>3. CASE pc' = [pc EXCEPT ![i] = "register"] /\ UNCHANGED view
    <3>1. AbsPhase'[i] = "starting"
      BY <1>0, <2>3 DEF AbsPhase
    <3> QED
      BY <2>1, <2>2, <3>1, AbsPhaseKeep
  <2>4. CASE view' = [view EXCEPT ![i] = "failed"]
             /\ pc' = [pc EXCEPT ![i] = "idle"]
    <3>1. i \notin DOMAIN running
      BY <1>2 DEF StartGetStatus, IInv, RunningStarted, StartingNotStarted,
         StartingPcs
    <3>2. AbsPhase'[i] = "failed"
      BY <1>0, <1>2, <2>4, <3>1 DEF StartGetStatus, AbsPhase
    <3> QED
      BY <2>1, <2>2, <3>2, AbsPhaseExcept DEF Abs!Next, Abs!StartFailed
  <2> QED
    BY <1>2, <2>3, <2>4 DEF StartGetStatus
<1>3. ASSUME NEW i \in Instances, StartRegister(i)
      PROVE  [Abs!Next]_AbsPhase
  <2>1. \A j \in Instances \ {i} : AbsAgree(j)
    BY <1>0, <1>3 DEF StartRegister, AbsAgree
  <2>2. AbsPhase[i] = "starting" /\ AbsPhase'[i] = "starting"
    BY <1>0, <1>3 DEF StartRegister, AbsPhase
  <2> QED
    BY <2>1, <2>2, AbsPhaseKeep
<1>4. ASSUME NEW i \in Instances, StartWake(i)
      PROVE  [Abs!Next]_AbsPhase
  <2>1. AbsPhase[i] = "starting"
    BY <1>4 DEF StartWake, AbsPhase
  <2>2. \A j \in Instances \ {i} : AbsAgree(j)
    BY <1>0, <1>4 DEF StartWake, AbsAgree, Put, Erase
  <2>3. i \notin DOMAIN running
    BY <1>4 DEF StartWake, IInv, RunningStarted, StartingNotStarted,
       StartingPcs
  <2>4. CASE starting[i].state # "active"
    <3>1. AbsPhase'[i] = "failed"
      BY <1>0, <1>4, <2>3, <2>4 DEF StartWake, AbsPhase
    <3> QED
      BY <2>1, <2>2, <3>1, AbsPhaseExcept DEF Abs!Next, Abs!StartFailed
  <2>5. CASE starting[i].state = "active"
    <3>1. AbsPhase'[i] = "running"
      BY <1>0, <1>4, <2>5 DEF StartWake, AbsPhase, Put
    <3> QED
      BY <2>1, <2>2, <3>1, AbsPhaseExcept DEF Abs!Next, Abs!Started
  <2> QED
    BY <2>4, <2>5
<1>5. ASSUME NEW i \in Instances, StopBegin(i)
      PROVE  [Abs!Next]_AbsPhase
  <2>1. \A j \in Instances \ {i} : AbsAgree(j)
    BY <1>0, <1>5 DEF StopBegin, AbsAgree, Erase
  <2>2. AbsPhase'[i] = "absent"
    BY <1>0, <1>5 DEF StopBegin, AbsPhase
  <2>3. CASE i \in DOMAIN running \/ view[i] = "failed"
    <3>1. AbsPhase[i] \in {"running", "failed"}
      BY <1>5, <2>3, IdlePhase DEF StopBegin
    <3> QED
      BY <2>1, <2>2, <3>1, AbsPhaseExcept DEF Abs!Next, Abs!Stop
  <2>4. CASE i \notin DOMAIN running /\ view[i] # "failed"
    <3>1. AbsPhase[i] = "absent"
      BY <1>5, <2>4, IdlePhase DEF StopBegin
    <3> QED
      BY <2>1, <2>2, <3>1, AbsPhaseKeep
  <2> QED
    BY <2>3, <2>4
<1>6. ASSUME NEW i \in Instances, StopUnits(i)
      PROVE  [Abs!Next]_AbsPhase
  <2>1. \A j \in Instances \ {i} : AbsAgree(j)
    BY <1>0, <1>6 DEF StopUnits, AbsAgree
  <2>2. i \notin DOMAIN running
    BY <1>6 DEF StopUnits, IInv, StoppingUntracked
  <2>3. AbsPhase[i] = "absent" /\ AbsPhase'[i] = "absent"
    BY <1>0, <1>6, <2>2 DEF StopUnits, AbsPhase
  <2> QED
    BY <2>1, <2>3, AbsPhaseKeep
<1>7. ASSUME NEW i \in Instances, Systemd(i)
      PROVE  [Abs!Next]_AbsPhase
  <2>1. UNCHANGED <<pc, view, running>>
    BY <1>7 DEF Systemd, UnitActivated, UnitExited, UnitRestarted, sdVars
  <2> QED
    BY <2>1, AbsPhaseSame DEF AbsAgree
<1>8. CASE MonitorPoll
  <2>1. UNCHANGED <<pc, view>> /\ DOMAIN running' = DOMAIN running
    BY <1>8 DEF MonitorPoll
  <2> QED
    BY <2>1, AbsPhaseSame DEF AbsAgree
<1>9. CASE MonitorExit \/ RunnerStop \/ RunnerJoin \/ RunnerStart
           \/ Terminated \/ UNCHANGED vars
  <2>1. UNCHANGED <<pc, view, running>>
    BY <1>9 DEF MonitorExit, RunnerStop, RunnerJoin, RunnerStart,
       Terminated, vars
  <2> QED
    BY <2>1, AbsPhaseSame DEF AbsAgree
<1> QED
  BY <1>1, <1>2, <1>3, <1>4, <1>5, <1>6, <1>7, <1>8, <1>9
     DEF AnyStep, CallStep

(* Spec section 4.5: the Runner implements the per-instance state machine  *)
(* of RunnerAbstract (its safety part): every instance starts absent, and  *)
(* StartInstance, StopInstance and the monitor move it only along         *)
(* absent/failed -> starting -> running/failed -> absent.                 *)
THEOREM Implementation == Spec => Abs!Init /\ [][Abs!Next]_AbsPhase
<1>1. Init => Abs!Init
  BY DEF Init, InitMaps, Abs!Init, AbsPhase, EmptyMap
<1>2. IInv /\ [Next]_vars => [Abs!Next]_AbsPhase
  BY AbsStep DEF Next, Caller, AnyStep
<1> QED
  BY <1>1, <1>2, IInvariant, PTL DEF Spec

=============================================================================
