------------------------ MODULE AosCoreRunnerTheorems ------------------------
(***************************************************************************)
(* The theorems of AosCoreRunnerProofs, stated in AosCoreRunner's own      *)
(* names: the invariants its runs check hold in every behaviour of its     *)
(* Spec, for every value of the constants RunnerAssumption allows.         *)
(*                                                                         *)
(* AosCoreRunnerProofs reaches the composition through an instance (Sys), *)
(* so that it can extend RunnerProofs.  Here the instance P of that module *)
(* is related back to AosCoreRunner: its assumption follows from           *)
(* RunnerAssumption, and its Init and Next are AosCoreRunner's.            *)
(***************************************************************************)
EXTENDS AosCoreRunner, TLAPS

P == INSTANCE AosCoreRunnerProofs

(* The Runner's assumption, as P sees it, is RunnerAssumption.             *)
LEMMA ProofsAssumption == P!ConstantsAssumption
BY RunnerAssumption DEF P!ConstantsAssumption, IsFiniteSet, P!IsFiniteSet

(* P's composition starts as AosCoreRunner does.                           *)
LEMMA InitIsSysInit == Init => P!Sys!Init
BY DEF Init, P!Sys!Init, Core!Init, P!Sys!Core!Init, R!Created,
   P!Sys!R!Created, R!InitMaps, P!Sys!R!InitMaps, R!EmptyMap,
   P!Sys!R!EmptyMap, R!NoStatus, P!Sys!R!NoStatus

(* Every step of AosCoreRunner is a step of P's composition: the two are   *)
(* the same definitions, which the provers see once both are expanded to   *)
(* the variables.                                                          *)
LEMMA NextIsSysNext == [Next]_vars => [P!Sys!Next]_P!Sys!vars
<1> USE DEF
    coreVars, P!Sys!coreVars, runnerVars, P!Sys!runnerVars, vars,
    P!Sys!vars, Top, P!Sys!Top, Stopping, P!Sys!Stopping, Init, P!Sys!Init,
    Next, P!Sys!Next, CoreStep, P!Sys!CoreStep, CleanupsDone,
    P!Sys!CleanupsDone, StartModule, P!Sys!StartModule, LauncherCall,
    P!Sys!LauncherCall, RunnerStep, P!Sys!RunnerStep, Monitor,
    P!Sys!Monitor, LauncherClose, P!Sys!LauncherClose, LauncherJoin,
    P!Sys!LauncherJoin, RunnerStopBegin, P!Sys!RunnerStopBegin,
    RunnerStopJoin, P!Sys!RunnerStopJoin, OtherStop, P!Sys!OtherStop,
    Exited, P!Sys!Exited, Core!InitOrder, P!Sys!Core!InitOrder,
    Core!StartOrder, P!Sys!Core!StartOrder, Core!Init, P!Sys!Core!Init,
    Core!InitBegin, P!Sys!Core!InitBegin, Core!InitStep,
    P!Sys!Core!InitStep, Core!StartBegin, P!Sys!Core!StartBegin,
    Core!StartStep, P!Sys!Core!StartStep, Core!StopBegin,
    P!Sys!Core!StopBegin, Core!ExecuteCleanup, P!Sys!Core!ExecuteCleanup,
    Core!StopDone, P!Sys!Core!StopDone, R!UnitStates, P!Sys!R!UnitStates,
    R!RunStates, P!Sys!R!RunStates, R!ExitVals, P!Sys!R!ExitVals,
    R!UnitStatus, P!Sys!R!UnitStatus, R!RunStatus, P!Sys!R!RunStatus, R!Pcs,
    P!Sys!R!Pcs, R!Put, P!Sys!R!Put, R!Erase, P!Sys!R!Erase, R!EmptyMap,
    P!Sys!R!EmptyMap, R!NoStatus, P!Sys!R!NoStatus, R!ToInstanceState,
    P!Sys!R!ToInstanceState, R!RunStatusOf, P!Sys!R!RunStatusOf, R!Listed,
    P!Sys!R!Listed, R!InitMaps, P!Sys!R!InitMaps, R!Created,
    P!Sys!R!Created, R!RunnerStart, P!Sys!R!RunnerStart, R!StartJob,
    P!Sys!R!StartJob, R!StartBegin, P!Sys!R!StartBegin, R!StartGetStatus,
    P!Sys!R!StartGetStatus, R!StartRegister, P!Sys!R!StartRegister,
    R!StartWake, P!Sys!R!StartWake, R!StopBegin, P!Sys!R!StopBegin,
    R!StopUnits, P!Sys!R!StopUnits, R!MonitorPoll, P!Sys!R!MonitorPoll,
    R!MonitorExit, P!Sys!R!MonitorExit, R!RunnerStop, P!Sys!R!RunnerStop,
    R!RunnerJoin, P!Sys!R!RunnerJoin, R!sdVars, P!Sys!R!sdVars,
    R!UnitActivated, P!Sys!R!UnitActivated, R!UnitExited,
    P!Sys!R!UnitExited, R!UnitRestarted, P!Sys!R!UnitRestarted, R!Systemd,
    P!Sys!R!Systemd, R!CallStep, P!Sys!R!CallStep, R!NoCallInProgress,
    P!Sys!R!NoCallInProgress
<1>1. CASE CoreStep
  BY <1>1
<1>2. CASE StartModule
  BY <1>2
<1>3. CASE CleanupsDone
  BY <1>3
<1>4. ASSUME NEW i \in Instances, LauncherCall(i)
      PROVE  [P!Sys!Next]_P!Sys!vars
  BY <1>4
<1>5. ASSUME NEW i \in Instances, RunnerStep(i)
      PROVE  [P!Sys!Next]_P!Sys!vars
  BY <1>5
<1>6. CASE Monitor
  BY <1>6 DEF R!Cardinality, P!Sys!R!Cardinality
<1>7. CASE LauncherClose \/ LauncherJoin
  BY <1>7
<1>8. CASE RunnerStopBegin \/ RunnerStopJoin
  BY <1>8
<1>9. CASE OtherStop \/ Exited \/ UNCHANGED vars
  BY <1>9
<1> QED
  BY <1>1, <1>2, <1>3, <1>4, <1>5, <1>6, <1>7, <1>8, <1>9

-----------------------------------------------------------------------------
(* The inductive invariant of AosCoreRunnerProofs holds in every reachable *)
(* state of AosCoreRunner.                                                 *)
THEOREM Invariant == Spec => []P!SysIInv
<1>1. Init => P!SysIInv
  BY InitIsSysInit, P!SysInitIInv, ProofsAssumption
<1>2. P!SysIInv /\ [Next]_vars => P!SysIInv'
  BY NextIsSysNext, P!SysNextIInv, ProofsAssumption
<1> QED
  BY <1>1, <1>2, PTL DEF Spec

(* Spec section 5, Cancellation: no StartInstance or StopInstance from the *)
(* Launcher runs in a Runner that is not started.  The Runner's code       *)
(* checks neither; AosCore's reverse cleanup order stops the Launcher,     *)
(* and Launcher::Stop joins its workers, before Runner::Stop runs.         *)
THEOREM CallsIntoStartedRunner == Spec => []CallsOnlyIntoStartedRunner
<1>1. P!SysIInv => CallsOnlyIntoStartedRunner
  BY P!SysIInvCalls, ProofsAssumption
     DEF P!Sys!CallsOnlyIntoStartedRunner, CallsOnlyIntoStartedRunner
<1> QED
  BY <1>1, Invariant, PTL

(* Every variable of AosCore, the Runner and the Launcher keeps its type   *)
(* through every interleaving of their steps.                              *)
THEOREM TypeCorrect == Spec => []TypeOK
<1>1. P!Sys!TypeOK => TypeOK
  BY DEF P!Sys!TypeOK, TypeOK, P!Sys!Core!TypeOK, Core!TypeOK,
     P!Sys!R!TypeOK, R!TypeOK, P!Sys!Core!Phases, Core!Phases,
     P!Sys!Core!InitOrder, Core!InitOrder, P!Sys!Core!Components,
     Core!Components, P!Sys!Core!StartOrder, Core!StartOrder,
     P!Sys!R!UnitStatus, R!UnitStatus, P!Sys!R!RunStatus, R!RunStatus,
     P!Sys!R!Pcs, R!Pcs, P!Sys!R!UnitStates, R!UnitStates,
     P!Sys!R!RunStates, R!RunStates, P!Sys!R!ExitVals, R!ExitVals
<1>2. P!SysIInv => TypeOK
  BY <1>1, P!SysIInvTyped, ProofsAssumption
<1> QED
  BY <1>2, Invariant, PTL

(* The Runner's names as P sees them are R's: each Runner step of P is     *)
(* one of AosCoreRunner's.                                                 *)
LEMMA RunnerStepIsR ==
    [P!Next \/ P!RunnerStart]_P!vars => [R!Next \/ R!RunnerStart]_runnerVars
BY DEF runnerVars,
    R!vars, P!vars, R!Next, P!Next, R!Caller, P!Caller, R!CallStep,
    P!CallStep, R!StartBegin, P!StartBegin, R!StopBegin, P!StopBegin,
    R!StartGetStatus, P!StartGetStatus, R!StartRegister, P!StartRegister,
    R!StartWake, P!StartWake, R!StopUnits, P!StopUnits, R!Systemd,
    P!Systemd, R!UnitActivated, P!UnitActivated, R!UnitExited,
    P!UnitExited, R!UnitRestarted, P!UnitRestarted, R!sdVars, P!sdVars,
    R!MonitorPoll, P!MonitorPoll, R!MonitorExit, P!MonitorExit,
    R!RunnerStop, P!RunnerStop, R!NoCallInProgress, P!NoCallInProgress,
    R!RunnerJoin, P!RunnerJoin, R!Terminated, P!Terminated, R!RunnerStart,
    P!RunnerStart, R!StartJob, P!StartJob, R!Put, P!Put, R!Erase, P!Erase,
    R!NoStatus, P!NoStatus, R!RunStatusOf, P!RunStatusOf,
    R!ToInstanceState, P!ToInstanceState, R!Listed, P!Listed,
    R!Cardinality, P!Cardinality

(* The Runner module's caller discipline (calls begin only while the       *)
(* Runner is started, Runner::Stop runs with no call in progress), which   *)
(* runner.cpp never checks, holds in every behaviour of AosCore: AosCore's *)
(* cleanup order and Launcher::Stop's join establish it.                   *)
THEOREM DisciplineKept == Spec => RunnerDisciplineKept
<1>1. P!SysIInv /\ [Next]_vars => [R!Next \/ R!RunnerStart]_runnerVars
  BY NextIsSysNext, P!SysRunnerSteps, RunnerStepIsR, ProofsAssumption
<1> QED
  BY <1>1, Invariant, PTL DEF Spec, RunnerDisciplineKept

(* AosCore's lifecycle is undisturbed by the Runner and the Launcher       *)
(* inside it: every step of the composition is a step of AosCore::Init,    *)
(* Start or Stop or leaves AosCore's state alone.  Launcher::Stop's join   *)
(* and Runner::Stop's join only delay the cleanup they belong to.          *)
THEOREM CoreImplementation == Spec => Core!Spec
<1>1. Init => Core!Init
  BY DEF Init
<1>2. [Next]_vars => [Core!Next]_Core!vars
  <2>1. [P!CP!Next]_P!CP!vars => [Core!Next]_Core!vars
    BY DEF coreVars, Core!Next, P!CP!Next, Core!vars, P!CP!vars,
       Core!InitBegin, P!CP!InitBegin, Core!InitStep, P!CP!InitStep,
       Core!StartBegin, P!CP!StartBegin, Core!StartStep, P!CP!StartStep,
       Core!StopBegin, P!CP!StopBegin, Core!ExecuteCleanup,
       P!CP!ExecuteCleanup, Core!StopDone, P!CP!StopDone, Core!Terminated,
       P!CP!Terminated, Core!InitOrder, P!CP!InitOrder, Core!StartOrder,
       P!CP!StartOrder
  <2> QED
    BY <2>1, NextIsSysNext, P!CoreStepOrStutter, ProofsAssumption
<1> QED
  BY <1>1, <1>2, PTL DEF Spec, Core!Spec

(* With the Runner and the Launcher running inside AosCore, the running    *)
(* modules are still the first k of AosCore::Start's order: the Launcher   *)
(* never runs without the Runner it calls.                                 *)
THEOREM PrefixKept == Spec => []Core!RunningIsPrefix
<1>1. P!SysIInv => Core!RunningIsPrefix
  BY DEF P!SysIInv, P!CP!IInv, P!CP!Running, P!CP!N, Core!RunningIsPrefix,
     Core!StartOrder, P!CP!StartOrder
<1> QED
  BY <1>1, Invariant, PTL

=============================================================================
