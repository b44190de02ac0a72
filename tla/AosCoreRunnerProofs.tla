------------------------- MODULE AosCoreRunnerProofs -------------------------
(***************************************************************************)
(* Proofs about AosCore composed with the Runner and the Launcher's calls  *)
(* (module AosCoreRunner, here Sys), for every set of instances and every  *)
(* bound: the composition keeps its types, and no StartInstance or         *)
(* StopInstance runs in a Runner that is not started.  The code checks     *)
(* neither; the argument is AosCore's cleanup order (the Launcher is      *)
(* stopped while the Runner still runs) and the Launcher's join (no call   *)
(* survives Launcher::Stop).                                               *)
(*                                                                         *)
(* The module extends RunnerProofs, so that the Runner's inductive         *)
(* invariant and its lemmas are at hand, and adds AosCore's and the        *)
(* Launcher's variables.                                                   *)
(***************************************************************************)
EXTENDS RunnerProofs

VARIABLES phase, step, active, cleanups, lclosed

Sys == INSTANCE AosCoreRunner
CP  == INSTANCE AosCoreProofs

(* Without a started Launcher no call is in progress: none before          *)
(* Launcher::Start, and Launcher::Stop's join leaves none behind.          *)
LauncherGone == "Launcher" \notin active => NoCallInProgress

(* The Runner's lifecycle follows AosCore's: started while AosCore counts  *)
(* it running, until its cleanup, popped from the top of the stack, sets   *)
(* mClosed; created or stopped otherwise.                                  *)
RunnerLife ==
    IF "Runner" \in active
      THEN rstate = "started" \/ (Sys!Stopping("Runner") /\ rstate = "stopping")
      ELSE rstate \in {"created", "stopped"}

(* The inductive invariant: AosCore's and the Runner's own inductive       *)
(* invariants, and the two facts that tie the Launcher and the Runner's   *)
(* lifecycle to AosCore's running set.                                     *)
SysIInv ==
    /\ CP!IInv
    /\ IInv
    /\ lclosed \in BOOLEAN
    /\ LauncherGone
    /\ RunnerLife
    /\ Sys!CallsOnlyIntoStartedRunner

-----------------------------------------------------------------------------
(* Every step of the composition is a step of AosCore or leaves AosCore's  *)
(* variables alone.                                                        *)
LEMMA CoreStepOrStutter == [Sys!Next]_Sys!vars => [CP!Next]_CP!vars
<1> SUFFICES ASSUME [Sys!Next]_Sys!vars PROVE [CP!Next]_CP!vars
  OBVIOUS
<1>1. CASE Sys!CoreStep
  BY <1>1 DEF Sys!CoreStep, CP!Next, Sys!Core!InitBegin,
     Sys!Core!InitStep, Sys!Core!StartBegin, Sys!Core!StopBegin,
     CP!InitBegin, CP!InitStep, CP!StartBegin, CP!StopBegin,
     Sys!Core!InitOrder, CP!InitOrder, CP!vars
<1>2. CASE Sys!StartModule
  BY <1>2 DEF Sys!StartModule, CP!Next, Sys!Core!StartStep, CP!StartStep,
     Sys!Core!StartOrder, CP!StartOrder, CP!vars
<1>3. CASE Sys!CleanupsDone
  BY <1>3 DEF Sys!CleanupsDone, CP!Next, Sys!Core!StopDone, CP!StopDone,
     CP!vars
<1>4. CASE Sys!LauncherJoin \/ Sys!RunnerStopJoin \/ Sys!OtherStop
  BY <1>4 DEF Sys!LauncherJoin, Sys!RunnerStopJoin, Sys!OtherStop, CP!Next,
     Sys!Core!ExecuteCleanup, CP!ExecuteCleanup, CP!vars
<1>5. CASE \/ \E i \in Instances : Sys!LauncherCall(i) \/ Sys!RunnerStep(i)
           \/ Sys!Monitor \/ Sys!LauncherClose \/ Sys!RunnerStopBegin
           \/ Sys!Exited \/ UNCHANGED Sys!vars
  <2>1. UNCHANGED CP!vars
    BY <1>5 DEF Sys!LauncherCall, Sys!RunnerStep, Sys!Monitor,
       Sys!LauncherClose, Sys!RunnerStopBegin, Sys!Exited, Sys!vars,
       Sys!coreVars, CP!vars
  <2> QED
    BY <2>1
<1> QED
  BY <1>1, <1>2, <1>3, <1>4, <1>5 DEF Sys!Next

(* Every step of the composition is a step the Runner's code can take      *)
(* (AnyStep) or leaves the Runner's variables alone.                       *)
LEMMA RunnerStepOrStutter == [Sys!Next]_Sys!vars => [AnyStep]_vars
<1> SUFFICES ASSUME [Sys!Next]_Sys!vars PROVE [AnyStep]_vars
  OBVIOUS
<1>1. CASE Sys!StartModule
  BY <1>1 DEF Sys!StartModule, AnyStep, Sys!runnerVars, vars,
     Sys!R!RunnerStart, RunnerStart
<1>2. ASSUME NEW i \in Instances, Sys!LauncherCall(i)
      PROVE  [AnyStep]_vars
  BY <1>2 DEF Sys!LauncherCall, AnyStep, Sys!R!StartBegin, StartBegin,
     Sys!R!StopBegin, StopBegin, Sys!R!StartJob, StartJob, Sys!R!Erase,
     Erase
<1>3. ASSUME NEW i \in Instances, Sys!RunnerStep(i)
      PROVE  [AnyStep]_vars
  <2>1. CASE Sys!R!StartGetStatus(i) \/ Sys!R!StartRegister(i)
    BY <2>1, <1>3 DEF Sys!RunnerStep, AnyStep, CallStep,
       Sys!R!StartGetStatus, StartGetStatus, Sys!R!StartRegister,
       StartRegister, Sys!R!NoStatus, NoStatus, Sys!R!Put, Put
  <2>2. CASE Sys!R!StartWake(i) \/ Sys!R!StopUnits(i)
    BY <2>2, <1>3 DEF Sys!RunnerStep, AnyStep, CallStep, Sys!R!StartWake,
       StartWake, Sys!R!StopUnits, StopUnits, Sys!R!Put, Put, Sys!R!Erase,
       Erase
  <2>3. CASE Sys!R!Systemd(i)
    BY <2>3, <1>3 DEF Sys!RunnerStep, AnyStep, Sys!R!Systemd, Systemd,
       Sys!R!UnitActivated, UnitActivated, Sys!R!UnitExited, UnitExited,
       Sys!R!UnitRestarted, UnitRestarted, Sys!R!sdVars, sdVars
  <2> QED
    BY <1>3, <2>1, <2>2, <2>3 DEF Sys!RunnerStep, Sys!R!CallStep
<1>4. CASE Sys!Monitor \/ Sys!RunnerStopBegin \/ Sys!RunnerStopJoin
  BY <1>4 DEF Sys!Monitor, Sys!RunnerStopBegin, Sys!RunnerStopJoin, AnyStep,
     Sys!R!MonitorPoll, MonitorPoll, Sys!R!MonitorExit, MonitorExit,
     Sys!R!RunnerStop, RunnerStop, Sys!R!RunnerJoin, RunnerJoin,
     Sys!R!Cardinality, Cardinality, Sys!R!RunStatusOf, RunStatusOf,
     Sys!R!ToInstanceState, ToInstanceState, Sys!R!Listed, Listed
<1>5. CASE \/ Sys!CoreStep \/ Sys!CleanupsDone \/ Sys!LauncherClose
           \/ Sys!LauncherJoin \/ Sys!OtherStop \/ Sys!Exited
           \/ UNCHANGED Sys!vars
  <2>1. UNCHANGED vars
    BY <1>5 DEF Sys!CoreStep, Sys!CleanupsDone, Sys!LauncherClose,
       Sys!LauncherJoin, Sys!OtherStop, Sys!Exited, Sys!vars,
       Sys!runnerVars, vars
  <2> QED
    BY <2>1
<1> QED
  BY <1>1, <1>2, <1>3, <1>4, <1>5 DEF Sys!Next

-----------------------------------------------------------------------------
(* The Launcher is started after the Runner and stopped before it: while   *)
(* the Launcher runs, the Runner runs and its cleanup is not on top.       *)
LEMMA LauncherNeedsRunner ==
    ASSUME CP!IInv, "Launcher" \in active
    PROVE  "Runner" \in active /\ ~Sys!Stopping("Runner")
<1>1. PICK k \in 0..CP!N : cleanups = CP!Pushed(k) /\ active = CP!Running(k)
  BY DEF CP!IInv
<1>2. k \in 2..CP!N
  BY <1>1 DEF CP!Running, CP!StartOrder, CP!N
<1>3. "Runner" \in active
  BY <1>1, <1>2 DEF CP!Running, CP!StartOrder, CP!N
<1>4. Sys!Top = CP!StartOrder[k]
  <2>1. k \in 1..CP!N
    BY <1>2
  <2> QED
    BY <1>1, <2>1, CP!PopTop DEF Sys!Top
<1>5. CP!StartOrder[k] # "Runner"
  BY <1>2 DEF CP!StartOrder, CP!N
<1> QED
  BY <1>3, <1>4, <1>5 DEF Sys!Stopping

(* When the Runner's cleanup is on top of the stack, the Launcher has      *)
(* been stopped: the Runner is the only module still running.              *)
LEMMA RunnerStoppedLast ==
    ASSUME CP!IInv, Sys!Stopping("Runner")
    PROVE  "Launcher" \notin active
<1>1. PICK k \in 0..CP!N : cleanups = CP!Pushed(k) /\ active = CP!Running(k)
  BY DEF CP!IInv
<1>2. k # 0
  BY <1>1 DEF Sys!Stopping, CP!Pushed
<1>3. Sys!Top = CP!StartOrder[k]
  <2>1. k \in 1..CP!N
    BY <1>2
  <2> QED
    BY <1>1, <2>1, CP!PopTop DEF Sys!Top
<1>4. k = 1
  BY <1>1, <1>2, <1>3 DEF Sys!Stopping, CP!StartOrder, CP!N
<1> QED
  BY <1>1, <1>4 DEF CP!Running, CP!StartOrder

(* Before Runner::Start the composition's Runner is the one Runner::Init  *)
(* leaves.                                                                 *)
LEMMA SysInitCreated == Sys!Init => Created
BY DEF Sys!Init, Sys!R!Created, Created, Sys!R!InitMaps, InitMaps,
   Sys!R!EmptyMap, EmptyMap, Sys!R!NoStatus, NoStatus

-----------------------------------------------------------------------------
(* AosCore's Init with the Runner after Runner::Init: nothing runs and no  *)
(* call is in progress.                                                    *)
LEMMA SysInitIInv == Sys!Init => SysIInv
<1> SUFFICES ASSUME Sys!Init PROVE SysIInv
  OBVIOUS
<1>1. CP!IInv
  BY CP!InitIInv DEF Sys!Init, Sys!Core!Init, CP!Init
<1>2. Created
  BY SysInitCreated
<1>3. IInv
  BY <1>2, CreatedIInv
<1>4. NoCallInProgress /\ active = {} /\ rstate = "created"
  BY <1>2 DEF Sys!Init, Sys!Core!Init, Created, InitMaps, NoCallInProgress
<1> QED
  BY <1>1, <1>3, <1>4 DEF SysIInv, Sys!Init, LauncherGone, RunnerLife,
     Sys!CallsOnlyIntoStartedRunner, NoCallInProgress

(* Every step of AosCore, the Launcher and the Runner keeps SysIInv.       *)
LEMMA SysNextIInv == SysIInv /\ [Sys!Next]_Sys!vars => SysIInv'
<1> SUFFICES ASSUME SysIInv, [Sys!Next]_Sys!vars PROVE SysIInv'
  OBVIOUS
<1>1. CP!IInv'
  BY CoreStepOrStutter, CP!NextIInv DEF SysIInv
<1>2. IInv'
  BY RunnerStepOrStutter, StepIInv DEF SysIInv
<1>3. /\ lclosed' \in BOOLEAN /\ LauncherGone' /\ RunnerLife'
      /\ Sys!CallsOnlyIntoStartedRunner'
  <2> USE DEF SysIInv
  <2>1. CASE Sys!CoreStep
    <3>1. /\ UNCHANGED <<rstate, pc, lclosed, active, cleanups>>
          /\ phase # "stopping"
      BY <2>1 DEF Sys!CoreStep, Sys!Core!InitBegin, Sys!Core!InitStep,
         Sys!Core!StartBegin, Sys!Core!StopBegin, Sys!runnerVars
    <3>2. "Runner" \in active => rstate = "started"
      BY <3>1 DEF RunnerLife, Sys!Stopping
    <3> QED
      BY <3>1, <3>2 DEF RunnerLife, LauncherGone, NoCallInProgress,
         Sys!CallsOnlyIntoStartedRunner
  <2>2. CASE Sys!StartModule
    <3>1. /\ phase = "starting" /\ phase' # "stopping"
          /\ UNCHANGED <<pc, lclosed>> /\ active \subseteq active'
      BY <2>2 DEF Sys!StartModule, Sys!Core!StartStep, Sys!R!RunnerStart,
         Sys!runnerVars
    <3>2. LauncherGone'
      BY <3>1 DEF LauncherGone, NoCallInProgress
    <3>3. CASE Sys!Core!StartOrder[step] = "Runner" /\ phase' # "startFailed"
      <4>1. rstate' = "started" /\ "Runner" \in active'
        BY <2>2, <3>3 DEF Sys!StartModule, Sys!Core!StartStep,
           Sys!R!RunnerStart
      <4> QED
        BY <3>1, <3>2, <4>1 DEF RunnerLife, Sys!CallsOnlyIntoStartedRunner
    <3>4. CASE ~(Sys!Core!StartOrder[step] = "Runner" /\ phase' # "startFailed")
      <4>1. UNCHANGED rstate /\ ("Runner" \in active' <=> "Runner" \in active)
        BY <2>2, <3>4 DEF Sys!StartModule, Sys!Core!StartStep, Sys!runnerVars
      <4>2. "Runner" \in active => rstate = "started"
        BY <3>1 DEF RunnerLife, Sys!Stopping
      <4> QED
        BY <3>1, <3>2, <4>1, <4>2 DEF RunnerLife, Sys!Stopping,
           Sys!CallsOnlyIntoStartedRunner
    <3> QED
      BY <3>3, <3>4
  <2>3. CASE Sys!CleanupsDone
    <3>1. /\ UNCHANGED <<rstate, pc, lclosed, active>>
          /\ cleanups = <<>> /\ phase' = "stopped"
      BY <2>3 DEF Sys!CleanupsDone, Sys!Core!StopDone, Sys!runnerVars
    <3>2. "Runner" \in active => rstate = "started"
      BY <3>1 DEF RunnerLife, Sys!Stopping
    <3> QED
      BY <3>1, <3>2 DEF RunnerLife, Sys!Stopping, LauncherGone,
         NoCallInProgress, Sys!CallsOnlyIntoStartedRunner
  <2>4. ASSUME NEW i \in Instances, Sys!LauncherCall(i)
        PROVE  /\ lclosed' \in BOOLEAN /\ LauncherGone' /\ RunnerLife'
               /\ Sys!CallsOnlyIntoStartedRunner'
    <3>1. /\ "Launcher" \in active
          /\ UNCHANGED <<phase, step, active, cleanups, lclosed, rstate>>
      BY <2>4 DEF Sys!LauncherCall, Sys!coreVars, Sys!R!StartBegin,
         Sys!R!StopBegin
    <3>2. rstate = "started"
      BY <3>1, LauncherNeedsRunner DEF RunnerLife
    <3> QED
      BY <3>1, <3>2 DEF RunnerLife, Sys!Stopping, Sys!Top, LauncherGone,
         Sys!CallsOnlyIntoStartedRunner
  <2>5. ASSUME NEW i \in Instances, Sys!RunnerStep(i)
        PROVE  /\ lclosed' \in BOOLEAN /\ LauncherGone' /\ RunnerLife'
               /\ Sys!CallsOnlyIntoStartedRunner'
    <3>1. UNCHANGED <<phase, step, active, cleanups, lclosed, rstate>>
      BY <2>5 DEF Sys!RunnerStep, Sys!coreVars, Sys!R!CallStep,
         Sys!R!StartGetStatus, Sys!R!StartRegister, Sys!R!StartWake,
         Sys!R!StopUnits, Sys!R!Systemd, Sys!R!UnitActivated,
         Sys!R!UnitExited, Sys!R!UnitRestarted, Sys!R!sdVars
    <3>2. \A j \in Instances : pc[j] = "idle" => pc'[j] = "idle"
      <4>1. pc \in [Instances -> Pcs]
        BY DEF IInv, TypeOK
      <4> QED
        BY <2>5, <4>1 DEF Sys!RunnerStep, Sys!R!CallStep,
           Sys!R!StartGetStatus, Sys!R!StartRegister, Sys!R!StartWake,
           Sys!R!StopUnits, Sys!R!Systemd, Sys!R!UnitActivated,
           Sys!R!UnitExited, Sys!R!UnitRestarted, Sys!R!sdVars
    <3> QED
      BY <3>1, <3>2 DEF RunnerLife, Sys!Stopping, Sys!Top, LauncherGone,
         NoCallInProgress, Sys!CallsOnlyIntoStartedRunner
  <2>6. CASE Sys!Monitor \/ Sys!LauncherClose
    <3>1. /\ UNCHANGED <<phase, step, active, cleanups, rstate, pc>>
          /\ lclosed' \in BOOLEAN
      BY <2>6 DEF Sys!Monitor, Sys!LauncherClose, Sys!coreVars,
         Sys!runnerVars, Sys!R!MonitorPoll, Sys!R!MonitorExit
    <3> QED
      BY <3>1 DEF RunnerLife, Sys!Stopping, Sys!Top, LauncherGone,
         NoCallInProgress, Sys!CallsOnlyIntoStartedRunner
  <2>7. CASE Sys!LauncherJoin
    <3>1. /\ Sys!Stopping("Launcher") /\ NoCallInProgress
          /\ active' = active \ {"Launcher"}
          /\ UNCHANGED <<phase, rstate, pc, lclosed>>
      BY <2>7 DEF Sys!LauncherJoin, Sys!Core!ExecuteCleanup, Sys!Stopping,
         Sys!Top, Sys!runnerVars, Sys!R!NoCallInProgress, NoCallInProgress
    <3>2. "Runner" \in active => rstate = "started"
      BY <3>1 DEF RunnerLife, Sys!Stopping
    <3> QED
      BY <3>1, <3>2 DEF RunnerLife, Sys!Stopping, LauncherGone,
         NoCallInProgress, Sys!CallsOnlyIntoStartedRunner
  <2>8. CASE Sys!RunnerStopBegin
    <3>1. /\ Sys!Stopping("Runner") /\ rstate = "started"
          /\ rstate' = "stopping"
          /\ UNCHANGED <<phase, step, active, cleanups, pc, lclosed>>
      BY <2>8 DEF Sys!RunnerStopBegin, Sys!R!RunnerStop, Sys!coreVars
    <3>2. NoCallInProgress
      BY <3>1, RunnerStoppedLast DEF LauncherGone
    <3>3. "Runner" \in active
      BY <3>1 DEF RunnerLife
    <3> QED
      BY <3>1, <3>2, <3>3 DEF RunnerLife, Sys!Stopping, Sys!Top,
         LauncherGone, NoCallInProgress, Sys!CallsOnlyIntoStartedRunner
  <2>9. CASE Sys!RunnerStopJoin
    <3>1. /\ Sys!Stopping("Runner") /\ rstate = "stopping"
          /\ rstate' = "stopped" /\ active' = active \ {"Runner"}
          /\ UNCHANGED <<pc, lclosed>>
      BY <2>9 DEF Sys!RunnerStopJoin, Sys!R!RunnerJoin,
         Sys!Core!ExecuteCleanup, Sys!Stopping, Sys!Top
    <3>2. NoCallInProgress
      BY <3>1 DEF Sys!CallsOnlyIntoStartedRunner, NoCallInProgress
    <3> QED
      BY <3>1, <3>2 DEF RunnerLife, LauncherGone, NoCallInProgress,
         Sys!CallsOnlyIntoStartedRunner
  <2>10. CASE Sys!OtherStop
    <3>1. /\ phase = "stopping" /\ cleanups # <<>>
          /\ Sys!Top \notin {"Runner", "Launcher"}
          /\ active' = active \ {Sys!Top}
          /\ UNCHANGED <<phase, rstate, pc, lclosed>>
      BY <2>10 DEF Sys!OtherStop, Sys!Core!ExecuteCleanup, Sys!Top,
         Sys!runnerVars
    <3>2. "Runner" \in active => rstate = "started"
      BY <3>1 DEF RunnerLife, Sys!Stopping
    <3> QED
      BY <3>1, <3>2 DEF RunnerLife, Sys!Stopping, LauncherGone,
         NoCallInProgress, Sys!CallsOnlyIntoStartedRunner
  <2>11. CASE Sys!Exited \/ UNCHANGED Sys!vars
    <3>1. UNCHANGED <<phase, step, active, cleanups, rstate, pc, lclosed>>
      BY <2>11 DEF Sys!Exited, Sys!vars, Sys!coreVars, Sys!runnerVars
    <3> QED
      BY <3>1 DEF RunnerLife, Sys!Stopping, Sys!Top, LauncherGone,
         NoCallInProgress, Sys!CallsOnlyIntoStartedRunner
  <2> QED
    BY <2>1, <2>2, <2>3, <2>4, <2>5, <2>6, <2>7, <2>8, <2>9, <2>10, <2>11
       DEF Sys!Next
<1> QED
  BY <1>1, <1>2, <1>3 DEF SysIInv

-----------------------------------------------------------------------------
(* In every state SysIInv allows, each step of the composition is a step   *)
(* of the standalone Runner module (Next: calls begin only while started, *)
(* Runner::Stop only with no call in progress), Runner::Start, or leaves   *)
(* the Runner's variables alone.                                           *)
LEMMA SysRunnerSteps == SysIInv /\ [Sys!Next]_Sys!vars => [Next \/ RunnerStart]_vars
<1> SUFFICES ASSUME SysIInv, [Sys!Next]_Sys!vars
             PROVE  [Next \/ RunnerStart]_vars
  OBVIOUS
<1>1. CASE Sys!StartModule
  BY <1>1 DEF Sys!StartModule, Sys!runnerVars, vars, Sys!R!RunnerStart,
     RunnerStart
<1>2. ASSUME NEW i \in Instances, Sys!LauncherCall(i)
      PROVE  [Next \/ RunnerStart]_vars
  <2>1. rstate = "started"
    <3>1. "Launcher" \in active
      BY <1>2 DEF Sys!LauncherCall
    <3> QED
      BY <3>1, LauncherNeedsRunner DEF SysIInv, RunnerLife
  <2>2. StartBegin(i) \/ StopBegin(i)
    BY <1>2 DEF Sys!LauncherCall, Sys!R!StartBegin, StartBegin,
       Sys!R!StopBegin, StopBegin, Sys!R!StartJob, StartJob, Sys!R!Erase,
       Erase
  <2> QED
    BY <2>1, <2>2 DEF Next, Caller
<1>3. ASSUME NEW i \in Instances, Sys!RunnerStep(i)
      PROVE  [Next \/ RunnerStart]_vars
  <2>1. Sys!R!StartGetStatus(i) \/ Sys!R!StartRegister(i) => CallStep(i)
    BY DEF CallStep, Sys!R!StartGetStatus, StartGetStatus,
       Sys!R!StartRegister, StartRegister, Sys!R!NoStatus, NoStatus,
       Sys!R!Put, Put
  <2>2. Sys!R!StartWake(i) \/ Sys!R!StopUnits(i) => CallStep(i)
    BY DEF CallStep, Sys!R!StartWake, StartWake, Sys!R!StopUnits,
       StopUnits, Sys!R!Put, Put, Sys!R!Erase, Erase
  <2>3. Sys!R!Systemd(i) => Systemd(i)
    BY DEF Sys!R!Systemd, Systemd, Sys!R!UnitActivated, UnitActivated,
       Sys!R!UnitExited, UnitExited, Sys!R!UnitRestarted, UnitRestarted,
       Sys!R!sdVars, sdVars
  <2>4. CallStep(i) \/ Systemd(i)
    BY <1>3, <2>1, <2>2, <2>3 DEF Sys!RunnerStep, Sys!R!CallStep
  <2> QED
    BY <2>4 DEF Next, Caller
<1>4. CASE Sys!Monitor
  BY <1>4 DEF Sys!Monitor, Next, Sys!R!MonitorPoll, MonitorPoll,
     Sys!R!MonitorExit, MonitorExit, Sys!R!Cardinality, Cardinality,
     Sys!R!RunStatusOf, RunStatusOf, Sys!R!ToInstanceState,
     ToInstanceState, Sys!R!Listed, Listed
<1>5. CASE Sys!RunnerStopBegin
  <2>1. NoCallInProgress
    BY <1>5, RunnerStoppedLast DEF Sys!RunnerStopBegin, SysIInv,
       LauncherGone
  <2>2. RunnerStop
    BY <1>5 DEF Sys!RunnerStopBegin, Sys!R!RunnerStop, RunnerStop
  <2> QED
    BY <2>1, <2>2 DEF Next
<1>6. CASE Sys!RunnerStopJoin
  BY <1>6 DEF Sys!RunnerStopJoin, Next, Sys!R!RunnerJoin, RunnerJoin
<1>7. CASE \/ Sys!CoreStep \/ Sys!CleanupsDone \/ Sys!LauncherClose
           \/ Sys!LauncherJoin \/ Sys!OtherStop \/ Sys!Exited
           \/ UNCHANGED Sys!vars
  BY <1>7 DEF Sys!CoreStep, Sys!CleanupsDone, Sys!LauncherClose,
     Sys!LauncherJoin, Sys!OtherStop, Sys!Exited, Sys!vars,
     Sys!runnerVars, vars
<1> QED
  BY <1>1, <1>2, <1>3, <1>4, <1>5, <1>6, <1>7 DEF Sys!Next

-----------------------------------------------------------------------------
(* SysIInv holds in every reachable state of the composition, for every   *)
(* set of instances and exit codes.                                       *)
THEOREM SysInvariant == Sys!Spec => []SysIInv
BY SysInitIInv, SysNextIInv, PTL DEF Sys!Spec

(* Spec section 5, Cancellation: in every state SysIInv allows, no        *)
(* StartInstance or StopInstance is in progress in a Runner that is not    *)
(* started.                                                                *)
LEMMA SysIInvCalls == SysIInv => Sys!CallsOnlyIntoStartedRunner
BY DEF SysIInv

(* In every state SysIInv allows, every variable of AosCore, the Runner    *)
(* and the Launcher has its type.                                          *)
LEMMA SysIInvTyped == SysIInv => Sys!TypeOK
<1> SUFFICES ASSUME SysIInv PROVE Sys!TypeOK
  OBVIOUS
<1>1. Sys!Core!TypeOK
  <2>1. CP!TypeOK
    BY DEF SysIInv, CP!IInv
  <2> QED
    BY <2>1 DEF CP!TypeOK, Sys!Core!TypeOK, CP!Phases, Sys!Core!Phases,
       CP!InitOrder, Sys!Core!InitOrder, CP!Components,
       Sys!Core!Components, CP!StartOrder, Sys!Core!StartOrder
<1>2. Sys!R!TypeOK
  <2>1. TypeOK
    BY DEF SysIInv, IInv
  <2> QED
    BY <2>1 DEF TypeOK, Sys!R!TypeOK, UnitStatus, Sys!R!UnitStatus,
       RunStatus, Sys!R!RunStatus, Pcs, Sys!R!Pcs, UnitStates,
       Sys!R!UnitStates, RunStates, Sys!R!RunStates, ExitVals,
       Sys!R!ExitVals
<1> QED
  BY <1>1, <1>2 DEF SysIInv, Sys!TypeOK

(* Spec section 4.5, as the Launcher sees the Runner inside AosCore: from *)
(* Runner::Init through Runner::Stop every instance moves only along the   *)
(* state machine of RunnerAbstract under AbsPhase.                         *)
THEOREM SysImplementation == Sys!Spec => Abs!Init /\ [][Abs!Next]_AbsPhase
<1>1. Sys!Init => Abs!Init
  BY SysInitCreated DEF Created, InitMaps, Abs!Init, AbsPhase, EmptyMap
<1>2. SysIInv /\ [Sys!Next]_Sys!vars => [Abs!Next]_AbsPhase
  BY RunnerStepOrStutter, AbsStep DEF SysIInv
<1> QED
  BY <1>1, <1>2, SysInvariant, PTL DEF Sys!Spec

=============================================================================
