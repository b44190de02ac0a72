---------------------------- MODULE AosCoreRunner ----------------------------
(***************************************************************************)
(* AosCore's lifecycle (src/src/app/aoscore.cpp) composed with the Runner  *)
(* (src/src/runner/runner.cpp) and the Launcher's use of it.  AosCore      *)
(* starts the Runner (Runner::Start), then the Launcher, whose threads     *)
(* call StartInstance and StopInstance; AosCore::Stop pops the cleanups,   *)
(* so the Launcher is stopped before Runner::Stop.  The Runner's code      *)
(* checks neither that it was started nor that no call is in progress when *)
(* it stops; here both follow from the composition instead of being       *)
(* assumed, as the standalone Runner module does.                          *)
(*                                                                         *)
(* The Launcher is not under src/; from the spec (section 5, Cancellation) *)
(* Launcher::Stop marks it closed, so that no new call begins, and joins   *)
(* its worker threads.                                                     *)
(***************************************************************************)
EXTENDS Naturals, Sequences, FiniteSets

CONSTANTS Instances, ExitCodes, NoExit, StartBurst, MaxStarts,
          ListUnitsCanFail, UnloadInactive

VARIABLES
    phase, step, active, cleanups,                       \* AosCore
    sd, restarts, starting, running, reported, closed,   \* Runner
    mon, rstate, pc, initStatus, view, starts, sawActive,
    lclosed   \* the Launcher's closed flag

Core == INSTANCE AosCore
R    == INSTANCE Runner

(* The Runner's constants satisfy what the Runner module assumes of them   *)
(* (its ConstantsAssumption).                                              *)
ASSUME RunnerAssumption ==
    /\ IsFiniteSet(Instances)
    /\ ExitCodes \subseteq Nat /\ 0 \in ExitCodes
    /\ NoExit \notin ExitCodes
    /\ StartBurst \in Nat /\ MaxStarts \in Nat
    /\ ListUnitsCanFail \in BOOLEAN /\ UnloadInactive \in BOOLEAN

coreVars   == <<phase, step, active, cleanups>>
runnerVars == <<sd, restarts, starting, running, reported, closed, mon,
                rstate, pc, initStatus, view, starts, sawActive>>
vars == <<coreVars, runnerVars, lclosed>>

(* The Stop AosCore::Stop runs next: the top of the cleanup stack.        *)
Top == cleanups[Len(cleanups)]
Stopping(m) == phase = "stopping" /\ cleanups # <<>> /\ Top = m

TypeOK == Core!TypeOK /\ R!TypeOK /\ lclosed \in BOOLEAN

Init == Core!Init /\ R!Created /\ lclosed = FALSE

-----------------------------------------------------------------------------
(* AosCore steps that involve neither the Runner nor the Launcher.         *)
CoreStep ==
    /\ \/ Core!InitBegin \/ Core!InitStep \/ Core!StartBegin
       \/ Core!StopBegin
    /\ UNCHANGED <<runnerVars, lclosed>>

(* AosCore::Stop returns when the cleanup stack is empty.                  *)
CleanupsDone ==
    /\ Core!StopDone
    /\ UNCHANGED <<runnerVars, lclosed>>

(* One Start of AosCore::Start; the first one is Runner::Start.           *)
StartModule ==
    /\ Core!StartStep
    /\ IF Core!StartOrder[step] = "Runner" /\ phase' # "startFailed"
         THEN R!RunnerStart ELSE UNCHANGED runnerVars
    /\ UNCHANGED lclosed

(* A Launcher thread begins a StartInstance or a StopInstance: only while *)
(* the Launcher is started and not closed.                                 *)
LauncherCall(i) ==
    /\ "Launcher" \in active /\ ~lclosed
    /\ R!StartBegin(i) \/ R!StopBegin(i)
    /\ UNCHANGED <<coreVars, lclosed>>

(* A call in progress, systemd, and the monitor thread.                    *)
RunnerStep(i) ==
    /\ R!CallStep(i) \/ R!Systemd(i)
    /\ UNCHANGED <<coreVars, lclosed>>

Monitor ==
    /\ R!MonitorPoll \/ R!MonitorExit
    /\ UNCHANGED <<coreVars, lclosed>>

(* Launcher::Stop, popped by AosCore::Stop: it closes the Launcher, then  *)
(* joins the worker threads, which returns when no call is in progress.    *)
LauncherClose ==
    /\ Stopping("Launcher") /\ ~lclosed
    /\ lclosed' = TRUE
    /\ UNCHANGED <<coreVars, runnerVars>>

(* Mutant: Launcher::Stop returns without waiting for its workers.        *)
LauncherJoinNoWait ==
    /\ Stopping("Launcher") /\ lclosed
    /\ Core!ExecuteCleanup
    /\ UNCHANGED <<runnerVars, lclosed>>

LauncherJoin ==
    /\ Stopping("Launcher") /\ lclosed
    /\ R!NoCallInProgress
    /\ Core!ExecuteCleanup
    /\ UNCHANGED <<runnerVars, lclosed>>

(* Runner::Stop, popped by AosCore::Stop: set mClosed, then join the       *)
(* monitor; the cleanup returns when join does.                            *)
RunnerStopBegin ==
    /\ Stopping("Runner")
    /\ R!RunnerStop
    /\ UNCHANGED <<coreVars, lclosed>>

RunnerStopJoin ==
    /\ Stopping("Runner")
    /\ R!RunnerJoin /\ Core!ExecuteCleanup
    /\ UNCHANGED lclosed

(* The Stop of any other module.                                           *)
OtherStop ==
    /\ phase = "stopping" /\ cleanups # <<>>
    /\ Top \notin {"Runner", "Launcher"}
    /\ Core!ExecuteCleanup
    /\ UNCHANGED <<runnerVars, lclosed>>

(* The process has exited; the units systemd runs go on.                   *)
Exited ==
    /\ phase \in {"initFailed", "stopped"}
    /\ UNCHANGED vars

Next ==
    \/ CoreStep \/ StartModule \/ CleanupsDone
    \/ \E i \in Instances : LauncherCall(i) \/ RunnerStep(i)
    \/ Monitor \/ LauncherClose \/ LauncherJoin
    \/ RunnerStopBegin \/ RunnerStopJoin \/ OtherStop \/ Exited

(* Once AosCore::Stop has begun, the main thread runs the cleanups; the    *)
(* Runner's threads keep the fairness of the Runner module.               *)
Fairness ==
    /\ WF_vars(CleanupsDone) /\ WF_vars(OtherStop)
    /\ WF_vars(LauncherClose) /\ WF_vars(LauncherJoin)
    /\ WF_vars(RunnerStopBegin) /\ WF_vars(RunnerStopJoin)
    /\ WF_vars(Monitor)
    /\ \A i \in Instances : WF_vars(R!CallStep(i) /\ UNCHANGED <<coreVars, lclosed>>)

Spec == Init /\ [][Next]_vars /\ Fairness

-----------------------------------------------------------------------------
(* Spec section 5, Cancellation: operations in progress complete before   *)
(* the component stops.  Every call into the Runner (StartInstance or      *)
(* StopInstance, whose systemd calls use the connection Runner::Stop       *)
(* resets and whose waits Runner::Stop does not wake) runs while the       *)
(* Runner is started: AosCore's reverse cleanup order and the Launcher's   *)
(* join keep calls out of a stopping or stopped Runner.                   *)
CallsOnlyIntoStartedRunner ==
    \A i \in Instances : pc[i] # "idle" => rstate = "started"

(* The Runner module alone assumes its caller's discipline (Caller, and    *)
(* RunnerStop only with NoCallInProgress), which runner.cpp does not       *)
(* check.  Inside AosCore every step of the Runner is one that module's    *)
(* Next allows, or Runner::Start: the composition keeps the discipline.   *)
RunnerDisciplineKept == [][R!Next \/ R!RunnerStart]_runnerVars

(* Once AosCore::Stop has begun it completes: no Stop waits forever on a   *)
(* thread (the Launcher's workers, the Runner's monitor) that never ends.  *)
ShutdownCompletes ==
    phase = "stopping" ~> phase = "stopped"

=============================================================================
