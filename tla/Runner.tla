------------------------------- MODULE Runner -------------------------------
(***************************************************************************)
(* The Runner of the service manager (src/src/runner/runner.cpp): the      *)
(* adapter to the host supervisor (systemd).  Three kinds of actors share  *)
(* the Runner's maps under one mutex:                                      *)
(*   - caller threads of the Launcher, one per instance, that run          *)
(*     StartInstance and StopInstance;                                     *)
(*   - the monitor thread MonitorUnits, polling systemd's ListUnits;       *)
(*   - systemd itself, which moves units between states on its own.        *)
(* Every critical section of the code does no blocking call except the     *)
(* monitor's, which holds the mutex for the whole poll; so each critical   *)
(* section is one atomic action and the mutex needs no variable.  The      *)
(* unlocked gaps (the systemd calls of StartInstance and StopInstance) are *)
(* where the actions are split.                                            *)
(***************************************************************************)
EXTENDS Naturals, FiniteSets

CONSTANTS
    Instances,        \* instance IDs; unit name = aos-service@<id>.service
    ExitCodes,        \* exit codes a unit's main process can end with
    NoExit,           \* an absent Optional<int> exit code
    StartBurst,       \* automatic restarts systemd makes before giving up
    MaxStarts,        \* bound: StartInstance calls per instance
    ListUnitsCanFail, \* whether systemd's ListUnits may return an error
    UnloadInactive    \* whether systemd drops inactive units from ListUnits

ASSUME ConstantsAssumption ==
    /\ IsFiniteSet(Instances)
    /\ ExitCodes \subseteq Nat /\ 0 \in ExitCodes
    /\ NoExit \notin ExitCodes
    /\ StartBurst \in Nat /\ MaxStarts \in Nat
    /\ ListUnitsCanFail \in BOOLEAN /\ UnloadInactive \in BOOLEAN

VARIABLES
    sd,         \* systemd: per unit, its ActiveState and main exit code
    restarts,   \* systemd: automatic restarts since the last reset-failed
    starting,   \* mStartingUnits: partial function instance -> unit status
    running,    \* mRunningUnits: partial function instance -> run status
    reported,   \* mRunningInstances: the list last given to UpdateRunStatus
    closed,     \* mClosed
    mon,        \* the monitor thread: "running" or "exited"
    rstate,     \* the Runner's lifecycle: "started", "stopping", "stopped"
    pc,         \* per caller thread: where it is in Start/StopInstance
    initStatus, \* per caller: the status GetUnitStatus returned
    view,       \* per caller: what the last call returned to the Launcher
    starts,     \* per caller: StartInstance calls made (bounded)
    sawActive   \* history: the Runner read "active" for the unit since
                \* the current StartInstance began

vars == <<sd, restarts, starting, running, reported, closed, mon,
          rstate, pc, initStatus, view, starts, sawActive>>

UnitStates == {"inactive", "activating", "active", "deactivating", "failed"}
RunStates  == {"Active", "Failed"}
ExitVals   == ExitCodes \cup {NoExit}
UnitStatus == [state : UnitStates, exit : ExitVals]
RunStatus  == [state : RunStates, exit : ExitVals]
Pcs == {"idle", "getStatus", "register", "waiting", "stopping"}

(* std::map insert-or-assign and erase on a partial function.              *)
Put(f, k, v) == [x \in DOMAIN f \cup {k} |-> IF x = k THEN v ELSE f[x]]
Erase(f, k)  == [x \in DOMAIN f \ {k} |-> f[x]]
EmptyMap     == [x \in {} |-> NoExit]

(* The value a local status variable holds while it is not in use.         *)
NoStatus == [state |-> "inactive", exit |-> NoExit]

(* Mutant: the unit state is passed on without conversion.                *)
ToInstanceStateRaw(s) == s

(* ToInstanceState: only systemd's "active" is an active instance.         *)
ToInstanceState(s) == IF s = "active" THEN "Active" ELSE "Failed"

(* The run status MonitorUnits derives from a listed unit.                 *)
RunStatusOf(u) == [state |-> ToInstanceState(u.state), exit |-> u.exit]

(* Units ListUnits returns: every loaded unit; an inactive unit is not     *)
(* listed once systemd has unloaded it.                                    *)
Listed ==
    {i \in Instances : sd[i].state # "inactive" \/ ~UnloadInactive}

TypeOK ==
    /\ sd \in [Instances -> UnitStatus]
    /\ restarts \in [Instances -> 0..StartBurst]
    /\ DOMAIN starting \subseteq Instances
    /\ \A i \in DOMAIN starting : starting[i] \in UnitStatus
    /\ DOMAIN running \subseteq Instances
    /\ \A i \in DOMAIN running : running[i] \in RunStatus
    /\ DOMAIN reported \subseteq Instances
    /\ \A i \in DOMAIN reported : reported[i] \in RunStatus
    /\ closed \in BOOLEAN
    /\ mon \in {"running", "exited"}
    /\ rstate \in {"created", "started", "stopping", "stopped"}
    /\ pc \in [Instances -> Pcs]
    /\ initStatus \in [Instances -> UnitStatus]
    /\ view \in [Instances -> {"stopped", "started", "failed"}]
    /\ starts \in [Instances -> 0..MaxStarts]
    /\ sawActive \in [Instances -> BOOLEAN]

(* The Runner after Runner::Init: no unit loaded, empty maps, no caller.    *)
InitMaps ==
    /\ sd = [i \in Instances |-> [state |-> "inactive", exit |-> NoExit]]
    /\ restarts = [i \in Instances |-> 0]
    /\ starting = EmptyMap
    /\ running = EmptyMap
    /\ reported = EmptyMap
    /\ closed = FALSE
    /\ pc = [i \in Instances |-> "idle"]
    /\ initStatus = [i \in Instances |-> NoStatus]
    /\ view = [i \in Instances |-> "stopped"]
    /\ starts = [i \in Instances |-> 0]
    /\ sawActive = [i \in Instances |-> FALSE]

(* The Runner before Runner::Start: no monitor thread.                      *)
Created == InitMaps /\ mon = "exited" /\ rstate = "created"

(* The state right after Runner::Init and Runner::Start: the monitor       *)
(* thread spawned.                                                         *)
Init == InitMaps /\ mon = "running" /\ rstate = "started"

(* Runner::Start: the systemd connection is created (an exception is       *)
(* returned as an error and changes nothing), mClosed is cleared and the   *)
(* monitor thread spawned.  The thread of an earlier Start was joined by   *)
(* Stop.                                                                   *)
RunnerStart ==
    /\ rstate \in {"created", "stopped"}
    /\ closed' = FALSE
    /\ mon' = "running"
    /\ rstate' = "started"
    /\ UNCHANGED <<sd, restarts, starting, running, reported, pc,
                   initStatus, view, starts, sawActive>>

-----------------------------------------------------------------------------
(***************************************************************************)
(* StartInstance                                                           *)
(***************************************************************************)

(* A start job on a unit: an active or activating unit stays as it is,     *)
(* any other unit begins activating.                                       *)
StartJob(u) ==
    IF u.state \in {"active", "activating"} THEN u
    ELSE [u EXCEPT !.state = "activating"]

(* StartInstance up to its first status read: fill the default run        *)
(* parameters, write the drop-in (SetRunParameters), call StartUnit.  A   *)
(* failure of either returns {Failed} at once.  The drop-in file only sets *)
(* systemd's restart limits, which StartBurst stands for, so it is not     *)
(* kept as state.                                                          *)
StartBegin(i) ==
    /\ pc[i] = "idle" /\ view[i] # "started"
    /\ starts[i] < MaxStarts
    /\ starts' = [starts EXCEPT ![i] = @ + 1]
    /\ sawActive' = [sawActive EXCEPT ![i] = FALSE]
    /\ \/ /\ view' = [view EXCEPT ![i] = "failed"]
          /\ UNCHANGED <<sd, pc>>
       \/ /\ sd' = [sd EXCEPT ![i] = StartJob(@)]
          /\ pc' = [pc EXCEPT ![i] = "getStatus"]
          /\ UNCHANGED view
    /\ UNCHANGED <<restarts, starting, running, reported, closed, mon,
                   rstate, initStatus>>

(* GetStartingUnitState, the GetUnitStatus call made outside the mutex.    *)
StartGetStatus(i) ==
    /\ pc[i] = "getStatus"
    /\ \/ /\ initStatus' = [initStatus EXCEPT ![i] = sd[i]]
          /\ sawActive' = [sawActive EXCEPT ![i] = @ \/ sd[i].state = "active"]
          /\ pc' = [pc EXCEPT ![i] = "register"]
          /\ UNCHANGED view
       \/ /\ view' = [view EXCEPT ![i] = "failed"]
          /\ pc' = [pc EXCEPT ![i] = "idle"]
          /\ UNCHANGED <<initStatus, sawActive>>
    /\ UNCHANGED <<sd, restarts, starting, running, reported, closed,
                   mon, rstate, starts>>

(* Under the mutex: record the status read before it in mStartingUnits,    *)
(* then wait_for on the unit's condition variable, releasing the mutex.    *)
StartRegister(i) ==
    /\ pc[i] = "register"
    /\ starting' = Put(starting, i, initStatus[i])
    /\ initStatus' = [initStatus EXCEPT ![i] = NoStatus]
    /\ pc' = [pc EXCEPT ![i] = "waiting"]
    /\ UNCHANGED <<sd, restarts, running, reported, closed, mon,
                   rstate, view, starts, sawActive>>

(* Mutant: the start counts as failed only when the unit is "failed".     *)
StartWakeNotFailed(i) ==
    /\ pc[i] = "waiting"
    /\ starting' = Erase(starting, i)
    /\ IF starting[i].state = "failed"
         THEN /\ view' = [view EXCEPT ![i] = "failed"]
              /\ UNCHANGED running
         ELSE /\ running' = Put(running, i, [state |-> "Active",
                                            exit |-> starting[i].exit])
              /\ view' = [view EXCEPT ![i] = "started"]
    /\ pc' = [pc EXCEPT ![i] = "idle"]
    /\ UNCHANGED <<sd, restarts, reported, closed, mon, rstate,
                   initStatus, starts, sawActive>>

(* The wait ends (notified on "failed", timed out, or spuriously) and the  *)
(* mutex is retaken: the entry is erased; a unit not active returns        *)
(* {Failed}, an active one enters mRunningUnits and returns {Active}.     *)
StartWake(i) ==
    /\ pc[i] = "waiting"
    /\ starting' = Erase(starting, i)
    /\ IF starting[i].state # "active"
         THEN /\ view' = [view EXCEPT ![i] = "failed"]
              /\ UNCHANGED running
         ELSE /\ running' = Put(running, i, [state |-> "Active",
                                            exit |-> starting[i].exit])
              /\ view' = [view EXCEPT ![i] = "started"]
    /\ pc' = [pc EXCEPT ![i] = "idle"]
    /\ UNCHANGED <<sd, restarts, reported, closed, mon, rstate,
                   initStatus, starts, sawActive>>

(***************************************************************************)
(* StopInstance                                                            *)
(***************************************************************************)

(* Mutant: the running entry is not erased.                               *)
StopBeginKeep(i) ==
    /\ pc[i] = "idle" /\ view[i] \in {"started", "failed"}
    /\ pc' = [pc EXCEPT ![i] = "stopping"]
    /\ UNCHANGED <<sd, restarts, starting, running, reported, closed, mon,
                   rstate, initStatus, view, starts, sawActive>>

(* Under the mutex: erase the unit from mRunningUnits.                     *)
StopBegin(i) ==
    /\ pc[i] = "idle" /\ view[i] \in {"started", "failed"}
    /\ running' = Erase(running, i)
    /\ pc' = [pc EXCEPT ![i] = "stopping"]
    /\ UNCHANGED <<sd, restarts, starting, reported, closed, mon,
                   rstate, initStatus, view, starts, sawActive>>

(* Outside the mutex: StopUnit (an unloaded unit, NotFound, is no error),  *)
(* ResetFailedUnit, RemoveRunParameters; the first error is returned but   *)
(* every call is made.  A failed StopUnit leaves the unit as it was.       *)
StopUnits(i) ==
    /\ pc[i] = "stopping"
    /\ \E stopOk \in BOOLEAN :
         LET afterStop == IF stopOk THEN [sd[i] EXCEPT !.state = "inactive"]
                          ELSE sd[i]
         IN sd' = [sd EXCEPT ![i] =
                     IF afterStop.state = "failed"
                       THEN [afterStop EXCEPT !.state = "inactive"]
                       ELSE afterStop]
    /\ restarts' = [restarts EXCEPT ![i] = 0]
    /\ view' = [view EXCEPT ![i] = "stopped"]
    /\ pc' = [pc EXCEPT ![i] = "idle"]
    /\ UNCHANGED <<starting, running, reported, closed, mon, rstate,
                   initStatus, starts, sawActive>>

(***************************************************************************)
(* MonitorUnits                                                            *)
(***************************************************************************)

(* Mutant: a running entry is compared and refreshed on its state only,   *)
(* not on its exit code.                                                   *)
MonitorPollStateOnly ==
    /\ mon = "running" /\ ~closed
    /\ \/ /\ ListUnitsCanFail
          /\ mon' = "exited"
          /\ UNCHANGED <<starting, running, reported, sawActive>>
       \/ LET stale(i) == RunStatusOf(sd[i]).state # running[i].state
              changed == \E i \in DOMAIN running \cap Listed : stale(i)
              newRunning == [i \in DOMAIN running |->
                               IF i \in Listed /\ stale(i)
                                 THEN RunStatusOf(sd[i]) ELSE running[i]]
          IN /\ starting' = [i \in DOMAIN starting |->
                               IF i \in Listed THEN sd[i] ELSE starting[i]]
             /\ running' = newRunning
             /\ reported' =
                  IF changed \/ Cardinality(DOMAIN running)
                                 # Cardinality(DOMAIN reported)
                    THEN newRunning ELSE reported
             /\ sawActive' = [i \in Instances |->
                               sawActive[i] \/ (i \in Listed
                                                /\ sd[i].state = "active")]
             /\ UNCHANGED mon
    /\ UNCHANGED <<sd, restarts, closed, rstate, pc, initStatus,
                   view, starts>>

(* One iteration of the monitor loop, under the mutex.  A ListUnits error  *)
(* ends the thread.  Otherwise every listed unit refreshes its             *)
(* mStartingUnits entry and its mRunningUnits entry; the list goes to      *)
(* UpdateRunStatus when a running entry changed or when mRunningUnits and  *)
(* the last list differ in size.                                           *)
MonitorPoll ==
    /\ mon = "running" /\ ~closed
    /\ \/ /\ ListUnitsCanFail
          /\ mon' = "exited"
          /\ UNCHANGED <<starting, running, reported, sawActive>>
       \/ LET changed == \E i \in DOMAIN running \cap Listed :
                            RunStatusOf(sd[i]) # running[i]
              newRunning == [i \in DOMAIN running |->
                               IF i \in Listed THEN RunStatusOf(sd[i])
                               ELSE running[i]]
          IN /\ starting' = [i \in DOMAIN starting |->
                               IF i \in Listed THEN sd[i] ELSE starting[i]]
             /\ running' = newRunning
             /\ reported' =
                  IF changed \/ Cardinality(DOMAIN running)
                                 # Cardinality(DOMAIN reported)
                    THEN newRunning ELSE reported
             /\ sawActive' = [i \in Instances |->
                               sawActive[i] \/ (i \in Listed
                                                /\ sd[i].state = "active")]
             /\ UNCHANGED mon
    /\ UNCHANGED <<sd, restarts, closed, rstate, pc, initStatus,
                   view, starts>>

(* The wait predicate sees mClosed and the thread returns.                 *)
MonitorExit ==
    /\ mon = "running" /\ closed
    /\ mon' = "exited"
    /\ UNCHANGED <<sd, restarts, starting, running, reported, closed,
                   rstate, pc, initStatus, view, starts, sawActive>>

(***************************************************************************)
(* Runner::Stop                                                            *)
(***************************************************************************)

(* Mutant: Stop notifies the monitor without setting mClosed.             *)
RunnerStopNoClose ==
    /\ rstate = "started" /\ ~closed
    /\ rstate' = "stopping"
    /\ UNCHANGED <<sd, restarts, starting, running, reported, closed, mon,
                   pc, initStatus, view, starts, sawActive>>

(* Under the mutex: a closed Runner returns at once; else mClosed is set   *)
(* and the monitor's condition variable notified.  The starters' condition *)
(* variables are not notified.                                             *)
RunnerStop ==
    /\ rstate = "started" /\ ~closed
    /\ closed' = TRUE
    /\ rstate' = "stopping"
    /\ UNCHANGED <<sd, restarts, starting, running, reported, mon,
                   pc, initStatus, view, starts, sawActive>>

(* join() returns once the monitor has exited; mSystemd is reset.          *)
RunnerJoin ==
    /\ rstate = "stopping" /\ mon = "exited"
    /\ rstate' = "stopped"
    /\ UNCHANGED <<sd, restarts, starting, running, reported, closed,
                   mon, pc, initStatus, view, starts, sawActive>>

(***************************************************************************)
(* systemd, acting on its own                                              *)
(***************************************************************************)

sdVars == <<starting, running, reported, closed, mon, rstate, pc,
            initStatus, view, starts, sawActive>>

UnitActivated(i) ==
    /\ sd[i].state = "activating"
    /\ sd' = [sd EXCEPT ![i].state = "active"]
    /\ UNCHANGED <<restarts, sdVars>>

(* The main process exits: while activating or active with a code other    *)
(* than 0 the unit fails, active with 0 it becomes inactive.               *)
UnitExited(i) ==
    /\ \E c \in ExitCodes :
         \/ /\ sd[i].state \in {"activating", "active"} /\ c # 0
            /\ sd' = [sd EXCEPT ![i] = [state |-> "failed", exit |-> c]]
         \/ /\ sd[i].state = "active" /\ c = 0
            /\ sd' = [sd EXCEPT ![i] = [state |-> "inactive", exit |-> c]]
    /\ UNCHANGED <<restarts, sdVars>>

(* Restart= of the unit, limited by StartLimitBurst.                       *)
UnitRestarted(i) ==
    /\ sd[i].state = "failed"
    /\ restarts[i] < StartBurst
    /\ sd' = [sd EXCEPT ![i].state = "activating"]
    /\ restarts' = [restarts EXCEPT ![i] = @ + 1]
    /\ UNCHANGED sdVars

Systemd(i) == UnitActivated(i) \/ UnitExited(i) \/ UnitRestarted(i)

(* The steps of a call in progress.                                        *)
CallStep(i) ==
    StartGetStatus(i) \/ StartRegister(i) \/ StartWake(i) \/ StopUnits(i)

(* The Launcher, the Runner's only caller, calls it only between           *)
(* Runner::Start and Runner::Stop, and has no call in progress when it     *)
(* lets AosCore call Runner::Stop.  The code does not check either; the   *)
(* module AosCoreRunner derives both from AosCore's cleanup order.        *)
Caller(i) ==
    \/ rstate = "started" /\ (StartBegin(i) \/ StopBegin(i))
    \/ CallStep(i)

NoCallInProgress == \A i \in Instances : pc[i] = "idle"

(* After Runner::Stop the process is done with the Runner.                 *)
Terminated == rstate = "stopped" /\ UNCHANGED vars

Next ==
    \/ \E i \in Instances : Caller(i) \/ Systemd(i)
    \/ MonitorPoll \/ MonitorExit \/ (RunnerStop /\ NoCallInProgress)
    \/ RunnerJoin \/ Terminated

(* The monitor is woken every cStatusPollPeriod; a waiting starter by its  *)
(* timeout; a caller inside a call goes on; Stop's join returns when the   *)
(* thread ends.  Starting a call, and systemd, are not fair.               *)
Fairness ==
    /\ WF_vars(MonitorPoll) /\ WF_vars(MonitorExit) /\ WF_vars(RunnerJoin)
    /\ \A i \in Instances :
         /\ WF_vars(StartGetStatus(i)) /\ WF_vars(StartRegister(i))
         /\ WF_vars(StartWake(i)) /\ WF_vars(StopUnits(i))

Spec == Init /\ [][Next]_vars /\ Fairness

-----------------------------------------------------------------------------
(***************************************************************************)
(* Properties                                                              *)
(***************************************************************************)

(* Spec section 8, property 7, per start: the Runner holds or returns an   *)
(* Active status for an instance only if, since the StartInstance that     *)
(* started it, the Runner read "active" from systemd (GetUnitStatus in     *)
(* GetStartingUnitState, or ListUnits in MonitorUnits).                    *)
ActiveOnlyIfObserved ==
    \A i \in Instances :
        /\ i \in DOMAIN running /\ running[i].state = "Active" => sawActive[i]
        /\ view[i] = "started" => sawActive[i]

(* The Runner's entry for a tracked instance agrees with systemd.          *)
Matches(i) == running[i] = RunStatusOf(sd[i])

(* MonitorUnits keeps mRunningUnits up to date: whenever a tracked         *)
(* instance's entry disagrees with its unit in systemd, the entry is       *)
(* eventually corrected, or dropped, unless the Runner is being stopped.   *)
TrackedConverges ==
    \A i \in Instances :
        (i \in DOMAIN running /\ ~Matches(i))
            ~> (i \notin DOMAIN running \/ Matches(i) \/ closed)

(* Spec section 5: UpdateRunStatus delivers eventually-consistent          *)
(* snapshots; whenever the last list given to the receiver differs from    *)
(* mRunningUnits, a later poll delivers the current one.                   *)
ReportEventuallyConsistent ==
    (reported # running) ~> (reported = running \/ closed)

-----------------------------------------------------------------------------
(***************************************************************************)
(* Refinement of RunnerAbstract: a caller inside StartInstance is          *)
(* starting; one inside StopInstance already has no running entry; else    *)
(* the instance is running when mRunningUnits holds it, failed when its    *)
(* last StartInstance returned Failed, and absent otherwise.  The arms     *)
(* are disjoint, so each state has exactly one abstract phase.             *)
(***************************************************************************)

AbsPhase ==
    [i \in Instances |->
        CASE pc[i] \in {"getStatus", "register", "waiting"} -> "starting"
          [] pc[i] = "stopping" -> "absent"
          [] pc[i] = "idle" /\ i \in DOMAIN running -> "running"
          [] pc[i] = "idle" /\ i \notin DOMAIN running
               /\ view[i] = "failed" -> "failed"
          [] OTHER -> "absent"]

Abs == INSTANCE RunnerAbstract WITH phase <- AbsPhase

(* The Runner implements the per-instance state machine of spec 4.5.       *)
RunnerRefinement == Abs!Spec

=============================================================================
