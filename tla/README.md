# Formal models of the Aos service manager

This directory holds TLA+ models of the parts of the service manager
(`src/`) that have concurrency, ordering or boundary behaviour worth checking:
TLC configurations that model-check them on small instances, and TLAPS proofs
of the main safety properties for every value of the constants.

## 1. The system

The service manager (SM) runs on every node. It receives the desired set of
service instances from the Communication Manager (CM), starts and stops them
under systemd, and reports their run status back. The parts named by the spec:

| Part | Where | State it keeps | Operations |
|---|---|---|---|
| Runner | `src/src/runner/runner.cpp` | `mStartingUnits`, `mRunningUnits`, `mRunningInstances`, `mClosed`, the monitor thread, the systemd connection, drop-in files | `Init`, `Start`, `Stop`, `StartInstance`, `StopInstance`, the `MonitorUnits` thread |
| AosCore | `src/src/app/aoscore.cpp` | the module objects, `mCleanupManager` (a stack of Stop calls) | `Init`, `Start`, `Stop` |
| Config | `src/src/config/config.cpp` | none (a parse) | `ParseConfig`, with the alert-priority clamp |
| Convert | `src/src/utils/convert.cpp` | none (pure conversions) | protobuf <-> core types: InstanceFilter, Timestamp, NetworkParameters, OverrideEnvVars, ... |
| ImageHandler | `src/src/image/imagehandler.hpp` | none | stubs |
| Launcher, ServiceManager, LayerManager, SpaceAllocator, Storage, NetworkManager, ResourceMonitor, LogProvider, JournalAlerts, SMClient | the core library, not under `src/` | | |

How they interact. `AosCore::Init` initialises 29 modules in a fixed order and
throws at the first error. `AosCore::Start` starts nine modules in order
(Runner, Launcher, LayerManager, NetworkManager, ResourceMonitor,
ServiceManager, LogProvider, JournalAlerts, SMClient) and, after each success,
pushes that module's Stop onto the cleanup manager; `AosCore::Stop` runs the
pushed Stops last-first. The Launcher calls `Runner::StartInstance` and
`Runner::StopInstance` from its threads; the Runner's monitor thread calls back
`Launcher::UpdateRunStatus` with the list of running instances.

Inside the Runner three kinds of actors share the maps under one mutex:

* caller threads: `StartInstance` writes the drop-in file, calls systemd's
  `StartUnit`, reads `GetUnitStatus` *outside* the mutex, then under the mutex
  records the status in `mStartingUnits` and waits on the entry's condition
  variable (`wait_for` with the start timeout, no predicate); on waking it
  erases the entry and either returns Failed or puts the unit into
  `mRunningUnits` as Active. `StopInstance` erases the unit from
  `mRunningUnits` under the mutex, then calls `StopUnit`,
  `ResetFailedUnit` and removes the drop-in without it.
* the monitor thread: every poll period, under the mutex, it calls
  `ListUnits`; for each listed unit it refreshes the `mStartingUnits` entry
  (and notifies the waiter if the unit failed) and the `mRunningUnits` entry;
  it sends `GetRunningInstances()` to the receiver when an entry changed or
  the sizes of `mRunningUnits` and the last list differ. An error from
  `ListUnits` ends the thread.
* systemd, which activates, fails, restarts (up to `StartLimitBurst`) and
  unloads units on its own.

The hard behaviours are the interleavings of those three, the status read
outside the lock and used after it, the timeout racing a late activation, the
size-only change detection, a unit that disappears from `ListUnits`, and the
ordering of module start and cleanup in AosCore.

## 2. Modules

| Module | Models | State and actions |
|---|---|---|
| `Runner` | `runner.cpp` | `sd`/`restarts` (systemd), `starting`, `running`, `reported`, `closed`, `mon`, `rstate`; per caller `pc`, `initStatus`, `view`, `starts`; history `sawActive`. Actions `StartBegin` (lines 113-153), `StartGetStatus` (306-313), `StartRegister` (315-322), `StartWake` (322-340), `StopBegin` (163-173), `StopUnits` (175-197), `MonitorPoll` (209-258), `MonitorExit`, `RunnerStop`, `RunnerJoin`, and systemd's `UnitActivated`, `UnitExited`, `UnitRestarted`. |
| `RunnerAbstract` | spec section 4.5 | per instance `phase` in absent/starting/running/failed; what the Runner promises the Launcher. |
| `MC_Runner` | | two instances `i1`, `i2` as model values, exit codes {0, 1}. |
| `RunnerProofs` | | the inductive invariant `IInv` and the theorems. |
| `AosCore` | `aoscore.cpp` | `phase`, `step`, `active`, `cleanups`; `InitStep` per module Init, `StartStep` per module Start (success pushes the cleanup, failure throws), `ExecuteCleanup` pops one cleanup. |
| `AosCoreProofs` | | the inductive invariant of AosCore, the proofs of `RunningIsPrefix`, `StopsOfRunning` and `TypeOK`. |
| `AosCoreRunner` | `aoscore.cpp` with `runner.cpp`, and the Launcher from spec sections 4.6 and 5 | instances `Core` of `AosCore` and `R` of `Runner` sharing their variables, plus the Launcher's `lclosed`. `StartModule` is AosCore's `StartStep`, which for the Runner is also `Runner::Start` (`RunnerStart`); `LauncherCall` begins a StartInstance/StopInstance while the Launcher is started and not closed; the popped cleanups are `LauncherClose` then `LauncherJoin` (Launcher::Stop: close, join the workers), `RunnerStopBegin` then `RunnerStopJoin` (Runner::Stop: set `mClosed`, join the monitor), `OtherStop` for the rest. |
| `MC_AosCoreRunner` | | one instance, exit codes {0, 1}. |
| `AosCoreRunnerProofs` | | the inductive invariant `SysIInv` of the composition (reached as the instance `Sys`) and its proof, the refinement proof inside the composition. |
| `AosCoreRunnerTheorems` | | `CallsOnlyIntoStartedRunner` and `TypeOK` of `AosCoreRunner` proved in its own names; the Runner's caller discipline, from `AosCoreRunnerProofs`; AosCore's own specification and `RunningIsPrefix` inside the composition. |
| `ConvertProofs` | | the proof that `FilterWireRoundTrip` holds for every width. |
| `Convert` | `convert.cpp` | the conversions as operators: `InstanceFilterToAos`/`ToProto` (lines 193-207, 278-295), `TimestampToAos` (328-337), `NetworkParametersToAos` (236-261), `OverrideEnvVarsToAos` (308-326), with `PushBack` for `StaticArray::PushBack`. int64/uint64 are `Width`-bit values (`ToInt64`, `ToUInt64` reduce modulo `2^Width`). The state is one message (`msg`), its conversion (`result`) and `done`; one action per conversion. |
| `MC_Convert` | | `Width = 2` (int64 is -2..1, uint64 0..3), strings {"", "s"}, seconds {-1, 0, 1}, lists of up to 2 items, every array capacity 1. |

Each mutex critical section of the Runner is one atomic action (no critical
section makes a blocking call except the monitor's, which holds the mutex for
its whole poll), so no lock variable is needed; actions are split exactly at
the unlocked systemd calls. Partial functions stand for `std::map`. The
drop-in file only carries systemd's restart limits, which the constant
`StartBurst` stands for, so it is not state. Unit names are the instance IDs
(`CreateSystemdUnitName` is a bijection on valid IDs).

The Runner starts in `Created` (after `Runner::Init`: empty maps, no
monitor) in `AosCoreRunner` and in `Init` (after `Runner::Start`) when
checked alone. The code checks neither that a call comes between Start and
Stop nor that none is in progress when Stop runs; alone, the Runner's `Next`
states this as the Launcher's discipline (`Caller`, and `RunnerStop` only
under `NoCallInProgress`). `AosCoreRunner` drops that assumption and checks
it as `CallsOnlyIntoStartedRunner` instead.

Abstractions: a systemd call that can fail is a nondeterministic choice;
`ListUnitsCanFail` and `UnloadInactive` switch on the two environment
behaviours that break the monitor; `MaxStarts` bounds the StartInstance calls
per instance.

## 3. Runs

| Run | Config | Checks | Result |
|---|---|---|---|
| `runner_safety` | 2 instances, `MaxStarts = 2`, `StartBurst = 1`, ListUnits may fail | `TypeOK`, `ActiveOnlyIfObserved` | pass (about 4.9 M distinct states) |
| `runner_liveness` | 2 instances, `MaxStarts = 1`, reliable ListUnits | `TrackedConverges`, `RunnerRefinement` | pass |
| `runner_report_stale` | as liveness | `ReportEventuallyConsistent` | violation |
| `runner_unloaded_unit` | systemd unloads inactive units | `TrackedConverges` | violation |
| `runner_listunits_error` | ListUnits may fail | `TrackedConverges` | violation |
| `aoscore_runner_shutdown` | 1 instance, `MaxStarts = 2`, `StartBurst = 1`, reliable ListUnits | `CallsOnlyIntoStartedRunner`, `ShutdownCompletes` | pass (about 100 k distinct states) |
| `aoscore_lifecycle` | the real 29 Init and 9 Start steps | `RunningIsPrefix`, `StopsOfRunning` | pass |
| `convert_roundtrip` | every message of `MC_Convert` | `FilterWireRoundTrip`, `EnvVarsAllOrError` | pass |
| `convert_filter_minus_one` | as above | `FilterNoInstanceIffMinusOne` | violation |
| `convert_timestamp_negative` | as above | `TimestampAbsentIffZero` | violation |
| `convert_network_truncation` | as above | `NetworkParametersPreserved` | violation |

* `ActiveOnlyIfObserved` (spec 8.7): the Runner holds or returns Active for an
  instance only if it read `active` from systemd since that StartInstance
  began. It catches a wake-up that trusts a stale or unchecked state.
* `TrackedConverges`: a tracked entry that disagrees with systemd is
  eventually corrected or dropped, unless the Runner is stopping.
* `RunnerRefinement`: the Runner implements `RunnerAbstract` under the mapping
  `AbsPhase` (a caller inside StartInstance is starting, inside StopInstance
  absent, an idle caller's `running` entry is running, an idle caller's
  last Failed return without an entry is failed). The CASE arms of
  `AbsPhase` are disjoint, so the mapping TLC evaluates (first true arm) is
  the one the proofs use.
* `ReportEventuallyConsistent` (spec 5): the receiver's last list eventually
  equals `mRunningUnits`.
* `RunningIsPrefix`: the running modules are always the first k of the start
  order, through a failed Start and through Stop.
* `StopsOfRunning`: the cleanup stack holds exactly one pending Stop for
  each running module and nothing else. `RunningIsPrefix` looks only at the
  running set. This property also catches a Stop pushed before its
  module's Start succeeded (`StartStepPushFirst`, `AddCleanup` moved above
  the error check). Such a Stop would run at shutdown on a module that never
  started.
* `CallsOnlyIntoStartedRunner` (spec 5, Cancellation): no StartInstance or
  StopInstance is in progress unless the Runner is started. Runner::Stop
  wakes no waiting starter and resets the systemd connection after the join,
  so a call that ran into Stop would use a reset connection; AosCore's
  last-first cleanup order stops the Launcher first, and the Launcher's join
  waits for its workers. A Launcher::Stop that does not wait breaks it.
* `ShutdownCompletes`: once `AosCore::Stop` has begun, it returns. Each
  cleanup waits on threads (the Launcher's workers, the Runner's monitor);
  a Runner::Stop that did not set `mClosed` would join a monitor that never
  ends.
* `FilterWireRoundTrip`: an InstanceFilter read from the wire and written
  back is the message received, for every int64 instance (the casts and the
  -1 convention lose nothing on the wire side).
* `EnvVarsAllOrError`: `ConvertToAos(OverrideEnvVars)` either returns an
  error, exactly when a list exceeds its array, or every entry with all its
  variables in order.

Width 2 keeps the casts' wrap-around (uint64 3 is int64 -1) in reach; with
capacity 1 and lists of 2 both the fitting and the overflowing arrays occur.

Bounds. Two instances are the fewest for which a poll covers one unit while
another is being started or stopped, and for the size-only change detection
to matter. Two starts per instance let a start follow a failed start and a
stop; one automatic restart lets a failed unit come back while the Runner
holds its old state. Exit codes 0 and 1 separate a clean exit from a failure.

Fairness. The monitor is woken every `cStatusPollPeriod`, so `MonitorPoll`
and `MonitorExit` are weakly fair; a waiting starter is woken at the latest by
its timeout and a caller inside a call goes on, so the steps inside
StartInstance and StopInstance are weakly fair; `join` returns when the thread
ends (`RunnerJoin`). Beginning a call is up to the Launcher and systemd acts on
its own: neither is fair. In `AosCoreRunner` the cleanups AosCore's main thread
runs are weakly fair too (it runs them one after another), and so is the
monitor as a whole. `aoscore_runner_shutdown` takes ListUnits as reliable:
with ListUnits failing, weak fairness of the monitor would force the failure
that ends the thread, and liveness would follow from an error rather than
from `mClosed` (the ListUnits error is its own run, `runner_listunits_error`).
One instance suffices there: the cleanup order and the joins are per
component, not per instance, and two instances made the state space too
large for a run.

Findings (the violation runs):

* `runner_report_stale` (`runner.cpp:254`): when one instance is stopped and
  another started between two polls the sizes agree and no list is sent; the
  receiver keeps a stale list forever.
* `runner_unloaded_unit` (`runner.cpp:228`): a unit that exits with 0 and is
  unloaded is never listed again; `mRunningUnits` keeps it Active.
* `runner_listunits_error` (`runner.cpp:223`): one ListUnits error ends the
  monitor thread; the spec says monitor errors log and back off.
* `convert_filter_minus_one` (`convert.cpp:205`): a core filter whose
  instance is 2^64-1 is sent as -1, which CM reads as "no instance".
* `convert_timestamp_negative` (`convert.cpp:332`): a Timestamp with negative
  seconds is read as absent; the spec says absent exactly when seconds is 0.
* `convert_network_truncation` (`convert.cpp:246`): DNS servers and firewall
  rules beyond the array capacity are dropped with the PushBack error ignored.

## 4. Proofs

`RunnerProofs` proves, for every finite set of instances, every set of exit
codes containing 0 and every bound (assumption `ConstantsAssumption` of
`Runner`):

* `IInvariant`: `Spec => []IInv`;
* `TypeCorrect`: `Spec => []TypeOK`;
* `ActiveObserved`: `Spec => []ActiveOnlyIfObserved`.

`ActiveOnlyIfObserved` is not inductive: `StartWake` copies a status read
earlier, and `StartBegin` clears `sawActive`. `IInv` adds that
`mStartingUnits` holds an entry exactly for the waiting callers
(`StartingWaits`), that running entries belong to started instances
(`RunningStarted`), that a caller inside StartInstance or StopInstance has no
running entry (`StartingNotStarted`, `StoppingUntracked`), and that every
`active` held for a start in progress was read during it
(`HeldActiveObserved`). It was checked with TLC as an invariant before it was
proved. The proof has one step per action and, under each, one per conjunct.

`AosCoreProofs` proves `PrefixInvariant`: `Spec => []RunningIsPrefix`, for
the real module lists. `RunningIsPrefix` is not inductive: `ExecuteCleanup`
removes the module on top of the cleanup stack, which is the last started
only if the stack is the started prefix in order. `IInv` therefore states
that for some k the stack is the first k modules of the order and the running
set their set, that while starting the stack's length is the Start position
minus one, and that nothing is pushed before Start. Lemmas `PushNext` and
`PopTop` show that a push of the next module and a pop of the top move from
prefix k to k+1 and k-1; `StartOrderDistinct` (each module once) is what
makes the pop remove exactly one module from the set.

`ConvertProofs` proves `FilterWireRoundTripHolds`: `Spec =>
[]FilterWireRoundTrip` for every `Width` and every set of strings (assumption
`ConvertAssumption`, with `None` outside strings and integers, and
`ModulusPositive`, that `2^Width` is a positive integer, which TLC evaluates
and the provers do not derive from `^`). Lemma `CastRoundTrip` is the
arithmetic: for s in the int64 range, the uint64 cast and back give s.
`FilterRoundTrip` applies it field by field, with the "" and -1 conventions.
The inductive invariant adds only that a converted filter's result is its
`ConvertToAos`. `AosCoreProofs` also proves `TypeCorrect`: `Spec => []TypeOK`
for AosCore, from its `IInv`. It proves `StopsInvariant`: `Spec =>
[]StopsOfRunning`, also from `IInv`, whose stack conjunct says the stack is
the started prefix of the order. Lemma `PushedStops` turns that into the
property: such a prefix holds each started module once
(`StartOrderDistinct`).

`AosCoreRunnerTheorems` proves, for `AosCoreRunner` and every value of the
constants that `RunnerAssumption` allows (the Runner's
`ConstantsAssumption`, restated in `AosCoreRunner`, where TLC evaluates it):

* `Invariant`: `Spec => []P!SysIInv`;
* `CallsIntoStartedRunner`: `Spec => []CallsOnlyIntoStartedRunner`;
* `TypeCorrect`: `Spec => []TypeOK`;
* `DisciplineKept`: `Spec => RunnerDisciplineKept`, the action formula
  `[][R!Next \/ R!RunnerStart]_runnerVars`. It is proved, not model-checked:
  as a TLC property it adds nothing to `CallsOnlyIntoStartedRunner`. It is
  the statement that lets the standalone `Runner` module's results, proved
  under its caller assumption, apply to the Runner inside AosCore;
* `CoreImplementation`: `Spec => Core!Spec`. The composition implements
  AosCore's own specification. Every step is an AosCore step or leaves
  AosCore's variables alone; the joins only delay their cleanups;
* `PrefixKept`: `Spec => []Core!RunningIsPrefix`, AosCore's prefix
  property inside the composition.

The argument is in `AosCoreRunnerProofs` (`SysInvariant`: `Sys!Spec =>
[]SysIInv`, with lemmas `SysIInvCalls` and `SysIInvTyped`).
`AosCoreRunnerTheorems` instances it as `P` and relates it back. The
instance's assumption follows from `RunnerAssumption`. `InitIsSysInit` and
`NextIsSysNext` show that `P!Sys!Init` and `P!Sys!Next` are `Init` and
`Next`: they are the same definitions, and the provers identify them only
once both sides are expanded down to the variables.

`CallsOnlyIntoStartedRunner` is not inductive: `RunnerStopBegin` moves the
Runner out of "started", and it is safe only because no call is then in
progress, which depends on AosCore's stack. `SysIInv` is the conjunction of
AosCore's `IInv`, the Runner's `IInv`, `LauncherGone` (no call is in
progress while the Launcher is not running, because Launcher::Stop joins
its workers), `RunnerLife` (the Runner is started exactly while AosCore
counts it running and its cleanup has not begun) and the property itself.
The argument rests on the prefix facts of `AosCoreProofs`: the Launcher is
started after the Runner, so while the Launcher runs the Runner runs and its
cleanup is not on top (`LauncherNeedsRunner`), and when the Runner's cleanup
is on top the Launcher has been stopped (`RunnerStoppedLast`). Lemmas
`CoreStepOrStutter` and `RunnerStepOrStutter` show that every step of the
composition is a step or a stutter of AosCore and of the Runner, so the two
components' invariants carry over. For the latter, `RunnerProofs` proves
its `IInv` preserved by `AnyStep`, every Runner action in any order and not
only the caller discipline of `Runner`'s own `Next`. `SysIInv` was checked
with TLC on `MC_AosCoreRunner`'s instance (100 399 states) before it was
proved. `AosCoreRunnerProofs` EXTENDS `RunnerProofs`, so that the
Runner's lemmas are at hand, and therefore reaches `AosCoreRunner` through
an instance. The prover uses an instanced theorem only once the instance's
assumption is discharged, which `AosCoreRunnerTheorems` does.

`DisciplineKept` rests on lemma `SysRunnerSteps` of `AosCoreRunnerProofs`.
Under `SysIInv`, every step of the composition is a step of `Runner`'s
`Next`, `Runner::Start`, or a stutter of the Runner's variables. A
`LauncherCall` is a `Caller` step because the Launcher runs only while the
Runner is started (`LauncherNeedsRunner` with `RunnerLife`). A
`RunnerStopBegin` is `RunnerStop /\ NoCallInProgress` because the Launcher
has been stopped and joined when the Runner's cleanup is on top
(`RunnerStoppedLast` with `LauncherGone`). Lemma `RunnerStepIsR` of
`AosCoreRunnerTheorems` identifies `P`'s Runner definitions with `R`'s.
`CoreImplementation` follows from `CoreStepOrStutter`. `PrefixKept`
follows from `SysIInv`, which contains AosCore's `IInv`.

The refinement of `RunnerAbstract` is proved in its safety part:
`RunnerProofs` proves `Implementation`: `Spec => Abs!Init /\
[][Abs!Next]_AbsPhase`, and `AosCoreRunnerProofs` proves
`SysImplementation`, the same formula for `AosCoreRunner`'s `Spec`. Lemma
`AbsStep` shows that under the Runner's `IInv` every `AnyStep` is an
abstract step of one instance or a stutter: `StartBegin` is `Start` or
`Reject`, `StartGetStatus` is a stutter or `StartFailed`, `StartWake` is
`Started` or `StartFailed`, `StopBegin` is `Stop` (or a stutter for a
started instance the monitor no longer tracks), and everything else is a
stutter. The invariant's `RunningStarted`, `StartingNotStarted` and
`StoppingUntracked` are what make these match, for example that a failed
start leaves no running entry behind. Lemmas `AbsPhaseExcept`,
`AbsPhaseKeep` and `AbsPhaseSame` reduce a step of the mapped function to
what changes at one instance. The fairness conjunct of `Abs!Spec`
(`RunnerRefinement`) is liveness and is checked by TLC only.

Out of the prover's reach, and left to TLC: the liveness properties
(`TrackedConverges`, the fairness part of `RunnerRefinement`,
`ShutdownCompletes`), which need
ENABLED and temporal reasoning under fairness; and `EnvVarsAllOrError` of
`Convert`, which is about a recursive function over the list of
variables, and needs induction over data that the provers cannot
instantiate.

## 5. Not modelled

* Launcher, ServiceManager, LayerManager, SpaceAllocator, Storage and the
  other modules of the core library are not under `src/`; AosCore sees them
  as names. The Launcher is modelled from the spec only as the Runner's
  caller threads, its closed flag and its join (`AosCoreRunner`).
* ImageHandler is a set of stubs with no state.
* Logging, drop-in file formatting and unit-name formatting.
* Config: a JSON parse with defaults whose only logic, the alert-priority
  clamp, is a two-branch range check a unit test covers.
* Convert: only the conversions with more than a field copy are modelled
  (the others copy strings and enums).

## 6. Plan

1. Done: Runner, AosCore, Convert; proofs of the Runner's safety and of
   `RunningIsPrefix`.
2. Done: AosCore with the Runner and the Launcher's calls and Stop; the
   filter round trip proved for every width. Next: the monitor's callback
   `UpdateRunStatus` into a stopped Launcher, which needs the Launcher's
   locking (not under `src/`).
3. Spec-modelled SpaceAllocator, LayerManager, ServiceManager with abstract
   specifications.
4. Done: proof of the Runner's refinement step, alone and inside
   AosCore; proof of `CallsOnlyIntoStartedRunner` for the composition;
   proof that the composition keeps the Runner's caller discipline and
   implements AosCore's specification.
5. Convert: the timestamp and log-request conversions.
