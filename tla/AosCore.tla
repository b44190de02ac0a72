------------------------------- MODULE AosCore -------------------------------
(***************************************************************************)
(* The service manager's start-up and shutdown (src/src/app/aoscore.cpp).  *)
(* AosCore::Init initialises every module in turn and throws at the first  *)
(* error.  AosCore::Start starts the modules that have threads in a fixed  *)
(* order; after each successful Start it pushes that module's Stop onto    *)
(* the cleanup manager, and it throws at the first failing Start.         *)
(* AosCore::Stop runs the pushed cleanups, the last pushed first (spec     *)
(* section 9: reverse order); a failing Stop is logged and the rest run.   *)
(***************************************************************************)
EXTENDS Naturals, Sequences

(* The Init calls of AosCore::Init, in order.                              *)
InitOrder ==
    <<"Logger", "Config", "CryptoProvider", "CertLoader", "IAMClientPublic",
      "NodeInfo", "IAMClientPermissions", "HostDeviceManager",
      "ResourceManager", "Database", "TrafficMonitor",
      "NetworkInterfaceManager", "NamespaceManager", "CNI", "NetworkManager",
      "ResourceUsageProvider", "ResourceMonitor",
      "DownloadServicesSpaceAllocator", "DownloadLayersSpaceAllocator",
      "ServicesSpaceAllocator", "LayersSpaceAllocator", "ImageHandler",
      "ServiceManager", "LayerManager", "Runner", "Launcher", "SMClient",
      "LogProvider", "JournalAlerts">>

(* The Start calls of AosCore::Start, in order.                            *)
StartOrder ==
    <<"Runner", "Launcher", "LayerManager", "NetworkManager",
      "ResourceMonitor", "ServiceManager", "LogProvider", "JournalAlerts",
      "SMClient">>

Components == {StartOrder[k] : k \in 1..Len(StartOrder)}

VARIABLES
    phase,     \* "created", "initializing", "initFailed", "initialized",
               \* "starting", "startFailed", "started", "stopping", "stopped"
    step,      \* the next Init or Start call, an index into its order
    active,    \* the modules whose Start succeeded and whose Stop has not run
    cleanups   \* mCleanupManager: the stack of pushed Stop calls

vars == <<phase, step, active, cleanups>>

Phases == {"created", "initializing", "initFailed", "initialized", "starting",
           "startFailed", "started", "stopping", "stopped"}

TypeOK ==
    /\ phase \in Phases
    /\ step \in 1..Len(InitOrder)
    /\ active \subseteq Components
    /\ cleanups \in Seq(Components)

Init ==
    /\ phase = "created"
    /\ step = 1
    /\ active = {}
    /\ cleanups = <<>>

-----------------------------------------------------------------------------
(* AosCore::Init: one Init call per step; the first error is thrown out of *)
(* Init and the process exits.                                             *)

InitBegin ==
    /\ phase = "created"
    /\ phase' = "initializing"
    /\ UNCHANGED <<step, active, cleanups>>

InitStep ==
    /\ phase = "initializing"
    /\ \/ /\ step < Len(InitOrder)
          /\ step' = step + 1
          /\ UNCHANGED phase
       \/ /\ step = Len(InitOrder)
          /\ phase' = "initialized"
          /\ step' = 1
       \/ /\ phase' = "initFailed"
          /\ UNCHANGED step
    /\ UNCHANGED <<active, cleanups>>

(* AosCore::Start: one module Start per step; on success its Stop is       *)
(* pushed, on error Start throws and no later module is started.           *)

StartBegin ==
    /\ phase = "initialized"
    /\ phase' = "starting"
    /\ UNCHANGED <<step, active, cleanups>>

(* Mutant: the Stop is pushed before the module's Start is checked.      *)
StartStepPushFirst ==
    /\ phase = "starting"
    /\ LET c == StartOrder[step] IN
       /\ cleanups' = Append(cleanups, c)
       /\ \/ /\ active' = active \cup {c}
             /\ IF step = Len(StartOrder)
                  THEN phase' = "started" /\ step' = 1
                  ELSE step' = step + 1 /\ UNCHANGED phase
          \/ /\ phase' = "startFailed"
             /\ UNCHANGED <<step, active>>

StartStep ==
    /\ phase = "starting"
    /\ LET c == StartOrder[step] IN
       \/ /\ active' = active \cup {c}
          /\ cleanups' = Append(cleanups, c)
          /\ IF step = Len(StartOrder)
               THEN phase' = "started" /\ step' = 1
               ELSE step' = step + 1 /\ UNCHANGED phase
       \/ /\ phase' = "startFailed"
          /\ UNCHANGED <<step, active, cleanups>>

(* AosCore::Stop, called by the application on shutdown or after a failed *)
(* Start: ExecuteCleanups pops and runs one pushed Stop per step.  A Stop  *)
(* that returns an error is logged; the module counts as stopped.          *)

StopBegin ==
    /\ phase \in {"started", "startFailed"}
    /\ phase' = "stopping"
    /\ UNCHANGED <<step, active, cleanups>>

(* Mutant: the cleanups run in the order they were pushed.                *)
ExecuteCleanupFifo ==
    /\ phase = "stopping"
    /\ cleanups # <<>>
    /\ active' = active \ {cleanups[1]}
    /\ cleanups' = Tail(cleanups)
    /\ UNCHANGED <<phase, step>>

ExecuteCleanup ==
    /\ phase = "stopping"
    /\ cleanups # <<>>
    /\ active' = active \ {cleanups[Len(cleanups)]}
    /\ cleanups' = SubSeq(cleanups, 1, Len(cleanups) - 1)
    /\ UNCHANGED <<phase, step>>

StopDone ==
    /\ phase = "stopping"
    /\ cleanups = <<>>
    /\ phase' = "stopped"
    /\ UNCHANGED <<step, active, cleanups>>

(* The process exits after a failed Init or a completed Stop.              *)
Terminated == phase \in {"initFailed", "stopped"} /\ UNCHANGED vars

Next ==
    \/ InitBegin \/ InitStep \/ StartBegin \/ StartStep
    \/ StopBegin \/ ExecuteCleanup \/ StopDone \/ Terminated

Spec == Init /\ [][Next]_vars

-----------------------------------------------------------------------------
(* At every moment, through a failed Start and through Stop, the running   *)
(* modules are the first k of the start order for some k: a module is only *)
(* running while every module started before it runs.  In particular the   *)
(* Launcher never runs while the Runner it calls is stopped (Runner::Stop  *)
(* resets the systemd connection StartInstance uses).                      *)
RunningIsPrefix ==
    \E k \in 0..Len(StartOrder) :
        active = {StartOrder[j] : j \in 1..k}

(* Every pending Stop on the cleanup stack belongs to a running module,    *)
(* and every running module has exactly one: AosCore::Start pushes a       *)
(* module's cleanup only after its Start succeeded, and Stop pops each     *)
(* one once.  A Stop pushed for a module whose Start failed would be run   *)
(* by AosCore::Stop on a module that never started.                        *)
StopsOfRunning ==
    /\ {cleanups[j] : j \in 1..Len(cleanups)} = active
    /\ \A j1, j2 \in 1..Len(cleanups) : cleanups[j1] = cleanups[j2] => j1 = j2

=============================================================================
