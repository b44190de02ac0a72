---------------------------- MODULE AosCoreProofs ----------------------------
(***************************************************************************)
(* Proof that AosCore's running modules are always a prefix of the start   *)
(* order.  RunningIsPrefix alone is not inductive: ExecuteCleanup removes   *)
(* the module on top of the cleanup stack, so the stack must itself be the *)
(* started prefix, pushed in order, and StartStep must push exactly the    *)
(* next module of the order.                                               *)
(***************************************************************************)
EXTENDS AosCore, TLAPS

N == Len(StartOrder)

(* The first k modules of the start order, as the cleanup stack holds them *)
(* and as a set.                                                           *)
Pushed(k)  == SubSeq(StartOrder, 1, k)
Running(k) == {StartOrder[j] : j \in 1..k}

(* The inductive invariant: the cleanup stack is the started prefix of    *)
(* the start order, its length tracks Start's position, and nothing is      *)
(* pushed before Start begins.                                             *)
IInv ==
    /\ TypeOK
    /\ \E k \in 0..N : cleanups = Pushed(k) /\ active = Running(k)
    /\ phase = "starting" => step \in 1..N /\ Len(cleanups) = step - 1
    /\ phase \in {"created", "initializing", "initFailed", "initialized"}
         => cleanups = <<>>
    /\ phase = "initialized" => step = 1

(* The lengths of AosCore::Init's and AosCore::Start's module lists, and  *)
(* the length of each prefix of the start order.                           *)
LEMMA OrderFacts ==
    /\ N = 9 /\ Len(InitOrder) = 29
    /\ StartOrder \in Seq(Components)
    /\ \A k \in 0..N : Len(Pushed(k)) = k
BY DEF N, Pushed, StartOrder, InitOrder, Components

(* The start order names each module once.                                *)
LEMMA StartOrderDistinct ==
    \A i, j \in 1..N : StartOrder[i] = StartOrder[j] => i = j
BY DEF N, StartOrder

(* Every prefix of the start order is a stack of modules.                  *)
LEMMA PrefixTyped ==
    \A j \in 0..N : Pushed(j) \in Seq(Components) /\ Running(j) \subseteq Components
<1> SUFFICES ASSUME NEW j \in 0..N
             PROVE  Pushed(j) \in Seq(Components) /\ Running(j) \subseteq Components
  OBVIOUS
<1>1. \A i \in 1..j : StartOrder[i] \in Components
  BY DEF Components, N
<1>2. Pushed(j) = [i \in 1..j |-> StartOrder[i]]
  BY OrderFacts DEF Pushed
<1> QED
  BY <1>1, <1>2 DEF Running

(* Pushing the next module of the order extends the prefix by one.         *)
LEMMA PushNext ==
    ASSUME NEW k \in 0..N - 1
    PROVE  /\ Append(Pushed(k), StartOrder[k + 1]) = Pushed(k + 1)
           /\ Running(k) \cup {StartOrder[k + 1]} = Running(k + 1)
BY OrderFacts DEF Pushed, Running

(* Popping the top of the stack shortens the prefix by one.                *)
LEMMA PopTop ==
    ASSUME NEW k \in 1..N
    PROVE  /\ SubSeq(Pushed(k), 1, Len(Pushed(k)) - 1) = Pushed(k - 1)
           /\ Pushed(k)[Len(Pushed(k))] = StartOrder[k]
           /\ Running(k) \ {StartOrder[k]} = Running(k - 1)
<1>1. Len(Pushed(k)) = k
  BY DEF Pushed, N, StartOrder
<1>2. SubSeq(Pushed(k), 1, k - 1) = Pushed(k - 1)
  <2>1. DOMAIN SubSeq(Pushed(k), 1, k - 1) = 1..k - 1
    BY OrderFacts DEF Pushed
  <2>2. \A j \in 1..k - 1 : SubSeq(Pushed(k), 1, k - 1)[j] = StartOrder[j]
    BY OrderFacts DEF Pushed
  <2> QED
    BY <2>1, <2>2, OrderFacts DEF Pushed
<1>4. Pushed(k)[k] = StartOrder[k]
  BY OrderFacts DEF Pushed
<1>3. Running(k) \ {StartOrder[k]} = Running(k - 1)
  <2>1. ASSUME NEW j \in 1..k - 1 PROVE StartOrder[j] # StartOrder[k]
    <3>1. j \in 1..N /\ k \in 1..N /\ j # k
      BY OrderFacts
    <3> QED
      BY <3>1, StartOrderDistinct
  <2> QED
    BY <2>1 DEF Running
<1> QED
  BY <1>1, <1>2, <1>3, <1>4


(* AosCore starts with nothing started and nothing pushed.                 *)
LEMMA InitIInv == Init => IInv
<1> SUFFICES ASSUME Init PROVE IInv
  OBVIOUS
<1>1. Pushed(0) = <<>> /\ Running(0) = {}
  BY DEF Pushed, Running
<1>2. TypeOK
  BY OrderFacts DEF Init, TypeOK, Phases
<1> QED
  BY <1>1, <1>2, OrderFacts DEF Init, IInv

(* Every Init, Start and Stop step keeps IInv.                             *)
LEMMA NextIInv == IInv /\ [Next]_vars => IInv'
<1> SUFFICES ASSUME IInv, [Next]_vars PROVE IInv'
  OBVIOUS
<1>0. PICK k \in 0..N : cleanups = Pushed(k) /\ active = Running(k)
  BY DEF IInv
<1> USE OrderFacts
<1>1. CASE UNCHANGED <<active, cleanups>>
             /\ (\/ InitBegin \/ InitStep \/ StartBegin \/ StopBegin
                 \/ StopDone \/ Terminated \/ UNCHANGED vars
                 \/ (StartStep /\ phase' = "startFailed" /\ UNCHANGED step))
  <2>1. \E k2 \in 0..N : cleanups' = Pushed(k2) /\ active' = Running(k2)
    BY <1>0, <1>1
  <2>2. TypeOK'
    <3>1. active' \subseteq Components /\ cleanups' \in Seq(Components)
      BY <1>1 DEF IInv, TypeOK
    <3>2. step' \in 1..Len(InitOrder)
      <4>1. CASE InitStep
        BY <4>1 DEF InitStep, IInv, TypeOK, InitOrder
      <4>2. CASE ~InitStep
        BY <1>1, <4>2 DEF InitBegin, StartBegin, StopBegin, StopDone,
           Terminated, vars, StartStep, IInv, TypeOK
      <4> QED
        BY <4>1, <4>2
    <3>3. phase' \in Phases
      BY <1>1 DEF InitBegin, InitStep, StartBegin, StopBegin, StopDone,
         Terminated, vars, StartStep, IInv, TypeOK, Phases
    <3> QED
      BY <3>1, <3>2, <3>3 DEF TypeOK
  <2>3. (phase = "starting" => step \in 1..N /\ Len(cleanups) = step - 1)'
    BY <1>1 DEF InitBegin, InitStep, StartBegin, StopBegin, StopDone,
       Terminated, vars, StartStep, IInv
  <2>4. (phase \in {"created", "initializing", "initFailed", "initialized"}
           => cleanups = <<>>)'
    BY <1>1 DEF InitBegin, InitStep, StartBegin, StopBegin, StopDone,
       Terminated, vars, StartStep, IInv
  <2>5. (phase = "initialized" => step = 1)'
    BY <1>1 DEF InitBegin, InitStep, StartBegin, StopBegin, StopDone,
       Terminated, vars, StartStep, IInv
  <2> QED
    BY <2>1, <2>2, <2>3, <2>4, <2>5 DEF IInv
<1>3. CASE /\ StartStep
           /\ active' = active \cup {StartOrder[step]}
           /\ cleanups' = Append(cleanups, StartOrder[step])
           /\ IF step = Len(StartOrder)
                THEN phase' = "started" /\ step' = 1
                ELSE step' = step + 1 /\ UNCHANGED phase
  <2>1. phase = "starting" /\ step \in 1..N /\ k = step - 1
    <3>1. phase = "starting" /\ step \in 1..N /\ Len(cleanups) = step - 1
      BY <1>3 DEF StartStep, IInv
    <3>2. Len(cleanups) = k
      BY <1>0
    <3> QED
      BY <3>1, <3>2
  <2>2. k \in 0..N - 1
    BY <2>1
  <2>3. cleanups' = Pushed(k + 1) /\ active' = Running(k + 1)
    <3>1. StartOrder[step] = StartOrder[k + 1]
      BY <2>1
    <3>2. /\ Append(Pushed(k), StartOrder[k + 1]) = Pushed(k + 1)
          /\ Running(k) \cup {StartOrder[k + 1]} = Running(k + 1)
      BY <2>2, PushNext
    <3> QED
      BY <1>3, <1>0, <3>1, <3>2
  <2>4. Len(cleanups') = k + 1
    BY <2>2, <2>3 DEF Pushed, N
  <2>5. cleanups' \in Seq(Components) /\ active' \subseteq Components
    <3>1. k + 1 \in 0..N
      BY <2>2
    <3>2. Pushed(k + 1) \in Seq(Components) /\ Running(k + 1) \subseteq Components
      BY <3>1, PrefixTyped
    <3> QED
      BY <2>3, <3>2
  <2>6. (phase \in Phases /\ step \in 1..Len(InitOrder))'
    BY <1>3, <2>1 DEF Phases, N, InitOrder, StartOrder
  <2>7. (phase = "starting" => step \in 1..N /\ Len(cleanups) = step - 1)'
    BY <1>3, <2>1, <2>4 DEF N
  <2>8. \E k2 \in 0..N : cleanups' = Pushed(k2) /\ active' = Running(k2)
    BY <2>2, <2>3
  <2>9. /\ (phase \in {"created", "initializing", "initFailed", "initialized"}
            => cleanups = <<>>)'
        /\ (phase = "initialized" => step = 1)'
    BY <1>3, <2>1
  <2> QED
    BY <2>5, <2>6, <2>7, <2>8, <2>9 DEF IInv, TypeOK
<1>4. CASE ExecuteCleanup
  <2>1. k \in 1..N
    BY <1>4, <1>0 DEF ExecuteCleanup, Pushed
  <2>2. cleanups' = Pushed(k - 1) /\ active' = Running(k - 1)
    BY <1>4, <1>0, <2>1, PopTop DEF ExecuteCleanup
  <2>3. cleanups' \in Seq(Components) /\ active' \subseteq Components
    <3>1. k - 1 \in 0..N
      BY <2>1
    <3>2. Pushed(k - 1) \in Seq(Components) /\ Running(k - 1) \subseteq Components
      BY <3>1, PrefixTyped
    <3> QED
      BY <2>2, <3>2
  <2>4. \E k2 \in 0..N : cleanups' = Pushed(k2) /\ active' = Running(k2)
    BY <2>1, <2>2
  <2>5. /\ phase' = "stopping" /\ UNCHANGED step
        /\ (phase \in Phases /\ step \in 1..Len(InitOrder))'
    BY <1>4 DEF ExecuteCleanup, IInv, TypeOK
  <2> QED
    BY <2>3, <2>4, <2>5 DEF IInv, TypeOK
<1> QED
  BY <1>1, <1>3, <1>4 DEF Next, StartStep, InitBegin, InitStep, StartBegin,
     StopBegin, StopDone, Terminated, vars

(* IInv holds in every reachable state of AosCore.                         *)
THEOREM AosCoreIInvariant == Spec => []IInv
BY InitIInv, NextIInv, PTL DEF Spec

(* Through any failure of Init or Start and through Stop, the modules      *)
(* whose Start succeeded and whose Stop has not run are the first k of     *)
(* AosCore::Start's order, for every outcome of every module call.         *)
THEOREM PrefixInvariant == Spec => []RunningIsPrefix
<1>1. IInv => RunningIsPrefix
  BY DEF IInv, RunningIsPrefix, Running, N
<1> QED
  BY <1>1, AosCoreIInvariant, PTL

(* The phase, the start step, the running set and the cleanup stack of     *)
(* AosCore::Init, Start and Stop keep their types for every module call    *)
(* outcome: the step index never leaves the range of InitOrder.          *)
THEOREM TypeCorrect == Spec => []TypeOK
<1>1. IInv => TypeOK
  BY DEF IInv
<1> QED
  BY <1>1, AosCoreIInvariant, PTL

(* A prefix of the start order, read as the cleanup stack, holds exactly   *)
(* the modules of that prefix, each once.                                  *)
LEMMA PushedStops ==
    ASSUME NEW k \in 0..N
    PROVE  /\ {Pushed(k)[j] : j \in 1..Len(Pushed(k))} = Running(k)
           /\ \A j1, j2 \in 1..Len(Pushed(k)) :
                 Pushed(k)[j1] = Pushed(k)[j2] => j1 = j2
<1>1. Len(Pushed(k)) = k /\ \A j \in 1..k : Pushed(k)[j] = StartOrder[j]
  BY OrderFacts DEF Pushed
<1>2. {Pushed(k)[j] : j \in 1..Len(Pushed(k))} = Running(k)
  BY <1>1 DEF Running
<1>3. ASSUME NEW j1 \in 1..k, NEW j2 \in 1..k, Pushed(k)[j1] = Pushed(k)[j2]
      PROVE  j1 = j2
  <2>1. j1 \in 1..N /\ j2 \in 1..N /\ StartOrder[j1] = StartOrder[j2]
    BY <1>1, <1>3, OrderFacts
  <2> QED
    BY <2>1, StartOrderDistinct
<1> QED
  BY <1>1, <1>2, <1>3

(* AosCore::Start pushes a module's Stop only once its Start succeeded:   *)
(* in every reachable state the cleanup stack holds one pending Stop for   *)
(* each running module and nothing else, through any failed Start and     *)
(* through Stop.                                                           *)
THEOREM StopsInvariant == Spec => []StopsOfRunning
<1>1. IInv => StopsOfRunning
  <2> SUFFICES ASSUME IInv PROVE StopsOfRunning
    OBVIOUS
  <2>1. PICK k \in 0..N : cleanups = Pushed(k) /\ active = Running(k)
    BY DEF IInv
  <2> QED
    BY <2>1, PushedStops DEF StopsOfRunning
<1> QED
  BY <1>1, AosCoreIInvariant, PTL

=============================================================================
