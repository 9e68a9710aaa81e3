----------------------- MODULE TaskScheduler_proofs -----------------------
(***************************************************************************)
(* Theorems about TaskScheduler for every graph, every cap and every set   *)
(* of tolerant and stubborn tasks.  SchedulerInv is inductive; one lemma   *)
(* per part of it shows that every step keeps the part.                    *)
(***************************************************************************)
EXTENDS TaskScheduler, FiniteSetTheorems, TLAPS

\* What the assumptions say of single tasks, tools and indices.
LEMMA Constants ==
  /\ \A t \in Tasks : Weight[t] \in Nat /\ ToolOf[t] \in Tools
  /\ \A k \in Tools : ToolCap[k] \in Nat /\ ToolCap[k] > 0
  /\ ToolCap \in [Tools -> Nat]
  /\ GlobalCap \in Nat /\ GlobalCap > 0
  /\ MaxCancels \in Nat
  /\ IsFiniteSet(Tasks)
  /\ \A t \in Tasks : /\ Deps[t] \in Seq(Tasks)
                      /\ Len(Deps[t]) \in Nat
                      /\ DOMAIN Deps[t] = 1..Len(Deps[t])
                      /\ \A i \in DOMAIN Deps[t] : Deps[t][i] \in Tasks
  /\ \A i \in DOMAIN Order : Order[i] \in Tasks
  BY SpecAssumption, GraphAssumption

LEMMA InitEstablishes == Init => SchedulerInv
  <1> SUFFICES ASSUME Init PROVE SchedulerInv
    OBVIOUS
  <1> USE Constants DEF Init
  <1>1. TypeOK
    BY DEF TypeOK, Drivers, Points, Statuses, Outcomes
  <1>2. StatusOfPoint
    BY DEF StatusOfPoint
  <1>3. WalkedDependencies
    BY DEF WalkedDependencies
  <1>4. GatherKnowsTasks /\ DriverKnowsGather
    BY DEF GatherKnowsTasks, DriverKnowsGather
  <1>5. PermitConservation
    <2>1. GlobalHolders = {} /\ \A k \in Tools : ToolHolders(k) = {}
      BY DEF GlobalHolders, ToolHolders
    <2>2. Cardinality({}) = 0
      BY FS_EmptySet
    <2>3. globalFree + Cardinality(GlobalHolders) = GlobalCap
      BY <2>1, <2>2
    <2>4. ASSUME NEW k \in Tools
          PROVE  toolFree[k] + Cardinality(ToolHolders(k)) = ToolCap[k]
      <3>1. Cardinality(ToolHolders(k)) = 0
        BY <2>1, <2>2
      <3>2. toolFree[k] = ToolCap[k] /\ ToolCap[k] \in Nat
        OBVIOUS
      <3>3. QED
        BY <3>1, <3>2
    <2>5. QED
      BY <2>3, <2>4 DEF PermitConservation
  <1>6. StartedAfterDependencies
    BY DEF StartedAfterDependencies
  <1>7. QED
    BY <1>1, <1>2, <1>3, <1>4, <1>5, <1>6 DEF SchedulerInv

\* A helper stated once: whatever way a task ends, its handle gets an outcome
\* other than "none" and the gather future keeps its type.
LEMMA EndType ==
  ASSUME TypeOK, NEW t \in Tasks, NEW result \in Outcomes \ {"none"}, End(t, result)
  PROVE  /\ pc' \in [Tasks -> Points]
         /\ outcome' \in [Tasks -> Outcomes]
         /\ mustCancel' \subseteq Tasks
         /\ gather' \in {"none", "ok", "error", "cancelled"}
         /\ driver' = driver /\ cancels' = cancels /\ awaiting' = awaiting
         /\ \A u \in Tasks : pc'[u] = "deps" => pc[u] = "deps"
  BY DEF End, GatherAfter, TypeOK, Points, Outcomes, driverVars

LEMMA LeaveType ==
  ASSUME TypeOK, NEW t \in Tasks, NEW final \in Statuses,
         NEW result \in Outcomes \ {"none"}, Leave(t, final, result)
  PROVE  TypeOK'
  <1>1. /\ pc' \in [Tasks -> Points]
        /\ outcome' \in [Tasks -> Outcomes]
        /\ mustCancel' \subseteq Tasks
        /\ gather' \in {"none", "ok", "error", "cancelled"}
        /\ driver' = driver /\ cancels' = cancels /\ awaiting' = awaiting
        /\ \A u \in Tasks : pc'[u] = "deps" => pc[u] = "deps"
    BY EndType DEF Leave
  <1>2. /\ status' \in [Tasks -> Statuses]
        /\ completedWeight' \in Nat
        /\ globalFree' \in Nat
        /\ toolFree' \in [Tools -> Nat]
    BY Constants DEF Leave, Release, TypeOK
  <1>3. QED
    BY <1>1, <1>2 DEF TypeOK

LEMMA AbortType ==
  ASSUME TypeOK, NEW t \in Tasks, NEW result \in Outcomes \ {"none"}, Abort(t, result)
  PROVE  TypeOK'
  <1>1. /\ pc' \in [Tasks -> Points]
        /\ outcome' \in [Tasks -> Outcomes]
        /\ mustCancel' \subseteq Tasks
        /\ gather' \in {"none", "ok", "error", "cancelled"}
        /\ driver' = driver /\ cancels' = cancels /\ awaiting' = awaiting
        /\ \A u \in Tasks : pc'[u] = "deps" => pc[u] = "deps"
    BY EndType DEF Abort
  <1>2. QED
    BY <1>1 DEF TypeOK, Abort, permitVars

LEMMA TypeInductive ==
  ASSUME TypeOK, [Next]_vars
  PROVE  TypeOK'
  <1> USE Constants
  <1>1. CASE DriverStep
    BY <1>1 DEF DriverStep, Reject, Authorize, GatherCompletes, GatherRaises, Drained,
                Cancellable, TypeOK, Drivers, Points, permitVars
  <1>2. CASE CancelGather \/ CancelDrain
    BY <1>2 DEF CancelGather, CancelDrain, FirstLive, Cancellable, TypeOK, permitVars
  <1>3. ASSUME NEW t \in Tasks, TaskStep(t)
        PROVE  TypeOK'
    <2>1. CASE AwaitDependency(t)
      <3>1. PICK i \in FirstObstacle(t) : awaiting' = [awaiting EXCEPT ![t] = i]
        BY <2>1 DEF AwaitDependency
      <3>2. i \in DOMAIN Deps[t] /\ i \in Nat \ {0}
        BY <3>1 DEF FirstObstacle, Obstacles, TypeOK
      <3>3. QED
        BY <2>1, <3>1, <3>2 DEF AwaitDependency, TypeOK, Points, driverVars, permitVars
    <2>2. CASE DependencyRaises(t)
      <3>1. PICK i \in FirstObstacle(t) :
              outcome[Deps[t][i]] \in {"error", "cancelled"} /\ Abort(t, outcome[Deps[t][i]])
        BY <2>2 DEF DependencyRaises
      <3>2. QED
        BY <3>1, AbortType DEF Outcomes
    <2>3. CASE Start(t)
      BY <2>3 DEF Start, TypeOK, Points, Statuses, driverVars, permitVars
    <2>4. CASE AcquireGlobal(t) \/ AcquireTool(t) \/ AcquireRate(t)
      <3>1. pc' \in [Tasks -> Points] /\ \A u \in Tasks : pc'[u] = "deps" => pc[u] = "deps"
        BY <2>4 DEF AcquireGlobal, AcquireTool, AcquireRate, TypeOK, Points
      <3>2. globalFree' \in Nat
        BY <2>4 DEF AcquireGlobal, AcquireTool, AcquireRate, TypeOK, permitVars
      <3>3. toolFree' \in [Tools -> Nat]
        BY <2>4 DEF AcquireGlobal, AcquireTool, AcquireRate, TypeOK, permitVars
      <3>4. QED
        BY <2>4, <3>1, <3>2, <3>3
        DEF AcquireGlobal, AcquireTool, AcquireRate, TypeOK, driverVars
    <2>5. CASE Complete(t)
      BY <2>5, LeaveType DEF Complete, Statuses, Outcomes
    <2>6. CASE Fail(t)
      BY <2>6, LeaveType DEF Fail, Statuses, Outcomes
    <2>7. CASE Swallow(t)
      BY <2>7 DEF Swallow, TypeOK, permitVars
    <2>8. CASE Cancel(t)
      BY <2>8, LeaveType DEF Cancel, Statuses, Outcomes
    <2>9. CASE CancelEarly(t)
      BY <2>9, AbortType DEF CancelEarly, Outcomes
    <2>10. QED
      BY <1>3, <2>1, <2>2, <2>3, <2>4, <2>5, <2>6, <2>7, <2>8, <2>9 DEF TaskStep
  <1>4. CASE Terminated \/ UNCHANGED vars
    BY <1>4 DEF Terminated, vars, TypeOK
  <1>5. QED
    BY <1>1, <1>2, <1>3, <1>4 DEF Next

\* Type correctness of every reachable state of the scheduler.
THEOREM TypeCorrect == Spec => []TypeOK
  <1>1. Init => TypeOK
    BY InitEstablishes DEF SchedulerInv
  <1>2. TypeOK /\ [Next]_vars => TypeOK'
    BY TypeInductive
  <1>3. QED
    BY <1>1, <1>2, PTL DEF Spec

-----------------------------------------------------------------------------
\* Every step of a task is an end of it, before or inside the try block, or
\* leaves all handles alone; the step that ends a task finds it not done.
LEMMA StepShape ==
  ASSUME TypeOK, StatusOfPoint, NEW t \in Tasks, TaskStep(t)
  PROVE  \/ \E final \in Counted, result \in Outcomes \ {"none"} :
              Leave(t, final, result) /\ pc[t] \in {"global", "tool", "rate", "run"}
         \/ \E result \in {"error", "cancelled"} :
              Abort(t, result) /\ pc[t] \in {"new", "deps"}
         \/ AwaitDependency(t) \/ Start(t) \/ AcquireGlobal(t) \/ AcquireTool(t)
         \/ AcquireRate(t) \/ Swallow(t)
  <1>1. CASE DependencyRaises(t)
    BY <1>1 DEF DependencyRaises, InLoop
  <1>2. CASE Complete(t)
    BY <1>2 DEF Complete, Counted, Outcomes
  <1>3. CASE Fail(t)
    BY <1>3 DEF Fail, Counted, Outcomes
  <1>4. CASE Cancel(t)
    BY <1>4 DEF Cancel, Counted, Outcomes
  <1>5. CASE CancelEarly(t)
    BY <1>5 DEF CancelEarly
  <1>6. QED
    BY <1>1, <1>2, <1>3, <1>4, <1>5 DEF TaskStep

LEMMA HandlesAreFinal ==
  ASSUME TypeOK, StatusOfPoint, [Next]_vars, NEW u \in Tasks, outcome[u] # "none"
  PROVE  outcome'[u] = outcome[u] /\ status'[u] = status[u] /\ pc'[u] = pc[u]
  <1>0. pc[u] = "done"
    BY DEF StatusOfPoint
  <1>1. CASE DriverStep
    BY <1>0, <1>1 DEF DriverStep, Reject, Authorize, GatherCompletes, GatherRaises, Drained,
                      StatusOfPoint
  <1>2. CASE CancelGather \/ CancelDrain
    BY <1>2 DEF CancelGather, CancelDrain
  <1>3. ASSUME NEW t \in Tasks, TaskStep(t)
        PROVE  outcome'[u] = outcome[u] /\ status'[u] = status[u] /\ pc'[u] = pc[u]
    <2>1. ASSUME NEW final \in Counted, NEW result \in Outcomes \ {"none"},
                 Leave(t, final, result), pc[t] \in {"global", "tool", "rate", "run"}
          PROVE  outcome'[u] = outcome[u] /\ status'[u] = status[u] /\ pc'[u] = pc[u]
      BY <1>0, <2>1 DEF Leave, End, TypeOK
    <2>2. ASSUME NEW result \in {"error", "cancelled"},
                 Abort(t, result), pc[t] \in {"new", "deps"}
          PROVE  outcome'[u] = outcome[u] /\ status'[u] = status[u] /\ pc'[u] = pc[u]
      BY <1>0, <2>2 DEF Abort, End, TypeOK
    <2>3. CASE AwaitDependency(t) \/ Start(t)
      BY <1>0, <2>3 DEF AwaitDependency, Start, InLoop, TypeOK
    <2>4. CASE AcquireGlobal(t) \/ AcquireTool(t) \/ AcquireRate(t) \/ Swallow(t)
      BY <1>0, <2>4 DEF AcquireGlobal, AcquireTool, AcquireRate, Swallow, TypeOK
    <2>5. QED
      BY <1>3, <2>1, <2>2, <2>3, <2>4, StepShape
  <1>4. CASE Terminated \/ UNCHANGED vars
    BY <1>4 DEF Terminated, vars
  <1>5. QED
    BY <1>1, <1>2, <1>3, <1>4 DEF Next

LEMMA StatusInductive ==
  ASSUME TypeOK, StatusOfPoint, [Next]_vars
  PROVE  StatusOfPoint'
  <1>1. CASE DriverStep
    BY <1>1 DEF DriverStep, Reject, Authorize, GatherCompletes, GatherRaises, Drained,
                StatusOfPoint, TypeOK
  <1>2. CASE CancelGather \/ CancelDrain
    BY <1>2 DEF CancelGather, CancelDrain, StatusOfPoint
  <1>3. ASSUME NEW t \in Tasks, TaskStep(t)
        PROVE  StatusOfPoint'
    <2>1. ASSUME NEW final \in Counted, NEW result \in Outcomes \ {"none"},
                 Leave(t, final, result), pc[t] \in {"global", "tool", "rate", "run"}
          PROVE  StatusOfPoint'
      BY <2>1 DEF Leave, End, TypeOK, StatusOfPoint, driverVars
    <2>2. ASSUME NEW result \in {"error", "cancelled"},
                 Abort(t, result), pc[t] \in {"new", "deps"}
          PROVE  StatusOfPoint'
      BY <2>2 DEF Abort, End, TypeOK, StatusOfPoint, driverVars
    <2>3. CASE AwaitDependency(t)
      BY <2>3 DEF AwaitDependency, InLoop, TypeOK, StatusOfPoint, driverVars
    <2>4. CASE Start(t)
      BY <2>4 DEF Start, InLoop, TypeOK, StatusOfPoint, driverVars
    <2>5. CASE AcquireGlobal(t) \/ AcquireTool(t) \/ AcquireRate(t)
      BY <2>5 DEF AcquireGlobal, AcquireTool, AcquireRate, TypeOK, StatusOfPoint, driverVars
    <2>6. CASE Swallow(t)
      BY <2>6 DEF Swallow, StatusOfPoint
    <2>7. QED
      BY <1>3, <2>1, <2>2, <2>3, <2>4, <2>5, <2>6, StepShape
  <1>4. CASE Terminated \/ UNCHANGED vars
    BY <1>4 DEF Terminated, vars, StatusOfPoint
  <1>5. QED
    BY <1>1, <1>2, <1>3, <1>4 DEF Next

\* A handle once seen as passed stays passed.
LEMMA PassesStays ==
  ASSUME TypeOK, StatusOfPoint, [Next]_vars, NEW t \in Tasks, NEW d \in Tasks, Passes(t, d)
  PROVE  Passes(t, d)'
  <1>1. outcome[d] # "none"
    BY DEF Passes, Returned
  <1>2. outcome'[d] = outcome[d]
    BY <1>1, HandlesAreFinal
  <1>3. QED
    BY <1>2 DEF Passes

\* When no obstacle is left, every dependency of the task is passed.
LEMMA NoObstacle ==
  ASSUME TypeOK, WalkedDependencies, NEW t \in Tasks, InLoop(t), Obstacles(t) = {}
  PROVE  \A k \in DOMAIN Deps[t] : Passes(t, Deps[t][k])
  <1> SUFFICES ASSUME NEW k \in DOMAIN Deps[t] PROVE Passes(t, Deps[t][k])
    OBVIOUS
  <1>1. CASE k < awaiting[t]
    BY <1>1 DEF WalkedDependencies, InLoop
  <1>2. CASE ~(k < awaiting[t])
    <2>1. k \in awaiting[t]..Len(Deps[t])
      BY <1>2, Constants DEF TypeOK
    <2>2. QED
      BY <2>1 DEF Obstacles
  <1>3. QED
    BY <1>1, <1>2

LEMMA WalkedInductive ==
  ASSUME TypeOK, StatusOfPoint, WalkedDependencies, [Next]_vars
  PROVE  WalkedDependencies'
  <1> SUFFICES ASSUME NEW u \in Tasks, pc'[u] \in {"absent", "new", "deps"},
                      NEW k \in DOMAIN Deps[u], k < awaiting'[u]
               PROVE  Passes(u, Deps[u][k])'
    BY DEF WalkedDependencies
  <1>0. Deps[u][k] \in Tasks
    BY Constants
  <1> SUFFICES Passes(u, Deps[u][k])
    BY <1>0, PassesStays
  <1>1. ASSUME pc[u] \in {"absent", "new", "deps"}, awaiting'[u] = awaiting[u]
        PROVE  Passes(u, Deps[u][k])
    BY <1>1 DEF WalkedDependencies
  <1>2. CASE DriverStep \/ CancelGather \/ CancelDrain
    <2>1. awaiting' = awaiting /\ pc[u] \in {"absent", "new", "deps"}
      BY <1>2 DEF DriverStep, Reject, Authorize, GatherCompletes, GatherRaises, Drained,
                  CancelGather, CancelDrain, StatusOfPoint
    <2>2. QED
      BY <2>1, <1>1
  <1>3. ASSUME NEW t \in Tasks, TaskStep(t)
        PROVE  Passes(u, Deps[u][k])
    <2>1. CASE AwaitDependency(t) /\ u = t
      <3>1. PICK i \in FirstObstacle(t) : awaiting' = [awaiting EXCEPT ![t] = i]
        BY <2>1 DEF AwaitDependency
      <3>2. awaiting'[u] = i /\ k < i
        BY <2>1, <3>1 DEF TypeOK
      <3>3. CASE k < awaiting[t]
        BY <2>1, <3>3 DEF WalkedDependencies, AwaitDependency, InLoop
      <3>4. CASE ~(k < awaiting[t])
        <4>1. k \in awaiting[t]..Len(Deps[t])
          BY <2>1, <3>4, Constants DEF TypeOK
        <4>2. k \notin Obstacles(t)
          <5>1. i \in Nat /\ k \in Nat
            BY <3>1, Constants DEF FirstObstacle, Obstacles, TypeOK
          <5>2. QED
            BY <3>1, <3>2, <5>1 DEF FirstObstacle
        <4>3. QED
          BY <2>1, <4>1, <4>2 DEF Obstacles
      <3>5. QED
        BY <3>3, <3>4
    <2>2. CASE AwaitDependency(t) /\ u # t
      <3>1. awaiting'[u] = awaiting[u] /\ pc'[u] = pc[u]
        BY <2>2 DEF AwaitDependency, TypeOK
      <3>2. QED
        BY <3>1, <1>1
    <2>3. ASSUME NEW final \in Counted, NEW result \in Outcomes \ {"none"},
                 Leave(t, final, result)
          PROVE  Passes(u, Deps[u][k])
      <3>1. awaiting' = awaiting /\ pc[u] \in {"absent", "new", "deps"}
        BY <2>3 DEF Leave, End, TypeOK
      <3>2. QED
        BY <3>1, <1>1
    <2>4. ASSUME NEW result \in {"error", "cancelled"}, Abort(t, result)
          PROVE  Passes(u, Deps[u][k])
      <3>1. awaiting' = awaiting /\ pc[u] \in {"absent", "new", "deps"}
        BY <2>4 DEF Abort, End, TypeOK
      <3>2. QED
        BY <3>1, <1>1
    <2>5. CASE Start(t) \/ AcquireGlobal(t) \/ AcquireTool(t) \/ AcquireRate(t) \/ Swallow(t)
      <3>1. awaiting' = awaiting /\ pc[u] \in {"absent", "new", "deps"}
        BY <2>5 DEF Start, AcquireGlobal, AcquireTool, AcquireRate, Swallow, TypeOK
      <3>2. QED
        BY <3>1, <1>1
    <2>6. QED
      BY <1>3, <2>1, <2>2, <2>3, <2>4, <2>5, StepShape
  <1>4. CASE Terminated \/ UNCHANGED vars
    BY <1>1, <1>4 DEF Terminated, vars
  <1>5. QED
    BY <1>2, <1>3, <1>4 DEF Next

LEMMA DependenciesInductive ==
  ASSUME TypeOK, StatusOfPoint, WalkedDependencies, StartedAfterDependencies, [Next]_vars
  PROVE  StartedAfterDependencies'
  <1> SUFFICES ASSUME NEW u \in Tasks, status'[u] # "pending", NEW k \in DOMAIN Deps[u]
               PROVE  Passes(u, Deps[u][k])'
    BY DEF StartedAfterDependencies
  <1>0. Deps[u][k] \in Tasks
    BY Constants
  <1> SUFFICES Passes(u, Deps[u][k])
    BY <1>0, PassesStays
  <1>1. ASSUME status[u] # "pending"
        PROVE  Passes(u, Deps[u][k])
    BY <1>1 DEF StartedAfterDependencies
  <1>2. CASE DriverStep \/ CancelGather \/ CancelDrain
    <2>1. status' = status
      BY <1>2 DEF DriverStep, Reject, Authorize, GatherCompletes, GatherRaises, Drained,
                  CancelGather, CancelDrain
    <2>2. QED
      BY <2>1, <1>1
  <1>3. ASSUME NEW t \in Tasks, TaskStep(t)
        PROVE  Passes(u, Deps[u][k])
    <2>1. CASE Start(t)
      <3>1. CASE u = t
        BY <2>1, <3>1, NoObstacle DEF Start
      <3>2. CASE u # t
        BY <2>1, <3>2, <1>1 DEF Start, TypeOK
      <3>3. QED
        BY <3>1, <3>2
    <2>2. ASSUME NEW final \in Counted, NEW result \in Outcomes \ {"none"},
                 Leave(t, final, result), pc[t] \in {"global", "tool", "rate", "run"}
          PROVE  Passes(u, Deps[u][k])
      <3>1. status[u] # "pending"
        BY <2>2 DEF Leave, StatusOfPoint, TypeOK
      <3>2. QED
        BY <3>1, <1>1
    <2>3. ASSUME NEW result \in {"error", "cancelled"}, Abort(t, result)
          PROVE  Passes(u, Deps[u][k])
      BY <2>3, <1>1 DEF Abort
    <2>4. CASE AwaitDependency(t) \/ AcquireGlobal(t) \/ AcquireTool(t) \/ AcquireRate(t)
               \/ Swallow(t)
      BY <2>4, <1>1 DEF AwaitDependency, AcquireGlobal, AcquireTool, AcquireRate, Swallow
    <2>5. QED
      BY <1>3, <2>1, <2>2, <2>3, <2>4, StepShape
  <1>4. CASE Terminated \/ UNCHANGED vars
    BY <1>1, <1>4 DEF Terminated, vars
  <1>5. QED
    BY <1>2, <1>3, <1>4 DEF Next

-----------------------------------------------------------------------------
(* Permits.  Every step adds at most one task to the holders of a permit, or *)
(* removes one, and moves the semaphore the other way.                       *)

LEMMA HoldersFinite ==
  /\ IsFiniteSet(GlobalHolders) /\ Cardinality(GlobalHolders) \in Nat
  /\ \A k : IsFiniteSet(ToolHolders(k)) /\ Cardinality(ToolHolders(k)) \in Nat
  <1>1. GlobalHolders \in SUBSET Tasks /\ \A k : ToolHolders(k) \in SUBSET Tasks
    BY DEF GlobalHolders, ToolHolders
  <1>2. \A S \in SUBSET Tasks : IsFiniteSet(S)
    BY Constants, FS_Subset
  <1>3. QED
    BY <1>1, <1>2, FS_CardinalityType

LEMMA PermitsUnmoved ==
  ASSUME PermitConservation, UNCHANGED permitVars,
         GlobalHolders' = GlobalHolders, \A k \in Tools : ToolHolders(k)' = ToolHolders(k)
  PROVE  PermitConservation'
  BY DEF PermitConservation, permitVars

\* Leaving the try block gives back exactly the permits the task holds.
LEMMA LeaveKeepsPermits ==
  ASSUME TypeOK, PermitConservation, NEW t \in Tasks, NEW final, NEW result,
         Leave(t, final, result)
  PROVE  PermitConservation'
  <1>1. GlobalHolders' = GlobalHolders \ {t}
    BY DEF Leave, End, GlobalHolders, TypeOK
  <1>2. \A k \in Tools : ToolHolders(k)' = ToolHolders(k) \ {t}
    BY DEF Leave, End, ToolHolders, TypeOK
  <1>3. (globalFree + Cardinality(GlobalHolders) = GlobalCap)'
    <2>1. Cardinality(GlobalHolders \ {t}) =
            IF t \in GlobalHolders THEN Cardinality(GlobalHolders) - 1
                                   ELSE Cardinality(GlobalHolders)
      BY HoldersFinite, FS_RemoveElement
    <2>2. globalFree' = IF t \in GlobalHolders THEN globalFree + 1 ELSE globalFree
      BY DEF Leave, Release
    <2>3. globalFree \in Nat /\ globalFree + Cardinality(GlobalHolders) = GlobalCap
      BY DEF TypeOK, PermitConservation
    <2>4. QED
      BY <1>1, <2>1, <2>2, <2>3, HoldersFinite
  <1>4. ASSUME NEW k \in Tools
        PROVE  (toolFree[k] + Cardinality(ToolHolders(k)) = ToolCap[k])'
    <2>1. Cardinality(ToolHolders(k) \ {t}) =
            IF t \in ToolHolders(k) THEN Cardinality(ToolHolders(k)) - 1
                                    ELSE Cardinality(ToolHolders(k))
      BY HoldersFinite, FS_RemoveElement
    <2>2. toolFree'[k] = IF t \in ToolHolders(k) THEN toolFree[k] + 1 ELSE toolFree[k]
      <3>1. t \in ToolHolders(k) <=> (k = ToolOf[t] /\ t \in ToolHolders(ToolOf[t]))
        BY DEF ToolHolders
      <3>2. QED
        BY <3>1, Constants DEF Leave, Release, TypeOK
    <2>3. toolFree[k] \in Nat /\ toolFree[k] + Cardinality(ToolHolders(k)) = ToolCap[k]
      BY DEF TypeOK, PermitConservation
    <2>4. ToolHolders(k)' = ToolHolders(k) \ {t}
      BY <1>2
    <2>5. QED
      BY <2>1, <2>2, <2>3, <2>4, HoldersFinite
  <1>5. QED
    BY <1>3, <1>4 DEF PermitConservation

LEMMA AcquireGlobalKeepsPermits ==
  ASSUME TypeOK, PermitConservation, NEW t \in Tasks, AcquireGlobal(t)
  PROVE  PermitConservation'
  <1>1. t \notin GlobalHolders /\ GlobalHolders' = GlobalHolders \cup {t}
    BY DEF AcquireGlobal, GlobalHolders, TypeOK
  <1>2. \A k \in Tools : ToolHolders(k)' = ToolHolders(k)
    BY DEF AcquireGlobal, ToolHolders, TypeOK
  <1>3. Cardinality(GlobalHolders \cup {t}) = Cardinality(GlobalHolders) + 1
    BY <1>1, HoldersFinite, FS_AddElement
  <1>4. globalFree' = globalFree - 1 /\ toolFree' = toolFree
    BY DEF AcquireGlobal
  <1>5. globalFree \in Nat /\ globalFree + Cardinality(GlobalHolders) = GlobalCap
    BY DEF TypeOK, PermitConservation
  <1>6. (globalFree + Cardinality(GlobalHolders) = GlobalCap)'
    BY <1>1, <1>3, <1>4, <1>5, HoldersFinite
  <1>7. QED
    BY <1>2, <1>4, <1>6 DEF PermitConservation

LEMMA AcquireToolKeepsPermits ==
  ASSUME TypeOK, PermitConservation, NEW t \in Tasks, AcquireTool(t)
  PROVE  PermitConservation'
  <1>1. GlobalHolders' = GlobalHolders /\ globalFree' = globalFree
    BY DEF AcquireTool, GlobalHolders, TypeOK
  <1>2. ASSUME NEW k \in Tools
        PROVE  (toolFree[k] + Cardinality(ToolHolders(k)) = ToolCap[k])'
    <2>1. toolFree[k] \in Nat /\ toolFree[k] + Cardinality(ToolHolders(k)) = ToolCap[k]
      BY DEF TypeOK, PermitConservation
    <2>2. CASE k = ToolOf[t]
      <3>1. t \notin ToolHolders(k) /\ ToolHolders(k)' = ToolHolders(k) \cup {t}
        BY <2>2 DEF AcquireTool, ToolHolders, TypeOK
      <3>2. Cardinality(ToolHolders(k) \cup {t}) = Cardinality(ToolHolders(k)) + 1
        BY <3>1, HoldersFinite, FS_AddElement
      <3>3. toolFree'[k] = toolFree[k] - 1
        BY <2>2 DEF AcquireTool, TypeOK
      <3>4. QED
        BY <2>1, <3>1, <3>2, <3>3, HoldersFinite
    <2>3. CASE k # ToolOf[t]
      <3>1. ToolHolders(k)' = ToolHolders(k)
        BY <2>3 DEF AcquireTool, ToolHolders, TypeOK
      <3>2. toolFree'[k] = toolFree[k]
        BY <2>3 DEF AcquireTool, TypeOK
      <3>3. QED
        BY <2>1, <3>1, <3>2
    <2>4. QED
      BY <2>2, <2>3
  <1>3. QED
    BY <1>1, <1>2 DEF PermitConservation

LEMMA PermitsInductive ==
  ASSUME TypeOK, StatusOfPoint, PermitConservation, [Next]_vars
  PROVE  PermitConservation'
  <1>1. ASSUME NEW t \in Tasks, TaskStep(t)
        PROVE  PermitConservation'
    <2>1. ASSUME NEW final \in Counted, NEW result \in Outcomes \ {"none"},
                 Leave(t, final, result)
          PROVE  PermitConservation'
      BY <2>1, LeaveKeepsPermits
    <2>2. ASSUME NEW result \in {"error", "cancelled"},
                 Abort(t, result), pc[t] \in {"new", "deps"}
          PROVE  PermitConservation'
      BY <2>2, PermitsUnmoved DEF Abort, End, GlobalHolders, ToolHolders, TypeOK
    <2>3. CASE AwaitDependency(t) \/ Start(t)
      BY <2>3, PermitsUnmoved
      DEF AwaitDependency, Start, InLoop, GlobalHolders, ToolHolders, TypeOK
    <2>4. CASE AcquireGlobal(t)
      BY <2>4, AcquireGlobalKeepsPermits
    <2>5. CASE AcquireTool(t)
      BY <2>5, AcquireToolKeepsPermits
    <2>6. CASE AcquireRate(t) \/ Swallow(t)
      BY <2>6, PermitsUnmoved DEF AcquireRate, Swallow, GlobalHolders, ToolHolders, TypeOK
    <2>7. QED
      BY <1>1, <2>1, <2>2, <2>3, <2>4, <2>5, <2>6, StepShape
  <1>2. CASE DriverStep \/ CancelGather \/ CancelDrain
    <2>1. UNCHANGED permitVars
      BY <1>2 DEF DriverStep, Reject, Authorize, GatherCompletes, GatherRaises, Drained,
                  CancelGather, CancelDrain
    <2>2. GlobalHolders' = GlobalHolders /\ \A k \in Tools : ToolHolders(k)' = ToolHolders(k)
      BY <1>2 DEF DriverStep, Reject, Authorize, GatherCompletes, GatherRaises, Drained,
                  CancelGather, CancelDrain, GlobalHolders, ToolHolders, StatusOfPoint
    <2>3. QED
      BY <2>1, <2>2, PermitsUnmoved
  <1>3. CASE Terminated \/ UNCHANGED vars
    BY <1>3, PermitsUnmoved DEF Terminated, vars, permitVars, GlobalHolders, ToolHolders
  <1>4. QED
    BY <1>1, <1>2, <1>3 DEF Next

-----------------------------------------------------------------------------
\* The gather future.

LEMMA EndKeepsGather ==
  ASSUME TypeOK, StatusOfPoint, GatherKnowsTasks, DriverKnowsGather,
         NEW t \in Tasks, NEW result \in Outcomes \ {"none"},
         End(t, result), pc[t] \notin {"done", "absent"}
  PROVE  GatherKnowsTasks' /\ DriverKnowsGather'
  <1>1. /\ outcome[t] = "none" /\ outcome'[t] = result
        /\ \A u \in Tasks \ {t} : outcome'[u] = outcome[u] /\ pc'[u] = pc[u]
        /\ pc'[t] = "done"
        /\ cancels' = cancels /\ driver' = driver
        /\ driver \in {"gather", "drain"}
    BY DEF End, TypeOK, StatusOfPoint, DriverKnowsGather, driverVars, Drivers
  <1>2. gather # "ok"
    BY DEF GatherKnowsTasks
  <1>3. CASE gather # "none"
    <2>1. gather' = gather
      BY <1>3 DEF End, GatherAfter
    <2>2. GatherKnowsTasks'
      BY <1>1, <1>2, <1>3, <2>1 DEF GatherKnowsTasks, TypeOK
    <2>3. DriverKnowsGather'
      BY <1>1, <2>1 DEF DriverKnowsGather
    <2>4. QED
      BY <2>2, <2>3
  <1>4. CASE gather = "none"
    <2>0. driver = "gather"
      BY <1>1, <1>4 DEF DriverKnowsGather
    <2>1. CASE result \in {"error", "cancelled"}
      <3>1. gather' = result
        BY <1>4, <2>1 DEF End, GatherAfter
      <3>2. QED
        BY <1>1, <2>0, <2>1, <3>1 DEF GatherKnowsTasks, DriverKnowsGather
    <2>2. CASE result \notin {"error", "cancelled"}
      <3>1. \A u \in Tasks : outcome'[u] \in Returned \cup {"none"}
        BY <1>1, <1>4, <2>2 DEF GatherKnowsTasks, Outcomes, Returned
      <3>2. CASE \A u \in Tasks \ {t} : pc[u] = "done"
        <4>1. gather' = IF cancels > 0 THEN "cancelled" ELSE "ok"
          BY <1>4, <2>2, <3>2 DEF End, GatherAfter
        <4>2. \A u \in Tasks : pc'[u] = "done"
          BY <1>1, <3>2
        <4>3. cancels \in Nat
          BY Constants DEF TypeOK
        <4>4. QED
          BY <1>1, <2>0, <3>1, <4>1, <4>2, <4>3 DEF GatherKnowsTasks, DriverKnowsGather
      <3>3. CASE ~(\A u \in Tasks \ {t} : pc[u] = "done")
        <4>1. gather' = "none"
          BY <1>4, <2>2, <3>3 DEF End, GatherAfter
        <4>2. QED
          BY <1>1, <2>0, <3>1, <4>1 DEF GatherKnowsTasks, DriverKnowsGather
      <3>4. QED
        BY <3>2, <3>3
    <2>3. QED
      BY <2>1, <2>2
  <1>5. QED
    BY <1>3, <1>4

LEMMA GatherInductive ==
  ASSUME TypeOK, StatusOfPoint, GatherKnowsTasks, DriverKnowsGather, [Next]_vars
  PROVE  GatherKnowsTasks' /\ DriverKnowsGather'
  <1>1. ASSUME NEW t \in Tasks, TaskStep(t)
        PROVE  GatherKnowsTasks' /\ DriverKnowsGather'
    <2>1. ASSUME NEW final \in Counted, NEW result \in Outcomes \ {"none"},
                 Leave(t, final, result), pc[t] \in {"global", "tool", "rate", "run"}
          PROVE  GatherKnowsTasks' /\ DriverKnowsGather'
      BY <2>1, EndKeepsGather DEF Leave
    <2>2. ASSUME NEW result \in {"error", "cancelled"},
                 Abort(t, result), pc[t] \in {"new", "deps"}
          PROVE  GatherKnowsTasks' /\ DriverKnowsGather'
      <3>1. result \in Outcomes \ {"none"}
        BY DEF Outcomes
      <3>2. QED
        BY <2>2, <3>1, EndKeepsGather DEF Abort
    <2>3. CASE AwaitDependency(t) \/ Start(t) \/ AcquireGlobal(t) \/ AcquireTool(t)
               \/ AcquireRate(t) \/ Swallow(t)
      <3>1. UNCHANGED <<driver, gather, cancels, outcome>> /\ pc[t] # "done"
        BY <2>3 DEF AwaitDependency, Start, InLoop, AcquireGlobal, AcquireTool, AcquireRate,
                    Swallow, driverVars
      <3>2. gather # "ok" /\ driver \notin {"completed", "failed", "cancelled"}
        BY <3>1 DEF GatherKnowsTasks, DriverKnowsGather
      <3>3. QED
        BY <3>1, <3>2 DEF GatherKnowsTasks, DriverKnowsGather
    <2>4. QED
      BY <1>1, <2>1, <2>2, <2>3, StepShape
  <1>2. CASE Reject \/ Authorize
    BY <1>2 DEF Reject, Authorize, GatherKnowsTasks, DriverKnowsGather, Returned, TypeOK,
                StatusOfPoint
  <1>3. CASE GatherCompletes \/ GatherRaises \/ Drained
    BY <1>3 DEF GatherCompletes, GatherRaises, Drained, GatherKnowsTasks, DriverKnowsGather
  <1>4. CASE CancelGather \/ CancelDrain
    <2>1. cancels \in Nat /\ cancels' = cancels + 1
      BY <1>4, Constants DEF CancelGather, CancelDrain, TypeOK
    <2>2. QED
      BY <1>4, <2>1 DEF CancelGather, CancelDrain, GatherKnowsTasks, DriverKnowsGather, TypeOK
  <1>5. CASE Terminated \/ UNCHANGED vars
    BY <1>5 DEF Terminated, vars, GatherKnowsTasks, DriverKnowsGather
  <1>6. QED
    BY <1>1, <1>2, <1>3, <1>4, <1>5 DEF Next, DriverStep

-----------------------------------------------------------------------------
\* Every reachable state of the scheduler satisfies the inductive invariant.
THEOREM Invariance == Spec => []SchedulerInv
  <1>1. Init => SchedulerInv
    BY InitEstablishes
  <1>2. SchedulerInv /\ [Next]_vars => SchedulerInv'
    <2> SUFFICES ASSUME SchedulerInv, [Next]_vars PROVE SchedulerInv'
      OBVIOUS
    <2>1. TypeOK /\ StatusOfPoint /\ WalkedDependencies /\ GatherKnowsTasks
          /\ DriverKnowsGather /\ PermitConservation /\ StartedAfterDependencies
      BY DEF SchedulerInv
    <2>2. TypeOK'
      BY <2>1, TypeInductive
    <2>3. StatusOfPoint'
      BY <2>1, StatusInductive
    <2>4. WalkedDependencies'
      BY <2>1, WalkedInductive
    <2>5. GatherKnowsTasks' /\ DriverKnowsGather'
      BY <2>1, GatherInductive
    <2>6. PermitConservation'
      BY <2>1, PermitsInductive
    <2>7. StartedAfterDependencies'
      BY <2>1, DependenciesInductive
    <2>8. QED
      BY <2>2, <2>3, <2>4, <2>5, <2>6, <2>7 DEF SchedulerInv
  <1>3. QED
    BY <1>1, <1>2, PTL DEF Spec

\* No semaphore permit is lost or invented, for every cap and every way a task
\* can leave the try block of run_node.
THEOREM PermitsConserved == Spec => []PermitConservation
  <1>1. SchedulerInv => PermitConservation
    BY DEF SchedulerInv
  <1>2. QED
    BY <1>1, Invariance, PTL

\* In every graph a task that left "pending" has all its dependencies behind it.
THEOREM DependenciesFirst == Spec => []StartedAfterDependencies
  <1>1. SchedulerInv => StartedAfterDependencies
    BY DEF SchedulerInv
  <1>2. QED
    BY <1>1, Invariance, PTL

\* When execute returns or raises, every task is done and every permit is back.
THEOREM NothingLeftBehind == Spec => []NoOrphans
  <1>1. SchedulerInv => NoOrphans
    <2> SUFFICES ASSUME SchedulerInv, driver \in {"completed", "failed", "cancelled"}
                 PROVE  /\ \A t \in Tasks : pc[t] = "done" /\ outcome[t] # "none"
                        /\ globalFree = GlobalCap
                        /\ toolFree = ToolCap
      BY DEF NoOrphans
    <2>1. \A t \in Tasks : pc[t] = "done" /\ outcome[t] # "none"
      BY DEF SchedulerInv, DriverKnowsGather, StatusOfPoint
    <2>2. GlobalHolders = {} /\ \A k \in Tools : ToolHolders(k) = {}
      BY <2>1 DEF GlobalHolders, ToolHolders
    <2>3. Cardinality({}) = 0
      BY FS_EmptySet
    <2>4. globalFree = GlobalCap
      <3>1. Cardinality(GlobalHolders) = 0
        BY <2>2, <2>3
      <3>2. QED
        BY <3>1, Constants DEF SchedulerInv, PermitConservation, TypeOK
    <2>5. \A k \in Tools : toolFree[k] = ToolCap[k]
      <3>1. \A k \in Tools : Cardinality(ToolHolders(k)) = 0
        BY <2>2, <2>3
      <3>2. QED
        BY <3>1, Constants DEF SchedulerInv, PermitConservation, TypeOK
    <2>6. toolFree = ToolCap
      BY <2>5, Constants DEF SchedulerInv, TypeOK
    <2>7. QED
      BY <2>1, <2>4, <2>6
  <1>2. QED
    BY <1>1, Invariance, PTL

\* The terminal event never misreports how the tasks ended.
THEOREM VerdictsAreTrue == Spec => []VerdictMatchesTasks
  <1>1. SchedulerInv => VerdictMatchesTasks
    BY DEF SchedulerInv, VerdictMatchesTasks, GatherKnowsTasks, DriverKnowsGather,
           StatusOfPoint, TypeOK
  <1>2. QED
    BY <1>1, Invariance, PTL

\* A cancellation of execute never ends in scan.completed.
THEOREM CancelKept == Spec => []CancelIsNotLost
  <1>1. SchedulerInv => CancelIsNotLost
    BY DEF SchedulerInv, CancelIsNotLost, GatherKnowsTasks, DriverKnowsGather
  <1>2. QED
    BY <1>1, Invariance, PTL

\* A resolved handle, and the status shown for its task, never change again.
THEOREM HandlesResolveOnce == Spec => OutcomeIsFinal
  <1>1. SchedulerInv /\ [Next]_vars =>
          [\A t \in Tasks : outcome[t] # "none" =>
             outcome'[t] = outcome[t] /\ status'[t] = status[t]]_vars
    BY HandlesAreFinal DEF SchedulerInv
  <1>2. QED
    BY <1>1, Invariance, PTL DEF Spec, OutcomeIsFinal

-----------------------------------------------------------------------------
(* The refinement of DagExecution: holding the tool permit is working, being *)
(* done is being over.                                                       *)

Working == {t \in Tasks : pc[t] \in {"rate", "run"}}
Over    == {t \in Tasks : pc[t] = "done"}
Phase   == IF driver = "new" THEN "new"
           ELSE IF driver \in Ended THEN "closed" ELSE "open"

\* The instance's Cardinality is Cardinality.
LEMMA SameCardinality == \A S : DE!Cardinality(S) = Cardinality(S)
  BY DEF DE!Cardinality, Cardinality

LEMMA BeginMaps ==
  ASSUME SchedulerInv, NEW t \in Tasks, AcquireTool(t)
  PROVE  DE!Begin(t)
  <1>1. Phase = "open" /\ Phase' = Phase
    BY DEF AcquireTool, Phase, Ended, SchedulerInv, DriverKnowsGather, StatusOfPoint, TypeOK,
           Drivers, driverVars
  <1>2. t \notin Working \cup Over
    BY DEF AcquireTool, Working, Over
  <1>3. {Deps[t][k] : k \in DOMAIN Deps[t]} \subseteq Over
    <2>1. status[t] = "running"
      BY DEF AcquireTool, SchedulerInv, StatusOfPoint
    <2>2. ASSUME NEW k \in DOMAIN Deps[t]
          PROVE  Deps[t][k] \in Over
      BY <2>1, <2>2, Constants
      DEF SchedulerInv, StartedAfterDependencies, Passes, Returned, StatusOfPoint, Over
    <2>3. QED
      BY <2>2
  <1>4. Cardinality(Working) < GlobalCap
    <2>1. Working \in SUBSET (GlobalHolders \ {t}) /\ t \in GlobalHolders
      BY DEF AcquireTool, Working, GlobalHolders
    <2>2. IsFiniteSet(GlobalHolders \ {t})
          /\ Cardinality(GlobalHolders \ {t}) = Cardinality(GlobalHolders) - 1
      BY <2>1, HoldersFinite, FS_RemoveElement
    <2>3. Cardinality(Working) <= Cardinality(GlobalHolders) - 1 /\ IsFiniteSet(Working)
      BY <2>1, <2>2, FS_Subset
    <2>4. Cardinality(Working) \in Nat
      BY <2>3, FS_CardinalityType
    <2>5. globalFree \in Nat /\ globalFree + Cardinality(GlobalHolders) = GlobalCap
      BY DEF SchedulerInv, TypeOK, PermitConservation
    <2>6. QED
      BY <2>3, <2>4, <2>5, HoldersFinite, Constants
  <1>5. Cardinality({u \in Working : ToolOf[u] = ToolOf[t]}) < ToolCap[ToolOf[t]]
    <2>1. {u \in Working : ToolOf[u] = ToolOf[t]} = ToolHolders(ToolOf[t])
      BY DEF Working, ToolHolders
    <2>2. toolFree[ToolOf[t]] \in Nat /\ toolFree[ToolOf[t]] > 0
      BY Constants DEF AcquireTool, SchedulerInv, TypeOK
    <2>3. toolFree[ToolOf[t]] + Cardinality(ToolHolders(ToolOf[t])) = ToolCap[ToolOf[t]]
      BY Constants DEF SchedulerInv, PermitConservation
    <2>4. Cardinality(ToolHolders(ToolOf[t])) \in Nat /\ ToolCap[ToolOf[t]] \in Nat
      BY HoldersFinite, Constants
    <2>5. Cardinality(ToolHolders(ToolOf[t])) < ToolCap[ToolOf[t]]
      BY <2>2, <2>3, <2>4
    <2>6. QED
      BY <2>1, <2>5
  <1>6. Working' = Working \cup {t} /\ Over' = Over
    BY DEF AcquireTool, Working, Over, SchedulerInv, TypeOK
  <1>7. [u \in Tasks |-> {Deps[u][k] : k \in DOMAIN Deps[u]}][t]
          = {Deps[t][k] : k \in DOMAIN Deps[t]}
    OBVIOUS
  <1>8. QED
    BY <1>1, <1>2, <1>3, <1>4, <1>5, <1>6, <1>7, SameCardinality DEF DE!Begin, Working, Over, Phase

LEMMA EndMaps ==
  ASSUME SchedulerInv, NEW t \in Tasks, NEW result, End(t, result), pc[t] \notin {"done", "absent"}
  PROVE  DE!Finish(t) \/ DE!Skip(t)
  <1>1. Phase = "open" /\ Phase' = Phase
    BY DEF End, Phase, Ended, SchedulerInv, DriverKnowsGather, StatusOfPoint, TypeOK,
           Drivers, driverVars
  <1>2. Working' = Working \ {t} /\ Over' = Over \cup {t} /\ t \notin Over
    BY DEF End, Working, Over, SchedulerInv, TypeOK
  <1>3. CASE t \in Working
    BY <1>1, <1>2, <1>3 DEF DE!Finish, Working, Over, Phase
  <1>4. CASE t \notin Working
    BY <1>1, <1>2, <1>4 DEF DE!Skip, Working, Over, Phase
  <1>5. QED
    BY <1>3, <1>4

LEMMA StepMaps ==
  ASSUME SchedulerInv, [Next]_vars
  PROVE  DE!Next \/ UNCHANGED DE!vars
  <1> USE DEF SchedulerInv
  <1>1. ASSUME NEW t \in Tasks, TaskStep(t)
        PROVE  DE!Next \/ UNCHANGED DE!vars
    <2>1. ASSUME NEW final \in Counted, NEW result \in Outcomes \ {"none"},
                 Leave(t, final, result), pc[t] \in {"global", "tool", "rate", "run"}
          PROVE  DE!Next
      BY <2>1, EndMaps DEF Leave, DE!Next
    <2>2. ASSUME NEW result \in {"error", "cancelled"},
                 Abort(t, result), pc[t] \in {"new", "deps"}
          PROVE  DE!Next
      BY <2>2, EndMaps DEF Abort, DE!Next
    <2>3. CASE AcquireTool(t)
      BY <2>3, BeginMaps DEF DE!Next
    <2>4. CASE AwaitDependency(t) \/ Start(t) \/ AcquireGlobal(t) \/ AcquireRate(t) \/ Swallow(t)
      <3>1. driver' = driver /\ Working' = Working /\ Over' = Over
        BY <2>4 DEF AwaitDependency, Start, InLoop, AcquireGlobal, AcquireRate, Swallow,
                    driverVars, Working, Over, TypeOK
      <3>2. QED
        BY <3>1 DEF DE!vars, Working, Over
    <2>5. QED
      BY <1>1, <2>1, <2>2, <2>3, <2>4, StepShape
  <1>2. CASE Reject
    <2>1. Phase = "new" /\ Phase' = "closed" /\ Working' = Working /\ Over' = Over
      BY <1>2 DEF Reject, Phase, Ended, Working, Over
    <2>2. QED
      BY <2>1 DEF DE!Next, DE!Refuse, Phase, Working, Over
  <1>3. CASE Authorize
    <2>1. Phase = "new" /\ Phase' = "open" /\ Working' = Working /\ Over' = Over
      BY <1>3 DEF Authorize, Phase, Ended, Working, Over, StatusOfPoint
    <2>2. QED
      BY <2>1 DEF DE!Next, DE!Open, Phase, Working, Over
  <1>4. CASE GatherCompletes \/ Drained
    <2>1. Phase = "open" /\ Phase' = "closed" /\ Working' = Working /\ Over' = Over
      BY <1>4 DEF GatherCompletes, Drained, Phase, Ended, Working, Over
    <2>2. Over = Tasks
      BY <1>4 DEF GatherCompletes, Drained, GatherKnowsTasks, Over
    <2>3. QED
      BY <2>1, <2>2 DEF DE!Next, DE!Close, Phase, Working, Over
  <1>5. CASE GatherRaises \/ CancelGather \/ CancelDrain
    <2>1. Phase' = Phase /\ Working' = Working /\ Over' = Over
      BY <1>5 DEF GatherRaises, CancelGather, CancelDrain, Phase, Ended, Working, Over
    <2>2. QED
      BY <2>1 DEF DE!vars, Phase, Working, Over
  <1>6. CASE Terminated \/ UNCHANGED vars
    BY <1>6 DEF Terminated, vars, DE!vars
  <1>7. QED
    BY <1>1, <1>2, <1>3, <1>4, <1>5, <1>6 DEF Next, DriverStep

\* The scheduler implements DagExecution: a task works at most once, after all
\* its dependencies, within both caps, and the scan closes only when every task
\* is over.
THEOREM ImplementsDagExecution == Spec => RefinesDagExecution
  <1>1. Init => DE!Init
    BY DEF Init, DE!Init
  <1>2. SchedulerInv /\ [Next]_vars => [DE!Next]_(DE!vars)
    BY StepMaps
  <1>3. QED
    BY <1>1, <1>2, Invariance, PTL DEF Spec, DE!Spec, RefinesDagExecution

\* A verdict is what became of the tasks and comes after all of them.
THEOREM VerdictSettled == Spec => []VerdictIsSettled
<1>1. NoOrphans /\ VerdictMatchesTasks => VerdictIsSettled
  BY DEF VerdictIsSettled
<1> QED
  BY <1>1, NothingLeftBehind, VerdictsAreTrue, PTL

-----------------------------------------------------------------------------
(* Progress: the units of the tasks that were counted.                       *)
Units(S) == UNION {{t} \X (1 .. Weight[t]) : t \in S}
CountedTasks == {t \in Tasks : status[t] \in Counted}

LEMMA UnitsOfOne ==
  ASSUME NEW t \in Tasks
  PROVE  IsFiniteSet({t} \X (1 .. Weight[t])) /\ Cardinality({t} \X (1 .. Weight[t])) = Weight[t]
  <1>1. Weight[t] \in Nat /\ Weight[t] >= 1
    BY SpecAssumption
  <1>2. IsFiniteSet(1 .. Weight[t]) /\ Cardinality(1 .. Weight[t]) = Weight[t]
    <2>1. 1 \in Int /\ Weight[t] \in Int /\ ~(1 > Weight[t])
      BY <1>1
    <2>2. Cardinality(1 .. Weight[t]) = Weight[t] - 1 + 1 /\ IsFiniteSet(1 .. Weight[t])
      BY <2>1, FS_Interval
    <2>3. QED
      BY <1>1, <2>2
  <1>3. IsFiniteSet({t}) /\ Cardinality({t}) = 1
    BY FS_Singleton
  <1>4. IsFiniteSet({t} \X (1 .. Weight[t]))
        /\ Cardinality({t} \X (1 .. Weight[t])) = Cardinality({t}) * Cardinality(1 .. Weight[t])
    BY <1>2, <1>3, FS_Product
  <1>5. 1 * Weight[t] = Weight[t]
    BY <1>1
  <1>6. QED
    BY <1>2, <1>3, <1>4, <1>5

LEMMA UnitsFinite ==
  ASSUME NEW S \in SUBSET Tasks
  PROVE  IsFiniteSet(Units(S)) /\ WeightOf(S) = Cardinality(Units(S)) /\ WeightOf(S) \in Nat
  <1> DEFINE f == [t \in S |-> {t} \X (1 .. Weight[t])]
             T == {{t} \X (1 .. Weight[t]) : t \in S}
  <1>1. IsFiniteSet(S)
    BY Constants, FS_Subset
  <1>2. f \in Surjection(S, T)
    BY DEF Surjection
  <1>3. IsFiniteSet(T)
    BY <1>1, <1>2, FS_Surjection
  <1>4. \A x \in T : IsFiniteSet(x)
    BY UnitsOfOne
  <1>5. IsFiniteSet(UNION T)
    BY <1>3, <1>4, FS_UNION
  <1>6. QED
    BY <1>5, FS_CardinalityType DEF Units, WeightOf

LEMMA WeightAdds ==
  ASSUME NEW S \in SUBSET Tasks, NEW t \in Tasks \ S
  PROVE  WeightOf(S \cup {t}) = WeightOf(S) + Weight[t]
  <1>1. Units(S \cup {t}) = Units(S) \cup ({t} \X (1 .. Weight[t]))
    BY DEF Units
  <1>2. Units(S) \cap ({t} \X (1 .. Weight[t])) = {}
    BY DEF Units
  <1>3. IsFiniteSet(Units(S)) /\ Cardinality(Units(S)) \in Nat /\ WeightOf(S) = Cardinality(Units(S))
    BY UnitsFinite
  <1>4. Cardinality(Units(S \cup {t})) = Cardinality(Units(S)) + Weight[t]
    <2> DEFINE X == {t} \X (1 .. Weight[t])
    <2>1. IsFiniteSet(X) /\ Cardinality(X) = Weight[t] /\ Weight[t] \in Nat
      BY UnitsOfOne, Constants
    <2> HIDE DEF X
    <2>2. Cardinality(Units(S) \cup X) = Cardinality(Units(S)) + Cardinality(X) - Cardinality(Units(S) \cap X)
      BY <1>3, <2>1, FS_Union
    <2>3. Cardinality(Units(S) \cap X) = 0
      BY <1>2, FS_EmptySet DEF X
    <2>4. Units(S \cup {t}) = Units(S) \cup X
      BY <1>1 DEF X
    <2>5. Cardinality(Units(S) \cup X) = Cardinality(Units(S)) + Weight[t]
      <3>1. \A a, b \in Nat : a + b - 0 = a + b
        OBVIOUS
      <3>2. QED
        BY <1>3, <2>1, <2>2, <2>3, <3>1
    <2>6. QED
      BY <2>4, <2>5
  <1>5. WeightOf(S \cup {t}) = Cardinality(Units(S \cup {t}))
    BY UnitsFinite
  <1>6. QED
    BY <1>3, <1>4, <1>5, Constants

\* A task whose runner or rate raised, or returned, has left the try block, so
\* it was counted: only a task that was cancelled or failed by a dependency was not.
ProgressInv ==
  /\ completedWeight = WeightOf(CountedTasks)
  /\ \A t \in Tasks : outcome[t] \in Returned => t \in CountedTasks

LEMMA ProgressInit == Init => ProgressInv
  <1> SUFFICES ASSUME Init PROVE ProgressInv
    OBVIOUS
  <1>1. CountedTasks = {}
    BY DEF Init, CountedTasks, Counted
  <1>2. WeightOf({}) = 0
    <2>1. Units({}) = {}
      BY DEF Units
    <2>2. QED
      BY <2>1, UnitsFinite, FS_EmptySet
  <1>3. QED
    BY <1>1, <1>2 DEF Init, ProgressInv, Returned

LEMMA ProgressStep ==
  ASSUME SchedulerInv, ProgressInv, [Next]_vars
  PROVE  ProgressInv'
  <1> USE DEF SchedulerInv
  <1>1. ASSUME UNCHANGED <<status, outcome, completedWeight>>
        PROVE  ProgressInv'
    BY <1>1 DEF ProgressInv, CountedTasks
  <1>2. ASSUME NEW t \in Tasks, TaskStep(t)
        PROVE  ProgressInv'
    <2>1. ASSUME NEW final \in Counted, NEW result \in Outcomes \ {"none"},
                 Leave(t, final, result), pc[t] \in {"global", "tool", "rate", "run"}
          PROVE  ProgressInv'
      <3>1. t \notin CountedTasks
        BY <2>1 DEF StatusOfPoint, CountedTasks, Counted
      <3>2. CountedTasks' = CountedTasks \cup {t}
        BY <2>1 DEF Leave, CountedTasks, TypeOK
      <3>3. completedWeight' = completedWeight + Weight[t]
        BY <2>1 DEF Leave
      <3>4. completedWeight' = WeightOf(CountedTasks \cup {t})
        BY <3>1, <3>3, WeightAdds DEF ProgressInv, CountedTasks
      <3>5. \A u \in Tasks : outcome'[u] \in Returned => u \in CountedTasks'
        BY <2>1, <3>2 DEF Leave, End, TypeOK, ProgressInv
      <3>6. QED
        BY <3>2, <3>4, <3>5 DEF ProgressInv
    <2>2. ASSUME NEW result \in {"error", "cancelled"}, Abort(t, result)
          PROVE  ProgressInv'
      <3>1. CountedTasks' = CountedTasks /\ completedWeight' = completedWeight
        BY <2>2 DEF Abort, CountedTasks
      <3>2. \A u \in Tasks : outcome'[u] \in Returned => outcome[u] \in Returned
        BY <2>2 DEF Abort, End, TypeOK, Returned
      <3>3. QED
        BY <3>1, <3>2 DEF ProgressInv
    <2>3. CASE Start(t)
      <3>1. CountedTasks' = CountedTasks
        BY <2>3 DEF Start, InLoop, StatusOfPoint, TypeOK, CountedTasks, Counted
      <3>2. QED
        BY <2>3, <3>1 DEF Start, ProgressInv
    <2>4. CASE AwaitDependency(t) \/ AcquireGlobal(t) \/ AcquireTool(t) \/ AcquireRate(t) \/ Swallow(t)
      BY <1>1, <2>4 DEF AwaitDependency, AcquireGlobal, AcquireTool, AcquireRate, Swallow
    <2>5. QED
      BY <1>2, <2>1, <2>2, <2>3, <2>4, StepShape
  <1>3. CASE DriverStep \/ CancelGather \/ CancelDrain \/ Terminated \/ UNCHANGED vars
    BY <1>1, <1>3 DEF DriverStep, Reject, Authorize, GatherCompletes, GatherRaises, Drained,
                      CancelGather, CancelDrain, Terminated, vars
  <1>4. QED
    BY <1>2, <1>3 DEF Next

\* The published progress counts every task that left the try block once, with
\* its weight, and it is the whole when scan.completed is published.
THEOREM ProgressAlwaysExact == Spec => []ProgressIsExact
  <1>1. SchedulerInv /\ ProgressInv => ProgressIsExact
    <2> SUFFICES ASSUME SchedulerInv, ProgressInv PROVE ProgressIsExact
      OBVIOUS
    <2>1. completedWeight = WeightOf({t \in Tasks : status[t] \in Counted})
      BY DEF ProgressInv, CountedTasks
    <2>2. ASSUME driver = "completed" PROVE completedWeight = TotalWeight
      <3>1. \A t \in Tasks : outcome[t] \in Returned
        BY <2>2 DEF SchedulerInv, GatherKnowsTasks, DriverKnowsGather, StatusOfPoint, TypeOK
      <3>2. CountedTasks = Tasks
        BY <3>1 DEF ProgressInv, CountedTasks
      <3>3. QED
        BY <3>2 DEF ProgressInv, TotalWeight
    <2>3. QED
      BY <2>1, <2>2 DEF ProgressIsExact
  <1>2. Spec => [](SchedulerInv /\ ProgressInv)
    BY Invariance, ProgressInit, ProgressStep, PTL DEF Spec
  <1>3. QED
    BY <1>1, <1>2, PTL

-----------------------------------------------------------------------------
(* The drain.  When it begins every task that awaits no live task is marked.  *)
(* What is not marked later waits behind one that is, or has seen it          *)
(* cancelled, or waits for a runner that need not obey.                       *)
WaitsForStubborn(t) == Upstream(t) \cap Stubborn # {}

Doomed(t) == pc[t] = "deps" /\ outcome[Deps[t][awaiting[t]]] = "cancelled"

DrainHolds(t) ==
  /\ pc[t] \in {"new", "deps"} =>
       t \in mustCancel \/ Blocked(t) \/ Doomed(t) \/ WaitsForStubborn(t)
  /\ pc[t] \in {"global", "tool", "rate", "run"} =>
       t \in mustCancel \/ t \in Stubborn \/ WaitsForStubborn(t)

DrainInv == driver = "drain" => \A t \in Tasks : DrainHolds(t)

LEMMA UpstreamFact ==
  ASSUME NEW t \in Tasks, NEW k \in DOMAIN Deps[t], Deps[t][k] \in Stubborn \/ WaitsForStubborn(Deps[t][k])
  PROVE  WaitsForStubborn(t)
  <1> DEFINE d == Deps[t][k]
  <1>1. d \in Tasks
    BY Constants
  <1>2. d \in Upstream(t)
    BY <1>1 DEF Upstream
  <1>3. Upstream(d) \subseteq Upstream(t)
    BY <1>1 DEF Upstream
  <1>4. QED
    BY <1>2, <1>3 DEF WaitsForStubborn

\* A doomed task, not marked, can only raise the cancellation it awaited.
LEMMA DoomedFact ==
  ASSUME TypeOK, NEW t \in Tasks, Doomed(t)
  PROVE  FirstObstacle(t) \subseteq {awaiting[t]} /\ Obstacles(t) # {}
  <1>1. awaiting[t] \in Nat /\ awaiting[t] \in DOMAIN Deps[t] /\ Len(Deps[t]) \in Nat
        /\ awaiting[t] \in awaiting[t] .. Len(Deps[t])
    BY Constants DEF TypeOK, Doomed
  <1>2. ~Passes(t, Deps[t][awaiting[t]])
    BY DEF Passes, Doomed, Returned
  <1>3. awaiting[t] \in Obstacles(t)
    BY <1>1, <1>2 DEF Obstacles
  <1>4. \A i \in Obstacles(t) : i \in Nat /\ awaiting[t] <= i
    BY <1>1 DEF Obstacles
  <1>5. QED
    BY <1>1, <1>3, <1>4 DEF FirstObstacle

\* During the drain a task ends otherwise than cancelled only because of a
\* runner that need not obey.
LEMMA DrainEnds ==
  ASSUME SchedulerInv, DrainInv, driver = "drain", NEW t \in Tasks, TaskStep(t),
         outcome[t] = "none", outcome'[t] \notin {"none", "cancelled"}
  PROVE  t \in Stubborn \/ WaitsForStubborn(t)
  <1>1. DrainHolds(t)
    BY DEF DrainInv
  <1>2. CASE Complete(t) \/ Fail(t)
    BY <1>1, <1>2 DEF Complete, Fail, DrainHolds
  <1>3. CASE DependencyRaises(t)
    <2>1. t \notin mustCancel /\ ~Blocked(t) /\ pc[t] \in {"new", "deps"}
      BY <1>3 DEF DependencyRaises, InLoop
    <2>2. ~Doomed(t)
      <3>1. SUFFICES ASSUME Doomed(t) PROVE FALSE
        OBVIOUS
      <3>2. PICK i \in FirstObstacle(t) : Abort(t, outcome[Deps[t][i]])
        BY <1>3 DEF DependencyRaises
      <3>3. outcome[Deps[t][i]] = "cancelled"
        BY <3>1, <3>2, DoomedFact DEF SchedulerInv, Doomed
      <3>4. QED
        BY <3>2, <3>3 DEF Abort, End, SchedulerInv, TypeOK
    <2>3. QED
      BY <1>1, <2>1, <2>2 DEF DrainHolds
  <1>4. CASE Cancel(t) \/ CancelEarly(t)
    BY <1>4 DEF Cancel, CancelEarly, Leave, Abort, End, SchedulerInv, TypeOK
  <1>5. CASE AwaitDependency(t) \/ Start(t) \/ AcquireGlobal(t) \/ AcquireTool(t) \/ AcquireRate(t) \/ Swallow(t)
    BY <1>5 DEF AwaitDependency, Start, AcquireGlobal, AcquireTool, AcquireRate, Swallow
  <1>6. QED
    BY <1>2, <1>3, <1>4, <1>5 DEF TaskStep

\* A task that starts or goes on waiting during the drain waited for such a runner.
LEMMA DrainStarts ==
  ASSUME SchedulerInv, DrainInv, driver = "drain", NEW t \in Tasks, AwaitDependency(t) \/ Start(t)
  PROVE  WaitsForStubborn(t)
  <1>1. t \notin mustCancel /\ ~Blocked(t) /\ pc[t] \in {"new", "deps"}
    BY DEF AwaitDependency, Start, InLoop
  <1>2. ~Doomed(t)
    <2>1. SUFFICES ASSUME Doomed(t) PROVE FALSE
      OBVIOUS
    <2>2. FirstObstacle(t) \subseteq {awaiting[t]} /\ Obstacles(t) # {}
      BY <2>1, DoomedFact DEF SchedulerInv
    <2>3. QED
      BY <2>1, <2>2 DEF AwaitDependency, Start, Doomed
  <1>3. QED
    BY <1>1, <1>2 DEF DrainInv, DrainHolds

\* What the step of one task leaves of another.
LEMMA OthersStay ==
  ASSUME TypeOK, StatusOfPoint, NEW t \in Tasks, TaskStep(t), NEW u \in Tasks \ {t}
  PROVE  /\ pc'[u] = pc[u] /\ awaiting'[u] = awaiting[u] /\ outcome'[u] = outcome[u]
         /\ u \in mustCancel => u \in mustCancel'
  <1>1. ASSUME NEW final \in Counted, NEW result \in Outcomes \ {"none"}, Leave(t, final, result)
        PROVE  /\ pc'[u] = pc[u] /\ awaiting'[u] = awaiting[u] /\ outcome'[u] = outcome[u]
               /\ u \in mustCancel => u \in mustCancel'
    BY <1>1 DEF Leave, End, TypeOK
  <1>2. ASSUME NEW result \in {"error", "cancelled"}, Abort(t, result)
        PROVE  /\ pc'[u] = pc[u] /\ awaiting'[u] = awaiting[u] /\ outcome'[u] = outcome[u]
               /\ u \in mustCancel => u \in mustCancel'
    BY <1>2 DEF Abort, End, TypeOK
  <1>3. CASE AwaitDependency(t) \/ Start(t) \/ AcquireGlobal(t) \/ AcquireTool(t) \/ AcquireRate(t) \/ Swallow(t)
    BY <1>3 DEF AwaitDependency, Start, AcquireGlobal, AcquireTool, AcquireRate, Swallow, TypeOK
  <1>4. QED
    BY <1>1, <1>2, <1>3, StepShape

LEMMA DrainOthers ==
  ASSUME SchedulerInv, DrainInv, driver = "drain", NEW t \in Tasks, TaskStep(t), NEW u \in Tasks \ {t}
  PROVE  DrainHolds(u)'
  <1>1. pc'[u] = pc[u] /\ awaiting'[u] = awaiting[u] /\ (u \in mustCancel => u \in mustCancel')
    BY OthersStay DEF SchedulerInv
  <1>2. DrainHolds(u)
    BY DEF DrainInv
  <1>3. CASE pc[u] = "deps" /\ u \notin mustCancel /\ ~WaitsForStubborn(u)
    <2> DEFINE d == Deps[u][awaiting[u]]
    <2>1. awaiting[u] \in DOMAIN Deps[u] /\ d \in Tasks
      BY <1>3, Constants DEF SchedulerInv, TypeOK
    <2>2. outcome[d] \in {"none", "cancelled"}
      BY <1>2, <1>3 DEF DrainHolds, Blocked, Doomed
    <2>3. outcome'[d] \in {"none", "cancelled"}
      <3>1. CASE outcome[d] = "cancelled"
        BY <2>1, <3>1, HandlesAreFinal DEF SchedulerInv, Next
      <3>2. CASE outcome[d] = "none"
        <4>1. SUFFICES ASSUME outcome'[d] \notin {"none", "cancelled"} PROVE FALSE
          OBVIOUS
        <4>2. d = t
          BY <2>1, <3>2, <4>1, OthersStay DEF SchedulerInv
        <4>3. d \in Stubborn \/ WaitsForStubborn(d)
          BY <3>2, <4>1, <4>2, DrainEnds
        <4>4. WaitsForStubborn(u)
          BY <2>1, <4>3, UpstreamFact
        <4>5. QED
          BY <1>3, <4>4
      <3>3. QED
        BY <2>2, <3>1, <3>2
    <2>4. QED
      BY <1>1, <1>3, <2>3 DEF DrainHolds, Blocked, Doomed
  <1>4. CASE ~(pc[u] = "deps" /\ u \notin mustCancel /\ ~WaitsForStubborn(u))
    BY <1>1, <1>2, <1>4 DEF DrainHolds, Blocked, Doomed, WaitsForStubborn, Upstream
  <1>5. QED
    BY <1>3, <1>4

LEMMA DrainStep ==
  ASSUME SchedulerInv, DrainInv, [Next]_vars
  PROVE  DrainInv'
  <1>1. ASSUME NEW t \in Tasks, TaskStep(t)
        PROVE  DrainInv'
    <2>1. SUFFICES ASSUME driver' = "drain" PROVE \A u \in Tasks : DrainHolds(u)'
      BY DEF DrainInv
    <2>2. driver = "drain"
      <3>1. ASSUME NEW final \in Counted, NEW result \in Outcomes \ {"none"}, Leave(t, final, result)
            PROVE  driver' = driver
        BY <3>1 DEF Leave, End, driverVars
      <3>2. ASSUME NEW result \in {"error", "cancelled"}, Abort(t, result)
            PROVE  driver' = driver
        BY <3>2 DEF Abort, End, driverVars
      <3>3. CASE AwaitDependency(t) \/ Start(t) \/ AcquireGlobal(t)
        BY <2>1, <3>3 DEF AwaitDependency, Start, AcquireGlobal, driverVars
      <3>4. CASE AcquireTool(t) \/ AcquireRate(t) \/ Swallow(t)
        BY <2>1, <3>4 DEF AcquireTool, AcquireRate, Swallow, driverVars
      <3>5. QED
        BY <1>1, <2>1, <3>1, <3>2, <3>3, <3>4, StepShape DEF SchedulerInv
    <2>3. DrainHolds(t)
      BY <2>2 DEF DrainInv
    <2>4. DrainHolds(t)'
      <3>1. ASSUME NEW final \in Counted, NEW result \in Outcomes \ {"none"}, Leave(t, final, result)
            PROVE  DrainHolds(t)'
        BY <3>1 DEF Leave, End, SchedulerInv, TypeOK, DrainHolds
      <3>2. ASSUME NEW result \in {"error", "cancelled"}, Abort(t, result)
            PROVE  DrainHolds(t)'
        BY <3>2 DEF Abort, End, SchedulerInv, TypeOK, DrainHolds
      <3>3. CASE AwaitDependency(t) \/ Start(t)
        <4>1. WaitsForStubborn(t)
          BY <2>2, <3>3, DrainStarts
        <4>2. QED
          BY <4>1 DEF DrainHolds, WaitsForStubborn, Upstream
      <3>4. CASE AcquireGlobal(t) \/ AcquireTool(t) \/ AcquireRate(t)
        <4>1. t \in Stubborn \/ WaitsForStubborn(t)
          BY <2>3, <3>4 DEF AcquireGlobal, AcquireTool, AcquireRate, DrainHolds
        <4>2. pc'[t] \in {"tool", "rate", "run"}
          BY <3>4 DEF AcquireGlobal, AcquireTool, AcquireRate, SchedulerInv, TypeOK
        <4>3. QED
          BY <4>1, <4>2 DEF DrainHolds, WaitsForStubborn, Upstream
      <3>5. CASE Swallow(t)
        BY <3>5 DEF Swallow, DrainHolds
      <3>6. QED
        BY <1>1, <3>1, <3>2, <3>3, <3>4, <3>5, StepShape DEF SchedulerInv
    <2>5. QED
      BY <1>1, <2>2, <2>4, DrainOthers
  <1>2. CASE GatherRaises
    <2>1. SUFFICES ASSUME NEW t \in Tasks PROVE DrainHolds(t)'
      BY DEF DrainInv
    <2>2. UNCHANGED <<pc, awaiting, outcome>> /\ mustCancel' = mustCancel \cup Cancellable
      BY <1>2 DEF GatherRaises
    <2>3. Blocked(t)' = Blocked(t)
      BY <2>2 DEF Blocked
    <2>4. QED
      BY <2>2, <2>3 DEF DrainHolds, Cancellable, Blocked
  <1>3. CASE CancelDrain
    BY <1>3 DEF CancelDrain, DrainInv, DrainHolds, Blocked, Doomed, WaitsForStubborn, Upstream
  <1>4. CASE Reject \/ Authorize \/ GatherCompletes \/ Drained \/ CancelGather
    BY <1>4 DEF Reject, Authorize, GatherCompletes, Drained, CancelGather, DrainInv
  <1>5. CASE Terminated \/ UNCHANGED vars
    BY <1>5 DEF Terminated, vars, DrainInv, DrainHolds, Blocked, Doomed, WaitsForStubborn, Upstream
  <1>6. QED
    BY <1>1, <1>2, <1>3, <1>4, <1>5 DEF Next, DriverStep

\* Cancelling every handle starts nothing: what starts while execute drains
\* waited, itself or through others, for a runner that need not obey.
THEOREM DrainStartsNothing == Spec => NoStartWhileDraining
  <1>1. Spec => [](SchedulerInv /\ DrainInv)
    <2>1. Init => DrainInv
      BY DEF Init, DrainInv
    <2>2. QED
      BY <2>1, Invariance, DrainStep, PTL DEF Spec
  <1>2. SchedulerInv /\ DrainInv /\ [Next]_vars
          => [\A t \in Tasks : status[t] = "pending" /\ status'[t] = "running"
                => driver # "drain" \/ Upstream(t) \cap Stubborn # {}]_vars
    <2> SUFFICES ASSUME SchedulerInv, DrainInv, Next, NEW t \in Tasks,
                        status[t] = "pending", status'[t] = "running", driver = "drain"
                 PROVE  Upstream(t) \cap Stubborn # {}
      OBVIOUS
    <2>1. Start(t)
      <3>1. ASSUME NEW u \in Tasks, TaskStep(u)
            PROVE  Start(t)
        <4>1. ASSUME NEW final \in Counted, NEW result \in Outcomes \ {"none"}, Leave(u, final, result)
              PROVE  FALSE
          BY <4>1 DEF Leave, Counted, SchedulerInv, TypeOK
        <4>2. ASSUME NEW result \in {"error", "cancelled"}, Abort(u, result)
              PROVE  FALSE
          BY <4>2 DEF Abort
        <4>3. CASE Start(u)
          BY <4>3 DEF Start, SchedulerInv, TypeOK
        <4>4. CASE AwaitDependency(u) \/ AcquireGlobal(u) \/ AcquireTool(u) \/ AcquireRate(u) \/ Swallow(u)
          BY <4>4 DEF AwaitDependency, AcquireGlobal, AcquireTool, AcquireRate, Swallow
        <4>5. QED
          BY <3>1, <4>1, <4>2, <4>3, <4>4, StepShape DEF SchedulerInv
      <3>2. ~(DriverStep \/ CancelGather \/ CancelDrain \/ Terminated)
        BY DEF DriverStep, Reject, Authorize, GatherCompletes, GatherRaises, Drained,
               CancelGather, CancelDrain, Terminated, vars
      <3>3. QED
        BY <3>1, <3>2 DEF Next
    <2>2. QED
      BY <2>1, DrainStarts DEF WaitsForStubborn
  <1>3. QED
    BY <1>1, <1>2, PTL DEF Spec, NoStartWhileDraining

=============================================================================
