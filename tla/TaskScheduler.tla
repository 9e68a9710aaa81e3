--------------------------- MODULE TaskScheduler ---------------------------
(***************************************************************************)
(* One call of TaskScheduler.execute (app/engine/scheduler.py): a DAG of   *)
(* asyncio tasks, one per TaskSpec, run under a global and a per-tool      *)
(* semaphore, gathered by the coroutine that called execute, cancelled     *)
(* together when one fails or when execute itself is cancelled.            *)
(*                                                                         *)
(* The grain of atomicity is asyncio's: an action is what one task does    *)
(* between two suspensions.  A task is suspended while it awaits a         *)
(* dependency, a permit, the rate governor or its runner; publishing an    *)
(* event and taking progress_lock never suspend, because nothing holds     *)
(* those locks across a suspension.  A task that finds a permit free does  *)
(* not suspend in the code and may here, which only adds interleavings.    *)
(***************************************************************************)
EXTENDS Naturals, Sequences, FiniteSets

CONSTANTS
  Tasks,            \* the names in the validated specs
  Deps,             \* Deps[t]: the sequence spec.dependencies
  Order,            \* the tasks as _topological_order lists them
  Tools,            \* the tool keys
  ToolOf,           \* ToolOf[t]: spec.tool_name or name
  Weight,           \* Weight[t]: spec.weight
  ContinueOnError,  \* the tasks whose spec has continue_on_error
  Stubborn,         \* the tasks whose runner may not obey a cancellation
  GlobalCap,        \* global_concurrency
  ToolCap,          \* ToolCap[k]: per_tool_concurrency of k, "*" or 1
  MaxCancels        \* bound: how often execute is cancelled from outside

ASSUME GraphAssumption ==
  /\ IsFiniteSet(Tasks)
  /\ Deps \in [Tasks -> Seq(Tasks)]
  /\ Order \in Seq(Tasks)
  /\ \A t \in Tasks : \E i \in DOMAIN Order : Order[i] = t
  /\ \A i \in DOMAIN Order : \A k \in DOMAIN Deps[Order[i]] :
        \E j \in DOMAIN Order : j < i /\ Order[j] = Deps[Order[i]][k]

ASSUME SpecAssumption ==
  /\ ToolOf \in [Tasks -> Tools]
  /\ Weight \in [Tasks -> Nat \ {0}]
  /\ ContinueOnError \subseteq Tasks
  /\ Stubborn \subseteq Tasks
  /\ GlobalCap \in Nat \ {0}
  /\ ToolCap \in [Tools -> Nat \ {0}]
  /\ MaxCancels \in Nat

VARIABLES
  driver,       \* where the coroutine that runs execute is
  gather,       \* the outcome of the future asyncio.gather returned
  cancels,      \* cancellations of execute so far
  pc,           \* pc[t]: where task t is suspended
  awaiting,     \* awaiting[t]: index in Deps[t] of the handle t awaits
  mustCancel,   \* tasks whose next resumption raises CancelledError
  status,       \* status[t]: states[t].status
  outcome,      \* outcome[t]: what the handle of t holds
  globalFree,   \* the value of _global_semaphore
  toolFree,     \* toolFree[k]: the value of _tool_semaphores[k]
  completedWeight

vars == <<driver, gather, cancels, pc, awaiting, mustCancel, status, outcome,
          globalFree, toolFree, completedWeight>>

driverVars == <<driver, cancels>>
permitVars == <<globalFree, toolFree>>

Drivers    == {"new", "rejected", "gather", "drain", "completed", "failed", "cancelled"}
Ended      == {"rejected", "completed", "failed", "cancelled"}
Points     == {"absent", "new", "deps", "global", "tool", "rate", "run", "done"}
Statuses   == {"pending", "running", "completed", "failed", "cancelled"}
Counted    == {"completed", "failed", "cancelled"}
Outcomes   == {"none", "value", "excvalue", "error", "cancelled"}
Returned   == {"value", "excvalue"}

\* The tasks that hold the global permit, and the permit of tool k.
GlobalHolders  == {t \in Tasks : pc[t] \in {"tool", "rate", "run"}}
ToolHolders(k) == {t \in Tasks : ToolOf[t] = k /\ pc[t] \in {"rate", "run"}}

\* The sum of the weights of the tasks in S: each brings as many units as it weighs.
WeightOf(S) == Cardinality(UNION {{t} \X (1 .. Weight[t]) : t \in S})

TotalWeight == WeightOf(Tasks)

-----------------------------------------------------------------------------
Init ==
  /\ driver = "new"
  /\ gather = "none"
  /\ cancels = 0
  /\ pc = [t \in Tasks |-> "absent"]
  /\ awaiting = [t \in Tasks |-> 1]
  /\ mustCancel = {}
  /\ status = [t \in Tasks |-> "pending"]
  /\ outcome = [t \in Tasks |-> "none"]
  /\ globalFree = GlobalCap
  /\ toolFree = ToolCap
  /\ completedWeight = 0

\* The guard, _validate or the program policy refuses the scan.
Reject ==
  /\ driver = "new"
  /\ driver' = "rejected"
  /\ UNCHANGED <<gather, cancels, pc, awaiting, mustCancel, status, outcome,
                 permitVars, completedWeight>>

\* The scan is authorized, every task is created, and execute awaits gather,
\* which is already resolved when there is no task.
Authorize ==
  /\ driver = "new"
  /\ driver' = "gather"
  /\ gather' = IF Tasks = {} THEN "ok" ELSE "none"
  /\ pc' = [t \in Tasks |-> "new"]
  /\ UNCHANGED <<cancels, awaiting, mustCancel, status, outcome, permitVars,
                 completedWeight>>

-----------------------------------------------------------------------------
(* The end of a task.  gather keeps the first error or cancellation of a     *)
(* child, in the order the children end; when the last child ends well it    *)
(* still raises CancelledError if it had been cancelled while pending.       *)

GatherAfter(t, result) ==
  IF gather # "none" THEN gather
  ELSE IF result \in {"error", "cancelled"} THEN result
  ELSE IF \A u \in Tasks \ {t} : pc[u] = "done"
       THEN IF cancels > 0 THEN "cancelled" ELSE "ok"
       ELSE "none"

End(t, result) ==
  /\ pc' = [pc EXCEPT ![t] = "done"]
  /\ outcome' = [outcome EXCEPT ![t] = result]
  /\ mustCancel' = mustCancel \ {t}
  /\ gather' = GatherAfter(t, result)
  /\ UNCHANGED <<driverVars, awaiting>>

\* Leaving the try block: the two async-with blocks release the permits the
\* task holds, the status is set, and the finally clause counts the weight.
\* Mutant: the global permit is not given back by a task that waits for its tool's.
ReleaseInner(t) ==
  /\ globalFree' = IF t \in ToolHolders(ToolOf[t]) THEN globalFree + 1 ELSE globalFree
  /\ toolFree' = IF t \in ToolHolders(ToolOf[t])
                 THEN [toolFree EXCEPT ![ToolOf[t]] = @ + 1]
                 ELSE toolFree

Release(t) ==
  /\ globalFree' = IF t \in GlobalHolders THEN globalFree + 1 ELSE globalFree
  /\ toolFree' = IF t \in ToolHolders(ToolOf[t])
                 THEN [toolFree EXCEPT ![ToolOf[t]] = @ + 1]
                 ELSE toolFree

Leave(t, final, result) ==
  /\ End(t, result)
  /\ Release(t)
  /\ status' = [status EXCEPT ![t] = final]
  /\ completedWeight' = completedWeight + Weight[t]

\* An exception before the try block: neither status nor progress changes.
Abort(t, result) ==
  /\ End(t, result)
  /\ UNCHANGED <<status, permitVars, completedWeight>>

-----------------------------------------------------------------------------
(* The dependency loop.  Awaiting a handle that is done does not suspend, so *)
(* a resumed task walks on to the first handle that is pending or raises.    *)

Passes(t, d) == outcome[d] \in Returned
                \/ (outcome[d] = "error" /\ t \in ContinueOnError)

Obstacles(t) == {i \in awaiting[t]..Len(Deps[t]) : ~Passes(t, Deps[t][i])}

\* The index of the first of them, as a set: empty when there is none.
FirstObstacle(t) == {i \in Obstacles(t) : \A j \in Obstacles(t) : i <= j}

\* t awaits a handle that is not done: nothing resumes t but the end of it.
Blocked(t) == pc[t] = "deps" /\ outcome[Deps[t][awaiting[t]]] = "none"

InLoop(t) == pc[t] \in {"new", "deps"} /\ ~Blocked(t) /\ t \notin mustCancel

AwaitDependency(t) ==
  /\ InLoop(t)
  /\ \E i \in FirstObstacle(t) :
       /\ outcome[Deps[t][i]] = "none"
       /\ awaiting' = [awaiting EXCEPT ![t] = i]
  /\ pc' = [pc EXCEPT ![t] = "deps"]
  /\ UNCHANGED <<driverVars, gather, mustCancel, status, outcome, permitVars,
                 completedWeight>>

DependencyRaises(t) ==
  /\ InLoop(t)
  /\ \E i \in FirstObstacle(t) :
       /\ outcome[Deps[t][i]] \in {"error", "cancelled"}
       /\ Abort(t, outcome[Deps[t][i]])

Start(t) ==
  /\ InLoop(t)
  /\ Obstacles(t) = {}
  /\ status' = [status EXCEPT ![t] = "running"]
  /\ pc' = [pc EXCEPT ![t] = "global"]
  /\ UNCHANGED <<driverVars, gather, awaiting, mustCancel, outcome, permitVars,
                 completedWeight>>

-----------------------------------------------------------------------------
\* Mutant: the tool semaphore is not waited for.
AcquireToolAtOnce(t) ==
  /\ pc[t] = "tool" /\ t \notin mustCancel
  /\ toolFree' = [toolFree EXCEPT ![ToolOf[t]] = @ - 1]
  /\ pc' = [pc EXCEPT ![t] = "rate"]
  /\ UNCHANGED <<driverVars, gather, awaiting, mustCancel, status, outcome,
                 globalFree, completedWeight>>

AcquireGlobal(t) ==
  /\ pc[t] = "global" /\ t \notin mustCancel
  /\ globalFree > 0
  /\ globalFree' = globalFree - 1
  /\ pc' = [pc EXCEPT ![t] = "tool"]
  /\ UNCHANGED <<driverVars, gather, awaiting, mustCancel, status, outcome,
                 toolFree, completedWeight>>

AcquireTool(t) ==
  /\ pc[t] = "tool" /\ t \notin mustCancel
  /\ toolFree[ToolOf[t]] > 0
  /\ toolFree' = [toolFree EXCEPT ![ToolOf[t]] = @ - 1]
  /\ pc' = [pc EXCEPT ![t] = "rate"]
  /\ UNCHANGED <<driverVars, gather, awaiting, mustCancel, status, outcome,
                 globalFree, completedWeight>>

\* acquire_rate returns and the runner is called.
AcquireRate(t) ==
  /\ pc[t] = "rate" /\ t \notin mustCancel
  /\ pc' = [pc EXCEPT ![t] = "run"]
  /\ UNCHANGED <<driverVars, gather, awaiting, mustCancel, status, outcome,
                 permitVars, completedWeight>>

\* The runner returns.  One that swallows a cancellation may return as well.
Complete(t) ==
  /\ pc[t] = "run"
  /\ t \in mustCancel => t \in Stubborn
  /\ Leave(t, "completed", "value")

\* acquire_rate or the runner raises an Exception; one that is raised while a
\* cancellation is handled takes its place.
Fail(t) ==
  /\ pc[t] \in {"rate", "run"}
  /\ t \in mustCancel => (pc[t] = "run" /\ t \in Stubborn)
  /\ Leave(t, "failed", IF t \in ContinueOnError THEN "excvalue" ELSE "error")

\* A runner that suppresses the cancellation goes on running.
Swallow(t) ==
  /\ pc[t] = "run" /\ t \in mustCancel /\ t \in Stubborn
  /\ mustCancel' = mustCancel \ {t}
  /\ UNCHANGED <<driver, gather, cancels, pc, awaiting, status, outcome,
                 permitVars, completedWeight>>

\* CancelledError in the try block: delivered by asyncio, or raised by the
\* runner on its own account (run_tool raises it when cancel_event is set).
Cancel(t) ==
  /\ \/ pc[t] \in {"global", "tool", "rate"} /\ t \in mustCancel
     \/ pc[t] = "run"
  /\ Leave(t, "cancelled", "cancelled")

\* CancelledError before the try block, the first resumption included.
CancelEarly(t) ==
  /\ pc[t] \in {"new", "deps"} /\ t \in mustCancel
  /\ Abort(t, "cancelled")

TaskStep(t) ==
  \/ AwaitDependency(t) \/ DependencyRaises(t) \/ Start(t)
  \/ AcquireGlobal(t) \/ AcquireTool(t) \/ AcquireRate(t)
  \/ Complete(t) \/ Fail(t) \/ Swallow(t) \/ Cancel(t) \/ CancelEarly(t)

-----------------------------------------------------------------------------
(* Cancelling a task that awaits another task cancels the awaited one in its *)
(* place (Task.cancel forwards to _fut_waiter), so cancelling every live     *)
(* task marks exactly those that await no live task.                         *)
Cancellable == {t \in Tasks : pc[t] # "done" /\ ~Blocked(t)}

GatherCompletes ==
  /\ driver = "gather" /\ gather = "ok"
  /\ driver' = "completed"
  /\ UNCHANGED <<gather, cancels, pc, awaiting, mustCancel, status, outcome,
                 permitVars, completedWeight>>

\* Mutant: after the cancellations gather is awaited again.
GatherAgain ==
  /\ driver = "gather" /\ gather \in {"cancelled", "error"}
  /\ mustCancel' = mustCancel \cup Cancellable
  /\ UNCHANGED <<driver, gather, cancels, pc, awaiting, status, outcome, permitVars,
                 completedWeight>>

\* Either except clause: cancel what is not done, then await every handle.
GatherRaises ==
  /\ driver = "gather" /\ gather \in {"cancelled", "error"}
  /\ driver' = "drain"
  /\ mustCancel' = mustCancel \cup Cancellable
  /\ UNCHANGED <<gather, cancels, pc, awaiting, status, outcome, permitVars,
                 completedWeight>>

\* Mutant: the handles are not awaited.
DrainedAtOnce ==
  /\ driver = "drain"
  /\ driver' = IF gather = "error" THEN "failed" ELSE "cancelled"
  /\ UNCHANGED <<gather, cancels, pc, awaiting, mustCancel, status, outcome,
                 permitVars, completedWeight>>

Drained ==
  /\ driver = "drain"
  /\ \A t \in Tasks : pc[t] = "done"
  /\ driver' = IF gather = "error" THEN "failed" ELSE "cancelled"
  /\ UNCHANGED <<gather, cancels, pc, awaiting, mustCancel, status, outcome,
                 permitVars, completedWeight>>

\* Mutant: a request that finds the gather future resolved is dropped.
CancelGatherPending ==
  /\ driver = "gather" /\ cancels < MaxCancels
  /\ cancels' = cancels + 1
  /\ mustCancel' = IF gather = "none" THEN mustCancel \cup Cancellable ELSE mustCancel
  /\ UNCHANGED <<driver, gather, pc, awaiting, status, outcome, permitVars, completedWeight>>

\* execute is cancelled while it awaits gather.  A pending gather future
\* forwards the request to its children; one that is resolved but not yet
\* read is replaced by CancelledError.
CancelGather ==
  /\ driver = "gather" /\ cancels < MaxCancels
  /\ cancels' = cancels + 1
  /\ IF gather = "none"
     THEN mustCancel' = mustCancel \cup Cancellable /\ UNCHANGED gather
     ELSE gather' = "cancelled" /\ UNCHANGED mustCancel
  /\ UNCHANGED <<driver, pc, awaiting, status, outcome, permitVars, completedWeight>>

\* execute is cancelled while it awaits the handles one by one: the request
\* goes to the handle it awaits, the first live one in topological order
\* (whose dependencies are all done), and the error is suppressed.
FirstLive == {i \in DOMAIN Order :
               /\ pc[Order[i]] # "done"
               /\ \A j \in DOMAIN Order : j < i => pc[Order[j]] = "done"}

CancelDrain ==
  /\ driver = "drain" /\ cancels < MaxCancels
  /\ cancels' = cancels + 1
  /\ \E i \in FirstLive : mustCancel' = mustCancel \cup {Order[i]}
  /\ UNCHANGED <<driver, gather, pc, awaiting, status, outcome, permitVars, completedWeight>>

DriverStep == Reject \/ Authorize \/ GatherCompletes \/ GatherRaises \/ Drained

Terminated == driver \in Ended /\ UNCHANGED vars

Next ==
  \/ DriverStep
  \/ CancelGather
  \/ CancelDrain
  \/ \E t \in Tasks : TaskStep(t)
  \/ Terminated

Spec == Init /\ [][Next]_vars

\* asyncio resumes whatever is ready; a runner ends because the code it calls
\* is bounded by timeouts.  Reject is one of the two ways out of "new".
Fairness ==
  /\ WF_vars(DriverStep)
  /\ \A t \in Tasks : WF_vars(TaskStep(t))

FairSpec == Spec /\ Fairness

-----------------------------------------------------------------------------
TypeOK ==
  /\ driver \in Drivers
  /\ gather \in {"none", "ok", "error", "cancelled"}
  /\ cancels \in 0..MaxCancels
  /\ pc \in [Tasks -> Points]
  /\ awaiting \in [Tasks -> Nat \ {0}]
  /\ \A t \in Tasks : pc[t] = "deps" => awaiting[t] \in DOMAIN Deps[t]
  /\ mustCancel \subseteq Tasks
  /\ status \in [Tasks -> Statuses]
  /\ outcome \in [Tasks -> Outcomes]
  /\ globalFree \in Nat
  /\ toolFree \in [Tools -> Nat]
  /\ completedWeight \in Nat

\* No permit is lost or made up, whichever way a task leaves the try block: the
\* value of each semaphore and the tasks inside its async-with block add up to
\* the cap, so no more tasks than the caps run at once.
PermitConservation ==
  /\ globalFree + Cardinality(GlobalHolders) = GlobalCap
  /\ \A k \in Tools : toolFree[k] + Cardinality(ToolHolders(k)) = ToolCap[k]

\* A task whose status left "pending" never sees a dependency that is still
\* pending, was cancelled, or failed unless the task tolerates failures.
StartedAfterDependencies ==
  \A t \in Tasks : status[t] # "pending" =>
    \A k \in DOMAIN Deps[t] : Passes(t, Deps[t][k])

\* completed_weight counts every task that left the try block once, and no task
\* that ended before it, so the published progress is exact; when scan.completed
\* says 100 the sum says so too.
ProgressIsExact ==
  /\ completedWeight = WeightOf({t \in Tasks : status[t] \in Counted})
  /\ driver = "completed" => completedWeight = TotalWeight

\* When execute returns or raises after it opened the scan, no task is left
\* behind: each is done, and each semaphore is back at its cap.
NoOrphans ==
  driver \in {"completed", "failed", "cancelled"} =>
    /\ \A t \in Tasks : pc[t] = "done" /\ outcome[t] # "none"
    /\ globalFree = GlobalCap
    /\ toolFree = ToolCap

\* The terminal event tells how the tasks ended: scan.completed when all of them
\* returned, scan.failed only when one raised, scan.cancelled only when one was
\* cancelled or the caller asked for it.
VerdictMatchesTasks ==
  /\ driver = "completed" => \A t \in Tasks : outcome[t] \in Returned
  /\ driver = "failed" => \E t \in Tasks : outcome[t] = "error"
  /\ driver = "cancelled" => cancels > 0 \/ \E t \in Tasks : outcome[t] = "cancelled"

\* A cancellation of execute is never lost in a normal completion, at whatever
\* point of the children's progress it arrives.
CancelIsNotLost == cancels > 0 => driver # "completed"

\* The tasks t waits for, itself or through others.
Upstream(t) ==
  {u \in Tasks : \A S \in SUBSET Tasks :
     /\ \A k \in DOMAIN Deps[t] : Deps[t][k] \in S
     /\ \A v \in S : \A k \in DOMAIN Deps[v] : Deps[v][k] \in S
     => u \in S}

\* Once execute has begun to drain, no further task starts, unless it waited,
\* itself or through others, for a runner that need not obey its cancellation.
NoStartWhileDraining ==
  [][\A t \in Tasks : status[t] = "pending" /\ status'[t] = "running"
        => driver # "drain" \/ Upstream(t) \cap Stubborn # {}]_vars

\* A task handle is resolved once, and neither it nor the status the UI shows
\* changes after that.
OutcomeIsFinal ==
  [][\A t \in Tasks : outcome[t] # "none" =>
        outcome'[t] = outcome[t] /\ status'[t] = status[t]]_vars

-----------------------------------------------------------------------------
(* The strengthening the proofs rest on: what a task's suspension point says *)
(* of its status and handle, what a task inside the dependency loop has left *)
(* behind, and what the driver and the gather future say of the tasks.       *)

StatusOfPoint ==
  \A t \in Tasks :
    /\ pc[t] = "done" <=> outcome[t] # "none"
    /\ pc[t] \in {"absent", "new", "deps"} => status[t] = "pending"
    /\ pc[t] \in {"global", "tool", "rate", "run"} => status[t] = "running"
    /\ pc[t] = "absent" <=> driver \in {"new", "rejected"}

WalkedDependencies ==
  \A t \in Tasks : pc[t] \in {"absent", "new", "deps"} =>
    \A k \in DOMAIN Deps[t] : k < awaiting[t] => Passes(t, Deps[t][k])

GatherKnowsTasks ==
  /\ gather = "none" => \A t \in Tasks : outcome[t] \in Returned \cup {"none"}
  /\ gather = "ok" => cancels = 0 /\ \A t \in Tasks : outcome[t] \in Returned \cup {"none"}
  /\ gather = "ok" => \A t \in Tasks : pc[t] = "done"
  /\ gather = "error" => \E t \in Tasks : outcome[t] = "error"
  /\ gather = "cancelled" => cancels > 0 \/ \E t \in Tasks : outcome[t] = "cancelled"

DriverKnowsGather ==
  /\ driver \in {"new", "rejected"} => gather = "none" /\ cancels = 0
  /\ driver = "completed" => gather = "ok"
  /\ driver \in {"drain", "cancelled", "failed"} => gather \in {"error", "cancelled"}
  /\ driver = "failed" => gather = "error"
  /\ driver = "cancelled" => gather = "cancelled"
  /\ driver \in {"completed", "failed", "cancelled"} => \A t \in Tasks : pc[t] = "done"

\* The inductive invariant: preserved by every step, and stronger than
\* PermitConservation, StartedAfterDependencies, NoOrphans,
\* VerdictMatchesTasks and CancelIsNotLost.
SchedulerInv ==
  /\ TypeOK
  /\ StatusOfPoint
  /\ WalkedDependencies
  /\ GatherKnowsTasks
  /\ DriverKnowsGather
  /\ PermitConservation
  /\ StartedAfterDependencies

\* A scan is an execution of the DAG within the caps, and it closes.
DE == INSTANCE DagExecution WITH
        Needs <- [t \in Tasks |-> {Deps[t][k] : k \in DOMAIN Deps[t]}],
        phase <- IF driver = "new" THEN "new"
                 ELSE IF driver \in Ended THEN "closed" ELSE "open",
        active <- {t \in Tasks : pc[t] \in {"rate", "run"}},
        over <- {t \in Tasks : pc[t] = "done"}

RefinesDagExecution == DE!Spec
KeepsDagPromise == DE!Promise

\* The driver's verdict is what became of the tasks, and comes after all of them.
VerdictIsSettled == NoOrphans /\ VerdictMatchesTasks

\* What execute owes to its caller: it ends, whatever the tasks and the caller do
\* meanwhile; the progress it published on the way was exact; and once it drains
\* it starts nothing that the rest of the scan did not already wait for.
KeepsItsPromises == KeepsDagPromise /\ []ProgressIsExact /\ NoStartWhileDraining
=============================================================================
