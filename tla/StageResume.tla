----------------------------- MODULE StageResume -----------------------------
(***************************************************************************)
(* ScanResumeCoordinator (app/ops/runtime.py): the checkpoints of one scan *)
(* and the processes that drive it through run_stage, stage by stage.  A   *)
(* process that died is replaced by one that asks state() for the next     *)
(* stage or starts again at the first; the old one may still be alive, so  *)
(* several drivers can work on the scan.  Every statement is a connection  *)
(* of its own.                                                             *)
(***************************************************************************)
EXTENDS Naturals, FiniteSets

CONSTANTS
  Drivers,    \* the processes
  NStages,    \* Len(_STAGE_ORDER)
  None,       \* no row
  MaxFaults   \* bound: callbacks that raise and processes that die

ASSUME ResumeAssumption ==
  /\ NStages \in Nat \ {0} /\ MaxFaults \in Nat
  /\ IsFiniteSet(Drivers) /\ None \notin Drivers

Stages == 1..NStages

VARIABLES
  last,       \* stage of the row with the highest id, 0 without rows
  payload,    \* stage -> who committed it
  pc,         \* where a driver is
  stage,      \* the stage it is at
  outputs,    \* what run_stage returned to it for a stage
  work,       \* callbacks that ran to their end
  faults

table == <<last, payload>>
vars == <<table, pc, stage, outputs, work, faults>>

Init ==
  /\ last = 0 /\ payload = [s \in Stages |-> None]
  /\ pc = [d \in Drivers |-> "lookup"]
  /\ stage = [d \in Drivers |-> 1]
  /\ outputs = [d \in Drivers |-> [s \in Stages |-> None]]
  /\ work = 0 /\ faults = 0

Goto(d, where) == pc' = [pc EXCEPT ![d] = where]

\* On to the next stage.
Advance(d) ==
  IF stage[d] < NStages
  THEN Goto(d, "lookup") /\ stage' = [stage EXCEPT ![d] = @ + 1]
  ELSE Goto(d, "done") /\ UNCHANGED stage

\* run_stage returns: the checkpoint it found, or what its callback returned, whether
\* or not commit stored that.  (The callbacks return mappings; another result would
\* come back from its checkpoint wrapped in one.)
Return(d, output) ==
  /\ outputs' = [outputs EXCEPT ![d][stage[d]] = output]
  /\ Advance(d)

Remain(d, where) == Goto(d, where) /\ UNCHANGED <<stage, outputs>>

\* run_stage: a committed stage is returned, another one is executed.
Lookup(d) ==
  /\ pc[d] = "lookup"
  /\ IF payload[stage[d]] # None THEN Return(d, payload[stage[d]]) ELSE Remain(d, "call")
  /\ UNCHANGED <<table, work, faults>>

Call(d) ==
  /\ pc[d] = "call"
  /\ work' = work + 1 /\ Remain(d, "state")
  /\ UNCHANGED <<table, faults>>

\* commit compares the stage with the one state() reports.
ReadState(d) ==
  /\ pc[d] = "state"
  /\ IF stage[d] < last THEN Remain(d, "older")
     ELSE IF stage[d] = last THEN Return(d, d)
     ELSE Remain(d, "insert")
  /\ UNCHANGED <<table, work, faults>>

\* A stage behind the last one: fine if it has a row, refused otherwise.
ReadOlder(d) ==
  /\ pc[d] = "older"
  /\ IF payload[stage[d]] # None THEN Return(d, d) ELSE Remain(d, "refused")
  /\ UNCHANGED <<table, work, faults>>

\* Mutant: INSERT OR REPLACE.
InsertReplace(d) ==
  /\ pc[d] = "insert"
  /\ last' = stage[d] /\ payload' = [payload EXCEPT ![stage[d]] = d]
  /\ Return(d, d)
  /\ UNCHANGED <<work, faults>>

\* INSERT OR IGNORE under UNIQUE(scan_id, stage).
Insert(d) ==
  /\ pc[d] = "insert"
  /\ IF payload[stage[d]] = None
     THEN last' = stage[d] /\ payload' = [payload EXCEPT ![stage[d]] = d]
     ELSE UNCHANGED table
  /\ Return(d, d)
  /\ UNCHANGED <<work, faults>>

\* The callback raises, or the process dies anywhere.
Stop(d) ==
  /\ pc[d] \notin {"down", "done", "refused"}
  /\ faults < MaxFaults /\ faults' = faults + 1
  /\ Remain(d, "down")
  /\ UNCHANGED <<table, work>>

\* A fresh process takes over, at next_stage or from the beginning, with nothing in
\* its memory.
Restart(d) ==
  /\ pc[d] = "down"
  /\ \/ Goto(d, "lookup") /\ stage' = [stage EXCEPT ![d] = 1]
     \/ last < NStages /\ Goto(d, "lookup") /\ stage' = [stage EXCEPT ![d] = last + 1]
     \/ last = NStages /\ Goto(d, "done") /\ UNCHANGED stage
  /\ outputs' = [outputs EXCEPT ![d] = [s \in Stages |-> None]]
  /\ UNCHANGED <<table, work, faults>>

Step(d) ==
  \/ Lookup(d) \/ Call(d) \/ ReadState(d) \/ ReadOlder(d) \/ Insert(d) \/ Restart(d)

Ended == (\A d \in Drivers : pc[d] \in {"done", "refused"}) /\ UNCHANGED vars

Next == (\E d \in Drivers : Step(d) \/ Stop(d)) \/ Ended

Spec == Init /\ [][Next]_vars

\* A live process goes on, and somebody starts a dead one again.
FairSpec == Spec /\ \A d \in Drivers : WF_vars(Step(d))

-----------------------------------------------------------------------------
TypeOK ==
  /\ last \in 0..NStages
  /\ payload \in [Stages -> Drivers \cup {None}]
  /\ pc \in [Drivers -> {"lookup", "call", "state", "older", "insert", "down", "done", "refused"}]
  /\ stage \in [Drivers -> Stages]
  /\ outputs \in [Drivers -> [Stages -> Drivers \cup {None}]]
  /\ work \in Nat /\ faults \in 0..MaxFaults

\* Stages are committed in order, each once, and no checkpoint is ever
\* overwritten, by a retry or by a second driver.
Staged == INSTANCE StagedWork WITH Outputs <- Drivers
ImplementsStagedWork == Staged!Spec

\* A stage runs only on the committed outputs of all earlier ones.
BuildsOnCommitted ==
  \A d \in Drivers : pc[d] \in {"call", "state", "insert"} =>
    \A s \in Stages : s < stage[d] => payload[s] # None

\* Drivers that go through the stages in order are never refused a commit,
\* however they overtake each other.
NeverRefused == \A d \in Drivers : pc[d] # "refused"

\* A failure repeats at most one callback of its driver, the one whose row it
\* prevented; beyond that every driver may run the callback of a stage once, since
\* a driver that finds no row does not see that another one is at work.
WorkBound == work <= NStages * Cardinality(Drivers) + faults

\* What run_stage returned is the checkpoint or the driver's own result, which is
\* another one than the checkpoint when a second driver committed first: the loser
\* is not told.  With one driver the two are the same.
ReturnedOrOwn ==
  \A d \in Drivers, s \in Stages : outputs[d][s] # None =>
    payload[s] # None /\ outputs[d][s] \in {payload[s], d}

\* The scan reaches its last stage.
Completes == <>(last = NStages)
=============================================================================
