--------------------------- MODULE ReleasePipeline ---------------------------
(***************************************************************************)
(* V3PipelineCoordinator (app/v3/pipeline.py): run goes through the stages *)
(* of one scan, commits each under its primary key and reports it with a   *)
(* row, an audit record and an event.  A run that ended badly is repeated  *)
(* from the first stage; several runs may overlap.                         *)
(***************************************************************************)
EXTENDS Naturals, FiniteSets

CONSTANTS
  Runs,       \* callers of run
  NStages,    \* Len(V3_STAGE_ORDER), at least 1
  None,       \* no checkpoint
  MaxFaults   \* bound: exceptions and deaths

Stages == 1..NStages

VARIABLES
  payload,    \* stage -> the run that committed it
  rows,       \* v3_scan_transitions, as <<stage, status>>
  audited,    \* the audit records
  shown,      \* the events
  pc,         \* where a run is
  stage,      \* the stage it is at
  status,     \* the transition it reports
  outputs,    \* what it will return
  cancel,     \* cancel_check
  faults

report == <<rows, audited, shown>>
local == <<stage, status, outputs>>
vars == <<payload, report, pc, local, cancel, faults>>

Init ==
  /\ payload = [s \in Stages |-> None]
  /\ rows = {} /\ audited = {} /\ shown = {}
  /\ pc = [d \in Runs |-> "top"]
  /\ stage = [d \in Runs |-> 1]
  /\ status = [d \in Runs |-> "started"]
  /\ outputs = [d \in Runs |-> [s \in Stages |-> None]]
  /\ cancel = FALSE
  /\ faults = 0

Goto(d, where) == pc' = [pc EXCEPT ![d] = where]
Report(d, what) == Goto(d, "row") /\ status' = [status EXCEPT ![d] = what]

\* The head of the loop; check_wall_clock may raise, see Fail.
Top(d) ==
  /\ pc[d] = "top"
  /\ IF cancel THEN Report(d, "cancelled") ELSE Goto(d, "budget") /\ UNCHANGED status
  /\ UNCHANGED <<payload, report, stage, outputs, cancel, faults>>

\* _checkpoint: a committed stage is taken over, another one is announced.
Lookup(d) ==
  /\ pc[d] = "budget"
  /\ IF payload[stage[d]] # None
     THEN outputs' = [outputs EXCEPT ![d][stage[d]] = payload[stage[d]]] /\ Report(d, "resumed")
     ELSE Report(d, "started") /\ UNCHANGED outputs
  /\ UNCHANGED <<payload, report, stage, cancel, faults>>

\* The three steps of _transition.
Here(d) == <<stage[d], status[d]>>

Row(d) ==
  /\ pc[d] = "row"
  /\ rows' = rows \cup {Here(d)} /\ Goto(d, "audit")
  /\ UNCHANGED <<payload, audited, shown, local, cancel, faults>>

Audit(d) ==
  /\ pc[d] = "audit"
  /\ audited' = audited \cup {Here(d)} /\ Goto(d, "event")
  /\ UNCHANGED <<payload, rows, shown, local, cancel, faults>>

\* The event; afterwards run goes on as the status says.
Event(d) ==
  /\ pc[d] = "event"
  /\ shown' = shown \cup {Here(d)}
  /\ CASE status[d] = "cancelled" -> Goto(d, "cancelled") /\ UNCHANGED stage
       [] status[d] = "started" -> Goto(d, "call") /\ UNCHANGED stage
       [] OTHER -> IF stage[d] = NStages
                   THEN Goto(d, "completed") /\ UNCHANGED stage
                   ELSE Goto(d, "top") /\ stage' = [stage EXCEPT ![d] = @ + 1]
  /\ UNCHANGED <<payload, rows, audited, status, outputs, cancel, faults>>

Call(d) ==
  /\ pc[d] = "call"
  /\ Goto(d, "insert")
  /\ UNCHANGED <<payload, report, local, cancel, faults>>

\* Mutant: the checkpoint is lost.
InsertLost(d) ==
  /\ pc[d] = "insert"
  /\ outputs' = [outputs EXCEPT ![d][stage[d]] = d] /\ Report(d, "completed")
  /\ UNCHANGED <<payload, report, stage, cancel, faults>>

\* Mutant: a refused insert is tried again.
InsertRetry(d) ==
  /\ pc[d] = "insert"
  /\ IF payload[stage[d]] = None
     THEN /\ payload' = [payload EXCEPT ![stage[d]] = d]
          /\ outputs' = [outputs EXCEPT ![d][stage[d]] = d]
          /\ Report(d, "completed")
     ELSE UNCHANGED <<payload, outputs, status, pc>>
  /\ UNCHANGED <<report, stage, cancel, faults>>

\* A plain INSERT: a second one for the stage violates the primary key.
Insert(d) ==
  /\ pc[d] = "insert"
  /\ IF payload[stage[d]] = None
     THEN /\ payload' = [payload EXCEPT ![stage[d]] = d]
          /\ outputs' = [outputs EXCEPT ![d][stage[d]] = d]
          /\ Report(d, "completed")
     ELSE Goto(d, "raised") /\ UNCHANGED <<payload, outputs, status>>
  /\ UNCHANGED <<report, stage, cancel, faults>>

Step(d) == Top(d) \/ Lookup(d) \/ Row(d) \/ Audit(d) \/ Event(d) \/ Call(d) \/ Insert(d)

\* The budget, the callback, the audit log or the sink raises, or the run dies.
Fail(d) ==
  /\ pc[d] \in {"budget", "row", "audit", "event", "call", "insert"}
  /\ faults < MaxFaults /\ faults' = faults + 1
  /\ Goto(d, "raised")
  /\ UNCHANGED <<payload, report, local, cancel>>

\* run is called again.
Rerun(d) ==
  /\ pc[d] = "raised"
  /\ Goto(d, "top") /\ stage' = [stage EXCEPT ![d] = 1]
  /\ outputs' = [outputs EXCEPT ![d] = [s \in Stages |-> None]]
  /\ UNCHANGED <<payload, report, status, cancel, faults>>

Cancel == ~cancel /\ cancel' = TRUE /\ UNCHANGED <<payload, report, pc, local, faults>>

Over == (\A d \in Runs : pc[d] \in {"completed", "cancelled"}) /\ UNCHANGED vars

Next == (\E d \in Runs : Step(d) \/ Rerun(d) \/ Fail(d)) \/ Cancel \/ Over

Spec == Init /\ [][Next]_vars

\* A run goes on by itself, and one that raised is repeated.
FairSpec == Spec /\ \A d \in Runs : WF_vars(Step(d) \/ Rerun(d))

-----------------------------------------------------------------------------
Committed == {s \in Stages : payload[s] # None}

\* Nothing is reported as done, in the table, the log or the interface, that
\* a restart could lose, and an event is backed by its record and its row.
ReportedIsDurable ==
  /\ \A r \in rows : r[2] \in {"completed", "resumed"} => \A s \in 1..r[1] : s \in Committed
  /\ shown \subseteq audited /\ audited \subseteq rows

\* A run that returns "completed" returns what is stored for every stage.
ReturnedIsStored == \A d \in Runs : pc[d] = "completed" => outputs[d] = payload

\* Committed stages that were never reported completed or resumed come from
\* failures or from runs still about to report them.
Unreported == {s \in Committed : <<s, "completed">> \notin rows /\ <<s, "resumed">> \notin rows}
Reporting == {d \in Runs : pc[d] = "row" /\ status[d] = "completed"}
ReportGaps == Cardinality(Unreported) <= faults + Cardinality(Reporting)

\* Every run ends, with all stages committed or cancelled.
RunsEnd == <>[](\A d \in Runs : pc[d] \in {"completed", "cancelled"})
=============================================================================
