--------------------------- MODULE ScanLifecycle ---------------------------
(***************************************************************************)
(* One scan of the v2 API: the request that creates it and starts its      *)
(* thread (app/v2_api.py v2_scans_create), the thread (run_p0_scan under   *)
(* SchedulerRuntimeRegistry, app/v2_pipeline.py), the requests that stop   *)
(* it (v2_scans_stop) and one browser that follows its event stream and    *)
(* reconnects with Last-Event-ID (v2_scan_events).                         *)
(*                                                                         *)
(* The scans row, the authorization row and the event log are in SQLite:   *)
(* each transaction is one step.  The registry handle and the cancel event *)
(* are memory of the process.  The call of TaskScheduler.execute is one    *)
(* phase here; TaskScheduler models it.                                    *)
(***************************************************************************)
EXTENDS Naturals, Sequences, FiniteSets

CONSTANTS
  Stops,      \* the stop requests
  Limit,      \* LIMIT of list_after
  MaxWork,    \* bound: tools that are run
  MaxFaults,  \* bound: calls that raise, and crashes of the process
  MaxDrops    \* bound: connections of the stream that break

ASSUME BoundsAssumption ==
  /\ Limit \in Nat \ {0}
  /\ MaxWork \in Nat
  /\ MaxFaults \in Nat
  /\ MaxDrops \in Nat

VARIABLES
  row,          \* scans.status, "absent" before the insert
  authorized,   \* whether scan_authorizations has the row
  creator,      \* where v2_scans_create is
  handle,       \* whether the registry holds a handle for the scan
  cancelEvent,  \* handle.cancel_event
  worker,       \* where the scan thread is
  verdict,      \* the status the thread is about to write
  broke,        \* where the exception was raised that ended the thread, if one did
  running,      \* how many tools passed their cancel check and did not end
  work,         \* tools run so far
  log,          \* scan_events of this scan, in seq order, as event kinds
  stopper,      \* stopper[s]: where stop request s is
  stream,       \* where the stream generator is
  cursor,       \* its cursor
  upto,         \* the last seq of the rows list_after returned
  fresh,        \* whether list_after returned any
  lastId,       \* the id of the last event the browser has
  got,          \* the events the browser has
  drops, faults

creatorVars == <<creator, authorized>>
threadVars  == <<handle, cancelEvent, worker, verdict, broke, running, work>>
streamVars  == <<stream, cursor, upto, fresh, lastId, got, drops>>
vars == <<row, creatorVars, threadVars, log, stopper, streamVars, faults>>

Terminal == {"completed", "cancelled", "failed"}
Rows     == {"absent", "pending", "queued", "running", "cancelling"} \cup Terminal
Kinds    == {"log", "work", "evidence", "cancelling"} \cup Terminal
Threads  == {"none", "registered", "unstarted", "preflight", "mark", "greet", "execute", "seal",
             "row", "emit", "audit", "exit", "exited", "dead"}
Alive    == Threads \ {"none", "unstarted", "exited", "dead"}
Breaks   == {"no", "early", "row", "emit", "audit"}
Streams  == {"off", "list", "yield", "status"}

-----------------------------------------------------------------------------
Init ==
  /\ row = "absent" /\ authorized = FALSE /\ creator = "insert"
  /\ handle = FALSE /\ cancelEvent = FALSE
  /\ worker = "none" /\ verdict = "completed" /\ broke = "no" /\ running = 0 /\ work = 0
  /\ log = <<>>
  /\ stopper = [s \in Stops |-> "idle"]
  /\ stream = "off" /\ cursor = 0 /\ upto = 0 /\ fresh = FALSE
  /\ lastId = 0 /\ got = <<>> /\ drops = 0
  /\ faults = 0

Fault == faults < MaxFaults /\ faults' = faults + 1

-----------------------------------------------------------------------------
(* v2_scans_create, after the checks that reject the request.                *)

CreateScan ==
  /\ creator = "insert"
  /\ row' = "pending" /\ creator' = "queue"
  /\ UNCHANGED <<authorized, threadVars, log, stopper, streamVars, faults>>

QueueScan ==
  /\ creator = "queue"
  /\ row' = "queued" /\ creator' = "authorize"
  /\ UNCHANGED <<authorized, threadVars, log, stopper, streamVars, faults>>

SaveAuthorization ==
  /\ creator = "authorize"
  /\ authorized' = TRUE /\ creator' = "register"
  /\ UNCHANGED <<row, threadVars, log, stopper, streamVars, faults>>

\* runtime.start puts the handle in the registry, then starts the thread.
Register ==
  /\ creator = "register"
  /\ handle' = TRUE /\ worker' = "registered" /\ creator' = "start"
  /\ UNCHANGED <<row, authorized, cancelEvent, verdict, broke, running, work, log, stopper,
                 streamVars, faults>>

StartThread ==
  /\ creator = "start"
  /\ worker' = "preflight" /\ creator' = "audit"
  /\ UNCHANGED <<row, authorized, handle, cancelEvent, verdict, broke, running, work, log, stopper,
                 streamVars, faults>>

\* thread.start raises, outside the lock and any try block: the handle stays.
StartRaises ==
  /\ creator = "start"
  /\ worker' = "unstarted" /\ creator' = "error"
  /\ Fault
  /\ UNCHANGED <<row, authorized, handle, cancelEvent, verdict, broke, running, work, log, stopper,
                 streamVars>>

AuditCreate ==
  /\ creator = "audit"
  /\ creator' = "accepted"
  /\ UNCHANGED <<row, authorized, threadVars, log, stopper, streamVars, faults>>

\* A database or audit call of the request raises: an error response, and what
\* was written stays, a started thread included.
CreateRaises ==
  /\ creator \in {"queue", "authorize", "audit"}
  /\ creator' = "error"
  /\ Fault
  /\ UNCHANGED <<row, authorized, threadVars, log, stopper, streamVars>>

-----------------------------------------------------------------------------
(* run_p0_scan on the scan thread.                                           *)

At(point, next) ==
  /\ worker = point
  /\ worker' = next

\* preflight_for, the stores and their schemas, outside the try block.
Preflight ==
  /\ At("preflight", "mark")
  /\ UNCHANGED <<row, creatorVars, handle, cancelEvent, verdict, broke, running, work, log, stopper,
                 streamVars, faults>>

MarkRunning ==
  /\ At("mark", "greet")
  /\ row' = "running"
  /\ UNCHANGED <<creatorVars, handle, cancelEvent, verdict, broke, running, work, log, stopper,
                 streamVars, faults>>

Greet ==
  /\ At("greet", "execute")
  /\ log' = Append(log, "log")
  /\ UNCHANGED <<row, creatorVars, handle, cancelEvent, verdict, broke, running, work, stopper,
                 streamVars, faults>>

\* An exception before the try block ends the thread: nothing writes the row.
EarlyRaise ==
  /\ worker \in {"preflight", "mark", "greet"}
  /\ worker' = "exit" /\ broke' = "early"
  /\ Fault
  /\ UNCHANGED <<row, creatorVars, handle, cancelEvent, verdict, running, work, log, stopper,
                 streamVars>>

\* run_tool checks cancel_event and runs; it reports what it found even when
\* the event is set meanwhile.
BeginTool ==
  /\ worker = "execute" /\ ~cancelEvent /\ work < MaxWork
  /\ running' = running + 1 /\ work' = work + 1
  /\ UNCHANGED <<row, creatorVars, handle, cancelEvent, worker, verdict, broke, log, stopper,
                 streamVars, faults>>

ReportTool ==
  /\ running > 0
  /\ running' = running - 1
  /\ log' = Append(log, "work")
  /\ UNCHANGED <<row, creatorVars, handle, cancelEvent, worker, verdict, broke, work, stopper,
                 streamVars, faults>>

\* A tool that fails, times out or is cancelled reports nothing.
EndTool ==
  /\ running > 0
  /\ running' = running - 1
  /\ UNCHANGED <<row, creatorVars, handle, cancelEvent, worker, verdict, broke, work, log, stopper,
                 streamVars, faults>>

\* scheduler.execute returns: every task is over, and none saw cancel_event.
ExecuteReturns ==
  /\ At("execute", "seal") /\ running = 0
  /\ UNCHANGED <<row, creatorVars, handle, cancelEvent, verdict, broke, running, work, log, stopper,
                 streamVars, faults>>

\* Mutant: execute raises without awaiting the tasks it cancelled.
ExecuteCancelledUndrained ==
  /\ At("execute", "row") /\ cancelEvent
  /\ verdict' = "cancelled"
  /\ UNCHANGED <<row, creatorVars, handle, cancelEvent, broke, running, work, log, stopper,
                 streamVars, faults>>

\* Mutant: CancelledError is no Exception, and nothing else catches it.
ExecuteCancelledUncaught ==
  /\ At("execute", "exit") /\ cancelEvent /\ running = 0
  /\ verdict' = "cancelled"
  /\ UNCHANGED <<row, creatorVars, handle, cancelEvent, broke, running, work, log, stopper,
                 streamVars, faults>>

\* A task saw cancel_event, before its tool or by the wrapper's cancel_check, and
\* the others are drained.
ExecuteCancelled ==
  /\ At("execute", "row") /\ cancelEvent /\ running = 0
  /\ verdict' = "cancelled"
  /\ UNCHANGED <<row, creatorVars, handle, cancelEvent, broke, running, work, log, stopper,
                 streamVars, faults>>

\* execute raises otherwise, as when the guard refuses the scan.
ExecuteRaises ==
  /\ At("execute", "row") /\ running = 0
  /\ verdict' = "failed"
  /\ UNCHANGED <<row, creatorVars, handle, cancelEvent, broke, running, work, log, stopper,
                 streamVars, faults>>

\* assemble_scan, seal_scan and the evidence event.
Seal ==
  /\ At("seal", "row")
  /\ log' = Append(log, "evidence")
  /\ UNCHANGED <<row, creatorVars, handle, cancelEvent, verdict, broke, running, work, stopper,
                 streamVars, faults>>

\* The same three calls on each way out: the row, the event, the audit record.
WriteVerdict ==
  /\ At("row", "emit")
  /\ row' = verdict
  /\ UNCHANGED <<creatorVars, handle, cancelEvent, verdict, broke, running, work, log, stopper,
                 streamVars, faults>>

EmitVerdict ==
  /\ At("emit", "audit")
  /\ log' = Append(log, verdict)
  /\ UNCHANGED <<row, creatorVars, handle, cancelEvent, verdict, broke, running, work, stopper,
                 streamVars, faults>>

AuditVerdict ==
  /\ At("audit", "exit")
  /\ UNCHANGED <<row, creatorVars, handle, cancelEvent, verdict, broke, running, work, log, stopper,
                 streamVars, faults>>

\* One of these calls raises: inside the try block the scan is rewritten as
\* failed, inside an except clause the thread ends where it is.
ClosingRaises ==
  /\ worker \in {"seal", "row", "emit", "audit"}
  /\ IF verdict = "completed"
     THEN worker' = "row" /\ verdict' = "failed" /\ UNCHANGED broke
     ELSE worker' = "exit" /\ broke' = worker /\ UNCHANGED verdict
  /\ Fault
  /\ UNCHANGED <<row, creatorVars, handle, cancelEvent, running, work, log, stopper, streamVars>>

\* run_registered: the finally clause takes the handle out of the registry.
LeaveRegistry ==
  /\ At("exit", "exited")
  /\ handle' = FALSE
  /\ UNCHANGED <<row, creatorVars, cancelEvent, verdict, broke, running, work, log, stopper,
                 streamVars, faults>>

ThreadStep ==
  \/ Preflight \/ MarkRunning \/ Greet \/ BeginTool \/ ReportTool \/ EndTool
  \/ ExecuteReturns \/ ExecuteCancelled \/ ExecuteRaises
  \/ Seal \/ WriteVerdict \/ EmitVerdict \/ AuditVerdict \/ LeaveRegistry

-----------------------------------------------------------------------------
(* v2_scans_stop.                                                            *)

RequestStop(s) ==
  /\ stopper[s] = "idle" /\ authorized
  /\ IF handle
     THEN cancelEvent' = TRUE /\ stopper' = [stopper EXCEPT ![s] = "write"]
     ELSE UNCHANGED cancelEvent /\ stopper' = [stopper EXCEPT ![s] = "refused"]
  /\ UNCHANGED <<row, creatorVars, handle, worker, verdict, broke, running, work, log, streamVars, faults>>

WriteCancelling(s) ==
  /\ stopper[s] = "write"
  /\ row' = "cancelling"
  /\ stopper' = [stopper EXCEPT ![s] = "audit"]
  /\ UNCHANGED <<creatorVars, threadVars, log, streamVars, faults>>

AuditStop(s) ==
  /\ stopper[s] = "audit"
  /\ stopper' = [stopper EXCEPT ![s] = "append"]
  /\ UNCHANGED <<row, creatorVars, threadVars, log, streamVars, faults>>

AppendCancelling(s) ==
  /\ stopper[s] = "append"
  /\ log' = Append(log, "cancelling")
  /\ stopper' = [stopper EXCEPT ![s] = "accepted"]
  /\ UNCHANGED <<row, creatorVars, threadVars, streamVars, faults>>

StopRaises(s) ==
  /\ stopper[s] \in {"write", "audit", "append"}
  /\ stopper' = [stopper EXCEPT ![s] = "error"]
  /\ Fault
  /\ UNCHANGED <<row, creatorVars, threadVars, log, streamVars>>

StopStep(s) == WriteCancelling(s) \/ AuditStop(s) \/ AppendCancelling(s)

-----------------------------------------------------------------------------
(* v2_scan_events.  list_after returns rows that no one changes or deletes,  *)
(* so its result is the interval cursor+1..upto of the log.                  *)

\* Mutant: Last-Event-ID is taken for the next event instead of the last.
ConnectPastNext ==
  /\ stream = "off" /\ authorized
  /\ stream' = "list" /\ cursor' = lastId + 1 /\ upto' = lastId + 1 /\ fresh' = FALSE
  /\ UNCHANGED <<row, creatorVars, threadVars, log, stopper, lastId, got, drops, faults>>

Connect ==
  /\ stream = "off" /\ authorized
  /\ stream' = "list" /\ cursor' = lastId /\ upto' = lastId /\ fresh' = FALSE
  /\ UNCHANGED <<row, creatorVars, threadVars, log, stopper, lastId, got, drops, faults>>

\* Mutant: an off-by-one in the comparison with the cursor.
ListAfterNext ==
  /\ stream = "list"
  /\ upto' = IF Len(log) > cursor + Limit THEN cursor + Limit ELSE Len(log)
  /\ fresh' = (Len(log) > cursor + 1)
  /\ stream' = IF Len(log) > cursor + 1 THEN "yield" ELSE "status"
  /\ UNCHANGED <<row, creatorVars, threadVars, log, stopper, cursor, lastId, got, drops, faults>>

ListAfter ==
  /\ stream = "list"
  /\ upto' = IF Len(log) > cursor + Limit THEN cursor + Limit ELSE Len(log)
  /\ fresh' = (Len(log) > cursor)
  /\ stream' = IF Len(log) > cursor THEN "yield" ELSE "status"
  /\ UNCHANGED <<row, creatorVars, threadVars, log, stopper, cursor, lastId, got, drops, faults>>

Yield ==
  /\ stream = "yield"
  /\ cursor' = cursor + 1
  /\ lastId' = cursor + 1
  /\ got' = Append(got, log[cursor + 1])
  /\ stream' = IF cursor + 1 = upto THEN "status" ELSE "yield"
  /\ UNCHANGED <<row, creatorVars, threadVars, log, stopper, upto, fresh, drops, faults>>

CheckStatus ==
  /\ stream = "status"
  /\ stream' = IF row \in Terminal /\ ~fresh THEN "off" ELSE "list"
  /\ UNCHANGED <<row, creatorVars, threadVars, log, stopper, cursor, upto, fresh, lastId, got,
                 drops, faults>>

\* The connection breaks; an event on its way is lost with it.
Drop ==
  /\ stream # "off" /\ drops < MaxDrops
  /\ stream' = "off" /\ drops' = drops + 1
  /\ UNCHANGED <<row, creatorVars, threadVars, log, stopper, cursor, upto, fresh, lastId, got,
                 faults>>

StreamStep == Connect \/ ListAfter \/ Yield \/ CheckStatus

-----------------------------------------------------------------------------
\* The process ends and is started again: what is in memory is gone, and
\* nothing repairs the row.
Crash ==
  /\ Fault
  /\ creator' = IF creator \in {"insert", "accepted", "error"} THEN creator ELSE "error"
  /\ handle' = FALSE /\ cancelEvent' = FALSE /\ running' = 0
  /\ worker' = IF worker \in Alive \cup {"unstarted"} THEN "dead" ELSE worker
  /\ stopper' = [s \in Stops |-> IF stopper[s] \in {"write", "audit", "append"}
                                 THEN "error" ELSE stopper[s]]
  /\ stream' = "off"
  /\ UNCHANGED <<row, authorized, verdict, broke, work, log, cursor, upto, fresh, lastId, got, drops>>

CreateStep == CreateScan \/ QueueScan \/ SaveAuthorization \/ Register \/ StartThread
              \/ AuditCreate

Next ==
  \/ CreateStep \/ CreateRaises \/ StartRaises
  \/ ThreadStep \/ EarlyRaise \/ ClosingRaises
  \/ \E s \in Stops : RequestStop(s) \/ StopStep(s) \/ StopRaises(s)
  \/ StreamStep \/ Drop
  \/ Crash

Spec == Init /\ [][Next]_vars

\* The server's threads run on, a tool ends within its timeout, and the browser
\* reconnects by itself.  Nobody has to send a stop request.
Fairness ==
  /\ WF_vars(CreateStep)
  /\ WF_vars(ThreadStep)
  /\ \A s \in Stops : WF_vars(StopStep(s))
  /\ WF_vars(StreamStep)

FairSpec == Spec /\ Fairness

-----------------------------------------------------------------------------
ControlTypeOK ==
  /\ row \in Rows
  /\ authorized \in BOOLEAN
  /\ creator \in {"insert", "queue", "authorize", "register", "start", "audit",
                  "accepted", "error"}
  /\ handle \in BOOLEAN /\ cancelEvent \in BOOLEAN
  /\ worker \in Threads /\ verdict \in Terminal /\ broke \in Breaks
  /\ running \in Nat /\ work \in 0..MaxWork
  /\ stopper \in [Stops -> {"idle", "write", "audit", "append", "accepted", "refused", "error"}]

StreamTypeOK ==
  /\ stream \in Streams /\ cursor \in Nat /\ upto \in Nat /\ fresh \in BOOLEAN
  /\ lastId \in Nat
  /\ drops \in 0..MaxDrops /\ faults \in 0..MaxFaults

LogTypeOK == log \in Seq(Kinds) /\ got \in Seq(Kinds)

TypeOK == ControlTypeOK /\ StreamTypeOK /\ LogTypeOK

\* What the browser has is the log from its first event on, without a gap, a
\* repetition or a reordering, however often it reconnects with Last-Event-ID.
GapFreeReplay ==
  /\ lastId = Len(got)
  /\ Len(got) <= Len(log)
  /\ \A i \in 1..Len(got) : got[i] = log[i]

\* A thread alive is always within reach of a stop request, and no exception of
\* the thread and no crash leaves its handle behind.  The handle of a thread that
\* could not be started does stay, until the process ends: a stop request is
\* accepted for it though nothing runs.
RegistryKnowsThread == handle <=> worker \in Alive \cup {"unstarted"}

\* Only an authorized scan has a thread, so that stop and stream, which load the
\* authorization first, work for every scan that runs.
ThreadIsAuthorized == worker # "none" => authorized

SecondVerdictFails ==
  \A i, j \in DOMAIN log : i < j /\ {log[i], log[j]} \subseteq Terminal =>
    log[i] = "completed" /\ log[j] = "failed"

\* A stop request found the handle.
StopAnswered == \E s \in Stops : stopper[s] \notin {"idle", "refused"}

\* Where the verdict is in the log: no verdict comes behind it.
LoggedLast(v) == \E i \in DOMAIN log : log[i] = v /\ \A j \in DOMAIN log : j > i => log[j] \notin Terminal

\* Whatever raised, a scan is given a second verdict only when it was completed
\* before, and that is failed; once the thread is gone its last verdict is in the
\* row, unless a stop request wrote over it, and in the log, behind no other.  Only
\* an exception before the try block leaves none, and one inside an except clause
\* loses the write it is in and those after it.
VerdictStands ==
  /\ SecondVerdictFails
  /\ worker = "exited" =>
       /\ broke \in {"no", "emit", "audit"} => row = verdict \/ (StopAnswered /\ row = "cancelling")
       /\ broke \in {"no", "audit"} => LoggedLast(verdict)
       /\ broke = "early" => row \notin Terminal /\ \A i \in DOMAIN log : log[i] \notin Terminal

\* With or without stop requests and calls that raise, no tool reports after the
\* scan's verdict: execute never returns or raises with a tool still at work.
NoWorkAfterVerdict ==
  \A i, j \in DOMAIN log : i < j /\ log[i] \in Terminal => log[j] # "work"

\* A row that is terminal never sees a tool start.
TerminalRowIsQuiet ==
  [][(row \in Terminal) => UNCHANGED work]_vars

\* The browser, which reconnects by itself, catches up with the log again and again,
\* so every event reaches it.
EventsArrive == []<>(Len(got) = Len(log))

\* A scan that has a row ends: its thread leaves the registry with a verdict in the
\* log and in the row, where only a stop request may have written over it.  That
\* is so whatever raises inside the try block; what it takes to leave the row as it
\* is for ever is a request that failed before the thread ran, an exception before
\* the try block or inside an except clause, or the end of the process.
Ended ==
  /\ worker = "exited" /\ ~handle
  /\ row \in Terminal \cup {"cancelling"}
  /\ \E i \in DOMAIN log : log[i] \in Terminal

Abandoned ==
  \/ creator = "error" /\ worker \in {"none", "unstarted"}
  \/ broke # "no"
  \/ worker = "dead"

ScanEnds == row # "absent" ~> Ended \/ Abandoned

\* After an accepted stop request the scan reaches a terminal status.
StoppedScanSettles == \A s \in Stops : stopper[s] = "accepted" ~> row \in Terminal

-----------------------------------------------------------------------------
(* The strengthening the proofs rest on.                                     *)

Closing == {"row", "emit", "audit", "exit", "exited", "dead"}

Verdicts == {i \in DOMAIN log : log[i] \in Terminal}

\* What the request has done says whether there is a thread.
CreatorKnowsThread ==
  /\ creator \in {"insert", "queue", "authorize", "register"} => worker = "none"
  /\ creator = "register" => authorized
  /\ creator = "start" <=> worker = "registered"

\* Tools run inside execute only.
ToolsInExecute ==
  /\ running > 0 => worker = "execute"
  /\ running <= work

\* A terminal row and a verdict in the log are written by a closing thread.
VerdictIsLate ==
  /\ row \in Terminal => worker \in Closing
  /\ Verdicts # {} => worker \in Closing

\* What a stream holds was in the log when it was read.
StreamWithinLog ==
  stream # "off" =>
    /\ cursor = lastId
    /\ upto <= Len(log)
    /\ stream = "yield" => cursor < upto

\* What a thread that was not broken off before has written, by how far it is: the
\* row from "emit" on, the event from "audit" on; a thread that is still to report
\* has at most a completed verdict behind it, which it reports as failed now.
Passed(points) == worker \in points \/ (worker \in {"exit", "exited"} /\ broke \in points \cup {"no"})

ThreadReported ==
  /\ worker \in Threads \ {"exit", "exited", "dead"} => broke = "no"
  /\ worker \notin Closing => verdict = "completed"
  /\ Passed({"emit", "audit"}) => row = verdict \/ (StopAnswered /\ row = "cancelling")
  /\ Passed({"audit"}) => LoggedLast(verdict)
  /\ broke = "early" => worker \in {"exit", "exited", "dead"} /\ row \notin Terminal /\ Verdicts = {}
  /\ worker \in {"row", "emit"} => \A i \in Verdicts : log[i] = "completed" /\ verdict = "failed"

LifecycleInv ==
  /\ TypeOK
  /\ CreatorKnowsThread
  /\ RegistryKnowsThread
  /\ ThreadIsAuthorized
  /\ ToolsInExecute
  /\ VerdictIsLate
  /\ StreamWithinLog
  /\ GapFreeReplay
  /\ NoWorkAfterVerdict
  /\ ThreadReported
  /\ SecondVerdictFails

\* No tool works once there is a verdict, in the log or in the row; the registry
\* knows every thread; and what a thread's verdict was can be read when it is gone,
\* but for the exceptions that VerdictStands names.
VerdictIsTheEnd ==
  /\ [](NoWorkAfterVerdict /\ RegistryKnowsThread /\ VerdictStands)
  /\ TerminalRowIsQuiet
=============================================================================
