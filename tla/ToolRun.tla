------------------------------ MODULE ToolRun ------------------------------
(***************************************************************************)
(* One tool of a v2 scan: run_tool (app/v2_pipeline.py), which authorizes, *)
(* attempts and records, around run_with_evidence                          *)
(* (app/engine/tool_wrapper.py), which tries every available backend       *)
(* (app/tools/backends.py) several times, each time with a child process.  *)
(*                                                                         *)
(* An action ends where the coroutine awaits; there, and only there, the   *)
(* scheduler's cancellation and the wait_for around the wrapper can strike. *)
(* That wait_for starts first and has the wrapper's own timeout, so it     *)
(* fires before any timeout inside, and those are left out.  cancel_event  *)
(* and the consent are changed by other threads at any time.  The process  *)
(* is the one asyncio starts: what a container runtime or a remote worker  *)
(* does after it is gone is outside the code.                              *)
(***************************************************************************)
EXTENDS Naturals

CONSTANTS
  Backends,   \* how many backends can run the tool
  Retries,    \* the class's retries: of each backend, and of the whole run
  MaxFaults   \* bound: calls to the stores that raise

ASSUME RunAssumption == Backends \in Nat /\ Retries \in Nat /\ MaxFaults \in Nat

\* RetryPolicy.max_attempts.
MaxAttempts == IF Retries + 1 > 8 THEN 8 ELSE Retries + 1

VARIABLES
  pc,           \* where run_tool awaits, or its next synchronous step
  row,          \* status of the tool_runs row
  attempt,      \* attempt of run_tool
  backend,      \* index of the backend in use
  try,          \* attempt of the wrapper with this backend
  child,        \* whether a process of this run is alive
  lastResult,   \* whether the wrapper has a result to attach to its error
  stored,       \* whether the raw output of the last process is in the store
  persisted,    \* whether its findings are in the database
  cancelEvent,
  revoked,      \* 0, or 1 + the attempt at which the consent was revoked
  spawns,       \* processes started
  late,         \* processes started after cancel_event was set
  result,       \* how run_tool ended
  faults

loopVars  == <<attempt, backend, try>>
dataVars  == <<stored, persisted>>
worldVars == <<cancelEvent, revoked>>
countVars == <<spawns, late>>
vars == <<pc, row, loopVars, child, lastResult, dataVars, worldVars, countVars, result, faults>>

Awaits  == {"first rate", "rate", "pause", "exec", "child", "nap", "backoff"}
Wrapper == {"pause", "exec", "child", "nap"}
Results == {"none", "returned", "failed", "denied", "cancelled"}

Init ==
  /\ pc = "start" /\ row = "none"
  /\ attempt = 1 /\ backend = 1 /\ try = 0
  /\ child = FALSE /\ lastResult = FALSE
  /\ stored = FALSE /\ persisted = FALSE
  /\ cancelEvent = FALSE /\ revoked = 0
  /\ spawns = 0 /\ late = 0
  /\ result = "none" /\ faults = 0

\* run_tool ends; status is what finish_tool_run writes, if it is called.
End(how, status) ==
  /\ pc' = "end" /\ result' = how /\ row' = status
  /\ UNCHANGED <<loopVars, dataVars>>

-----------------------------------------------------------------------------
(* run_tool up to the wrapper.                                               *)

\* Failed dependencies, cancel_event and the guard, before there is a row.
Start ==
  /\ pc = "start"
  /\ \/ End("failed", row)
     \/ cancelEvent /\ End("cancelled", row)
     \/ ~cancelEvent /\ revoked # 0 /\ End("denied", row)
     \/ /\ ~cancelEvent /\ revoked = 0
        /\ pc' = "first rate"
        /\ UNCHANGED <<row, loopVars, dataVars, result>>
  /\ UNCHANGED <<child, lastResult, worldVars, countVars, faults>>

CreateRun ==
  /\ pc = "first rate"
  /\ pc' = "check" /\ row' = "running"
  /\ UNCHANGED <<loopVars, child, lastResult, dataVars, worldVars, countVars, result, faults>>

\* Mutant: the guard is asked before the first attempt only.
CheckFirst ==
  /\ pc = "check"
  /\ \/ cancelEvent /\ End("cancelled", "cancelled")
     \/ ~cancelEvent /\ revoked # 0 /\ attempt = 1 /\ End("denied", "failed")
     \/ /\ ~cancelEvent /\ (revoked = 0 \/ attempt > 1)
        /\ pc' = "rate"
        /\ UNCHANGED <<row, loopVars, dataVars, result>>
  /\ UNCHANGED <<child, lastResult, worldVars, countVars, faults>>

\* The head of an attempt: cancel_event, then the guard.
Check ==
  /\ pc = "check"
  /\ \/ cancelEvent /\ End("cancelled", "cancelled")
     \/ ~cancelEvent /\ revoked # 0 /\ End("denied", "failed")
     \/ /\ ~cancelEvent /\ revoked = 0
        /\ pc' = "rate"
        /\ UNCHANGED <<row, loopVars, dataVars, result>>
  /\ UNCHANGED <<child, lastResult, worldVars, countVars, faults>>

\* The rate is granted; the wrapper looks at cancel_event and at the scope, and
\* raises when the options are invalid or no backend can run.
Enter ==
  /\ pc = "rate"
  /\ \/ cancelEvent /\ End("cancelled", "cancelled") /\ UNCHANGED lastResult
     \/ ~cancelEvent /\ End("denied", "failed") /\ UNCHANGED lastResult
     \/ /\ ~cancelEvent
        /\ pc' \in IF Backends = 0 THEN {"raised"} ELSE {"raised", "pause"}
        /\ backend' = 1 /\ try' = 0 /\ lastResult' = FALSE
        /\ UNCHANGED <<row, attempt, dataVars, result>>
  /\ UNCHANGED <<child, worldVars, countVars, faults>>

-----------------------------------------------------------------------------
(* run_with_evidence: one pass of its inner loop.                            *)

\* cancel_event, then the wrapper's own rate limit.
Pause ==
  /\ pc = "pause"
  /\ \/ cancelEvent /\ End("cancelled", "cancelled")
     \/ ~cancelEvent /\ pc' = "exec" /\ UNCHANGED <<row, loopVars, dataVars, result>>
  /\ UNCHANGED <<child, lastResult, worldVars, countVars, faults>>

\* The task of backend.exec starts the process.
Spawn ==
  /\ pc = "exec"
  /\ child' = TRUE /\ pc' = "child"
  /\ spawns' = spawns + 1
  /\ late' = IF cancelEvent THEN late + 1 ELSE late
  /\ stored' = FALSE /\ persisted' = FALSE
  /\ UNCHANGED <<row, loopVars, lastResult, worldVars, result, faults>>

\* _await_with_cancel polls cancel_event, cancels the task, which kills the
\* process, and waits for it.
PollCancel ==
  /\ pc \in {"exec", "child"} /\ cancelEvent
  /\ child' = FALSE
  /\ End("cancelled", "cancelled")
  /\ UNCHANGED <<lastResult, worldVars, countVars, faults>>

\* The process ends with output the parser accepts.
Succeed ==
  /\ pc = "child"
  /\ child' = FALSE /\ pc' = "record"
  /\ UNCHANGED <<row, loopVars, lastResult, dataVars, worldVars, countVars, result, faults>>

\* After a failed try: the same backend again, the next one, or the wrapper's
\* ToolExecutionError.
NextTry ==
  IF try < Retries THEN pc' = "nap" /\ UNCHANGED <<backend, try>>
  ELSE IF backend < Backends THEN pc' = "pause" /\ backend' = backend + 1 /\ try' = 0
  ELSE pc' = "raised" /\ UNCHANGED <<backend, try>>

\* Unavailable after all, a process that cannot be started or an HTTP error
\* leave no result; a bad exit code or unparsable output leaves one.  An exception
\* the wrapper does not list passes through it at once.
FailTry ==
  /\ pc \in {"exec", "child"}
  /\ child' = FALSE
  /\ \/ NextTry /\ lastResult' \in IF pc = "child" THEN {lastResult, TRUE} ELSE {lastResult}
     \/ pc' = "raised" /\ lastResult' = FALSE /\ UNCHANGED <<backend, try>>
  /\ UNCHANGED <<row, attempt, dataVars, worldVars, countVars, result, faults>>

Nap ==
  /\ pc = "nap"
  /\ pc' = "pause" /\ try' = try + 1
  /\ UNCHANGED <<row, attempt, backend, child, lastResult, dataVars, worldVars, countVars,
                 result, faults>>

\* Mutant: the cancelled task of backend.exec is not awaited and kills nothing.
TimeoutUnkilled ==
  /\ pc \in Wrapper
  /\ pc' = "raised" /\ lastResult' = FALSE
  /\ UNCHANGED <<row, loopVars, child, dataVars, worldVars, countVars, result, faults>>

\* wait_for cancels the wrapper wherever it awaits; its results are lost.
Timeout ==
  /\ pc \in Wrapper
  /\ child' = FALSE
  /\ pc' = "raised" /\ lastResult' = FALSE
  /\ UNCHANGED <<row, loopVars, dataVars, worldVars, countVars, result, faults>>

-----------------------------------------------------------------------------
(* run_tool after the wrapper.                                               *)

\* The tail of the two except clauses that retry.
AfterFailure ==
  IF attempt >= MaxAttempts THEN End("failed", "failed")
  ELSE pc' = "backoff" /\ UNCHANGED <<row, loopVars, dataVars, result>>

\* The wrapper raised; the result its error carries goes to the evidence store.
Raised ==
  /\ pc = "raised"
  /\ AfterFailure
  /\ UNCHANGED <<child, lastResult, worldVars, countVars, faults>>

Backoff ==
  /\ pc = "backoff"
  /\ pc' = "check" /\ attempt' = attempt + 1
  /\ UNCHANGED <<row, backend, try, child, lastResult, dataVars, worldVars, countVars,
                 result, faults>>

Record ==
  /\ pc = "record"
  /\ stored' = TRUE /\ pc' = "persist"
  /\ UNCHANGED <<row, loopVars, child, lastResult, persisted, worldVars, countVars,
                 result, faults>>

Persist ==
  /\ pc = "persist"
  /\ persisted' = TRUE /\ pc' = "finish"
  /\ UNCHANGED <<row, loopVars, child, lastResult, stored, worldVars, countVars, result, faults>>

Finish ==
  /\ pc = "finish"
  /\ row' = "completed" /\ pc' = "emit"
  /\ UNCHANGED <<loopVars, child, lastResult, dataVars, worldVars, countVars, result, faults>>

Emit ==
  /\ pc = "emit"
  /\ End("returned", row)
  /\ UNCHANGED <<child, lastResult, worldVars, countVars, faults>>

\* A call raises: in the try block the whole attempt is tried again, even after
\* the row says completed; before it and in an except clause the exception leaves
\* run_tool.
Fault ==
  /\ faults < MaxFaults /\ faults' = faults + 1
  /\ \/ pc = "first rate" /\ End("failed", row)
     \/ pc \in {"record", "persist", "finish", "emit"} /\ AfterFailure
     \/ pc = "raised" /\ lastResult /\ End("failed", row)
  /\ UNCHANGED <<child, lastResult, worldVars, countVars>>

-----------------------------------------------------------------------------
\* Mutant: the try block begins after the rate limit.
CancelBeforeTry ==
  /\ pc \in Awaits
  /\ child' = FALSE
  /\ End("cancelled", IF pc \in Wrapper THEN "cancelled" ELSE row)
  /\ UNCHANGED <<lastResult, worldVars, countVars, faults>>

\* The scheduler cancels the task.  Inside the try block the row is finished; the
\* backoff sleeps in an except clause, out of reach of the clause that does it.
Cancel ==
  /\ pc \in Awaits
  /\ child' = FALSE
  /\ End("cancelled", IF pc \in Wrapper \cup {"rate"} THEN "cancelled" ELSE row)
  /\ UNCHANGED <<lastResult, worldVars, countVars, faults>>

RequestCancel ==
  /\ ~cancelEvent /\ cancelEvent' = TRUE
  /\ UNCHANGED <<pc, row, loopVars, child, lastResult, dataVars, revoked, countVars,
                 result, faults>>

Revoke ==
  /\ revoked = 0 /\ revoked' = 1 + attempt
  /\ UNCHANGED <<pc, row, loopVars, child, lastResult, dataVars, cancelEvent, countVars,
                 result, faults>>

Step ==
  \/ Start \/ CreateRun \/ Check \/ Enter
  \/ Pause \/ Spawn \/ PollCancel \/ Succeed \/ FailTry \/ Nap \/ Timeout
  \/ Raised \/ Backoff \/ Record \/ Persist \/ Finish \/ Emit

Ended == pc = "end" /\ UNCHANGED vars

Next == Step \/ Fault \/ Cancel \/ RequestCancel \/ Revoke \/ Ended

Spec == Init /\ [][Next]_vars

\* asyncio resumes the task; a permit of the rate governor comes with time, and a
\* process ends, or the timeout does it.
FairSpec == Spec /\ WF_vars(Step)

-----------------------------------------------------------------------------
TypeOK ==
  /\ pc \in Awaits \cup {"start", "check", "raised", "record", "persist", "finish", "emit", "end"}
  /\ row \in {"none", "running", "completed", "failed", "cancelled"}
  /\ attempt \in 1..MaxAttempts /\ backend \in 1..(IF Backends = 0 THEN 1 ELSE Backends) /\ try \in 0..Retries
  /\ child \in BOOLEAN /\ lastResult \in BOOLEAN
  /\ stored \in BOOLEAN /\ persisted \in BOOLEAN
  /\ cancelEvent \in BOOLEAN /\ revoked \in 0..(1 + MaxAttempts)
  /\ spawns \in Nat /\ late \in Nat
  /\ result \in Results /\ faults \in 0..MaxFaults

\* A process is alive only while the wrapper waits for it: no way out of run_tool,
\* by timeout, by the operator or by the scheduler, leaves one behind.
NoOrphanProcess == child => pc = "child"

\* After the operator's request at most the process already on its way starts.
AtMostOneLateSpawn == late <= 1

\* The retries of the wrapper and of run_tool multiply, and end there.
SpawnBound ==
  spawns <= (attempt - 1) * Backends * (Retries + 1)
            + (IF pc \in Wrapper \cup {"raised", "record", "persist", "finish", "emit",
                                       "end", "backoff"}
               THEN (backend - 1) * (Retries + 1) + try + 1 ELSE 0)

\* A run that returned its findings has its row completed and the output and the
\* findings of its last process stored, however many attempts it took.
ReturnedIsBacked == result = "returned" => row = "completed" /\ stored /\ persisted

\* run_tool leaves the row at running only when it is cancelled during a backoff
\* or when the evidence store refused the output of a failed run: every other way
\* out, cancellation in the rate limit included, finishes the row.
RowSettles ==
  [][pc' = "end" /\ pc # "end" /\ row' = "running"
       => pc = "backoff" \/ faults' > faults]_vars

\* Guardrail denials are never retried: a consent revoked during an attempt lets
\* no process of a later attempt start.
RevocationEndsWithAttempt ==
  [][spawns' # spawns /\ revoked # 0 => 1 + attempt = revoked]_vars

\* A tool ends, whatever its backends do.
RunEnds == <>(pc = "end")

\* No process outlives the wait for it, at most one starts after a cancellation,
\* and what is returned was stored.
ProcessesAreHeld == NoOrphanProcess /\ AtMostOneLateSpawn /\ ReturnedIsBacked

\* A tool run ends, after no more processes than its retries allow, and with its
\* row settled.
RunSettles == RunEnds /\ []SpawnBound /\ RowSettles
=============================================================================
