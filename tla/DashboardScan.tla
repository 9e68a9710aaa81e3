---------------------------- MODULE DashboardScan ----------------------------
(***************************************************************************)
(* The first dashboard's scans (app/server.py): one thread per scan runs   *)
(* its tools one after the other; the set of cancelled scans and a bounded *)
(* queue per browser are shared; the target may be deleted under a scan.   *)
(***************************************************************************)
EXTENDS Naturals, Sequences, FiniteSets

CONSTANTS
  Scans,      \* scans of the one target
  NTools(_),  \* number of tools select_tools and the resolver left for a scan
  Capacity,   \* maxsize of a browser's queue
  MaxFaults   \* bound: statements, authorizations, tools and threads that raise

VARIABLES
  db,    \* target: is its row there; row: status of a scan's row or "none";
         \* runs: a scan's tool_runs rows
  mem,   \* flag: scan_cancel; client: the browser; channel: its queue
  proc,  \* at: where a scan's thread is; say: what it broadcasts and where it
         \* goes on; begun, sent: tools and broadcasts; asker: scans_cancel
  hist   \* seen: the browser's last event of a scan; heeded: scans cancelled
         \* before their last tool; stuck: the status an exception left a row
         \* in for good, or "no"; unclosed: scans with a tool run no statement
         \* closed; faults

vars == <<db, mem, proc, hist>>

Final == {"completed", "cancelled", "failed"}

Init ==
  /\ db = [target |-> TRUE, row |-> [s \in Scans |-> "none"], runs |-> [s \in Scans |-> <<>>]]
  /\ mem = [flag |-> {}, client |-> FALSE, channel |-> <<>>]
  /\ proc = [at |-> [s \in Scans |-> "none"], asker |-> [s \in Scans |-> "idle"],
             say |-> [s \in Scans |-> [status |-> "none", next |-> "over"]],
             begun |-> [s \in Scans |-> 0], sent |-> [s \in Scans |-> 0]]
  /\ hist = [seen |-> [s \in Scans |-> [scan |-> s, n |-> 0, status |-> "none"]],
             heeded |-> {}, stuck |-> [s \in Scans |-> "no"], unclosed |-> {}, faults |-> 0]

At(s, p) == proc.at[s] = p
Gone(s) == db.row[s] = "none"
Goto(s, p) == proc' = [proc EXCEPT !.at[s] = p]
\* A broadcast with a status of the scan, or with "none": a log line, a finding.
Saying(s, status, p) ==
  [proc EXCEPT !.at[s] = "put", !.sent[s] = @ + 1, !.say[s] = [status |-> status, next |-> p]]
Say(s, status, p) == proc' = Saying(s, status, p)

\* An UPDATE of a row that the deletion took away changes nothing.
SetRow(s, status) == db' = [db EXCEPT !.row[s] = IF Gone(s) THEN @ ELSE status]
EndRun(s, status) ==
  db' = [db EXCEPT !.runs[s] = IF @ = <<>> THEN @ ELSE [@ EXCEPT ![Len(@)] = status]]

------------------------------------------------------------------------------
(* The requests: scans_create, scans_cancel, targets_delete.                  *)

\* After its authorization; the INSERT refers to the target.
Create(s) ==
  /\ At(s, "none") /\ db.target
  /\ db' = [db EXCEPT !.row[s] = "pending"]
  /\ Goto(s, "created") /\ UNCHANGED <<mem, hist>>

\* The row is read back before the thread starts; a row that is gone ends the
\* request, and so does a thread that does not start (Raise).
Launch(s) ==
  /\ At(s, "created")
  /\ Goto(s, IF Gone(s) THEN "over" ELSE "start") /\ UNCHANGED <<db, mem, hist>>

CancelLooksUp(s) ==
  /\ proc.asker[s] = "idle" /\ ~Gone(s)
  /\ proc' = [proc EXCEPT !.asker[s] = "found"] /\ UNCHANGED <<db, mem, hist>>

CancelFlags(s) ==
  /\ proc.asker[s] = "found"
  /\ proc' = [proc EXCEPT !.asker[s] = "accepted"]
  /\ mem' = [mem EXCEPT !.flag = @ \cup {s}]
  /\ hist' = IF proc.begun[s] < NTools(s) THEN [hist EXCEPT !.heeded = @ \cup {s}] ELSE hist
  /\ UNCHANGED db

\* Scans, findings and tool runs go with the target.
DeleteTarget ==
  /\ db.target
  /\ db' = [target |-> FALSE, row |-> [s \in Scans |-> "none"], runs |-> [s \in Scans |-> <<>>]]
  /\ UNCHANGED <<mem, proc, hist>>

------------------------------------------------------------------------------
(* scan_worker and execute_one_tool.                                          *)

Start(s) ==
  /\ At(s, "start")
  /\ SetRow(s, "running") /\ Goto(s, "authorize") /\ UNCHANGED <<mem, hist>>

\* preflight_for and filter_resolver_tools passed.
Authorize(s) ==
  /\ At(s, "authorize")
  /\ Say(s, "none", "skipped") /\ UNCHANGED <<db, mem, hist>>

\* What was skipped is logged, in a row that refers to the scan.
Skipped(s) ==
  /\ At(s, "skipped")
  /\ \/ NTools(s) = 0 /\ Goto(s, "fail")
     \/ NTools(s) > 0 /\ Goto(s, "loop")
     \/ NTools(s) > 0 /\ Gone(s) /\ Goto(s, "fail")
  /\ UNCHANGED <<db, mem, hist>>

\* The head of the loop over the tools.
Check(s) ==
  /\ At(s, "loop")
  /\ IF s \in mem.flag
       THEN SetRow(s, "cancelled") /\ Say(s, "cancelled", "finally")
       ELSE proc' = [Saying(s, "none", "open") EXCEPT !.begun[s] = @ + 1] /\ UNCHANGED db
  /\ UNCHANGED <<mem, hist>>

\* create_tool_run refers to scan and target.
OpenRun(s) ==
  /\ At(s, "open")
  /\ IF Gone(s) THEN Goto(s, "toolError") /\ UNCHANGED db
     ELSE Goto(s, "tool") /\ db' = [db EXCEPT !.runs[s] = Append(@, "running")]
  /\ UNCHANGED <<mem, hist>>

\* A new finding is announced, or cannot be stored, or there is none.
ToolEnds(s) ==
  /\ At(s, "tool")
  /\ \/ ~Gone(s) /\ Say(s, "none", "closeRun")
     \/ Gone(s) /\ Goto(s, "runFailed")
     \/ Goto(s, "closeRun")
  /\ UNCHANGED <<db, mem, hist>>

CloseRun(s) ==
  /\ At(s, "closeRun")
  /\ Goto(s, "progress") /\ EndRun(s, "completed") /\ UNCHANGED <<mem, hist>>

\* The except clause of execute_one_tool.
FailRun(s) ==
  /\ At(s, "runFailed")
  /\ Goto(s, "toolError") /\ EndRun(s, "failed") /\ UNCHANGED <<mem, hist>>

\* The except clause of one tool: its log row refers to the scan.
ToolError(s) ==
  /\ At(s, "toolError")
  /\ IF Gone(s) THEN Goto(s, "fail") ELSE Say(s, "none", "progress")
  /\ UNCHANGED <<db, mem, hist>>

Progress(s) ==
  /\ At(s, "progress")
  /\ Say(s, "running", IF proc.begun[s] = NTools(s) THEN "complete" ELSE "loop")
  /\ UNCHANGED <<db, mem, hist>>

Complete(s) ==
  /\ At(s, "complete")
  /\ SetRow(s, "completed") /\ Say(s, "completed", "finally") /\ UNCHANGED <<mem, hist>>

\* Mutant: the handler reports the failure and leaves the row.
FailOnlySays(s) == At(s, "fail") /\ Say(s, "failed", "finally") /\ UNCHANGED <<db, mem, hist>>

\* The outer except clause; its first statement needs the scan's row.
Fail(s) ==
  /\ At(s, "fail")
  /\ IF Gone(s) THEN Goto(s, "finally") /\ UNCHANGED db
     ELSE SetRow(s, "failed") /\ Say(s, "failed", "finally")
  /\ UNCHANGED <<mem, hist>>

Finally(s) ==
  /\ At(s, "finally")
  /\ mem' = [mem EXCEPT !.flag = @ \ {s}]
  /\ Goto(s, "over") /\ UNCHANGED <<db, hist>>

\* Where an exception leads: the request starts the thread, whose first statement
\* stands before the try block; a tool's call has a handler of its own, whose
\* UPDATE can raise as well; the last handler has none.
Handler(p) ==
  CASE p \in {"created", "start"} -> "over"
    [] p = "open" -> "toolError"
    [] p \in {"tool", "closeRun"} -> "runFailed"
    [] p = "runFailed" -> "toolError"
    [] p \in {"authorize", "skipped", "loop", "toolError", "progress", "complete"} -> "fail"
    [] p = "fail" -> "finally"

Raising == {"created", "start", "authorize", "skipped", "loop", "open", "tool", "closeRun",
            "runFailed", "toolError", "progress", "complete", "fail"}

\* The head of the loop raises only where it writes.
Raise(s) ==
  /\ hist.faults < MaxFaults
  /\ proc.at[s] \in Raising
  /\ At(s, "loop") => s \in mem.flag
  /\ Goto(s, Handler(proc.at[s]))
  /\ hist' = [hist EXCEPT
       !.faults = @ + 1,
       !.stuck[s] = IF proc.at[s] \in {"created", "start"} THEN "pending"
                    ELSE IF At(s, "fail") THEN "running" ELSE @,
       !.unclosed = IF At(s, "runFailed") THEN @ \cup {s} ELSE @]
  /\ UNCHANGED <<db, mem>>

------------------------------------------------------------------------------
(* broadcast and subscribe.                                                   *)

Message(s) == [scan |-> s, n |-> proc.sent[s], status |-> proc.say[s].status]
Full == Len(mem.channel) >= Capacity
Done(s) == Goto(s, proc.say[s].next)

\* put_nowait; a full queue first loses its oldest message.
Put(s) ==
  /\ At(s, "put")
  /\ IF mem.client /\ Full THEN Goto(s, "evict") /\ UNCHANGED mem
     ELSE /\ Done(s)
          /\ mem' = IF mem.client THEN [mem EXCEPT !.channel = Append(@, Message(s))] ELSE mem
  /\ UNCHANGED <<db, hist>>

\* get_nowait; if the browser emptied the queue the new message is given up.
Evict(s) ==
  /\ At(s, "evict")
  /\ IF mem.channel = <<>> THEN Done(s) /\ UNCHANGED mem
     ELSE Goto(s, "reput") /\ mem' = [mem EXCEPT !.channel = Tail(@)]
  /\ UNCHANGED <<db, hist>>

\* put_nowait; if another thread filled the queue the new message is given up.
Reput(s) ==
  /\ At(s, "reput") /\ Done(s)
  /\ mem' = IF Full THEN mem ELSE [mem EXCEPT !.channel = Append(@, Message(s))]
  /\ UNCHANGED <<db, hist>>

Subscribe ==
  /\ ~mem.client /\ mem' = [mem EXCEPT !.client = TRUE] /\ UNCHANGED <<db, proc, hist>>

Receive ==
  /\ mem.channel # <<>>
  /\ hist' = [hist EXCEPT !.seen[Head(mem.channel).scan] = Head(mem.channel)]
  /\ mem' = [mem EXCEPT !.channel = Tail(@)]
  /\ UNCHANGED <<db, proc>>

Step(s) ==
  \/ Create(s) \/ Launch(s) \/ CancelLooksUp(s) \/ CancelFlags(s)
  \/ Start(s) \/ Authorize(s) \/ Skipped(s) \/ Check(s) \/ OpenRun(s) \/ ToolEnds(s) \/ CloseRun(s)
  \/ FailRun(s) \/ ToolError(s) \/ Progress(s) \/ Complete(s) \/ Fail(s) \/ Finally(s) \/ Raise(s)
  \/ Put(s) \/ Evict(s) \/ Reput(s)

Next == (\E s \in Scans : Step(s)) \/ DeleteTarget \/ Subscribe \/ Receive

Spec == Init /\ [][Next]_vars

------------------------------------------------------------------------------
\* A thread that is gone left a terminal row and closed tool runs, unless the
\* target is gone.  Three exceptions have no handler: one that keeps the thread
\* from starting or its first UPDATE from being made leaves the row pending for
\* good, one in the report of a failure leaves it running, and one in the UPDATE
\* of a failed tool run leaves that run open.
WorkerSettlesRow ==
  \A s \in Scans : At(s, "over") /\ ~Gone(s) =>
    /\ IF hist.stuck[s] = "no" THEN db.row[s] \in Final ELSE db.row[s] = hist.stuck[s]
    /\ s \notin hist.unclosed => \A i \in DOMAIN db.runs[s] : db.runs[s][i] # "running"

\* The terminal status the browser was told is the row's, whatever raised before
\* or after and however the request to cancel fell; a target that is deleted
\* takes the row away.
ToldIsSo ==
  \A s \in Scans : hist.seen[s].status \in Final /\ ~Gone(s) => db.row[s] = hist.seen[s].status

\* A cancel that is accepted while a tool of the scan is still to start wins:
\* the scan does not complete (scans_cancel against the head of the loop).
CancelWins == \A s \in hist.heeded : db.row[s] # "completed"

\* However full the queue and however many threads feed it, the browser gets
\* the events of a scan in their order, and nothing after the verdict.
EventsInOrder ==
  \A s \in Scans : hist.seen[s] # hist'.seen[s] =>
    hist.seen[s].n < hist'.seen[s].n /\ hist.seen[s].status \notin Final
==============================================================================
