---------------------------- MODULE BudgetLedger ----------------------------
(***************************************************************************)
(* A scan's persisted budgets (BudgetLedger of app/ops/runtime.py), used by *)
(* workers of several threads and by the process that resumes after a crash. *)
(* Every statement has a connection of its own; a SELECT opens no           *)
(* transaction, so what follows it is a second step.                        *)
(***************************************************************************)
EXTENDS Naturals, FiniteSets

CONSTANTS
  Workers, Tools,
  Sizes,       \* what one call consumes
  Limit, ToolLimit,
  MaxCalls     \* bound: consumptions of either kind

VARIABLES
  db,    \* row: the scan's row of scan_budgets, [used, status];
         \* tool: its rows of scan_tool_budgets
  proc,  \* what a worker does with what it read
  hist   \* granted, tooled: consumptions that returned; overlap: did two
         \* read-then-write pairs overlap; hidden: exceeded while a
         \* mark_complete held an older snapshot; calls; crashed

vars == <<db, proc, hist>>

Idle == [at |-> "idle", sum |-> 0, size |-> 0, tool |-> "none"]
NoRow == [used |-> 0, status |-> "none"]
Fresh == [used |-> 0, status |-> "active"]

Init ==
  /\ db = [row |-> NoRow, tool |-> [t \in Tools |-> NoRow]]
  /\ proc = [w \in Workers |-> Idle]
  /\ hist = [granted |-> 0, tooled |-> [t \in Tools |-> 0], overlap |-> FALSE,
             hidden |-> FALSE, calls |-> 0, crashed |-> FALSE]

Goto(w, p) == proc' = [proc EXCEPT ![w] = [Idle EXCEPT !.at = p]]
At(w, p) == proc[w].at = p
Known == db.row # NoRow

\* Mutant: the ledger row is written anew.
OpenReplaces(w) ==
  /\ At(w, "idle")
  /\ db' = [db EXCEPT !.row = Fresh] /\ UNCHANGED <<proc, hist>>

\* INSERT OR IGNORE: a resumed scan keeps what it has used.
Open(w) ==
  /\ At(w, "idle")
  /\ db' = [db EXCEPT !.row = IF Known THEN @ ELSE Fresh] /\ UNCHANGED <<proc, hist>>

\* consume_artifact, consume_llm: the SELECT and the test.
ConsumeReads(w, n) ==
  /\ At(w, "idle") /\ Known /\ hist.calls < MaxCalls
  /\ IF db.row.used + n <= Limit
       THEN proc' = [proc EXCEPT ![w] = [Idle EXCEPT !.at = "update", !.sum = db.row.used + n, !.size = n]]
       ELSE Goto(w, "exceed")
  /\ hist' = [hist EXCEPT !.calls = @ + 1, !.overlap = @ \/ \E v \in Workers : At(v, "update")]
  /\ UNCHANGED db

\* The UPDATE writes the sum, whatever the row holds by now.
ConsumeWrites(w) ==
  /\ At(w, "update")
  /\ db' = [db EXCEPT !.row.used = proc[w].sum]
  /\ hist' = [hist EXCEPT !.granted = @ + proc[w].size] /\ Goto(w, "idle")

\* The INSERT of consume_tool_time opens the transaction that holds the rest.
ConsumeToolTime(w, t, n) ==
  LET row == IF db.tool[t] = NoRow THEN Fresh ELSE db.tool[t] IN
  /\ At(w, "idle") /\ Known /\ hist.calls < MaxCalls
  /\ IF row.used + n <= ToolLimit
       THEN /\ db' = [db EXCEPT !.tool[t] = [row EXCEPT !.used = @ + n]]
            /\ hist' = [hist EXCEPT !.calls = @ + 1, !.tooled[t] = @ + n] /\ UNCHANGED proc
       ELSE /\ db' = [db EXCEPT !.tool[t] = row]
            /\ hist' = [hist EXCEPT !.calls = @ + 1]
            /\ proc' = [proc EXCEPT ![w] = [Idle EXCEPT !.at = "exceed", !.tool = t]]

\* check_wall_clock, which has no guard but the clock.
WallClock(w) == At(w, "idle") /\ Known /\ Goto(w, "exceed") /\ UNCHANGED <<db, hist>>

\* _exceed: both rows, then the audit log and the exception.
Exceed(w) ==
  LET t == proc[w].tool IN
  /\ At(w, "exceed")
  /\ db' = [row |-> [db.row EXCEPT !.status = "incomplete"],
            tool |-> IF t = "none" THEN db.tool ELSE [db.tool EXCEPT ![t].status = "incomplete"]]
  /\ hist' = [hist EXCEPT !.hidden = @ \/ \E v \in Workers : At(v, "complete")]
  /\ Goto(w, "idle")

\* mark_complete: the snapshot and its test, then the two UPDATEs.
Snapshot(w) ==
  /\ At(w, "idle") /\ Known /\ db.row.status = "active"
  /\ Goto(w, "complete") /\ UNCHANGED <<db, hist>>

MarkComplete(w) ==
  /\ At(w, "complete")
  /\ db' = [row |-> [db.row EXCEPT !.status = "complete"],
            tool |-> [t \in Tools |->
              IF db.tool[t].status = "active"
                THEN [db.tool[t] EXCEPT !.status = "complete"] ELSE db.tool[t]]]
  /\ Goto(w, "idle") /\ UNCHANGED hist

Crash ==
  /\ ~hist.crashed
  /\ proc' = [w \in Workers |-> Idle]
  /\ hist' = [hist EXCEPT !.crashed = TRUE] /\ UNCHANGED db

Next ==
  \/ \E w \in Workers :
       \/ Open(w) \/ ConsumeWrites(w) \/ WallClock(w) \/ Exceed(w) \/ Snapshot(w) \/ MarkComplete(w)
       \/ \E n \in Sizes : ConsumeReads(w, n) \/ \E t \in Tools : ConsumeToolTime(w, t, n)
  \/ Crash

Spec == Init /\ [][Next]_vars

------------------------------------------------------------------------------

\* A process that resumes the scan goes on with what was used before: the
\* ledger forgets a consumption that returned only when two of them overlapped.
UseSurvives ==
  /\ Known /\ ~hist.overlap => db.row.used = hist.granted
  /\ \A t \in Tools : db.tool[t].used = hist.tooled[t]

\* A budget that was exceeded is not called complete afterwards, unless
\* mark_complete had read its row before.
ExceededStays ==
  Known /\ db.row.status = "incomplete" /\ ~hist.hidden => db'.row.status = "incomplete"
=============================================================================
