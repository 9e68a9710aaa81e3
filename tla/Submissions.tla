---------------------------- MODULE Submissions ----------------------------
(***************************************************************************)
(* The two trackers of app/submissions.py: SubmissionTracker, whose         *)
(* transition reads, checks and then writes without a transaction, and      *)
(* ReportSubmissionTracker, which audits a transition first and then        *)
(* re-reads the status under the write lock.                                *)
(***************************************************************************)
EXTENDS Naturals, Sequences

CONSTANTS
  Users,    \* requests that work on one submission and one report
  MaxSteps  \* bound: transitions that began, and audit records

VARIABLES
  db,    \* card: [status, submitted, resolved, amount] of the submission;
         \* report: status of the report's row or "none"; events: its
         \* report_submission_events; audit: its audit records
  proc,  \* what a user does, the status it read, the one it wants
  hist   \* stale: a card was written over a change its writer had not read;
         \* steps; clock: order of the writes

vars == <<db, proc, hist>>

Rejections == {"duplicate", "informative", "not_applicable"}

Allowed ==
  [draft |-> {"submitted"},
   submitted |-> {"triaged", "needs_info"} \cup Rejections,
   triaged |-> {"needs_info", "accepted"} \cup Rejections,
   needs_info |-> {"submitted", "triaged", "accepted"} \cup Rejections,
   accepted |-> {"resolved", "not_applicable"},
   resolved |-> {"paid"},
   paid |-> {}, duplicate |-> {}, informative |-> {}, not_applicable |-> {}]

Path == <<"draft", "queued", "submitted", "acknowledged", "closed">>
NextOf(s) == LET i == CHOOSE i \in 1 .. 5 : Path[i] = s IN IF i = 5 THEN "none" ELSE Path[i + 1]

Idle == [at |-> "idle", was |-> "none", want |-> "none", card |-> [status |-> "none"]]

Draft == [status |-> "draft", submitted |-> 0, resolved |-> 0, amount |-> FALSE]

\* The card is new, or one that its program has accepted.
Init ==
  /\ db \in {[card |-> c, report |-> "none", events |-> <<>>, audit |-> {}] :
              c \in {Draft, [Draft EXCEPT !.status = "accepted", !.submitted = 1]}}
  /\ proc = [u \in Users |-> Idle]
  /\ hist = [stale |-> FALSE, steps |-> 0, clock |-> 2]

At(u, p) == proc[u].at = p
Goto(u, p) == proc' = [proc EXCEPT ![u].at = p]
Back(u) == proc' = [proc EXCEPT ![u] = Idle]

------------------------------------------------------------------------------
(* SubmissionTracker.                                                         *)

\* transition: the row is read and the move checked; staying is a move too.
Move(u, want) ==
  /\ At(u, "idle") /\ hist.steps < MaxSteps
  /\ want = db.card.status \/ want \in Allowed[db.card.status]
  /\ proc' = [proc EXCEPT ![u] = [Idle EXCEPT !.at = "card", !.want = want, !.card = db.card]]
  /\ hist' = [hist EXCEPT !.steps = @ + 1] /\ UNCHANGED db

\* The UPDATE, built from the row that was read; a bounty may come with it.
WriteMove(u, bounty) ==
  LET p == proc[u] now == hist.clock IN
  /\ At(u, "card")
  /\ db' = [db EXCEPT !.card =
       [status |-> p.want,
        submitted |-> IF p.want = "submitted" /\ p.card.submitted = 0 THEN now ELSE @.submitted,
        resolved |-> IF p.want \in {"resolved", "paid"} /\ p.card.resolved = 0 THEN now ELSE @.resolved,
        amount |-> @.amount \/ bounty]]
  /\ hist' = [hist EXCEPT !.clock = @ + 1, !.stale = @ \/ db.card # p.card]
  /\ Back(u)

\* earnings: what is paid and has an amount and a currency.
Earnings == IF db.card.status = "paid" /\ db.card.amount THEN 1 ELSE 0

------------------------------------------------------------------------------
(* ReportSubmissionTracker.                                                   *)

\* create: the row; then the audit record, whose failure deletes the row; then
\* the first event.
Create(u) ==
  /\ At(u, "idle") /\ db.report = "none" /\ db.events = <<>> /\ db.audit = {}
  /\ db' = [db EXCEPT !.report = "draft"] /\ Goto(u, "auditDraft") /\ UNCHANGED hist

AuditDraft(u) ==
  /\ At(u, "auditDraft")
  /\ \/ db' = [db EXCEPT !.audit = @ \cup {[from |-> "none", to |-> "draft"]}] /\ Goto(u, "eventDraft")
     \/ Goto(u, "undo") /\ UNCHANGED db
  /\ UNCHANGED hist

\* The row's events go with it.
Undo(u) ==
  /\ At(u, "undo")
  /\ db' = [db EXCEPT !.report = "none", !.events = <<>>] /\ Back(u) /\ UNCHANGED hist

EventDraft(u) ==
  /\ At(u, "eventDraft")
  /\ db' = [db EXCEPT !.events = Append(@, [from |-> "none", to |-> "draft"])]
  /\ Back(u) /\ UNCHANGED hist

\* transition: exactly the next state; the audit record is written first.
Advance(u) ==
  /\ At(u, "idle") /\ db.report # "none" /\ NextOf(db.report) # "none" /\ hist.steps < MaxSteps
  /\ proc' = [proc EXCEPT ![u] = [Idle EXCEPT !.at = "auditMove", !.was = db.report, !.want = NextOf(db.report)]]
  /\ hist' = [hist EXCEPT !.steps = @ + 1] /\ UNCHANGED db

Event(u) == [from |-> proc[u].was, to |-> proc[u].want]

AuditMove(u) ==
  /\ At(u, "auditMove")
  /\ \/ db' = [db EXCEPT !.audit = @ \cup {Event(u)}] /\ Goto(u, "commit")
     \/ Back(u) /\ UNCHANGED db
  /\ UNCHANGED hist

\* Mutant: the update does not test the status it read.
CommitBlind(u) ==
  /\ At(u, "commit")
  /\ IF db.report = "none" THEN UNCHANGED db
     ELSE db' = [db EXCEPT !.report = proc[u].want, !.events = Append(@, Event(u))]
  /\ Back(u) /\ UNCHANGED hist

\* Under BEGIN IMMEDIATE the status must still be the one that was read.
Commit(u) ==
  /\ At(u, "commit")
  /\ IF db.report # proc[u].was THEN UNCHANGED db
     ELSE db' = [db EXCEPT !.report = proc[u].want, !.events = Append(@, Event(u))]
  /\ Back(u) /\ UNCHANGED hist

Crash(u) == ~At(u, "idle") /\ Back(u) /\ UNCHANGED <<db, hist>>

Next ==
  \E u \in Users :
    \/ \E s \in DOMAIN Allowed : Move(u, s)
    \/ \E b \in BOOLEAN : WriteMove(u, b)
    \/ Create(u) \/ AuditDraft(u) \/ Undo(u) \/ EventDraft(u)
    \/ Advance(u) \/ AuditMove(u) \/ Commit(u) \/ Crash(u)

Spec == Init /\ [][Next]_vars

------------------------------------------------------------------------------

\* The events that are no creation, and the status that those before the n-th
\* lead to.
Moves == {i \in DOMAIN db.events : db.events[i].from # "none"}
LeadsTo(s, n) ==
  \/ s = "draft" /\ \A i \in Moves : n <= i
  \/ \E i \in Moves : i < n /\ db.events[i].to = s /\ \A j \in Moves : j < n => j <= i

\* A report's history is its way from draft to its status, one step at a time,
\* whatever transitions raced, failed or stopped half way: only the event of
\* its creation may come late or be missing; and every event was audited.
HistoryIsThePath ==
  /\ \A i \in Moves : LET e == db.events[i] IN
       LeadsTo(e.from, i) /\ \E k \in 1 .. 4 : e.from = Path[k] /\ e.to = Path[k + 1]
  /\ db.report # "none" => LeadsTo(db.report, Len(db.events) + 1)
  /\ \A i \in DOMAIN db.events : db.events[i] \in db.audit

\* A card moves along the workflow, keeps its first dates and never leaves a
\* final column, unless a transition wrote over a change it had not read.
CardKeepsItsWay ==
  ~hist'.stale /\ db'.card # db.card =>
    /\ db'.card.status \in {db.card.status} \cup Allowed[db.card.status]
    /\ db.card.submitted # 0 => db'.card.submitted = db.card.submitted
    /\ db.card.resolved # 0 => db'.card.resolved = db.card.resolved
    /\ Earnings = 1 => db'.card.status = "paid"
=============================================================================
