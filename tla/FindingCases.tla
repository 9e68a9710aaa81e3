---------------------------- MODULE FindingCases ----------------------------
(***************************************************************************)
(* Finding cases and their observations: one row of findings per            *)
(* fingerprint, one row of scan_findings per scan, tool run and fingerprint *)
(* (FindingBatchWriter of v2_pipeline.py, create_finding of database.py and *)
(* secure_database.py), and what a scan's report reads of both              *)
(* (finding_observations.py).                                               *)
(***************************************************************************)
EXTENDS Naturals, FiniteSets

CONSTANTS
  Scans,       \* scans of the one target
  Runs,        \* tool runs of a scan
  Prints,      \* fingerprints: target, title, type and endpoint, case folded
  MaxWrites    \* bound

VARIABLES
  db,    \* case: for each fingerprint its row of findings [id, scan], id 0: no
         \* row; seen: rows of scan_findings; last: AUTOINCREMENT
  proc,  \* the report of a scan: where it is, the cases it must show, what its
         \* first query found
  hist   \* shown: the list a report ended with; of: fingerprints a scan
         \* reported; writes; gone: target deleted

vars == <<db, proc, hist>>

NoCase == [id |-> 0, scan |-> "none"]
Idle == [at |-> "idle", due |-> {}, found |-> {}]

Init ==
  /\ db = [case |-> [f \in Prints |-> NoCase], seen |-> {}, last |-> 0]
  /\ proc = [s \in Scans |-> Idle]
  /\ hist = [shown |-> [s \in Scans |-> {}], of |-> [s \in Scans |-> {}], writes |-> 0, gone |-> FALSE]

Known(f) == db.case[f] # NoCase

\* The rows INSERT OR IGNORE adds for a batch, in fingerprint order.
WithCases(batch, s) ==
  LET new == {f \in batch : ~Known(f)}
      Rank == CHOOSE r \in [new -> 1 .. Cardinality(new)] : \A f, g \in new : f # g => r[f] # r[g]
  IN [f \in Prints |-> IF f \in new THEN [id |-> db.last + Rank[f], scan |-> s] ELSE db.case[f]]

Reported(s, batch) ==
  hist' = [hist EXCEPT !.writes = @ + 1, !.of[s] = @ \cup batch] /\ UNCHANGED proc

\* Mutant: a case that exists is not observed again.
PersistNewOnly(s, r, batch) ==
  LET cases == WithCases(batch, s) IN
  /\ hist.writes < MaxWrites /\ ~hist.gone
  /\ db' = [case |-> cases, last |-> db.last + Cardinality({f \in batch : ~Known(f)}),
            seen |-> db.seen \cup {[scan |-> s, run |-> r, print |-> f, id |-> cases[f].id] :
                                   f \in {g \in batch : ~Known(g)}}]
  /\ Reported(s, batch)

\* persist: under BEGIN IMMEDIATE, cases first, then the observations, upserted
\* for a run that repeats what it found.
Persist(s, r, batch) ==
  LET cases == WithCases(batch, s) IN
  /\ hist.writes < MaxWrites /\ ~hist.gone
  /\ db' = [case |-> cases, last |-> db.last + Cardinality({f \in batch : ~Known(f)}),
            seen |-> {o \in db.seen : ~(o.scan = s /\ o.run = r /\ o.print \in batch)} \cup
                     {[scan |-> s, run |-> r, print |-> f, id |-> cases[f].id] : f \in batch}]
  /\ Reported(s, batch)

\* create_finding, by hand or from the first dashboard: a case, no observation.
CreateFinding(s, f) ==
  /\ hist.writes < MaxWrites /\ ~hist.gone
  /\ db' = [db EXCEPT !.case = WithCases({f}, s), !.last = IF Known(f) THEN @ ELSE @ + 1]
  /\ Reported(s, IF Known(f) THEN {} ELSE {f})

\* Cases and observations go with the target.
DeleteTarget ==
  /\ ~hist.gone
  /\ db' = [db EXCEPT !.case = [f \in Prints |-> NoCase], !.seen = {}]
  /\ hist' = [hist EXCEPT !.gone = TRUE] /\ UNCHANGED proc

\* grouped_scan: the observed cases of a scan.
Observed(s) == {o.id : o \in {o \in db.seen : o.scan = s}}
FirstSeen(s) == {db.case[f].id : f \in {f \in Prints : Known(f) /\ db.case[f].scan = s}}

\* scan_cases: the observations, and on another connection the cases first seen.
ReadObservations(s) ==
  /\ proc[s].at = "idle"
  /\ proc' = [proc EXCEPT ![s] = [at |-> "cases", found |-> Observed(s),
                                 due |-> {db.case[f].id : f \in {f \in hist.of[s] : Known(f)}}]]
  /\ UNCHANGED <<db, hist>>

ReadCases(s) ==
  /\ proc[s].at = "cases"
  /\ hist' = [hist EXCEPT !.shown[s] = proc[s].found \cup FirstSeen(s)]
  /\ proc' = [proc EXCEPT ![s].at = "done"] /\ UNCHANGED db

Again(s) ==
  /\ proc[s].at = "done"
  /\ proc' = [proc EXCEPT ![s] = Idle]
  /\ hist' = [hist EXCEPT !.shown[s] = {}] /\ UNCHANGED db

Next ==
  \/ \E s \in Scans : \/ ReadObservations(s) \/ ReadCases(s) \/ Again(s)
                      \/ \E r \in Runs, b \in SUBSET Prints \ {{}} : Persist(s, r, b)
                      \/ \E f \in Prints : CreateFinding(s, f)
  \/ DeleteTarget

Spec == Init /\ [][Next]_vars

------------------------------------------------------------------------------

\* A report lists every case that its scan reported, first or not, and that was
\* there from the report's first query to its end, and none of other scans.
ReportListsItsCases ==
  \A s \in Scans : proc[s].at = "done" =>
    LET there == {db.case[f].id : f \in {f \in hist.of[s] : Known(f)}}
    IN there \cap proc[s].due \subseteq hist.shown[s] /\
       \A f \in Prints \ hist.of[s] : Known(f) => db.case[f].id \notin hist.shown[s]
=============================================================================
