----------------------------- MODULE ScanReports -----------------------------
(***************************************************************************)
(* What is written about the findings of a scan: tester triage and its       *)
(* ranking (v3/triage.py), claim verification (v3/verification.py), the      *)
(* report of all findings (v3/reporting.py), the evidence-backed finding     *)
(* and its draft (reporting/), while other scans observe the same cases.     *)
(***************************************************************************)
EXTENDS Naturals, Sequences, FiniteSets

CONSTANTS
  Scores,                  \* tester scores; a case nobody classified has 2
  Scans, Runs, Findings,   \* scans of one target, tool runs of a scan, cases
  MaxSeen,                 \* bound: observations
  MaxVerified              \* bound: verification records

VARIABLES
  db,    \* seen: scan_findings [scan, run, finding], in order; the first of a
         \* finding is its case; done: settled scans; bundles: [scan, run,
         \* finding, closed]; marks: a finding's tester score, 0 for none;
         \* records: verification_record [finding, claims]
  proc,  \* report of a scan: [at, scan, cases, due, rank, out]; verify; draft
  hist   \* report, draft: what was last returned

vars == <<db, proc, hist>>

Nothing == [scan |-> "none"]
NoReport == [at |-> "idle", scan |-> "none", cases |-> {}, due |-> {}, rank |-> {}, out |-> <<>>]
Claims == {"title", "affected_asset", "technical_detail", "impact", "reproduction"}

Init ==
  /\ db = [seen |-> <<>>, done |-> {}, bundles |-> <<>>, marks |-> [f \in Findings |-> 0],
           records |-> <<>>]
  /\ proc = [report |-> NoReport, verify |-> [at |-> "idle"], draft |-> [at |-> "idle"]]
  /\ hist = [report |-> Nothing, draft |-> Nothing]

------------------------------------------------------------------------------
(* The scans.                                                                 *)

Seen == {db.seen[i] : i \in DOMAIN db.seen}
Cases(s) == {o.finding : o \in {p \in Seen : p.scan = s}}

\* The case of a finding: its first observation.
Case(f) == db.seen[CHOOSE i \in DOMAIN db.seen :
             db.seen[i].finding = f /\ \A j \in 1 .. (i - 1) : db.seen[j].finding # f]

Observe(s, r, f) ==
  LET o == [scan |-> s, run |-> r, finding |-> f] IN
  /\ s \notin db.done /\ o \notin Seen /\ Len(db.seen) < MaxSeen
  /\ db' = [db EXCEPT !.seen = Append(@, o)] /\ UNCHANGED <<proc, hist>>

Assemble(o) ==
  /\ o.scan \notin db.done /\ \A i \in DOMAIN db.bundles : db.bundles[i].of # o
  /\ \E closed \in BOOLEAN : db' = [db EXCEPT !.bundles = Append(@, [of |-> o, closed |-> closed])]
  /\ UNCHANGED <<proc, hist>>

Settle(s) ==
  /\ s \notin db.done
  /\ db' = [db EXCEPT !.done = @ \cup {s}] /\ UNCHANGED <<proc, hist>>

\* The latest bundle of a finding, of a scan or of any; it must be closed.
Bundle(f, s) ==
  LET mine == {i \in DOMAIN db.bundles : db.bundles[i].of.finding = f
                                          /\ (s = "any" \/ db.bundles[i].of.scan = s)}
      last == CHOOSE i \in mine : \A j \in mine : j <= i
  IN IF mine = {} \/ ~db.bundles[last].closed THEN Nothing ELSE db.bundles[last].of

------------------------------------------------------------------------------
(* Triage and verification.                                                   *)

\* classify upserts one row per case.
Classify(f, score) ==
  /\ \E o \in Seen : o.finding = f
  /\ db.marks[f] # score
  /\ db' = [db EXCEPT !.marks[f] = score] /\ UNCHANGED <<proc, hist>>

Score(f) == IF db.marks[f] = 0 THEN 2 ELSE db.marks[f]

\* verify_finding writes its artifact, then record and claims together.
Verify(f) ==
  /\ proc.verify.at = "idle" /\ Len(db.records) < MaxVerified /\ Bundle(f, "any") # Nothing
  /\ proc' = [proc EXCEPT !.verify = [at |-> "put", finding |-> f]] /\ UNCHANGED <<db, hist>>

\* Mutant: the record is committed before its claims.
RecordBeforeClaims ==
  \/ /\ proc.verify.at = "put"
     /\ db' = [db EXCEPT !.records = Append(@, [finding |-> proc.verify.finding, claims |-> {}])]
     /\ proc' = [proc EXCEPT !.verify.at = "claims"] /\ UNCHANGED hist
  \/ /\ proc.verify.at = "claims"
     /\ db' = [db EXCEPT !.records[Len(db.records)].claims = Claims]
     /\ proc' = [proc EXCEPT !.verify = [at |-> "idle"]] /\ UNCHANGED hist

Record ==
  /\ proc.verify.at = "put"
  /\ db' = [db EXCEPT !.records = Append(@, [finding |-> proc.verify.finding, claims |-> Claims])]
  /\ proc' = [proc EXCEPT !.verify = [at |-> "idle"]] /\ UNCHANGED hist

\* The claims of the latest record; a report shows the worst of them.
Verification(f) ==
  LET mine == {i \in DOMAIN db.records : db.records[i].finding = f} IN
  IF mine = {} THEN {"not-recorded"}
  ELSE db.records[CHOOSE i \in mine : \A j \in mine : j <= i].claims

------------------------------------------------------------------------------
(* render_scan: the cases, the classification of each, then each section.     *)

Rank(s) ==
  /\ proc.report.at = "idle" /\ Cases(s) # {}
  /\ proc' = [proc EXCEPT !.report = [NoReport EXCEPT !.at = "grade", !.scan = s, !.cases = Cases(s), !.due = Cases(s)]]
  /\ hist' = [hist EXCEPT !.report = Nothing] /\ UNCHANGED db

\* A case nobody classified is ranked as well.
Grade(f) ==
  LET r == proc.report IN
  /\ r.at = "grade" /\ f \in r.due
  /\ proc' = [proc EXCEPT !.report.due = @ \ {f}, !.report.at = IF r.due = {f} THEN "write" ELSE "grade",
                          !.report.rank = @ \cup {[finding |-> f, score |-> Score(f)]}]
  /\ UNCHANGED <<db, hist>>

Next1(rank) == CHOOSE x \in rank : \A y \in rank : y.score <= x.score

\* The evidence of a section; Nothing: it falls back to the normalised finding.
Evidence(f) == Bundle(f, "any")

WriteSection ==
  LET r == proc.report
      x == Next1(r.rank)
      section == [finding |-> x.finding, score |-> x.score,
                  claims |-> Verification(x.finding), evidence |-> Evidence(x.finding)]
  IN
  /\ r.at = "write" /\ r.rank # {}
  /\ proc' = [proc EXCEPT !.report.rank = @ \ {x}, !.report.out = Append(@, section)]
  /\ UNCHANGED <<db, hist>>

Rendered ==
  /\ proc.report.at = "write" /\ proc.report.rank = {}
  /\ hist' = [hist EXCEPT !.report = [cases |-> proc.report.cases, out |-> proc.report.out]]
  /\ proc' = [proc EXCEPT !.report = NoReport] /\ UNCHANGED db

------------------------------------------------------------------------------
(* The draft of one finding of a settled scan.                                *)

AskDraft(s, f) ==
  /\ proc.draft.at = "idle" /\ s \in db.done /\ f \in Cases(s)
  /\ hist' = [hist EXCEPT !.draft = Nothing]
  /\ proc' = IF Bundle(f, s) = Nothing THEN proc
             ELSE [proc EXCEPT !.draft = [at |-> "read", scan |-> s, finding |-> f, bundle |-> Bundle(f, s)]]
  /\ UNCHANGED db

\* The case when this scan found it first, else the observation of the bundle's run.
ScanFinding(f, s, bundle) ==
  IF Case(f).scan = s THEN Case(f)
  ELSE IF bundle \in Seen THEN bundle ELSE Nothing

Draft ==
  LET d == proc.draft IN
  /\ d.at = "read"
  /\ hist' = [hist EXCEPT !.draft = [scan |-> d.scan, bundle |-> d.bundle,
                                     text |-> ScanFinding(d.finding, d.scan, d.bundle)]]
  /\ proc' = [proc EXCEPT !.draft = [at |-> "idle"]] /\ UNCHANGED db

Next ==
  \/ \E s \in Scans, r \in Runs, f \in Findings : Observe(s, r, f)
  \/ \E o \in Seen : Assemble(o)
  \/ \E s \in Scans : Settle(s) \/ Rank(s) \/ \E f \in Findings : AskDraft(s, f)
  \/ \E f \in Findings : Verify(f) \/ Grade(f) \/ \E score \in Scores : Classify(f, score)
  \/ Record \/ WriteSection \/ Rendered \/ Draft

Spec == Init /\ [][Next]_vars

------------------------------------------------------------------------------
\* A scan's report has one section for each case the scan had when it was
\* ranked, in the order of the scores it read, whatever its triage, whether or
\* not its evidence closed, and never with half of a verification's claims.
ReportIsWhole ==
  hist.report # Nothing =>
    LET out == hist.report.out IN
    /\ {out[i].finding : i \in DOMAIN out} = hist.report.cases
    /\ Len(out) = Cardinality(hist.report.cases)
    /\ \A i, j \in DOMAIN out : i < j => out[i].score >= out[j].score
    /\ \A i \in DOMAIN out : out[i].claims \in {{"not-recorded"}, Claims}

\* A draft for a scan takes its narrative and its evidence from that scan, and
\* from one tool run of it unless this scan made the case, however many other
\* scans observe the finding before the draft is read.
DraftIsOfItsScan ==
  LET d == hist.draft IN
  d # Nothing =>
    /\ d.bundle.scan = d.scan /\ d.text.scan = d.scan
    /\ Case(d.bundle.finding).scan # d.scan => d.text = d.bundle
=============================================================================
