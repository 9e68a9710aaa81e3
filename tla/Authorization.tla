--------------------------- MODULE Authorization ---------------------------
(***************************************************************************)
(* Scope, signed consent and preflight, and the requests that depend on     *)
(* them: app/security/preflight.py, consent.py and scope.py, the routes of  *)
(* app/server.py for consents, targets, findings and reports, and those of  *)
(* app/v2_api.py and app/v3/api.py that start a scan, stop it or read what  *)
(* it found. A scan runs on the target row its request read; a later        *)
(* request of the v2 and v3 APIs checks the row as it is by then against    *)
(* the consent the scan recorded. What the first API lists, and the v2      *)
(* audit reasons over, is read on a session alone.                          *)
(***************************************************************************)
EXTENDS Naturals, Sequences

CONSTANTS
  Hosts,        \* what a scope may allow
  Home,         \* the target's own host
  Requests,     \* requests that work at a time
  MaxTime,      \* bound: consents expire on a clock that stops here
  MaxConsents,  \* bound: consents issued
  MaxScans      \* bound: scans created

VARIABLES
  store,    \* target: what its scope allows, {} once it is deleted; scans: the
            \* scan_authorizations in order, each [consent, state]; consents:
            \* each [scope, until]; report: one is stored; audit: its
            \* scan.authorized records [scope, consent, at]; now
  workers,  \* scan -> the row its worker runs on, where it is, and the check
            \* that its start or its next tool holds
  asks,     \* what a request does, for which scan, with which row and consent
  used      \* what was done to a scope, and the check that allowed it

vars == <<store, workers, asks, used>>

Scopes == {s \in SUBSET Hosts : Home \in s}
NoPass == [scope |-> {}, consent |-> 0, at |-> 0]
Idle == [at |-> "idle", row |-> {}, scan |-> 0, pass |-> NoPass, consent |-> 0, what |-> "none"]

Init ==
  /\ \E s \in Scopes : store = [target |-> s, scans |-> <<>>, consents |-> <<>>,
                                report |-> FALSE, audit |-> {}, now |-> 0]
  /\ workers = <<>>
  /\ asks = [u \in Requests |-> Idle]
  /\ used = {}

At(u, p) == asks[u].at = p
Back(u) == asks' = [asks EXCEPT ![u] = Idle]
Use(what, scope, pass) == used' = used \cup {[what |-> what, scope |-> scope, pass |-> pass]}

------------------------------------------------------------------------------
(* Consents and targets.                                                      *)

\* ConsentAuthority.issue: signed for one scope and a time that ends.
Issue(s, ttl) ==
  /\ Len(store.consents) < MaxConsents
  /\ store' = [store EXCEPT !.consents = Append(@, [scope |-> s, until |-> store.now + ttl])]
  /\ UNCHANGED <<workers, asks, used>>

UpdateTarget(s) ==
  /\ store.target # {} /\ store.target # s
  /\ store' = [store EXCEPT !.target = s]
  /\ UNCHANGED <<workers, asks, used>>

\* The scans, their authorizations and the reports go with it; a worker goes on.
DeleteTarget ==
  /\ store.target # {}
  /\ store' = [store EXCEPT !.target = {}, !.report = FALSE,
                            !.scans = [i \in DOMAIN @ |-> [@[i] EXCEPT !.state = "gone"]]]
  /\ UNCHANGED <<workers, asks, used>>

Tick ==
  /\ store.now < MaxTime
  /\ store' = [store EXCEPT !.now = @ + 1]
  /\ UNCHANGED <<workers, asks, used>>

------------------------------------------------------------------------------
(* PreFlightGuard.authorize_scan.                                             *)

\* Mutant: the consent is not bound to the scope.
VerifyUnbound(c, s) == c \in DOMAIN store.consents /\ store.consents[c].until > store.now /\ Home \in s

\* verify: known, not expired, and signed for exactly this scope.
Verify(c, s) ==
  /\ c \in DOMAIN store.consents
  /\ store.consents[c].until > store.now
  /\ store.consents[c].scope = s

\* A check: of which consent and scope, and when it was verified.
Pass(c, s) == [scope |-> s, consent |-> c, at |-> store.now]

\* Verified first, recorded next, and only then made use of: by then the consent
\* may have expired or the target changed.
Check(u) ==
  LET p == asks[u] IN
  /\ At(u, "check") /\ Verify(p.consent, p.row)
  /\ asks' = [asks EXCEPT ![u].at = "log", ![u].pass = Pass(p.consent, p.row)]
  /\ UNCHANGED <<store, workers, used>>

Logged(pass) == [store EXCEPT !.audit = @ \cup {pass}]

Log(u) ==
  /\ At(u, "log")
  /\ store' = Logged(asks[u].pass)
  /\ asks' = [asks EXCEPT ![u].at = asks[u].what]
  /\ UNCHANGED <<workers, used>>

\* A control that is down, a scope or consent that does not fit, or an audit
\* log that takes no record.
Denied(u) ==
  /\ asks[u].at \in {"check", "log"}
  /\ Back(u) /\ UNCHANGED <<store, workers, used>>

------------------------------------------------------------------------------
(* v2_scans_create and the worker.                                            *)

AskScan(u, c) ==
  /\ At(u, "idle") /\ store.target # {} /\ Len(store.scans) < MaxScans
  /\ asks' = [asks EXCEPT ![u] = [Idle EXCEPT !.at = "check", !.what = "create",
                                              !.row = store.target, !.consent = c]]
  /\ UNCHANGED <<store, workers, used>>

\* The row and its authorization need the target; the worker gets the row that
\* was read.
CreateScan(u) ==
  /\ At(u, "create") /\ Len(store.scans) < MaxScans
  /\ IF store.target = {} THEN UNCHANGED <<store, workers>>
     ELSE /\ store' = [store EXCEPT !.scans = Append(@, [consent |-> asks[u].consent, state |-> "queued"])]
          /\ workers' = Append(workers, [row |-> asks[u].row, at |-> "new", pass |-> NoPass])
  /\ Back(u) /\ UNCHANGED used

Goto(i, at, pass) == workers' = [workers EXCEPT ![i].at = at, ![i].pass = pass]

\* run_p0_scan checks again before anything runs.
StartScan(i) ==
  LET c == store.scans[i].consent w == workers[i] IN
  /\ w.at = "new" /\ Verify(c, w.row)
  /\ Goto(i, "starting", Pass(c, w.row))
  /\ UNCHANGED <<store, asks, used>>

\* run_tool checks before each attempt, and then waits for its rate.
CheckTool(i) ==
  LET c == store.scans[i].consent w == workers[i] IN
  /\ w.at = "running" /\ store.scans[i].state # "stopping"
  /\ Verify(c, w.row)
  /\ Goto(i, "checking", Pass(c, w.row))
  /\ UNCHANGED <<store, asks, used>>

LogStart(i) ==
  /\ workers[i].at = "starting"
  /\ store' = [Logged(workers[i].pass) EXCEPT !.scans[i].state = IF @ = "queued" THEN "running" ELSE @]
  /\ Goto(i, "running", NoPass)
  /\ UNCHANGED <<asks, used>>

LogTool(i) ==
  /\ workers[i].at = "checking"
  /\ store' = Logged(workers[i].pass)
  /\ Goto(i, "ready", workers[i].pass)
  /\ UNCHANGED <<asks, used>>

\* A check that fails ends the scan before its start, and later an attempt.
Refused(i) ==
  /\ \/ workers[i].at \in {"new", "starting"} /\ Goto(i, "over", NoPass)
     \/ workers[i].at = "checking" /\ Goto(i, "running", NoPass)
  /\ UNCHANGED <<store, asks, used>>

\* A tool's scope is that of the worker's row.
Launch(i) ==
  /\ workers[i].at = "ready"
  /\ Use("tool", workers[i].row, workers[i].pass)
  /\ Goto(i, "running", NoPass)
  /\ UNCHANGED <<store, asks>>

------------------------------------------------------------------------------
(* Requests about a scan or about a target's reports.                         *)

\* load_scan_authorization and scan_access: the scan's consent, the row of now.
AskAbout(u, i, what) ==
  /\ At(u, "idle") /\ i \in DOMAIN store.scans /\ store.scans[i].state # "gone" /\ store.target # {}
  /\ asks' = [asks EXCEPT ![u] = [Idle EXCEPT !.at = "check", !.scan = i, !.what = what,
                                              !.row = store.target, !.consent = store.scans[i].consent]]
  /\ UNCHANGED <<store, workers, used>>

\* require_target_access: the target's latest scan speaks for it.
AskLatest(u, what) ==
  /\ Len(store.scans) > 0 /\ (what = "read" => store.report)
  /\ AskAbout(u, Len(store.scans), what)

\* v2_scans_stop.
Stop(u) ==
  /\ At(u, "stop")
  /\ store' = IF store.scans[asks[u].scan].state = "gone" THEN store
           ELSE [store EXCEPT !.scans[asks[u].scan].state = "stopping"]
  /\ Back(u) /\ UNCHANGED <<workers, used>>

\* v2_reports_generate: the findings are read, the report needs its target.
GenerateReport(u) ==
  /\ At(u, "generate")
  /\ store' = [store EXCEPT !.report = store.target # {}]
  /\ Use("read", asks[u].row, asks[u].pass)
  /\ Back(u) /\ UNCHANGED workers

\* Downloads, evidence exports, events and the v3 views read only after
\* the check; what was deleted since is not found.
ReadEvidence(u) ==
  /\ At(u, "read")
  /\ IF store.scans[asks[u].scan].state = "gone" THEN UNCHANGED used
     ELSE Use("read", asks[u].row, asks[u].pass)
  /\ Back(u) /\ UNCHANGED <<store, workers>>

\* The lists of findings and of reports of the first API, its report of all
\* findings, and the v2 audit: whoever has a session reads, whatever the scope.
ListFindings ==
  /\ store.target # {}
  /\ \E stored \in {store.report, TRUE} : store' = [store EXCEPT !.report = stored]
  /\ Use("list", {}, NoPass)
  /\ UNCHANGED <<workers, asks>>

Next ==
  \/ \E s \in Scopes, ttl \in 1 .. 2 : Issue(s, ttl)
  \/ \E s \in Scopes : UpdateTarget(s)
  \/ DeleteTarget \/ Tick \/ ListFindings
  \/ \E u \in Requests :
       \/ Check(u) \/ Log(u) \/ Denied(u)
       \/ CreateScan(u) \/ Stop(u) \/ GenerateReport(u) \/ ReadEvidence(u)
       \/ \E c \in 1 .. MaxConsents : AskScan(u, c)
       \/ \E i \in DOMAIN store.scans, w \in {"stop", "read"} : AskAbout(u, i, w)
       \/ \E w \in {"generate", "read"} : AskLatest(u, w)
  \/ \E i \in DOMAIN workers :
       \/ StartScan(i) \/ LogStart(i) \/ CheckTool(i) \/ LogTool(i) \/ Refused(i) \/ Launch(i)

Spec == Init /\ [][Next]_vars

------------------------------------------------------------------------------

\* Whatever becomes of the target, its scope and its consents meanwhile, a tool
\* is launched, a report is generated by the v2 API, and evidence is read by the
\* v2 and v3 routes that ask for a scan's leave, on a scope some consent was signed
\* for, and only after the audit log says so of a check made before the consent
\* expired.  What is listed on a session alone is not of these.
AuthorizedOnly ==
  \A x \in used : x.what # "list" =>
    /\ x.pass \in store.audit
    /\ x.pass.at < store.consents[x.pass.consent].until
    /\ x.scope = store.consents[x.pass.consent].scope
=============================================================================
