----------------------------- MODULE TargetProbes -----------------------------
(***************************************************************************)
(* Declared v3 targets (v3/targets.py): a range of addresses is expanded    *)
(* under a cap of hosts; an address is probed twice over TLS (capture/       *)
(* ip_tls.py) and each answer becomes a flow bound to its raw bytes, which a *)
(* HAR export reads back (capture/forensic.py).                              *)
(***************************************************************************)
EXTENDS Naturals, FiniteSets, Sequences

CONSTANTS
  Width,       \* bits of an address, 32 in the code
  MaxRange,    \* _MAX_AUDITABLE_RANGE_HOSTS
  Caps,        \* values of max_hosts
  Seeds,       \* seeds a plan is given
  Shuffle(_, _), \* the order of 1..n by the hash of a seed and a host
  MaxRuns      \* bound: plans and probes begun

VARIABLES
  db,    \* range, cap: the declared range and its max_hosts; consent: does the
         \* preflight pass; events: audited hosts and their status, with the seed of
         \* their plan, which the record itself does not hold; flows, raw, evidence:
         \* rows of flows, raw artifacts, rows of flow_evidence
  proc,  \* plan: [at, i, order, seed]; probe: [at, n, flow]; export
  hist   \* runs; planned: the seeds whose plan once ended with its result

vars == <<db, proc, hist>>

Ranges == [class : {"ipv4", "ipv6"}, prefix : 0 .. Width]

------------------------------------------------------------------------------
(* CIDRPlanner._candidates: the usable hosts of a network, the whole network  *)
(* when it is so small that it has no other.                                  *)

Extent(r) == 2 ^ (Width - r.prefix)

\* ipaddress: without network and broadcast address, or without the anycast one.
HostsOf(r) ==
  LET wide == Width - r.prefix >= 2 IN
  CASE wide /\ r.class = "ipv4" -> 1 .. Extent(r) - 2
    [] wide /\ r.class = "ipv6" -> 1 .. Extent(r) - 1
    [] OTHER -> 1 .. Extent(r)

Count(r) == IF r.class = "ipv4" /\ Width - r.prefix >= 2 THEN Extent(r) - 2 ELSE Extent(r)

\* The hosts in the order of the seeded hash: the seed is an argument of the call and
\* nowhere stored.
Order(seed, hosts) == Shuffle(seed, Cardinality(hosts))

\* declare: a range needs an explicit positive cap of hosts.
Declared(r, cap) == r \in Ranges /\ cap > 0

Init ==
  /\ \E r \in Ranges, cap \in Caps :
       Declared(r, cap) /\ db = [range |-> r, cap |-> cap, consent |-> TRUE, events |-> {}, flows |-> {}, raw |-> {}, evidence |-> {}]
  /\ proc = [plan |-> [at |-> "idle", i |-> 0, order |-> <<>>, seed |-> "none"],
             probe |-> [at |-> "idle", n |-> 0, flow |-> 0], export |-> "idle"]
  /\ hist = [runs |-> 0, planned |-> {}]

Plan(p) == proc' = [proc EXCEPT !.plan = p]
PlanOver(done) ==
  Plan([at |-> "idle", i |-> 0, order |-> <<>>, seed |-> "none"])
  /\ hist' = [hist EXCEPT !.planned = @ \cup done]

StartsPlan ==
  /\ proc.plan.at = "idle" /\ hist.runs < MaxRuns
  /\ db.consent /\ Count(db.range) <= MaxRange
  /\ hist' = [hist EXCEPT !.runs = @ + 1]
  /\ UNCHANGED db

\* Mutant: the hosts are shuffled anew by each call.
StartPlanUnseeded ==
  /\ StartsPlan
  /\ \E seed, other \in Seeds :
       Plan([at |-> "hosts", i |-> 1, order |-> Order(other, HostsOf(db.range)), seed |-> seed])

\* expand_and_authorize: too large a range and a refused preflight end it.
StartPlan ==
  /\ StartsPlan
  /\ \E seed \in Seeds :
       Plan([at |-> "hosts", i |-> 1, order |-> Order(seed, HostsOf(db.range)), seed |-> seed])

Audit(host, status) ==
  db' = [db EXCEPT !.events = @ \cup {[host |-> host, status |-> status, seed |-> proc.plan.seed]}]

\* A host below the cap waits for the rate, which may be refused or cancelled.
NextHost ==
  LET p == proc.plan IN
  /\ p.at = "hosts" /\ p.i <= Len(p.order)
  /\ \/ /\ Audit(p.order[p.i], IF p.i <= db.cap THEN "attempted" ELSE "skipped")
        /\ Plan([p EXCEPT !.i = @ + 1]) /\ UNCHANGED hist
     \/ p.i <= db.cap /\ PlanOver({}) /\ UNCHANGED db

EndPlan ==
  /\ proc.plan.at = "hosts" /\ proc.plan.i > Len(proc.plan.order)
  /\ PlanOver({proc.plan.seed}) /\ UNCHANGED db

------------------------------------------------------------------------------
(* probe_ip_url: with the declared name, then without SNI; each probe is       *)
(* authorized, rated, sent and captured by itself.                             *)

Probe(p) == proc' = [proc EXCEPT !.probe = p] /\ UNCHANGED hist
ProbeAt(p) == proc.probe.at = p
GoOn(p) == Probe([proc.probe EXCEPT !.at = p])
ProbeOver == Probe([at |-> "idle", n |-> 0, flow |-> 0])

StartProbe ==
  /\ ProbeAt("idle") /\ hist.runs < MaxRuns
  /\ hist' = [hist EXCEPT !.runs = @ + 1]
  /\ proc' = [proc EXCEPT !.probe = [at |-> "authorize", n |-> 1, flow |-> 0]] /\ UNCHANGED db

\* authorize_route: port, SNI and Host as declared, then the preflight.
AuthorizeRoute ==
  /\ ProbeAt("authorize") /\ UNCHANGED db
  /\ IF db.consent THEN GoOn("connect") ELSE ProbeOver

\* The connector: an answer, or CaptureTLSFailure on timeout, size or TLS error.
Connect == ProbeAt("connect") /\ UNCHANGED db /\ (GoOn("flow") \/ ProbeOver)

\* capture: the flow's row, the raw request, the raw response, the binding.
InsertFlow ==
  LET id == Cardinality(db.flows) + 1 IN
  /\ ProbeAt("flow")
  /\ db' = [db EXCEPT !.flows = @ \cup {id}] /\ Probe([proc.probe EXCEPT !.at = "request", !.flow = id])

PutRaw(part, next) ==
  /\ ProbeAt(part)
  /\ db' = [db EXCEPT !.raw = @ \cup {<<part, proc.probe.flow>>}] /\ GoOn(next)

PutRequest == PutRaw("request", "response")
PutResponse == PutRaw("response", "bind")

Bind ==
  LET more == proc.probe.n = 1 IN
  /\ ProbeAt("bind")
  /\ db' = [db EXCEPT !.evidence = @ \cup {proc.probe.flow}]
  /\ Probe([at |-> IF more THEN "authorize" ELSE "idle", n |-> IF more THEN 2 ELSE 0, flow |-> 0])

\* A statement or an artifact write of the capture fails.
CaptureFails == proc.probe.at \in {"flow", "request", "response", "bind"} /\ UNCHANGED db /\ ProbeOver

\* export_har: the bound flows, each with both raw parts redacted.
ExportHar ==
  /\ proc' = [proc EXCEPT !.export =
       IF \A f \in db.evidence : {<<"request", f>>, <<"response", f>>} \subseteq db.raw THEN "exported" ELSE "failed"]
  /\ UNCHANGED <<db, hist>>

Revoke == db.consent /\ db' = [db EXCEPT !.consent = FALSE] /\ UNCHANGED <<proc, hist>>

Next ==
  \/ StartPlan \/ NextHost \/ EndPlan
  \/ StartProbe \/ AuthorizeRoute \/ Connect \/ InsertFlow \/ PutRequest \/ PutResponse \/ Bind \/ CaptureFails
  \/ ExportHar \/ Revoke

Spec == Init /\ [][Next]_vars

------------------------------------------------------------------------------
\* However often a plan is broken off and begun again with its seed, no host is
\* recorded both as attempted and as skipped, never more than the cap are attempted,
\* and once such a plan has ended every usable host of the range is recorded.  All
\* this is of one seed: with another one a host that was skipped may be attempted,
\* and the declaration's cap bounds each order by itself, not what is attempted in
\* all; only the limit of the range does that.
RangeIsAccounted ==
  LET Of(seed, status) == {e.host : e \in {e \in db.events : e.seed = seed /\ e.status = status}} IN
  /\ \A seed \in Seeds :
       /\ Of(seed, "attempted") \cap Of(seed, "skipped") = {}
       /\ Cardinality(Of(seed, "attempted")) <= db.cap
       /\ seed \in hist.planned => Of(seed, "attempted") \cup Of(seed, "skipped") = HostsOf(db.range)
  /\ Cardinality({e.host : e \in db.events}) <= MaxRange

\* A flow is bound as evidence only when both raw parts are stored, so an export
\* of the scan never fails over a capture that was broken off.
BoundFlowIsWhole ==
  /\ proc.export # "failed"
  /\ \A f \in db.evidence : {<<"request", f>>, <<"response", f>>} \subseteq db.raw
=============================================================================
