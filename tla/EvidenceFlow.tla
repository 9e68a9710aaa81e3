----------------------------- MODULE EvidenceFlow -----------------------------
(***************************************************************************)
(* The modules on the way from a consent to a report, one beside the other: *)
(* a behaviour is one of `part`, chosen at the start. Authorization is      *)
(* extended, the other modules share the names of their variables. A        *)
(* property holds for the behaviours of its part. The constants have the    *)
(* names and meanings they have in the modules, or are named below.          *)
(***************************************************************************)
EXTENDS Authorization, FiniteSets

CONSTANTS
  Catalog, Chain(_), Keyed, Askers, TTL, MaxFlips,       \* ToolResolver: Tools, Requests
  Tools, Pinned, Workers, MaxOps, MaxFaults,             \* ToolProvisioning
  Proxied, Rules, MaxRules,                              \* CaptureProxy: Flows
  Width, MaxRange, Caps, Seeds, Shuffle(_, _), MaxRuns,  \* TargetProbes
  Size, Builtin, Terms, MaxMatches,                      \* Redaction: Most
  Artifacts, Flows, None,                                \* EvidenceRoot
  Scans, MaxBuilds,                                      \* EvidenceBundles
  Jobs, MaxBlock, MaxRows, MaxObservations,              \* Web3Audit: Most
  Runs, Prints, MaxWrites,                               \* FindingCases
  Pages, First, MaxPages,                                \* DuplicateLookup
  Findings, Scores, MaxSeen, MaxVerified,                \* ScanReports
  Targets, Ids, MaxLearned,                              \* Brain
  Users, MaxSteps                                        \* Submissions

VARIABLES
  part,                              \* the module this behaviour is of
  db, mem, proc, hist,               \* its state
  live, dead, flows, sealed, covered \* the state of EvidenceRoot

root == <<live, dead, flows, sealed, covered>>
state == <<db, mem, proc, hist>>
suiteVars == <<part, state, root, vars>>

------------------------------------------------------------------------------

Resolver == INSTANCE ToolResolver WITH Tools <- Catalog, Requests <- Askers
Provisioning == INSTANCE ToolProvisioning
Proxy == INSTANCE CaptureProxy WITH Flows <- Proxied
Probes == INSTANCE TargetProbes
Text == INSTANCE Redaction WITH Most <- MaxMatches
Root == INSTANCE EvidenceRoot
Bundles == INSTANCE EvidenceBundles
Web3 == INSTANCE Web3Audit WITH Most <- MaxObservations
Cases == INSTANCE FindingCases
Lookup == INSTANCE DuplicateLookup
Reports == INSTANCE ScanReports
Analysis == INSTANCE Brain
Cards == INSTANCE Submissions

------------------------------------------------------------------------------

\* A lookup begins at a page of the history.
ASSUME FirstIsAPage == First \in Pages

\* An address has a number of bits, and limits and caps are counts.
ASSUME ProbesAssumption == Width \in Nat /\ MaxRange \in Nat /\ Caps \subseteq Nat

\* A seed's order has each of the hosts once.
ASSUME SeedsShuffle ==
  \A seed \in Seeds, n \in 0 .. MaxRange :
    /\ Shuffle(seed, n) \in [1 .. n -> 1 .. n]
    /\ \A h \in 1 .. n : \E i \in 1 .. n : Shuffle(seed, n)[i] = h
    /\ \A i, j \in 1 .. n : Shuffle(seed, n)[i] = Shuffle(seed, n)[j] => i = j

\* Rules are ranked by their names, and a text has a length.
ASSUME RulesAreRanked ==
  Size \in Nat /\ Builtin \cup Terms \subseteq Nat /\ IsFiniteSet(Builtin \cup Terms)

\* The binaries and the objects of the cache are different files.
ASSUME ObjectsAreNoTools == Tools \cap Provisioning!Hashes = {}

\* Hashes are ordered, and no flow has the hash of an artifact: it is the hash of
\* a record that names the flow.
ASSUME HashesAreOrdered ==
  Artifacts \cup Flows \subseteq Nat /\ Artifacts \cap Flows = {}

\* "any" asks for the bundle of no particular scan: scans have ids of their own.
ASSUME ScansAreNamed == "any" \notin Scans

\* Cases are rows of a table.
ASSUME PrintsAreFinite == IsFiniteSet(Prints)

\* _score rounds to hundredths what is at most a hundred.
ASSUME ScoresAreBounded ==
  Scores \subseteq Nat /\ \E top \in Scores : \A x \in Scores : x <= top

\* Every tool has a backend to try, and an answer is kept for some time.
ASSUME ChainsAreTried ==
  \A t \in Catalog : Chain(t) \in Seq(Resolver!BackendsOf(t)) /\ Chain(t) # <<>>
ASSUME AnswersAreKept == TTL \in Nat \ {0}

------------------------------------------------------------------------------

NoRoot == live = {} /\ dead = {} /\ flows = {} /\ sealed = None /\ covered = {}
No(v) == v = "unused"
NoScope == No(store) /\ No(workers) /\ No(asks) /\ used = {}

SuiteInit ==
  \/ part = "scope" /\ Init /\ No(db) /\ No(mem) /\ No(proc) /\ No(hist) /\ NoRoot
  \/ part = "resolver" /\ Resolver!Init /\ NoRoot /\ NoScope
  \/ part = "provisioning" /\ Provisioning!Init /\ No(mem) /\ NoRoot /\ NoScope
  \/ part = "proxy" /\ Proxy!Init /\ No(hist) /\ NoRoot /\ NoScope
  \/ part = "probes" /\ Probes!Init /\ No(mem) /\ NoRoot /\ NoScope
  \/ part = "redaction" /\ Text!Init /\ No(mem) /\ No(hist) /\ NoRoot /\ NoScope
  \/ part = "root" /\ Root!Init /\ No(db) /\ No(mem) /\ No(proc) /\ No(hist) /\ NoScope
  \/ part = "bundles" /\ Bundles!Init /\ No(mem) /\ NoRoot /\ NoScope
  \/ part = "web3" /\ Web3!Init /\ No(mem) /\ No(hist) /\ NoRoot /\ NoScope
  \/ part = "cases" /\ Cases!Init /\ No(mem) /\ NoRoot /\ NoScope
  \/ part = "lookup" /\ Lookup!Init /\ No(mem) /\ No(hist) /\ NoRoot /\ NoScope
  \/ part = "reports" /\ Reports!Init /\ No(mem) /\ NoRoot /\ NoScope
  \/ part = "analysis" /\ Analysis!Init /\ No(mem) /\ NoRoot /\ NoScope
  \/ part = "cards" /\ Cards!Init /\ No(mem) /\ NoRoot /\ NoScope

SuiteNext ==
  \/ part = "scope" /\ Next /\ UNCHANGED <<part, state, root>>
  \/ part = "resolver" /\ Resolver!Next /\ UNCHANGED <<part, root, vars>>
  \/ part = "provisioning" /\ Provisioning!Next /\ UNCHANGED <<part, mem, root, vars>>
  \/ part = "proxy" /\ Proxy!Next /\ UNCHANGED <<part, hist, root, vars>>
  \/ part = "probes" /\ Probes!Next /\ UNCHANGED <<part, mem, root, vars>>
  \/ part = "redaction" /\ Text!Next /\ UNCHANGED <<part, mem, hist, root, vars>>
  \/ part = "root" /\ Root!Next /\ UNCHANGED <<part, state, vars>>
  \/ part = "bundles" /\ Bundles!Next /\ UNCHANGED <<part, mem, root, vars>>
  \/ part = "web3" /\ Web3!Next /\ UNCHANGED <<part, mem, hist, root, vars>>
  \/ part = "cases" /\ Cases!Next /\ UNCHANGED <<part, mem, root, vars>>
  \/ part = "lookup" /\ Lookup!Next /\ UNCHANGED <<part, mem, hist, root, vars>>
  \/ part = "reports" /\ Reports!Next /\ UNCHANGED <<part, mem, root, vars>>
  \/ part = "analysis" /\ Analysis!Next /\ UNCHANGED <<part, mem, root, vars>>
  \/ part = "cards" /\ Cards!Next /\ UNCHANGED <<part, mem, root, vars>>

SuiteSpec == SuiteInit /\ [][SuiteNext]_suiteVars

------------------------------------------------------------------------------

\* A tool is scheduled only on a backend all of whose parts were there when the
\* plan asked, or less than the life of a cached answer before: no passive guess
\* and no answer of a slower request makes it older.
PlanWasTrue == part = "resolver" => Resolver!PlanWasTrue

\* A tool that was reported ready has a whole binary unless somebody writes it:
\* an object that a crash cut off and a bundle that was damaged on its way never
\* reach it, as the cache is read by hash and the bundle is checked first. Each
\* tool that the code takes as it finds it is set apart, and no other: one whose
\* own binary was half when its installer failed, when a process that installed,
\* restored or imported it ended, or when it was recorded or exported, and one
\* restored from an object that was kept or imported beside another process.
ReadyIsWhole == part = "provisioning" => Provisioning!ReadyIsWhole

\* A flow is stored only if it was forwarded and belonged to a target, and it is
\* announced as captured only if it was stored, whatever was deleted, narrowed
\* or dropped between the hooks.
CapturedWasSent == part = "proxy" => Proxy!CapturedWasSent

\* "Apply configured interceptor rules before forwarding a request"
\* (mitm_addon.py): what matching rules modified is what goes to the server.
ModifiedIsForwarded == part = "proxy" => Proxy!ModifiedIsForwarded

\* However often a plan is broken off and begun again with its seed, no host is
\* recorded both as attempted and as skipped, never more than the cap are attempted,
\* and once it has ended every usable host of the range is recorded.  (A plan with
\* another seed attempts other hosts, up to the cap again.)  A flow is bound as
\* evidence only when both its raw parts are stored.
ProbesAreAccounted == part = "probes" => Probes!RangeIsAccounted /\ Probes!BoundFlowIsWhole

\* A run that is recorded has its view and map stored, and replaces something of
\* every match of its terms: no secret that a pattern found stays whole because
\* of its neighbours, and no two replacements overlap.
NoMatchStaysWhole == part = "redaction" => Text!NoMatchStaysWhole

\* A scan verifies exactly when its evidence is what was sealed: nothing
\* added, tombstoned or exchanged, for odd and even numbers of leaves.
VerifiedIsExact == part = "root" => Root!VerifiedIsExact

\* A bundle that an assembly returned can be resolved under its scan: rows of
\* other scans, of the same finding, are never taken for it, and a flow that was
\* linked later does not hide it behind an older, emptier one.  What a reader
\* then gets cites no artifact that was deleted before it began.
BundlesResolve == part = "bundles" => Bundles!AssembledResolves /\ Bundles!ResolvedEvidenceStands

\* Whatever blocks are mined between the calls of a resolution, what it returns,
\* and a row recorded of it, holds the bytecode of the block it names, and the
\* source it was given for that block, by the first fetcher of the fixed order
\* that had one: every configured fetcher before it was asked for the same block
\* and is audited. A merged finding that is recorded as grave was seen by two
\* engines or shows its line. The module says who records them.
AuditIsWitnessed == part = "web3" => Web3!RowIsOfOneBlock /\ Web3!GraveIsWitnessed

\* A report lists every case that its scan reported, first or not, and that was
\* there from the report's first query to its end, and none of other scans.
ReportListsItsCases == part = "cases" => Cases!ReportListsItsCases

\* A history that is returned has reached the last page, or a page whose body is
\* no object: a lookup that stops at its limit of pages, or goes round in
\* circles, is an error and never looks like a complete history.
HistoryReachesItsEnd == part = "lookup" => Lookup!HistoryReachesItsEnd

\* A scan's report has one section for each case the scan had when it was
\* ranked, in the order of the scores it read, whatever its triage, whether or
\* not its evidence closed, and never with half of a verification's claims.
\* A draft takes its narrative and its evidence from its scan, however many other
\* scans observe the finding before the draft is read, and from one tool run of
\* it, unless the scan made the case: then the narrative is the case's, of the run
\* that made it, whichever run the evidence is of.
ReportsAreWhole == part = "reports" => Reports!ReportIsWhole /\ Reports!DraftIsOfItsScan

\* A learning row refers to a vector that similarity search can find, wherever
\* between the two stores the write of a memory was lost, and a chain joins
\* findings of one target, whatever ids a model answered with.
MemoryIsJoined == part = "analysis" => Analysis!LearningHasItsVector /\ Analysis!ChainsStayInTarget

\* A report's history is its way from draft to its status, one step at a time,
\* whatever transitions raced, failed or stopped half way: only the event of
\* its creation may come late or be missing; and every event was audited.  A
\* card keeps to its workflow and its first dates, unless a transition wrote over
\* a change it had not read.
WorkflowIsKept ==
  /\ [](part = "cards" => Cards!HistoryIsThePath)
  /\ [][part = "cards" => Cards!CardKeepsItsWay]_db
===============================================================================
