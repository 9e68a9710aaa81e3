--------------------------- MODULE EvidenceBundles ---------------------------
(***************************************************************************)
(* Evidence bundles of one finding that several scans observe: the           *)
(* assembler of each scan (evidence/assembler.py) builds, closes when        *)
(* nothing is missing and appends (evidence/bundles.py); a reader resolves   *)
(* the latest bundle, of any scan or of one, while artifacts are deleted.    *)
(***************************************************************************)
EXTENDS Naturals, Sequences

CONSTANTS
  Scans,       \* scans that observed the finding, each in one tool run
  MaxBuilds    \* bound: assemblies

VARIABLES
  db,     \* http: does the finding need a flow; lined: scans whose observation
          \* has a line; linked: scans with a flow; live: scans whose stdout is
          \* not tombstoned; rows: evidence_bundles
  proc,   \* asm: a scan's assembler [at, flow, close, prev]; reader
  hist    \* made: the last bundle an assembly of a scan returned; builds;
          \* got: what the reader's resolve ended with

vars == <<db, proc, hist>>

NoBundle == [scan |-> "none"]
Idle == [at |-> "idle", flow |-> FALSE, close |-> TRUE, prev |-> 0]
Asleep == [at |-> "idle", ask |-> "any", row |-> 0, dead |-> {}]

Init ==
  /\ \E http \in BOOLEAN, lined \in SUBSET Scans :
       db = [http |-> http, lined |-> lined, linked |-> {}, live |-> Scans, rows |-> <<>>]
  /\ proc = [asm |-> [s \in Scans |-> Idle], reader |-> Asleep]
  /\ hist = [made |-> [s \in Scans |-> NoBundle], builds |-> 0, got |-> NoBundle]

At(s, p) == proc.asm[s].at = p
Goto(s, p) == [proc EXCEPT !.asm[s].at = p]

------------------------------------------------------------------------------
(* The payload. The provenance node names the tool run that produced the      *)
(* observation, and with it the scan.                                         *)

\* The cited line of the observation, inside the captured output.
Cited(s) == s \in db.lined

HasFlow(s) == s \in db.linked

Provenance(s) == s

Profile(flow) == IF db.http \/ flow THEN "http" ELSE "artifact"

\* A flow is replayed; without one an artifact bundle reopens the cited lines.
Reproducible(s, flow) == flow \/ (Profile(flow) = "artifact" /\ Cited(s))

Missing(s, flow) ==
  {c \in {"flow", "tool_output", "reproduction"} :
     CASE c = "flow" -> Profile(flow) = "http" /\ ~flow
       [] c = "tool_output" -> ~Cited(s)
       [] c = "reproduction" -> ~Reproducible(s, flow)}

\* Mutant: the payload of a bundle does not name its scan.
PayloadWithoutRun(s, flow, closed) ==
  [run |-> "none", flow |-> flow, output |-> Cited(s), closed |-> closed]

Payload(s, flow, closed) ==
  [run |-> Provenance(s), flow |-> flow, output |-> Cited(s), closed |-> closed]

------------------------------------------------------------------------------
(* assemble_observation and build.                                            *)

\* The scan goes on, or its capture links a flow to the tool run.
LinkFlow(s) ==
  /\ s \notin db.linked
  /\ db' = [db EXCEPT !.linked = @ \cup {s}] /\ UNCHANGED <<proc, hist>>

Gather(s) ==
  /\ At(s, "idle") /\ hist.builds < MaxBuilds
  /\ proc' = [proc EXCEPT !.asm[s] = [at |-> "read", flow |-> HasFlow(s), close |-> TRUE, prev |-> 0]]
  /\ hist' = [hist EXCEPT !.builds = @ + 1] /\ UNCHANGED db

\* The artifact is read and hashed. The first failure is audited as blocked, a
\* failure of the second build leaves the assembler; a bundle that cannot close
\* is built once more without closing.
Read(s) ==
  LET a == proc.asm[s] IN
  /\ At(s, "read")
  /\ IF Cited(s) /\ s \notin db.live THEN proc' = Goto(s, "idle")
     ELSE IF a.close /\ Missing(s, a.flow) # {} THEN proc' = [proc EXCEPT !.asm[s].close = FALSE]
     ELSE proc' = Goto(s, "look")
  /\ UNCHANGED <<db, hist>>

Bundle(s) == [scan |-> s, digest |-> Payload(s, proc.asm[s].flow, proc.asm[s].close)]
Returned(s) == hist' = [hist EXCEPT !.made[s] = Bundle(s)]

\* A digest that is there already is not stored again.
LookUp(s) ==
  LET same == {i \in DOMAIN db.rows : db.rows[i].digest = Bundle(s).digest} IN
  /\ At(s, "look") /\ UNCHANGED db
  /\ IF same # {} THEN proc' = Goto(s, "idle") /\ Returned(s)
     ELSE /\ proc' = [proc EXCEPT !.asm[s].at = "insert", !.asm[s].prev = Len(db.rows)]
          /\ UNCHANGED hist

Insert(s) ==
  /\ At(s, "insert")
  /\ db' = [db EXCEPT !.rows = Append(@, [scan |-> s, digest |-> Bundle(s).digest, prev |-> proc.asm[s].prev])]
  /\ Returned(s) /\ proc' = Goto(s, "idle")

Tombstone(s) ==
  /\ s \in db.live
  /\ db' = [db EXCEPT !.live = @ \ {s}] /\ UNCHANGED <<proc, hist>>

------------------------------------------------------------------------------
(* resolve.                                                                   *)

Latest(ask) ==
  LET mine == {i \in DOMAIN db.rows : ask = "any" \/ db.rows[i].scan = ask}
  IN IF mine = {} THEN 0 ELSE CHOOSE i \in mine : \A j \in mine : j <= i

Ended(r) == proc' = [proc EXCEPT !.reader = Asleep] /\ hist' = [hist EXCEPT !.got = r] /\ UNCHANGED db
NotFound == [scan |-> "error"]

Choose(ask) ==
  /\ proc.reader.at = "idle"
  /\ IF Latest(ask) = 0 THEN Ended(NotFound)
     ELSE /\ proc' = [proc EXCEPT !.reader = [at |-> IF ask = "any" THEN "read" ELSE "own", ask |-> ask,
                                              row |-> Latest(ask), dead |-> Scans \ db.live]]
          /\ hist' = [hist EXCEPT !.got = NoBundle] /\ UNCHANGED db

Row == db.rows[proc.reader.row]
Available == Row.digest.output => Row.scan \in db.live

\* Flows and artifacts must be the asked scan's, and not tombstoned.
Own ==
  /\ proc.reader.at = "own"
  /\ IF Available THEN proc' = [proc EXCEPT !.reader.at = "read"] /\ UNCHANGED <<db, hist>>
     ELSE Ended(NotFound)

\* Flows, cited lines and screenshot are read and hashed again.
Verify ==
  /\ proc.reader.at = "read"
  /\ Ended(IF Available THEN [scan |-> Row.scan, digest |-> Row.digest, dead |-> proc.reader.dead] ELSE NotFound)

Next ==
  \/ \E s \in Scans : LinkFlow(s) \/ Gather(s) \/ Read(s) \/ LookUp(s) \/ Insert(s) \/ Tombstone(s)
  \/ \E ask \in Scans \cup {"any"} : Choose(ask)
  \/ Own \/ Verify

Spec == Init /\ [][Next]_vars

------------------------------------------------------------------------------
\* A bundle that an assembly returned can be resolved under its scan: rows of
\* other scans, of the same finding, are never taken for it, and a flow that was
\* linked later does not hide it behind an older, emptier one.
AssembledResolves ==
  \A s \in Scans : hist.made[s] # NoBundle =>
    Latest(s) # 0 /\ db.rows[Latest(s)].digest.closed = hist.made[s].digest.closed

\* What a reader gets cites no artifact that was deleted before it began.
ResolvedEvidenceStands ==
  hist.got \notin {NoBundle, NotFound} => (hist.got.digest.output => hist.got.scan \notin hist.got.dead)
=============================================================================
