------------------------------ MODULE Web3Audit ------------------------------
(***************************************************************************)
(* The static web3 workflow: the source of a deployed contract is resolved  *)
(* at a pinned block (web3/resolution.py), engines report observations on   *)
(* it (web3/engines.py), which are merged, and all of it is recorded        *)
(* append-only (web3/store.py) while the chain grows. No module of app/     *)
(* calls these three in turn: the tests call resolve, corroborate_findings  *)
(* and the store, and a caller that does will record what it was given.     *)
(* Record and Attribute assume that: they hand on what resolve and          *)
(* corroborate_findings returned.                                           *)
(***************************************************************************)
EXTENDS Naturals, Sequences

CONSTANTS
  Jobs,       \* concurrent resolutions of one contract
  MaxBlock,   \* bound: blocks of the chain; its code may change with each
  MaxRows,    \* bound: recorded resolutions
  Most        \* bound: observations of the engines

VARIABLES
  db,     \* head: the newest block; fetchers: the configured ones of Order;
          \* rows: web3_source_artifact; seen: engine runs, one observation each;
          \* graph: web3_finding_provenance
  proc    \* a resolution: [at, block, code, next, by], tried: its audit entries

vars == <<db, proc>>

Order == <<"sourcify", "etherscan", "blockscout", "routescout">>
Quiet == [at |-> "idle", block |-> 0, code |-> 0, next |-> 1, by |-> "bytecode-only", tried |-> {}]

Init ==
  /\ \E f \in SUBSET {1, 3} :
       db = [head |-> 1, fetchers |-> f, rows |-> <<>>, seen |-> <<>>, graph |-> {}]
  /\ proc = [j \in Jobs |-> Quiet]

At(j, p) == proc[j].at = p
Move(j, r) == proc' = [proc EXCEPT ![j] = r]

\* The chain, which is not this system's.
Mine == db.head < MaxBlock /\ db' = [db EXCEPT !.head = @ + 1] /\ UNCHANGED proc

------------------------------------------------------------------------------
(* MultiChainSourceResolver.resolve.                                          *)

PinBlock(j) ==
  /\ At(j, "idle") /\ Len(db.rows) < MaxRows
  /\ Move(j, [Quiet EXCEPT !.at = "code", !.block = db.head]) /\ UNCHANGED db

\* Mutant: the bytecode is read at the latest block.
GetCodeAtHead(j) == At(j, "code") /\ Move(j, [proc[j] EXCEPT !.at = "fetch", !.code = db.head]) /\ UNCHANGED db

\* The code of a block is written as the block's number. It is stored.
GetCode(j) ==
  /\ At(j, "code")
  /\ Move(j, [proc[j] EXCEPT !.at = "fetch", !.code = proc[j].block]) /\ UNCHANGED db

Attempt(j, how) == [block |-> proc[j].block, by |-> Order[proc[j].next], outcome |-> how]

\* Preflight is asked again before each fetcher. What cannot be normalised
\* leaves resolve at once: nothing is audited, no later fetcher is asked.
Fetch(j) ==
  LET p == proc[j] IN
  /\ At(j, "fetch") /\ p.next \in DOMAIN Order
  /\ IF p.next \notin db.fetchers THEN Move(j, [p EXCEPT !.next = @ + 1])
     ELSE \/ \E how \in {"error", "miss"} :
               Move(j, [p EXCEPT !.next = @ + 1, !.tried = @ \cup {Attempt(j, how)}])
          \/ Move(j, [p EXCEPT !.at = "disassemble", !.by = Order[p.next],
                               !.tried = @ \cup {Attempt(j, "verified")}])
          \/ Move(j, Quiet)      \* malformed, or no longer authorised
  /\ UNCHANGED db

FallBack(j) ==
  /\ At(j, "fetch") /\ proc[j].next \notin DOMAIN Order
  /\ Move(j, [proc[j] EXCEPT !.at = "disassemble"]) /\ UNCHANGED db

\* record_source_resolution of what resolve returned, by a caller that hands it on
\* and names the row it supersedes; only tests do so now.
Record(j) ==
  LET p == proc[j] IN
  /\ At(j, "disassemble")
  /\ db' = [db EXCEPT !.rows = Append(@, [block |-> p.block, code |-> p.code, by |-> p.by,
                                          disasm |-> p.code, over |-> Len(@), tried |-> p.tried])]
  /\ Move(j, Quiet)

------------------------------------------------------------------------------
(* Observations: an engine, whether it names a file and line, how sure it is.  *)

Severe == {"high", "critical"}
Levels == [info |-> 0, low |-> 1, medium |-> 2, high |-> 3, critical |-> 4]

SourceObservations ==
  [engine : {"slither", "aderyn"}, located : BOOLEAN, severity : {"low", "high"}, sure : 1..2]

\* Mythril gives a line without a file, or an offset of the bytecode.
MythrilObservations ==
  [engine : {"mythril"}, located : {FALSE}, severity : {"low", "high"}, sure : 1..2]

LatestRow == db.rows[Len(db.rows)]

\* record_engine_run on the latest resolution: source engines need its source.
RunEngine ==
  /\ Len(db.rows) >= MaxRows /\ Len(db.seen) < Most
  /\ \E o \in MythrilObservations
            \cup (IF LatestRow.by = "bytecode-only" THEN {} ELSE SourceObservations) :
       db' = [db EXCEPT !.seen = Append(@, o)]
  /\ UNCHANGED proc

\* The observations of one class, function and location.
Group(place) == {i \in DOMAIN db.seen : db.seen[i].located = place}
Engines(g) == {db.seen[i].engine : i \in g}

Corroborated(g) == \E i, j \in g : db.seen[i].engine # db.seen[j].engine

\* The surest, then the gravest, then the first.
Best(g) ==
  CHOOSE i \in g : \A j \in g \ {i} :
    LET a == db.seen[i] b == db.seen[j] IN
    \/ a.sure > b.sure
    \/ a.sure = b.sure /\ Levels[a.severity] > Levels[b.severity]
    \/ a.sure = b.sure /\ a.severity = b.severity /\ i < j

\* A grave observation that nobody confirms and that names no source is lowered.
Merged(g) ==
  LET best == db.seen[Best(g)] IN
  [severity |-> IF best.severity \in Severe /\ ~Corroborated(g) /\ ~best.located
                THEN "medium" ELSE best.severity,
   engines |-> Engines(g), corroborated |-> Corroborated(g),
   disagree |-> \E i, j \in g : i # j /\ (\/ db.seen[i].engine = db.seen[j].engine
                                          \/ db.seen[i].severity # db.seen[j].severity)]

\* record_finding_provenance, for one engine run of a merged finding, by a caller
\* that hands on what corroborate_findings returned; only tests do so now.
Attribute ==
  /\ \E place \in BOOLEAN : \E run \in Group(place) :
       /\ \A n \in db.graph : n.run # run
       /\ db' = [db EXCEPT !.graph = @ \cup {[run |-> run, row |-> Len(db.rows), finding |-> Merged(Group(place))]}]
  /\ UNCHANGED proc

Next ==
  \/ Mine \/ RunEngine \/ Attribute
  \/ \E j \in Jobs : PinBlock(j) \/ GetCode(j) \/ Fetch(j) \/ FallBack(j) \/ Record(j)

Spec == Init /\ [][Next]_vars

------------------------------------------------------------------------------
\* Whatever blocks are mined between the calls of a resolution, the row recorded of
\* its result holds the bytecode of the block it names, and the source it was given for that
\* block, by the first fetcher of the fixed order that had one: every
\* configured fetcher before it was asked for the same block and is audited.
RowIsOfOneBlock ==
  \A i \in DOMAIN db.rows :
    LET row == db.rows[i]
        upTo == {k \in db.fetchers : row.by \notin {Order[m] : m \in 1..(k - 1)}}
    IN /\ row.code = row.block /\ row.disasm = row.block
       /\ \A k \in upTo : \E a \in row.tried :
            /\ a.block = row.block /\ a.by = Order[k]
            /\ a.outcome \in IF Order[k] = row.by THEN {"verified"} ELSE {"error", "miss"}

\* A finding that provenance carries as grave was seen by two engines or shows
\* its line of source: an engine that repeats itself does not confirm itself.
GraveIsWitnessed ==
  \A n \in db.graph : n.finding.severity \in Severe =>
    \/ \E e, f \in n.finding.engines : e # f
    \/ db.seen[n.run].located
=============================================================================
