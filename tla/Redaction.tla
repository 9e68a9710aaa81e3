------------------------------ MODULE Redaction ------------------------------
(***************************************************************************)
(* Redacted views of one artifact (evidence/redaction.py): matches of the   *)
(* secret patterns and of the operator's terms are replaced left to right;   *)
(* the table of spans, the view, the map and the run are four writes.        *)
(***************************************************************************)
EXTENDS Naturals, Sequences, FiniteSets

CONSTANTS
  Size,      \* length of the text
  Builtin,   \* ranks of the built-in rules, in the order of their names
  Terms,     \* ranks of the operator's terms
  Most       \* bound: matches in the text

VARIABLES
  db,     \* found: the matches in the text; table: redaction_map; stored:
          \* artifacts put; runs: redaction_runs, one row per set of terms
  proc    \* redactions under way, one per set of terms: where they are

vars == <<db, proc>>

Spans == {s \in (0 .. Size) \X (0 .. Size) : s[1] < s[2]}
Matches == [span : Spans, rule : Builtin \cup Terms]

Init ==
  /\ \E found \in SUBSET Matches :
       Cardinality(found) <= Most /\ db = [found |-> found, table |-> {}, stored |-> {}, runs |-> {}]
  /\ proc = [t \in SUBSET Terms |-> "idle"]

------------------------------------------------------------------------------
(* redact_artifact: candidates by start, the longer first, then by rule.      *)

Candidates(t) == {m \in db.found : m.rule \in Builtin \cup t}

Before(m, n) ==
  \/ m.span[1] < n.span[1]
  \/ m.span[1] = n.span[1] /\ m.span[2] > n.span[2]
  \/ m.span = n.span /\ m.rule < n.rule

Foremost(ms) == CHOOSE m \in ms : \A n \in ms \ {m} : Before(m, n)

\* Mutant: a match that touches a replacement is skipped.
FreeSkipsAdjacent(ms, occupied) == {m \in ms : m.span[1] > occupied \/ occupied = 0}

Free(ms, occupied) == {m \in ms : m.span[1] >= occupied}

\* The selected matches in order: each the first that starts where the last ended
\* or later.
Selected(ms) ==
  LET S[k \in 0 .. Cardinality(ms)] ==
        IF k = 0 THEN <<>>
        ELSE LET last == S[k-1]
                 free == Free(ms, IF last = <<>> THEN 0 ELSE last[Len(last)].span[2])
             IN IF free = {} THEN last ELSE Append(last, Foremost(free))
  IN S[Cardinality(ms)]

\* A placeholder counts the occurrences of its rule.
Entries(t) ==
  LET s == Selected(Candidates(t))
  IN [i \in DOMAIN s |-> [span |-> s[i].span, rule |-> s[i].rule,
                          n |-> Cardinality({j \in 1 .. i : s[j].rule = s[i].rule})]]

Known(e) == \E r \in db.table : r.span = e.span /\ r.rule = e.rule

\* INSERT OR IGNORE: a span that a run with other terms numbered keeps its number.
Mark(t) ==
  /\ proc[t] = "idle"
  /\ db' = [db EXCEPT !.table = @ \cup {Entries(t)[i] : i \in {i \in DOMAIN Entries(t) : ~Known(Entries(t)[i])}}]
  /\ proc' = [proc EXCEPT ![t] = "view"]

Put(t, kind, here, next) ==
  /\ proc[t] = here
  /\ db' = [db EXCEPT !.stored = @ \cup {<<kind, t, Entries(t)>>}]
  /\ proc' = [proc EXCEPT ![t] = next]

PutView(t) == Put(t, "view", "view", "map")
PutMap(t) == Put(t, "map", "map", "run")

\* Upserted, so that a repeated redaction keeps one row.
Record(t) ==
  /\ proc[t] = "run"
  /\ db' = [db EXCEPT !.runs = {r \in @ : r.terms # t} \cup {[terms |-> t, entries |-> Entries(t)]}]
  /\ proc' = [proc EXCEPT ![t] = "idle"]

\* A write fails, or the process ends.
Abandon(t) == proc[t] # "idle" /\ proc' = [proc EXCEPT ![t] = "idle"] /\ UNCHANGED db

Next == \E t \in SUBSET Terms : Mark(t) \/ PutView(t) \/ PutMap(t) \/ Record(t) \/ Abandon(t)

Spec == Init /\ [][Next]_vars

------------------------------------------------------------------------------
Meets(a, b) == a[1] < b[2] /\ b[1] < a[2]

\* A run that is recorded has its view and map stored, and replaces something of
\* every match of its terms: no secret that a pattern found stays whole because
\* of its neighbours, and no two replacements overlap.
NoMatchStaysWhole ==
  \A r \in db.runs :
    /\ {<<"view", r.terms, r.entries>>, <<"map", r.terms, r.entries>>} \subseteq db.stored
    /\ \A m \in Candidates(r.terms) : \E i \in DOMAIN r.entries : Meets(m.span, r.entries[i].span)
    /\ \A i, j \in DOMAIN r.entries : i < j => r.entries[i].span[2] <= r.entries[j].span[1]
=============================================================================
