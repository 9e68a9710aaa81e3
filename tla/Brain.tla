-------------------------------- MODULE Brain --------------------------------
(***************************************************************************)
(* The analysis stages of concurrent scans, one scan of each target: chain   *)
(* edges and hypotheses are proposed by a model or by rules, normalised and  *)
(* stored row by row (brain/chain_builder.py, brain/hypothesis_engine.py,    *)
(* database.py); findings are judged (brain/self_critic.py) and remembered   *)
(* in a vector store and the database (brain/memory.py).                     *)
(***************************************************************************)
EXTENDS Naturals, FiniteSets

CONSTANTS
  Targets,     \* each is scanned once
  Ids,         \* ids a model gives its hypotheses: short ones, not of a target
  MaxLearned   \* bound: memories

VARIABLES
  db,    \* hypotheses: rows [id, target, endpoint]; chains: edges <<f, g>> of
         \* findings; learnings: references of vectors; vectors: the vector store
  proc,  \* scan: of each target [at, todo]; memory: the reference being added
  hist   \* verdict: of a target's finding [asked, checks, passed]

vars == <<db, proc, hist>>

Rule(t) == <<"rule", t>>      \* the id of a rule's hypothesis is a hash of it
TargetFindings == Targets \X {1, 2}

Init ==
  /\ db = [hypotheses |-> {}, chains |-> {}, learnings |-> {}, vectors |-> {}]
  /\ proc = [scan |-> [t \in Targets |-> [at |-> "chain", todo |-> {}]], memory |-> 0]
  /\ hist = [verdict |-> [t \in Targets |-> [asked |-> FALSE, checks |-> FALSE, passed |-> FALSE]]]

At(t, p) == proc.scan[t].at = p
Todo(t) == proc.scan[t].todo

------------------------------------------------------------------------------
(* build: the stage knows the deduplicated findings of its own scan.          *)

Known(t) == {f \in TargetFindings : f[1] = t}

NormalizeEdges(t, answer) == {e \in answer : e[1] # e[2] /\ {e[1], e[2]} \subseteq Known(t)}

\* A model may name any finding id; without one the rules relate two findings.
ProposeEdges(t) ==
  /\ At(t, "chain")
  /\ \E f, g \in TargetFindings :
       proc' = [proc EXCEPT !.scan[t] = [at |-> "edges", todo |-> NormalizeEdges(t, {<<f, g>>})]]
  /\ UNCHANGED <<db, hist>>

StoreEdge(t) ==
  /\ At(t, "edges")
  /\ IF Todo(t) = {} THEN proc' = [proc EXCEPT !.scan[t].at = "rank"] /\ UNCHANGED db
     ELSE \E e \in Todo(t) :
            /\ db' = [db EXCEPT !.chains = @ \cup {e}]
            /\ proc' = [proc EXCEPT !.scan[t].todo = @ \ {e}]
  /\ UNCHANGED hist

\* render_chain: the findings in the given order, each hop an edge.
Hops(f, g) == <<f, g>> \in db.chains

------------------------------------------------------------------------------
(* generate.                                                                  *)

\* The first of an id wins, an endpoint out of scope drops the hypothesis.
NormalizeHypotheses(t, answer) == {h \in answer : h.endpoint \in {t, "none"}}

ByModel == {[id |-> <<"model", i>>, endpoint |-> e] : i \in Ids, e \in Targets \cup {"none"}}
ByRule(t) == {[id |-> Rule(t), endpoint |-> t]}

Generate(t) ==
  /\ At(t, "rank")
  /\ \E answer \in {{h} : h \in ByModel} \cup {ByRule(t), {}} :
       proc' = [proc EXCEPT !.scan[t] = [at |-> "hypotheses", todo |-> NormalizeHypotheses(t, answer)]]
  /\ UNCHANGED <<db, hist>>

\* create_hypothesis: a row of the same id keeps its target, the rest is replaced.
Upsert(h, t) ==
  LET old == {r \in db.hypotheses : r.id = h.id}
      owner == IF old = {} THEN t ELSE (CHOOSE r \in old : TRUE).target
  IN (db.hypotheses \ old) \cup {[id |-> h.id, target |-> owner, endpoint |-> h.endpoint]}

StoreHypothesis(t) ==
  /\ At(t, "hypotheses")
  /\ IF Todo(t) = {} THEN proc' = [proc EXCEPT !.scan[t].at = "done"] /\ UNCHANGED db
     ELSE \E h \in Todo(t) :
            /\ db' = [db EXCEPT !.hypotheses = Upsert(h, t)]
            /\ proc' = [proc EXCEPT !.scan[t].todo = @ \ {h}]
  /\ UNCHANGED hist

------------------------------------------------------------------------------
(* evaluate and _add.                                                         *)

\* What the deterministic checks refuse is not shown to the model, whose
\* malformed verdict leaves theirs.
Evaluate(t) ==
  /\ At(t, "done") /\ ~hist.verdict[t].asked
  /\ \E checks, model \in BOOLEAN :
       hist' = [hist EXCEPT !.verdict[t] = [asked |-> TRUE, checks |-> checks, passed |-> checks /\ model]]
  /\ UNCHANGED <<db, proc>>

\* Mutant: the row is written before the vector.
AddRowFirst ==
  /\ proc.memory = 0 /\ Cardinality(db.learnings) < MaxLearned
  /\ LET id == Cardinality(db.learnings) + 1 IN
       /\ db' = [db EXCEPT !.learnings = @ \cup {id}]
       /\ proc' = [proc EXCEPT !.memory = id]
  /\ UNCHANGED hist

\* The vector first, on a thread under the lock; then the row that refers to it.
\* Only the vector is under the lock, and ids are fresh: memories that are added at
\* once do not touch each other, and one at a time shows every order of one's own.
AddVector ==
  /\ proc.memory = 0 /\ Cardinality(db.vectors) < MaxLearned
  /\ LET id == Cardinality(db.vectors) + 1 IN
       /\ db' = [db EXCEPT !.vectors = @ \cup {id}]
       /\ proc' = [proc EXCEPT !.memory = id]
  /\ UNCHANGED hist

AddLearning ==
  /\ proc.memory # 0
  /\ db' = [db EXCEPT !.learnings = @ \cup {proc.memory}]
  /\ proc' = [proc EXCEPT !.memory = 0] /\ UNCHANGED hist

\* The task is cancelled or the process stops between the two.
Lost == proc.memory # 0 /\ proc' = [proc EXCEPT !.memory = 0] /\ UNCHANGED <<db, hist>>

Next ==
  \/ \E t \in Targets : ProposeEdges(t) \/ StoreEdge(t) \/ Generate(t) \/ StoreHypothesis(t) \/ Evaluate(t)
  \/ AddVector \/ AddLearning \/ Lost

Spec == Init /\ [][Next]_vars

------------------------------------------------------------------------------
\* A learning row refers to a vector that similarity search can find, wherever
\* between the two stores the write of a memory was lost.
LearningHasItsVector == db.learnings \subseteq db.vectors

\* hypothesis_engine.py: "Generate, validate, scope-filter, persist, and publish
\* hypotheses." A stored hypothesis of a target lies in that target's scope.
StoredHypothesisInScope ==
  \A h \in db.hypotheses : h.endpoint \in {h.target, "none"}

\* A chain that a report can render joins findings of one target, whatever ids
\* a model answered with while other targets are analysed.
ChainsStayInTarget ==
  \A f, g \in TargetFindings : Hops(f, g) => f[1] = g[1] /\ f # g
=============================================================================
