------------------------- MODULE FindingFlow_proofs -------------------------
(***************************************************************************)
(* Proofs about the parts of EvidenceFlow that work on findings: the choice  *)
(* of a backend and its binaries, the probes of a target, the bundles, the   *)
(* cases, the duplicates, what the brain learns, and the submissions.  A     *)
(* section has the inductive invariant of its module, what each action does  *)
(* to it, and what the suite states of the part.                             *)
(***************************************************************************)
EXTENDS EvidenceFlow, Integers, Functions, SequenceTheorems, FiniteSetTheorems, TLAPS

-----------------------------------------------------------------------------
(* ToolResolver *)

\* Every tool has a chain, and an answer of the program is kept for some time.

ResolverBackends == UNION {Resolver!BackendsOf(t) : t \in Catalog}
ResolverAnswers == [at : Int, ok : BOOLEAN]

ResolverTyped ==
  /\ db = [up |-> db.up, key |-> db.key, scans |-> db.scans] /\ db.up \in [Resolver!Facts -> BOOLEAN]
  /\ mem = [now |-> mem.now, cache |-> mem.cache] /\ mem.now \in Nat /\ mem.cache \in [Resolver!Cached -> ResolverAnswers]
  /\ hist = [wasUp |-> hist.wasUp, flips |-> hist.flips] /\ hist.wasUp \in [Resolver!Facts -> Int]
  /\ \A f \in Resolver!Facts : hist.wasUp[f] <= mem.now
  /\ DOMAIN proc = Askers

\* When each fact was last seen up, as a function.
ResolverUp == [f \in Resolver!Facts |-> Resolver!LastUp(f)]

ResolverGood(up, e) ==
  /\ e.backend \in ResolverBackends /\ e.since \in Int
  /\ \A i \in DOMAIN Resolver!FactsOf(e.backend) : up[Resolver!FactsOf(e.backend)[i]] > e.since - TTL

ResolverShape(p) ==
  p = [at |-> p.at, todo |-> p.todo, chosen |-> p.chosen, tool |-> p.tool, chain |-> p.chain, facts |-> p.facts,
       since |-> p.since, stamp |-> p.stamp, found |-> p.found, selected |-> p.selected, skipped |-> p.skipped]

\* The facts of the backend at the head of the chain that are still to ask: all
\* of them, or the image of a program that answered.
ResolverAsks(up, chain, facts, since) ==
  /\ chain \in Seq(ResolverBackends)
  /\ facts # <<>> =>
       /\ chain # <<>>
       /\ \/ facts = Resolver!FactsOf(Head(chain))
          \/ Head(chain) = "container" /\ facts = <<"image">> /\ up["daemon"] > since - TTL

ResolverWalk(up, now, p) ==
  /\ ResolverShape(p)
  /\ p.since \in Int /\ p.since <= now /\ p.stamp \in Int /\ p.stamp <= now
  /\ \A e \in p.found \cup p.selected : ResolverGood(up, e)
  /\ p.at \in {"gate", "plan"} /\ p.stamp # Resolver!Never => p.tool # "none" /\ p.facts # <<>>
  /\ p.at \in {"gate", "plan"} /\ p.tool # "none" => ResolverAsks(up, p.chain, p.facts, p.since)

ResolverKept(up, cache) == \A f \in Resolver!Cached : cache[f].ok => up[f] >= cache[f].at

ResolverPlans(up, scans) == \A plan \in scans : \A e \in plan : ResolverGood(up, e)

ResolverInv ==
  /\ ResolverTyped
  /\ \A r \in Askers : ResolverWalk(ResolverUp, mem.now, proc[r])
  /\ ResolverKept(ResolverUp, mem.cache) /\ ResolverPlans(ResolverUp, db.scans)

ResolverLate(up, since) == up["daemon"] > since - TTL

LEMMA ResolverFacts ==
  /\ Resolver!FactsOf("container") = <<"daemon", "image">> /\ DOMAIN Resolver!FactsOf("container") = {1, 2}
  /\ \A b : b # "container" => Resolver!FactsOf(b) = <<b>> /\ DOMAIN Resolver!FactsOf(b) = {1}
  /\ "daemon" \in Resolver!Cached /\ "image" \in Resolver!Cached /\ Resolver!Cached \subseteq Resolver!Facts
  /\ \A b \in ResolverBackends : /\ b # "container" => b \in Resolver!Facts
                                 /\ \A i \in DOMAIN Resolver!FactsOf(b) : Resolver!FactsOf(b)[i] \in Resolver!Facts
<1>1. Resolver!FactsOf("container") = <<"daemon", "image">> /\ \A b : b # "container" => Resolver!FactsOf(b) = <<b>>
  BY DEF Resolver!FactsOf
<1>2. DOMAIN <<"daemon", "image">> = {1, 2} /\ \A b : DOMAIN <<b>> = {1} /\ <<b>>[1] = b
  OBVIOUS
<1>3. Resolver!Cached \subseteq Resolver!Facts /\ "daemon" \in Resolver!Cached /\ "image" \in Resolver!Cached
  BY DEF Resolver!Facts, Resolver!Cached
<1>4. ASSUME NEW b \in ResolverBackends, b # "container" PROVE b \in Resolver!Facts
  <2>1. Resolver!Facts = Resolver!Cached \cup (ResolverBackends \ {"container"})
    BY DEF Resolver!Facts, ResolverBackends
  <2> QED
    BY <2>1, <1>4
<1>5. ASSUME NEW b \in ResolverBackends, NEW i \in DOMAIN Resolver!FactsOf(b) PROVE Resolver!FactsOf(b)[i] \in Resolver!Facts
  <2>1. CASE b = "container"
    <3>1. i = 1 \/ i = 2
      BY <2>1, <1>1, <1>2
    <3> QED
      BY <2>1, <3>1, <1>1, <1>3
  <2>2. CASE b # "container"
    BY <2>2, <1>1, <1>2, <1>4
  <2> QED
    BY <2>1, <2>2
<1> QED
  BY <1>1, <1>2, <1>3, <1>4, <1>5

LEMMA ResolverUpIs ==
  ASSUME ResolverTyped
  PROVE  /\ ResolverUp \in [Resolver!Facts -> Int] /\ \A f \in Resolver!Facts : ResolverUp[f] <= mem.now
         /\ \A f \in Resolver!Facts : db.up[f] => ResolverUp[f] = mem.now
         /\ \A f \in Resolver!Facts : ~db.up[f] => ResolverUp[f] = hist.wasUp[f]
  BY DEF ResolverTyped, ResolverUp, Resolver!LastUp

\* A fact is never seen up earlier than it was.
LEMMA ResolverLater ==
  ASSUME NEW up \in [Resolver!Facts -> Int], NEW vp \in [Resolver!Facts -> Int], \A f \in Resolver!Facts : up[f] <= vp[f],
         NEW now \in Int, NEW nov \in Int, now <= nov
  PROVE  /\ \A e : ResolverGood(up, e) => ResolverGood(vp, e)
         /\ \A p : ResolverWalk(up, now, p) => ResolverWalk(vp, nov, p)
         /\ \A c \in [Resolver!Cached -> ResolverAnswers] : ResolverKept(up, c) => ResolverKept(vp, c)
         /\ \A scans : ResolverPlans(up, scans) => ResolverPlans(vp, scans)
<1>1. ASSUME NEW e, ResolverGood(up, e) PROVE ResolverGood(vp, e)
  <2>1. \A i \in DOMAIN Resolver!FactsOf(e.backend) : Resolver!FactsOf(e.backend)[i] \in Resolver!Facts
    BY <1>1, ResolverFacts DEF ResolverGood
  <2>2. e.since - TTL \in Int
    BY <1>1, AnswersAreKept DEF ResolverGood
  <2>3. ASSUME NEW i \in DOMAIN Resolver!FactsOf(e.backend) PROVE vp[Resolver!FactsOf(e.backend)[i]] > e.since - TTL
    <3>1. PICK f \in Resolver!Facts : f = Resolver!FactsOf(e.backend)[i]
      BY <2>1
    <3>2. PICK k \in Int : k = e.since - TTL
      BY <2>2
    <3>3. up[f] > k
      BY <1>1, <3>1, <3>2 DEF ResolverGood
    <3>4. vp[f] > k
      BY <3>3
    <3> QED
      BY <3>1, <3>2, <3>4
  <2> QED
    BY <1>1, <2>3 DEF ResolverGood
<1>2. ASSUME NEW p, ResolverWalk(up, now, p) PROVE ResolverWalk(vp, nov, p)
  <2>1. p.since \in Int /\ p.since <= nov /\ p.stamp \in Int /\ p.stamp <= nov
    BY <1>2 DEF ResolverWalk
  <2>2. \A e \in p.found \cup p.selected : ResolverGood(vp, e)
    BY <1>1, <1>2 DEF ResolverWalk
  <2>3. ASSUME ResolverAsks(up, p.chain, p.facts, p.since) PROVE ResolverAsks(vp, p.chain, p.facts, p.since)
    <3>1. p.since - TTL \in Int /\ "daemon" \in Resolver!Facts
      BY <2>1, ResolverFacts, AnswersAreKept
    <3>2. up["daemon"] > p.since - TTL => vp["daemon"] > p.since - TTL
      BY <3>1
    <3> QED
      BY <2>3, <3>2 DEF ResolverAsks
  <2> QED
    BY <1>2, <2>1, <2>2, <2>3 DEF ResolverWalk
<1>3. ASSUME NEW c \in [Resolver!Cached -> ResolverAnswers], ResolverKept(up, c) PROVE ResolverKept(vp, c)
  <2>1. \A f \in Resolver!Cached : c[f].at \in Int /\ f \in Resolver!Facts
    BY ResolverFacts DEF ResolverAnswers
  <2>2. ASSUME NEW f \in Resolver!Cached, c[f].ok PROVE vp[f] >= c[f].at
    <3>1. up[f] >= c[f].at
      BY <1>3, <2>2 DEF ResolverKept
    <3> QED
      BY <2>1, <3>1
  <2> QED
    BY <2>2 DEF ResolverKept
<1>4. ASSUME NEW scans, ResolverPlans(up, scans) PROVE ResolverPlans(vp, scans)
  BY <1>1, <1>4 DEF ResolverPlans
<1> QED
  BY <1>1, <1>2, <1>3, <1>4

LEMMA ResolverIdle ==
  /\ Resolver!Idle = [at |-> "idle", todo |-> {}, chosen |-> {}, tool |-> "none", chain |-> <<>>, facts |-> <<>>,
                       since |-> 0, stamp |-> 0, found |-> {}, selected |-> {}, skipped |-> {}]
  /\ \A up, now : now \in Nat => ResolverWalk(up, now, Resolver!Idle)
  BY DEF Resolver!Idle, ResolverWalk, ResolverShape

LEMMA ResolverInit == ASSUME Resolver!Init PROVE ResolverInv
<1>1. PICK up \in [Resolver!Facts -> BOOLEAN], key \in BOOLEAN :
        db = [up |-> up, key |-> [process |-> key, settings |-> FALSE], scans |-> {}]
  BY DEF Resolver!Init
<1>2. Resolver!Never \in Int /\ Resolver!Never <= 0
  BY AnswersAreKept DEF Resolver!Never
<1>3. PICK a : a = [at |-> Resolver!Never, ok |-> FALSE]
  OBVIOUS
<1>4. a \in ResolverAnswers /\ ~a.ok
  BY <1>2, <1>3 DEF ResolverAnswers
<1>5. mem = [now |-> 0, cache |-> [f \in Resolver!Cached |-> a]] /\ hist = [wasUp |-> [f \in Resolver!Facts |-> Resolver!Never], flips |-> 0]
      /\ proc = [r \in Askers |-> Resolver!Idle]
  BY <1>3 DEF Resolver!Init
<1>6. ResolverTyped
  BY <1>1, <1>2, <1>4, <1>5 DEF ResolverTyped
<1>7. ResolverKept(ResolverUp, mem.cache) /\ ResolverPlans(ResolverUp, db.scans)
  BY <1>1, <1>4, <1>5 DEF ResolverKept, ResolverPlans
<1>8. \A r \in Askers : ResolverWalk(ResolverUp, mem.now, proc[r])
  BY <1>5, ResolverIdle
<1> QED
  BY <1>6, <1>7, <1>8 DEF ResolverInv

\* The world moves on.
LEMMA ResolverWorld ==
  ASSUME ResolverInv, ResolverTyped', UNCHANGED proc, mem.now <= mem'.now, mem'.cache = mem.cache,
         db'.scans = db.scans, \A f \in Resolver!Facts : ResolverUp[f] <= ResolverUp'[f]
  PROVE  ResolverInv'
<1>1. PICK up \in [Resolver!Facts -> Int] : up = ResolverUp
  BY ResolverUpIs DEF ResolverInv
<1>2. ResolverUp' \in [Resolver!Facts -> Int]
  <2>1. \A f \in Resolver!Facts : db'.up[f] \in BOOLEAN /\ mem'.now \in Int /\ hist'.wasUp[f] \in Int
    BY DEF ResolverTyped
  <2>2. \A f \in Resolver!Facts : Resolver!LastUp(f)' \in Int
    BY <2>1 DEF Resolver!LastUp
  <2> QED
    BY <2>2 DEF ResolverUp
<1>3. PICK vp \in [Resolver!Facts -> Int] : vp = ResolverUp'
  BY <1>2
<1>4. PICK now \in Int, nov \in Int : now = mem.now /\ nov = mem'.now
  BY DEF ResolverInv, ResolverTyped
<1>5. now <= nov /\ \A f \in Resolver!Facts : up[f] <= vp[f]
  BY <1>1, <1>3, <1>4
<1>6. mem.cache \in [Resolver!Cached -> ResolverAnswers]
  BY DEF ResolverInv, ResolverTyped
<1>7. ResolverKept(vp, mem.cache) /\ ResolverPlans(vp, db.scans)
  BY <1>1, <1>5, <1>6, ResolverLater DEF ResolverInv
<1>8. \A r \in Askers : ResolverWalk(vp, nov, proc[r])
  BY <1>1, <1>4, <1>5, ResolverLater DEF ResolverInv
<1> QED
  BY <1>3, <1>4, <1>7, <1>8 DEF ResolverInv

LEMMA ResolverTicks == ASSUME ResolverInv, Resolver!Tick PROVE ResolverInv'
<1>1. mem' = [now |-> mem.now + 1, cache |-> mem.cache] /\ UNCHANGED <<db, proc, hist>>
  BY DEF Resolver!Tick, ResolverInv, ResolverTyped
<1>2. ResolverTyped'
  BY <1>1 DEF ResolverInv, ResolverTyped
<1>3. \A f \in Resolver!Facts : ResolverUp'[f] = IF db.up[f] THEN mem.now + 1 ELSE hist.wasUp[f]
  BY <1>1 DEF ResolverUp, Resolver!LastUp
<1>4. \A f \in Resolver!Facts : ResolverUp[f] <= ResolverUp'[f]
  <2>1. mem.now \in Nat /\ \A f \in Resolver!Facts : hist.wasUp[f] \in Int
    BY DEF ResolverInv, ResolverTyped
  <2> QED
    BY <2>1, <1>3, ResolverUpIs DEF ResolverInv
<1>5. mem.now <= mem'.now /\ mem'.cache = mem.cache /\ db'.scans = db.scans
  BY <1>1 DEF ResolverInv, ResolverTyped
<1> QED
  BY <1>1, <1>2, <1>4, <1>5, ResolverWorld

LEMMA ResolverFlips == ASSUME ResolverInv, NEW f \in Resolver!Facts, Resolver!Flip(f) PROVE ResolverInv'
<1>1. PICK v : v = ~db.up[f]
  OBVIOUS
<1>2. PICK w : w = IF db.up[f] THEN mem.now ELSE hist.wasUp[f]
  OBVIOUS
<1>3. db.up \in [Resolver!Facts -> BOOLEAN] /\ mem.now \in Nat /\ hist.wasUp \in [Resolver!Facts -> Int]
      /\ \A g \in Resolver!Facts : hist.wasUp[g] <= mem.now
  BY DEF ResolverInv, ResolverTyped
<1>4. PICK us : us = [db.up EXCEPT ![f] = v]
  OBVIOUS
<1>5. PICK ws : ws = [hist.wasUp EXCEPT ![f] = w]
  OBVIOUS
<1>6. v \in BOOLEAN /\ w \in Int /\ w <= mem.now
  BY <1>1, <1>2, <1>3
<1>7. us \in [Resolver!Facts -> BOOLEAN] /\ ws \in [Resolver!Facts -> Int] /\ \A g \in Resolver!Facts : ws[g] <= mem.now
  BY <1>3, <1>4, <1>5, <1>6
<1>8. db' = [up |-> us, key |-> db.key, scans |-> db.scans]
  BY <1>1, <1>4 DEF Resolver!Flip, ResolverInv, ResolverTyped
<1>9. hist' = [wasUp |-> ws, flips |-> hist.flips + 1]
  BY <1>2, <1>5 DEF Resolver!Flip, ResolverInv, ResolverTyped
<1>10. UNCHANGED <<mem, proc>>
  BY DEF Resolver!Flip
<1>11. ResolverTyped'
  BY <1>7, <1>8, <1>9, <1>10 DEF ResolverInv, ResolverTyped
<1>12. \A g \in Resolver!Facts : ResolverUp'[g] = IF us[g] THEN mem.now ELSE ws[g]
  BY <1>8, <1>9, <1>10 DEF ResolverUp, Resolver!LastUp
<1>13. ASSUME NEW g \in Resolver!Facts PROVE ResolverUp[g] <= ResolverUp'[g]
  <2>1. ResolverUp[g] = IF db.up[g] THEN mem.now ELSE hist.wasUp[g]
    BY DEF ResolverUp, Resolver!LastUp
  <2>2. CASE g = f
    BY <2>1, <2>2, <1>1, <1>2, <1>3, <1>4, <1>5, <1>12
  <2>3. CASE g # f
    <3>1. us[g] = db.up[g] /\ ws[g] = hist.wasUp[g]
      BY <2>3, <1>3, <1>4, <1>5
    <3>2. ResolverUp'[g] = ResolverUp[g] /\ ResolverUp[g] \in Int
      BY <3>1, <2>1, <1>3, <1>12
    <3> QED
      BY <3>2
  <2> QED
    BY <2>2, <2>3
<1>14. mem.now <= mem'.now /\ mem'.cache = mem.cache /\ db'.scans = db.scans
  BY <1>3, <1>8, <1>10
<1> QED
  BY <1>10, <1>11, <1>13, <1>14, ResolverWorld

LEMMA ResolverSaves == ASSUME ResolverInv, Resolver!SaveKey PROVE ResolverInv'
<1>1. PICK k : k = [db.key EXCEPT !.settings = TRUE]
  OBVIOUS
<1>2. db' = [up |-> db.up, key |-> k, scans |-> db.scans] /\ UNCHANGED <<mem, proc, hist>>
  BY <1>1 DEF Resolver!SaveKey, ResolverInv, ResolverTyped
<1>3. ResolverTyped'
  BY <1>2 DEF ResolverInv, ResolverTyped
<1>4. \A f \in Resolver!Facts : ResolverUp'[f] = ResolverUp[f]
  BY <1>2 DEF ResolverUp, Resolver!LastUp
<1>5. \A f \in Resolver!Facts : ResolverUp[f] \in Int
  BY ResolverUpIs DEF ResolverInv
<1>6. mem.now <= mem'.now /\ mem'.cache = mem.cache /\ db'.scans = db.scans
  BY <1>2 DEF ResolverInv, ResolverTyped
<1> QED
  BY <1>2, <1>3, <1>4, <1>5, <1>6, ResolverWorld

\* A request goes on; what it wrote keeps the cache and the plans true.
LEMMA ResolverMoves ==
  ASSUME ResolverInv, NEW r \in Askers, NEW q, proc' = [proc EXCEPT ![r] = q],
         ResolverWalk(ResolverUp, mem.now, q), UNCHANGED hist,
         NEW c \in [Resolver!Cached -> ResolverAnswers], mem' = [now |-> mem.now, cache |-> c], ResolverKept(ResolverUp, c),
         NEW s, db' = [up |-> db.up, key |-> db.key, scans |-> s], ResolverPlans(ResolverUp, s)
  PROVE  ResolverInv'
<1>1. ResolverTyped'
  BY DEF ResolverInv, ResolverTyped
<1>2. ResolverUp' = ResolverUp
  BY DEF ResolverUp, Resolver!LastUp
<1>3. \A u \in Askers : ResolverWalk(ResolverUp, mem.now, proc'[u])
  BY DEF ResolverInv, ResolverTyped
<1>4. mem'.now = mem.now /\ mem'.cache = c /\ db'.scans = s
  OBVIOUS
<1> QED
  BY <1>1, <1>2, <1>3, <1>4 DEF ResolverInv

LEMMA ResolverSteps ==
  ASSUME ResolverInv, NEW r \in Askers, NEW q, proc' = [proc EXCEPT ![r] = q],
         ResolverWalk(ResolverUp, mem.now, q), UNCHANGED <<db, mem, hist>>
  PROVE  ResolverInv'
<1>1. /\ mem.cache \in [Resolver!Cached -> ResolverAnswers] /\ mem = [now |-> mem.now, cache |-> mem.cache]
      /\ db = [up |-> db.up, key |-> db.key, scans |-> db.scans]
      /\ ResolverKept(ResolverUp, mem.cache) /\ ResolverPlans(ResolverUp, db.scans)
  BY DEF ResolverInv, ResolverTyped
<1>2. mem' = [now |-> mem.now, cache |-> mem.cache] /\ db' = [up |-> db.up, key |-> db.key, scans |-> db.scans]
  BY <1>1
<1> QED
  BY <1>1, <1>2, ResolverMoves

\* What Answered makes of a walk.
ResolverAnswer(p, now, ok) ==
  LET done == ~ok \/ Len(p.facts) = 1
      rest == Tail(p.chain) IN
  [at |-> p.at, todo |-> p.todo, chosen |-> p.chosen, tool |-> p.tool,
   chain |-> IF done THEN rest ELSE p.chain,
   facts |-> IF ~done THEN Tail(p.facts) ELSE IF rest = <<>> THEN <<>> ELSE Resolver!FactsOf(Head(rest)),
   since |-> IF done THEN now ELSE p.since, stamp |-> Resolver!Never,
   found |-> IF done /\ ok /\ p.found = {} THEN {[tool |-> p.tool, backend |-> Head(p.chain), since |-> p.since]}
             ELSE p.found,
   selected |-> p.selected, skipped |-> p.skipped]

LEMMA ResolverAnswers5 ==
  ASSUME ResolverInv, NEW r \in Askers, NEW ok, Resolver!Answered(r, ok)
  PROVE  proc' = [proc EXCEPT ![r] = ResolverAnswer(proc[r], mem.now, ok)]
<1>1. PICK p : p = proc[r]
  OBVIOUS
<1>2. p = [at |-> p.at, todo |-> p.todo, chosen |-> p.chosen, tool |-> p.tool, chain |-> p.chain, facts |-> p.facts,
           since |-> p.since, stamp |-> p.stamp, found |-> p.found, selected |-> p.selected, skipped |-> p.skipped]
  BY <1>1 DEF ResolverInv, ResolverWalk, ResolverShape
<1>3. PICK rest : rest = Tail(p.chain)
  OBVIOUS
<1>4. PICK a : a = IF ~(~ok \/ Len(p.facts) = 1) THEN Tail(p.facts) ELSE IF rest = <<>> THEN <<>> ELSE Resolver!FactsOf(Head(rest))
  OBVIOUS
<1>5. PICK b : b = IF ~ok \/ Len(p.facts) = 1 THEN rest ELSE p.chain
  OBVIOUS
<1>6. PICK c : c = IF ~ok \/ Len(p.facts) = 1 THEN mem.now ELSE p.since
  OBVIOUS
<1>7. PICK e : e = IF (~ok \/ Len(p.facts) = 1) /\ ok /\ p.found = {}
                   THEN {[tool |-> p.tool, backend |-> Head(p.chain), since |-> p.since]} ELSE p.found
  OBVIOUS
<1>8. PICK q1 : q1 = [p EXCEPT !.facts = a]
  OBVIOUS
<1>9. q1 = [at |-> p.at, todo |-> p.todo, chosen |-> p.chosen, tool |-> p.tool, chain |-> p.chain, facts |-> a,
            since |-> p.since, stamp |-> p.stamp, found |-> p.found, selected |-> p.selected, skipped |-> p.skipped]
  BY <1>2, <1>8
<1>10. PICK q2 : q2 = [q1 EXCEPT !.chain = b]
  OBVIOUS
<1>11. q2 = [at |-> p.at, todo |-> p.todo, chosen |-> p.chosen, tool |-> p.tool, chain |-> b, facts |-> a,
             since |-> p.since, stamp |-> p.stamp, found |-> p.found, selected |-> p.selected, skipped |-> p.skipped]
  BY <1>9, <1>10
<1>12. PICK q3 : q3 = [q2 EXCEPT !.since = c]
  OBVIOUS
<1>13. q3 = [at |-> p.at, todo |-> p.todo, chosen |-> p.chosen, tool |-> p.tool, chain |-> b, facts |-> a,
             since |-> c, stamp |-> p.stamp, found |-> p.found, selected |-> p.selected, skipped |-> p.skipped]
  BY <1>11, <1>12
<1>14. PICK q4 : q4 = [q3 EXCEPT !.stamp = Resolver!Never]
  OBVIOUS
<1>15. q4 = [at |-> p.at, todo |-> p.todo, chosen |-> p.chosen, tool |-> p.tool, chain |-> b, facts |-> a,
             since |-> c, stamp |-> Resolver!Never, found |-> p.found, selected |-> p.selected, skipped |-> p.skipped]
  BY <1>13, <1>14
<1>16. PICK q : q = [q4 EXCEPT !.found = e]
  OBVIOUS
<1>17. q = [at |-> p.at, todo |-> p.todo, chosen |-> p.chosen, tool |-> p.tool, chain |-> b, facts |-> a,
            since |-> c, stamp |-> Resolver!Never, found |-> e, selected |-> p.selected, skipped |-> p.skipped]
  BY <1>15, <1>16
<1>18. q = ResolverAnswer(p, mem.now, ok)
  BY <1>3, <1>4, <1>5, <1>6, <1>7, <1>17 DEF ResolverAnswer
<1>19. q = [p EXCEPT !.facts = a, !.chain = b, !.since = c, !.stamp = Resolver!Never, !.found = e]
  BY <1>8, <1>10, <1>12, <1>14, <1>16
<1>20. proc' = [proc EXCEPT ![r] = [p EXCEPT !.facts = a, !.chain = b, !.since = c, !.stamp = Resolver!Never, !.found = e]]
  BY <1>1, <1>3, <1>4, <1>5, <1>6, <1>7 DEF Resolver!Answered
<1> QED
  BY <1>1, <1>18, <1>19, <1>20

\* A fact that is asked for is one of a backend.
LEMMA ResolverAsked ==
  ASSUME NEW up, NEW chain, NEW facts, NEW since, ResolverAsks(up, chain, facts, since), facts # <<>>
  PROVE  /\ Head(facts) \in Resolver!Facts /\ Head(chain) \in ResolverBackends
         /\ \/ Len(facts) = 1 /\ Head(chain) # "container" /\ Head(facts) = Head(chain)
            \/ Len(facts) = 1 /\ Head(chain) = "container" /\ Head(facts) = "image" /\ up["daemon"] > since - TTL
            \/ Len(facts) = 2 /\ Head(chain) = "container" /\ Head(facts) = "daemon" /\ Tail(facts) = <<"image">>
<1>1. Head(chain) \in ResolverBackends
  BY DEF ResolverAsks
<1>2. PICK b : b = Head(chain)
  OBVIOUS
<1>3. CASE facts = Resolver!FactsOf(b) /\ b # "container"
  <2>1. facts = <<b>> /\ b \in Resolver!Facts
    BY <1>1, <1>2, <1>3, ResolverFacts
  <2> QED
    BY <1>1, <1>2, <1>3, <2>1
<1>4. CASE facts = Resolver!FactsOf(b) /\ b = "container"
  <2>1. facts = <<"daemon", "image">> /\ "daemon" \in Resolver!Facts
    BY <1>4, ResolverFacts
  <2>2. Len(facts) = 2 /\ Head(facts) = "daemon" /\ Tail(facts) = <<"image">>
    BY <2>1
  <2> QED
    BY <1>1, <1>2, <1>4, <2>1, <2>2
<1>5. CASE b = "container" /\ facts = <<"image">> /\ up["daemon"] > since - TTL
  <2>1. Len(facts) = 1 /\ Head(facts) = "image" /\ "image" \in Resolver!Facts
    BY <1>5, ResolverFacts
  <2> QED
    BY <1>1, <1>2, <1>5, <2>1
<1> QED
  BY <1>2, <1>3, <1>4, <1>5 DEF ResolverAsks

\* An answer that says yes for a fact seen up lately leaves a walk that is right.
LEMMA ResolverAnswerWalks ==
  ASSUME NEW up \in [Resolver!Facts -> Int], NEW now \in Nat, NEW ok \in BOOLEAN,
         NEW p, ResolverWalk(up, now, p), p.at \in {"gate", "plan"}, p.tool # "none", p.facts # <<>>,
         ok => up[Head(p.facts)] > p.since - TTL
  PROVE  ResolverWalk(up, now, ResolverAnswer(p, now, ok))
<1>1. PICK q : q = ResolverAnswer(p, now, ok)
  OBVIOUS
<1>2. PICK b : b = Head(p.chain)
  OBVIOUS
<1>3. PICK rest : rest = Tail(p.chain)
  OBVIOUS
<1>4. PICK done \in BOOLEAN : done = (~ok \/ Len(p.facts) = 1)
  BY Zenon
<1>5. ResolverAsks(up, p.chain, p.facts, p.since) /\ p.since \in Int /\ p.since <= now
  BY DEF ResolverWalk
<1>6. b \in ResolverBackends /\ p.chain \in Seq(ResolverBackends) /\ p.chain # <<>>
  BY <1>2, <1>5, ResolverAsked DEF ResolverAsks
<1>7. rest \in Seq(ResolverBackends)
  BY <1>3, <1>6
<1>8. PICK e : e = [tool |-> p.tool, backend |-> b, since |-> p.since]
  OBVIOUS
<1>9. Resolver!Never \in Int /\ Resolver!Never <= now
  BY AnswersAreKept DEF Resolver!Never
<1>10. /\ q.at = p.at /\ q.tool = p.tool /\ q.chain = (IF done THEN rest ELSE p.chain)
       /\ q.facts = (IF ~done THEN Tail(p.facts) ELSE IF rest = <<>> THEN <<>> ELSE Resolver!FactsOf(Head(rest)))
       /\ q.since = (IF done THEN now ELSE p.since) /\ q.stamp = Resolver!Never
       /\ q.found = (IF done /\ ok /\ p.found = {} THEN {e} ELSE p.found)
       /\ q.selected = p.selected
  BY <1>1, <1>2, <1>3, <1>4, <1>8 DEF ResolverAnswer
<1>11. ResolverShape(q)
  BY <1>1 DEF ResolverAnswer, ResolverShape
<1>12. ASSUME done, ok PROVE ResolverGood(up, e)
  <2>1. Len(p.facts) = 1
    BY <1>4, <1>12
  <2>2. PICK f : f = Head(p.facts)
    OBVIOUS
  <2>3. up[f] > p.since - TTL
    BY <1>12, <2>2
  <2>4. e.backend = b /\ e.since = p.since
    BY <1>8
  <2>5. CASE b # "container" /\ f = b
    <3>1. Resolver!FactsOf(b)[1] = b /\ DOMAIN Resolver!FactsOf(b) = {1}
      BY <2>5, ResolverFacts
    <3>2. \A i \in DOMAIN Resolver!FactsOf(b) : up[Resolver!FactsOf(b)[i]] > p.since - TTL
      BY <2>3, <2>5, <3>1
    <3> QED
      BY <1>5, <1>6, <2>4, <3>2 DEF ResolverGood
  <2>6. CASE b = "container" /\ f = "image" /\ up["daemon"] > p.since - TTL
    <3>1. Resolver!FactsOf(b)[1] = "daemon" /\ Resolver!FactsOf(b)[2] = "image" /\ DOMAIN Resolver!FactsOf(b) = {1, 2}
      BY <2>6, ResolverFacts
    <3>2. \A i \in DOMAIN Resolver!FactsOf(b) : up[Resolver!FactsOf(b)[i]] > p.since - TTL
      BY <2>3, <2>6, <3>1
    <3> QED
      BY <1>5, <1>6, <2>4, <3>2 DEF ResolverGood
  <2>7. \/ b # "container" /\ f = b
        \/ b = "container" /\ f = "image" /\ ResolverLate(up, p.since)
    <3>1. \/ Len(p.facts) = 1 /\ Head(p.chain) # "container" /\ Head(p.facts) = Head(p.chain)
          \/ Len(p.facts) = 1 /\ Head(p.chain) = "container" /\ Head(p.facts) = "image" /\ ResolverLate(up, p.since)
          \/ Len(p.facts) = 2 /\ Head(p.chain) = "container" /\ Head(p.facts) = "daemon" /\ Tail(p.facts) = <<"image">>
      BY <1>5, ResolverAsked, Zenon DEF ResolverLate
    <3> QED
      BY <1>2, <2>1, <2>2, <3>1
  <2> QED
    BY <2>5, <2>6, <2>7 DEF ResolverLate
<1>13. \A x \in q.found \cup q.selected : ResolverGood(up, x)
  <2>1. \A x \in p.found \cup p.selected : ResolverGood(up, x)
    BY DEF ResolverWalk
  <2> QED
    BY <1>10, <1>12, <2>1
<1>14. ResolverAsks(up, q.chain, q.facts, q.since)
  <2>1. CASE done
    <3>1. q.chain = rest /\ q.facts = (IF rest = <<>> THEN <<>> ELSE Resolver!FactsOf(Head(rest)))
      BY <1>10, <2>1
    <3> QED
      BY <1>7, <3>1 DEF ResolverAsks
  <2>2. CASE ~done
    <3>1. ok /\ Len(p.facts) # 1
      BY <1>4, <2>2
    <3>2. b = "container" /\ Head(p.facts) = "daemon" /\ Tail(p.facts) = <<"image">>
      BY <1>2, <1>5, <3>1, ResolverAsked
    <3>3. q.chain = p.chain /\ q.facts = <<"image">> /\ q.since = p.since
      BY <1>10, <2>2, <3>2
    <3>4. up["daemon"] > p.since - TTL
      BY <3>1, <3>2
    <3> QED
      BY <1>2, <1>6, <3>2, <3>3, <3>4 DEF ResolverAsks
  <2> QED
    BY <2>1, <2>2
<1>15. q.since \in Int /\ q.since <= now
  BY <1>5, <1>10
<1> QED
  BY <1>1, <1>9, <1>10, <1>11, <1>13, <1>14, <1>15 DEF ResolverWalk

\* What a request that walks knows.
LEMMA ResolverWalks ==
  ASSUME ResolverInv, NEW r \in Askers
  PROVE  /\ ResolverUp \in [Resolver!Facts -> Int] /\ mem.now \in Nat /\ ResolverWalk(ResolverUp, mem.now, proc[r])
         /\ proc[r].since \in Int /\ proc[r].since <= mem.now /\ proc[r].stamp \in Int /\ proc[r].stamp <= mem.now
         /\ Resolver!Never \in Int /\ Resolver!Never <= mem.now /\ TTL \in Nat \ {0}
  BY ResolverUpIs, AnswersAreKept DEF ResolverInv, ResolverTyped, ResolverWalk, Resolver!Never

LEMMA ResolverHead ==
  ASSUME ResolverInv, NEW r \in Askers, Resolver!Walking(r), proc[r].facts # <<>>
  PROVE  Head(proc[r].facts) \in Resolver!Facts /\ db.up[Head(proc[r].facts)] \in BOOLEAN
<1>1. ResolverAsks(ResolverUp, proc[r].chain, proc[r].facts, proc[r].since)
  BY ResolverWalks DEF ResolverWalk, Resolver!Walking, Resolver!Stage
<1>2. db.up \in [Resolver!Facts -> BOOLEAN]
  BY DEF ResolverInv, ResolverTyped
<1> QED
  BY <1>1, <1>2, ResolverAsked

LEMMA ResolverProbes == ASSUME ResolverInv, NEW r \in Askers, Resolver!ProbeLive(r) PROVE ResolverInv'
<1>1. PICK p : p = proc[r]
  OBVIOUS
<1>2. PICK f : f = Head(p.facts)
  OBVIOUS
<1>3. PICK ok : ok = db.up[f]
  OBVIOUS
<1>4. Resolver!Walking(r) /\ p.facts # <<>> /\ Resolver!Answered(r, ok) /\ UNCHANGED <<db, mem, hist>>
  BY <1>1, <1>2, <1>3 DEF Resolver!ProbeLive
<1>5. f \in Resolver!Facts /\ ok \in BOOLEAN
  BY <1>1, <1>2, <1>3, <1>4, ResolverHead
<1>6. ok => ResolverUp[f] > p.since - TTL
  <2>1. ok => ResolverUp[f] = mem.now
    BY <1>3, <1>5, ResolverUpIs DEF ResolverInv
  <2> QED
    BY <1>1, <2>1, ResolverWalks
<1>7. ResolverWalk(ResolverUp, mem.now, ResolverAnswer(p, mem.now, ok))
  BY <1>1, <1>2, <1>4, <1>5, <1>6, ResolverWalks, ResolverAnswerWalks DEF Resolver!Walking, Resolver!Stage
<1> QED
  BY <1>1, <1>4, <1>7, ResolverAnswers5, ResolverSteps

LEMMA ResolverUses == ASSUME ResolverInv, NEW r \in Askers, Resolver!UseCache(r) PROVE ResolverInv'
<1>1. PICK p : p = proc[r]
  OBVIOUS
<1>2. PICK f : f = Head(p.facts)
  OBVIOUS
<1>3. PICK ok : ok = mem.cache[f].ok
  OBVIOUS
<1>4. Resolver!Walking(r) /\ p.facts # <<>> /\ f \in Resolver!Cached /\ Resolver!Fresh(f) /\ Resolver!Answered(r, ok) /\ UNCHANGED <<db, mem, hist>>
  BY <1>1, <1>2, <1>3 DEF Resolver!UseCache
<1>5. mem.cache[f].at \in Int /\ ok \in BOOLEAN
  BY <1>3, <1>4 DEF ResolverInv, ResolverTyped, ResolverAnswers
<1>6. ok => ResolverUp[f] > p.since - TTL
  <2>1. ok => ResolverUp[f] >= mem.cache[f].at
    BY <1>3, <1>4 DEF ResolverInv, ResolverKept
  <2>2. mem.now - mem.cache[f].at < TTL /\ f \in Resolver!Facts
    BY <1>4, ResolverFacts DEF Resolver!Fresh
  <2>3. PICK v \in Int : v = ResolverUp[f]
    BY <2>2, ResolverWalks
  <2> QED
    BY <1>1, <1>5, <2>1, <2>2, <2>3, ResolverWalks
<1>7. ResolverWalk(ResolverUp, mem.now, ResolverAnswer(p, mem.now, ok))
  BY <1>1, <1>2, <1>4, <1>5, <1>6, ResolverWalks, ResolverAnswerWalks DEF Resolver!Walking, Resolver!Stage
<1> QED
  BY <1>1, <1>4, <1>7, ResolverAnswers5, ResolverSteps

LEMMA ResolverProgram == ASSUME ResolverInv, NEW r \in Askers, Resolver!ProgramAnswers(r) PROVE ResolverInv'
<1>1. PICK p : p = proc[r]
  OBVIOUS
<1>2. PICK f : f = Head(p.facts)
  OBVIOUS
<1>3. PICK ok : ok = db.up[f]
  OBVIOUS
<1>4. PICK a : a = [at |-> p.stamp, ok |-> ok]
  OBVIOUS
<1>5. PICK c : c = [mem.cache EXCEPT ![f] = a]
  OBVIOUS
<1>6. Resolver!Walking(r) /\ p.stamp # Resolver!Never /\ Resolver!Answered(r, ok) /\ UNCHANGED <<db, hist>>
  BY <1>1, <1>2, <1>3 DEF Resolver!ProgramAnswers
<1>7. mem' = [now |-> mem.now, cache |-> c]
  BY <1>1, <1>2, <1>3, <1>4, <1>5 DEF Resolver!ProgramAnswers, ResolverInv, ResolverTyped
<1>8. p.facts # <<>>
  BY <1>1, <1>6, ResolverWalks DEF ResolverWalk, Resolver!Walking, Resolver!Stage
<1>9. f \in Resolver!Facts /\ ok \in BOOLEAN
  BY <1>1, <1>2, <1>3, <1>8, <1>6, ResolverHead
<1>10. ok => ResolverUp[f] = mem.now
  BY <1>3, <1>9, ResolverUpIs DEF ResolverInv
<1>11. ok => ResolverUp[f] > p.since - TTL
  BY <1>1, <1>10, ResolverWalks
<1>12. ResolverWalk(ResolverUp, mem.now, ResolverAnswer(p, mem.now, ok))
  BY <1>1, <1>2, <1>6, <1>8, <1>9, <1>11, ResolverWalks, ResolverAnswerWalks DEF Resolver!Walking, Resolver!Stage
<1>13. a \in ResolverAnswers /\ a.at = p.stamp /\ a.ok = ok
  BY <1>1, <1>4, <1>9, ResolverWalks DEF ResolverAnswers
<1>14. mem.cache \in [Resolver!Cached -> ResolverAnswers]
  BY DEF ResolverInv, ResolverTyped
<1>15. c \in [Resolver!Cached -> ResolverAnswers]
  BY <1>5, <1>13, <1>14
<1>16. ResolverKept(ResolverUp, c)
  <2>1. ASSUME NEW g \in Resolver!Cached, c[g].ok PROVE ResolverUp[g] >= c[g].at
    <3>1. CASE g = f
      <4>1. c[g] = a /\ ok
        BY <2>1, <3>1, <1>5, <1>13, <1>14
      <4> QED
        BY <3>1, <4>1, <1>1, <1>10, <1>13, ResolverWalks
    <3>2. CASE g # f
      <4>1. c[g] = mem.cache[g]
        BY <3>2, <1>5, <1>14
      <4> QED
        BY <2>1, <4>1 DEF ResolverInv, ResolverKept
    <3> QED
      BY <3>1, <3>2
  <2> QED
    BY <2>1 DEF ResolverKept
<1>17. db' = [up |-> db.up, key |-> db.key, scans |-> db.scans] /\ ResolverPlans(ResolverUp, db.scans)
  BY <1>6 DEF ResolverInv, ResolverTyped
<1>18. proc' = [proc EXCEPT ![r] = ResolverAnswer(p, mem.now, ok)]
  BY <1>1, <1>6, ResolverAnswers5
<1> QED
  BY <1>6, <1>7, <1>12, <1>15, <1>16, <1>17, <1>18, ResolverMoves

LEMMA ResolverQuestion == ASSUME ResolverInv, NEW r \in Askers, Resolver!AskProgram(r) PROVE ResolverInv'
<1>1. PICK p : p = proc[r]
  OBVIOUS
<1>2. PICK q : q = [at |-> p.at, todo |-> p.todo, chosen |-> p.chosen, tool |-> p.tool, chain |-> p.chain, facts |-> p.facts,
                    since |-> p.since, stamp |-> mem.now, found |-> p.found, selected |-> p.selected, skipped |-> p.skipped]
  OBVIOUS
<1>3. ResolverWalk(ResolverUp, mem.now, p)
  BY <1>1, ResolverWalks
<1>4. [p EXCEPT !.stamp = mem.now] = q
  BY <1>2, <1>3 DEF ResolverWalk, ResolverShape
<1>5. /\ Resolver!Walking(r) /\ p.facts # <<>> /\ UNCHANGED <<db, mem, hist>>
      /\ proc' = [proc EXCEPT ![r].stamp = mem.now]
  BY <1>1 DEF Resolver!AskProgram
<1>6. proc' = [proc EXCEPT ![r] = q]
  BY <1>1, <1>4, <1>5
<1>7. /\ q.at = p.at /\ q.tool = p.tool /\ q.chain = p.chain /\ q.facts = p.facts /\ q.since = p.since
      /\ q.stamp = mem.now /\ q.found = p.found /\ q.selected = p.selected /\ ResolverShape(q)
  BY <1>2 DEF ResolverShape
<1>8. p.tool # "none"
  BY <1>1, <1>5 DEF Resolver!Walking
<1>9. mem.now \in Int /\ mem.now <= mem.now
  BY ResolverWalks
<1>10. ResolverWalk(ResolverUp, mem.now, q)
  BY <1>3, <1>5, <1>7, <1>8, <1>9 DEF ResolverWalk
<1> QED
  BY <1>5, <1>6, <1>10, ResolverSteps

\* A request that is not on a tool: it has asked nobody.
LEMMA ResolverBegins ==
  ASSUME ResolverInv, NEW q, ResolverShape(q), q.stamp = Resolver!Never, q.since \in Int, q.since <= mem.now,
         \A e \in q.found \cup q.selected : ResolverGood(ResolverUp, e),
         q.tool # "none" => ResolverAsks(ResolverUp, q.chain, q.facts, q.since), NEW r \in Askers
  PROVE  ResolverWalk(ResolverUp, mem.now, q)
  BY ResolverWalks DEF ResolverWalk

LEMMA ResolverStamped ==
  ASSUME NEW p, ResolverShape(p), NEW v
  PROVE  [p EXCEPT !.stamp = v] =
           [at |-> p.at, todo |-> p.todo, chosen |-> p.chosen, tool |-> p.tool, chain |-> p.chain, facts |-> p.facts,
            since |-> p.since, stamp |-> v, found |-> p.found, selected |-> p.selected, skipped |-> p.skipped]
  BY DEF ResolverShape

LEMMA ResolverAsking ==
  ASSUME ResolverInv, NEW r \in Askers, NEW mode, NEW tools, Resolver!Ask(r, mode, tools)
  PROVE  ResolverInv'
<1>1. PICK at : at = IF mode = "selected" THEN "gate" ELSE "plan"
  OBVIOUS
<1>2. PICK q : q = [at |-> at, todo |-> tools, chosen |-> tools, tool |-> "none", chain |-> <<>>, facts |-> <<>>,
                    since |-> 0, stamp |-> Resolver!Never, found |-> {}, selected |-> {}, skipped |-> {}]
  OBVIOUS
<1>3. [Resolver!Idle EXCEPT !.todo = tools, !.chosen = tools, !.at = at, !.stamp = Resolver!Never] = q
  <2>1. PICK q1 : q1 = [Resolver!Idle EXCEPT !.todo = tools, !.chosen = tools]
    OBVIOUS
  <2>2. q1 = [at |-> "idle", todo |-> tools, chosen |-> tools, tool |-> "none", chain |-> <<>>, facts |-> <<>>,
              since |-> 0, stamp |-> 0, found |-> {}, selected |-> {}, skipped |-> {}]
    BY <2>1 DEF Resolver!Idle
  <2>3. PICK q2 : q2 = [q1 EXCEPT !.at = at]
    OBVIOUS
  <2>4. q2 = [at |-> at, todo |-> tools, chosen |-> tools, tool |-> "none", chain |-> <<>>, facts |-> <<>>,
              since |-> 0, stamp |-> 0, found |-> {}, selected |-> {}, skipped |-> {}]
    BY <2>2, <2>3
  <2>5. ResolverShape(q2) /\ [q2 EXCEPT !.stamp = Resolver!Never] =
          [at |-> q2.at, todo |-> q2.todo, chosen |-> q2.chosen, tool |-> q2.tool, chain |-> q2.chain, facts |-> q2.facts,
           since |-> q2.since, stamp |-> Resolver!Never, found |-> q2.found, selected |-> q2.selected, skipped |-> q2.skipped]
    BY <2>4, ResolverStamped DEF ResolverShape
  <2>6. [q2 EXCEPT !.stamp = Resolver!Never] = q
    BY <2>4, <2>5, <1>2
  <2> QED
    BY <2>1, <2>3, <2>6
<1>4. proc' = [proc EXCEPT ![r] = q] /\ UNCHANGED <<db, mem, hist>>
  BY <1>1, <1>3 DEF Resolver!Ask
<1>5. /\ ResolverShape(q) /\ q.stamp = Resolver!Never /\ q.since = 0 /\ q.found \cup q.selected = {} /\ q.tool = "none"
  BY <1>2 DEF ResolverShape
<1>6. 0 <= mem.now
  BY ResolverWalks
<1>7. ResolverWalk(ResolverUp, mem.now, q)
  BY <1>5, <1>6, ResolverBegins
<1> QED
  BY <1>4, <1>7, ResolverSteps

LEMMA ResolverTakes ==
  ASSUME ResolverInv, NEW r \in Askers, NEW t \in Catalog, Resolver!Take(r, t)
  PROVE  ResolverInv'
<1>1. PICK p : p = proc[r]
  OBVIOUS
<1>2. /\ Resolver!Stage(r) \in {"gate", "plan"} /\ p.tool = "none" /\ UNCHANGED <<db, mem, hist>>
      /\ \/ proc' = [proc EXCEPT ![r] = [p EXCEPT !.todo = p.todo \ {t}, !.tool = t, !.chain = Chain(t), !.since = mem.now,
                                                  !.facts = Resolver!FactsOf(Head(Chain(t))), !.found = {}]]
         \/ proc' = [proc EXCEPT ![r] = [p EXCEPT !.todo = p.todo \ {t}, !.skipped = p.skipped \cup {t}]]
  <2>1. CASE Resolver!Configured(r, t)
    BY <1>1, <2>1 DEF Resolver!Take
  <2>2. CASE ~Resolver!Configured(r, t)
    BY <1>1, <2>2 DEF Resolver!Take
  <2> QED
    BY <2>1, <2>2
<1>3. ResolverWalk(ResolverUp, mem.now, p)
  BY <1>1, ResolverWalks
<1>4. p.stamp = Resolver!Never
  BY <1>1, <1>2, <1>3 DEF ResolverWalk, Resolver!Stage
<1>5. p = [at |-> p.at, todo |-> p.todo, chosen |-> p.chosen, tool |-> p.tool, chain |-> p.chain, facts |-> p.facts,
           since |-> p.since, stamp |-> p.stamp, found |-> p.found, selected |-> p.selected, skipped |-> p.skipped]
  BY <1>3 DEF ResolverWalk, ResolverShape
<1>6. \A e \in p.found \cup p.selected : ResolverGood(ResolverUp, e)
  BY <1>3 DEF ResolverWalk
<1>7. CASE proc' = [proc EXCEPT ![r] = [p EXCEPT !.todo = p.todo \ {t}, !.tool = t, !.chain = Chain(t), !.since = mem.now,
                                                 !.facts = Resolver!FactsOf(Head(Chain(t))), !.found = {}]]
  <2>1. PICK d, k, fs : d = p.todo \ {t} /\ k = Chain(t) /\ fs = Resolver!FactsOf(Head(Chain(t)))
    OBVIOUS
  <2>2. PICK q1 : q1 = [p EXCEPT !.todo = d, !.tool = t, !.chain = k]
    OBVIOUS
  <2>3. q1 = [at |-> p.at, todo |-> d, chosen |-> p.chosen, tool |-> t, chain |-> k, facts |-> p.facts,
              since |-> p.since, stamp |-> p.stamp, found |-> p.found, selected |-> p.selected, skipped |-> p.skipped]
    BY <1>5, <2>2
  <2>4. PICK q : q = [q1 EXCEPT !.since = mem.now, !.facts = fs, !.found = {}]
    OBVIOUS
  <2>5. q = [at |-> p.at, todo |-> d, chosen |-> p.chosen, tool |-> t, chain |-> k, facts |-> fs,
             since |-> mem.now, stamp |-> p.stamp, found |-> {}, selected |-> p.selected, skipped |-> p.skipped]
    BY <2>3, <2>4
  <2>6. [p EXCEPT !.todo = p.todo \ {t}, !.tool = t, !.chain = Chain(t), !.since = mem.now,
                  !.facts = Resolver!FactsOf(Head(Chain(t))), !.found = {}] = q
    BY <2>1, <2>2, <2>4
  <2>7. ResolverShape(q) /\ q.stamp = Resolver!Never /\ q.since = mem.now /\ q.found = {} /\ q.selected = p.selected
        /\ q.chain = k /\ q.facts = fs
    BY <2>5, <1>4 DEF ResolverShape
  <2>8. k \in Seq(ResolverBackends) /\ k # <<>>
    <3>1. k \in Seq(Resolver!BackendsOf(t)) /\ k # <<>>
      BY <2>1, ChainsAreTried
    <3>2. Resolver!BackendsOf(t) \subseteq ResolverBackends
      BY DEF ResolverBackends
    <3> QED
      BY <3>1, <3>2
  <2>9. ResolverAsks(ResolverUp, q.chain, q.facts, q.since)
    BY <2>1, <2>7, <2>8 DEF ResolverAsks
  <2>10. q.since \in Int /\ q.since <= mem.now
    BY <2>7, ResolverWalks
  <2>11. \A e \in q.found \cup q.selected : ResolverGood(ResolverUp, e)
    BY <1>6, <2>7
  <2>12. ResolverWalk(ResolverUp, mem.now, q)
    BY <2>7, <2>9, <2>10, <2>11, ResolverBegins
  <2> QED
    BY <1>2, <1>7, <2>6, <2>12, ResolverSteps
<1>8. CASE proc' = [proc EXCEPT ![r] = [p EXCEPT !.todo = p.todo \ {t}, !.skipped = p.skipped \cup {t}]]
  <2>1. PICK d, k : d = p.todo \ {t} /\ k = p.skipped \cup {t}
    OBVIOUS
  <2>2. PICK q : q = [p EXCEPT !.todo = d, !.skipped = k]
    OBVIOUS
  <2>3. q = [at |-> p.at, todo |-> d, chosen |-> p.chosen, tool |-> p.tool, chain |-> p.chain, facts |-> p.facts,
             since |-> p.since, stamp |-> p.stamp, found |-> p.found, selected |-> p.selected, skipped |-> k]
    BY <1>5, <2>2
  <2>4. ResolverShape(q) /\ q.stamp = Resolver!Never /\ q.since = p.since /\ q.found = p.found /\ q.selected = p.selected
        /\ q.tool = "none"
    BY <2>3, <1>2, <1>4 DEF ResolverShape
  <2>5. q.since \in Int /\ q.since <= mem.now
    BY <1>3, <2>4 DEF ResolverWalk
  <2>6. ResolverWalk(ResolverUp, mem.now, q)
    BY <1>6, <2>4, <2>5, ResolverBegins
  <2> QED
    BY <1>2, <1>8, <2>1, <2>2, <2>6, ResolverSteps
<1> QED
  BY <1>2, <1>7, <1>8

LEMMA ResolverSettles == ASSUME ResolverInv, NEW r \in Askers, Resolver!Settle(r) PROVE ResolverInv'
<1>1. PICK p : p = proc[r]
  OBVIOUS
<1>2. PICK k : k = IF p.found = {} THEN p.skipped \cup {p.tool} ELSE p.skipped
  OBVIOUS
<1>3. PICK s : s = p.selected \cup p.found
  OBVIOUS
<1>4. ResolverWalk(ResolverUp, mem.now, p)
  BY <1>1, ResolverWalks
<1>5. p = [at |-> p.at, todo |-> p.todo, chosen |-> p.chosen, tool |-> p.tool, chain |-> p.chain, facts |-> p.facts,
           since |-> p.since, stamp |-> p.stamp, found |-> p.found, selected |-> p.selected, skipped |-> p.skipped]
  BY <1>4 DEF ResolverWalk, ResolverShape
<1>6. PICK q : q = [p EXCEPT !.tool = "none", !.selected = s, !.skipped = k]
  OBVIOUS
<1>7. q = [at |-> p.at, todo |-> p.todo, chosen |-> p.chosen, tool |-> "none", chain |-> p.chain, facts |-> p.facts,
           since |-> p.since, stamp |-> p.stamp, found |-> p.found, selected |-> s, skipped |-> k]
  BY <1>5, <1>6
<1>8. proc' = [proc EXCEPT ![r] = q]
  <2>1. proc' = [proc EXCEPT ![r] = [p EXCEPT !.tool = "none", !.selected = p.selected \cup p.found,
                                              !.skipped = IF p.found = {} THEN p.skipped \cup {p.tool} ELSE p.skipped]]
    BY <1>1 DEF Resolver!Settle
  <2> QED
    BY <2>1, <1>2, <1>3, <1>6
<1>9. UNCHANGED <<db, mem, hist>> /\ p.facts = <<>> /\ p.at \in {"gate", "plan"}
  BY <1>1 DEF Resolver!Settle, Resolver!Walking, Resolver!Stage
<1>10. p.stamp = Resolver!Never /\ p.since \in Int /\ p.since <= mem.now /\ \A e \in p.found \cup p.selected : ResolverGood(ResolverUp, e)
  BY <1>4, <1>9 DEF ResolverWalk
<1>11. ResolverShape(q) /\ q.stamp = p.stamp /\ q.since = p.since /\ q.found = p.found /\ q.selected = s /\ q.tool = "none"
  BY <1>7 DEF ResolverShape
<1>12. ResolverWalk(ResolverUp, mem.now, q)
  BY <1>3, <1>10, <1>11, ResolverBegins
<1> QED
  BY <1>8, <1>9, <1>12, ResolverSteps

LEMMA ResolverPasses == ASSUME ResolverInv, NEW r \in Askers, Resolver!PassGate(r) PROVE ResolverInv'
<1>1. PICK c : c = proc[r].chosen
  OBVIOUS
<1>2. PICK q : q = [at |-> "plan", todo |-> c, chosen |-> {}, tool |-> "none", chain |-> <<>>, facts |-> <<>>,
                    since |-> 0, stamp |-> Resolver!Never, found |-> {}, selected |-> {}, skipped |-> {}]
  OBVIOUS
<1>3. [Resolver!Idle EXCEPT !.at = "plan", !.todo = c, !.stamp = Resolver!Never] = q
  <2>1. PICK q1 : q1 = [Resolver!Idle EXCEPT !.at = "plan", !.todo = c]
    OBVIOUS
  <2>2. q1 = [at |-> "plan", todo |-> c, chosen |-> {}, tool |-> "none", chain |-> <<>>, facts |-> <<>>,
              since |-> 0, stamp |-> 0, found |-> {}, selected |-> {}, skipped |-> {}]
    BY <2>1 DEF Resolver!Idle
  <2>3. ResolverShape(q1) /\ [q1 EXCEPT !.stamp = Resolver!Never] =
          [at |-> q1.at, todo |-> q1.todo, chosen |-> q1.chosen, tool |-> q1.tool, chain |-> q1.chain, facts |-> q1.facts,
           since |-> q1.since, stamp |-> Resolver!Never, found |-> q1.found, selected |-> q1.selected, skipped |-> q1.skipped]
    BY <2>2, ResolverStamped DEF ResolverShape
  <2>4. [q1 EXCEPT !.stamp = Resolver!Never] = q
    BY <2>2, <2>3, <1>2
  <2> QED
    BY <2>1, <2>4
<1>4. UNCHANGED <<db, mem, hist>> /\ (proc' = [proc EXCEPT ![r] = Resolver!Idle] \/ proc' = [proc EXCEPT ![r] = q])
  BY <1>1, <1>3 DEF Resolver!PassGate
<1>5. ResolverShape(q) /\ q.stamp = Resolver!Never /\ q.since = 0 /\ q.found \cup q.selected = {} /\ q.tool = "none"
  BY <1>2 DEF ResolverShape
<1>6. mem.now \in Nat /\ 0 <= mem.now
  BY ResolverWalks
<1>7. ResolverWalk(ResolverUp, mem.now, q) /\ ResolverWalk(ResolverUp, mem.now, Resolver!Idle)
  BY <1>5, <1>6, ResolverBegins, ResolverIdle
<1> QED
  BY <1>4, <1>7, ResolverSteps

LEMMA ResolverSchedules == ASSUME ResolverInv, NEW r \in Askers, Resolver!Schedule(r) PROVE ResolverInv'
<1>1. PICK g : g = proc[r].selected
  OBVIOUS
<1>2. PICK s : s = IF g = {} THEN db.scans ELSE db.scans \cup {g}
  OBVIOUS
<1>3. db' = [up |-> db.up, key |-> db.key, scans |-> s]
  BY <1>1, <1>2 DEF Resolver!Schedule, ResolverInv, ResolverTyped
<1>4. proc' = [proc EXCEPT ![r] = Resolver!Idle] /\ UNCHANGED <<mem, hist>>
  BY DEF Resolver!Schedule
<1>5. \A e \in g : ResolverGood(ResolverUp, e)
  BY <1>1, ResolverWalks DEF ResolverWalk
<1>6. ResolverPlans(ResolverUp, s)
  BY <1>2, <1>5 DEF ResolverInv, ResolverPlans
<1>7. mem.cache \in [Resolver!Cached -> ResolverAnswers] /\ mem' = [now |-> mem.now, cache |-> mem.cache]
      /\ ResolverKept(ResolverUp, mem.cache)
  BY <1>4 DEF ResolverInv, ResolverTyped
<1>8. ResolverWalk(ResolverUp, mem.now, Resolver!Idle)
  BY ResolverWalks, ResolverIdle
<1> QED
  BY <1>3, <1>4, <1>6, <1>7, <1>8, ResolverMoves

LEMMA ResolverStep == ASSUME ResolverInv, [Resolver!Next]_(Resolver!vars) PROVE ResolverInv'
<1>1. CASE UNCHANGED Resolver!vars
  BY <1>1 DEF Resolver!vars, ResolverInv, ResolverTyped, ResolverUp, Resolver!LastUp
<1>2. CASE Resolver!Tick \/ Resolver!SaveKey
  BY <1>2, ResolverTicks, ResolverSaves
<1>3. CASE \E f \in Resolver!Facts : Resolver!Flip(f)
  BY <1>3, ResolverFlips
<1>4. CASE \E r \in Askers, mode \in {"smart", "selected"}, s \in SUBSET Catalog \ {{}} : Resolver!Ask(r, mode, s)
  BY <1>4, ResolverAsking
<1>5. CASE \E r \in Askers, t \in Catalog : Resolver!Take(r, t)
  BY <1>5, ResolverTakes
<1>6. CASE \E r \in Askers : Resolver!ProbeLive(r) \/ Resolver!UseCache(r) \/ Resolver!AskProgram(r) \/ Resolver!ProgramAnswers(r)
  BY <1>6, ResolverProbes, ResolverUses, ResolverQuestion, ResolverProgram
<1>7. CASE \E r \in Askers : Resolver!Settle(r) \/ Resolver!PassGate(r) \/ Resolver!Schedule(r)
  BY <1>7, ResolverSettles, ResolverPasses, ResolverSchedules
<1> QED
  BY <1>1, <1>2, <1>3, <1>4, <1>5, <1>6, <1>7 DEF Resolver!Next

LEMMA ResolverHolds == ASSUME ResolverInv PROVE Resolver!PlanWasTrue
<1>1. ASSUME NEW plan \in db.scans, NEW e \in plan, NEW i \in DOMAIN Resolver!FactsOf(e.backend)
      PROVE  Resolver!LastUp(Resolver!FactsOf(e.backend)[i]) > e.since - TTL
  <2>1. ResolverGood(ResolverUp, e)
    BY DEF ResolverInv, ResolverPlans
  <2>2. PICK f : f = Resolver!FactsOf(e.backend)[i]
    OBVIOUS
  <2>3. f \in Resolver!Facts /\ ResolverUp[f] > e.since - TTL
    BY <2>1, <2>2, ResolverFacts DEF ResolverGood
  <2>4. ResolverUp[f] = Resolver!LastUp(f)
    BY <2>3 DEF ResolverUp
  <2> QED
    BY <2>2, <2>3, <2>4
<1> QED
  BY <1>1 DEF Resolver!PlanWasTrue

LEMMA ResolverPart == SuiteSpec => [](part = "resolver" => ResolverInv)
<1>1. SuiteInit => (part = "resolver" => ResolverInv)
  BY ResolverInit DEF SuiteInit
<1>2. (part = "resolver" => ResolverInv) /\ [SuiteNext]_suiteVars => (part = "resolver" => ResolverInv)'
  <2> SUFFICES ASSUME part = "resolver", ResolverInv, [SuiteNext]_suiteVars PROVE ResolverInv'
    BY DEF SuiteNext, suiteVars
  <2>1. [Resolver!Next]_(Resolver!vars)
    BY DEF SuiteNext, suiteVars, state, Resolver!vars
  <2> QED
    BY <2>1, ResolverStep
<1> QED
  BY <1>1, <1>2, PTL DEF SuiteSpec

\* app/tools/backends.py: what is scheduled on a backend was seen up less than the
\* life of a cached answer before the plan asked; for any tools, chains and requests.
THEOREM PlansWereTrue == SuiteSpec => []PlanWasTrue
<1>1. (part = "resolver" => ResolverInv) => PlanWasTrue
  BY ResolverHolds DEF PlanWasTrue
<1> QED
  BY <1>1, ResolverPart, PTL

-----------------------------------------------------------------------------
(* DuplicateLookup *)

\* A lookup that still fetches is on a page and has no result.
LookupInv ==
  /\ db.link \in [Pages -> Pages \cup {"end"}]
  /\ proc = [way |-> proc.way, at |-> proc.at, page |-> proc.page, pages |-> proc.pages,
             reports |-> proc.reports, result |-> proc.result]
  /\ proc.at = "fetch" => proc.page \in Pages /\ proc.result = "none"
  /\ proc.way = "history" /\ proc.result = "reports" => proc.page = "end"

LEMMA LookupInit == ASSUME Lookup!Init PROVE LookupInv
<1>1. db.link \in [Pages -> Pages \cup {"end"}]
  BY DEF Lookup!Init
<1>2. PICK w \in Lookup!Ways : proc = [way |-> w, at |-> "fetch", page |-> First, pages |-> 0, reports |-> {}, result |-> "none"]
  BY DEF Lookup!Init
<1> QED
  BY <1>1, <1>2, FirstIsAPage DEF LookupInv

LEMMA LookupEnds ==
  ASSUME LookupInv, NEW r, Lookup!Ends(r), UNCHANGED db, r = "reports" => proc.way # "history"
  PROVE  LookupInv'
<1>1. proc' = [way |-> proc.way, at |-> "over", page |-> proc.page, pages |-> proc.pages,
               reports |-> proc.reports, result |-> r]
  BY DEF LookupInv, Lookup!Ends
<1> QED
  BY <1>1 DEF LookupInv

LEMMA LookupStep == ASSUME LookupInv, [Lookup!Next]_(Lookup!vars) PROVE LookupInv'
<1>1. CASE UNCHANGED Lookup!vars
  BY <1>1 DEF LookupInv, Lookup!vars
<1>2. CASE Lookup!Fail
  BY <1>2, LookupEnds DEF Lookup!Fail
<1>3. CASE Lookup!TooMany
  BY <1>3, LookupEnds DEF Lookup!TooMany
<1>4. CASE Lookup!Fetch
  <2> DEFINE p == proc.page
             next == IF db.kind[p] = "object" THEN db.link[p] ELSE "end"
             read == IF db.kind[p] = "object" THEN proc.reports \cup {p} ELSE proc.reports
  <2>1. next \in Pages \cup {"end"}
    BY <1>4 DEF LookupInv, Lookup!Fetch
  <2>2. proc' = [way |-> proc.way, at |-> IF next = "end" THEN "over" ELSE proc.at, page |-> next, pages |-> proc.pages + 1,
                 reports |-> read, result |-> IF next = "end" THEN "reports" ELSE proc.result]
    BY <1>4 DEF LookupInv, Lookup!Fetch
  <2>3. UNCHANGED db /\ proc.at = "fetch"
    BY <1>4 DEF Lookup!Fetch
  <2> HIDE DEF next, read
  <2> QED
    BY <2>1, <2>2, <2>3 DEF LookupInv
<1>5. CASE Lookup!DiscloseAnswers
  BY <1>5, LookupEnds DEF Lookup!DiscloseAnswers
<1>6. CASE Lookup!DiscloseFails
  BY <1>6, LookupEnds DEF Lookup!DiscloseFails
<1>7. CASE Lookup!Cancelled
  BY <1>7, LookupEnds DEF Lookup!Cancelled
<1> QED
  BY <1>1, <1>2, <1>3, <1>4, <1>5, <1>6, <1>7 DEF Lookup!Next

LEMMA LookupPart == SuiteSpec => [](part = "lookup" => LookupInv)
<1>1. SuiteInit => (part = "lookup" => LookupInv)
  BY LookupInit DEF SuiteInit
<1>2. (part = "lookup" => LookupInv) /\ [SuiteNext]_suiteVars => (part = "lookup" => LookupInv)'
  <2> SUFFICES ASSUME part = "lookup", LookupInv, [SuiteNext]_suiteVars PROVE LookupInv'
    BY DEF SuiteNext, suiteVars
  <2>1. [Lookup!Next]_(Lookup!vars)
    BY DEF SuiteNext, suiteVars, state, Lookup!vars
  <2> QED
    BY <2>1, LookupStep
<1> QED
  BY <1>1, <1>2, PTL DEF SuiteSpec

\* duplicates.py: a history of reports that is returned has reached the
\* last page or a page whose body is no object, for any pages and any links.
THEOREM HistoriesReachTheirEnd == SuiteSpec => []HistoryReachesItsEnd
<1>1. (part = "lookup" => LookupInv) => HistoryReachesItsEnd
  BY DEF HistoryReachesItsEnd, LookupInv, Lookup!HistoryReachesItsEnd
<1> QED
  BY <1>1, LookupPart, PTL

-----------------------------------------------------------------------------
(* Brain *)

\* An edge of two findings of one target.
BrainEdge(e) == e \in Analysis!TargetFindings \X Analysis!TargetFindings /\ e[1] # e[2] /\ e[1][1] = e[2][1]

\* A memory on its way to its row has its vector; what a scan is about to store as
\* an edge is one.
BrainInv ==
  /\ db = [hypotheses |-> db.hypotheses, chains |-> db.chains,
           learnings |-> db.learnings, vectors |-> db.vectors]
  /\ proc = [scan |-> proc.scan, memory |-> proc.memory]
  /\ proc.scan = [t \in Targets |-> [at |-> proc.scan[t].at, todo |-> proc.scan[t].todo]]
  /\ \A t \in Targets : Analysis!At(t, "edges") => \A e \in Analysis!Todo(t) : BrainEdge(e)
  /\ \A e \in db.chains : BrainEdge(e)
  /\ db.learnings \subseteq db.vectors
  /\ proc.memory # 0 => proc.memory \in db.vectors

BrainMemory == <<db.learnings, db.vectors, proc.memory>>

LEMMA BrainInit == ASSUME Analysis!Init PROVE BrainInv
  BY DEF Analysis!Init, BrainInv, Analysis!At, Analysis!Todo

\* What a scan does to its own place, when the database's chains stay edges.
LEMMA BrainStores ==
  ASSUME BrainInv, NEW t \in Targets, NEW a, NEW s, NEW h, NEW c,
         proc' = [proc EXCEPT !.scan[t] = [at |-> a, todo |-> s]],
         a = "edges" => \A e \in s : BrainEdge(e),
         db' = [hypotheses |-> h, chains |-> c, learnings |-> db.learnings, vectors |-> db.vectors],
         \A e \in c : BrainEdge(e)
  PROVE  BrainInv'
<1>1. /\ proc'.memory = proc.memory
      /\ proc'.scan = [proc.scan EXCEPT ![t] = [at |-> a, todo |-> s]]
      /\ proc' = [scan |-> proc'.scan, memory |-> proc'.memory]
  BY DEF BrainInv
<1>2. proc'.scan[t] = [at |-> a, todo |-> s] /\ \A u \in Targets \ {t} : proc'.scan[u] = proc.scan[u]
  BY <1>1 DEF BrainInv
<1>3. proc'.scan = [u \in Targets |-> [at |-> proc'.scan[u].at, todo |-> proc'.scan[u].todo]]
  BY <1>1, <1>2 DEF BrainInv
<1>4. \A u \in Targets : Analysis!At(u, "edges")' => \A e \in Analysis!Todo(u)' : BrainEdge(e)
  BY <1>2 DEF BrainInv, Analysis!At, Analysis!Todo
<1> QED
  BY <1>1, <1>3, <1>4 DEF BrainInv, BrainEdge

LEMMA BrainMoves ==
  ASSUME BrainInv, NEW t \in Targets, NEW a, NEW s,
         proc' = [proc EXCEPT !.scan[t] = [at |-> a, todo |-> s]],
         a = "edges" => \A e \in s : BrainEdge(e), UNCHANGED db
  PROVE  BrainInv'
<1>1. db' = [hypotheses |-> db.hypotheses, chains |-> db.chains, learnings |-> db.learnings, vectors |-> db.vectors]
  BY DEF BrainInv
<1>2. \A e \in db.chains : BrainEdge(e)
  BY DEF BrainInv
<1> QED
  BY <1>1, <1>2, BrainStores

LEMMA BrainStep == ASSUME BrainInv, [Analysis!Next]_(Analysis!vars) PROVE BrainInv'
<1>1. CASE UNCHANGED Analysis!vars
  BY <1>1 DEF BrainInv, Analysis!vars, Analysis!At, Analysis!Todo, BrainEdge
<1>2. ASSUME NEW t \in Targets, Analysis!ProposeEdges(t) PROVE BrainInv'
  <2>1. PICK f \in Analysis!TargetFindings, g \in Analysis!TargetFindings :
          proc' = [proc EXCEPT !.scan[t] = [at |-> "edges", todo |-> Analysis!NormalizeEdges(t, {<<f, g>>})]]
    BY <1>2 DEF Analysis!ProposeEdges
  <2>2. \A e \in Analysis!NormalizeEdges(t, {<<f, g>>}) : BrainEdge(e)
    BY DEF Analysis!NormalizeEdges, Analysis!Known, BrainEdge, Analysis!TargetFindings
  <2> QED
    BY <1>2, <2>1, <2>2, BrainMoves DEF Analysis!ProposeEdges
<1>3. ASSUME NEW t \in Targets, Analysis!StoreEdge(t) PROVE BrainInv'
  <2>1. CASE Analysis!Todo(t) = {}
    <3>1. proc' = [proc EXCEPT !.scan[t] = [at |-> "rank", todo |-> proc.scan[t].todo]] /\ UNCHANGED db
      BY <1>3, <2>1 DEF Analysis!StoreEdge, BrainInv
    <3> QED
      BY <3>1, BrainMoves
  <2>2. CASE Analysis!Todo(t) # {}
    <3>1. PICK e \in Analysis!Todo(t) : /\ db' = [db EXCEPT !.chains = @ \cup {e}]
                               /\ proc' = [proc EXCEPT !.scan[t].todo = @ \ {e}]
      BY <1>3, <2>2 DEF Analysis!StoreEdge
    <3>2. BrainEdge(e) /\ \A d \in Analysis!Todo(t) : BrainEdge(d)
      BY <1>3 DEF Analysis!StoreEdge, BrainInv
    <3>4. db' = [hypotheses |-> db.hypotheses, chains |-> db.chains \cup {e}, learnings |-> db.learnings, vectors |-> db.vectors]
      BY <3>1 DEF BrainInv
    <3>5. proc' = [proc EXCEPT !.scan[t] = [at |-> proc.scan[t].at, todo |-> proc.scan[t].todo \ {e}]]
      <4>1. proc.scan[t] = [at |-> proc.scan[t].at, todo |-> proc.scan[t].todo]
        BY DEF BrainInv
      <4> QED
        BY <3>1, <4>1, SMTT(40) DEF Analysis!Todo
    <3>6. \A d \in proc.scan[t].todo \ {e} : BrainEdge(d)
      BY <3>2 DEF Analysis!Todo
    <3>7. \A d \in db.chains \cup {e} : BrainEdge(d)
      BY <3>2 DEF BrainInv
    <3> QED
      BY <3>4, <3>5, <3>6, <3>7, BrainStores
  <2> QED
    BY <2>1, <2>2
<1>4. ASSUME NEW t \in Targets, Analysis!Generate(t) PROVE BrainInv'
  <2>1. PICK s : proc' = [proc EXCEPT !.scan[t] = [at |-> "hypotheses", todo |-> s]]
    BY <1>4 DEF Analysis!Generate
  <2> QED
    BY <1>4, <2>1, BrainMoves DEF Analysis!Generate
<1>5. ASSUME NEW t \in Targets, Analysis!StoreHypothesis(t) PROVE BrainInv'
  <2>1. CASE Analysis!Todo(t) = {}
    <3>1. proc' = [proc EXCEPT !.scan[t] = [at |-> "done", todo |-> proc.scan[t].todo]] /\ UNCHANGED db
      BY <1>5, <2>1 DEF Analysis!StoreHypothesis, BrainInv
    <3> QED
      BY <3>1, BrainMoves
  <2>2. CASE Analysis!Todo(t) # {}
    <3>1. PICK h \in Analysis!Todo(t) : /\ db' = [db EXCEPT !.hypotheses = Analysis!Upsert(h, t)]
                               /\ proc' = [proc EXCEPT !.scan[t].todo = @ \ {h}]
      BY <1>5, <2>2 DEF Analysis!StoreHypothesis
    <3>3. proc.scan[t].at = "hypotheses"
      BY <1>5 DEF Analysis!StoreHypothesis, Analysis!At
    <3>4. db' = [hypotheses |-> Analysis!Upsert(h, t), chains |-> db.chains, learnings |-> db.learnings, vectors |-> db.vectors]
      BY <3>1 DEF BrainInv
    <3>5. proc' = [proc EXCEPT !.scan[t] = [at |-> proc.scan[t].at, todo |-> proc.scan[t].todo \ {h}]]
      <4>1. proc.scan[t] = [at |-> proc.scan[t].at, todo |-> proc.scan[t].todo]
        BY DEF BrainInv
      <4> QED
        BY <3>1, <4>1 DEF Analysis!Todo
    <3>7. \A d \in db.chains : BrainEdge(d)
      BY DEF BrainInv
    <3> QED
      BY <3>3, <3>4, <3>5, <3>7, BrainStores
  <2> QED
    BY <2>1, <2>2
<1>6. ASSUME NEW t \in Targets, Analysis!Evaluate(t) PROVE BrainInv'
  BY <1>6 DEF Analysis!Evaluate, BrainInv, Analysis!At, Analysis!Todo, BrainEdge
<1>7. CASE Analysis!AddVector
  <2>1. PICK id : /\ db' = [db EXCEPT !.vectors = @ \cup {id}]
                  /\ proc' = [proc EXCEPT !.memory = id]
    BY <1>7 DEF Analysis!AddVector
  <2> QED
    BY <2>1 DEF BrainInv, Analysis!At, Analysis!Todo, BrainEdge
<1>8. CASE Analysis!AddLearning
  BY <1>8 DEF Analysis!AddLearning, BrainInv, Analysis!At, Analysis!Todo, BrainEdge
<1>9. CASE Analysis!Lost
  BY <1>9 DEF Analysis!Lost, BrainInv, Analysis!At, Analysis!Todo, BrainEdge
<1> QED
  BY <1>1, <1>2, <1>3, <1>4, <1>5, <1>6, <1>7, <1>8, <1>9 DEF Analysis!Next

LEMMA BrainHolds == ASSUME BrainInv PROVE Analysis!LearningHasItsVector /\ Analysis!ChainsStayInTarget
  BY DEF BrainInv, BrainEdge, Analysis!LearningHasItsVector, Analysis!ChainsStayInTarget, Analysis!Hops

LEMMA AnalysisPart == SuiteSpec => [](part = "analysis" => BrainInv)
<1>1. SuiteInit => (part = "analysis" => BrainInv)
  BY BrainInit DEF SuiteInit
<1>2. (part = "analysis" => BrainInv) /\ [SuiteNext]_suiteVars => (part = "analysis" => BrainInv)'
  <2> SUFFICES ASSUME part = "analysis", BrainInv, [SuiteNext]_suiteVars PROVE BrainInv'
    BY DEF SuiteNext, suiteVars
  <2>1. [Analysis!Next]_(Analysis!vars)
    BY DEF SuiteNext, suiteVars, state, Analysis!vars
  <2> QED
    BY <2>1, BrainStep
<1> QED
  BY <1>1, <1>2, PTL DEF SuiteSpec

\* app/brain: a learning row refers to a vector that was stored, and every chain
\* joins two findings of one target; for any targets, ids and memories.
THEOREM MemoryIsAlwaysJoined == SuiteSpec => []MemoryIsJoined
<1>1. (part = "analysis" => BrainInv) => MemoryIsJoined
  BY BrainHolds DEF MemoryIsJoined
<1> QED
  BY <1>1, AnalysisPart, PTL

-----------------------------------------------------------------------------
(* TargetProbes *)

LEMMA ProbesCardinality == \A S : Probes!Cardinality(S) = Cardinality(S)
  BY DEF Probes!Cardinality, Cardinality

\* The usable hosts of a range are the first of its addresses, no more than are
\* counted when the range is held against its limit.
LEMMA ProbesHosts ==
  ASSUME NEW r \in Probes!Ranges
  PROVE  \E m \in Nat : /\ Probes!HostsOf(r) = 1 .. m /\ IsFiniteSet(Probes!HostsOf(r)) /\ Cardinality(Probes!HostsOf(r)) = m
                        /\ Probes!Count(r) <= MaxRange => m <= MaxRange
<1>1. PICK s \in Int : s = Probes!Extent(r)
  <2>1. r.prefix \in Int /\ Width - r.prefix \in Nat
    BY ProbesAssumption DEF Probes!Ranges
  <2>2. PICK k \in Nat : k = Width - r.prefix
    BY <2>1
  <2>3. 2 ^ k \in Int
    OBVIOUS
  <2> QED
    BY <2>2, <2>3 DEF Probes!Extent
<1>2. r.class \in {"ipv4", "ipv6"}
  BY ProbesAssumption DEF Probes!Ranges
<1>3. PICK t \in {s, s - 1, s - 2} : Probes!HostsOf(r) = 1 .. t /\ (Probes!Count(r) <= MaxRange => t <= MaxRange)
  <2>1. CASE ~(Width - r.prefix >= 2)
    <3>1. Probes!HostsOf(r) = 1 .. s
      BY <1>1, <2>1 DEF Probes!HostsOf
    <3>2. Probes!Count(r) = s
      BY <1>1, <2>1 DEF Probes!Count
    <3> QED
      BY <3>1, <3>2, <1>1, ProbesAssumption
  <2>2. CASE Width - r.prefix >= 2 /\ r.class = "ipv4"
    <3>1. Probes!HostsOf(r) = 1 .. s - 2
      BY <1>1, <2>2 DEF Probes!HostsOf
    <3>2. Probes!Count(r) = s - 2
      BY <1>1, <2>2 DEF Probes!Count
    <3> QED
      BY <3>1, <3>2, <1>1, ProbesAssumption
  <2>3. CASE Width - r.prefix >= 2 /\ r.class = "ipv6"
    <3>1. Probes!HostsOf(r) = 1 .. s - 1
      BY <1>1, <2>3 DEF Probes!HostsOf
    <3>2. Probes!Count(r) = s
      BY <1>1, <2>3 DEF Probes!Count
    <3> QED
      BY <3>1, <3>2, <1>1, ProbesAssumption
  <2> QED
    BY <1>2, <2>1, <2>2, <2>3
<1> DEFINE m == IF t >= 0 THEN t ELSE 0
<1>4. m \in Nat /\ t \in Int /\ 1 .. t = 1 .. m
  OBVIOUS
<1>5. IsFiniteSet(1 .. m) /\ Cardinality(1 .. m) = m
  BY <1>4, FS_Interval
<1>6. Probes!Count(r) <= MaxRange => m <= MaxRange
  BY <1>3, ProbesAssumption
<1> HIDE DEF m
<1> QED
  BY <1>3, <1>4, <1>5, <1>6

ProbesShape ==
  /\ db = [range |-> db.range, cap |-> db.cap, consent |-> db.consent, events |-> db.events,
           flows |-> db.flows, raw |-> db.raw, evidence |-> db.evidence]
  /\ proc = [plan |-> proc.plan, probe |-> proc.probe, export |-> proc.export]
  /\ proc.plan = [at |-> proc.plan.at, i |-> proc.plan.i, order |-> proc.plan.order, seed |-> proc.plan.seed]
  /\ proc.probe = [at |-> proc.probe.at, n |-> proc.probe.n, flow |-> proc.probe.flow]
  /\ hist = [runs |-> hist.runs, planned |-> hist.planned]

\* The order of a seed.
ProbesOrder(seed) == Probes!Order(seed, Probes!HostsOf(db.range))

\* The audited hosts are usable ones, attempted up to the cap and skipped above it,
\* by their place in the order of their seed.
ProbesPlaced(e) ==
  \E i \in DOMAIN ProbesOrder(e.seed) :
    /\ ProbesOrder(e.seed)[i] = e.host
    /\ (e.status = "attempted" => i <= db.cap) /\ (e.status = "skipped" => db.cap < i)

ProbesEvents ==
  /\ db.range \in Probes!Ranges /\ db.cap \in Nat
  /\ db.events \subseteq [host : Probes!HostsOf(db.range), status : {"attempted", "skipped"}, seed : Seeds]
  /\ \A e \in db.events : ProbesPlaced(e)
  /\ db.events # {} => Probes!Count(db.range) <= MaxRange

ProbesRecorded(seed, h) == \E e \in db.events : e.host = h /\ e.seed = seed

\* What a plan has passed is recorded.
ProbesPlan ==
  /\ proc.plan.at = "hosts" =>
       /\ Probes!Count(db.range) <= MaxRange /\ proc.plan.seed \in Seeds
       /\ proc.plan.order = ProbesOrder(proc.plan.seed) /\ proc.plan.i \in Nat \ {0}
       /\ \A i \in DOMAIN proc.plan.order : i < proc.plan.i => ProbesRecorded(proc.plan.seed, proc.plan.order[i])
  /\ \A seed \in Seeds : seed \in hist.planned => \A h \in Probes!HostsOf(db.range) : ProbesRecorded(seed, h)

\* The parts of a capture are stored in their order.
ProbesCapture ==
  /\ proc.probe.at \in {"response", "bind"} => <<"request", proc.probe.flow>> \in db.raw
  /\ proc.probe.at = "bind" => <<"response", proc.probe.flow>> \in db.raw
  /\ \A f \in db.evidence : {<<"request", f>>, <<"response", f>>} \subseteq db.raw
  /\ proc.export # "failed"

ProbesInv == ProbesShape /\ ProbesEvents /\ ProbesPlan /\ ProbesCapture

LEMMA ProbesInit == ASSUME Probes!Init PROVE ProbesInv
<1>1. PICK r \in Probes!Ranges, cap \in Caps :
        db = [range |-> r, cap |-> cap, consent |-> TRUE, events |-> {}, flows |-> {}, raw |-> {}, evidence |-> {}]
  BY DEF Probes!Init
<1>2. /\ proc = [plan |-> [at |-> "idle", i |-> 0, order |-> <<>>, seed |-> "none"],
                 probe |-> [at |-> "idle", n |-> 0, flow |-> 0], export |-> "idle"]
      /\ hist = [runs |-> 0, planned |-> {}]
  BY DEF Probes!Init
<1>3. ProbesShape
  BY <1>1, <1>2 DEF ProbesShape
<1>4. ProbesEvents
  BY <1>1, ProbesAssumption DEF ProbesEvents
<1>5. ProbesPlan /\ ProbesCapture
  BY <1>1, <1>2 DEF ProbesPlan, ProbesCapture
<1> QED
  BY <1>3, <1>4, <1>5 DEF ProbesInv

\* The plan's part of the state is read by ProbesEvents and ProbesPlan only, the
\* capture's by ProbesCapture only.
LEMMA ProbesKeepEvents ==
  ASSUME ProbesEvents, ProbesPlan, db'.range = db.range, db'.cap = db.cap, db'.events = db.events,
         proc'.plan = proc.plan, hist'.planned = hist.planned
  PROVE  ProbesEvents' /\ ProbesPlan'
<1>0. \A seed : ProbesOrder(seed)' = ProbesOrder(seed)
  BY DEF ProbesOrder, Probes!Order, Probes!Cardinality
<1>1. ProbesEvents'
  <2>1. \A e : ProbesPlaced(e)' <=> ProbesPlaced(e)
    BY <1>0 DEF ProbesPlaced
  <2> QED
    BY <2>1 DEF ProbesEvents
<1>2. \A seed, h : ProbesRecorded(seed, h)' <=> ProbesRecorded(seed, h)
  BY DEF ProbesRecorded
<1>3. ProbesPlan'
  BY <1>0, <1>2 DEF ProbesPlan
<1> QED
  BY <1>1, <1>3

LEMMA ProbesKeepCapture ==
  ASSUME ProbesCapture, db'.raw = db.raw, db'.evidence = db.evidence, proc'.probe = proc.probe,
         proc'.export = proc.export
  PROVE  ProbesCapture'
  BY DEF ProbesCapture

\* The order of a seed has every host once.
LEMMA ProbesOrders ==
  ASSUME ProbesEvents, Probes!Count(db.range) <= MaxRange, NEW seed \in Seeds
  PROVE  \E m \in Nat : /\ Probes!HostsOf(db.range) = 1 .. m /\ ProbesOrder(seed) \in [1 .. m -> 1 .. m]
                        /\ DOMAIN ProbesOrder(seed) = 1 .. m /\ Len(ProbesOrder(seed)) = m
                        /\ \A h \in 1 .. m : \E i \in 1 .. m : ProbesOrder(seed)[i] = h
                        /\ \A i, j \in 1 .. m : ProbesOrder(seed)[i] = ProbesOrder(seed)[j] => i = j
<1>1. PICK m \in Nat : /\ Probes!HostsOf(db.range) = 1 .. m /\ Cardinality(Probes!HostsOf(db.range)) = m /\ m <= MaxRange
  BY ProbesHosts DEF ProbesEvents
<1>2. m \in 0 .. MaxRange /\ ProbesOrder(seed) = Shuffle(seed, m)
  BY <1>1, ProbesAssumption, ProbesCardinality DEF ProbesOrder, Probes!Order
<1>3. /\ ProbesOrder(seed) \in [1 .. m -> 1 .. m]
      /\ \A h \in 1 .. m : \E i \in 1 .. m : ProbesOrder(seed)[i] = h
      /\ \A i, j \in 1 .. m : ProbesOrder(seed)[i] = ProbesOrder(seed)[j] => i = j
  <2>1. /\ Shuffle(seed, m) \in [1 .. m -> 1 .. m]
        /\ \A h \in 1 .. m : \E i \in 1 .. m : Shuffle(seed, m)[i] = h
        /\ \A i, j \in 1 .. m : Shuffle(seed, m)[i] = Shuffle(seed, m)[j] => i = j
    BY <1>2, SeedsShuffle, Zenon
  <2> QED
    BY <1>2, <2>1, Zenon
<1>4. DOMAIN ProbesOrder(seed) = 1 .. m /\ Len(ProbesOrder(seed)) = m
  <2>1. ASSUME NEW q \in [1 .. m -> 1 .. m] PROVE DOMAIN q = 1 .. m /\ Len(q) = m
    BY <1>1
  <2> QED
    BY <1>3, <2>1
<1> QED
  BY <1>1, <1>3, <1>4

\* A step of the planner.
LEMMA ProbesPlanner ==
  ASSUME ProbesInv, NEW p, p = [at |-> p.at, i |-> p.i, order |-> p.order, seed |-> p.seed], Probes!Plan(p),
         NEW E, db' = [db EXCEPT !.events = E], NEW r, NEW d, hist' = [runs |-> r, planned |-> d],
         ProbesEvents', ProbesPlan'
  PROVE  ProbesInv'
<1>1. proc' = [plan |-> p, probe |-> proc.probe, export |-> proc.export]
  BY DEF ProbesInv, ProbesShape, Probes!Plan
<1>2. db' = [range |-> db.range, cap |-> db.cap, consent |-> db.consent, events |-> E,
             flows |-> db.flows, raw |-> db.raw, evidence |-> db.evidence]
  BY DEF ProbesInv, ProbesShape
<1>3. ProbesShape'
  <2>1. proc'.plan = p /\ proc'.probe = proc.probe /\ proc'.export = proc.export
    BY <1>1
  <2>2. proc'.probe = [at |-> proc'.probe.at, n |-> proc'.probe.n, flow |-> proc'.probe.flow]
    BY <2>1 DEF ProbesInv, ProbesShape
  <2> QED
    BY <1>1, <1>2, <2>1, <2>2 DEF ProbesShape
<1>4. ProbesCapture'
  BY <1>1, <1>2, ProbesKeepCapture DEF ProbesInv
<1> QED
  BY <1>3, <1>4 DEF ProbesInv

\* A step that leaves the audited hosts and the declaration.
LEMMA ProbesSame ==
  ASSUME ProbesInv, UNCHANGED db
  PROVE  /\ ProbesEvents' /\ \A seed : ProbesOrder(seed)' = ProbesOrder(seed)
         /\ \A seed, h : ProbesRecorded(seed, h)' <=> ProbesRecorded(seed, h)
<1>1. \A seed : ProbesOrder(seed)' = ProbesOrder(seed)
  BY DEF ProbesOrder, Probes!Order, Probes!Cardinality
<1>2. \A e : ProbesPlaced(e)' <=> ProbesPlaced(e)
  BY <1>1 DEF ProbesPlaced
<1>3. \A seed, h : ProbesRecorded(seed, h)' <=> ProbesRecorded(seed, h)
  BY DEF ProbesRecorded
<1> QED
  BY <1>1, <1>2, <1>3 DEF ProbesInv, ProbesEvents

LEMMA ProbesStart == ASSUME ProbesInv, Probes!StartPlan PROVE ProbesInv'
<1>0. PICK seed \in Seeds :
        Probes!Plan([at |-> "hosts", i |-> 1, order |-> Probes!Order(seed, Probes!HostsOf(db.range)), seed |-> seed])
  BY DEF Probes!StartPlan
<1> DEFINE p == [at |-> "hosts", i |-> 1, order |-> ProbesOrder(seed), seed |-> seed]
<1>1. /\ Probes!Count(db.range) <= MaxRange /\ Probes!Plan(p) /\ UNCHANGED db
      /\ hist' = [hist EXCEPT !.runs = @ + 1]
  BY <1>0 DEF Probes!StartPlan, Probes!StartsPlan, ProbesOrder
<1>2. hist' = [runs |-> hist.runs + 1, planned |-> hist.planned]
  BY <1>1 DEF ProbesInv, ProbesShape
<1>3. proc'.plan = p /\ p.at = "hosts" /\ p.i = 1 /\ p.order = ProbesOrder(seed) /\ p.seed = seed
  BY <1>1 DEF Probes!Plan, ProbesInv, ProbesShape
<1>4. /\ ProbesEvents' /\ (\A q : ProbesOrder(q)' = ProbesOrder(q))
      /\ \A q, h : ProbesRecorded(q, h)' <=> ProbesRecorded(q, h)
  BY <1>1, ProbesSame
<1>5. \A i \in DOMAIN ProbesOrder(seed) : ~(i < 1)
  BY <1>1, ProbesOrders DEF ProbesInv
<1> HIDE DEF p
<1>6. ProbesPlan'
  BY <1>1, <1>2, <1>3, <1>4, <1>5 DEF ProbesPlan, ProbesInv
<1>7. db' = [db EXCEPT !.events = db.events]
  BY <1>1 DEF ProbesInv, ProbesShape
<1>8. p = [at |-> p.at, i |-> p.i, order |-> p.order, seed |-> p.seed]
  BY DEF p
<1> QED
  BY <1>1, <1>2, <1>4, <1>6, <1>7, <1>8, ProbesPlanner

LEMMA ProbesOver ==
  ASSUME ProbesInv, NEW done, Probes!PlanOver(done), UNCHANGED db,
         \A seed \in Seeds : seed \in done => \A h \in Probes!HostsOf(db.range) : ProbesRecorded(seed, h)
  PROVE  ProbesInv'
<1> DEFINE p == [at |-> "idle", i |-> 0, order |-> <<>>, seed |-> "none"]
<1>1. Probes!Plan(p) /\ hist' = [runs |-> hist.runs, planned |-> hist.planned \cup done]
  BY DEF Probes!PlanOver, ProbesInv, ProbesShape
<1>2. proc'.plan = p
  BY <1>1 DEF Probes!Plan, ProbesInv, ProbesShape
<1>3. ProbesEvents' /\ \A seed, h : ProbesRecorded(seed, h)' <=> ProbesRecorded(seed, h)
  BY ProbesSame
<1>5. ProbesPlan'
  <2>1. \A seed \in Seeds : seed \in hist'.planned =>
          \A h \in Probes!HostsOf(db.range) : ProbesRecorded(seed, h)
    BY <1>1 DEF ProbesInv, ProbesPlan
  <2> QED
    BY <1>2, <1>3, <2>1 DEF ProbesPlan
<1>6. db' = [db EXCEPT !.events = db.events]
  BY DEF ProbesInv, ProbesShape
<1> QED
  BY <1>1, <1>3, <1>5, <1>6, ProbesPlanner

LEMMA ProbesNext == ASSUME ProbesInv, Probes!NextHost PROVE ProbesInv'
<1> DEFINE p == proc.plan
<1>1. p.at = "hosts" /\ p.i <= Len(p.order)
  BY DEF Probes!NextHost
<1>2. CASE p.i <= db.cap /\ Probes!PlanOver({}) /\ UNCHANGED db
  BY <1>2, ProbesOver
<1>3. CASE /\ Probes!Audit(p.order[p.i], IF p.i <= db.cap THEN "attempted" ELSE "skipped")
           /\ Probes!Plan([p EXCEPT !.i = @ + 1]) /\ UNCHANGED hist
  <2>0. Probes!Count(db.range) <= MaxRange /\ p.seed \in Seeds /\ p.order = ProbesOrder(p.seed) /\ p.i \in Nat \ {0}
        /\ db.cap \in Nat
    BY <1>1 DEF ProbesInv, ProbesPlan, ProbesEvents
  <2>1. PICK m \in Nat : /\ Probes!HostsOf(db.range) = 1 .. m /\ p.order \in [1 .. m -> 1 .. m]
                        /\ DOMAIN p.order = 1 .. m /\ Len(p.order) = m
    <3>1. ProbesEvents
      BY DEF ProbesInv
    <3>2. PICK m \in Nat : /\ Probes!HostsOf(db.range) = 1 .. m /\ ProbesOrder(p.seed) \in [1 .. m -> 1 .. m]
                          /\ DOMAIN ProbesOrder(p.seed) = 1 .. m /\ Len(ProbesOrder(p.seed)) = m
      BY <2>0, <3>1, ProbesOrders
    <3> QED
      BY <2>0, <3>2
  <2>4. p.i \in 1 .. m /\ p.order[p.i] \in 1 .. m
    <3>1. \A i \in Nat \ {0} : i <= m => i \in 1 .. m
      OBVIOUS
    <3>2. p.i \in 1 .. m
      <4>1. p.i \in Nat \ {0}
        BY <2>0
      <4>2. p.i <= m
        BY <1>1, <2>1
      <4> QED
        BY <3>1, <4>1, <4>2
    <3>3. \A f \in [1 .. m -> 1 .. m] : \A i \in 1 .. m : f[i] \in 1 .. m
      OBVIOUS
    <3>4. p.order \in [1 .. m -> 1 .. m]
      BY <2>1
    <3> QED
      BY <3>2, <3>3, <3>4
  <2> DEFINE st == IF p.i <= db.cap THEN "attempted" ELSE "skipped"
             e == [host |-> p.order[p.i], status |-> st, seed |-> p.seed]
             q == [at |-> "hosts", i |-> p.i + 1, order |-> p.order, seed |-> p.seed]
  <2>5. Probes!Plan(q)
    BY <1>1, <1>3 DEF ProbesInv, ProbesShape
  <2>6. db' = [db EXCEPT !.events = db.events \cup {e}]
    BY <1>3 DEF Probes!Audit
  <2>7. /\ db'.range = db.range /\ db'.cap = db.cap /\ db'.events = db.events \cup {e}
        /\ proc'.plan = q
    BY <2>5, <2>6 DEF ProbesInv, ProbesShape, Probes!Plan
  <2>8. e.host = p.order[p.i] /\ (e.status = "attempted" => p.i <= db.cap) /\ (e.status = "skipped" => db.cap < p.i)
        /\ e.seed = p.seed
        /\ e \in [host : Probes!HostsOf(db.range), status : {"attempted", "skipped"}, seed : Seeds]
    <3>1. e.host = p.order[p.i] /\ e.status = st /\ e.seed = p.seed
      OBVIOUS
    <3>2. st \in {"attempted", "skipped"} /\ (st = "attempted" => p.i <= db.cap) /\ (st = "skipped" => ~(p.i <= db.cap))
      OBVIOUS
    <3>3. p.i \in Nat /\ db.cap \in Nat
      BY <2>0
    <3>4. p.order[p.i] \in Probes!HostsOf(db.range) /\ p.seed \in Seeds
      BY <2>0, <2>1, <2>4
    <3> HIDE DEF p, st
    <3>5. e \in [host : Probes!HostsOf(db.range), status : {"attempted", "skipped"}, seed : Seeds]
      BY <3>2, <3>4
    <3>6. \A i, c \in Nat : ~(i <= c) => c < i
      OBVIOUS
    <3> QED
      BY <3>1, <3>2, <3>3, <3>5, <3>6
  <2> HIDE DEF e
  <2>9. \A seed : ProbesOrder(seed)' = ProbesOrder(seed)
    BY <2>7 DEF ProbesOrder, Probes!Order, Probes!Cardinality
  <2>10. ProbesEvents'
    <3>1. \A f : ProbesPlaced(f)' <=> ProbesPlaced(f)
      BY <2>7, <2>9 DEF ProbesPlaced
    <3>2. ProbesPlaced(e)
      BY <2>0, <2>1, <2>4, <2>8 DEF ProbesPlaced
    <3> QED
      BY <2>0, <2>7, <2>8, <3>1, <3>2 DEF ProbesInv, ProbesEvents
  <2>11. \A seed, h : ProbesRecorded(seed, h) \/ (seed = p.seed /\ h = p.order[p.i]) => ProbesRecorded(seed, h)'
    BY <2>7, <2>8 DEF ProbesRecorded
  <2>12. ProbesPlan'
    <3>a. PICK sd, od : sd = p.seed /\ od = p.order
      OBVIOUS
    <3>b. PICK n \in Nat : n = p.i
      BY <2>0
    <3>0. sd = p.seed /\ od = p.order /\ n = p.i
      BY <3>a, <3>b
    <3>1. ASSUME NEW i \in DOMAIN od, i < n + 1 PROVE ProbesRecorded(sd, od[i])'
      <4>1. i \in Nat
        BY <2>1, <3>0, <3>1
      <4>2. i < n \/ i = n
        BY <3>1, <4>1
      <4>3. i < n => ProbesRecorded(sd, od[i])
        BY <1>1, <3>0, <3>1 DEF ProbesInv, ProbesPlan
      <4> QED
        BY <2>11, <3>0, <4>2, <4>3
    <3>2. \A seed \in Seeds : seed \in hist'.planned => \A h \in Probes!HostsOf(db.range) : ProbesRecorded(seed, h)'
      BY <1>3, <2>11 DEF ProbesInv, ProbesPlan
    <3>3. q.at = "hosts" /\ q.i = p.i + 1 /\ q.order = p.order /\ q.seed = p.seed /\ p.i + 1 \in Nat \ {0}
      BY <2>0
    <3> HIDE DEF q
    <3> QED
      BY <2>0, <2>7, <2>9, <3>0, <3>1, <3>2, <3>3 DEF ProbesPlan
  <2>13. hist' = [runs |-> hist.runs, planned |-> hist.planned]
    BY <1>3 DEF ProbesInv, ProbesShape
  <2>14. q = [at |-> q.at, i |-> q.i, order |-> q.order, seed |-> q.seed]
    OBVIOUS
  <2> HIDE DEF q
  <2> QED
    BY <2>5, <2>6, <2>10, <2>12, <2>13, <2>14, ProbesPlanner
<1> QED
  BY <1>1, <1>2, <1>3 DEF Probes!NextHost

LEMMA ProbesEnd == ASSUME ProbesInv, Probes!EndPlan PROVE ProbesInv'
<1>1. /\ proc.plan.at = "hosts" /\ proc.plan.i > Len(proc.plan.order)
      /\ Probes!PlanOver({proc.plan.seed}) /\ UNCHANGED db
  BY DEF Probes!EndPlan
<1>2. /\ Probes!Count(db.range) <= MaxRange /\ proc.plan.seed \in Seeds /\ proc.plan.order = ProbesOrder(proc.plan.seed)
      /\ proc.plan.i \in Nat \ {0}
  BY <1>1 DEF ProbesInv, ProbesPlan
<1>3. PICK m \in Nat : /\ Probes!HostsOf(db.range) = 1 .. m /\ DOMAIN proc.plan.order = 1 .. m /\ Len(proc.plan.order) = m
                      /\ \A h \in 1 .. m : \E i \in 1 .. m : proc.plan.order[i] = h
  <2>1. ProbesEvents
    BY DEF ProbesInv
  <2> DEFINE od == ProbesOrder(proc.plan.seed)
  <2>2. PICK m \in Nat : /\ Probes!HostsOf(db.range) = 1 .. m /\ DOMAIN od = 1 .. m /\ Len(od) = m
                        /\ \A h \in 1 .. m : \E i \in 1 .. m : od[i] = h
    BY <1>2, <2>1, ProbesOrders
  <2> QED
    BY <1>2, <2>2
<1>5. ASSUME NEW h \in Probes!HostsOf(db.range) PROVE ProbesRecorded(proc.plan.seed, h)
  <2>1. PICK i \in 1 .. m : proc.plan.order[i] = h
    BY <1>3, <1>5
  <2>2. PICK n \in Nat : n = proc.plan.i /\ n > m
    BY <1>1, <1>2, <1>3
  <2>3. i < proc.plan.i
    BY <2>2
  <2> QED
    BY <1>1, <1>3, <2>1, <2>3 DEF ProbesInv, ProbesPlan
<1> QED
  BY <1>1, <1>5, ProbesOver

\* A step of the probe or of the export.
LEMMA ProbesProbe ==
  ASSUME ProbesInv, NEW p, p = [at |-> p.at, n |-> p.n, flow |-> p.flow], NEW x,
         proc' = [plan |-> proc.plan, probe |-> p, export |-> x],
         NEW c, NEW F, NEW R, NEW B,
         db' = [range |-> db.range, cap |-> db.cap, consent |-> c, events |-> db.events,
                flows |-> F, raw |-> R, evidence |-> B],
         NEW r, hist' = [runs |-> r, planned |-> hist.planned],
         ProbesCapture'
  PROVE  ProbesInv'
<1>1. proc'.plan = proc.plan /\ proc'.probe = p /\ proc'.export = x /\ hist'.planned = hist.planned
      /\ db'.range = db.range /\ db'.cap = db.cap /\ db'.events = db.events
  OBVIOUS
<1>2. ProbesEvents' /\ ProbesPlan'
  BY <1>1, ProbesKeepEvents DEF ProbesInv
<1>3. ProbesShape'
  <2>1. proc'.plan = [at |-> proc'.plan.at, i |-> proc'.plan.i, order |-> proc'.plan.order, seed |-> proc'.plan.seed]
    BY <1>1 DEF ProbesInv, ProbesShape
  <2> QED
    BY <1>1, <2>1 DEF ProbesShape
<1> QED
  BY <1>2, <1>3 DEF ProbesInv

\* The probe leaves a capture, or goes on where nothing is stored yet.
LEMMA ProbesMove ==
  ASSUME ProbesInv, NEW p, p = [at |-> p.at, n |-> p.n, flow |-> p.flow],
         proc' = [proc EXCEPT !.probe = p], UNCHANGED db,
         p.at \notin {"response", "bind"}, NEW r, hist' = [runs |-> r, planned |-> hist.planned]
  PROVE  ProbesInv'
<1>1. proc' = [plan |-> proc.plan, probe |-> p, export |-> proc.export]
  BY DEF ProbesInv, ProbesShape
<1>2. db' = [range |-> db.range, cap |-> db.cap, consent |-> db.consent, events |-> db.events,
             flows |-> db.flows, raw |-> db.raw, evidence |-> db.evidence]
  BY DEF ProbesInv, ProbesShape
<1>3. ProbesCapture'
  BY <1>1 DEF ProbesInv, ProbesCapture
<1> QED
  BY <1>1, <1>2, <1>3, ProbesProbe

LEMMA ProbesKeptHist == ASSUME ProbesInv, UNCHANGED hist PROVE hist' = [runs |-> hist.runs, planned |-> hist.planned]
  BY DEF ProbesInv, ProbesShape

LEMMA ProbesIdle == ASSUME ProbesInv, Probes!ProbeOver, UNCHANGED db PROVE ProbesInv'
<1> DEFINE p == [at |-> "idle", n |-> 0, flow |-> 0]
<1>1. proc' = [proc EXCEPT !.probe = p] /\ UNCHANGED hist
  BY DEF Probes!ProbeOver, Probes!Probe
<1> QED
  BY <1>1, ProbesKeptHist, ProbesMove

LEMMA ProbesGo ==
  ASSUME ProbesInv, NEW a, Probes!GoOn(a)
  PROVE  /\ proc' = [plan |-> proc.plan, probe |-> [at |-> a, n |-> proc.probe.n, flow |-> proc.probe.flow],
                     export |-> proc.export]
         /\ hist' = [runs |-> hist.runs, planned |-> hist.planned]
<1>1. [proc.probe EXCEPT !.at = a] = [at |-> a, n |-> proc.probe.n, flow |-> proc.probe.flow]
  BY DEF ProbesInv, ProbesShape
<1>2. proc' = [proc EXCEPT !.probe = [at |-> a, n |-> proc.probe.n, flow |-> proc.probe.flow]] /\ UNCHANGED hist
  BY <1>1 DEF Probes!GoOn, Probes!Probe
<1> QED
  BY <1>2, ProbesKeptHist DEF ProbesInv, ProbesShape

LEMMA ProbesStored ==
  ASSUME ProbesInv, NEW half, NEW next, Probes!PutRaw(half, next),
         \/ half = "request" /\ next = "response"
         \/ half = "response" /\ next = "bind"
  PROVE  ProbesInv'
<1>1. proc.probe.at = half /\ Probes!GoOn(next) /\ db' = [db EXCEPT !.raw = db.raw \cup {<<half, proc.probe.flow>>}]
  BY DEF Probes!PutRaw, Probes!ProbeAt
<1> DEFINE p == [at |-> next, n |-> proc.probe.n, flow |-> proc.probe.flow]
<1>2. /\ proc' = [plan |-> proc.plan, probe |-> p, export |-> proc.export]
      /\ hist' = [runs |-> hist.runs, planned |-> hist.planned]
  BY <1>1, ProbesGo
<1>3. db' = [range |-> db.range, cap |-> db.cap, consent |-> db.consent, events |-> db.events,
             flows |-> db.flows, raw |-> db.raw \cup {<<half, proc.probe.flow>>}, evidence |-> db.evidence]
  BY <1>1 DEF ProbesInv, ProbesShape
<1>4. ProbesCapture'
  <2>1. proc'.probe.at = next /\ proc'.probe.flow = proc.probe.flow /\ proc'.export = proc.export
        /\ db'.raw = db.raw \cup {<<half, proc.probe.flow>>} /\ db'.evidence = db.evidence
    BY <1>2, <1>3
  <2> QED
    BY <1>1, <2>1 DEF ProbesInv, ProbesCapture
<1>5. p = [at |-> p.at, n |-> p.n, flow |-> p.flow]
  OBVIOUS
<1> HIDE DEF p
<1> QED
  BY <1>2, <1>3, <1>4, <1>5, ProbesProbe

LEMMA ProbesStep == ASSUME ProbesInv, [Probes!Next]_(Probes!vars) PROVE ProbesInv'
<1>1. CASE UNCHANGED Probes!vars
  <2>1. db' = db /\ proc' = proc /\ hist' = hist
    BY <1>1 DEF Probes!vars
  <2>2. ProbesShape' /\ ProbesCapture'
    BY <2>1 DEF ProbesInv, ProbesShape, ProbesCapture
  <2>3. ProbesEvents' /\ ProbesPlan'
    BY <2>1, ProbesKeepEvents DEF ProbesInv
  <2> QED
    BY <2>2, <2>3 DEF ProbesInv
<1>2. CASE Probes!StartPlan
  BY <1>2, ProbesStart
<1>3. CASE Probes!NextHost
  BY <1>3, ProbesNext
<1>4. CASE Probes!EndPlan
  BY <1>4, ProbesEnd
<1>5. CASE Probes!StartProbe
  <2> DEFINE p == [at |-> "authorize", n |-> 1, flow |-> 0]
  <2>1. proc' = [proc EXCEPT !.probe = p] /\ UNCHANGED db /\ hist' = [hist EXCEPT !.runs = @ + 1]
    BY <1>5 DEF Probes!StartProbe
  <2>2. hist' = [runs |-> hist.runs + 1, planned |-> hist.planned]
    BY <2>1 DEF ProbesInv, ProbesShape
  <2>3. p = [at |-> p.at, n |-> p.n, flow |-> p.flow] /\ p.at \notin {"response", "bind"}
    OBVIOUS
  <2> HIDE DEF p
  <2> QED
    BY <2>1, <2>2, <2>3, ProbesMove
<1>6. ASSUME NEW a \in {"connect", "flow"}, Probes!GoOn(a), UNCHANGED db PROVE ProbesInv'
  <2> DEFINE p == [at |-> a, n |-> proc.probe.n, flow |-> proc.probe.flow]
  <2>1. /\ proc' = [proc EXCEPT !.probe = p] /\ hist' = [runs |-> hist.runs, planned |-> hist.planned]
    BY <1>6, ProbesGo DEF ProbesInv, ProbesShape
  <2>3. p = [at |-> p.at, n |-> p.n, flow |-> p.flow] /\ p.at \notin {"response", "bind"}
    BY <1>6
  <2> HIDE DEF p
  <2> QED
    BY <1>6, <2>1, <2>3, ProbesMove
<1>7. CASE Probes!AuthorizeRoute
  BY <1>6, <1>7, ProbesIdle DEF Probes!AuthorizeRoute
<1>8. CASE Probes!Connect
  BY <1>6, <1>8, ProbesIdle DEF Probes!Connect
<1>9. CASE Probes!InsertFlow
  <2>1. PICK id : /\ db' = [db EXCEPT !.flows = db.flows \cup {id}]
                  /\ Probes!Probe([proc.probe EXCEPT !.at = "request", !.flow = id])
    BY <1>9 DEF Probes!InsertFlow
  <2> DEFINE p == [at |-> "request", n |-> proc.probe.n, flow |-> id]
  <2>2. [proc.probe EXCEPT !.at = "request", !.flow = id] = p
    <3>1. proc.probe = [at |-> proc.probe.at, n |-> proc.probe.n, flow |-> proc.probe.flow]
      BY DEF ProbesInv, ProbesShape
    <3>2. ASSUME NEW q, NEW a, NEW n, NEW f, q = [at |-> a, n |-> n, flow |-> f]
          PROVE  [q EXCEPT !.at = "request", !.flow = id] = [at |-> "request", n |-> n, flow |-> id]
      <4>1. PICK q1 : q1 = [q EXCEPT !.at = "request"]
        OBVIOUS
      <4>2. q1 = [at |-> "request", n |-> n, flow |-> f]
        BY <3>2, <4>1
      <4>3. [q1 EXCEPT !.flow = id] = [at |-> "request", n |-> n, flow |-> id]
        BY <4>2
      <4>4. [q EXCEPT !.at = "request", !.flow = id] = [q1 EXCEPT !.flow = id]
        BY <4>1
      <4> QED
        BY <4>3, <4>4
    <3> QED
      BY <3>1, <3>2, Zenon
  <2>3. proc' = [plan |-> proc.plan, probe |-> p, export |-> proc.export]
    BY <2>1, <2>2 DEF Probes!Probe, ProbesInv, ProbesShape
  <2>4. hist' = [runs |-> hist.runs, planned |-> hist.planned]
    BY <2>1, ProbesKeptHist DEF Probes!Probe
  <2>5. db' = [range |-> db.range, cap |-> db.cap, consent |-> db.consent, events |-> db.events,
               flows |-> db.flows \cup {id}, raw |-> db.raw, evidence |-> db.evidence]
    BY <2>1 DEF ProbesInv, ProbesShape
  <2>6. ProbesCapture'
    BY <2>3, <2>5 DEF ProbesInv, ProbesCapture
  <2>7. p = [at |-> p.at, n |-> p.n, flow |-> p.flow]
    OBVIOUS
  <2> HIDE DEF p
  <2> QED
    BY <2>3, <2>4, <2>5, <2>6, <2>7, ProbesProbe
<1>10. CASE Probes!PutRequest
  BY <1>10, ProbesStored DEF Probes!PutRequest
<1>11. CASE Probes!PutResponse
  BY <1>11, ProbesStored DEF Probes!PutResponse
<1>12. CASE Probes!Bind
  <2> DEFINE more == proc.probe.n = 1
             p == [at |-> IF more THEN "authorize" ELSE "idle", n |-> IF more THEN 2 ELSE 0, flow |-> 0]
  <2>1. proc.probe.at = "bind" /\ db' = [db EXCEPT !.evidence = db.evidence \cup {proc.probe.flow}] /\ Probes!Probe(p)
    BY <1>12 DEF Probes!Bind, Probes!ProbeAt
  <2>2. p = [at |-> p.at, n |-> p.n, flow |-> p.flow] /\ p.at \notin {"response", "bind"}
    OBVIOUS
  <2> HIDE DEF p
  <2>3. proc' = [plan |-> proc.plan, probe |-> p, export |-> proc.export]
    BY <2>1 DEF Probes!Probe, ProbesInv, ProbesShape
  <2>4. hist' = [runs |-> hist.runs, planned |-> hist.planned]
    BY <2>1, ProbesKeptHist DEF Probes!Probe
  <2>5. db' = [range |-> db.range, cap |-> db.cap, consent |-> db.consent, events |-> db.events,
               flows |-> db.flows, raw |-> db.raw, evidence |-> db.evidence \cup {proc.probe.flow}]
    BY <2>1 DEF ProbesInv, ProbesShape
  <2>6. ProbesCapture'
    <3>1. proc'.probe = p /\ proc'.export = proc.export /\ db'.raw = db.raw
          /\ db'.evidence = db.evidence \cup {proc.probe.flow}
      BY <2>3, <2>5
    <3> QED
      BY <2>1, <2>2, <3>1 DEF ProbesInv, ProbesCapture
  <2> QED
    BY <2>2, <2>3, <2>4, <2>5, <2>6, ProbesProbe
<1>13. CASE Probes!CaptureFails
  BY <1>13, ProbesIdle DEF Probes!CaptureFails
<1>14. CASE Probes!ExportHar
  <2>1. \A f \in db.evidence : {<<"request", f>>, <<"response", f>>} \subseteq db.raw
    BY DEF ProbesInv, ProbesCapture
  <2>2. proc' = [proc EXCEPT !.export = "exported"] /\ UNCHANGED <<db, hist>>
    BY <1>14, <2>1 DEF Probes!ExportHar
  <2>3. proc' = [plan |-> proc.plan, probe |-> proc.probe, export |-> "exported"]
    BY <2>2 DEF ProbesInv, ProbesShape
  <2>4. hist' = [runs |-> hist.runs, planned |-> hist.planned]
    BY <2>2, ProbesKeptHist
  <2>5. db' = [range |-> db.range, cap |-> db.cap, consent |-> db.consent, events |-> db.events,
               flows |-> db.flows, raw |-> db.raw, evidence |-> db.evidence]
    BY <2>2 DEF ProbesInv, ProbesShape
  <2>6. ProbesCapture'
    BY <2>2, <2>3 DEF ProbesInv, ProbesCapture
  <2>7. proc.probe = [at |-> proc.probe.at, n |-> proc.probe.n, flow |-> proc.probe.flow]
    BY DEF ProbesInv, ProbesShape
  <2> QED
    BY <2>3, <2>4, <2>5, <2>6, <2>7, ProbesProbe
<1>15. CASE Probes!Revoke
  <2>1. db' = [db EXCEPT !.consent = FALSE] /\ UNCHANGED <<proc, hist>>
    BY <1>15 DEF Probes!Revoke
  <2>3. proc' = [plan |-> proc.plan, probe |-> proc.probe, export |-> proc.export]
    BY <2>1 DEF ProbesInv, ProbesShape
  <2>4. hist' = [runs |-> hist.runs, planned |-> hist.planned]
    BY <2>1, ProbesKeptHist
  <2>5. db' = [range |-> db.range, cap |-> db.cap, consent |-> FALSE, events |-> db.events,
               flows |-> db.flows, raw |-> db.raw, evidence |-> db.evidence]
    BY <2>1 DEF ProbesInv, ProbesShape
  <2>6. ProbesCapture'
    BY <2>1, <2>5 DEF ProbesInv, ProbesCapture
  <2>7. proc.probe = [at |-> proc.probe.at, n |-> proc.probe.n, flow |-> proc.probe.flow]
    BY DEF ProbesInv, ProbesShape
  <2> QED
    BY <2>3, <2>4, <2>5, <2>6, <2>7, ProbesProbe
<1> QED
  BY <1>1, <1>2, <1>3, <1>4, <1>5, <1>7, <1>8, <1>9, <1>10, <1>11, <1>12, <1>13, <1>14, <1>15 DEF Probes!Next

ProbesOf(seed, status) == {e.host : e \in {e \in db.events : e.seed = seed /\ e.status = status}}

LEMMA ProbesOfSeed ==
  ASSUME ProbesInv, NEW seed \in Seeds, NEW A, A = ProbesOf(seed, "attempted"), NEW K, K = ProbesOf(seed, "skipped")
  PROVE  /\ A \cap K = {} /\ Cardinality(A) <= db.cap
         /\ seed \in hist.planned => A \cup K = Probes!HostsOf(db.range)
<1> USE DEF ProbesOf
<1>1. CASE db.events = {}
  <2>1. A = {} /\ K = {} /\ Cardinality(A) = 0
    BY <1>1, FS_EmptySet
  <2>2. seed \in hist.planned => Probes!HostsOf(db.range) = {}
    BY <1>1 DEF ProbesInv, ProbesPlan, ProbesRecorded
  <2>3. db.cap \in Nat
    BY DEF ProbesInv, ProbesEvents
  <2>4. Cardinality(A) <= db.cap
    BY <2>1, <2>3
  <2> QED
    BY <2>1, <2>2, <2>4
<1>2. CASE db.events # {}
  <2>1. PICK m \in Nat : /\ Probes!HostsOf(db.range) = 1 .. m /\ DOMAIN ProbesOrder(seed) = 1 .. m
                        /\ ProbesOrder(seed) \in [1 .. m -> 1 .. m]
                        /\ \A i, j \in 1 .. m : ProbesOrder(seed)[i] = ProbesOrder(seed)[j] => i = j
    BY <1>2, ProbesOrders DEF ProbesInv, ProbesEvents
  <2>2. \A h \in A : \E i \in 1 .. m : ProbesOrder(seed)[i] = h /\ i <= db.cap
    BY <2>1 DEF ProbesInv, ProbesEvents, ProbesPlaced
  <2>3. \A h \in K : \E i \in 1 .. m : ProbesOrder(seed)[i] = h /\ db.cap < i
    BY <2>1 DEF ProbesInv, ProbesEvents, ProbesPlaced
  <2>4. db.cap \in Nat
    BY DEF ProbesInv, ProbesEvents
  <2>5. A \cap K = {}
    <3> SUFFICES ASSUME NEW h \in A, h \in K PROVE FALSE
      OBVIOUS
    <3>1. PICK i \in 1 .. m : ProbesOrder(seed)[i] = h /\ i <= db.cap
      BY <2>2
    <3>2. PICK j \in 1 .. m : ProbesOrder(seed)[j] = h /\ db.cap < j
      BY <2>3
    <3>3. i = j
      BY <2>1, <3>1, <3>2
    <3> QED
      BY <2>4, <3>1, <3>2, <3>3
  <2>6. Cardinality(A) <= db.cap
    <3>1. PICK n \in Nat : n = db.cap
      BY <2>4
    <3>2. IsFiniteSet(1 .. n) /\ Cardinality(1 .. n) = n
      BY FS_Interval
    <3> DEFINE place == [h \in A |-> CHOOSE i \in 1 .. m : ProbesOrder(seed)[i] = h /\ i <= db.cap]
    <3>3. \A h \in A : place[h] \in 1 .. m /\ ProbesOrder(seed)[place[h]] = h /\ place[h] <= db.cap
      BY <2>2
    <3>4. place \in [A -> 1 .. n]
      <4>1. \A h \in A : place[h] \in 1 .. n
        <5> HIDE DEF place
        <5> QED
          BY <3>1, <3>3
      <4> QED
        BY <4>1
    <3>5. \A g, h \in A : place[g] = place[h] => g = h
      BY <3>3
    <3>6. place \in Injection(A, 1 .. n)
      BY <3>4, <3>5 DEF Injection, IsInjective
    <3> HIDE DEF place
    <3>7. Cardinality(A) <= Cardinality(1 .. n)
      BY <3>2, <3>6, FS_Injection
    <3> QED
      BY <3>1, <3>2, <3>7
  <2>7. ASSUME seed \in hist.planned PROVE A \cup K = Probes!HostsOf(db.range)
    <3>1. A \subseteq Probes!HostsOf(db.range) /\ K \subseteq Probes!HostsOf(db.range)
      BY DEF ProbesInv, ProbesEvents
    <3>2. ASSUME NEW h \in Probes!HostsOf(db.range) PROVE h \in A \cup K
      <4>1. PICK e \in db.events : e.host = h /\ e.seed = seed
        BY <2>7, <3>2 DEF ProbesInv, ProbesPlan, ProbesRecorded
      <4>2. e.status \in {"attempted", "skipped"}
        BY DEF ProbesInv, ProbesEvents
      <4> QED
        BY <4>1, <4>2
    <3> QED
      BY <3>1, <3>2
  <2> QED
    BY <2>5, <2>6, <2>7
<1> QED
  BY <1>1, <1>2

LEMMA ProbesHold == ASSUME ProbesInv PROVE Probes!RangeIsAccounted /\ Probes!BoundFlowIsWhole
<1> DEFINE All == {e.host : e \in db.events}
<1>1. \A seed \in Seeds :
        /\ ProbesOf(seed, "attempted") \cap ProbesOf(seed, "skipped") = {}
        /\ Cardinality(ProbesOf(seed, "attempted")) <= db.cap
        /\ seed \in hist.planned => ProbesOf(seed, "attempted") \cup ProbesOf(seed, "skipped") = Probes!HostsOf(db.range)
  BY ProbesOfSeed
<1>2. Cardinality(All) <= MaxRange
  <2>1. CASE db.events = {}
    <3>1. All = {}
      BY <2>1
    <3> HIDE DEF All
    <3> QED
      BY <3>1, FS_EmptySet, ProbesAssumption
  <2>2. CASE db.events # {}
    <3>1. PICK m \in Nat : /\ Probes!HostsOf(db.range) = 1 .. m /\ IsFiniteSet(Probes!HostsOf(db.range))
                          /\ Cardinality(Probes!HostsOf(db.range)) = m /\ m <= MaxRange
      BY <2>2, ProbesHosts DEF ProbesInv, ProbesEvents
    <3>2. All \subseteq Probes!HostsOf(db.range)
      BY DEF ProbesInv, ProbesEvents
    <3> HIDE DEF All
    <3>3. Cardinality(All) <= m /\ Cardinality(All) \in Nat
      BY <3>1, <3>2, FS_Subset, FS_CardinalityType
    <3> QED
      BY <3>1, <3>3, ProbesAssumption
  <2> QED
    BY <2>1, <2>2
<1>3. Probes!RangeIsAccounted
  BY <1>1, <1>2, ProbesCardinality DEF Probes!RangeIsAccounted, ProbesOf
<1>10. Probes!BoundFlowIsWhole
  BY DEF ProbesInv, ProbesCapture, Probes!BoundFlowIsWhole
<1> QED
  BY <1>3, <1>10

LEMMA ProbesPart == SuiteSpec => [](part = "probes" => ProbesInv)
<1>1. SuiteInit => (part = "probes" => ProbesInv)
  BY ProbesInit DEF SuiteInit
<1>2. (part = "probes" => ProbesInv) /\ [SuiteNext]_suiteVars => (part = "probes" => ProbesInv)'
  <2> SUFFICES ASSUME part = "probes", ProbesInv, [SuiteNext]_suiteVars PROVE ProbesInv'
    BY DEF SuiteNext, suiteVars
  <2>1. [Probes!Next]_(Probes!vars)
    BY DEF SuiteNext, suiteVars, state, Probes!vars
  <2> QED
    BY <2>1, ProbesStep
<1> QED
  BY <1>1, <1>2, PTL DEF SuiteSpec

\* v3 targets: the plans of a range that have one seed account for its hosts within
\* the cap, however often they are broken off, and a bound flow has both raw parts;
\* for addresses of any width, any limit, caps and orders.
THEOREM ProbesAreAlwaysAccounted == SuiteSpec => []ProbesAreAccounted
<1>1. (part = "probes" => ProbesInv) => ProbesAreAccounted
  BY ProbesHold DEF ProbesAreAccounted
<1> QED
  BY <1>1, ProbesPart, PTL

-----------------------------------------------------------------------------
(* EvidenceBundles *)

BundlesDigests == [run : Scans, flow : BOOLEAN, output : BOOLEAN, closed : BOOLEAN]
BundlesRow == [scan : Scans, digest : BundlesDigests, prev : Nat]
BundlesAsm == [at : {"idle", "read", "look", "insert"}, flow : BOOLEAN, close : BOOLEAN, prev : Nat]

BundlesTyped ==
  /\ db = [http |-> db.http, lined |-> db.lined, linked |-> db.linked, live |-> db.live, rows |-> db.rows]
  /\ db.http \in BOOLEAN /\ db.rows \in Seq(BundlesRow)
  /\ proc = [asm |-> proc.asm, reader |-> proc.reader]
  /\ proc.asm \in [Scans -> BundlesAsm]
  /\ proc.reader = [at |-> proc.reader.at, ask |-> proc.reader.ask, row |-> proc.reader.row, dead |-> proc.reader.dead]
  /\ hist = [made |-> hist.made, builds |-> hist.builds, got |-> hist.got]
  /\ DOMAIN hist.made = Scans

\* What a bundle of a scan is, when a flow was or was not there: the observation
\* does not change, and what is missing decides whether it is closed.
BundlesComplete(s, flow) == Bundles!Missing(s, flow) = {}
BundlesDigest(s, flow) == Bundles!Payload(s, flow, BundlesComplete(s, flow))

BundlesOf(s) == {i \in DOMAIN db.rows : db.rows[i].scan = s}

\* Once a flow is linked the scan's bundles have it.
BundlesRows ==
  /\ \A i \in DOMAIN db.rows :
       /\ db.rows[i].digest = BundlesDigest(db.rows[i].scan, db.rows[i].digest.flow)
       /\ db.rows[i].digest.flow => db.rows[i].scan \in db.linked
  /\ \A i, j \in DOMAIN db.rows :
       i <= j /\ db.rows[i].scan = db.rows[j].scan /\ db.rows[i].digest.flow => db.rows[j].digest.flow

BundlesWork(s) ==
  /\ proc.asm[s].flow => s \in db.linked
  /\ proc.asm[s].at # "idle" => \A i \in BundlesOf(s) : db.rows[i].digest.flow => proc.asm[s].flow
  /\ proc.asm[s].at = "read" /\ ~proc.asm[s].close => ~BundlesComplete(s, proc.asm[s].flow)
  /\ proc.asm[s].at \in {"look", "insert"} => (proc.asm[s].close <=> BundlesComplete(s, proc.asm[s].flow))

\* The last row of a scan is what its last assembly returned.
BundlesLast(s) ==
  \E i \in BundlesOf(s) : db.rows[i].digest = hist.made[s].digest /\ \A j \in BundlesOf(s) : j <= i

BundlesMade(s) == hist.made[s] # Bundles!NoBundle \/ BundlesOf(s) # {} => BundlesLast(s)

BundlesRead ==
  /\ proc.reader.at # "idle" => proc.reader.dead \cap db.live = {}
  /\ Bundles!ResolvedEvidenceStands

BundlesInv ==
  /\ BundlesTyped /\ BundlesRows /\ BundlesRead
  /\ \A s \in Scans : BundlesWork(s) /\ BundlesMade(s)

LEMMA BundlesInit == ASSUME Bundles!Init PROVE BundlesInv
<1>1. PICK http \in BOOLEAN, lined \in SUBSET Scans :
        db = [http |-> http, lined |-> lined, linked |-> {}, live |-> Scans, rows |-> <<>>]
  BY DEF Bundles!Init
<1>2. proc = [asm |-> [s \in Scans |-> Bundles!Idle], reader |-> Bundles!Asleep]
      /\ hist = [made |-> [s \in Scans |-> Bundles!NoBundle], builds |-> 0, got |-> Bundles!NoBundle]
  BY DEF Bundles!Init
<1>3. Bundles!Idle \in BundlesAsm
  BY DEF Bundles!Idle, BundlesAsm
<1>4. [s \in Scans |-> Bundles!Idle] \in [Scans -> BundlesAsm]
  BY <1>3
<1>5. BundlesTyped
  BY <1>1, <1>2, <1>4 DEF BundlesTyped, Bundles!Asleep
<1>6. BundlesRows
  BY <1>1 DEF BundlesRows
<1>7. BundlesRead
  BY <1>2 DEF BundlesRead, Bundles!Asleep, Bundles!ResolvedEvidenceStands
<1>8. ASSUME NEW s \in Scans PROVE BundlesWork(s) /\ BundlesMade(s)
  BY <1>1, <1>2 DEF BundlesWork, BundlesMade, BundlesOf, Bundles!Idle
<1> QED
  BY <1>5, <1>6, <1>7, <1>8 DEF BundlesInv

\* The observation stays.
LEMMA BundlesSame ==
  ASSUME db'.http = db.http, db'.lined = db.lined
  PROVE  \A s, f : BundlesComplete(s, f)' = BundlesComplete(s, f) /\ BundlesDigest(s, f)' = BundlesDigest(s, f)
<1>1. \A s, f : Bundles!Missing(s, f)' = Bundles!Missing(s, f)
  BY DEF Bundles!Missing, Bundles!Profile, Bundles!Reproducible, Bundles!Cited
<1> QED
  BY <1>1 DEF BundlesComplete, BundlesDigest, Bundles!Payload, Bundles!Cited, Bundles!Provenance

LEMMA BundlesDigestFact ==
  ASSUME BundlesInv, NEW s \in Scans, NEW f \in BOOLEAN
  PROVE  BundlesDigest(s, f) \in BundlesDigests /\ BundlesDigest(s, f).run = s /\ BundlesDigest(s, f).flow = f
         /\ BundlesDigest(s, f).closed = BundlesComplete(s, f)
<1>1. PICK c \in BOOLEAN : c = BundlesComplete(s, f)
  BY DEF BundlesComplete
<1>2. PICK o \in BOOLEAN : o = Bundles!Cited(s)
  <2>1. Bundles!Cited(s) \in BOOLEAN
    BY DEF Bundles!Cited
  <2> QED
    BY <2>1, Zenon
<1>3. BundlesDigest(s, f) = [run |-> s, flow |-> f, output |-> o, closed |-> c]
  BY <1>1, <1>2 DEF BundlesDigest, Bundles!Payload, Bundles!Provenance
<1> QED
  BY <1>1, <1>3 DEF BundlesDigests

LEMMA BundlesRowFact ==
  ASSUME BundlesInv, NEW i \in DOMAIN db.rows
  PROVE  /\ db.rows[i] \in BundlesRow /\ db.rows[i].scan \in Scans /\ db.rows[i].digest.flow \in BOOLEAN
         /\ i \in Nat /\ i <= Len(db.rows) /\ db.rows[i].digest.run = db.rows[i].scan
<1>1. db.rows \in Seq(BundlesRow)
  BY DEF BundlesInv, BundlesTyped
<1>2. db.rows[i] \in BundlesRow /\ i \in Nat /\ i <= Len(db.rows)
  BY <1>1
<1>3. db.rows[i].scan \in Scans /\ db.rows[i].digest.flow \in BOOLEAN
  BY <1>2 DEF BundlesRow, BundlesDigests
<1>4. db.rows[i].digest = BundlesDigest(db.rows[i].scan, db.rows[i].digest.flow)
  BY DEF BundlesInv, BundlesRows
<1>5. db.rows[i].digest.run = db.rows[i].scan
  BY <1>3, <1>4, BundlesDigestFact
<1> QED
  BY <1>2, <1>3, <1>5

\* An assembler moves; nothing else does but what it returns.
LEMMA BundlesMoves ==
  ASSUME BundlesInv, NEW s \in Scans, NEW a \in BundlesAsm, UNCHANGED db,
         proc' = [proc EXCEPT !.asm[s] = a],
         NEW m, NEW b, hist' = [made |-> m, builds |-> b, got |-> hist.got], DOMAIN m = Scans,
         \A t \in Scans \ {s} : m[t] = hist.made[t],
         m[s] = hist.made[s] \/ (\E i \in BundlesOf(s) : db.rows[i].digest = m[s].digest /\ \A j \in BundlesOf(s) : j <= i),
         a.flow => s \in db.linked,
         a.at # "idle" => \A i \in BundlesOf(s) : db.rows[i].digest.flow => a.flow,
         a.at = "read" /\ ~a.close => ~BundlesComplete(s, a.flow),
         a.at \in {"look", "insert"} => (a.close <=> BundlesComplete(s, a.flow))
  PROVE  BundlesInv'
<1>1. proc'.asm = [proc.asm EXCEPT ![s] = a] /\ proc'.reader = proc.reader
      /\ proc' = [asm |-> proc'.asm, reader |-> proc'.reader]
  BY DEF BundlesInv, BundlesTyped
<1>2. proc'.asm \in [Scans -> BundlesAsm] /\ proc'.asm[s] = a /\ \A t \in Scans \ {s} : proc'.asm[t] = proc.asm[t]
  BY <1>1 DEF BundlesInv, BundlesTyped
<1>3. hist'.made = m /\ hist'.got = hist.got
  OBVIOUS
<1>4. BundlesTyped'
  <2>1. proc'.reader = [at |-> proc'.reader.at, ask |-> proc'.reader.ask, row |-> proc'.reader.row, dead |-> proc'.reader.dead]
    BY <1>1 DEF BundlesInv, BundlesTyped
  <2>2. hist' = [made |-> hist'.made, builds |-> hist'.builds, got |-> hist'.got] /\ DOMAIN hist'.made = Scans
    OBVIOUS
  <2> QED
    BY <1>1, <1>2, <2>1, <2>2 DEF BundlesInv, BundlesTyped
<1>5. \A t : BundlesOf(t)' = BundlesOf(t)
  BY DEF BundlesOf
<1>6. \A t, f : BundlesComplete(t, f)' = BundlesComplete(t, f) /\ BundlesDigest(t, f)' = BundlesDigest(t, f)
  BY BundlesSame
<1>7. BundlesRows'
  BY <1>6 DEF BundlesInv, BundlesRows
<1>8. BundlesRead'
  BY <1>1, <1>3 DEF BundlesInv, BundlesRead, Bundles!ResolvedEvidenceStands
<1>9. ASSUME NEW t \in Scans PROVE BundlesWork(t)'
  <2>1. CASE t = s
    BY <1>2, <1>5, <1>6, <2>1 DEF BundlesWork
  <2>2. CASE t # s
    BY <1>2, <1>5, <1>6, <2>2 DEF BundlesInv, BundlesWork
  <2> QED
    BY <2>1, <2>2
<1>10. ASSUME NEW t \in Scans PROVE BundlesMade(t)'
  <2>1. CASE m[t] = hist.made[t]
    BY <1>3, <1>5, <2>1 DEF BundlesInv, BundlesMade, BundlesLast
  <2>2. CASE m[t] # hist.made[t]
    <3>1. t = s
      BY <2>2
    <3> QED
      BY <1>3, <1>5, <2>2, <3>1 DEF BundlesMade, BundlesLast
  <2> QED
    BY <2>1, <2>2
<1> QED
  BY <1>4, <1>7, <1>8, <1>9, <1>10 DEF BundlesInv

LEMMA BundlesAsmFact ==
  ASSUME BundlesInv, NEW s \in Scans
  PROVE  proc.asm[s] \in BundlesAsm
         /\ proc.asm[s] = [at |-> proc.asm[s].at, flow |-> proc.asm[s].flow, close |-> proc.asm[s].close, prev |-> proc.asm[s].prev]
         /\ proc.asm[s].flow \in BOOLEAN /\ proc.asm[s].close \in BOOLEAN /\ proc.asm[s].prev \in Nat
  BY DEF BundlesInv, BundlesTyped, BundlesAsm

LEMMA BundlesGather == ASSUME BundlesInv, NEW s \in Scans, Bundles!Gather(s) PROVE BundlesInv'
<1>1. PICK f \in BOOLEAN : f = (s \in db.linked)
  <2>1. (s \in db.linked) \in BOOLEAN
    OBVIOUS
  <2> QED
    BY <2>1, Zenon
<1> DEFINE a == [at |-> "read", flow |-> f, close |-> TRUE, prev |-> 0]
<1>2. proc' = [proc EXCEPT !.asm[s] = a] /\ UNCHANGED db /\ hist' = [hist EXCEPT !.builds = @ + 1]
  BY <1>1 DEF Bundles!Gather, Bundles!HasFlow
<1>3. hist' = [made |-> hist.made, builds |-> hist.builds + 1, got |-> hist.got] /\ DOMAIN hist.made = Scans
  BY <1>2 DEF BundlesInv, BundlesTyped
<1>4. a \in BundlesAsm /\ a.flow = f /\ a.close = TRUE /\ a.at = "read"
  BY DEF BundlesAsm
<1>5. \A i \in BundlesOf(s) : db.rows[i].digest.flow => f
  BY <1>1 DEF BundlesInv, BundlesRows, BundlesOf
<1> HIDE DEF a
<1> QED
  BY <1>1, <1>2, <1>3, <1>4, <1>5, BundlesMoves, ZenonT(40)

\* A move that keeps what was gathered.
LEMMA BundlesGoes ==
  ASSUME BundlesInv, NEW s \in Scans, NEW p \in {"idle", "read", "look", "insert"}, NEW c \in BOOLEAN, NEW n \in Nat,
         UNCHANGED db, proc.asm[s].at # "idle",
         proc' = [proc EXCEPT !.asm[s] = [at |-> p, flow |-> proc.asm[s].flow, close |-> c, prev |-> n]],
         NEW m, NEW b, hist' = [made |-> m, builds |-> b, got |-> hist.got], DOMAIN m = Scans,
         \A t \in Scans \ {s} : m[t] = hist.made[t],
         m[s] = hist.made[s] \/ (\E i \in BundlesOf(s) : db.rows[i].digest = m[s].digest /\ \A j \in BundlesOf(s) : j <= i),
         p = "read" /\ ~c => ~BundlesComplete(s, proc.asm[s].flow),
         p \in {"look", "insert"} => (c <=> BundlesComplete(s, proc.asm[s].flow))
  PROVE  BundlesInv'
<1> DEFINE a == [at |-> p, flow |-> proc.asm[s].flow, close |-> c, prev |-> n]
<1>1. a \in BundlesAsm /\ a.flow = proc.asm[s].flow /\ a.close = c /\ a.at = p
  BY BundlesAsmFact DEF BundlesAsm
<1>2. /\ proc.asm[s].flow => s \in db.linked
      /\ \A i \in BundlesOf(s) : db.rows[i].digest.flow => proc.asm[s].flow
  BY DEF BundlesInv, BundlesWork
<1>3. proc' = [proc EXCEPT !.asm[s] = a]
  OBVIOUS
<1> HIDE DEF a
<1> QED
  BY <1>1, <1>2, <1>3, BundlesMoves

LEMMA BundlesGoto ==
  ASSUME BundlesInv, NEW s \in Scans, NEW p
  PROVE  Bundles!Goto(s, p) = [proc EXCEPT !.asm[s] = [at |-> p, flow |-> proc.asm[s].flow, close |-> proc.asm[s].close,
                                               prev |-> proc.asm[s].prev]]
<1>1. proc.asm[s] = [at |-> proc.asm[s].at, flow |-> proc.asm[s].flow, close |-> proc.asm[s].close, prev |-> proc.asm[s].prev]
  BY BundlesAsmFact
<1>2. [proc.asm[s] EXCEPT !.at = p] = [at |-> p, flow |-> proc.asm[s].flow, close |-> proc.asm[s].close, prev |-> proc.asm[s].prev]
  BY <1>1
<1>3. Bundles!Goto(s, p) = [proc EXCEPT !.asm[s] = [proc.asm[s] EXCEPT !.at = p]]
  BY DEF Bundles!Goto, BundlesInv, BundlesTyped
<1> QED
  BY <1>2, <1>3

LEMMA BundlesKeptHist ==
  ASSUME BundlesInv, UNCHANGED hist
  PROVE  hist' = [made |-> hist.made, builds |-> hist.builds, got |-> hist.got] /\ DOMAIN hist.made = Scans
  BY DEF BundlesInv, BundlesTyped

LEMMA BundlesReads == ASSUME BundlesInv, NEW s \in Scans, Bundles!Read(s) PROVE BundlesInv'
<1> DEFINE a == proc.asm[s]
<1>1. a.at = "read" /\ UNCHANGED <<db, hist>>
  BY DEF Bundles!Read, Bundles!At
<1>2. a.flow \in BOOLEAN /\ a.close \in BOOLEAN /\ a.prev \in Nat
  BY BundlesAsmFact
<1>3. CASE proc' = Bundles!Goto(s, "idle")
  BY <1>1, <1>2, <1>3, BundlesGoto, BundlesKeptHist, BundlesGoes
<1>4. CASE proc' = [proc EXCEPT !.asm[s].close = FALSE] /\ Bundles!Missing(s, a.flow) # {}
  <2>1. a = [at |-> "read", flow |-> a.flow, close |-> a.close, prev |-> a.prev]
    BY <1>1, BundlesAsmFact
  <2>2. [a EXCEPT !.close = FALSE] = [at |-> "read", flow |-> a.flow, close |-> FALSE, prev |-> a.prev]
    <3>1. ASSUME NEW b, NEW f, NEW c, NEW n, NEW v, b = [at |-> "read", flow |-> f, close |-> c, prev |-> n]
          PROVE  [b EXCEPT !.close = v] = [at |-> "read", flow |-> f, close |-> v, prev |-> n]
      BY <3>1
    <3> HIDE DEF a
    <3>2. \A v : [a EXCEPT !.close = v] = [at |-> "read", flow |-> a.flow, close |-> v, prev |-> a.prev]
      BY <2>1, <3>1
    <3> QED
      BY <3>2, Zenon
  <2>3. proc' = [proc EXCEPT !.asm[s] = [a EXCEPT !.close = FALSE]]
    BY <1>4 DEF BundlesInv, BundlesTyped
  <2>4. proc' = [proc EXCEPT !.asm[s] = [at |-> "read", flow |-> a.flow, close |-> FALSE, prev |-> a.prev]]
    BY <2>2, <2>3
  <2>5. ~BundlesComplete(s, a.flow)
    BY <1>4 DEF BundlesComplete
  <2> QED
    BY <1>1, <1>2, <2>4, <2>5, BundlesKeptHist, BundlesGoes
<1>5. CASE proc' = Bundles!Goto(s, "look") /\ ~(a.close /\ Bundles!Missing(s, a.flow) # {})
  <2>1. a.close <=> BundlesComplete(s, a.flow)
    BY <1>1, <1>5 DEF BundlesInv, BundlesWork, BundlesComplete
  <2> QED
    BY <1>1, <1>2, <1>5, <2>1, BundlesGoto, BundlesKeptHist, BundlesGoes
<1> QED
  BY <1>3, <1>4, <1>5 DEF Bundles!Read

\* The bundle an assembler carries.
LEMMA BundlesCarried ==
  ASSUME BundlesInv, NEW s \in Scans, proc.asm[s].at \in {"look", "insert"}
  PROVE  Bundles!Bundle(s) = [scan |-> s, digest |-> BundlesDigest(s, proc.asm[s].flow)]
<1>1. PICK c \in BOOLEAN : c = proc.asm[s].close
  BY BundlesAsmFact
<1>2. c = BundlesComplete(s, proc.asm[s].flow)
  BY <1>1 DEF BundlesInv, BundlesWork, BundlesComplete
<1> QED
  BY <1>1, <1>2 DEF Bundles!Bundle, BundlesDigest

LEMMA BundlesReturned ==
  ASSUME BundlesInv, NEW s \in Scans, Bundles!Returned(s)
  PROVE  /\ hist' = [made |-> [hist.made EXCEPT ![s] = Bundles!Bundle(s)], builds |-> hist.builds, got |-> hist.got]
         /\ DOMAIN [hist.made EXCEPT ![s] = Bundles!Bundle(s)] = Scans
         /\ [hist.made EXCEPT ![s] = Bundles!Bundle(s)][s] = Bundles!Bundle(s)
         /\ \A t \in Scans \ {s} : [hist.made EXCEPT ![s] = Bundles!Bundle(s)][t] = hist.made[t]
<1>1. DOMAIN hist.made = Scans
  BY DEF BundlesInv, BundlesTyped
<1>2. hist' = [made |-> [hist.made EXCEPT ![s] = Bundles!Bundle(s)], builds |-> hist.builds, got |-> hist.got]
  BY DEF Bundles!Returned, BundlesInv, BundlesTyped
<1> QED
  BY <1>1, <1>2

LEMMA BundlesLooks == ASSUME BundlesInv, NEW s \in Scans, Bundles!LookUp(s) PROVE BundlesInv'
<1> DEFINE f == proc.asm[s].flow
           same == {i \in DOMAIN db.rows : db.rows[i].digest = Bundles!Bundle(s).digest}
<1>1. proc.asm[s].at = "look" /\ UNCHANGED db
  BY DEF Bundles!LookUp, Bundles!At
<1>2. f \in BOOLEAN /\ proc.asm[s].close \in BOOLEAN /\ proc.asm[s].prev \in Nat
  BY BundlesAsmFact
<1>3. Bundles!Bundle(s).digest = BundlesDigest(s, f)
  BY <1>1, BundlesCarried
<1>4. CASE same # {}
  <2>1. proc' = Bundles!Goto(s, "idle") /\ Bundles!Returned(s)
    BY <1>4 DEF Bundles!LookUp
  <2>2. PICK i \in DOMAIN db.rows : db.rows[i].digest = BundlesDigest(s, f)
    BY <1>3, <1>4
  <2>3. db.rows[i].scan = s /\ db.rows[i].digest.flow = f
    BY <1>2, <2>2, BundlesRowFact, BundlesDigestFact
  <2>4. i \in BundlesOf(s)
    BY <2>3 DEF BundlesOf
  <2>5. PICK k \in BundlesOf(s) : \A j \in BundlesOf(s) : j <= k
    BY <2>4 DEF BundlesInv, BundlesMade, BundlesLast
  <2>6. k \in DOMAIN db.rows /\ db.rows[k].scan = s /\ i <= k
    BY <2>4, <2>5 DEF BundlesOf
  <2>7. f => db.rows[k].digest.flow
    BY <2>3, <2>6 DEF BundlesInv, BundlesRows
  <2>8. db.rows[k].digest.flow => f
    BY <1>1, <2>5 DEF BundlesInv, BundlesWork
  <2>9. db.rows[k].digest.flow = f
    BY <1>2, <2>6, <2>7, <2>8, BundlesRowFact
  <2>10. db.rows[k].digest = BundlesDigest(s, f)
    BY <2>6, <2>9 DEF BundlesInv, BundlesRows
  <2>11. PICK m : m = [hist.made EXCEPT ![s] = Bundles!Bundle(s)]
    OBVIOUS
  <2>12. /\ hist' = [made |-> m, builds |-> hist.builds, got |-> hist.got] /\ DOMAIN m = Scans
         /\ \A t \in Scans \ {s} : m[t] = hist.made[t]
         /\ m[s].digest = BundlesDigest(s, f)
    BY <1>3, <2>1, <2>11, BundlesReturned
  <2>13. \E n \in BundlesOf(s) : db.rows[n].digest = m[s].digest /\ \A j \in BundlesOf(s) : j <= n
    BY <2>5, <2>10, <2>12
  <2> QED
    BY <1>1, <1>2, <2>1, <2>12, <2>13, BundlesGoto, BundlesGoes
<1>5. CASE same = {}
  <2>1. proc' = [proc EXCEPT !.asm[s].at = "insert", !.asm[s].prev = Len(db.rows)] /\ UNCHANGED hist
    BY <1>5 DEF Bundles!LookUp
  <2>2. Len(db.rows) \in Nat
    BY DEF BundlesInv, BundlesTyped
  <2>3. proc' = [proc EXCEPT !.asm[s] = [at |-> "insert", flow |-> f, close |-> proc.asm[s].close, prev |-> Len(db.rows)]]
    <3>1. PICK q : q = [proc EXCEPT !.asm[s].at = "insert"]
      OBVIOUS
    <3>2. q = [proc EXCEPT !.asm[s] = [at |-> "insert", flow |-> f, close |-> proc.asm[s].close, prev |-> proc.asm[s].prev]]
      BY <3>1, BundlesGoto DEF Bundles!Goto
    <3>3. q.asm[s] = [at |-> "insert", flow |-> f, close |-> proc.asm[s].close, prev |-> proc.asm[s].prev]
          /\ q = [asm |-> q.asm, reader |-> proc.reader] /\ q.asm = [proc.asm EXCEPT ![s] = q.asm[s]]
          /\ DOMAIN q.asm = Scans
      BY <3>2 DEF BundlesInv, BundlesTyped
    <3>4. [q.asm[s] EXCEPT !.prev = Len(db.rows)] = [at |-> "insert", flow |-> f, close |-> proc.asm[s].close, prev |-> Len(db.rows)]
      BY <3>3
    <3>5. proc' = [q EXCEPT !.asm[s].prev = Len(db.rows)]
      BY <2>1, <3>1
    <3>6. proc' = [asm |-> [q.asm EXCEPT ![s] = [q.asm[s] EXCEPT !.prev = Len(db.rows)]], reader |-> proc.reader]
      BY <3>3, <3>5
    <3>7. [q.asm EXCEPT ![s] = [q.asm[s] EXCEPT !.prev = Len(db.rows)]]
          = [proc.asm EXCEPT ![s] = [at |-> "insert", flow |-> f, close |-> proc.asm[s].close, prev |-> Len(db.rows)]]
      BY <3>3, <3>4
    <3>8. PICK A : A = [proc.asm EXCEPT ![s] = [at |-> "insert", flow |-> f, close |-> proc.asm[s].close, prev |-> Len(db.rows)]]
      OBVIOUS
    <3>9. proc' = [asm |-> A, reader |-> proc.reader] /\ proc = [asm |-> proc.asm, reader |-> proc.reader]
      BY <3>6, <3>7, <3>8 DEF BundlesInv, BundlesTyped
    <3>10. proc' = [proc EXCEPT !.asm = A]
      BY <3>9
    <3> QED
      BY <3>8, <3>10
  <2>4. proc.asm[s].close <=> BundlesComplete(s, f)
    BY <1>1 DEF BundlesInv, BundlesWork
  <2> QED
    BY <1>1, <1>2, <2>1, <2>2, <2>3, <2>4, BundlesKeptHist, BundlesGoes, ZenonT(40)
<1> QED
  BY <1>4, <1>5

LEMMA BundlesInserts == ASSUME BundlesInv, NEW s \in Scans, Bundles!Insert(s) PROVE BundlesInv'
<1> DEFINE f == proc.asm[s].flow
           d == BundlesDigest(s, f)
           n == Len(db.rows)
<1>1. proc.asm[s].at = "insert" /\ proc' = Bundles!Goto(s, "idle") /\ Bundles!Returned(s)
      /\ db' = [db EXCEPT !.rows = Append(db.rows, [scan |-> s, digest |-> Bundles!Bundle(s).digest, prev |-> proc.asm[s].prev])]
  BY DEF Bundles!Insert, Bundles!At
<1>2. f \in BOOLEAN /\ proc.asm[s].close \in BOOLEAN /\ proc.asm[s].prev \in Nat
  BY BundlesAsmFact
<1>3. Bundles!Bundle(s) = [scan |-> s, digest |-> d]
  BY <1>1, BundlesCarried
<1>4. d \in BundlesDigests /\ d.run = s /\ d.flow = f
  BY <1>2, BundlesDigestFact
<1> HIDE DEF d
<1>5. PICK row : row = [scan |-> s, digest |-> d, prev |-> proc.asm[s].prev]
  OBVIOUS
<1>6. row \in BundlesRow /\ row.scan = s /\ row.digest = d
  BY <1>2, <1>4, <1>5 DEF BundlesRow
<1>7. /\ db' = [http |-> db.http, lined |-> db.lined, linked |-> db.linked, live |-> db.live, rows |-> Append(db.rows, row)]
      /\ db.rows \in Seq(BundlesRow)
  <2>1. Bundles!Bundle(s).digest = d
    BY <1>3
  <2>2. db' = [db EXCEPT !.rows = Append(db.rows, row)]
    BY <1>1, <1>5, <2>1
  <2> QED
    BY <2>2 DEF BundlesInv, BundlesTyped
<1>8. n \in Nat /\ db'.rows \in Seq(BundlesRow) /\ DOMAIN db'.rows = 1 .. n + 1 /\ DOMAIN db.rows = 1 .. n
      /\ (\A i \in 1 .. n : db'.rows[i] = db.rows[i]) /\ db'.rows[n + 1] = row
  BY <1>6, <1>7
<1>9. db'.http = db.http /\ db'.lined = db.lined /\ db'.linked = db.linked /\ db'.live = db.live
  BY <1>7
<1>10. PICK a : a = [at |-> "idle", flow |-> f, close |-> proc.asm[s].close, prev |-> proc.asm[s].prev]
  OBVIOUS
<1>11. a \in BundlesAsm /\ a.at = "idle" /\ a.flow = f
  BY <1>2, <1>10 DEF BundlesAsm
<1>12. proc'.asm = [proc.asm EXCEPT ![s] = a] /\ proc'.reader = proc.reader /\ proc' = [asm |-> proc'.asm, reader |-> proc'.reader]
  BY <1>1, <1>10, BundlesGoto, SMTT(40) DEF BundlesInv, BundlesTyped
<1>13. proc'.asm \in [Scans -> BundlesAsm] /\ proc'.asm[s] = a /\ \A t \in Scans \ {s} : proc'.asm[t] = proc.asm[t]
  BY <1>11, <1>12 DEF BundlesInv, BundlesTyped
<1>14. PICK m : m = [hist.made EXCEPT ![s] = Bundles!Bundle(s)]
  OBVIOUS
<1>15. /\ hist' = [made |-> m, builds |-> hist.builds, got |-> hist.got] /\ DOMAIN m = Scans
       /\ \A t \in Scans \ {s} : m[t] = hist.made[t]
       /\ m[s].digest = d
  BY <1>1, <1>3, <1>14, BundlesReturned
<1>16. hist'.made = m /\ hist'.got = hist.got
  BY <1>15
<1>17. \A t, g : BundlesComplete(t, g)' = BundlesComplete(t, g) /\ BundlesDigest(t, g)' = BundlesDigest(t, g)
  BY <1>9, BundlesSame
<1>18. BundlesOf(s)' = BundlesOf(s) \cup {n + 1} /\ \A t \in Scans \ {s} : BundlesOf(t)' = BundlesOf(t)
  BY <1>6, <1>8 DEF BundlesOf
<1>19. BundlesTyped'
  <2>1. proc'.reader = [at |-> proc'.reader.at, ask |-> proc'.reader.ask, row |-> proc'.reader.row, dead |-> proc'.reader.dead]
    BY <1>12 DEF BundlesInv, BundlesTyped
  <2>2. hist' = [made |-> hist'.made, builds |-> hist'.builds, got |-> hist'.got] /\ DOMAIN hist'.made = Scans
    BY <1>15
  <2>3. db' = [http |-> db'.http, lined |-> db'.lined, linked |-> db'.linked, live |-> db'.live, rows |-> db'.rows]
    BY <1>7
  <2> QED
    BY <1>8, <1>9, <1>12, <1>13, <2>1, <2>2, <2>3 DEF BundlesInv, BundlesTyped
<1>20. BundlesRows'
  <2>1. ASSUME NEW i \in 1 .. n + 1
        PROVE  /\ db'.rows[i].digest = BundlesDigest(db'.rows[i].scan, db'.rows[i].digest.flow)
               /\ db'.rows[i].digest.flow => db'.rows[i].scan \in db.linked
    <3>1. CASE i = n + 1
      <4>1. f => s \in db.linked
        BY DEF BundlesInv, BundlesWork
      <4> QED
        BY <1>4, <1>6, <1>8, <3>1, <4>1 DEF d
    <3>2. CASE i # n + 1
      <4>1. i \in 1 .. n
        BY <1>8, <3>2
      <4> QED
        BY <1>8, <4>1 DEF BundlesInv, BundlesRows
    <3> QED
      BY <3>1, <3>2
  <2>2. ASSUME NEW i \in 1 .. n + 1, NEW j \in 1 .. n + 1, i <= j, db'.rows[i].scan = db'.rows[j].scan, db'.rows[i].digest.flow
        PROVE  db'.rows[j].digest.flow
    <3>1. CASE j = n + 1 /\ i # n + 1
      <4>1. i \in 1 .. n /\ db.rows[i].scan = s /\ db.rows[i].digest.flow
        BY <1>6, <1>8, <2>2, <3>1
      <4>2. i \in BundlesOf(s)
        BY <1>8, <4>1 DEF BundlesOf
      <4>3. f
        BY <1>1, <4>1, <4>2 DEF BundlesInv, BundlesWork
      <4> QED
        BY <1>4, <1>6, <1>8, <3>1, <4>3
    <3>2. CASE j = n + 1 /\ i = n + 1
      BY <2>2, <3>2
    <3>3. CASE j # n + 1
      <4>1. i \in 1 .. n /\ j \in 1 .. n
        BY <1>8, <2>2, <3>3
      <4> QED
        BY <1>8, <2>2, <4>1 DEF BundlesInv, BundlesRows
    <3> QED
      BY <3>1, <3>2, <3>3
  <2> QED
    BY <1>8, <1>9, <1>17, <2>1, <2>2 DEF BundlesRows
<1>21. BundlesRead'
  BY <1>9, <1>12, <1>16 DEF BundlesInv, BundlesRead, Bundles!ResolvedEvidenceStands
<1>22. ASSUME NEW t \in Scans PROVE BundlesWork(t)'
  <2>1. CASE t = s
    <3>1. f => s \in db.linked
      BY DEF BundlesInv, BundlesWork
    <3> QED
      BY <1>9, <1>11, <1>13, <2>1, <3>1 DEF BundlesWork
  <2>2. CASE t # s
    <3>1. proc'.asm[t] = proc.asm[t] /\ BundlesOf(t)' = BundlesOf(t)
      BY <1>13, <1>18, <2>2
    <3>2. \A i \in BundlesOf(t) : db'.rows[i] = db.rows[i]
      BY <1>8 DEF BundlesOf
    <3> QED
      BY <1>9, <1>17, <3>1, <3>2 DEF BundlesInv, BundlesWork
  <2> QED
    BY <2>1, <2>2
<1>23. ASSUME NEW t \in Scans PROVE BundlesMade(t)'
  <2>1. CASE t = s
    <3>1. \A j \in BundlesOf(s)' : j <= n + 1
      BY <1>8 DEF BundlesOf
    <3> QED
      BY <1>6, <1>8, <1>15, <1>16, <1>18, <2>1, <3>1 DEF BundlesMade, BundlesLast
  <2>2. CASE t # s
    <3>1. m[t] = hist.made[t] /\ BundlesOf(t)' = BundlesOf(t)
      BY <1>15, <1>18, <2>2
    <3>2. \A i \in BundlesOf(t) : db'.rows[i] = db.rows[i]
      BY <1>8 DEF BundlesOf
    <3>3. hist.made[t] # Bundles!NoBundle \/ BundlesOf(t) # {} => BundlesLast(t)
      BY DEF BundlesInv, BundlesMade
    <3> QED
      BY <1>16, <3>1, <3>2, <3>3 DEF BundlesMade, BundlesLast
  <2> QED
    BY <2>1, <2>2
<1> QED
  BY <1>19, <1>20, <1>21, <1>22, <1>23 DEF BundlesInv

\* The reader, a new link or a deletion.
LEMMA BundlesBeside ==
  ASSUME BundlesInv, NEW L, NEW V, NEW r, NEW g, V \subseteq db.live, db.linked \subseteq L,
         db' = [http |-> db.http, lined |-> db.lined, linked |-> L, live |-> V, rows |-> db.rows],
         proc' = [asm |-> proc.asm, reader |-> r],
         r = [at |-> r.at, ask |-> r.ask, row |-> r.row, dead |-> r.dead],
         hist' = [made |-> hist.made, builds |-> hist.builds, got |-> g],
         r.at # "idle" => r.dead \cap V = {},
         g \notin {Bundles!NoBundle, Bundles!NotFound} => (g.digest.output => g.scan \notin g.dead)
  PROVE  BundlesInv'
<1>1. /\ db'.http = db.http /\ db'.lined = db.lined /\ db'.linked = L /\ db'.live = V /\ db'.rows = db.rows
      /\ proc'.asm = proc.asm /\ proc'.reader = r /\ hist'.made = hist.made /\ hist'.got = g
  OBVIOUS
<1>2. \A t, f : BundlesComplete(t, f)' = BundlesComplete(t, f) /\ BundlesDigest(t, f)' = BundlesDigest(t, f)
  BY <1>1, BundlesSame
<1>3. \A t : BundlesOf(t)' = BundlesOf(t)
  BY <1>1 DEF BundlesOf
<1>4. BundlesTyped'
  <2>1. hist' = [made |-> hist'.made, builds |-> hist'.builds, got |-> hist'.got]
    OBVIOUS
  <2> QED
    BY <1>1, <2>1 DEF BundlesInv, BundlesTyped
<1>5. BundlesRows'
  BY <1>1, <1>2 DEF BundlesInv, BundlesRows
<1>6. BundlesRead'
  BY <1>1 DEF BundlesRead, Bundles!ResolvedEvidenceStands, Bundles!NotFound, Bundles!NoBundle
<1>7. ASSUME NEW t \in Scans PROVE BundlesWork(t)' /\ BundlesMade(t)'
  BY <1>1, <1>2, <1>3 DEF BundlesInv, BundlesWork, BundlesMade, BundlesLast
<1> QED
  BY <1>4, <1>5, <1>6, <1>7 DEF BundlesInv

LEMMA BundlesFields ==
  ASSUME BundlesInv
  PROVE  /\ db = [http |-> db.http, lined |-> db.lined, linked |-> db.linked, live |-> db.live, rows |-> db.rows]
         /\ proc = [asm |-> proc.asm, reader |-> proc.reader]
         /\ hist = [made |-> hist.made, builds |-> hist.builds, got |-> hist.got]
         /\ proc.reader = [at |-> proc.reader.at, ask |-> proc.reader.ask, row |-> proc.reader.row, dead |-> proc.reader.dead]
         /\ proc.reader.at # "idle" => proc.reader.dead \cap db.live = {}
         /\ hist.got \notin {Bundles!NoBundle, Bundles!NotFound} => (hist.got.digest.output => hist.got.scan \notin hist.got.dead)
  BY DEF BundlesInv, BundlesTyped, BundlesRead, Bundles!ResolvedEvidenceStands

LEMMA BundlesEnded ==
  ASSUME BundlesInv, NEW g, Bundles!Ended(g), g \notin {Bundles!NoBundle, Bundles!NotFound} => (g.digest.output => g.scan \notin g.dead)
  PROVE  BundlesInv'
<1>1. db' = [http |-> db.http, lined |-> db.lined, linked |-> db.linked, live |-> db.live, rows |-> db.rows]
  BY BundlesFields DEF Bundles!Ended
<1>2. proc' = [asm |-> proc.asm, reader |-> Bundles!Asleep]
  BY BundlesFields DEF Bundles!Ended
<1>3. hist' = [made |-> hist.made, builds |-> hist.builds, got |-> g]
  BY BundlesFields DEF Bundles!Ended
<1>4. Bundles!Asleep = [at |-> Bundles!Asleep.at, ask |-> Bundles!Asleep.ask, row |-> Bundles!Asleep.row, dead |-> Bundles!Asleep.dead] /\ Bundles!Asleep.at = "idle"
  BY DEF Bundles!Asleep
<1> QED
  BY <1>1, <1>2, <1>3, <1>4, BundlesBeside

LEMMA BundlesStep == ASSUME BundlesInv, [Bundles!Next]_(Bundles!vars) PROVE BundlesInv'
<1> DEFINE rd == proc.reader
<1>1. CASE UNCHANGED Bundles!vars
  <2>1. db' = db /\ proc' = proc /\ hist' = hist
    BY <1>1 DEF Bundles!vars
  <2> QED
    BY <2>1, BundlesFields, BundlesBeside
<1>2. ASSUME NEW s \in Scans, Bundles!LinkFlow(s) PROVE BundlesInv'
  <2>1. db' = [db EXCEPT !.linked = db.linked \cup {s}] /\ proc' = proc /\ hist' = hist
    BY <1>2 DEF Bundles!LinkFlow
  <2>2. db' = [http |-> db.http, lined |-> db.lined, linked |-> db.linked \cup {s}, live |-> db.live, rows |-> db.rows]
    BY <2>1, BundlesFields
  <2> QED
    BY <2>1, <2>2, BundlesFields, BundlesBeside
<1>3. ASSUME NEW s \in Scans, Bundles!Tombstone(s) PROVE BundlesInv'
  <2>1. db' = [db EXCEPT !.live = db.live \ {s}] /\ proc' = proc /\ hist' = hist
    BY <1>3 DEF Bundles!Tombstone
  <2>2. db' = [http |-> db.http, lined |-> db.lined, linked |-> db.linked, live |-> db.live \ {s}, rows |-> db.rows]
    BY <2>1, BundlesFields
  <2>3. rd.at # "idle" => rd.dead \cap (db.live \ {s}) = {}
    BY BundlesFields
  <2> QED
    BY <2>1, <2>2, <2>3, BundlesFields, BundlesBeside
<1>4. ASSUME NEW s \in Scans, Bundles!Gather(s) PROVE BundlesInv'
  BY <1>4, BundlesGather
<1>5. ASSUME NEW s \in Scans, Bundles!Read(s) PROVE BundlesInv'
  BY <1>5, BundlesReads
<1>6. ASSUME NEW s \in Scans, Bundles!LookUp(s) PROVE BundlesInv'
  BY <1>6, BundlesLooks
<1>7. ASSUME NEW s \in Scans, Bundles!Insert(s) PROVE BundlesInv'
  BY <1>7, BundlesInserts
<1>8. ASSUME NEW ask \in Scans \cup {"any"}, Bundles!Choose(ask) PROVE BundlesInv'
  <2>1. CASE Bundles!Latest(ask) = 0
    BY <1>8, <2>1, BundlesEnded DEF Bundles!Choose
  <2>2. CASE Bundles!Latest(ask) # 0
    <3> DEFINE r == [at |-> IF ask = "any" THEN "read" ELSE "own", ask |-> ask, row |-> Bundles!Latest(ask), dead |-> Scans \ db.live]
    <3>1. proc' = [proc EXCEPT !.reader = r] /\ hist' = [hist EXCEPT !.got = Bundles!NoBundle] /\ UNCHANGED db
      BY <1>8, <2>2 DEF Bundles!Choose
    <3>2. r = [at |-> r.at, ask |-> r.ask, row |-> r.row, dead |-> r.dead] /\ r.dead \cap db.live = {}
      OBVIOUS
    <3> HIDE DEF r
    <3>3. proc' = [asm |-> proc.asm, reader |-> r]
      BY <3>1, BundlesFields
    <3>4. hist' = [made |-> hist.made, builds |-> hist.builds, got |-> Bundles!NoBundle]
      BY <3>1, BundlesFields
    <3> QED
      BY <3>1, <3>2, <3>3, <3>4, BundlesFields, BundlesBeside
  <2> QED
    BY <2>1, <2>2
<1>9. CASE Bundles!Own
  <2>1. CASE Bundles!Available
    <3>1. proc' = [proc EXCEPT !.reader.at = "read"] /\ db' = db /\ hist' = hist /\ rd.at = "own"
      BY <1>9, <2>1 DEF Bundles!Own
    <3> DEFINE r == [at |-> "read", ask |-> rd.ask, row |-> rd.row, dead |-> rd.dead]
    <3>2. [rd EXCEPT !.at = "read"] = r
      BY BundlesFields
    <3>3. proc' = [proc EXCEPT !.reader = [rd EXCEPT !.at = "read"]]
      BY <3>1, BundlesFields
    <3>4. proc' = [asm |-> proc.asm, reader |-> r]
      BY <3>2, <3>3, BundlesFields
    <3>5. r = [at |-> r.at, ask |-> r.ask, row |-> r.row, dead |-> r.dead] /\ r.dead = rd.dead
      OBVIOUS
    <3> HIDE DEF r
    <3> QED
      BY <3>1, <3>4, <3>5, BundlesFields, BundlesBeside
  <2>2. CASE ~Bundles!Available
    BY <1>9, <2>2, BundlesEnded DEF Bundles!Own
  <2> QED
    BY <2>1, <2>2
<1>10. CASE Bundles!Verify
  <2>1. CASE Bundles!Available
    <3> DEFINE g == [scan |-> Bundles!Row.scan, digest |-> Bundles!Row.digest, dead |-> rd.dead]
    <3>1. rd.at = "read" /\ Bundles!Ended(g)
      BY <1>10, <2>1 DEF Bundles!Verify
    <3>2. g.digest = Bundles!Row.digest /\ g.scan = Bundles!Row.scan /\ g.dead = rd.dead
      OBVIOUS
    <3>3. Bundles!Row.digest.output => Bundles!Row.scan \notin rd.dead
      BY <2>1, <3>1, BundlesFields DEF Bundles!Available
    <3> HIDE DEF g
    <3> QED
      BY <3>1, <3>2, <3>3, BundlesEnded
  <2>2. CASE ~Bundles!Available
    BY <1>10, <2>2, BundlesEnded DEF Bundles!Verify
  <2> QED
    BY <2>1, <2>2
<1> QED
  BY <1>1, <1>2, <1>3, <1>4, <1>5, <1>6, <1>7, <1>8, <1>9, <1>10 DEF Bundles!Next

LEMMA BundlesHold == ASSUME BundlesInv PROVE Bundles!AssembledResolves /\ Bundles!ResolvedEvidenceStands
<1>1. ASSUME NEW s \in Scans, hist.made[s] # Bundles!NoBundle
      PROVE  Bundles!Latest(s) # 0 /\ db.rows[Bundles!Latest(s)].digest.closed = hist.made[s].digest.closed
  <2>1. PICK i \in BundlesOf(s) : db.rows[i].digest = hist.made[s].digest /\ \A j \in BundlesOf(s) : j <= i
    BY <1>1 DEF BundlesInv, BundlesMade, BundlesLast
  <2>2. {k \in DOMAIN db.rows : s = "any" \/ db.rows[k].scan = s} = BundlesOf(s)
    BY ScansAreNamed DEF BundlesOf
  <2>3. \A k \in BundlesOf(s) : k \in Nat /\ k # 0
    BY DEF BundlesOf, BundlesInv, BundlesTyped
  <2>4. \A k \in BundlesOf(s) : (\A j \in BundlesOf(s) : j <= k) => k = i
    BY <2>1, <2>3
  <2>5. Bundles!Latest(s) = CHOOSE k \in BundlesOf(s) : \A j \in BundlesOf(s) : j <= k
    BY <2>1, <2>2 DEF Bundles!Latest
  <2>6. Bundles!Latest(s) = i
    BY <2>1, <2>4, <2>5
  <2> QED
    BY <2>1, <2>3, <2>6
<1>2. Bundles!AssembledResolves
  BY <1>1 DEF Bundles!AssembledResolves
<1> QED
  BY <1>2 DEF BundlesInv, BundlesRead

LEMMA BundlesPart == SuiteSpec => [](part = "bundles" => BundlesInv)
<1>1. SuiteInit => (part = "bundles" => BundlesInv)
  BY BundlesInit DEF SuiteInit
<1>2. (part = "bundles" => BundlesInv) /\ [SuiteNext]_suiteVars => (part = "bundles" => BundlesInv)'
  <2> SUFFICES ASSUME part = "bundles", BundlesInv, [SuiteNext]_suiteVars PROVE BundlesInv'
    BY DEF SuiteNext, suiteVars
  <2>1. [Bundles!Next]_(Bundles!vars)
    BY DEF SuiteNext, suiteVars, state, Bundles!vars
  <2> QED
    BY <2>1, BundlesStep
<1> QED
  BY <1>1, <1>2, PTL DEF SuiteSpec

\* app/evidence/bundles.py: what an assembly returned resolves under its scan, and
\* what a reader gets cites nothing that was deleted before; for any scans.
THEOREM BundlesAlwaysResolve == SuiteSpec => []BundlesResolve
<1>1. (part = "bundles" => BundlesInv) => BundlesResolve
  BY BundlesHold DEF BundlesResolve
<1> QED
  BY <1>1, BundlesPart, PTL

-----------------------------------------------------------------------------
(* FindingCases *)

CaseRows == [id : Nat, scan : Scans \cup {"none"}]
CaseSeen == [scan : Scans, run : Runs, print : Prints, id : Nat]
CaseReads == [at : {"idle", "cases", "done"}, due : SUBSET Nat, found : SUBSET Nat]

CasesTyped ==
  /\ db = [case |-> db.case, seen |-> db.seen, last |-> db.last]
  /\ db.case \in [Prints -> CaseRows] /\ db.seen \subseteq CaseSeen /\ db.last \in Nat
  /\ proc \in [Scans -> CaseReads]
  /\ hist = [shown |-> hist.shown, of |-> hist.of, writes |-> hist.writes, gone |-> hist.gone]
  /\ hist.of \in [Scans -> SUBSET Prints] /\ hist.shown \in [Scans -> SUBSET Nat]

\* Each case has a number of its own, and the scan it was first seen by reported it.
CasesNumbered ==
  /\ \A f \in Prints : Cases!Known(f) => db.case[f].id \in 1 .. db.last /\ db.case[f].scan \in Scans
                                   /\ f \in hist.of[db.case[f].scan]
  /\ \A f, g \in Prints : Cases!Known(f) /\ Cases!Known(g) /\ db.case[f].id = db.case[g].id => f = g

\* What a scan reported and is a case is observed by it, or was first seen by it.
CasesObserved ==
  /\ \A o \in db.seen : Cases!Known(o.print) /\ o.id = db.case[o.print].id /\ o.print \in hist.of[o.scan]
  /\ \A s \in Scans : \A f \in hist.of[s] : Cases!Known(f) =>
       db.case[f].scan = s \/ \E o \in db.seen : o.scan = s /\ o.print = f
  /\ ~hist.gone => \A s \in Scans : \A f \in hist.of[s] : Cases!Known(f)

CasesOf(s, ids) == \A f \in Prints : Cases!Known(f) /\ db.case[f].id \in ids => f \in hist.of[s]

CasesRead(s) ==
  /\ \A x \in proc[s].due \cup proc[s].found \cup hist.shown[s] : x <= db.last
  /\ proc[s].at = "cases" =>
       /\ CasesOf(s, proc[s].found)
       /\ \A f \in Prints : Cases!Known(f) /\ db.case[f].id \in proc[s].due =>
            db.case[f].id \in proc[s].found \/ db.case[f].scan = s
  /\ proc[s].at = "done" =>
       /\ CasesOf(s, hist.shown[s])
       /\ \A f \in Prints : Cases!Known(f) /\ db.case[f].id \in proc[s].due => db.case[f].id \in hist.shown[s]

CasesInv == CasesTyped /\ CasesNumbered /\ CasesObserved /\ \A s \in Scans : CasesRead(s)

LEMMA CasesCardinality == \A S : Cases!Cardinality(S) = Cardinality(S)
  BY DEF Cases!Cardinality, Cardinality

LEMMA CasesInit == ASSUME Cases!Init PROVE CasesInv
<1>1. Cases!NoCase \in CaseRows /\ Cases!Idle \in CaseReads /\ Cases!Idle.at = "idle"
  BY DEF Cases!NoCase, CaseRows, Cases!Idle, CaseReads
<1>2. CasesTyped
  BY <1>1 DEF Cases!Init, CasesTyped
<1>3. \A f \in Prints : ~Cases!Known(f)
  BY DEF Cases!Init, Cases!Known
<1>4. CasesNumbered /\ CasesObserved
  BY <1>3 DEF Cases!Init, CasesNumbered, CasesObserved
<1>5. ASSUME NEW s \in Scans PROVE CasesRead(s)
  BY <1>1, <1>3 DEF Cases!Init, CasesRead, Cases!Idle
<1> QED
  BY <1>2, <1>4, <1>5 DEF CasesInv

\* The rows that a batch adds: numbers above the last, each its own.
LEMMA CasesRanked ==
  ASSUME NEW new \in SUBSET Prints
  PROVE  /\ Cardinality(new) \in Nat
         /\ \E r \in [new -> 1 .. Cardinality(new)] : \A f, g \in new : f # g => r[f] # r[g]
<1>1. IsFiniteSet(new)
  BY FS_Subset, PrintsAreFinite
<1>2. PICK n \in Nat : n = Cardinality(new) /\ ExistsBijection(1 .. n, new)
  BY <1>1, FS_NatBijection, FS_CardinalityType
<1>3. PICK f : f \in Bijection(1 .. n, new)
  BY <1>2 DEF ExistsBijection
<1>4. f \in [1 .. n -> new] /\ \A x \in new : \E i \in 1 .. n : f[i] = x
  BY <1>3 DEF Bijection, Surjection
<1>5. PICK r : r = [x \in new |-> CHOOSE i \in 1 .. n : f[i] = x]
  OBVIOUS
<1>6. \A x \in new : r[x] \in 1 .. n /\ f[r[x]] = x
  BY <1>4, <1>5
<1>7. r \in [new -> 1 .. n] /\ \A x, y \in new : x # y => r[x] # r[y]
  BY <1>5, <1>6
<1> QED
  BY <1>2, <1>7

LEMMA CasesAdded ==
  ASSUME CasesInv, NEW s \in Scans, NEW batch \in SUBSET Prints
  PROVE  \E n \in Nat : \E c \in [Prints -> CaseRows] :
           /\ n = Cardinality({f \in batch : ~Cases!Known(f)}) /\ c = Cases!WithCases(batch, s)
           /\ \A f \in Prints : ~(f \in batch /\ ~Cases!Known(f)) => c[f] = db.case[f]
           /\ \A f \in Prints : f \in batch /\ ~Cases!Known(f) => c[f].scan = s /\ c[f].id \in db.last + 1 .. db.last + n
           /\ \A f, g \in Prints : f \in batch /\ ~Cases!Known(f) /\ g \in batch /\ ~Cases!Known(g) /\ c[f].id = c[g].id => f = g
<1> DEFINE new == {f \in batch : ~Cases!Known(f)}
           Good(r) == \A f, g \in new : f # g => r[f] # r[g]
<1>1. new \in SUBSET Prints
  OBVIOUS
<1> HIDE DEF new
<1>2. PICK n \in Nat : n = Cardinality(new)
  BY <1>1, CasesRanked
<1>3. \E r \in [new -> 1 .. n] : Good(r)
  BY <1>1, <1>2, CasesRanked
<1>4. PICK r : r = CHOOSE z \in [new -> 1 .. n] : Good(z)
  OBVIOUS
<1>5. r \in [new -> 1 .. n] /\ Good(r)
  BY <1>3, <1>4
<1>6. PICK l \in Nat : l = db.last
  BY DEF CasesInv, CasesTyped
<1>7. PICK c : c = [f \in Prints |-> IF f \in new THEN [id |-> l + r[f], scan |-> s] ELSE db.case[f]]
  OBVIOUS
<1>8. c = Cases!WithCases(batch, s)
  BY <1>2, <1>4, <1>6, <1>7, CasesCardinality DEF Cases!WithCases, new
<1>9. \A f \in Prints : f \notin new => c[f] = db.case[f]
  BY <1>7
<1>10. \A f \in new : c[f] = [id |-> l + r[f], scan |-> s] /\ r[f] \in 1 .. n
  BY <1>1, <1>5, <1>7
<1>11. \A f \in new : c[f].scan = s /\ c[f].id = l + r[f] /\ r[f] \in Nat /\ 1 <= r[f] /\ r[f] <= n
  <2> TAKE f \in new
  <2>1. c[f] = [id |-> l + r[f], scan |-> s]
    BY <1>10
  <2>2. r[f] \in 1 .. n
    BY <1>10
  <2> QED
    BY <2>1, <2>2
<1>12. \A f \in new : c[f].id \in l + 1 .. l + n /\ c[f] \in CaseRows
  <2> TAKE f \in new
  <2>1. l + r[f] \in Nat /\ l + r[f] \in l + 1 .. l + n
    BY <1>6, <1>11
  <2>2. c[f] = [id |-> l + r[f], scan |-> s]
    BY <1>10
  <2> QED
    BY <2>1, <2>2 DEF CaseRows
<1>13. c \in [Prints -> CaseRows]
  <2>1. \A f \in Prints : c[f] \in CaseRows
    BY <1>9, <1>12 DEF CasesInv, CasesTyped
  <2> QED
    BY <2>1, <1>7
<1>14. \A f, g \in new : c[f].id = c[g].id => f = g
  BY <1>5, <1>11
<1>15. \A f : f \in new <=> f \in batch /\ ~Cases!Known(f)
  BY DEF new
<1>16. n = Cardinality({f \in batch : ~Cases!Known(f)})
  BY <1>2 DEF new
<1>17. \A f \in Prints : ~(f \in batch /\ ~Cases!Known(f)) => c[f] = db.case[f]
  BY <1>9, <1>15
<1>18. \A f \in Prints : f \in batch /\ ~Cases!Known(f) => c[f].scan = s /\ c[f].id \in db.last + 1 .. db.last + n
  BY <1>6, <1>11, <1>12, <1>15
<1>19. \A f, g \in Prints : f \in batch /\ ~Cases!Known(f) /\ g \in batch /\ ~Cases!Known(g) /\ c[f].id = c[g].id => f = g
  BY <1>14, <1>15
<1> QED
  BY <1>8, <1>13, <1>16, <1>17, <1>18, <1>19

\* A write: the cases of a batch, and observations of the same scan.
CasesWrite(s, batch, told, n, c, seen, added) ==
  /\ \A f : f \in added <=> f \in batch /\ ~Cases!Known(f)
  /\ \A f \in Prints : f \notin added => c[f] = db.case[f]
  /\ \A f \in Prints : f \in added => c[f].scan = s /\ c[f].id \in db.last + 1 .. db.last + n
  /\ \A f, g \in Prints : f \in added /\ g \in added /\ c[f].id = c[g].id => f = g
  /\ \A f \in told : f \in added \/ \E o \in seen : o.scan = s /\ o.print = f
  /\ added \subseteq told
  /\ \A o \in seen : o \in db.seen \/ (o.scan = s /\ o.print \in told /\ o.id = c[o.print].id /\ c[o.print] # Cases!NoCase)
  /\ \A o \in db.seen : \E q \in seen : q.scan = o.scan /\ q.print = o.print

LEMMA CasesReported ==
  ASSUME CasesInv, NEW s \in Scans, NEW told \in SUBSET Prints, Cases!Reported(s, told)
  PROVE  /\ hist' = [shown |-> hist.shown, of |-> [hist.of EXCEPT ![s] = @ \cup told],
                     writes |-> hist.writes + 1, gone |-> hist.gone]
         /\ UNCHANGED proc
<1>1. PICK of : of = [hist.of EXCEPT ![s] = @ \cup told]
  OBVIOUS
<1>2. PICK q1 : q1 = [hist EXCEPT !.writes = @ + 1]
  OBVIOUS
<1>3. q1 = [shown |-> hist.shown, of |-> hist.of, writes |-> hist.writes + 1, gone |-> hist.gone]
  BY <1>2 DEF CasesInv, CasesTyped
<1>4. hist' = [q1 EXCEPT !.of[s] = @ \cup told] /\ UNCHANGED proc
  BY <1>2 DEF Cases!Reported
<1>5. hist' = [q1 EXCEPT !.of = of]
  <2>1. q1.of = hist.of
    BY <1>3
  <2> QED
    BY <2>1, <1>1, <1>4
<1> QED
  BY <1>1, <1>3, <1>4, <1>5

LEMMA CasesWrites ==
  ASSUME CasesInv, NEW s \in Scans, NEW batch \in SUBSET Prints, NEW told \in SUBSET batch,
         NEW n \in Nat, NEW c \in [Prints -> CaseRows], NEW seen \in SUBSET CaseSeen,
         NEW added, CasesWrite(s, batch, told, n, c, seen, added),
         db' = [case |-> c, seen |-> seen, last |-> db.last + n],
         Cases!Reported(s, told), ~hist.gone
  PROVE  CasesInv'
<1> USE DEF CasesWrite
<1>1. PICK of : of = [hist.of EXCEPT ![s] = @ \cup told]
  OBVIOUS
<1>2. of \in [Scans -> SUBSET Prints] /\ of[s] = hist.of[s] \cup told /\ \A x \in Scans : x # s => of[x] = hist.of[x]
  BY <1>1 DEF CasesInv, CasesTyped
<1>3. hist' = [shown |-> hist.shown, of |-> of, writes |-> hist.writes + 1, gone |-> hist.gone] /\ UNCHANGED proc
  BY <1>1, CasesReported
<1>24. db'.case = c /\ db'.seen = seen /\ db'.last = db.last + n
  OBVIOUS
<1>25. hist'.of = of /\ hist'.shown = hist.shown /\ hist'.gone = hist.gone
  BY <1>3
<1>4. db'.case = c /\ db'.seen = seen /\ db'.last = db.last + n /\ hist'.of = of /\ hist'.shown = hist.shown
  BY <1>24, <1>25
<1>5. db.last \in Nat /\ db.last <= db'.last /\ db'.last \in Nat
  BY <1>4 DEF CasesInv, CasesTyped
<1>6. CasesTyped'
  BY <1>2, <1>3, <1>4, <1>5 DEF CasesInv, CasesTyped
<1>7. \A f \in Prints : Cases!Known(f)' <=> c[f] # Cases!NoCase
  BY <1>4 DEF Cases!Known
<1>8. \A f \in Prints : Cases!Known(f) => f \notin added /\ c[f] = db.case[f] /\ c[f] # Cases!NoCase /\ Cases!Known(f)' /\ db'.case[f] = db.case[f]
  BY <1>4, <1>7 DEF Cases!Known
<1>9. \A f \in added : f \in Prints /\ f \in told /\ c[f].id > db.last /\ c[f].id <= db'.last /\ c[f].id \in Nat /\ c[f].scan = s
  BY <1>4, <1>5
<1>10. \A f \in Prints : Cases!Known(f)' => Cases!Known(f) \/ f \in added
  BY <1>7 DEF Cases!Known
<1>11. \A f \in Prints : Cases!Known(f) => db.case[f].id \in 1 .. db.last
  BY DEF CasesInv, CasesNumbered
<1>12. CasesNumbered'
  <2>1. ASSUME NEW f \in Prints, Cases!Known(f)' PROVE db'.case[f].id \in 1 .. db'.last /\ db'.case[f].scan \in Scans /\ f \in of[db'.case[f].scan]
    <3>1. CASE Cases!Known(f)
      <4>1. db.case[f].scan \in Scans /\ f \in hist.of[db.case[f].scan]
        BY <3>1 DEF CasesInv, CasesNumbered
      <4> QED
        BY <4>1, <3>1, <1>2, <1>5, <1>8, <1>11
    <3>2. CASE f \in added
      BY <3>2, <1>2, <1>4, <1>5, <1>9
    <3> QED
      BY <2>1, <3>1, <3>2, <1>10
  <2>2. ASSUME NEW f \in Prints, NEW g \in Prints, Cases!Known(f)', Cases!Known(g)', db'.case[f].id = db'.case[g].id PROVE f = g
    <3>1. CASE Cases!Known(f) /\ Cases!Known(g)
      BY <2>2, <3>1, <1>8 DEF CasesInv, CasesNumbered
    <3>2. CASE f \in added /\ g \in added
      BY <2>2, <3>2, <1>4
    <3>3. CASE Cases!Known(f) /\ g \in added
      BY <2>2, <3>3, <1>4, <1>5, <1>8, <1>9, <1>11
    <3>4. CASE Cases!Known(g) /\ f \in added
      BY <2>2, <3>4, <1>4, <1>5, <1>8, <1>9, <1>11
    <3> QED
      BY <2>2, <3>1, <3>2, <3>3, <3>4, <1>10
  <2> QED
    BY <2>1, <2>2, <1>4 DEF CasesNumbered
<1>13. CasesObserved'
  <2>1. ASSUME NEW o \in seen PROVE Cases!Known(o.print)' /\ o.id = c[o.print].id /\ o.print \in of[o.scan]
    <3>1. o.print \in Prints /\ o.scan \in Scans
      BY DEF CaseSeen
    <3>2. CASE o \in db.seen
      <4>1. Cases!Known(o.print) /\ o.id = db.case[o.print].id /\ o.print \in hist.of[o.scan]
        BY <3>2 DEF CasesInv, CasesObserved
      <4> QED
        BY <4>1, <3>1, <1>2, <1>8
    <3>3. CASE o.scan = s /\ o.print \in told /\ o.id = c[o.print].id /\ c[o.print] # Cases!NoCase
      BY <3>1, <3>3, <1>2, <1>7
    <3> QED
      BY <3>2, <3>3
  <2>2. ASSUME NEW x \in Scans, NEW f \in of[x], Cases!Known(f)' PROVE c[f].scan = x \/ \E o \in seen : o.scan = x /\ o.print = f
    <3>1. f \in Prints
      BY <1>2
    <3>2. CASE f \in added /\ x = s
      BY <3>2, <1>9
    <3>3. CASE x = s /\ f \in told
      BY <3>3, <1>9
    <3>4. CASE Cases!Known(f) /\ f \in hist.of[x]
      <4>1. db.case[f].scan = x \/ \E o \in db.seen : o.scan = x /\ o.print = f
        BY <3>4 DEF CasesInv, CasesObserved
      <4> QED
        BY <4>1, <3>1, <3>4, <1>8
    <3>5. f \in hist.of[x] => Cases!Known(f)
      BY DEF CasesInv, CasesObserved
    <3> QED
      BY <2>2, <3>1, <3>2, <3>3, <3>4, <3>5, <1>2, <1>10
  <2>3. ASSUME NEW x \in Scans, NEW f \in of[x] PROVE Cases!Known(f)'
    <3>1. CASE f \in hist.of[x]
      BY <3>1, <1>8, <1>2 DEF CasesInv, CasesObserved, CasesTyped
    <3>2. CASE x = s /\ f \in told
      <4>1. f \in added \/ Cases!Known(f)
        BY <3>2
      <4>2. f \in added => c[f] # Cases!NoCase
        BY <1>5, <1>9 DEF Cases!NoCase
      <4> QED
        BY <4>1, <4>2, <3>2, <1>7, <1>8
    <3> QED
      BY <3>1, <3>2, <1>2
  <2>4. \A o \in db'.seen : Cases!Known(o.print)' /\ o.id = db'.case[o.print].id /\ o.print \in hist'.of[o.scan]
    <3> TAKE o \in db'.seen
    <3>1. o \in seen
      BY <1>4
    <3> QED
      BY <2>1, <3>1, <1>4
  <2>5. \A x \in Scans : \A f \in hist'.of[x] : Cases!Known(f)' => db'.case[f].scan = x \/ \E o \in db'.seen : o.scan = x /\ o.print = f
    <3> TAKE x \in Scans
    <3> TAKE f \in hist'.of[x]
    <3>1. f \in of[x] /\ db'.case[f] = c[f] /\ db'.seen = seen
      BY <1>4
    <3> QED
      BY <2>2, <3>1
  <2>6. \A x \in Scans : \A f \in hist'.of[x] : Cases!Known(f)'
    BY <2>3, <1>4
  <2> QED
    BY <2>4, <2>5, <2>6 DEF CasesObserved
<1>14. ASSUME NEW x \in Scans PROVE CasesRead(x)'
  <2>1. proc' = proc /\ hist'.shown = hist.shown /\ proc[x].due \subseteq Nat /\ proc[x].found \subseteq Nat /\ hist.shown[x] \subseteq Nat
    BY <1>3, <1>4 DEF CasesInv, CasesTyped, CaseReads
  <2>2. \A k \in proc[x].due \cup proc[x].found \cup hist.shown[x] : k \in Nat /\ k <= db.last
    BY <2>1 DEF CasesInv, CasesRead
  <2>3. \A f \in Prints : Cases!Known(f)' /\ db'.case[f].id \in proc[x].due \cup proc[x].found \cup hist.shown[x] => Cases!Known(f) /\ db'.case[f] = db.case[f]
    BY <2>2, <1>4, <1>5, <1>8, <1>9, <1>10
  <2>4. hist.of[x] \subseteq of[x]
    BY <1>2
  <2>5. ASSUME proc[x].at = "cases"
        PROVE  /\ \A f \in Prints : Cases!Known(f)' /\ db'.case[f].id \in proc[x].found => f \in of[x]
               /\ \A f \in Prints : Cases!Known(f)' /\ db'.case[f].id \in proc[x].due => db'.case[f].id \in proc[x].found \/ db'.case[f].scan = x
    BY <2>3, <2>4, <2>5 DEF CasesInv, CasesRead, CasesOf
  <2>6. ASSUME proc[x].at = "done"
        PROVE  /\ \A f \in Prints : Cases!Known(f)' /\ db'.case[f].id \in hist.shown[x] => f \in of[x]
               /\ \A f \in Prints : Cases!Known(f)' /\ db'.case[f].id \in proc[x].due => db'.case[f].id \in hist.shown[x]
    BY <2>3, <2>4, <2>6 DEF CasesInv, CasesRead, CasesOf
  <2>7. \A k \in proc[x].due \cup proc[x].found \cup hist.shown[x] : k <= db'.last
    BY <2>2, <1>5
  <2> QED
    BY <2>1, <2>5, <2>6, <2>7, <1>4 DEF CasesRead, CasesOf
<1> QED
  BY <1>6, <1>12, <1>13, <1>14 DEF CasesInv

LEMMA CasesPersisted ==
  ASSUME CasesInv, NEW s \in Scans, NEW r \in Runs, NEW b \in SUBSET Prints, Cases!Persist(s, r, b)
  PROVE  CasesInv'
<1>1. PICK n \in Nat, c \in [Prints -> CaseRows] :
           /\ n = Cardinality({f \in b : ~Cases!Known(f)}) /\ c = Cases!WithCases(b, s)
           /\ \A f \in Prints : ~(f \in b /\ ~Cases!Known(f)) => c[f] = db.case[f]
           /\ \A f \in Prints : f \in b /\ ~Cases!Known(f) => c[f].scan = s /\ c[f].id \in db.last + 1 .. db.last + n
           /\ \A f, g \in Prints : f \in b /\ ~Cases!Known(f) /\ g \in b /\ ~Cases!Known(g) /\ c[f].id = c[g].id => f = g
  BY CasesAdded
<1>2. PICK added : added = {f \in b : ~Cases!Known(f)}
  OBVIOUS
<1>3. PICK seen : seen = {o \in db.seen : ~(o.scan = s /\ o.run = r /\ o.print \in b)} \cup
                     {[scan |-> s, run |-> r, print |-> f, id |-> c[f].id] : f \in b}
  OBVIOUS
<1>4. db.seen \subseteq CaseSeen /\ db.last \in Nat
  BY DEF CasesInv, CasesTyped
<1>5. \A f \in b : [scan |-> s, run |-> r, print |-> f, id |-> c[f].id] \in CaseSeen
  BY <1>1 DEF CaseSeen, CaseRows
<1>20. \A o \in seen : o \in db.seen \/ \E f \in b : o = [scan |-> s, run |-> r, print |-> f, id |-> c[f].id]
  BY <1>3
<1>21. \A f \in b : [scan |-> s, run |-> r, print |-> f, id |-> c[f].id] \in seen
  BY <1>3
<1>22. \A o \in db.seen : (o.scan = s /\ o.print \in b) \/ o \in seen
  BY <1>3
<1>6. seen \in SUBSET CaseSeen
  BY <1>4, <1>5, <1>20
<1>7. \A f \in b : \E o \in seen : o.scan = s /\ o.print = f
  <2> TAKE f \in b
  <2>1. PICK o : o = [scan |-> s, run |-> r, print |-> f, id |-> c[f].id]
    OBVIOUS
  <2> QED
    BY <2>1, <1>21
<1>8. \A o \in db.seen : \E q \in seen : q.scan = o.scan /\ q.print = o.print
  BY <1>7, <1>22
<1>9. \A f \in b : c[f] # Cases!NoCase
  <2>1. ASSUME NEW f \in b, ~Cases!Known(f) PROVE c[f] # Cases!NoCase
    BY <2>1, <1>1, <1>4 DEF Cases!NoCase
  <2>2. ASSUME NEW f \in b, Cases!Known(f) PROVE c[f] # Cases!NoCase
    BY <2>2, <1>1 DEF Cases!Known
  <2> QED
    BY <2>1, <2>2
<1>10. \A o \in seen : o \in db.seen \/ (o.scan = s /\ o.print \in b /\ o.id = c[o.print].id /\ c[o.print] # Cases!NoCase)
  <2> TAKE o \in seen
  <2>1. ASSUME NEW f \in b, o = [scan |-> s, run |-> r, print |-> f, id |-> c[f].id]
        PROVE  o.scan = s /\ o.print \in b /\ o.id = c[o.print].id /\ c[o.print] # Cases!NoCase
    <3>1. o.scan = s /\ o.print = f /\ o.id = c[f].id
      BY <2>1
    <3>2. c[f] # Cases!NoCase
      BY <1>9
    <3> QED
      BY <3>1, <3>2, Zenon
  <2>2. CASE o \in db.seen
    BY <2>2
  <2>3. CASE o \notin db.seen
    BY <2>1, <2>3, <1>20
  <2> QED
    BY <2>2, <2>3
<1>11. db' = [case |-> c, seen |-> seen, last |-> db.last + n]
  BY <1>1, <1>3, CasesCardinality DEF Cases!Persist
<1>12. Cases!Reported(s, b) /\ ~hist.gone
  BY CasesCardinality DEF Cases!Persist
<1>13. \A f : f \in added <=> f \in b /\ ~Cases!Known(f)
  BY <1>2
<1>14. /\ \A f \in Prints : f \notin added => c[f] = db.case[f]
       /\ \A f \in Prints : f \in added => c[f].scan = s /\ c[f].id \in db.last + 1 .. db.last + n
       /\ \A f, g \in Prints : f \in added /\ g \in added /\ c[f].id = c[g].id => f = g
       /\ added \subseteq b
  BY <1>1, <1>13
<1>15. \A f \in b : f \in added \/ \E o \in seen : o.scan = s /\ o.print = f
  BY <1>7
<1>16. b \in SUBSET b
  OBVIOUS
<1>17. CasesWrite(s, b, b, n, c, seen, added)
  BY <1>8, <1>10, <1>13, <1>14, <1>15 DEF CasesWrite
<1> HIDE DEF CasesInv
<1> QED
  BY <1>1, <1>6, <1>11, <1>12, <1>16, <1>17, CasesWrites

LEMMA CasesCreated ==
  ASSUME CasesInv, NEW s \in Scans, NEW p \in Prints, Cases!CreateFinding(s, p)
  PROVE  CasesInv'
<1> DEFINE b == {p}
           told == IF Cases!Known(p) THEN {} ELSE {p}
<1>1. b \in SUBSET Prints /\ told \in SUBSET b
  OBVIOUS
<1>2. PICK n \in Nat, c \in [Prints -> CaseRows] :
           /\ n = Cardinality({f \in b : ~Cases!Known(f)}) /\ c = Cases!WithCases(b, s)
           /\ \A f \in Prints : ~(f \in b /\ ~Cases!Known(f)) => c[f] = db.case[f]
           /\ \A f \in Prints : f \in b /\ ~Cases!Known(f) => c[f].scan = s /\ c[f].id \in db.last + 1 .. db.last + n
           /\ \A f, g \in Prints : f \in b /\ ~Cases!Known(f) /\ g \in b /\ ~Cases!Known(g) /\ c[f].id = c[g].id => f = g
  <2> HIDE DEF b
  <2> QED
    BY <1>1, CasesAdded
<1>3. PICK added : added = {f \in b : ~Cases!Known(f)}
  OBVIOUS
<1>4. added = told
  BY <1>3
<1>5. Cases!Known(p) => n = 0
  <2>1. Cases!Known(p) => added = {}
    BY <1>4
  <2> QED
    BY <2>1, <1>2, <1>3, FS_EmptySet
<1>6. ~Cases!Known(p) => n = 1
  <2>1. ~Cases!Known(p) => added = {p}
    BY <1>4
  <2> QED
    BY <2>1, <1>2, <1>3, FS_Singleton
<1>7. db.last \in Nat /\ db.seen \in SUBSET CaseSeen /\ db = [case |-> db.case, seen |-> db.seen, last |-> db.last]
  BY DEF CasesInv, CasesTyped
<1>8. PICK q1 : q1 = [db EXCEPT !.case = c]
  OBVIOUS
<1>9. q1 = [case |-> c, seen |-> db.seen, last |-> db.last]
  BY <1>7, <1>8
<1>10. db' = [q1 EXCEPT !.last = IF Cases!Known(p) THEN @ ELSE @ + 1]
  BY <1>2, <1>8, CasesCardinality DEF Cases!CreateFinding
<1>11. db.last + n = IF Cases!Known(p) THEN db.last ELSE db.last + 1
  BY <1>5, <1>6, <1>7
<1>12. db' = [case |-> c, seen |-> db.seen, last |-> db.last + n]
  BY <1>9, <1>10, <1>11
<1>13. Cases!Reported(s, told) /\ ~hist.gone
  BY CasesCardinality DEF Cases!CreateFinding
<1>14. \A f : f \in added <=> f \in b /\ ~Cases!Known(f)
  BY <1>3
<1>15. /\ \A f \in Prints : f \notin added => c[f] = db.case[f]
       /\ \A f \in Prints : f \in added => c[f].scan = s /\ c[f].id \in db.last + 1 .. db.last + n
       /\ \A f, g \in Prints : f \in added /\ g \in added /\ c[f].id = c[g].id => f = g
  BY <1>2, <1>14
<1>16. added \subseteq told /\ \A f \in told : f \in added \/ \E o \in db.seen : o.scan = s /\ o.print = f
  BY <1>4
<1> HIDE DEF CasesInv, b, told
<1>17. \A o \in db.seen : o \in db.seen \/ (o.scan = s /\ o.print \in told /\ o.id = c[o.print].id /\ c[o.print] # Cases!NoCase)
  OBVIOUS
<1>18. \A o \in db.seen : \E q \in db.seen : q.scan = o.scan /\ q.print = o.print
  <2> TAKE o \in db.seen
  <2> WITNESS o \in db.seen
  <2> QED
    BY Zenon
<1>19. CasesWrite(s, b, told, n, c, db.seen, added)
  BY <1>14, <1>15, <1>16, <1>17, <1>18 DEF CasesWrite
<1> QED
  BY <1>1, <1>2, <1>7, <1>12, <1>13, <1>19, CasesWrites

LEMMA CasesDeleted == ASSUME CasesInv, Cases!DeleteTarget PROVE CasesInv'
<1>1. PICK q1 : q1 = [db EXCEPT !.case = [f \in Prints |-> Cases!NoCase]]
  OBVIOUS
<1>2. q1 = [case |-> [f \in Prints |-> Cases!NoCase], seen |-> db.seen, last |-> db.last]
  BY <1>1 DEF CasesInv, CasesTyped
<1>3. db' = [q1 EXCEPT !.seen = {}]
  BY <1>1 DEF Cases!DeleteTarget
<1>4. db' = [case |-> [f \in Prints |-> Cases!NoCase], seen |-> {}, last |-> db.last]
  BY <1>2, <1>3
<1>5. hist' = [shown |-> hist.shown, of |-> hist.of, writes |-> hist.writes, gone |-> TRUE] /\ proc' = proc
  BY DEF Cases!DeleteTarget, CasesInv, CasesTyped
<1>6. Cases!NoCase \in CaseRows
  BY DEF Cases!NoCase, CaseRows
<1>7. CasesTyped'
  BY <1>4, <1>5, <1>6 DEF CasesInv, CasesTyped
<1>8. \A f \in Prints : ~Cases!Known(f)'
  BY <1>4 DEF Cases!Known
<1>9. CasesNumbered' /\ CasesObserved'
  BY <1>4, <1>5, <1>8 DEF CasesNumbered, CasesObserved, CasesInv, CasesTyped
<1>10. ASSUME NEW x \in Scans PROVE CasesRead(x)'
  BY <1>4, <1>5, <1>8 DEF CasesRead, CasesOf, CasesInv
<1> QED
  BY <1>7, <1>9, <1>10 DEF CasesInv

\* A report moves: what it reads and shows are cases of its scan.
LEMMA CasesMove ==
  ASSUME CasesInv, NEW s \in Scans, NEW p \in CaseReads, NEW list \in SUBSET Nat,
         UNCHANGED db, proc' = [proc EXCEPT ![s] = p],
         hist' = [shown |-> [hist.shown EXCEPT ![s] = list], of |-> hist.of, writes |-> hist.writes, gone |-> hist.gone],
         \A k \in p.due \cup p.found \cup list : k <= db.last,
         p.at = "cases" =>
           /\ CasesOf(s, p.found)
           /\ \A f \in Prints : Cases!Known(f) /\ db.case[f].id \in p.due => db.case[f].id \in p.found \/ db.case[f].scan = s,
         p.at = "done" =>
           /\ CasesOf(s, list)
           /\ \A f \in Prints : Cases!Known(f) /\ db.case[f].id \in p.due => db.case[f].id \in list
  PROVE  CasesInv'
<1>1. proc' \in [Scans -> CaseReads] /\ proc'[s] = p /\ \A x \in Scans \ {s} : proc'[x] = proc[x]
  BY DEF CasesInv, CasesTyped
<1>2. hist'.shown \in [Scans -> SUBSET Nat] /\ hist'.shown[s] = list /\ (\A x \in Scans \ {s} : hist'.shown[x] = hist.shown[x]) /\ hist'.of = hist.of /\ hist'.gone = hist.gone
  BY DEF CasesInv, CasesTyped
<1>3. CasesTyped'
  BY <1>1, <1>2 DEF CasesInv, CasesTyped
<1>4. \A f : Cases!Known(f)' <=> Cases!Known(f)
  BY DEF Cases!Known
<1>5. CasesNumbered' /\ CasesObserved'
  BY <1>2, <1>4 DEF CasesInv, CasesNumbered, CasesObserved
<1>6. ASSUME NEW x \in Scans PROVE CasesRead(x)'
  <2>1. CASE x = s
    BY <2>1, <1>1, <1>2, <1>4 DEF CasesRead, CasesOf
  <2>2. CASE x # s
    BY <2>2, <1>1, <1>2, <1>4 DEF CasesRead, CasesOf, CasesInv
  <2> QED
    BY <2>1, <2>2
<1> QED
  BY <1>3, <1>5, <1>6 DEF CasesInv

LEMMA CasesReading == ASSUME CasesInv, NEW s \in Scans, Cases!ReadObservations(s) PROVE CasesInv'
<1>1. PICK found : found = Cases!Observed(s)
  OBVIOUS
<1>2. PICK due : due = {db.case[f].id : f \in {f \in hist.of[s] : Cases!Known(f)}}
  OBVIOUS
<1>3. hist.of[s] \subseteq Prints /\ db.last \in Nat /\ db.seen \subseteq CaseSeen
  BY DEF CasesInv, CasesTyped
<1>4. \A f \in Prints : Cases!Known(f) => db.case[f].id \in Nat /\ db.case[f].id <= db.last
  BY <1>3 DEF CasesInv, CasesNumbered
<1>5. \A k \in found : \E o \in db.seen : o.scan = s /\ o.id = k
  BY <1>1 DEF Cases!Observed
<1>6. \A o \in db.seen : o.print \in Prints /\ Cases!Known(o.print) /\ o.id = db.case[o.print].id /\ o.print \in hist.of[o.scan]
  BY <1>3 DEF CaseSeen, CasesInv, CasesObserved
<1>7. \A k \in found : \E f \in Prints : Cases!Known(f) /\ db.case[f].id = k /\ f \in hist.of[s]
  BY <1>5, <1>6
<1>8. found \subseteq Nat /\ \A k \in found : k <= db.last
  BY <1>4, <1>7
<1>9. due \subseteq Nat /\ \A k \in due : k <= db.last
  BY <1>2, <1>3, <1>4
<1>10. CasesOf(s, found)
  BY <1>7 DEF CasesOf, CasesInv, CasesNumbered
<1>11. ASSUME NEW f \in Prints, Cases!Known(f), db.case[f].id \in due PROVE db.case[f].id \in found \/ db.case[f].scan = s
  <2>1. PICK g \in hist.of[s] : Cases!Known(g) /\ db.case[g].id = db.case[f].id
    BY <1>2, <1>11
  <2>2. f = g
    BY <2>1, <1>3, <1>11 DEF CasesInv, CasesNumbered
  <2>3. db.case[f].scan = s \/ \E o \in db.seen : o.scan = s /\ o.print = f
    BY <2>1, <2>2 DEF CasesInv, CasesObserved
  <2>4. ASSUME NEW o \in db.seen, o.scan = s, o.print = f PROVE db.case[f].id \in found
    BY <2>4, <1>1, <1>6 DEF Cases!Observed
  <2> QED
    BY <2>3, <2>4
<1>12. PICK p : p = [at |-> "cases", found |-> found, due |-> due]
  OBVIOUS
<1>13. p \in CaseReads /\ p.at = "cases" /\ p.found = found /\ p.due = due
  BY <1>8, <1>9, <1>12 DEF CaseReads
<1>14. proc' = [proc EXCEPT ![s] = p] /\ UNCHANGED db /\ hist' = hist
  BY <1>1, <1>2, <1>12 DEF Cases!ReadObservations
<1>15. PICK list : list = hist.shown[s]
  OBVIOUS
<1>16. list \in SUBSET Nat /\ (\A k \in list : k <= db.last) /\ [hist.shown EXCEPT ![s] = list] = hist.shown
  BY <1>15 DEF CasesInv, CasesTyped, CasesRead
<1>17. hist' = [shown |-> [hist.shown EXCEPT ![s] = list], of |-> hist.of, writes |-> hist.writes, gone |-> hist.gone]
  BY <1>14, <1>16 DEF CasesInv, CasesTyped
<1>18. \A k \in p.due \cup p.found \cup list : k <= db.last
  BY <1>8, <1>9, <1>13, <1>16
<1> HIDE DEF CasesInv
<1> QED
  BY <1>10, <1>11, <1>13, <1>14, <1>16, <1>17, <1>18, CasesMove

LEMMA CasesShown == ASSUME CasesInv, NEW s \in Scans, Cases!ReadCases(s) PROVE CasesInv'
<1>1. PICK list : list = proc[s].found \cup Cases!FirstSeen(s)
  OBVIOUS
<1>2. \A f \in Prints : Cases!Known(f) => db.case[f].id \in Nat /\ db.case[f].id <= db.last /\ f \in hist.of[db.case[f].scan]
  BY DEF CasesInv, CasesNumbered, CasesTyped
<1>3. \A k \in Cases!FirstSeen(s) : \E f \in Prints : Cases!Known(f) /\ db.case[f].id = k /\ db.case[f].scan = s
  BY DEF Cases!FirstSeen
<1>4. proc[s].found \subseteq Nat /\ proc[s].due \subseteq Nat /\ proc[s] = [at |-> proc[s].at, due |-> proc[s].due, found |-> proc[s].found]
  BY DEF CasesInv, CasesTyped, CaseReads
<1>5. list \in SUBSET Nat /\ \A k \in proc[s].due \cup proc[s].found \cup list : k <= db.last
  BY <1>1, <1>2, <1>3, <1>4 DEF CasesInv, CasesRead
<1>6. proc[s].at = "cases"
  BY DEF Cases!ReadCases
<1>7. CasesOf(s, list)
  <2>1. CasesOf(s, proc[s].found)
    BY <1>6 DEF CasesInv, CasesRead
  <2>2. \A f, g \in Prints : Cases!Known(f) /\ Cases!Known(g) /\ db.case[f].id = db.case[g].id => f = g
    BY DEF CasesInv, CasesNumbered
  <2> QED
    BY <2>1, <2>2, <1>1, <1>2, <1>3 DEF CasesOf
<1>8. \A f \in Prints : Cases!Known(f) /\ db.case[f].id \in proc[s].due => db.case[f].id \in list
  <2>1. \A f \in Prints : Cases!Known(f) /\ db.case[f].scan = s => db.case[f].id \in Cases!FirstSeen(s)
    BY DEF Cases!FirstSeen
  <2> QED
    BY <2>1, <1>1, <1>6 DEF CasesInv, CasesRead
<1>9. PICK p : p = [proc[s] EXCEPT !.at = "done"]
  OBVIOUS
<1>10. p = [at |-> "done", due |-> proc[s].due, found |-> proc[s].found]
  BY <1>4, <1>9
<1>11. p \in CaseReads /\ p.at = "done" /\ p.due = proc[s].due /\ p.found = proc[s].found
  BY <1>4, <1>10 DEF CaseReads
<1>12. proc' = [proc EXCEPT ![s] = p] /\ UNCHANGED db
  BY <1>9 DEF Cases!ReadCases, CasesInv, CasesTyped
<1>13. hist' = [shown |-> [hist.shown EXCEPT ![s] = list], of |-> hist.of, writes |-> hist.writes, gone |-> hist.gone]
  BY <1>1 DEF Cases!ReadCases, CasesInv, CasesTyped
<1> HIDE DEF CasesInv
<1> QED
  BY <1>5, <1>7, <1>8, <1>11, <1>12, <1>13, CasesMove

LEMMA CasesAgain == ASSUME CasesInv, NEW s \in Scans, Cases!Again(s) PROVE CasesInv'
<1>1. Cases!Idle \in CaseReads /\ Cases!Idle.at = "idle" /\ Cases!Idle.due = {} /\ Cases!Idle.found = {}
  BY DEF Cases!Idle, CaseReads
<1>2. PICK list : list = {}
  OBVIOUS
<1>3. hist' = [shown |-> [hist.shown EXCEPT ![s] = list], of |-> hist.of, writes |-> hist.writes, gone |-> hist.gone]
  BY <1>2 DEF Cases!Again, CasesInv, CasesTyped
<1>4. list \in SUBSET Nat /\ \A k \in Cases!Idle.due \cup Cases!Idle.found \cup list : k <= db.last
  BY <1>1, <1>2
<1> HIDE DEF CasesInv
<1> QED
  BY <1>1, <1>3, <1>4, CasesMove DEF Cases!Again

LEMMA CasesStep == ASSUME CasesInv, [Cases!Next]_(Cases!vars) PROVE CasesInv'
<1>1. CASE UNCHANGED Cases!vars
  BY <1>1 DEF Cases!vars, CasesInv, CasesTyped, CasesNumbered, CasesObserved, CasesRead, CasesOf, Cases!Known
<1>2. CASE Cases!Next
  BY <1>2, CasesReading, CasesShown, CasesAgain, CasesPersisted, CasesCreated, CasesDeleted DEF Cases!Next
<1> QED
  BY <1>1, <1>2

LEMMA CasesHold == CasesInv => Cases!ReportListsItsCases
<1> SUFFICES ASSUME CasesInv, NEW s \in Scans, proc[s].at = "done"
             PROVE  /\ {db.case[f].id : f \in {f \in hist.of[s] : Cases!Known(f)}} \cap proc[s].due \subseteq hist.shown[s]
                    /\ \A f \in Prints \ hist.of[s] : Cases!Known(f) => db.case[f].id \notin hist.shown[s]
  BY DEF Cases!ReportListsItsCases
<1>1. hist.of[s] \subseteq Prints
  BY DEF CasesInv, CasesTyped
<1> QED
  BY <1>1 DEF CasesInv, CasesRead, CasesOf

LEMMA CasesPart == SuiteSpec => [](part = "cases" => CasesInv)
<1>1. SuiteInit => (part = "cases" => CasesInv)
  BY CasesInit DEF SuiteInit
<1>2. (part = "cases" => CasesInv) /\ [SuiteNext]_suiteVars => (part = "cases" => CasesInv)'
  <2> SUFFICES ASSUME part = "cases", CasesInv, [SuiteNext]_suiteVars PROVE CasesInv'
    BY DEF SuiteNext, suiteVars
  <2>1. [Cases!Next]_(Cases!vars)
    BY DEF SuiteNext, suiteVars, state, Cases!vars
  <2> QED
    BY <2>1, CasesStep
<1> QED
  BY <1>1, <1>2, PTL DEF SuiteSpec

\* The queries of a scan report list every case the scan reported and none of
\* another's; for any scans and tool runs and finitely many fingerprints.
THEOREM ReportsListTheirCases == SuiteSpec => []ReportListsItsCases
<1>1. (part = "cases" => CasesInv) => ReportListsItsCases
  BY CasesHold DEF ReportListsItsCases
<1> QED
  BY <1>1, CasesPart, PTL

-----------------------------------------------------------------------------
(* Submissions *)

CardStatuses == DOMAIN Cards!Allowed
CardRows == [status : CardStatuses, submitted : Nat, resolved : Nat, amount : BOOLEAN]
CardReports == {"draft", "queued", "submitted", "acknowledged", "closed"}
CardEvents == [from : CardReports \cup {"none"}, to : CardReports]
CardAts == {"idle", "card", "auditDraft", "undo", "eventDraft", "auditMove", "commit"}

CardsTyped ==
  /\ db = [card |-> db.card, report |-> db.report, events |-> db.events, audit |-> db.audit]
  /\ db.card \in CardRows /\ db.report \in CardReports \cup {"none"} /\ db.events \in Seq(CardEvents)
  /\ \A u \in Users : proc[u] = [at |-> proc[u].at, was |-> proc[u].was, want |-> proc[u].want, card |-> proc[u].card]
  /\ DOMAIN proc = Users
  /\ hist = [stale |-> hist.stale, steps |-> hist.steps, clock |-> hist.clock] /\ hist.clock \in Nat

CardsStep(from, to) == \E k \in 1 .. 4 : from = Cards!Path[k] /\ to = Cards!Path[k + 1]

\* What a request does: the move of a card that it checked, the step of a report
\* that it audited or is about to audit, the creation it audited.
CardsWork(u) ==
  /\ proc[u].at \in CardAts
  /\ proc[u].at = "card" => /\ proc[u].card \in CardRows
                            /\ proc[u].want \in {proc[u].card.status} \cup Cards!Allowed[proc[u].card.status]
                            /\ proc[u].want \in CardStatuses
  /\ proc[u].at \in {"auditMove", "commit"} => CardsStep(proc[u].was, proc[u].want)
  /\ proc[u].at = "commit" => [from |-> proc[u].was, to |-> proc[u].want] \in db.audit
  /\ proc[u].at = "eventDraft" => [from |-> "none", to |-> "draft"] \in db.audit

CardsInv == CardsTyped /\ (\A u \in Users : CardsWork(u)) /\ Cards!HistoryIsThePath

LEMMA CardsPath ==
  /\ \A k \in 1 .. 4 : Cards!Path[k] \in CardReports /\ Cards!Path[k + 1] \in CardReports /\ Cards!Path[k] # "none"
  /\ \A s \in CardReports : Cards!NextOf(s) # "none" => CardsStep(s, Cards!NextOf(s))
<1>1. /\ Cards!Path[1] = "draft" /\ Cards!Path[2] = "queued" /\ Cards!Path[3] = "submitted"
      /\ Cards!Path[4] = "acknowledged" /\ Cards!Path[5] = "closed"
  BY DEF Cards!Path
<1>2. \A k \in 1 .. 4 : k = 1 \/ k = 2 \/ k = 3 \/ k = 4
  OBVIOUS
<1>3. ASSUME NEW s \in CardReports, Cards!NextOf(s) # "none" PROVE CardsStep(s, Cards!NextOf(s))
  <2>1. PICK i : i = CHOOSE x \in 1 .. 5 : Cards!Path[x] = s
    OBVIOUS
  <2>2. \E x \in 1 .. 5 : Cards!Path[x] = s
    BY <1>1 DEF CardReports
  <2>3. i \in 1 .. 5 /\ Cards!Path[i] = s
    BY <2>1, <2>2
  <2>4. Cards!NextOf(s) = IF i = 5 THEN "none" ELSE Cards!Path[i + 1]
    BY <2>1 DEF Cards!NextOf
  <2>5. i # 5 /\ Cards!NextOf(s) = Cards!Path[i + 1]
    BY <1>3, <2>4
  <2> QED
    BY <2>3, <2>5 DEF CardsStep
<1>4. \A k \in 1 .. 4 : Cards!Path[k] \in CardReports /\ Cards!Path[k + 1] \in CardReports /\ Cards!Path[k] # "none"
  BY <1>1, <1>2 DEF CardReports
<1> QED
  BY <1>3, <1>4

LEMMA CardsAllowed ==
  /\ CardStatuses = {"draft", "submitted", "triaged", "needs_info", "accepted", "resolved", "paid",
                     "duplicate", "informative", "not_applicable"}
  /\ Cards!Allowed["paid"] = {}
  /\ \A s \in CardStatuses : Cards!Allowed[s] \subseteq CardStatuses
  BY DEF CardStatuses, Cards!Allowed, Cards!Rejections

LEMMA CardsIdle ==
  /\ Cards!Idle = [at |-> "idle", was |-> "none", want |-> "none", card |-> [status |-> "none"]]
  /\ Cards!Idle.at = "idle"
  BY DEF Cards!Idle

LEMMA CardsInit == ASSUME Cards!Init PROVE CardsInv
<1>1. PICK c : /\ c \in {Cards!Draft, [Cards!Draft EXCEPT !.status = "accepted", !.submitted = 1]}
               /\ db = [card |-> c, report |-> "none", events |-> <<>>, audit |-> {}]
  BY DEF Cards!Init
<1>2. c \in CardRows
  <2>1. Cards!Draft = [status |-> "draft", submitted |-> 0, resolved |-> 0, amount |-> FALSE]
    BY DEF Cards!Draft
  <2>2. PICK q1 : q1 = [Cards!Draft EXCEPT !.status = "accepted"]
    OBVIOUS
  <2>3. q1 = [status |-> "accepted", submitted |-> 0, resolved |-> 0, amount |-> FALSE]
    BY <2>1, <2>2
  <2>4. PICK q2 : q2 = [q1 EXCEPT !.submitted = 1]
    OBVIOUS
  <2>5. q2 = [status |-> "accepted", submitted |-> 1, resolved |-> 0, amount |-> FALSE]
    BY <2>3, <2>4
  <2>6. c = Cards!Draft \/ c = q2
    BY <1>1, <2>2, <2>4
  <2>7. {"draft", "accepted"} \subseteq CardStatuses
    BY CardsAllowed
  <2>8. Cards!Draft \in CardRows /\ q2 \in CardRows
    BY <2>1, <2>5, <2>7 DEF CardRows
  <2> QED
    BY <2>6, <2>8
<1>3. CardsTyped
  BY <1>1, <1>2, CardsIdle DEF Cards!Init, CardsTyped
<1>4. \A u \in Users : CardsWork(u)
  BY CardsIdle DEF Cards!Init, CardsWork, CardAts
<1>5. Cards!HistoryIsThePath
  BY <1>1 DEF Cards!HistoryIsThePath, Cards!Moves
<1> QED
  BY <1>3, <1>4, <1>5 DEF CardsInv

\* A request moves, and the audit trail grows.
LEMMA CardsMoves ==
  ASSUME CardsInv, NEW u \in Users, NEW q,
         q = [at |-> q.at, was |-> q.was, want |-> q.want, card |-> q.card],
         proc' = [proc EXCEPT ![u] = q], db'.audit = db.audit \/ \E e : db'.audit = db.audit \cup {e},
         q.at \in CardAts,
         q.at = "card" => /\ q.card \in CardRows /\ q.want \in {q.card.status} \cup Cards!Allowed[q.card.status]
                          /\ q.want \in CardStatuses,
         q.at \in {"auditMove", "commit"} => CardsStep(q.was, q.want),
         q.at = "commit" => [from |-> q.was, to |-> q.want] \in db'.audit,
         q.at = "eventDraft" => [from |-> "none", to |-> "draft"] \in db'.audit
  PROVE  /\ \A x \in Users : CardsWork(x)'
         /\ \A x \in Users : proc'[x] = [at |-> proc'[x].at, was |-> proc'[x].was, want |-> proc'[x].want, card |-> proc'[x].card]
         /\ DOMAIN proc' = Users
<1>1. DOMAIN proc = Users
  BY DEF CardsInv, CardsTyped
<1>2. proc'[u] = q /\ (\A x \in Users : x # u => proc'[x] = proc[x]) /\ DOMAIN proc' = Users
  BY <1>1
<1>3. db.audit \subseteq db'.audit
  OBVIOUS
<1>4. ASSUME NEW x \in Users PROVE CardsWork(x)'
  <2>1. CASE x = u
    BY <2>1, <1>2 DEF CardsWork
  <2>2. CASE x # u
    BY <2>2, <1>2, <1>3 DEF CardsWork, CardsInv
  <2> QED
    BY <2>1, <2>2
<1>5. ASSUME NEW x \in Users
      PROVE proc'[x] = [at |-> proc'[x].at, was |-> proc'[x].was, want |-> proc'[x].want, card |-> proc'[x].card]
  BY <1>2 DEF CardsInv, CardsTyped
<1> QED
  BY <1>2, <1>4, <1>5

LEMMA CardsBack ==
  ASSUME CardsInv, NEW u \in Users, Cards!Back(u), db'.audit = db.audit \/ \E e : db'.audit = db.audit \cup {e}
  PROVE  /\ \A x \in Users : CardsWork(x)'
         /\ \A x \in Users : proc'[x] = [at |-> proc'[x].at, was |-> proc'[x].was, want |-> proc'[x].want, card |-> proc'[x].card]
         /\ DOMAIN proc' = Users
<1>1. proc' = [proc EXCEPT ![u] = Cards!Idle]
  BY DEF Cards!Back
<1>2. Cards!Idle.at \in CardAts
  BY CardsIdle DEF CardAts
<1> QED
  BY <1>1, <1>2, CardsIdle, CardsMoves

LEMMA CardsGoto ==
  ASSUME CardsInv, NEW u \in Users, NEW a \in CardAts, Cards!Goto(u, a),
         db'.audit = db.audit \/ \E e : db'.audit = db.audit \cup {e}, a \notin {"card", "auditMove"},
         a = "commit" => CardsStep(proc[u].was, proc[u].want) /\ [from |-> proc[u].was, to |-> proc[u].want] \in db'.audit,
         a = "eventDraft" => [from |-> "none", to |-> "draft"] \in db'.audit
  PROVE  /\ \A x \in Users : CardsWork(x)'
         /\ \A x \in Users : proc'[x] = [at |-> proc'[x].at, was |-> proc'[x].was, want |-> proc'[x].want, card |-> proc'[x].card]
         /\ DOMAIN proc' = Users
<1>1. PICK q : q = [at |-> a, was |-> proc[u].was, want |-> proc[u].want, card |-> proc[u].card]
  OBVIOUS
<1>2. [proc[u] EXCEPT !.at = a] = q
  BY <1>1 DEF CardsInv, CardsTyped
<1>3. proc' = [proc EXCEPT ![u] = q]
  BY <1>2 DEF Cards!Goto, CardsInv, CardsTyped
<1>4. q = [at |-> q.at, was |-> q.was, want |-> q.want, card |-> q.card] /\ q.at = a /\ q.was = proc[u].was /\ q.want = proc[u].want
  BY <1>1
<1> QED
  BY <1>3, <1>4, CardsMoves

\* The same of a list of events, a status and an audit trail.
CardsMovesOf(ev) == {i \in DOMAIN ev : ev[i].from # "none"}
CardsLead(ev, s, n) ==
  \/ s = "draft" /\ \A i \in CardsMovesOf(ev) : n <= i
  \/ \E i \in CardsMovesOf(ev) : i < n /\ ev[i].to = s /\ \A j \in CardsMovesOf(ev) : j < n => j <= i
CardsTrail(ev, report, audit) ==
  /\ \A i \in CardsMovesOf(ev) : CardsLead(ev, ev[i].from, i) /\ CardsStep(ev[i].from, ev[i].to)
  /\ report # "none" => CardsLead(ev, report, Len(ev) + 1)
  /\ \A i \in DOMAIN ev : ev[i] \in audit

LEMMA CardsTrailIs == Cards!HistoryIsThePath <=> CardsTrail(db.events, db.report, db.audit)
  BY Zenon DEF Cards!HistoryIsThePath, CardsTrail, CardsLead, Cards!LeadsTo, Cards!Moves, CardsMovesOf, CardsStep

LEMMA CardsTrailNext == Cards!HistoryIsThePath' <=> CardsTrail(db'.events, db'.report, db'.audit)
  BY Zenon DEF Cards!HistoryIsThePath, CardsTrail, CardsLead, Cards!LeadsTo, Cards!Moves, CardsMovesOf, CardsStep

\* What leaves the history and the status of the report alone, or grows the trail.
LEMMA CardsHistory ==
  ASSUME CardsInv, db'.report \in {"none", db.report}, db'.events \in {<<>>, db.events},
         db'.report = "none" \/ db'.events = db.events,
         db'.audit = db.audit \/ \E e : db'.audit = db.audit \cup {e}
  PROVE  Cards!HistoryIsThePath'
<1>1. CardsTrail(db.events, db.report, db.audit)
  BY CardsTrailIs DEF CardsInv
<1>2. db.audit \subseteq db'.audit
  OBVIOUS
<1>3. CASE db'.events = db.events
  BY <1>1, <1>2, <1>3, CardsTrailNext DEF CardsTrail
<1>4. CASE db'.events # db.events
  <2>1. db'.events = <<>> /\ db'.report = "none"
    BY <1>4
  <2>2. DOMAIN db'.events = {} /\ CardsMovesOf(db'.events) = {}
    BY <2>1 DEF CardsMovesOf
  <2>3. CardsTrail(db'.events, db'.report, db'.audit)
    BY <2>1, <2>2 DEF CardsTrail
  <2> QED
    BY <2>3, CardsTrailNext
<1> QED
  BY <1>3, <1>4

\* An event is written behind the others.
LEMMA CardsAppended ==
  ASSUME NEW ev \in Seq(CardEvents), NEW audit, NEW report, CardsTrail(ev, report, audit),
         NEW e \in CardEvents, NEW w, w = Append(ev, e), e \in audit, NEW status,
         \/ e.from = "none" /\ status = report
         \/ CardsStep(e.from, e.to) /\ report = e.from /\ status = e.to
  PROVE  CardsTrail(w, status, audit)
<1> DEFINE n == Len(ev)
           M == CardsMovesOf(ev)
           N == CardsMovesOf(w)
<1>1. n \in Nat
  OBVIOUS
<1>2. /\ Len(w) = n + 1 /\ DOMAIN w = 1 .. n + 1 /\ DOMAIN ev = 1 .. n
      /\ w[n + 1] = e /\ \A i \in 1 .. n : w[i] = ev[i]
  OBVIOUS
<1>3. /\ \A i \in M : i \in Nat /\ i <= n /\ i \in 1 .. n /\ i \in N /\ w[i] = ev[i]
      /\ \A i \in N : i \in M \/ (i = n + 1 /\ e.from # "none")
      /\ e.from # "none" => n + 1 \in N
  BY <1>1, <1>2 DEF CardsMovesOf
<1>9. CardsStep(e.from, e.to) => e.from # "none"
  BY CardsPath DEF CardsStep
<1> HIDE DEF n, M, N
<1>10. /\ \A i \in M : CardsLead(ev, ev[i].from, i) /\ CardsStep(ev[i].from, ev[i].to)
       /\ report # "none" => CardsLead(ev, report, n + 1)
       /\ \A i \in DOMAIN ev : ev[i] \in audit
  BY DEF CardsTrail, M, n
<1>4. ASSUME NEW s, NEW k \in 1 .. n + 1, CardsLead(ev, s, k) PROVE CardsLead(w, s, k)
  <2>1. CASE s = "draft" /\ \A i \in M : k <= i
    <3>1. \A i \in N : k <= i
      BY <2>1, <1>1, <1>3
    <3> QED
      BY <2>1, <3>1 DEF CardsLead, N
  <2>2. CASE \E i \in M : i < k /\ ev[i].to = s /\ \A j \in M : j < k => j <= i
    <3>1. PICK i \in M : i < k /\ ev[i].to = s /\ \A j \in M : j < k => j <= i
      BY <2>2
    <3>2. \A j \in N : j < k => j <= i
      BY <3>1, <1>1, <1>3
    <3>3. i \in N /\ i < k /\ w[i].to = s
      BY <3>1, <1>3
    <3> QED
      BY <3>2, <3>3 DEF CardsLead, N
  <2> QED
    BY <1>4, <2>1, <2>2 DEF CardsLead, M
<1>5. ASSUME NEW i \in N PROVE CardsLead(w, w[i].from, i) /\ CardsStep(w[i].from, w[i].to)
  <2>1. CASE i \in M
    <3>1. i \in 1 .. n /\ w[i] = ev[i]
      BY <2>1, <1>3
    <3>2. i \in 1 .. n + 1
      BY <3>1, <1>1
    <3> QED
      BY <2>1, <3>1, <3>2, <1>4, <1>10
  <2>2. CASE i = n + 1 /\ e.from # "none"
    <3>1. report # "none" /\ report = e.from /\ CardsStep(e.from, e.to)
      BY <2>2
    <3>2. CardsLead(w, report, n + 1)
      BY <3>1, <1>1, <1>4, <1>10
    <3> QED
      BY <2>2, <3>1, <3>2, <1>2 DEF n
  <2> QED
    BY <2>1, <2>2, <1>3
<1>6. status # "none" => CardsLead(w, status, n + 2)
  <2>1. CASE e.from = "none"
    <3>1. \A i \in N : i \in M
      BY <2>1, <1>3
    <3>2. status = report
      BY <2>1, <1>9
    <3>3. CASE report = "draft" /\ \A i \in M : n + 1 <= i
      <4>1. \A i \in N : n + 2 <= i
        BY <3>1, <3>3, <1>1, <1>3
      <4> QED
        BY <3>2, <3>3, <4>1 DEF CardsLead, N
    <3>4. CASE \E i \in M : i < n + 1 /\ ev[i].to = report /\ \A j \in M : j < n + 1 => j <= i
      <4>1. PICK i \in M : ev[i].to = report /\ \A j \in M : j < n + 1 => j <= i
        BY <3>4
      <4>4. \A j \in N : j \in M /\ j < n + 1
        BY <3>1, <1>1, <1>3
      <4>2. \A j \in N : j <= i
        BY <4>1, <4>4
      <4>5. i \in N /\ i \in Nat /\ i <= n /\ w[i] = ev[i]
        BY <1>3
      <4>3. i \in N /\ i < n + 2 /\ w[i].to = status
        BY <3>2, <4>1, <4>5, <1>1
      <4> QED
        BY <4>2, <4>3 DEF CardsLead, N
    <3> QED
      BY <3>2, <3>3, <3>4, <1>10 DEF CardsLead, M
  <2>2. CASE e.from # "none"
    <3>1. n + 1 \in N /\ status = e.to /\ w[n + 1].to = e.to
      BY <2>2, <1>2, <1>3 DEF n
    <3>2. \A i \in N : i <= n + 1
      BY <1>1, <1>3
    <3>3. n + 1 < n + 2
      BY <1>1
    <3> QED
      BY <3>1, <3>2, <3>3 DEF CardsLead, N
  <2> QED
    BY <2>1, <2>2
<1>7. \A i \in DOMAIN w : w[i] \in audit
  BY <1>1, <1>2, <1>10 DEF n
<1>8. Len(w) + 1 = n + 2
  BY <1>1, <1>2 DEF n
<1> QED
  BY <1>5, <1>6, <1>7, <1>8 DEF CardsTrail, N

LEMMA CardsAppend ==
  ASSUME CardsInv, NEW e \in CardEvents, db'.events = Append(db.events, e), db'.audit = db.audit, e \in db.audit,
         \/ e.from = "none" /\ db'.report = db.report
         \/ CardsStep(e.from, e.to) /\ db.report = e.from /\ db'.report = e.to
  PROVE  Cards!HistoryIsThePath'
<1>1. PICK ev, w, report, status, audit :
        /\ ev = db.events /\ w = db'.events /\ report = db.report /\ status = db'.report /\ audit = db.audit
  OBVIOUS
<1>2. ev \in Seq(CardEvents) /\ w = Append(ev, e) /\ e \in audit /\ CardsTrail(ev, report, audit)
  BY <1>1, CardsTrailIs DEF CardsInv, CardsTyped
<1>3. \/ e.from = "none" /\ status = report
      \/ CardsStep(e.from, e.to) /\ report = e.from /\ status = e.to
  BY <1>1
<1>4. CardsTrail(w, status, audit)
  BY <1>2, <1>3, CardsAppended
<1> QED
  BY <1>1, <1>4, CardsTrailNext

\* An action that moves the request to `p`, and at most the trail, the card or a
\* creation with it.
LEMMA CardsRow ==
  ASSUME CardsInv, NEW card \in CardRows, NEW report \in CardReports \cup {"none"}, NEW events \in Seq(CardEvents), NEW audit,
         db' = [card |-> card, report |-> report, events |-> events, audit |-> audit],
         hist'.clock \in Nat, hist' = [stale |-> hist'.stale, steps |-> hist'.steps, clock |-> hist'.clock],
         \A x \in Users : proc'[x] = [at |-> proc'[x].at, was |-> proc'[x].was, want |-> proc'[x].want, card |-> proc'[x].card],
         DOMAIN proc' = Users
  PROVE  CardsTyped'
  BY DEF CardsTyped

LEMMA CardsFields ==
  ASSUME CardsInv
  PROVE  /\ db.card \in CardRows /\ db.report \in CardReports \cup {"none"} /\ db.events \in Seq(CardEvents)
         /\ \A v : [db EXCEPT !.card = v] = [card |-> v, report |-> db.report, events |-> db.events, audit |-> db.audit]
         /\ \A v : [db EXCEPT !.report = v] = [card |-> db.card, report |-> v, events |-> db.events, audit |-> db.audit]
         /\ \A v : [db EXCEPT !.events = v] = [card |-> db.card, report |-> db.report, events |-> v, audit |-> db.audit]
         /\ \A v : [db EXCEPT !.audit = v] = [card |-> db.card, report |-> db.report, events |-> db.events, audit |-> v]
         /\ \A v, w : [db EXCEPT !.report = v, !.events = w] = [card |-> db.card, report |-> v, events |-> w, audit |-> db.audit]
         /\ hist.clock \in Nat /\ hist = [stale |-> hist.stale, steps |-> hist.steps, clock |-> hist.clock]
<1>1. db = [card |-> db.card, report |-> db.report, events |-> db.events, audit |-> db.audit]
  BY DEF CardsInv, CardsTyped
<1>2. ASSUME NEW v, NEW w
      PROVE  [db EXCEPT !.report = v, !.events = w] = [card |-> db.card, report |-> v, events |-> w, audit |-> db.audit]
  <2>1. PICK q1 : q1 = [db EXCEPT !.report = v]
    OBVIOUS
  <2>2. q1 = [card |-> db.card, report |-> v, events |-> db.events, audit |-> db.audit]
    BY <1>1, <2>1
  <2>3. PICK q2 : q2 = [q1 EXCEPT !.events = w]
    OBVIOUS
  <2>4. q2 = [card |-> db.card, report |-> v, events |-> w, audit |-> db.audit]
    BY <2>2, <2>3
  <2> QED
    BY <2>1, <2>3, <2>4
<1>3. /\ \A v : [db EXCEPT !.card = v] = [card |-> v, report |-> db.report, events |-> db.events, audit |-> db.audit]
      /\ \A v : [db EXCEPT !.report = v] = [card |-> db.card, report |-> v, events |-> db.events, audit |-> db.audit]
  BY <1>1
<1>4. /\ \A v : [db EXCEPT !.events = v] = [card |-> db.card, report |-> db.report, events |-> v, audit |-> db.audit]
      /\ \A v : [db EXCEPT !.audit = v] = [card |-> db.card, report |-> db.report, events |-> db.events, audit |-> v]
  BY <1>1
<1> QED
  BY <1>2, <1>3, <1>4 DEF CardsInv, CardsTyped

\* What changes neither the card nor the report's row.
LEMMA CardsBeside ==
  ASSUME CardsInv, db' = db, hist'.clock = hist.clock,
         hist' = [stale |-> hist'.stale, steps |-> hist'.steps, clock |-> hist'.clock],
         \A x \in Users : CardsWork(x)',
         \A x \in Users : proc'[x] = [at |-> proc'[x].at, was |-> proc'[x].was, want |-> proc'[x].want, card |-> proc'[x].card],
         DOMAIN proc' = Users
  PROVE  CardsInv'
<1>1. Cards!HistoryIsThePath'
  BY CardsHistory
<1>2. CardsTyped'
  BY DEF CardsInv, CardsTyped
<1> QED
  BY <1>1, <1>2 DEF CardsInv

LEMMA CardsSteps ==
  ASSUME CardsInv, hist' = [hist EXCEPT !.steps = @ + 1]
  PROVE  hist'.clock = hist.clock /\ hist' = [stale |-> hist'.stale, steps |-> hist'.steps, clock |-> hist'.clock]
  BY DEF CardsInv, CardsTyped

LEMMA CardsMove == ASSUME CardsInv, NEW u \in Users, NEW s \in CardStatuses, Cards!Move(u, s) PROVE CardsInv'
<1>1. PICK c \in CardRows : c = db.card
  BY CardsFields
<1>2. PICK q : q = [Cards!Idle EXCEPT !.at = "card", !.want = s, !.card = c]
  OBVIOUS
<1>3. q = [at |-> "card", was |-> "none", want |-> s, card |-> c]
  <2>1. PICK q1 : q1 = [Cards!Idle EXCEPT !.at = "card"]
    OBVIOUS
  <2>2. q1 = [at |-> "card", was |-> "none", want |-> "none", card |-> [status |-> "none"]]
    BY <2>1, CardsIdle
  <2>3. PICK q2 : q2 = [q1 EXCEPT !.want = s]
    OBVIOUS
  <2>4. q2 = [at |-> "card", was |-> "none", want |-> s, card |-> [status |-> "none"]]
    BY <2>2, <2>3
  <2>5. PICK q3 : q3 = [q2 EXCEPT !.card = c]
    OBVIOUS
  <2>6. q3 = [at |-> "card", was |-> "none", want |-> s, card |-> c]
    BY <2>4, <2>5
  <2> QED
    BY <1>2, <2>1, <2>3, <2>5, <2>6
<1>4. proc' = [proc EXCEPT ![u] = q] /\ UNCHANGED db /\ hist' = [hist EXCEPT !.steps = @ + 1]
  BY <1>1, <1>2 DEF Cards!Move
<1>5. s \in {c.status} \cup Cards!Allowed[c.status]
  BY <1>1 DEF Cards!Move
<1>6. /\ q = [at |-> q.at, was |-> q.was, want |-> q.want, card |-> q.card]
      /\ q.at = "card" /\ q.card = c /\ q.want = s /\ q.at \in CardAts
  BY <1>3 DEF CardAts
<1>7. /\ \A x \in Users : CardsWork(x)'
      /\ \A x \in Users : proc'[x] = [at |-> proc'[x].at, was |-> proc'[x].was, want |-> proc'[x].want, card |-> proc'[x].card]
      /\ DOMAIN proc' = Users
  BY <1>4, <1>5, <1>6, CardsMoves
<1> QED
  BY <1>4, <1>7, CardsSteps, CardsBeside

\* The card that a move writes.
CardsWritten(p, now, bounty) ==
  [status |-> p.want,
   submitted |-> IF p.want = "submitted" /\ p.card.submitted = 0 THEN now ELSE db.card.submitted,
   resolved |-> IF p.want \in {"resolved", "paid"} /\ p.card.resolved = 0 THEN now ELSE db.card.resolved,
   amount |-> db.card.amount \/ bounty]

LEMMA CardsWrites ==
  ASSUME CardsInv, NEW u \in Users, NEW b \in BOOLEAN, Cards!WriteMove(u, b)
  PROVE  /\ CardsInv'
         /\ db'.card = CardsWritten(proc[u], hist.clock, b) /\ (~hist'.stale => db.card = proc[u].card)
         /\ proc[u].want \in {proc[u].card.status} \cup Cards!Allowed[proc[u].card.status]
<1>1. PICK c : c = CardsWritten(proc[u], hist.clock, b)
  OBVIOUS
<1>2. db' = [db EXCEPT !.card = c]
  BY <1>1 DEF Cards!WriteMove, CardsWritten
<1>3. db' = [card |-> c, report |-> db.report, events |-> db.events, audit |-> db.audit]
  BY <1>2, CardsFields
<1>4. proc[u].at = "card"
  BY DEF Cards!WriteMove, Cards!At
<1>5. proc[u].want \in CardStatuses /\ proc[u].want \in {proc[u].card.status} \cup Cards!Allowed[proc[u].card.status]
  BY <1>4 DEF CardsInv, CardsWork
<1>6. c \in CardRows
  <2>1. hist.clock \in Nat /\ db.card.submitted \in Nat /\ db.card.resolved \in Nat /\ db.card.amount \in BOOLEAN
    BY CardsFields DEF CardRows
  <2>2. (db.card.amount \/ b) \in BOOLEAN
    OBVIOUS
  <2>3. PICK a \in BOOLEAN : a = (db.card.amount \/ b)
    BY <2>2, Zenon
  <2>4. PICK d \in Nat : d = IF proc[u].want = "submitted" /\ proc[u].card.submitted = 0 THEN hist.clock ELSE db.card.submitted
    BY <2>1
  <2>5. PICK r \in Nat : r = IF proc[u].want \in {"resolved", "paid"} /\ proc[u].card.resolved = 0 THEN hist.clock ELSE db.card.resolved
    BY <2>1
  <2>6. c = [status |-> proc[u].want, submitted |-> d, resolved |-> r, amount |-> a]
    BY <1>1, <2>3, <2>4, <2>5, Zenon DEF CardsWritten
  <2> QED
    BY <1>5, <2>6 DEF CardRows
<1>7. hist' = [hist EXCEPT !.clock = @ + 1, !.stale = @ \/ db.card # proc[u].card] /\ Cards!Back(u)
  BY DEF Cards!WriteMove
<1>8. hist' = [stale |-> (hist.stale \/ db.card # proc[u].card), steps |-> hist.steps, clock |-> hist.clock + 1]
  <2>1. PICK q1 : q1 = [hist EXCEPT !.clock = @ + 1]
    OBVIOUS
  <2>2. q1 = [stale |-> hist.stale, steps |-> hist.steps, clock |-> hist.clock + 1]
    BY <2>1, CardsFields
  <2>3. hist' = [q1 EXCEPT !.stale = @ \/ db.card # proc[u].card]
    BY <1>7, <2>1, Zenon
  <2>4. \A v : [q1 EXCEPT !.stale = v] = [stale |-> v, steps |-> hist.steps, clock |-> hist.clock + 1]
    BY <2>2
  <2>5. q1.stale = hist.stale
    BY <2>2
  <2> QED
    BY <2>3, <2>4, <2>5, Zenon
<1>9. /\ hist'.clock \in Nat /\ hist' = [stale |-> hist'.stale, steps |-> hist'.steps, clock |-> hist'.clock]
      /\ ~hist'.stale => db.card = proc[u].card
  <2>1. PICK z : z = (hist.stale \/ db.card # proc[u].card)
    BY Zenon
  <2>2. hist' = [stale |-> z, steps |-> hist.steps, clock |-> hist.clock + 1]
    BY <1>8, <2>1, Zenon
  <2>3. hist'.stale = z /\ hist'.clock = hist.clock + 1 /\ hist' = [stale |-> hist'.stale, steps |-> hist'.steps, clock |-> hist'.clock]
    BY <2>2
  <2>4. ~z => db.card = proc[u].card
    BY <2>1, Zenon
  <2>5. ~hist'.stale => db.card = proc[u].card
    BY <2>3, <2>4, Zenon
  <2>6. hist.clock \in Nat
    BY CardsFields
  <2> QED
    BY <2>3, <2>5, <2>6
<1>10. db'.audit = db.audit /\ db'.report = db.report /\ db'.events = db.events /\ db'.card = c
  BY <1>3
<1>11. /\ \A x \in Users : CardsWork(x)'
       /\ \A x \in Users : proc'[x] = [at |-> proc'[x].at, was |-> proc'[x].was, want |-> proc'[x].want, card |-> proc'[x].card]
       /\ DOMAIN proc' = Users
  BY <1>7, <1>10, CardsBack
<1>12. CardsTyped'
  BY <1>3, <1>6, <1>9, <1>11, CardsFields, CardsRow
<1>13. Cards!HistoryIsThePath'
  BY <1>10, CardsHistory
<1> QED
  BY <1>1, <1>5, <1>9, <1>10, <1>11, <1>12, <1>13 DEF CardsInv

\* A step of the report's row, its history or its trail.
LEMMA CardsReportStep ==
  ASSUME CardsInv, NEW report \in CardReports \cup {"none"}, NEW events \in Seq(CardEvents), NEW audit,
         db' = [card |-> db.card, report |-> report, events |-> events, audit |-> audit], UNCHANGED hist,
         Cards!HistoryIsThePath', \A x \in Users : CardsWork(x)',
         \A x \in Users : proc'[x] = [at |-> proc'[x].at, was |-> proc'[x].was, want |-> proc'[x].want, card |-> proc'[x].card],
         DOMAIN proc' = Users
  PROVE  CardsInv'
  BY CardsFields, CardsRow DEF CardsInv

LEMMA CardsCreate == ASSUME CardsInv, NEW u \in Users, Cards!Create(u) PROVE CardsInv'
<1>1. db' = [card |-> db.card, report |-> "draft", events |-> db.events, audit |-> db.audit]
  BY CardsFields DEF Cards!Create
<1>2. Cards!Goto(u, "auditDraft") /\ UNCHANGED hist /\ db.events = <<>> /\ "auditDraft" \in CardAts
  BY DEF Cards!Create, CardAts
<1>3. db'.audit = db.audit /\ db'.report = "draft" /\ db'.events = <<>>
  BY <1>1, <1>2
<1>4. Cards!HistoryIsThePath'
  <2>1. DOMAIN db'.events = {} /\ CardsMovesOf(db'.events) = {}
    BY <1>3 DEF CardsMovesOf
  <2>2. CardsTrail(db'.events, db'.report, db'.audit)
    BY <1>3, <2>1 DEF CardsTrail, CardsLead
  <2> QED
    BY <2>2, CardsTrailNext
<1>5. /\ \A x \in Users : CardsWork(x)'
      /\ \A x \in Users : proc'[x] = [at |-> proc'[x].at, was |-> proc'[x].was, want |-> proc'[x].want, card |-> proc'[x].card]
      /\ DOMAIN proc' = Users
  BY <1>2, <1>3, CardsGoto
<1>6. "draft" \in CardReports
  BY DEF CardReports
<1> QED
  BY <1>1, <1>2, <1>4, <1>5, <1>6, CardsFields, CardsReportStep

LEMMA CardsAudit ==
  ASSUME CardsInv, NEW u \in Users, Cards!AuditDraft(u) \/ Cards!AuditMove(u)
  PROVE  CardsInv'
<1>1. ASSUME NEW e, NEW a \in CardAts, db' = [db EXCEPT !.audit = @ \cup {e}], Cards!Goto(u, a), UNCHANGED hist,
             \/ a = "eventDraft" /\ e = [from |-> "none", to |-> "draft"]
             \/ a = "commit" /\ e = Cards!Event(u) /\ proc[u].at = "auditMove"
      PROVE  CardsInv'
  <2>1. db' = [card |-> db.card, report |-> db.report, events |-> db.events, audit |-> db.audit \cup {e}]
    BY <1>1, CardsFields
  <2>2. db'.report = db.report /\ db'.events = db.events /\ db'.audit = db.audit \cup {e} /\ e \in db'.audit
    BY <2>1
  <2>3. Cards!HistoryIsThePath'
    BY <2>2, CardsHistory
  <2>4. a = "commit" => CardsStep(proc[u].was, proc[u].want) /\ [from |-> proc[u].was, to |-> proc[u].want] \in db'.audit
    BY <1>1, <2>2 DEF CardsInv, CardsWork, Cards!Event
  <2>5. a = "eventDraft" => [from |-> "none", to |-> "draft"] \in db'.audit
    BY <1>1, <2>2
  <2>6. a \notin {"card", "auditMove"}
    BY <1>1
  <2>7. /\ \A x \in Users : CardsWork(x)'
        /\ \A x \in Users : proc'[x] = [at |-> proc'[x].at, was |-> proc'[x].was, want |-> proc'[x].want, card |-> proc'[x].card]
        /\ DOMAIN proc' = Users
    BY <1>1, <2>2, <2>4, <2>5, <2>6, CardsGoto
  <2> QED
    BY <1>1, <2>1, <2>3, <2>7, CardsFields, CardsReportStep
<1>2. ASSUME UNCHANGED <<db, hist>>, Cards!Goto(u, "undo") \/ Cards!Back(u) PROVE CardsInv'
  <2>1. "undo" \in CardAts /\ db'.audit = db.audit
    BY <1>2 DEF CardAts
  <2>2. /\ \A x \in Users : CardsWork(x)'
        /\ \A x \in Users : proc'[x] = [at |-> proc'[x].at, was |-> proc'[x].was, want |-> proc'[x].want, card |-> proc'[x].card]
        /\ DOMAIN proc' = Users
    BY <1>2, <2>1, CardsGoto, CardsBack
  <2> QED
    BY <1>2, <2>2, CardsFields, CardsBeside
<1>3. "eventDraft" \in CardAts /\ "commit" \in CardAts
  BY DEF CardAts
<1> QED
  BY <1>1, <1>2, <1>3 DEF Cards!AuditDraft, Cards!AuditMove, Cards!At

LEMMA CardsUndo == ASSUME CardsInv, NEW u \in Users, Cards!Undo(u) PROVE CardsInv'
<1>1. PICK e : e = <<>>
  OBVIOUS
<1>2. db' = [card |-> db.card, report |-> "none", events |-> e, audit |-> db.audit] /\ Cards!Back(u) /\ UNCHANGED hist
  BY <1>1, CardsFields DEF Cards!Undo
<1>3. db'.report = "none" /\ db'.events = <<>> /\ db'.audit = db.audit
  BY <1>1, <1>2
<1>4. Cards!HistoryIsThePath'
  BY <1>3, CardsHistory
<1>5. e \in Seq(CardEvents)
  BY <1>1
<1>6. /\ \A x \in Users : CardsWork(x)'
      /\ \A x \in Users : proc'[x] = [at |-> proc'[x].at, was |-> proc'[x].was, want |-> proc'[x].want, card |-> proc'[x].card]
      /\ DOMAIN proc' = Users
  BY <1>2, <1>3, CardsBack
<1> QED
  BY <1>2, <1>4, <1>5, <1>6, CardsReportStep

\* The event of a creation or of a step, which its request has audited.
LEMMA CardsLogged ==
  ASSUME CardsInv, NEW u \in Users, Cards!EventDraft(u) \/ Cards!Commit(u)
  PROVE  CardsInv'
<1>1. ASSUME NEW e \in CardEvents, NEW report \in CardReports \cup {"none"}, e \in db.audit, Cards!Back(u), UNCHANGED hist,
             db' = [card |-> db.card, report |-> report, events |-> Append(db.events, e), audit |-> db.audit],
             \/ e.from = "none" /\ report = db.report
             \/ CardsStep(e.from, e.to) /\ db.report = e.from /\ report = e.to
      PROVE  CardsInv'
  <2>6. db.events \in Seq(CardEvents)
    BY CardsFields
  <2>7. Append(db.events, e) \in Seq(CardEvents)
    BY <2>6
  <2>1. PICK w \in Seq(CardEvents) : w = Append(db.events, e)
    BY <2>7
  <2>2. db' = [card |-> db.card, report |-> report, events |-> w, audit |-> db.audit]
    BY <1>1, <2>1
  <2>3. db'.events = Append(db.events, e) /\ db'.audit = db.audit /\ db'.report = report
    BY <2>1, <2>2
  <2>4. Cards!HistoryIsThePath'
    BY <1>1, <2>3, CardsAppend
  <2>5. /\ \A x \in Users : CardsWork(x)'
        /\ \A x \in Users : proc'[x] = [at |-> proc'[x].at, was |-> proc'[x].was, want |-> proc'[x].want, card |-> proc'[x].card]
        /\ DOMAIN proc' = Users
    BY <1>1, <2>3, CardsBack
  <2> QED
    BY <1>1, <2>2, <2>4, <2>5, CardsReportStep
<1>2. CASE Cards!EventDraft(u)
  <2>1. PICK e : e = [from |-> "none", to |-> "draft"]
    OBVIOUS
  <2>2. e \in CardEvents /\ e.from = "none"
    BY <2>1 DEF CardEvents, CardReports
  <2>3. e \in db.audit
    BY <1>2, <2>1 DEF Cards!EventDraft, Cards!At, CardsInv, CardsWork
  <2>4. db' = [card |-> db.card, report |-> db.report, events |-> Append(db.events, e), audit |-> db.audit] /\ Cards!Back(u) /\ UNCHANGED hist
    BY <1>2, <2>1, CardsFields DEF Cards!EventDraft
  <2> QED
    BY <2>2, <2>3, <2>4, <1>1, CardsFields
<1>3. CASE Cards!Commit(u) /\ db.report # proc[u].was
  <2>1. db' = db /\ UNCHANGED hist /\ Cards!Back(u) /\ db'.audit = db.audit
    BY <1>3 DEF Cards!Commit
  <2>2. /\ \A x \in Users : CardsWork(x)'
        /\ \A x \in Users : proc'[x] = [at |-> proc'[x].at, was |-> proc'[x].was, want |-> proc'[x].want, card |-> proc'[x].card]
        /\ DOMAIN proc' = Users
    BY <2>1, CardsBack
  <2> QED
    BY <2>1, <2>2, CardsFields, CardsBeside
<1>4. CASE Cards!Commit(u) /\ db.report = proc[u].was
  <2>1. PICK was, want : was = proc[u].was /\ want = proc[u].want
    OBVIOUS
  <2>2. CardsStep(was, want) /\ [from |-> was, to |-> want] \in db.audit
    BY <1>4, <2>1 DEF Cards!Commit, Cards!At, CardsInv, CardsWork
  <2>3. was \in CardReports /\ want \in CardReports
    BY <2>2, CardsPath DEF CardsStep
  <2>4. PICK e : e = [from |-> was, to |-> want]
    OBVIOUS
  <2>5. e \in CardEvents /\ e.from = was /\ e.to = want /\ e \in db.audit
    BY <2>2, <2>3, <2>4 DEF CardEvents
  <2>6. db' = [card |-> db.card, report |-> want, events |-> Append(db.events, e), audit |-> db.audit] /\ Cards!Back(u) /\ UNCHANGED hist
    BY <1>4, <2>1, <2>4, CardsFields DEF Cards!Commit, Cards!Event
  <2> QED
    BY <1>4, <2>1, <2>2, <2>3, <2>5, <2>6, <1>1
<1> QED
  BY <1>2, <1>3, <1>4

LEMMA CardsAdvance == ASSUME CardsInv, NEW u \in Users, Cards!Advance(u) PROVE CardsInv'
<1>1. PICK was, want : was = db.report /\ want = Cards!NextOf(db.report)
  OBVIOUS
<1>2. was \in CardReports /\ want # "none" /\ CardsStep(was, want)
  BY <1>1, CardsFields, CardsPath DEF Cards!Advance
<1>3. PICK q : q = [Cards!Idle EXCEPT !.at = "auditMove", !.was = was, !.want = want]
  OBVIOUS
<1>4. q = [at |-> "auditMove", was |-> was, want |-> want, card |-> [status |-> "none"]]
  <2>1. PICK q1 : q1 = [Cards!Idle EXCEPT !.at = "auditMove"]
    OBVIOUS
  <2>2. q1 = [at |-> "auditMove", was |-> "none", want |-> "none", card |-> [status |-> "none"]]
    BY <2>1, CardsIdle
  <2>3. PICK q2 : q2 = [q1 EXCEPT !.was = was]
    OBVIOUS
  <2>4. q2 = [at |-> "auditMove", was |-> was, want |-> "none", card |-> [status |-> "none"]]
    BY <2>2, <2>3
  <2>5. PICK q3 : q3 = [q2 EXCEPT !.want = want]
    OBVIOUS
  <2>6. q3 = [at |-> "auditMove", was |-> was, want |-> want, card |-> [status |-> "none"]]
    BY <2>4, <2>5
  <2> QED
    BY <1>3, <2>1, <2>3, <2>5, <2>6
<1>5. proc' = [proc EXCEPT ![u] = q] /\ UNCHANGED db /\ hist' = [hist EXCEPT !.steps = @ + 1]
  BY <1>1, <1>3 DEF Cards!Advance
<1>6. /\ q = [at |-> q.at, was |-> q.was, want |-> q.want, card |-> q.card]
      /\ q.at = "auditMove" /\ q.was = was /\ q.want = want /\ q.at \in CardAts
  BY <1>4 DEF CardAts
<1>7. /\ \A x \in Users : CardsWork(x)'
      /\ \A x \in Users : proc'[x] = [at |-> proc'[x].at, was |-> proc'[x].was, want |-> proc'[x].want, card |-> proc'[x].card]
      /\ DOMAIN proc' = Users
  BY <1>2, <1>5, <1>6, CardsMoves
<1> QED
  BY <1>5, <1>7, CardsSteps, CardsBeside

LEMMA CardsCrash == ASSUME CardsInv, NEW u \in Users, Cards!Crash(u) PROVE CardsInv'
<1>1. Cards!Back(u) /\ db' = db /\ hist' = hist /\ db'.audit = db.audit
  BY DEF Cards!Crash
<1>2. /\ \A x \in Users : CardsWork(x)'
      /\ \A x \in Users : proc'[x] = [at |-> proc'[x].at, was |-> proc'[x].was, want |-> proc'[x].want, card |-> proc'[x].card]
      /\ DOMAIN proc' = Users
  BY <1>1, CardsBack
<1> QED
  BY <1>1, <1>2, CardsFields, CardsBeside

\* Only a move writes the card.
LEMMA CardsKept ==
  ASSUME CardsInv, NEW u \in Users,
         \/ Cards!Create(u) \/ Cards!AuditDraft(u) \/ Cards!Undo(u) \/ Cards!EventDraft(u) \/ Cards!Advance(u)
         \/ Cards!AuditMove(u) \/ Cards!Commit(u) \/ Cards!Crash(u) \/ \E s \in DOMAIN Cards!Allowed : Cards!Move(u, s)
  PROVE  db'.card = db.card
<1>1. CASE Cards!Undo(u)
  BY <1>1, CardsFields DEF Cards!Undo
<1>2. CASE Cards!Commit(u)
  BY <1>2, CardsFields DEF Cards!Commit
<1>3. CASE Cards!Create(u) \/ Cards!Advance(u) \/ Cards!Crash(u) \/ \E s \in DOMAIN Cards!Allowed : Cards!Move(u, s)
  BY <1>3, CardsFields DEF Cards!Create, Cards!Advance, Cards!Crash, Cards!Move
<1>4. CASE Cards!AuditDraft(u) \/ Cards!AuditMove(u) \/ Cards!EventDraft(u)
  BY <1>4, CardsFields DEF Cards!AuditDraft, Cards!AuditMove, Cards!EventDraft
<1> QED
  BY <1>1, <1>2, <1>3, <1>4

LEMMA CardsNext == ASSUME CardsInv, [Cards!Next]_(Cards!vars) PROVE CardsInv'
<1>1. CASE UNCHANGED Cards!vars
  <2>1. db' = db /\ proc' = proc /\ hist' = hist
    BY <1>1 DEF Cards!vars
  <2>2. Cards!HistoryIsThePath'
    BY <2>1, CardsHistory
  <2> QED
    BY <2>1, <2>2 DEF CardsInv, CardsTyped, CardsWork
<1>2. CASE Cards!Next
  <2>1. PICK u \in Users :
          \/ \E s \in DOMAIN Cards!Allowed : Cards!Move(u, s)
          \/ \E b \in BOOLEAN : Cards!WriteMove(u, b)
          \/ Cards!Create(u) \/ Cards!AuditDraft(u) \/ Cards!Undo(u) \/ Cards!EventDraft(u)
          \/ Cards!Advance(u) \/ Cards!AuditMove(u) \/ Cards!Commit(u) \/ Cards!Crash(u)
    BY <1>2 DEF Cards!Next
  <2>2. ASSUME \E s \in DOMAIN Cards!Allowed : Cards!Move(u, s) PROVE CardsInv'
    BY <2>2, CardsMove DEF CardStatuses
  <2> QED
    BY <2>1, <2>2, CardsWrites, CardsCreate, CardsAudit, CardsUndo, CardsLogged, CardsAdvance, CardsCrash
<1> QED
  BY <1>1, <1>2

LEMMA CardsWay == ASSUME CardsInv, [Cards!Next]_(Cards!vars), db' # db PROVE Cards!CardKeepsItsWay
<1> SUFFICES ASSUME ~hist'.stale, db'.card # db.card
             PROVE  /\ db'.card.status \in {db.card.status} \cup Cards!Allowed[db.card.status]
                    /\ db.card.submitted # 0 => db'.card.submitted = db.card.submitted
                    /\ db.card.resolved # 0 => db'.card.resolved = db.card.resolved
                    /\ Cards!Earnings = 1 => db'.card.status = "paid"
  BY DEF Cards!CardKeepsItsWay
<1>1. Cards!Next
  BY DEF Cards!vars
<1>2. PICK u \in Users, b \in BOOLEAN : Cards!WriteMove(u, b)
  BY <1>1, CardsKept DEF Cards!Next
<1>3. /\ db'.card = CardsWritten(proc[u], hist.clock, b) /\ db.card = proc[u].card
      /\ proc[u].want \in {proc[u].card.status} \cup Cards!Allowed[proc[u].card.status]
  BY <1>2, CardsWrites
<1>4. PICK c, p, k : c = db.card /\ p = proc[u] /\ p.card = c /\ k = hist.clock
  BY <1>3
<1>5. /\ db'.card.status = p.want /\ db'.card.submitted = IF p.want = "submitted" /\ c.submitted = 0 THEN k ELSE c.submitted
      /\ db'.card.resolved = IF p.want \in {"resolved", "paid"} /\ c.resolved = 0 THEN k ELSE c.resolved
  <2>1. PICK a : a = (c.amount \/ b)
    BY Zenon
  <2>2. db'.card = [status |-> p.want,
                   submitted |-> IF p.want = "submitted" /\ c.submitted = 0 THEN k ELSE c.submitted,
                   resolved |-> IF p.want \in {"resolved", "paid"} /\ c.resolved = 0 THEN k ELSE c.resolved,
                   amount |-> a]
    BY <1>3, <1>4, <2>1, Zenon DEF CardsWritten
  <2> QED
    BY <2>2
<1>6. p.want \in {c.status} \cup Cards!Allowed[c.status]
  BY <1>3, <1>4
<1>7. Cards!Earnings = 1 => c.status = "paid"
  BY <1>4 DEF Cards!Earnings
<1> QED
  BY <1>4, <1>5, <1>6, <1>7, CardsAllowed

LEMMA CardsPart == SuiteSpec => [](part = "cards" => CardsInv)
<1>1. SuiteInit => (part = "cards" => CardsInv)
  BY CardsInit DEF SuiteInit
<1>2. (part = "cards" => CardsInv) /\ [SuiteNext]_suiteVars => (part = "cards" => CardsInv)'
  <2> SUFFICES ASSUME part = "cards", CardsInv, [SuiteNext]_suiteVars PROVE CardsInv'
    BY DEF SuiteNext, suiteVars
  <2>1. [Cards!Next]_(Cards!vars)
    BY DEF SuiteNext, suiteVars, state, Cards!vars
  <2> QED
    BY <2>1, CardsNext
<1> QED
  BY <1>1, <1>2, PTL DEF SuiteSpec

\* The submission trackers: a report's history is its path to its status, all of
\* it audited, and a card that is not overwritten blindly keeps to its workflow;
\* for any number of users and of crashes between their transactions.
THEOREM WorkflowIsAlwaysKept == SuiteSpec => WorkflowIsKept
<1>1. (part = "cards" => CardsInv) /\ [SuiteNext]_suiteVars => [part = "cards" => Cards!CardKeepsItsWay]_db
  <2> SUFFICES ASSUME part = "cards", CardsInv, [SuiteNext]_suiteVars, db' # db PROVE Cards!CardKeepsItsWay
    BY DEF SuiteNext, suiteVars
  <2>1. [Cards!Next]_(Cards!vars)
    BY DEF SuiteNext, suiteVars, state, Cards!vars
  <2> QED
    BY <2>1, CardsWay
<1>2. (part = "cards" => CardsInv) => (part = "cards" => Cards!HistoryIsThePath)
  BY DEF CardsInv
<1> QED
  BY <1>1, <1>2, CardsPart, PTL DEF SuiteSpec, WorkflowIsKept
-----------------------------------------------------------------------------
(* ToolProvisioning *)

(* The inductive invariant.  A binary that was not set apart is half only     *)
(* while a process has it open, and nothing half is recorded of it, exported  *)
(* with it or on its way to it.  An object that was not set apart is written  *)
(* by one process at a time, and has its hash while it is restored.           *)

ToolStates == {"install", "installing", "check", "hash", "keep", "keeping", "record", "restoring"}

ToolRow ==
  [at : ToolStates \cup {"idle", "copy", "copying"}, tool : Tools \cup {"none"},
   sha : Provisioning!Bytes, left : SUBSET Provisioning!Files, file : Provisioning!Files \cup {"none"}]

BundleRow ==
  [on : BOOLEAN, file : [Provisioning!Files -> Provisioning!Bytes], rec : SUBSET (Tools \X Provisioning!Hashes),
   sums : [Provisioning!Files -> Provisioning!Bytes]]

ToolsHist == [ready : SUBSET Tools, dirty : SUBSET Provisioning!Files, ops : Nat, faults : Nat]

ToolsStateOK ==
  /\ db \in [file : [Provisioning!Files -> Provisioning!Bytes], rec : SUBSET (Tools \X Provisioning!Hashes),
             bundle : BundleRow]
  /\ hist \in ToolsHist

ToolRowOK(x) ==
  /\ x \in ToolRow
  /\ x.at \in ToolStates => x.tool \in Tools
  /\ x.at \in {"keep", "keeping", "record", "restoring"} => x.sha \in Provisioning!Hashes
  /\ x.at = "copying" => x.file \in Provisioning!Files

ToolsProcOK ==
  /\ DOMAIN proc = Workers
  /\ \A w \in Workers : ToolRowOK(proc[w])

\* The binary that a process has open.
WritesOf(x) ==
  IF x.at \in {"installing", "restoring"} THEN {x.tool}
  ELSE IF x.at = "copying" THEN {x.file} \cap Tools ELSE {}

\* A process is on its way from a binary to its hash, or back.
Carries(x, t) == x.at \in {"keep", "keeping", "record", "restoring"} /\ x.tool = t

BinaryHolds(t) ==
  /\ db.file[t] = "half" => \E w \in Workers : t \in WritesOf(proc[w])
  /\ <<t, "half">> \notin db.rec \cup db.bundle.rec
  /\ db.bundle.sums[t] # "half"
  /\ \A w \in Workers : Carries(proc[w], t) => proc[w].sha # "half"

WholeHashes == {"right", "wrong"}

WritesObject(x, h) == (x.at = "keeping" /\ x.sha = h) \/ (x.at = "copying" /\ x.file = h)
ReadsObject(x, h) == x.at = "restoring" /\ x.sha = h

ObjectHolds(h) ==
  /\ \A w \in Workers : WritesObject(proc[w], h) => db.file[h] = "half"
  /\ \A w \in Workers : ReadsObject(proc[w], h) => db.file[h] = h
  /\ \A v \in Workers, w \in Workers : v # w => ~(WritesObject(proc[v], h) /\ WritesObject(proc[w], h))

CopiesAccepted == \A w \in Workers : proc[w].at \in {"copy", "copying"} => Provisioning!Accepted

ToolsInv ==
  /\ ToolsStateOK /\ ToolsProcOK /\ CopiesAccepted
  /\ \A t \in Tools \ hist.dirty : BinaryHolds(t)
  /\ \A h \in WholeHashes \ hist.dirty : ObjectHolds(h)

LEMMA ToolsWrites == ASSUME NEW w PROVE Provisioning!Writes(w) = WritesOf(proc[w])
  BY DEF Provisioning!Writes, Provisioning!At, WritesOf

LEMMA WholeNames ==
  /\ WholeHashes \subseteq Provisioning!Hashes /\ Provisioning!Hashes \subseteq Provisioning!Bytes
  /\ Provisioning!Hashes \subseteq Provisioning!Files /\ Tools \subseteq Provisioning!Files
  /\ Tools \cap Provisioning!Hashes = {} /\ "half" \in Provisioning!Hashes /\ "none" \in Provisioning!Bytes
  /\ \A b \in Provisioning!Hashes : b \in WholeHashes \/ b = "half"
  /\ \A h \in WholeHashes : h # "half" /\ h # "none"
  BY ObjectsAreNoTools DEF WholeHashes, Provisioning!Hashes, Provisioning!Bytes, Provisioning!Files

LEMMA ToolsInit == Provisioning!Init => ToolsInv
<1> SUFFICES ASSUME Provisioning!Init PROVE ToolsInv
  OBVIOUS
<1> USE DEF Provisioning!Init, Provisioning!NoFiles, Provisioning!Idle, Provisioning!Bytes, Provisioning!Hashes
<1>1. ToolsStateOK
  BY DEF ToolsStateOK, BundleRow, ToolsHist
<1>2. ToolsProcOK /\ CopiesAccepted
  BY DEF ToolsProcOK, ToolRowOK, ToolRow, ToolStates, CopiesAccepted
<1>3. ASSUME NEW t \in Tools PROVE BinaryHolds(t)
  BY DEF BinaryHolds, Carries, Provisioning!Files
<1>4. ASSUME NEW h \in WholeHashes PROVE ObjectHolds(h)
  BY DEF ObjectHolds, WritesObject, ReadsObject
<1> QED
  BY <1>1, <1>2, <1>3, <1>4 DEF ToolsInv

\* One process goes on with another row.
LEMMA ToolsRow ==
  ASSUME ToolsProcOK, NEW w \in Workers, NEW r, ToolRowOK(r), proc' = [proc EXCEPT ![w] = r]
  PROVE  ToolsProcOK' /\ proc'[w] = r /\ \A v \in Workers \ {w} : proc'[v] = proc[v]
<1>1. DOMAIN proc' = Workers /\ proc'[w] = r /\ \A v \in Workers \ {w} : proc'[v] = proc[v]
  BY DEF ToolsProcOK
<1>2. ASSUME NEW v \in Workers PROVE ToolRowOK(proc'[v])
  BY <1>1 DEF ToolsProcOK
<1> QED
  BY <1>1, <1>2 DEF ToolsProcOK

\* What a step of one process owes a binary that is not set apart.
BinaryStep(w, r, t) ==
  /\ db'.file[t] = "half" => t \in WritesOf(r) \/ (db.file[t] = "half" /\ t \notin WritesOf(proc[w]))
  /\ <<t, "half">> \in db'.rec => <<t, "half">> \in db.rec \cup db.bundle.rec
  /\ Carries(r, t) => r.sha # "half"

\* And what it owes an object.
ObjectStep(w, r, h) ==
  /\ db'.file[h] # db.file[h] =>
       \A v \in Workers \ {w} : ~WritesObject(proc[v], h) /\ ~ReadsObject(proc[v], h)
  /\ ReadsObject(r, h) => db'.file[h] = h
  /\ WritesObject(r, h) => db'.file[h] = "half" /\ \A v \in Workers \ {w} : ~WritesObject(proc[v], h)

LEMMA ToolsMove ==
  ASSUME ToolsInv, NEW w \in Workers, NEW r, ToolRowOK(r), proc' = [proc EXCEPT ![w] = r],
         ToolsStateOK', hist.dirty \subseteq hist'.dirty, db'.bundle = db.bundle,
         r.at \in {"copy", "copying"} => Provisioning!Accepted,
         \A t \in Tools \ hist'.dirty : BinaryHolds(t) => BinaryStep(w, r, t),
         \A h \in WholeHashes \ hist'.dirty : ObjectHolds(h) => ObjectStep(w, r, h)
  PROVE  ToolsInv'
<1>1. ToolsProcOK' /\ proc'[w] = r /\ \A v \in Workers \ {w} : proc'[v] = proc[v]
  BY ToolsRow DEF ToolsInv
<1>2. CopiesAccepted'
  BY <1>1 DEF ToolsInv, CopiesAccepted, Provisioning!Accepted
<1>3. ASSUME NEW t \in Tools \ hist'.dirty PROVE BinaryHolds(t)'
  <2>1. BinaryHolds(t) /\ BinaryStep(w, r, t)
    BY <1>3 DEF ToolsInv
  <2>2. ASSUME db'.file[t] = "half" PROVE \E v \in Workers : t \in WritesOf(proc'[v])
    <3>1. CASE t \in WritesOf(r)
      BY <1>1, <3>1
    <3>2. CASE db.file[t] = "half" /\ t \notin WritesOf(proc[w])
      <4>1. PICK v \in Workers : t \in WritesOf(proc[v])
        BY <2>1, <3>2 DEF BinaryHolds
      <4>2. proc'[v] = proc[v]
        BY <1>1, <3>2, <4>1
      <4> QED
        BY <4>1, <4>2
    <3> QED
      BY <2>1, <2>2, <3>1, <3>2 DEF BinaryStep
  <2>3. <<t, "half">> \notin db'.rec \cup db'.bundle.rec /\ db'.bundle.sums[t] # "half"
    BY <2>1 DEF BinaryHolds, BinaryStep
  <2>4. ASSUME NEW v \in Workers, Carries(proc'[v], t) PROVE proc'[v].sha # "half"
    BY <1>1, <2>1, <2>4 DEF BinaryHolds, BinaryStep
  <2> QED
    BY <2>2, <2>3, <2>4 DEF BinaryHolds
<1>4. ASSUME NEW h \in WholeHashes \ hist'.dirty PROVE ObjectHolds(h)'
  <2>1. ObjectHolds(h) /\ ObjectStep(w, r, h)
    BY <1>4 DEF ToolsInv
  <2>2. ASSUME NEW v \in Workers, WritesObject(proc'[v], h) PROVE db'.file[h] = "half"
    BY <1>1, <2>1, <2>2 DEF ObjectHolds, ObjectStep
  <2>3. ASSUME NEW v \in Workers, ReadsObject(proc'[v], h) PROVE db'.file[h] = h
    BY <1>1, <2>1, <2>3 DEF ObjectHolds, ObjectStep
  <2>4. ASSUME NEW v \in Workers, NEW u \in Workers, v # u
        PROVE  ~(WritesObject(proc'[v], h) /\ WritesObject(proc'[u], h))
    BY <1>1, <2>1, <2>4 DEF ObjectHolds, ObjectStep
  <2> QED
    BY <2>2, <2>3, <2>4 DEF ObjectHolds
<1> QED
  BY <1>1, <1>2, <1>3, <1>4 DEF ToolsInv

\* A step of one process that writes no file.
LEMMA ToolsStay ==
  ASSUME ToolsInv, NEW w \in Workers, NEW r, ToolRowOK(r), proc' = [proc EXCEPT ![w] = r],
         db' = db, hist' \in ToolsHist, hist.dirty \subseteq hist'.dirty, WritesOf(proc[w]) \subseteq hist'.dirty,
         r.at \notin {"keeping", "restoring", "copying"},
         r.at \in {"keep", "record"} => r.sha # "half" \/ r.tool \in hist'.dirty,
         r.at = "copy" => Provisioning!Accepted
  PROVE  ToolsInv'
<1>1. ToolsStateOK'
  BY DEF ToolsInv, ToolsStateOK
<1>2. ASSUME NEW t \in Tools \ hist'.dirty PROVE BinaryStep(w, r, t)
  BY DEF BinaryStep, Carries
<1>3. ASSUME NEW h \in WholeHashes PROVE ObjectStep(w, r, h)
  BY DEF ObjectStep, WritesObject, ReadsObject
<1> QED
  BY <1>1, <1>2, <1>3, ToolsMove

\* A step of one process that writes a binary, and may open it or close it.
LEMMA ToolsBinary ==
  ASSUME ToolsInv, NEW w \in Workers, NEW r, ToolRowOK(r), proc' = [proc EXCEPT ![w] = r],
         NEW t \in Tools, NEW b \in Provisioning!Bytes, db' = [db EXCEPT !.file[t] = b],
         hist' \in ToolsHist, hist.dirty \subseteq hist'.dirty,
         WritesOf(proc[w]) \subseteq {t}, b = "half" => t \in WritesOf(r) \cup hist'.dirty,
         r.at \notin {"keep", "keeping", "record", "copy", "copying"},
         r.at = "restoring" => db.file[r.sha] = r.sha /\ (r.sha # "half" \/ r.tool \in hist'.dirty)
  PROVE  ToolsInv'
<1>1. /\ ToolsStateOK' /\ db'.bundle = db.bundle /\ db'.rec = db.rec /\ db'.file[t] = b
      /\ \A f \in Provisioning!Files \ {t} : db'.file[f] = db.file[f]
  BY WholeNames DEF ToolsInv, ToolsStateOK
<1>2. ASSUME NEW u \in Tools \ hist'.dirty PROVE BinaryStep(w, r, u)
  BY <1>1, WholeNames DEF BinaryStep, Carries
<1>3. ASSUME NEW h \in WholeHashes PROVE ObjectStep(w, r, h)
  <2>1. db'.file[h] = db.file[h]
    BY <1>1, WholeNames
  <2> QED
    BY <2>1 DEF ObjectStep, WritesObject, ReadsObject
<1> QED
  BY <1>1, <1>2, <1>3, ToolsMove

LEMMA ToolsProvision == ASSUME ToolsInv, NEW w \in Workers, NEW t \in Tools, Provisioning!Provision(w, t) PROVE ToolsInv'
<1> DEFINE r == [Provisioning!Idle EXCEPT !.at = IF db.file[t] = "none" THEN "install" ELSE "hash", !.tool = t]
<1>1. /\ proc' = [proc EXCEPT ![w] = r] /\ db' = db /\ hist' = [hist EXCEPT !.ops = @ + 1]
      /\ proc[w].at = "idle"
  BY DEF Provisioning!Provision, Provisioning!Started, Provisioning!At
<1>2. r.at \in {"install", "hash"} /\ ToolRowOK(r) /\ WritesOf(proc[w]) = {}
  BY <1>1 DEF Provisioning!Idle, ToolRowOK, ToolRow, ToolStates, WritesOf, Provisioning!Bytes, Provisioning!Hashes
<1>3. hist' \in ToolsHist /\ hist'.dirty = hist.dirty
  BY <1>1 DEF ToolsInv, ToolsStateOK, ToolsHist
<1> HIDE DEF r
<1> QED
  BY <1>1, <1>2, <1>3, ToolsStay

LEMMA ToolsInstall == ASSUME ToolsInv, NEW w \in Workers, Provisioning!Install(w) PROVE ToolsInv'
<1> DEFINE r == [proc[w] EXCEPT !.at = "installing"]
           t == proc[w].tool
<1>1. /\ proc' = [proc EXCEPT ![w] = r] /\ db' = [db EXCEPT !.file[t] = "half"] /\ hist' = hist
      /\ proc[w].at = "install"
  BY DEF Provisioning!Install, Provisioning!Goto, Provisioning!At
<1>2. ToolRowOK(proc[w]) /\ t \in Tools /\ "half" \in Provisioning!Bytes
  BY <1>1 DEF ToolsInv, ToolsProcOK, ToolRowOK, ToolStates, Provisioning!Bytes, Provisioning!Hashes
<1>3. r.at = "installing" /\ ToolRowOK(r) /\ t \in WritesOf(r) /\ WritesOf(proc[w]) = {}
  BY <1>1, <1>2 DEF ToolRowOK, ToolRow, ToolStates, WritesOf
<1>4. hist' \in ToolsHist
  BY <1>1 DEF ToolsInv, ToolsStateOK
<1> HIDE DEF r, t
<1> QED
  BY <1>1, <1>2, <1>3, <1>4, ToolsBinary

LEMMA ToolsInstalled == ASSUME ToolsInv, NEW w \in Workers, NEW b, Provisioning!Installed(w, b) PROVE ToolsInv'
<1> DEFINE r == [proc[w] EXCEPT !.at = "check"]
           t == proc[w].tool
<1>1. /\ proc' = [proc EXCEPT ![w] = r] /\ db' = [db EXCEPT !.file[t] = b] /\ hist' = hist
      /\ proc[w].at = "installing" /\ b \in {"right", "wrong"}
  BY DEF Provisioning!Installed, Provisioning!Goto, Provisioning!At
<1>2. ToolRowOK(proc[w]) /\ t \in Tools /\ b \in Provisioning!Bytes
  BY <1>1 DEF ToolsInv, ToolsProcOK, ToolRowOK, ToolStates, Provisioning!Bytes, Provisioning!Hashes
<1>3. r.at = "check" /\ ToolRowOK(r) /\ WritesOf(proc[w]) = {t}
  BY <1>1, <1>2 DEF ToolRowOK, ToolRow, ToolStates, WritesOf
<1>4. hist' \in ToolsHist
  BY <1>1 DEF ToolsInv, ToolsStateOK
<1> HIDE DEF r, t
<1> QED
  BY <1>1, <1>2, <1>3, <1>4, ToolsBinary

LEMMA IdleRow == ToolRowOK(Provisioning!Idle) /\ Provisioning!Idle.at = "idle"
  BY DEF Provisioning!Idle, ToolRowOK, ToolRow, ToolStates, Provisioning!Bytes

\* What is set apart is files, and stays so.
LEMMA ToolsSpoil ==
  ASSUME ToolsInv, NEW s \in SUBSET Provisioning!Files, hist' = [hist EXCEPT !.dirty = @ \cup s]
  PROVE  hist' \in ToolsHist /\ hist'.dirty = hist.dirty \cup s
<1>1. hist \in ToolsHist
  BY DEF ToolsInv, ToolsStateOK
<1>2. hist.dirty \cup s \in SUBSET Provisioning!Files
  BY <1>1 DEF ToolsHist
<1> QED
  BY <1>1, <1>2 DEF ToolsHist

LEMMA ToolsInstallFails == ASSUME ToolsInv, NEW w \in Workers, NEW b, Provisioning!InstallFails(w, b) PROVE ToolsInv'
<1> DEFINE t == proc[w].tool
           s == IF b = "half" THEN {t} ELSE {}
<1>1. /\ proc' = [proc EXCEPT ![w] = Provisioning!Idle] /\ db' = [db EXCEPT !.file[t] = b]
      /\ hist' = [hist EXCEPT !.dirty = @ \cup s]
      /\ proc[w].at \in {"install", "installing"} /\ b \in {"none", "half"}
  BY DEF Provisioning!InstallFails, Provisioning!At
<1>2. ToolRowOK(proc[w]) /\ t \in Tools /\ b \in Provisioning!Bytes
  BY <1>1 DEF ToolsInv, ToolsProcOK, ToolRowOK, ToolStates, Provisioning!Bytes, Provisioning!Hashes
<1>3. WritesOf(proc[w]) \subseteq {t}
  BY <1>1 DEF WritesOf
<1>4. s \in SUBSET Provisioning!Files /\ (b = "half" => t \in s)
  BY <1>2, WholeNames
<1> HIDE DEF t, s
<1>5. hist' \in ToolsHist /\ hist'.dirty = hist.dirty \cup s
  BY <1>1, <1>4, ToolsSpoil
<1> QED
  BY <1>1, <1>2, <1>3, <1>4, <1>5, IdleRow, ToolsBinary

LEMMA ToolsCheckPin == ASSUME ToolsInv, NEW w \in Workers, Provisioning!CheckPin(w) PROVE ToolsInv'
<1>1. /\ db' = db /\ hist' = hist /\ proc[w].at = "check"
      /\ \/ proc' = [proc EXCEPT ![w] = Provisioning!Idle]
         \/ proc' = [proc EXCEPT ![w] = [proc[w] EXCEPT !.at = "hash"]]
  BY DEF Provisioning!CheckPin, Provisioning!Goto, Provisioning!At
<1>2. hist' \in ToolsHist /\ WritesOf(proc[w]) = {}
  BY <1>1 DEF ToolsInv, ToolsStateOK, WritesOf
<1>3. PICK r : proc' = [proc EXCEPT ![w] = r] /\ r \in {Provisioning!Idle, [proc[w] EXCEPT !.at = "hash"]}
  BY <1>1
<1>4. ToolRowOK(r) /\ r.at \in {"idle", "hash"}
  BY <1>1, <1>3, IdleRow DEF ToolsInv, ToolsProcOK, ToolRowOK, ToolRow, ToolStates
<1> QED
  BY <1>1, <1>2, <1>3, <1>4, ToolsStay

LEMMA ToolsHash == ASSUME ToolsInv, NEW w \in Workers, Provisioning!Hash(w) PROVE ToolsInv'
<1> DEFINE t == proc[w].tool
           b == db.file[t]
           s == Provisioning!Half({t})
           r == [proc[w] EXCEPT !.sha = b, !.at = IF db.file[b] = "none" THEN "keep" ELSE "record"]
<1>1. /\ db' = db /\ proc[w].at = "hash" /\ hist' = [hist EXCEPT !.dirty = @ \cup s]
      /\ proc' = IF b = "none" THEN [proc EXCEPT ![w] = Provisioning!Idle] ELSE [proc EXCEPT ![w] = r]
  BY DEF Provisioning!Hash, Provisioning!At
<1>2. ToolRowOK(proc[w]) /\ t \in Tools /\ b \in Provisioning!Bytes /\ WritesOf(proc[w]) = {}
  BY <1>1 DEF ToolsInv, ToolsProcOK, ToolsStateOK, ToolRowOK, ToolStates, Provisioning!Files, WritesOf
<1>3. r.at \in {"keep", "record"} /\ r.sha = b /\ r.tool = t /\ (b # "none" => ToolRowOK(r))
  BY <1>1, <1>2 DEF ToolRowOK, ToolRow, ToolStates, Provisioning!Bytes
<1>4. s \in SUBSET Provisioning!Files /\ (b = "half" => t \in s)
  BY <1>2, WholeNames DEF Provisioning!Half
<1> HIDE DEF b, r, s, t
<1>5. hist' \in ToolsHist /\ hist'.dirty = hist.dirty \cup s
  BY <1>1, <1>4, ToolsSpoil
<1>6. CASE b = "none"
  BY <1>1, <1>2, <1>5, <1>6, IdleRow, ToolsStay
<1>7. CASE b # "none"
  BY <1>1, <1>2, <1>3, <1>4, <1>5, <1>7, ToolsStay
<1> QED
  BY <1>6, <1>7

LEMMA ToolsRestore ==
  ASSUME ToolsInv, NEW w \in Workers, NEW t \in Tools, NEW h \in Provisioning!Hashes, Provisioning!Restore(w, t, h)
  PROVE  ToolsInv'
<1> DEFINE r == [Provisioning!Idle EXCEPT !.at = "restoring", !.tool = t, !.sha = h]
<1>1. /\ proc' = [proc EXCEPT ![w] = r] /\ db' = [db EXCEPT !.file[t] = "half"] /\ hist' = [hist EXCEPT !.ops = @ + 1]
      /\ proc[w].at = "idle" /\ <<t, h>> \in db.rec /\ db.file[h] = h
  BY DEF Provisioning!Restore, Provisioning!Restorable, Provisioning!Started, Provisioning!At
<1>2. /\ r.at = "restoring" /\ r.sha = h /\ r.tool = t /\ ToolRowOK(r) /\ t \in WritesOf(r) /\ WritesOf(proc[w]) = {}
      /\ "half" \in Provisioning!Bytes
  BY <1>1 DEF Provisioning!Idle, ToolRowOK, ToolRow, ToolStates, WritesOf, Provisioning!Bytes, Provisioning!Hashes
<1>3. hist' \in ToolsHist /\ hist'.dirty = hist.dirty
  BY <1>1 DEF ToolsInv, ToolsStateOK, ToolsHist
<1>4. h # "half" \/ t \in hist.dirty
  BY <1>1 DEF ToolsInv, BinaryHolds
<1> HIDE DEF r
<1> QED
  BY <1>1, <1>2, <1>3, <1>4, ToolsBinary

\* The object has its hash until the copy is made, unless it was set apart.
LEMMA ToolsRestored == ASSUME ToolsInv, NEW w \in Workers, Provisioning!Restored(w) PROVE ToolsInv'
<1> DEFINE t == proc[w].tool
           h == proc[w].sha
           b == db.file[h]
           s == IF h \in hist.dirty THEN {t} ELSE {}
<1>1. /\ proc' = [proc EXCEPT ![w] = Provisioning!Idle] /\ db' = [db EXCEPT !.file[t] = b]
      /\ hist' = [hist EXCEPT !.ready = @ \cup {t}, !.dirty = @ \cup s] /\ proc[w].at = "restoring"
  BY DEF Provisioning!Restored, Provisioning!At
<1>2. ToolRowOK(proc[w]) /\ t \in Tools /\ h \in Provisioning!Hashes /\ WritesOf(proc[w]) = {t}
  BY <1>1 DEF ToolsInv, ToolsProcOK, ToolRowOK, ToolStates, WritesOf
<1>3. s \subseteq Provisioning!Files /\ (h \in hist.dirty => t \in s)
  BY <1>2, WholeNames
<1>4. b = "half" => t \in hist.dirty \cup s
  <2>1. CASE h = "half"
    <3>1. Carries(proc[w], t)
      BY <1>1 DEF Carries
    <3> QED
      BY <1>2, <2>1, <3>1 DEF ToolsInv, BinaryHolds
  <2>2. CASE h \in WholeHashes /\ h \notin hist.dirty
    <3>1. ReadsObject(proc[w], h)
      BY <1>1 DEF ReadsObject
    <3>2. db.file[h] = h
      BY <2>2, <3>1 DEF ToolsInv, ObjectHolds
    <3> QED
      BY <2>2, <3>2, WholeNames
  <2> QED
    BY <1>2, <1>3, <2>1, <2>2, WholeNames
<1>5. b \in Provisioning!Bytes
  BY <1>2, WholeNames DEF ToolsInv, ToolsStateOK
<1> HIDE DEF t, b, h, s
<1>6. hist' \in ToolsHist /\ hist'.dirty = hist.dirty \cup s
  <2>1. hist \in ToolsHist
    BY DEF ToolsInv, ToolsStateOK
  <2>2. hist.dirty \cup s \in SUBSET Provisioning!Files /\ hist.ready \cup {t} \in SUBSET Tools
    BY <1>2, <1>3, <2>1 DEF ToolsHist
  <2> QED
    BY <1>1, <2>1, <2>2 DEF ToolsHist
<1> QED
  BY <1>1, <1>2, <1>4, <1>5, <1>6, IdleRow, ToolsBinary

\* A step of one process that writes an object: nobody else writes or reads it,
\* unless it is set apart.
LEMMA ToolsObject ==
  ASSUME ToolsInv, NEW w \in Workers, NEW r, ToolRowOK(r), proc' = [proc EXCEPT ![w] = r],
         NEW h \in Provisioning!Hashes, NEW b \in Provisioning!Bytes, db' = [db EXCEPT !.file[h] = b],
         hist' \in ToolsHist, hist.dirty \subseteq hist'.dirty, WritesOf(proc[w]) = {},
         r.at \in {"keeping", "record", "copy", "copying"},
         r.at \in {"copy", "copying"} => Provisioning!Accepted,
         \A t \in Tools \ hist.dirty : Carries(r, t) => r.sha # "half",
         \A g \in WholeHashes : WritesObject(r, g) => g = h /\ b = "half",
         h \in WholeHashes \ hist'.dirty =>
           \A v \in Workers \ {w} : ~WritesObject(proc[v], h) /\ ~ReadsObject(proc[v], h)
  PROVE  ToolsInv'
<1>1. /\ ToolsStateOK' /\ db'.bundle = db.bundle /\ db'.rec = db.rec /\ db'.file[h] = b
      /\ \A f \in Provisioning!Files \ {h} : db'.file[f] = db.file[f]
  BY WholeNames DEF ToolsInv, ToolsStateOK
<1>2. ASSUME NEW t \in Tools \ hist'.dirty PROVE BinaryStep(w, r, t)
  <2>1. db'.file[t] = db.file[t]
    BY <1>1, WholeNames
  <2> QED
    BY <1>1, <2>1 DEF BinaryStep
<1>3. ASSUME NEW g \in WholeHashes \ hist'.dirty PROVE ObjectStep(w, r, g)
  <2>1. ~ReadsObject(r, g)
    BY DEF ReadsObject
  <2>2. CASE g = h
    BY <1>1, <2>1, <2>2 DEF ObjectStep
  <2>3. CASE g # h
    <3>1. db'.file[g] = db.file[g] /\ ~WritesObject(r, g)
      BY <1>1, <2>3, WholeNames
    <3> QED
      BY <2>1, <3>1 DEF ObjectStep
  <2> QED
    BY <2>2, <2>3
<1> QED
  BY <1>1, <1>2, <1>3, ToolsMove

\* Whoever writes an object that is not set apart is alone with it.
LEMMA ToolsOwnObject ==
  ASSUME ToolsInv, NEW w \in Workers, NEW h \in WholeHashes \ hist.dirty, WritesObject(proc[w], h)
  PROVE  \A v \in Workers \ {w} : ~WritesObject(proc[v], h) /\ ~ReadsObject(proc[v], h)
<1>1. ObjectHolds(h) /\ h # "half"
  BY WholeNames DEF ToolsInv
<1> QED
  BY <1>1 DEF ObjectHolds

LEMMA ToolsKeepObject == ASSUME ToolsInv, NEW w \in Workers, Provisioning!KeepObject(w) PROVE ToolsInv'
<1> DEFINE r == [proc[w] EXCEPT !.at = "keeping"]
           h == proc[w].sha
           s == IF db.file[h] = "none" THEN {} ELSE {h}
<1>1. /\ proc' = [proc EXCEPT ![w] = r] /\ db' = [db EXCEPT !.file[h] = "half"]
      /\ hist' = [hist EXCEPT !.dirty = @ \cup s] /\ proc[w].at = "keep"
  BY DEF Provisioning!KeepObject, Provisioning!Goto, Provisioning!At
<1>2. ToolRowOK(proc[w]) /\ h \in Provisioning!Hashes /\ "half" \in Provisioning!Bytes
  BY <1>1, WholeNames DEF ToolsInv, ToolsProcOK, ToolRowOK
<1>3. /\ r.at = "keeping" /\ r.sha = h /\ ToolRowOK(r) /\ WritesOf(proc[w]) = {}
      /\ \A t \in Tools : Carries(r, t) => Carries(proc[w], t)
      /\ \A g \in WholeHashes : WritesObject(r, g) => g = h
  BY <1>1, <1>2 DEF ToolRowOK, ToolRow, ToolStates, WritesOf, Carries, WritesObject
<1>4. s \in SUBSET Provisioning!Files /\ (h \notin s => db.file[h] = "none")
  BY <1>2, WholeNames
<1>5. \A t \in Tools \ hist.dirty : Carries(r, t) => r.sha # "half"
  BY <1>3 DEF ToolsInv, BinaryHolds, h
<1> HIDE DEF r, h, s
<1>6. hist' \in ToolsHist /\ hist'.dirty = hist.dirty \cup s
  BY <1>1, <1>4, ToolsSpoil
<1>7. ASSUME h \in WholeHashes \ hist'.dirty, NEW v \in Workers \ {w}
      PROVE  ~WritesObject(proc[v], h) /\ ~ReadsObject(proc[v], h)
  <2>1. ObjectHolds(h) /\ db.file[h] = "none" /\ h # "none"
    BY <1>4, <1>6, <1>7, WholeNames DEF ToolsInv
  <2> QED
    BY <2>1 DEF ObjectHolds
<1> QED
  BY <1>1, <1>2, <1>3, <1>5, <1>6, <1>7, ToolsObject

LEMMA ToolsObjectKept == ASSUME ToolsInv, NEW w \in Workers, Provisioning!ObjectKept(w) PROVE ToolsInv'
<1> DEFINE r == [proc[w] EXCEPT !.at = "record"]
           h == proc[w].sha
           b == db.file[proc[w].tool]
<1>1. /\ proc' = [proc EXCEPT ![w] = r] /\ db' = [db EXCEPT !.file[h] = b]
      /\ hist' = hist /\ proc[w].at = "keeping"
  BY DEF Provisioning!ObjectKept, Provisioning!Goto, Provisioning!At
<1>2. ToolRowOK(proc[w]) /\ h \in Provisioning!Hashes /\ b \in Provisioning!Bytes
  BY <1>1 DEF ToolsInv, ToolsProcOK, ToolsStateOK, ToolRowOK, ToolStates, Provisioning!Files
<1>3. /\ r.at = "record" /\ r.sha = proc[w].sha /\ ToolRowOK(r) /\ WritesOf(proc[w]) = {} /\ WritesObject(proc[w], h)
      /\ \A t \in Tools : Carries(r, t) => Carries(proc[w], t)
      /\ \A g \in WholeHashes : ~WritesObject(r, g)
  BY <1>1, <1>2 DEF ToolRowOK, ToolRow, ToolStates, WritesOf, Carries, WritesObject
<1>4. \A t \in Tools \ hist.dirty : Carries(r, t) => r.sha # "half"
  BY <1>3 DEF ToolsInv, BinaryHolds
<1> HIDE DEF r, h, b
<1>5. hist' \in ToolsHist /\ hist'.dirty = hist.dirty
  BY <1>1 DEF ToolsInv, ToolsStateOK
<1>6. h \in WholeHashes \ hist'.dirty =>
        \A v \in Workers \ {w} : ~WritesObject(proc[v], h) /\ ~ReadsObject(proc[v], h)
  BY <1>3, <1>5, ToolsOwnObject
<1> QED
  BY <1>1, <1>2, <1>3, <1>4, <1>5, <1>6, ToolsObject

LEMMA ToolsWriteRecord == ASSUME ToolsInv, NEW w \in Workers, Provisioning!WriteRecord(w) PROVE ToolsInv'
<1> DEFINE h == proc[w].sha
           t == proc[w].tool
<1>1. /\ proc' = [proc EXCEPT ![w] = Provisioning!Idle] /\ db' = [db EXCEPT !.rec = @ \cup {<<t, h>>}]
      /\ hist' = [hist EXCEPT !.ready = @ \cup {t}] /\ proc[w].at = "record"
  BY DEF Provisioning!WriteRecord, Provisioning!At
<1>2. h \in Provisioning!Hashes /\ t \in Tools /\ WritesOf(proc[w]) = {}
  BY <1>1 DEF ToolsInv, ToolsProcOK, ToolRowOK, ToolStates, WritesOf
<1>3. h # "half" \/ t \in hist.dirty
  BY <1>1, <1>2 DEF ToolsInv, BinaryHolds, Carries
<1> HIDE DEF h, t
<1>4. /\ ToolsStateOK' /\ db'.bundle = db.bundle /\ db'.file = db.file /\ db'.rec = db.rec \cup {<<t, h>>}
      /\ hist'.dirty = hist.dirty
  BY <1>1, <1>2 DEF ToolsInv, ToolsStateOK, ToolsHist
<1>5. ASSUME NEW u \in Tools \ hist'.dirty PROVE BinaryStep(w, Provisioning!Idle, u)
  BY <1>2, <1>3, <1>4, IdleRow DEF BinaryStep, Carries
<1>6. ASSUME NEW g \in WholeHashes PROVE ObjectStep(w, Provisioning!Idle, g)
  BY <1>4, IdleRow DEF ObjectStep, WritesObject, ReadsObject
<1> QED
  BY <1>1, <1>4, <1>5, <1>6, IdleRow, ToolsMove

LEMMA ToolsImport == ASSUME ToolsInv, NEW w \in Workers, Provisioning!Import(w) PROVE ToolsInv'
<1> DEFINE r == [Provisioning!Idle EXCEPT !.at = "copy", !.left = {f \in Provisioning!Files : db.bundle.file[f] # "none"}]
<1>1. /\ proc' = [proc EXCEPT ![w] = r] /\ db' = db /\ hist' = [hist EXCEPT !.ops = @ + 1]
      /\ proc[w].at = "idle" /\ Provisioning!Accepted
  BY DEF Provisioning!Import, Provisioning!Started, Provisioning!At
<1>2. r.at = "copy" /\ ToolRowOK(r) /\ WritesOf(proc[w]) = {}
  BY <1>1 DEF Provisioning!Idle, ToolRowOK, ToolRow, ToolStates, WritesOf, Provisioning!Bytes
<1>3. hist' \in ToolsHist /\ hist'.dirty = hist.dirty
  BY <1>1 DEF ToolsInv, ToolsStateOK, ToolsHist
<1> HIDE DEF r
<1> QED
  BY <1>1, <1>2, <1>3, ToolsStay

LEMMA ToolsCrash == ASSUME ToolsInv, NEW w \in Workers, Provisioning!Crash(w) PROVE ToolsInv'
<1> DEFINE s == WritesOf(proc[w])
<1>1. /\ proc' = [proc EXCEPT ![w] = Provisioning!Idle] /\ db' = db
      /\ hist' = [hist EXCEPT !.faults = @ + 1, !.dirty = @ \cup s]
  BY ToolsWrites DEF Provisioning!Crash
<1>2. ToolRowOK(proc[w]) /\ hist \in ToolsHist
  BY DEF ToolsInv, ToolsProcOK, ToolsStateOK
<1>3. s \subseteq Provisioning!Files
  BY <1>2, WholeNames DEF WritesOf, ToolRowOK, ToolRow, ToolStates
<1> HIDE DEF s
<1>4. hist' \in ToolsHist /\ hist'.dirty = hist.dirty \cup s
  <2>1. hist.dirty \cup s \in SUBSET Provisioning!Files /\ hist.faults + 1 \in Nat
    BY <1>2, <1>3 DEF ToolsHist
  <2> QED
    BY <1>1, <1>2, <2>1 DEF ToolsHist
<1>5. WritesOf(proc[w]) \subseteq hist'.dirty
  BY <1>4 DEF s
<1> QED
  BY <1>1, <1>4, <1>5, IdleRow, ToolsStay

\* A copy beside another process sets the object apart.
LEMMA ToolsCopyFile ==
  ASSUME ToolsInv, NEW w \in Workers, NEW f \in Provisioning!Files, Provisioning!CopyFile(w, f) PROVE ToolsInv'
<1> DEFINE r == [proc[w] EXCEPT !.at = "copying", !.left = @ \ {f}, !.file = f]
           s == IF Provisioning!Alone(w) THEN {} ELSE {f} \cap Provisioning!Hashes
<1>1. /\ proc' = [proc EXCEPT ![w] = r] /\ db' = [db EXCEPT !.file[f] = "half"]
      /\ hist' = [hist EXCEPT !.dirty = @ \cup s] /\ proc[w].at = "copy"
  BY DEF Provisioning!CopyFile, Provisioning!At
<1>2. ToolRowOK(proc[w]) /\ "half" \in Provisioning!Bytes /\ Provisioning!Accepted
  BY <1>1, WholeNames DEF ToolsInv, ToolsProcOK, CopiesAccepted
<1>3. /\ r.at = "copying" /\ r.file = f /\ ToolRowOK(r) /\ WritesOf(proc[w]) = {}
      /\ f \in Tools => f \in WritesOf(r)
      /\ \A t \in Tools : ~Carries(r, t)
      /\ \A g \in WholeHashes : (WritesObject(r, g) => g = f) /\ ~ReadsObject(r, g)
  BY <1>1, <1>2 DEF ToolRowOK, ToolRow, ToolStates, WritesOf, Carries, WritesObject, ReadsObject
<1>4. s \in SUBSET Provisioning!Files /\ (f \in Provisioning!Hashes /\ f \notin s => Provisioning!Alone(w))
  BY WholeNames
<1> HIDE DEF r, s
<1>5. hist' \in ToolsHist /\ hist'.dirty = hist.dirty \cup s
  BY <1>1, <1>4, ToolsSpoil
<1>6. CASE f \in Tools
  <2>1. /\ ToolsStateOK' /\ db'.bundle = db.bundle /\ db'.rec = db.rec
        /\ \A g \in Provisioning!Files \ {f} : db'.file[g] = db.file[g]
    BY <1>1, <1>2, <1>5 DEF ToolsInv, ToolsStateOK
  <2>2. ASSUME NEW t \in Tools PROVE BinaryStep(w, r, t)
    BY <1>3, <1>6, <2>1, WholeNames DEF BinaryStep
  <2>3. ASSUME NEW g \in WholeHashes PROVE ObjectStep(w, r, g)
    <3>1. g # f /\ db'.file[g] = db.file[g]
      BY <1>6, <2>1, WholeNames
    <3> QED
      BY <1>3, <3>1 DEF ObjectStep
  <2> QED
    BY <1>1, <1>2, <1>3, <1>5, <2>1, <2>2, <2>3, ToolsMove
<1>7. CASE f \in Provisioning!Hashes
  <2>1. ASSUME f \in WholeHashes \ hist'.dirty, NEW v \in Workers \ {w}
        PROVE  ~WritesObject(proc[v], f) /\ ~ReadsObject(proc[v], f)
    <3>1. proc[v].at = "idle"
      BY <1>4, <1>5, <1>7, <2>1 DEF Provisioning!Alone, Provisioning!At
    <3> QED
      BY <3>1 DEF WritesObject, ReadsObject
  <2> QED
    BY <1>1, <1>2, <1>3, <1>5, <1>7, <2>1, ToolsObject
<1> QED
  BY <1>6, <1>7 DEF Provisioning!Files

LEMMA ToolsFileCopied == ASSUME ToolsInv, NEW w \in Workers, Provisioning!FileCopied(w) PROVE ToolsInv'
<1> DEFINE r == [proc[w] EXCEPT !.at = "copy"]
           f == proc[w].file
           b == db.bundle.file[f]
<1>1. /\ proc' = [proc EXCEPT ![w] = r] /\ db' = [db EXCEPT !.file[f] = b]
      /\ hist' = hist /\ proc[w].at = "copying"
  BY DEF Provisioning!FileCopied, Provisioning!Goto, Provisioning!At
<1>2. ToolRowOK(proc[w]) /\ f \in Provisioning!Files /\ b \in Provisioning!Bytes /\ Provisioning!Accepted
  BY <1>1 DEF ToolsInv, ToolsProcOK, ToolsStateOK, ToolRowOK, BundleRow, CopiesAccepted
<1>3. /\ r.at = "copy" /\ ToolRowOK(r) /\ WritesOf(proc[w]) = {f} \cap Tools /\ WritesObject(proc[w], f)
      /\ \A t \in Tools : ~Carries(r, t)
      /\ \A g \in WholeHashes : ~WritesObject(r, g) /\ ~ReadsObject(r, g)
  BY <1>1, <1>2 DEF ToolRowOK, ToolRow, ToolStates, WritesOf, Carries, WritesObject, ReadsObject
<1>4. f \in Tools \ hist.dirty => b # "half"
  BY <1>2 DEF ToolsInv, BinaryHolds, Provisioning!Accepted
<1> HIDE DEF r, f, b
<1>5. hist' \in ToolsHist /\ hist'.dirty = hist.dirty
  BY <1>1 DEF ToolsInv, ToolsStateOK
<1>6. CASE f \in Tools
  <2>1. /\ ToolsStateOK' /\ db'.bundle = db.bundle /\ db'.rec = db.rec /\ db'.file[f] = b
        /\ \A g \in Provisioning!Files \ {f} : db'.file[g] = db.file[g]
    BY <1>1, <1>2, <1>5 DEF ToolsInv, ToolsStateOK
  <2>2. ASSUME NEW t \in Tools \ hist'.dirty PROVE BinaryStep(w, r, t)
    BY <1>3, <1>4, <1>5, <1>6, <2>1, WholeNames DEF BinaryStep
  <2>3. ASSUME NEW g \in WholeHashes PROVE ObjectStep(w, r, g)
    <3>1. db'.file[g] = db.file[g]
      BY <1>6, <2>1, WholeNames
    <3> QED
      BY <1>3, <3>1 DEF ObjectStep
  <2> QED
    BY <1>1, <1>2, <1>3, <1>5, <2>1, <2>2, <2>3, ToolsMove
<1>7. CASE f \in Provisioning!Hashes
  <2>1. WritesOf(proc[w]) = {}
    BY <1>3, <1>7, WholeNames
  <2>2. f \in WholeHashes \ hist'.dirty =>
          \A v \in Workers \ {w} : ~WritesObject(proc[v], f) /\ ~ReadsObject(proc[v], f)
    BY <1>3, <1>5, ToolsOwnObject
  <2> QED
    BY <1>1, <1>2, <1>3, <1>5, <1>7, <2>1, <2>2, ToolsObject
<1> QED
  BY <1>2, <1>6, <1>7 DEF Provisioning!Files

LEMMA ToolsImported == ASSUME ToolsInv, NEW w \in Workers, Provisioning!Imported(w) PROVE ToolsInv'
<1>1. /\ proc' = [proc EXCEPT ![w] = Provisioning!Idle] /\ db' = [db EXCEPT !.rec = @ \cup db.bundle.rec]
      /\ hist' = [hist EXCEPT !.ready = @ \cup {t \in Tools : db.bundle.file[t] # "none"}] /\ proc[w].at = "copy"
  BY DEF Provisioning!Imported, Provisioning!At
<1>2. /\ ToolsStateOK' /\ db'.bundle = db.bundle /\ db'.file = db.file /\ db'.rec = db.rec \cup db.bundle.rec
      /\ hist'.dirty = hist.dirty /\ WritesOf(proc[w]) = {}
  BY <1>1 DEF ToolsInv, ToolsStateOK, ToolsHist, BundleRow, WritesOf
<1>3. ASSUME NEW t \in Tools PROVE BinaryStep(w, Provisioning!Idle, t)
  BY <1>2, IdleRow DEF BinaryStep, Carries
<1>4. ASSUME NEW g \in WholeHashes PROVE ObjectStep(w, Provisioning!Idle, g)
  BY <1>2, IdleRow DEF ObjectStep, WritesObject, ReadsObject
<1> QED
  BY <1>1, <1>2, <1>3, <1>4, IdleRow, ToolsMove

LEMMA ToolsExport == ASSUME ToolsInv, NEW w \in Workers, Provisioning!Export(w) PROVE ToolsInv'
<1> DEFINE b == [on |-> TRUE, file |-> db.file, rec |-> db.rec, sums |-> db.file]
           s == Provisioning!Half(Tools)
<1>1. /\ db' = [db EXCEPT !.bundle = b] /\ proc' = proc
      /\ hist' = [hist EXCEPT !.ops = @ + 1, !.dirty = @ \cup s]
  BY DEF Provisioning!Export, Provisioning!Started
<1>2. hist \in ToolsHist /\ b \in BundleRow /\ b.sums = db.file /\ b.file = db.file /\ b.rec = db.rec
  BY DEF ToolsInv, ToolsStateOK, BundleRow
<1>3. s \subseteq Provisioning!Files /\ \A t \in Tools : t \notin s => db.file[t] # "half"
  BY WholeNames DEF Provisioning!Half
<1> HIDE DEF b, s
<1>4. hist' \in ToolsHist /\ hist'.dirty = hist.dirty \cup s
  <2>1. hist.dirty \cup s \in SUBSET Provisioning!Files /\ hist.ops + 1 \in Nat
    BY <1>2, <1>3 DEF ToolsHist
  <2> QED
    BY <1>1, <1>2, <2>1 DEF ToolsHist
<1>5. ToolsStateOK' /\ db'.bundle = b /\ db'.file = db.file /\ db'.rec = db.rec
  BY <1>1, <1>2, <1>4 DEF ToolsInv, ToolsStateOK
<1>6. ToolsProcOK'
  BY <1>1 DEF ToolsInv, ToolsProcOK
<1>7. CopiesAccepted'
  <2>1. b.on
    BY DEF b
  <2> QED
    BY <1>2, <1>5, <2>1 DEF CopiesAccepted, Provisioning!Accepted
<1>8. ASSUME NEW t \in Tools \ hist'.dirty PROVE BinaryHolds(t)'
  <2>1. BinaryHolds(t) /\ db.file[t] # "half"
    BY <1>3, <1>4 DEF ToolsInv
  <2> QED
    BY <1>1, <1>2, <1>5, <2>1 DEF BinaryHolds
<1>9. ASSUME NEW h \in WholeHashes \ hist'.dirty PROVE ObjectHolds(h)'
  BY <1>1, <1>4, <1>5 DEF ToolsInv, ObjectHolds
<1> QED
  BY <1>5, <1>6, <1>7, <1>8, <1>9 DEF ToolsInv

LEMMA ToolsBinaryGone == ASSUME ToolsInv, NEW t \in Tools, Provisioning!BinaryGone(t) PROVE ToolsInv'
<1>1. /\ db' = [db EXCEPT !.file[t] = "none"] /\ proc' = proc
      /\ hist' = [hist EXCEPT !.faults = @ + 1, !.ready = @ \ {t}]
  BY DEF Provisioning!BinaryGone
<1>2. /\ ToolsStateOK' /\ db'.bundle = db.bundle /\ db'.rec = db.rec /\ db'.file[t] = "none"
      /\ \A f \in Provisioning!Files \ {t} : db'.file[f] = db.file[f]
      /\ hist'.dirty = hist.dirty
  <2>1. PICK ready \in SUBSET Tools : ready = hist.ready \ {t}
    BY DEF ToolsInv, ToolsStateOK, ToolsHist
  <2>2. PICK n \in Nat : n = hist.faults + 1
    BY DEF ToolsInv, ToolsStateOK, ToolsHist
  <2>3. hist' = [hist EXCEPT !.faults = n, !.ready = ready]
    BY <1>1, <2>1, <2>2
  <2> QED
    BY <1>1, <2>3, WholeNames DEF ToolsInv, ToolsStateOK, ToolsHist
<1>3. ToolsProcOK' /\ CopiesAccepted'
  BY <1>1, <1>2 DEF ToolsInv, ToolsProcOK, CopiesAccepted, Provisioning!Accepted
<1>4. ASSUME NEW u \in Tools \ hist'.dirty PROVE BinaryHolds(u)'
  <2>1. BinaryHolds(u) /\ (db'.file[u] = "half" => db.file[u] = "half")
    BY <1>2, WholeNames DEF ToolsInv
  <2> QED
    BY <1>1, <1>2, <2>1 DEF BinaryHolds
<1>5. ASSUME NEW h \in WholeHashes \ hist'.dirty PROVE ObjectHolds(h)'
  <2>1. ObjectHolds(h) /\ db'.file[h] = db.file[h]
    BY <1>2, WholeNames DEF ToolsInv
  <2> QED
    BY <1>1, <2>1 DEF ObjectHolds
<1> QED
  BY <1>2, <1>3, <1>4, <1>5 DEF ToolsInv

LEMMA ToolsBundleDamaged ==
  ASSUME ToolsInv, NEW f \in Provisioning!Files, Provisioning!BundleDamaged(f) PROVE ToolsInv'
<1>1. /\ db' = [db EXCEPT !.bundle = [db.bundle EXCEPT !.file = [db.bundle.file EXCEPT ![f] = "half"]]] /\ proc' = proc
      /\ hist' = [hist EXCEPT !.faults = @ + 1]
      /\ \A w \in Workers : proc[w].at \notin {"copy", "copying"}
  BY DEF Provisioning!BundleDamaged, Provisioning!At
<1>2. "half" \in Provisioning!Bytes /\ db.bundle \in BundleRow
  BY DEF Provisioning!Bytes, Provisioning!Hashes, ToolsInv, ToolsStateOK
<1>3. PICK b : b = [db.bundle EXCEPT !.file = [db.bundle.file EXCEPT ![f] = "half"]]
  OBVIOUS
<1>4. b \in BundleRow /\ b.sums = db.bundle.sums /\ b.rec = db.bundle.rec
  BY <1>2, <1>3 DEF BundleRow
<1>5. db' = [db EXCEPT !.bundle = b]
  BY <1>1, <1>3
<1>6. /\ ToolsStateOK' /\ db'.file = db.file /\ db'.rec = db.rec /\ hist'.dirty = hist.dirty
      /\ db'.bundle.sums = db.bundle.sums /\ db'.bundle.rec = db.bundle.rec
  BY <1>1, <1>4, <1>5 DEF ToolsInv, ToolsStateOK, ToolsHist
<1>7. ToolsProcOK' /\ CopiesAccepted'
  BY <1>1 DEF ToolsInv, ToolsProcOK, CopiesAccepted
<1>8. /\ \A t \in Tools \ hist'.dirty : BinaryHolds(t)'
      /\ \A h \in WholeHashes \ hist'.dirty : ObjectHolds(h)'
  BY <1>1, <1>6 DEF ToolsInv, BinaryHolds, ObjectHolds
<1> QED
  BY <1>6, <1>7, <1>8 DEF ToolsInv

LEMMA ToolsStep == ToolsInv /\ [Provisioning!Next]_(Provisioning!vars) => ToolsInv'
<1> SUFFICES ASSUME ToolsInv, [Provisioning!Next]_(Provisioning!vars) PROVE ToolsInv'
  OBVIOUS
<1>1. CASE UNCHANGED Provisioning!vars
  <2>1. db' = db /\ proc' = proc /\ hist' = hist
    BY <1>1 DEF Provisioning!vars
  <2>2. ToolsStateOK' /\ ToolsProcOK' /\ CopiesAccepted'
    BY <2>1 DEF ToolsInv, ToolsStateOK, ToolsProcOK, CopiesAccepted, Provisioning!Accepted
  <2>3. /\ \A t \in Tools \ hist'.dirty : BinaryHolds(t)'
        /\ \A h \in WholeHashes \ hist'.dirty : ObjectHolds(h)'
    BY <2>1 DEF ToolsInv, BinaryHolds, ObjectHolds
  <2> QED
    BY <2>2, <2>3 DEF ToolsInv
<1>2. CASE Provisioning!Next
  BY <1>2, ToolsProvision, ToolsRestore, ToolsInstall, ToolsCheckPin, ToolsHash, ToolsKeepObject, ToolsObjectKept,
     ToolsWriteRecord, ToolsInstalled, ToolsInstallFails, ToolsRestored, ToolsExport, ToolsImport, ToolsFileCopied,
     ToolsImported, ToolsCrash, ToolsCopyFile, ToolsBinaryGone, ToolsBundleDamaged DEF Provisioning!Next
<1> QED
  BY <1>1, <1>2

LEMMA ToolsHold == ToolsInv => Provisioning!ReadyIsWhole
  BY ToolsWrites DEF ToolsInv, ToolsStateOK, ToolsHist, BinaryHolds, Provisioning!ReadyIsWhole

LEMMA ToolsPart == SuiteSpec => [](part = "provisioning" => ToolsInv)
<1>1. SuiteInit => (part = "provisioning" => ToolsInv)
  BY ToolsInit DEF SuiteInit
<1>2. (part = "provisioning" => ToolsInv) /\ [SuiteNext]_suiteVars => (part = "provisioning" => ToolsInv)'
  <2> SUFFICES ASSUME part = "provisioning", ToolsInv, [SuiteNext]_suiteVars PROVE ToolsInv'
    BY DEF SuiteNext, suiteVars
  <2>1. [Provisioning!Next]_(Provisioning!vars)
    BY DEF SuiteNext, suiteVars, state, Provisioning!vars
  <2> QED
    BY <2>1, ToolsStep
<1> QED
  BY <1>1, <1>2, PTL DEF SuiteSpec

\* app/tools/provisioning.py and bundle.py: a tool that was reported ready has a
\* whole binary unless somebody writes it, however many processes share the tree
\* and wherever they stop. Set apart, one by one, are tools whose own binary was
\* once half when it was left (by its installer, or by a crash while it was
\* installed, restored or imported), recorded or exported, and tools that were
\* restored from an object that was kept or imported beside another process.
THEOREM ReadyIsAlwaysWhole == SuiteSpec => []ReadyIsWhole
<1>1. (part = "provisioning" => ToolsInv) => ReadyIsWhole
  BY ToolsHold DEF ReadyIsWhole
<1> QED
  BY <1>1, ToolsPart, PTL
=============================================================================
