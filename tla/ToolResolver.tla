---------------------------- MODULE ToolResolver ----------------------------
(***************************************************************************)
(* Which integrations a scan may use: app/tools/backends.py probes the      *)
(* backends of a tool in order, the container backend through caches that   *)
(* all requests share, and app/v2_api.py plans a scan from the answers. A   *)
(* scan of named tools passes the check of app/v4/api.py first, which reads *)
(* the environment of the process and not the settings.                     *)
(***************************************************************************)
EXTENDS FiniteSets, Integers, Sequences

CONSTANTS
  Tools,     \* integrations of the catalog
  Chain(_),  \* the order in which the backends of a tool are tried
  Keyed,     \* tools that need a key
  Requests,  \* requests that work at a time
  TTL,       \* how long an answer of the container's program is kept
  MaxTime,   \* bound: the clock
  MaxFlips,  \* bound: changes of the world
  MaxScans   \* bound: scans that were scheduled

VARIABLES
  db,    \* up: what would answer now; key: [process, settings]; scans: plans that
         \* were scheduled, as sets of [tool, backend, since]
  mem,   \* now; cache: fact -> [at, ok] of the last answer
  proc,  \* request -> its walk over the tools it chose and their backends
  hist   \* wasUp: fact -> when it was seen last before it went down; flips

vars == <<db, mem, proc, hist>>

Cached == {"daemon", "image"}
FactsOf(b) == IF b = "container" THEN <<"daemon", "image">> ELSE <<b>>
BackendsOf(t) == {Chain(t)[i] : i \in DOMAIN Chain(t)}
Facts == Cached \cup ((UNION {BackendsOf(t) : t \in Tools}) \ {"container"})
Never == -TTL - 1
Idle == [at |-> "idle", todo |-> {}, chosen |-> {}, tool |-> "none", chain |-> <<>>, facts |-> <<>>,
         since |-> 0, stamp |-> 0, found |-> {}, selected |-> {}, skipped |-> {}]

Init ==
  /\ \E up \in [Facts -> BOOLEAN], key \in BOOLEAN :
       db = [up |-> up, key |-> [process |-> key, settings |-> FALSE], scans |-> {}]
  /\ mem = [now |-> 0, cache |-> [f \in Cached |-> [at |-> Never, ok |-> FALSE]]]
  /\ proc = [r \in Requests |-> Idle]
  /\ hist = [wasUp |-> [f \in Facts |-> Never], flips |-> 0]

Stage(r) == proc[r].at
Walking(r) == Stage(r) \in {"gate", "plan"} /\ proc[r].tool # "none"

------------------------------------------------------------------------------
(* The world.                                                                 *)

Tick ==
  /\ mem.now < MaxTime
  /\ mem' = [mem EXCEPT !.now = @ + 1]
  /\ UNCHANGED <<db, proc, hist>>

\* A binary, the distribution, the daemon or its image comes or goes.
Flip(f) ==
  /\ hist.flips < MaxFlips
  /\ db' = [db EXCEPT !.up[f] = ~@]
  /\ hist' = [hist EXCEPT !.wasUp[f] = IF db.up[f] THEN mem.now ELSE @, !.flips = @ + 1]
  /\ UNCHANGED <<mem, proc>>

\* A key is in the environment the process started with, or saved in the settings.
SaveKey ==
  /\ ~db.key.process /\ ~db.key.settings
  /\ db' = [db EXCEPT !.key.settings = TRUE]
  /\ UNCHANGED <<mem, proc, hist>>

------------------------------------------------------------------------------
(* ExecutionResolver.status with active probes.                               *)

\* Mutant: a cached answer does not expire.
FreshForever(f) == mem.cache[f].at # Never

\* ContainerBackend._healthy and _image_present keep an answer for a while.
Fresh(f) == mem.now - mem.cache[f].at < TTL

\* A backend can run when all it needs answers; the walk goes on to the end.
Answered(r, ok) ==
  LET p == proc[r]
      b == Head(p.chain)
      done == ~ok \/ Len(p.facts) = 1
      rest == Tail(p.chain) IN
  proc' = [proc EXCEPT ![r] = [p EXCEPT
    !.facts = IF ~done THEN Tail(@) ELSE IF rest = <<>> THEN <<>> ELSE FactsOf(Head(rest)),
    !.chain = IF done THEN rest ELSE @,
    !.since = IF done THEN mem.now ELSE @,
    !.stamp = Never,
    !.found = IF done /\ ok /\ @ = {} THEN {[tool |-> p.tool, backend |-> b, since |-> p.since]} ELSE @]]

\* A binary is looked for, the distribution is asked.
ProbeLive(r) ==
  /\ Walking(r) /\ proc[r].facts # <<>> /\ Head(proc[r].facts) \notin Cached
  /\ Answered(r, db.up[Head(proc[r].facts)])
  /\ UNCHANGED <<db, mem, hist>>

UseCache(r) ==
  /\ Walking(r) /\ proc[r].facts # <<>> /\ proc[r].stamp = Never
  /\ LET f == Head(proc[r].facts) IN f \in Cached /\ Fresh(f) /\ Answered(r, mem.cache[f].ok)
  /\ UNCHANGED <<db, mem, hist>>

\* The time of an answer is the time of the question.
AskProgram(r) ==
  /\ Walking(r) /\ proc[r].facts # <<>> /\ proc[r].stamp = Never
  /\ Head(proc[r].facts) \in Cached /\ ~Fresh(Head(proc[r].facts))
  /\ proc' = [proc EXCEPT ![r].stamp = mem.now]
  /\ UNCHANGED <<db, mem, hist>>

\* The slower of two requests writes its answer over the other's.
ProgramAnswers(r) ==
  /\ Walking(r) /\ proc[r].stamp # Never
  /\ LET f == Head(proc[r].facts) IN
       /\ mem' = [mem EXCEPT !.cache[f] = [at |-> proc[r].stamp, ok |-> db.up[f]]]
       /\ Answered(r, db.up[f])
  /\ UNCHANGED <<db, hist>>

------------------------------------------------------------------------------
(* v2_scans_create with enforce_v4_scan_readiness before it.                  *)

Ask(r, mode, tools) ==
  /\ Stage(r) = "idle" /\ Cardinality(db.scans) < MaxScans
  /\ proc' = [proc EXCEPT ![r] = [Idle EXCEPT !.todo = tools, !.chosen = tools,
                !.at = IF mode = "selected" THEN "gate" ELSE "plan", !.stamp = Never]]
  /\ UNCHANGED <<db, mem, hist>>

\* filter_resolver_tools reads os.environ, build_plan the runtime environment,
\* which the settings add to.
Configured(r, t) ==
  t \in Keyed => db.key.process \/ (Stage(r) = "plan" /\ db.key.settings)

\* tool_descriptor: the candidate is probed when the plan comes to it.
Take(r, t) ==
  /\ Stage(r) \in {"gate", "plan"} /\ proc[r].tool = "none" /\ t \in proc[r].todo
  /\ LET p == proc[r] IN
     proc' = [proc EXCEPT ![r] = IF Configured(r, t)
       THEN [p EXCEPT !.todo = @ \ {t}, !.tool = t, !.chain = Chain(t), !.since = mem.now,
                      !.facts = FactsOf(Head(Chain(t))), !.found = {}]
       ELSE [p EXCEPT !.todo = @ \ {t}, !.skipped = @ \cup {t}]]
  /\ UNCHANGED <<db, mem, hist>>

Settle(r) ==
  /\ Walking(r) /\ proc[r].facts = <<>>
  /\ LET p == proc[r] IN
     proc' = [proc EXCEPT ![r] = [p EXCEPT !.tool = "none", !.selected = @ \cup p.found,
                                           !.skipped = IF p.found = {} THEN @ \cup {p.tool} ELSE @]]
  /\ UNCHANGED <<db, mem, hist>>

\* One tool that is not ready blocks the request; otherwise it is planned anew.
PassGate(r) ==
  /\ Stage(r) = "gate" /\ proc[r].tool = "none" /\ proc[r].todo = {}
  /\ proc' = [proc EXCEPT ![r] =
       IF proc[r].skipped # {} THEN Idle
       ELSE [Idle EXCEPT !.at = "plan", !.todo = proc[r].chosen, !.stamp = Never]]
  /\ UNCHANGED <<db, mem, hist>>

\* A plan without a tool is refused.
Schedule(r) ==
  /\ Stage(r) = "plan" /\ proc[r].tool = "none" /\ proc[r].todo = {}
  /\ db' = [db EXCEPT !.scans = IF proc[r].selected = {} THEN @ ELSE @ \cup {proc[r].selected}]
  /\ proc' = [proc EXCEPT ![r] = Idle]
  /\ UNCHANGED <<mem, hist>>

Next ==
  \/ Tick \/ SaveKey
  \/ \E f \in Facts : Flip(f)
  \/ \E r \in Requests :
       \/ \E mode \in {"smart", "selected"}, s \in SUBSET Tools \ {{}} : Ask(r, mode, s)
       \/ \E t \in Tools : Take(r, t)
       \/ ProbeLive(r) \/ UseCache(r) \/ AskProgram(r) \/ ProgramAnswers(r)
       \/ Settle(r) \/ PassGate(r) \/ Schedule(r)

Spec == Init /\ [][Next]_vars

------------------------------------------------------------------------------

LastUp(f) == IF db.up[f] THEN mem.now ELSE hist.wasUp[f]

\* A tool is scheduled only on a backend all of whose parts were there when the
\* plan asked, or less than the life of a cached answer before: no passive guess
\* and no answer of a slower request makes it older.
PlanWasTrue ==
  \A plan \in db.scans : \A e \in plan :
    \A i \in DOMAIN FactsOf(e.backend) : LastUp(FactsOf(e.backend)[i]) > e.since - TTL
=============================================================================
