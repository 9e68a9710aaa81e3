----------------------------- MODULE LLMBudget -----------------------------
(***************************************************************************)
(* The LLM client with its fallback order and retries (brain/llm_client.py) *)
(* under the token ceilings and the response cache of brain/budget.py.      *)
(* Calls are coroutines of one event loop: they interleave only where they  *)
(* await a provider, a backoff or the rules their caller brought.           *)
(***************************************************************************)
EXTENDS Naturals, FiniteSets, FiniteSetsExt

CONSTANTS
  Calls,      \* coroutines that call complete_text or complete_json
  Scan(_),    \* the scan a call is charged to
  Mode(_),    \* json: complete_json or complete_text; rules: with a heuristic
              \* to fall back to or without
  Prompts,
  NProviders, \* length of the fallback order
  Provider(_),\* [kind, endpoint, key, enabled, out] of the i-th provider
  Retries, Input, Texts,  \* estimated tokens of the prompt and of possible texts
  ScanLimit, DayLimit,
  MaxCharges  \* bound: rows of llm_usage

VARIABLES
  db,    \* rows: of llm_usage, spent: what they add up to for each scan, day: and
         \* for today; cache: what a prompt's row of llm_cache holds: "none",
         \* "json" or "prose"; today
  proc,  \* a call's place, provider, attempt and prompt
  hist   \* failed: attempts that failed, by call and provider; from: where a call
         \* was when it ended, 0 before the first provider, NProviders + 1 after
         \* the last; result: how it ended

vars == <<db, proc, hist>>

Idle == [at |-> "idle", i |-> 0, attempt |-> 0, prompt |-> "none"]
Charged == {Scan(c) : c \in Calls}
NoTries == [i \in 1 .. NProviders |-> 0]

Init ==
  /\ db = [rows |-> 0, spent |-> [s \in Charged |-> 0], day |-> 0,
           cache |-> [p \in Prompts |-> "none"], today |-> 1]
  /\ proc = [c \in Calls |-> Idle]
  /\ hist = [failed |-> [c \in Calls |-> NoTries], from |-> [c \in Calls |-> 0],
             result |-> [c \in Calls |-> "none"]]

\* record_usage: what usage() sums for the scan and for the day grows.
Charge(c, n) ==
  [db EXCEPT !.rows = @ + 1, !.spent[Scan(c)] = @ + n, !.day = @ + n]

\* put_cached inserts the row or replaces it.
PutCached(d, prompt, form) == [d EXCEPT !.cache[prompt] = form]

EnabledFrom(i) == {j \in i .. NProviders : Provider(j).enabled}
Outputs == {Provider(j).out : j \in EnabledFrom(1)}

\* Without an enabled provider 2048 tokens of output are expected.
Projected == Input + (IF Outputs = {} THEN 2048 ELSE Max(Outputs))

Admitted(c) ==
  /\ db.day + Projected <= DayLimit
  /\ db.spent[Scan(c)] + Projected <= ScanLimit

\* What a call of each kind of provider may come to.  "content": null in an
\* Anthropic body is iterated: a TypeError that nobody catches.
OpenAICompatible(p) == {"fail"} \cup IF p.endpoint \/ p.kind = "openai" THEN {"text"} ELSE {}
Anthropic(p) == {"fail"} \cup IF p.key THEN {"text", "abort"} ELSE {}
Ollama == {"fail", "text"}

Outcomes(p) ==
  CASE p.kind \in {"openai", "openai_compatible", "github_models"} -> OpenAICompatible(p)
    [] p.kind = "anthropic" -> Anthropic(p)
    [] p.kind = "ollama" -> Ollama
    [] OTHER -> {"fail"}

Calling(c, outcome) == proc[c].at = "calling" /\ outcome \in Outcomes(Provider(proc[c].i))

Stopped(c, result) ==
  /\ proc' = [proc EXCEPT ![c] = Idle]
  /\ hist' = [hist EXCEPT !.result[c] = result, !.from[c] = proc[c].i]

\* The next enabled provider, else the rules or an error.
NextProvider(c, i, prompt) ==
  LET place(at, k) == [at |-> at, i |-> k, attempt |-> 0, prompt |-> prompt]
  IN proc' = [proc EXCEPT ![c] = IF EnabledFrom(i) = {} THEN place("heuristic", NProviders + 1)
                                 ELSE place("calling", Min(EnabledFrom(i)))]

\* get_cached finds what has not expired.
Hit(prompt) == db.cache[prompt] # "none"

\* complete_text returns a text as it is; complete_json wants JSON and turns to the
\* rules at once if there is none, whatever providers are left; without rules, and
\* when the rules raise, it raises.
Served(c, form, result) ==
  IF form = "json" \/ ~Mode(c).json THEN {result}
  ELSE IF Mode(c).rules THEN {"fallback", "broken"} ELSE {"invalid"}

Fresh(c, result) == [hist EXCEPT !.failed[c] = NoTries, !.from[c] = 0, !.result[c] = result]

------------------------------------------------------------------------------

\* A cached answer is returned (its row of llm_usage charges nothing), the
\* budget refuses, or the first provider is called: no await lies between.
Begin(c, prompt) ==
  /\ proc[c].at = "idle" /\ db.rows < MaxCharges
  /\ \/ /\ Hit(prompt)
        /\ \E r \in Served(c, db.cache[prompt], "cached") : proc' = proc /\ hist' = Fresh(c, r)
     \/ /\ ~Hit(prompt) /\ ~Admitted(c)
        /\ proc' = proc /\ hist' = Fresh(c, "refused")
     \/ /\ ~Hit(prompt) /\ Admitted(c)
        /\ NextProvider(c, 1, prompt) /\ hist' = Fresh(c, "none")
  /\ UNCHANGED db

\* The text arrives: it is charged, cached and returned, JSON or prose.
Answer(c, text, form) ==
  /\ Calling(c, "text")
  /\ db' = PutCached(Charge(c, Input + text), proc[c].prompt, form)
  /\ \E r \in Served(c, form, "answered") : Stopped(c, r)

\* Mutant: the last attempt is not made.
FailGivesUpEarly(c) ==
  LET p == proc[c] IN
  /\ Calling(c, "fail")
  /\ hist' = [hist EXCEPT !.failed[c][p.i] = @ + 1]
  /\ IF p.attempt + 1 >= Retries THEN NextProvider(c, p.i + 1, p.prompt)
     ELSE proc' = [proc EXCEPT ![c].at = "backoff"]
  /\ UNCHANGED db

\* No endpoint or key, a transport or status error, no text in the body.
Fail(c) ==
  LET p == proc[c] IN
  /\ Calling(c, "fail")
  /\ hist' = [hist EXCEPT !.failed[c][p.i] = @ + 1]
  /\ IF p.attempt >= Retries THEN NextProvider(c, p.i + 1, p.prompt)
     ELSE proc' = [proc EXCEPT ![c].at = "backoff"]
  /\ UNCHANGED db

Backoff(c) ==
  /\ proc[c].at = "backoff"
  /\ proc' = [proc EXCEPT ![c].at = "calling", ![c].attempt = @ + 1] /\ UNCHANGED <<db, hist>>

Malformed(c) == Calling(c, "abort") /\ Stopped(c, "error") /\ UNCHANGED db

\* The rules' answer is charged like a model's and never cached; complete_json
\* raises if it holds no JSON.  The rules may raise, or there are none.
Heuristic(c, text) ==
  /\ proc[c].at = "heuristic"
  /\ \/ /\ Mode(c).rules /\ db' = Charge(c, Input + text)
        /\ \/ Stopped(c, "heuristic")
           \/ Mode(c).json /\ Stopped(c, "invalid")
     \/ Mode(c).rules /\ Stopped(c, "broken") /\ UNCHANGED db
     \/ ~Mode(c).rules /\ Stopped(c, "unavailable") /\ UNCHANGED db

Cancelled(c) ==
  /\ proc[c].at # "idle"
  /\ Stopped(c, "cancelled") /\ UNCHANGED db

\* usage counts since _day_start, and of the cached answers some, which were kept
\* for their day, have expired by then.
Midnight ==
  /\ db.today = 1
  /\ \E expired \in SUBSET Prompts :
       db' = [db EXCEPT !.today = 2, !.day = 0,
                        !.cache = [p \in Prompts |-> IF p \in expired THEN "none" ELSE @[p]]]
  /\ UNCHANGED <<proc, hist>>

Next ==
  \/ \E c \in Calls : \/ Fail(c) \/ Backoff(c) \/ Malformed(c) \/ Cancelled(c)
                      \/ \E p \in Prompts : Begin(c, p)
                      \/ \E t \in Texts : Heuristic(c, t) \/ Answer(c, t, "json") \/ Answer(c, t, "prose")
  \/ Midnight

Spec == Init /\ [][Next]_vars

------------------------------------------------------------------------------

Worst == Input + Max(Texts)

\* The ceilings are checked before a call and charged after it: what calls
\* that run together may spend above them is bounded by their number.  The
\* last admission saw room for one projection, and every call in flight adds
\* at most the longest text.
OvershootIsBounded ==
  LET Within(spent, limit) == spent + Projected <= limit + Cardinality(Calls) * Worst IN
  /\ \A s \in Charged : Within(db.spent[s], ScanLimit)
  /\ Within(db.day, DayLimit)

\* Providers are asked in their order, each as often as it may fail, and no further
\* once a call ends: those before the place where it ended had all their attempts,
\* those after it none.  The rules answer for a model, and a call without rules is
\* told that no provider succeeded, only after the last; but prose that
\* complete_json cannot use ends the order at the provider it came from.
FallbackIsOrdered ==
  \A c \in Calls : hist.result[c] # "none" =>
    /\ hist.result[c] \in {"heuristic", "unavailable"} => hist.from[c] = NProviders + 1
    /\ \A i \in EnabledFrom(1) : /\ i < hist.from[c] => hist.failed[c][i] = Retries + 1
                                 /\ i = hist.from[c] => hist.failed[c][i] <= Retries
                                 /\ i > hist.from[c] => hist.failed[c][i] = 0
=============================================================================
