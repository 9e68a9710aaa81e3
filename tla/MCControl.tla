----------------------------- MODULE MCControl -----------------------------
(* An instance of Control.                                                   *)
EXTENDS Control, TLC

\* The first scan has a tool, the second none.
ToolsOf(s) == IF s = "s1" THEN 1 ELSE 0

\* c1 and c2 work for one scan, c3 for another.
ScanOf(c) == IF c = "c3" THEN 2 ELSE 1

\* c1 and c3 want JSON, c1 and c2 have rules to fall back to.
ModeOf(c) == [json |-> c # "c2", rules |-> c # "c3"]

\* Anthropic with a key, then a local model.
ProviderAt(i) ==
  IF i = 1 THEN [kind |-> "anthropic", endpoint |-> FALSE, key |-> TRUE, enabled |-> TRUE, out |-> 1]
  ELSE [kind |-> "ollama", endpoint |-> FALSE, key |-> FALSE, enabled |-> TRUE, out |-> 2]

Burst(rate, burst) == [rate |-> rate, burst |-> burst]
OfAll == Burst(2, 2)
OfKey == Burst(1, 1)
Assigned == {Burst(1, 1), Burst(1, 2)}

Subscribed(t, s) == s = "all" \/ (s = "tools" /\ t = "tool.started")

\* Of the audit log; the other parts do not mention them.
Symmetry == Permutations(Threads)
=============================================================================
