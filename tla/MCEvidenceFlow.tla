--------------------------- MODULE MCEvidenceFlow ---------------------------
(* An instance of EvidenceFlow.                                              *)
EXTENDS EvidenceFlow

\* The container first, then the binary.
ChainOf(t) == <<"container", "local">>

\* Two seeds, one the other way round.
ShuffleOf(seed, n) == [i \in 1 .. n |-> IF seed = "up" THEN i ELSE n + 1 - i]

ProxyRules ==
  {[act |-> "modify", when |-> "original"], [act |-> "tag", when |-> "modified"],
   [act |-> "drop", when |-> "modified"], [act |-> "replay", when |-> "any"]}
=============================================================================
