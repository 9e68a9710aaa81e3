---------------------------- MODULE DagExecution ----------------------------
(***************************************************************************)
(* What a scheduler of scan tasks promises, without asyncio: a task works  *)
(* at most once, only after everything it depends on is over, and never    *)
(* beside more tasks than the two caps allow; the execution closes when    *)
(* every task is over, and then stays closed.  A task may be skipped.      *)
(***************************************************************************)
EXTENDS Naturals, FiniteSets

CONSTANTS Tasks, Needs, Tools, ToolOf, GlobalCap, ToolCap

VARIABLES phase, active, over

vars == <<phase, active, over>>

Init ==
  /\ phase = "new"
  /\ active = {}
  /\ over = {}

Open ==
  /\ phase = "new"
  /\ phase' = "open"
  /\ UNCHANGED <<active, over>>

Refuse ==
  /\ phase = "new"
  /\ phase' = "closed"
  /\ UNCHANGED <<active, over>>

Begin(t) ==
  /\ phase = "open"
  /\ t \notin active \cup over
  /\ Needs[t] \subseteq over
  /\ Cardinality(active) < GlobalCap
  /\ Cardinality({u \in active : ToolOf[u] = ToolOf[t]}) < ToolCap[ToolOf[t]]
  /\ active' = active \cup {t}
  /\ UNCHANGED <<phase, over>>

Finish(t) ==
  /\ t \in active
  /\ active' = active \ {t}
  /\ over' = over \cup {t}
  /\ UNCHANGED phase

Skip(t) ==
  /\ phase = "open"
  /\ t \notin active \cup over
  /\ over' = over \cup {t}
  /\ UNCHANGED <<phase, active>>

Close ==
  /\ phase = "open"
  /\ over = Tasks
  /\ phase' = "closed"
  /\ UNCHANGED <<active, over>>

Next ==
  \/ Open \/ Refuse \/ Close
  \/ \E t \in Tasks : Begin(t) \/ Finish(t) \/ Skip(t)

Spec == Init /\ [][Next]_vars

Promise == Spec /\ (phase = "open" ~> phase = "closed")
=============================================================================
