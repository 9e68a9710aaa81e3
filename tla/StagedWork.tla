----------------------------- MODULE StagedWork -----------------------------
(***************************************************************************)
(* What a store of stage checkpoints promises to whoever resumes a scan:   *)
(* stages are committed one after the other, each once, and a committed    *)
(* output stands for ever.  StageResume and ReleasePipeline implement it.  *)
(***************************************************************************)
EXTENDS Naturals

CONSTANTS
  NStages,    \* stages 1..NStages, in the order of _STAGE_ORDER
  Outputs,    \* what a stage may commit
  None        \* no checkpoint

VARIABLES
  last,       \* the last committed stage, 0 at the beginning
  payload     \* the checkpoints
vars == <<last, payload>>

Stages == 1..NStages

Init == last = 0 /\ payload = [s \in Stages |-> None]

Commit(o) ==
  /\ last < NStages
  /\ last' = last + 1
  /\ payload' = [payload EXCEPT ![last + 1] = o]

Next == \E o \in Outputs : Commit(o)

Spec == Init /\ [][Next]_vars
=============================================================================
