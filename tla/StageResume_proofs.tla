------------------------- MODULE StageResume_proofs -------------------------
(***************************************************************************)
(* Proofs about StageResume and ReleasePipeline, for any numbers of          *)
(* drivers, stages and faults.                                              *)
(***************************************************************************)
EXTENDS MCStaged, FiniteSetTheorems, TLAPS

LEMMA StagesFact == NStages \in Nat /\ 1 <= NStages /\ None \notin Drivers
BY ResumeAssumption

-----------------------------------------------------------------------------
(* The inductive invariant.  The rows are exactly the stages up to the last  *)
(* one, and a driver is never more than one stage ahead of them: what it     *)
(* inserts is the next stage or one that is there already.                   *)
TableOK ==
  /\ last \in Nat /\ last <= NStages
  /\ payload \in [Stages -> Drivers \cup {None}]

PlacesOK ==
  /\ pc \in [Drivers -> {"lookup", "call", "state", "older", "insert", "down", "done", "refused"}]
  /\ stage \in [Drivers -> Stages]

Prefix == \A s \in Stages : payload[s] # None <=> s <= last

NotAhead ==
  \A d \in Drivers :
    /\ pc[d] \in {"lookup", "call", "state", "insert"} => stage[d] <= last + 1
    /\ pc[d] = "older" => stage[d] < last
    /\ pc[d] # "refused"

ResumeInv == TableOK /\ PlacesOK /\ Prefix /\ NotAhead

LEMMA ResumeInit == Init => ResumeInv
BY StagesFact DEF Init, ResumeInv, TableOK, PlacesOK, Prefix, NotAhead, Stages

\* A step that moves one driver and leaves the table alone.
LEMMA MoveFact ==
  ASSUME ResumeInv, NEW d \in Drivers, UNCHANGED table,
         NEW where \in {"lookup", "call", "state", "older", "insert", "down", "done"},
         Goto(d, where), stage' \in [Drivers -> Stages],
         \A e \in Drivers \ {d} : stage'[e] = stage[e],
         where \in {"lookup", "call", "state", "insert"} => stage'[d] <= last + 1,
         where = "older" => stage'[d] < last
  PROVE  ResumeInv'
<1>1. TableOK' /\ Prefix'
  BY DEF ResumeInv, TableOK, Prefix, table
<1>2. pc' = [pc EXCEPT ![d] = where] /\ last' = last
  BY DEF Goto, table
<1>3. PlacesOK'
  BY <1>2 DEF ResumeInv, PlacesOK
<1>4. NotAhead'
  <2> SUFFICES ASSUME NEW e \in Drivers
      PROVE  /\ pc'[e] \in {"lookup", "call", "state", "insert"} => stage'[e] <= last + 1
             /\ pc'[e] = "older" => stage'[e] < last
             /\ pc'[e] # "refused"
    BY <1>2 DEF NotAhead
  <2>1. CASE e = d
    BY <2>1, <1>2 DEF ResumeInv, PlacesOK
  <2>2. CASE e # d
    BY <2>2, <1>2 DEF ResumeInv, PlacesOK, NotAhead
  <2> QED
    BY <2>1, <2>2
<1> QED
  BY <1>1, <1>3, <1>4 DEF ResumeInv

\* run_stage returns a stage that has its row.
LEMMA AdvanceFact ==
  ASSUME ResumeInv, NEW d \in Drivers, UNCHANGED table, Advance(d), stage[d] <= last
  PROVE  ResumeInv'
<1>1. stage \in [Drivers -> Stages] /\ last \in Nat
  BY DEF ResumeInv, PlacesOK, TableOK
<1>2. CASE stage[d] < NStages
  <2>1. stage' = [stage EXCEPT ![d] = stage[d] + 1] /\ Goto(d, "lookup")
    BY <1>2 DEF Advance
  <2>2. stage[d] + 1 \in Stages /\ stage[d] + 1 <= last + 1
    BY <1>1, <1>2, StagesFact DEF Stages
  <2>3. stage' \in [Drivers -> Stages] /\ stage'[d] <= last + 1
    BY <2>1, <2>2, <1>1
  <2> QED
    BY <2>1, <2>3, <1>1, MoveFact
<1>3. CASE ~(stage[d] < NStages)
  BY <1>1, <1>3, MoveFact DEF Advance
<1> QED
  BY <1>2, <1>3

LEMMA InsertFact ==
  ASSUME ResumeInv, NEW d \in Drivers, Insert(d)
  PROVE  /\ ResumeInv'
         /\ \/ UNCHANGED table
            \/ last < NStages /\ last' = last + 1
               /\ payload' = [payload EXCEPT ![last + 1] = d]
<1>1. stage[d] \in Stages /\ stage[d] <= last + 1 /\ last \in Nat /\ last <= NStages
  BY DEF ResumeInv, PlacesOK, TableOK, NotAhead, Insert, Return, Remain
<1>2. stage[d] \in Nat /\ 1 <= stage[d] /\ stage[d] <= NStages
  BY <1>1, StagesFact DEF Stages
<1>3. CASE payload[stage[d]] # None
  <2>1. UNCHANGED table
    BY <1>3 DEF Insert, Return, Remain
  <2>2. stage[d] <= last
    BY <1>1, <1>3 DEF ResumeInv, Prefix
  <2> QED
    BY <2>1, <2>2, AdvanceFact DEF Insert, Return, Remain
<1>4. CASE payload[stage[d]] = None
  <2>1. last' = stage[d] /\ payload' = [payload EXCEPT ![stage[d]] = d]
    BY <1>4 DEF Insert, Return, Remain
  <2>2. stage[d] = last + 1
    <3>1. ~(stage[d] <= last)
      BY <1>1, <1>4 DEF ResumeInv, Prefix
    <3> QED
      BY <3>1, <1>1, <1>2
  <2>3. last < NStages /\ last' = last + 1 /\ payload' = [payload EXCEPT ![last + 1] = d]
    <3>1. last < NStages
      BY <2>2, <1>1, <1>2, StagesFact
    <3>2. last' = last + 1 /\ payload' = [payload EXCEPT ![last + 1] = d]
      BY <2>1, <2>2, Zenon
    <3> QED
      BY <3>1, <3>2
  <2>4. TableOK'
    <3>1. last' \in Nat /\ last' <= NStages
      BY <2>3, <1>1, StagesFact
    <3>2. payload \in [Stages -> Drivers \cup {None}]
      BY DEF ResumeInv, TableOK
    <3>3. payload' \in [Stages -> Drivers \cup {None}]
      BY <2>1, <3>2, <1>1
    <3> QED
      BY <3>1, <3>3 DEF TableOK
  <2>5. Prefix'
    <3> SUFFICES ASSUME NEW s \in Stages PROVE payload'[s] # None <=> s <= last'
      BY DEF Prefix
    <3>1. s \in Nat
      BY StagesFact DEF Stages
    <3>2. CASE s = last + 1
      BY <3>2, <2>3, <1>1, StagesFact DEF ResumeInv, TableOK
    <3>3. CASE s # last + 1
      BY <3>1, <3>3, <2>3, <1>1 DEF ResumeInv, TableOK, Prefix
    <3> QED
      BY <3>2, <3>3
  <2>6. stage' \in [Drivers -> Stages] /\ PlacesOK'
    BY <1>1, <1>2, StagesFact DEF Insert, Advance, Goto, ResumeInv, PlacesOK, Stages, Return, Remain
  <2>7. NotAhead'
    <3> SUFFICES ASSUME NEW e \in Drivers
        PROVE  /\ pc'[e] \in {"lookup", "call", "state", "insert"} => stage'[e] <= last' + 1
               /\ pc'[e] = "older" => stage'[e] < last'
               /\ pc'[e] # "refused"
      BY DEF NotAhead
    <3>1. CASE e = d
      BY <3>1, <2>3, <2>2, <1>1, <1>2 DEF Insert, Advance, Goto, ResumeInv, PlacesOK, Return, Remain
    <3>2. CASE e # d
      <4>1. pc'[e] = pc[e] /\ stage'[e] = stage[e]
        BY <3>2 DEF Insert, Advance, Goto, ResumeInv, PlacesOK, Return, Remain
      <4>2. stage[e] \in Nat
        BY StagesFact DEF ResumeInv, PlacesOK, Stages
      <4> QED
        BY <4>1, <4>2, <2>3, <1>1 DEF ResumeInv, NotAhead
    <3> QED
      BY <3>1, <3>2
  <2> QED
    BY <2>3, <2>4, <2>5, <2>6, <2>7 DEF ResumeInv
<1> QED
  BY <1>3, <1>4

\* Every step keeps the invariant and commits the next stage or nothing.
LEMMA ResumeStep ==
  ASSUME ResumeInv, [Next]_vars
  PROVE  /\ ResumeInv'
         /\ \/ UNCHANGED table
            \/ \E d \in Drivers : last < NStages /\ last' = last + 1
                                  /\ payload' = [payload EXCEPT ![last + 1] = d]
<1> stage \in [Drivers -> Stages] /\ last \in Nat /\ last <= NStages
  BY DEF ResumeInv, PlacesOK, TableOK
<1>1. ASSUME NEW d \in Drivers, Lookup(d) PROVE ResumeInv' /\ UNCHANGED table
  <2>1. CASE payload[stage[d]] # None
    <3>1. stage[d] <= last
      BY <2>1 DEF ResumeInv, Prefix
    <3> QED
      BY <1>1, <2>1, <3>1, AdvanceFact DEF Lookup, Return, Remain
  <2>2. CASE payload[stage[d]] = None
    BY <1>1, <2>2, MoveFact DEF Lookup, ResumeInv, NotAhead, Return, Remain
  <2> QED
    BY <2>1, <2>2
<1>2. ASSUME NEW d \in Drivers, Call(d) PROVE ResumeInv' /\ UNCHANGED table
  BY <1>2, MoveFact DEF Call, ResumeInv, NotAhead, Return, Remain
<1>3. ASSUME NEW d \in Drivers, ReadState(d) PROVE ResumeInv' /\ UNCHANGED table
  <2>0. stage[d] \in Nat /\ stage[d] <= last + 1 /\ UNCHANGED table
    BY <1>3, StagesFact DEF ReadState, ResumeInv, NotAhead, Stages, Return, Remain
  <2>1. CASE stage[d] < last
    BY <1>3, <2>0, <2>1, MoveFact DEF ReadState, Return, Remain
  <2>2. CASE stage[d] = last
    BY <1>3, <2>0, <2>2, AdvanceFact DEF ReadState, Return, Remain
  <2>3. CASE ~(stage[d] < last) /\ stage[d] # last
    BY <1>3, <2>0, <2>3, MoveFact DEF ReadState, Return, Remain
  <2> QED
    BY <2>1, <2>2, <2>3
<1>4. ASSUME NEW d \in Drivers, ReadOlder(d) PROVE ResumeInv' /\ UNCHANGED table
  <2>1. stage[d] \in Nat /\ stage[d] <= last
    BY <1>4, StagesFact DEF ReadOlder, ResumeInv, NotAhead, Stages, Return, Remain
  <2>2. payload[stage[d]] # None
    BY <2>1 DEF ResumeInv, Prefix
  <2> QED
    BY <1>4, <2>1, <2>2, AdvanceFact DEF ReadOlder, Return, Remain
<1>5. ASSUME NEW d \in Drivers, Stop(d) PROVE ResumeInv' /\ UNCHANGED table
  BY <1>5, MoveFact DEF Stop, Return, Remain
<1>6. ASSUME NEW d \in Drivers, Restart(d) PROVE ResumeInv' /\ UNCHANGED table
  <2>0. UNCHANGED table
    BY <1>6 DEF Restart, Return, Remain
  <2>1. CASE Goto(d, "lookup") /\ stage' = [stage EXCEPT ![d] = 1]
    <3>1. 1 \in Stages /\ 1 <= last + 1
      BY StagesFact DEF Stages
    <3>2. stage' \in [Drivers -> Stages] /\ stage'[d] <= last + 1
      BY <3>1, <2>1
    <3> QED
      BY <2>0, <2>1, <3>2, MoveFact
  <2>2. CASE last < NStages /\ Goto(d, "lookup") /\ stage' = [stage EXCEPT ![d] = last + 1]
    <3>1. last + 1 \in Stages
      BY <2>2, StagesFact DEF Stages
    <3>2. stage' \in [Drivers -> Stages] /\ stage'[d] <= last + 1
      BY <3>1, <2>2
    <3> QED
      BY <2>0, <2>2, <3>2, MoveFact
  <2>3. CASE Goto(d, "done") /\ UNCHANGED stage
    BY <2>0, <2>3, MoveFact
  <2> QED
    BY <1>6, <2>0, <2>1, <2>2, <2>3 DEF Restart, Return, Remain
<1>7. CASE UNCHANGED vars
  BY <1>7 DEF vars, table, ResumeInv, TableOK, PlacesOK, Prefix, NotAhead
<1> QED
  BY <1>1, <1>2, <1>3, <1>4, <1>5, <1>6, <1>7, InsertFact DEF Next, Step, Ended

LEMMA ResumeInvariant == Spec => []ResumeInv
<1>1. ResumeInv /\ [Next]_vars => ResumeInv'
  BY ResumeStep
<1> QED
  BY <1>1, ResumeInit, PTL DEF Spec

-----------------------------------------------------------------------------
(* What run_stage returned.                                                  *)
ReturnInv == outputs \in [Drivers -> [Stages -> Drivers \cup {None}]] /\ ReturnedOrOwn

LEMMA ReturnInit == Init => ReturnInv
BY DEF Init, ReturnInv, ReturnedOrOwn, Stages

LEMMA ReturnStep ==
  ASSUME ResumeInv, ReturnInv, [Next]_vars
  PROVE  ReturnInv'
<1>0. /\ outputs \in [Drivers -> [Stages -> Drivers \cup {None}]] /\ ReturnedOrOwn
      /\ payload \in [Stages -> Drivers \cup {None}] /\ stage \in [Drivers -> Stages]
      /\ None \notin Drivers /\ last \in Nat
  BY StagesFact DEF ResumeInv, TableOK, PlacesOK, ReturnInv
<1>1. \A s \in Stages : payload[s] # None => payload'[s] = payload[s]
  <2>1. CASE UNCHANGED table
    BY <2>1 DEF table
  <2>2. ASSUME NEW d \in Drivers, payload' = [payload EXCEPT ![last + 1] = d]
        PROVE  \A s \in Stages : payload[s] # None => payload'[s] = payload[s]
    <3>1. \A s \in Stages : payload[s] # None => s # last + 1
      BY <1>0, StagesFact DEF ResumeInv, Prefix, Stages
    <3> QED
      BY <1>0, <2>2, <3>1
  <2> QED
    BY <2>1, <2>2, ResumeStep
<1>2. CASE outputs' = outputs
  BY <1>0, <1>1, <1>2 DEF ReturnInv, ReturnedOrOwn
<1>3. ASSUME NEW d \in Drivers, NEW o \in Drivers, outputs' = [outputs EXCEPT ![d][stage[d]] = o],
             payload'[stage[d]] # None, o \in {payload'[stage[d]], d}
      PROVE  ReturnInv'
  <2>1. outputs' \in [Drivers -> [Stages -> Drivers \cup {None}]]
    BY <1>0, <1>3
  <2>2. ASSUME NEW e \in Drivers, NEW s \in Stages, outputs'[e][s] # None
        PROVE  payload'[s] # None /\ outputs'[e][s] \in {payload'[s], e}
    <3>1. CASE e = d /\ s = stage[d]
      BY <1>0, <1>3, <3>1
    <3>2. CASE ~(e = d /\ s = stage[d])
      <4>1. outputs'[e][s] = outputs[e][s]
        BY <1>0, <1>3, <3>2
      <4>2. payload[s] # None /\ outputs[e][s] \in {payload[s], e}
        BY <1>0, <2>2, <4>1 DEF ReturnedOrOwn
      <4> QED
        BY <1>1, <4>1, <4>2
    <3> QED
      BY <3>1, <3>2
  <2> QED
    BY <2>1, <2>2 DEF ReturnInv, ReturnedOrOwn
<1>4. ASSUME NEW d \in Drivers, Lookup(d) PROVE ReturnInv'
  <2>1. CASE payload[stage[d]] # None
    <3>1. outputs' = [outputs EXCEPT ![d][stage[d]] = payload[stage[d]]] /\ payload' = payload
      BY <1>4, <2>1 DEF Lookup, Return, table
    <3>2. payload[stage[d]] \in Drivers
      BY <1>0, <2>1
    <3> QED
      BY <1>3, <2>1, <3>1, <3>2
  <2>2. CASE payload[stage[d]] = None
    BY <1>2, <1>4, <2>2 DEF Lookup, Remain
  <2> QED
    BY <2>1, <2>2
<1>5. ASSUME NEW d \in Drivers, ReadState(d) \/ ReadOlder(d) PROVE ReturnInv'
  <2>1. CASE outputs' = [outputs EXCEPT ![d][stage[d]] = d] /\ (stage[d] = last \/ payload[stage[d]] # None)
    <3>1. payload[stage[d]] # None /\ payload' = payload
      BY <1>0, <1>5, <2>1 DEF ReadState, ReadOlder, table, ResumeInv, Prefix
    <3> QED
      BY <1>3, <2>1, <3>1
  <2> QED
    BY <1>2, <1>5, <2>1 DEF ReadState, ReadOlder, Return, Remain
<1>6. ASSUME NEW d \in Drivers, Insert(d) PROVE ReturnInv'
  <2>1. outputs' = [outputs EXCEPT ![d][stage[d]] = d]
    BY <1>6 DEF Insert, Return
  <2>2. payload'[stage[d]] # None
    <3>1. CASE payload[stage[d]] = None
      BY <1>0, <1>6, <3>1 DEF Insert
    <3>2. CASE payload[stage[d]] # None
      BY <1>1, <1>0, <3>2
    <3> QED
      BY <3>1, <3>2
  <2> QED
    BY <1>3, <2>1, <2>2
<1>7. ASSUME NEW d \in Drivers, Restart(d) PROVE ReturnInv'
  <2>1. outputs' = [outputs EXCEPT ![d] = [s \in Stages |-> None]]
    BY <1>7 DEF Restart
  <2>2. outputs' \in [Drivers -> [Stages -> Drivers \cup {None}]]
    BY <1>0, <2>1
  <2>3. \A e \in Drivers, s \in Stages : outputs'[e][s] # None => e # d /\ outputs'[e][s] = outputs[e][s]
    BY <1>0, <2>1
  <2> QED
    BY <1>0, <1>1, <2>2, <2>3 DEF ReturnInv, ReturnedOrOwn
<1>8. ASSUME NEW d \in Drivers, Call(d) \/ Stop(d) PROVE ReturnInv'
  BY <1>2, <1>8 DEF Call, Stop, Remain
<1>9. CASE UNCHANGED vars
  BY <1>2, <1>9 DEF vars
<1> QED
  BY <1>4, <1>5, <1>6, <1>7, <1>8, <1>9 DEF Next, Step, Ended

-----------------------------------------------------------------------------
\* The rows, the places of the drivers and the counters keep their types.
THEOREM TypeCorrect == Spec => []TypeOK
<1> DEFINE CountsOK == work \in Nat /\ faults \in 0..MaxFaults
<1>1. Init => CountsOK
  BY ResumeAssumption DEF Init
<1>2. CountsOK /\ [Next]_vars => CountsOK'
  BY ResumeAssumption DEF Next, Step, Ended, Lookup, Call, ReadState, ReadOlder, Insert,
     Stop, Restart, vars, Return, Remain
<1>3. ResumeInv /\ ReturnInv /\ CountsOK => TypeOK
  BY StagesFact DEF ResumeInv, TableOK, PlacesOK, ReturnInv, TypeOK
<1>4. ResumeInv /\ ReturnInv /\ [Next]_vars => ReturnInv'
  BY ReturnStep
<1> HIDE DEF CountsOK
<1> QED
  BY <1>1, <1>2, <1>3, <1>4, ReturnInit, ResumeInvariant, PTL DEF Spec

\* No driver that goes through the stages in order is refused a commit.
THEOREM CommitsAreAccepted == Spec => []NeverRefused
<1>1. ResumeInv => NeverRefused
  BY DEF ResumeInv, NotAhead, NeverRefused
<1> QED
  BY <1>1, ResumeInvariant, PTL

\* A stage runs only on committed outputs of all earlier stages.
THEOREM StagesBuildOnCommitted == Spec => []BuildsOnCommitted
<1>1. ResumeInv => BuildsOnCommitted
  <2> SUFFICES ASSUME ResumeInv, NEW d \in Drivers, pc[d] \in {"call", "state", "insert"},
                      NEW s \in Stages, s < stage[d]
               PROVE  payload[s] # None
    BY DEF BuildsOnCommitted
  <2>1. stage[d] <= last + 1 /\ stage[d] \in Nat /\ s \in Nat /\ last \in Nat
    BY StagesFact DEF ResumeInv, NotAhead, PlacesOK, TableOK, Stages
  <2>2. s <= last
    BY <2>1
  <2> QED
    BY <2>2 DEF ResumeInv, Prefix
<1> QED
  BY <1>1, ResumeInvariant, PTL

\* The coordinator implements StagedWork: stages are committed in order, each
\* once, and no checkpoint is ever overwritten.
THEOREM ResumeImplementsStagedWork == Spec => ImplementsStagedWork
<1>1. Init => Staged!Init
  BY DEF Init, Staged!Init, Stages, Staged!Stages
<1>2. ResumeInv /\ [Next]_vars => [Staged!Next]_(Staged!vars)
  BY ResumeStep DEF Staged!Next, Staged!Commit, Staged!vars, table
<1> QED
  BY <1>1, <1>2, ResumeInvariant, PTL DEF Spec, ImplementsStagedWork, Staged!Spec

-----------------------------------------------------------------------------
(* WorkBound.  `Spent` are the pairs of a driver and a stage whose callback   *)
(* that driver will not run again: the stage is committed, or the driver is   *)
(* on its way from the callback to the commit.  A driver that found no row    *)
(* and is about to call may still do so after another one committed.          *)
Committing == {"state", "older", "insert"}
Spent ==
  {p \in Drivers \X Stages :
     \/ p[2] <= last /\ ~(pc[p[1]] = "call" /\ stage[p[1]] = p[2])
     \/ pc[p[1]] \in Committing /\ stage[p[1]] = p[2]}

WorkInv == work \in Nat /\ faults \in Nat /\ work <= Cardinality(Spent) + faults

LEMMA SpentFinite ==
  /\ IsFiniteSet(Drivers \X Stages)
  /\ Cardinality(Drivers) \in Nat
  /\ Cardinality(Drivers \X Stages) = NStages * Cardinality(Drivers)
  /\ IsFiniteSet(Spent) /\ Cardinality(Spent) \in Nat /\ Cardinality(Spent) <= Cardinality(Drivers \X Stages)
<1>1. IsFiniteSet(Drivers) /\ Cardinality(Drivers) \in Nat
  BY ResumeAssumption, FS_CardinalityType
<1>2. IsFiniteSet(1 .. NStages) /\ Cardinality(1 .. NStages) = NStages
  BY StagesFact, FS_Interval
<1>3. IsFiniteSet(Stages) /\ Cardinality(Stages) = NStages
  BY <1>2 DEF Stages
<1>4. IsFiniteSet(Drivers \X Stages) /\ Cardinality(Drivers \X Stages) = Cardinality(Drivers) * Cardinality(Stages)
  BY <1>1, <1>3, FS_Product
<1>5. Cardinality(Drivers) * NStages = NStages * Cardinality(Drivers)
  BY <1>1, StagesFact
<1>6. Spent \in SUBSET (Drivers \X Stages)
  BY DEF Spent
<1>7. IsFiniteSet(Spent) /\ Cardinality(Spent) <= Cardinality(Drivers \X Stages)
  BY <1>4, <1>6, FS_Subset
<1>8. Cardinality(Spent) \in Nat
  BY <1>7, FS_CardinalityType
<1> QED
  BY <1>1, <1>3, <1>4, <1>5, <1>7, <1>8

\* A spent pair stays spent, unless its driver stops on the way to the commit.
LEMMA SpentFact ==
  ASSUME ResumeInv, ResumeInv', last <= last', NEW d \in Drivers, Step(d) \/ Stop(d), NEW p \in Spent
  PROVE  p \in Spent' \/ (Stop(d) /\ p = <<d, stage[d]>>)
<1>1. PICK e \in Drivers, s \in Stages : p = <<e, s>>
  BY DEF Spent
<1>2. s \in Nat /\ last \in Nat /\ last' \in Nat /\ stage[d] \in Nat /\ s <= NStages
      /\ pc \in [Drivers -> {"lookup", "call", "state", "older", "insert", "down", "done", "refused"}]
      /\ stage \in [Drivers -> Stages]
  BY <1>1, StagesFact DEF ResumeInv, TableOK, PlacesOK, Stages
<1>3. (s <= last /\ ~(pc[e] = "call" /\ stage[e] = s)) \/ (pc[e] \in Committing /\ stage[e] = s)
  BY <1>1 DEF Spent
<1> DEFINE Goal == \/ s <= last' /\ ~(pc'[e] = "call" /\ stage'[e] = s)
                   \/ pc'[e] \in Committing /\ stage'[e] = s
<1>4. SUFFICES Goal \/ (Stop(d) /\ e = d /\ s = stage[d])
  BY <1>1 DEF Spent
<1>5. CASE e # d
  <2>1. pc'[e] = pc[e] /\ stage'[e] = stage[e]
    BY <1>2, <1>5 DEF Step, Stop, Lookup, Call, ReadState, ReadOlder, Insert, Restart, Goto, Advance, Return, Remain
  <2>2. s <= last => s <= last'
    BY <1>2
  <2> QED
    BY <1>3, <2>1, <2>2
<1>6. CASE e = d
  <2>0. pc'[d] # "call" /\ s <= last => Goal
    BY <1>2, <1>6
  <2>1. CASE Lookup(d)
    <3>1. CASE pc'[d] = "call"
      <4>1. payload[stage[d]] = None /\ stage'[d] = stage[d] /\ pc[d] = "lookup"
        BY <1>2, <2>1, <3>1 DEF Lookup, Advance, Goto, Return, Remain
      <4>2. ~(stage[d] <= last)
        BY <1>2, <4>1 DEF ResumeInv, Prefix
      <4> QED
        BY <1>2, <1>3, <1>6, <4>1, <4>2 DEF Committing
    <3>2. CASE pc'[d] # "call"
      BY <1>3, <1>6, <2>0, <2>1, <3>2 DEF Lookup, Committing, Return, Remain
    <3> QED
      BY <3>1, <3>2
  <2>2. CASE Call(d)
    BY <1>2, <1>3, <1>6, <2>0, <2>2 DEF Call, Goto, Committing, Return, Remain
  <2>3. CASE ReadState(d)
    <3>1. pc[d] = "state" /\ pc'[d] # "call"
      BY <1>2, <2>3 DEF ReadState, Goto, Advance, Return, Remain
    <3>2. CASE stage[d] = s
      <4>1. stage[d] < last \/ stage[d] = last \/ (pc'[d] = "insert" /\ stage'[d] = stage[d])
        BY <1>2, <2>3 DEF ReadState, Goto, Return, Remain
      <4>2. stage[d] <= last \/ (pc'[d] = "insert" /\ stage'[d] = stage[d])
        BY <1>2, <4>1
      <4> QED
        BY <1>6, <2>0, <3>1, <3>2, <4>2 DEF Committing
    <3>3. CASE stage[d] # s
      BY <1>3, <1>6, <2>0, <3>1, <3>3
    <3> QED
      BY <3>2, <3>3
  <2>4. CASE ReadOlder(d)
    <3>1. pc'[d] # "call" /\ stage[d] < last
      BY <1>2, <2>4 DEF ReadOlder, Goto, Advance, ResumeInv, NotAhead, Return, Remain
    <3> QED
      BY <1>2, <1>3, <1>6, <2>0, <3>1
  <2>5. CASE Insert(d)
    <3>1. pc'[d] # "call" /\ pc[d] = "insert"
      BY <1>2, <2>5 DEF Insert, Goto, Advance, Return, Remain
    <3>2. stage[d] <= last'
      <4>1. payload'[stage[d]] # None
        <5>1. CASE payload[stage[d]] = None
          <6>1. payload' = [payload EXCEPT ![stage[d]] = d] /\ stage[d] \in Stages
            BY <1>2, <2>5, <5>1 DEF Insert, Return, Remain
          <6>2. payload'[stage[d]] = d
            BY <6>1 DEF ResumeInv, TableOK
          <6> QED
            BY <6>2, StagesFact
        <5>2. CASE payload[stage[d]] # None
          BY <2>5, <5>2 DEF Insert, table, Return, Remain
        <5> QED
          BY <5>1, <5>2
      <4> QED
        BY <1>2, <4>1 DEF ResumeInv, Prefix
    <3>3. s <= last'
      BY <1>2, <1>3, <1>6, <3>2
    <3> QED
      BY <1>6, <3>1, <3>3
  <2>6. CASE Stop(d)
    BY <1>2, <1>3, <1>6, <2>0, <2>6 DEF Stop, Goto, Return, Remain
  <2>7. CASE Restart(d)
    <3>1. pc'[d] # "call" /\ pc[d] = "down"
      BY <1>2, <2>7 DEF Restart, Goto, Return, Remain
    <3> QED
      BY <1>3, <1>6, <2>0, <3>1 DEF Committing
  <2> QED
    BY <2>1, <2>2, <2>3, <2>4, <2>5, <2>6, <2>7 DEF Step
<1> QED
  BY <1>5, <1>6

LEMMA WorkStep ==
  ASSUME ResumeInv, ResumeInv', WorkInv, last <= last', [Next]_vars
  PROVE  WorkInv'
<1>1. PICK w \in Nat, f \in Nat, k \in Nat : w = work /\ f = faults /\ k = Cardinality(Spent) /\ w <= k + f
  BY SpentFinite DEF WorkInv
<1>2. IsFiniteSet(Spent) /\ IsFiniteSet(Spent') /\ Cardinality(Spent') \in Nat
  <2>1. Spent' \in SUBSET (Drivers \X Stages)
    BY DEF Spent
  <2>2. IsFiniteSet(Spent')
    BY <2>1, SpentFinite, FS_Subset
  <2> QED
    BY <2>2, SpentFinite, FS_CardinalityType
<1>3. PICK l \in Nat : l = Cardinality(Spent')
  BY <1>2
<1>4. CASE UNCHANGED vars
  <2>1. Spent' = Spent /\ work' = work /\ faults' = faults
    BY <1>4 DEF vars, table, Spent
  <2>2. Cardinality(Spent') = Cardinality(Spent)
    BY <2>1
  <2> QED
    BY <2>1, <2>2 DEF WorkInv
<1>5. ASSUME NEW d \in Drivers, Call(d) PROVE WorkInv'
  <2>1. \A p \in Spent : p \in Spent'
    BY <1>5, SpentFact DEF Step, Call, Stop, Return, Remain
  <2>2. <<d, stage[d]>> \in Spent' /\ <<d, stage[d]>> \notin Spent
    BY <1>5 DEF Call, Goto, Spent, Committing, ResumeInv, PlacesOK, Return, Remain
  <2>3. IsFiniteSet(Spent \cup {<<d, stage[d]>>}) /\ Cardinality(Spent \cup {<<d, stage[d]>>}) = k + 1
    BY <1>1, <1>2, <2>2, FS_AddElement
  <2>4. Spent \cup {<<d, stage[d]>>} \subseteq Spent'
    BY <2>1, <2>2
  <2>5. Cardinality(Spent \cup {<<d, stage[d]>>}) <= Cardinality(Spent')
    BY <1>2, <2>4, FS_Subset
  <2>6. k + 1 <= l /\ work' = w + 1 /\ faults' = f
    BY <1>1, <1>3, <1>5, <2>3, <2>5 DEF Call, Return, Remain
  <2>7. w + 1 <= l + f
    BY <1>1, <2>6
  <2> QED
    BY <1>3, <2>6, <2>7 DEF WorkInv
<1>6. ASSUME NEW d \in Drivers, Stop(d) PROVE WorkInv'
  <2> DEFINE both == Spent' \cup {<<d, stage[d]>>}
  <2>1. Spent \subseteq both
    BY <1>6, SpentFact
  <2>2. IsFiniteSet(both) /\ Cardinality(both) \in {l, l + 1}
    BY <1>2, <1>3, FS_AddElement
  <2>3. Cardinality(Spent) <= Cardinality(both)
    BY <2>1, <2>2, FS_Subset
  <2>4. k <= l + 1
    BY <1>1, <2>2, <2>3
  <2>5. work' = w /\ faults' = f + 1
    BY <1>1, <1>6 DEF Stop, Return, Remain
  <2>6. w <= l + (f + 1)
    BY <1>1, <2>4
  <2> QED
    BY <1>3, <2>5, <2>6 DEF WorkInv
<1>7. ASSUME NEW d \in Drivers, Lookup(d) \/ ReadState(d) \/ ReadOlder(d) \/ Insert(d) \/ Restart(d)
      PROVE  WorkInv'
  <2>1. work' = w /\ faults' = f
    BY <1>1, <1>7 DEF Lookup, ReadState, ReadOlder, Insert, Restart, Return, Remain
  <2>2. CASE Stop(d)
    BY <1>6, <2>2
  <2>3. CASE ~Stop(d)
    <3>1. Spent \subseteq Spent'
      BY <1>7, <2>3, SpentFact DEF Step
    <3>2. k <= l
      BY <1>1, <1>2, <1>3, <3>1, FS_Subset
    <3>3. w <= l + f
      BY <1>1, <3>2
    <3> QED
      BY <1>3, <2>1, <3>3 DEF WorkInv
  <2> QED
    BY <2>2, <2>3
<1> QED
  BY <1>4, <1>5, <1>6, <1>7 DEF Next, Step, Ended

LEMMA WorkInit == Init => WorkInv
<1> SUFFICES ASSUME Init PROVE WorkInv
  OBVIOUS
<1>1. work = 0 /\ faults = 0
  BY DEF Init
<1>2. PICK k \in Nat : k = Cardinality(Spent)
  BY SpentFinite
<1> QED
  BY <1>1, <1>2 DEF WorkInv

LEMMA WorkIsBounded ==
  ASSUME WorkInv
  PROVE  WorkBound
<1>1. PICK k \in Nat, n \in Nat : k = Cardinality(Spent) /\ n = NStages * Cardinality(Drivers) /\ k <= n
  <2>1. Cardinality(Spent) \in Nat /\ Cardinality(Spent) <= NStages * Cardinality(Drivers)
    BY SpentFinite
  <2>2. NStages * Cardinality(Drivers) \in Nat
    BY StagesFact, SpentFinite
  <2> QED
    BY <2>1, <2>2
<1>2. work \in Nat /\ faults \in Nat /\ work <= k + faults
  BY <1>1 DEF WorkInv
<1>3. work <= n + faults
  BY <1>1, <1>2
<1> QED
  BY <1>1, <1>3 DEF WorkBound

-----------------------------------------------------------------------------
(* ReleasePipeline.  A run that is under way has taken over or committed all  *)
(* stages before its own, and what it will return is what is stored for them. *)
RunPoints == {"top", "budget", "row", "audit", "event", "call", "insert", "raised", "completed", "cancelled"}
UnderWay == {"top", "budget", "row", "audit", "event", "call", "insert"}
Words == {"started", "resumed", "completed", "cancelled"}
Done == {"resumed", "completed"}

RunsOK ==
  /\ pc \in [Drivers -> RunPoints] /\ stage \in [Drivers -> Stages] /\ status \in [Drivers -> Words]
  /\ outputs \in [Drivers -> [Stages -> Drivers \cup {None}]]

Stored(d, s) == payload[s] # None /\ outputs[d][s] = payload[s]

RunHolds(d) ==
  /\ pc[d] \in UnderWay => \A s \in Stages : s < stage[d] => Stored(d, s)
  /\ pc[d] \in {"row", "audit", "event"} /\ status[d] \in Done => Stored(d, stage[d])
  /\ pc[d] = "completed" => \A s \in Stages : Stored(d, s)

RunsHold == \A d \in Drivers : RunHolds(d)

\* An event is backed by its record, a record by its row, a row of a stage that
\* is over by the checkpoints up to it.
ReportsHold ==
  /\ shown \subseteq audited /\ audited \subseteq rows
  /\ \A r \in rows : r[1] \in Stages /\ (r[2] \in Done => r[1] <= last)
  /\ \A d \in Drivers :
       /\ pc[d] \in {"audit", "event"} => <<stage[d], status[d]>> \in rows
       /\ pc[d] = "event" => <<stage[d], status[d]>> \in audited

\* The unreported stages nobody is about to report.
Owed(s) == \E d \in Drivers : payload[s] = d /\ stage[d] = s /\ pc[d] = "row" /\ status[d] = "completed"
Lost == {s \in Stages : /\ payload[s] # None /\ ~Owed(s)
                        /\ <<s, "completed">> \notin rows /\ <<s, "resumed">> \notin rows}
LossInv == faults \in Nat /\ Cardinality(Lost) <= faults

ReleaseInv == TableOK /\ Prefix /\ RunsOK /\ RunsHold /\ ReportsHold /\ LossInv

SuiteInv ==
  /\ part \in {"resume", "release"}
  /\ part = "resume" => ResumeInv /\ WorkInv /\ ReturnInv
  /\ part = "release" => ReleaseInv

LEMMA CountFact ==
  ASSUME NEW k \in Nat, k <= NStages, NEW f, \A s \in Stages : f[s] # None <=> s <= k
  PROVE  Cardinality({s \in Stages : f[s] # None}) = k
<1>1. {s \in Stages : f[s] # None} = 1 .. k
  BY StagesFact DEF Stages
<1>2. Cardinality(1 .. k) = k
  BY FS_Interval
<1> QED
  BY <1>1, <1>2

\* A step is of one run, or leaves all runs and what is stored alone.
LEMMA RunFact ==
  ASSUME ReleaseInv, NEW d \in Drivers, Release!Step(d) \/ Release!Rerun(d) \/ Release!Fail(d)
  PROVE  /\ RunsOK'
         /\ \A e \in Drivers \ {d} : /\ pc'[e] = pc[e] /\ stage'[e] = stage[e]
                                     /\ status'[e] = status[e] /\ outputs'[e] = outputs[e]
<1> USE StagesFact DEF Stages, Release!Stages
<1>0. /\ pc \in [Drivers -> RunPoints] /\ stage \in [Drivers -> Stages] /\ status \in [Drivers -> Words]
      /\ outputs \in [Drivers -> [Stages -> Drivers \cup {None}]]
      /\ payload \in [Stages -> Drivers \cup {None}]
  BY DEF ReleaseInv, RunsOK, TableOK
<1>1. /\ pc' \in [Drivers -> RunPoints] /\ \A e \in Drivers \ {d} : pc'[e] = pc[e]
  BY <1>0 DEF Release!Step, Release!Top, Release!Lookup, Release!Row, Release!Audit, Release!Event, Release!Call,
     Release!Insert, Release!Rerun, Release!Fail, Release!Goto, Release!Report, RunPoints
<1>2. /\ stage' \in [Drivers -> Stages] /\ \A e \in Drivers \ {d} : stage'[e] = stage[e]
  <2>1. CASE stage' = stage
    BY <1>0, <2>1
  <2>2. CASE stage' = [stage EXCEPT ![d] = 1]
    BY <1>0, <2>2
  <2>3. CASE stage[d] # NStages /\ stage' = [stage EXCEPT ![d] = @ + 1]
    BY <1>0, <2>3
  <2> QED
    BY <2>1, <2>2, <2>3 DEF Release!Step, Release!Top, Release!Lookup, Release!Row, Release!Audit, Release!Event,
       Release!Call, Release!Insert, Release!Rerun, Release!Fail, Release!local
<1>3. /\ status' \in [Drivers -> Words] /\ \A e \in Drivers \ {d} : status'[e] = status[e]
  BY <1>0 DEF Release!Step, Release!Top, Release!Lookup, Release!Row, Release!Audit, Release!Event, Release!Call,
     Release!Insert, Release!Rerun, Release!Fail, Release!Report, Release!local, Words
<1>4. /\ outputs' \in [Drivers -> [Stages -> Drivers \cup {None}]]
      /\ \A e \in Drivers \ {d} : outputs'[e] = outputs[e]
  <2>1. CASE outputs' = outputs
    BY <1>0, <2>1
  <2>2. ASSUME NEW o \in Drivers \cup {None}, outputs' = [outputs EXCEPT ![d][stage[d]] = o] PROVE <1>4!1 /\ <1>4!2
    BY <1>0, <2>2
  <2>3. CASE outputs' = [outputs EXCEPT ![d] = [s \in Stages |-> None]]
    BY <1>0, <2>3
  <2>4. payload[stage[d]] \in Drivers \cup {None}
    BY <1>0
  <2> QED
    BY <2>1, <2>2, <2>3, <2>4 DEF Release!Step, Release!Top, Release!Lookup, Release!Row, Release!Audit,
       Release!Event, Release!Call, Release!Insert, Release!Rerun, Release!Fail, Release!local
<1> QED
  BY <1>1, <1>2, <1>3, <1>4 DEF RunsOK

\* The table: nothing, or the next stage is committed.
LEMMA TableFact ==
  ASSUME ReleaseInv, Release!Next, Count
  PROVE  /\ TableOK' /\ Prefix'
         /\ \A s \in Stages : payload[s] # None => payload'[s] = payload[s]
         /\ \/ UNCHANGED table
            \/ \E d \in Drivers : last < NStages /\ last' = last + 1
                                  /\ payload' = [payload EXCEPT ![last + 1] = d]
<1>0. last \in Nat /\ last <= NStages /\ payload \in [Stages -> Drivers \cup {None}]
      /\ \A s \in Stages : payload[s] # None <=> s <= last
  BY DEF ReleaseInv, TableOK, Prefix
<1>1. CASE payload' = payload
  <2>1. last' = Cardinality({s \in Stages : payload[s] # None})
    BY <1>1 DEF Count
  <2>2. last' = last
    BY <1>0, <2>1, CountFact
  <2> QED
    BY <1>0, <1>1, <2>2 DEF TableOK, Prefix, table
<1>2. ASSUME NEW d \in Drivers, Release!Insert(d), payload[stage[d]] = None
      PROVE  /\ TableOK' /\ Prefix'
             /\ \A s \in Stages : payload[s] # None => payload'[s] = payload[s]
             /\ last < NStages /\ last' = last + 1 /\ payload' = [payload EXCEPT ![last + 1] = d]
  <2>1. pc[d] = "insert" /\ payload' = [payload EXCEPT ![stage[d]] = d]
    BY <1>2 DEF Release!Insert
  <2>2. stage[d] \in Nat /\ 1 <= stage[d] /\ stage[d] <= NStages /\ stage[d] \in Stages
    BY StagesFact DEF ReleaseInv, RunsOK, Stages
  <2>3. \A s \in Stages : s < stage[d] => s <= last
    BY <1>0, <2>1 DEF ReleaseInv, RunsHold, RunHolds, Stored, UnderWay
  <2>4. ~(stage[d] <= last)
    BY <1>0, <1>2, <2>2
  <2>5. stage[d] = last + 1
    <3>1. CASE stage[d] = 1
      BY <1>0, <2>4, <3>1
    <3>2. CASE stage[d] # 1
      <4>1. stage[d] - 1 \in Stages /\ stage[d] - 1 < stage[d]
        BY <2>2, <3>2, StagesFact DEF Stages
      <4>2. stage[d] - 1 <= last
        BY <2>3, <4>1
      <4> QED
        BY <1>0, <2>2, <2>4, <4>2
    <3> QED
      BY <3>1, <3>2
  <2>6. last < NStages /\ last + 1 \in Nat /\ last + 1 <= NStages /\ last + 1 \in Stages
    BY <1>0, <2>2, <2>5, StagesFact
  <2>7. payload' = [payload EXCEPT ![last + 1] = d]
    BY <2>1, <2>5, Zenon
  <2>8. payload' \in [Stages -> Drivers \cup {None}] /\ \A s \in Stages : payload'[s] # None <=> s <= last + 1
    <3>1. payload' \in [Stages -> Drivers \cup {None}]
      BY <1>0, <2>6, <2>7
    <3>2. ASSUME NEW s \in Stages PROVE payload'[s] # None <=> s <= last + 1
      <4>1. s \in Nat
        BY StagesFact DEF Stages
      <4>2. CASE s = last + 1
        BY <1>0, <2>6, <2>7, <4>1, <4>2, StagesFact
      <4>3. CASE s # last + 1
        <5>1. payload'[s] = payload[s]
          BY <1>0, <2>7, <4>3
        <5>2. s <= last <=> s <= last + 1
          BY <1>0, <4>1, <4>3
        <5> QED
          BY <1>0, <5>1, <5>2
      <4> QED
        BY <4>2, <4>3
    <3> QED
      BY <3>1, <3>2
  <2>9. last' = last + 1
    <3>1. Cardinality({s \in Stages : payload'[s] # None}) = last + 1
      BY <2>6, <2>8, CountFact
    <3> QED
      BY <3>1 DEF Count
  <2>10. \A s \in Stages : payload[s] # None => payload'[s] = payload[s]
    BY <1>0, <1>2, <2>1
  <2> QED
    BY <2>6, <2>7, <2>8, <2>9, <2>10 DEF TableOK, Prefix
<1>3. (\E d \in Drivers : Release!Insert(d) /\ payload[stage[d]] = None) \/ payload' = payload
  BY DEF Release!Next, Release!Step, Release!Top, Release!Lookup, Release!Row, Release!Audit, Release!Event,
     Release!Call, Release!Insert, Release!Rerun, Release!Fail, Release!Cancel, Release!Over, Release!vars
<1>4. CASE \E d \in Drivers : Release!Insert(d) /\ payload[stage[d]] = None
  BY <1>2, <1>4
<1> QED
  BY <1>1, <1>3, <1>4

\* What the moving run has stored after its step.
LEMMA HoldFact ==
  ASSUME ReleaseInv, NEW d \in Drivers, Release!Step(d) \/ Release!Rerun(d) \/ Release!Fail(d),
         \A s \in Stages : payload[s] # None => payload'[s] = payload[s]
  PROVE  RunHolds(d)'
<1>0. /\ pc \in [Drivers -> RunPoints] /\ stage \in [Drivers -> Stages] /\ status \in [Drivers -> Words]
      /\ outputs \in [Drivers -> [Stages -> Drivers \cup {None}]]
      /\ payload \in [Stages -> Drivers \cup {None}] /\ RunHolds(d)
      /\ stage[d] \in Nat /\ stage[d] \in Stages
  BY StagesFact DEF ReleaseInv, RunsOK, TableOK, RunsHold, Stages
<1>1. ASSUME outputs' = outputs, NEW s \in Stages, Stored(d, s) PROVE Stored(d, s)'
  BY <1>1 DEF Stored
<1>2. CASE Release!Top(d)
  <2>1. outputs' = outputs /\ stage' = stage /\ pc[d] = "top" /\ (pc'[d] = "budget" \/ (pc'[d] = "row" /\ status'[d] = "cancelled"))
    BY <1>0, <1>2 DEF Release!Top, Release!Goto, Release!Report
  <2> QED
    BY <1>0, <1>1, <2>1 DEF RunHolds, UnderWay, Done
<1>3. CASE Release!Lookup(d)
  <2>1. pc[d] = "budget" /\ pc'[d] = "row" /\ stage' = stage /\ payload' = payload
    BY <1>0, <1>3 DEF Release!Lookup, Release!Goto, Release!Report
  <2>2. CASE payload[stage[d]] # None
    <3>1. outputs' = [outputs EXCEPT ![d][stage[d]] = payload[stage[d]]]
      BY <1>3, <2>2 DEF Release!Lookup
    <3>2. outputs'[d][stage[d]] = payload[stage[d]] /\ \A s \in Stages \ {stage[d]} : outputs'[d][s] = outputs[d][s]
      BY <1>0, <3>1
    <3> QED
      BY <1>0, <2>1, <2>2, <3>2 DEF RunHolds, UnderWay, Stored
  <2>3. CASE payload[stage[d]] = None
    <3>1. outputs' = outputs /\ status'[d] = "started"
      BY <1>0, <1>3, <2>3 DEF Release!Lookup, Release!Report
    <3> QED
      BY <1>0, <1>1, <2>1, <3>1 DEF RunHolds, UnderWay, Done
  <2> QED
    BY <2>2, <2>3
<1>4. CASE Release!Row(d) \/ Release!Audit(d)
  <2>1. outputs' = outputs /\ stage' = stage /\ status' = status
        /\ pc[d] \in {"row", "audit"} /\ pc'[d] \in {"audit", "event"}
    BY <1>0, <1>4 DEF Release!Row, Release!Audit, Release!Goto, Release!local
  <2> QED
    BY <1>0, <1>1, <2>1 DEF RunHolds, UnderWay
<1>5. CASE Release!Event(d)
  <2>1. pc[d] = "event" /\ outputs' = outputs /\ status' = status
    BY <1>5 DEF Release!Event
  <2>2. CASE status[d] = "cancelled"
    BY <1>0, <1>5, <2>2 DEF Release!Event, Release!Goto, RunHolds, UnderWay
  <2>3. CASE status[d] = "started"
    <3>1. pc'[d] = "call" /\ stage' = stage
      BY <1>0, <1>5, <2>3 DEF Release!Event, Release!Goto
    <3> QED
      BY <1>0, <1>1, <2>1, <3>1 DEF RunHolds, UnderWay
  <2>4. CASE status[d] \in Done
    <3>1. \A s \in Stages : s <= stage[d] => Stored(d, s)'
      <4>1. \A s \in Stages : s <= stage[d] => Stored(d, s)
        <5>1. \A s \in Stages : s \in Nat
          BY StagesFact DEF Stages
        <5>2. Stored(d, stage[d]) /\ \A s \in Stages : s < stage[d] => Stored(d, s)
          BY <1>0, <2>1, <2>4 DEF RunHolds, UnderWay
        <5>3. ASSUME NEW s \in Stages, s <= stage[d] PROVE Stored(d, s)
          <6>1. CASE s = stage[d]
            BY <5>2, <6>1
          <6>2. CASE s # stage[d]
            <7>1. s \in Nat /\ stage[d] \in Nat /\ s <= stage[d]
              BY <1>0, <5>1, <5>3
            <7>2. s < stage[d]
              BY <6>2, <7>1
            <7> QED
              BY <5>2, <7>2
          <6> QED
            BY <6>1, <6>2
        <5> QED
          BY <5>3
      <4> QED
        BY <1>1, <2>1, <4>1
    <3>2. CASE stage[d] = NStages
      <4>1. pc'[d] = "completed"
        BY <1>0, <1>5, <2>4, <3>2 DEF Release!Event, Release!Goto, Done
      <4>2. \A s \in Stages : s <= stage[d]
        BY <3>2, StagesFact DEF Stages
      <4> QED
        BY <3>1, <4>1, <4>2 DEF RunHolds, UnderWay
    <3>3. CASE stage[d] # NStages
      <4>1. pc'[d] = "top" /\ stage'[d] = stage[d] + 1
        BY <1>0, <1>5, <2>4, <3>3 DEF Release!Event, Release!Goto, Done
      <4>2. \A s \in Stages : s < stage[d] + 1 => s <= stage[d]
        BY <1>0, StagesFact DEF Stages
      <4> QED
        BY <3>1, <4>1, <4>2 DEF RunHolds, UnderWay
    <3> QED
      BY <3>2, <3>3
  <2>5. status[d] \in Words
    BY <1>0
  <2> QED
    BY <2>2, <2>3, <2>4, <2>5 DEF Words, Done
<1>6. CASE Release!Call(d)
  <2>1. outputs' = outputs /\ stage' = stage /\ pc[d] = "call" /\ pc'[d] = "insert"
    BY <1>0, <1>6 DEF Release!Call, Release!Goto, Release!local
  <2> QED
    BY <1>0, <1>1, <2>1 DEF RunHolds, UnderWay
<1>7. CASE Release!Insert(d)
  <2>1. CASE payload[stage[d]] = None
    <3>1. /\ pc[d] = "insert" /\ payload' = [payload EXCEPT ![stage[d]] = d]
          /\ outputs' = [outputs EXCEPT ![d][stage[d]] = d] /\ pc'[d] = "row" /\ stage' = stage
      BY <1>0, <1>7, <2>1 DEF Release!Insert, Release!Report, Release!Goto
    <3>2. outputs'[d][stage[d]] = d /\ payload'[stage[d]] = d
      BY <1>0, <3>1
    <3>3. \A s \in Stages \ {stage[d]} : outputs'[d][s] = outputs[d][s] /\ payload'[s] = payload[s]
      BY <1>0, <3>1
    <3>4. \A s \in Stages : s < stage[d] => s # stage[d]
      BY <1>0, StagesFact DEF Stages
    <3>5. \A s \in Stages : s < stage[d] => Stored(d, s)'
      BY <1>0, <3>1, <3>3, <3>4 DEF RunHolds, UnderWay, Stored
    <3>6. Stored(d, stage[d])'
      BY <3>1, <3>2, StagesFact DEF Stored
    <3> QED
      BY <3>1, <3>5, <3>6 DEF RunHolds
  <2>2. CASE payload[stage[d]] # None
    BY <1>0, <1>7, <2>2 DEF Release!Insert, Release!Goto, RunHolds, UnderWay
  <2> QED
    BY <2>1, <2>2
<1>8. CASE Release!Fail(d)
  BY <1>0, <1>8 DEF Release!Fail, Release!Goto, RunHolds, UnderWay
<1>9. CASE Release!Rerun(d)
  <2>1. pc'[d] = "top" /\ stage'[d] = 1
    BY <1>0, <1>9 DEF Release!Rerun, Release!Goto
  <2>2. \A s \in Stages : ~(s < 1)
    BY StagesFact DEF Stages
  <2> QED
    BY <2>1, <2>2 DEF RunHolds, UnderWay
<1> QED
  BY <1>2, <1>3, <1>4, <1>5, <1>6, <1>7, <1>8, <1>9 DEF Release!Step

\* The rows, the audit records and the events.
LEMMA ReportFact ==
  ASSUME ReleaseInv, NEW d \in Drivers, Release!Step(d) \/ Release!Rerun(d) \/ Release!Fail(d),
         last \in Nat, last' \in Nat, last <= last'
  PROVE  ReportsHold' /\ rows \subseteq rows'
<1>0. /\ pc \in [Drivers -> RunPoints] /\ stage \in [Drivers -> Stages] /\ status \in [Drivers -> Words]
      /\ RunHolds(d) /\ ReportsHold /\ \A s \in Stages : s \in Nat
  BY StagesFact DEF ReleaseInv, RunsOK, RunsHold, Stages
<1>1. \A e \in Drivers \ {d} : pc'[e] = pc[e] /\ stage'[e] = stage[e] /\ status'[e] = status[e]
  BY RunFact
<1>2. CASE Release!Row(d)
  <2>1. /\ pc[d] = "row" /\ pc'[d] = "audit" /\ stage' = stage /\ status' = status
        /\ rows' = rows \cup {<<stage[d], status[d]>>} /\ audited' = audited /\ shown' = shown
    BY <1>0, <1>2 DEF Release!Row, Release!Goto, Release!Here, Release!local
  <2>2. status[d] \in Done => stage[d] <= last
    BY <1>0, <2>1 DEF RunHolds, Stored, ReleaseInv, Prefix
  <2>3. \A r \in rows' : r[1] \in Stages /\ (r[2] \in Done => r[1] <= last')
    BY <1>0, <2>1, <2>2 DEF ReportsHold
  <2> QED
    BY <1>0, <1>1, <2>1, <2>3 DEF ReportsHold
<1>3. CASE Release!Audit(d)
  <2>1. /\ pc[d] = "audit" /\ pc'[d] = "event" /\ stage' = stage /\ status' = status
        /\ audited' = audited \cup {<<stage[d], status[d]>>} /\ rows' = rows /\ shown' = shown
    BY <1>0, <1>3 DEF Release!Audit, Release!Goto, Release!Here, Release!local
  <2>2. \A r \in rows' : r[1] \in Stages /\ (r[2] \in Done => r[1] <= last')
    BY <1>0, <2>1 DEF ReportsHold
  <2> QED
    BY <1>0, <1>1, <2>1, <2>2 DEF ReportsHold
<1>4. CASE Release!Event(d)
  <2>1. /\ pc[d] = "event" /\ pc'[d] \notin {"audit", "event"}
        /\ shown' = shown \cup {<<stage[d], status[d]>>} /\ rows' = rows /\ audited' = audited
    BY <1>0, <1>4 DEF Release!Event, Release!Goto, Release!Here
  <2>2. \A r \in rows' : r[1] \in Stages /\ (r[2] \in Done => r[1] <= last')
    BY <1>0, <2>1 DEF ReportsHold
  <2> QED
    BY <1>0, <1>1, <2>1, <2>2 DEF ReportsHold
<1>5. CASE ~Release!Row(d) /\ ~Release!Audit(d) /\ ~Release!Event(d)
  <2>1. rows' = rows /\ audited' = audited /\ shown' = shown /\ pc'[d] \notin {"audit", "event"}
    BY <1>0, <1>5 DEF Release!Step, Release!Top, Release!Lookup, Release!Call, Release!Insert, Release!Rerun,
       Release!Fail, Release!Goto, Release!Report, Release!report
  <2>2. \A r \in rows' : r[1] \in Stages /\ (r[2] \in Done => r[1] <= last')
    BY <1>0, <2>1 DEF ReportsHold
  <2> QED
    BY <1>0, <1>1, <2>1, <2>2 DEF ReportsHold
<1> QED
  BY <1>2, <1>3, <1>4, <1>5

\* A stage is lost by a failure only, the one that its run was about to report.
LEMMA LossFact ==
  ASSUME ReleaseInv, NEW d \in Drivers, Release!Step(d) \/ Release!Rerun(d) \/ Release!Fail(d),
         rows \subseteq rows', \A s \in Stages : payload[s] # None => payload'[s] = payload[s],
         NEW s \in Lost'
  PROVE  s \in Lost \/ (Release!Fail(d) /\ s = stage[d])
<1>0. /\ pc \in [Drivers -> RunPoints] /\ stage \in [Drivers -> Stages] /\ status \in [Drivers -> Words]
      /\ payload \in [Stages -> Drivers \cup {None}]
      /\ pc' \in [Drivers -> RunPoints] /\ stage' \in [Drivers -> Stages] /\ status' \in [Drivers -> Words]
  BY RunFact DEF ReleaseInv, RunsOK, TableOK
<1>1. \A e \in Drivers \ {d} : pc'[e] = pc[e] /\ stage'[e] = stage[e] /\ status'[e] = status[e]
  BY RunFact
<1>2. /\ s \in Stages /\ payload'[s] # None
      /\ ~(\E e \in Drivers : payload'[s] = e /\ stage'[e] = s /\ pc'[e] = "row" /\ status'[e] = "completed")
      /\ <<s, "completed">> \notin rows /\ <<s, "resumed">> \notin rows
      /\ <<s, "completed">> \notin rows' /\ <<s, "resumed">> \notin rows'
  BY DEF Lost, Owed
<1>3. payload[s] # None
  <2>1. CASE payload' = payload
    BY <1>2, <2>1
  <2>2. CASE Release!Insert(d) /\ payload[stage[d]] = None
    <3>1. /\ payload' = [payload EXCEPT ![stage[d]] = d] /\ stage' = stage
          /\ pc' = [pc EXCEPT ![d] = "row"] /\ status' = [status EXCEPT ![d] = "completed"]
      BY <2>2 DEF Release!Insert, Release!Report, Release!Goto
    <3>2. pc'[d] = "row" /\ status'[d] = "completed" /\ payload'[stage[d]] = d /\ stage'[d] = stage[d]
      BY <1>0, <3>1
    <3>3. s # stage[d]
      BY <1>2, <3>2
    <3> QED
      BY <1>0, <1>2, <3>1, <3>3
  <2> QED
    BY <2>1, <2>2 DEF Release!Step, Release!Top, Release!Lookup, Release!Row, Release!Audit, Release!Event,
       Release!Call, Release!Insert, Release!Rerun, Release!Fail
<1>4. SUFFICES ASSUME NEW e \in Drivers, payload[s] = e, stage[e] = s, pc[e] = "row", status[e] = "completed"
      PROVE  Release!Fail(d) /\ s = stage[d]
  BY <1>2, <1>3 DEF Lost, Owed
<1>5. e = d
  BY <1>1, <1>2, <1>3, <1>4
<1>6. ~Release!Row(d)
  BY <1>2, <1>4, <1>5 DEF Release!Row, Release!Here
<1> QED
  BY <1>4, <1>5, <1>6 DEF Release!Step, Release!Top, Release!Lookup, Release!Row, Release!Audit, Release!Event,
     Release!Call, Release!Insert, Release!Rerun

LEMMA LostFinite == IsFiniteSet(Stages) /\ IsFiniteSet(Lost) /\ Cardinality(Lost) \in Nat
<1>1. IsFiniteSet(1 .. NStages)
  BY StagesFact, FS_Interval
<1>2. IsFiniteSet(Stages) /\ Lost \in SUBSET Stages
  BY <1>1 DEF Stages, Lost
<1>3. IsFiniteSet(Lost)
  BY <1>2, FS_Subset
<1> QED
  BY <1>2, <1>3, FS_CardinalityType

LEMMA LossStep ==
  ASSUME ReleaseInv, NEW d \in Drivers, Release!Step(d) \/ Release!Rerun(d) \/ Release!Fail(d),
         rows \subseteq rows', \A s \in Stages : payload[s] # None => payload'[s] = payload[s]
  PROVE  LossInv'
<1>1. PICK k \in Nat, f \in Nat : k = Cardinality(Lost) /\ f = faults /\ k <= f
  BY LostFinite DEF ReleaseInv, LossInv
<1>2. IsFiniteSet(Lost') /\ Cardinality(Lost') \in Nat
  <2>1. Lost' \in SUBSET Stages
    BY DEF Lost
  <2>2. IsFiniteSet(Lost')
    BY <2>1, LostFinite, FS_Subset
  <2> QED
    BY <2>2, FS_CardinalityType
<1>3. PICK l \in Nat : l = Cardinality(Lost')
  BY <1>2
<1>4. CASE Release!Fail(d)
  <2>1. Lost' \subseteq Lost \cup {stage[d]}
    BY LossFact
  <2>2. IsFiniteSet(Lost \cup {stage[d]}) /\ Cardinality(Lost \cup {stage[d]}) \in {k, k + 1}
    BY <1>1, LostFinite, FS_AddElement
  <2>3. Cardinality(Lost') <= Cardinality(Lost \cup {stage[d]})
    BY <2>1, <2>2, FS_Subset
  <2>4. faults' = f + 1 /\ l <= k + 1
    BY <1>1, <1>3, <1>4, <2>2, <2>3 DEF Release!Fail
  <2>5. l <= f + 1
    BY <1>1, <2>4
  <2> QED
    BY <1>3, <2>4, <2>5 DEF LossInv
<1>5. CASE ~Release!Fail(d)
  <2>1. Lost' \subseteq Lost
    BY <1>5, LossFact
  <2>2. Cardinality(Lost') <= Cardinality(Lost)
    BY <2>1, LostFinite, FS_Subset
  <2>3. faults' = f
    BY <1>1, <1>5 DEF Release!Step, Release!Top, Release!Lookup, Release!Row, Release!Audit, Release!Event,
       Release!Call, Release!Insert, Release!Rerun
  <2>4. l <= f
    BY <1>1, <1>3, <2>2
  <2> QED
    BY <1>3, <2>3, <2>4 DEF LossInv
<1> QED
  BY <1>4, <1>5

LEMMA ReleaseStep ==
  ASSUME ReleaseInv, Release!Next, Count
  PROVE  ReleaseInv'
<1>1. TableOK' /\ Prefix' /\ \A s \in Stages : payload[s] # None => payload'[s] = payload[s]
  BY TableFact
<1>2. last \in Nat /\ last' \in Nat /\ last <= last'
  <2>1. last \in Nat
    BY DEF ReleaseInv, TableOK
  <2>2. last' = last \/ last' = last + 1
    BY TableFact DEF table
  <2> QED
    BY <2>1, <2>2
<1>3. ASSUME NEW d \in Drivers, Release!Step(d) \/ Release!Rerun(d) \/ Release!Fail(d) PROVE ReleaseInv'
  <2>1. RunsOK' /\ \A e \in Drivers \ {d} : /\ pc'[e] = pc[e] /\ stage'[e] = stage[e]
                                            /\ status'[e] = status[e] /\ outputs'[e] = outputs[e]
    BY <1>3, RunFact
  <2>2. RunHolds(d)'
    BY <1>1, <1>3, HoldFact
  <2>3. ASSUME NEW e \in Drivers, e # d PROVE RunHolds(e)'
    <3>1. \A s \in Stages : Stored(e, s) => Stored(e, s)'
      BY <1>1, <2>1, <2>3 DEF Stored
    <3>2. RunHolds(e) /\ stage[e] \in Stages
      BY DEF ReleaseInv, RunsHold, RunsOK
    <3>3. pc'[e] = pc[e] /\ stage'[e] = stage[e] /\ status'[e] = status[e]
      BY <2>1, <2>3
    <3>4. Stored(e, stage[e]) => Stored(e, stage[e])'
      BY <1>1, <2>1, <2>3, <3>2, <3>3 DEF Stored
    <3> QED
      BY <3>1, <3>2, <3>3, <3>4 DEF RunHolds
  <2>4. RunsHold'
    BY <2>2, <2>3 DEF RunsHold
  <2>5. ReportsHold' /\ rows \subseteq rows'
    BY <1>2, <1>3, ReportFact
  <2>6. LossInv'
    BY <1>1, <1>3, <2>5, LossStep
  <2> QED
    BY <1>1, <2>1, <2>4, <2>5, <2>6 DEF ReleaseInv
<1>4. ASSUME rows' = rows, audited' = audited, shown' = shown, payload' = payload, pc' = pc, stage' = stage,
             status' = status, outputs' = outputs, faults' = faults
      PROVE  ReleaseInv'
  <2>1. RunsOK'
    BY <1>4 DEF ReleaseInv, RunsOK
  <2>2. RunsHold'
    BY <1>4 DEF ReleaseInv, RunsHold, RunHolds, Stored
  <2>3. ReportsHold'
    <3>1. \A r \in rows' : r[1] \in Stages /\ (r[2] \in Done => r[1] <= last')
      <4>1. \A s \in Stages : s \in Nat
        BY StagesFact DEF Stages
      <4> QED
        BY <1>2, <1>4, <4>1 DEF ReleaseInv, ReportsHold
    <3> QED
      BY <1>4, <3>1 DEF ReleaseInv, ReportsHold
  <2>4. Lost' = Lost
    BY <1>4 DEF Lost, Owed
  <2>5. LossInv'
    BY <1>4, <2>4 DEF ReleaseInv, LossInv
  <2> QED
    BY <1>1, <2>1, <2>2, <2>3, <2>5 DEF ReleaseInv
<1>5. CASE Release!Cancel
  BY <1>4, <1>5 DEF Release!Cancel, Release!report, Release!local
<1>6. CASE Release!Over
  BY <1>4, <1>6 DEF Release!Over, Release!vars, Release!report, Release!local
<1> QED
  BY <1>3, <1>5, <1>6 DEF Release!Next

LEMMA ReleaseInit == Release!Init /\ last = 0 => ReleaseInv
<1> SUFFICES ASSUME Release!Init, last = 0 PROVE ReleaseInv
  OBVIOUS
<1> USE StagesFact
<1>1. Lost = {}
  BY DEF Release!Init, Lost, Release!Stages, Stages
<1>2. LossInv
  BY <1>1, FS_EmptySet DEF Release!Init, LossInv
<1>3. TableOK /\ Prefix
  BY DEF Release!Init, TableOK, Prefix, Release!Stages, Stages
<1>4. RunsOK
  BY DEF Release!Init, RunsOK, RunPoints, Words, Release!Stages, Stages
<1>5. RunsHold
  BY DEF Release!Init, RunsHold, RunHolds, Release!Stages, Stages
<1>6. ReportsHold
  BY DEF Release!Init, ReportsHold
<1> QED
  BY <1>2, <1>3, <1>4, <1>5, <1>6 DEF ReleaseInv

\* Between its commit and its row a stage is owed by its own run, so the ones
\* nobody has reported are at most the lost ones and one for each of those runs.
LEMMA GapsAreCounted ==
  ASSUME ReleaseInv
  PROVE  Release!ReportGaps
<1> DEFINE R == Release!Reporting
           U == Release!Unreported
           O == U \ Lost
<1>1. IsFiniteSet(R) /\ Cardinality(R) \in Nat
  <2>1. R \in SUBSET Drivers /\ IsFiniteSet(Drivers)
    BY ResumeAssumption DEF Release!Reporting
  <2>2. IsFiniteSet(R)
    BY <2>1, FS_Subset
  <2> QED
    BY <2>2, FS_CardinalityType
<1>2. /\ U \in SUBSET Stages /\ Lost \in SUBSET U
      /\ \A s \in O : /\ payload[s] \in R /\ stage[payload[s]] = s
  <2>1. Release!Stages = Stages
    BY DEF Release!Stages, Stages
  <2>2. U = {s \in Stages : payload[s] # None /\ <<s, "completed">> \notin rows /\ <<s, "resumed">> \notin rows}
    BY <2>1 DEF Release!Unreported, Release!Committed
  <2>3. ASSUME NEW s \in O PROVE payload[s] \in R /\ stage[payload[s]] = s
    <3>1. Owed(s)
      BY <2>2, <2>3 DEF Lost
    <3> QED
      BY <3>1 DEF Owed, Release!Reporting
  <2>4. Lost \in SUBSET U
    BY <2>2 DEF Lost
  <2> HIDE DEF R, U
  <2> QED
    BY <2>2, <2>3, <2>4
<1> HIDE DEF R, U
<1>3. IsFiniteSet(U) /\ IsFiniteSet(O)
  BY <1>2, LostFinite, FS_Subset
<1>4. Cardinality(O) <= Cardinality(R)
  <2> DEFINE who == [s \in O |-> payload[s]]
  <2>1. who \in [O -> R]
    BY <1>2
  <2>2. \A s, t \in O : who[s] = who[t] => s = t
    BY <1>2
  <2>3. who \in Injection(O, R)
    BY <2>1, <2>2 DEF Injection, IsInjective
  <2> HIDE DEF who
  <2> QED
    BY <1>1, <2>3, FS_Injection
<1>5. PICK k \in Nat, o \in Nat, r \in Nat :
        k = Cardinality(Lost) /\ o = Cardinality(O) /\ r = Cardinality(R) /\ o <= r /\ k <= faults
  BY <1>1, <1>3, <1>4, LostFinite, FS_CardinalityType DEF ReleaseInv, LossInv
<1>6. U = Lost \cup O /\ Lost \cap O = {}
  BY <1>2
<1>7. Cardinality(U) = k + o
  <2>1. Cardinality(Lost \cup O) = Cardinality(Lost) + Cardinality(O) - Cardinality(Lost \cap O)
    BY <1>3, LostFinite, FS_Union
  <2>2. Cardinality(Lost \cap O) = 0
    BY <1>6, FS_EmptySet
  <2> QED
    BY <1>5, <1>6, <2>1, <2>2
<1>8. faults \in Nat
  BY DEF ReleaseInv, LossInv
<1>9. k + o <= faults + r
  BY <1>5, <1>8
<1>10. Cardinality(U) <= faults + Cardinality(R)
  BY <1>5, <1>7, <1>9
<1> QED
  BY <1>10 DEF Release!ReportGaps, Release!Cardinality, Cardinality, R, U

LEMMA ReleaseIsAccounted ==
  ASSUME ReleaseInv
  PROVE  Release!ReportedIsDurable /\ Release!ReturnedIsStored /\ Release!ReportGaps
<1>1. Release!ReportedIsDurable
  <2>1. ASSUME NEW r \in rows, r[2] \in {"completed", "resumed"}, NEW s \in 1 .. r[1] PROVE s \in Release!Committed
    <3>1. r[1] \in Stages /\ r[1] <= last /\ last \in Nat /\ last <= NStages
      BY <2>1 DEF ReleaseInv, ReportsHold, TableOK, Done
    <3>2. s \in Stages /\ s <= last
      BY <2>1, <3>1, StagesFact DEF Stages
    <3> QED
      BY <3>2 DEF ReleaseInv, Prefix, Release!Committed, Release!Stages, Stages
  <2> QED
    BY <2>1 DEF Release!ReportedIsDurable, ReleaseInv, ReportsHold
<1>2. Release!ReturnedIsStored
  <2> SUFFICES ASSUME NEW d \in Drivers, pc[d] = "completed" PROVE outputs[d] = payload
    BY DEF Release!ReturnedIsStored
  <2>1. outputs[d] \in [Stages -> Drivers \cup {None}] /\ payload \in [Stages -> Drivers \cup {None}]
    BY DEF ReleaseInv, RunsOK, TableOK
  <2>2. \A s \in Stages : outputs[d][s] = payload[s]
    BY DEF ReleaseInv, RunsHold, RunHolds, Stored
  <2> QED
    BY <2>1, <2>2
<1> QED
  BY <1>1, <1>2, GapsAreCounted

-----------------------------------------------------------------------------
(* The two together.                                                         *)
LEMMA SuiteStep ==
  ASSUME SuiteInv, [SuiteNext]_suiteVars
  PROVE  SuiteInv' /\ [Staged!Next]_(Staged!vars)
<1>1. CASE InResume(Next)
  <2>1. part = "resume" /\ part' = part /\ Next /\ ResumeInv /\ WorkInv /\ ReturnInv
    BY <1>1 DEF InResume, SuiteInv
  <2>2. ResumeInv'
    BY <2>1, ResumeStep
  <2>3. \/ UNCHANGED table
        \/ \E d \in Drivers : last < NStages /\ last' = last + 1 /\ payload' = [payload EXCEPT ![last + 1] = d]
    BY <2>1, ResumeStep
  <2>4. last <= last'
    <3>1. last \in Nat
      BY <2>1 DEF ResumeInv, TableOK
    <3> QED
      BY <2>3, <3>1 DEF table
  <2>5. WorkInv'
    BY <2>1, <2>2, <2>4, WorkStep
  <2>6. ReturnInv'
    BY <2>1, ReturnStep
  <2> QED
    BY <2>1, <2>2, <2>3, <2>5, <2>6 DEF SuiteInv, Staged!Next, Staged!Commit, Staged!vars, table
<1>2. CASE InRelease(Release!Next)
  <2>1. part = "release" /\ part' = part /\ Release!Next /\ Count /\ ReleaseInv
    BY <1>2 DEF InRelease, SuiteInv
  <2>2. ReleaseInv'
    BY <2>1, ReleaseStep
  <2>3. \/ UNCHANGED table
        \/ \E d \in Drivers : last < NStages /\ last' = last + 1 /\ payload' = [payload EXCEPT ![last + 1] = d]
    BY <2>1, TableFact
  <2> QED
    BY <2>1, <2>2, <2>3 DEF SuiteInv, Staged!Next, Staged!Commit, Staged!vars, table
<1>3. CASE UNCHANGED suiteVars
  <2>0. /\ part' = part /\ UNCHANGED table /\ pc' = pc /\ stage' = stage /\ work' = work /\ faults' = faults
        /\ rows' = rows /\ audited' = audited /\ shown' = shown /\ status' = status /\ outputs' = outputs
    BY <1>3 DEF suiteVars, vars, table, reporting
  <2>1. ResumeInv => ResumeInv'
    BY <2>0 DEF table, ResumeInv, TableOK, PlacesOK, Prefix, NotAhead
  <2>2. WorkInv => WorkInv'
    <3>1. Spent' = Spent
      BY <2>0 DEF Spent, table
    <3> QED
      BY <2>0, <3>1 DEF WorkInv
  <2>4. ReturnInv => ReturnInv'
    BY <2>0 DEF ReturnInv, ReturnedOrOwn, table
  <2>3. ReleaseInv => ReleaseInv'
    <3>1. Lost' = Lost
      BY <2>0 DEF Lost, Owed, table
    <3> QED
      BY <2>0, <3>1 DEF ReleaseInv, TableOK, Prefix, RunsOK, RunsHold, RunHolds, Stored, ReportsHold, LossInv, table
  <2> QED
    BY <2>0, <2>1, <2>2, <2>3, <2>4 DEF SuiteInv, Staged!vars, table
<1> QED
  BY <1>1, <1>2, <1>3 DEF SuiteNext

LEMMA SuiteStart == SuiteInit => SuiteInv
BY ResumeInit, WorkInit, ReturnInit, ReleaseInit DEF SuiteInit, SuiteInv

LEMMA SuiteInvariant == SuiteInit /\ [][SuiteNext]_suiteVars => []SuiteInv
<1>1. SuiteInv /\ [SuiteNext]_suiteVars => SuiteInv'
  BY SuiteStep
<1> QED
  BY <1>1, SuiteStart, PTL

\* Whatever fails or dies.  The release coordinator reports what is stored, returns
\* what is stored and leaves a stage unreported only for a failure.  The resume
\* coordinator refuses no driver, repeats a callback for a failure that prevented
\* its row and once for each driver that overlaps, and returns the checkpoint or the
\* caller's own result, which need not be the stored one.
THEOREM CommitsAlwaysAccounted == SuiteInit /\ [][SuiteNext]_suiteVars => []CommitsAreAccounted
<1>1. SuiteInv => CommitsAreAccounted
  <2>1. ResumeInv => NeverRefused
    BY DEF ResumeInv, NotAhead, NeverRefused
  <2> QED
    BY <2>1, WorkIsBounded, ReleaseIsAccounted DEF SuiteInv, ReturnInv, CommitsAreAccounted
<1> QED
  BY <1>1, SuiteInvariant, PTL

\* Both coordinators implement StagedWork.
THEOREM BothImplementStagedWork == SuiteInit /\ [][SuiteNext]_suiteVars => ImplementsStagedWork
<1>1. SuiteInit => Staged!Init
  BY DEF SuiteInit, Init, Release!Init, Staged!Init, Stages, Release!Stages, Staged!Stages
<1>2. SuiteInv /\ [SuiteNext]_suiteVars => [Staged!Next]_(Staged!vars)
  BY SuiteStep
<1> QED
  BY <1>1, <1>2, SuiteInvariant, PTL DEF ImplementsStagedWork, Staged!Spec
=============================================================================
