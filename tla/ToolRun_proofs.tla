--------------------------- MODULE ToolRun_proofs ---------------------------
(***************************************************************************)
(* Proofs about ToolRun, for any number of backends, retries and faults.   *)
(***************************************************************************)
EXTENDS ToolRun, TLAPS

\* The class allows at least one attempt.
LEMMA AttemptsFact == MaxAttempts \in Nat \ {0}
BY RunAssumption DEF MaxAttempts

-----------------------------------------------------------------------------
(* Processes and cancellation.  A late process exists only because           *)
(* cancel_event was set while the task was being started, and once it is set *)
(* nothing reaches "exec" again.                                             *)
ProcessInv ==
  /\ NoOrphanProcess
  /\ late \in {0, 1}
  /\ late = 1 => cancelEvent /\ pc # "exec"

LEMMA ProcessInit == Init => ProcessInv
BY DEF Init, ProcessInv, NoOrphanProcess

LEMMA ProcessStep == ProcessInv /\ [Next]_vars => ProcessInv'
<1> SUFFICES ASSUME ProcessInv, [Next]_vars PROVE ProcessInv'
  OBVIOUS
<1> USE DEF ProcessInv, NoOrphanProcess, countVars, worldVars, loopVars, dataVars
<1>1. CASE Start
  BY <1>1 DEF Start, End
<1>2. CASE CreateRun
  BY <1>2 DEF CreateRun
<1>3. CASE Check
  BY <1>3 DEF Check, End
<1>4. CASE Enter
  BY <1>4 DEF Enter, End
<1>5. CASE Pause
  BY <1>5 DEF Pause, End
<1>6. CASE Spawn
  BY <1>6 DEF Spawn
<1>7. CASE PollCancel
  BY <1>7 DEF PollCancel, End
<1>8. CASE Succeed
  BY <1>8 DEF Succeed
<1>9. CASE FailTry
  BY <1>9 DEF FailTry, NextTry
<1>10. CASE Nap
  BY <1>10 DEF Nap
<1>11. CASE Timeout
  BY <1>11 DEF Timeout, Wrapper
<1>12. CASE Raised
  BY <1>12 DEF Raised, AfterFailure, End
<1>13. CASE Backoff
  BY <1>13 DEF Backoff
<1>14. CASE Record \/ Persist \/ Finish \/ Emit
  BY <1>14 DEF Record, Persist, Finish, Emit, End
<1>15. CASE Fault
  BY <1>15 DEF Fault, AfterFailure, End
<1>16. CASE Cancel
  BY <1>16 DEF Cancel, End
<1>17. CASE RequestCancel
  BY <1>17 DEF RequestCancel
<1>18. CASE Revoke
  BY <1>18 DEF Revoke
<1>19. CASE UNCHANGED vars
  BY <1>19 DEF vars
<1> QED
  BY <1>1, <1>2, <1>3, <1>4, <1>5, <1>6, <1>7, <1>8, <1>9, <1>10, <1>11, <1>12,
     <1>13, <1>14, <1>15, <1>16, <1>17, <1>18, <1>19 DEF Next, Step, Ended

LEMMA ProcessInvariant == Spec => []ProcessInv
BY ProcessInit, ProcessStep, PTL DEF Spec

\* No way out of run_tool leaves a process behind: the wrapper waits for every
\* process it started, and every cancellation and timeout kills it first.
THEOREM ProcessesAreReaped == Spec => []NoOrphanProcess
<1>1. ProcessInv => NoOrphanProcess
  BY DEF ProcessInv
<1> QED
  BY <1>1, ProcessInvariant, PTL

\* After the operator's request at most the process on its way starts, however
\* many backends and retries are left.
THEOREM CancelStopsSpawning == Spec => []AtMostOneLateSpawn
<1>1. ProcessInv => AtMostOneLateSpawn
  BY DEF ProcessInv, AtMostOneLateSpawn
<1> QED
  BY <1>1, ProcessInvariant, PTL

-----------------------------------------------------------------------------
(* Consent.  Past the guard of an attempt a revocation dates from this       *)
(* attempt: an earlier one was seen by the guard.                            *)
ConsentInv ==
  pc \in {"rate"} \cup Wrapper => revoked = 0 \/ revoked = 1 + attempt

LEMMA ConsentInit == Init => ConsentInv
BY DEF Init, ConsentInv, Wrapper

LEMMA ConsentStep == ConsentInv /\ [Next]_vars => ConsentInv'
<1> SUFFICES ASSUME ConsentInv, [Next]_vars PROVE ConsentInv'
  OBVIOUS
<1> USE DEF ConsentInv, Wrapper, countVars, worldVars, loopVars, dataVars
<1>1. CASE Start \/ CreateRun \/ Check
  BY <1>1 DEF Start, CreateRun, Check, End
<1>2. CASE Enter \/ Pause \/ Spawn
  BY <1>2 DEF Enter, Pause, Spawn, End
<1>3. CASE PollCancel \/ Succeed \/ FailTry
  BY <1>3 DEF PollCancel, Succeed, FailTry, NextTry, End
<1>4. CASE Nap \/ Timeout \/ Raised \/ Backoff
  BY <1>4 DEF Nap, Timeout, Raised, Backoff, AfterFailure, End
<1>5. CASE Record \/ Persist \/ Finish \/ Emit \/ Fault
  BY <1>5 DEF Record, Persist, Finish, Emit, Fault, AfterFailure, End
<1>6. CASE Cancel \/ RequestCancel \/ Revoke
  BY <1>6 DEF Cancel, RequestCancel, Revoke, End
<1>7. CASE UNCHANGED vars
  BY <1>7 DEF vars
<1> QED
  BY <1>1, <1>2, <1>3, <1>4, <1>5, <1>6, <1>7 DEF Next, Step, Ended

\* A revoked consent lets no process of a later attempt start: the guard is asked
\* at the head of every attempt, and its denial is not retried.
THEOREM DenialsAreFinal == Spec => RevocationEndsWithAttempt
<1>1. Spec => []ConsentInv
  BY ConsentInit, ConsentStep, PTL DEF Spec
<1>2. ConsentInv /\ [Next]_vars
        => [spawns' # spawns /\ revoked # 0 => 1 + attempt = revoked]_vars
  <2> SUFFICES ASSUME ConsentInv, Next, spawns' # spawns, revoked # 0
               PROVE  1 + attempt = revoked
    OBVIOUS
  <2>1. Spawn
    BY DEF Next, Step, Ended, vars, countVars, Start, CreateRun, Check, Enter, Pause,
           PollCancel, Succeed, FailTry, Nap, Timeout, Raised, Backoff, Record, Persist,
           Finish, Emit, Fault, Cancel, RequestCancel, Revoke
  <2> QED
    BY <2>1 DEF Spawn, ConsentInv, Wrapper
<1> QED
  BY <1>1, <1>2, PTL DEF Spec, RevocationEndsWithAttempt

-----------------------------------------------------------------------------
(* Types.  The counters stay in range because a backoff is taken only before  *)
(* the last attempt and a nap only before the last try of a backend.         *)
StatusOK ==
  /\ pc \in Awaits \cup {"start", "check", "raised", "record", "persist", "finish", "emit", "end"}
  /\ row \in {"none", "running", "completed", "failed", "cancelled"}
  /\ result \in Results

LoopInv ==
  /\ attempt \in Nat /\ 1 <= attempt /\ attempt <= MaxAttempts
  /\ backend \in Nat /\ 1 <= backend /\ (backend <= Backends \/ backend = 1)
  /\ try \in Nat /\ try <= Retries
  /\ pc = "backoff" => attempt < MaxAttempts
  /\ pc = "nap" => try < Retries

FlagsOK ==
  /\ child \in BOOLEAN /\ lastResult \in BOOLEAN
  /\ stored \in BOOLEAN /\ persisted \in BOOLEAN /\ cancelEvent \in BOOLEAN

CountsOK ==
  /\ spawns \in Nat /\ late \in Nat
  /\ faults \in Nat /\ faults <= MaxFaults
  /\ revoked \in Nat /\ revoked <= 1 + MaxAttempts

RunInv == StatusOK /\ LoopInv /\ FlagsOK /\ CountsOK

LEMMA RunInit == Init => RunInv
<1> SUFFICES ASSUME Init PROVE RunInv
  OBVIOUS
<1>1. StatusOK
  BY DEF Init, StatusOK, Awaits, Results
<1>2. LoopInv
  BY AttemptsFact, RunAssumption DEF Init, LoopInv
<1>3. FlagsOK
  BY DEF Init, FlagsOK
<1>4. CountsOK
  BY AttemptsFact, RunAssumption DEF Init, CountsOK
<1> QED
  BY <1>1, <1>2, <1>3, <1>4 DEF RunInv

LEMMA StatusStep == StatusOK /\ [Next]_vars => StatusOK'
<1> SUFFICES ASSUME StatusOK, [Next]_vars PROVE StatusOK'
  OBVIOUS
<1> USE DEF StatusOK, Awaits, Results, Wrapper
<1>1. CASE Start \/ CreateRun \/ Check \/ Enter \/ Pause \/ Spawn
  BY <1>1 DEF Start, CreateRun, Check, Enter, Pause, Spawn, End
<1>2. CASE PollCancel \/ Succeed \/ FailTry \/ Nap \/ Timeout
  BY <1>2 DEF PollCancel, Succeed, FailTry, NextTry, Nap, Timeout, End
<1>3. CASE Raised \/ Backoff \/ Record \/ Persist \/ Finish \/ Emit
  BY <1>3 DEF Raised, Backoff, Record, Persist, Finish, Emit, AfterFailure, End
<1>4. CASE Fault \/ Cancel \/ RequestCancel \/ Revoke
  BY <1>4 DEF Fault, Cancel, RequestCancel, Revoke, AfterFailure, End
<1>5. CASE UNCHANGED vars
  BY <1>5 DEF vars
<1> QED
  BY <1>1, <1>2, <1>3, <1>4, <1>5 DEF Next, Step, Ended

LEMMA LoopStep == LoopInv /\ [Next]_vars => LoopInv'
<1> SUFFICES ASSUME LoopInv, [Next]_vars PROVE LoopInv'
  OBVIOUS
<1> USE AttemptsFact, RunAssumption DEF LoopInv, loopVars
<1>1. CASE Start \/ CreateRun \/ Check
  BY <1>1 DEF Start, CreateRun, Check, End
<1>2. CASE Enter
  BY <1>2 DEF Enter, End, loopVars
<1>3. CASE Pause \/ Spawn \/ PollCancel \/ Succeed
  BY <1>3 DEF Pause, Spawn, PollCancel, Succeed, End
<1>4. CASE FailTry
  <2>1. attempt' = attempt /\ pc' # "backoff"
    BY <1>4 DEF FailTry, NextTry
  <2>2. CASE NextTry
    <3>1. CASE try < Retries
      BY <2>1, <2>2, <3>1 DEF NextTry
    <3>2. CASE ~(try < Retries) /\ backend < Backends
      BY <2>1, <2>2, <3>2 DEF NextTry
    <3>3. CASE ~(try < Retries) /\ ~(backend < Backends)
      BY <2>1, <2>2, <3>3 DEF NextTry
    <3> QED
      BY <3>1, <3>2, <3>3
  <2>3. CASE pc' = "raised" /\ UNCHANGED <<backend, try>>
    BY <2>1, <2>3
  <2> QED
    BY <1>4, <2>2, <2>3 DEF FailTry
<1>5. CASE Nap \/ Timeout
  BY <1>5 DEF Nap, Timeout
<1>6. CASE Raised \/ Fault
  <2>1. UNCHANGED loopVars /\ pc' # "nap"
    BY <1>6 DEF Raised, Fault, AfterFailure, End
  <2>2. pc' = "backoff" => ~(attempt >= MaxAttempts)
    BY <1>6 DEF Raised, Fault, AfterFailure, End
  <2> QED
    BY <2>1, <2>2
<1>7. CASE Backoff
  BY <1>7 DEF Backoff
<1>8. CASE Record \/ Persist \/ Finish \/ Emit
  BY <1>8 DEF Record, Persist, Finish, Emit, End
<1>9. CASE Cancel \/ RequestCancel \/ Revoke
  BY <1>9 DEF Cancel, RequestCancel, Revoke, End
<1>10. CASE UNCHANGED vars
  BY <1>10 DEF vars
<1> QED
  BY <1>1, <1>2, <1>3, <1>4, <1>5, <1>6, <1>7, <1>8, <1>9, <1>10 DEF Next, Step, Ended

LEMMA FlagsStep == FlagsOK /\ [Next]_vars => FlagsOK'
<1> SUFFICES ASSUME FlagsOK, [Next]_vars PROVE FlagsOK'
  OBVIOUS
<1> USE DEF FlagsOK, dataVars, worldVars
<1>1. CASE Start \/ CreateRun \/ Check \/ Enter \/ Pause \/ Spawn
  BY <1>1 DEF Start, CreateRun, Check, Enter, Pause, Spawn, End
<1>2. CASE PollCancel \/ Succeed \/ Nap \/ Timeout
  BY <1>2 DEF PollCancel, Succeed, Nap, Timeout, End
<1>3. CASE FailTry
  BY <1>3 DEF FailTry
<1>4. CASE Raised \/ Backoff \/ Record \/ Persist \/ Finish \/ Emit
  BY <1>4 DEF Raised, Backoff, Record, Persist, Finish, Emit, AfterFailure, End
<1>5. CASE Fault \/ Cancel \/ RequestCancel \/ Revoke
  BY <1>5 DEF Fault, Cancel, RequestCancel, Revoke, AfterFailure, End
<1>6. CASE UNCHANGED vars
  BY <1>6 DEF vars
<1> QED
  BY <1>1, <1>2, <1>3, <1>4, <1>5, <1>6 DEF Next, Step, Ended

LEMMA CountsStep == LoopInv /\ CountsOK /\ [Next]_vars => CountsOK'
<1> SUFFICES ASSUME LoopInv, CountsOK, [Next]_vars PROVE CountsOK'
  OBVIOUS
<1> USE AttemptsFact, RunAssumption DEF CountsOK, countVars, worldVars
<1>1. CASE Start \/ CreateRun \/ Check \/ Enter \/ Pause
  BY <1>1 DEF Start, CreateRun, Check, Enter, Pause
<1>2. CASE Spawn
  BY <1>2 DEF Spawn
<1>3. CASE PollCancel \/ Succeed \/ FailTry \/ Nap \/ Timeout
  BY <1>3 DEF PollCancel, Succeed, FailTry, Nap, Timeout
<1>4. CASE Raised \/ Backoff \/ Record \/ Persist \/ Finish \/ Emit
  BY <1>4 DEF Raised, Backoff, Record, Persist, Finish, Emit
<1>5. CASE Fault
  <2>1. UNCHANGED <<revoked, spawns, late>> /\ faults' = faults + 1 /\ faults < MaxFaults
    BY <1>5 DEF Fault
  <2> QED
    BY <2>1
<1>6. CASE Cancel \/ RequestCancel
  BY <1>6 DEF Cancel, RequestCancel
<1>7. CASE Revoke
  BY <1>7 DEF Revoke, LoopInv
<1>8. CASE UNCHANGED vars
  BY <1>8 DEF vars
<1> QED
  BY <1>1, <1>2, <1>3, <1>4, <1>5, <1>6, <1>7, <1>8 DEF Next, Step, Ended

LEMMA RunInvariant == Spec => []RunInv
<1>1. RunInv /\ [Next]_vars => RunInv'
  BY StatusStep, LoopStep, FlagsStep, CountsStep DEF RunInv
<1> QED
  BY <1>1, RunInit, PTL DEF Spec

\* The variables keep their types and the three counters their bounds: run_tool
\* never makes an attempt, nor the wrapper a try, beyond what the class allows.
THEOREM TypeCorrect == Spec => []TypeOK
<1>1. RunInv => TypeOK
  <2> SUFFICES ASSUME RunInv PROVE TypeOK
    OBVIOUS
  <2>1. StatusOK /\ FlagsOK
    BY DEF RunInv
  <2>2. attempt \in 1..MaxAttempts /\ try \in 0..Retries
        /\ backend \in 1..(IF Backends = 0 THEN 1 ELSE Backends)
    BY AttemptsFact, RunAssumption DEF RunInv, LoopInv
  <2>3. spawns \in Nat /\ late \in Nat /\ faults \in 0..MaxFaults
        /\ revoked \in 0..(1 + MaxAttempts)
    BY AttemptsFact, RunAssumption DEF RunInv, CountsOK
  <2> QED
    BY <2>1, <2>2, <2>3 DEF TypeOK, StatusOK, FlagsOK
<1> QED
  BY <1>1, RunInvariant, PTL

-----------------------------------------------------------------------------
(* What a returned run leaves behind: each of the four synchronous steps     *)
(* after the wrapper adds to what the earlier ones stored.                   *)
BackedInv ==
  /\ pc \in {"persist", "finish", "emit"} => stored
  /\ pc \in {"finish", "emit"} => persisted
  /\ pc = "emit" => row = "completed"
  /\ result = "returned" => pc = "end"
  /\ ReturnedIsBacked

LEMMA BackedInit == Init => BackedInv
BY DEF Init, BackedInv, ReturnedIsBacked

LEMMA BackedStep == BackedInv /\ [Next]_vars => BackedInv'
<1> SUFFICES ASSUME BackedInv, [Next]_vars PROVE BackedInv'
  OBVIOUS
<1> USE DEF BackedInv, ReturnedIsBacked, Awaits, Wrapper, dataVars
<1>1. CASE Start \/ CreateRun \/ Check \/ Enter \/ Pause \/ Spawn
  BY <1>1 DEF Start, CreateRun, Check, Enter, Pause, Spawn, End
<1>2. CASE PollCancel \/ Succeed \/ FailTry \/ Nap \/ Timeout
  BY <1>2 DEF PollCancel, Succeed, FailTry, NextTry, Nap, Timeout, End
<1>3. CASE Raised \/ Backoff
  BY <1>3 DEF Raised, Backoff, AfterFailure, End
<1>4. CASE Record \/ Persist \/ Finish \/ Emit
  BY <1>4 DEF Record, Persist, Finish, Emit, End
<1>5. CASE Fault
  BY <1>5 DEF Fault, AfterFailure, End
<1>6. CASE Cancel \/ RequestCancel \/ Revoke
  BY <1>6 DEF Cancel, RequestCancel, Revoke, End
<1>7. CASE UNCHANGED vars
  BY <1>7 DEF vars
<1> QED
  BY <1>1, <1>2, <1>3, <1>4, <1>5, <1>6, <1>7 DEF Next, Step, Ended

\* A run that returned its findings has its row completed, its raw output in the
\* evidence store and its findings in the database, whatever was retried before.
THEOREM ReturnedRunsAreBacked == Spec => []ReturnedIsBacked
<1>1. BackedInv => ReturnedIsBacked
  BY DEF BackedInv
<1> QED
  BY <1>1, BackedInit, BackedStep, PTL DEF Spec

\* Processes end with the wait for them, one at most starts late, and what is
\* returned is stored.
THEOREM ProcessesHeld == Spec => []ProcessesAreHeld
<1>1. NoOrphanProcess /\ AtMostOneLateSpawn /\ ReturnedIsBacked => ProcessesAreHeld
  BY DEF ProcessesAreHeld
<1> QED
  BY <1>1, ProcessesAreReaped, CancelStopsSpawning, ReturnedRunsAreBacked, PTL

-----------------------------------------------------------------------------
(* The bound on processes.  A pass of the wrapper starts Backends times      *)
(* Retries + 1 of them at most, so before an attempt only the passes of the  *)
(* earlier ones count; inside a pass the backends left behind and the tries  *)
(* of this one do, whose process is still to start at "pause" and "exec".    *)
Early == {"start", "first rate", "check", "rate"}
Later == {"raised", "record", "persist", "finish", "emit", "backoff", "end"}

Tries == Retries + 1
Before == (attempt - 1) * (Backends * Tries)
InPass == (backend - 1) * Tries + try

SpawnsInv ==
  /\ pc \in Early => spawns <= Before
  /\ pc \in Wrapper => 1 <= Backends
  /\ pc \in {"pause", "exec"} => spawns <= Before + InPass
  /\ pc \in {"child", "nap"} => spawns <= Before + InPass + 1
  /\ pc \in Later => spawns <= Before \/ (1 <= Backends /\ spawns <= Before + InPass + 1)

\* Products of counts are counts, and a pass has room for each of its tries.
LEMMA Products ==
  ASSUME NEW a \in Nat, NEW b \in Nat
  PROVE  a * b \in Nat /\ (a + 1) * b = a * b + b
OBVIOUS

LEMMA PassFact ==
  ASSUME LoopInv, 1 <= Backends
  PROVE  /\ Before \in Nat /\ InPass \in Nat /\ Backends * Tries \in Nat /\ Tries \in Nat
         /\ InPass + 1 <= backend * Tries
         /\ backend * Tries <= Backends * Tries
         /\ backend * Tries = (backend - 1) * Tries + Tries
         /\ attempt * (Backends * Tries) = Before + Backends * Tries
<1>1. Tries \in Nat /\ Backends \in Nat /\ backend - 1 \in Nat /\ attempt - 1 \in Nat /\ backend <= Backends
  BY RunAssumption DEF LoopInv, Tries
<1>2. Backends * Tries \in Nat /\ (backend - 1) * Tries \in Nat
  BY <1>1, Products
<1>3. Before \in Nat /\ attempt * (Backends * Tries) = Before + Backends * Tries
  <2>1. (attempt - 1) + 1 = attempt
    BY DEF LoopInv
  <2> QED
    BY <1>1, <1>2, <2>1, Products DEF Before
<1>4. backend * Tries = (backend - 1) * Tries + Tries
  <2>1. (backend - 1) + 1 = backend
    BY DEF LoopInv
  <2> QED
    BY <1>1, <2>1, Products
<1>5. InPass \in Nat /\ InPass + 1 <= backend * Tries
  BY <1>1, <1>2, <1>4, RunAssumption DEF InPass, Tries, LoopInv
<1>6. backend * Tries <= Backends * Tries
  <2> DEFINE d == Backends - backend
  <2>1. d \in Nat /\ Backends = backend + d
    BY <1>1 DEF LoopInv
  <2>2. d * Tries \in Nat /\ backend * Tries \in Nat
    BY <1>1, <2>1, Products DEF LoopInv
  <2>3. (backend + d) * Tries = backend * Tries + d * Tries
    BY <1>1, <2>1, SMT DEF LoopInv
  <2> QED
    BY <2>1, <2>2, <2>3
<1> QED
  BY <1>1, <1>2, <1>3, <1>4, <1>5, <1>6

LEMMA BeforeIsNat == ASSUME LoopInv PROVE Before \in Nat
  BY RunAssumption, Products DEF LoopInv, Before, Tries

LEMMA SpawnsInit == Init => SpawnsInv
<1> SUFFICES ASSUME Init PROVE SpawnsInv
  OBVIOUS
<1>1. LoopInv /\ spawns = 0
  BY RunInit DEF Init, RunInv
<1>2. Before \in Nat
  BY <1>1, BeforeIsNat
<1> QED
  BY <1>1, <1>2 DEF Init, SpawnsInv, Early, Later, Wrapper

\* Within an attempt nothing counts but where the run is in its pass.
LEMMA SpawnsKept ==
  ASSUME RunInv, SpawnsInv, UNCHANGED loopVars, spawns' = spawns,
         \/ pc' = pc
         \/ pc \in Early /\ pc' \in Early \cup Later
         \/ pc = "pause" /\ pc' = "exec"
         \/ pc \in Wrapper /\ pc' \in {"nap"} \cup Later
         \/ pc \in Later /\ pc' \in Later
  PROVE  SpawnsInv'
<1>1. Before' = Before /\ InPass' = InPass
  BY DEF Before, InPass, Tries, loopVars
<1>2. Before \in Nat /\ spawns \in Nat
  BY BeforeIsNat DEF RunInv, CountsOK
<1>3. 1 <= Backends => InPass \in Nat
  BY PassFact DEF RunInv
<1>4. CASE pc' = pc
  BY <1>1, <1>4 DEF SpawnsInv
<1>5. CASE pc \in Early /\ pc' \in Early \cup Later
  <2>1. spawns' <= Before'
    BY <1>1, <1>5 DEF SpawnsInv
  <2>2. pc' \notin Wrapper
    BY <1>5 DEF Early, Later, Wrapper
  <2> QED
    BY <2>1, <2>2 DEF SpawnsInv, Wrapper
<1>6. CASE pc = "pause" /\ pc' = "exec"
  BY <1>1, <1>6 DEF SpawnsInv, Early, Later, Wrapper
<1>7. CASE pc \in Wrapper /\ pc' \in {"nap"} \cup Later
  <2>1. 1 <= Backends /\ spawns' <= Before' + InPass' + 1
    <3>1. spawns <= Before + InPass \/ spawns <= Before + InPass + 1
      BY <1>7 DEF SpawnsInv, Wrapper
    <3>2. 1 <= Backends
      BY <1>7 DEF SpawnsInv
    <3> QED
      BY <1>1, <1>2, <1>3, <3>1, <3>2
  <2>2. pc' \notin Early \cup {"pause", "exec"}
    BY <1>7 DEF Early, Later
  <2> QED
    BY <2>1, <2>2 DEF SpawnsInv
<1>8. CASE pc \in Later /\ pc' \in Later
  <2>1. pc' \notin Early \cup Wrapper
    BY <1>8 DEF Early, Later, Wrapper
  <2> QED
    BY <1>1, <1>8, <2>1 DEF SpawnsInv, Wrapper
<1> QED
  BY <1>4, <1>5, <1>6, <1>7, <1>8

LEMMA SpawnsStep == RunInv /\ SpawnsInv /\ [Next]_vars => SpawnsInv'
<1> SUFFICES ASSUME RunInv, SpawnsInv, [Next]_vars PROVE SpawnsInv'
  OBVIOUS
<1> USE DEF RunInv
<1>1. CASE Start \/ CreateRun \/ Check
  BY <1>1, SpawnsKept DEF Start, CreateRun, Check, End, countVars, loopVars, Early, Later, Wrapper
<1>2. CASE Enter
  <2>1. CASE pc' = "end" /\ UNCHANGED loopVars
    BY <1>2, <2>1, SpawnsKept DEF Enter, countVars, Early, Later
  <2>2. CASE pc' \in {"raised", "pause"} /\ backend' = 1 /\ try' = 0 /\ attempt' = attempt
             /\ (pc' = "pause" => Backends # 0)
    <3>1. spawns' = spawns /\ spawns <= Before /\ Before' = Before
      BY <1>2, <2>2 DEF Enter, countVars, SpawnsInv, Early, Before, Tries
    <3>2. Before \in Nat /\ spawns \in Nat /\ Tries \in Nat
      BY BeforeIsNat, RunAssumption DEF CountsOK, Tries
    <3>3. InPass' = 0
      BY <2>2, <3>2 DEF InPass, Tries
    <3>4. pc' = "pause" => 1 <= Backends
      BY <2>2, RunAssumption
    <3>5. pc' \notin Early \cup {"exec", "child", "nap"}
      BY <2>2 DEF Early
    <3>6. spawns' <= Before' /\ spawns' <= Before' + InPass'
      BY <3>1, <3>2, <3>3
    <3> QED
      BY <3>4, <3>5, <3>6 DEF SpawnsInv, Wrapper
  <2> QED
    BY <1>2, <2>1, <2>2 DEF Enter, End
<1>3. CASE Pause \/ PollCancel \/ Succeed
  BY <1>3, SpawnsKept DEF Pause, PollCancel, Succeed, End, countVars, loopVars, Early, Later, Wrapper
<1>4. CASE Spawn
  <2>1. Before' = Before /\ InPass' = InPass
    BY <1>4 DEF Spawn, Before, InPass, Tries, loopVars
  <2>2. pc' = "child" /\ spawns' = spawns + 1 /\ 1 <= Backends /\ spawns <= Before + InPass
    BY <1>4 DEF Spawn, SpawnsInv, Wrapper
  <2>3. Before \in Nat /\ InPass \in Nat /\ spawns \in Nat
    BY <2>2, PassFact DEF CountsOK
  <2>4. spawns' <= Before' + InPass' + 1
    BY <2>1, <2>2, <2>3
  <2>5. pc' \notin Early /\ pc' \notin Later /\ pc' \notin {"pause", "exec"}
    BY <2>2 DEF Early, Later
  <2> QED
    BY <2>2, <2>4, <2>5 DEF SpawnsInv
<1>5. CASE FailTry
  <2>1. spawns' = spawns /\ attempt' = attempt /\ Before' = Before
    BY <1>5 DEF FailTry, countVars, Before, Tries
  <2>2. CASE UNCHANGED <<backend, try>> /\ pc' \in {"nap", "raised"}
    BY <1>5, <2>1, <2>2, SpawnsKept DEF FailTry, loopVars, Early, Later, Wrapper
  <2>3. CASE pc' = "pause" /\ backend < Backends /\ backend' = backend + 1 /\ try' = 0
    <3>1. 1 <= Backends
      BY <2>3, RunAssumption DEF LoopInv
    <3>2. Before \in Nat /\ InPass \in Nat /\ Tries \in Nat /\ InPass + 1 <= backend * Tries /\ spawns \in Nat
          /\ backend * Tries = (backend - 1) * Tries + Tries
      BY <3>1, PassFact DEF CountsOK
    <3>3. spawns <= Before + InPass + 1
      <4>1. spawns <= Before + InPass \/ spawns <= Before + InPass + 1
        BY <1>5 DEF FailTry, SpawnsInv
      <4> QED
        BY <3>2, <4>1
    <3>4. InPass' = backend * Tries
      <4>1. backend * Tries \in Nat /\ (backend + 1) - 1 = backend
        BY <3>2, Products DEF LoopInv
      <4>2. InPass' = ((backend + 1) - 1) * Tries + 0
        BY <2>3 DEF InPass, Tries
      <4> QED
        BY <4>1, <4>2
    <3>5. spawns <= Before + InPass'
      BY <3>2, <3>3, <3>4, Products DEF LoopInv
    <3> QED
      BY <2>1, <2>3, <3>1, <3>5 DEF SpawnsInv, Early, Later, Wrapper
  <2> QED
    BY <1>5, <2>2, <2>3 DEF FailTry, NextTry
<1>6. CASE Nap
  <2>1. spawns' = spawns /\ attempt' = attempt /\ Before' = Before /\ pc = "nap" /\ pc' = "pause"
        /\ try' = try + 1 /\ backend' = backend
    BY <1>6 DEF Nap, countVars, Before, Tries
  <2>2. 1 <= Backends
    BY <1>6 DEF Nap, SpawnsInv, Wrapper
  <2>3. Before \in Nat /\ InPass \in Nat /\ spawns \in Nat
    BY <2>2, PassFact DEF CountsOK
  <2>4. InPass' = InPass + 1
    BY <2>1, <2>2, PassFact, Products, RunAssumption DEF InPass, Tries, LoopInv
  <2>5. spawns <= Before + InPass + 1
    BY <2>1, <2>3 DEF SpawnsInv, Early, Later, Wrapper
  <2> QED
    BY <2>1, <2>2, <2>3, <2>4, <2>5 DEF SpawnsInv, Early, Later, Wrapper
<1>7. CASE Timeout \/ Cancel \/ Raised \/ Fault
  <2>1. spawns' = spawns /\ UNCHANGED loopVars
    BY <1>7 DEF Timeout, Cancel, Raised, Fault, AfterFailure, End, countVars
  <2>2. \/ pc \in Early /\ pc' \in Early \cup Later
        \/ pc \in Wrapper /\ pc' \in {"nap"} \cup Later
        \/ pc \in Later /\ pc' \in Later
    BY <1>7 DEF Timeout, Cancel, Raised, Fault, AfterFailure, End, Awaits, Wrapper, Early, Later
  <2> QED
    BY <2>1, <2>2, SpawnsKept
<1>8. CASE Backoff
  <2>1. spawns' = spawns /\ pc = "backoff" /\ pc' = "check" /\ attempt' = attempt + 1
    BY <1>8 DEF Backoff, countVars
  <2>2. Before' = attempt * (Backends * Tries)
    <3>1. (attempt + 1) - 1 = attempt
      BY DEF LoopInv
    <3> QED
      BY <2>1, <3>1 DEF Before, Tries
  <2>3. spawns \in Nat /\ Before \in Nat
    BY BeforeIsNat DEF CountsOK
  <2>4. spawns <= Before'
    <3>1. CASE spawns <= Before
      <4>1. Backends * Tries \in Nat /\ attempt - 1 \in Nat /\ (attempt - 1) + 1 = attempt
        BY RunAssumption, Products DEF Tries, LoopInv
      <4>2. attempt * (Backends * Tries) = Before + Backends * Tries
        BY <4>1, Products DEF Before
      <4> QED
        BY <2>2, <2>3, <3>1, <4>1, <4>2
    <3>2. CASE 1 <= Backends /\ spawns <= Before + InPass + 1
      <4>1. /\ InPass \in Nat /\ Backends * Tries \in Nat /\ backend * Tries \in Nat
            /\ InPass + 1 <= backend * Tries /\ backend * Tries <= Backends * Tries
            /\ attempt * (Backends * Tries) = Before + Backends * Tries
        BY <3>2, PassFact, Products DEF LoopInv
      <4> QED
        BY <2>2, <2>3, <3>2, <4>1
    <3> QED
      BY <2>1, <3>1, <3>2 DEF SpawnsInv, Later
  <2> QED
    BY <2>1, <2>4 DEF SpawnsInv, Early, Later, Wrapper
<1>9. CASE Record \/ Persist \/ Finish \/ Emit
  BY <1>9, SpawnsKept DEF Record, Persist, Finish, Emit, End, countVars, loopVars, Later
<1>10. CASE RequestCancel \/ Revoke \/ UNCHANGED vars
  BY <1>10, SpawnsKept DEF RequestCancel, Revoke, vars, countVars
<1> QED
  BY <1>1, <1>2, <1>3, <1>4, <1>5, <1>6, <1>7, <1>8, <1>9, <1>10 DEF Next, Step, Ended

\* The retries of the wrapper and of run_tool multiply and end there: no way
\* through the loops starts more processes than attempts, backends and tries allow.
THEOREM RetriesMultiply == Spec => []SpawnBound
<1>1. RunInv /\ SpawnsInv => SpawnBound
  <2> SUFFICES ASSUME RunInv, SpawnsInv PROVE SpawnBound
    OBVIOUS
  <2>1. LoopInv /\ spawns \in Nat /\ Before \in Nat /\ pc \in Early \cup Wrapper \cup Later
    BY BeforeIsNat DEF RunInv, CountsOK, StatusOK, Awaits, Early, Later, Wrapper
  <2>2. Tries \in Nat /\ (backend - 1) * Tries \in Nat /\ InPass \in Nat
    BY <2>1, Products, RunAssumption DEF LoopInv, Tries, InPass
  <2>3. (attempt - 1) * Backends * (Retries + 1) = Before
    <3>1. \A a, b, c \in Nat : (a * b) * c = a * (b * c)
      BY SMT
    <3>2. attempt - 1 \in Nat /\ Backends \in Nat /\ Tries \in Nat
      BY <2>1, RunAssumption DEF LoopInv, Tries
    <3> QED
      BY <3>1, <3>2 DEF Before, Tries
  <2>4. (backend - 1) * (Retries + 1) + try + 1 = InPass + 1
    BY DEF InPass, Tries
  <2>5. CASE pc \in Early
    <3>1. spawns <= Before
      BY <2>5 DEF SpawnsInv
    <3>2. pc \notin Wrapper \cup {"raised", "record", "persist", "finish", "emit", "end", "backoff"}
      BY <2>5 DEF Early, Wrapper
    <3> QED
      BY <2>1, <2>3, <3>1, <3>2 DEF SpawnBound
  <2>6. CASE pc \in Wrapper \cup Later
    <3>1. spawns <= Before + (InPass + 1)
      BY <2>1, <2>2, <2>6 DEF SpawnsInv, Wrapper, Later
    <3> QED
      BY <2>3, <2>4, <2>6, <3>1 DEF SpawnBound, Wrapper, Later
  <2> QED
    BY <2>1, <2>5, <2>6
<1>2. Spec => [](RunInv /\ SpawnsInv)
  <2>1. Init => SpawnsInv
    BY SpawnsInit
  <2> QED
    BY <2>1, SpawnsStep, RunInvariant, PTL DEF Spec
<1> QED
  BY <1>1, <1>2, PTL

-----------------------------------------------------------------------------
\* Before the row is created there is none.
RowInv == pc \in {"start", "first rate"} => row = "none"

LEMMA RowInvariant == Spec => []RowInv
<1>1. Init => RowInv
  BY DEF Init, RowInv
<1>2. RowInv /\ [Next]_vars => RowInv'
  BY DEF RowInv, Next, Step, Ended, vars, Start, CreateRun, Check, Enter, Pause, Spawn, PollCancel,
         Succeed, FailTry, NextTry, Nap, Timeout, Raised, Backoff, Record, Persist, Finish, Emit,
         Fault, Cancel, RequestCancel, Revoke, AfterFailure, End, Wrapper
<1> QED
  BY <1>1, <1>2, PTL DEF Spec

\* Every way out of run_tool finishes the row, but for a cancellation during a
\* backoff and a store that raises.
THEOREM RowsSettle == Spec => RowSettles
<1>1. Spec => [](RunInv /\ RowInv /\ BackedInv)
  BY RunInvariant, RowInvariant, BackedInit, BackedStep, PTL DEF Spec
<1>2. RunInv /\ RowInv /\ BackedInv /\ [Next]_vars
        => [pc' = "end" /\ pc # "end" /\ row' = "running" => pc = "backoff" \/ faults' > faults]_vars
  <2> SUFFICES ASSUME RunInv, RowInv, BackedInv, Next, pc' = "end", pc # "end", row' = "running", pc # "backoff"
               PROVE  faults' > faults
    OBVIOUS
  <2>1. Fault
    <3>1. ~(Start \/ CreateRun \/ Check \/ Enter \/ Pause \/ Spawn \/ PollCancel)
      BY DEF RowInv, Start, CreateRun, Check, Enter, Pause, Spawn, PollCancel, End
    <3>2. ~(Succeed \/ FailTry \/ Nap \/ Timeout \/ Raised \/ Backoff)
      BY DEF Succeed, FailTry, NextTry, Nap, Timeout, Raised, Backoff, AfterFailure, End
    <3>3. ~(Record \/ Persist \/ Finish \/ Emit)
      BY DEF BackedInv, Record, Persist, Finish, Emit, End
    <3>4. ~(Cancel \/ RequestCancel \/ Revoke \/ Ended)
      BY DEF RowInv, Cancel, RequestCancel, Revoke, Ended, End, Awaits, Wrapper
    <3> QED
      BY <3>1, <3>2, <3>3, <3>4 DEF Next, Step
  <2>2. faults' = faults + 1
    BY <2>1 DEF Fault
  <2>3. faults \in Nat
    BY DEF RunInv, CountsOK
  <2> QED
    BY <2>2, <2>3
<1> QED
  BY <1>1, <1>2, PTL DEF Spec, RowSettles

=============================================================================
