------------------------ MODULE ScanLifecycle_proofs ------------------------
(***************************************************************************)
(* Proofs about ScanLifecycle: LifecycleInv is inductive, and the safety   *)
(* properties follow from it for any number of stop requests and any       *)
(* bounds.                                                                 *)
(***************************************************************************)
EXTENDS ScanLifecycle, TLAPS

LEMMA Bounds == Limit \in Nat \ {0} /\ MaxWork \in Nat /\ MaxFaults \in Nat /\ MaxDrops \in Nat
  BY BoundsAssumption

(* Appending keeps what is there and puts the new element last.              *)
LEMMA AppendFacts ==
  ASSUME NEW S, NEW s \in Seq(S), NEW e \in S
  PROVE  /\ Append(s, e) \in Seq(S)
         /\ Len(Append(s, e)) = Len(s) + 1
         /\ \A i \in 1..Len(s) : Append(s, e)[i] = s[i]
         /\ Append(s, e)[Len(s) + 1] = e
         /\ DOMAIN s = 1..Len(s)
         /\ DOMAIN Append(s, e) = 1..(Len(s) + 1)
         /\ Append(s, e) # <<>>
  OBVIOUS

LEMMA InitInv == Init => LifecycleInv
<1> SUFFICES ASSUME Init PROVE LifecycleInv
  OBVIOUS
<1> USE DEF Init, Terminal, Closing, Verdicts
<1>1. TypeOK
  <2>0. /\ authorized \in BOOLEAN /\ handle \in BOOLEAN
        /\ cancelEvent \in BOOLEAN /\ fresh \in BOOLEAN
    BY Zenon
  <2>1. ControlTypeOK
    BY <2>0, Bounds DEF ControlTypeOK, Rows, Threads, Breaks, Terminal
  <2>2. StreamTypeOK
    BY <2>0, Bounds DEF StreamTypeOK, Streams
  <2>3. LogTypeOK
    BY DEF LogTypeOK
  <2> QED BY <2>1, <2>2, <2>3 DEF TypeOK
<1>2. CreatorKnowsThread /\ RegistryKnowsThread /\ ThreadIsAuthorized /\ ToolsInExecute
  BY DEF CreatorKnowsThread, RegistryKnowsThread, Alive, Threads, ThreadIsAuthorized, ToolsInExecute
<1>3. VerdictIsLate /\ StreamWithinLog /\ GapFreeReplay /\ NoWorkAfterVerdict
  BY DEF VerdictIsLate, StreamWithinLog, GapFreeReplay, NoWorkAfterVerdict
<1>4. ThreadReported /\ SecondVerdictFails
  BY DEF ThreadReported, SecondVerdictFails, Passed, Threads, Closing
<1> QED BY <1>1, <1>2, <1>3, <1>4 DEF LifecycleInv

-----------------------------------------------------------------------------
(* Types.                                                                    *)

LEMMA CreateControl ==
  ASSUME ControlTypeOK, CreateStep \/ CreateRaises \/ StartRaises
  PROVE  ControlTypeOK'
  BY DEF ControlTypeOK, CreateStep, CreateScan, QueueScan, SaveAuthorization, Register,
     StartThread, AuditCreate, CreateRaises, StartRaises, Rows, Threads, creatorVars, threadVars

LEMMA ThreadControl ==
  ASSUME LifecycleInv, ThreadStep \/ EarlyRaise \/ ClosingRaises
  PROVE  ControlTypeOK'
<1> USE DEF LifecycleInv, TypeOK, ControlTypeOK, Rows, Threads, Terminal,
        creatorVars, threadVars, At
<1>1. CASE Preflight \/ MarkRunning \/ LeaveRegistry \/ AuditVerdict
  BY <1>1 DEF Preflight, MarkRunning, LeaveRegistry, AuditVerdict
<1>6. CASE WriteVerdict
  BY <1>6 DEF WriteVerdict
<1>2. CASE Greet \/ Seal \/ EmitVerdict
  BY <1>2 DEF Greet, Seal, EmitVerdict
<1>3. CASE BeginTool \/ ReportTool \/ EndTool
  BY <1>3, Bounds DEF BeginTool, ReportTool, EndTool
<1>4. CASE ExecuteReturns \/ ExecuteCancelled \/ ExecuteRaises
  BY <1>4 DEF ExecuteReturns, ExecuteCancelled, ExecuteRaises
<1>5. CASE EarlyRaise \/ ClosingRaises
  BY <1>5 DEF EarlyRaise, ClosingRaises, Breaks, ThreadReported, Closing
<1> QED BY <1>1, <1>2, <1>3, <1>4, <1>5, <1>6 DEF ThreadStep

LEMMA RequestControl ==
  ASSUME ControlTypeOK, NEW s \in Stops,
         RequestStop(s) \/ StopStep(s) \/ StopRaises(s)
  PROVE  ControlTypeOK'
  BY DEF ControlTypeOK, RequestStop, StopStep, StopRaises, WriteCancelling, AuditStop,
     AppendCancelling, Rows, creatorVars, threadVars

LEMMA OtherControl ==
  ASSUME ControlTypeOK, StreamStep \/ Drop \/ Crash \/ UNCHANGED vars
  PROVE  ControlTypeOK'
<1> USE DEF ControlTypeOK, creatorVars, threadVars
<1>1. CASE StreamStep \/ Drop \/ UNCHANGED vars
  BY <1>1 DEF StreamStep, Connect, ListAfter, Yield, CheckStatus, Drop, vars
<1>2. CASE Crash
  BY <1>2 DEF Crash, Threads
<1> QED BY <1>1, <1>2

LEMMA ControlTypes ==
  ASSUME LifecycleInv, [Next]_vars
  PROVE  ControlTypeOK'
<1>1. ControlTypeOK
  BY DEF LifecycleInv, TypeOK
<1> QED BY <1>1, CreateControl, ThreadControl, RequestControl, OtherControl DEF Next

-----------------------------------------------------------------------------
(* Who touches the stream and the log.                                       *)

LEMMA StreamFrame ==
  ASSUME [Next]_vars, ~StreamStep, ~Drop, ~Crash
  PROVE  /\ UNCHANGED streamVars
         /\ faults' = faults \/ Fault
<1>1. CASE CreateStep \/ CreateRaises \/ StartRaises
  BY <1>1 DEF CreateStep, CreateScan, QueueScan, SaveAuthorization, Register, StartThread,
     AuditCreate, CreateRaises, StartRaises
<1>2. CASE ThreadStep
  BY <1>2 DEF ThreadStep, Preflight, MarkRunning, Greet, BeginTool, ReportTool, EndTool,
     ExecuteReturns, ExecuteCancelled, ExecuteRaises, Seal, WriteVerdict, EmitVerdict,
     AuditVerdict, LeaveRegistry
<1>3. CASE EarlyRaise \/ ClosingRaises
  BY <1>3 DEF EarlyRaise, ClosingRaises
<1>4. CASE \E s \in Stops : RequestStop(s) \/ StopStep(s) \/ StopRaises(s)
  BY <1>4 DEF RequestStop, StopStep, WriteCancelling, AuditStop, AppendCancelling, StopRaises
<1>5. CASE UNCHANGED vars
  BY <1>5 DEF vars
<1> QED BY <1>1, <1>2, <1>3, <1>4, <1>5 DEF Next

\* The log only grows, one event a step; who appends what.
LEMMA LogGrows ==
  ASSUME [Next]_vars
  PROVE  \/ UNCHANGED log
         \/ log' = Append(log, "work") /\ running > 0 /\ UNCHANGED worker
         \/ log' = Append(log, verdict) /\ worker = "emit" /\ worker' = "audit"
            /\ UNCHANGED <<verdict, row, cancelEvent, stopper, faults>>
         \/ log' = Append(log, "log") /\ worker = "greet" /\ worker' = "execute"
         \/ log' = Append(log, "evidence") /\ worker = "seal" /\ worker' = "row"
         \/ log' = Append(log, "cancelling") /\ (\E s \in Stops : stopper[s] = "append")
            /\ UNCHANGED <<worker, cancelEvent, faults>>
<1>1. CASE CreateStep \/ CreateRaises \/ StartRaises
  BY <1>1 DEF CreateStep, CreateScan, QueueScan, SaveAuthorization, Register, StartThread,
     AuditCreate, CreateRaises, StartRaises
<1>2. CASE ThreadStep
  BY <1>2 DEF ThreadStep, Preflight, MarkRunning, Greet, BeginTool, ReportTool, EndTool, At,
     ExecuteReturns, ExecuteCancelled, ExecuteRaises, Seal, WriteVerdict, EmitVerdict,
     AuditVerdict, LeaveRegistry
<1>3. CASE EarlyRaise \/ ClosingRaises
  BY <1>3 DEF EarlyRaise, ClosingRaises
<1>4. CASE \E s \in Stops : RequestStop(s) \/ StopStep(s) \/ StopRaises(s)
  BY <1>4 DEF RequestStop, StopStep, WriteCancelling, AuditStop, AppendCancelling, StopRaises,
     creatorVars, threadVars
<1>5. CASE StreamStep \/ Drop \/ Crash \/ UNCHANGED vars
  BY <1>5 DEF StreamStep, Connect, ListAfter, Yield, CheckStatus, Drop, Crash, vars
<1> QED BY <1>1, <1>2, <1>3, <1>4, <1>5 DEF Next

LEMMA StreamTypes ==
  ASSUME LifecycleInv, [Next]_vars
  PROVE  StreamTypeOK'
<1> USE DEF StreamTypeOK, LifecycleInv, TypeOK
<1>1. CASE StreamStep
  <2>1. Len(log) \in Nat /\ Limit \in Nat
    BY Bounds DEF LogTypeOK
  <2>2. fresh' \in BOOLEAN
    <3>1. ((Len(log) > cursor) = TRUE) \/ ((Len(log) > cursor) = FALSE)
      BY <2>1, SMT
    <3>2. fresh' = fresh \/ fresh' = FALSE \/ fresh' = (Len(log) > cursor)
      BY <1>1, Zenon DEF StreamStep, Connect, ListAfter, Yield, CheckStatus
    <3> QED BY <3>1, <3>2, Zenon
  <2>3. /\ stream' \in Streams /\ cursor' \in Nat /\ upto' \in Nat /\ lastId' \in Nat
        /\ UNCHANGED <<drops, faults>>
    BY <1>1, <2>1, SMT DEF StreamStep, Connect, ListAfter, Yield, CheckStatus, Streams
  <2> QED BY <2>2, <2>3
<1>2. CASE Drop \/ Crash
  BY <1>2, Bounds DEF Drop, Crash, Fault, Streams
<1>3. CASE ~StreamStep /\ ~Drop /\ ~Crash
  BY <1>3, StreamFrame, Bounds DEF streamVars, Fault
<1> QED BY <1>1, <1>2, <1>3

LEMMA LogTypes ==
  ASSUME LifecycleInv, [Next]_vars
  PROVE  LogTypeOK'
<1> USE DEF LifecycleInv, TypeOK, LogTypeOK
<1>1. log' \in Seq(Kinds)
  <2>1. {"log", "work", "evidence", "cancelling", verdict} \subseteq Kinds
    BY DEF ControlTypeOK, Kinds
  <2>2. \A e \in Kinds : Append(log, e) \in Seq(Kinds)
    BY AppendFacts
  <2>3. log' = log \/ \E e \in Kinds : log' = Append(log, e)
    BY <2>1, LogGrows
  <2> QED BY <2>2, <2>3
<1>2. got' \in Seq(Kinds)
  <2>1. CASE Yield
    <3>1. cursor + 1 \in DOMAIN log
      BY <2>1 DEF Yield, StreamWithinLog, StreamTypeOK
    <3>2. log[cursor + 1] \in Kinds
      BY <3>1
    <3> QED BY <2>1, <3>2, AppendFacts DEF Yield
  <2>2. CASE ~Yield
    <3>1. UNCHANGED got
      BY <2>2, StreamFrame DEF streamVars, StreamStep, Connect, ListAfter, CheckStatus, Drop, Crash
    <3> QED BY <3>1
  <2> QED BY <2>1, <2>2
<1> QED BY <1>1, <1>2

-----------------------------------------------------------------------------
(* The rest of the invariant.                                                *)

LEMMA ThreadKnown ==
  ASSUME LifecycleInv, [Next]_vars
  PROVE  (CreatorKnowsThread /\ RegistryKnowsThread /\ ThreadIsAuthorized /\ ToolsInExecute)'
<1> USE DEF LifecycleInv, CreatorKnowsThread, RegistryKnowsThread, ThreadIsAuthorized,
        ToolsInExecute, Alive, Threads, creatorVars, threadVars
<1>0. running \in Nat /\ work \in Nat /\ handle \in BOOLEAN
      /\ worker \in Threads
  BY Bounds DEF TypeOK, ControlTypeOK
<1>1. CASE CreateStep \/ CreateRaises \/ StartRaises
  BY <1>1, <1>0 DEF CreateStep, CreateScan, QueueScan, SaveAuthorization, Register,
     StartThread, AuditCreate, CreateRaises, StartRaises
<1>2. CASE Preflight \/ MarkRunning \/ Greet \/ EarlyRaise \/ ClosingRaises
  BY <1>2, <1>0 DEF Preflight, MarkRunning, Greet, EarlyRaise, ClosingRaises, At
<1>3. CASE BeginTool \/ ReportTool \/ EndTool
  BY <1>3, <1>0 DEF BeginTool, ReportTool, EndTool
<1>4. CASE ExecuteReturns \/ ExecuteCancelled \/ ExecuteRaises
  BY <1>4, <1>0 DEF ExecuteReturns, ExecuteCancelled, ExecuteRaises, At
<1>5. CASE Seal \/ WriteVerdict \/ EmitVerdict \/ AuditVerdict \/ LeaveRegistry
  BY <1>5, <1>0 DEF Seal, WriteVerdict, EmitVerdict, AuditVerdict, LeaveRegistry, At
<1>6. CASE \E s \in Stops : RequestStop(s) \/ StopStep(s) \/ StopRaises(s)
  BY <1>6, <1>0 DEF RequestStop, StopStep, WriteCancelling, AuditStop, AppendCancelling, StopRaises
<1>7. CASE StreamStep \/ Drop \/ UNCHANGED vars
  BY <1>7, <1>0 DEF StreamStep, Connect, ListAfter, Yield, CheckStatus, Drop, vars
<1>8. CASE Crash
  BY <1>8, <1>0 DEF Crash
<1> QED BY <1>1, <1>2, <1>3, <1>4, <1>5, <1>6, <1>7, <1>8 DEF Next, ThreadStep

LEMMA Replay ==
  ASSUME LifecycleInv, [Next]_vars
  PROVE  (StreamWithinLog /\ GapFreeReplay)'
<1> USE DEF LifecycleInv, StreamWithinLog, GapFreeReplay
<1>0. /\ log \in Seq(Kinds) /\ got \in Seq(Kinds) /\ Limit \in Nat \ {0}
      /\ cursor \in Nat /\ upto \in Nat /\ lastId \in Nat
  BY Bounds DEF TypeOK, LogTypeOK, StreamTypeOK
<1>1. CASE StreamStep \/ Drop \/ Crash
  <2>1. UNCHANGED log
    BY <1>1 DEF StreamStep, Connect, ListAfter, Yield, CheckStatus, Drop, Crash
  <2>2. CASE Yield
    <3>1. cursor + 1 \in DOMAIN log
      BY <2>2, <1>0 DEF Yield
    <3>2. /\ Len(got') = Len(got) + 1
          /\ \A i \in 1..Len(got) : got'[i] = got[i]
          /\ got'[Len(got) + 1] = log[cursor + 1]
      BY <2>2, <3>1, <1>0, AppendFacts DEF Yield
    <3>3. GapFreeReplay'
      <4>1. lastId = Len(got) /\ cursor = Len(got) /\ cursor + 1 <= Len(log)
        BY <2>2, <3>1, <1>0 DEF Yield
      <4>2. \A i \in 1..Len(got') : i \in 1..Len(got) \/ i = Len(got) + 1
        BY <3>2, <1>0
      <4> QED BY <2>1, <2>2, <3>2, <4>1, <4>2, <1>0 DEF Yield
    <3> QED BY <2>1, <2>2, <3>1, <3>3, <1>0 DEF Yield
  <2>3. CASE Connect \/ ListAfter \/ CheckStatus \/ Drop \/ Crash
    <3>1. UNCHANGED <<lastId, got>>
      BY <2>3 DEF Connect, ListAfter, CheckStatus, Drop, Crash
    <3>2. StreamWithinLog'
      BY <2>1, <2>3, <1>0 DEF Connect, ListAfter, CheckStatus, Drop, Crash
    <3> QED BY <2>1, <3>1, <3>2
  <2> QED BY <1>1, <2>2, <2>3 DEF StreamStep
<1>2. CASE ~StreamStep /\ ~Drop /\ ~Crash
  <2>1. UNCHANGED streamVars
    BY <1>2, StreamFrame
  <2>2. Len(log') >= Len(log) /\ \A i \in 1..Len(log) : log'[i] = log[i]
    <3>1. {"log", "work", "evidence", "cancelling", verdict} \subseteq Kinds
      BY DEF TypeOK, ControlTypeOK, Kinds
    <3>2. \A e \in Kinds : /\ Len(Append(log, e)) = Len(log) + 1
                           /\ \A i \in 1..Len(log) : Append(log, e)[i] = log[i]
      BY <1>0, AppendFacts
    <3>3. log' = log \/ \E e \in Kinds : log' = Append(log, e)
      BY <3>1, LogGrows, Zenon
    <3> QED BY <3>2, <3>3, <1>0
  <2> QED BY <2>1, <2>2, <1>0 DEF streamVars
<1> QED BY <1>1, <1>2

\* A row becomes terminal in WriteVerdict only, and a thread that is closing stays so.
LEMMA RowWriters ==
  ASSUME LifecycleInv, [Next]_vars
  PROVE  /\ row' \in Terminal => row' = row \/ worker' = "emit"
         /\ worker \in Closing => worker' \in Closing
<1> USE DEF Terminal, Closing, LifecycleInv, CreatorKnowsThread
<1>1. CASE CreateStep \/ CreateRaises \/ StartRaises
  BY <1>1 DEF CreateStep, CreateScan, QueueScan, SaveAuthorization, Register, StartThread,
     AuditCreate, CreateRaises, StartRaises, threadVars
<1>2. CASE ThreadStep
  BY <1>2 DEF ThreadStep, Preflight, MarkRunning, Greet, BeginTool, ReportTool, EndTool, At,
     ExecuteReturns, ExecuteCancelled, ExecuteRaises, Seal, WriteVerdict, EmitVerdict,
     AuditVerdict, LeaveRegistry, ToolsInExecute
<1>3. CASE EarlyRaise \/ ClosingRaises
  BY <1>3 DEF EarlyRaise, ClosingRaises
<1>4. CASE \E s \in Stops : RequestStop(s) \/ StopStep(s) \/ StopRaises(s)
  BY <1>4 DEF RequestStop, StopStep, WriteCancelling, AuditStop, AppendCancelling, StopRaises,
     threadVars
<1>5. CASE StreamStep \/ Drop \/ UNCHANGED vars
  BY <1>5 DEF StreamStep, Connect, ListAfter, Yield, CheckStatus, Drop, threadVars, vars
<1>6. CASE Crash
  BY <1>6 DEF Crash
<1> QED BY <1>1, <1>2, <1>3, <1>4, <1>5, <1>6 DEF Next

\* The verdicts of a log with one more event.
LEMMA VerdictsAfter ==
  ASSUME LogTypeOK, NEW e \in Kinds, log' = Append(log, e)
  PROVE  /\ e \notin Terminal => Verdicts' = Verdicts
         /\ e \in Terminal => Verdicts' = Verdicts \cup {Len(log')}
         /\ log' # <<>> /\ log'[Len(log')] = e
<1>1. /\ DOMAIN log = 1..Len(log) /\ DOMAIN log' = 1..(Len(log) + 1)
      /\ Len(log') = Len(log) + 1 /\ Len(log) \in Nat
      /\ \A i \in 1..Len(log) : log'[i] = log[i]
      /\ log'[Len(log) + 1] = e
      /\ log' # <<>>
  BY AppendFacts DEF LogTypeOK
<1>2. \A i : i \in 1..(Len(log) + 1) <=> i \in 1..Len(log) \/ i = Len(log) + 1
  BY <1>1
<1>3. \A i : i \in Verdicts' <=> i \in Verdicts \/ (i = Len(log) + 1 /\ e \in Terminal)
  BY <1>1, <1>2 DEF Verdicts
<1> QED BY <1>1, <1>3

LEMMA VerdictLate ==
  ASSUME LifecycleInv, [Next]_vars
  PROVE  (VerdictIsLate /\ NoWorkAfterVerdict)'
<1> USE DEF LifecycleInv, VerdictIsLate
<1>0. LogTypeOK /\ {"log", "work", "evidence", "cancelling", verdict} \subseteq Kinds
      /\ {"log", "work", "evidence", "cancelling"} \cap Terminal = {}
  BY DEF TypeOK, ControlTypeOK, Kinds, Terminal
<1>1. row' \in Terminal => worker' \in Closing
  BY RowWriters DEF Closing
<1>2. Verdicts' # {} => worker' \in Closing
  <2>1. CASE UNCHANGED log
    BY <2>1, RowWriters DEF Verdicts
  <2>2. CASE \E e \in {"log", "work", "evidence", "cancelling"} : log' = Append(log, e)
    <3>1. Verdicts' = Verdicts
      BY <2>2, <1>0, VerdictsAfter
    <3> QED BY <3>1, RowWriters
  <2>3. CASE worker' = "audit"
    BY <2>3 DEF Closing
  <2> QED BY <2>1, <2>2, <2>3, LogGrows
<1>3. NoWorkAfterVerdict'
  <2>1. CASE UNCHANGED log
    BY <2>1 DEF NoWorkAfterVerdict
  <2>2. ASSUME NEW e \in Kinds, log' = Append(log, e), e = "work" => Verdicts = {}
        PROVE  NoWorkAfterVerdict'
    <3>1. /\ DOMAIN log = 1..Len(log) /\ DOMAIN log' = 1..(Len(log) + 1) /\ Len(log) \in Nat
          /\ \A i \in 1..Len(log) : log'[i] = log[i]
          /\ log'[Len(log) + 1] = e
      BY <2>2, <1>0, AppendFacts DEF LogTypeOK
    <3> SUFFICES ASSUME NEW i \in DOMAIN log', NEW j \in DOMAIN log', i < j,
                        log'[i] \in Terminal
                 PROVE  log'[j] # "work"
      BY DEF NoWorkAfterVerdict
    <3>2. i \in DOMAIN log /\ i \in Verdicts
      BY <3>1 DEF Verdicts
    <3>3. CASE j \in DOMAIN log
      BY <3>1, <3>2, <3>3 DEF NoWorkAfterVerdict
    <3>4. CASE j = Len(log) + 1
      BY <3>1, <3>2, <3>4, <2>2
    <3> QED BY <3>1, <3>3, <3>4
  <2>3. running > 0 => Verdicts = {}
    BY DEF ToolsInExecute, Closing
  <2>4. "work" \notin Terminal /\ verdict \in Terminal
    BY DEF TypeOK, ControlTypeOK, Terminal
  <2> QED BY <1>0, <2>1, <2>2, <2>3, <2>4, LogGrows
<1> QED BY <1>1, <1>2, <1>3

\* The points of the thread that follow one another inside the try block's end.
LEMMA BrokeKnown ==
  ASSUME LifecycleInv, [Next]_vars
  PROVE  /\ worker' \in Threads \ {"exit", "exited", "dead"} => broke' = "no"
         /\ worker' \notin Closing => verdict' = "completed"
         /\ StopAnswered => StopAnswered'
<1> USE DEF LifecycleInv, ThreadReported, StopAnswered, Threads, Closing, creatorVars, threadVars, At
<1>0. worker \in Threads /\ stopper \in [Stops -> {"idle", "write", "audit", "append", "accepted", "refused", "error"}]
  BY DEF TypeOK, ControlTypeOK
<1>1. CASE CreateStep \/ CreateRaises \/ StartRaises
  BY <1>1, <1>0 DEF CreateStep, CreateScan, QueueScan, SaveAuthorization, Register, StartThread,
     AuditCreate, CreateRaises, StartRaises, CreatorKnowsThread
<1>2. CASE ThreadStep \/ EarlyRaise \/ ClosingRaises
  BY <1>2, <1>0 DEF ThreadStep, Preflight, MarkRunning, Greet, BeginTool, ReportTool, EndTool,
     ExecuteReturns, ExecuteCancelled, ExecuteRaises, Seal, WriteVerdict, EmitVerdict,
     AuditVerdict, LeaveRegistry, EarlyRaise, ClosingRaises
<1>3. CASE \E s \in Stops : RequestStop(s) \/ StopStep(s) \/ StopRaises(s)
  BY <1>3, <1>0 DEF RequestStop, StopStep, WriteCancelling, AuditStop, AppendCancelling, StopRaises
<1>4. CASE StreamStep \/ Drop \/ UNCHANGED vars
  BY <1>4, <1>0 DEF StreamStep, Connect, ListAfter, Yield, CheckStatus, Drop, vars
<1>5. CASE Crash
  BY <1>5, <1>0 DEF Crash, Alive
<1> QED BY <1>1, <1>2, <1>3, <1>4, <1>5 DEF Next

\* What an event that is no verdict leaves as it is.
LEMMA VerdictsKept ==
  ASSUME LogTypeOK, NEW e \in Kinds, e \notin Terminal, log' = Append(log, e) \/ log' = log
  PROVE  /\ Verdicts' = Verdicts /\ \A i \in Verdicts : log'[i] = log[i]
         /\ SecondVerdictFails => SecondVerdictFails'
         /\ \A v : LoggedLast(v) => \E i \in DOMAIN log' : log'[i] = v /\ \A j \in DOMAIN log' : j > i => log'[j] \notin Terminal
<1>1. CASE log' = log
  BY <1>1 DEF Verdicts, SecondVerdictFails, LoggedLast
<1>2. CASE log' = Append(log, e)
  <2>1. /\ DOMAIN log = 1..Len(log) /\ DOMAIN log' = 1..(Len(log) + 1) /\ Len(log) \in Nat
        /\ \A i \in 1..Len(log) : log'[i] = log[i]
        /\ log'[Len(log) + 1] = e
    BY <1>2, AppendFacts DEF LogTypeOK
  <2>2. Verdicts' = Verdicts
    BY <1>2, VerdictsAfter
  <2>3. \A i \in Verdicts : log'[i] = log[i]
    BY <2>1 DEF Verdicts
  <2>4. ASSUME SecondVerdictFails, NEW i \in DOMAIN log', NEW j \in DOMAIN log', i < j, {log'[i], log'[j]} \subseteq Terminal
        PROVE  log'[i] = "completed" /\ log'[j] = "failed"
    <3>1. j # Len(log) + 1
      BY <2>1, <2>4
    <3>2. i \in DOMAIN log /\ j \in DOMAIN log
      BY <2>1, <2>4, <3>1
    <3> QED BY <2>1, <2>4, <3>2 DEF SecondVerdictFails
  <2>5. ASSUME NEW v, LoggedLast(v)
        PROVE  \E i \in DOMAIN log' : log'[i] = v /\ \A j \in DOMAIN log' : j > i => log'[j] \notin Terminal
    <3>1. PICK i \in DOMAIN log : log[i] = v /\ \A j \in DOMAIN log : j > i => log[j] \notin Terminal
      BY <2>5 DEF LoggedLast
    <3>2. log'[i] = v /\ i \in DOMAIN log'
      BY <2>1, <3>1
    <3>3. \A j \in DOMAIN log' : j > i => log'[j] \notin Terminal
      BY <2>1, <3>1
    <3> QED BY <3>2, <3>3
  <2> QED BY <2>2, <2>3, <2>4, <2>5 DEF SecondVerdictFails
<1> QED BY <1>1, <1>2

\* A completed verdict that comes last is the only one.
LEMMA CompletedAlone ==
  ASSUME LogTypeOK, SecondVerdictFails, LoggedLast("completed")
  PROVE  \A i \in Verdicts : log[i] = "completed"
<1>1. PICK k \in DOMAIN log : log[k] = "completed" /\ \A j \in DOMAIN log : j > k => log[j] \notin Terminal
  BY DEF LoggedLast
<1>2. ASSUME NEW i \in Verdicts PROVE i = k
  <2>1. i \in DOMAIN log /\ log[i] \in Terminal /\ k \in Nat /\ i \in Nat
    BY <1>1 DEF Verdicts, LogTypeOK
  <2>2. ~(i < k)
    BY <1>1, <2>1 DEF SecondVerdictFails, Terminal
  <2> QED BY <1>1, <2>1, <2>2
<1> QED BY <1>1, <1>2

LEMMA Reported ==
  ASSUME LifecycleInv, [Next]_vars
  PROVE  (ThreadReported /\ SecondVerdictFails)'
<1> DEFINE Logs(e) == log' = Append(log, e) \/ log' = log
<1>0. /\ LogTypeOK /\ SecondVerdictFails /\ ThreadReported /\ VerdictIsLate
      /\ {"log", "work", "evidence", "cancelling"} \subseteq Kinds
      /\ {"log", "work", "evidence", "cancelling"} \cap Terminal = {}
      /\ verdict \in Terminal /\ Terminal \subseteq Kinds /\ worker \in Threads
      /\ row' \in Rows
  BY ControlTypes DEF LifecycleInv, TypeOK, ControlTypeOK, Kinds, Terminal
<1>1. /\ worker' \in Threads \ {"exit", "exited", "dead"} => broke' = "no"
      /\ worker' \notin Closing => verdict' = "completed"
      /\ StopAnswered => StopAnswered'
  BY BrokeKnown
\* A step that leaves the thread where it is.
<1>2. ASSUME UNCHANGED <<worker, verdict, broke>>, NEW e \in Kinds, e \notin Terminal, Logs(e),
             worker \notin Closing \/ row' = row \/ (row' = "cancelling" /\ StopAnswered')
      PROVE  (ThreadReported /\ SecondVerdictFails)'
  <2>1. /\ Verdicts' = Verdicts /\ (\A i \in Verdicts : log'[i] = log[i]) /\ SecondVerdictFails'
        /\ LoggedLast(verdict) => LoggedLast(verdict)'
    BY <1>0, <1>2, VerdictsKept DEF LoggedLast
  <2>2. (worker \notin Closing => ~Passed({"emit", "audit"}) /\ broke # "early")
    BY <1>0 DEF Passed, Closing, ThreadReported
  <2>3. Passed({"emit", "audit"})' => row' = verdict' \/ (StopAnswered' /\ row' = "cancelling")
    BY <1>0, <1>1, <1>2, <2>2 DEF ThreadReported, Passed
  <2>4. broke = "early" => row' \notin Terminal
    BY <1>0, <1>2, <2>2 DEF ThreadReported, Terminal
  <2> QED BY <1>0, <1>1, <1>2, <2>1, <2>3, <2>4 DEF ThreadReported, Passed
\* A step to a point before the verdict.
<1>3. ASSUME worker' \in Threads \ {"emit", "audit", "exit", "exited", "dead"}, worker \notin Closing,
             NEW e \in Kinds, e \notin Terminal, Logs(e)
      PROVE  (ThreadReported /\ SecondVerdictFails)'
  <2>1. Verdicts' = {} /\ SecondVerdictFails'
    BY <1>0, <1>3, VerdictsKept DEF VerdictIsLate
  <2> QED BY <1>1, <1>3, <2>1 DEF ThreadReported, Passed
<1>4. CASE CreateStep \/ StartRaises
  <2>1. CASE worker' = worker
    <3>1. /\ UNCHANGED <<worker, verdict, broke, log>> /\ (worker \notin Closing \/ row' = row)
      BY <1>4, <2>1 DEF CreateStep, CreateScan, QueueScan, SaveAuthorization, Register, StartThread, AuditCreate,
         StartRaises, threadVars, LifecycleInv, CreatorKnowsThread, Closing
    <3> QED BY <1>0, <1>2, <3>1
  <2>2. CASE worker' # worker
    <3>1. /\ worker' \in {"registered", "preflight", "unstarted"} /\ worker \in {"none", "registered"} /\ log' = log
      BY <1>4, <2>2 DEF CreateStep, CreateScan, QueueScan, SaveAuthorization, Register, StartThread, AuditCreate,
         StartRaises, threadVars, LifecycleInv, CreatorKnowsThread
    <3> QED BY <1>0, <1>3, <3>1 DEF Threads, Closing
  <2> QED BY <2>1, <2>2
<1>5. CASE CreateRaises \/ StreamStep \/ Drop \/ UNCHANGED vars \/ \E s \in Stops : RequestStop(s) \/ StopStep(s) \/ StopRaises(s)
  <2>1. /\ UNCHANGED <<worker, verdict, broke>> /\ Logs("cancelling")
        /\ row' = row \/ \E s \in Stops : stopper[s] = "write" /\ row' = "cancelling"
    BY <1>5 DEF CreateRaises, StreamStep, Connect, ListAfter, Yield, CheckStatus, Drop, RequestStop, StopStep,
       StopRaises, WriteCancelling, AuditStop, AppendCancelling, threadVars, vars
  <2>2. row' = row \/ (row' = "cancelling" /\ StopAnswered')
    BY <1>1, <2>1 DEF StopAnswered
  <2> QED BY <1>0, <1>2, <2>1, <2>2
<1>6. CASE Preflight \/ MarkRunning \/ Greet \/ BeginTool \/ ReportTool \/ EndTool \/ ExecuteReturns
           \/ ExecuteCancelled \/ ExecuteRaises \/ Seal
  <2>1. /\ worker \in {"preflight", "mark", "greet", "execute", "seal"}
        /\ worker' \in {"mark", "greet", "execute", "seal", "row"}
        /\ \E e \in {"log", "work", "evidence"} : Logs(e)
    BY <1>6 DEF Preflight, MarkRunning, Greet, BeginTool, ReportTool, EndTool, ExecuteReturns,
       ExecuteCancelled, ExecuteRaises, Seal, At, LifecycleInv, ToolsInExecute
  <2> QED BY <1>0, <1>3, <2>1 DEF Threads, Closing
<1>7. CASE WriteVerdict
  <2>1. worker = "row" /\ worker' = "emit" /\ row' = verdict /\ UNCHANGED <<log, verdict, broke>>
    BY <1>7 DEF WriteVerdict, At
  <2> QED BY <1>0, <1>1, <2>1 DEF ThreadReported, Passed, SecondVerdictFails, Verdicts
<1>8. CASE EmitVerdict
  <2>1. /\ worker = "emit" /\ worker' = "audit" /\ log' = Append(log, verdict)
        /\ UNCHANGED <<row, verdict, broke, stopper>>
    BY <1>8 DEF EmitVerdict, At
  <2>2. /\ DOMAIN log = 1..Len(log) /\ DOMAIN log' = 1..(Len(log) + 1) /\ Len(log) \in Nat
        /\ \A i \in 1..Len(log) : log'[i] = log[i]
        /\ log'[Len(log) + 1] = verdict
    BY <1>0, <2>1, AppendFacts DEF LogTypeOK
  <2>3. LoggedLast(verdict)'
    <3>1. Len(log) + 1 \in DOMAIN log' /\ \A j \in DOMAIN log' : ~(j > Len(log) + 1)
      BY <2>2
    <3> QED BY <2>1, <2>2, <3>1 DEF LoggedLast
  <2>4. \A i \in Verdicts : log[i] = "completed" /\ verdict = "failed"
    BY <1>0, <2>1 DEF ThreadReported
  <2>5. ASSUME NEW i \in DOMAIN log', NEW j \in DOMAIN log', i < j, {log'[i], log'[j]} \subseteq Terminal
        PROVE  log'[i] = "completed" /\ log'[j] = "failed"
    <3>1. i \in DOMAIN log /\ i \in Verdicts
      BY <2>2, <2>5 DEF Verdicts
    <3>2. CASE j \in DOMAIN log
      BY <1>0, <2>2, <2>5, <3>1, <3>2 DEF SecondVerdictFails
    <3>3. CASE j = Len(log) + 1
      BY <2>2, <2>4, <3>1, <3>3
    <3> QED BY <2>2, <3>2, <3>3
  <2>6. Passed({"emit", "audit"})
    BY <2>1 DEF Passed
  <2> QED BY <1>0, <1>1, <2>1, <2>3, <2>5, <2>6 DEF ThreadReported, Passed, SecondVerdictFails, Threads, StopAnswered
<1>9. CASE AuditVerdict \/ LeaveRegistry
  <2>1. /\ worker \in {"audit", "exit"} /\ worker' = (IF worker = "audit" THEN "exit" ELSE "exited")
        /\ UNCHANGED <<row, log, verdict, broke, stopper>>
    BY <1>9 DEF AuditVerdict, LeaveRegistry, At
  <2>2. worker = "audit" => broke = "no"
    BY <1>0 DEF ThreadReported, Threads
  <2>3. /\ Passed({"emit", "audit"})' => Passed({"emit", "audit"})
        /\ Passed({"audit"})' => Passed({"audit"})
    BY <2>1, <2>2 DEF Passed
  <2> QED BY <1>0, <1>1, <2>1, <2>2, <2>3 DEF ThreadReported, SecondVerdictFails, Verdicts, LoggedLast, StopAnswered
<1>10. CASE EarlyRaise
  <2>1. worker \notin Closing /\ worker' = "exit" /\ broke' = "early" /\ UNCHANGED <<row, log, verdict>>
    BY <1>10 DEF EarlyRaise, Closing
  <2>2. row \notin Terminal /\ Verdicts = {}
    BY <1>0, <2>1 DEF VerdictIsLate
  <2> QED BY <1>0, <2>1, <2>2 DEF ThreadReported, Passed, SecondVerdictFails, Verdicts
<1>11. CASE ClosingRaises
  <2>0. /\ worker \in {"seal", "row", "emit", "audit"} /\ UNCHANGED <<row, log, stopper>> /\ broke = "no"
    BY <1>0, <1>11 DEF ClosingRaises, ThreadReported, Threads
  <2>1. CASE verdict = "completed"
    <3>1. worker' = "row" /\ verdict' = "failed" /\ broke' = "no"
      BY <1>11, <2>0, <2>1 DEF ClosingRaises
    <3>2. worker = "seal" => Verdicts = {}
      BY <1>0 DEF VerdictIsLate, Closing
    <3>3. worker \in {"row", "emit"} => Verdicts = {}
      BY <1>0, <2>1 DEF ThreadReported
    <3>4. worker = "audit" => LoggedLast("completed")
      BY <1>0, <2>1 DEF ThreadReported, Passed
    <3>5. \A i \in Verdicts : log[i] = "completed"
      BY <1>0, <2>0, <3>2, <3>3, <3>4, CompletedAlone
    <3>6. /\ SecondVerdictFails' /\ Verdicts' = Verdicts /\ log' = log
          /\ ~Passed({"emit", "audit"})' /\ ~Passed({"audit"})'
      BY <1>0, <2>0, <3>1 DEF Passed, SecondVerdictFails, Verdicts
    <3> QED BY <1>1, <3>1, <3>5, <3>6 DEF ThreadReported
  <2>2. CASE verdict # "completed"
    <3>1. worker' = "exit" /\ broke' = worker /\ verdict' = verdict
      BY <1>11, <2>2 DEF ClosingRaises
    <3>2. /\ Passed({"emit", "audit"})' => Passed({"emit", "audit"})
          /\ Passed({"audit"})' => Passed({"audit"})
      BY <2>0, <3>1 DEF Passed
    <3> QED BY <1>0, <1>1, <2>0, <3>1, <3>2 DEF ThreadReported, SecondVerdictFails, Verdicts, LoggedLast, StopAnswered
  <2> QED BY <2>1, <2>2
<1>12. CASE Crash
  <2>1. /\ UNCHANGED <<row, log, verdict, broke>> /\ worker' = (IF worker \in Alive \cup {"unstarted"} THEN "dead" ELSE worker)
    BY <1>12 DEF Crash
  <2>2. worker' \in {"none", "exited", "dead"}
    BY <1>0, <2>1 DEF Alive, Threads
  <2>3. worker' = "dead" \/ worker' = worker
    BY <2>1
  <2>4. /\ Passed({"emit", "audit"})' => Passed({"emit", "audit"})
        /\ Passed({"audit"})' => Passed({"audit"})
    BY <2>1, <2>2, <2>3 DEF Passed
  <2>5. broke = "early" => worker' \in {"exit", "exited", "dead"}
    BY <1>0, <2>3 DEF ThreadReported, Alive
  <2> QED BY <1>0, <1>1, <2>1, <2>2, <2>4, <2>5 DEF ThreadReported, SecondVerdictFails, Verdicts, LoggedLast
<1> QED BY <1>4, <1>5, <1>6, <1>7, <1>8, <1>9, <1>10, <1>11, <1>12 DEF Next, ThreadStep

-----------------------------------------------------------------------------
LEMMA Inductive == LifecycleInv /\ [Next]_vars => LifecycleInv'
<1> SUFFICES ASSUME LifecycleInv, [Next]_vars PROVE LifecycleInv'
  OBVIOUS
<1>1. TypeOK'
  BY ControlTypes, StreamTypes, LogTypes DEF TypeOK
<1> QED BY <1>1, ThreadKnown, Replay, VerdictLate, Reported DEF LifecycleInv

\* The strengthened invariant holds in every reachable state.
THEOREM Invariance == Spec => []LifecycleInv
  BY InitInv, Inductive, PTL DEF Spec

\* The variables keep their types.
THEOREM TypeCorrect == Spec => []TypeOK
<1>1. LifecycleInv => TypeOK
  BY DEF LifecycleInv
<1> QED BY <1>1, Invariance, PTL

\* A browser that reconnects with Last-Event-ID has the log without a gap, a
\* repetition or a reordering, whatever breaks and however often (v2_scan_events).
THEOREM ReplayHasNoGap == Spec => []GapFreeReplay
<1>1. LifecycleInv => GapFreeReplay
  BY DEF LifecycleInv
<1> QED BY <1>1, Invariance, PTL

\* The registry knows the threads that are alive, and no other but one that could not
\* be started (SchedulerRuntimeRegistry).
THEOREM RegistryKnowsThreads == Spec => []RegistryKnowsThread
<1>1. LifecycleInv => RegistryKnowsThread
  BY DEF LifecycleInv
<1> QED BY <1>1, Invariance, PTL

\* A scan has a thread only when its authorization is saved (v2_scans_create).
THEOREM NoUnauthorizedThread == Spec => []ThreadIsAuthorized
<1>1. LifecycleInv => ThreadIsAuthorized
  BY DEF LifecycleInv
<1> QED BY <1>1, Invariance, PTL

\* No tool reports after the verdict of its scan (run_p0_scan).
THEOREM VerdictIsLast == Spec => []NoWorkAfterVerdict
<1>1. LifecycleInv => NoWorkAfterVerdict
  BY DEF LifecycleInv
<1> QED BY <1>1, Invariance, PTL

\* Whatever raises, a thread that is gone left its last verdict in the row and, behind
\* no other, in the log, unless the exception was raised before the try block or
\* inside an except clause (run_p0_scan).
THEOREM VerdictsStand == Spec => []VerdictStands
<1>1. LifecycleInv => VerdictStands
  BY DEF LifecycleInv, ThreadReported, Passed, VerdictStands, Verdicts
<1> QED BY <1>1, Invariance, PTL

\* No tool starts once the row of the scan is terminal (run_p0_scan).
THEOREM TerminalScansAreQuiet == Spec => TerminalRowIsQuiet
<1>1. ASSUME LifecycleInv, [Next]_vars, row \in Terminal
      PROVE  UNCHANGED work
  <2>1. worker # "execute"
    BY <1>1 DEF LifecycleInv, VerdictIsLate, Closing
  <2>2. ~BeginTool
    BY <2>1 DEF BeginTool
  <2>3. CASE CreateStep \/ CreateRaises \/ StartRaises
    BY <2>3 DEF CreateStep, CreateScan, QueueScan, SaveAuthorization, Register, StartThread,
       AuditCreate, CreateRaises, StartRaises, threadVars
  <2>4. CASE ThreadStep
    BY <2>2, <2>4 DEF ThreadStep, Preflight, MarkRunning, Greet, ReportTool, EndTool,
       ExecuteReturns, ExecuteCancelled, ExecuteRaises, Seal, WriteVerdict, EmitVerdict,
       AuditVerdict, LeaveRegistry
  <2>5. CASE EarlyRaise \/ ClosingRaises
    BY <2>5 DEF EarlyRaise, ClosingRaises
  <2>6. CASE \E s \in Stops : RequestStop(s) \/ StopStep(s) \/ StopRaises(s)
    BY <2>6 DEF RequestStop, StopStep, WriteCancelling, AuditStop, AppendCancelling, StopRaises,
       threadVars
  <2>7. CASE StreamStep \/ Drop \/ Crash \/ UNCHANGED vars
    BY <2>7 DEF StreamStep, Connect, ListAfter, Yield, CheckStatus, Drop, Crash, threadVars, vars
  <2> QED BY <1>1, <2>3, <2>4, <2>5, <2>6, <2>7 DEF Next
<1>2. LifecycleInv /\ [Next]_vars => [(row \in Terminal) => UNCHANGED work]_vars
  BY <1>1
<1> QED BY <1>2, Invariance, PTL DEF Spec, TerminalRowIsQuiet

\* No tool works behind a verdict, in the log or in the row, the registry knows every
\* thread, and what its verdict was can be read when it is gone.
THEOREM VerdictEndsWork == Spec => VerdictIsTheEnd
BY VerdictIsLast, RegistryKnowsThreads, VerdictsStand, TerminalScansAreQuiet, PTL DEF VerdictIsTheEnd
=============================================================================
