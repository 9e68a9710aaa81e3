---------------------------- MODULE Control ----------------------------
(***************************************************************************)
(* The modules that control and record the work, one beside the other: a    *)
(* behaviour is one of `part`, chosen at the start. AuditLog is extended,    *)
(* the other modules share the names of their variables. A property that is  *)
(* not of AuditLog holds for the behaviours of its part. The constants have  *)
(* the names and meanings they have in the modules.                          *)
(***************************************************************************)
EXTENDS AuditLog

CONSTANTS
  Scans, NTools(_), Capacity, MaxRaises,                          \* DashboardScan
  Calls, Scan(_), Mode(_), Prompts, NProviders, Provider(_),      \* LLMBudget
  Retries, Input, Answers, ScanLimit, DayLimit, MaxCharges,
  Callers, GlobalPolicy, KeyPolicy, Policies,                     \* RateGovernor
  MaxTime, MaxBuckets, MaxGrants,
  Subscribers, Topics, Matches(_, _), HeartbeatTopic,             \* EventBus
  QueueSize, MaxEvents,
  Workers, Tools, Sizes, Limit, ToolLimit, MaxCalls,              \* BudgetLedger
  Starts, Versions, Texts, MaxEdits, MaxRuns,                     \* Migrations
  Secrets, Requests, MaxSaves, MaxStarts                          \* DashboardSettings

\* Rates and bursts count whole tokens, a queue has room for an event, a scan
\* has some number of tools, what is consumed is counted, and the words the form
\* shows for a secret are no secrets.
ASSUME RateAssumption == {GlobalPolicy, KeyPolicy} \cup Policies \subseteq [rate : Nat, burst : Nat]
ASSUME QueueAssumption == QueueSize \in Nat \ {0}
ASSUME ToolsAreCounted == \A s \in Scans : NTools(s) \in Nat
ASSUME SizesAreNat == Sizes \subseteq Nat
ASSUME VersionsAreNat == Versions \subseteq Nat
ASSUME WordsAreFree == Secrets \cap {"absent", "", "configured"} = {}

\* There are calls, the ceilings and what is charged are counts, some text is
\* not empty, and no provider is asked for more than the longest text, nor is more
\* expected when none is enabled.
ASSUME CallsAssumption ==
  /\ {Input, Retries, NProviders, ScanLimit, DayLimit} \subseteq Nat
  /\ Calls # {} /\ IsFiniteSet(Calls) /\ \A c \in Calls : Mode(c) \in [json : BOOLEAN, rules : BOOLEAN]
  /\ IsFiniteSet(Answers) /\ Answers \subseteq Nat /\ Answers \ {0} # {}
  /\ \A i \in 1 .. NProviders : Provider(i).out \in Nat /\ \E t \in Answers : Provider(i).out <= t
  /\ (\A i \in 1 .. NProviders : ~Provider(i).enabled) => \E t \in Answers : 2048 <= t

VARIABLES
  part,                 \* the module this behaviour is of
  db, mem, proc, hist,  \* its state
  files                 \* the files of Migrations

state == <<db, mem, proc, hist>>
suiteVars == <<part, state, files, vars>>

------------------------------------------------------------------------------

Dashboard == INSTANCE DashboardScan WITH MaxFaults <- MaxRaises
Model == INSTANCE LLMBudget WITH Texts <- Answers
Rate == INSTANCE RateGovernor
Bus == INSTANCE EventBus
Budget == INSTANCE BudgetLedger
Schema == INSTANCE Migrations WITH disk <- files
Settings == INSTANCE DashboardSettings

------------------------------------------------------------------------------

No(v) == v = "unused"

SuiteInit ==
  \/ part = "audit" /\ Init /\ No(db) /\ No(mem) /\ No(proc) /\ No(hist) /\ No(files)
  \/ part = "dashboard" /\ Dashboard!Init /\ No(files) /\ Init
  \/ part = "model" /\ Model!Init /\ No(mem) /\ No(files) /\ Init
  \/ part = "rate" /\ Rate!Init /\ No(db) /\ No(files) /\ Init
  \/ part = "bus" /\ Bus!Init /\ No(db) /\ No(proc) /\ No(files) /\ Init
  \/ part = "budget" /\ Budget!Init /\ No(mem) /\ No(files) /\ Init
  \/ part = "schema" /\ Schema!Init /\ No(mem) /\ Init
  \/ part = "settings" /\ Settings!Init /\ No(files) /\ Init

SuiteNext ==
  \/ part = "audit" /\ Next /\ UNCHANGED <<part, state, files>>
  \/ part = "dashboard" /\ Dashboard!Next /\ UNCHANGED <<part, files, vars>>
  \/ part = "model" /\ Model!Next /\ UNCHANGED <<part, mem, files, vars>>
  \/ part = "rate" /\ Rate!Next /\ UNCHANGED <<part, db, files, vars>>
  \/ part = "bus" /\ Bus!Next /\ UNCHANGED <<part, db, proc, files, vars>>
  \/ part = "budget" /\ Budget!Next /\ UNCHANGED <<part, mem, files, vars>>
  \/ part = "schema" /\ Schema!Next /\ UNCHANGED <<part, mem, vars>>
  \/ part = "settings" /\ Settings!Next /\ UNCHANGED <<part, files, vars>>

SuiteSpec == SuiteInit /\ [][SuiteNext]_suiteVars

------------------------------------------------------------------------------

\* What the browser is told of a scan is what became of it: a terminal status it
\* saw is the row's; a thread that is gone left a terminal row and closed tool
\* runs, unless the target is gone, the thread or its first UPDATE failed (the row
\* is pending for good), the report of the failure failed (it is running for good)
\* or the report of the failed tool run did (that run is open for good); a cancel
\* that was accepted before the last tool wins; and the events arrive in order,
\* none after the verdict.
ScanIsTold ==
  /\ [](part = "dashboard" => Dashboard!WorkerSettlesRow /\ Dashboard!ToldIsSo /\ Dashboard!CancelWins)
  /\ [][part = "dashboard" => Dashboard!EventsInOrder]_hist

\* The ceilings are checked before a call and charged after it, so calls that run
\* together spend above them; what they spend is bounded by their number: the last
\* admission saw room for one projection, and every call in flight adds at most the
\* longest text.  And providers are asked in their order: when a call ends, those
\* before the one it ended at had all their attempts, those after it none; the
\* rules answer for a model, and "no provider succeeded" is raised, only after the
\* last, while prose where JSON was asked for ends the call at its provider.
CallsAreBounded == part = "model" => Model!OvershootIsBounded /\ Model!FallbackIsOrdered

\* What the repository says of the ceilings: they are hard (TokenBudgetLimits), and
\* a call whose projection would exceed one fails before it is made (assert_budget).
CeilingsAreHard ==
  part = "model" => db.day <= DayLimit /\ \A s \in Model!Charged : db.spent[s] <= ScanLimit

\* No bucket, the global one or any the key ever had, grants more in any window
\* than its burst and what the window refills, whoever wakes in which order, and
\* a policy holds for every acquisition that begins after it was assigned.
RateConforms == part = "rate" => Rate!RateConforms /\ Rate!NewPolicyHolds

\* A slow subscriber loses only what is oldest: what waits in its queue is the
\* newest of the events that matched since it subscribed, in order, without a
\* gap, and follows everything it has read.
NewestWait == part = "bus" => Bus!NewestWait

\* A process that resumes the scan goes on with what was used before: the
\* ledger forgets a consumption that returned only when two of them overlapped;
\* and a budget that was exceeded is not called complete afterwards, unless
\* mark_complete had read its row before.
UseIsKept ==
  /\ [](part = "budget" => Budget!UseSurvives)
  /\ [][part = "budget" => Budget!ExceededStays]_db

\* The ledger accounts for the schema, in the database and in every copy of it,
\* whatever fails, crashes or is restored: a version is in the ledger exactly when
\* its SQL was carried out and no down script has undone it since.  But for the
\* restoring of a copy, no row changes while it stays; and a migration enters the
\* ledger above all others and leaves it only together with everything above it,
\* but for a step of a process whose plan another one had overtaken.
LedgerIsTheSchema == [][part = "schema" => Schema!Orderly]_db

\* The secret a user saved last is the one the tools get, however often the form
\* is shown and saved again, unless saves overlapped, one was cut off, or one
\* came through the first API, which does not merge.
SavedSecretStays == part = "settings" => Settings!SavedSecretStays
===============================================================================
