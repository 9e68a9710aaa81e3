------------------------------ MODULE MCStaged ------------------------------
(***************************************************************************)
(* The two coordinators that commit the stages of a scan, StageResume and   *)
(* ReleasePipeline, and what both implement.  A behaviour is of one of them *)
(* (`part`); they share the names of their variables, and `last` is for     *)
(* ReleasePipeline the number of its checkpoints.                           *)
(***************************************************************************)
EXTENDS StageResume

VARIABLES
  part,
  rows, audited, shown, status, cancel   \* of ReleasePipeline

reporting == <<rows, audited, shown, status, cancel>>
suiteVars == <<part, vars, reporting>>

Release == INSTANCE ReleasePipeline WITH Runs <- Drivers, MaxFaults <- 1

\* The committed stages are the first ones.
Count == last' = Cardinality({s \in Stages : payload'[s] # None})

SuiteInit ==
  \/ /\ part = "resume" /\ Init
     /\ rows = {} /\ audited = {} /\ shown = {}
     /\ status = "unused" /\ cancel = FALSE
  \/ part = "release" /\ Release!Init /\ last = 0 /\ work = 0

InResume(A) == part = "resume" /\ A /\ UNCHANGED <<part, reporting>>
InRelease(A) == part = "release" /\ A /\ Count /\ UNCHANGED <<part, work>>

SuiteNext == InResume(Next) \/ InRelease(Release!Next)

\* The fairness of the two modules.
SuiteSpec ==
  /\ SuiteInit /\ [][SuiteNext]_suiteVars
  /\ \A d \in Drivers :
       /\ WF_suiteVars(InResume(Step(d)))
       /\ WF_suiteVars(InRelease(Release!Step(d) \/ Release!Rerun(d)))

-----------------------------------------------------------------------------
\* Of the release coordinator: nothing is reported as done, in the table, the log or
\* the interface, that a restart could lose; what a run returns is what is stored;
\* and a stored stage goes unreported only for a failure.  Of the resume
\* coordinator: drivers that go through the stages in order are never refused a
\* commit; a callback is repeated for a failure that prevented its row, and besides
\* once by each driver that overlaps; and run_stage returns the checkpoint or the
\* caller's own result, the latter also when another driver's was stored.
CommitsAreAccounted ==
  /\ part = "release" => Release!ReportedIsDurable /\ Release!ReturnedIsStored /\ Release!ReportGaps
  /\ part = "resume" => NeverRefused /\ WorkBound /\ ReturnedOrOwn

\* Failures and deaths only delay: a resumed scan reaches its last stage, and
\* every run of the pipeline ends with all stages committed or cancelled.
WorkEnds == (part = "resume" => Completes) /\ (part = "release" => Release!RunsEnd)
=============================================================================
