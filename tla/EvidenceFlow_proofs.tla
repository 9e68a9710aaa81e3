------------------------- MODULE EvidenceFlow_proofs -------------------------
(***************************************************************************)
(* Proofs about the parts of EvidenceFlow that obtain evidence and give it   *)
(* out: the consent, the capture proxy, the contract audit, the reports and  *)
(* their redaction, and the root over a scan's evidence.                     *)
(* A section has the inductive invariant of its module, what each action     *)
(* does to it, and what the suite states of the part.                        *)
(***************************************************************************)
EXTENDS EvidenceFlow, Integers, Functions, WellFoundedInduction, SequenceTheorems, FiniteSetTheorems, TLAPS

-----------------------------------------------------------------------------
(* Authorization *)

(* The inductive invariant.  A consent is never changed, so a check that     *)
(* matched it when it was verified matches it for good; and whoever is past  *)
(* a check holds it, for the row it goes on with, and past the log it is a   *)
(* record.                                                                   *)

ConsentRow == [scope : SUBSET Hosts, until : Nat]
AuditRow  == [scope : SUBSET Hosts, consent : Nat, at : Nat]
ConsentIds     == {0} \cup 1 .. MaxConsents
ScanRow    == [consent : ConsentIds, state : {"queued", "running", "stopping", "gone"}]
WorkerRow  == [row : SUBSET Hosts, at : {"new", "starting", "running", "checking", "ready", "over"},
               pass : AuditRow]
AskWork == {"create", "stop", "read", "generate"}
AskRow == [at : {"idle", "check", "log"} \cup AskWork,
            row : SUBSET Hosts, scan : Nat, pass : AuditRow, consent : ConsentIds,
            what : {"none"} \cup AskWork]

AccessStateOK ==
  /\ store \in [target : SUBSET Hosts, scans : Seq(ScanRow), consents : Seq(ConsentRow),
             report : BOOLEAN, audit : SUBSET AuditRow, now : Nat]
  /\ workers \in Seq(WorkerRow)

AccessAsksOK == asks \in [Requests -> AskRow]

\* A check was backed by its consent when it was made.
Backed(a) ==
  /\ a.consent \in DOMAIN store.consents
  /\ a.at < store.consents[a.consent].until
  /\ a.scope = store.consents[a.consent].scope

LogBacked == \A a \in store.audit : Backed(a)

\* What a worker and a request hold.
WorkerHolds(w) ==
  /\ w.at \in {"starting", "checking", "ready"} => Backed(w.pass) /\ w.pass.scope = w.row
  /\ w.at = "ready" => w.pass \in store.audit

AskHolds(p) ==
  /\ p.at \in {"check", "log"} => p.what \in AskWork
  /\ p.at \in {"log"} \cup AskWork => Backed(p.pass) /\ p.pass.scope = p.row
  /\ p.at \in AskWork => p.pass \in store.audit

WorkersHold == \A i \in DOMAIN workers : WorkerHolds(workers[i])
RequestsHold == \A u \in Requests : AskHolds(asks[u])
UsesLogged == \A x \in used : x.what # "list" => x.pass \in store.audit /\ x.scope = x.pass.scope

AccessInv == AccessStateOK /\ AccessAsksOK /\ LogBacked /\ WorkersHold /\ RequestsHold /\ UsesLogged

LEMMA AccessInit == Init => AccessInv
<1> SUFFICES ASSUME Init PROVE AccessInv
  OBVIOUS
<1> USE DEF Init
<1>1. PICK s \in Scopes : store = [target |-> s, scans |-> <<>>, consents |-> <<>>,
                                report |-> FALSE, audit |-> {}, now |-> 0]
  OBVIOUS
<1>2. AccessStateOK
  BY <1>1 DEF AccessStateOK, Scopes
<1>3. AccessAsksOK
  BY DEF AccessAsksOK, AskRow, AskWork, ConsentIds, Idle, NoPass, AuditRow
<1>4. LogBacked /\ UsesLogged
  BY <1>1 DEF LogBacked, UsesLogged
<1>5. WorkersHold /\ RequestsHold
  BY DEF WorkersHold, RequestsHold, AskHolds, AskWork, Idle
<1> QED
  BY <1>2, <1>3, <1>4, <1>5 DEF AccessInv
-----------------------------------------------------------------------------
(* What a step may do to the log, and what follows for what is held.         *)

\* The log grows by checks that are backed; consents are only added.
LogSteps ==
  /\ store.audit \subseteq store'.audit /\ \A a \in store'.audit : a \in store.audit \/ Backed(a)
  /\ \/ store'.consents = store.consents
     \/ \E k \in ConsentRow : store'.consents = Append(store.consents, k)

LEMMA LogFact ==
  ASSUME AccessStateOK, LogBacked, LogSteps
  PROVE  LogBacked' /\ store.audit \subseteq store'.audit /\ \A a : Backed(a) => Backed(a)'
<1>1. store.audit \subseteq store'.audit /\ store.consents \in Seq(ConsentRow)
  BY DEF LogSteps, AccessStateOK
<1>2. ASSUME NEW a, Backed(a) PROVE Backed(a)'
  <2>1. CASE store'.consents = store.consents
    BY <1>2, <2>1 DEF Backed
  <2>2. ASSUME NEW k \in ConsentRow, store'.consents = Append(store.consents, k) PROVE Backed(a)'
    <3>1. a.consent \in DOMAIN store'.consents /\ store'.consents[a.consent] = store.consents[a.consent]
      BY <1>1, <1>2, <2>2 DEF Backed
    <3> QED
      BY <1>2, <3>1 DEF Backed
  <2> QED
    BY <2>1, <2>2 DEF LogSteps
<1>3. \A a \in store'.audit : Backed(a)
  BY DEF LogSteps, LogBacked
<1> QED
  BY <1>1, <1>2, <1>3 DEF LogBacked

\* What was held is held after such a step.
LEMMA HoldFact ==
  ASSUME AccessInv, LogSteps
  PROVE  /\ \A i \in DOMAIN workers : WorkerHolds(workers[i])
         /\ \A w : WorkerHolds(w) => WorkerHolds(w)'
         /\ \A p : AskHolds(p) => AskHolds(p)'
         /\ LogBacked' /\ store.audit \subseteq store'.audit
<1>1. LogBacked' /\ store.audit \subseteq store'.audit /\ \A a : Backed(a) => Backed(a)'
  BY LogFact DEF AccessInv
<1>2. ASSUME NEW w, WorkerHolds(w) PROVE WorkerHolds(w)'
  BY <1>1, <1>2 DEF WorkerHolds
<1>3. ASSUME NEW p, AskHolds(p) PROVE AskHolds(p)'
  BY <1>1, <1>3 DEF AskHolds
<1> QED
  BY <1>1, <1>2, <1>3 DEF AccessInv, WorkersHold

\* A step that leaves the workers, the requests and their uses alone.
LEMMA QuietFact ==
  ASSUME AccessInv, LogSteps, AccessStateOK', UNCHANGED <<workers, asks>>,
         UNCHANGED used \/ \E x : used' = used \cup {x} /\ x.what = "list"
  PROVE  AccessInv'
<1>1. WorkersHold' /\ RequestsHold' /\ LogBacked' /\ store.audit \subseteq store'.audit
  BY HoldFact DEF AccessInv, WorkersHold, RequestsHold
<1>2. UsesLogged'
  BY <1>1 DEF AccessInv, UsesLogged
<1> QED
  BY <1>1, <1>2 DEF AccessInv, AccessAsksOK

\* A step of one request that leaves the workers alone.
LEMMA RequestFact ==
  ASSUME AccessInv, NEW u \in Requests, LogSteps, AccessStateOK', UNCHANGED workers,
         NEW p, asks' = [asks EXCEPT ![u] = p],
         p \in AskRow, AskHolds(p)',
         UNCHANGED used \/ \E x : /\ used' = used \cup {x}
                                  /\ x.pass \in store'.audit /\ x.scope = x.pass.scope
  PROVE  AccessInv'
<1>1. WorkersHold' /\ LogBacked' /\ store.audit \subseteq store'.audit
  BY HoldFact DEF AccessInv, WorkersHold
<1>2. AccessAsksOK'
  BY DEF AccessInv, AccessAsksOK
<1>3. RequestsHold'
  <2> SUFFICES ASSUME NEW v \in Requests PROVE AskHolds(asks[v])'
    BY DEF RequestsHold
  <2>1. CASE v = u
    <3>1. asks'[v] = p
      BY <2>1 DEF AccessInv, AccessAsksOK
    <3> QED
      BY <3>1 DEF AskHolds, Backed
  <2>2. CASE v # u
    <3>1. asks'[v] = asks[v]
      BY <2>2 DEF AccessInv, AccessAsksOK
    <3>2. PICK q : q = asks[v]
      OBVIOUS
    <3>3. AskHolds(q)'
      BY <3>2, HoldFact DEF AccessInv, RequestsHold
    <3> QED
      BY <3>1, <3>2, <3>3 DEF AskHolds, Backed
  <2> QED
    BY <2>1, <2>2
<1>4. UsesLogged'
  BY <1>1 DEF AccessInv, UsesLogged
<1> QED
  BY <1>1, <1>2, <1>3, <1>4 DEF AccessInv

\* A step of one worker that leaves the requests alone.
LEMMA WorkerFact ==
  ASSUME AccessInv, NEW i \in DOMAIN workers, LogSteps, AccessStateOK', UNCHANGED asks,
         NEW w, workers' = [workers EXCEPT ![i] = w], WorkerHolds(w)',
         UNCHANGED used \/ \E x : /\ used' = used \cup {x}
                                  /\ x.pass \in store'.audit /\ x.scope = x.pass.scope
  PROVE  AccessInv'
<1>1. RequestsHold' /\ LogBacked' /\ store.audit \subseteq store'.audit
  BY HoldFact DEF AccessInv, RequestsHold
<1>2. AccessAsksOK'
  BY DEF AccessInv, AccessAsksOK
<1>3. WorkersHold'
  <2> SUFFICES ASSUME NEW j \in DOMAIN workers' PROVE WorkerHolds(workers[j])'
    BY DEF WorkersHold
  <2>1. CASE j = i
    <3>1. workers'[j] = w
      BY <2>1
    <3> QED
      BY <3>1 DEF WorkerHolds, Backed
  <2>2. CASE j # i
    <3>1. j \in DOMAIN workers /\ workers'[j] = workers[j]
      BY <2>2
    <3>2. PICK x : x = workers[j]
      OBVIOUS
    <3>3. WorkerHolds(x)'
      BY <3>1, <3>2, HoldFact
    <3> QED
      BY <3>1, <3>2, <3>3 DEF WorkerHolds, Backed
  <2> QED
    BY <2>1, <2>2
<1>4. UsesLogged'
  BY <1>1 DEF AccessInv, UsesLogged
<1> QED
  BY <1>1, <1>2, <1>3, <1>4 DEF AccessInv
-----------------------------------------------------------------------------
(* The actions.                                                              *)

LEMMA TargetStep ==
  ASSUME AccessInv,
         \/ \E s \in Scopes, ttl \in 1 .. 2 : Issue(s, ttl)
         \/ \E s \in Scopes : UpdateTarget(s)
         \/ DeleteTarget \/ Tick \/ ListFindings
  PROVE  AccessInv'
<1>0. /\ AccessStateOK /\ store.now \in Nat /\ store.now + 1 \in Nat
      /\ store.scans \in Seq(ScanRow) /\ store.consents \in Seq(ConsentRow)
  BY DEF AccessInv, AccessStateOK
<1>1. ASSUME NEW s \in Scopes, NEW ttl \in 1 .. 2, Issue(s, ttl) PROVE AccessInv'
  <2> DEFINE k == [scope |-> s, until |-> store.now + ttl]
  <2>1. k \in ConsentRow
    BY <1>0 DEF ConsentRow, Scopes
  <2>2. store' = [store EXCEPT !.consents = Append(@, k)] /\ UNCHANGED <<workers, asks, used>>
    BY <1>1 DEF Issue
  <2> HIDE DEF k
  <2>3. Append(store.consents, k) \in Seq(ConsentRow)
    BY <1>0, <2>1
  <2>4. AccessStateOK'
    BY <1>0, <2>2, <2>3 DEF AccessStateOK
  <2>5. LogSteps
    BY <1>0, <2>1, <2>2 DEF AccessStateOK, LogSteps
  <2> QED
    BY <2>2, <2>4, <2>5, QuietFact
<1>2. ASSUME NEW s \in Scopes, UpdateTarget(s) PROVE AccessInv'
  <2>1. AccessStateOK' /\ LogSteps
    BY <1>0, <1>2 DEF UpdateTarget, Scopes, AccessStateOK, LogSteps
  <2> QED
    BY <1>2, <2>1, QuietFact DEF UpdateTarget
<1>3. ASSUME DeleteTarget PROVE AccessInv'
  <2> DEFINE gone == [i \in DOMAIN store.scans |-> [store.scans[i] EXCEPT !.state = "gone"]]
  <2>1. gone \in Seq(ScanRow)
    <3>1. ASSUME NEW i \in DOMAIN store.scans PROVE [store.scans[i] EXCEPT !.state = "gone"] \in ScanRow
      <4>1. store.scans[i] \in ScanRow
        BY <1>0
      <4> QED
        BY <4>1 DEF ScanRow
    <3>2. PICK n \in Nat : DOMAIN store.scans = 1 .. n
      BY <1>0
    <3>3. gone \in [1 .. n -> ScanRow]
      BY <3>1, <3>2
    <3> HIDE DEF gone
    <3> QED
      BY <3>3, SeqDef
  <2>2. store' = [store EXCEPT !.target = {}, !.report = FALSE, !.scans = gone]
    BY <1>3 DEF DeleteTarget
  <2> HIDE DEF gone
  <2>3. AccessStateOK'
    BY <1>0, <1>3, <2>1, <2>2 DEF DeleteTarget, AccessStateOK
  <2>4. LogSteps
    BY <1>0, <2>2 DEF AccessStateOK, LogSteps
  <2> QED
    BY <1>3, <2>3, <2>4, QuietFact DEF DeleteTarget
<1>4. ASSUME Tick PROVE AccessInv'
  <2>1. AccessStateOK' /\ LogSteps
    BY <1>0, <1>4 DEF Tick, AccessStateOK, LogSteps
  <2> QED
    BY <1>4, <2>1, QuietFact DEF Tick
<1>5. ASSUME ListFindings PROVE AccessInv'
  <2>1. AccessStateOK' /\ LogSteps
    BY <1>0, <1>5 DEF ListFindings, AccessStateOK, LogSteps
  <2>2. \E x : used' = used \cup {x} /\ x.what = "list"
    <3> DEFINE x == [what |-> "list", scope |-> {}, pass |-> NoPass]
    <3>1. used' = used \cup {x} /\ x.what = "list"
      BY <1>5 DEF ListFindings, Use
    <3> QED
      BY <3>1
  <2> QED
    BY <1>5, <2>1, <2>2, QuietFact DEF ListFindings
<1> QED
  BY <1>1, <1>2, <1>3, <1>4, <1>5

\* A check that verifies, and one that is logged.
LEMMA VerifiedFact ==
  ASSUME AccessStateOK, NEW c, NEW s \in SUBSET Hosts, Verify(c, s)
  PROVE  Pass(c, s) \in AuditRow /\ Backed(Pass(c, s)) /\ Pass(c, s).scope = s
<1>1. c \in Nat
  BY DEF Verify, AccessStateOK
<1>2. Pass(c, s) \in AuditRow
  BY <1>1 DEF Pass, AuditRow, AccessStateOK
<1>3. Backed(Pass(c, s))
  BY DEF Verify, Pass, Backed, AccessStateOK, ConsentRow
<1> QED
  BY <1>2, <1>3 DEF Pass

LEMMA LoggedFact ==
  ASSUME AccessStateOK, NEW a \in AuditRow, Backed(a), store' = Logged(a), workers' \in Seq(WorkerRow)
  PROVE  LogSteps /\ AccessStateOK' /\ a \in store'.audit
  BY DEF AccessStateOK, LogSteps, Logged

LEMMA IdleFact == Idle \in AskRow /\ NoPass \in AuditRow /\ Idle.at = "idle"
BY DEF Idle, NoPass, AuditRow, AskRow, AskWork, ConsentIds

LEMMA CreationStep ==
  ASSUME AccessInv, NEW u \in Requests,
         \/ Denied(u) \/ CreateScan(u) \/ \E c \in 1 .. MaxConsents : AskScan(u, c)
  PROVE  AccessInv'
<1>0. asks[u] \in AskRow /\ store.target \in SUBSET Hosts /\ AccessStateOK
  BY DEF AccessInv, AccessAsksOK, AccessStateOK
<1>9. AskHolds(Idle)'
  BY DEF AskHolds, Idle, AskWork
<1>1. CASE Denied(u)
  <2>1. LogSteps /\ AccessStateOK'
    BY <1>1 DEF Denied, AccessInv, AccessStateOK, LogSteps
  <2> QED
    BY <1>1, <1>9, <2>1, IdleFact, RequestFact DEF Denied, Back
<1>3. CASE CreateScan(u) /\ store.target = {}
  <2>1. LogSteps /\ AccessStateOK'
    BY <1>3 DEF CreateScan, AccessInv, AccessStateOK, LogSteps
  <2> QED
    BY <1>3, <1>9, <2>1, IdleFact, RequestFact DEF CreateScan, Back
<1>4. CASE CreateScan(u) /\ store.target # {}
  <2> DEFINE scan == [consent |-> asks[u].consent, state |-> "queued"]
  <2>0. PICK worker \in WorkerRow : worker = [row |-> asks[u].row, at |-> "new", pass |-> NoPass]
    <3>1. [row |-> asks[u].row, at |-> "new", pass |-> NoPass] \in WorkerRow
      BY <1>0, IdleFact DEF WorkerRow, AskRow
    <3> QED
      BY <3>1
  <2>1. scan \in ScanRow
    BY <1>0 DEF ScanRow, AskRow
  <2>2. /\ store' = [store EXCEPT !.scans = Append(@, scan)] /\ workers' = Append(workers, worker)
        /\ UNCHANGED used /\ asks' = [asks EXCEPT ![u] = Idle]
    BY <1>4, <2>0 DEF CreateScan, Back
  <2>3. WorkerHolds(worker)'
    BY <2>0 DEF WorkerHolds
  <2> HIDE DEF scan
  <2>4. LogSteps /\ AccessStateOK' /\ store'.audit = store.audit
    <3>1. store.scans \in Seq(ScanRow) /\ workers \in Seq(WorkerRow)
      BY <1>0 DEF AccessStateOK
    <3>2. Append(store.scans, scan) \in Seq(ScanRow) /\ workers' \in Seq(WorkerRow)
      BY <2>1, <2>2, <3>1
    <3>3. AccessStateOK'
      BY <1>0, <2>2, <3>2 DEF AccessStateOK
    <3>4. store'.audit = store.audit /\ store'.consents = store.consents
      BY <1>0, <2>2 DEF AccessStateOK
    <3> QED
      BY <3>3, <3>4 DEF LogSteps
  <2>5. WorkersHold'
    <3> SUFFICES ASSUME NEW i \in DOMAIN workers' PROVE WorkerHolds(workers[i])'
      BY DEF WorkersHold
    <3>1. \/ i \in DOMAIN workers /\ workers'[i] = workers[i]
          \/ workers'[i] = worker
      BY <1>0, <2>1, <2>2 DEF AccessStateOK
    <3>2. PICK x : x = workers'[i]
      OBVIOUS
    <3>3. WorkerHolds(x)'
      <4>1. CASE i \in DOMAIN workers /\ workers'[i] = workers[i]
        BY <2>4, <3>2, <4>1, HoldFact
      <4>2. CASE workers'[i] = worker
        <5>1. x = worker
          BY <3>2, <4>2
        <5> QED
          BY <5>1, <2>3 DEF WorkerHolds, Backed
      <4> QED
        BY <3>1, <4>1, <4>2
    <3> QED
      BY <3>2, <3>3 DEF WorkerHolds, Backed
  <2>6. LogBacked' /\ UsesLogged'
    BY <2>2, <2>4, HoldFact DEF AccessInv, UsesLogged
  <2>7. AccessAsksOK'
    BY <2>2, IdleFact DEF AccessInv, AccessAsksOK
  <2>8. RequestsHold'
    <3> SUFFICES ASSUME NEW v \in Requests PROVE AskHolds(asks[v])'
      BY DEF RequestsHold
    <3>1. asks'[v] = Idle \/ asks'[v] = asks[v]
      BY <2>2 DEF AccessInv, AccessAsksOK
    <3>2. PICK x : x = asks'[v]
      OBVIOUS
    <3>3. AskHolds(x)'
      <4>1. CASE x = Idle
        BY <1>9, <4>1 DEF AskHolds, Backed
      <4>2. CASE x = asks[v]
        BY <2>4, <4>2, HoldFact DEF AccessInv, RequestsHold
      <4> QED
        BY <3>1, <3>2, <4>1, <4>2
    <3> QED
      BY <3>2, <3>3 DEF AskHolds, Backed
  <2> QED
    BY <2>4, <2>5, <2>6, <2>7, <2>8 DEF AccessInv
<1>5. ASSUME NEW c \in 1 .. MaxConsents, AskScan(u, c) PROVE AccessInv'
  <2> DEFINE p == [Idle EXCEPT !.at = "check", !.what = "create", !.row = store.target, !.consent = c]
  <2>1. LogSteps /\ AccessStateOK'
    BY <1>5 DEF AskScan, AccessInv, AccessStateOK, LogSteps
  <2>2. p \in AskRow /\ p.at = "check" /\ p.what = "create"
    BY <1>0, IdleFact DEF Idle, AskRow, AskWork, ConsentIds
  <2>3. asks' = [asks EXCEPT ![u] = p] /\ UNCHANGED <<workers, used>>
    BY <1>5 DEF AskScan
  <2> HIDE DEF p
  <2>4. PICK q : q = p
    OBVIOUS
  <2>5. AskHolds(q)'
    BY <2>2, <2>4 DEF AskHolds, AskWork
  <2> QED
    BY <2>1, <2>2, <2>3, <2>4, <2>5, RequestFact
<1> QED
  BY <1>1, <1>3, <1>4, <1>5
-----------------------------------------------------------------------------
(* Requests about a scan, and the workers.                                   *)

LEMMA PutScan ==
  ASSUME NEW s \in Seq(ScanRow), NEW i, NEW x, i \in DOMAIN s => x \in ScanRow
  PROVE  [s EXCEPT ![i] = x] \in Seq(ScanRow)
<1>1. PICK n \in Nat : s \in [1 .. n -> ScanRow]
  BY SeqDef
<1>2. [s EXCEPT ![i] = x] \in [1 .. n -> ScanRow]
  BY <1>1
<1> QED
  BY <1>2, SeqDef

\* Both ways to ask about a scan keep its consent and the target as it is now.
LEMMA AskFact ==
  ASSUME AccessInv, NEW u \in Requests, NEW i, NEW w \in {"stop", "read", "generate"},
         AskAbout(u, i, w)
  PROVE  AccessInv'
<1>0. /\ i \in DOMAIN store.scans /\ store.scans \in Seq(ScanRow) /\ store.target \in SUBSET Hosts
  BY DEF AskAbout, AccessInv, AccessStateOK
<1>1. store.scans[i] \in ScanRow /\ i \in Nat
  BY <1>0
<1>2. store.scans[i].consent \in ConsentIds
  BY <1>1 DEF ScanRow
<1> DEFINE p == [Idle EXCEPT !.at = "check", !.scan = i, !.what = w,
                             !.row = store.target, !.consent = store.scans[i].consent]
<1>3. p \in AskRow /\ p.at = "check" /\ p.what = w
  BY <1>0, <1>1, <1>2, IdleFact DEF Idle, AskRow, AskWork
<1>4. asks' = [asks EXCEPT ![u] = p] /\ UNCHANGED <<store, workers, used>>
  BY DEF AskAbout
<1> HIDE DEF p
<1>5. LogSteps /\ AccessStateOK'
  BY <1>4 DEF AccessInv, AccessStateOK, LogSteps
<1>6. PICK q : q = p
  OBVIOUS
<1>7. AskHolds(q)'
  BY <1>3, <1>6 DEF AskHolds, AskWork
<1> QED
  BY <1>3, <1>4, <1>5, <1>6, <1>7, RequestFact

LEMMA CheckStep == ASSUME AccessInv, NEW u \in Requests, Check(u) \/ Log(u) PROVE AccessInv'
<1>0. /\ asks[u] \in AskRow /\ AccessStateOK /\ workers \in Seq(WorkerRow) /\ AskHolds(asks[u])
      /\ asks \in [Requests -> AskRow]
  BY DEF AccessInv, AccessAsksOK, AccessStateOK, RequestsHold
<1>1. CASE Check(u)
  <2>1. PICK a \in AuditRow : a = Pass(asks[u].consent, asks[u].row) /\ Backed(a) /\ a.scope = asks[u].row
    <3>1. asks[u].row \in SUBSET Hosts /\ Verify(asks[u].consent, asks[u].row)
      BY <1>0, <1>1 DEF Check, AskRow
    <3> QED
      BY <1>0, <3>1, VerifiedFact
  <2>2. PICK p \in AskRow : /\ p = [asks[u] EXCEPT !.at = "log", !.pass = a]
                            /\ p.at = "log" /\ p.pass = a /\ p.row = asks[u].row /\ p.what = asks[u].what
    <3>1. [asks[u] EXCEPT !.at = "log", !.pass = a] \in AskRow
      BY <1>0 DEF AskRow
    <3> QED
      BY <1>0, <3>1 DEF AskRow
  <2>3. asks' = [asks EXCEPT ![u] = p] /\ UNCHANGED <<store, workers, used>>
    BY <1>0, <1>1, <2>1, <2>2 DEF Check
  <2>4. LogSteps /\ AccessStateOK'
    BY <1>0, <2>3 DEF AccessStateOK, LogSteps
  <2>5. AskHolds(p)
    BY <1>0, <1>1, <2>1, <2>2 DEF AskHolds, AskWork, Check, At
  <2>6. AskHolds(p)'
    BY <2>4, <2>5, HoldFact
  <2> QED
    BY <2>2, <2>3, <2>4, <2>6, RequestFact
<1>2. CASE Log(u)
  <2>1. PICK a \in AuditRow : a = asks[u].pass /\ Backed(a) /\ a.scope = asks[u].row
    BY <1>0, <1>2 DEF Log, At, AskHolds, AskRow
  <2>2. asks[u].what \in AskWork
    BY <1>0, <1>2 DEF Log, At, AskHolds
  <2>3. PICK p \in AskRow : /\ p = [asks[u] EXCEPT !.at = asks[u].what] /\ p.at \in AskWork
                            /\ p.pass = a /\ p.row = asks[u].row
    <3>1. [asks[u] EXCEPT !.at = asks[u].what] \in AskRow
      BY <1>0, <2>2 DEF AskRow
    <3> QED
      BY <1>0, <2>1, <2>2, <3>1 DEF AskRow
  <2>4. asks' = [asks EXCEPT ![u] = p] /\ store' = Logged(a) /\ UNCHANGED <<workers, used>>
    BY <1>0, <1>2, <2>1, <2>3 DEF Log
  <2>5. LogSteps /\ AccessStateOK' /\ a \in store'.audit
    BY <1>0, <2>1, <2>4, LoggedFact
  <2>6. Backed(a)'
    BY <2>1, <2>5, LogFact DEF AccessInv
  <2>7. AskHolds(p)'
    BY <2>1, <2>3, <2>5, <2>6 DEF AskHolds, AskWork, Backed
  <2> QED
    BY <2>3, <2>4, <2>5, <2>7, RequestFact
<1> QED
  BY <1>1, <1>2

LEMMA RequestStep ==
  ASSUME AccessInv, NEW u \in Requests,
         \/ Stop(u) \/ GenerateReport(u) \/ ReadEvidence(u)
         \/ \E i \in DOMAIN store.scans, w \in {"stop", "read"} : AskAbout(u, i, w)
         \/ \E w \in {"generate", "read"} : AskLatest(u, w)
  PROVE  AccessInv'
<1>0. /\ asks[u] \in AskRow /\ AccessStateOK /\ workers \in Seq(WorkerRow)
      /\ store.target \in SUBSET Hosts /\ store.scans \in Seq(ScanRow)
  BY DEF AccessInv, AccessAsksOK, AccessStateOK
<1>9. AskHolds(Idle)'
  BY DEF AskHolds, Idle, AskWork
<1>2. CASE Stop(u)
  <2>1. AccessStateOK'
    <3>1. CASE store' = store
      BY <1>0, <1>2, <3>1 DEF Stop, AccessStateOK
    <3>2. CASE store' = [store EXCEPT !.scans[asks[u].scan].state = "stopping"]
      <4>0. asks[u].scan \in DOMAIN store.scans =>
              [store.scans[asks[u].scan] EXCEPT !.state = "stopping"] \in ScanRow
        <5> SUFFICES ASSUME asks[u].scan \in DOMAIN store.scans
            PROVE  [store.scans[asks[u].scan] EXCEPT !.state = "stopping"] \in ScanRow
          OBVIOUS
        <5>1. store.scans[asks[u].scan] \in ScanRow
          BY <1>0
        <5> QED
          BY <5>1 DEF ScanRow
      <4>1. [store.scans EXCEPT ![asks[u].scan].state = "stopping"] \in Seq(ScanRow)
        BY <1>0, <4>0, PutScan
      <4>2. store' = [store EXCEPT !.scans = [store.scans EXCEPT ![asks[u].scan].state = "stopping"]]
        BY <1>0, <3>2 DEF AccessStateOK
      <4> QED
        BY <1>0, <1>2, <4>1, <4>2 DEF Stop, AccessStateOK
    <3> QED
      BY <1>2, <3>1, <3>2 DEF Stop
  <2>2. LogSteps
    BY <1>0, <1>2 DEF Stop, AccessStateOK, LogSteps
  <2>3. asks' = [asks EXCEPT ![u] = Idle] /\ UNCHANGED <<workers, used>>
    BY <1>2 DEF Stop, Back
  <2> QED
    BY <1>9, <2>1, <2>2, <2>3, IdleFact, RequestFact
<1>3. CASE GenerateReport(u) \/ ReadEvidence(u)
  <2> DEFINE x == [what |-> "read", scope |-> asks[u].row, pass |-> asks[u].pass]
  <2>1. asks' = [asks EXCEPT ![u] = Idle] /\ UNCHANGED workers
    BY <1>3 DEF GenerateReport, ReadEvidence, Back
  <2>2. UNCHANGED used \/ used' = used \cup {x}
    BY <1>3 DEF GenerateReport, ReadEvidence, Use
  <2>3. x.pass \in store.audit /\ x.scope = x.pass.scope
    BY <1>3 DEF GenerateReport, ReadEvidence, At, AccessInv, RequestsHold, AskHolds, AskWork
  <2> HIDE DEF x
  <2>4. LogSteps /\ AccessStateOK' /\ store'.audit = store.audit
    BY <1>0, <1>3, <2>1 DEF GenerateReport, ReadEvidence, AccessStateOK, LogSteps
  <2> QED
    BY <1>9, <2>1, <2>2, <2>3, <2>4, IdleFact, RequestFact
<1>4. ASSUME NEW i \in DOMAIN store.scans, NEW w \in {"stop", "read"}, AskAbout(u, i, w)
      PROVE  AccessInv'
  BY <1>4, AskFact
<1>5. ASSUME NEW w \in {"generate", "read"}, AskLatest(u, w) PROVE AccessInv'
  BY <1>5, AskFact DEF AskLatest
<1> QED
  BY <1>2, <1>3, <1>4, <1>5

\* A worker goes to a place with a check in its hand.
LEMMA GotoFact ==
  ASSUME AccessInv, NEW i \in DOMAIN workers,
         NEW at \in {"running", "starting", "checking", "ready", "over"}, NEW a \in AuditRow, Goto(i, at, a)
  PROVE  /\ workers' \in Seq(WorkerRow)
         /\ \E w \in WorkerRow : /\ workers' = [workers EXCEPT ![i] = w]
                                 /\ w.at = at /\ w.pass = a /\ w.row = workers[i].row
<1>1. workers \in Seq(WorkerRow) /\ workers[i] \in WorkerRow
  BY DEF AccessInv, AccessStateOK
<1>2. PICK w \in WorkerRow : /\ w = [workers[i] EXCEPT !.at = at, !.pass = a]
                             /\ w.at = at /\ w.pass = a /\ w.row = workers[i].row
  <2>1. [workers[i] EXCEPT !.at = at, !.pass = a] \in WorkerRow
    BY <1>1 DEF WorkerRow
  <2> QED
    BY <1>1, <2>1 DEF WorkerRow
<1>3. workers' = [workers EXCEPT ![i] = w]
  BY <1>1, <1>2 DEF Goto
<1>4. workers' \in Seq(WorkerRow)
  BY <1>1, <1>3
<1> QED
  BY <1>2, <1>3, <1>4

LEMMA WorkerStep ==
  ASSUME AccessInv, NEW i \in DOMAIN workers,
         StartScan(i) \/ LogStart(i) \/ CheckTool(i) \/ LogTool(i) \/ Refused(i) \/ Launch(i)
  PROVE  AccessInv'
<1>0. /\ AccessStateOK /\ workers \in Seq(WorkerRow) /\ workers[i] \in WorkerRow /\ store.scans \in Seq(ScanRow)
      /\ workers[i].row \in SUBSET Hosts /\ workers[i].pass \in AuditRow /\ WorkerHolds(workers[i])
  <2>1. AccessStateOK /\ workers \in Seq(WorkerRow) /\ store.scans \in Seq(ScanRow) /\ WorkerHolds(workers[i])
    BY DEF AccessInv, AccessStateOK, WorkersHold
  <2>2. workers[i] \in WorkerRow
    BY <2>1
  <2> QED
    BY <2>1, <2>2 DEF WorkerRow
<1>1. ASSUME NEW at \in {"starting", "checking"}, NEW c, Verify(c, workers[i].row),
             Goto(i, at, Pass(c, workers[i].row)), UNCHANGED <<store, asks, used>>
      PROVE  AccessInv'
  <2>1. PICK a \in AuditRow : a = Pass(c, workers[i].row) /\ Backed(a) /\ a.scope = workers[i].row
    BY <1>0, <1>1, VerifiedFact
  <2>2. /\ workers' \in Seq(WorkerRow)
        /\ \E w \in WorkerRow : /\ workers' = [workers EXCEPT ![i] = w]
                                /\ w.at = at /\ w.pass = a /\ w.row = workers[i].row
    BY <1>1, <2>1, GotoFact
  <2>3. PICK w \in WorkerRow : /\ workers' = [workers EXCEPT ![i] = w]
                               /\ w.at = at /\ w.pass = a /\ w.row = workers[i].row
    BY <2>2
  <2>4. LogSteps /\ AccessStateOK'
    BY <1>0, <1>1, <2>2 DEF AccessStateOK, LogSteps
  <2>5. WorkerHolds(w)
    BY <1>1, <2>1, <2>3 DEF WorkerHolds
  <2>6. WorkerHolds(w)'
    BY <2>4, <2>5, HoldFact
  <2> QED
    BY <1>1, <2>3, <2>4, <2>6, WorkerFact
<1>2. CASE StartScan(i)
  BY <1>1, <1>2 DEF StartScan
<1>3. CASE CheckTool(i)
  BY <1>1, <1>3 DEF CheckTool
<1>4. CASE LogTool(i)
  <2>1. PICK a \in AuditRow : a = workers[i].pass /\ Backed(a) /\ a.scope = workers[i].row
    BY <1>0, <1>4 DEF LogTool, WorkerHolds
  <2>2. Goto(i, "ready", a) /\ store' = Logged(a) /\ UNCHANGED <<asks, used>>
    BY <1>4, <2>1 DEF LogTool
  <2>3. /\ workers' \in Seq(WorkerRow)
        /\ \E w \in WorkerRow : /\ workers' = [workers EXCEPT ![i] = w]
                                /\ w.at = "ready" /\ w.pass = a /\ w.row = workers[i].row
    BY <2>2, GotoFact
  <2>4. PICK w \in WorkerRow : /\ workers' = [workers EXCEPT ![i] = w]
                               /\ w.at = "ready" /\ w.pass = a /\ w.row = workers[i].row
    BY <2>3
  <2>5. LogSteps /\ AccessStateOK' /\ a \in store'.audit
    BY <1>0, <2>1, <2>2, <2>3, LoggedFact
  <2>6. Backed(a)'
    BY <2>1, <2>5, LogFact DEF AccessInv
  <2>7. WorkerHolds(w)'
    BY <2>1, <2>4, <2>5, <2>6 DEF WorkerHolds, Backed
  <2> QED
    BY <2>2, <2>4, <2>5, <2>7, WorkerFact
<1>5. CASE LogStart(i)
  <2> DEFINE s == [store.scans EXCEPT ![i].state = IF @ = "queued" THEN "running" ELSE @]
  <2>1. PICK a \in AuditRow : a = workers[i].pass /\ Backed(a)
    BY <1>0, <1>5 DEF LogStart, WorkerHolds
  <2>2. Goto(i, "running", NoPass) /\ UNCHANGED <<asks, used>>
        /\ store' = [Logged(a) EXCEPT !.scans[i].state = IF @ = "queued" THEN "running" ELSE @]
    BY <1>5, <2>1 DEF LogStart
  <2>3. /\ workers' \in Seq(WorkerRow)
        /\ \E w \in WorkerRow : /\ workers' = [workers EXCEPT ![i] = w]
                                /\ w.at = "running" /\ w.pass = NoPass /\ w.row = workers[i].row
    BY <2>2, IdleFact, GotoFact
  <2>4. PICK w \in WorkerRow : workers' = [workers EXCEPT ![i] = w] /\ w.at = "running"
    BY <2>3
  <2>5. s \in Seq(ScanRow)
    <3>1. i \in DOMAIN store.scans =>
            [store.scans[i] EXCEPT !.state = IF @ = "queued" THEN "running" ELSE @] \in ScanRow
      <4> SUFFICES ASSUME i \in DOMAIN store.scans
          PROVE  [store.scans[i] EXCEPT !.state = IF @ = "queued" THEN "running" ELSE @] \in ScanRow
        OBVIOUS
      <4>1. store.scans[i] \in ScanRow
        BY <1>0
      <4> QED
        BY <4>1 DEF ScanRow
    <3> QED
      BY <1>0, <3>1, PutScan
  <2>6. store' = [store EXCEPT !.audit = @ \cup {a}, !.scans = s]
    BY <1>0, <2>2 DEF AccessStateOK, Logged
  <2> HIDE DEF s
  <2>7. AccessStateOK' /\ store'.audit = store.audit \cup {a} /\ store'.consents = store.consents
    BY <1>0, <2>3, <2>5, <2>6 DEF AccessStateOK
  <2>8. LogSteps
    BY <2>1, <2>7 DEF LogSteps
  <2>9. WorkerHolds(w)'
    BY <2>4 DEF WorkerHolds
  <2> QED
    BY <2>2, <2>4, <2>7, <2>8, <2>9, WorkerFact
<1>6. CASE Refused(i) \/ Launch(i)
  <2>1. PICK at \in {"running", "over"} : Goto(i, at, NoPass) /\ UNCHANGED <<store, asks>>
    BY <1>6 DEF Refused, Launch
  <2>2. /\ workers' \in Seq(WorkerRow)
        /\ \E w \in WorkerRow : /\ workers' = [workers EXCEPT ![i] = w]
                                /\ w.at = at /\ w.pass = NoPass /\ w.row = workers[i].row
    BY <2>1, IdleFact, GotoFact
  <2>3. PICK w \in WorkerRow : workers' = [workers EXCEPT ![i] = w] /\ w.at = at
    BY <2>2
  <2>4. LogSteps /\ AccessStateOK'
    BY <1>0, <2>1, <2>2 DEF AccessStateOK, LogSteps
  <2>5. WorkerHolds(w)'
    BY <2>3 DEF WorkerHolds
  <2>6. UNCHANGED used \/ \E x : used' = used \cup {x} /\ x.pass \in store'.audit /\ x.scope = x.pass.scope
    <3>1. CASE Refused(i)
      BY <3>1 DEF Refused
    <3>2. CASE Launch(i)
      <4> DEFINE x == [what |-> "tool", scope |-> workers[i].row, pass |-> workers[i].pass]
      <4>1. used' = used \cup {x} /\ x.pass \in store'.audit /\ x.scope = x.pass.scope
        BY <1>0, <2>1, <3>2 DEF Launch, Use, WorkerHolds
      <4> QED
        BY <4>1
    <3> QED
      BY <1>6, <3>1, <3>2
  <2> QED
    BY <2>1, <2>3, <2>4, <2>5, <2>6, WorkerFact
<1> QED
  BY <1>2, <1>3, <1>4, <1>5, <1>6

LEMMA AccessStep == AccessInv /\ [Next]_vars => AccessInv'
<1> SUFFICES ASSUME AccessInv, [Next]_vars PROVE AccessInv'
  OBVIOUS
<1>1. CASE UNCHANGED vars
  <2>1. LogSteps /\ AccessStateOK'
    BY <1>1 DEF vars, AccessInv, AccessStateOK, LogSteps
  <2> QED
    BY <1>1, <2>1, QuietFact DEF vars
<1>2. CASE Next
  BY <1>2, TargetStep, CreationStep, CheckStep, RequestStep, WorkerStep DEF Next
<1> QED
  BY <1>1, <1>2

\* A behaviour of another part uses nothing.
ScopeInv == (part = "scope" => AccessInv) /\ (part # "scope" => used = {})

LEMMA ScopePart == SuiteSpec => []ScopeInv
<1>1. SuiteInit => ScopeInv
  BY AccessInit DEF SuiteInit, NoScope, ScopeInv
<1>2. ScopeInv /\ [SuiteNext]_suiteVars => ScopeInv'
  <2> SUFFICES ASSUME ScopeInv, [SuiteNext]_suiteVars PROVE ScopeInv'
    OBVIOUS
  <2>1. CASE part = "scope"
    <3>1. part' = "scope" /\ [Next]_vars
      BY <2>1 DEF SuiteNext, suiteVars, vars
    <3>2. AccessInv
      BY <2>1 DEF ScopeInv
    <3> QED
      BY <3>1, <3>2, AccessStep DEF ScopeInv
  <2>2. CASE part # "scope"
    <3>1. part' = part /\ used' = used
      BY <2>2 DEF SuiteNext, suiteVars, vars
    <3> QED
      BY <2>2, <3>1 DEF ScopeInv
  <2> QED
    BY <2>1, <2>2
<1> QED
  BY <1>1, <1>2, PTL DEF SuiteSpec

\* preflight.py authorize_scan with every caller of it: a tool is launched, and
\* evidence is read by the routes that call it, only on a scope a consent was signed
\* for, and after the record of a check made before the consent expired; for any
\* number of requests, scans and consents, however the target changes meanwhile.
\* What the first API and the v2 audit read on a session alone is no such use.
THEOREM UsesAreAuthorized == SuiteSpec => []AuthorizedOnly
<1>1. AccessInv => AuthorizedOnly
  BY DEF AccessInv, LogBacked, UsesLogged, Backed, AuthorizedOnly
<1>2. used = {} => AuthorizedOnly
  BY DEF AuthorizedOnly
<1>3. ScopeInv => AuthorizedOnly
  BY <1>1, <1>2 DEF ScopeInv
<1> QED
  BY <1>3, ScopePart, PTL

-----------------------------------------------------------------------------
(* Numbers.                                                                  *)

\* Induction over the numbers in a set.
LEMMA NatsOf == ASSUME NEW S, 0 \in S, \A k \in Nat : k \in S => k + 1 \in S PROVE Nat \subseteq S
<1>1. PICK R : R = OpToRel(<, Nat) /\ IsWellFoundedOn(R, Nat)
  BY NatLessThanWellFounded, Zenon
<1> SUFFICES ASSUME NEW n \in Nat, n \notin S PROVE FALSE
  OBVIOUS
<1> DEFINE Out == {k \in Nat : k \notin S}
<1>2. Out # {} /\ Out \subseteq Nat
  OBVIOUS
<1>3. PICK m \in Out : \A k \in Out : ~(<<k, m>> \in R)
  <2> HIDE DEF Out
  <2> QED
    BY <1>1, <1>2, WFMin, Zenon
<1>4. \A k \in Nat : k < m => k \in S
  BY <1>1, <1>3 DEF OpToRel
<1>5. m # 0 /\ m - 1 \in Nat /\ m - 1 < m /\ m - 1 + 1 = m
  BY <1>3
<1> QED
  BY <1>3, <1>4, <1>5

\* A set of numbers below a bound has a greatest, one that is not empty a least.
LEMMA GreatestOf ==
  ASSUME NEW S \in SUBSET Nat, S # {}, NEW top \in Nat, \A x \in S : x <= top
  PROVE  \E x \in S : \A y \in S : y <= x
<1> DEFINE U == {k \in Nat : (\A x \in S : x <= k) => \E x \in S : \A y \in S : y <= x}
<1>1. 0 \in U
  <2> SUFFICES ASSUME \A x \in S : x <= 0 PROVE \E x \in S : \A y \in S : y <= x
    OBVIOUS
  <2>1. PICK x \in S : TRUE
    OBVIOUS
  <2>2. x = 0
    OBVIOUS
  <2> QED
    BY <2>2
<1>2. ASSUME NEW k \in Nat, k \in U PROVE k + 1 \in U
  <2> SUFFICES ASSUME \A x \in S : x <= k + 1 PROVE \E x \in S : \A y \in S : y <= x
    OBVIOUS
  <2>1. CASE k + 1 \in S
    BY <2>1
  <2>2. CASE k + 1 \notin S
    <3>1. \A x \in S : x <= k
      BY <2>2
    <3> QED
      BY <3>1, <1>2
  <2> QED
    BY <2>1, <2>2
<1> HIDE DEF U
<1>3. Nat \subseteq U
  BY <1>1, <1>2, NatsOf
<1> QED
  BY <1>3 DEF U

LEMMA LeastOf ==
  ASSUME NEW S \in SUBSET Nat, S # {}
  PROVE  \E x \in S : \A y \in S : x <= y
<1> DEFINE U == {k \in Nat : (\E x \in S : x <= k) => \E x \in S : \A y \in S : x <= y}
<1>1. 0 \in U
  <2> SUFFICES ASSUME NEW x \in S, x <= 0 PROVE \E z \in S : \A y \in S : z <= y
    OBVIOUS
  <2>1. \A y \in S : x <= y
    OBVIOUS
  <2> QED
    BY <2>1
<1>2. ASSUME NEW k \in Nat, k \in U PROVE k + 1 \in U
  <2> SUFFICES ASSUME NEW x \in S, x <= k + 1 PROVE \E z \in S : \A y \in S : z <= y
    OBVIOUS
  <2>1. CASE \E z \in S : z <= k
    BY <2>1, <1>2
  <2>2. CASE ~\E z \in S : z <= k
    <3>1. \A y \in S : x <= y
      BY <2>2
    <3> QED
      BY <3>1
  <2> QED
    BY <2>1, <2>2
<1> HIDE DEF U
<1>3. Nat \subseteq U
  BY <1>1, <1>2, NatsOf
<1>4. PICK x \in S : x \in U
  BY <1>3
<1> QED
  BY <1>4 DEF U

\* g begins with x and goes on with F up to n.
GoesOn(T, F, x, n, g) == g \in [0 .. n -> T] /\ g[0] = x /\ \A i \in 1 .. n : g[i] = F[<<g[i-1], i>>]

LEMMA UpTo ==
  ASSUME NEW T, NEW x \in T, NEW F \in [T \X (Nat \ {0}) -> T]
  PROVE  \A n \in Nat : \E g : GoesOn(T, F, x, n, g)
<1> DEFINE S == {n \in Nat : \E g : GoesOn(T, F, x, n, g)}
<1>1. 0 \in S
  <2>1. GoesOn(T, F, x, 0, [i \in 0 .. 0 |-> x])
    BY DEF GoesOn
  <2> QED
    BY <2>1
<1>2. ASSUME NEW n \in Nat, n \in S PROVE n + 1 \in S
  <2>1. PICK g : GoesOn(T, F, x, n, g)
    BY <1>2
  <2> DEFINE h == [i \in 0 .. n + 1 |-> IF i = n + 1 THEN F[<<g[n], n + 1>>] ELSE g[i]]
  <2>2. F[<<g[n], n + 1>>] \in T
    BY <2>1 DEF GoesOn
  <2>3. h \in [0 .. n + 1 -> T]
    BY <2>1, <2>2 DEF GoesOn
  <2>4. ASSUME NEW i \in 1 .. n + 1 PROVE h[i] = F[<<h[i-1], i>>]
    <3>1. CASE i = n + 1
      <4>1. i \in 0 .. n + 1 /\ i - 1 \in 0 .. n + 1 /\ i - 1 # n + 1 /\ i - 1 = n
        BY <3>1
      <4>2. h[i] = F[<<g[n], n + 1>>] /\ h[i-1] = g[n]
        BY <3>1, <4>1
      <4> QED
        BY <3>1, <4>2
    <3>2. CASE i # n + 1
      <4>1. i \in 0 .. n + 1 /\ i - 1 \in 0 .. n + 1 /\ i \in 1 .. n /\ i - 1 # n + 1
        BY <3>2
      <4>2. h[i] = g[i] /\ h[i-1] = g[i-1]
        BY <3>2, <4>1
      <4>3. g[i] = F[<<g[i-1], i>>]
        BY <2>1, <4>1 DEF GoesOn
      <4> QED
        BY <4>2, <4>3
    <3> QED
      BY <3>1, <3>2
  <2>5. h[0] = x
    BY <2>1 DEF GoesOn
  <2> HIDE DEF h
  <2>6. GoesOn(T, F, x, n + 1, h)
    BY <2>3, <2>4, <2>5 DEF GoesOn
  <2> QED
    BY <2>6
<1> HIDE DEF S
<1>3. Nat \subseteq S
  BY <1>1, <1>2, NatsOf
<1> QED
  BY <1>3 DEF S

-----------------------------------------------------------------------------
(* CaptureProxy *)

ProxyActs == {"forward"} \cup {r.act : r \in Rules}
ProxyDecision == [act : ProxyActs, modified : BOOLEAN, dropped : BOOLEAN, replay : BOOLEAN, hits : Nat]

\* What no rule matched is as it came.
ProxyDecisions == {d \in ProxyDecision : d.hits = 0 => ~d.dropped}

LEMMA ProxyFresh == Proxy!Fresh \in ProxyDecisions
<1>1. Proxy!Fresh.hits = 0 /\ ~Proxy!Fresh.dropped
  BY DEF Proxy!Fresh
<1>2. Proxy!Fresh \in ProxyDecision
  BY DEF Proxy!Fresh, ProxyDecision, ProxyActs
<1> QED
  BY <1>1, <1>2 DEF ProxyDecisions

LEMMA ProxyApply ==
  ASSUME NEW r \in Rules, NEW d \in ProxyDecisions
  PROVE  Proxy!Apply(r, d) \in ProxyDecisions
<1>1. d.hits \in Nat /\ d.modified \in BOOLEAN /\ d.replay \in BOOLEAN
  BY DEF ProxyDecisions, ProxyDecision
<1>2. r.act \in ProxyActs
  BY DEF ProxyActs
<1>3. (d.modified \/ r.act = "modify") \in BOOLEAN /\ (r.act = "drop") \in BOOLEAN /\ (d.replay \/ r.act = "replay") \in BOOLEAN
  OBVIOUS
<1>4. Proxy!Apply(r, d) \in ProxyDecision
  BY <1>1, <1>2, <1>3 DEF Proxy!Apply, ProxyDecision
<1>5. Proxy!Apply(r, d).hits # 0
  BY <1>1 DEF Proxy!Apply
<1> QED
  BY <1>4, <1>5 DEF ProxyDecisions

LEMMA ProxyEvaluates == ASSUME NEW rules \in Seq(Rules) PROVE Proxy!Evaluate(rules) \in ProxyDecisions
<1> DEFINE n == Len(rules)
           T == ProxyDecisions
           Next1(d, i) == IF d.dropped \/ ~Proxy!Matches(rules[i], d) THEN d ELSE Proxy!Apply(rules[i], d)
           F == [z \in T \X (Nat \ {0}) |-> IF z[2] \in 1 .. n THEN Next1(z[1], z[2]) ELSE z[1]]
           Is(g) == g = [i \in 0 .. n |-> IF i = 0 THEN Proxy!Fresh
                         ELSE IF g[i-1].dropped \/ ~Proxy!Matches(rules[i], g[i-1]) THEN g[i-1]
                         ELSE Proxy!Apply(rules[i], g[i-1])]
<1>1. n \in Nat /\ \A i \in 1 .. n : rules[i] \in Rules
  OBVIOUS
<1>2. \A d \in T, i \in 1 .. n : Next1(d, i) \in T
  <2> HIDE DEF T
  <2> SUFFICES ASSUME NEW d \in T, NEW i \in 1 .. n PROVE Next1(d, i) \in T
    OBVIOUS
  <2>1. Proxy!Apply(rules[i], d) \in T
    BY <1>1, ProxyApply DEF T
  <2> QED
    BY <2>1
<1>3. F \in [T \X (Nat \ {0}) -> T]
  <2> HIDE DEF T, Next1
  <2> QED
    BY <1>2
<1>4. PICK g : GoesOn(T, F, Proxy!Fresh, n, g)
  <2>1. Proxy!Fresh \in T
    BY ProxyFresh
  <2> HIDE DEF T, F, n
  <2> QED
    BY <1>1, <1>3, <2>1, UpTo
<1>5. Is(g)
  <2>1. ASSUME NEW i \in 0 .. n, i # 0 PROVE F[<<g[i-1], i>>] = Next1(g[i-1], i)
    <3>1. g[i-1] \in T /\ i \in 1 .. n /\ i \in Nat \ {0}
      <4> HIDE DEF T, F
      <4> QED
        BY <1>4, <2>1, <1>1 DEF GoesOn
    <3> HIDE DEF T, Next1
    <3> QED
      BY <3>1
  <2> HIDE DEF F, T
  <2> QED
    BY <1>4, <2>1 DEF GoesOn
<1>6. PICK d : d = (CHOOSE h : Is(h))
  OBVIOUS
<1>7. Is(d)
  BY <1>5, <1>6
<1>8. Proxy!Evaluate(rules) = d[n]
  BY <1>6 DEF Proxy!Evaluate
<1>9. \A i \in 0 .. n : d[i] = IF i = 0 THEN Proxy!Fresh ELSE Next1(d[i-1], i)
  <2>1. ASSUME NEW i \in 0 .. n PROVE d[i] = IF i = 0 THEN Proxy!Fresh ELSE Next1(d[i-1], i)
    <3> HIDE DEF T
    <3> QED
      BY <1>7, <2>1
  <2> QED
    BY <2>1
<1> DEFINE S == {k \in Nat : k <= n => d[k] \in T}
<1>10. 0 \in S
  BY <1>1, <1>9, ProxyFresh
<1>11. ASSUME NEW k \in Nat, k \in S PROVE k + 1 \in S
  <2>1. CASE k + 1 <= n
    <3>1. d[k] \in T /\ k + 1 \in 1 .. n /\ k + 1 \in 0 .. n /\ (k + 1) - 1 = k /\ k + 1 # 0
      BY <1>1, <1>11, <2>1
    <3>2. Next1(d[k], k + 1) \in T
      BY <1>2, <3>1
    <3>3. d[k + 1] = Next1(d[k], k + 1)
      <4> HIDE DEF T, Next1
      <4> QED
        BY <1>9, <3>1
    <3> HIDE DEF T, Next1
    <3> QED
      BY <3>2, <3>3
  <2>2. CASE ~(k + 1 <= n)
    BY <2>2
  <2> QED
    BY <2>1, <2>2
<1>12. n \in S
  <2> HIDE DEF S
  <2> QED
    BY <1>1, <1>10, <1>11, NatsOf
<1> HIDE DEF T
<1> QED
  BY <1>1, <1>8, <1>12 DEF T

ProxyAts == {"new", "announce", "forward", "response", "insert", "publish", "over", "killed"}
ProxyRow(f) == [flow |-> f, modified |-> proc.wire[f] = "modified"]
ProxySays == [flow : Proxied, topic : {"intercepted", "replay", "skipped", "captured", "error"}, modified : BOOLEAN]

ProxyTyped ==
  /\ db \in [target : BOOLEAN, rows : SUBSET [flow : Proxied, modified : BOOLEAN]]
  /\ mem \in [rules : Seq(Rules), scoped : BOOLEAN, sink : BOOLEAN, said : SUBSET ProxySays]
  /\ proc \in [at : [Proxied -> ProxyAts], verdict : [Proxied -> ProxyDecisions],
               wire : [Proxied -> {"none", "modified", "original"}], mapped : [Proxied -> BOOLEAN]]

\* What is past its request was not dropped, what is to be stored has a target,
\* what is to be announced is stored unless its target is gone.
ProxyPlace(f) ==
  /\ proc.at[f] \in {"forward", "response", "insert", "publish", "over"} => ~proc.verdict[f].dropped
  /\ proc.at[f] \in {"insert", "publish"} => proc.mapped[f]
  /\ proc.at[f] = "publish" /\ db.target => ProxyRow(f) \in db.rows

ProxyRows ==
  /\ \A r \in db.rows : proc.at[r.flow] \notin {"new", "announce", "killed"} /\ proc.mapped[r.flow]
  /\ db.target => \A e \in mem.said : e.topic = "captured" =>
       [flow |-> e.flow, modified |-> e.modified] \in db.rows

ProxyInv == ProxyTyped /\ (\A f \in Proxied : ProxyPlace(f)) /\ ProxyRows

LEMMA ProxyInit == ASSUME Proxy!Init PROVE ProxyInv
<1>1. ProxyTyped
  <2>1. db \in [target : BOOLEAN, rows : SUBSET [flow : Proxied, modified : BOOLEAN]]
    BY DEF Proxy!Init
  <2>2. mem \in [rules : Seq(Rules), scoped : BOOLEAN, sink : BOOLEAN, said : SUBSET ProxySays]
    BY DEF Proxy!Init
  <2>3. [f \in Proxied |-> Proxy!Fresh] \in [Proxied -> ProxyDecisions]
    BY ProxyFresh
  <2>4. /\ [f \in Proxied |-> "new"] \in [Proxied -> ProxyAts]
        /\ [f \in Proxied |-> "none"] \in [Proxied -> {"none", "modified", "original"}]
        /\ [f \in Proxied |-> FALSE] \in [Proxied -> BOOLEAN]
    BY DEF ProxyAts
  <2>5. PICK a \in [Proxied -> ProxyAts], v \in [Proxied -> ProxyDecisions],
             w \in [Proxied -> {"none", "modified", "original"}], m \in [Proxied -> BOOLEAN] :
          proc = [at |-> a, verdict |-> v, wire |-> w, mapped |-> m]
    BY <2>3, <2>4 DEF Proxy!Init
  <2> QED
    BY <2>1, <2>2, <2>5 DEF ProxyTyped
<1>2. \A f \in Proxied : proc.at[f] = "new"
  BY DEF Proxy!Init
<1>3. db.rows = {} /\ mem.said = {}
  BY DEF Proxy!Init
<1> QED
  BY <1>1, <1>2, <1>3 DEF ProxyInv, ProxyPlace, ProxyRows

\* The fields of the state.
LEMMA ProxyFields ==
  ASSUME ProxyInv
  PROVE  /\ db = [target |-> db.target, rows |-> db.rows] /\ db.target \in BOOLEAN
         /\ db.rows \in SUBSET [flow : Proxied, modified : BOOLEAN]
         /\ mem = [rules |-> mem.rules, scoped |-> mem.scoped, sink |-> mem.sink, said |-> mem.said]
         /\ mem.rules \in Seq(Rules) /\ mem.scoped \in BOOLEAN /\ mem.sink \in BOOLEAN /\ mem.said \in SUBSET ProxySays
         /\ proc = [at |-> proc.at, verdict |-> proc.verdict, wire |-> proc.wire, mapped |-> proc.mapped]
         /\ proc.at \in [Proxied -> ProxyAts] /\ proc.verdict \in [Proxied -> ProxyDecisions]
         /\ proc.wire \in [Proxied -> {"none", "modified", "original"}] /\ proc.mapped \in [Proxied -> BOOLEAN]
  BY DEF ProxyInv, ProxyTyped

\* Something is said that is not a capture, and a flow goes on.
LEMMA ProxyGoesOn ==
  ASSUME ProxyInv, NEW f \in Proxied, NEW a \in ProxyAts, UNCHANGED db,
         proc' = [proc EXCEPT !.at[f] = a], proc.at[f] # "new",
         NEW E \in SUBSET ProxySays, mem' = mem \/ mem' = [mem EXCEPT !.said = @ \cup E],
         \A e \in E : e.topic = "captured" /\ db.target => [flow |-> e.flow, modified |-> e.modified] \in db.rows,
         a \notin {"new", "announce", "insert", "publish"},
         a = "killed" => proc.at[f] = "announce",
         a # "killed" => ~proc.verdict[f].dropped
  PROVE  ProxyInv'
<1>1. /\ proc'.at = [proc.at EXCEPT ![f] = a] /\ proc'.verdict = proc.verdict
      /\ proc'.wire = proc.wire /\ proc'.mapped = proc.mapped
      /\ proc' = [at |-> proc'.at, verdict |-> proc'.verdict, wire |-> proc'.wire, mapped |-> proc'.mapped]
  BY ProxyFields
<1>2. /\ mem'.rules = mem.rules /\ mem'.scoped = mem.scoped /\ mem'.sink = mem.sink
      /\ mem'.said \in {mem.said, mem.said \cup E}
      /\ mem' = [rules |-> mem'.rules, scoped |-> mem'.scoped, sink |-> mem'.sink, said |-> mem'.said]
  BY ProxyFields
<1>3. proc'.at \in [Proxied -> ProxyAts] /\ proc'.at[f] = a /\ \A g \in Proxied \ {f} : proc'.at[g] = proc.at[g]
  BY <1>1, ProxyFields
<1>4. ProxyTyped'
  <2>1. mem'.said \in SUBSET ProxySays
    BY <1>2, ProxyFields
  <2>2. mem' \in [rules : Seq(Rules), scoped : BOOLEAN, sink : BOOLEAN, said : SUBSET ProxySays]
    BY <1>2, <2>1, ProxyFields
  <2>3. proc' \in [at : [Proxied -> ProxyAts], verdict : [Proxied -> ProxyDecisions],
                   wire : [Proxied -> {"none", "modified", "original"}], mapped : [Proxied -> BOOLEAN]]
    BY <1>1, <1>3, ProxyFields
  <2> QED
    BY <2>2, <2>3 DEF ProxyTyped, ProxyInv
<1>5. ASSUME NEW g \in Proxied PROVE ProxyPlace(g)'
  BY <1>1, <1>3 DEF ProxyInv, ProxyPlace, ProxyRow
<1>6. ProxyRows'
  <2>1. \A r \in db.rows : r.flow \in Proxied /\ proc.at[r.flow] \notin {"new", "announce", "killed"} /\ proc.mapped[r.flow]
    BY ProxyFields DEF ProxyInv, ProxyRows
  <2>2. \A r \in db'.rows : proc'.at[r.flow] \notin {"new", "announce", "killed"} /\ proc'.mapped[r.flow]
    BY <1>1, <1>3, <2>1
  <2>3. ASSUME db'.target, NEW e \in mem'.said, e.topic = "captured"
        PROVE  [flow |-> e.flow, modified |-> e.modified] \in db'.rows
    BY <1>2, <2>3 DEF ProxyInv, ProxyRows
  <2> QED
    BY <2>2, <2>3 DEF ProxyRows
<1> QED
  BY <1>4, <1>5, <1>6 DEF ProxyInv

\* Around the hooks: nothing of the flows changes, and rows go only with their
\* target.
LEMMA ProxyAround ==
  ASSUME ProxyInv, UNCHANGED proc, ProxyTyped', mem'.said = mem.said,
         db' = db \/ (~db'.target /\ db'.rows = {})
  PROVE  ProxyInv'
<1>1. ASSUME NEW g \in Proxied PROVE ProxyPlace(g)'
  BY DEF ProxyInv, ProxyPlace, ProxyRow
<1>2. ProxyRows'
  BY DEF ProxyInv, ProxyRows
<1> QED
  BY <1>1, <1>2 DEF ProxyInv

LEMMA ProxyRequest == ASSUME ProxyInv, NEW f \in Proxied, Proxy!Request(f) PROVE ProxyInv'
<1> DEFINE d == IF mem.scoped THEN Proxy!Evaluate(mem.rules) ELSE Proxy!Fresh
           a == IF d.hits > 0 THEN "announce" ELSE "forward"
           w == IF d.act = "modify" THEN "modified" ELSE "original"
<1>1. d \in ProxyDecisions
  BY ProxyFields, ProxyEvaluates, ProxyFresh
<1>2. proc.at[f] = "new" /\ UNCHANGED <<db, mem>>
      /\ proc' = [proc EXCEPT !.at[f] = a, !.verdict[f] = d, !.wire[f] = w]
  BY DEF Proxy!Request
<1>3. a \in ProxyAts /\ w \in {"modified", "original"} /\ (a = "forward" => ~d.dropped) /\ a \in {"announce", "forward"}
  BY <1>1 DEF ProxyAts, ProxyDecisions, ProxyDecision
<1> HIDE DEF d, a, w
<1>4. /\ proc'.at = [proc.at EXCEPT ![f] = a] /\ proc'.verdict = [proc.verdict EXCEPT ![f] = d]
      /\ proc'.wire = [proc.wire EXCEPT ![f] = w] /\ proc'.mapped = proc.mapped
      /\ proc' = [at |-> proc'.at, verdict |-> proc'.verdict, wire |-> proc'.wire, mapped |-> proc'.mapped]
  BY <1>2, ProxyFields
<1>5. /\ proc'.at \in [Proxied -> ProxyAts] /\ proc'.verdict \in [Proxied -> ProxyDecisions]
      /\ proc'.wire \in [Proxied -> {"none", "modified", "original"}]
  BY <1>1, <1>3, <1>4, ProxyFields
<1>6. proc'.at[f] = a /\ proc'.verdict[f] = d
      /\ \A g \in Proxied \ {f} : proc'.at[g] = proc.at[g] /\ proc'.verdict[g] = proc.verdict[g] /\ proc'.wire[g] = proc.wire[g]
  BY <1>4, ProxyFields
<1>7. ProxyTyped'
  <2>1. proc' \in [at : [Proxied -> ProxyAts], verdict : [Proxied -> ProxyDecisions],
                   wire : [Proxied -> {"none", "modified", "original"}], mapped : [Proxied -> BOOLEAN]]
    BY <1>4, <1>5, ProxyFields
  <2> QED
    BY <1>2, <2>1 DEF ProxyTyped, ProxyInv
<1>8. ASSUME NEW g \in Proxied PROVE ProxyPlace(g)'
  <2>1. CASE g = f
    BY <1>3, <1>6, <2>1 DEF ProxyPlace
  <2>2. CASE g # f
    BY <1>2, <1>4, <1>6, <2>2 DEF ProxyInv, ProxyPlace, ProxyRow
  <2> QED
    BY <2>1, <2>2
<1>9. ProxyRows'
  <2>1. \A r \in db.rows : r.flow \in Proxied /\ proc.at[r.flow] # "new"
    BY ProxyFields DEF ProxyInv, ProxyRows
  <2>2. \A r \in db.rows : r.flow \in Proxied \ {f}
    BY <1>2, <2>1
  <2> QED
    BY <1>2, <1>4, <1>6, <2>2 DEF ProxyInv, ProxyRows
<1> QED
  BY <1>7, <1>8, <1>9 DEF ProxyInv

LEMMA ProxyResolve == ASSUME ProxyInv, NEW f \in Proxied, Proxy!Resolve(f) PROVE ProxyInv'
<1>1. CASE mem.scoped /\ db.target
  <2>1. proc.at[f] = "response" /\ UNCHANGED <<db, mem>> /\ proc' = [proc EXCEPT !.at[f] = "insert", !.mapped[f] = TRUE]
    BY <1>1 DEF Proxy!Resolve, Proxy!Quiet
  <2>2. /\ proc'.at = [proc.at EXCEPT ![f] = "insert"] /\ proc'.verdict = proc.verdict
        /\ proc'.wire = proc.wire /\ proc'.mapped = [proc.mapped EXCEPT ![f] = TRUE]
        /\ proc' = [at |-> proc'.at, verdict |-> proc'.verdict, wire |-> proc'.wire, mapped |-> proc'.mapped]
    BY <2>1, ProxyFields
  <2>3. proc'.at \in [Proxied -> ProxyAts] /\ proc'.mapped \in [Proxied -> BOOLEAN]
    BY <2>2, ProxyFields DEF ProxyAts
  <2>4. proc'.at[f] = "insert" /\ proc'.mapped[f]
        /\ \A g \in Proxied \ {f} : proc'.at[g] = proc.at[g] /\ proc'.mapped[g] = proc.mapped[g]
    BY <2>2, ProxyFields
  <2>5. ProxyTyped'
    <3>1. proc' \in [at : [Proxied -> ProxyAts], verdict : [Proxied -> ProxyDecisions],
                     wire : [Proxied -> {"none", "modified", "original"}], mapped : [Proxied -> BOOLEAN]]
      BY <2>2, <2>3, ProxyFields
    <3> QED
      BY <2>1, <3>1 DEF ProxyTyped, ProxyInv
  <2>6. ASSUME NEW g \in Proxied PROVE ProxyPlace(g)'
    <3>1. CASE g = f
      BY <2>1, <2>2, <2>4, <3>1 DEF ProxyInv, ProxyPlace
    <3>2. CASE g # f
      BY <2>1, <2>2, <2>4, <3>2 DEF ProxyInv, ProxyPlace, ProxyRow
    <3> QED
      BY <3>1, <3>2
  <2>7. ProxyRows'
    <3>1. \A r \in db.rows : r.flow \in Proxied
      BY ProxyFields
    <3> QED
      BY <2>1, <2>4, <3>1 DEF ProxyInv, ProxyRows
  <2> QED
    BY <2>5, <2>6, <2>7 DEF ProxyInv
<1>2. CASE ~(mem.scoped /\ db.target)
  <2> DEFINE E == {[flow |-> f, topic |-> "skipped", modified |-> FALSE]}
  <2>1. proc.at[f] = "response" /\ UNCHANGED db /\ proc' = [proc EXCEPT !.at[f] = "over"]
        /\ (mem' = mem \/ mem' = [mem EXCEPT !.said = @ \cup E])
    BY <1>2 DEF Proxy!Resolve, Proxy!Publish
  <2>2. E \in SUBSET ProxySays /\ \A e \in E : e.topic # "captured"
    BY DEF ProxySays
  <2>3. ~proc.verdict[f].dropped
    BY <2>1 DEF ProxyInv, ProxyPlace
  <2>4. "over" \in ProxyAts
    BY DEF ProxyAts
  <2> HIDE DEF E
  <2> QED
    BY <2>1, <2>2, <2>3, <2>4, ProxyGoesOn
<1> QED
  BY <1>1, <1>2

LEMMA ProxyInsert == ASSUME ProxyInv, NEW f \in Proxied, Proxy!Insert(f) PROVE ProxyInv'
<1>1. CASE db.target
  <2>1. proc.at[f] = "insert" /\ UNCHANGED mem /\ proc' = [proc EXCEPT !.at[f] = "publish"]
        /\ db' = [db EXCEPT !.rows = db.rows \cup {ProxyRow(f)}]
    BY <1>1 DEF Proxy!Insert, Proxy!Quiet, ProxyRow
  <2>2. /\ proc'.at = [proc.at EXCEPT ![f] = "publish"] /\ proc'.verdict = proc.verdict
        /\ proc'.wire = proc.wire /\ proc'.mapped = proc.mapped
        /\ proc' = [at |-> proc'.at, verdict |-> proc'.verdict, wire |-> proc'.wire, mapped |-> proc'.mapped]
    BY <2>1, ProxyFields
  <2>3. proc'.at \in [Proxied -> ProxyAts] /\ proc'.at[f] = "publish" /\ \A g \in Proxied \ {f} : proc'.at[g] = proc.at[g]
    BY <2>2, ProxyFields DEF ProxyAts
  <2>4. ProxyRow(f) \in [flow : Proxied, modified : BOOLEAN] /\ ProxyRow(f).flow = f
    BY DEF ProxyRow
  <2>5. db'.target = db.target /\ db'.rows = db.rows \cup {ProxyRow(f)} /\ db' = [target |-> db'.target, rows |-> db'.rows]
    BY <2>1, ProxyFields
  <2>6. ProxyTyped'
    <3>1. proc' \in [at : [Proxied -> ProxyAts], verdict : [Proxied -> ProxyDecisions],
                     wire : [Proxied -> {"none", "modified", "original"}], mapped : [Proxied -> BOOLEAN]]
      BY <2>2, <2>3, ProxyFields
    <3>2. db' \in [target : BOOLEAN, rows : SUBSET [flow : Proxied, modified : BOOLEAN]]
      BY <2>4, <2>5, ProxyFields
    <3> QED
      BY <2>1, <3>1, <3>2 DEF ProxyTyped, ProxyInv
  <2>7. ASSUME NEW g \in Proxied PROVE ProxyPlace(g)'
    <3>0. ProxyRow(g)' = ProxyRow(g)
      BY <2>2 DEF ProxyRow
    <3>1. CASE g = f
      BY <3>0, <2>1, <2>2, <2>3, <2>5, <3>1 DEF ProxyInv, ProxyPlace
    <3>2. CASE g # f
      BY <3>0, <2>1, <2>2, <2>3, <2>5, <3>2 DEF ProxyInv, ProxyPlace
    <3> QED
      BY <3>1, <3>2
  <2>8. ProxyRows'
    <3>1. \A r \in db.rows : r.flow \in Proxied
      BY ProxyFields
    <3>2. proc.mapped[f]
      BY <2>1 DEF ProxyInv, ProxyPlace
    <3>3. \A r \in db'.rows : proc'.at[r.flow] \notin {"new", "announce", "killed"} /\ proc'.mapped[r.flow]
      BY <2>2, <2>3, <2>4, <2>5, <3>1, <3>2 DEF ProxyInv, ProxyRows
    <3>4. db'.target => \A e \in mem'.said : e.topic = "captured" => [flow |-> e.flow, modified |-> e.modified] \in db'.rows
      BY <2>1, <2>5 DEF ProxyInv, ProxyRows
    <3> QED
      BY <3>3, <3>4 DEF ProxyRows
  <2> QED
    BY <2>6, <2>7, <2>8 DEF ProxyInv
<1>2. CASE ~db.target
  <2> DEFINE E == {[flow |-> f, topic |-> "error", modified |-> FALSE]}
  <2>1. proc.at[f] = "insert" /\ UNCHANGED db /\ proc' = [proc EXCEPT !.at[f] = "over"]
        /\ (mem' = mem \/ mem' = [mem EXCEPT !.said = @ \cup E])
    BY <1>2 DEF Proxy!Insert, Proxy!Publish
  <2>2. E \in SUBSET ProxySays /\ \A e \in E : e.topic # "captured"
    BY DEF ProxySays
  <2>3. ~proc.verdict[f].dropped
    BY <2>1 DEF ProxyInv, ProxyPlace
  <2>4. "over" \in ProxyAts
    BY DEF ProxyAts
  <2> HIDE DEF E
  <2> QED
    BY <2>1, <2>2, <2>3, <2>4, ProxyGoesOn
<1> QED
  BY <1>1, <1>2

LEMMA ProxyStep == ASSUME ProxyInv, [Proxy!Next]_(Proxy!vars) PROVE ProxyInv'
<1>1. CASE UNCHANGED Proxy!vars
  <2>1. ProxyTyped'
    BY <1>1 DEF ProxyInv, ProxyTyped, Proxy!vars
  <2> QED
    BY <1>1, <2>1, ProxyAround DEF Proxy!vars
<1>2. ASSUME NEW f \in Proxied, Proxy!Request(f) PROVE ProxyInv'
  BY <1>2, ProxyRequest
<1>3. ASSUME NEW f \in Proxied, Proxy!Announce(f) PROVE ProxyInv'
  <2> DEFINE d == proc.verdict[f]
             E == {[flow |-> f, topic |-> "intercepted", modified |-> d.modified /\ ~d.dropped]} \cup
                  (IF d.replay /\ ~d.dropped THEN {[flow |-> f, topic |-> "replay", modified |-> FALSE]} ELSE {})
             a == IF d.dropped THEN "killed" ELSE "forward"
  <2>1. proc.at[f] = "announce" /\ UNCHANGED db /\ proc' = [proc EXCEPT !.at[f] = a]
        /\ (mem' = mem \/ mem' = [mem EXCEPT !.said = @ \cup E])
    <3>1. proc.at[f] = "announce" /\ UNCHANGED db /\ proc' = [proc EXCEPT !.at[f] = a] /\ Proxy!Publish(E)
      BY <1>3 DEF Proxy!Announce
    <3>2. Proxy!Publish(E) => mem' = mem \/ mem' = [mem EXCEPT !.said = @ \cup E]
      <4> HIDE DEF E
      <4> QED
        BY DEF Proxy!Publish
    <3> QED
      BY <3>1, <3>2
  <2>2. E \in SUBSET ProxySays /\ \A e \in E : e.topic # "captured"
    <3>1. PICK m \in BOOLEAN : m = (d.modified /\ ~d.dropped)
      OBVIOUS
    <3>2. E \subseteq {[flow |-> f, topic |-> "intercepted", modified |-> m], [flow |-> f, topic |-> "replay", modified |-> FALSE]}
      <4> DEFINE one == [flow |-> f, topic |-> "intercepted", modified |-> d.modified /\ ~d.dropped]
                 two == [flow |-> f, topic |-> "replay", modified |-> FALSE]
      <4>1. one = [flow |-> f, topic |-> "intercepted", modified |-> m]
        BY <3>1
      <4>2. E = {one} \cup (IF d.replay /\ ~d.dropped THEN {two} ELSE {})
        OBVIOUS
      <4> HIDE DEF one, two, E
      <4>3. E \subseteq {one, two}
        BY <4>2
      <4> QED
        BY <4>1, <4>3 DEF two
    <3>3. /\ [flow |-> f, topic |-> "intercepted", modified |-> m] \in ProxySays
          /\ [flow |-> f, topic |-> "replay", modified |-> FALSE] \in ProxySays
          /\ [flow |-> f, topic |-> "intercepted", modified |-> m].topic # "captured"
          /\ [flow |-> f, topic |-> "replay", modified |-> FALSE].topic # "captured"
      BY DEF ProxySays
    <3> HIDE DEF E
    <3> QED
      BY <3>2, <3>3
  <2>3. a \in ProxyAts /\ a \in {"killed", "forward"} /\ (a # "killed" => ~proc.verdict[f].dropped)
    BY DEF ProxyAts
  <2> HIDE DEF E, a
  <2> QED
    BY <2>1, <2>2, <2>3, ProxyGoesOn
<1>4. ASSUME NEW f \in Proxied, Proxy!Answer(f) PROVE ProxyInv'
  <2>1. PICK a \in {"response", "over"} : proc' = [proc EXCEPT !.at[f] = a]
    BY <1>4 DEF Proxy!Answer
  <2>2. proc.at[f] = "forward" /\ UNCHANGED <<db, mem>> /\ a \in ProxyAts
    BY <1>4 DEF Proxy!Answer, ProxyAts
  <2>3. ~proc.verdict[f].dropped
    BY <2>2 DEF ProxyInv, ProxyPlace
  <2>4. {} \in SUBSET ProxySays /\ mem' = mem /\ UNCHANGED db
    BY <2>2
  <2> DEFINE E == {}
  <2>5. E \in SUBSET ProxySays /\ \A e \in E : e.topic # "captured"
    OBVIOUS
  <2> HIDE DEF E
  <2> QED
    BY <2>1, <2>2, <2>3, <2>4, <2>5, ProxyGoesOn
<1>5. ASSUME NEW f \in Proxied, Proxy!Resolve(f) PROVE ProxyInv'
  BY <1>5, ProxyResolve
<1>6. ASSUME NEW f \in Proxied, Proxy!Insert(f) PROVE ProxyInv'
  BY <1>6, ProxyInsert
<1>7. ASSUME NEW f \in Proxied, Proxy!PublishCaptured(f) PROVE ProxyInv'
  <2> DEFINE E == {Proxy!Captured(f)}
  <2>1. proc.at[f] = "publish" /\ UNCHANGED db /\ proc' = [proc EXCEPT !.at[f] = "over"]
        /\ (mem' = mem \/ mem' = [mem EXCEPT !.said = @ \cup E])
    BY <1>7 DEF Proxy!PublishCaptured, Proxy!Publish
  <2>2. E \in SUBSET ProxySays /\ \A e \in E : [flow |-> e.flow, modified |-> e.modified] = ProxyRow(f)
    BY DEF ProxySays, Proxy!Captured, ProxyRow
  <2>3. ~proc.verdict[f].dropped /\ (db.target => ProxyRow(f) \in db.rows)
    BY <2>1 DEF ProxyInv, ProxyPlace
  <2>4. "over" \in ProxyAts
    BY DEF ProxyAts
  <2> HIDE DEF E
  <2> QED
    BY <2>1, <2>2, <2>3, <2>4, ProxyGoesOn
<1>8. ASSUME NEW f \in Proxied, Proxy!WebSocketMessage(f) PROVE ProxyInv'
  <2>1. proc' = [proc EXCEPT !.at[f] = "response"] /\ proc.at[f] = "over" /\ UNCHANGED <<db, mem>>
    BY <1>8 DEF Proxy!WebSocketMessage
  <2>2. "response" \in ProxyAts /\ {} \in SUBSET ProxySays
    BY DEF ProxyAts
  <2>3. ~proc.verdict[f].dropped
    BY <2>1 DEF ProxyInv, ProxyPlace
  <2>4. mem' = mem /\ UNCHANGED db
    BY <2>1
  <2> DEFINE E == {}
  <2>5. E \in SUBSET ProxySays /\ \A e \in E : e.topic # "captured"
    OBVIOUS
  <2> HIDE DEF E
  <2> QED
    BY <2>1, <2>2, <2>3, <2>4, <2>5, ProxyGoesOn
<1>9. ASSUME NEW s \in Seq(Rules), mem' = [mem EXCEPT !.rules = s], UNCHANGED <<db, proc>> PROVE ProxyInv'
  <2>1. mem' = [rules |-> s, scoped |-> mem.scoped, sink |-> mem.sink, said |-> mem.said]
    BY <1>9, ProxyFields
  <2>2. ProxyTyped'
    BY <1>9, <2>1, ProxyFields DEF ProxyInv, ProxyTyped
  <2> QED
    BY <1>9, <2>1, <2>2, ProxyAround
<1>10. ASSUME NEW r \in Rules, Proxy!AddRule(r) PROVE ProxyInv'
  <2>1. Append(mem.rules, r) \in Seq(Rules)
    BY ProxyFields
  <2> QED
    BY <1>9, <1>10, <2>1 DEF Proxy!AddRule
<1>11. ASSUME NEW i \in 1 .. MaxRules, Proxy!RemoveRule(i) PROVE ProxyInv'
  <2>1. i \in 1 .. Len(mem.rules)
    BY <1>11, ProxyFields DEF Proxy!RemoveRule
  <2>2. SubSeq(mem.rules, 1, i-1) \in Seq(Rules) /\ SubSeq(mem.rules, i+1, Len(mem.rules)) \in Seq(Rules)
    BY <2>1, ProxyFields
  <2>3. SubSeq(mem.rules, 1, i-1) \o SubSeq(mem.rules, i+1, Len(mem.rules)) \in Seq(Rules)
    BY <2>2
  <2> QED
    BY <1>9, <1>11, <2>3 DEF Proxy!RemoveRule
<1>12. CASE Proxy!Narrow
  <2>1. mem' = [rules |-> mem.rules, scoped |-> FALSE, sink |-> mem.sink, said |-> mem.said]
    BY <1>12, ProxyFields DEF Proxy!Narrow
  <2>2. ProxyTyped'
    BY <1>12, <2>1, ProxyFields DEF Proxy!Narrow, ProxyInv, ProxyTyped
  <2> QED
    BY <1>12, <2>1, <2>2, ProxyAround DEF Proxy!Narrow
<1>13. CASE Proxy!LoseSink
  <2>1. mem' = [rules |-> mem.rules, scoped |-> mem.scoped, sink |-> FALSE, said |-> mem.said]
    BY <1>13, ProxyFields DEF Proxy!LoseSink
  <2>2. ProxyTyped'
    BY <1>13, <2>1, ProxyFields DEF Proxy!LoseSink, ProxyInv, ProxyTyped
  <2> QED
    BY <1>13, <2>1, <2>2, ProxyAround DEF Proxy!LoseSink
<1>14. CASE Proxy!DeleteTarget
  <2>1. ProxyTyped'
    BY <1>14 DEF Proxy!DeleteTarget, ProxyInv, ProxyTyped
  <2> QED
    BY <1>14, <2>1, ProxyAround DEF Proxy!DeleteTarget
<1> QED
  BY <1>1, <1>2, <1>3, <1>4, <1>5, <1>6, <1>7, <1>8, <1>10, <1>11, <1>12, <1>13, <1>14 DEF Proxy!Next

LEMMA ProxyHolds == ASSUME ProxyInv PROVE Proxy!CapturedWasSent
<1>1. \A r \in db.rows : r.flow \in Proxied /\ proc.at[r.flow] \in ProxyAts
  BY ProxyFields
<1>2. \A r \in db.rows : ~proc.verdict[r.flow].dropped /\ proc.mapped[r.flow]
  BY <1>1 DEF ProxyInv, ProxyPlace, ProxyRows, ProxyAts
<1> QED
  BY <1>2 DEF ProxyInv, ProxyRows, Proxy!CapturedWasSent

LEMMA ProxyPart == SuiteSpec => [](part = "proxy" => ProxyInv)
<1>1. SuiteInit => (part = "proxy" => ProxyInv)
  BY ProxyInit DEF SuiteInit
<1>2. (part = "proxy" => ProxyInv) /\ [SuiteNext]_suiteVars => (part = "proxy" => ProxyInv)'
  <2> SUFFICES ASSUME part = "proxy", ProxyInv, [SuiteNext]_suiteVars PROVE ProxyInv'
    BY DEF SuiteNext, suiteVars
  <2>1. [Proxy!Next]_(Proxy!vars)
    BY DEF SuiteNext, suiteVars, state, Proxy!vars
  <2> QED
    BY <2>1, ProxyStep
<1> QED
  BY <1>1, <1>2, PTL DEF SuiteSpec

\* mitm_addon.py: what is stored was forwarded and belonged to a target, and what
\* is announced as captured was stored; for any rules and flows.
THEOREM CapturedWasAlwaysSent == SuiteSpec => []CapturedWasSent
<1>1. (part = "proxy" => ProxyInv) => CapturedWasSent
  BY ProxyHolds DEF CapturedWasSent
<1> QED
  BY <1>1, ProxyPart, PTL

-----------------------------------------------------------------------------
(* Web3Audit *)

Web3Names == {"sourcify", "etherscan", "blockscout", "routescout"}
Web3Tries == [block : Nat, by : Web3Names, outcome : {"error", "miss", "verified"}]
Web3Rows == [block : Nat, code : Nat, by : Web3Names \cup {"bytecode-only"}, disasm : Nat, over : Nat, tried : SUBSET Web3Tries]
Web3Jobs == [at : {"idle", "code", "fetch", "disassemble"}, block : Nat, code : Nat, next : 1 .. 5,
             by : Web3Names \cup {"bytecode-only"}, tried : SUBSET Web3Tries]
Web3Seen == Web3!MythrilObservations \cup Web3!SourceObservations

Web3Typed ==
  /\ db = [head |-> db.head, fetchers |-> db.fetchers, rows |-> db.rows, seen |-> db.seen, graph |-> db.graph]
  /\ db.head \in Nat /\ db.fetchers \subseteq 1 .. 4
  /\ db.rows \in Seq(Web3Rows) /\ db.seen \in Seq(Web3Seen)
  /\ proc \in [Jobs -> Web3Jobs]

\* The audit of a fetcher, and of all configured ones before the n-th.
Web3Tried(tried, block, k, how) ==
  \E a \in tried : a.block = block /\ a.by = Web3!Order[k] /\ a.outcome \in how
Web3Missed(tried, block, n) ==
  \A k \in db.fetchers : k < n => Web3Tried(tried, block, k, {"error", "miss"})

\* Where a source came from: the first configured fetcher that had one, or none.
Web3Source(by, tried, block) ==
  \/ by = "bytecode-only" /\ Web3Missed(tried, block, 5)
  \/ \E n \in db.fetchers : /\ by = Web3!Order[n] /\ Web3Missed(tried, block, n)
                            /\ Web3Tried(tried, block, n, {"verified"})

Web3Work(j) ==
  /\ proc[j].at = "code" => proc[j].by = "bytecode-only" /\ proc[j].next = 1
  /\ proc[j].at \in {"fetch", "disassemble"} => proc[j].code = proc[j].block
  /\ proc[j].at = "fetch" => proc[j].by = "bytecode-only" /\ Web3Missed(proc[j].tried, proc[j].block, proc[j].next)
  /\ proc[j].at = "disassemble" => Web3Source(proc[j].by, proc[j].tried, proc[j].block)

Web3Recorded ==
  \A i \in DOMAIN db.rows :
    /\ db.rows[i].code = db.rows[i].block /\ db.rows[i].disasm = db.rows[i].block
    /\ Web3Source(db.rows[i].by, db.rows[i].tried, db.rows[i].block)

Web3Graph ==
  \A n \in db.graph :
    /\ n.run \in DOMAIN db.seen
    /\ n.finding.severity \in Web3!Severe =>
         \/ \E e, f \in n.finding.engines : e # f
         \/ db.seen[n.run].located

Web3Inv == Web3Typed /\ (\A j \in Jobs : Web3Work(j)) /\ Web3Recorded /\ Web3Graph

LEMMA Web3Order ==
  /\ DOMAIN Web3!Order = 1 .. 4
  /\ \A k \in 1 .. 4 : Web3!Order[k] \in Web3Names /\ Web3!Order[k] # "bytecode-only"
  /\ \A k, n \in 1 .. 4 : Web3!Order[k] = Web3!Order[n] => k = n
<1>1. Web3!Order[1] = "sourcify" /\ Web3!Order[2] = "etherscan" /\ Web3!Order[3] = "blockscout" /\ Web3!Order[4] = "routescout"
  BY DEF Web3!Order
<1>2. DOMAIN Web3!Order = 1 .. 4
  BY DEF Web3!Order
<1>3. \A k \in 1 .. 4 : k = 1 \/ k = 2 \/ k = 3 \/ k = 4
  OBVIOUS
<1> QED
  BY <1>1, <1>2, <1>3 DEF Web3Names

LEMMA Web3Fields ==
  ASSUME Web3Inv, NEW j \in Jobs
  PROVE  /\ proc[j].block \in Nat /\ proc[j].code \in Nat /\ proc[j].next \in 1 .. 5
         /\ proc[j].by \in Web3Names \cup {"bytecode-only"} /\ proc[j].tried \in SUBSET Web3Tries
         /\ proc[j] = [at |-> proc[j].at, block |-> proc[j].block, code |-> proc[j].code, next |-> proc[j].next,
                       by |-> proc[j].by, tried |-> proc[j].tried]
<1>1. proc[j] \in Web3Jobs
  BY DEF Web3Inv, Web3Typed
<1> QED
  BY <1>1 DEF Web3Jobs

LEMMA Web3Init == ASSUME Web3!Init PROVE Web3Inv
<1>1. PICK f \in SUBSET {1, 3} : db = [head |-> 1, fetchers |-> f, rows |-> <<>>, seen |-> <<>>, graph |-> {}]
  BY DEF Web3!Init
<1>2. Web3!Quiet \in Web3Jobs
  BY DEF Web3!Quiet, Web3Jobs
<1>3. Web3Typed
  BY <1>1, <1>2 DEF Web3!Init, Web3Typed
<1>4. \A j \in Jobs : Web3Work(j)
  BY DEF Web3!Init, Web3Work, Web3!Quiet
<1>5. Web3Recorded /\ Web3Graph
  BY <1>1 DEF Web3Recorded, Web3Graph
<1> QED
  BY <1>3, <1>4, <1>5 DEF Web3Inv

\* A resolution moves.
LEMMA Web3Moves ==
  ASSUME Web3Inv, NEW j \in Jobs, NEW r \in Web3Jobs, Web3!Move(j, r), UNCHANGED db,
         r.at \in {"fetch", "disassemble"} => r.code = r.block,
         r.at = "code" => r.by = "bytecode-only" /\ r.next = 1,
         r.at = "fetch" => r.by = "bytecode-only" /\ Web3Missed(r.tried, r.block, r.next),
         r.at = "disassemble" => Web3Source(r.by, r.tried, r.block)
  PROVE  Web3Inv'
<1>1. proc' = [proc EXCEPT ![j] = r] /\ proc \in [Jobs -> Web3Jobs]
  BY DEF Web3!Move, Web3Inv, Web3Typed
<1>2. proc' \in [Jobs -> Web3Jobs] /\ proc'[j] = r /\ \A i \in Jobs \ {j} : proc'[i] = proc[i]
  BY <1>1
<1>3. Web3Typed'
  BY <1>2 DEF Web3Inv, Web3Typed
<1>4. Web3Recorded' /\ Web3Graph'
  BY DEF Web3Inv, Web3Recorded, Web3Graph, Web3Source, Web3Missed
<1>5. \A t, b, n : Web3Missed(t, b, n)' <=> Web3Missed(t, b, n)
  BY DEF Web3Missed
<1>6. \A y, t, b : Web3Source(y, t, b)' <=> Web3Source(y, t, b)
  BY DEF Web3Source, Web3Missed
<1>7. ASSUME NEW i \in Jobs PROVE Web3Work(i)'
  <2>1. CASE i = j
    BY <1>2, <1>5, <1>6, <2>1 DEF Web3Work
  <2>2. CASE i # j
    BY <1>2, <1>5, <1>6, <2>2 DEF Web3Inv, Web3Work
  <2> QED
    BY <2>1, <2>2
<1> QED
  BY <1>3, <1>4, <1>7 DEF Web3Inv

LEMMA Web3Quiet == Web3!Quiet \in Web3Jobs /\ Web3!Quiet.at = "idle"
  BY DEF Web3!Quiet, Web3Jobs

\* What an update of some fields of a resolution makes of it.
Web3IsJob(p) == p = [at |-> p.at, block |-> p.block, code |-> p.code, next |-> p.next, by |-> p.by, tried |-> p.tried]

LEMMA Web3AtUpdate ==
  ASSUME NEW p, Web3IsJob(p)
  PROVE  \A u : [p EXCEPT !.at = u]
           = [at |-> u, block |-> p.block, code |-> p.code, next |-> p.next, by |-> p.by, tried |-> p.tried]
  BY DEF Web3IsJob

LEMMA Web3NextUpdate ==
  ASSUME NEW p, Web3IsJob(p)
  PROVE  \A u : [p EXCEPT !.next = u]
           = [at |-> p.at, block |-> p.block, code |-> p.code, next |-> u, by |-> p.by, tried |-> p.tried]
  BY DEF Web3IsJob

LEMMA Web3PinnedUpdate ==
  ASSUME NEW p, Web3IsJob(p)
  PROVE  \A u, v : [p EXCEPT !.at = u, !.block = v]
           = [at |-> u, block |-> v, code |-> p.code, next |-> p.next, by |-> p.by, tried |-> p.tried]
<1> TAKE u, v
<1>1. PICK q1 : q1 = [p EXCEPT !.at = u]
  OBVIOUS
<1>2. q1 = [at |-> u, block |-> p.block, code |-> p.code, next |-> p.next, by |-> p.by, tried |-> p.tried]
  BY <1>1 DEF Web3IsJob
<1>3. PICK q2 : q2 = [q1 EXCEPT !.block = v]
  OBVIOUS
<1>4. q2 = [at |-> u, block |-> v, code |-> p.code, next |-> p.next, by |-> p.by, tried |-> p.tried]
  BY <1>3, <1>2
<1> QED
  BY <1>1, <1>2, <1>3, <1>4

LEMMA Web3CodeUpdate ==
  ASSUME NEW p, Web3IsJob(p)
  PROVE  \A u, v : [p EXCEPT !.at = u, !.code = v]
           = [at |-> u, block |-> p.block, code |-> v, next |-> p.next, by |-> p.by, tried |-> p.tried]
<1> TAKE u, v
<1>1. PICK q1 : q1 = [p EXCEPT !.at = u]
  OBVIOUS
<1>2. q1 = [at |-> u, block |-> p.block, code |-> p.code, next |-> p.next, by |-> p.by, tried |-> p.tried]
  BY <1>1 DEF Web3IsJob
<1>3. PICK q2 : q2 = [q1 EXCEPT !.code = v]
  OBVIOUS
<1>4. q2 = [at |-> u, block |-> p.block, code |-> v, next |-> p.next, by |-> p.by, tried |-> p.tried]
  BY <1>3, <1>2
<1> QED
  BY <1>1, <1>2, <1>3, <1>4

LEMMA Web3TriedUpdate ==
  ASSUME NEW p, Web3IsJob(p)
  PROVE  \A u, v : [p EXCEPT !.next = u, !.tried = v]
           = [at |-> p.at, block |-> p.block, code |-> p.code, next |-> u, by |-> p.by, tried |-> v]
<1> TAKE u, v
<1>1. PICK q1 : q1 = [p EXCEPT !.next = u]
  OBVIOUS
<1>2. q1 = [at |-> p.at, block |-> p.block, code |-> p.code, next |-> u, by |-> p.by, tried |-> p.tried]
  BY <1>1 DEF Web3IsJob
<1>3. PICK q2 : q2 = [q1 EXCEPT !.tried = v]
  OBVIOUS
<1>4. q2 = [at |-> p.at, block |-> p.block, code |-> p.code, next |-> u, by |-> p.by, tried |-> v]
  BY <1>3, <1>2
<1> QED
  BY <1>1, <1>2, <1>3, <1>4

LEMMA Web3FoundUpdate ==
  ASSUME NEW p, Web3IsJob(p)
  PROVE  \A u, v, w : [p EXCEPT !.at = u, !.by = v, !.tried = w]
           = [at |-> u, block |-> p.block, code |-> p.code, next |-> p.next, by |-> v, tried |-> w]
<1> TAKE u, v, w
<1>1. PICK q1 : q1 = [p EXCEPT !.at = u]
  OBVIOUS
<1>2. q1 = [at |-> u, block |-> p.block, code |-> p.code, next |-> p.next, by |-> p.by, tried |-> p.tried]
  BY <1>1 DEF Web3IsJob
<1>3. PICK q2 : q2 = [q1 EXCEPT !.by = v]
  OBVIOUS
<1>4. q2 = [at |-> u, block |-> p.block, code |-> p.code, next |-> p.next, by |-> v, tried |-> p.tried]
  BY <1>3, <1>2
<1>5. PICK q3 : q3 = [q2 EXCEPT !.tried = w]
  OBVIOUS
<1>6. q3 = [at |-> u, block |-> p.block, code |-> p.code, next |-> p.next, by |-> v, tried |-> w]
  BY <1>5, <1>4
<1> QED
  BY <1>1, <1>2, <1>3, <1>4, <1>5, <1>6

LEMMA Web3Job == ASSUME Web3Inv, NEW j \in Jobs PROVE Web3IsJob(proc[j]) /\ proc[j].next \in 1 .. 5
  BY Web3Fields DEF Web3IsJob

LEMMA Web3Domain == DOMAIN Web3!Order = 1 .. 4
  BY Web3Order

LEMMA Web3Pins == ASSUME Web3Inv, NEW j \in Jobs, Web3!PinBlock(j) PROVE Web3Inv'
<1>1. PICK h \in Nat : h = db.head
  BY DEF Web3Inv, Web3Typed
<1>2. PICK r : r = [at |-> "code", block |-> h, code |-> 0, next |-> 1, by |-> "bytecode-only", tried |-> {}]
  OBVIOUS
<1>3. r \in Web3Jobs /\ r.at = "code"
  BY <1>2 DEF Web3Jobs
<1>4. [Web3!Quiet EXCEPT !.at = "code", !.block = h] = r
  <2>1. PICK q : q = Web3!Quiet
    OBVIOUS
  <2>2. Web3IsJob(q) /\ q.code = 0 /\ q.next = 1 /\ q.by = "bytecode-only" /\ q.tried = {}
    BY <2>1 DEF Web3IsJob, Web3!Quiet
  <2>3. PICK q1 : q1 = [q EXCEPT !.at = "code"]
    OBVIOUS
  <2>4. q1 = [at |-> "code", block |-> q.block, code |-> 0, next |-> 1, by |-> "bytecode-only", tried |-> {}]
    BY <2>2, <2>3 DEF Web3IsJob
  <2>5. PICK q2 : q2 = [q1 EXCEPT !.block = h]
    OBVIOUS
  <2>6. q2 = [at |-> "code", block |-> h, code |-> 0, next |-> 1, by |-> "bytecode-only", tried |-> {}]
    BY <2>4, <2>5
  <2>7. [q EXCEPT !.at = "code", !.block = h] = q2
    BY <2>3, <2>5
  <2> QED
    BY <1>2, <2>1, <2>6, <2>7
<1>5. Web3!Move(j, r) /\ UNCHANGED db
  BY <1>1, <1>4 DEF Web3!PinBlock
<1>6. r.by = "bytecode-only" /\ r.next = 1
  BY <1>2
<1> QED
  BY <1>3, <1>5, <1>6, Web3Moves

LEMMA Web3Codes == ASSUME Web3Inv, NEW j \in Jobs, Web3!GetCode(j) PROVE Web3Inv'
<1> DEFINE p == proc[j]
<1>1. PICK r : r = [at |-> "fetch", block |-> p.block, code |-> p.block, next |-> p.next, by |-> p.by, tried |-> p.tried]
  OBVIOUS
<1>2. [p EXCEPT !.at = "fetch", !.code = p.block] = r
  BY <1>1, Web3Job, Web3CodeUpdate, Zenon
<1>3. Web3!Move(j, r) /\ UNCHANGED db /\ p.at = "code"
  BY <1>2 DEF Web3!GetCode, Web3!At
<1>4. r \in Web3Jobs /\ r.at = "fetch" /\ r.code = r.block
  BY <1>1, Web3Fields DEF Web3Jobs
<1>5. r.by = "bytecode-only" /\ r.next = 1
  BY <1>1, <1>3 DEF Web3Inv, Web3Work
<1>6. Web3Missed(r.tried, r.block, 1)
  BY DEF Web3Missed, Web3Inv, Web3Typed
<1> QED
  BY <1>3, <1>4, <1>5, <1>6, Web3Moves

LEMMA Web3FallsBack == ASSUME Web3Inv, NEW j \in Jobs, Web3!FallBack(j) PROVE Web3Inv'
<1> DEFINE p == proc[j]
<1>1. PICK r : r = [at |-> "disassemble", block |-> p.block, code |-> p.code, next |-> p.next, by |-> p.by, tried |-> p.tried]
  OBVIOUS
<1>2. [p EXCEPT !.at = "disassemble"] = r
  BY <1>1, Web3Job, Web3AtUpdate, Zenon
<1>3. Web3!Move(j, r) /\ UNCHANGED db /\ p.at = "fetch" /\ p.next \notin DOMAIN Web3!Order
  BY <1>2 DEF Web3!FallBack, Web3!At
<1>4. p.next = 5
  BY <1>3, Web3Domain, Web3Job
<1>5. r \in Web3Jobs /\ r.at = "disassemble"
  BY <1>1, Web3Fields DEF Web3Jobs
<1>6. r.code = r.block /\ Web3Source(r.by, r.tried, r.block)
  BY <1>1, <1>3, <1>4 DEF Web3Inv, Web3Work, Web3Source
<1> QED
  BY <1>3, <1>5, <1>6, Web3Moves

LEMMA Web3Fetches == ASSUME Web3Inv, NEW j \in Jobs, Web3!Fetch(j) PROVE Web3Inv'
<1> DEFINE p == proc[j]
<1>1. /\ p.at = "fetch" /\ p.next \in DOMAIN Web3!Order /\ UNCHANGED db
  BY DEF Web3!Fetch, Web3!At
<1>2. /\ p.next \in 1 .. 4 /\ p.next + 1 \in 1 .. 5 /\ Web3!Order[p.next] \in Web3Names
      /\ p.block \in Nat /\ p.code = p.block /\ p.by = "bytecode-only" /\ p.tried \in SUBSET Web3Tries
      /\ Web3Missed(p.tried, p.block, p.next)
  <2>1. p.next \in 1 .. 4
    BY <1>1, Web3Domain
  <2>2. p.next + 1 \in 1 .. 5
    BY <2>1
  <2>3. Web3!Order[p.next] \in Web3Names
    BY <2>1, Web3Order
  <2>4. p.code = p.block /\ p.by = "bytecode-only" /\ Web3Missed(p.tried, p.block, p.next)
    BY <1>1 DEF Web3Inv, Web3Work
  <2> QED
    BY <2>1, <2>2, <2>3, <2>4, Web3Fields
<1>3. \A how \in {"error", "miss", "verified"} :
         /\ Web3!Attempt(j, how) = [block |-> p.block, by |-> Web3!Order[p.next], outcome |-> how]
         /\ Web3!Attempt(j, how) \in Web3Tries
  BY <1>2 DEF Web3!Attempt, Web3Tries
<1>4. \A s, t : s \subseteq t => \A n : Web3Missed(s, p.block, n) => Web3Missed(t, p.block, n)
  BY DEF Web3Missed, Web3Tried
<1>5. db.fetchers \subseteq 1 .. 4
  BY DEF Web3Inv, Web3Typed
<1>6. CASE p.next \notin db.fetchers /\ Web3!Move(j, [p EXCEPT !.next = @ + 1])
  <2>1. PICK r : r = [at |-> "fetch", block |-> p.block, code |-> p.code, next |-> p.next + 1, by |-> p.by, tried |-> p.tried]
    OBVIOUS
  <2>2. [p EXCEPT !.next = p.next + 1] = r
    BY <1>1, <2>1, Web3Job, Web3NextUpdate, Zenon
  <2>3. Web3!Move(j, r)
    BY <1>6, <2>2
  <2>4. r \in Web3Jobs /\ r.at = "fetch" /\ r.code = r.block /\ r.by = "bytecode-only"
    BY <1>2, <2>1, Web3Fields DEF Web3Jobs
  <2>5. Web3Missed(p.tried, p.block, p.next + 1)
    BY <1>2, <1>5, <1>6 DEF Web3Missed
  <2>6. Web3Missed(r.tried, r.block, r.next)
    BY <2>1, <2>5
  <2> QED
    BY <1>1, <2>3, <2>4, <2>6, Web3Moves
<1>7. ASSUME NEW how \in {"error", "miss"}, p.next \in db.fetchers,
             Web3!Move(j, [p EXCEPT !.next = @ + 1, !.tried = @ \cup {Web3!Attempt(j, how)}])
      PROVE  Web3Inv'
  <2>1. PICK t : t = p.tried \cup {Web3!Attempt(j, how)}
    OBVIOUS
  <2>2. PICK r : r = [at |-> p.at, block |-> p.block, code |-> p.code, next |-> p.next + 1, by |-> p.by, tried |-> t]
    OBVIOUS
  <2>3. [p EXCEPT !.next = p.next + 1, !.tried = t] = r
    BY <2>2, Web3Job, Web3TriedUpdate
  <2>4. Web3!Move(j, r)
    BY <1>7, <2>1, <2>3
  <2>5. t \in SUBSET Web3Tries
    BY <1>2, <1>3, <2>1
  <2>6. r \in Web3Jobs /\ r.at = "fetch" /\ r.code = r.block /\ r.by = "bytecode-only"
    BY <1>1, <1>2, <2>2, <2>5, Web3Fields DEF Web3Jobs
  <2>7. Web3Tried(t, p.block, p.next, {"error", "miss"})
    BY <1>3, <1>7, <2>1 DEF Web3Tried
  <2>8. Web3Missed(t, p.block, p.next)
    BY <1>2, <1>4, <2>1
  <2>9. Web3Missed(t, p.block, p.next + 1)
    BY <1>2, <1>5, <2>7, <2>8 DEF Web3Missed
  <2>10. Web3Missed(r.tried, r.block, r.next)
    BY <2>2, <2>9
  <2> QED
    BY <1>1, <2>4, <2>6, <2>10, Web3Moves
<1>8. ASSUME p.next \in db.fetchers,
             Web3!Move(j, [p EXCEPT !.at = "disassemble", !.by = Web3!Order[p.next], !.tried = @ \cup {Web3!Attempt(j, "verified")}])
      PROVE  Web3Inv'
  <2>1. PICK t : t = p.tried \cup {Web3!Attempt(j, "verified")}
    OBVIOUS
  <2>2. PICK r : r = [at |-> "disassemble", block |-> p.block, code |-> p.code, next |-> p.next, by |-> Web3!Order[p.next], tried |-> t]
    OBVIOUS
  <2>3. [p EXCEPT !.at = "disassemble", !.by = Web3!Order[p.next], !.tried = t] = r
    BY <2>2, Web3Job, Web3FoundUpdate
  <2>4. Web3!Move(j, r)
    BY <1>8, <2>1, <2>3
  <2>5. t \in SUBSET Web3Tries
    BY <1>2, <1>3, <2>1
  <2>6. r \in Web3Jobs /\ r.at = "disassemble" /\ r.code = r.block
    BY <1>2, <2>2, <2>5, Web3Fields DEF Web3Jobs
  <2>7. Web3Tried(t, p.block, p.next, {"verified"})
    BY <1>3, <2>1 DEF Web3Tried
  <2>8. Web3Missed(t, p.block, p.next)
    BY <1>2, <1>4, <2>1
  <2>9. Web3Source(Web3!Order[p.next], t, p.block)
    BY <1>8, <2>7, <2>8 DEF Web3Source
  <2>10. Web3Source(r.by, r.tried, r.block)
    BY <2>2, <2>9
  <2> QED
    BY <1>1, <2>4, <2>6, <2>10, Web3Moves
<1>9. CASE Web3!Move(j, Web3!Quiet)
  BY <1>1, <1>9, Web3Quiet, Web3Moves
<1> QED
  BY <1>6, <1>7, <1>8, <1>9 DEF Web3!Fetch

\* What the resolutions and the rows say is kept when neither they nor the
\* fetchers change.
LEMMA Web3Keeps ==
  ASSUME Web3Inv, UNCHANGED proc, db'.fetchers = db.fetchers, db'.rows = db.rows
  PROVE  (\A j \in Jobs : Web3Work(j)') /\ Web3Recorded'
<1>1. \A t, b, n : Web3Missed(t, b, n)' <=> Web3Missed(t, b, n)
  BY DEF Web3Missed
<1>2. \A y, t, b : Web3Source(y, t, b)' <=> Web3Source(y, t, b)
  BY DEF Web3Source, Web3Missed
<1> QED
  BY <1>1, <1>2 DEF Web3Inv, Web3Work, Web3Recorded

LEMMA Web3Records == ASSUME Web3Inv, NEW j \in Jobs, Web3!Record(j) PROVE Web3Inv'
<1> DEFINE p == proc[j]
           n == Len(db.rows)
<1>1. PICK row : row = [block |-> p.block, code |-> p.code, by |-> p.by, disasm |-> p.code, over |-> Len(db.rows), tried |-> p.tried]
  OBVIOUS
<1>2. p.at = "disassemble" /\ db' = [db EXCEPT !.rows = Append(db.rows, row)] /\ Web3!Move(j, Web3!Quiet)
  BY <1>1 DEF Web3!Record, Web3!At
<1>3. db.rows \in Seq(Web3Rows) /\ n \in Nat
  BY DEF Web3Inv, Web3Typed
<1>4. row \in Web3Rows
  <2>1. p.block \in Nat /\ p.code \in Nat /\ p.by \in Web3Names \cup {"bytecode-only"} /\ p.tried \in SUBSET Web3Tries
    BY Web3Fields
  <2> QED
    BY <1>1, <1>3, <2>1 DEF Web3Rows
<1>5. row.code = row.block /\ row.disasm = row.block /\ Web3Source(row.by, row.tried, row.block)
  BY <1>1, <1>2 DEF Web3Inv, Web3Work
<1>6. /\ db' = [head |-> db.head, fetchers |-> db.fetchers, rows |-> Append(db.rows, row), seen |-> db.seen, graph |-> db.graph]
  BY <1>2 DEF Web3Inv, Web3Typed
<1>7. db'.head = db.head /\ db'.fetchers = db.fetchers /\ db'.rows = Append(db.rows, row) /\ db'.seen = db.seen /\ db'.graph = db.graph
  BY <1>6
<1>8. /\ db'.rows \in Seq(Web3Rows) /\ DOMAIN db'.rows = 1 .. n + 1 /\ DOMAIN db.rows = 1 .. n
      /\ (\A i \in 1 .. n : db'.rows[i] = db.rows[i]) /\ db'.rows[n + 1] = row
  BY <1>3, <1>4, <1>7
<1>9. proc' = [proc EXCEPT ![j] = Web3!Quiet] /\ proc \in [Jobs -> Web3Jobs]
  BY <1>2 DEF Web3!Move, Web3Inv, Web3Typed
<1>10. proc' \in [Jobs -> Web3Jobs] /\ proc'[j].at = "idle" /\ \A i \in Jobs \ {j} : proc'[i] = proc[i]
  BY <1>9, Web3Quiet
<1>11. Web3Typed'
  BY <1>6, <1>7, <1>8, <1>10 DEF Web3Inv, Web3Typed
<1>12. \A t, b, m : Web3Missed(t, b, m)' <=> Web3Missed(t, b, m)
  BY <1>7 DEF Web3Missed
<1>13. \A y, t, b : Web3Source(y, t, b)' <=> Web3Source(y, t, b)
  BY <1>7 DEF Web3Source, Web3Missed
<1>14. ASSUME NEW i \in Jobs PROVE Web3Work(i)'
  <2>1. CASE i = j
    BY <1>10, <2>1 DEF Web3Work
  <2>2. CASE i # j
    BY <1>10, <1>12, <1>13, <2>2 DEF Web3Inv, Web3Work
  <2> QED
    BY <2>1, <2>2
<1>15. Web3Recorded'
  <2>1. ASSUME NEW i \in 1 .. n + 1
        PROVE  /\ db'.rows[i].code = db'.rows[i].block /\ db'.rows[i].disasm = db'.rows[i].block
               /\ Web3Source(db'.rows[i].by, db'.rows[i].tried, db'.rows[i].block)
    <3>1. CASE i = n + 1
      BY <1>5, <1>8, <3>1
    <3>2. CASE i # n + 1
      <4>1. i \in 1 .. n
        BY <1>3, <3>2
      <4> QED
        BY <1>8, <4>1 DEF Web3Inv, Web3Recorded
    <3> QED
      BY <3>1, <3>2
  <2> QED
    BY <1>8, <1>13, <2>1 DEF Web3Recorded
<1>16. Web3Graph'
  BY <1>7 DEF Web3Inv, Web3Graph
<1> QED
  BY <1>11, <1>14, <1>15, <1>16 DEF Web3Inv

\* i comes before j in the choice of the best observation.
Web3Before(i, j) ==
  \/ db.seen[i].sure > db.seen[j].sure
  \/ db.seen[i].sure = db.seen[j].sure /\ Web3!Levels[db.seen[i].severity] > Web3!Levels[db.seen[j].severity]
  \/ db.seen[i].sure = db.seen[j].sure /\ db.seen[i].severity = db.seen[j].severity /\ i < j

LEMMA Web3Level ==
  ASSUME Web3Inv, NEW i \in DOMAIN db.seen
  PROVE  /\ db.seen[i].sure \in Nat /\ db.seen[i].severity \in {"low", "high"} /\ i \in Nat
         /\ db.seen[i].located \in BOOLEAN
<1>1. db.seen \in Seq(Web3Seen)
  BY DEF Web3Inv, Web3Typed
<1>2. i \in Nat /\ db.seen[i] \in Web3Seen
  BY <1>1
<1>3. \A o \in Web3Seen : o.sure \in 1 .. 2 /\ o.severity \in {"low", "high"} /\ o.located \in BOOLEAN
  BY DEF Web3Seen, Web3!MythrilObservations, Web3!SourceObservations
<1> QED
  BY <1>2, <1>3

LEMMA Web3Levels == Web3!Levels["low"] = 1 /\ Web3!Levels["high"] = 3
  BY DEF Web3!Levels

LEMMA Web3Total ==
  ASSUME Web3Inv, NEW i \in DOMAIN db.seen, NEW j \in DOMAIN db.seen, i # j
  PROVE  Web3Before(i, j) \/ Web3Before(j, i)
<1>1. db.seen[i].sure \in Nat /\ db.seen[j].sure \in Nat /\ i \in Nat /\ j \in Nat
  BY Web3Level
<1>2. db.seen[i].severity \in {"low", "high"} /\ db.seen[j].severity \in {"low", "high"}
  BY Web3Level
<1> QED
  BY <1>1, <1>2, Web3Levels DEF Web3Before

LEMMA Web3Transitive ==
  ASSUME Web3Inv, NEW i \in DOMAIN db.seen, NEW j \in DOMAIN db.seen, NEW k \in DOMAIN db.seen,
         Web3Before(i, j), Web3Before(j, k)
  PROVE  Web3Before(i, k)
<1>1. db.seen[i].sure \in Nat /\ db.seen[j].sure \in Nat /\ db.seen[k].sure \in Nat /\ i \in Nat /\ j \in Nat /\ k \in Nat
  BY Web3Level
<1>2. db.seen[i].severity \in {"low", "high"} /\ db.seen[j].severity \in {"low", "high"} /\ db.seen[k].severity \in {"low", "high"}
  BY Web3Level
<1> QED
  BY <1>1, <1>2, Web3Levels DEF Web3Before

LEMMA Web3BestIsThere ==
  ASSUME Web3Inv, NEW g \in SUBSET DOMAIN db.seen, g # {}
  PROVE  Web3!Best(g) \in g
<1> DEFINE Leads(h, i) == \A j \in h \ {i} : Web3Before(i, j)
           S == {n \in Nat : \A h \in SUBSET DOMAIN db.seen : h # {} /\ h \subseteq 1 .. n => \E i \in h : Leads(h, i)}
<1>1. 0 \in S
  OBVIOUS
<1>2. ASSUME NEW n \in Nat, n \in S PROVE n + 1 \in S
  <2> SUFFICES ASSUME NEW h \in SUBSET DOMAIN db.seen, h # {}, h \subseteq 1 .. n + 1 PROVE \E i \in h : Leads(h, i)
    OBVIOUS
  <2>1. CASE n + 1 \notin h
    <3>1. h \subseteq 1 .. n
      BY <2>1
    <3> QED
      BY <1>2, <3>1
  <2>2. CASE h \ {n + 1} = {}
    <3>1. h = {n + 1}
      BY <2>2
    <3> QED
      BY <3>1
  <2>3. CASE n + 1 \in h /\ h \ {n + 1} # {}
    <3> DEFINE k == h \ {n + 1}
    <3>1. k \in SUBSET DOMAIN db.seen /\ k # {} /\ k \subseteq 1 .. n
      BY <2>3
    <3>2. PICK i \in k : Leads(k, i)
      <4> HIDE DEF k, Leads
      <4> QED
        BY <1>2, <3>1
    <3>3. i \in DOMAIN db.seen /\ n + 1 \in DOMAIN db.seen /\ i # n + 1 /\ i \in h
      BY <2>3, <3>2
    <3>4. CASE Web3Before(i, n + 1)
      <4>1. \A j \in h \ {i} : Web3Before(i, j)
        BY <3>2, <3>4
      <4> QED
        BY <3>3, <4>1
    <3>5. CASE Web3Before(n + 1, i)
      <4>1. ASSUME NEW j \in h \ {n + 1} PROVE Web3Before(n + 1, j)
        <5>1. CASE j = i
          BY <3>5, <5>1
        <5>2. CASE j # i
          <6>1. Web3Before(i, j) /\ j \in DOMAIN db.seen
            BY <3>2, <5>2
          <6> QED
            BY <3>3, <3>5, <6>1, Web3Transitive
        <5> QED
          BY <5>1, <5>2
      <4> QED
        BY <2>3, <4>1
    <3> QED
      BY <3>3, <3>4, <3>5, Web3Total
  <2> QED
    BY <2>1, <2>2, <2>3
<1>3. Len(db.seen) \in S
  <2>1. Len(db.seen) \in Nat
    BY DEF Web3Inv, Web3Typed
  <2> HIDE DEF S
  <2> QED
    BY <1>1, <1>2, <2>1, NatsOf
<1>4. g \subseteq 1 .. Len(db.seen)
  BY DEF Web3Inv, Web3Typed
<1>5. PICK i \in g : Leads(g, i)
  <2> HIDE DEF Leads
  <2> QED
    BY <1>3, <1>4
<1>6. Web3!Best(g) = CHOOSE x \in g : Leads(g, x)
  BY DEF Web3!Best, Web3Before
<1> HIDE DEF Leads
<1> QED
  BY <1>5, <1>6

\* A merged finding that is grave has two engines or a source.
LEMMA Web3Merged ==
  ASSUME Web3Inv, NEW place \in BOOLEAN, NEW run \in Web3!Group(place), Web3!Merged(Web3!Group(place)).severity \in Web3!Severe
  PROVE  \/ \E e, f \in Web3!Merged(Web3!Group(place)).engines : e # f
         \/ db.seen[run].located
<1> DEFINE g == Web3!Group(place)
<1>1. g \in SUBSET DOMAIN db.seen /\ g # {} /\ run \in g /\ \A i \in g : db.seen[i].located = place
  BY DEF Web3!Group
<1>2. Web3!Best(g) \in g
  BY <1>1, Web3BestIsThere
<1>3. Web3!Merged(g).engines = Web3!Engines(g)
  BY DEF Web3!Merged
<1>4. Web3!Merged(g).severity = IF db.seen[Web3!Best(g)].severity \in Web3!Severe /\ ~Web3!Corroborated(g) /\ ~db.seen[Web3!Best(g)].located
                           THEN "medium" ELSE db.seen[Web3!Best(g)].severity
  BY DEF Web3!Merged
<1>5. "medium" \notin Web3!Severe
  BY DEF Web3!Severe
<1>6. Web3!Corroborated(g) \/ db.seen[Web3!Best(g)].located
  BY <1>4, <1>5
<1>7. Web3!Corroborated(g) => \E e, f \in Web3!Engines(g) : e # f
  BY DEF Web3!Corroborated, Web3!Engines
<1>8. db.seen[Web3!Best(g)].located => db.seen[run].located
  BY <1>1, <1>2
<1> QED
  BY <1>3, <1>6, <1>7, <1>8

LEMMA Web3Runs == ASSUME Web3Inv, Web3!RunEngine PROVE Web3Inv'
<1> DEFINE n == Len(db.seen)
<1>1. PICK o \in Web3Seen : db' = [db EXCEPT !.seen = Append(db.seen, o)]
  BY DEF Web3!RunEngine, Web3Seen
<1>2. proc' = proc
  BY DEF Web3!RunEngine
<1>3. db' = [head |-> db.head, fetchers |-> db.fetchers, rows |-> db.rows, seen |-> Append(db.seen, o), graph |-> db.graph]
  BY <1>1 DEF Web3Inv, Web3Typed
<1>4. db'.head = db.head /\ db'.fetchers = db.fetchers /\ db'.rows = db.rows /\ db'.seen = Append(db.seen, o) /\ db'.graph = db.graph
  BY <1>3
<1>5. /\ db'.seen \in Seq(Web3Seen) /\ \A i \in DOMAIN db.seen : i \in DOMAIN db'.seen /\ db'.seen[i] = db.seen[i]
  BY <1>4 DEF Web3Inv, Web3Typed
<1>6. Web3Typed'
  BY <1>2, <1>3, <1>4, <1>5 DEF Web3Inv, Web3Typed
<1>7. Web3Graph'
  BY <1>4, <1>5 DEF Web3Inv, Web3Graph
<1> QED
  BY <1>2, <1>4, <1>6, <1>7, Web3Keeps DEF Web3Inv

LEMMA Web3Attributes == ASSUME Web3Inv, Web3!Attribute PROVE Web3Inv'
<1>1. PICK place \in BOOLEAN : \E run \in Web3!Group(place) :
        db' = [db EXCEPT !.graph = @ \cup {[run |-> run, row |-> Len(db.rows), finding |-> Web3!Merged(Web3!Group(place))]}]
  BY DEF Web3!Attribute
<1>2. PICK run \in Web3!Group(place) :
        db' = [db EXCEPT !.graph = @ \cup {[run |-> run, row |-> Len(db.rows), finding |-> Web3!Merged(Web3!Group(place))]}]
  BY <1>1
<1>3. PICK n : n = [run |-> run, row |-> Len(db.rows), finding |-> Web3!Merged(Web3!Group(place))]
  OBVIOUS
<1>4. n.run = run /\ n.finding = Web3!Merged(Web3!Group(place)) /\ db' = [db EXCEPT !.graph = db.graph \cup {n}]
  BY <1>2, <1>3
<1>5. proc' = proc
  BY DEF Web3!Attribute
<1>6. db' = [head |-> db.head, fetchers |-> db.fetchers, rows |-> db.rows, seen |-> db.seen, graph |-> db.graph \cup {n}]
  BY <1>4 DEF Web3Inv, Web3Typed
<1>7. db'.head = db.head /\ db'.fetchers = db.fetchers /\ db'.rows = db.rows /\ db'.seen = db.seen /\ db'.graph = db.graph \cup {n}
  BY <1>6
<1>8. Web3Typed'
  BY <1>5, <1>6, <1>7 DEF Web3Inv, Web3Typed
<1>9. n.run \in DOMAIN db.seen
  BY <1>4 DEF Web3!Group
<1>10. n.finding.severity \in Web3!Severe => (\E e, f \in n.finding.engines : e # f) \/ db.seen[n.run].located
  BY <1>4, Web3Merged
<1>11. Web3Graph'
  BY <1>7, <1>9, <1>10 DEF Web3Inv, Web3Graph
<1> QED
  BY <1>5, <1>7, <1>8, <1>11, Web3Keeps DEF Web3Inv

LEMMA Web3Step == ASSUME Web3Inv, [Web3!Next]_(Web3!vars) PROVE Web3Inv'
<1>1. CASE UNCHANGED Web3!vars
  <2>1. db' = db /\ proc' = proc
    BY <1>1 DEF Web3!vars
  <2>2. Web3Typed' /\ Web3Graph'
    BY <2>1 DEF Web3Inv, Web3Typed, Web3Graph
  <2> QED
    BY <2>1, <2>2, Web3Keeps DEF Web3Inv
<1>2. CASE Web3!Mine
  <2>1. db' = [db EXCEPT !.head = db.head + 1] /\ proc' = proc
    BY <1>2 DEF Web3!Mine
  <2>2. db' = [head |-> db.head + 1, fetchers |-> db.fetchers, rows |-> db.rows, seen |-> db.seen, graph |-> db.graph]
    BY <2>1 DEF Web3Inv, Web3Typed
  <2>3. db'.head = db.head + 1 /\ db'.fetchers = db.fetchers /\ db'.rows = db.rows /\ db'.seen = db.seen /\ db'.graph = db.graph
    BY <2>2
  <2>4. Web3Typed'
    BY <2>1, <2>2, <2>3 DEF Web3Inv, Web3Typed
  <2>5. Web3Graph'
    BY <2>3 DEF Web3Inv, Web3Graph
  <2> QED
    BY <2>1, <2>3, <2>4, <2>5, Web3Keeps DEF Web3Inv
<1>3. CASE Web3!RunEngine
  BY <1>3, Web3Runs
<1>4. CASE Web3!Attribute
  BY <1>4, Web3Attributes
<1>5. ASSUME NEW j \in Jobs, Web3!PinBlock(j) \/ Web3!GetCode(j) \/ Web3!Fetch(j) \/ Web3!FallBack(j) \/ Web3!Record(j) PROVE Web3Inv'
  BY <1>5, Web3Pins, Web3Codes, Web3Fetches, Web3FallsBack, Web3Records
<1> QED
  BY <1>1, <1>2, <1>3, <1>4, <1>5 DEF Web3!Next

LEMMA Web3Holds == ASSUME Web3Inv PROVE Web3!RowIsOfOneBlock /\ Web3!GraveIsWitnessed
<1>1. ASSUME NEW i \in DOMAIN db.rows, NEW k \in db.fetchers,
             db.rows[i].by \notin {Web3!Order[m] : m \in 1 .. (k - 1)}
      PROVE  \E a \in db.rows[i].tried :
               /\ a.block = db.rows[i].block /\ a.by = Web3!Order[k]
               /\ a.outcome \in IF Web3!Order[k] = db.rows[i].by THEN {"verified"} ELSE {"error", "miss"}
  <2> DEFINE row == db.rows[i]
  <2>1. k \in 1 .. 4 /\ db.fetchers \subseteq 1 .. 4
    BY DEF Web3Inv, Web3Typed
  <2>2. Web3Source(row.by, row.tried, row.block)
    BY DEF Web3Inv, Web3Recorded
  <2>3. CASE row.by = "bytecode-only" /\ Web3Missed(row.tried, row.block, 5)
    <3>1. Web3Tried(row.tried, row.block, k, {"error", "miss"}) /\ Web3!Order[k] # row.by
      BY <2>1, <2>3, Web3Order DEF Web3Missed
    <3> QED
      BY <3>1 DEF Web3Tried
  <2>4. ASSUME NEW n \in db.fetchers, row.by = Web3!Order[n], Web3Missed(row.tried, row.block, n),
               Web3Tried(row.tried, row.block, n, {"verified"})
        PROVE  \E a \in row.tried : /\ a.block = row.block /\ a.by = Web3!Order[k]
                                    /\ a.outcome \in IF Web3!Order[k] = row.by THEN {"verified"} ELSE {"error", "miss"}
    <3>1. n \in 1 .. 4
      BY <2>1
    <3>2. k <= n
      BY <1>1, <2>1, <2>4, <3>1
    <3>3. CASE k = n
      BY <2>4, <3>3 DEF Web3Tried
    <3>4. CASE k < n
      <4>1. Web3Tried(row.tried, row.block, k, {"error", "miss"}) /\ Web3!Order[k] # row.by
        BY <2>1, <2>4, <3>1, <3>4, Web3Order DEF Web3Missed
      <4> QED
        BY <4>1 DEF Web3Tried
    <3> QED
      BY <2>1, <3>1, <3>2, <3>3, <3>4
  <2> QED
    BY <2>2, <2>3, <2>4 DEF Web3Source
<1>2. Web3!RowIsOfOneBlock
  BY <1>1 DEF Web3!RowIsOfOneBlock, Web3Inv, Web3Recorded
<1>3. Web3!GraveIsWitnessed
  BY DEF Web3!GraveIsWitnessed, Web3Inv, Web3Graph
<1> QED
  BY <1>2, <1>3

LEMMA Web3Part == SuiteSpec => [](part = "web3" => Web3Inv)
<1>1. SuiteInit => (part = "web3" => Web3Inv)
  BY Web3Init DEF SuiteInit
<1>2. (part = "web3" => Web3Inv) /\ [SuiteNext]_suiteVars => (part = "web3" => Web3Inv)'
  <2> SUFFICES ASSUME part = "web3", Web3Inv, [SuiteNext]_suiteVars PROVE Web3Inv'
    BY DEF SuiteNext, suiteVars
  <2>1. [Web3!Next]_(Web3!vars)
    BY DEF SuiteNext, suiteVars, state, Web3!vars
  <2> QED
    BY <2>1, Web3Step
<1> QED
  BY <1>1, <1>2, PTL DEF SuiteSpec

\* app/web3: what a resolution returns, recorded as it is, is of one block, whatever
\* blocks are mined between its calls, its source by the first fetcher that had
\* one; and a merged finding that is recorded as grave has its witnesses.
THEOREM AuditIsAlwaysWitnessed == SuiteSpec => []AuditIsWitnessed
<1>1. (part = "web3" => Web3Inv) => AuditIsWitnessed
  BY Web3Holds DEF AuditIsWitnessed
<1> QED
  BY <1>1, Web3Part, PTL

-----------------------------------------------------------------------------
(* ScanReports *)

ReportsSeen == [scan : Scans, run : Runs, finding : Findings]
ReportsBundle == [of : ReportsSeen, closed : BOOLEAN]
ReportsRecord == [finding : Findings, claims : {Reports!Claims}]
ReportsRank == [finding : Findings, score : Scores \cup {2}]
ReportsSection == [finding : Findings, score : Scores \cup {2}, claims : {{"not-recorded"}, Reports!Claims},
                   evidence : ReportsSeen \cup {Reports!Nothing}]

ReportsTyped ==
  /\ db = [seen |-> db.seen, done |-> db.done, bundles |-> db.bundles, marks |-> db.marks, records |-> db.records]
  /\ db.seen \in Seq(ReportsSeen) /\ db.bundles \in Seq(ReportsBundle)
  /\ db.marks \in [Findings -> Scores \cup {0}] /\ db.records \in Seq(ReportsRecord)
  /\ proc = [report |-> proc.report, verify |-> proc.verify, draft |-> proc.draft]
  /\ hist = [report |-> hist.report, draft |-> hist.draft]

\* Evidence is of what was observed; a verification knows its finding.
ReportsBound ==
  /\ \A i \in DOMAIN db.bundles : db.bundles[i].of \in Reports!Seen
  /\ proc.verify.at = "put" => proc.verify.finding \in Findings

\* A report on its way: every case waits for its grade, is ranked, or has its
\* section, and the sections go down the scores.
ReportsOnWay(r) ==
  /\ r = [at |-> r.at, scan |-> r.scan, cases |-> r.cases, due |-> r.due, rank |-> r.rank, out |-> r.out]
  /\ r.due \subseteq Findings /\ r.rank \subseteq ReportsRank /\ r.out \in Seq(ReportsSection)
  /\ r.at \in {"grade", "write"} =>
       /\ \A f : f \in r.cases <=> \/ f \in r.due \/ \E x \in r.rank : x.finding = f
                                   \/ \E i \in DOMAIN r.out : r.out[i].finding = f
       /\ \A x \in r.rank : x.finding \notin r.due /\ \A y \in r.rank : x.finding = y.finding => x = y
       /\ \A i \in DOMAIN r.out : r.out[i].finding \notin r.due /\ \A x \in r.rank : x.finding # r.out[i].finding
       /\ \A i, j \in DOMAIN r.out : r.out[i].finding = r.out[j].finding => i = j
       /\ \A i, j \in DOMAIN r.out : i < j => r.out[i].score >= r.out[j].score
       /\ \A i \in DOMAIN r.out : \A x \in r.rank : x.score <= r.out[i].score
  /\ r.at = "grade" => r.out = <<>>
  /\ r.at = "write" => r.due = {}
  /\ r.at \in {"idle", "grade", "write"}

ReportsDraft ==
  /\ proc.draft.at = "read" => /\ proc.draft.bundle \in Reports!Seen /\ proc.draft.bundle.scan = proc.draft.scan
                               /\ proc.draft.bundle.finding = proc.draft.finding
  /\ hist.draft # Reports!Nothing => hist.draft.bundle \in Reports!Seen

ReportsInv == ReportsTyped /\ ReportsBound /\ ReportsOnWay(proc.report) /\ ReportsDraft /\ Reports!ReportIsWhole /\ Reports!DraftIsOfItsScan

LEMMA ReportsCardinality == \A S : Reports!Cardinality(S) = Cardinality(S)
  BY DEF Reports!Cardinality, Cardinality

LEMMA ReportsInit == ASSUME Reports!Init PROVE ReportsInv
<1>1. /\ db = [seen |-> <<>>, done |-> {}, bundles |-> <<>>, marks |-> [f \in Findings |-> 0], records |-> <<>>]
      /\ proc = [report |-> Reports!NoReport, verify |-> [at |-> "idle"], draft |-> [at |-> "idle"]]
      /\ hist = [report |-> Reports!Nothing, draft |-> Reports!Nothing]
  BY DEF Reports!Init
<1>2. ReportsTyped
  BY <1>1 DEF ReportsTyped
<1>3. ReportsOnWay(Reports!NoReport)
  BY DEF ReportsOnWay, Reports!NoReport
<1> QED
  BY <1>1, <1>2, <1>3, ReportsCardinality DEF ReportsInv, ReportsBound, ReportsDraft, Reports!ReportIsWhole, Reports!DraftIsOfItsScan

\* A sequence has a last of the positions with a property.
LEMMA ReportsLast ==
  ASSUME NEW D, NEW q \in Seq(D), NEW S \in SUBSET DOMAIN q, S # {}
  PROVE  /\ (CHOOSE i \in S : \A j \in S : j <= i) \in S
<1>1. S \in SUBSET Nat /\ Len(q) \in Nat /\ \A x \in S : x <= Len(q)
  OBVIOUS
<1>2. \E x \in S : \A y \in S : y <= x
  BY <1>1, GreatestOf
<1> QED
  BY <1>2

LEMMA ReportsBundleOf ==
  ASSUME ReportsInv, NEW f, NEW s
  PROVE  \/ Reports!Bundle(f, s) = Reports!Nothing
         \/ Reports!Bundle(f, s) \in Reports!Seen /\ Reports!Bundle(f, s).finding = f /\ (s = "any" \/ Reports!Bundle(f, s).scan = s)
<1> DEFINE mine == {i \in DOMAIN db.bundles : db.bundles[i].of.finding = f /\ (s = "any" \/ db.bundles[i].of.scan = s)}
<1>1. PICK last : last = CHOOSE i \in mine : \A j \in mine : j <= i
  OBVIOUS
<1>2. Reports!Bundle(f, s) = IF mine = {} \/ ~db.bundles[last].closed THEN Reports!Nothing ELSE db.bundles[last].of
  BY <1>1 DEF Reports!Bundle
<1>3. mine # {} => last \in mine
  <2>1. db.bundles \in Seq(ReportsBundle) /\ mine \in SUBSET DOMAIN db.bundles
    BY DEF ReportsInv, ReportsTyped
  <2> HIDE DEF mine
  <2> QED
    BY <1>1, <2>1, ReportsLast
<1>4. last \in mine => db.bundles[last].of \in Reports!Seen /\ db.bundles[last].of.finding = f /\ (s = "any" \/ db.bundles[last].of.scan = s)
  BY DEF ReportsInv, ReportsBound
<1> HIDE DEF mine
<1> QED
  BY <1>2, <1>3, <1>4

LEMMA ReportsVerified ==
  ASSUME ReportsInv, NEW f
  PROVE  Reports!Verification(f) \in {{"not-recorded"}, Reports!Claims}
<1> DEFINE mine == {i \in DOMAIN db.records : db.records[i].finding = f}
<1>1. PICK last : last = CHOOSE i \in mine : \A j \in mine : j <= i
  OBVIOUS
<1>2. Reports!Verification(f) = IF mine = {} THEN {"not-recorded"} ELSE db.records[last].claims
  BY <1>1 DEF Reports!Verification
<1>3. db.records \in Seq(ReportsRecord) /\ mine \in SUBSET DOMAIN db.records
  BY DEF ReportsInv, ReportsTyped
<1> HIDE DEF mine
<1>4. mine # {} => last \in DOMAIN db.records
  BY <1>1, <1>3, ReportsLast
<1>5. last \in DOMAIN db.records => db.records[last] \in ReportsRecord
  BY <1>3
<1>6. last \in DOMAIN db.records => db.records[last].claims = Reports!Claims
  BY <1>5 DEF ReportsRecord
<1> QED
  BY <1>2, <1>4, <1>6

LEMMA ReportsNext ==
  ASSUME NEW rank \in SUBSET ReportsRank, rank # {}
  PROVE  Reports!Next1(rank) \in rank /\ \A y \in rank : y.score <= Reports!Next1(rank).score
<1>1. \E x \in rank : \A y \in rank : y.score <= x.score
  <2> DEFINE S == {x.score : x \in rank}
  <2>1. PICK top \in Scores : top \in Nat /\ \A x \in Scores : x <= top
    BY ScoresAreBounded
  <2>2. \A x \in rank : x.score \in Nat /\ x.score <= top + 2
    <3> TAKE x \in rank
    <3>1. x.score \in Scores \/ x.score = 2
      BY DEF ReportsRank
    <3> top \in Nat
      BY <2>1
    <3>2. x.score \in Scores => x.score \in Nat /\ x.score <= top
      BY <2>1, ScoresAreBounded
    <3> QED
      BY <3>1, <3>2
  <2>3. S \in SUBSET Nat /\ S # {} /\ top + 2 \in Nat /\ \A x \in S : x <= top + 2
    BY <2>1, <2>2
  <2>4. \A x \in rank : x.score \in S
    OBVIOUS
  <2>5. \A v \in S : \E x \in rank : x.score = v
    OBVIOUS
  <2> HIDE DEF S
  <2>6. PICK m \in S : \A y \in S : y <= m
    BY <2>3, GreatestOf
  <2> QED
    BY <2>4, <2>5, <2>6
<1> QED
  BY <1>1 DEF Reports!Next1

\* The case of a finding that was observed stays the same.
ReportsFirst(seen, f, i) == seen[i].finding = f /\ \A j \in 1 .. (i - 1) : seen[j].finding # f

LEMMA ReportsCase ==
  ASSUME ReportsTyped, NEW o \in ReportsSeen, db'.seen = Append(db.seen, o), NEW x \in Reports!Seen
  PROVE  Reports!Case(x.finding)' = Reports!Case(x.finding)
<1> DEFINE n == Len(db.seen)
           f == x.finding
           W == {i \in 1 .. n : db.seen[i].finding = f}
<1>1. n \in Nat /\ db.seen \in Seq(ReportsSeen) /\ DOMAIN db.seen = 1 .. n
  BY DEF ReportsTyped
<1>2. DOMAIN db'.seen = 1 .. n + 1 /\ \A i \in 1 .. n : db'.seen[i] = db.seen[i]
  BY <1>1
<1>3. W \in SUBSET Nat /\ W # {}
  BY <1>1 DEF Reports!Seen
<1>4. PICK k \in W : \A i \in W : k <= i
  <2> HIDE DEF W
  <2> QED
    BY <1>3, LeastOf
<1> HIDE DEF n, f
<1>5. k \in 1 .. n /\ db.seen[k].finding = f /\ \A j \in 1 .. (k - 1) : db.seen[j].finding # f
  BY <1>1, <1>4
<1>6. PICK a : a = CHOOSE i \in DOMAIN db.seen : db.seen[i].finding = f /\ \A j \in 1 .. (i - 1) : db.seen[j].finding # f
  OBVIOUS
<1>7. a \in 1 .. n /\ db.seen[a].finding = f /\ \A j \in 1 .. (a - 1) : db.seen[j].finding # f
  BY <1>1, <1>5, <1>6
<1>8. a = k
  BY <1>1, <1>5, <1>7
<1>9. PICK b : b = CHOOSE i \in DOMAIN db'.seen : db'.seen[i].finding = f /\ \A j \in 1 .. (i - 1) : db'.seen[j].finding # f
  OBVIOUS
<1>10. k \in DOMAIN db'.seen /\ db'.seen[k].finding = f /\ \A j \in 1 .. (k - 1) : db'.seen[j].finding # f
  BY <1>1, <1>2, <1>5
<1>11. b \in 1 .. n + 1 /\ db'.seen[b].finding = f /\ \A j \in 1 .. (b - 1) : db'.seen[j].finding # f
  BY <1>2, <1>9, <1>10
<1>12. b = k
  BY <1>1, <1>2, <1>5, <1>10, <1>11
<1>13. Reports!Case(f) = db.seen[a]
  BY <1>6 DEF Reports!Case
<1>14. Reports!Case(f)' = db'.seen[b]
  BY <1>9 DEF Reports!Case, f
<1> QED
  BY <1>2, <1>5, <1>8, <1>12, <1>13, <1>14 DEF f

\* What was returned stays true while more is observed.
LEMMA ReportsKeep ==
  ASSUME ReportsInv, ReportsTyped', ReportsBound', NEW r, r = proc'.report, ReportsOnWay(r), Reports!ReportIsWhole',
         \/ db'.seen = db.seen
         \/ \E o \in ReportsSeen : db'.seen = Append(db.seen, o),
         \/ proc'.draft = proc.draft
         \/ proc'.draft.at # "read"
         \/ /\ proc'.draft.bundle \in Reports!Seen /\ proc'.draft.bundle.scan = proc'.draft.scan
            /\ proc'.draft.bundle.finding = proc'.draft.finding,
         \/ hist'.draft = hist.draft
         \/ hist'.draft = Reports!Nothing
         \/ db'.seen = db.seen /\ hist'.draft.bundle \in Reports!Seen /\ Reports!DraftIsOfItsScan'
  PROVE  ReportsInv'
<1>1. Reports!Seen \subseteq Reports!Seen'
  <2>1. CASE db'.seen = db.seen
    BY <2>1 DEF Reports!Seen
  <2>2. CASE \E o \in ReportsSeen : db'.seen = Append(db.seen, o)
    <3>1. PICK o \in ReportsSeen : db'.seen = Append(db.seen, o)
      BY <2>2
    <3>2. db.seen \in Seq(ReportsSeen)
      BY DEF ReportsInv, ReportsTyped
    <3>3. \A i \in DOMAIN db.seen : i \in DOMAIN db'.seen /\ db'.seen[i] = db.seen[i]
      BY <3>1, <3>2
    <3> QED
      BY <3>3 DEF Reports!Seen
  <2> QED
    BY <2>1, <2>2
<1>2. \A x \in Reports!Seen : Reports!Case(x.finding)' = Reports!Case(x.finding)
  <2>1. CASE db'.seen = db.seen
    BY <2>1 DEF Reports!Case
  <2>2. CASE \E o \in ReportsSeen : db'.seen = Append(db.seen, o)
    BY <2>2, ReportsCase DEF ReportsInv
  <2> QED
    BY <2>1, <2>2
<1>3. ReportsDraft'
  <2>1. proc'.draft.at = "read" => /\ proc'.draft.bundle \in Reports!Seen' /\ proc'.draft.bundle.scan = proc'.draft.scan
                                   /\ proc'.draft.bundle.finding = proc'.draft.finding
    BY <1>1 DEF ReportsInv, ReportsDraft
  <2>2. hist'.draft # Reports!Nothing => hist'.draft.bundle \in Reports!Seen'
    BY <1>1 DEF ReportsInv, ReportsDraft
  <2> QED
    BY <2>1, <2>2 DEF ReportsDraft
<1>4. Reports!DraftIsOfItsScan'
  <2>1. CASE hist'.draft = hist.draft /\ hist.draft # Reports!Nothing
    <3>1. Reports!Case(hist.draft.bundle.finding)' = Reports!Case(hist.draft.bundle.finding)
      BY <2>1, <1>2 DEF ReportsInv, ReportsDraft
    <3> QED
      BY <2>1, <3>1 DEF ReportsInv, Reports!DraftIsOfItsScan
  <2>2. CASE hist'.draft = Reports!Nothing
    BY <2>2 DEF Reports!DraftIsOfItsScan
  <2> QED
    BY <2>1, <2>2
<1> QED
  BY <1>3, <1>4 DEF ReportsInv

\* A step of the database that the reports do not see yet.
LEMMA ReportsStore ==
  ASSUME ReportsInv, UNCHANGED <<proc, hist>>, ReportsTyped',
         \/ db'.seen = db.seen
         \/ \E o \in ReportsSeen : db'.seen = Append(db.seen, o),
         \A i \in DOMAIN db'.bundles : db'.bundles[i].of \in Reports!Seen'
  PROVE  ReportsInv'
<1>1. PICK r : r = proc.report
  OBVIOUS
<1>2. ReportsOnWay(r) /\ r = proc'.report /\ Reports!ReportIsWhole' /\ hist'.draft = hist.draft /\ proc'.draft = proc.draft
  BY <1>1, ReportsCardinality DEF ReportsInv, Reports!ReportIsWhole
<1>3. ReportsBound'
  BY DEF ReportsInv, ReportsBound
<1> QED
  BY <1>2, <1>3, ReportsKeep

LEMMA ReportsDb ==
  ASSUME ReportsInv
  PROVE  /\ \A v : [db EXCEPT !.seen = v] = [seen |-> v, done |-> db.done, bundles |-> db.bundles, marks |-> db.marks, records |-> db.records]
         /\ \A v : [db EXCEPT !.done = v] = [seen |-> db.seen, done |-> v, bundles |-> db.bundles, marks |-> db.marks, records |-> db.records]
         /\ \A v : [db EXCEPT !.bundles = v] = [seen |-> db.seen, done |-> db.done, bundles |-> v, marks |-> db.marks, records |-> db.records]
         /\ \A v : [db EXCEPT !.marks = v] = [seen |-> db.seen, done |-> db.done, bundles |-> db.bundles, marks |-> v, records |-> db.records]
         /\ \A v : [db EXCEPT !.records = v] = [seen |-> db.seen, done |-> db.done, bundles |-> db.bundles, marks |-> db.marks, records |-> v]
<1>1. db = [seen |-> db.seen, done |-> db.done, bundles |-> db.bundles, marks |-> db.marks, records |-> db.records]
  BY DEF ReportsInv, ReportsTyped
<1>2. \A v : [db EXCEPT !.seen = v] = [seen |-> v, done |-> db.done, bundles |-> db.bundles, marks |-> db.marks, records |-> db.records]
  BY <1>1
<1>3. \A v : [db EXCEPT !.done = v] = [seen |-> db.seen, done |-> v, bundles |-> db.bundles, marks |-> db.marks, records |-> db.records]
  BY <1>1
<1>4. \A v : [db EXCEPT !.bundles = v] = [seen |-> db.seen, done |-> db.done, bundles |-> v, marks |-> db.marks, records |-> db.records]
  BY <1>1
<1>5. \A v : [db EXCEPT !.marks = v] = [seen |-> db.seen, done |-> db.done, bundles |-> db.bundles, marks |-> v, records |-> db.records]
  BY <1>1
<1>6. \A v : [db EXCEPT !.records = v] = [seen |-> db.seen, done |-> db.done, bundles |-> db.bundles, marks |-> db.marks, records |-> v]
  BY <1>1
<1> QED
  BY <1>2, <1>3, <1>4, <1>5, <1>6, Zenon

LEMMA ReportsTypes ==
  ASSUME ReportsInv
  PROVE  /\ db.seen \in Seq(ReportsSeen) /\ db.bundles \in Seq(ReportsBundle)
         /\ db.marks \in [Findings -> Scores \cup {0}] /\ db.records \in Seq(ReportsRecord)
  BY DEF ReportsInv, ReportsTyped

LEMMA ReportsRow ==
  ASSUME ReportsInv, UNCHANGED <<proc, hist>>,
         NEW seen \in Seq(ReportsSeen), NEW done, NEW bundles \in Seq(ReportsBundle),
         NEW marks \in [Findings -> Scores \cup {0}], NEW records \in Seq(ReportsRecord),
         db' = [seen |-> seen, done |-> done, bundles |-> bundles, marks |-> marks, records |-> records]
  PROVE  /\ ReportsTyped' /\ db'.seen = seen /\ db'.bundles = bundles
         /\ (seen = db.seen => Reports!Seen' = Reports!Seen)
<1>1. ReportsTyped'
  BY DEF ReportsInv, ReportsTyped
<1> QED
  BY <1>1 DEF Reports!Seen

LEMMA ReportsObserve == ASSUME ReportsInv, NEW s \in Scans, NEW u \in Runs, NEW f \in Findings, Reports!Observe(s, u, f) PROVE ReportsInv'
<1>1. PICK o : o = [scan |-> s, run |-> u, finding |-> f]
  OBVIOUS
<1>2. o \in ReportsSeen
  BY <1>1 DEF ReportsSeen
<1>3. db.seen \in Seq(ReportsSeen)
  BY ReportsTypes
<1>4. PICK seen \in Seq(ReportsSeen) : seen = Append(db.seen, o)
  <2>1. Append(db.seen, o) \in Seq(ReportsSeen)
    BY <1>2, <1>3
  <2> QED
    BY <2>1
<1>5. db' = [seen |-> seen, done |-> db.done, bundles |-> db.bundles, marks |-> db.marks, records |-> db.records] /\ UNCHANGED <<proc, hist>>
  BY <1>1, <1>4, ReportsDb DEF Reports!Observe
<1>6. ReportsTyped' /\ db'.seen = Append(db.seen, o) /\ db'.bundles = db.bundles
  BY <1>4, <1>5, ReportsTypes, ReportsRow
<1>7. Reports!Seen \subseteq Reports!Seen'
  <2>1. \A i \in DOMAIN db.seen : i \in DOMAIN db'.seen /\ db'.seen[i] = db.seen[i]
    BY <1>2, <1>3, <1>6
  <2> QED
    BY <2>1 DEF Reports!Seen
<1>8. \A i \in DOMAIN db'.bundles : db'.bundles[i].of \in Reports!Seen'
  BY <1>6, <1>7 DEF ReportsInv, ReportsBound
<1> QED
  BY <1>2, <1>5, <1>6, <1>8, ReportsStore

LEMMA ReportsAssemble == ASSUME ReportsInv, NEW o \in Reports!Seen, Reports!Assemble(o) PROVE ReportsInv'
<1>1. PICK closed \in BOOLEAN : db' = [db EXCEPT !.bundles = Append(@, [of |-> o, closed |-> closed])]
  BY DEF Reports!Assemble
<1>2. db.seen \in Seq(ReportsSeen) /\ db.bundles \in Seq(ReportsBundle)
  BY ReportsTypes
<1>3. o \in ReportsSeen
  BY <1>2 DEF Reports!Seen
<1>4. PICK b : b = [of |-> o, closed |-> closed]
  OBVIOUS
<1>5. b \in ReportsBundle /\ b.of = o
  BY <1>3, <1>4 DEF ReportsBundle
<1>6. PICK bundles \in Seq(ReportsBundle) : bundles = Append(db.bundles, b)
  <2>1. Append(db.bundles, b) \in Seq(ReportsBundle)
    BY <1>5, <1>2
  <2> QED
    BY <2>1
<1>7. db' = [seen |-> db.seen, done |-> db.done, bundles |-> bundles, marks |-> db.marks, records |-> db.records] /\ UNCHANGED <<proc, hist>>
  BY <1>1, <1>4, <1>6, ReportsDb DEF Reports!Assemble
<1>8. ReportsTyped' /\ db'.seen = db.seen /\ db'.bundles = bundles /\ Reports!Seen' = Reports!Seen
  BY <1>6, <1>7, ReportsTypes, ReportsRow
<1>9. \A i \in DOMAIN bundles : bundles[i] = b \/ (i \in DOMAIN db.bundles /\ bundles[i] = db.bundles[i])
  BY <1>2, <1>5, <1>6
<1>10. \A i \in DOMAIN bundles : bundles[i].of \in Reports!Seen
  BY <1>5, <1>9 DEF ReportsInv, ReportsBound
<1> QED
  BY <1>7, <1>8, <1>10, ReportsStore

LEMMA ReportsSettle == ASSUME ReportsInv, NEW s \in Scans, Reports!Settle(s) PROVE ReportsInv'
<1>1. PICK done : done = db.done \cup {s}
  OBVIOUS
<1>2. db' = [seen |-> db.seen, done |-> done, bundles |-> db.bundles, marks |-> db.marks, records |-> db.records] /\ UNCHANGED <<proc, hist>>
  BY <1>1, ReportsDb DEF Reports!Settle
<1>3. ReportsTyped' /\ db'.seen = db.seen /\ db'.bundles = db.bundles /\ Reports!Seen' = Reports!Seen
  BY <1>2, ReportsTypes, ReportsRow
<1>4. \A i \in DOMAIN db.bundles : db.bundles[i].of \in Reports!Seen
  BY DEF ReportsInv, ReportsBound
<1> QED
  BY <1>2, <1>3, <1>4, ReportsStore

LEMMA ReportsClassify == ASSUME ReportsInv, NEW f \in Findings, NEW score \in Scores, Reports!Classify(f, score) PROVE ReportsInv'
<1>1. db.marks \in [Findings -> Scores \cup {0}]
  BY ReportsTypes
<1>2. PICK marks \in [Findings -> Scores \cup {0}] : marks = [db.marks EXCEPT ![f] = score]
  BY <1>1
<1>3. db' = [db EXCEPT !.marks = marks] /\ UNCHANGED <<proc, hist>>
  BY <1>2 DEF Reports!Classify
<1>4. db' = [seen |-> db.seen, done |-> db.done, bundles |-> db.bundles, marks |-> marks, records |-> db.records]
  BY <1>3, ReportsDb
<1>5. ReportsTyped' /\ db'.seen = db.seen /\ db'.bundles = db.bundles /\ Reports!Seen' = Reports!Seen
  BY <1>3, <1>4, ReportsTypes, ReportsRow
<1>6. \A i \in DOMAIN db.bundles : db.bundles[i].of \in Reports!Seen
  BY DEF ReportsInv, ReportsBound
<1> QED
  BY <1>3, <1>5, <1>6, ReportsStore

\* A step of the report, the verification or the draft alone.
LEMMA ReportsProc ==
  ASSUME ReportsInv
  PROVE  /\ \A v : [proc EXCEPT !.report = v] = [report |-> v, verify |-> proc.verify, draft |-> proc.draft]
         /\ \A v : [proc EXCEPT !.verify = v] = [report |-> proc.report, verify |-> v, draft |-> proc.draft]
         /\ \A v : [proc EXCEPT !.draft = v] = [report |-> proc.report, verify |-> proc.verify, draft |-> v]
         /\ \A v : [hist EXCEPT !.report = v] = [report |-> v, draft |-> hist.draft]
         /\ \A v : [hist EXCEPT !.draft = v] = [report |-> hist.report, draft |-> v]
         /\ proc = [report |-> proc.report, verify |-> proc.verify, draft |-> proc.draft]
         /\ hist = [report |-> hist.report, draft |-> hist.draft]
  BY DEF ReportsInv, ReportsTyped

LEMMA ReportsMoves ==
  ASSUME ReportsInv, NEW r, NEW v, NEW d, proc' = [report |-> r, verify |-> v, draft |-> d],
         NEW hr, NEW hd, hist' = [report |-> hr, draft |-> hd],
         UNCHANGED db \/ \E records \in Seq(ReportsRecord) :
           db' = [seen |-> db.seen, done |-> db.done, bundles |-> db.bundles, marks |-> db.marks, records |-> records],
         ReportsOnWay(r), v.at = "put" => v.finding \in Findings,
         \/ d = proc.draft
         \/ d.at # "read"
         \/ d.bundle \in Reports!Seen /\ d.bundle.scan = d.scan /\ d.bundle.finding = d.finding,
         hr = hist.report \/ hr = Reports!Nothing \/ Reports!ReportIsWhole',
         hd = hist.draft \/ hd = Reports!Nothing \/ (hd.bundle \in Reports!Seen /\ Reports!DraftIsOfItsScan')
  PROVE  ReportsInv'
<1>1. proc'.report = r /\ proc'.verify = v /\ proc'.draft = d /\ hist'.report = hr /\ hist'.draft = hd
  OBVIOUS
<1>2. ReportsTyped' /\ db'.seen = db.seen /\ db'.bundles = db.bundles
  <2>1. CASE UNCHANGED db
    BY <2>1 DEF ReportsInv, ReportsTyped
  <2>2. ASSUME NEW records \in Seq(ReportsRecord),
               db' = [seen |-> db.seen, done |-> db.done, bundles |-> db.bundles, marks |-> db.marks, records |-> records]
        PROVE  ReportsTyped' /\ db'.seen = db.seen /\ db'.bundles = db.bundles
    BY <2>2 DEF ReportsInv, ReportsTyped
  <2> QED
    BY <2>1, <2>2
<1>3. ReportsBound'
  BY <1>1, <1>2 DEF ReportsInv, ReportsBound, Reports!Seen
<1>4. Reports!ReportIsWhole'
  BY <1>1, ReportsCardinality DEF ReportsInv, Reports!ReportIsWhole
<1> QED
  BY <1>1, <1>2, <1>3, <1>4, ReportsKeep

LEMMA ReportsVerify == ASSUME ReportsInv, NEW f \in Findings, Reports!Verify(f) PROVE ReportsInv'
<1>1. PICK v : v = [at |-> "put", finding |-> f]
  OBVIOUS
<1>2. proc' = [report |-> proc.report, verify |-> v, draft |-> proc.draft] /\ UNCHANGED <<db, hist>>
  BY <1>1, ReportsProc DEF Reports!Verify
<1>3. hist' = [report |-> hist.report, draft |-> hist.draft]
  BY <1>2, ReportsProc
<1>4. v.at = "put" => v.finding \in Findings
  BY <1>1
<1>5. ReportsOnWay(proc.report)
  BY DEF ReportsInv
<1> QED
  BY <1>2, <1>3, <1>4, <1>5, ReportsMoves

LEMMA ReportsRecords == ASSUME ReportsInv, Reports!Record PROVE ReportsInv'
<1>1. PICK v : v = [at |-> "idle"]
  OBVIOUS
<1>2. proc' = [report |-> proc.report, verify |-> v, draft |-> proc.draft] /\ UNCHANGED hist
  BY <1>1, ReportsProc DEF Reports!Record
<1>3. hist' = [report |-> hist.report, draft |-> hist.draft]
  BY <1>2, ReportsProc
<1>4. v.at # "put"
  BY <1>1
<1>5. ReportsOnWay(proc.report) /\ proc.verify.finding \in Findings
  BY DEF ReportsInv, ReportsBound, Reports!Record
<1>6. PICK e : e = [finding |-> proc.verify.finding, claims |-> Reports!Claims]
  OBVIOUS
<1>7. e \in ReportsRecord
  BY <1>5, <1>6 DEF ReportsRecord
<1>8. db.records \in Seq(ReportsRecord)
  BY ReportsTypes
<1>9. PICK records \in Seq(ReportsRecord) : records = Append(db.records, e)
  <2>1. Append(db.records, e) \in Seq(ReportsRecord)
    BY <1>7, <1>8
  <2> QED
    BY <2>1
<1>10. db' = [seen |-> db.seen, done |-> db.done, bundles |-> db.bundles, marks |-> db.marks, records |-> records]
  BY <1>6, <1>9, ReportsDb DEF Reports!Record
<1> QED
  BY <1>2, <1>3, <1>4, <1>5, <1>10, ReportsMoves

LEMMA ReportsAsk == ASSUME ReportsInv, NEW s \in Scans, NEW f \in Findings, Reports!AskDraft(s, f) PROVE ReportsInv'
<1>1. hist' = [report |-> hist.report, draft |-> Reports!Nothing] /\ UNCHANGED db
  BY ReportsProc DEF Reports!AskDraft
<1>2. ReportsOnWay(proc.report) /\ (proc.verify.at = "put" => proc.verify.finding \in Findings)
  BY DEF ReportsInv, ReportsBound
<1>3. CASE Reports!Bundle(f, s) = Reports!Nothing
  <2>1. proc' = [report |-> proc.report, verify |-> proc.verify, draft |-> proc.draft]
    BY <1>3, ReportsProc DEF Reports!AskDraft
  <2> QED
    BY <1>1, <1>2, <2>1, ReportsMoves
<1>4. CASE Reports!Bundle(f, s) # Reports!Nothing
  <2>1. PICK b : b = Reports!Bundle(f, s)
    OBVIOUS
  <2>2. b \in Reports!Seen /\ b.finding = f /\ b.scan = s
    BY <1>4, <2>1, ReportsBundleOf, ScansAreNamed
  <2>3. PICK d : d = [at |-> "read", scan |-> s, finding |-> f, bundle |-> b]
    OBVIOUS
  <2>4. d.bundle \in Reports!Seen /\ d.bundle.scan = d.scan /\ d.bundle.finding = d.finding
    BY <2>2, <2>3
  <2>5. proc' = [report |-> proc.report, verify |-> proc.verify, draft |-> d]
    BY <1>4, <2>1, <2>3, ReportsProc DEF Reports!AskDraft
  <2> QED
    BY <1>1, <1>2, <2>4, <2>5, ReportsMoves
<1> QED
  BY <1>3, <1>4

LEMMA ReportsDrafted == ASSUME ReportsInv, Reports!Draft PROVE ReportsInv'
<1>1. PICK d : d = proc.draft
  OBVIOUS
<1>2. d.bundle \in Reports!Seen /\ d.bundle.scan = d.scan /\ d.bundle.finding = d.finding
  BY <1>1 DEF Reports!Draft, ReportsInv, ReportsDraft
<1>3. PICK text : text = Reports!ScanFinding(d.finding, d.scan, d.bundle)
  OBVIOUS
<1>4. text = IF Reports!Case(d.finding).scan = d.scan THEN Reports!Case(d.finding) ELSE IF d.bundle \in Reports!Seen THEN d.bundle ELSE Reports!Nothing
  BY <1>3 DEF Reports!ScanFinding
<1>5. PICK hd : hd = [scan |-> d.scan, bundle |-> d.bundle, text |-> text]
  OBVIOUS
<1>6. hist' = [report |-> hist.report, draft |-> hd] /\ UNCHANGED db
  BY <1>1, <1>3, <1>5, ReportsProc DEF Reports!Draft
<1>7. PICK z : z = [at |-> "idle"]
  OBVIOUS
<1>8. proc' = [report |-> proc.report, verify |-> proc.verify, draft |-> z] /\ z.at # "read"
  BY <1>7, ReportsProc DEF Reports!Draft
<1>9. hd.bundle = d.bundle /\ hd.scan = d.scan /\ hd.text = text /\ hist'.draft = hd
  BY <1>5, <1>6
<1>10. \A f : Reports!Case(f)' = Reports!Case(f)
  BY <1>6 DEF Reports!Case
<1>11. Reports!DraftIsOfItsScan'
  <2>1. hd.bundle.scan = hd.scan /\ hd.text.scan = hd.scan
    BY <1>2, <1>4, <1>9
  <2>2. Reports!Case(hd.bundle.finding).scan # hd.scan => hd.text = hd.bundle
    BY <1>2, <1>4, <1>9
  <2> QED
    BY <2>1, <2>2, <1>9, <1>10 DEF Reports!DraftIsOfItsScan
<1>12. ReportsOnWay(proc.report) /\ (proc.verify.at = "put" => proc.verify.finding \in Findings)
  BY DEF ReportsInv, ReportsBound
<1>13. hd.bundle \in Reports!Seen
  BY <1>2, <1>9
<1> QED
  BY <1>6, <1>8, <1>11, <1>12, <1>13, ReportsMoves

\* A step of the report alone.
LEMMA ReportsSteps ==
  ASSUME ReportsInv, NEW r, proc' = [proc EXCEPT !.report = r], UNCHANGED db, ReportsOnWay(r),
         UNCHANGED hist \/ hist' = [hist EXCEPT !.report = Reports!Nothing]
  PROVE  ReportsInv'
<1>1. proc' = [report |-> r, verify |-> proc.verify, draft |-> proc.draft]
  BY ReportsProc
<1>2. hist' = [report |-> hist.report, draft |-> hist.draft] \/ hist' = [report |-> Reports!Nothing, draft |-> hist.draft]
  BY ReportsProc
<1>3. proc.verify.at = "put" => proc.verify.finding \in Findings
  BY DEF ReportsInv, ReportsBound
<1> QED
  BY <1>1, <1>2, <1>3, ReportsMoves

LEMMA ReportsRanked == ASSUME ReportsInv, NEW s \in Scans, Reports!Rank(s) PROVE ReportsInv'
<1>1. PICK c : c = Reports!Cases(s)
  OBVIOUS
<1>2. c \subseteq Findings
  <2>1. Reports!Seen \subseteq ReportsSeen
    BY ReportsTypes DEF Reports!Seen
  <2> QED
    BY <1>1, <2>1 DEF Reports!Cases, ReportsSeen
<1>3. PICK r : r = [Reports!NoReport EXCEPT !.at = "grade", !.scan = s, !.cases = c, !.due = c]
  OBVIOUS
<1>4. r = [at |-> "grade", scan |-> s, cases |-> c, due |-> c, rank |-> {}, out |-> <<>>]
  <2>1. PICK q1 : q1 = [Reports!NoReport EXCEPT !.at = "grade"]
    OBVIOUS
  <2>2. q1 = [at |-> "grade", scan |-> "none", cases |-> {}, due |-> {}, rank |-> {}, out |-> <<>>]
    BY <2>1 DEF Reports!NoReport
  <2>3. PICK q2 : q2 = [q1 EXCEPT !.scan = s]
    OBVIOUS
  <2>4. q2 = [at |-> "grade", scan |-> s, cases |-> {}, due |-> {}, rank |-> {}, out |-> <<>>]
    BY <2>2, <2>3
  <2>5. PICK q3 : q3 = [q2 EXCEPT !.cases = c]
    OBVIOUS
  <2>6. q3 = [at |-> "grade", scan |-> s, cases |-> c, due |-> {}, rank |-> {}, out |-> <<>>]
    BY <2>4, <2>5
  <2>7. PICK q4 : q4 = [q3 EXCEPT !.due = c]
    OBVIOUS
  <2>8. q4 = [at |-> "grade", scan |-> s, cases |-> c, due |-> c, rank |-> {}, out |-> <<>>]
    BY <2>6, <2>7
  <2> QED
    BY <1>3, <2>1, <2>3, <2>5, <2>7, <2>8
<1>5. ReportsOnWay(r)
  BY <1>2, <1>4 DEF ReportsOnWay
<1>6. proc' = [proc EXCEPT !.report = r] /\ UNCHANGED db /\ hist' = [hist EXCEPT !.report = Reports!Nothing]
  BY <1>1, <1>3 DEF Reports!Rank
<1> QED
  BY <1>5, <1>6, ReportsSteps

\* A nested update of the report is the update of its field.
ReportsGraded(p, a, b, c) == [p EXCEPT !.report.due = a, !.report.at = b, !.report.rank = c]
ReportsWritten(p, a, b) == [p EXCEPT !.report.rank = a, !.report.out = b]

LEMMA ReportsNested ==
  ASSUME ReportsInv, NEW r, r = proc.report
  PROVE  /\ \A a, b, c : ReportsGraded(proc, a, b, c)
              = [proc EXCEPT !.report = [at |-> b, scan |-> r.scan, cases |-> r.cases, due |-> a, rank |-> c, out |-> r.out]]
         /\ \A a, b : ReportsWritten(proc, a, b)
              = [proc EXCEPT !.report = [at |-> r.at, scan |-> r.scan, cases |-> r.cases, due |-> r.due, rank |-> a, out |-> b]]
<1>1. proc = [report |-> r, verify |-> proc.verify, draft |-> proc.draft]
  BY ReportsProc
<1>2. r = [at |-> r.at, scan |-> r.scan, cases |-> r.cases, due |-> r.due, rank |-> r.rank, out |-> r.out]
  BY DEF ReportsInv, ReportsOnWay
<1>3. ASSUME NEW a, NEW b, NEW c
      PROVE  ReportsGraded(proc, a, b, c)
              = [proc EXCEPT !.report = [at |-> b, scan |-> r.scan, cases |-> r.cases, due |-> a, rank |-> c, out |-> r.out]]
  <2>1. PICK q1 : q1 = [proc EXCEPT !.report.due = a]
    OBVIOUS
  <2>2. PICK r1 : r1 = [at |-> r.at, scan |-> r.scan, cases |-> r.cases, due |-> a, rank |-> r.rank, out |-> r.out]
    OBVIOUS
  <2>3. [r EXCEPT !.due = a] = r1
    BY <1>2, <2>2
  <2>4. q1 = [report |-> r1, verify |-> proc.verify, draft |-> proc.draft]
    BY <1>1, <2>1, <2>3
  <2>5. PICK q2 : q2 = [q1 EXCEPT !.report.at = b]
    OBVIOUS
  <2>6. PICK r2 : r2 = [at |-> b, scan |-> r.scan, cases |-> r.cases, due |-> a, rank |-> r.rank, out |-> r.out]
    OBVIOUS
  <2>7. [r1 EXCEPT !.at = b] = r2
    BY <2>2, <2>6
  <2>8. q2 = [report |-> r2, verify |-> proc.verify, draft |-> proc.draft]
    BY <2>4, <2>5, <2>7
  <2>9. PICK q3 : q3 = [q2 EXCEPT !.report.rank = c]
    OBVIOUS
  <2>10. PICK r3 : r3 = [at |-> b, scan |-> r.scan, cases |-> r.cases, due |-> a, rank |-> c, out |-> r.out]
    OBVIOUS
  <2>11. [r2 EXCEPT !.rank = c] = r3
    BY <2>6, <2>10
  <2>12. q3 = [report |-> r3, verify |-> proc.verify, draft |-> proc.draft]
    BY <2>8, <2>9, <2>11
  <2>13. [proc EXCEPT !.report = r3] = q3
    BY <2>12, ReportsProc
  <2> QED
    BY <2>1, <2>5, <2>9, <2>10, <2>13 DEF ReportsGraded
<1>4. ASSUME NEW a, NEW b
      PROVE  ReportsWritten(proc, a, b)
              = [proc EXCEPT !.report = [at |-> r.at, scan |-> r.scan, cases |-> r.cases, due |-> r.due, rank |-> a, out |-> b]]
  <2>1. PICK q1 : q1 = [proc EXCEPT !.report.rank = a]
    OBVIOUS
  <2>2. PICK r1 : r1 = [at |-> r.at, scan |-> r.scan, cases |-> r.cases, due |-> r.due, rank |-> a, out |-> r.out]
    OBVIOUS
  <2>3. [r EXCEPT !.rank = a] = r1
    BY <1>2, <2>2
  <2>4. q1 = [report |-> r1, verify |-> proc.verify, draft |-> proc.draft]
    BY <1>1, <2>1, <2>3
  <2>5. PICK q2 : q2 = [q1 EXCEPT !.report.out = b]
    OBVIOUS
  <2>6. PICK r2 : r2 = [at |-> r.at, scan |-> r.scan, cases |-> r.cases, due |-> r.due, rank |-> a, out |-> b]
    OBVIOUS
  <2>7. [r1 EXCEPT !.out = b] = r2
    BY <2>2, <2>6
  <2>8. q2 = [report |-> r2, verify |-> proc.verify, draft |-> proc.draft]
    BY <2>4, <2>5, <2>7
  <2>9. [proc EXCEPT !.report = r2] = q2
    BY <2>8, ReportsProc
  <2> QED
    BY <2>1, <2>5, <2>6, <2>9 DEF ReportsWritten
<1> QED
  BY <1>3, <1>4

LEMMA ReportsGrade == ASSUME ReportsInv, NEW f \in Findings, Reports!Grade(f) PROVE ReportsInv'
<1>1. PICK r : r = proc.report
  OBVIOUS
<1>2. ReportsOnWay(r) /\ r.at = "grade" /\ f \in r.due /\ UNCHANGED <<db, hist>>
  BY <1>1 DEF Reports!Grade, ReportsInv
<1>3. PICK e : e = [finding |-> f, score |-> Reports!Score(f)]
  OBVIOUS
<1>4. e \in ReportsRank /\ e.finding = f
  <2>1. db.marks[f] \in Scores \cup {0}
    BY ReportsTypes
  <2>2. Reports!Score(f) \in Scores \cup {2}
    BY <2>1 DEF Reports!Score
  <2> QED
    BY <1>3, <2>2 DEF ReportsRank
<1>5. PICK at : at = IF r.due = {f} THEN "write" ELSE "grade"
  OBVIOUS
<1>6. PICK due : due = r.due \ {f}
  OBVIOUS
<1>7. PICK rank : rank = r.rank \cup {e}
  OBVIOUS
<1>8. proc' = ReportsGraded(proc, due, at, rank)
  BY <1>1, <1>3, <1>5, <1>6, <1>7 DEF Reports!Grade, ReportsGraded
<1>9. PICK q : q = [at |-> at, scan |-> r.scan, cases |-> r.cases, due |-> due, rank |-> rank, out |-> r.out]
  OBVIOUS
<1>10. proc' = [proc EXCEPT !.report = q]
  <2>1. proc' = [proc EXCEPT !.report = [at |-> at, scan |-> r.scan, cases |-> r.cases, due |-> due, rank |-> rank, out |-> r.out]]
    BY <1>1, <1>8, ReportsNested
  <2> QED
    BY <1>8, <1>9, <2>1, Zenon
<1>11. r.out = <<>> /\ r.due \subseteq Findings /\ r.rank \subseteq ReportsRank
  BY <1>2 DEF ReportsOnWay
<1>12. /\ \A g : g \in r.cases <=> g \in r.due \/ \E x \in r.rank : x.finding = g
       /\ \A x \in r.rank : x.finding \notin r.due /\ \A y \in r.rank : x.finding = y.finding => x = y
  BY <1>2, <1>11 DEF ReportsOnWay
<1>13. \A g : g \in r.cases <=> g \in due \/ \E x \in rank : x.finding = g
  BY <1>2, <1>4, <1>6, <1>7, <1>12
<1>14. \A x \in rank : x.finding \notin due /\ \A y \in rank : x.finding = y.finding => x = y
  BY <1>2, <1>4, <1>6, <1>7, <1>12
<1>15. due \subseteq Findings /\ rank \subseteq ReportsRank /\ at \in {"grade", "write"} /\ (at = "write" => due = {})
  BY <1>4, <1>5, <1>6, <1>7, <1>11
<1>16. /\ q.at = at /\ q.due = due /\ q.rank = rank /\ q.out = <<>> /\ q.cases = r.cases
       /\ q = [at |-> q.at, scan |-> q.scan, cases |-> q.cases, due |-> q.due, rank |-> q.rank, out |-> q.out]
  BY <1>9, <1>11
<1>17. ReportsOnWay(q)
  BY <1>13, <1>14, <1>15, <1>16 DEF ReportsOnWay
<1> QED
  BY <1>2, <1>10, <1>17, ReportsSteps

LEMMA ReportsWrite == ASSUME ReportsInv, Reports!WriteSection PROVE ReportsInv'
<1>1. PICK r : r = proc.report
  OBVIOUS
<1>2. ReportsOnWay(r) /\ r.at = "write" /\ r.rank # {} /\ UNCHANGED <<db, hist>>
  BY <1>1 DEF Reports!WriteSection, ReportsInv
<1>3. PICK x : x = Reports!Next1(r.rank)
  OBVIOUS
<1>4. r.rank \in SUBSET ReportsRank /\ r.out \in Seq(ReportsSection) /\ r.due = {}
  BY <1>2 DEF ReportsOnWay
<1>5. x \in r.rank /\ \A y \in r.rank : y.score <= x.score
  BY <1>2, <1>3, <1>4, ReportsNext
<1>6. PICK e : e = [finding |-> x.finding, score |-> x.score, claims |-> Reports!Verification(x.finding), evidence |-> Reports!Evidence(x.finding)]
  OBVIOUS
<1>7. e \in ReportsSection /\ e.finding = x.finding /\ e.score = x.score
  <2>1. Reports!Verification(x.finding) \in {{"not-recorded"}, Reports!Claims}
    BY ReportsVerified
  <2>2. Reports!Seen \subseteq ReportsSeen
    BY ReportsTypes DEF Reports!Seen
  <2>3. Reports!Evidence(x.finding) \in ReportsSeen \cup {Reports!Nothing}
    BY <2>2, ReportsBundleOf DEF Reports!Evidence
  <2>4. x.finding \in Findings /\ x.score \in Scores \cup {2}
    BY <1>4, <1>5 DEF ReportsRank
  <2> QED
    BY <1>6, <2>1, <2>3, <2>4 DEF ReportsSection
<1>8. PICK rank : rank = r.rank \ {x}
  OBVIOUS
<1>9. PICK out : out = Append(r.out, e)
  OBVIOUS
<1>10. proc' = ReportsWritten(proc, rank, out)
  BY <1>1, <1>3, <1>6, <1>8, <1>9 DEF Reports!WriteSection, ReportsWritten
<1>11. PICK q : q = [at |-> r.at, scan |-> r.scan, cases |-> r.cases, due |-> r.due, rank |-> rank, out |-> out]
  OBVIOUS
<1>12. proc' = [proc EXCEPT !.report = q]
  <2>1. proc' = [proc EXCEPT !.report = [at |-> r.at, scan |-> r.scan, cases |-> r.cases, due |-> r.due, rank |-> rank, out |-> out]]
    BY <1>1, <1>10, ReportsNested
  <2> QED
    BY <1>10, <1>11, <2>1, Zenon
<1>13. out \in Seq(ReportsSection)
  BY <1>4, <1>7, <1>9
<1>14. PICK n \in Nat : n = Len(r.out)
  BY <1>4
<1>15. /\ DOMAIN out = 1 .. n + 1 /\ DOMAIN r.out = 1 .. n /\ out[n + 1] = e
       /\ \A i \in 1 .. n : out[i] = r.out[i]
  BY <1>4, <1>7, <1>9, <1>14
<1>16. /\ \A f : f \in r.cases <=> (\E y \in r.rank : y.finding = f) \/ \E i \in 1 .. n : r.out[i].finding = f
       /\ \A y, z \in r.rank : y.finding = z.finding => y = z
       /\ \A i \in 1 .. n : \A y \in r.rank : y.finding # r.out[i].finding /\ y.score <= r.out[i].score
       /\ \A i, j \in 1 .. n : r.out[i].finding = r.out[j].finding => i = j
       /\ \A i, j \in 1 .. n : i < j => r.out[i].score >= r.out[j].score
  BY <1>2, <1>4, <1>15 DEF ReportsOnWay
<1>17. ASSUME NEW f PROVE f \in r.cases <=> (\E y \in rank : y.finding = f) \/ \E i \in 1 .. n + 1 : out[i].finding = f
  <2>1. (\E y \in r.rank : y.finding = f) <=> (\E y \in rank : y.finding = f) \/ x.finding = f
    BY <1>5, <1>8
  <2>2. (\E i \in 1 .. n + 1 : out[i].finding = f) <=> (\E i \in 1 .. n : r.out[i].finding = f) \/ e.finding = f
    <3>1. \A i \in 1 .. n + 1 : i = n + 1 \/ i \in 1 .. n
      OBVIOUS
    <3>2. n + 1 \in 1 .. n + 1 /\ \A i \in 1 .. n : i \in 1 .. n + 1
      OBVIOUS
    <3> QED
      BY <3>1, <3>2, <1>15
  <2> QED
    BY <2>1, <2>2, <1>7, <1>16
<1>18. \A y, z \in rank : y.finding = z.finding => y = z
  BY <1>8, <1>16
<1>19. ASSUME NEW i \in 1 .. n + 1, NEW y \in rank PROVE y.finding # out[i].finding /\ y.score <= out[i].score
  <2>1. y \in r.rank /\ y # x
    BY <1>8
  <2>2. CASE i = n + 1
    BY <2>1, <2>2, <1>5, <1>7, <1>15, <1>16
  <2>3. CASE i \in 1 .. n
    BY <2>1, <2>3, <1>15, <1>16
  <2> QED
    BY <2>2, <2>3
<1>20. ASSUME NEW i \in 1 .. n + 1, NEW j \in 1 .. n + 1
       PROVE  (out[i].finding = out[j].finding => i = j) /\ (i < j => out[i].score >= out[j].score)
  <2>1. CASE i \in 1 .. n /\ j \in 1 .. n
    BY <2>1, <1>15, <1>16
  <2>2. CASE i = n + 1 /\ j \in 1 .. n
    BY <2>2, <1>5, <1>7, <1>15, <1>16
  <2>3. CASE i \in 1 .. n /\ j = n + 1
    <3>1. out[i] = r.out[i] /\ out[j] = e
      BY <2>3, <1>15
    <3>2. x.finding # r.out[i].finding /\ x.score <= r.out[i].score
      BY <2>3, <1>5, <1>16
    <3>3. x.score \in Nat /\ r.out[i].score \in Nat
      <4>1. x.score \in Scores \cup {2}
        BY <1>4, <1>5 DEF ReportsRank
      <4>2. r.out[i] \in ReportsSection
        BY <2>3, <1>4, <1>15
      <4>3. r.out[i].score \in Scores \cup {2}
        BY <4>2 DEF ReportsSection
      <4>4. \A v \in Scores : v \in Nat
        BY ScoresAreBounded
      <4>5. \A v \in Scores \cup {2} : v \in Nat
        BY <4>4
      <4> QED
        BY <4>1, <4>3, <4>5, Zenon
    <3> QED
      BY <3>1, <3>2, <3>3, <1>7
  <2>4. CASE i = n + 1 /\ j = n + 1
    BY <2>4
  <2> QED
    BY <2>1, <2>2, <2>3, <2>4
<1>21. /\ q.at = "write" /\ q.due = {} /\ q.rank = rank /\ q.out = out /\ q.cases = r.cases
       /\ q = [at |-> q.at, scan |-> q.scan, cases |-> q.cases, due |-> q.due, rank |-> q.rank, out |-> q.out]
  BY <1>2, <1>4, <1>11
<1>22. rank \subseteq ReportsRank
  BY <1>4, <1>8
<1>23. ReportsOnWay(q)
  BY <1>13, <1>15, <1>17, <1>18, <1>19, <1>20, <1>21, <1>22 DEF ReportsOnWay
<1> QED
  BY <1>2, <1>12, <1>23, ReportsSteps

LEMMA ReportsRendered == ASSUME ReportsInv, Reports!Rendered PROVE ReportsInv'
<1>1. PICK r : r = proc.report
  OBVIOUS
<1>2. ReportsOnWay(r) /\ r.at = "write" /\ r.rank = {} /\ UNCHANGED db
  BY <1>1 DEF Reports!Rendered, ReportsInv
<1>3. PICK hr : hr = [cases |-> r.cases, out |-> r.out]
  OBVIOUS
<1>4. hist' = [report |-> hr, draft |-> hist.draft]
  BY <1>1, <1>3, ReportsProc DEF Reports!Rendered
<1>5. proc' = [report |-> Reports!NoReport, verify |-> proc.verify, draft |-> proc.draft]
  BY ReportsProc DEF Reports!Rendered
<1>6. hist'.report = hr /\ hr.cases = r.cases /\ hr.out = r.out
  BY <1>3, <1>4
<1>7. /\ r.out \in Seq(ReportsSection) /\ r.due = {}
      /\ \A f : f \in r.cases <=> \E i \in DOMAIN r.out : r.out[i].finding = f
      /\ \A i, j \in DOMAIN r.out : r.out[i].finding = r.out[j].finding => i = j
      /\ \A i, j \in DOMAIN r.out : i < j => r.out[i].score >= r.out[j].score
  BY <1>2 DEF ReportsOnWay
<1>8. {r.out[i].finding : i \in DOMAIN r.out} = r.cases
  BY <1>7
<1>9. Len(r.out) = Cardinality(r.cases)
  <2>1. PICK n \in Nat : n = Len(r.out) /\ DOMAIN r.out = 1 .. n
    BY <1>7
  <2>2. PICK g : g = [i \in 1 .. n |-> r.out[i].finding]
    OBVIOUS
  <2>3. g \in [1 .. n -> r.cases] /\ (\A i, j \in 1 .. n : g[i] = g[j] => i = j) /\ \A f \in r.cases : \E i \in 1 .. n : g[i] = f
    BY <1>7, <2>1, <2>2
  <2>4. g \in Bijection(1 .. n, r.cases)
    BY <2>3 DEF Bijection, Injection, Surjection, IsInjective
  <2>5. ExistsBijection(1 .. n, r.cases)
    BY <2>4 DEF ExistsBijection
  <2> QED
    BY <2>1, <2>5, FS_CountingElements
<1>10. \A i \in DOMAIN r.out : r.out[i].claims \in {{"not-recorded"}, Reports!Claims}
  <2>1. \A i \in DOMAIN r.out : r.out[i] \in ReportsSection
    BY <1>7
  <2> QED
    BY <2>1 DEF ReportsSection
<1>11. Reports!ReportIsWhole'
  BY <1>6, <1>7, <1>8, <1>9, <1>10, ReportsCardinality DEF Reports!ReportIsWhole
<1>12. ReportsOnWay(Reports!NoReport)
  BY DEF ReportsOnWay, Reports!NoReport
<1>13. proc.verify.at = "put" => proc.verify.finding \in Findings
  BY DEF ReportsInv, ReportsBound
<1> QED
  BY <1>2, <1>4, <1>5, <1>11, <1>12, <1>13, ReportsMoves

LEMMA ReportsStep == ASSUME ReportsInv, [Reports!Next]_(Reports!vars) PROVE ReportsInv'
<1>1. CASE UNCHANGED Reports!vars
  <2>1. db' = db /\ proc' = proc /\ hist' = hist
    BY <1>1 DEF Reports!vars
  <2>2. UNCHANGED <<proc, hist>> /\ ReportsTyped' /\ db'.seen = db.seen /\ Reports!Seen' = Reports!Seen
    BY <2>1 DEF ReportsInv, ReportsTyped, Reports!Seen
  <2>3. \A i \in DOMAIN db'.bundles : db'.bundles[i].of \in Reports!Seen'
    BY <2>1, <2>2 DEF ReportsInv, ReportsBound
  <2> QED
    BY <2>2, <2>3, ReportsStore
<1>2. CASE Reports!Next
  BY <1>2, ReportsObserve, ReportsAssemble, ReportsSettle, ReportsClassify, ReportsVerify, ReportsRecords,
     ReportsAsk, ReportsDrafted, ReportsRanked, ReportsGrade, ReportsWrite, ReportsRendered DEF Reports!Next
<1> QED
  BY <1>1, <1>2

LEMMA ReportsHold == ReportsInv => Reports!ReportIsWhole /\ Reports!DraftIsOfItsScan
  BY DEF ReportsInv

LEMMA ReportsPart == SuiteSpec => [](part = "reports" => ReportsInv)
<1>1. SuiteInit => (part = "reports" => ReportsInv)
  BY ReportsInit DEF SuiteInit
<1>2. (part = "reports" => ReportsInv) /\ [SuiteNext]_suiteVars => (part = "reports" => ReportsInv)'
  <2> SUFFICES ASSUME part = "reports", ReportsInv, [SuiteNext]_suiteVars PROVE ReportsInv'
    BY DEF SuiteNext, suiteVars
  <2>1. [Reports!Next]_(Reports!vars)
    BY DEF SuiteNext, suiteVars, state, Reports!vars
  <2> QED
    BY <2>1, ReportsStep
<1> QED
  BY <1>1, <1>2, PTL DEF SuiteSpec

\* v3 reporting: a report has one section for each case that was ranked, by
\* score, never with half of a verification's claims, and a draft keeps to its
\* scan, and to one tool run of it unless the scan made the case; for any scans,
\* runs, findings and scores.
THEOREM ReportsAreAlwaysWhole == SuiteSpec => []ReportsAreWhole
<1>1. (part = "reports" => ReportsInv) => ReportsAreWhole
  BY ReportsHold DEF ReportsAreWhole
<1> QED
  BY <1>1, ReportsPart, PTL
-----------------------------------------------------------------------------
(* Redaction *)

LEMMA TextCardinality == \A S : Text!Cardinality(S) = Cardinality(S)
BY DEF Text!Cardinality, Cardinality

LEMMA TextMatches ==
  /\ IsFiniteSet(Text!Matches)
  /\ \A m \in Text!Matches : /\ m.span = <<m.span[1], m.span[2]>> /\ m = [span |-> m.span, rule |-> m.rule]
                             /\ m.span[1] \in Nat /\ m.span[2] \in Nat /\ m.rule \in Nat
                             /\ m.span[1] < m.span[2] /\ m.span[2] <= Size
<1>1. IsFiniteSet(0 .. Size)
  BY RulesAreRanked, FS_Interval
<1>2. IsFiniteSet((0 .. Size) \X (0 .. Size))
  BY <1>1, FS_Product
<1>3. Text!Spans \in SUBSET ((0 .. Size) \X (0 .. Size))
  BY DEF Text!Spans
<1>4. IsFiniteSet(Text!Spans)
  BY <1>2, <1>3, FS_Subset
<1>5. IsFiniteSet(Text!Spans \X (Builtin \cup Terms))
  BY <1>4, RulesAreRanked, FS_Product
<1> DEFINE f == [z \in Text!Spans \X (Builtin \cup Terms) |-> [span |-> z[1], rule |-> z[2]]]
<1>6. f \in Surjection(Text!Spans \X (Builtin \cup Terms), Text!Matches)
  <2>1. f \in [Text!Spans \X (Builtin \cup Terms) -> Text!Matches]
    BY DEF Text!Matches
  <2>2. ASSUME NEW m \in Text!Matches PROVE \E z \in Text!Spans \X (Builtin \cup Terms) : f[z] = m
    <3>1. <<m.span, m.rule>> \in Text!Spans \X (Builtin \cup Terms) /\ f[<<m.span, m.rule>>] = m
      BY DEF Text!Matches
    <3> QED
      BY <3>1
  <2> HIDE DEF f
  <2> QED
    BY <2>1, <2>2 DEF Surjection
<1>7. IsFiniteSet(Text!Matches)
  <2> HIDE DEF f
  <2> QED
    BY <1>5, <1>6, FS_Surjection
<1>8. ASSUME NEW m \in Text!Matches
      PROVE  /\ m.span = <<m.span[1], m.span[2]>> /\ m = [span |-> m.span, rule |-> m.rule]
             /\ m.span[1] \in Nat /\ m.span[2] \in Nat /\ m.rule \in Nat
             /\ m.span[1] < m.span[2] /\ m.span[2] <= Size
  BY RulesAreRanked DEF Text!Matches, Text!Spans
<1> QED
  BY <1>7, <1>8

\* Of some matches one is before all others, so none starts earlier.
LEMMA TextForemost ==
  ASSUME NEW ms \in SUBSET Text!Matches, ms # {}
  PROVE  Text!Foremost(ms) \in ms /\ \A n \in ms : Text!Foremost(ms).span[1] <= n.span[1]
<1>1. \A m \in ms : /\ m.span = <<m.span[1], m.span[2]>> /\ m = [span |-> m.span, rule |-> m.rule]
                    /\ m.span[1] \in Nat /\ m.span[2] \in Nat /\ m.rule \in Nat /\ m.span[2] <= Size
  BY TextMatches
<1>2. PICK a \in Nat : (\E m \in ms : m.span[1] = a) /\ \A m \in ms : a <= m.span[1]
  <2> DEFINE A == {m.span[1] : m \in ms}
  <2>1. A \in SUBSET Nat /\ A # {}
    BY <1>1
  <2>2. PICK x \in A : \A y \in A : x <= y
    <3> HIDE DEF A
    <3> QED
      BY <2>1, LeastOf
  <2> QED
    BY <2>1, <2>2
<1>3. PICK b \in Nat : /\ \E m \in ms : m.span[1] = a /\ m.span[2] = b
                       /\ \A m \in ms : m.span[1] = a => m.span[2] <= b
  <2> DEFINE B == {m.span[2] : m \in {k \in ms : k.span[1] = a}}
  <2>1. B \in SUBSET Nat /\ B # {} /\ \A x \in B : x <= Size
    BY <1>1, <1>2
  <2>2. PICK x \in B : \A y \in B : y <= x
    <3> HIDE DEF B
    <3> QED
      BY <2>1, RulesAreRanked, GreatestOf
  <2> QED
    BY <2>1, <2>2
<1>4. PICK c \in Nat : /\ \E m \in ms : m.span = <<a, b>> /\ m.rule = c
                       /\ \A m \in ms : m.span = <<a, b>> => c <= m.rule
  <2> DEFINE C == {m.rule : m \in {k \in ms : k.span = <<a, b>>}}
  <2>1. C \in SUBSET Nat /\ C # {}
    BY <1>1, <1>3
  <2>2. PICK x \in C : \A y \in C : x <= y
    <3> HIDE DEF C
    <3> QED
      BY <2>1, LeastOf
  <2> QED
    BY <2>1, <2>2
<1>5. PICK m \in ms : m.span = <<a, b>> /\ m.rule = c
  BY <1>4
<1>6. ASSUME NEW n \in ms \ {m} PROVE Text!Before(m, n)
  <2>1. m.span[1] = a /\ m.span[2] = b
    BY <1>5
  <2>2. CASE n.span[1] # a
    <3>1. a < n.span[1]
      BY <1>1, <1>2, <2>2
    <3> QED
      BY <2>1, <3>1 DEF Text!Before
  <2>3. CASE n.span[1] = a /\ n.span[2] # b
    <3>1. b > n.span[2]
      BY <1>1, <1>3, <2>3
    <3> QED
      BY <2>1, <2>3, <3>1 DEF Text!Before
  <2>4. CASE n.span[1] = a /\ n.span[2] = b
    <3>1. n.span = <<a, b>>
      BY <1>1, <2>4
    <3>2. n.rule # c
      BY <1>1, <1>5, <1>6, <3>1
    <3>3. c < n.rule
      BY <1>1, <1>4, <3>1, <3>2
    <3> QED
      BY <1>5, <3>1, <3>3 DEF Text!Before
  <2> QED
    BY <2>2, <2>3, <2>4
<1>7. PICK z : z = Text!Foremost(ms)
  OBVIOUS
<1>8. z \in ms /\ \A n \in ms \ {z} : Text!Before(z, n)
  BY <1>6, <1>7 DEF Text!Foremost
<1>9. ASSUME NEW n \in ms PROVE z.span[1] <= n.span[1]
  <2>1. CASE n = z
    BY <1>1, <1>8, <2>1
  <2>2. CASE n # z
    <3>1. Text!Before(z, n)
      BY <1>8, <2>2
    <3> QED
      BY <1>1, <1>8, <3>1 DEF Text!Before
  <2> QED
    BY <2>1, <2>2
<1> QED
  BY <1>7, <1>8, <1>9

\* What has been selected of c: in order, and something of every match that starts
\* before the end of the last one.
TextEnd(s) == IF s = <<>> THEN 0 ELSE s[Len(s)].span[2]
TextMeet(a, b) == a[1] < b[2] /\ b[1] < a[2]

TextPicks(c) ==
  {s \in Seq(c) :
     /\ \A i, j \in 1 .. Len(s) : i < j => s[i].span[2] <= s[j].span[1]
     /\ \A i \in 1 .. Len(s) : s[i].span[2] <= TextEnd(s)
     /\ \A m \in c : m.span[1] < TextEnd(s) => \E i \in 1 .. Len(s) : TextMeet(m.span, s[i].span)}

TextNext(c, s) ==
  IF Text!Free(c, TextEnd(s)) = {} THEN s ELSE Append(s, Text!Foremost(Text!Free(c, TextEnd(s))))

LEMMA TextPicked ==
  ASSUME NEW c \in SUBSET Text!Matches, NEW s \in TextPicks(c), Text!Free(c, TextEnd(s)) # {}
  PROVE  /\ TextNext(c, s) \in TextPicks(c)
         /\ \E m \in Text!Free(c, TextEnd(s)) :
              Text!Free(c, TextEnd(TextNext(c, s))) \subseteq Text!Free(c, TextEnd(s)) \ {m}
<1> DEFINE free == Text!Free(c, TextEnd(s))
           z == Text!Foremost(free)
<1>1. free \in SUBSET Text!Matches /\ free \subseteq c /\ free # {}
  BY DEF Text!Free
<1>2. z \in free /\ \A n \in free : z.span[1] <= n.span[1]
  <2> HIDE DEF free
  <2> QED
    BY <1>1, TextForemost
<1>3. PICK e \in Nat : e = TextEnd(s) /\ s \in Seq(c)
  BY TextMatches DEF TextPicks, TextEnd
<1>4. /\ z \in c /\ z.span[1] \in Nat /\ z.span[2] \in Nat /\ z.span[1] < z.span[2] /\ e <= z.span[1]
      /\ \A m \in free : e <= m.span[1]
      /\ \A m \in c : m.span[1] >= e => m \in free
  BY <1>1, <1>2, <1>3, TextMatches DEF Text!Free
<1>5. PICK k \in Nat : k = Len(s)
  BY <1>3
<1>6. PICK t : t = Append(s, z) /\ t = TextNext(c, s)
  BY DEF TextNext
<1> HIDE DEF free, z
<1>7. t \in Seq(c) /\ Len(t) = k + 1 /\ t[k + 1] = z /\ (\A i \in 1 .. k : t[i] = s[i]) /\ t # <<>>
  <2>1. z \in c /\ s \in Seq(c) /\ t = Append(s, z) /\ k = Len(s)
    BY <1>3, <1>4, <1>5, <1>6
  <2>2. t \in Seq(c) /\ Len(t) = Len(s) + 1 /\ t[Len(s) + 1] = z /\ \A i \in 1 .. Len(s) : t[i] = s[i]
    BY <2>1, AppendProperties
  <2>3. t # <<>>
    BY <2>1, <2>2, <1>5
  <2> QED
    BY <2>1, <2>2, <2>3
<1>8. TextEnd(t) = z.span[2]
  BY <1>7 DEF TextEnd
<1>9. \A i \in 1 .. k : s[i] \in c /\ s[i].span[1] \in Nat /\ s[i].span[2] \in Nat /\ s[i].span[2] <= e
  <2>1. ASSUME NEW i \in 1 .. k PROVE s[i] \in c
    BY <1>3, <1>5
  <2> QED
    BY <1>3, <1>5, <2>1, TextMatches DEF TextPicks
<1>10. ASSUME NEW i \in 1 .. Len(t), NEW j \in 1 .. Len(t), i < j PROVE t[i].span[2] <= t[j].span[1]
  <2>1. i \in 1 .. k
    BY <1>7, <1>10
  <2>2. CASE j = k + 1
    <3>1. t[i].span[2] = s[i].span[2] /\ t[j].span[1] = z.span[1]
      BY <1>7, <2>1, <2>2
    <3>2. s[i].span[2] \in Nat /\ s[i].span[2] <= e
      BY <1>9, <2>1
    <3> QED
      BY <1>3, <1>4, <3>1, <3>2
  <2>3. CASE j # k + 1
    <3>1. j \in 1 .. k
      BY <1>7, <2>3
    <3>2. s[i].span[2] <= s[j].span[1]
      BY <1>5, <1>10, <2>1, <3>1 DEF TextPicks
    <3>3. t[i].span[2] = s[i].span[2] /\ t[j].span[1] = s[j].span[1]
      BY <1>7, <2>1, <3>1
    <3> QED
      BY <3>2, <3>3
  <2> QED
    BY <2>2, <2>3
<1>11. ASSUME NEW i \in 1 .. Len(t) PROVE t[i].span[2] <= TextEnd(t)
  <2>1. CASE i = k + 1
    BY <1>4, <1>7, <1>8, <2>1
  <2>2. CASE i # k + 1
    <3>1. i \in 1 .. k
      BY <1>7, <2>2
    <3>2. t[i].span[2] = s[i].span[2] /\ s[i].span[2] \in Nat /\ s[i].span[2] <= e
      BY <1>7, <1>9, <3>1
    <3> QED
      BY <1>4, <1>8, <3>2
  <2> QED
    BY <2>1, <2>2
<1>12. ASSUME NEW m \in c, m.span[1] < TextEnd(t) PROVE \E i \in 1 .. Len(t) : TextMeet(m.span, t[i].span)
  <2>0. m.span[1] \in Nat /\ m.span[2] \in Nat /\ m.span[1] < m.span[2]
    BY TextMatches
  <2>1. CASE m.span[1] < e
    <3>1. PICK i \in 1 .. k : TextMeet(m.span, s[i].span)
      BY <1>3, <1>5, <2>1 DEF TextPicks
    <3>2. i \in 1 .. Len(t) /\ t[i].span = s[i].span
      BY <1>7, <3>1
    <3> QED
      BY <3>1, <3>2
  <2>2. CASE ~(m.span[1] < e)
    <3>1. m \in free
      BY <1>3, <1>4, <2>0, <2>2
    <3>2. z.span[1] <= m.span[1] /\ m.span[1] < z.span[2]
      BY <1>2, <1>8, <1>12, <3>1
    <3>3. TextMeet(m.span, z.span)
      BY <1>4, <2>0, <3>2 DEF TextMeet
    <3>4. k + 1 \in 1 .. Len(t) /\ t[k + 1] = z
      BY <1>7
    <3> QED
      BY <3>3, <3>4
  <2> QED
    BY <2>1, <2>2
<1>13. t \in TextPicks(c)
  BY <1>7, <1>10, <1>11, <1>12 DEF TextPicks
<1>14. Text!Free(c, TextEnd(t)) \subseteq free \ {z}
  <2> SUFFICES ASSUME NEW m \in c, m.span[1] >= z.span[2] PROVE m \in free /\ m # z
    BY <1>8 DEF Text!Free
  <2>1. m.span[1] \in Nat
    BY TextMatches
  <2> QED
    BY <1>3, <1>4, <2>1
<1> QED
  BY <1>2, <1>6, <1>13, <1>14 DEF free

\* Nothing that could still be selected remains.
LEMMA TextSelects ==
  ASSUME NEW c \in SUBSET Text!Matches
  PROVE  Text!Selected(c) \in TextPicks(c) /\ Text!Free(c, TextEnd(Text!Selected(c))) = {}
<1>1. PICK n \in Nat : n = Cardinality(c) /\ IsFiniteSet(c)
  <2>1. IsFiniteSet(c)
    BY TextMatches, FS_Subset
  <2> QED
    BY <2>1, FS_CardinalityType
<1> DEFINE T == TextPicks(c)
           Left(s) == Text!Free(c, TextEnd(s))
           F == [z \in T \X (Nat \ {0}) |-> TextNext(c, z[1])]
           Is(g) == g = [k \in 0 .. n |-> IF k = 0 THEN <<>> ELSE TextNext(c, g[k-1])]
<1>2. <<>> \in T
  <2>1. <<>> \in Seq(c) /\ Len(<<>>) = 0 /\ TextEnd(<<>>) = 0
    BY DEF TextEnd
  <2>2. \A m \in c : m.span[1] \in Nat
    BY TextMatches
  <2> QED
    BY <2>1, <2>2 DEF TextPicks
<1>3. \A s \in T : TextNext(c, s) \in T
  <2> SUFFICES ASSUME NEW s \in T PROVE TextNext(c, s) \in T
    OBVIOUS
  <2>1. CASE Left(s) = {}
    BY <2>1 DEF TextNext
  <2>2. CASE Left(s) # {}
    BY <2>2, TextPicked
  <2> QED
    BY <2>1, <2>2
<1>4. F \in [T \X (Nat \ {0}) -> T]
  <2> HIDE DEF T
  <2> QED
    BY <1>3
<1>5. PICK g : GoesOn(T, F, <<>>, n, g)
  <2> HIDE DEF T, F
  <2> QED
    BY <1>2, <1>4, UpTo
<1>6. Is(g)
  <2>1. ASSUME NEW i \in 0 .. n, i # 0 PROVE F[<<g[i-1], i>>] = TextNext(c, g[i-1])
    <3>1. g[i-1] \in T /\ i \in 1 .. n /\ i \in Nat \ {0}
      <4> HIDE DEF T, F
      <4> QED
        BY <1>5, <2>1 DEF GoesOn
    <3> HIDE DEF T
    <3> QED
      BY <3>1
  <2> HIDE DEF F, T
  <2>2. g \in [0 .. n -> T] /\ g[0] = <<>> /\ \A i \in 1 .. n : g[i] = F[<<g[i-1], i>>]
    BY <1>5 DEF GoesOn
  <2>3. ASSUME NEW i \in 0 .. n PROVE g[i] = IF i = 0 THEN <<>> ELSE TextNext(c, g[i-1])
    <3>1. CASE i = 0
      BY <2>2, <3>1
    <3>2. CASE i # 0
      <4>1. i \in 1 .. n
        BY <3>2
      <4> QED
        BY <2>1, <2>2, <3>2, <4>1
    <3> QED
      BY <3>1, <3>2
  <2> QED
    BY <2>2, <2>3
<1>7. PICK d : d = (CHOOSE h : Is(h))
  OBVIOUS
<1>8. Is(d)
  BY <1>6, <1>7
<1>9. Text!Selected(c) = d[n]
  <2>1. Text!Cardinality(c) = n
    BY <1>1, TextCardinality
  <2> QED
    BY <1>7, <2>1 DEF Text!Selected, TextNext, TextEnd
<1>10. d[0] = <<>> /\ \A i \in 1 .. n : d[i] = TextNext(c, d[i-1])
  BY <1>8
<1> DEFINE S == {k \in Nat : k <= n => d[k] \in T /\ (Left(d[k]) = {} \/ Cardinality(Left(d[k])) + k <= n)}
<1>11. \A s : IsFiniteSet(Left(s)) /\ Cardinality(Left(s)) \in Nat /\ Cardinality(Left(s)) <= n
  <2> SUFFICES ASSUME NEW s PROVE IsFiniteSet(Left(s)) /\ Cardinality(Left(s)) \in Nat /\ Cardinality(Left(s)) <= n
    OBVIOUS
  <2>1. Left(s) \in SUBSET c
    BY DEF Text!Free
  <2>2. IsFiniteSet(Left(s)) /\ Cardinality(Left(s)) <= n
    BY <1>1, <2>1, FS_Subset
  <2> QED
    BY <2>2, FS_CardinalityType
<1>12. 0 \in S
  <2>1. d[0] \in T /\ Cardinality(Left(d[0])) + 0 <= n
    BY <1>2, <1>10, <1>11
  <2> QED
    BY <2>1
<1>13. ASSUME NEW k \in Nat, k \in S PROVE k + 1 \in S
  <2> SUFFICES ASSUME k + 1 <= n
      PROVE  d[k + 1] \in T /\ (Left(d[k + 1]) = {} \/ Cardinality(Left(d[k + 1])) + (k + 1) <= n)
    OBVIOUS
  <2>1. d[k] \in T /\ (Left(d[k]) = {} \/ Cardinality(Left(d[k])) + k <= n) /\ d[k + 1] = TextNext(c, d[k])
    <3>1. k + 1 \in 1 .. n /\ (k + 1) - 1 = k /\ k <= n
      BY <1>13
    <3>2. d[k + 1] = TextNext(c, d[k])
      BY <1>10, <3>1
    <3> QED
      BY <1>13, <3>1, <3>2
  <2>2. CASE Left(d[k]) = {}
    BY <2>1, <2>2 DEF TextNext
  <2>3. CASE Left(d[k]) # {}
    <3>1. PICK m \in Left(d[k]) : Left(d[k + 1]) \subseteq Left(d[k]) \ {m}
      BY <2>1, <2>3, TextPicked
    <3>2. PICK l \in Nat : l = Cardinality(Left(d[k])) /\ l + k <= n /\ IsFiniteSet(Left(d[k]))
      BY <1>11, <2>1, <2>3
    <3>3. IsFiniteSet(Left(d[k]) \ {m}) /\ Cardinality(Left(d[k]) \ {m}) = l - 1
      BY <3>1, <3>2, FS_RemoveElement
    <3>4. Cardinality(Left(d[k + 1])) <= Cardinality(Left(d[k]) \ {m})
      BY <3>1, <3>3, FS_Subset
    <3>5. PICK j \in Nat : j = Cardinality(Left(d[k + 1]))
      BY <1>11
    <3>6. j + (k + 1) <= n
      BY <3>2, <3>3, <3>4, <3>5
    <3>7. d[k + 1] \in T
      BY <1>3, <2>1
    <3> QED
      BY <3>5, <3>6, <3>7
  <2> QED
    BY <2>2, <2>3
<1>14. n \in S
  <2> HIDE DEF S
  <2> QED
    BY <1>1, <1>12, <1>13, NatsOf
<1>15. d[n] \in T /\ (Left(d[n]) = {} \/ Cardinality(Left(d[n])) + n <= n)
  BY <1>14
<1>16. Left(d[n]) = {}
  <2>1. PICK l \in Nat : l = Cardinality(Left(d[n]))
    BY <1>11
  <2>2. l + n <= n => l = 0
    BY <1>1
  <2> QED
    BY <1>11, <1>15, <2>1, <2>2, FS_EmptySet
<1> QED
  BY <1>9, <1>15, <1>16

\* The entries of a text's candidates, as a function of those.
TextEntries(c) ==
  LET s == Text!Selected(c)
  IN [i \in DOMAIN s |-> [span |-> s[i].span, rule |-> s[i].rule,
                          n |-> Text!Cardinality({j \in 1 .. i : s[j].rule = s[i].rule})]]

LEMMA TextWhole ==
  ASSUME NEW c \in SUBSET Text!Matches, NEW e, e = TextEntries(c)
  PROVE  /\ \A m \in c : \E i \in DOMAIN e : Text!Meets(m.span, e[i].span)
         /\ \A i, j \in DOMAIN e : i < j => e[i].span[2] <= e[j].span[1]
<1>1. PICK s : s = Text!Selected(c)
  OBVIOUS
<1>2. s \in TextPicks(c) /\ Text!Free(c, TextEnd(s)) = {} /\ s \in Seq(c)
  BY <1>1, TextSelects DEF TextPicks
<1>3. DOMAIN e = DOMAIN s /\ DOMAIN s = 1 .. Len(s) /\ \A i \in DOMAIN s : e[i].span = s[i].span
  BY <1>1, <1>2 DEF TextEntries
<1>4. ASSUME NEW m \in c PROVE \E i \in DOMAIN e : Text!Meets(m.span, e[i].span)
  <2>1. TextEnd(s) \in Nat /\ m.span[1] \in Nat
    BY <1>2, TextMatches DEF TextEnd
  <2>2. m.span[1] < TextEnd(s)
    BY <1>2, <2>1 DEF Text!Free
  <2>3. PICK i \in 1 .. Len(s) : TextMeet(m.span, s[i].span)
    BY <1>2, <2>2 DEF TextPicks
  <2> QED
    BY <1>3, <2>3 DEF TextMeet, Text!Meets
<1>5. ASSUME NEW i \in DOMAIN e, NEW j \in DOMAIN e, i < j PROVE e[i].span[2] <= e[j].span[1]
  <2>1. s[i].span[2] <= s[j].span[1]
    BY <1>2, <1>3, <1>5 DEF TextPicks
  <2> QED
    BY <1>3, <2>1
<1> QED
  BY <1>4, <1>5

\* A run's view and map are stored before it is recorded, and nothing is taken
\* away; the text does not change.
TextInv ==
  /\ db = [found |-> db.found, table |-> db.table, stored |-> db.stored, runs |-> db.runs]
  /\ db.found \in SUBSET Text!Matches
  /\ proc \in [SUBSET Terms -> {"idle", "view", "map", "run"}]
  /\ \A t \in SUBSET Terms :
       /\ proc[t] \in {"map", "run"} => <<"view", t, TextEntries(Text!Candidates(t))>> \in db.stored
       /\ proc[t] = "run" => <<"map", t, TextEntries(Text!Candidates(t))>> \in db.stored
  /\ \A r \in db.runs : /\ r.entries = TextEntries(Text!Candidates(r.terms))
                        /\ {<<"view", r.terms, r.entries>>, <<"map", r.terms, r.entries>>} \subseteq db.stored

LEMMA TextInit == ASSUME Text!Init PROVE TextInv
<1>1. PICK found \in SUBSET Text!Matches : db = [found |-> found, table |-> {}, stored |-> {}, runs |-> {}]
  BY DEF Text!Init
<1>2. proc \in [SUBSET Terms -> {"idle", "view", "map", "run"}] /\ \A t \in SUBSET Terms : proc[t] = "idle"
  BY DEF Text!Init
<1> QED
  BY <1>1, <1>2 DEF TextInv

\* A step of one redaction.
LEMMA TextMoves ==
  ASSUME TextInv, NEW t \in SUBSET Terms, NEW e, e = TextEntries(Text!Candidates(t)),
         NEW at \in {"idle", "view", "map", "run"}, proc' = [proc EXCEPT ![t] = at],
         db' = [found |-> db'.found, table |-> db'.table, stored |-> db'.stored, runs |-> db'.runs],
         db'.found = db.found, db.stored \subseteq db'.stored,
         at \in {"map", "run"} => <<"view", t, e>> \in db'.stored,
         at = "run" => <<"map", t, e>> \in db'.stored,
         \A r \in db'.runs : r \in db.runs \/ (r.terms = t /\ r.entries = e /\ <<"view", t, e>> \in db'.stored /\ <<"map", t, e>> \in db'.stored)
  PROVE  TextInv'
<1>1. db'.found = db.found
  OBVIOUS
<1>2. \A u : Text!Candidates(u)' = Text!Candidates(u)
  BY <1>1 DEF Text!Candidates
<1>3. proc' \in [SUBSET Terms -> {"idle", "view", "map", "run"}] /\ db'.found \in SUBSET Text!Matches
  BY <1>1 DEF TextInv
<1>4. ASSUME NEW u \in SUBSET Terms
      PROVE  /\ proc'[u] \in {"map", "run"} => <<"view", u, TextEntries(Text!Candidates(u)')>> \in db'.stored
             /\ proc'[u] = "run" => <<"map", u, TextEntries(Text!Candidates(u)')>> \in db'.stored
  <2>0. TextEntries(Text!Candidates(u)') = TextEntries(Text!Candidates(u))
    BY <1>2
  <2>1. CASE u = t
    BY <1>1, <2>0, <2>1 DEF TextInv
  <2>2. CASE u # t
    <3>1. proc'[u] = proc[u]
      BY <2>2 DEF TextInv
    <3> QED
      BY <1>1, <2>0, <3>1 DEF TextInv
  <2> QED
    BY <2>1, <2>2
<1>5. ASSUME NEW r \in db'.runs
      PROVE  /\ r.entries = TextEntries(Text!Candidates(r.terms)')
             /\ {<<"view", r.terms, r.entries>>, <<"map", r.terms, r.entries>>} \subseteq db'.stored
  <2>0. TextEntries(Text!Candidates(r.terms)') = TextEntries(Text!Candidates(r.terms))
    BY <1>2
  <2>1. CASE r \in db.runs
    BY <1>1, <2>0, <2>1 DEF TextInv
  <2>2. CASE r \notin db.runs
    BY <1>1, <1>5, <2>0, <2>2
  <2> QED
    BY <2>1, <2>2
<1> QED
  BY <1>1, <1>3, <1>4, <1>5 DEF TextInv

LEMMA TextStep == ASSUME TextInv, [Text!Next]_(Text!vars) PROVE TextInv'
<1>1. ASSUME NEW t \in SUBSET Terms, Text!Mark(t) \/ Text!PutView(t) \/ Text!PutMap(t) \/ Text!Record(t) \/ Text!Abandon(t)
      PROVE  TextInv'
  <2> DEFINE e == TextEntries(Text!Candidates(t))
  <2>1. Text!Entries(t) = e
    BY DEF Text!Entries, TextEntries
  <2>0. e = TextEntries(Text!Candidates(t))
    OBVIOUS
  <2> HIDE DEF e
  <2>2. db = [found |-> db.found, table |-> db.table, stored |-> db.stored, runs |-> db.runs]
        /\ (proc[t] \in {"map", "run"} => <<"view", t, e>> \in db.stored)
        /\ (proc[t] = "run" => <<"map", t, e>> \in db.stored)
    BY DEF TextInv, e
  <2>3. CASE Text!Mark(t)
    <3>1. PICK table : db' = [db EXCEPT !.table = table] /\ proc' = [proc EXCEPT ![t] = "view"]
      BY <2>3 DEF Text!Mark
    <3>2. db' = [found |-> db.found, table |-> table, stored |-> db.stored, runs |-> db.runs]
      BY <2>2, <3>1
    <3> QED
      BY <2>0, <2>2, <3>1, <3>2, TextMoves
  <2>4. CASE Text!PutView(t)
    <3>1. proc' = [proc EXCEPT ![t] = "map"] /\ db' = [db EXCEPT !.stored = @ \cup {<<"view", t, e>>}]
      BY <2>1, <2>4 DEF Text!PutView, Text!Put
    <3>2. db' = [found |-> db.found, table |-> db.table, stored |-> db.stored \cup {<<"view", t, e>>}, runs |-> db.runs]
      BY <2>2, <3>1
    <3> DEFINE st == db.stored \cup {<<"view", t, e>>}
    <3>3. db.stored \subseteq st /\ <<"view", t, e>> \in st
      OBVIOUS
    <3> HIDE DEF st
    <3>4. db' = [found |-> db.found, table |-> db.table, stored |-> st, runs |-> db.runs]
      BY <3>2 DEF st
    <3>5. /\ db' = [found |-> db'.found, table |-> db'.table, stored |-> db'.stored, runs |-> db'.runs]
          /\ db'.found = db.found /\ db'.stored = st /\ db'.runs = db.runs
      BY <3>4
    <3> QED
      BY <2>0, <3>1, <3>3, <3>5, TextMoves
  <2>5. CASE Text!PutMap(t)
    <3>1. proc' = [proc EXCEPT ![t] = "run"] /\ proc[t] = "map" /\ db' = [db EXCEPT !.stored = @ \cup {<<"map", t, e>>}]
      BY <2>1, <2>5 DEF Text!PutMap, Text!Put
    <3>2. db' = [found |-> db.found, table |-> db.table, stored |-> db.stored \cup {<<"map", t, e>>}, runs |-> db.runs]
      BY <2>2, <3>1
    <3> DEFINE st == db.stored \cup {<<"map", t, e>>}
    <3>3. db.stored \subseteq st /\ <<"map", t, e>> \in st /\ <<"view", t, e>> \in st
      BY <2>2, <3>1
    <3> HIDE DEF st
    <3>4. db' = [found |-> db.found, table |-> db.table, stored |-> st, runs |-> db.runs]
      BY <3>2 DEF st
    <3>5. /\ db' = [found |-> db'.found, table |-> db'.table, stored |-> db'.stored, runs |-> db'.runs]
          /\ db'.found = db.found /\ db'.stored = st /\ db'.runs = db.runs
      BY <3>4
    <3> QED
      BY <2>0, <3>1, <3>3, <3>5, TextMoves
  <2>6. CASE Text!Record(t)
    <3> DEFINE new == {r \in db.runs : r.terms # t} \cup {[terms |-> t, entries |-> e]}
    <3>1. proc' = [proc EXCEPT ![t] = "idle"] /\ proc[t] = "run" /\ db' = [db EXCEPT !.runs = new]
      BY <2>1, <2>6 DEF Text!Record
    <3>2. db' = [found |-> db.found, table |-> db.table, stored |-> db.stored, runs |-> new]
      BY <2>2, <3>1
    <3>3. \A r \in new : r \in db.runs \/ (r.terms = t /\ r.entries = e)
      OBVIOUS
    <3> HIDE DEF new
    <3>4. <<"view", t, e>> \in db.stored /\ <<"map", t, e>> \in db.stored
      BY <2>2, <3>1
    <3> QED
      BY <2>0, <3>1, <3>2, <3>3, <3>4, TextMoves
  <2>7. CASE Text!Abandon(t)
    <3>1. db' = [found |-> db.found, table |-> db.table, stored |-> db.stored, runs |-> db.runs]
          /\ proc' = [proc EXCEPT ![t] = "idle"]
      BY <2>2, <2>7 DEF Text!Abandon
    <3> QED
      BY <2>0, <2>2, <3>1, TextMoves
  <2> QED
    BY <1>1, <2>3, <2>4, <2>5, <2>6, <2>7
<1>2. CASE UNCHANGED Text!vars
  BY <1>2 DEF Text!vars, TextInv, Text!Candidates
<1> QED
  BY <1>1, <1>2 DEF Text!Next

LEMMA TextHolds == ASSUME TextInv PROVE Text!NoMatchStaysWhole
<1> SUFFICES ASSUME NEW r \in db.runs
    PROVE  /\ {<<"view", r.terms, r.entries>>, <<"map", r.terms, r.entries>>} \subseteq db.stored
           /\ \A m \in Text!Candidates(r.terms) : \E i \in DOMAIN r.entries : Text!Meets(m.span, r.entries[i].span)
           /\ \A i, j \in DOMAIN r.entries : i < j => r.entries[i].span[2] <= r.entries[j].span[1]
  BY DEF Text!NoMatchStaysWhole
<1>1. Text!Candidates(r.terms) \in SUBSET Text!Matches
  BY DEF TextInv, Text!Candidates
<1>2. r.entries = TextEntries(Text!Candidates(r.terms))
      /\ {<<"view", r.terms, r.entries>>, <<"map", r.terms, r.entries>>} \subseteq db.stored
  BY DEF TextInv
<1> QED
  BY <1>1, <1>2, TextWhole

LEMMA TextPart == SuiteSpec => [](part = "redaction" => TextInv)
<1>1. SuiteInit => (part = "redaction" => TextInv)
  BY TextInit DEF SuiteInit
<1>2. (part = "redaction" => TextInv) /\ [SuiteNext]_suiteVars => (part = "redaction" => TextInv)'
  <2> SUFFICES ASSUME part = "redaction", TextInv, [SuiteNext]_suiteVars PROVE TextInv'
    BY DEF SuiteNext, suiteVars
  <2>1. [Text!Next]_(Text!vars)
    BY DEF SuiteNext, suiteVars, state, Text!vars
  <2> QED
    BY <2>1, TextStep
<1> QED
  BY <1>1, <1>2, PTL DEF SuiteSpec

\* A recorded redaction has its view and map stored and replaces something of
\* every match of its terms, for any text, rules and terms.
THEOREM MatchesNeverStayWhole == SuiteSpec => []NoMatchStaysWhole
<1>1. (part = "redaction" => TextInv) => NoMatchStaysWhole
  BY TextHolds DEF NoMatchStaysWhole
<1> QED
  BY <1>1, TextPart, PTL
-----------------------------------------------------------------------------
(* EvidenceRoot *)

(* What is sealed is the root of some artifacts and flows, so the question    *)
(* is what the root tells of its leaves: from the number of leaves, how many  *)
(* nodes each round has; from one round's nodes, those of the round before.   *)

LEMMA RootCardinality == ASSUME NEW S PROVE Root!Cardinality(S) = Cardinality(S)
  BY DEF Root!Cardinality, Cardinality

RankOf(S, h) == Cardinality({g \in S : g < h})

LEMMA RankGrows ==
  ASSUME NEW S \in SUBSET Nat, IsFiniteSet(S), NEW a \in S, NEW b \in S, a < b
  PROVE  RankOf(S, a) < RankOf(S, b)
<1> DEFINE A == {g \in S : g < a}
           B == {g \in S : g < b}
<1>1. A \subseteq B /\ a \in B /\ a \notin A /\ B \subseteq S
  <2>1. a \in Nat /\ b \in Nat
    OBVIOUS
  <2>2. ASSUME NEW x \in A PROVE x \in B
    <3>1. x \in S /\ x \in Nat /\ x < a
      OBVIOUS
    <3>2. x < b
      BY <2>1, <3>1
    <3> QED
      BY <3>1, <3>2
  <2>3. a \in B /\ a \notin A
    BY <2>1
  <2> QED
    BY <2>2, <2>3
<1> HIDE DEF A, B
<1>2. IsFiniteSet(B) /\ IsFiniteSet(A)
  BY <1>1, FS_Subset
<1>3. Cardinality(A) <= Cardinality(B) /\ Cardinality(A) # Cardinality(B)
  BY <1>1, <1>2, FS_Subset
<1>4. Cardinality(A) \in Nat /\ Cardinality(B) \in Nat
  BY <1>2, FS_CardinalityType
<1> QED
  BY <1>3, <1>4 DEF A, B, RankOf

LEMMA IthHasItsRank ==
  ASSUME NEW S, NEW i, \E h \in S : RankOf(S, h) = i - 1
  PROVE  Root!Ith(S, i) \in S /\ RankOf(S, Root!Ith(S, i)) = i - 1
<1>1. Root!Ith(S, i) = CHOOSE h \in S : RankOf(S, h) = i - 1
  BY RootCardinality DEF Root!Ith, RankOf
<1> QED
  BY <1>1

\* A list in order has every hash of the set.
LEMMA OrderKeeps ==
  ASSUME NEW S \in SUBSET Nat, IsFiniteSet(S)
  PROVE  /\ Root!InOrder(S) \in Seq(S) /\ Len(Root!InOrder(S)) = Cardinality(S)
         /\ {Root!InOrder(S)[i] : i \in 1 .. Cardinality(S)} = S
<1>1. PICK n \in Nat : n = Cardinality(S)
  BY FS_CardinalityType
<1> DEFINE rank == [h \in S |-> RankOf(S, h)]
           I == 0 .. n - 1
<1>2. ASSUME NEW h \in S PROVE rank[h] \in I
  <2> DEFINE B == {g \in S : g < h}
  <2>1. B \subseteq S /\ h \notin B /\ h \in S /\ h \in Nat
    OBVIOUS
  <2> HIDE DEF B
  <2>2. IsFiniteSet(B) /\ Cardinality(B) <= n /\ Cardinality(B) # n /\ Cardinality(B) \in Nat
    BY <1>1, <2>1, FS_Subset, FS_CardinalityType
  <2>3. Cardinality(B) \in I
    BY <2>2
  <2> QED
    BY <2>3 DEF B, RankOf
<1>3. rank \in Injection(S, I)
  <2>1. rank \in [S -> I]
    BY <1>2
  <2>2. ASSUME NEW a \in S, NEW b \in S, a # b PROVE rank[a] # rank[b]
    <3>1. a \in Nat /\ b \in Nat /\ (a < b \/ b < a)
      BY <2>2
    <3>2. rank[a] \in Int /\ rank[b] \in Int
      BY <1>2
    <3>3. CASE a < b
      BY <3>2, <3>3, RankGrows
    <3>4. CASE b < a
      BY <3>2, <3>4, RankGrows
    <3> QED
      BY <3>1, <3>3, <3>4
  <2> HIDE DEF rank
  <2> QED
    BY <2>1, <2>2 DEF Injection, IsInjective
<1>4. IsFiniteSet(I) /\ Cardinality(I) = n
  BY FS_Interval
<1>5. rank \in Surjection(S, I)
  <2> HIDE DEF rank, I
  <2> QED
    BY <1>1, <1>3, <1>4, FS_Injection
<1>6. PICK s : s = Root!InOrder(S)
  OBVIOUS
<1>7. s = [i \in 1 .. n |-> Root!Ith(S, i)]
  BY <1>6, <1>1, RootCardinality DEF Root!InOrder
<1>8. ASSUME NEW i \in 1 .. n PROVE s[i] \in S /\ rank[s[i]] = i - 1
  <2>1. i - 1 \in I
    OBVIOUS
  <2>2. \E h \in S : rank[h] = i - 1
    <3> HIDE DEF rank, I
    <3> QED
      BY <1>5, <2>1 DEF Surjection
  <2>3. \E h \in S : RankOf(S, h) = i - 1
    BY <2>2
  <2>4. Root!Ith(S, i) \in S /\ RankOf(S, Root!Ith(S, i)) = i - 1
    BY <2>3, IthHasItsRank
  <2>5. s[i] = Root!Ith(S, i)
    BY <1>7
  <2> QED
    BY <2>4, <2>5
<1>9. s = [i \in 1 .. n |-> s[i]]
  BY <1>7
<1>10. ASSUME NEW h \in S PROVE \E i \in 1 .. n : s[i] = h
  <2>1. PICK i : i = rank[h] + 1
    OBVIOUS
  <2>2. i \in 1 .. n /\ i - 1 = rank[h]
    BY <1>2, <2>1
  <2>3. s[i] \in S /\ rank[s[i]] = rank[h]
    BY <1>8, <2>2
  <2>4. s[i] = h
    <3> HIDE DEF rank
    <3> QED
      BY <1>3, <2>3 DEF Injection, IsInjective
  <2> QED
    BY <2>2, <2>4
<1> HIDE DEF rank, I
<1>11. s \in Seq(S) /\ Len(s) = n
  BY <1>8, <1>9
<1>12. {s[i] : i \in 1 .. n} = S
  BY <1>8, <1>10
<1> QED
  BY <1>6, <1>1, <1>11, <1>12

\* A round pairs all nodes, and the last one with itself if it is left over.
LEMMA PairsAre ==
  ASSUME NEW T, NEW s \in Seq(T), s # <<>>
  PROVE  \E m \in Nat, e \in Seq(T) :
           /\ Root!Pairs(s) = [i \in 1 .. m |-> <<e[2 * i - 1], e[2 * i]>>]
           /\ Len(e) = 2 * m /\ Len(s) <= 2 * m /\ 2 * m <= Len(s) + 1
           /\ \A j \in 1 .. Len(s) : e[j] = s[j]
<1>1. PICK n \in Nat : n = Len(s) /\ n # 0
  OBVIOUS
<1>2. PICK e : e = IF n % 2 = 1 THEN Append(s, s[n]) ELSE s
  OBVIOUS
<1>3. Root!Pairs(s) = [i \in 1 .. (Len(e) \div 2) |-> <<e[2 * i - 1], e[2 * i]>>]
  BY <1>1, <1>2 DEF Root!Pairs, Root!Last
<1>4. PICK m \in Nat : e \in Seq(T) /\ Len(e) = 2 * m /\ n <= 2 * m /\ 2 * m <= n + 1 /\ \A j \in 1 .. n : e[j] = s[j]
  <2>1. CASE n % 2 = 1
    <3>1. e = Append(s, s[n]) /\ s[n] \in T
      BY <1>1, <1>2, <2>1
    <3>2. e \in Seq(T) /\ Len(e) = n + 1 /\ \A j \in 1 .. n : e[j] = s[j]
      BY <1>1, <3>1, AppendProperties
    <3>3. \E m \in Nat : n + 1 = 2 * m
      <4>1. n + 1 = 2 * ((n + 1) \div 2) /\ (n + 1) \div 2 \in Nat
        BY <2>1
      <4> QED
        BY <4>1
    <3> QED
      BY <3>2, <3>3
  <2>2. CASE n % 2 # 1
    <3>1. \E m \in Nat : n = 2 * m
      <4>1. n = 2 * (n \div 2) /\ n \div 2 \in Nat
        BY <2>2
      <4> QED
        BY <4>1
    <3>2. e = s
      BY <1>2, <2>2
    <3>3. PICK m \in Nat : n = 2 * m
      BY <3>1
    <3>4. e \in Seq(T) /\ Len(e) = 2 * m /\ n <= 2 * m /\ 2 * m <= n + 1
      BY <1>1, <3>2, <3>3
    <3> QED
      BY <3>2, <3>4
  <2> QED
    BY <2>1, <2>2
<1>5. Len(e) \div 2 = m
  BY <1>4
<1> QED
  BY <1>1, <1>3, <1>4, <1>5

LEMMA PairsShrink ==
  ASSUME NEW T, NEW s \in Seq(T), s # <<>>
  PROVE  \E m \in Nat : /\ Root!Pairs(s) \in Seq(T \X T) /\ Len(Root!Pairs(s)) = m
                        /\ Len(s) <= 2 * m /\ 2 * m <= Len(s) + 1
<1>1. PICK m \in Nat, e \in Seq(T) :
           /\ Root!Pairs(s) = [i \in 1 .. m |-> <<e[2 * i - 1], e[2 * i]>>]
           /\ Len(e) = 2 * m /\ Len(s) <= 2 * m /\ 2 * m <= Len(s) + 1
  BY PairsAre
<1>2. ASSUME NEW i \in 1 .. m PROVE e[2 * i - 1] \in T /\ e[2 * i] \in T
  <2>1. 2 * i - 1 \in 1 .. Len(e) /\ 2 * i \in 1 .. Len(e)
    BY <1>1
  <2> QED
    BY <2>1
<1>3. Root!Pairs(s) \in Seq(T \X T) /\ Len(Root!Pairs(s)) = m
  BY <1>1, <1>2
<1> QED
  BY <1>1, <1>3

\* Two lists of one length with the same pairs are the same.
LEMMA PairsTell ==
  ASSUME NEW T, NEW s \in Seq(T), NEW t \in Seq(T), s # <<>>, Len(s) = Len(t), Root!Pairs(s) = Root!Pairs(t)
  PROVE  s = t
<1>1. PICK n \in Nat : n = Len(s) /\ n = Len(t)
  OBVIOUS
<1>2. PICK m \in Nat, e \in Seq(T) :
           /\ Root!Pairs(s) = [i \in 1 .. m |-> <<e[2 * i - 1], e[2 * i]>>]
           /\ Len(e) = 2 * m /\ Len(s) <= 2 * m /\ 2 * m <= Len(s) + 1
           /\ \A j \in 1 .. Len(s) : e[j] = s[j]
  <2>1. s \in Seq(T) /\ s # <<>>
    OBVIOUS
  <2> QED
    BY ONLY <2>1, PairsAre
<1>3. PICK l \in Nat, f \in Seq(T) :
           /\ Root!Pairs(t) = [i \in 1 .. l |-> <<f[2 * i - 1], f[2 * i]>>]
           /\ Len(f) = 2 * l /\ Len(t) <= 2 * l /\ 2 * l <= Len(t) + 1
           /\ \A j \in 1 .. Len(t) : f[j] = t[j]
  <2>1. t # <<>>
    OBVIOUS
  <2> QED
    BY <2>1, PairsAre
<1>4. m = l /\ n <= 2 * m
  BY <1>1, <1>2, <1>3
<1>5. ASSUME NEW i \in 1 .. m PROVE e[2 * i - 1] = f[2 * i - 1] /\ e[2 * i] = f[2 * i]
  <2>1. Root!Pairs(s)[i] = <<e[2 * i - 1], e[2 * i]>>
    BY <1>2
  <2>2. Root!Pairs(t)[i] = <<f[2 * i - 1], f[2 * i]>>
    BY <1>3, <1>4
  <2>3. <<e[2 * i - 1], e[2 * i]>> = <<f[2 * i - 1], f[2 * i]>>
    BY <2>1, <2>2
  <2> QED
    BY <2>3
<1>6. ASSUME NEW j \in 1 .. n PROVE s[j] = t[j]
  <2>1. PICK i \in 1 .. m : j = 2 * i - 1 \/ j = 2 * i
    <3>1. \E i \in Nat : j = 2 * i - 1 \/ j = 2 * i
      <4>1. j = 2 * (j \div 2) \/ j = 2 * (j \div 2 + 1) - 1
        OBVIOUS
      <4>2. j \div 2 \in Nat /\ j \div 2 + 1 \in Nat
        OBVIOUS
      <4> QED
        BY <4>1, <4>2
    <3>2. PICK i \in Nat : j = 2 * i - 1 \/ j = 2 * i
      BY <3>1
    <3>3. i \in 1 .. m
      BY <1>4, <3>2
    <3> QED
      BY <3>2, <3>3
  <2>2. e[j] = f[j]
    BY <1>5, <2>1
  <2> QED
    BY <1>1, <1>2, <1>3, <2>2
<1> QED
  BY <1>1, <1>6

\* One round.
RoundOf(nodes) == IF Len(nodes) = 1 THEN nodes ELSE Root!Pairs(nodes)

\* The rounds are what their recursive definition says.
LEMMA LevelsAre ==
  ASSUME NEW s, Len(s) \in Nat
  PROVE  Root!Levels(s)[0] = s /\ \A k \in 1 .. Len(s) : Root!Levels(s)[k] = RoundOf(Root!Levels(s)[k - 1])
<1> DEFINE Does(f, n) == f = [k \in 0 .. n |-> IF k = 0 THEN s ELSE RoundOf(f[k - 1])]
           S == {n \in Nat : \E f : Does(f, n)}
<1>1. 0 \in S
  <2>1. Does([k \in 0 .. 0 |-> s], 0)
    OBVIOUS
  <2> QED
    BY <2>1
<1>2. ASSUME NEW n \in Nat, n \in S PROVE n + 1 \in S
  <2>1. PICK f : Does(f, n)
    BY <1>2
  <2>2. PICK g : g = [k \in 0 .. n + 1 |-> IF k = 0 THEN s ELSE IF k = n + 1 THEN RoundOf(f[n]) ELSE f[k]]
    OBVIOUS
  <2>3. ASSUME NEW k \in 0 .. n PROVE g[k] = f[k]
    <3>1. k \in 0 .. n + 1 /\ k # n + 1 /\ (k = 0 => f[k] = s)
      BY <2>1
    <3> QED
      BY <2>2, <3>1
  <2>4. ASSUME NEW k \in 0 .. n + 1 PROVE g[k] = IF k = 0 THEN s ELSE RoundOf(g[k - 1])
    <3>1. CASE k = 0
      BY <2>2, <3>1
    <3>2. CASE k # 0 /\ k # n + 1
      <4>1. k \in 0 .. n /\ k - 1 \in 0 .. n
        BY <3>2
      <4>2. g[k] = f[k] /\ g[k - 1] = f[k - 1] /\ f[k] = RoundOf(f[k - 1])
        BY <2>1, <2>3, <3>2, <4>1
      <4> QED
        BY <3>2, <4>2
    <3>3. CASE k = n + 1
      <4>1. k - 1 = n /\ n \in 0 .. n /\ k # 0
        BY <3>3
      <4>2. g[n] = f[n] /\ g[k] = RoundOf(f[n])
        BY <2>2, <2>3, <3>3, <4>1
      <4> QED
        BY <4>1, <4>2
    <3> QED
      BY <3>1, <3>2, <3>3
  <2>5. Does(g, n + 1)
    BY <2>2, <2>4
  <2> QED
    BY <2>5
<1>3. PICK n \in Nat : n = Len(s)
  OBVIOUS
<1>4. \E f : Does(f, n)
  <2> HIDE DEF S
  <2>1. Nat \subseteq S
    BY <1>1, <1>2, NatsOf
  <2> QED
    BY <2>1 DEF S
<1>5. Root!Levels(s) = CHOOSE f : Does(f, n)
  BY <1>3 DEF Root!Levels, RoundOf
<1>6. Does(Root!Levels(s), n)
  <2> HIDE DEF Does
  <2> QED
    BY <1>4, <1>5
<1> QED
  BY <1>3, <1>6

\* One list of nodes leads to a root.
LEMMA LevelsTell ==
  ASSUME NEW T, NEW s \in Seq(T), NEW t \in Seq(T), s # <<>>, Len(s) = Len(t),
         Root!Levels(s)[Len(s)][1] = Root!Levels(t)[Len(t)][1]
  PROVE  s = t
<1>1. PICK n \in Nat : n = Len(s) /\ n = Len(t) /\ n # 0
  OBVIOUS
<1>2. PICK A : A = Root!Levels(s)
  OBVIOUS
<1>3. PICK B : B = Root!Levels(t)
  OBVIOUS
<1>4. /\ A[0] = s /\ B[0] = t
      /\ \A k \in 1 .. n : A[k] = RoundOf(A[k - 1]) /\ B[k] = RoundOf(B[k - 1])
  BY <1>1, <1>2, <1>3, LevelsAre
<1> DEFINE Alike(k, V) ==
             /\ A[k] \in Seq(V) /\ B[k] \in Seq(V) /\ Len(A[k]) = Len(B[k]) /\ Len(A[k]) # 0
             /\ Len(A[k]) = 1 \/ Len(A[k]) + k <= n
             /\ A[k] = B[k] => s = t
           S == {k \in Nat : k <= n => \E V : Alike(k, V)}
<1>5. 0 \in S
  <2>1. Alike(0, T)
    BY <1>1, <1>4
  <2> QED
    BY <2>1
<1>6. ASSUME NEW k \in Nat, k \in S PROVE k + 1 \in S
  <2> SUFFICES ASSUME k + 1 <= n PROVE \E V : Alike(k + 1, V)
    OBVIOUS
  <2>1. PICK V : Alike(k, V)
    BY <1>6
  <2>2. A[k + 1] = RoundOf(A[k]) /\ B[k + 1] = RoundOf(B[k])
    <3>1. k + 1 \in 1 .. n /\ k + 1 - 1 = k
      BY <1>1
    <3> QED
      BY <1>4, <3>1
  <2>3. PICK a \in Seq(V) : a = A[k] /\ a # <<>>
    BY <2>1
  <2>4. PICK b \in Seq(V) : b = B[k] /\ b # <<>> /\ Len(a) = Len(b)
    BY <2>1, <2>3
  <2>5. PICK l \in Nat : l = Len(a) /\ l # 0 /\ (l = 1 \/ l + k <= n)
    <3>1. PICK l \in Nat : l = Len(a)
      <4>1. a \in Seq(V)
        OBVIOUS
      <4>2. Len(a) \in Nat
        BY ONLY <4>1
      <4> QED
        BY <4>2
    <3>2. l # 0 /\ (l = 1 \/ l + k <= n)
      BY <2>1, <2>3, <3>1
    <3> QED
      BY <3>1, <3>2
  <2>6. CASE l = 1
    <3>1. A[k + 1] = a /\ B[k + 1] = b
      BY <2>2, <2>3, <2>4, <2>5, <2>6 DEF RoundOf
    <3>2. Alike(k + 1, V)
      BY <2>1, <2>3, <2>4, <2>5, <2>6, <3>1
    <3> QED
      BY <3>2
  <2>7. CASE l # 1
    <3>1. A[k + 1] = Root!Pairs(a) /\ B[k + 1] = Root!Pairs(b)
      BY <2>2, <2>3, <2>4, <2>5, <2>7 DEF RoundOf
    <3>2. PICK m \in Nat : Root!Pairs(a) \in Seq(V \X V) /\ Len(Root!Pairs(a)) = m /\ l <= 2 * m /\ 2 * m <= l + 1
      BY <2>3, <2>5, PairsShrink
    <3>3. PICK i \in Nat : Root!Pairs(b) \in Seq(V \X V) /\ Len(Root!Pairs(b)) = i /\ l <= 2 * i /\ 2 * i <= l + 1
      BY <2>4, <2>5, PairsShrink
    <3>4. i = m /\ m # 0 /\ m + (k + 1) <= n
      BY <1>1, <2>5, <2>7, <3>2, <3>3
    <3>5. Root!Pairs(a) = Root!Pairs(b) => s = t
      BY <2>1, <2>3, <2>4, PairsTell
    <3>6. Alike(k + 1, V \X V)
      BY <3>1, <3>2, <3>3, <3>4, <3>5
    <3> QED
      BY <3>6
  <2> QED
    BY <2>6, <2>7
<1>7. PICK V : Alike(n, V)
  <2> HIDE DEF S
  <2>1. Nat \subseteq S
    BY <1>5, <1>6, NatsOf
  <2> QED
    BY <1>1, <2>1 DEF S
<1>8. Len(A[n]) = 1 /\ Len(B[n]) = 1 /\ A[n][1] = B[n][1]
  BY <1>1, <1>2, <1>3, <1>7
<1>9. A[n] = B[n]
  BY <1>7, <1>8
<1> QED
  BY <1>7, <1>9

LeavesOf(L, F) == Root!InOrder(L) \o Root!InOrder(F)
NodesOf(S) == [i \in 1 .. Cardinality(S) |-> <<Root!InOrder(S)[i]>>]

\* The leaves of a scan are those of its artifacts and flows, each once.
LEMMA LeavesAre ==
  ASSUME NEW L \in SUBSET Artifacts, NEW F \in SUBSET Flows, IsFiniteSet(L), IsFiniteSet(F)
  PROVE  /\ L \cup F \in SUBSET Nat /\ IsFiniteSet(L \cup F) /\ LeavesOf(L, F) \in Seq(L \cup F)
         /\ Len(LeavesOf(L, F)) = Cardinality(L \cup F) /\ Cardinality(L \cup F) \in Nat
         /\ Root!Range(LeavesOf(L, F)) = L \cup F
<1>1. L \in SUBSET Nat /\ F \in SUBSET Nat /\ L \cap F = {}
  BY HashesAreOrdered
<1>2. PICK a : a = Root!InOrder(L)
  OBVIOUS
<1>3. PICK b : b = Root!InOrder(F)
  OBVIOUS
<1>4. PICK m \in Nat : m = Cardinality(L)
  BY FS_CardinalityType
<1>5. PICK n \in Nat : n = Cardinality(F)
  BY FS_CardinalityType
<1>6. a \in Seq(L) /\ Len(a) = m /\ {a[i] : i \in 1 .. m} = L
  <2>1. /\ Root!InOrder(L) \in Seq(L) /\ Len(Root!InOrder(L)) = Cardinality(L)
        /\ {Root!InOrder(L)[i] : i \in 1 .. Cardinality(L)} = L
    BY <1>1, OrderKeeps
  <2> QED
    BY <1>2, <1>4, <2>1
<1>7. b \in Seq(F) /\ Len(b) = n /\ {b[i] : i \in 1 .. n} = F
  <2>1. /\ Root!InOrder(F) \in Seq(F) /\ Len(Root!InOrder(F)) = Cardinality(F)
        /\ {Root!InOrder(F)[i] : i \in 1 .. Cardinality(F)} = F
    BY <1>1, OrderKeeps
  <2> QED
    BY <1>3, <1>5, <2>1
<1>8. IsFiniteSet(L \cup F) /\ Cardinality(L \cup F) = m + n
  <2>1. IsFiniteSet(L \cup F) /\ Cardinality(L \cup F) = Cardinality(L) + Cardinality(F) - Cardinality(L \cap F)
    BY FS_Union
  <2>2. Cardinality(L \cap F) = 0
    BY <1>1, FS_EmptySet
  <2> QED
    BY <1>4, <1>5, <2>1, <2>2
<1>9. PICK c : c = a \o b
  OBVIOUS
<1>10. /\ c \in Seq(L \cup F) /\ Len(c) = m + n /\ DOMAIN c = 1 .. m + n
       /\ \A i \in 1 .. m + n : c[i] = IF i <= m THEN a[i] ELSE b[i - m]
  <2>1. a \in Seq(L \cup F) /\ b \in Seq(L \cup F)
    <3>1. ASSUME NEW i \in 1 .. m PROVE a[i] \in L
      BY <1>6
    <3>2. ASSUME NEW i \in 1 .. n PROVE b[i] \in F
      BY <1>7
    <3> QED
      BY <1>6, <1>7, <3>1, <3>2
  <2>2. c \in Seq(L \cup F) /\ Len(c) = Len(a) + Len(b)
        /\ \A i \in 1 .. Len(a) + Len(b) : c[i] = IF i <= Len(a) THEN a[i] ELSE b[i - Len(a)]
    BY <1>9, <2>1, ConcatProperties
  <2>3. DOMAIN c = 1 .. Len(c)
    BY <2>2
  <2> QED
    BY <1>6, <1>7, <2>2, <2>3
<1>11. Root!Range(c) = L \cup F
  <2>1. ASSUME NEW x \in L PROVE x \in Root!Range(c)
    <3>1. PICK i \in 1 .. m : a[i] = x
      BY <1>6
    <3>2. i \in 1 .. m + n /\ c[i] = x
      BY <1>10, <3>1
    <3> QED
      BY <1>10, <3>2 DEF Root!Range
  <2>2. ASSUME NEW x \in F PROVE x \in Root!Range(c)
    <3>1. PICK i \in 1 .. n : b[i] = x
      BY <1>7
    <3>2. i + m \in 1 .. m + n /\ ~(i + m <= m) /\ i + m - m = i
      OBVIOUS
    <3>3. c[i + m] = x
      BY <1>10, <3>1, <3>2
    <3> QED
      BY <1>10, <3>2, <3>3 DEF Root!Range
  <2>3. Root!Range(c) \subseteq L \cup F
    BY <1>10 DEF Root!Range
  <2> QED
    BY <2>1, <2>2, <2>3
<1>12. c = LeavesOf(L, F)
  BY <1>2, <1>3, <1>9 DEF LeavesOf
<1> QED
  BY <1>1, <1>8, <1>10, <1>11, <1>12

LEMMA RootIs ==
  ASSUME NEW L \in SUBSET Artifacts, NEW F \in SUBSET Flows, IsFiniteSet(L), IsFiniteSet(F), L \cup F # {}
  PROVE  /\ NodesOf(L \cup F) \in Seq(Seq(Nat)) /\ NodesOf(L \cup F) # <<>>
         /\ Len(NodesOf(L \cup F)) = Cardinality(L \cup F)
         /\ Root!MerkleRoot(LeavesOf(L, F)) = Root!Levels(NodesOf(L \cup F))[Len(NodesOf(L \cup F))][1]
<1>1. PICK S \in SUBSET Nat : S = L \cup F /\ IsFiniteSet(S)
  BY LeavesAre
<1>2. PICK n \in Nat : n = Cardinality(S) /\ n # 0
  BY <1>1, FS_CardinalityType, FS_EmptySet
<1>3. PICK s : s = Root!InOrder(S)
  OBVIOUS
<1>4. s \in Seq(S) /\ Len(s) = n /\ DOMAIN s = 1 .. n
  <2>1. Root!InOrder(S) \in Seq(S) /\ Len(Root!InOrder(S)) = Cardinality(S)
    BY <1>1, OrderKeeps
  <2> QED
    BY <1>2, <1>3, <2>1
<1>5. NodesOf(S) = [i \in DOMAIN s |-> <<s[i]>>]
  BY <1>2, <1>3, <1>4 DEF NodesOf
<1>6. ASSUME NEW i \in 1 .. n PROVE <<s[i]>> \in Seq(Nat)
  BY <1>1, <1>4
<1>7. NodesOf(S) \in Seq(Seq(Nat)) /\ Len(NodesOf(S)) = n /\ NodesOf(S) # <<>>
  <2>1. PICK q : q = [i \in 1 .. n |-> <<s[i]>>]
    OBVIOUS
  <2>2. q \in [1 .. n -> Seq(Nat)]
    BY <1>6, <2>1
  <2>3. q \in Seq(Seq(Nat)) /\ Len(q) = n /\ q # <<>>
    BY <1>2, <2>2
  <2>4. q = NodesOf(S)
    BY <1>4, <1>5, <2>1
  <2> QED
    BY <2>3, <2>4
<1>8. LeavesOf(L, F) # <<>> /\ Root!Range(LeavesOf(L, F)) = S
  BY <1>1, <1>2, LeavesAre
<1>9. Root!MerkleRoot(LeavesOf(L, F)) = Root!Levels(NodesOf(S))[Len(NodesOf(S))][1]
  BY <1>3, <1>5, <1>8 DEF Root!MerkleRoot
<1> QED
  BY <1>1, <1>2, <1>7, <1>9

\* Equally many leaves with one root are the same evidence.
LEMMA RootTells ==
  ASSUME NEW L \in SUBSET Artifacts, NEW F \in SUBSET Flows, IsFiniteSet(L), IsFiniteSet(F),
         NEW M \in SUBSET Artifacts, NEW G \in SUBSET Flows, IsFiniteSet(M), IsFiniteSet(G),
         Len(LeavesOf(L, F)) = Len(LeavesOf(M, G)),
         Root!MerkleRoot(LeavesOf(L, F)) = Root!MerkleRoot(LeavesOf(M, G))
  PROVE  L \cup F = M \cup G
<1>1. PICK S \in SUBSET Nat : S = L \cup F /\ IsFiniteSet(S)
  BY LeavesAre
<1>2. PICK R \in SUBSET Nat : R = M \cup G /\ IsFiniteSet(R)
  BY LeavesAre
<1>3. PICK n \in Nat : n = Cardinality(S) /\ n = Cardinality(R)
  BY <1>1, <1>2, LeavesAre
<1>4. CASE n = 0
  BY <1>1, <1>2, <1>3, <1>4, FS_EmptySet
<1>5. CASE n # 0
  <2>1. S # {} /\ R # {}
    BY <1>3, <1>5, FS_EmptySet
  <2>2. /\ NodesOf(S) \in Seq(Seq(Nat)) /\ NodesOf(S) # <<>> /\ Len(NodesOf(S)) = n
        /\ Root!MerkleRoot(LeavesOf(L, F)) = Root!Levels(NodesOf(S))[Len(NodesOf(S))][1]
    BY <1>1, <1>3, <2>1, RootIs
  <2>3. /\ NodesOf(R) \in Seq(Seq(Nat)) /\ NodesOf(R) # <<>> /\ Len(NodesOf(R)) = n
        /\ Root!MerkleRoot(LeavesOf(M, G)) = Root!Levels(NodesOf(R))[Len(NodesOf(R))][1]
    BY <1>2, <1>3, <2>1, RootIs
  <2>4. NodesOf(S) = NodesOf(R)
    BY <2>2, <2>3, LevelsTell
  <2>5. ASSUME NEW i \in 1 .. n PROVE Root!InOrder(S)[i] = Root!InOrder(R)[i]
    <3>1. NodesOf(S)[i] = <<Root!InOrder(S)[i]>> /\ NodesOf(R)[i] = <<Root!InOrder(R)[i]>>
      BY <1>3 DEF NodesOf
    <3> QED
      BY <2>4, <3>1
  <2>6. S = {Root!InOrder(S)[i] : i \in 1 .. n} /\ R = {Root!InOrder(R)[i] : i \in 1 .. n}
    BY <1>1, <1>2, <1>3, OrderKeeps
  <2> QED
    BY <1>1, <1>2, <2>5, <2>6
<1> QED
  BY <1>4, <1>5

\* The inductive invariant.
SealHolds ==
  \E L \in SUBSET Artifacts, F \in SUBSET Flows :
    /\ IsFiniteSet(L) /\ IsFiniteSet(F) /\ covered = L \cup F
    /\ sealed.root = Root!MerkleRoot(LeavesOf(L, F)) /\ sealed.count = Len(LeavesOf(L, F))

RootInv ==
  /\ live \in SUBSET Artifacts /\ flows \in SUBSET Flows /\ IsFiniteSet(live) /\ IsFiniteSet(flows)
  /\ sealed # None => SealHolds

LEMMA RootInit == Root!Init => RootInv
  BY FS_EmptySet DEF Root!Init, RootInv

LEMMA RootStep == RootInv /\ [Root!Next]_(Root!vars) => RootInv'
<1> SUFFICES ASSUME RootInv, [Root!Next]_(Root!vars) PROVE RootInv'
  OBVIOUS
<1>1. CASE UNCHANGED Root!vars
  BY <1>1 DEF RootInv, SealHolds, Root!vars
<1>2. ASSUME NEW h \in Artifacts \cup Flows, Root!Capture(h) PROVE RootInv'
  <2>1. UNCHANGED <<sealed, covered>>
    BY <1>2 DEF Root!Capture
  <2>2. \/ h \in Artifacts /\ live' = live \cup {h} /\ flows' = flows
        \/ h \in Flows /\ flows' = flows \cup {h} /\ live' = live
    BY <1>2 DEF Root!Capture
  <2>3. live' \in SUBSET Artifacts /\ flows' \in SUBSET Flows /\ IsFiniteSet(live') /\ IsFiniteSet(flows')
    BY <2>2, FS_AddElement DEF RootInv
  <2> QED
    BY <2>1, <2>3 DEF RootInv, SealHolds
<1>3. CASE Root!Seal
  <2>1. /\ sealed' = [root |-> Root!MerkleRoot(LeavesOf(live, flows)), count |-> Len(LeavesOf(live, flows))]
        /\ covered' = live \cup flows /\ live' = live /\ flows' = flows
    BY <1>3 DEF Root!Seal, Root!EvidenceHashes, LeavesOf
  <2>2. /\ sealed'.root = Root!MerkleRoot(LeavesOf(live, flows))
        /\ sealed'.count = Len(LeavesOf(live, flows))
    BY <2>1
  <2>3. SealHolds'
    BY <2>1, <2>2 DEF RootInv, SealHolds
  <2> QED
    BY <2>1, <2>3 DEF RootInv
<1>4. CASE Root!Delete
  <2>1. live' = {} /\ UNCHANGED <<flows, sealed, covered>>
    BY <1>4 DEF Root!Delete
  <2> QED
    BY <2>1, FS_EmptySet DEF RootInv, SealHolds
<1> QED
  BY <1>1, <1>2, <1>3, <1>4 DEF Root!Next

LEMMA RootHolds == RootInv => Root!VerifiedIsExact
<1> SUFFICES ASSUME RootInv, sealed # None PROVE Root!Verified <=> live \cup flows = covered
  BY DEF Root!VerifiedIsExact
<1>1. PICK L \in SUBSET Artifacts, F \in SUBSET Flows :
        /\ IsFiniteSet(L) /\ IsFiniteSet(F) /\ covered = L \cup F
        /\ sealed.root = Root!MerkleRoot(LeavesOf(L, F)) /\ sealed.count = Len(LeavesOf(L, F))
  BY DEF RootInv, SealHolds
<1>2. Root!Verified <=> /\ Len(LeavesOf(live, flows)) = sealed.count
                        /\ Root!MerkleRoot(LeavesOf(live, flows)) = sealed.root
  BY DEF Root!Verified, Root!EvidenceHashes, LeavesOf
<1>3. ASSUME Root!Verified PROVE live \cup flows = covered
  <2>1. /\ live \in SUBSET Artifacts /\ flows \in SUBSET Flows /\ IsFiniteSet(live) /\ IsFiniteSet(flows)
        /\ Len(LeavesOf(live, flows)) = Len(LeavesOf(L, F))
        /\ Root!MerkleRoot(LeavesOf(live, flows)) = Root!MerkleRoot(LeavesOf(L, F))
    BY <1>1, <1>2, <1>3 DEF RootInv
  <2>2. live \cup flows = L \cup F
    BY <1>1, <2>1, RootTells
  <2> QED
    BY <1>1, <2>2
<1>4. ASSUME live \cup flows = covered PROVE Root!Verified
  <2>1. live = L /\ flows = F
    BY <1>1, <1>4, HashesAreOrdered DEF RootInv
  <2> QED
    BY <1>1, <1>2, <2>1
<1> QED
  BY <1>3, <1>4

LEMMA RootPart == SuiteSpec => [](part = "root" => RootInv)
<1>1. SuiteInit => (part = "root" => RootInv)
  BY RootInit DEF SuiteInit
<1>2. (part = "root" => RootInv) /\ [SuiteNext]_suiteVars => (part = "root" => RootInv)'
  <2> SUFFICES ASSUME part = "root", RootInv, [SuiteNext]_suiteVars PROVE RootInv'
    BY DEF SuiteNext, suiteVars
  <2>1. [Root!Next]_(Root!vars)
    BY DEF SuiteNext, suiteVars, root, Root!vars
  <2> QED
    BY <2>1, RootStep
<1> QED
  BY <1>1, <1>2, PTL DEF SuiteSpec

\* verify_scan_root of app/evidence/raw_store.py: after a seal it says yes exactly
\* while the scan's live artifacts and flows are those that were sealed, however
\* many there are, as the root and the number of leaves tell every leaf.
THEOREM VerifiedIsAlwaysExact == SuiteSpec => []VerifiedIsExact
<1>1. (part = "root" => RootInv) => VerifiedIsExact
  BY RootHolds DEF VerifiedIsExact
<1> QED
  BY <1>1, RootPart, PTL
=============================================================================
