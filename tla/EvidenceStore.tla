---------------------------- MODULE EvidenceStore ----------------------------
(***************************************************************************)
(* RawArtifactStore and ScanKeyring (app/evidence/raw_store.py): the       *)
(* encrypted artifacts of one scan, their keys, the custody records in the *)
(* audit log and the Merkle roots.  One writer, the scan's own thread,     *)
(* puts, binds, seals, rotates and deletes; readers of the API read while  *)
(* it does.  Every statement is a connection of its own, the audit log a   *)
(* file of its own, and the process may stop between any two of them.      *)
(***************************************************************************)
EXTENDS Naturals, Sequences, FiniteSets

CONSTANTS
  Contents,   \* artifacts, named by their SHA-256
  ToolRuns,   \* tool_run_id
  KeyIds,     \* ids rotate may draw
  Readers,
  None,       \* no row
  MaxFaults,  \* bound: stops of the writer
  MaxSeals,   \* bound: roots
  MaxDeletes  \* bound: records of a deletion

Rows == [key : KeyIds, dead : BOOLEAN]

ASSUME StoreAssumption ==
  /\ None \notin Contents \cup KeyIds \cup ToolRuns \cup Rows \cup (Contents \X Contents)
  /\ MaxFaults \in Nat /\ MaxSeals \in Nat /\ MaxDeletes \in Nat

VARIABLES
  art,        \* content -> None or its row: the key and whether it is tombstoned
  keys,       \* key id -> state of its row
  evidence,   \* tool run -> None or <<stdout, stderr>> of tool_run_evidence
  roots,      \* leaf sets under the rows of scan_evidence_roots
  log,        \* the audit log
  writer,     \* where the writer is, what it still has to put and what it read
  rpc,        \* where a reader is
  rart,       \* the artifact it asked for and the row it has of it
  faults

tables == <<art, keys, evidence, roots>>
reading == <<rpc, rart>>
vars == <<tables, log, writer, reading, faults>>

Live == {c \in Contents : art[c] # None /\ ~art[c].dead}
Entry(what, of) == [what |-> what, of |-> of]

Idle == [at |-> "idle", todo |-> <<>>, run |-> None, refs |-> <<>>, key |-> None, seen |-> {}]

Init ==
  /\ art = [c \in Contents |-> None]
  /\ keys = [k \in KeyIds |-> "unused"]
  /\ evidence = [t \in ToolRuns |-> None]
  /\ roots = {} /\ log = {}
  /\ writer = Idle
  /\ rpc = [r \in Readers |-> "idle"]
  /\ rart = [r \in Readers |-> None]
  /\ faults = 0

Goto(where) == writer' = [writer EXCEPT !.at = where]

-----------------------------------------------------------------------------
(* put, and record_execution_result, which puts stdout and stderr, upserts   *)
(* the row of the tool run and binds it.                                     *)
StartPut ==
  /\ writer.at = "idle"
  /\ \E c \in Contents : writer' = [Idle EXCEPT !.at = "lookup", !.todo = <<c>>]
  /\ UNCHANGED <<tables, log, reading, faults>>

StartRecord ==
  /\ writer.at = "idle"
  /\ \E t \in ToolRuns, out, err \in Contents :
       writer' = [Idle EXCEPT !.at = "lookup", !.todo = <<out, err>>, !.run = t]
  /\ UNCHANGED <<tables, log, reading, faults>>

\* put looks for the content; a known one is not stored again.
Lookup ==
  /\ writer.at = "lookup"
  /\ Goto(IF art[Head(writer.todo)] = None THEN "ensure" ELSE "create")
  /\ UNCHANGED <<tables, log, reading, faults>>

\* Mutant: the newest key of the scan, active or not.
EnsureAny ==
  /\ writer.at = "ensure"
  /\ \/ \E k \in KeyIds : keys[k] # "unused" /\ writer' = [writer EXCEPT !.at = "insert", !.key = k]
     \/ (\A k \in KeyIds : keys[k] = "unused") /\ Goto("rotate")
  /\ UNCHANGED <<tables, log, reading, faults>>

\* ScanKeyring.ensure: the active key, or a first one.
Ensure ==
  /\ writer.at = "ensure"
  /\ \/ \E k \in KeyIds : keys[k] = "active" /\ writer' = [writer EXCEPT !.at = "insert", !.key = k]
     \/ (\A k \in KeyIds : keys[k] # "active") /\ Goto("rotate")
  /\ UNCHANGED <<tables, log, reading, faults>>

\* ScanKeyring.rotate: retire the active key and add one, in a transaction.
AddKey(k) ==
  /\ keys[k] = "unused"
  /\ keys' = [i \in KeyIds |-> CASE i = k -> "active"
                                 [] keys[i] = "active" -> "retired"
                                 [] OTHER -> keys[i]]

RotateForPut ==
  /\ writer.at = "rotate"
  /\ \E k \in KeyIds : AddKey(k) /\ writer' = [writer EXCEPT !.at = "insert", !.key = k]
  /\ UNCHANGED <<art, evidence, roots, log, reading, faults>>

Rotate ==
  /\ writer.at = "idle"
  /\ \E k \in KeyIds : AddKey(k)
  /\ UNCHANGED <<art, evidence, roots, log, writer, reading, faults>>

\* The row and its chunks, in one transaction.
Insert ==
  /\ writer.at = "insert"
  /\ art' = [art EXCEPT ![Head(writer.todo)] = [key |-> writer.key, dead |-> FALSE]]
  /\ Goto("create")
  /\ UNCHANGED <<keys, evidence, roots, log, reading, faults>>

\* After the custody record put returns the artifact; then the next one.
PutReturns ==
  LET refs == Append(writer.refs, Head(writer.todo))
      todo == Tail(writer.todo)
  IN  IF todo # <<>> THEN writer' = [writer EXCEPT !.at = "lookup", !.todo = todo, !.refs = refs]
      ELSE IF writer.run = None THEN writer' = Idle
      ELSE writer' = [writer EXCEPT !.at = "upsert", !.todo = todo, !.refs = refs]

\* Mutant: no custody record for content that was there.
CreateOnce ==
  /\ writer.at = "create"
  /\ log' = IF writer.key = None THEN log ELSE log \cup {Entry("create", Head(writer.todo))}
  /\ PutReturns
  /\ UNCHANGED <<tables, reading, faults>>

Create ==
  /\ writer.at = "create"
  /\ log' = log \cup {Entry("create", Head(writer.todo))}
  /\ PutReturns
  /\ UNCHANGED <<tables, reading, faults>>

\* INSERT ... ON CONFLICT(tool_run_id) DO UPDATE.
Upsert ==
  /\ writer.at = "upsert"
  /\ evidence' = [evidence EXCEPT ![writer.run] = writer.refs]
  /\ Goto("bind")
  /\ UNCHANGED <<art, keys, roots, log, reading, faults>>

Bind ==
  /\ writer.at = "bind"
  /\ log' = log \cup {Entry("bind", Head(writer.refs))}
  /\ writer' = Idle
  /\ UNCHANGED <<tables, reading, faults>>

-----------------------------------------------------------------------------
(* seal_scan                                                                 *)
Leaves ==
  /\ writer.at = "idle" /\ Cardinality(roots) < MaxSeals
  /\ writer' = [Idle EXCEPT !.at = "sealed", !.seen = Live]
  /\ UNCHANGED <<tables, log, reading, faults>>

SealLog ==
  /\ writer.at = "sealed"
  /\ log' = log \cup {Entry("sealed", writer.seen)}
  /\ Goto("root")
  /\ UNCHANGED <<tables, reading, faults>>

SealRoot ==
  /\ writer.at = "root"
  /\ roots' = roots \cup {writer.seen}
  /\ writer' = Idle
  /\ UNCHANGED <<art, keys, evidence, log, reading, faults>>

-----------------------------------------------------------------------------
(* delete_scan_evidence; a key stays to be drawn, so that a put can go on.   *)
StartDelete ==
  /\ writer.at = "idle"
  /\ \E k \in KeyIds : keys[k] = "unused"
  /\ Cardinality({e \in log : e.what = "deleted"}) < MaxDeletes
  /\ writer' = [Idle EXCEPT !.at = "tombstone", !.seen = Live]
  /\ UNCHANGED <<tables, log, reading, faults>>

Tombstone ==
  /\ writer.at = "tombstone"
  /\ art' = [c \in Contents |-> IF c \in Live THEN [art[c] EXCEPT !.dead = TRUE] ELSE art[c]]
  /\ Goto("deletes")
  /\ UNCHANGED <<keys, evidence, roots, log, reading, faults>>

\* One custody record per artifact.
DeleteLog ==
  /\ writer.at = "deletes"
  /\ \E c \in writer.seen :
       /\ Entry("delete", c) \notin log
       /\ log' = log \cup {Entry("delete", c)}
  /\ UNCHANGED <<tables, writer, reading, faults>>

DeletesLogged == \A c \in writer.seen : Entry("delete", c) \in log

\* Mutant: the keys are only retired.
DestroyKeysLate ==
  /\ writer.at = "deletes" /\ DeletesLogged
  /\ Goto("deleted")
  /\ UNCHANGED <<tables, log, reading, faults>>

\* ScanKeyring.destroy_scan: every key of the scan, the retired ones too.
DestroyKeys ==
  /\ writer.at = "deletes" /\ DeletesLogged
  /\ keys' = [k \in KeyIds |-> IF keys[k] = "unused" THEN "unused" ELSE "destroyed"]
  /\ Goto("deleted")
  /\ UNCHANGED <<art, evidence, roots, log, reading, faults>>

DeletedLog ==
  /\ writer.at = "deleted"
  /\ log' = log \cup {Entry("deleted", writer.seen)}
  /\ writer' = Idle
  /\ UNCHANGED <<tables, reading, faults>>

\* The audit log refuses, or the writer dies: nothing is undone.
Stop ==
  /\ writer.at # "idle"
  /\ faults < MaxFaults /\ faults' = faults + 1
  /\ writer' = Idle
  /\ UNCHANGED <<tables, log, reading>>

-----------------------------------------------------------------------------
(* read: the row, the key, then the check of the row that was read, the      *)
(* chunks and the custody record.                                            *)
ReadRow(r) ==
  /\ rpc[r] = "idle"
  /\ \E c \in Contents :
       /\ art[c] # None
       /\ rart' = [rart EXCEPT ![r] = [of |-> c, row |-> art[c]]]
  /\ rpc' = [rpc EXCEPT ![r] = "key"]
  /\ UNCHANGED <<tables, log, writer, faults>>

ReadKey(r) ==
  /\ rpc[r] = "key"
  /\ rpc' = [rpc EXCEPT ![r] = IF keys[rart[r].row.key] = "destroyed" \/ rart[r].row.dead
                               THEN "refused" ELSE "chunks"]
  /\ UNCHANGED <<tables, log, writer, rart, faults>>

ReadLog(r) ==
  /\ rpc[r] = "chunks"
  /\ log' = log \cup {Entry("access", rart[r].of)}
  /\ rpc' = [rpc EXCEPT ![r] = "served"]
  /\ UNCHANGED <<tables, writer, rart, faults>>

ReadEnds(r) ==
  /\ rpc[r] \in {"served", "refused"}
  /\ rpc' = [rpc EXCEPT ![r] = "idle"] /\ rart' = [rart EXCEPT ![r] = None]
  /\ UNCHANGED <<tables, log, writer, faults>>

Put == StartPut \/ StartRecord \/ Lookup \/ Ensure \/ RotateForPut \/ Insert \/ Create \/ Upsert \/ Bind
Seal == Leaves \/ SealLog \/ SealRoot
Delete == StartDelete \/ Tombstone \/ DeleteLog \/ DestroyKeys \/ DeletedLog
Read(r) == ReadRow(r) \/ ReadKey(r) \/ ReadLog(r) \/ ReadEnds(r)

Next == Put \/ Rotate \/ Seal \/ Delete \/ Stop \/ \E r \in Readers : Read(r)

Spec == Init /\ [][Next]_vars

-----------------------------------------------------------------------------
\* What is not tombstoned can be decrypted, across rotations, deletions that
\* stop half-way and puts that follow them.
LiveIsReadable == \A c \in Live : keys[art[c].key] \in {"active", "retired"}

\* A read that has not got its key yet when the record of the deletion is
\* written never gets the content, although it holds a row from before.
DeletedIsUnreadable ==
  [][\A r \in Readers, e \in log :
       (rpc[r] = "key" /\ e.what = "deleted" /\ rart[r].of \in e.of) => rpc'[r] # "chunks"]_vars

\* The outputs a tool run refers to are stored and in the custody log, also
\* when an earlier attempt stored them and stopped before it logged them.
EvidenceInCustody ==
  \A t \in ToolRuns : evidence[t] # None =>
    \A i \in 1..2 : art[evidence[t][i]] # None /\ Entry("create", evidence[t][i]) \in log

\* Every root row has its audit record.
RootsAreLogged == \A leaves \in roots : Entry("sealed", leaves) \in log

\* An artifact escapes the custody log only where the writer was stopped: no
\* more of them than stops.
Unlogged ==
  {c \in Contents : art[c] # None /\ Entry("create", c) \notin log
                    /\ ~(writer.at = "create" /\ Head(writer.todo) = c)}
CustodyGaps == Cardinality(Unlogged) <= faults

\* What tool runs refer to, what was stored and what was sealed is in the custody
\* log, except for what a stop of the writer, or a step still to come, explains.
CustodyIsKept == EvidenceInCustody /\ CustodyGaps /\ RootsAreLogged
=============================================================================
