----------------------------- MODULE Migrations -----------------------------
(***************************************************************************)
(* The checksummed migrations of app/migrations.py and the release          *)
(* migration of app/v3/release_migration.py. Every start of the server      *)
(* applies both. A plan is read first and carried out later, one            *)
(* transaction for each migration that goes up, a single one for all that   *)
(* go down, while another start, an operator or a new version of the        *)
(* program changes the ledger or the files.                                 *)
(***************************************************************************)
EXTENDS Naturals, Functions

CONSTANTS
  Starts,    \* processes that migrate or roll back one database
  Versions,  \* migration numbers, from 1
  Texts,     \* contents a migration file may have; a checksum tells them apart
  MaxEdits,  \* bound: changes of the files
  MaxRuns    \* bound: plans that are carried out

VARIABLES
  disk,  \* up: version -> text of its file, for the versions that have one;
         \* down: versions whose down file may run; release: text of 0030
  db,    \* made: version -> text of the SQL it was last made with; undone: versions
         \* whose down script ran since; ledger: version -> checksum; release:
         \* [sum, active]; copies: the backups
  proc,  \* what a process does and the plan it carries out; base: the ledger the
         \* plan was read from with what the process entered on top of it
  hist   \* edits, runs

vars == <<disk, db, proc, hist>>

Idle == [at |-> "idle", plan |-> {}, sums |-> <<>>, base |-> <<>>]

Init ==
  /\ \E files \in SUBSET Versions, safe \in {{}, Versions}, t \in Texts :
       disk = [up |-> [v \in files |-> t], down |-> safe, release |-> t]
  /\ db = [made |-> <<>>, undone |-> {}, ledger |-> <<>>,
           release |-> [sum |-> 0, active |-> FALSE], copies |-> {}]
  /\ proc = [p \in Starts |-> Idle]
  /\ hist = [edits |-> 0, runs |-> 0]

At(p, s) == proc[p].at = s
Back(p) == proc' = [proc EXCEPT ![p] = Idle]
With(f, v, x) == [w \in DOMAIN f \cup {v} |-> IF w = v THEN x ELSE f[w]]
Without(f, s) == Restrict(f, DOMAIN f \ s)

\* A version behind the current one, or text that replaces applied text.
Edit(v, t) ==
  /\ hist.edits < MaxEdits
  /\ disk' = [disk EXCEPT !.up = With(@, v, t)]
  /\ hist' = [hist EXCEPT !.edits = @ + 1]
  /\ UNCHANGED <<db, proc>>

EditRelease(t) ==
  /\ hist.edits < MaxEdits
  /\ disk' = [disk EXCEPT !.release = t]
  /\ hist' = [hist EXCEPT !.edits = @ + 1]
  /\ UNCHANGED <<db, proc>>

------------------------------------------------------------------------------
(* MigrationManager.                                                          *)

\* discover and _read_applied.
Files == DOMAIN disk.up
Applied == DOMAIN db.ledger
Changed == {v \in Applied \cap Files : db.ledger[v] # disk.up[v]}
\* Above the current version, which is the highest that was applied.
Pending == {v \in Files : \A w \in Applied : w < v}
Behind == (Files \ Applied) \ Pending

Begin(p, at, plan) ==
  /\ At(p, "idle") /\ hist.runs < MaxRuns
  /\ proc' = [proc EXCEPT ![p] = [at |-> at, plan |-> plan, sums |-> disk.up, base |-> db.ledger]]
  /\ hist' = [hist EXCEPT !.runs = @ + 1]

\* What is in the file, and the database once a copy is its file.
Content(d) == [made |-> d.made, undone |-> d.undone, ledger |-> d.ledger, release |-> d.release]
Restored(c) == [made |-> c.made, undone |-> c.undone, ledger |-> c.ledger, release |-> c.release,
                copies |-> db.copies]

\* backup: a consistent copy under a name of its own.
Backup == db' = [db EXCEPT !.copies = @ \cup {Content(db)}]

\* _validate_down_sql: there is a file, it drops no table, and it deletes or
\* alters no evidence.
MayUndo(s) == s \subseteq disk.down

\* Mutant: the plan takes any unapplied version.
PlanUnordered(p) ==
  /\ Changed = {} /\ Files \ Applied # {}
  /\ Begin(p, "up", Files \ Applied)
  /\ Backup
  /\ UNCHANGED disk

\* plan: nothing that was applied has changed and nothing new is behind it;
\* apply takes a backup when something is pending.
Plan(p) ==
  /\ Changed = {} /\ Behind = {} /\ Pending # {}
  /\ Begin(p, "up", Pending)
  /\ Backup
  /\ UNCHANGED disk

\* Another process has changed the ledger under the plan.
OutOfDate(p) == db.ledger # proc[p].base

\* _apply_one, the lowest version first: the script and its row in the ledger are
\* one transaction; the text is read again, the checksum is the planned one.
Apply(p) == \E v \in proc[p].plan :
  /\ At(p, "up") /\ v \notin Applied
  /\ \A w \in proc[p].plan : v <= w
  /\ db' = [db EXCEPT !.made = With(@, v, disk.up[v]), !.undone = @ \ {v},
                      !.ledger = With(@, v, proc[p].sums[v])]
  /\ IF proc[p].plan = {v} THEN Back(p)
     ELSE proc' = [proc EXCEPT ![p].plan = @ \ {v}, ![p].base = IF OutOfDate(p) THEN @ ELSE db.ledger']
  /\ UNCHANGED <<disk, hist>>

\* A script that fails, or whose version is in the ledger by now, is rolled back
\* and ends the run; those before it stay.
Fail(p) == At(p, "up") /\ Back(p) /\ UNCHANGED <<disk, db, hist>>

\* rollback: everything above the target; a target above the current version is
\* refused, and with the current version there is nothing to undo.
PlanBack(p, target) ==
  LET above == {v \in Applied : v > target} IN
  /\ above # {} /\ MayUndo(above)
  /\ Begin(p, "down", above)
  /\ Backup
  /\ UNCHANGED disk

\* One script undoes them all, the newest first, or the failure rolls it back.
\* The tables stay (0008 says so of its own): a version that is undone is made
\* still, only its row leaves the ledger.
RollBack(p) ==
  LET gone == proc[p].plan IN
  /\ At(p, "down")
  /\ \/ db' = [db EXCEPT !.undone = @ \cup gone, !.ledger = Without(@, gone)]
     \/ UNCHANGED db
  /\ Back(p) /\ UNCHANGED <<disk, hist>>

\* restore_backup, which an operator asks for while nothing runs: the copy takes
\* the place of the file.
Quiet == \A p \in Starts : At(p, "idle")

RestoreBackup(c) == Quiet /\ db' = Restored(c) /\ UNCHANGED <<disk, proc, hist>>

Crash(p) == ~At(p, "idle") /\ Back(p) /\ UNCHANGED <<disk, db, hist>>

------------------------------------------------------------------------------
(* The release migration: its script runs before the checksum is compared.    *)

ApplyRelease ==
  /\ db.release.sum \in {0, disk.release}
  /\ db' = [db EXCEPT !.release = [sum |-> disk.release, active |-> TRUE]]
  /\ UNCHANGED <<disk, proc, hist>>

RevertRelease ==
  /\ db.release.sum = disk.release
  /\ db' = [db EXCEPT !.release.active = FALSE]
  /\ UNCHANGED <<disk, proc, hist>>

Next ==
  \/ \E v \in Versions, t \in Texts : Edit(v, t)
  \/ \E t \in Texts : EditRelease(t)
  \/ \E p \in Starts :
       \/ Plan(p) \/ Apply(p) \/ Fail(p) \/ RollBack(p) \/ Crash(p)
       \/ \E n \in {0} \cup Versions : PlanBack(p, n)
  \/ \E c \in db.copies : RestoreBackup(c)
  \/ ApplyRelease \/ RevertRelease

Spec == Init /\ [][Next]_vars

------------------------------------------------------------------------------

\* What entered came above everything that was there.
Above(new, old) == \A v \in DOMAIN new \ DOMAIN old, w \in DOMAIN old : w < v

\* What was made is in the ledger or was undone since.
Accounted(d) ==
  /\ DOMAIN d.ledger \cap d.undone = {}
  /\ DOMAIN d.made = DOMAIN d.ledger \cup d.undone

\* A row that stays is the row it was.
RowsStay ==
  /\ \A v \in DOMAIN db.ledger \cap DOMAIN db'.ledger : db'.ledger[v] = db.ledger[v]
  /\ db.release.sum \in {0, db'.release.sum}

\* The step is of a process whose plan another one has overtaken.
Overtaken == \E p \in Starts : ~At(p, "idle") /\ OutOfDate(p) /\ proc'[p] # proc[p]

Orderly ==
  /\ Accounted(db') /\ \A c \in db'.copies : Accounted(c)
  /\ \/ Quiet /\ \E c \in db.copies : db' = Restored(c)
     \/ /\ RowsStay
        /\ \/ Overtaken
           \/ Above(db'.ledger, db.ledger) /\ Above(db.ledger, db'.ledger)

\* The ledger accounts for the schema, in the database and in every copy of it,
\* whatever fails, crashes or is restored: a version is in the ledger exactly when
\* its SQL was carried out and no down script has undone it since (its tables stay).
\* But for the restoring of a copy, no row changes while it stays; and a migration
\* enters the ledger above all others and leaves it only together with everything
\* above it, but for a step of a process whose plan was overtaken, which nothing
\* in the code refuses.
LedgerIsTheSchema == [][Orderly]_db
=============================================================================
