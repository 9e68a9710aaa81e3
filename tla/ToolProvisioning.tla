-------------------------- MODULE ToolProvisioning --------------------------
(***************************************************************************)
(* The managed tools tree of app/tools/provisioning.py and bundle.py:       *)
(* binaries that a recipe installs, copies of them in a cache whose objects *)
(* are named by their hash, records that name the objects, and an offline   *)
(* bundle of the tree. Files are written in place; a process may stop while *)
(* it writes one. Two processes (the server, the command line) share the    *)
(* tree.                                                                    *)
(***************************************************************************)
EXTENDS FiniteSets, Naturals

CONSTANTS
  Tools,     \* integrations with a recipe
  Pinned,    \* those whose recipe names a hash
  Workers,   \* processes that use the tree
  MaxOps,    \* bound: operations that began
  MaxFaults  \* bound: crashes, damaged bundles and binaries that vanish

VARIABLES
  db,    \* file: binary or object -> its bytes; rec: the records <<tool, hash>>;
         \* bundle: [on, file, rec, sums]
  proc,  \* worker -> what it does: [at, tool, sha, left, file]
  hist   \* ready: tools reported ready; dirty: tools whose binary was half when it
         \* was left, recorded or exported, objects that were kept or imported
         \* beside another process, and tools restored from them; ops, faults

vars == <<db, proc, hist>>

Hashes == {"half", "right", "wrong"}   \* a hash is written as the bytes it names
Bytes == Hashes \cup {"none"}
Files == Tools \cup Hashes
NoFiles == [f \in Files |-> "none"]
Idle == [at |-> "idle", tool |-> "none", sha |-> "none", left |-> {}, file |-> "none"]

Init ==
  /\ db = [file |-> NoFiles, rec |-> {},
           bundle |-> [on |-> FALSE, file |-> NoFiles, rec |-> {}, sums |-> NoFiles]]
  /\ proc = [w \in Workers |-> Idle]
  /\ hist = [ready |-> {}, dirty |-> {}, ops |-> 0, faults |-> 0]

At(w, p) == proc[w].at = p
Goto(w, p) == [proc EXCEPT ![w].at = p]
Alone(w) == \A v \in Workers \ {w} : At(v, "idle")
Started == [hist EXCEPT !.ops = @ + 1]

\* What is set apart: the files of a set that are half now, or the ones named.
Half(files) == {f \in files : db.file[f] = "half"}

------------------------------------------------------------------------------
(* Provisioner.provision.                                                     *)

\* A binary that is already there goes to the cache as it is; its hash is not
\* compared with the recipe's.
Provision(w, t) ==
  /\ At(w, "idle") /\ hist.ops < MaxOps
  /\ proc' = [proc EXCEPT ![w] =
       [Idle EXCEPT !.at = IF db.file[t] = "none" THEN "install" ELSE "hash", !.tool = t]]
  /\ hist' = Started
  /\ UNCHANGED db

\* The ecosystem's command, which writes the binary where it belongs.
Install(w) ==
  /\ At(w, "install")
  /\ db' = [db EXCEPT !.file[proc[w].tool] = "half"]
  /\ proc' = Goto(w, "installing")
  /\ UNCHANGED hist

Installed(w, bytes) ==
  /\ At(w, "installing") /\ bytes \in {"right", "wrong"}
  /\ db' = [db EXCEPT !.file[proc[w].tool] = bytes]
  /\ proc' = Goto(w, "check")
  /\ UNCHANGED hist

\* There is no command for the recipe, or it fails and takes away what it wrote or
\* leaves it.
InstallFails(w, bytes) ==
  /\ \/ At(w, "install") /\ bytes = "none"
     \/ At(w, "installing") /\ bytes \in {"none", "half"}
  /\ db' = [db EXCEPT !.file[proc[w].tool] = bytes]
  /\ proc' = [proc EXCEPT ![w] = Idle]
  /\ hist' = [hist EXCEPT !.dirty = @ \cup (IF bytes = "half" THEN {proc[w].tool} ELSE {})]

\* A binary that fails the check stays where it is.
CheckPin(w) ==
  LET t == proc[w].tool IN
  /\ At(w, "check")
  /\ proc' = IF t \in Pinned /\ db.file[t] # "right" THEN [proc EXCEPT ![w] = Idle] ELSE Goto(w, "hash")
  /\ UNCHANGED <<db, hist>>

\* _record_binary hashes the binary; one that vanished is reported all the same.
Hash(w) ==
  LET b == db.file[proc[w].tool] IN
  /\ At(w, "hash")
  /\ proc' = IF b = "none" THEN [proc EXCEPT ![w] = Idle]
             ELSE [proc EXCEPT ![w].sha = b, ![w].at = IF db.file[b] = "none" THEN "keep" ELSE "record"]
  /\ hist' = [hist EXCEPT !.dirty = @ \cup Half({proc[w].tool})]
  /\ UNCHANGED db

\* Of two processes that miss one object, the second writes over the first's.
KeepObject(w) ==
  /\ At(w, "keep")
  /\ db' = [db EXCEPT !.file[proc[w].sha] = "half"]
  /\ proc' = Goto(w, "keeping")
  /\ hist' = [hist EXCEPT !.dirty = @ \cup (IF db.file[proc[w].sha] = "none" THEN {} ELSE {proc[w].sha})]

ObjectKept(w) ==
  /\ At(w, "keeping")
  /\ db' = [db EXCEPT !.file[proc[w].sha] = db.file[proc[w].tool]]
  /\ proc' = Goto(w, "record")
  /\ UNCHANGED hist

WriteRecord(w) ==
  /\ At(w, "record")
  /\ db' = [db EXCEPT !.rec = @ \cup {<<proc[w].tool, proc[w].sha>>}]
  /\ hist' = [hist EXCEPT !.ready = @ \cup {proc[w].tool}]
  /\ proc' = [proc EXCEPT ![w] = Idle]

------------------------------------------------------------------------------
(* resolve_provisioned_binary, restore_cached_binary.                         *)

\* Mutant: the restore does not hash the object.
RestorableUnchecked(t, h) == <<t, h>> \in db.rec /\ db.file[h] # "none"

\* An object that does not have its hash is passed over.
Restorable(t, h) == <<t, h>> \in db.rec /\ db.file[h] = h

\* Asking for a binary that is not there restores it from the cache.
Restore(w, t, h) ==
  /\ At(w, "idle") /\ hist.ops < MaxOps
  /\ db.file[t] = "none" /\ Restorable(t, h)
  /\ db' = [db EXCEPT !.file[t] = "half"]
  /\ proc' = [proc EXCEPT ![w] = [Idle EXCEPT !.at = "restoring", !.tool = t, !.sha = h]]
  /\ hist' = Started

Restored(w) ==
  LET t == proc[w].tool IN
  /\ At(w, "restoring")
  /\ db' = [db EXCEPT !.file[t] = db.file[proc[w].sha]]
  /\ proc' = [proc EXCEPT ![w] = Idle]
  /\ hist' = [hist EXCEPT !.ready = @ \cup {t},
                          !.dirty = @ \cup (IF proc[w].sha \in @ THEN {t} ELSE {})]

------------------------------------------------------------------------------
(* bundle.py                                                                  *)

\* The hashes of the manifest are those of the staged copy.
Export(w) ==
  /\ At(w, "idle") /\ hist.ops < MaxOps
  /\ db' = [db EXCEPT !.bundle = [on |-> TRUE, file |-> db.file, rec |-> db.rec, sums |-> db.file]]
  /\ hist' = [Started EXCEPT !.dirty = @ \cup Half(Tools)]
  /\ UNCHANGED proc

\* Every file of the manifest has its hash, before any is copied.
Accepted == db.bundle.on /\ \A f \in Files : db.bundle.file[f] = db.bundle.sums[f]

Import(w) ==
  /\ At(w, "idle") /\ hist.ops < MaxOps /\ Accepted
  /\ proc' = [proc EXCEPT ![w] =
       [Idle EXCEPT !.at = "copy", !.left = {f \in Files : db.bundle.file[f] # "none"}]]
  /\ hist' = Started
  /\ UNCHANGED db

\* copytree, file by file; records are files as well, shown as one step. A file
\* that another process reads at that time is read half written.
CopyFile(w, f) ==
  /\ At(w, "copy") /\ f \in proc[w].left
  /\ db' = [db EXCEPT !.file[f] = "half"]
  /\ proc' = [proc EXCEPT ![w].at = "copying", ![w].left = @ \ {f}, ![w].file = f]
  /\ hist' = [hist EXCEPT !.dirty = @ \cup (IF Alone(w) THEN {} ELSE {f} \cap Hashes)]

FileCopied(w) ==
  /\ At(w, "copying")
  /\ db' = [db EXCEPT !.file[proc[w].file] = db.bundle.file[proc[w].file]]
  /\ proc' = Goto(w, "copy")
  /\ UNCHANGED hist

Imported(w) ==
  /\ At(w, "copy") /\ proc[w].left = {}
  /\ db' = [db EXCEPT !.rec = @ \cup db.bundle.rec]
  /\ proc' = [proc EXCEPT ![w] = Idle]
  /\ hist' = [hist EXCEPT !.ready = @ \cup {t \in Tools : db.bundle.file[t] # "none"}]

------------------------------------------------------------------------------
(* Faults.                                                                    *)

\* The binary a worker has open.
Writes(w) ==
  CASE proc[w].at \in {"installing", "restoring"} -> {proc[w].tool}
    [] At(w, "copying")                           -> {proc[w].file} \cap Tools
    [] OTHER                                      -> {}

Fault == hist.faults < MaxFaults

Crash(w) ==
  /\ ~At(w, "idle") /\ Fault
  /\ proc' = [proc EXCEPT ![w] = Idle]
  /\ hist' = [hist EXCEPT !.faults = @ + 1, !.dirty = @ \cup Writes(w)]
  /\ UNCHANGED db

\* Somebody takes a binary away that nobody writes.
BinaryGone(t) ==
  /\ db.file[t] # "none" /\ Fault
  /\ \A w \in Workers : (proc[w].tool # t \/ At(w, "hash")) /\ ~At(w, "copying")
  /\ db' = [db EXCEPT !.file[t] = "none"]
  /\ hist' = [hist EXCEPT !.faults = @ + 1, !.ready = @ \ {t}]
  /\ UNCHANGED proc

BundleDamaged(f) ==
  /\ db.bundle.file[f] # "none" /\ Fault
  /\ \A w \in Workers : ~At(w, "copy") /\ ~At(w, "copying")   \* it copies what it unpacked
  /\ db' = [db EXCEPT !.bundle.file[f] = "half"]
  /\ hist' = [hist EXCEPT !.faults = @ + 1]
  /\ UNCHANGED proc

Next ==
  \/ \E w \in Workers :
       \/ \E t \in Tools : Provision(w, t) \/ \E h \in Hashes : Restore(w, t, h)
       \/ Install(w) \/ CheckPin(w) \/ Hash(w) \/ KeepObject(w) \/ ObjectKept(w) \/ WriteRecord(w)
       \/ \E b \in Bytes : Installed(w, b) \/ InstallFails(w, b)
       \/ Restored(w) \/ Export(w) \/ Import(w) \/ FileCopied(w) \/ Imported(w) \/ Crash(w)
       \/ \E f \in Files : CopyFile(w, f)
  \/ \E t \in Tools : BinaryGone(t)
  \/ \E f \in Files : BundleDamaged(f)

Spec == Init /\ [][Next]_vars

------------------------------------------------------------------------------

\* A tool that was reported ready has a whole binary unless somebody writes it:
\* an object that a crash cut off and a bundle that was damaged on its way never
\* reach it, as the cache is read by hash and the bundle is checked first. Each
\* tool that the code takes as it finds it is set apart, and no other: one whose
\* own binary was half when its installer failed, when a process that installed,
\* restored or imported it ended, or when it was recorded or exported, and one
\* restored from an object that was kept or imported beside another process.
ReadyIsWhole ==
  \A t \in hist.ready \ hist.dirty :
    db.file[t] = "half" => \E w \in Workers : t \in Writes(w)
=============================================================================
