------------------------------ MODULE AuditLog ------------------------------
(***************************************************************************)
(* AuditLog (app/security/audit.py): the hash-chained file that every part *)
(* of the program appends to.  One object is shared by all threads; append *)
(* holds its lock while it reads the last hash, writes and syncs.  A write *)
(* may be cut short (a full disk) and the process may die, which loses     *)
(* what was not synced.  SHA-256 is injective: the hash of a record is the *)
(* sequence of the events up to it.                                        *)
(***************************************************************************)
EXTENDS Naturals, Sequences, FiniteSets

CONSTANTS
  Threads,
  Events,
  None,       \* nobody holds the lock
  Garbage,    \* a line that is not a record
  MaxRecords, \* bound: lines of the file
  MaxFaults   \* bound: short writes, failed syncs and deaths

Records == [prev : Seq(Events), event : Events]
Hash(r) == Append(r.prev, r.event)

ASSUME LogAssumption ==
  /\ None \notin Threads /\ Garbage \notin Records
  /\ MaxRecords \in Nat /\ MaxFaults \in Nat

VARIABLES
  file,       \* the lines
  ended,      \* whether the last line has its newline
  synced,     \* lines that survive the death of the process
  lock,
  pc,         \* where a thread is
  mine,       \* the record it is about to write
  acked,      \* records whose append returned
  faults

disk == <<file, ended, synced>>
vars == <<disk, lock, pc, mine, acked, faults>>

Init ==
  /\ file = <<>> /\ ended = TRUE /\ synced = 0
  /\ lock = None
  /\ pc = [t \in Threads |-> "idle"]
  /\ mine = [t \in Threads |-> None]
  /\ acked = {} /\ faults = 0

Lines == 1..Len(file)
Broken == \E i \in Lines : file[i] = Garbage
LastHash == IF file = <<>> THEN <<>> ELSE Hash(file[Len(file)])

\* Mutant: the last hash is read before the lock is taken.
AcquireStale(t) ==
  /\ pc[t] = "idle" /\ Len(file) < MaxRecords /\ ~Broken
  /\ \E e \in Events : mine' = [mine EXCEPT ![t] = [prev |-> LastHash, event |-> e]]
  /\ pc' = [pc EXCEPT ![t] = "write"]
  /\ UNCHANGED <<disk, lock, acked, faults>>

Acquire(t) ==
  /\ pc[t] = "idle" /\ lock = None
  /\ lock' = t /\ pc' = [pc EXCEPT ![t] = "read"]
  /\ UNCHANGED <<disk, mine, acked, faults>>

Release(t) == lock' = None /\ pc' = [pc EXCEPT ![t] = "idle"]

\* _last_hash_unlocked: a line that does not parse refuses the append.
Read(t) ==
  /\ pc[t] = "read"
  /\ \/ (Broken \/ Len(file) = MaxRecords) /\ Release(t) /\ UNCHANGED mine
     \/ /\ ~Broken /\ Len(file) < MaxRecords
        /\ \E e \in Events : mine' = [mine EXCEPT ![t] = [prev |-> LastHash, event |-> e]]
        /\ pc' = [pc EXCEPT ![t] = "write"] /\ UNCHANGED lock
  /\ UNCHANGED <<disk, acked, faults>>

\* What is written goes behind the last byte: onto the last line if that has
\* no newline, which then is no record any more.
Put(line) ==
  file' = IF ended THEN Append(file, line) ELSE [file EXCEPT ![Len(file)] = Garbage]

Write(t) ==
  /\ pc[t] = "write"
  /\ Put(mine[t]) /\ ended' = TRUE
  /\ pc' = [pc EXCEPT ![t] = "sync"]
  /\ UNCHANGED <<synced, lock, mine, acked, faults>>

\* The write raises: after nothing, a part of the line, or all but its newline.
WriteShort(t) ==
  /\ pc[t] = "write"
  /\ faults < MaxFaults /\ faults' = faults + 1
  /\ \/ UNCHANGED <<file, ended>>
     \/ (\E line \in {Garbage, mine[t]} : Put(line)) /\ ended' = FALSE
  /\ Release(t)
  /\ UNCHANGED <<synced, mine, acked>>

Sync(t) ==
  /\ pc[t] = "sync"
  /\ synced' = Len(file) /\ acked' = acked \cup {mine[t]}
  /\ Release(t)
  /\ UNCHANGED <<file, ended, mine, faults>>

\* fsync raises: the line is there, its append did not return.
SyncFails(t) ==
  /\ pc[t] = "sync"
  /\ faults < MaxFaults /\ faults' = faults + 1
  /\ Release(t)
  /\ UNCHANGED <<disk, mine, acked>>

\* The process dies and is started again; unsynced lines may be lost, and the
\* first lost one may leave a part of itself, or lose only its newline.
Die ==
  /\ faults < MaxFaults /\ faults' = faults + 1
  /\ \E n \in synced..Len(file) :
       \/ file' = SubSeq(file, 1, n) /\ ended' = (n < Len(file) \/ ended)
       \/ n < Len(file) /\ file' = Append(SubSeq(file, 1, n), Garbage) /\ ended' = FALSE
       \/ n < Len(file) /\ file' = SubSeq(file, 1, n + 1) /\ ended' = FALSE
  /\ synced' = Len(file')
  /\ lock' = None /\ pc' = [t \in Threads |-> "idle"]
  /\ UNCHANGED <<mine, acked>>

Step(t) == Acquire(t) \/ Read(t) \/ Write(t) \/ WriteShort(t) \/ Sync(t) \/ SyncFails(t)

Next == (\E t \in Threads : Step(t)) \/ Die

Spec == Init /\ [][Next]_vars

-----------------------------------------------------------------------------
\* verify_chain.
Verified ==
  \A i \in Lines : file[i] # Garbage /\ file[i].prev = IF i = 1 THEN <<>> ELSE Hash(file[i - 1])

TypeOK ==
  /\ \A i \in Lines : file[i] = Garbage \/ (file[i].prev \in Seq(Events) /\ file[i].event \in Events)
  /\ ended \in BOOLEAN /\ synced \in 0..Len(file) /\ Len(file) <= MaxRecords
  /\ lock \in Threads \cup {None}
  /\ pc \in [Threads -> {"idle", "read", "write", "sync"}]
  /\ \A t \in Threads : mine[t] # None => mine[t].event \in Events
  /\ faults \in 0..MaxFaults

\* The chain holds up to the first line that is no record, that line is the
\* last one, and nothing is ever written behind it.
ChainHolds ==
  \A i \in Lines :
    /\ i < Len(file) => file[i] # Garbage
    /\ file[i] # Garbage => file[i].prev = IF i = 1 THEN <<>> ELSE Hash(file[i - 1])

\* Of the records whose append returned, at most the very last is unreadable,
\* and then the log does not verify; deaths and lost lines spare them all.
Unreadable == {r \in acked : \A i \in Lines : file[i] # r}
AtMostLastUnreadable ==
  /\ \A r, q \in Unreadable : r = q
  /\ Unreadable # {} => ~Verified

\* append returned the hash of a record of the chain.
AckedIsInChain == Unreadable = {}

\* The log is one chain, whoever appends and whatever is cut short, and of what
\* append returned it misses no more than the last record, which shows.
TrailHolds == ChainHolds /\ AtMostLastUnreadable
=============================================================================
