---------------------------- MODULE Control_proofs ----------------------------
(***************************************************************************)
(* What the modules of Control keep, part by part: the inductive invariant   *)
(* of a part, what its steps do to it, and what follows for the suite.       *)
(***************************************************************************)
EXTENDS Control, Integers, WellFoundedInduction, FiniteSetTheorems, SequenceTheorems, TLAPS

-----------------------------------------------------------------------------
(* AuditLog *)

Lineset == Records \cup {Garbage}

FileOK ==
  /\ file \in Seq(Lineset) /\ synced \in 0..Len(file) /\ Len(file) <= MaxRecords
  /\ ended \in BOOLEAN
ThreadsOK ==
  /\ lock \in Threads \cup {None}
  /\ pc \in [Threads -> {"idle", "read", "write", "sync"}]
  /\ mine \in [Threads -> Records \cup {None}]
AckedOK == acked \subseteq Records
FaultsOK == faults \in 0..MaxFaults

\* Only the holder of the lock is inside append.
HolderInside == \A t \in Threads : pc[t] # "idle" => lock = t

\* A record's place is the number of records before it.
LengthTellsPlace == \A i \in Lines : file[i] # Garbage => Len(file[i].prev) = i - 1

\* The record about to be written continues a chain that reads well.
MineContinues ==
  \A t \in Threads : pc[t] = "write" =>
    /\ mine[t] \in Records /\ mine[t].prev = LastHash
    /\ ~Broken /\ Len(file) < MaxRecords

\* A line without a newline belongs to an append that did not return.
UnendedNotAcked == ~ended => Len(file) > 0 /\ file[Len(file)] \notin acked

\* What append returned survives a death, or the line that hides it does.
Custody ==
  \A r \in acked : \E i \in 1..synced : file[i] \in {r, Garbage}

\* Before the sync nothing acknowledged is hidden.
SyncPoint ==
  \A t \in Threads : pc[t] = "sync" =>
    /\ Unreadable = {} /\ mine[t] \in Records
    /\ ended = TRUE /\ Len(file) > 0 /\ file[Len(file)] \in {mine[t], Garbage}

AtMostOne == \A r, q \in Unreadable : r = q

LogInv ==
  /\ FileOK /\ ThreadsOK /\ AckedOK /\ FaultsOK
  /\ HolderInside /\ LengthTellsPlace /\ ChainHolds /\ MineContinues
  /\ UnendedNotAcked /\ Custody /\ SyncPoint /\ AtMostOne

-----------------------------------------------------------------------------

LEMMA GarbageFact == Garbage \notin Records /\ None \notin Threads
BY LogAssumption

LEMMA HashFact ==
  ASSUME NEW r \in Records
  PROVE  /\ r.prev \in Seq(Events) /\ r.event \in Events /\ Len(r.prev) \in Nat
         /\ Hash(r) \in Seq(Events) /\ Len(Hash(r)) = Len(r.prev) + 1
BY AppendProperties, LenProperties DEF Records, Hash

LEMMA LineFact ==
  ASSUME FileOK
  PROVE  /\ Len(file) \in Nat /\ synced \in Nat /\ synced <= Len(file)
         /\ \A i \in Lines : i \in Nat /\ file[i] \in Lineset
         /\ \A i \in 1..synced : i \in Lines
BY LenProperties, ElementOfSeq DEF FileOK, Lines

LEMMA LastHashFact ==
  ASSUME FileOK, LengthTellsPlace, ~Broken
  PROVE  LastHash \in Seq(Events) /\ Len(LastHash) = Len(file)
<1>1. CASE file = <<>>
  BY <1>1, EmptySeq, LenProperties DEF LastHash
<1>2. CASE file # <<>>
  <2>1. Len(file) \in Lines
    BY <1>2, LineFact, EmptySeq DEF FileOK, Lines
  <2>2. file[Len(file)] \in Records
    BY <2>1, LineFact DEF Broken, Lineset
  <2>3. Len(file[Len(file)].prev) = Len(file) - 1
    BY <2>1, <2>2, GarbageFact DEF LengthTellsPlace
  <2> QED
    BY <1>2, <2>2, <2>3, HashFact, LineFact DEF LastHash
<1> QED
  BY <1>1, <1>2

\* What a write does to the lines.
LEMMA PutFact ==
  ASSUME FileOK, NEW line \in Lineset, Put(line), ~ended => Len(file) > 0
  PROVE  /\ file' \in Seq(Lineset)
         /\ Len(file') = (IF ended THEN Len(file) + 1 ELSE Len(file)) /\ Len(file') > 0
         /\ \A i \in 1..(Len(file') - 1) : i \in Lines /\ file'[i] = file[i]
         /\ file'[Len(file')] = IF ended THEN line ELSE Garbage
<1>1. CASE ended
  <2>1. file' = Append(file, line)
    BY <1>1 DEF Put
  <2> QED
    BY <1>1, <2>1, AppendProperties, LineFact DEF FileOK, Lines
<1>2. CASE ~ended
  <2>1. file' = [file EXCEPT ![Len(file)] = Garbage] /\ Garbage \in Lineset
    BY <1>2 DEF Put, Lineset
  <2>2. Len(file) \in 1..Len(file)
    BY <1>2, LineFact
  <2>3. file' \in Seq(Lineset) /\ Len(file') = Len(file)
    BY <2>1, <2>2, ExceptSeq DEF FileOK
  <2>4. \A i \in 1..Len(file) : file'[i] = IF i = Len(file) THEN Garbage ELSE file[i]
    BY <2>1, <2>2, ExceptSeq DEF FileOK
  <2> QED
    BY <1>2, <2>2, <2>3, <2>4, LineFact DEF Lines
<1> QED
  BY <1>1, <1>2 DEF FileOK

\* What a death leaves of the lines.
LEMMA DieFact ==
  ASSUME FileOK, Die
  PROVE  /\ file' \in Seq(Lineset) /\ Len(file') \in synced..Len(file) /\ ended' \in BOOLEAN
         /\ \A i \in 1..synced : file'[i] = file[i]
         /\ \A i \in 1..(Len(file') - 1) : file'[i] = file[i]
         /\ Len(file') > 0 => file'[Len(file')] \in {file[Len(file')], Garbage}
         /\ ~ended' => \/ file' = file /\ ended' = ended
                       \/ Len(file') > synced
<1>1. PICK n \in synced..Len(file) :
        \/ file' = SubSeq(file, 1, n) /\ ended' = (n < Len(file) \/ ended)
        \/ n < Len(file) /\ file' = Append(SubSeq(file, 1, n), Garbage) /\ ended' = FALSE
        \/ n < Len(file) /\ file' = SubSeq(file, 1, n + 1) /\ ended' = FALSE
  BY DEF Die
<1>2. /\ n \in Nat /\ synced <= n /\ n <= Len(file) /\ Len(file) \in Nat /\ synced \in Nat
      /\ \A i \in 1..Len(file) : file[i] \in Lineset
  BY LineFact DEF Lines
<1>3. ASSUME NEW k \in 0..Len(file)
      PROVE  /\ SubSeq(file, 1, k) \in Seq(Lineset) /\ Len(SubSeq(file, 1, k)) = k
             /\ \A i \in 1..k : SubSeq(file, 1, k)[i] = file[i]
  <2>1. \A i \in 1..k : file[i] \in Lineset
    BY <1>2
  <2>2. /\ SubSeq(file, 1, k) \in Seq(Lineset)
        /\ Len(SubSeq(file, 1, k)) = (IF 1 <= k THEN k - 1 + 1 ELSE 0)
        /\ \A i \in 1..(k - 1 + 1) : SubSeq(file, 1, k)[i] = file[1 + i - 1]
    BY <2>1, <1>2, SubSeqProperties
  <2> QED
    BY <2>2, <1>2
<1>4. CASE file' = SubSeq(file, 1, n) /\ ended' = (n < Len(file) \/ ended)
  <2>1. ended' \in BOOLEAN /\ (~ended' => n = Len(file) /\ ended' = ended)
    <3>1. n < Len(file) \/ n = Len(file)
      BY <1>2
    <3> QED
      BY <1>4, <3>1, Zenon DEF FileOK
  <2>2. n = Len(file) => file' = file
    BY <1>4, SubSeqFull DEF FileOK
  <2>3. n \in 0..Len(file)
    BY <1>2
  <2>4. file' \in Seq(Lineset) /\ Len(file') = n /\ \A i \in 1..n : file'[i] = file[i]
    BY <1>3, <1>4, <2>3
  <2> QED
    BY <1>2, <2>1, <2>2, <2>4
<1>5. CASE n < Len(file) /\ file' = Append(SubSeq(file, 1, n), Garbage) /\ ended' = FALSE
  <2>1. n \in 0..Len(file) /\ Garbage \in Lineset
    BY <1>2 DEF Lineset
  <2>2. /\ SubSeq(file, 1, n) \in Seq(Lineset) /\ Len(SubSeq(file, 1, n)) = n
        /\ \A i \in 1..n : SubSeq(file, 1, n)[i] = file[i]
    BY <1>3, <2>1
  <2>3. /\ file' \in Seq(Lineset) /\ Len(file') = n + 1 /\ file'[n + 1] = Garbage
        /\ \A i \in 1..n : file'[i] = file[i]
    BY <1>2, <1>5, <2>1, <2>2, AppendProperties
  <2>4. n + 1 \in synced..Len(file) /\ n + 1 > synced /\ \A i \in 1..synced : i \in 1..n
    BY <1>2, <1>5
  <2>5. \A i \in 1..(n + 1 - 1) : i \in 1..n
    BY <1>2
  <2>6. Len(file') \in synced..Len(file) /\ Len(file') > synced
    BY <2>3, <2>4
  <2>7. \A i \in 1..synced : file'[i] = file[i]
    BY <2>3, <2>4
  <2>8. \A i \in 1..(Len(file') - 1) : file'[i] = file[i]
    BY <2>3, <2>5
  <2>9. file'[Len(file')] = Garbage
    BY <2>3
  <2> QED
    BY <1>5, <2>3, <2>6, <2>7, <2>8, <2>9, Zenon
<1>6. CASE n < Len(file) /\ file' = SubSeq(file, 1, n + 1) /\ ended' = FALSE
  <2>1. n + 1 \in 0..Len(file)
    BY <1>2, <1>6
  <2>2. file' \in Seq(Lineset) /\ Len(file') = n + 1 /\ \A i \in 1..(n + 1) : file'[i] = file[i]
    BY <1>3, <1>6, <2>1
  <2>3. n + 1 \in synced..Len(file) /\ n + 1 > synced /\ \A i \in 1..synced : i \in 1..(n + 1)
    BY <1>2, <1>6
  <2>4. n + 1 \in 1..(n + 1) /\ \A i \in 1..(n + 1 - 1) : i \in 1..(n + 1)
    BY <1>2
  <2>5. Len(file') \in synced..Len(file) /\ Len(file') > synced
    BY <2>2, <2>3
  <2>6. \A i \in 1..synced : file'[i] = file[i]
    BY <2>2, <2>3
  <2>7. \A i \in 1..(Len(file') - 1) : file'[i] = file[i]
    BY <2>2, <2>4
  <2>8. file'[Len(file')] = file[Len(file')]
    BY <2>2, <2>4
  <2> QED
    BY <1>6, <2>2, <2>5, <2>6, <2>7, <2>8, Zenon
<1> QED
  BY <1>1, <1>4, <1>5, <1>6

\* An acknowledged record is early, or the line that hides it is the last.
LEMMA CustodyFact ==
  ASSUME LogInv, NEW r \in acked
  PROVE  \E i \in 1..synced : /\ i \in Lines
                              /\ \/ file[i] = r /\ Len(r.prev) = i - 1
                                 \/ file[i] = Garbage /\ i = Len(file)
<1>1. PICK i \in 1..synced : file[i] \in {r, Garbage}
  BY DEF LogInv, Custody
<1>2. i \in Lines /\ i \in Nat /\ i <= Len(file) /\ Len(file) \in Nat
  BY LineFact DEF LogInv, Lines
<1>3. CASE file[i] = r
  BY <1>2, <1>3, GarbageFact DEF LogInv, AckedOK, LengthTellsPlace
<1>4. CASE file[i] = Garbage
  BY <1>2, <1>4 DEF LogInv, ChainHolds
<1> QED
  BY <1>1, <1>2, <1>3, <1>4

\* A write, whole or short, of a record that continues the chain.
LEMMA WriteKeeps ==
  ASSUME LogInv, NEW t \in Threads, pc[t] = "write",
         NEW line \in {mine[t], Garbage}, Put(line), UNCHANGED <<synced, acked>>
  PROVE  /\ file' \in Seq(Lineset) /\ synced' \in 0..Len(file') /\ Len(file') <= MaxRecords
         /\ LengthTellsPlace' /\ ChainHolds' /\ Custody' /\ Unreadable' = {}
         /\ Len(file') > 0 /\ file'[Len(file')] \notin acked
         /\ file'[Len(file')] \in {mine[t], Garbage}
<1> DEFINE L == Len(file)
           M == Len(file')
<1>1. /\ mine[t] \in Records /\ mine[t].prev = LastHash /\ ~Broken /\ L < MaxRecords
      /\ FileOK /\ LengthTellsPlace /\ ChainHolds /\ UnendedNotAcked
  BY DEF LogInv, MineContinues
<1>2. /\ file' \in Seq(Lineset) /\ M = (IF ended THEN L + 1 ELSE L) /\ M > 0
      /\ \A i \in 1..(M - 1) : i \in Lines /\ file'[i] = file[i]
      /\ file'[M] = IF ended THEN line ELSE Garbage
  BY <1>1, PutFact DEF UnendedNotAcked, Lineset
<1>3. L \in Nat /\ M \in Nat /\ synced \in Nat /\ synced <= L /\ MaxRecords \in Nat
  BY <1>1, <1>2, LineFact, LogAssumption
<1>4. LastHash \in Seq(Events) /\ Len(LastHash) = L
  BY <1>1, LastHashFact
<1>5. \A i \in Lines : file[i] # Garbage
  BY <1>1 DEF Broken
<1>6. file'[M] # Garbage => ended /\ file'[M] = mine[t] /\ M = L + 1
  BY <1>2
<1>7. LengthTellsPlace'
  <2> SUFFICES ASSUME NEW i \in Lines', file'[i] # Garbage PROVE Len(file'[i].prev) = i - 1
    BY DEF LengthTellsPlace
  <2>1. CASE i = M
    BY <2>1, <1>1, <1>3, <1>4, <1>6
  <2>2. CASE i # M
    <3>1. i \in 1 .. (M - 1)
      BY <2>2, <1>3 DEF Lines
    <3>2. i \in Lines /\ file'[i] = file[i]
      BY <3>1, <1>2
    <3> QED
      BY <3>2, <1>1 DEF LengthTellsPlace
  <2> QED
    BY <2>1, <2>2
<1>8. ChainHolds'
  <2> SUFFICES ASSUME NEW i \in Lines'
               PROVE  /\ i < M => file'[i] # Garbage
                      /\ file'[i] # Garbage
                           => file'[i].prev = IF i = 1 THEN <<>> ELSE Hash(file'[i - 1])
    BY DEF ChainHolds
  <2>1. CASE i = M
    <3>1. file'[M] # Garbage => L = M - 1 /\ file'[M].prev = LastHash
      BY <1>1, <1>3, <1>6
    <3>2. L = 0 => LastHash = <<>>
      BY <1>1, EmptySeq DEF LastHash, FileOK
    <3>3. L # 0 => LastHash = Hash(file[L])
      BY EmptySeq DEF LastHash
    <3>4. M # 1 => M - 1 \in 1..(M - 1)
      <4>1. M \in Nat /\ M > 0
        BY <1>2, <1>3
      <4> HIDE DEF M
      <4> QED
        BY <4>1
    <3>5. M # 1 => file'[M - 1] = file[M - 1]
      BY <1>2, <3>4
    <3> QED
      BY <2>1, <3>1, <3>2, <3>3, <3>5, <1>3
  <2>2. CASE i # M
    <3>1. i \in 1..(M - 1) /\ (i # 1 => i - 1 \in 1..(M - 1)) /\ i \in Lines
      BY <2>2, <1>2, <1>3 DEF Lines
    <3>2. file'[i] = file[i] /\ (i # 1 => file'[i - 1] = file[i - 1])
      BY <3>1, <1>2
    <3> QED
      BY <3>1, <3>2, <1>1, <1>5 DEF ChainHolds
  <2> QED
    BY <2>1, <2>2
<1>9. ASSUME NEW r \in acked
      PROVE  r # file'[M] /\ \E i \in 1..synced : i \in Lines' /\ file'[i] = r
  <2>1. PICK i \in 1..synced : i \in Lines /\ file[i] = r /\ Len(r.prev) = i - 1
    BY CustodyFact, <1>5
  <2>2. r \in Records
    BY DEF LogInv, AckedOK
  <2>3. i \in Nat /\ i >= 1 /\ i <= L
    BY <2>1, <1>3 DEF Lines
  <2>4. r # file'[M]
    BY <2>1, <2>2, <2>3, <1>1, <1>2, <1>4, <1>6, <1>3, GarbageFact
  <2>5. i <= M - 1
    <3>1. CASE ended
      BY <3>1, <1>2, <1>3, <2>3
    <3>2. CASE ~ended
      <4>1. file[L] \notin acked
        BY <3>2, <1>1 DEF UnendedNotAcked
      <4> QED
        BY <4>1, <3>2, <1>2, <1>3, <2>1, <2>3
    <3> QED
      BY <3>1, <3>2
  <2> QED
    BY <2>1, <2>3, <2>4, <2>5, <1>2, <1>3 DEF Lines
<1>10. Custody' /\ Unreadable' = {}
  BY <1>9 DEF Custody, Unreadable
<1>11. file'[M] \notin acked
  BY <1>9
<1> QED
  BY <1>1, <1>2, <1>3, <1>7, <1>8, <1>10, <1>11

-----------------------------------------------------------------------------
LEMMA LogInit == Init => LogInv
<1> SUFFICES ASSUME Init PROVE LogInv
  OBVIOUS
<1>1. FileOK /\ ThreadsOK /\ AckedOK /\ FaultsOK
  BY EmptySeq, LogAssumption DEF Init, FileOK, ThreadsOK, AckedOK, FaultsOK
<1>2. HolderInside /\ MineContinues /\ SyncPoint
  BY DEF Init, HolderInside, MineContinues, SyncPoint
<1>3. LengthTellsPlace /\ ChainHolds /\ UnendedNotAcked /\ Custody /\ AtMostOne
  BY EmptySeq DEF Init, LengthTellsPlace, ChainHolds, Lines, UnendedNotAcked, Custody, AtMostOne,
     Unreadable
<1> QED
  BY <1>1, <1>2, <1>3 DEF LogInv

\* What a step that leaves the file and the acknowledged records alone keeps.
LEMMA SameFile ==
  ASSUME LogInv, UNCHANGED <<disk, acked>>
  PROVE  /\ FileOK' /\ AckedOK' /\ LengthTellsPlace' /\ ChainHolds' /\ UnendedNotAcked'
         /\ Custody' /\ AtMostOne' /\ Unreadable' = Unreadable /\ LastHash' = LastHash
         /\ Broken' = Broken
BY DEF LogInv, disk, FileOK, AckedOK, LengthTellsPlace, ChainHolds, Lines, UnendedNotAcked, Custody,
   AtMostOne, Unreadable, LastHash, Broken

\* Only one thread is inside.
LEMMA OthersIdle ==
  ASSUME LogInv, NEW t \in Threads, pc[t] # "idle"
  PROVE  lock = t /\ \A s \in Threads : s # t => pc[s] = "idle"
BY DEF LogInv, HolderInside

\* What releasing the lock keeps, and leaves of the thread's facts.
LEMMA ReleaseKeeps ==
  ASSUME LogInv, NEW t \in Threads, pc[t] # "idle", Release(t), UNCHANGED mine
  PROVE  /\ ThreadsOK' /\ HolderInside' /\ MineContinues' /\ SyncPoint'
         /\ \A s \in Threads : pc'[s] = "idle"
<1>1. pc' = [pc EXCEPT ![t] = "idle"] /\ lock' = None /\ ThreadsOK
  BY DEF Release, LogInv
<1>2. \A s \in Threads : pc'[s] = "idle"
  BY <1>1, OthersIdle DEF ThreadsOK
<1>3. ThreadsOK'
  BY <1>1 DEF ThreadsOK
<1> QED
  BY <1>2, <1>3 DEF HolderInside, MineContinues, SyncPoint

LEMMA AcquireKeeps == ASSUME LogInv, NEW t \in Threads, Acquire(t) PROVE LogInv'
<1>1. /\ pc' = [pc EXCEPT ![t] = "read"] /\ lock = None /\ lock' = t /\ mine' = mine
      /\ UNCHANGED <<disk, acked, faults>> /\ ThreadsOK /\ FaultsOK
  BY DEF Acquire, LogInv
<1>2. ThreadsOK' /\ FaultsOK'
  BY <1>1 DEF ThreadsOK, FaultsOK
<1>3. \A s \in Threads : pc[s] = "idle"
  BY <1>1, GarbageFact DEF LogInv, HolderInside
<1>4. \A s \in Threads : pc'[s] = IF s = t THEN "read" ELSE "idle"
  BY <1>1, <1>3 DEF ThreadsOK
<1>5. HolderInside' /\ MineContinues' /\ SyncPoint'
  BY <1>1, <1>4 DEF HolderInside, MineContinues, SyncPoint
<1> QED
  BY <1>1, <1>2, <1>5, SameFile DEF LogInv

LEMMA ReadKeeps == ASSUME LogInv, NEW t \in Threads, Read(t) PROVE LogInv'
<1>1. pc[t] = "read" /\ UNCHANGED <<disk, acked, faults>> /\ ThreadsOK /\ FaultsOK /\ FaultsOK'
  BY DEF Read, LogInv, FaultsOK
<1>2. CASE Release(t) /\ UNCHANGED mine
  BY <1>1, <1>2, ReleaseKeeps, SameFile DEF LogInv
<1>3. CASE /\ ~Broken /\ Len(file) < MaxRecords /\ UNCHANGED lock
           /\ \E e \in Events : mine' = [mine EXCEPT ![t] = [prev |-> LastHash, event |-> e]]
           /\ pc' = [pc EXCEPT ![t] = "write"]
  <2>1. LastHash \in Seq(Events)
    BY <1>3, LastHashFact DEF LogInv
  <2>2. PICK e \in Events : mine' = [mine EXCEPT ![t] = [prev |-> LastHash, event |-> e]]
    BY <1>3
  <2>3. [prev |-> LastHash, event |-> e] \in Records
    BY <2>1 DEF Records
  <2>4. ThreadsOK' /\ mine'[t] \in Records /\ mine'[t].prev = LastHash
    BY <1>1, <1>3, <2>2, <2>3 DEF ThreadsOK
  <2>5. \A s \in Threads : pc'[s] = IF s = t THEN "write" ELSE "idle"
    BY <1>1, <1>3, OthersIdle DEF ThreadsOK
  <2>6. lock' = t
    BY <1>1, <1>3, OthersIdle
  <2>7. HolderInside' /\ SyncPoint'
    BY <2>5, <2>6 DEF HolderInside, SyncPoint
  <2>8. Len(file') < MaxRecords /\ ~Broken' /\ LastHash' = LastHash
    BY <1>1, <1>3, SameFile DEF disk
  <2>9. MineContinues'
    BY <2>4, <2>5, <2>8 DEF MineContinues
  <2> QED
    BY <1>1, <2>4, <2>7, <2>9, SameFile DEF LogInv
<1> QED
  BY <1>2, <1>3 DEF Read

LEMMA WriteStep == ASSUME LogInv, NEW t \in Threads, Write(t) PROVE LogInv'
<1>1. /\ pc[t] = "write" /\ Put(mine[t]) /\ ended' = TRUE /\ pc' = [pc EXCEPT ![t] = "sync"]
      /\ UNCHANGED <<synced, lock, mine, acked, faults>>
      /\ ThreadsOK /\ AckedOK /\ FaultsOK /\ mine[t] \in Records
  BY DEF Write, LogInv, MineContinues
<1>2. /\ file' \in Seq(Lineset) /\ synced' \in 0..Len(file') /\ Len(file') <= MaxRecords
      /\ LengthTellsPlace' /\ ChainHolds' /\ Custody' /\ Unreadable' = {}
      /\ Len(file') > 0 /\ file'[Len(file')] \in {mine[t], Garbage}
  BY <1>1, WriteKeeps
<1>3. FileOK' /\ AckedOK' /\ FaultsOK' /\ UnendedNotAcked' /\ AtMostOne'
  BY <1>1, <1>2 DEF FileOK, AckedOK, FaultsOK, UnendedNotAcked, AtMostOne
<1>4. ThreadsOK'
  BY <1>1 DEF ThreadsOK
<1>5. \A s \in Threads : pc'[s] = IF s = t THEN "sync" ELSE "idle"
  BY <1>1, OthersIdle DEF ThreadsOK
<1>6. lock' = t
  BY <1>1, OthersIdle
<1>7. HolderInside' /\ MineContinues' /\ SyncPoint'
  BY <1>1, <1>2, <1>5, <1>6 DEF HolderInside, MineContinues, SyncPoint
<1> QED
  BY <1>2, <1>3, <1>4, <1>7 DEF LogInv

LEMMA WriteShortKeeps == ASSUME LogInv, NEW t \in Threads, WriteShort(t) PROVE LogInv'
<1>1. /\ pc[t] = "write" /\ Release(t) /\ UNCHANGED <<synced, mine, acked>>
      /\ faults < MaxFaults /\ faults' = faults + 1 /\ AckedOK /\ FaultsOK
  BY DEF WriteShort, LogInv
<1>2. FaultsOK' /\ AckedOK'
  BY <1>1, LogAssumption DEF FaultsOK, AckedOK
<1>3. ThreadsOK' /\ HolderInside' /\ MineContinues' /\ SyncPoint'
  BY <1>1, ReleaseKeeps
<1>4. CASE UNCHANGED <<file, ended>>
  <2>1. UNCHANGED <<disk, acked>>
    BY <1>1, <1>4 DEF disk
  <2> QED
    BY <2>1, <1>2, <1>3, SameFile DEF LogInv
<1>5. CASE (\E line \in {Garbage, mine[t]} : Put(line)) /\ ended' = FALSE
  <2>1. PICK line \in {mine[t], Garbage} : Put(line)
    BY <1>5
  <2>2. /\ file' \in Seq(Lineset) /\ synced' \in 0..Len(file') /\ Len(file') <= MaxRecords
        /\ LengthTellsPlace' /\ ChainHolds' /\ Custody' /\ Unreadable' = {}
        /\ Len(file') > 0 /\ file'[Len(file')] \notin acked
    BY <1>1, <2>1, WriteKeeps
  <2>3. FileOK' /\ UnendedNotAcked' /\ AtMostOne'
    BY <1>1, <1>5, <2>2 DEF FileOK, UnendedNotAcked, AtMostOne
  <2> QED
    BY <1>2, <1>3, <2>2, <2>3 DEF LogInv
<1> QED
  BY <1>4, <1>5 DEF WriteShort

LEMMA SyncKeeps == ASSUME LogInv, NEW t \in Threads, Sync(t) PROVE LogInv'
<1>1. /\ pc[t] = "sync" /\ synced' = Len(file) /\ acked' = acked \cup {mine[t]} /\ Release(t)
      /\ UNCHANGED <<file, ended, mine, faults>>
      /\ FileOK /\ AckedOK /\ FaultsOK /\ LengthTellsPlace /\ ChainHolds /\ Custody
      /\ UnendedNotAcked /\ Len(file) \in Nat
  BY LineFact DEF Sync, LogInv
<1>2. /\ Unreadable = {} /\ mine[t] \in Records /\ Len(file) > 0
      /\ file[Len(file)] \in {mine[t], Garbage}
  BY <1>1 DEF LogInv, SyncPoint
<1>3. FileOK' /\ AckedOK' /\ FaultsOK'
  BY <1>1, <1>2 DEF FileOK, AckedOK, FaultsOK
<1>4. LengthTellsPlace' /\ ChainHolds'
  BY <1>1 DEF LengthTellsPlace, ChainHolds, Lines
<1>5. Len(file) \in Lines /\ \A i \in 1..synced : i \in Lines
  BY <1>1, <1>2, LineFact DEF Lines
<1>6. Custody'
  BY <1>1, <1>2, <1>5 DEF Custody, Lines
<1>7. Unreadable' \subseteq {mine[t]}
  BY <1>1, <1>2 DEF Unreadable, Lines
<1>8. AtMostOne'
  BY <1>7 DEF AtMostOne
<1>9. ThreadsOK' /\ HolderInside' /\ MineContinues' /\ SyncPoint'
  BY <1>1, ReleaseKeeps
<1>10. UnendedNotAcked'
  BY <1>1 DEF LogInv, SyncPoint, UnendedNotAcked
<1> QED
  BY <1>3, <1>4, <1>6, <1>8, <1>9, <1>10 DEF LogInv

LEMMA SyncFailsKeeps == ASSUME LogInv, NEW t \in Threads, SyncFails(t) PROVE LogInv'
<1>1. /\ pc[t] = "sync" /\ Release(t) /\ UNCHANGED <<disk, mine, acked>>
      /\ faults < MaxFaults /\ faults' = faults + 1 /\ FaultsOK
  BY DEF SyncFails, LogInv
<1>2. FaultsOK'
  BY <1>1, LogAssumption DEF FaultsOK
<1> QED
  BY <1>1, <1>2, ReleaseKeeps, SameFile DEF LogInv

LEMMA DieKeeps == ASSUME LogInv, Die PROVE LogInv'
<1>1. /\ faults < MaxFaults /\ faults' = faults + 1 /\ synced' = Len(file') /\ lock' = None
      /\ pc' = [s \in Threads |-> "idle"] /\ UNCHANGED <<mine, acked>>
      /\ FileOK /\ AckedOK /\ FaultsOK /\ ThreadsOK /\ LengthTellsPlace /\ ChainHolds
      /\ UnendedNotAcked /\ AtMostOne
  BY DEF Die, LogInv
<1>2. /\ file' \in Seq(Lineset) /\ Len(file') \in synced..Len(file) /\ ended' \in BOOLEAN
      /\ \A i \in 1..synced : file'[i] = file[i]
      /\ \A i \in 1..(Len(file') - 1) : file'[i] = file[i]
      /\ Len(file') > 0 => file'[Len(file')] \in {file[Len(file')], Garbage}
      /\ ~ended' => \/ file' = file /\ ended' = ended
                    \/ Len(file') > synced
  BY <1>1, DieFact
<1>3. /\ Len(file') \in Nat /\ Len(file) \in Nat /\ synced \in Nat /\ MaxRecords \in Nat
      /\ synced <= Len(file') /\ Len(file') <= Len(file)
  BY <1>1, <1>2, LineFact, LenProperties, LogAssumption
<1>4. FaultsOK' /\ AckedOK' /\ ThreadsOK'
  BY <1>1, LogAssumption DEF FaultsOK, AckedOK, ThreadsOK
<1>5. FileOK'
  BY <1>1, <1>2, <1>3 DEF FileOK
<1>6. HolderInside' /\ MineContinues' /\ SyncPoint'
  BY <1>1 DEF HolderInside, MineContinues, SyncPoint
<1>7. \A i \in 1..Len(file') : i \in Lines /\ file'[i] \in {file[i], Garbage}
  BY <1>2, <1>3 DEF Lines
<1>8. LengthTellsPlace'
  BY <1>1, <1>7 DEF LengthTellsPlace, Lines
<1>9. ChainHolds'
  <2> SUFFICES ASSUME NEW i \in 1..Len(file')
               PROVE  /\ i < Len(file') => file'[i] # Garbage
                      /\ file'[i] # Garbage
                           => file'[i].prev = IF i = 1 THEN <<>> ELSE Hash(file'[i - 1])
    BY DEF ChainHolds, Lines
  <2>1. i < Len(file') => i \in 1..(Len(file') - 1) /\ i < Len(file)
    BY <1>3
  <2>2. i # 1 => i - 1 \in 1..(Len(file') - 1)
    BY <1>3
  <2>3. i # 1 => file'[i - 1] = file[i - 1]
    BY <2>2, <1>2
  <2>4. i < Len(file') => file'[i] # Garbage
    BY <2>1, <1>1, <1>2, <1>7 DEF ChainHolds
  <2>5. file'[i] # Garbage => file'[i] = file[i] /\ file[i].prev = IF i = 1 THEN <<>> ELSE Hash(file[i - 1])
    BY <1>1, <1>7 DEF ChainHolds
  <2> QED
    BY <2>3, <2>4, <2>5
<1>10. Custody'
  <2> SUFFICES ASSUME NEW r \in acked PROVE \E i \in 1..synced' : file'[i] \in {r, Garbage}
    BY <1>1 DEF Custody
  <2>1. PICK i \in 1..synced : file[i] \in {r, Garbage}
    BY DEF LogInv, Custody
  <2>2. i \in 1..synced'
    BY <1>1, <1>3
  <2> QED
    BY <2>1, <2>2, <1>2
<1>11. Unreadable' \subseteq Unreadable
  <2> SUFFICES ASSUME NEW r \in acked, \A i \in 1..Len(file') : file'[i] # r
               PROVE  \A i \in Lines : file[i] # r
    BY <1>1 DEF Unreadable, Lines
  <2>1. PICK i \in 1..synced : /\ i \in Lines
                               /\ \/ file[i] = r
                                  \/ file[i] = Garbage /\ i = Len(file)
    BY CustodyFact
  <2>2. file'[i] = file[i] /\ i \in 1..Len(file')
    BY <2>1, <1>2, <1>3
  <2>3. i = Len(file) /\ Len(file') = Len(file) /\ synced = Len(file)
    BY <2>1, <2>2, <1>3 DEF Lines
  <2> QED
    BY <2>3, <1>2 DEF Lines
<1>12. AtMostOne'
  BY <1>1, <1>11 DEF AtMostOne
<1>13. UnendedNotAcked'
  <2> SUFFICES ASSUME ~ended' PROVE Len(file') > 0 /\ file'[Len(file')] \notin acked
    BY <1>1 DEF UnendedNotAcked
  <2>1. CASE file' = file /\ ended' = ended
    BY <2>1, <1>1 DEF UnendedNotAcked
  <2>2. CASE Len(file') > synced
    <3>1. Len(file') > 0 /\ Len(file') \in Lines
      BY <2>2, <1>3 DEF Lines
    <3>2. SUFFICES ASSUME file'[Len(file')] \in acked PROVE FALSE
      BY <3>1
    <3>3. file'[Len(file')] = file[Len(file')] /\ file[Len(file')] \in Records
      BY <3>1, <3>2, <1>1, <1>2, GarbageFact DEF AckedOK
    <3>4. Len(file[Len(file')].prev) = Len(file') - 1
      BY <3>1, <3>3, <1>1, GarbageFact DEF LengthTellsPlace
    <3>5. \E i \in 1..synced : \/ Len(file[Len(file')].prev) = i - 1
                               \/ i = Len(file)
      BY <3>2, <3>3, CustodyFact
    <3> QED
      BY <3>4, <3>5, <2>2, <1>3
  <2> QED
    BY <2>1, <2>2, <1>2
<1> QED
  BY <1>4, <1>5, <1>6, <1>8, <1>9, <1>10, <1>12, <1>13 DEF LogInv

LEMMA LogStutter == ASSUME LogInv, UNCHANGED vars PROVE LogInv'
<1>1. UNCHANGED <<disk, acked>> /\ UNCHANGED <<file, ended, lock, pc, mine, faults>>
  BY DEF vars, disk
<1>2. ThreadsOK' /\ FaultsOK' /\ HolderInside'
  BY <1>1 DEF LogInv, ThreadsOK, FaultsOK, HolderInside
<1>3. Unreadable' = Unreadable /\ LastHash' = LastHash /\ Broken' = Broken
  BY <1>1, SameFile
<1>4. MineContinues' /\ SyncPoint'
  BY <1>1, <1>3 DEF LogInv, MineContinues, SyncPoint
<1> QED
  BY <1>1, <1>2, <1>4, SameFile DEF LogInv

\* LogInv holds in every state of append's interleavings.
THEOREM Invariance == Spec => []LogInv
<1>1. LogInv /\ [Next]_vars => LogInv'
  BY AcquireKeeps, ReadKeeps, WriteStep, WriteShortKeeps, SyncKeeps, SyncFailsKeeps, DieKeeps,
     LogStutter DEF Next, Step
<1> QED
  BY <1>1, LogInit, PTL DEF Spec

\* The lines, the lock and the threads of append have their types.
THEOREM TypeCorrect == Spec => []TypeOK
<1>1. LogInv => TypeOK
  <2> SUFFICES ASSUME LogInv PROVE TypeOK
    OBVIOUS
  <2>1. FileOK /\ ThreadsOK /\ FaultsOK
    BY DEF LogInv
  <2>2. \A i \in Lines : file[i] = Garbage \/ (file[i].prev \in Seq(Events) /\ file[i].event \in Events)
    BY <2>1, LineFact, HashFact DEF Lineset
  <2>3. \A t \in Threads : mine[t] # None => mine[t].event \in Events
    BY <2>1, HashFact DEF ThreadsOK
  <2> QED
    BY <2>1, <2>2, <2>3 DEF TypeOK, FileOK, ThreadsOK, FaultsOK
<1> QED
  BY <1>1, Invariance, PTL

\* However many threads append, die or run out of disk: the chain does not
\* fork, and nothing follows a line that is no record.
THEOREM ChainNeverForks == Spec => []ChainHolds
<1>1. LogInv => ChainHolds
  BY DEF LogInv
<1> QED
  BY <1>1, Invariance, PTL

\* Of the records whose append returned at most the last is lost, and never
\* behind the back of verify_chain.
THEOREM LossIsSeen == Spec => []AtMostLastUnreadable
<1>1. LogInv => AtMostLastUnreadable
  <2> SUFFICES ASSUME LogInv PROVE AtMostLastUnreadable
    OBVIOUS
  <2>1. ASSUME NEW r \in Unreadable PROVE ~Verified
    <3>1. r \in acked /\ \A i \in Lines : file[i] # r
      BY DEF Unreadable
    <3>2. \E i \in Lines : file[i] = Garbage
      BY <3>1, CustodyFact
    <3> QED
      BY <3>2 DEF Verified
  <2> QED
    BY <2>1 DEF AtMostLastUnreadable, LogInv, AtMostOne
<1> QED
  BY <1>1, Invariance, PTL

\* The log is one chain, and a record it lost of those acknowledged shows.
THEOREM TrailIsOneChain == Spec => []TrailHolds
<1>1. ChainHolds /\ AtMostLastUnreadable => TrailHolds
  BY DEF TrailHolds
<1> QED
  BY <1>1, ChainNeverForks, LossIsSeen, PTL

-----------------------------------------------------------------------------
(* RateGovernor *)

RatePolicy == [rate : Nat, burst : Nat]

RateBucket == [policy : RatePolicy, tokens : Nat, at : Nat]
RateMem == [now : Nat, current : Nat, policy : RatePolicy, changes : Nat, buckets : Seq(RateBucket)]
RateProc == [bucket : Nat, wake : Nat, seen : Nat]
RateHist == [grants : Seq(Seq(Nat)), made : Seq(Nat), stale : BOOLEAN]

RateTyped == mem \in RateMem /\ proc \in [Callers -> RateProc] /\ hist \in RateHist

\* What a bucket of the given burst and rate promises that holds t tokens since
\* time a and granted at the times g: what it granted since any of them, and what
\* it still holds, is covered by its burst and the refill since.
RateCovered(burst, rate, t, a, g) ==
  /\ t <= burst
  /\ \A j \in 1 .. Len(g) : g[j] <= a /\ Len(g) - j + 1 + t <= burst + rate * (a - g[j])

RateWithin(burst, rate, g) ==
  \A j, k \in 1 .. Len(g) : j <= k => k - j + 1 <= burst + rate * (g[k] - g[j])

RateBucketHolds(b, g) ==
  /\ RateCovered(b.policy.burst, b.policy.rate, b.tokens, b.at, g)
  /\ RateWithin(b.policy.burst, b.policy.rate, g)

RateShape ==
  /\ Len(hist.grants) = Len(mem.buckets) /\ Len(hist.made) = Len(mem.buckets)
  /\ Len(mem.buckets) > 0 /\ mem.current <= Len(mem.buckets)
  /\ \A c \in Callers : proc[c].bucket <= Len(mem.buckets)

RateBucketsHold ==
  \A i \in 1 .. Len(mem.buckets) :
    /\ mem.buckets[i].at <= mem.now
    /\ RateBucketHolds(mem.buckets[i], hist.grants[i])

\* The bucket in the map was made after the last change of the policy.
RateIsFresh ==
  /\ mem.current > 0 => hist.made[mem.current] = mem.changes
  /\ \A c \in Callers :
       /\ proc[c].seen <= mem.changes
       /\ proc[c].bucket > 1 => hist.made[proc[c].bucket] >= proc[c].seen
  /\ ~hist.stale

RateInv == RateTyped /\ RateShape /\ RateBucketsHold /\ RateIsFresh

-----------------------------------------------------------------------------

LEMMA RateMinOfTwo ==
  ASSUME NEW a \in Nat, NEW b \in Nat
  PROVE  Rate!Min({a, b}) \in Nat /\ Rate!Min({a, b}) <= a /\ Rate!Min({a, b}) <= b
<1>1. \E x \in {a, b} : \A y \in {a, b} : x <= y
  OBVIOUS
<1>2. Rate!Min({a, b}) \in {a, b} /\ \A y \in {a, b} : Rate!Min({a, b}) <= y
  BY <1>1 DEF Rate!Min
<1> QED
  BY <1>2

LEMMA RateProductIsNat == \A m, n \in Nat : m * n \in Nat
  OBVIOUS

LEMMA RateRefillAdds ==
  ASSUME NEW r \in Nat, NEW a \in Nat, NEW b \in Nat, NEW c \in Nat, c <= a, a <= b
  PROVE  \E x, y \in Nat : /\ x = r * (a - c) /\ y = (b - a) * r
                           /\ r * (b - c) = x + y
<1>1. PICK d \in Nat : a = c + d
  <2>1. a - c \in Nat /\ a = c + (a - c)
    OBVIOUS
  <2> QED
    BY <2>1
<1>2. PICK e \in Nat : b = a + e
  <2>1. b - a \in Nat /\ b = a + (b - a)
    OBVIOUS
  <2> QED
    BY <2>1
<1>3. a - c = d /\ b - a = e /\ b - c = d + e
  BY <1>1, <1>2
<1>4. r * (d + e) = r * d + e * r
  OBVIOUS
<1>5. r * d \in Nat /\ e * r \in Nat
  BY RateProductIsNat
<1> QED
  BY <1>3, <1>4, <1>5

\* A refill, capped or not, keeps the promise.
LEMMA RateRefillCovers ==
  ASSUME NEW burst \in Nat, NEW rate \in Nat, NEW t \in Nat, NEW a \in Nat, NEW g \in Seq(Nat),
         NEW now \in Nat, a <= now, RateCovered(burst, rate, t, a, g),
         NEW m \in Nat, m <= burst, m <= t + (now - a) * rate
  PROVE  RateCovered(burst, rate, m, now, g)
<1> SUFFICES ASSUME NEW j \in 1 .. Len(g)
    PROVE  g[j] <= now /\ Len(g) - j + 1 + m <= burst + rate * (now - g[j])
  BY DEF RateCovered
<1>1. PICK p \in Nat : p = g[j]
  OBVIOUS
<1>2. PICK n \in Nat : n = Len(g) - j + 1
  <2>1. Len(g) - j + 1 \in Nat
    OBVIOUS
  <2> QED
    BY <2>1
<1>3. p <= a /\ n + t <= burst + rate * (a - p)
  BY <1>1, <1>2 DEF RateCovered
<1>4. PICK x, y \in Nat : x = rate * (a - p) /\ y = (now - a) * rate /\ rate * (now - p) = x + y
  BY <1>3, RateRefillAdds
<1>5. n + t <= burst + x /\ m <= t + y
  BY <1>3, <1>4
<1>6. n + m <= burst + (x + y)
  BY <1>5
<1>7. p <= now /\ n + m <= burst + rate * (now - p)
  BY <1>3, <1>4, <1>6
<1> QED
  BY <1>1, <1>2, <1>7

\* A grant is paid with a token.
LEMMA RateGrantCovers ==
  ASSUME NEW burst \in Nat, NEW rate \in Nat, NEW t \in Nat, t >= 1, NEW a \in Nat, NEW g \in Seq(Nat),
         RateCovered(burst, rate, t, a, g), RateWithin(burst, rate, g)
  PROVE  RateCovered(burst, rate, t - 1, a, Append(g, a)) /\ RateWithin(burst, rate, Append(g, a))
<1> DEFINE h == Append(g, a)
<1>1. Len(g) \in Nat /\ h \in Seq(Nat) /\ Len(h) = Len(g) + 1 /\ h[Len(g) + 1] = a
      /\ \A j \in 1 .. Len(g) : h[j] = g[j] /\ g[j] \in Nat
  OBVIOUS
<1>2. rate * (a - a) = 0
  <2>1. a - a = 0 /\ rate * 0 = 0
    OBVIOUS
  <2> QED
    BY <2>1
<1>3. t <= burst /\ \A j \in 1 .. Len(g) : g[j] <= a /\ Len(g) - j + 1 + t <= burst + rate * (a - g[j])
  BY DEF RateCovered
<1> HIDE DEF h
<1>4. RateCovered(burst, rate, t - 1, a, h)
  <2> SUFFICES ASSUME NEW j \in 1 .. Len(h)
      PROVE  h[j] <= a /\ Len(h) - j + 1 + (t - 1) <= burst + rate * (a - h[j])
    BY <1>3 DEF RateCovered
  <2>1. CASE j = Len(g) + 1
    BY <1>1, <1>2, <1>3, <2>1
  <2>2. CASE j \in 1 .. Len(g)
    <3>1. PICK x : x = rate * (a - g[j])
      OBVIOUS
    <3>2. g[j] <= a /\ Len(g) - j + 1 + t <= burst + x
      BY <1>3, <2>2, <3>1
    <3>3. Len(h) - j + 1 + (t - 1) = Len(g) - j + 1 + t
      BY <1>1, <2>2
    <3> QED
      BY <1>1, <2>2, <3>1, <3>2, <3>3
  <2> QED
    BY <1>1, <2>1, <2>2
<1>5. RateWithin(burst, rate, h)
  <2> SUFFICES ASSUME NEW j \in 1 .. Len(h), NEW k \in 1 .. Len(h), j <= k
      PROVE  k - j + 1 <= burst + rate * (h[k] - h[j])
    BY DEF RateWithin
  <2>1. CASE k \in 1 .. Len(g)
    <3>0. j \in 1 .. Len(g)
      BY <1>1, <2>1
    <3>1. h[j] = g[j] /\ h[k] = g[k]
      BY <1>1, <2>1, <3>0
    <3>2. k - j + 1 <= burst + rate * (g[k] - g[j])
      BY <2>1, <3>0 DEF RateWithin
    <3> QED
      BY <3>1, <3>2
  <2>2. CASE k = Len(g) + 1 /\ j \in 1 .. Len(g)
    <3>1. PICK x : x = rate * (a - g[j])
      OBVIOUS
    <3>2. rate * (h[k] - h[j]) = x
      BY <1>1, <2>2, <3>1
    <3>3. Len(g) - j + 1 + t <= burst + x
      BY <1>3, <2>2, <3>1
    <3>4. PICK w \in Int : w = burst + x
      <4>1. g[j] \in Nat /\ a - g[j] \in Nat
        BY <1>3, <2>2, SMTT(40)
      <4>2. x \in Nat
        BY <3>1, <4>1, RateProductIsNat
      <4> QED
        BY <4>2
    <3>5. k - j + 1 = Len(g) - j + 2
      BY <2>2
    <3>6. Len(g) - j + 1 + t <= w
      BY <3>3, <3>4
    <3>7. Len(g) - j + 2 <= w
      BY <3>6, <2>2
    <3> QED
      BY <3>2, <3>4, <3>5, <3>7
  <2>3. CASE k = Len(g) + 1 /\ j = Len(g) + 1
    BY <1>1, <1>2, <1>3, <2>3
  <2> QED
    BY <1>1, <2>1, <2>2, <2>3
<1> QED
  BY <1>4, <1>5 DEF h

LEMMA RateRefillKeeps ==
  ASSUME RateTyped, NEW b \in RateBucket, NEW g \in Seq(Nat), b.at <= mem.now, RateBucketHolds(b, g)
  PROVE  /\ Rate!Refill(b) \in RateBucket /\ Rate!Refill(b).policy = b.policy /\ Rate!Refill(b).at = mem.now
         /\ RateBucketHolds(Rate!Refill(b), g)
<1> DEFINE more == (mem.now - b.at) * b.policy.rate
           m == Rate!Min({b.policy.burst, b.tokens + more})
<1>1. /\ mem.now \in Nat /\ b.at \in Nat /\ b.tokens \in Nat /\ b.policy.burst \in Nat
      /\ b.policy.rate \in Nat /\ b.policy \in RatePolicy
  BY DEF RateTyped, RateMem, RateBucket, RatePolicy
<1>2. more \in Nat
  <2>1. mem.now - b.at \in Nat
    BY <1>1
  <2> QED
    BY <1>1, <2>1, RateProductIsNat
<1>3. m \in Nat /\ m <= b.policy.burst /\ m <= b.tokens + more
  <2> HIDE DEF more
  <2>1. b.tokens + more \in Nat
    BY <1>1, <1>2
  <2> QED
    BY <1>1, <2>1, RateMinOfTwo
<1>4. Rate!Refill(b) = [policy |-> b.policy, tokens |-> m, at |-> mem.now]
  <2>1. Rate!Refill(b) = [b EXCEPT !.tokens = m, !.at = mem.now]
    BY DEF Rate!Refill
  <2> HIDE DEF m
  <2> QED
    BY <2>1 DEF RateBucket
<1>5. RateCovered(b.policy.burst, b.policy.rate, m, mem.now, g)
  <2> HIDE DEF m
  <2> QED
    BY <1>1, <1>3, RateRefillCovers DEF RateBucketHolds
<1>6. RateBucketHolds(Rate!Refill(b), g)
  BY <1>4, <1>5 DEF RateBucketHolds
<1> HIDE DEF m
<1> QED
  BY <1>1, <1>3, <1>4, <1>6 DEF RateBucket

LEMMA RateGrantKeeps ==
  ASSUME NEW b \in RateBucket, NEW g \in Seq(Nat), b.tokens >= 1, RateBucketHolds(b, g)
  PROVE  LET p == [b EXCEPT !.tokens = @ - 1] IN
         p \in RateBucket /\ p.at = b.at /\ RateBucketHolds(p, Append(g, b.at))
<1> DEFINE p == [b EXCEPT !.tokens = @ - 1]
<1>1. b.at \in Nat /\ b.tokens \in Nat /\ b.policy \in RatePolicy /\ b.policy.burst \in Nat /\ b.policy.rate \in Nat
  BY DEF RateBucket, RatePolicy
<1>2. p = [policy |-> b.policy, tokens |-> b.tokens - 1, at |-> b.at] /\ b.tokens - 1 \in Nat
  BY <1>1 DEF RateBucket
<1>3. RateBucketHolds(p, Append(g, b.at))
  BY <1>1, <1>2, RateGrantCovers DEF RateBucketHolds
<1> QED
  BY <1>1, <1>2, <1>3 DEF RateBucket

-----------------------------------------------------------------------------

LEMMA RateInit == Rate!Init => RateInv
<1> SUFFICES ASSUME Rate!Init PROVE RateInv
  OBVIOUS
<1> DEFINE b == [policy |-> GlobalPolicy, tokens |-> GlobalPolicy.burst, at |-> 0]
<1>1. GlobalPolicy \in RatePolicy /\ GlobalPolicy.burst \in Nat /\ KeyPolicy \in RatePolicy
  BY RateAssumption DEF RatePolicy
<1>2. b \in RateBucket
  BY <1>1 DEF RateBucket
<1>3. /\ mem = [now |-> 0, current |-> 0, policy |-> KeyPolicy, changes |-> 0, buckets |-> <<b>>]
      /\ proc = [c \in Callers |-> Rate!Idle] /\ hist = [grants |-> << <<>> >>, made |-> <<0>>, stale |-> FALSE]
  BY DEF Rate!Init
<1>4. RateBucketHolds(b, <<>>)
  BY <1>1 DEF RateBucketHolds, RateCovered, RateWithin
<1> HIDE DEF b
<1>5. mem \in RateMem
  <2>1. <<b>> \in Seq(RateBucket)
    BY <1>2
  <2> QED
    BY <1>1, <1>3, <2>1 DEF RateMem
<1>6. proc \in [Callers -> RateProc]
  BY <1>3 DEF RateProc, Rate!Idle
<1>7. hist \in RateHist
  <2>1. << <<>> >> \in Seq(Seq(Nat)) /\ <<0>> \in Seq(Nat)
    OBVIOUS
  <2> QED
    BY <1>3, <2>1 DEF RateHist
<1>8. RateShape
  BY <1>3 DEF RateShape, Rate!Idle
<1>9. RateBucketsHold
  <2>1. mem.buckets[1] = b /\ hist.grants[1] = <<>> /\ Len(mem.buckets) = 1 /\ b.at = 0 /\ mem.now = 0
    BY <1>3 DEF b
  <2> QED
    BY <1>4, <2>1 DEF RateBucketsHold
<1>10. RateIsFresh
  BY <1>3 DEF RateIsFresh, Rate!Idle
<1> QED
  BY <1>5, <1>6, <1>7, <1>8, <1>9, <1>10 DEF RateInv, RateTyped

\* What the types say of the fields.
LEMMA RateFields ==
  ASSUME RateInv
  PROVE  /\ mem.now \in Nat /\ mem.current \in Nat /\ mem.policy \in RatePolicy /\ mem.changes \in Nat
         /\ mem.buckets \in Seq(RateBucket) /\ hist.grants \in Seq(Seq(Nat)) /\ hist.made \in Seq(Nat)
         /\ hist.stale \in BOOLEAN
         /\ \A c \in Callers : proc[c] \in RateProc /\ proc[c].bucket \in Nat /\ proc[c].wake \in Nat /\ proc[c].seen \in Nat
  BY DEF RateInv, RateTyped, RateMem, RateHist, RateProc

\* A bucket's turn refills it and leaves the others; it grants or it does not.
LEMMA RateTurnStep ==
  ASSUME RateInv, NEW i \in 1 .. Len(mem.buckets), NEW b \in RateBucket, b.at <= mem.now,
         mem' = [mem EXCEPT !.buckets[i] = b],
         NEW g \in Seq(Nat), RateBucketHolds(b, g),
         hist'.grants = [hist.grants EXCEPT ![i] = g]
  PROVE  /\ mem' \in RateMem /\ Len(mem'.buckets) = Len(mem.buckets)
         /\ mem'.current = mem.current /\ mem'.changes = mem.changes
         /\ hist'.grants \in Seq(Seq(Nat)) /\ Len(hist'.grants) = Len(hist.grants)
         /\ RateBucketsHold'
<1>1. mem'.buckets = [mem.buckets EXCEPT ![i] = b] /\ mem'.now = mem.now
      /\ mem'.current = mem.current /\ mem'.changes = mem.changes /\ mem'.policy = mem.policy
  BY DEF RateInv, RateTyped, RateMem
<1>2. mem'.buckets \in Seq(RateBucket) /\ Len(mem'.buckets) = Len(mem.buckets)
      /\ \A k \in 1 .. Len(mem.buckets) : mem'.buckets[k] = IF k = i THEN b ELSE mem.buckets[k]
  BY <1>1, RateFields
<1>3. Len(hist.grants) = Len(mem.buckets)
  BY DEF RateInv, RateShape
<1>4. hist'.grants \in Seq(Seq(Nat)) /\ Len(hist'.grants) = Len(hist.grants)
      /\ \A k \in 1 .. Len(mem.buckets) : hist'.grants[k] = IF k = i THEN g ELSE hist.grants[k]
  BY <1>3, RateFields
<1>5. mem' \in RateMem
  BY <1>1, <1>2 DEF RateInv, RateTyped, RateMem
<1>6. RateBucketsHold'
  BY <1>1, <1>2, <1>4 DEF RateInv, RateBucketsHold
<1> QED
  BY <1>1, <1>2, <1>4, <1>5, <1>6

LEMMA RateSleepsStep == ASSUME RateInv, NEW c \in Callers, Rate!Sleeps(c) PROVE RateInv'
<1> DEFINE i == proc[c].bucket
           b == Rate!Refill(mem.buckets[i])
<1>1. i \in 1 .. Len(mem.buckets)
  BY RateFields DEF Rate!Sleeps, RateInv, RateShape
<1>2. mem' = [mem EXCEPT !.buckets[i] = b] /\ proc' = [proc EXCEPT ![c].wake = mem.now + 1] /\ hist' = hist
  BY DEF Rate!Sleeps
<1>3. mem.buckets[i] \in RateBucket /\ hist.grants[i] \in Seq(Nat) /\ mem.buckets[i].at <= mem.now
      /\ RateBucketHolds(mem.buckets[i], hist.grants[i])
  BY <1>1, RateFields, SMTT(40) DEF RateInv, RateBucketsHold, RateShape
<1>4. b \in RateBucket /\ b.at = mem.now /\ RateBucketHolds(b, hist.grants[i])
  BY <1>3, RateRefillKeeps DEF RateInv
<1>5. hist'.grants = [hist.grants EXCEPT ![i] = hist.grants[i]]
  BY <1>2, RateFields, SMTT(40)
<1>6. \A d \in Callers : proc'[d].bucket = proc[d].bucket /\ proc'[d].seen = proc[d].seen
  BY <1>2, RateFields DEF RateInv, RateTyped, RateProc
<1>7. proc' \in [Callers -> RateProc]
  <2>1. mem.now + 1 \in Nat
    BY RateFields
  <2> QED
    BY <1>2, <2>1 DEF RateInv, RateTyped, RateProc
<1> HIDE DEF b, i
<1>8. b.at <= mem.now
  BY <1>4, RateFields
<1>9. mem' \in RateMem /\ Len(mem'.buckets) = Len(mem.buckets) /\ mem'.current = mem.current
      /\ mem'.changes = mem.changes /\ RateBucketsHold'
  BY <1>1, <1>2, <1>3, <1>4, <1>5, <1>8, RateTurnStep
<1> QED
  BY <1>2, <1>6, <1>7, <1>9 DEF RateInv, RateTyped, RateShape, RateIsFresh

\* What both payments do to the bucket at i.
LEMMA RatePaidStep ==
  ASSUME RateInv, NEW c \in Callers, Rate!Deduct(c), NEW i, i = proc[c].bucket,
         hist'.grants = [hist.grants EXCEPT ![i] = Append(@, mem.now)]
  PROVE  /\ mem' \in RateMem /\ Len(mem'.buckets) = Len(mem.buckets)
         /\ mem'.current = mem.current /\ mem'.changes = mem.changes
         /\ hist'.grants \in Seq(Seq(Nat)) /\ Len(hist'.grants) = Len(hist.grants)
         /\ RateBucketsHold'
<1> DEFINE r == Rate!Refill(mem.buckets[i])
           b == [r EXCEPT !.tokens = @ - 1]
           g == Append(hist.grants[i], mem.now)
<1>1. i \in 1 .. Len(mem.buckets)
  BY RateFields DEF Rate!Deduct, RateInv, RateShape
<1>2. mem' = [mem EXCEPT !.buckets[i] = b] /\ r.tokens >= 1
  BY DEF Rate!Deduct
<1>3. mem.buckets[i] \in RateBucket /\ hist.grants[i] \in Seq(Nat) /\ mem.buckets[i].at <= mem.now
      /\ RateBucketHolds(mem.buckets[i], hist.grants[i]) /\ i \in 1 .. Len(hist.grants)
  <2>1. i \in 1 .. Len(hist.grants)
    BY <1>1 DEF RateInv, RateShape
  <2>2. mem.buckets[i] \in RateBucket /\ hist.grants[i] \in Seq(Nat)
    BY <1>1, <2>1, RateFields, SMTT(40)
  <2> QED
    BY <1>1, <2>1, <2>2 DEF RateInv, RateBucketsHold
<1>4. r \in RateBucket /\ r.at = mem.now /\ RateBucketHolds(r, hist.grants[i])
  BY <1>3, RateRefillKeeps DEF RateInv
<1> HIDE DEF r
<1>5. b \in RateBucket /\ b.at = mem.now /\ RateBucketHolds(b, g)
  BY <1>2, <1>3, <1>4, RateGrantKeeps
<1>6. hist'.grants = [hist.grants EXCEPT ![i] = g] /\ g \in Seq(Nat)
  BY <1>3, RateFields
<1> HIDE DEF b, g
<1>7. b.at <= mem.now
  BY <1>5, RateFields
<1> QED
  BY <1>1, <1>2, <1>5, <1>6, <1>7, RateTurnStep

LEMMA RatePayGlobalStep == ASSUME RateInv, NEW c \in Callers, Rate!PayGlobal(c) PROVE RateInv'
<1>1. /\ Rate!Deduct(c) /\ 1 = proc[c].bucket
      /\ proc' = [proc EXCEPT ![c] = [@ EXCEPT !.bucket = 0, !.wake = mem.now + 1]]
      /\ hist' = [hist EXCEPT !.grants[1] = Append(@, mem.now)]
  BY DEF Rate!PayGlobal
<1>2. /\ hist'.grants = [hist.grants EXCEPT ![1] = Append(@, mem.now)]
      /\ hist'.made = hist.made /\ hist'.stale = hist.stale
      /\ hist' = [hist EXCEPT !.grants = hist'.grants]
  BY <1>1 DEF RateInv, RateTyped, RateHist
<1>3. /\ mem' \in RateMem /\ Len(mem'.buckets) = Len(mem.buckets)
      /\ mem'.current = mem.current /\ mem'.changes = mem.changes
      /\ hist'.grants \in Seq(Seq(Nat)) /\ Len(hist'.grants) = Len(hist.grants)
      /\ RateBucketsHold'
  BY <1>1, <1>2, RatePaidStep
<1>4. PICK w \in Nat : w = mem.now + 1
  BY RateFields
<1>5. proc' \in [Callers -> RateProc]
      /\ \A d \in Callers : proc'[d].seen = proc[d].seen /\ proc'[d].bucket = IF d = c THEN 0 ELSE proc[d].bucket
  <2>1. proc' = [proc EXCEPT ![c] = [proc[c] EXCEPT !.bucket = 0, !.wake = w]]
    BY <1>1, <1>4
  <2>2. proc[c] \in [bucket : Nat, wake : Nat, seen : Nat]
    BY RateFields DEF RateProc
  <2>3. PICK r : r = [proc[c] EXCEPT !.bucket = 0, !.wake = w]
    OBVIOUS
  <2>4. r \in RateProc /\ r.bucket = 0 /\ r.seen = proc[c].seen
    BY <2>2, <2>3 DEF RateProc
  <2> QED
    BY <2>1, <2>3, <2>4 DEF RateInv, RateTyped
<1>6. hist' \in RateHist
  BY <1>2, <1>3 DEF RateInv, RateTyped, RateHist
<1>7. RateShape'
  <2>1. \A d \in Callers : proc'[d].bucket <= Len(mem.buckets)
    <3>1. Len(mem.buckets) \in Nat
      BY RateFields
    <3> QED
      BY <1>5, <3>1 DEF RateInv, RateShape
  <2> QED
    BY <1>2, <1>3, <2>1 DEF RateInv, RateShape
<1>8. RateIsFresh'
  <2>1. ASSUME NEW d \in Callers, proc'[d].bucket > 1 PROVE hist'.made[proc'[d].bucket] >= proc'[d].seen
    <3>1. d # c
      BY <1>5, <2>1
    <3> QED
      BY <1>2, <1>5, <2>1, <3>1 DEF RateInv, RateIsFresh
  <2> QED
    BY <1>2, <1>3, <1>5, <2>1 DEF RateInv, RateIsFresh
<1> QED
  BY <1>3, <1>5, <1>6, <1>7, <1>8 DEF RateInv, RateTyped

LEMMA RatePayKeyStep == ASSUME RateInv, NEW c \in Callers, Rate!PayKey(c) PROVE RateInv'
<1> DEFINE i == proc[c].bucket
<1>1. /\ Rate!Deduct(c) /\ i > 1 /\ proc' = [proc EXCEPT ![c] = Rate!Idle]
      /\ hist' = [hist EXCEPT !.grants[i] = Append(@, mem.now), !.stale = @ \/ hist.made[i] < proc[c].seen]
  BY DEF Rate!PayKey
<1>2. /\ hist'.grants = [hist.grants EXCEPT ![i] = Append(@, mem.now)]
      /\ hist'.made = hist.made /\ hist'.stale = (hist.stale \/ hist.made[i] < proc[c].seen)
      /\ hist' = [hist EXCEPT !.grants = hist'.grants, !.stale = hist'.stale]
  BY <1>1 DEF RateInv, RateTyped, RateHist
<1>3. /\ mem' \in RateMem /\ Len(mem'.buckets) = Len(mem.buckets)
      /\ mem'.current = mem.current /\ mem'.changes = mem.changes
      /\ hist'.grants \in Seq(Seq(Nat)) /\ Len(hist'.grants) = Len(hist.grants)
      /\ RateBucketsHold'
  BY <1>1, <1>2, RatePaidStep
<1>4. hist'.stale = FALSE
  <2>1. i \in 1 .. Len(hist.made) /\ proc[c].seen \in Nat
    <3>1. i \in Nat /\ i <= Len(mem.buckets) /\ Len(hist.made) = Len(mem.buckets)
      BY RateFields DEF RateInv, RateShape
    <3> QED
      BY <1>1, <3>1, RateFields
  <2>2. hist.made[i] \in Nat
    BY <2>1, RateFields, SMTT(40)
  <2>3. hist.made[i] >= proc[c].seen /\ ~hist.stale
    BY <1>1 DEF RateInv, RateIsFresh
  <2>4. ~(hist.made[i] < proc[c].seen)
    BY <2>1, <2>2, <2>3
  <2> QED
    BY <1>2, <2>3, <2>4
<1>5. proc' \in [Callers -> RateProc]
      /\ \A d \in Callers : proc'[d] = IF d = c THEN Rate!Idle ELSE proc[d]
  BY <1>1, RateFields DEF RateInv, RateTyped, RateProc, Rate!Idle
<1>6. hist' \in RateHist
  BY <1>2, <1>3, <1>4 DEF RateInv, RateTyped, RateHist
<1>7. Len(mem.buckets) \in Nat /\ mem.changes \in Nat /\ Rate!Idle.bucket = 0 /\ Rate!Idle.seen = 0
  BY RateFields DEF Rate!Idle
<1>8. RateShape'
  <2>1. \A d \in Callers : proc'[d].bucket <= Len(mem.buckets)
    BY <1>5, <1>7 DEF RateInv, RateShape
  <2> QED
    BY <1>2, <1>3, <2>1 DEF RateInv, RateShape
<1>9. RateIsFresh'
  BY <1>2, <1>3, <1>4, <1>5, <1>7, SMTT(40) DEF RateInv, RateIsFresh
<1> QED
  BY <1>3, <1>5, <1>6, <1>8, <1>9 DEF RateInv, RateTyped

LEMMA RateFindStep == ASSUME RateInv, NEW c \in Callers, Rate!FindBucket(c) PROVE RateInv'
<1>1. CASE mem.current # 0 /\ UNCHANGED <<mem, hist>>
           /\ proc' = [proc EXCEPT ![c].bucket = mem.current, ![c].wake = mem.now]
  <2>1. proc' \in [Callers -> RateProc]
        /\ \A d \in Callers : proc'[d].seen = proc[d].seen
                              /\ proc'[d].bucket = IF d = c THEN mem.current ELSE proc[d].bucket
    BY <1>1, RateFields DEF RateInv, RateTyped, RateProc
  <2>2. RateTyped' /\ RateBucketsHold'
    BY <1>1, <2>1 DEF RateInv, RateTyped, RateBucketsHold
  <2>3. RateShape'
    BY <1>1, <2>1 DEF RateInv, RateShape
  <2>4. RateIsFresh'
    BY <1>1, <2>1, RateFields, SMTT(40) DEF RateInv, RateIsFresh
  <2> QED
    BY <2>2, <2>3, <2>4 DEF RateInv
<1>2. CASE /\ mem.current = 0
           /\ mem' = [mem EXCEPT !.current = Len(mem.buckets) + 1,
                !.buckets = Append(@, [policy |-> mem.policy, tokens |-> mem.policy.burst, at |-> mem.now])]
           /\ proc' = [proc EXCEPT ![c].bucket = Len(mem.buckets) + 1, ![c].wake = mem.now]
           /\ hist' = [hist EXCEPT !.grants = Append(@, <<>>), !.made = Append(@, mem.changes)]
  <2> DEFINE b == [policy |-> mem.policy, tokens |-> mem.policy.burst, at |-> mem.now]
             n == Len(mem.buckets) + 1
  <2>1. b \in RateBucket /\ n \in Nat /\ b.at = mem.now
    BY RateFields DEF RateBucket, RatePolicy
  <2>2. RateBucketHolds(b, <<>>)
    BY RateFields DEF RateBucketHolds, RateCovered, RateWithin, RatePolicy
  <2>3. mem' = [mem EXCEPT !.current = n, !.buckets = Append(mem.buckets, b)]
    BY <1>2
  <2>4. Len(mem.buckets) \in Nat /\ Len(hist.grants) = Len(mem.buckets) /\ Len(hist.made) = Len(mem.buckets)
    BY RateFields DEF RateInv, RateShape
  <2> HIDE DEF b
  <2>5. Append(mem.buckets, b) \in Seq(RateBucket) /\ Len(Append(mem.buckets, b)) = n
    BY <2>1, RateFields
  <2>6. /\ mem'.buckets = Append(mem.buckets, b) /\ mem'.current = n /\ mem'.now = mem.now
        /\ mem'.changes = mem.changes /\ mem'.policy = mem.policy
    BY <2>3 DEF RateInv, RateTyped, RateMem
  <2>7. \A k \in 1 .. n : mem'.buckets[k] = IF k = n THEN b ELSE mem.buckets[k]
    BY <2>1, <2>6, RateFields
  <2>8. mem' \in RateMem
    BY <2>1, <2>3, <2>5 DEF RateInv, RateTyped, RateMem
  <2>9. /\ hist'.grants = Append(hist.grants, <<>>) /\ hist'.made = Append(hist.made, mem.changes)
        /\ hist'.stale = hist.stale
    BY <1>2 DEF RateInv, RateTyped, RateHist
  <2>10. <<>> \in Seq(Nat) /\ Append(hist.grants, <<>>) \in Seq(Seq(Nat)) /\ Append(hist.made, mem.changes) \in Seq(Nat)
    BY RateFields
  <2>11. hist' \in RateHist
    BY <1>2, <2>9, <2>10 DEF RateInv, RateTyped, RateHist
  <2>12. \A k \in 1 .. n : hist'.grants[k] = IF k = n THEN <<>> ELSE hist.grants[k]
    BY <2>4, <2>9, RateFields
  <2>13. \A k \in 1 .. n : hist'.made[k] = IF k = n THEN mem.changes ELSE hist.made[k]
    BY <2>4, <2>9, RateFields
  <2>14. Len(hist'.grants) = n /\ Len(hist'.made) = n
    BY <2>4, <2>9, RateFields, SMTT(40)
  <2>15. proc' \in [Callers -> RateProc]
         /\ \A d \in Callers : proc'[d].seen = proc[d].seen
                               /\ proc'[d].bucket = IF d = c THEN n ELSE proc[d].bucket
    BY <1>2, <2>1, RateFields DEF RateInv, RateTyped, RateProc
  <2>16. RateShape'
    <3>1. \A d \in Callers : proc[d].bucket <= Len(mem.buckets) /\ proc[d].bucket \in Nat
      BY RateFields DEF RateInv, RateShape
    <3>2. \A d \in Callers : proc'[d].bucket <= n
      BY <2>4, <2>15, <3>1
    <3> QED
      BY <2>1, <2>4, <2>5, <2>6, <2>14, <3>2 DEF RateShape
  <2>17. RateBucketsHold'
    <3>1. mem.now \in Nat
      BY RateFields
    <3> QED
      BY <2>1, <2>2, <2>4, <2>5, <2>6, <2>7, <2>12, <3>1 DEF RateInv, RateBucketsHold
  <2>18. RateIsFresh'
    <3>1. \A d \in Callers : proc[d].bucket \in 0 .. (n - 1) /\ proc[d].seen \in Nat
      BY <2>4, RateFields DEF RateInv, RateShape
    <3>2. mem.changes \in Nat
      BY RateFields
    <3> QED
      BY <2>1, <2>4, <2>6, <2>9, <2>13, <2>15, <3>1, <3>2, SMTT(40) DEF RateInv, RateIsFresh
  <2> QED
    BY <2>8, <2>11, <2>15, <2>16, <2>17, <2>18 DEF RateInv, RateTyped
<1> QED
  BY <1>1, <1>2 DEF Rate!FindBucket

LEMMA RateAcquireStep == ASSUME RateInv, NEW c \in Callers, Rate!Acquire(c) \/ Rate!Cancelled(c) PROVE RateInv'
<1>1. PICK r \in RateProc : /\ proc' = [proc EXCEPT ![c] = r] /\ r.bucket \in {0, 1} /\ r.seen <= mem.changes
                            /\ UNCHANGED <<mem, hist>>
  <2>1. CASE Rate!Acquire(c)
    <3> DEFINE r == [bucket |-> 1, wake |-> mem.now, seen |-> mem.changes]
    <3>1. r \in RateProc /\ r.bucket \in {0, 1} /\ r.seen <= mem.changes
      BY RateFields DEF RateProc
    <3> QED
      BY <2>1, <3>1 DEF Rate!Acquire
  <2>2. CASE Rate!Cancelled(c)
    <3>1. Rate!Idle \in RateProc /\ Rate!Idle.bucket \in {0, 1} /\ Rate!Idle.seen <= mem.changes
      BY RateFields DEF RateProc, Rate!Idle
    <3> QED
      BY <2>2, <3>1 DEF Rate!Cancelled
  <2> QED
    BY <2>1, <2>2
<1>2. proc' \in [Callers -> RateProc] /\ \A d \in Callers : proc'[d] = IF d = c THEN r ELSE proc[d]
  BY <1>1 DEF RateInv, RateTyped
<1>3. RateTyped' /\ RateBucketsHold'
  BY <1>1, <1>2 DEF RateInv, RateTyped, RateBucketsHold
<1>4. RateShape'
  <2>1. Len(mem.buckets) \in Nat
    BY RateFields
  <2> QED
    BY <1>1, <1>2, <2>1 DEF RateInv, RateShape
<1>5. RateIsFresh'
  BY <1>1, <1>2 DEF RateInv, RateIsFresh
<1> QED
  BY <1>3, <1>4, <1>5 DEF RateInv

LEMMA RateSetPolicyStep == ASSUME RateInv, NEW p \in Policies, Rate!SetPolicy(p) PROVE RateInv'
<1>1. /\ mem' = [mem EXCEPT !.policy = p, !.current = 0, !.changes = mem.changes + 1] /\ UNCHANGED <<proc, hist>>
      /\ p \in RatePolicy
  BY RateAssumption DEF Rate!SetPolicy, RatePolicy
<1>2. mem.changes + 1 \in Nat /\ Len(mem.buckets) \in Nat
  BY RateFields
<1>3. mem' \in RateMem
  BY <1>1, <1>2 DEF RateInv, RateTyped, RateMem
<1>4. mem'.current = 0 /\ mem'.buckets = mem.buckets /\ mem'.now = mem.now /\ mem'.changes = mem.changes + 1
  BY <1>1 DEF RateInv, RateTyped, RateMem
<1>5. RateShape' /\ RateBucketsHold'
  BY <1>1, <1>2, <1>4 DEF RateInv, RateShape, RateBucketsHold
<1>6. RateIsFresh'
  BY <1>1, <1>2, <1>4, RateFields DEF RateInv, RateIsFresh
<1> QED
  BY <1>1, <1>3, <1>5, <1>6 DEF RateInv, RateTyped

LEMMA RateTickStep == ASSUME RateInv, Rate!Tick PROVE RateInv'
<1>1. mem' = [mem EXCEPT !.now = mem.now + 1] /\ UNCHANGED <<proc, hist>>
  BY DEF Rate!Tick
<1>2. mem.now + 1 \in Nat /\ \A i \in 1 .. Len(mem.buckets) : mem.buckets[i].at \in Nat
  <2>1. \A i \in 1 .. Len(mem.buckets) : mem.buckets[i] \in RateBucket
    BY RateFields
  <2> QED
    BY <2>1, RateFields, SMTT(40) DEF RateBucket
<1>3. mem' \in RateMem
  BY <1>1, <1>2 DEF RateInv, RateTyped, RateMem
<1>4. mem'.current = mem.current /\ mem'.buckets = mem.buckets /\ mem'.now = mem.now + 1 /\ mem'.changes = mem.changes
  BY <1>1 DEF RateInv, RateTyped, RateMem
<1>5. RateBucketsHold'
  BY <1>1, <1>2, <1>4, RateFields, SMTT(40) DEF RateInv, RateBucketsHold
<1>6. RateShape' /\ RateIsFresh'
  BY <1>1, <1>4 DEF RateInv, RateShape, RateIsFresh
<1> QED
  BY <1>1, <1>3, <1>5, <1>6 DEF RateInv, RateTyped

LEMMA RateStep == ASSUME RateInv, [Rate!Next]_(Rate!vars) PROVE RateInv'
<1>1. CASE UNCHANGED Rate!vars
  BY <1>1 DEF Rate!vars, RateInv, RateTyped, RateShape, RateBucketsHold, RateIsFresh
<1> QED
  BY <1>1, RateAcquireStep, RateSleepsStep, RatePayGlobalStep, RateFindStep, RatePayKeyStep, RateSetPolicyStep, RateTickStep DEF Rate!Next

LEMMA RateInvHolds == ASSUME RateInv PROVE Rate!RateConforms /\ Rate!NewPolicyHolds
<1>1. DOMAIN hist.grants = 1 .. Len(mem.buckets) /\ \A i \in DOMAIN hist.grants : DOMAIN hist.grants[i] = 1 .. Len(hist.grants[i])
  BY RateFields DEF RateInv, RateShape
<1> QED
  BY <1>1 DEF RateInv, RateBucketsHold, RateBucketHolds, RateWithin, Rate!RateConforms, RateIsFresh, Rate!NewPolicyHolds

LEMMA RatePart == SuiteSpec => [](part = "rate" => RateInv)
<1>1. SuiteInit => (part = "rate" => RateInv)
  BY RateInit DEF SuiteInit
<1>2. (part = "rate" => RateInv) /\ [SuiteNext]_suiteVars => (part = "rate" => RateInv)'
  <2> SUFFICES ASSUME part = "rate", RateInv, [SuiteNext]_suiteVars PROVE RateInv'
    BY DEF SuiteNext, suiteVars
  <2>1. [Rate!Next]_(Rate!vars)
    BY DEF SuiteNext, suiteVars, state, Rate!vars
  <2> QED
    BY <2>1, RateStep
<1> QED
  BY <1>1, <1>2, PTL DEF SuiteSpec

\* app/engine/rate_governor.py: no bucket ever grants more in a window than its
\* burst and the refill of that window, and a policy holds for what begins after
\* it was set; for any number of callers, any policies and any times.
THEOREM RatesConform == SuiteSpec => []RateConforms
<1>1. (part = "rate" => RateInv) => RateConforms
  BY RateInvHolds DEF RateConforms
<1> QED
  BY <1>1, RatePart, PTL

-----------------------------------------------------------------------------
(* EventBus *)

\* A queue without room is no queue: the code's is 512 long.

BusAllTopics == Topics \cup {HeartbeatTopic}
BusMem == [stream : [Subscribers -> {"none", "open", "left"}], listed : SUBSET Subscribers,
           queue : [Subscribers -> Seq(Nat)], closed : BOOLEAN, heartbeat : BOOLEAN]
BusHist == [log : Seq(BusAllTopics), since : [Subscribers -> Nat], read : [Subscribers -> Seq(Nat)]]

BusTyped == mem \in BusMem /\ hist \in BusHist

\* Whom the bus knows, and that nothing waits before a stream has begun.
BusShape ==
  \A s \in Subscribers :
    /\ mem.stream[s] = "none" => mem.queue[s] = <<>> /\ hist.read[s] = <<>>
    /\ mem.stream[s] = "open" /\ ~mem.closed => s \in mem.listed
    /\ s \in mem.listed => mem.stream[s] = "open"
    /\ hist.since[s] <= Len(hist.log)

BusInv == BusTyped /\ BusShape /\ Bus!NewestWait

LEMMA BusFields ==
  ASSUME BusTyped
  PROVE  /\ mem.stream \in [Subscribers -> {"none", "open", "left"}] /\ mem.listed \in SUBSET Subscribers
         /\ mem.queue \in [Subscribers -> Seq(Nat)] /\ mem.closed \in BOOLEAN /\ mem.heartbeat \in BOOLEAN
         /\ hist.log \in Seq(BusAllTopics) /\ hist.since \in [Subscribers -> Nat]
         /\ hist.read \in [Subscribers -> Seq(Nat)] /\ Len(hist.log) \in Nat
  BY DEF BusTyped, BusMem, BusHist

LEMMA BusRangeFact ==
  ASSUME NEW q \in Seq(Nat)
  PROVE  /\ Bus!Range(q) \subseteq Nat /\ \A i \in 1 .. Len(q) : q[i] \in Bus!Range(q)
         /\ \A d \in Bus!Range(q) : \E i \in 1 .. Len(q) : d = q[i]
<1>1. DOMAIN q = 1 .. Len(q) /\ \A i \in 1 .. Len(q) : q[i] \in Nat
  OBVIOUS
<1> QED
  BY <1>1 DEF Bus!Range

LEMMA BusAppendFact ==
  ASSUME NEW q \in Seq(Nat), NEW e \in Nat
  PROVE  /\ Append(q, e) \in Seq(Nat) /\ Bus!Range(Append(q, e)) = Bus!Range(q) \cup {e}
         /\ Bus!Ascending(q) /\ (\A d \in Bus!Range(q) : d < e) => Bus!Ascending(Append(q, e))
<1>1. PICK p \in Seq(Nat) : p = Append(q, e)
  <2>1. Append(q, e) \in Seq(Nat)
    OBVIOUS
  <2> QED
    BY <2>1
<1>2. Len(q) \in Nat /\ Len(p) = Len(q) + 1 /\ p[Len(q) + 1] = e /\ \A i \in 1 .. Len(q) : p[i] = q[i]
  BY <1>1
<1>3. ASSUME NEW i \in 1 .. Len(p) PROVE i \in 1 .. Len(q) \/ i = Len(q) + 1
  BY <1>2, <1>3
<1>4. Bus!Range(p) \subseteq Bus!Range(q) \cup {e}
  <2> SUFFICES ASSUME NEW d \in Bus!Range(p) PROVE d \in Bus!Range(q) \cup {e}
    OBVIOUS
  <2>1. PICK i \in 1 .. Len(p) : d = p[i]
    BY BusRangeFact
  <2> QED
    BY <1>2, <1>3, <2>1, BusRangeFact
<1>5. Bus!Range(q) \cup {e} \subseteq Bus!Range(p)
  <2> SUFFICES ASSUME NEW d \in Bus!Range(q) \cup {e} PROVE d \in Bus!Range(p)
    OBVIOUS
  <2>1. CASE d = e
    <3>1. Len(q) + 1 \in 1 .. Len(p)
      BY <1>2
    <3> QED
      BY <1>2, <2>1, <3>1, BusRangeFact
  <2>2. CASE d \in Bus!Range(q)
    <3>1. PICK i \in 1 .. Len(q) : d = q[i]
      BY <2>2, BusRangeFact
    <3>2. i \in 1 .. Len(p)
      BY <1>2
    <3> QED
      BY <1>2, <3>1, <3>2, BusRangeFact
  <2> QED
    BY <2>1, <2>2
<1>6. ASSUME Bus!Ascending(q), \A d \in Bus!Range(q) : d < e PROVE Bus!Ascending(p)
  <2> SUFFICES ASSUME NEW i \in 1 .. Len(p), NEW j \in 1 .. Len(p), i < j PROVE p[i] < p[j]
    BY DEF Bus!Ascending
  <2>1. i \in 1 .. Len(q) /\ p[i] = q[i] /\ q[i] \in Bus!Range(q)
    <3>1. i \in 1 .. Len(q)
      BY <1>2
    <3> QED
      BY <1>2, <3>1, BusRangeFact
  <2>2. CASE j \in 1 .. Len(q)
    BY <1>2, <1>6, <2>1, <2>2 DEF Bus!Ascending
  <2>3. CASE j = Len(q) + 1
    BY <1>2, <1>6, <2>1, <2>3
  <2> QED
    BY <1>3, <2>2, <2>3
<1> QED
  BY <1>1, <1>4, <1>5, <1>6

LEMMA BusTailFact ==
  ASSUME NEW q \in Seq(Nat), q # <<>>, Bus!Ascending(q)
  PROVE  /\ Head(q) \in Nat /\ Tail(q) \in Seq(Nat) /\ Bus!Range(q) = Bus!Range(Tail(q)) \cup {Head(q)}
         /\ Bus!Ascending(Tail(q)) /\ \A d \in Bus!Range(Tail(q)) : Head(q) < d
<1>1. PICK t \in Seq(Nat) : t = Tail(q)
  <2>1. Tail(q) \in Seq(Nat)
    OBVIOUS
  <2> QED
    BY <2>1
<1>2. PICK h \in Nat : h = Head(q)
  <2>1. Head(q) \in Nat
    OBVIOUS
  <2> QED
    BY <2>1
<1>3. Len(q) \in Nat /\ 1 \in 1 .. Len(q) /\ h = q[1] /\ Len(t) = Len(q) - 1
  BY <1>1, <1>2
<1>4. ASSUME NEW i \in 1 .. Len(t) PROVE t[i] = q[i + 1] /\ i + 1 \in 1 .. Len(q) /\ 1 < i + 1
  BY <1>1, <1>3
<1>5. ASSUME NEW i \in 1 .. Len(q), i # 1 PROVE i - 1 \in 1 .. Len(t) /\ q[i] = t[i - 1]
  <2>1. i - 1 \in 1 .. Len(t) /\ (i - 1) + 1 = i
    BY <1>3, <1>5
  <2> QED
    BY <1>4, <2>1
<1>6. Bus!Ascending(t)
  <2> SUFFICES ASSUME NEW i \in 1 .. Len(t), NEW j \in 1 .. Len(t), i < j PROVE t[i] < t[j]
    BY DEF Bus!Ascending
  <2>1. i + 1 < j + 1
    OBVIOUS
  <2> QED
    BY <1>4, <2>1 DEF Bus!Ascending
<1>7. \A d \in Bus!Range(t) : h < d
  <2> SUFFICES ASSUME NEW d \in Bus!Range(t) PROVE h < d
    OBVIOUS
  <2>1. PICK i \in 1 .. Len(t) : d = t[i]
    BY BusRangeFact
  <2> QED
    BY <1>3, <1>4, <2>1 DEF Bus!Ascending
<1>8. Bus!Range(q) \subseteq Bus!Range(t) \cup {h}
  <2> SUFFICES ASSUME NEW d \in Bus!Range(q) PROVE d \in Bus!Range(t) \cup {h}
    OBVIOUS
  <2>1. PICK i \in 1 .. Len(q) : d = q[i]
    BY BusRangeFact
  <2> QED
    BY <1>3, <1>5, <2>1, BusRangeFact
<1>9. Bus!Range(t) \cup {h} \subseteq Bus!Range(q)
  <2> SUFFICES ASSUME NEW d \in Bus!Range(t) \cup {h} PROVE d \in Bus!Range(q)
    OBVIOUS
  <2>1. CASE d = h
    BY <1>3, <2>1, BusRangeFact
  <2>2. CASE d \in Bus!Range(t)
    <3>1. PICK i \in 1 .. Len(t) : d = t[i]
      BY <2>2, BusRangeFact
    <3> QED
      BY <1>4, <3>1, BusRangeFact
  <2> QED
    BY <2>1, <2>2
<1> QED
  BY <1>1, <1>2, <1>6, <1>7, <1>8, <1>9

\* The newest event goes in, and if need be the oldest that waits goes out.
LEMMA BusPutKeeps ==
  ASSUME NEW r \in Seq(Nat), NEW q \in Seq(Nat), NEW due \in SUBSET Nat, NEW e \in Nat,
         \A d \in due : d < e, Bus!AreNewest(r, q, due)
  PROVE  Bus!Put(q, e) \in Seq(Nat) /\ Bus!AreNewest(r, Bus!Put(q, e), due \cup {e})
<1>1. PICK t \in Seq(Nat) : /\ Bus!Put(q, e) = Append(t, e) /\ Bus!Ascending(t) /\ Bus!Range(t) \subseteq Bus!Range(q)
                            /\ \A d \in Bus!Range(q) \ Bus!Range(t), f \in Bus!Range(t) : d < f
  <2>1. Bus!Ascending(q)
    BY DEF Bus!AreNewest
  <2>2. CASE Len(q) < QueueSize
    BY <2>1, <2>2 DEF Bus!Put
  <2>3. CASE ~(Len(q) < QueueSize)
    <3>1. q # <<>>
      BY <2>3, QueueAssumption
    <3>2. Bus!Put(q, e) = Append(Tail(q), e)
      BY <2>3 DEF Bus!Put
    <3>3. /\ Tail(q) \in Seq(Nat) /\ Bus!Range(q) = Bus!Range(Tail(q)) \cup {Head(q)} /\ Head(q) \in Nat
          /\ Bus!Ascending(Tail(q)) /\ \A d \in Bus!Range(Tail(q)) : Head(q) < d
      BY <2>1, <3>1, BusTailFact
    <3>4. PICK t \in Seq(Nat) : t = Tail(q)
      BY <3>3
    <3> QED
      BY <3>2, <3>3, <3>4
  <2> QED
    BY <2>2, <2>3
<1>2. Bus!Range(r) \cup Bus!Range(q) \subseteq due /\ Bus!Range(t) \subseteq due
  BY <1>1 DEF Bus!AreNewest
<1>3. PICK p \in Seq(Nat) : p = Bus!Put(q, e) /\ Bus!Range(p) = Bus!Range(t) \cup {e} /\ Bus!Ascending(p)
  BY <1>1, <1>2, BusAppendFact
<1>4. \A d \in Bus!Range(r), f \in Bus!Range(p) : d < f
  BY <1>1, <1>2, <1>3 DEF Bus!AreNewest
<1>5. \A d \in (due \cup {e}) \ Bus!Range(p), f \in Bus!Range(p) : d < f
  <2> SUFFICES ASSUME NEW d \in due, d \notin Bus!Range(t), NEW f \in Bus!Range(t) \cup {e} PROVE d < f
    BY <1>3
  <2> QED
    BY <1>1 DEF Bus!AreNewest
<1>6. \A d \in due \cup {e} : \E f \in Bus!Range(r) \cup Bus!Range(p) : d <= f
  <2>1. e \in Bus!Range(p) /\ \A d \in due \cup {e} : d <= e
    BY <1>3
  <2> QED
    BY <2>1
<1>7. Bus!Range(r) \cup Bus!Range(p) \subseteq due \cup {e}
  BY <1>2, <1>3
<1> QED
  BY <1>3, <1>4, <1>5, <1>6, <1>7 DEF Bus!AreNewest

\* What is read is the oldest that waits.
LEMMA BusTakeKeeps ==
  ASSUME NEW r \in Seq(Nat), NEW q \in Seq(Nat), q # <<>>, NEW due \in SUBSET Nat, Bus!AreNewest(r, q, due)
  PROVE  Bus!AreNewest(Append(r, Head(q)), Tail(q), due)
<1>1. Bus!Ascending(q) /\ Bus!Ascending(r) /\ \A d \in Bus!Range(r), e \in Bus!Range(q) : d < e
  BY DEF Bus!AreNewest
<1>2. PICK t \in Seq(Nat), h \in Nat :
        /\ t = Tail(q) /\ h = Head(q) /\ Bus!Range(q) = Bus!Range(t) \cup {h}
        /\ Bus!Ascending(t) /\ \A d \in Bus!Range(t) : h < d
  BY <1>1, BusTailFact
<1>3. PICK p \in Seq(Nat) : p = Append(r, h) /\ Bus!Range(p) = Bus!Range(r) \cup {h} /\ Bus!Ascending(p)
  BY <1>1, <1>2, BusAppendFact
<1>4. \A d \in Bus!Range(p), f \in Bus!Range(t) : d < f
  BY <1>1, <1>2, <1>3
<1>5. \A d \in due \ Bus!Range(t), f \in Bus!Range(t) : d < f
  BY <1>2 DEF Bus!AreNewest
<1>6. Bus!Range(p) \cup Bus!Range(t) = Bus!Range(r) \cup Bus!Range(q)
  BY <1>2, <1>3
<1>7. Bus!AreNewest(p, t, due)
  BY <1>2, <1>3, <1>4, <1>5, <1>6 DEF Bus!AreNewest
<1> QED
  BY <1>2, <1>3, <1>7

-----------------------------------------------------------------------------

LEMMA BusInit == Bus!Init => BusInv
<1> SUFFICES ASSUME Bus!Init PROVE BusInv
  OBVIOUS
<1>1. <<>> \in Seq(Nat) /\ <<>> \in Seq(BusAllTopics)
  OBVIOUS
<1>2. BusTyped
  BY <1>1 DEF Bus!Init, BusTyped, BusMem, BusHist
<1>3. BusShape /\ Bus!NewestWait
  BY DEF Bus!Init, BusShape, Bus!NewestWait
<1> QED
  BY <1>2, <1>3 DEF BusInv

\* Streams whose queue, readings, start and log stay keep their promise.
LEMMA BusDeliverStep ==
  ASSUME BusInv, ~mem.closed, NEW topic \in BusAllTopics, Bus!Deliver(topic)
  PROVE  BusInv'
<1> DEFINE e == Len(hist.log) + 1
           q == [s \in Subscribers |->
                  IF s \in mem.listed /\ Matches(topic, s) THEN Bus!Put(mem.queue[s], e) ELSE mem.queue[s]]
<1>1. mem' = [mem EXCEPT !.queue = q] /\ hist' = [hist EXCEPT !.log = Append(@, topic)]
  BY DEF Bus!Deliver
<1>2. BusTyped /\ e \in Nat
  BY BusFields DEF BusInv
<1>3. /\ mem'.stream = mem.stream /\ mem'.listed = mem.listed /\ mem'.queue = q /\ mem'.closed = mem.closed
      /\ hist'.log = Append(hist.log, topic) /\ hist'.since = hist.since /\ hist'.read = hist.read
  BY <1>1, <1>2 DEF BusTyped, BusMem, BusHist
<1>4. /\ hist'.log \in Seq(BusAllTopics) /\ Len(hist'.log) = e /\ hist'.log[e] = topic
      /\ \A i \in 1 .. Len(hist.log) : hist'.log[i] = hist.log[i]
  BY <1>2, <1>3, BusFields
<1>5. ASSUME NEW s \in Subscribers
      PROVE  /\ Bus!Due(s) \in SUBSET Nat /\ \A d \in Bus!Due(s) : d < e
             /\ Bus!Due(s)' = IF Matches(topic, s) THEN Bus!Due(s) \cup {e} ELSE Bus!Due(s)
  <2>1. hist.since[s] \in Nat /\ hist.since[s] < e /\ Len(hist.log) \in Nat
    BY <1>2, BusFields DEF BusInv, BusShape
  <2>2. Bus!Due(s)' = {i \in 1 .. e : i > hist.since[s] /\ Matches(hist'.log[i], s)}
    BY <1>3, <1>4 DEF Bus!Due
  <2>3. \A i \in 1 .. e : i \in 1 .. Len(hist.log) \/ i = e
    BY <2>1
  <2>4. \A i \in 1 .. Len(hist.log) : i \in 1 .. e /\ i < e
    BY <2>1
  <2>5. e \in 1 .. e
    BY <2>1
  <2> HIDE DEF e
  <2> QED
    BY <1>4, <2>1, <2>2, <2>3, <2>4, <2>5 DEF Bus!Due
<1>6. ASSUME NEW s \in Subscribers
      PROVE  /\ q[s] \in Seq(Nat)
             /\ mem.stream[s] = "open" => Bus!AreNewest(hist.read[s], q[s], Bus!Due(s)')
             /\ mem.stream[s] = "none" => q[s] = <<>>
  <2>1. mem.queue[s] \in Seq(Nat) /\ hist.read[s] \in Seq(Nat)
    BY <1>2, BusFields
  <2>2. mem.stream[s] = "open" => s \in mem.listed /\ Bus!AreNewest(hist.read[s], mem.queue[s], Bus!Due(s))
    BY DEF BusInv, BusShape, Bus!NewestWait
  <2>3. s \in mem.listed => mem.stream[s] = "open"
    BY DEF BusInv, BusShape
  <2>4. mem.stream[s] = "none" => mem.queue[s] = <<>>
    BY DEF BusInv, BusShape
  <2>5. CASE s \in mem.listed /\ Matches(topic, s)
    <3>1. q[s] = Bus!Put(mem.queue[s], e)
      BY <2>5
    <3> HIDE DEF e, q
    <3>2. Bus!Put(mem.queue[s], e) \in Seq(Nat) /\ Bus!AreNewest(hist.read[s], Bus!Put(mem.queue[s], e), Bus!Due(s) \cup {e})
      BY <1>2, <1>5, <2>1, <2>2, <2>3, <2>5, BusPutKeeps
    <3> QED
      BY <1>5, <2>3, <2>5, <3>1, <3>2
  <2>6. CASE ~(s \in mem.listed /\ Matches(topic, s))
    <3>1. q[s] = mem.queue[s]
      BY <2>6
    <3> HIDE DEF e, q
    <3> QED
      BY <1>5, <2>1, <2>2, <2>4, <2>6, <3>1
  <2> QED
    BY <2>5, <2>6
<1>7. q \in [Subscribers -> Seq(Nat)]
  BY <1>6
<1> HIDE DEF q
<1>8. mem' \in BusMem
  BY <1>1, <1>2, <1>7 DEF BusTyped, BusMem
<1>9. hist' \in BusHist
  BY <1>1, <1>2, <1>3, <1>4 DEF BusTyped, BusHist
<1>10. BusShape'
  <2>1. \A s \in Subscribers : hist.since[s] <= e
    <3>1. \A s \in Subscribers : hist.since[s] \in Nat /\ hist.since[s] <= Len(hist.log) /\ Len(hist.log) \in Nat
      BY <1>2, BusFields DEF BusInv, BusShape
    <3> QED
      BY <3>1
  <2> HIDE DEF e
  <2> QED
    BY <1>3, <1>4, <1>6, <2>1 DEF BusInv, BusShape
<1>11. Bus!NewestWait'
  BY <1>3, <1>6 DEF Bus!NewestWait
<1> QED
  BY <1>8, <1>9, <1>10, <1>11 DEF BusInv, BusTyped

LEMMA BusSubscribeStep == ASSUME BusInv, NEW s \in Subscribers, Bus!Subscribe(s) PROVE BusInv'
<1>1. /\ mem.stream[s] = "none" /\ ~mem.closed
      /\ mem' = [mem EXCEPT !.stream[s] = "open", !.listed = @ \cup {s}, !.heartbeat = TRUE]
      /\ hist' = [hist EXCEPT !.since[s] = Len(hist.log)]
  BY DEF Bus!Subscribe
<1>2. BusTyped /\ Len(hist.log) \in Nat
  BY BusFields DEF BusInv
<1>3. /\ mem'.stream = [mem.stream EXCEPT ![s] = "open"] /\ mem'.listed = mem.listed \cup {s}
      /\ mem'.queue = mem.queue /\ mem'.closed = mem.closed
      /\ hist'.log = hist.log /\ hist'.since = [hist.since EXCEPT ![s] = Len(hist.log)] /\ hist'.read = hist.read
  BY <1>1, <1>2 DEF BusTyped, BusMem, BusHist
<1>4. mem' \in BusMem /\ hist' \in BusHist
  BY <1>1, <1>2 DEF BusTyped, BusMem, BusHist
<1>5. \A t \in Subscribers :
        /\ mem'.stream[t] = IF t = s THEN "open" ELSE mem.stream[t]
        /\ hist'.since[t] = IF t = s THEN Len(hist.log) ELSE hist.since[t]
  BY <1>2, <1>3, BusFields
<1>6. BusShape'
  BY <1>1, <1>2, <1>3, <1>5 DEF BusInv, BusShape
<1>7. Bus!Due(s)' = {} /\ \A t \in Subscribers : t # s => Bus!Due(t)' = Bus!Due(t)
  BY <1>2, <1>3, <1>5 DEF Bus!Due
<1>8. mem.queue[s] = <<>> /\ hist.read[s] = <<>>
  BY <1>1 DEF BusInv, BusShape
<1>9. Bus!AreNewest(<<>>, <<>>, {})
  BY DEF Bus!AreNewest, Bus!Ascending, Bus!Range
<1>10. Bus!NewestWait'
  BY <1>3, <1>5, <1>7, <1>8, <1>9 DEF BusInv, Bus!NewestWait
<1> QED
  BY <1>4, <1>6, <1>10 DEF BusInv, BusTyped

LEMMA BusReceiveStep == ASSUME BusInv, NEW s \in Subscribers, Bus!Receive(s) PROVE BusInv'
<1>1. /\ mem.stream[s] = "open" /\ mem.queue[s] # <<>>
      /\ mem' = [mem EXCEPT !.queue[s] = Tail(@)]
      /\ hist' = [hist EXCEPT !.read[s] = Append(@, Head(mem.queue[s]))]
  BY DEF Bus!Receive
<1>2. BusTyped /\ mem.queue[s] \in Seq(Nat) /\ hist.read[s] \in Seq(Nat)
  BY BusFields DEF BusInv
<1>3. PICK t \in Seq(Nat), r \in Seq(Nat) : t = Tail(mem.queue[s]) /\ r = Append(hist.read[s], Head(mem.queue[s]))
  <2>1. Tail(mem.queue[s]) \in Seq(Nat) /\ Head(mem.queue[s]) \in Nat
    BY <1>1, <1>2
  <2>2. Append(hist.read[s], Head(mem.queue[s])) \in Seq(Nat)
    BY <1>2, <2>1
  <2> QED
    BY <2>1, <2>2
<1>4. mem' = [mem EXCEPT !.queue[s] = t] /\ hist' = [hist EXCEPT !.read[s] = r]
  BY <1>1, <1>3
<1>5. /\ mem'.stream = mem.stream /\ mem'.listed = mem.listed /\ mem'.closed = mem.closed
      /\ mem'.queue = [mem.queue EXCEPT ![s] = t]
      /\ hist'.log = hist.log /\ hist'.since = hist.since /\ hist'.read = [hist.read EXCEPT ![s] = r]
  BY <1>2, <1>4 DEF BusTyped, BusMem, BusHist
<1>6. mem' \in BusMem /\ hist' \in BusHist
  BY <1>2, <1>4 DEF BusTyped, BusMem, BusHist
<1>7. \A u \in Subscribers :
        /\ mem'.queue[u] = IF u = s THEN t ELSE mem.queue[u]
        /\ hist'.read[u] = IF u = s THEN r ELSE hist.read[u]
        /\ Bus!Due(u)' = Bus!Due(u)
  BY <1>2, <1>5, BusFields DEF Bus!Due
<1>8. Bus!AreNewest(r, t, Bus!Due(s))
  <2>1. Bus!Due(s) \in SUBSET Nat
    BY <1>2, BusFields DEF Bus!Due
  <2> QED
    BY <1>1, <1>2, <1>3, <2>1, BusTakeKeeps DEF BusInv, Bus!NewestWait
<1>9. BusShape'
  BY <1>1, <1>5, <1>7 DEF BusInv, BusShape
<1>10. Bus!NewestWait'
  BY <1>5, <1>7, <1>8 DEF BusInv, Bus!NewestWait
<1> QED
  BY <1>6, <1>9, <1>10 DEF BusInv, BusTyped

LEMMA BusLeaveStep == ASSUME BusInv, NEW s \in Subscribers, Bus!Leave(s) PROVE BusInv'
<1>1. mem' = [mem EXCEPT !.stream[s] = "left", !.listed = @ \ {s}, !.queue[s] = <<>>] /\ UNCHANGED hist
  BY DEF Bus!Leave
<1>2. BusTyped /\ <<>> \in Seq(Nat)
  BY DEF BusInv
<1>3. /\ mem'.stream = [mem.stream EXCEPT ![s] = "left"] /\ mem'.listed = mem.listed \ {s}
      /\ mem'.queue = [mem.queue EXCEPT ![s] = <<>>] /\ mem'.closed = mem.closed
  BY <1>1, <1>2 DEF BusTyped, BusMem
<1>4. mem' \in BusMem
  BY <1>1, <1>2 DEF BusTyped, BusMem
<1>5. \A u \in Subscribers :
        /\ mem'.stream[u] = IF u = s THEN "left" ELSE mem.stream[u]
        /\ mem'.queue[u] = IF u = s THEN <<>> ELSE mem.queue[u]
        /\ Bus!Due(u)' = Bus!Due(u)
  BY <1>1, <1>2, <1>3, BusFields DEF Bus!Due
<1>6. BusShape' /\ Bus!NewestWait'
  BY <1>1, <1>3, <1>5 DEF BusInv, BusShape, Bus!NewestWait
<1> QED
  BY <1>1, <1>2, <1>4, <1>6 DEF BusInv, BusTyped

LEMMA BusStep == ASSUME BusInv, [Bus!Next]_(Bus!vars) PROVE BusInv'
<1>1. ASSUME Bus!Close \/ Bus!Forget PROVE BusInv'
  <2>1. /\ BusTyped /\ UNCHANGED hist /\ mem' \in BusMem /\ mem'.stream = mem.stream /\ mem'.queue = mem.queue
        /\ mem'.closed = TRUE /\ mem'.listed \subseteq mem.listed
    BY <1>1 DEF Bus!Close, Bus!Forget, BusInv, BusTyped, BusMem
  <2>2. \A s \in Subscribers : Bus!Due(s)' = Bus!Due(s)
    BY <2>1 DEF Bus!Due
  <2>3. BusShape' /\ Bus!NewestWait'
    BY <2>1, <2>2 DEF BusInv, BusShape, Bus!NewestWait
  <2> QED
    BY <2>1, <2>3 DEF BusInv, BusTyped
<1>2. CASE UNCHANGED Bus!vars
  BY <1>2 DEF Bus!vars, BusInv, BusTyped, BusShape, Bus!NewestWait, Bus!Due
<1>3. ASSUME NEW t \in Topics, Bus!Publish(t) PROVE BusInv'
  BY <1>3, BusDeliverStep DEF Bus!Publish, BusAllTopics
<1>4. CASE Bus!Heartbeat
  BY <1>4, BusDeliverStep DEF Bus!Heartbeat, BusAllTopics
<1> QED
  BY <1>1, <1>2, <1>3, <1>4, BusSubscribeStep, BusReceiveStep, BusLeaveStep DEF Bus!Next

LEMMA BusPart == SuiteSpec => [](part = "bus" => BusInv)
<1>1. SuiteInit => (part = "bus" => BusInv)
  BY BusInit DEF SuiteInit
<1>2. (part = "bus" => BusInv) /\ [SuiteNext]_suiteVars => (part = "bus" => BusInv)'
  <2> SUFFICES ASSUME part = "bus", BusInv, [SuiteNext]_suiteVars PROVE BusInv'
    BY DEF SuiteNext, suiteVars
  <2>1. [Bus!Next]_(Bus!vars)
    BY DEF SuiteNext, suiteVars, state, Bus!vars
  <2> QED
    BY <2>1, BusStep
<1> QED
  BY <1>1, <1>2, PTL DEF SuiteSpec

\* app/engine/event_bus.py: what waits for a subscriber is the newest of what
\* matched since it subscribed, in order and without a gap, after what it read;
\* for any queue size of at least one, any subscribers and any topics.
THEOREM NewestAlwaysWait == SuiteSpec => []NewestWait
<1>1. (part = "bus" => BusInv) => NewestWait
  BY DEF BusInv, NewestWait
<1> QED
  BY <1>1, BusPart, PTL

-----------------------------------------------------------------------------
(* BudgetLedger *)

BudgetRow == [used : Nat, status : {"none", "active", "incomplete", "complete"}]
BudgetDb == [row : BudgetRow, tool : [Tools -> BudgetRow]]
BudgetWork == [at : {"idle", "update", "exceed", "complete"}, sum : Nat, size : Nat, tool : Tools \cup {"none"}]
BudgetHist == [granted : Nat, tooled : [Tools -> Nat], overlap : BOOLEAN, hidden : BOOLEAN,
               calls : Nat, crashed : BOOLEAN]

BudgetTyped == db \in BudgetDb /\ proc \in [Workers -> BudgetWork] /\ hist \in BudgetHist

\* The scan's row stays once it is there, and nobody works on it before.
BudgetRowFirst ==
  db.row.status = "none" =>
    /\ db.row.used = 0 /\ hist.granted = 0
    /\ \A w \in Workers : Budget!At(w, "idle")

\* Without an overlap one worker at a time is about to write what it read.
BudgetOneWrites ==
  ~hist.overlap =>
    /\ db.row.used = hist.granted
    /\ \A v, w \in Workers : Budget!At(v, "update") /\ Budget!At(w, "update") => v = w
    /\ \A w \in Workers : Budget!At(w, "update") => proc[w].sum = db.row.used + proc[w].size

\* Nobody holds a snapshot of a budget that was exceeded since.
BudgetNoOldSnapshot ==
  db.row.status = "incomplete" /\ ~hist.hidden => \A w \in Workers : ~Budget!At(w, "complete")

BudgetToolsSum == \A t \in Tools : db.tool[t].used = hist.tooled[t]

BudgetInv == BudgetTyped /\ BudgetRowFirst /\ BudgetOneWrites /\ BudgetNoOldSnapshot /\ BudgetToolsSum

LEMMA BudgetFields ==
  ASSUME BudgetTyped
  PROVE  /\ db.row \in BudgetRow /\ db.tool \in [Tools -> BudgetRow] /\ db.row.used \in Nat
         /\ db.row.status \in {"none", "active", "incomplete", "complete"}
         /\ hist.granted \in Nat /\ hist.tooled \in [Tools -> Nat] /\ hist.overlap \in BOOLEAN
         /\ hist.hidden \in BOOLEAN /\ hist.calls \in Nat /\ hist.crashed \in BOOLEAN
         /\ proc \in [Workers -> BudgetWork] /\ \A w \in Workers : proc[w].sum \in Nat /\ proc[w].size \in Nat
  BY DEF BudgetTyped, BudgetDb, BudgetRow, BudgetWork, BudgetHist

LEMMA BudgetInit == Budget!Init => BudgetInv
<1> SUFFICES ASSUME Budget!Init PROVE BudgetInv
  OBVIOUS
<1>1. BudgetTyped
  BY DEF Budget!Init, BudgetTyped, BudgetDb, BudgetRow, BudgetWork, BudgetHist, Budget!NoRow, Budget!Idle
<1> QED
  BY <1>1 DEF Budget!Init, BudgetInv, BudgetRowFirst, BudgetOneWrites, BudgetNoOldSnapshot, BudgetToolsSum, Budget!At, Budget!NoRow, Budget!Idle

\* Where a worker is after it went on.
LEMMA BudgetGotoFact ==
  ASSUME BudgetTyped, NEW w \in Workers, NEW p \in {"idle", "update", "exceed", "complete"}, Budget!Goto(w, p)
  PROVE  /\ proc' \in [Workers -> BudgetWork]
         /\ \A v \in Workers : proc'[v] = IF v = w THEN [Budget!Idle EXCEPT !.at = p] ELSE proc[v]
         /\ proc'[w].at = p
<1>1. [Budget!Idle EXCEPT !.at = p] \in BudgetWork /\ [Budget!Idle EXCEPT !.at = p].at = p
  BY DEF Budget!Idle, BudgetWork
<1> QED
  BY <1>1 DEF Budget!Goto, BudgetTyped

LEMMA BudgetOpenStep == ASSUME BudgetInv, NEW w \in Workers, Budget!Open(w) PROVE BudgetInv'
<1>1. BudgetTyped /\ UNCHANGED <<proc, hist>>
  BY DEF BudgetInv, Budget!Open
<1>2. /\ db' \in BudgetDb /\ db'.tool = db.tool
      /\ db'.row = IF Budget!Known THEN db.row ELSE Budget!Fresh
  BY <1>1 DEF Budget!Open, BudgetTyped, BudgetDb, Budget!Fresh, BudgetRow
<1>3. db.row.status = "none" => db.row = Budget!NoRow
  BY <1>1 DEF BudgetInv, BudgetRowFirst, BudgetTyped, BudgetDb, BudgetRow, Budget!NoRow
<1>4. CASE Budget!Known
  BY <1>1, <1>2, <1>4 DEF BudgetInv, BudgetTyped, BudgetRowFirst, BudgetOneWrites, BudgetNoOldSnapshot, BudgetToolsSum, Budget!At
<1>5. CASE ~Budget!Known
  <2>1. db.row.status = "none" /\ db.row.used = 0
    BY <1>5 DEF Budget!Known, Budget!NoRow
  <2>2. db'.row.status = "active" /\ db'.row.used = 0
    BY <1>2, <1>5 DEF Budget!Fresh
  <2> QED
    BY <1>1, <1>2, <2>1, <2>2 DEF BudgetInv, BudgetTyped, BudgetRowFirst, BudgetOneWrites, BudgetNoOldSnapshot, BudgetToolsSum, Budget!At
<1> QED
  BY <1>4, <1>5

LEMMA BudgetReadsStep == ASSUME BudgetInv, NEW w \in Workers, NEW n \in Sizes, Budget!ConsumeReads(w, n) PROVE BudgetInv'
<1>0. BudgetTyped /\ n \in Nat /\ db' = db /\ db.row.status # "none"
  BY SizesAreNat DEF BudgetInv, Budget!ConsumeReads, Budget!Known, Budget!NoRow, BudgetRowFirst, BudgetTyped, BudgetDb, BudgetRow
<1>1. PICK r \in BudgetWork :
        /\ proc' = [proc EXCEPT ![w] = r] /\ r.at \in {"update", "exceed"}
        /\ r.at = "update" => r.sum = db.row.used + r.size
  <2>1. CASE db.row.used + n <= Limit
    <3> DEFINE r == [Budget!Idle EXCEPT !.at = "update", !.sum = db.row.used + n, !.size = n]
    <3>1. PICK k \in Nat : k = db.row.used + n
      BY <1>0, BudgetFields
    <3>2. r \in BudgetWork /\ r.at = "update" /\ r.sum = k /\ r.size = n
      BY <1>0, <3>1 DEF Budget!Idle, BudgetWork
    <3>3. proc' = [proc EXCEPT ![w] = r]
      BY <2>1 DEF Budget!ConsumeReads
    <3> QED
      BY <3>1, <3>2, <3>3
  <2>2. CASE ~(db.row.used + n <= Limit)
    <3> DEFINE r == [Budget!Idle EXCEPT !.at = "exceed"]
    <3>1. r \in BudgetWork /\ r.at = "exceed"
      BY DEF Budget!Idle, BudgetWork
    <3>2. proc' = [proc EXCEPT ![w] = r]
      BY <2>2 DEF Budget!ConsumeReads, Budget!Goto
    <3> QED
      BY <3>1, <3>2
  <2> QED
    BY <2>1, <2>2
<1>2. /\ proc' \in [Workers -> BudgetWork] /\ \A v \in Workers : proc'[v] = IF v = w THEN r ELSE proc[v]
  BY <1>0, <1>1 DEF BudgetTyped
<1>3. PICK o \in BOOLEAN : o = (hist.overlap \/ \E v \in Workers : Budget!At(v, "update"))
  BY <1>0, BudgetFields
<1>4. hist.calls + 1 \in Nat /\ hist' = [hist EXCEPT !.calls = hist.calls + 1, !.overlap = o]
  BY <1>0, <1>3, BudgetFields DEF Budget!ConsumeReads
<1>5. /\ hist' \in BudgetHist /\ hist'.granted = hist.granted /\ hist'.tooled = hist.tooled
      /\ hist'.overlap = o /\ hist'.hidden = hist.hidden
  BY <1>0, <1>4 DEF BudgetTyped, BudgetHist
<1>6. BudgetRowFirst' /\ BudgetToolsSum'
  BY <1>0, <1>5 DEF BudgetInv, BudgetRowFirst, BudgetToolsSum
<1>7. BudgetOneWrites'
  BY <1>0, <1>1, <1>2, <1>3, <1>5 DEF BudgetInv, BudgetOneWrites, Budget!At
<1>8. BudgetNoOldSnapshot'
  BY <1>0, <1>1, <1>2, <1>5 DEF BudgetInv, BudgetNoOldSnapshot, Budget!At
<1> QED
  BY <1>0, <1>2, <1>5, <1>6, <1>7, <1>8 DEF BudgetInv, BudgetTyped

LEMMA BudgetWritesStep == ASSUME BudgetInv, NEW w \in Workers, Budget!ConsumeWrites(w) PROVE BudgetInv'
<1>0. BudgetTyped /\ Budget!At(w, "update") /\ Budget!Goto(w, "idle") /\ db' = [db EXCEPT !.row.used = proc[w].sum]
      /\ proc[w].sum \in Nat /\ proc[w].size \in Nat
  BY BudgetFields DEF BudgetInv, Budget!ConsumeWrites
<1>1. db' \in BudgetDb /\ db'.tool = db.tool /\ db'.row.status = db.row.status /\ db'.row.used = proc[w].sum
  BY <1>0 DEF BudgetTyped, BudgetDb, BudgetRow
<1>2. PICK g \in Nat : g = hist.granted + proc[w].size
  BY <1>0, BudgetFields
<1>3. hist' = [hist EXCEPT !.granted = g]
  BY <1>2 DEF Budget!ConsumeWrites
<1>4. /\ hist' \in BudgetHist /\ hist'.granted = g /\ hist'.tooled = hist.tooled
      /\ hist'.overlap = hist.overlap /\ hist'.hidden = hist.hidden
  BY <1>0, <1>3 DEF BudgetTyped, BudgetHist
<1>5. /\ proc' \in [Workers -> BudgetWork] /\ \A v \in Workers : v # w => proc'[v] = proc[v]
      /\ proc'[w].at = "idle"
  BY <1>0, BudgetGotoFact
<1>6. BudgetRowFirst' /\ BudgetToolsSum'
  BY <1>0, <1>1, <1>4 DEF BudgetInv, BudgetRowFirst, BudgetToolsSum, Budget!At
<1>7. BudgetOneWrites'
  <2> SUFFICES ASSUME ~hist.overlap
      PROVE  /\ db'.row.used = g
             /\ \A v \in Workers : ~Budget!At(v, "update")'
    BY <1>4 DEF BudgetOneWrites, Budget!At
  <2>1. proc[w].sum = db.row.used + proc[w].size /\ db.row.used = hist.granted
    BY <1>0 DEF BudgetInv, BudgetOneWrites
  <2> QED
    BY <1>0, <1>1, <1>2, <1>5, <2>1 DEF BudgetInv, BudgetOneWrites, Budget!At
<1>8. BudgetNoOldSnapshot'
  BY <1>1, <1>4, <1>5 DEF BudgetInv, BudgetNoOldSnapshot, Budget!At
<1> QED
  BY <1>1, <1>4, <1>5, <1>6, <1>7, <1>8 DEF BudgetInv, BudgetTyped

LEMMA BudgetToolTimeStep ==
  ASSUME BudgetInv, NEW w \in Workers, NEW n \in Sizes, NEW t \in Tools, Budget!ConsumeToolTime(w, t, n)
  PROVE  BudgetInv'
<1> DEFINE row == IF db.tool[t] = Budget!NoRow THEN Budget!Fresh ELSE db.tool[t]
<1>0. BudgetTyped /\ n \in Nat /\ db.row.status # "none" /\ Budget!At(w, "idle")
  BY SizesAreNat DEF BudgetInv, Budget!ConsumeToolTime, Budget!Known, Budget!NoRow, BudgetRowFirst, BudgetTyped, BudgetDb, BudgetRow
<1>1. row \in BudgetRow /\ row.used = hist.tooled[t] /\ row.used \in Nat
  <2>1. db.tool[t] \in BudgetRow /\ db.tool[t].used = hist.tooled[t]
    BY <1>0, BudgetFields DEF BudgetInv, BudgetToolsSum
  <2> QED
    BY <2>1 DEF Budget!Fresh, Budget!NoRow, BudgetRow
<1> HIDE DEF row
<1>2. PICK c \in Nat : c = hist.calls + 1
  BY <1>0, BudgetFields
<1>3. CASE /\ db' = [db EXCEPT !.tool[t] = [row EXCEPT !.used = @ + n]]
           /\ hist' = [hist EXCEPT !.calls = @ + 1, !.tooled[t] = @ + n] /\ UNCHANGED proc
  <2>1. PICK k \in Nat : k = row.used + n
    BY <1>0, <1>1
  <2>2. PICK r \in BudgetRow : r = [row EXCEPT !.used = k] /\ r.used = k
    <3>1. [row EXCEPT !.used = k] \in BudgetRow /\ [row EXCEPT !.used = k].used = k
      BY <1>1 DEF BudgetRow
    <3> QED
      BY <3>1
  <2>3. db' = [db EXCEPT !.tool[t] = r] /\ hist' = [hist EXCEPT !.calls = c, !.tooled[t] = k]
    BY <1>1, <1>2, <1>3, <2>1, <2>2
  <2>4. db' \in BudgetDb /\ db'.row = db.row /\ \A u \in Tools : db'.tool[u] = IF u = t THEN r ELSE db.tool[u]
    BY <1>0, <2>3 DEF BudgetTyped, BudgetDb
  <2>5. /\ hist' \in BudgetHist /\ hist'.granted = hist.granted /\ hist'.overlap = hist.overlap
        /\ hist'.hidden = hist.hidden /\ \A u \in Tools : hist'.tooled[u] = IF u = t THEN k ELSE hist.tooled[u]
    BY <1>0, <2>3 DEF BudgetTyped, BudgetHist
  <2>6. BudgetRowFirst' /\ BudgetOneWrites' /\ BudgetNoOldSnapshot'
    BY <1>3, <2>4, <2>5 DEF BudgetInv, BudgetRowFirst, BudgetOneWrites, BudgetNoOldSnapshot, Budget!At
  <2>7. BudgetToolsSum'
    BY <2>2, <2>4, <2>5 DEF BudgetInv, BudgetToolsSum
  <2> QED
    BY <1>3, <2>4, <2>5, <2>6, <2>7 DEF BudgetInv, BudgetTyped
<1>4. CASE /\ db' = [db EXCEPT !.tool[t] = row] /\ hist' = [hist EXCEPT !.calls = @ + 1]
           /\ proc' = [proc EXCEPT ![w] = [Budget!Idle EXCEPT !.at = "exceed", !.tool = t]]
  <2>1. db' \in BudgetDb /\ db'.row = db.row /\ \A u \in Tools : db'.tool[u] = IF u = t THEN row ELSE db.tool[u]
    BY <1>0, <1>1, <1>4 DEF BudgetTyped, BudgetDb
  <2>2. hist' = [hist EXCEPT !.calls = c]
    BY <1>2, <1>4
  <2>3. /\ hist' \in BudgetHist /\ hist'.granted = hist.granted /\ hist'.overlap = hist.overlap
        /\ hist'.hidden = hist.hidden /\ hist'.tooled = hist.tooled
    BY <1>0, <2>2 DEF BudgetTyped, BudgetHist
  <2>4. PICK r \in BudgetWork : r = [Budget!Idle EXCEPT !.at = "exceed", !.tool = t] /\ r.at = "exceed"
    <3>1. [Budget!Idle EXCEPT !.at = "exceed", !.tool = t] \in BudgetWork /\ [Budget!Idle EXCEPT !.at = "exceed", !.tool = t].at = "exceed"
      BY DEF Budget!Idle, BudgetWork
    <3> QED
      BY <3>1
  <2>5. proc' \in [Workers -> BudgetWork] /\ \A v \in Workers : proc'[v] = IF v = w THEN r ELSE proc[v]
    BY <1>0, <1>4, <2>4 DEF BudgetTyped
  <2>6. BudgetRowFirst' /\ BudgetOneWrites' /\ BudgetNoOldSnapshot'
    <3>1. BudgetRowFirst'
      BY <1>0, <2>1 DEF BudgetRowFirst
    <3>2. BudgetOneWrites'
      <4>1. \A v \in Workers : Budget!At(v, "update")' => v # w /\ proc'[v] = proc[v] /\ Budget!At(v, "update")
        BY <2>4, <2>5 DEF Budget!At
      <4>2. hist'.overlap = hist.overlap /\ hist'.granted = hist.granted /\ db'.row = db.row
        BY <2>1, <2>3
      <4>3. BudgetOneWrites
        BY DEF BudgetInv
      <4> QED
        BY <4>1, <4>2, <4>3 DEF BudgetOneWrites
    <3>3. BudgetNoOldSnapshot'
      BY <2>1, <2>3, <2>4, <2>5 DEF BudgetInv, BudgetNoOldSnapshot, Budget!At
    <3> QED
      BY <3>1, <3>2, <3>3
  <2>7. BudgetToolsSum'
    BY <1>1, <2>1, <2>3 DEF BudgetInv, BudgetToolsSum
  <2> QED
    BY <2>1, <2>3, <2>5, <2>6, <2>7 DEF BudgetInv, BudgetTyped
<1> QED
  BY <1>3, <1>4 DEF Budget!ConsumeToolTime, row

LEMMA BudgetExceedStep == ASSUME BudgetInv, NEW w \in Workers, Budget!Exceed(w) PROVE BudgetInv'
<1> DEFINE t == proc[w].tool
           tools == IF t = "none" THEN db.tool ELSE [db.tool EXCEPT ![t].status = "incomplete"]
<1>0. BudgetTyped /\ Budget!At(w, "exceed") /\ Budget!Goto(w, "idle")
      /\ db' = [row |-> [db.row EXCEPT !.status = "incomplete"], tool |-> tools]
  BY DEF BudgetInv, Budget!Exceed
<1>1. tools \in [Tools -> BudgetRow] /\ \A u \in Tools : tools[u].used = db.tool[u].used
  BY <1>0, BudgetFields DEF BudgetRow
<1> HIDE DEF tools
<1>2. db' \in BudgetDb /\ db'.tool = tools /\ db'.row.status = "incomplete" /\ db'.row.used = db.row.used
  <2>1. db.row \in [used : Nat, status : {"none", "active", "incomplete", "complete"}]
    BY <1>0, BudgetFields DEF BudgetRow
  <2> QED
    BY <1>0, <1>1, <2>1 DEF BudgetDb, BudgetRow
<1>3. PICK h \in BOOLEAN : h = (hist.hidden \/ \E v \in Workers : Budget!At(v, "complete"))
  BY <1>0, BudgetFields
<1>4. hist' = [hist EXCEPT !.hidden = h]
  BY <1>3 DEF Budget!Exceed
<1>5. /\ hist' \in BudgetHist /\ hist'.granted = hist.granted /\ hist'.tooled = hist.tooled
      /\ hist'.overlap = hist.overlap /\ hist'.hidden = h
  BY <1>0, <1>4 DEF BudgetTyped, BudgetHist
<1>6. /\ proc' \in [Workers -> BudgetWork] /\ \A v \in Workers : v # w => proc'[v] = proc[v]
      /\ proc'[w].at = "idle"
  BY <1>0, BudgetGotoFact
<1>7. BudgetRowFirst' /\ BudgetToolsSum'
  BY <1>1, <1>2, <1>5 DEF BudgetInv, BudgetRowFirst, BudgetToolsSum
<1>8. BudgetOneWrites' /\ BudgetNoOldSnapshot'
  BY <1>2, <1>3, <1>5, <1>6 DEF BudgetInv, BudgetOneWrites, BudgetNoOldSnapshot, Budget!At
<1> QED
  BY <1>2, <1>5, <1>6, <1>7, <1>8 DEF BudgetInv, BudgetTyped

LEMMA BudgetCompleteStep == ASSUME BudgetInv, NEW w \in Workers, Budget!MarkComplete(w) PROVE BudgetInv'
<1> DEFINE tools == [u \in Tools |-> IF db.tool[u].status = "active"
                                       THEN [db.tool[u] EXCEPT !.status = "complete"] ELSE db.tool[u]]
<1>0. BudgetTyped /\ Budget!At(w, "complete") /\ Budget!Goto(w, "idle") /\ UNCHANGED hist
      /\ db' = [row |-> [db.row EXCEPT !.status = "complete"], tool |-> tools]
  BY DEF BudgetInv, Budget!MarkComplete
<1>1. tools \in [Tools -> BudgetRow] /\ \A u \in Tools : tools[u].used = db.tool[u].used
  BY <1>0, BudgetFields DEF BudgetRow
<1> HIDE DEF tools
<1>2. db' \in BudgetDb /\ db'.tool = tools /\ db'.row.status = "complete" /\ db'.row.used = db.row.used
  <2>1. db.row \in [used : Nat, status : {"none", "active", "incomplete", "complete"}]
    BY <1>0, BudgetFields DEF BudgetRow
  <2> QED
    BY <1>0, <1>1, <2>1 DEF BudgetDb, BudgetRow
<1>3. /\ proc' \in [Workers -> BudgetWork] /\ \A v \in Workers : v # w => proc'[v] = proc[v]
      /\ proc'[w].at = "idle"
  BY <1>0, BudgetGotoFact
<1>4. BudgetRowFirst' /\ BudgetToolsSum' /\ BudgetOneWrites' /\ BudgetNoOldSnapshot'
  BY <1>0, <1>1, <1>2, <1>3 DEF BudgetInv, BudgetRowFirst, BudgetToolsSum, BudgetOneWrites, BudgetNoOldSnapshot, Budget!At
<1> QED
  BY <1>0, <1>2, <1>3, <1>4 DEF BudgetInv, BudgetTyped

LEMMA BudgetMovesStep == ASSUME BudgetInv, NEW w \in Workers, Budget!WallClock(w) \/ Budget!Snapshot(w) PROVE BudgetInv'
<1>1. PICK p \in {"exceed", "complete"} :
        /\ Budget!Goto(w, p) /\ UNCHANGED <<db, hist>> /\ Budget!Known
        /\ p = "complete" => db.row.status = "active"
  BY DEF Budget!WallClock, Budget!Snapshot
<1>2. BudgetTyped /\ p \in {"idle", "update", "exceed", "complete"} /\ db.row.status # "none"
  BY <1>1 DEF BudgetInv, Budget!Known, Budget!NoRow, BudgetRowFirst, BudgetTyped, BudgetDb, BudgetRow
<1>3. /\ proc' \in [Workers -> BudgetWork] /\ \A v \in Workers : v # w => proc'[v] = proc[v]
      /\ proc'[w].at = p
  BY <1>1, <1>2, BudgetGotoFact
<1>4. BudgetRowFirst' /\ BudgetToolsSum' /\ BudgetOneWrites' /\ BudgetNoOldSnapshot'
  BY <1>1, <1>2, <1>3 DEF BudgetInv, BudgetRowFirst, BudgetToolsSum, BudgetOneWrites, BudgetNoOldSnapshot, Budget!At
<1> QED
  BY <1>1, <1>2, <1>3, <1>4 DEF BudgetInv, BudgetTyped

LEMMA BudgetCrashStep == ASSUME BudgetInv, Budget!Crash PROVE BudgetInv'
<1>1. BudgetTyped /\ db' = db /\ proc' = [w \in Workers |-> Budget!Idle] /\ hist' = [hist EXCEPT !.crashed = TRUE]
  BY DEF BudgetInv, Budget!Crash
<1>2. /\ hist' \in BudgetHist /\ hist'.granted = hist.granted /\ hist'.tooled = hist.tooled
      /\ hist'.overlap = hist.overlap /\ hist'.hidden = hist.hidden
  BY <1>1 DEF BudgetTyped, BudgetHist
<1>3. proc' \in [Workers -> BudgetWork] /\ \A w \in Workers : proc'[w].at = "idle"
  BY <1>1 DEF Budget!Idle, BudgetWork
<1>4. BudgetRowFirst' /\ BudgetToolsSum' /\ BudgetOneWrites' /\ BudgetNoOldSnapshot'
  BY <1>1, <1>2, <1>3 DEF BudgetInv, BudgetRowFirst, BudgetToolsSum, BudgetOneWrites, BudgetNoOldSnapshot, Budget!At
<1> QED
  BY <1>1, <1>2, <1>3, <1>4 DEF BudgetInv, BudgetTyped

LEMMA BudgetStep == ASSUME BudgetInv, [Budget!Next]_(Budget!vars) PROVE BudgetInv'
<1>1. CASE UNCHANGED Budget!vars
  BY <1>1 DEF Budget!vars, BudgetInv, BudgetTyped, BudgetRowFirst, BudgetToolsSum, BudgetOneWrites, BudgetNoOldSnapshot, Budget!At
<1> QED
  BY <1>1, BudgetOpenStep, BudgetReadsStep, BudgetWritesStep, BudgetToolTimeStep, BudgetExceedStep, BudgetCompleteStep, BudgetMovesStep, BudgetCrashStep DEF Budget!Next

LEMMA BudgetInvHolds == ASSUME BudgetInv PROVE Budget!UseSurvives
  BY DEF BudgetInv, BudgetOneWrites, BudgetToolsSum, Budget!UseSurvives

LEMMA BudgetExceededStep == ASSUME BudgetInv, [Budget!Next]_(Budget!vars) PROVE Budget!ExceededStays
<1> SUFFICES ASSUME Budget!Known, db.row.status = "incomplete", ~hist.hidden PROVE db'.row.status = "incomplete"
  BY DEF Budget!ExceededStays
<1>1. BudgetTyped /\ \A w \in Workers : ~Budget!At(w, "complete")
  BY DEF BudgetInv, BudgetNoOldSnapshot
<1>2. ASSUME NEW w \in Workers,
             \/ Budget!Open(w) \/ Budget!ConsumeWrites(w) \/ Budget!WallClock(w) \/ Budget!Exceed(w) \/ Budget!Snapshot(w) \/ Budget!MarkComplete(w)
             \/ \E n \in Sizes : Budget!ConsumeReads(w, n) \/ \E t \in Tools : Budget!ConsumeToolTime(w, t, n)
      PROVE  db'.row.status = "incomplete"
  <2>1. CASE Budget!WallClock(w) \/ Budget!Snapshot(w) \/ \E n \in Sizes : Budget!ConsumeReads(w, n)
    BY <2>1 DEF Budget!WallClock, Budget!Snapshot, Budget!ConsumeReads
  <2>2. CASE Budget!Open(w)
    BY <1>1, <2>2 DEF Budget!Open, BudgetTyped, BudgetDb
  <2>3. CASE Budget!ConsumeWrites(w)
    BY <1>1, <2>3 DEF Budget!ConsumeWrites, BudgetTyped, BudgetDb, BudgetRow
  <2>4. CASE Budget!Exceed(w)
    <3>1. db.row \in BudgetRow
      BY <1>1, BudgetFields
    <3> QED
      BY <2>4, <3>1 DEF Budget!Exceed, BudgetRow
  <2>5. CASE Budget!MarkComplete(w)
    BY <1>1, <2>5 DEF Budget!MarkComplete
  <2>6. ASSUME NEW n \in Sizes, NEW t \in Tools, Budget!ConsumeToolTime(w, t, n) PROVE db'.row = db.row
    BY <1>1, <2>6 DEF Budget!ConsumeToolTime, BudgetTyped, BudgetDb
  <2> QED
    BY <1>2, <2>1, <2>2, <2>3, <2>4, <2>5, <2>6
<1>3. CASE Budget!Crash \/ UNCHANGED Budget!vars
  BY <1>3 DEF Budget!Crash, Budget!vars
<1> QED
  BY <1>2, <1>3 DEF Budget!Next

LEMMA BudgetPart == SuiteSpec => [](part = "budget" => BudgetInv)
<1>1. SuiteInit => (part = "budget" => BudgetInv)
  BY BudgetInit DEF SuiteInit
<1>2. (part = "budget" => BudgetInv) /\ [SuiteNext]_suiteVars => (part = "budget" => BudgetInv)'
  <2> SUFFICES ASSUME part = "budget", BudgetInv, [SuiteNext]_suiteVars PROVE BudgetInv'
    BY DEF SuiteNext, suiteVars
  <2>1. [Budget!Next]_(Budget!vars)
    BY DEF SuiteNext, suiteVars, state, Budget!vars
  <2> QED
    BY <2>1, BudgetStep
<1> QED
  BY <1>1, <1>2, PTL DEF SuiteSpec

\* app/ops/runtime.py: a process that resumes the scan reads what was used
\* before, unless two consumptions overlapped, and an exceeded budget is not
\* called complete afterwards, unless the row was read before.
THEOREM UseIsAlwaysKept == SuiteSpec => UseIsKept
<1>1. (part = "budget" => BudgetInv) => (part = "budget" => Budget!UseSurvives)
  BY BudgetInvHolds
<1>2. (part = "budget" => BudgetInv) /\ [SuiteNext]_suiteVars => [part = "budget" => Budget!ExceededStays]_db
  <2> SUFFICES ASSUME part = "budget", BudgetInv, [SuiteNext]_suiteVars PROVE Budget!ExceededStays
    BY DEF SuiteNext, suiteVars
  <2>1. [Budget!Next]_(Budget!vars)
    BY DEF SuiteNext, suiteVars, state, Budget!vars
  <2> QED
    BY <2>1, BudgetExceededStep
<1> QED
  BY <1>1, <1>2, BudgetPart, PTL DEF SuiteSpec, UseIsKept

-----------------------------------------------------------------------------
(* DashboardScan *)

DashPoints == {"none", "created", "start", "authorize", "skipped", "loop", "open", "tool", "closeRun", "runFailed",
           "toolError", "progress", "complete", "fail", "finally", "over", "put", "evict", "reput"}
DashNexts == {"skipped", "loop", "open", "closeRun", "progress", "complete", "finally", "over"}
DashSaid == {"none", "running", "completed", "cancelled", "failed"}
DashMessage == [scan : Scans, n : Nat, status : DashSaid]
DashSay == [status : DashSaid, next : DashNexts]
DashRowStatus == {"none", "pending", "running", "completed", "cancelled", "failed"}
DashRuns == Seq({"running", "completed", "failed"})

DashDb == [target : BOOLEAN, row : [Scans -> DashRowStatus], runs : [Scans -> DashRuns]]
DashMem == [flag : SUBSET Scans, client : BOOLEAN, channel : Seq(DashMessage)]
DashProc == [at : [Scans -> DashPoints], asker : [Scans -> {"idle", "found", "accepted"}],
             say : [Scans -> DashSay], begun : [Scans -> Nat], sent : [Scans -> Nat]]
DashHist == [seen : [Scans -> DashMessage], heeded : SUBSET Scans,
             stuck : [Scans -> {"no", "pending", "running"}], unclosed : SUBSET Scans, faults : Nat]

DashTyped == db \in DashDb /\ mem \in DashMem /\ proc \in DashProc /\ hist \in DashHist

\* A thread that broadcasts goes on elsewhere.
DashPending(s) == proc.at[s] \in {"put", "evict", "reput"}
DashWhere(s) == IF DashPending(s) THEN proc.say[s].next ELSE proc.at[s]

\* What the row and the runs of scan s can be when its thread is at p: stuck is
\* what an exception left the row in, open tells that it left a tool run open, all
\* that the last tool has begun.
DashFits(p, row, runs, stuck, open, all) ==
  /\ row = "none" => runs = <<>>
  /\ p \in {"created", "start"} => row \in {"none", "pending"}
  /\ p \notin {"none", "created", "start", "finally", "over"} => row \in {"none", "running"}
  /\ p \in {"finally", "over"} \/ stuck = "no"
  /\ p \in {"finally", "over"} /\ row # "none" =>
       IF stuck = "no" THEN row \in {"completed", "cancelled", "failed"} ELSE row = stuck
  /\ open \/ \A i \in 1 .. Len(runs) : runs[i] = "running" => i = Len(runs) /\ p \in {"tool", "closeRun", "runFailed"}
  /\ row = "completed" => p \in {"finally", "over"} /\ all
  /\ p = "complete" => all

\* A scan completes with its last tool begun, and a cancel before it holds.
DashSettled(s) ==
  /\ DashPending(s) => proc.say[s].next # "over"
  /\ DashFits(DashWhere(s), db.row[s], db.runs[s], hist.stuck[s], s \in hist.unclosed, proc.begun[s] = NTools(s))
  /\ s \in hist.heeded => proc.begun[s] < NTools(s) /\ (s \in mem.flag \/ proc.at[s] = "over")

\* A message is older than the one its scan is broadcasting, and a verdict is
\* the last of its scan and the status of its row.
DashOlder(m) ==
  /\ m.n <= proc.sent[m.scan]
  /\ DashPending(m.scan) => m.n < proc.sent[m.scan]
  /\ m.status \in Dashboard!Final => /\ m.n = proc.sent[m.scan] /\ proc.at[m.scan] \in {"finally", "over"}
                                    /\ db.row[m.scan] \in {"none", m.status}

DashTold ==
  /\ \A s \in Scans : DashPending(s) /\ proc.say[s].status \in Dashboard!Final =>
       proc.say[s].next = "finally" /\ db.row[s] \in {"none", proc.say[s].status}
  /\ \A i \in 1 .. Len(mem.channel) : DashOlder(mem.channel[i])
  /\ \A s \in Scans : hist.seen[s].scan = s /\ DashOlder(hist.seen[s])
  /\ \A i \in 1 .. Len(mem.channel) : hist.seen[mem.channel[i].scan].n < mem.channel[i].n
  /\ \A i, j \in 1 .. Len(mem.channel) :
       i < j /\ mem.channel[i].scan = mem.channel[j].scan => mem.channel[i].n < mem.channel[j].n

DashInv == DashTyped /\ (\A s \in Scans : DashSettled(s)) /\ DashTold

-----------------------------------------------------------------------------

LEMMA DashFields ==
  ASSUME DashTyped
  PROVE  /\ db.target \in BOOLEAN /\ db.row \in [Scans -> DashRowStatus] /\ db.runs \in [Scans -> DashRuns]
         /\ mem.flag \in SUBSET Scans /\ mem.client \in BOOLEAN /\ mem.channel \in Seq(DashMessage)
         /\ proc.at \in [Scans -> DashPoints] /\ proc.asker \in [Scans -> {"idle", "found", "accepted"}]
         /\ proc.say \in [Scans -> DashSay] /\ proc.begun \in [Scans -> Nat] /\ proc.sent \in [Scans -> Nat]
         /\ hist.seen \in [Scans -> DashMessage] /\ hist.heeded \in SUBSET Scans
         /\ hist.stuck \in [Scans -> {"no", "pending", "running"}] /\ hist.unclosed \in SUBSET Scans /\ hist.faults \in Nat
  BY DEF DashTyped, DashDb, DashMem, DashProc, DashHist

LEMMA DashInit == Dashboard!Init => DashInv
<1> SUFFICES ASSUME Dashboard!Init PROVE DashInv
  OBVIOUS
<1>1. <<>> \in DashRuns /\ <<>> \in Seq(DashMessage)
  BY DEF DashRuns
<1>2. DashTyped
  BY <1>1 DEF Dashboard!Init, DashTyped, DashDb, DashMem, DashProc, DashHist, DashMessage, DashSay, DashSaid, DashPoints, DashNexts, DashRowStatus
<1>3. ASSUME NEW s \in Scans
      PROVE  /\ db.row[s] = "none" /\ db.runs[s] = <<>> /\ proc.at[s] = "none" /\ proc.sent[s] = 0
             /\ hist.seen[s].scan = s /\ hist.seen[s].n = 0 /\ hist.seen[s].status = "none" /\ hist.stuck[s] = "no"
  BY DEF Dashboard!Init
<1>4. mem.channel = <<>> /\ hist.heeded = {}
  BY DEF Dashboard!Init
<1>5. ASSUME NEW s \in Scans PROVE DashSettled(s)
  <2>1. proc.at[s] = "none"
    BY <1>3
  <2>2. ~DashPending(s)
    BY <2>1 DEF DashPending
  <2>3. DashWhere(s) = "none"
    BY <2>1, <2>2 DEF DashWhere
  <2>4. 1 .. Len(<<>>) = {}
    OBVIOUS
  <2>5. DashFits("none", "none", <<>>, hist.stuck[s], s \in hist.unclosed, proc.begun[s] = NTools(s))
    BY <1>3, <2>4 DEF DashFits
  <2> QED
    BY <1>3, <1>4, <2>2, <2>3, <2>5 DEF DashSettled
<1>6. DashTold
  <2>1. \A s \in Scans : ~DashPending(s) /\ hist.seen[s].scan = s /\ hist.seen[s].n = 0 /\ hist.seen[s].status \notin Dashboard!Final
    <3>1. \A s \in Scans : proc.at[s] = "none"
      BY <1>3
    <3> QED
      BY <1>3, <3>1 DEF DashPending, Dashboard!Final
  <2>2. \A s \in Scans : DashOlder(hist.seen[s])
    <3>1. \A s \in Scans : proc.sent[s] = 0
      BY <1>3
    <3> QED
      BY <2>1, <3>1 DEF DashOlder
  <2>3. 1 .. Len(mem.channel) = {}
    BY <1>4
  <2> QED
    BY <2>1, <2>2, <2>3 DEF DashTold
<1> QED
  BY <1>2, <1>5, <1>6 DEF DashInv

\* The moves of a thread.
LEMMA DashGoto ==
  ASSUME DashTyped, NEW s \in Scans, NEW p \in DashPoints, Dashboard!Goto(s, p)
  PROVE  /\ proc' \in DashProc /\ proc'.say = proc.say /\ proc'.begun = proc.begun /\ proc'.sent = proc.sent
         /\ proc'.asker = proc.asker /\ \A t \in Scans : proc'.at[t] = IF t = s THEN p ELSE proc.at[t]
  BY DEF DashTyped, DashProc, Dashboard!Goto

LEMMA DashSayingFact ==
  ASSUME DashTyped, NEW s \in Scans, NEW v \in DashSaid, NEW p \in DashNexts
  PROVE  LET q == Dashboard!Saying(s, v, p) IN
         /\ q \in DashProc /\ q.begun = proc.begun /\ q.asker = proc.asker
         /\ \A t \in Scans : /\ q.at[t] = IF t = s THEN "put" ELSE proc.at[t]
                             /\ q.sent[t] = IF t = s THEN proc.sent[s] + 1 ELSE proc.sent[t]
                             /\ q.say[t] = IF t = s THEN [status |-> v, next |-> p] ELSE proc.say[t]
<1>1. PICK n \in Nat : n = proc.sent[s] + 1
  BY DashFields
<1>2. [status |-> v, next |-> p] \in DashSay /\ "put" \in DashPoints
  BY DEF DashSay, DashPoints
<1>3. Dashboard!Saying(s, v, p) = [proc EXCEPT !.at[s] = "put", !.sent[s] = n, !.say[s] = [status |-> v, next |-> p]]
  BY <1>1 DEF Dashboard!Saying
<1>4. PICK y \in DashSay : y = [status |-> v, next |-> p]
  BY <1>2
<1>5. Dashboard!Saying(s, v, p) = [proc EXCEPT !.at[s] = "put", !.sent[s] = n, !.say[s] = y]
  BY <1>3, <1>4
<1>6. proc \in DashProc
  BY DEF DashTyped
<1> DEFINE q == Dashboard!Saying(s, v, p)
<1>7. q \in DashProc
  <2>1. proc.at \in [Scans -> DashPoints] /\ proc.sent \in [Scans -> Nat] /\ proc.say \in [Scans -> DashSay]
    BY <1>6 DEF DashProc
  <2>2. [proc.at EXCEPT ![s] = "put"] \in [Scans -> DashPoints] /\ [proc.sent EXCEPT ![s] = n] \in [Scans -> Nat]
        /\ [proc.say EXCEPT ![s] = y] \in [Scans -> DashSay]
    BY <1>2, <2>1
  <2> QED
    BY <1>5, <1>6, <2>2 DEF DashProc
<1>8. /\ q.begun = proc.begun /\ q.asker = proc.asker /\ q.at = [proc.at EXCEPT ![s] = "put"]
      /\ q.sent = [proc.sent EXCEPT ![s] = n] /\ q.say = [proc.say EXCEPT ![s] = y]
  BY <1>5, <1>6 DEF DashProc
<1> HIDE DEF q
<1>9. \A t \in Scans : /\ q.at[t] = IF t = s THEN "put" ELSE proc.at[t]
                       /\ q.sent[t] = IF t = s THEN n ELSE proc.sent[t]
                       /\ q.say[t] = IF t = s THEN y ELSE proc.say[t]
  BY <1>8, DashFields
<1> QED
  BY <1>1, <1>4, <1>7, <1>8, <1>9 DEF q

LEMMA DashSetRowFact ==
  ASSUME DashTyped, NEW s \in Scans, NEW r \in DashRowStatus, Dashboard!SetRow(s, r)
  PROVE  /\ db' \in DashDb /\ db'.runs = db.runs
         /\ \A t \in Scans : db'.row[t] = IF t = s /\ ~Dashboard!Gone(s) THEN r ELSE db.row[t]
  BY DEF DashTyped, DashDb, Dashboard!SetRow, Dashboard!Gone

LEMMA DashEndRunFact ==
  ASSUME DashTyped, NEW s \in Scans, NEW r \in {"completed", "failed"}, Dashboard!EndRun(s, r)
  PROVE  /\ db' \in DashDb /\ db'.row = db.row /\ \A t \in Scans : t # s => db'.runs[t] = db.runs[t]
         /\ db.runs[s] = <<>> => db'.runs[s] = <<>>
         /\ Len(db'.runs[s]) = Len(db.runs[s])
         /\ \A i \in 1 .. Len(db.runs[s]) :
              db'.runs[s][i] = "running" => i # Len(db.runs[s]) /\ db.runs[s][i] = "running"
<1>1. PICK old \in Seq({"running", "completed", "failed"}) : old = db.runs[s]
  BY DashFields DEF DashRuns
<1>2. PICK new : new = IF old = <<>> THEN old ELSE [old EXCEPT ![Len(old)] = r]
  OBVIOUS
<1>3. db' = [db EXCEPT !.runs[s] = new]
  BY <1>1, <1>2 DEF Dashboard!EndRun
<1>4. /\ new \in DashRuns /\ Len(new) = Len(old) /\ (old = <<>> => new = <<>>)
      /\ \A i \in 1 .. Len(old) : new[i] = "running" => i # Len(old) /\ old[i] = "running"
  <2>1. CASE old = <<>>
    BY <1>2, <2>1 DEF DashRuns
  <2>2. CASE old # <<>>
    <3>1. new = [old EXCEPT ![Len(old)] = r] /\ Len(old) \in 1 .. Len(old)
      BY <1>2, <2>2
    <3>2. \A i \in 1 .. Len(old) : new[i] = IF i = Len(old) THEN r ELSE old[i]
      BY <3>1
    <3>3. new \in Seq({"running", "completed", "failed"}) /\ Len(new) = Len(old)
      BY <3>1
    <3> QED
      BY <2>2, <3>2, <3>3 DEF DashRuns
  <2> QED
    BY <2>1, <2>2
<1>5. db' \in DashDb /\ db'.row = db.row /\ db'.runs = [db.runs EXCEPT ![s] = new]
  <2>1. db \in DashDb /\ [db.runs EXCEPT ![s] = new] \in [Scans -> DashRuns]
    BY <1>4, DashFields DEF DashTyped
  <2>2. db'.runs = [db.runs EXCEPT ![s] = new] /\ db'.row = db.row
    BY <1>3, <2>1 DEF DashDb
  <2> QED
    BY <1>3, <2>1, <2>2 DEF DashDb
<1>6. \A t \in Scans : db'.runs[t] = IF t = s THEN new ELSE db.runs[t]
  BY <1>5, DashFields
<1>7. db.runs[s] = old /\ db'.runs[s] = new /\ \A t \in Scans : t # s => db'.runs[t] = db.runs[t]
  BY <1>1, <1>6
<1> QED
  BY <1>4, <1>5, <1>7

\* Scans whose thread, rows and flags a step leaves.
LEMMA DashSettledElsewhere ==
  ASSUME NEW t \in Scans, DashSettled(t),
         proc'.at[t] = proc.at[t], proc'.say[t] = proc.say[t], proc'.begun[t] = proc.begun[t],
         db'.row[t] = db.row[t], db'.runs[t] = db.runs[t],
         t \in mem.flag => t \in mem'.flag, t \in hist'.heeded => t \in hist.heeded,
         hist'.stuck[t] = hist.stuck[t], t \in hist.unclosed => t \in hist'.unclosed
  PROVE  DashSettled(t)'
<1>1. DashPending(t)' = DashPending(t) /\ DashWhere(t)' = DashWhere(t)
  BY DEF DashPending, DashWhere
<1>2. DashFits(DashWhere(t), db.row[t], db.runs[t], hist.stuck[t], t \in hist.unclosed, proc.begun[t] = NTools(t))
  BY DEF DashSettled
<1>3. DashFits(DashWhere(t), db.row[t], db.runs[t], hist'.stuck[t], t \in hist'.unclosed, proc.begun[t] = NTools(t))
  BY <1>2 DEF DashFits
<1> QED
  BY <1>1, <1>3 DEF DashSettled

\* The browser's view when no message is sent or read.
LEMMA DashToldKept ==
  ASSUME DashTyped, DashTold, mem'.channel = mem.channel, hist'.seen = hist.seen, proc'.sent = proc.sent,
         \A s \in Scans : /\ DashPending(s)' => DashPending(s) /\ proc'.say[s] = proc.say[s]
                          /\ proc.at[s] \in {"finally", "over"} => proc'.at[s] \in {"finally", "over"}
                          /\ proc.at[s] \in {"finally", "over"} \/ DashPending(s) => db'.row[s] \in {"none", db.row[s]}
  PROVE  DashTold'
<1>1. \A m \in DashMessage : DashOlder(m) => DashOlder(m)'
  BY DEF DashOlder, DashMessage
<1>2. \A i \in 1 .. Len(mem.channel) : mem.channel[i] \in DashMessage
  BY DashFields
<1>3. \A s \in Scans : hist.seen[s] \in DashMessage
  BY DashFields
<1>4. \A i \in 1 .. Len(mem'.channel) : DashOlder(mem.channel[i])'
  BY <1>1, <1>2 DEF DashTold, DashOlder, DashPending
<1>5. \A s \in Scans : hist'.seen[s].scan = s /\ DashOlder(hist.seen[s])'
  BY <1>1, <1>3 DEF DashTold, DashOlder, DashPending
<1>6. \A s \in Scans : DashPending(s)' /\ proc'.say[s].status \in Dashboard!Final =>
       proc'.say[s].next = "finally" /\ db'.row[s] \in {"none", proc'.say[s].status}
  BY DEF DashTold
<1> QED
  BY <1>4, <1>5, <1>6 DEF DashTold, DashOlder, DashPending

\* A thread that goes from one point to another, and broadcasts at neither.
LEMMA DashGoesStep ==
  ASSUME DashInv, NEW s \in Scans, NEW p \in DashPoints \ {"put", "evict", "reput"}, ~DashPending(s), Dashboard!Goto(s, p),
         proc.at[s] \in {"finally", "over"} => p \in {"finally", "over"} /\ db'.row[s] = db.row[s],
         db' \in DashDb, mem' \in DashMem, hist' \in DashHist,
         \A t \in Scans : t # s => db'.row[t] = db.row[t] /\ db'.runs[t] = db.runs[t],
         mem'.channel = mem.channel, mem.flag \ {s} \subseteq mem'.flag,
         hist'.seen = hist.seen, hist'.heeded = hist.heeded,
         \A t \in Scans : t # s => hist'.stuck[t] = hist.stuck[t] /\ (t \in hist.unclosed => t \in hist'.unclosed),
         s \in mem.flag => s \in mem'.flag \/ p = "over", proc.at[s] = "over" => p = "over",
         DashFits(p, db'.row[s], db'.runs[s], hist'.stuck[s], s \in hist'.unclosed, proc.begun[s] = NTools(s))
  PROVE  DashInv'
<1>1. DashTyped
  BY DEF DashInv
<1>2. /\ proc' \in DashProc /\ proc'.say = proc.say /\ proc'.begun = proc.begun /\ proc'.sent = proc.sent
      /\ \A t \in Scans : proc'.at[t] = IF t = s THEN p ELSE proc.at[t]
  BY <1>1, DashGoto
<1>3. DashTyped'
  BY <1>2 DEF DashTyped
<1>4. ~DashPending(s)' /\ DashWhere(s)' = p
  <2>1. ~DashPending(s)'
    BY <1>2 DEF DashPending
  <2> QED
    BY <1>2, <2>1 DEF DashWhere
<1>5. DashSettled(s)'
  <2>1. s \in hist.heeded => proc.begun[s] < NTools(s) /\ (s \in mem.flag \/ proc.at[s] = "over")
    BY DEF DashInv, DashSettled
  <2> QED
    BY <1>2, <1>4, <2>1 DEF DashSettled
<1>6. ASSUME NEW t \in Scans, t # s PROVE DashSettled(t)'
  <2>1. DashSettled(t)
    BY DEF DashInv
  <2> QED
    BY <1>2, <1>6, <2>1, DashSettledElsewhere
<1>7. DashTold'
  <2>1. \A t \in Scans : t # s => DashPending(t)' = DashPending(t)
    BY <1>2 DEF DashPending
  <2> QED
    BY <1>1, <1>2, <1>4, <2>1, DashToldKept DEF DashInv
<1> QED
  BY <1>3, <1>5, <1>6, <1>7 DEF DashInv

\* A thread that begins to broadcast and will go on at p.
LEMMA DashSaysStep ==
  ASSUME DashInv, NEW s \in Scans, NEW p \in DashNexts \ {"over"}, NEW v \in DashSaid,
         v \in Dashboard!Final => p = "finally" /\ db'.row[s] \in {"none", v},
         ~DashPending(s), proc.at[s] \notin {"finally", "over"},
         proc' \in DashProc,
         \A t \in Scans : /\ proc'.at[t] = IF t = s THEN "put" ELSE proc.at[t]
                          /\ proc'.sent[t] = IF t = s THEN proc.sent[s] + 1 ELSE proc.sent[t]
                          /\ proc'.say[t] = IF t = s THEN [status |-> v, next |-> p] ELSE proc.say[t]
                          /\ t # s => proc'.begun[t] = proc.begun[t],
         db' \in DashDb, UNCHANGED <<mem, hist>>,
         \A t \in Scans : t # s => db'.row[t] = db.row[t] /\ db'.runs[t] = db.runs[t],
         s \in hist.heeded => proc'.begun[s] = proc.begun[s],
         DashFits(p, db'.row[s], db'.runs[s], hist.stuck[s], s \in hist.unclosed, proc'.begun[s] = NTools(s))
  PROVE  DashInv'
<1>1. DashTyped /\ DashTyped'
  BY DEF DashInv, DashTyped
<1>2. DashPending(s)' /\ DashWhere(s)' = p
  <2>1. DashPending(s)'
    BY DEF DashPending
  <2> QED
    BY <2>1 DEF DashWhere
<1>3. DashSettled(s)'
  <2>1. s \in hist.heeded => proc.begun[s] < NTools(s) /\ s \in mem.flag
    BY DEF DashInv, DashSettled
  <2> QED
    BY <1>2, <2>1 DEF DashSettled
<1>4. ASSUME NEW t \in Scans, t # s PROVE DashSettled(t)'
  <2>1. DashSettled(t)
    BY DEF DashInv
  <2> QED
    BY <1>4, <2>1, DashSettledElsewhere
<1>5. \A m \in DashMessage : DashOlder(m) => DashOlder(m)'
  <2> SUFFICES ASSUME NEW m \in DashMessage, DashOlder(m) PROVE DashOlder(m)'
    OBVIOUS
  <2>1. m.scan \in Scans /\ m.n \in Nat /\ proc.sent[s] \in Nat
    BY <1>1, DashFields DEF DashMessage
  <2>2. CASE m.scan = s
    <3>1. m.n <= proc.sent[s] /\ m.status \notin Dashboard!Final
      BY <2>2 DEF DashOlder
    <3>2. proc'.sent[s] = proc.sent[s] + 1
      OBVIOUS
    <3> QED
      BY <2>1, <2>2, <3>1, <3>2 DEF DashOlder
  <2>3. CASE m.scan # s
    <3>1. DashPending(m.scan)' = DashPending(m.scan)
      BY <2>1, <2>3 DEF DashPending
    <3> QED
      BY <2>1, <2>3, <3>1 DEF DashOlder
  <2> QED
    BY <2>2, <2>3
<1>6. DashTold'
  <2>1. \A i \in 1 .. Len(mem.channel) : mem.channel[i] \in DashMessage
    BY <1>1, DashFields
  <2>2. \A t \in Scans : hist.seen[t] \in DashMessage
    BY <1>1, DashFields
  <2>3. DashTold
    BY DEF DashInv
  <2>4. \A i \in 1 .. Len(mem'.channel) : DashOlder(mem.channel[i])'
    BY <1>5, <2>1, <2>3, SMTT(40) DEF DashTold, DashOlder, DashPending
  <2>5. \A t \in Scans : hist'.seen[t].scan = t /\ DashOlder(hist.seen[t])'
    BY <1>5, <2>2, <2>3 DEF DashTold, DashOlder, DashPending
  <2>6. \A t \in Scans : DashPending(t)' /\ proc'.say[t].status \in Dashboard!Final =>
       proc'.say[t].next = "finally" /\ db'.row[t] \in {"none", proc'.say[t].status}
    <3>1. \A t \in Scans : t # s => DashPending(t)' = DashPending(t)
      BY DEF DashPending
    <3> QED
      BY <2>3, <3>1 DEF DashTold
  <2> QED
    BY <2>3, <2>4, <2>5, <2>6 DEF DashTold, DashOlder, DashPending
<1> QED
  BY <1>1, <1>3, <1>4, <1>6 DEF DashInv

\* What a step of the broadcasts leaves of the other scans and the rows.
LEMMA DashPutsElsewhere ==
  ASSUME DashInv, NEW s \in Scans, NEW p \in DashPoints, Dashboard!Goto(s, p), UNCHANGED <<db, hist>>, mem'.flag = mem.flag,
         DashPending(s), p = proc.say[s].next \/ p \in {"put", "evict", "reput"}
  PROVE  /\ \A t \in Scans : DashSettled(t)'
         /\ proc' \in DashProc /\ proc'.say = proc.say /\ proc'.sent = proc.sent
         /\ \A t \in Scans : proc'.at[t] = IF t = s THEN p ELSE proc.at[t]
<1>1. DashTyped
  BY DEF DashInv
<1>2. /\ proc' \in DashProc /\ proc'.say = proc.say /\ proc'.begun = proc.begun /\ proc'.sent = proc.sent
      /\ \A t \in Scans : proc'.at[t] = IF t = s THEN p ELSE proc.at[t]
  BY <1>1, DashGoto
<1>3. ASSUME NEW t \in Scans, t # s PROVE DashSettled(t)'
  <2>1. DashSettled(t)
    BY DEF DashInv
  <2> QED
    BY <1>2, <1>3, <2>1, DashSettledElsewhere
<1>4. DashSettled(s)'
  <2>1. DashSettled(s)
    BY DEF DashInv
  <2>2. proc.say[s].next \in DashNexts
    BY <1>1, DashFields DEF DashSay
  <2>3. DashWhere(s) = proc.say[s].next /\ proc.at[s] # "over"
    BY DEF DashWhere, DashPending
  <2>4. DashWhere(s)' = DashWhere(s)
    <3>1. CASE p \in {"put", "evict", "reput"}
      BY <1>2, <2>3, <3>1 DEF DashWhere, DashPending
    <3>2. CASE p = proc.say[s].next
      <4>1. ~DashPending(s)'
        BY <1>2, <2>2, <3>2 DEF DashNexts, DashPending
      <4> QED
        BY <1>2, <2>3, <3>2, <4>1 DEF DashWhere
    <3> QED
      BY <3>1, <3>2
  <2> QED
    BY <1>2, <2>1, <2>3, <2>4 DEF DashSettled
<1> QED
  BY <1>2, <1>3, <1>4

\* The broadcast is over: its message is the last in the queue, or was given up.
LEMMA DashDoneStep ==
  ASSUME DashInv, NEW s \in Scans, DashPending(s), Dashboard!Done(s), UNCHANGED <<db, hist>>,
         \/ mem' = mem \/ mem' = [mem EXCEPT !.channel = Append(@, Dashboard!Message(s))]
  PROVE  DashInv'
<1>1. DashTyped /\ DashTold
  BY DEF DashInv
<1>2. PICK p \in DashNexts : p = proc.say[s].next /\ Dashboard!Goto(s, p)
  BY <1>1, DashFields DEF Dashboard!Done, DashSay
<1>3. p \in DashPoints
  BY DEF DashNexts, DashPoints
<1>4. PICK m \in DashMessage : m = Dashboard!Message(s)
  <2>1. proc.say[s].status \in DashSaid /\ proc.sent[s] \in Nat
    BY <1>1, DashFields DEF DashSay
  <2> QED
    BY <2>1 DEF Dashboard!Message, DashMessage
<1>5. mem' \in DashMem /\ mem'.flag = mem.flag
      /\ (mem'.channel = mem.channel \/ mem'.channel = Append(mem.channel, m))
  <2>1. Append(mem.channel, m) \in Seq(DashMessage)
    BY <1>1, DashFields
  <2>2. mem' = mem \/ mem' = [mem EXCEPT !.channel = Append(mem.channel, m)]
    BY <1>4
  <2> QED
    BY <1>1, <2>1, <2>2 DEF DashTyped, DashMem
<1>6. /\ \A t \in Scans : DashSettled(t)'
      /\ proc' \in DashProc /\ proc'.say = proc.say /\ proc'.sent = proc.sent
      /\ \A t \in Scans : proc'.at[t] = IF t = s THEN p ELSE proc.at[t]
  BY <1>2, <1>3, <1>5, DashPutsElsewhere
<1>7. ~DashPending(s)' /\ \A t \in Scans : t # s => DashPending(t)' = DashPending(t)
  BY <1>6 DEF DashPending, DashNexts
<1>8. proc.at[s] \notin {"finally", "over"}
  BY DEF DashPending
<1>9. ASSUME NEW x \in DashMessage, DashOlder(x)
      PROVE  DashOlder(x)' /\ (x.scan = s => x.n < m.n)
  <2>1. x.scan \in Scans /\ m.n = proc.sent[s]
    BY <1>4 DEF DashMessage, Dashboard!Message
  <2> QED
    BY <1>6, <1>7, <1>8, <1>9, <2>1 DEF DashOlder
<1>10. DashOlder(m)'
  <2>1. m.scan = s /\ m.n = proc.sent[s] /\ m.status = proc.say[s].status /\ proc.sent[s] \in Nat
    BY <1>1, <1>4, DashFields DEF Dashboard!Message
  <2>2. m.status \in Dashboard!Final => p = "finally" /\ db.row[s] \in {"none", m.status}
    BY <1>1, <1>2, <2>1 DEF DashTold
  <2> QED
    BY <1>6, <1>7, <2>1, <2>2 DEF DashOlder
<1>11. PICK c \in Seq(DashMessage) : c = mem.channel
  BY <1>1, DashFields
<1>12. \A i \in 1 .. Len(c) : DashOlder(c[i]) /\ hist.seen[c[i].scan].n < c[i].n
  BY <1>1, <1>11 DEF DashTold
<1>13. \A i, j \in 1 .. Len(c) : i < j /\ c[i].scan = c[j].scan => c[i].n < c[j].n
  BY <1>1, <1>11 DEF DashTold
<1>14. \A t \in Scans : hist.seen[t].scan = t /\ hist.seen[t] \in DashMessage /\ DashOlder(hist.seen[t])
  BY <1>1, DashFields DEF DashTold
<1>15. PICK d \in Seq(DashMessage) : d = mem'.channel
  BY <1>5 DEF DashMem
<1>16. ASSUME NEW i \in 1 .. Len(d)
       PROVE  \/ i \in 1 .. Len(c) /\ d[i] = c[i]
              \/ i = Len(c) + 1 /\ d[i] = m
  BY <1>5, <1>11, <1>15, <1>16
<1>17. \A i \in 1 .. Len(d) : d[i] \in DashMessage /\ DashOlder(d[i])' /\ hist.seen[d[i].scan].n < d[i].n
  <2> SUFFICES ASSUME NEW i \in 1 .. Len(d)
      PROVE  d[i] \in DashMessage /\ DashOlder(d[i])' /\ hist.seen[d[i].scan].n < d[i].n
    OBVIOUS
  <2>1. CASE i \in 1 .. Len(c) /\ d[i] = c[i]
    BY <1>9, <1>12, <2>1
  <2>2. CASE i = Len(c) + 1 /\ d[i] = m
    <3>1. m.scan = s
      BY <1>4 DEF Dashboard!Message
    <3> QED
      BY <1>9, <1>10, <1>14, <2>2, <3>1
  <2> QED
    BY <1>16, <2>1, <2>2
<1>18. \A i, j \in 1 .. Len(d) : i < j /\ d[i].scan = d[j].scan => d[i].n < d[j].n
  <2> SUFFICES ASSUME NEW i \in 1 .. Len(d), NEW j \in 1 .. Len(d), i < j, d[i].scan = d[j].scan PROVE d[i].n < d[j].n
    OBVIOUS
  <2>1. i \in 1 .. Len(c) /\ d[i] = c[i]
    BY <1>16
  <2>2. CASE j \in 1 .. Len(c) /\ d[j] = c[j]
    BY <1>13, <2>1, <2>2
  <2>3. CASE j = Len(c) + 1 /\ d[j] = m
    <3>1. m.scan = s
      BY <1>4 DEF Dashboard!Message
    <3>2. c[i] \in DashMessage /\ DashOlder(c[i])
      BY <1>12, <2>1
    <3> QED
      BY <1>9, <2>1, <2>3, <3>1, <3>2
  <2> QED
    BY <1>16, <2>2, <2>3
<1>19. \A t \in Scans : DashOlder(hist.seen[t])'
  BY <1>9, <1>14 DEF DashOlder, DashPending
<1>20. \A t \in Scans : DashPending(t)' /\ proc'.say[t].status \in Dashboard!Final =>
       proc'.say[t].next = "finally" /\ db'.row[t] \in {"none", proc'.say[t].status}
  BY <1>1, <1>6, <1>7 DEF DashTold
<1>21. DashTold'
  BY <1>14, <1>15, <1>17, <1>18, <1>19, <1>20 DEF DashTold, DashOlder, DashPending
<1> QED
  BY <1>1, <1>5, <1>6, <1>21 DEF DashInv, DashTyped

\* The channel loses its oldest message.
LEMMA DashTailTold ==
  ASSUME DashTyped, DashTold, NEW c, c = mem.channel, c # <<>>, NEW d, d = Tail(c)
  PROVE  /\ d \in Seq(DashMessage) /\ Head(c) \in DashMessage /\ DashOlder(Head(c))
         /\ hist.seen[Head(c).scan].n < Head(c).n
         /\ \A i \in 1 .. Len(d) : /\ d[i] \in DashMessage /\ DashOlder(d[i]) /\ hist.seen[d[i].scan].n < d[i].n
                                   /\ d[i].scan = Head(c).scan => Head(c).n < d[i].n
         /\ \A i, j \in 1 .. Len(d) : i < j /\ d[i].scan = d[j].scan => d[i].n < d[j].n
<1>1. c \in Seq(DashMessage)
  BY DashFields
<1>2. \A i \in 1 .. Len(c) : DashOlder(c[i]) /\ hist.seen[c[i].scan].n < c[i].n
  BY DEF DashTold
<1>3. \A i, j \in 1 .. Len(c) : i < j /\ c[i].scan = c[j].scan => c[i].n < c[j].n
  BY DEF DashTold
<1>4. d \in Seq(DashMessage) /\ 1 \in 1 .. Len(c) /\ Head(c) = c[1] /\ c[1] \in DashMessage
  BY <1>1
<1>5. \A i \in 1 .. Len(d) : d[i] = c[i + 1] /\ i + 1 \in 1 .. Len(c) /\ 1 < i + 1 /\ d[i] \in DashMessage
  BY <1>1
<1>6. \A i, j \in 1 .. Len(d) : i < j => i + 1 < j + 1
  OBVIOUS
<1>7. \A i \in 1 .. Len(d) : /\ DashOlder(d[i]) /\ hist.seen[d[i].scan].n < d[i].n
                             /\ d[i].scan = Head(c).scan => Head(c).n < d[i].n
  <2> SUFFICES ASSUME NEW i \in 1 .. Len(d)
      PROVE  /\ DashOlder(d[i]) /\ hist.seen[d[i].scan].n < d[i].n
             /\ d[i].scan = Head(c).scan => Head(c).n < d[i].n
    OBVIOUS
  <2>1. DashOlder(d[i]) /\ hist.seen[d[i].scan].n < d[i].n
    BY <1>2, <1>5
  <2>2. PICK k \in 1 .. Len(c) : 1 < k /\ d[i] = c[k]
    BY <1>5
  <2>3. c[1].scan = c[k].scan => c[1].n < c[k].n
    BY <1>3, <1>4, <2>2
  <2>4. PICK h : h = Head(c) /\ h = c[1]
    BY <1>4
  <2>5. d[i].scan = h.scan => h.n < d[i].n
    BY <2>2, <2>3, <2>4
  <2>6. d[i].scan = Head(c).scan => Head(c).n < d[i].n
    BY <2>4, <2>5
  <2> QED
    BY <2>1, <2>6
<1>8. \A i, j \in 1 .. Len(d) : i < j /\ d[i].scan = d[j].scan => d[i].n < d[j].n
  <2> SUFFICES ASSUME NEW i \in 1 .. Len(d), NEW j \in 1 .. Len(d), i < j, d[i].scan = d[j].scan
      PROVE  d[i].n < d[j].n
    OBVIOUS
  <2>1. /\ i + 1 \in 1 .. Len(c) /\ j + 1 \in 1 .. Len(c) /\ i + 1 < j + 1
        /\ d[i] = c[i + 1] /\ d[j] = c[j + 1]
    BY <1>5, <1>6
  <2>2. PICK k, l \in 1 .. Len(c) : k < l /\ d[i] = c[k] /\ d[j] = c[l]
    BY <2>1
  <2> QED
    BY <1>3, <2>2
<1> QED
  BY <1>2, <1>4, <1>5, <1>7, <1>8

LEMMA DashReceiveStep == ASSUME DashInv, Dashboard!Receive PROVE DashInv'
<1>1. DashTyped /\ DashTold /\ UNCHANGED <<db, proc>> /\ mem.channel # <<>>
  BY DEF DashInv, Dashboard!Receive
<1>2. PICK c, d, h : c = mem.channel /\ d = Tail(c) /\ h = Head(c)
  OBVIOUS
<1>3. /\ d \in Seq(DashMessage) /\ h \in DashMessage /\ DashOlder(h) /\ hist.seen[h.scan].n < h.n
      /\ \A i \in 1 .. Len(d) : /\ d[i] \in DashMessage /\ DashOlder(d[i]) /\ hist.seen[d[i].scan].n < d[i].n
                                /\ d[i].scan = h.scan => h.n < d[i].n
      /\ \A i, j \in 1 .. Len(d) : i < j /\ d[i].scan = d[j].scan => d[i].n < d[j].n
  BY <1>1, <1>2, DashTailTold, ZenonT(40)
<1>4. mem' = [mem EXCEPT !.channel = d] /\ hist' = [hist EXCEPT !.seen[h.scan] = h] /\ h.scan \in Scans
  BY <1>2, <1>3 DEF Dashboard!Receive, DashMessage
<1>5. mem' \in DashMem /\ mem'.channel = d /\ mem'.flag = mem.flag
  BY <1>1, <1>3, <1>4 DEF DashTyped, DashMem
<1>6. /\ hist' \in DashHist /\ hist'.heeded = hist.heeded /\ hist'.stuck = hist.stuck /\ hist'.unclosed = hist.unclosed
      /\ \A t \in Scans : hist'.seen[t] = IF t = h.scan THEN h ELSE hist.seen[t]
  BY <1>1, <1>3, <1>4 DEF DashTyped, DashHist
<1>7. \A t \in Scans : DashSettled(t)'
  BY <1>1, <1>5, <1>6 DEF DashInv, DashSettled, DashWhere, DashPending
<1>8. \A t \in Scans : hist.seen[t].scan = t /\ DashOlder(hist.seen[t])
  BY <1>1 DEF DashTold
<1>9. \A t \in Scans : hist'.seen[t].scan = t /\ DashOlder(hist.seen[t])'
  BY <1>1, <1>3, <1>6, <1>8 DEF DashOlder, DashPending
<1>10. \A i \in 1 .. Len(d) : DashOlder(d[i])' /\ d[i].scan \in Scans
  BY <1>1, <1>3 DEF DashOlder, DashPending, DashMessage
<1>11. \A i \in 1 .. Len(d) : hist'.seen[d[i].scan].n < d[i].n
  BY <1>3, <1>6, <1>10
<1>12. \A t \in Scans : DashPending(t)' /\ proc'.say[t].status \in Dashboard!Final =>
       proc'.say[t].next = "finally" /\ db'.row[t] \in {"none", proc'.say[t].status}
  BY <1>1 DEF DashTold, DashPending
<1>13. DashTold'
  BY <1>3, <1>5, <1>9, <1>10, <1>11, <1>12 DEF DashTold, DashOlder, DashPending
<1> QED
  BY <1>1, <1>5, <1>6, <1>7, <1>13 DEF DashInv, DashTyped

LEMMA DashPutStep == ASSUME DashInv, NEW s \in Scans, Dashboard!Put(s) \/ Dashboard!Reput(s) PROVE DashInv'
<1>1. DashPending(s) /\ UNCHANGED <<db, hist>>
  BY DEF Dashboard!Put, Dashboard!Reput, Dashboard!At, DashPending
<1>2. CASE Dashboard!Done(s)
  BY <1>1, <1>2, DashDoneStep DEF Dashboard!Put, Dashboard!Reput
<1>3. CASE ~Dashboard!Done(s)
  <2>1. Dashboard!Goto(s, "evict") /\ mem' = mem /\ "evict" \in DashPoints
    BY <1>3 DEF Dashboard!Put, Dashboard!Reput, DashPoints
  <2>2. /\ \A t \in Scans : DashSettled(t)'
        /\ proc' \in DashProc /\ proc'.say = proc.say /\ proc'.sent = proc.sent
        /\ \A t \in Scans : proc'.at[t] = IF t = s THEN "evict" ELSE proc.at[t]
    BY <1>1, <2>1, DashPutsElsewhere
  <2>3. \A t \in Scans : /\ DashPending(t)' => DashPending(t) /\ proc'.say[t] = proc.say[t]
                         /\ proc.at[t] \in {"finally", "over"} => proc'.at[t] \in {"finally", "over"}
    BY <1>1, <2>2 DEF DashPending
  <2>4. DashTold'
    BY <1>1, <2>1, <2>2, <2>3, DashToldKept DEF DashInv
  <2> QED
    BY <1>1, <2>1, <2>2, <2>4 DEF DashInv, DashTyped
<1> QED
  BY <1>2, <1>3

LEMMA DashEvictStep == ASSUME DashInv, NEW s \in Scans, Dashboard!Evict(s) PROVE DashInv'
<1>1. DashPending(s) /\ UNCHANGED <<db, hist>> /\ DashTyped /\ DashTold
  BY DEF Dashboard!Evict, Dashboard!At, DashPending, DashInv
<1>2. CASE mem.channel = <<>>
  BY <1>1, <1>2, DashDoneStep DEF Dashboard!Evict
<1>3. CASE mem.channel # <<>>
  <2>1. Dashboard!Goto(s, "reput") /\ mem' = [mem EXCEPT !.channel = Tail(@)] /\ "reput" \in DashPoints
    BY <1>3 DEF Dashboard!Evict, DashPoints
  <2>2. PICK c, d : c = mem.channel /\ d = Tail(c)
    OBVIOUS
  <2>3. /\ d \in Seq(DashMessage)
        /\ \A i \in 1 .. Len(d) : d[i] \in DashMessage /\ DashOlder(d[i]) /\ hist.seen[d[i].scan].n < d[i].n
        /\ \A i, j \in 1 .. Len(d) : i < j /\ d[i].scan = d[j].scan => d[i].n < d[j].n
    BY <1>1, <1>3, <2>2, DashTailTold, ZenonT(40)
  <2>4. mem' \in DashMem /\ mem'.channel = d /\ mem'.flag = mem.flag
    BY <1>1, <2>1, <2>2, <2>3 DEF DashTyped, DashMem
  <2>5. /\ \A t \in Scans : DashSettled(t)'
        /\ proc' \in DashProc /\ proc'.say = proc.say /\ proc'.sent = proc.sent
        /\ \A t \in Scans : proc'.at[t] = IF t = s THEN "reput" ELSE proc.at[t]
    BY <1>1, <2>1, <2>4, DashPutsElsewhere
  <2>6. \A t \in Scans : DashPending(t)' = DashPending(t) /\ (proc'.at[t] \in {"finally", "over"}) = (proc.at[t] \in {"finally", "over"})
    BY <1>1, <2>5 DEF DashPending
  <2>7. \A m \in DashMessage : DashOlder(m) => DashOlder(m)'
    BY <1>1, <2>5, <2>6 DEF DashOlder, DashMessage
  <2>8. \A t \in Scans : hist.seen[t].scan = t /\ hist.seen[t] \in DashMessage /\ DashOlder(hist.seen[t])
    BY <1>1, DashFields DEF DashTold
  <2>9. \A t \in Scans : DashOlder(hist.seen[t])'
    BY <1>1, <2>7, <2>8 DEF DashOlder, DashPending
  <2>10. \A i \in 1 .. Len(d) : DashOlder(d[i])'
    BY <2>3, <2>7
  <2>11. \A t \in Scans : DashPending(t)' /\ proc'.say[t].status \in Dashboard!Final =>
       proc'.say[t].next = "finally" /\ db'.row[t] \in {"none", proc'.say[t].status}
    BY <1>1, <2>5, <2>6 DEF DashTold
  <2>12. DashTold'
    BY <1>1, <2>3, <2>4, <2>8, <2>9, <2>10, <2>11 DEF DashTold, DashOlder, DashPending
  <2> QED
    BY <1>1, <2>4, <2>5, <2>12 DEF DashInv, DashTyped
<1> QED
  BY <1>2, <1>3

\* Where a thread is that does not broadcast.
LEMMA DashAt ==
  ASSUME DashInv, NEW s \in Scans, NEW p \in DashPoints \ {"put", "evict", "reput"}, Dashboard!At(s, p)
  PROVE  /\ ~DashPending(s) /\ proc.at[s] = p /\ DashTyped
         /\ DashFits(p, db.row[s], db.runs[s], hist.stuck[s], s \in hist.unclosed, proc.begun[s] = NTools(s))
         /\ s \in hist.heeded => proc.begun[s] < NTools(s) /\ (s \in mem.flag \/ p = "over")
<1>1. ~DashPending(s) /\ proc.at[s] = p
  BY DEF Dashboard!At, DashPending
<1>2. DashWhere(s) = p
  BY <1>1 DEF DashWhere
<1> QED
  BY <1>1, <1>2 DEF DashInv, DashSettled

\* A step that goes on and leaves the queue, the flags and the cancels.
LEMMA DashPlainGoes ==
  ASSUME DashInv, NEW s \in Scans, NEW q \in DashPoints \ {"put", "evict", "reput", "finally", "over"}, Dashboard!At(s, q),
         NEW p \in DashPoints \ {"put", "evict", "reput"}, Dashboard!Goto(s, p), db' \in DashDb, UNCHANGED mem,
         \A t \in Scans : t # s => db'.row[t] = db.row[t] /\ db'.runs[t] = db.runs[t],
         hist' \in DashHist, hist'.seen = hist.seen, hist'.heeded = hist.heeded,
         \A t \in Scans : t # s => hist'.stuck[t] = hist.stuck[t] /\ (t \in hist.unclosed => t \in hist'.unclosed),
         DashFits(p, db'.row[s], db'.runs[s], hist'.stuck[s], s \in hist'.unclosed, proc.begun[s] = NTools(s))
  PROVE  DashInv'
<1>1. ~DashPending(s) /\ proc.at[s] = q /\ mem' \in DashMem
  BY DashAt DEF DashTyped
<1> QED
  BY <1>1, DashGoesStep

LEMMA DashCreateStep == ASSUME DashInv, NEW s \in Scans, Dashboard!Create(s) PROVE DashInv'
<1>1. Dashboard!At(s, "none") /\ Dashboard!Goto(s, "created") /\ UNCHANGED <<mem, hist>> /\ db' = [db EXCEPT !.row[s] = "pending"]
      /\ "none" \in DashPoints /\ "created" \in DashPoints
  BY DEF Dashboard!Create, DashPoints
<1>2. DashTyped /\ DashFits("none", db.row[s], db.runs[s], hist.stuck[s], s \in hist.unclosed, proc.begun[s] = NTools(s))
  BY <1>1, DashAt
<1>3. db' \in DashDb /\ db'.runs = db.runs /\ \A t \in Scans : db'.row[t] = IF t = s THEN "pending" ELSE db.row[t]
  BY <1>1, <1>2 DEF DashTyped, DashDb, DashRowStatus
<1>4. DashFits("created", db'.row[s], db'.runs[s], hist.stuck[s], s \in hist.unclosed, proc.begun[s] = NTools(s))
  BY <1>2, <1>3 DEF DashFits
<1> QED
  BY <1>1, <1>2, <1>3, <1>4, DashPlainGoes DEF DashTyped

LEMMA DashLaunchStep == ASSUME DashInv, NEW s \in Scans, Dashboard!Launch(s) PROVE DashInv'
<1>1. Dashboard!At(s, "created") /\ UNCHANGED <<db, mem, hist>> /\ Dashboard!Goto(s, IF Dashboard!Gone(s) THEN "over" ELSE "start")
      /\ "created" \in DashPoints /\ "start" \in DashPoints /\ "over" \in DashPoints
  BY DEF Dashboard!Launch, DashPoints
<1>2. DashTyped /\ DashFits("created", db.row[s], db.runs[s], hist.stuck[s], s \in hist.unclosed, proc.begun[s] = NTools(s))
  BY <1>1, DashAt
<1>3. \A p \in {"over", "start"} : (p = "over" => Dashboard!Gone(s)) => DashFits(p, db.row[s], db.runs[s], hist.stuck[s], s \in hist.unclosed, proc.begun[s] = NTools(s))
  BY <1>2 DEF DashFits, Dashboard!Gone
<1>4. CASE Dashboard!Gone(s)
  BY <1>1, <1>2, <1>3, <1>4, DashPlainGoes DEF DashTyped
<1>5. CASE ~Dashboard!Gone(s)
  BY <1>1, <1>2, <1>3, <1>5, DashPlainGoes DEF DashTyped
<1> QED
  BY <1>4, <1>5

LEMMA DashStartStep == ASSUME DashInv, NEW s \in Scans, Dashboard!Start(s) PROVE DashInv'
<1>1. Dashboard!At(s, "start") /\ Dashboard!SetRow(s, "running") /\ Dashboard!Goto(s, "authorize") /\ UNCHANGED <<mem, hist>>
      /\ "start" \in DashPoints /\ "authorize" \in DashPoints /\ "running" \in DashRowStatus
  BY DEF Dashboard!Start, DashPoints, DashRowStatus
<1>2. DashTyped /\ DashFits("start", db.row[s], db.runs[s], hist.stuck[s], s \in hist.unclosed, proc.begun[s] = NTools(s))
  BY <1>1, DashAt
<1>3. /\ db' \in DashDb /\ db'.runs = db.runs
      /\ \A t \in Scans : db'.row[t] = IF t = s /\ ~Dashboard!Gone(s) THEN "running" ELSE db.row[t]
  BY <1>1, <1>2, DashSetRowFact
<1>4. DashFits("authorize", db'.row[s], db'.runs[s], hist.stuck[s], s \in hist.unclosed, proc.begun[s] = NTools(s))
  BY <1>2, <1>3 DEF DashFits, Dashboard!Gone
<1> QED
  BY <1>1, <1>2, <1>3, <1>4, DashPlainGoes DEF DashTyped

LEMMA DashSkippedStep == ASSUME DashInv, NEW s \in Scans, Dashboard!Skipped(s) PROVE DashInv'
<1>1. PICK p \in {"fail", "loop"} : Dashboard!Goto(s, p)
  BY DEF Dashboard!Skipped
<1>2. Dashboard!At(s, "skipped") /\ UNCHANGED <<db, mem, hist>> /\ "skipped" \in DashPoints /\ p \in DashPoints \ {"put", "evict", "reput"}
  BY DEF Dashboard!Skipped, DashPoints
<1>3. DashTyped /\ DashFits("skipped", db.row[s], db.runs[s], hist.stuck[s], s \in hist.unclosed, proc.begun[s] = NTools(s))
  BY <1>2, DashAt
<1>4. DashFits(p, db.row[s], db.runs[s], hist.stuck[s], s \in hist.unclosed, proc.begun[s] = NTools(s))
  BY <1>3 DEF DashFits
<1> QED
  BY <1>1, <1>2, <1>3, <1>4, DashPlainGoes DEF DashTyped

LEMMA DashOpenRunStep == ASSUME DashInv, NEW s \in Scans, Dashboard!OpenRun(s) PROVE DashInv'
<1>1. Dashboard!At(s, "open") /\ UNCHANGED <<mem, hist>> /\ "open" \in DashPoints /\ "tool" \in DashPoints /\ "toolError" \in DashPoints
  BY DEF Dashboard!OpenRun, DashPoints
<1>2. DashTyped /\ DashFits("open", db.row[s], db.runs[s], hist.stuck[s], s \in hist.unclosed, proc.begun[s] = NTools(s))
  BY <1>1, DashAt
<1>3. CASE Dashboard!Gone(s)
  <2>1. Dashboard!Goto(s, "toolError") /\ UNCHANGED db
    BY <1>3 DEF Dashboard!OpenRun
  <2>2. DashFits("toolError", db.row[s], db.runs[s], hist.stuck[s], s \in hist.unclosed, proc.begun[s] = NTools(s))
    BY <1>2 DEF DashFits
  <2> QED
    BY <1>1, <1>2, <2>1, <2>2, DashPlainGoes DEF DashTyped
<1>4. CASE ~Dashboard!Gone(s)
  <2>1. Dashboard!Goto(s, "tool") /\ db' = [db EXCEPT !.runs[s] = Append(@, "running")]
    BY <1>4 DEF Dashboard!OpenRun
  <2>2. PICK old \in DashRuns : old = db.runs[s]
    BY <1>2, DashFields
  <2>3. PICK new \in DashRuns : new = Append(old, "running")
    <3>1. Append(old, "running") \in DashRuns
      BY DEF DashRuns
    <3> QED
      BY <3>1
  <2>4. /\ Len(old) \in Nat /\ Len(new) = Len(old) + 1
        /\ \A i \in 1 .. Len(new) : i = Len(new) \/ (i \in 1 .. Len(old) /\ new[i] = old[i])
    BY <2>3 DEF DashRuns
  <2>5. db' = [db EXCEPT !.runs[s] = new]
    BY <2>1, <2>2, <2>3
  <2>6. [db.runs EXCEPT ![s] = new] \in [Scans -> DashRuns]
    BY <1>2, DashFields
  <2>7. db' \in DashDb /\ db'.row = db.row /\ db'.runs = [db.runs EXCEPT ![s] = new]
    BY <1>2, <2>5, <2>6 DEF DashTyped, DashDb
  <2>8. \A t \in Scans : db'.runs[t] = IF t = s THEN new ELSE db.runs[t]
    BY <1>2, <2>7, DashFields
  <2>9. DashFits("tool", db.row[s], new, hist.stuck[s], s \in hist.unclosed, proc.begun[s] = NTools(s))
    <3>1. s \in hist.unclosed \/ \A i \in 1 .. Len(old) : old[i] # "running"
      BY <1>2, <2>2 DEF DashFits
    <3>2. s \in hist.unclosed \/ \A i \in 1 .. Len(new) : new[i] = "running" => i = Len(new)
      BY <2>4, <3>1
    <3> QED
      BY <1>2, <1>4, <3>2 DEF DashFits, Dashboard!Gone
  <2> QED
    BY <1>1, <1>2, <2>1, <2>7, <2>8, <2>9, DashPlainGoes, SMTT(40) DEF DashTyped
<1> QED
  BY <1>3, <1>4

\* Whatever ends a tool run leaves none running.
LEMMA DashClosedFits ==
  ASSUME DashTyped, NEW s \in Scans, NEW q \in {"closeRun", "runFailed"}, NEW r \in {"completed", "failed"}, Dashboard!EndRun(s, r),
         DashFits(q, db.row[s], db.runs[s], hist.stuck[s], s \in hist.unclosed, proc.begun[s] = NTools(s))
  PROVE  /\ db' \in DashDb /\ \A t \in Scans : t # s => db'.row[t] = db.row[t] /\ db'.runs[t] = db.runs[t]
         /\ \A p \in {"toolError", "progress"} :
              DashFits(p, db'.row[s], db'.runs[s], hist.stuck[s], s \in hist.unclosed, proc.begun[s] = NTools(s))
<1>1. /\ db' \in DashDb /\ db'.row = db.row /\ \A t \in Scans : t # s => db'.runs[t] = db.runs[t]
      /\ db.runs[s] = <<>> => db'.runs[s] = <<>>
      /\ Len(db'.runs[s]) = Len(db.runs[s])
      /\ \A i \in 1 .. Len(db.runs[s]) :
           db'.runs[s][i] = "running" => i # Len(db.runs[s]) /\ db.runs[s][i] = "running"
  BY DashEndRunFact
<1>2. s \in hist.unclosed \/ \A i \in 1 .. Len(db'.runs[s]) : db'.runs[s][i] # "running"
  BY <1>1 DEF DashFits
<1> QED
  BY <1>1, <1>2 DEF DashFits

LEMMA DashClosesRun ==
  ASSUME DashInv, NEW s \in Scans, NEW q \in {"closeRun", "runFailed"}, Dashboard!At(s, q), NEW r \in {"completed", "failed"},
         Dashboard!EndRun(s, r), NEW p \in {"toolError", "progress"}, Dashboard!Goto(s, p), UNCHANGED <<mem, hist>>
  PROVE  DashInv'
<1>1. q \in DashPoints \ {"put", "evict", "reput", "finally", "over"} /\ p \in DashPoints \ {"put", "evict", "reput"}
  BY DEF DashPoints
<1>2. DashTyped /\ DashFits(q, db.row[s], db.runs[s], hist.stuck[s], s \in hist.unclosed, proc.begun[s] = NTools(s))
  BY <1>1, DashAt
<1>3. /\ db' \in DashDb /\ \A t \in Scans : t # s => db'.row[t] = db.row[t] /\ db'.runs[t] = db.runs[t]
      /\ DashFits(p, db'.row[s], db'.runs[s], hist.stuck[s], s \in hist.unclosed, proc.begun[s] = NTools(s))
  BY <1>2, DashClosedFits
<1> QED
  BY <1>1, <1>2, <1>3, DashPlainGoes DEF DashTyped

\* A thread that says how far it is; the rows stay.
LEMMA DashPlainSays ==
  ASSUME DashInv, NEW s \in Scans, NEW q \in DashPoints \ {"put", "evict", "reput", "finally", "over"}, Dashboard!At(s, q),
         NEW p \in DashNexts \ {"over"}, NEW v \in DashSaid,
         v \in Dashboard!Final => p = "finally" /\ db'.row[s] \in {"none", v}, Dashboard!Say(s, v, p),
         db' \in DashDb, UNCHANGED <<mem, hist>>,
         \A t \in Scans : t # s => db'.row[t] = db.row[t] /\ db'.runs[t] = db.runs[t],
         DashFits(p, db'.row[s], db'.runs[s], hist.stuck[s], s \in hist.unclosed, proc.begun[s] = NTools(s))
  PROVE  DashInv'
<1>1. ~DashPending(s) /\ proc.at[s] = q /\ DashTyped
  BY DashAt
<1>2. proc' = Dashboard!Saying(s, v, p)
  BY DEF Dashboard!Say
<1>3. /\ proc' \in DashProc /\ proc'.begun = proc.begun
      /\ \A t \in Scans : /\ proc'.at[t] = IF t = s THEN "put" ELSE proc.at[t]
                          /\ proc'.sent[t] = IF t = s THEN proc.sent[s] + 1 ELSE proc.sent[t]
                          /\ proc'.say[t] = IF t = s THEN [status |-> v, next |-> p] ELSE proc.say[t]
  BY <1>1, <1>2, DashSayingFact
<1> QED
  BY <1>1, <1>3, DashSaysStep

LEMMA DashAuthorizeStep == ASSUME DashInv, NEW s \in Scans, Dashboard!Authorize(s) PROVE DashInv'
<1>1. Dashboard!At(s, "authorize") /\ Dashboard!Say(s, "none", "skipped") /\ UNCHANGED <<db, mem, hist>>
      /\ "authorize" \in DashPoints /\ "skipped" \in DashNexts
  BY DEF Dashboard!Authorize, DashPoints, DashNexts
<1>2. DashTyped /\ DashFits("authorize", db.row[s], db.runs[s], hist.stuck[s], s \in hist.unclosed, proc.begun[s] = NTools(s))
  BY <1>1, DashAt
<1>3. DashFits("skipped", db.row[s], db.runs[s], hist.stuck[s], s \in hist.unclosed, proc.begun[s] = NTools(s))
  BY <1>2 DEF DashFits
<1>4. "none" \in DashSaid /\ "none" \notin Dashboard!Final
  BY DEF DashSaid, Dashboard!Final
<1> QED
  BY <1>1, <1>2, <1>3, <1>4, DashPlainSays DEF DashTyped

\* The verdicts: the row and what is said of it agree.
LEMMA DashVerdictStep ==
  ASSUME DashInv, NEW s \in Scans, NEW q \in {"loop", "complete", "fail"}, Dashboard!At(s, q),
         NEW r \in {"cancelled", "completed", "failed"}, r = "completed" => q = "complete",
         Dashboard!SetRow(s, r), Dashboard!Say(s, r, "finally"), UNCHANGED <<mem, hist>>
  PROVE  DashInv'
<1>1. q \in DashPoints \ {"put", "evict", "reput", "finally", "over"} /\ r \in DashRowStatus /\ "finally" \in DashNexts
  BY DEF DashPoints, DashRowStatus, DashNexts
<1>2. DashTyped /\ DashFits(q, db.row[s], db.runs[s], hist.stuck[s], s \in hist.unclosed, proc.begun[s] = NTools(s))
  BY <1>1, DashAt
<1>3. /\ db' \in DashDb /\ db'.runs = db.runs
      /\ \A t \in Scans : db'.row[t] = IF t = s /\ ~Dashboard!Gone(s) THEN r ELSE db.row[t]
  BY <1>1, <1>2, DashSetRowFact
<1>4. DashFits("finally", db'.row[s], db'.runs[s], hist.stuck[s], s \in hist.unclosed, proc.begun[s] = NTools(s))
  BY <1>2, <1>3 DEF DashFits, Dashboard!Gone
<1>5. r \in DashSaid /\ db'.row[s] \in {"none", r}
  BY <1>2, <1>3 DEF DashSaid, Dashboard!Gone
<1> QED
  BY <1>1, <1>2, <1>3, <1>4, <1>5, DashPlainSays DEF DashTyped

LEMMA DashCheckStep == ASSUME DashInv, NEW s \in Scans, Dashboard!Check(s) PROVE DashInv'
<1>1. Dashboard!At(s, "loop") /\ UNCHANGED <<mem, hist>> /\ "loop" \in DashPoints /\ "open" \in DashNexts
  BY DEF Dashboard!Check, DashPoints, DashNexts
<1>2. CASE s \in mem.flag
  BY <1>1, <1>2, DashVerdictStep DEF Dashboard!Check
<1>3. CASE s \notin mem.flag
  <2>1. proc' = [Dashboard!Saying(s, "none", "open") EXCEPT !.begun[s] = @ + 1] /\ UNCHANGED db
    BY <1>3 DEF Dashboard!Check
  <2>2. /\ ~DashPending(s) /\ proc.at[s] = "loop" /\ DashTyped /\ s \notin hist.heeded
        /\ DashFits("loop", db.row[s], db.runs[s], hist.stuck[s], s \in hist.unclosed, proc.begun[s] = NTools(s))
    BY <1>1, <1>3, DashAt
  <2>3. PICK v \in DashSaid : v = "none"
    BY DEF DashSaid
  <2>4. PICK q : q = Dashboard!Saying(s, v, "open")
    OBVIOUS
  <2>5. /\ q \in DashProc /\ q.begun = proc.begun
        /\ \A t \in Scans : /\ q.at[t] = IF t = s THEN "put" ELSE proc.at[t]
                            /\ q.sent[t] = IF t = s THEN proc.sent[s] + 1 ELSE proc.sent[t]
                            /\ q.say[t] = IF t = s THEN [status |-> v, next |-> "open"] ELSE proc.say[t]
    BY <1>1, <2>2, <2>4, DashSayingFact
  <2>6. PICK n \in Nat : n = q.begun[s] + 1
    BY <2>2, <2>5, DashFields
  <2>7. proc' = [q EXCEPT !.begun[s] = n]
    BY <2>1, <2>3, <2>4, <2>6
  <2>8. /\ proc' \in DashProc /\ proc'.at = q.at /\ proc'.sent = q.sent /\ proc'.say = q.say
        /\ proc'.begun = [q.begun EXCEPT ![s] = n]
    BY <2>5, <2>7 DEF DashProc
  <2>9. \A t \in Scans : t # s => proc'.begun[t] = proc.begun[t]
    BY <2>2, <2>5, <2>8, DashFields
  <2>10. DashFits("open", db'.row[s], db'.runs[s], hist.stuck[s], s \in hist.unclosed, proc'.begun[s] = NTools(s))
    BY <2>1, <2>2 DEF DashFits
  <2>11. db' \in DashDb /\ UNCHANGED <<mem, hist>>
    BY <1>1, <2>1, <2>2 DEF DashTyped
  <2>12. \A t \in Scans : /\ proc'.at[t] = IF t = s THEN "put" ELSE proc.at[t]
                          /\ proc'.sent[t] = IF t = s THEN proc.sent[s] + 1 ELSE proc.sent[t]
                          /\ proc'.say[t] = IF t = s THEN [status |-> v, next |-> "open"] ELSE proc.say[t]
                          /\ t # s => proc'.begun[t] = proc.begun[t]
    BY <2>5, <2>8, <2>9
  <2>13. "open" \in DashNexts \ {"over"} /\ proc.at[s] \notin {"finally", "over"} /\ v \in DashSaid
        /\ v \notin Dashboard!Final /\ (s \in hist.heeded => proc'.begun[s] = proc.begun[s])
    BY <1>1, <2>2, <2>3 DEF Dashboard!Final
  <2>14. \A t \in Scans : t # s => db'.row[t] = db.row[t] /\ db'.runs[t] = db.runs[t]
    BY <2>1
  <2> QED
    BY <2>2, <2>8, <2>10, <2>11, <2>12, <2>13, <2>14, DashSaysStep
<1> QED
  BY <1>2, <1>3

LEMMA DashToolEndsStep ==
  ASSUME DashInv, NEW s \in Scans, Dashboard!ToolEnds(s) \/ Dashboard!CloseRun(s) \/ Dashboard!FailRun(s)
  PROVE  DashInv'
<1>1. UNCHANGED <<mem, hist>> /\ DashTyped
  BY DEF Dashboard!ToolEnds, Dashboard!CloseRun, Dashboard!FailRun, DashInv
<1>2. CASE Dashboard!At(s, "tool") /\ Dashboard!Say(s, "none", "closeRun") /\ UNCHANGED db
  <2>1. "tool" \in DashPoints /\ "closeRun" \in DashNexts
    BY DEF DashPoints, DashNexts
  <2>2. DashFits("tool", db.row[s], db.runs[s], hist.stuck[s], s \in hist.unclosed, proc.begun[s] = NTools(s))
    BY <1>2, <2>1, DashAt
  <2>3. DashFits("closeRun", db.row[s], db.runs[s], hist.stuck[s], s \in hist.unclosed, proc.begun[s] = NTools(s))
    BY <2>2 DEF DashFits
  <2>4. "none" \in DashSaid /\ "none" \notin Dashboard!Final
    BY DEF DashSaid, Dashboard!Final
  <2> QED
    BY <1>1, <1>2, <2>1, <2>3, <2>4, DashPlainSays DEF DashTyped
<1>3. ASSUME NEW p \in {"runFailed", "closeRun"}, Dashboard!At(s, "tool"), Dashboard!Goto(s, p), UNCHANGED db
      PROVE  DashInv'
  <2>1. "tool" \in DashPoints /\ p \in DashPoints \ {"put", "evict", "reput"}
    BY DEF DashPoints
  <2>2. DashFits("tool", db.row[s], db.runs[s], hist.stuck[s], s \in hist.unclosed, proc.begun[s] = NTools(s))
    BY <1>3, <2>1, DashAt
  <2>3. DashFits(p, db.row[s], db.runs[s], hist.stuck[s], s \in hist.unclosed, proc.begun[s] = NTools(s))
    BY <2>2 DEF DashFits
  <2> QED
    BY <1>1, <1>3, <2>1, <2>3, DashPlainGoes DEF DashTyped
<1>4. CASE Dashboard!CloseRun(s)
  BY <1>1, <1>4, DashClosesRun DEF Dashboard!CloseRun
<1>5. CASE Dashboard!FailRun(s)
  BY <1>1, <1>5, DashClosesRun DEF Dashboard!FailRun
<1> QED
  BY <1>2, <1>3, <1>4, <1>5 DEF Dashboard!ToolEnds

LEMMA DashToolErrorStep == ASSUME DashInv, NEW s \in Scans, Dashboard!ToolError(s) \/ Dashboard!Progress(s) PROVE DashInv'
<1>1. PICK q \in {"toolError", "progress"} : Dashboard!At(s, q)
  BY DEF Dashboard!ToolError, Dashboard!Progress
<1>2. UNCHANGED <<db, mem, hist>> /\ q \in DashPoints \ {"put", "evict", "reput", "finally", "over"}
  BY DEF Dashboard!ToolError, Dashboard!Progress, DashPoints
<1>3. DashTyped /\ DashFits(q, db.row[s], db.runs[s], hist.stuck[s], s \in hist.unclosed, proc.begun[s] = NTools(s))
  BY <1>1, <1>2, DashAt
<1>4. CASE Dashboard!Goto(s, "fail")
  <2>1. DashFits("fail", db.row[s], db.runs[s], hist.stuck[s], s \in hist.unclosed, proc.begun[s] = NTools(s)) /\ "fail" \in DashPoints
    BY <1>3 DEF DashFits, DashPoints
  <2> QED
    BY <1>1, <1>2, <1>3, <1>4, <2>1, DashPlainGoes DEF DashTyped
<1>5. ASSUME NEW p \in {"progress", "loop", "complete"}, NEW v \in {"none", "running"}, Dashboard!Say(s, v, p), p = "complete" => proc.begun[s] = NTools(s)
      PROVE  DashInv'
  <2>1. DashFits(p, db.row[s], db.runs[s], hist.stuck[s], s \in hist.unclosed, proc.begun[s] = NTools(s)) /\ p \in DashNexts \ {"over"}
    BY <1>3, <1>5 DEF DashFits, DashNexts
  <2>2. v \in DashSaid /\ v \notin Dashboard!Final
    BY <1>5 DEF DashSaid, Dashboard!Final
  <2> QED
    BY <1>1, <1>2, <1>3, <1>5, <2>1, <2>2, DashPlainSays DEF DashTyped
<1> QED
  BY <1>4, <1>5 DEF Dashboard!ToolError, Dashboard!Progress

LEMMA DashCompleteStep == ASSUME DashInv, NEW s \in Scans, Dashboard!Complete(s) PROVE DashInv'
  BY DashVerdictStep DEF Dashboard!Complete

LEMMA DashFailStep == ASSUME DashInv, NEW s \in Scans, Dashboard!Fail(s) PROVE DashInv'
<1>1. CASE Dashboard!Gone(s)
  <2>1. Dashboard!At(s, "fail") /\ Dashboard!Goto(s, "finally") /\ UNCHANGED <<db, mem, hist>> /\ "fail" \in DashPoints /\ "finally" \in DashPoints
    BY <1>1 DEF Dashboard!Fail, DashPoints
  <2>2. DashTyped /\ DashFits("fail", db.row[s], db.runs[s], hist.stuck[s], s \in hist.unclosed, proc.begun[s] = NTools(s))
    BY <2>1, DashAt
  <2>3. DashFits("finally", db.row[s], db.runs[s], hist.stuck[s], s \in hist.unclosed, proc.begun[s] = NTools(s))
    BY <1>1, <2>2 DEF DashFits, Dashboard!Gone
  <2> QED
    BY <2>1, <2>2, <2>3, DashPlainGoes DEF DashTyped
<1>2. CASE ~Dashboard!Gone(s)
  BY <1>2, DashVerdictStep DEF Dashboard!Fail
<1> QED
  BY <1>1, <1>2

LEMMA DashFinallyStep == ASSUME DashInv, NEW s \in Scans, Dashboard!Finally(s) PROVE DashInv'
<1>1. Dashboard!At(s, "finally") /\ Dashboard!Goto(s, "over") /\ UNCHANGED <<db, hist>> /\ mem' = [mem EXCEPT !.flag = @ \ {s}]
      /\ "finally" \in DashPoints /\ "over" \in DashPoints
  BY DEF Dashboard!Finally, DashPoints
<1>2. /\ ~DashPending(s) /\ proc.at[s] = "finally" /\ DashTyped
      /\ DashFits("finally", db.row[s], db.runs[s], hist.stuck[s], s \in hist.unclosed, proc.begun[s] = NTools(s))
  BY <1>1, DashAt
<1>3. mem' \in DashMem /\ mem'.channel = mem.channel /\ mem'.flag = mem.flag \ {s}
  BY <1>1, <1>2 DEF DashTyped, DashMem
<1>4. DashFits("over", db.row[s], db.runs[s], hist.stuck[s], s \in hist.unclosed, proc.begun[s] = NTools(s))
  BY <1>2 DEF DashFits
<1> QED
  BY <1>1, <1>2, <1>3, <1>4, DashGoesStep DEF DashTyped

LEMMA DashRaiseStep == ASSUME DashInv, NEW s \in Scans, Dashboard!Raise(s) PROVE DashInv'
<1>1. PICK q \in Dashboard!Raising : q = proc.at[s]
  BY DEF Dashboard!Raise
<1>2. /\ Dashboard!Goto(s, Dashboard!Handler(q)) /\ UNCHANGED <<db, mem>> /\ Dashboard!At(s, q)
      /\ hist' = [hist EXCEPT !.faults = @ + 1,
                   !.stuck[s] = IF q \in {"created", "start"} THEN "pending" ELSE IF q = "fail" THEN "running" ELSE @,
                   !.unclosed = IF q = "runFailed" THEN @ \cup {s} ELSE @]
  BY <1>1 DEF Dashboard!Raise, Dashboard!At
<1>3. q \in DashPoints \ {"put", "evict", "reput", "finally", "over"}
  BY DEF DashPoints, Dashboard!Raising
<1>4. DashTyped /\ DashFits(q, db.row[s], db.runs[s], hist.stuck[s], s \in hist.unclosed, proc.begun[s] = NTools(s))
  BY <1>2, <1>3, DashAt
<1>5. hist.stuck[s] = "no"
  BY <1>3, <1>4 DEF DashFits
<1>6. PICK f \in Nat : f = hist.faults + 1
  BY <1>4, DashFields
<1>7. PICK u \in SUBSET Scans : u = IF q = "runFailed" THEN hist.unclosed \cup {s} ELSE hist.unclosed
  BY <1>4, DashFields
<1>8. PICK k \in {"no", "pending", "running"} :
        k = IF q \in {"created", "start"} THEN "pending" ELSE IF q = "fail" THEN "running" ELSE "no"
  OBVIOUS
<1>9. hist' = [hist EXCEPT !.faults = f, !.stuck[s] = k, !.unclosed = u]
  BY <1>2, <1>5, <1>6, <1>7, <1>8
<1>10. /\ hist' \in DashHist /\ hist'.seen = hist.seen /\ hist'.heeded = hist.heeded /\ hist'.unclosed = u
       /\ \A t \in Scans : hist'.stuck[t] = IF t = s THEN k ELSE hist.stuck[t]
  BY <1>4, <1>9 DEF DashTyped, DashHist
<1>11. PICK p \in DashPoints \ {"put", "evict", "reput"} : p = Dashboard!Handler(q)
  BY DEF Dashboard!Handler, Dashboard!Raising, DashPoints
<1>12. DashFits(p, db.row[s], db.runs[s], k, s \in u, proc.begun[s] = NTools(s))
  <2>1. CASE q \in {"created", "start"}
    <3>1. p = "over" /\ k = "pending" /\ u = hist.unclosed
      BY <1>7, <1>8, <1>11, <2>1 DEF Dashboard!Handler
    <3> QED
      BY <1>4, <2>1, <3>1 DEF DashFits
  <2>2. CASE q = "fail"
    <3>1. p = "finally" /\ k = "running" /\ u = hist.unclosed
      BY <1>7, <1>8, <1>11, <2>2 DEF Dashboard!Handler
    <3> QED
      BY <1>4, <2>2, <3>1 DEF DashFits
  <2>3. CASE q \in {"tool", "closeRun"}
    <3>1. p = "runFailed" /\ k = "no" /\ u = hist.unclosed
      BY <1>7, <1>8, <1>11, <2>3 DEF Dashboard!Handler
    <3> QED
      BY <1>4, <2>3, <3>1 DEF DashFits
  <2>4. CASE q = "runFailed"
    <3>1. p = "toolError" /\ k = "no" /\ s \in u
      BY <1>7, <1>8, <1>11, <2>4 DEF Dashboard!Handler
    <3> QED
      BY <1>4, <2>4, <3>1 DEF DashFits
  <2>5. CASE q \in {"open", "authorize", "skipped", "loop", "toolError", "progress", "complete"}
    <3>1. p \in {"toolError", "fail"} /\ k = "no" /\ u = hist.unclosed
      BY <1>7, <1>8, <1>11, <2>5 DEF Dashboard!Handler
    <3> QED
      BY <1>4, <2>5, <3>1 DEF DashFits
  <2> QED
    BY <2>1, <2>2, <2>3, <2>4, <2>5 DEF Dashboard!Raising
<1> QED
  BY <1>2, <1>3, <1>4, <1>7, <1>10, <1>11, <1>12, DashPlainGoes DEF DashTyped

LEMMA DashCancelStep == ASSUME DashInv, NEW s \in Scans, Dashboard!CancelLooksUp(s) \/ Dashboard!CancelFlags(s) PROVE DashInv'
<1>1. DashTyped /\ DashTold /\ db' = db
  BY DEF DashInv, Dashboard!CancelLooksUp, Dashboard!CancelFlags
<1>2. PICK a \in {"found", "accepted"} : proc' = [proc EXCEPT !.asker[s] = a]
  BY DEF Dashboard!CancelLooksUp, Dashboard!CancelFlags
<1>3. /\ proc' \in DashProc /\ proc'.at = proc.at /\ proc'.say = proc.say /\ proc'.begun = proc.begun
      /\ proc'.sent = proc.sent
  BY <1>1, <1>2 DEF DashTyped, DashProc
<1>4. /\ mem' \in DashMem /\ mem'.channel = mem.channel /\ mem.flag \subseteq mem'.flag
  BY <1>1 DEF DashTyped, DashMem, Dashboard!CancelLooksUp, Dashboard!CancelFlags
<1>5. /\ hist' \in DashHist /\ hist'.seen = hist.seen /\ hist'.stuck = hist.stuck /\ hist'.unclosed = hist.unclosed
      /\ \A t \in hist'.heeded : t \in hist.heeded \/ (t = s /\ proc.begun[s] < NTools(s) /\ s \in mem'.flag)
  <2>1. CASE Dashboard!CancelLooksUp(s)
    BY <1>1, <2>1 DEF DashTyped, Dashboard!CancelLooksUp
  <2>2. CASE Dashboard!CancelFlags(s)
    <3>1. s \in mem'.flag
      BY <1>1, <2>2 DEF Dashboard!CancelFlags, DashTyped, DashMem
    <3> QED
      BY <1>1, <2>2, <3>1 DEF Dashboard!CancelFlags, DashTyped, DashHist
  <2> QED
    BY <2>1, <2>2
<1>6. ASSUME NEW t \in Scans PROVE DashSettled(t)'
  <2>1. DashSettled(t)
    BY DEF DashInv
  <2>2. DashPending(t)' = DashPending(t) /\ DashWhere(t)' = DashWhere(t)
    BY <1>3 DEF DashPending, DashWhere
  <2>3. t \in hist'.heeded => proc.begun[t] < NTools(t) /\ (t \in mem'.flag \/ proc.at[t] = "over")
    BY <1>4, <1>5, <2>1 DEF DashSettled
  <2> QED
    BY <1>1, <1>3, <1>5, <2>1, <2>2, <2>3 DEF DashSettled
<1>7. DashTold'
  <2>1. \A t \in Scans : /\ DashPending(t)' => DashPending(t) /\ proc'.say[t] = proc.say[t]
                         /\ proc.at[t] \in {"finally", "over"} => proc'.at[t] \in {"finally", "over"}
    BY <1>3 DEF DashPending
  <2> QED
    BY <1>1, <1>3, <1>4, <1>5, <2>1, DashToldKept
<1> QED
  BY <1>1, <1>3, <1>4, <1>5, <1>6, <1>7 DEF DashInv, DashTyped

LEMMA DashDeleteStep == ASSUME DashInv, Dashboard!DeleteTarget PROVE DashInv'
<1>1. DashTyped /\ DashTold /\ UNCHANGED <<mem, proc, hist>>
      /\ db' = [target |-> FALSE, row |-> [s \in Scans |-> "none"], runs |-> [s \in Scans |-> <<>>]]
  BY DEF DashInv, Dashboard!DeleteTarget
<1>2. <<>> \in DashRuns /\ "none" \in DashRowStatus
  BY DEF DashRuns, DashRowStatus
<1>3. db' \in DashDb /\ \A s \in Scans : db'.row[s] = "none" /\ db'.runs[s] = <<>>
  BY <1>1, <1>2 DEF DashDb
<1>4. ASSUME NEW s \in Scans PROVE DashSettled(s)'
  <2>1. DashSettled(s) /\ DashPending(s)' = DashPending(s) /\ DashWhere(s)' = DashWhere(s)
    BY <1>1 DEF DashInv, DashPending, DashWhere
  <2>2. 1 .. Len(<<>>) = {}
    OBVIOUS
  <2>3. DashFits(DashWhere(s), "none", <<>>, hist.stuck[s], s \in hist.unclosed, proc.begun[s] = NTools(s))
    BY <2>1, <2>2 DEF DashSettled, DashFits
  <2> QED
    BY <1>1, <1>3, <2>1, <2>3 DEF DashSettled
<1>5. DashTold'
  <2>1. \A t \in Scans : /\ DashPending(t)' => DashPending(t) /\ proc'.say[t] = proc.say[t]
                         /\ proc.at[t] \in {"finally", "over"} => proc'.at[t] \in {"finally", "over"}
                         /\ db'.row[t] = "none"
    BY <1>1, <1>3 DEF DashPending
  <2> QED
    BY <1>1, <2>1, DashToldKept
<1> QED
  BY <1>1, <1>3, <1>4, <1>5 DEF DashInv, DashTyped

LEMMA DashStep == ASSUME DashInv, [Dashboard!Next]_(Dashboard!vars) PROVE DashInv'
<1>1. CASE Dashboard!Subscribe \/ UNCHANGED Dashboard!vars
  <2>1. /\ UNCHANGED <<db, proc, hist>> /\ mem' \in DashMem /\ mem'.channel = mem.channel /\ mem'.flag = mem.flag
    BY <1>1 DEF Dashboard!Subscribe, Dashboard!vars, DashInv, DashTyped, DashMem
  <2>2. \A s \in Scans : DashSettled(s)'
    BY <2>1 DEF DashInv, DashSettled, DashWhere, DashPending
  <2>3. DashTold'
    BY <2>1 DEF DashInv, DashTold, DashOlder, DashPending
  <2> QED
    BY <2>1, <2>2, <2>3 DEF DashInv, DashTyped
<1>2. ASSUME NEW s \in Scans, Dashboard!Step(s) PROVE DashInv'
  BY <1>2, DashCreateStep, DashLaunchStep, DashCancelStep, DashStartStep, DashAuthorizeStep, DashSkippedStep, DashCheckStep, DashOpenRunStep,
     DashToolEndsStep, DashToolErrorStep, DashCompleteStep, DashFailStep, DashFinallyStep, DashRaiseStep, DashPutStep, DashEvictStep DEF Dashboard!Step
<1> QED
  BY <1>1, <1>2, DashDeleteStep, DashReceiveStep DEF Dashboard!Next

LEMMA DashInvHolds == ASSUME DashInv PROVE Dashboard!WorkerSettlesRow /\ Dashboard!ToldIsSo /\ Dashboard!CancelWins
<1>1. ASSUME NEW s \in Scans, Dashboard!At(s, "over"), ~Dashboard!Gone(s)
      PROVE  /\ IF hist.stuck[s] = "no" THEN db.row[s] \in {"completed", "cancelled", "failed"}
                ELSE db.row[s] = hist.stuck[s]
             /\ s \notin hist.unclosed => \A i \in DOMAIN db.runs[s] : db.runs[s][i] # "running"
  <2>1. "over" \in DashPoints
    BY DEF DashPoints
  <2>2. DashTyped /\ DashFits("over", db.row[s], db.runs[s], hist.stuck[s], s \in hist.unclosed, proc.begun[s] = NTools(s))
    BY <1>1, <2>1, DashAt
  <2>3. DOMAIN db.runs[s] = 1 .. Len(db.runs[s])
    BY <2>2, DashFields DEF DashRuns
  <2> QED
    BY <1>1, <2>2, <2>3 DEF DashFits, Dashboard!Gone
<1>2. ASSUME NEW s \in hist.heeded PROVE db.row[s] # "completed"
  <2>1. s \in Scans /\ proc.begun[s] \in Nat /\ NTools(s) \in Nat
    BY DashFields, ToolsAreCounted DEF DashInv
  <2>2. DashSettled(s) /\ proc.begun[s] < NTools(s)
    BY <1>2, <2>1 DEF DashInv, DashSettled
  <2> QED
    BY <2>1, <2>2 DEF DashSettled, DashFits
<1>3. Dashboard!ToldIsSo
  BY DEF DashInv, DashTold, DashOlder, Dashboard!ToldIsSo, Dashboard!Gone
<1>4. Dashboard!WorkerSettlesRow
  BY <1>1 DEF Dashboard!WorkerSettlesRow, Dashboard!Final
<1> QED
  BY <1>2, <1>3, <1>4 DEF Dashboard!CancelWins

LEMMA DashInOrderStep == ASSUME DashInv, [Dashboard!Next]_(Dashboard!vars) PROVE Dashboard!EventsInOrder
<1> SUFFICES ASSUME NEW s \in Scans, hist.seen[s] # hist'.seen[s]
    PROVE  hist.seen[s].n < hist'.seen[s].n /\ hist.seen[s].status \notin Dashboard!Final
  BY DEF Dashboard!EventsInOrder
<1>1. DashTyped /\ DashTold
  BY DEF DashInv
<1>2. Dashboard!Receive
  <2>1. ASSUME NEW t \in Scans, Dashboard!Step(t) PROVE hist'.seen = hist.seen
    <3>1. CASE Dashboard!CancelFlags(t)
      BY <1>1, <3>1 DEF Dashboard!CancelFlags, DashTyped, DashHist
    <3>2. CASE Dashboard!Raise(t)
      BY <1>1, <3>2 DEF Dashboard!Raise, DashTyped, DashHist
    <3>3. CASE ~Dashboard!CancelFlags(t) /\ ~Dashboard!Raise(t)
      BY <2>1, <3>3 DEF Dashboard!Step, Dashboard!Create, Dashboard!Launch, Dashboard!CancelLooksUp, Dashboard!Start, Dashboard!Authorize, Dashboard!Skipped, Dashboard!Check, Dashboard!OpenRun, Dashboard!ToolEnds,
        Dashboard!CloseRun, Dashboard!FailRun, Dashboard!ToolError, Dashboard!Progress, Dashboard!Complete, Dashboard!Fail, Dashboard!Finally, Dashboard!Put, Dashboard!Evict, Dashboard!Reput
    <3> QED
      BY <3>1, <3>2, <3>3
  <2> QED
    BY <2>1 DEF Dashboard!Next, Dashboard!DeleteTarget, Dashboard!Subscribe, Dashboard!vars
<1>3. PICK c, d, h : c = mem.channel /\ d = Tail(c) /\ h = Head(c)
  OBVIOUS
<1>4. h \in DashMessage /\ DashOlder(h) /\ hist.seen[h.scan].n < h.n
  BY <1>1, <1>2, <1>3, DashTailTold DEF Dashboard!Receive
<1>5. hist'.seen = [hist.seen EXCEPT ![h.scan] = h]
  BY <1>1, <1>2, <1>3 DEF Dashboard!Receive, DashTyped, DashHist
<1>6. h.scan = s /\ hist'.seen[s] = h
  BY <1>1, <1>4, <1>5, DashFields
<1>7. hist.seen[s].status \in Dashboard!Final => hist.seen[s].n = proc.sent[s]
  BY <1>1 DEF DashTold, DashOlder
<1>8. h.n <= proc.sent[s] /\ h.n \in Nat /\ hist.seen[s].n \in Nat /\ proc.sent[s] \in Nat
  BY <1>1, <1>4, <1>6, DashFields DEF DashOlder, DashMessage
<1> QED
  BY <1>4, <1>6, <1>7, <1>8

LEMMA DashboardPart == SuiteSpec => [](part = "dashboard" => DashInv)
<1>1. SuiteInit => (part = "dashboard" => DashInv)
  BY DashInit DEF SuiteInit
<1>2. (part = "dashboard" => DashInv) /\ [SuiteNext]_suiteVars => (part = "dashboard" => DashInv)'
  <2> SUFFICES ASSUME part = "dashboard", DashInv, [SuiteNext]_suiteVars PROVE DashInv'
    BY DEF SuiteNext, suiteVars
  <2>1. [Dashboard!Next]_(Dashboard!vars)
    BY DEF SuiteNext, suiteVars, state, Dashboard!vars
  <2> QED
    BY <2>1, DashStep
<1> QED
  BY <1>1, <1>2, PTL DEF SuiteSpec

\* app/server.py: a terminal status the browser saw is the row's; a thread that is
\* gone left a terminal row and closed tool runs, but for a deleted target and the
\* three exceptions without a handler (before the thread's try, in the report of a
\* failure, in the report of a failed tool run), whose trace is stated as well; a
\* cancel that was accepted before the last tool wins; and the browser gets the
\* events of a scan in order, none after the verdict; for any scans, tools, faults
\* and size of the channel.
THEOREM ScanIsAlwaysTold == SuiteSpec => ScanIsTold
<1>1. (part = "dashboard" => DashInv) => (part = "dashboard" => Dashboard!WorkerSettlesRow /\ Dashboard!ToldIsSo /\ Dashboard!CancelWins)
  BY DashInvHolds
<1>2. (part = "dashboard" => DashInv) /\ [SuiteNext]_suiteVars => [part = "dashboard" => Dashboard!EventsInOrder]_hist
  <2> SUFFICES ASSUME part = "dashboard", DashInv, [SuiteNext]_suiteVars PROVE Dashboard!EventsInOrder
    BY DEF SuiteNext, suiteVars
  <2>1. [Dashboard!Next]_(Dashboard!vars)
    BY DEF SuiteNext, suiteVars, state, Dashboard!vars
  <2> QED
    BY <2>1, DashInOrderStep
<1> QED
  BY <1>1, <1>2, DashboardPart, PTL DEF SuiteSpec, ScanIsTold

-----------------------------------------------------------------------------
(* DashboardSettings *)

(* The inductive invariant.  As long as no two saves overlapped, none was    *)
(* cut off and none replaced the file, a save that is under way writes the   *)
(* secret that will be the last saved one.                                   *)

SettingsHist == [saved : Secrets \cup {""}, lost : BOOLEAN, saves : Nat]

SettingsOK ==
  /\ db \in [file : [state : {"none", "torn", "whole"}, key : Settings!Shown, proxy : BOOLEAN]]
  /\ proc \in [Requests -> [at : {"idle", "open", "fill"},
                            new : [state : {"whole"}, key : Settings!Shown, proxy : BOOLEAN],
                            secret : Settings!Shown]]
  /\ hist \in SettingsHist

\* What the file will hold when request u is done.
SavedAfter(u) == IF proc[u].secret \in Secrets THEN proc[u].secret ELSE hist.saved

FileHoldsSaved ==
  CASE db.file.state = "whole" -> db.file.key = hist.saved
    [] db.file.state = "none"  -> hist.saved = ""
    [] OTHER -> \E u \in Requests : Settings!At(u, "fill")

SavesInTurn ==
  /\ \A u, v \in Requests : ~Settings!At(u, "idle") /\ ~Settings!At(v, "idle") => u = v
  /\ \A u \in Requests : ~Settings!At(u, "idle") => proc[u].new.key = SavedAfter(u)

SettingsInv == SettingsOK /\ (hist.lost \/ (FileHoldsSaved /\ SavesInTurn))

LEMMA SettingsInit == Settings!Init => SettingsInv
<1> SUFFICES ASSUME Settings!Init PROVE SettingsInv
  OBVIOUS
<1>1. SettingsOK
  BY DEF Settings!Init, SettingsOK, SettingsHist, Settings!Empty, Settings!Whole, Settings!Idle, Settings!Shown
<1>2. FileHoldsSaved /\ SavesInTurn
  BY DEF Settings!Init, FileHoldsSaved, SavesInTurn, Settings!At, Settings!Empty, Settings!Whole, Settings!Idle
<1> QED
  BY <1>1, <1>2 DEF SettingsInv

LEMMA SettingsCounted ==
  ASSUME NEW h \in SettingsHist, NEW l \in BOOLEAN
  PROVE  LET g == [h EXCEPT !.saves = @ + 1, !.lost = l]
         IN  g \in SettingsHist /\ g.saved = h.saved /\ g.lost = l
<1> DEFINE n == h.saves + 1
<1>1. n \in Nat
  <2>1. h.saves \in Nat
    BY DEF SettingsHist
  <2> QED
    BY <2>1
<1> HIDE DEF n
<1>2. [h EXCEPT !.saves = n, !.lost = l] \in SettingsHist
  BY <1>1 DEF SettingsHist
<1>3. [h EXCEPT !.saves = n, !.lost = l].saved = h.saved /\ [h EXCEPT !.saves = n, !.lost = l].lost = l
  BY DEF SettingsHist
<1> QED
  BY <1>2, <1>3 DEF n

\* What a save that came alone is about to write.
LEMMA SettingsMerge ==
  ASSUME SettingsInv, ~hist.lost, ~Settings!Busy,
         NEW key \in {"absent", Settings!Masked(Settings!Settings.key)} \cup Secrets, NEW proxy \in BOOLEAN
  PROVE  Settings!Merge(Settings!Settings, key, proxy).key = IF key \in Secrets THEN key ELSE hist.saved
<1>1. Settings!Settings.key = hist.saved
  BY DEF SettingsInv, SettingsOK, SettingsHist, FileHoldsSaved, Settings!Settings, Settings!Empty, Settings!Whole, Settings!Busy, Settings!At
<1>2. hist.saved \in Secrets \cup {""}
  BY DEF SettingsInv, SettingsOK, SettingsHist
<1> QED
  BY <1>1, <1>2, WordsAreFree DEF Settings!Masked, Settings!Merge, Settings!Whole

LEMMA SettingsSaveStep ==
  ASSUME SettingsInv, NEW u \in Requests, NEW k \in Settings!Shown, NEW p \in BOOLEAN,
         Settings!ReadToSave(u, k, p)
  PROVE  SettingsInv'
<1> DEFINE m == Settings!Merge(Settings!Settings, k, p)
           q == [at |-> "open", new |-> m, secret |-> k]
<1>1. /\ proc' = [proc EXCEPT ![u] = q] /\ UNCHANGED <<db, mem>>
      /\ hist' = [hist EXCEPT !.saves = @ + 1, !.lost = @ \/ Settings!Busy]
      /\ k \in {"absent", Settings!Masked(Settings!Settings.key)} \cup Secrets
  BY DEF Settings!ReadToSave
<1>2. m \in [state : {"whole"}, key : Settings!Shown, proxy : BOOLEAN]
  BY DEF Settings!Merge, Settings!Whole, Settings!Settings, Settings!Empty, Settings!Shown, SettingsInv, SettingsOK, SettingsHist
<1>3. ~hist.lost /\ ~Settings!Busy => m.key = IF k \in Secrets THEN k ELSE hist.saved
  BY <1>1, SettingsMerge
<1>4. /\ hist.saved \in Secrets \cup {""} /\ hist.lost \in BOOLEAN /\ hist.saves \in Nat
      /\ hist = [saved |-> hist.saved, lost |-> hist.lost, saves |-> hist.saves]
  BY DEF SettingsInv, SettingsOK, SettingsHist
<1> HIDE DEF m
<1>5. hist'.saved = hist.saved /\ hist'.lost = (hist.lost \/ Settings!Busy) /\ hist'.saves = hist.saves + 1
  BY <1>1, <1>4
<1>6. SettingsOK'
  <2>1. Settings!Busy \in BOOLEAN
    BY DEF Settings!Busy
  <2>2. hist \in SettingsHist
    BY DEF SettingsInv, SettingsOK, SettingsHist
  <2>3. hist' \in SettingsHist
    BY <1>1, <2>1, <2>2, SettingsCounted
  <2> QED
    BY <1>1, <1>2, <2>3 DEF SettingsInv, SettingsOK, SettingsHist
<1>7. ASSUME ~hist.lost, ~Settings!Busy PROVE FileHoldsSaved' /\ SavesInTurn'
  <2>1. FileHoldsSaved /\ db.file.state \in {"none", "whole"}
    BY <1>7 DEF SettingsInv, SettingsOK, SettingsHist, FileHoldsSaved, Settings!Busy, Settings!At
  <2>2. FileHoldsSaved'
    BY <1>1, <1>5, <2>1 DEF FileHoldsSaved
  <2>3. \A v \in Requests : proc'[v] = IF v = u THEN q ELSE proc[v]
    BY <1>1 DEF SettingsInv, SettingsOK, SettingsHist
  <2>4. SavesInTurn'
    BY <1>3, <1>5, <1>7, <2>3 DEF SavesInTurn, Settings!Busy, Settings!At, SavedAfter
  <2> QED
    BY <2>2, <2>4
<1> QED
  BY <1>5, <1>6, <1>7 DEF SettingsInv

LEMMA SettingsReplaceStep ==
  ASSUME SettingsInv, NEW u \in Requests, NEW k \in Settings!Shown, NEW p \in BOOLEAN, Settings!ReplaceAll(u, k, p)
  PROVE  SettingsInv'
<1>1. /\ proc' = [proc EXCEPT ![u] = [at |-> "open", secret |-> k,
                    new |-> Settings!Whole(IF k = "absent" THEN "" ELSE k, p)]]
      /\ hist' = [hist EXCEPT !.saves = @ + 1, !.lost = TRUE] /\ UNCHANGED db
  BY DEF Settings!ReplaceAll
<1>2. Settings!Whole(IF k = "absent" THEN "" ELSE k, p) \in [state : {"whole"}, key : Settings!Shown, proxy : BOOLEAN]
  BY DEF Settings!Whole, Settings!Shown
<1>3. hist \in SettingsHist /\ TRUE \in BOOLEAN
  BY DEF SettingsInv, SettingsOK, SettingsHist
<1>4. hist' \in SettingsHist /\ hist'.lost = TRUE
  BY <1>1, <1>3, SettingsCounted
<1>5. SettingsOK'
  BY <1>1, <1>2, <1>4 DEF SettingsInv, SettingsOK, SettingsHist
<1> QED
  BY <1>4, <1>5 DEF SettingsInv

LEMMA SettingsWriteStep ==
  ASSUME SettingsInv, NEW u \in Requests, Settings!OpenFile(u) \/ Settings!FillFile(u)
  PROVE  SettingsInv'
<1>0. SettingsOK /\ proc[u].new \in [state : {"whole"}, key : Settings!Shown, proxy : BOOLEAN]
      /\ proc[u].secret \in Settings!Shown
  BY DEF SettingsInv, SettingsOK, SettingsHist
<1>1. CASE Settings!OpenFile(u)
  <2>1. db'.file.state = "torn" /\ UNCHANGED hist
    BY <1>0, <1>1 DEF Settings!OpenFile, SettingsOK, SettingsHist
  <2>2. \A v \in Requests : proc'[v] = IF v = u THEN [proc[u] EXCEPT !.at = "fill"] ELSE proc[v]
    BY <1>0, <1>1 DEF Settings!OpenFile, SettingsOK, SettingsHist
  <2>3. SettingsOK'
    BY <1>0, <1>1 DEF Settings!OpenFile, SettingsOK
  <2>4. ASSUME SavesInTurn PROVE FileHoldsSaved' /\ SavesInTurn'
    <3>1. proc[u].at # "idle" /\ proc'[u].at = "fill"
          /\ \A v \in Requests : proc'[v].new = proc[v].new /\ proc'[v].secret = proc[v].secret
                                 /\ (proc'[v].at = "idle" <=> proc[v].at = "idle")
      <4>1. proc[u].at # "idle"
        BY <1>1 DEF Settings!OpenFile, Settings!At
      <4> DEFINE T == [at : {"idle", "open", "fill"}, new : [state : {"whole"}, key : Settings!Shown, proxy : BOOLEAN],
                       secret : Settings!Shown]
      <4>0. PICK r \in T : r = proc[u]
        BY <1>0 DEF SettingsOK
      <4>2. PICK q \in T : q = [r EXCEPT !.at = "fill"] /\ q.at = "fill" /\ q.new = r.new /\ q.secret = r.secret
        <5>1. [r EXCEPT !.at = "fill"] \in T
          OBVIOUS
        <5> QED
          BY <5>1
      <4> HIDE DEF T
      <4>3. \A v \in Requests : proc'[v] = IF v = u THEN q ELSE proc[v]
        BY <2>2, <4>0, <4>2
      <4> QED
        BY <4>0, <4>1, <4>2, <4>3
    <3> QED
      BY <2>1, <2>4, <3>1 DEF SavesInTurn, FileHoldsSaved, Settings!At, SavedAfter
  <2> QED
    BY <2>1, <2>3, <2>4 DEF SettingsInv
<1>2. CASE Settings!FillFile(u)
  <2>1. /\ db'.file = proc[u].new
        /\ hist'.saved = SavedAfter(u) /\ hist'.lost = hist.lost
        /\ \A v \in Requests : proc'[v] = IF v = u THEN Settings!Idle ELSE proc[v]
    BY <1>0, <1>2 DEF Settings!FillFile, SettingsOK, SettingsHist, SavedAfter
  <2>2. SettingsOK'
    BY <1>0, <1>2 DEF Settings!FillFile, SettingsOK, SettingsHist, Settings!Idle, Settings!Empty, Settings!Whole, Settings!Shown
  <2>3. ASSUME SavesInTurn PROVE FileHoldsSaved' /\ SavesInTurn'
    <3>1. db'.file.state = "whole" /\ db'.file.key = hist'.saved
      BY <1>0, <1>2, <2>1, <2>3 DEF Settings!FillFile, SavesInTurn, Settings!At
    <3>2. \A v \in Requests : proc'[v].at = "idle"
      BY <1>2, <2>1, <2>3 DEF Settings!FillFile, SavesInTurn, Settings!At, Settings!Idle
    <3> QED
      BY <3>1, <3>2 DEF FileHoldsSaved, SavesInTurn, Settings!At
  <2> QED
    BY <2>1, <2>2, <2>3 DEF SettingsInv
<1> QED
  BY <1>1, <1>2

LEMMA SettingsRestartStep == ASSUME SettingsInv, Settings!Restart PROVE SettingsInv'
<1>1. SettingsOK /\ UNCHANGED db /\ proc' = [u \in Requests |-> Settings!Idle]
      /\ hist' = [hist EXCEPT !.lost = @ \/ db.file.state = "torn"]
  BY DEF Settings!Restart, SettingsInv
<1>2. SettingsOK'
  BY <1>1 DEF SettingsOK, SettingsHist, Settings!Idle, Settings!Empty, Settings!Whole, Settings!Shown
<1>3. hist'.saved = hist.saved /\ hist'.lost = (hist.lost \/ db.file.state = "torn")
  BY <1>1 DEF SettingsOK, SettingsHist
<1>4. ASSUME FileHoldsSaved, db.file.state # "torn" PROVE FileHoldsSaved' /\ SavesInTurn'
  BY <1>1, <1>3, <1>4 DEF SettingsOK, SettingsHist, FileHoldsSaved, SavesInTurn, Settings!At, Settings!Idle
<1> QED
  BY <1>2, <1>3, <1>4 DEF SettingsInv

LEMMA SettingsStep == ASSUME SettingsInv, [Settings!Next]_(Settings!vars) PROVE SettingsInv'
<1>1. CASE Settings!Handshake \/ Settings!SessionExpires \/ UNCHANGED Settings!vars
  <2>1. UNCHANGED <<db, proc, hist>>
    BY <1>1 DEF Settings!Handshake, Settings!SessionExpires, Settings!vars
  <2> QED
    BY <2>1 DEF SettingsInv, SettingsOK, SettingsHist, FileHoldsSaved, SavesInTurn, Settings!At, SavedAfter
<1>2. CASE Settings!Restart
  BY <1>2, SettingsRestartStep
<1>3. ASSUME NEW u \in Requests, NEW k \in Settings!Shown, NEW p \in BOOLEAN,
             Settings!ReadToSave(u, k, p) \/ Settings!ReplaceAll(u, k, p)
      PROVE  SettingsInv'
  BY <1>3, SettingsSaveStep, SettingsReplaceStep
<1>4. ASSUME NEW u \in Requests, Settings!OpenFile(u) \/ Settings!FillFile(u) PROVE SettingsInv'
  BY <1>4, SettingsWriteStep
<1> QED
  BY <1>1, <1>2, <1>3, <1>4 DEF Settings!Next

-----------------------------------------------------------------------------

LEMMA SettingsPart == SuiteSpec => [](part = "settings" => SettingsInv)
<1>1. SuiteInit => (part = "settings" => SettingsInv)
  BY SettingsInit DEF SuiteInit
<1>2. (part = "settings" => SettingsInv) /\ [SuiteNext]_suiteVars => (part = "settings" => SettingsInv)'
  <2> SUFFICES ASSUME part = "settings", SettingsInv, [SuiteNext]_suiteVars PROVE SettingsInv'
    BY DEF SuiteNext, suiteVars
  <2>1. [Settings!Next]_(Settings!vars)
    BY DEF SuiteNext, suiteVars, state, Settings!vars
  <2> QED
    BY <2>1, SettingsStep
<1> QED
  BY <1>1, <1>2, PTL DEF SuiteSpec

\* v2_settings_put merges: unless saves overlapped, one was cut off or the first
\* API replaced the file, the file holds the secret that was saved last, however
\* often its mask came back; for any secrets that are not words of the form.
THEOREM SecretsAreKept == SuiteSpec => []SavedSecretStays
<1>1. SettingsInv => Settings!SavedSecretStays
  <2> SUFFICES ASSUME SettingsInv, ~hist.lost, db.file.state # "torn"
      PROVE  Settings!Environment = {hist.saved} \ {""}
    BY DEF Settings!SavedSecretStays
  <2>1. Settings!Settings.key = hist.saved /\ hist.saved \in Secrets \cup {""}
    BY DEF SettingsInv, SettingsOK, SettingsHist, FileHoldsSaved, Settings!Settings, Settings!Empty, Settings!Whole
  <2> QED
    BY <2>1, WordsAreFree DEF Settings!Environment
<1>2. (part = "settings" => SettingsInv) => SavedSecretStays
  BY <1>1 DEF SavedSecretStays
<1> QED
  BY <1>2, SettingsPart, PTL

-----------------------------------------------------------------------------
(* Migrations *)

MigMap == UNION {[s -> Texts] : s \in SUBSET Versions}
MigDisk == [up : MigMap, down : SUBSET Versions, release : Texts]
MigRelease == [sum : Texts \cup {0}, active : BOOLEAN]
MigCopy == [made : MigMap, undone : SUBSET Versions, ledger : MigMap, release : MigRelease]
MigDb == [made : MigMap, undone : SUBSET Versions, ledger : MigMap, release : MigRelease,
          copies : SUBSET MigCopy]
MigWork == [at : {"idle", "up", "down"}, plan : SUBSET Versions, sums : MigMap, base : MigMap]
MigHist == [edits : Nat, runs : Nat]

MigTyped == files \in MigDisk /\ db \in MigDb /\ proc \in [Starts -> MigWork] /\ hist \in MigHist

\* The text of every version a plan will apply was read, and is there to be
\* read again; a version that is to be undone was made.
MigRead == \A p \in Starts :
  /\ Schema!At(p, "up") => /\ proc[p].plan \subseteq DOMAIN proc[p].sums
                           /\ DOMAIN proc[p].sums \subseteq DOMAIN files.up
  /\ Schema!At(p, "down") => proc[p].plan \subseteq DOMAIN db.made

MigExact == Schema!Accounted(db) /\ \A c \in db.copies : Schema!Accounted(c)

\* A plan lies above what its process last saw in the ledger, or is its top.
MigOrdered ==
  \A p \in Starts :
    /\ Schema!At(p, "up") => \A v \in proc[p].plan, w \in DOMAIN proc[p].base : w < v
    /\ Schema!At(p, "down") => \A v \in proc[p].plan, w \in DOMAIN proc[p].base \ proc[p].plan : w < v

MigInv == MigTyped /\ MigRead /\ MigExact /\ MigOrdered

LEMMA MigMapFact ==
  /\ \A f \in MigMap : DOMAIN f \subseteq Versions /\ \A v \in DOMAIN f : f[v] \in Texts
  /\ \A s \in SUBSET Versions : \A f \in [s -> Texts] : f \in MigMap
  BY DEF MigMap

LEMMA MigWithFact ==
  ASSUME NEW f \in MigMap, NEW v \in Versions, NEW x \in Texts
  PROVE  Schema!With(f, v, x) \in MigMap /\ DOMAIN Schema!With(f, v, x) = DOMAIN f \cup {v}
<1>1. DOMAIN f \cup {v} \in SUBSET Versions /\ \A w \in DOMAIN f : f[w] \in Texts
  BY MigMapFact
<1>2. Schema!With(f, v, x) \in [DOMAIN f \cup {v} -> Texts]
  BY <1>1 DEF Schema!With
<1>3. DOMAIN Schema!With(f, v, x) = DOMAIN f \cup {v}
  BY DEF Schema!With
<1> QED
  BY <1>1, <1>2, <1>3, MigMapFact

LEMMA MigWithoutFact ==
  ASSUME NEW f \in MigMap, NEW s
  PROVE  Schema!Without(f, s) \in MigMap /\ DOMAIN Schema!Without(f, s) = DOMAIN f \ s
<1>1. DOMAIN f \ s \in SUBSET Versions /\ \A w \in DOMAIN f : f[w] \in Texts
  BY MigMapFact
<1>2. Schema!Without(f, s) = [w \in DOMAIN f \ s |-> f[w]]
  BY DEF Schema!Without, Schema!Restrict
<1>3. Schema!Without(f, s) \in [DOMAIN f \ s -> Texts] /\ DOMAIN Schema!Without(f, s) = DOMAIN f \ s
  BY <1>1, <1>2
<1> QED
  BY <1>1, <1>3, MigMapFact

LEMMA MigEmptyFact == <<>> \in MigMap /\ DOMAIN <<>> = {}
<1>1. \A f \in [{} -> Texts] : f \in MigMap
  BY MigMapFact
<1>2. <<>> \in [{} -> Texts] /\ DOMAIN <<>> = {}
  OBVIOUS
<1> QED
  BY <1>1, <1>2

LEMMA MigIdleFact == Schema!Idle \in MigWork /\ Schema!Idle.at = "idle"
  BY MigEmptyFact DEF Schema!Idle, MigWork

LEMMA MigInit == Schema!Init => MigInv
<1> SUFFICES ASSUME Schema!Init PROVE MigInv
  OBVIOUS
<1>1. PICK fs \in SUBSET Versions, safe \in {{}, Versions}, t \in Texts :
        files = [up |-> [v \in fs |-> t], down |-> safe, release |-> t]
  BY DEF Schema!Init
<1>2. files \in MigDisk
  <2>1. [v \in fs |-> t] \in [fs -> Texts]
    OBVIOUS
  <2>2. [v \in fs |-> t] \in MigMap
    BY <2>1, MigMapFact
  <2> QED
    BY <1>1, <2>2 DEF MigDisk
<1>3. db \in MigDb /\ db.copies = {} /\ db.made = <<>> /\ db.ledger = <<>> /\ db.undone = {}
  BY MigEmptyFact DEF Schema!Init, MigDb, MigRelease
<1>6. Schema!Accounted(db)
  BY <1>3, MigEmptyFact DEF Schema!Accounted
<1>4. proc \in [Starts -> MigWork] /\ \A p \in Starts : proc[p].at = "idle"
  BY MigIdleFact DEF Schema!Init
<1>5. hist \in MigHist
  BY DEF Schema!Init, MigHist
<1> QED
  BY <1>2, <1>3, <1>4, <1>5, <1>6 DEF MigInv, MigTyped, MigRead, MigExact, MigOrdered, Schema!At

\* What the fields of the state are.
LEMMA MigFields ==
  ASSUME MigTyped
  PROVE  /\ files.up \in MigMap /\ DOMAIN files.up \subseteq Versions
         /\ db.made \in MigMap /\ db.ledger \in MigMap /\ DOMAIN db.ledger \subseteq Versions
         /\ db.copies \subseteq MigCopy /\ db.undone \in SUBSET Versions /\ db.release \in MigRelease
         /\ \A p \in Starts : /\ proc[p] \in MigWork /\ proc[p].plan \subseteq Versions /\ proc[p].sums \in MigMap
                              /\ proc[p].base \in MigMap /\ DOMAIN proc[p].base \subseteq Versions
  BY MigMapFact DEF MigTyped, MigDisk, MigDb, MigWork, MigHist

\* A process that ends: the others go on as they were.
LEMMA MigBack ==
  ASSUME MigTyped, NEW p \in Starts, Schema!Back(p)
  PROVE  /\ proc' \in [Starts -> MigWork] /\ proc'[p].at = "idle"
         /\ \A q \in Starts : q # p => proc'[q] = proc[q]
  BY MigIdleFact DEF MigTyped, Schema!Back

LEMMA MigEditStep ==
  ASSUME MigInv, \/ \E v \in Versions, t \in Texts : Schema!Edit(v, t)
                 \/ \E t \in Texts : Schema!EditRelease(t)
  PROVE  MigInv'
<1>1. MigTyped /\ UNCHANGED <<db, proc>>
  BY DEF MigInv, Schema!Edit, Schema!EditRelease
<1>2. files' \in MigDisk /\ DOMAIN files.up \subseteq DOMAIN files'.up
  <2>1. CASE \E t \in Texts : Schema!EditRelease(t)
    BY <1>1, <2>1 DEF Schema!EditRelease, MigTyped, MigDisk
  <2>2. ASSUME NEW v \in Versions, NEW t \in Texts, Schema!Edit(v, t) PROVE files' \in MigDisk /\ DOMAIN files.up \subseteq DOMAIN files'.up
    <3>1. PICK u \in MigMap : u = Schema!With(files.up, v, t) /\ DOMAIN u = DOMAIN files.up \cup {v}
      <4>1. Schema!With(files.up, v, t) \in MigMap /\ DOMAIN Schema!With(files.up, v, t) = DOMAIN files.up \cup {v}
        BY <1>1, MigFields, MigWithFact
      <4> QED
        BY <4>1
    <3>2. files' = [files EXCEPT !.up = u]
      BY <2>2, <3>1 DEF Schema!Edit
    <3>3. files' \in MigDisk /\ files'.up = u
      BY <1>1, <3>2 DEF MigTyped, MigDisk
    <3> QED
      BY <3>1, <3>3
  <2> QED
    BY <2>1, <2>2
<1>3. hist' \in MigHist
  BY <1>1 DEF Schema!Edit, Schema!EditRelease, MigTyped, MigHist
<1> QED
  BY <1>1, <1>2, <1>3 DEF MigInv, MigTyped, MigRead, MigExact, MigOrdered, Schema!At

\* A plan is read and a copy is made.
LEMMA MigBeginStep ==
  ASSUME MigInv, NEW p \in Starts, NEW at \in {"up", "down"}, NEW plan \in SUBSET Versions,
         Schema!Begin(p, at, plan), Schema!Backup, UNCHANGED files,
         at = "up" => plan \subseteq DOMAIN files.up /\ \A v \in plan, w \in DOMAIN db.ledger : w < v,
         at = "down" => plan \subseteq DOMAIN db.ledger /\ \A v \in plan, w \in DOMAIN db.ledger \ plan : w < v
  PROVE  MigInv'
<1>1. MigTyped /\ DOMAIN db.ledger \subseteq DOMAIN db.made
  BY DEF MigInv, MigExact, Schema!Accounted
<1>2. PICK w \in MigWork : w = [at |-> at, plan |-> plan, sums |-> files.up, base |-> db.ledger]
  <2>1. [at |-> at, plan |-> plan, sums |-> files.up, base |-> db.ledger] \in MigWork
    BY <1>1, MigFields DEF MigWork
  <2> QED
    BY <2>1
<1>3. proc' = [proc EXCEPT ![p] = w]
  BY <1>2 DEF Schema!Begin
<1>4. proc' \in [Starts -> MigWork] /\ proc'[p] = w /\ \A q \in Starts : q # p => proc'[q] = proc[q]
  BY <1>1, <1>3 DEF MigTyped
<1>5. hist' \in MigHist
  BY <1>1 DEF Schema!Begin, MigTyped, MigHist
<1>6. PICK c \in MigCopy : /\ c = Schema!Content(db) /\ c.made = db.made
                           /\ c.undone = db.undone /\ c.ledger = db.ledger
  <2>1. Schema!Content(db) \in MigCopy
    BY <1>1, MigFields DEF MigCopy, Schema!Content
  <2> QED
    BY <2>1 DEF Schema!Content
<1>7. db' = [db EXCEPT !.copies = @ \cup {c}]
  BY <1>6 DEF Schema!Backup
<1>8. db' \in MigDb /\ db'.made = db.made /\ db'.undone = db.undone /\ db'.ledger = db.ledger
      /\ db'.copies = db.copies \cup {c}
  BY <1>1, <1>7 DEF MigTyped, MigDb
<1>9. MigTyped'
  BY <1>1, <1>4, <1>5, <1>8 DEF MigTyped
<1>10. MigExact'
  <2>1. Schema!Accounted(db') /\ Schema!Accounted(c)
    BY <1>6, <1>8 DEF MigInv, MigExact, Schema!Accounted
  <2> QED
    BY <1>8, <2>1 DEF MigInv, MigExact
<1>11. MigRead'
  BY <1>1, <1>2, <1>4, <1>8 DEF MigInv, MigRead, Schema!At
<1>12. MigOrdered'
  BY <1>2, <1>4, <1>5 DEF MigInv, MigOrdered, Schema!At
<1> QED
  BY <1>9, <1>10, <1>11, <1>12 DEF MigInv

LEMMA MigPlanStep == ASSUME MigInv, NEW p \in Starts, Schema!Plan(p) PROVE MigInv'
<1>1. Schema!Pending \in SUBSET Versions /\ Schema!Pending \subseteq DOMAIN files.up /\ \A v \in Schema!Pending, w \in DOMAIN db.ledger : w < v
  BY MigFields DEF MigInv, Schema!Pending, Schema!Files, Schema!Applied
<1> QED
  BY <1>1, MigBeginStep DEF Schema!Plan

LEMMA MigPlanBackStep ==
  ASSUME MigInv, NEW p \in Starts, NEW n \in {0} \cup Versions, Schema!PlanBack(p, n)
  PROVE  MigInv'
<1>1. PICK above \in SUBSET Versions : above = {v \in Schema!Applied : v > n}
  <2>1. {v \in Schema!Applied : v > n} \in SUBSET Versions
    BY MigFields DEF MigInv, Schema!Applied
  <2> QED
    BY <2>1
<1>2. \A v \in above, w \in DOMAIN db.ledger \ above : w < v
  <2>1. n \in Nat /\ \A v \in DOMAIN db.ledger : v \in Nat
    <3>1. DOMAIN db.ledger \subseteq Versions
      BY MigFields DEF MigInv
    <3>2. \A v \in Versions : v \in Nat
      BY VersionsAreNat
    <3>3. n \in Nat
      BY <3>2
    <3> QED
      BY <3>1, <3>2, <3>3
  <2>2. above = {v \in DOMAIN db.ledger : v > n}
    BY <1>1 DEF Schema!Applied
  <2> QED
    BY <2>1, <2>2
<1>3. Schema!Begin(p, "down", above) /\ Schema!Backup /\ UNCHANGED files
  BY <1>1 DEF Schema!PlanBack
<1>4. above \subseteq DOMAIN db.ledger
  BY <1>1 DEF Schema!Applied
<1> QED
  BY <1>1, <1>2, <1>3, <1>4, MigBeginStep

LEMMA MigApplyStep == ASSUME MigInv, NEW p \in Starts, Schema!Apply(p) PROVE MigInv' /\ Schema!Orderly
<1>1. MigTyped /\ UNCHANGED <<files, hist>> /\ Schema!At(p, "up")
  BY DEF MigInv, Schema!Apply
<1>2. PICK v \in proc[p].plan :
        /\ v \notin Schema!Applied /\ \A w \in proc[p].plan : v <= w
        /\ db' = [db EXCEPT !.made = Schema!With(@, v, files.up[v]), !.undone = @ \ {v},
                            !.ledger = Schema!With(@, v, proc[p].sums[v])]
        /\ IF proc[p].plan = {v} THEN Schema!Back(p)
           ELSE proc' = [proc EXCEPT ![p].plan = @ \ {v},
                                     ![p].base = IF Schema!OutOfDate(p) THEN @ ELSE db.ledger']
  BY DEF Schema!Apply
<1>3. v \in Versions /\ v \in DOMAIN proc[p].sums /\ v \in DOMAIN files.up
  BY <1>1, <1>2, MigFields DEF MigInv, MigRead
<1>4. proc[p].sums[v] \in Texts /\ files.up[v] \in Texts
  BY <1>1, <1>3, MigFields, MigMapFact
<1>5. PICK m \in MigMap : m = Schema!With(db.made, v, files.up[v]) /\ DOMAIN m = DOMAIN db.made \cup {v}
  <2>1. Schema!With(db.made, v, files.up[v]) \in MigMap /\ DOMAIN Schema!With(db.made, v, files.up[v]) = DOMAIN db.made \cup {v}
    BY <1>1, <1>3, <1>4, MigFields, MigWithFact
  <2> QED
    BY <2>1
<1>6. PICK l \in MigMap : /\ l = Schema!With(db.ledger, v, proc[p].sums[v]) /\ DOMAIN l = DOMAIN db.ledger \cup {v}
                          /\ \A w \in DOMAIN db.ledger : w # v => l[w] = db.ledger[w]
  <2>1. Schema!With(db.ledger, v, proc[p].sums[v]) \in MigMap
        /\ DOMAIN Schema!With(db.ledger, v, proc[p].sums[v]) = DOMAIN db.ledger \cup {v}
    BY <1>1, <1>3, <1>4, MigFields, MigWithFact
  <2>2. \A w \in DOMAIN db.ledger : w # v => Schema!With(db.ledger, v, proc[p].sums[v])[w] = db.ledger[w]
    BY DEF Schema!With
  <2> QED
    BY <2>1, <2>2
<1>7. db' \in MigDb /\ db'.made = m /\ db'.ledger = l /\ db'.copies = db.copies
      /\ db'.undone = db.undone \ {v} /\ db'.release = db.release
  <2>1. PICK u \in SUBSET Versions : u = db.undone \ {v}
    <3>1. db.undone \ {v} \in SUBSET Versions
      BY <1>1, MigFields
    <3> QED
      BY <3>1
  <2>2. db' = [db EXCEPT !.made = m, !.undone = u, !.ledger = l]
    BY <1>2, <1>5, <1>6, <2>1
  <2> QED
    BY <1>1, <2>1, <2>2 DEF MigTyped, MigDb
<1>9. proc[p].base = db.ledger => \A w \in DOMAIN db.ledger : w < v
  BY <1>1, <1>2 DEF MigInv, MigOrdered
<1>10. MigExact'
  <2>1. Schema!Accounted(db')
    BY <1>5, <1>6, <1>7 DEF MigInv, MigExact, Schema!Accounted
  <2> QED
    BY <1>7, <2>1 DEF MigInv, MigExact
<1>11. PICK b \in MigMap : b = IF Schema!OutOfDate(p) THEN proc[p].base ELSE l
  <2>1. (IF Schema!OutOfDate(p) THEN proc[p].base ELSE l) \in MigMap
    BY <1>1, <1>6, MigFields
  <2> QED
    BY <2>1
<1>12. proc' \in [Starts -> MigWork] /\ (\A q \in Starts : q # p => proc'[q] = proc[q]) /\ proc'[p] # proc[p]
       /\ (proc'[p].at # "idle" => /\ proc'[p].at = "up" /\ proc'[p].plan = proc[p].plan \ {v}
                                   /\ proc'[p].base = b /\ proc'[p].sums = proc[p].sums)
  <2>1. CASE proc[p].plan = {v}
    BY <1>1, <1>2, <2>1, MigBack DEF Schema!At
  <2>2. CASE proc[p].plan # {v}
    <3>1. PICK rest \in SUBSET Versions : rest = proc[p].plan \ {v}
      <4>1. proc[p].plan \ {v} \in SUBSET Versions
        BY <1>1, MigFields
      <4> QED
        BY <4>1
    <3>2. PICK w \in MigWork : w = [proc[p] EXCEPT !.plan = rest, !.base = b] /\ w.at = proc[p].at
                               /\ w.plan = rest /\ w.base = b /\ w.sums = proc[p].sums
      <4>1. proc[p] \in MigWork
        BY <1>1, MigFields
      <4>2. [proc[p] EXCEPT !.plan = rest, !.base = b] \in MigWork
        BY <4>1 DEF MigWork
      <4> QED
        BY <4>1, <4>2 DEF MigWork
    <3>3. proc' = [proc EXCEPT ![p] = w]
      BY <1>2, <1>7, <1>11, <2>2, <3>1, <3>2
    <3>4. rest # proc[p].plan
      BY <1>2, <3>1
    <3> QED
      BY <1>1, <3>1, <3>2, <3>3, <3>4 DEF MigTyped, Schema!At
  <2> QED
    BY <2>1, <2>2
<1>13. MigRead'
  <2>1. DOMAIN db.made \subseteq DOMAIN db'.made
    BY <1>5, <1>7
  <2> QED
    BY <1>1, <1>12, <2>1 DEF MigInv, MigRead, Schema!At
<1>14. MigOrdered'
  <2> SUFFICES ASSUME NEW q \in Starts
      PROVE  /\ Schema!At(q, "up")' => \A u \in proc'[q].plan, w \in DOMAIN proc'[q].base : w < u
             /\ Schema!At(q, "down")' => \A u \in proc'[q].plan, w \in DOMAIN proc'[q].base \ proc'[q].plan : w < u
    BY DEF MigOrdered, Schema!At
  <2>1. CASE q # p
    BY <1>12, <2>1 DEF MigInv, MigOrdered, Schema!At
  <2>2. CASE q = p
    <3>1. \A u \in proc[p].plan \ {v} : v < u
      BY <1>1, <1>2, <1>3, MigFields, VersionsAreNat
    <3>2. \A u \in proc[p].plan, w \in DOMAIN proc[p].base : w < u
      BY <1>1 DEF MigInv, MigOrdered
    <3>3. \A u \in proc[p].plan \ {v}, w \in DOMAIN b : w < u
      BY <1>6, <1>11, <3>1, <3>2 DEF Schema!OutOfDate
    <3> QED
      BY <1>12, <2>2, <3>3 DEF Schema!At
  <2> QED
    BY <2>1, <2>2
<1>15. Schema!Orderly
  <2>1. Schema!RowsStay
    BY <1>2, <1>6, <1>7 DEF Schema!RowsStay, Schema!Applied
  <2>2. Schema!OutOfDate(p) => Schema!Overtaken
    BY <1>1, <1>12 DEF Schema!Overtaken, Schema!At
  <2>3. ~Schema!OutOfDate(p) => Schema!Above(db'.ledger, db.ledger) /\ Schema!Above(db.ledger, db'.ledger)
    BY <1>6, <1>7, <1>9 DEF Schema!OutOfDate, Schema!Above
  <2> QED
    BY <1>10, <2>1, <2>2, <2>3 DEF Schema!Orderly, MigExact
<1> QED
  BY <1>1, <1>7, <1>10, <1>12, <1>13, <1>14, <1>15 DEF MigInv, MigTyped

LEMMA MigFailStep ==
  ASSUME MigInv, NEW p \in Starts, Schema!Back(p), UNCHANGED <<files, db, hist>>
  PROVE  MigInv'
<1>1. MigTyped
  BY DEF MigInv
<1>2. proc' \in [Starts -> MigWork] /\ proc'[p].at = "idle" /\ \A q \in Starts : q # p => proc'[q] = proc[q]
  BY <1>1, MigBack
<1> QED
  BY <1>1, <1>2 DEF MigInv, MigTyped, MigRead, MigExact, MigOrdered, Schema!At

LEMMA MigRollBackStep == ASSUME MigInv, NEW p \in Starts, Schema!RollBack(p) PROVE MigInv' /\ [Schema!Orderly]_db
<1>1. MigTyped /\ Schema!At(p, "down") /\ Schema!Back(p) /\ UNCHANGED <<files, hist>>
  BY DEF MigInv, Schema!RollBack
<1>2. CASE UNCHANGED db
  BY <1>1, <1>2, MigFailStep
<1>3. CASE db' = [db EXCEPT !.undone = @ \cup proc[p].plan, !.ledger = Schema!Without(@, proc[p].plan)]
  <2>1. PICK u \in SUBSET Versions : u = db.undone \cup proc[p].plan
    <3>1. db.undone \cup proc[p].plan \in SUBSET Versions
      BY <1>1, MigFields
    <3> QED
      BY <3>1
  <2>2. PICK l \in MigMap : /\ l = Schema!Without(db.ledger, proc[p].plan) /\ DOMAIN l = DOMAIN db.ledger \ proc[p].plan
                            /\ \A w \in DOMAIN l : l[w] = db.ledger[w]
    <3>1. Schema!Without(db.ledger, proc[p].plan) \in MigMap
          /\ DOMAIN Schema!Without(db.ledger, proc[p].plan) = DOMAIN db.ledger \ proc[p].plan
      BY <1>1, MigFields, MigWithoutFact
    <3>2. \A w \in DOMAIN db.ledger \ proc[p].plan : Schema!Without(db.ledger, proc[p].plan)[w] = db.ledger[w]
      BY DEF Schema!Without, Schema!Restrict
    <3> QED
      BY <3>1, <3>2
  <2>3. db' = [db EXCEPT !.undone = u, !.ledger = l]
    BY <1>3, <2>1, <2>2
  <2>4. db' \in MigDb /\ db'.made = db.made /\ db'.undone = u /\ db'.ledger = l /\ db'.copies = db.copies
        /\ db'.release = db.release
    BY <1>1, <2>3 DEF MigTyped, MigDb
  <2>5. MigExact'
    <3>1. proc[p].plan \subseteq DOMAIN db.made
      BY <1>1 DEF MigInv, MigRead
    <3>2. Schema!Accounted(db')
      BY <2>1, <2>2, <2>4, <3>1 DEF MigInv, MigExact, Schema!Accounted
    <3> QED
      BY <2>4, <3>2 DEF MigInv, MigExact
  <2>6. proc' \in [Starts -> MigWork] /\ proc'[p].at = "idle" /\ \A q \in Starts : q # p => proc'[q] = proc[q]
    BY <1>1, MigBack
  <2>7. MigRead' /\ MigOrdered'
    BY <1>1, <2>4, <2>6 DEF MigInv, MigRead, MigOrdered, Schema!At
  <2>8. proc[p].base = db.ledger =>
          \A v \in DOMAIN db.ledger \cap proc[p].plan, w \in DOMAIN db.ledger \ proc[p].plan : w < v
    BY <1>1 DEF MigInv, MigOrdered
  <2>9. Schema!Orderly
    <3>1. Schema!RowsStay
      BY <2>2, <2>4, <1>1, MigFields DEF Schema!RowsStay
    <3>2. Schema!OutOfDate(p) => Schema!Overtaken
      BY <1>1, <2>6 DEF Schema!Overtaken, Schema!At
    <3>3. ~Schema!OutOfDate(p) => Schema!Above(db'.ledger, db.ledger) /\ Schema!Above(db.ledger, db'.ledger)
      BY <2>2, <2>4, <2>8 DEF Schema!OutOfDate, Schema!Above
    <3> QED
      BY <2>5, <3>1, <3>2, <3>3 DEF Schema!Orderly, MigExact
  <2> QED
    BY <1>1, <2>4, <2>5, <2>6, <2>7, <2>9 DEF MigInv, MigTyped
<1> QED
  BY <1>2, <1>3 DEF Schema!RollBack

LEMMA MigRestoreStep == ASSUME MigInv, NEW c \in db.copies, Schema!RestoreBackup(c) PROVE MigInv' /\ Schema!Orderly
<1>1. MigTyped /\ c \in MigCopy /\ Schema!Accounted(c) /\ UNCHANGED <<files, proc, hist>> /\ Schema!Quiet
  BY MigFields DEF MigInv, MigExact, Schema!RestoreBackup
<1>2. db' = Schema!Restored(c)
  BY DEF Schema!RestoreBackup
<1>3. db' \in MigDb /\ db'.made = c.made /\ db'.undone = c.undone /\ db'.ledger = c.ledger /\ db'.copies = db.copies
  BY <1>1, <1>2 DEF MigTyped, MigDb, MigCopy, Schema!Restored
<1>4. MigExact'
  <2>1. Schema!Accounted(db')
    BY <1>1, <1>3 DEF Schema!Accounted
  <2> QED
    BY <1>3, <2>1 DEF MigInv, MigExact
<1>5. Schema!Orderly
  BY <1>1, <1>2, <1>4 DEF Schema!Orderly, MigExact
<1>6. MigRead' /\ MigOrdered'
  BY <1>1 DEF MigInv, MigRead, MigOrdered, Schema!At, Schema!Quiet
<1> QED
  BY <1>1, <1>3, <1>4, <1>5, <1>6 DEF MigInv, MigTyped

LEMMA MigReleaseStep ==
  ASSUME MigInv, Schema!ApplyRelease \/ Schema!RevertRelease
  PROVE  MigInv' /\ Schema!Orderly
<1>1. MigTyped /\ UNCHANGED <<files, proc, hist>>
  BY DEF MigInv, Schema!ApplyRelease, Schema!RevertRelease
<1>2. files.release \in Texts /\ db.release.active \in BOOLEAN /\ db.release \in MigRelease
  BY <1>1 DEF MigTyped, MigDisk, MigDb, MigRelease
<1>3. PICK r \in MigRelease : db' = [db EXCEPT !.release = r] /\ db.release.sum \in {0, r.sum}
  <2>1. [sum |-> files.release, active |-> TRUE] \in MigRelease
        /\ [db.release EXCEPT !.active = FALSE] \in MigRelease
        /\ [db.release EXCEPT !.active = FALSE].sum = db.release.sum
    BY <1>2 DEF MigRelease
  <2>2. CASE Schema!ApplyRelease
    BY <2>1, <2>2 DEF Schema!ApplyRelease
  <2>3. CASE Schema!RevertRelease
    <3>1. PICK r \in MigRelease : r = [db.release EXCEPT !.active = FALSE] /\ r.sum = db.release.sum
      BY <2>1
    <3>2. db' = [db EXCEPT !.release = r]
      BY <2>3, <3>1, <1>1 DEF Schema!RevertRelease, MigTyped, MigDb
    <3> QED
      BY <3>1, <3>2
  <2> QED
    BY <2>2, <2>3
<1>4. db' \in MigDb /\ db'.made = db.made /\ db'.undone = db.undone /\ db'.ledger = db.ledger
      /\ db'.copies = db.copies /\ db'.release = r
  BY <1>1, <1>3 DEF MigTyped, MigDb
<1>5. MigInv'
  <2>1. Schema!Accounted(db')
    BY <1>4 DEF MigInv, MigExact, Schema!Accounted
  <2>2. MigExact'
    BY <1>4, <2>1 DEF MigInv, MigExact
  <2> QED
    BY <1>1, <1>4, <2>2 DEF MigInv, MigTyped, MigRead, MigOrdered, Schema!At
<1>6. Schema!Orderly
  BY <1>3, <1>4, <1>5 DEF Schema!Orderly, Schema!Above, Schema!RowsStay, MigInv, MigExact
<1> QED
  BY <1>5, <1>6

LEMMA MigStep == ASSUME MigInv, [Schema!Next]_(Schema!vars) PROVE MigInv' /\ [Schema!Orderly]_db
<1>1. ASSUME MigInv', db'.ledger = db.ledger, db'.release = db.release PROVE Schema!Orderly
  <2>1. db.release.sum \in {0, db'.release.sum}
    BY <1>1
  <2> QED
    BY <1>1, <2>1 DEF MigInv, MigExact, Schema!Orderly, Schema!Above, Schema!RowsStay
<1>2. CASE \/ \E v \in Versions, t \in Texts : Schema!Edit(v, t)
           \/ \E t \in Texts : Schema!EditRelease(t)
  <2>1. UNCHANGED db
    BY <1>2 DEF Schema!Edit, Schema!EditRelease
  <2> QED
    BY <1>2, <2>1, MigEditStep
<1>3. ASSUME NEW p \in Starts, Schema!Plan(p) \/ \E n \in {0} \cup Versions : Schema!PlanBack(p, n) PROVE MigInv' /\ [Schema!Orderly]_db
  <2>1. db'.ledger = db.ledger /\ db'.release = db.release
    BY <1>3 DEF Schema!Plan, Schema!PlanBack, Schema!Backup, MigInv, MigTyped, MigDb
  <2>2. MigInv'
    BY <1>3, MigPlanStep, MigPlanBackStep
  <2> QED
    BY <1>1, <2>1, <2>2
<1>4. ASSUME NEW p \in Starts, Schema!Fail(p) \/ Schema!Crash(p) PROVE MigInv' /\ [Schema!Orderly]_db
  BY <1>4, MigFailStep DEF Schema!Fail, Schema!Crash
<1>5. CASE Schema!ApplyRelease \/ Schema!RevertRelease
  BY <1>5, MigReleaseStep
<1>6. CASE UNCHANGED Schema!vars
  BY <1>6 DEF MigInv, MigTyped, MigRead, MigExact, MigOrdered, Schema!At, Schema!vars
<1> QED
  BY <1>2, <1>3, <1>4, <1>5, <1>6, MigApplyStep, MigRollBackStep, MigRestoreStep DEF Schema!Next

LEMMA SchemaPart == SuiteSpec => [](part = "schema" => MigInv)
<1>1. SuiteInit => (part = "schema" => MigInv)
  BY MigInit DEF SuiteInit
<1>2. (part = "schema" => MigInv) /\ [SuiteNext]_suiteVars => (part = "schema" => MigInv)'
  <2> SUFFICES ASSUME part = "schema", MigInv, [SuiteNext]_suiteVars PROVE MigInv'
    BY DEF SuiteNext, suiteVars
  <2>1. [Schema!Next]_(Schema!vars)
    BY DEF SuiteNext, suiteVars, state, Schema!vars
  <2> QED
    BY <2>1, MigStep
<1> QED
  BY <1>1, <1>2, PTL DEF SuiteSpec

\* app/migrations.py: in the database and in every copy of it a version is in the
\* ledger exactly when its SQL was carried out and no down script has undone it
\* since; but for restored copies no row changes while it stays, and but for the
\* steps of a process whose plan another one had overtaken a migration enters above
\* all others and leaves with what is above it; for any versions that are numbers,
\* any texts and any processes.
THEOREM LedgerIsAlwaysTheSchema == SuiteSpec => LedgerIsTheSchema
<1>1. (part = "schema" => MigInv) /\ [SuiteNext]_suiteVars => [part = "schema" => Schema!Orderly]_db
  <2> SUFFICES ASSUME part = "schema", MigInv, [SuiteNext]_suiteVars, db' # db PROVE Schema!Orderly
    BY DEF SuiteNext, suiteVars
  <2>1. [Schema!Next]_(Schema!vars)
    BY DEF SuiteNext, suiteVars, state, Schema!vars
  <2> QED
    BY <2>1, MigStep
<1> QED
  BY <1>1, SchemaPart, PTL DEF SuiteSpec, LedgerIsTheSchema

-----------------------------------------------------------------------------
(* LLMBudget *)

CallsDb == [rows : Nat, spent : [Model!Charged -> Nat], day : Nat, cache : [Prompts -> {"none", "json", "prose"}], today : {1, 2}]
CallsProc == [at : {"idle", "calling", "backoff", "heuristic"}, i : 0 .. NProviders + 1, attempt : Nat, prompt : Prompts \cup {"none"}]
CallsResults == {"none", "cached", "fallback", "broken", "invalid", "refused", "answered", "heuristic", "unavailable",
                 "error", "cancelled"}
CallsHist == [failed : [Calls -> [1 .. NProviders -> Nat]], from : [Calls -> 0 .. NProviders + 1],
              result : [Calls -> CallsResults]]

CallsTyped == db \in CallsDb /\ proc \in [Calls -> CallsProc] /\ hist \in CallsHist

CallsBusy == {c \in Calls : proc[c].at # "idle"}
CallsBusyFor(s) == {c \in CallsBusy : Scan(c) = s}

\* What is spent leaves room for the calls in flight.
CallsRoom(spent, busy, limit) ==
  spent + Model!Projected + Cardinality(busy) * Model!Worst <= limit + Cardinality(Calls) * Model!Worst

CallsRoomLeft ==
  /\ \A s \in Model!Charged : CallsRoom(db.spent[s], CallsBusyFor(s), ScanLimit)
  /\ CallsRoom(db.day, CallsBusy, DayLimit)
  /\ CallsBusy # {} => Model!Projected <= DayLimit

\* Who was tried of a call: every enabled provider before the one at hand had all
\* its attempts, none after it had any.
CallsTriedAll(f) == \A j \in Model!EnabledFrom(1) : f[j] = Retries + 1

CallsTriedTo(w, f) ==
  /\ w.i \in Model!EnabledFrom(1)
  /\ \A j \in Model!EnabledFrom(1) : (j < w.i => f[j] = Retries + 1) /\ (j > w.i => f[j] = 0)
  /\ w.at = "calling" => f[w.i] = w.attempt /\ w.attempt <= Retries
  /\ w.at = "backoff" => f[w.i] = w.attempt + 1 /\ w.attempt < Retries

\* What a call that ended at place k with result r leaves.
CallsEnded(r, k, f) ==
  /\ r \in {"heuristic", "unavailable"} => k = NProviders + 1
  /\ \A j \in Model!EnabledFrom(1) : (j < k => f[j] = Retries + 1) /\ (j = k => f[j] <= Retries) /\ (j > k => f[j] = 0)

CallsTried(c) ==
  /\ proc[c].at \in {"calling", "backoff"} => CallsTriedTo(proc[c], hist.failed[c])
  /\ proc[c].at = "heuristic" => proc[c].i = NProviders + 1 /\ CallsTriedAll(hist.failed[c])
  /\ proc[c].at # "idle" => hist.result[c] = "none"
  /\ hist.result[c] # "none" => CallsEnded(hist.result[c], hist.from[c], hist.failed[c])

CallsInv == CallsTyped /\ CallsRoomLeft /\ \A c \in Calls : CallsTried(c)

-----------------------------------------------------------------------------

\* A set of numbers has a smallest one, and a finite one a largest.
LEMMA CallsMinExists ==
  ASSUME NEW S \in SUBSET Nat, S # {}
  PROVE  Model!Min(S) \in S /\ \A x \in S : Model!Min(S) <= x
<1>1. PICK R : R = OpToRel(<, Nat) /\ IsWellFoundedOn(R, Nat)
  BY NatLessThanWellFounded, Zenon
<1>2. PICK m \in S : \A x \in S : <<x, m>> \notin R
  <2>1. S \subseteq Nat
    OBVIOUS
  <2>2. \E m \in S : \A x \in S : ~(<<x, m>> \in R)
    BY <1>1, <2>1, WFMin, Zenon
  <2> QED
    BY <2>2
<1>3. \A x \in S : x < m => <<x, m>> \in R
  <2>1. R = {z \in Nat \X Nat : z[1] < z[2]}
    BY <1>1, Zenon DEF OpToRel
  <2>2. ASSUME NEW x \in S, x < m PROVE <<x, m>> \in R
    <3>1. <<x, m>> \in Nat \X Nat /\ <<x, m>>[1] = x /\ <<x, m>>[2] = m
      OBVIOUS
    <3>2. <<x, m>>[1] < <<x, m>>[2]
      BY <2>2, <3>1
    <3> QED
      BY <2>1, <3>1, <3>2, Zenon
  <2> QED
    BY <2>2
<1>4. ASSUME NEW x \in S PROVE m <= x
  <2>1. ~(x < m)
    BY <1>2, <1>3
  <2> QED
    BY <2>1
<1> QED
  BY <1>4 DEF Model!Min

LEMMA CallsMaxExists ==
  ASSUME NEW S \in SUBSET Nat, S # {}, IsFiniteSet(S)
  PROVE  Model!Max(S) \in S /\ \A x \in S : x <= Model!Max(S)
<1>0. PICK n \in Nat : ExistsSurjection(1 .. n, S)
  BY FS_NatSurjection
<1>1. PICK f \in [1 .. n -> S] : \A x \in S : \E i \in 1 .. n : f[i] = x
  BY <1>0 DEF ExistsSurjection, Surjection
<1> DEFINE Bounded(k) == \E m \in Nat : \A i \in 1 .. k : f[i] <= m
           Bad == {k \in 0 .. n : ~Bounded(k)}
<1>2. Bad = {}
  <2> SUFFICES ASSUME Bad # {} PROVE FALSE
    OBVIOUS
  <2>1. Bad \in SUBSET Nat
    OBVIOUS
  <2>2. PICK k \in Bad : \A x \in Bad : k <= x
    BY <2>1, CallsMinExists
  <2>3. k \in 0 .. n /\ k \in Nat /\ ~Bounded(k)
    OBVIOUS
  <2> HIDE DEF Bounded
  <2>4. k # 0
    <3>1. \A i \in 1 .. 0 : f[i] <= 0
      OBVIOUS
    <3>2. Bounded(0)
      BY <3>1 DEF Bounded
    <3> QED
      BY <2>3, <3>2
  <2>5. k - 1 \in 0 .. n /\ k - 1 < k
    BY <2>3, <2>4
  <2>6. Bounded(k - 1)
    <3>1. k - 1 \notin Bad
      BY <2>2, <2>3, <2>5
    <3> QED
      BY <2>5, <3>1
  <2>7. PICK m \in Nat : \A i \in 1 .. (k - 1) : f[i] <= m
    BY <2>6 DEF Bounded
  <2>8. f[k] \in Nat
    <3>1. k \in 1 .. n
      BY <2>3, <2>4
    <3>2. f[k] \in S
      BY <3>1
    <3> QED
      BY <3>2
  <2>9. PICK b \in Nat : b >= m /\ b >= f[k]
    BY <2>8
  <2>10. \A i \in 1 .. k : f[i] <= b
    <3> SUFFICES ASSUME NEW i \in 1 .. k PROVE f[i] <= b
      OBVIOUS
    <3>1. CASE i = k
      BY <2>9, <3>1
    <3>2. CASE i # k
      <4>1. i \in 1 .. (k - 1) /\ i \in 1 .. n
        BY <2>3, <3>2
      <4>2. f[i] \in Nat /\ f[i] <= m
        BY <2>7, <4>1
      <4> QED
        BY <2>9, <4>2
    <3> QED
      BY <3>1, <3>2
  <2> QED
    BY <2>3, <2>9, <2>10 DEF Bounded
<1>3. PICK m \in Nat : \A i \in 1 .. n : f[i] <= m
  <2>1. n \in 0 .. n
    OBVIOUS
  <2>2. Bounded(n)
    BY <1>2, <2>1
  <2> QED
    BY <2>2
<1>4. \A x \in S : x <= m
  BY <1>1, <1>3
<1> DEFINE U == {u \in Nat : \A x \in S : x <= u}
<1>5. U \in SUBSET Nat /\ U # {}
  BY <1>4
<1>6. PICK u \in U : \A v \in U : u <= v
  BY <1>5, CallsMinExists
<1>7. u \in S
  <2> SUFFICES ASSUME u \notin S PROVE FALSE
    OBVIOUS
  <2>1. \A x \in S : x \in Nat /\ x < u
    <3>1. u \in Nat /\ \A x \in S : x \in Nat /\ x <= u /\ x # u
      OBVIOUS
    <3> QED
      BY <3>1
  <2>2. PICK y \in S : y \in Nat /\ y < u
    BY <2>1
  <2>3. u - 1 \in Nat /\ \A x \in S : x <= u - 1
    BY <2>1, <2>2
  <2>4. u - 1 \in U
    BY <2>3
  <2> QED
    BY <1>6, <2>3, <2>4
<1>8. \E x \in S : \A y \in S : x >= y
  BY <1>7
<1>9. Model!Max(S) \in S /\ \A y \in S : Model!Max(S) >= y
  BY <1>8 DEF Model!Max
<1> QED
  BY <1>9

-----------------------------------------------------------------------------

LEMMA CallsProjectedFact ==
  Model!Projected \in Nat /\ Model!Worst \in Nat /\ Model!Projected <= Model!Worst /\ \A t \in Answers : Input + t \in Nat /\ Input + t <= Model!Worst
<1>1. PICK w \in Answers : w = Model!Max(Answers) /\ \A t \in Answers : t <= w
  <2>1. Answers \in SUBSET Nat /\ Answers # {} /\ IsFiniteSet(Answers)
    BY CallsAssumption
  <2> QED
    BY <2>1, CallsMaxExists
<1>2. Input \in Nat /\ w \in Nat /\ w # 0
  <2>1. Answers \ {0} # {} /\ Answers \subseteq Nat /\ Input \in Nat
    BY CallsAssumption
  <2>2. PICK t \in Answers : t # 0
    BY <2>1
  <2>3. t \in Nat /\ w \in Nat /\ t <= w
    BY <1>1, <2>1
  <2> QED
    BY <2>1, <2>2, <2>3
<1>3. Model!Worst = Input + w
  BY <1>1 DEF Model!Worst
<1>4. PICK n \in Nat : n <= w /\ Model!Projected = Input + n
  <2>1. CASE Model!Outputs = {}
    <3>1. \A i \in Model!EnabledFrom(1) : FALSE
      <4> SUFFICES ASSUME NEW i \in Model!EnabledFrom(1) PROVE FALSE
        OBVIOUS
      <4>1. Provider(i).out \in Model!Outputs
        BY DEF Model!Outputs
      <4> QED
        BY <2>1, <4>1
    <3>2. \A i \in 1 .. NProviders : ~Provider(i).enabled
      BY <3>1 DEF Model!EnabledFrom
    <3>3. \E t \in Answers : 2048 <= t
      BY <3>2, CallsAssumption
    <3>4. PICK t \in Answers : 2048 <= t
      BY <3>3
    <3>5. Answers \subseteq Nat
      BY CallsAssumption
    <3>6. 2048 <= w
      <4>1. t \in Nat /\ t <= w /\ w \in Nat
        BY <1>1, <1>2, <3>4, <3>5
      <4> QED
        BY <3>4, <4>1
    <3>7. Model!Projected = Input + 2048
      BY <2>1 DEF Model!Projected
    <3> QED
      BY <3>6, <3>7
  <2>2. CASE Model!Outputs # {}
    <3>1. \A o \in Model!Outputs : o \in Nat /\ o <= w
      <4>1. Model!EnabledFrom(1) \subseteq 1 .. NProviders
        BY CallsAssumption DEF Model!EnabledFrom
      <4>2. \A i \in 1 .. NProviders : Provider(i).out \in Nat /\ Provider(i).out <= w
        BY <1>1, <1>2, CallsAssumption
      <4> QED
        BY <4>1, <4>2 DEF Model!Outputs
    <3>2. Model!Outputs \in SUBSET Nat /\ IsFiniteSet(Model!Outputs)
      <4>1. Model!Outputs \in SUBSET (0 .. w)
        BY <1>2, <3>1
      <4>2. IsFiniteSet(0 .. w)
        BY <1>2, FS_Interval
      <4>3. IsFiniteSet(Model!Outputs)
        BY <4>1, <4>2, FS_Subset
      <4> QED
        BY <1>2, <4>1, <4>3
    <3>3. Model!Max(Model!Outputs) \in Model!Outputs
      BY <2>2, <3>2, CallsMaxExists
    <3> QED
      BY <2>2, <3>1, <3>3 DEF Model!Projected
  <2> QED
    BY <2>1, <2>2
<1> QED
  BY <1>1, <1>2, <1>3, <1>4, CallsAssumption

LEMMA CallsTimesFact ==
  ASSUME NEW w \in Nat
  PROVE  /\ \A a \in Nat : a * w \in Nat
         /\ \A a, b \in Nat : a <= b => a * w <= b * w
         /\ \A a \in Nat : (a + 1) * w = a * w + w
<1>1. \A a, b \in Nat : a * b \in Nat
  OBVIOUS
<1>2. ASSUME NEW a \in Nat, NEW b \in Nat, a <= b PROVE a * w <= b * w
  <2>1. PICK c \in Nat : b = a + c
    <3>1. b - a \in Nat /\ b = a + (b - a)
      BY <1>2
    <3> QED
      BY <3>1
  <2>2. b * w = a * w + c * w
    BY <2>1
  <2>3. c * w \in Nat /\ a * w \in Nat
    BY <1>1
  <2> QED
    BY <2>2, <2>3
<1> QED
  BY <1>1, <1>2

\* The calls in flight are no more than the calls.
LEMMA CallsBusyFact ==
  /\ Cardinality(Calls) \in Nat
  /\ \A b \in SUBSET Calls : /\ IsFiniteSet(b) /\ Cardinality(b) \in Nat /\ Cardinality(b) <= Cardinality(Calls)
                             /\ b # {} => Cardinality(b) # 0
  /\ Cardinality({}) = 0 /\ Cardinality(Calls) # 0
  /\ \A b \in SUBSET Calls : \A c \in b : Cardinality(b) = Cardinality(b \ {c}) + 1
<1>1. IsFiniteSet(Calls) /\ Calls # {}
  BY CallsAssumption
<1>2. Cardinality(Calls) \in Nat
  BY <1>1, FS_CardinalityType
<1>3. ASSUME NEW b \in SUBSET Calls
      PROVE  IsFiniteSet(b) /\ Cardinality(b) \in Nat /\ Cardinality(b) <= Cardinality(Calls)
             /\ (b # {} => Cardinality(b) # 0)
  <2>1. IsFiniteSet(b) /\ Cardinality(b) <= Cardinality(Calls)
    BY <1>1, FS_Subset
  <2>2. Cardinality(b) \in Nat /\ (b # {} => Cardinality(b) # 0)
    BY <2>1, FS_CardinalityType, FS_EmptySet
  <2> QED
    BY <2>1, <2>2
<1>4. Cardinality({}) = 0
  BY FS_EmptySet
<1>5. ASSUME NEW b \in SUBSET Calls, NEW c \in b PROVE Cardinality(b) = Cardinality(b \ {c}) + 1
  <2>1. IsFiniteSet(b) /\ Cardinality(b) \in Nat
    BY <1>3
  <2>2. Cardinality(b \ {c}) = Cardinality(b) - 1
    BY <2>1, FS_RemoveElement
  <2> QED
    BY <2>1, <2>2
<1>6. Cardinality(Calls) # 0
  <2>1. Calls \in SUBSET Calls
    OBVIOUS
  <2> QED
    BY <1>1, <1>3, <2>1
<1> QED
  BY <1>2, <1>3, <1>4, <1>5, <1>6

\* There is room for those who call when nothing is spent or a call was admitted,
\* when a call ends, spending the longest text at most, and when nothing changes.
LEMMA CallsRoomFact ==
  ASSUME NEW limit \in Nat, NEW b \in SUBSET Calls, NEW t \in Nat
  PROVE  /\ t + Model!Projected <= limit => CallsRoom(t, b, limit)
         /\ CallsRoom(0, {}, limit)
         /\ Model!Projected <= limit \/ b = {} => CallsRoom(0, b, limit)
         /\ \A c \in b, n \in 0 .. Model!Worst : CallsRoom(t, b, limit) => CallsRoom(t + n, b \ {c}, limit)
         /\ \A d \in SUBSET b : CallsRoom(t, b, limit) => CallsRoom(t, d, limit)
<1>1. PICK w \in Nat, p \in Nat : w = Model!Worst /\ p = Model!Projected /\ p <= w
  BY CallsProjectedFact
<1>2. PICK k \in Nat, m \in Nat : /\ k = Cardinality(b) /\ m = Cardinality(Calls) /\ k <= m /\ m # 0
                                  /\ \A c \in b : k = Cardinality(b \ {c}) + 1
  BY CallsBusyFact
<1>3. PICK kw \in Nat, mw \in Nat : kw = k * w /\ mw = m * w /\ kw <= mw
  BY <1>2, CallsTimesFact
<1>4. \A u : CallsRoom(u, b, limit) <=> u + p + kw <= limit + mw
  BY <1>1, <1>2, <1>3 DEF CallsRoom
<1>5. w <= mw
  <2>1. 1 <= m /\ 1 * w = w
    BY <1>2
  <2> QED
    BY <1>3, <2>1, CallsTimesFact
<1>6. CallsRoom(0, {}, limit)
  <2>1. Cardinality({}) * Model!Worst = 0
    BY <1>1, CallsBusyFact
  <2> QED
    BY <1>1, <1>2, <1>3, <1>5, <2>1 DEF CallsRoom
<1>7. ASSUME NEW c \in b, NEW n \in 0 .. Model!Worst, CallsRoom(t, b, limit) PROVE CallsRoom(t + n, b \ {c}, limit)
  <2>1. PICK l \in Nat : l = Cardinality(b \ {c}) /\ k = l + 1
    <3>1. b \ {c} \in SUBSET Calls
      OBVIOUS
    <3>2. Cardinality(b \ {c}) \in Nat
      BY <3>1, CallsBusyFact
    <3> QED
      BY <1>2, <3>2
  <2>2. PICK lw \in Nat : lw = l * w /\ kw = lw + w
    BY <1>3, <2>1, CallsTimesFact
  <2>3. t + p + kw <= limit + mw
    BY <1>4, <1>7
  <2>4. t + n + p + lw <= limit + mw
    BY <1>1, <2>2, <2>3
  <2> QED
    BY <1>1, <1>2, <1>3, <2>1, <2>2, <2>4 DEF CallsRoom
<1>8. ASSUME NEW d \in SUBSET b, CallsRoom(t, b, limit) PROVE CallsRoom(t, d, limit)
  <2>1. PICK l \in Nat : l = Cardinality(d) /\ l <= k
    <3>1. IsFiniteSet(b)
      BY CallsBusyFact
    <3>2. IsFiniteSet(d) /\ Cardinality(d) <= Cardinality(b) /\ Cardinality(d) \in Nat
      BY <3>1, FS_Subset, FS_CardinalityType
    <3> QED
      BY <1>2, <3>2
  <2>2. PICK lw \in Nat : lw = l * w /\ lw <= kw
    BY <1>3, <2>1, CallsTimesFact
  <2>3. t + p + kw <= limit + mw
    BY <1>4, <1>8
  <2>4. t + p + lw <= limit + mw
    BY <1>1, <2>2, <2>3
  <2> QED
    BY <1>1, <1>2, <1>3, <2>1, <2>2, <2>4 DEF CallsRoom
<1>9. t + Model!Projected <= limit => CallsRoom(t, b, limit)
  BY <1>1, <1>3, <1>4
<1>10. Model!Projected <= limit \/ b = {} => CallsRoom(0, b, limit)
  <2>1. CASE b = {}
    BY <1>6, <2>1
  <2>2. CASE Model!Projected <= limit
    BY <1>1, <1>3, <1>4, <2>2
  <2> QED
    BY <2>1, <2>2
<1> QED
  BY <1>6, <1>7, <1>8, <1>9, <1>10

LEMMA CallsFields ==
  ASSUME CallsTyped
  PROVE  /\ db.spent \in [Model!Charged -> Nat] /\ db.day \in Nat
         /\ \A c \in Calls : /\ proc[c] \in CallsProc /\ proc[c].at \in {"idle", "calling", "backoff", "heuristic"}
                             /\ proc[c].i \in 0 .. NProviders + 1 /\ proc[c].attempt \in Nat
                             /\ proc[c].prompt \in Prompts \cup {"none"}
                             /\ hist.failed[c] \in [1 .. NProviders -> Nat] /\ Scan(c) \in Model!Charged
  BY DEF CallsTyped, CallsDb, CallsProc, CallsHist, Model!Charged

LEMMA CallsIdleFact == Model!Idle \in CallsProc /\ Model!Idle.at = "idle"
  BY CallsAssumption DEF Model!Idle, CallsProc

LEMMA CallsInit == Model!Init => CallsInv
<1> SUFFICES ASSUME Model!Init PROVE CallsInv
  OBVIOUS
<1>1. CallsTyped
  <2>1. proc \in [Calls -> CallsProc]
    BY CallsIdleFact DEF Model!Init
  <2>2. db \in CallsDb
    BY DEF Model!Init, CallsDb
  <2>3. hist \in CallsHist
    BY CallsAssumption DEF Model!Init, CallsHist, CallsResults, Model!NoTries
  <2> QED
    BY <2>1, <2>2, <2>3 DEF CallsTyped
<1>2. CallsBusy = {} /\ \A s : CallsBusyFor(s) = {}
  BY DEF Model!Init, CallsBusy, CallsBusyFor, Model!Idle
<1>3. (\A s \in Model!Charged : db.spent[s] = 0) /\ db.day = 0
  BY DEF Model!Init
<1>4. \A limit \in Nat : CallsRoom(0, {}, limit)
  <2>1. {} \in SUBSET Calls /\ 0 \in Nat
    OBVIOUS
  <2> QED
    BY <2>1, CallsRoomFact
<1>5. CallsRoomLeft
  <2>1. ScanLimit \in Nat /\ DayLimit \in Nat
    BY CallsAssumption
  <2> QED
    BY <1>2, <1>3, <1>4, <2>1 DEF CallsRoomLeft
<1>6. \A c \in Calls : CallsTried(c)
  BY DEF Model!Init, Model!Idle, CallsTried
<1> QED
  BY <1>1, <1>5, <1>6 DEF CallsInv

\* Nothing is charged, and no call begins.
LEMMA CallsRoomStays ==
  ASSUME CallsInv, db'.spent = db.spent, db'.day = db.day,
         \A c \in Calls : proc'[c].at # "idle" => proc[c].at # "idle"
  PROVE  CallsRoomLeft'
<1>1. CallsTyped /\ CallsRoomLeft /\ ScanLimit \in Nat /\ DayLimit \in Nat
  BY CallsAssumption DEF CallsInv
<1>2. CallsBusy' \in SUBSET CallsBusy /\ CallsBusy \in SUBSET Calls
  BY DEF CallsBusy
<1>3. \A s : CallsBusyFor(s)' \in SUBSET CallsBusyFor(s) /\ CallsBusyFor(s) \in SUBSET Calls
  BY DEF CallsBusy, CallsBusyFor
<1>4. ASSUME NEW s \in Model!Charged PROVE CallsRoom(db'.spent[s], CallsBusyFor(s)', ScanLimit)
  <2>1. db.spent[s] \in Nat /\ CallsRoom(db.spent[s], CallsBusyFor(s), ScanLimit)
    BY <1>1, CallsFields DEF CallsRoomLeft
  <2> QED
    BY <1>1, <1>3, <2>1, CallsRoomFact
<1>5. CallsRoom(db'.day, CallsBusy', DayLimit)
  <2>1. db.day \in Nat /\ CallsRoom(db.day, CallsBusy, DayLimit)
    BY <1>1, CallsFields DEF CallsRoomLeft
  <2> QED
    BY <1>1, <1>2, <2>1, CallsRoomFact
<1> QED
  BY <1>1, <1>2, <1>4, <1>5 DEF CallsRoomLeft

\* A call ends, and its text is charged.
LEMMA CallsRoomCharged ==
  ASSUME CallsInv, NEW c \in Calls, NEW t \in Answers, proc[c].at # "idle", proc'[c].at = "idle",
         \A d \in Calls : d # c => proc'[d] = proc[d],
         db'.day = db.day + Input + t,
         \A s \in Model!Charged : db'.spent[s] = db.spent[s] + (IF s = Scan(c) THEN Input + t ELSE 0)
  PROVE  CallsRoomLeft'
<1>1. CallsTyped /\ CallsRoomLeft /\ ScanLimit \in Nat /\ DayLimit \in Nat
  BY CallsAssumption DEF CallsInv
<1>2. PICK n \in 0 .. Model!Worst : n = Input + t
  <2>1. Input + t \in 0 .. Model!Worst
    BY CallsProjectedFact
  <2> QED
    BY <2>1
<1>3. CallsBusy' = CallsBusy \ {c} /\ c \in CallsBusy /\ CallsBusy \in SUBSET Calls
  BY DEF CallsBusy
<1>4. \A s : CallsBusyFor(s)' = CallsBusyFor(s) \ {c} /\ (s = Scan(c) => c \in CallsBusyFor(s)) /\ CallsBusyFor(s) \in SUBSET Calls
  BY <1>3 DEF CallsBusyFor, CallsBusy
<1>5. ASSUME NEW s \in Model!Charged PROVE CallsRoom(db'.spent[s], CallsBusyFor(s)', ScanLimit)
  <2>1. PICK u \in Nat : u = db.spent[s] /\ CallsRoom(u, CallsBusyFor(s), ScanLimit)
    BY <1>1, CallsFields DEF CallsRoomLeft
  <2>2. CASE s = Scan(c)
    <3>1. CallsRoom(u + n, CallsBusyFor(s) \ {c}, ScanLimit)
      BY <1>1, <1>4, <2>1, <2>2, CallsRoomFact
    <3>2. db'.spent[s] = u + n
      BY <1>2, <2>1, <2>2
    <3> QED
      BY <1>4, <3>1, <3>2
  <2>3. CASE s # Scan(c)
    <3>1. CallsBusyFor(s) \ {c} \in SUBSET CallsBusyFor(s)
      OBVIOUS
    <3>2. CallsRoom(u, CallsBusyFor(s) \ {c}, ScanLimit)
      BY <1>1, <1>4, <2>1, <3>1, CallsRoomFact
    <3>3. db'.spent[s] = u
      BY <2>1, <2>3
    <3> QED
      BY <1>4, <3>2, <3>3
  <2> QED
    BY <2>2, <2>3
<1>6. CallsRoom(db'.day, CallsBusy', DayLimit)
  <2>1. PICK u \in Nat : u = db.day /\ CallsRoom(u, CallsBusy, DayLimit)
    BY <1>1, CallsFields DEF CallsRoomLeft
  <2>2. CallsRoom(u + n, CallsBusy \ {c}, DayLimit)
    BY <1>1, <1>3, <2>1, CallsRoomFact
  <2>3. db'.day = u + n
    <3>1. Input \in Nat /\ t \in Nat
      BY CallsAssumption
    <3> QED
      BY <1>2, <2>1, <3>1
  <2> QED
    BY <1>3, <2>2, <2>3
<1> QED
  BY <1>1, <1>3, <1>5, <1>6 DEF CallsRoomLeft

\* An admitted call begins.
LEMMA CallsRoomAdmitted ==
  ASSUME CallsInv, NEW c \in Calls, Model!Admitted(c), UNCHANGED db,
         \A d \in Calls : d # c => proc'[d] = proc[d]
  PROVE  CallsRoomLeft'
<1>1. CallsTyped /\ CallsRoomLeft /\ ScanLimit \in Nat /\ DayLimit \in Nat /\ Model!Projected \in Nat
  BY CallsProjectedFact, CallsAssumption DEF CallsInv
<1>2. CallsBusy' \in SUBSET Calls /\ \A s : CallsBusyFor(s)' \in SUBSET Calls
  BY DEF CallsBusy, CallsBusyFor
<1>3. ASSUME NEW s \in Model!Charged PROVE CallsRoom(db'.spent[s], CallsBusyFor(s)', ScanLimit)
  <2>1. PICK u \in Nat : u = db.spent[s] /\ u = db'.spent[s] /\ CallsRoom(u, CallsBusyFor(s), ScanLimit)
    BY <1>1, CallsFields DEF CallsRoomLeft
  <2>2. CASE s = Scan(c)
    <3>1. u + Model!Projected <= ScanLimit
      BY <2>1, <2>2 DEF Model!Admitted
    <3> QED
      BY <1>1, <1>2, <2>1, <3>1, CallsRoomFact
  <2>3. CASE s # Scan(c)
    <3>1. CallsBusyFor(s)' = CallsBusyFor(s)
      BY <2>3 DEF CallsBusyFor, CallsBusy
    <3> QED
      BY <2>1, <3>1
  <2> QED
    BY <2>2, <2>3
<1>4. PICK u \in Nat : u = db.day /\ u = db'.day /\ u + Model!Projected <= DayLimit
  BY <1>1, CallsFields DEF Model!Admitted
<1>5. CallsRoom(db'.day, CallsBusy', DayLimit)
  BY <1>1, <1>2, <1>4, CallsRoomFact
<1>6. Model!Projected <= DayLimit
  BY <1>1, <1>4
<1> QED
  BY <1>3, <1>5, <1>6 DEF CallsRoomLeft

\* Where a call goes when the providers before i have had their attempts.
LEMMA CallsNextFact ==
  ASSUME CallsTyped, NEW c \in Calls, NEW i \in 1 .. NProviders + 1, NEW prompt \in Prompts \cup {"none"},
         Model!NextProvider(c, i, prompt), NEW f \in [1 .. NProviders -> Nat],
         \A j \in Model!EnabledFrom(1) : (j < i => f[j] = Retries + 1) /\ (j >= i => f[j] = 0)
  PROVE  /\ proc' \in [Calls -> CallsProc] /\ \A d \in Calls : d # c => proc'[d] = proc[d]
         /\ \/ proc'[c].at = "calling" /\ CallsTriedTo(proc'[c], f)
            \/ proc'[c].at = "heuristic" /\ proc'[c].i = NProviders + 1 /\ CallsTriedAll(f)
<1>1. NProviders \in Nat /\ Retries \in Nat /\ proc \in [Calls -> CallsProc]
  BY CallsAssumption DEF CallsTyped
<1>2. Model!EnabledFrom(i) = {j \in Model!EnabledFrom(1) : j >= i} /\ Model!EnabledFrom(1) \subseteq 1 .. NProviders
  BY <1>1 DEF Model!EnabledFrom
<1>3. CASE Model!EnabledFrom(i) = {}
  <2>1. PICK w \in CallsProc : w = [at |-> "heuristic", i |-> NProviders + 1, attempt |-> 0, prompt |-> prompt]
    <3>1. [at |-> "heuristic", i |-> NProviders + 1, attempt |-> 0, prompt |-> prompt] \in CallsProc
      BY <1>1 DEF CallsProc
    <3> QED
      BY <3>1
  <2>2. proc' = [proc EXCEPT ![c] = w]
    BY <1>3, <2>1 DEF Model!NextProvider
  <2>3. CallsTriedAll(f)
    BY <1>2, <1>3 DEF CallsTriedAll
  <2> QED
    BY <1>1, <2>1, <2>2, <2>3
<1>4. CASE Model!EnabledFrom(i) # {}
  <2>1. PICK m \in Model!EnabledFrom(i) : m = Model!Min(Model!EnabledFrom(i)) /\ \A j \in Model!EnabledFrom(i) : m <= j
    <3>1. Model!EnabledFrom(i) \in SUBSET Nat
      BY <1>2
    <3> QED
      BY <1>4, <3>1, CallsMinExists
  <2>2. m \in Model!EnabledFrom(1) /\ m \in 1 .. NProviders /\ m >= i
    BY <1>2, <2>1
  <2>3. PICK w \in CallsProc : w = [at |-> "calling", i |-> m, attempt |-> 0, prompt |-> prompt]
    <3>1. [at |-> "calling", i |-> m, attempt |-> 0, prompt |-> prompt] \in CallsProc
      BY <1>1, <2>2 DEF CallsProc
    <3> QED
      BY <3>1
  <2>4. proc' = [proc EXCEPT ![c] = w]
    BY <1>4, <2>1, <2>3 DEF Model!NextProvider
  <2>5. w.at = "calling" /\ w.i = m /\ w.attempt = 0
    BY <2>3
  <2>6. \A j \in Model!EnabledFrom(1) : j \in Nat /\ (j < m => j < i) /\ (j >= m => j >= i)
    BY <1>2, <2>1, <2>2
  <2>7. CallsTriedTo(w, f)
    BY <1>1, <2>2, <2>5, <2>6 DEF CallsTriedTo
  <2> QED
    BY <1>1, <2>4, <2>5, <2>7
<1> QED
  BY <1>3, <1>4

\* The other calls are as far as they were.
LEMMA CallsOthersTried ==
  ASSUME CallsInv, NEW c \in Calls,
         \A d \in Calls : d # c => /\ proc'[d] = proc[d] /\ hist'.failed[d] = hist.failed[d]
                                   /\ hist'.result[d] = hist.result[d] /\ hist'.from[d] = hist.from[d],
         CallsTried(c)'
  PROVE  \A d \in Calls : CallsTried(d)'
<1> SUFFICES ASSUME NEW d \in Calls, d # c PROVE CallsTried(d)'
  OBVIOUS
<1>1. CallsTried(d)
  BY DEF CallsInv
<1> QED
  BY <1>1 DEF CallsTried

LEMMA CallsFreshFact ==
  ASSUME CallsTyped, NEW c \in Calls, NEW r \in CallsResults
  PROVE  LET h == Model!Fresh(c, r) IN
         /\ h \in CallsHist /\ h.failed[c] = Model!NoTries /\ h.result[c] = r /\ h.from[c] = 0
         /\ Model!NoTries \in [1 .. NProviders -> Nat]
         /\ \A d \in Calls : d # c => h.failed[d] = hist.failed[d] /\ h.result[d] = hist.result[d] /\ h.from[d] = hist.from[d]
<1>1. Model!NoTries \in [1 .. NProviders -> Nat] /\ 0 \in 0 .. NProviders + 1
  BY CallsAssumption DEF Model!NoTries
<1>2. PICK n \in [1 .. NProviders -> Nat], k \in 0 .. NProviders + 1 : n = Model!NoTries /\ k = 0
  BY <1>1
<1>3. PICK h : h = Model!Fresh(c, r)
  OBVIOUS
<1>4. hist \in CallsHist
  BY DEF CallsTyped
<1>5. PICK x \in [Calls -> [1 .. NProviders -> Nat]] : x = [hist.failed EXCEPT ![c] = n]
  BY <1>4 DEF CallsHist
<1>6. PICK y \in [Calls -> CallsResults] : y = [hist.result EXCEPT ![c] = r]
  BY <1>4 DEF CallsHist
<1>7. PICK z \in [Calls -> 0 .. NProviders + 1] : z = [hist.from EXCEPT ![c] = k]
  BY <1>4 DEF CallsHist
<1>8. h = [hist EXCEPT !.failed = x, !.from = z, !.result = y]
  BY <1>2, <1>3, <1>5, <1>6, <1>7 DEF Model!Fresh
<1>9. h \in CallsHist /\ h.failed = x /\ h.result = y /\ h.from = z
  BY <1>4, <1>8 DEF CallsHist
<1>10. /\ x[c] = n /\ y[c] = r /\ z[c] = k
       /\ \A d \in Calls : d # c => x[d] = hist.failed[d] /\ y[d] = hist.result[d] /\ z[d] = hist.from[d]
  BY <1>4, <1>5, <1>6, <1>7 DEF CallsHist
<1> QED
  BY <1>1, <1>2, <1>3, <1>9, <1>10

LEMMA CallsBeginStep ==
  ASSUME CallsInv, NEW c \in Calls, NEW p \in Prompts, Model!Begin(c, p)
  PROVE  CallsInv'
<1>1. CallsTyped /\ UNCHANGED db /\ proc[c].at = "idle"
  BY DEF CallsInv, Model!Begin
<1>2. \A r \in CallsResults : LET h == Model!Fresh(c, r) IN
        /\ h \in CallsHist /\ h.failed[c] = Model!NoTries /\ h.result[c] = r /\ h.from[c] = 0
        /\ Model!NoTries \in [1 .. NProviders -> Nat]
        /\ \A d \in Calls : d # c => h.failed[d] = hist.failed[d] /\ h.result[d] = hist.result[d] /\ h.from[d] = hist.from[d]
  BY <1>1, CallsFreshFact
<1>3. ASSUME NEW r \in CallsResults \ {"none", "heuristic", "unavailable"}, proc' = proc, hist' = Model!Fresh(c, r)
      PROVE  CallsInv'
  <2>1. /\ hist' \in CallsHist /\ hist'.result[c] = r /\ hist'.from[c] = 0 /\ hist'.failed[c] = Model!NoTries
        /\ \A d \in Calls : d # c => /\ hist'.failed[d] = hist.failed[d] /\ hist'.result[d] = hist.result[d]
                                    /\ hist'.from[d] = hist.from[d]
    BY <1>2, <1>3
  <2>2. CallsTyped'
    BY <1>1, <1>3, <2>1 DEF CallsTyped
  <2>3. CallsRoomLeft'
    BY <1>1, <1>3, CallsRoomStays
  <2>4. CallsEnded(r, 0, Model!NoTries)
    BY CallsAssumption DEF CallsEnded, Model!EnabledFrom, Model!NoTries
  <2>5. CallsTried(c)'
    BY <1>1, <1>3, <2>1, <2>4 DEF CallsTried
  <2>6. \A d \in Calls : CallsTried(d)'
    BY <1>3, <2>1, <2>5, CallsOthersTried
  <2> QED
    BY <2>2, <2>3, <2>6 DEF CallsInv
<1>4. CASE Model!Admitted(c) /\ Model!NextProvider(c, 1, p) /\ hist' = Model!Fresh(c, "none")
  <2>0. /\ hist' \in CallsHist /\ hist'.result[c] = "none" /\ hist'.failed[c] = Model!NoTries
        /\ Model!NoTries \in [1 .. NProviders -> Nat]
        /\ \A d \in Calls : d # c => /\ hist'.failed[d] = hist.failed[d] /\ hist'.result[d] = hist.result[d]
                                    /\ hist'.from[d] = hist.from[d]
    BY <1>2, <1>4 DEF CallsResults
  <2>1. 1 \in 1 .. NProviders + 1 /\ Model!EnabledFrom(1) \subseteq 1 .. NProviders
    BY CallsAssumption DEF Model!EnabledFrom
  <2>2. \A j \in Model!EnabledFrom(1) : (j < 1 => Model!NoTries[j] = Retries + 1) /\ (j >= 1 => Model!NoTries[j] = 0)
    BY <2>1 DEF Model!NoTries
  <2>3. /\ proc' \in [Calls -> CallsProc] /\ \A d \in Calls : d # c => proc'[d] = proc[d]
        /\ \/ proc'[c].at = "calling" /\ CallsTriedTo(proc'[c], Model!NoTries)
           \/ proc'[c].at = "heuristic" /\ proc'[c].i = NProviders + 1 /\ CallsTriedAll(Model!NoTries)
    BY <1>1, <1>4, <2>0, <2>1, <2>2, CallsNextFact
  <2>4. CallsTyped'
    BY <1>1, <2>0, <2>3 DEF CallsTyped
  <2>5. CallsRoomLeft'
    BY <1>1, <1>4, <2>3, CallsRoomAdmitted
  <2>6. CallsTried(c)'
    BY <2>0, <2>3 DEF CallsTried
  <2>7. \A d \in Calls : CallsTried(d)'
    BY <2>0, <2>3, <2>6, CallsOthersTried
  <2> QED
    BY <2>4, <2>5, <2>7 DEF CallsInv
<1>5. CASE Model!Hit(p)
  <2>1. PICK r \in Model!Served(c, db.cache[p], "cached") : proc' = proc /\ hist' = Model!Fresh(c, r)
    BY <1>5 DEF Model!Begin
  <2>2. r \in CallsResults \ {"none", "heuristic", "unavailable"}
    BY <2>1 DEF Model!Served, CallsResults
  <2> QED
    BY <1>3, <2>1, <2>2
<1>6. CASE ~Model!Hit(p) /\ ~Model!Admitted(c)
  <2>1. "refused" \in CallsResults \ {"none", "heuristic", "unavailable"}
    BY DEF CallsResults
  <2> QED
    BY <1>3, <1>6, <2>1 DEF Model!Begin
<1> QED
  BY <1>4, <1>5, <1>6 DEF Model!Begin

\* A call ends with a result; what it costs is the caller's to show.
LEMMA CallsStops ==
  ASSUME CallsInv, NEW c \in Calls, NEW r \in CallsResults \ {"none"}, proc[c].at # "idle",
         Model!Stopped(c, r), db' \in CallsDb, CallsRoomLeft', r \in {"heuristic", "unavailable"} => proc[c].at = "heuristic"
  PROVE  CallsInv'
<1>1. CallsTyped /\ CallsTried(c) /\ Retries \in Nat /\ NProviders \in Nat
  BY CallsAssumption DEF CallsInv
<1>2. proc' \in [Calls -> CallsProc] /\ proc'[c].at = "idle" /\ \A d \in Calls : d # c => proc'[d] = proc[d]
  BY <1>1, CallsIdleFact DEF CallsTyped, Model!Stopped
<1>3. PICK k \in 0 .. NProviders + 1, f \in [1 .. NProviders -> Nat] : k = proc[c].i /\ f = hist.failed[c]
  BY <1>1, CallsFields
<1>4. hist' = [hist EXCEPT !.result[c] = r, !.from[c] = k]
  BY <1>3 DEF Model!Stopped
<1>5. /\ hist' \in CallsHist /\ hist'.failed = hist.failed /\ hist'.from[c] = k /\ hist'.result[c] = r
      /\ \A d \in Calls : d # c => hist'.result[d] = hist.result[d] /\ hist'.from[d] = hist.from[d]
  BY <1>1, <1>4 DEF CallsTyped, CallsHist
<1>6. Model!EnabledFrom(1) \subseteq 1 .. NProviders
  BY DEF Model!EnabledFrom
<1>7. CallsEnded(r, k, f)
  <2>1. CASE proc[c].at = "heuristic"
    <3>1. k = NProviders + 1 /\ CallsTriedAll(f)
      BY <1>1, <1>3, <2>1 DEF CallsTried
    <3> QED
      BY <1>1, <1>6, <3>1 DEF CallsEnded, CallsTriedAll
  <2>2. CASE proc[c].at \in {"calling", "backoff"}
    <3>1. CallsTriedTo(proc[c], f) /\ r \notin {"heuristic", "unavailable"}
      BY <1>1, <1>3, <2>2 DEF CallsTried
    <3>2. PICK n \in Nat : n = proc[c].attempt
      BY <1>1, CallsFields
    <3>3. f[k] <= Retries /\ \A j \in Model!EnabledFrom(1) : (j < k => f[j] = Retries + 1) /\ (j > k => f[j] = 0)
      BY <1>1, <1>3, <2>2, <3>1, <3>2 DEF CallsTriedTo
    <3> QED
      BY <3>1, <3>3 DEF CallsEnded
  <2> QED
    BY <1>1, <2>1, <2>2, CallsFields
<1>8. CallsTried(c)'
  BY <1>2, <1>3, <1>5, <1>7 DEF CallsTried
<1>9. \A d \in Calls : CallsTried(d)'
  BY <1>2, <1>5, <1>8, CallsOthersTried
<1> QED
  BY <1>2, <1>5, <1>9 DEF CallsInv, CallsTyped

\* And without a charge.
LEMMA CallsStopsFree ==
  ASSUME CallsInv, NEW c \in Calls, NEW r \in CallsResults \ {"none"}, proc[c].at # "idle",
         Model!Stopped(c, r), UNCHANGED db, r \in {"heuristic", "unavailable"} => proc[c].at = "heuristic"
  PROVE  CallsInv'
<1>1. CallsTyped
  BY DEF CallsInv
<1>2. \A d \in Calls : proc'[d].at # "idle" => proc[d].at # "idle"
  BY <1>1, CallsIdleFact DEF Model!Stopped, CallsTyped
<1>3. CallsRoomLeft' /\ db' \in CallsDb
  BY <1>1, <1>2, CallsRoomStays DEF CallsTyped
<1> QED
  BY <1>3, CallsStops

LEMMA CallsChargeFact ==
  ASSUME CallsTyped, NEW c \in Calls, NEW t \in Answers
  PROVE  LET q == Model!Charge(c, Input + t) IN
         /\ q \in CallsDb /\ q.cache = db.cache /\ q.day = db.day + Input + t /\ q.today = db.today
         /\ q.spent \in [Model!Charged -> Nat]
         /\ \A s \in Model!Charged : q.spent[s] = db.spent[s] + (IF s = Scan(c) THEN Input + t ELSE 0)
<1>1. PICK n \in Nat : n = Input + t
  BY CallsAssumption
<1>2. PICK u \in Nat : u = db.spent[Scan(c)] + n
  BY CallsFields
<1>3. PICK v \in Nat : v = db.day + n
  BY CallsFields
<1>4. db \in CallsDb
  BY DEF CallsTyped
<1>5. PICK w \in Nat : w = db.rows + 1
  BY <1>4 DEF CallsDb
<1>6. Model!Charge(c, Input + t) = [db EXCEPT !.rows = w, !.spent[Scan(c)] = u, !.day = v]
  BY <1>1, <1>2, <1>3, <1>5 DEF Model!Charge
<1> DEFINE q == Model!Charge(c, Input + t)
<1>7. /\ q \in CallsDb /\ q.cache = db.cache /\ q.day = v /\ q.today = db.today /\ q.spent = [db.spent EXCEPT ![Scan(c)] = u]
  <2>1. [db.spent EXCEPT ![Scan(c)] = u] \in [Model!Charged -> Nat]
    BY <1>4 DEF CallsDb
  <2>2. q = [db EXCEPT !.rows = w, !.spent = [db.spent EXCEPT ![Scan(c)] = u], !.day = v]
    BY <1>4, <1>6 DEF CallsDb
  <2>3. PICK x \in [Model!Charged -> Nat] : x = [db.spent EXCEPT ![Scan(c)] = u]
    BY <2>1
  <2>4. q = [db EXCEPT !.rows = w, !.spent = x, !.day = v]
    BY <2>2, <2>3
  <2> HIDE DEF q
  <2>5. q \in CallsDb /\ q.cache = db.cache /\ q.day = v /\ q.today = db.today /\ q.spent = x
    BY <1>4, <2>4 DEF CallsDb
  <2> QED
    BY <2>3, <2>5
<1>8. v = db.day + Input + t
  BY <1>1, <1>3, CallsFields, CallsAssumption
<1> HIDE DEF q
<1>9. \A s \in Model!Charged : q.spent[s] = db.spent[s] + (IF s = Scan(c) THEN Input + t ELSE 0)
  BY <1>1, <1>2, <1>7, CallsFields
<1>10. q.spent \in [Model!Charged -> Nat]
  BY <1>7 DEF CallsDb
<1> QED
  BY <1>7, <1>8, <1>9, <1>10 DEF q

LEMMA CallsAnswerStep ==
  ASSUME CallsInv, NEW c \in Calls, NEW t \in Answers, NEW form \in {"json", "prose"}, Model!Answer(c, t, form)
  PROVE  CallsInv'
<1>1. CallsTyped /\ proc[c].at = "calling"
  BY DEF CallsInv, Model!Answer, Model!Calling
<1>2. PICK q \in CallsDb :
        /\ q = Model!Charge(c, Input + t) /\ q.day = db.day + Input + t
        /\ \A s \in Model!Charged : q.spent[s] = db.spent[s] + (IF s = Scan(c) THEN Input + t ELSE 0)
  BY <1>1, CallsChargeFact
<1>3. db' = [q EXCEPT !.cache[proc[c].prompt] = form]
  BY <1>2 DEF Model!Answer, Model!PutCached
<1>4. db' \in CallsDb /\ db'.day = q.day /\ db'.spent = q.spent
  BY <1>3 DEF CallsDb
<1>5. PICK r \in Model!Served(c, form, "answered") : Model!Stopped(c, r)
  BY DEF Model!Answer
<1>6. r \in CallsResults \ {"none", "heuristic", "unavailable"}
  BY <1>5 DEF Model!Served, CallsResults
<1>7. proc'[c].at = "idle" /\ \A d \in Calls : d # c => proc'[d] = proc[d]
  BY <1>1, <1>5, CallsIdleFact DEF Model!Stopped, CallsTyped
<1>8. CallsRoomLeft'
  BY <1>1, <1>2, <1>4, <1>7, CallsRoomCharged
<1> QED
  BY <1>1, <1>4, <1>5, <1>6, <1>8, CallsStops

LEMMA CallsHeuristicStep ==
  ASSUME CallsInv, NEW c \in Calls, NEW t \in Answers, Model!Heuristic(c, t)
  PROVE  CallsInv'
<1>1. CallsTyped /\ proc[c].at = "heuristic"
  BY DEF CallsInv, Model!Heuristic
<1>2. ASSUME NEW r \in {"heuristic", "invalid"}, db' = Model!Charge(c, Input + t), Model!Stopped(c, r)
      PROVE  CallsInv'
  <2>1. /\ db' \in CallsDb /\ db'.day = db.day + Input + t
        /\ \A s \in Model!Charged : db'.spent[s] = db.spent[s] + (IF s = Scan(c) THEN Input + t ELSE 0)
    BY <1>1, <1>2, CallsChargeFact
  <2>2. proc'[c].at = "idle" /\ \A d \in Calls : d # c => proc'[d] = proc[d]
    BY <1>1, <1>2, CallsIdleFact DEF Model!Stopped, CallsTyped
  <2>3. CallsRoomLeft' /\ r \in CallsResults \ {"none"}
    BY <1>1, <1>2, <2>1, <2>2, CallsRoomCharged DEF CallsResults
  <2> QED
    BY <1>1, <1>2, <2>1, <2>3, CallsStops
<1>3. ASSUME NEW r \in {"broken", "unavailable"}, Model!Stopped(c, r), UNCHANGED db
      PROVE  CallsInv'
  <2>1. r \in CallsResults \ {"none"}
    BY <1>3 DEF CallsResults
  <2> QED
    BY <1>1, <1>3, <2>1, CallsStopsFree
<1> QED
  BY <1>2, <1>3 DEF Model!Heuristic

LEMMA CallsCancelledStep == ASSUME CallsInv, NEW c \in Calls, Model!Cancelled(c) \/ Model!Malformed(c) PROVE CallsInv'
<1>1. PICK r \in {"cancelled", "error"} : Model!Stopped(c, r)
  BY DEF Model!Cancelled, Model!Malformed
<1>2. proc[c].at # "idle" /\ UNCHANGED db /\ r \in CallsResults \ {"none", "heuristic", "unavailable"}
  BY DEF Model!Cancelled, Model!Malformed, Model!Calling, CallsResults
<1> QED
  BY <1>1, <1>2, CallsStopsFree

LEMMA CallsFailStep == ASSUME CallsInv, NEW c \in Calls, Model!Fail(c) PROVE CallsInv'
<1>1. CallsTyped /\ UNCHANGED db /\ proc[c].at = "calling" /\ Retries \in Nat /\ NProviders \in Nat
  BY CallsAssumption DEF CallsInv, Model!Fail, Model!Calling
<1>0. hist.result[c] = "none"
  BY <1>1 DEF CallsInv, CallsTried
<1>2. PICK i \in 1 .. NProviders, f \in [1 .. NProviders -> Nat], a \in Nat :
        /\ i = proc[c].i /\ f = hist.failed[c] /\ a = proc[c].attempt /\ a <= Retries /\ f[i] = a /\ i \in Model!EnabledFrom(1)
        /\ \A j \in Model!EnabledFrom(1) : (j < i => f[j] = Retries + 1) /\ (j > i => f[j] = 0)
  <2>1. CallsTriedTo(proc[c], hist.failed[c])
    BY <1>1 DEF CallsInv, CallsTried
  <2>2. Model!EnabledFrom(1) \subseteq 1 .. NProviders
    BY DEF Model!EnabledFrom
  <2> QED
    BY <1>1, <2>1, <2>2, CallsFields DEF CallsTriedTo
<1>3. PICK g \in [1 .. NProviders -> Nat] : g = [f EXCEPT ![i] = a + 1] /\ g[i] = a + 1
                                            /\ \A j \in 1 .. NProviders : j # i => g[j] = f[j]
  <2>1. [f EXCEPT ![i] = a + 1] \in [1 .. NProviders -> Nat]
    BY <1>2
  <2> QED
    BY <1>2, <2>1
<1>4. hist' = [hist EXCEPT !.failed[c] = g]
  <2>1. hist' = [hist EXCEPT !.failed[c][i] = @ + 1]
    BY <1>2 DEF Model!Fail
  <2>2. hist.failed \in [Calls -> [1 .. NProviders -> Nat]]
    BY <1>1 DEF CallsTyped, CallsHist
  <2> QED
    BY <1>2, <1>3, <2>1, <2>2
<1>5. /\ hist' \in CallsHist /\ hist'.failed[c] = g /\ hist'.from = hist.from /\ hist'.result = hist.result
      /\ \A d \in Calls : d # c => hist'.failed[d] = hist.failed[d]
  BY <1>1, <1>4 DEF CallsTyped, CallsHist
<1>6. Model!EnabledFrom(1) \subseteq 1 .. NProviders
  BY DEF Model!EnabledFrom
<1>7. /\ proc' \in [Calls -> CallsProc] /\ \A d \in Calls : d # c => proc'[d] = proc[d]
      /\ proc'[c].at # "idle" /\ CallsTried(c)'
  <2>1. CASE a >= Retries
    <3>1. a = Retries
      BY <1>1, <1>2, <2>1
    <3>2. Model!NextProvider(c, i + 1, proc[c].prompt) /\ i + 1 \in 1 .. NProviders + 1 /\ proc[c].prompt \in Prompts \cup {"none"}
      BY <1>1, <1>2, <2>1, CallsFields, SMTT(40) DEF Model!Fail
    <3>3. \A j \in Model!EnabledFrom(1) : (j < i + 1 => g[j] = Retries + 1) /\ (j >= i + 1 => g[j] = 0)
      BY <1>2, <1>3, <1>6, <3>1
    <3>4. /\ proc' \in [Calls -> CallsProc] /\ \A d \in Calls : d # c => proc'[d] = proc[d]
          /\ \/ proc'[c].at = "calling" /\ CallsTriedTo(proc'[c], g)
             \/ proc'[c].at = "heuristic" /\ proc'[c].i = NProviders + 1 /\ CallsTriedAll(g)
      BY <1>1, <3>2, <3>3, CallsNextFact
    <3> QED
      BY <1>0, <1>5, <3>4 DEF CallsTried
  <2>2. CASE ~(a >= Retries)
    <3>1. proc' = [proc EXCEPT ![c].at = "backoff"]
      BY <1>2, <2>2 DEF Model!Fail
    <3>2. /\ proc' \in [Calls -> CallsProc] /\ \A d \in Calls : d # c => proc'[d] = proc[d]
          /\ proc'[c].at = "backoff" /\ proc'[c].i = i /\ proc'[c].attempt = a
      BY <1>1, <1>2, <3>1 DEF CallsTyped, CallsProc
    <3>3. a < Retries
      BY <1>1, <1>2, <2>2
    <3>4. \A j \in Model!EnabledFrom(1) : (j < i => g[j] = Retries + 1) /\ (j > i => g[j] = 0)
      BY <1>2, <1>3, <1>6
    <3>5. CallsTriedTo(proc'[c], g)
      BY <1>2, <1>3, <3>2, <3>3, <3>4 DEF CallsTriedTo
    <3> QED
      BY <1>0, <1>5, <3>2, <3>5 DEF CallsTried
  <2> QED
    BY <2>1, <2>2
<1>8. CallsRoomLeft'
  BY <1>1, <1>7, CallsRoomStays
<1>9. \A d \in Calls : CallsTried(d)'
  BY <1>5, <1>7, CallsOthersTried
<1> QED
  BY <1>1, <1>5, <1>7, <1>8, <1>9 DEF CallsInv, CallsTyped

LEMMA CallsBackoffStep == ASSUME CallsInv, NEW c \in Calls, Model!Backoff(c) PROVE CallsInv'
<1>1. CallsTyped /\ UNCHANGED <<db, hist>> /\ proc[c].at = "backoff" /\ Retries \in Nat
  BY CallsAssumption DEF CallsInv, Model!Backoff
<1>2. CallsTriedTo(proc[c], hist.failed[c])
  BY <1>1 DEF CallsInv, CallsTried
<1>0. hist.result[c] = "none"
  BY <1>1 DEF CallsInv, CallsTried
<1>3. PICK n \in Nat : n = proc[c].attempt + 1
  BY <1>1, CallsFields
<1>4. proc' = [proc EXCEPT ![c].at = "calling", ![c].attempt = n]
  BY <1>3 DEF Model!Backoff
<1>5. /\ proc' \in [Calls -> CallsProc] /\ \A d \in Calls : d # c => proc'[d] = proc[d]
      /\ proc'[c].at = "calling" /\ proc'[c].i = proc[c].i /\ proc'[c].attempt = n
  BY <1>1, <1>4 DEF CallsTyped, CallsProc
<1>6. n <= Retries
  BY <1>1, <1>2, <1>3, CallsFields DEF CallsTriedTo
<1>7. CallsTried(c)'
  BY <1>0, <1>1, <1>2, <1>3, <1>5, <1>6 DEF CallsTried, CallsTriedTo
<1>8. CallsRoomLeft'
  BY <1>1, <1>5, CallsRoomStays
<1>9. \A d \in Calls : CallsTried(d)'
  BY <1>1, <1>5, <1>7, CallsOthersTried
<1> QED
  BY <1>1, <1>5, <1>8, <1>9 DEF CallsInv, CallsTyped

LEMMA CallsMidnightStep == ASSUME CallsInv, Model!Midnight PROVE CallsInv'
<1>1. CallsTyped /\ UNCHANGED <<proc, hist>> /\ CallsRoomLeft /\ DayLimit \in Nat
  BY CallsAssumption DEF CallsInv, Model!Midnight
<1>2. PICK expired \in SUBSET Prompts :
         db' = [db EXCEPT !.today = 2, !.day = 0,
                          !.cache = [p \in Prompts |-> IF p \in expired THEN "none" ELSE @[p]]]
  BY DEF Model!Midnight
<1>3. db' \in CallsDb /\ db'.day = 0 /\ db'.spent = db.spent
  BY <1>1, <1>2 DEF CallsTyped, CallsDb
<1>4. CallsBusy' = CallsBusy /\ CallsBusy \in SUBSET Calls /\ \A s : CallsBusyFor(s)' = CallsBusyFor(s)
  BY <1>1 DEF CallsBusy, CallsBusyFor
<1>5. CallsRoom(0, CallsBusy, DayLimit)
  <2>1. Model!Projected <= DayLimit \/ CallsBusy = {}
    BY <1>1 DEF CallsRoomLeft
  <2> QED
    BY <1>1, <1>4, <2>1, CallsRoomFact
<1>6. CallsRoomLeft'
  BY <1>1, <1>3, <1>4, <1>5 DEF CallsRoomLeft
<1>7. \A d \in Calls : CallsTried(d)'
  BY <1>1 DEF CallsInv, CallsTried
<1> QED
  BY <1>1, <1>3, <1>6, <1>7 DEF CallsInv, CallsTyped

LEMMA CallsStep == ASSUME CallsInv, [Model!Next]_(Model!vars) PROVE CallsInv'
<1>1. CASE UNCHANGED Model!vars
  BY <1>1 DEF CallsInv, CallsTyped, CallsRoomLeft, CallsBusy, CallsBusyFor, CallsTried, Model!vars
<1> QED
  BY <1>1, CallsBeginStep, CallsAnswerStep, CallsHeuristicStep, CallsCancelledStep, CallsFailStep,
     CallsBackoffStep, CallsMidnightStep DEF Model!Next

LEMMA CallsInvHolds == ASSUME CallsInv PROVE Model!OvershootIsBounded /\ Model!FallbackIsOrdered
<1>1. CallsTyped /\ CallsRoomLeft
  BY DEF CallsInv
<1>2. ASSUME NEW u \in Nat, NEW b \in SUBSET Calls, NEW limit \in Nat, CallsRoom(u, b, limit)
      PROVE  u + Model!Projected <= limit + Cardinality(Calls) * Model!Worst
  <2>1. {} \in SUBSET b
    OBVIOUS
  <2>2. CallsRoom(u, {}, limit)
    BY <1>2, <2>1, CallsRoomFact
  <2>3. Cardinality({}) * Model!Worst = 0 /\ Model!Projected \in Nat
    BY CallsBusyFact, CallsProjectedFact
  <2> QED
    BY <2>2, <2>3 DEF CallsRoom
<1>3. ScanLimit \in Nat /\ DayLimit \in Nat /\ CallsBusy \in SUBSET Calls /\ \A s : CallsBusyFor(s) \in SUBSET Calls
  BY CallsAssumption DEF CallsBusy, CallsBusyFor
<1>4. \A s \in Model!Charged : db.spent[s] + Model!Projected <= ScanLimit + Cardinality(Calls) * Model!Worst
  BY <1>1, <1>2, <1>3, CallsFields DEF CallsRoomLeft
<1>5. db.day + Model!Projected <= DayLimit + Cardinality(Calls) * Model!Worst
  BY <1>1, <1>2, <1>3, CallsFields DEF CallsRoomLeft
<1>6. Model!Cardinality(Calls) = Cardinality(Calls)
  BY DEF Model!Cardinality, Cardinality
<1>7. Model!OvershootIsBounded
  BY <1>4, <1>5, <1>6 DEF Model!OvershootIsBounded
<1>8. \A c \in Calls : hist.result[c] # "none" => CallsEnded(hist.result[c], hist.from[c], hist.failed[c])
  BY DEF CallsInv, CallsTried
<1> QED
  BY <1>7, <1>8 DEF Model!FallbackIsOrdered, CallsEnded

LEMMA ModelPart == SuiteSpec => [](part = "model" => CallsInv)
<1>1. SuiteInit => (part = "model" => CallsInv)
  BY CallsInit DEF SuiteInit
<1>2. (part = "model" => CallsInv) /\ [SuiteNext]_suiteVars => (part = "model" => CallsInv)'
  <2> SUFFICES ASSUME part = "model", CallsInv, [SuiteNext]_suiteVars PROVE CallsInv'
    BY DEF SuiteNext, suiteVars
  <2>1. [Model!Next]_(Model!vars)
    BY DEF SuiteNext, suiteVars, state, Model!vars
  <2> QED
    BY <2>1, CallsStep
<1> QED
  BY <1>1, <1>2, PTL DEF SuiteSpec

\* app/brain: what calls that run together spend above a ceiling is bounded by
\* their number; and when a call ends, the enabled providers before the one it
\* ended at had all their attempts and those after it none, and the rules answered
\* for a model, or the call was told that none succeeded, only after the last; for
\* any finite set of calls, with JSON asked for or not and rules or none, any
\* providers, ceilings and prompts, and texts no longer than some bound that covers
\* the projected output.
THEOREM CallsAreAlwaysBounded == SuiteSpec => []CallsAreBounded
<1>1. (part = "model" => CallsInv) => CallsAreBounded
  BY CallsInvHolds DEF CallsAreBounded
<1> QED
  BY <1>1, ModelPart, PTL
=============================================================================
