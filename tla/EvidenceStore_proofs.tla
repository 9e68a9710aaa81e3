------------------------ MODULE EvidenceStore_proofs ------------------------
(***************************************************************************)
(* Proofs about EvidenceStore, for any contents, keys, readers and stops.  *)
(***************************************************************************)
EXTENDS EvidenceStore, SequenceTheorems, FiniteSetTheorems, TLAPS

LEMMA NoneFact ==
  /\ None \notin KeyIds /\ None \notin Contents /\ None \notin Rows /\ None \notin ToolRuns
  /\ None \notin Contents \X Contents
BY StoreAssumption

-----------------------------------------------------------------------------
(* A key the writer took is active until it is used, a content that was      *)
(* missing stays so until it is inserted, and a deletion reaches the keys    *)
(* only after everything is tombstoned.                                      *)
PutPlaces == {"lookup", "ensure", "rotate", "insert", "create"}
Places == PutPlaces \cup {"idle", "upsert", "bind", "sealed", "root", "tombstone", "deletes", "deleted"}
Writers == [at : Places, todo : Seq(Contents), run : ToolRuns \cup {None},
            refs : Seq(Contents), key : KeyIds \cup {None}, seen : SUBSET Contents]

StoreOK ==
  /\ art \in [Contents -> Rows \cup {None}]
  /\ keys \in [KeyIds -> {"unused", "active", "retired", "destroyed"}]
  /\ writer \in Writers

KeyTaken == writer.at = "insert" => writer.key \in KeyIds /\ keys[writer.key] = "active"
Missing ==
  /\ writer.at \in PutPlaces => writer.todo # <<>>
  /\ writer.at \in {"ensure", "rotate", "insert"} => art[Head(writer.todo)] = None
AllDead == writer.at = "deletes" => Live = {}

StoreInv == StoreOK /\ LiveIsReadable /\ KeyTaken /\ Missing /\ AllDead

LEMMA HeadFact ==
  ASSUME NEW s \in Seq(Contents), s # <<>>
  PROVE  Head(s) \in Contents /\ Tail(s) \in Seq(Contents) /\ Len(Tail(s)) = Len(s) - 1
         /\ Len(s) \in Nat
BY HeadTailProperties, LenProperties

LEMMA IdleFact == Idle \in Writers /\ Idle.at = "idle"
BY DEF Idle, Writers, Places

\* What a seal and a deletion start from.
LEMMA StartFact ==
  ASSUME NEW place \in Places
  PROVE  LET w == [Idle EXCEPT !.at = place, !.seen = Live]
         IN  w \in Writers /\ w.at = place
<1>1. Idle \in Writers /\ Live \in SUBSET Contents
  BY IdleFact DEF Live
<1> QED
  BY <1>1 DEF Writers

LEMMA StoreInit == Init => StoreInv
BY IdleFact DEF Init, StoreInv, StoreOK, LiveIsReadable, Live, KeyTaken, Missing, AllDead, PutPlaces,
   Idle

\* Steps of the writer that only move it.
LEMMA MoveFact ==
  ASSUME StoreInv, UNCHANGED <<art, keys>>, writer' \in Writers,
         writer'.at \notin PutPlaces \cup {"deletes"}
  PROVE  StoreInv'
BY DEF StoreInv, StoreOK, LiveIsReadable, Live, KeyTaken, Missing, AllDead, PutPlaces

LEMMA PutReturnsFact ==
  ASSUME StoreInv, UNCHANGED <<art, keys>>, writer.at = "create", PutReturns
  PROVE  StoreInv'
<1>1. /\ writer \in Writers /\ writer.todo \in Seq(Contents) /\ writer.todo # <<>>
      /\ writer.refs \in Seq(Contents)
  BY DEF StoreInv, StoreOK, Missing, PutPlaces, Writers
<1>2. Tail(writer.todo) \in Seq(Contents) /\ Append(writer.refs, Head(writer.todo)) \in Seq(Contents)
  BY <1>1, HeadFact, AppendProperties
<1>3. CASE Tail(writer.todo) # <<>>
  <2>1. /\ writer' \in Writers /\ writer'.at = "lookup" /\ writer'.todo # <<>>
    BY <1>1, <1>2, <1>3 DEF PutReturns, Writers, Places, PutPlaces
  <2> QED
    BY <2>1 DEF StoreInv, StoreOK, LiveIsReadable, Live, KeyTaken, Missing, AllDead, PutPlaces
<1>4. CASE Tail(writer.todo) = <<>> /\ writer.run = None
  BY <1>4, IdleFact, MoveFact DEF PutReturns, PutPlaces
<1>5. CASE Tail(writer.todo) = <<>> /\ writer.run # None
  <2>1. writer' \in Writers /\ writer'.at = "upsert"
    BY <1>1, <1>2, <1>5 DEF PutReturns, Writers, Places
  <2> QED
    BY <2>1, MoveFact DEF PutPlaces
<1> QED
  BY <1>3, <1>4, <1>5

LEMMA AddKeyFact ==
  ASSUME StoreInv, NEW k \in KeyIds, AddKey(k)
  PROVE  /\ keys' \in [KeyIds -> {"unused", "active", "retired", "destroyed"}]
         /\ keys'[k] = "active"
         /\ \A i \in KeyIds : keys[i] \in {"active", "retired"} => keys'[i] \in {"active", "retired"}
BY DEF StoreInv, StoreOK, AddKey

LEMMA PutStep ==
  ASSUME StoreInv, Put
  PROVE  StoreInv'
<1> writer \in Writers /\ art \in [Contents -> Rows \cup {None}]
    /\ keys \in [KeyIds -> {"unused", "active", "retired", "destroyed"}]
  BY DEF StoreInv, StoreOK
<1>1. CASE StartPut \/ StartRecord
  <2>1. writer' \in Writers /\ writer'.at = "lookup" /\ writer'.todo # <<>> /\ UNCHANGED <<art, keys>>
    <3>1. CASE StartPut
      <4>1. PICK c \in Contents : writer' = [Idle EXCEPT !.at = "lookup", !.todo = <<c>>]
        BY <3>1 DEF StartPut
      <4>2. <<c>> \in Seq(Contents) /\ <<c>> # <<>> /\ "lookup" \in Places
        BY DEF Places, PutPlaces
      <4>3. writer' \in Writers /\ writer'.at = "lookup" /\ writer'.todo = <<c>>
        BY <4>1, <4>2, IdleFact DEF Writers
      <4> QED
        BY <3>1, <4>2, <4>3 DEF StartPut, tables
    <3>2. CASE StartRecord
      <4>1. PICK t \in ToolRuns, out \in Contents, err \in Contents :
              writer' = [Idle EXCEPT !.at = "lookup", !.todo = <<out, err>>, !.run = t]
        BY <3>2 DEF StartRecord
      <4>2. <<out, err>> \in Seq(Contents) /\ <<out, err>> # <<>> /\ "lookup" \in Places
        BY DEF Places, PutPlaces
      <4>3. writer' \in Writers /\ writer'.at = "lookup" /\ writer'.todo = <<out, err>>
        BY <4>1, <4>2, IdleFact DEF Writers
      <4> QED
        BY <3>2, <4>2, <4>3 DEF StartRecord, tables
    <3> QED
      BY <1>1, <3>1, <3>2
  <2> QED
    BY <2>1 DEF StoreInv, StoreOK, LiveIsReadable, Live, KeyTaken, Missing, AllDead, PutPlaces
<1>2. CASE Lookup
  <2>1. CASE art[Head(writer.todo)] = None
    BY <1>2, <2>1 DEF Lookup, Goto, tables, Writers, Places, PutPlaces,
       StoreInv, StoreOK, LiveIsReadable, Live, KeyTaken, Missing, AllDead
  <2>2. CASE art[Head(writer.todo)] # None
    BY <1>2, <2>2 DEF Lookup, Goto, tables, Writers, Places, PutPlaces,
       StoreInv, StoreOK, LiveIsReadable, Live, KeyTaken, Missing, AllDead
  <2> QED
    BY <2>1, <2>2
<1>3. CASE Ensure
  BY <1>3 DEF Ensure, Goto, tables, Writers, Places, PutPlaces,
     StoreInv, StoreOK, LiveIsReadable, Live, KeyTaken, Missing, AllDead
<1>4. CASE RotateForPut
  <2>1. PICK k \in KeyIds : AddKey(k) /\ writer' = [writer EXCEPT !.at = "insert", !.key = k]
    BY <1>4 DEF RotateForPut
  <2>2. UNCHANGED art /\ writer.at = "rotate"
    BY <1>4 DEF RotateForPut
  <2>3. /\ writer' \in Writers /\ writer'.at = "insert" /\ writer'.key = k
        /\ writer'.todo = writer.todo
    BY <2>1 DEF Writers, Places, PutPlaces
  <2>4. Missing'
    BY <2>2, <2>3 DEF StoreInv, Missing, PutPlaces
  <2>5. LiveIsReadable'
    BY <2>1, <2>2, AddKeyFact DEF StoreInv, LiveIsReadable, Live, Rows
  <2>6. KeyTaken' /\ AllDead'
    BY <2>1, <2>3, AddKeyFact DEF KeyTaken, AllDead
  <2> QED
    BY <2>1, <2>2, <2>3, <2>4, <2>5, <2>6, AddKeyFact DEF StoreInv, StoreOK
<1>5. CASE Insert
  <2>1. /\ Head(writer.todo) \in Contents /\ writer.key \in KeyIds /\ keys[writer.key] = "active"
        /\ writer.todo # <<>>
    BY <1>5, HeadFact DEF Insert, StoreInv, KeyTaken, Missing, PutPlaces, Writers
  <2>2. /\ art' = [art EXCEPT ![Head(writer.todo)] = [key |-> writer.key, dead |-> FALSE]]
        /\ UNCHANGED keys
    BY <1>5 DEF Insert
  <2>3. writer' \in Writers /\ writer'.at = "create" /\ writer'.todo = writer.todo
    BY <1>5 DEF Insert, Goto, Writers, Places, PutPlaces
  <2>4. art' \in [Contents -> Rows \cup {None}]
    BY <2>1, <2>2 DEF Rows
  <2>5. LiveIsReadable'
    BY <2>1, <2>2 DEF StoreInv, LiveIsReadable, Live
  <2> QED
    BY <2>1, <2>2, <2>3, <2>4, <2>5 DEF StoreInv, StoreOK, KeyTaken, Missing, AllDead, PutPlaces
<1>6. CASE Create
  BY <1>6, PutReturnsFact DEF Create, tables
<1>7. CASE Upsert
  <2>1. writer' \in Writers /\ writer'.at = "bind" /\ UNCHANGED <<art, keys>>
    BY <1>7 DEF Upsert, Goto, Writers, Places
  <2> QED
    BY <2>1, MoveFact DEF PutPlaces
<1>8. CASE Bind
  BY <1>8, IdleFact, MoveFact DEF Bind, tables, PutPlaces
<1> QED
  BY <1>1, <1>2, <1>3, <1>4, <1>5, <1>6, <1>7, <1>8 DEF Put

LEMMA SealStep ==
  ASSUME StoreInv, Seal
  PROVE  StoreInv'
<1> writer \in Writers
  BY DEF StoreInv, StoreOK
<1>1. CASE Leaves
  <2>1. writer' \in Writers /\ writer'.at = "sealed" /\ UNCHANGED <<art, keys>>
    BY <1>1, StartFact DEF Leaves, tables, Places
  <2> QED
    BY <2>1, MoveFact DEF PutPlaces
<1>2. CASE SealLog
  <2>1. writer' \in Writers /\ writer'.at = "root" /\ UNCHANGED <<art, keys>>
    BY <1>2 DEF SealLog, Goto, tables, Writers, Places
  <2> QED
    BY <2>1, MoveFact DEF PutPlaces
<1>3. CASE SealRoot
  BY <1>3, IdleFact, MoveFact DEF SealRoot, PutPlaces
<1> QED
  BY <1>1, <1>2, <1>3 DEF Seal

LEMMA DeleteStep ==
  ASSUME StoreInv, Delete
  PROVE  StoreInv'
<1> writer \in Writers /\ art \in [Contents -> Rows \cup {None}]
    /\ keys \in [KeyIds -> {"unused", "active", "retired", "destroyed"}]
  BY DEF StoreInv, StoreOK
<1>1. CASE StartDelete
  <2>1. writer' \in Writers /\ writer'.at = "tombstone" /\ UNCHANGED <<art, keys>>
    BY <1>1, StartFact DEF StartDelete, tables, Places
  <2> QED
    BY <2>1, MoveFact DEF PutPlaces
<1>2. CASE Tombstone
  <2>1. /\ art' = [c \in Contents |-> IF c \in Live THEN [art[c] EXCEPT !.dead = TRUE] ELSE art[c]]
        /\ UNCHANGED keys
    BY <1>2 DEF Tombstone
  <2>2. writer' \in Writers /\ writer'.at = "deletes"
    BY <1>2 DEF Tombstone, Goto, Writers, Places
  <2>3. \A c \in Contents : art'[c] \in Rows \cup {None} /\ c \notin Live'
    BY <2>1, NoneFact DEF Rows, Live
  <2>4. Live' = {} /\ art' \in [Contents -> Rows \cup {None}]
    BY <2>1, <2>3 DEF Live
  <2> QED
    BY <2>1, <2>2, <2>4 DEF StoreInv, StoreOK, LiveIsReadable, KeyTaken, Missing, AllDead, PutPlaces
<1>3. CASE DeleteLog
  BY <1>3 DEF DeleteLog, tables, StoreInv, StoreOK, LiveIsReadable, Live, KeyTaken, Missing, AllDead
<1>4. CASE DestroyKeys
  <2>1. /\ UNCHANGED art /\ Live = {}
        /\ keys' = [k \in KeyIds |-> IF keys[k] = "unused" THEN "unused" ELSE "destroyed"]
    BY <1>4 DEF DestroyKeys, StoreInv, AllDead
  <2>2. writer' \in Writers /\ writer'.at = "deleted"
    BY <1>4 DEF DestroyKeys, Goto, Writers, Places
  <2> QED
    BY <2>1, <2>2 DEF StoreInv, StoreOK, LiveIsReadable, Live, KeyTaken, Missing, AllDead, PutPlaces
<1>5. CASE DeletedLog
  BY <1>5, IdleFact, MoveFact DEF DeletedLog, tables, PutPlaces
<1> QED
  BY <1>1, <1>2, <1>3, <1>4, <1>5 DEF Delete

LEMMA StoreStep ==
  ASSUME StoreInv, [Next]_vars
  PROVE  StoreInv'
<1>1. CASE Rotate
  <2>1. PICK k \in KeyIds : AddKey(k)
    BY <1>1 DEF Rotate
  <2>2. UNCHANGED <<art, writer>> /\ writer.at = "idle"
    BY <1>1 DEF Rotate
  <2>3. LiveIsReadable'
    BY <2>1, <2>2, AddKeyFact DEF StoreInv, StoreOK, LiveIsReadable, Live, Rows
  <2> QED
    BY <2>1, <2>2, <2>3, AddKeyFact DEF StoreInv, StoreOK, KeyTaken, Missing, AllDead, PutPlaces
<1>2. CASE Stop
  BY <1>2, IdleFact, MoveFact DEF Stop, tables, PutPlaces
<1>3. CASE UNCHANGED <<tables, writer>>
  BY <1>3 DEF tables, StoreInv, StoreOK, LiveIsReadable, Live, KeyTaken, Missing, AllDead
<1>4. ASSUME NEW r \in Readers, Read(r) PROVE UNCHANGED <<tables, writer>>
  BY <1>4 DEF Read, ReadRow, ReadKey, ReadLog, ReadEnds
<1> QED
  BY <1>1, <1>2, <1>3, <1>4, PutStep, SealStep, DeleteStep DEF Next, vars

LEMMA StoreInvariant == Spec => []StoreInv
<1>1. StoreInv /\ [Next]_vars => StoreInv'
  BY StoreStep
<1> QED
  BY <1>1, StoreInit, PTL DEF Spec

-----------------------------------------------------------------------------
\* What is not tombstoned can be decrypted, whatever rotations, stopped
\* deletions and later puts came before.
THEOREM LiveArtifactsAreReadable == Spec => []LiveIsReadable
<1>1. StoreInv => LiveIsReadable
  BY DEF StoreInv
<1> QED
  BY <1>1, StoreInvariant, PTL

-----------------------------------------------------------------------------
\* Every root row has its audit record, whatever stopped before or after it.
THEOREM SealedRootsAreLogged == Spec => []RootsAreLogged
<1> DEFINE RootTaken == writer.at = "root" => Entry("sealed", writer.seen) \in log
<1>1. Init => RootsAreLogged /\ RootTaken
  BY DEF Init, RootsAreLogged, Idle
<1>2. StoreInv /\ RootsAreLogged /\ RootTaken /\ [Next]_vars => RootsAreLogged' /\ RootTaken'
  <2> SUFFICES ASSUME StoreInv, RootsAreLogged, RootTaken, [Next]_vars
               PROVE  RootsAreLogged' /\ RootTaken'
    OBVIOUS
  <2>0. writer \in Writers
    BY DEF StoreInv, StoreOK
  <2>1. CASE SealLog
    <3>1. writer'.seen = writer.seen /\ Entry("sealed", writer.seen) \in log' /\ roots' = roots
          /\ log \subseteq log'
      BY <2>0, <2>1 DEF SealLog, Goto, tables, Writers
    <3> QED
      BY <3>1 DEF RootsAreLogged
  <2>2. CASE SealRoot
    BY <2>2, IdleFact DEF SealRoot, RootsAreLogged
  <2>3. CASE roots' = roots /\ log \subseteq log' /\ writer'.at # "root"
    BY <2>3 DEF RootsAreLogged
  <2>4. CASE roots' = roots /\ log \subseteq log' /\ writer' = writer
    BY <2>4 DEF RootsAreLogged
  <2>5. ASSUME Put PROVE roots' = roots /\ log \subseteq log' /\ writer'.at # "root"
    <3>1. ASSUME StartPut \/ StartRecord
          PROVE roots' = roots /\ log \subseteq log' /\ writer'.at = "lookup"
      BY <3>1, IdleFact DEF StartPut, StartRecord, tables, Writers
    <3>2. ASSUME Lookup \/ Ensure \/ RotateForPut \/ Insert
          PROVE roots' = roots /\ log \subseteq log' /\ writer'.at # "root"
      BY <2>0, <3>2 DEF Lookup, Ensure, RotateForPut, Insert, Goto, tables, Writers
    <3>3. ASSUME Create PROVE roots' = roots /\ log \subseteq log' /\ writer'.at # "root"
      BY <2>0, <3>3, IdleFact DEF Create, PutReturns, tables, Writers
    <3>4. ASSUME Upsert \/ Bind PROVE roots' = roots /\ log \subseteq log' /\ writer'.at # "root"
      BY <2>0, <3>4, IdleFact DEF Upsert, Bind, Goto, tables, Writers
    <3> QED
      BY <2>5, <3>1, <3>2, <3>3, <3>4 DEF Put
  <2>6. ASSUME Leaves PROVE roots' = roots /\ log \subseteq log' /\ writer'.at # "root"
    BY <2>6, StartFact DEF Leaves, tables, Places
  <2>7. ASSUME Delete
        PROVE roots' = roots /\ log \subseteq log' /\ (writer'.at # "root" \/ writer' = writer)
    <3>1. ASSUME StartDelete PROVE roots' = roots /\ log' = log /\ writer'.at = "tombstone"
      BY <3>1, StartFact DEF StartDelete, tables, Places
    <3>2. ASSUME Tombstone \/ DestroyKeys PROVE roots' = roots /\ log' = log /\ writer'.at # "root"
      BY <2>0, <3>2 DEF Tombstone, DestroyKeys, Goto, Writers
    <3>3. ASSUME DeleteLog PROVE roots' = roots /\ log \subseteq log' /\ writer' = writer
      BY <3>3 DEF DeleteLog, tables
    <3>4. ASSUME DeletedLog PROVE roots' = roots /\ log \subseteq log' /\ writer'.at # "root"
      BY <3>4, IdleFact DEF DeletedLog, tables
    <3> QED
      BY <2>7, <3>1, <3>2, <3>3, <3>4 DEF Delete
  <2>8. ASSUME Rotate \/ UNCHANGED vars PROVE roots' = roots /\ log \subseteq log' /\ writer' = writer
    BY <2>8 DEF Rotate, vars, tables
  <2>9. ASSUME Stop PROVE roots' = roots /\ log \subseteq log' /\ writer'.at # "root"
    BY <2>9, IdleFact DEF Stop, tables
  <2>10. ASSUME NEW r \in Readers, Read(r)
         PROVE roots' = roots /\ log \subseteq log' /\ writer' = writer
    BY <2>10 DEF Read, ReadRow, ReadKey, ReadLog, ReadEnds, tables
  <2> QED
    BY <2>1, <2>2, <2>3, <2>4, <2>5, <2>6, <2>7, <2>8, <2>9, <2>10 DEF Next, Seal
<1> HIDE DEF RootTaken
<1> QED
  BY <1>1, <1>2, StoreInvariant, PTL DEF Spec

-----------------------------------------------------------------------------
(* A content is gone when it is tombstoned and its key destroyed.  Neither   *)
(* is ever undone, and a reader holds the key id of the row it asks for.     *)
Gone(c) == art[c] \in Rows /\ art[c].dead /\ keys[art[c].key] = "destroyed"

Covered ==
  /\ writer.at = "tombstone" => writer.seen = Live
  /\ writer.at = "deletes" => \A c \in writer.seen : art[c] \in Rows /\ art[c].dead
  /\ writer.at = "deleted" => \A c \in writer.seen : Gone(c)

Recorded == \A e \in log : e.what = "deleted" => e.of \subseteq Contents /\ \A c \in e.of : Gone(c)

Held ==
  \A r \in Readers : rpc[r] = "key" =>
    /\ rart[r].of \in Contents /\ art[rart[r].of] \in Rows
    /\ rart[r].row.key = art[rart[r].of].key

ReadersOK == rpc \in [Readers -> {"idle", "key", "chunks", "served", "refused"}]
             /\ DOMAIN rart = Readers

\* No key is unused once a row refers to it.
RowKeys == \A c \in Contents : art[c] \in Rows => keys[art[c].key] # "unused"

DeletionInv == Covered /\ Recorded /\ Held /\ ReadersOK /\ RowKeys

\* Steps that keep the rows, or add one, and that keep destroyed keys.
LEMMA KeepFact ==
  ASSUME StoreInv, DeletionInv,
         \A c \in Contents : art[c] \in Rows =>
           art'[c] \in Rows /\ art'[c].key = art[c].key /\ (art[c].dead => art'[c].dead),
         \A k \in KeyIds : /\ keys[k] = "destroyed" => keys'[k] = "destroyed"
                           /\ keys[k] # "unused" => keys'[k] # "unused",
         UNCHANGED <<rpc, rart>>
  PROVE  Held' /\ ReadersOK' /\ \A c \in Contents : Gone(c) => Gone(c)'
BY DEF DeletionInv, Held, ReadersOK, Gone, Rows

\* Steps outside the deletion that log nothing about one.
LEMMA PlainFact ==
  ASSUME StoreInv, DeletionInv,
         Held', ReadersOK', \A c \in Contents : Gone(c) => Gone(c)', RowKeys',
         writer'.at \notin {"tombstone", "deletes", "deleted"},
         \A e \in log' : e \in log \/ e.what # "deleted"
  PROVE  DeletionInv'
<1>1. Covered'
  BY DEF Covered
<1>2. Recorded'
  BY DEF DeletionInv, Recorded
<1> QED
  BY <1>1, <1>2 DEF DeletionInv

LEMMA PutDeletion ==
  ASSUME StoreInv, DeletionInv, Put
  PROVE  DeletionInv'
<1>0. /\ writer \in Writers /\ art \in [Contents -> Rows \cup {None}]
      /\ keys \in [KeyIds -> {"unused", "active", "retired", "destroyed"}] /\ RowKeys
  BY DEF StoreInv, StoreOK, DeletionInv
<1>1. UNCHANGED <<rpc, rart>>
  BY DEF Put, StartPut, StartRecord, Lookup, Ensure, RotateForPut, Insert, Create, Upsert, Bind, reading
<1>2. writer'.at \notin {"tombstone", "deletes", "deleted"}
  <2>1. CASE StartPut \/ StartRecord
    BY <2>1, IdleFact DEF StartPut, StartRecord, Writers
  <2>2. CASE Lookup \/ Ensure \/ RotateForPut \/ Insert
    BY <1>0, <2>2 DEF Lookup, Ensure, RotateForPut, Insert, Goto, Writers
  <2>3. CASE Create
    BY <1>0, <2>3, IdleFact DEF Create, PutReturns, Writers
  <2>4. CASE Upsert \/ Bind
    BY <1>0, <2>4, IdleFact DEF Upsert, Bind, Goto, Writers
  <2> QED
    BY <2>1, <2>2, <2>3, <2>4 DEF Put
<1>3. \A e \in log' : e \in log \/ e.what # "deleted"
  <2>1. CASE Create \/ Bind
    BY <2>1 DEF Create, Bind, Entry
  <2>2. CASE log' = log
    BY <2>2
  <2> QED
    BY <2>1, <2>2 DEF Put, StartPut, StartRecord, Lookup, Ensure, RotateForPut, Insert, Upsert
<1>4. CASE RotateForPut
  <2>1. PICK k \in KeyIds : AddKey(k)
    BY <1>4 DEF RotateForPut
  <2>2. UNCHANGED art
    BY <1>4 DEF RotateForPut
  <2>3. \A i \in KeyIds : /\ keys[i] = "destroyed" => keys'[i] = "destroyed"
                          /\ keys[i] # "unused" => keys'[i] # "unused"
    BY <1>0, <2>1 DEF AddKey
  <2>4. RowKeys'
    BY <1>0, <2>2, <2>3 DEF RowKeys, Rows
  <2> QED
    BY <1>1, <1>2, <1>3, <2>2, <2>3, <2>4, KeepFact, PlainFact
<1>5. CASE Insert
  <2>1. /\ Head(writer.todo) \in Contents /\ art[Head(writer.todo)] = None
        /\ writer.key \in KeyIds /\ keys[writer.key] = "active"
    BY <1>0, <1>5, HeadFact DEF Insert, StoreInv, KeyTaken, Missing, PutPlaces, Writers
  <2>2. /\ art' = [art EXCEPT ![Head(writer.todo)] = [key |-> writer.key, dead |-> FALSE]]
        /\ UNCHANGED keys
    BY <1>5 DEF Insert
  <2>3. \A c \in Contents : art[c] \in Rows => art'[c] = art[c]
    BY <1>0, <2>1, <2>2, NoneFact
  <2>4. RowKeys'
    BY <1>0, <2>1, <2>2 DEF RowKeys
  <2> QED
    BY <1>1, <1>2, <1>3, <2>2, <2>3, <2>4, KeepFact, PlainFact
<1>6. CASE UNCHANGED <<art, keys>>
  <2>1. RowKeys'
    BY <1>0, <1>6 DEF RowKeys
  <2> QED
    BY <1>1, <1>2, <1>3, <1>6, <2>1, KeepFact, PlainFact
<1> QED
  BY <1>4, <1>5, <1>6
     DEF Put, StartPut, StartRecord, Lookup, Ensure, Create, Upsert, Bind, tables

LEMMA DeleteDeletion ==
  ASSUME StoreInv, DeletionInv, Delete
  PROVE  DeletionInv'
<1>0. /\ writer \in Writers /\ art \in [Contents -> Rows \cup {None}]
      /\ keys \in [KeyIds -> {"unused", "active", "retired", "destroyed"}] /\ RowKeys
      /\ Covered /\ Recorded /\ Live \subseteq Contents
  BY DEF StoreInv, StoreOK, DeletionInv, Live
<1>1. UNCHANGED <<rpc, rart>>
  BY DEF Delete, StartDelete, Tombstone, DeleteLog, DestroyKeys, DeletedLog, reading
<1>2. CASE StartDelete
  <2>1. writer'.at = "tombstone" /\ writer'.seen = Live /\ UNCHANGED <<art, keys, log>>
    BY <1>0, <1>2, IdleFact DEF StartDelete, tables, Writers
  <2>2. Covered' /\ Recorded' /\ RowKeys'
    BY <1>0, <2>1 DEF Covered, Recorded, RowKeys, Live, Gone
  <2> QED
    BY <1>1, <2>1, <2>2, KeepFact DEF DeletionInv
<1>3. CASE Tombstone
  <2>1. /\ art' = [c \in Contents |-> IF c \in Live THEN [art[c] EXCEPT !.dead = TRUE] ELSE art[c]]
        /\ UNCHANGED <<keys, log>> /\ writer.at = "tombstone"
    BY <1>3 DEF Tombstone
  <2>2. writer'.at = "deletes" /\ writer'.seen = Live
    BY <1>0, <1>3 DEF Tombstone, Goto, Writers, Covered
  <2>3. \A c \in Contents : art[c] \in Rows =>
          art'[c] \in Rows /\ art'[c].key = art[c].key /\ art'[c].dead
    BY <1>0, <2>1, NoneFact DEF Live, Rows
  <2>4. \A c \in Live : art'[c] \in Rows /\ art'[c].dead
    BY <1>0, <2>3 DEF Live
  <2>5. Covered'
    BY <2>2, <2>4 DEF Covered
  <2>6. /\ Held' /\ ReadersOK' /\ \A c \in Contents : Gone(c) => Gone(c)'
    BY <1>1, <2>1, <2>3, KeepFact
  <2>7. Recorded'
    BY <1>0, <2>1, <2>6 DEF Recorded
  <2>8. RowKeys'
    <3>1. \A c \in Contents : art'[c] \in Rows => art[c] \in Rows
      <4> TAKE c \in Contents
      <4>1. c \in Live => art[c] \in Rows
        BY <1>0 DEF Live
      <4>2. c \notin Live => art'[c] = art[c]
        BY <2>1
      <4> QED
        BY <4>1, <4>2
    <3> QED
      BY <1>0, <2>1, <2>3, <3>1 DEF RowKeys
  <2> QED
    BY <2>5, <2>6, <2>7, <2>8 DEF DeletionInv
<1>4. CASE DeleteLog
  <2>1. UNCHANGED <<art, keys, writer>> /\ \A e \in log' : e \in log \/ e.what # "deleted"
    BY <1>4 DEF DeleteLog, tables, Entry
  <2>2. Covered' /\ Recorded' /\ RowKeys'
    BY <1>0, <2>1 DEF Covered, Recorded, RowKeys, Live, Gone
  <2> QED
    BY <1>1, <2>1, <2>2, KeepFact DEF DeletionInv
<1>5. CASE DestroyKeys
  <2>1. /\ UNCHANGED <<art, log>> /\ writer.at = "deletes"
        /\ keys' = [k \in KeyIds |-> IF keys[k] = "unused" THEN "unused" ELSE "destroyed"]
    BY <1>5 DEF DestroyKeys
  <2>2. writer'.at = "deleted" /\ writer'.seen = writer.seen /\ writer.seen \subseteq Contents
    BY <1>0, <1>5 DEF DestroyKeys, Goto, Writers
  <2>3. \A c \in Contents : art[c] \in Rows => keys'[art[c].key] = "destroyed"
    BY <1>0, <2>1 DEF RowKeys, Rows
  <2>4. Covered'
    BY <1>0, <2>1, <2>2, <2>3 DEF Covered, Gone
  <2>5. \A k \in KeyIds : /\ keys[k] = "destroyed" => keys'[k] = "destroyed"
                          /\ keys[k] # "unused" => keys'[k] # "unused"
    BY <2>1
  <2>6. /\ Held' /\ ReadersOK' /\ \A c \in Contents : Gone(c) => Gone(c)'
    BY <1>1, <2>1, <2>5, KeepFact
  <2>7. Recorded' /\ RowKeys'
    BY <1>0, <2>1, <2>3, <2>6 DEF Recorded, RowKeys
  <2> QED
    BY <2>4, <2>6, <2>7 DEF DeletionInv
<1>6. CASE DeletedLog
  <2>1. /\ UNCHANGED <<art, keys>> /\ writer'.at = "idle" /\ writer.at = "deleted"
        /\ log' = log \cup {Entry("deleted", writer.seen)}
    BY <1>6, IdleFact DEF DeletedLog, tables
  <2>2. writer.seen \subseteq Contents /\ \A c \in writer.seen : Gone(c)'
    BY <1>0, <2>1 DEF Covered, Gone, Writers
  <2>3. /\ Held' /\ ReadersOK' /\ \A c \in Contents : Gone(c) => Gone(c)'
    BY <1>1, <2>1, KeepFact
  <2>4. Recorded'
    BY <1>0, <2>1, <2>2, <2>3 DEF Recorded, Entry
  <2>5. Covered' /\ RowKeys'
    BY <1>0, <2>1 DEF Covered, RowKeys
  <2> QED
    BY <2>3, <2>4, <2>5 DEF DeletionInv
<1> QED
  BY <1>2, <1>3, <1>4, <1>5, <1>6 DEF Delete

LEMMA DeletionStep ==
  ASSUME StoreInv, DeletionInv, [Next]_vars
  PROVE  DeletionInv'
<1>0. /\ writer \in Writers /\ art \in [Contents -> Rows \cup {None}]
      /\ keys \in [KeyIds -> {"unused", "active", "retired", "destroyed"}] /\ RowKeys
      /\ Covered /\ Recorded /\ Held /\ ReadersOK
  BY DEF StoreInv, StoreOK, DeletionInv
<1>1. CASE Rotate
  <2>1. PICK k \in KeyIds : AddKey(k)
    BY <1>1 DEF Rotate
  <2>2. UNCHANGED <<art, log, writer, rpc, rart>> /\ writer.at = "idle"
    BY <1>1 DEF Rotate, reading
  <2>3. \A i \in KeyIds : /\ keys[i] = "destroyed" => keys'[i] = "destroyed"
                          /\ keys[i] # "unused" => keys'[i] # "unused"
    BY <1>0, <2>1 DEF AddKey
  <2>4. RowKeys'
    BY <1>0, <2>2, <2>3 DEF RowKeys, Rows
  <2> QED
    BY <2>2, <2>3, <2>4, KeepFact, PlainFact
<1>2. CASE Seal \/ Stop
  <2>1. UNCHANGED <<art, keys, rpc, rart>>
    BY <1>2 DEF Seal, Leaves, SealLog, SealRoot, Stop, tables, reading
  <2>2. writer'.at \notin {"tombstone", "deletes", "deleted"}
    BY <1>0, <1>2, IdleFact DEF Seal, Leaves, SealLog, SealRoot, Stop, Goto, Writers
  <2>3. \A e \in log' : e \in log \/ e.what # "deleted"
    BY <1>2 DEF Seal, Leaves, SealLog, SealRoot, Stop, Entry
  <2>4. RowKeys'
    BY <1>0, <2>1 DEF RowKeys
  <2> QED
    BY <2>1, <2>2, <2>3, <2>4, KeepFact, PlainFact
<1>3. ASSUME NEW r \in Readers, Read(r) PROVE DeletionInv'
  <2>1. UNCHANGED <<art, keys, writer>> /\ \A e \in log' : e \in log \/ e.what # "deleted"
    BY <1>3 DEF Read, ReadRow, ReadKey, ReadLog, ReadEnds, tables, Entry
  <2>2. Covered' /\ Recorded' /\ RowKeys'
    BY <1>0, <2>1 DEF Covered, Recorded, RowKeys, Live, Gone
  <2>3. ReadersOK'
    BY <1>0, <1>3 DEF Read, ReadRow, ReadKey, ReadLog, ReadEnds, ReadersOK
  <2>4. Held'
    <3> SUFFICES ASSUME NEW q \in Readers, rpc'[q] = "key"
                 PROVE  /\ rart'[q].of \in Contents /\ art[rart'[q].of] \in Rows
                        /\ rart'[q].row.key = art[rart'[q].of].key
      BY <2>1 DEF Held
    <3>1. CASE q = r /\ ReadRow(r)
      <4>1. PICK c \in Contents : /\ art[c] # None
                                  /\ rart' = [rart EXCEPT ![r] = [of |-> c, row |-> art[c]]]
        BY <3>1 DEF ReadRow
      <4>2. rart'[q] = [of |-> c, row |-> art[c]]
        BY <1>0, <3>1, <4>1 DEF ReadersOK
      <4> QED
        BY <1>0, <4>1, <4>2
    <3>2. CASE ~(q = r /\ ReadRow(r))
      <4>1. rpc[q] = "key" /\ rart'[q] = rart[q]
        BY <1>0, <1>3, <3>2 DEF Read, ReadRow, ReadKey, ReadLog, ReadEnds, ReadersOK
      <4> QED
        BY <1>0, <4>1 DEF Held
    <3> QED
      BY <3>1, <3>2
  <2> QED
    BY <2>2, <2>3, <2>4 DEF DeletionInv
<1>4. CASE UNCHANGED vars
  BY <1>0, <1>4 DEF vars, tables, reading, DeletionInv, Covered, Recorded, RowKeys, Live, Gone, Held, ReadersOK
<1> QED
  BY <1>1, <1>2, <1>3, <1>4, PutDeletion, DeleteDeletion DEF Next

LEMMA DeletionInit == Init => DeletionInv
BY NoneFact, IdleFact DEF Init, DeletionInv, Covered, Recorded, Held, ReadersOK, RowKeys

LEMMA DeletionInvariant == Spec => []DeletionInv
<1>1. StoreInv /\ DeletionInv /\ [Next]_vars => DeletionInv'
  BY DeletionStep
<1> QED
  BY <1>1, DeletionInit, StoreInvariant, PTL DEF Spec

\* Once the record of a deletion is written, a reader that has not got its
\* key never gets the content, although it holds a row from before.
THEOREM DeletedContentIsUnreadable == Spec => DeletedIsUnreadable
<1> DEFINE Step == \A r \in Readers, e \in log :
             (rpc[r] = "key" /\ e.what = "deleted" /\ rart[r].of \in e.of) => rpc'[r] # "chunks"
<1>1. DeletionInv /\ [Next]_vars => [Step]_vars
  <2> SUFFICES ASSUME DeletionInv, [Next]_vars, NEW r \in Readers, NEW e \in log,
                      rpc[r] = "key", e.what = "deleted", rart[r].of \in e.of
               PROVE  rpc'[r] # "chunks"
    OBVIOUS
  <2>1. keys[rart[r].row.key] = "destroyed" /\ ReadersOK
    BY DEF DeletionInv, Recorded, Held, Gone
  <2>2. CASE ReadKey(r)
    BY <2>1, <2>2 DEF ReadKey, ReadersOK
  <2>3. CASE rpc'[r] = rpc[r] \/ rpc'[r] = "idle"
    BY <2>3
  <2>4. ASSUME Put \/ Seal \/ Delete \/ Rotate \/ Stop \/ UNCHANGED vars PROVE rpc' = rpc
    BY <2>4 DEF Put, StartPut, StartRecord, Lookup, Ensure, RotateForPut, Insert, Create, Upsert, Bind,
         Seal, Leaves, SealLog, SealRoot, Delete, StartDelete, Tombstone, DeleteLog, DestroyKeys,
         DeletedLog, Rotate, Stop, reading, vars
  <2>5. ASSUME NEW q \in Readers, Read(q), q # r \/ ~ReadKey(r) PROVE rpc'[r] = rpc[r] \/ rpc'[r] = "idle"
    BY <2>1, <2>5 DEF Read, ReadRow, ReadKey, ReadLog, ReadEnds, ReadersOK
  <2> QED
    BY <2>2, <2>3, <2>4, <2>5 DEF Next
<1>2. DeletedIsUnreadable <=> [][Step]_vars
  BY DEF DeletedIsUnreadable
<1> HIDE DEF Step
<1> QED
  BY <1>1, <1>2, DeletionInvariant, PTL DEF Spec

-----------------------------------------------------------------------------
(* What put returned is stored and logged; a tool run gets the two artifacts *)
(* that were returned for it.  Between its insert and its custody record the *)
(* content that is being put explains itself, so only a stop leaves a gap.   *)
InCustody(rows, entries, c) == rows[c] # None /\ Entry("create", c) \in entries

Returned ==
  /\ \A i \in 1 .. Len(writer.refs) : InCustody(art, log, writer.refs[i])
  /\ writer.at \in PutPlaces /\ writer.run # None => Len(writer.refs) + Len(writer.todo) = 2
  /\ writer.at = "upsert" => Len(writer.refs) = 2
  /\ writer.at = "create" => art[Head(writer.todo)] # None

RunsOK == DOMAIN evidence = ToolRuns /\ \A t \in ToolRuns : evidence[t] # None => \A i \in 1 .. 2 : evidence[t][i] \in Contents

Gaps == faults \in Nat /\ IsFiniteSet(Unlogged) /\ Cardinality(Unlogged) <= faults

CustodyInv == Returned /\ RunsOK /\ EvidenceInCustody /\ Gaps

\* Rows are never removed and the log only grows.
LEMMA GrowFact ==
  ASSUME StoreInv, [Next]_vars
  PROVE  (\A c \in Contents : art[c] # None => art'[c] # None) /\ log \subseteq log'
<1>1. log \subseteq log'
  BY DEF Next, Put, StartPut, StartRecord, Lookup, Ensure, RotateForPut, Insert, Create, Upsert, Bind,
     Seal, Leaves, SealLog, SealRoot, Delete, StartDelete, Tombstone, DeleteLog, DestroyKeys, DeletedLog,
     Rotate, Stop, Read, ReadRow, ReadKey, ReadLog, ReadEnds, vars
<1>2. CASE art' = art
  BY <1>1, <1>2
<1>3. art \in [Contents -> Rows \cup {None}]
  BY DEF StoreInv, StoreOK
<1>4. CASE Insert
  <2> DEFINE row == [key |-> writer.key, dead |-> FALSE]
  <2>1. art' = [art EXCEPT ![Head(writer.todo)] = row]
    BY <1>4 DEF Insert
  <2>2. row \in Rows
    BY <1>4 DEF Insert, StoreInv, KeyTaken, Rows
  <2> HIDE DEF row
  <2> QED
    BY <1>1, <1>3, <2>1, <2>2, NoneFact
<1>5. CASE Tombstone
  <2>1. art' = [c \in Contents |-> IF c \in Live THEN [art[c] EXCEPT !.dead = TRUE] ELSE art[c]]
    BY <1>5 DEF Tombstone
  <2>2. \A c \in Live : [art[c] EXCEPT !.dead = TRUE] \in Rows
    BY <1>3 DEF Live, Rows
  <2> QED
    BY <1>1, <2>1, <2>2, NoneFact
<1> QED
  BY <1>2, <1>4, <1>5
     DEF Next, Put, StartPut, StartRecord, Lookup, Ensure, RotateForPut, Create, Upsert, Bind,
     Seal, Leaves, SealLog, SealRoot, Delete, StartDelete, DeleteLog, DestroyKeys, DeletedLog,
     Rotate, Stop, Read, ReadRow, ReadKey, ReadLog, ReadEnds, tables, vars

\* A step that is no stop leaves no content unlogged that was not before.
LEMMA GapFact ==
  ASSUME StoreInv, CustodyInv, [Next]_vars
  PROVE  Gaps'
<1>1. writer \in Writers /\ faults \in Nat /\ IsFiniteSet(Unlogged) /\ Cardinality(Unlogged) <= faults
      /\ Cardinality(Unlogged) \in Nat
  BY FS_CardinalityType DEF StoreInv, StoreOK, CustodyInv, Gaps
<1>2. log \subseteq log'
  BY GrowFact
<1>3. CASE Stop
  <2>1. Unlogged' \subseteq Unlogged \cup {Head(writer.todo)}
    BY <1>2, <1>3, IdleFact DEF Stop, Unlogged, tables
  <2>2. IsFiniteSet(Unlogged \cup {Head(writer.todo)})
        /\ Cardinality(Unlogged \cup {Head(writer.todo)}) \in {Cardinality(Unlogged), Cardinality(Unlogged) + 1}
    BY <1>1, FS_AddElement
  <2>3. IsFiniteSet(Unlogged') /\ Cardinality(Unlogged') <= Cardinality(Unlogged) + 1
    BY <1>1, <2>1, <2>2, FS_Subset, FS_CardinalityType
  <2>4. faults' = faults + 1
    BY <1>3 DEF Stop
  <2>5. Cardinality(Unlogged') \in Nat
    BY <2>3, FS_CardinalityType
  <2> QED
    BY <1>1, <2>3, <2>4, <2>5 DEF Gaps
<1>4. CASE ~Stop
  <2>1. faults' = faults
    BY <1>4 DEF Next, Put, StartPut, StartRecord, Lookup, Ensure, RotateForPut, Insert, Create, Upsert, Bind,
       Seal, Leaves, SealLog, SealRoot, Delete, StartDelete, Tombstone, DeleteLog, DestroyKeys, DeletedLog,
       Rotate, Read, ReadRow, ReadKey, ReadLog, ReadEnds, vars
  <2>2. ASSUME NEW c \in Unlogged' PROVE c \in Unlogged
    <3>1. c \in Contents /\ art'[c] # None /\ Entry("create", c) \notin log
          /\ ~(writer'.at = "create" /\ Head(writer'.todo) = c) /\ Entry("create", c) \notin log'
      BY <1>2, <2>2 DEF Unlogged
    <3>2. art[c] # None
      <4>1. CASE Insert
        <5>1. writer'.at = "create" /\ writer'.todo = writer.todo
          BY <1>1, <4>1 DEF Insert, Goto, Writers
        <5>2. art' = [art EXCEPT ![Head(writer.todo)] = [key |-> writer.key, dead |-> FALSE]]
          BY <4>1 DEF Insert
        <5> QED
          BY <3>1, <5>1, <5>2 DEF StoreInv, StoreOK
      <4>2. CASE Tombstone
        BY <3>1, <4>2 DEF Tombstone, Live
      <4>3. CASE art' = art
        BY <3>1, <4>3
      <4> QED
        BY <1>4, <4>1, <4>2, <4>3
           DEF Next, Put, StartPut, StartRecord, Lookup, Ensure, RotateForPut, Create, Upsert, Bind,
           Seal, Leaves, SealLog, SealRoot, Delete, StartDelete, DeleteLog, DestroyKeys, DeletedLog,
           Rotate, Read, ReadRow, ReadKey, ReadLog, ReadEnds, tables, vars
    <3>3. writer.at = "create" => writer' = writer \/ log' = log \cup {Entry("create", Head(writer.todo))}
      BY <1>4 DEF Next, Put, StartPut, StartRecord, Lookup, Ensure, RotateForPut, Insert, Create, Upsert, Bind,
         Seal, Leaves, SealLog, SealRoot, Delete, StartDelete, Tombstone, DeleteLog, DestroyKeys, DeletedLog,
         Rotate, Read, ReadRow, ReadKey, ReadLog, ReadEnds, vars
    <3> QED
      BY <3>1, <3>2, <3>3 DEF Unlogged
  <2>3. IsFiniteSet(Unlogged') /\ Cardinality(Unlogged') <= Cardinality(Unlogged)
    BY <1>1, <2>2, FS_Subset
  <2>4. Cardinality(Unlogged') \in Nat
    BY <2>3, FS_CardinalityType
  <2> QED
    BY <1>1, <2>1, <2>3, <2>4 DEF Gaps
<1> QED
  BY <1>3, <1>4

\* The writer's record of what was returned.
LEMMA ReturnedFact ==
  ASSUME StoreInv, CustodyInv, [Next]_vars
  PROVE  Returned'
<1>0. writer \in Writers /\ Returned /\ log \subseteq log' /\ \A c \in Contents : InCustody(art, log, c) => InCustody(art', log', c)
  BY GrowFact DEF StoreInv, StoreOK, CustodyInv, InCustody
<1>1. CASE writer' = writer
  <2>1. \A i \in 1 .. Len(writer.refs) : writer.refs[i] \in Contents
    BY <1>0 DEF Writers
  <2>2. writer.at = "create" => Head(writer.todo) \in Contents
    BY <1>0, HeadFact DEF StoreInv, Missing, PutPlaces, Writers
  <2> QED
    BY <1>0, <1>1, <2>1, <2>2, GrowFact DEF Returned
<1>2. CASE writer'.refs = <<>> /\ writer'.at \notin PutPlaces \cup {"upsert"}
  BY <1>2 DEF Returned, PutPlaces
<1>3. CASE StartPut
  <2>1. writer'.refs = <<>> /\ writer'.at = "lookup" /\ writer'.run = None
    BY <1>3, IdleFact DEF StartPut, Idle
  <2> QED
    BY <2>1 DEF Returned
<1>4. CASE StartRecord
  <2>1. writer'.refs = <<>> /\ writer'.at = "lookup" /\ Len(writer'.todo) = 2
    BY <1>4, IdleFact DEF StartRecord, Idle
  <2> QED
    BY <2>1 DEF Returned
<1>5. CASE Lookup \/ Ensure \/ RotateForPut \/ Insert
  <2>1. writer'.refs = writer.refs /\ writer'.todo = writer.todo /\ writer'.run = writer.run
        /\ writer'.at \in PutPlaces /\ writer.at \in PutPlaces
    BY <1>0, <1>5 DEF Lookup, Ensure, RotateForPut, Insert, Goto, Writers, PutPlaces
  <2>2. \A i \in 1 .. Len(writer.refs) : writer.refs[i] \in Contents
    BY <1>0 DEF Writers
  <2>3. Head(writer.todo) \in Contents
    BY <1>0, <2>1, HeadFact DEF StoreInv, Missing, Writers
  <2>4. writer'.at = "create" => art'[Head(writer.todo)] # None
    <3>1. CASE Lookup
      BY <1>0, <3>1 DEF Lookup, Goto, tables, Writers
    <3>2. CASE Ensure \/ RotateForPut
      BY <1>0, <3>2 DEF Ensure, RotateForPut, Goto, Writers
    <3>3. CASE Insert
      <4> DEFINE row == [key |-> writer.key, dead |-> FALSE]
      <4>1. art' = [art EXCEPT ![Head(writer.todo)] = row]
        BY <3>3 DEF Insert
      <4>2. row \in Rows /\ art \in [Contents -> Rows \cup {None}]
        BY <3>3 DEF Insert, StoreInv, StoreOK, KeyTaken, Rows
      <4> HIDE DEF row
      <4> QED
        BY <2>3, <4>1, <4>2, NoneFact
    <3> QED
      BY <1>5, <3>1, <3>2, <3>3
  <2>5. writer'.at # "upsert"
    BY <2>1 DEF PutPlaces
  <2> QED
    BY <1>0, <2>1, <2>2, <2>4, <2>5 DEF Returned
<1>6. CASE Create
  <2>1. /\ writer.todo \in Seq(Contents) /\ writer.todo # <<>> /\ writer.refs \in Seq(Contents)
        /\ log' = log \cup {Entry("create", Head(writer.todo))} /\ art' = art /\ writer.at = "create"
    BY <1>0, <1>6 DEF Create, tables, StoreInv, Missing, PutPlaces, Writers
  <2>2. PICK c \in Contents, u \in Seq(Contents) : c = Head(writer.todo) /\ u = Tail(writer.todo) /\ Len(u) = Len(writer.todo) - 1
    BY <2>1, HeadFact
  <2> DEFINE rs == Append(writer.refs, c)
  <2>3. rs \in Seq(Contents) /\ Len(rs) = Len(writer.refs) + 1 /\ rs[Len(rs)] = c
        /\ \A i \in 1 .. Len(writer.refs) : rs[i] = writer.refs[i]
    BY <2>1, AppendProperties
  <2> HIDE DEF rs
  <2>4. \A i \in 1 .. Len(rs) : InCustody(art', log', rs[i])
    <3> TAKE i \in 1 .. Len(rs)
    <3>1. CASE i = Len(rs)
      BY <1>0, <2>1, <2>2, <2>3, <3>1 DEF Returned, InCustody
    <3>2. CASE i # Len(rs)
      <4>1. i \in 1 .. Len(writer.refs) /\ rs[i] = writer.refs[i] /\ writer.refs[i] \in Contents
        BY <2>1, <2>3, <3>2, LenProperties
      <4> QED
        BY <1>0, <4>1 DEF Returned
    <3> QED
      BY <3>1, <3>2
  <2>5. Len(writer.todo) \in Nat /\ Len(writer.refs) \in Nat /\ (u = <<>> <=> Len(u) = 0) /\ Len(u) \in Nat
    BY <2>1, <2>2, LenProperties, EmptySeq
  <2>6. writer.run # None => Len(rs) + Len(u) = 2
    <3>1. writer.run # None => Len(writer.refs) + Len(writer.todo) = 2
      BY <1>0, <2>1 DEF Returned, PutPlaces
    <3>2. PICK k, n \in Nat : k = Len(writer.refs) /\ n = Len(writer.todo)
      BY <2>5
    <3>3. Len(rs) = k + 1
      BY <2>3, <3>2
    <3>4. Len(u) = n - 1
      BY <2>2, <3>2, Zenon
    <3>5. writer.run # None => k + n = 2
      BY <3>1, <3>2, Zenon
    <3>6. k + 1 + (n - 1) = k + n
      OBVIOUS
    <3> QED
      BY <3>3, <3>4, <3>5, <3>6, Zenon
  <2>9. CASE writer' = Idle
    BY <1>2, <2>9 DEF Idle, PutPlaces
  <2>7. CASE u # <<>> /\ writer' = [writer EXCEPT !.at = "lookup", !.todo = u, !.refs = rs]
    <3>1. writer'.at = "lookup" /\ writer'.todo = u /\ writer'.refs = rs /\ writer'.run = writer.run
      BY <1>0, <2>7 DEF Writers
    <3> QED
      BY <2>4, <2>6, <3>1 DEF Returned, InCustody
  <2>8. CASE u = <<>> /\ writer.run # None /\ writer' = [writer EXCEPT !.at = "upsert", !.todo = u, !.refs = rs]
    <3>1. writer'.at = "upsert" /\ writer'.refs = rs
      BY <1>0, <2>8 DEF Writers
    <3>2. Len(rs) = 2
      BY <2>3, <2>5, <2>6, <2>8
    <3> QED
      BY <2>4, <3>1, <3>2 DEF Returned, PutPlaces, InCustody
  <2> QED
    BY <1>6, <2>2, <2>7, <2>8, <2>9 DEF Create, PutReturns, rs
<1>7. CASE Upsert
  <2>1. writer'.refs = writer.refs /\ writer'.at = "bind" /\ art' = art /\ log' = log
    BY <1>0, <1>7 DEF Upsert, Goto, Writers
  <2>2. \A i \in 1 .. Len(writer.refs) : InCustody(art', log', writer.refs[i])
    BY <1>0, <2>1 DEF Returned
  <2> QED
    BY <2>1, <2>2 DEF Returned, PutPlaces
<1>8. CASE Bind \/ SealRoot \/ DeletedLog \/ Stop \/ Leaves \/ StartDelete
  <2>1. writer'.refs = <<>> /\ writer'.at \in {"idle", "sealed", "tombstone"}
    <3>1. CASE Leaves \/ StartDelete
      <4>1. PICK place \in {"sealed", "tombstone"} : writer' = [Idle EXCEPT !.at = place, !.seen = Live]
        BY <3>1 DEF Leaves, StartDelete
      <4> QED
        BY <4>1 DEF Idle
    <3>2. CASE writer' = Idle
      BY <3>2 DEF Idle
    <3> QED
      BY <1>8, <3>1, <3>2 DEF Bind, SealRoot, DeletedLog, Stop
  <2> QED
    BY <2>1, <1>2 DEF PutPlaces
<1>9. CASE SealLog \/ Tombstone \/ DestroyKeys
  <2>1. writer'.refs = writer.refs /\ writer'.at \in {"root", "deletes", "deleted"}
        /\ \A i \in 1 .. Len(writer.refs) : writer.refs[i] \in Contents
    BY <1>0, <1>9 DEF SealLog, Tombstone, DestroyKeys, Goto, Writers
  <2> QED
    BY <1>0, <2>1 DEF Returned, PutPlaces
<1> QED
  BY <1>1, <1>3, <1>4, <1>5, <1>6, <1>7, <1>8, <1>9
     DEF Next, Put, Seal, Delete, DeleteLog, Rotate, Read, ReadRow, ReadKey, ReadLog, ReadEnds, vars

LEMMA CustodyStep == ASSUME StoreInv, CustodyInv, [Next]_vars PROVE CustodyInv'
<1>1. RunsOK' /\ EvidenceInCustody'
  <2>1. RunsOK /\ EvidenceInCustody /\ Returned /\ writer \in Writers
    BY DEF CustodyInv, StoreInv, StoreOK
  <2>2. CASE Upsert
    <3>1. evidence' = [evidence EXCEPT ![writer.run] = writer.refs] /\ Len(writer.refs) = 2 /\ art' = art /\ log' = log
          /\ \A i \in 1 .. 2 : InCustody(art, log, writer.refs[i]) /\ writer.refs[i] \in Contents
      BY <2>1, <2>2 DEF Upsert, Returned, Writers
    <3>2. \A t \in ToolRuns : evidence'[t] = evidence[t] \/ evidence'[t] = writer.refs
      BY <2>1, <3>1 DEF RunsOK
    <3>3. DOMAIN evidence' = ToolRuns
      BY <2>1, <3>1 DEF RunsOK
    <3>4. RunsOK'
      BY <2>1, <3>1, <3>2, <3>3 DEF RunsOK
    <3>5. \A t \in ToolRuns : evidence'[t] # None =>
            \A i \in 1 .. 2 : art[evidence'[t][i]] # None /\ Entry("create", evidence'[t][i]) \in log
      <4> TAKE t \in ToolRuns
      <4>1. CASE evidence'[t] = writer.refs
        BY <3>1, <4>1 DEF InCustody
      <4>2. CASE evidence'[t] = evidence[t]
        BY <2>1, <4>2 DEF EvidenceInCustody
      <4> QED
        BY <3>2, <4>1, <4>2
    <3> QED
      BY <3>1, <3>4, <3>5 DEF EvidenceInCustody
  <2>3. CASE evidence' = evidence
    <3>1. \A t \in ToolRuns : evidence[t] # None => \A i \in 1 .. 2 : art'[evidence[t][i]] # None /\ Entry("create", evidence[t][i]) \in log'
      BY <2>1, GrowFact DEF RunsOK, EvidenceInCustody
    <3> QED
      BY <2>1, <2>3, <3>1 DEF RunsOK, EvidenceInCustody
  <2> QED
    BY <2>2, <2>3 DEF Next, Put, StartPut, StartRecord, Lookup, Ensure, RotateForPut, Insert, Create, Bind,
       Seal, Leaves, SealLog, SealRoot, Delete, StartDelete, Tombstone, DeleteLog, DestroyKeys, DeletedLog,
       Rotate, Stop, Read, ReadRow, ReadKey, ReadLog, ReadEnds, tables, vars
<1> QED
  BY <1>1, GapFact, ReturnedFact DEF CustodyInv

LEMMA CustodyInit == Init => CustodyInv
<1> SUFFICES ASSUME Init PROVE CustodyInv
  OBVIOUS
<1>1. Unlogged = {}
  BY DEF Init, Unlogged
<1> QED
  BY <1>1, FS_EmptySet DEF Init, Idle, CustodyInv, Returned, RunsOK, EvidenceInCustody, Gaps, PutPlaces

\* What tool runs refer to, what was stored and what was sealed is in the custody
\* log, but for at most one content for each stop of the writer; for any contents,
\* tool runs, readers and stops.
THEOREM CustodyAlwaysKept == Spec => []CustodyIsKept
<1>1. StoreInv /\ CustodyInv /\ [Next]_vars => CustodyInv'
  BY CustodyStep
<1>2. CustodyInv /\ RootsAreLogged => CustodyIsKept
  BY DEF CustodyInv, Gaps, CustodyIsKept, CustodyGaps
<1> QED
  BY <1>1, <1>2, CustodyInit, StoreInvariant, SealedRootsAreLogged, PTL DEF Spec
=============================================================================
