----------------------------- MODULE EvidenceRoot -----------------------------
(***************************************************************************)
(* _merkle_root and verify_scan_root (app/evidence/raw_store.py): the root *)
(* over the hashes of a scan's live artifacts and of its captured flows,   *)
(* and what a later verification can tell.  SHA-256 is injective here: the *)
(* digest of two nodes is their pair.                                      *)
(***************************************************************************)
EXTENDS Naturals, Sequences, SequencesExt, FiniteSets

CONSTANTS
  Artifacts,  \* hashes an artifact may have: numbers, ordered as such
  Flows,      \* hashes a flow may have, numbers that no artifact has
  None        \* no root row

VARIABLES
  live,       \* artifacts that are not tombstoned
  dead,       \* tombstoned ones; their hashes stay taken
  flows,      \* rows of flow_evidence
  sealed,     \* the latest row of scan_evidence_roots
  covered     \* the hashes that were sealed: nothing stores them
vars == <<live, dead, flows, sealed, covered>>

\* Distinct hashes, sorted: the i-th has i - 1 before it.
Ith(S, i) == CHOOSE h \in S : Cardinality({g \in S : g < h}) = i - 1
InOrder(S) == [i \in 1 .. Cardinality(S) |-> Ith(S, i)]

\* evidence_hashes.
EvidenceHashes == InOrder(live) \o InOrder(flows)

\* Mutant: a last node without a partner is dropped.
PairsDropping(nodes) ==
  [i \in 1..(Len(nodes) \div 2) |-> <<nodes[2 * i - 1], nodes[2 * i]>>]

\* One round of the loop: the last node is its own partner if it has none.
Pairs(nodes) ==
  LET even == IF Len(nodes) % 2 = 1 THEN Append(nodes, Last(nodes)) ELSE nodes
  IN  [i \in 1..(Len(even) \div 2) |-> <<even[2 * i - 1], even[2 * i]>>]

\* The nodes after each round.
Levels(nodes) ==
  LET Level[k \in 0 .. Len(nodes)] ==
        IF k = 0 THEN nodes
        ELSE IF Len(Level[k - 1]) = 1 THEN Level[k - 1] ELSE Pairs(Level[k - 1])
  IN  Level

\* _merkle_root sorts the leaves and pairs them until one node is left; without any
\* it is the digest of nothing.
MerkleRoot(leaves) ==
  LET sorted == InOrder(Range(leaves))
      nodes == [i \in DOMAIN sorted |-> <<sorted[i]>>]
  IN  IF leaves = <<>> THEN <<>> ELSE Levels(nodes)[Len(nodes)][1]

Init ==
  /\ live = {} /\ dead = {} /\ flows = {}
  /\ sealed = None /\ covered = {}

Capture(h) ==
  \/ h \in Artifacts \ (live \cup dead) /\ live' = live \cup {h} /\ UNCHANGED <<dead, flows, sealed, covered>>
  \/ h \in Flows \ flows /\ flows' = flows \cup {h} /\ UNCHANGED <<live, dead, sealed, covered>>

\* seal_scan: the root and the number of leaves.
Seal ==
  /\ sealed' = [root |-> MerkleRoot(EvidenceHashes), count |-> Len(EvidenceHashes)]
  /\ covered' = live \cup flows
  /\ UNCHANGED <<live, dead, flows>>

\* The artifacts that delete_scan_evidence tombstones; flows stay.
Delete ==
  /\ live # {}
  /\ dead' = dead \cup live /\ live' = {}
  /\ UNCHANGED <<flows, sealed, covered>>

\* verify_scan_root.
Verified ==
  /\ sealed # None
  /\ Len(EvidenceHashes) = sealed.count
  /\ MerkleRoot(EvidenceHashes) = sealed.root

Next == (\E h \in Artifacts \cup Flows : Capture(h)) \/ Seal \/ Delete

Spec == Init /\ [][Next]_vars

-----------------------------------------------------------------------------
\* A scan verifies exactly when its evidence is what was sealed: nothing
\* added, tombstoned or exchanged, for odd and even numbers of leaves.
VerifiedIsExact == sealed # None => (Verified <=> live \cup flows = covered)
=============================================================================
