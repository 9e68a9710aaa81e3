--------------------------- MODULE MCEvidenceStore ---------------------------
(* Instances of EvidenceStore.  Contents, keys and readers are interchangeable. *)
EXTENDS EvidenceStore, TLC

Symmetry == Permutations(Contents) \cup Permutations(KeyIds)
=============================================================================
