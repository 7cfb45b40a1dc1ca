--------------------------- MODULE MCArtifactStore ---------------------------
(* Model checking of ArtifactStore: a blob that is tagged by itself and        *)
(* through a manifest.                                                         *)
EXTENDS ArtifactStore, TLC

CONSTANTS b1, m1, t1, t2, p1, p2

MCEntries == [m \in Manifests |-> Blobs]

MCSymmetry == Permutations(Tags) \cup Permutations(Publishers)

=============================================================================
