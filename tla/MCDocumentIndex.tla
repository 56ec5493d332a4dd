-------------------------- MODULE MCDocumentIndex --------------------------
(* Small instances of DocumentIndex for TLC.                               *)
EXTENDS DocumentIndexRefinement, TLC

CONSTANTS r1, r2, alice, bob

MCRequests == {r1, r2}
MCOneRequest == {r1}
MCOwners == {alice, bob}
MCOneOwner == {alice}

\* the collection is absent, fits the embeddings, or was made for others
MCVectorSize == 1
MCInitialSizes == {NoCollection, MCVectorSize, MCVectorSize + 1}

\* no action distinguishes one request slot, or one owner, from another
MCSymmetry == Permutations(MCRequests) \cup Permutations(MCOwners)
=============================================================================
