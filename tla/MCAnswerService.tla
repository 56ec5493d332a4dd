-------------------------- MODULE MCAnswerService --------------------------
(* Small instances of AnswerService for TLC.                               *)
EXTENDS AnswerService, TLC

CONSTANTS r1, r2, r3, ann, bob, c1

MCTwo == {r1, r2}
MCThree == {r1, r2, r3}
MCOwners == {ann, bob}
MCOneOwner == {ann}
MCChunks == {c1}
MCTwoDocuments == 1..2
MCOneDocument == {1}
MCSymmetry == Permutations(MCTwo) \cup Permutations(MCOwners)
=============================================================================
