-------------------------- MODULE MCUserDirectory --------------------------
(* A small instance of UserDirectory for TLC.                              *)
EXTENDS UserDirectory

CONSTANTS r1, r2, ann, bea

MCTwo == {r1, r2}
MCNames == {ann, bea}
MCTelegramIds == {0, 7, 8}
=============================================================================
