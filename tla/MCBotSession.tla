--------------------------- MODULE MCBotSession ---------------------------
(* Small instances of BotSession for TLC.                                  *)
EXTENDS BotSession, TLC

CONSTANTS h1, h2, ann, bob, chat

MCHandlers == {h1, h2}
MCOneUser == {ann}
MCUsers == {ann, bob}
MCChats == {chat}
MCSymmetry == Permutations(MCHandlers) \cup Permutations(MCUsers)
=============================================================================
