--------------------------- MODULE MCTelegramText ---------------------------
(* Every text of up to seven characters at limits of two to four.          *)
EXTENDS TelegramText

MCTexts == UNION {[1 .. n -> Chars] : n \in 1 .. 7}
=============================================================================
