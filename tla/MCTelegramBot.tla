--------------------------- MODULE MCTelegramBot ---------------------------
(***************************************************************************)
(* Instances of TelegramBot: two tokens, messages of two chunks.           *)
(***************************************************************************)
EXTENDS TelegramBot

CONSTANTS t1, t2
=============================================================================
