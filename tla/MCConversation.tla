-------------------------- MODULE MCConversation --------------------------
(***************************************************************************)
(* Instances of Conversation: questions wN come from the browser on        *)
(* connection cN, t1 from Telegram.                                        *)
(***************************************************************************)
EXTENDS Conversation, TLC

CONSTANTS c1, c2, w1, w2, t1

MCAsker == [q \in Questions |-> IF q = w1 THEN c1 ELSE IF q = w2 THEN c2 ELSE "poller"]
=============================================================================
