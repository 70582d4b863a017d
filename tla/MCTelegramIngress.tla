------------------------ MODULE MCTelegramIngress ------------------------
(***************************************************************************)
(* The instance of TelegramIngress: three texts and a command, with a gap  *)
(* in the update ids.                                                      *)
(***************************************************************************)
EXTENDS TelegramIngress

MCKind == [u \in Updates |-> IF u = 3 THEN "command" ELSE "text"]
=============================================================================
