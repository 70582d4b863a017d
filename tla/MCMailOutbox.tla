--------------------------- MODULE MCMailOutbox ---------------------------
(***************************************************************************)
(* Instances of MailOutbox.                                                *)
(***************************************************************************)
EXTENDS MailOutbox

CONSTANTS r1, r2
=============================================================================
