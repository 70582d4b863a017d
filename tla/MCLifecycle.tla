---------------------------- MODULE MCLifecycle ----------------------------
(***************************************************************************)
(* Instances of Lifecycle with one and two services beside the controller, *)
(* with the checks of the configuration's pure functions.                  *)
(***************************************************************************)
EXTENDS Lifecycle, MCConfig

MCServices == <<"llama", "ttsd">>
=============================================================================
