-------------------------- MODULE MCNotifications --------------------------
(***************************************************************************)
(* Instances of Notifications: texts that validation has to change.        *)
(***************************************************************************)
EXTENDS Notifications, TLC

CONSTANTS n1, n2, n3, n4, b1

Spaced == <<"space", "a", "space", "control", "space", "a", "control", "space">>
MCRaw == [n \in Notices |->
    CASE n = n1 -> [title |-> Spaced, detail |-> {<<<<"a", "space">>, <<"space">>>>, <<Spaced, Spaced>>}]
      [] n = n2 -> [title |-> <<"control", "space", "a">>, detail |-> {}]
      [] n = n3 -> [title |-> <<"a">>, detail |-> {<<<<"a">>, <<"a", "a">>>>}]
      \* refused: two keys that differ only before they are cleaned
      [] OTHER -> [title |-> <<"a">>, detail |-> {<<<<"a">>, <<"a">>>>, <<<<"a", "control">>, <<"a">>>>}]]

ASSUME IdsIncrease
=============================================================================
