---------------------------- MODULE OrderedLog ----------------------------
(***************************************************************************)
(* What the Telegram ingress promises the job queue: an append-only log of *)
(* updates in which every update appears at most once and in the order of  *)
(* the update ids.                                                         *)
(***************************************************************************)
EXTENDS Integers, Sequences

CONSTANT Updates
VARIABLE log

Init == log = <<>>

Push(u) ==
    /\ \A i \in DOMAIN log : log[i] < u
    /\ log' = Append(log, u)

Next == \E u \in Updates : Push(u)

Spec == Init /\ [][Next]_log
=============================================================================
