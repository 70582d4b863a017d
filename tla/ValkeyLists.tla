---------------------------- MODULE ValkeyLists ----------------------------
(***************************************************************************)
(* The Valkey list commands the controller uses, as operators on           *)
(* sequences, and the outcomes of one command of its client                *)
(* (internal/valkey/valkey.go): every command dials, writes and reads      *)
(* under one deadline, so an error tells nothing about whether the server  *)
(* executed the command.                                                   *)
(***************************************************************************)
EXTENDS Integers, Sequences, FiniteSets, Functions

\* LTRIM key -n -1: the newest n elements.
KeepLast(s, n) == IF Len(s) <= n THEN s ELSE SubSeq(s, Len(s) - n + 1, Len(s))

\* The elements of s at the positions in keep, in their order.  (By rank and not
\* with SelectSeq, so that what it returns can be proved without induction.)
Sieve(s, keep) ==
    LET rank == [i \in keep |-> Cardinality({m \in keep : m <= i})]
        nth == [k \in 1..Cardinality(keep) |-> CHOOSE i \in keep : rank[i] = k]
    IN  [k \in 1..Cardinality(keep) |-> s[nth[k]]]

\* LREM key 0 x: the elements that differ from x, in their order.
LRem(s, x) == Sieve(s, {i \in 1..Len(s) : s[i] # x})

Outcome == {"ok", "lost command", "lost reply"}
Applied(o) == o # "lost command"
Replied(o) == o = "ok"
=============================================================================
