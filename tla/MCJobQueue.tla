----------------------------- MODULE MCJobQueue -----------------------------
(* Instances of JobQueue for TLC.  Job names tell what a job is: wN jobs   *)
(* come from a websocket connection, tN from Telegram, sN from the         *)
(* scheduler.                                                              *)
EXTENDS JobQueue, TLC

CONSTANTS c1, w1, w2, t1, t2, s1, s2

AllPriority == (w1 :> "interactive") @@ (w2 :> "interactive") @@ (t1 :> "interactive")
            @@ (t2 :> "interactive") @@ (s1 :> "scheduled") @@ (s2 :> "scheduled")
AllOwner == (w1 :> c1) @@ (w2 :> c1) @@ (t1 :> NoConn) @@ (t2 :> NoConn)
         @@ (s1 :> NoConn) @@ (s2 :> NoConn)

MCPriority == [j \in Jobs |-> AllPriority[j]]
MCOwner == [j \in Jobs |-> AllOwner[j]]
OneRetry == [j \in Jobs |-> 1]

=============================================================================
