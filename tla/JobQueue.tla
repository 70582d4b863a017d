------------------------------ MODULE JobQueue ------------------------------
(***************************************************************************)
(* The reliable job queue of the controller (internal/jobs/manager.go):    *)
(* two ready lists, an in-flight list and the done and dead lists, all     *)
(* kept in Valkey, and the goroutines that work on them -- the single      *)
(* sequential worker, the janitor (the goroutine that runs the visibility  *)
(* sweep and the scheduler tick), crash recovery at startup, and the       *)
(* websocket handlers that enqueue, stop and disconnect.                   *)
(*                                                                         *)
(* Every Valkey command is one atomic step on a connection of its own, so  *)
(* between any two commands of one goroutine another goroutine may run or  *)
(* the process may die.  A command that fails returns an error; whether    *)
(* the server applied it before the reply was lost is not known to the     *)
(* caller (valkey.go sets one deadline for the whole exchange).            *)
(***************************************************************************)
EXTENDS ValkeyLists

CONSTANTS
    Jobs,         \* identities of envelopes (NewID gives each a fresh one)
    Conns,        \* hub connection ids; a new process hands them out again
    NoJob,        \* no envelope at all (a nil pointer)
    NoConn,       \* the ConnectionID of scheduler and Telegram jobs
    Priority,     \* Priority[j]: the ready list of job j
    Owner,        \* Owner[j]: the connection whose disconnect cancels j
    ChatJobs,     \* jobs of type "chat"
    Delayed,      \* jobs whose NotBeforeTs is still ahead when enqueued
    Retries,      \* Retries[j]: MaxRetries of the envelope
    DoneCap,      \* LTRIM done -200 -1
    DeadCap,      \* LTRIM dead -100 -1
    MaxFaults,    \* bound: failing Valkey commands in a behaviour
    MaxRestarts,  \* bound: process ends (crash, or exit after a signal)
    MaxExpiries,  \* bound: times the in-flight age passes its visibility timeout
    MaxStops      \* bound: chat-stop requests

Keys == {"interactive", "scheduled"}

ASSUME JobsAssumption ==
    /\ NoJob \notin Jobs
    /\ NoConn \notin Conns
    /\ Priority \in [Jobs -> Keys]
    /\ Owner \in [Jobs -> Conns \cup {NoConn}]
    /\ ChatJobs \subseteq Jobs
    /\ Delayed \subseteq {j \in Jobs : Priority[j] = "scheduled"}  \* only schedule() delays
    /\ Retries \in [Jobs -> Nat \ {0}]  \* normalize replaces 0 by 2

ASSUME BoundsAssumption ==
    /\ DoneCap \in Nat \ {0}
    /\ DeadCap \in Nat \ {0}
    /\ {MaxFaults, MaxRestarts, MaxExpiries, MaxStops} \subseteq Nat

VARIABLES
    ready,      \* [Keys -> Seq(Envelope)]
    inflight,   \* Seq(Envelope), newest first
    since,      \* inflight-since: "absent", "fresh" or "expired"
    done,       \* Seq of terminal records
    dead,       \* Seq(Envelope)
    life,       \* "down", "boot" (recoverInflight), "up", "stopping" (ctx done)
    pc,         \* next step of each goroutine
    held,       \* the envelope each goroutine works on
    verdict,    \* how the last execution ended, as runOne saw it
    running,    \* m.running: the executing envelope and its cancel cause
    conn,       \* "new", "open" or "gone", per connection id
    handling,   \* the job a connection's handler is about to RPUSH
    remover,    \* DropConnection and DropQueued, per connection
    due,        \* jobs whose NotBeforeTs has passed
    faults, restarts, expiries, stops,  \* the bounded counters
    accepted,   \* history: jobs whose Enqueue returned success
    born,       \* history: the process (1, 2, ...) that enqueued j, 0 if none
    finished,   \* history: jobs ever appended to done or dead
    dropped,    \* history: jobs removed from a ready list by LREM
    stopped,    \* history: jobs whose context was cancelled while they ran
    passed,     \* history: scheduled starts since j became ready (up to 2)
    late        \* history: jobs put on a ready list after their owner left

store == <<ready, inflight, since, done, dead>>
bounds == <<faults, restarts, expiries, stops>>
history == <<accepted, born, finished, dropped, stopped, passed, late>>
workerVars == <<pc, held, verdict, running>>
connVars == <<conn, handling, remover>>
vars == <<store, life, workerVars, connVars, due, bounds, history>>

Envelope == [id : Jobs, attempts : Nat]
NoEnvelope == [id |-> NoJob, attempts |-> 0]
Results == {"ok", "failed", "cancelled"}
Causes == {"none", "disconnected", "stopped", "shutdown"}

Procs == {"worker", "janitor", "boot"}
NackSteps == {"nack", "deadtrim", "nackdone", "donetrim", "nackdel"}
ProcSteps == [
    worker  |-> {"idle", "head", "popI", "popS", "since", "requeue", "unhold",
                 "start", "exec", "clear", "ack", "acktrim", "ackdel"} \cup NackSteps,
    janitor |-> {"idle", "peek", "age"} \cup NackSteps,
    boot    |-> {"idle", "peek"} \cup NackSteps ]
HoldingSteps == {"since", "requeue", "unhold", "start", "exec", "clear", "ack", "acktrim", "ackdel",
                 "age"}
                \cup NackSteps
AllIdle == [p \in Procs |-> "idle"]

Modes == {"disconnect", "stop"}
RemoverStates == [pc : {"none", "cancel", "scan", "remove"}, key : Keys, victims : SUBSET Envelope]
RemoverAt(step) == [pc |-> step, key |-> "interactive", victims |-> {}]
RemoverIdle == RemoverAt("none")
Alive == life \in {"up", "stopping"}
Process == restarts + 1

-----------------------------------------------------------------------------
(* Valkey commands.                                                        *)

Ids(s) == {e.id : e \in Range(s)}
ReadyIds == Ids(ready["interactive"]) \cup Ids(ready["scheduled"])
Command(o) ==
    /\ o # "ok" => faults < MaxFaults
    /\ faults' = IF o = "ok" THEN faults ELSE faults + 1
    /\ UNCHANGED <<restarts, expiries, stops>>

Goto(p, step) == pc' = [pc EXCEPT ![p] = step]
Hold(p, e) == held' = [held EXCEPT ![p] = e]

\* RPUSH of envelope e on its ready list.
PushReady(e, o) ==
    LET key == Priority[e.id] IN
    /\ ready' = IF Applied(o) THEN [ready EXCEPT ![key] = Append(@, e)] ELSE ready
    /\ late' = IF Applied(o) /\ Owner[e.id] \in Conns /\ conn[Owner[e.id]] = "gone"
               THEN late \cup {e.id} ELSE late

DelInflight_SinceOnly(o) ==  \* mutant: only one of the two keys deleted
    since' = (IF Applied(o) THEN "absent" ELSE since) /\ UNCHANGED inflight

\* DEL inflight inflight-since.
DelInflight(o) ==
    /\ inflight' = IF Applied(o) THEN <<>> ELSE inflight
    /\ since' = IF Applied(o) THEN "absent" ELSE since

\* RPUSH done.
AppendFinished(e, result, o) ==
    /\ done' = IF Applied(o) THEN Append(done, [id |-> e.id, result |-> result]) ELSE done
    /\ finished' = IF Applied(o) THEN finished \cup {e.id} ELSE finished

-----------------------------------------------------------------------------
(* Process life: start, crash, signal, exit.                               *)

EndProcess ==
    /\ life' = "down"
    /\ pc' = AllIdle
    /\ held' = [p \in Procs |-> NoEnvelope]
    /\ verdict' = "ok"
    /\ running' = [env |-> NoEnvelope, cause |-> "none"]
    /\ conn' = [c \in Conns |-> "new"]
    /\ handling' = [c \in Conns |-> NoJob]
    /\ remover' = [c \in Conns |-> [m \in Modes |-> RemoverIdle]]

\* main calls Start, which first recovers the in-flight leftover.
Boot ==
    /\ life = "down"
    /\ life' = "boot"
    /\ Goto("boot", "peek")
    /\ UNCHANGED <<store, held, verdict, running, connVars, due, bounds, history>>

\* recoverInflight: LRANGE inflight 0 0.  An error makes main exit.
RecoverInflight == \E o \in Outcome :
    /\ pc["boot"] = "peek"
    /\ Command(o)
    /\ IF ~Replied(o)
       THEN EndProcess
       ELSE /\ UNCHANGED <<verdict, running, connVars>>
            /\ IF inflight = <<>>
               THEN /\ life' = "up"
                    /\ pc' = [pc EXCEPT !["boot"] = "idle", !["worker"] = "head"]
                    /\ UNCHANGED held
               ELSE /\ Hold("boot", Head(inflight))
                    /\ Goto("boot", "nack")
                    /\ UNCHANGED life
    /\ UNCHANGED <<store, due, history>>

\* The process dies, or main returns after its bounded shutdown waits, at
\* whatever point the goroutines have reached.
Crash ==
    /\ life # "down" /\ restarts < MaxRestarts
    /\ restarts' = restarts + 1
    /\ EndProcess
    /\ stopped' = {}
    /\ UNCHANGED <<store, due, faults, expiries, stops>>
    /\ UNCHANGED <<accepted, born, finished, dropped, passed, late>>

\* SIGTERM or a configuration restart cancels the root context.  It is taken
\* only when a further restart is within the bound, so that the exit follows.
Signal ==
    /\ life = "up" /\ restarts < MaxRestarts
    /\ life' = "stopping"
    /\ UNCHANGED <<store, workerVars, connVars, due, bounds, history>>

-----------------------------------------------------------------------------
(* ack, nack and the end of a queue operation.                             *)

\* Control returns to the goroutine's loop; an error of recoverInflight
\* makes Start fail and main exit.
Resume(p, success) ==
    IF p = "boot" /\ ~success
    THEN EndProcess
    ELSE /\ UNCHANGED <<held, verdict, running, connVars>>
         /\ pc' = CASE p = "worker"  -> [pc EXCEPT ![p] = "head"]
                    [] p = "janitor" -> [pc EXCEPT ![p] = "idle"]
                    [] p = "boot"    -> [pc EXCEPT ![p] = "idle", !["worker"] = "head"]
         /\ life' = IF p = "boot" THEN "up" ELSE life

Continue(p, step) ==
    /\ Goto(p, step)
    /\ UNCHANGED <<life, held, verdict, running, connVars>>

Retried_NoCount(e) == e  \* mutant: Attempts++ forgotten
Retried_CountDown(e) == [e EXCEPT !.attempts = @ - 1]  \* mutant: counts down, unbounded
Retried(e) == [e EXCEPT !.attempts = @ + 1]
Exhausted(e) == e.attempts > Retries[e.id]
AfterNackPush_Always(e) == "deadtrim"  \* mutant: every nack appends to done
AfterNackPush(e) == IF Exhausted(e) THEN "deadtrim" ELSE "nackdel"

\* nack: back to the tail of its ready list, or to the dead list.
Nack(p) == \E o \in Outcome :
    LET e == Retried(held[p]) IN
    /\ pc[p] = "nack"
    /\ Command(o)
    /\ IF Exhausted(e)
       THEN /\ dead' = IF Applied(o) THEN Append(dead, e) ELSE dead
            /\ finished' = IF Applied(o) THEN finished \cup {e.id} ELSE finished
            /\ UNCHANGED <<ready, late>>
       ELSE PushReady(e, o) /\ UNCHANGED <<dead, finished>>
    /\ IF Replied(o)
       THEN Continue(p, AfterNackPush(e))
       ELSE Resume(p, FALSE)
    /\ UNCHANGED <<inflight, since, done, due>>
    /\ UNCHANGED <<accepted, born, dropped, stopped, passed>>

TrimDead(p) == \E o \in Outcome :
    /\ pc[p] = "deadtrim"
    /\ Command(o)
    /\ dead' = IF Applied(o) THEN KeepLast(dead, DeadCap) ELSE dead
    /\ IF Replied(o) THEN Continue(p, "nackdone") ELSE Resume(p, FALSE)
    /\ UNCHANGED <<ready, inflight, since, done, due, history>>

NackFinished(p) == \E o \in Outcome :
    /\ pc[p] = "nackdone"
    /\ Command(o)
    /\ AppendFinished(held[p], "failed", o)
    /\ IF Replied(o) THEN Continue(p, "donetrim") ELSE Resume(p, FALSE)
    /\ UNCHANGED <<ready, inflight, since, dead, due>>
    /\ UNCHANGED <<accepted, born, dropped, stopped, passed, late>>

\* LTRIM done, after the RPUSH of nack or of ack.
TrimDone(p) == \E o \in Outcome :
    /\ pc[p] \in {"donetrim", "acktrim"}
    /\ Command(o)
    /\ done' = IF Applied(o) THEN KeepLast(done, DoneCap) ELSE done
    /\ IF Replied(o)
       THEN Continue(p, IF pc[p] = "acktrim" THEN "ackdel" ELSE "nackdel")
       ELSE Resume(p, FALSE)
    /\ UNCHANGED <<ready, inflight, since, dead, due, history>>

NackDelete(p) == \E o \in Outcome :
    /\ pc[p] = "nackdel"
    /\ Command(o)
    /\ DelInflight(o)
    /\ Resume(p, Replied(o))
    /\ UNCHANGED <<ready, done, dead, due, history>>

NackStep(p) == Nack(p) \/ TrimDead(p) \/ NackFinished(p) \/ TrimDone(p) \/ NackDelete(p)

\* ack of the job the worker has just run.
Ack == \E o \in Outcome :
    /\ pc["worker"] = "ack"
    /\ Command(o)
    /\ AppendFinished(held["worker"], verdict, o)
    /\ IF Replied(o) THEN Continue("worker", "acktrim") ELSE Resume("worker", FALSE)
    /\ UNCHANGED <<ready, inflight, since, dead, due>>
    /\ UNCHANGED <<accepted, born, dropped, stopped, passed, late>>

AckDelete == \E o \in Outcome :
    /\ pc["worker"] = "ackdel"
    /\ Command(o)
    /\ DelInflight(o)
    /\ Resume("worker", Replied(o))
    /\ UNCHANGED <<ready, done, dead, due, history>>

-----------------------------------------------------------------------------
(* The worker: acquire, then runOne.                                       *)

\* The loop head: the context is checked, then acquire begins.
WorkerLoop ==
    /\ pc["worker"] = "head" /\ life = "up"
    /\ Goto("worker", "popI")
    /\ UNCHANGED <<store, life, held, verdict, running, connVars, due, bounds, history>>

PopKey_Swapped ==  \* mutant: the scheduled list is tried first
    IF pc["worker"] = "popI" THEN "scheduled" ELSE "interactive"
PopKey == IF pc["worker"] = "popI" THEN "interactive" ELSE "scheduled"
AfterKey(key) == IF key = "interactive" THEN "popS" ELSE "head"

\* LMOVE ready inflight LEFT LEFT, for one key.
Pop == \E o \in Outcome :
    LET list == ready[PopKey] IN
    /\ pc["worker"] \in {"popI", "popS"}
    /\ Command(o)
    /\ IF Applied(o) /\ list # <<>>
       THEN /\ ready' = [ready EXCEPT ![PopKey] = Tail(list)]
            /\ inflight' = <<Head(list)>> \o inflight
            /\ passed' = [passed EXCEPT ![Head(list).id] = 0]
       ELSE UNCHANGED <<ready, inflight, passed>>
    /\ IF ~Replied(o)
       THEN Goto("worker", "head") /\ UNCHANGED held
       ELSE IF list = <<>>
            THEN Goto("worker", AfterKey(PopKey)) /\ UNCHANGED held
            ELSE Goto("worker", "since") /\ Hold("worker", Head(list))
    /\ UNCHANGED <<since, done, dead, life, verdict, running, connVars, due>>
    /\ UNCHANGED <<accepted, born, finished, dropped, stopped, late>>

AfterSince_NoPush ==  \* mutant: an envelope that is not due is not pushed back
    IF held["worker"].id \in due THEN "start" ELSE "unhold"
AfterSince == IF held["worker"].id \in due THEN "start" ELSE "requeue"

\* SET inflight-since now, then the NotBeforeTs test.
SetSince == \E o \in Outcome :
    /\ pc["worker"] = "since"
    /\ Command(o)
    /\ since' = IF Applied(o) THEN "fresh" ELSE since
    /\ Goto("worker", IF Replied(o) THEN AfterSince ELSE "head")
    /\ UNCHANGED <<ready, inflight, done, dead>>
    /\ UNCHANGED <<life, held, verdict, running, connVars, due, history>>

\* Not yet due: RPUSH to the tail of its own list ...
Requeue == \E o \in Outcome :
    /\ pc["worker"] = "requeue"
    /\ Command(o)
    /\ PushReady(held["worker"], o)
    /\ Goto("worker", IF Replied(o) THEN "unhold" ELSE "head")
    /\ UNCHANGED <<inflight, since, done, dead, life, held, verdict, running, connVars, due>>
    /\ UNCHANGED <<accepted, born, finished, dropped, stopped, passed>>

\* ... and DEL, whose error is ignored, before the next key is tried.
Unhold == \E o \in Outcome :
    /\ pc["worker"] = "unhold"
    /\ Command(o)
    /\ DelInflight(o)
    /\ Goto("worker", AfterKey(Priority[held["worker"].id]))
    /\ UNCHANGED <<ready, done, dead, life, held, verdict, running, connVars, due, history>>

\* runOne registers the running job with a context of its own.
StartJob ==
    LET env == held["worker"] IN
    /\ pc["worker"] = "start"
    /\ running' = [env |-> env, cause |-> "none"]
    /\ passed' = [j \in Jobs |->
                    IF Priority[env.id] = "scheduled" /\ j \in Ids(ready["interactive"])
                    THEN IF passed[j] < 2 THEN passed[j] + 1 ELSE 2
                    ELSE passed[j]]
    /\ Goto("worker", "exec")
    /\ UNCHANGED <<store, life, held, verdict, connVars, due, bounds>>
    /\ UNCHANGED <<accepted, born, finished, dropped, stopped, late>>

Verdict_ErrorFirst(result) ==  \* mutant: the error is tested before the cause
    IF result = "failed" \/ running.cause = "none" THEN result ELSE "cancelled"
Verdict(result) == IF running.cause # "none" THEN "cancelled" ELSE result

\* The executor returns and runOne reads the cancel cause: a cancelled job
\* counts as cancelled whatever the executor returned.
Execute == \E result \in {"ok", "failed"} :
    /\ pc["worker"] = "exec"
    /\ verdict' = Verdict(result)
    /\ Goto("worker", "clear")
    /\ UNCHANGED <<store, life, held, running, connVars, due, bounds, history>>

AfterRun_NoNack == IF verdict = "failed" THEN "ackdel" ELSE "ack"  \* mutant: no nack
AfterRun == IF verdict = "failed" THEN "nack" ELSE "ack"

\* m.running = nil, then ack or nack.
ClearRunning ==
    /\ pc["worker"] = "clear"
    /\ running' = [env |-> NoEnvelope, cause |-> "none"]
    /\ Goto("worker", AfterRun)
    /\ UNCHANGED <<store, life, held, verdict, connVars, due, bounds, history>>

Worker ==
    \/ WorkerLoop \/ Pop \/ SetSince \/ Requeue \/ Unhold
    \/ StartJob \/ Execute \/ ClearRunning
    \/ Ack \/ AckDelete \/ NackStep("worker")

-----------------------------------------------------------------------------
(* The janitor goroutine: the visibility sweep, every 30 seconds.          *)

SweepBegin ==
    /\ pc["janitor"] = "idle" /\ life = "up"
    /\ running.env = NoEnvelope
    /\ Goto("janitor", "peek")
    /\ UNCHANGED <<store, life, held, verdict, running, connVars, due, bounds, history>>

SweepPeek == \E o \in Outcome :
    /\ pc["janitor"] = "peek"
    /\ Command(o)
    /\ IF Replied(o) /\ inflight # <<>>
       THEN Goto("janitor", "age") /\ Hold("janitor", Head(inflight))
       ELSE Goto("janitor", "idle") /\ UNCHANGED held
    /\ UNCHANGED <<store, life, verdict, running, connVars, due, history>>

SweepAge == \E o \in Outcome :
    /\ pc["janitor"] = "age"
    /\ Command(o)
    /\ Goto("janitor", IF Replied(o) /\ since = "expired" THEN "nack" ELSE "idle")
    /\ UNCHANGED <<store, life, held, verdict, running, connVars, due, history>>

Janitor == SweepBegin \/ SweepPeek \/ SweepAge \/ NackStep("janitor")

-----------------------------------------------------------------------------
(* Producers and connections.                                              *)

EnvelopeOf(j) == [id |-> j, attempts |-> 0]

\* RPUSH of a new envelope; Enqueue reports success only on a reply.
Enqueue(j, o) ==
    /\ PushReady(EnvelopeOf(j), o)
    /\ born' = [born EXCEPT ![j] = Process]
    /\ accepted' = IF Replied(o) THEN accepted \cup {j} ELSE accepted
    /\ due' = IF j \in Delayed THEN due ELSE due \cup {j}

\* The scheduler (on the janitor's goroutine) or the Telegram service enqueues.
SystemEnqueue(j) == \E o \in Outcome :
    /\ Alive /\ born[j] = 0 /\ Owner[j] = NoConn
    /\ Priority[j] = "scheduled" => pc["janitor"] = "idle" /\ life = "up"
    /\ Command(o)
    /\ Enqueue(j, o)
    /\ UNCHANGED <<inflight, since, done, dead, life, workerVars, connVars>>
    /\ UNCHANGED <<finished, dropped, stopped, passed>>

Connect(c) ==
    /\ Alive /\ conn[c] = "new"
    /\ conn' = [conn EXCEPT ![c] = "open"]
    /\ UNCHANGED <<store, life, workerVars, handling, remover, due, bounds, history>>

\* The read loop delivers a chat, tool or job-push frame; the handler has
\* still to reach its RPUSH.
HandleMessage(c, j) ==
    /\ Alive /\ conn[c] = "open"
    /\ handling[c] = NoJob /\ remover[c]["stop"] = RemoverIdle
    /\ Owner[j] = c /\ born[j] = 0
    /\ handling' = [handling EXCEPT ![c] = j]
    /\ born' = [born EXCEPT ![j] = Process]
    /\ UNCHANGED <<store, life, workerVars, conn, remover, due, bounds>>
    /\ UNCHANGED <<accepted, finished, dropped, stopped, passed, late>>

\* The handler's RPUSH, whether or not the connection still exists.
HandlerEnqueue(c) == \E o \in Outcome :
    /\ handling[c] # NoJob
    /\ Command(o)
    /\ Enqueue(handling[c], o)
    /\ handling' = [handling EXCEPT ![c] = NoJob]
    /\ UNCHANGED <<inflight, since, done, dead, life, workerVars, conn, remover>>
    /\ UNCHANGED <<finished, dropped, stopped, passed>>

\* hub.remove: the read loop ended, or a broadcast by some other goroutine
\* could not write.  DropConnection begins.
Disconnect(c) ==
    /\ conn[c] = "open"
    /\ conn' = [conn EXCEPT ![c] = "gone"]
    /\ remover' = [remover EXCEPT ![c]["disconnect"] = RemoverAt("cancel")]
    /\ UNCHANGED <<store, life, workerVars, handling, due, bounds, history>>

\* chat-stop: CancelRunningConnection, then DropQueued.
StopChat(c) ==
    /\ conn[c] = "open" /\ handling[c] = NoJob
    /\ remover[c]["stop"] = RemoverIdle /\ stops < MaxStops
    /\ stops' = stops + 1
    /\ remover' = [remover EXCEPT ![c]["stop"] = RemoverAt("cancel")]
    /\ UNCHANGED <<store, life, workerVars, conn, handling, due, history>>
    /\ UNCHANGED <<faults, restarts, expiries>>

InScope_ChatOnly(e, c, m) ==  \* mutant: disconnect filters by type as well
    Owner[e.id] = c /\ e.id \in ChatJobs
InScope(e, c, m) == Owner[e.id] = c /\ (m = "stop" => e.id \in ChatJobs)

Cancel(cause) ==
    /\ running' = [running EXCEPT !.cause = IF @ = "none" THEN cause ELSE @]
    /\ stopped' = IF pc["worker"] = "exec" THEN stopped \cup {running.env.id} ELSE stopped

\* Under m.mu: cancel the running job if it is in scope.
RemoverCancel(c, m) ==
    /\ remover[c][m].pc = "cancel"
    /\ remover' = [remover EXCEPT ![c][m] = RemoverAt("scan")]
    /\ IF running.env # NoEnvelope /\ InScope(running.env, c, m)
       THEN Cancel(IF m = "stop" THEN "stopped" ELSE "disconnected")
       ELSE UNCHANGED <<running, stopped>>
    /\ UNCHANGED <<store, life, pc, held, verdict, conn, handling, due, bounds>>
    /\ UNCHANGED <<accepted, born, finished, dropped, passed, late>>

\* What a remover does next once it has victims left on key.
RemoverNext(key, victims) ==
    IF victims # {} THEN [pc |-> "remove", key |-> key, victims |-> victims]
    ELSE IF key = "interactive" THEN [pc |-> "scan", key |-> "scheduled", victims |-> {}]
    ELSE RemoverIdle

\* LRANGE of one ready list; an error skips the list.
RemoverScan(c, m) == \E o \in Outcome :
    LET key == remover[c][m].key
        found == {e \in Range(ready[key]) : InScope(e, c, m)} IN
    /\ remover[c][m].pc = "scan"
    /\ Command(o)
    /\ remover' = [remover EXCEPT ![c][m] = RemoverNext(key, IF Replied(o) THEN found ELSE {})]
    /\ UNCHANGED <<store, life, workerVars, conn, handling, due, history>>

\* LREM of one envelope seen by the scan, by its exact value; errors ignored.
RemoverDrop(c, m) == \E o \in Outcome : \E e \in remover[c][m].victims :
    LET key == remover[c][m].key IN
    /\ remover[c][m].pc = "remove"
    /\ Command(o)
    /\ ready' = IF Applied(o) THEN [ready EXCEPT ![key] = LRem(@, e)] ELSE ready
    /\ dropped' = IF Applied(o) /\ e \in Range(ready[key])
                  THEN dropped \cup {e.id} ELSE dropped
    /\ passed' = IF Applied(o) THEN [passed EXCEPT ![e.id] = 0] ELSE passed
    /\ remover' = [remover EXCEPT ![c][m] = RemoverNext(key, @.victims \ {e})]
    /\ UNCHANGED <<inflight, since, done, dead, life, workerVars, conn, handling, due>>
    /\ UNCHANGED <<accepted, born, finished, stopped, late>>

Remover(c, m) == RemoverCancel(c, m) \/ RemoverScan(c, m) \/ RemoverDrop(c, m)

\* The goroutine that waits for ctx.Done cancels the running job.
CancelOnShutdown ==
    /\ life = "stopping" /\ running.env # NoEnvelope /\ running.cause = "none"
    /\ Cancel("shutdown")
    /\ UNCHANGED <<store, life, pc, held, verdict, connVars, due, bounds>>
    /\ UNCHANGED <<accepted, born, finished, dropped, passed, late>>

-----------------------------------------------------------------------------
(* Time.                                                                   *)

BecomeDue(j) ==
    /\ born[j] # 0 /\ j \notin due
    /\ due' = due \cup {j}
    /\ UNCHANGED <<store, life, workerVars, connVars, bounds, history>>

\* A visibility timeout (300 s or more) is far longer than any command (2 s),
\* so it passes only while the worker executes, waits in a broadcast before
\* the start, or polls, and between two sweeps.
Expire ==
    /\ since = "fresh" /\ expiries < MaxExpiries
    /\ pc["worker"] \in {"idle", "head", "popI", "popS", "start", "exec"}
    /\ pc["janitor"] = "idle"
    /\ since' = "expired"
    /\ expiries' = expiries + 1
    /\ UNCHANGED <<ready, inflight, done, dead, life, workerVars, connVars, due, history>>
    /\ UNCHANGED <<faults, restarts, stops>>

-----------------------------------------------------------------------------

Init ==
    /\ ready = [k \in Keys |-> <<>>]
    /\ inflight = <<>> /\ since = "absent"
    /\ done = <<>> /\ dead = <<>>
    /\ life = "down"
    /\ pc = AllIdle
    /\ held = [p \in Procs |-> NoEnvelope]
    /\ verdict = "ok"
    /\ running = [env |-> NoEnvelope, cause |-> "none"]
    /\ conn = [c \in Conns |-> "new"]
    /\ handling = [c \in Conns |-> NoJob]
    /\ remover = [c \in Conns |-> [m \in Modes |-> RemoverIdle]]
    /\ due = {}
    /\ faults = 0 /\ restarts = 0 /\ expiries = 0 /\ stops = 0
    /\ accepted = {} /\ finished = {} /\ dropped = {} /\ stopped = {} /\ late = {}
    /\ born = [j \in Jobs |-> 0]
    /\ passed = [j \in Jobs |-> 0]

Recovery == Boot \/ RecoverInflight \/ NackStep("boot")

Next ==
    \/ Recovery \/ Crash \/ Signal \/ CancelOnShutdown
    \/ Worker \/ Janitor
    \/ \E j \in Jobs : SystemEnqueue(j) \/ BecomeDue(j)
    \/ \E c \in Conns :
         \/ Connect(c) \/ Disconnect(c) \/ HandlerEnqueue(c) \/ StopChat(c)
         \/ \E j \in Jobs : HandleMessage(c, j)
         \/ \E m \in Modes : Remover(c, m)
    \/ Expire

Spec == Init /\ [][Next]_vars

(***************************************************************************)
(* Fairness.  Every goroutine that can take a step takes it (Go schedules  *)
(* runnable goroutines), the supervisor restarts a process that ended, a   *)
(* process told to stop ends, executors return, and the clock advances.    *)
(***************************************************************************)
Fairness ==
    /\ WF_vars(Recovery) /\ WF_vars(Worker) /\ WF_vars(Janitor) /\ WF_vars(Expire)
    /\ WF_vars(life = "stopping" /\ Crash)
    /\ \A j \in Jobs : WF_vars(BecomeDue(j))

FairSpec == Spec /\ Fairness

-----------------------------------------------------------------------------
(* Properties.                                                             *)

Record == [id : Jobs, result : Results]

StoreTypeOK ==
    /\ ready \in [Keys -> Seq(Envelope)]
    /\ inflight \in Seq(Envelope)
    /\ since \in {"absent", "fresh", "expired"}
    /\ done \in Seq(Record)
    /\ dead \in Seq(Envelope)

ProcTypeOK ==
    /\ life \in {"down", "boot", "up", "stopping"}
    /\ pc \in [Procs -> UNION {ProcSteps[p] : p \in Procs}]
    /\ \A p \in Procs : pc[p] \in ProcSteps[p]
    /\ held \in [Procs -> Envelope \cup {NoEnvelope}]
    /\ \A p \in Procs : pc[p] \in HoldingSteps => held[p] \in Envelope
    /\ verdict \in Results
    /\ running \in [env : Envelope \cup {NoEnvelope}, cause : Causes]

ConnTypeOK ==
    /\ conn \in [Conns -> {"new", "open", "gone"}]
    /\ handling \in [Conns -> Jobs \cup {NoJob}]
    /\ remover \in [Conns -> [Modes -> RemoverStates]]

CountersTypeOK ==
    /\ faults \in 0..MaxFaults /\ restarts \in 0..MaxRestarts
    /\ expiries \in 0..MaxExpiries /\ stops \in 0..MaxStops

HistoryTypeOK ==
    /\ due \subseteq Jobs /\ accepted \subseteq Jobs /\ finished \subseteq Jobs
    /\ dropped \subseteq Jobs /\ stopped \subseteq Jobs /\ late \subseteq Jobs
    /\ born \in [Jobs -> Nat]
    /\ passed \in [Jobs -> 0..2]

\* Types of the store, the goroutines, the connections and the histories; a
\* goroutine that is past reading an envelope holds one.
TypeOK == StoreTypeOK /\ ProcTypeOK /\ ConnTypeOK /\ CountersTypeOK /\ HistoryTypeOK

\* A job whose Enqueue succeeded is queued, in flight, recorded in done or
\* dead, or was removed by its connection: no crash point between two
\* commands makes it vanish.
NoSilentLoss ==
    accepted \subseteq ReadyIds \cup Ids(inflight) \cup finished \cup dropped

\* While one process lives, a job that a sweep has deleted from the in-flight
\* list is still in the hands of the goroutine that works on it.
Handling(p) == pc[p] \in HoldingSteps
NoLossInProcess ==
    accepted \subseteq ReadyIds \cup Ids(inflight) \cup finished \cup dropped
                       \cup {held[p].id : p \in {q \in Procs : Handling(q)}}

\* A job ends once, and as what stopped it: one recorded in done is never
\* queued, executed or recorded again, and one whose context was cancelled
\* while it ran is neither retried nor recorded as ok or failed (without a
\* crash or a sweep of a live job).
FinishedOnce ==
    /\ \A i, k \in DOMAIN done : done[i].id = done[k].id => i = k
    /\ finished \cap ReadyIds = {}
    /\ pc["worker"] \in {"start", "exec", "clear"} => held["worker"].id \notin finished
    /\ stopped \cap ReadyIds = {}
    /\ \A i \in DOMAIN done : done[i].id \in stopped => done[i].result = "cancelled"

\* An interactive job waits for at most one scheduled start: acquire tries
\* the interactive list first every time.
BoundedOvertaking == \A j \in Jobs : passed[j] <= 1

\* When DropConnection has returned, nothing its connection queued before it
\* closed is left on a ready list; what is there was pushed afterwards.
DisconnectDropsQueue ==
    \A c \in Conns :
        conn[c] = "gone" /\ remover[c]["disconnect"] = RemoverIdle
            => {j \in ReadyIds : Owner[j] = c} \subseteq late

\* Retrying ends: an accepted job is eventually finished or dropped, through
\* crashes, delays, failing executors and recoveries.
EventuallySettled == \A j \in Jobs : j \in accepted ~> j \in finished \cup dropped

-----------------------------------------------------------------------------
(* Inductive strengthenings of NoSilentLoss and of BoundedOvertaking.      *)

Durable == ReadyIds \cup finished \cup dropped

\* Who may be where while the process starts, runs and is down.
LifeOrder ==
    /\ pc["worker"] # "idle" => Alive
    /\ pc["boot"] # "idle" => life = "boot"

\* The in-flight list holds exactly what its one user works on.
InflightIsHeld ==
    /\ Len(inflight) <= 1
    /\ pc["worker"] \in {"head", "popI", "popS"} => inflight = <<>>
    /\ \A p \in {"worker", "boot"} : Handling(p) => inflight = <<held[p]>>

\* A goroutine about to delete the in-flight list has first pushed or recorded
\* the envelope that is in it.
PushedBeforeDelete ==
    \A p \in {"worker", "boot"} :
        pc[p] \in {"unhold", "acktrim", "ackdel", "deadtrim", "nackdone", "donetrim", "nackdel"}
            => held[p].id \in Durable

\* Without failing commands and expired visibility timeouts, every accepted
\* job is accounted for, whatever the point at which the process dies.
CrashSafety ==
    /\ since # "expired" /\ pc["janitor"] \notin NackSteps
    /\ LifeOrder /\ InflightIsHeld /\ PushedBeforeDelete
    /\ NoSilentLoss

InHands == Range(inflight) \cup ({held[p] : p \in Procs} \ {NoEnvelope})

\* An envelope waits on the ready list of its own priority.
ListsSorted == \A k \in Keys : \A e \in Range(ready[k]) : Priority[e.id] = k

\* Only scheduled jobs are delayed, so only they go back to wait.
InteractiveDue ==
    /\ \A e \in Range(ready["interactive"]) \cup InHands :
          Priority[e.id] = "interactive" => e.id \in due
    /\ pc["worker"] \in {"requeue", "unhold"} => Priority[held["worker"].id] = "scheduled"

\* The worker has found the interactive list empty and has a scheduled job, or
\* is about to take one.
TakesScheduled ==
    \/ pc["worker"] = "popS"
    \/ pc["worker"] \in {"since", "start"} /\ Priority[held["worker"].id] = "scheduled"

\* Why BoundedOvertaking holds: at the moment a scheduled job is taken, no
\* interactive job waits that a scheduled job has already been started before.
OvertakingInv ==
    /\ ListsSorted /\ InteractiveDue
    /\ \A j \in Jobs : passed[j] # 0 => j \in Ids(ready["interactive"])
    /\ TakesScheduled => \A j \in Jobs : passed[j] = 0
    /\ BoundedOvertaking

=============================================================================
