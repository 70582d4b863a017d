--------------------------- MODULE Conversation ---------------------------
(***************************************************************************)
(* The shared conversation: internal/chat/chat.go between the goroutines   *)
(* that add messages to it -- one handler per WebSocket connection, the    *)
(* Telegram poller, the worker that generates replies -- the hub that      *)
(* shows it to browsers (internal/ws/ws.go), and the chat page             *)
(* (web/static/js/chat.js).                                                *)
(*                                                                         *)
(* The conversation exists three times: as a list in Valkey, in the memory *)
(* of the service, and in every browser.  A message enters the three       *)
(* copies one after the other, in steps that interleave with those of      *)
(* other messages, with a clear, with the history being loaded after a     *)
(* start and with browsers that connect.  Between any two steps the        *)
(* process may die, and a Valkey command may fail.                         *)
(*                                                                         *)
(* The job queue is what JobQueue shows of it without faults of its own:   *)
(* a list, a job in flight, and after a crash another attempt.             *)
(***************************************************************************)
EXTENDS ValkeyLists

CONSTANTS
    Questions,   \* user messages; each is submitted once and has one job
    Conns,       \* WebSocket connections
    Asker,       \* Asker[q]: the connection q comes from, or "poller"
    NoJob,
    Cap,         \* historyCap, 200
    Window,      \* contextWindow, 16
    Retries,     \* MaxRetries of a chat envelope, 2
    MaxTroubles  \* bound: failing commands, crashes, failing generations,
                 \* clears and stops, together

ASSUME QuestionsAssumption ==
    /\ "poller" \notin Conns /\ "worker" \notin Conns
    /\ Asker \in [Questions -> Conns \cup {"poller"}]
    /\ NoJob \notin [id : Questions, attempts : Nat]

ASSUME BoundsAssumption ==
    /\ {Cap, Window} \subseteq Nat \ {0}
    /\ {Retries, MaxTroubles} \subseteq Nat

VARIABLES
    stored,    \* Valkey: the messages
    queries,   \* Valkey: chat-stats.queries
    stage,     \* Valkey: stage of the ingress record of a Telegram question
    ready,     \* Valkey: the chat jobs that wait
    inflight,  \* Valkey: the job in flight, or NoJob
    up,        \* the process runs
    memory,    \* Service.history
    load,      \* LoadHistory: "ask", "adopt" what it read, "ready"
    entries,   \* what it read
    pc,        \* next step of each goroutine
    doing,     \* the message it adds, as a set of at most one
    job,       \* the envelope the worker runs, or NoJob
    cancelled, \* its context is done
    verdict,   \* how its generation ended
    prompt,    \* the messages the model was given
    cast,      \* frames each goroutine has still to write
    conn,      \* "new", "joining", "greeted" (snapshot taken), "open", "gone"
    snap,      \* the chat-history frame of a connection that joins
    log,       \* messages each browser shows
    busy,      \* the browser hides its composer
    troubles,  \* how many of them there were
    past,      \* what the goroutines did, see Past
    seen       \* what became of the copies, see Watch

store == <<stored, queries, stage, ready, inflight>>
process == <<up, memory, load, entries, pc, doing, job, cancelled, verdict, prompt, cast>>
browsers == <<conn, snap, log, busy>>
vars == <<store, process, browsers, troubles, past, seen>>

Goroutines == Conns \cup {"poller", "worker"}
Job == [id : Questions, attempts : Nat]
Message == [of : Questions, try : Nat]  \* try 0 is the question, try n the reply of attempt n
Question(q) == [of |-> q, try |-> 0]
Stages == {"absent", "message", "stats", "job", "complete"}
Verdicts == {"none", "reply", "stopped", "error"}
Kinds == {"message", "done", "error", "reset"}
Write == [to : Conns, kind : Kinds, what : SUBSET Message]
WebSteps == {"idle", "persist", "trim", "show", "count", "enqueue", "del", "reset"}
PollerSteps == {"idle", "remember", "show", "stats", "queue", "complete"}
WorkerSteps == {"idle", "prompt", "generate", "persist", "trim", "show", "deliver", "settle"}
StepsOf(p) == IF p = "poller" THEN PollerSteps
              ELSE IF p = "worker" THEN WorkerSteps ELSE WebSteps

\* asked: questions submitted; refused: messages whose RPUSH failed; shown:
\* messages broadcast or delivered; delivered: calls of the Telegram delivery
\* handler; ended: jobs that ended; cut: attempts a crash ended; uncounted:
\* stored questions whose statistic failed or was cut off.
Past == [asked : SUBSET Questions, refused : SUBSET Message, shown : SUBSET Message,
         delivered : SUBSET [of : Questions, try : Nat, kind : Verdicts],
         ended : SUBSET Questions, cut : [Questions -> Nat], uncounted : SUBSET Questions]

-----------------------------------------------------------------------------
(* Steps.                                                                  *)

Trouble == troubles < MaxTroubles /\ troubles' = troubles + 1
Command(o) == IF o = "ok" THEN UNCHANGED troubles ELSE Trouble

\* Goroutine p is at a step and has written every frame of its broadcast.
At(p, step) == up /\ pc[p] = step /\ cast[p] = {}
Goto(p, step) == pc' = [pc EXCEPT ![p] = step]

\* appendMemory.
Remembered(m) == KeepLast(Append(memory, m), Cap)

Registered == {c \in Conns : conn[c] \in {"joining", "greeted", "open"}}

\* Hub.Broadcast takes the connections registered now, then writes to each.
Broadcast(p, kind, what) ==
    cast' = [cast EXCEPT ![p] = {[to |-> c, kind |-> kind, what |-> what] : c \in Registered}]

\* The page renders a frame: chat-message (of a user) hides the composer,
\* every other frame of the chat shows it again.
WriteFrame(p) == \E w \in cast[p] :
    /\ cast' = [cast EXCEPT ![p] = @ \ {w}]
    /\ log' = [log EXCEPT ![w.to] = IF w.kind = "reset" THEN {} ELSE @ \cup w.what]
    /\ busy' = [busy EXCEPT ![w.to] = w.kind = "message"]
    /\ UNCHANGED <<store, up, memory, load, entries, pc, doing, job, cancelled, verdict, prompt>>
    /\ UNCHANGED <<conn, snap, troubles, past>>

-----------------------------------------------------------------------------
(* Service.append and the broadcast after it, of any goroutine.            *)

Persist(p) == \E o \in Outcome, m \in doing[p] :
    /\ At(p, "persist")
    /\ Command(o)
    /\ stored' = IF Applied(o) THEN Append(stored, m) ELSE stored
    /\ Goto(p, IF Replied(o) THEN "trim" ELSE "show")
    /\ past' = IF Applied(o) THEN past ELSE [past EXCEPT !.refused = @ \cup {m}]
    /\ UNCHANGED <<queries, stage, ready, inflight, up, memory, load, entries, doing>>
    /\ UNCHANGED <<job, cancelled, verdict, prompt, cast, browsers>>

Trim(p) == \E o \in Outcome :
    /\ At(p, "trim")
    /\ Command(o)
    /\ stored' = IF Applied(o) THEN KeepLast(stored, Cap) ELSE stored
    /\ Goto(p, "show")
    /\ UNCHANGED <<queries, stage, ready, inflight, up, memory, load, entries, doing>>
    /\ UNCHANGED <<job, cancelled, verdict, prompt, cast, browsers, past>>

AfterShow(p) ==
    IF p = "worker" THEN "deliver"
    ELSE IF p \in Conns THEN "count"
    ELSE IF \E m \in doing[p] : stage[m.of] = "message" THEN "stats"
    ELSE IF \E m \in doing[p] : stage[m.of] = "stats" THEN "queue" ELSE "complete"

\* chat-message for a question, chat-done for a reply.
Show(p) ==
    /\ At(p, "show")
    /\ Broadcast(p, IF p = "worker" THEN "done" ELSE "message", doing[p])
    /\ Goto(p, AfterShow(p))
    /\ past' = [past EXCEPT !.shown = @ \cup doing[p]]
    /\ UNCHANGED <<store, up, memory, load, entries, doing, job, cancelled, verdict, prompt>>
    /\ UNCHANGED <<browsers, troubles>>

-----------------------------------------------------------------------------
(* HandleClientMessage: a question of a browser.                           *)

\* The page lets its user send while the composer is shown.
Ask(c, q) ==
    /\ At(c, "idle") /\ conn[c] = "open" /\ ~busy[c]
    /\ Asker[q] = c /\ q \notin past.asked
    /\ memory' = Remembered(Question(q))
    /\ doing' = [doing EXCEPT ![c] = {Question(q)}]
    /\ Goto(c, "persist")
    /\ busy' = [busy EXCEPT ![c] = TRUE]
    /\ past' = [past EXCEPT !.asked = @ \cup {q}]
    /\ UNCHANGED <<store, up, load, entries, job, cancelled, verdict, prompt, cast>>
    /\ UNCHANGED <<conn, snap, log, troubles>>

\* HINCRBY of the statistic.
CountQuery(c) == \E o \in Outcome, m \in doing[c] :
    /\ At(c, "count")
    /\ Command(o)
    /\ queries' = IF Applied(o) THEN queries + 1 ELSE queries
    /\ Goto(c, "enqueue")
    /\ past' = IF Applied(o) THEN past ELSE [past EXCEPT !.uncounted = @ \cup {m.of}]
    /\ UNCHANGED <<stored, stage, ready, inflight, up, memory, load, entries, doing>>
    /\ UNCHANGED <<job, cancelled, verdict, prompt, cast, browsers>>

\* Manager.Enqueue; an error goes to the browser that asked, if it is there.
Enqueue(c) == \E o \in Outcome, m \in doing[c] :
    /\ At(c, "enqueue")
    /\ Command(o)
    /\ ready' = IF Applied(o) THEN Append(ready, [id |-> m.of, attempts |-> 0]) ELSE ready
    /\ busy' = [busy EXCEPT ![c] = @ /\ Replied(o)]
    /\ doing' = [doing EXCEPT ![c] = {}]
    /\ Goto(c, "idle")
    /\ UNCHANGED <<stored, queries, stage, inflight, up, memory, load, entries>>
    /\ UNCHANGED <<job, cancelled, verdict, prompt, cast, conn, snap, log, past>>

\* chat-clear: memory, DEL of both keys, an empty chat-history.
Clear(c) ==
    /\ At(c, "idle") /\ conn[c] = "open" /\ ~busy[c]
    /\ Trouble
    /\ memory' = <<>>
    /\ Goto(c, "del")
    /\ UNCHANGED <<store, up, load, entries, doing, job, cancelled, verdict, prompt, cast>>
    /\ UNCHANGED <<browsers, past>>

Delete(c) == \E o \in Outcome :
    /\ At(c, "del")
    /\ Command(o)
    /\ IF Applied(o) THEN stored' = <<>> /\ queries' = 0 ELSE UNCHANGED <<stored, queries>>
    /\ Goto(c, "reset")
    /\ UNCHANGED <<stage, ready, inflight, up, memory, load, entries, doing, job, cancelled>>
    /\ UNCHANGED <<verdict, prompt, cast, browsers, past>>

Reset(c) ==
    /\ At(c, "reset")
    /\ Broadcast(c, "reset", {})
    /\ Goto(c, "idle")
    /\ UNCHANGED <<store, up, memory, load, entries, doing, job, cancelled, verdict, prompt>>
    /\ UNCHANGED <<browsers, troubles, past>>

-----------------------------------------------------------------------------
(* submitTelegram, by the one poll goroutine; its five commands and their  *)
(* failures are the subject of TelegramIngress.                            *)

\* The next update, or again the one whose submission was interrupted.  The
\* history script adds the message to the store.
TakeUpdate(q) == \E o \in Outcome :
    LET new == stage[q] = "absent" IN
    /\ At("poller", "idle") /\ load = "ready"
    /\ Asker[q] = "poller" /\ stage[q] # "complete"
    /\ \A r \in Questions \ {q} : stage[r] \in {"absent", "complete"}
    /\ IF new THEN Command(o) ELSE o = "ok" /\ UNCHANGED troubles
    /\ IF new /\ Applied(o)
       THEN /\ stored' = KeepLast(Append(stored, Question(q)), Cap)
            /\ stage' = [stage EXCEPT ![q] = "message"]
            /\ past' = [past EXCEPT !.asked = @ \cup {q}]
       ELSE UNCHANGED <<stored, stage, past>>
    /\ IF Replied(o)
       THEN doing' = [doing EXCEPT !["poller"] = {Question(q)}] /\ Goto("poller", "remember")
       ELSE UNCHANGED <<doing, pc>>
    /\ UNCHANGED <<queries, ready, inflight, up, memory, load, entries>>
    /\ UNCHANGED <<job, cancelled, verdict, prompt, cast, browsers>>

\* Mutant: a message added to the memory is not broadcast.
EnsureMessageMemory_Quiet == \E m \in doing["poller"] :
    /\ At("poller", "remember")
    /\ memory' = IF m \in Range(memory) THEN memory ELSE Remembered(m)
    /\ Goto("poller", AfterShow("poller"))
    /\ UNCHANGED <<store, up, load, entries, doing, job, cancelled, verdict, prompt, cast>>
    /\ UNCHANGED <<browsers, troubles, past>>

\* ensureMessageMemory: nothing is added or shown that memory has.
EnsureMessageMemory == \E m \in doing["poller"] :
    /\ At("poller", "remember")
    /\ IF m \in Range(memory)
       THEN UNCHANGED memory /\ Goto("poller", AfterShow("poller"))
       ELSE memory' = Remembered(m) /\ Goto("poller", "show")
    /\ UNCHANGED <<store, up, load, entries, doing, job, cancelled, verdict, prompt, cast>>
    /\ UNCHANGED <<browsers, troubles, past>>

\* The statistics script, the enqueue script and the SET of the record: each
\* advances the stage with its effect; an error leaves the rest to a retry.
Advance(step, next, o) == \E m \in doing["poller"] :
    /\ At("poller", step)
    /\ Command(o)
    /\ stage' = IF Applied(o) THEN [stage EXCEPT ![m.of] = next] ELSE stage
    /\ UNCHANGED <<stored, inflight, up, memory, load, entries, job, cancelled, verdict, prompt>>
    /\ UNCHANGED <<cast, browsers, past>>

GiveUp == Goto("poller", "idle") /\ doing' = [doing EXCEPT !["poller"] = {}]

SubmitStats == \E o \in Outcome :
    /\ Advance("stats", "stats", o)
    /\ queries' = IF Applied(o) THEN queries + 1 ELSE queries
    /\ IF Replied(o) THEN Goto("poller", "queue") /\ UNCHANGED doing ELSE GiveUp
    /\ UNCHANGED ready

EnqueueTelegram == \E o \in Outcome, m \in doing["poller"] :
    /\ Advance("queue", "job", o)
    /\ ready' = IF Applied(o) THEN Append(ready, [id |-> m.of, attempts |-> 0]) ELSE ready
    /\ IF Replied(o) THEN Goto("poller", "complete") /\ UNCHANGED doing ELSE GiveUp
    /\ UNCHANGED queries

Complete == \E o \in Outcome :
    /\ Advance("complete", "complete", o)
    /\ GiveUp
    /\ UNCHANGED <<queries, ready>>

-----------------------------------------------------------------------------
(* Execute: the worker generates one reply at a time.                      *)

Acquire ==
    /\ At("worker", "idle") /\ ready # <<>> /\ inflight = NoJob
    /\ inflight' = Head(ready) /\ job' = Head(ready) /\ ready' = Tail(ready)
    /\ Goto("worker", "prompt")
    /\ UNCHANGED <<stored, queries, stage, up, memory, load, entries, doing, cancelled>>
    /\ UNCHANGED <<verdict, prompt, cast, browsers, troubles, past>>

\* agent.handle asks History() for the newest messages; the question itself
\* is not added to them, and the worker does not wait for the history.  The
\* window counts messages; its limit in bytes (historyPromptCap) is left out.
Prompt ==
    /\ At("worker", "prompt")
    /\ prompt' = KeepLast(memory, Window)
    /\ Goto("worker", "generate")
    /\ UNCHANGED <<store, up, memory, load, entries, doing, job, cancelled, verdict, cast>>
    /\ UNCHANGED <<browsers, troubles, past>>

\* A final text, or the part of it there was when the context was cancelled.
Reply == \E v \in {"reply", "stopped"} :
    /\ At("worker", "generate")
    /\ v = "stopped" => cancelled
    /\ LET m == [of |-> job.id, try |-> job.attempts + 1] IN
       /\ memory' = Remembered(m)
       /\ doing' = [doing EXCEPT !["worker"] = {m}]
    /\ verdict' = v /\ prompt' = <<>>
    /\ Goto("worker", "persist")
    /\ UNCHANGED <<store, up, load, entries, job, cancelled, cast, browsers, troubles, past>>

\* Mutant: an error is not delivered to the channel.
Fail_Undelivered ==
    /\ At("worker", "generate")
    /\ Trouble
    /\ verdict' = "error" /\ prompt' = <<>>
    /\ Broadcast("worker", "error", {})
    /\ Goto("worker", "settle")
    /\ UNCHANGED <<store, up, memory, load, entries, doing, job, cancelled, browsers, past>>

\* agent failed: chat-error to every browser.
Fail ==
    /\ At("worker", "generate")
    /\ Trouble
    /\ verdict' = "error" /\ prompt' = <<>>
    /\ Broadcast("worker", "error", {})
    /\ Goto("worker", "deliver")
    /\ UNCHANGED <<store, up, memory, load, entries, doing, job, cancelled, browsers, past>>

\* The delivery handler of the channel of the question: web has none.
Deliver ==
    LET kind == IF verdict = "error" /\ cancelled THEN "stopped" ELSE verdict
        call == [of |-> job.id, try |-> job.attempts + 1, kind |-> kind]
    IN  /\ At("worker", "deliver")
        /\ past' = IF Asker[job.id] = "poller"
                   THEN [past EXCEPT !.delivered = @ \cup {call}, !.shown = @ \cup doing["worker"]]
                   ELSE past
        /\ Goto("worker", "settle")
        /\ UNCHANGED <<store, up, memory, load, entries, doing, job, cancelled, verdict>>
        /\ UNCHANGED <<prompt, cast, browsers, troubles>>

\* nack: another attempt behind the jobs that wait, or the end.
Nacked(j) ==
    IF j.attempts < Retries
    THEN ready' = Append(ready, [j EXCEPT !.attempts = @ + 1]) /\ UNCHANGED past
    ELSE past' = [past EXCEPT !.ended = @ \cup {j.id}] /\ UNCHANGED ready

\* runOne: a cancelled job is acknowledged whatever the executor returned.
Settle ==
    /\ At("worker", "settle")
    /\ IF verdict = "error" /\ ~cancelled THEN Nacked(job)
       ELSE past' = [past EXCEPT !.ended = @ \cup {job.id}] /\ UNCHANGED ready
    /\ inflight' = NoJob /\ job' = NoJob /\ cancelled' = FALSE /\ verdict' = "none"
    /\ doing' = [doing EXCEPT !["worker"] = {}]
    /\ Goto("worker", "idle")
    /\ UNCHANGED <<stored, queries, stage, up, memory, load, entries, prompt, cast>>
    /\ UNCHANGED <<browsers, troubles>>

-----------------------------------------------------------------------------
(* The jobs of a connection: its running one is cancelled, its waiting     *)
(* ones are dropped.                                                       *)

Drop(c) ==
    /\ cancelled' = (cancelled \/ (job # NoJob /\ Asker[job.id] = c /\ pc["worker"] # "settle"))
    /\ ready' = Sieve(ready, {i \in DOMAIN ready : Asker[ready[i].id] # c})

\* chat-stop; the button is shown while the composer is not.
Stop(c) ==
    /\ At(c, "idle") /\ conn[c] = "open" /\ busy[c]
    /\ Trouble
    /\ Drop(c)
    /\ UNCHANGED <<stored, queries, stage, inflight, up, memory, load, entries, pc, doing>>
    /\ UNCHANGED <<job, verdict, prompt, cast, browsers, past>>

\* Hub.HandleUpgrade registers, then the on-connect hook reads the history
\* and writes it, then frames of the browser are read.
Join(c, from, next) ==
    /\ up /\ conn[c] = from
    /\ conn' = [conn EXCEPT ![c] = next]
    /\ UNCHANGED <<store, process, troubles, past>>

Connect(c) == Join(c, "new", "joining") /\ UNCHANGED <<snap, log, busy>>
Snapshot(c) ==
    /\ Join(c, "joining", "greeted")
    /\ snap' = [snap EXCEPT ![c] = Range(memory)]
    /\ UNCHANGED <<log, busy>>
Greet(c) ==
    /\ Join(c, "greeted", "open")
    /\ log' = [log EXCEPT ![c] = snap[c]]
    /\ snap' = [snap EXCEPT ![c] = {}]
    /\ busy' = [busy EXCEPT ![c] = FALSE]

\* The hub notices a closed or failed connection, perhaps while its handler
\* is still at work.
Disconnect(c) ==
    /\ up /\ conn[c] = "open"
    /\ conn' = [conn EXCEPT ![c] = "gone"]
    /\ log' = [log EXCEPT ![c] = {}] /\ busy' = [busy EXCEPT ![c] = FALSE]
    /\ cast' = [p \in Goroutines |-> {w \in cast[p] : w.to # c}]
    /\ Drop(c)
    /\ UNCHANGED <<stored, queries, stage, inflight, up, memory, load, entries, pc, doing>>
    /\ UNCHANGED <<job, verdict, prompt, snap, troubles, past>>

-----------------------------------------------------------------------------
(* The process.                                                            *)

\* LoadHistory, retried until Valkey answers.
LoadHistory == \E o \in Outcome :
    /\ up /\ load = "ask"
    /\ Command(o)
    /\ IF Replied(o) THEN entries' = stored /\ load' = "adopt" ELSE UNCHANGED <<entries, load>>
    /\ UNCHANGED <<store, up, memory, pc, doing, job, cancelled, verdict, prompt, cast>>
    /\ UNCHANGED <<browsers, past>>

\* Mutant: the history replaces what arrived in the meantime.
AdoptHistory_Replace ==
    /\ up /\ load = "adopt"
    /\ memory' = KeepLast(entries, Cap)
    /\ entries' = <<>> /\ load' = "ready"
    /\ UNCHANGED <<store, up, pc, doing, job, cancelled, verdict, prompt, cast>>
    /\ UNCHANGED <<browsers, troubles, past>>

\* adoptHistory: what was read goes before what arrived in the meantime.
AdoptHistory ==
    /\ up /\ load = "adopt"
    /\ memory' = KeepLast(entries \o memory, Cap)
    /\ entries' = <<>> /\ load' = "ready"
    /\ UNCHANGED <<store, up, pc, doing, job, cancelled, verdict, prompt, cast>>
    /\ UNCHANGED <<browsers, troubles, past>>

\* Start recovers the job in flight before the worker and the server run.
Boot ==
    /\ ~up /\ up' = TRUE
    /\ IF inflight # NoJob THEN Nacked(inflight) ELSE UNCHANGED <<ready, past>>
    /\ inflight' = NoJob
    /\ UNCHANGED <<stored, queries, stage, memory, load, entries, pc, doing, job, cancelled>>
    /\ UNCHANGED <<verdict, prompt, cast, browsers, troubles>>

Uncounted == {m.of : m \in UNION {doing[c] : c \in {d \in Conns : pc[d] \in {"trim", "show", "count"}}}}

Crash ==
    /\ up /\ Trouble
    /\ up' = FALSE /\ memory' = <<>> /\ load' = "ask" /\ entries' = <<>>
    /\ pc' = [p \in Goroutines |-> "idle"] /\ doing' = [p \in Goroutines |-> {}]
    /\ cast' = [p \in Goroutines |-> {}]
    /\ job' = NoJob /\ cancelled' = FALSE /\ verdict' = "none" /\ prompt' = <<>>
    /\ conn' = [c \in Conns |-> IF conn[c] = "new" THEN "new" ELSE "gone"]
    /\ snap' = [c \in Conns |-> {}] /\ log' = [c \in Conns |-> {}]
    /\ busy' = [c \in Conns |-> FALSE]
    /\ past' = [past EXCEPT !.uncounted = @ \cup Uncounted,
                            !.cut = IF job = NoJob THEN @ ELSE [past.cut EXCEPT ![job.id] = @ + 1]]
    /\ UNCHANGED store

-----------------------------------------------------------------------------
(* What became of the copies, computed from every step.                    *)

Submitting == \E q \in Questions : stage[q] \notin {"absent", "complete"}

\* A message is on its way into the copies.
Adding ==
    \/ \E p \in Goroutines : pc[p] \in {"persist", "trim", "remember", "show"}
    \/ \E p \in Goroutines : \E w \in cast[p] : w.kind \in {"message", "done"}
    \/ Submitting
Clearing ==
    \/ \E c \in Conns : pc[c] \in {"del", "reset"}
    \/ \E c \in Conns : \E w \in cast[c] : w.kind = "reset"

\* erased: messages a clear or a trim took out of the store, wiped: out of
\* memory; torn: since the start a clear failed, or overlapped an append or
\* the load; stale: connections that joined while the copies were changing;
\* early: the model was prompted before the history with its question was in
\* memory.
Seen == [erased : SUBSET Message, wiped : SUBSET Message, torn : BOOLEAN, stale : SUBSET Conns,
         early : BOOLEAN]
\* What LoadHistory has still to put into memory.
Unloaded == Range(entries) \cup IF load = "ask" THEN Range(stored) ELSE {}
PromptedEarly ==
    IF pc["worker"] = "prompt" THEN Question(job.id) \in Unloaded \ Range(memory) ELSE seen.early
ClearStep(c) == pc[c] = "idle" /\ pc'[c] = "del"
Watch == seen' =
    [erased |-> seen.erased \cup (Range(stored) \ Range(stored')),
     wiped |-> IF up' /\ (Len(entries \o memory) >= Cap \/ \E c \in Conns : ClearStep(c))
               THEN seen.wiped \cup (Range(entries \o memory) \ Range(entries' \o memory'))
               ELSE seen.wiped,
     torn |-> \/ seen.torn /\ (up' \/ Submitting)
              \/ up' /\ \/ Clearing' /\ (Adding' \/ load' # "ready")
                        \/ \E c \in Conns : pc[c] = "del" /\ pc'[c] = "reset" /\ stored' # <<>>,
     stale |-> seen.stale \cup {c \in Conns : /\ conn'[c] \in {"joining", "greeted"}
                                              /\ Adding' \/ Clearing' \/ load' # "ready"},
     early |-> pc'["worker"] = "generate" /\ PromptedEarly]

AddMessage(p) == WriteFrame(p) \/ Persist(p) \/ Trim(p) \/ Show(p)
Handler(c) == CountQuery(c) \/ Enqueue(c) \/ Delete(c) \/ Reset(c) \/ AddMessage(c)
Poller ==
    \/ \E q \in Questions : TakeUpdate(q)
    \/ EnsureMessageMemory \/ SubmitStats \/ EnqueueTelegram \/ Complete
    \/ WriteFrame("poller") \/ Show("poller")
Worker == Acquire \/ Prompt \/ Reply \/ Fail \/ Deliver \/ Settle \/ AddMessage("worker")
Loader == LoadHistory \/ AdoptHistory
Browser(c) ==
    \/ \E q \in Questions : Ask(c, q)
    \/ Clear(c) \/ Stop(c) \/ Connect(c) \/ Disconnect(c)
Joining(c) == Snapshot(c) \/ Greet(c)

Init ==
    /\ stored = <<>> /\ queries = 0 /\ stage = [q \in Questions |-> "absent"]
    /\ ready = <<>> /\ inflight = NoJob
    /\ up = TRUE /\ memory = <<>> /\ load = "ask" /\ entries = <<>>
    /\ pc = [p \in Goroutines |-> "idle"] /\ doing = [p \in Goroutines |-> {}]
    /\ job = NoJob /\ cancelled = FALSE /\ verdict = "none" /\ prompt = <<>>
    /\ cast = [p \in Goroutines |-> {}]
    /\ conn = [c \in Conns |-> "new"] /\ snap = [c \in Conns |-> {}]
    /\ log = [c \in Conns |-> {}] /\ busy = [c \in Conns |-> FALSE] /\ troubles = 0
    /\ past = [asked |-> {}, refused |-> {}, shown |-> {}, delivered |-> {}, ended |-> {},
               cut |-> [q \in Questions |-> 0], uncounted |-> {}]
    /\ seen = [erased |-> {}, wiped |-> {}, torn |-> FALSE, stale |-> {}, early |-> FALSE]

Next ==
    /\ \/ \E c \in Conns : Handler(c) \/ Browser(c) \/ Joining(c)
       \/ Poller \/ Worker \/ Loader \/ Boot \/ Crash
    /\ Watch

Spec == Init /\ [][Next]_vars

-----------------------------------------------------------------------------
(* Properties.                                                             *)

StoreTypeOK ==
    /\ stored \in Seq(Message) /\ queries \in Nat /\ stage \in [Questions -> Stages]
    /\ ready \in Seq(Job) /\ inflight \in Job \cup {NoJob}
ProcessTypeOK ==
    /\ up \in BOOLEAN /\ memory \in Seq(Message) /\ Len(memory) <= Cap
    /\ load \in {"ask", "adopt", "ready"} /\ entries \in Seq(Message)
    /\ \A p \in Goroutines : pc[p] \in StepsOf(p)
    /\ doing \in [Goroutines -> SUBSET Message]
    /\ cast \in [Goroutines -> SUBSET Write]
    /\ cancelled \in BOOLEAN /\ verdict \in Verdicts /\ prompt \in Seq(Message)
BrowserTypeOK ==
    /\ conn \in [Conns -> {"new", "joining", "greeted", "open", "gone"}]
    /\ snap \in [Conns -> SUBSET Message] /\ log \in [Conns -> SUBSET Message]
    /\ busy \in [Conns -> BOOLEAN]
HandsTypeOK ==
    /\ job = inflight \/ ~up
    /\ \A p \in Goroutines \ {"worker"} : doing[p] # {} <=> pc[p] \notin {"idle", "del", "reset"}

\* Every variable has its type, memory its length, a handler a message exactly
\* while it adds one, and the worker the job in flight.
TypeOK == StoreTypeOK /\ ProcessTypeOK /\ BrowserTypeOK /\ HandsTypeOK

Stored(m) == m \in Range(stored)

\* The statistic covers the questions in the store: a clear removes both.
Counting == {q \in Questions :
    \/ \E c \in Conns : pc[c] \in {"trim", "show", "count"} /\ Question(q) \in doing[c]
    \/ stage[q] = "message"}
QueriesCover ==
    Cardinality({q \in Questions \ (Counting \cup past.uncounted) : Stored(Question(q))}) <= queries

\* No question comes after its reply in the store, and each is counted.  The
\* question of a job that waits or runs is in memory, or in what LoadHistory
\* has still to put there, also after a crash, unless its write failed or it
\* was cleared or trimmed.  The model is prompted with it, unless newer messages
\* fill the window -- or the worker was earlier than the history: main starts it
\* without waiting for LoadHistory, so a job recovered from a crash may be
\* answered without its question (early), which HistoryReady excludes for the
\* poller only.
Jobs == Range(ready) \cup ({inflight} \ {NoJob})
QuestionsStand ==
    LET Missing == past.refused \cup seen.erased \cup seen.wiped IN
    /\ TypeOK /\ QueriesCover
    /\ \A i, k \in DOMAIN stored : i < k => stored[k].try # 0 \/ stored[i].of # stored[k].of
    /\ \A j \in Jobs : Question(j.id) \in Range(memory) \cup Unloaded \cup Missing
    /\ pc["worker"] = "generate" /\ ~seen.early =>
          Question(job.id) \in Range(prompt) \cup Missing \/ Len(prompt) = Window

\* What a browser was told or a Telegram user was sent survives a crash: it is
\* in the store, unless its write failed or it was cleared or trimmed since.
\* When nothing is under way and no clear interfered, the store, memory and
\* every browser that joined in quiet have the same messages.
Quiet == up /\ load = "ready" /\ ~Adding /\ ~Clearing
CopiesAgree ==
    /\ past.shown \subseteq Range(stored) \cup past.refused \cup seen.erased
    /\ Quiet /\ ~seen.torn /\ Len(memory) < Cap /\ Len(stored) < Cap =>
          /\ Range(stored) = Range(memory) \ past.refused
          /\ \A c \in Conns \ seen.stale : conn[c] = "open" => log[c] = Range(memory)

\* A Telegram job that ended was answered -- with a reply, an error or the
\* notice of its cancellation -- unless a crash ended each of its attempts.
Answered(q) == \E d \in past.delivered : d.of = q
EndedIsAnswered ==
    \A q \in past.ended : Asker[q] = "poller" => Answered(q) \/ past.cut[q] > Retries

=============================================================================
