-------------------------- MODULE TelegramIngress --------------------------
(***************************************************************************)
(* How a Telegram update becomes exactly one chat job: the poll loop of    *)
(* internal/telegram/service.go with its persisted offset, and the staged, *)
(* idempotent submission of internal/chat/chat.go, whose stages live in    *)
(* one Valkey record per update.                                           *)
(*                                                                         *)
(* The Telegram server (external) forgets an update once a getUpdates      *)
(* request names a higher offset; until then it sends it again.  The       *)
(* process may die between any two Valkey commands, any command may fail   *)
(* with its effect applied or not, the generation of the bot token may be  *)
(* cancelled at any time, and the list of allowed users may change.        *)
(* A cancellation only sets a flag, so a check of the flag and the command *)
(* after it are one step.                                                  *)
(***************************************************************************)
EXTENDS ValkeyLists, FiniteSetsExt

CONSTANTS
    Updates,       \* update ids
    Kind,          \* Kind[u]: "text", "command" or "ignored"
    IndexCap,      \* 1000: completed ingress records kept
    HistoryCap,    \* 200: chat messages kept
    MaxFaults,     \* bound: failing commands and requests
    MaxRestarts,   \* bound: crashes
    MaxRotations,  \* bound: cancelled token generations
    MaxListChanges \* bound: edits of the allowed-user list

ASSUME UpdatesAssumption ==
    /\ Updates \subseteq Nat \ {0} /\ IsFiniteSet(Updates)
    /\ Kind \in [Updates -> {"text", "command", "ignored"}]

ASSUME CapsAssumption ==
    /\ IndexCap \in Nat \ {0} /\ HistoryCap \in Nat \ {0}
    /\ {MaxFaults, MaxRestarts, MaxRotations, MaxListChanges} \subseteq Nat

VARIABLES
    stage,      \* Valkey: stage of each ingress record, "absent" if there is none
    index,      \* Valkey: the list of update ids with a record
    history,    \* Valkey: the chat messages
    queries,    \* Valkey: chat-stats.queries, per update that incremented it
    pushed,     \* Valkey: every chat job ever pushed, in order
    offset,     \* Valkey: update-offset
    events,     \* Valkey: updates with an event, ever
    userList,   \* Valkey: is the sender on the allowed-user list
    arrived,    \* Telegram: updates sent so far
    confirmed,  \* Telegram: updates below this one are forgotten
    pc,         \* next step of the poll goroutine
    batch,      \* updates of the last response still to be processed
    cur,        \* the update being processed
    nextOffset, \* status.Poll.NextOffset
    memory,     \* chat.Service.history
    loaded,     \* historyReady is closed
    allowed,    \* the allowed-user list in memory
    cancelled,  \* the generation context is done
    faults, restarts, rotations, listChanges,  \* the bounded counters
    appended,   \* history: messages ever appended to the chat history
    denied      \* history: texts whose sender was not on the list

store == <<stage, index, history, queries, pushed, offset, events, userList>>
server == <<arrived, confirmed>>
process == <<pc, batch, cur, nextOffset, memory, loaded, allowed, cancelled>>
bounds == <<faults, restarts, rotations, listChanges>>
past == <<appended, denied>>
vars == <<store, server, process, bounds, past>>

Stages == {"absent", "reserved", "message", "stats", "job", "complete"}
Steps == {"down", "load", "connect", "poll", "next", "observe", "reserve", "history",
          "stats", "enqueue", "complete", "refuse", "event", "offset", "advance"}
Handling == Steps \ {"down", "load", "connect", "poll", "next"}
NoUpdate == 0

-----------------------------------------------------------------------------
(* Valkey commands and the two lists.                                      *)

Command(o) ==
    /\ o # "ok" => faults < MaxFaults
    /\ faults' = IF o = "ok" THEN faults ELSE faults + 1
    /\ UNCHANGED <<restarts, rotations, listChanges>>

Goto(step) == pc' = step

Remember_Untrimmed(u) ==  \* mutant: the conversation in memory is not trimmed
    memory' = IF u \in Range(memory) THEN memory ELSE Append(memory, u)
Remember_Again(u) ==  \* mutant: a retried submission enters memory again
    memory' = KeepLast(Append(memory, u), HistoryCap)

\* A message enters memory unless one with its id is there already.
Remember(u) ==
    memory' = IF u \in Range(memory) THEN memory ELSE KeepLast(Append(memory, u), HistoryCap)

\* Oldest completed records beyond the cap; the first partial one stops the loop.
EvictedCount(idx, stages) ==
    Max({n \in 0..Len(idx) : /\ n = 0 \/ Len(idx) - n >= IndexCap
                             /\ \A i \in 1..n : stages[idx[i]] \in {"absent", "complete"}})

-----------------------------------------------------------------------------
(* The Telegram server and the rest of the environment.                    *)

Arrive(u) ==
    /\ \A w \in arrived : w < u
    /\ arrived' = arrived \cup {u}
    /\ UNCHANGED <<store, confirmed, process, bounds, past>>

\* A new revision of the bot-token secret cancels the generation.
Rotate ==
    /\ pc \notin {"down", "load", "connect"} /\ ~cancelled
    /\ rotations < MaxRotations
    /\ cancelled' = TRUE
    /\ rotations' = rotations + 1
    /\ UNCHANGED <<store, server, pc, batch, cur, nextOffset, memory, loaded, allowed>>
    /\ UNCHANGED <<faults, restarts, listChanges, past>>

\* telegram-userlist-set: SET, then the list in memory.
SetUsers == \E o \in Outcome :
    /\ pc # "down" /\ listChanges < MaxListChanges
    /\ o # "ok" => faults < MaxFaults
    /\ faults' = IF o = "ok" THEN faults ELSE faults + 1
    /\ listChanges' = listChanges + 1
    /\ userList' = IF Applied(o) THEN ~allowed ELSE userList
    /\ allowed' = IF Replied(o) THEN ~allowed ELSE allowed
    /\ UNCHANGED <<stage, index, history, queries, pushed, offset, events, server>>
    /\ UNCHANGED <<pc, batch, cur, nextOffset, memory, loaded, cancelled>>
    /\ UNCHANGED <<restarts, rotations, past>>

Crash ==
    /\ pc # "down" /\ restarts < MaxRestarts
    /\ restarts' = restarts + 1
    /\ pc' = "down" /\ batch' = {} /\ cur' = NoUpdate /\ nextOffset' = 0
    /\ memory' = <<>> /\ loaded' = FALSE /\ allowed' = TRUE /\ cancelled' = FALSE
    /\ UNCHANGED <<store, server, faults, rotations, listChanges, past>>

-----------------------------------------------------------------------------
(* Start: bootstrap, the chat history, a generation.                       *)

Start ==
    /\ pc = "down" /\ Goto("load")
    /\ UNCHANGED <<store, server, batch, cur, nextOffset, memory, loaded, allowed, cancelled>>
    /\ UNCHANGED <<bounds, past>>

\* loadPersistent: the offset and the allowed users; a failure is retried.
Load == \E o \in Outcome :
    /\ pc = "load"
    /\ Command(o)
    /\ IF Replied(o)
       THEN nextOffset' = offset /\ allowed' = userList /\ Goto("connect")
       ELSE UNCHANGED <<nextOffset, allowed, pc>>
    /\ UNCHANGED <<store, server, batch, cur, memory, loaded, cancelled, past>>

\* The goroutine of LoadHistory closes historyReady; submissions wait for it.
LoadHistory == \E o \in Outcome :
    /\ pc # "down" /\ ~loaded
    /\ Command(o)
    /\ IF Replied(o) THEN memory' = KeepLast(history \o memory, HistoryCap) /\ loaded' = TRUE
       ELSE UNCHANGED <<memory, loaded>>
    /\ UNCHANGED <<store, server, pc, batch, cur, nextOffset, allowed, cancelled, past>>

\* A new generation: Resolve, getMe.
Connect == \E o \in Outcome :
    /\ pc = "connect"
    /\ Command(o)
    /\ IF Replied(o) THEN Goto("poll") ELSE UNCHANGED pc
    /\ cancelled' = FALSE
    /\ UNCHANGED <<store, server, batch, cur, nextOffset, memory, loaded, allowed, past>>

\* A check of generationCurrent finds the context done; the lifecycle loop
\* starts the next generation.
CheckedSteps == {"poll", "next", "observe", "reserve", "refuse", "event", "offset", "advance"}
Abandon ==
    /\ cancelled /\ pc \in CheckedSteps
    /\ Goto("connect")
    /\ batch' = {} /\ cur' = NoUpdate
    /\ UNCHANGED <<store, server, nextOffset, memory, loaded, allowed, cancelled, bounds, past>>

Checked(step) == pc = step /\ ~cancelled

\* storageFailure: back off, then poll again from the offset in memory.
Retry == Goto("poll") /\ batch' = {} /\ cur' = NoUpdate

-----------------------------------------------------------------------------
(* The poll loop.                                                          *)

\* getUpdates confirms what is below the offset.  The server returns what is
\* not confirmed; it may repeat lower ids.
GetUpdates == \E o \in Outcome : \E lowest \in {0, nextOffset} :
    /\ Checked("poll")
    /\ Command(o)
    /\ confirmed' = IF Applied(o) /\ nextOffset > confirmed THEN nextOffset ELSE confirmed
    /\ batch' = IF Replied(o) THEN {u \in arrived : u >= lowest} ELSE {}
    /\ IF Replied(o) THEN Goto("next") ELSE UNCHANGED pc
    /\ UNCHANGED <<store, arrived, cur, nextOffset, memory, loaded, allowed, cancelled, past>>

Stale_Never(u) == FALSE  \* mutant: lower ids are not discarded
Stale(u) == u < nextOffset

\* The next update in ascending order: discarded, ignored, or handled.
NextUpdate ==
    /\ Checked("next")
    /\ IF batch = {}
       THEN Goto("poll") /\ UNCHANGED <<batch, cur>>
       ELSE LET u == Min(batch) IN
            /\ batch' = batch \ {u}
            /\ IF Stale(u)
               THEN UNCHANGED <<pc, cur>>
               ELSE /\ cur' = u
                    /\ Goto(IF Kind[u] = "ignored" \/ ~allowed THEN "event" ELSE "observe")
    /\ denied' = IF pc' = "event" /\ Kind[cur'] = "text" THEN denied \cup {cur'} ELSE denied
    /\ UNCHANGED <<store, server, nextOffset, memory, loaded, allowed, cancelled>>
    /\ UNCHANGED <<bounds, appended>>

\* observe records the chat; then a command is answered (a failed answer is
\* not retried) and a text is submitted.
Observe == \E o \in Outcome :
    /\ Checked("observe")
    /\ Command(o)
    /\ IF Replied(o)
       THEN Goto(IF Kind[cur] = "text" THEN "reserve" ELSE "event") /\ UNCHANGED <<batch, cur>>
       ELSE Retry
    /\ UNCHANGED <<store, server, nextOffset, memory, loaded, allowed, cancelled, past>>

\* appendEvent.
LogEvent == \E o \in Outcome :
    /\ Checked("event")
    /\ Command(o)
    /\ events' = IF Applied(o) THEN events \cup {cur} ELSE events
    /\ IF Replied(o) THEN Goto("offset") /\ UNCHANGED <<batch, cur>> ELSE Retry
    /\ UNCHANGED <<stage, index, history, queries, pushed, offset, userList, server>>
    /\ UNCHANGED <<nextOffset, memory, loaded, allowed, cancelled, past>>

\* SET update-offset.
SetOffset == \E o \in Outcome :
    /\ Checked("offset")
    /\ Command(o)
    /\ offset' = IF Applied(o) THEN cur + 1 ELSE offset
    /\ IF Replied(o) THEN Goto("advance") /\ UNCHANGED <<batch, cur>> ELSE Retry
    /\ UNCHANGED <<stage, index, history, queries, pushed, events, userList, server>>
    /\ UNCHANGED <<nextOffset, memory, loaded, allowed, cancelled, past>>

Advance_StoreOnly ==  \* mutant: only the persisted offset advances
    /\ Checked("advance")
    /\ cur' = NoUpdate
    /\ Goto("next")
    /\ UNCHANGED <<store, server, batch, nextOffset, memory, loaded, allowed, cancelled>>
    /\ UNCHANGED <<bounds, past>>

\* status.Poll.NextOffset.
Advance ==
    /\ Checked("advance")
    /\ nextOffset' = cur + 1
    /\ cur' = NoUpdate
    /\ Goto("next")
    /\ UNCHANGED <<store, server, batch, memory, loaded, allowed, cancelled, bounds, past>>

-----------------------------------------------------------------------------
(* submitTelegram: the stages of one update.                               *)

SubmitFailed == Goto("refuse") /\ UNCHANGED <<batch, cur>>

Refuse_Skip ==  \* mutant: the error is not returned to the poll loop
    /\ Checked("refuse")
    /\ Goto("event")
    /\ UNCHANGED <<store, server, batch, cur, nextOffset, memory, loaded, allowed, cancelled>>
    /\ UNCHANGED <<bounds, appended, denied>>

\* The user is told, then the update is retried like any storage failure.
Refuse ==
    /\ Checked("refuse")
    /\ Retry
    /\ UNCHANGED <<store, server, nextOffset, memory, loaded, allowed, cancelled, bounds>>
    /\ UNCHANGED <<appended, denied>>

AfterReserve(s) ==
    CASE s = "complete" -> "event"
      [] s = "reserved" -> "history"
      [] s = "message" -> "stats"
      [] s = "stats" -> "enqueue"
      [] s = "job" -> "complete"

\* The reservation script: the record and its index entry, with the eviction
\* of completed records, or the record that exists already.
Reserve == \E o \in Outcome :
    LET found == stage[cur]
        current == IF found = "absent" THEN "reserved" ELSE found
        stages == [stage EXCEPT ![cur] = current]
        idx == Append(index, cur)
        n == EvictedCount(idx, stages)
    IN  /\ Checked("reserve")
        /\ loaded
        /\ Command(o)
        /\ IF Applied(o) /\ found = "absent"
           THEN /\ index' = SubSeq(idx, n + 1, Len(idx))
                /\ stage' = [u \in Updates |-> IF u \in Range(SubSeq(idx, 1, n))
                                               THEN "absent" ELSE stages[u]]
           ELSE UNCHANGED <<index, stage>>
        /\ IF Replied(o)
           THEN /\ Goto(AfterReserve(current))
                /\ IF current \in {"message", "stats", "job"} THEN Remember(cur) ELSE UNCHANGED memory
                /\ UNCHANGED <<batch, cur>>
           ELSE SubmitFailed /\ UNCHANGED memory
        /\ UNCHANGED <<history, queries, pushed, offset, events, userList, server>>
        /\ UNCHANGED <<nextOffset, loaded, allowed, cancelled, past>>

\* The history script; the message also enters memory.
SubmitMessage == \E o \in Outcome :
    /\ pc = "history"
    /\ Command(o)
    /\ IF Applied(o) /\ stage[cur] = "reserved"
       THEN /\ history' = KeepLast(Append(history, cur), HistoryCap)
            /\ appended' = Append(appended, cur)
            /\ stage' = [stage EXCEPT ![cur] = "message"]
       ELSE UNCHANGED <<history, appended, stage>>
    /\ IF Replied(o)
       THEN Goto("stats") /\ Remember(cur) /\ UNCHANGED <<batch, cur>>
       ELSE SubmitFailed /\ UNCHANGED memory
    /\ UNCHANGED <<index, queries, pushed, offset, events, userList, server>>
    /\ UNCHANGED <<nextOffset, loaded, allowed, cancelled, denied>>

\* The statistics script.
SubmitStats == \E o \in Outcome :
    /\ pc = "stats"
    /\ Command(o)
    /\ IF Applied(o) /\ stage[cur] = "message"
       THEN /\ queries' = [queries EXCEPT ![cur] = @ + 1]
            /\ stage' = [stage EXCEPT ![cur] = "stats"]
       ELSE UNCHANGED <<queries, stage>>
    /\ IF Replied(o) THEN Goto("enqueue") /\ UNCHANGED <<batch, cur>> ELSE SubmitFailed
    /\ UNCHANGED <<index, history, pushed, offset, events, userList, server>>
    /\ UNCHANGED <<nextOffset, memory, loaded, allowed, cancelled, past>>

StageAfterPush_Kept == "stats"  \* mutant: the script does not advance the stage
StageAfterPush == "job"

\* The enqueue script: the job and its stage in one command.
EnqueueTelegram == \E o \in Outcome :
    /\ pc = "enqueue"
    /\ Command(o)
    /\ IF Applied(o) /\ stage[cur] = "stats"
       THEN /\ pushed' = Append(pushed, cur)
            /\ stage' = [stage EXCEPT ![cur] = StageAfterPush]
       ELSE UNCHANGED <<pushed, stage>>
    /\ IF Replied(o) THEN Goto("complete") /\ UNCHANGED <<batch, cur>> ELSE SubmitFailed
    /\ UNCHANGED <<index, history, queries, offset, events, userList, server>>
    /\ UNCHANGED <<nextOffset, memory, loaded, allowed, cancelled, past>>

\* SET of the completed record.
Complete == \E o \in Outcome :
    /\ pc = "complete"
    /\ Command(o)
    /\ stage' = IF Applied(o) THEN [stage EXCEPT ![cur] = "complete"] ELSE stage
    /\ IF Replied(o) THEN Goto("event") /\ UNCHANGED <<batch, cur>> ELSE SubmitFailed
    /\ UNCHANGED <<index, history, queries, pushed, offset, events, userList, server>>
    /\ UNCHANGED <<nextOffset, memory, loaded, allowed, cancelled, past>>

Submit == Reserve \/ SubmitMessage \/ SubmitStats \/ EnqueueTelegram \/ Complete \/ Refuse

Poller ==
    \/ Start \/ Load \/ Connect \/ Abandon
    \/ GetUpdates \/ NextUpdate \/ Observe \/ LogEvent \/ SetOffset \/ Advance
    \/ Submit

Init ==
    /\ stage = [u \in Updates |-> "absent"] /\ index = <<>>
    /\ history = <<>> /\ queries = [u \in Updates |-> 0] /\ pushed = <<>>
    /\ offset = 0 /\ events = {} /\ userList = TRUE
    /\ arrived = {} /\ confirmed = 0
    /\ pc = "down" /\ batch = {} /\ cur = NoUpdate /\ nextOffset = 0
    /\ memory = <<>> /\ loaded = FALSE /\ allowed = TRUE /\ cancelled = FALSE
    /\ faults = 0 /\ restarts = 0 /\ rotations = 0 /\ listChanges = 0
    /\ appended = <<>> /\ denied = {}

Next ==
    \/ Poller \/ LoadHistory \/ Rotate \/ SetUsers \/ Crash
    \/ \E u \in Updates : Arrive(u)

Spec == Init /\ [][Next]_vars

\* Both goroutines are always scheduled again, and every sleep ends.
FairSpec == Spec /\ WF_vars(Poller) /\ WF_vars(LoadHistory)

-----------------------------------------------------------------------------
(* Properties.                                                             *)

StoreTypeOK ==
    /\ stage \in [Updates -> Stages] /\ index \in Seq(Updates)
    /\ history \in Seq(Updates) /\ Len(history) <= HistoryCap
    /\ queries \in [Updates -> Nat] /\ pushed \in Seq(Updates)
    /\ offset \in Nat /\ events \subseteq Updates /\ userList \in BOOLEAN
ServerTypeOK == arrived \subseteq Updates /\ confirmed \in Nat
ProcessTypeOK ==
    /\ pc \in Steps /\ batch \subseteq arrived /\ cur \in arrived \cup {NoUpdate}
    /\ pc \in Handling <=> cur # NoUpdate
    /\ nextOffset \in Nat /\ memory \in Seq(Updates) /\ Len(memory) <= HistoryCap
    /\ loaded \in BOOLEAN /\ allowed \in BOOLEAN /\ cancelled \in BOOLEAN
BoundsTypeOK ==
    /\ faults \in 0..MaxFaults /\ restarts \in 0..MaxRestarts
    /\ rotations \in 0..MaxRotations /\ listChanges \in 0..MaxListChanges
PastTypeOK == appended \in Seq(Updates) /\ denied \subseteq Updates

\* Every variable has its type, the conversation its length, and the poll
\* goroutine an update exactly in the steps that handle one.
TypeOK == StoreTypeOK /\ ServerTypeOK /\ ProcessTypeOK /\ BoundsTypeOK /\ PastTypeOK

\* However often an update is delivered, and wherever the process died or a
\* command failed, it gives one chat message, one query and one job.
OncePerUpdate ==
    /\ IsInjective(pushed) /\ IsInjective(appended)
    /\ \A u \in Updates : queries[u] <= 1

\* What Telegram has been allowed to forget has been dealt with: its event is
\* logged and, for a text that was not denied, its job is queued.
Queued(u) == Kind[u] = "text" => u \in Range(pushed) \cup denied
ConfirmedIsQueued == \A u \in arrived : u < confirmed => u \in events /\ Queued(u)

\* No record without its index entry; the index exceeds its cap only behind a
\* partial record.
IndexSound ==
    /\ \A u \in Updates : stage[u] # "absent" <=> u \in Range(index)
    /\ IsInjective(index)
    /\ Len(index) > IndexCap => stage[Head(index)] # "complete"

\* The conversation the model is prompted with holds every message of the
\* store once, except one whose script reply was lost and that is retried.
MemoryIsStore ==
    loaded =>
        /\ Range(history) \ Range(memory) \subseteq
             {u \in Updates : stage[u] \in {"message", "stats", "job"}}
        /\ IsInjective(memory)

\* The places that remember a submission agree: record and index, stored and
\* in-memory conversation.
StoresAgree == IndexSound /\ MemoryIsStore

\* The jobs are an ordered log of the updates.
PushedLog == INSTANCE OrderedLog WITH log <- pushed
OrderedOnce == PushedLog!Spec

-----------------------------------------------------------------------------
(* The inductive invariant behind OncePerUpdate and OrderedOnce.           *)

\* The offset polling would continue from.
Base == IF pc \in {"down", "load"} THEN offset ELSE nextOffset

\* Updates that have left a trace in the store.
Touched ==
    {v \in Updates : \/ stage[v] # "absent" \/ queries[v] # 0
                     \/ v \in Range(pushed) \cup Range(appended)}

\* The update in work, and every update with a trace, is below the offset or
\* the lowest that is not.
Frontier ==
    /\ nextOffset <= offset
    /\ Touched \subseteq arrived
    /\ \A v \in Touched, w \in arrived : w < v => w < Base
    /\ cur # NoUpdate => nextOffset <= cur /\ \A w \in arrived : w < cur => w < nextOffset
    /\ \A u \in arrived : nextOffset <= u =>
          u \in batch \cup {cur} \/ \A b \in batch \cup {cur} : b < u
    /\ pc = "advance" => offset = cur + 1

\* From the offset on, the stage says what has been done for an update.
StageIsTrue ==
    \A v \in Updates : v >= Base =>
        /\ v \in Range(pushed) <=> stage[v] \in {"job", "complete"}
        /\ v \in Range(appended) <=> stage[v] \in {"message", "stats", "job", "complete"}
        /\ queries[v] = 0 <=> stage[v] \notin {"stats", "job", "complete"}

\* The poll goroutine is where the stage of its update says.
AtItsStage ==
    /\ pc = "history" => stage[cur] = "reserved"
    /\ pc = "stats" => stage[cur] = "message"
    /\ pc = "enqueue" => stage[cur] = "stats"
    /\ pc = "complete" => stage[cur] = "job"

Ascending(s) == \A i, j \in DOMAIN s : i < j => s[i] < s[j]

\* What is pushed or appended is in update order, for as long as the stages
\* above the offset are true.
SubmissionInv ==
    /\ Frontier /\ StageIsTrue /\ AtItsStage
    /\ Ascending(pushed) /\ Ascending(appended)
    /\ \A u \in Updates : queries[u] <= 1

-----------------------------------------------------------------------------
(* Liveness.                                                               *)

\* Every text is eventually queued or denied, and Telegram told to forget it.
EventuallyQueued == \A u \in Updates : u \in arrived ~> u < confirmed /\ Queued(u)

=============================================================================
