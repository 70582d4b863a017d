# Verification of virtualme

virtualme runs one container: a Go controller (`src/controller`), a Valkey
server, an LLM server, an X desktop with Chromium, and a few helpers, all under
s6, which restarts what exits. The controller serves a web page over HTTP and
WebSocket and talks to Telegram, mail and the desktop. This directory holds
TLA+ models of the controller's own logic, the TLC configurations that check
them, and proofs checked by TLAPS. Paths below are relative to the repository;
"the store" is Valkey.

## 1. The system

| component | state | operations | interacts with |
|---|---|---|---|
| job queue `internal/jobs/manager.go` | lists ready-interactive, ready-scheduled, in-flight, done, dead, key inflight-since; `m.running` with its cancel cause | Enqueue, EnqueueTelegram, acquire, runOne, ack, nack, recoverInflight, sweep, CancelRunning, DropConnection, DropQueued, Start | store, hub, chat, agent, projects |
| WebSocket hub `internal/ws` | set of connections, connection ids | HandleUpgrade, Broadcast, remove | every service |
| Valkey client `internal/valkey` | none: one connection per command | Do, Eval, list/hash helpers | every service |
| chat `internal/chat` | conversation in memory and in the store, statistics, ingress record per Telegram update, current flight | SubmitUserText, submitTelegram, Execute/generate, deliver, clear, stop, LoadHistory | queue, LLM, Telegram, hub |
| Telegram `internal/telegram` | poll offset (memory and store), token generation, allow-list, active notifications | poll loop, process, lifecycle, Deliver, notifications | Telegram API, chat, secret resolver |
| notifications `internal/notifications` | hash of notifications, sorted index, read marks; lifecycle marker file | Create, MarkRead, pages, eviction; Begin/Finish of the marker | all services, file system, page |
| configuration `internal/configapi`, `internal/config` | YAML file, base hash, restarting flag, secret revisions | parse, emit, validate, merge, get, put, restart; Resolve, Refresh, Subscribe | file system, main, Telegram |
| mail `internal/mail` | outbox in memory and store; dma's spool | Send, refresh, ClearQueue | dma, page |
| projects `internal/projects`, `jobs/selector.go` | records with their last occurrence, run summaries, pause flag | create, update, delete, run now, pause, tick, execute | queue, agent, page |
| agent `internal/agent` | messages, step, attempt, estimate of the tokens, last observation | turn, tools, compaction, stop | LLM, Chromium, actuation lock |
| jiggler, actuation | setting in store and cache, wake channel, actuation mutex | Run, SetEnabled, lock | desktop, agent |
| tts | cached files, flights, log | synthesize, stream, evict | sherpa-onnx process |
| metrics, activity | capped lists, tiered samples | sample, append, query | store, hub |
| state, health, gpu, procstat, datafs | none | read and broadcast | operating system |
| web page, CLI, container scripts | browser state; none | rendering; docker commands; start order | controller |

Hard behaviours, in order of weight:

* **Commands are not transactions.** Every Valkey command dials, sends and
  waits with a deadline; it may fail before or after its effect. Job handling,
  the Telegram submission, a run's summary and the writing of the outbox are
  sequences of such commands.
* **Crash at any point.** s6 restarts the controller; only the store survives.
* **Goroutines share the store and a few mutexes**: worker, janitor, scheduler,
  one handler per connection, the poll loop, the lifecycle loop, editors. Much
  is read under a mutex and used after it.
* **At-least-once delivery** from Telegram, with the offset kept twice.
* **Cancellation**: disconnect, stop, shutdown and token rotation cancel
  contexts while somebody is between two commands, or waits for the mouse.
* **Copies**: page, memory and store show the same conversation, notifications
  and outbox, and frames cross each other.
* **Cutting a prompt**: four rules remove messages by position from a list in
  which calls, results and observations belong together.

What makes each component correct: an accepted job is run and recorded, or
dropped by its owner, but never vanishes; a job ends once; a restart resumes;
interactive jobs come first. A Telegram update gives one message, one
statistic and one job, in order, and is confirmed only when it is in the queue.
The bot uses the token that was read last, and each trouble is told once. A
page at rest shows the store, and read stays read. A planned restart is never
reported as a crash; an accepted configuration is the one that is served. A
saved configuration can be read again. A message shown as gone from the mail
queue is gone. An edit of a project is not undone by a run that ends later; an
occurrence is handed over once. A prompt is whole, fits and has the current
page; a stopped turn ends; two hands never move the mouse at once. The hazards
in PROJECT.json name the lines where each could fail.

## 2. Modules

| module | what it is |
|---|---|
| `ValkeyLists` | list commands, LREM and filters by a sieve of positions (a definition the proofs can use, unlike SelectSeq), and the three outcomes of a command: `ok`, `lost` (applied, no reply), `failed` (not applied) |
| `JobQueue` | the queue manager with its producers, connections and process lifetime |
| `TelegramIngress`, `OrderedLog` | poll loop and staged submission; what they promise: an append-only, duplicate-free, ordered log |
| `TelegramBot` | secret resolver, token generations, deliveries, notification episodes |
| `Lifecycle` | saving a configuration, restarting into it, and the marker that says how each run ended |
| `ConfigYAML`, `ConfigSchema`, `ConfigLoad` | the pure half of the configuration: reader and writer, schema, precedence of the sources |
| `Conversation` | the shared chat: store, memory and browsers, clear, stop, load of the history, replies and their delivery |
| `Notifications` | the list in the store, the service and the page that shows it |
| `MailOutbox` | the outbox against dma's spool |
| `Selectors`, `Projects` | recurring projects: parts of the week; scheduler, worker and editors |
| `Prompt`, `Desktop` | the agent's prompt and its cuts; its turn, its tools and the jiggler on one mouse |
| `MC...` | constants of the instances; `MCConfig` also the references the pure functions are compared with |
| `JobQueueProofs`, `TelegramProofs`, `LifecycleProofs`, `ConversationProofs`, `NotificationsProofs`, `MailOutboxProofs`, `ProjectsProofs`, `DesktopProofs` | theorems about the module of that name, after the lemmas about lists that they need; `TelegramProofs` about `TelegramIngress` and `TelegramBot` |

### JobQueue

One action per Valkey command or per critical section, because a crash, another
goroutine or an error can come between any two. `pc` holds the next step of the
three goroutines that handle envelopes: `worker` (acquire, runOne, ack, nack),
`janitor` (sweep and its nack) and `boot` (recoverInflight before Start
returns). `held` is the `Envelope` in the goroutine's hands, `running` is
`m.running`, `verdict` what runOne concluded. The rest follows the code: `Pop`
is LMOVE, `SetSince` the SET with both its failure paths, `Requeue`/`Unhold`
the not-before-due branch, `Nack`/`TrimDead`/`NackFinished`/`TrimDone`/
`NackDelete` the commands of nack in their order, `SweepBegin`/`SweepPeek`/
`SweepAge` those of sweep. Connections are opened, push jobs through a handler
(`HandleMessage` decides, `HandlerEnqueue` is the RPUSH), stop chat jobs and
disconnect; `Remover` is DropConnection/DropQueued, which read a list and LREM
values one at a time. `Signal`, `CancelOnShutdown` and `Crash` end a process.

Time is two facts: a scheduled job is due or not (`BecomeDue`), and the
in-flight timestamp is fresh or expired (`Expire`). An executor may succeed or
fail. `normalize` turns zero retries into a default, so `Retries` is positive.

Left out: malformed JSON in a list (the code drops it), wording of frames and
summaries, the activity recorder, commands delayed inside Valkey beyond their
own timeout. An unknown job type is a failing executor.

### TelegramIngress

`GetUpdates` is one request: the server forgets what is below the offset and
returns what it still has, possibly repeating lower ids. `NextUpdate` takes the
lowest of the batch and drops it when it is below the offset, `Observe`,
`LogEvent`, `SetOffset` and `Advance` are the commands of process and of the
loop around it. `Reserve`, `SubmitMessage`, `SubmitStats`, `EnqueueTelegram`
and `Complete` are the five commands of submitTelegram; the first four are Lua
scripts and so one step each. `stage` is the ingress record. Any may fail with
its effect applied or not, and `Refuse` is the message sent after an error,
followed by the back-off and a new poll from the offset in memory. `Rotate`
cancels the generation; `Abandon` is any check of generationCurrent that sees
it; a check and the command after it are one step, because the flag can always
be set right after the check. `SetUsers` edits the allow-list, store first.

Left out: the back-off states and their notifications and the wait after an
authentication failure (`TelegramBot`; the liveness property here is about
tokens that work), system events, replies to commands. `Updates` is any finite
set of positive ids.

### TelegramBot

An operator rewrites the secret file (`Rewrite`) and asks for a refresh, which
reads it and calls back into the service in three steps (`ClearAuth`,
`CancelGeneration`, `SendRevision` into the slot of one). The goroutine
`lifecycle` resolves the token (through the cache, which may have expired),
asks getMe (`Start`, `Answered`, `Unauthorized`), polls, backs off (`Retry`,
`SuspendAsleep`, `Awake`), and takes a revision. `Raise` is notify up to the
command that sets the flag, `Notify` the creation and what is undone when it
fails; the flags are in the store. A delivery captures the client and its
generation (`Capture`) and sends chunk by chunk.

Left out: typing, commands, test messages, the event log, the wording of
states, more than one sender. A check of the generation and the request after
it are one step.

### Lifecycle

The configuration is abstracted to one value per service beside the controller.
`file` is the YAML file, `env` the environment generated from it, `runs` what
each service was started with, `startup` and `current` the two revisions the
API service holds. A restart is four steps of the handler that holds
`operationMu` (`Preflight`, `MatchRevision`, `PlanRestart`, `Accept`), because
the process may die and main may begin to stop between them; a save (`Put`)
holds both mutexes throughout and is one step. `marker` is
`controller-lifecycle.json`, and every write of it, like every write of the
YAML file, has the three outcomes of `ValkeyLists`: a directory sync that fails
after the rename is the applied one without a success. `pc` is the next step of
main: the steps of `Startup` in their order (`ReadMarker`, `RecoverPending`,
`Reserve`, `CreateReserved`, `MarkRunning`), `serve`, those of `Shutdown`
(`StopPending`, `StopCreate`, `StopClean`), the draining of the server and the
restart of the services. A notification is identified by the run that reserved
it and its reason. `Boot` is s6 starting the process, in a running container or
with a new one; `Elapse` says that the five minutes after a plan's deadline are
over, which also ends what is asked of a plan.

Left out: the handler that refreshes secrets, the notification of a save, the
branches for an unreadable or malformed marker (no write of the program
produces one), the eviction of old notifications, power loss.

### ConfigYAML, ConfigSchema, ConfigLoad

Pure functions, written as the code computes them. `ParseYAML` is the reader of
the subset (comments, indentation, mappings, lists, scalars, quotes, forbidden
indicators), `Emit` the writer. `ValidateNode` is the schema's validation with
its issues in order, `MetaValidate` what a schema must satisfy. `ConfigLoad`
has the defaults, the file, references between settings, the environment
variables with their aliases, derived URLs, the semantic checks and the
restart plan. Texts are short sequences of the characters that matter.
`MCConfig` compares each with a definition that does not follow the code, in
`ASSUME`s that TLC evaluates over bounded inputs: which texts survive saving
(`SavedTextsReadBack`, `OtherTextsAreRefused`), which indentations are a tree
(`WellNestedFilesAreRead`), that valid means member of the set the schema
stands for (`ValidMeansMember`), which source wins (`LastSourceWins`), that a
saved configuration loads (`SavedConfigurationLoads`), and so on.

Left out: encodings, tabs and sizes, 64-bit ranges, positions in messages,
emitted comments, patterns, documentation and form metadata, hosts, paths,
durations, the typed decoding after validation.

### Conversation

A message is the question of a user or the reply of an attempt at it; the
conversation is in Valkey (`stored`), in the service (`memory`) and in each
browser (`log`). The steps are those between which another goroutine can run:
for a question of a browser the append to memory (`Ask`), RPUSH (`Persist`),
LTRIM (`Trim`), the broadcast (`Show`), HINCRBY (`CountQuery`) and the enqueue
(`Enqueue`); for one of Telegram the scripts of submitTelegram, whose order
among themselves is the subject of `TelegramIngress`; for a reply `Reply`, then
the same append and broadcast, and `Deliver`. `pc` holds the next step of each
goroutine (one handler per connection, the poller, the worker) and `doing` the
message it adds. A broadcast takes the registered connections and then writes to
each (`cast`, `WriteFrame`), so that frames of two broadcasts arrive in either
order. `Clear` is memory, `Delete` DEL, `Reset` the broadcast. A connection is
registered (`Connect`), its snapshot is taken (`Snapshot`) and written
(`Greet`), three steps of HandleUpgrade and its hook. `LoadHistory` and
`AdoptHistory` are the read and the prepending; only the poller waits for them
(`HistoryReady`), the worker does not, so a job recovered from a crash may be
prompted from an empty memory (`early`). The prompt is the newest `Window`
messages of memory (`boundedHistory`; its limit in bytes is left out). `Stop` and `Disconnect` cancel
the running job of the connection and drop its waiting ones. `busy` is the flag
of `chat.js` that hides the composer; the page's guards on it are in `Ask`,
`Clear` and `Stop`. `past` and `seen` are history: what was shown, delivered or
refused, and what a clear, a trim or an overlap did to the copies. They appear
in no guard except that a question is asked once.

Left out: token deltas, status and statistics frames, token counts, the order
and repetition of messages within one browser (a log is a set), commands of the
queue that fail after a job was accepted (`JobQueue`), the path without an
agent, which the program does not configure, scheduled tasks, shutdown, a
connection that ends before its snapshot was written.

### Notifications

The service holds one mutex while it changes the store, reads it again and
writes to every browser, so a request is one step (`Create`, `ServeRead`,
`ServeReadAll`, `ServePage`). The two replies that are read under the mutex and
written after it are two steps (`ServeState` or `Connect`/`Greet`, then
`Written`). `order`, `items` and `read` are the sorted list, the hash and the
marks; the create script evicts what is beyond the retained number.
`ReceiveState`, `ReceivePage` and `ReceiveError` are the handlers of
`notifications.js`, with `view` the page's variables; the user pages (`LoadOlder`)
and marks. Titles and details are validated by `ValidateCreate`, on sequences of
runes: sanitizeText keeps the runes at the positions that are `Solid` or
`Separates` two solid ones. A connection that ends takes its frames with it.
`stale` is history: the browsers to which a state was written that a newer one
had overtaken, or that missed one because a command failed.

Left out: the detail pane and its request, the filters, toasts, ids beyond
their order (`NextStamp`, checked by `IdsIncrease` in the module, is the
generator).

### MailOutbox

A submission is `Before` (the listing of the spool), `Submit` (sendmail) and
`Record`, a refresh `ReadSpool` and `ApplyRefresh`, clearing `ListFiles`,
`RemoveFile` and `MarkCleared`; the mutex is taken only by the last step of
each. Writing the list is DEL (in `Persist`) and RPUSH (`Push`), with the mutex
held in between. `Leave` and `Bounce` are dma. `Boot` is loadOutbox.
A directory that cannot be read counts as an empty one in both listings of a
submission and in ClearQueue (which marks the entries all the same); a refresh
then does nothing.
`raced`, `shared`, `behind`, `lost` and `spared` are history: the circumstances
under which the code promises less, each from one place in it. `raced` holds only
messages whose entry came between a reading of the spool and the marks made from
it (`Missed`), not all that came during one.

Left out: what is read from queue files beyond the id and the presence of an
error, MIME and DKIM, the address checks, the frames to the pages.

### Selectors, Projects

`Selectors` has the parser of a selector, the parts of a day and the window of an
occurrence; `Starts` is the random delay inside it. In `Projects` a tick of the scheduler is `Tick`, `List` (HGETALL
under the mutex), one `Visit` per project that is due (HSET of its mark),
`Listed` and one `EnqueueOne` per job; a run is `Acquire`, `Begin`, `RunTask`
(reading the record, long), then under the mutex `Record` (LPUSH), `Trim`,
`SaveRun`, and `End` (ack, or back for one retry). The pages create, update,
delete, pause and run by hand. The queue is what `JobQueue` promises, reduced to
the list lengths that matter here. `clock` walks through `Instants`.

Left out: the frames to the pages, the length checks of names and tasks, the
contents of summaries.

### Prompt, Desktop

`Prompt` is agent.go's and budget.go's surgery on the messages as operators:
`CompactTask` (four rounds and the current page), `OlderToolText`,
`DropOldestRound`, `ShrinkLatest`, `CompactHard`. Sizes are units of 256 bytes,
a unit costs `density` tokens. `Desktop` runs a turn: `Begin`, `Attempt`, the
ladder of cuts until the prompt fits (`DropRound`, `HalvePage`,
`ForgetHistory`), `Send`, the model's answer or its refusal (`Answer`,
`CallTools`, `ServerOverflow`, `Recover`, `RequestFails`), the tools (`RunTool`,
`Acquire`, `PauseFirst`, `Press`, `ToolEnds`, `RoundDone`), `Finish`. `Cancel`
is Stop or a browser that left. The jiggler is `Burst`, `CheckPoint`,
`MovePoint`; its switch is three steps of a browser's request (`SetStored`,
`SetCached`, `Wake`). A `script` says which inputs a behaviour draws from, to
keep the long turns and the mouse apart; the rest of the state is as in the code.

The constants are what the code is given: tools with sizes, scripts over those
tools and pages, and `Histories`, what the conversation can hold when a turn asks
for it: any sequences of plain texts (`HistoryAssumption`; it has no tool
messages). A history may be empty or without a question, after a clear or before
the load, or end with a reply. `Begin` takes one as it is, or `Task` alone
(HandleFresh). `opening` is history: the turn started from a question (`asked`) or
not (`mute`), or is a mute one in which `CutHard` has counted a message of the task
as history (`misread`): compactAfterContextError keeps the system prompt and a
question *if there is one*, and its callers set historyEnd to two in either case.

Left out: what tools compute and show (a page or not), DOM references, files of
screenshots and their pruning, the replay of steps, beginTask's failure, the
shell's state, tools run from the Tools page (the same Execute as a job), the
geometry of the mouse.

## 3. Runs

Bounds are constants: `MaxFaults`, `MaxRestarts`, `MaxExpiries`, `MaxStops`,
`MaxRotations`, `MaxListChanges`, `MaxSaves`, `MaxEnds`, and in the newer
modules one budget for everything that goes wrong (`MaxMishaps`, or
`MaxTroubles` for the conversation) beside the number of things a user does
(`MaxRequests`, `MaxEdits`, `MaxManual`, `MaxRefreshes`, `MaxTurns`, and the
numbers in a script). Deadlock checking is off everywhere: when jobs and bounds
are used up the system legitimately stops.

| run | instance | shows |
|---|---|---|
| `queue_crash` | an interactive and a delayed scheduled job, two crashes, no failing command, caps 1 | types, no loss, at most one envelope in flight, bounded overtaking, every accepted job settles |
| `queue_clients` | one connection with two jobs (one chat), a stop or signal | a job ends once, with the verdict that belongs to its cancellation; a finished disconnect leaves only what was pushed later |
| `queue_sweep` | two expiring visibility timeouts against a live worker | no loss while the process lives |
| `ingress` | three texts and a command with a gap in the ids, caps 1 and 2, one fault, one crash, one rotation, one list edit | exactly one message, query and job per update, `OrderedLog` implemented by the pushes, confirmation only after queueing, index and memory agree with the store, every text settled |
| `bot` | two tokens of which one may be revoked, two refreshes, one failure or crash | the token in use is the one read last, each failure is told once, the service ends up polling with the token that works |
| `lifecycle` | two services, two saves, two crashes or signals, one failing write, command or service restart; evaluates the assumptions of `MCConfig` | every run is reported once and as what it was; a planned restart is not reported as a crash nor a crash forgotten; services restart with the accepted configuration; an accepted restart ends in a controller that serves it |
| `conversation` | one question from a browser and one from Telegram, two troubles, one retry, history cap 3, prompt window 2 | what was shown is stored, no question after its reply, a job's question is in memory or still to be loaded, and in its prompt unless the worker was earlier than the load; the statistic covers the questions; the copies agree when quiet; a Telegram job that ended was answered |
| `notifications` | four notifications of which two are retained, one created again, one page, one mishap | a page at rest shows the store; what is read stays read; a page request is answered |
| `mail` | two submissions, cap 1, one mishap | the list is the outbox across restarts; left and cleared are final, and true but for the three gaps named in section 5; nothing that left stays open |
| `projects` | one project over two days, two edits, one manual run, one mishap | edits survive runs and ticks; an occurrence is handed over once, with an earliest start inside its hours; marks and summaries stand; nothing stays due or queued |
| `desktop` | five tools, five steps, a context of twenty units, four scripts, four histories (one empty, one without a question) and the task alone | prompts are whole (unless `misread`), fit and keep their question, the page is kept, one hand on the mouse, Stop ends a turn |
| `desktop_unchanged` | the same | **violation**: "page unchanged" in a prompt from which that page was cut |

Why the bounds are enough: each queue property is about one job and at most one
other that interferes with it; two crashes cover a crash during the recovery
from a crash; caps of one or two make every trim happen. One fault suffices to
separate "applied" from "replied" at every command; with a crash, a rotation
and a list edit in the same behaviour, every pair of disturbances of the ingress
meets. For the lifecycle two ends cover a run that is killed while it reports
the end of the one before it, and two saves a save that races a restart of the
other. For the conversation two questions and their replies fill a history of
three, one retry gives a reply after an error, and two troubles put any one of
them into the middle of the handling of any other, a crash while a clear is
half done among them. Four notifications with two retained evict what a page
in flight names. A capped outbox of one drops an entry at the second
submission, while a refresh or a clear started before either. Two days of a
project with two edits move its occurrence between two ticks, and one mishap
hits every command between the mark and the job. Four or five steps with up to two
observations each overflow a window of two rounds and a context of twenty
units, so every cut happens, at every place the messages allow; five steps are
enough for the retention to cut what a hard cut left of a turn without a question;
and the two hands meet with two switches and bursts of one or two points. Every mutant in
PROJECT.json is found within the same bounds.
With `MaxFaults = 0` the queue runs say what crashes alone can do; section 5
says what a failing command adds.

Fairness: weak, for each goroutine and for recovery (the Go scheduler and s6),
for the clock (`BecomeDue`, `Expire`, `Wait`) and for the end of a process told
to stop; for the poll goroutine as a whole and for the history loader; for
main (with s6 starting the controller again) and for the restart handler; for
the handlers and the frames of a page. Strong where a step waits for a mutex
that others take again and again: Go's mutex hands itself to a waiter that has
starved for a millisecond (`ApplyRefresh`, `Record`, `Acquire`; the jiggler
itself only tries), and for the token's goroutines, which a crash may disable.
A cancelled turn owes its own steps, but no server owes an answer. No fairness
for clients, saves, users, crashes or failing commands.

## 4. Proofs

Every theorem holds for all values of the constants that the module's
assumptions allow; further assumptions are named below. Each safety theorem is
proved in the same way: an inductive invariant, one lemma per action (or per
kind of move) that keeps it, and the property as its consequence.

### Job queue

* `TypeCorrect`: `[]TypeOK`. Inductive as it stands, because it also says that a
  goroutine past reading an envelope holds one.
* `CrashLosesNothing`: `[]CrashSafety`, and from it `NoLossWithoutFaults`:
  `[]NoSilentLoss`, both under `MaxFaults = 0` and `MaxExpiries = 0`.
  `NoSilentLoss` alone is not inductive: that LMOVE finds an empty in-flight
  list, and that whoever deletes the list has first pushed or recorded what is
  in it, are both needed. `CrashSafety` is their conjunction with the order of
  the process's phases. The assumptions are necessary: a failing command strands
  an envelope (section 5), and the instance of `queue_sweep` violates
  `NoSilentLoss` as soon as it may crash once.
* `NoLossWhileRunning`: `[]NoLossInProcess` under `MaxFaults = 0` and
  `MaxRestarts = 0`, for any number of expiring visibility timeouts. A sweep may
  take the in-flight list away under a live worker; `ProcInv` says that what
  it takes is what the worker holds, that the worker lets go only of an envelope
  that is safe elsewhere, and asks nothing of the janitor.
* `EndsOnce`: `[]FinishedOnce` under `MaxFaults = 0`, `MaxRestarts = 0` and
  `MaxExpiries = 0`; the queue is at-least-once, so each of the three runs a job
  again. `PlaceInv`: a job is with a handler, on one ready list, with the worker
  or recorded, and in one of these only. `EndInv`: a job cancelled while it ran
  is on its way to a cancelled record.
* `DisconnectCleansUp`: `[]DisconnectDropsQueue` under `MaxFaults = 0` (a failing
  LRANGE skips its list). `DropInv` says how far DropConnection is: what it still
  has to remove from its list is among the envelopes it saw there.
* `InteractiveFirst`: `[]BoundedOvertaking`, without assumptions, by
  `OvertakingInv`: at the moment a scheduled job is taken no interactive job
  waits that has already been overtaken, because only scheduled jobs are ever
  sent back to wait.

### Telegram ingress

For every finite set of updates, any caps, faults, crashes, rotations and edits:

* `IngressTypeCorrect`: `[]TypeOK`; `AtMostOncePerUpdate`: `[]OncePerUpdate`;
  `PushesAreOrdered`: `OrderedOnce`, that is, the initial state and every step of
  the ingress map to the initial state and a step or a stutter of `OrderedLog`.
  They rest on `SubmissionInv`. That nothing is pushed twice is not inductive,
  because the record that says so may be evicted: the update in work is the
  lowest arrived one not below the offset and nothing else with a trace in the
  store is above it (`Frontier`), so an evicted record is below the offset that
  polling would continue from; from there on the stage of the record is true
  (`StageIsTrue`) and the poll goroutine is where it says (`AtItsStage`).
* `ConfirmedOnlyWhenQueued`: `[]ConfirmedIsQueued`. `ConfirmationInv` adds that
  what is confirmed lies below both offsets, that nothing arrives below an offset
  later, that all below the stored one is dealt with, and that the goroutine on
  its way to the offset has its job queued and its event logged.
* `StoresAlwaysAgree`: `[]StoresAgree`. Needed beside it: index, history and
  memory are in update order, so that trimming any of them keeps the newest
  (`IndexInv`); the history is the end of all that was ever appended, and a stored
  message that memory lacks is one in submission (`ConversationInv`).

### Telegram bot

For every set of tokens, however the file is rewritten, tokens are revoked,
commands fail and the process dies. The theorems stand at the end of
`TelegramProofs`, about `Bot`, an instance of `TelegramBot`: the two halves of the
service name their steps alike.

* `TokenIsInUse`: `TokenInUse`, an action property. That a generation which starts
  has the token read last depends on the resolver's cache and on the slot:
  `TokenInv` says that the cache holds the last reading unless a refresh settles
  or the goroutine waits for a secret (and will not ask the cache before a
  revision says that one was read), that a revision "ok" under way or in the slot
  means that it does, and that a sender whose generation is the last one captured
  the generation's token. `StepInv` ties steps, generation and note together.
* `EveryFailureIsTold`: `FailuresAreTold`. `FlagInv` holds between two commands
  too: a flag stands for a notification that was told *or is in hand*, and the
  note in hand is not one that was told already. It needs that a suspension in
  hand finds no conflict (else undoing it would leave a conflict without a
  suspension), and both directions for the authentication failure, because the
  flag is what silences the next one.

### Conversation

For any questions, connections and caps, any number of crashes, failing commands,
clears and stops. `ControlInv` is the common ground: types, what each goroutine
has in hand at each of its steps, and that a process that does not run has
nothing.

* `EndedWasAnswered`: `[]EndedIsAnswered`. `AnsweredInv`: a job that waits for
  its n-th retry was answered or a crash ended n attempts, counting the one in
  flight of a process that died.
* `QuestionsAlwaysStand`: `[]QuestionsStand`, of three parts. The order of a
  question and its reply needs that a message is written once: `JobsInv` (one job
  for a question, only after its handler has let go of it) and `WritingInv` (what
  has been written of a question, and which attempts at a reply may have been).
  That a job's question is in memory, or in what is still to be loaded, is
  `MindInv`, about `entries` and `memory` together while the history is loaded; that
  the prompt has it follows unless the worker was earlier (`early`). It needs that the store has what
  memory may have lost in a crash (`SafeInv`). The statistic compares a count with
  the size of a set that loses members by trims and clears (`CoverStep`).
* `CopiesAlwaysAgree`: `[]CopiesAgree`. That the copies agree at rest says nothing
  about how they get there; `CopyInv` says what they differ by at any moment: the
  store by what is about to be written (`StoredCopy`), memory by what is read but
  not adopted and what a submission has stored but not remembered (`MemoryCopy`),
  a page by the frames on their way and the messages not yet broadcast
  (`LogCopy`), all by a clear that is under way (`ClearInv`); and that a
  connection whose snapshot is taken in quiet is not overtaken (`JoinInv`).

### Notifications

For any notifications and browsers, every length of the list, of a state frame
and of a page, any number of failing scripts, lost connections, restarts and
repeated creations.

* `QuietBrowserShowsStore`: `[]QuietShowsStore`, from `NotificationsInvariant`
  (`[]NotificationsInv`). That a page at rest shows the
  store says nothing about a page in motion. `BrowserOK` says of each browser
  that is not `stale` what is still under way to make it so, whatever is created,
  evicted or marked in between: the last state on its way, or else the one it
  shows, is the state of the store (`StateOK`); unless a creation is announced or
  a reload is due, its list reaches from the newest down to its cursor, and a
  page on its way goes on where the list ends (`ListOK`); a mark that its rows
  lack is told by a frame behind them (`MarksOK`); and a page that waits has
  exactly one request or one answer under way, for the page it waits for
  (`ExchangeOK`). Lists and marks need that frames arrive in their order and that a
  creation announced behind a page makes that page worthless (`Fresh`), because
  the page asks for the list again.
  That nothing stored is dropped as malformed needs that validation changes
  nothing the second time: a sieve keeps the order of what it keeps
  (`SievePlaces`), so a sanitized text has no rune that would be removed and no
  space that would be trimmed (`SanitizedIsClean`, `SanitizeAgain`), also in
  the keys and texts of a detail (`DetailAgain`).
* `ReadNoticesStayRead`: `ReadStaysRead`, an action property that holds of every
  step, reachable or not: a creation drops no mark but those of what it trims.

### Lifecycle

For any list of services and values, any number of crashes, signals and failures:
`EndsAreReported` (`[]EndsReported`), `RestartIsReported` (`[]RestartReported`),
`RestartsWithAcceptedAlways` (`[]RestartsWithAccepted`). What is reported of a run
depends on the marker that the next run reads, so `Report` relates the step of
main, the state of the marker and the notifications: where the marker's entry
belongs at each step (`PlaceInv`), that a run's end is reported once and as its
entry says (`NoticesInv`), that a killed run's entry still says so until it is
reported (`KilledInv`), and that an accepted restart leaves a plan or what came of
it (`AcceptedInv`). The proof found branches of the module that could never be
taken, those where PlanRestart or Shutdown finds another marker than it starts
from and writes nothing; they are `WritesNothing` now.

### Mail, projects, desktop

* `OutboxIsKept`: `[]StoreIsOutbox`. The list in the store is not the outbox
  between DEL and RPUSH, nor after a writing failed, nor while no process has an
  outbox; `ListsInv` says what it is then. That a submission keeps the latest
  rests on `KeepLastAppend`: trimming before one more is appended changes nothing
  of what is kept.
* `FinishedStands`: `FinishedIsFinal`, an action property, with the three gaps
  that `FinishedIsGone` names (`raced`, `shared`, `spared`). `FinalInv` says, of
  whichever copy of the outbox, that the message of a finished entry is gone
  (`EntriesInv`), of a submission that what it finds new in the spool is its own
  (`SendsInv`), of a refresh and a clear that what they missed of the outbox came
  after their listing (`ReadersInv`), and that a submission is recorded once.
* `EditsAlwaysSurvive`: `[]EditsSurvive`. The worker writes back a whole record;
  while it is between reading and writing it holds the mutex (`HolderInv`) and its
  copy is the stored record (`CurrentInv`), and each summary beyond the cap stands
  for a mishap or the push just made (`RunsInv`).
* `HandedOncePerOccurrence`: `[]OncePerOccurrence`. How often an occurrence was
  given out is bounded by one more than the changes of the selector; inductive is
  only the sharper bound without the one for whatever could still be marked
  (`GivenInv`): an occurrence that is not over, of the present part of the day,
  whose token is not the record's mark. Without a change of the selector a mark
  gives way only to one of a later day, because ticks never go back. That an
  earliest start lies inside its occurrence is arithmetic of days and hours
  (`StartsInside`).
* `MarksAndSummariesStand`: `RecordsStand`, an action property. A visit may mark
  only because its token is not older than the mark it replaces, which is
  `GivenInv` again; `SummaryInv` follows the summary of a run to its end.
* `OneHandAlways`: `[]OneHand`. `HandInv` says who holds the lock in each phase,
  and that a point is moved only after a look at the setting, which is why the
  jiggler can move one point after the switch and not two.

### Prompts

For every set of tools, every limit, every history of texts, however the model answers and whatever overflows: `PromptsStayWhole`
(`[]PromptsAreWhole`), `PageStays` (`[]PageIsKept`) and `SentPromptsFit`
(`[]SentFits`). They share one invariant, `PromptInv`. `Scalars` are the types of
what is not the prompt. `Frame` is what holds of every turn: the types of the
messages, the system prompt first, the question the turn started from, and that a
sent prompt fits. `Content` holds unless the turn is misread, and says of the
prompt, phase by phase:

* `Opening` and `Shape`: the first messages are the system prompt and texts,
  stubs are results, observations the user's messages.
* `Whole(messages, n)`: every round has its results but for the n that its last
  one still waits for, where n counts the calls still to run. At the step limit
  calls stay unanswered; that prompt is never sent.
* `Pairs`: no round has more stubs than observations, so the stub at each rank
  has an observation at that rank, and one that comes later. Only the compaction
  establishes it (`CompactPairs`: a stub survives with its observation or not at
  all, and no two have the same), the cuts keep it.
* `Shown` and `Backed`: while no page was cut, the newest page, in the prompt or
  among the observations of the round, is what the last hash speaks of, and
  everything "unchanged" comes after it.

Each cut is seen as one of two maps. `Shifted` is a sequence that, after some
plain messages, goes on as another does further on; if no round lies across the
place where it does, whole rounds stay whole (`ShiftedWhole`), and rounds,
stubs and observations correspond (`ShiftedRounds`, `ShiftedPairs`). The
compaction, the drop of the oldest round and the hard compaction are of this
kind. `Fainter` changes sizes and takes images out, `Alike` only sizes.

The proof found that `Observation` did not say which of two cases came first
when an error repeats the last one (CASE chooses freely where two guards hold, TLC
takes the first): the hash decides, as in makeObservationMessage.

### Only model-checked

* The liveness properties: fairness and ENABLED are beyond TLAPS here.
* What the sum `Tokens` of a prompt is, an induction over data:
  `SentPromptsFit` needs only that it is a number, and no theorem says that a cut
  lowers it.
* The configuration's functions, recursive over their input, which are compared
  with their references over bounded inputs.

## 5. Disagreements found

One is a run of its own. `desktop_unchanged`: preparePrompt drops the oldest
round for space without looking whether it holds the page that a later "Page
unchanged since the last observation." speaks of, although
`specs/034-agent-context-budget.md`:78-80 says the page remains available; the
hash of that page stays, so every further look is answered the same way.

The modules reach the following too; the properties leave them out by the
history variables or bounds named, and a reader of a spec would not expect them.

*Queue and Telegram.* A command that fails between LMOVE and runOne strands the
envelope, and the DEL of the next acknowledgement deletes it
(`013-job-queue-scheduler.md`:190). A job may run for a connection that left
between LMOVE and runOne (013:144), and connection ids start again in every
process. The user can read "could not queue" although the job is queued, when a
reply is lost (`033-telegram.md`:854-855), and a half-done submission whose
sender leaves the list stays half done (033:805). A refresh between Resolve and
the assignment of cancelGen lets the old token run while the revision waits in
the slot (033:199-200), for as long as the long poll takes. A suspension while
getMe fails is never reported as resolved (033:991). After a failed refresh the
service stops until the next one. An error of HGETALL reads as "no flags", and
errors of HDEL are dropped, so a notification can be repeated or missing after
one.

*Lifecycle and configuration.* After a crash of the controller alone nothing is
pending although services run old values (`031-master-config.md`:733-734). A
notification that Shutdown replaces in the marker before it was created is lost
(`032-assistant-notifications.md`:493). The writer does not round-trip as
031:948-949 says: a text that starts with a quote or bracket
(`"Bob" <bob@x>` as sender), has an unpaired quote, ` &` or ` *`, starts with an
indicator or `- `, or has `: !` or `: |` inside quotes is accepted by put,
written, and refused by the next start; a text that starts and ends with the
same quote loses them. `VM_LLAMA_PORT` together with an empty
`VM_LLAMA_HEALTH_URL` lets a start succeed or fail by Go's map order. A
reference in YAML beats `VM_MAIL_SMARTHOST_PASS`, of which 031:316 says it wins.
A URL is derived also when YAML has it at its default (031:410-413). Ports are
compared as text. `VM_VNC_ADDR` alone is always refused. A crash between
creating and removing the first-start lock blocks later starts.

*Chat.* main starts the worker (`main.go`:742) without waiting for LoadHistory
(`main.go`:632), and the agent adds no question of its own to the history
(`agent.go`:261-262): a job recovered from a crash may be prompted without its
question (`early`; `034-agent-context-budget.md`:52). A browser that joins before the history is loaded, or while a message
is broadcast, shows another conversation (`005-console-ui.md`:361-364); when a
waiting job is dropped by a stop, nothing shows the composer again (005:127);
the error of a first attempt is delivered and the second attempt's reply too
(033:829-830); a message persisted before the history is read is in memory
twice.

*Notifications and mail.* A state frame can overtake a newer one (`stale`);
after a page reload failed, "Load older" starts over. A DEL that was not applied
before its RPUSH doubles the outbox; after a failed LRANGE at start the next
change deletes the stored one; overlapping submissions can swap queue ids. A
refresh that listed the spool before a message arrived, and marks the entries after
its entry came, marks it as left although it waits (`026-console-fixes.md`:163-165),
and ClearQueue marks as cleared what was submitted after its listing. When the spool
cannot be read, a submission's entry gets no id, or another's, and later shows
as left although its message waits; ClearQueue removes nothing and marks every
entry.

*Desktop.* After a history without a question (cleared while a job waits, not yet
loaded, or replies only in the window) a hard cut keeps the system prompt and the
newest round and counts the first message it kept of the task as history
(`agent.go`:286, `budget.go`:273). A later retention then does not see that round: it can keep the
call without its results, or drop a call and keep the result, so the prompt is not
whole (`misread`; 034:87 promises system, current user and the newest round).

*Projects and jiggler.* A worker that is busy until after the hours of an
occurrence starts its job all the same, against "never outside it" (013:127): the
queue knows an earliest start only. Pausing stops the tick only: scheduled jobs that are queued run
all the same (026:91-92); a change of the selector can repeat an
occurrence (014:146), a crash after the mark loses one (014:70, by design); a
DEL that fails after its HDEL leaves a list of runs. The directory of DOM dumps
counts as a task, so nineteen are kept (the operate skill says twenty). Two
browsers that switch the jiggler at once can leave store and cache different.

## 6. Not modelled

* Activity ledger, counters and metric tiers; text to speech (single flight,
  eviction of its files): self-contained, next in the plan.
* State tree, health, GPU, process statistics, data files: readings of the
  operating system that are broadcast as they are.
* The page beyond chat and notifications, the command line and the container
  scripts: no state that others depend on, except s6's restart, which is the
  crash and boot of the modules.
* Within modelled parts: what each subsection of section 2 lists as left out.

Next, in order: an abstract at-least-once queue implemented by `JobQueue`, with
which `Projects` composes; the secret refresh handler between `Lifecycle` and
`TelegramBot`; tts flights.
