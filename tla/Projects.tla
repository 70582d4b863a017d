------------------------------ MODULE Projects ------------------------------
(* Recurring projects: projects/projects.go together with the scheduler loop of *)
(* jobs/manager.go (schedule) and the selectors of jobs/selector.go.  Once a    *)
(* minute the scheduler asks the project source which projects are due in the   *)
(* present part of the day; the source marks each in its record and hands over  *)
(* a job with a random start inside the occurrence.  One worker runs the jobs,  *)
(* and the pages edit, delete and start projects meanwhile.  The queue is the   *)
(* one of JobQueue, reduced to what it promises: a job is held while it runs,   *)
(* and a process that dies returns it once.                                     *)
EXTENDS Selectors

CONSTANTS
    Ids,           \* project ids, given out once each
    NoProject,     \* no record
    NoTask,        \* the blank task
    Tasks,         \* texts a task can have
    Offered,       \* the selectors the pages offer (parsed)
    DefaultSelector, \* "weekday morning"
    Instants,      \* increasing sequence of the hours at which anything happens
    RunsCap,       \* 50 run summaries are kept
    NoJob,
    Combined,      \* update requests that carry several fields at once
    MaxEdits,      \* updates of a project
    MaxManual,     \* "Run now" clicks
    MaxMishaps     \* failing commands and crashes

ASSUME ProjectsAssumption ==
    /\ IsFiniteSet(Ids) /\ NoTask \notin Tasks
    /\ DefaultSelector \in Offered
    /\ \A s \in Offered : s.days \subseteq Weekdays /\ s.bucket \in Buckets
    /\ Instants \in Seq(Nat) /\ Len(Instants) > 0
    /\ \A i, j \in DOMAIN Instants : i < j => Instants[i] < Instants[j]
    /\ RunsCap \in Nat \ {0}
    /\ {MaxEdits, MaxManual, MaxMishaps} \subseteq Nat

NoToken == <<0, "">>
\* bucketToken: the calendar day and the bucket's name; day 0 stands for none.
TokenAt(t, bucket) == <<t \div 24 + 1, bucket>>
Tokens == {NoToken} \cup {TokenAt(Instants[i], s.bucket) : i \in DOMAIN Instants, s \in Offered}

VARIABLES
    store,     \* the projects hash
    runs,      \* the length of each runs list
    paused,    \* the scheduler's pause flag
    clock,     \* index of the present instant
    mu,        \* who holds Service.mu across commands: "free", "source", "worker"
    source,    \* the scheduler goroutine
    ready,     \* the two ready lists
    inflight,  \* the job in the in-flight list
    worker,    \* the worker goroutine
    accepted,  \* history: the settings the last successful request left
    handed,    \* history: how often an occurrence was handed to the queue
    edits,     \* history: changes of the selector
    born,      \* ids given out: a new project gets a fresh one
    torn,      \* history: projects whose deletion stopped half-way
    count      \* [edits, manual, mishaps] so far
vars == <<store, runs, paused, clock, mu, source, ready, inflight, worker,
          accepted, handed, edits, born, torn, count>>
history == <<accepted, handed, edits, born, torn>>

IdleSource == [pc |-> "idle", now |-> 1, left |-> {}, batch |-> <<>>]
IdleWorker == [pc |-> "idle", failed |-> FALSE, cancelled |-> FALSE, recorded |-> FALSE,
               current |-> NoProject]
NoneHanded == [k \in Tokens |-> 0]
Now == Instants[clock]

Records == [task : Tasks \cup {NoTask}, selector : Offered, enabled : BOOLEAN, token : Tokens]
Acceptable(r) == r.enabled => r.task # NoTask
\* An update request carries any of the three settings.
Request(new) ==
    /\ DOMAIN new \subseteq {"task", "selector", "enabled"}
    /\ "task" \in DOMAIN new => new["task"] \in Tasks \cup {NoTask}
    /\ "selector" \in DOMAIN new => new["selector"] \in Offered
    /\ "enabled" \in DOMAIN new => new["enabled"] \in BOOLEAN
ASSUME ValuesAssumption ==
    /\ NoProject \notin Records
    /\ NoJob \notin [project : Ids, manual : BOOLEAN, token : Tokens, notBefore : Nat, attempts : 0..1]
    /\ \A new \in Combined : Request(new)

Exists(p) == store[p] # NoProject
Settings(r) == IF r = NoProject THEN NoProject
               ELSE [task |-> r.task, selector |-> r.selector, enabled |-> r.enabled]

Init ==
    /\ store = [p \in Ids |-> NoProject]
    /\ runs = [p \in Ids |-> 0]
    /\ paused = FALSE /\ clock = 1 /\ mu = "free"
    /\ source = IdleSource /\ worker = IdleWorker
    /\ ready = [k \in {"interactive", "scheduled"} |-> <<>>]
    /\ inflight = NoJob
    /\ accepted = store
    /\ handed = [p \in Ids |-> NoneHanded]
    /\ edits = [p \in Ids |-> 0]
    /\ born = {} /\ torn = {}
    /\ count = [edits |-> 0, manual |-> 0, mishaps |-> 0]

Mishap == count.mishaps < MaxMishaps /\ count' = [count EXCEPT !.mishaps = @ + 1]
\* A command's outcome; the reply of an applied one may be lost ("unsure").
Fine(o)    == IF o = "done" THEN UNCHANGED count ELSE Mishap
Reached(o) == o # "nothing"

-----------------------------------------------------------------------------
(* The pages' requests                                                          *)

Create(p) ==
    \E o \in {"done", "nothing", "unsure"} :
        /\ mu = "free" /\ p \notin born
        /\ born' = born \cup {p}
        /\ Fine(o)
        /\ store' = IF Reached(o) THEN [store EXCEPT ![p] = [task |-> NoTask, selector |-> DefaultSelector,
                                              enabled |-> FALSE, token |-> NoToken]] ELSE store
        /\ accepted' = [accepted EXCEPT ![p] = Settings(store'[p])]
        /\ UNCHANGED <<runs, paused, clock, mu, source, ready, inflight, worker,
                       handed, edits, torn>>

\* What update() makes of a record and the fields a request carries.
Merge(r, new) == [f \in DOMAIN r |-> IF f \in DOMAIN new THEN new[f] ELSE r[f]]
\* The record that would be saved is checked, not the fields of the request.
Accepts(r, new) == Acceptable(Merge(r, new))
Fields == [task : Tasks \cup {NoTask}] \cup [selector : Offered] \cup [enabled : BOOLEAN]

Update(p, new) ==
    \E o \in {"done", "nothing", "unsure"} :
        /\ mu = "free" /\ Exists(p)
        /\ count.edits < MaxEdits
        /\ Accepts(store[p], new)
        /\ o # "done" => count.mishaps < MaxMishaps
        /\ count' = [count EXCEPT !.edits = @ + 1, !.mishaps = IF o = "done" THEN @ ELSE @ + 1]
        /\ store' = IF Reached(o) THEN [store EXCEPT ![p] = Merge(@, new)] ELSE store
        /\ accepted' = [accepted EXCEPT ![p] = Settings(store'[p])]
        /\ edits' = IF store'[p].selector # store[p].selector THEN [edits EXCEPT ![p] = @ + 1] ELSE edits
        /\ UNCHANGED <<runs, paused, clock, mu, source, ready, inflight, worker,
                       handed, born, torn>>

\* HDEL of the record, then DEL of the runs: the second may fail or never come.
Delete(p) ==
    \E o \in {"done", "nothing", "half"} :
        /\ mu = "free" /\ Exists(p)
        /\ Fine(o)
        /\ store' = IF Reached(o) THEN [store EXCEPT ![p] = NoProject] ELSE store
        /\ runs' = IF o = "done" THEN [runs EXCEPT ![p] = 0] ELSE runs
        /\ torn' = IF o = "half" THEN torn \cup {p} ELSE torn
        /\ accepted' = [accepted EXCEPT ![p] = Settings(store'[p])]
        /\ handed' = IF Reached(o) THEN [handed EXCEPT ![p] = NoneHanded] ELSE handed
        /\ edits' = IF Reached(o) THEN [edits EXCEPT ![p] = 0] ELSE edits
        /\ UNCHANGED <<paused, clock, mu, source, ready, inflight, worker, born>>

\* project-run: enabled or not, as long as there is a task.
RunNow(p) ==
    /\ Exists(p) /\ store[p].task # NoTask
    /\ count.manual < MaxManual
    /\ count' = [count EXCEPT !.manual = @ + 1]
    /\ ready' = [ready EXCEPT !["interactive"] = Append(@,
            [project |-> p, manual |-> TRUE, token |-> NoToken,
             notBefore |-> 0, attempts |-> 0])]
    /\ UNCHANGED <<store, runs, paused, clock, mu, source, inflight, worker, history>>

SetSchedulerPaused(flag) ==
    /\ paused' = flag
    /\ UNCHANGED <<store, runs, clock, mu, source, ready, inflight, worker, history, count>>

-----------------------------------------------------------------------------
(* The scheduler's tick                                                         *)

\* The pause flag is read and the tick's time fixed before the source is asked.
Tick ==
    /\ source.pc = "idle"
    /\ IF paused THEN Mishap ELSE UNCHANGED count      \* a failing GET reads as running
    /\ source' = [IdleSource EXCEPT !.pc = "ask", !.now = clock]
    /\ UNCHANGED <<store, runs, paused, clock, mu, ready, inflight, worker, history>>

\* Mutant: a return path forgets to unlock.
Released_Never == "source"
Released == "free"
List ==
    /\ source.pc = "ask" /\ mu = "free"
    /\ \/ /\ mu' = "source"
          /\ source' = [source EXCEPT !.pc = "visit", !.left = {p \in Ids : Exists(p)}]
          /\ UNCHANGED count
       \/ /\ Mishap /\ source' = IdleSource /\ UNCHANGED mu
    /\ UNCHANGED <<store, runs, paused, clock, ready, inflight, worker, history>>

\* Mutant: the mark in the record is not looked at.
Unmarked_Always(r, t) == TRUE
Unmarked(r, t) == r.token # TokenAt(t, r.selector.bucket)
Due(p, t) ==
    /\ Exists(p) /\ store[p].enabled /\ store[p].task # NoTask
    /\ Matches(store[p].selector, t)
    /\ Unmarked(store[p], t)

\* One project of the list: its token is saved before its job exists.
Visit(p) ==
    LET t     == Instants[source.now]
        token == TokenAt(t, store[p].selector.bucket)
        due   == Due(p, t)
    IN  /\ source.pc = "visit" /\ p \in source.left
        /\ \E o \in {"done", "nothing", "unsure"} :
              /\ IF due THEN Fine(o) ELSE o = "done" /\ UNCHANGED count
              /\ store' = IF due /\ Reached(o) THEN [store EXCEPT ![p].token = token] ELSE store
              /\ source' = [source EXCEPT !.left = @ \ {p},
                       !.batch = IF due /\ o = "done"
                                 THEN Append(@, [project |-> p, token |-> token,
                                                 selector |-> store[p].selector]) ELSE @]
        /\ UNCHANGED <<runs, paused, clock, mu, ready, inflight, worker, history>>

Listed ==
    /\ source.pc = "visit" /\ source.left = {}
    /\ mu' = Released
    /\ source' = IF source.batch = <<>> THEN IdleSource ELSE [source EXCEPT !.pc = "enqueue"]
    /\ UNCHANGED <<store, runs, paused, clock, ready, inflight, worker, history, count>>

TickTime == Instants[source.now]
\* randomNotBefore: any instant from the tick's to the end of its occurrence.
Starts(selector, t) ==
    {i \in DOMAIN Instants : Instants[i] >= t /\ Instants[i] < BucketWindow(selector, t)[2]}

EnqueueOne ==
    /\ source.pc = "enqueue"
    /\ source' = IF Tail(source.batch) = <<>> THEN IdleSource ELSE [source EXCEPT !.batch = Tail(@)]
    /\ LET e == Head(source.batch) IN
       \/ /\ Mishap /\ UNCHANGED <<ready, handed>>
       \/ \E i \in Starts(e.selector, TickTime) :
             /\ ready' = [ready EXCEPT !["scheduled"] = Append(@,
                   [project |-> e.project, manual |-> FALSE, token |-> e.token,
                    notBefore |-> i, attempts |-> 0])]
             /\ handed' = [handed EXCEPT ![e.project][e.token] = @ + 1]
             /\ UNCHANGED count
    /\ UNCHANGED <<store, runs, paused, clock, mu, inflight, worker, accepted, edits, born, torn>>

-----------------------------------------------------------------------------
(* The worker                                                                   *)

\* Interactive jobs first; a job whose time has not come goes to the list's end.
Acquire ==
    LET key == IF ready["interactive"] # <<>> THEN "interactive" ELSE "scheduled"
        job == Head(ready[key])
    IN  /\ worker.pc = "idle" /\ ready[key] # <<>>
        /\ IF clock < job.notBefore
           THEN /\ ready' = [ready EXCEPT ![key] = Append(Tail(@), job)]
                /\ UNCHANGED <<inflight, worker>>
           ELSE /\ ready' = [ready EXCEPT ![key] = Tail(@)]
                /\ inflight' = job
                /\ worker' = [IdleWorker EXCEPT !.pc = "get"]
        /\ UNCHANGED <<store, runs, paused, clock, mu, source, history, count>>

\* Execute looks the project up and takes its task.
Begin ==
    /\ worker.pc = "get"
    /\ \/ /\ Exists(inflight.project) /\ store[inflight.project].task # NoTask
          /\ worker' = [worker EXCEPT !.pc = "run"]
          /\ UNCHANGED count
       \/ /\ ~(Exists(inflight.project) /\ store[inflight.project].task # NoTask)
          /\ worker' = [worker EXCEPT !.pc = "end", !.failed = TRUE]
          /\ UNCHANGED count
       \/ /\ Mishap /\ worker' = [worker EXCEPT !.pc = "end", !.failed = TRUE]
    /\ UNCHANGED <<store, runs, paused, clock, mu, source, ready, inflight, history>>

\* The agent's turn ends, well or not.
RunTask ==
    /\ worker.pc = "run"
    /\ \E ok \in BOOLEAN :
          /\ worker.cancelled => ~ok
          /\ worker' = [worker EXCEPT !.pc = "record", !.failed = ~ok]
    /\ UNCHANGED <<store, runs, paused, clock, mu, source, ready, inflight, history, count>>

\* Under the mutex: the record as it is now, then LPUSH of the summary.
\* Mutant: the executor records its run without taking the mutex.
Taken_Not == "free"
Taken == "worker"
Recordable(p) == Exists(p)
\* Mutant: a failing write of the summary does not fail the job.
Failed_Ignored(w, o) == w.failed
Failed(w, o) == w.failed \/ o # "done"
Record ==
    LET p == inflight.project IN
    /\ worker.pc = "record" /\ mu = "free"
    /\ \/ /\ Recordable(p)
          /\ \E o \in {"done", "nothing", "unsure"} :
                /\ Fine(o)
                /\ runs' = IF Reached(o) THEN [runs EXCEPT ![p] = @ + 1] ELSE runs
                /\ worker' = [worker EXCEPT !.pc = "trim", !.current = store[p],
                                            !.recorded = Reached(o), !.failed = Failed(worker, o)]
          /\ mu' = Taken
       \/ /\ ~Recordable(p)
          /\ worker' = [worker EXCEPT !.pc = "end"]
          /\ UNCHANGED <<runs, mu, count>>
       \/ /\ Mishap                      \* the HGET failed
          /\ worker' = [worker EXCEPT !.pc = "end", !.failed = TRUE]
          /\ UNCHANGED <<runs, mu>>
    /\ UNCHANGED <<store, paused, clock, source, ready, inflight, accepted, handed, edits, born, torn>>

Kept(n) == Min({n, RunsCap})
Trim ==
    /\ worker.pc = "trim"
    /\ \E o \in {"done", "nothing"} :
          /\ Fine(o)
          /\ runs' = IF Reached(o) THEN [runs EXCEPT ![inflight.project] = Kept(@)] ELSE runs
          /\ worker' = [worker EXCEPT !.pc = "save", !.failed = Failed(worker, o)]
    /\ UNCHANGED <<store, paused, clock, mu, source, ready, inflight, history>>

\* LastRunTs goes into the record read under the mutex.
SaveRun ==
    /\ worker.pc = "save"
    /\ \E o \in {"done", "nothing", "unsure"} :
          /\ Fine(o)
          /\ store' = IF Reached(o) THEN [store EXCEPT ![inflight.project] = worker.current] ELSE store
          /\ worker' = [worker EXCEPT !.pc = "end", !.failed = Failed(worker, o)]
    /\ mu' = "free"
    /\ UNCHANGED <<runs, paused, clock, source, ready, inflight, history>>

Key(job) == IF job.manual THEN "interactive" ELSE "scheduled"
\* nack: MaxRetries is 1, the second failure is final.
\* Mutant: attempts are not counted.
GiveBack_Always(job) == [ready EXCEPT ![Key(job)] = Append(@, job)]
GiveBack(job) ==
    IF job.attempts = 0 THEN [ready EXCEPT ![Key(job)] = Append(@, [job EXCEPT !.attempts = 1])] ELSE ready

\* runOne: a cancelled job is acknowledged whatever came of it, a failed one
\* given back, any other one acknowledged as done.
End ==
    /\ worker.pc = "end"
    /\ ready' = IF worker.failed /\ ~worker.cancelled THEN GiveBack(inflight) ELSE ready
    /\ inflight' = NoJob /\ worker' = IdleWorker
    /\ UNCHANGED <<store, runs, paused, clock, mu, source, accepted, handed, edits, born, torn, count>>

\* The owner's page goes away (manual jobs) or someone cancels everything.  Only
\* the turn and the final acknowledgement look at the cancelled context.
Cancel(all) ==
    /\ ready' = [k \in DOMAIN ready |-> IF all \/ k = "interactive" THEN <<>> ELSE ready[k]]
    /\ worker' = IF worker.pc \in {"run", "end"} /\ (all \/ inflight.manual)
                 THEN [worker EXCEPT !.cancelled = TRUE] ELSE worker
    /\ UNCHANGED <<store, runs, paused, clock, mu, source, inflight, history, count>>

-----------------------------------------------------------------------------
(* The environment                                                              *)

Wait ==
    /\ clock < Len(Instants) /\ clock' = clock + 1
    /\ UNCHANGED <<store, runs, paused, mu, source, ready, inflight, worker, history, count>>

\* The process dies and a new one starts: recoverInflight gives the job back.
Crash ==
    /\ Mishap
    /\ mu' = "free" /\ source' = IdleSource /\ worker' = IdleWorker
    /\ ready' = IF inflight = NoJob THEN ready ELSE GiveBack(inflight)
    /\ inflight' = NoJob
    /\ UNCHANGED <<store, runs, paused, clock, history>>

SourceStep == Tick \/ List \/ (\E p \in Ids : Visit(p)) \/ Listed \/ EnqueueOne
WorkerStep == Acquire \/ Begin \/ RunTask \/ Record \/ Trim \/ SaveRun \/ End
Next ==
    \/ \E p \in Ids : Create(p) \/ Delete(p) \/ RunNow(p) \/ \E new \in Fields \cup Combined : Update(p, new)
    \/ \E flag \in BOOLEAN : SetSchedulerPaused(flag)
    \/ SourceStep \/ WorkerStep
    \/ \E all \in BOOLEAN : Cancel(all)
    \/ Wait \/ Crash

Spec == Init /\ [][Next]_vars
\* Both goroutines keep running, calls and turns end, time passes, and the
\* mutex, which no one holds for long, is not kept from the worker for ever.
FairSpec == Spec /\ WF_vars(SourceStep) /\ WF_vars(WorkerStep) /\ WF_vars(Wait) /\ SF_vars(Record)

-----------------------------------------------------------------------------
(* Properties                                                                   *)

AllJobs == ToSet(ready["interactive"]) \cup ToSet(ready["scheduled"])
           \cup (IF inflight = NoJob THEN {} ELSE {inflight})

Jobs == [project : Ids, manual : BOOLEAN, token : Tokens, notBefore : Nat, attempts : 0..1]
\* Every variable keeps its type, and a runs list never outgrows its limit by
\* more than the one summary pushed before the LTRIM.
TypeOK ==
    /\ store \in [Ids -> Records \cup {NoProject}]
    /\ \A p \in Ids : runs[p] \in 0..RunsCap + 1 + MaxMishaps
    /\ paused \in BOOLEAN /\ clock \in DOMAIN Instants
    /\ mu \in {"free", "source", "worker"}
    /\ source.pc \in {"idle", "ask", "visit", "enqueue"} /\ source.left \subseteq Ids
    /\ mu = "source" <=> source.pc = "visit"
    /\ worker.pc \in {"idle", "get", "run", "record", "trim", "save", "end"}
    /\ mu = "worker" <=> worker.pc \in {"trim", "save"}
    /\ worker.pc = "idle" <=> inflight = NoJob
    /\ AllJobs \subseteq Jobs

\* What the pages last set survives scheduling and runs, and a deleted project
\* stays deleted: source and executor write whole records, yet only ones they
\* read under the mutex (projects.go save).  No record the scheduler could use
\* has an empty task, and run summaries belong to a project, unless its
\* deletion stopped half-way.
EditsSurvive ==
    /\ TypeOK
    /\ \A p \in Ids : /\ Settings(store[p]) = accepted[p]
                      /\ Exists(p) => Acceptable(store[p])
                      /\ runs[p] > 0 => Exists(p) \/ p \in torn

\* The day a token names and the hours of its part of the day.
Inside(token, t) ==
    /\ TokenAt(t, token[2]) = token
    /\ BucketHours[token[2]][1] <= Hour(t) /\ Hour(t) < BucketHours[token[2]][2]

\* A part of a day is handed to the queue once, whatever dies or fails in
\* between; each change of the selector may repeat one.  The instant before
\* which a job must not start lies on the day and within the hours of the
\* occurrence it was made for, also when the tick that made it was slow and the
\* next part of the day had begun.  (When a busy worker gets to it is another
\* matter: nothing in manager.go keeps a late start inside the hours.)
OncePerOccurrence ==
    /\ \A p \in Ids, k \in Tokens : handed[p][k] <= 1 + edits[p]
    /\ \A job \in AllJobs : job.manual \/ Inside(job.token, Instants[job.notBefore])

\* Nothing erases or turns back the mark of the last occurrence handed over,
\* and a job acknowledged as successful has its summary written, unless its
\* project was deleted meanwhile: a failing LPUSH makes the job fail.
RecordsStand ==
    [][ /\ \A p \in Ids : Exists(p) /\ store'[p] # NoProject => store'[p].token[1] >= store[p].token[1]
        /\ worker.pc = "end" /\ worker'.pc = "idle" /\ ~worker.failed /\ ~worker.cancelled
              => worker.recorded \/ ~Exists(inflight.project) ]_vars

\* A project that is due does not stay due while the scheduler is not paused.
NeverStaysDue == \A p \in Ids : []<>(paused \/ ~Due(p, Now))
\* Every job is eventually run to an end, retried and given up, or cancelled.
QueueDrains == []<>(AllJobs = {})
=============================================================================
