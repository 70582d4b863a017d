--------------------------- MODULE ProjectsProofs ---------------------------
(***************************************************************************)
(* For any set of projects, selectors and instants, any number of edits,   *)
(* runs and mishaps: what the pages set is what is stored, although the    *)
(* scheduler and the worker write whole records; an occurrence of a        *)
(* project is handed to the queue at most once for each setting of its     *)
(* selector, and a delayed start stays inside it; and marks never turn     *)
(* back, while a job that succeeded has its summary.                       *)
(***************************************************************************)
EXTENDS Projects, SequenceTheorems, FiniteSetTheorems, TLAPS

-----------------------------------------------------------------------------
(* The inductive invariant.                                                *)

Batches == Seq([project : Ids, token : Tokens, selector : Offered])
Sources == [pc : {"idle", "ask", "visit", "enqueue"}, now : DOMAIN Instants,
            left : SUBSET Ids, batch : Batches]
Workers == [pc : {"idle", "get", "run", "record", "trim", "save", "end"},
            failed : BOOLEAN, cancelled : BOOLEAN, recorded : BOOLEAN,
            current : Records \cup {NoProject}]
Counts == [edits : Nat, manual : Nat, mishaps : 0..MaxMishaps]

ValuesInv ==
    /\ store \in [Ids -> Records \cup {NoProject}] /\ runs \in [Ids -> Nat]
    /\ paused \in BOOLEAN /\ clock \in DOMAIN Instants
    /\ mu \in {"free", "source", "worker"}
    /\ source \in Sources /\ worker \in Workers /\ count \in Counts
    /\ ready \in [{"interactive", "scheduled"} -> Seq(Jobs)]
    /\ inflight \in Jobs \cup {NoJob}

\* Whoever is between two commands on the records holds the mutex.
HolderInv ==
    /\ mu = "source" <=> source.pc = "visit"
    /\ mu = "worker" <=> worker.pc \in {"trim", "save"}
    /\ worker.pc = "idle" <=> inflight = NoJob
    /\ source.pc = "enqueue" => source.batch # <<>>

\* The record the worker is about to write is the one that is stored.
CurrentInv ==
    worker.pc \in {"trim", "save"} =>
        Exists(inflight.project) /\ worker.current = store[inflight.project]

SettingsInv ==
    /\ accepted = [p \in Ids |-> Settings(store[p])]
    /\ \A p \in Ids : Exists(p) => Acceptable(store[p])

\* Every summary beyond the cap stands for a mishap or for the push just made.
Untrimmed(p) == IF worker.pc = "trim" /\ inflight.project = p THEN 1 ELSE 0
RunsInv ==
    \A p \in Ids : /\ runs[p] <= RunsCap + count.mishaps + Untrimmed(p)
                   /\ runs[p] > 0 => Exists(p) \/ p \in torn

Inv == ValuesInv /\ HolderInv /\ CurrentInv /\ SettingsInv /\ RunsInv

-----------------------------------------------------------------------------
(* Operators.                                                              *)

\* An update gives a record again, with the mark of the old one.
LEMMA MergeType ==
    ASSUME NEW r \in Records, NEW new, Request(new)
    PROVE  Merge(r, new) \in Records
<1> DEFINE m == Merge(r, new)
           F == {"task", "selector", "enabled", "token"}
<1>1. DOMAIN r = F /\ r["task"] \in Tasks \cup {NoTask} /\ r["selector"] \in Offered
      /\ r["enabled"] \in BOOLEAN /\ r["token"] \in Tokens
  BY DEF Records
<1>2. m = [f \in F |-> IF f \in DOMAIN new THEN new[f] ELSE r[f]]
  BY <1>1 DEF Merge, Request
<1> HIDE DEF m
<1>3. DOMAIN m = F /\ m["task"] \in Tasks \cup {NoTask} /\ m["selector"] \in Offered
      /\ m["enabled"] \in BOOLEAN /\ m["token"] \in Tokens
  BY <1>1, <1>2 DEF Request
<1>4. m = [task |-> m["task"], selector |-> m["selector"], enabled |-> m["enabled"], token |-> m["token"]]
  BY <1>2, <1>3
<1> QED
  BY <1>3, <1>4 DEF Records, m

\* Every request of a page carries fields of a record.
LEMMA FieldsAreRequests ==
    ASSUME NEW new \in Fields \cup Combined
    PROVE  Request(new)
<1>1. CASE new \in Combined
  BY <1>1, ValuesAssumption
<1>2. CASE new \in [task : Tasks \cup {NoTask}]
  BY <1>2 DEF Request
<1>3. CASE new \in [selector : Offered]
  BY <1>3 DEF Request
<1>4. CASE new \in [enabled : BOOLEAN]
  BY <1>4 DEF Request
<1> QED
  BY <1>1, <1>2, <1>3, <1>4 DEF Fields

\* What is kept of a runs list is not more than there was, nor than the cap.
LEMMA KeptBounds ==
    ASSUME NEW n \in Nat
    PROVE  Kept(n) \in Nat /\ Kept(n) <= n /\ Kept(n) <= RunsCap
<1> USE ProjectsAssumption
<1>1. \E x \in {n, RunsCap} : \A y \in {n, RunsCap} : x <= y
  <2>1. CASE n <= RunsCap
    BY <2>1
  <2>2. CASE ~(n <= RunsCap)
    BY <2>2
  <2> QED
    BY <2>1, <2>2
<1>2. Kept(n) \in {n, RunsCap} /\ \A y \in {n, RunsCap} : Kept(n) <= y
  BY <1>1 DEF Kept, Min
<1> QED
  BY <1>2

\* A part of the day at an instant of the run is named by a token.
LEMMA TokenType ==
    ASSUME NEW i \in DOMAIN Instants, NEW s \in Offered
    PROVE  TokenAt(Instants[i], s.bucket) \in Tokens /\ NoToken \in Tokens
BY DEF Tokens

\* A job that was given back once differs from a job in its attempts alone.
LEMMA AttemptedType ==
    ASSUME NEW job \in Jobs
    PROVE  [job EXCEPT !.attempts = 1] \in Jobs
<1>1. /\ job = [project |-> job.project, manual |-> job.manual, token |-> job.token,
                notBefore |-> job.notBefore, attempts |-> job.attempts]
      /\ job.project \in Ids /\ job.manual \in BOOLEAN /\ job.token \in Tokens
      /\ job.notBefore \in Nat
  BY DEF Jobs
<1>2. [job EXCEPT !.attempts = 1]
          = [project |-> job.project, manual |-> job.manual, token |-> job.token,
             notBefore |-> job.notBefore, attempts |-> 1]
  BY <1>1
<1>3. 1 \in 0..1
  OBVIOUS
<1> QED
  BY <1>1, <1>2, <1>3 DEF Jobs

\* A job given back is queued once more, as a job.
LEMMA GiveBackType ==
    ASSUME NEW job \in Jobs, ready \in [{"interactive", "scheduled"} -> Seq(Jobs)]
    PROVE  GiveBack(job) \in [{"interactive", "scheduled"} -> Seq(Jobs)]
<1>1. Key(job) \in {"interactive", "scheduled"}
  BY DEF Key
<1>2. [job EXCEPT !.attempts = 1] \in Jobs
  BY AttemptedType
<1>3. Append(ready[Key(job)], [job EXCEPT !.attempts = 1]) \in Seq(Jobs)
  BY <1>1, <1>2, AppendProperties
<1> QED
  BY <1>1, <1>3 DEF GiveBack

-----------------------------------------------------------------------------
(* Steps that write no record and no summary.                              *)

LEMMA RecordsUntouched ==
    ASSUME Inv, UNCHANGED <<store, runs, accepted, torn>>, ValuesInv',
           \A p \in Ids : count.mishaps + Untrimmed(p) <= count'.mishaps + Untrimmed(p)'
    PROVE  SettingsInv' /\ RunsInv'
<1> USE DEF Inv
<1>1. SettingsInv'
  BY DEF SettingsInv, Exists
<1>2. ASSUME NEW p \in Ids
      PROVE  /\ runs'[p] <= RunsCap + count'.mishaps + Untrimmed(p)'
             /\ runs'[p] > 0 => Exists(p)' \/ p \in torn'
  <2>1. /\ count.mishaps \in Nat /\ count'.mishaps \in Nat /\ runs[p] \in Nat /\ RunsCap \in Nat
        /\ Untrimmed(p) \in {0, 1} /\ Untrimmed(p)' \in {0, 1}
    BY ProjectsAssumption DEF ValuesInv, Counts, Untrimmed
  <2>2. runs[p] <= RunsCap + count.mishaps + Untrimmed(p)
    BY DEF RunsInv
  <2>3. runs'[p] <= RunsCap + count'.mishaps + Untrimmed(p)'
    <3>1. runs'[p] = runs[p] /\ count.mishaps + Untrimmed(p) <= count'.mishaps + Untrimmed(p)'
      OBVIOUS
    <3> HIDE DEF Untrimmed
    <3> QED
      BY ONLY <2>1, <2>2, <3>1
  <2> QED
    BY <2>3 DEF RunsInv, Exists
<1> QED
  BY <1>1, <1>2 DEF RunsInv

\* What a mishap does to the budget.
LEMMA MishapCounts ==
    ASSUME count \in Counts, Mishap
    PROVE  count' \in Counts /\ count'.mishaps = count.mishaps + 1 /\ count.mishaps \in Nat
<1>1. MaxMishaps \in Nat
  BY ProjectsAssumption
<1>2. count.mishaps \in 0..MaxMishaps /\ count.mishaps < MaxMishaps
  BY DEF Mishap, Counts
<1>3. count.mishaps + 1 \in 0..MaxMishaps
  BY <1>1, <1>2
<1>4. count' = [count EXCEPT !.mishaps = @ + 1]
  BY DEF Mishap
<1>5. count' \in Counts /\ count'.mishaps = count.mishaps + 1
  BY <1>3, <1>4 DEF Counts
<1> QED
  BY <1>2, <1>5

\* Steps of the pages and the clock that leave both goroutines where they are.
LEMMA AsideKeepsInv ==
    ASSUME Inv, UNCHANGED <<store, runs, accepted, torn, mu, source, worker, inflight>>, ValuesInv',
           count'.mishaps = count.mishaps
    PROVE  Inv'
<1> USE DEF Inv
<1>1. HolderInv' /\ CurrentInv'
  BY DEF HolderInv, CurrentInv, Exists
<1>2. \A p \in Ids : Untrimmed(p)' = Untrimmed(p)
  BY DEF Untrimmed
<1>3. \A p \in Ids : count.mishaps + Untrimmed(p) <= count'.mishaps + Untrimmed(p)'
  <2>1. \A p \in Ids : Untrimmed(p) \in {0, 1}
    BY DEF Untrimmed
  <2> QED
    BY <1>2, <2>1 DEF ValuesInv, Counts
<1> QED
  BY <1>1, <1>3, RecordsUntouched

LEMMA RunNowKeepsInv ==
    ASSUME Inv, NEW p \in Ids, RunNow(p)
    PROVE  Inv'
<1> DEFINE job == [project |-> p, manual |-> TRUE, token |-> NoToken, notBefore |-> 0, attempts |-> 0]
<1>1. job \in Jobs
  BY DEF Jobs, Tokens
<1> HIDE DEF job
<1>2. ready["interactive"] \in Seq(Jobs) /\ Append(ready["interactive"], job) \in Seq(Jobs)
  BY <1>1, AppendProperties DEF Inv, ValuesInv
<1>3. ready' = [ready EXCEPT !["interactive"] = Append(@, job)]
  BY DEF RunNow, job
<1>4. count' = [count EXCEPT !.manual = @ + 1]
  BY DEF RunNow
<1>5. count' \in Counts /\ count'.mishaps = count.mishaps
  <2>1. count \in Counts /\ count.manual + 1 \in Nat
    BY DEF Inv, ValuesInv, Counts
  <2> QED
    BY <1>4, <2>1 DEF Counts
<1>6. ready' \in [{"interactive", "scheduled"} -> Seq(Jobs)]
  BY <1>2, <1>3 DEF Inv, ValuesInv
<1>7. ValuesInv'
  BY <1>5, <1>6 DEF RunNow, Inv, ValuesInv, history
<1> QED
  BY <1>5, <1>7, AsideKeepsInv DEF RunNow, history

LEMMA PauseKeepsInv ==
    ASSUME Inv, NEW flag \in BOOLEAN, SetSchedulerPaused(flag)
    PROVE  Inv'
<1>1. ValuesInv'
  BY DEF SetSchedulerPaused, Inv, ValuesInv
<1> QED
  BY <1>1, AsideKeepsInv DEF SetSchedulerPaused, history

LEMMA WaitKeepsInv ==
    ASSUME Inv, Wait
    PROVE  Inv'
<1>1. clock' \in DOMAIN Instants
  <2>1. DOMAIN Instants = 1..Len(Instants) /\ Len(Instants) \in Nat
    BY ProjectsAssumption, LenProperties
  <2> QED
    BY <2>1 DEF Wait, Inv, ValuesInv
<1>2. ValuesInv'
  BY <1>1 DEF Wait, Inv, ValuesInv
<1> QED
  BY <1>2, AsideKeepsInv DEF Wait, history
-----------------------------------------------------------------------------
(* The pages' requests on the records.                                     *)

\* A command that went wrong is a mishap, another costs nothing.
LEMMA FineCounts ==
    ASSUME count \in Counts, NEW o, Fine(o)
    PROVE  count' \in Counts /\ count'.mishaps >= count.mishaps /\ count.mishaps \in Nat
<1>1. count.mishaps \in Nat
  BY DEF Counts
<1>2. CASE o = "done"
  BY <1>1, <1>2 DEF Fine
<1>3. CASE o # "done"
  <2>1. Mishap
    BY <1>3 DEF Fine
  <2>2. count' \in Counts /\ count'.mishaps = count.mishaps + 1
    BY <2>1, MishapCounts
  <2> QED
    BY <1>1, <2>2
<1> QED
  BY <1>2, <1>3

\* A request on the record of one project, made while nobody holds the mutex.
LEMMA RequestKeepsInv ==
    ASSUME Inv, mu = "free", NEW p \in Ids,
           UNCHANGED <<paused, clock, mu, source, ready, inflight, worker>>,
           NEW r \in Records \cup {NoProject}, store' = [store EXCEPT ![p] = r],
           r # NoProject => Acceptable(r),
           accepted' = [accepted EXCEPT ![p] = Settings(store'[p])],
           runs' \in [Ids -> Nat], \A q \in Ids : runs'[q] <= runs[q],
           torn \subseteq torn', runs'[p] > 0 /\ Exists(p) => r # NoProject \/ p \in torn',
           count' \in Counts, count'.mishaps >= count.mishaps
    PROVE  Inv'
<1> USE DEF Inv
<1>1. ValuesInv'
  BY DEF ValuesInv
<1>2. worker.pc \notin {"trim", "save"}
  BY DEF HolderInv
<1>3. HolderInv' /\ CurrentInv'
  BY <1>2 DEF HolderInv, CurrentInv
<1>4. \A q \in Ids : store'[q] = IF q = p THEN r ELSE store[q]
  BY DEF ValuesInv
<1>5. SettingsInv'
  <2>1. accepted' = [q \in Ids |-> Settings(store'[q])]
    BY <1>4 DEF SettingsInv
  <2>2. \A q \in Ids : store'[q] # NoProject => Acceptable(store'[q])
    BY <1>4 DEF SettingsInv, Exists
  <2> QED
    BY <2>1, <2>2 DEF SettingsInv, Exists
<1>6. ASSUME NEW q \in Ids
      PROVE  /\ runs'[q] <= RunsCap + count'.mishaps + Untrimmed(q)'
             /\ runs'[q] > 0 => Exists(q)' \/ q \in torn'
  <2>1. Untrimmed(q) = 0 /\ Untrimmed(q)' = 0
    BY <1>2 DEF Untrimmed
  <2>2. /\ runs[q] \in Nat /\ runs'[q] \in Nat /\ runs'[q] <= runs[q] /\ RunsCap \in Nat
        /\ count.mishaps \in Nat /\ count'.mishaps \in Nat
    <3>1. runs[q] \in Nat /\ runs'[q] \in Nat /\ runs'[q] <= runs[q] /\ RunsCap \in Nat
      BY ProjectsAssumption DEF ValuesInv
    <3>2. count \in Counts /\ count' \in Counts
      BY DEF ValuesInv
    <3>3. count.mishaps \in Nat /\ count'.mishaps \in Nat
      BY ONLY <3>2 DEF Counts
    <3> QED
      BY <3>1, <3>3
  <2>3. runs[q] <= RunsCap + count.mishaps + 0
    BY <2>1 DEF RunsInv
  <2>4. runs'[q] <= RunsCap + count'.mishaps + 0
    BY ONLY <2>2, <2>3, count'.mishaps >= count.mishaps
  <2>5. runs'[q] > 0 => runs[q] > 0
    BY ONLY <2>2
  <2>6. runs'[q] > 0 => Exists(q) \/ q \in torn'
    BY <2>5 DEF RunsInv
  <2>7. runs'[q] > 0 => Exists(q)' \/ q \in torn'
    BY <1>4, <2>6 DEF Exists
  <2> QED
    BY <2>1, <2>4, <2>7
<1> QED
  BY <1>1, <1>3, <1>5, <1>6 DEF RunsInv

LEMMA CreateKeepsInv ==
    ASSUME Inv, NEW p \in Ids, Create(p)
    PROVE  Inv'
<1> USE DEF Inv
<1> DEFINE new == [task |-> NoTask, selector |-> DefaultSelector, enabled |-> FALSE, token |-> NoToken]
<1>1. new \in Records /\ Acceptable(new)
  BY ProjectsAssumption DEF Records, Tokens, Acceptable
<1> HIDE DEF new
<1>2. PICK o \in {"done", "nothing", "unsure"} :
         Fine(o) /\ store' = IF Reached(o) THEN [store EXCEPT ![p] = new] ELSE store
  BY DEF Create, new
<1>3. count' \in Counts /\ count'.mishaps >= count.mishaps
  BY <1>2, FineCounts DEF ValuesInv
<1> DEFINE r == IF Reached(o) THEN new ELSE store[p]
<1>4. r \in Records \cup {NoProject} /\ (r # NoProject => Acceptable(r))
  BY <1>1 DEF ValuesInv, SettingsInv, Exists
<1>5. store' = [store EXCEPT ![p] = r]
  BY <1>2 DEF ValuesInv
<1>6. Exists(p) => r # NoProject
  BY <1>1, ValuesAssumption DEF Exists
<1>7. \A q \in Ids : runs'[q] <= runs[q]
  BY DEF Create, ValuesInv
<1> HIDE DEF r
<1>8. /\ mu = "free" /\ UNCHANGED <<paused, clock, mu, source, ready, inflight, worker, runs, torn>>
      /\ accepted' = [accepted EXCEPT ![p] = Settings(store'[p])]
  BY DEF Create
<1>9. runs' \in [Ids -> Nat]
  BY <1>8 DEF ValuesInv
<1> QED
  BY <1>3, <1>4, <1>5, <1>6, <1>7, <1>8, <1>9, RequestKeepsInv

LEMMA UpdateKeepsInv ==
    ASSUME Inv, NEW p \in Ids, NEW new \in Fields \cup Combined, Update(p, new)
    PROVE  Inv'
<1> USE DEF Inv
<1>1. store[p] \in Records /\ Merge(store[p], new) \in Records /\ Acceptable(Merge(store[p], new))
  BY FieldsAreRequests, MergeType DEF Update, Exists, Accepts, ValuesInv
<1>2. PICK o \in {"done", "nothing", "unsure"} :
         /\ o # "done" => count.mishaps < MaxMishaps
         /\ count' = [count EXCEPT !.edits = @ + 1, !.mishaps = IF o = "done" THEN @ ELSE @ + 1]
         /\ store' = IF Reached(o) THEN [store EXCEPT ![p] = Merge(@, new)] ELSE store
  BY DEF Update
<1>3. count' \in Counts /\ count'.mishaps >= count.mishaps
  <2>1. /\ count \in Counts /\ count.edits + 1 \in Nat /\ MaxMishaps \in Nat
        /\ count.mishaps \in 0..MaxMishaps
    BY ProjectsAssumption DEF ValuesInv, Counts
  <2> DEFINE m == IF o = "done" THEN count.mishaps ELSE count.mishaps + 1
  <2>2. m \in 0..MaxMishaps /\ m >= count.mishaps
    BY <1>2, <2>1
  <2>3. count' = [count EXCEPT !.edits = count.edits + 1, !.mishaps = m]
    BY <1>2, <2>1 DEF Counts
  <2> HIDE DEF m
  <2> QED
    BY <2>1, <2>2, <2>3 DEF Counts
<1> DEFINE r == IF Reached(o) THEN Merge(store[p], new) ELSE store[p]
<1>4. r \in Records \cup {NoProject} /\ (r # NoProject => Acceptable(r))
  BY <1>1 DEF ValuesInv, SettingsInv, Exists
<1>5. store' = [store EXCEPT ![p] = r]
  BY <1>2 DEF ValuesInv
<1>6. r # NoProject
  BY <1>1, ValuesAssumption
<1>7. \A q \in Ids : runs'[q] <= runs[q]
  BY DEF Update, ValuesInv
<1> HIDE DEF r
<1>8. /\ mu = "free" /\ UNCHANGED <<paused, clock, mu, source, ready, inflight, worker, runs, torn>>
      /\ accepted' = [accepted EXCEPT ![p] = Settings(store'[p])]
  BY DEF Update
<1>9. runs' \in [Ids -> Nat]
  BY <1>8 DEF ValuesInv
<1> QED
  BY <1>3, <1>4, <1>5, <1>6, <1>7, <1>8, <1>9, RequestKeepsInv

LEMMA DeleteKeepsInv ==
    ASSUME Inv, NEW p \in Ids, Delete(p)
    PROVE  Inv'
<1> USE DEF Inv
<1>1. PICK o \in {"done", "nothing", "half"} :
         /\ Fine(o)
         /\ store' = IF Reached(o) THEN [store EXCEPT ![p] = NoProject] ELSE store
         /\ runs' = IF o = "done" THEN [runs EXCEPT ![p] = 0] ELSE runs
         /\ torn' = IF o = "half" THEN torn \cup {p} ELSE torn
  BY DEF Delete
<1>2. count' \in Counts /\ count'.mishaps >= count.mishaps
  BY <1>1, FineCounts DEF ValuesInv
<1> DEFINE r == IF Reached(o) THEN NoProject ELSE store[p]
<1>3. r \in Records \cup {NoProject} /\ (r # NoProject => Acceptable(r))
  BY DEF ValuesInv, SettingsInv, Exists
<1>4. store' = [store EXCEPT ![p] = r]
  BY <1>1 DEF ValuesInv
<1>5. runs' \in [Ids -> Nat] /\ (\A q \in Ids : runs'[q] <= runs[q]) /\ torn \subseteq torn'
  BY <1>1 DEF ValuesInv
<1>6. runs'[p] > 0 /\ Exists(p) => r # NoProject \/ p \in torn'
  BY <1>1 DEF Exists, Reached, ValuesInv
<1> HIDE DEF r
<1>7. /\ mu = "free" /\ UNCHANGED <<paused, clock, mu, source, ready, inflight, worker>>
      /\ accepted' = [accepted EXCEPT ![p] = Settings(store'[p])]
  BY DEF Delete
<1> QED
  BY <1>2, <1>3, <1>4, <1>5, <1>6, <1>7, RequestKeepsInv
-----------------------------------------------------------------------------
(* The scheduler's goroutine.                                              *)

\* A step of it that writes no record, outside the worker's critical section.
LEMMA SourceKeepsInv ==
    ASSUME Inv, UNCHANGED <<store, runs, accepted, torn, paused, clock, inflight, worker>>,
           source' \in Sources, ready' \in [{"interactive", "scheduled"} -> Seq(Jobs)],
           count' \in Counts, count'.mishaps >= count.mishaps,
           mu' \in {"free", "source", "worker"},
           mu' = "source" <=> source'.pc = "visit", mu' = "worker" <=> mu = "worker",
           source'.pc = "enqueue" => source'.batch # <<>>
    PROVE  Inv'
<1> USE DEF Inv
<1>1. ValuesInv'
  BY DEF ValuesInv
<1>2. HolderInv' /\ CurrentInv'
  BY DEF HolderInv, CurrentInv, Exists
<1>3. \A p \in Ids : count.mishaps + Untrimmed(p) <= count'.mishaps + Untrimmed(p)'
  <2>1. count \in Counts
    BY DEF ValuesInv
  <2>2. count.mishaps \in Nat /\ count'.mishaps \in Nat
    BY <2>1 DEF Counts
  <2>3. \A p \in Ids : Untrimmed(p) \in {0, 1} /\ Untrimmed(p)' = Untrimmed(p)
    BY DEF Untrimmed
  <2> QED
    BY <2>2, <2>3
<1> QED
  BY <1>1, <1>2, <1>3, RecordsUntouched

\* The scheduler's goroutine when it has nothing to do.
LEMMA IdleSourceType == IdleSource \in Sources
<1>1. 1 \in DOMAIN Instants
  <2>1. DOMAIN Instants = 1..Len(Instants) /\ Len(Instants) \in Nat /\ Len(Instants) > 0
    BY ProjectsAssumption, LenProperties
  <2> QED
    BY <2>1
<1> QED
  BY <1>1 DEF IdleSource, Sources, Batches

LEMMA TickKeepsInv ==
    ASSUME Inv, Tick
    PROVE  Inv'
<1> USE DEF Inv
<1>1. source' \in Sources /\ source'.pc = "ask"
  BY IdleSourceType DEF Tick, ValuesInv, Sources
<1>2. count' \in Counts /\ count'.mishaps >= count.mishaps
  <2>1. count \in Counts /\ (Mishap \/ UNCHANGED count)
    BY DEF Tick, ValuesInv
  <2>2. CASE Mishap
    BY <2>1, <2>2, MishapCounts
  <2>3. CASE UNCHANGED count
    <3>1. count.mishaps \in Nat
      BY <2>1 DEF Counts
    <3> QED
      BY <2>1, <2>3, <3>1
  <2> QED
    BY <2>1, <2>2, <2>3
<1>3. mu # "source"
  BY DEF Tick, HolderInv
<1> QED
  BY <1>1, <1>2, <1>3, SourceKeepsInv DEF Tick, ValuesInv, history

LEMMA ListKeepsInv ==
    ASSUME Inv, List
    PROVE  Inv'
<1> USE DEF Inv
<1>1. source \in Sources /\ source.pc = "ask" /\ mu = "free" /\ count \in Counts /\ count.mishaps \in Nat
  BY DEF List, ValuesInv, Counts
<1>2. /\ ready' \in [{"interactive", "scheduled"} -> Seq(Jobs)]
      /\ UNCHANGED <<store, runs, accepted, torn, paused, clock, inflight, worker>>
  BY DEF List, ValuesInv, history
<1>3. CASE mu' = "source" /\ source' = [source EXCEPT !.pc = "visit", !.left = {p \in Ids : Exists(p)}]
           /\ UNCHANGED count
  <2>1. source' \in Sources /\ source'.pc = "visit"
    BY <1>1, <1>3 DEF Sources
  <2> QED
    BY <1>1, <1>2, <1>3, <2>1, SourceKeepsInv
<1>4. CASE Mishap /\ source' = IdleSource /\ UNCHANGED mu
  <2>1. source' \in Sources /\ source'.pc = "idle"
    BY <1>4, IdleSourceType DEF IdleSource
  <2>2. count' \in Counts /\ count'.mishaps >= count.mishaps
    BY <1>1, <1>4, MishapCounts
  <2> QED
    BY <1>1, <1>2, <1>4, <2>1, <2>2, SourceKeepsInv
<1> QED
  BY <1>3, <1>4 DEF List

LEMMA ListedKeepsInv ==
    ASSUME Inv, Listed
    PROVE  Inv'
<1> USE DEF Inv
<1>1. source \in Sources /\ source.pc = "visit" /\ mu = "source" /\ count \in Counts /\ count.mishaps \in Nat
  BY DEF Listed, ValuesInv, HolderInv, Counts
<1>2. /\ source' \in Sources /\ source'.pc # "visit" /\ mu' = "free"
      /\ source'.pc = "enqueue" => source'.batch # <<>>
  BY <1>1, IdleSourceType DEF Listed, Sources, IdleSource, Released
<1> QED
  BY <1>1, <1>2, SourceKeepsInv DEF Listed, ValuesInv, history

LEMMA EnqueueOneKeepsInv ==
    ASSUME Inv, EnqueueOne
    PROVE  Inv'
<1> USE DEF Inv
<1> DEFINE Batched == [project : Ids, token : Tokens, selector : Offered]
<1>1. /\ source \in Sources /\ source.pc = "enqueue" /\ source.batch \in Seq(Batched)
      /\ source.batch # <<>> /\ mu # "source" /\ mu \in {"free", "source", "worker"} /\ count \in Counts /\ count.mishaps \in Nat
  BY DEF EnqueueOne, ValuesInv, HolderInv, Sources, Batches, Counts
<1>2. UNCHANGED <<store, runs, accepted, torn, paused, clock, inflight, worker, mu>>
  BY DEF EnqueueOne
<1>3. /\ source' \in Sources /\ source'.pc # "visit"
      /\ source'.pc = "enqueue" => source'.batch # <<>>
  <2>1. CASE Tail(source.batch) = <<>>
    BY <2>1, IdleSourceType DEF EnqueueOne, IdleSource
  <2>2. CASE Tail(source.batch) # <<>>
    <3>1. source' = [source EXCEPT !.batch = Tail(source.batch)]
      BY <1>1, <2>2 DEF EnqueueOne, Sources
    <3>2. Tail(source.batch) \in Seq(Batched)
      BY <1>1, HeadTailProperties
    <3> QED
      BY <1>1, <2>2, <3>1, <3>2 DEF Sources, Batches
  <2> QED
    BY <2>1, <2>2
<1>4. CASE Mishap /\ UNCHANGED <<ready, handed>>
  <2>1. count' \in Counts /\ count'.mishaps >= count.mishaps
    BY <1>1, <1>4, MishapCounts
  <2>2. ready' \in [{"interactive", "scheduled"} -> Seq(Jobs)]
    BY <1>4 DEF ValuesInv
  <2> QED
    BY <1>1, <1>2, <1>3, <2>1, <2>2, SourceKeepsInv
<1>5. ASSUME NEW e, e = Head(source.batch), NEW i \in Starts(e.selector, TickTime),
             ready' = [ready EXCEPT !["scheduled"] = Append(@,
                [project |-> e.project, manual |-> FALSE, token |-> e.token,
                 notBefore |-> i, attempts |-> 0])],
             UNCHANGED count
      PROVE  Inv'
  <2> DEFINE job == [project |-> e.project, manual |-> FALSE, token |-> e.token,
                     notBefore |-> i, attempts |-> 0]
  <2>1. e \in Batched
    BY <1>1, <1>5, HeadTailProperties
  <2>2. i \in Nat
    BY ProjectsAssumption, LenProperties DEF Starts
  <2>3. job \in Jobs
    BY <2>1, <2>2 DEF Jobs
  <2> HIDE DEF job
  <2>4. ready["scheduled"] \in Seq(Jobs) /\ Append(ready["scheduled"], job) \in Seq(Jobs)
    BY <2>3, AppendProperties DEF ValuesInv
  <2>5. ready' = [ready EXCEPT !["scheduled"] = Append(@, job)]
    BY <1>5 DEF job
  <2>6. ready' \in [{"interactive", "scheduled"} -> Seq(Jobs)]
    BY <2>4, <2>5 DEF ValuesInv
  <2>7. count' \in Counts /\ count'.mishaps >= count.mishaps
    BY <1>1, <1>5
  <2> QED
    BY <1>1, <1>2, <1>3, <2>6, <2>7, SourceKeepsInv
<1> QED
  BY <1>4, <1>5 DEF EnqueueOne
\* The mark of the occurrence is written, the settings around it are those read.
LEMMA VisitKeepsInv ==
    ASSUME Inv, NEW p \in Ids, Visit(p)
    PROVE  Inv'
<1> USE DEF Inv
<1> DEFINE t     == Instants[source.now]
           token == TokenAt(t, store[p].selector.bucket)
           due   == Due(p, t)
           Batched == [project : Ids, token : Tokens, selector : Offered]
           entry == [project |-> p, token |-> token, selector |-> store[p].selector]
<1>1. /\ source \in Sources /\ source.pc = "visit" /\ source.now \in DOMAIN Instants
      /\ source.batch \in Seq(Batched) /\ mu = "source" /\ worker.pc \notin {"trim", "save"}
      /\ count \in Counts /\ count.mishaps \in Nat
  BY DEF Visit, ValuesInv, HolderInv, Sources, Batches, Counts
<1>2. PICK o \in {"done", "nothing", "unsure"} :
         /\ IF due THEN Fine(o) ELSE o = "done" /\ UNCHANGED count
         /\ store' = IF due /\ Reached(o) THEN [store EXCEPT ![p].token = token] ELSE store
         /\ source' = [source EXCEPT !.left = @ \ {p},
                  !.batch = IF due /\ o = "done" THEN Append(@, entry) ELSE @]
  BY DEF Visit
<1>3. UNCHANGED <<runs, paused, clock, mu, ready, inflight, worker, accepted, torn>>
  BY DEF Visit, history
<1>4. count' \in Counts /\ count'.mishaps >= count.mishaps
  BY <1>1, <1>2, FineCounts
<1>5. due => store[p] \in Records /\ token \in Tokens
  BY <1>1, TokenType DEF Due, Exists, ValuesInv, Records
<1> HIDE DEF token, due
<1>6. source' \in Sources /\ source'.pc = "visit"
  <2>1. due => entry \in Batched
    BY <1>5 DEF Records
  <2> HIDE DEF entry
  <2>2. due => Append(source.batch, entry) \in Seq(Batched)
    BY <1>1, <2>1, AppendProperties
  <2> DEFINE b == IF due /\ o = "done" THEN Append(source.batch, entry) ELSE source.batch
             l == source.left \ {p}
  <2>3. b \in Seq(Batched) /\ l \in SUBSET Ids
    BY <1>1, <2>2 DEF Sources
  <2>4. source' = [source EXCEPT !.left = l, !.batch = b]
    BY <1>1, <1>2 DEF Sources
  <2> HIDE DEF b, l
  <2> QED
    BY <1>1, <2>3, <2>4 DEF Sources, Batches
<1>7. \A q \in Ids : /\ store'[q] \in Records \cup {NoProject}
                     /\ Settings(store'[q]) = Settings(store[q])
                     /\ (store'[q] = NoProject) <=> (store[q] = NoProject)
                     /\ store'[q] # NoProject /\ Acceptable(store[q]) => Acceptable(store'[q])
  <2> SUFFICES ASSUME NEW q \in Ids
               PROVE  /\ store'[q] \in Records \cup {NoProject}
                      /\ Settings(store'[q]) = Settings(store[q])
                      /\ (store'[q] = NoProject) <=> (store[q] = NoProject)
                      /\ store'[q] # NoProject /\ Acceptable(store[q]) => Acceptable(store'[q])
    OBVIOUS
  <2>1. CASE due /\ q = p /\ Reached(o)
    <3>1. store'[q] = [store[p] EXCEPT !.token = token]
      BY <1>2, <2>1 DEF ValuesInv
    <3>2. /\ store'[q] \in Records /\ store'[q].task = store[p].task
          /\ store'[q].selector = store[p].selector /\ store'[q].enabled = store[p].enabled
      BY <1>5, <2>1, <3>1 DEF Records
    <3>3. store'[q] # NoProject /\ store[p] # NoProject
      BY <1>5, <2>1, <3>2, ValuesAssumption
    <3> QED
      BY <2>1, <3>2, <3>3 DEF Settings, Acceptable
  <2>2. CASE ~(due /\ q = p /\ Reached(o))
    <3>1. store'[q] = store[q]
      BY <1>2, <2>2 DEF ValuesInv
    <3> QED
      BY <3>1 DEF ValuesInv
  <2> QED
    BY <2>1, <2>2
<1>8. store' \in [Ids -> Records \cup {NoProject}]
  <2>1. DOMAIN store' = Ids /\ store' = [q \in Ids |-> store'[q]]
    BY <1>2 DEF ValuesInv
  <2> QED
    BY <1>7, <2>1
<1>9. ValuesInv'
  BY <1>3, <1>4, <1>6, <1>8 DEF ValuesInv
<1>10. HolderInv' /\ CurrentInv'
  BY <1>1, <1>3, <1>6 DEF HolderInv, CurrentInv
<1>11. SettingsInv'
  BY <1>3, <1>7 DEF SettingsInv, Exists
<1>12. ASSUME NEW q \in Ids
       PROVE  /\ runs'[q] <= RunsCap + count'.mishaps + Untrimmed(q)'
              /\ runs'[q] > 0 => Exists(q)' \/ q \in torn'
  <2>1. Untrimmed(q) = 0 /\ Untrimmed(q)' = 0
    BY <1>1, <1>3 DEF Untrimmed
  <2>2. runs[q] \in Nat /\ RunsCap \in Nat /\ count'.mishaps \in Nat
    BY <1>4, ProjectsAssumption DEF ValuesInv, Counts
  <2>3. runs[q] <= RunsCap + count.mishaps + 0
    BY <2>1 DEF RunsInv
  <2>4. runs[q] <= RunsCap + count'.mishaps + 0
    BY ONLY <1>1, <1>4, <2>2, <2>3
  <2> QED
    BY <1>3, <1>7, <2>1, <2>4 DEF RunsInv, Exists
<1> QED
  BY <1>9, <1>10, <1>11, <1>12 DEF RunsInv
-----------------------------------------------------------------------------
(* The worker's goroutine.                                                 *)

\* A step of it outside its critical section.
LEMMA WorkerKeepsInv ==
    ASSUME Inv, UNCHANGED <<store, runs, accepted, torn, paused, clock, mu, source>>,
           worker' \in Workers, inflight' \in Jobs \cup {NoJob},
           ready' \in [{"interactive", "scheduled"} -> Seq(Jobs)],
           count' \in Counts, count'.mishaps >= count.mishaps,
           worker.pc \notin {"trim", "save"}, worker'.pc \notin {"trim", "save"},
           worker'.pc = "idle" <=> inflight' = NoJob
    PROVE  Inv'
<1> USE DEF Inv
<1>1. ValuesInv'
  BY DEF ValuesInv
<1>2. HolderInv' /\ CurrentInv'
  BY DEF HolderInv, CurrentInv
<1>3. \A p \in Ids : count.mishaps + Untrimmed(p) <= count'.mishaps + Untrimmed(p)'
  <2>1. \A p \in Ids : Untrimmed(p) = 0 /\ Untrimmed(p)' = 0
    BY DEF Untrimmed
  <2>2. count \in Counts
    BY DEF ValuesInv
  <2>3. count.mishaps \in Nat /\ count'.mishaps \in Nat
    BY <2>2 DEF Counts
  <2> QED
    BY <2>1, <2>3
<1> QED
  BY <1>1, <1>2, <1>3, RecordsUntouched

\* The worker between two jobs.
LEMMA IdleWorkerType == IdleWorker \in Workers /\ IdleWorker.pc = "idle"
BY DEF IdleWorker, Workers

LEMMA AcquireKeepsInv ==
    ASSUME Inv, Acquire
    PROVE  Inv'
<1> USE DEF Inv
<1> DEFINE key == IF ready["interactive"] # <<>> THEN "interactive" ELSE "scheduled"
           job == Head(ready[key])
<1>1. /\ key \in {"interactive", "scheduled"} /\ ready[key] \in Seq(Jobs) /\ ready[key] # <<>>
      /\ worker.pc = "idle" /\ inflight = NoJob /\ worker \in Workers
      /\ count \in Counts /\ count.mishaps \in Nat
  BY DEF Acquire, ValuesInv, HolderInv, Counts
<1>2. UNCHANGED <<store, runs, accepted, torn, paused, clock, mu, source, count>>
  BY DEF Acquire, history
<1>3. \/ /\ ready' = [ready EXCEPT ![key] = Append(Tail(@), job)]
         /\ UNCHANGED <<inflight, worker>>
      \/ /\ ready' = [ready EXCEPT ![key] = Tail(@)]
         /\ inflight' = job /\ worker' = [IdleWorker EXCEPT !.pc = "get"]
  BY DEF Acquire
<1> HIDE DEF key
<1>4. job \in Jobs /\ Tail(ready[key]) \in Seq(Jobs) /\ Append(Tail(ready[key]), job) \in Seq(Jobs)
  BY <1>1, HeadTailProperties, AppendProperties
<1> HIDE DEF job
<1>5. ready' \in [{"interactive", "scheduled"} -> Seq(Jobs)]
  BY <1>1, <1>3, <1>4 DEF ValuesInv
<1>6. CASE UNCHANGED <<inflight, worker>>
  BY <1>1, <1>2, <1>5, <1>6, WorkerKeepsInv DEF ValuesInv
<1>7. CASE inflight' = job /\ worker' = [IdleWorker EXCEPT !.pc = "get"]
  <2>1. worker' \in Workers /\ worker'.pc = "get"
    BY <1>7, IdleWorkerType DEF Workers
  <2>2. inflight' # NoJob
    BY <1>4, <1>7, ValuesAssumption DEF Jobs
  <2> QED
    BY <1>1, <1>2, <1>4, <1>5, <1>7, <2>1, <2>2, WorkerKeepsInv
<1> QED
  BY <1>3, <1>6, <1>7

LEMMA BeginKeepsInv ==
    ASSUME Inv, Begin
    PROVE  Inv'
<1> USE DEF Inv
<1>1. /\ worker.pc = "get" /\ worker \in Workers /\ inflight # NoJob
      /\ count \in Counts /\ count.mishaps \in Nat
  BY DEF Begin, ValuesInv, HolderInv, Counts
<1>2. worker' \in Workers /\ worker'.pc \in {"run", "end"}
  BY <1>1 DEF Begin, Workers
<1>3. count' \in Counts /\ count'.mishaps >= count.mishaps
  BY <1>1, MishapCounts DEF Begin
<1> QED
  BY <1>1, <1>2, <1>3, WorkerKeepsInv DEF Begin, ValuesInv, history

LEMMA RunTaskKeepsInv ==
    ASSUME Inv, RunTask
    PROVE  Inv'
<1> USE DEF Inv
<1>1. /\ worker.pc = "run" /\ worker \in Workers /\ inflight # NoJob
      /\ count \in Counts /\ count.mishaps \in Nat
  BY DEF RunTask, ValuesInv, HolderInv, Counts
<1>2. worker' \in Workers /\ worker'.pc = "record"
  BY <1>1 DEF RunTask, Workers
<1> QED
  BY <1>1, <1>2, WorkerKeepsInv DEF RunTask, ValuesInv, history

LEMMA EndKeepsInv ==
    ASSUME Inv, End
    PROVE  Inv'
<1> USE DEF Inv
<1>1. /\ worker.pc = "end" /\ worker \in Workers /\ inflight \in Jobs
      /\ count \in Counts /\ count.mishaps \in Nat
  BY DEF End, ValuesInv, HolderInv, Counts
<1>2. ready' \in [{"interactive", "scheduled"} -> Seq(Jobs)]
  BY <1>1, GiveBackType DEF End, ValuesInv
<1> QED
  BY <1>1, <1>2, IdleWorkerType, WorkerKeepsInv DEF End

\* Cancelling reaches a worker only in the turn or at its acknowledgement.
LEMMA CancelKeepsInv ==
    ASSUME Inv, NEW all \in BOOLEAN, Cancel(all)
    PROVE  Inv'
<1> USE DEF Inv
<1>1. worker \in Workers /\ count \in Counts /\ count.mishaps \in Nat /\ inflight \in Jobs \cup {NoJob}
  BY DEF ValuesInv, Counts
<1>2. ready' \in [{"interactive", "scheduled"} -> Seq(Jobs)]
  <2>1. DOMAIN ready = {"interactive", "scheduled"} /\ \A k \in DOMAIN ready : ready[k] \in Seq(Jobs)
    BY DEF ValuesInv
  <2>2. <<>> \in Seq(Jobs)
    OBVIOUS
  <2> QED
    BY <2>1, <2>2 DEF Cancel
<1>3. UNCHANGED <<store, runs, accepted, torn, paused, clock, mu, source, inflight, count>>
  BY DEF Cancel, history
<1>4. CASE worker.pc \in {"trim", "save"}
  <2>1. UNCHANGED worker
    BY <1>4 DEF Cancel
  <2>2. ValuesInv'
    BY <1>2, <1>3, <2>1 DEF ValuesInv
  <2> QED
    BY <1>1, <1>3, <2>1, <2>2, AsideKeepsInv
<1>5. CASE worker.pc \notin {"trim", "save"}
  <2>1. worker' \in Workers /\ worker'.pc = worker.pc
    BY <1>1 DEF Cancel, Workers
  <2>2. worker'.pc = "idle" <=> inflight' = NoJob
    BY <1>3, <2>1 DEF HolderInv
  <2> QED
    BY <1>1, <1>2, <1>3, <1>5, <2>1, <2>2, WorkerKeepsInv
<1> QED
  BY <1>4, <1>5
\* Reading the record takes the mutex and pushes one summary more.
LEMMA RecordKeepsInv ==
    ASSUME Inv, Record
    PROVE  Inv'
<1> USE DEF Inv
<1> DEFINE p == inflight.project
<1>1. /\ worker.pc = "record" /\ mu = "free" /\ worker \in Workers /\ inflight # NoJob
      /\ inflight \in Jobs /\ count \in Counts /\ count.mishaps \in Nat
  BY DEF Record, ValuesInv, HolderInv, Counts
<1>2. p \in Ids
  BY <1>1 DEF Jobs
<1>3. UNCHANGED <<store, paused, clock, source, ready, inflight, accepted, torn>>
  BY DEF Record
<1>4. ASSUME Exists(p), NEW o \in {"done", "nothing", "unsure"}, Fine(o),
             runs' = IF Reached(o) THEN [runs EXCEPT ![p] = @ + 1] ELSE runs,
             worker' = [worker EXCEPT !.pc = "trim", !.current = store[p],
                                      !.recorded = Reached(o), !.failed = Failed(worker, o)],
             mu' = Taken
      PROVE  Inv'
  <2>1. count' \in Counts /\ count'.mishaps >= count.mishaps
    BY <1>1, <1>4, FineCounts
  <2>2. store[p] \in Records
    BY <1>2, <1>4 DEF ValuesInv, Exists
  <2>3. worker' \in Workers /\ worker'.pc = "trim" /\ worker'.current = store[p]
    <3>1. Reached(o) \in BOOLEAN /\ Failed(worker, o) \in BOOLEAN
      BY <1>1 DEF Reached, Failed, Workers
    <3> QED
      BY <1>1, <1>4, <2>2, <3>1 DEF Workers
  <2>4. \A q \in Ids : /\ runs[q] \in Nat
                       /\ runs'[q] = IF Reached(o) /\ q = p THEN runs[q] + 1 ELSE runs[q]
    BY <1>4 DEF ValuesInv
  <2>5. runs' \in [Ids -> Nat]
    <3>1. DOMAIN runs' = Ids /\ runs' = [q \in Ids |-> runs'[q]]
      BY <1>4 DEF ValuesInv
    <3>2. \A q \in Ids : runs'[q] \in Nat
      BY <2>4
    <3> QED
      BY <3>1, <3>2
  <2>6. ValuesInv'
    BY <1>3, <1>4, <2>1, <2>3, <2>5 DEF ValuesInv, Taken
  <2>7. HolderInv' /\ CurrentInv'
    BY <1>1, <1>3, <1>4, <2>3 DEF HolderInv, CurrentInv, Exists, Taken
  <2>8. SettingsInv'
    BY <1>3 DEF SettingsInv, Exists
  <2>9. ASSUME NEW q \in Ids
        PROVE  /\ runs'[q] <= RunsCap + count'.mishaps + Untrimmed(q)'
               /\ runs'[q] > 0 => Exists(q)' \/ q \in torn'
    <3>1. Untrimmed(q) = 0 /\ Untrimmed(q)' = IF q = p THEN 1 ELSE 0
      BY <1>1, <1>3, <2>3 DEF Untrimmed
    <3>2. RunsCap \in Nat /\ count'.mishaps \in Nat /\ runs[q] \in Nat
      BY <2>1, <2>4, ProjectsAssumption DEF Counts
    <3>3. runs[q] <= RunsCap + count.mishaps + 0
      BY <3>1 DEF RunsInv
    <3>4. runs'[q] <= RunsCap + count'.mishaps + (IF q = p THEN 1 ELSE 0)
      BY ONLY <1>1, <2>1, <2>4, <3>2, <3>3
    <3>5. runs'[q] > 0 => Exists(q) \/ q \in torn
      <4>1. CASE q = p
        BY <1>4, <4>1
      <4>2. CASE q # p
        BY <2>4, <4>2 DEF RunsInv
      <4> QED
        BY <4>1, <4>2
    <3> QED
      BY <1>3, <3>1, <3>4, <3>5 DEF Exists
  <2> QED
    BY <2>6, <2>7, <2>8, <2>9 DEF RunsInv
<1>5. CASE worker' = [worker EXCEPT !.pc = "end"] /\ UNCHANGED <<runs, mu, count>>
  <2>1. worker' \in Workers /\ worker'.pc = "end"
    BY <1>1, <1>5 DEF Workers
  <2> QED
    BY <1>1, <1>3, <1>5, <2>1, WorkerKeepsInv DEF ValuesInv
<1>6. CASE Mishap /\ worker' = [worker EXCEPT !.pc = "end", !.failed = TRUE] /\ UNCHANGED <<runs, mu>>
  <2>1. worker' \in Workers /\ worker'.pc = "end"
    BY <1>1, <1>6 DEF Workers
  <2>2. count' \in Counts /\ count'.mishaps >= count.mishaps
    BY <1>1, <1>6, MishapCounts
  <2> QED
    BY <1>1, <1>3, <1>6, <2>1, <2>2, WorkerKeepsInv DEF ValuesInv
<1> QED
  BY <1>4, <1>5, <1>6 DEF Record, Recordable

\* LTRIM takes back what was pushed, or its failure is a mishap.
LEMMA TrimKeepsInv ==
    ASSUME Inv, Trim
    PROVE  Inv'
<1> USE DEF Inv
<1> DEFINE p == inflight.project
<1>1. /\ worker.pc = "trim" /\ mu = "worker" /\ worker \in Workers /\ inflight \in Jobs
      /\ count \in Counts /\ count.mishaps \in Nat /\ Exists(p) /\ worker.current = store[p]
  BY DEF Trim, ValuesInv, HolderInv, CurrentInv, Counts
<1>2. p \in Ids
  BY <1>1 DEF Jobs
<1>3. UNCHANGED <<store, paused, clock, mu, source, ready, inflight, accepted, torn>>
  BY DEF Trim, history
<1>4. PICK o \in {"done", "nothing"} :
         /\ Fine(o)
         /\ runs' = IF Reached(o) THEN [runs EXCEPT ![p] = Kept(@)] ELSE runs
         /\ worker' = [worker EXCEPT !.pc = "save", !.failed = Failed(worker, o)]
  BY DEF Trim
<1>5. /\ count' \in Counts /\ count'.mishaps >= count.mishaps /\ count'.mishaps \in Nat
      /\ o = "nothing" => count'.mishaps = count.mishaps + 1
  BY <1>1, <1>4, FineCounts, MishapCounts DEF Fine, Counts
<1>6. worker' \in Workers /\ worker'.pc = "save" /\ worker'.current = worker.current
  <2>1. Failed(worker, o) \in BOOLEAN
    BY <1>1 DEF Failed, Workers
  <2> QED
    BY <1>1, <1>4, <2>1 DEF Workers
<1>7. \A q \in Ids : /\ runs[q] \in Nat
                     /\ runs'[q] = IF o = "done" /\ q = p THEN Kept(runs[q]) ELSE runs[q]
  BY <1>4 DEF ValuesInv, Reached
<1>8. runs' \in [Ids -> Nat]
  <2>1. DOMAIN runs' = Ids /\ runs' = [q \in Ids |-> runs'[q]]
    BY <1>4 DEF ValuesInv
  <2>2. \A q \in Ids : runs'[q] \in Nat
    BY <1>7, KeptBounds
  <2> QED
    BY <2>1, <2>2
<1>9. ValuesInv'
  BY <1>3, <1>5, <1>6, <1>8 DEF ValuesInv
<1>10. HolderInv' /\ CurrentInv'
  BY <1>1, <1>3, <1>6 DEF HolderInv, CurrentInv, Exists
<1>11. SettingsInv'
  BY <1>3 DEF SettingsInv, Exists
<1>12. ASSUME NEW q \in Ids
       PROVE  /\ runs'[q] <= RunsCap + count'.mishaps + Untrimmed(q)'
              /\ runs'[q] > 0 => Exists(q)' \/ q \in torn'
  <2>1. Untrimmed(q)' = 0 /\ Untrimmed(q) = IF q = p THEN 1 ELSE 0
    BY <1>1, <1>6 DEF Untrimmed
  <2>2. RunsCap \in Nat /\ runs[q] \in Nat /\ Kept(runs[q]) \in Nat
        /\ Kept(runs[q]) <= RunsCap /\ Kept(runs[q]) <= runs[q]
    BY <1>7, KeptBounds, ProjectsAssumption
  <2>3. runs[q] <= RunsCap + count.mishaps + (IF q = p THEN 1 ELSE 0)
    BY <2>1 DEF RunsInv
  <2>4. runs'[q] <= RunsCap + count'.mishaps + 0
    <3>1. CASE q = p /\ o = "done"
      BY ONLY <1>5, <1>7, <2>2, <3>1
    <3>2. CASE q = p /\ o = "nothing"
      BY ONLY <1>1, <1>5, <1>7, <2>2, <2>3, <3>2
    <3>3. CASE q # p
      BY ONLY <1>1, <1>5, <1>7, <2>2, <2>3, <3>3
    <3> QED
      BY <3>1, <3>2, <3>3
  <2>5. runs'[q] > 0 => runs[q] > 0
    BY ONLY <1>7, <2>2
  <2> QED
    BY <1>3, <2>1, <2>4, <2>5 DEF RunsInv, Exists
<1> QED
  BY <1>9, <1>10, <1>11, <1>12 DEF RunsInv

\* The record is written back as it is: no edit came between.
LEMMA SaveRunKeepsInv ==
    ASSUME Inv, SaveRun
    PROVE  Inv'
<1> USE DEF Inv
<1> DEFINE p == inflight.project
<1>1. /\ worker.pc = "save" /\ mu = "worker" /\ worker \in Workers /\ inflight \in Jobs /\ inflight # NoJob
      /\ count \in Counts /\ count.mishaps \in Nat /\ worker.current = store[p]
  BY DEF SaveRun, ValuesInv, HolderInv, CurrentInv, Counts
<1>2. UNCHANGED <<runs, paused, clock, source, ready, inflight, accepted, torn>> /\ mu' = "free"
  BY DEF SaveRun, history
<1>3. PICK o \in {"done", "nothing", "unsure"} :
         /\ Fine(o)
         /\ store' = IF Reached(o) THEN [store EXCEPT ![p] = worker.current] ELSE store
         /\ worker' = [worker EXCEPT !.pc = "end", !.failed = Failed(worker, o)]
  BY DEF SaveRun
<1>4. store' = store
  BY <1>1, <1>3 DEF ValuesInv
<1>5. count' \in Counts /\ count'.mishaps >= count.mishaps /\ count'.mishaps \in Nat
  BY <1>1, <1>3, FineCounts DEF Counts
<1>6. worker' \in Workers /\ worker'.pc = "end"
  <2>1. Failed(worker, o) \in BOOLEAN
    BY <1>1 DEF Failed, Workers
  <2> QED
    BY <1>1, <1>3, <2>1 DEF Workers
<1>7. ValuesInv'
  BY <1>2, <1>4, <1>5, <1>6 DEF ValuesInv
<1>8. HolderInv' /\ CurrentInv'
  BY <1>1, <1>2, <1>6 DEF HolderInv, CurrentInv
<1>9. \A q \in Ids : count.mishaps + Untrimmed(q) <= count'.mishaps + Untrimmed(q)'
  <2>1. \A q \in Ids : Untrimmed(q) = 0 /\ Untrimmed(q)' = 0
    BY <1>1, <1>6 DEF Untrimmed
  <2> QED
    BY <1>1, <1>5, <2>1
<1> QED
  BY <1>2, <1>4, <1>7, <1>8, <1>9, RecordsUntouched

-----------------------------------------------------------------------------
(* The end of a process, and the theorem.                                  *)

\* A crash behind the push is itself the mishap that leaves a summary too many.
LEMMA CrashKeepsInv ==
    ASSUME Inv, Crash
    PROVE  Inv'
<1> USE DEF Inv
<1>1. count \in Counts /\ count.mishaps \in Nat /\ inflight \in Jobs \cup {NoJob}
  BY DEF ValuesInv, Counts
<1>2. count' \in Counts /\ count'.mishaps = count.mishaps + 1
  BY <1>1, MishapCounts DEF Crash
<1>3. ready' \in [{"interactive", "scheduled"} -> Seq(Jobs)]
  BY <1>1, GiveBackType DEF Crash, ValuesInv
<1>4. /\ UNCHANGED <<store, runs, paused, clock, accepted, torn>>
      /\ mu' = "free" /\ source' = IdleSource /\ worker' = IdleWorker /\ inflight' = NoJob
  BY DEF Crash, history
<1>5. ValuesInv'
  BY <1>2, <1>3, <1>4, IdleSourceType, IdleWorkerType DEF ValuesInv
<1>6. HolderInv' /\ CurrentInv'
  BY <1>4 DEF HolderInv, CurrentInv, IdleSource, IdleWorker
<1>7. \A p \in Ids : count.mishaps + Untrimmed(p) <= count'.mishaps + Untrimmed(p)'
  <2>1. \A p \in Ids : Untrimmed(p) \in {0, 1} /\ Untrimmed(p)' \in {0, 1}
    BY DEF Untrimmed
  <2> QED
    BY <1>1, <1>2, <2>1
<1> QED
  BY <1>4, <1>5, <1>6, <1>7, RecordsUntouched

LEMMA InitInv == Init => Inv
<1> SUFFICES ASSUME Init PROVE Inv
  OBVIOUS
<1>1. 1 \in DOMAIN Instants
  <2>1. DOMAIN Instants = 1..Len(Instants) /\ Len(Instants) \in Nat /\ Len(Instants) > 0
    BY ProjectsAssumption, LenProperties
  <2> QED
    BY <2>1
<1>2. MaxMishaps \in Nat /\ RunsCap \in Nat
  BY ProjectsAssumption
<1>3. count \in Counts /\ count.mishaps = 0
  BY <1>2 DEF Init, Counts
<1>4. ready \in [{"interactive", "scheduled"} -> Seq(Jobs)]
  <2>1. <<>> \in Seq(Jobs)
    OBVIOUS
  <2> QED
    BY <2>1 DEF Init
<1>5. ValuesInv
  BY <1>1, <1>3, <1>4, IdleSourceType, IdleWorkerType DEF Init, ValuesInv
<1>6. HolderInv /\ CurrentInv
  BY DEF Init, HolderInv, CurrentInv, IdleSource, IdleWorker
<1>7. SettingsInv
  BY DEF Init, SettingsInv, Settings, Exists
<1>8. RunsInv
  <2>1. \A p \in Ids : runs[p] = 0 /\ Untrimmed(p) = 0
    BY DEF Init, Untrimmed, IdleWorker
  <2> QED
    BY <1>2, <1>3, <2>1 DEF RunsInv
<1> QED
  BY <1>5, <1>6, <1>7, <1>8 DEF Inv

LEMMA NextKeepsInv ==
    ASSUME Inv, [Next]_vars
    PROVE  Inv'
<1>1. CASE UNCHANGED vars
  <2>1. ValuesInv'
    BY <1>1 DEF Inv, ValuesInv, vars
  <2> QED
    BY <1>1, <2>1, AsideKeepsInv DEF vars
<1>2. CASE \E p \in Ids : Create(p) \/ Delete(p) \/ RunNow(p)
  BY <1>2, CreateKeepsInv, DeleteKeepsInv, RunNowKeepsInv
<1>3. CASE \E p \in Ids : \E new \in Fields \cup Combined : Update(p, new)
  BY <1>3, UpdateKeepsInv
<1>4. CASE \E flag \in BOOLEAN : SetSchedulerPaused(flag)
  BY <1>4, PauseKeepsInv
<1>5. CASE SourceStep
  BY <1>5, TickKeepsInv, ListKeepsInv, VisitKeepsInv, ListedKeepsInv, EnqueueOneKeepsInv DEF SourceStep
<1>6. CASE WorkerStep
  BY <1>6, AcquireKeepsInv, BeginKeepsInv, RunTaskKeepsInv, RecordKeepsInv, TrimKeepsInv,
     SaveRunKeepsInv, EndKeepsInv DEF WorkerStep
<1>7. CASE \E all \in BOOLEAN : Cancel(all)
  BY <1>7, CancelKeepsInv
<1>8. CASE Wait
  BY <1>8, WaitKeepsInv
<1>9. CASE Crash
  BY <1>9, CrashKeepsInv
<1> QED
  BY <1>1, <1>2, <1>3, <1>4, <1>5, <1>6, <1>7, <1>8, <1>9 DEF Next

LEMMA InvGivesEditsSurvive == Inv => EditsSurvive
<1> SUFFICES ASSUME Inv PROVE EditsSurvive
  OBVIOUS
<1> USE DEF Inv
<1>1. \A p \in Ids : runs[p] \in 0..RunsCap + 1 + MaxMishaps
  <2> SUFFICES ASSUME NEW p \in Ids PROVE runs[p] \in 0..RunsCap + 1 + MaxMishaps
    OBVIOUS
  <2>1. count \in Counts /\ runs[p] \in Nat /\ RunsCap \in Nat /\ MaxMishaps \in Nat
    BY ProjectsAssumption DEF ValuesInv
  <2>2. count.mishaps \in 0..MaxMishaps
    BY <2>1 DEF Counts
  <2>3. Untrimmed(p) \in {0, 1} /\ runs[p] <= RunsCap + count.mishaps + Untrimmed(p)
    BY DEF Untrimmed, RunsInv
  <2> HIDE DEF Untrimmed
  <2> QED
    BY ONLY <2>1, <2>2, <2>3
<1>2. AllJobs \subseteq Jobs
  <2>1. /\ ready["interactive"] \in Seq(Jobs) /\ ready["scheduled"] \in Seq(Jobs)
        /\ inflight = NoJob \/ inflight \in Jobs
    BY DEF ValuesInv
  <2>2. ToSet(ready["interactive"]) \subseteq Jobs /\ ToSet(ready["scheduled"]) \subseteq Jobs
    BY <2>1, ElementOfSeq, LenProperties DEF ToSet
  <2> QED
    BY <2>1, <2>2 DEF AllJobs
<1>3. TypeOK
  BY <1>1, <1>2 DEF TypeOK, ValuesInv, HolderInv, Sources, Workers
<1>4. \A p \in Ids : /\ Settings(store[p]) = accepted[p]
                     /\ Exists(p) => Acceptable(store[p])
                     /\ runs[p] > 0 => Exists(p) \/ p \in torn
  BY DEF SettingsInv, RunsInv
<1> QED
  BY <1>3, <1>4 DEF EditsSurvive

\* What the pages set is what is stored, whatever the scheduler and the worker
\* write in between; no enabled project lacks a task; and the list of runs is
\* no longer than its cap and the mishaps allow.
THEOREM EditsAlwaysSurvive == Spec => []EditsSurvive
<1>1. Inv /\ [Next]_vars => Inv'
  BY NextKeepsInv
<1> QED
  BY InitInv, <1>1, InvGivesEditsSurvive, PTL DEF Spec

-----------------------------------------------------------------------------
(* Days and parts of the day.                                              *)

LEMMA HoursBounds ==
    ASSUME NEW b \in Buckets
    PROVE  BucketHours[b][1] \in 0..24 /\ BucketHours[b][2] \in 0..24
BY DEF BucketHours, Buckets

\* The hours of one day.
LEMMA SameDay ==
    ASSUME NEW x \in Nat, NEW d \in Nat, 24 * d <= x, x < 24 * d + 24
    PROVE  x \div 24 = d
<1> DEFINE q == x \div 24
<1>1. q \in Nat /\ 24 * q <= x /\ x < 24 * q + 24
  OBVIOUS
<1> HIDE DEF q
<1>2. q = d
  BY <1>1
<1> QED
  BY <1>2 DEF q

\* An instant between the tick and the end of the occurrence lies on the day and
\* within the hours of the occurrence.
LEMMA StartsInside ==
    ASSUME NEW s \in Offered, NEW t \in Nat, Matches(s, t), NEW i \in Starts(s, t)
    PROVE  Inside(TokenAt(t, s.bucket), Instants[i])
<1> DEFINE d == t \div 24
           b == BucketHours[s.bucket][1]
           e == BucketHours[s.bucket][2]
           hits == {o \in Offsets : Weekday(24 * (d + o)) \in s.days /\ (o > 0 \/ t < 24 * (d + o) + e)}
<1>1. s.bucket \in Buckets /\ e \in 0..24 /\ b \in 0..24
  BY ProjectsAssumption, HoursBounds
<1>2. d \in Nat /\ 24 * d <= t /\ t < 24 * d + 24 /\ t % 24 = t - 24 * d
  OBVIOUS
<1>3. 0 \in hits
  <2>1. Weekday(24 * (d + 0)) \in s.days
    <3>1. (24 * (d + 0)) \div 24 = d
      BY <1>2
    <3> QED
      BY <3>1 DEF Matches, Weekday
  <2>2. t < 24 * (d + 0) + e
    <3>1. t % 24 < e
      BY DEF Matches, Hour
    <3> HIDE DEF d, e
    <3> QED
      BY <1>1, <1>2, <3>1
  <2> QED
    BY <2>1, <2>2 DEF Offsets
<1>4. Min(hits) = 0
  <2>1. hits \subseteq 0..7
    BY DEF Offsets
  <2> HIDE DEF hits
  <2>2. \A y \in hits : 0 <= y
    BY <2>1
  <2>3. Min(hits) \in hits /\ \A y \in hits : Min(hits) <= y
    BY <1>3, <2>2 DEF Min
  <2>4. Min(hits) <= 0 /\ Min(hits) \in 0..7
    BY <1>3, <2>1, <2>3
  <2> HIDE DEF Min
  <2> QED
    BY ONLY <2>4
<1>5. BucketWindow(s, t)[2] = 24 * (d + 0) + e
  BY <1>3, <1>4 DEF BucketWindow
<1>6. Instants[i] \in Nat /\ Instants[i] >= t /\ Instants[i] < 24 * d + e
  <2>1. Instants[i] \in Nat
    BY ProjectsAssumption, ElementOfSeq, LenProperties DEF Starts
  <2>2. Instants[i] >= t /\ Instants[i] < 24 * (d + 0) + e
    BY <1>5 DEF Starts
  <2> HIDE DEF d, e
  <2> QED
    BY <1>1, <1>2, <2>1, <2>2
<1>7. Instants[i] \div 24 = d
  <2>1. Instants[i] >= 24 * d /\ Instants[i] < 24 * d + 24
    <3> HIDE DEF d, e
    <3> QED
      BY <1>1, <1>2, <1>6
  <2> HIDE DEF d
  <2> QED
    BY <1>2, <1>6, <2>1, SameDay
<1>8. Hour(Instants[i]) = Instants[i] - 24 * d
  <2>1. Instants[i] % 24 = Instants[i] - 24 * (Instants[i] \div 24)
    BY <1>6
  <2> QED
    BY <1>7, <2>1 DEF Hour
<1>9. b <= Hour(Instants[i]) /\ Hour(Instants[i]) < e
  <2>1. b <= t % 24
    BY DEF Matches, Hour
  <2> HIDE DEF d, e, b
  <2> QED
    BY <1>1, <1>2, <1>6, <1>8, <2>1
<1>10. TokenAt(t, s.bucket)[2] = s.bucket
  BY DEF TokenAt
<1>11. TokenAt(Instants[i], s.bucket) = TokenAt(t, s.bucket)
  BY <1>7 DEF TokenAt
<1> QED
  BY <1>9, <1>10, <1>11 DEF Inside
-----------------------------------------------------------------------------
(* The inductive invariant.                                                *)

Timely(job) == job.manual \/ Inside(job.token, Instants[job.notBefore])
TimelyJobs == {job \in Jobs : Timely(job)}
JobsInv ==
    /\ ready \in [{"interactive", "scheduled"} -> Seq(TimelyJobs)]
    /\ inflight \in TimelyJobs \cup {NoJob}

HistoryInv ==
    /\ handed \in [Ids -> [Tokens -> Nat]] /\ edits \in [Ids -> Nat] /\ born \subseteq Ids
    /\ source.now <= clock
    /\ \A p \in Ids : Exists(p) => p \in born

\* A tick visits each project once, while its occurrence lasts.
BatchInv ==
    /\ source.pc \in {"idle", "ask"} => source.batch = <<>>
    /\ \A i, j \in DOMAIN source.batch :
          source.batch[i].project = source.batch[j].project => i = j
    /\ \A i \in DOMAIN source.batch :
          /\ source.pc = "visit" => source.batch[i].project \notin source.left
          /\ Matches(source.batch[i].selector, TickTime)
          /\ source.batch[i].token = TokenAt(TickTime, source.batch[i].selector.bucket)
          /\ source.batch[i].project \in born

\* The day of the tick under way, or of the next one at the earliest.
Day(t) == t \div 24 + 1
TickIndex == IF source.pc \in {"ask", "visit"} THEN source.now ELSE clock
TickDay == Day(Instants[TickIndex])

Pending(p, k) ==
    IF \E i \in DOMAIN source.batch : source.batch[i].project = p /\ source.batch[i].token = k
    THEN 1 ELSE 0
\* How often an occurrence was marked and its job is, or will be, in the queue.
Given(p, k) == handed[p][k] + Pending(p, k)
\* What could be marked once more: it is not over, and the record has another mark.
Open(p, k) == /\ Exists(p) /\ store[p].token # k
              /\ k[2] = store[p].selector.bucket /\ k[1] >= TickDay

GivenInv ==
    \A p \in Ids :
        /\ p \notin born => \A k \in Tokens : handed[p][k] = 0
        /\ Exists(p) => store[p].token[1] <= TickDay
        /\ \A k \in Tokens : /\ Given(p, k) <= 1 + edits[p]
                             /\ Open(p, k) => Given(p, k) <= edits[p]

OccInv == Inv /\ JobsInv /\ HistoryInv /\ BatchInv /\ GivenInv
-----------------------------------------------------------------------------
(* Facts about days and counts.                                            *)

LEMMA DayType ==
    ASSUME NEW i \in DOMAIN Instants
    PROVE  i \in Nat /\ Instants[i] \in Nat /\ Day(Instants[i]) \in Nat
<1>1. i \in Nat /\ Instants[i] \in Nat
  BY ProjectsAssumption, ElementOfSeq, LenProperties
<1>2. Instants[i] \div 24 \in Nat
  BY <1>1
<1> QED
  BY <1>1, <1>2 DEF Day

LEMMA DayGrows ==
    ASSUME NEW i \in DOMAIN Instants, NEW j \in DOMAIN Instants, i <= j
    PROVE  Day(Instants[i]) <= Day(Instants[j])
<1>1. i \in Nat /\ j \in Nat /\ Instants[i] \in Nat /\ Instants[j] \in Nat
  BY DayType
<1>2. Instants[i] <= Instants[j]
  <2>1. CASE i = j
    BY <1>1, <2>1
  <2>2. CASE i # j
    <3>1. Instants[i] < Instants[j]
      BY <1>1, <2>2, ProjectsAssumption
    <3> QED
      BY <1>1, <3>1
  <2> QED
    BY <2>1, <2>2
<1>3. \A a, b \in Nat : a <= b => a \div 24 + 1 <= b \div 24 + 1
  OBVIOUS
<1> QED
  BY <1>1, <1>2, <1>3 DEF Day

LEMMA TickTypes ==
    ASSUME ValuesInv
    PROVE  /\ source.now \in DOMAIN Instants /\ clock \in DOMAIN Instants /\ TickIndex \in DOMAIN Instants
           /\ TickDay \in Nat /\ source.batch \in Batches /\ source.left \subseteq Ids
<1>1. /\ source.now \in DOMAIN Instants /\ clock \in DOMAIN Instants
      /\ source.batch \in Batches /\ source.left \subseteq Ids
  BY DEF ValuesInv, Sources
<1>2. TickIndex \in DOMAIN Instants
  BY <1>1 DEF TickIndex
<1> QED
  BY <1>1, <1>2, DayType DEF TickDay

LEMMA TickDayGrows ==
    ASSUME ValuesInv, ValuesInv', TickIndex <= TickIndex'
    PROVE  TickDay <= TickDay'
<1>1. TickIndex \in DOMAIN Instants /\ TickIndex' \in DOMAIN Instants
  BY DEF TickIndex, ValuesInv, Sources
<1> HIDE DEF TickIndex
<1>2. Day(Instants[TickIndex]) <= Day(Instants[TickIndex'])
  BY <1>1, DayGrows
<1> QED
  BY <1>2 DEF TickDay

LEMMA TokenDays ==
    ASSUME NEW k \in Tokens
    PROVE  k[1] \in Int
<1>1. CASE k = NoToken
  <2>1. NoToken[1] = 0
    BY DEF NoToken
  <2> QED
    BY <1>1, <2>1
<1>2. CASE \E i \in DOMAIN Instants, s \in Offered : k = TokenAt(Instants[i], s.bucket)
  <2>1. PICK i \in DOMAIN Instants : \E s \in Offered : k = TokenAt(Instants[i], s.bucket)
    BY <1>2
  <2>2. k[1] = Day(Instants[i])
    BY <2>1 DEF TokenAt, Day
  <2> QED
    BY <2>2, DayType
<1> QED
  BY <1>1, <1>2 DEF Tokens

\* Nothing was marked and no tick went back: what was given stays given.
LEMMA GivenBounded ==
    ASSUME OccInv, ValuesInv', UNCHANGED <<edits, born>>, handed' \in [Ids -> [Tokens -> Nat]],
           \A p \in Ids, k \in Tokens : p \notin born => handed'[p][k] = 0,
           \A p \in Ids : store'[p] # NoProject =>
                /\ Exists(p) /\ store'[p].token = store[p].token
                /\ store'[p].selector.bucket = store[p].selector.bucket,
           \A p \in Ids, k \in Tokens : Given(p, k)' <= Given(p, k),
           TickIndex <= TickIndex'
    PROVE  GivenInv'
<1>1. TickDay <= TickDay' /\ TickDay \in Nat /\ TickDay' \in Nat
  <2>1. TickDay <= TickDay'
    BY TickDayGrows DEF OccInv, Inv
  <2>2. TickIndex' \in DOMAIN Instants
    BY DEF TickIndex, ValuesInv, Sources
  <2>3. TickDay' \in Nat
    <3> HIDE DEF TickIndex
    <3>1. Day(Instants[TickIndex']) \in Nat
      BY <2>2, DayType
    <3> QED
      BY <3>1 DEF TickDay
  <2> QED
    BY <2>1, <2>3, TickTypes DEF OccInv, Inv
<1>2. SUFFICES ASSUME NEW p \in Ids
               PROVE  /\ p \notin born' => \A k \in Tokens : handed'[p][k] = 0
                      /\ Exists(p)' => store'[p].token[1] <= TickDay'
                      /\ \A k \in Tokens : /\ Given(p, k)' <= 1 + edits'[p]
                                           /\ Open(p, k)' => Given(p, k)' <= edits'[p]
  BY DEF GivenInv
<1>3. p \notin born' => \A k \in Tokens : handed'[p][k] = 0
  OBVIOUS
<1>4. Exists(p)' => store'[p].token[1] <= TickDay'
  <2> SUFFICES ASSUME Exists(p)' PROVE store'[p].token[1] <= TickDay'
    OBVIOUS
  <2>1. Exists(p) /\ store'[p].token = store[p].token
    BY DEF Exists
  <2>2. store[p].token[1] \in Int /\ store[p].token[1] <= TickDay
    <3>1. store[p].token \in Tokens
      BY <2>1 DEF OccInv, Inv, ValuesInv, Exists, Records
    <3>2. \A k \in Tokens : k[1] \in Int
      BY TokenDays
    <3> QED
      BY <2>1, <3>1, <3>2 DEF OccInv, GivenInv
  <2> HIDE DEF TickDay
  <2> QED
    BY <1>1, <2>1, <2>2
<1>5. ASSUME NEW k \in Tokens
      PROVE  /\ Given(p, k)' <= 1 + edits'[p]
             /\ Open(p, k)' => Given(p, k)' <= edits'[p]
  <2>1. /\ handed[p][k] \in Nat /\ handed'[p][k] \in Nat /\ edits[p] \in Nat
        /\ Pending(p, k) \in {0, 1} /\ Pending(p, k)' \in {0, 1}
    BY DEF OccInv, HistoryInv, Pending
  <2>2. Given(p, k)' <= Given(p, k) /\ Given(p, k) \in Int /\ Given(p, k)' \in Int
    <3>1. Given(p, k) = handed[p][k] + Pending(p, k) /\ Given(p, k)' = handed'[p][k] + Pending(p, k)'
      BY DEF Given
    <3>2. Given(p, k)' <= Given(p, k)
      OBVIOUS
    <3> HIDE DEF Pending
    <3> QED
      BY ONLY <2>1, <3>1, <3>2
  <2>3. Open(p, k)' => Open(p, k)
    <3> SUFFICES ASSUME Open(p, k)' PROVE Open(p, k)
      OBVIOUS
    <3>1. /\ Exists(p) /\ store[p].token # k /\ k[2] = store[p].selector.bucket
      BY DEF Open, Exists
    <3>2. k[1] >= TickDay' /\ k[1] \in Int
      BY TokenDays DEF Open
    <3>3. k[1] >= TickDay
      <4> HIDE DEF TickDay
      <4> QED
        BY ONLY <1>1, <3>2
    <3> QED
      BY <3>1, <3>3 DEF Open
  <2>4. Given(p, k) <= 1 + edits[p] /\ (Open(p, k) => Given(p, k) <= edits[p])
    BY DEF OccInv, GivenInv
  <2> HIDE DEF Given, Open
  <2>5. edits'[p] = edits[p]
    OBVIOUS
  <2> QED
    BY ONLY <2>1, <2>2, <2>3, <2>4, <2>5
<1> QED
  BY <1>3, <1>4, <1>5
LEMMA GivenKept ==
    ASSUME OccInv, ValuesInv', UNCHANGED <<handed, edits, born>>,
           \A p \in Ids : store'[p] # NoProject =>
                /\ Exists(p) /\ store'[p].token = store[p].token
                /\ store'[p].selector.bucket = store[p].selector.bucket,
           \A p \in Ids, k \in Tokens : Pending(p, k)' <= Pending(p, k),
           TickIndex <= TickIndex'
    PROVE  GivenInv'
<1>1. handed' \in [Ids -> [Tokens -> Nat]]
  BY DEF OccInv, HistoryInv
<1>2. \A p \in Ids, k \in Tokens : p \notin born => handed'[p][k] = 0
  BY DEF OccInv, GivenInv
<1>3. ASSUME NEW p \in Ids, NEW k \in Tokens
      PROVE  Given(p, k)' <= Given(p, k)
  <2>1. handed[p][k] \in Nat /\ Pending(p, k) \in {0, 1} /\ Pending(p, k)' \in {0, 1}
    BY DEF OccInv, HistoryInv, Pending
  <2>2. Pending(p, k)' <= Pending(p, k) /\ handed'[p][k] = handed[p][k]
    OBVIOUS
  <2> HIDE DEF Pending
  <2>3. Given(p, k) = handed[p][k] + Pending(p, k) /\ Given(p, k)' = handed'[p][k] + Pending(p, k)'
    BY DEF Given
  <2> QED
    BY ONLY <2>1, <2>2, <2>3
<1> QED
  BY <1>1, <1>2, <1>3, GivenBounded

-----------------------------------------------------------------------------
(* The queue's jobs.                                                       *)

LEMMA TimelyRetry ==
    ASSUME NEW job \in TimelyJobs
    PROVE  [job EXCEPT !.attempts = 1] \in TimelyJobs
<1>1. job \in Jobs /\ Timely(job)
  BY DEF TimelyJobs
<1>2. [job EXCEPT !.attempts = 1] \in Jobs
  BY <1>1, AttemptedType
<1>3. Timely([job EXCEPT !.attempts = 1])
  BY <1>1 DEF Timely, Jobs
<1> QED
  BY <1>2, <1>3 DEF TimelyJobs

LEMMA TimelyGiveBack ==
    ASSUME NEW job \in TimelyJobs, ready \in [{"interactive", "scheduled"} -> Seq(TimelyJobs)]
    PROVE  GiveBack(job) \in [{"interactive", "scheduled"} -> Seq(TimelyJobs)]
<1>1. Key(job) \in {"interactive", "scheduled"}
  BY DEF Key
<1>2. Append(ready[Key(job)], [job EXCEPT !.attempts = 1]) \in Seq(TimelyJobs)
  BY <1>1, TimelyRetry, AppendProperties
<1> QED
  BY <1>1, <1>2 DEF GiveBack

\* A step that marks nothing: the scheduler, the clock and the records stay.
LEMMA StillKeepsOcc ==
    ASSUME OccInv, Inv', JobsInv', UNCHANGED <<handed, edits, born, source, clock, store>>
    PROVE  OccInv'
<1>1. HistoryInv'
  BY DEF OccInv, HistoryInv, Exists
<1>2. BatchInv'
  BY DEF OccInv, BatchInv, TickTime
<1>3. \A p \in Ids, k \in Tokens : Pending(p, k)' <= Pending(p, k)
  BY DEF Pending
<1>4. TickIndex <= TickIndex'
  <2>1. TickIndex' = TickIndex /\ TickIndex \in Nat
    BY TickTypes, DayType DEF TickIndex, OccInv, Inv
  <2> QED
    BY <2>1
<1>5. GivenInv'
  BY <1>3, <1>4, GivenKept DEF Inv, Exists
<1> QED
  BY <1>1, <1>2, <1>5 DEF OccInv

LEMMA RunNowKeepsOcc ==
    ASSUME OccInv, NEW p \in Ids, RunNow(p)
    PROVE  OccInv'
<1> DEFINE job == [project |-> p, manual |-> TRUE, token |-> NoToken, notBefore |-> 0, attempts |-> 0]
<1>1. job \in TimelyJobs
  <2>1. job \in Jobs
    BY DEF Jobs, Tokens
  <2>2. Timely(job)
    BY DEF Timely
  <2> QED
    BY <2>1, <2>2 DEF TimelyJobs
<1>2. ready' = [ready EXCEPT !["interactive"] = Append(@, job)]
  BY DEF RunNow
<1> HIDE DEF job
<1>3. Append(ready["interactive"], job) \in Seq(TimelyJobs)
  BY <1>1, AppendProperties DEF OccInv, JobsInv
<1>4. JobsInv'
  BY <1>2, <1>3 DEF RunNow, OccInv, JobsInv
<1> QED
  BY <1>4, RunNowKeepsInv, StillKeepsOcc DEF OccInv, RunNow, history

LEMMA PauseKeepsOcc ==
    ASSUME OccInv, NEW flag \in BOOLEAN, SetSchedulerPaused(flag)
    PROVE  OccInv'
<1>1. JobsInv'
  BY DEF SetSchedulerPaused, OccInv, JobsInv
<1> QED
  BY <1>1, PauseKeepsInv, StillKeepsOcc DEF OccInv, SetSchedulerPaused, history

LEMMA CancelKeepsOcc ==
    ASSUME OccInv, NEW all \in BOOLEAN, Cancel(all)
    PROVE  OccInv'
<1>1. JobsInv'
  <2>1. DOMAIN ready = {"interactive", "scheduled"} /\ \A k \in DOMAIN ready : ready[k] \in Seq(TimelyJobs)
    BY DEF OccInv, JobsInv
  <2>2. <<>> \in Seq(TimelyJobs)
    OBVIOUS
  <2> QED
    BY <2>1, <2>2 DEF Cancel, OccInv, JobsInv
<1> QED
  BY <1>1, CancelKeepsInv, StillKeepsOcc DEF OccInv, Cancel, history

LEMMA AcquireKeepsOcc ==
    ASSUME OccInv, Acquire
    PROVE  OccInv'
<1> DEFINE key == IF ready["interactive"] # <<>> THEN "interactive" ELSE "scheduled"
           job == Head(ready[key])
<1>1. key \in {"interactive", "scheduled"} /\ ready[key] \in Seq(TimelyJobs) /\ ready[key] # <<>>
  BY DEF Acquire, OccInv, JobsInv
<1>2. \/ ready' = [ready EXCEPT ![key] = Append(Tail(@), job)] /\ UNCHANGED inflight
      \/ ready' = [ready EXCEPT ![key] = Tail(@)] /\ inflight' = job
  BY DEF Acquire
<1> HIDE DEF key
<1>3. /\ job \in TimelyJobs /\ Tail(ready[key]) \in Seq(TimelyJobs)
      /\ Append(Tail(ready[key]), job) \in Seq(TimelyJobs)
  BY <1>1, HeadTailProperties, AppendProperties
<1> HIDE DEF job
<1>4. JobsInv'
  BY <1>1, <1>2, <1>3 DEF OccInv, JobsInv
<1> QED
  BY <1>4, AcquireKeepsInv, StillKeepsOcc DEF OccInv, Acquire, history

LEMMA WorkKeepsOcc ==
    ASSUME OccInv, Begin \/ RunTask \/ Record \/ Trim \/ SaveRun
    PROVE  OccInv'
<1>1. Inv'
  BY BeginKeepsInv, RunTaskKeepsInv, RecordKeepsInv, TrimKeepsInv, SaveRunKeepsInv DEF OccInv
<1>2. UNCHANGED <<ready, inflight, handed, edits, born, source, clock>>
  BY DEF Begin, RunTask, Record, Trim, SaveRun, history
<1>3. UNCHANGED store
  <2>1. CASE Begin \/ RunTask \/ Record \/ Trim
    BY <2>1 DEF Begin, RunTask, Record, Trim
  <2>2. CASE SaveRun
    <3>1. worker.current = store[inflight.project]
      BY <2>2 DEF SaveRun, OccInv, Inv, CurrentInv
    <3>2. store' = [store EXCEPT ![inflight.project] = worker.current] \/ store' = store
      BY <2>2 DEF SaveRun
    <3> QED
      BY <3>1, <3>2 DEF OccInv, Inv, ValuesInv
  <2> QED
    BY <2>1, <2>2
<1>4. JobsInv'
  BY <1>2 DEF OccInv, JobsInv
<1> QED
  BY <1>1, <1>2, <1>3, <1>4, StillKeepsOcc

LEMMA EndKeepsOcc ==
    ASSUME OccInv, End
    PROVE  OccInv'
<1>1. inflight \in TimelyJobs
  BY DEF End, OccInv, JobsInv, Inv, HolderInv
<1>2. JobsInv'
  BY <1>1, TimelyGiveBack DEF End, OccInv, JobsInv
<1> QED
  BY <1>2, EndKeepsInv, StillKeepsOcc DEF OccInv, End
-----------------------------------------------------------------------------
(* The clock, the end of a process and the scheduler.                      *)

LEMMA WaitKeepsOcc ==
    ASSUME OccInv, Wait
    PROVE  OccInv'
<1>1. /\ UNCHANGED <<handed, edits, born, source, store, ready, inflight>>
      /\ clock' = clock + 1 /\ clock \in Nat /\ source.now \in Nat /\ source.now <= clock
  BY TickTypes, DayType DEF Wait, history, OccInv, Inv, HistoryInv
<1>2. Inv'
  BY WaitKeepsInv DEF OccInv
<1>3. JobsInv' /\ HistoryInv' /\ BatchInv'
  BY <1>1 DEF OccInv, JobsInv, HistoryInv, BatchInv, TickTime, Exists
<1>4. TickIndex <= TickIndex'
  BY <1>1 DEF TickIndex
<1>5. \A p \in Ids, k \in Tokens : Pending(p, k)' <= Pending(p, k)
  BY <1>1 DEF Pending
<1>6. GivenInv'
  BY <1>1, <1>2, <1>4, <1>5, GivenKept DEF Inv, Exists
<1> QED
  BY <1>2, <1>3, <1>6 DEF OccInv

\* A goroutine that has nothing to do has nothing in hand.
LEMMA EmptyBatch ==
    IdleSource.batch = <<>> /\ DOMAIN IdleSource.batch = {} /\ IdleSource.pc = "idle" /\ IdleSource.now = 1
BY DEF IdleSource

\* The scheduler drops what it has in hand and starts again.
LEMMA DroppedKeepsOcc ==
    ASSUME OccInv, Inv', JobsInv', UNCHANGED <<handed, edits, born, clock, store>>,
           source' = IdleSource
    PROVE  OccInv'
<1>1. clock \in Nat /\ clock >= 1 /\ source.now \in Nat /\ source.now <= clock
  <2>1. DOMAIN Instants = 1..Len(Instants)
    BY ProjectsAssumption, LenProperties
  <2> QED
    BY <2>1, TickTypes, DayType DEF OccInv, Inv, HistoryInv
<1>2. HistoryInv'
  BY <1>1, EmptyBatch DEF OccInv, HistoryInv, Exists
<1>3. BatchInv'
  BY EmptyBatch DEF BatchInv
<1>4. \A p \in Ids, k \in Tokens : Pending(p, k)' <= Pending(p, k)
  BY EmptyBatch DEF Pending
<1>5. TickIndex <= TickIndex'
  BY <1>1, EmptyBatch DEF TickIndex
<1>6. GivenInv'
  BY <1>4, <1>5, GivenKept DEF Inv, Exists
<1> QED
  BY <1>2, <1>3, <1>6 DEF OccInv

LEMMA CrashKeepsOcc ==
    ASSUME OccInv, Crash
    PROVE  OccInv'
<1>1. JobsInv'
  BY TimelyGiveBack DEF Crash, OccInv, JobsInv
<1> QED
  BY <1>1, CrashKeepsInv, DroppedKeepsOcc DEF OccInv, Crash, history

LEMMA TickKeepsOcc ==
    ASSUME OccInv, Tick
    PROVE  OccInv'
<1>1. /\ UNCHANGED <<handed, edits, born, clock, store, ready, inflight>> /\ source.pc = "idle"
      /\ source' = [IdleSource EXCEPT !.pc = "ask", !.now = clock] /\ clock \in Nat
  BY TickTypes, DayType DEF Tick, history, OccInv, Inv
<1>2. source'.pc = "ask" /\ source'.now = clock /\ source'.batch = <<>> /\ DOMAIN source'.batch = {}
  BY <1>1 DEF IdleSource
<1>3. Inv'
  BY TickKeepsInv DEF OccInv
<1>4. JobsInv' /\ HistoryInv'
  BY <1>1, <1>2 DEF OccInv, JobsInv, HistoryInv, Exists
<1>5. BatchInv'
  BY <1>2 DEF BatchInv
<1>6. \A p \in Ids, k \in Tokens : Pending(p, k)' <= Pending(p, k)
  BY <1>2 DEF Pending
<1>7. TickIndex <= TickIndex'
  BY <1>1, <1>2 DEF TickIndex
<1>8. GivenInv'
  BY <1>1, <1>3, <1>6, <1>7, GivenKept DEF Inv, Exists
<1> QED
  BY <1>3, <1>4, <1>5, <1>8 DEF OccInv

LEMMA ListKeepsOcc ==
    ASSUME OccInv, List
    PROVE  OccInv'
<1>1. /\ UNCHANGED <<handed, edits, born, clock, store, ready, inflight>>
      /\ source.pc = "ask" /\ source.batch = <<>> /\ source \in Sources
  BY DEF List, history, OccInv, Inv, ValuesInv, BatchInv
<1>2. Inv' /\ JobsInv'
  BY <1>1, ListKeepsInv DEF OccInv, JobsInv
<1>3. CASE source' = IdleSource
  BY <1>1, <1>2, <1>3, DroppedKeepsOcc
<1>4. CASE source' = [source EXCEPT !.pc = "visit", !.left = {p \in Ids : Exists(p)}]
  <2>1. /\ source'.pc = "visit" /\ source'.now = source.now /\ source'.batch = <<>>
        /\ DOMAIN source'.batch = {} /\ source.now \in Nat
    BY <1>1, <1>4, DayType DEF Sources
  <2>2. HistoryInv'
    BY <1>1, <2>1 DEF OccInv, HistoryInv, Exists
  <2>3. BatchInv'
    BY <2>1 DEF BatchInv
  <2>4. \A p \in Ids, k \in Tokens : Pending(p, k)' <= Pending(p, k)
    BY <2>1 DEF Pending
  <2>5. TickIndex <= TickIndex'
    BY <1>1, <2>1 DEF TickIndex
  <2>6. GivenInv'
    BY <1>1, <1>2, <2>4, <2>5, GivenKept DEF Inv, Exists
  <2> QED
    BY <1>2, <2>2, <2>3, <2>6 DEF OccInv
<1> QED
  BY <1>3, <1>4 DEF List

LEMMA ListedKeepsOcc ==
    ASSUME OccInv, Listed
    PROVE  OccInv'
<1>1. /\ UNCHANGED <<handed, edits, born, clock, store, ready, inflight>>
      /\ source.pc = "visit" /\ source \in Sources
      /\ clock \in Nat /\ source.now \in Nat /\ source.now <= clock
  BY TickTypes, DayType DEF Listed, history, OccInv, Inv, ValuesInv, HistoryInv
<1>2. Inv' /\ JobsInv'
  BY <1>1, ListedKeepsInv DEF OccInv, JobsInv
<1>3. CASE source' = IdleSource
  BY <1>1, <1>2, <1>3, DroppedKeepsOcc
<1>4. CASE source' = [source EXCEPT !.pc = "enqueue"]
  <2>1. source'.pc = "enqueue" /\ source'.now = source.now /\ source'.batch = source.batch
    BY <1>1, <1>4 DEF Sources
  <2>2. HistoryInv'
    BY <1>1, <2>1 DEF OccInv, HistoryInv, Exists
  <2>3. BatchInv'
    BY <1>1, <2>1 DEF OccInv, BatchInv, TickTime
  <2>4. \A p \in Ids, k \in Tokens : Pending(p, k)' <= Pending(p, k)
    BY <2>1 DEF Pending
  <2>5. TickIndex <= TickIndex'
    BY <1>1, <2>1 DEF TickIndex
  <2>6. GivenInv'
    BY <1>1, <1>2, <2>4, <2>5, GivenKept DEF Inv, Exists
  <2> QED
    BY <1>2, <2>2, <2>3, <2>6 DEF OccInv
<1> QED
  BY <1>3, <1>4 DEF Listed
\* A job is queued and out of the batch in the same step.
LEMMA EnqueueOneKeepsOcc ==
    ASSUME OccInv, EnqueueOne
    PROVE  OccInv'
<1> DEFINE Batched == [project : Ids, token : Tokens, selector : Offered]
           b == source.batch
           c == source'.batch
           e == Head(b)
           n == Len(b)
<1>1. /\ UNCHANGED <<edits, born, clock, store, inflight>>
      /\ source.pc = "enqueue" /\ source \in Sources /\ b \in Seq(Batched) /\ b # <<>>
      /\ clock \in Nat /\ source.now \in Nat /\ source.now <= clock /\ 1 <= clock
  <2>1. DOMAIN Instants = 1..Len(Instants)
    BY ProjectsAssumption, LenProperties
  <2> QED
    BY <2>1, TickTypes, DayType
    DEF EnqueueOne, OccInv, Inv, ValuesInv, HistoryInv, HolderInv, Sources, Batches
<1>2. /\ c = Tail(b)
      /\ c = <<>> => source'.pc = "idle" /\ source'.now = 1
      /\ c # <<>> => source'.pc = "enqueue" /\ source'.now = source.now
  BY <1>1 DEF EnqueueOne, Sources, IdleSource
<1>3. /\ n \in Nat /\ DOMAIN b = 1..n /\ 1 \in DOMAIN b /\ e = b[1] /\ e \in Batched
      /\ DOMAIN c = 1..(n - 1) /\ \A i \in DOMAIN c : i + 1 \in DOMAIN b /\ c[i] = b[i + 1]
  <2>1. n \in Nat /\ DOMAIN b = 1..n /\ n # 0
    BY <1>1, LenProperties, EmptySeq
  <2>2. c \in Seq(Batched) /\ Len(c) = n - 1 /\ \A i \in 1..Len(c) : c[i] = b[i + 1]
    BY <1>1, <1>2, HeadTailProperties
  <2>3. e = b[1] /\ e \in Batched
    <3>1. e \in Batched
      BY <1>1, HeadTailProperties
    <3>2. e = b[1]
      OBVIOUS
    <3> QED
      BY <3>1, <3>2
  <2> QED
    BY <2>1, <2>2, <2>3
<1>4. Inv'
  BY EnqueueOneKeepsInv DEF OccInv
<1>5. BatchInv'
  <2>1. \A i, j \in DOMAIN c : c[i].project = c[j].project => i = j
    <3> SUFFICES ASSUME NEW i \in DOMAIN c, NEW j \in DOMAIN c, c[i].project = c[j].project
                 PROVE  i = j
      OBVIOUS
    <3>1. i + 1 = j + 1
      BY <1>3 DEF OccInv, BatchInv
    <3> QED
      BY <1>3, <3>1
  <2>2. \A i \in DOMAIN c : c # <<>>
    BY <1>3
  <2>3. \A i \in DOMAIN c : /\ Matches(c[i].selector, TickTime')
                            /\ c[i].token = TokenAt(TickTime', c[i].selector.bucket)
                            /\ c[i].project \in born'
    <3> SUFFICES ASSUME NEW i \in DOMAIN c
                 PROVE  /\ Matches(c[i].selector, TickTime')
                        /\ c[i].token = TokenAt(TickTime', c[i].selector.bucket)
                        /\ c[i].project \in born'
      OBVIOUS
    <3>1. TickTime' = TickTime /\ i + 1 \in DOMAIN b /\ c[i] = b[i + 1]
      BY <1>2, <1>3, <2>2 DEF TickTime
    <3> QED
      BY <1>1, <3>1 DEF OccInv, BatchInv
  <2> QED
    BY <1>2, <2>1, <2>3 DEF BatchInv
<1>6. ASSUME NEW p \in Ids, NEW k \in Tokens
      PROVE  /\ Pending(p, k)' <= Pending(p, k) /\ Pending(p, k) \in {0, 1} /\ Pending(p, k)' \in {0, 1}
             /\ p = e.project => Pending(p, k)' = 0
             /\ p = e.project /\ k = e.token => Pending(p, k) = 1
  <2>1. \A i \in DOMAIN c : c[i].project # e.project
    <3> SUFFICES ASSUME NEW i \in DOMAIN c, c[i].project = e.project PROVE FALSE
      OBVIOUS
    <3>1. i + 1 = 1
      BY <1>3 DEF OccInv, BatchInv
    <3> QED
      BY <1>3, <3>1
  <2>2. p = e.project => Pending(p, k)' = 0
    BY <2>1 DEF Pending
  <2>3. p = e.project /\ k = e.token => Pending(p, k) = 1
    BY <1>3 DEF Pending
  <2>4. Pending(p, k)' = 1 => Pending(p, k) = 1
    BY <1>3 DEF Pending
  <2>5. Pending(p, k) \in {0, 1} /\ Pending(p, k)' \in {0, 1}
    BY DEF Pending
  <2> HIDE DEF Pending
  <2> QED
    BY <2>2, <2>3, <2>4, <2>5
<1>7. TickIndex <= TickIndex'
  BY <1>1, <1>2 DEF TickIndex
<1>8. source'.now <= clock'
  BY <1>1, <1>2
<1>9. CASE UNCHANGED <<ready, handed>>
  <2>1. JobsInv' /\ HistoryInv'
    BY <1>1, <1>8, <1>9 DEF OccInv, JobsInv, HistoryInv, Exists
  <2>2. GivenInv'
    BY <1>1, <1>4, <1>6, <1>7, <1>9, GivenKept DEF Inv, Exists
  <2> QED
    BY <1>4, <1>5, <2>1, <2>2 DEF OccInv
<1>10. ASSUME NEW i \in Starts(e.selector, TickTime),
              ready' = [ready EXCEPT !["scheduled"] = Append(@,
                 [project |-> e.project, manual |-> FALSE, token |-> e.token,
                  notBefore |-> i, attempts |-> 0])],
              handed' = [handed EXCEPT ![e.project][e.token] = @ + 1]
       PROVE  OccInv'
  <2> DEFINE job == [project |-> e.project, manual |-> FALSE, token |-> e.token,
                     notBefore |-> i, attempts |-> 0]
  <2>1. e.project \in Ids /\ e.token \in Tokens /\ e.selector \in Offered /\ e.project \in born
    BY <1>3 DEF OccInv, BatchInv
  <2>2. job \in TimelyJobs
    <3>1. Matches(e.selector, TickTime) /\ e.token = TokenAt(TickTime, e.selector.bucket) /\ TickTime \in Nat
      BY <1>3, TickTypes, DayType DEF OccInv, Inv, BatchInv, TickTime
    <3>2. Inside(e.token, Instants[i])
      BY <1>10, <2>1, <3>1, StartsInside
    <3>4. i \in Nat
      BY DayType DEF Starts
    <3>5. job \in Jobs
      BY <2>1, <3>4 DEF Jobs
    <3>6. Timely(job)
      BY <3>2 DEF Timely
    <3> QED
      BY <3>5, <3>6 DEF TimelyJobs
  <2>3. ready' = [ready EXCEPT !["scheduled"] = Append(@, job)]
    BY <1>10
  <2> HIDE DEF job
  <2>4. Append(ready["scheduled"], job) \in Seq(TimelyJobs)
    BY <2>2, AppendProperties DEF OccInv, JobsInv
  <2>5. JobsInv'
    BY <1>1, <2>3, <2>4 DEF OccInv, JobsInv
  <2>6. \A p \in Ids, k \in Tokens :
           /\ handed[p][k] \in Nat
           /\ handed'[p][k] = IF p = e.project /\ k = e.token THEN handed[p][k] + 1 ELSE handed[p][k]
    BY <1>10, <2>1 DEF OccInv, HistoryInv
  <2>7. handed' \in [Ids -> [Tokens -> Nat]]
    <3>1. handed[e.project] \in [Tokens -> Nat]
      BY <2>1 DEF OccInv, HistoryInv
    <3>2. handed[e.project][e.token] + 1 \in Nat
      BY <2>1, <2>6
    <3>3. [handed[e.project] EXCEPT ![e.token] = @ + 1] \in [Tokens -> Nat]
      BY <2>1, <3>1, <3>2
    <3>4. handed' = [handed EXCEPT ![e.project] = [handed[e.project] EXCEPT ![e.token] = @ + 1]]
      BY <1>10, <2>1 DEF OccInv, HistoryInv
    <3> QED
      BY <2>1, <3>3, <3>4 DEF OccInv, HistoryInv
  <2>8. HistoryInv'
    BY <1>1, <1>8, <2>7 DEF OccInv, HistoryInv, Exists
  <2>9. ASSUME NEW p \in Ids, NEW k \in Tokens
        PROVE  Given(p, k)' <= Given(p, k)
    <3>1. /\ Given(p, k) = handed[p][k] + Pending(p, k)
          /\ Given(p, k)' = handed'[p][k] + Pending(p, k)'
      BY DEF Given
    <3>2. /\ Pending(p, k)' <= Pending(p, k) /\ Pending(p, k) \in {0, 1} /\ Pending(p, k)' \in {0, 1}
          /\ p = e.project => Pending(p, k)' = 0
          /\ p = e.project /\ k = e.token => Pending(p, k) = 1
      BY <1>6
    <3> HIDE DEF Pending
    <3>3. CASE p = e.project /\ k = e.token
      BY ONLY <2>6, <3>1, <3>2, <3>3, p \in Ids, k \in Tokens
    <3>4. CASE ~(p = e.project /\ k = e.token)
      BY ONLY <2>6, <3>1, <3>2, <3>4, p \in Ids, k \in Tokens
    <3> QED
      BY <3>3, <3>4
  <2>10. \A p \in Ids, k \in Tokens : p \notin born => handed'[p][k] = 0
    BY <2>1, <2>6 DEF OccInv, GivenInv
  <2>11. GivenInv'
    BY <1>1, <1>4, <1>7, <2>7, <2>9, <2>10, GivenBounded DEF Inv, Exists
  <2> QED
    BY <1>4, <1>5, <2>5, <2>8, <2>11 DEF OccInv
<1> QED
  BY <1>9, <1>10 DEF EnqueueOne
\* A token is its day and its part of the day.
LEMMA TokenEqual ==
    ASSUME NEW k \in Tokens, NEW l \in Tokens, k[1] = l[1], k[2] = l[2]
    PROVE  k = l
<1>1. ASSUME NEW m \in Tokens PROVE m = <<m[1], m[2]>>
  <2>1. CASE m = NoToken
    BY <2>1 DEF NoToken
  <2>2. CASE \E i \in DOMAIN Instants, s \in Offered : m = TokenAt(Instants[i], s.bucket)
    <3>1. PICK i \in DOMAIN Instants, s \in Offered : m = TokenAt(Instants[i], s.bucket)
      BY <2>2
    <3>2. m = <<Instants[i] \div 24 + 1, s.bucket>>
      BY <3>1 DEF TokenAt
    <3> QED
      BY <3>2
  <2> QED
    BY <1>1, <2>1, <2>2 DEF Tokens
<1>2. k = <<k[1], k[2]>> /\ l = <<l[1], l[2]>>
  BY <1>1
<1> QED
  BY <1>2

\* A mark is set only while it could be set, so it is given once more at most.
LEMMA VisitKeepsOcc ==
    ASSUME OccInv, NEW p \in Ids, Visit(p)
    PROVE  OccInv'
<1> DEFINE k0    == TokenAt(TickTime, store[p].selector.bucket)
           due   == Due(p, TickTime)
           b     == source.batch
           c     == source'.batch
           Batched == [project : Ids, token : Tokens, selector : Offered]
           entry == [project |-> p, token |-> k0, selector |-> store[p].selector]
<1>1. /\ UNCHANGED <<handed, edits, born, clock, ready, inflight>>
      /\ source \in Sources /\ source.pc = "visit" /\ p \in source.left /\ b \in Seq(Batched)
  BY DEF Visit, history, OccInv, Inv, ValuesInv, Sources, Batches
<1>2. PICK o \in {"done", "nothing", "unsure"} :
         /\ ~due => o = "done"
         /\ store' = IF due /\ Reached(o) THEN [store EXCEPT ![p].token = k0] ELSE store
         /\ source' = [source EXCEPT !.left = @ \ {p},
                  !.batch = IF due /\ o = "done" THEN Append(@, entry) ELSE @]
  BY DEF Visit, TickTime
<1>3. Inv' /\ JobsInv'
  BY <1>1, VisitKeepsInv DEF OccInv, JobsInv
<1>4. due => /\ Exists(p) /\ store[p] \in Records /\ store[p].selector \in Offered /\ k0 \in Tokens
             /\ k0[1] = TickDay /\ k0[2] = store[p].selector.bucket /\ store[p].token # k0
             /\ Matches(store[p].selector, TickTime) /\ p \in born
  <2> SUFFICES ASSUME due
               PROVE  /\ Exists(p) /\ store[p] \in Records /\ store[p].selector \in Offered /\ k0 \in Tokens
                      /\ k0[1] = TickDay /\ k0[2] = store[p].selector.bucket /\ store[p].token # k0
                      /\ Matches(store[p].selector, TickTime) /\ p \in born
    OBVIOUS
  <2>1. /\ Exists(p) /\ store[p].token # k0 /\ Matches(store[p].selector, TickTime) /\ p \in born
    BY DEF Due, Unmarked, OccInv, HistoryInv
  <2>2. store[p] \in Records /\ store[p].selector \in Offered
    BY <2>1 DEF OccInv, Inv, ValuesInv, Exists, Records
  <2>3. k0 \in Tokens
    BY <2>2, TickTypes, TokenType DEF OccInv, Inv, TickTime
  <2>4. k0[1] = TickDay /\ k0[2] = store[p].selector.bucket
    BY <1>1 DEF TokenAt, TickDay, TickIndex, Day, TickTime
  <2> QED
    BY <2>1, <2>2, <2>3, <2>4
<1>5. \A i \in DOMAIN b : b[i].project # p
  BY <1>1 DEF OccInv, BatchInv
<1> HIDE DEF due, k0
<1>6. /\ source'.pc = "visit" /\ source'.now = source.now /\ source'.left = source.left \ {p}
      /\ c = IF due /\ o = "done" THEN Append(b, entry) ELSE b
  BY <1>1, <1>2 DEF Sources
<1>7. TickTime' = TickTime /\ TickIndex' = TickIndex /\ TickDay' = TickDay
  BY <1>1, <1>6 DEF TickTime, TickIndex, TickDay
<1>8. Len(b) \in Nat /\ DOMAIN b = 1..Len(b)
  BY <1>1, LenProperties
<1>9. due /\ o = "done" => /\ DOMAIN c = 1..(Len(b) + 1) /\ c[Len(b) + 1] = entry
                           /\ \A i \in 1..Len(b) : c[i] = b[i]
  <2>1. due => entry \in Batched
    BY <1>4 DEF Records
  <2> HIDE DEF entry
  <2> QED
    BY <1>1, <1>6, <2>1, AppendProperties, LenProperties
<1>10. entry.project = p /\ entry.token = k0 /\ entry.selector = store[p].selector
  OBVIOUS
<1> HIDE DEF entry
<1>11. \A i \in DOMAIN c : \/ i \in DOMAIN b /\ c[i] = b[i]
                           \/ due /\ o = "done" /\ i = Len(b) + 1 /\ c[i] = entry
  <2>1. CASE due /\ o = "done"
    <3>1. ASSUME NEW i \in DOMAIN c PROVE i \in 1..Len(b) \/ i = Len(b) + 1
      BY <1>8, <1>9, <2>1
    <3> QED
      BY <1>8, <1>9, <2>1, <3>1
  <2>2. CASE ~(due /\ o = "done")
    BY <1>6, <2>2
  <2> QED
    BY <2>1, <2>2
<1>12. \A i \in DOMAIN b : i \in DOMAIN c /\ c[i] = b[i]
  BY <1>6, <1>8, <1>9
<1>13. BatchInv'
  <2>1. \A i, j \in DOMAIN c : c[i].project = c[j].project => i = j
    BY <1>5, <1>10, <1>11 DEF OccInv, BatchInv
  <2>2. \A i \in DOMAIN c : /\ c[i].project \notin source'.left
                            /\ Matches(c[i].selector, TickTime')
                            /\ c[i].token = TokenAt(TickTime', c[i].selector.bucket)
                            /\ c[i].project \in born'
    <3> SUFFICES ASSUME NEW i \in DOMAIN c
                 PROVE  /\ c[i].project \notin source'.left
                        /\ Matches(c[i].selector, TickTime')
                        /\ c[i].token = TokenAt(TickTime', c[i].selector.bucket)
                        /\ c[i].project \in born'
      OBVIOUS
    <3>1. CASE i \in DOMAIN b /\ c[i] = b[i]
      BY <1>1, <1>6, <1>7, <3>1 DEF OccInv, BatchInv
    <3>2. CASE due /\ c[i] = entry
      BY <1>1, <1>4, <1>6, <1>7, <1>10, <3>2 DEF k0
    <3> QED
      BY <1>11, <3>1, <3>2
  <2> QED
    BY <1>6, <2>1, <2>2 DEF BatchInv
<1>14. \A q \in Ids : store'[q] = IF due /\ Reached(o) /\ q = p THEN [store[p] EXCEPT !.token = k0] ELSE store[q]
  BY <1>2 DEF OccInv, Inv, ValuesInv
<1>15. HistoryInv'
  <2>1. \A q \in Ids : Exists(q)' => q \in born'
    BY <1>1, <1>4, <1>14 DEF OccInv, HistoryInv, Exists
  <2> QED
    BY <1>1, <1>6, <2>1 DEF OccInv, HistoryInv
<1>16. \A q \in Ids, k \in Tokens :
          Pending(q, k)' = IF due /\ o = "done" /\ q = p /\ k = k0 THEN 1 ELSE Pending(q, k)
  <2> SUFFICES ASSUME NEW q \in Ids, NEW k \in Tokens
               PROVE  Pending(q, k)' = IF due /\ o = "done" /\ q = p /\ k = k0 THEN 1 ELSE Pending(q, k)
    OBVIOUS
  <2> DEFINE before == \E i \in DOMAIN b : b[i].project = q /\ b[i].token = k
             after  == \E i \in DOMAIN c : c[i].project = q /\ c[i].token = k
  <2>1. before => after
    BY <1>12
  <2>2. after => before \/ (due /\ o = "done" /\ q = p /\ k = k0)
    BY <1>10, <1>11
  <2>3. due /\ o = "done" /\ q = p /\ k = k0 => after
    <3>1. due /\ o = "done" => Len(b) + 1 \in DOMAIN c
      BY <1>8, <1>9
    <3> QED
      BY <1>9, <1>10, <3>1
  <2>4. Pending(q, k) = (IF before THEN 1 ELSE 0) /\ Pending(q, k)' = (IF after THEN 1 ELSE 0)
    BY DEF Pending
  <2> HIDE DEF before, after
  <2> QED
    BY <2>1, <2>2, <2>3, <2>4
<1>17. \A q \in Ids, k \in Tokens : /\ handed[q][k] \in Nat /\ edits[q] \in Nat /\ Pending(q, k) \in {0, 1}
                                    /\ q = p => Pending(q, k) = 0
  BY <1>5 DEF OccInv, HistoryInv, Pending
<1>18. ASSUME NEW q \in Ids
       PROVE  /\ q \notin born' => \A k \in Tokens : handed'[q][k] = 0
              /\ Exists(q)' => store'[q].token[1] <= TickDay'
              /\ \A k \in Tokens : /\ Given(q, k)' <= 1 + edits'[q]
                                   /\ Open(q, k)' => Given(q, k)' <= edits'[q]
  <2>1. q \notin born' => \A k \in Tokens : handed'[q][k] = 0
    BY <1>1 DEF OccInv, GivenInv
  <2>2. TickDay \in Nat
    BY TickTypes DEF OccInv, Inv
  <2>3. CASE due /\ Reached(o) /\ q = p
    <3>1. store'[p] = [store[p] EXCEPT !.token = k0] /\ store[p] \in Records /\ Exists(p)
      BY <1>4, <1>14, <2>3
    <3>2. store'[p].token = k0 /\ store'[p].selector = store[p].selector
      BY <3>1 DEF Records
    <3>3. store'[q].token[1] <= TickDay'
      BY <1>4, <1>7, <2>2, <2>3, <3>2
    <3>4. ASSUME NEW k \in Tokens
          PROVE  /\ Given(q, k)' <= 1 + edits'[q]
                 /\ Open(q, k)' => Given(q, k)' <= edits'[q]
      <4>1. /\ Given(q, k) = handed[q][k] + 0
            /\ Given(q, k)' = handed[q][k] + (IF o = "done" /\ k = k0 THEN 1 ELSE 0)
        BY <1>1, <1>16, <1>17, <2>3 DEF Given
      <4>2. Given(q, k) <= 1 + edits[q] /\ (Open(q, k) => Given(q, k) <= edits[q])
        BY DEF OccInv, GivenInv
      <4>3. CASE k = k0
        <5>1. Open(q, k)
          BY <1>4, <2>2, <2>3, <4>3 DEF Open
        <5>2. ~Open(q, k)'
          BY <2>3, <3>2, <4>3 DEF Open
        <5> HIDE DEF Given, Open
        <5> QED
          BY <1>1, <1>17, <4>1, <4>2, <5>1, <5>2
      <4>4. CASE k # k0
        <5>1. Open(q, k)' => Open(q, k)
          <6> SUFFICES ASSUME Open(q, k)' PROVE Open(q, k)
            OBVIOUS
          <6>1. k[2] = store[p].selector.bucket /\ k[1] >= TickDay
            BY <1>7, <2>3, <3>2 DEF Open
          <6>2. store[p].token # k
            <7> SUFFICES ASSUME store[p].token = k PROVE FALSE
              OBVIOUS
            <7>1. k[1] <= TickDay /\ k[1] \in Int
              BY <3>1, TokenDays DEF OccInv, GivenInv
            <7>2. k[1] = k0[1] /\ k[2] = k0[2]
              <8> HIDE DEF TickDay
              <8> QED
                BY <1>4, <2>2, <2>3, <6>1, <7>1
            <7> QED
              BY <1>4, <2>3, <4>4, <7>2, TokenEqual
          <6> QED
            BY <2>3, <3>1, <6>1, <6>2 DEF Open
        <5> HIDE DEF Given, Open
        <5> QED
          BY <1>1, <1>17, <4>1, <4>2, <4>4, <5>1
      <4> QED
        BY <4>3, <4>4
    <3> QED
      BY <2>1, <3>3, <3>4
  <2>4. CASE ~(due /\ Reached(o) /\ q = p)
    <3>1. store'[q] = store[q]
      BY <1>14, <2>4
    <3>2. \A k \in Tokens : Pending(q, k)' = Pending(q, k)
      <4>1. o = "done" => Reached(o)
        BY DEF Reached
      <4> QED
        BY <1>16, <2>4, <4>1
    <3>3. \A k \in Tokens : Given(q, k)' = Given(q, k) /\ (Open(q, k)' => Open(q, k))
      BY <1>1, <1>7, <3>1, <3>2 DEF Given, Open, Exists
    <3>4. Exists(q)' => store'[q].token[1] <= TickDay'
      BY <1>7, <3>1 DEF OccInv, GivenInv, Exists
    <3> HIDE DEF Given, Open
    <3> QED
      BY <1>1, <2>1, <3>3, <3>4 DEF OccInv, GivenInv
  <2> QED
    BY <2>3, <2>4
<1>19. GivenInv'
  BY <1>18 DEF GivenInv
<1> QED
  BY <1>3, <1>13, <1>15, <1>19 DEF OccInv
-----------------------------------------------------------------------------
(* The pages' requests.                                                    *)

LEMMA RequestKeepsOcc ==
    ASSUME OccInv, Inv', NEW p \in Ids, UNCHANGED <<clock, source, ready, inflight>>,
           \A q \in Ids \ {p} : store'[q] = store[q] /\ handed'[q] = handed[q] /\ edits'[q] = edits[q],
           handed' \in [Ids -> [Tokens -> Nat]], edits' \in [Ids -> Nat],
           born \subseteq born', born' \subseteq born \cup {p},
           store'[p] # NoProject => p \in born' /\ store'[p].token[1] <= TickDay,
           p \notin born' => \A k \in Tokens : handed'[p][k] = 0,
           \A k \in Tokens :
              LET given == handed'[p][k] + Pending(p, k)
              IN  /\ given <= 1 + edits'[p]
                  /\ /\ store'[p] # NoProject /\ store'[p].token # k
                     /\ k[2] = store'[p].selector.bucket /\ k[1] >= TickDay
                     => given <= edits'[p]
    PROVE  OccInv'
<1>1. JobsInv'
  BY DEF OccInv, JobsInv
<1>2. HistoryInv'
  BY DEF OccInv, HistoryInv, Exists
<1>3. TickTime' = TickTime /\ TickIndex' = TickIndex /\ TickDay' = TickDay
  BY DEF TickTime, TickIndex, TickDay
<1>4. BatchInv'
  BY <1>3 DEF OccInv, BatchInv
<1>5. \A q \in Ids, k \in Tokens : Pending(q, k)' = Pending(q, k)
  BY DEF Pending
<1>6. ASSUME NEW q \in Ids
      PROVE  /\ q \notin born' => \A k \in Tokens : handed'[q][k] = 0
             /\ Exists(q)' => store'[q].token[1] <= TickDay'
             /\ \A k \in Tokens : /\ Given(q, k)' <= 1 + edits'[q]
                                  /\ Open(q, k)' => Given(q, k)' <= edits'[q]
  <2>1. CASE q = p
    BY <1>3, <1>5, <2>1 DEF Given, Open, Exists
  <2>2. CASE q # p
    <3>1. store'[q] = store[q] /\ handed'[q] = handed[q] /\ edits'[q] = edits[q]
      BY <2>2
    <3>2. \A k \in Tokens : Given(q, k)' = Given(q, k) /\ Open(q, k)' = Open(q, k)
      BY <1>3, <1>5, <3>1 DEF Given, Open, Exists
    <3>3. Exists(q)' = Exists(q) /\ (q \notin born' => q \notin born)
      BY <3>1 DEF Exists
    <3> HIDE DEF Given, Open, Exists
    <3> QED
      BY <1>3, <3>1, <3>2, <3>3 DEF OccInv, GivenInv
  <2> QED
    BY <2>1, <2>2
<1> QED
  BY <1>1, <1>2, <1>4, <1>6 DEF OccInv, GivenInv

\* What holds of the numbers of one project.
LEMMA NumberTypes ==
    ASSUME OccInv, NEW p \in Ids, NEW k \in Tokens
    PROVE  /\ handed[p][k] \in Nat /\ edits[p] \in Nat /\ Pending(p, k) \in {0, 1} /\ TickDay \in Nat
           /\ handed[p][k] + Pending(p, k) <= 1 + edits[p]
           /\ Open(p, k) => handed[p][k] + Pending(p, k) <= edits[p]
           /\ p \notin born => handed[p][k] = 0 /\ Pending(p, k) = 0
<1>1. handed[p][k] \in Nat /\ edits[p] \in Nat
  BY DEF OccInv, HistoryInv
<1>2. Pending(p, k) \in {0, 1} /\ (p \notin born => Pending(p, k) = 0)
  BY DEF Pending, OccInv, BatchInv
<1>3. TickDay \in Nat
  BY TickTypes DEF OccInv, Inv
<1>4. /\ handed[p][k] + Pending(p, k) <= 1 + edits[p]
      /\ Open(p, k) => handed[p][k] + Pending(p, k) <= edits[p]
      /\ p \notin born => handed[p][k] = 0
  <2>1. /\ Given(p, k) <= 1 + edits[p]
        /\ Open(p, k) => Given(p, k) <= edits[p]
        /\ p \notin born => handed[p][k] = 0
    BY DEF OccInv, GivenInv
  <2>2. Given(p, k) = handed[p][k] + Pending(p, k)
    BY DEF Given
  <2> HIDE DEF Given, Open, Pending
  <2> QED
    BY <2>1, <2>2
<1> QED
  BY <1>1, <1>2, <1>3, <1>4

LEMMA CreateKeepsOcc ==
    ASSUME OccInv, NEW p \in Ids, Create(p)
    PROVE  OccInv'
<1>1. /\ UNCHANGED <<clock, source, ready, inflight, handed, edits>>
      /\ p \notin born /\ born' = born \cup {p}
      /\ \/ store' = store
         \/ store' = [store EXCEPT ![p] = [task |-> NoTask, selector |-> DefaultSelector,
                                           enabled |-> FALSE, token |-> NoToken]]
  BY DEF Create
<1>2. Inv'
  BY CreateKeepsInv DEF OccInv
<1>3. store[p] = NoProject
  BY <1>1 DEF OccInv, HistoryInv, Exists
<1>4. \A q \in Ids \ {p} : store'[q] = store[q]
  BY <1>1 DEF OccInv, Inv, ValuesInv
<1>5. store'[p] = NoProject \/ store'[p].token[1] = 0
  <2>1. NoToken[1] = 0
    BY DEF NoToken
  <2>2. store'[p] = NoProject \/ store'[p].token = NoToken
    BY <1>1, <1>3 DEF OccInv, Inv, ValuesInv
  <2> QED
    BY <2>1, <2>2
<1>6. TickDay \in Nat
  BY TickTypes DEF OccInv, Inv
<1>7. store'[p] # NoProject => p \in born' /\ store'[p].token[1] <= TickDay
  <2> HIDE DEF TickDay
  <2> QED
    BY <1>1, <1>5, <1>6
<1>8. ASSUME NEW k \in Tokens
      PROVE  /\ handed'[p][k] + Pending(p, k) <= 1 + edits'[p]
             /\ handed'[p][k] + Pending(p, k) <= edits'[p]
  <2>1. edits[p] \in Nat /\ handed[p][k] = 0 /\ Pending(p, k) = 0
    BY <1>1, NumberTypes
  <2> QED
    BY <1>1, <2>1
<1>9. handed' \in [Ids -> [Tokens -> Nat]] /\ edits' \in [Ids -> Nat]
  BY <1>1 DEF OccInv, HistoryInv
<1> QED
  BY <1>1, <1>2, <1>4, <1>7, <1>8, <1>9, RequestKeepsOcc

\* A change of the selector pays for one more of every occurrence.
LEMMA UpdateKeepsOcc ==
    ASSUME OccInv, NEW p \in Ids, NEW new \in Fields \cup Combined, Update(p, new)
    PROVE  OccInv'
<1> DEFINE m == Merge(store[p], new)
<1>1. /\ UNCHANGED <<clock, source, ready, inflight, handed, born>> /\ Exists(p)
      /\ store' = store \/ store' = [store EXCEPT ![p] = m]
      /\ edits' = IF store'[p].selector # store[p].selector THEN [edits EXCEPT ![p] = @ + 1] ELSE edits
  BY DEF Update
<1>2. Inv'
  BY UpdateKeepsInv DEF OccInv
<1>3. store[p] \in Records /\ m \in Records /\ m.token = store[p].token
  <2>1. store[p] \in Records /\ Request(new)
    BY <1>1, FieldsAreRequests DEF OccInv, Inv, ValuesInv, Exists
  <2>2. m \in Records
    BY <2>1, MergeType
  <2>3. DOMAIN store[p] = {"task", "selector", "enabled", "token"} /\ "token" \notin DOMAIN new
    BY <2>1 DEF Records, Request
  <2>4. m["token"] = store[p]["token"]
    BY <2>3 DEF Merge
  <2> QED
    BY <2>1, <2>2, <2>4
<1> HIDE DEF m
<1>4. \A q \in Ids \ {p} : store'[q] = store[q] /\ edits'[q] = edits[q]
  BY <1>1 DEF OccInv, Inv, ValuesInv, HistoryInv
<1>5. store'[p].token = store[p].token /\ store'[p] # NoProject
  <2>1. store'[p] = store[p] \/ store'[p] = m
    BY <1>1 DEF OccInv, Inv, ValuesInv
  <2> QED
    BY <1>3, <2>1, ValuesAssumption
<1>6. store'[p] # NoProject => p \in born' /\ store'[p].token[1] <= TickDay
  BY <1>1, <1>5 DEF OccInv, HistoryInv, GivenInv
<1>7. edits' \in [Ids -> Nat] /\ handed' \in [Ids -> [Tokens -> Nat]]
  BY <1>1 DEF OccInv, HistoryInv
<1>8. edits'[p] = IF store'[p].selector # store[p].selector THEN edits[p] + 1 ELSE edits[p]
  BY <1>1 DEF OccInv, HistoryInv
<1>9. ASSUME NEW k \in Tokens
      PROVE  /\ handed'[p][k] + Pending(p, k) <= 1 + edits'[p]
             /\ /\ store'[p] # NoProject /\ store'[p].token # k
                /\ k[2] = store'[p].selector.bucket /\ k[1] >= TickDay
                => handed'[p][k] + Pending(p, k) <= edits'[p]
  <2>1. /\ handed[p][k] \in Nat /\ edits[p] \in Nat /\ Pending(p, k) \in {0, 1}
        /\ handed[p][k] + Pending(p, k) <= 1 + edits[p]
        /\ Open(p, k) => handed[p][k] + Pending(p, k) <= edits[p]
    BY NumberTypes
  <2>2. handed'[p][k] = handed[p][k]
    BY <1>1
  <2>3. CASE store'[p].selector # store[p].selector
    <3> HIDE DEF Open, Pending
    <3>1. edits'[p] = edits[p] + 1
      BY <1>8, <2>3
    <3> QED
      BY <2>1, <2>2, <3>1
  <2>4. CASE store'[p].selector = store[p].selector
    <3>1. edits'[p] = edits[p]
      BY <1>8, <2>4
    <3>2. /\ store'[p].token # k /\ k[2] = store'[p].selector.bucket /\ k[1] >= TickDay
          => Open(p, k)
      BY <1>1, <1>5, <2>4 DEF Open
    <3> HIDE DEF Open, Pending
    <3> QED
      BY <2>1, <2>2, <3>1, <3>2
  <2> QED
    BY <2>3, <2>4
<1>10. p \notin born' => \A k \in Tokens : handed'[p][k] = 0
  BY <1>5, <1>6
<1> QED
  BY <1>1, <1>2, <1>4, <1>6, <1>7, <1>9, <1>10, RequestKeepsOcc

LEMMA DeleteKeepsOcc ==
    ASSUME OccInv, NEW p \in Ids, Delete(p)
    PROVE  OccInv'
<1>1. PICK o \in {"done", "nothing", "half"} :
         /\ store' = IF Reached(o) THEN [store EXCEPT ![p] = NoProject] ELSE store
         /\ handed' = IF Reached(o) THEN [handed EXCEPT ![p] = NoneHanded] ELSE handed
         /\ edits' = IF Reached(o) THEN [edits EXCEPT ![p] = 0] ELSE edits
  BY DEF Delete
<1>2. UNCHANGED <<clock, source, ready, inflight, born>> /\ Exists(p)
  BY DEF Delete
<1>3. Inv'
  BY DeleteKeepsInv DEF OccInv
<1>4. CASE ~Reached(o)
  <2>1. UNCHANGED <<store, handed, edits>>
    BY <1>1, <1>4
  <2>2. JobsInv'
    BY <1>2 DEF OccInv, JobsInv
  <2> QED
    BY <1>2, <1>3, <2>1, <2>2, StillKeepsOcc
<1>5. CASE Reached(o)
  <2>1. /\ store' = [store EXCEPT ![p] = NoProject] /\ handed' = [handed EXCEPT ![p] = NoneHanded]
        /\ edits' = [edits EXCEPT ![p] = 0]
    BY <1>1, <1>5
  <2>2. \A q \in Ids \ {p} : store'[q] = store[q] /\ handed'[q] = handed[q] /\ edits'[q] = edits[q]
    BY <2>1 DEF OccInv, Inv, ValuesInv, HistoryInv
  <2>3. store'[p] = NoProject /\ handed'[p] = NoneHanded /\ edits'[p] = 0
    BY <2>1 DEF OccInv, Inv, ValuesInv, HistoryInv
  <2>4. NoneHanded \in [Tokens -> Nat] /\ \A k \in Tokens : NoneHanded[k] = 0
    BY DEF NoneHanded
  <2>5. handed' \in [Ids -> [Tokens -> Nat]] /\ edits' \in [Ids -> Nat]
    BY <2>1, <2>4 DEF OccInv, HistoryInv
  <2>6. ASSUME NEW k \in Tokens
        PROVE  handed'[p][k] + Pending(p, k) <= 1 + edits'[p] /\ handed'[p][k] = 0
    <3>1. Pending(p, k) \in {0, 1}
      BY DEF Pending
    <3> HIDE DEF Pending
    <3> QED
      BY <2>3, <2>4, <3>1
  <2> QED
    BY <1>2, <1>3, <2>2, <2>3, <2>5, <2>6, RequestKeepsOcc
<1> QED
  BY <1>4, <1>5

-----------------------------------------------------------------------------
(* The theorem.                                                            *)

LEMMA InitOcc == Init => OccInv
<1> SUFFICES ASSUME Init PROVE OccInv
  OBVIOUS
<1>1. Inv
  BY InitInv
<1>2. JobsInv
  <2>1. <<>> \in Seq(TimelyJobs)
    OBVIOUS
  <2> QED
    BY <2>1 DEF Init, JobsInv
<1>3. source.pc = "idle" /\ source.now = 1 /\ source.batch = <<>> /\ DOMAIN source.batch = {} /\ clock = 1
  BY EmptyBatch DEF Init
<1>4. NoneHanded \in [Tokens -> Nat] /\ \A k \in Tokens : NoneHanded[k] = 0
  BY DEF NoneHanded
<1>5. HistoryInv
  BY <1>3, <1>4 DEF Init, HistoryInv, Exists
<1>6. BatchInv
  BY <1>3 DEF BatchInv
<1>7. ASSUME NEW p \in Ids, NEW k \in Tokens
      PROVE  handed[p][k] = 0 /\ edits[p] = 0 /\ ~Exists(p) /\ Given(p, k) = 0
  <2>1. handed[p][k] = 0 /\ edits[p] = 0 /\ ~Exists(p)
    BY <1>4 DEF Init, Exists
  <2>2. Pending(p, k) = 0
    BY <1>3 DEF Pending
  <2> QED
    BY <2>1, <2>2 DEF Given
<1>8. GivenInv
  <2>1. \A p \in Ids : ~Exists(p)
    BY DEF Init, Exists
  <2> QED
    BY <1>7, <2>1 DEF GivenInv, Open
<1> QED
  BY <1>1, <1>2, <1>5, <1>6, <1>8 DEF OccInv

LEMMA NextKeepsOcc ==
    ASSUME OccInv, [Next]_vars
    PROVE  OccInv'
<1>1. CASE UNCHANGED vars
  <2>1. Inv'
    BY <1>1, NextKeepsInv DEF OccInv
  <2>2. JobsInv'
    BY <1>1 DEF OccInv, JobsInv, vars
  <2> QED
    BY <1>1, <2>1, <2>2, StillKeepsOcc DEF vars
<1>2. CASE \E p \in Ids : Create(p) \/ Delete(p) \/ RunNow(p)
  BY <1>2, CreateKeepsOcc, DeleteKeepsOcc, RunNowKeepsOcc
<1>3. CASE \E p \in Ids : \E new \in Fields \cup Combined : Update(p, new)
  BY <1>3, UpdateKeepsOcc
<1>4. CASE \E flag \in BOOLEAN : SetSchedulerPaused(flag)
  BY <1>4, PauseKeepsOcc
<1>5. CASE SourceStep
  BY <1>5, TickKeepsOcc, ListKeepsOcc, VisitKeepsOcc, ListedKeepsOcc, EnqueueOneKeepsOcc DEF SourceStep
<1>6. CASE WorkerStep
  BY <1>6, AcquireKeepsOcc, WorkKeepsOcc, EndKeepsOcc DEF WorkerStep
<1>7. CASE \E all \in BOOLEAN : Cancel(all)
  BY <1>7, CancelKeepsOcc
<1>8. CASE Wait
  BY <1>8, WaitKeepsOcc
<1>9. CASE Crash
  BY <1>9, CrashKeepsOcc
<1> QED
  BY <1>1, <1>2, <1>3, <1>4, <1>5, <1>6, <1>7, <1>8, <1>9 DEF Next

LEMMA OccGivesOnce == OccInv => OncePerOccurrence
<1> SUFFICES ASSUME OccInv PROVE OncePerOccurrence
  OBVIOUS
<1>1. ASSUME NEW p \in Ids, NEW k \in Tokens
      PROVE  handed[p][k] <= 1 + edits[p]
  <2>1. /\ handed[p][k] \in Nat /\ edits[p] \in Nat /\ Pending(p, k) \in {0, 1}
        /\ handed[p][k] + Pending(p, k) <= 1 + edits[p]
    BY NumberTypes
  <2> HIDE DEF Pending
  <2> QED
    BY ONLY <2>1
<1>2. AllJobs \subseteq TimelyJobs
  <2>1. /\ ready["interactive"] \in Seq(TimelyJobs) /\ ready["scheduled"] \in Seq(TimelyJobs)
        /\ inflight = NoJob \/ inflight \in TimelyJobs
    BY DEF OccInv, JobsInv
  <2>2. ToSet(ready["interactive"]) \subseteq TimelyJobs /\ ToSet(ready["scheduled"]) \subseteq TimelyJobs
    BY <2>1, ElementOfSeq, LenProperties DEF ToSet
  <2> QED
    BY <2>1, <2>2 DEF AllJobs
<1> QED
  BY <1>1, <1>2 DEF OncePerOccurrence, TimelyJobs, Timely

\* An occurrence is handed to the queue at most once for each setting of the
\* selector, whatever fails, dies or is edited between its mark and its job;
\* and a delayed start stays inside the occurrence the job was made for.
THEOREM HandedOncePerOccurrence == Spec => []OncePerOccurrence
<1>1. OccInv /\ [Next]_vars => OccInv'
  BY NextKeepsOcc
<1> QED
  BY InitOcc, <1>1, OccGivesOnce, PTL DEF Spec
-----------------------------------------------------------------------------
(* Marks and summaries.                                                    *)

\* A mark never gives way to an earlier one, and a project that is gone does
\* not come back.
Stands(q) ==
    \/ store'[q] = store[q]
    \/ store'[q] = NoProject
    \/ q \notin born
    \/ Exists(q) /\ store'[q].token[1] >= store[q].token[1]

LEMMA PagesKeepRecords ==
    ASSUME OccInv, NEW p \in Ids,
           Create(p) \/ Delete(p) \/ \E new \in Fields \cup Combined : Update(p, new)
    PROVE  born \subseteq born' /\ \A q \in Ids : Stands(q)
<1>1. born \subseteq born'
  BY DEF Create, Delete, Update
<1>2. store \in [Ids -> Records \cup {NoProject}]
  BY DEF OccInv, Inv, ValuesInv
<1>3. CASE Create(p)
  <2>1. PICK new : store' = store \/ store' = [store EXCEPT ![p] = new]
    BY <1>3 DEF Create
  <2>2. p \notin born /\ \A q \in Ids \ {p} : store'[q] = store[q]
    BY <1>2, <1>3, <2>1 DEF Create
  <2> QED
    BY <1>1, <2>2 DEF Stands
<1>4. CASE Delete(p)
  <2>1. store' = store \/ store' = [store EXCEPT ![p] = NoProject]
    BY <1>4 DEF Delete
  <2> QED
    BY <1>1, <1>2, <2>1 DEF Stands
<1>5. CASE \E new \in Fields \cup Combined : Update(p, new)
  <2>1. PICK new \in Fields \cup Combined : Update(p, new)
    BY <1>5
  <2> DEFINE m == Merge(store[p], new)
  <2>2. Exists(p) /\ (store' = store \/ store' = [store EXCEPT ![p] = m])
    BY <2>1 DEF Update
  <2>3. store[p] \in Records /\ Request(new)
    BY <1>2, <2>2, FieldsAreRequests DEF Exists
  <2>4. m.token = store[p].token
    <3>1. DOMAIN store[p] = {"task", "selector", "enabled", "token"} /\ "token" \notin DOMAIN new
      BY <2>3 DEF Records, Request
    <3>2. m["token"] = store[p]["token"]
      BY <3>1 DEF Merge
    <3> QED
      BY <3>2
  <2>5. store[p].token[1] \in Int
    <3>1. store[p].token \in Tokens
      BY <2>3 DEF Records
    <3> QED
      BY <3>1, TokenDays
  <2> HIDE DEF m
  <2>6. store'[p] = store[p] \/ store'[p].token[1] >= store[p].token[1]
    BY <1>2, <2>2, <2>4, <2>5
  <2>7. \A q \in Ids \ {p} : store'[q] = store[q]
    BY <1>2, <2>2
  <2> QED
    BY <1>1, <2>2, <2>6, <2>7 DEF Stands
<1> QED
  BY <1>3, <1>4, <1>5

LEMMA VisitKeepsRecords ==
    ASSUME OccInv, NEW p \in Ids, Visit(p)
    PROVE  born \subseteq born' /\ \A q \in Ids : Stands(q)
<1> DEFINE k0  == TokenAt(TickTime, store[p].selector.bucket)
           due == Due(p, TickTime)
<1>1. store \in [Ids -> Records \cup {NoProject}]
  BY DEF OccInv, Inv, ValuesInv
<1>2. /\ born' = born /\ source.pc = "visit"
      /\ \/ store' = store
         \/ due /\ store' = [store EXCEPT ![p].token = k0]
  BY DEF Visit, history, TickTime
<1>3. k0[1] = TickDay
  BY <1>2 DEF TokenAt, TickDay, TickIndex, Day, TickTime
<1>4. due => Exists(p)
  BY DEF Due
<1> HIDE DEF k0, due
<1>5. \A q \in Ids \ {p} : store'[q] = store[q]
  BY <1>1, <1>2
<1>6. ASSUME Exists(p), store' = [store EXCEPT ![p].token = k0]
      PROVE  store'[p].token[1] >= store[p].token[1]
  <2>1. store[p] \in Records
    BY <1>1, <1>6 DEF Exists
  <2>2. store'[p].token = k0
    BY <1>1, <1>6, <2>1 DEF Records
  <2>3. store[p].token[1] \in Int
    <3>1. store[p].token \in Tokens
      BY <2>1 DEF Records
    <3> QED
      BY <3>1, TokenDays
  <2>4. store[p].token[1] <= TickDay /\ TickDay \in Nat
    BY <1>6, TickTypes DEF OccInv, GivenInv, Inv
  <2> HIDE DEF TickDay
  <2> QED
    BY <1>3, <2>2, <2>3, <2>4
<1> QED
  BY <1>2, <1>4, <1>5, <1>6 DEF Stands

LEMMA RecordsAlwaysStand ==
    ASSUME OccInv, [Next]_vars
    PROVE  born \subseteq born' /\ \A q \in Ids : Stands(q)
<1>1. CASE UNCHANGED <<store, born>>
  BY <1>1 DEF Stands
<1>2. CASE \E p \in Ids : Create(p) \/ Delete(p) \/ \E new \in Fields \cup Combined : Update(p, new)
  BY <1>2, PagesKeepRecords
<1>3. CASE \E p \in Ids : Visit(p)
  BY <1>3, VisitKeepsRecords
<1>4. CASE SaveRun
  <2>1. worker.current = store[inflight.project] /\ born' = born
    BY <1>4 DEF SaveRun, history, OccInv, Inv, CurrentInv
  <2>2. store' = [store EXCEPT ![inflight.project] = worker.current] \/ store' = store
    BY <1>4 DEF SaveRun
  <2>3. store' = store
    BY <2>1, <2>2 DEF OccInv, Inv, ValuesInv
  <2> QED
    BY <1>1, <2>1, <2>3
<1>5. CASE UNCHANGED vars
  BY <1>1, <1>5 DEF vars
<1>6. CASE \E p \in Ids : RunNow(p)
  BY <1>1, <1>6 DEF RunNow, history
<1>7. CASE \E b \in BOOLEAN : SetSchedulerPaused(b) \/ Cancel(b)
  BY <1>1, <1>7 DEF SetSchedulerPaused, Cancel, history
<1>8. CASE Tick \/ List \/ Listed \/ EnqueueOne
  BY <1>1, <1>8 DEF Tick, List, Listed, EnqueueOne, history
<1>9. CASE Acquire \/ Begin \/ RunTask \/ Record \/ Trim \/ End
  BY <1>1, <1>9 DEF Acquire, Begin, RunTask, Record, Trim, End, history
<1>10. CASE Wait \/ Crash
  BY <1>1, <1>10 DEF Wait, Crash, history
<1> QED
  BY <1>2, <1>3, <1>4, <1>5, <1>6, <1>7, <1>8, <1>9, <1>10 DEF Next, SourceStep, WorkerStep

\* A run that has not failed has written its summary when it leaves the record,
\* or has found the project gone for good.
SummaryInv ==
    /\ worker.pc \in {"run", "record", "trim", "save"} => inflight.project \in born
    /\ worker.pc \in {"trim", "save"} /\ ~worker.failed => worker.recorded
    /\ worker.pc = "end" /\ ~worker.failed =>
          \/ worker.recorded
          \/ inflight.project \in born /\ ~Exists(inflight.project)

\* Where the worker goes on with the same job, or drops it.
LEMMA SummaryStep ==
    ASSUME OccInv, SummaryInv, [Next]_vars, OccInv',
           \/ UNCHANGED <<worker, inflight>>
           \/ worker'.pc \in {"idle", "get"}
           \/ /\ inflight' = inflight /\ worker'.pc = worker.pc /\ worker'.failed = worker.failed
              /\ worker'.recorded = worker.recorded
    PROVE  SummaryInv'
<1>1. CASE worker'.pc \in {"idle", "get"}
  BY <1>1 DEF SummaryInv
<1>2. CASE /\ inflight' = inflight /\ worker'.pc = worker.pc /\ worker'.failed = worker.failed
           /\ worker'.recorded = worker.recorded
  <2>1. born \subseteq born' /\ born \subseteq Ids /\ \A q \in Ids : Stands(q)
    BY RecordsAlwaysStand DEF OccInv, HistoryInv
  <2>2. ASSUME inflight.project \in born, ~Exists(inflight.project)
        PROVE  inflight.project \in born' /\ ~Exists(inflight.project)'
    BY <1>2, <2>1, <2>2 DEF Stands, Exists
  <2> QED
    BY <1>2, <2>1, <2>2 DEF SummaryInv
<1> QED
  BY <1>1, <1>2

LEMMA BeginKeepsSummary ==
    ASSUME OccInv, SummaryInv, Begin
    PROVE  SummaryInv'
<1>1. worker \in Workers /\ inflight' = inflight /\ born' = born /\ inflight \in Jobs
  BY DEF Begin, history, OccInv, Inv, ValuesInv, HolderInv
<1>2. CASE Exists(inflight.project) /\ worker' = [worker EXCEPT !.pc = "run"]
  <2>1. inflight.project \in born
    BY <1>1, <1>2 DEF OccInv, HistoryInv, Jobs
  <2>2. worker'.pc = "run"
    BY <1>1, <1>2 DEF Workers
  <2> QED
    BY <1>1, <2>1, <2>2 DEF SummaryInv
<1>3. CASE worker' = [worker EXCEPT !.pc = "end", !.failed = TRUE]
  <2>1. worker'.pc = "end" /\ worker'.failed
    BY <1>1, <1>3 DEF Workers
  <2> QED
    BY <2>1 DEF SummaryInv
<1> QED
  BY <1>2, <1>3 DEF Begin

LEMMA RunTaskKeepsSummary ==
    ASSUME OccInv, SummaryInv, RunTask
    PROVE  SummaryInv'
<1>1. worker \in Workers /\ inflight' = inflight /\ born' = born /\ worker.pc = "run"
  BY DEF RunTask, history, OccInv, Inv, ValuesInv
<1>2. worker'.pc = "record"
  BY <1>1 DEF RunTask, Workers
<1> QED
  BY <1>1, <1>2 DEF SummaryInv

LEMMA RecordKeepsSummary ==
    ASSUME OccInv, SummaryInv, Record
    PROVE  SummaryInv'
<1>1. /\ worker \in Workers /\ inflight' = inflight /\ born' = born /\ store' = store
      /\ inflight.project \in born /\ worker.pc = "record"
  BY DEF Record, OccInv, Inv, ValuesInv, SummaryInv
<1>2. ASSUME NEW o \in {"done", "nothing", "unsure"},
             worker' = [worker EXCEPT !.pc = "trim", !.current = store[inflight.project],
                                      !.recorded = Reached(o), !.failed = Failed(worker, o)]
      PROVE  SummaryInv'
  <2>1. worker'.pc = "trim" /\ worker'.recorded = Reached(o) /\ worker'.failed = Failed(worker, o)
    BY <1>1, <1>2 DEF Workers
  <2>2. ~worker'.failed => worker'.recorded
    <3>1. ~Failed(worker, o) => Reached(o)
      BY DEF Failed, Reached
    <3> QED
      BY <2>1, <3>1, Zenon
  <2> QED
    BY <1>1, <2>1, <2>2 DEF SummaryInv
<1>3. CASE ~Recordable(inflight.project) /\ worker' = [worker EXCEPT !.pc = "end"]
  <2>1. worker'.pc = "end" /\ ~Exists(inflight.project)'
    BY <1>1, <1>3 DEF Workers, Recordable, Exists
  <2> QED
    BY <1>1, <2>1 DEF SummaryInv
<1>4. CASE worker' = [worker EXCEPT !.pc = "end", !.failed = TRUE]
  <2>1. worker'.pc = "end" /\ worker'.failed
    BY <1>1, <1>4 DEF Workers
  <2> QED
    BY <2>1 DEF SummaryInv
<1> QED
  BY <1>2, <1>3, <1>4 DEF Record

LEMMA FinishKeepsSummary ==
    ASSUME OccInv, SummaryInv, Trim \/ SaveRun
    PROVE  SummaryInv'
<1>1. PICK o \in {"done", "nothing", "unsure"}, next \in {"save", "end"} :
         worker' = [worker EXCEPT !.pc = next, !.failed = Failed(worker, o)]
  BY DEF Trim, SaveRun
<1>2. /\ worker \in Workers /\ inflight' = inflight /\ born' = born
      /\ worker.pc \in {"trim", "save"} /\ inflight.project \in born
      /\ ~worker.failed => worker.recorded
  BY DEF Trim, SaveRun, history, OccInv, Inv, ValuesInv, SummaryInv
<1>3. worker'.pc = next /\ worker'.failed = Failed(worker, o) /\ worker'.recorded = worker.recorded
  BY <1>1, <1>2 DEF Workers
<1>4. ~worker'.failed => worker'.recorded
  <2>1. ~Failed(worker, o) => ~worker.failed
    BY DEF Failed
  <2> QED
    BY <1>2, <1>3, <2>1, Zenon
<1> QED
  BY <1>2, <1>3, <1>4 DEF SummaryInv

LEMMA NextKeepsSummary ==
    ASSUME OccInv, SummaryInv, [Next]_vars, OccInv'
    PROVE  SummaryInv'
<1>1. CASE Begin \/ RunTask \/ Record \/ Trim \/ SaveRun
  BY <1>1, BeginKeepsSummary, RunTaskKeepsSummary, RecordKeepsSummary, FinishKeepsSummary
<1>2. CASE UNCHANGED <<worker, inflight>>
  BY <1>2, SummaryStep
<1>3. CASE Acquire
  <2>1. UNCHANGED <<worker, inflight>> \/ worker' = [IdleWorker EXCEPT !.pc = "get"]
    BY <1>3 DEF Acquire
  <2>2. [IdleWorker EXCEPT !.pc = "get"].pc = "get"
    BY DEF IdleWorker
  <2> QED
    BY <2>1, <2>2, SummaryStep
<1>4. CASE End \/ Crash
  <2>1. worker'.pc = "idle"
    BY <1>4 DEF End, Crash, IdleWorker
  <2> QED
    BY <2>1, SummaryStep
<1>5. CASE \E all \in BOOLEAN : Cancel(all)
  <2>1. inflight' = inflight /\ (worker' = worker \/ worker' = [worker EXCEPT !.cancelled = TRUE])
    BY <1>5 DEF Cancel
  <2>2. /\ worker'.pc = worker.pc /\ worker'.failed = worker.failed
        /\ worker'.recorded = worker.recorded
    BY <2>1 DEF OccInv, Inv, ValuesInv, Workers
  <2> QED
    BY <2>1, <2>2, SummaryStep
<1>6. CASE UNCHANGED vars
  BY <1>2, <1>6 DEF vars
<1>7. CASE \E p \in Ids : \/ Create(p) \/ Delete(p) \/ RunNow(p) \/ Visit(p)
                          \/ \E new \in Fields \cup Combined : Update(p, new)
  BY <1>2, <1>7 DEF Create, Delete, RunNow, Visit, Update
<1>8. CASE Tick \/ List \/ Listed \/ EnqueueOne \/ Wait \/ \E b \in BOOLEAN : SetSchedulerPaused(b)
  BY <1>2, <1>8 DEF Tick, List, Listed, EnqueueOne, Wait, SetSchedulerPaused
<1> QED
  BY <1>1, <1>3, <1>4, <1>5, <1>6, <1>7, <1>8 DEF Next, SourceStep, WorkerStep

RecordsStep ==
    /\ \A p \in Ids : Exists(p) /\ store'[p] # NoProject => store'[p].token[1] >= store[p].token[1]
    /\ worker.pc = "end" /\ worker'.pc = "idle" /\ ~worker.failed /\ ~worker.cancelled
          => worker.recorded \/ ~Exists(inflight.project)

LEMMA NextStands ==
    ASSUME OccInv, SummaryInv, [Next]_vars
    PROVE  RecordsStep
<1>1. ASSUME NEW p \in Ids, Exists(p), store'[p] # NoProject
      PROVE  store'[p].token[1] >= store[p].token[1]
  <2>1. Stands(p) /\ p \in born
    BY <1>1, RecordsAlwaysStand DEF OccInv, HistoryInv
  <2>2. store[p].token[1] \in Int
    <3>1. store[p].token \in Tokens
      BY <1>1 DEF OccInv, Inv, ValuesInv, Exists, Records
    <3> QED
      BY <3>1, TokenDays
  <2>3. CASE store'[p] = store[p]
    BY <2>2, <2>3
  <2> QED
    BY <1>1, <2>1, <2>3 DEF Stands
<1> QED
  BY <1>1 DEF RecordsStep, SummaryInv

\* No mark is erased or turned back by whoever writes a record, and a job that
\* is acknowledged as successful has its summary, or a project that was deleted.
THEOREM MarksAndSummariesStand == Spec => RecordsStand
<1>1. Init => OccInv /\ SummaryInv
  <2>1. Init => SummaryInv
    BY DEF Init, IdleWorker, SummaryInv
  <2> QED
    BY <2>1, InitOcc
<1>2. OccInv /\ SummaryInv /\ [Next]_vars => (OccInv /\ SummaryInv)'
  BY NextKeepsOcc, NextKeepsSummary
<1>3. OccInv /\ SummaryInv /\ [Next]_vars => [RecordsStep]_vars
  BY NextStands
<1> QED
  BY <1>1, <1>2, <1>3, PTL DEF Spec, RecordsStand, RecordsStep
=============================================================================
