------------------------- MODULE ConversationProofs -------------------------
(***************************************************************************)
(* For any sets of questions and connections, any caps and any number of   *)
(* crashes, failing commands, clears and stops: the order of the stored    *)
(* conversation, what a job finds in it, the statistic, the answers of     *)
(* Telegram jobs, and the agreement of the three copies.                   *)
(***************************************************************************)
EXTENDS Conversation, SequenceTheorems, FiniteSetTheorems, TLAPS

-----------------------------------------------------------------------------
(* What the list commands do to the elements of a list.                    *)

\* LTRIM keeps a list of the same elements, no longer than its cap.
LEMMA KeepLastType ==
    ASSUME NEW S, NEW s \in Seq(S), NEW n \in Nat
    PROVE  KeepLast(s, n) \in Seq(S) /\ Len(KeepLast(s, n)) <= n
<1>1. CASE Len(s) <= n
  BY <1>1 DEF KeepLast
<1>2. CASE ~(Len(s) <= n)
  <2>1. /\ Len(s) \in Nat
        /\ Len(s) - n + 1 \in 1..(Len(s) + 1)
    BY <1>2, LenProperties
  <2>2. /\ SubSeq(s, Len(s) - n + 1, Len(s)) \in Seq(S)
        /\ Len(SubSeq(s, Len(s) - n + 1, Len(s))) <= n
    BY <2>1, SubSeqProperties, \A i \in 1..Len(s) : s[i] \in S
  <2>3. QED
    BY <1>2, <2>2 DEF KeepLast
<1>3. QED
  BY <1>1, <1>2

\* RPUSH adds one element and keeps the others.
LEMMA AppendRange ==
    ASSUME NEW S, NEW s \in Seq(S), NEW x \in S
    PROVE  /\ Append(s, x) \in Seq(S)
           /\ Range(Append(s, x)) = Range(s) \cup {x}
<1>1. /\ Append(s, x) \in Seq(S)
      /\ Len(Append(s, x)) = Len(s) + 1
      /\ \A i \in 1..Len(s) : Append(s, x)[i] = s[i]
      /\ Append(s, x)[Len(s) + 1] = x
  BY AppendProperties
<1>2. Range(Append(s, x)) = {Append(s, x)[i] : i \in 1..(Len(s) + 1)}
  BY <1>1, RangeEquality
<1>3. Range(s) = {s[i] : i \in 1..Len(s)}
  BY RangeEquality
<1>4. Len(s) \in Nat
  BY LenProperties
<1>5. QED
  BY <1>1, <1>2, <1>3, <1>4

\* LMOVE ... LEFT takes the first element and keeps the others.
LEMMA HeadTailRange ==
    ASSUME NEW S, NEW s \in Seq(S), s # <<>>
    PROVE  /\ Head(s) \in S /\ Tail(s) \in Seq(S)
           /\ Range(s) = {Head(s)} \cup Range(Tail(s))
<1>1. /\ Head(s) \in S /\ Tail(s) \in Seq(S)
      /\ Len(Tail(s)) = Len(s) - 1
      /\ \A i \in 1..Len(Tail(s)) : Tail(s)[i] = s[i + 1]
  BY HeadTailProperties
<1>2. Head(s) = s[1] /\ Len(s) \in Nat \ {0}
  BY LenProperties, EmptySeq
<1>3. Range(s) = {s[i] : i \in 1..Len(s)}
  BY RangeEquality
<1>4. Range(Tail(s)) = {Tail(s)[i] : i \in 1..Len(Tail(s))}
  BY <1>1, RangeEquality
<1>5. Range(s) \subseteq {Head(s)} \cup Range(Tail(s))
  <2> SUFFICES ASSUME NEW i \in 1..Len(s) PROVE s[i] \in {Head(s)} \cup Range(Tail(s))
    BY <1>3
  <2>1. CASE i = 1
    BY <2>1, <1>2
  <2>2. CASE i # 1
    <3>1. i - 1 \in 1..Len(Tail(s)) /\ s[i] = Tail(s)[i - 1]
      BY <2>2, <1>1, <1>2
    <3>2. QED
      BY <3>1, <1>4
  <2>3. QED
    BY <2>1, <2>2
<1>6. {Head(s)} \cup Range(Tail(s)) \subseteq Range(s)
  BY <1>1, <1>2, <1>3, <1>4
<1>7. QED
  BY <1>1, <1>5, <1>6

\* The list t consists of elements that s has at distinct positions.
Selected(t, s) ==
    \E from \in [DOMAIN t -> DOMAIN s] :
        /\ \A i, k \in DOMAIN t : from[i] = from[k] => i = k
        /\ \A i \in DOMAIN t : t[i] = s[from[i]]

\* A sieve returns a sequence of the elements at the chosen positions, all of them,
\* each once.
LEMMA SieveRange ==
    ASSUME NEW S, NEW s \in Seq(S), NEW keep \in SUBSET (1..Len(s))
    PROVE  /\ Sieve(s, keep) \in Seq(S)
           /\ Range(Sieve(s, keep)) = {s[i] : i \in keep}
           /\ Selected(Sieve(s, keep), s)
<1> DEFINE n == Cardinality(keep)
           below(i) == {m \in keep : m <= i}
           rank == [i \in keep |-> Cardinality({m \in keep : m <= i})]
           nth == [k \in 1..n |-> CHOOSE i \in keep : rank[i] = k]
<1>1. Len(s) \in Nat /\ IsFiniteSet(1..Len(s))
  BY LenProperties, FS_Interval
<1>2. IsFiniteSet(keep) /\ n \in Nat
  BY <1>1, FS_Subset, FS_CardinalityType
<1>3. ASSUME NEW i \in keep PROVE rank[i] \in 1..n
  <2>1. below(i) \in SUBSET keep /\ i \in below(i)
    BY <1>1
  <2>2. /\ IsFiniteSet(below(i)) /\ Cardinality(below(i)) <= n
        /\ Cardinality(below(i)) \in Nat /\ Cardinality(below(i)) # 0
    BY <1>2, <2>1, FS_Subset, FS_CardinalityType, FS_EmptySet
  <2>3. QED
    BY <1>2, <2>2
<1>4. ASSUME NEW i \in keep, NEW j \in keep, i < j PROVE rank[i] # rank[j]
  <2>1. below(i) \in SUBSET below(j) /\ j \in below(j) /\ j \notin below(i)
    <3>1. i \in Int /\ j \in Int /\ \A m \in keep : m \in Int
      BY <1>1
    <3>2. \A m \in keep : m <= i => m <= j
      BY <1>4, <3>1
    <3>3. j <= j /\ ~(j <= i)
      BY <1>4, <3>1
    <3>4. QED
      BY <3>2, <3>3
  <2>2. below(j) \in SUBSET keep /\ IsFiniteSet(below(j))
    BY <1>2, FS_Subset
  <2>3. Cardinality(below(i)) # Cardinality(below(j))
    BY <2>1, <2>2, FS_Subset
  <2>4. QED
    BY <2>3
<1>5. rank \in Injection(keep, 1..n)
  <2>1. rank \in [keep -> 1..n]
    BY <1>3
  <2>2. \A i, j \in keep : rank[i] = rank[j] => i = j
    <3> SUFFICES ASSUME NEW i \in keep, NEW j \in keep, i # j PROVE rank[i] # rank[j]
      OBVIOUS
    <3>1. i < j \/ j < i
      BY <1>1
    <3>2. QED
      BY <1>4, <3>1
  <2>3. QED
    BY <2>1, <2>2 DEF Injection, IsInjective
<1>6. rank \in Surjection(keep, 1..n)
  <2>1. IsFiniteSet(1..n) /\ Cardinality(1..n) = n
    BY <1>2, FS_Interval
  <2>2. QED
    BY <1>5, <2>1, FS_Injection
<1>7. ASSUME NEW k \in 1..n PROVE nth[k] \in keep /\ rank[nth[k]] = k
  BY <1>6 DEF Surjection
<1>8. ASSUME NEW i \in keep PROVE nth[rank[i]] = i
  BY <1>3, <1>5, <1>7 DEF Injection, IsInjective
<1>9. Sieve(s, keep) = [k \in 1..n |-> s[nth[k]]]
  BY DEF Sieve
<1>10. \A k \in 1..n : s[nth[k]] \in S
  BY <1>7, ElementOfSeq
<1>11. Sieve(s, keep) \in Seq(S) /\ DOMAIN Sieve(s, keep) = 1..n
  <2> HIDE DEF n, nth
  <2>1. Sieve(s, keep) \in [1..n -> S]
    BY <1>9, <1>10
  <2>2. QED
    BY <1>2, <2>1, SeqDef
<1>12. Range(Sieve(s, keep)) = {s[nth[k]] : k \in 1..n}
  <2> HIDE DEF n, nth
  <2>1. QED
    BY <1>9, <1>11 DEF Range
<1>13. Range(Sieve(s, keep)) \subseteq {s[i] : i \in keep}
  <2> HIDE DEF n, nth
  <2>1. QED
    BY <1>7, <1>12
<1>14. {s[i] : i \in keep} \subseteq Range(Sieve(s, keep))
  <2> SUFFICES ASSUME NEW i \in keep PROVE s[i] \in Range(Sieve(s, keep))
    OBVIOUS
  <2>1. rank[i] \in 1..n /\ nth[rank[i]] = i
    BY <1>3, <1>8
  <2> HIDE DEF n, nth, rank
  <2>2. QED
    BY <1>12, <2>1
<1>15. Selected(Sieve(s, keep), s)
  <2>1. DOMAIN s = 1..Len(s) /\ nth \in [1..n -> DOMAIN s]
    <3>1. DOMAIN s = 1..Len(s) /\ keep \subseteq DOMAIN s
      OBVIOUS
    <3>2. \A k \in 1..n : nth[k] \in DOMAIN s
      BY <1>7, <3>1
    <3> HIDE DEF n, rank
    <3>3. nth \in [1..n -> DOMAIN s]
      BY <3>2, Zenon
    <3>4. QED
      BY <3>1, <3>3
  <2>2. \A k, m \in 1..n : nth[k] = nth[m] => k = m
    BY <1>7
  <2> HIDE DEF n, nth
  <2>3. \A k \in 1..n : Sieve(s, keep)[k] = s[nth[k]]
    BY <1>9
  <2>4. QED
    BY <1>11, <2>1, <2>2, <2>3 DEF Selected
<1>16. QED
  BY <1>11, <1>13, <1>14, <1>15

\* LMOVE and LTRIM take elements from the front.
LEMMA TailSelected ==
    ASSUME NEW S, NEW s \in Seq(S), s # <<>>
    PROVE  Selected(Tail(s), s) /\ \A i \in DOMAIN Tail(s) : i + 1 \in DOMAIN s /\ Tail(s)[i] = s[i + 1]
<1>1. /\ Len(s) \in Nat /\ Len(s) # 0 /\ DOMAIN s = 1..Len(s)
      /\ Tail(s) \in Seq(S) /\ Len(Tail(s)) = Len(s) - 1
      /\ \A i \in 1..Len(Tail(s)) : Tail(s)[i] = s[i + 1]
  BY LenProperties, EmptySeq, HeadTailProperties
<1>2. DOMAIN Tail(s) = 1..(Len(s) - 1)
  BY <1>1
<1> DEFINE from == [i \in DOMAIN Tail(s) |-> i + 1]
<1>3. from \in [DOMAIN Tail(s) -> DOMAIN s]
  BY <1>1, <1>2
<1>4. \A i, k \in DOMAIN Tail(s) : from[i] = from[k] => i = k
  BY <1>2
<1>5. \A i \in DOMAIN Tail(s) : from[i] = i + 1 /\ i + 1 \in DOMAIN s /\ Tail(s)[i] = s[i + 1]
  BY <1>1, <1>2
<1>6. \A i \in DOMAIN Tail(s) : Tail(s)[i] = s[from[i]]
  BY <1>5
<1> HIDE DEF from
<1>7. QED
  BY <1>3, <1>4, <1>5, <1>6 DEF Selected

-----------------------------------------------------------------------------
(* Who has what in hand.                                                   *)

Steps == WebSteps \cup PollerSteps \cup WorkerSteps
StateTypes ==
    /\ StoreTypeOK /\ ProcessTypeOK /\ BrowserTypeOK
    /\ pc \in [Goroutines -> Steps] /\ job \in Job \cup {NoJob} /\ past \in Past

SeenTypes ==
    /\ seen.erased \subseteq Message /\ seen.wiped \subseteq Message
    /\ seen.torn \in BOOLEAN /\ seen.stale \subseteq Conns

\* A process that does not run has nothing.
DownInv ==
    /\ entries # <<>> => load = "adopt"
    /\ up \/ /\ memory = <<>> /\ entries = <<>> /\ load = "ask"
             /\ pc = [p \in Goroutines |-> "idle"] /\ doing = [p \in Goroutines |-> {}]
             /\ cast = [p \in Goroutines |-> {}] /\ job = NoJob
             /\ \A c \in Conns : conn[c] \in {"new", "gone"}

\* The message a goroutine adds is its own.
WebHands == \A c \in Conns : doing[c] \subseteq {Question(q) : q \in {r \in past.asked : Asker[r] = c}}
PollerHands ==
    /\ pc["poller"] # "idle" => load = "ready"
    /\ \A m \in doing["poller"] :
          /\ m.try = 0 /\ Asker[m.of] = "poller"
          /\ stage[m.of] \notin {"absent", "complete"}
          /\ pc["poller"] = "stats" => stage[m.of] = "message"
          /\ pc["poller"] = "queue" => stage[m.of] = "stats"
          /\ pc["poller"] = "complete" => stage[m.of] = "job"
WorkerHands ==
    /\ pc["worker"] = "idle" <=> job = NoJob
    /\ pc["worker"] \in {"idle", "prompt", "generate"} => doing["worker"] = {}
    /\ pc["worker"] \in {"persist", "trim", "show"} => doing["worker"] # {}
    /\ \A m \in doing["worker"] : m = [of |-> job.id, try |-> job.attempts + 1]
OneInHand == \A p \in Goroutines : \A m, n \in doing[p] : m = n
Frames == \A p \in Goroutines : \A w \in cast[p] :
    /\ w.kind \in {"reset", "error"} => w.what = {}
    /\ conn[w.to] \in {"joining", "greeted", "open"}

\* The poller has one update at a time.
StagesInv ==
    /\ \A q \in Questions : stage[q] # "absent" <=> Asker[q] = "poller" /\ q \in past.asked
    /\ \A q, r \in Questions :
          stage[q] \notin {"absent", "complete"} /\ stage[r] \notin {"absent", "complete"} => q = r

Hands == HandsTypeOK /\ WebHands /\ PollerHands /\ WorkerHands /\ OneInHand /\ StagesInv
ControlInv == StateTypes /\ SeenTypes /\ DownInv /\ Frames /\ Hands

-----------------------------------------------------------------------------
(* One job for a question, one attempt at a time, one writing of a message.*)

InHand(q) == \E c \in Conns : Question(q) \in doing[c]
HasJob(q) == q \in past.asked /\ ~InHand(q) /\ stage[q] \in {"absent", "job", "complete"}

JobsInv ==
    /\ \A j \in Jobs : HasJob(j.id)
    /\ \A i, k \in DOMAIN ready : ready[i].id = ready[k].id => i = k
    /\ \A i \in DOMAIN ready : inflight # NoJob => ready[i].id # inflight.id

Written == Range(stored) \cup past.refused
Unwritten(q) ==
    \/ q \notin past.asked
    \/ \E c \in Conns : pc[c] = "persist" /\ Question(q) \in doing[c]
\* The attempts at a reply that may have been written.
Tries(j) ==
    IF j = inflight /\ (~up \/ pc["worker"] \notin {"prompt", "generate", "persist"})
    THEN j.attempts + 1 ELSE j.attempts

WritingInv ==
    /\ \A m \in Written : ~Unwritten(m.of)
    /\ \A m \in Written : ~HasJob(m.of) => m.try = 0
    /\ \A j \in Jobs : \A m \in Written : m.of = j.id => m.try <= Tries(j)
    /\ Range(stored) \cap past.refused = {}
    /\ \A i, k \in DOMAIN stored : i < k => stored[k].try # 0 \/ stored[i].of # stored[k].of

-----------------------------------------------------------------------------
(* Answers.                                                                *)

AnsweredInv ==
    /\ \A j \in Jobs : Asker[j.id] = "poller" =>
          Answered(j.id) \/ j.attempts + (IF up THEN 0 ELSE IF j = inflight THEN 1 ELSE 0) <= past.cut[j.id]
    /\ pc["worker"] = "settle" /\ Asker[job.id] = "poller" => Answered(job.id)
    /\ EndedIsAnswered

-----------------------------------------------------------------------------
(* What is kept where.                                                     *)

Safe == Range(stored) \cup past.refused \cup seen.erased
InMind == Range(entries) \cup Range(memory) \cup seen.wiped

SafeInv ==
    /\ \A j \in Jobs : Question(j.id) \in Safe
    /\ \A p \in Conns \cup {"worker"} : pc[p] # "persist" => doing[p] \subseteq Safe
    /\ \A q \in Questions : stage[q] # "absent" => Question(q) \in Safe
    /\ past.shown \subseteq Safe

MindInv ==
    /\ load # "ask" => \A j \in Jobs : Question(j.id) \in InMind \cup past.refused \cup seen.erased
    /\ \A c \in Conns : doing[c] \subseteq InMind
    /\ pc["poller"] # "remember" => doing["poller"] \subseteq InMind

-----------------------------------------------------------------------------
(* The copies.                                                             *)

Writers == Conns \cup {"worker"}
Pending == UNION {doing[p] : p \in {r \in Writers : pc[r] = "persist"}}
Unshown == UNION {doing[p] : p \in {r \in Goroutines : pc[r] \in {"persist", "trim", "show"}}}
Underway == {Question(q) : q \in {r \in Questions : stage[r] \notin {"absent", "complete"}}}
Mind == entries \o memory

ClearInv ==
    Clearing => /\ ~Adding /\ load = "ready" /\ memory = <<>>
                /\ \/ \A c \in Conns : pc[c] # "reset" /\ \A w \in cast[c] : w.kind # "reset"
                   \/ stored = <<>>

StoredCopy ==
    Len(stored) < Cap /\ ~Clearing =>
        /\ Range(memory) \ past.refused \subseteq Range(stored) \cup Pending
        /\ load = "adopt" => Range(entries) \subseteq Range(stored)
        /\ Underway \subseteq Range(stored)

MemoryCopy ==
    Len(Mind) < Cap /\ ~Clearing =>
        /\ load # "ask" => Range(stored) \subseteq Range(entries) \cup Range(memory) \cup Underway
        /\ \A p \in Writers : pc[p] \in {"persist", "trim", "show"} => doing[p] \subseteq Range(memory)
        /\ pc["poller"] # "remember" => doing["poller"] \subseteq Range(memory)

\* What frames on their way will add to a browser.
Coming(c) == UNION {w.what : w \in {v \in UNION {cast[p] : p \in Goroutines} : v.to = c}}
ResetComing(c) ==
    \/ \E d \in Conns : pc[d] \in {"del", "reset"}
    \/ \E d \in Conns : \E w \in cast[d] : w.to = c /\ w.kind = "reset"

JoinInv == \A c \in Conns \ seen.stale :
    /\ conn[c] \in {"joining", "greeted"} => ~Adding /\ ~Clearing
    /\ conn[c] \in {"joining", "greeted", "open"} => load = "ready"
    /\ conn[c] = "greeted" => snap[c] = Range(memory)

LogCopy == \A c \in Conns \ seen.stale : conn[c] = "open" =>
    /\ Clearing => log[c] = {} \/ ResetComing(c)
    /\ Len(memory) < Cap /\ ~Clearing =>
          /\ log[c] \cup Coming(c) \subseteq Range(memory)
          /\ Range(memory) \subseteq log[c] \cup Coming(c) \cup Unshown

CopyInv == JoinInv /\ (~seen.torn => ClearInv /\ StoredCopy /\ MemoryCopy /\ LogCopy)

-----------------------------------------------------------------------------
(* Types.                                                                  *)

USE DEF Applied, Replied, Goto

\* The goroutines are different from one another.
LEMMA Distinct ==
    /\ "poller" \in Goroutines /\ "worker" \in Goroutines /\ Conns \subseteq Goroutines
    /\ \A c \in Conns : c # "poller" /\ c # "worker"
    /\ NoJob \notin Job /\ Cap \in Nat /\ Window \in Nat
BY QuestionsAssumption, BoundsAssumption DEF Goroutines, Job

LEMMA GotoType ==
    ASSUME StateTypes, NEW p \in Goroutines, NEW step \in StepsOf(p), Goto(p, step)
    PROVE  /\ pc' \in [Goroutines -> Steps] /\ \A r \in Goroutines : pc'[r] \in StepsOf(r)
           /\ pc'[p] = step /\ \A r \in Goroutines \ {p} : pc'[r] = pc[r]
<1>1. step \in Steps
  BY DEF StepsOf, Steps
<1> QED
  BY <1>1 DEF StateTypes, ProcessTypeOK

LEMMA RememberedType ==
    ASSUME memory \in Seq(Message), NEW m \in Message
    PROVE  Remembered(m) \in Seq(Message) /\ Len(Remembered(m)) <= Cap
BY Distinct, AppendProperties, KeepLastType DEF Remembered

LEMMA QuestionType ==
    ASSUME NEW q \in Questions
    PROVE  Question(q) \in Message /\ Question(q).of = q /\ Question(q).try = 0
BY DEF Question, Message

LEMMA BroadcastType ==
    ASSUME StateTypes, NEW p \in Goroutines, NEW kind \in Kinds, NEW what \in SUBSET Message,
           Broadcast(p, kind, what)
    PROVE  /\ cast' \in [Goroutines -> SUBSET Write]
           /\ cast'[p] = {[to |-> c, kind |-> kind, what |-> what] : c \in Registered}
           /\ \A r \in Goroutines \ {p} : cast'[r] = cast[r]
<1>1. {[to |-> c, kind |-> kind, what |-> what] : c \in Registered} \subseteq Write
  BY DEF Write, Registered
<1> QED
  BY <1>1 DEF Broadcast, StateTypes, ProcessTypeOK

LEMMA WriteFrameTypes ==
    ASSUME StateTypes, NEW p \in Goroutines, WriteFrame(p)
    PROVE  StateTypes'
<1>1. PICK w \in cast[p] :
         /\ cast' = [cast EXCEPT ![p] = @ \ {w}]
         /\ log' = [log EXCEPT ![w.to] = IF w.kind = "reset" THEN {} ELSE @ \cup w.what]
         /\ busy' = [busy EXCEPT ![w.to] = w.kind = "message"]
  BY DEF WriteFrame
<1>2. w \in Write /\ w.to \in Conns /\ w.what \subseteq Message
  BY DEF StateTypes, ProcessTypeOK, Write
<1>3. /\ UNCHANGED <<store, up, memory, load, entries, pc, doing, job, cancelled, verdict, prompt>>
      /\ UNCHANGED <<conn, snap, past>>
  BY DEF WriteFrame
<1>4. cast' \in [Goroutines -> SUBSET Write]
  BY <1>1 DEF StateTypes, ProcessTypeOK
<1>5. log' \in [Conns -> SUBSET Message]
  BY <1>1, <1>2 DEF StateTypes, BrowserTypeOK
<1>6. busy' \in [Conns -> BOOLEAN]
  BY <1>1, <1>2 DEF StateTypes, BrowserTypeOK
<1>7. StoreTypeOK' /\ ProcessTypeOK'
  BY <1>3, <1>4 DEF StateTypes, StoreTypeOK, ProcessTypeOK, store
<1>8. BrowserTypeOK'
  BY <1>3, <1>5, <1>6 DEF StateTypes, BrowserTypeOK
<1> QED
  BY <1>3, <1>7, <1>8 DEF StateTypes

LEMMA PersistTypes ==
    ASSUME StateTypes, NEW p \in Writers, Persist(p)
    PROVE  StateTypes'
<1>1. PICK o \in Outcome, m \in doing[p] :
         /\ stored' = IF Applied(o) THEN Append(stored, m) ELSE stored
         /\ Goto(p, IF Replied(o) THEN "trim" ELSE "show")
         /\ past' = IF Applied(o) THEN past ELSE [past EXCEPT !.refused = @ \cup {m}]
  BY DEF Persist
<1>2. p \in Goroutines /\ m \in Message /\ {"trim", "show"} \subseteq StepsOf(p)
  BY Distinct DEF Writers, StateTypes, ProcessTypeOK, StepsOf, WebSteps, WorkerSteps
<1>3. UNCHANGED <<queries, stage, ready, inflight, up, memory, load, entries, doing,
                  job, cancelled, verdict, prompt, cast, browsers>>
  BY DEF Persist
<1>4. stored' \in Seq(Message)
  BY <1>1, <1>2, AppendProperties DEF StateTypes, StoreTypeOK
<1>5. past' \in Past
  BY <1>1, <1>2 DEF StateTypes, Past
<1>6. pc' \in [Goroutines -> Steps] /\ \A r \in Goroutines : pc'[r] \in StepsOf(r)
  BY <1>1, <1>2, GotoType
<1>7. StoreTypeOK' /\ ProcessTypeOK'
  BY <1>3, <1>4, <1>6 DEF StateTypes, StoreTypeOK, ProcessTypeOK
<1>8. BrowserTypeOK'
  BY <1>3 DEF StateTypes, BrowserTypeOK, browsers
<1> QED
  BY <1>3, <1>5, <1>6, <1>7, <1>8 DEF StateTypes

LEMMA TrimTypes ==
    ASSUME StateTypes, NEW p \in Writers, Trim(p)
    PROVE  StateTypes'
<1>1. stored' = stored \/ stored' = KeepLast(stored, Cap)
  BY DEF Trim
<1>2. p \in Goroutines /\ "show" \in StepsOf(p)
  BY Distinct DEF Writers, StepsOf, WebSteps, WorkerSteps
<1>3. UNCHANGED <<queries, stage, ready, inflight, up, memory, load, entries, doing,
                  job, cancelled, verdict, prompt, cast, browsers, past>> /\ Goto(p, "show")
  BY DEF Trim
<1>4. stored' \in Seq(Message)
  BY <1>1, Distinct, KeepLastType DEF StateTypes, StoreTypeOK
<1>5. pc' \in [Goroutines -> Steps] /\ \A r \in Goroutines : pc'[r] \in StepsOf(r)
  BY <1>2, <1>3, GotoType
<1>6. StoreTypeOK' /\ ProcessTypeOK'
  BY <1>3, <1>4, <1>5 DEF StateTypes, StoreTypeOK, ProcessTypeOK
<1>7. BrowserTypeOK'
  BY <1>3 DEF StateTypes, BrowserTypeOK, browsers
<1> QED
  BY <1>3, <1>5, <1>6, <1>7 DEF StateTypes

LEMMA ShowTypes ==
    ASSUME StateTypes, NEW p \in Goroutines, Show(p)
    PROVE  StateTypes'
<1>1. AfterShow(p) \in StepsOf(p)
  BY Distinct DEF AfterShow, StepsOf, WebSteps, PollerSteps, WorkerSteps, Goroutines
<1>2. doing[p] \in SUBSET Message
  BY DEF StateTypes, ProcessTypeOK
<1>3. cast' \in [Goroutines -> SUBSET Write]
  BY <1>2, BroadcastType DEF Show, Kinds
<1>4. pc' \in [Goroutines -> Steps] /\ \A r \in Goroutines : pc'[r] \in StepsOf(r)
  <2>1. Goto(p, AfterShow(p))
    BY DEF Show
  <2> QED
    BY <1>1, <2>1, GotoType
<1>5. past' \in Past
  BY <1>2 DEF Show, StateTypes, Past
<1>6. UNCHANGED <<store, up, memory, load, entries, doing, job, cancelled, verdict, prompt, browsers>>
  BY DEF Show
<1>7. StoreTypeOK' /\ ProcessTypeOK'
  BY <1>3, <1>4, <1>6 DEF StateTypes, StoreTypeOK, ProcessTypeOK, store
<1>8. BrowserTypeOK'
  BY <1>6 DEF StateTypes, BrowserTypeOK, browsers
<1> QED
  BY <1>4, <1>5, <1>6, <1>7, <1>8 DEF StateTypes

LEMMA AskTypes ==
    ASSUME StateTypes, NEW c \in Conns, NEW q \in Questions, Ask(c, q)
    PROVE  StateTypes'
<1>1. c \in Goroutines /\ "persist" \in StepsOf(c) /\ Question(q) \in Message
  BY Distinct, QuestionType DEF StepsOf, WebSteps
<1>2. memory' \in Seq(Message) /\ Len(memory') <= Cap
  BY <1>1, RememberedType DEF Ask, StateTypes, ProcessTypeOK
<1>3. doing' \in [Goroutines -> SUBSET Message]
  BY <1>1 DEF Ask, StateTypes, ProcessTypeOK
<1>4. pc' \in [Goroutines -> Steps] /\ \A r \in Goroutines : pc'[r] \in StepsOf(r)
  <2>1. Goto(c, "persist")
    BY DEF Ask
  <2> QED
    BY <1>1, <2>1, GotoType
<1>5. past' \in Past
  BY DEF Ask, StateTypes, Past
<1>6. busy' \in [Conns -> BOOLEAN]
  BY DEF Ask, StateTypes, BrowserTypeOK
<1>7. UNCHANGED <<store, up, load, entries, job, cancelled, verdict, prompt, cast, conn, snap, log>>
  BY DEF Ask
<1>8. StoreTypeOK' /\ ProcessTypeOK'
  BY <1>2, <1>3, <1>4, <1>7 DEF StateTypes, StoreTypeOK, ProcessTypeOK, store
<1>9. BrowserTypeOK'
  BY <1>6, <1>7 DEF StateTypes, BrowserTypeOK
<1> QED
  BY <1>4, <1>5, <1>7, <1>8, <1>9 DEF StateTypes

LEMMA CountQueryTypes ==
    ASSUME StateTypes, NEW c \in Conns, CountQuery(c)
    PROVE  StateTypes'
<1>1. PICK o \in Outcome, m \in doing[c] :
         /\ queries' = IF Applied(o) THEN queries + 1 ELSE queries
         /\ past' = IF Applied(o) THEN past ELSE [past EXCEPT !.uncounted = @ \cup {m.of}]
  BY DEF CountQuery
<1>2. c \in Goroutines /\ "enqueue" \in StepsOf(c) /\ m.of \in Questions
  BY Distinct DEF StepsOf, WebSteps, StateTypes, ProcessTypeOK, Message
<1>3. pc' \in [Goroutines -> Steps] /\ \A r \in Goroutines : pc'[r] \in StepsOf(r)
  <2>1. Goto(c, "enqueue")
    BY DEF CountQuery
  <2> QED
    BY <1>2, <2>1, GotoType
<1>4. past' \in Past
  BY <1>1, <1>2 DEF StateTypes, Past
<1>5. queries' \in Nat
  <2>1. queries \in Nat
    BY DEF StateTypes, StoreTypeOK
  <2>2. queries' = queries + 1 \/ queries' = queries
    BY <1>1
  <2> QED
    BY <2>1, <2>2
<1>6. UNCHANGED <<stored, stage, ready, inflight, up, memory, load, entries, doing,
                  job, cancelled, verdict, prompt, cast, browsers>>
  BY DEF CountQuery
<1>7. StoreTypeOK' /\ ProcessTypeOK'
  BY <1>3, <1>5, <1>6 DEF StateTypes, StoreTypeOK, ProcessTypeOK
<1>8. BrowserTypeOK'
  BY <1>6 DEF StateTypes, BrowserTypeOK, browsers
<1> QED
  BY <1>3, <1>4, <1>6, <1>7, <1>8 DEF StateTypes

LEMMA FirstJobType ==
    ASSUME StateTypes, NEW q \in Questions
    PROVE  [id |-> q, attempts |-> 0] \in Job /\ Append(ready, [id |-> q, attempts |-> 0]) \in Seq(Job)
<1>1. [id |-> q, attempts |-> 0] \in Job
  BY DEF Job
<1> QED
  BY <1>1, AppendProperties DEF StateTypes, StoreTypeOK

LEMMA EnqueueTypes ==
    ASSUME StateTypes, NEW c \in Conns, Enqueue(c)
    PROVE  StateTypes'
<1>1. PICK o \in Outcome, m \in doing[c] :
         /\ ready' = IF Applied(o) THEN Append(ready, [id |-> m.of, attempts |-> 0]) ELSE ready
         /\ busy' = [busy EXCEPT ![c] = @ /\ Replied(o)]
  BY DEF Enqueue
<1>2. c \in Goroutines /\ "idle" \in StepsOf(c) /\ m.of \in Questions
  BY Distinct DEF StepsOf, WebSteps, StateTypes, ProcessTypeOK, Message
<1>3. pc' \in [Goroutines -> Steps] /\ \A r \in Goroutines : pc'[r] \in StepsOf(r)
  <2>1. Goto(c, "idle")
    BY DEF Enqueue
  <2> QED
    BY <1>2, <2>1, GotoType
<1>4. ready' \in Seq(Job)
  BY <1>1, <1>2, FirstJobType DEF StateTypes, StoreTypeOK
<1>5. busy' \in [Conns -> BOOLEAN]
  BY <1>1 DEF StateTypes, BrowserTypeOK
<1>6. doing' \in [Goroutines -> SUBSET Message]
  BY DEF Enqueue, StateTypes, ProcessTypeOK
<1>7. UNCHANGED <<stored, queries, stage, inflight, up, memory, load, entries,
                  job, cancelled, verdict, prompt, cast, conn, snap, log, past>>
  BY DEF Enqueue
<1>8. StoreTypeOK' /\ ProcessTypeOK'
  BY <1>3, <1>4, <1>6, <1>7 DEF StateTypes, StoreTypeOK, ProcessTypeOK
<1>9. BrowserTypeOK'
  BY <1>5, <1>7 DEF StateTypes, BrowserTypeOK
<1> QED
  BY <1>3, <1>7, <1>8, <1>9 DEF StateTypes

LEMMA ClearTypes ==
    ASSUME StateTypes, NEW c \in Conns, Clear(c)
    PROVE  StateTypes'
<1>1. c \in Goroutines /\ "del" \in StepsOf(c)
  BY Distinct DEF StepsOf, WebSteps
<1>2. pc' \in [Goroutines -> Steps] /\ \A r \in Goroutines : pc'[r] \in StepsOf(r)
  <2>1. Goto(c, "del")
    BY DEF Clear
  <2> QED
    BY <1>1, <2>1, GotoType
<1>3. memory' \in Seq(Message) /\ Len(memory') <= Cap
  BY Distinct DEF Clear
<1>4. UNCHANGED <<store, up, load, entries, doing, job, cancelled, verdict, prompt, cast, browsers, past>>
  BY DEF Clear
<1>5. StoreTypeOK' /\ ProcessTypeOK'
  BY <1>2, <1>3, <1>4 DEF StateTypes, StoreTypeOK, ProcessTypeOK, store
<1>6. BrowserTypeOK'
  BY <1>4 DEF StateTypes, BrowserTypeOK, browsers
<1> QED
  BY <1>2, <1>4, <1>5, <1>6 DEF StateTypes

LEMMA DeleteTypes ==
    ASSUME StateTypes, NEW c \in Conns, Delete(c)
    PROVE  StateTypes'
<1>1. c \in Goroutines /\ "reset" \in StepsOf(c)
  BY Distinct DEF StepsOf, WebSteps
<1>2. pc' \in [Goroutines -> Steps] /\ \A r \in Goroutines : pc'[r] \in StepsOf(r)
  <2>1. Goto(c, "reset")
    BY DEF Delete
  <2> QED
    BY <1>1, <2>1, GotoType
<1>3. stored' \in Seq(Message) /\ queries' \in Nat
  <2>1. queries \in Nat /\ stored \in Seq(Message)
    BY DEF StateTypes, StoreTypeOK
  <2>2. (stored' = <<>> /\ queries' = 0) \/ (stored' = stored /\ queries' = queries)
    BY DEF Delete
  <2>3. <<>> \in Seq(Message) /\ 0 \in Nat
    OBVIOUS
  <2> QED
    BY <2>1, <2>2, <2>3, Zenon
<1>4. UNCHANGED <<stage, ready, inflight, up, memory, load, entries, doing, job, cancelled,
                  verdict, prompt, cast, browsers, past>>
  BY DEF Delete
<1>5. StoreTypeOK' /\ ProcessTypeOK'
  BY <1>2, <1>3, <1>4 DEF StateTypes, StoreTypeOK, ProcessTypeOK
<1>6. BrowserTypeOK'
  BY <1>4 DEF StateTypes, BrowserTypeOK, browsers
<1> QED
  BY <1>2, <1>4, <1>5, <1>6 DEF StateTypes

LEMMA ResetTypes ==
    ASSUME StateTypes, NEW c \in Conns, Reset(c)
    PROVE  StateTypes'
<1>1. c \in Goroutines /\ "idle" \in StepsOf(c)
  BY Distinct DEF StepsOf, WebSteps
<1>2. pc' \in [Goroutines -> Steps] /\ \A r \in Goroutines : pc'[r] \in StepsOf(r)
  <2>1. Goto(c, "idle")
    BY DEF Reset
  <2> QED
    BY <1>1, <2>1, GotoType
<1>3. cast' \in [Goroutines -> SUBSET Write]
  BY <1>1, BroadcastType DEF Reset, Kinds
<1>4. UNCHANGED <<store, up, memory, load, entries, doing, job, cancelled, verdict, prompt, browsers, past>>
  BY DEF Reset
<1>5. StoreTypeOK' /\ ProcessTypeOK'
  BY <1>2, <1>3, <1>4 DEF StateTypes, StoreTypeOK, ProcessTypeOK, store
<1>6. BrowserTypeOK'
  BY <1>4 DEF StateTypes, BrowserTypeOK, browsers
<1> QED
  BY <1>2, <1>4, <1>5, <1>6 DEF StateTypes

LEMMA TakeUpdateTypes ==
    ASSUME StateTypes, NEW q \in Questions, TakeUpdate(q)
    PROVE  StateTypes'
<1>1. PICK o \in Outcome :
         /\ IF stage[q] = "absent" /\ Applied(o)
            THEN /\ stored' = KeepLast(Append(stored, Question(q)), Cap)
                 /\ stage' = [stage EXCEPT ![q] = "message"]
                 /\ past' = [past EXCEPT !.asked = @ \cup {q}]
            ELSE UNCHANGED <<stored, stage, past>>
         /\ IF Replied(o)
            THEN doing' = [doing EXCEPT !["poller"] = {Question(q)}] /\ Goto("poller", "remember")
            ELSE UNCHANGED <<doing, pc>>
  BY DEF TakeUpdate
<1>2. "poller" \in Goroutines /\ "remember" \in StepsOf("poller") /\ Question(q) \in Message
  BY Distinct, QuestionType DEF StepsOf, PollerSteps
<1>3. stored' \in Seq(Message)
  <2>1. KeepLast(Append(stored, Question(q)), Cap) \in Seq(Message)
    BY <1>2, Distinct, AppendProperties, KeepLastType DEF StateTypes, StoreTypeOK
  <2> QED
    BY <1>1, <2>1 DEF StateTypes, StoreTypeOK
<1>4. stage' \in [Questions -> Stages]
  BY <1>1 DEF StateTypes, StoreTypeOK, Stages
<1>5. past' \in Past
  <2>1. past' = past \/ past' = [past EXCEPT !.asked = @ \cup {q}]
    BY <1>1
  <2> QED
    BY <2>1 DEF StateTypes, Past
<1>6. doing' \in [Goroutines -> SUBSET Message]
  <2>1. doing' = doing \/ doing' = [doing EXCEPT !["poller"] = {Question(q)}]
    BY <1>1
  <2> QED
    BY <1>2, <2>1 DEF StateTypes, ProcessTypeOK
<1>7. pc' \in [Goroutines -> Steps] /\ \A r \in Goroutines : pc'[r] \in StepsOf(r)
  <2>1. CASE Replied(o)
    BY <1>1, <1>2, <2>1, GotoType
  <2>2. CASE ~Replied(o)
    BY <1>1, <2>2 DEF StateTypes, ProcessTypeOK
  <2> QED
    BY <2>1, <2>2
<1>8. UNCHANGED <<queries, ready, inflight, up, memory, load, entries,
                  job, cancelled, verdict, prompt, cast, browsers>>
  BY DEF TakeUpdate
<1>9. StoreTypeOK' /\ ProcessTypeOK'
  BY <1>3, <1>4, <1>6, <1>7, <1>8 DEF StateTypes, StoreTypeOK, ProcessTypeOK
<1>10. BrowserTypeOK'
  BY <1>8 DEF StateTypes, BrowserTypeOK, browsers
<1> QED
  BY <1>5, <1>7, <1>8, <1>9, <1>10 DEF StateTypes

LEMMA EnsureTypes ==
    ASSUME StateTypes, EnsureMessageMemory
    PROVE  StateTypes'
<1>1. PICK m \in doing["poller"] :
         IF m \in Range(memory)
         THEN UNCHANGED memory /\ Goto("poller", AfterShow("poller"))
         ELSE memory' = Remembered(m) /\ Goto("poller", "show")
  BY DEF EnsureMessageMemory
<1>2. "poller" \in Goroutines /\ {"show", AfterShow("poller")} \subseteq StepsOf("poller") /\ m \in Message
  BY Distinct DEF StepsOf, PollerSteps, AfterShow, StateTypes, ProcessTypeOK
<1>3. memory' \in Seq(Message) /\ Len(memory') <= Cap
  BY <1>1, <1>2, RememberedType DEF StateTypes, ProcessTypeOK
<1>4. pc' \in [Goroutines -> Steps] /\ \A r \in Goroutines : pc'[r] \in StepsOf(r)
  BY <1>1, <1>2, GotoType
<1>5. UNCHANGED <<store, up, load, entries, doing, job, cancelled, verdict, prompt, cast, browsers, past>>
  BY DEF EnsureMessageMemory
<1>6. StoreTypeOK' /\ ProcessTypeOK'
  BY <1>3, <1>4, <1>5 DEF StateTypes, StoreTypeOK, ProcessTypeOK, store
<1>7. BrowserTypeOK'
  BY <1>5 DEF StateTypes, BrowserTypeOK, browsers
<1> QED
  BY <1>4, <1>5, <1>6, <1>7 DEF StateTypes

\* The step of the poller after a command of an update under way.
LEMMA AdvanceTypes ==
    ASSUME StateTypes, NEW step, NEW next \in Stages, NEW o \in Outcome, Advance(step, next, o),
           NEW then \in PollerSteps, (Goto("poller", then) /\ UNCHANGED doing) \/ GiveUp
    PROVE  /\ stage' \in [Questions -> Stages]
           /\ doing' \in [Goroutines -> SUBSET Message]
           /\ pc' \in [Goroutines -> Steps] /\ \A r \in Goroutines : pc'[r] \in StepsOf(r)
           /\ UNCHANGED <<stored, inflight, up, memory, load, entries, job, cancelled, verdict,
                          prompt, cast, browsers, past>>
<1>1. "poller" \in Goroutines /\ {"idle", then} \subseteq StepsOf("poller")
  BY Distinct DEF StepsOf, PollerSteps
<1>2. PICK m \in doing["poller"] : stage' = IF Applied(o) THEN [stage EXCEPT ![m.of] = next] ELSE stage
  BY DEF Advance
<1>3. stage' \in [Questions -> Stages]
  BY <1>2 DEF StateTypes, StoreTypeOK
<1>4. doing' \in [Goroutines -> SUBSET Message]
  BY <1>1 DEF GiveUp, StateTypes, ProcessTypeOK
<1>5. pc' \in [Goroutines -> Steps] /\ \A r \in Goroutines : pc'[r] \in StepsOf(r)
  <2>1. CASE Goto("poller", then)
    BY <1>1, <2>1, GotoType
  <2>2. CASE GiveUp
    <3>1. Goto("poller", "idle")
      BY <2>2 DEF GiveUp
    <3> QED
      BY <1>1, <3>1, GotoType
  <2> QED
    BY <2>1, <2>2
<1>6. UNCHANGED <<stored, inflight, up, memory, load, entries, job, cancelled, verdict, prompt,
                  cast, browsers, past>>
  BY DEF Advance
<1> QED
  BY <1>3, <1>4, <1>5, <1>6

LEMMA SubmitStatsTypes ==
    ASSUME StateTypes, SubmitStats
    PROVE  StateTypes'
<1>1. PICK o \in Outcome :
         /\ Advance("stats", "stats", o)
         /\ queries' = IF Applied(o) THEN queries + 1 ELSE queries
         /\ (Goto("poller", "queue") /\ UNCHANGED doing) \/ GiveUp
         /\ UNCHANGED ready
  BY DEF SubmitStats
<1>2. "stats" \in Stages /\ "queue" \in PollerSteps
  BY DEF Stages, PollerSteps
<1>3. /\ stage' \in [Questions -> Stages]
      /\ doing' \in [Goroutines -> SUBSET Message]
      /\ pc' \in [Goroutines -> Steps] /\ \A r \in Goroutines : pc'[r] \in StepsOf(r)
      /\ UNCHANGED <<stored, inflight, up, memory, load, entries, job, cancelled, verdict, prompt,
                     cast, browsers, past>>
  BY <1>1, <1>2, AdvanceTypes
<1>4. queries' \in Nat
  <2>1. queries \in Nat
    BY DEF StateTypes, StoreTypeOK
  <2>2. queries' = queries + 1 \/ queries' = queries
    BY <1>1
  <2> QED
    BY <2>1, <2>2
<1>5. StoreTypeOK' /\ ProcessTypeOK'
  BY <1>1, <1>3, <1>4 DEF StateTypes, StoreTypeOK, ProcessTypeOK
<1>6. BrowserTypeOK'
  BY <1>3 DEF StateTypes, BrowserTypeOK, browsers
<1> QED
  BY <1>3, <1>5, <1>6 DEF StateTypes

LEMMA EnqueueTelegramTypes ==
    ASSUME StateTypes, EnqueueTelegram
    PROVE  StateTypes'
<1>1. PICK o \in Outcome, m \in doing["poller"] :
         /\ Advance("queue", "job", o)
         /\ ready' = IF Applied(o) THEN Append(ready, [id |-> m.of, attempts |-> 0]) ELSE ready
         /\ (Goto("poller", "complete") /\ UNCHANGED doing) \/ GiveUp
         /\ UNCHANGED queries
  BY DEF EnqueueTelegram
<1>2. "job" \in Stages /\ "complete" \in PollerSteps /\ m.of \in Questions
  BY Distinct DEF Stages, PollerSteps, StateTypes, ProcessTypeOK, Message
<1>3. /\ stage' \in [Questions -> Stages]
      /\ doing' \in [Goroutines -> SUBSET Message]
      /\ pc' \in [Goroutines -> Steps] /\ \A r \in Goroutines : pc'[r] \in StepsOf(r)
      /\ UNCHANGED <<stored, inflight, up, memory, load, entries, job, cancelled, verdict, prompt,
                     cast, browsers, past>>
  BY <1>1, <1>2, AdvanceTypes
<1>4. ready' \in Seq(Job)
  BY <1>1, <1>2, FirstJobType DEF StateTypes, StoreTypeOK
<1>5. StoreTypeOK' /\ ProcessTypeOK'
  BY <1>1, <1>3, <1>4 DEF StateTypes, StoreTypeOK, ProcessTypeOK
<1>6. BrowserTypeOK'
  BY <1>3 DEF StateTypes, BrowserTypeOK, browsers
<1> QED
  BY <1>3, <1>5, <1>6 DEF StateTypes

LEMMA CompleteTypes ==
    ASSUME StateTypes, Complete
    PROVE  StateTypes'
<1>1. PICK o \in Outcome : Advance("complete", "complete", o) /\ GiveUp /\ UNCHANGED <<queries, ready>>
  BY DEF Complete
<1>2. "complete" \in Stages /\ "idle" \in PollerSteps
  BY DEF Stages, PollerSteps
<1>3. /\ stage' \in [Questions -> Stages]
      /\ doing' \in [Goroutines -> SUBSET Message]
      /\ pc' \in [Goroutines -> Steps] /\ \A r \in Goroutines : pc'[r] \in StepsOf(r)
      /\ UNCHANGED <<stored, inflight, up, memory, load, entries, job, cancelled, verdict, prompt,
                     cast, browsers, past>>
  BY <1>1, <1>2, AdvanceTypes
<1>4. StoreTypeOK' /\ ProcessTypeOK'
  BY <1>1, <1>3 DEF StateTypes, StoreTypeOK, ProcessTypeOK
<1>5. BrowserTypeOK'
  BY <1>3 DEF StateTypes, BrowserTypeOK, browsers
<1> QED
  BY <1>3, <1>4, <1>5 DEF StateTypes

LEMMA AcquireTypes ==
    ASSUME StateTypes, Acquire
    PROVE  StateTypes'
<1>1. Head(ready) \in Job /\ Tail(ready) \in Seq(Job)
  BY HeadTailRange DEF Acquire, StateTypes, StoreTypeOK
<1>2. pc' \in [Goroutines -> Steps] /\ \A r \in Goroutines : pc'[r] \in StepsOf(r)
  <2>1. Goto("worker", "prompt") /\ "worker" \in Goroutines /\ "prompt" \in StepsOf("worker")
    BY Distinct DEF Acquire, StepsOf, WorkerSteps
  <2> QED
    BY <2>1, GotoType
<1>3. /\ inflight' = Head(ready) /\ job' = Head(ready) /\ ready' = Tail(ready)
      /\ UNCHANGED <<stored, queries, stage, up, memory, load, entries, doing, cancelled,
                     verdict, prompt, cast, browsers, past>>
  BY DEF Acquire
<1>4. StoreTypeOK' /\ ProcessTypeOK'
  BY <1>1, <1>2, <1>3 DEF StateTypes, StoreTypeOK, ProcessTypeOK
<1>5. BrowserTypeOK'
  BY <1>3 DEF StateTypes, BrowserTypeOK, browsers
<1> QED
  BY <1>1, <1>2, <1>3, <1>4, <1>5 DEF StateTypes

LEMMA PromptTypes ==
    ASSUME StateTypes, Prompt
    PROVE  StateTypes'
<1>1. prompt' \in Seq(Message)
  BY Distinct, KeepLastType DEF Prompt, StateTypes, ProcessTypeOK
<1>2. pc' \in [Goroutines -> Steps] /\ \A r \in Goroutines : pc'[r] \in StepsOf(r)
  <2>1. Goto("worker", "generate") /\ "worker" \in Goroutines /\ "generate" \in StepsOf("worker")
    BY Distinct DEF Prompt, StepsOf, WorkerSteps
  <2> QED
    BY <2>1, GotoType
<1>3. UNCHANGED <<store, up, memory, load, entries, doing, job, cancelled, verdict, cast, browsers, past>>
  BY DEF Prompt
<1>4. StoreTypeOK' /\ ProcessTypeOK'
  BY <1>1, <1>2, <1>3 DEF StateTypes, StoreTypeOK, ProcessTypeOK, store
<1>5. BrowserTypeOK'
  BY <1>3 DEF StateTypes, BrowserTypeOK, browsers
<1> QED
  BY <1>2, <1>3, <1>4, <1>5 DEF StateTypes

\* The worker generates with a job in hand, so its reply is a message.
LEMMA ReplyTypes ==
    ASSUME StateTypes, WorkerHands, Reply
    PROVE  StateTypes'
<1>1. job \in Job /\ [of |-> job.id, try |-> job.attempts + 1] \in Message
  <2>1. job \in Job
    BY DEF Reply, At, WorkerHands, StateTypes
  <2> QED
    BY <2>1 DEF Job, Message
<1>2. PICK m \in Message : memory' = Remembered(m) /\ doing' = [doing EXCEPT !["worker"] = {m}]
  BY <1>1 DEF Reply
<1>3. memory' \in Seq(Message) /\ Len(memory') <= Cap
  BY <1>2, RememberedType DEF StateTypes, ProcessTypeOK
<1>4. doing' \in [Goroutines -> SUBSET Message]
  BY <1>2 DEF StateTypes, ProcessTypeOK
<1>5. pc' \in [Goroutines -> Steps] /\ \A r \in Goroutines : pc'[r] \in StepsOf(r)
  <2>1. Goto("worker", "persist") /\ "worker" \in Goroutines /\ "persist" \in StepsOf("worker")
    BY Distinct DEF Reply, StepsOf, WorkerSteps
  <2> QED
    BY <2>1, GotoType
<1>6. /\ verdict' \in Verdicts /\ prompt' = <<>>
      /\ UNCHANGED <<store, up, load, entries, job, cancelled, cast, browsers, past>>
  BY DEF Reply, Verdicts
<1>7. <<>> \in Seq(Message)
  OBVIOUS
<1>8. StoreTypeOK' /\ ProcessTypeOK'
  BY <1>3, <1>4, <1>5, <1>6, <1>7 DEF StateTypes, StoreTypeOK, ProcessTypeOK, store
<1>9. BrowserTypeOK'
  BY <1>6 DEF StateTypes, BrowserTypeOK, browsers
<1> QED
  BY <1>5, <1>6, <1>8, <1>9 DEF StateTypes

LEMMA FailTypes ==
    ASSUME StateTypes, Fail
    PROVE  StateTypes'
<1>1. "worker" \in Goroutines /\ "deliver" \in StepsOf("worker")
  BY Distinct DEF StepsOf, WorkerSteps
<1>2. pc' \in [Goroutines -> Steps] /\ \A r \in Goroutines : pc'[r] \in StepsOf(r)
  <2>1. Goto("worker", "deliver")
    BY DEF Fail
  <2> QED
    BY <1>1, <2>1, GotoType
<1>3. cast' \in [Goroutines -> SUBSET Write]
  BY <1>1, BroadcastType DEF Fail, Kinds
<1>4. /\ verdict' \in Verdicts /\ prompt' = <<>>
      /\ UNCHANGED <<store, up, memory, load, entries, doing, job, cancelled, browsers, past>>
  BY DEF Fail, Verdicts
<1>5. <<>> \in Seq(Message)
  OBVIOUS
<1>6. StoreTypeOK' /\ ProcessTypeOK'
  BY <1>2, <1>3, <1>4, <1>5 DEF StateTypes, StoreTypeOK, ProcessTypeOK, store
<1>7. BrowserTypeOK'
  BY <1>4 DEF StateTypes, BrowserTypeOK, browsers
<1> QED
  BY <1>2, <1>4, <1>6, <1>7 DEF StateTypes

LEMMA DeliverTypes ==
    ASSUME StateTypes, WorkerHands, Deliver
    PROVE  StateTypes'
<1>1. job \in Job
  BY DEF Deliver, At, WorkerHands, StateTypes
<1>2. past' \in Past
  <2> DEFINE kind == IF verdict = "error" /\ cancelled THEN "stopped" ELSE verdict
             call == [of |-> job.id, try |-> job.attempts + 1, kind |-> kind]
  <2>1. kind \in Verdicts
    BY DEF Verdicts, StateTypes, ProcessTypeOK
  <2>2. call \in [of : Questions, try : Nat, kind : Verdicts]
    BY <1>1, <2>1 DEF Job
  <2>3. doing["worker"] \subseteq Message
    BY Distinct DEF StateTypes, ProcessTypeOK
  <2>4. \/ past' = [past EXCEPT !.delivered = @ \cup {call}, !.shown = @ \cup doing["worker"]]
        \/ past' = past
    BY DEF Deliver
  <2> HIDE DEF call
  <2>5. past \in Past
    BY DEF StateTypes
  <2>6. /\ past.delivered \cup {call} \subseteq [of : Questions, try : Nat, kind : Verdicts]
        /\ past.shown \cup doing["worker"] \subseteq Message
    BY <2>2, <2>3, <2>5 DEF Past
  <2>7. [past EXCEPT !.delivered = @ \cup {call}, !.shown = @ \cup doing["worker"]] \in Past
    BY <2>5, <2>6 DEF Past
  <2> QED
    BY <2>4, <2>5, <2>7
<1>3. pc' \in [Goroutines -> Steps] /\ \A r \in Goroutines : pc'[r] \in StepsOf(r)
  <2>1. Goto("worker", "settle") /\ "worker" \in Goroutines /\ "settle" \in StepsOf("worker")
    BY Distinct DEF Deliver, StepsOf, WorkerSteps
  <2> QED
    BY <2>1, GotoType
<1>4. UNCHANGED <<store, up, memory, load, entries, doing, job, cancelled, verdict, prompt, cast, browsers>>
  BY DEF Deliver
<1>5. StoreTypeOK' /\ ProcessTypeOK'
  BY <1>3, <1>4 DEF StateTypes, StoreTypeOK, ProcessTypeOK, store
<1>6. BrowserTypeOK'
  BY <1>4 DEF StateTypes, BrowserTypeOK, browsers
<1> QED
  BY <1>2, <1>3, <1>4, <1>5, <1>6 DEF StateTypes

LEMMA NackedTypes ==
    ASSUME StateTypes, NEW j \in Job, Nacked(j)
    PROVE  ready' \in Seq(Job) /\ past' \in Past
<1>1. [j EXCEPT !.attempts = @ + 1] \in Job
  BY DEF Job
<1>2. Append(ready, [j EXCEPT !.attempts = @ + 1]) \in Seq(Job)
  BY <1>1, AppendProperties DEF StateTypes, StoreTypeOK
<1>3. \/ ready' = Append(ready, [j EXCEPT !.attempts = @ + 1]) /\ past' = past
      \/ past' = [past EXCEPT !.ended = @ \cup {j.id}] /\ ready' = ready
  BY DEF Nacked
<1>4. j.id \in Questions
  BY DEF Job
<1>5. [past EXCEPT !.ended = @ \cup {j.id}] \in Past
  BY <1>4 DEF StateTypes, Past
<1> QED
  BY <1>2, <1>3, <1>5 DEF StateTypes, StoreTypeOK

LEMMA SettleTypes ==
    ASSUME StateTypes, WorkerHands, Settle
    PROVE  StateTypes'
<1>1. job \in Job
  BY DEF Settle, At, WorkerHands, StateTypes
<1>2. ready' \in Seq(Job) /\ past' \in Past
  <2>1. CASE Nacked(job)
    BY <1>1, <2>1, NackedTypes
  <2>2. CASE past' = [past EXCEPT !.ended = @ \cup {job.id}] /\ ready' = ready
    <3>1. job.id \in Questions
      BY <1>1 DEF Job
    <3> QED
      BY <2>2, <3>1 DEF StateTypes, StoreTypeOK, Past
  <2> QED
    BY <2>1, <2>2 DEF Settle
<1>3. pc' \in [Goroutines -> Steps] /\ \A r \in Goroutines : pc'[r] \in StepsOf(r)
  <2>1. Goto("worker", "idle") /\ "worker" \in Goroutines /\ "idle" \in StepsOf("worker")
    BY Distinct DEF Settle, StepsOf, WorkerSteps
  <2> QED
    BY <2>1, GotoType
<1>4. /\ inflight' = NoJob /\ job' = NoJob /\ cancelled' = FALSE /\ verdict' \in Verdicts
      /\ doing' = [doing EXCEPT !["worker"] = {}]
      /\ UNCHANGED <<stored, queries, stage, up, memory, load, entries, prompt, cast, browsers>>
  BY DEF Settle, Verdicts
<1>5. StoreTypeOK'
  BY <1>2, <1>4 DEF StateTypes, StoreTypeOK
<1>6. doing' \in [Goroutines -> SUBSET Message]
  BY <1>4 DEF StateTypes, ProcessTypeOK
<1>7. ProcessTypeOK'
  BY <1>3, <1>4, <1>6 DEF StateTypes, ProcessTypeOK
<1>8. BrowserTypeOK'
  BY <1>4 DEF StateTypes, BrowserTypeOK, browsers
<1> QED
  BY <1>2, <1>3, <1>4, <1>5, <1>7, <1>8 DEF StateTypes

LEMMA DropTypes ==
    ASSUME StateTypes, NEW c \in Conns, Drop(c)
    PROVE  /\ cancelled' \in BOOLEAN /\ ready' \in Seq(Job)
           /\ Selected(ready', ready) /\ Range(ready') \subseteq Range(ready)
<1>1. cancelled' \in BOOLEAN
  BY Zenon DEF Drop
<1> DEFINE keep == {i \in DOMAIN ready : Asker[ready[i].id] # c}
<1>2. ready \in Seq(Job) /\ DOMAIN ready = 1..Len(ready) /\ ready' = Sieve(ready, keep)
  BY LenProperties DEF Drop, StateTypes, StoreTypeOK
<1>3. keep \in SUBSET (1..Len(ready))
  BY <1>2
<1> HIDE DEF keep
<1>4. /\ ready' \in Seq(Job) /\ Selected(ready', ready)
      /\ Range(ready') = {ready[i] : i \in keep}
  BY <1>2, <1>3, SieveRange
<1>5. Range(ready) = {ready[i] : i \in 1..Len(ready)}
  BY <1>2, RangeEquality
<1> QED
  BY <1>1, <1>3, <1>4, <1>5

LEMMA StopTypes ==
    ASSUME StateTypes, NEW c \in Conns, Stop(c)
    PROVE  StateTypes'
<1>1. cancelled' \in BOOLEAN /\ ready' \in Seq(Job)
  BY DropTypes DEF Stop
<1>2. UNCHANGED <<stored, queries, stage, inflight, up, memory, load, entries, pc, doing,
                  job, verdict, prompt, cast, browsers, past>>
  BY DEF Stop
<1>3. StoreTypeOK' /\ ProcessTypeOK'
  BY <1>1, <1>2 DEF StateTypes, StoreTypeOK, ProcessTypeOK
<1>4. BrowserTypeOK'
  BY <1>2 DEF StateTypes, BrowserTypeOK, browsers
<1> QED
  BY <1>2, <1>3, <1>4 DEF StateTypes

LEMMA JoinTypes ==
    ASSUME StateTypes, NEW c \in Conns, Connect(c) \/ Snapshot(c) \/ Greet(c)
    PROVE  StateTypes'
<1>1. UNCHANGED <<store, process, past>>
  BY DEF Connect, Snapshot, Greet, Join
<1>2. StoreTypeOK' /\ ProcessTypeOK' /\ pc' = pc /\ job' = job /\ past' = past
  BY <1>1 DEF StateTypes, StoreTypeOK, ProcessTypeOK, store, process
<1>3. Range(memory) \in SUBSET Message
  BY RangeOfSeq DEF StateTypes, ProcessTypeOK
<1>4. BrowserTypeOK'
  <2>1. CASE Connect(c)
    BY <2>1 DEF Connect, Join, StateTypes, BrowserTypeOK
  <2>2. CASE Snapshot(c)
    BY <1>3, <2>2 DEF Snapshot, Join, StateTypes, BrowserTypeOK
  <2>3. CASE Greet(c)
    BY <2>3 DEF Greet, Join, StateTypes, BrowserTypeOK
  <2> QED
    BY <2>1, <2>2, <2>3
<1> QED
  BY <1>2, <1>4 DEF StateTypes

LEMMA DisconnectTypes ==
    ASSUME StateTypes, NEW c \in Conns, Disconnect(c)
    PROVE  StateTypes'
<1>1. cancelled' \in BOOLEAN /\ ready' \in Seq(Job)
  BY DropTypes DEF Disconnect
<1>2. cast' \in [Goroutines -> SUBSET Write]
  BY DEF Disconnect, StateTypes, ProcessTypeOK
<1>3. UNCHANGED <<stored, queries, stage, inflight, up, memory, load, entries, pc, doing,
                  job, verdict, prompt, snap, past>>
  BY DEF Disconnect
<1>4. StoreTypeOK' /\ ProcessTypeOK'
  BY <1>1, <1>2, <1>3 DEF StateTypes, StoreTypeOK, ProcessTypeOK
<1>5. BrowserTypeOK'
  BY <1>3 DEF Disconnect, StateTypes, BrowserTypeOK
<1> QED
  BY <1>3, <1>4, <1>5 DEF StateTypes

LEMMA LoadTypes ==
    ASSUME StateTypes, LoadHistory \/ AdoptHistory
    PROVE  StateTypes'
<1>1. UNCHANGED <<store, up, pc, doing, job, cancelled, verdict, prompt, cast, browsers, past>>
  BY DEF LoadHistory, AdoptHistory
<1>2. load' \in {"ask", "adopt", "ready"} /\ entries' \in Seq(Message)
  <2>1. \/ load' = load /\ entries' = entries
        \/ load' = "adopt" /\ entries' = stored
        \/ load' = "ready" /\ entries' = <<>>
    BY DEF LoadHistory, AdoptHistory
  <2>2. <<>> \in Seq(Message)
    OBVIOUS
  <2> QED
    BY <2>1, <2>2 DEF StateTypes, StoreTypeOK, ProcessTypeOK
<1>3. memory' \in Seq(Message) /\ Len(memory') <= Cap
  <2>1. CASE memory' = memory
    BY <2>1 DEF StateTypes, ProcessTypeOK
  <2>2. CASE memory' = KeepLast(entries \o memory, Cap)
    <3>1. entries \o memory \in Seq(Message)
      BY ConcatProperties DEF StateTypes, ProcessTypeOK
    <3> QED
      BY <2>2, <3>1, Distinct, KeepLastType
  <2> QED
    BY <2>1, <2>2 DEF LoadHistory, AdoptHistory
<1>4. StoreTypeOK' /\ ProcessTypeOK'
  BY <1>1, <1>2, <1>3 DEF StateTypes, StoreTypeOK, ProcessTypeOK, store
<1>5. BrowserTypeOK'
  BY <1>1 DEF StateTypes, BrowserTypeOK, browsers
<1> QED
  BY <1>1, <1>4, <1>5 DEF StateTypes

LEMMA BootTypes ==
    ASSUME StateTypes, Boot
    PROVE  StateTypes'
<1>1. ready' \in Seq(Job) /\ past' \in Past
  <2>1. CASE inflight # NoJob
    <3>1. inflight \in Job /\ Nacked(inflight)
      BY <2>1 DEF Boot, StateTypes, StoreTypeOK
    <3> QED
      BY <3>1, NackedTypes
  <2>2. CASE inflight = NoJob
    BY <2>2 DEF Boot, StateTypes, StoreTypeOK
  <2> QED
    BY <2>1, <2>2
<1>2. /\ up' = TRUE /\ inflight' = NoJob
      /\ UNCHANGED <<stored, queries, stage, memory, load, entries, pc, doing, job, cancelled,
                     verdict, prompt, cast, browsers>>
  BY DEF Boot
<1>3. StoreTypeOK' /\ ProcessTypeOK'
  BY <1>1, <1>2 DEF StateTypes, StoreTypeOK, ProcessTypeOK
<1>4. BrowserTypeOK'
  BY <1>2 DEF StateTypes, BrowserTypeOK, browsers
<1> QED
  BY <1>1, <1>2, <1>3, <1>4 DEF StateTypes

LEMMA CrashTypes ==
    ASSUME StateTypes, Crash
    PROVE  StateTypes'
<1>1. Uncounted \subseteq Questions
  BY Distinct DEF Uncounted, StateTypes, ProcessTypeOK, Message
<1>2. past' \in Past
  <2>1. past \in Past /\ job \in Job \cup {NoJob}
    BY DEF StateTypes
  <2>2. past.uncounted \cup Uncounted \subseteq Questions
    BY <1>1, <2>1 DEF Past
  <2> DEFINE cut == IF job = NoJob THEN past.cut ELSE [past.cut EXCEPT ![job.id] = @ + 1]
  <2>3. cut \in [Questions -> Nat]
    BY <2>1 DEF Past, Job
  <2>4. past' = [past EXCEPT !.uncounted = past.uncounted \cup Uncounted, !.cut = cut]
    <3>1. CASE job = NoJob
      BY <3>1 DEF Crash
    <3>2. CASE job # NoJob
      BY <3>2 DEF Crash
    <3> QED
      BY <3>1, <3>2
  <2> HIDE DEF cut
  <2> QED
    BY <2>1, <2>2, <2>3, <2>4 DEF Past
<1>3. /\ up' = FALSE /\ memory' = <<>> /\ load' = "ask" /\ entries' = <<>>
      /\ pc' = [p \in Goroutines |-> "idle"] /\ doing' = [p \in Goroutines |-> {}]
      /\ cast' = [p \in Goroutines |-> {}]
      /\ job' = NoJob /\ cancelled' = FALSE /\ verdict' = "none" /\ prompt' = <<>>
      /\ UNCHANGED store
  BY DEF Crash
<1>4. <<>> \in Seq(Message) /\ Len(<<>>) = 0
  OBVIOUS
<1>5. StoreTypeOK'
  BY <1>3 DEF StateTypes, StoreTypeOK, store
<1>6. ProcessTypeOK' /\ pc' \in [Goroutines -> Steps]
  <2>1. \A p \in Goroutines : pc'[p] \in StepsOf(p) /\ pc'[p] \in Steps
    BY <1>3 DEF StepsOf, Steps, WebSteps, PollerSteps, WorkerSteps
  <2>2. memory' \in Seq(Message) /\ Len(memory') <= Cap /\ entries' \in Seq(Message) /\ prompt' \in Seq(Message)
    BY <1>3, <1>4, Distinct
  <2>3. doing' \in [Goroutines -> SUBSET Message] /\ cast' \in [Goroutines -> SUBSET Write]
    BY <1>3
  <2> QED
    BY <1>3, <2>1, <2>2, <2>3 DEF ProcessTypeOK, Verdicts
<1>7. BrowserTypeOK'
  BY DEF Crash, StateTypes, BrowserTypeOK
<1> QED
  BY <1>2, <1>3, <1>5, <1>6, <1>7 DEF StateTypes

-----------------------------------------------------------------------------
(* Who has what in hand: what a step of one goroutine must leave.          *)

LEMMA HandsStand ==
    ASSUME StateTypes, Hands, UNCHANGED <<pc, doing, job, inflight, up, load, stage>>,
           past'.asked = past.asked
    PROVE  Hands'
BY DEF Hands, HandsTypeOK, WebHands, PollerHands, WorkerHands, OneInHand, StagesInv

LEMMA WebStep ==
    ASSUME StateTypes, Hands, NEW c \in Conns,
           \A r \in Goroutines \ {c} : pc'[r] = pc[r] /\ doing'[r] = doing[r],
           UNCHANGED <<job, inflight, up, load, stage>>,
           past.asked \subseteq past'.asked,
           \A q \in Questions : Asker[q] = "poller" => (q \in past'.asked <=> q \in past.asked),
           doing'[c] \subseteq {Question(q) : q \in {r \in past'.asked : Asker[r] = c}},
           \A m, n \in doing'[c] : m = n,
           doing'[c] # {} <=> pc'[c] \notin {"idle", "del", "reset"}
    PROVE  Hands'
<1>1. "poller" \in Goroutines \ {c} /\ "worker" \in Goroutines \ {c} /\ c \in Goroutines /\ Conns \subseteq Goroutines
  BY Distinct
<1>2. HandsTypeOK'
  BY <1>1 DEF Hands, HandsTypeOK
<1>3. WebHands'
  <2>1. ASSUME NEW d \in Conns \ {c}
        PROVE  doing'[d] \subseteq {Question(q) : q \in {r \in past'.asked : Asker[r] = d}}
    BY <1>1, <2>1 DEF Hands, WebHands
  <2> QED
    BY <2>1 DEF WebHands
<1>4. PollerHands' /\ WorkerHands'
  BY <1>1 DEF Hands, PollerHands, WorkerHands
<1>5. OneInHand'
  <2>1. ASSUME NEW p \in Goroutines \ {c}
        PROVE  \A m, n \in doing'[p] : m = n
    BY <2>1 DEF Hands, OneInHand
  <2> QED
    BY <2>1 DEF OneInHand
<1>6. StagesInv'
  BY DEF Hands, StagesInv
<1> QED
  BY <1>2, <1>3, <1>4, <1>5, <1>6 DEF Hands

LEMMA PollerStep ==
    ASSUME StateTypes, Hands,
           \A r \in Goroutines \ {"poller"} : pc'[r] = pc[r] /\ doing'[r] = doing[r],
           UNCHANGED <<job, inflight, up>>,
           past.asked \subseteq past'.asked,
           PollerHands', StagesInv',
           \A m, n \in doing'["poller"] : m = n,
           doing'["poller"] # {} <=> pc'["poller"] \notin {"idle", "del", "reset"}
    PROVE  Hands'
<1>1. /\ "poller" \in Goroutines /\ "worker" \in Goroutines \ {"poller"}
      /\ Conns \subseteq Goroutines \ {"poller"}
  BY Distinct
<1>2. HandsTypeOK'
  BY <1>1 DEF Hands, HandsTypeOK
<1>3. WebHands'
  <2>1. ASSUME NEW d \in Conns
        PROVE  doing'[d] \subseteq {Question(q) : q \in {r \in past'.asked : Asker[r] = d}}
    BY <1>1, <2>1 DEF Hands, WebHands
  <2> QED
    BY <2>1 DEF WebHands
<1>4. WorkerHands'
  BY <1>1 DEF Hands, WorkerHands
<1>5. OneInHand'
  <2>1. ASSUME NEW p \in Goroutines \ {"poller"}
        PROVE  \A m, n \in doing'[p] : m = n
    BY <2>1 DEF Hands, OneInHand
  <2> QED
    BY <2>1 DEF OneInHand
<1> QED
  BY <1>2, <1>3, <1>4, <1>5 DEF Hands

LEMMA WorkerStep ==
    ASSUME StateTypes, Hands,
           \A r \in Goroutines \ {"worker"} : pc'[r] = pc[r] /\ doing'[r] = doing[r],
           UNCHANGED <<up, load, stage>>,
           past'.asked = past.asked, job' = inflight', WorkerHands',
           \A m, n \in doing'["worker"] : m = n
    PROVE  Hands'
<1>1. /\ "worker" \in Goroutines /\ "poller" \in Goroutines \ {"worker"}
      /\ Conns \subseteq Goroutines \ {"worker"}
  BY Distinct
<1>2. HandsTypeOK'
  BY <1>1 DEF Hands, HandsTypeOK
<1>3. WebHands'
  <2>1. ASSUME NEW d \in Conns
        PROVE  doing'[d] \subseteq {Question(q) : q \in {r \in past'.asked : Asker[r] = d}}
    BY <1>1, <2>1 DEF Hands, WebHands
  <2> QED
    BY <2>1 DEF WebHands
<1>4. PollerHands'
  BY <1>1 DEF Hands, PollerHands
<1>5. OneInHand'
  <2>1. ASSUME NEW p \in Goroutines \ {"worker"}
        PROVE  \A m, n \in doing'[p] : m = n
    BY <2>1 DEF Hands, OneInHand
  <2> QED
    BY <2>1 DEF OneInHand
<1>6. StagesInv'
  BY DEF Hands, StagesInv
<1> QED
  BY <1>2, <1>3, <1>4, <1>5, <1>6 DEF Hands

LEMMA BroadcastFrames ==
    ASSUME StateTypes, Frames, NEW p \in Goroutines, NEW kind \in Kinds, NEW what \in SUBSET Message,
           Broadcast(p, kind, what), kind \in {"reset", "error"} => what = {}, UNCHANGED conn
    PROVE  Frames'
<1>1. /\ cast'[p] = {[to |-> c, kind |-> kind, what |-> what] : c \in Registered}
      /\ \A r \in Goroutines \ {p} : cast'[r] = cast[r]
  BY BroadcastType
<1>2. ASSUME NEW r \in Goroutines, NEW w \in cast'[r]
      PROVE  /\ w.kind \in {"reset", "error"} => w.what = {}
             /\ conn'[w.to] \in {"joining", "greeted", "open"}
  <2>1. CASE r = p
    <3>1. PICK c \in Registered : w = [to |-> c, kind |-> kind, what |-> what]
      BY <1>1, <1>2, <2>1
    <3> QED
      BY <3>1 DEF Registered
  <2>2. CASE r # p
    BY <1>1, <1>2, <2>2 DEF Frames
  <2> QED
    BY <2>1, <2>2
<1> QED
  BY <1>2 DEF Frames

LEMMA Seeing ==
    ASSUME StateTypes, SeenTypes, Watch
    PROVE  /\ SeenTypes'
           /\ seen'.erased = seen.erased \cup (Range(stored) \ Range(stored'))
<1>1. seen'.erased = seen.erased \cup (Range(stored) \ Range(stored'))
  BY DEF Watch
<1>2. Range(stored) \subseteq Message /\ Range(entries \o memory) \subseteq Message
  <2>1. entries \o memory \in Seq(Message) /\ stored \in Seq(Message)
    BY ConcatProperties DEF StateTypes, StoreTypeOK, ProcessTypeOK
  <2> QED
    BY <2>1, RangeOfSeq
<1>3. seen'.erased \subseteq Message
  BY <1>1, <1>2 DEF SeenTypes
<1>4. seen'.wiped \subseteq Message
  BY <1>2 DEF Watch, SeenTypes
<1>5. seen'.stale \subseteq Conns
  BY DEF Watch, SeenTypes
<1>6. seen'.torn \in BOOLEAN
  BY Zenon DEF Watch
<1> QED
  BY <1>1, <1>3, <1>4, <1>5, <1>6 DEF SeenTypes

-----------------------------------------------------------------------------
(* Who has what in hand: each action.                                      *)

Grip == Hands /\ Frames /\ DownInv

LEMMA WriteFrameGrip ==
    ASSUME ControlInv, NEW p \in Goroutines, WriteFrame(p)
    PROVE  Grip'
<1>1. UNCHANGED <<store, up, memory, load, entries, pc, doing, job, conn, past>>
  BY DEF WriteFrame
<1>2. Hands'
  BY <1>1, HandsStand DEF ControlInv, store
<1>3. \A r \in Goroutines : cast'[r] \subseteq cast[r]
  BY DEF WriteFrame, ControlInv, StateTypes, ProcessTypeOK
<1>4. Frames'
  BY <1>1, <1>3 DEF ControlInv, Frames
<1>5. up
  BY <1>3 DEF WriteFrame, ControlInv, DownInv
<1>6. DownInv'
  BY <1>1, <1>5 DEF ControlInv, DownInv
<1> QED
  BY <1>2, <1>4, <1>6 DEF Grip

\* While the process runs and the loader rests, DownInv has nothing to say but this.
LEMMA UpStands ==
    ASSUME DownInv, up, UNCHANGED <<up, entries, load>>
    PROVE  DownInv'
BY DEF DownInv

LEMMA PersistGrip ==
    ASSUME ControlInv, NEW p \in Writers, Persist(p) \/ Trim(p)
    PROVE  Grip'
<1>1. /\ UNCHANGED <<stage, inflight, up, load, entries, doing, job, cast, browsers>>
      /\ past'.asked = past.asked /\ up /\ pc[p] \in {"persist", "trim"}
  BY DEF Persist, Trim, At, ControlInv, StateTypes, Past
<1>2. PICK s \in {"trim", "show"} : Goto(p, s)
  BY DEF Persist, Trim
<1>3. p \in Goroutines /\ s \in StepsOf(p)
  BY Distinct DEF Writers, StepsOf, WebSteps, WorkerSteps
<1>4. /\ pc'[p] = s /\ \A r \in Goroutines \ {p} : pc'[r] = pc[r]
  BY <1>2, <1>3, GotoType DEF ControlInv
<1>5. CASE p \in Conns
  <2>1. doing[p] # {} /\ doing[p] \subseteq {Question(q) : q \in {r \in past.asked : Asker[r] = p}}
    BY <1>1, <1>3, <1>5, Distinct DEF ControlInv, Hands, HandsTypeOK, WebHands
  <2>2. \A m, n \in doing[p] : m = n
    BY <1>3 DEF ControlInv, Hands, OneInHand
  <2>3. Hands'
    BY <1>1, <1>4, <1>5, <2>1, <2>2, WebStep DEF ControlInv
  <2> QED
    BY <1>1, <2>3, UpStands DEF Grip, Frames, ControlInv, browsers
<1>6. CASE p = "worker"
  <2>1. WorkerHands'
    BY <1>1, <1>4, <1>6 DEF ControlInv, Hands, WorkerHands
  <2>2. Hands'
    BY <1>1, <1>4, <1>6, <2>1, WorkerStep, Distinct DEF ControlInv, Hands, OneInHand, HandsTypeOK
  <2> QED
    BY <1>1, <2>2, UpStands DEF Grip, Frames, ControlInv, browsers
<1> QED
  BY <1>5, <1>6 DEF Writers

LEMMA ShowGrip ==
    ASSUME ControlInv, NEW p \in Goroutines, Show(p)
    PROVE  Grip'
<1>1. /\ UNCHANGED <<stage, inflight, up, load, entries, doing, job, conn>>
      /\ past'.asked = past.asked /\ up /\ pc[p] = "show"
  BY DEF Show, At, ControlInv, StateTypes, Past, browsers, store
<1>2. AfterShow(p) \in StepsOf(p) /\ doing[p] \in SUBSET Message
  BY Distinct DEF AfterShow, StepsOf, WebSteps, PollerSteps, WorkerSteps, Goroutines,
     ControlInv, StateTypes, ProcessTypeOK
<1>3. /\ pc'[p] = AfterShow(p) /\ \A r \in Goroutines \ {p} : pc'[r] = pc[r]
  <2>1. Goto(p, AfterShow(p))
    BY DEF Show
  <2> QED
    BY <1>2, <2>1, GotoType DEF ControlInv
<1>4. Frames'
  <2>1. PICK kind \in {"done", "message"} : Broadcast(p, kind, doing[p])
    BY DEF Show
  <2>2. kind \in Kinds /\ kind \notin {"reset", "error"}
    BY DEF Kinds
  <2> QED
    BY <1>1, <1>2, <2>1, <2>2, BroadcastFrames DEF ControlInv
<1>5. Hands'
  <2>1. CASE p \in Conns
    <3>1. doing[p] # {} /\ doing[p] \subseteq {Question(q) : q \in {r \in past.asked : Asker[r] = p}}
      BY <1>1, <2>1, Distinct DEF ControlInv, Hands, HandsTypeOK, WebHands
    <3>2. \A m, n \in doing[p] : m = n
      BY DEF ControlInv, Hands, OneInHand
    <3>3. AfterShow(p) = "count"
      BY <2>1, Distinct DEF AfterShow
    <3> QED
      BY <1>1, <1>3, <2>1, <3>1, <3>2, <3>3, WebStep DEF ControlInv
  <2>2. CASE p = "worker"
    <3>1. AfterShow(p) = "deliver"
      BY <2>2 DEF AfterShow
    <3>2. WorkerHands'
      BY <1>1, <1>3, <2>2, <3>1 DEF ControlInv, Hands, WorkerHands
    <3> QED
      BY <1>1, <1>3, <2>2, <3>2, WorkerStep, Distinct DEF ControlInv, Hands, OneInHand, HandsTypeOK
  <2>3. CASE p = "poller"
    <3>1. /\ AfterShow(p) \notin {"idle", "del", "reset"} /\ doing["poller"] # {}
          /\ \A m, n \in doing["poller"] : m = n
      BY <1>1, <2>3, Distinct DEF AfterShow, ControlInv, Hands, HandsTypeOK, OneInHand
    <3>2. PollerHands'
      <4>1. \A m \in doing["poller"] : m.of \in Questions
        BY <1>2, <2>3 DEF Message
      <4>2. \A m \in doing["poller"] : stage[m.of] \in {"message", "stats", "job"}
        BY <4>1 DEF ControlInv, Hands, PollerHands, StateTypes, StoreTypeOK, Stages
      <4>3. \A m \in doing["poller"] : AfterShow(p) =
              IF stage[m.of] = "message" THEN "stats" ELSE IF stage[m.of] = "stats" THEN "queue" ELSE "complete"
        BY <2>3, <3>1, Distinct DEF AfterShow
      <4> QED
        BY <1>1, <1>3, <2>3, <4>2, <4>3 DEF ControlInv, Hands, PollerHands
    <3>3. StagesInv'
      BY <1>1 DEF ControlInv, Hands, StagesInv
    <3> QED
      BY <1>1, <1>3, <2>3, <3>1, <3>2, <3>3, PollerStep DEF ControlInv
  <2> QED
    BY <2>1, <2>2, <2>3 DEF Goroutines
<1> QED
  BY <1>1, <1>4, <1>5, UpStands DEF Grip, ControlInv

LEMMA AskGrip ==
    ASSUME ControlInv, NEW c \in Conns, NEW q \in Questions, Ask(c, q)
    PROVE  Grip'
<1>1. /\ UNCHANGED <<stage, inflight, up, load, entries, job, cast, conn>> /\ up
      /\ past'.asked = past.asked \cup {q} /\ Asker[q] = c
      /\ doing' = [doing EXCEPT ![c] = {Question(q)}]
  BY DEF Ask, At, ControlInv, StateTypes, Past, store
<1>2. /\ pc'[c] = "persist" /\ \A r \in Goroutines \ {c} : pc'[r] = pc[r]
  <2>1. Goto(c, "persist") /\ c \in Goroutines /\ "persist" \in StepsOf(c)
    BY Distinct DEF Ask, StepsOf, WebSteps
  <2> QED
    BY <2>1, GotoType DEF ControlInv
<1>3. doing'[c] = {Question(q)} /\ \A r \in Goroutines \ {c} : doing'[r] = doing[r]
  BY <1>1, Distinct DEF ControlInv, StateTypes, ProcessTypeOK
<1>4. Hands'
  BY <1>1, <1>2, <1>3, WebStep, Distinct DEF ControlInv
<1> QED
  BY <1>1, <1>4, UpStands DEF Grip, Frames, ControlInv

LEMMA CountQueryGrip ==
    ASSUME ControlInv, NEW c \in Conns, CountQuery(c)
    PROVE  Grip'
<1>1. /\ UNCHANGED <<stage, inflight, up, load, entries, doing, job, cast, conn>> /\ up
      /\ past'.asked = past.asked /\ doing[c] # {}
  BY DEF CountQuery, At, ControlInv, StateTypes, Past, browsers
<1>2. /\ pc'[c] = "enqueue" /\ \A r \in Goroutines \ {c} : pc'[r] = pc[r] /\ c \in Goroutines
  <2>1. Goto(c, "enqueue") /\ c \in Goroutines /\ "enqueue" \in StepsOf(c)
    BY Distinct DEF CountQuery, StepsOf, WebSteps
  <2> QED
    BY <2>1, GotoType DEF ControlInv
<1>3. doing[c] \subseteq {Question(q) : q \in {r \in past.asked : Asker[r] = c}} /\ \A m, n \in doing[c] : m = n
  BY Distinct DEF ControlInv, Hands, WebHands, OneInHand
<1>4. Hands'
  BY <1>1, <1>2, <1>3, WebStep, Distinct DEF ControlInv
<1> QED
  BY <1>1, <1>4, UpStands DEF Grip, Frames, ControlInv

LEMMA WebRestGrip ==
    ASSUME ControlInv, NEW c \in Conns, Enqueue(c) \/ Clear(c) \/ Delete(c)
    PROVE  Grip'
<1>1. /\ UNCHANGED <<stage, inflight, up, load, entries, job, cast, conn, past>> /\ up
      /\ \A r \in Goroutines \ {c} : doing'[r] = doing[r]
      /\ c \in Goroutines
  BY Distinct DEF Enqueue, Clear, Delete, At, ControlInv, StateTypes, ProcessTypeOK, browsers, store
<1>2. PICK s \in {"idle", "del", "reset"} : Goto(c, s)
  BY DEF Enqueue, Clear, Delete
<1>3. /\ pc'[c] = s /\ \A r \in Goroutines \ {c} : pc'[r] = pc[r]
  <2>1. s \in StepsOf(c)
    BY Distinct DEF StepsOf, WebSteps
  <2> QED
    BY <1>1, <1>2, <2>1, GotoType DEF ControlInv
<1>4. doing'[c] = {}
  <2>1. CASE Enqueue(c)
    BY <1>1, <2>1 DEF Enqueue, ControlInv, StateTypes, ProcessTypeOK
  <2>2. CASE Clear(c) \/ Delete(c)
    BY <1>1, <2>2, Distinct DEF Clear, Delete, At, ControlInv, Hands, HandsTypeOK
  <2> QED
    BY <2>1, <2>2
<1>5. Hands'
  BY <1>1, <1>3, <1>4, WebStep, Distinct DEF ControlInv
<1> QED
  BY <1>1, <1>5, UpStands DEF Grip, Frames, ControlInv

LEMMA ResetGrip ==
    ASSUME ControlInv, NEW c \in Conns, Reset(c)
    PROVE  Grip'
<1>1. /\ UNCHANGED <<stage, inflight, up, load, entries, doing, job, conn, past>> /\ up
      /\ pc[c] = "reset" /\ c \in Goroutines
  BY Distinct DEF Reset, At, browsers, store
<1>2. /\ pc'[c] = "idle" /\ \A r \in Goroutines \ {c} : pc'[r] = pc[r]
  <2>1. Goto(c, "idle") /\ "idle" \in StepsOf(c)
    BY Distinct DEF Reset, StepsOf, WebSteps
  <2> QED
    BY <1>1, <2>1, GotoType DEF ControlInv
<1>3. doing'[c] = {}
  BY <1>1, Distinct DEF ControlInv, Hands, HandsTypeOK
<1>4. Hands'
  BY <1>1, <1>2, <1>3, WebStep, Distinct DEF ControlInv
<1>5. Frames'
  BY <1>1, BroadcastFrames DEF Reset, ControlInv, Kinds
<1> QED
  BY <1>1, <1>4, <1>5, UpStands DEF Grip, ControlInv

LEMMA TakeUpdateGrip ==
    ASSUME ControlInv, NEW q \in Questions, TakeUpdate(q)
    PROVE  Grip'
<1>1. PICK o \in Outcome :
         /\ IF stage[q] = "absent" /\ Applied(o)
            THEN /\ stage' = [stage EXCEPT ![q] = "message"]
                 /\ past' = [past EXCEPT !.asked = @ \cup {q}]
            ELSE UNCHANGED <<stage, past>>
         /\ IF Replied(o)
            THEN doing' = [doing EXCEPT !["poller"] = {Question(q)}] /\ Goto("poller", "remember")
            ELSE UNCHANGED <<doing, pc>>
  BY DEF TakeUpdate
<1>2. /\ UNCHANGED <<inflight, up, load, entries, job, cast, conn>> /\ up /\ load = "ready"
      /\ Asker[q] = "poller" /\ stage[q] # "complete"
      /\ \A r \in Questions \ {q} : stage[r] \in {"absent", "complete"}
      /\ pc["poller"] = "idle" /\ doing["poller"] = {}
  BY Distinct DEF TakeUpdate, At, ControlInv, Hands, HandsTypeOK, browsers
<1>3. /\ \A r \in Goroutines \ {"poller"} : pc'[r] = pc[r] /\ doing'[r] = doing[r]
      /\ \/ pc'["poller"] = "remember" /\ doing'["poller"] = {Question(q)} /\ Replied(o)
         \/ pc'["poller"] = "idle" /\ doing'["poller"] = {}
  <2>1. CASE Replied(o)
    <3>1. "poller" \in Goroutines /\ "remember" \in StepsOf("poller") /\ Goto("poller", "remember")
      BY <1>1, <2>1, Distinct DEF StepsOf, PollerSteps
    <3>2. /\ pc'["poller"] = "remember" /\ \A r \in Goroutines \ {"poller"} : pc'[r] = pc[r]
      BY <3>1, GotoType DEF ControlInv
    <3>3. doing' = [doing EXCEPT !["poller"] = {Question(q)}]
      BY <1>1, <2>1
    <3> QED
      BY <2>1, <3>1, <3>2, <3>3 DEF ControlInv, StateTypes, ProcessTypeOK
  <2>2. CASE ~Replied(o)
    BY <1>1, <1>2, <2>2
  <2> QED
    BY <2>1, <2>2
<1>4. \/ /\ stage[q] = "absent" /\ stage'[q] = "message" /\ past'.asked = past.asked \cup {q}
         /\ \A r \in Questions \ {q} : stage'[r] = stage[r]
      \/ /\ stage' = stage /\ past'.asked = past.asked
         /\ Replied(o) => stage[q] # "absent"
  BY <1>1 DEF ControlInv, StateTypes, StoreTypeOK, Past
<1>5. StagesInv'
  <2>1. \A r \in Questions : stage'[r] # "absent" <=> Asker[r] = "poller" /\ r \in past'.asked
    BY <1>2, <1>4 DEF ControlInv, Hands, StagesInv
  <2>2. \A r \in Questions \ {q} : stage'[r] \in {"absent", "complete"}
    BY <1>2, <1>4
  <2> QED
    BY <2>1, <2>2 DEF StagesInv
<1>6. PollerHands'
  BY <1>2, <1>3, <1>4, QuestionType DEF PollerHands
<1>7. Hands'
  BY <1>2, <1>3, <1>4, <1>5, <1>6, PollerStep DEF ControlInv
<1> QED
  BY <1>2, <1>7, UpStands DEF Grip, Frames, ControlInv

LEMMA EnsureGrip ==
    ASSUME ControlInv, EnsureMessageMemory
    PROVE  Grip'
<1>1. /\ UNCHANGED <<stage, inflight, up, load, entries, doing, job, cast, conn, past>> /\ up
      /\ pc["poller"] = "remember" /\ doing["poller"] # {} /\ "poller" \in Goroutines
  BY Distinct DEF EnsureMessageMemory, At, browsers, store
<1>2. PICK s \in {"show", AfterShow("poller")} : Goto("poller", s)
  BY DEF EnsureMessageMemory
<1>3. s \in StepsOf("poller") /\ s \notin {"idle", "del", "reset"}
  BY Distinct DEF AfterShow, StepsOf, PollerSteps
<1>4. /\ pc'["poller"] = s /\ \A r \in Goroutines \ {"poller"} : pc'[r] = pc[r]
  BY <1>1, <1>2, <1>3, GotoType DEF ControlInv
<1>5. PollerHands'
  <2>1. \A m \in doing["poller"] : m.of \in Questions
    BY <1>1 DEF ControlInv, StateTypes, ProcessTypeOK, Message
  <2>2. \A m \in doing["poller"] : stage[m.of] \in {"message", "stats", "job"}
    BY <2>1 DEF ControlInv, Hands, PollerHands, StateTypes, StoreTypeOK, Stages
  <2>3. \A m, n \in doing["poller"] : m = n
    BY <1>1 DEF ControlInv, Hands, OneInHand
  <2>4. \A m \in doing["poller"] : AfterShow("poller") =
          IF stage[m.of] = "message" THEN "stats" ELSE IF stage[m.of] = "stats" THEN "queue" ELSE "complete"
    BY <2>3, Distinct DEF AfterShow
  <2> QED
    BY <1>1, <1>2, <1>4, <2>2, <2>4 DEF ControlInv, Hands, PollerHands
<1>6. Hands'
  <2>1. StagesInv'
    BY <1>1 DEF ControlInv, Hands, StagesInv
  <2> QED
    BY <1>1, <1>3, <1>4, <1>5, <2>1, PollerStep DEF ControlInv, Hands, OneInHand
<1> QED
  BY <1>1, <1>6, UpStands DEF Grip, Frames, ControlInv

LEMMA AdvanceGrip ==
    ASSUME ControlInv, NEW step, NEW next, NEW then, NEW o \in Outcome, Advance(step, next, o),
           step # "idle",
           <<step, next, then>> \in {<<"stats", "stats", "queue">>, <<"queue", "job", "complete">>,
                                     <<"complete", "complete", "idle">>},
           \/ Goto("poller", then) /\ UNCHANGED doing /\ Replied(o) /\ then # "idle"
           \/ GiveUp
    PROVE  Grip'
<1>1. PICK m \in doing["poller"] :
         stage' = IF Applied(o) THEN [stage EXCEPT ![m.of] = next] ELSE stage
  BY DEF Advance
<1>2. /\ UNCHANGED <<inflight, up, load, entries, job, cast, conn, past>> /\ up
      /\ pc["poller"] = step /\ "poller" \in Goroutines
  BY Distinct DEF Advance, At, browsers
<1>3. /\ m.of \in Questions /\ \A n \in doing["poller"] : n = m
      /\ stage[m.of] \notin {"absent", "complete"} /\ m.try = 0 /\ Asker[m.of] = "poller"
      /\ load = "ready"
  BY <1>2 DEF ControlInv, Hands, OneInHand, PollerHands, StateTypes, ProcessTypeOK, Message
<1>4. \A r \in Questions \ {m.of} : stage[r] \in {"absent", "complete"} /\ stage'[r] = stage[r]
  <2>1. \A r \in Questions \ {m.of} : stage[r] \in {"absent", "complete"}
    BY <1>3 DEF ControlInv, Hands, StagesInv
  <2>2. \A r \in Questions \ {m.of} : stage'[r] = stage[r]
    BY <1>1, <1>3 DEF ControlInv, StateTypes, StoreTypeOK
  <2> QED
    BY <2>1, <2>2
<1>5. stage'[m.of] \in {next, stage[m.of]} /\ (Replied(o) => stage'[m.of] = next)
  BY <1>1, <1>3 DEF ControlInv, StateTypes, StoreTypeOK
<1>6. StagesInv'
  <2>1. stage[m.of] # "absent" /\ stage'[m.of] # "absent"
    BY <1>3, <1>5
  <2>2. \A r \in Questions : stage'[r] # "absent" <=> Asker[r] = "poller" /\ r \in past'.asked
    BY <1>2, <1>4, <2>1 DEF ControlInv, Hands, StagesInv
  <2> QED
    BY <1>4, <2>2 DEF StagesInv
<1>7. CASE Goto("poller", then) /\ UNCHANGED doing /\ Replied(o) /\ then # "idle"
  <2>1. then \in StepsOf("poller") /\ then \notin {"idle", "del", "reset"}
    BY <1>7, Distinct DEF StepsOf, PollerSteps
  <2>2. /\ pc'["poller"] = then /\ \A r \in Goroutines \ {"poller"} : pc'[r] = pc[r]
    BY <1>2, <1>7, <2>1, GotoType DEF ControlInv
  <2>3. PollerHands'
    BY <1>2, <1>3, <1>5, <1>7, <2>2 DEF PollerHands
  <2>4. Hands'
    BY <1>2, <1>3, <1>6, <1>7, <2>1, <2>2, <2>3, PollerStep DEF ControlInv
  <2> QED
    BY <1>2, <2>4, UpStands DEF Grip, Frames, ControlInv
<1>8. CASE GiveUp
  <2>1. Goto("poller", "idle") /\ "idle" \in StepsOf("poller")
    BY <1>8, Distinct DEF GiveUp, StepsOf, PollerSteps
  <2>2. /\ pc'["poller"] = "idle" /\ \A r \in Goroutines \ {"poller"} : pc'[r] = pc[r]
    BY <1>2, <2>1, GotoType DEF ControlInv
  <2>3. doing'["poller"] = {} /\ \A r \in Goroutines \ {"poller"} : doing'[r] = doing[r]
    BY <1>2, <1>8 DEF GiveUp, ControlInv, StateTypes, ProcessTypeOK
  <2>4. PollerHands'
    BY <2>2, <2>3 DEF PollerHands
  <2>5. Hands'
    BY <1>2, <1>6, <2>2, <2>3, <2>4, PollerStep DEF ControlInv
  <2> QED
    BY <1>2, <2>5, UpStands DEF Grip, Frames, ControlInv
<1> QED
  BY <1>7, <1>8

LEMMA SubmissionGrip ==
    ASSUME ControlInv, SubmitStats \/ EnqueueTelegram \/ Complete
    PROVE  Grip'
<1>1. CASE SubmitStats
  <2>1. PICK o \in Outcome :
           /\ Advance("stats", "stats", o)
           /\ IF Replied(o) THEN Goto("poller", "queue") /\ UNCHANGED doing ELSE GiveUp
    BY <1>1 DEF SubmitStats
  <2> QED
    BY <2>1, AdvanceGrip
<1>2. CASE EnqueueTelegram
  <2>1. PICK o \in Outcome :
           /\ Advance("queue", "job", o)
           /\ IF Replied(o) THEN Goto("poller", "complete") /\ UNCHANGED doing ELSE GiveUp
    BY <1>2 DEF EnqueueTelegram
  <2> QED
    BY <2>1, AdvanceGrip
<1>3. CASE Complete
  <2>1. PICK o \in Outcome : Advance("complete", "complete", o) /\ GiveUp
    BY <1>3 DEF Complete
  <2> QED
    BY <2>1, AdvanceGrip
<1> QED
  BY <1>1, <1>2, <1>3

LEMMA AcquireGrip ==
    ASSUME ControlInv, Acquire
    PROVE  Grip'
<1>1. /\ UNCHANGED <<stage, up, load, entries, doing, cast, conn, past>> /\ up
      /\ pc["worker"] = "idle" /\ job' = inflight' /\ "worker" \in Goroutines
  BY Distinct DEF Acquire, At, browsers
<1>2. job' # NoJob
  <2>1. job' = Head(ready) /\ Head(ready) \in Job
    BY HeadTailRange DEF Acquire, ControlInv, StateTypes, StoreTypeOK
  <2> QED
    BY <2>1, Distinct
<1>3. /\ pc'["worker"] = "prompt" /\ \A r \in Goroutines \ {"worker"} : pc'[r] = pc[r]
  <2>1. Goto("worker", "prompt") /\ "prompt" \in StepsOf("worker")
    BY Distinct DEF Acquire, StepsOf, WorkerSteps
  <2> QED
    BY <1>1, <2>1, GotoType DEF ControlInv
<1>4. doing["worker"] = {}
  BY <1>1 DEF ControlInv, Hands, WorkerHands
<1>5. WorkerHands'
  BY <1>1, <1>2, <1>3, <1>4 DEF WorkerHands
<1>6. Hands'
  BY <1>1, <1>3, <1>4, <1>5, WorkerStep DEF ControlInv
<1> QED
  BY <1>1, <1>6, UpStands DEF Grip, Frames, ControlInv

LEMMA PromptGrip ==
    ASSUME ControlInv, Prompt
    PROVE  Grip'
<1>1. /\ UNCHANGED <<stage, inflight, job, up, load, entries, doing, cast, conn, past>> /\ up
      /\ pc["worker"] = "prompt" /\ "worker" \in Goroutines
  BY Distinct DEF Prompt, At, browsers, store
<1>2. /\ pc'["worker"] = "generate" /\ \A r \in Goroutines \ {"worker"} : pc'[r] = pc[r]
  <2>1. Goto("worker", "generate") /\ "generate" \in StepsOf("worker")
    BY Distinct DEF Prompt, StepsOf, WorkerSteps
  <2> QED
    BY <1>1, <2>1, GotoType DEF ControlInv
<1>3. WorkerHands'
  BY <1>1, <1>2 DEF ControlInv, Hands, WorkerHands
<1>4. Hands'
  BY <1>1, <1>2, <1>3, WorkerStep DEF ControlInv, Hands, HandsTypeOK, OneInHand
<1> QED
  BY <1>1, <1>4, UpStands DEF Grip, Frames, ControlInv

LEMMA ReplyGrip ==
    ASSUME ControlInv, Reply
    PROVE  Grip'
<1> DEFINE m == [of |-> job.id, try |-> job.attempts + 1]
<1>1. /\ UNCHANGED <<stage, inflight, job, up, load, entries, cast, conn, past>> /\ up
      /\ pc["worker"] = "generate" /\ "worker" \in Goroutines
      /\ doing' = [doing EXCEPT !["worker"] = {m}]
  BY Distinct DEF Reply, At, browsers, store
<1>2. /\ pc'["worker"] = "persist" /\ \A r \in Goroutines \ {"worker"} : pc'[r] = pc[r]
  <2>1. Goto("worker", "persist") /\ "persist" \in StepsOf("worker")
    BY Distinct DEF Reply, StepsOf, WorkerSteps
  <2> QED
    BY <1>1, <2>1, GotoType DEF ControlInv
<1>3. doing'["worker"] = {m} /\ \A r \in Goroutines \ {"worker"} : doing'[r] = doing[r]
  BY <1>1 DEF ControlInv, StateTypes, ProcessTypeOK
<1>4. WorkerHands'
  BY <1>1, <1>2, <1>3 DEF ControlInv, Hands, WorkerHands
<1> HIDE DEF m
<1>5. Hands'
  BY <1>1, <1>2, <1>3, <1>4, WorkerStep DEF ControlInv, Hands, HandsTypeOK
<1> QED
  BY <1>1, <1>5, UpStands DEF Grip, Frames, ControlInv

LEMMA FailGrip ==
    ASSUME ControlInv, Fail
    PROVE  Grip'
<1>1. /\ UNCHANGED <<stage, inflight, job, up, load, entries, doing, conn, past>> /\ up
      /\ pc["worker"] = "generate" /\ "worker" \in Goroutines
  BY Distinct DEF Fail, At, browsers, store
<1>2. /\ pc'["worker"] = "deliver" /\ \A r \in Goroutines \ {"worker"} : pc'[r] = pc[r]
  <2>1. Goto("worker", "deliver") /\ "deliver" \in StepsOf("worker")
    BY Distinct DEF Fail, StepsOf, WorkerSteps
  <2> QED
    BY <1>1, <2>1, GotoType DEF ControlInv
<1>3. WorkerHands'
  BY <1>1, <1>2 DEF ControlInv, Hands, WorkerHands
<1>4. Hands'
  BY <1>1, <1>2, <1>3, WorkerStep DEF ControlInv, Hands, HandsTypeOK, OneInHand
<1>5. Frames'
  BY <1>1, BroadcastFrames DEF Fail, ControlInv, Kinds
<1> QED
  BY <1>1, <1>4, <1>5, UpStands DEF Grip, ControlInv

LEMMA DeliverGrip ==
    ASSUME ControlInv, Deliver
    PROVE  Grip'
<1>1. /\ UNCHANGED <<stage, inflight, job, up, load, entries, doing, cast, conn>> /\ up
      /\ pc["worker"] = "deliver" /\ "worker" \in Goroutines /\ past'.asked = past.asked
  BY Distinct DEF Deliver, At, browsers, store, ControlInv, StateTypes, Past
<1>2. /\ pc'["worker"] = "settle" /\ \A r \in Goroutines \ {"worker"} : pc'[r] = pc[r]
  <2>1. Goto("worker", "settle") /\ "settle" \in StepsOf("worker")
    BY Distinct DEF Deliver, StepsOf, WorkerSteps
  <2> QED
    BY <1>1, <2>1, GotoType DEF ControlInv
<1>3. WorkerHands'
  BY <1>1, <1>2 DEF ControlInv, Hands, WorkerHands
<1>4. Hands'
  BY <1>1, <1>2, <1>3, WorkerStep DEF ControlInv, Hands, HandsTypeOK, OneInHand
<1> QED
  BY <1>1, <1>4, UpStands DEF Grip, Frames, ControlInv

LEMMA NackedAsked ==
    ASSUME StateTypes, NEW j, Nacked(j) \/ past' = [past EXCEPT !.ended = @ \cup {j.id}]
    PROVE  /\ past'.asked = past.asked /\ past'.refused = past.refused /\ past'.shown = past.shown
           /\ past'.delivered = past.delivered /\ past'.cut = past.cut
           /\ past'.uncounted = past.uncounted
BY DEF Nacked, StateTypes, Past

LEMMA SettleGrip ==
    ASSUME ControlInv, Settle
    PROVE  Grip'
<1>1. /\ UNCHANGED <<stage, up, load, entries, cast, conn>> /\ up
      /\ inflight' = NoJob /\ job' = NoJob /\ doing' = [doing EXCEPT !["worker"] = {}]
      /\ "worker" \in Goroutines
  BY Distinct DEF Settle, At, browsers
<1>2. past'.asked = past.asked
  BY NackedAsked DEF Settle, ControlInv
<1>3. /\ pc'["worker"] = "idle" /\ \A r \in Goroutines \ {"worker"} : pc'[r] = pc[r]
  <2>1. Goto("worker", "idle") /\ "idle" \in StepsOf("worker")
    BY Distinct DEF Settle, StepsOf, WorkerSteps
  <2> QED
    BY <1>1, <2>1, GotoType DEF ControlInv
<1>4. doing'["worker"] = {} /\ \A r \in Goroutines \ {"worker"} : doing'[r] = doing[r]
  BY <1>1 DEF ControlInv, StateTypes, ProcessTypeOK
<1>5. WorkerHands'
  BY <1>1, <1>3, <1>4 DEF WorkerHands
<1>6. Hands'
  BY <1>1, <1>2, <1>3, <1>4, <1>5, WorkerStep DEF ControlInv
<1> QED
  BY <1>1, <1>6, UpStands DEF Grip, Frames, ControlInv

LEMMA BrowserGrip ==
    ASSUME ControlInv, NEW c \in Conns,
           Stop(c) \/ Connect(c) \/ Snapshot(c) \/ Greet(c) \/ Disconnect(c)
    PROVE  Grip'
<1>1. UNCHANGED <<pc, doing, job, inflight, up, load, stage, past, entries>> /\ up
  BY DEF Stop, Connect, Snapshot, Greet, Join, Disconnect, At, store, process
<1>2. Hands'
  BY <1>1, HandsStand DEF ControlInv
<1>3. Frames'
  <2>1. CASE Stop(c)
    BY <2>1 DEF Stop, ControlInv, Frames, browsers
  <2>2. CASE Connect(c) \/ Snapshot(c) \/ Greet(c)
    <3>1. cast' = cast /\ \A d \in Conns : conn'[d] = conn[d] \/ conn'[d] \in {"joining", "greeted", "open"}
      BY <2>2 DEF Connect, Snapshot, Greet, Join, process, ControlInv, StateTypes, BrowserTypeOK
    <3>2. \A p \in Goroutines : \A w \in cast[p] : w.to \in Conns
      BY DEF ControlInv, StateTypes, ProcessTypeOK, Write
    <3> QED
      BY <3>1, <3>2 DEF ControlInv, Frames
  <2>3. CASE Disconnect(c)
    <3>1. \A p \in Goroutines : cast'[p] = {w \in cast[p] : w.to # c}
      BY <2>3 DEF Disconnect
    <3>2. \A p \in Goroutines : \A w \in cast[p] : w.to \in Conns
      BY DEF ControlInv, StateTypes, ProcessTypeOK, Write
    <3>3. \A d \in Conns \ {c} : conn'[d] = conn[d]
      BY <2>3 DEF Disconnect, ControlInv, StateTypes, BrowserTypeOK
    <3> QED
      BY <3>1, <3>2, <3>3 DEF ControlInv, Frames
  <2> QED
    BY <2>1, <2>2, <2>3
<1> QED
  BY <1>1, <1>2, <1>3, UpStands DEF Grip, ControlInv

LEMMA LoadGrip ==
    ASSUME ControlInv, LoadHistory \/ AdoptHistory
    PROVE  Grip'
<1>1. UNCHANGED <<pc, doing, job, inflight, up, stage, past, cast, conn>> /\ up /\ load # "ready"
  BY DEF LoadHistory, AdoptHistory, browsers, store
<1>2. entries' # <<>> => load' = "adopt"
  BY DEF LoadHistory, AdoptHistory, ControlInv, DownInv
<1>3. PollerHands'
  BY <1>1 DEF ControlInv, Hands, PollerHands
<1>4. Hands'
  BY <1>1, <1>3 DEF ControlInv, Hands, HandsTypeOK, WebHands, WorkerHands, OneInHand, StagesInv
<1> QED
  BY <1>1, <1>2, <1>4 DEF Grip, Frames, ControlInv, DownInv

LEMMA BootGrip ==
    ASSUME ControlInv, Boot
    PROVE  Grip'
<1>1. /\ UNCHANGED <<pc, doing, job, load, stage, cast, conn, entries>> /\ ~up /\ up' = TRUE
      /\ inflight' = NoJob
  BY DEF Boot, browsers
<1>2. past'.asked = past.asked
  <2>1. Nacked(inflight) \/ past' = past
    BY DEF Boot
  <2> QED
    BY <2>1, NackedAsked DEF ControlInv
<1>3. job = NoJob
  BY <1>1 DEF ControlInv, DownInv
<1>4. Hands'
  BY <1>1, <1>2, <1>3 DEF ControlInv, Hands, HandsTypeOK, WebHands, PollerHands, WorkerHands, OneInHand, StagesInv
<1> QED
  BY <1>1, <1>4 DEF Grip, Frames, ControlInv, DownInv

LEMMA CrashGrip ==
    ASSUME ControlInv, Crash
    PROVE  Grip'
<1>1. /\ up' = FALSE /\ memory' = <<>> /\ load' = "ask" /\ entries' = <<>>
      /\ pc' = [p \in Goroutines |-> "idle"] /\ doing' = [p \in Goroutines |-> {}]
      /\ cast' = [p \in Goroutines |-> {}] /\ job' = NoJob
      /\ \A c \in Conns : conn'[c] \in {"new", "gone"}
      /\ stage' = stage
  BY DEF Crash, store
<1>2. past'.asked = past.asked
  BY DEF Crash, ControlInv, StateTypes, Past
<1>3. /\ \A p \in Goroutines : pc'[p] = "idle" /\ doing'[p] = {} /\ cast'[p] = {}
      /\ "worker" \in Goroutines /\ "poller" \in Goroutines /\ Conns \subseteq Goroutines
  BY <1>1, Distinct
<1>4. Hands'
  BY <1>1, <1>2, <1>3 DEF ControlInv, Hands, HandsTypeOK, WebHands, PollerHands, WorkerHands, OneInHand, StagesInv
<1>5. Frames'
  BY <1>3 DEF Frames
<1> QED
  BY <1>1, <1>4, <1>5 DEF Grip, DownInv

-----------------------------------------------------------------------------
(* Control, always.                                                        *)

LEMMA Actions ==
    ASSUME Next
    PROVE  \/ \E p \in Goroutines : WriteFrame(p) \/ Show(p)
           \/ \E p \in Writers : Persist(p) \/ Trim(p)
           \/ \E c \in Conns : \/ \E q \in Questions : Ask(c, q)
                               \/ CountQuery(c) \/ Enqueue(c) \/ Clear(c) \/ Delete(c) \/ Reset(c)
                               \/ Stop(c) \/ Connect(c) \/ Snapshot(c) \/ Greet(c) \/ Disconnect(c)
           \/ \E q \in Questions : TakeUpdate(q)
           \/ EnsureMessageMemory \/ SubmitStats \/ EnqueueTelegram \/ Complete
           \/ Acquire \/ Prompt \/ Reply \/ Fail \/ Deliver \/ Settle
           \/ LoadHistory \/ AdoptHistory \/ Boot \/ Crash
<1>1. CASE \E c \in Conns : Handler(c)
  <2>1. PICK c \in Conns : Handler(c)
    BY <1>1
  <2>2. c \in Goroutines /\ c \in Writers
    BY Distinct DEF Writers
  <2> QED
    BY <2>1, <2>2 DEF Handler, AddMessage
<1>2. CASE \E c \in Conns : Browser(c) \/ Joining(c)
  BY <1>2 DEF Browser, Joining
<1>3. CASE Poller
  BY <1>3, Distinct DEF Poller
<1>4. CASE Worker
  BY <1>4, Distinct DEF Worker, AddMessage, Writers
<1>5. CASE Loader \/ Boot \/ Crash
  BY <1>5 DEF Loader
<1> QED
  BY <1>1, <1>2, <1>3, <1>4, <1>5 DEF Next

LEMMA ControlNext ==
    ASSUME ControlInv, Next
    PROVE  ControlInv'
<1>1. StateTypes /\ SeenTypes /\ WorkerHands /\ Watch
  BY DEF ControlInv, Hands, Next
<1>2. StateTypes' /\ Grip'
  <2>1. CASE \E p \in Goroutines : WriteFrame(p) \/ Show(p)
    BY <1>1, <2>1, WriteFrameTypes, WriteFrameGrip, ShowTypes, ShowGrip
  <2>2. CASE \E p \in Writers : Persist(p) \/ Trim(p)
    BY <1>1, <2>2, PersistTypes, TrimTypes, PersistGrip
  <2>3. ASSUME NEW c \in Conns,
               \/ \E q \in Questions : Ask(c, q)
               \/ CountQuery(c) \/ Enqueue(c) \/ Clear(c) \/ Delete(c) \/ Reset(c)
        PROVE  StateTypes' /\ Grip'
    BY <1>1, <2>3, AskTypes, CountQueryTypes, EnqueueTypes, ClearTypes, DeleteTypes, ResetTypes,
       AskGrip, CountQueryGrip, WebRestGrip, ResetGrip
  <2>4. ASSUME NEW c \in Conns,
               Stop(c) \/ Connect(c) \/ Snapshot(c) \/ Greet(c) \/ Disconnect(c)
        PROVE  StateTypes' /\ Grip'
    BY <1>1, <2>4, StopTypes, JoinTypes, DisconnectTypes, BrowserGrip
  <2>5. CASE \/ \E q \in Questions : TakeUpdate(q)
             \/ EnsureMessageMemory \/ SubmitStats \/ EnqueueTelegram \/ Complete
    BY <1>1, <2>5, TakeUpdateTypes, EnsureTypes, SubmitStatsTypes, EnqueueTelegramTypes, CompleteTypes,
       TakeUpdateGrip, EnsureGrip, SubmissionGrip
  <2>6. CASE Acquire \/ Prompt \/ Reply \/ Fail \/ Deliver \/ Settle
    BY <1>1, <2>6, AcquireTypes, PromptTypes, ReplyTypes, FailTypes, DeliverTypes, SettleTypes,
       AcquireGrip, PromptGrip, ReplyGrip, FailGrip, DeliverGrip, SettleGrip
  <2>7. CASE LoadHistory \/ AdoptHistory \/ Boot \/ Crash
    BY <1>1, <2>7, LoadTypes, BootTypes, CrashTypes, LoadGrip, BootGrip, CrashGrip
  <2> QED
    BY <2>1, <2>2, <2>3, <2>4, <2>5, <2>6, <2>7, Actions
<1>3. SeenTypes'
  BY <1>1, Seeing
<1> QED
  BY <1>2, <1>3 DEF Grip, ControlInv

LEMMA ControlInit ==
    ASSUME Init
    PROVE  ControlInv
<1>1. /\ \A p \in Goroutines : pc[p] = "idle" /\ doing[p] = {} /\ cast[p] = {}
      /\ "worker" \in Goroutines /\ "poller" \in Goroutines /\ Conns \subseteq Goroutines
  BY Distinct DEF Init
<1>2. <<>> \in Seq(Message) /\ <<>> \in Seq(Job) /\ Len(<<>>) = 0
  OBVIOUS
<1>3. StoreTypeOK
  BY <1>2 DEF Init, StoreTypeOK, Stages
<1>4. ProcessTypeOK /\ pc \in [Goroutines -> Steps]
  <2>1. \A p \in Goroutines : pc[p] \in StepsOf(p) /\ pc[p] \in Steps
    BY <1>1 DEF StepsOf, Steps, WebSteps, PollerSteps, WorkerSteps
  <2>2. /\ memory \in Seq(Message) /\ Len(memory) <= Cap /\ entries \in Seq(Message)
        /\ prompt \in Seq(Message)
    BY <1>2, Distinct DEF Init
  <2>3. doing \in [Goroutines -> SUBSET Message] /\ cast \in [Goroutines -> SUBSET Write]
    BY DEF Init
  <2> QED
    BY <2>1, <2>2, <2>3 DEF Init, ProcessTypeOK, Verdicts
<1>5. BrowserTypeOK
  BY DEF Init, BrowserTypeOK
<1>6. past \in Past /\ SeenTypes
  BY DEF Init, Past, SeenTypes
<1>7. DownInv /\ Frames
  BY <1>1 DEF Init, DownInv, Frames
<1>8. HandsTypeOK /\ WebHands /\ PollerHands /\ WorkerHands /\ OneInHand
  BY <1>1 DEF Init, HandsTypeOK, WebHands, PollerHands, WorkerHands, OneInHand
<1>9. StagesInv
  BY DEF Init, StagesInv
<1> QED
  BY <1>3, <1>4, <1>5, <1>6, <1>7, <1>8, <1>9 DEF Init, ControlInv, StateTypes, Hands

LEMMA ControlIdle ==
    ASSUME ControlInv, UNCHANGED vars
    PROVE  ControlInv'
<1>1. StateTypes' /\ SeenTypes'
  BY DEF ControlInv, StateTypes, SeenTypes, StoreTypeOK, ProcessTypeOK, BrowserTypeOK,
     vars, store, process, browsers
<1>2. DownInv' /\ Frames' /\ Hands'
  <2>1. UNCHANGED <<pc, doing, job, inflight, up, load, stage, past, cast, conn, entries, memory>>
    BY DEF vars, store, process, browsers
  <2> QED
    BY <2>1, HandsStand DEF ControlInv, DownInv, Frames
<1> QED
  BY <1>1, <1>2 DEF ControlInv

LEMMA ControlAlways == Spec => []ControlInv
<1>1. ControlInv /\ [Next]_vars => ControlInv'
  BY ControlNext, ControlIdle
<1> QED
  BY <1>1, ControlInit, PTL DEF Spec

-----------------------------------------------------------------------------
(* Answers: a job that is tried again was answered, or a crash ended each  *)
(* of its attempts so far.                                                 *)

LEMMA AnsweredStands ==
    ASSUME AnsweredInv, Jobs' \subseteq Jobs, UNCHANGED <<up, inflight, job>>,
           past'.cut = past.cut, past'.delivered = past.delivered, past'.ended = past.ended,
           pc'["worker"] = "settle" => pc["worker"] = "settle"
    PROVE  AnsweredInv'
BY DEF AnsweredInv, Answered, EndedIsAnswered

LEMMA AnsweredFirst ==
    ASSUME StateTypes, AnsweredInv, NEW q \in Questions,
           ready' = Append(ready, [id |-> q, attempts |-> 0]) \/ ready' = ready,
           UNCHANGED <<up, inflight, job>>, up,
           past'.cut = past.cut, past'.delivered = past.delivered, past'.ended = past.ended,
           pc'["worker"] = "settle" => pc["worker"] = "settle"
    PROVE  AnsweredInv'
<1> DEFINE j == [id |-> q, attempts |-> 0]
<1>1. /\ j \in Job /\ j.id = q /\ j.attempts = 0
      /\ ready' = Append(ready, j) \/ ready' = ready
  BY DEF Job
<1> HIDE DEF j
<1>2. Range(ready') \subseteq Range(ready) \cup {j}
  <2>1. ready \in Seq(Job)
    BY DEF StateTypes, StoreTypeOK
  <2>2. Range(Append(ready, j)) = Range(ready) \cup {j}
    BY <1>1, <2>1, AppendRange
  <2> QED
    BY <1>1, <2>2
<1>3. Jobs' \subseteq Jobs \cup {j}
  BY <1>2 DEF Jobs
<1>4. past.cut[q] \in Nat
  BY DEF StateTypes, Past
<1>5. \A i \in Jobs' : Asker[i.id] = "poller" =>
        Answered(i.id)' \/ i.attempts + (IF up' THEN 0 ELSE IF i = inflight' THEN 1 ELSE 0) <= past'.cut[i.id]
  <2> SUFFICES ASSUME NEW i \in Jobs', Asker[i.id] = "poller", ~Answered(i.id)'
               PROVE  i.attempts + 0 <= past'.cut[i.id]
    OBVIOUS
  <2>1. CASE i = j
    BY <1>1, <1>4, <2>1
  <2>2. CASE i \in Jobs
    BY <2>2 DEF AnsweredInv, Answered
  <2> QED
    BY <1>3, <2>1, <2>2
<1> QED
  BY <1>5 DEF AnsweredInv, Answered, EndedIsAnswered

\* What a nack adds to the jobs, and to those that ended.
LEMMA NackedJobs ==
    ASSUME StateTypes, NEW j \in Job, Nacked(j)
    PROVE  \/ /\ j.attempts < Retries /\ past'.ended = past.ended
              /\ Range(ready') = Range(ready) \cup {[id |-> j.id, attempts |-> j.attempts + 1]}
              /\ ready' = Append(ready, [id |-> j.id, attempts |-> j.attempts + 1])
           \/ j.attempts >= Retries /\ ready' = ready /\ past'.ended = past.ended \cup {j.id}
<1>1. /\ j.attempts \in Nat /\ Retries \in Nat
      /\ [j EXCEPT !.attempts = @ + 1] = [id |-> j.id, attempts |-> j.attempts + 1]
      /\ [id |-> j.id, attempts |-> j.attempts + 1] \in Job
  BY BoundsAssumption DEF Job
<1>2. CASE j.attempts < Retries
  <2> DEFINE k == [id |-> j.id, attempts |-> j.attempts + 1]
  <2>1. k \in Job /\ ready \in Seq(Job) /\ ready' = Append(ready, k) /\ past' = past
    BY <1>1, <1>2 DEF Nacked, StateTypes, StoreTypeOK
  <2> HIDE DEF k
  <2>2. Range(ready') = Range(ready) \cup {k}
    BY <2>1, AppendRange
  <2> QED
    BY <1>2, <2>1, <2>2 DEF k
<1>3. CASE ~(j.attempts < Retries)
  BY <1>1, <1>3 DEF Nacked, StateTypes, Past
<1> QED
  BY <1>2, <1>3

LEMMA AnsweredSettle ==
    ASSUME ControlInv, AnsweredInv, Settle
    PROVE  AnsweredInv'
<1>1. /\ job \in Job /\ inflight = job /\ up /\ up' = up /\ inflight' = NoJob
      /\ pc["worker"] = "settle" /\ job \in Jobs
  BY DEF Settle, At, ControlInv, Hands, HandsTypeOK, WorkerHands, StateTypes, Jobs
<1>2. pc'["worker"] = "idle"
  BY Distinct DEF Settle, ControlInv, StateTypes
<1>3. past'.cut = past.cut /\ past'.delivered = past.delivered
  BY NackedAsked DEF Settle, ControlInv
<1>4. Asker[job.id] = "poller" => Answered(job.id)
  BY <1>1 DEF AnsweredInv
<1>5. /\ past'.ended \subseteq past.ended \cup {job.id}
      /\ Range(ready') \subseteq Range(ready) \cup {[id |-> job.id, attempts |-> job.attempts + 1]}
  <2>1. CASE Nacked(job)
    BY <1>1, <2>1, NackedJobs DEF ControlInv
  <2>2. CASE past' = [past EXCEPT !.ended = @ \cup {job.id}] /\ UNCHANGED ready
    BY <2>2 DEF ControlInv, StateTypes, Past
  <2> QED
    BY <2>1, <2>2 DEF Settle
<1>6. Jobs' \subseteq Jobs \cup {[id |-> job.id, attempts |-> job.attempts + 1]}
  BY <1>1, <1>5 DEF Jobs
<1>7. \A q : Answered(q)' <=> Answered(q)
  BY <1>3 DEF Answered
<1>8. ASSUME NEW i \in Jobs', Asker[i.id] = "poller", ~Answered(i.id)
      PROVE  i.attempts + 0 <= past'.cut[i.id]
  <2>1. i \in Jobs
    BY <1>4, <1>6, <1>8
  <2> QED
    BY <1>1, <1>3, <1>8, <2>1 DEF AnsweredInv
<1>9. EndedIsAnswered'
  BY <1>3, <1>4, <1>5, <1>7 DEF AnsweredInv, EndedIsAnswered
<1> QED
  BY <1>1, <1>2, <1>7, <1>8, <1>9 DEF AnsweredInv

LEMMA AnsweredBoot ==
    ASSUME ControlInv, AnsweredInv, Boot
    PROVE  AnsweredInv'
<1>1. ~up /\ up' = TRUE /\ inflight' = NoJob /\ job' = NoJob /\ pc'["worker"] = pc["worker"] /\ job = NoJob
  BY DEF Boot, ControlInv, DownInv
<1>2. pc["worker"] = "idle"
  BY <1>1 DEF ControlInv, Hands, WorkerHands
<1>3. CASE inflight = NoJob
  <2>1. UNCHANGED <<ready, past>>
    BY <1>3 DEF Boot
  <2>2. Jobs' \subseteq Jobs
    BY <1>1, <1>3, <2>1 DEF Jobs
  <2>3. ASSUME NEW i \in Jobs', Asker[i.id] = "poller", ~Answered(i.id)
        PROVE  i.attempts + 0 <= past'.cut[i.id]
    <3>1. i # inflight
      BY <1>3, <2>2, <2>3, Distinct, RangeOfSeq DEF Jobs, ControlInv, StateTypes, StoreTypeOK
    <3> QED
      BY <1>1, <2>1, <2>2, <2>3, <3>1 DEF AnsweredInv
  <2> QED
    BY <1>1, <1>2, <2>1, <2>3 DEF AnsweredInv, Answered, EndedIsAnswered
<1>4. CASE inflight # NoJob
  <2> DEFINE k == [id |-> inflight.id, attempts |-> inflight.attempts + 1]
  <2>1. inflight \in Job /\ Nacked(inflight) /\ inflight \in Jobs
    BY <1>4 DEF Boot, ControlInv, StateTypes, StoreTypeOK, Jobs
  <2>2. past'.cut = past.cut /\ past'.delivered = past.delivered
    BY <2>1, NackedAsked DEF ControlInv
  <2>3. inflight.attempts \in Nat /\ past.cut[inflight.id] \in Nat /\ Retries \in Nat
    BY <2>1, BoundsAssumption DEF Job, ControlInv, StateTypes, Past
  <2>4. Asker[inflight.id] = "poller" => Answered(inflight.id) \/ inflight.attempts + 1 <= past.cut[inflight.id]
    BY <1>1, <2>1 DEF AnsweredInv
  <2>5. \/ Range(ready') = Range(ready) \cup {k} /\ past'.ended = past.ended
        \/ inflight.attempts >= Retries /\ ready' = ready /\ past'.ended = past.ended \cup {inflight.id}
    BY <2>1, NackedJobs DEF ControlInv
  <2>6. k.id = inflight.id /\ k.attempts = inflight.attempts + 1
    OBVIOUS
  <2> HIDE DEF k
  <2>7. Jobs' \subseteq Range(ready) \cup {k}
    BY <1>1, <2>5 DEF Jobs
  <2>8. \A q : Answered(q)' <=> Answered(q)
    BY <2>2 DEF Answered
  <2>9. ASSUME NEW i \in Jobs', Asker[i.id] = "poller", ~Answered(i.id)
        PROVE  i.attempts + 0 <= past'.cut[i.id]
    <3>1. CASE i = k
      BY <2>2, <2>3, <2>4, <2>6, <2>9, <3>1
    <3>2. CASE i \in Range(ready)
      <4>1. i \in Job
        BY <3>2, RangeOfSeq DEF ControlInv, StateTypes, StoreTypeOK
      <4>2. i.attempts \in Nat /\ past.cut[i.id] \in Nat
        BY <4>1 DEF Job, ControlInv, StateTypes, Past
      <4>3. i.attempts + (IF i = inflight THEN 1 ELSE 0) <= past.cut[i.id]
        BY <1>1, <2>9, <3>2 DEF AnsweredInv, Jobs
      <4> QED
        BY <2>2, <4>2, <4>3
    <3> QED
      BY <2>7, <3>1, <3>2
  <2>10. EndedIsAnswered'
    BY <2>2, <2>3, <2>4, <2>5, <2>8 DEF AnsweredInv, EndedIsAnswered
  <2> QED
    BY <1>1, <1>2, <2>8, <2>9, <2>10 DEF AnsweredInv
<1> QED
  BY <1>3, <1>4

LEMMA AnsweredCrash ==
    ASSUME ControlInv, AnsweredInv, Crash
    PROVE  AnsweredInv'
<1>1. /\ up /\ up' = FALSE /\ job' = NoJob /\ inflight' = inflight /\ ready' = ready
      /\ job = inflight /\ pc'["worker"] = "idle"
  BY Distinct DEF Crash, store, ControlInv, Hands, HandsTypeOK
<1>2. /\ past'.delivered = past.delivered /\ past'.ended = past.ended
      /\ past'.cut = IF job = NoJob THEN past.cut ELSE [past.cut EXCEPT ![job.id] = @ + 1]
  BY DEF Crash, ControlInv, StateTypes, Past
<1>3. \A q \in Questions : /\ past.cut[q] \in Nat /\ past'.cut[q] \in Nat /\ past.cut[q] <= past'.cut[q]
                           /\ job # NoJob /\ job.id = q => past'.cut[q] = past.cut[q] + 1
  BY <1>2 DEF ControlInv, StateTypes, Past, Job
<1>4. Jobs' = Jobs /\ \A i \in Jobs : i \in Job
  BY <1>1, RangeOfSeq DEF Jobs, ControlInv, StateTypes, StoreTypeOK
<1>5. \A q : Answered(q)' <=> Answered(q)
  BY <1>2 DEF Answered
<1>6. ASSUME NEW i \in Jobs', Asker[i.id] = "poller", ~Answered(i.id)
      PROVE  i.attempts + (IF i = inflight' THEN 1 ELSE 0) <= past'.cut[i.id]
  <2>1. i.id \in Questions /\ i.attempts \in Nat /\ i # NoJob
    BY <1>4, <1>6, Distinct DEF Job
  <2>2. i.attempts <= past.cut[i.id]
    BY <1>1, <1>4, <1>6, <2>1 DEF AnsweredInv
  <2>3. CASE i = inflight
    BY <1>1, <1>3, <2>1, <2>2, <2>3
  <2>4. CASE i # inflight
    BY <1>1, <1>3, <2>1, <2>2, <2>4
  <2> QED
    BY <2>3, <2>4
<1>7. EndedIsAnswered'
  <2>1. \A q \in past.ended : q \in Questions
    BY DEF ControlInv, StateTypes, Past
  <2>2. ASSUME NEW q \in past.ended, past.cut[q] > Retries
        PROVE  past'.cut[q] > Retries
    BY <1>3, <2>1, <2>2, BoundsAssumption
  <2> QED
    BY <1>2, <1>5, <2>2 DEF AnsweredInv, EndedIsAnswered
<1> QED
  BY <1>1, <1>5, <1>6, <1>7 DEF AnsweredInv

\* What the worker runs is a job.
LEMMA AnsweredDeliver ==
    ASSUME ControlInv, AnsweredInv, Deliver
    PROVE  AnsweredInv'
<1>1. /\ UNCHANGED <<ready, inflight, up, job>> /\ pc["worker"] = "deliver"
      /\ past'.cut = past.cut /\ past'.ended = past.ended
      /\ past.delivered \subseteq past'.delivered
      /\ Asker[job.id] = "poller" => Answered(job.id)'
  <2> DEFINE kind == IF verdict = "error" /\ cancelled THEN "stopped" ELSE verdict
             call == [of |-> job.id, try |-> job.attempts + 1, kind |-> kind]
  <2>1. call.of = job.id
    OBVIOUS
  <2>2. IF Asker[job.id] = "poller"
        THEN past' = [past EXCEPT !.delivered = past.delivered \cup {call},
                                  !.shown = past.shown \cup doing["worker"]]
        ELSE past' = past
    BY DEF Deliver
  <2>3. past \in Past
    BY DEF ControlInv, StateTypes
  <2> HIDE DEF call
  <2>4. past'.cut = past.cut /\ past'.ended = past.ended
    BY <2>2, <2>3 DEF Past
  <2>5. CASE Asker[job.id] = "poller"
    <3>1. past'.delivered = past.delivered \cup {call}
      BY <2>2, <2>3, <2>5 DEF Past
    <3> QED
      BY <2>1, <2>4, <3>1 DEF Deliver, At, Answered, store
  <2>6. CASE Asker[job.id] # "poller"
    BY <2>2, <2>4, <2>6 DEF Deliver, At, store
  <2> QED
    BY <2>5, <2>6
<1>2. \A q : Answered(q) => Answered(q)'
  BY <1>1 DEF Answered
<1>3. Jobs' = Jobs
  BY <1>1 DEF Jobs
<1> QED
  BY <1>1, <1>2, <1>3 DEF AnsweredInv, EndedIsAnswered

LEMMA AnsweredNext ==
    ASSUME ControlInv, AnsweredInv, Next
    PROVE  AnsweredInv'
<1>1. StateTypes /\ "worker" \in Goroutines
  BY Distinct DEF ControlInv
<1>2. CASE \E p \in Goroutines : WriteFrame(p)
  <2>1. /\ UNCHANGED <<up, ready, inflight, job, pc, past>>
    BY <1>2 DEF WriteFrame, store
  <2> QED
    BY <2>1, AnsweredStands DEF Jobs
<1>3. CASE \E p \in Goroutines : Show(p)
  <2>1. PICK p \in Goroutines : Show(p)
    BY <1>3
  <2>2. /\ UNCHANGED <<up, ready, inflight, job>>
        /\ past'.cut = past.cut /\ past'.delivered = past.delivered /\ past'.ended = past.ended
    BY <1>1, <2>1 DEF Show, store, StateTypes, Past
  <2>3. pc'["worker"] # "settle" \/ pc'["worker"] = pc["worker"]
    BY <1>1, <2>1 DEF Show, AfterShow, StateTypes
  <2> QED
    BY <2>2, <2>3, AnsweredStands DEF Jobs
<1>4. CASE \E p \in Writers : Persist(p) \/ Trim(p)
  <2>1. PICK p \in Writers : Persist(p) \/ Trim(p)
    BY <1>4
  <2>2. /\ UNCHANGED <<up, ready, inflight, job>>
        /\ past'.cut = past.cut /\ past'.delivered = past.delivered /\ past'.ended = past.ended
    BY <1>1, <2>1 DEF Persist, Trim, StateTypes, Past
  <2>3. pc'["worker"] # "settle" \/ pc'["worker"] = pc["worker"]
    BY <1>1, <2>1 DEF Persist, Trim, StateTypes
  <2> QED
    BY <2>2, <2>3, AnsweredStands DEF Jobs
<1>5. ASSUME NEW c \in Conns,
             \/ \E q \in Questions : Ask(c, q)
             \/ CountQuery(c) \/ Clear(c) \/ Delete(c) \/ Reset(c)
      PROVE  AnsweredInv'
  <2>1. UNCHANGED <<up, ready, inflight, job>>
    BY <1>5 DEF Ask, CountQuery, Clear, Delete, Reset, store
  <2>2. past'.cut = past.cut /\ past'.delivered = past.delivered /\ past'.ended = past.ended
    BY <1>1, <1>5 DEF Ask, CountQuery, Clear, Delete, Reset, StateTypes, Past
  <2>3. pc'["worker"] = pc["worker"]
    BY <1>1, <1>5, Distinct DEF Ask, CountQuery, Clear, Delete, Reset, StateTypes
  <2> QED
    BY <2>1, <2>2, <2>3, AnsweredStands DEF Jobs
<1>6. ASSUME NEW c \in Conns, Enqueue(c)
      PROVE  AnsweredInv'
  <2>1. PICK m \in doing[c] :
           ready' = Append(ready, [id |-> m.of, attempts |-> 0]) \/ ready' = ready
    BY <1>6 DEF Enqueue
  <2>2. m.of \in Questions
    BY <1>1, Distinct DEF StateTypes, ProcessTypeOK, Message
  <2>3. UNCHANGED <<up, inflight, job, past>> /\ up /\ pc'["worker"] = pc["worker"]
    BY <1>1, <1>6, Distinct DEF Enqueue, At, StateTypes
  <2> QED
    BY <1>1, <2>1, <2>2, <2>3, AnsweredFirst
<1>7. ASSUME NEW c \in Conns, Stop(c) \/ Disconnect(c) \/ Connect(c) \/ Snapshot(c) \/ Greet(c)
      PROVE  AnsweredInv'
  <2>1. UNCHANGED <<up, inflight, job, pc, past>>
    BY <1>7 DEF Stop, Disconnect, Connect, Snapshot, Greet, Join, store, process
  <2>2. Range(ready') \subseteq Range(ready)
    <3>1. CASE Drop(c)
      BY <1>1, <3>1, DropTypes
    <3>2. CASE ready' = ready
      BY <3>2
    <3> QED
      BY <1>7, <3>1, <3>2 DEF Stop, Disconnect, Connect, Snapshot, Greet, Join, store
  <2> QED
    BY <2>1, <2>2, AnsweredStands DEF Jobs
<1>8. CASE \/ \E q \in Questions : TakeUpdate(q)
           \/ EnsureMessageMemory \/ SubmitStats \/ Complete
  <2>1. UNCHANGED <<up, ready, inflight, job>>
    BY <1>8 DEF TakeUpdate, EnsureMessageMemory, SubmitStats, Complete, Advance, store
  <2>2. past'.cut = past.cut /\ past'.delivered = past.delivered /\ past'.ended = past.ended
    <3>1. CASE past' = past
      BY <3>1
    <3>2. CASE \E q \in Questions : past' = [past EXCEPT !.asked = @ \cup {q}]
      BY <1>1, <3>2 DEF StateTypes, Past
    <3> QED
      BY <1>8, <3>1, <3>2 DEF TakeUpdate, EnsureMessageMemory, SubmitStats, Complete, Advance
  <2>3. pc'["worker"] = pc["worker"]
    <3>1. pc' = pc \/ \E s : pc' = [pc EXCEPT !["poller"] = s]
      BY <1>8 DEF TakeUpdate, EnsureMessageMemory, SubmitStats, Complete, GiveUp
    <3> QED
      BY <1>1, <3>1, Distinct DEF StateTypes
  <2> QED
    BY <2>1, <2>2, <2>3, AnsweredStands DEF Jobs
<1>9. CASE EnqueueTelegram
  <2>1. PICK m \in doing["poller"] :
           ready' = Append(ready, [id |-> m.of, attempts |-> 0]) \/ ready' = ready
    BY <1>9 DEF EnqueueTelegram
  <2>2. m.of \in Questions
    BY <1>1, Distinct DEF StateTypes, ProcessTypeOK, Message
  <2>3. UNCHANGED <<up, inflight, job, past>> /\ up
    BY <1>9 DEF EnqueueTelegram, Advance, At
  <2>4. pc'["worker"] = pc["worker"]
    <3>1. \E s : pc' = [pc EXCEPT !["poller"] = s]
      BY <1>9 DEF EnqueueTelegram, GiveUp
    <3> QED
      BY <1>1, <3>1, Distinct DEF StateTypes
  <2> QED
    BY <1>1, <2>1, <2>2, <2>3, <2>4, AnsweredFirst
<1>10. CASE Acquire
  <2>1. /\ up /\ up' = up /\ inflight = NoJob /\ inflight' = Head(ready) /\ ready' = Tail(ready)
        /\ past' = past /\ pc'["worker"] = "prompt"
    BY <1>1, <1>10 DEF Acquire, At, StateTypes
  <2>2. Jobs' \subseteq Jobs
    <3>1. Range(ready) = {Head(ready)} \cup Range(Tail(ready)) /\ Head(ready) \in Job
      BY <1>10, HeadTailRange DEF Acquire, ControlInv, StateTypes, StoreTypeOK
    <3> QED
      BY <2>1, <3>1 DEF Jobs
  <2> QED
    BY <2>1, <2>2 DEF AnsweredInv, Answered, EndedIsAnswered
<1>11. CASE Prompt \/ Reply \/ Fail
  <2>1. UNCHANGED <<up, ready, inflight, job, past>> /\ pc'["worker"] # "settle"
    BY <1>1, <1>11 DEF Prompt, Reply, Fail, store, StateTypes
  <2> QED
    BY <2>1, AnsweredStands DEF Jobs
<1>12. CASE LoadHistory \/ AdoptHistory
  <2>1. UNCHANGED <<up, ready, inflight, job, past, pc>>
    BY <1>12 DEF LoadHistory, AdoptHistory, store
  <2> QED
    BY <2>1, AnsweredStands DEF Jobs
<1> QED
  BY <1>2, <1>3, <1>4, <1>5, <1>6, <1>7, <1>8, <1>9, <1>10, <1>11, <1>12, Actions,
     AnsweredDeliver, AnsweredSettle, AnsweredBoot, AnsweredCrash

LEMMA AnsweredInit ==
    ASSUME Init
    PROVE  AnsweredInv
<1>1. Range(ready) = {}
  <2>1. ready = <<>> /\ DOMAIN <<>> = {}
    BY DEF Init
  <2> QED
    BY <2>1 DEF Range
<1>2. Jobs = {} /\ past.ended = {} /\ pc["worker"] = "idle"
  BY <1>1, Distinct DEF Init, Jobs
<1> QED
  BY <1>2 DEF AnsweredInv, EndedIsAnswered

\* A Telegram job that has ended was answered -- by a reply, an error or the
\* notice that it was stopped -- unless a crash ended every one of its
\* attempts: what Execute delivers, what nack counts and what Start recovers,
\* over any number of crashes.
THEOREM EndedWasAnswered == Spec => []EndedIsAnswered
<1>1. AnsweredInv /\ ControlInv /\ [Next]_vars => AnsweredInv'
  <2>1. AnsweredInv /\ UNCHANGED vars => AnsweredInv'
    <3>1. UNCHANGED vars => Jobs' = Jobs /\ UNCHANGED <<up, inflight, job, past, pc>>
      BY DEF vars, store, process, Jobs
    <3> QED
      BY <3>1, AnsweredStands
  <2> QED
    BY <2>1, AnsweredNext
<1>2. AnsweredInv => EndedIsAnswered
  BY DEF AnsweredInv
<1> QED
  BY <1>1, <1>2, AnsweredInit, ControlAlways, PTL DEF Spec

-----------------------------------------------------------------------------
(* One job for a question, one writing of a message: what must be left.    *)

\* The list t is an end of the list s.
EndOf(t, s) == \E d \in Nat : \A i \in DOMAIN t : i \in Nat /\ i + d \in DOMAIN s /\ t[i] = s[i + d]

LEMMA KeepLastEnd ==
    ASSUME NEW S, NEW s \in Seq(S), NEW n \in Nat
    PROVE  EndOf(KeepLast(s, n), s)
<1>1. Len(s) \in Nat /\ DOMAIN s = 1..Len(s)
  BY LenProperties
<1>2. CASE Len(s) <= n
  <2>1. \A i \in DOMAIN s : i \in Nat /\ i + 0 \in DOMAIN s /\ s[i] = s[i + 0]
    BY <1>1
  <2> QED
    BY <1>2, <2>1 DEF EndOf, KeepLast
<1>3. CASE ~(Len(s) <= n)
  <2> DEFINE d == Len(s) - n
  <2>1. d \in Nat /\ d + n = Len(s)
    BY <1>1, <1>3
  <2>2. KeepLast(s, n) = SubSeq(s, d + 1, Len(s))
    BY <1>3 DEF KeepLast
  <2>3. SubSeq(s, d + 1, Len(s)) = [i \in 1..n |-> s[i + d]]
    BY <1>1, <2>1
  <2> HIDE DEF d
  <2>4. \A i \in 1..n : i \in Nat /\ i + d \in DOMAIN s
    BY <1>1, <2>1
  <2> QED
    BY <2>1, <2>2, <2>3, <2>4 DEF EndOf
<1> QED
  BY <1>2, <1>3

LEMMA KeepLastLength ==
    ASSUME NEW S, NEW s \in Seq(S), NEW n \in Nat, ~(Len(s) <= n)
    PROVE  Len(KeepLast(s, n)) = n
<1>1. Len(s) \in Nat
  BY LenProperties
<1> DEFINE d == Len(s) - n
<1>2. d \in Nat /\ d + n = Len(s) /\ KeepLast(s, n) = SubSeq(s, d + 1, Len(s))
  BY <1>1 DEF KeepLast
<1>3. SubSeq(s, d + 1, Len(s)) = [i \in 1..n |-> s[i + d]]
  BY <1>1, <1>2
<1>4. Len([i \in 1..n |-> s[i + d]]) = n
  OBVIOUS
<1> QED
  BY <1>2, <1>3, <1>4

LEMMA EndOfSame ==
    ASSUME NEW S, NEW s \in Seq(S)
    PROVE  EndOf(s, s) /\ EndOf(<<>>, s)
<1>1. DOMAIN s = 1..Len(s) /\ Len(s) \in Nat
  BY LenProperties
<1>2. \A i \in DOMAIN s : i \in Nat /\ i + 0 \in DOMAIN s /\ s[i] = s[i + 0]
  BY <1>1
<1>3. DOMAIN <<>> = {}
  OBVIOUS
<1> QED
  BY <1>2, <1>3 DEF EndOf

LEMMA EndRange ==
    ASSUME NEW S, NEW s \in Seq(S), NEW t, EndOf(t, s)
    PROVE  Range(t) \subseteq Range(s)
BY DEF EndOf, Range

LEMMA SelectedSame ==
    ASSUME NEW s
    PROVE  Selected(s, s)
<1>1. [i \in DOMAIN s |-> i] \in [DOMAIN s -> DOMAIN s]
  OBVIOUS
<1> QED
  BY <1>1 DEF Selected

\* No question after its reply.
InOrder(s) == \A i, k \in DOMAIN s : i < k => s[k].try # 0 \/ s[i].of # s[k].of

LEMMA EndInOrder ==
    ASSUME NEW s \in Seq(Message), NEW t, EndOf(t, s), InOrder(s)
    PROVE  InOrder(t)
<1>1. PICK d \in Nat : \A i \in DOMAIN t : i \in Nat /\ i + d \in DOMAIN s /\ t[i] = s[i + d]
  BY DEF EndOf
<1> SUFFICES ASSUME NEW i \in DOMAIN t, NEW k \in DOMAIN t, i < k
             PROVE  t[k].try # 0 \/ t[i].of # t[k].of
  BY DEF InOrder
<1>2. i + d \in DOMAIN s /\ k + d \in DOMAIN s /\ i + d < k + d
  BY <1>1
<1> QED
  BY <1>1, <1>2 DEF InOrder

LEMMA AppendInOrder ==
    ASSUME NEW s \in Seq(Message), NEW m \in Message, InOrder(s),
           m.try = 0 => \A n \in Range(s) : n.of # m.of
    PROVE  InOrder(Append(s, m))
<1>1. /\ Len(s) \in Nat /\ DOMAIN s = 1..Len(s) /\ DOMAIN Append(s, m) = 1..(Len(s) + 1)
      /\ \A i \in 1..Len(s) : Append(s, m)[i] = s[i]
      /\ Append(s, m)[Len(s) + 1] = m
  BY AppendProperties, LenProperties
<1> SUFFICES ASSUME NEW i \in DOMAIN Append(s, m), NEW k \in DOMAIN Append(s, m), i < k
             PROVE  Append(s, m)[k].try # 0 \/ Append(s, m)[i].of # Append(s, m)[k].of
  BY DEF InOrder
<1>2. i \in 1..Len(s)
  BY <1>1
<1>3. CASE k \in 1..Len(s)
  BY <1>1, <1>2, <1>3 DEF InOrder
<1>4. CASE k = Len(s) + 1
  <2>1. s[i] \in Range(s)
    BY <1>1, <1>2 DEF Range
  <2> QED
    BY <1>1, <1>2, <1>4, <2>1
<1> QED
  BY <1>1, <1>3, <1>4

JobsAndWriting == JobsInv /\ WritingInv

LEMMA HasJobStands ==
    ASSUME past.asked \subseteq past'.asked, UNCHANGED stage, \A c \in Conns : doing'[c] \subseteq doing[c]
    PROVE  \A q \in Questions : HasJob(q) => HasJob(q)'
BY DEF HasJob, InHand

LEMMA UnwrittenStands ==
    ASSUME past.asked \subseteq past'.asked,
           \A c \in Conns : pc'[c] = "persist" => pc[c] = "persist" /\ doing'[c] \subseteq doing[c]
    PROVE  \A q : Unwritten(q)' => Unwritten(q)
BY DEF Unwritten

\* A step that adds no job and writes no message.
LEMMA QuietStep ==
    ASSUME StateTypes, StateTypes', JobsAndWriting,
           Selected(ready', ready), Range(ready') \subseteq Range(ready),
           UNCHANGED <<inflight, up>>, past'.refused = past.refused, EndOf(stored', stored),
           \A q \in Questions : HasJob(q) => HasJob(q)',
           \A q \in Questions : Unwritten(q)' => Unwritten(q),
           pc'["worker"] \in {"prompt", "generate", "persist"} => pc["worker"] \in {"prompt", "generate", "persist"}
    PROVE  JobsAndWriting'
<1>1. Jobs' \subseteq Jobs /\ Jobs \subseteq Job
  BY RangeOfSeq DEF Jobs, StateTypes, StoreTypeOK
<1>2. JobsInv'
  <2>1. \A j \in Jobs' : HasJob(j.id)'
    BY <1>1 DEF JobsAndWriting, JobsInv, Job
  <2>2. PICK from \in [DOMAIN ready' -> DOMAIN ready] :
           /\ \A i, k \in DOMAIN ready' : from[i] = from[k] => i = k
           /\ \A i \in DOMAIN ready' : ready'[i] = ready[from[i]]
    BY DEF Selected
  <2>3. \A i, k \in DOMAIN ready' : ready'[i].id = ready'[k].id => i = k
    BY <2>2 DEF JobsAndWriting, JobsInv
  <2>4. \A i \in DOMAIN ready' : inflight' # NoJob => ready'[i].id # inflight'.id
    BY <2>2 DEF JobsAndWriting, JobsInv
  <2> QED
    BY <2>1, <2>3, <2>4 DEF JobsInv
<1>3. Written' \subseteq Written /\ Written \subseteq Message /\ Range(stored') \subseteq Range(stored)
  <2>1. Range(stored') \subseteq Range(stored) /\ Range(stored) \subseteq Message
    BY EndRange, RangeOfSeq DEF StateTypes, StoreTypeOK
  <2> QED
    BY <2>1 DEF Written, StateTypes, Past
<1>4. \A j \in Jobs : j.attempts \in Nat /\ Tries(j) \in Nat /\ Tries(j)' \in Nat /\ Tries(j) <= Tries(j)'
  <2>1. \A j \in Jobs : j.attempts \in Nat
    BY <1>1 DEF Job
  <2> QED
    BY <2>1 DEF Tries
<1>5. WritingInv'
  <2>1. \A m \in Written' : ~Unwritten(m.of)' /\ (~HasJob(m.of)' => m.try = 0)
    BY <1>3 DEF JobsAndWriting, WritingInv, Message
  <2>2. ASSUME NEW j \in Jobs', NEW m \in Written', m.of = j.id
        PROVE  m.try <= Tries(j)'
    <3>1. m.try \in Nat /\ m.try <= Tries(j)
      BY <1>1, <1>3, <2>2 DEF JobsAndWriting, WritingInv, Message
    <3> QED
      BY <1>1, <1>4, <3>1
  <2>3. Range(stored') \cap past'.refused = {}
    BY <1>3 DEF JobsAndWriting, WritingInv
  <2>4. InOrder(stored')
    BY EndInOrder DEF JobsAndWriting, WritingInv, InOrder, StateTypes, StoreTypeOK
  <2> QED
    BY <2>1, <2>2, <2>3, <2>4 DEF WritingInv, InOrder
<1> QED
  BY <1>2, <1>5 DEF JobsAndWriting

LEMMA Ends ==
    ASSUME StateTypes
    PROVE  EndOf(stored, stored) /\ EndOf(<<>>, stored) /\ EndOf(KeepLast(stored, Cap), stored)
BY Distinct, EndOfSame, KeepLastEnd DEF StateTypes, StoreTypeOK

\* A step of the worker, or of none, that leaves the store alone.
LEMMA QuietHands ==
    ASSUME StateTypes, StateTypes', JobsAndWriting, UNCHANGED <<store, up, doing>>,
           \A c \in Conns : pc'[c] = pc[c], past'.asked = past.asked, past'.refused = past.refused,
           pc'["worker"] \in {"prompt", "generate", "persist"} => pc["worker"] \in {"prompt", "generate", "persist"}
    PROVE  JobsAndWriting'
<1>1. /\ Selected(ready', ready) /\ Range(ready') \subseteq Range(ready)
      /\ EndOf(stored', stored) /\ UNCHANGED <<inflight, up, stage>>
  BY SelectedSame, Ends DEF store
<1>2. /\ \A q \in Questions : HasJob(q) => HasJob(q)'
      /\ \A q \in Questions : Unwritten(q)' => Unwritten(q)
  BY <1>1, HasJobStands, UnwrittenStands
<1> QED
  BY <1>1, <1>2, QuietStep

LEMMA WritingShow ==
    ASSUME ControlInv, StateTypes', JobsAndWriting, NEW p \in Goroutines, WriteFrame(p) \/ Show(p)
    PROVE  JobsAndWriting'
<1>1. CASE WriteFrame(p)
  BY <1>1, QuietHands DEF WriteFrame, ControlInv
<1>2. CASE Show(p)
  <2>1. past'.asked = past.asked /\ past'.refused = past.refused
    BY <1>2 DEF Show, ControlInv, StateTypes, Past
  <2>2. \A r \in Goroutines : pc'[r] = pc[r] \/ pc'[r] \notin {"prompt", "generate", "persist"}
    BY <1>2 DEF Show, AfterShow, ControlInv, StateTypes
  <2>3. /\ Selected(ready', ready) /\ Range(ready') \subseteq Range(ready)
        /\ EndOf(stored', stored) /\ UNCHANGED <<inflight, up, stage, doing>>
    BY <1>2, SelectedSame, Ends DEF Show, store, ControlInv
  <2>4. /\ \A q \in Questions : HasJob(q) => HasJob(q)'
        /\ \A q \in Questions : Unwritten(q)' => Unwritten(q)
    BY <2>1, <2>2, <2>3, HasJobStands, UnwrittenStands, Distinct
  <2> QED
    BY <2>1, <2>2, <2>3, <2>4, QuietStep, Distinct DEF ControlInv
<1> QED
  BY <1>1, <1>2

LEMMA WritingTrim ==
    ASSUME ControlInv, StateTypes', JobsAndWriting, NEW p \in Writers, Trim(p)
    PROVE  JobsAndWriting'
<1>1. \A r \in Goroutines : pc'[r] = pc[r] \/ pc'[r] \notin {"prompt", "generate", "persist"}
  BY DEF Trim, ControlInv, StateTypes
<1>2. /\ Selected(ready', ready) /\ Range(ready') \subseteq Range(ready)
      /\ EndOf(stored', stored) /\ UNCHANGED <<inflight, up, stage, doing, past>>
  BY SelectedSame, Ends DEF Trim, ControlInv
<1>3. /\ \A q \in Questions : HasJob(q) => HasJob(q)'
      /\ \A q \in Questions : Unwritten(q)' => Unwritten(q)
  BY <1>1, <1>2, HasJobStands, UnwrittenStands, Distinct
<1> QED
  BY <1>1, <1>2, <1>3, QuietStep, Distinct DEF ControlInv

LEMMA WritingAsk ==
    ASSUME ControlInv, StateTypes', JobsAndWriting, NEW c \in Conns, NEW q \in Questions, Ask(c, q)
    PROVE  JobsAndWriting'
<1>1. /\ past'.asked = past.asked \cup {q} /\ past'.refused = past.refused /\ q \notin past.asked
      /\ doing'[c] = {Question(q)} /\ \A d \in Goroutines \ {c} : doing'[d] = doing[d] /\ pc'[d] = pc[d]
  BY Distinct DEF Ask, ControlInv, StateTypes, ProcessTypeOK, Past
<1>2. /\ Selected(ready', ready) /\ Range(ready') \subseteq Range(ready)
      /\ EndOf(stored', stored) /\ UNCHANGED <<inflight, up, stage>>
  BY SelectedSame, Ends DEF Ask, store, ControlInv
<1>3. ASSUME NEW r \in Questions, r # q
      PROVE  /\ HasJob(r) => HasJob(r)'
             /\ Unwritten(r)' => Unwritten(r)
  <2>1. Question(r) # Question(q)
    BY <1>3, QuestionType
  <2> QED
    BY <1>1, <1>2, <1>3, <2>1, Distinct DEF HasJob, InHand, Unwritten
<1>4. ~HasJob(q) /\ Unwritten(q)
  BY <1>1 DEF HasJob, Unwritten
<1>5. /\ \A r \in Questions : HasJob(r) => HasJob(r)'
      /\ \A r \in Questions : Unwritten(r)' => Unwritten(r)
  BY <1>3, <1>4
<1> QED
  BY <1>1, <1>2, <1>5, QuietStep, Distinct DEF ControlInv

LEMMA WritingWeb ==
    ASSUME ControlInv, StateTypes', JobsAndWriting, NEW c \in Conns,
           CountQuery(c) \/ Clear(c) \/ Delete(c) \/ Reset(c)
    PROVE  JobsAndWriting'
<1>1. /\ \A d \in Goroutines \ {c} : pc'[d] = pc[d]
      /\ pc'[c] \in {"enqueue", "del", "reset", "idle"}
  BY Distinct DEF CountQuery, Clear, Delete, Reset, ControlInv, StateTypes
<1>2. past'.asked = past.asked /\ past'.refused = past.refused
  BY DEF CountQuery, Clear, Delete, Reset, ControlInv, StateTypes, Past
<1>3. UNCHANGED <<ready, inflight, up, stage, doing>> /\ (stored' = stored \/ stored' = <<>>)
  BY DEF CountQuery, Clear, Delete, Reset, store
<1>4. /\ Selected(ready', ready) /\ Range(ready') \subseteq Range(ready) /\ EndOf(stored', stored)
  BY <1>3, SelectedSame, Ends DEF ControlInv
<1>5. /\ \A q \in Questions : HasJob(q) => HasJob(q)'
      /\ \A q \in Questions : Unwritten(q)' => Unwritten(q)
  BY <1>1, <1>2, <1>3, HasJobStands, UnwrittenStands, Distinct
<1> QED
  BY <1>1, <1>2, <1>3, <1>4, <1>5, QuietStep, Distinct DEF ControlInv

LEMMA WritingBrowser ==
    ASSUME ControlInv, StateTypes', JobsAndWriting, NEW c \in Conns,
           Stop(c) \/ Disconnect(c) \/ Connect(c) \/ Snapshot(c) \/ Greet(c)
    PROVE  JobsAndWriting'
<1>1. UNCHANGED <<stored, stage, inflight, up, pc, doing, past>>
  BY DEF Stop, Disconnect, Connect, Snapshot, Greet, Join, store, process
<1>2. Selected(ready', ready) /\ Range(ready') \subseteq Range(ready)
  <2>1. CASE Drop(c)
    BY <2>1, DropTypes DEF ControlInv
  <2>2. CASE ready' = ready
    BY <2>2, SelectedSame
  <2> QED
    BY <2>1, <2>2 DEF Stop, Disconnect, Connect, Snapshot, Greet, Join, store
<1>3. EndOf(stored', stored)
  BY <1>1, Ends DEF ControlInv
<1>4. /\ \A q \in Questions : HasJob(q) => HasJob(q)'
      /\ \A q \in Questions : Unwritten(q)' => Unwritten(q)
  BY <1>1, HasJobStands, UnwrittenStands
<1> QED
  BY <1>1, <1>2, <1>3, <1>4, QuietStep DEF ControlInv

LEMMA WritingSubmission ==
    ASSUME ControlInv, StateTypes', JobsAndWriting, EnsureMessageMemory \/ SubmitStats \/ Complete
    PROVE  JobsAndWriting'
<1>1. UNCHANGED <<stored, ready, inflight, up, past>>
  BY DEF EnsureMessageMemory, SubmitStats, Complete, Advance, store
<1>2. /\ \A r \in Goroutines \ {"poller"} : pc'[r] = pc[r] /\ doing'[r] = doing[r]
  <2>1. /\ \E s : pc' = [pc EXCEPT !["poller"] = s]
        /\ doing' = doing \/ doing' = [doing EXCEPT !["poller"] = {}]
    BY DEF EnsureMessageMemory, SubmitStats, Complete, GiveUp
  <2> QED
    BY <2>1 DEF ControlInv, StateTypes, ProcessTypeOK
<1>3. \A q \in Questions : stage[q] \in {"absent", "job", "complete"} => stage'[q] \in {"absent", "job", "complete"}
  <2>1. CASE EnsureMessageMemory
    BY <2>1 DEF EnsureMessageMemory, store
  <2>2. CASE SubmitStats
    <3>1. PICK m \in doing["poller"] : stage' = [stage EXCEPT ![m.of] = "stats"] \/ stage' = stage
      BY <2>2 DEF SubmitStats, Advance
    <3>2. stage[m.of] = "message"
      BY <2>2 DEF SubmitStats, Advance, At, ControlInv, Hands, PollerHands
    <3> QED
      BY <3>1, <3>2 DEF ControlInv, StateTypes, StoreTypeOK
  <2>3. CASE Complete
    <3>1. PICK m \in doing["poller"] : stage' = [stage EXCEPT ![m.of] = "complete"] \/ stage' = stage
      BY <2>3 DEF Complete, Advance
    <3> QED
      BY <3>1 DEF ControlInv, StateTypes, StoreTypeOK
  <2> QED
    BY <2>1, <2>2, <2>3
<1>4. /\ \A q \in Questions : HasJob(q) => HasJob(q)'
      /\ \A q \in Questions : Unwritten(q)' => Unwritten(q)
  BY <1>1, <1>2, <1>3, UnwrittenStands, Distinct DEF HasJob, InHand
<1>5. Selected(ready', ready) /\ Range(ready') \subseteq Range(ready) /\ EndOf(stored', stored)
  BY <1>1, SelectedSame, Ends DEF ControlInv
<1> QED
  BY <1>1, <1>2, <1>4, <1>5, QuietStep, Distinct DEF ControlInv

LEMMA WritingWorker ==
    ASSUME ControlInv, StateTypes', JobsAndWriting, Prompt \/ Reply \/ Fail \/ Deliver
    PROVE  JobsAndWriting'
<1>1. UNCHANGED <<store, up>>
  BY DEF Prompt, Reply, Fail, Deliver
<1>2. \A c \in Conns : pc'[c] = pc[c] /\ doing'[c] = doing[c]
  BY Distinct DEF Prompt, Reply, Fail, Deliver, ControlInv, StateTypes, ProcessTypeOK
<1>3. past'.asked = past.asked /\ past'.refused = past.refused
  <2>1. CASE Deliver
    BY <2>1 DEF Deliver, ControlInv, StateTypes, Past
  <2> QED
    BY <2>1 DEF Prompt, Reply, Fail
<1>4. pc'["worker"] \in {"prompt", "generate", "persist"} => pc["worker"] \in {"prompt", "generate", "persist"}
  BY Distinct DEF Prompt, Reply, Fail, Deliver, At, ControlInv, StateTypes
<1>5. /\ Selected(ready', ready) /\ Range(ready') \subseteq Range(ready)
      /\ EndOf(stored', stored) /\ UNCHANGED <<inflight, up, stage>>
  BY <1>1, SelectedSame, Ends DEF store, ControlInv
<1>6. /\ \A q \in Questions : HasJob(q) => HasJob(q)'
      /\ \A q \in Questions : Unwritten(q)' => Unwritten(q)
  BY <1>2, <1>3, <1>5, HasJobStands, UnwrittenStands
<1> QED
  BY <1>3, <1>4, <1>5, <1>6, QuietStep DEF ControlInv

LEMMA WritingLoad ==
    ASSUME ControlInv, StateTypes', JobsAndWriting, LoadHistory \/ AdoptHistory
    PROVE  JobsAndWriting'
<1>1. UNCHANGED <<store, up, doing, pc, past>>
  BY DEF LoadHistory, AdoptHistory
<1> QED
  BY <1>1, QuietHands DEF ControlInv

\* A step that may add a job and may write a message.
LEMMA WritingStep ==
    ASSUME WritingInv, NEW new \in SUBSET Message,
           Written' \subseteq Written \cup new, InOrder(stored'), Range(stored') \cap past'.refused = {},
           StateTypes,
           \A q \in Questions : HasJob(q) => HasJob(q)',
           \A q \in Questions : Unwritten(q)' => Unwritten(q),
           \A m \in new : ~Unwritten(m.of)' /\ (HasJob(m.of)' \/ m.try = 0),
           \A j \in Jobs' : \A m \in Written \cup new : m.of = j.id => m.try <= Tries(j)'
    PROVE  WritingInv'
<1>1. Written \subseteq Message
  BY RangeOfSeq DEF Written, StateTypes, StoreTypeOK, Past
<1>2. \A m \in Written : ~Unwritten(m.of)' /\ (~HasJob(m.of)' => m.try = 0)
  BY <1>1 DEF WritingInv, Message
<1> QED
  BY <1>2 DEF WritingInv, InOrder

LEMMA JobsAppend ==
    ASSUME StateTypes, JobsInv, NEW k \in Job, ready' = Append(ready, k),
           \A i \in DOMAIN ready : ready[i].id # k.id,
           inflight' = NoJob \/ (inflight' = inflight /\ inflight.id # k.id),
           \A q \in Questions : HasJob(q) => HasJob(q)',
           HasJob(k.id)'
    PROVE  JobsInv'
<1>1. /\ Len(ready) \in Nat /\ DOMAIN ready = 1..Len(ready) /\ DOMAIN ready' = 1..(Len(ready) + 1)
      /\ \A i \in 1..Len(ready) : ready'[i] = ready[i]
      /\ ready'[Len(ready) + 1] = k
  BY AppendProperties, LenProperties DEF StateTypes, StoreTypeOK
<1>2. Range(ready') = Range(ready) \cup {k} /\ Jobs \subseteq Job
  BY AppendRange, RangeOfSeq DEF StateTypes, StoreTypeOK, Jobs
<1>3. \A j \in Jobs' : HasJob(j.id)'
  <2>1. Jobs' \subseteq Jobs \cup {k}
    BY <1>2 DEF Jobs
  <2> QED
    BY <1>2, <2>1 DEF JobsInv, Job
<1>4. \A i \in DOMAIN ready' : i = Len(ready) + 1 \/ i \in DOMAIN ready
  BY <1>1
<1>5. ASSUME NEW i \in DOMAIN ready', NEW l \in DOMAIN ready', ready'[i].id = ready'[l].id
      PROVE  i = l
  BY <1>1, <1>4, <1>5 DEF JobsInv
<1>6. ASSUME NEW i \in DOMAIN ready', inflight' # NoJob
      PROVE  ready'[i].id # inflight'.id
  BY <1>1, <1>4, <1>6 DEF JobsInv
<1> QED
  BY <1>3, <1>5, <1>6 DEF JobsInv

LEMMA JobsStand ==
    ASSUME StateTypes, JobsInv, UNCHANGED <<ready, inflight>>, \A q \in Questions : HasJob(q) => HasJob(q)'
    PROVE  JobsInv'
<1>1. Jobs \subseteq Job
  BY RangeOfSeq DEF StateTypes, StoreTypeOK, Jobs
<1> QED
  BY <1>1 DEF JobsInv, Jobs, Job

LEMMA JobTypes ==
    ASSUME StateTypes
    PROVE  Jobs \subseteq Job
<1>1. Range(ready) \subseteq Job
  BY RangeOfSeq DEF StateTypes, StoreTypeOK
<1> QED
  BY <1>1 DEF Jobs, StateTypes, StoreTypeOK

LEMMA WritingPersist ==
    ASSUME ControlInv, StateTypes', JobsAndWriting, NEW p \in Writers, Persist(p)
    PROVE  JobsAndWriting'
<1>1. PICK o \in Outcome, m \in doing[p] :
         /\ stored' = IF Applied(o) THEN Append(stored, m) ELSE stored
         /\ Goto(p, IF Replied(o) THEN "trim" ELSE "show")
         /\ past' = IF Applied(o) THEN past ELSE [past EXCEPT !.refused = @ \cup {m}]
  BY DEF Persist
<1>2. /\ UNCHANGED <<stage, ready, inflight, up, doing, job>> /\ up /\ pc[p] = "persist"
      /\ past'.asked = past.asked /\ past \in Past /\ stored \in Seq(Message)
      /\ p \in Goroutines /\ m \in Message
  <2>1. past'.asked = past.asked
    BY <1>1 DEF ControlInv, StateTypes, Past
  <2> QED
    BY <2>1, Distinct DEF Persist, At, Writers, ControlInv, StateTypes, StoreTypeOK, ProcessTypeOK
<1>3. \A r \in Goroutines : pc'[r] = pc[r] \/ (r = p /\ pc'[r] \in {"trim", "show"})
  BY <1>1 DEF ControlInv, StateTypes
<1>4. pc'[p] \in {"trim", "show"}
  BY <1>1, <1>2 DEF ControlInv, StateTypes
<1>5. /\ \A q \in Questions : HasJob(q) => HasJob(q)'
      /\ \A q \in Questions : Unwritten(q)' => Unwritten(q)
  BY <1>2, <1>3, HasJobStands, UnwrittenStands, Distinct
<1>6. JobsInv'
  BY <1>2, <1>5, JobsStand DEF ControlInv, JobsAndWriting
<1>7. /\ m \notin Written /\ ~Unwritten(m.of)' /\ (HasJob(m.of)' \/ m.try = 0)
      /\ \A j \in Jobs : m.of = j.id => m.try <= Tries(j)'
      /\ m.try = 0 => \A n \in Range(stored) : n.of # m.of
  <2>1. CASE p \in Conns
    <3>1. PICK q \in Questions : m = Question(q) /\ q \in past.asked /\ Asker[q] = p
      BY <2>1 DEF ControlInv, Hands, WebHands, StateTypes, Past
    <3>2. Unwritten(q) /\ m.of = q /\ m.try = 0
      BY <1>2, <2>1, <3>1, QuestionType DEF Unwritten
    <3>3. ~Unwritten(q)'
      <4>1. \A c \in Conns \ {p} : Question(q) \notin doing[c]
        <5>1. \A c \in Conns, r \in Questions : Question(q) = Question(r) => q = r
          BY QuestionType
        <5> QED
          BY <3>1, <5>1 DEF ControlInv, Hands, WebHands, StateTypes, Past
      <4> QED
        BY <1>2, <1>4, <3>1, <4>1 DEF Unwritten
    <3>4. \A n \in Written : n.of # q
      BY <3>2 DEF JobsAndWriting, WritingInv
    <3>5. \A j \in Jobs : m.try <= Tries(j)'
      <4>1. \A j \in Jobs : j.attempts \in Nat
        BY JobTypes DEF Job, ControlInv
      <4> QED
        BY <3>2, <4>1 DEF Tries
    <3> QED
      BY <3>2, <3>3, <3>4, <3>5 DEF Written
  <2>2. CASE p = "worker"
    <3>1. /\ job \in Job /\ job = inflight /\ job \in Jobs
          /\ m.of = job.id /\ m.try = job.attempts + 1 /\ job.attempts \in Nat /\ job.id \in Questions
      BY <1>2, <2>2, Distinct DEF ControlInv, Hands, HandsTypeOK, WorkerHands, StateTypes, Jobs, Job
    <3>2. HasJob(job.id) /\ Tries(job) = job.attempts
      BY <1>2, <2>2, <3>1 DEF JobsAndWriting, JobsInv, Tries
    <3>3. \A n \in Written : n.of = job.id => n.try <= job.attempts
      BY <3>1, <3>2 DEF JobsAndWriting, WritingInv
    <3> DEFINE q == m.of
    <3>4. q \in Questions /\ HasJob(q) /\ ~Unwritten(q)'
      BY <1>2, <3>1, <3>2 DEF Unwritten, HasJob, InHand
    <3>7. HasJob(q)'
      BY <1>5, <3>4
    <3>5. ASSUME NEW j \in Jobs, m.of = j.id
          PROVE  m.try <= Tries(j)'
      <4>1. j = inflight
        <5>1. \A i \in DOMAIN ready : ready[i].id # inflight.id
          BY <3>1, Distinct DEF JobsAndWriting, JobsInv
        <5>2. \A i \in Range(ready) : i.id # inflight.id
          BY <5>1 DEF Range
        <5> QED
          BY <3>1, <3>5, <5>2 DEF Jobs
      <4> QED
        BY <1>2, <1>4, <2>2, <3>1, <4>1 DEF Tries
    <3>6. m.try # 0 /\ m \notin Written
      <4>1. m.try # 0 /\ ~(m.try <= job.attempts)
        BY <3>1
      <4> QED
        BY <3>1, <3>3, <4>1
    <3> QED
      BY <3>1, <3>3, <3>4, <3>5, <3>6, <3>7 DEF Written
  <2> QED
    BY <2>1, <2>2 DEF Writers
<1>8. /\ Written' = Written \cup {m} /\ InOrder(stored') /\ Range(stored') \cap past'.refused = {}
  <2>1. CASE Applied(o)
    <3>1. stored' = Append(stored, m) /\ past' = past
      BY <1>1, <2>1
    <3>2. Range(stored') = Range(stored) \cup {m}
      BY <1>2, <3>1, AppendRange
    <3>3. InOrder(stored')
      BY <1>2, <1>7, <3>1, AppendInOrder DEF JobsAndWriting, WritingInv, InOrder
    <3> QED
      BY <1>7, <3>1, <3>2, <3>3 DEF Written, JobsAndWriting, WritingInv
  <2>2. CASE ~Applied(o)
    <3>1. stored' = stored /\ past'.refused = past.refused \cup {m}
      BY <1>1, <1>2, <2>2 DEF Past
    <3> QED
      BY <1>7, <3>1 DEF Written, JobsAndWriting, WritingInv, InOrder
  <2> QED
    BY <2>1, <2>2
<1>9. Jobs' = Jobs
  BY <1>2 DEF Jobs
<1>10. ASSUME NEW j \in Jobs', NEW n \in Written \cup {m}, n.of = j.id
       PROVE  n.try <= Tries(j)'
  <2>1. CASE n = m
    BY <1>7, <1>9, <1>10, <2>1
  <2>2. CASE n \in Written
    <3>1. j \in Job /\ n \in Message
      BY <1>9, <2>2, RangeOfSeq DEF Jobs, Written, ControlInv, StateTypes, StoreTypeOK, Past
    <3>2. n.try <= Tries(j) /\ n.try \in Nat /\ j.attempts \in Nat
      BY <1>9, <1>10, <2>2, <3>1 DEF JobsAndWriting, WritingInv, Message, Job
    <3>3. Tries(j) \in Nat /\ Tries(j)' \in Nat /\ Tries(j) <= Tries(j)'
      BY <1>2, <1>3, <3>2, Distinct DEF Tries
    <3> QED
      BY <3>2, <3>3
  <2> QED
    BY <1>10, <2>1, <2>2
<1>11. WritingInv'
  <2>1. {m} \in SUBSET Message /\ \A n \in {m} : n = m
    BY <1>2
  <2>2. Written' \subseteq Written \cup {m}
    BY <1>8
  <2> QED
    BY <1>5, <1>7, <1>8, <1>10, <2>1, <2>2, WritingStep DEF ControlInv, JobsAndWriting
<1> QED
  BY <1>6, <1>11 DEF JobsAndWriting

LEMMA WrittenTypes ==
    ASSUME StateTypes
    PROVE  Written \subseteq Message
BY RangeOfSeq DEF Written, StateTypes, StoreTypeOK, Past

\* What was written does not exceed the attempts of its job when those grow.
LEMMA TriesStand ==
    ASSUME StateTypes, WritingInv, NEW j \in Jobs, NEW n \in Written, n.of = j.id,
           \/ j = inflight' /\ (~up' \/ pc'["worker"] \notin {"prompt", "generate", "persist"})
           \/ Tries(j) = j.attempts
    PROVE  n.try <= Tries(j)'
<1>1. j \in Job /\ n \in Message
  BY JobTypes, WrittenTypes
<1>2. n.try <= Tries(j) /\ n.try \in Nat /\ j.attempts \in Nat
  BY <1>1 DEF WritingInv, Message, Job
<1>3. Tries(j) <= Tries(j)' /\ Tries(j) \in Nat /\ Tries(j)' \in Nat
  BY <1>2 DEF Tries
<1> QED
  BY <1>2, <1>3

LEMMA WritingUpdate ==
    ASSUME ControlInv, StateTypes', JobsAndWriting, NEW q \in Questions, TakeUpdate(q)
    PROVE  JobsAndWriting'
<1>1. PICK o \in Outcome :
         /\ IF stage[q] = "absent" /\ Applied(o)
            THEN /\ stored' = KeepLast(Append(stored, Question(q)), Cap)
                 /\ stage' = [stage EXCEPT ![q] = "message"]
                 /\ past' = [past EXCEPT !.asked = @ \cup {q}]
            ELSE UNCHANGED <<stored, stage, past>>
         /\ IF Replied(o)
            THEN doing' = [doing EXCEPT !["poller"] = {Question(q)}] /\ Goto("poller", "remember")
            ELSE UNCHANGED <<doing, pc>>
  BY DEF TakeUpdate
<1>2. /\ UNCHANGED <<ready, inflight, up>> /\ Asker[q] = "poller" /\ up
      /\ past \in Past /\ stored \in Seq(Message) /\ Question(q) \in Message
  BY QuestionType DEF TakeUpdate, At, ControlInv, StateTypes, StoreTypeOK
<1>3. \A r \in Goroutines \ {"poller"} : pc'[r] = pc[r] /\ doing'[r] = doing[r]
  <2>1. /\ \E s : pc' = [pc EXCEPT !["poller"] = s] \/ pc' = pc
        /\ \E s : doing' = [doing EXCEPT !["poller"] = s] \/ doing' = doing
    BY <1>1
  <2> QED
    BY <2>1 DEF ControlInv, StateTypes, ProcessTypeOK
<1>4. CASE stage[q] = "absent" /\ Applied(o)
  <2>1. /\ stored' = KeepLast(Append(stored, Question(q)), Cap)
        /\ past'.asked = past.asked \cup {q} /\ past'.refused = past.refused
        /\ \A r \in Questions \ {q} : stage'[r] = stage[r]
    BY <1>1, <1>2, <1>4 DEF ControlInv, StateTypes, StoreTypeOK, Past
  <2>2. q \notin past.asked
    BY <1>2, <1>4 DEF ControlInv, Hands, StagesInv
  <2>3. ~HasJob(q) /\ Unwritten(q)
    BY <2>2 DEF HasJob, Unwritten
  <2>4. /\ \A r \in Questions : HasJob(r) => HasJob(r)'
        /\ \A r \in Questions : Unwritten(r)' => Unwritten(r)
    BY <1>3, <2>1, <2>3, Distinct DEF HasJob, InHand, Unwritten
  <2>5. \A n \in Written : n.of # q
    BY <2>3 DEF JobsAndWriting, WritingInv
  <2>6. ~Unwritten(q)'
    <3>1. \A c \in Conns : Question(q) \notin doing[c]
      <4>1. \A c \in Conns, r \in Questions : Question(q) = Question(r) => q = r
        BY QuestionType
      <4> QED
        BY <1>2, <2>2, <4>1 DEF ControlInv, Hands, WebHands, StateTypes, Past
    <3> QED
      BY <1>3, <2>1, <3>1, Distinct DEF Unwritten
  <2>7. JobsInv'
    BY <1>2, <2>4, JobsStand DEF ControlInv, JobsAndWriting
  <2> DEFINE full == Append(stored, Question(q))
  <2>8. full \in Seq(Message) /\ Range(full) = Range(stored) \cup {Question(q)}
    BY <1>2, AppendRange
  <2>9. InOrder(full)
    <3>1. \A n \in Range(stored) : n.of # Question(q).of
      BY <2>5, QuestionType DEF Written
    <3> QED
      BY <1>2, <3>1, AppendInOrder DEF JobsAndWriting, WritingInv, InOrder
  <2> HIDE DEF full
  <2>10. EndOf(stored', full)
    BY <2>1, <2>8, KeepLastEnd, Distinct DEF full
  <2>11. InOrder(stored') /\ Range(stored') \subseteq Range(stored) \cup {Question(q)}
    BY <2>8, <2>9, <2>10, EndInOrder, EndRange
  <2>12. Question(q) \notin Written
    BY <2>5, QuestionType
  <2>13. Range(stored') \cap past'.refused = {}
    BY <2>1, <2>11, <2>12 DEF JobsAndWriting, WritingInv, Written
  <2>14. Jobs' = Jobs /\ \A j \in Jobs : j.id # q /\ Tries(j)' = Tries(j)
    BY <1>2, <1>3, <2>3, Distinct DEF Jobs, JobsAndWriting, JobsInv, Tries
  <2>15. \A j \in Jobs' : \A m \in Written \cup {Question(q)} : m.of = j.id => m.try <= Tries(j)'
    BY <2>14, QuestionType DEF JobsAndWriting, WritingInv
  <2>16. WritingInv'
    <3>1. Written' \subseteq Written \cup {Question(q)} /\ {Question(q)} \in SUBSET Message
      BY <1>2, <2>1, <2>11 DEF Written
    <3>2. \A m \in {Question(q)} : ~Unwritten(m.of)' /\ (HasJob(m.of)' \/ m.try = 0)
      BY <2>6, QuestionType
    <3> QED
      BY <2>4, <2>11, <2>13, <2>15, <3>1, <3>2, WritingStep DEF ControlInv, JobsAndWriting
  <2> QED
    BY <2>7, <2>16 DEF JobsAndWriting
<1>5. CASE ~(stage[q] = "absent" /\ Applied(o))
  <2>1. UNCHANGED <<stored, stage, past>>
    BY <1>1, <1>5
  <2>2. /\ Selected(ready', ready) /\ Range(ready') \subseteq Range(ready) /\ EndOf(stored', stored)
    BY <1>2, <2>1, SelectedSame, Ends DEF ControlInv
  <2>3. /\ \A r \in Questions : HasJob(r) => HasJob(r)'
        /\ \A r \in Questions : Unwritten(r)' => Unwritten(r)
    BY <1>3, <2>1, HasJobStands, UnwrittenStands, Distinct
  <2> QED
    BY <1>2, <1>3, <2>1, <2>2, <2>3, QuietStep, Distinct DEF ControlInv
<1> QED
  BY <1>4, <1>5

\* A question gets its first job.
LEMMA WritingFirst ==
    ASSUME ControlInv, StateTypes', JobsAndWriting, NEW q \in Questions,
           ready' = Append(ready, [id |-> q, attempts |-> 0]),
           UNCHANGED <<stored, inflight, up, past>>, pc'["worker"] = pc["worker"],
           ~HasJob(q), HasJob(q)',
           \A r \in Questions : HasJob(r) => HasJob(r)',
           \A r \in Questions : Unwritten(r)' => Unwritten(r)
    PROVE  JobsAndWriting'
<1> DEFINE k == [id |-> q, attempts |-> 0]
<1>1. k \in Job /\ k.id = q /\ k.attempts = 0 /\ ready' = Append(ready, k)
  BY DEF Job
<1> HIDE DEF k
<1>2. \A j \in Jobs : j.id # q
  BY DEF JobsAndWriting, JobsInv
<1>3. \A i \in DOMAIN ready : ready[i].id # q
  BY <1>2 DEF Jobs, Range
<1>4. inflight' = NoJob \/ (inflight' = inflight /\ inflight.id # q)
  BY <1>2 DEF Jobs
<1>5. JobsInv'
  BY <1>1, <1>3, <1>4, JobsAppend DEF ControlInv, JobsAndWriting
<1>6. Written' = Written /\ Written \subseteq Message
  BY WrittenTypes DEF Written, ControlInv
<1>7. Jobs' \subseteq Jobs \cup {k}
  <2>1. Range(ready') = Range(ready) \cup {k}
    BY <1>1, AppendRange DEF ControlInv, StateTypes, StoreTypeOK
  <2> QED
    BY <2>1 DEF Jobs
<1>8. ASSUME NEW j \in Jobs', NEW n \in Written, n.of = j.id
      PROVE  n.try <= Tries(j)'
  <2>1. CASE j = k
    <3>1. n.try = 0
      BY <1>1, <1>8, <2>1 DEF JobsAndWriting, WritingInv
    <3>2. Tries(k)' = 0 \/ Tries(k)' = 1
      BY <1>1 DEF Tries
    <3> QED
      BY <2>1, <3>1, <3>2
  <2>2. CASE j \in Jobs
    <3>1. Tries(j)' = Tries(j)
      BY DEF Tries
    <3> QED
      BY <1>8, <2>2, <3>1 DEF JobsAndWriting, WritingInv
  <2> QED
    BY <1>7, <2>1, <2>2
<1>9. WritingInv'
  <2>1. {} \in SUBSET Message /\ Written' \subseteq Written \cup {}
    BY <1>6
  <2>2. InOrder(stored') /\ Range(stored') \cap past'.refused = {}
    BY DEF JobsAndWriting, WritingInv, InOrder
  <2>3. \A j \in Jobs' : \A m \in Written \cup {} : m.of = j.id => m.try <= Tries(j)'
    BY <1>8
  <2> QED
    BY <2>1, <2>2, <2>3, WritingStep DEF ControlInv, JobsAndWriting
<1> QED
  BY <1>5, <1>9 DEF JobsAndWriting

LEMMA WritingEnqueue ==
    ASSUME ControlInv, StateTypes', JobsAndWriting, NEW c \in Conns, Enqueue(c)
    PROVE  JobsAndWriting'
<1>1. PICK m \in doing[c] :
         ready' = Append(ready, [id |-> m.of, attempts |-> 0]) \/ ready' = ready
  BY DEF Enqueue
<1>2. /\ UNCHANGED <<stored, stage, inflight, up, past>>
      /\ doing'[c] = {} /\ \A r \in Goroutines \ {c} : doing'[r] = doing[r] /\ pc'[r] = pc[r]
      /\ pc'[c] = "idle"
  BY Distinct DEF Enqueue, ControlInv, StateTypes, ProcessTypeOK
<1>3. PICK q \in Questions : m = Question(q) /\ q \in past.asked /\ Asker[q] = c
  BY DEF ControlInv, Hands, WebHands, StateTypes, Past
<1>4. m.of = q /\ ~HasJob(q) /\ stage[q] = "absent"
  <2>1. Asker[q] # "poller" /\ InHand(q)
    BY <1>3, Distinct DEF InHand
  <2> QED
    BY <1>3, <2>1, QuestionType DEF HasJob, ControlInv, Hands, StagesInv
<1>5. /\ \A r \in Questions : HasJob(r) => HasJob(r)'
      /\ \A r \in Questions : Unwritten(r)' => Unwritten(r)
  BY <1>2, HasJobStands, UnwrittenStands, Distinct
<1>6. HasJob(q)'
  <2>1. \A d \in Conns \ {c} : Question(q) \notin doing[d]
    <3>1. \A r \in Questions : Question(q) = Question(r) => q = r
      BY QuestionType
    <3> QED
      BY <1>3, <3>1 DEF ControlInv, Hands, WebHands, StateTypes, Past
  <2> QED
    BY <1>2, <1>3, <1>4, <2>1, Distinct DEF HasJob, InHand
<1>7. CASE ready' = Append(ready, [id |-> m.of, attempts |-> 0])
  BY <1>2, <1>4, <1>5, <1>6, <1>7, WritingFirst, Distinct
<1>8. CASE ready' = ready
  BY <1>2, <1>5, <1>8, QuietStep, SelectedSame, Ends, Distinct DEF ControlInv
<1> QED
  BY <1>1, <1>7, <1>8

LEMMA WritingEnqueueTelegram ==
    ASSUME ControlInv, StateTypes', JobsAndWriting, EnqueueTelegram
    PROVE  JobsAndWriting'
<1>1. PICK o \in Outcome, m \in doing["poller"] :
         /\ ready' = IF Applied(o) THEN Append(ready, [id |-> m.of, attempts |-> 0]) ELSE ready
         /\ Advance("queue", "job", o)
  BY DEF EnqueueTelegram
<1>2. PICK n \in doing["poller"] : stage' = IF Applied(o) THEN [stage EXCEPT ![n.of] = "job"] ELSE stage
  BY <1>1 DEF Advance
<1>3. m = n /\ m.of \in Questions /\ stage[m.of] = "stats" /\ Asker[m.of] = "poller" /\ m.of \in past.asked
  <2>1. m = n /\ stage[m.of] = "stats" /\ Asker[m.of] = "poller"
    BY <1>1, Distinct DEF Advance, At, ControlInv, Hands, OneInHand, PollerHands
  <2>2. m.of \in Questions
    BY Distinct DEF ControlInv, StateTypes, ProcessTypeOK, Message
  <2> QED
    BY <2>1, <2>2 DEF ControlInv, Hands, StagesInv
<1>4. /\ UNCHANGED <<stored, inflight, up, past>>
      /\ \A r \in Goroutines \ {"poller"} : doing'[r] = doing[r] /\ pc'[r] = pc[r]
  <2>1. /\ \E s : pc' = [pc EXCEPT !["poller"] = s]
        /\ \E s : doing' = doing \/ doing' = [doing EXCEPT !["poller"] = s]
    BY DEF EnqueueTelegram, GiveUp
  <2> QED
    BY <1>1, <2>1 DEF Advance, ControlInv, StateTypes, ProcessTypeOK
<1>5. stage'[m.of] = (IF Applied(o) THEN "job" ELSE stage[m.of]) /\ \A r \in Questions \ {m.of} : stage'[r] = stage[r]
  BY <1>2, <1>3 DEF ControlInv, StateTypes, StoreTypeOK
<1>6. ~HasJob(m.of)
  BY <1>3 DEF HasJob
<1>7. /\ \A r \in Questions : HasJob(r) => HasJob(r)'
      /\ \A r \in Questions : Unwritten(r)' => Unwritten(r)
  BY <1>4, <1>5, <1>6, UnwrittenStands, Distinct DEF HasJob, InHand
<1>8. CASE Applied(o)
  <2>1. \A c \in Conns : Question(m.of) \notin doing[c]
    <3>1. \A r \in Questions : Question(m.of) = Question(r) => m.of = r
      BY <1>3, QuestionType
    <3> QED
      BY <1>3, <3>1, Distinct DEF ControlInv, Hands, WebHands, StateTypes, Past
  <2>2. HasJob(m.of)'
    BY <1>3, <1>4, <1>5, <1>8, <2>1, Distinct DEF HasJob, InHand
  <2> QED
    BY <1>1, <1>3, <1>4, <1>6, <1>7, <1>8, <2>2, WritingFirst, Distinct
<1>9. CASE ~Applied(o)
  <2>1. ready' = ready
    BY <1>1, <1>9
  <2> QED
    BY <1>4, <1>7, <2>1, QuietStep, SelectedSame, Ends, Distinct DEF ControlInv
<1> QED
  BY <1>8, <1>9

\* A step that moves jobs, and writes nothing.
LEMMA WritingMoves ==
    ASSUME StateTypes, WritingInv, UNCHANGED stored, past'.refused = past.refused,
           \A q \in Questions : HasJob(q) => HasJob(q)',
           \A q \in Questions : Unwritten(q)' => Unwritten(q),
           \A j \in Jobs' : \A m \in Written : m.of = j.id => m.try <= Tries(j)'
    PROVE  WritingInv'
<1>1. {} \in SUBSET Message /\ Written' \subseteq Written \cup {}
  BY DEF Written
<1>2. InOrder(stored') /\ Range(stored') \cap past'.refused = {}
  BY DEF WritingInv, InOrder
<1>3. \A j \in Jobs' : \A m \in Written \cup {} : m.of = j.id => m.try <= Tries(j)'
  OBVIOUS
<1> QED
  BY <1>1, <1>2, <1>3, WritingStep

LEMMA WritingAcquire ==
    ASSUME ControlInv, StateTypes', JobsAndWriting, Acquire
    PROVE  JobsAndWriting'
<1>1. /\ UNCHANGED <<stored, stage, up, doing, past>> /\ up /\ ready # <<>> /\ inflight = NoJob
      /\ inflight' = Head(ready) /\ ready' = Tail(ready) /\ ready \in Seq(Job)
      /\ pc'["worker"] = "prompt" /\ \A c \in Conns : pc'[c] = pc[c]
  BY Distinct DEF Acquire, At, ControlInv, StateTypes, StoreTypeOK
<1>2. /\ \A r \in Questions : HasJob(r) => HasJob(r)'
      /\ \A r \in Questions : Unwritten(r)' => Unwritten(r)
  BY <1>1, HasJobStands, UnwrittenStands
<1>3. Jobs' \subseteq Jobs /\ Jobs \subseteq Job
  <2>1. Range(ready) = {Head(ready)} \cup Range(Tail(ready))
    BY <1>1, HeadTailRange
  <2> QED
    BY <1>1, <2>1, JobTypes DEF Jobs, ControlInv
<1>4. JobsInv'
  <2>1. \A j \in Jobs' : HasJob(j.id)'
    BY <1>2, <1>3 DEF JobsAndWriting, JobsInv, Job
  <2>2. /\ \A i \in DOMAIN ready' : i \in Nat \ {0} /\ i + 1 \in DOMAIN ready /\ ready'[i] = ready[i + 1]
        /\ 1 \in DOMAIN ready /\ inflight' = ready[1]
    <3>1. \A i \in DOMAIN Tail(ready) : i + 1 \in DOMAIN ready /\ Tail(ready)[i] = ready[i + 1]
      BY <1>1, TailSelected
    <3>2. Len(ready) \in Nat /\ Len(ready) # 0 /\ DOMAIN ready = 1..Len(ready) /\ Head(ready) = ready[1]
          /\ DOMAIN Tail(ready) = 1..Len(Tail(ready)) /\ Len(Tail(ready)) \in Nat
      BY <1>1, LenProperties, HeadTailProperties, EmptySeq
    <3> QED
      BY <1>1, <3>1, <3>2
  <2>3. \A i, k \in DOMAIN ready' : ready'[i].id = ready'[k].id => i = k
    <3> SUFFICES ASSUME NEW i \in DOMAIN ready', NEW k \in DOMAIN ready', ready'[i].id = ready'[k].id
                 PROVE  i = k
      OBVIOUS
    <3>1. i + 1 = k + 1
      BY <2>2 DEF JobsAndWriting, JobsInv
    <3> QED
      BY <2>2, <3>1
  <2>4. ASSUME NEW i \in DOMAIN ready'
        PROVE  ready'[i].id # inflight'.id
    <3>1. i \in Nat /\ i + 1 # 1
      BY <2>2
    <3> QED
      BY <2>2, <3>1 DEF JobsAndWriting, JobsInv
  <2> QED
    BY <2>1, <2>3, <2>4 DEF JobsInv
<1>5. ASSUME NEW j \in Jobs', NEW n \in Written, n.of = j.id
      PROVE  n.try <= Tries(j)'
  <2>1. Tries(j) = j.attempts /\ Tries(j)' = j.attempts /\ j \in Jobs
    BY <1>1, <1>3, <1>5, Distinct DEF Tries
  <2> QED
    BY <1>5, <2>1 DEF JobsAndWriting, WritingInv
<1>6. WritingInv'
  BY <1>1, <1>2, <1>5, WritingMoves DEF ControlInv, JobsAndWriting
<1> QED
  BY <1>4, <1>6 DEF JobsAndWriting

\* The job in flight ends, or is put behind the jobs that wait: by the worker,
\* and by the recovery of a start.
LEMMA WritingNack ==
    ASSUME StateTypes, StateTypes', JobsAndWriting, inflight # NoJob, inflight' = NoJob,
           Nacked(inflight) \/ (past' = [past EXCEPT !.ended = @ \cup {inflight.id}] /\ UNCHANGED ready),
           ~up \/ pc["worker"] = "settle",
           UNCHANGED <<stored, stage>>,
           \A c \in Conns : pc'[c] = pc[c] /\ doing'[c] = doing[c]
    PROVE  JobsAndWriting'
<1> DEFINE k == [id |-> inflight.id, attempts |-> inflight.attempts + 1]
<1>1. /\ inflight \in Job /\ inflight \in Jobs /\ k \in Job /\ k.id = inflight.id
      /\ k.attempts = inflight.attempts + 1
      /\ k.id \in Questions /\ k.attempts \in Nat
  BY DEF StateTypes, StoreTypeOK, Jobs, Job
<1>2. past'.asked = past.asked /\ past'.refused = past.refused
  BY NackedAsked
<1>3. ready' = Append(ready, k) \/ ready' = ready
  BY <1>1, NackedJobs
<1> HIDE DEF k
<1>4. /\ \A r \in Questions : HasJob(r) => HasJob(r)'
      /\ \A r \in Questions : Unwritten(r)' => Unwritten(r)
  BY <1>2, HasJobStands, UnwrittenStands
<1>5. \A i \in DOMAIN ready : ready[i].id # inflight.id
  BY DEF JobsAndWriting, JobsInv
<1>6. Jobs \subseteq Job
  BY JobTypes
<1>7. JobsInv'
  <2>1. CASE ready' = Append(ready, k)
    <3>1. HasJob(k.id)
      BY <1>1 DEF JobsAndWriting, JobsInv
    <3> QED
      BY <1>1, <1>4, <1>5, <2>1, <3>1, JobsAppend DEF JobsAndWriting
  <2>2. CASE ready' = ready
    <3>1. \A j \in Jobs' : HasJob(j.id)'
      BY <1>4, <1>6, <2>2 DEF Jobs, Job, JobsAndWriting, JobsInv
    <3> QED
      BY <2>2, <3>1 DEF JobsAndWriting, JobsInv
  <2> QED
    BY <1>3, <2>1, <2>2
<1>8. Jobs' \subseteq Range(ready) \cup {k}
  <2>1. Range(ready') \subseteq Range(ready) \cup {k}
    BY <1>1, <1>3, AppendRange DEF StateTypes, StoreTypeOK
  <2> QED
    BY <2>1 DEF Jobs
<1>9. ASSUME NEW j \in Jobs', NEW n \in Written, n.of = j.id
      PROVE  n.try <= Tries(j)'
  <2>1. j \in Job /\ j # NoJob
    BY <1>1, <1>6, <1>8, Distinct DEF Jobs
  <2>2. Tries(j)' = j.attempts
    BY <2>1 DEF Tries
  <2>3. CASE j = k
    <3>1. n.try <= Tries(inflight) /\ Tries(inflight) = inflight.attempts + 1
      BY <1>1, <1>9, <2>3 DEF JobsAndWriting, WritingInv, Tries
    <3> QED
      BY <1>1, <2>2, <2>3, <3>1
  <2>4. CASE j \in Range(ready)
    <3>1. j # inflight /\ j \in Jobs
      BY <1>5, <2>4 DEF Range, Jobs
    <3> QED
      BY <1>9, <2>2, <3>1 DEF JobsAndWriting, WritingInv, Tries
  <2> QED
    BY <1>8, <2>3, <2>4
<1>10. WritingInv'
  BY <1>2, <1>4, <1>9, WritingMoves DEF JobsAndWriting
<1> QED
  BY <1>7, <1>10 DEF JobsAndWriting

LEMMA WritingSettle ==
    ASSUME ControlInv, StateTypes', JobsAndWriting, Settle
    PROVE  JobsAndWriting'
<1>1. /\ inflight = job /\ job # NoJob /\ inflight' = NoJob /\ pc["worker"] = "settle"
      /\ UNCHANGED <<stored, stage>>
      /\ Nacked(inflight) \/ (past' = [past EXCEPT !.ended = @ \cup {inflight.id}] /\ UNCHANGED ready)
  BY DEF Settle, At, ControlInv, Hands, HandsTypeOK, WorkerHands
<1>2. \A c \in Conns : pc'[c] = pc[c] /\ doing'[c] = doing[c]
  BY Distinct DEF Settle, ControlInv, StateTypes, ProcessTypeOK
<1> QED
  BY <1>1, <1>2, WritingNack DEF ControlInv

LEMMA WritingBoot ==
    ASSUME ControlInv, StateTypes', JobsAndWriting, Boot
    PROVE  JobsAndWriting'
<1>1. UNCHANGED <<stored, stage, pc, doing>> /\ ~up /\ inflight' = NoJob
  BY DEF Boot
<1>2. CASE inflight # NoJob
  BY <1>1, <1>2, WritingNack DEF Boot, ControlInv
<1>3. CASE inflight = NoJob
  <2>1. UNCHANGED <<ready, past, inflight>>
    BY <1>1, <1>3 DEF Boot
  <2>2. /\ \A r \in Questions : HasJob(r) => HasJob(r)'
        /\ \A r \in Questions : Unwritten(r)' => Unwritten(r)
    BY <1>1, <2>1, HasJobStands, UnwrittenStands
  <2>3. JobsInv'
    BY <2>1, <2>2, JobsStand DEF ControlInv, JobsAndWriting
  <2>4. ASSUME NEW j \in Jobs', NEW n \in Written, n.of = j.id
        PROVE  n.try <= Tries(j)'
    <3>1. j \in Jobs /\ j # NoJob
      BY <2>1, JobTypes, Distinct DEF Jobs, ControlInv
    <3>2. Tries(j) = Tries(j)'
      BY <1>1, <1>3, <3>1 DEF Tries
    <3> QED
      BY <2>4, <3>1, <3>2 DEF JobsAndWriting, WritingInv
  <2>5. WritingInv'
    BY <1>1, <2>1, <2>2, <2>4, WritingMoves DEF ControlInv, JobsAndWriting
  <2> QED
    BY <2>3, <2>5 DEF JobsAndWriting
<1> QED
  BY <1>2, <1>3

LEMMA WritingCrash ==
    ASSUME ControlInv, StateTypes', JobsAndWriting, Crash
    PROVE  JobsAndWriting'
<1>1. /\ UNCHANGED <<stored, stage, ready, inflight>> /\ up' = FALSE
      /\ \A c \in Conns : pc'[c] = "idle" /\ doing'[c] = {}
  BY Distinct DEF Crash, store
<1>2. past'.asked = past.asked /\ past'.refused = past.refused
  BY DEF Crash, ControlInv, StateTypes, Past
<1>3. /\ \A r \in Questions : HasJob(r) => HasJob(r)'
      /\ \A r \in Questions : Unwritten(r)' => Unwritten(r)
  BY <1>1, <1>2, HasJobStands, UnwrittenStands
<1>4. JobsInv'
  BY <1>1, <1>3, JobsStand DEF ControlInv, JobsAndWriting
<1>5. ASSUME NEW j \in Jobs', NEW n \in Written, n.of = j.id
      PROVE  n.try <= Tries(j)'
  <2>1. j \in Jobs
    BY <1>1 DEF Jobs
  <2>2. j = inflight' \/ Tries(j) = j.attempts
    BY <1>1 DEF Tries
  <2> QED
    BY <1>1, <1>5, <2>1, <2>2, TriesStand DEF ControlInv, JobsAndWriting
<1>6. WritingInv'
  BY <1>1, <1>2, <1>3, <1>5, WritingMoves DEF ControlInv, JobsAndWriting
<1> QED
  BY <1>4, <1>6 DEF JobsAndWriting

LEMMA WritingNext ==
    ASSUME ControlInv, JobsAndWriting, Next
    PROVE  JobsAndWriting'
<1>1. StateTypes'
  BY ControlNext DEF ControlInv
<1>2. CASE \E p \in Goroutines : WriteFrame(p) \/ Show(p)
  BY <1>1, <1>2, WritingShow
<1>3. CASE \E p \in Writers : Persist(p) \/ Trim(p)
  BY <1>1, <1>3, WritingPersist, WritingTrim
<1>4. ASSUME NEW c \in Conns,
             \/ \E q \in Questions : Ask(c, q)
             \/ CountQuery(c) \/ Enqueue(c) \/ Clear(c) \/ Delete(c) \/ Reset(c)
             \/ Stop(c) \/ Connect(c) \/ Snapshot(c) \/ Greet(c) \/ Disconnect(c)
      PROVE  JobsAndWriting'
  BY <1>1, <1>4, WritingAsk, WritingWeb, WritingEnqueue, WritingBrowser
<1>5. CASE \/ \E q \in Questions : TakeUpdate(q)
           \/ EnsureMessageMemory \/ SubmitStats \/ EnqueueTelegram \/ Complete
  BY <1>1, <1>5, WritingUpdate, WritingSubmission, WritingEnqueueTelegram
<1>6. CASE \/ Acquire \/ Prompt \/ Reply \/ Fail \/ Deliver \/ Settle
           \/ LoadHistory \/ AdoptHistory \/ Boot \/ Crash
  BY <1>1, <1>6, WritingAcquire, WritingWorker, WritingSettle, WritingLoad, WritingBoot, WritingCrash
<1> QED
  BY <1>2, <1>3, <1>4, <1>5, <1>6, Actions

LEMMA NoJobs ==
    ASSUME Init
    PROVE  Jobs = {} /\ Written = {} /\ DOMAIN ready = {} /\ DOMAIN stored = {}
<1>1. ready = <<>> /\ stored = <<>> /\ DOMAIN <<>> = {}
  BY DEF Init
<1> QED
  BY <1>1 DEF Init, Range, Jobs, Written

LEMMA WritingAlways == Spec => []JobsAndWriting
<1>1. Init => JobsAndWriting
  BY NoJobs DEF Init, JobsAndWriting, JobsInv, WritingInv, Written
<1>2. JobsAndWriting /\ UNCHANGED vars => JobsAndWriting'
  BY DEF JobsAndWriting, JobsInv, WritingInv, Written, Jobs, HasJob, InHand, Unwritten, Tries,
     vars, store, process
<1>3. JobsAndWriting /\ ControlInv /\ [Next]_vars => JobsAndWriting'
  BY <1>2, WritingNext
<1> QED
  BY <1>1, <1>3, ControlAlways, PTL DEF Spec

-----------------------------------------------------------------------------
(* What is kept where: nothing leaves a copy unnoticed.                    *)

LEMMA PastGrows ==
    ASSUME StateTypes, Next
    PROVE  /\ past.refused \subseteq past'.refused /\ past.asked \subseteq past'.asked
           /\ past.uncounted \subseteq past'.uncounted
<1>1. CASE past' = past
  BY <1>1
<1>2. CASE \E s : \/ past' = [past EXCEPT !.refused = @ \cup s]
                  \/ past' = [past EXCEPT !.shown = @ \cup s]
                  \/ past' = [past EXCEPT !.asked = @ \cup s]
                  \/ past' = [past EXCEPT !.uncounted = @ \cup s]
                  \/ past' = [past EXCEPT !.ended = @ \cup s]
                  \/ \E t : past' = [past EXCEPT !.delivered = @ \cup s, !.shown = @ \cup t]
                  \/ \E t : past' = [past EXCEPT !.uncounted = @ \cup s, !.cut = t]
  BY <1>2 DEF StateTypes, Past
<1>3. CASE \E p \in Goroutines : WriteFrame(p) \/ Show(p)
  BY <1>1, <1>2, <1>3 DEF WriteFrame, Show
<1>4. CASE \E p \in Writers : Persist(p) \/ Trim(p)
  BY <1>1, <1>2, <1>4 DEF Persist, Trim
<1>5. ASSUME NEW c \in Conns,
             \/ \E q \in Questions : Ask(c, q)
             \/ CountQuery(c) \/ Enqueue(c) \/ Clear(c) \/ Delete(c) \/ Reset(c)
             \/ Stop(c) \/ Connect(c) \/ Snapshot(c) \/ Greet(c) \/ Disconnect(c)
      PROVE  /\ past.refused \subseteq past'.refused /\ past.asked \subseteq past'.asked
           /\ past.uncounted \subseteq past'.uncounted
  BY <1>1, <1>2, <1>5 DEF Ask, CountQuery, Enqueue, Clear, Delete, Reset, Stop, Connect, Snapshot, Greet,
     Join, Disconnect
<1>6. CASE \/ \E q \in Questions : TakeUpdate(q)
           \/ EnsureMessageMemory \/ SubmitStats \/ EnqueueTelegram \/ Complete
  BY <1>1, <1>2, <1>6 DEF TakeUpdate, EnsureMessageMemory, SubmitStats, EnqueueTelegram, Complete, Advance
<1>7. CASE Acquire \/ Prompt \/ Reply \/ Fail \/ LoadHistory \/ AdoptHistory
  BY <1>1, <1>7 DEF Acquire, Prompt, Reply, Fail, LoadHistory, AdoptHistory
<1>8. CASE Settle
  BY <1>1, <1>2, <1>8 DEF Settle, Nacked
<1>9. CASE Boot
  BY <1>1, <1>2, <1>9 DEF Boot, Nacked
<1>10. CASE Deliver
  <2>1. past' = past \/ \E s, t : past' = [past EXCEPT !.delivered = @ \cup s, !.shown = @ \cup t]
    BY <1>10 DEF Deliver
  <2> QED
    BY <1>1, <1>2, <2>1
<1>11. CASE Crash
  BY <1>11 DEF Crash, StateTypes, Past
<1> QED
  BY <1>3, <1>4, <1>5, <1>6, <1>7, <1>8, <1>9, <1>10, <1>11, Actions

LEMMA SafeGrows ==
    ASSUME ControlInv, Next
    PROVE  Safe \subseteq Safe'
<1>1. seen'.erased = seen.erased \cup (Range(stored) \ Range(stored'))
  BY Seeing DEF ControlInv, Next
<1>2. past.refused \subseteq past'.refused
  BY PastGrows DEF ControlInv
<1> QED
  BY <1>1, <1>2 DEF Safe

\* A job has the question of an earlier one, or of the goroutine that enqueued it.
NewJob(q) == \E p \in Conns \cup {"poller"} : \E m \in doing[p] :
    m.of = q /\ m.try = 0 /\ pc[p] \in {"enqueue", "queue"}

LEMMA JobsFrom ==
    ASSUME ControlInv, Next
    PROVE  \A j \in Jobs' : (\E i \in Jobs : i.id = j.id) \/ NewJob(j.id)
<1> DEFINE Goal == \A j \in Jobs' : (\E i \in Jobs : i.id = j.id) \/ NewJob(j.id)
<1>1. ASSUME Range(ready') \subseteq Range(ready), inflight' = inflight
      PROVE  Goal
  BY <1>1 DEF Jobs
<1>2. ASSUME NEW p \in Conns \cup {"poller"}, NEW m \in doing[p], pc[p] \in {"enqueue", "queue"},
             ready' = Append(ready, [id |-> m.of, attempts |-> 0]) \/ ready' = ready, inflight' = inflight
      PROVE  Goal
  <2>1. m.of \in Questions /\ m.try = 0
    <3>1. p \in Goroutines
      BY Distinct
    <3>2. m.try = 0
      BY <1>2, QuestionType DEF ControlInv, Hands, WebHands, PollerHands, StateTypes, Past
    <3> QED
      BY <3>1, <3>2 DEF ControlInv, StateTypes, ProcessTypeOK, Message
  <2>2. NewJob(m.of)
    BY <1>2, <2>1 DEF NewJob
  <2> DEFINE k == [id |-> m.of, attempts |-> 0]
  <2>3. k \in Job /\ k.id = m.of /\ (ready' = Append(ready, k) \/ ready' = ready) /\ ready \in Seq(Job)
    BY <1>2, <2>1 DEF Job, ControlInv, StateTypes, StoreTypeOK
  <2> HIDE DEF k
  <2>4. Range(ready') \subseteq Range(ready) \cup {k}
    <3>1. CASE ready' = Append(ready, k)
      <4>1. Range(Append(ready, k)) = Range(ready) \cup {k}
        BY <2>3, AppendRange
      <4> QED
        BY <3>1, <4>1
    <3>2. CASE ready' = ready
      BY <3>2
    <3> QED
      BY <2>3, <3>1, <3>2
  <2> QED
    BY <1>2, <2>2, <2>3, <2>4 DEF Jobs
<1>3. ASSUME inflight # NoJob, inflight' = NoJob,
             Nacked(inflight) \/ UNCHANGED ready
      PROVE  Goal
  <2>1. inflight \in Job /\ inflight \in Jobs
    BY <1>3 DEF ControlInv, StateTypes, StoreTypeOK, Jobs
  <2> DEFINE k == [id |-> inflight.id, attempts |-> inflight.attempts + 1]
  <2>2. Range(ready') \subseteq Range(ready) \cup {k} /\ k.id = inflight.id
    BY <1>3, <2>1, NackedJobs DEF ControlInv
  <2> HIDE DEF k
  <2> QED
    BY <1>3, <2>1, <2>2 DEF Jobs
<1> HIDE DEF Goal
<1> SUFFICES Goal
  BY DEF Goal
<1>4. CASE \E p \in Goroutines : WriteFrame(p) \/ Show(p)
  BY <1>1, <1>4 DEF WriteFrame, Show, store
<1>5. CASE \E p \in Writers : Persist(p) \/ Trim(p)
  BY <1>1, <1>5 DEF Persist, Trim
<1>6. ASSUME NEW c \in Conns,
             \/ \E q \in Questions : Ask(c, q)
             \/ CountQuery(c) \/ Clear(c) \/ Delete(c) \/ Reset(c)
             \/ Connect(c) \/ Snapshot(c) \/ Greet(c)
      PROVE  Goal
  BY <1>1, <1>6 DEF Ask, CountQuery, Clear, Delete, Reset, Connect, Snapshot, Greet, Join, store
<1>7. ASSUME NEW c \in Conns, Stop(c) \/ Disconnect(c)
      PROVE  Goal
  BY <1>1, <1>7, DropTypes DEF Stop, Disconnect, ControlInv
<1>8. ASSUME NEW c \in Conns, Enqueue(c)
      PROVE  Goal
  <2>1. PICK m \in doing[c] :
           ready' = Append(ready, [id |-> m.of, attempts |-> 0]) \/ ready' = ready
    BY <1>8 DEF Enqueue
  <2> QED
    BY <1>2, <1>8, <2>1 DEF Enqueue, At
<1>9. CASE \/ \E q \in Questions : TakeUpdate(q)
           \/ EnsureMessageMemory \/ SubmitStats \/ Complete
  BY <1>1, <1>9 DEF TakeUpdate, EnsureMessageMemory, SubmitStats, Complete, Advance, store
<1>10. CASE EnqueueTelegram
  <2>1. PICK m \in doing["poller"] :
           ready' = Append(ready, [id |-> m.of, attempts |-> 0]) \/ ready' = ready
    BY <1>10 DEF EnqueueTelegram
  <2> QED
    BY <1>2, <1>10, <2>1 DEF EnqueueTelegram, Advance, At
<1>11. CASE Acquire
  <2>1. Range(ready) = {Head(ready)} \cup Range(Tail(ready))
    BY <1>11, HeadTailRange DEF Acquire, ControlInv, StateTypes, StoreTypeOK
  <2>2. Jobs' \subseteq Jobs
    <3>1. Head(ready) \in Job
      BY <1>11, HeadTailRange DEF Acquire, ControlInv, StateTypes, StoreTypeOK
    <3> QED
      BY <1>11, <2>1, <3>1, Distinct DEF Acquire, Jobs
  <2> QED
    BY <2>2 DEF Goal
<1>12. CASE Prompt \/ Reply \/ Fail \/ Deliver \/ LoadHistory \/ AdoptHistory \/ Crash
  BY <1>1, <1>12 DEF Prompt, Reply, Fail, Deliver, LoadHistory, AdoptHistory, Crash, store
<1>13. CASE Settle
  BY <1>3, <1>13 DEF Settle, At, ControlInv, Hands, HandsTypeOK, WorkerHands
<1>14. CASE Boot
  <2>1. CASE inflight # NoJob
    BY <1>3, <1>14, <2>1 DEF Boot
  <2>2. CASE inflight = NoJob
    BY <1>1, <1>14, <2>2 DEF Boot
  <2> QED
    BY <2>1, <2>2
<1> QED
  BY <1>4, <1>5, <1>6, <1>7, <1>8, <1>9, <1>10, <1>11, <1>12, <1>13, <1>14, Actions

LEMMA QuestionOf ==
    ASSUME NEW m \in Message, m.try = 0
    PROVE  m = Question(m.of) /\ m.of \in Questions
BY DEF Message, Question

\* What was added last stays in a list with room for one element.
LEMMA LastStays ==
    ASSUME NEW s \in Seq(Message), NEW m \in Message
    PROVE  /\ m \in Range(KeepLast(Append(s, m), Cap))
           /\ KeepLast(Append(s, m), Cap) \in Seq(Message)
           /\ Range(KeepLast(Append(s, m), Cap)) \subseteq Range(s) \cup {m}
           /\ Len(s) < Cap => Range(KeepLast(Append(s, m), Cap)) = Range(s) \cup {m}
<1> DEFINE t == Append(s, m)
<1>1. /\ t \in Seq(Message) /\ Range(t) = Range(s) \cup {m} /\ Len(s) \in Nat /\ Len(t) = Len(s) + 1
      /\ t[Len(t)] = m /\ Len(t) \in DOMAIN t /\ Cap \in Nat \ {0}
  <2>1. /\ Len(s) \in Nat /\ Len(t) = Len(s) + 1 /\ t[Len(s) + 1] = m /\ DOMAIN t = 1..(Len(s) + 1)
    BY AppendProperties, LenProperties
  <2> QED
    BY <2>1, AppendRange, BoundsAssumption
<1> HIDE DEF t
<1>2. CASE Len(t) <= Cap
  <2>1. KeepLast(t, Cap) = t
    BY <1>2 DEF KeepLast
  <2> QED
    BY <1>1, <2>1 DEF t
<1>3. CASE ~(Len(t) <= Cap)
  <2> DEFINE d == Len(t) - Cap
  <2>1. /\ d \in Nat /\ d + Cap = Len(t) /\ ~(Len(s) < Cap)
        /\ KeepLast(t, Cap) = SubSeq(t, d + 1, Len(t))
    BY <1>1, <1>3 DEF KeepLast
  <2>2. SubSeq(t, d + 1, Len(t)) = [i \in 1..Cap |-> t[i + d]]
    BY <1>1, <2>1
  <2> HIDE DEF d
  <2>3. Cap \in DOMAIN KeepLast(t, Cap) /\ KeepLast(t, Cap)[Cap] = m
    BY <1>1, <2>1, <2>2
  <2>4. m \in Range(KeepLast(t, Cap))
    BY <2>3 DEF Range
  <2>5. KeepLast(t, Cap) \in Seq(Message) /\ Range(KeepLast(t, Cap)) \subseteq Range(t)
    BY <1>1, KeepLastType, KeepLastEnd, EndRange, Distinct
  <2> QED
    BY <1>1, <2>1, <2>4, <2>5 DEF t
<1> QED
  BY <1>2, <1>3

LEMMA SafeJobs ==
    ASSUME ControlInv, SafeInv, Next
    PROVE  \A j \in Jobs' : Question(j.id) \in Safe'
<1>1. Safe \subseteq Safe' /\ \A j \in Jobs' : (\E i \in Jobs : i.id = j.id) \/ NewJob(j.id)
  BY SafeGrows, JobsFrom
<1>2. ASSUME NEW q, NewJob(q)
      PROVE  Question(q) \in Safe
  <2>0. PICK p \in Conns \cup {"poller"} : \E m \in doing[p] :
           m.of = q /\ m.try = 0 /\ pc[p] \in {"enqueue", "queue"}
    BY <1>2 DEF NewJob
  <2>1. PICK m \in doing[p] : m.of = q /\ m.try = 0 /\ pc[p] \in {"enqueue", "queue"}
    BY <2>0
  <2>2. p \in Goroutines /\ m \in Message /\ m = Question(q) /\ q \in Questions
    BY <2>1, Distinct, QuestionOf DEF ControlInv, StateTypes, ProcessTypeOK
  <2>3. CASE p \in Conns
    BY <2>1, <2>2, <2>3 DEF SafeInv
  <2>4. CASE p = "poller"
    BY <2>1, <2>2, <2>4 DEF SafeInv, ControlInv, Hands, PollerHands
  <2> QED
    BY <2>3, <2>4
<1> QED
  BY <1>1, <1>2 DEF SafeInv

LEMMA SafeStages ==
    ASSUME ControlInv, SafeInv, Next
    PROVE  \A q \in Questions : stage'[q] # "absent" => Question(q) \in Safe'
<1>1. CASE \A q \in Questions : stage'[q] # "absent" => stage[q] # "absent"
  BY <1>1, SafeGrows DEF SafeInv
<1>2. CASE stage' = stage
  BY <1>1, <1>2
<1>3. CASE \E q \in Questions : TakeUpdate(q)
  <2>1. PICK q \in Questions : TakeUpdate(q)
    BY <1>3
  <2>2. CASE stage'[q] # "absent" /\ stage[q] = "absent"
    <3>1. /\ stored' = KeepLast(Append(stored, Question(q)), Cap)
          /\ stage' = [stage EXCEPT ![q] = "message"]
      BY <2>1, <2>2 DEF TakeUpdate
    <3>2. Question(q) \in Range(stored')
      BY <3>1, LastStays, QuestionType DEF ControlInv, StateTypes, StoreTypeOK
    <3>3. \A r \in Questions \ {q} : stage'[r] = stage[r]
      BY <3>1 DEF ControlInv, StateTypes, StoreTypeOK
    <3> QED
      BY <3>2, <3>3, SafeGrows DEF Safe, SafeInv
  <2>3. CASE ~(stage'[q] # "absent" /\ stage[q] = "absent")
    <3>1. \A r \in Questions \ {q} : stage'[r] = stage[r]
      BY <2>1 DEF TakeUpdate, ControlInv, StateTypes, StoreTypeOK
    <3> QED
      BY <1>1, <2>3, <3>1
  <2> QED
    BY <2>2, <2>3
<1>4. CASE SubmitStats \/ EnqueueTelegram \/ Complete
  <2>1. PICK step \in {"stats", "queue", "complete"}, next \in Stages, o \in Outcome : Advance(step, next, o)
    <3>1. {"stats", "job", "complete"} \subseteq Stages
      BY DEF Stages
    <3>2. CASE SubmitStats
      BY <3>1, <3>2 DEF SubmitStats
    <3>3. CASE EnqueueTelegram
      BY <3>1, <3>3 DEF EnqueueTelegram
    <3>4. CASE Complete
      BY <3>1, <3>4 DEF Complete
    <3> QED
      BY <1>4, <3>2, <3>3, <3>4
  <2>2. PICK m \in doing["poller"] : stage' = [stage EXCEPT ![m.of] = next] \/ stage' = stage
    BY <2>1 DEF Advance
  <2>3. stage[m.of] # "absent"
    BY <2>1, <2>2 DEF ControlInv, Hands, PollerHands
  <2> QED
    BY <1>1, <2>2, <2>3 DEF ControlInv, StateTypes, StoreTypeOK
<1>5. CASE \E p \in Goroutines : WriteFrame(p) \/ Show(p)
  BY <1>2, <1>5 DEF WriteFrame, Show, store
<1>6. CASE \E p \in Writers : Persist(p) \/ Trim(p)
  BY <1>2, <1>6 DEF Persist, Trim
<1>7. ASSUME NEW c \in Conns,
             \/ \E q \in Questions : Ask(c, q)
             \/ CountQuery(c) \/ Enqueue(c) \/ Clear(c) \/ Delete(c) \/ Reset(c)
             \/ Stop(c) \/ Connect(c) \/ Snapshot(c) \/ Greet(c) \/ Disconnect(c)
      PROVE  stage' = stage
  BY <1>7 DEF Ask, CountQuery, Enqueue, Clear, Delete, Reset, Stop, Connect, Snapshot, Greet,
     Join, Disconnect, store
<1>8. CASE \/ EnsureMessageMemory \/ Acquire \/ Prompt \/ Reply \/ Fail \/ Deliver \/ Settle
           \/ LoadHistory \/ AdoptHistory \/ Boot \/ Crash
  BY <1>2, <1>8 DEF EnsureMessageMemory, Acquire, Prompt, Reply, Fail, Deliver, Settle, LoadHistory,
     AdoptHistory, Boot, Crash, store
<1> QED
  BY <1>2, <1>3, <1>4, <1>5, <1>6, <1>7, <1>8, Actions

LEMMA SafeHands ==
    ASSUME ControlInv, SafeInv, Next
    PROVE  \A p \in Writers : pc'[p] # "persist" => doing'[p] \subseteq Safe'
<1>1. CASE \A p \in Writers : \/ pc'[p] = "persist"
                              \/ doing'[p] \subseteq doing[p] /\ pc[p] # "persist"
                              \/ doing'[p] \subseteq Range(stored') \cup past'.refused
  BY <1>1, SafeGrows DEF SafeInv, Safe, Writers
<1>2. CASE pc' = pc /\ doing' = doing
  BY <1>1, <1>2
<1>3. CASE \E p \in Goroutines : WriteFrame(p) \/ Show(p)
  <2>1. PICK p \in Goroutines : WriteFrame(p) \/ Show(p)
    BY <1>3
  <2>2. doing' = doing /\ \A r \in Goroutines : pc'[r] = pc[r] \/ pc[r] = "show"
    BY <2>1 DEF WriteFrame, Show, At, ControlInv, StateTypes
  <2> QED
    BY <1>1, <2>2, Distinct DEF Writers
<1>4. CASE \E p \in Writers : Persist(p) \/ Trim(p)
  <2>1. PICK p \in Writers : Persist(p) \/ Trim(p)
    BY <1>4
  <2>2. doing' = doing /\ \A r \in Goroutines : pc'[r] = pc[r] \/ r = p
    BY <2>1 DEF Persist, Trim, ControlInv, StateTypes
  <2>3. pc[p] # "persist" \/ doing[p] \subseteq Range(stored') \cup past'.refused
    <3>1. CASE Trim(p)
      BY <3>1 DEF Trim, At
    <3>2. CASE Persist(p)
      <4>1. PICK o \in Outcome, m \in doing[p] :
               /\ stored' = IF Applied(o) THEN Append(stored, m) ELSE stored
               /\ past' = IF Applied(o) THEN past ELSE [past EXCEPT !.refused = @ \cup {m}]
        BY <3>2 DEF Persist
      <4>2. p \in Goroutines /\ m \in Message /\ \A n \in doing[p] : n = m
        BY Distinct DEF Writers, ControlInv, Hands, OneInHand, StateTypes, ProcessTypeOK
      <4>3. Applied(o) => m \in Range(stored')
        <5>1. stored \in Seq(Message)
          BY DEF ControlInv, StateTypes, StoreTypeOK
        <5>2. m \in Range(Append(stored, m))
          BY <4>2, <5>1, AppendRange
        <5> QED
          BY <4>1, <5>2
      <4>4. ~Applied(o) => m \in past'.refused
        BY <4>1 DEF ControlInv, StateTypes, Past
      <4> QED
        BY <4>2, <4>3, <4>4
    <3> QED
      BY <2>1, <3>1, <3>2
  <2> QED
    BY <1>1, <2>2, <2>3, Distinct DEF Writers
<1>5. ASSUME NEW c \in Conns,
             \/ \E q \in Questions : Ask(c, q)
             \/ CountQuery(c) \/ Enqueue(c) \/ Clear(c) \/ Delete(c) \/ Reset(c)
      PROVE  \A p \in Writers : pc'[p] # "persist" => doing'[p] \subseteq Safe'
  <2>1. \A r \in Goroutines \ {c} : pc'[r] = pc[r] /\ doing'[r] = doing[r]
    BY <1>5 DEF Ask, CountQuery, Enqueue, Clear, Delete, Reset, ControlInv, StateTypes, ProcessTypeOK
  <2>2. pc'[c] = "persist" \/ (doing'[c] \subseteq doing[c] /\ pc[c] # "persist")
    BY <1>5, Distinct DEF Ask, CountQuery, Enqueue, Clear, Delete, Reset, At, ControlInv, StateTypes, ProcessTypeOK
  <2> QED
    <3>1. \A p \in Writers : p = c \/ p \in Goroutines \ {c}
      BY Distinct DEF Writers
    <3> QED
      BY <2>1, <2>2, <3>1, SafeGrows DEF SafeInv, Writers
<1>6. ASSUME NEW c \in Conns, Stop(c) \/ Connect(c) \/ Snapshot(c) \/ Greet(c) \/ Disconnect(c)
      PROVE  pc' = pc /\ doing' = doing
  BY <1>6 DEF Stop, Connect, Snapshot, Greet, Join, Disconnect, process
<1>7. CASE \/ \E q \in Questions : TakeUpdate(q)
           \/ EnsureMessageMemory \/ SubmitStats \/ EnqueueTelegram \/ Complete
  <2>1. /\ \E s : pc' = [pc EXCEPT !["poller"] = s] \/ pc' = pc
        /\ \E s : doing' = [doing EXCEPT !["poller"] = s] \/ doing' = doing
    BY <1>7 DEF TakeUpdate, EnsureMessageMemory, SubmitStats, EnqueueTelegram, Complete, GiveUp
  <2>2. \A p \in Writers : pc'[p] = pc[p] /\ doing'[p] = doing[p]
    BY <2>1, Distinct DEF Writers, ControlInv, StateTypes, ProcessTypeOK
  <2> QED
    BY <1>1, <2>2
<1>8. CASE Acquire \/ Prompt \/ Reply \/ Fail \/ Deliver \/ Settle
  <2>1. \A c \in Conns : pc'[c] = pc[c] /\ doing'[c] = doing[c]
    BY <1>8, Distinct DEF Acquire, Prompt, Reply, Fail, Deliver, Settle, ControlInv, StateTypes, ProcessTypeOK
  <2>2. pc'["worker"] = "persist" \/ (doing'["worker"] \subseteq doing["worker"] /\ pc["worker"] # "persist")
    BY <1>8, Distinct DEF Acquire, Prompt, Reply, Fail, Deliver, Settle, At, ControlInv, StateTypes, ProcessTypeOK
  <2> QED
    BY <1>1, <2>1, <2>2 DEF Writers
<1>9. CASE LoadHistory \/ AdoptHistory \/ Boot
  BY <1>2, <1>9 DEF LoadHistory, AdoptHistory, Boot
<1>10. CASE Crash
  BY <1>1, <1>10, Distinct DEF Crash, Writers
<1> QED
  BY <1>2, <1>3, <1>4, <1>5, <1>6, <1>7, <1>8, <1>9, <1>10, Actions

LEMMA SafeShown ==
    ASSUME ControlInv, SafeInv, Next
    PROVE  past'.shown \subseteq Safe'
<1>1. CASE past'.shown = past.shown
  BY <1>1, SafeGrows DEF SafeInv
<1>2. CASE past' = past
  BY <1>1, <1>2
<1>3. CASE \E s : \/ past' = [past EXCEPT !.refused = @ \cup s]
                  \/ past' = [past EXCEPT !.asked = @ \cup s]
                  \/ past' = [past EXCEPT !.uncounted = @ \cup s]
                  \/ past' = [past EXCEPT !.ended = @ \cup s]
                  \/ \E t : past' = [past EXCEPT !.uncounted = @ \cup s, !.cut = t]
  BY <1>1, <1>3 DEF ControlInv, StateTypes, Past
<1>4. ASSUME NEW p \in Goroutines, past'.shown \subseteq past.shown \cup doing[p],
             pc[p] \in {"show", "deliver"}
      PROVE  past'.shown \subseteq Safe'
  <2>1. doing[p] \subseteq Safe
    <3>1. CASE p \in Writers
      BY <1>4, <3>1 DEF SafeInv, Writers
    <3>2. CASE p = "poller"
      <4>1. ASSUME NEW m \in doing["poller"]
            PROVE  m \in Safe
        <5>1. m \in Message /\ m.try = 0 /\ stage[m.of] # "absent"
          BY <1>4, <3>2, <4>1 DEF ControlInv, Hands, PollerHands, StateTypes, ProcessTypeOK
        <5> QED
          BY <5>1, QuestionOf DEF SafeInv
      <4> QED
        BY <3>2, <4>1
    <3> QED
      BY <3>1, <3>2 DEF Goroutines, Writers
  <2> QED
    BY <1>4, <2>1, SafeGrows DEF SafeInv
<1>5. CASE \E p \in Goroutines : WriteFrame(p)
  BY <1>2, <1>5 DEF WriteFrame
<1>6. CASE \E p \in Goroutines : Show(p)
  <2>1. PICK p \in Goroutines : Show(p)
    BY <1>6
  <2>2. past'.shown = past.shown \cup doing[p]
    BY <2>1 DEF Show, ControlInv, StateTypes, Past
  <2> QED
    BY <1>4, <2>1, <2>2 DEF Show, At
<1>7. CASE \E p \in Writers : Persist(p) \/ Trim(p)
  BY <1>2, <1>3, <1>7 DEF Persist, Trim
<1>8. ASSUME NEW c \in Conns,
             \/ \E q \in Questions : Ask(c, q)
             \/ CountQuery(c) \/ Enqueue(c) \/ Clear(c) \/ Delete(c) \/ Reset(c)
             \/ Stop(c) \/ Connect(c) \/ Snapshot(c) \/ Greet(c) \/ Disconnect(c)
      PROVE  past'.shown = past.shown
  <2>1. past' = past \/ \E s : \/ past' = [past EXCEPT !.asked = @ \cup s]
                               \/ past' = [past EXCEPT !.uncounted = @ \cup s]
    BY <1>8 DEF Ask, CountQuery, Enqueue, Clear, Delete, Reset, Stop, Connect, Snapshot, Greet,
       Join, Disconnect
  <2> QED
    BY <2>1 DEF ControlInv, StateTypes, Past
<1>9. CASE \/ \E q \in Questions : TakeUpdate(q)
           \/ EnsureMessageMemory \/ SubmitStats \/ EnqueueTelegram \/ Complete
  BY <1>2, <1>3, <1>9 DEF TakeUpdate, EnsureMessageMemory, SubmitStats, EnqueueTelegram, Complete, Advance
<1>10. CASE Acquire \/ Prompt \/ Reply \/ Fail \/ LoadHistory \/ AdoptHistory
  BY <1>2, <1>10 DEF Acquire, Prompt, Reply, Fail, LoadHistory, AdoptHistory
<1>11. CASE Deliver
  <2>1. past' = past \/ \E s : past' = [past EXCEPT !.delivered = @ \cup s, !.shown = @ \cup doing["worker"]]
    BY <1>11 DEF Deliver
  <2>2. past'.shown \subseteq past.shown \cup doing["worker"]
    BY <2>1 DEF ControlInv, StateTypes, Past
  <2> QED
    BY <1>4, <1>11, <2>2, Distinct DEF Deliver, At
<1>12. CASE Settle
  BY <1>1, <1>12, NackedAsked DEF Settle, ControlInv
<1>13. CASE Boot
  BY <1>1, <1>2, <1>13, NackedAsked DEF Boot, ControlInv
<1>14. CASE Crash
  BY <1>1, <1>14 DEF Crash, ControlInv, StateTypes, Past
<1> QED
  BY <1>5, <1>6, <1>7, <1>1, <1>8, <1>9, <1>10, <1>11, <1>12, <1>13, <1>14, Actions

LEMMA SafeNext ==
    ASSUME ControlInv, SafeInv, Next
    PROVE  SafeInv'
BY SafeJobs, SafeStages, SafeHands, SafeShown DEF SafeInv, Writers

-----------------------------------------------------------------------------
(* Memory.                                                                 *)

LEMMA MindRange ==
    ASSUME StateTypes
    PROVE  /\ entries \o memory \in Seq(Message)
           /\ Range(entries \o memory) = Range(entries) \cup Range(memory)
           /\ Len(entries \o memory) = Len(entries) + Len(memory)
           /\ Len(entries) \in Nat /\ Len(memory) \in Nat
BY ConcatProperties, RangeConcatenation DEF StateTypes, ProcessTypeOK

LEMMA MindKept ==
    ASSUME StateTypes, StateTypes', Watch, up',
           \/ Range(entries) \cup Range(memory) \subseteq Range(entries') \cup Range(memory')
           \/ Len(entries) + Len(memory) >= Cap
           \/ \E c \in Conns : ClearStep(c)
    PROVE  InMind \subseteq InMind'
<1>1. /\ Range(entries \o memory) = Range(entries) \cup Range(memory)
      /\ Range(entries' \o memory') = Range(entries') \cup Range(memory')
      /\ Len(entries \o memory) = Len(entries) + Len(memory)
  <2>1. entries' \in Seq(Message) /\ memory' \in Seq(Message)
    BY DEF StateTypes, ProcessTypeOK
  <2> QED
    BY <2>1, MindRange, RangeConcatenation
<1> DEFINE case == Len(entries \o memory) >= Cap \/ \E c \in Conns : ClearStep(c)
<1>2. seen'.wiped = IF case THEN seen.wiped \cup (Range(entries \o memory) \ Range(entries' \o memory'))
                    ELSE seen.wiped
  BY DEF Watch
<1>3. CASE case
  BY <1>1, <1>2, <1>3 DEF InMind
<1>4. CASE ~case
  <2>1. Range(entries) \cup Range(memory) \subseteq Range(entries') \cup Range(memory')
    BY <1>1, <1>4
  <2>2. seen'.wiped = seen.wiped
    BY <1>2, <1>4
  <2> QED
    BY <2>1, <2>2 DEF InMind
<1> QED
  BY <1>3, <1>4

LEMMA MindGrows ==
    ASSUME ControlInv, Next, up'
    PROVE  InMind \subseteq InMind'
<1>1. StateTypes /\ StateTypes' /\ Watch
  BY ControlNext DEF ControlInv, Next
<1>2. CASE UNCHANGED <<memory, entries>>
  BY <1>1, <1>2, MindKept
<1>3. ASSUME NEW m \in Message, memory' = Remembered(m), entries' = entries
      PROVE  InMind \subseteq InMind'
  <2>1. memory \in Seq(Message) /\ Len(memory) \in Nat /\ Len(entries) \in Nat /\ Cap \in Nat
    BY <1>1, MindRange, Distinct DEF StateTypes, ProcessTypeOK
  <2>2. Len(memory) < Cap => Range(memory) \subseteq Range(memory')
    BY <1>3, <2>1, LastStays DEF Remembered
  <2>3. Len(memory) < Cap \/ Len(entries) + Len(memory) >= Cap
    BY <2>1
  <2> QED
    BY <1>1, <1>3, <2>2, <2>3, MindKept
<1>4. CASE \E p \in Goroutines : WriteFrame(p) \/ Show(p)
  BY <1>2, <1>4 DEF WriteFrame, Show
<1>5. CASE \E p \in Writers : Persist(p) \/ Trim(p)
  BY <1>2, <1>5 DEF Persist, Trim
<1>6. ASSUME NEW c \in Conns, NEW q \in Questions, Ask(c, q)
      PROVE  InMind \subseteq InMind'
  BY <1>3, <1>6, QuestionType DEF Ask
<1>7. ASSUME NEW c \in Conns,
             \/ CountQuery(c) \/ Enqueue(c) \/ Delete(c) \/ Reset(c)
             \/ Stop(c) \/ Connect(c) \/ Snapshot(c) \/ Greet(c) \/ Disconnect(c)
      PROVE  UNCHANGED <<memory, entries>>
  BY <1>7 DEF CountQuery, Enqueue, Delete, Reset, Stop, Connect, Snapshot, Greet,
     Join, Disconnect, process
<1>8. ASSUME NEW c \in Conns, Clear(c)
      PROVE  InMind \subseteq InMind'
  <2>1. ClearStep(c)
    BY <1>8, Distinct DEF Clear, At, ClearStep, ControlInv, StateTypes
  <2> QED
    BY <1>1, <2>1, MindKept
<1>9. CASE EnsureMessageMemory
  <2>1. PICK m \in doing["poller"] : memory' = memory \/ memory' = Remembered(m)
    BY <1>9 DEF EnsureMessageMemory
  <2>2. m \in Message /\ entries' = entries
    BY <1>9, Distinct DEF EnsureMessageMemory, ControlInv, StateTypes, ProcessTypeOK
  <2> QED
    BY <1>2, <1>3, <2>1, <2>2
<1>10. CASE \/ \E q \in Questions : TakeUpdate(q)
            \/ SubmitStats \/ EnqueueTelegram \/ Complete
  BY <1>2, <1>10 DEF TakeUpdate, SubmitStats, EnqueueTelegram, Complete, Advance
<1>11. CASE Acquire \/ Prompt \/ Fail \/ Deliver \/ Settle \/ Boot
  BY <1>2, <1>11 DEF Acquire, Prompt, Fail, Deliver, Settle, Boot
<1>12. CASE Reply
  <2>1. [of |-> job.id, try |-> job.attempts + 1] \in Message
    <3>1. job \in Job
      BY <1>12 DEF Reply, At, ControlInv, Hands, WorkerHands, StateTypes
    <3> QED
      BY <3>1 DEF Job, Message
  <2> QED
    BY <1>3, <1>12, <2>1 DEF Reply
<1>13. CASE LoadHistory
  <2>1. entries = <<>>
    BY <1>13 DEF LoadHistory, ControlInv, DownInv
  <2>2. Range(entries) = {} /\ memory' = memory
    BY <1>13, <2>1 DEF Range, LoadHistory
  <2> QED
    BY <1>1, <2>2, MindKept
<1>14. CASE AdoptHistory
  <2>1. memory' = KeepLast(entries \o memory, Cap) /\ entries' = <<>>
    BY <1>14 DEF AdoptHistory
  <2>2. CASE Len(entries \o memory) <= Cap
    <3>1. memory' = entries \o memory
      BY <2>1, <2>2 DEF KeepLast
    <3> QED
      BY <1>1, <3>1, MindRange, MindKept
  <2>3. CASE ~(Len(entries \o memory) <= Cap)
    <3>1. Len(entries) + Len(memory) >= Cap
      BY <1>1, <2>3, MindRange, Distinct
    <3> QED
      BY <1>1, <3>1, MindKept
  <2> QED
    BY <2>2, <2>3
<1>15. CASE Crash
  BY <1>15 DEF Crash
<1> QED
  BY <1>2, <1>4, <1>5, <1>6, <1>7, <1>8, <1>9, <1>10, <1>11, <1>12, <1>13, <1>14, <1>15, Actions

LEMMA MindJobs ==
    ASSUME ControlInv, SafeInv, MindInv, Next, load' # "ask"
    PROVE  \A j \in Jobs' : Question(j.id) \in InMind' \cup past'.refused \cup seen'.erased
<1>1. up'
  BY ControlNext DEF ControlInv, DownInv
<1>2. CASE load # "ask"
  <2>1. /\ InMind \subseteq InMind' /\ past.refused \subseteq past'.refused
        /\ seen.erased \subseteq seen'.erased
    BY <1>1, MindGrows, PastGrows, Seeing DEF ControlInv, Next
  <2>2. ASSUME NEW q, NewJob(q)
        PROVE  Question(q) \in InMind
    <3>1. PICK p \in Conns \cup {"poller"} : \E m \in doing[p] :
             m.of = q /\ m.try = 0 /\ pc[p] \in {"enqueue", "queue"}
      BY <2>2 DEF NewJob
    <3>2. PICK m \in doing[p] : m.of = q /\ m.try = 0 /\ pc[p] \in {"enqueue", "queue"}
      BY <3>1
    <3>3. m = Question(q)
      <4>1. p \in Goroutines
        BY Distinct
      <4> QED
        BY <3>2, <4>1, QuestionOf DEF ControlInv, StateTypes, ProcessTypeOK
    <3> QED
      BY <3>1, <3>2, <3>3 DEF MindInv
  <2> QED
    BY <1>2, <2>1, <2>2, JobsFrom DEF MindInv
<1>3. CASE load = "ask"
  <2>1. load' = load \/ LoadHistory \/ AdoptHistory
    <3>1. CASE \E p \in Goroutines : WriteFrame(p) \/ Show(p)
      BY <3>1 DEF WriteFrame, Show
    <3>2. CASE \E p \in Writers : Persist(p) \/ Trim(p)
      BY <3>2 DEF Persist, Trim
    <3>3. ASSUME NEW c \in Conns,
                 \/ \E q \in Questions : Ask(c, q)
                 \/ CountQuery(c) \/ Enqueue(c) \/ Clear(c) \/ Delete(c) \/ Reset(c)
                 \/ Stop(c) \/ Connect(c) \/ Snapshot(c) \/ Greet(c) \/ Disconnect(c)
          PROVE  load' = load
      BY <3>3 DEF Ask, CountQuery, Enqueue, Clear, Delete, Reset, Stop, Connect, Snapshot, Greet,
         Join, Disconnect, process
    <3>4. CASE \/ \E q \in Questions : TakeUpdate(q)
               \/ EnsureMessageMemory \/ SubmitStats \/ EnqueueTelegram \/ Complete
      BY <3>4 DEF TakeUpdate, EnsureMessageMemory, SubmitStats, EnqueueTelegram, Complete, Advance
    <3>5. CASE Acquire \/ Prompt \/ Reply \/ Fail \/ Deliver \/ Settle \/ Boot
      BY <3>5 DEF Acquire, Prompt, Reply, Fail, Deliver, Settle, Boot
    <3>6. CASE Crash
      BY <1>1, <3>6 DEF Crash
    <3> QED
      BY <3>1, <3>2, <3>3, <3>4, <3>5, <3>6, Actions
  <2>2. entries' = stored /\ stored' = stored
    BY <1>3, <2>1 DEF LoadHistory, AdoptHistory, store
  <2> QED
    BY <2>2, SafeJobs DEF Safe, InMind
<1> QED
  BY <1>2, <1>3

\* The message in the hands of a goroutine that shows or counts it is in mind.
LEMMA MindHands ==
    ASSUME ControlInv, MindInv, Next
    PROVE  /\ \A c \in Conns : doing'[c] \subseteq InMind'
           /\ pc'["poller"] # "remember" => doing'["poller"] \subseteq InMind'
<1>2. up' => InMind \subseteq InMind'
  BY MindGrows
<1>3. CASE Crash
  BY <1>3, Distinct DEF Crash
<1>4. ASSUME up', doing' = doing, pc'["poller"] = pc["poller"] \/ pc["poller"] # "remember"
      PROVE  /\ \A c \in Conns : doing'[c] \subseteq InMind'
             /\ pc'["poller"] # "remember" => doing'["poller"] \subseteq InMind'
  BY <1>2, <1>4 DEF MindInv
<1>5. CASE \E p \in Goroutines : WriteFrame(p) \/ Show(p)
  <2>1. PICK p \in Goroutines : WriteFrame(p) \/ Show(p)
    BY <1>5
  <2>2. doing' = doing /\ (pc'["poller"] = pc["poller"] \/ pc["poller"] # "remember")
    BY <2>1, Distinct DEF WriteFrame, Show, At, ControlInv, StateTypes
  <2>3. up'
    <3>1. CASE Show(p)
      BY <3>1 DEF Show, At
    <3>2. CASE WriteFrame(p)
      BY <3>2 DEF WriteFrame, ControlInv, DownInv
    <3> QED
      BY <2>1, <3>1, <3>2
  <2> QED
    BY <1>4, <2>2, <2>3
<1>6. CASE \E p \in Writers : Persist(p) \/ Trim(p)
  <2>1. PICK p \in Writers : Persist(p) \/ Trim(p)
    BY <1>6
  <2>2. p \in Goroutines /\ p # "poller"
    BY Distinct DEF Writers
  <2>3. \E step : Goto(p, step)
    BY <2>1 DEF Persist, Trim
  <2>4. pc'["poller"] = pc["poller"]
    BY <2>2, <2>3, Distinct DEF ControlInv, StateTypes
  <2>5. up /\ up' = up /\ doing' = doing
    BY <2>1 DEF Persist, Trim, At
  <2> QED
    BY <1>4, <2>4, <2>5
<1>7. ASSUME NEW c \in Conns, NEW q \in Questions, Ask(c, q)
      PROVE  /\ \A d \in Conns : doing'[d] \subseteq InMind'
             /\ pc'["poller"] # "remember" => doing'["poller"] \subseteq InMind'
  <2>1. Question(q) \in Range(memory')
    BY <1>7, LastStays, QuestionType DEF Ask, Remembered, ControlInv, StateTypes, ProcessTypeOK
  <2>2. /\ doing'[c] = {Question(q)} /\ \A r \in Goroutines \ {c} : doing'[r] = doing[r] /\ pc'[r] = pc[r]
        /\ up'
    BY <1>7, Distinct DEF Ask, At, ControlInv, StateTypes, ProcessTypeOK
  <2> QED
    BY <1>2, <2>1, <2>2, Distinct DEF MindInv, InMind
<1>8. ASSUME NEW c \in Conns,
             CountQuery(c) \/ Enqueue(c) \/ Clear(c) \/ Delete(c) \/ Reset(c)
      PROVE  /\ \A d \in Conns : doing'[d] \subseteq InMind'
             /\ pc'["poller"] # "remember" => doing'["poller"] \subseteq InMind'
  <2>1. up' /\ \A r \in Goroutines \ {c} : doing'[r] = doing[r] /\ pc'[r] = pc[r]
    BY <1>8, Distinct DEF CountQuery, Enqueue, Clear, Delete, Reset, At, ControlInv, StateTypes, ProcessTypeOK
  <2>2. doing'[c] \subseteq doing[c]
    BY <1>8, Distinct DEF CountQuery, Enqueue, Clear, Delete, Reset, ControlInv, StateTypes, ProcessTypeOK
  <2> QED
    BY <1>2, <2>1, <2>2, Distinct DEF MindInv
<1>9. ASSUME NEW c \in Conns, Stop(c) \/ Connect(c) \/ Snapshot(c) \/ Greet(c) \/ Disconnect(c)
      PROVE  /\ \A d \in Conns : doing'[d] \subseteq InMind'
             /\ pc'["poller"] # "remember" => doing'["poller"] \subseteq InMind'
  <2>1. up' /\ doing' = doing /\ pc' = pc
    BY <1>9 DEF Stop, Connect, Snapshot, Greet, Join, Disconnect, At, process
  <2> QED
    BY <1>4, <2>1
<1>10. CASE \/ \E q \in Questions : TakeUpdate(q)
            \/ EnsureMessageMemory \/ SubmitStats \/ EnqueueTelegram \/ Complete
  <2>1. up' /\ \A c \in Conns : doing'[c] = doing[c]
    <3>1. \E s : doing' = [doing EXCEPT !["poller"] = s] \/ doing' = doing
      BY <1>10 DEF TakeUpdate, EnsureMessageMemory, SubmitStats, EnqueueTelegram, Complete, GiveUp
    <3>2. up'
      <4>1. ASSUME NEW q \in Questions, TakeUpdate(q)
            PROVE  up'
        <5>1. up /\ up' = up
          BY <4>1 DEF TakeUpdate, At
        <5> QED
          BY <5>1
      <4>2. CASE EnsureMessageMemory
        BY <4>2 DEF EnsureMessageMemory, At
      <4>3. ASSUME NEW step, NEW next, NEW o, Advance(step, next, o)
            PROVE  up'
        <5>1. up /\ up' = up
          BY <4>3 DEF Advance, At
        <5> QED
          BY <5>1
      <4>4. CASE SubmitStats \/ EnqueueTelegram \/ Complete
        BY <4>3, <4>4 DEF SubmitStats, EnqueueTelegram, Complete
      <4> QED
        BY <1>10, <4>1, <4>2, <4>4
    <3> QED
      BY <3>1, <3>2, Distinct DEF ControlInv, StateTypes, ProcessTypeOK
  <2>2. pc'["poller"] # "remember" => doing'["poller"] \subseteq InMind'
    <3>1. CASE \E q \in Questions : TakeUpdate(q)
      <4>1. pc'["poller"] = "remember" \/ (pc' = pc /\ doing' = doing)
        BY <3>1, Distinct DEF TakeUpdate, ControlInv, StateTypes
      <4> QED
        BY <1>2, <2>1, <4>1 DEF MindInv
    <3>2. CASE EnsureMessageMemory
      <4>1. PICK m \in doing["poller"] :
               IF m \in Range(memory) THEN UNCHANGED memory ELSE memory' = Remembered(m)
        BY <3>2 DEF EnsureMessageMemory
      <4>2. m \in Message /\ memory \in Seq(Message) /\ doing' = doing /\ \A n \in doing["poller"] : n = m
        BY <3>2, Distinct DEF EnsureMessageMemory, ControlInv, Hands, OneInHand, StateTypes, ProcessTypeOK
      <4>3. m \in Range(memory')
        BY <4>1, <4>2, LastStays DEF Remembered
      <4> QED
        BY <4>2, <4>3 DEF InMind
    <3>3. CASE SubmitStats \/ EnqueueTelegram \/ Complete
      <4>1. pc["poller"] # "remember" /\ doing'["poller"] \subseteq doing["poller"]
        BY <3>3, Distinct DEF SubmitStats, EnqueueTelegram, Complete, Advance, At, GiveUp,
           ControlInv, StateTypes, ProcessTypeOK
      <4> QED
        BY <1>2, <2>1, <4>1 DEF MindInv
    <3> QED
      BY <1>10, <3>1, <3>2, <3>3
  <2> QED
    BY <1>2, <2>1, <2>2 DEF MindInv
<1>11. CASE Acquire \/ Prompt \/ Reply \/ Fail \/ Deliver \/ Settle
  <2>1. up'
    BY <1>11 DEF Acquire, Prompt, Reply, Fail, Deliver, Settle, At
  <2>2. \A r \in Goroutines \ {"worker"} : doing'[r] = doing[r] /\ pc'[r] = pc[r]
    BY <1>11, Distinct DEF Acquire, Prompt, Reply, Fail, Deliver, Settle, ControlInv, StateTypes, ProcessTypeOK
  <2> QED
    BY <1>2, <2>1, <2>2, Distinct DEF MindInv
<1>12. CASE LoadHistory \/ AdoptHistory \/ Boot
  <2>1. up' /\ doing' = doing /\ pc' = pc
    BY <1>12 DEF LoadHistory, AdoptHistory, Boot
  <2> QED
    BY <1>4, <2>1
<1> QED
  BY <1>3, <1>5, <1>6, <1>7, <1>8, <1>9, <1>10, <1>11, <1>12, Actions

LEMMA MindNext ==
    ASSUME ControlInv, SafeInv, MindInv, Next
    PROVE  MindInv'
BY MindJobs, MindHands DEF MindInv

-----------------------------------------------------------------------------
(* The statistic.                                                          *)

\* The questions the statistic has to cover.
Covered == {q \in Questions \ (Counting \cup past.uncounted) : Stored(Question(q))}

LEMMA AskersFinite ==
    ASSUME NEW s \in Seq(Message), NEW S,
           \A q \in S : q \in Questions /\ Question(q) \in Range(s)
    PROVE  IsFiniteSet(S) /\ Cardinality(S) \in Nat
<1>1. Len(s) \in Nat /\ Range(s) = {s[i] : i \in 1..Len(s)}
  BY LenProperties, RangeEquality
<1> DEFINE askers == {s[i].of : i \in 1..Len(s)}
           at == [i \in 1..Len(s) |-> s[i].of]
<1>2. IsFiniteSet(1..Len(s))
  BY <1>1, FS_Interval
<1>3. at \in Surjection(1..Len(s), askers)
  BY DEF Surjection
<1>4. IsFiniteSet(askers)
  BY <1>2, <1>3, FS_Surjection
<1>5. S \in SUBSET askers
  <2> SUFFICES ASSUME NEW q \in S
               PROVE  q \in askers
    OBVIOUS
  <2>1. PICK i \in 1..Len(s) : s[i] = Question(q)
    BY <1>1
  <2>2. s[i].of = q
    BY <2>1, QuestionType
  <2> QED
    BY <2>2
<1> HIDE DEF askers
<1> QED
  BY <1>4, <1>5, FS_Subset, FS_CardinalityType

\* One question more, and the statistic with it, or none.
LEMMA CoverStep ==
    ASSUME StateTypes, StateTypes', QueriesCover, NEW X,
           (X = {} /\ queries' = queries) \/ \E x : X = {x} /\ queries' = queries + 1,
           past.uncounted \subseteq past'.uncounted,
           Counting \subseteq Counting' \cup past'.uncounted \cup X,
           \A q \in Questions : Stored(Question(q))' => Stored(Question(q)) \/ q \in Counting'
    PROVE  QueriesCover'
<1>1. Covered' \subseteq Covered \cup X
  <2> SUFFICES ASSUME NEW q \in Covered', q \notin X
               PROVE  q \in Covered
    OBVIOUS
  <2>1. q \in Questions /\ q \notin Counting' /\ q \notin past'.uncounted /\ Stored(Question(q))'
    BY DEF Covered
  <2>2. Stored(Question(q))
    BY <2>1
  <2>3. q \notin Counting
    BY <2>1
  <2>4. q \notin past.uncounted
    BY <2>1
  <2> QED
    BY <2>1, <2>2, <2>3, <2>4 DEF Covered
<1>2. IsFiniteSet(Covered) /\ Cardinality(Covered) \in Nat /\ Cardinality(Covered) <= queries
  <2>1. stored \in Seq(Message) /\ \A q \in Covered : q \in Questions /\ Question(q) \in Range(stored)
    BY DEF StateTypes, StoreTypeOK, Covered, Stored
  <2>2. Cardinality(Covered) <= queries
    BY DEF QueriesCover, Covered
  <2> QED
    BY <2>1, <2>2, AskersFinite
<1>3. IsFiniteSet(Covered') /\ Cardinality(Covered') \in Nat
  <2>1. stored' \in Seq(Message) /\ \A q \in Covered' : q \in Questions /\ Question(q) \in Range(stored')
    BY DEF StateTypes, StoreTypeOK, Covered, Stored
  <2> QED
    BY <2>1, AskersFinite
<1>4. queries \in Nat
  BY DEF StateTypes, StoreTypeOK
<1>5. CASE X = {} /\ queries' = queries
  <2>1. Covered' \in SUBSET Covered
    BY <1>1, <1>5
  <2>2. Cardinality(Covered') <= Cardinality(Covered)
    BY <1>2, <2>1, FS_Subset
  <2>3. Cardinality(Covered') <= queries'
    BY <1>2, <1>3, <1>4, <1>5, <2>2
  <2> QED
    BY <2>3 DEF QueriesCover, Covered
<1>6. CASE \E x : X = {x} /\ queries' = queries + 1
  <2>1. PICK x : X = {x} /\ queries' = queries + 1
    BY <1>6
  <2>2. Covered' \in SUBSET (Covered \cup {x})
    BY <1>1, <2>1
  <2>3. IsFiniteSet(Covered \cup {x}) /\ Cardinality(Covered \cup {x}) \in Nat
        /\ Cardinality(Covered \cup {x}) <= Cardinality(Covered) + 1
    BY <1>2, FS_AddElement
  <2>4. Cardinality(Covered') <= Cardinality(Covered \cup {x})
    BY <2>2, <2>3, FS_Subset
  <2>5. Cardinality(Covered') <= queries'
    BY <1>2, <1>3, <1>4, <2>1, <2>3, <2>4
  <2> QED
    BY <2>5 DEF QueriesCover, Covered
<1> QED
  BY <1>5, <1>6

\* A step that counts no question and writes none.
LEMMA CoverStands ==
    ASSUME StateTypes, StateTypes', QueriesCover, past.uncounted \subseteq past'.uncounted,
           queries' = queries, Range(stored') \subseteq Range(stored),
           \A q \in Questions : stage[q] = "message" => stage'[q] = "message",
           \A c \in Conns : pc[c] \in {"trim", "show", "count"} =>
              pc'[c] \in {"trim", "show", "count"} /\ doing'[c] = doing[c]
    PROVE  QueriesCover'
<1>1. Counting \subseteq Counting'
  BY DEF Counting
<1>2. \A q \in Questions : Stored(Question(q))' => Stored(Question(q))
  BY DEF Stored
<1> DEFINE X == {}
<1>3. /\ (X = {} /\ queries' = queries) \/ \E x : X = {x} /\ queries' = queries + 1
      /\ Counting \subseteq Counting' \cup past'.uncounted \cup X
      /\ \A q \in Questions : Stored(Question(q))' => Stored(Question(q)) \/ q \in Counting'
  BY <1>1, <1>2
<1> HIDE DEF X
<1> QED
  BY <1>3, CoverStep

LEMMA CoverPersist ==
    ASSUME ControlInv, StateTypes', QueriesCover, NEW p \in Writers, Persist(p)
    PROVE  QueriesCover'
<1>1. PICK o \in Outcome, m \in doing[p] :
         /\ At(p, "persist")
         /\ stored' = IF Applied(o) THEN Append(stored, m) ELSE stored
         /\ Goto(p, IF Replied(o) THEN "trim" ELSE "show")
         /\ past' = IF Applied(o) THEN past ELSE [past EXCEPT !.refused = @ \cup {m}]
  BY DEF Persist
<1>2. UNCHANGED <<queries, stage, doing>> /\ past'.uncounted = past.uncounted
  BY <1>1 DEF Persist, ControlInv, StateTypes, Past
<1>3. p \in Goroutines /\ m \in Message /\ stored \in Seq(Message)
  BY Distinct DEF Writers, ControlInv, StateTypes, StoreTypeOK, ProcessTypeOK
<1>4. Range(stored') \subseteq Range(stored) \cup {m}
  BY <1>1, <1>3, AppendRange
<1>5. pc'[p] \in {"trim", "show"} /\ \A r \in Goroutines \ {p} : pc'[r] = pc[r]
  BY <1>1, <1>3 DEF ControlInv, StateTypes
<1>6. \A q \in Questions : m = Question(q) => q \in Counting'
  <2>1. CASE p = "worker"
    <3>0. pc["worker"] = "persist" /\ m \in doing["worker"]
      BY <1>1, <2>1 DEF At
    <3>1. job \in Job /\ m.try = job.attempts + 1
      BY <3>0 DEF ControlInv, Hands, WorkerHands, StateTypes
    <3>2. m.try # 0
      BY <3>1 DEF Job
    <3> QED
      BY <3>2, QuestionType
  <2>2. CASE p \in Conns
    BY <1>2, <1>5, <2>2 DEF Counting
  <2> QED
    BY <2>1, <2>2 DEF Writers
<1>7. \A q \in Questions : Stored(Question(q))' => Stored(Question(q)) \/ q \in Counting'
  BY <1>4, <1>6 DEF Stored
<1> DEFINE X == {}
<1>8. /\ (X = {} /\ queries' = queries) \/ \E x : X = {x} /\ queries' = queries + 1
      /\ Counting \subseteq Counting' \cup past'.uncounted \cup X
  <2>1. \A c \in Conns : pc[c] \in {"trim", "show", "count"} => pc'[c] \in {"trim", "show", "count"}
    BY <1>1, <1>5, Distinct DEF At
  <2>2. Counting \subseteq Counting'
    BY <1>2, <2>1 DEF Counting
  <2> QED
    BY <1>2, <2>2
<1> HIDE DEF X
<1> QED
  BY <1>2, <1>7, <1>8, CoverStep DEF ControlInv

LEMMA CoverCount ==
    ASSUME ControlInv, StateTypes', QueriesCover, NEW c \in Conns, CountQuery(c)
    PROVE  QueriesCover'
<1>1. PICK o \in Outcome, m \in doing[c] :
         /\ queries' = IF Applied(o) THEN queries + 1 ELSE queries
         /\ past' = IF Applied(o) THEN past ELSE [past EXCEPT !.uncounted = @ \cup {m.of}]
  BY DEF CountQuery
<1>2. UNCHANGED <<stored, stage, doing>> /\ \A d \in Conns \ {c} : pc'[d] = pc[d]
  BY Distinct DEF CountQuery, ControlInv, StateTypes
<1>3. Counting \subseteq Counting' \cup {m.of}
  <2>1. \A q \in Questions : Question(q) \in doing[c] => q = m.of
    BY <1>1, QuestionType, Distinct DEF ControlInv, Hands, OneInHand
  <2> QED
    BY <1>2, <2>1 DEF Counting
<1>4. \A q \in Questions : Stored(Question(q))' => Stored(Question(q)) \/ q \in Counting'
  BY <1>2 DEF Stored
<1> DEFINE X == IF Applied(o) THEN {m.of} ELSE {}
<1>5. /\ (X = {} /\ queries' = queries) \/ \E x : X = {x} /\ queries' = queries + 1
      /\ past.uncounted \subseteq past'.uncounted
      /\ Counting \subseteq Counting' \cup past'.uncounted \cup X
  <2>1. CASE Applied(o)
    BY <1>1, <1>3, <2>1
  <2>2. CASE ~Applied(o)
    <3>1. past'.uncounted = past.uncounted \cup {m.of}
      BY <1>1, <2>2 DEF ControlInv, StateTypes, Past
    <3> QED
      BY <1>1, <1>3, <2>2, <3>1
  <2> QED
    BY <2>1, <2>2
<1> HIDE DEF X
<1> QED
  BY <1>4, <1>5, CoverStep DEF ControlInv

LEMMA CoverDelete ==
    ASSUME ControlInv, StateTypes', QueriesCover, NEW c \in Conns, Delete(c)
    PROVE  QueriesCover'
<1>1. CASE stored' = <<>> /\ queries' = 0
  <2>1. Covered' = {}
    <3>1. Range(stored') = {}
      BY <1>1 DEF Range
    <3> QED
      BY <3>1 DEF Covered, Stored
  <2>2. Cardinality(Covered') = 0
    BY <2>1, FS_EmptySet
  <2> QED
    BY <1>1, <2>2 DEF QueriesCover, Covered
<1>2. CASE UNCHANGED <<stored, queries>>
  <2>1. UNCHANGED <<stage, doing, past>> /\ \A d \in Conns \ {c} : pc'[d] = pc[d]
    BY Distinct DEF Delete, ControlInv, StateTypes
  <2>2. pc[c] = "del"
    BY DEF Delete, At
  <2> QED
    BY <1>2, <2>1, <2>2, CoverStands DEF ControlInv
<1> QED
  BY <1>1, <1>2 DEF Delete

LEMMA CoverUpdate ==
    ASSUME ControlInv, StateTypes', QueriesCover, NEW q \in Questions, TakeUpdate(q)
    PROVE  QueriesCover'
<1>1. /\ \/ UNCHANGED <<stored, stage, past>>
         \/ /\ stage[q] = "absent" /\ stage' = [stage EXCEPT ![q] = "message"]
            /\ stored' = KeepLast(Append(stored, Question(q)), Cap)
            /\ past' = [past EXCEPT !.asked = @ \cup {q}]
      /\ \/ UNCHANGED <<doing, pc>>
         \/ doing' = [doing EXCEPT !["poller"] = {Question(q)}] /\ Goto("poller", "remember")
      /\ queries' = queries
  BY DEF TakeUpdate
<1>2. \A c \in Conns : pc'[c] = pc[c] /\ doing'[c] = doing[c]
  BY <1>1, Distinct DEF ControlInv, StateTypes, ProcessTypeOK
<1>3. CASE UNCHANGED <<stored, stage, past>>
  BY <1>1, <1>2, <1>3, CoverStands DEF ControlInv
<1>4. CASE /\ stage[q] = "absent" /\ stage' = [stage EXCEPT ![q] = "message"]
           /\ stored' = KeepLast(Append(stored, Question(q)), Cap)
           /\ past' = [past EXCEPT !.asked = @ \cup {q}]
  <2>1. Range(stored') \subseteq Range(stored) \cup {Question(q)}
    BY <1>4, QuestionType, LastStays DEF ControlInv, StateTypes, StoreTypeOK
  <2>2. stage'[q] = "message" /\ \A r \in Questions \ {q} : stage'[r] = stage[r]
    BY <1>4 DEF ControlInv, StateTypes, StoreTypeOK
  <2>3. Counting \subseteq Counting' /\ q \in Counting'
    BY <1>2, <1>4, <2>2 DEF Counting
  <2>4. \A r \in Questions : Stored(Question(r))' => Stored(Question(r)) \/ r \in Counting'
    <3>1. \A r \in Questions : Question(r) = Question(q) => r = q
      BY QuestionType
    <3> QED
      BY <2>1, <2>3, <3>1 DEF Stored
  <2> DEFINE X == {}
  <2>5. /\ (X = {} /\ queries' = queries) \/ \E x : X = {x} /\ queries' = queries + 1
        /\ Counting \subseteq Counting' \cup past'.uncounted \cup X
    BY <1>1, <2>3
  <2>6. past.uncounted \subseteq past'.uncounted
    BY <1>4 DEF ControlInv, StateTypes, Past
  <2> HIDE DEF X
  <2> QED
    BY <2>4, <2>5, <2>6, CoverStep DEF ControlInv
<1> QED
  BY <1>1, <1>3, <1>4

\* The statistics script, and the two steps after it.
LEMMA CoverSubmission ==
    ASSUME ControlInv, StateTypes', QueriesCover, EnsureMessageMemory \/ SubmitStats \/ EnqueueTelegram \/ Complete
    PROVE  QueriesCover'
<1>1. \A c \in Conns : pc'[c] = pc[c] /\ doing'[c] = doing[c]
  <2>1. /\ \E s : pc' = [pc EXCEPT !["poller"] = s]
        /\ doing' = doing \/ doing' = [doing EXCEPT !["poller"] = {}]
    BY DEF EnsureMessageMemory, SubmitStats, EnqueueTelegram, Complete, GiveUp
  <2> QED
    BY <2>1, Distinct DEF ControlInv, StateTypes, ProcessTypeOK
<1>2. UNCHANGED <<stored, past>>
  BY DEF EnsureMessageMemory, SubmitStats, EnqueueTelegram, Complete, Advance, store
<1>3. CASE EnsureMessageMemory
  BY <1>1, <1>2, <1>3, CoverStands DEF EnsureMessageMemory, store, ControlInv
<1>4. CASE EnqueueTelegram \/ Complete
  <2>1. PICK m \in doing["poller"] :
           /\ stage' = stage \/ \E step : stage' = [stage EXCEPT ![m.of] = step]
           /\ stage[m.of] # "message" /\ queries' = queries
    <3>1. CASE EnqueueTelegram
      BY <3>1 DEF EnqueueTelegram, Advance, At, ControlInv, Hands, PollerHands
    <3>2. CASE Complete
      BY <3>2 DEF Complete, Advance, At, ControlInv, Hands, PollerHands
    <3> QED
      BY <1>4, <3>1, <3>2
  <2>2. \A q \in Questions : stage[q] = "message" => stage'[q] = "message"
    BY <2>1 DEF ControlInv, StateTypes, StoreTypeOK
  <2> QED
    BY <1>1, <1>2, <2>1, <2>2, CoverStands DEF ControlInv
<1>5. CASE SubmitStats
  <2>1. PICK o \in Outcome :
           /\ Advance("stats", "stats", o)
           /\ queries' = IF Applied(o) THEN queries + 1 ELSE queries
    BY <1>5 DEF SubmitStats
  <2>2. PICK m \in doing["poller"] : stage' = IF Applied(o) THEN [stage EXCEPT ![m.of] = "stats"] ELSE stage
    BY <2>1 DEF Advance
  <2>3. CASE Applied(o)
    <3>1. \A q \in Questions \ {m.of} : stage'[q] = stage[q]
      BY <2>2, <2>3 DEF ControlInv, StateTypes, StoreTypeOK
    <3>2. Counting \subseteq Counting' \cup {m.of}
      BY <1>1, <3>1 DEF Counting
    <3>3. \A q \in Questions : Stored(Question(q))' => Stored(Question(q)) \/ q \in Counting'
      BY <1>2 DEF Stored
    <3> DEFINE X == {m.of}
    <3>4. /\ (X = {} /\ queries' = queries) \/ \E x : X = {x} /\ queries' = queries + 1
          /\ Counting \subseteq Counting' \cup past'.uncounted \cup X
      BY <2>1, <2>3, <3>2
    <3> HIDE DEF X
    <3> QED
      BY <1>2, <3>3, <3>4, CoverStep DEF ControlInv
  <2>4. CASE ~Applied(o)
    BY <1>1, <1>2, <2>1, <2>2, <2>4, CoverStands DEF ControlInv
  <2> QED
    BY <2>3, <2>4
<1> QED
  BY <1>3, <1>4, <1>5

LEMMA CoverCrash ==
    ASSUME ControlInv, StateTypes', QueriesCover, Crash
    PROVE  QueriesCover'
<1>1. UNCHANGED <<stored, stage, queries>> /\ past'.uncounted = past.uncounted \cup Uncounted
  BY DEF Crash, store, ControlInv, StateTypes, Past
<1>2. Counting \subseteq Counting' \cup past'.uncounted
  <2> SUFFICES ASSUME NEW q \in Counting, stage[q] # "message"
               PROVE  q \in Uncounted
    BY <1>1 DEF Counting
  <2>1. q \in Questions
    BY DEF Counting
  <2>2. PICK c \in Conns : pc[c] \in {"trim", "show", "count"} /\ Question(q) \in doing[c]
    BY DEF Counting
  <2>3. Question(q) \in UNION {doing[d] : d \in {e \in Conns : pc[e] \in {"trim", "show", "count"}}}
    BY <2>2
  <2> QED
    BY <2>1, <2>3, QuestionType DEF Uncounted
<1>3. \A q \in Questions : Stored(Question(q))' => Stored(Question(q)) \/ q \in Counting'
  BY <1>1 DEF Stored
<1> DEFINE X == {}
<1>4. /\ (X = {} /\ queries' = queries) \/ \E x : X = {x} /\ queries' = queries + 1
      /\ past.uncounted \subseteq past'.uncounted
      /\ Counting \subseteq Counting' \cup past'.uncounted \cup X
  BY <1>1, <1>2
<1> HIDE DEF X
<1> QED
  BY <1>3, <1>4, CoverStep DEF ControlInv

LEMMA CoverNext ==
    ASSUME ControlInv, QueriesCover, Next
    PROVE  QueriesCover'
<1>1. StateTypes /\ StateTypes' /\ past.uncounted \subseteq past'.uncounted
  BY ControlNext, PastGrows DEF ControlInv
<1>2. CASE \E p \in Goroutines : WriteFrame(p) \/ Show(p)
  <2>1. PICK p \in Goroutines : WriteFrame(p) \/ Show(p)
    BY <1>2
  <2>2. UNCHANGED <<stored, stage, queries, doing>>
    BY <2>1 DEF WriteFrame, Show, store
  <2>3. \A c \in Conns : pc[c] \in {"trim", "show", "count"} => pc'[c] \in {"trim", "show", "count"}
    <3>1. CASE WriteFrame(p)
      BY <3>1 DEF WriteFrame
    <3>2. CASE Show(p)
      BY <1>1, <3>2, Distinct DEF Show, AfterShow, StateTypes
    <3> QED
      BY <2>1, <3>1, <3>2
  <2> QED
    BY <1>1, <2>2, <2>3, CoverStands
<1>3. ASSUME NEW p \in Writers, Persist(p)
      PROVE  QueriesCover'
  BY <1>1, <1>3, CoverPersist
<1>4. ASSUME NEW p \in Writers, Trim(p)
      PROVE  QueriesCover'
  <2>1. Range(stored') \subseteq Range(stored)
    <3>1. stored' = stored \/ stored' = KeepLast(stored, Cap)
      BY <1>4 DEF Trim
    <3> QED
      BY <1>1, <3>1, Ends, EndRange DEF StateTypes, StoreTypeOK
  <2>2. UNCHANGED <<stage, queries, doing>> /\ Goto(p, "show")
    BY <1>4 DEF Trim
  <2>3. \A c \in Conns : pc[c] \in {"trim", "show", "count"} => pc'[c] \in {"trim", "show", "count"}
    BY <1>1, <2>2, Distinct DEF StateTypes
  <2> QED
    BY <1>1, <2>1, <2>2, <2>3, CoverStands
<1>5. ASSUME NEW c \in Conns,
             (\E q \in Questions : Ask(c, q)) \/ Enqueue(c) \/ Clear(c) \/ Reset(c)
      PROVE  QueriesCover'
  <2>1. UNCHANGED <<stored, stage, queries>>
    BY <1>5 DEF Ask, Enqueue, Clear, Reset, store
  <2>2. pc[c] \notin {"trim", "show", "count"}
    BY <1>5 DEF Ask, Enqueue, Clear, Reset, At
  <2>3. \A d \in Conns \ {c} : pc'[d] = pc[d] /\ doing'[d] = doing[d]
    BY <1>1, <1>5, Distinct DEF Ask, Enqueue, Clear, Reset, StateTypes, ProcessTypeOK
  <2> QED
    BY <1>1, <2>1, <2>2, <2>3, CoverStands
<1>6. ASSUME NEW c \in Conns,
             Stop(c) \/ Connect(c) \/ Snapshot(c) \/ Greet(c) \/ Disconnect(c)
      PROVE  QueriesCover'
  <2>1. UNCHANGED <<stored, stage, queries, pc, doing>>
    BY <1>6 DEF Stop, Connect, Snapshot, Greet, Join, Disconnect, store, process
  <2> QED
    BY <1>1, <2>1, CoverStands
<1>7. CASE Acquire \/ Prompt \/ Reply \/ Fail \/ Deliver \/ Settle
  <2>1. UNCHANGED <<stored, stage, queries>>
    BY <1>7 DEF Acquire, Prompt, Reply, Fail, Deliver, Settle, store
  <2>2. \A c \in Conns : pc'[c] = pc[c] /\ doing'[c] = doing[c]
    BY <1>1, <1>7, Distinct DEF Acquire, Prompt, Reply, Fail, Deliver, Settle, StateTypes, ProcessTypeOK
  <2> QED
    BY <1>1, <2>1, <2>2, CoverStands
<1>8. CASE LoadHistory \/ AdoptHistory \/ Boot
  <2>1. UNCHANGED <<stored, stage, queries, pc, doing>>
    BY <1>8 DEF LoadHistory, AdoptHistory, Boot, store
  <2> QED
    BY <1>1, <2>1, CoverStands
<1>9. ASSUME NEW c \in Conns, CountQuery(c) \/ Delete(c)
      PROVE  QueriesCover'
  BY <1>1, <1>9, CoverCount, CoverDelete
<1>10. CASE \/ \E q \in Questions : TakeUpdate(q)
            \/ EnsureMessageMemory \/ SubmitStats \/ EnqueueTelegram \/ Complete
  BY <1>1, <1>10, CoverUpdate, CoverSubmission
<1> QED
  BY <1>1, <1>2, <1>3, <1>4, <1>5, <1>6, <1>7, <1>8, <1>9, <1>10, CoverCrash, Actions

-----------------------------------------------------------------------------
(* The prompt.                                                             *)

Missing == past.refused \cup seen.erased \cup seen.wiped

\* The question of a job is in memory, on its way there, or gone for a reason.
LEMMA JobsReached ==
    ASSUME ControlInv, SafeInv, MindInv, NEW j \in Jobs
    PROVE  Question(j.id) \in Range(memory) \cup Unloaded \cup Missing
<1>1. CASE load = "ask"
  BY <1>1 DEF SafeInv, Safe, Unloaded, Missing
<1>2. CASE load # "ask"
  BY <1>2 DEF MindInv, InMind, Unloaded, Missing
<1> QED
  BY <1>1, <1>2

LEMMA MissingGrows ==
    ASSUME ControlInv, Next
    PROVE  Missing \subseteq Missing'
<1>1. past.refused \subseteq past'.refused
  BY PastGrows DEF ControlInv
<1>2. Watch
  BY DEF Next
<1>3. seen.erased \subseteq seen'.erased
  BY <1>2 DEF Watch
<1>4. seen.wiped \subseteq seen'.wiped
  BY <1>2 DEF Watch
<1> QED
  BY <1>1, <1>3, <1>4 DEF Missing

\* The worker comes to the model only with a new prompt, and keeps it.
LEMMA GenerateMoves ==
    ASSUME ControlInv, Next, pc'["worker"] = "generate"
    PROVE  Prompt \/ (pc["worker"] = "generate" /\ UNCHANGED <<prompt, job>>)
<1>1. pc \in [Goroutines -> Steps]
  BY DEF ControlInv, StateTypes
<1>2. ASSUME NEW p \in Goroutines, p # "worker", NEW step, Goto(p, step)
      PROVE  pc'["worker"] = pc["worker"]
  BY <1>1, <1>2, Distinct DEF Goto
<1>3. CASE \E p \in Goroutines : WriteFrame(p)
  BY <1>3 DEF WriteFrame
<1>4. ASSUME NEW p \in Goroutines, Show(p)
      PROVE  pc["worker"] = "generate" /\ UNCHANGED <<prompt, job>>
  <2>1. Goto(p, AfterShow(p)) /\ UNCHANGED <<prompt, job>>
    BY <1>4 DEF Show
  <2>2. p # "worker"
    BY <1>1, <2>1 DEF Goto, AfterShow
  <2> QED
    BY <1>2, <2>1, <2>2
<1>5. ASSUME NEW p \in Writers, Persist(p) \/ Trim(p)
      PROVE  pc["worker"] = "generate" /\ UNCHANGED <<prompt, job>>
  <2>1. /\ UNCHANGED <<prompt, job>> /\ p \in Goroutines
        /\ Goto(p, "trim") \/ Goto(p, "show")
    BY <1>5, Distinct DEF Persist, Trim, Writers
  <2>2. p # "worker"
    BY <1>1, <2>1 DEF Goto
  <2> QED
    BY <1>2, <2>1, <2>2
<1>6. ASSUME NEW c \in Conns,
             \/ \E q \in Questions : Ask(c, q)
             \/ CountQuery(c) \/ Enqueue(c) \/ Clear(c) \/ Delete(c) \/ Reset(c)
      PROVE  pc["worker"] = "generate" /\ UNCHANGED <<prompt, job>>
  <2>1. UNCHANGED <<prompt, job>> /\ \E step : Goto(c, step)
    BY <1>6 DEF Ask, CountQuery, Enqueue, Clear, Delete, Reset
  <2> QED
    BY <1>2, <2>1, Distinct
<1>7. ASSUME NEW c \in Conns, Stop(c) \/ Connect(c) \/ Snapshot(c) \/ Greet(c) \/ Disconnect(c)
      PROVE  UNCHANGED <<pc, prompt, job>>
  BY <1>7 DEF Stop, Connect, Snapshot, Greet, Join, Disconnect, process
<1>8. CASE \/ \E q \in Questions : TakeUpdate(q)
           \/ EnsureMessageMemory \/ SubmitStats \/ EnqueueTelegram \/ Complete
  <2>1. UNCHANGED <<prompt, job>> /\ (pc' = pc \/ \E step : Goto("poller", step))
    BY <1>8 DEF TakeUpdate, EnsureMessageMemory, SubmitStats, EnqueueTelegram, Complete, Advance, GiveUp
  <2> QED
    BY <1>2, <2>1, Distinct
<1>9. CASE Acquire \/ Reply \/ Fail \/ Deliver \/ Settle
  <2>1. PICK step \in {"prompt", "persist", "deliver", "settle", "idle"} : Goto("worker", step)
    BY <1>9 DEF Acquire, Reply, Fail, Deliver, Settle
  <2> QED
    BY <1>1, <2>1, Distinct DEF Goto
<1>10. CASE LoadHistory \/ AdoptHistory \/ Boot
  BY <1>10 DEF LoadHistory, AdoptHistory, Boot
<1>11. CASE Crash
  BY <1>11, Distinct DEF Crash
<1> QED
  BY <1>3, <1>4, <1>5, <1>6, <1>7, <1>8, <1>9, <1>10, <1>11, Actions

\* The model is prompted with the question, if it was there to be had.
PromptInv ==
    pc["worker"] = "generate" /\ ~seen.early =>
        Question(job.id) \in Range(prompt) \cup Missing \/ Len(prompt) = Window

LEMMA PromptNext ==
    ASSUME ControlInv, SafeInv, MindInv, PromptInv, Next
    PROVE  PromptInv'
<1> SUFFICES ASSUME pc'["worker"] = "generate", ~seen'.early
             PROVE  Question(job'.id) \in Range(prompt') \cup Missing' \/ Len(prompt') = Window
  BY DEF PromptInv
<1>1. Missing \subseteq Missing'
  BY MissingGrows
<1>2. ~PromptedEarly
  BY DEF Next, Watch
<1>3. CASE Prompt
  <2>1. prompt' = KeepLast(memory, Window) /\ job' = job /\ pc["worker"] = "prompt" /\ up
    BY <1>3 DEF Prompt, At
  <2>2. job \in Jobs
    BY <2>1 DEF Jobs, ControlInv, Hands, HandsTypeOK, WorkerHands
  <2>3. Question(job.id) \in Range(memory) \cup Missing
    BY <1>2, <2>1, <2>2, JobsReached DEF PromptedEarly
  <2>4. memory \in Seq(Message) /\ Window \in Nat
    BY Distinct DEF ControlInv, StateTypes, ProcessTypeOK
  <2>5. CASE Len(memory) <= Window
    BY <1>1, <2>1, <2>3, <2>5 DEF KeepLast
  <2>6. CASE ~(Len(memory) <= Window)
    BY <2>1, <2>4, <2>6, KeepLastLength
  <2> QED
    BY <2>5, <2>6
<1>4. CASE pc["worker"] = "generate" /\ UNCHANGED <<prompt, job>>
  BY <1>1, <1>2, <1>4 DEF PromptInv, PromptedEarly
<1> QED
  BY <1>3, <1>4, GenerateMoves

-----------------------------------------------------------------------------

KeptInv == SafeInv /\ MindInv /\ PromptInv /\ QueriesCover

LEMMA KeptInit ==
    ASSUME Init
    PROVE  KeptInv
<1>1. /\ Jobs = {} /\ stored = <<>> /\ Range(stored) = {}
      /\ \A p \in Goroutines : doing[p] = {}
      /\ \A c \in Conns : c \in Goroutines /\ "poller" \in Goroutines /\ "worker" \in Goroutines
  BY NoJobs, Distinct DEF Init, Written
<1>2. SafeInv
  BY <1>1, Distinct DEF Init, SafeInv, Writers
<1>3. MindInv
  BY <1>1, Distinct DEF Init, MindInv
<1>4. Covered = {}
  BY <1>1 DEF Covered, Stored
<1>5. QueriesCover
  <2>1. Cardinality(Covered) = 0 /\ queries = 0
    BY <1>4, FS_EmptySet DEF Init
  <2> QED
    BY <2>1 DEF QueriesCover, Covered
<1>6. PromptInv
  BY Distinct DEF Init, PromptInv
<1> QED
  BY <1>2, <1>3, <1>5, <1>6 DEF KeptInv

LEMMA KeptIdle ==
    ASSUME KeptInv, UNCHANGED vars
    PROVE  KeptInv'
<1>1. UNCHANGED <<stored, queries, stage, ready, inflight, memory, entries, load, pc, doing, past, seen, job, prompt>>
  BY DEF vars, store, process
<1>2. SafeInv' /\ MindInv'
  BY <1>1 DEF KeptInv, SafeInv, MindInv, Safe, InMind, Jobs
<1>3. Covered' = Covered
  BY <1>1 DEF Covered, Counting, Stored
<1>4. QueriesCover'
  BY <1>1, <1>3 DEF KeptInv, QueriesCover, Covered
<1>5. PromptInv'
  BY <1>1 DEF KeptInv, PromptInv, Missing
<1> QED
  BY <1>2, <1>4, <1>5 DEF KeptInv

LEMMA KeptAlways == Spec => []KeptInv
<1>1. KeptInv /\ ControlInv /\ [Next]_vars => KeptInv'
  BY KeptIdle, SafeNext, MindNext, PromptNext, CoverNext DEF KeptInv
<1> QED
  BY <1>1, KeptInit, ControlAlways, PTL DEF Spec

\* Whatever crashes, fails, is cleared or trimmed between two steps, and however
\* the copies, the loader and the worker interleave: the statistic covers the
\* questions in the store; no question follows its reply there; the question of
\* a job that waits or runs is in memory or in what LoadHistory has still to
\* put there; and the model is prompted with it, unless newer messages fill the
\* window or the worker was earlier than the history -- all this unless the
\* write of the question failed or it was cleared or trimmed (Service.append,
\* LoadHistory, adoptHistory and ensureMessageMemory of internal/chat/chat.go,
\* handle of internal/agent/agent.go).
THEOREM QuestionsAlwaysStand == Spec => []QuestionsStand
<1>1. ASSUME ControlInv, WritingInv, KeptInv
      PROVE  QuestionsStand
  <2>1. TypeOK /\ QueriesCover
    BY <1>1 DEF TypeOK, ControlInv, StateTypes, Hands, KeptInv
  <2>2. \A i, k \in DOMAIN stored : i < k => stored[k].try # 0 \/ stored[i].of # stored[k].of
    BY <1>1 DEF WritingInv
  <2>3. \A j \in Jobs : Question(j.id) \in Range(memory) \cup Unloaded \cup Missing
    BY <1>1, JobsReached DEF KeptInv
  <2>4. PromptInv
    BY <1>1 DEF KeptInv
  <2> QED
    BY <2>1, <2>2, <2>3, <2>4 DEF QuestionsStand, PromptInv, Missing
<1>2. ControlInv /\ JobsAndWriting /\ KeptInv => QuestionsStand
  BY <1>1 DEF JobsAndWriting
<1> QED
  BY <1>2, ControlAlways, WritingAlways, KeptAlways, PTL

-----------------------------------------------------------------------------
(* How a step moves the copies.                                            *)

Adds == {"persist", "trim", "show"}

\* A goroutine that writes takes its message, has it written, and shows it.
Moved(p) ==
    \/ pc'[p] = pc[p] /\ doing'[p] = doing[p]
    \/ pc[p] \notin Adds /\ pc'[p] = "persist" /\ doing'[p] \subseteq Range(memory')
    \/ /\ pc[p] \in {"persist", "trim"} /\ pc'[p] \in {"trim", "show"} /\ doing'[p] = doing[p]
       /\ pc[p] = "persist" => doing[p] \subseteq Range(stored') \cup past'.refused
    \/ pc[p] = "show" /\ pc'[p] \notin Adds /\ doing'[p] = doing[p] /\ Show(p)
    \/ pc[p] \notin Adds /\ pc'[p] \notin Adds /\ doing'[p] \subseteq doing[p]

PollerMoved ==
    \/ pc'["poller"] = pc["poller"] /\ doing'["poller"] = doing["poller"]
    \/ pc["poller"] = "idle" /\ pc'["poller"] = "remember"
    \/ /\ pc["poller"] = "remember" /\ pc'["poller"] \notin {"persist", "trim"}
       /\ doing'["poller"] \subseteq Range(memory')
    \/ /\ pc["poller"] = "show" /\ pc'["poller"] \notin Adds \cup {"remember"}
       /\ doing'["poller"] = doing["poller"] /\ Show("poller")
    \/ /\ pc["poller"] \notin Adds \cup {"remember"} /\ pc'["poller"] \notin Adds \cup {"remember"}
       /\ doing'["poller"] \subseteq doing["poller"]

LEMMA HandsMove ==
    ASSUME ControlInv, Next, up'
    PROVE  (\A p \in Writers : Moved(p)) /\ PollerMoved
<1> DEFINE Goal == (\A p \in Writers : Moved(p)) /\ PollerMoved
<1>1. ASSUME pc' = pc, doing' = doing
      PROVE  Goal
  BY <1>1 DEF Moved, PollerMoved
<1>2. ASSUME NEW p \in Writers, Moved(p),
             \A r \in Goroutines \ {p} : pc'[r] = pc[r] /\ doing'[r] = doing[r]
      PROVE  Goal
  BY <1>2, Distinct DEF Moved, PollerMoved, Writers
<1>3. ASSUME PollerMoved, \A r \in Goroutines \ {"poller"} : pc'[r] = pc[r] /\ doing'[r] = doing[r]
      PROVE  Goal
  BY <1>3, Distinct DEF Moved, Writers
<1> HIDE DEF Goal
<1> SUFFICES Goal
  BY DEF Goal
<1>4. ASSUME NEW p \in Goroutines, WriteFrame(p)
      PROVE  Goal
  BY <1>1, <1>4 DEF WriteFrame
<1>5. ASSUME NEW p \in Goroutines, Show(p)
      PROVE  Goal
  <2>1. /\ pc[p] = "show" /\ doing' = doing
        /\ pc'[p] = AfterShow(p) /\ \A r \in Goroutines \ {p} : pc'[r] = pc[r]
    BY <1>5 DEF Show, At, ControlInv, StateTypes
  <2>2. AfterShow(p) \notin Adds \cup {"remember"}
    BY DEF AfterShow, Adds
  <2>3. CASE p = "poller"
    <3>1. PollerMoved
      BY <1>5, <2>1, <2>2, <2>3 DEF PollerMoved
    <3> QED
      BY <1>3, <2>1, <2>3, <3>1
  <2>4. CASE p \in Writers
    <3>1. Moved(p)
      BY <1>5, <2>1, <2>2 DEF Moved
    <3> QED
      BY <1>2, <2>1, <2>4, <3>1
  <2> QED
    BY <2>3, <2>4 DEF Goroutines, Writers
<1>6. ASSUME NEW p \in Writers, Persist(p)
      PROVE  Goal
  <2>1. PICK o \in Outcome, m \in doing[p] :
           /\ At(p, "persist")
           /\ stored' = IF Applied(o) THEN Append(stored, m) ELSE stored
           /\ Goto(p, IF Replied(o) THEN "trim" ELSE "show")
           /\ past' = IF Applied(o) THEN past ELSE [past EXCEPT !.refused = @ \cup {m}]
    BY <1>6 DEF Persist
  <2>2. p \in Goroutines /\ m \in Message /\ (\A n \in doing[p] : n = m) /\ stored \in Seq(Message)
    BY Distinct DEF Writers, ControlInv, Hands, OneInHand, StateTypes, StoreTypeOK, ProcessTypeOK
  <2>3. m \in Range(stored') \cup past'.refused
    <3>1. CASE Applied(o)
      <4>1. m \in Range(Append(stored, m))
        BY <2>2, AppendRange
      <4> QED
        BY <2>1, <3>1, <4>1
    <3>2. CASE ~Applied(o)
      BY <2>1, <3>2 DEF ControlInv, StateTypes, Past
    <3> QED
      BY <3>1, <3>2
  <2>4. pc[p] = "persist" /\ pc'[p] \in {"trim", "show"} /\ \A r \in Goroutines \ {p} : pc'[r] = pc[r]
    BY <2>1, <2>2 DEF At, ControlInv, StateTypes
  <2>5. doing' = doing
    BY <1>6 DEF Persist
  <2>6. Moved(p)
    BY <2>2, <2>3, <2>4, <2>5 DEF Moved
  <2> QED
    BY <1>2, <2>4, <2>5, <2>6
<1>7. ASSUME NEW p \in Writers, Trim(p)
      PROVE  Goal
  <2>1. p \in Goroutines /\ pc[p] = "trim" /\ doing' = doing /\ Goto(p, "show")
    BY <1>7, Distinct DEF Trim, At, Writers
  <2>2. pc'[p] = "show" /\ \A r \in Goroutines \ {p} : pc'[r] = pc[r]
    BY <2>1 DEF ControlInv, StateTypes
  <2>3. Moved(p)
    BY <2>1, <2>2 DEF Moved
  <2> QED
    BY <1>2, <2>1, <2>2, <2>3
<1>8. ASSUME NEW c \in Conns, NEW q \in Questions, Ask(c, q)
      PROVE  Goal
  <2>1. /\ pc[c] = "idle" /\ pc'[c] = "persist" /\ doing'[c] = {Question(q)}
        /\ \A r \in Goroutines \ {c} : pc'[r] = pc[r] /\ doing'[r] = doing[r]
    BY <1>8, Distinct DEF Ask, At, ControlInv, StateTypes, ProcessTypeOK
  <2>2. Question(q) \in Range(memory')
    BY <1>8, LastStays, QuestionType DEF Ask, Remembered, ControlInv, StateTypes, ProcessTypeOK
  <2>3. Moved(c)
    BY <2>1, <2>2 DEF Moved, Adds
  <2> QED
    BY <1>2, <2>1, <2>3 DEF Writers
<1>9. ASSUME NEW c \in Conns,
             CountQuery(c) \/ Enqueue(c) \/ Clear(c) \/ Delete(c) \/ Reset(c)
      PROVE  Goal
  <2>1. \A r \in Goroutines \ {c} : pc'[r] = pc[r] /\ doing'[r] = doing[r]
    BY <1>9, Distinct DEF CountQuery, Enqueue, Clear, Delete, Reset, ControlInv, StateTypes, ProcessTypeOK
  <2>2. pc[c] \notin Adds /\ pc'[c] \notin Adds
    BY <1>9, Distinct DEF CountQuery, Enqueue, Clear, Delete, Reset, At, Adds, ControlInv, StateTypes
  <2>3. doing'[c] \subseteq doing[c]
    BY <1>9, Distinct DEF CountQuery, Enqueue, Clear, Delete, Reset, ControlInv, StateTypes, ProcessTypeOK
  <2>4. Moved(c)
    BY <2>2, <2>3 DEF Moved
  <2> QED
    BY <1>2, <2>1, <2>4 DEF Writers
<1>10. ASSUME NEW c \in Conns, Stop(c) \/ Connect(c) \/ Snapshot(c) \/ Greet(c) \/ Disconnect(c)
      PROVE  Goal
  BY <1>1, <1>10 DEF Stop, Connect, Snapshot, Greet, Join, Disconnect, process
<1>11. CASE LoadHistory \/ AdoptHistory \/ Boot
  BY <1>1, <1>11 DEF LoadHistory, AdoptHistory, Boot
<1>12. CASE Acquire \/ Prompt \/ Fail \/ Deliver \/ Settle
  <2>1. \A r \in Goroutines \ {"worker"} : doing'[r] = doing[r] /\ pc'[r] = pc[r]
    BY <1>12, Distinct DEF Acquire, Prompt, Fail, Deliver, Settle, ControlInv, StateTypes, ProcessTypeOK
  <2>2. doing'["worker"] \subseteq doing["worker"]
    BY <1>12, Distinct DEF Acquire, Prompt, Fail, Deliver, Settle, ControlInv, StateTypes, ProcessTypeOK
  <2>3. pc["worker"] \notin Adds /\ pc'["worker"] \notin Adds
    BY <1>12, Distinct DEF Acquire, Prompt, Fail, Deliver, Settle, At, Adds, ControlInv, StateTypes
  <2>4. Moved("worker")
    BY <2>2, <2>3 DEF Moved
  <2> QED
    BY <1>2, <2>1, <2>4 DEF Writers
<1>13. CASE Reply
  <2> DEFINE m == [of |-> job.id, try |-> job.attempts + 1]
  <2>1. m \in Message
    <3>1. job \in Job
      BY <1>13 DEF Reply, At, ControlInv, Hands, WorkerHands, StateTypes
    <3> QED
      BY <3>1 DEF Job, Message
  <2>2. memory' = Remembered(m) /\ doing' = [doing EXCEPT !["worker"] = {m}] /\ Goto("worker", "persist")
        /\ pc["worker"] = "generate"
    BY <1>13 DEF Reply, At
  <2> HIDE DEF m
  <2>3. m \in Range(memory')
    BY <2>1, <2>2, LastStays DEF Remembered, ControlInv, StateTypes, ProcessTypeOK
  <2>4. /\ \A r \in Goroutines \ {"worker"} : doing'[r] = doing[r] /\ pc'[r] = pc[r]
        /\ doing'["worker"] = {m} /\ pc'["worker"] = "persist"
    BY <2>2, Distinct DEF ControlInv, StateTypes, ProcessTypeOK
  <2>5. Moved("worker")
    BY <2>2, <2>3, <2>4 DEF Moved, Adds
  <2> QED
    BY <1>2, <2>4, <2>5 DEF Writers
<1>14. ASSUME NEW q \in Questions, TakeUpdate(q)
      PROVE  Goal
  <2>1. \/ doing' = doing /\ pc' = pc
        \/ doing' = [doing EXCEPT !["poller"] = {Question(q)}] /\ Goto("poller", "remember")
           /\ pc["poller"] = "idle"
    BY <1>14 DEF TakeUpdate, At
  <2>2. CASE doing' = doing /\ pc' = pc
    BY <1>1, <2>2
  <2>3. CASE doing' = [doing EXCEPT !["poller"] = {Question(q)}] /\ Goto("poller", "remember")
             /\ pc["poller"] = "idle"
    <3>1. /\ \A r \in Goroutines \ {"poller"} : doing'[r] = doing[r] /\ pc'[r] = pc[r]
          /\ pc'["poller"] = "remember"
      BY <2>3, Distinct DEF ControlInv, StateTypes, ProcessTypeOK
    <3> QED
      BY <1>3, <2>3, <3>1 DEF PollerMoved
  <2> QED
    BY <2>1, <2>2, <2>3
<1>15. CASE EnsureMessageMemory
  <2>1. PICK m \in doing["poller"] :
           IF m \in Range(memory) THEN memory' = memory /\ Goto("poller", AfterShow("poller"))
           ELSE memory' = Remembered(m) /\ Goto("poller", "show")
    BY <1>15 DEF EnsureMessageMemory
  <2>2. /\ m \in Message /\ memory \in Seq(Message) /\ doing' = doing /\ \A n \in doing["poller"] : n = m
        /\ pc["poller"] = "remember"
    BY <1>15, Distinct DEF EnsureMessageMemory, At, ControlInv, Hands, OneInHand, StateTypes, ProcessTypeOK
  <2>3. m \in Range(memory')
    BY <2>1, <2>2, LastStays DEF Remembered
  <2>4. /\ \A r \in Goroutines \ {"poller"} : pc'[r] = pc[r]
        /\ pc'["poller"] \in {AfterShow("poller"), "show"}
    BY <2>1, Distinct DEF ControlInv, StateTypes
  <2>5. AfterShow("poller") \notin {"persist", "trim"}
    BY DEF AfterShow
  <2>6. PollerMoved
    BY <2>2, <2>3, <2>4, <2>5 DEF PollerMoved
  <2> QED
    BY <1>3, <2>2, <2>4, <2>6
<1>16. CASE SubmitStats \/ EnqueueTelegram \/ Complete
  <2>1. /\ pc["poller"] \notin Adds \cup {"remember"} /\ pc'["poller"] \notin Adds \cup {"remember"}
        /\ \A r \in Goroutines \ {"poller"} : pc'[r] = pc[r]
    BY <1>16, Distinct DEF SubmitStats, EnqueueTelegram, Complete, Advance, At, GiveUp, Adds, ControlInv, StateTypes
  <2>2. doing'["poller"] \subseteq doing["poller"] /\ \A r \in Goroutines \ {"poller"} : doing'[r] = doing[r]
    BY <1>16, Distinct DEF SubmitStats, EnqueueTelegram, Complete, GiveUp, ControlInv, StateTypes, ProcessTypeOK
  <2>3. PollerMoved
    BY <2>1, <2>2 DEF PollerMoved
  <2> QED
    BY <1>3, <2>1, <2>2, <2>3
<1>17. CASE Crash
  BY <1>17 DEF Crash
<1> QED
  BY <1>4, <1>5, <1>6, <1>7, <1>8, <1>9, <1>10, <1>11, <1>12, <1>13, <1>14, <1>15, <1>16, <1>17, Actions

\* Memory takes what was read at the start, and what a goroutine still shows.
LEMMA MemoryFrom ==
    ASSUME ControlInv, Next, up'
    PROVE  \A m \in Range(memory') :
              \/ m \in Range(memory)
              \/ load = "adopt" /\ m \in Range(entries)
              \/ m \in Unshown' /\ m \in Pending' \cup Underway
<1> DEFINE Goal == \A m \in Range(memory') :
              \/ m \in Range(memory)
              \/ load = "adopt" /\ m \in Range(entries)
              \/ m \in Unshown' /\ m \in Pending' \cup Underway
<1>1. ASSUME Range(memory') \subseteq Range(memory)
      PROVE  Goal
  BY <1>1
<1>2. ASSUME NEW m \in Message, memory' = Remembered(m), m \in Unshown', m \in Pending' \cup Underway
      PROVE  Goal
  <2>1. Range(memory') \subseteq Range(memory) \cup {m}
    BY <1>2, LastStays DEF Remembered, ControlInv, StateTypes, ProcessTypeOK
  <2> QED
    BY <1>2, <2>1
<1> HIDE DEF Goal
<1> SUFFICES Goal
  BY DEF Goal
<1>3. CASE memory' = memory
  BY <1>1, <1>3
<1>4. CASE \E p \in Goroutines : WriteFrame(p) \/ Show(p)
  BY <1>3, <1>4 DEF WriteFrame, Show
<1>5. CASE \E p \in Writers : Persist(p) \/ Trim(p)
  BY <1>3, <1>5 DEF Persist, Trim
<1>6. ASSUME NEW c \in Conns, NEW q \in Questions, Ask(c, q)
      PROVE  Goal
  <2>1. pc'[c] = "persist" /\ doing'[c] = {Question(q)}
    BY <1>6, Distinct DEF Ask, ControlInv, StateTypes, ProcessTypeOK
  <2>2. Question(q) \in Unshown' /\ Question(q) \in Pending'
    BY <2>1, Distinct DEF Unshown, Pending, Writers
  <2> QED
    BY <1>2, <1>6, <2>2, QuestionType DEF Ask
<1>7. ASSUME NEW c \in Conns,
             \/ CountQuery(c) \/ Enqueue(c) \/ Delete(c) \/ Reset(c)
             \/ Stop(c) \/ Connect(c) \/ Snapshot(c) \/ Greet(c) \/ Disconnect(c)
      PROVE  Goal
  BY <1>3, <1>7 DEF CountQuery, Enqueue, Delete, Reset, Stop, Connect, Snapshot, Greet,
     Join, Disconnect, process
<1>8. ASSUME NEW c \in Conns, Clear(c)
      PROVE  Goal
  <2>1. Range(memory') = {}
    BY <1>8 DEF Clear, Range
  <2> QED
    BY <1>1, <2>1
<1>9. CASE EnsureMessageMemory
  <2>1. PICK m \in doing["poller"] :
           memory' = memory \/ (memory' = Remembered(m) /\ Goto("poller", "show"))
    BY <1>9 DEF EnsureMessageMemory
  <2>2. m \in Message /\ m.try = 0 /\ stage[m.of] \notin {"absent", "complete"} /\ doing' = doing
    BY <1>9, Distinct DEF EnsureMessageMemory, ControlInv, Hands, PollerHands, StateTypes, ProcessTypeOK
  <2>3. m \in Underway
    BY <2>2, QuestionOf DEF Underway
  <2>4. ASSUME memory' = Remembered(m), Goto("poller", "show")
        PROVE  Goal
    <3>1. pc'["poller"] = "show" /\ m \in doing'["poller"]
      BY <2>2, <2>4, Distinct DEF ControlInv, StateTypes
    <3>2. m \in Unshown'
      BY <3>1, Distinct DEF Unshown
    <3> QED
      BY <1>2, <2>2, <2>3, <2>4, <3>2
  <2> QED
    BY <1>3, <2>1, <2>4
<1>10. CASE \/ \E q \in Questions : TakeUpdate(q)
            \/ SubmitStats \/ EnqueueTelegram \/ Complete
  BY <1>3, <1>10 DEF TakeUpdate, SubmitStats, EnqueueTelegram, Complete, Advance
<1>11. CASE Acquire \/ Prompt \/ Fail \/ Deliver \/ Settle \/ Boot \/ LoadHistory
  BY <1>3, <1>11 DEF Acquire, Prompt, Fail, Deliver, Settle, Boot, LoadHistory
<1>12. CASE Reply
  <2> DEFINE m == [of |-> job.id, try |-> job.attempts + 1]
  <2>1. m \in Message
    <3>1. job \in Job
      BY <1>12 DEF Reply, At, ControlInv, Hands, WorkerHands, StateTypes
    <3> QED
      BY <3>1 DEF Job, Message
  <2>2. memory' = Remembered(m) /\ doing' = [doing EXCEPT !["worker"] = {m}] /\ Goto("worker", "persist")
    BY <1>12 DEF Reply
  <2> HIDE DEF m
  <2>3. pc'["worker"] = "persist" /\ m \in doing'["worker"]
    BY <2>2, Distinct DEF ControlInv, StateTypes, ProcessTypeOK
  <2>4. m \in Unshown' /\ m \in Pending'
    BY <2>3, Distinct DEF Unshown, Pending, Writers
  <2> QED
    BY <1>2, <2>1, <2>2, <2>4
<1>13. CASE AdoptHistory
  <2>1. load = "adopt" /\ memory' = KeepLast(entries \o memory, Cap)
    BY <1>13 DEF AdoptHistory
  <2>2. entries \o memory \in Seq(Message) /\ Range(entries \o memory) = Range(entries) \cup Range(memory)
    BY MindRange DEF ControlInv
  <2>3. Range(memory') \subseteq Range(entries) \cup Range(memory)
    BY <2>1, <2>2, KeepLastEnd, EndRange, Distinct
  <2> QED
    BY <2>1, <2>3 DEF Goal
<1>14. CASE Crash
  BY <1>14 DEF Crash
<1> QED
  BY <1>4, <1>5, <1>6, <1>7, <1>8, <1>9, <1>10, <1>11, <1>12, <1>13, <1>14, Actions

\* While there is room nothing leaves it, except by a clear.
LEMMA MindWhole ==
    ASSUME ControlInv, Next, up', Len(entries') + Len(memory') < Cap,
           \A c \in Conns : ~ClearStep(c)
    PROVE  /\ Len(entries) + Len(memory) < Cap
           /\ Range(memory) \subseteq Range(memory')
           /\ Range(entries) \subseteq Range(entries') \cup Range(memory')
<1> DEFINE Goal == /\ Len(entries) + Len(memory) < Cap
                   /\ Range(memory) \subseteq Range(memory')
                   /\ Range(entries) \subseteq Range(entries') \cup Range(memory')
<1>1. StateTypes /\ StateTypes'
  BY ControlNext DEF ControlInv
<1>2. /\ memory \in Seq(Message) /\ entries \in Seq(Message)
      /\ Len(memory) \in Nat /\ Len(entries) \in Nat /\ Len(memory') \in Nat /\ Len(entries') \in Nat
      /\ Cap \in Nat
  <2>1. /\ memory \in Seq(Message) /\ entries \in Seq(Message)
        /\ memory' \in Seq(Message) /\ entries' \in Seq(Message)
    BY <1>1 DEF StateTypes, ProcessTypeOK
  <2> QED
    BY <2>1, LenProperties, Distinct
<1>3. ASSUME memory' = memory, entries' = entries
      PROVE  Goal
  BY <1>3
<1>4. ASSUME NEW m \in Message, memory' = Remembered(m), entries' = entries
      PROVE  Goal
  <2>1. /\ Append(memory, m) \in Seq(Message) /\ Len(Append(memory, m)) = Len(memory) + 1
    BY <1>2, AppendProperties
  <2>2. Len(memory) < Cap
    <3>1. CASE ~(Len(memory) + 1 <= Cap)
      <4>1. Len(memory') = Cap
        BY <1>2, <1>4, <2>1, <3>1, KeepLastLength DEF Remembered
      <4> QED
        BY <1>2, <1>4, <4>1
    <3> QED
      BY <1>2, <3>1
  <2>3. memory' = Append(memory, m)
    BY <1>2, <1>4, <2>1, <2>2 DEF Remembered, KeepLast
  <2>4. Range(memory') = Range(memory) \cup {m}
    BY <1>2, <2>3, AppendRange
  <2>5. Len(memory') = Len(memory) + 1
    BY <2>1, <2>3
  <2>6. Len(entries) + Len(memory) < Cap
    BY <1>2, <1>4, <2>5
  <2> QED
    BY <1>4, <2>4, <2>6
<1> HIDE DEF Goal
<1> SUFFICES Goal
  BY DEF Goal
<1>5. CASE \E p \in Goroutines : WriteFrame(p) \/ Show(p)
  BY <1>3, <1>5 DEF WriteFrame, Show
<1>6. CASE \E p \in Writers : Persist(p) \/ Trim(p)
  BY <1>3, <1>6 DEF Persist, Trim
<1>7. ASSUME NEW c \in Conns, NEW q \in Questions, Ask(c, q)
      PROVE  Goal
  BY <1>4, <1>7, QuestionType DEF Ask
<1>8. ASSUME NEW c \in Conns,
             \/ CountQuery(c) \/ Enqueue(c) \/ Delete(c) \/ Reset(c)
             \/ Stop(c) \/ Connect(c) \/ Snapshot(c) \/ Greet(c) \/ Disconnect(c)
      PROVE  Goal
  BY <1>3, <1>8 DEF CountQuery, Enqueue, Delete, Reset, Stop, Connect, Snapshot, Greet,
     Join, Disconnect, process
<1>9. ASSUME NEW c \in Conns, Clear(c)
      PROVE  FALSE
  BY <1>1, <1>9, Distinct DEF Clear, At, ClearStep, StateTypes
<1>10. CASE EnsureMessageMemory
  <2>1. PICK m \in doing["poller"] : memory' = memory \/ memory' = Remembered(m)
    BY <1>10 DEF EnsureMessageMemory
  <2>2. m \in Message /\ entries' = entries
    BY <1>1, <1>10, Distinct DEF EnsureMessageMemory, StateTypes, ProcessTypeOK
  <2> QED
    BY <1>3, <1>4, <2>1, <2>2
<1>11. CASE \/ \E q \in Questions : TakeUpdate(q)
            \/ SubmitStats \/ EnqueueTelegram \/ Complete
  BY <1>3, <1>11 DEF TakeUpdate, SubmitStats, EnqueueTelegram, Complete, Advance
<1>12. CASE Acquire \/ Prompt \/ Fail \/ Deliver \/ Settle \/ Boot
  BY <1>3, <1>12 DEF Acquire, Prompt, Fail, Deliver, Settle, Boot
<1>13. CASE Reply
  <2>1. [of |-> job.id, try |-> job.attempts + 1] \in Message
    <3>1. job \in Job
      BY <1>13 DEF Reply, At, ControlInv, Hands, WorkerHands, StateTypes
    <3> QED
      BY <3>1 DEF Job, Message
  <2> QED
    BY <1>4, <1>13, <2>1 DEF Reply
<1>14. CASE LoadHistory
  <2>1. entries = <<>> /\ memory' = memory
    BY <1>14 DEF LoadHistory, ControlInv, DownInv
  <2>2. Range(entries) = {} /\ Len(entries) = 0
    BY <2>1 DEF Range
  <2>3. Len(entries) + Len(memory) < Cap
    BY <1>2, <2>1, <2>2
  <2> QED
    BY <2>1, <2>2, <2>3 DEF Goal
<1>15. CASE AdoptHistory
  <2>1. memory' = KeepLast(entries \o memory, Cap) /\ entries' = <<>> /\ Len(entries') = 0
    BY <1>15 DEF AdoptHistory
  <2>2. /\ entries \o memory \in Seq(Message) /\ Range(entries \o memory) = Range(entries) \cup Range(memory)
        /\ Len(entries \o memory) = Len(entries) + Len(memory)
    BY <1>1, MindRange
  <2>3. Len(entries) + Len(memory) < Cap
    <3>1. CASE ~(Len(entries \o memory) <= Cap)
      <4>1. Len(memory') = Cap
        BY <1>2, <2>1, <2>2, <3>1, KeepLastLength
      <4> QED
        BY <1>2, <2>1, <4>1
    <3>2. CASE Len(entries \o memory) <= Cap
      <4>1. memory' = entries \o memory
        BY <2>1, <3>2 DEF KeepLast
      <4> QED
        BY <1>2, <2>1, <2>2, <4>1
    <3> QED
      BY <3>1, <3>2
  <2>4. memory' = entries \o memory
    BY <1>2, <2>1, <2>2, <2>3 DEF KeepLast
  <2> QED
    BY <2>2, <2>3, <2>4 DEF Goal
<1>16. CASE Crash
  BY <1>16 DEF Crash
<1> QED
  BY <1>5, <1>6, <1>7, <1>8, <1>9, <1>10, <1>11, <1>12, <1>13, <1>14, <1>15, <1>16, Actions

\* The history is read once a start, and adopted.
LEMMA LoadMoves ==
    ASSUME ControlInv, Next, up'
    PROVE  \/ load' = load /\ entries' = entries
           \/ load = "ask" /\ load' = "adopt" /\ entries' = stored /\ stored' = stored
           \/ load = "adopt" /\ load' = "ready" /\ entries' = <<>>
<1>1. CASE \E p \in Goroutines : WriteFrame(p) \/ Show(p)
  BY <1>1 DEF WriteFrame, Show
<1>2. CASE \E p \in Writers : Persist(p) \/ Trim(p)
  BY <1>2 DEF Persist, Trim
<1>3. ASSUME NEW c \in Conns,
             \/ \E q \in Questions : Ask(c, q)
             \/ CountQuery(c) \/ Enqueue(c) \/ Clear(c) \/ Delete(c) \/ Reset(c)
             \/ Stop(c) \/ Connect(c) \/ Snapshot(c) \/ Greet(c) \/ Disconnect(c)
      PROVE  load' = load /\ entries' = entries
  BY <1>3 DEF Ask, CountQuery, Enqueue, Clear, Delete, Reset, Stop, Connect, Snapshot, Greet,
     Join, Disconnect, process
<1>4. CASE \/ \E q \in Questions : TakeUpdate(q)
           \/ EnsureMessageMemory \/ SubmitStats \/ EnqueueTelegram \/ Complete
  BY <1>4 DEF TakeUpdate, EnsureMessageMemory, SubmitStats, EnqueueTelegram, Complete, Advance
<1>5. CASE Acquire \/ Prompt \/ Reply \/ Fail \/ Deliver \/ Settle \/ Boot
  BY <1>5 DEF Acquire, Prompt, Reply, Fail, Deliver, Settle, Boot
<1>6. CASE LoadHistory \/ AdoptHistory
  BY <1>6 DEF LoadHistory, AdoptHistory, store
<1>7. CASE Crash
  BY <1>7 DEF Crash
<1> QED
  BY <1>1, <1>2, <1>3, <1>4, <1>5, <1>6, <1>7, Actions

\* While there is room nothing leaves the store, except by a clear.
LEMMA StoredMoves ==
    ASSUME ControlInv, Next, ~Clearing
    PROVE  /\ Len(stored') < Cap => Len(stored) < Cap /\ Range(stored) \subseteq Range(stored')
           /\ Range(stored') \subseteq Range(stored) \cup Pending \cup Underway'
<1> DEFINE Goal == /\ Len(stored') < Cap => Len(stored) < Cap /\ Range(stored) \subseteq Range(stored')
                   /\ Range(stored') \subseteq Range(stored) \cup Pending \cup Underway'
<1>1. stored \in Seq(Message) /\ Len(stored) \in Nat /\ Cap \in Nat
  <2>1. stored \in Seq(Message)
    BY DEF ControlInv, StateTypes, StoreTypeOK
  <2> QED
    BY <2>1, LenProperties, Distinct
<1>2. ASSUME stored' = stored
      PROVE  Goal
  BY <1>2
<1>3. ASSUME NEW m \in Message, m \in Pending \cup Underway',
             stored' = Append(stored, m) \/ stored' = KeepLast(Append(stored, m), Cap)
      PROVE  Goal
  <2>1. /\ Append(stored, m) \in Seq(Message) /\ Len(Append(stored, m)) = Len(stored) + 1
        /\ Range(Append(stored, m)) = Range(stored) \cup {m}
    BY <1>1, AppendProperties, AppendRange
  <2>2. CASE stored' = Append(stored, m)
    BY <1>1, <1>3, <2>1, <2>2
  <2>3. CASE stored' = KeepLast(Append(stored, m), Cap)
    <3>1. Range(stored') \subseteq Range(stored) \cup {m}
      BY <1>1, <2>3, LastStays
    <3>2. CASE Len(stored) < Cap
      <4>1. Range(stored') = Range(stored) \cup {m}
        BY <1>1, <2>3, <3>2, LastStays
      <4> QED
        BY <1>3, <3>2, <4>1
    <3>3. CASE ~(Len(stored) < Cap)
      <4>1. ~(Len(Append(stored, m)) <= Cap)
        BY <1>1, <2>1, <3>3
      <4>2. Len(stored') = Cap
        BY <1>1, <2>1, <2>3, <4>1, KeepLastLength
      <4> QED
        BY <1>1, <1>3, <3>1, <4>2
    <3> QED
      BY <3>2, <3>3
  <2> QED
    BY <1>3, <2>2, <2>3
<1> HIDE DEF Goal
<1> SUFFICES Goal
  BY DEF Goal
<1>4. CASE \E p \in Goroutines : WriteFrame(p) \/ Show(p)
  BY <1>2, <1>4 DEF WriteFrame, Show, store
<1>5. ASSUME NEW p \in Writers, Persist(p)
      PROVE  Goal
  <2>1. PICK m \in doing[p] : stored' = stored \/ stored' = Append(stored, m)
    BY <1>5 DEF Persist
  <2>2. m \in Pending /\ m \in Message
    <3>1. p \in Goroutines /\ pc[p] = "persist"
      BY <1>5, Distinct DEF Persist, At, Writers
    <3> QED
      BY <3>1 DEF Pending, ControlInv, StateTypes, ProcessTypeOK
  <2> QED
    BY <1>2, <1>3, <2>1, <2>2
<1>6. ASSUME NEW p \in Writers, Trim(p)
      PROVE  Goal
  <2>1. stored' = stored \/ stored' = KeepLast(stored, Cap)
    BY <1>6 DEF Trim
  <2>2. CASE Len(stored) <= Cap
    BY <1>2, <2>1, <2>2 DEF KeepLast
  <2>3. CASE stored' = KeepLast(stored, Cap) /\ ~(Len(stored) <= Cap)
    <3>1. Len(stored') = Cap /\ Range(stored') \subseteq Range(stored)
      BY <1>1, <2>3, KeepLastLength, KeepLastEnd, EndRange
    <3> QED
      BY <1>1, <3>1 DEF Goal
  <2> QED
    BY <1>2, <2>1, <2>2, <2>3
<1>7. ASSUME NEW c \in Conns,
             \/ \E q \in Questions : Ask(c, q)
             \/ CountQuery(c) \/ Enqueue(c) \/ Clear(c) \/ Reset(c)
             \/ Stop(c) \/ Connect(c) \/ Snapshot(c) \/ Greet(c) \/ Disconnect(c)
      PROVE  Goal
  BY <1>2, <1>7 DEF Ask, CountQuery, Enqueue, Clear, Reset, Stop, Connect, Snapshot, Greet,
     Join, Disconnect, store
<1>8. ASSUME NEW c \in Conns, Delete(c)
      PROVE  FALSE
  BY <1>8 DEF Delete, At, Clearing
<1>9. ASSUME NEW q \in Questions, TakeUpdate(q)
      PROVE  Goal
  <2>1. \/ stored' = stored
        \/ /\ stored' = KeepLast(Append(stored, Question(q)), Cap)
           /\ stage' = [stage EXCEPT ![q] = "message"]
    BY <1>9 DEF TakeUpdate
  <2>2. ASSUME stage' = [stage EXCEPT ![q] = "message"]
        PROVE  Question(q) \in Underway'
    BY <2>2 DEF Underway, ControlInv, StateTypes, StoreTypeOK
  <2> QED
    BY <1>2, <1>3, <2>1, <2>2, QuestionType
<1>10. CASE EnsureMessageMemory \/ SubmitStats \/ EnqueueTelegram \/ Complete
  BY <1>2, <1>10 DEF EnsureMessageMemory, SubmitStats, EnqueueTelegram, Complete, Advance, store
<1>11. CASE Acquire \/ Prompt \/ Reply \/ Fail \/ Deliver \/ Settle
  BY <1>2, <1>11 DEF Acquire, Prompt, Reply, Fail, Deliver, Settle, store
<1>12. CASE LoadHistory \/ AdoptHistory \/ Boot \/ Crash
  BY <1>2, <1>12 DEF LoadHistory, AdoptHistory, Boot, Crash, store
<1> QED
  BY <1>4, <1>5, <1>6, <1>7, <1>8, <1>9, <1>10, <1>11, <1>12, Actions

\* The question that is submitted is in the store from then on.
LEMMA StageMoves ==
    ASSUME ControlInv, Next
    PROVE  /\ Underway' \subseteq Underway \cup Range(stored')
           /\ \A m \in Underway \ Underway' : m \in doing["poller"] /\ pc["poller"] = "complete"
<1> DEFINE Goal == /\ Underway' \subseteq Underway \cup Range(stored')
                   /\ \A m \in Underway \ Underway' : m \in doing["poller"] /\ pc["poller"] = "complete"
<1>1. ASSUME stage' = stage
      PROVE  Goal
  BY <1>1 DEF Underway
<1> HIDE DEF Goal
<1> SUFFICES Goal
  BY DEF Goal
<1>2. CASE \E p \in Goroutines : WriteFrame(p) \/ Show(p)
  BY <1>1, <1>2 DEF WriteFrame, Show, store
<1>3. CASE \E p \in Writers : Persist(p) \/ Trim(p)
  BY <1>1, <1>3 DEF Persist, Trim
<1>4. ASSUME NEW c \in Conns,
             \/ \E q \in Questions : Ask(c, q)
             \/ CountQuery(c) \/ Enqueue(c) \/ Clear(c) \/ Delete(c) \/ Reset(c)
             \/ Stop(c) \/ Connect(c) \/ Snapshot(c) \/ Greet(c) \/ Disconnect(c)
      PROVE  Goal
  BY <1>1, <1>4 DEF Ask, CountQuery, Enqueue, Clear, Delete, Reset, Stop, Connect, Snapshot, Greet,
     Join, Disconnect, store
<1>5. ASSUME NEW q \in Questions, TakeUpdate(q)
      PROVE  Goal
  <2>1. \/ stage' = stage
        \/ /\ stored' = KeepLast(Append(stored, Question(q)), Cap)
           /\ stage' = [stage EXCEPT ![q] = "message"]
    BY <1>5 DEF TakeUpdate
  <2>2. ASSUME stored' = KeepLast(Append(stored, Question(q)), Cap),
               stage' = [stage EXCEPT ![q] = "message"]
        PROVE  Goal
    <3>1. Question(q) \in Range(stored')
      BY <2>2, LastStays, QuestionType DEF ControlInv, StateTypes, StoreTypeOK
    <3>2. stage'[q] = "message" /\ \A r \in Questions \ {q} : stage'[r] = stage[r]
      BY <2>2 DEF ControlInv, StateTypes, StoreTypeOK
    <3> QED
      BY <3>1, <3>2 DEF Goal, Underway
  <2> QED
    BY <1>1, <2>1, <2>2
<1>6. CASE EnsureMessageMemory
  BY <1>1, <1>6 DEF EnsureMessageMemory, store
<1>7. CASE SubmitStats \/ EnqueueTelegram
  <2>1. PICK m \in doing["poller"], step \in {"stats", "job"} :
           stage' = stage \/ stage' = [stage EXCEPT ![m.of] = step]
    <3>1. CASE SubmitStats
      BY <3>1 DEF SubmitStats, Advance
    <3>2. CASE EnqueueTelegram
      BY <3>2 DEF EnqueueTelegram, Advance
    <3> QED
      BY <1>7, <3>1, <3>2
  <2>2. stage[m.of] \notin {"absent", "complete"} /\ m.of \in Questions
    BY Distinct DEF ControlInv, Hands, PollerHands, StateTypes, ProcessTypeOK, Message
  <2>3. \A q \in Questions : stage'[q] \notin {"absent", "complete"} <=> stage[q] \notin {"absent", "complete"}
    BY <2>1, <2>2 DEF ControlInv, StateTypes, StoreTypeOK
  <2> QED
    BY <2>3 DEF Goal, Underway
<1>8. CASE Complete
  <2>1. PICK m \in doing["poller"] : stage' = stage \/ stage' = [stage EXCEPT ![m.of] = "complete"]
    BY <1>8 DEF Complete, Advance
  <2>2. pc["poller"] = "complete"
    BY <1>8 DEF Complete, Advance, At
  <2>3. m = Question(m.of) /\ m.of \in Questions
    BY Distinct, QuestionOf DEF ControlInv, Hands, PollerHands, StateTypes, ProcessTypeOK
  <2>4. ASSUME stage' = [stage EXCEPT ![m.of] = "complete"]
        PROVE  Goal
    <3>1. stage'[m.of] = "complete" /\ \A r \in Questions \ {m.of} : stage'[r] = stage[r]
      BY <2>3, <2>4 DEF ControlInv, StateTypes, StoreTypeOK
    <3> QED
      BY <2>2, <2>3, <3>1 DEF Goal, Underway
  <2> QED
    BY <1>1, <2>1, <2>4
<1>9. CASE Acquire \/ Prompt \/ Reply \/ Fail \/ Deliver \/ Settle
  BY <1>1, <1>9 DEF Acquire, Prompt, Reply, Fail, Deliver, Settle, store
<1>10. CASE LoadHistory \/ AdoptHistory \/ Boot \/ Crash
  BY <1>1, <1>10 DEF LoadHistory, AdoptHistory, Boot, Crash, store
<1> QED
  BY <1>2, <1>3, <1>4, <1>5, <1>6, <1>7, <1>8, <1>9, <1>10, Actions

\* Where a clear stands.
DelAt(c) == pc[c] = "del"
ResetAt(c) == pc[c] = "reset" \/ \E w \in cast[c] : w.kind = "reset"
SameClears == \A c \in Conns : (DelAt(c)' <=> DelAt(c)) /\ (ResetAt(c)' <=> ResetAt(c))
FewerClears ==
    /\ UNCHANGED <<stored, memory, entries, load, stage, doing>>
    /\ \A c \in Conns : (DelAt(c)' <=> DelAt(c)) /\ (ResetAt(c)' => ResetAt(c))
    /\ \A p \in Goroutines : pc'[p] = pc[p] \/ pc'[p] = "idle"
    /\ \A p \in Goroutines : \A w \in cast'[p] : w \in cast[p] \/ w.kind = "reset"

LEMMA ClearingAt == Clearing <=> \E c \in Conns : DelAt(c) \/ ResetAt(c)
BY DEF Clearing, DelAt, ResetAt

LEMMA ClearingThen == Clearing' <=> \E c \in Conns : DelAt(c)' \/ ResetAt(c)'
BY DEF Clearing, DelAt, ResetAt

LEMMA ClearMoves ==
    ASSUME ControlInv, Next, up'
    PROVE  SameClears \/ FewerClears \/ \E c \in Conns : Clear(c) \/ Delete(c)
<1>1. ASSUME cast' = cast, \A c \in Conns : pc'[c] = pc[c] \/ {pc[c], pc'[c]} \cap {"del", "reset"} = {}
      PROVE  SameClears
  BY <1>1 DEF SameClears, DelAt, ResetAt
<1>2. ASSUME NEW p \in Goroutines, WriteFrame(p)
      PROVE  FewerClears
  <2>1. PICK w \in cast[p] : cast' = [cast EXCEPT ![p] = @ \ {w}]
    BY <1>2 DEF WriteFrame
  <2>2. \A r \in Goroutines : cast'[r] \subseteq cast[r]
    BY <2>1 DEF ControlInv, StateTypes, ProcessTypeOK
  <2>3. UNCHANGED <<stored, memory, entries, load, stage, doing, pc>>
    BY <1>2 DEF WriteFrame, store
  <2> QED
    BY <2>2, <2>3, Distinct DEF FewerClears, DelAt, ResetAt
<1>3. ASSUME NEW p \in Goroutines, Show(p)
      PROVE  SameClears
  <2>1. /\ \A r \in Goroutines \ {p} : pc'[r] = pc[r] /\ cast'[r] = cast[r]
        /\ pc[p] = "show" /\ pc'[p] = AfterShow(p) /\ cast[p] = {}
    BY <1>3 DEF Show, At, Broadcast, ControlInv, StateTypes, ProcessTypeOK
  <2>2. AfterShow(p) \notin {"del", "reset"}
    BY DEF AfterShow
  <2>3. \A w \in cast'[p] : w.kind # "reset"
    BY <1>3 DEF Show, Broadcast, ControlInv, StateTypes, ProcessTypeOK
  <2> QED
    BY <2>1, <2>2, <2>3, Distinct DEF SameClears, DelAt, ResetAt
<1>4. CASE \E p \in Writers : Persist(p) \/ Trim(p)
  <2>1. PICK p \in Writers : Persist(p) \/ Trim(p)
    BY <1>4
  <2>2. cast' = cast /\ pc[p] \notin {"del", "reset"} /\ \E step \in {"trim", "show"} : Goto(p, step)
    BY <2>1 DEF Persist, Trim, At
  <2>3. \A c \in Conns : pc'[c] = pc[c] \/ {pc[c], pc'[c]} \cap {"del", "reset"} = {}
    BY <2>2, Distinct DEF Writers, ControlInv, StateTypes
  <2> QED
    BY <1>1, <2>2, <2>3
<1>5. ASSUME NEW c \in Conns, (\E q \in Questions : Ask(c, q)) \/ CountQuery(c) \/ Enqueue(c)
      PROVE  SameClears
  <2>1. cast' = cast /\ pc[c] \notin {"del", "reset"} /\ \E step \in {"persist", "enqueue", "idle"} : Goto(c, step)
    BY <1>5 DEF Ask, CountQuery, Enqueue, At
  <2>2. \A d \in Conns : pc'[d] = pc[d] \/ {pc[d], pc'[d]} \cap {"del", "reset"} = {}
    BY <2>1, Distinct DEF ControlInv, StateTypes
  <2> QED
    BY <1>1, <2>1, <2>2
<1>6. ASSUME NEW c \in Conns, Reset(c)
      PROVE  FewerClears
  <2>1. /\ pc[c] = "reset" /\ pc'[c] = "idle"
        /\ \A r \in Goroutines \ {c} : pc'[r] = pc[r] /\ cast'[r] = cast[r]
        /\ \A w \in cast'[c] : w.kind = "reset"
    BY <1>6, Distinct DEF Reset, At, Broadcast, ControlInv, StateTypes, ProcessTypeOK
  <2>2. UNCHANGED <<stored, memory, entries, load, stage, doing>>
    BY <1>6 DEF Reset, store
  <2> QED
    BY <2>1, <2>2, Distinct DEF FewerClears, DelAt, ResetAt
<1>7. ASSUME NEW c \in Conns, Stop(c) \/ Connect(c) \/ Snapshot(c) \/ Greet(c)
      PROVE  SameClears
  BY <1>1, <1>7 DEF Stop, Connect, Snapshot, Greet, Join, process
<1>8. ASSUME NEW c \in Conns, Disconnect(c)
      PROVE  FewerClears
  <2>1. \A r \in Goroutines : cast'[r] \subseteq cast[r]
    BY <1>8 DEF Disconnect
  <2>2. UNCHANGED <<stored, memory, entries, load, stage, doing, pc>>
    BY <1>8 DEF Disconnect
  <2> QED
    BY <2>1, <2>2, Distinct DEF FewerClears, DelAt, ResetAt
<1>9. CASE \/ \E q \in Questions : TakeUpdate(q)
           \/ EnsureMessageMemory \/ SubmitStats \/ EnqueueTelegram \/ Complete
  <2>1. \E s : pc' = [pc EXCEPT !["poller"] = s] \/ pc' = pc
    BY <1>9 DEF TakeUpdate, EnsureMessageMemory, SubmitStats, EnqueueTelegram, Complete, GiveUp
  <2>2. cast' = cast
    BY <1>9 DEF TakeUpdate, EnsureMessageMemory, SubmitStats, EnqueueTelegram, Complete, Advance
  <2>3. \A c \in Conns : pc'[c] = pc[c]
    BY <2>1, Distinct DEF ControlInv, StateTypes
  <2> QED
    BY <1>1, <2>2, <2>3
<1>10. CASE Acquire \/ Prompt \/ Reply \/ Fail \/ Deliver \/ Settle
  <2>1. \A c \in Conns : pc'[c] = pc[c]
    BY <1>10, Distinct DEF Acquire, Prompt, Reply, Fail, Deliver, Settle, ControlInv, StateTypes
  <2>2. \A c \in Conns : cast'[c] = cast[c]
    BY <1>10, Distinct DEF Acquire, Prompt, Reply, Fail, Deliver, Settle, Broadcast, ControlInv, StateTypes, ProcessTypeOK
  <2> QED
    BY <2>1, <2>2 DEF SameClears, DelAt, ResetAt
<1>11. CASE LoadHistory \/ AdoptHistory \/ Boot
  BY <1>1, <1>11 DEF LoadHistory, AdoptHistory, Boot
<1>12. CASE Crash
  BY <1>12 DEF Crash
<1> QED
  BY <1>2, <1>3, <1>4, <1>5, <1>6, <1>7, <1>8, <1>9, <1>10, <1>11, <1>12, Actions

\* What a step that is not part of an addition does to the copies.
LEMMA Unadding ==
    ASSUME ControlInv, Next, up', ~Adding'
    PROVE  /\ memory' = memory \/ load = "adopt" \/ \E c \in Conns : Clear(c)
           /\ stored' = stored \/ \E c \in Conns : Delete(c)
<1> DEFINE Goal == /\ memory' = memory \/ load = "adopt" \/ \E c \in Conns : Clear(c)
                   /\ stored' = stored \/ \E c \in Conns : Delete(c)
<1>1. ASSUME memory' = memory, stored' = stored
      PROVE  Goal
  BY <1>1
<1> HIDE DEF Goal
<1> SUFFICES Goal
  BY DEF Goal
<1>0. \A p \in Goroutines : pc'[p] \notin {"persist", "trim", "remember", "show"}
  BY DEF Adding
<1>2. CASE \E p \in Goroutines : WriteFrame(p) \/ Show(p)
  BY <1>1, <1>2 DEF WriteFrame, Show, store
<1>3. CASE \E p \in Writers : Persist(p) \/ Trim(p)
  <2>1. PICK p \in Writers : Persist(p) \/ Trim(p)
    BY <1>3
  <2>2. p \in Goroutines /\ \E step \in {"trim", "show"} : Goto(p, step)
    BY <2>1, Distinct DEF Persist, Trim, Writers
  <2>3. pc'[p] \in {"trim", "show"}
    BY <2>2 DEF ControlInv, StateTypes
  <2> QED
    BY <1>0, <2>2, <2>3
<1>4. ASSUME NEW c \in Conns, NEW q \in Questions, Ask(c, q)
      PROVE  FALSE
  <2>1. pc'[c] = "persist"
    BY <1>4, Distinct DEF Ask, ControlInv, StateTypes
  <2> QED
    BY <1>0, <2>1, Distinct
<1>5. ASSUME NEW c \in Conns,
             \/ CountQuery(c) \/ Enqueue(c) \/ Reset(c)
             \/ Stop(c) \/ Connect(c) \/ Snapshot(c) \/ Greet(c) \/ Disconnect(c)
      PROVE  Goal
  BY <1>1, <1>5 DEF CountQuery, Enqueue, Reset, Stop, Connect, Snapshot, Greet,
     Join, Disconnect, store, process
<1>6. ASSUME NEW c \in Conns, Clear(c) \/ Delete(c)
      PROVE  Goal
  BY <1>6 DEF Goal, Clear, Delete, store
<1>7. ASSUME NEW q \in Questions, TakeUpdate(q)
      PROVE  Goal
  <2>1. stored' = stored \/ stage' = [stage EXCEPT ![q] = "message"]
    BY <1>7 DEF TakeUpdate
  <2>2. ASSUME stage' = [stage EXCEPT ![q] = "message"]
        PROVE  FALSE
    <3>1. stage'[q] = "message"
      BY <2>2 DEF ControlInv, StateTypes, StoreTypeOK
    <3> QED
      BY <3>1 DEF Adding, Submitting
  <2>3. memory' = memory
    BY <1>7 DEF TakeUpdate
  <2> QED
    BY <1>1, <2>1, <2>2, <2>3
<1>8. CASE EnsureMessageMemory
  <2>1. memory' = memory \/ Goto("poller", "show")
    BY <1>8 DEF EnsureMessageMemory
  <2>2. ASSUME Goto("poller", "show")
        PROVE  FALSE
    <3>1. pc'["poller"] = "show"
      BY <2>2, Distinct DEF ControlInv, StateTypes
    <3> QED
      BY <1>0, <3>1, Distinct
  <2> QED
    BY <1>1, <1>8, <2>1, <2>2 DEF EnsureMessageMemory, store
<1>9. CASE SubmitStats \/ EnqueueTelegram \/ Complete
  BY <1>1, <1>9 DEF SubmitStats, EnqueueTelegram, Complete, Advance
<1>10. CASE Acquire \/ Prompt \/ Fail \/ Deliver \/ Settle
  BY <1>1, <1>10 DEF Acquire, Prompt, Fail, Deliver, Settle, store
<1>11. CASE Reply
  <2>1. pc'["worker"] = "persist"
    BY <1>11, Distinct DEF Reply, ControlInv, StateTypes
  <2> QED
    BY <1>0, <2>1, Distinct
<1>12. CASE LoadHistory \/ AdoptHistory \/ Boot
  BY <1>12 DEF Goal, LoadHistory, AdoptHistory, Boot, store
<1>13. CASE Crash
  BY <1>13 DEF Crash
<1> QED
  BY <1>2, <1>3, <1>4, <1>5, <1>6, <1>7, <1>8, <1>9, <1>10, <1>11, <1>12, <1>13, Actions

\* While the copies may be compared, a clear and an addition exclude each other.
LEMMA Untorn ==
    ASSUME ControlInv, Next, up', ~seen'.torn
    PROVE  /\ ~seen.torn
           /\ Clearing' => ~Adding' /\ load' = "ready"
           /\ \A c \in Conns : Delete(c) => stored' = <<>>
<1>1. seen'.torn = (\/ seen.torn /\ (up' \/ Submitting)
                    \/ up' /\ \/ Clearing' /\ (Adding' \/ load' # "ready")
                              \/ \E c \in Conns : pc[c] = "del" /\ pc'[c] = "reset" /\ stored' # <<>>)
  BY DEF Next, Watch
<1>2. \A c \in Conns : ~(pc[c] = "del" /\ pc'[c] = "reset" /\ stored' # <<>>)
  BY <1>1
<1>3. \A c \in Conns : Delete(c) => pc[c] = "del" /\ pc'[c] = "reset"
  BY Distinct DEF Delete, At, ControlInv, StateTypes
<1>4. ~seen.torn /\ (Clearing' => ~Adding' /\ load' = "ready")
  BY <1>1
<1> QED
  BY <1>2, <1>3, <1>4

LEMMA ClearNext ==
    ASSUME ControlInv, Next, up', ~seen'.torn, ClearInv
    PROVE  ClearInv'
<1>1. ASSUME Clearing'
      PROVE  /\ ~Adding' /\ load' = "ready" /\ memory' = <<>>
             /\ (\A c \in Conns : ~ResetAt(c)') \/ stored' = <<>>
  <2>1. ~Adding' /\ load' = "ready" /\ \A c \in Conns : Delete(c) => stored' = <<>>
    BY <1>1, Untorn
  <2>2. /\ memory' = memory \/ load = "adopt" \/ \E c \in Conns : Clear(c)
        /\ stored' = stored \/ \E c \in Conns : Delete(c)
    BY <2>1, Unadding
  <2>3. Clearing => load = "ready" /\ memory = <<>> /\ ((\A c \in Conns : ~ResetAt(c)) \/ stored = <<>>)
    BY DEF ClearInv, ResetAt
  <2>4. CASE \E c \in Conns : Clear(c)
    <3>1. PICK c \in Conns : Clear(c)
      BY <2>4
    <3>2. memory' = <<>> /\ stored' = stored
      BY <3>1 DEF Clear, store
    <3>3. \A d \in Conns : ResetAt(d)' => ResetAt(d)
      BY <3>1, Distinct DEF Clear, ResetAt, ControlInv, StateTypes
    <3> QED
      BY <2>1, <2>3, <3>2, <3>3, ClearingAt
  <2>5. CASE \E c \in Conns : Delete(c)
    <3>1. PICK c \in Conns : Delete(c)
      BY <2>5
    <3>2. Clearing
      BY <3>1 DEF Delete, At, Clearing
    <3>3. memory' = memory
      BY <3>1 DEF Delete
    <3> QED
      BY <2>1, <2>3, <3>1, <3>2, <3>3
  <2>6. CASE ~(\E c \in Conns : Clear(c)) /\ ~(\E c \in Conns : Delete(c))
    <3>1. \A c \in Conns : (DelAt(c)' => DelAt(c)) /\ (ResetAt(c)' => ResetAt(c))
      BY <2>6, ClearMoves DEF SameClears, FewerClears
    <3>2. Clearing
      BY <1>1, <3>1, ClearingAt, ClearingThen
    <3> QED
      BY <2>1, <2>2, <2>3, <2>6, <3>1, <3>2
  <2> QED
    BY <2>4, <2>5, <2>6
<1> QED
  BY <1>1 DEF ClearInv, ResetAt

\* A clear that ends leaves nothing behind.
LEMMA ClearEnds ==
    ASSUME ControlInv, Next, up', ClearInv, Clearing, ~Clearing'
    PROVE  /\ UNCHANGED <<stored, memory, entries, load, stage, doing>>
           /\ stored = <<>> /\ memory = <<>> /\ load = "ready" /\ ~Adding
           /\ \A p \in Goroutines : pc'[p] = pc[p] \/ pc'[p] = "idle"
           /\ \A p \in Goroutines : \A w \in cast'[p] : w \in cast[p] \/ w.kind = "reset"
<1>1. ~(\E c \in Conns : Clear(c) \/ Delete(c))
  <2>1. \A c \in Conns : Clear(c) => pc'[c] = "del"
    BY Distinct DEF Clear, ControlInv, StateTypes
  <2>2. \A c \in Conns : Delete(c) => pc'[c] = "reset"
    BY Distinct DEF Delete, ControlInv, StateTypes
  <2>3. \A c \in Conns : pc'[c] \notin {"del", "reset"}
    BY DEF Clearing
  <2> QED
    BY <2>1, <2>2, <2>3
<1>2. ~SameClears
  BY ClearingAt, ClearingThen DEF SameClears
<1>3. FewerClears
  BY <1>1, <1>2, ClearMoves
<1>4. \E c \in Conns : ResetAt(c)
  BY <1>3, ClearingAt, ClearingThen DEF FewerClears
<1>5. stored = <<>>
  BY <1>4 DEF ClearInv, ResetAt
<1> QED
  BY <1>3, <1>5 DEF FewerClears, ClearInv

LEMMA PendingMoves ==
    ASSUME ControlInv, Next, up'
    PROVE  Pending \subseteq Pending' \cup Range(stored') \cup past'.refused
<1> SUFFICES ASSUME NEW p \in Writers, pc[p] = "persist", NEW m \in doing[p]
             PROVE  m \in Pending' \cup Range(stored') \cup past'.refused
  BY DEF Pending
<1>1. Moved(p)
  BY HandsMove
<1>2. \/ pc'[p] = "persist" /\ doing'[p] = doing[p]
      \/ doing[p] \subseteq Range(stored') \cup past'.refused
  BY <1>1 DEF Moved, Adds
<1> QED
  BY <1>2 DEF Pending

LEMMA StoredNext ==
    ASSUME ControlInv, Next, up', ~seen'.torn, ClearInv, StoredCopy
    PROVE  StoredCopy'
<1> SUFFICES ASSUME Len(stored') < Cap, ~Clearing'
             PROVE  /\ Range(memory') \ past'.refused \subseteq Range(stored') \cup Pending'
                    /\ load' = "adopt" => Range(entries') \subseteq Range(stored')
                    /\ Underway' \subseteq Range(stored')
  BY DEF StoredCopy
<1>1. CASE Clearing
  <2>1. UNCHANGED <<memory, load, stage>> /\ memory = <<>> /\ load = "ready" /\ ~Adding
    BY <1>1, ClearEnds
  <2>2. Range(memory') = {}
    BY <2>1 DEF Range
  <2>3. Underway' = {}
    BY <2>1 DEF Underway, Adding, Submitting
  <2> QED
    BY <2>1, <2>2, <2>3
<1>2. CASE ~Clearing
  <2>1. Len(stored) < Cap /\ Range(stored) \subseteq Range(stored')
    BY <1>2, StoredMoves
  <2>2. /\ Range(memory) \ past.refused \subseteq Range(stored) \cup Pending
        /\ load = "adopt" => Range(entries) \subseteq Range(stored)
        /\ Underway \subseteq Range(stored)
    BY <1>2, <2>1 DEF StoredCopy
  <2>3. past.refused \subseteq past'.refused
    BY PastGrows DEF ControlInv
  <2>4. Range(memory') \ past'.refused \subseteq Range(stored') \cup Pending'
    <3> SUFFICES ASSUME NEW m \in Range(memory'), m \notin past'.refused
                 PROVE  m \in Range(stored') \cup Pending'
      OBVIOUS
    <3>1. \/ m \in Range(memory)
          \/ load = "adopt" /\ m \in Range(entries)
          \/ m \in Unshown' /\ m \in Pending' \cup Underway
      BY MemoryFrom
    <3> QED
      BY <2>1, <2>2, <2>3, <3>1, PendingMoves
  <2>5. load' = "adopt" => Range(entries') \subseteq Range(stored')
    BY <2>1, <2>2, LoadMoves
  <2>6. Underway' \subseteq Range(stored')
    BY <2>1, <2>2, StageMoves
  <2> QED
    BY <2>4, <2>5, <2>6
<1> QED
  BY <1>1, <1>2

LEMMA MemoryNext ==
    ASSUME ControlInv, Next, up', ~seen'.torn, ClearInv, MemoryCopy
    PROVE  MemoryCopy'
<1>1. StateTypes /\ StateTypes'
  BY ControlNext DEF ControlInv
<1>2. Len(Mind) = Len(entries) + Len(memory) /\ Len(Mind') = Len(entries') + Len(memory')
  <2>1. /\ memory \in Seq(Message) /\ entries \in Seq(Message)
        /\ memory' \in Seq(Message) /\ entries' \in Seq(Message)
    BY <1>1 DEF StateTypes, ProcessTypeOK
  <2> QED
    BY <2>1, ConcatProperties DEF Mind
<1> SUFFICES ASSUME Len(Mind') < Cap, ~Clearing'
             PROVE  /\ load' # "ask" => Range(stored') \subseteq Range(entries') \cup Range(memory') \cup Underway'
                    /\ \A p \in Writers : pc'[p] \in {"persist", "trim", "show"} => doing'[p] \subseteq Range(memory')
                    /\ pc'["poller"] # "remember" => doing'["poller"] \subseteq Range(memory')
  BY DEF MemoryCopy
<1>3. CASE Clearing
  <2>1. /\ UNCHANGED <<stored, doing>> /\ stored = <<>> /\ ~Adding
        /\ \A p \in Goroutines : pc'[p] = pc[p] \/ pc'[p] = "idle"
    BY <1>3, ClearEnds
  <2>2. Range(stored') = {}
    BY <2>1 DEF Range
  <2>3. \A p \in Writers : pc'[p] \notin {"persist", "trim", "show"}
    BY <2>1, Distinct DEF Adding, Writers
  <2>4. doing'["poller"] = {}
    <3>1. \A m \in doing["poller"] : m.of \in Questions /\ stage[m.of] \notin {"absent", "complete"}
      BY <1>1, Distinct DEF ControlInv, Hands, PollerHands, StateTypes, ProcessTypeOK, Message
    <3> QED
      BY <2>1, <3>1 DEF Adding, Submitting
  <2> QED
    BY <2>2, <2>3, <2>4
<1>4. CASE ~Clearing
  <2>1. \A c \in Conns : ~ClearStep(c)
    BY DEF Clearing, ClearStep
  <2>2. /\ Len(Mind) < Cap
        /\ Range(memory) \subseteq Range(memory')
        /\ Range(entries) \subseteq Range(entries') \cup Range(memory')
    BY <1>2, <2>1, MindWhole
  <2>3. /\ load # "ask" => Range(stored) \subseteq Range(entries) \cup Range(memory) \cup Underway
        /\ \A p \in Writers : pc[p] \in {"persist", "trim", "show"} => doing[p] \subseteq Range(memory)
        /\ pc["poller"] # "remember" => doing["poller"] \subseteq Range(memory)
    BY <1>4, <2>2 DEF MemoryCopy
  <2>4. load' # "ask" => Range(stored') \subseteq Range(entries') \cup Range(memory') \cup Underway'
    <3>1. CASE load = "ask"
      BY <3>1, LoadMoves
    <3>2. CASE load # "ask"
      <4>1. Range(stored') \subseteq Range(stored) \cup Pending \cup Underway'
        BY <1>4, StoredMoves
      <4>2. Pending \subseteq Range(memory)
        BY <2>3 DEF Pending
      <4>3. Underway \subseteq Underway' \cup Range(memory)
        BY <2>3, StageMoves
      <4> QED
        BY <2>2, <2>3, <3>2, <4>1, <4>2, <4>3
    <3> QED
      BY <3>1, <3>2
  <2>5. \A p \in Writers : pc'[p] \in {"persist", "trim", "show"} => doing'[p] \subseteq Range(memory')
    BY <2>2, <2>3, HandsMove DEF Moved, Adds
  <2>6. pc'["poller"] # "remember" => doing'["poller"] \subseteq Range(memory')
    BY <2>2, <2>3, HandsMove DEF PollerMoved, Adds
  <2> QED
    BY <2>4, <2>5, <2>6
<1> QED
  BY <1>3, <1>4

LEMMA UnshownMoves ==
    ASSUME ControlInv, Next, up'
    PROVE  \A m \in Unshown : m \in Unshown' \/ \E p \in Goroutines : Show(p) /\ m \in doing[p]
<1> SUFFICES ASSUME NEW p \in Goroutines, pc[p] \in {"persist", "trim", "show"}, NEW m \in doing[p]
             PROVE  m \in Unshown' \/ (Show(p) /\ m \in doing[p])
  BY DEF Unshown
<1>1. (pc'[p] \in {"persist", "trim", "show"} /\ doing'[p] = doing[p]) \/ Show(p)
  <2>1. CASE p \in Writers
    BY <2>1, HandsMove DEF Moved, Adds
  <2>2. CASE p = "poller"
    BY <2>2, HandsMove DEF PollerMoved, Adds
  <2> QED
    BY <2>1, <2>2 DEF Goroutines, Writers
<1> QED
  BY <1>1 DEF Unshown

\* A connection is greeted with what memory has.
LEMMA ConnMoves ==
    ASSUME ControlInv, Next, up', NEW c \in Conns
    PROVE  \/ conn'[c] = conn[c] /\ snap'[c] = snap[c]
           \/ conn'[c] \in {"joining", "gone"}
           \/ /\ conn[c] = "joining" /\ conn'[c] = "greeted"
              /\ snap'[c] = Range(memory) /\ memory' = memory
           \/ Greet(c)
<1>1. conn \in [Conns -> {"new", "joining", "greeted", "open", "gone"}] /\ snap \in [Conns -> SUBSET Message]
  BY DEF ControlInv, StateTypes, BrowserTypeOK
<1>2. CASE \E p \in Goroutines : WriteFrame(p) \/ Show(p)
  BY <1>2 DEF WriteFrame, Show, browsers
<1>3. CASE \E p \in Writers : Persist(p) \/ Trim(p)
  BY <1>3 DEF Persist, Trim, browsers
<1>4. ASSUME NEW d \in Conns,
             \/ \E q \in Questions : Ask(d, q)
             \/ CountQuery(d) \/ Enqueue(d) \/ Clear(d) \/ Delete(d) \/ Reset(d) \/ Stop(d)
      PROVE  conn'[c] = conn[c] /\ snap'[c] = snap[c]
  BY <1>4 DEF Ask, CountQuery, Enqueue, Clear, Delete, Reset, Stop, browsers
<1>5. ASSUME NEW d \in Conns, Connect(d) \/ Disconnect(d)
      PROVE  (conn'[c] = conn[c] /\ snap'[c] = snap[c]) \/ conn'[c] \in {"joining", "gone"}
  BY <1>1, <1>5 DEF Connect, Join, Disconnect
<1>6. ASSUME NEW d \in Conns, Snapshot(d)
      PROVE  \/ conn'[c] = conn[c] /\ snap'[c] = snap[c]
             \/ /\ conn[c] = "joining" /\ conn'[c] = "greeted"
                /\ snap'[c] = Range(memory) /\ memory' = memory
  BY <1>1, <1>6 DEF Snapshot, Join, process
<1>7. ASSUME NEW d \in Conns, Greet(d)
      PROVE  (conn'[c] = conn[c] /\ snap'[c] = snap[c]) \/ Greet(c)
  <2>1. CASE d = c
    BY <1>7, <2>1
  <2>2. CASE d # c
    BY <1>1, <1>7, <2>2 DEF Greet, Join
  <2> QED
    BY <2>1, <2>2
<1>8. CASE \/ \E q \in Questions : TakeUpdate(q)
           \/ EnsureMessageMemory \/ SubmitStats \/ EnqueueTelegram \/ Complete
  BY <1>8 DEF TakeUpdate, EnsureMessageMemory, SubmitStats, EnqueueTelegram, Complete, Advance, browsers
<1>9. CASE Acquire \/ Prompt \/ Reply \/ Fail \/ Deliver \/ Settle
  BY <1>9 DEF Acquire, Prompt, Reply, Fail, Deliver, Settle, browsers
<1>10. CASE LoadHistory \/ AdoptHistory \/ Boot
  BY <1>10 DEF LoadHistory, AdoptHistory, Boot, browsers
<1>11. CASE Crash
  BY <1>11 DEF Crash
<1> QED
  BY <1>2, <1>3, <1>4, <1>5, <1>6, <1>7, <1>8, <1>9, <1>10, <1>11, Actions

LEMMA JoinNext ==
    ASSUME ControlInv, Next, up', JoinInv
    PROVE  JoinInv'
<1> SUFFICES ASSUME NEW c \in Conns, c \notin seen'.stale
             PROVE  /\ conn'[c] \in {"joining", "greeted"} => ~Adding' /\ ~Clearing'
                    /\ conn'[c] \in {"joining", "greeted", "open"} => load' = "ready"
                    /\ conn'[c] = "greeted" => snap'[c] = Range(memory')
  BY DEF JoinInv
<1>1. c \notin seen.stale /\ (conn'[c] \in {"joining", "greeted"} => ~Adding' /\ ~Clearing' /\ load' = "ready")
  BY DEF Next, Watch
<1>2. /\ conn[c] \in {"joining", "greeted", "open"} => load = "ready"
      /\ conn[c] = "greeted" => snap[c] = Range(memory)
  BY <1>1 DEF JoinInv
<1>3. load = "ready" => load' = "ready"
  BY LoadMoves
<1>4. conn'[c] = "open" => conn[c] \in {"greeted", "open"}
  BY ConnMoves DEF Greet, Join
<1>5. ASSUME conn'[c] = "greeted"
      PROVE  snap'[c] = Range(memory')
  <2>1. CASE conn[c] = "greeted" /\ snap'[c] = snap[c]
    <3>1. memory' = memory \/ \E d \in Conns : Clear(d)
      BY <1>1, <1>2, <1>5, <2>1, Unadding
    <3>2. ASSUME NEW d \in Conns, Clear(d)
          PROVE  FALSE
      <4>1. pc'[d] = "del"
        BY <3>2, Distinct DEF Clear, ControlInv, StateTypes
      <4> QED
        BY <1>1, <1>5, <4>1 DEF Clearing
    <3> QED
      BY <1>2, <2>1, <3>1, <3>2
  <2>2. ~Greet(c)
    BY <1>5 DEF Greet, Join, ControlInv, StateTypes, BrowserTypeOK
  <2>3. \/ conn[c] = "greeted" /\ snap'[c] = snap[c]
        \/ snap'[c] = Range(memory) /\ memory' = memory
    BY <1>5, <2>2, ConnMoves
  <2> QED
    BY <2>1, <2>3
<1> QED
  BY <1>1, <1>2, <1>3, <1>4, <1>5

-----------------------------------------------------------------------------
(* What a browser shows and is about to be sent.                           *)

\* Only a handler of a connection announces a clear.
WebResets == \A w \in cast["poller"] \cup cast["worker"] : w.kind # "reset"

LEMMA WebResetsNext ==
    ASSUME ControlInv, Next, WebResets
    PROVE  WebResets'
<1> DEFINE Kept(p) == \A w \in cast'[p] : w \in cast[p] \/ w.kind # "reset"
<1>1. ASSUME \A p \in Goroutines : Kept(p) \/ p \in Conns
      PROVE  WebResets'
  BY <1>1, Distinct DEF WebResets
<1> HIDE DEF Kept
<1>2. ASSUME cast' = cast
      PROVE  WebResets'
  BY <1>2 DEF WebResets
<1>3. ASSUME NEW p \in Goroutines, WriteFrame(p)
      PROVE  WebResets'
  <2>1. \A r \in Goroutines : cast'[r] \subseteq cast[r]
    BY <1>3 DEF WriteFrame, ControlInv, StateTypes, ProcessTypeOK
  <2> QED
    BY <1>1, <2>1 DEF Kept
<1>4. ASSUME NEW p \in Goroutines, NEW kind, NEW what, Broadcast(p, kind, what), kind # "reset" \/ p \in Conns
      PROVE  WebResets'
  <2>1. /\ \A r \in Goroutines \ {p} : cast'[r] = cast[r]
        /\ \A w \in cast'[p] : w.kind = kind
    BY <1>4 DEF Broadcast, ControlInv, StateTypes, ProcessTypeOK
  <2> QED
    BY <1>1, <1>4, <2>1 DEF Kept
<1>5. ASSUME NEW p \in Goroutines, Show(p)
      PROVE  WebResets'
  BY <1>4, <1>5 DEF Show
<1>6. CASE \E p \in Writers : Persist(p) \/ Trim(p)
  BY <1>2, <1>6 DEF Persist, Trim
<1>7. ASSUME NEW c \in Conns, Reset(c)
      PROVE  WebResets'
  BY <1>4, <1>7, Distinct DEF Reset
<1>8. ASSUME NEW c \in Conns,
             \/ \E q \in Questions : Ask(c, q)
             \/ CountQuery(c) \/ Enqueue(c) \/ Clear(c) \/ Delete(c)
             \/ Stop(c) \/ Connect(c) \/ Snapshot(c) \/ Greet(c)
      PROVE  WebResets'
  BY <1>2, <1>8 DEF Ask, CountQuery, Enqueue, Clear, Delete, Stop, Connect, Snapshot, Greet, Join, process
<1>9. ASSUME NEW c \in Conns, Disconnect(c)
      PROVE  WebResets'
  <2>1. \A r \in Goroutines : cast'[r] \subseteq cast[r]
    BY <1>9 DEF Disconnect
  <2> QED
    BY <1>1, <2>1 DEF Kept
<1>10. CASE \/ \E q \in Questions : TakeUpdate(q)
            \/ EnsureMessageMemory \/ SubmitStats \/ EnqueueTelegram \/ Complete
  BY <1>2, <1>10 DEF TakeUpdate, EnsureMessageMemory, SubmitStats, EnqueueTelegram, Complete, Advance
<1>11. CASE Acquire \/ Prompt \/ Reply \/ Deliver \/ Settle
  BY <1>2, <1>11 DEF Acquire, Prompt, Reply, Deliver, Settle
<1>12. CASE Fail
  BY <1>4, <1>12, Distinct DEF Fail
<1>13. CASE LoadHistory \/ AdoptHistory \/ Boot
  BY <1>2, <1>13 DEF LoadHistory, AdoptHistory, Boot
<1>14. CASE Crash
  BY <1>14, Distinct DEF Crash, WebResets
<1> QED
  BY <1>3, <1>5, <1>6, <1>7, <1>8, <1>9, <1>10, <1>11, <1>12, <1>13, <1>14, Actions

LEMMA ComingAt ==
    ASSUME NEW c, NEW m
    PROVE  m \in Coming(c) <=> \E p \in Goroutines : \E w \in cast[p] : w.to = c /\ m \in w.what
BY DEF Coming

LEMMA ComingThen ==
    ASSUME NEW c, NEW m
    PROVE  m \in Coming(c)' <=> \E p \in Goroutines : \E w \in cast'[p] : w.to = c /\ m \in w.what
BY DEF Coming

\* What is broadcast comes to every open connection.
LEMMA BroadcastComes ==
    ASSUME StateTypes, NEW p \in Goroutines, NEW kind, NEW what, Broadcast(p, kind, what),
           NEW c \in Conns, conn[c] = "open"
    PROVE  /\ [to |-> c, kind |-> kind, what |-> what] \in cast'[p]
           /\ \A w \in cast'[p] : w.kind = kind /\ w.what = what
           /\ what \subseteq Coming(c)'
           /\ \A r \in Goroutines \ {p} : cast'[r] = cast[r]
<1>1. c \in Registered
  BY DEF Registered
<1>2. /\ cast'[p] = {[to |-> d, kind |-> kind, what |-> what] : d \in Registered}
      /\ \A r \in Goroutines \ {p} : cast'[r] = cast[r]
  BY DEF Broadcast, StateTypes, ProcessTypeOK
<1>3. [to |-> c, kind |-> kind, what |-> what] \in cast'[p]
  BY <1>1, <1>2
<1>4. what \subseteq Coming(c)'
  <2>1. [to |-> c, kind |-> kind, what |-> what].to = c /\ [to |-> c, kind |-> kind, what |-> what].what = what
    OBVIOUS
  <2> QED
    BY <1>3, <2>1, ComingThen
<1> QED
  BY <1>2, <1>3, <1>4

ShownNow(m) == \E p \in Goroutines : Show(p) /\ m \in doing[p]
LogMoves(c) ==
    /\ \A m \in log'[c] \cup Coming(c)' : m \in log[c] \cup Coming(c) \/ ShownNow(m)
    /\ ~Clearing => log[c] \cup Coming(c) \subseteq log'[c] \cup Coming(c)'
    /\ log[c] = {} /\ ~Adding => log'[c] = {}
    /\ ResetComing(c) => ResetComing(c)' \/ log'[c] = {}

\* A step that changes no frame on its way to c.
LEMMA LogStands ==
    ASSUME StateTypes, NEW c \in Conns, log'[c] = log[c],
           \A p \in Goroutines : \A w : w.to = c => (w \in cast'[p] <=> w \in cast[p]),
           \A d \in Conns : pc[d] \in {"del", "reset"} => pc'[d] \in {"del", "reset"}
    PROVE  LogMoves(c)
<1>1. \A m : m \in Coming(c)' <=> m \in Coming(c)
  BY ComingAt, ComingThen
<1>2. ResetComing(c) => ResetComing(c)'
  BY Distinct DEF ResetComing
<1> QED
  BY <1>1, <1>2 DEF LogMoves

LEMMA LogBroadcast ==
    ASSUME StateTypes, NEW p \in Goroutines, NEW kind, NEW what, Broadcast(p, kind, what), cast[p] = {},
           NEW c \in Conns, conn[c] = "open", log'[c] = log[c],
           what = {} \/ (Show(p) /\ what = doing[p]),
           \A d \in Conns : pc[d] \in {"del", "reset"} => pc'[d] \in {"del", "reset"} \/ (d = p /\ kind = "reset")
    PROVE  LogMoves(c)
<1>1. /\ [to |-> c, kind |-> kind, what |-> what] \in cast'[p]
      /\ \A w \in cast'[p] : w.kind = kind /\ w.what = what
      /\ \A r \in Goroutines \ {p} : cast'[r] = cast[r]
  BY BroadcastComes
<1>2. \A m : m \in Coming(c)' => m \in Coming(c) \/ m \in what
  BY <1>1, ComingAt, ComingThen
<1>3. \A m : m \in Coming(c) => m \in Coming(c)'
  BY <1>1, ComingAt, ComingThen
<1>4. \A m \in what : ShownNow(m)
  BY DEF ShownNow
<1>5. ResetComing(c) => ResetComing(c)'
  <2>1. ASSUME NEW d \in Conns, pc[d] \in {"del", "reset"}
        PROVE  ResetComing(c)'
    <3>1. CASE pc'[d] \in {"del", "reset"}
      BY <3>1 DEF ResetComing
    <3>2. CASE d = p /\ kind = "reset"
      <4>1. /\ [to |-> c, kind |-> kind, what |-> what] \in cast'[d]
            /\ [to |-> c, kind |-> kind, what |-> what].to = c
            /\ [to |-> c, kind |-> kind, what |-> what].kind = "reset"
        BY <1>1, <3>2
      <4> QED
        BY <4>1 DEF ResetComing
    <3> QED
      BY <2>1, <3>1, <3>2
  <2>2. ASSUME NEW d \in Conns, NEW w \in cast[d], w.to = c, w.kind = "reset"
        PROVE  ResetComing(c)'
    <3>1. w \in cast'[d]
      BY <1>1, <2>2, Distinct
    <3> QED
      BY <2>2, <3>1 DEF ResetComing
  <2> QED
    BY <2>1, <2>2 DEF ResetComing
<1> QED
  BY <1>2, <1>3, <1>4, <1>5 DEF LogMoves

LEMMA LogWrite ==
    ASSUME ControlInv, WebResets, NEW p \in Goroutines, WriteFrame(p), NEW c \in Conns
    PROVE  LogMoves(c)
<1>1. PICK w \in cast[p] :
         /\ cast' = [cast EXCEPT ![p] = @ \ {w}]
         /\ log' = [log EXCEPT ![w.to] = IF w.kind = "reset" THEN {} ELSE @ \cup w.what]
  BY DEF WriteFrame
<1>2. w \in Write /\ w.to \in Conns /\ w.kind \in Kinds /\ w.what \subseteq Message
  BY DEF ControlInv, StateTypes, ProcessTypeOK, Write
<1>3. /\ cast'[p] = cast[p] \ {w} /\ \A r \in Goroutines \ {p} : cast'[r] = cast[r]
      /\ log'[w.to] = (IF w.kind = "reset" THEN {} ELSE log[w.to] \cup w.what)
      /\ \A d \in Conns \ {w.to} : log'[d] = log[d]
      /\ pc' = pc
  <2>1. log \in [Conns -> SUBSET Message] /\ cast \in [Goroutines -> SUBSET Write]
    BY DEF ControlInv, StateTypes, BrowserTypeOK, ProcessTypeOK
  <2>2. pc' = pc
    BY DEF WriteFrame
  <2> QED
    BY <1>1, <1>2, <2>1, <2>2
<1>4. CASE w.to # c
  <2>1. /\ log'[c] = log[c]
        /\ \A r \in Goroutines : \A v : v.to = c => (v \in cast'[r] <=> v \in cast[r])
    BY <1>3, <1>4
  <2> QED
    BY <1>3, <2>1, LogStands DEF ControlInv
<1>5. CASE w.to = c
  <2>1. \A m : m \in Coming(c)' => m \in Coming(c)
    BY <1>3, ComingAt, ComingThen
  <2>2. \A m : m \in Coming(c) => m \in Coming(c)' \/ m \in w.what
    BY <1>3, ComingAt, ComingThen
  <2>3. \A m \in w.what : m \in Coming(c)
    BY <1>5, ComingAt
  <2>4. CASE w.kind = "reset"
    <3>1. p \in Conns
      BY <2>4 DEF WebResets, Goroutines
    <3>2. Clearing
      BY <2>4, <3>1 DEF Clearing
    <3> QED
      BY <1>3, <1>5, <2>1, <2>4, <3>2 DEF LogMoves
  <2>5. CASE w.kind # "reset"
    <3>1. log'[c] = log[c] \cup w.what
      BY <1>3, <1>5, <2>5
    <3>2. log[c] = {} /\ ~Adding => log'[c] = {}
      <4>1. ~Adding => w.kind \notin {"message", "done"}
        BY DEF Adding
      <4>2. ~Adding => w.what = {}
        BY <1>2, <4>1 DEF ControlInv, Frames, Kinds
      <4> QED
        BY <3>1, <4>2
    <3>3. ResetComing(c) => ResetComing(c)'
      <4>1. \A d \in Conns : \A v \in cast[d] : v.kind = "reset" => v \in cast'[d]
        BY <1>3, <2>5, Distinct
      <4> QED
        BY <1>3, <4>1 DEF ResetComing
    <3> QED
      BY <2>1, <2>2, <2>3, <3>1, <3>2, <3>3 DEF LogMoves
  <2> QED
    BY <2>4, <2>5
<1> QED
  BY <1>4, <1>5

LEMMA LogStep ==
    ASSUME ControlInv, WebResets, Next, up', NEW c \in Conns, conn[c] = "open", conn'[c] = "open"
    PROVE  LogMoves(c)
<1>0. StateTypes
  BY DEF ControlInv
<1>1. ASSUME cast' = cast, log'[c] = log[c],
             \A d \in Conns : pc[d] \in {"del", "reset"} => pc'[d] \in {"del", "reset"}
      PROVE  LogMoves(c)
  BY <1>0, <1>1, LogStands
<1>2. ASSUME NEW p \in Goroutines, WriteFrame(p)
      PROVE  LogMoves(c)
  BY <1>2, LogWrite
<1>3. ASSUME NEW p \in Goroutines, Show(p)
      PROVE  LogMoves(c)
  <2>1. /\ pc[p] = "show" /\ cast[p] = {} /\ log' = log
        /\ \A r \in Goroutines \ {p} : pc'[r] = pc[r]
    BY <1>0, <1>3 DEF Show, At, StateTypes, browsers
  <2>2. PICK kind : Broadcast(p, kind, doing[p])
    BY <1>3 DEF Show
  <2>3. \A d \in Conns : pc[d] \in {"del", "reset"} => pc'[d] \in {"del", "reset"}
    BY <2>1, Distinct
  <2> QED
    BY <1>0, <1>3, <2>1, <2>2, <2>3, LogBroadcast
<1>4. CASE \E p \in Writers : Persist(p) \/ Trim(p)
  <2>1. PICK p \in Writers : Persist(p) \/ Trim(p)
    BY <1>4
  <2>2. cast' = cast /\ log' = log /\ pc[p] \notin {"del", "reset"} /\ \E step : Goto(p, step)
    BY <2>1 DEF Persist, Trim, At, browsers
  <2>3. \A d \in Conns : pc[d] \in {"del", "reset"} => pc'[d] \in {"del", "reset"}
    BY <1>0, <2>2, Distinct DEF Writers, StateTypes
  <2> QED
    BY <1>1, <2>2, <2>3
<1>5. ASSUME NEW d \in Conns,
             (\E q \in Questions : Ask(d, q)) \/ CountQuery(d) \/ Enqueue(d) \/ Clear(d) \/ Delete(d)
      PROVE  LogMoves(c)
  <2>1. /\ cast' = cast /\ log' = log
        /\ pc[d] \notin {"del", "reset"} \/ Goto(d, "reset")
        /\ \E step : Goto(d, step)
    BY <1>5 DEF Ask, CountQuery, Enqueue, Clear, Delete, At, browsers
  <2>2. \A e \in Conns : pc[e] \in {"del", "reset"} => pc'[e] \in {"del", "reset"}
    BY <1>0, <2>1, Distinct DEF StateTypes
  <2> QED
    BY <1>1, <2>1, <2>2
<1>6. ASSUME NEW d \in Conns, Reset(d)
      PROVE  LogMoves(c)
  <2>1. /\ pc[d] = "reset" /\ cast[d] = {} /\ log' = log /\ Broadcast(d, "reset", {})
        /\ \A r \in Goroutines \ {d} : pc'[r] = pc[r]
    BY <1>0, <1>6 DEF Reset, At, StateTypes, browsers
  <2>2. \A e \in Conns : pc[e] \in {"del", "reset"} => pc'[e] \in {"del", "reset"} \/ (e = d /\ "reset" = "reset")
    BY <2>1, Distinct
  <2> DEFINE what == {}
  <2>3. Broadcast(d, "reset", what) /\ what = {}
    BY <2>1
  <2> HIDE DEF what
  <2> QED
    BY <1>0, <2>1, <2>2, <2>3, LogBroadcast, Distinct
<1>7. ASSUME NEW d \in Conns, Stop(d) \/ Connect(d) \/ Snapshot(d)
      PROVE  LogMoves(c)
  BY <1>1, <1>7 DEF Stop, Connect, Snapshot, Join, process, browsers
<1>8. ASSUME NEW d \in Conns, Greet(d)
      PROVE  LogMoves(c)
  <2>1. cast' = cast /\ pc' = pc /\ d # c /\ log' = [log EXCEPT ![d] = snap[d]]
    BY <1>8 DEF Greet, Join, process
  <2>2. log'[c] = log[c]
    BY <1>0, <2>1 DEF StateTypes, BrowserTypeOK
  <2> QED
    BY <1>1, <2>1, <2>2
<1>9. ASSUME NEW d \in Conns, Disconnect(d)
      PROVE  LogMoves(c)
  <2>1. /\ pc' = pc /\ conn' = [conn EXCEPT ![d] = "gone"] /\ log' = [log EXCEPT ![d] = {}]
        /\ cast' = [p \in Goroutines |-> {w \in cast[p] : w.to # d}]
    BY <1>9 DEF Disconnect
  <2>2. d # c
    BY <1>0, <2>1 DEF StateTypes, BrowserTypeOK
  <2>3. log'[c] = log[c]
    BY <1>0, <2>1, <2>2 DEF StateTypes, BrowserTypeOK
  <2>4. \A p \in Goroutines : \A w : w.to = c => (w \in cast'[p] <=> w \in cast[p])
    BY <2>1, <2>2
  <2> QED
    BY <1>0, <2>1, <2>3, <2>4, LogStands
<1>10. CASE \/ \E q \in Questions : TakeUpdate(q)
            \/ EnsureMessageMemory \/ SubmitStats \/ EnqueueTelegram \/ Complete
  <2>1. \E s : pc' = [pc EXCEPT !["poller"] = s] \/ pc' = pc
    BY <1>10 DEF TakeUpdate, EnsureMessageMemory, SubmitStats, EnqueueTelegram, Complete, GiveUp
  <2>2. cast' = cast /\ log' = log
    BY <1>10 DEF TakeUpdate, EnsureMessageMemory, SubmitStats, EnqueueTelegram, Complete, Advance, browsers
  <2>3. \A d \in Conns : pc'[d] = pc[d]
    BY <1>0, <2>1, Distinct DEF StateTypes
  <2> QED
    BY <1>1, <2>2, <2>3
<1>11. CASE Acquire \/ Prompt \/ Reply \/ Deliver \/ Settle
  <2>1. \A d \in Conns : pc'[d] = pc[d]
    BY <1>0, <1>11, Distinct DEF Acquire, Prompt, Reply, Deliver, Settle, StateTypes
  <2>2. cast' = cast /\ log' = log
    BY <1>11 DEF Acquire, Prompt, Reply, Deliver, Settle, browsers
  <2> QED
    BY <1>1, <2>1, <2>2
<1>12. CASE Fail
  <2>1. \A d \in Conns : pc'[d] = pc[d]
    BY <1>0, <1>12, Distinct DEF Fail, StateTypes
  <2> DEFINE what == {}
  <2>2. Broadcast("worker", "error", what) /\ what = {} /\ cast["worker"] = {} /\ log' = log
    BY <1>12 DEF Fail, At, browsers
  <2> HIDE DEF what
  <2> QED
    BY <1>0, <2>1, <2>2, LogBroadcast, Distinct
<1>13. CASE LoadHistory \/ AdoptHistory \/ Boot
  BY <1>1, <1>13 DEF LoadHistory, AdoptHistory, Boot, browsers
<1>14. CASE Crash
  BY <1>14 DEF Crash
<1> QED
  BY <1>2, <1>3, <1>4, <1>5, <1>6, <1>7, <1>8, <1>9, <1>10, <1>11, <1>12, <1>13, <1>14, Actions

LEMMA GreetedQuietly ==
    ASSUME ControlInv, NEW c \in Conns, Greet(c), c \notin seen.stale, JoinInv
    PROVE  /\ ~Clearing' /\ log'[c] = Range(memory) /\ memory' = memory
           /\ \A m : m \notin Coming(c)'
<1>1. conn[c] = "greeted" /\ UNCHANGED <<pc, cast, memory>> /\ log' = [log EXCEPT ![c] = snap[c]]
  BY DEF Greet, Join, process
<1>2. ~Adding /\ ~Clearing /\ snap[c] = Range(memory)
  BY <1>1 DEF JoinInv
<1>3. ~Clearing'
  BY <1>1, <1>2 DEF Clearing
<1>4. log'[c] = Range(memory)
  BY <1>1, <1>2 DEF ControlInv, StateTypes, BrowserTypeOK
<1>5. \A p \in Goroutines : \A w \in cast[p] : w.what = {}
  <2>1. \A p \in Goroutines : \A w \in cast[p] : w.kind \notin {"message", "done"} /\ w.kind \in Kinds
    BY <1>2 DEF Adding, ControlInv, StateTypes, ProcessTypeOK, Write
  <2> QED
    BY <2>1 DEF ControlInv, Frames, Kinds
<1>6. \A m : m \notin Coming(c)'
  BY <1>1, <1>5, ComingThen
<1> QED
  BY <1>1, <1>3, <1>4, <1>6

LEMMA LogNext ==
    ASSUME ControlInv, Next, up', ~seen'.torn, WebResets, ClearInv, MemoryCopy, JoinInv, LogCopy
    PROVE  LogCopy'
<1> SUFFICES ASSUME NEW c \in Conns, c \notin seen'.stale, conn'[c] = "open"
             PROVE  /\ Clearing' => log'[c] = {} \/ ResetComing(c)'
                    /\ Len(memory') < Cap /\ ~Clearing' =>
                          /\ log'[c] \cup Coming(c)' \subseteq Range(memory')
                          /\ Range(memory') \subseteq log'[c] \cup Coming(c)' \cup Unshown'
  BY DEF LogCopy
<1>1. c \notin seen.stale
  BY DEF Next, Watch
<1>2. conn[c] = "open" \/ Greet(c)
  BY ConnMoves
<1>3. CASE Greet(c)
  BY <1>1, <1>3, GreetedQuietly
<1>4. CASE conn[c] = "open"
  <2>1. LogMoves(c)
    BY <1>4, LogStep
  <2>2. /\ Clearing => log[c] = {} \/ ResetComing(c)
        /\ Len(memory) < Cap /\ ~Clearing =>
              /\ log[c] \cup Coming(c) \subseteq Range(memory)
              /\ Range(memory) \subseteq log[c] \cup Coming(c) \cup Unshown
    BY <1>1, <1>4 DEF LogCopy
  <2>3. load = "ready" /\ load' = "ready" /\ entries = <<>> /\ entries' = <<>>
    BY <1>1, <1>4, LoadMoves DEF JoinInv, ControlInv, DownInv
  <2>4. ASSUME Clearing'
        PROVE  log'[c] = {} \/ ResetComing(c)'
    <3>1. CASE Clearing
      <4>1. ~Adding
        BY <3>1 DEF ClearInv
      <4> QED
        BY <2>1, <2>2, <3>1, <4>1 DEF LogMoves
    <3>2. CASE ~Clearing
      <4>1. ~SameClears /\ ~FewerClears
        BY <2>4, <3>2, ClearingAt, ClearingThen DEF SameClears, FewerClears
      <4>2. \A d \in Conns : ~Delete(d)
        BY <3>2 DEF Delete, At, Clearing
      <4>3. PICK d \in Conns : Clear(d)
        BY <4>1, <4>2, ClearMoves
      <4>4. pc'[d] = "del"
        BY <4>3, Distinct DEF Clear, ControlInv, StateTypes
      <4> QED
        BY <4>4 DEF ResetComing
    <3> QED
      BY <3>1, <3>2
  <2>5. ASSUME Len(memory') < Cap, ~Clearing'
        PROVE  /\ log'[c] \cup Coming(c)' \subseteq Range(memory')
               /\ Range(memory') \subseteq log'[c] \cup Coming(c)' \cup Unshown'
    <3>1. CASE Clearing
      <4>1. /\ memory' = memory /\ memory = <<>> /\ ~Adding
            /\ \A p \in Goroutines : \A w \in cast'[p] : w \in cast[p] \/ w.kind = "reset"
        BY <2>5, <3>1, ClearEnds
      <4>2. Range(memory') = {}
        BY <4>1 DEF Range
      <4>3. \A p \in Goroutines : \A w \in cast'[p] : w.what = {}
        <5>1. \A p \in Goroutines : \A w \in cast'[p] : w.kind \in {"reset", "error"}
          <6>1. \A p \in Goroutines : \A w \in cast[p] : w.kind \notin {"message", "done"} /\ w.kind \in Kinds
            BY <4>1 DEF Adding, ControlInv, StateTypes, ProcessTypeOK, Write
          <6> QED
            BY <4>1, <6>1 DEF Kinds
        <5>2. Frames'
          BY ControlNext DEF ControlInv
        <5> QED
          BY <5>1, <5>2 DEF Frames
      <4>4. \A m : m \notin Coming(c)'
        BY <4>3, ComingThen
      <4>5. ~ResetComing(c)'
        BY <2>5 DEF ResetComing, Clearing
      <4>6. log'[c] = {}
        BY <2>1, <2>2, <3>1, <4>1, <4>5 DEF LogMoves
      <4> QED
        BY <4>2, <4>4, <4>6
    <3>2. CASE ~Clearing
      <4>1. Len(entries) = 0 /\ Len(entries') = 0 /\ Len(memory) \in Nat /\ Len(memory') \in Nat
        <5>1. memory \in Seq(Message) /\ memory' \in Seq(Message)
          BY ControlNext DEF ControlInv, StateTypes, ProcessTypeOK
        <5> QED
          BY <2>3, <5>1
      <4>2. \A d \in Conns : ~ClearStep(d)
        BY <2>5 DEF Clearing, ClearStep
      <4>3. Len(memory) < Cap /\ Range(memory) \subseteq Range(memory')
        <5>1. Len(entries') + Len(memory') < Cap
          BY <2>5, <4>1
        <5>2. Len(entries) + Len(memory) < Cap /\ Range(memory) \subseteq Range(memory')
          BY <4>2, <5>1, MindWhole
        <5> QED
          BY <4>1, <5>2
      <4>4. /\ log[c] \cup Coming(c) \subseteq Range(memory)
            /\ Range(memory) \subseteq log[c] \cup Coming(c) \cup Unshown
            /\ log[c] \cup Coming(c) \subseteq log'[c] \cup Coming(c)'
            /\ \A m \in log'[c] \cup Coming(c)' : m \in log[c] \cup Coming(c) \/ ShownNow(m)
        BY <2>1, <2>2, <3>2, <4>3 DEF LogMoves
      <4>5. \A m : ShownNow(m) => m \in Range(memory)
        <5> SUFFICES ASSUME NEW p \in Goroutines, Show(p), NEW m \in doing[p]
                     PROVE  m \in Range(memory)
          BY DEF ShownNow
        <5>1. Len(Mind) < Cap
          <6>1. memory \in Seq(Message) /\ Mind = <<>> \o memory
            BY <2>3 DEF Mind, ControlInv, StateTypes, ProcessTypeOK
          <6>2. Mind = memory
            BY <6>1
          <6> QED
            BY <4>3, <6>2
        <5>2. pc[p] = "show"
          BY DEF Show, At
        <5> QED
          BY <3>2, <5>1, <5>2 DEF MemoryCopy, Goroutines, Writers
      <4>6. \A m : ShownNow(m) => m \in Coming(c)'
        <5> SUFFICES ASSUME NEW p \in Goroutines, Show(p), NEW m \in doing[p]
                     PROVE  m \in Coming(c)'
          BY DEF ShownNow
        <5>1. PICK kind : Broadcast(p, kind, doing[p])
          BY DEF Show
        <5> QED
          BY <1>4, <5>1, BroadcastComes DEF ControlInv
      <4>7. ASSUME NEW m \in Range(memory')
            PROVE  m \in log'[c] \cup Coming(c)' \cup Unshown'
        <5>1. m \in Range(memory) \/ m \in Unshown'
          BY <2>3, <4>7, MemoryFrom
        <5>2. m \in Unshown => m \in Unshown' \/ ShownNow(m)
          BY UnshownMoves DEF ShownNow
        <5> QED
          BY <4>4, <4>6, <5>1, <5>2
      <4> QED
        BY <4>3, <4>4, <4>5, <4>7
    <3> QED
      BY <3>1, <3>2
  <2> QED
    BY <2>4, <2>5
<1> QED
  BY <1>2, <1>3, <1>4

-----------------------------------------------------------------------------
(* The copies agree whenever nothing is under way.                         *)

\* After a crash there is the store, with the question a submission was at.
LEMMA CopyDown ==
    ASSUME ControlInv, Next, CopyInv, ~up'
    PROVE  CopyInv'
<1>1. /\ memory' = <<>> /\ entries' = <<>> /\ load' = "ask"
      /\ pc' = [p \in Goroutines |-> "idle"] /\ doing' = [p \in Goroutines |-> {}]
      /\ cast' = [p \in Goroutines |-> {}]
      /\ \A c \in Conns : conn'[c] \in {"new", "gone"}
  BY ControlNext DEF ControlInv, DownInv
<1>2. Range(memory') = {}
  BY <1>1 DEF Range
<1>3. JoinInv' /\ LogCopy'
  BY <1>1 DEF JoinInv, LogCopy
<1>4. ClearInv'
  BY <1>1, Distinct DEF ClearInv, Clearing
<1>5. MemoryCopy'
  BY <1>1, Distinct DEF MemoryCopy, Writers
<1>6. ASSUME ~seen'.torn, Len(stored') < Cap
      PROVE  Underway' \subseteq Range(stored')
  <2>1. CASE Submitting
    <3>1. ~seen.torn
      BY <1>6, <2>1 DEF Next, Watch
    <3>2. ~Clearing
      BY <2>1, <3>1 DEF CopyInv, ClearInv, Adding
    <3>3. Len(stored) < Cap /\ Range(stored) \subseteq Range(stored')
      BY <1>6, <3>2, StoredMoves
    <3>4. Underway \subseteq Range(stored)
      BY <3>1, <3>2, <3>3 DEF CopyInv, StoredCopy
    <3> QED
      BY <3>3, <3>4, StageMoves
  <2>2. CASE ~Submitting
    <3>1. Underway = {}
      BY <2>2 DEF Underway, Submitting
    <3> QED
      BY <3>1, StageMoves
  <2> QED
    BY <2>1, <2>2
<1>7. ~seen'.torn => StoredCopy'
  BY <1>1, <1>2, <1>6 DEF StoredCopy
<1> QED
  BY <1>3, <1>4, <1>5, <1>7 DEF CopyInv

LEMMA CopyNext ==
    ASSUME ControlInv, Next, CopyInv, WebResets
    PROVE  CopyInv' /\ WebResets'
<1>1. WebResets'
  BY WebResetsNext
<1>2. CASE ~up'
  BY <1>1, <1>2, CopyDown
<1>3. CASE up'
  <2>1. JoinInv'
    BY <1>3, JoinNext DEF CopyInv
  <2>2. ASSUME ~seen'.torn
        PROVE  ClearInv' /\ StoredCopy' /\ MemoryCopy' /\ LogCopy'
    <3>1. JoinInv /\ ClearInv /\ StoredCopy /\ MemoryCopy /\ LogCopy
      BY <1>3, <2>2, Untorn DEF CopyInv
    <3> QED
      BY <1>3, <2>2, <3>1, ClearNext, StoredNext, MemoryNext, LogNext
  <2> QED
    BY <1>1, <2>1, <2>2 DEF CopyInv
<1> QED
  BY <1>2, <1>3

LEMMA CopyInit ==
    ASSUME Init
    PROVE  CopyInv /\ WebResets
<1>1. /\ \A p \in Goroutines : pc[p] = "idle" /\ doing[p] = {} /\ cast[p] = {}
      /\ "worker" \in Goroutines /\ "poller" \in Goroutines /\ Conns \subseteq Goroutines
      /\ Writers \subseteq Goroutines
  BY Distinct DEF Init, Writers
<1>2. /\ Range(stored) = {} /\ Range(memory) = {} /\ load = "ask"
      /\ \A c \in Conns : conn[c] = "new"
  BY DEF Init, Range
<1>3. Underway = {}
  BY DEF Init, Underway
<1>4. JoinInv /\ LogCopy
  BY <1>2 DEF JoinInv, LogCopy
<1>5. ClearInv
  BY <1>1 DEF ClearInv, Clearing
<1>6. StoredCopy /\ MemoryCopy
  BY <1>1, <1>2, <1>3 DEF StoredCopy, MemoryCopy
<1>7. WebResets
  BY <1>1 DEF WebResets
<1> QED
  BY <1>4, <1>5, <1>6, <1>7 DEF CopyInv

LEMMA CopyIdle ==
    ASSUME CopyInv, WebResets, UNCHANGED vars
    PROVE  CopyInv' /\ WebResets'
<1>1. UNCHANGED <<stored, stage, memory, entries, load, pc, doing, cast, conn, snap, log, past, seen>>
  BY DEF vars, store, process, browsers
<1>2. /\ Adding' = Adding /\ Clearing' = Clearing /\ Underway' = Underway /\ Pending' = Pending
      /\ Unshown' = Unshown /\ Mind' = Mind
  BY <1>1 DEF Adding, Submitting, Clearing, Underway, Pending, Unshown, Mind
<1>3. ClearInv' = ClearInv /\ StoredCopy' = StoredCopy /\ MemoryCopy' = MemoryCopy
  BY <1>1, <1>2 DEF ClearInv, StoredCopy, MemoryCopy
<1>4. JoinInv' = JoinInv
  BY <1>1, <1>2 DEF JoinInv
<1>5. LogCopy' = LogCopy
  <2>1. \A c \in Conns : Coming(c)' = Coming(c) /\ ResetComing(c)' = ResetComing(c)
    BY <1>1 DEF Coming, ResetComing
  <2> QED
    BY <1>1, <1>2, <2>1 DEF LogCopy
<1>6. WebResets'
  BY <1>1 DEF WebResets
<1> QED
  BY <1>1, <1>3, <1>4, <1>5, <1>6 DEF CopyInv

LEMMA CopyAlways == Spec => [](CopyInv /\ WebResets)
<1>1. CopyInv /\ WebResets /\ ControlInv /\ [Next]_vars => (CopyInv /\ WebResets)'
  BY CopyNext, CopyIdle
<1> QED
  BY <1>1, CopyInit, ControlAlways, PTL DEF Spec

\* What a browser was told or a Telegram user was sent is in the store from then
\* on, unless its write failed or it was cleared or trimmed; and whenever no
\* message, clear, load or crash is under way, and since the start no clear failed
\* or met an append, Valkey, the memory of the service and every page that joined
\* in quiet have the same messages -- however the steps of Service.append,
\* ensureMessageMemory, Clear, LoadHistory and adoptHistory (internal/chat/chat.go)
\* and of Hub.Broadcast and HandleUpgrade (internal/ws/ws.go) interleave.
THEOREM CopiesAlwaysAgree == Spec => []CopiesAgree
<1>1. ASSUME ControlInv, WritingInv, SafeInv, CopyInv, WebResets
      PROVE  CopiesAgree
  <2>1. past.shown \subseteq Range(stored) \cup past.refused \cup seen.erased
    BY <1>1 DEF SafeInv, Safe
  <2>2. ASSUME Quiet, ~seen.torn, Len(memory) < Cap, Len(stored) < Cap
        PROVE  /\ Range(stored) = Range(memory) \ past.refused
               /\ \A c \in Conns \ seen.stale : conn[c] = "open" => log[c] = Range(memory)
    <3>1. up /\ load = "ready" /\ ~Adding /\ ~Clearing
      BY <2>2 DEF Quiet
    <3>2. entries = <<>>
      BY <1>1, <3>1 DEF ControlInv, DownInv
    <3>3. Range(entries) = {} /\ Len(Mind) < Cap
      <4>1. memory \in Seq(Message)
        BY <1>1 DEF ControlInv, StateTypes, ProcessTypeOK
      <4>2. Mind = <<>> \o memory
        BY <3>2 DEF Mind
      <4>3. Mind = memory
        BY <4>1, <4>2
      <4> QED
        BY <2>2, <3>2, <4>3 DEF Range
    <3>4. Pending = {} /\ Unshown = {} /\ Underway = {}
      BY <3>1 DEF Adding, Submitting, Pending, Unshown, Underway, Writers, Goroutines
    <3>5. StoredCopy /\ MemoryCopy /\ LogCopy
      BY <1>1, <2>2 DEF CopyInv
    <3>6. Range(memory) \ past.refused \subseteq Range(stored)
      BY <2>2, <3>1, <3>4, <3>5 DEF StoredCopy
    <3>7. Range(stored) \subseteq Range(memory)
      BY <3>1, <3>3, <3>4, <3>5 DEF MemoryCopy
    <3>8. Range(stored) = Range(memory) \ past.refused
      BY <1>1, <3>6, <3>7 DEF WritingInv
    <3>9. ASSUME NEW c \in Conns \ seen.stale, conn[c] = "open"
          PROVE  log[c] = Range(memory)
      <4>1. \A p \in Goroutines : \A w \in cast[p] : w.what = {}
        <5>1. \A p \in Goroutines : \A w \in cast[p] : w.kind \notin {"message", "done"} /\ w.kind \in Kinds
          BY <1>1, <3>1 DEF Adding, ControlInv, StateTypes, ProcessTypeOK, Write
        <5> QED
          BY <1>1, <5>1 DEF ControlInv, Frames, Kinds
      <4>2. \A m : m \notin Coming(c)
        BY <4>1, ComingAt
      <4>3. /\ log[c] \cup Coming(c) \subseteq Range(memory)
            /\ Range(memory) \subseteq log[c] \cup Coming(c) \cup Unshown
        BY <2>2, <3>1, <3>5, <3>9 DEF LogCopy
      <4> QED
        BY <3>4, <4>2, <4>3
    <3> QED
      BY <3>8, <3>9
  <2> QED
    BY <2>1, <2>2 DEF CopiesAgree
<1>2. ControlInv /\ JobsAndWriting /\ KeptInv /\ CopyInv /\ WebResets => CopiesAgree
  BY <1>1 DEF JobsAndWriting, KeptInv
<1> QED
  BY <1>2, ControlAlways, WritingAlways, KeptAlways, CopyAlways, PTL
=============================================================================
