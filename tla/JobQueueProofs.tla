--------------------------- MODULE JobQueueProofs ---------------------------
(***************************************************************************)
(* Theorems about JobQueue, for every set of jobs and connections and for  *)
(* every value of the bounds a theorem does not name: type correctness; no *)
(* accepted job is lost by a crash, nor by a sweep that takes a job from a *)
(* live worker; a job ends once and as what stopped it; an interactive job *)
(* waits for one scheduled start at most; and a disconnect leaves nothing  *)
(* behind on the ready lists.                                              *)
(***************************************************************************)
EXTENDS JobQueue, SequenceTheorems, FiniteSetTheorems, TLAPS

-----------------------------------------------------------------------------
(* What the list commands do to the elements of a list.                    *)

\* LTRIM keeps a list of the same elements, no longer than its cap.
LEMMA KeepLastType ==
    ASSUME NEW S, NEW s \in Seq(S), NEW n \in Nat
    PROVE  KeepLast(s, n) \in Seq(S) /\ Len(KeepLast(s, n)) <= n
<1>1. CASE Len(s) <= n
  BY <1>1 DEF KeepLast
<1>2. CASE ~(Len(s) <= n)
  <2>1. /\ Len(s) \in Nat
        /\ Len(s) - n + 1 \in 1..(Len(s) + 1)
    BY <1>2, LenProperties
  <2>2. /\ SubSeq(s, Len(s) - n + 1, Len(s)) \in Seq(S)
        /\ Len(SubSeq(s, Len(s) - n + 1, Len(s))) <= n
    BY <2>1, SubSeqProperties, \A i \in 1..Len(s) : s[i] \in S
  <2>3. QED
    BY <1>2, <2>2 DEF KeepLast
<1>3. QED
  BY <1>1, <1>2

\* RPUSH adds one element and keeps the others.
LEMMA AppendRange ==
    ASSUME NEW S, NEW s \in Seq(S), NEW x \in S
    PROVE  /\ Append(s, x) \in Seq(S)
           /\ Range(Append(s, x)) = Range(s) \cup {x}
<1>1. /\ Append(s, x) \in Seq(S)
      /\ Len(Append(s, x)) = Len(s) + 1
      /\ \A i \in 1..Len(s) : Append(s, x)[i] = s[i]
      /\ Append(s, x)[Len(s) + 1] = x
  BY AppendProperties
<1>2. Range(Append(s, x)) = {Append(s, x)[i] : i \in 1..(Len(s) + 1)}
  BY <1>1, RangeEquality
<1>3. Range(s) = {s[i] : i \in 1..Len(s)}
  BY RangeEquality
<1>4. Len(s) \in Nat
  BY LenProperties
<1>5. QED
  BY <1>1, <1>2, <1>3, <1>4

\* LMOVE ... LEFT takes the first element and keeps the others.
LEMMA HeadTailRange ==
    ASSUME NEW S, NEW s \in Seq(S), s # <<>>
    PROVE  /\ Head(s) \in S /\ Tail(s) \in Seq(S)
           /\ Range(s) = {Head(s)} \cup Range(Tail(s))
<1>1. /\ Head(s) \in S /\ Tail(s) \in Seq(S)
      /\ Len(Tail(s)) = Len(s) - 1
      /\ \A i \in 1..Len(Tail(s)) : Tail(s)[i] = s[i + 1]
  BY HeadTailProperties
<1>2. Head(s) = s[1] /\ Len(s) \in Nat \ {0}
  BY LenProperties, EmptySeq
<1>3. Range(s) = {s[i] : i \in 1..Len(s)}
  BY RangeEquality
<1>4. Range(Tail(s)) = {Tail(s)[i] : i \in 1..Len(Tail(s))}
  BY <1>1, RangeEquality
<1>5. Range(s) \subseteq {Head(s)} \cup Range(Tail(s))
  <2> SUFFICES ASSUME NEW i \in 1..Len(s) PROVE s[i] \in {Head(s)} \cup Range(Tail(s))
    BY <1>3
  <2>1. CASE i = 1
    BY <2>1, <1>2
  <2>2. CASE i # 1
    <3>1. i - 1 \in 1..Len(Tail(s)) /\ s[i] = Tail(s)[i - 1]
      BY <2>2, <1>1, <1>2
    <3>2. QED
      BY <3>1, <1>4
  <2>3. QED
    BY <2>1, <2>2
<1>6. {Head(s)} \cup Range(Tail(s)) \subseteq Range(s)
  BY <1>1, <1>2, <1>3, <1>4
<1>7. QED
  BY <1>1, <1>5, <1>6

\* ... and puts it at the head of the in-flight list.
LEMMA PrependRange ==
    ASSUME NEW S, NEW s \in Seq(S), NEW x \in S
    PROVE  /\ <<x>> \o s \in Seq(S)
           /\ Range(<<x>> \o s) = {x} \cup Range(s)
<1>1. <<x>> \in Seq(S) /\ Len(<<x>>) = 1 /\ <<x>>[1] = x
  OBVIOUS
<1>2. Range(<<x>>) = {<<x>>[i] : i \in 1..1}
  BY <1>1, RangeEquality
<1>3. Range(<<x>> \o s) = Range(<<x>>) \cup Range(s)
  BY <1>1, RangeConcatenation
<1>4. <<x>> \o s \in Seq(S)
  BY <1>1, ConcatProperties
<1>5. QED
  BY <1>1, <1>2, <1>3, <1>4

\* A sequence of one element is the tuple of its head.
LEMMA OneElement ==
    ASSUME NEW S, NEW s \in Seq(S), Len(s) <= 1, s # <<>>
    PROVE  s = <<Head(s)>>
<1>1. Len(s) \in Nat /\ Len(s) # 0 /\ Head(s) \in S /\ Head(s) = s[1]
  OBVIOUS
<1>2. Len(s) = 1
  <2>1. \A n \in Nat : n <= 1 /\ n # 0 => n = 1
    OBVIOUS
  <2>2. QED
    BY <2>1, <1>1, Zenon
<1>3. <<Head(s)>> \in Seq(S) /\ Len(<<Head(s)>>) = 1 /\ <<Head(s)>>[1] = Head(s)
  BY <1>1
<1>4. \A i \in 1..Len(s) : s[i] = <<Head(s)>>[i]
  <2>1. \A i \in 1..Len(s) : i = 1
    BY <1>2
  <2>2. QED
    BY <2>1, <1>1, <1>3
<1>5. QED
  BY <1>2, <1>3, <1>4, SeqEqual

\* The list t consists of elements that s has at distinct positions.
Selected(t, s) ==
    \E from \in [DOMAIN t -> DOMAIN s] :
        /\ \A i, k \in DOMAIN t : from[i] = from[k] => i = k
        /\ \A i \in DOMAIN t : t[i] = s[from[i]]

\* A sieve returns a sequence of the elements at the chosen positions, all of them,
\* each once.
LEMMA SieveRange ==
    ASSUME NEW S, NEW s \in Seq(S), NEW keep \in SUBSET (1..Len(s))
    PROVE  /\ Sieve(s, keep) \in Seq(S)
           /\ Range(Sieve(s, keep)) = {s[i] : i \in keep}
           /\ Selected(Sieve(s, keep), s)
<1> DEFINE n == Cardinality(keep)
           below(i) == {m \in keep : m <= i}
           rank == [i \in keep |-> Cardinality({m \in keep : m <= i})]
           nth == [k \in 1..n |-> CHOOSE i \in keep : rank[i] = k]
<1>1. Len(s) \in Nat /\ IsFiniteSet(1..Len(s))
  BY LenProperties, FS_Interval
<1>2. IsFiniteSet(keep) /\ n \in Nat
  BY <1>1, FS_Subset, FS_CardinalityType
<1>3. ASSUME NEW i \in keep PROVE rank[i] \in 1..n
  <2>1. below(i) \in SUBSET keep /\ i \in below(i)
    BY <1>1
  <2>2. /\ IsFiniteSet(below(i)) /\ Cardinality(below(i)) <= n
        /\ Cardinality(below(i)) \in Nat /\ Cardinality(below(i)) # 0
    BY <1>2, <2>1, FS_Subset, FS_CardinalityType, FS_EmptySet
  <2>3. QED
    BY <1>2, <2>2
<1>4. ASSUME NEW i \in keep, NEW j \in keep, i < j PROVE rank[i] # rank[j]
  <2>1. below(i) \in SUBSET below(j) /\ j \in below(j) /\ j \notin below(i)
    <3>1. i \in Int /\ j \in Int /\ \A m \in keep : m \in Int
      BY <1>1
    <3>2. \A m \in keep : m <= i => m <= j
      BY <1>4, <3>1
    <3>3. j <= j /\ ~(j <= i)
      BY <1>4, <3>1
    <3>4. QED
      BY <3>2, <3>3
  <2>2. below(j) \in SUBSET keep /\ IsFiniteSet(below(j))
    BY <1>2, FS_Subset
  <2>3. Cardinality(below(i)) # Cardinality(below(j))
    BY <2>1, <2>2, FS_Subset
  <2>4. QED
    BY <2>3
<1>5. rank \in Injection(keep, 1..n)
  <2>1. rank \in [keep -> 1..n]
    BY <1>3
  <2>2. \A i, j \in keep : rank[i] = rank[j] => i = j
    <3> SUFFICES ASSUME NEW i \in keep, NEW j \in keep, i # j PROVE rank[i] # rank[j]
      OBVIOUS
    <3>1. i < j \/ j < i
      BY <1>1
    <3>2. QED
      BY <1>4, <3>1
  <2>3. QED
    BY <2>1, <2>2 DEF Injection, IsInjective
<1>6. rank \in Surjection(keep, 1..n)
  <2>1. IsFiniteSet(1..n) /\ Cardinality(1..n) = n
    BY <1>2, FS_Interval
  <2>2. QED
    BY <1>5, <2>1, FS_Injection
<1>7. ASSUME NEW k \in 1..n PROVE nth[k] \in keep /\ rank[nth[k]] = k
  BY <1>6 DEF Surjection
<1>8. ASSUME NEW i \in keep PROVE nth[rank[i]] = i
  BY <1>3, <1>5, <1>7 DEF Injection, IsInjective
<1>9. Sieve(s, keep) = [k \in 1..n |-> s[nth[k]]]
  BY DEF Sieve
<1>10. \A k \in 1..n : s[nth[k]] \in S
  BY <1>7, ElementOfSeq
<1>11. Sieve(s, keep) \in Seq(S) /\ DOMAIN Sieve(s, keep) = 1..n
  <2> HIDE DEF n, nth
  <2>1. Sieve(s, keep) \in [1..n -> S]
    BY <1>9, <1>10
  <2>2. QED
    BY <1>2, <2>1, SeqDef
<1>12. Range(Sieve(s, keep)) = {s[nth[k]] : k \in 1..n}
  <2> HIDE DEF n, nth
  <2>1. QED
    BY <1>9, <1>11 DEF Range
<1>13. Range(Sieve(s, keep)) \subseteq {s[i] : i \in keep}
  <2> HIDE DEF n, nth
  <2>1. QED
    BY <1>7, <1>12
<1>14. {s[i] : i \in keep} \subseteq Range(Sieve(s, keep))
  <2> SUFFICES ASSUME NEW i \in keep PROVE s[i] \in Range(Sieve(s, keep))
    OBVIOUS
  <2>1. rank[i] \in 1..n /\ nth[rank[i]] = i
    BY <1>3, <1>8
  <2> HIDE DEF n, nth, rank
  <2>2. QED
    BY <1>12, <2>1
<1>15. Selected(Sieve(s, keep), s)
  <2>1. DOMAIN s = 1..Len(s) /\ nth \in [1..n -> DOMAIN s]
    <3>1. DOMAIN s = 1..Len(s) /\ keep \subseteq DOMAIN s
      OBVIOUS
    <3>2. \A k \in 1..n : nth[k] \in DOMAIN s
      BY <1>7, <3>1
    <3> HIDE DEF n, rank
    <3>3. nth \in [1..n -> DOMAIN s]
      BY <3>2, Zenon
    <3>4. QED
      BY <3>1, <3>3
  <2>2. \A k, m \in 1..n : nth[k] = nth[m] => k = m
    BY <1>7
  <2> HIDE DEF n, nth
  <2>3. \A k \in 1..n : Sieve(s, keep)[k] = s[nth[k]]
    BY <1>9
  <2>4. QED
    BY <1>11, <2>1, <2>2, <2>3 DEF Selected
<1>16. QED
  BY <1>11, <1>13, <1>14, <1>15

\* LREM removes every copy of one element and keeps the others.
LEMMA LRemRange ==
    ASSUME NEW S, NEW s \in Seq(S), NEW x
    PROVE  /\ LRem(s, x) \in Seq(S)
           /\ Range(LRem(s, x)) = Range(s) \ {x}
           /\ Selected(LRem(s, x), s)
<1> DEFINE keep == {i \in 1..Len(s) : s[i] # x}
<1>1. keep \in SUBSET (1..Len(s))
  OBVIOUS
<1>2. Range(s) = {s[i] : i \in 1..Len(s)}
  BY RangeEquality
<1>3. {s[i] : i \in keep} = Range(s) \ {x}
  BY <1>2
<1>4. LRem(s, x) = Sieve(s, keep)
  BY DEF LRem
<1> HIDE DEF keep
<1>5. QED
  BY <1>1, <1>3, <1>4, SieveRange

\* LMOVE and LTRIM take elements from the front.
LEMMA TailSelected ==
    ASSUME NEW S, NEW s \in Seq(S), s # <<>>
    PROVE  Selected(Tail(s), s) /\ \A i \in DOMAIN Tail(s) : i + 1 \in DOMAIN s /\ Tail(s)[i] = s[i + 1]
<1>1. /\ Len(s) \in Nat /\ Len(s) # 0 /\ DOMAIN s = 1..Len(s)
      /\ Tail(s) \in Seq(S) /\ Len(Tail(s)) = Len(s) - 1
      /\ \A i \in 1..Len(Tail(s)) : Tail(s)[i] = s[i + 1]
  BY LenProperties, EmptySeq, HeadTailProperties
<1>2. DOMAIN Tail(s) = 1..(Len(s) - 1)
  BY <1>1
<1> DEFINE from == [i \in DOMAIN Tail(s) |-> i + 1]
<1>3. from \in [DOMAIN Tail(s) -> DOMAIN s]
  BY <1>1, <1>2
<1>4. \A i, k \in DOMAIN Tail(s) : from[i] = from[k] => i = k
  BY <1>2
<1>5. \A i \in DOMAIN Tail(s) : from[i] = i + 1 /\ i + 1 \in DOMAIN s /\ Tail(s)[i] = s[i + 1]
  BY <1>1, <1>2
<1>6. \A i \in DOMAIN Tail(s) : Tail(s)[i] = s[from[i]]
  BY <1>5
<1> HIDE DEF from
<1>7. QED
  BY <1>3, <1>4, <1>5, <1>6 DEF Selected

\* LTRIM selects, too.
LEMMA KeepLastSelected ==
    ASSUME NEW S, NEW s \in Seq(S), NEW n \in Nat
    PROVE  Selected(KeepLast(s, n), s)
<1>1. Len(s) \in Nat /\ DOMAIN s = 1..Len(s)
  BY LenProperties
<1>2. CASE Len(s) <= n
  <2>1. KeepLast(s, n) = s
    BY <1>2 DEF KeepLast
  <2> DEFINE from == [i \in DOMAIN s |-> i]
  <2>2. from \in [DOMAIN s -> DOMAIN s]
    OBVIOUS
  <2>3. (\A i, k \in DOMAIN s : from[i] = from[k] => i = k) /\ \A i \in DOMAIN s : s[i] = s[from[i]]
    OBVIOUS
  <2> HIDE DEF from
  <2>4. QED
    BY <2>1, <2>2, <2>3 DEF Selected
<1>3. CASE ~(Len(s) <= n)
  <2> DEFINE t == SubSeq(s, Len(s) - n + 1, Len(s))
             from == [i \in 1..n |-> i + (Len(s) - n)]
  <2>1. KeepLast(s, n) = t /\ Len(s) - n \in Nat
    BY <1>1, <1>3 DEF KeepLast
  <2>2. DOMAIN t = 1..n /\ \A i \in 1..n : t[i] = s[i + (Len(s) - n)]
    BY <1>1, <2>1
  <2>3. from \in [1..n -> 1..Len(s)] /\ \A i, k \in 1..n : from[i] = from[k] => i = k
    BY <1>1, <2>1
  <2>4. \A i \in 1..n : t[i] = s[from[i]]
    BY <2>2
  <2> HIDE DEF t, from
  <2>5. /\ from \in [DOMAIN t -> DOMAIN s]
        /\ \A i, k \in DOMAIN t : from[i] = from[k] => i = k
        /\ \A i \in DOMAIN t : t[i] = s[from[i]]
    BY <1>1, <2>2, <2>3, <2>4
  <2>6. Selected(t, s)
    BY <2>5 DEF Selected
  <2>7. QED
    BY <2>1, <2>6
<1>4. QED
  BY <1>2, <1>3

-----------------------------------------------------------------------------
(* The commands.                                                           *)

USE DEF Applied, Replied

\* A command counts at most one fault and no other bounded event.
LEMMA CommandType ==
    ASSUME CountersTypeOK, NEW o, Command(o)
    PROVE  CountersTypeOK'
BY BoundsAssumption DEF BoundsAssumption, CountersTypeOK, Command

\* RPUSH on a ready list keeps the lists and the history typed.
LEMMA PushReadyType ==
    ASSUME StoreTypeOK, HistoryTypeOK, NEW e \in Envelope, NEW o, PushReady(e, o)
    PROVE  ready' \in [Keys -> Seq(Envelope)] /\ late' \subseteq Jobs
<1>1. e.id \in Jobs /\ Priority[e.id] \in Keys
  BY JobsAssumption DEF Envelope
<1>2. Append(ready[Priority[e.id]], e) \in Seq(Envelope)
  BY <1>1, AppendProperties DEF StoreTypeOK
<1>3. QED
  BY <1>1, <1>2 DEF PushReady, StoreTypeOK, HistoryTypeOK

\* A retry counts one attempt more.
LEMMA RetriedType ==
    ASSUME NEW e \in Envelope
    PROVE  Retried(e) \in Envelope /\ Retried(e).id = e.id
<1>1. e.attempts + 1 \in Nat /\ e.id \in Jobs
  BY DEF Envelope
<1>2. QED
  BY <1>1 DEF Envelope, Retried

\* DEL keeps the in-flight list and its age typed.
LEMMA DelInflightType ==
    ASSUME StoreTypeOK, NEW o, DelInflight(o)
    PROVE  inflight' \in Seq(Envelope) /\ since' \in {"absent", "fresh", "expired"}
BY EmptySeq DEF DelInflight, StoreTypeOK

\* The append to done keeps it typed and trimmed.
LEMMA AppendFinishedType ==
    ASSUME StoreTypeOK, HistoryTypeOK, NEW e \in Envelope, NEW result \in Results, NEW o,
           AppendFinished(e, result, o)
    PROVE  done' \in Seq(Record) /\ finished' \subseteq Jobs
<1> DEFINE r == [id |-> e.id, result |-> result]
<1>1. r \in Record /\ e.id \in Jobs
  BY DEF Envelope, Record
<1>2. Append(done, r) \in Seq(Record)
  BY <1>1, AppendProperties DEF StoreTypeOK
<1>3. QED
  BY <1>1, <1>2 DEF AppendFinished, StoreTypeOK, HistoryTypeOK

\* LTRIM keeps a list typed.
LEMMA TrimType ==
    ASSUME NEW S, NEW s \in Seq(S), NEW cap \in {DoneCap, DeadCap}
    PROVE  KeepLast(s, cap) \in Seq(S)
<1>1. cap \in Nat
  BY BoundsAssumption DEF BoundsAssumption
<1>2. QED
  BY <1>1, KeepLastType

\* The end of the process leaves everything volatile in its initial state.
LEMMA EndProcessType ==
    ASSUME EndProcess
    PROVE  ProcTypeOK' /\ ConnTypeOK'
<1>1. ProcTypeOK'
  BY DEF EndProcess, ProcTypeOK, AllIdle, Procs, ProcSteps, HoldingSteps, NackSteps, Results, Causes
<1>2. ConnTypeOK'
  BY DEF EndProcess, ConnTypeOK, RemoverIdle, RemoverAt, RemoverStates, Keys
<1>3. QED
  BY <1>1, <1>2

\* A goroutine that goes on to one of its steps, holding what that needs.
LEMMA GotoType ==
    ASSUME ProcTypeOK, NEW p \in Procs, NEW step \in ProcSteps[p], Goto(p, step),
           held' \in [Procs -> Envelope \cup {NoEnvelope}],
           \A q \in Procs \ {p} : held'[q] = held[q],
           step \in HoldingSteps => held'[p] \in Envelope,
           UNCHANGED <<life, verdict, running>>
    PROVE  ProcTypeOK'
<1>1. \A q \in Procs : pc'[q] = IF q = p THEN step ELSE pc[q]
  BY DEF Goto, ProcTypeOK
<1>2. pc' \in [Procs -> UNION {ProcSteps[q] : q \in Procs}]
  BY DEF Goto, ProcTypeOK
<1>3. \A q \in Procs : pc'[q] \in ProcSteps[q]
  BY <1>1 DEF ProcTypeOK
<1>4. \A q \in Procs : pc'[q] \in HoldingSteps => held'[q] \in Envelope
  BY <1>1 DEF ProcTypeOK
<1>5. QED
  BY <1>2, <1>3, <1>4 DEF ProcTypeOK

\* The same when it keeps the envelope it holds ...
LEMMA StepType ==
    ASSUME ProcTypeOK, NEW p \in Procs, NEW step \in ProcSteps[p], Goto(p, step),
           step \in HoldingSteps => held[p] \in Envelope,
           UNCHANGED <<life, held, verdict, running>>
    PROVE  ProcTypeOK'
<1>1. held' \in [Procs -> Envelope \cup {NoEnvelope}]
  BY DEF ProcTypeOK
<1>2. QED
  BY <1>1, GotoType

\* ... and when it takes another one.
LEMMA TakeType ==
    ASSUME ProcTypeOK, NEW p \in Procs, NEW step \in ProcSteps[p], Goto(p, step),
           NEW e \in Envelope, Hold(p, e), UNCHANGED <<life, verdict, running>>
    PROVE  ProcTypeOK'
<1>1. /\ held' \in [Procs -> Envelope \cup {NoEnvelope}]
      /\ held'[p] = e
      /\ \A q \in Procs \ {p} : held'[q] = held[q]
  BY DEF ProcTypeOK, Hold
<1>2. QED
  BY <1>1, GotoType

\* A goroutine that returns to its loop.
LEMMA ResumeType ==
    ASSUME ProcTypeOK, ConnTypeOK, NEW p \in Procs, NEW success, Resume(p, success)
    PROVE  ProcTypeOK' /\ ConnTypeOK'
<1>1. CASE p = "boot" /\ ~success
  BY <1>1, EndProcessType DEF Resume
<1>2. CASE ~(p = "boot" /\ ~success)
  <2>1. UNCHANGED <<held, verdict, running, connVars>>
    BY <1>2 DEF Resume
  <2>2. /\ p = "worker" => pc' = [pc EXCEPT !["worker"] = "head"]
        /\ p = "janitor" => pc' = [pc EXCEPT !["janitor"] = "idle"]
        /\ p = "boot" => pc' = [pc EXCEPT !["boot"] = "idle", !["worker"] = "head"]
        /\ life' \in {"up", life}
    BY <1>2 DEF Resume
  <2>3. ConnTypeOK'
    BY <2>1 DEF connVars, ConnTypeOK
  <2>4. ProcTypeOK'
    BY <2>1, <2>2 DEF ProcTypeOK, Procs, ProcSteps, HoldingSteps, NackSteps
  <2>5. QED
    BY <2>3, <2>4
<1>3. QED
  BY <1>1, <1>2

\* Cancelling the running job.
LEMMA CancelType ==
    ASSUME TypeOK, NEW cause \in Causes, running.env # NoEnvelope, Cancel(cause)
    PROVE  /\ running' \in [env : Envelope \cup {NoEnvelope}, cause : Causes]
           /\ stopped' \subseteq Jobs
<1>1. running \in [env : Envelope \cup {NoEnvelope}, cause : Causes]
  BY DEF TypeOK, ProcTypeOK
<1>2. running' \in [env : Envelope \cup {NoEnvelope}, cause : Causes]
  BY <1>1 DEF Cancel
<1>3. running.env.id \in Jobs
  BY <1>1 DEF Envelope
<1>4. QED
  BY <1>2, <1>3 DEF Cancel, TypeOK, HistoryTypeOK

\* What an action leaves alone keeps its type.
LEMMA UnchangedType ==
    ASSUME TypeOK
    PROVE  /\ UNCHANGED store => StoreTypeOK'
           /\ UNCHANGED <<life, workerVars>> => ProcTypeOK'
           /\ UNCHANGED connVars => ConnTypeOK'
           /\ UNCHANGED bounds => CountersTypeOK'
           /\ UNCHANGED <<due, history>> => HistoryTypeOK'
BY DEF TypeOK, StoreTypeOK, ProcTypeOK, ConnTypeOK, CountersTypeOK, HistoryTypeOK,
       store, workerVars, connVars, bounds, history

-----------------------------------------------------------------------------
(* Type correctness, action by action.                                     *)

LEMMA NackType ==
    ASSUME TypeOK, NEW p \in Procs, NackStep(p)
    PROVE  TypeOK'
<1> USE DEF TypeOK
<1>1. pc[p] \in NackSteps => held[p] \in Envelope
  BY DEF ProcTypeOK, HoldingSteps
<1>2. ASSUME NEW step \in NackSteps
      PROVE  step \in ProcSteps[p]
  BY DEF Procs, ProcSteps, NackSteps
<1>3. CASE Nack(p)
  <2>1. PICK o \in Outcome :
          LET e == Retried(held[p]) IN
          /\ pc[p] = "nack"
          /\ Command(o)
          /\ IF Exhausted(e)
             THEN /\ dead' = IF Applied(o) THEN Append(dead, e) ELSE dead
                  /\ finished' = IF Applied(o) THEN finished \cup {e.id} ELSE finished
                  /\ UNCHANGED <<ready, late>>
             ELSE PushReady(e, o) /\ UNCHANGED <<dead, finished>>
          /\ IF Replied(o)
             THEN Continue(p, AfterNackPush(e))
             ELSE Resume(p, FALSE)
    BY <1>3 DEF Nack
  <2> DEFINE e == Retried(held[p])
  <2>2. e \in Envelope
    BY <1>1, <2>1, RetriedType DEF NackSteps
  <2>3. ProcTypeOK' /\ ConnTypeOK'
    <3>1. CASE Replied(o)
      <4>1. Continue(p, AfterNackPush(e))
        BY <2>1, <3>1
      <4>2. AfterNackPush(e) \in NackSteps
        BY DEF AfterNackPush, NackSteps
      <4>3. QED
        BY <4>1, <4>2, <1>1, <1>2, <2>1, StepType, UnchangedType DEF Continue, NackSteps
    <3>2. CASE ~Replied(o)
      BY <3>2, <2>1, ResumeType
    <3>3. QED
      BY <3>1, <3>2
  <2>4. CountersTypeOK'
    BY <2>1, CommandType
  <2>5. CASE Exhausted(e)
    <3>1. /\ Append(dead, e) \in Seq(Envelope)
          /\ e.id \in Jobs
      BY <2>2, AppendProperties DEF StoreTypeOK, Envelope
    <3>2. UNCHANGED <<inflight, since, done, due, accepted, born, dropped, stopped, passed>>
      BY <1>3 DEF Nack
    <3>3. UNCHANGED <<ready, late>>
      BY <2>1, <2>5
    <3>4. StoreTypeOK'
      BY <2>1, <2>5, <3>1, <3>2, <3>3 DEF StoreTypeOK
    <3>5. HistoryTypeOK'
      BY <2>1, <2>5, <3>1, <3>2, <3>3 DEF HistoryTypeOK
    <3>6. QED
      BY <2>3, <2>4, <3>4, <3>5
  <2>6. CASE ~Exhausted(e)
    <3>1. PushReady(e, o) /\ UNCHANGED <<dead, finished>>
      BY <2>1, <2>6
    <3>2. ready' \in [Keys -> Seq(Envelope)] /\ late' \subseteq Jobs
      BY <2>2, <3>1, PushReadyType
    <3>3. UNCHANGED <<inflight, since, done, due, accepted, born, dropped, stopped, passed>>
      BY <1>3 DEF Nack
    <3>4. StoreTypeOK' /\ HistoryTypeOK'
      BY <3>1, <3>2, <3>3 DEF StoreTypeOK, HistoryTypeOK
    <3>5. QED
      BY <2>3, <2>4, <3>4
  <2>7. QED
    BY <2>5, <2>6
<1>4. CASE NackFinished(p)
  <2>1. PICK o \in Outcome :
          /\ pc[p] = "nackdone"
          /\ Command(o)
          /\ AppendFinished(held[p], "failed", o)
          /\ IF Replied(o) THEN Continue(p, "donetrim") ELSE Resume(p, FALSE)
    BY <1>4 DEF NackFinished
  <2>2. held[p] \in Envelope /\ "failed" \in Results /\ "donetrim" \in ProcSteps[p]
    BY <1>1, <1>2, <2>1 DEF NackSteps, Results
  <2>3. ProcTypeOK' /\ ConnTypeOK'
    <3>1. CASE Replied(o)
      BY <3>1, <2>1, <2>2, StepType, UnchangedType DEF Continue
    <3>2. CASE ~Replied(o)
      BY <3>2, <2>1, ResumeType
    <3>3. QED
      BY <3>1, <3>2
  <2>4. CountersTypeOK'
    BY <2>1, CommandType
  <2>5. done' \in Seq(Record) /\ finished' \subseteq Jobs
    BY <2>1, <2>2, AppendFinishedType
  <2>6. UNCHANGED <<ready, inflight, since, dead, due, accepted, born, dropped, stopped,
                    passed, late>>
    BY <1>4 DEF NackFinished
  <2>7. QED
    BY <2>3, <2>4, <2>5, <2>6 DEF StoreTypeOK, HistoryTypeOK
<1>5. CASE NackDelete(p)
  <2>1. PICK o \in Outcome :
          /\ pc[p] = "nackdel" /\ Command(o) /\ DelInflight(o) /\ Resume(p, Replied(o))
    BY <1>5 DEF NackDelete
  <2>2. ProcTypeOK' /\ ConnTypeOK'
    BY <2>1, ResumeType
  <2>3. CountersTypeOK'
    BY <2>1, CommandType
  <2>4. UNCHANGED <<ready, done, dead, due, history>>
    BY <1>5 DEF NackDelete
  <2>5. StoreTypeOK' /\ HistoryTypeOK'
    BY <2>1, <2>4, DelInflightType DEF StoreTypeOK, HistoryTypeOK, history
  <2>6. QED
    BY <2>2, <2>3, <2>5
<1>6. CASE TrimDead(p)
  <2>1. PICK o \in Outcome :
          /\ pc[p] = "deadtrim"
          /\ Command(o)
          /\ dead' = IF Applied(o) THEN KeepLast(dead, DeadCap) ELSE dead
          /\ IF Replied(o) THEN Continue(p, "nackdone") ELSE Resume(p, FALSE)
    BY <1>6 DEF TrimDead
  <2>2. held[p] \in Envelope /\ "nackdone" \in ProcSteps[p]
    BY <1>1, <1>2, <2>1 DEF NackSteps
  <2>3. ProcTypeOK' /\ ConnTypeOK'
    BY <2>1, <2>2, StepType, ResumeType, UnchangedType DEF Continue
  <2>4. UNCHANGED <<ready, inflight, since, done, due, history>>
    BY <1>6 DEF TrimDead
  <2>5. StoreTypeOK'
    BY <2>1, <2>4, TrimType DEF StoreTypeOK
  <2>6. QED
    BY <2>1, <2>3, <2>4, <2>5, CommandType, UnchangedType
<1>7. CASE TrimDone(p)
  <2> DEFINE next == IF pc[p] = "acktrim" THEN "ackdel" ELSE "nackdel"
  <2>1. PICK o \in Outcome :
          /\ pc[p] \in {"donetrim", "acktrim"}
          /\ Command(o)
          /\ done' = IF Applied(o) THEN KeepLast(done, DoneCap) ELSE done
          /\ IF Replied(o) THEN Continue(p, next) ELSE Resume(p, FALSE)
    BY <1>7 DEF TrimDone
  <2>2. held[p] \in Envelope /\ next \in ProcSteps[p]
    <3>1. held[p] \in Envelope
      BY <2>1 DEF ProcTypeOK, HoldingSteps, NackSteps
    <3>2. pc[p] \in ProcSteps[p]
      BY DEF ProcTypeOK
    <3>3. pc[p] = "acktrim" => p = "worker"
      BY <3>2 DEF Procs, ProcSteps, NackSteps
    <3>4. "nackdel" \in ProcSteps[p] /\ "ackdel" \in ProcSteps["worker"]
      BY <1>2 DEF ProcSteps, NackSteps
    <3>5. QED
      BY <3>1, <3>3, <3>4
  <2>3. ProcTypeOK' /\ ConnTypeOK'
    BY <2>1, <2>2, StepType, ResumeType, UnchangedType DEF Continue
  <2>4. UNCHANGED <<ready, inflight, since, dead, due, history>>
    BY <1>7 DEF TrimDone
  <2>5. StoreTypeOK'
    BY <2>1, <2>4, TrimType DEF StoreTypeOK
  <2>6. QED
    BY <2>1, <2>3, <2>4, <2>5, CommandType, UnchangedType
<1>8. QED
  BY <1>3, <1>4, <1>5, <1>6, <1>7 DEF NackStep

LEMMA AckType ==
    ASSUME TypeOK, Ack \/ AckDelete
    PROVE  TypeOK'
<1> USE DEF TypeOK
<1> DEFINE w == "worker"
<1>1. w \in Procs /\ verdict \in Results /\ (pc[w] \in HoldingSteps => held[w] \in Envelope)
  BY DEF ProcTypeOK, Procs
<1>2. CASE Ack
  <2>1. PICK o \in Outcome :
          /\ pc[w] = "ack"
          /\ Command(o)
          /\ AppendFinished(held[w], verdict, o)
          /\ IF Replied(o) THEN Continue(w, "acktrim") ELSE Resume(w, FALSE)
    BY <1>2 DEF Ack
  <2>2. held[w] \in Envelope /\ "acktrim" \in ProcSteps[w]
    BY <1>1, <2>1 DEF HoldingSteps, ProcSteps
  <2>3. ProcTypeOK' /\ ConnTypeOK'
    <3>1. CASE Replied(o)
      BY <3>1, <1>1, <2>1, <2>2, StepType, UnchangedType DEF Continue
    <3>2. CASE ~Replied(o)
      BY <3>2, <1>1, <2>1, ResumeType
    <3>3. QED
      BY <3>1, <3>2
  <2>4. CountersTypeOK'
    BY <2>1, CommandType
  <2>5. done' \in Seq(Record) /\ finished' \subseteq Jobs
    BY <1>1, <2>1, <2>2, AppendFinishedType
  <2>6. UNCHANGED <<ready, inflight, since, dead, due, accepted, born, dropped, stopped,
                    passed, late>>
    BY <1>2 DEF Ack
  <2>7. QED
    BY <2>3, <2>4, <2>5, <2>6 DEF StoreTypeOK, HistoryTypeOK
<1>3. CASE AckDelete
  <2>1. PICK o \in Outcome :
          /\ pc[w] = "ackdel" /\ Command(o) /\ DelInflight(o) /\ Resume(w, Replied(o))
    BY <1>3 DEF AckDelete
  <2>2. ProcTypeOK' /\ ConnTypeOK'
    BY <1>1, <2>1, ResumeType
  <2>3. CountersTypeOK'
    BY <2>1, CommandType
  <2>4. UNCHANGED <<ready, done, dead, due, history>>
    BY <1>3 DEF AckDelete
  <2>5. StoreTypeOK' /\ HistoryTypeOK'
    BY <2>1, <2>4, DelInflightType DEF StoreTypeOK, HistoryTypeOK, history
  <2>6. QED
    BY <2>2, <2>3, <2>5
<1>4. QED
  BY <1>2, <1>3

LEMMA PopType ==
    ASSUME TypeOK, Pop
    PROVE  TypeOK'
<1> USE DEF TypeOK
<1> DEFINE w == "worker"  list == ready[PopKey]
<1>1. w \in Procs /\ PopKey \in Keys /\ {"head", "since", "popS"} \subseteq ProcSteps[w]
  BY DEF Procs, PopKey, Keys, ProcSteps
<1>2. PICK o \in Outcome :
        /\ Command(o)
        /\ IF Applied(o) /\ list # <<>>
           THEN /\ ready' = [ready EXCEPT ![PopKey] = Tail(list)]
                /\ inflight' = <<Head(list)>> \o inflight
                /\ passed' = [passed EXCEPT ![Head(list).id] = 0]
           ELSE UNCHANGED <<ready, inflight, passed>>
        /\ IF ~Replied(o)
           THEN Goto(w, "head") /\ UNCHANGED held
           ELSE IF list = <<>>
                THEN Goto(w, AfterKey(PopKey)) /\ UNCHANGED held
                ELSE Goto(w, "since") /\ Hold(w, Head(list))
  BY DEF Pop
<1>3. UNCHANGED <<since, done, dead, life, verdict, running, connVars, due>>
      /\ UNCHANGED <<accepted, born, finished, dropped, stopped, late>>
  BY DEF Pop
<1>4. list \in Seq(Envelope)
  BY <1>1 DEF StoreTypeOK
<1>5. list # <<>> => Head(list) \in Envelope /\ Tail(list) \in Seq(Envelope)
  BY <1>4, HeadTailProperties
<1>6. ProcTypeOK'
  <2>1. CASE ~Replied(o)
    <3>1. Goto(w, "head") /\ UNCHANGED held /\ "head" \notin HoldingSteps
      BY <2>1, <1>2 DEF HoldingSteps, NackSteps
    <3>2. QED
      BY <3>1, <1>1, <1>3, StepType
  <2>2. CASE Replied(o) /\ list = <<>>
    <3>1. Goto(w, AfterKey(PopKey)) /\ UNCHANGED held
      BY <2>2, <1>2
    <3>2. AfterKey(PopKey) \in ProcSteps[w] /\ AfterKey(PopKey) \notin HoldingSteps
      BY <1>1 DEF AfterKey, HoldingSteps, NackSteps
    <3>3. QED
      BY <3>1, <3>2, <1>1, <1>3, StepType
  <2>3. CASE Replied(o) /\ list # <<>>
    <3>1. Goto(w, "since") /\ Hold(w, Head(list))
      BY <2>3, <1>2
    <3>2. QED
      BY <3>1, <2>3, <1>1, <1>3, <1>5, TakeType
  <2>4. QED
    BY <2>1, <2>2, <2>3
<1>7. CountersTypeOK'
  BY <1>2, CommandType
<1>8. ConnTypeOK'
  BY <1>3, UnchangedType
<1>9. StoreTypeOK' /\ HistoryTypeOK'
  <2>1. CASE Applied(o) /\ list # <<>>
    <3>1. /\ ready' = [ready EXCEPT ![PopKey] = Tail(list)]
          /\ inflight' = <<Head(list)>> \o inflight
          /\ passed' = [passed EXCEPT ![Head(list).id] = 0]
      BY <2>1, <1>2
    <3>2. ready' \in [Keys -> Seq(Envelope)]
      BY <3>1, <2>1, <1>1, <1>5 DEF StoreTypeOK
    <3>3. Head(list) \in Envelope /\ inflight \in Seq(Envelope)
      BY <2>1, <1>5 DEF StoreTypeOK
    <3>4. inflight' \in Seq(Envelope)
      BY <3>1, <3>3, PrependRange
    <3>5. passed' \in [Jobs -> 0..2]
      BY <3>1, 0 \in 0..2 DEF HistoryTypeOK
    <3>6. QED
      BY <3>2, <3>4, <3>5, <1>3 DEF StoreTypeOK, HistoryTypeOK
  <2>2. CASE ~(Applied(o) /\ list # <<>>)
    <3>1. UNCHANGED <<ready, inflight, passed>>
      BY <2>2, <1>2
    <3>2. QED
      BY <3>1, <1>3 DEF StoreTypeOK, HistoryTypeOK
  <2>3. QED
    BY <2>1, <2>2
<1>10. QED
  BY <1>6, <1>7, <1>8, <1>9

LEMMA WorkerQueueType ==
    ASSUME TypeOK, WorkerLoop \/ SetSince \/ Requeue \/ Unhold
    PROVE  TypeOK'
<1> USE DEF TypeOK
<1> DEFINE w == "worker"
<1>1. w \in Procs /\ (pc[w] \in HoldingSteps => held[w] \in Envelope)
  BY DEF ProcTypeOK, Procs
<1>2. CASE WorkerLoop
  <2>1. "popI" \in ProcSteps[w] /\ "popI" \notin HoldingSteps
    BY DEF ProcSteps, HoldingSteps, NackSteps
  <2>2. ProcTypeOK'
    BY <1>1, <1>2, <2>1, StepType DEF WorkerLoop
  <2>3. QED
    BY <1>2, <2>2, UnchangedType DEF WorkerLoop
<1>3. CASE SetSince
  <2>1. PICK o \in Outcome :
          /\ pc[w] = "since"
          /\ Command(o)
          /\ since' = IF Applied(o) THEN "fresh" ELSE since
          /\ Goto(w, IF Replied(o) THEN AfterSince ELSE "head")
    BY <1>3 DEF SetSince
  <2>2. UNCHANGED <<ready, inflight, done, dead, life, held, verdict, running, connVars, due, history>>
    BY <1>3 DEF SetSince
  <2>3. (IF Replied(o) THEN AfterSince ELSE "head") \in ProcSteps[w]
    BY DEF AfterSince, ProcSteps
  <2>4. held[w] \in Envelope
    BY <1>1, <2>1 DEF HoldingSteps
  <2>5. ProcTypeOK'
    BY <1>1, <2>1, <2>2, <2>3, <2>4, StepType
  <2>6. StoreTypeOK'
    BY <2>1, <2>2 DEF StoreTypeOK
  <2>7. QED
    BY <2>1, <2>2, <2>5, <2>6, CommandType, UnchangedType
<1>4. CASE Requeue
  <2>1. PICK o \in Outcome :
          /\ pc[w] = "requeue"
          /\ Command(o)
          /\ PushReady(held[w], o)
          /\ Goto(w, IF Replied(o) THEN "unhold" ELSE "head")
    BY <1>4 DEF Requeue
  <2>2. UNCHANGED <<inflight, since, done, dead, life, held, verdict, running, connVars, due,
                    accepted, born, finished, dropped, stopped, passed>>
    BY <1>4 DEF Requeue
  <2>3. (IF Replied(o) THEN "unhold" ELSE "head") \in ProcSteps[w]
    BY DEF ProcSteps
  <2>4. held[w] \in Envelope
    BY <1>1, <2>1 DEF HoldingSteps
  <2>5. ProcTypeOK'
    BY <1>1, <2>1, <2>2, <2>3, <2>4, StepType
  <2>6. ready' \in [Keys -> Seq(Envelope)] /\ late' \subseteq Jobs
    BY <2>1, <2>4, PushReadyType
  <2>7. StoreTypeOK' /\ HistoryTypeOK'
    BY <2>2, <2>6 DEF StoreTypeOK, HistoryTypeOK
  <2>8. QED
    BY <2>1, <2>2, <2>5, <2>7, CommandType, UnchangedType
<1>5. CASE Unhold
  <2>1. PICK o \in Outcome :
          /\ Command(o)
          /\ DelInflight(o)
          /\ Goto(w, AfterKey(Priority[held[w].id]))
    BY <1>5 DEF Unhold
  <2>2. UNCHANGED <<ready, done, dead, life, held, verdict, running, connVars, due, history>>
    BY <1>5 DEF Unhold
  <2>3. AfterKey(Priority[held[w].id]) \in ProcSteps[w] \ HoldingSteps
    BY DEF AfterKey, ProcSteps, HoldingSteps, NackSteps
  <2>4. ProcTypeOK'
    BY <1>1, <2>1, <2>2, <2>3, StepType
  <2>5. StoreTypeOK'
    BY <2>1, <2>2, DelInflightType DEF StoreTypeOK
  <2>6. QED
    BY <2>1, <2>2, <2>4, <2>5, CommandType, UnchangedType
<1>6. QED
  BY <1>2, <1>3, <1>4, <1>5

LEMMA ExecutionType ==
    ASSUME TypeOK, StartJob \/ Execute \/ ClearRunning
    PROVE  TypeOK'
<1> USE DEF TypeOK
<1> DEFINE w == "worker"
<1>1. w \in Procs /\ pc \in [Procs -> UNION {ProcSteps[p] : p \in Procs}]
      /\ (pc[w] \in HoldingSteps => held[w] \in Envelope)
  BY DEF ProcTypeOK, Procs
<1>2. {"exec", "clear", "nack", "ack"} \subseteq ProcSteps[w]
  BY DEF ProcSteps, NackSteps
<1>3. CASE StartJob
  <2>1. /\ pc[w] = "start"
        /\ running' = [env |-> held[w], cause |-> "none"]
        /\ Goto(w, "exec")
        /\ UNCHANGED <<store, life, held, verdict, connVars, due, bounds>>
        /\ UNCHANGED <<accepted, born, finished, dropped, stopped, late>>
    BY <1>3 DEF StartJob
  <2>2. passed' = [j \in Jobs |->
                     IF Priority[held[w].id] = "scheduled" /\ j \in Ids(ready["interactive"])
                     THEN IF passed[j] < 2 THEN passed[j] + 1 ELSE 2
                     ELSE passed[j]]
    BY <1>3 DEF StartJob
  <2>3. held[w] \in Envelope
    BY <1>1, <2>1 DEF HoldingSteps
  <2>4. passed' \in [Jobs -> 0..2]
    <3>1. ASSUME NEW j \in Jobs
          PROVE  passed[j] \in 0..2 /\ (passed[j] < 2 => passed[j] + 1 \in 0..2)
      <4>1. passed[j] \in 0..2
        BY DEF HistoryTypeOK
      <4>2. QED
        BY <4>1
    <3>2. QED
      BY <2>2, <3>1
  <2>5. running' \in [env : Envelope \cup {NoEnvelope}, cause : Causes]
    BY <2>1, <2>3 DEF Causes
  <2>6. \A q \in Procs : pc'[q] = IF q = w THEN "exec" ELSE pc[q]
    BY <1>1, <2>1 DEF Goto
  <2>7. ProcTypeOK'
    <3>1. pc' \in [Procs -> UNION {ProcSteps[p] : p \in Procs}]
      BY <1>1, <1>2, <2>1 DEF Goto
    <3>2. QED
      BY <1>2, <2>1, <2>3, <2>5, <2>6, <3>1 DEF ProcTypeOK
  <2>8. HistoryTypeOK'
    BY <2>1, <2>4 DEF HistoryTypeOK
  <2>9. QED
    BY <2>1, <2>7, <2>8, UnchangedType
<1>4. CASE Execute
  <2>1. PICK result \in {"ok", "failed"} :
          /\ pc[w] = "exec" /\ verdict' = Verdict(result) /\ Goto(w, "clear")
    BY <1>4 DEF Execute
  <2>2. UNCHANGED <<store, life, held, running, connVars, due, bounds, history>>
    BY <1>4 DEF Execute
  <2>3. verdict' \in Results
    BY <2>1 DEF Verdict, Results
  <2>4. held[w] \in Envelope
    BY <1>1, <2>1 DEF HoldingSteps
  <2>5. /\ \A q \in Procs : pc'[q] = IF q = w THEN "clear" ELSE pc[q]
        /\ pc' \in [Procs -> UNION {ProcSteps[p] : p \in Procs}]
    BY <1>1, <1>2, <2>1 DEF Goto
  <2>6. ProcTypeOK'
    BY <1>2, <2>2, <2>3, <2>4, <2>5 DEF ProcTypeOK
  <2>7. QED
    BY <2>2, <2>6, UnchangedType
<1>5. CASE ClearRunning
  <2>1. /\ pc[w] = "clear"
        /\ running' = [env |-> NoEnvelope, cause |-> "none"]
        /\ Goto(w, AfterRun)
        /\ UNCHANGED <<store, life, held, verdict, connVars, due, bounds, history>>
    BY <1>5 DEF ClearRunning
  <2>2. AfterRun \in ProcSteps[w]
    BY <1>2 DEF AfterRun
  <2>3. held[w] \in Envelope
    BY <1>1, <2>1 DEF HoldingSteps
  <2>4. /\ \A q \in Procs : pc'[q] = IF q = w THEN AfterRun ELSE pc[q]
        /\ pc' \in [Procs -> UNION {ProcSteps[p] : p \in Procs}]
    BY <1>1, <2>1, <2>2 DEF Goto
  <2>5. running' \in [env : Envelope \cup {NoEnvelope}, cause : Causes]
    BY <2>1 DEF Causes
  <2>6. ProcTypeOK'
    BY <2>1, <2>2, <2>3, <2>4, <2>5 DEF ProcTypeOK
  <2>7. QED
    BY <2>1, <2>6, UnchangedType
<1>6. QED
  BY <1>3, <1>4, <1>5

LEMMA SweepType ==
    ASSUME TypeOK, SweepBegin \/ SweepPeek \/ SweepAge
    PROVE  TypeOK'
<1> USE DEF TypeOK
<1> DEFINE p == "janitor"
<1>1. p \in Procs /\ {"idle", "peek", "age", "nack"} \subseteq ProcSteps[p]
      /\ {"idle", "peek"} \cap HoldingSteps = {} /\ (pc[p] \in HoldingSteps => held[p] \in Envelope)
  BY DEF Procs, ProcSteps, HoldingSteps, NackSteps, ProcTypeOK
<1>2. CASE SweepBegin
  <2>1. ProcTypeOK'
    BY <1>1, <1>2, StepType DEF SweepBegin
  <2>2. QED
    BY <1>2, <2>1, UnchangedType DEF SweepBegin
<1>3. CASE SweepPeek
  <2>1. PICK o \in Outcome :
          /\ Command(o)
          /\ IF Replied(o) /\ inflight # <<>>
             THEN Goto(p, "age") /\ Hold(p, Head(inflight))
             ELSE Goto(p, "idle") /\ UNCHANGED held
    BY <1>3 DEF SweepPeek
  <2>2. UNCHANGED <<store, life, verdict, running, connVars, due, history>>
    BY <1>3 DEF SweepPeek
  <2>3. inflight # <<>> => Head(inflight) \in Envelope
    BY HeadTailProperties DEF StoreTypeOK
  <2>4. ProcTypeOK'
    <3>1. CASE Replied(o) /\ inflight # <<>>
      BY <3>1, <1>1, <2>1, <2>2, <2>3, TakeType
    <3>2. CASE ~(Replied(o) /\ inflight # <<>>)
      BY <3>2, <1>1, <2>1, <2>2, StepType
    <3>3. QED
      BY <3>1, <3>2
  <2>5. QED
    BY <2>1, <2>2, <2>4, CommandType, UnchangedType
<1>4. CASE SweepAge
  <2>1. PICK o \in Outcome :
          /\ pc[p] = "age"
          /\ Command(o)
          /\ Goto(p, IF Replied(o) /\ since = "expired" THEN "nack" ELSE "idle")
    BY <1>4 DEF SweepAge
  <2>2. UNCHANGED <<store, life, held, verdict, running, connVars, due, history>>
    BY <1>4 DEF SweepAge
  <2>3. held[p] \in Envelope
    BY <1>1, <2>1 DEF HoldingSteps
  <2>4. ProcTypeOK'
    BY <1>1, <2>1, <2>2, <2>3, StepType
  <2>5. QED
    BY <2>1, <2>2, <2>4, CommandType, UnchangedType
<1>5. QED
  BY <1>2, <1>3, <1>4

LEMMA LifeType ==
    ASSUME TypeOK, Boot \/ RecoverInflight \/ Crash \/ Signal
    PROVE  TypeOK'
<1> USE DEF TypeOK
<1> DEFINE p == "boot"
<1>1. p \in Procs /\ {"idle", "peek", "nack"} \subseteq ProcSteps[p]
      /\ {"idle", "peek", "head"} \cap HoldingSteps = {}
  BY DEF Procs, ProcSteps, HoldingSteps, NackSteps
<1>2. CASE Boot
  <2>1. life' = "boot" /\ Goto(p, "peek")
        /\ UNCHANGED <<store, held, verdict, running, connVars, due, bounds, history>>
    BY <1>2 DEF Boot
  <2>2. /\ \A q \in Procs : pc'[q] = IF q = p THEN "peek" ELSE pc[q]
        /\ pc' \in [Procs -> UNION {ProcSteps[q] : q \in Procs}]
    BY <1>1, <2>1 DEF Goto, ProcTypeOK
  <2>3. ProcTypeOK'
    BY <1>1, <2>1, <2>2 DEF ProcTypeOK
  <2>4. QED
    BY <2>1, <2>3, UnchangedType
<1>3. CASE RecoverInflight
  <2>1. PICK o \in Outcome :
          /\ Command(o)
          /\ IF ~Replied(o)
             THEN EndProcess
             ELSE /\ UNCHANGED <<verdict, running, connVars>>
                  /\ IF inflight = <<>>
                     THEN /\ life' = "up"
                          /\ pc' = [pc EXCEPT !["boot"] = "idle", !["worker"] = "head"]
                          /\ UNCHANGED held
                     ELSE /\ Hold(p, Head(inflight))
                          /\ Goto(p, "nack")
                          /\ UNCHANGED life
    BY <1>3 DEF RecoverInflight
  <2>2. UNCHANGED <<store, due, history>>
    BY <1>3 DEF RecoverInflight
  <2>3. inflight # <<>> => Head(inflight) \in Envelope
    BY HeadTailProperties DEF StoreTypeOK
  <2>4. ProcTypeOK' /\ ConnTypeOK'
    <3>1. CASE ~Replied(o)
      BY <3>1, <2>1, EndProcessType
    <3>2. CASE Replied(o) /\ inflight = <<>>
      <4>1. /\ UNCHANGED <<held, verdict, running, connVars>>
            /\ life' = "up"
            /\ pc' = [pc EXCEPT !["boot"] = "idle", !["worker"] = "head"]
        BY <3>2, <2>1
      <4>2. ProcTypeOK'
        BY <4>1 DEF ProcTypeOK, Procs, ProcSteps, HoldingSteps, NackSteps
      <4>3. QED
        BY <4>1, <4>2, UnchangedType
    <3>3. CASE Replied(o) /\ inflight # <<>>
      <4>1. /\ UNCHANGED <<life, verdict, running, connVars>>
            /\ Hold(p, Head(inflight))
            /\ Goto(p, "nack")
        BY <3>3, <2>1
      <4>2. ProcTypeOK'
        BY <3>3, <4>1, <1>1, <2>3, TakeType
      <4>3. QED
        BY <4>1, <4>2, UnchangedType
    <3>4. QED
      BY <3>1, <3>2, <3>3
  <2>5. QED
    BY <2>1, <2>2, <2>4, CommandType, UnchangedType
<1>4. CASE Crash
  <2>1. /\ restarts < MaxRestarts /\ restarts' = restarts + 1 /\ EndProcess /\ stopped' = {}
        /\ UNCHANGED <<store, due, faults, expiries, stops>>
        /\ UNCHANGED <<accepted, born, finished, dropped, passed, late>>
    BY <1>4 DEF Crash
  <2>2. ProcTypeOK' /\ ConnTypeOK'
    BY <2>1, EndProcessType
  <2>3. CountersTypeOK'
    BY <2>1, BoundsAssumption DEF CountersTypeOK, BoundsAssumption
  <2>4. HistoryTypeOK'
    BY <2>1 DEF HistoryTypeOK
  <2>5. QED
    BY <2>1, <2>2, <2>3, <2>4, UnchangedType
<1>5. CASE Signal
  <2>1. life' = "stopping" /\ UNCHANGED <<store, workerVars, connVars, due, bounds, history>>
    BY <1>5 DEF Signal
  <2>2. ProcTypeOK'
    BY <2>1 DEF ProcTypeOK, workerVars
  <2>3. QED
    BY <2>1, <2>2, UnchangedType
<1>6. QED
  BY <1>2, <1>3, <1>4, <1>5

\* RPUSH of a new envelope.
LEMMA EnqueueType ==
    ASSUME TypeOK, NEW j \in Jobs, NEW o, Enqueue(j, o),
           UNCHANGED <<inflight, since, done, dead, finished, dropped, stopped, passed>>
    PROVE  StoreTypeOK' /\ HistoryTypeOK'
<1>1. EnvelopeOf(j) \in Envelope
  BY DEF EnvelopeOf, Envelope
<1>2. PushReady(EnvelopeOf(j), o)
  BY DEF Enqueue
<1>3. ready' \in [Keys -> Seq(Envelope)] /\ late' \subseteq Jobs
  BY <1>1, <1>2, PushReadyType DEF TypeOK
<1>4. restarts + 1 \in Nat
  BY BoundsAssumption DEF TypeOK, CountersTypeOK, BoundsAssumption
<1>5. born' \in [Jobs -> Nat]
  BY <1>4 DEF Enqueue, Process, TypeOK, HistoryTypeOK
<1>6. accepted' \subseteq Jobs /\ due' \subseteq Jobs
  BY DEF Enqueue, TypeOK, HistoryTypeOK
<1>7. QED
  BY <1>3, <1>5, <1>6 DEF TypeOK, StoreTypeOK, HistoryTypeOK

LEMMA ProducerType ==
    ASSUME TypeOK, NEW j \in Jobs, SystemEnqueue(j) \/ BecomeDue(j)
    PROVE  TypeOK'
<1> USE DEF TypeOK
<1>1. CASE SystemEnqueue(j)
  <2>1. PICK o \in Outcome : Command(o) /\ Enqueue(j, o)
    BY <1>1 DEF SystemEnqueue
  <2>2. UNCHANGED <<inflight, since, done, dead, life, workerVars, connVars>>
        /\ UNCHANGED <<finished, dropped, stopped, passed>>
    BY <1>1 DEF SystemEnqueue
  <2>3. QED
    BY <2>1, <2>2, EnqueueType, CommandType, UnchangedType
<1>2. CASE BecomeDue(j)
  <2>1. due' = due \cup {j} /\ UNCHANGED <<store, life, workerVars, connVars, bounds, history>>
    BY <1>2 DEF BecomeDue
  <2>2. HistoryTypeOK'
    BY <2>1 DEF HistoryTypeOK, history
  <2>3. QED
    BY <2>1, <2>2, UnchangedType
<1>3. QED
  BY <1>1, <1>2

LEMMA ConnectionType ==
    ASSUME TypeOK, NEW c \in Conns,
           \/ Connect(c) \/ Disconnect(c) \/ HandlerEnqueue(c) \/ StopChat(c)
           \/ \E j \in Jobs : HandleMessage(c, j)
    PROVE  TypeOK'
<1> USE DEF TypeOK
<1>1. CASE Connect(c)
  <2>1. conn' = [conn EXCEPT ![c] = "open"]
        /\ UNCHANGED <<store, life, workerVars, handling, remover, due, bounds, history>>
    BY <1>1 DEF Connect
  <2>2. ConnTypeOK'
    BY <2>1 DEF ConnTypeOK
  <2>3. QED
    BY <2>1, <2>2, UnchangedType
<1>2. CASE Disconnect(c)
  <2>1. /\ conn' = [conn EXCEPT ![c] = "gone"]
        /\ remover' = [remover EXCEPT ![c]["disconnect"] = RemoverAt("cancel")]
        /\ UNCHANGED <<store, life, workerVars, handling, due, bounds, history>>
    BY <1>2 DEF Disconnect
  <2>2. ConnTypeOK'
    BY <2>1 DEF ConnTypeOK, Modes, RemoverAt, RemoverStates, Keys
  <2>3. QED
    BY <2>1, <2>2, UnchangedType
<1>3. CASE HandlerEnqueue(c)
  <2>1. PICK o \in Outcome : Command(o) /\ Enqueue(handling[c], o)
    BY <1>3 DEF HandlerEnqueue
  <2>2. handling[c] \in Jobs
    BY <1>3 DEF HandlerEnqueue, ConnTypeOK
  <2>3. /\ handling' = [handling EXCEPT ![c] = NoJob]
        /\ UNCHANGED <<inflight, since, done, dead, life, workerVars, conn, remover>>
        /\ UNCHANGED <<finished, dropped, stopped, passed>>
    BY <1>3 DEF HandlerEnqueue
  <2>4. ConnTypeOK'
    BY <2>3 DEF ConnTypeOK
  <2>5. QED
    BY <2>1, <2>2, <2>3, <2>4, EnqueueType, CommandType, UnchangedType
<1>4. CASE StopChat(c)
  <2>1. /\ stops < MaxStops /\ stops' = stops + 1
        /\ remover' = [remover EXCEPT ![c]["stop"] = RemoverAt("cancel")]
        /\ UNCHANGED <<store, life, workerVars, conn, handling, due, history>>
        /\ UNCHANGED <<faults, restarts, expiries>>
    BY <1>4 DEF StopChat
  <2>2. ConnTypeOK'
    BY <2>1 DEF ConnTypeOK, Modes, RemoverAt, RemoverStates, Keys
  <2>3. CountersTypeOK'
    BY <2>1, BoundsAssumption DEF CountersTypeOK, BoundsAssumption
  <2>4. QED
    BY <2>1, <2>2, <2>3, UnchangedType
<1>5. ASSUME NEW j \in Jobs, HandleMessage(c, j)
      PROVE  TypeOK'
  <2>1. /\ handling' = [handling EXCEPT ![c] = j]
        /\ born' = [born EXCEPT ![j] = Process]
        /\ UNCHANGED <<store, life, workerVars, conn, remover, due, bounds>>
        /\ UNCHANGED <<accepted, finished, dropped, stopped, passed, late>>
    BY <1>5 DEF HandleMessage
  <2>2. ConnTypeOK'
    BY <2>1 DEF ConnTypeOK
  <2>3. Process \in Nat
    BY BoundsAssumption DEF CountersTypeOK, BoundsAssumption, Process
  <2>4. HistoryTypeOK'
    BY <2>1, <2>3 DEF HistoryTypeOK
  <2>5. QED
    BY <2>1, <2>2, <2>4, UnchangedType
<1>6. QED
  BY <1>1, <1>2, <1>3, <1>4, <1>5

LEMMA RemoverType ==
    ASSUME TypeOK, NEW c \in Conns, NEW m \in Modes, Remover(c, m)
    PROVE  TypeOK'
<1> USE DEF TypeOK
<1>1. ASSUME NEW r \in RemoverStates, remover' = [remover EXCEPT ![c][m] = r],
             UNCHANGED <<conn, handling>>
      PROVE  ConnTypeOK'
  BY <1>1 DEF ConnTypeOK
<1>2. ASSUME NEW key \in Keys, NEW victims \in SUBSET Envelope
      PROVE  RemoverNext(key, victims) \in RemoverStates
  BY DEF RemoverNext, RemoverIdle, RemoverAt, RemoverStates, Keys
<1>3. remover[c][m] \in RemoverStates
  BY DEF ConnTypeOK
<1>4. CASE RemoverCancel(c, m)
  <2>1. /\ remover' = [remover EXCEPT ![c][m] = RemoverAt("scan")]
        /\ UNCHANGED <<store, life, pc, held, verdict, conn, handling, due, bounds>>
        /\ UNCHANGED <<accepted, born, finished, dropped, passed, late>>
        /\ \/ running.env # NoEnvelope /\ Cancel(IF m = "stop" THEN "stopped" ELSE "disconnected")
           \/ UNCHANGED <<running, stopped>>
    BY <1>4 DEF RemoverCancel
  <2>2. RemoverAt("scan") \in RemoverStates
    BY DEF RemoverAt, RemoverStates, Keys
  <2>3. ConnTypeOK'
    BY <1>1, <2>1, <2>2
  <2>4. ProcTypeOK' /\ stopped' \subseteq Jobs
    BY <2>1, CancelType DEF ProcTypeOK, HistoryTypeOK, Causes
  <2>5. HistoryTypeOK'
    BY <2>1, <2>4 DEF HistoryTypeOK
  <2>6. QED
    BY <2>1, <2>3, <2>4, <2>5, UnchangedType
<1>5. CASE RemoverScan(c, m)
  <2> DEFINE key == remover[c][m].key
             found == {e \in Range(ready[key]) : InScope(e, c, m)}
  <2>1. PICK o \in Outcome :
          /\ Command(o)
          /\ remover' = [remover EXCEPT ![c][m] = RemoverNext(key, IF Replied(o) THEN found ELSE {})]
    BY <1>5 DEF RemoverScan
  <2>2. UNCHANGED <<store, life, workerVars, conn, handling, due, history>>
    BY <1>5 DEF RemoverScan
  <2>3. key \in Keys /\ ready[key] \in Seq(Envelope)
    BY <1>3 DEF RemoverStates, StoreTypeOK
  <2>4. found \subseteq Envelope
    BY <2>3, RangeEquality
  <2>5. RemoverNext(key, IF Replied(o) THEN found ELSE {}) \in RemoverStates
    BY <1>2, <2>3, <2>4
  <2>6. ConnTypeOK'
    BY <1>1, <2>1, <2>2, <2>5
  <2>7. QED
    BY <2>1, <2>2, <2>6, CommandType, UnchangedType
<1>6. CASE RemoverDrop(c, m)
  <2> DEFINE key == remover[c][m].key
  <2>1. PICK o \in Outcome, e \in remover[c][m].victims :
          /\ Command(o)
          /\ ready' = IF Applied(o) THEN [ready EXCEPT ![key] = LRem(@, e)] ELSE ready
          /\ dropped' = IF Applied(o) /\ e \in Range(ready[key])
                        THEN dropped \cup {e.id} ELSE dropped
          /\ passed' = IF Applied(o) THEN [passed EXCEPT ![e.id] = 0] ELSE passed
          /\ remover' = [remover EXCEPT ![c][m] = RemoverNext(key, @.victims \ {e})]
    BY <1>6 DEF RemoverDrop
  <2>2. /\ UNCHANGED <<inflight, since, done, dead, life, workerVars, conn, handling, due>>
        /\ UNCHANGED <<accepted, born, finished, stopped, late>>
    BY <1>6 DEF RemoverDrop
  <2>3. key \in Keys /\ ready[key] \in Seq(Envelope) /\ e \in Envelope
        /\ remover[c][m].victims \ {e} \in SUBSET Envelope
    BY <1>3, <2>1 DEF RemoverStates, StoreTypeOK
  <2>4. e.id \in Jobs
    BY <2>3 DEF Envelope
  <2>5. LRem(ready[key], e) \in Seq(Envelope)
    BY <2>3, LRemRange
  <2>6. StoreTypeOK'
    BY <2>1, <2>2, <2>3, <2>5 DEF StoreTypeOK
  <2>7. HistoryTypeOK'
    <3>1. 0 \in 0..2
      OBVIOUS
    <3>2. QED
      BY <2>1, <2>2, <2>4, <3>1 DEF HistoryTypeOK
  <2>8. RemoverNext(key, remover[c][m].victims \ {e}) \in RemoverStates
    BY <1>2, <2>3
  <2>9. remover' = [remover EXCEPT ![c][m] = RemoverNext(key, remover[c][m].victims \ {e})]
    BY <2>1 DEF ConnTypeOK
  <2>10. ConnTypeOK'
    BY <1>1, <2>2, <2>8, <2>9
  <2>11. QED
    BY <2>1, <2>2, <2>6, <2>7, <2>10, CommandType, UnchangedType
<1>7. QED
  BY <1>4, <1>5, <1>6 DEF Remover

LEMMA TimeType ==
    ASSUME TypeOK, CancelOnShutdown \/ Expire
    PROVE  TypeOK'
<1> USE DEF TypeOK
<1>1. CASE CancelOnShutdown
  <2>1. /\ running.env # NoEnvelope /\ Cancel("shutdown")
        /\ UNCHANGED <<store, life, pc, held, verdict, connVars, due, bounds>>
        /\ UNCHANGED <<accepted, born, finished, dropped, passed, late>>
    BY <1>1 DEF CancelOnShutdown
  <2>2. /\ running' \in [env : Envelope \cup {NoEnvelope}, cause : Causes]
        /\ stopped' \subseteq Jobs
    BY <2>1, "shutdown" \in Causes, CancelType DEF Causes
  <2>5. ProcTypeOK'
    BY <2>1, <2>2 DEF ProcTypeOK
  <2>3. HistoryTypeOK'
    BY <2>1, <2>2 DEF HistoryTypeOK
  <2>4. QED
    BY <2>1, <2>5, <2>3, UnchangedType
<1>2. CASE Expire
  <2>1. /\ expiries < MaxExpiries /\ expiries' = expiries + 1 /\ since' = "expired"
        /\ UNCHANGED <<ready, inflight, done, dead, life, workerVars, connVars, due, history>>
        /\ UNCHANGED <<faults, restarts, stops>>
    BY <1>2 DEF Expire
  <2>2. StoreTypeOK'
    BY <2>1 DEF StoreTypeOK
  <2>3. CountersTypeOK'
    BY <2>1, BoundsAssumption DEF CountersTypeOK, BoundsAssumption
  <2>4. QED
    BY <2>1, <2>2, <2>3, UnchangedType
<1>3. QED
  BY <1>1, <1>2

LEMMA InitType == Init => TypeOK
<1> SUFFICES ASSUME Init PROVE TypeOK
  OBVIOUS
<1>1. DoneCap \in Nat /\ DeadCap \in Nat /\ MaxFaults \in Nat /\ MaxRestarts \in Nat
      /\ MaxExpiries \in Nat /\ MaxStops \in Nat
  BY BoundsAssumption DEF BoundsAssumption
<1>2. StoreTypeOK
  BY <1>1, EmptySeq DEF Init, StoreTypeOK
<1>3. ProcTypeOK
  BY DEF Init, ProcTypeOK, AllIdle, Procs, ProcSteps, HoldingSteps, NackSteps, Results, Causes
<1>4. ConnTypeOK
  BY DEF Init, ConnTypeOK, RemoverIdle, RemoverAt, RemoverStates, Keys
<1>5. CountersTypeOK
  BY <1>1 DEF Init, CountersTypeOK
<1>6. HistoryTypeOK
  BY DEF Init, HistoryTypeOK
<1>7. QED
  BY <1>2, <1>3, <1>4, <1>5, <1>6 DEF TypeOK

\* Every reachable state is typed: the goroutines hold an envelope wherever
\* they need one, and done and dead keep within the lengths they are trimmed
\* to (appendFinished and nack trim after every push).
THEOREM TypeCorrect == Spec => []TypeOK
<1>1. TypeOK /\ [Next]_vars => TypeOK'
  <2> SUFFICES ASSUME TypeOK, [Next]_vars PROVE TypeOK'
    OBVIOUS
  <2>1. CASE Recovery
    BY <2>1, LifeType, NackType DEF Recovery, Procs
  <2>2. CASE Crash \/ Signal
    BY <2>2, LifeType
  <2>3. CASE CancelOnShutdown \/ Expire
    BY <2>3, TimeType
  <2>4. CASE Worker
    BY <2>4, WorkerQueueType, PopType, ExecutionType, AckType, NackType DEF Worker, Procs
  <2>5. CASE Janitor
    BY <2>5, SweepType, NackType DEF Janitor, Procs
  <2>6. CASE \E j \in Jobs : SystemEnqueue(j) \/ BecomeDue(j)
    BY <2>6, ProducerType
  <2>7. ASSUME NEW c \in Conns,
               \/ Connect(c) \/ Disconnect(c) \/ HandlerEnqueue(c) \/ StopChat(c)
               \/ \E j \in Jobs : HandleMessage(c, j)
        PROVE  TypeOK'
    BY <2>7, ConnectionType
  <2>8. ASSUME NEW c \in Conns, NEW m \in Modes, Remover(c, m)
        PROVE  TypeOK'
    BY <2>8, RemoverType
  <2>9. CASE UNCHANGED vars
    <3>1. UNCHANGED store /\ UNCHANGED <<life, workerVars>> /\ UNCHANGED connVars
          /\ UNCHANGED bounds /\ UNCHANGED <<due, history>>
      BY <2>9 DEF vars
    <3>2. QED
      BY <3>1, UnchangedType DEF TypeOK
  <2>10. QED
    BY <2>1, <2>2, <2>3, <2>4, <2>5, <2>6, <2>7, <2>8, <2>9 DEF Next
<1>2. QED
  BY <1>1, InitType, PTL DEF Spec

-----------------------------------------------------------------------------
(* Crash safety: what a list of envelopes holds, as a set of jobs.         *)

LEMMA IdsOfList ==
    ASSUME NEW s \in Seq(Envelope), NEW e \in Envelope
    PROVE  /\ Ids(<<>>) = {} /\ Ids(<<e>>) = {e.id}
           /\ Ids(Append(s, e)) = Ids(s) \cup {e.id}
           /\ s # <<>> => Ids(s) = Ids(Tail(s)) \cup {Head(s).id}
           /\ Ids(s) \subseteq Ids(LRem(s, e)) \cup {e.id}
           /\ e \notin Range(s) => Ids(LRem(s, e)) = Ids(s)
<1>1. Range(<<>>) = {} /\ Range(<<e>>) = {e}
  <2>1. <<>> \in Seq(Envelope) /\ <<e>> \in Seq(Envelope)
    OBVIOUS
  <2>2. Range(<<>>) = {<<>>[i] : i \in 1..0} /\ Range(<<e>>) = {<<e>>[i] : i \in 1..1}
    BY <2>1, RangeEquality
  <2>3. 1..0 = {} /\ 1..1 = {1} /\ <<e>>[1] = e
    OBVIOUS
  <2>4. QED
    BY <2>2, <2>3
<1>2. Range(Append(s, e)) = Range(s) \cup {e}
  BY AppendRange
<1>3. s # <<>> => Range(s) = Range(Tail(s)) \cup {Head(s)}
  BY HeadTailRange
<1>4. Range(LRem(s, e)) = Range(s) \ {e}
  BY LRemRange
<1>5. QED
  BY <1>1, <1>2, <1>3, <1>4 DEF Ids

\* A successful RPUSH adds one job to the ready lists.
LEMMA PushReadyIds ==
    ASSUME StoreTypeOK, NEW e \in Envelope, PushReady(e, "ok")
    PROVE  ReadyIds' = ReadyIds \cup {e.id}
<1> DEFINE key == Priority[e.id]
<1>1. key \in Keys
  BY JobsAssumption DEF JobsAssumption, Envelope
<1>2. ready' = [ready EXCEPT ![key] = Append(@, e)]
  BY DEF PushReady
<1>3. Ids(Append(ready[key], e)) = Ids(ready[key]) \cup {e.id}
  BY <1>1, IdsOfList DEF StoreTypeOK
<1>4. ready'[key] = Append(ready[key], e) /\ \A k \in Keys \ {key} : ready'[k] = ready[k]
  BY <1>1, <1>2 DEF StoreTypeOK
<1>5. QED
  BY <1>1, <1>3, <1>4 DEF ReadyIds, Keys

\* If no command may fail, every command succeeds.
LEMMA NoFault ==
    ASSUME MaxFaults = 0, TypeOK, NEW o, Command(o)
    PROVE  o = "ok"
BY DEF TypeOK, CountersTypeOK, Command

\* A step that touches neither the lists nor the goroutines.
LEMMA QuietSafety ==
    ASSUME CrashSafety, UNCHANGED <<store, pc, held, life, accepted, finished, dropped>>
    PROVE  CrashSafety'
BY DEF CrashSafety, LifeOrder, InflightIsHeld, PushedBeforeDelete, NoSilentLoss, Durable,
       ReadyIds, Ids, Handling, Alive, store

\* A step of the goroutine that works on the in-flight envelope, on which that
\* envelope stays in flight.
LEMMA MoveSafety ==
    ASSUME TypeOK, CrashSafety, NEW p \in {"worker", "boot"}, Handling(p),
           NEW step \in HoldingSteps, Goto(p, step),
           UNCHANGED <<inflight, held, life, accepted>>, since' # "expired",
           Durable \subseteq Durable',
           step \in {"unhold", "acktrim", "ackdel", "deadtrim", "nackdone", "donetrim", "nackdel"}
               => held[p].id \in Durable'
    PROVE  CrashSafety'
<1>1. "idle" \notin HoldingSteps /\ {"head", "popI", "popS"} \cap HoldingSteps = {}
  BY DEF HoldingSteps, NackSteps
<1>2. \A q \in Procs : pc'[q] = IF q = p THEN step ELSE pc[q]
  BY DEF Goto, TypeOK, ProcTypeOK, Procs
<1>3. \A q \in {"worker", "boot"} \ {p} : pc[q] = "idle"
  BY <1>1 DEF CrashSafety, LifeOrder, Handling, Alive
<1>4. pc'["worker"] = (IF p = "worker" THEN step ELSE pc["worker"])
      /\ pc'["boot"] = (IF p = "boot" THEN step ELSE pc["boot"])
      /\ pc'["janitor"] = pc["janitor"]
  BY <1>2 DEF Procs
<1>5. LifeOrder'
  BY <1>1, <1>3, <1>4 DEF CrashSafety, LifeOrder, Handling, Alive
<1>6. InflightIsHeld'
  BY <1>1, <1>3, <1>4 DEF CrashSafety, InflightIsHeld, Handling
<1>7. PushedBeforeDelete'
  BY <1>3, <1>4 DEF PushedBeforeDelete
<1>8. NoSilentLoss'
  BY DEF CrashSafety, NoSilentLoss, Durable, Ids
<1>9. QED
  BY <1>4, <1>5, <1>6, <1>7, <1>8 DEF CrashSafety

\* DEL of the in-flight list, once its envelope is safe elsewhere.
LEMMA DeleteSafety ==
    ASSUME TypeOK, CrashSafety, NEW p \in {"worker", "boot"},
           pc[p] \in {"unhold", "ackdel", "nackdel"}, DelInflight("ok"),
           UNCHANGED <<ready, finished, dropped, accepted>>, Alive',
           pc'["boot"] = "idle", pc'["worker"] \in {"head", "popS"},
           pc'["janitor"] = pc["janitor"]
    PROVE  CrashSafety'
<1>1. inflight' = <<>> /\ since' = "absent"
  BY DEF DelInflight
<1>2. Handling(p) /\ held[p] \in Envelope
  BY DEF Handling, HoldingSteps, NackSteps, TypeOK, ProcTypeOK, Procs
<1>3. Ids(inflight) = {held[p].id} /\ Ids(<<>>) = {}
  <2>1. inflight = <<held[p]>> /\ inflight \in Seq(Envelope)
    BY <1>2 DEF CrashSafety, InflightIsHeld, TypeOK, StoreTypeOK
  <2>2. QED
    BY <1>2, <2>1, IdsOfList
<1>4. held[p].id \in Durable
  BY DEF CrashSafety, PushedBeforeDelete
<1>5. NoSilentLoss'
  BY <1>1, <1>3, <1>4 DEF CrashSafety, NoSilentLoss, Durable, ReadyIds, Ids
<1>6. LifeOrder' /\ InflightIsHeld' /\ PushedBeforeDelete'
  BY <1>1 DEF LifeOrder, InflightIsHeld, PushedBeforeDelete, Handling, HoldingSteps, NackSteps, Alive
<1>7. QED
  BY <1>1, <1>5, <1>6 DEF CrashSafety

-----------------------------------------------------------------------------
(* Crash safety, action by action.                                         *)

\* What a step of nack does to the in-flight list, to the goroutine that takes it and
\* to what is durable, when its command succeeds: it goes on, or it deletes the list.
NackFacts(p) ==
    \/ \E step \in NackSteps \cup {"ackdel"} :
          /\ pc[p] \in NackSteps \cup {"acktrim"} /\ Continue(p, step)
          /\ UNCHANGED <<inflight, since, accepted>> /\ Durable \subseteq Durable'
          /\ held[p].id \in Durable'
             \/ (pc[p] \in {"deadtrim", "donetrim", "acktrim"} /\ Durable' = Durable)
    \/ /\ pc[p] = "nackdel" /\ DelInflight("ok") /\ Resume(p, TRUE)
       /\ UNCHANGED <<ready, history>>

LEMMA NackStepFacts ==
    ASSUME MaxFaults = 0, TypeOK, NEW p \in Procs, NackStep(p)
    PROVE  NackFacts(p)
<1>1. pc[p] \in NackSteps => held[p] \in Envelope
  BY DEF HoldingSteps, TypeOK, ProcTypeOK
<1>2. CASE Nack(p)
  <2> DEFINE e == Retried(held[p])
  <2>1. PICK o \in Outcome :
          /\ pc[p] = "nack"
          /\ Command(o)
          /\ IF Exhausted(e)
             THEN /\ finished' = IF Applied(o) THEN finished \cup {e.id} ELSE finished
                  /\ UNCHANGED <<ready, late>>
             ELSE PushReady(e, o) /\ UNCHANGED <<dead, finished>>
          /\ IF Replied(o) THEN Continue(p, AfterNackPush(e)) ELSE Resume(p, FALSE)
    BY <1>2 DEF Nack
  <2>2. o = "ok"
    BY <2>1, NoFault
  <2>3. UNCHANGED <<inflight, since, accepted, dropped>>
    BY <1>2 DEF Nack
  <2>4. e \in Envelope /\ e.id = held[p].id
    BY <1>1, <2>1, RetriedType DEF NackSteps
  <2>5. Durable' = Durable \cup {held[p].id}
    <3>1. CASE Exhausted(e)
      BY <3>1, <2>1, <2>2, <2>3, <2>4 DEF Durable, ReadyIds, Ids
    <3>2. CASE ~Exhausted(e)
      BY <3>2, <2>1, <2>2, <2>3, <2>4, PushReadyIds DEF Durable, TypeOK
    <3>3. QED
      BY <3>1, <3>2
  <2>6. AfterNackPush(e) \in NackSteps
    BY DEF AfterNackPush, NackSteps
  <2>7. QED
    BY <2>1, <2>2, <2>3, <2>5, <2>6 DEF NackFacts, NackSteps
<1>3. CASE NackFinished(p)
  <2>1. PICK o \in Outcome :
          /\ pc[p] = "nackdone"
          /\ Command(o)
          /\ AppendFinished(held[p], "failed", o)
          /\ IF Replied(o) THEN Continue(p, "donetrim") ELSE Resume(p, FALSE)
    BY <1>3 DEF NackFinished
  <2>2. o = "ok"
    BY <2>1, NoFault
  <2>3. UNCHANGED <<ready, inflight, since, accepted, dropped>>
    BY <1>3 DEF NackFinished
  <2>4. Durable \cup {held[p].id} \subseteq Durable'
    BY <2>1, <2>2, <2>3 DEF AppendFinished, Durable, ReadyIds, Ids
  <2>5. QED
    BY <2>1, <2>2, <2>3, <2>4 DEF NackFacts, NackSteps
<1>4. CASE NackDelete(p)
  <2>1. PICK o \in Outcome :
          pc[p] = "nackdel" /\ Command(o) /\ DelInflight(o) /\ Resume(p, Replied(o))
    BY <1>4 DEF NackDelete
  <2>2. o = "ok"
    BY <2>1, NoFault
  <2>3. UNCHANGED <<ready, history>>
    BY <1>4 DEF NackDelete
  <2>4. QED
    BY <2>1, <2>2, <2>3 DEF NackFacts
<1>5. CASE TrimDead(p) \/ TrimDone(p)
  <2>1. PICK o \in Outcome, step \in {"nackdone", "nackdel", "ackdel"} :
          /\ pc[p] \in {"deadtrim", "donetrim", "acktrim"}
          /\ Command(o)
          /\ IF Replied(o) THEN Continue(p, step) ELSE Resume(p, FALSE)
    BY <1>5 DEF TrimDead, TrimDone
  <2>2. o = "ok"
    BY <2>1, NoFault
  <2>3. UNCHANGED <<ready, inflight, since, accepted, finished, dropped>>
    BY <1>5 DEF TrimDead, TrimDone, history
  <2>4. Durable' = Durable
    BY <2>3 DEF Durable, ReadyIds, Ids
  <2>5. QED
    BY <2>1, <2>2, <2>3, <2>4 DEF NackFacts, NackSteps
<1>6. QED
  BY <1>2, <1>3, <1>4, <1>5 DEF NackStep

LEMMA NackSafety ==
    ASSUME MaxFaults = 0, TypeOK, CrashSafety, NEW p \in {"worker", "boot"}, NackStep(p)
    PROVE  CrashSafety'
<1>1. p \in Procs /\ since # "expired"
  BY DEF Procs, CrashSafety
<1>2. CASE \E step \in NackSteps \cup {"ackdel"} :
          /\ pc[p] \in NackSteps \cup {"acktrim"} /\ Continue(p, step)
          /\ UNCHANGED <<inflight, since, accepted>> /\ Durable \subseteq Durable'
          /\ held[p].id \in Durable'
             \/ (pc[p] \in {"deadtrim", "donetrim", "acktrim"} /\ Durable' = Durable)
  <2>1. PICK step \in NackSteps \cup {"ackdel"} :
          /\ pc[p] \in NackSteps \cup {"acktrim"} /\ Continue(p, step)
          /\ UNCHANGED <<inflight, since, accepted>> /\ Durable \subseteq Durable'
          /\ held[p].id \in Durable'
             \/ (pc[p] \in {"deadtrim", "donetrim", "acktrim"} /\ Durable' = Durable)
    BY <1>2
  <2>2. Handling(p) /\ step \in HoldingSteps
    BY <2>1 DEF Handling, HoldingSteps
  <2>3. held[p].id \in Durable'
    BY <2>1 DEF CrashSafety, PushedBeforeDelete
  <2>4. QED
    BY <1>1, <2>1, <2>2, <2>3, MoveSafety DEF Continue
<1>3. CASE /\ pc[p] = "nackdel" /\ DelInflight("ok") /\ Resume(p, TRUE)
           /\ UNCHANGED <<ready, history>>
  <2>1. /\ pc' = (IF p = "worker" THEN [pc EXCEPT !["worker"] = "head"]
                  ELSE [pc EXCEPT !["boot"] = "idle", !["worker"] = "head"])
        /\ life' = IF p = "boot" THEN "up" ELSE life
    BY <1>3 DEF Resume
  <2>2. p = "worker" => pc["boot"] = "idle" /\ Alive
    BY <1>3 DEF CrashSafety, LifeOrder, Alive
  <2>3. pc'["boot"] = "idle" /\ pc'["worker"] = "head" /\ pc'["janitor"] = pc["janitor"] /\ Alive'
    BY <2>1, <2>2 DEF TypeOK, ProcTypeOK, Procs, Alive
  <2>4. QED
    BY <1>3, <2>3, DeleteSafety DEF history
<1>4. QED
  BY <1>1, <1>2, <1>3, NackStepFacts DEF NackFacts

LEMMA AckSafety ==
    ASSUME MaxFaults = 0, TypeOK, CrashSafety, Ack \/ AckDelete
    PROVE  CrashSafety'
<1> DEFINE w == "worker"
<1>1. since # "expired" /\ w \in {"worker", "boot"}
  BY DEF CrashSafety
<1>2. CASE Ack
  <2>1. /\ pc[w] = "ack"
        /\ Continue(w, "acktrim")
        /\ finished' = finished \cup {held[w].id}
        /\ UNCHANGED <<ready, inflight, since, accepted, dropped>>
    <3>1. PICK o \in Outcome :
            /\ pc[w] = "ack"
            /\ Command(o)
            /\ AppendFinished(held[w], verdict, o)
            /\ IF Replied(o) THEN Continue(w, "acktrim") ELSE Resume(w, FALSE)
      BY <1>2 DEF Ack
    <3>2. o = "ok"
      BY <3>1, NoFault
    <3>3. UNCHANGED <<ready, inflight, since, accepted, dropped>>
      BY <1>2 DEF Ack
    <3>4. QED
      BY <3>1, <3>2, <3>3 DEF AppendFinished
  <2>2. Handling(w) /\ "acktrim" \in HoldingSteps
    BY <2>1 DEF Handling, HoldingSteps
  <2>3. Durable \cup {held[w].id} \subseteq Durable'
    BY <2>1 DEF Durable, ReadyIds, Ids
  <2>4. QED
    BY <1>1, <2>1, <2>2, <2>3, MoveSafety DEF Continue
<1>3. CASE AckDelete
  <2>1. /\ pc[w] = "ackdel" /\ DelInflight("ok") /\ Resume(w, TRUE)
        /\ UNCHANGED <<ready, history>>
    <3>1. PICK o \in Outcome :
            pc[w] = "ackdel" /\ Command(o) /\ DelInflight(o) /\ Resume(w, Replied(o))
      BY <1>3 DEF AckDelete
    <3>2. o = "ok"
      BY <3>1, NoFault
    <3>3. UNCHANGED <<ready, history>>
      BY <1>3 DEF AckDelete
    <3>4. QED
      BY <3>1, <3>2, <3>3
  <2>2. pc' = [pc EXCEPT !["worker"] = "head"] /\ life' = life
    BY <2>1 DEF Resume
  <2>3. pc["boot"] = "idle" /\ Alive
    BY <2>1 DEF CrashSafety, LifeOrder, Alive
  <2>4. pc'["boot"] = "idle" /\ pc'["worker"] = "head" /\ pc'["janitor"] = pc["janitor"] /\ Alive'
    BY <2>2, <2>3 DEF TypeOK, ProcTypeOK, Procs, Alive
  <2>5. QED
    BY <1>1, <2>1, <2>4, DeleteSafety DEF history
<1>4. QED
  BY <1>2, <1>3

LEMMA PopSafety ==
    ASSUME MaxFaults = 0, TypeOK, CrashSafety, Pop
    PROVE  CrashSafety'
<1> DEFINE w == "worker"  list == ready[PopKey]
<1>1. w \in Procs /\ PopKey \in Keys /\ list \in Seq(Envelope)
  BY DEF Procs, PopKey, Keys, TypeOK, StoreTypeOK
<1>2. /\ pc[w] \in {"popI", "popS"} /\ pc["boot"] = "idle" /\ Alive
      /\ inflight = <<>> /\ since # "expired" /\ pc["janitor"] \notin NackSteps
  BY DEF Pop, CrashSafety, LifeOrder, InflightIsHeld, Alive
<1>3. /\ IF list # <<>>
         THEN /\ ready' = [ready EXCEPT ![PopKey] = Tail(list)]
              /\ inflight' = <<Head(list)>> \o inflight
              /\ Goto(w, "since") /\ Hold(w, Head(list))
         ELSE /\ UNCHANGED <<ready, inflight, held>>
              /\ Goto(w, AfterKey(PopKey))
      /\ UNCHANGED <<since, life, accepted, finished, dropped>>
  <2>1. PICK o \in Outcome :
          /\ Command(o)
          /\ IF Applied(o) /\ list # <<>>
             THEN /\ ready' = [ready EXCEPT ![PopKey] = Tail(list)]
                  /\ inflight' = <<Head(list)>> \o inflight
             ELSE UNCHANGED <<ready, inflight, passed>>
          /\ IF ~Replied(o)
             THEN Goto(w, "head") /\ UNCHANGED held
             ELSE IF list = <<>>
                  THEN Goto(w, AfterKey(PopKey)) /\ UNCHANGED held
                  ELSE Goto(w, "since") /\ Hold(w, Head(list))
    BY DEF Pop
  <2>2. o = "ok"
    BY <2>1, NoFault
  <2>3. UNCHANGED <<since, life, accepted, finished, dropped>>
    BY DEF Pop
  <2>4. QED
    BY <2>1, <2>2, <2>3
<1>4. CASE list # <<>>
  <2>1. Head(list) \in Envelope /\ Tail(list) \in Seq(Envelope)
    BY <1>1, <1>4, HeadTailRange
  <2>2. inflight' = <<Head(list)>>
    BY <1>2, <1>3, <1>4, <2>1
  <2>3. pc'[w] = "since" /\ pc'["boot"] = "idle" /\ pc'["janitor"] = pc["janitor"]
        /\ held'[w] = Head(list)
    BY <1>2, <1>3, <1>4 DEF Goto, Hold, TypeOK, ProcTypeOK, Procs
  <2>4. ReadyIds \subseteq ReadyIds' \cup {Head(list).id}
    <3>1. /\ ready'[PopKey] = Tail(list)
          /\ \A k \in Keys \ {PopKey} : ready'[k] = ready[k]
      BY <1>1, <1>3, <1>4 DEF TypeOK, StoreTypeOK
    <3>2. Ids(list) = Ids(Tail(list)) \cup {Head(list).id}
      BY <1>1, <1>4, <2>1, IdsOfList
    <3>3. QED
      BY <1>1, <3>1, <3>2 DEF ReadyIds, Keys
  <2>5. Ids(inflight') = {Head(list).id} /\ Ids(inflight) = {}
    BY <1>1, <1>2, <2>1, <2>2, IdsOfList
  <2>6. NoSilentLoss'
    <3>1. Ids(inflight)' = {Head(list).id}
      BY <2>5 DEF Ids
    <3>2. QED
      BY <1>3, <2>4, <2>5, <3>1 DEF CrashSafety, NoSilentLoss
  <2>7. InflightIsHeld'
    <3>1. Len(<<Head(list)>>) = 1
      BY <2>1
    <3>2. QED
      BY <2>2, <2>3, <3>1 DEF InflightIsHeld, Handling, HoldingSteps, NackSteps
  <2>8. LifeOrder' /\ PushedBeforeDelete'
    BY <1>2, <1>3, <2>3 DEF LifeOrder, PushedBeforeDelete, Alive
  <2>9. QED
    BY <1>2, <1>3, <2>3, <2>6, <2>7, <2>8 DEF CrashSafety
<1>5. CASE list = <<>>
  <2>1. UNCHANGED <<ready, inflight, held, since, life, accepted, finished, dropped>>
        /\ Goto(w, AfterKey(PopKey))
    BY <1>3, <1>5
  <2>2. pc'[w] \in {"popS", "head"} /\ pc'["boot"] = "idle" /\ pc'["janitor"] = pc["janitor"]
    BY <1>2, <2>1 DEF Goto, AfterKey, TypeOK, ProcTypeOK, Procs
  <2>3. LifeOrder' /\ InflightIsHeld' /\ PushedBeforeDelete'
    BY <1>2, <2>1, <2>2 DEF CrashSafety, LifeOrder, InflightIsHeld, PushedBeforeDelete, Handling,
       HoldingSteps, NackSteps, Alive
  <2>4. NoSilentLoss'
    BY <2>1 DEF CrashSafety, NoSilentLoss, ReadyIds, Ids
  <2>5. QED
    BY <1>2, <2>1, <2>2, <2>3, <2>4 DEF CrashSafety
<1>6. QED
  BY <1>4, <1>5

LEMMA WorkerSafety ==
    ASSUME MaxFaults = 0, TypeOK, CrashSafety,
           WorkerLoop \/ SetSince \/ Requeue \/ Unhold \/ StartJob \/ Execute \/ ClearRunning
    PROVE  CrashSafety'
<1> DEFINE w == "worker"
<1>1. w \in {"worker", "boot"} /\ since # "expired" /\ pc["janitor"] \notin NackSteps
  BY DEF CrashSafety
<1>2. /\ {"start", "requeue", "unhold", "exec", "clear", "nack", "ack"} \subseteq HoldingSteps
      /\ (pc[w] \in HoldingSteps => held[w] \in Envelope)
  BY DEF HoldingSteps, NackSteps, TypeOK, ProcTypeOK, Procs
<1>3. UNCHANGED <<ready, finished, dropped>> => Durable' = Durable
  BY DEF Durable, ReadyIds, Ids
<1>4. CASE WorkerLoop
  <2>1. /\ pc[w] = "head" /\ Goto(w, "popI")
        /\ UNCHANGED <<ready, inflight, since, life, held, accepted, finished, dropped>>
    BY <1>4 DEF WorkerLoop, store, history
  <2>2. pc'[w] = "popI" /\ pc'["boot"] = pc["boot"] /\ pc'["janitor"] = pc["janitor"]
    BY <2>1 DEF Goto, TypeOK, ProcTypeOK, Procs
  <2>3. pc["boot"] = "idle" /\ Alive /\ inflight = <<>>
    BY <2>1 DEF CrashSafety, LifeOrder, InflightIsHeld, Alive
  <2>4. LifeOrder' /\ InflightIsHeld' /\ PushedBeforeDelete'
    BY <2>1, <2>2, <2>3 DEF CrashSafety, LifeOrder, InflightIsHeld, PushedBeforeDelete, Handling,
       HoldingSteps, NackSteps, Alive
  <2>5. NoSilentLoss'
    BY <2>1 DEF CrashSafety, NoSilentLoss, ReadyIds, Ids
  <2>6. QED
    BY <1>1, <2>1, <2>2, <2>4, <2>5 DEF CrashSafety
<1>5. CASE SetSince
  <2>1. PICK o \in Outcome :
          /\ pc[w] = "since"
          /\ Command(o)
          /\ since' = IF Applied(o) THEN "fresh" ELSE since
          /\ Goto(w, IF Replied(o) THEN AfterSince ELSE "head")
    BY <1>5 DEF SetSince
  <2>2. o = "ok"
    BY <2>1, NoFault
  <2>3. UNCHANGED <<ready, inflight, held, life, accepted, finished, dropped>>
    BY <1>5 DEF SetSince, history
  <2>4. since' = "fresh" /\ Goto(w, AfterSince) /\ AfterSince \in {"start", "requeue"}
    BY <2>1, <2>2 DEF AfterSince
  <2>5. Handling(w)
    BY <2>1 DEF Handling, HoldingSteps
  <2>6. QED
    BY <1>1, <1>2, <1>3, <2>3, <2>4, <2>5, MoveSafety
<1>6. CASE Requeue
  <2>1. PICK o \in Outcome :
          /\ pc[w] = "requeue"
          /\ Command(o)
          /\ PushReady(held[w], o)
          /\ Goto(w, IF Replied(o) THEN "unhold" ELSE "head")
    BY <1>6 DEF Requeue
  <2>2. o = "ok"
    BY <2>1, NoFault
  <2>3. UNCHANGED <<inflight, since, held, life, accepted, finished, dropped>>
    BY <1>6 DEF Requeue
  <2>4. held[w] \in Envelope /\ Handling(w)
    BY <1>2, <2>1 DEF Handling
  <2>5. Durable' = Durable \cup {held[w].id}
    BY <2>1, <2>2, <2>3, <2>4, PushReadyIds DEF Durable, TypeOK
  <2>6. Goto(w, "unhold")
    BY <2>1, <2>2
  <2>7. QED
    BY <1>1, <1>2, <2>3, <2>4, <2>5, <2>6, MoveSafety
<1>7. CASE Unhold
  <2>1. PICK o \in Outcome :
          /\ pc[w] = "unhold"
          /\ Command(o)
          /\ DelInflight(o)
          /\ Goto(w, AfterKey(Priority[held[w].id]))
    BY <1>7 DEF Unhold
  <2>2. o = "ok"
    BY <2>1, NoFault
  <2>3. UNCHANGED <<ready, life, accepted, finished, dropped>>
    BY <1>7 DEF Unhold, history
  <2>4. pc["boot"] = "idle" /\ Alive
    BY <2>1 DEF CrashSafety, LifeOrder, Alive
  <2>5. /\ pc'[w] \in {"head", "popS"} /\ pc'["boot"] = "idle" /\ pc'["janitor"] = pc["janitor"]
        /\ Alive'
    BY <2>1, <2>3, <2>4 DEF Goto, AfterKey, TypeOK, ProcTypeOK, Procs, Alive
  <2>6. QED
    BY <1>1, <2>1, <2>2, <2>3, <2>5, DeleteSafety
<1>8. CASE StartJob \/ Execute \/ ClearRunning
  <2>1. PICK step \in {"exec", "clear", "nack", "ack"} :
          /\ Goto(w, step)
          /\ pc[w] \in {"start", "exec", "clear"}
          /\ UNCHANGED <<ready, inflight, since, life, held, accepted, finished, dropped>>
    BY <1>8 DEF StartJob, Execute, ClearRunning, AfterRun, store, history
  <2>2. Handling(w)
    BY <1>2, <2>1 DEF Handling
  <2>3. QED
    BY <1>1, <1>2, <1>3, <2>1, <2>2, MoveSafety
<1>9. QED
  BY <1>4, <1>5, <1>6, <1>7, <1>8

LEMMA SweepSafety ==
    ASSUME TypeOK, CrashSafety, Janitor
    PROVE  CrashSafety'
<1> DEFINE p == "janitor"
<1>1. since # "expired" /\ pc[p] \notin NackSteps
  BY DEF CrashSafety
<1>2. ~NackStep(p)
  <2>1. pc[p] # "acktrim"
    BY DEF TypeOK, ProcTypeOK, Procs, ProcSteps, NackSteps
  <2>2. QED
    BY <1>1, <2>1 DEF NackStep, Nack, TrimDead, NackFinished, TrimDone, NackDelete, NackSteps
<1>3. /\ pc' \in {[pc EXCEPT ![p] = step] : step \in {"peek", "age", "idle"}}
      /\ \A q \in Procs \ {p} : held'[q] = held[q]
      /\ UNCHANGED <<store, life, accepted, finished, dropped>>
  <2>1. CASE SweepBegin
    BY <2>1 DEF SweepBegin, Goto, history
  <2>2. CASE SweepPeek
    <3>1. PICK o \in Outcome :
            IF Replied(o) /\ inflight # <<>>
            THEN Goto(p, "age") /\ Hold(p, Head(inflight))
            ELSE Goto(p, "idle") /\ UNCHANGED held
      BY <2>2 DEF SweepPeek
    <3>2. UNCHANGED <<store, life, accepted, finished, dropped>>
      BY <2>2 DEF SweepPeek, history
    <3>3. \A q \in Procs \ {p} : held'[q] = held[q]
      BY <3>1 DEF Hold, TypeOK, ProcTypeOK
    <3>4. QED
      BY <3>1, <3>2, <3>3 DEF Goto
  <2>3. CASE SweepAge
    <3>1. PICK o \in Outcome :
            Goto(p, IF Replied(o) /\ since = "expired" THEN "nack" ELSE "idle")
      BY <2>3 DEF SweepAge
    <3>2. Goto(p, "idle")
      BY <1>1, <3>1
    <3>3. UNCHANGED <<store, life, held, accepted, finished, dropped>>
      BY <2>3 DEF SweepAge, history
    <3>4. QED
      BY <3>2, <3>3 DEF Goto
  <2>4. QED
    BY <1>2, <2>1, <2>2, <2>3 DEF Janitor
<1>4. /\ pc'["worker"] = pc["worker"] /\ pc'["boot"] = pc["boot"] /\ pc'[p] \notin NackSteps
      /\ held'["worker"] = held["worker"] /\ held'["boot"] = held["boot"]
  BY <1>3 DEF TypeOK, ProcTypeOK, Procs, NackSteps
<1>5. LifeOrder' /\ InflightIsHeld' /\ PushedBeforeDelete' /\ NoSilentLoss'
  BY <1>3, <1>4 DEF CrashSafety, LifeOrder, InflightIsHeld, PushedBeforeDelete, NoSilentLoss,
     Durable, ReadyIds, Ids, Handling, Alive, store
<1>6. QED
  BY <1>1, <1>3, <1>4, <1>5 DEF CrashSafety, store

LEMMA LifeSafety ==
    ASSUME MaxFaults = 0, TypeOK, CrashSafety, Boot \/ RecoverInflight \/ Crash \/ Signal
    PROVE  CrashSafety'
<1>1. /\ since # "expired" /\ pc["janitor"] \notin NackSteps
      /\ inflight \in Seq(Envelope) /\ Len(inflight) <= 1
  BY DEF CrashSafety, InflightIsHeld, TypeOK, StoreTypeOK
<1>2. UNCHANGED <<store, accepted, finished, dropped>> => NoSilentLoss' /\ Durable' = Durable
  BY DEF CrashSafety, NoSilentLoss, Durable, ReadyIds, Ids, store
<1>3. CASE Boot
  <2>1. /\ life' = "boot" /\ life = "down" /\ Goto("boot", "peek") /\ UNCHANGED held
        /\ UNCHANGED <<store, accepted, finished, dropped>>
    BY <1>3 DEF Boot, history
  <2>2. pc'["boot"] = "peek" /\ pc'["worker"] = pc["worker"] /\ pc'["janitor"] = pc["janitor"]
    BY <2>1 DEF Goto, TypeOK, ProcTypeOK, Procs
  <2>3. pc["worker"] = "idle"
    BY <2>1 DEF CrashSafety, LifeOrder, Alive
  <2>4. LifeOrder' /\ InflightIsHeld' /\ PushedBeforeDelete'
    BY <1>1, <2>1, <2>2, <2>3 DEF LifeOrder, InflightIsHeld, PushedBeforeDelete, Handling,
       HoldingSteps, NackSteps, store
  <2>5. QED
    BY <1>1, <1>2, <2>1, <2>2, <2>4 DEF CrashSafety, store
<1>4. CASE RecoverInflight
  <2>1. PICK o \in Outcome :
          /\ pc["boot"] = "peek"
          /\ Command(o)
          /\ IF ~Replied(o)
             THEN EndProcess
             ELSE IF inflight = <<>>
                  THEN /\ life' = "up"
                       /\ pc' = [pc EXCEPT !["boot"] = "idle", !["worker"] = "head"]
                       /\ UNCHANGED held
                  ELSE /\ Hold("boot", Head(inflight))
                       /\ Goto("boot", "nack")
                       /\ UNCHANGED life
    BY <1>4 DEF RecoverInflight
  <2>2. o = "ok"
    BY <2>1, NoFault
  <2>3. UNCHANGED <<store, accepted, finished, dropped>>
    BY <1>4 DEF RecoverInflight, history
  <2>4. life = "boot" /\ pc["worker"] = "idle"
    BY <2>1 DEF CrashSafety, LifeOrder, Alive
  <2>5. CASE inflight = <<>>
    <3>1. pc'["boot"] = "idle" /\ pc'["worker"] = "head" /\ pc'["janitor"] = pc["janitor"]
          /\ life' = "up"
      BY <2>1, <2>2, <2>5 DEF TypeOK, ProcTypeOK, Procs
    <3>2. LifeOrder' /\ InflightIsHeld' /\ PushedBeforeDelete'
      BY <1>1, <2>3, <2>5, <3>1 DEF LifeOrder, InflightIsHeld, PushedBeforeDelete, Handling,
         HoldingSteps, NackSteps, Alive, store
    <3>3. QED
      BY <1>1, <1>2, <2>3, <3>1, <3>2 DEF CrashSafety, store
  <2>6. CASE inflight # <<>>
    <3>1. /\ pc'["boot"] = "nack" /\ pc'["worker"] = "idle" /\ pc'["janitor"] = pc["janitor"]
          /\ held'["boot"] = Head(inflight) /\ life' = "boot"
      BY <2>1, <2>2, <2>4, <2>6 DEF Goto, Hold, TypeOK, ProcTypeOK, Procs
    <3>2. inflight = <<Head(inflight)>>
      BY <1>1, <2>6, OneElement
    <3>3. LifeOrder' /\ InflightIsHeld' /\ PushedBeforeDelete'
      BY <1>1, <2>3, <3>1, <3>2 DEF LifeOrder, InflightIsHeld, PushedBeforeDelete, Handling,
         HoldingSteps, NackSteps, Alive, store
    <3>4. QED
      BY <1>1, <1>2, <2>3, <3>1, <3>3 DEF CrashSafety, store
  <2>7. QED
    BY <2>5, <2>6
<1>5. CASE Crash
  <2>1. EndProcess /\ UNCHANGED <<store, accepted, finished, dropped>>
    BY <1>5 DEF Crash
  <2>2. pc'["worker"] = "idle" /\ pc'["boot"] = "idle" /\ pc'["janitor"] = "idle"
    BY <2>1 DEF EndProcess, AllIdle, Procs
  <2>3. LifeOrder' /\ InflightIsHeld' /\ PushedBeforeDelete'
    BY <1>1, <2>1, <2>2 DEF LifeOrder, InflightIsHeld, PushedBeforeDelete, Handling,
       HoldingSteps, NackSteps, store
  <2>4. QED
    BY <1>1, <1>2, <2>1, <2>2, <2>3 DEF CrashSafety, NackSteps, store
<1>6. CASE Signal
  <2>1. /\ life = "up" /\ life' = "stopping"
        /\ UNCHANGED <<store, pc, held, accepted, finished, dropped>>
    BY <1>6 DEF Signal, workerVars, history
  <2>2. LifeOrder' /\ InflightIsHeld' /\ PushedBeforeDelete'
    BY <1>2, <2>1 DEF CrashSafety, LifeOrder, InflightIsHeld, PushedBeforeDelete, Handling, Alive, store
  <2>3. QED
    BY <1>1, <1>2, <2>1, <2>2 DEF CrashSafety, store
<1>7. QED
  BY <1>3, <1>4, <1>5, <1>6

\* A step that only adds to what is durable, and may accept one durable job.
LEMMA GrowSafety ==
    ASSUME CrashSafety, UNCHANGED <<inflight, since, pc, held, life>>, Durable \subseteq Durable',
           NEW j, accepted' = accepted \/ (accepted' = accepted \cup {j} /\ j \in Durable')
    PROVE  CrashSafety'
<1>1. Ids(inflight)' = Ids(inflight)
  BY DEF Ids
<1>2. NoSilentLoss'
  BY <1>1 DEF CrashSafety, NoSilentLoss, Durable
<1>3. LifeOrder' /\ InflightIsHeld' /\ PushedBeforeDelete'
  BY DEF CrashSafety, LifeOrder, InflightIsHeld, PushedBeforeDelete, Handling, Alive
<1>4. QED
  BY <1>2, <1>3 DEF CrashSafety

LEMMA EnqueueSafety ==
    ASSUME MaxFaults = 0, TypeOK, CrashSafety, NEW j \in Jobs, NEW o, Command(o), Enqueue(j, o),
           UNCHANGED <<inflight, since, life, workerVars, finished, dropped>>
    PROVE  CrashSafety'
<1>1. o = "ok"
  BY NoFault
<1>2. EnvelopeOf(j) \in Envelope /\ EnvelopeOf(j).id = j
  BY DEF EnvelopeOf, Envelope
<1>3. ReadyIds' = ReadyIds \cup {j}
  BY <1>1, <1>2, PushReadyIds DEF Enqueue, TypeOK
<1>4. accepted' = accepted \cup {j}
  BY <1>1 DEF Enqueue
<1>5. Durable \subseteq Durable' /\ j \in Durable'
  BY <1>3 DEF Durable
<1>6. QED
  BY <1>4, <1>5, GrowSafety DEF workerVars

\* LREM takes from a ready list only what it records as dropped.
LEMMA DropDurable ==
    ASSUME MaxFaults = 0, TypeOK, NEW c \in Conns, NEW m \in Modes, RemoverDrop(c, m)
    PROVE  /\ UNCHANGED <<inflight, since, pc, held, life, finished, accepted>>
           /\ Durable \subseteq Durable'
<1> DEFINE key == remover[c][m].key
<1>1. PICK o \in Outcome, e \in remover[c][m].victims :
        /\ Command(o)
        /\ ready' = IF Applied(o) THEN [ready EXCEPT ![key] = LRem(@, e)] ELSE ready
        /\ dropped' = IF Applied(o) /\ e \in Range(ready[key])
                      THEN dropped \cup {e.id} ELSE dropped
  BY DEF RemoverDrop
<1>2. o = "ok"
  BY <1>1, NoFault
<1>3. remover[c][m] \in RemoverStates
  BY DEF TypeOK, ConnTypeOK
<1>4. key \in Keys /\ e \in Envelope /\ ready[key] \in Seq(Envelope)
  BY <1>1, <1>3 DEF RemoverStates, TypeOK, StoreTypeOK
<1>5. /\ ready'[key] = LRem(ready[key], e)
      /\ \A k \in Keys \ {key} : ready'[k] = ready[k]
  BY <1>1, <1>2, <1>4 DEF TypeOK, StoreTypeOK
<1>6. Ids(ready[key]) \subseteq Ids(ready'[key]) \cup dropped' /\ dropped \subseteq dropped'
  <2>1. CASE e \in Range(ready[key])
    BY <2>1, <1>1, <1>2, <1>4, <1>5, IdsOfList
  <2>2. CASE e \notin Range(ready[key])
    <3>1. Ids(LRem(ready[key], e)) = Ids(ready[key])
      BY <2>2, <1>4, IdsOfList
    <3>2. dropped' = dropped
      BY <2>2, <1>1
    <3>3. QED
      BY <1>5, <3>1, <3>2
  <2>3. QED
    BY <2>1, <2>2
<1>7. ReadyIds \subseteq ReadyIds' \cup dropped'
  BY <1>4, <1>5, <1>6 DEF ReadyIds, Keys
<1>8. UNCHANGED <<inflight, since, pc, held, life, finished, accepted>>
  BY DEF RemoverDrop, workerVars
<1>9. Durable \subseteq Durable'
  BY <1>6, <1>7, <1>8 DEF Durable
<1>10. QED
  BY <1>8, <1>9

LEMMA InitSafety == Init => CrashSafety
<1> SUFFICES ASSUME Init PROVE CrashSafety
  OBVIOUS
<1>1. inflight = <<>> /\ since = "absent" /\ accepted = {} /\ \A p \in Procs : pc[p] = "idle"
  BY DEF Init, AllIdle
<1>2. \A p \in {"worker", "boot"} : pc[p] = "idle"
  BY <1>1 DEF Procs
<1>3. LifeOrder /\ InflightIsHeld /\ PushedBeforeDelete /\ NoSilentLoss
  BY <1>1, <1>2 DEF LifeOrder, InflightIsHeld, PushedBeforeDelete, NoSilentLoss, Handling,
     HoldingSteps, NackSteps
<1>4. QED
  BY <1>1, <1>3 DEF CrashSafety, NackSteps, Procs

LEMMA NextSafety ==
    ASSUME MaxFaults = 0, MaxExpiries = 0
    PROVE  TypeOK /\ CrashSafety /\ [Next]_vars => CrashSafety'
<1> SUFFICES ASSUME TypeOK, CrashSafety, [Next]_vars PROVE CrashSafety'
  OBVIOUS
<1>1. CASE Recovery
  BY <1>1, LifeSafety, NackSafety DEF Recovery
<1>2. CASE Crash \/ Signal
  BY <1>2, LifeSafety
<1>3. CASE Worker
  BY <1>3, WorkerSafety, PopSafety, AckSafety, NackSafety DEF Worker
<1>4. CASE Janitor
  BY <1>4, SweepSafety
<1>5. CASE CancelOnShutdown
  BY <1>5, QuietSafety DEF CancelOnShutdown, Cancel
<1>6. CASE Expire
  <2>1. expiries < MaxExpiries /\ expiries \in 0..MaxExpiries
    BY <1>6 DEF Expire, TypeOK, CountersTypeOK
  <2>2. QED
    BY <2>1
<1>7. ASSUME NEW j \in Jobs, SystemEnqueue(j)
      PROVE  CrashSafety'
  <2>1. PICK o \in Outcome : Command(o) /\ Enqueue(j, o)
    BY <1>7 DEF SystemEnqueue
  <2>2. UNCHANGED <<inflight, since, life, workerVars, finished, dropped>>
    BY <1>7 DEF SystemEnqueue
  <2>3. QED
    BY <2>1, <2>2, EnqueueSafety
<1>8. ASSUME NEW j \in Jobs, BecomeDue(j)
      PROVE  CrashSafety'
  BY <1>8, QuietSafety DEF BecomeDue, workerVars, history
<1>9. ASSUME NEW c \in Conns, HandlerEnqueue(c)
      PROVE  CrashSafety'
  <2>1. PICK o \in Outcome : Command(o) /\ Enqueue(handling[c], o)
    BY <1>9 DEF HandlerEnqueue
  <2>2. /\ handling[c] \in Jobs
        /\ UNCHANGED <<inflight, since, life, workerVars, finished, dropped>>
    BY <1>9 DEF HandlerEnqueue, TypeOK, ConnTypeOK
  <2>3. QED
    BY <2>1, <2>2, EnqueueSafety
<1>10. ASSUME NEW c \in Conns,
              Connect(c) \/ Disconnect(c) \/ StopChat(c) \/ \E j \in Jobs : HandleMessage(c, j)
       PROVE  CrashSafety'
  BY <1>10, QuietSafety DEF Connect, Disconnect, StopChat, HandleMessage, workerVars, history
<1>11. ASSUME NEW c \in Conns, NEW m \in Modes, Remover(c, m)
       PROVE  CrashSafety'
  <2>1. CASE RemoverCancel(c, m) \/ RemoverScan(c, m)
    BY <2>1, QuietSafety DEF RemoverCancel, RemoverScan, workerVars, history
  <2>2. CASE RemoverDrop(c, m)
    BY <2>2, DropDurable, GrowSafety
  <2>3. QED
    BY <1>11, <2>1, <2>2 DEF Remover
<1>12. CASE UNCHANGED vars
  BY <1>12, QuietSafety DEF vars, workerVars, history
<1>13. QED
  BY <1>1, <1>2, <1>3, <1>4, <1>5, <1>6, <1>7, <1>8, <1>9, <1>10, <1>11, <1>12 DEF Next

\* While no Valkey command fails and no visibility timeout passes, at whatever
\* points the process dies (CrashSafety): the in-flight list is what its one user
\* works on, and is deleted only once that envelope was pushed back or recorded
\* (manager.go:253-329, 374-409), so that the next start finds all there is to do.
THEOREM CrashLosesNothing ==
    ASSUME MaxFaults = 0, MaxExpiries = 0
    PROVE  Spec => []CrashSafety
<1>1. QED
  BY InitSafety, NextSafety, TypeCorrect, PTL DEF Spec

\* If no Valkey command fails and no visibility timeout passes, then whatever
\* the points at which the process dies, for any number of jobs, connections,
\* crashes and stops: the in-flight list never holds two envelopes, and a job
\* whose Enqueue succeeded is queued, in flight, recorded or dropped.
THEOREM NoLossWithoutFaults ==
    ASSUME MaxFaults = 0, MaxExpiries = 0
    PROVE  Spec => [](Len(inflight) <= 1 /\ NoSilentLoss)
<1>1. CrashSafety => Len(inflight) <= 1 /\ NoSilentLoss
  BY DEF CrashSafety, InflightIsHeld
<1>2. QED
  BY <1>1, CrashLosesNothing, PTL

-----------------------------------------------------------------------------
(* Bounded overtaking.                                                     *)

\* What holds of the process and of the clock in a step that leaves the ready
\* lists alone, or pushes on one of them.
Calm ==
    /\ due \subseteq due' /\ InHands' \subseteq InHands
    /\ pc'["worker"] \in {"requeue", "unhold"} => Priority[held'["worker"].id] = "scheduled"
    /\ TakesScheduled' => TakesScheduled
    /\ passed' = passed

LEMMA CalmOvertaking ==
    ASSUME OvertakingInv, Calm, UNCHANGED ready
    PROVE  OvertakingInv'
<1>1. ListsSorted' /\ InteractiveDue'
  BY DEF OvertakingInv, ListsSorted, InteractiveDue, Calm
<1>2. QED
  BY <1>1 DEF OvertakingInv, BoundedOvertaking, Calm, Ids

\* A step that pushes envelope e on its own ready list.
LEMMA PushOvertaking ==
    ASSUME TypeOK, OvertakingInv, Calm, NEW e \in Envelope, NEW o, PushReady(e, o),
           Priority[e.id] = "interactive" => e.id \in due'
    PROVE  OvertakingInv'
<1> DEFINE key == Priority[e.id]
<1>1. CASE ~Applied(o)
  BY <1>1, CalmOvertaking DEF PushReady
<1>2. CASE Applied(o)
  <2>1. key \in Keys /\ "interactive" \in Keys
    BY JobsAssumption DEF JobsAssumption, Envelope, Keys
  <2>2. ready' = [ready EXCEPT ![key] = Append(@, e)]
    BY <1>2 DEF PushReady
  <2>3. /\ ready'[key] = Append(ready[key], e)
        /\ \A k \in Keys \ {key} : ready'[k] = ready[k]
    BY <2>1, <2>2 DEF TypeOK, StoreTypeOK
  <2>4. Range(Append(ready[key], e)) = Range(ready[key]) \cup {e}
    BY <2>1, AppendRange DEF TypeOK, StoreTypeOK
  <2>5. \A k \in Keys : /\ Range(ready[k]) \subseteq Range(ready'[k])
                        /\ Range(ready'[k]) \subseteq Range(ready[k]) \cup {e}
                        /\ k # key => Range(ready'[k]) = Range(ready[k])
    BY <2>3, <2>4
  <2>6. ListsSorted'
    BY <2>5 DEF OvertakingInv, ListsSorted
  <2>7. InteractiveDue'
    BY <2>1, <2>5 DEF OvertakingInv, InteractiveDue, Calm
  <2>8. Ids(ready["interactive"]) \subseteq Ids(ready'["interactive"])
    BY <2>1, <2>5 DEF Ids
  <2>9. \A j \in Jobs : passed'[j] # 0 => j \in Ids(ready["interactive"])'
    BY <2>8 DEF OvertakingInv, Calm, Ids
  <2>10. QED
    BY <2>6, <2>7, <2>9 DEF OvertakingInv, BoundedOvertaking, Calm
<1>3. QED
  BY <1>1, <1>2

\* A step of another goroutine that leaves the worker where it is.
LEMMA OtherStepCalm ==
    ASSUME OvertakingInv, due \subseteq due', InHands' \subseteq InHands,
           pc'["worker"] = pc["worker"], held'["worker"] = held["worker"], passed' = passed
    PROVE  Calm
BY DEF Calm, TakesScheduled, OvertakingInv, InteractiveDue

\* A step after which the worker neither waits nor takes a job.
LEMMA IdleStepCalm ==
    ASSUME due \subseteq due', InHands' \subseteq InHands, passed' = passed,
           pc'["worker"] \notin {"popS", "since", "start", "requeue", "unhold"}
    PROVE  Calm
BY DEF Calm, TakesScheduled

LEMMA ResumeCalm ==
    ASSUME TypeOK, OvertakingInv, NEW p \in Procs, NEW success, Resume(p, success),
           Range(inflight') \subseteq Range(inflight), due' = due, passed' = passed
    PROVE  Calm
<1>1. CASE p = "boot" /\ ~success
  <2>1. /\ pc'["worker"] = "idle"
        /\ \A q \in Procs : held'[q] = NoEnvelope
    BY <1>1 DEF Resume, EndProcess, AllIdle, Procs
  <2>2. InHands' \subseteq InHands
    BY <2>1 DEF InHands
  <2>3. QED
    BY <2>1, <2>2, IdleStepCalm
<1>2. CASE ~(p = "boot" /\ ~success)
  <2>1. UNCHANGED held /\ pc'["worker"] \in {pc["worker"], "head"}
    BY <1>2 DEF Resume, TypeOK, ProcTypeOK, Procs
  <2>2. InHands' \subseteq InHands
    BY <2>1 DEF InHands
  <2>3. QED
    BY <2>1, <2>2, OtherStepCalm, IdleStepCalm
<1>3. QED
  BY <1>1, <1>2

LEMMA ContinueCalm ==
    ASSUME TypeOK, OvertakingInv, NEW p \in Procs, NEW step, Continue(p, step),
           step \notin {"popS", "since", "start", "requeue", "unhold"},
           Range(inflight') \subseteq Range(inflight), due' = due, passed' = passed
    PROVE  Calm
<1>1. UNCHANGED held /\ pc'["worker"] \in {pc["worker"], step}
  BY DEF Continue, Goto, TypeOK, ProcTypeOK, Procs
<1>2. InHands' \subseteq InHands
  BY <1>1 DEF InHands
<1>3. QED
  BY <1>1, <1>2, OtherStepCalm, IdleStepCalm

LEMMA DelInflightRange ==
    ASSUME TypeOK, NEW o, DelInflight(o)
    PROVE  Range(inflight') \subseteq Range(inflight)
<1>1. Range(<<>>) = {}
  BY EmptySeq DEF Range
<1>2. QED
  BY <1>1 DEF DelInflight

LEMMA NackOvertaking ==
    ASSUME TypeOK, OvertakingInv, NEW p \in Procs, NackStep(p)
    PROVE  OvertakingInv'
<1> DEFINE jumps == {"popS", "since", "start", "requeue", "unhold"}
<1>1. {"nackdel", "ackdel", "nackdone", "deadtrim", "donetrim"} \cap jumps = {}
  OBVIOUS
<1>2. CASE Nack(p)
  <2> DEFINE e == Retried(held[p])
  <2>1. PICK o \in Outcome :
          /\ pc[p] = "nack"
          /\ IF Exhausted(e) THEN UNCHANGED <<ready, late>>
             ELSE PushReady(e, o) /\ UNCHANGED <<dead, finished>>
          /\ IF Replied(o) THEN Continue(p, AfterNackPush(e)) ELSE Resume(p, FALSE)
    BY <1>2 DEF Nack
  <2>2. inflight' = inflight /\ due' = due /\ passed' = passed
    BY <1>2 DEF Nack
  <2>3. Calm
    <3>1. AfterNackPush(e) \in {"deadtrim", "nackdel"}
      BY DEF AfterNackPush
    <3>2. QED
      BY <1>1, <2>1, <2>2, <3>1, ContinueCalm, ResumeCalm
  <2>4. held[p] \in Envelope
    BY <2>1 DEF TypeOK, ProcTypeOK, HoldingSteps, NackSteps
  <2>5. e \in Envelope /\ e.id = held[p].id
    BY <2>4, RetriedType
  <2>6. Priority[e.id] = "interactive" => e.id \in due'
    <3>1. held[p] # NoEnvelope
      BY <2>4, JobsAssumption DEF JobsAssumption, Envelope, NoEnvelope
    <3>2. QED
      BY <2>2, <2>5, <3>1 DEF OvertakingInv, InteractiveDue, InHands
  <2>7. QED
    BY <2>1, <2>3, <2>5, <2>6, CalmOvertaking, PushOvertaking
<1>3. CASE TrimDead(p) \/ NackFinished(p) \/ TrimDone(p)
  <2>1. PICK step \in {"nackdone", "donetrim", "nackdel", "ackdel"} :
          /\ Continue(p, step) \/ Resume(p, FALSE)
          /\ UNCHANGED <<ready, inflight, due, passed>>
    BY <1>3 DEF TrimDead, NackFinished, TrimDone, history
  <2>2. Calm
    BY <1>1, <2>1, ContinueCalm, ResumeCalm
  <2>3. QED
    BY <2>1, <2>2, CalmOvertaking
<1>4. CASE NackDelete(p)
  <2>1. PICK o \in Outcome : DelInflight(o) /\ Resume(p, Replied(o))
    BY <1>4 DEF NackDelete
  <2>2. UNCHANGED <<ready, due, passed>>
    BY <1>4 DEF NackDelete, history
  <2>3. Calm
    BY <2>1, <2>2, DelInflightRange, ResumeCalm
  <2>4. QED
    BY <2>2, <2>3, CalmOvertaking
<1>5. QED
  BY <1>2, <1>3, <1>4 DEF NackStep

LEMMA AckOvertaking ==
    ASSUME TypeOK, OvertakingInv, Ack \/ AckDelete
    PROVE  OvertakingInv'
<1>1. "worker" \in Procs
  BY DEF Procs
<1>2. CASE Ack
  <2>1. /\ Continue("worker", "acktrim") \/ Resume("worker", FALSE)
        /\ UNCHANGED <<ready, inflight, due, passed>>
    BY <1>2 DEF Ack
  <2>2. Calm
    BY <1>1, <2>1, ContinueCalm, ResumeCalm
  <2>3. QED
    BY <2>1, <2>2, CalmOvertaking
<1>3. CASE AckDelete
  <2>1. PICK o \in Outcome : DelInflight(o) /\ Resume("worker", Replied(o))
    BY <1>3 DEF AckDelete
  <2>2. UNCHANGED <<ready, due, passed>>
    BY <1>3 DEF AckDelete, history
  <2>3. Calm
    BY <1>1, <2>1, <2>2, DelInflightRange, ResumeCalm
  <2>4. QED
    BY <2>2, <2>3, CalmOvertaking
<1>4. QED
  BY <1>2, <1>3

LEMMA PopOvertaking ==
    ASSUME TypeOK, OvertakingInv, Pop
    PROVE  OvertakingInv'
<1> DEFINE w == "worker"  list == ready[PopKey]
<1>1. /\ w \in Procs /\ PopKey \in Keys /\ "interactive" \in Keys /\ list \in Seq(Envelope)
      /\ passed \in [Jobs -> 0..2]
  BY DEF Procs, PopKey, Keys, TypeOK, StoreTypeOK, HistoryTypeOK
<1>2. PICK o \in Outcome :
        /\ IF Applied(o) /\ list # <<>>
           THEN /\ ready' = [ready EXCEPT ![PopKey] = Tail(list)]
                /\ inflight' = <<Head(list)>> \o inflight
                /\ passed' = [passed EXCEPT ![Head(list).id] = 0]
           ELSE UNCHANGED <<ready, inflight, passed>>
        /\ IF ~Replied(o)
           THEN Goto(w, "head") /\ UNCHANGED held
           ELSE IF list = <<>>
                THEN Goto(w, AfterKey(PopKey)) /\ UNCHANGED held
                ELSE Goto(w, "since") /\ Hold(w, Head(list))
  BY DEF Pop
<1>3. due' = due /\ pc[w] \in {"popI", "popS"}
  BY DEF Pop
<1>4. list # <<>> => Head(list) \in Envelope /\ Head(list) \in Range(list)
                     /\ Range(Tail(list)) \subseteq Range(list)
  BY <1>1, HeadTailRange
<1>5. \A k \in Keys : Range(ready'[k]) \subseteq Range(ready[k])
  BY <1>1, <1>2, <1>4 DEF TypeOK, StoreTypeOK
<1>6. ListsSorted'
  BY <1>5 DEF OvertakingInv, ListsSorted
<1>7. \A e \in InHands' : e \in InHands \/ (list # <<>> /\ e = Head(list))
  <2>1. Range(inflight') \subseteq Range(inflight) \cup (IF list # <<>> THEN {Head(list)} ELSE {})
    <3>1. CASE Applied(o) /\ list # <<>>
      <4>1. inflight' = <<Head(list)>> \o inflight
        BY <1>2, <3>1
      <4>2. QED
        BY <3>1, <4>1, <1>4, PrependRange DEF TypeOK, StoreTypeOK
    <3>2. CASE ~(Applied(o) /\ list # <<>>)
      BY <1>2, <3>2
    <3>3. QED
      BY <3>1, <3>2
  <2>2. \A p \in Procs : held'[p] = held[p] \/ (list # <<>> /\ held'[p] = Head(list))
    BY <1>2 DEF Hold, TypeOK, ProcTypeOK
  <2>3. QED
    BY <2>1, <2>2 DEF InHands
<1>8. pc'[w] \in {"head", "popS", "since"}
  BY <1>1, <1>2 DEF Goto, AfterKey, TypeOK, ProcTypeOK
<1>9. InteractiveDue'
  <2>1. \A e \in Range(ready'["interactive"]) \cup InHands' :
          Priority[e.id] = "interactive" => e.id \in due'
    <3>1. list # <<>> /\ Priority[Head(list).id] = "interactive" => Head(list).id \in due
      BY <1>1, <1>4 DEF OvertakingInv, ListsSorted, InteractiveDue
    <3>2. QED
      BY <1>1, <1>3, <1>5, <1>7, <3>1 DEF OvertakingInv, InteractiveDue
  <2>2. QED
    BY <1>8, <2>1 DEF InteractiveDue
<1>10. \A j \in Jobs : passed'[j] = 0 \/ passed'[j] = passed[j]
  BY <1>1, <1>2, <1>4 DEF Envelope
<1>11. \A j \in Jobs : passed'[j] # 0 => j \in Ids(ready'["interactive"])
  <2> SUFFICES ASSUME NEW j \in Jobs, passed'[j] # 0
               PROVE  j \in Ids(ready'["interactive"])
    OBVIOUS
  <2>1. j \in Ids(ready["interactive"])
    BY <1>10 DEF OvertakingInv
  <2>2. CASE Applied(o) /\ list # <<>>
    <3>1. /\ ready' = [ready EXCEPT ![PopKey] = Tail(list)]
          /\ passed' = [passed EXCEPT ![Head(list).id] = 0]
      BY <1>2, <2>2
    <3>2. j # Head(list).id
      BY <1>1, <3>1
    <3>3. Range(list) = {Head(list)} \cup Range(Tail(list))
      BY <1>1, <2>2, HeadTailRange
    <3>4. ready'["interactive"] = IF PopKey = "interactive" THEN Tail(list) ELSE ready["interactive"]
      BY <1>1, <3>1 DEF TypeOK, StoreTypeOK
    <3>5. QED
      BY <2>1, <3>2, <3>3, <3>4 DEF Ids
  <2>3. CASE ~(Applied(o) /\ list # <<>>)
    BY <1>2, <2>1, <2>3
  <2>4. QED
    BY <2>2, <2>3
<1>12. TakesScheduled' => \A j \in Jobs : passed'[j] = 0
  <2> SUFFICES ASSUME TakesScheduled' PROVE \A j \in Jobs : passed'[j] = 0
    OBVIOUS
  <2>1. CASE pc[w] = "popS"
    BY <2>1, <1>10 DEF OvertakingInv, TakesScheduled
  <2>2. CASE pc[w] = "popI"
    <3>1. PopKey = "interactive"
      BY <2>2 DEF PopKey
    <3>2. pc'[w] # "head"
      BY DEF TakesScheduled
    <3>3. Replied(o)
      BY <1>1, <1>2, <3>2 DEF Goto, TypeOK, ProcTypeOK
    <3>4. CASE list = <<>>
      <4>1. Ids(ready'["interactive"]) = {}
        <5>1. ready' = ready /\ Range(<<>>) = {}
          BY <1>2, <3>4, EmptySeq DEF Range
        <5>2. QED
          BY <3>1, <3>4, <5>1 DEF Ids
      <4>2. QED
        BY <1>11, <4>1
    <3>5. CASE list # <<>>
      <4>1. pc'[w] = "since" /\ held'[w] = Head(list)
        BY <1>1, <1>2, <3>3, <3>5 DEF Goto, Hold, TypeOK, ProcTypeOK
      <4>2. Priority[Head(list).id] = "interactive"
        BY <1>1, <1>4, <3>1, <3>5 DEF OvertakingInv, ListsSorted
      <4>3. QED
        BY <4>1, <4>2 DEF TakesScheduled
    <3>6. QED
      BY <3>4, <3>5
  <2>3. QED
    BY <1>3, <2>1, <2>2
<1>13. BoundedOvertaking'
  BY <1>10 DEF OvertakingInv, BoundedOvertaking
<1>14. QED
  BY <1>6, <1>9, <1>11, <1>12, <1>13 DEF OvertakingInv, Ids

LEMMA StartOvertaking ==
    ASSUME TypeOK, OvertakingInv, StartJob
    PROVE  OvertakingInv'
<1> DEFINE w == "worker"  scheduled == Priority[held[w].id] = "scheduled"
<1>1. /\ pc[w] = "start" /\ Goto(w, "exec") /\ UNCHANGED <<ready, inflight, held, due>>
      /\ passed' = [j \in Jobs |->
                      IF scheduled /\ j \in Ids(ready["interactive"])
                      THEN IF passed[j] < 2 THEN passed[j] + 1 ELSE 2
                      ELSE passed[j]]
  BY DEF StartJob, store
<1>2. pc'[w] = "exec" /\ InHands' = InHands
  BY <1>1 DEF Goto, InHands, TypeOK, ProcTypeOK, Procs
<1>3. ListsSorted' /\ InteractiveDue'
  BY <1>1, <1>2 DEF OvertakingInv, ListsSorted, InteractiveDue
<1>4. ~TakesScheduled'
  BY <1>2 DEF TakesScheduled
<1>5. scheduled => \A j \in Jobs : passed[j] = 0
  BY <1>1 DEF OvertakingInv, TakesScheduled
<1>6. \A j \in Jobs : /\ passed'[j] # 0 => j \in Ids(ready["interactive"])
                      /\ passed'[j] <= 1
  <2> SUFFICES ASSUME NEW j \in Jobs
               PROVE  /\ passed'[j] # 0 => j \in Ids(ready["interactive"])
                      /\ passed'[j] <= 1
    OBVIOUS
  <2>1. passed[j] <= 1 /\ (passed[j] # 0 => j \in Ids(ready["interactive"]))
    BY DEF OvertakingInv, BoundedOvertaking
  <2>2. CASE scheduled /\ j \in Ids(ready["interactive"])
    BY <2>2, <1>1, <1>5
  <2>3. CASE ~(scheduled /\ j \in Ids(ready["interactive"]))
    BY <2>3, <1>1, <2>1
  <2>4. QED
    BY <2>2, <2>3
<1>7. QED
  BY <1>1, <1>3, <1>4, <1>6 DEF OvertakingInv, BoundedOvertaking, Ids

LEMMA WorkerOvertaking ==
    ASSUME TypeOK, OvertakingInv,
           WorkerLoop \/ SetSince \/ Requeue \/ Unhold \/ Execute \/ ClearRunning
    PROVE  OvertakingInv'
<1> DEFINE w == "worker"
<1>1. w \in Procs /\ (pc[w] \in HoldingSteps => held[w] \in Envelope)
  BY DEF Procs, TypeOK, ProcTypeOK
<1>2. ASSUME NEW step, Goto(w, step)
      PROVE  pc'[w] = step
  BY <1>1, <1>2 DEF Goto, TypeOK, ProcTypeOK
<1>3. UNCHANGED <<inflight, held>> => InHands' = InHands
  BY DEF InHands
<1>4. CASE WorkerLoop \/ Execute \/ ClearRunning
  <2>1. PICK step \in {"popI", "clear", "nack", "ack"} :
          Goto(w, step) /\ UNCHANGED <<ready, inflight, held, due, passed>>
    BY <1>4 DEF WorkerLoop, Execute, ClearRunning, AfterRun, store, history
  <2>2. Calm
    BY <1>2, <1>3, <2>1, IdleStepCalm
  <2>3. QED
    BY <2>1, <2>2, CalmOvertaking
<1>5. CASE SetSince
  <2>1. PICK step \in {AfterSince, "head"} :
          /\ pc[w] = "since" /\ Goto(w, step)
          /\ UNCHANGED <<ready, inflight, held, due, passed>>
    BY <1>5 DEF SetSince, history
  <2>2. Calm
    <3>1. CASE step = "head"
      BY <3>1, <1>2, <1>3, <2>1, IdleStepCalm
    <3>2. CASE step = AfterSince
      <4>1. pc'[w] = AfterSince /\ held'[w] = held[w] /\ InHands' = InHands
        BY <3>2, <1>2, <1>3, <2>1
      <4>2. held[w] \in Envelope
        BY <1>1, <2>1 DEF HoldingSteps
      <4>3. held[w].id \notin due => Priority[held[w].id] = "scheduled"
        <5>1. held[w] \in InHands /\ Priority[held[w].id] \in Keys
          BY <1>1, <4>2, JobsAssumption DEF JobsAssumption, InHands, Envelope, NoEnvelope
        <5>2. QED
          BY <5>1 DEF OvertakingInv, InteractiveDue, Keys
      <4>4. pc'[w] \in {"start", "requeue"} /\ (pc'[w] = "requeue" => held[w].id \notin due)
        BY <4>1 DEF AfterSince
      <4>5. QED
        BY <2>1, <4>1, <4>3, <4>4 DEF Calm, TakesScheduled
    <3>3. QED
      BY <2>1, <3>1, <3>2
  <2>3. QED
    BY <2>1, <2>2, CalmOvertaking
<1>6. CASE Requeue
  <2>1. PICK o \in Outcome :
          /\ pc[w] = "requeue"
          /\ PushReady(held[w], o)
          /\ Goto(w, IF Replied(o) THEN "unhold" ELSE "head")
    BY <1>6 DEF Requeue
  <2>2. UNCHANGED <<inflight, held, due, passed>>
    BY <1>6 DEF Requeue
  <2>3. Priority[held[w].id] = "scheduled" /\ held[w] \in Envelope
    BY <1>1, <2>1 DEF OvertakingInv, InteractiveDue, HoldingSteps
  <2>4. pc'[w] \in {"unhold", "head"}
    BY <1>2, <2>1
  <2>5. Calm
    BY <1>3, <2>2, <2>3, <2>4 DEF Calm, TakesScheduled
  <2>6. QED
    BY <2>1, <2>3, <2>5, PushOvertaking
<1>7. CASE Unhold
  <2>1. PICK o \in Outcome :
          /\ pc[w] = "unhold"
          /\ DelInflight(o)
          /\ Goto(w, AfterKey(Priority[held[w].id]))
    BY <1>7 DEF Unhold
  <2>2. UNCHANGED <<ready, held, due, passed>>
    BY <1>7 DEF Unhold, history
  <2>3. Goto(w, "head")
    BY <2>1 DEF OvertakingInv, InteractiveDue, AfterKey
  <2>4. InHands' \subseteq InHands
    BY <2>1, <2>2, DelInflightRange DEF InHands
  <2>5. Calm
    BY <1>2, <2>2, <2>3, <2>4, IdleStepCalm
  <2>6. QED
    BY <2>2, <2>5, CalmOvertaking
<1>8. QED
  BY <1>4, <1>5, <1>6, <1>7

\* LRANGE inflight 0 0 finds an envelope that is in the list.
LEMMA HeadInHands ==
    ASSUME TypeOK, inflight # <<>>
    PROVE  Head(inflight) \in InHands
<1>1. Head(inflight) \in Range(inflight)
  BY HeadTailRange DEF TypeOK, StoreTypeOK
<1>2. QED
  BY <1>1 DEF InHands

LEMMA SweepOvertaking ==
    ASSUME TypeOK, OvertakingInv, SweepBegin \/ SweepPeek \/ SweepAge
    PROVE  OvertakingInv'
<1> DEFINE p == "janitor"
<1>1. UNCHANGED <<ready, inflight, due, passed>>
  BY DEF SweepBegin, SweepPeek, SweepAge, store, history
<1>2. PICK step \in {"peek", "age", "nack", "idle"} :
        /\ Goto(p, step)
        /\ UNCHANGED held \/ (inflight # <<>> /\ Hold(p, Head(inflight)))
  BY DEF SweepBegin, SweepPeek, SweepAge
<1>3. pc'["worker"] = pc["worker"] /\ held'["worker"] = held["worker"]
  BY <1>2 DEF Goto, Hold, TypeOK, ProcTypeOK, Procs
<1>4. InHands' \subseteq InHands
  <2>1. CASE UNCHANGED held
    BY <2>1, <1>1 DEF InHands
  <2>2. CASE inflight # <<>> /\ Hold(p, Head(inflight))
    <3>1. \A q \in Procs : held'[q] = held[q] \/ held'[q] = Head(inflight)
      BY <2>2 DEF Hold, TypeOK, ProcTypeOK
    <3>2. QED
      BY <2>2, <1>1, <3>1, HeadInHands DEF InHands
  <2>3. QED
    BY <1>2, <2>1, <2>2
<1>5. Calm
  BY <1>1, <1>3, <1>4, OtherStepCalm
<1>6. QED
  BY <1>1, <1>5, CalmOvertaking

LEMMA LifeOvertaking ==
    ASSUME TypeOK, OvertakingInv, Boot \/ RecoverInflight \/ Crash \/ Signal
    PROVE  OvertakingInv'
<1>1. UNCHANGED <<ready, inflight, due, passed>>
  BY DEF Boot, RecoverInflight, Crash, Signal, store, history
<1>2. CASE EndProcess
  <2>1. pc'["worker"] = "idle" /\ \A q \in Procs : held'[q] = NoEnvelope
    BY <1>2 DEF EndProcess, AllIdle, Procs
  <2>2. InHands' \subseteq InHands
    BY <1>1, <2>1 DEF InHands
  <2>3. Calm
    BY <1>1, <2>1, <2>2, IdleStepCalm
  <2>4. QED
    BY <1>1, <2>3, CalmOvertaking
<1>3. CASE ~EndProcess
  <2>1. /\ pc'["worker"] \in {pc["worker"], "head"}
        /\ UNCHANGED held \/ (inflight # <<>> /\ Hold("boot", Head(inflight)))
    <3>1. CASE Boot \/ Signal
      BY <3>1 DEF Boot, Signal, Goto, workerVars, TypeOK, ProcTypeOK, Procs
    <3>2. CASE RecoverInflight
      BY <1>3, <3>2 DEF RecoverInflight, Goto, TypeOK, ProcTypeOK, Procs
    <3>3. QED
      BY <1>3, <3>1, <3>2 DEF Crash
  <2>2. \A q \in Procs : held'[q] = held[q] \/ (inflight # <<>> /\ held'[q] = Head(inflight))
    BY <2>1 DEF Hold, TypeOK, ProcTypeOK
  <2>3. held'["worker"] = held["worker"]
    BY <2>1 DEF Hold, TypeOK, ProcTypeOK, Procs
  <2>4. InHands' \subseteq InHands
    BY <1>1, <2>2, HeadInHands DEF InHands
  <2>5. Calm
    BY <1>1, <2>1, <2>3, <2>4, OtherStepCalm, IdleStepCalm
  <2>6. QED
    BY <1>1, <2>5, CalmOvertaking
<1>4. QED
  BY <1>2, <1>3

LEMMA EnqueueOvertaking ==
    ASSUME TypeOK, OvertakingInv, NEW j \in Jobs, NEW o, Enqueue(j, o),
           UNCHANGED <<inflight, pc, held, passed>>
    PROVE  OvertakingInv'
<1>1. EnvelopeOf(j) \in Envelope /\ EnvelopeOf(j).id = j /\ PushReady(EnvelopeOf(j), o)
  BY DEF EnvelopeOf, Envelope, Enqueue
<1>2. due \subseteq due' /\ (j \notin Delayed => j \in due')
  BY DEF Enqueue
<1>3. Priority[j] = "interactive" => j \notin Delayed
  BY JobsAssumption DEF JobsAssumption
<1>4. InHands' = InHands
  BY DEF InHands
<1>5. Calm
  BY <1>2, <1>4, OtherStepCalm
<1>6. QED
  BY <1>1, <1>2, <1>3, <1>5, PushOvertaking

LEMMA DropOvertaking ==
    ASSUME TypeOK, OvertakingInv, NEW c \in Conns, NEW m \in Modes, RemoverDrop(c, m)
    PROVE  OvertakingInv'
<1> DEFINE key == remover[c][m].key
<1>1. PICK o \in Outcome, e \in remover[c][m].victims :
        /\ ready' = IF Applied(o) THEN [ready EXCEPT ![key] = LRem(@, e)] ELSE ready
        /\ passed' = IF Applied(o) THEN [passed EXCEPT ![e.id] = 0] ELSE passed
  BY DEF RemoverDrop
<1>2. UNCHANGED <<inflight, due, pc, held>>
  BY DEF RemoverDrop, workerVars
<1>3. remover[c][m] \in RemoverStates /\ "interactive" \in Keys
  BY DEF TypeOK, ConnTypeOK, Keys
<1>4. key \in Keys /\ e \in Envelope /\ ready[key] \in Seq(Envelope)
  BY <1>1, <1>3 DEF RemoverStates, TypeOK, StoreTypeOK
<1>5. Range(LRem(ready[key], e)) = Range(ready[key]) \ {e}
  BY <1>4, LRemRange
<1>6. InHands' = InHands /\ (TakesScheduled' <=> TakesScheduled)
  BY <1>2 DEF InHands, TakesScheduled
<1>7. CASE ~Applied(o)
  <2>1. Calm /\ UNCHANGED ready
    BY <1>1, <1>2, <1>6, <1>7, OtherStepCalm
  <2>2. QED
    BY <2>1, CalmOvertaking
<1>8. CASE Applied(o)
  <2>1. /\ ready'[key] = LRem(ready[key], e)
        /\ \A k \in Keys \ {key} : ready'[k] = ready[k]
    BY <1>1, <1>4, <1>8 DEF TypeOK, StoreTypeOK
  <2>2. \A k \in Keys : /\ Range(ready'[k]) \subseteq Range(ready[k])
                        /\ Range(ready[k]) \subseteq Range(ready'[k]) \cup {e}
    BY <1>5, <2>1
  <2>3. ListsSorted' /\ InteractiveDue'
    BY <1>2, <1>3, <1>6, <2>2 DEF OvertakingInv, ListsSorted, InteractiveDue
  <2>4. passed' = [passed EXCEPT ![e.id] = 0] /\ passed \in [Jobs -> 0..2]
    BY <1>1, <1>8 DEF TypeOK, HistoryTypeOK
  <2>5. \A j \in Jobs : passed'[j] = IF j = e.id THEN 0 ELSE passed[j]
    BY <2>4
  <2>6. \A j \in Jobs : passed'[j] # 0 => j \in Ids(ready'["interactive"])
    BY <1>3, <2>2, <2>5 DEF OvertakingInv, Ids
  <2>7. QED
    BY <1>6, <2>3, <2>5, <2>6 DEF OvertakingInv, BoundedOvertaking, Ids
<1>9. QED
  BY <1>7, <1>8

\* While an interactive job waits on its ready list, the worker starts at most
\* one scheduled job: acquire (manager.go) tries the interactive list first
\* each time.  This needs no assumption on faults, crashes or timeouts.
THEOREM InteractiveFirst == Spec => []BoundedOvertaking
<1>1. Init => OvertakingInv
  <2> SUFFICES ASSUME Init PROVE OvertakingInv
    OBVIOUS
  <2>1. Range(<<>>) = {}
    BY EmptySeq DEF Range
  <2>2. /\ \A k \in Keys : Range(ready[k]) = {}
        /\ "interactive" \in Keys
        /\ \A j \in Jobs : passed[j] = 0
        /\ pc["worker"] = "idle"
    BY <2>1 DEF Init, AllIdle, Keys, Procs
  <2>3. InHands = {}
    BY <2>1 DEF Init, InHands
  <2>4. QED
    BY <2>2, <2>3 DEF OvertakingInv, ListsSorted, InteractiveDue, BoundedOvertaking
<1>2. TypeOK /\ OvertakingInv /\ [Next]_vars => OvertakingInv'
  <2> SUFFICES ASSUME TypeOK, OvertakingInv, [Next]_vars PROVE OvertakingInv'
    OBVIOUS
  <2>1. ASSUME UNCHANGED <<ready, inflight, pc, held, passed>>, due \subseteq due'
        PROVE  OvertakingInv'
    <3>1. InHands' = InHands
      BY <2>1 DEF InHands
    <3>2. Calm
      BY <2>1, <3>1, OtherStepCalm
    <3>3. QED
      BY <2>1, <3>2, CalmOvertaking
  <2>2. CASE Recovery
    BY <2>2, LifeOvertaking, NackOvertaking DEF Recovery, Procs
  <2>3. CASE Crash \/ Signal
    BY <2>3, LifeOvertaking
  <2>4. CASE Worker
    BY <2>4, WorkerOvertaking, PopOvertaking, StartOvertaking, AckOvertaking, NackOvertaking
       DEF Worker, Procs
  <2>5. CASE Janitor
    BY <2>5, SweepOvertaking, NackOvertaking DEF Janitor, Procs
  <2>6. CASE CancelOnShutdown \/ Expire
    BY <2>1, <2>6 DEF CancelOnShutdown, Expire, store, workerVars, history
  <2>7. ASSUME NEW j \in Jobs, SystemEnqueue(j)
        PROVE  OvertakingInv'
    <3>1. PICK o \in Outcome : Enqueue(j, o)
      BY <2>7 DEF SystemEnqueue
    <3>2. UNCHANGED <<inflight, pc, held, passed>>
      BY <2>7 DEF SystemEnqueue, workerVars
    <3>3. QED
      BY <3>1, <3>2, EnqueueOvertaking
  <2>8. ASSUME NEW j \in Jobs, BecomeDue(j)
        PROVE  OvertakingInv'
    BY <2>1, <2>8 DEF BecomeDue, store, workerVars, history
  <2>9. ASSUME NEW c \in Conns, HandlerEnqueue(c)
        PROVE  OvertakingInv'
    <3>1. PICK o \in Outcome : Enqueue(handling[c], o)
      BY <2>9 DEF HandlerEnqueue
    <3>2. handling[c] \in Jobs /\ UNCHANGED <<inflight, pc, held, passed>>
      BY <2>9 DEF HandlerEnqueue, TypeOK, ConnTypeOK, workerVars
    <3>3. QED
      BY <3>1, <3>2, EnqueueOvertaking
  <2>10. ASSUME NEW c \in Conns,
                Connect(c) \/ Disconnect(c) \/ StopChat(c) \/ \E j \in Jobs : HandleMessage(c, j)
         PROVE  OvertakingInv'
    BY <2>1, <2>10 DEF Connect, Disconnect, StopChat, HandleMessage, store, workerVars, history
  <2>11. ASSUME NEW c \in Conns, NEW m \in Modes, Remover(c, m)
         PROVE  OvertakingInv'
    <3>1. CASE RemoverCancel(c, m) \/ RemoverScan(c, m)
      BY <2>1, <3>1 DEF RemoverCancel, RemoverScan, store, workerVars, history
    <3>2. CASE RemoverDrop(c, m)
      BY <3>2, DropOvertaking
    <3>3. QED
      BY <2>11, <3>1, <3>2 DEF Remover
  <2>12. CASE UNCHANGED vars
    BY <2>1, <2>12 DEF vars, store, workerVars, history
  <2>13. QED
    BY <2>2, <2>3, <2>4, <2>5, <2>6, <2>7, <2>8, <2>9, <2>10, <2>11, <2>12 DEF Next
<1>3. OvertakingInv => BoundedOvertaking
  BY DEF OvertakingInv
<1>4. QED
  BY <1>1, <1>2, <1>3, TypeCorrect, PTL DEF Spec

-----------------------------------------------------------------------------
(* What a disconnect leaves behind.                                        *)

\* What connection c still has from before it closed on list k of the ready lists,
\* given the jobs that came late.
Left(lists, lates, c, k) == {e \in Range(lists[k]) : Owner[e.id] = c /\ e.id \notin lates}

\* How far DropConnection is: what it has yet to remove from the list it works
\* on is among the envelopes it saw there, and the lists it is done with are clean.
DropAt(lists, lates, c, r) ==
    /\ r.pc = "remove" => Left(lists, lates, c, r.key) \subseteq r.victims
    /\ r.pc \in {"scan", "remove"} /\ r.key = "scheduled" =>
          Left(lists, lates, c, "interactive") = {}
    /\ r.pc = "none" => \A k \in Keys : Left(lists, lates, c, k) = {}

DropInv ==
    \A c \in Conns : conn[c] = "gone" => DropAt(ready, late, c, remover[c]["disconnect"])

\* The remover as it is, and the lists not longer by anything but late jobs.
NothingNew ==
    /\ UNCHANGED <<conn, remover>>
    /\ \A c \in Conns : conn[c] = "gone" => \A k \in Keys : Left(ready', late', c, k) \subseteq Left(ready, late, c, k)

LEMMA NothingNewDrop == ASSUME TypeOK, DropInv, NothingNew PROVE DropInv'
<1> SUFFICES ASSUME NEW c \in Conns, conn[c] = "gone"
             PROVE  DropAt(ready', late', c, remover[c]["disconnect"])
  BY DEF DropInv, DropAt, NothingNew
<1>1. remover[c]["disconnect"].key \in Keys /\ "interactive" \in Keys
  BY DEF TypeOK, ConnTypeOK, RemoverStates, Modes, Keys
<1>2. QED
  BY <1>1 DEF DropInv, DropAt, NothingNew

\* A new process has new connections.
LEMMA EndDrop == ASSUME EndProcess PROVE DropInv'
BY DEF EndProcess, DropInv, DropAt

LEMMA QuietNew == ASSUME UNCHANGED <<conn, remover, ready, late>> PROVE NothingNew
BY DEF NothingNew, Left

\* What is pushed for a connection that is gone is late.
LEMMA PushNew ==
    ASSUME TypeOK, NEW e \in Envelope, NEW o, PushReady(e, o), UNCHANGED <<conn, remover>>
    PROVE  NothingNew
<1> DEFINE key == Priority[e.id]
<1>1. key \in Keys /\ late \subseteq late'
  BY JobsAssumption DEF JobsAssumption, Envelope, PushReady
<1>2. CASE ~Applied(o)
  BY <1>2, QuietNew DEF PushReady
<1>3. CASE Applied(o)
  <2>1. /\ ready'[key] = Append(ready[key], e)
        /\ \A k \in Keys \ {key} : ready'[k] = ready[k]
    BY <1>1, <1>3 DEF PushReady, TypeOK, StoreTypeOK
  <2>2. Range(Append(ready[key], e)) = Range(ready[key]) \cup {e}
    BY <1>1, AppendRange DEF TypeOK, StoreTypeOK
  <2>3. ASSUME NEW c \in Conns, conn[c] = "gone", Owner[e.id] = c
        PROVE  e.id \in late'
    BY <1>3, <2>3 DEF PushReady
  <2>4. QED
    BY <1>1, <2>1, <2>2, <2>3 DEF NothingNew, Left
<1>4. QED
  BY <1>2, <1>3

\* The end of a queue operation: the goroutine goes on, or the process ends.
LEMMA ResumeDrop ==
    ASSUME NEW p, NEW b, Resume(p, b)
    PROVE  EndProcess \/ UNCHANGED <<conn, remover>>
BY DEF Resume, connVars

LEMMA NackDrop == ASSUME TypeOK, DropInv, NEW p \in Procs, NackStep(p) PROVE DropInv'
<1>1. CASE Nack(p)
  <2> DEFINE e == Retried(held[p])
  <2>1. PICK o \in Outcome :
          /\ pc[p] = "nack"
          /\ IF Exhausted(e) THEN UNCHANGED <<ready, late>> ELSE PushReady(e, o)
          /\ IF Replied(o) THEN Continue(p, AfterNackPush(e)) ELSE Resume(p, FALSE)
    BY <1>1 DEF Nack
  <2>2. EndProcess \/ UNCHANGED <<conn, remover>>
    BY <2>1, ResumeDrop DEF Continue, connVars
  <2>3. e \in Envelope
    BY <2>1, RetriedType DEF TypeOK, ProcTypeOK, HoldingSteps, NackSteps
  <2>4. QED
    BY <2>1, <2>2, <2>3, EndDrop, QuietNew, PushNew, NothingNewDrop
<1>2. CASE TrimDead(p) \/ NackFinished(p) \/ TrimDone(p) \/ NackDelete(p)
  <2>1. EndProcess \/ UNCHANGED <<conn, remover>>
    BY <1>2, ResumeDrop DEF TrimDead, NackFinished, TrimDone, NackDelete, Continue, connVars
  <2>2. UNCHANGED <<ready, late>>
    BY <1>2 DEF TrimDead, NackFinished, TrimDone, NackDelete, history
  <2>3. QED
    BY <2>1, <2>2, EndDrop, QuietNew, NothingNewDrop
<1>3. QED
  BY <1>1, <1>2 DEF NackStep

LEMMA WorkerDrop == ASSUME TypeOK, DropInv, Worker PROVE DropInv'
<1>1. CASE Pop
  <2> DEFINE list == ready[PopKey]
  <2>1. UNCHANGED <<conn, remover, late>>
    BY <1>1 DEF Pop, connVars
  <2>2. PopKey \in Keys /\ list \in Seq(Envelope)
    BY DEF PopKey, Keys, TypeOK, StoreTypeOK
  <2>3. UNCHANGED ready \/ (list # <<>> /\ ready' = [ready EXCEPT ![PopKey] = Tail(list)])
    BY <1>1 DEF Pop
  <2>4. CASE UNCHANGED ready
    BY <2>1, <2>4, QuietNew, NothingNewDrop
  <2>5. CASE list # <<>> /\ ready' = [ready EXCEPT ![PopKey] = Tail(list)]
    <3>1. ready'[PopKey] = Tail(list) /\ \A k \in Keys \ {PopKey} : ready'[k] = ready[k]
      BY <2>2, <2>5 DEF TypeOK, StoreTypeOK
    <3>2. Range(Tail(list)) \subseteq Range(list)
      BY <2>2, <2>5, HeadTailRange
    <3>3. \A k \in Keys : Range(ready'[k]) \subseteq Range(ready[k])
      BY <3>1, <3>2
    <3>4. NothingNew
      BY <2>1, <3>3 DEF NothingNew, Left
    <3>5. QED
      BY <3>4, NothingNewDrop
  <2>6. QED
    BY <2>3, <2>4, <2>5
<1>2. CASE Requeue
  <2>1. PICK o \in Outcome : pc["worker"] = "requeue" /\ PushReady(held["worker"], o)
    BY <1>2 DEF Requeue
  <2>2. held["worker"] \in Envelope /\ UNCHANGED <<conn, remover>>
    BY <1>2, <2>1 DEF Requeue, connVars, TypeOK, ProcTypeOK, HoldingSteps, Procs
  <2>3. QED
    BY <2>1, <2>2, PushNew, NothingNewDrop
<1>3. CASE WorkerLoop \/ SetSince \/ Unhold \/ StartJob \/ Execute \/ ClearRunning
  <2>1. UNCHANGED <<conn, remover, ready, late>>
    BY <1>3 DEF WorkerLoop, SetSince, Unhold, StartJob, Execute, ClearRunning, store, connVars, history
  <2>2. QED
    BY <2>1, QuietNew, NothingNewDrop
<1>4. CASE Ack \/ AckDelete
  <2>1. EndProcess \/ UNCHANGED <<conn, remover>>
    BY <1>4, ResumeDrop DEF Ack, AckDelete, Continue, connVars
  <2>2. UNCHANGED <<ready, late>>
    BY <1>4 DEF Ack, AckDelete, history
  <2>3. QED
    BY <2>1, <2>2, EndDrop, QuietNew, NothingNewDrop
<1>5. QED
  BY <1>1, <1>2, <1>3, <1>4, NackDrop DEF Worker, Procs

\* DropConnection looks at one list and then removes what it saw there.
LEMMA RemoverNextKeeps ==
    ASSUME NEW c \in Conns, NEW key \in Keys, NEW victims,
           Left(ready', late', c, key) \subseteq victims,
           key = "scheduled" => Left(ready', late', c, "interactive") = {},
           remover'[c]["disconnect"] = RemoverNext(key, victims)
    PROVE  DropAt(ready', late', c, remover'[c]["disconnect"])
BY DEF RemoverNext, RemoverIdle, RemoverAt, Keys, DropAt

LEMMA RemoverKeepsDrop ==
    ASSUME MaxFaults = 0, TypeOK, DropInv, NEW c \in Conns, NEW m \in Modes, Remover(c, m)
    PROVE  DropInv'
<1> DEFINE r == remover[c][m]
<1>1. r \in RemoverStates /\ r.key \in Keys /\ r.victims \subseteq Envelope
  BY DEF TypeOK, ConnTypeOK, RemoverStates
<1>2. UNCHANGED <<conn, late>>
  BY DEF Remover, RemoverCancel, RemoverScan, RemoverDrop, history
<1>3. PICK next : remover' = [remover EXCEPT ![c][m] = next]
  BY DEF Remover, RemoverCancel, RemoverScan, RemoverDrop
<1>4. \A d \in Conns : (d # c \/ m # "disconnect") =>
         remover'[d]["disconnect"] = remover[d]["disconnect"]
  BY <1>3 DEF TypeOK, ConnTypeOK, Modes
<1>5. \A d \in Conns : \A k \in Keys : Left(ready', late', d, k) \subseteq Left(ready, late, d, k)
  <2>1. CASE UNCHANGED ready
    BY <1>2, <2>1 DEF Left
  <2>2. CASE RemoverDrop(c, m)
    <3>1. PICK o \in Outcome, e \in r.victims :
            ready' = IF Applied(o) THEN [ready EXCEPT ![r.key] = LRem(@, e)] ELSE ready
      BY <2>2 DEF RemoverDrop
    <3>2. CASE Applied(o)
      <4>1. /\ ready'[r.key] = LRem(ready[r.key], e)
            /\ \A k \in Keys \ {r.key} : ready'[k] = ready[k]
        BY <1>1, <3>1, <3>2 DEF TypeOK, StoreTypeOK
      <4>2. Range(LRem(ready[r.key], e)) \subseteq Range(ready[r.key])
        BY <1>1, LRemRange DEF TypeOK, StoreTypeOK
      <4>3. \A k \in Keys : Range(ready'[k]) \subseteq Range(ready[k])
        BY <4>1, <4>2
      <4>4. QED
        BY <1>2, <4>3 DEF Left
    <3>3. QED
      BY <2>1, <3>1, <3>2
  <2>3. QED
    BY <2>1, <2>2 DEF Remover, RemoverCancel, RemoverScan, store
<1>6. \A d \in Conns : (d # c \/ m # "disconnect") /\ conn[d] = "gone" =>
         DropAt(ready', late', d, remover'[d]["disconnect"])
  <2>1. \A d \in Conns : remover[d]["disconnect"].key \in Keys /\ "interactive" \in Keys
    BY DEF TypeOK, ConnTypeOK, RemoverStates, Modes, Keys
  <2>2. QED
    BY <1>4, <1>5, <2>1 DEF DropInv, DropAt
<1>7. ASSUME m = "disconnect", conn[c] = "gone"
      PROVE  DropAt(ready', late', c, remover'[c]["disconnect"])
  <2>1. CASE RemoverCancel(c, m)
    <3>1. remover'[c]["disconnect"] = RemoverAt("scan")
      BY <1>7, <2>1 DEF RemoverCancel, TypeOK, ConnTypeOK, Modes
    <3>2. QED
      BY <3>1 DEF RemoverAt, DropAt
  <2>2. CASE RemoverScan(c, m)
    <3> DEFINE found == {e \in Range(ready[r.key]) : InScope(e, c, m)}
    <3>1. PICK o \in Outcome :
            /\ r.pc = "scan" /\ Command(o)
            /\ remover' = [remover EXCEPT ![c][m] = RemoverNext(r.key, IF Replied(o) THEN found ELSE {})]
      BY <2>2 DEF RemoverScan
    <3>2. o = "ok"
      BY <3>1, NoFault
    <3>3. remover'[c]["disconnect"] = RemoverNext(r.key, found)
      BY <1>7, <3>1, <3>2 DEF TypeOK, ConnTypeOK, Modes
    <3>4. Left(ready, late, c, r.key) \subseteq found
      BY <1>7 DEF Left, InScope
    <3>5. r.key = "scheduled" => Left(ready, late, c, "interactive") = {}
      BY <1>7, <3>1 DEF DropInv, DropAt
    <3>6. "interactive" \in Keys
      BY DEF Keys
    <3> HIDE DEF found
    <3>7. QED
      BY <1>1, <1>5, <3>3, <3>4, <3>5, <3>6, RemoverNextKeeps
  <2>3. CASE RemoverDrop(c, m)
    <3>1. PICK o \in Outcome, e \in r.victims :
            /\ r.pc = "remove" /\ Command(o)
            /\ ready' = IF Applied(o) THEN [ready EXCEPT ![r.key] = LRem(@, e)] ELSE ready
            /\ remover' = [remover EXCEPT ![c][m] = RemoverNext(r.key, @.victims \ {e})]
      BY <2>3 DEF RemoverDrop
    <3>2. o = "ok"
      BY <3>1, NoFault
    <3>3. remover'[c]["disconnect"] = RemoverNext(r.key, r.victims \ {e})
      BY <1>7, <3>1 DEF TypeOK, ConnTypeOK, Modes
    <3>4. ready'[r.key] = LRem(ready[r.key], e)
      BY <1>1, <3>1, <3>2 DEF TypeOK, StoreTypeOK
    <3>5. Range(LRem(ready[r.key], e)) = Range(ready[r.key]) \ {e}
      BY <1>1, LRemRange DEF TypeOK, StoreTypeOK
    <3>6. Left(ready', late', c, r.key) \subseteq Left(ready, late, c, r.key) \ {e}
      BY <1>2, <3>4, <3>5 DEF Left
    <3>7. Left(ready', late', c, r.key) \subseteq r.victims \ {e}
      BY <1>7, <3>1, <3>6 DEF DropInv, DropAt
    <3>8. r.key = "scheduled" => Left(ready', late', c, "interactive") = {}
      <4>1. "interactive" \in Keys
        BY DEF Keys
      <4>2. QED
        BY <1>5, <1>7, <3>1, <4>1 DEF DropInv, DropAt
    <3>9. QED
      BY <1>1, <3>3, <3>7, <3>8, RemoverNextKeeps
  <2>4. QED
    BY <2>1, <2>2, <2>3 DEF Remover
<1>8. \A d \in Conns : conn'[d] = "gone" => conn[d] = "gone"
  BY <1>2
<1>9. QED
  BY <1>6, <1>7, <1>8 DEF DropInv, DropAt

LEMMA ConnectionDrop ==
    ASSUME TypeOK, DropInv, NEW c \in Conns,
           \/ Connect(c) \/ Disconnect(c) \/ HandlerEnqueue(c) \/ StopChat(c)
           \/ \E j \in Jobs : HandleMessage(c, j)
    PROVE  DropInv'
<1>1. CASE Connect(c) \/ StopChat(c)
  <2>1. UNCHANGED <<ready, late>>
    BY <1>1 DEF Connect, StopChat, store, history
  <2>2. \A d \in Conns : /\ conn'[d] = "gone" => conn[d] = "gone"
                         /\ remover'[d]["disconnect"] = remover[d]["disconnect"]
    BY <1>1 DEF Connect, StopChat, TypeOK, ConnTypeOK, Modes
  <2>3. QED
    BY <2>1, <2>2 DEF DropInv, DropAt, Left
<1>2. CASE Disconnect(c)
  <2>1. UNCHANGED <<ready, late>>
    BY <1>2 DEF Disconnect, store, history
  <2>2. \A d \in Conns : \/ /\ conn'[d] = "gone" => conn[d] = "gone"
                            /\ remover'[d]["disconnect"] = remover[d]["disconnect"]
                         \/ remover'[d]["disconnect"] = RemoverAt("cancel")
    BY <1>2 DEF Disconnect, TypeOK, ConnTypeOK, Modes
  <2>3. RemoverAt("cancel").pc = "cancel"
    BY DEF RemoverAt
  <2>4. QED
    BY <2>1, <2>2, <2>3 DEF DropInv, DropAt, Left
<1>3. CASE HandlerEnqueue(c)
  <2>1. PICK o \in Outcome : PushReady(EnvelopeOf(handling[c]), o)
    BY <1>3 DEF HandlerEnqueue, Enqueue
  <2>2. EnvelopeOf(handling[c]) \in Envelope /\ UNCHANGED <<conn, remover>>
    BY <1>3 DEF HandlerEnqueue, EnvelopeOf, Envelope, TypeOK, ConnTypeOK
  <2>3. QED
    BY <2>1, <2>2, PushNew, NothingNewDrop
<1>4. CASE \E j \in Jobs : HandleMessage(c, j)
  <2>1. UNCHANGED <<conn, remover, ready, late>>
    BY <1>4 DEF HandleMessage, store
  <2>2. QED
    BY <2>1, QuietNew, NothingNewDrop
<1>5. QED
  BY <1>1, <1>2, <1>3, <1>4

\* When DropConnection has returned, nothing its connection queued before it closed
\* is left on a ready list (DisconnectDropsQueue), for any number of connections and
\* jobs, while workers, sweeps, crashes and stops go on: DropConnection looks at one
\* list and then at the other, and what reaches a list after the disconnect is late
\* (manager.go:595-645).  A failing LRANGE skips its list, so the commands must
\* succeed.
THEOREM DisconnectCleansUp ==
    ASSUME MaxFaults = 0
    PROVE  Spec => []DisconnectDropsQueue
<1>1. Init => DropInv
  BY DEF Init, DropInv, DropAt
<1>2. TypeOK /\ DropInv /\ [Next]_vars => DropInv'
  <2> SUFFICES ASSUME TypeOK, DropInv, [Next]_vars PROVE DropInv'
    OBVIOUS
  <2>1. UNCHANGED <<conn, remover, ready, late>> => DropInv'
    BY QuietNew, NothingNewDrop
  <2>2. CASE Boot \/ Signal \/ CancelOnShutdown \/ Expire
    BY <2>1, <2>2 DEF Boot, Signal, CancelOnShutdown, Expire, store, connVars, history
  <2>3. CASE RecoverInflight \/ Crash
    <3>1. UNCHANGED <<ready, late>> /\ (EndProcess \/ UNCHANGED <<conn, remover>>)
      BY <2>3 DEF RecoverInflight, Crash, store, connVars, history
    <3>2. QED
      BY <2>1, <3>1, EndDrop
  <2>4. CASE NackStep("boot") \/ NackStep("janitor")
    BY <2>4, NackDrop DEF Procs
  <2>5. CASE Worker
    BY <2>5, WorkerDrop
  <2>6. CASE SweepBegin \/ SweepPeek \/ SweepAge
    BY <2>1, <2>6 DEF SweepBegin, SweepPeek, SweepAge, store, connVars, history
  <2>7. ASSUME NEW j \in Jobs, SystemEnqueue(j) \/ BecomeDue(j)
        PROVE  DropInv'
    <3>1. CASE SystemEnqueue(j)
      <4>1. PICK o \in Outcome : PushReady(EnvelopeOf(j), o)
        BY <3>1 DEF SystemEnqueue, Enqueue
      <4>2. EnvelopeOf(j) \in Envelope /\ UNCHANGED <<conn, remover>>
        BY <3>1 DEF SystemEnqueue, EnvelopeOf, Envelope, connVars
      <4>3. QED
        BY <4>1, <4>2, PushNew, NothingNewDrop
    <3>2. CASE BecomeDue(j)
      BY <2>1, <3>2 DEF BecomeDue, store, connVars, history
    <3>3. QED
      BY <2>7, <3>1, <3>2
  <2>8. ASSUME NEW c \in Conns,
               \/ Connect(c) \/ Disconnect(c) \/ HandlerEnqueue(c) \/ StopChat(c)
               \/ \E j \in Jobs : HandleMessage(c, j)
        PROVE  DropInv'
    BY <2>8, ConnectionDrop
  <2>9. ASSUME NEW c \in Conns, NEW m \in Modes, Remover(c, m)
        PROVE  DropInv'
    BY <2>9, RemoverKeepsDrop
  <2>10. CASE UNCHANGED vars
    BY <2>1, <2>10 DEF vars, store, connVars, history
  <2>11. QED
    BY <2>2, <2>3, <2>4, <2>5, <2>6, <2>7, <2>8, <2>9, <2>10 DEF Next, Recovery, Janitor
<1>3. DropInv => DisconnectDropsQueue
  <2> SUFFICES ASSUME DropInv, NEW c \in Conns, conn[c] = "gone",
                      remover[c]["disconnect"] = RemoverIdle, NEW j \in ReadyIds, Owner[j] = c
               PROVE  j \in late
    BY DEF DisconnectDropsQueue
  <2>1. remover[c]["disconnect"].pc = "none"
    BY DEF RemoverIdle, RemoverAt
  <2>2. PICK k \in Keys : \E e \in Range(ready[k]) : e.id = j
    BY DEF ReadyIds, Ids, Keys
  <2>3. Left(ready, late, c, k) = {}
    BY <2>1 DEF DropInv, DropAt
  <2>4. QED
    BY <2>2, <2>3 DEF Left
<1>4. QED
  BY <1>1, <1>2, <1>3, TypeCorrect, PTL DEF Spec

-----------------------------------------------------------------------------
(* No loss while one process lives: whatever a sweep deletes, the worker   *)
(* that runs the job still has it in its hands.                            *)

Settling == {"unhold", "acktrim", "ackdel", "deadtrim", "nackdone", "donetrim", "nackdel"}
InHand == IF Handling("worker") THEN {held["worker"].id} ELSE {}

\* The inductive form of NoLossInProcess: only the worker fills the in-flight list, with
\* the envelope it then holds, and it lets go of an envelope that is safe elsewhere.
\* Nothing is asked of the janitor: its pushes add, and its DEL takes what the worker has.
ProcInv ==
    /\ LifeOrder /\ ~Handling("boot")
    /\ inflight # <<>> => Handling("worker") /\ inflight = <<held["worker"]>>
    /\ pc["worker"] \in Settling => held["worker"].id \in Durable
    /\ accepted \subseteq Durable \cup InHand

LEMMA StepNames ==
    /\ Settling \subseteq HoldingSteps /\ NackSteps \cup {"acktrim", "ackdel"} \subseteq HoldingSteps
    /\ {"idle", "head", "popI", "popS", "peek"} \cap HoldingSteps = {}
BY DEF Settling, HoldingSteps, NackSteps

\* The worker stays where it is or goes on with the envelope it holds; others add.
LEMMA HoldStep ==
    ASSUME TypeOK, ProcInv, UNCHANGED life, pc'["boot"] = pc["boot"],
           \/ pc'["worker"] = pc["worker"]
           \/ /\ Handling("worker") /\ pc'["worker"] \in HoldingSteps
              /\ pc'["worker"] \in Settling => held["worker"].id \in Durable',
           held'["worker"] = held["worker"], inflight' \in {inflight, <<>>},
           Durable \subseteq Durable', accepted' \subseteq accepted \cup Durable'
    PROVE  ProcInv'
<1>1. Handling("worker")' = Handling("worker") /\ (Handling("boot"))' = Handling("boot")
  BY DEF Handling
<1>2. InHand' = InHand
  BY <1>1 DEF InHand
<1>3. LifeOrder'
  BY StepNames DEF ProcInv, LifeOrder, Alive, Handling
<1>4. QED
  BY <1>1, <1>2, <1>3 DEF ProcInv

\* The worker holds nothing, or lets go of an envelope that is safe.
LEMMA FreeStep ==
    ASSUME TypeOK, ProcInv, UNCHANGED life, Alive, pc'["boot"] = pc["boot"],
           pc'["worker"] \in {"head", "popI", "popS"},
           \/ ~Handling("worker") /\ UNCHANGED inflight
           \/ pc["worker"] \in Settling /\ inflight' = <<>>,
           Durable' = Durable, UNCHANGED accepted
    PROVE  ProcInv'
<1>1. ~(Handling("worker")') /\ (Handling("boot"))' = Handling("boot")
  BY StepNames DEF Handling
<1>2. inflight' = <<>>
  BY DEF ProcInv
<1>3. accepted' \subseteq Durable'
  BY DEF ProcInv, InHand
<1>4. LifeOrder'
  BY DEF ProcInv, LifeOrder, Alive
<1>5. pc'["worker"] \notin Settling
  BY StepNames
<1>6. QED
  BY <1>1, <1>2, <1>3, <1>4, <1>5 DEF ProcInv

LEMMA NackProc ==
    ASSUME MaxFaults = 0, TypeOK, ProcInv, NEW p \in {"worker", "janitor"}, NackStep(p)
    PROVE  ProcInv'
<1>1. p \in Procs /\ NackFacts(p)
  BY NackStepFacts DEF Procs
<1>2. ASSUME NEW step \in NackSteps \cup {"ackdel"},
             /\ pc[p] \in NackSteps \cup {"acktrim"} /\ Continue(p, step)
             /\ UNCHANGED <<inflight, since, accepted>> /\ Durable \subseteq Durable'
             /\ held[p].id \in Durable'
                \/ (pc[p] \in {"deadtrim", "donetrim", "acktrim"} /\ Durable' = Durable)
      PROVE  ProcInv'
  <2>1. /\ pc'[p] = step /\ (\A q \in Procs \ {p} : pc'[q] = pc[q])
        /\ UNCHANGED <<life, held>>
    BY <1>1, <1>2 DEF Continue, Goto, TypeOK, ProcTypeOK
  <2>2. p = "worker" => held[p].id \in Durable' /\ Handling(p)
    BY <1>2, StepNames DEF ProcInv, Settling, Handling
  <2>3. QED
    BY <1>2, <2>1, <2>2, StepNames, HoldStep DEF Procs
<1>3. CASE /\ pc[p] = "nackdel" /\ DelInflight("ok") /\ Resume(p, TRUE)
           /\ UNCHANGED <<ready, history>>
  <2>1. Durable' = Durable /\ UNCHANGED accepted /\ inflight' = <<>>
    BY <1>3 DEF Durable, ReadyIds, Ids, history, DelInflight
  <2>2. /\ UNCHANGED <<life, held>> /\ pc'["boot"] = pc["boot"]
        /\ IF p = "worker" THEN pc'["worker"] = "head" ELSE pc'["worker"] = pc["worker"]
    BY <1>3 DEF Resume, TypeOK, ProcTypeOK, Procs
  <2>3. CASE p = "worker"
    <3>1. Alive
      BY <1>3, <2>3 DEF ProcInv, LifeOrder
    <3>2. QED
      BY <1>3, <2>1, <2>2, <2>3, <3>1, FreeStep DEF Settling
  <2>4. CASE p = "janitor"
    BY <2>1, <2>2, <2>4, HoldStep
  <2>5. QED
    BY <2>3, <2>4
<1>4. QED
  BY <1>1, <1>2, <1>3 DEF NackFacts

LEMMA PopProc ==
    ASSUME MaxFaults = 0, TypeOK, ProcInv, Pop
    PROVE  ProcInv'
<1> DEFINE w == "worker"  list == ready[PopKey]
<1>1. w \in Procs /\ PopKey \in Keys /\ list \in Seq(Envelope)
  BY DEF Procs, PopKey, Keys, TypeOK, StoreTypeOK
<1>2. pc[w] \in {"popI", "popS"} /\ ~Handling(w) /\ inflight = <<>> /\ Alive
  BY StepNames DEF Pop, ProcInv, LifeOrder, Handling
<1>3. PICK o \in Outcome :
        /\ Command(o)
        /\ IF Applied(o) /\ list # <<>>
           THEN /\ ready' = [ready EXCEPT ![PopKey] = Tail(list)]
                /\ inflight' = <<Head(list)>> \o inflight
           ELSE UNCHANGED <<ready, inflight>>
        /\ IF ~Replied(o)
           THEN Goto(w, "head") /\ UNCHANGED held
           ELSE IF list = <<>>
                THEN Goto(w, AfterKey(PopKey)) /\ UNCHANGED held
                ELSE Goto(w, "since") /\ Hold(w, Head(list))
  BY DEF Pop
<1>4. o = "ok"
  BY <1>3, NoFault
<1>5. UNCHANGED <<life, accepted, finished, dropped>>
  BY DEF Pop
<1>6. CASE list = <<>>
  <2>1. Durable' = Durable /\ UNCHANGED inflight
    BY <1>3, <1>5, <1>6 DEF Durable, ReadyIds, Ids
  <2>2. AfterKey(PopKey) \in {"popS", "head"}
    BY DEF AfterKey
  <2>3. pc'[w] = AfterKey(PopKey) /\ pc'["boot"] = pc["boot"]
    BY <1>1, <1>3, <1>4, <1>6 DEF Goto, TypeOK, ProcTypeOK, Procs
  <2>4. QED
    BY <1>2, <1>5, <2>1, <2>2, <2>3, FreeStep
<1>7. CASE list # <<>>
  <2>1. Head(list) \in Envelope /\ Tail(list) \in Seq(Envelope)
    BY <1>1, <1>7, HeadTailRange
  <2>2. inflight' = <<Head(list)>>
    BY <1>2, <1>3, <1>4, <1>7, <2>1
  <2>3. pc'[w] = "since" /\ pc'["boot"] = pc["boot"] /\ held'[w] = Head(list)
    BY <1>1, <1>3, <1>4, <1>7 DEF Goto, Hold, TypeOK, ProcTypeOK, Procs
  <2>4. ReadyIds \subseteq ReadyIds' \cup {Head(list).id}
    <3>1. /\ ready'[PopKey] = Tail(list)
          /\ \A k \in Keys \ {PopKey} : ready'[k] = ready[k]
      BY <1>1, <1>3, <1>4, <1>7 DEF TypeOK, StoreTypeOK
    <3>2. Ids(list) = Ids(Tail(list)) \cup {Head(list).id}
      BY <1>1, <1>7, <2>1, IdsOfList
    <3>3. QED
      BY <1>1, <3>1, <3>2 DEF ReadyIds, Keys
  <2>5. Handling(w)' /\ (Handling("boot"))' = Handling("boot") /\ InHand = {}
    BY <1>2, <2>3 DEF Handling, HoldingSteps, InHand
  <2>6. InHand' = {Head(list).id}
    BY <2>3, <2>5 DEF InHand
  <2>7. accepted' \subseteq Durable' \cup InHand'
    BY <1>5, <2>4, <2>5, <2>6 DEF ProcInv, Durable
  <2>8. LifeOrder' /\ pc'[w] \notin Settling
    BY <1>2, <1>5, <2>3 DEF ProcInv, LifeOrder, Alive, Settling
  <2>9. QED
    BY <2>2, <2>3, <2>5, <2>7, <2>8 DEF ProcInv
<1>8. QED
  BY <1>6, <1>7

LEMMA WorkerProc ==
    ASSUME MaxFaults = 0, TypeOK, ProcInv, Worker
    PROVE  ProcInv'
<1> DEFINE w == "worker"
<1>1. \A step : Goto(w, step) => pc'[w] = step /\ pc'["boot"] = pc["boot"]
  BY DEF Goto, TypeOK, ProcTypeOK, Procs
<1>2. UNCHANGED <<ready, finished, dropped>> => Durable' = Durable
  BY DEF Durable, ReadyIds, Ids
<1>3. pc[w] # "idle" => Alive
  BY DEF ProcInv, LifeOrder
<1>4. /\ pc[w] \in HoldingSteps => Handling(w) /\ held[w] \in Envelope
      /\ {"since", "requeue", "unhold", "start", "exec", "clear", "nack", "ack"} \subseteq HoldingSteps
  BY DEF Handling, HoldingSteps, NackSteps, TypeOK, ProcTypeOK, Procs
<1>5. CASE WorkerLoop
  <2>1. /\ pc[w] = "head" /\ Goto(w, "popI")
        /\ UNCHANGED <<ready, inflight, life, held, accepted, finished, dropped>>
    BY <1>5 DEF WorkerLoop, store, history
  <2>2. ~Handling(w)
    BY <2>1, StepNames DEF Handling
  <2>3. QED
    BY <1>1, <1>2, <1>3, <2>1, <2>2, FreeStep
<1>6. CASE SetSince \/ StartJob \/ Execute \/ ClearRunning
  <2>1. /\ UNCHANGED <<inflight, life, held, accepted, ready, finished, dropped>>
        /\ pc[w] \in {"since", "start", "exec", "clear"}
    BY <1>6 DEF SetSince, StartJob, Execute, ClearRunning, store, history
  <2>2. PICK step \in {"start", "requeue", "exec", "clear", "nack", "ack"} : Goto(w, step)
    <3>1. CASE SetSince
      <4>1. PICK o \in Outcome : Command(o) /\ Goto(w, IF Replied(o) THEN AfterSince ELSE "head")
        BY <3>1 DEF SetSince
      <4>2. QED
        BY <4>1, NoFault DEF AfterSince
    <3>2. QED
      BY <1>6, <3>1 DEF StartJob, Execute, ClearRunning, AfterRun
  <2>3. pc'[w] = step /\ step \in HoldingSteps /\ step \notin Settling
    BY <1>1, <1>4, <2>2 DEF Settling
  <2>4. QED
    BY <1>1, <1>2, <1>4, <2>1, <2>2, <2>3, HoldStep
<1>7. CASE Requeue
  <2>1. PICK o \in Outcome :
          /\ pc[w] = "requeue" /\ Command(o) /\ PushReady(held[w], o)
          /\ Goto(w, IF Replied(o) THEN "unhold" ELSE "head")
    BY <1>7 DEF Requeue
  <2>2. o = "ok" /\ UNCHANGED <<inflight, held, life, accepted, finished, dropped>>
    BY <1>7, <2>1, NoFault DEF Requeue
  <2>3. Durable' = Durable \cup {held[w].id}
    BY <1>4, <2>1, <2>2, PushReadyIds DEF Durable, TypeOK
  <2>4. pc'[w] = "unhold" /\ pc'["boot"] = pc["boot"]
    BY <1>1, <2>1, <2>2
  <2>5. QED
    BY <1>4, <2>1, <2>2, <2>3, <2>4, HoldStep
<1>8. CASE Unhold
  <2>1. PICK o \in Outcome :
          /\ pc[w] = "unhold" /\ Command(o) /\ DelInflight(o)
          /\ Goto(w, AfterKey(Priority[held[w].id]))
    BY <1>8 DEF Unhold
  <2>2. o = "ok" /\ UNCHANGED <<ready, held, life, accepted, finished, dropped>>
    BY <1>8, <2>1, NoFault DEF Unhold, history
  <2>3. inflight' = <<>> /\ AfterKey(Priority[held[w].id]) \in {"head", "popS"}
    BY <2>1, <2>2 DEF DelInflight, AfterKey
  <2>4. QED
    BY <1>1, <1>2, <1>3, <2>1, <2>2, <2>3, FreeStep DEF Settling
<1>9. CASE Ack
  <2>1. PICK o \in Outcome :
          /\ pc[w] = "ack" /\ Command(o) /\ AppendFinished(held[w], verdict, o)
          /\ IF Replied(o) THEN Continue(w, "acktrim") ELSE Resume(w, FALSE)
    BY <1>9 DEF Ack
  <2>2. o = "ok" /\ UNCHANGED <<ready, inflight, accepted, dropped>>
    BY <1>9, <2>1, NoFault DEF Ack
  <2>3. Durable \subseteq Durable' /\ held[w].id \in Durable'
    BY <2>1, <2>2 DEF AppendFinished, Durable, ReadyIds, Ids
  <2>4. pc'[w] = "acktrim" /\ pc'["boot"] = pc["boot"] /\ UNCHANGED <<life, held>>
    BY <1>1, <2>1, <2>2 DEF Continue
  <2>5. QED
    BY <1>4, <2>1, <2>2, <2>3, <2>4, StepNames, HoldStep
<1>10. CASE AckDelete
  <2>1. PICK o \in Outcome :
          pc[w] = "ackdel" /\ Command(o) /\ DelInflight(o) /\ Resume(w, Replied(o))
    BY <1>10 DEF AckDelete
  <2>2. o = "ok" /\ UNCHANGED <<ready, accepted, finished, dropped>>
    BY <1>10, <2>1, NoFault DEF AckDelete, history
  <2>3. UNCHANGED <<life, held>> /\ pc'[w] = "head" /\ pc'["boot"] = pc["boot"] /\ inflight' = <<>>
    BY <2>1, <2>2 DEF Resume, DelInflight, TypeOK, ProcTypeOK, Procs
  <2>4. QED
    BY <1>2, <1>3, <2>1, <2>2, <2>3, FreeStep DEF Settling
<1>11. QED
  BY <1>5, <1>6, <1>7, <1>8, <1>9, <1>10, PopProc, NackProc DEF Worker

\* A producer's RPUSH makes its job durable before Enqueue accepts it.
LEMMA EnqueueProc ==
    ASSUME MaxFaults = 0, TypeOK, ProcInv, NEW j \in Jobs, NEW o, Command(o), Enqueue(j, o),
           UNCHANGED <<inflight, life, pc, held, finished, dropped>>
    PROVE  ProcInv'
<1>1. o = "ok"
  BY NoFault
<1>2. EnvelopeOf(j) \in Envelope /\ EnvelopeOf(j).id = j
  BY DEF EnvelopeOf, Envelope
<1>3. ReadyIds' = ReadyIds \cup {j}
  BY <1>1, <1>2, PushReadyIds DEF Enqueue, TypeOK
<1>4. accepted' = accepted \cup {j} /\ Durable' = Durable \cup {j}
  BY <1>1, <1>3 DEF Enqueue, Durable
<1>5. QED
  BY <1>4, HoldStep

LEMMA HoldsWhileRunning ==
    ASSUME MaxFaults = 0, MaxRestarts = 0
    PROVE  Spec => []ProcInv
<1>1. Init => ProcInv
  <2> SUFFICES ASSUME Init PROVE ProcInv
    OBVIOUS
  <2>1. pc["worker"] = "idle" /\ pc["boot"] = "idle" /\ inflight = <<>> /\ accepted = {}
    BY DEF Init, AllIdle, Procs
  <2>2. QED
    BY <2>1, StepNames DEF ProcInv, LifeOrder, Handling
<1>2. TypeOK /\ ProcInv /\ [Next]_vars => ProcInv'
  <2> SUFFICES ASSUME TypeOK, ProcInv, [Next]_vars PROVE ProcInv'
    OBVIOUS
  <2>1. UNCHANGED <<inflight, life, pc, held>> /\ Durable \subseteq Durable'
        /\ accepted' = accepted => ProcInv'
    BY HoldStep
  <2>2. UNCHANGED <<ready, finished, dropped>> => Durable' = Durable
    BY DEF Durable, ReadyIds, Ids
  <2>3. ~(restarts < MaxRestarts)
    BY DEF TypeOK, CountersTypeOK
  <2>4. CASE Boot
    <3>1. /\ life = "down" /\ life' = "boot" /\ Goto("boot", "peek")
          /\ UNCHANGED <<inflight, held, ready, finished, dropped, accepted>>
      BY <2>4 DEF Boot, store, history
    <3>2. pc'["boot"] = "peek" /\ pc'["worker"] = pc["worker"] /\ pc["worker"] = "idle"
      BY <3>1 DEF Goto, ProcInv, LifeOrder, Alive, TypeOK, ProcTypeOK, Procs
    <3>3. LifeOrder' /\ ~(Handling("boot")') /\ ~(Handling("worker")') /\ ~Handling("worker")
      BY <3>1, <3>2, StepNames DEF LifeOrder, Handling
    <3>4. pc'["worker"] \notin Settling
      BY <3>2, StepNames
    <3>5. inflight' = <<>> /\ accepted' \subseteq Durable'
      BY <2>2, <3>1, <3>3 DEF ProcInv, InHand
    <3>6. QED
      BY <3>3, <3>4, <3>5 DEF ProcInv
  <2>5. CASE RecoverInflight
    <3>1. PICK o \in Outcome :
            /\ pc["boot"] = "peek" /\ Command(o)
            /\ IF ~Replied(o)
               THEN EndProcess
               ELSE IF inflight = <<>>
                    THEN /\ life' = "up"
                         /\ pc' = [pc EXCEPT !["boot"] = "idle", !["worker"] = "head"]
                         /\ UNCHANGED held
                    ELSE /\ Hold("boot", Head(inflight))
                         /\ Goto("boot", "nack")
                         /\ UNCHANGED life
      BY <2>5 DEF RecoverInflight
    <3>2. o = "ok" /\ UNCHANGED <<inflight, ready, finished, dropped, accepted>>
      BY <2>5, <3>1, NoFault DEF RecoverInflight, store, history
    <3>3. pc["worker"] = "idle"
      BY <3>1 DEF ProcInv, LifeOrder, Alive
    <3>4. ~Handling("worker") /\ inflight = <<>>
      BY <3>3, StepNames DEF ProcInv, Handling
    <3>5. life' = "up" /\ pc'["boot"] = "idle" /\ pc'["worker"] = "head"
      BY <3>1, <3>2, <3>4 DEF TypeOK, ProcTypeOK, Procs
    <3>6. LifeOrder' /\ ~(Handling("boot")') /\ ~(Handling("worker")') /\ pc'["worker"] \notin Settling
      BY <3>5, StepNames DEF LifeOrder, Handling, Alive
    <3>7. accepted' \subseteq Durable'
      BY <2>2, <3>2, <3>4 DEF ProcInv, InHand
    <3>8. QED
      BY <3>2, <3>4, <3>6, <3>7 DEF ProcInv
  <2>6. CASE NackStep("boot")
    <3>1. pc["boot"] \in NackSteps \cup {"acktrim"}
      BY <2>6 DEF NackStep, Nack, TrimDead, NackFinished, TrimDone, NackDelete, NackSteps
    <3>2. QED
      BY <3>1, StepNames DEF ProcInv, Handling
  <2>7. CASE Crash \/ Signal
    BY <2>3, <2>7 DEF Crash, Signal
  <2>8. CASE CancelOnShutdown \/ Expire
    BY <2>1, <2>2, <2>8 DEF CancelOnShutdown, Cancel, Expire, store, workerVars, history
  <2>9. CASE Worker
    BY <2>9, WorkerProc
  <2>10. CASE SweepBegin \/ SweepPeek \/ SweepAge
    <3>1. /\ UNCHANGED <<inflight, life, ready, finished, dropped, accepted>>
          /\ pc'["worker"] = pc["worker"] /\ pc'["boot"] = pc["boot"]
          /\ held'["worker"] = held["worker"]
      BY <2>10 DEF SweepBegin, SweepPeek, SweepAge, Goto, Hold, store, history, TypeOK, ProcTypeOK, Procs
    <3>2. QED
      BY <2>2, <3>1, HoldStep
  <2>11. CASE NackStep("janitor")
    BY <2>11, NackProc
  <2>12. ASSUME NEW j \in Jobs, SystemEnqueue(j) \/ BecomeDue(j)
         PROVE  ProcInv'
    <3>1. CASE SystemEnqueue(j)
      <4>1. PICK o \in Outcome : Command(o) /\ Enqueue(j, o)
        BY <3>1 DEF SystemEnqueue
      <4>2. UNCHANGED <<inflight, life, pc, held, finished, dropped>>
        BY <3>1 DEF SystemEnqueue, workerVars
      <4>3. QED
        BY <4>1, <4>2, EnqueueProc
    <3>2. CASE BecomeDue(j)
      BY <2>1, <2>2, <3>2 DEF BecomeDue, store, workerVars, history
    <3>3. QED
      BY <2>12, <3>1, <3>2
  <2>13. ASSUME NEW c \in Conns, HandlerEnqueue(c)
         PROVE  ProcInv'
    <3>1. PICK o \in Outcome : Command(o) /\ Enqueue(handling[c], o)
      BY <2>13 DEF HandlerEnqueue
    <3>2. handling[c] \in Jobs /\ UNCHANGED <<inflight, life, pc, held, finished, dropped>>
      BY <2>13 DEF HandlerEnqueue, workerVars, TypeOK, ConnTypeOK
    <3>3. QED
      BY <3>1, <3>2, EnqueueProc
  <2>14. ASSUME NEW c \in Conns,
                Connect(c) \/ Disconnect(c) \/ StopChat(c) \/ \E j \in Jobs : HandleMessage(c, j)
         PROVE  ProcInv'
    BY <2>1, <2>2, <2>14
       DEF Connect, Disconnect, StopChat, HandleMessage, store, workerVars, history
  <2>15. ASSUME NEW c \in Conns, NEW m \in Modes, Remover(c, m)
         PROVE  ProcInv'
    <3>1. CASE RemoverCancel(c, m) \/ RemoverScan(c, m)
      BY <2>1, <2>2, <3>1 DEF RemoverCancel, RemoverScan, store, workerVars, history
    <3>2. CASE RemoverDrop(c, m)
      BY <2>1, <3>2, DropDurable
    <3>3. QED
      BY <2>15, <3>1, <3>2 DEF Remover
  <2>16. CASE UNCHANGED vars
    BY <2>1, <2>2, <2>16 DEF vars, store, workerVars, history
  <2>17. QED
    BY <2>4, <2>5, <2>6, <2>7, <2>8, <2>9, <2>10, <2>11, <2>12, <2>13, <2>14, <2>15, <2>16
       DEF Next, Recovery, Janitor
<1>3. QED
  BY <1>1, <1>2, TypeCorrect, PTL DEF Spec

\* While one process lives, every job whose Enqueue succeeded is queued, in flight,
\* recorded, dropped by its connection, or still in the hands of a goroutine
\* (NoLossInProcess), however often the visibility timeout of a live job passes and the
\* sweep pushes it back and deletes the in-flight list under the worker
\* (manager.go:305-372).  The sweep is safe because it pushes before it
\* deletes and because what it deletes is what the worker holds.
THEOREM NoLossWhileRunning ==
    ASSUME MaxFaults = 0, MaxRestarts = 0
    PROVE  Spec => []NoLossInProcess
<1>1. ProcInv => NoLossInProcess
  <2> SUFFICES ASSUME ProcInv, NEW j \in accepted PROVE
        j \in ReadyIds \cup Ids(inflight) \cup finished \cup dropped
              \cup {held[p].id : p \in {q \in Procs : Handling(q)}}
    BY DEF NoLossInProcess
  <2>1. "worker" \in Procs
    BY DEF Procs
  <2>2. QED
    BY <2>1 DEF ProcInv, InHand, Durable
<1>2. QED
  BY <1>1, HoldsWhileRunning, PTL

-----------------------------------------------------------------------------
(* A job ends once, and as what stopped it.                                *)

\* The worker has an envelope that it has neither put back nor recorded.
Active == {"since", "requeue", "start", "exec", "clear", "ack", "nack"}
NoTwins(s) == \A i, k \in DOMAIN s : s[i].id = s[k].id => i = k
Unique(lists) ==
    /\ \A k \in Keys : NoTwins(lists[k])
    /\ Ids(lists["interactive"]) \cap Ids(lists["scheduled"]) = {}
Placed == ReadyIds \cup finished \cup InHand

\* A job is in one place: with a handler, on a ready list, with the worker or recorded.
PlaceInv ==
    /\ Unique(ready)
    /\ finished \cap ReadyIds = {}
    /\ pc["worker"] \in Active => held["worker"].id \notin ReadyIds \cup finished
    /\ pc["worker"] \in {"deadtrim", "nackdone"} => held["worker"].id \in finished
    /\ \A c \in Conns : handling[c] # NoJob =>
          Owner[handling[c]] = c /\ born[handling[c]] # 0 /\ handling[c] \notin Placed
    /\ \A j \in Placed : born[j] # 0

\* A job cancelled while it ran is on its way to a cancelled record, or has one.
EndInv ==
    /\ running.env = IF pc["worker"] \in {"exec", "clear"} THEN held["worker"] ELSE NoEnvelope
    /\ \A j \in stopped :
          \/ j \in finished
          \/ /\ held["worker"].id = j
             /\ \/ pc["worker"] = "exec" /\ running.cause # "none"
                \/ pc["worker"] \in {"clear", "ack"} /\ verdict = "cancelled"
    /\ NoTwins(done) /\ Ids(done) \subseteq finished
    /\ \A r \in Range(done) : r.id \in stopped => r.result = "cancelled"
    /\ pc["worker"] \in {"deadtrim", "nackdone"} => held["worker"].id \notin stopped \cup Ids(done)

LEMMA SelectedTwins ==
    ASSUME NEW s, NEW t, NoTwins(s), Selected(t, s)
    PROVE  NoTwins(t) /\ Range(t) \subseteq Range(s)
<1>1. PICK from \in [DOMAIN t -> DOMAIN s] :
        /\ \A i, k \in DOMAIN t : from[i] = from[k] => i = k
        /\ \A i \in DOMAIN t : t[i] = s[from[i]]
  BY DEF Selected
<1>2. NoTwins(t)
  BY <1>1 DEF NoTwins
<1>3. QED
  BY <1>1, <1>2 DEF Range

\* One element more, whose id is not there yet.
LEMMA AppendTwins ==
    ASSUME NEW S, NEW s \in Seq(S), NEW x \in S, NoTwins(s), x.id \notin Ids(s)
    PROVE  NoTwins(Append(s, x)) /\ Ids(Append(s, x)) = Ids(s) \cup {x.id}
<1>1. /\ Len(s) \in Nat /\ DOMAIN s = 1..Len(s) /\ DOMAIN Append(s, x) = 1..(Len(s) + 1)
      /\ \A i \in 1..Len(s) : Append(s, x)[i] = s[i]
      /\ Append(s, x)[Len(s) + 1] = x
  BY LenProperties, AppendProperties
<1>2. \A i \in 1..Len(s) : s[i].id # x.id
  BY <1>1 DEF Ids, Range
<1>3. ASSUME NEW i \in 1..(Len(s) + 1), NEW k \in 1..(Len(s) + 1),
             Append(s, x)[i].id = Append(s, x)[k].id
      PROVE  i = k
  <2>1. (i \in 1..Len(s) \/ i = Len(s) + 1) /\ (k \in 1..Len(s) \/ k = Len(s) + 1)
    BY <1>1
  <2>2. CASE i \in 1..Len(s) /\ k \in 1..Len(s)
    BY <1>1, <1>3, <2>2 DEF NoTwins
  <2>3. CASE i \in 1..Len(s) /\ k = Len(s) + 1
    BY <1>1, <1>2, <1>3, <2>3
  <2>4. CASE k \in 1..Len(s) /\ i = Len(s) + 1
    BY <1>1, <1>2, <1>3, <2>4
  <2>5. QED
    BY <2>1, <2>2, <2>3, <2>4
<1>4. Range(Append(s, x)) = Range(s) \cup {x}
  BY AppendRange
<1>5. QED
  BY <1>1, <1>3, <1>4 DEF NoTwins, Ids

LEMMA PushUnique ==
    ASSUME TypeOK, Unique(ready), NEW e \in Envelope, PushReady(e, "ok"), e.id \notin ReadyIds
    PROVE  Unique(ready') /\ ReadyIds' = ReadyIds \cup {e.id}
<1> DEFINE key == Priority[e.id]
<1>1. key \in Keys /\ ready[key] \in Seq(Envelope)
  BY JobsAssumption DEF JobsAssumption, Envelope, TypeOK, StoreTypeOK
<1>2. ready'[key] = Append(ready[key], e) /\ \A k \in Keys \ {key} : ready'[k] = ready[k]
  BY <1>1 DEF PushReady, TypeOK, StoreTypeOK
<1>3. e.id \notin Ids(ready[key])
  BY <1>1 DEF ReadyIds, Keys
<1>4. NoTwins(ready'[key]) /\ Ids(ready'[key]) = Ids(ready[key]) \cup {e.id}
  BY <1>1, <1>2, <1>3, AppendTwins DEF Unique
<1>5. QED
  BY <1>1, <1>2, <1>4 DEF Unique, ReadyIds, Keys

\* Shorter lists: elements taken from one of them.
LEMMA TakeUnique ==
    ASSUME TypeOK, Unique(ready), NEW key \in Keys, NEW t, ready' = [ready EXCEPT ![key] = t],
           Selected(t, ready[key])
    PROVE  Unique(ready') /\ ReadyIds' \subseteq ReadyIds
<1>1. ready'[key] = t /\ \A k \in Keys \ {key} : ready'[k] = ready[k]
  BY DEF TypeOK, StoreTypeOK
<1>2. NoTwins(t) /\ Range(t) \subseteq Range(ready[key])
  BY SelectedTwins DEF Unique
<1>3. Ids(t) \subseteq Ids(ready[key])
  BY <1>2 DEF Ids
<1>4. QED
  BY <1>1, <1>2, <1>3 DEF Unique, ReadyIds, Keys

LEMMA PopUnique ==
    ASSUME TypeOK, Unique(ready), NEW key \in Keys, ready[key] # <<>>,
           ready' = [ready EXCEPT ![key] = Tail(ready[key])]
    PROVE  /\ Unique(ready') /\ ReadyIds' \subseteq ReadyIds
           /\ Head(ready[key]).id \in ReadyIds \ ReadyIds'
<1> DEFINE s == ready[key]
<1>1. s \in Seq(Envelope) /\ NoTwins(s)
  BY DEF TypeOK, StoreTypeOK, Unique
<1>2. Unique(ready') /\ ReadyIds' \subseteq ReadyIds
  BY <1>1, TailSelected, TakeUnique
<1>3. Head(s) = s[1] /\ 1 \in DOMAIN s /\ Len(s) \in Nat /\ DOMAIN s = 1..Len(s)
  BY <1>1, LenProperties, EmptySeq
<1>4. Head(s).id \in Ids(s)
  BY <1>3 DEF Ids, Range
<1>5. Head(s).id \notin Ids(Tail(s))
  <2>1. \A i \in DOMAIN Tail(s) : i + 1 \in DOMAIN s /\ Tail(s)[i] = s[i + 1]
    BY <1>1, TailSelected
  <2>2. \A i \in DOMAIN Tail(s) : i \in Nat /\ i # 0
    BY <1>1, HeadTailProperties
  <2>3. \A i \in DOMAIN Tail(s) : Tail(s)[i].id # s[1].id
    BY <1>1, <1>3, <2>1, <2>2 DEF NoTwins
  <2>4. QED
    BY <1>3, <2>3 DEF Ids, Range
<1>6. ready'[key] = Tail(s) /\ \A k \in Keys \ {key} : ready'[k] = ready[k]
  BY DEF TypeOK, StoreTypeOK
<1> HIDE DEF s
<1>7. QED
  BY <1>2, <1>4, <1>5, <1>6 DEF s, Unique, ReadyIds, Keys

LEMMA PlaceStep ==
    ASSUME PlaceInv, Unique(ready'), UNCHANGED <<handling, born>>, Placed' \subseteq Placed,
           finished' \cap ReadyIds' = {},
           pc'["worker"] \in Active => held'["worker"].id \notin ReadyIds' \cup finished',
           pc'["worker"] \in {"deadtrim", "nackdone"} => held'["worker"].id \in finished'
    PROVE  PlaceInv'
BY DEF PlaceInv

\* The worker is not at a job that runs or has run.
LEMMA EndStep ==
    ASSUME EndInv, UNCHANGED <<stopped, done, running>>, finished \subseteq finished',
           pc["worker"] \notin {"exec", "clear", "ack"}, pc'["worker"] \notin {"exec", "clear"},
           pc'["worker"] \in {"deadtrim", "nackdone"}
               => held'["worker"].id \notin stopped \cup Ids(done)
    PROVE  EndInv'
BY DEF EndInv, Ids

LEMMA QuietOnce ==
    ASSUME PlaceInv, EndInv, UNCHANGED <<ready, done, finished, stopped, handling, born, running, verdict>>,
           pc'["worker"] = pc["worker"], held'["worker"] = held["worker"]
    PROVE  PlaceInv' /\ EndInv'
<1>1. ReadyIds' = ReadyIds /\ InHand' = InHand /\ Ids(done)' = Ids(done)
  BY DEF ReadyIds, Ids, InHand, Handling
<1>2. Placed' = Placed
  BY <1>1 DEF Placed
<1>3. PlaceInv'
  BY <1>1, <1>2 DEF PlaceInv
<1>4. EndInv'
  BY <1>1 DEF EndInv
<1>5. QED
  BY <1>3, <1>4

LEMMA PopOnce ==
    ASSUME MaxFaults = 0, TypeOK, PlaceInv, EndInv, Pop
    PROVE  PlaceInv' /\ EndInv'
<1> DEFINE w == "worker"  list == ready[PopKey]
<1>1. w \in Procs /\ PopKey \in Keys /\ list \in Seq(Envelope)
  BY DEF Procs, PopKey, Keys, TypeOK, StoreTypeOK
<1>2. PICK o \in Outcome :
        /\ Command(o)
        /\ IF Applied(o) /\ list # <<>>
           THEN ready' = [ready EXCEPT ![PopKey] = Tail(list)]
           ELSE UNCHANGED ready
        /\ IF ~Replied(o)
           THEN Goto(w, "head") /\ UNCHANGED held
           ELSE IF list = <<>>
                THEN Goto(w, AfterKey(PopKey)) /\ UNCHANGED held
                ELSE Goto(w, "since") /\ Hold(w, Head(list))
  BY DEF Pop
<1>3. o = "ok"
  BY <1>2, NoFault
<1>4. /\ pc[w] \in {"popI", "popS"} /\ ~Handling(w) /\ InHand = {}
      /\ UNCHANGED <<finished, stopped, done, running, handling, born>>
  BY StepNames DEF Pop, Handling, InHand, connVars
<1>5. CASE list = <<>>
  <2>1. UNCHANGED ready /\ pc'[w] \in {"popS", "head"}
    BY <1>1, <1>2, <1>3, <1>5 DEF Goto, AfterKey, TypeOK, ProcTypeOK
  <2>2. ReadyIds' = ReadyIds /\ InHand' = {}
    BY <2>1, StepNames DEF ReadyIds, Ids, InHand, Handling
  <2>3. Placed' = Placed
    BY <1>4, <2>2 DEF Placed
  <2>4. pc'[w] \notin Active \cup {"deadtrim", "nackdone", "exec", "clear"}
    BY <2>1 DEF Active
  <2>5. PlaceInv'
    BY <1>4, <2>1, <2>2, <2>3, <2>4, PlaceStep DEF PlaceInv
  <2>6. QED
    BY <1>4, <2>4, <2>5, EndStep
<1>6. CASE list # <<>>
  <2>1. ready' = [ready EXCEPT ![PopKey] = Tail(list)]
    BY <1>2, <1>3, <1>6
  <2>2. Unique(ready') /\ ReadyIds' \subseteq ReadyIds /\ Head(list).id \in ReadyIds \ ReadyIds'
    BY <1>1, <1>6, <2>1, PopUnique DEF PlaceInv
  <2>3. pc'[w] = "since" /\ held'[w] = Head(list)
    BY <1>1, <1>2, <1>3, <1>6 DEF Goto, Hold, TypeOK, ProcTypeOK
  <2>4. InHand' = {Head(list).id}
    BY <2>3 DEF InHand, Handling, HoldingSteps
  <2>5. Placed' \subseteq Placed
    BY <1>4, <2>2, <2>4 DEF Placed
  <2>6. PlaceInv'
    BY <1>4, <2>2, <2>3, <2>5, PlaceStep DEF PlaceInv
  <2>7. QED
    BY <1>4, <2>3, <2>6, EndStep
<1>7. QED
  BY <1>5, <1>6

\* The steps from the loop head and from an envelope to its verdict.
LEMMA RunOnce ==
    ASSUME MaxFaults = 0, TypeOK, PlaceInv, EndInv,
           WorkerLoop \/ SetSince \/ StartJob \/ Execute \/ ClearRunning
    PROVE  PlaceInv' /\ EndInv'
<1> DEFINE w == "worker"
<1>1. \A step : Goto(w, step) => pc'[w] = step
  BY DEF Goto, TypeOK, ProcTypeOK, Procs
<1>2. /\ UNCHANGED <<ready, finished, stopped, done, handling, born, held>>
      /\ ReadyIds' = ReadyIds /\ Ids(done)' = Ids(done)
  BY DEF WorkerLoop, SetSince, StartJob, Execute, ClearRunning, store, history, connVars, ReadyIds, Ids
<1>3. CASE WorkerLoop
  <2>1. pc[w] = "head" /\ pc'[w] = "popI" /\ UNCHANGED running
    BY <1>1, <1>3 DEF WorkerLoop
  <2>2. InHand' = InHand
    BY <2>1, StepNames DEF InHand, Handling
  <2>3. Placed' = Placed /\ pc'[w] \notin Active \cup {"deadtrim", "nackdone", "exec", "clear"}
    BY <1>2, <2>1, <2>2 DEF Placed, Active
  <2>4. QED
    BY <1>2, <2>1, <2>3, PlaceStep, EndStep DEF PlaceInv
<1>4. CASE SetSince \/ StartJob \/ Execute \/ ClearRunning
  <2>1. pc[w] \in {"since", "start", "exec", "clear"}
        /\ pc'[w] \in {"start", "requeue", "exec", "clear", "nack", "ack"}
    <3>1. CASE SetSince
      <4>1. PICK o \in Outcome : Command(o) /\ Goto(w, IF Replied(o) THEN AfterSince ELSE "head")
        BY <3>1 DEF SetSince
      <4>2. QED
        BY <1>1, <3>1, <4>1, NoFault DEF AfterSince, SetSince
    <3>2. QED
      BY <1>1, <1>4, <3>1 DEF StartJob, Execute, ClearRunning, AfterRun
  <2>2. InHand' = InHand
    BY <1>2, <2>1 DEF InHand, Handling, HoldingSteps, NackSteps
  <2>3. Placed' = Placed /\ pc[w] \in Active /\ pc'[w] \notin {"deadtrim", "nackdone"}
    BY <1>2, <2>1, <2>2 DEF Placed, Active
  <2>4. PlaceInv'
    BY <1>2, <2>3, PlaceStep DEF PlaceInv
  <2>5. CASE SetSince
    <3>1. pc'[w] \in {"start", "requeue"} /\ pc[w] = "since" /\ UNCHANGED running
      <4>1. PICK o \in Outcome : Command(o) /\ Goto(w, IF Replied(o) THEN AfterSince ELSE "head")
        BY <2>5 DEF SetSince
      <4>2. QED
        BY <1>1, <2>5, <4>1, NoFault DEF AfterSince, SetSince
    <3>2. QED
      BY <1>2, <2>4, <3>1, EndStep
  <2>6. CASE StartJob
    <3>1. pc[w] = "start" /\ pc'[w] = "exec" /\ running'.env = held[w]
      BY <1>1, <2>6 DEF StartJob
    <3>2. QED
      BY <1>2, <2>4, <3>1 DEF EndInv
  <2>7. CASE Execute
    <3>1. /\ pc[w] = "exec" /\ pc'[w] = "clear" /\ UNCHANGED running
          /\ running.cause # "none" => verdict' = "cancelled"
      BY <1>1, <2>7 DEF Execute, Verdict
    <3>2. QED
      BY <1>2, <2>4, <3>1 DEF EndInv
  <2>8. CASE ClearRunning
    <3>1. /\ pc[w] = "clear" /\ pc'[w] = AfterRun /\ running'.env = NoEnvelope
          /\ UNCHANGED verdict
      BY <1>1, <2>8 DEF ClearRunning
    <3>2. pc'[w] = IF verdict = "failed" THEN "nack" ELSE "ack"
      BY <3>1 DEF AfterRun
    <3>3. QED
      BY <1>2, <2>4, <3>1, <3>2 DEF EndInv
  <2>9. QED
    BY <1>4, <2>5, <2>6, <2>7, <2>8
<1>5. QED
  BY <1>3, <1>4

\* An envelope goes back to its list, and the worker lets go of it.
LEMMA BackOnce ==
    ASSUME MaxFaults = 0, TypeOK, PlaceInv, EndInv, Requeue \/ Unhold
    PROVE  PlaceInv' /\ EndInv'
<1> DEFINE w == "worker"
<1>1. \A step : Goto(w, step) => pc'[w] = step
  BY DEF Goto, TypeOK, ProcTypeOK, Procs
<1>2. UNCHANGED <<finished, stopped, done, handling, born, held, running>>
  BY DEF Requeue, Unhold, history, connVars
<1>3. CASE Requeue
  <2>1. PICK o \in Outcome :
          /\ pc[w] = "requeue" /\ Command(o) /\ PushReady(held[w], o)
          /\ Goto(w, IF Replied(o) THEN "unhold" ELSE "head")
    BY <1>3 DEF Requeue
  <2>2. o = "ok" /\ pc'[w] = "unhold"
    BY <1>1, <2>1, NoFault
  <2>3. held[w] \in Envelope /\ held[w].id \notin ReadyIds \cup finished
    BY <2>1 DEF PlaceInv, Active, TypeOK, ProcTypeOK, Procs, HoldingSteps
  <2>4. Unique(ready') /\ ReadyIds' = ReadyIds \cup {held[w].id}
    BY <2>1, <2>2, <2>3, PushUnique DEF PlaceInv
  <2>5. InHand = {held[w].id} /\ InHand' = {held[w].id}
    BY <1>2, <2>1, <2>2 DEF InHand, Handling, HoldingSteps
  <2>6. Placed' = Placed /\ finished' \cap ReadyIds' = {}
    BY <1>2, <2>3, <2>4, <2>5 DEF Placed, PlaceInv
  <2>7. PlaceInv'
    BY <1>2, <2>2, <2>4, <2>6, PlaceStep DEF Active
  <2>8. QED
    BY <1>2, <2>1, <2>2, <2>7, EndStep
<1>4. CASE Unhold
  <2>1. /\ pc[w] = "unhold" /\ pc'[w] \in {"head", "popS"}
        /\ UNCHANGED ready
    BY <1>1, <1>4 DEF Unhold, AfterKey
  <2>2. ReadyIds' = ReadyIds /\ InHand' = {}
    BY <2>1, StepNames DEF ReadyIds, Ids, InHand, Handling
  <2>3. Placed' \subseteq Placed
    BY <1>2, <2>2 DEF Placed
  <2>4. PlaceInv'
    BY <1>2, <2>1, <2>2, <2>3, PlaceStep DEF PlaceInv, Active
  <2>5. QED
    BY <1>2, <2>1, <2>4, EndStep
<1>5. QED
  BY <1>3, <1>4

\* The record of a job: its id was not recorded before, and a cancelled job is
\* recorded as cancelled.
LEMMA RecordOnce ==
    ASSUME TypeOK, EndInv, NEW e \in Envelope, NEW result \in Results, AppendFinished(e, result, "ok"),
           e.id \notin Ids(done), UNCHANGED stopped, e.id \in stopped => result = "cancelled"
    PROVE  /\ NoTwins(done') /\ Ids(done)' = Ids(done) \cup {e.id}
           /\ finished' = finished \cup {e.id}
           /\ \A r \in Range(done') : r.id \in stopped => r.result = "cancelled"
<1> DEFINE r == [id |-> e.id, result |-> result]
<1>1. r \in Record /\ r.id = e.id /\ r.result = result /\ done \in Seq(Record)
  BY DEF Envelope, Record, TypeOK, StoreTypeOK
<1>2. done' = Append(done, r) /\ finished' = finished \cup {e.id}
  BY DEF AppendFinished
<1>3. NoTwins(Append(done, r)) /\ Ids(Append(done, r)) = Ids(done) \cup {e.id}
  BY <1>1, AppendTwins DEF EndInv
<1>4. Range(Append(done, r)) = Range(done) \cup {r}
  BY <1>1, AppendRange
<1>5. Ids(done)' = Ids(Append(done, r))
  BY <1>2 DEF Ids
<1> HIDE DEF r
<1>6. QED
  BY <1>1, <1>2, <1>3, <1>4, <1>5 DEF EndInv

LEMMA AckOnce ==
    ASSUME MaxFaults = 0, TypeOK, PlaceInv, EndInv, Ack \/ AckDelete
    PROVE  PlaceInv' /\ EndInv'
<1> DEFINE w == "worker"
<1>1. UNCHANGED <<ready, stopped, handling, born>> /\ ReadyIds' = ReadyIds
  BY DEF Ack, AckDelete, history, Continue, Resume, connVars, ReadyIds, Ids
<1>2. CASE Ack
  <2>1. PICK o \in Outcome :
          /\ pc[w] = "ack" /\ Command(o) /\ AppendFinished(held[w], verdict, o)
          /\ IF Replied(o) THEN Continue(w, "acktrim") ELSE Resume(w, FALSE)
    BY <1>2 DEF Ack
  <2>2. o = "ok"
    BY <2>1, NoFault
  <2>3. /\ held[w] \in Envelope /\ held[w].id \notin ReadyIds \cup finished /\ verdict \in Results
        /\ held[w].id \notin Ids(done)
    BY <2>1 DEF PlaceInv, EndInv, Active, TypeOK, ProcTypeOK, Procs, HoldingSteps
  <2>4. held[w].id \in stopped => verdict = "cancelled"
    BY <2>1, <2>3 DEF EndInv
  <2>5. /\ NoTwins(done') /\ Ids(done)' = Ids(done) \cup {held[w].id}
        /\ finished' = finished \cup {held[w].id}
        /\ \A r \in Range(done') : r.id \in stopped => r.result = "cancelled"
    BY <1>1, <2>1, <2>2, <2>3, <2>4, RecordOnce
  <2>6. pc'[w] = "acktrim" /\ UNCHANGED <<held, running, handling>>
    BY <2>1, <2>2 DEF Continue, Goto, TypeOK, ProcTypeOK, Procs, connVars
  <2>7. InHand = {held[w].id} /\ InHand' = {held[w].id}
    BY <2>1, <2>6 DEF InHand, Handling, HoldingSteps
  <2>8. Placed' = Placed /\ finished' \cap ReadyIds' = {}
    BY <1>1, <2>3, <2>5, <2>7 DEF Placed, PlaceInv
  <2>9. PlaceInv'
    BY <1>1, <2>6, <2>8, PlaceStep DEF PlaceInv, Active
  <2>10. EndInv'
    BY <1>1, <2>1, <2>5, <2>6 DEF EndInv
  <2>11. QED
    BY <2>9, <2>10
<1>3. CASE AckDelete
  <2>1. PICK o \in Outcome :
          pc[w] = "ackdel" /\ Command(o) /\ Resume(w, Replied(o))
    BY <1>3 DEF AckDelete
  <2>2. pc'[w] = "head" /\ UNCHANGED <<finished, done, running>>
    BY <1>3, <2>1, NoFault DEF AckDelete, Resume, history, TypeOK, ProcTypeOK, Procs
  <2>3. InHand' = {}
    BY <2>2, StepNames DEF InHand, Handling
  <2>4. Placed' \subseteq Placed
    BY <1>1, <2>2, <2>3 DEF Placed
  <2>5. PlaceInv'
    BY <1>1, <2>2, <2>4, PlaceStep DEF PlaceInv, Active
  <2>6. QED
    BY <1>1, <2>1, <2>2, <2>5, EndStep
<1>4. QED
  BY <1>2, <1>3

LEMMA NackOnce ==
    ASSUME MaxFaults = 0, TypeOK, PlaceInv, EndInv, NackStep("worker")
    PROVE  PlaceInv' /\ EndInv'
<1> DEFINE w == "worker"
<1>1. w \in Procs /\ (pc[w] \in HoldingSteps => held[w] \in Envelope)
  BY DEF Procs, TypeOK, ProcTypeOK
<1>2. UNCHANGED <<stopped, born>>
  BY DEF NackStep, Nack, TrimDead, NackFinished, TrimDone, NackDelete, history
<1>3. \A step : Continue(w, step) => pc'[w] = step /\ UNCHANGED <<held, running, handling>>
  BY <1>1 DEF Continue, Goto, TypeOK, ProcTypeOK, connVars
<1>4. UNCHANGED ready => ReadyIds' = ReadyIds
  BY DEF ReadyIds, Ids
<1>5. ASSUME pc[w] \in HoldingSteps, pc'[w] \in HoldingSteps, UNCHANGED held
      PROVE  InHand' = {held[w].id} /\ InHand = {held[w].id}
  BY <1>5 DEF InHand, Handling
<1>6. CASE Nack(w)
  <2> DEFINE e == Retried(held[w])
  <2>1. PICK o \in Outcome :
          /\ pc[w] = "nack"
          /\ Command(o)
          /\ IF Exhausted(e)
             THEN /\ finished' = IF Applied(o) THEN finished \cup {e.id} ELSE finished
                  /\ UNCHANGED <<ready, late>>
             ELSE PushReady(e, o) /\ UNCHANGED <<dead, finished>>
          /\ IF Replied(o) THEN Continue(w, AfterNackPush(e)) ELSE Resume(w, FALSE)
    BY <1>6 DEF Nack
  <2>2. o = "ok" /\ UNCHANGED done
    BY <1>6, <2>1, NoFault DEF Nack
  <2>3. held[w] \in Envelope /\ e \in Envelope /\ e.id = held[w].id
    BY <1>1, <2>1, RetriedType DEF HoldingSteps, NackSteps
  <2>4. held[w].id \notin ReadyIds \cup finished \cup stopped \cup Ids(done)
    BY <2>1 DEF PlaceInv, EndInv, Active
  <2>5. pc'[w] = AfterNackPush(e) /\ UNCHANGED <<held, running, handling>>
    BY <1>3, <2>1, <2>2
  <2>6. InHand' = {held[w].id} /\ InHand = {held[w].id}
    BY <1>5, <2>1, <2>5 DEF AfterNackPush, HoldingSteps, NackSteps
  <2>7. CASE Exhausted(e)
    <3>1. /\ pc'[w] = "deadtrim" /\ finished' = finished \cup {held[w].id}
          /\ UNCHANGED ready
      BY <2>1, <2>2, <2>3, <2>5, <2>7 DEF AfterNackPush
    <3>2. Placed' = Placed /\ finished' \cap ReadyIds' = {}
      BY <1>4, <2>4, <2>6, <3>1 DEF Placed, PlaceInv
    <3>3. PlaceInv'
      BY <1>2, <2>5, <3>1, <3>2, PlaceStep DEF PlaceInv, Active
    <3>4. QED
      BY <1>2, <2>1, <2>2, <2>4, <2>5, <3>1, <3>3, EndStep
  <2>8. CASE ~Exhausted(e)
    <3>1. pc'[w] = "nackdel" /\ PushReady(e, "ok") /\ UNCHANGED finished
      BY <2>1, <2>2, <2>5, <2>8 DEF AfterNackPush
    <3>2. Unique(ready') /\ ReadyIds' = ReadyIds \cup {held[w].id}
      BY <2>3, <2>4, <3>1, PushUnique DEF PlaceInv
    <3>3. Placed' = Placed /\ finished' \cap ReadyIds' = {}
      BY <2>4, <2>6, <3>1, <3>2 DEF Placed, PlaceInv
    <3>4. PlaceInv'
      BY <1>2, <2>5, <3>1, <3>2, <3>3, PlaceStep DEF Active
    <3>5. QED
      BY <1>2, <2>1, <2>2, <2>5, <3>1, <3>4, EndStep
  <2>9. QED
    BY <2>7, <2>8
<1>7. CASE NackFinished(w)
  <2>1. PICK o \in Outcome :
          /\ pc[w] = "nackdone"
          /\ Command(o)
          /\ AppendFinished(held[w], "failed", o)
          /\ IF Replied(o) THEN Continue(w, "donetrim") ELSE Resume(w, FALSE)
    BY <1>7 DEF NackFinished
  <2>2. o = "ok" /\ UNCHANGED ready
    BY <1>7, <2>1, NoFault DEF NackFinished
  <2>3. /\ held[w] \in Envelope /\ held[w].id \in finished
        /\ held[w].id \notin stopped \cup Ids(done) /\ "failed" \in Results
    BY <1>1, <2>1 DEF PlaceInv, EndInv, HoldingSteps, NackSteps, Results
  <2>4. /\ NoTwins(done') /\ Ids(done)' = Ids(done) \cup {held[w].id}
        /\ finished' = finished \cup {held[w].id}
        /\ \A r \in Range(done') : r.id \in stopped => r.result = "cancelled"
    BY <1>2, <2>1, <2>2, <2>3, RecordOnce
  <2>5. pc'[w] = "donetrim" /\ UNCHANGED <<held, running, handling>> /\ finished' = finished
    BY <1>3, <2>1, <2>2, <2>3, <2>4
  <2>6. InHand' = {held[w].id} /\ InHand = {held[w].id}
    BY <1>5, <2>1, <2>5 DEF HoldingSteps, NackSteps
  <2>7. Placed' = Placed
    BY <1>4, <2>2, <2>5, <2>6 DEF Placed
  <2>8. PlaceInv'
    BY <1>2, <1>4, <2>2, <2>5, <2>7, PlaceStep DEF PlaceInv, Active
  <2>9. EndInv'
    BY <1>2, <2>1, <2>4, <2>5 DEF EndInv
  <2>10. QED
    BY <2>8, <2>9
<1>8. CASE TrimDead(w) \/ TrimDone(w)
  <2>1. PICK o \in Outcome, step \in {"nackdone", "nackdel", "ackdel"} :
          /\ pc[w] \in {"deadtrim", "donetrim", "acktrim"}
          /\ step = "nackdone" => pc[w] = "deadtrim"
          /\ Command(o)
          /\ IF Replied(o) THEN Continue(w, step) ELSE Resume(w, FALSE)
          /\ done' = done \/ done' = KeepLast(done, DoneCap)
    BY <1>8 DEF TrimDead, TrimDone
  <2>2. o = "ok" /\ UNCHANGED <<ready, finished>>
    BY <1>8, <2>1, NoFault DEF TrimDead, TrimDone, history
  <2>3. pc'[w] = step /\ UNCHANGED <<held, running, handling>>
    BY <1>3, <2>1, <2>2
  <2>4. InHand' = {held[w].id} /\ InHand = {held[w].id}
    BY <1>5, <2>1, <2>3 DEF HoldingSteps, NackSteps
  <2>5. Placed' = Placed /\ ReadyIds' = ReadyIds
    BY <1>4, <2>2, <2>4 DEF Placed
  <2>6. PlaceInv'
    BY <1>2, <2>1, <2>2, <2>3, <2>5, PlaceStep DEF PlaceInv, Active
  <2>7. NoTwins(done') /\ Range(done') \subseteq Range(done)
    <3>1. done \in Seq(Record) /\ DoneCap \in Nat
      BY BoundsAssumption DEF BoundsAssumption, TypeOK, StoreTypeOK
    <3>2. CASE done' = KeepLast(done, DoneCap)
      BY <3>1, <3>2, KeepLastSelected, SelectedTwins DEF EndInv
    <3>3. QED
      BY <2>1, <3>2 DEF EndInv
  <2>8. Ids(done)' \subseteq Ids(done)
    BY <2>7 DEF Ids
  <2>9. EndInv'
    BY <1>2, <2>1, <2>2, <2>3, <2>7, <2>8 DEF EndInv
  <2>10. QED
    BY <2>6, <2>9
<1>9. CASE NackDelete(w)
  <2>1. PICK o \in Outcome :
          pc[w] = "nackdel" /\ Command(o) /\ Resume(w, Replied(o))
    BY <1>9 DEF NackDelete
  <2>2. pc'[w] = "head" /\ UNCHANGED <<ready, finished, done, running, handling>>
    BY <1>9, <2>1, NoFault DEF NackDelete, Resume, history, TypeOK, ProcTypeOK, Procs, connVars
  <2>3. InHand' = {}
    BY <2>2, StepNames DEF InHand, Handling
  <2>4. Placed' \subseteq Placed
    BY <1>4, <2>2, <2>3 DEF Placed
  <2>5. PlaceInv'
    BY <1>2, <1>4, <2>2, <2>4, PlaceStep DEF PlaceInv, Active
  <2>6. QED
    BY <1>2, <2>1, <2>2, <2>5, EndStep
<1>10. QED
  BY <1>6, <1>7, <1>8, <1>9 DEF NackStep

\* A new envelope is nowhere else, neither in the queue nor with another handler.
LEMMA EnqueueOnce ==
    ASSUME MaxFaults = 0, TypeOK, PlaceInv, EndInv, NEW j \in Jobs, NEW o, Command(o), Enqueue(j, o),
           j \notin Placed,
           UNCHANGED <<done, finished, stopped, running, verdict, pc, held>>,
           \A c \in Conns : handling'[c] # NoJob => handling'[c] = handling[c] /\ handling[c] # j
    PROVE  PlaceInv' /\ EndInv'
<1>1. EnvelopeOf(j) \in Envelope /\ EnvelopeOf(j).id = j /\ o = "ok"
  BY NoFault DEF EnvelopeOf, Envelope
<1>2. Unique(ready') /\ ReadyIds' = ReadyIds \cup {j}
  BY <1>1, PushUnique DEF Enqueue, PlaceInv, Placed
<1>3. InHand' = InHand
  BY DEF InHand, Handling
<1>4. Placed' = Placed \cup {j}
  BY <1>2, <1>3 DEF Placed
<1>5. born'[j] # 0 /\ \A i \in Jobs \ {j} : born'[i] = born[i]
  <2>1. restarts \in Nat /\ born \in [Jobs -> Nat]
    BY BoundsAssumption DEF BoundsAssumption, TypeOK, CountersTypeOK, HistoryTypeOK
  <2>2. born' = [born EXCEPT ![j] = restarts + 1]
    BY DEF Enqueue, Process
  <2>3. QED
    BY <2>1, <2>2
<1>6. \A i \in Jobs : born[i] # 0 => born'[i] # 0
  BY <1>5
<1>7. Placed \subseteq Jobs
  <2>1. \A k \in Keys : Ids(ready[k]) \subseteq Jobs
    <3>1. ASSUME NEW k \in Keys PROVE Range(ready[k]) \subseteq Envelope
      BY RangeOfSeq DEF TypeOK, StoreTypeOK
    <3>2. QED
      BY <3>1 DEF Ids, Envelope
  <2>2. InHand \subseteq Jobs
    BY DEF InHand, Handling, TypeOK, ProcTypeOK, Procs, Envelope
  <2>3. QED
    BY <2>1, <2>2 DEF Placed, ReadyIds, Keys, TypeOK, HistoryTypeOK
<1>8. \A i \in Placed' : born'[i] # 0
  BY <1>4, <1>5, <1>6, <1>7 DEF PlaceInv
<1>9. ASSUME NEW c \in Conns, handling'[c] # NoJob
      PROVE  Owner[handling'[c]] = c /\ born'[handling'[c]] # 0 /\ handling'[c] \notin Placed'
  <2>1. handling'[c] = handling[c] /\ handling[c] # j /\ handling[c] \in Jobs
    BY <1>9 DEF TypeOK, ConnTypeOK
  <2>2. QED
    BY <1>4, <1>6, <1>9, <2>1 DEF PlaceInv
<1>10. pc["worker"] \in Active => held["worker"].id # j
  BY DEF Active, InHand, Handling, HoldingSteps, NackSteps, Placed
<1>11. finished \cap ReadyIds' = {}
  BY <1>2 DEF PlaceInv, Placed
<1>12. PlaceInv'
  BY <1>2, <1>8, <1>9, <1>10, <1>11 DEF PlaceInv
<1>13. EndInv'
  BY DEF EndInv, Ids
<1>14. QED
  BY <1>12, <1>13

LEMMA ProducerOnce ==
    ASSUME MaxFaults = 0, TypeOK, PlaceInv, EndInv,
           \/ \E j \in Jobs : SystemEnqueue(j)
           \/ \E c \in Conns : HandlerEnqueue(c) \/ \E j \in Jobs : HandleMessage(c, j)
    PROVE  PlaceInv' /\ EndInv'
<1>1. ASSUME NEW j \in Jobs, SystemEnqueue(j) PROVE PlaceInv' /\ EndInv'
  <2>1. PICK o \in Outcome : Command(o) /\ Enqueue(j, o)
    BY <1>1 DEF SystemEnqueue
  <2>2. /\ born[j] = 0 /\ j \notin Placed
        /\ UNCHANGED <<done, finished, stopped, running, verdict, pc, held, handling>>
    BY <1>1 DEF SystemEnqueue, PlaceInv, workerVars, connVars
  <2>3. \A c \in Conns : handling[c] # j
    BY <2>2, JobsAssumption DEF PlaceInv, JobsAssumption
  <2>4. QED
    BY <2>1, <2>2, <2>3, EnqueueOnce
<1>2. ASSUME NEW c \in Conns, HandlerEnqueue(c) PROVE PlaceInv' /\ EndInv'
  <2> DEFINE j == handling[c]
  <2>1. PICK o \in Outcome : Command(o) /\ Enqueue(j, o)
    BY <1>2 DEF HandlerEnqueue
  <2>2. /\ j \in Jobs /\ j # NoJob /\ j \notin Placed /\ Owner[j] = c
        /\ handling' = [handling EXCEPT ![c] = NoJob]
        /\ UNCHANGED <<done, finished, stopped, running, verdict, pc, held>>
    BY <1>2 DEF HandlerEnqueue, PlaceInv, workerVars, TypeOK, ConnTypeOK
  <2>3. \A d \in Conns : handling'[d] # NoJob => d # c /\ handling'[d] = handling[d]
    BY <2>2 DEF TypeOK, ConnTypeOK
  <2>4. \A d \in Conns : d # c /\ handling[d] # NoJob => handling[d] # j
    BY <2>2 DEF PlaceInv
  <2> HIDE DEF j
  <2>5. QED
    BY <2>1, <2>2, <2>3, <2>4, EnqueueOnce
<1>3. ASSUME NEW c \in Conns, NEW j \in Jobs, HandleMessage(c, j) PROVE PlaceInv' /\ EndInv'
  <2>1. /\ born[j] = 0 /\ Owner[j] = c /\ j \notin Placed
        /\ handling' = [handling EXCEPT ![c] = j]
        /\ born' = [born EXCEPT ![j] = restarts + 1]
        /\ UNCHANGED <<ready, done, finished, stopped, running, verdict, pc, held>>
    BY <1>3 DEF HandleMessage, PlaceInv, workerVars, store, Process
  <2>2. restarts \in Nat /\ born \in [Jobs -> Nat] /\ handling \in [Conns -> Jobs \cup {NoJob}]
    BY BoundsAssumption DEF BoundsAssumption, TypeOK, CountersTypeOK, HistoryTypeOK, ConnTypeOK
  <2>3. ReadyIds' = ReadyIds /\ InHand' = InHand /\ Ids(done)' = Ids(done)
    BY <2>1 DEF ReadyIds, Ids, InHand, Handling
  <2>4. Placed' = Placed
    BY <2>1, <2>3 DEF Placed
  <2>5. born'[j] # 0 /\ \A i \in Jobs \ {j} : born'[i] = born[i]
    BY <2>1, <2>2
  <2>6. handling'[c] = j /\ \A d \in Conns \ {c} : handling'[d] = handling[d]
    BY <2>1, <2>2
  <2>7. \A i \in Placed' : born'[i] # 0
    <3> SUFFICES ASSUME NEW i \in Placed PROVE born'[i] # 0
      BY <2>4
    <3>1. i # j /\ born[i] # 0
      BY <2>1 DEF PlaceInv
    <3>2. QED
      BY <2>1, <2>2, <3>1
  <2>8. ASSUME NEW d \in Conns, handling'[d] # NoJob
        PROVE  Owner[handling'[d]] = d /\ born'[handling'[d]] # 0 /\ handling'[d] \notin Placed'
    <3>1. CASE d = c
      BY <2>1, <2>4, <2>5, <2>6, <3>1
    <3>2. CASE d # c
      <4>1. handling'[d] = handling[d] /\ handling[d] \in Jobs
        BY <2>2, <2>6, <2>8, <3>2
      <4>2. Owner[handling[d]] = d /\ born[handling[d]] # 0 /\ handling[d] \notin Placed
        BY <2>8, <4>1 DEF PlaceInv
      <4>3. QED
        BY <2>1, <2>4, <2>5, <4>1, <4>2
    <3>3. QED
      BY <3>1, <3>2
  <2>9. PlaceInv'
    BY <2>1, <2>3, <2>7, <2>8 DEF PlaceInv, Placed
  <2>10. EndInv'
    BY <2>1, <2>3 DEF EndInv
  <2>11. QED
    BY <2>9, <2>10
<1>4. QED
  BY <1>1, <1>2, <1>3

\* A cancellation reaches the job that runs, which is not recorded yet.
LEMMA CancelOnce ==
    ASSUME TypeOK, PlaceInv, EndInv, NEW cause \in Causes \ {"none"}, Cancel(cause),
           running.env # NoEnvelope,
           UNCHANGED <<ready, done, finished, handling, born, pc, held, verdict>>
    PROVE  PlaceInv' /\ EndInv'
<1>1. ReadyIds' = ReadyIds /\ InHand' = InHand /\ Ids(done)' = Ids(done)
  BY DEF ReadyIds, Ids, InHand, Handling
<1>2. Placed' = Placed
  BY <1>1 DEF Placed
<1>3. PlaceInv'
  BY <1>1, <1>2 DEF PlaceInv
<1>4. pc["worker"] \in {"exec", "clear"} /\ running.env = held["worker"]
  BY DEF EndInv
<1>5. running'.env = running.env /\ running'.cause # "none"
  BY DEF Cancel, TypeOK, ProcTypeOK
<1>6. stopped' = IF pc["worker"] = "exec" THEN stopped \cup {held["worker"].id} ELSE stopped
  BY <1>4 DEF Cancel
<1>7. held["worker"].id \notin finished \cup Ids(done)
  BY <1>4 DEF PlaceInv, EndInv, Active
<1>8. \A r \in Range(done) : r.id # held["worker"].id
  BY <1>7 DEF Ids
<1>9. \A j \in stopped' :
        \/ j \in finished
        \/ /\ held["worker"].id = j
           /\ \/ pc["worker"] = "exec" /\ running'.cause # "none"
              \/ pc["worker"] \in {"clear", "ack"} /\ verdict = "cancelled"
  BY <1>5, <1>6 DEF EndInv
<1>10. EndInv'
  BY <1>1, <1>4, <1>5, <1>6, <1>8, <1>9 DEF EndInv
<1>11. QED
  BY <1>3, <1>10

LEMMA RemoverOnce ==
    ASSUME MaxFaults = 0, TypeOK, PlaceInv, EndInv, NEW c \in Conns, NEW m \in Modes, Remover(c, m)
    PROVE  PlaceInv' /\ EndInv'
<1>1. CASE RemoverCancel(c, m)
  <2>1. UNCHANGED <<ready, done, finished, handling, born, pc, held, verdict>>
    BY <1>1 DEF RemoverCancel, store
  <2>2. CASE running.env # NoEnvelope /\ InScope(running.env, c, m)
    <3>1. PICK cause \in {"stopped", "disconnected"} : Cancel(cause)
      BY <1>1, <2>2 DEF RemoverCancel
    <3>2. QED
      BY <2>1, <2>2, <3>1, CancelOnce DEF Causes
  <2>3. CASE ~(running.env # NoEnvelope /\ InScope(running.env, c, m))
    BY <1>1, <2>1, <2>3, QuietOnce DEF RemoverCancel
  <2>4. QED
    BY <2>2, <2>3
<1>2. CASE RemoverScan(c, m)
  BY <1>2, QuietOnce DEF RemoverScan, store, history, workerVars
<1>3. CASE RemoverDrop(c, m)
  <2> DEFINE key == remover[c][m].key
  <2>1. PICK o \in Outcome, e \in remover[c][m].victims :
          /\ Command(o)
          /\ ready' = IF Applied(o) THEN [ready EXCEPT ![key] = LRem(@, e)] ELSE ready
    BY <1>3 DEF RemoverDrop
  <2>2. o = "ok"
    BY <2>1, NoFault
  <2>3. key \in Keys
    BY DEF TypeOK, ConnTypeOK, RemoverStates
  <2>4. ready' = [ready EXCEPT ![key] = LRem(ready[key], e)]
    BY <2>1, <2>2
  <2>5. Selected(LRem(ready[key], e), ready[key])
    BY <2>3, LRemRange DEF TypeOK, StoreTypeOK
  <2>6. Unique(ready') /\ ReadyIds' \subseteq ReadyIds
    BY <2>3, <2>4, <2>5, TakeUnique DEF PlaceInv
  <2>7. UNCHANGED <<done, finished, stopped, handling, born, running, verdict, pc, held>>
    BY <1>3 DEF RemoverDrop, workerVars
  <2>8. InHand' = InHand
    BY <2>7 DEF InHand, Handling
  <2>9. Placed' \subseteq Placed /\ finished' \cap ReadyIds' = {}
    BY <2>6, <2>7, <2>8 DEF Placed, PlaceInv
  <2>10. PlaceInv'
    BY <2>6, <2>7, <2>9, PlaceStep DEF PlaceInv
  <2>11. EndInv'
    BY <2>7 DEF EndInv, Ids
  <2>12. QED
    BY <2>10, <2>11
<1>4. QED
  BY <1>1, <1>2, <1>3 DEF Remover

\* A job ends once, and as what stopped it (FinishedOnce), while one process lives and
\* neither a command fails nor a visibility timeout passes: one recorded in done is
\* never queued, executed or recorded again, and one whose context was cancelled while
\* it ran -- by its user, by the loss of its connection or by shutdown -- is neither
\* retried nor recorded as ok or failed (manager.go:300-330, 374-408, 595-645).  The
\* three assumptions are needed: the queue is at-least-once, so a crash or a sweep
\* runs a finished job again.
THEOREM EndsOnce ==
    ASSUME MaxFaults = 0, MaxRestarts = 0, MaxExpiries = 0
    PROVE  Spec => []FinishedOnce
<1>1. Init => PlaceInv /\ EndInv
  <2> SUFFICES ASSUME Init PROVE PlaceInv /\ EndInv
    OBVIOUS
  <2>1. /\ pc["worker"] = "idle" /\ finished = {} /\ stopped = {} /\ done = <<>>
        /\ running.env = NoEnvelope
        /\ ready["interactive"] = <<>> /\ ready["scheduled"] = <<>>
        /\ \A c \in Conns : handling[c] = NoJob
    BY DEF Init, AllIdle, Procs, Keys
  <2>2. Ids(<<>>) = {} /\ NoTwins(<<>>) /\ Range(<<>>) = {}
    BY DEF Ids, NoTwins, Range
  <2>3. InHand = {}
    BY <2>1, StepNames DEF InHand, Handling
  <2>4. PlaceInv
    BY <2>1, <2>2, <2>3 DEF PlaceInv, Unique, Placed, ReadyIds, Keys, Active
  <2>5. EndInv
    BY <2>1, <2>2 DEF EndInv
  <2>6. QED
    BY <2>4, <2>5
<1>2. TypeOK /\ ProcInv /\ CrashSafety /\ PlaceInv /\ EndInv /\ [Next]_vars => PlaceInv' /\ EndInv'
  <2> SUFFICES ASSUME TypeOK, ProcInv, CrashSafety, PlaceInv, EndInv, [Next]_vars
               PROVE  PlaceInv' /\ EndInv'
    OBVIOUS
  <2>1. CASE Recovery \/ Crash \/ Signal
    <3>1. ~(restarts < MaxRestarts)
      BY DEF TypeOK, CountersTypeOK
    <3>2. CASE Boot
      BY <3>2, QuietOnce DEF Boot, store, history, connVars, Goto, TypeOK, ProcTypeOK, Procs
    <3>3. CASE RecoverInflight
      <4>1. PICK o \in Outcome :
              /\ pc["boot"] = "peek" /\ Command(o)
              /\ IF ~Replied(o)
                 THEN EndProcess
                 ELSE /\ UNCHANGED <<verdict, running, connVars>>
                      /\ inflight = <<>> => /\ pc' = [pc EXCEPT !["boot"] = "idle", !["worker"] = "head"]
                                            /\ UNCHANGED held
        BY <3>3 DEF RecoverInflight
      <4>2. o = "ok" /\ UNCHANGED <<ready, done, finished, stopped, born>>
        BY <3>3, <4>1, NoFault DEF RecoverInflight, store, history
      <4>3. pc["worker"] = "idle" /\ inflight = <<>>
        BY <4>1, StepNames DEF ProcInv, LifeOrder, Alive, Handling
      <4>4. pc'["worker"] = "head" /\ UNCHANGED <<held, running, verdict, handling>>
        BY <4>1, <4>2, <4>3 DEF TypeOK, ProcTypeOK, Procs, connVars
      <4>5. ReadyIds' = ReadyIds /\ InHand' = {} /\ InHand = {}
        BY <4>2, <4>3, <4>4, StepNames DEF ReadyIds, Ids, InHand, Handling
      <4>6. Placed' = Placed
        BY <4>2, <4>5 DEF Placed
      <4>7. PlaceInv'
        BY <4>2, <4>4, <4>5, <4>6, PlaceStep DEF PlaceInv, Active
      <4>8. QED
        BY <4>2, <4>3, <4>4, <4>7, EndStep
    <3>4. ~NackStep("boot")
      <4>1. pc["boot"] \notin NackSteps \cup {"acktrim"}
        BY StepNames DEF ProcInv, Handling
      <4>2. QED
        BY <4>1 DEF NackStep, Nack, TrimDead, NackFinished, TrimDone, NackDelete, NackSteps
    <3>5. QED
      BY <2>1, <3>1, <3>2, <3>3, <3>4, QuietOnce
         DEF Recovery, Crash, Signal, store, history, workerVars, connVars
  <2>2. CASE CancelOnShutdown
    <3>1. /\ Cancel("shutdown") /\ running.env # NoEnvelope /\ "shutdown" \in Causes \ {"none"}
          /\ UNCHANGED <<ready, done, finished, handling, born, pc, held, verdict>>
      BY <2>2 DEF CancelOnShutdown, store, connVars, Causes
    <3>2. QED
      BY <3>1, CancelOnce
  <2>3. CASE Worker
    BY <2>3, PopOnce, RunOnce, BackOnce, AckOnce, NackOnce DEF Worker
  <2>4. CASE Janitor
    <3>1. ~NackStep("janitor")
      <4>1. pc["janitor"] \notin NackSteps /\ pc["janitor"] # "acktrim"
        BY DEF CrashSafety, TypeOK, ProcTypeOK, Procs, ProcSteps, NackSteps
      <4>2. QED
        BY <4>1 DEF NackStep, Nack, TrimDead, NackFinished, TrimDone, NackDelete, NackSteps
    <3>2. /\ UNCHANGED <<ready, done, finished, stopped, handling, born, running, verdict>>
          /\ pc'["worker"] = pc["worker"] /\ held'["worker"] = held["worker"]
      BY <2>4, <3>1 DEF Janitor, SweepBegin, SweepPeek, SweepAge, Goto, Hold, store, history,
         connVars, TypeOK, ProcTypeOK, Procs
    <3>3. QED
      BY <3>2, QuietOnce
  <2>5. CASE Expire \/ \E j \in Jobs : BecomeDue(j)
    BY <2>5, QuietOnce DEF Expire, BecomeDue, store, history, workerVars, connVars
  <2>6. CASE \/ \E j \in Jobs : SystemEnqueue(j)
             \/ \E c \in Conns : HandlerEnqueue(c) \/ \E j \in Jobs : HandleMessage(c, j)
    BY <2>6, ProducerOnce
  <2>7. CASE \E c \in Conns : Connect(c) \/ Disconnect(c) \/ StopChat(c)
    BY <2>7, QuietOnce DEF Connect, Disconnect, StopChat, store, history, workerVars
  <2>8. CASE \E c \in Conns : \E m \in Modes : Remover(c, m)
    BY <2>8, RemoverOnce
  <2>9. CASE UNCHANGED vars
    BY <2>9, QuietOnce DEF vars, store, history, workerVars, connVars
  <2>10. QED
    BY <2>1, <2>2, <2>3, <2>4, <2>5, <2>6, <2>7, <2>8, <2>9 DEF Next
<1>3. TypeOK /\ PlaceInv /\ EndInv => FinishedOnce
  <2> SUFFICES ASSUME TypeOK, PlaceInv, EndInv PROVE FinishedOnce
    OBVIOUS
  <2>1. \A i, k \in DOMAIN done : done[i].id = done[k].id => i = k
    BY DEF EndInv, NoTwins
  <2>2. pc["worker"] \in {"start", "exec", "clear"} => held["worker"].id \notin finished
    BY DEF PlaceInv, Active
  <2>3. stopped \cap ReadyIds = {}
    BY DEF PlaceInv, EndInv, Active
  <2>4. \A i \in DOMAIN done : done[i].id \in stopped => done[i].result = "cancelled"
    BY DEF EndInv, Range
  <2>5. QED
    BY <2>1, <2>2, <2>3, <2>4 DEF FinishedOnce, PlaceInv
<1>4. QED
  BY <1>1, <1>2, <1>3, TypeCorrect, HoldsWhileRunning, CrashLosesNothing, PTL DEF Spec
=============================================================================
