--------------------------- MODULE TelegramProofs ---------------------------
(***************************************************************************)
(* Theorems about TelegramIngress, for every set of updates and every      *)
(* bound: type correctness, and that an update, however often Telegram     *)
(* delivers it, gives at most one message, one query and one job, the jobs *)
(* in update order; that what is confirmed to Telegram is queued; and that *)
(* the records, their index, the stored history and memory agree.  And, at *)
(* the end, about TelegramBot, for every set of tokens: which token is in  *)
(* use, and what the flags of the notifications stand for.                 *)
(***************************************************************************)
EXTENDS TelegramIngress, SequenceTheorems, FiniteSetTheorems, WellFoundedInduction, TLAPS

USE DEF Applied, Replied, NoUpdate

-----------------------------------------------------------------------------
(* What the list commands do to the elements of a list.                    *)

\* LTRIM keeps a list of the same elements, no longer than its cap.
LEMMA KeepLastType ==
    ASSUME NEW S, NEW s \in Seq(S), NEW n \in Nat
    PROVE  KeepLast(s, n) \in Seq(S) /\ Len(KeepLast(s, n)) <= n
<1>1. CASE Len(s) <= n
  BY <1>1 DEF KeepLast
<1>2. CASE ~(Len(s) <= n)
  <2>1. /\ Len(s) \in Nat
        /\ Len(s) - n + 1 \in 1..(Len(s) + 1)
    BY <1>2, LenProperties
  <2>2. /\ SubSeq(s, Len(s) - n + 1, Len(s)) \in Seq(S)
        /\ Len(SubSeq(s, Len(s) - n + 1, Len(s))) <= n
    BY <2>1, SubSeqProperties, \A i \in 1..Len(s) : s[i] \in S
  <2>3. QED
    BY <1>2, <2>2 DEF KeepLast
<1>3. QED
  BY <1>1, <1>2

\* RPUSH adds one element and keeps the others.
LEMMA AppendRange ==
    ASSUME NEW S, NEW s \in Seq(S), NEW x \in S
    PROVE  /\ Append(s, x) \in Seq(S)
           /\ Range(Append(s, x)) = Range(s) \cup {x}
<1>1. /\ Append(s, x) \in Seq(S)
      /\ Len(Append(s, x)) = Len(s) + 1
      /\ \A i \in 1..Len(s) : Append(s, x)[i] = s[i]
      /\ Append(s, x)[Len(s) + 1] = x
  BY AppendProperties
<1>2. Range(Append(s, x)) = {Append(s, x)[i] : i \in 1..(Len(s) + 1)}
  BY <1>1, RangeEquality
<1>3. Range(s) = {s[i] : i \in 1..Len(s)}
  BY RangeEquality
<1>4. Len(s) \in Nat
  BY LenProperties
<1>5. QED
  BY <1>1, <1>2, <1>3, <1>4

-----------------------------------------------------------------------------
(* Minimum and maximum of a set of natural numbers.                        *)

\* A set of natural numbers that is not empty has a least element.
LEMMA MinExists ==
    ASSUME NEW S, S \subseteq Nat, S # {}
    PROVE  Min(S) \in S /\ \A y \in S : Min(S) <= y
<1> DEFINE R == OpToRel(<, Nat)
<1>1. PICK x \in S : \A y \in S : <<y, x>> \notin R
  <2>1. IsWellFoundedOn(R, Nat)
    BY NatLessThanWellFounded
  <2> HIDE DEF R
  <2>2. \E x \in S : \A y \in S : ~(<<y, x>> \in R)
    BY <2>1, WFMin, Zenon
  <2> QED
    BY <2>2
<1>2. \A y \in S : ~(y < x)
  BY <1>1 DEF OpToRel
<1>3. \A y \in S : x <= y
  <2> TAKE y \in S
  <2>1. x \in Nat /\ y \in Nat /\ ~(y < x)
    BY <1>2
  <2> QED
    BY <2>1
<1> QED
  BY <1>3 DEF Min

\* A set of natural numbers below n that is not empty has a greatest element.
LEMMA MaxExists ==
    ASSUME NEW n \in Nat, NEW S, S \subseteq 0..n, S # {}
    PROVE  Max(S) \in S /\ \A y \in S : Max(S) >= y
<1> DEFINE T == {n - y : y \in S}
<1>1. T \subseteq Nat /\ T # {}
  <2>1. \A y \in 0..n : n - y \in Nat
    OBVIOUS
  <2> QED
    BY <2>1
<1>2. Min(T) \in T /\ \A z \in T : Min(T) <= z
  BY <1>1, MinExists
<1>3. PICK x \in S : Min(T) = n - x
  BY <1>2
<1>4. \A y \in S : x >= y
  <2> TAKE y \in S
  <2>1. n - x <= n - y /\ x \in 0..n /\ y \in 0..n
    BY <1>2, <1>3
  <2> QED
    BY <2>1
<1> QED
  BY <1>4 DEF Max

-----------------------------------------------------------------------------
(* Types.                                                                  *)

USE DEF Goto

\* A command counts at most one fault and no other bounded event.
LEMMA CommandType ==
    ASSUME BoundsTypeOK, NEW o, Command(o)
    PROVE  BoundsTypeOK'
BY CapsAssumption DEF CapsAssumption, BoundsTypeOK, Command

\* In the steps that handle an update there is one.
LEMMA CurIsUpdate ==
    ASSUME TypeOK, pc \in Handling
    PROVE  cur \in arrived /\ cur \in Updates /\ cur \in Nat \ {0}
BY UpdatesAssumption DEF UpdatesAssumption, TypeOK, ProcessTypeOK, ServerTypeOK

\* Start keeps the types.
LEMMA StartType ==
    ASSUME TypeOK, Start
    PROVE  TypeOK'
<1> USE DEF TypeOK
<1>1. StoreTypeOK'
  BY UpdatesAssumption DEF UpdatesAssumption, StoreTypeOK, ServerTypeOK, ProcessTypeOK, Start, Stages, store, bounds
<1>2. ServerTypeOK'
  BY DEF ServerTypeOK, Start, server, process, StoreTypeOK, ProcessTypeOK
<1>3. ProcessTypeOK'
  BY UpdatesAssumption DEF UpdatesAssumption, ProcessTypeOK, ServerTypeOK, StoreTypeOK, Start, process, server, Steps, Handling
<1>4. BoundsTypeOK'
  BY CommandType, CapsAssumption DEF CapsAssumption, BoundsTypeOK, Start, bounds
<1>5. PastTypeOK'
  BY DEF PastTypeOK, ServerTypeOK, ProcessTypeOK, Start, past, Handling
<1> QED
  BY <1>1, <1>2, <1>3, <1>4, <1>5

\* Load keeps the types.
LEMMA LoadType ==
    ASSUME TypeOK, Load
    PROVE  TypeOK'
<1> USE DEF TypeOK
<1>1. StoreTypeOK'
  BY UpdatesAssumption DEF UpdatesAssumption, StoreTypeOK, ServerTypeOK, ProcessTypeOK, Load, Stages, store, bounds
<1>2. ServerTypeOK'
  BY DEF ServerTypeOK, Load, server, process, StoreTypeOK, ProcessTypeOK
<1>3. ProcessTypeOK'
  BY UpdatesAssumption DEF UpdatesAssumption, ProcessTypeOK, ServerTypeOK, StoreTypeOK, Load, process, server, Steps, Handling
<1>4. BoundsTypeOK'
  BY CommandType, CapsAssumption DEF CapsAssumption, BoundsTypeOK, Load, bounds
<1>5. PastTypeOK'
  BY DEF PastTypeOK, ServerTypeOK, ProcessTypeOK, Load, past, Handling
<1> QED
  BY <1>1, <1>2, <1>3, <1>4, <1>5

\* Connect keeps the types.
LEMMA ConnectType ==
    ASSUME TypeOK, Connect
    PROVE  TypeOK'
<1> USE DEF TypeOK
<1>1. StoreTypeOK'
  BY UpdatesAssumption DEF UpdatesAssumption, StoreTypeOK, ServerTypeOK, ProcessTypeOK, Connect, Stages, store, bounds
<1>2. ServerTypeOK'
  BY DEF ServerTypeOK, Connect, server, process, StoreTypeOK, ProcessTypeOK
<1>3. ProcessTypeOK'
  BY UpdatesAssumption DEF UpdatesAssumption, ProcessTypeOK, ServerTypeOK, StoreTypeOK, Connect, process, server, Steps, Handling
<1>4. BoundsTypeOK'
  BY CommandType, CapsAssumption DEF CapsAssumption, BoundsTypeOK, Connect, bounds
<1>5. PastTypeOK'
  BY DEF PastTypeOK, ServerTypeOK, ProcessTypeOK, Connect, past, Handling
<1> QED
  BY <1>1, <1>2, <1>3, <1>4, <1>5

\* Abandon keeps the types.
LEMMA AbandonType ==
    ASSUME TypeOK, Abandon
    PROVE  TypeOK'
<1> USE DEF TypeOK
<1>1. StoreTypeOK'
  BY UpdatesAssumption DEF UpdatesAssumption, StoreTypeOK, ServerTypeOK, ProcessTypeOK, Abandon, CheckedSteps, Stages, store, bounds
<1>2. ServerTypeOK'
  BY DEF ServerTypeOK, Abandon, CheckedSteps, server, process, StoreTypeOK, ProcessTypeOK
<1>3. ProcessTypeOK'
  BY UpdatesAssumption DEF UpdatesAssumption, ProcessTypeOK, ServerTypeOK, StoreTypeOK, Abandon, CheckedSteps, process, server, Steps, Handling
<1>4. BoundsTypeOK'
  BY CommandType, CapsAssumption DEF CapsAssumption, BoundsTypeOK, Abandon, CheckedSteps, bounds
<1>5. PastTypeOK'
  BY DEF PastTypeOK, ServerTypeOK, ProcessTypeOK, Abandon, CheckedSteps, past, Handling
<1> QED
  BY <1>1, <1>2, <1>3, <1>4, <1>5

\* GetUpdates keeps the types.
LEMMA GetUpdatesType ==
    ASSUME TypeOK, GetUpdates
    PROVE  TypeOK'
<1> USE DEF TypeOK
<1>1. StoreTypeOK'
  BY UpdatesAssumption DEF UpdatesAssumption, StoreTypeOK, ServerTypeOK, ProcessTypeOK, GetUpdates, Checked, Stages, store, bounds
<1>2. ServerTypeOK'
  BY DEF ServerTypeOK, GetUpdates, Checked, server, process, StoreTypeOK, ProcessTypeOK
<1>3. ProcessTypeOK'
  BY UpdatesAssumption DEF UpdatesAssumption, ProcessTypeOK, ServerTypeOK, StoreTypeOK, GetUpdates, Checked, process, server, Steps, Handling
<1>4. BoundsTypeOK'
  BY CommandType, CapsAssumption DEF CapsAssumption, BoundsTypeOK, GetUpdates, Checked, bounds
<1>5. PastTypeOK'
  BY DEF PastTypeOK, ServerTypeOK, ProcessTypeOK, GetUpdates, Checked, past, Handling
<1> QED
  BY <1>1, <1>2, <1>3, <1>4, <1>5

\* Observe keeps the types.
LEMMA ObserveType ==
    ASSUME TypeOK, Observe
    PROVE  TypeOK'
<1> USE DEF TypeOK
<1>1. StoreTypeOK'
  BY UpdatesAssumption DEF UpdatesAssumption, StoreTypeOK, ServerTypeOK, ProcessTypeOK, Observe, Checked, Retry, Stages, store, bounds
<1>2. ServerTypeOK'
  BY DEF ServerTypeOK, Observe, Checked, Retry, server, process, StoreTypeOK, ProcessTypeOK
<1>3. ProcessTypeOK'
  BY UpdatesAssumption DEF UpdatesAssumption, ProcessTypeOK, ServerTypeOK, StoreTypeOK, Observe, Checked, Retry, process, server, Steps, Handling
<1>4. BoundsTypeOK'
  BY CommandType, CapsAssumption DEF CapsAssumption, BoundsTypeOK, Observe, Checked, Retry, bounds
<1>5. PastTypeOK'
  BY DEF PastTypeOK, ServerTypeOK, ProcessTypeOK, Observe, Checked, Retry, past, Handling
<1> QED
  BY <1>1, <1>2, <1>3, <1>4, <1>5

\* LogEvent keeps the types.
LEMMA LogEventType ==
    ASSUME TypeOK, LogEvent
    PROVE  TypeOK'
<1> USE DEF TypeOK
<1>1. StoreTypeOK'
  <2>1. pc \in Handling
    BY DEF LogEvent, Checked, Handling, Steps
  <2>2. cur \in Updates /\ cur \in Nat \ {0}
    BY <2>1, CurIsUpdate
  <2> QED
    BY <2>2 DEF StoreTypeOK, LogEvent
<1>2. ServerTypeOK'
  BY DEF ServerTypeOK, LogEvent, Checked, Retry, server, process, StoreTypeOK, ProcessTypeOK
<1>3. ProcessTypeOK'
  BY UpdatesAssumption DEF UpdatesAssumption, ProcessTypeOK, ServerTypeOK, StoreTypeOK, LogEvent, Checked, Retry, process, server, Steps, Handling
<1>4. BoundsTypeOK'
  BY CommandType, CapsAssumption DEF CapsAssumption, BoundsTypeOK, LogEvent, Checked, Retry, bounds
<1>5. PastTypeOK'
  BY DEF PastTypeOK, ServerTypeOK, ProcessTypeOK, LogEvent, Checked, Retry, past, Handling
<1> QED
  BY <1>1, <1>2, <1>3, <1>4, <1>5

\* SetOffset keeps the types.
LEMMA SetOffsetType ==
    ASSUME TypeOK, SetOffset
    PROVE  TypeOK'
<1> USE DEF TypeOK
<1>1. StoreTypeOK'
  <2>1. pc \in Handling
    BY DEF SetOffset, Checked, Handling, Steps
  <2>2. cur \in Updates /\ cur \in Nat \ {0}
    BY <2>1, CurIsUpdate
  <2>3. cur + 1 \in Nat
    BY <2>2
  <2> QED
    BY <2>3 DEF StoreTypeOK, SetOffset
<1>2. ServerTypeOK'
  BY DEF ServerTypeOK, SetOffset, Checked, Retry, server, process, StoreTypeOK, ProcessTypeOK
<1>3. ProcessTypeOK'
  BY UpdatesAssumption DEF UpdatesAssumption, ProcessTypeOK, ServerTypeOK, StoreTypeOK, SetOffset, Checked, Retry, process, server, Steps, Handling
<1>4. BoundsTypeOK'
  BY CommandType, CapsAssumption DEF CapsAssumption, BoundsTypeOK, SetOffset, Checked, Retry, bounds
<1>5. PastTypeOK'
  BY DEF PastTypeOK, ServerTypeOK, ProcessTypeOK, SetOffset, Checked, Retry, past, Handling
<1> QED
  BY <1>1, <1>2, <1>3, <1>4, <1>5

\* Advance keeps the types.
LEMMA AdvanceType ==
    ASSUME TypeOK, Advance
    PROVE  TypeOK'
<1> USE DEF TypeOK
<1>1. StoreTypeOK'
  BY UpdatesAssumption DEF UpdatesAssumption, StoreTypeOK, ServerTypeOK, ProcessTypeOK, Advance, Checked, Stages, store, bounds
<1>2. ServerTypeOK'
  BY DEF ServerTypeOK, Advance, Checked, server, process, StoreTypeOK, ProcessTypeOK
<1>3. ProcessTypeOK'
  BY UpdatesAssumption DEF UpdatesAssumption, ProcessTypeOK, ServerTypeOK, StoreTypeOK, Advance, Checked, process, server, Steps, Handling
<1>4. BoundsTypeOK'
  BY CommandType, CapsAssumption DEF CapsAssumption, BoundsTypeOK, Advance, Checked, bounds
<1>5. PastTypeOK'
  BY DEF PastTypeOK, ServerTypeOK, ProcessTypeOK, Advance, Checked, past, Handling
<1> QED
  BY <1>1, <1>2, <1>3, <1>4, <1>5

\* SubmitStats keeps the types.
LEMMA SubmitStatsType ==
    ASSUME TypeOK, SubmitStats
    PROVE  TypeOK'
<1> USE DEF TypeOK
<1>1. StoreTypeOK'
  <2>1. pc \in Handling
    BY DEF SubmitStats, Handling, Steps
  <2>2. cur \in Updates /\ cur \in Nat \ {0}
    BY <2>1, CurIsUpdate
  <2>3. queries[cur] + 1 \in Nat
    BY <2>2 DEF StoreTypeOK
  <2> QED
    BY <2>2, <2>3 DEF StoreTypeOK, SubmitStats, Stages
<1>2. ServerTypeOK'
  BY DEF ServerTypeOK, SubmitStats, SubmitFailed, server, process, StoreTypeOK, ProcessTypeOK
<1>3. ProcessTypeOK'
  BY UpdatesAssumption DEF UpdatesAssumption, ProcessTypeOK, ServerTypeOK, StoreTypeOK, SubmitStats, SubmitFailed, process, server, Steps, Handling
<1>4. BoundsTypeOK'
  BY CommandType, CapsAssumption DEF CapsAssumption, BoundsTypeOK, SubmitStats, SubmitFailed, bounds
<1>5. PastTypeOK'
  BY DEF PastTypeOK, ServerTypeOK, ProcessTypeOK, SubmitStats, SubmitFailed, past, Handling
<1> QED
  BY <1>1, <1>2, <1>3, <1>4, <1>5

\* EnqueueTelegram keeps the types.
LEMMA EnqueueTelegramType ==
    ASSUME TypeOK, EnqueueTelegram
    PROVE  TypeOK'
<1> USE DEF TypeOK
<1>1. StoreTypeOK'
  <2>1. pc \in Handling
    BY DEF EnqueueTelegram, Handling, Steps
  <2>2. cur \in Updates /\ cur \in Nat \ {0}
    BY <2>1, CurIsUpdate
  <2>3. Append(pushed, cur) \in Seq(Updates)
    BY <2>2, AppendProperties DEF StoreTypeOK
  <2> QED
    BY <2>2, <2>3 DEF StoreTypeOK, EnqueueTelegram, Stages, StageAfterPush
<1>2. ServerTypeOK'
  BY DEF ServerTypeOK, EnqueueTelegram, SubmitFailed, StageAfterPush, server, process, StoreTypeOK, ProcessTypeOK
<1>3. ProcessTypeOK'
  BY UpdatesAssumption DEF UpdatesAssumption, ProcessTypeOK, ServerTypeOK, StoreTypeOK, EnqueueTelegram, SubmitFailed, StageAfterPush, process, server, Steps, Handling
<1>4. BoundsTypeOK'
  BY CommandType, CapsAssumption DEF CapsAssumption, BoundsTypeOK, EnqueueTelegram, SubmitFailed, StageAfterPush, bounds
<1>5. PastTypeOK'
  BY DEF PastTypeOK, ServerTypeOK, ProcessTypeOK, EnqueueTelegram, SubmitFailed, StageAfterPush, past, Handling
<1> QED
  BY <1>1, <1>2, <1>3, <1>4, <1>5

\* Complete keeps the types.
LEMMA CompleteType ==
    ASSUME TypeOK, Complete
    PROVE  TypeOK'
<1> USE DEF TypeOK
<1>1. StoreTypeOK'
  BY UpdatesAssumption DEF UpdatesAssumption, StoreTypeOK, ServerTypeOK, ProcessTypeOK, Complete, SubmitFailed, Stages, store, bounds
<1>2. ServerTypeOK'
  BY DEF ServerTypeOK, Complete, SubmitFailed, server, process, StoreTypeOK, ProcessTypeOK
<1>3. ProcessTypeOK'
  BY UpdatesAssumption DEF UpdatesAssumption, ProcessTypeOK, ServerTypeOK, StoreTypeOK, Complete, SubmitFailed, process, server, Steps, Handling
<1>4. BoundsTypeOK'
  BY CommandType, CapsAssumption DEF CapsAssumption, BoundsTypeOK, Complete, SubmitFailed, bounds
<1>5. PastTypeOK'
  BY DEF PastTypeOK, ServerTypeOK, ProcessTypeOK, Complete, SubmitFailed, past, Handling
<1> QED
  BY <1>1, <1>2, <1>3, <1>4, <1>5

\* Refuse keeps the types.
LEMMA RefuseType ==
    ASSUME TypeOK, Refuse
    PROVE  TypeOK'
<1> USE DEF TypeOK
<1>1. StoreTypeOK'
  BY UpdatesAssumption DEF UpdatesAssumption, StoreTypeOK, ServerTypeOK, ProcessTypeOK, Refuse, Checked, Retry, Stages, store, bounds
<1>2. ServerTypeOK'
  BY DEF ServerTypeOK, Refuse, Checked, Retry, server, process, StoreTypeOK, ProcessTypeOK
<1>3. ProcessTypeOK'
  BY UpdatesAssumption DEF UpdatesAssumption, ProcessTypeOK, ServerTypeOK, StoreTypeOK, Refuse, Checked, Retry, process, server, Steps, Handling
<1>4. BoundsTypeOK'
  BY CommandType, CapsAssumption DEF CapsAssumption, BoundsTypeOK, Refuse, Checked, Retry, bounds
<1>5. PastTypeOK'
  BY DEF PastTypeOK, ServerTypeOK, ProcessTypeOK, Refuse, Checked, Retry, past, Handling
<1> QED
  BY <1>1, <1>2, <1>3, <1>4, <1>5

\* Rotate keeps the types.
LEMMA RotateType ==
    ASSUME TypeOK, Rotate
    PROVE  TypeOK'
<1> USE DEF TypeOK
<1>1. StoreTypeOK'
  BY UpdatesAssumption DEF UpdatesAssumption, StoreTypeOK, ServerTypeOK, ProcessTypeOK, Rotate, Stages, store, bounds
<1>2. ServerTypeOK'
  BY DEF ServerTypeOK, Rotate, server, process, StoreTypeOK, ProcessTypeOK
<1>3. ProcessTypeOK'
  BY UpdatesAssumption DEF UpdatesAssumption, ProcessTypeOK, ServerTypeOK, StoreTypeOK, Rotate, process, server, Steps, Handling
<1>4. BoundsTypeOK'
  BY CommandType, CapsAssumption DEF CapsAssumption, BoundsTypeOK, Rotate, bounds
<1>5. PastTypeOK'
  BY DEF PastTypeOK, ServerTypeOK, ProcessTypeOK, Rotate, past, Handling
<1> QED
  BY <1>1, <1>2, <1>3, <1>4, <1>5

\* SetUsers keeps the types.
LEMMA SetUsersType ==
    ASSUME TypeOK, SetUsers
    PROVE  TypeOK'
<1> USE DEF TypeOK
<1>1. StoreTypeOK'
  BY UpdatesAssumption DEF UpdatesAssumption, StoreTypeOK, ServerTypeOK, ProcessTypeOK, SetUsers, Stages, store, bounds
<1>2. ServerTypeOK'
  BY DEF ServerTypeOK, SetUsers, server, process, StoreTypeOK, ProcessTypeOK
<1>3. ProcessTypeOK'
  BY UpdatesAssumption DEF UpdatesAssumption, ProcessTypeOK, ServerTypeOK, StoreTypeOK, SetUsers, process, server, Steps, Handling
<1>4. BoundsTypeOK'
  <2>0. /\ MaxFaults \in Nat /\ MaxListChanges \in Nat
        /\ faults \in 0..MaxFaults /\ listChanges \in 0..MaxListChanges
    BY CapsAssumption DEF CapsAssumption, BoundsTypeOK
  <2>1. faults' = faults \/ (faults < MaxFaults /\ faults' = faults + 1)
    BY DEF SetUsers
  <2>2. listChanges < MaxListChanges /\ listChanges' = listChanges + 1
    BY DEF SetUsers
  <2>3. faults' \in 0..MaxFaults /\ listChanges' \in 0..MaxListChanges
    BY <2>0, <2>1, <2>2
  <2> QED
    BY <2>3 DEF BoundsTypeOK, SetUsers
<1>5. PastTypeOK'
  BY DEF PastTypeOK, ServerTypeOK, ProcessTypeOK, SetUsers, past, Handling
<1> QED
  BY <1>1, <1>2, <1>3, <1>4, <1>5

\* Crash keeps the types.
LEMMA CrashType ==
    ASSUME TypeOK, Crash
    PROVE  TypeOK'
<1> USE DEF TypeOK
<1>1. StoreTypeOK'
  BY UpdatesAssumption DEF UpdatesAssumption, StoreTypeOK, ServerTypeOK, ProcessTypeOK, Crash, Stages, store, bounds
<1>2. ServerTypeOK'
  BY DEF ServerTypeOK, Crash, server, process, StoreTypeOK, ProcessTypeOK
<1>3. ProcessTypeOK'
  <2>1. <<>> \in Seq(Updates) /\ Len(<<>>) <= HistoryCap
    BY EmptySeq, CapsAssumption DEF CapsAssumption
  <2> QED
    BY <2>1 DEF ProcessTypeOK, Crash, Steps, Handling
<1>4. BoundsTypeOK'
  BY CommandType, CapsAssumption DEF CapsAssumption, BoundsTypeOK, Crash, bounds
<1>5. PastTypeOK'
  BY DEF PastTypeOK, ServerTypeOK, ProcessTypeOK, Crash, past, Handling
<1> QED
  BY <1>1, <1>2, <1>3, <1>4, <1>5

\* A message that enters memory keeps it typed and trimmed.
LEMMA RememberType ==
    ASSUME ProcessTypeOK, NEW u \in Updates, Remember(u)
    PROVE  memory' \in Seq(Updates) /\ Len(memory') <= HistoryCap
<1>1. Append(memory, u) \in Seq(Updates) /\ HistoryCap \in Nat
  BY AppendProperties, CapsAssumption DEF CapsAssumption, ProcessTypeOK
<1>2. /\ KeepLast(Append(memory, u), HistoryCap) \in Seq(Updates)
      /\ Len(KeepLast(Append(memory, u), HistoryCap)) <= HistoryCap
  BY <1>1, KeepLastType
<1> QED
  BY <1>2 DEF Remember, ProcessTypeOK

\* Arrive keeps the types.
LEMMA ArriveType ==
    ASSUME TypeOK, NEW u \in Updates, Arrive(u)
    PROVE  TypeOK'
BY DEF TypeOK, StoreTypeOK, ServerTypeOK, ProcessTypeOK, BoundsTypeOK, PastTypeOK, Arrive,
       store, process, bounds, past

\* LoadHistory keeps the types.
LEMMA LoadHistoryType ==
    ASSUME TypeOK, LoadHistory
    PROVE  TypeOK'
<1> USE DEF TypeOK
<1>1. /\ KeepLast(history \o memory, HistoryCap) \in Seq(Updates)
      /\ Len(KeepLast(history \o memory, HistoryCap)) <= HistoryCap
  <2>1. history \o memory \in Seq(Updates) /\ HistoryCap \in Nat
    BY ConcatProperties, CapsAssumption DEF CapsAssumption, StoreTypeOK, ProcessTypeOK
  <2> QED
    BY <2>1, KeepLastType
<1>2. StoreTypeOK' /\ ServerTypeOK' /\ PastTypeOK'
  BY DEF StoreTypeOK, ServerTypeOK, PastTypeOK, LoadHistory, store, server, past
<1>3. ProcessTypeOK'
  BY <1>1 DEF ProcessTypeOK, LoadHistory, server
<1>4. BoundsTypeOK'
  BY CommandType DEF LoadHistory
<1> QED
  BY <1>2, <1>3, <1>4

\* NextUpdate keeps the types.
LEMMA NextUpdateType ==
    ASSUME TypeOK, NextUpdate
    PROVE  TypeOK'
<1> USE DEF TypeOK
<1>1. batch # {} => Min(batch) \in batch /\ Min(batch) \in arrived /\ Min(batch) \in Nat \ {0}
  <2>1. batch \subseteq arrived /\ batch \subseteq Nat \ {0} /\ batch \subseteq Nat
    BY UpdatesAssumption DEF UpdatesAssumption, ProcessTypeOK, ServerTypeOK
  <2> QED
    BY <2>1, MinExists
<1>2. StoreTypeOK' /\ ServerTypeOK' /\ BoundsTypeOK'
  BY DEF StoreTypeOK, ServerTypeOK, BoundsTypeOK, NextUpdate, store, server, bounds
<1>3. ProcessTypeOK'
  BY <1>1 DEF ProcessTypeOK, NextUpdate, Checked, server, Steps, Handling
<1>4. PastTypeOK'
  BY <1>3 DEF ProcessTypeOK, ServerTypeOK, PastTypeOK, NextUpdate, Handling, Steps, server
<1> QED
  BY <1>2, <1>3, <1>4

\* SubmitMessage keeps the types.
LEMMA SubmitMessageType ==
    ASSUME TypeOK, SubmitMessage
    PROVE  TypeOK'
<1> USE DEF TypeOK
<1>1. cur \in Updates /\ pc = "history" /\ pc \in Handling
  <2>1. pc = "history" /\ pc \in Handling
    BY DEF SubmitMessage, Handling, Steps
  <2> QED
    BY <2>1, CurIsUpdate
<1>2. /\ Append(history, cur) \in Seq(Updates) /\ Append(appended, cur) \in Seq(Updates)
      /\ HistoryCap \in Nat
  BY <1>1, AppendProperties, CapsAssumption DEF CapsAssumption, StoreTypeOK, PastTypeOK
<1>3. /\ KeepLast(Append(history, cur), HistoryCap) \in Seq(Updates)
      /\ Len(KeepLast(Append(history, cur), HistoryCap)) <= HistoryCap
  BY <1>2, KeepLastType
<1>4. StoreTypeOK'
  BY <1>1, <1>3 DEF StoreTypeOK, SubmitMessage, Stages
<1>5. ServerTypeOK' /\ PastTypeOK'
  BY <1>2 DEF ServerTypeOK, PastTypeOK, SubmitMessage, server
<1>6. BoundsTypeOK'
  BY CommandType DEF SubmitMessage
<1>7. memory' \in Seq(Updates) /\ Len(memory') <= HistoryCap
  BY <1>1, RememberType DEF SubmitMessage, ProcessTypeOK
<1>8. ProcessTypeOK'
  BY <1>1, <1>7 DEF ProcessTypeOK, SubmitMessage, SubmitFailed, server, Steps, Handling
<1> QED
  BY <1>4, <1>5, <1>6, <1>8

\* The eviction takes completed records from the front of the index only.
LEMMA EvictedIsComplete ==
    ASSUME NEW idx \in Seq(Updates), NEW stages, NEW n, n = EvictedCount(idx, stages)
    PROVE  /\ \A u \in Range(SubSeq(idx, 1, n)) :
                u \in Updates /\ stages[u] \in {"absent", "complete"}
           /\ SubSeq(idx, n + 1, Len(idx)) \in Seq(Updates)
<1> DEFINE S == {k \in 0..Len(idx) : /\ k = 0 \/ Len(idx) - k >= IndexCap
                                     /\ \A i \in 1..k : stages[idx[i]] \in {"absent", "complete"}}
<1>1. Len(idx) \in Nat /\ S \subseteq 0..Len(idx) /\ 0 \in S
  BY LenProperties
<1>2. n \in S
  <2>1. n = Max(S)
    BY DEF EvictedCount
  <2> HIDE DEF S
  <2> QED
    BY <1>1, <2>1, MaxExists
<1>3. n \in 0..Len(idx) /\ \A i \in 1..n : stages[idx[i]] \in {"absent", "complete"}
  BY <1>2
<1>4. /\ SubSeq(idx, 1, n) \in Seq(Updates)
      /\ Len(SubSeq(idx, 1, n)) = n
      /\ \A i \in 1..n : SubSeq(idx, 1, n)[i] = idx[i]
  <2>1. 1 \in 1..(Len(idx) + 1) /\ n \in 0..Len(idx) /\ n \in (1 - 1)..Len(idx)
    BY <1>1, <1>3
  <2>2. /\ SubSeq(idx, 1, n) \in Seq(Updates)
        /\ Len(SubSeq(idx, 1, n)) = n
    BY <2>1, <1>1
  <2>3. \A i \in 1..n : SubSeq(idx, 1, n)[i] = idx[i]
    BY <2>1, <1>1
  <2> QED
    BY <2>2, <2>3
<1>5. \A u \in Range(SubSeq(idx, 1, n)) : \E i \in 1..n : u = idx[i]
  <2>1. Range(SubSeq(idx, 1, n)) = {SubSeq(idx, 1, n)[i] : i \in 1..Len(SubSeq(idx, 1, n))}
    BY <1>4, RangeEquality
  <2> QED
    BY <2>1, <1>4
<1>6. \A i \in 1..n : idx[i] \in Updates
  BY <1>1, <1>3, ElementOfSeq
<1>7. SubSeq(idx, n + 1, Len(idx)) \in Seq(Updates)
  BY <1>1, <1>3
<1> QED
  BY <1>3, <1>5, <1>6, <1>7

\* Reserve keeps the types.
LEMMA ReserveType ==
    ASSUME TypeOK, Reserve
    PROVE  TypeOK'
<1> USE DEF TypeOK
<1> DEFINE current == IF stage[cur] = "absent" THEN "reserved" ELSE stage[cur]
           stages == [stage EXCEPT ![cur] = current]
           idx == Append(index, cur)
           n == EvictedCount(idx, stages)
           kept == SubSeq(idx, n + 1, Len(idx))
<1>1. pc = "reserve" /\ pc \in Handling
  BY DEF Reserve, Checked, Handling, Steps
<1>2. cur \in Updates /\ cur \in arrived
  BY <1>1, CurIsUpdate
<1>3. current \in Stages \ {"absent"} /\ stages \in [Updates -> Stages] /\ idx \in Seq(Updates)
  BY <1>2, AppendProperties DEF StoreTypeOK, Stages
<1>4. kept \in Seq(Updates)
  <2> HIDE DEF idx, stages
  <2> QED
    BY <1>3, EvictedIsComplete
<1>5. /\ index' = kept \/ index' = index
      /\ stage' \in [Updates -> Stages]
  BY <1>3 DEF Reserve, StoreTypeOK, Stages
<1>6. StoreTypeOK'
  <2> HIDE DEF kept
  <2> QED
    BY <1>4, <1>5 DEF StoreTypeOK, Reserve
<1>7. ServerTypeOK' /\ PastTypeOK'
  BY DEF ServerTypeOK, PastTypeOK, Reserve, server, past
<1>8. BoundsTypeOK'
  BY CommandType DEF Reserve
<1>9. memory' \in Seq(Updates) /\ Len(memory') <= HistoryCap
  <2>1. Remember(cur) \/ UNCHANGED memory
    BY DEF Reserve
  <2> QED
    BY <2>1, <1>2, RememberType DEF ProcessTypeOK
<1>10. pc' = "refuse" \/ pc' = AfterReserve(current)
  BY DEF Reserve, SubmitFailed
<1>11. pc' \in Handling
  BY <1>3, <1>10 DEF AfterReserve, Handling, Steps, Stages
<1>12. ProcessTypeOK'
  BY <1>1, <1>9, <1>11 DEF ProcessTypeOK, Reserve, SubmitFailed, server, Handling
<1> QED
  BY <1>6, <1>7, <1>8, <1>12

\* Every step keeps the types.
LEMMA TypeStep ==
    ASSUME TypeOK, [Next]_vars
    PROVE  TypeOK'
<1>1. CASE Poller
  BY <1>1, StartType, LoadType, ConnectType, AbandonType, GetUpdatesType, NextUpdateType,
     ObserveType, LogEventType, SetOffsetType, AdvanceType, ReserveType, SubmitMessageType,
     SubmitStatsType, EnqueueTelegramType, CompleteType, RefuseType DEF Poller, Submit
<1>2. CASE LoadHistory \/ Rotate \/ SetUsers \/ Crash
  BY <1>2, LoadHistoryType, RotateType, SetUsersType, CrashType
<1>3. CASE \E u \in Updates : Arrive(u)
  BY <1>3, ArriveType
<1>4. CASE UNCHANGED vars
  BY <1>4 DEF vars, store, server, process, bounds, past, TypeOK, StoreTypeOK, ServerTypeOK,
              ProcessTypeOK, BoundsTypeOK, PastTypeOK
<1> QED
  BY <1>1, <1>2, <1>3, <1>4 DEF Next

\* The initial state is typed.
LEMMA TypeInit ==
    ASSUME Init
    PROVE  TypeOK
<1>1. /\ <<>> \in Seq(Updates) /\ Len(<<>>) <= HistoryCap
      /\ {MaxFaults, MaxRestarts, MaxRotations, MaxListChanges} \subseteq Nat
  BY EmptySeq, CapsAssumption DEF CapsAssumption
<1>2. StoreTypeOK /\ ServerTypeOK /\ PastTypeOK
  BY <1>1 DEF Init, StoreTypeOK, ServerTypeOK, PastTypeOK, Stages
<1>3. ProcessTypeOK
  BY <1>1 DEF Init, ProcessTypeOK, Steps, Handling
<1>4. BoundsTypeOK
  BY <1>1 DEF Init, BoundsTypeOK
<1> QED
  BY <1>2, <1>3, <1>4 DEF TypeOK

\* Every reachable state is typed, the conversation is never longer than its
\* cap in the store or in memory, and the poll goroutine has an update in hand
\* exactly in the steps that handle one.
THEOREM IngressTypeCorrect == Spec => []TypeOK
<1>1. Init => TypeOK
  BY TypeInit
<1>2. TypeOK /\ [Next]_vars => TypeOK'
  BY TypeStep
<1> QED
  BY <1>1, <1>2, PTL DEF Spec

-----------------------------------------------------------------------------
(* At most one message, query and job per update, in update order.         *)

\* An offset is a natural number, and so is an update.
LEMMA Numbers ==
    ASSUME TypeOK
    PROVE  /\ Base \in Nat /\ nextOffset \in Nat /\ offset \in Nat /\ cur \in Nat
           /\ \A v \in Updates : v \in Nat \ {0}
           /\ arrived \subseteq Updates /\ batch \subseteq arrived /\ Touched \subseteq Updates
BY UpdatesAssumption DEF UpdatesAssumption, TypeOK, StoreTypeOK, ServerTypeOK, ProcessTypeOK,
   Base, Touched

\* The update in work is not below the offset, and nothing above it or between
\* it and the offset has a trace.
LEMMA CurIsFrontier ==
    ASSUME TypeOK, Frontier, pc \in Handling
    PROVE  /\ Base = nextOffset /\ Base <= cur
           /\ \A v \in Touched : v = cur \/ (v < cur /\ v < Base)
<1>1. Base = nextOffset /\ nextOffset <= cur /\ cur \in arrived
  BY CurIsUpdate DEF Base, Handling, Frontier
<1>2. ASSUME NEW v \in Touched, v # cur
      PROVE  v < cur /\ v < Base
  <2>1. v \in arrived /\ v \in Nat /\ cur \in Nat /\ nextOffset \in Nat
    BY <1>2, Numbers DEF Frontier
  <2>2. ~(cur < v)
    <3>1. cur < v => cur < Base
      BY <1>1, <1>2 DEF Frontier
    <3> QED
      BY <1>1, <2>1, <3>1
  <2>3. v < cur
    BY <2>1, <2>2, <1>2
  <2>4. v < nextOffset
    BY <2>1, <2>3, <1>1, CurIsUpdate DEF Frontier
  <2> QED
    BY <2>3, <2>4, <1>1
<1> QED
  BY <1>1, <1>2

\* Appending what is larger than every element keeps a sequence ascending.
LEMMA AscendingAppend ==
    ASSUME NEW s \in Seq(Updates), Ascending(s), NEW x \in Updates,
           \A e \in Range(s) : e < x
    PROVE  Ascending(Append(s, x))
<1>1. /\ Len(s) \in Nat /\ DOMAIN s = 1..Len(s)
      /\ DOMAIN Append(s, x) = 1..(Len(s) + 1)
      /\ \A i \in 1..Len(s) : Append(s, x)[i] = s[i]
      /\ Append(s, x)[Len(s) + 1] = x
  BY AppendProperties
<1>2. \A i \in 1..Len(s) : s[i] \in Range(s)
  BY <1>1 DEF Range
<1> SUFFICES ASSUME NEW i \in 1..(Len(s) + 1), NEW j \in 1..(Len(s) + 1), i < j
             PROVE  Append(s, x)[i] < Append(s, x)[j]
  BY <1>1 DEF Ascending
<1>3. i \in 1..Len(s) /\ (j \in 1..Len(s) \/ j = Len(s) + 1)
  BY <1>1
<1>4. CASE j \in 1..Len(s)
  BY <1>1, <1>3, <1>4 DEF Ascending
<1>5. CASE j = Len(s) + 1
  BY <1>1, <1>2, <1>3, <1>5
<1> QED
  BY <1>3, <1>4, <1>5

\* A step that leaves the submissions alone, does not go back behind the
\* offset and has the poll goroutine where it belongs keeps the invariant.
LEMMA QuietStep ==
    ASSUME TypeOK, TypeOK', SubmissionInv,
           UNCHANGED <<stage, queries, pushed, appended, arrived>>,
           Base <= Base', nextOffset' <= offset',
           (cur # NoUpdate => nextOffset <= cur /\ \A w \in arrived : w < cur => w < nextOffset)',
           (\A u \in arrived : nextOffset <= u =>
               u \in batch \cup {cur} \/ \A b \in batch \cup {cur} : b < u)',
           (pc = "advance" => offset = cur + 1)',
           AtItsStage'
    PROVE  SubmissionInv'
<1>1. Touched' = Touched /\ Base \in Nat /\ Base' \in Nat /\ arrived \subseteq Nat /\ Updates \subseteq Nat
  <2>1. Touched' = Touched
    BY DEF Touched
  <2>2. Base' \in Nat
    BY DEF TypeOK, StoreTypeOK, ProcessTypeOK, Base
  <2> QED
    BY <2>1, <2>2, Numbers
<1>2. Frontier'
  <2>1. \A v \in Touched', w \in arrived' : w < v => w < Base'
    <3> TAKE v \in Touched', w \in arrived'
    <3>1. w < v => w < Base
      BY <1>1 DEF SubmissionInv, Frontier
    <3>2. w \in Nat
      BY <1>1
    <3> QED
      BY <1>1, <3>1, <3>2
  <2>2. (Touched \subseteq arrived)'
    BY <1>1 DEF SubmissionInv, Frontier
  <2> QED
    BY <2>1, <2>2 DEF Frontier
<1>3. StageIsTrue'
  <2> SUFFICES ASSUME NEW v \in Updates, v >= Base'
               PROVE  /\ v \in Range(pushed) <=> stage[v] \in {"job", "complete"}
                      /\ v \in Range(appended) <=> stage[v] \in {"message", "stats", "job", "complete"}
                      /\ queries[v] = 0 <=> stage[v] \notin {"stats", "job", "complete"}
    BY DEF StageIsTrue
  <2>1. v >= Base
    BY <1>1
  <2> QED
    BY <2>1 DEF SubmissionInv, StageIsTrue
<1> QED
  BY <1>2, <1>3 DEF SubmissionInv

\* Starting reads nothing.
LEMMA StartInv ==
    ASSUME TypeOK, TypeOK', SubmissionInv, Start
    PROVE  SubmissionInv'
<1>1. UNCHANGED <<stage, queries, pushed, appended, arrived>>
  BY DEF Start, store, server, past
<1>2. Base <= Base' /\ nextOffset' <= offset'
  BY Numbers, CurIsUpdate DEF Start, Base, SubmissionInv, Frontier, store, process, Handling, Steps
<1>3. (cur # NoUpdate => nextOffset <= cur /\ \A w \in arrived : w < cur => w < nextOffset)'
  BY <1>1 DEF Start, SubmissionInv, Frontier, process
<1>4. (\A u \in arrived : nextOffset <= u =>
          u \in batch \cup {cur} \/ \A b \in batch \cup {cur} : b < u)'
  BY <1>1, Numbers DEF Start, SubmissionInv, Frontier, process
<1>5. (pc = "advance" => offset = cur + 1)' /\ AtItsStage'
  BY <1>1 DEF Start, SubmissionInv, Frontier, AtItsStage, process, store
<1> QED
  BY <1>1, <1>2, <1>3, <1>4, <1>5, QuietStep

\* Polling continues from the stored offset.
LEMMA LoadInv ==
    ASSUME TypeOK, TypeOK', SubmissionInv, Load
    PROVE  SubmissionInv'
<1>1. UNCHANGED <<stage, queries, pushed, appended, arrived>>
  BY DEF Load, store, server, past
<1>2. Base <= Base' /\ nextOffset' <= offset'
  BY Numbers, CurIsUpdate DEF Load, Base, SubmissionInv, Frontier, store, process, Handling, Steps
<1>3. (cur # NoUpdate => nextOffset <= cur /\ \A w \in arrived : w < cur => w < nextOffset)'
  <2>1. pc = "load" /\ cur' = cur
    BY DEF Load
  <2> QED
    BY <2>1 DEF TypeOK, ProcessTypeOK, Handling
<1>4. (\A u \in arrived : nextOffset <= u =>
          u \in batch \cup {cur} \/ \A b \in batch \cup {cur} : b < u)'
  BY <1>1, Numbers DEF Load, SubmissionInv, Frontier, process
<1>5. (pc = "advance" => offset = cur + 1)' /\ AtItsStage'
  BY <1>1 DEF Load, SubmissionInv, Frontier, AtItsStage, process, store
<1> QED
  BY <1>1, <1>2, <1>3, <1>4, <1>5, QuietStep

\* The history in memory is not part of the invariant.
LEMMA LoadHistoryInv ==
    ASSUME TypeOK, TypeOK', SubmissionInv, LoadHistory
    PROVE  SubmissionInv'
<1>1. UNCHANGED <<stage, queries, pushed, appended, arrived>>
  BY DEF LoadHistory, store, server, past
<1>2. Base <= Base' /\ nextOffset' <= offset'
  BY Numbers, CurIsUpdate DEF LoadHistory, Base, SubmissionInv, Frontier, store, process, Handling, Steps
<1>3. (cur # NoUpdate => nextOffset <= cur /\ \A w \in arrived : w < cur => w < nextOffset)'
  BY <1>1 DEF LoadHistory, SubmissionInv, Frontier, process
<1>4. (\A u \in arrived : nextOffset <= u =>
          u \in batch \cup {cur} \/ \A b \in batch \cup {cur} : b < u)'
  BY <1>1, Numbers DEF LoadHistory, SubmissionInv, Frontier, process
<1>5. (pc = "advance" => offset = cur + 1)' /\ AtItsStage'
  BY <1>1 DEF LoadHistory, SubmissionInv, Frontier, AtItsStage, process, store
<1> QED
  BY <1>1, <1>2, <1>3, <1>4, <1>5, QuietStep

\* A new generation polls from the offset in memory.
LEMMA ConnectInv ==
    ASSUME TypeOK, TypeOK', SubmissionInv, Connect
    PROVE  SubmissionInv'
<1>1. UNCHANGED <<stage, queries, pushed, appended, arrived>>
  BY DEF Connect, store, server, past
<1>2. Base <= Base' /\ nextOffset' <= offset'
  BY Numbers, CurIsUpdate DEF Connect, Base, SubmissionInv, Frontier, store, process, Handling, Steps
<1>3. (cur # NoUpdate => nextOffset <= cur /\ \A w \in arrived : w < cur => w < nextOffset)'
  BY <1>1 DEF Connect, SubmissionInv, Frontier, process
<1>4. (\A u \in arrived : nextOffset <= u =>
          u \in batch \cup {cur} \/ \A b \in batch \cup {cur} : b < u)'
  BY <1>1, Numbers DEF Connect, SubmissionInv, Frontier, process
<1>5. (pc = "advance" => offset = cur + 1)' /\ AtItsStage'
  BY <1>1 DEF Connect, SubmissionInv, Frontier, AtItsStage, process, store
<1> QED
  BY <1>1, <1>2, <1>3, <1>4, <1>5, QuietStep

\* A cancelled generation drops its batch.
LEMMA AbandonInv ==
    ASSUME TypeOK, TypeOK', SubmissionInv, Abandon
    PROVE  SubmissionInv'
<1>1. UNCHANGED <<stage, queries, pushed, appended, arrived>>
  BY DEF Abandon, CheckedSteps, store, server, past
<1>2. Base <= Base' /\ nextOffset' <= offset'
  BY Numbers, CurIsUpdate DEF Abandon, CheckedSteps, Base, SubmissionInv, Frontier, store, process, Handling, Steps
<1>3. (cur # NoUpdate => nextOffset <= cur /\ \A w \in arrived : w < cur => w < nextOffset)'
  BY <1>1 DEF Abandon, CheckedSteps, SubmissionInv, Frontier, process
<1>4. (\A u \in arrived : nextOffset <= u =>
          u \in batch \cup {cur} \/ \A b \in batch \cup {cur} : b < u)'
  BY <1>1, Numbers DEF Abandon, CheckedSteps, SubmissionInv, Frontier, process
<1>5. (pc = "advance" => offset = cur + 1)' /\ AtItsStage'
  BY <1>1 DEF Abandon, CheckedSteps, SubmissionInv, Frontier, AtItsStage, process, store
<1> QED
  BY <1>1, <1>2, <1>3, <1>4, <1>5, QuietStep

\* The new batch holds every update that is not below the offset.
LEMMA GetUpdatesInv ==
    ASSUME TypeOK, TypeOK', SubmissionInv, GetUpdates
    PROVE  SubmissionInv'
<1>1. UNCHANGED <<stage, queries, pushed, appended, arrived>>
  BY DEF GetUpdates, Checked, store, server, past
<1>2. Base <= Base' /\ nextOffset' <= offset'
  <2>1. pc = "poll" /\ pc' \in {"poll", "next"} /\ nextOffset' = nextOffset /\ offset' = offset
    BY DEF GetUpdates, Checked, store
  <2> QED
    BY <2>1, Numbers DEF Base, SubmissionInv, Frontier
<1>3. (cur # NoUpdate => nextOffset <= cur /\ \A w \in arrived : w < cur => w < nextOffset)'
  BY <1>1 DEF GetUpdates, Checked, SubmissionInv, Frontier, process
<1>4. (\A u \in arrived : nextOffset <= u =>
          u \in batch \cup {cur} \/ \A b \in batch \cup {cur} : b < u)'
  <2>1. /\ nextOffset' = nextOffset /\ cur' = 0
        /\ batch' = {} \/ \E lowest \in {0, nextOffset} : batch' = {u \in arrived : u >= lowest}
    BY DEF GetUpdates, Checked, TypeOK, ProcessTypeOK, Handling
  <2>2. \A u \in arrived' : u \in arrived /\ u \in Nat \ {0}
    BY <1>1, Numbers
  <2>3. CASE batch' = {}
    BY <2>1, <2>2, <2>3
  <2>4. CASE \E lowest \in {0, nextOffset} : batch' = {u \in arrived : u >= lowest}
    BY <2>1, <2>2, <2>4, Numbers
  <2> QED
    BY <2>1, <2>3, <2>4
<1>5. (pc = "advance" => offset = cur + 1)' /\ AtItsStage'
  BY <1>1 DEF GetUpdates, Checked, SubmissionInv, Frontier, AtItsStage, process, store
<1> QED
  BY <1>1, <1>2, <1>3, <1>4, <1>5, QuietStep

\* The lowest update of the batch that is not discarded is the lowest of all.
LEMMA NextUpdateInv ==
    ASSUME TypeOK, TypeOK', SubmissionInv, NextUpdate
    PROVE  SubmissionInv'
<1>0. /\ batch # {} => Min(batch) \in batch /\ \A b \in batch : Min(batch) <= b
      /\ cur = 0 /\ pc = "next"
  <2>1. batch \subseteq Nat
    BY Numbers
  <2> QED
    BY <2>1, MinExists DEF NextUpdate, Checked, TypeOK, ProcessTypeOK, Handling
<1>1. UNCHANGED <<stage, queries, pushed, appended, arrived>>
  BY DEF NextUpdate, Checked, store, server, past
<1>2. Base <= Base' /\ nextOffset' <= offset'
  BY Numbers, CurIsUpdate DEF NextUpdate, Checked, Base, SubmissionInv, Frontier, store, process, Handling, Steps
<1>3. (cur # NoUpdate => nextOffset <= cur /\ \A w \in arrived : w < cur => w < nextOffset)'
  <2>1. /\ nextOffset' = nextOffset
        /\ cur' # 0 => batch # {} /\ cur' = Min(batch) /\ ~(cur' < nextOffset)
    BY <1>0 DEF NextUpdate, Stale
  <2> SUFFICES ASSUME cur' # 0
               PROVE  nextOffset <= cur' /\ \A w \in arrived : w < cur' => w < nextOffset
    BY <1>1, <2>1
  <2>2. cur' \in batch /\ cur' \in Nat /\ nextOffset <= cur'
    BY <1>0, <2>1, Numbers
  <2>3. ASSUME NEW w \in arrived, w < cur', ~(w < nextOffset)
        PROVE  FALSE
    <3>1. w \in Nat \ {0} /\ nextOffset <= w
      BY <2>3, Numbers
    <3>2. w \in batch \/ cur' < w
      BY <1>0, <2>2, <3>1 DEF SubmissionInv, Frontier
    <3>3. w \in batch => cur' <= w
      BY <1>0, <2>1
    <3> QED
      BY <2>2, <2>3, <3>1, <3>2, <3>3
  <2> QED
    BY <2>2, <2>3
<1>4. (\A u \in arrived : nextOffset <= u =>
          u \in batch \cup {cur} \/ \A b \in batch \cup {cur} : b < u)'
  <2> SUFFICES ASSUME NEW u \in arrived, nextOffset <= u
               PROVE  u \in batch' \cup {cur'} \/ \A b \in batch' \cup {cur'} : b < u
    BY <1>1 DEF NextUpdate
  <2>1. u \in batch \/ \A b \in batch \cup {0} : b < u
    BY <1>0, Numbers DEF SubmissionInv, Frontier
  <2>2. \/ UNCHANGED <<batch, cur>>
        \/ /\ batch # {} /\ batch' = batch \ {Min(batch)}
           /\ cur' = 0 /\ Min(batch) < nextOffset
        \/ batch # {} /\ batch' = batch \ {Min(batch)} /\ cur' = Min(batch)
    BY <1>0 DEF NextUpdate, Stale
  <2>3. u \in Nat /\ nextOffset \in Nat /\ 0 < u /\ batch \subseteq Nat
    BY Numbers
  <2>4. CASE UNCHANGED <<batch, cur>>
    BY <1>0, <2>1, <2>3, <2>4
  <2>5. CASE /\ batch # {} /\ batch' = batch \ {Min(batch)}
             /\ cur' = 0 /\ Min(batch) < nextOffset
    <3>1. u # Min(batch)
      BY <1>0, <2>3, <2>5
    <3> QED
      BY <2>1, <2>3, <2>5, <3>1
  <2>6. CASE batch # {} /\ batch' = batch \ {Min(batch)} /\ cur' = Min(batch)
    BY <1>0, <2>1, <2>3, <2>6
  <2> QED
    BY <2>2, <2>4, <2>5, <2>6
<1>5. (pc = "advance" => offset = cur + 1)' /\ AtItsStage'
  BY <1>1 DEF NextUpdate, Checked, SubmissionInv, Frontier, AtItsStage, process, store
<1> QED
  BY <1>1, <1>2, <1>3, <1>4, <1>5, QuietStep

\* Observing a chat writes nothing of the submission.
LEMMA ObserveInv ==
    ASSUME TypeOK, TypeOK', SubmissionInv, Observe
    PROVE  SubmissionInv'
<1>1. UNCHANGED <<stage, queries, pushed, appended, arrived>>
  BY DEF Observe, Checked, Retry, store, server, past
<1>2. Base <= Base' /\ nextOffset' <= offset'
  BY Numbers, CurIsUpdate DEF Observe, Checked, Retry, Base, SubmissionInv, Frontier, store, process, Handling, Steps
<1>3. (cur # NoUpdate => nextOffset <= cur /\ \A w \in arrived : w < cur => w < nextOffset)'
  BY <1>1 DEF Observe, Checked, Retry, SubmissionInv, Frontier, process
<1>4. (\A u \in arrived : nextOffset <= u =>
          u \in batch \cup {cur} \/ \A b \in batch \cup {cur} : b < u)'
  BY <1>1, Numbers DEF Observe, Checked, Retry, SubmissionInv, Frontier, process
<1>5. (pc = "advance" => offset = cur + 1)' /\ AtItsStage'
  BY <1>1 DEF Observe, Checked, Retry, SubmissionInv, Frontier, AtItsStage, process, store
<1> QED
  BY <1>1, <1>2, <1>3, <1>4, <1>5, QuietStep

\* The event log is not part of the submission.
LEMMA LogEventInv ==
    ASSUME TypeOK, TypeOK', SubmissionInv, LogEvent
    PROVE  SubmissionInv'
<1>1. UNCHANGED <<stage, queries, pushed, appended, arrived>>
  BY DEF LogEvent, Checked, Retry, store, server, past
<1>2. Base <= Base' /\ nextOffset' <= offset'
  <2>1. pc = "event" /\ pc' \in {"offset", "poll"} /\ nextOffset' = nextOffset /\ offset' = offset
    BY DEF LogEvent, Checked, Retry, store
  <2> QED
    BY <2>1, Numbers DEF Base, SubmissionInv, Frontier
<1>3. (cur # NoUpdate => nextOffset <= cur /\ \A w \in arrived : w < cur => w < nextOffset)'
  BY <1>1 DEF LogEvent, Checked, Retry, SubmissionInv, Frontier, process
<1>4. (\A u \in arrived : nextOffset <= u =>
          u \in batch \cup {cur} \/ \A b \in batch \cup {cur} : b < u)'
  <2>1. nextOffset' = nextOffset /\ ((batch' = batch /\ cur' = cur) \/ (batch' = {} /\ cur' = 0))
    BY DEF LogEvent, Checked, Retry
  <2>2. \A u \in arrived' : u \in arrived /\ u \in Nat \ {0}
    BY <1>1, Numbers
  <2>3. CASE batch' = batch /\ cur' = cur
    BY <2>1, <2>2, <2>3 DEF SubmissionInv, Frontier
  <2>4. CASE batch' = {} /\ cur' = 0
    BY <2>2, <2>4
  <2> QED
    BY <2>1, <2>3, <2>4
<1>5. (pc = "advance" => offset = cur + 1)' /\ AtItsStage'
  BY <1>1 DEF LogEvent, Checked, Retry, SubmissionInv, Frontier, AtItsStage, process, store
<1> QED
  BY <1>1, <1>2, <1>3, <1>4, <1>5, QuietStep

\* The stored offset moves past the update in work.
LEMMA SetOffsetInv ==
    ASSUME TypeOK, TypeOK', SubmissionInv, SetOffset
    PROVE  SubmissionInv'
<1>1. UNCHANGED <<stage, queries, pushed, appended, arrived>>
  BY DEF SetOffset, Checked, Retry, store, server, past
<1>2. Base <= Base' /\ nextOffset' <= offset'
  <2>1. /\ pc = "offset" /\ pc \in Handling /\ pc' \in {"advance", "poll"}
        /\ nextOffset' = nextOffset /\ (offset' = offset \/ offset' = cur + 1)
    BY DEF SetOffset, Checked, Retry, Handling, Steps
  <2>2. nextOffset <= cur /\ nextOffset <= offset
    BY <2>1, CurIsUpdate DEF SubmissionInv, Frontier
  <2> QED
    BY <2>1, <2>2, Numbers DEF Base
<1>3. (cur # NoUpdate => nextOffset <= cur /\ \A w \in arrived : w < cur => w < nextOffset)'
  BY <1>1 DEF SetOffset, Checked, Retry, SubmissionInv, Frontier, process
<1>4. (\A u \in arrived : nextOffset <= u =>
          u \in batch \cup {cur} \/ \A b \in batch \cup {cur} : b < u)'
  <2>1. nextOffset' = nextOffset /\ ((batch' = batch /\ cur' = cur) \/ (batch' = {} /\ cur' = 0))
    BY DEF SetOffset, Checked, Retry
  <2>2. \A u \in arrived' : u \in arrived /\ u \in Nat \ {0}
    BY <1>1, Numbers
  <2>3. CASE batch' = batch /\ cur' = cur
    BY <2>1, <2>2, <2>3 DEF SubmissionInv, Frontier
  <2>4. CASE batch' = {} /\ cur' = 0
    BY <2>2, <2>4
  <2> QED
    BY <2>1, <2>3, <2>4
<1>5. (pc = "advance" => offset = cur + 1)' /\ AtItsStage'
  BY <1>1 DEF SetOffset, Checked, Retry, SubmissionInv, Frontier, AtItsStage, process, store
<1> QED
  BY <1>1, <1>2, <1>3, <1>4, <1>5, QuietStep

\* Then the offset in memory follows.
LEMMA AdvanceInv ==
    ASSUME TypeOK, TypeOK', SubmissionInv, Advance
    PROVE  SubmissionInv'
<1>1. UNCHANGED <<stage, queries, pushed, appended, arrived>>
  BY DEF Advance, Checked, store, server, past
<1>2. Base <= Base' /\ nextOffset' <= offset'
  BY Numbers, CurIsUpdate DEF Advance, Checked, Base, SubmissionInv, Frontier, store, process, Handling, Steps
<1>3. (cur # NoUpdate => nextOffset <= cur /\ \A w \in arrived : w < cur => w < nextOffset)'
  BY <1>1 DEF Advance, Checked, SubmissionInv, Frontier, process
<1>4. (\A u \in arrived : nextOffset <= u =>
          u \in batch \cup {cur} \/ \A b \in batch \cup {cur} : b < u)'
  BY <1>1, Numbers DEF Advance, Checked, SubmissionInv, Frontier, process
<1>5. (pc = "advance" => offset = cur + 1)' /\ AtItsStage'
  BY <1>1 DEF Advance, Checked, SubmissionInv, Frontier, AtItsStage, process, store
<1> QED
  BY <1>1, <1>2, <1>3, <1>4, <1>5, QuietStep

\* A refused update is polled again.
LEMMA RefuseInv ==
    ASSUME TypeOK, TypeOK', SubmissionInv, Refuse
    PROVE  SubmissionInv'
<1>1. UNCHANGED <<stage, queries, pushed, appended, arrived>>
  BY DEF Refuse, Checked, Retry, store, server, past
<1>2. Base <= Base' /\ nextOffset' <= offset'
  BY Numbers, CurIsUpdate DEF Refuse, Checked, Retry, Base, SubmissionInv, Frontier, store, process, Handling, Steps
<1>3. (cur # NoUpdate => nextOffset <= cur /\ \A w \in arrived : w < cur => w < nextOffset)'
  BY <1>1 DEF Refuse, Checked, Retry, SubmissionInv, Frontier, process
<1>4. (\A u \in arrived : nextOffset <= u =>
          u \in batch \cup {cur} \/ \A b \in batch \cup {cur} : b < u)'
  BY <1>1, Numbers DEF Refuse, Checked, Retry, SubmissionInv, Frontier, process
<1>5. (pc = "advance" => offset = cur + 1)' /\ AtItsStage'
  BY <1>1 DEF Refuse, Checked, Retry, SubmissionInv, Frontier, AtItsStage, process, store
<1> QED
  BY <1>1, <1>2, <1>3, <1>4, <1>5, QuietStep

\* A rotation only sets a flag.
LEMMA RotateInv ==
    ASSUME TypeOK, TypeOK', SubmissionInv, Rotate
    PROVE  SubmissionInv'
<1>1. UNCHANGED <<stage, queries, pushed, appended, arrived>>
  BY DEF Rotate, store, server, past
<1>2. Base <= Base' /\ nextOffset' <= offset'
  BY Numbers, CurIsUpdate DEF Rotate, Base, SubmissionInv, Frontier, store, process, Handling, Steps
<1>3. (cur # NoUpdate => nextOffset <= cur /\ \A w \in arrived : w < cur => w < nextOffset)'
  BY <1>1 DEF Rotate, SubmissionInv, Frontier, process
<1>4. (\A u \in arrived : nextOffset <= u =>
          u \in batch \cup {cur} \/ \A b \in batch \cup {cur} : b < u)'
  BY <1>1, Numbers DEF Rotate, SubmissionInv, Frontier, process
<1>5. (pc = "advance" => offset = cur + 1)' /\ AtItsStage'
  BY <1>1 DEF Rotate, SubmissionInv, Frontier, AtItsStage, process, store
<1> QED
  BY <1>1, <1>2, <1>3, <1>4, <1>5, QuietStep

\* The allow-list is not part of the submission.
LEMMA SetUsersInv ==
    ASSUME TypeOK, TypeOK', SubmissionInv, SetUsers
    PROVE  SubmissionInv'
<1>1. UNCHANGED <<stage, queries, pushed, appended, arrived>>
  BY DEF SetUsers, store, server, past
<1>2. Base <= Base' /\ nextOffset' <= offset'
  <2>1. pc' = pc /\ nextOffset' = nextOffset /\ offset' = offset
    BY DEF SetUsers
  <2> QED
    BY <2>1, Numbers DEF Base, SubmissionInv, Frontier
<1>3. (cur # NoUpdate => nextOffset <= cur /\ \A w \in arrived : w < cur => w < nextOffset)'
  BY <1>1 DEF SetUsers, SubmissionInv, Frontier, process
<1>4. (\A u \in arrived : nextOffset <= u =>
          u \in batch \cup {cur} \/ \A b \in batch \cup {cur} : b < u)'
  BY <1>1, Numbers DEF SetUsers, SubmissionInv, Frontier, process
<1>5. (pc = "advance" => offset = cur + 1)' /\ AtItsStage'
  BY <1>1 DEF SetUsers, SubmissionInv, Frontier, AtItsStage, process, store
<1> QED
  BY <1>1, <1>2, <1>3, <1>4, <1>5, QuietStep

\* A crash forgets the batch and the offset in memory.
LEMMA CrashInv ==
    ASSUME TypeOK, TypeOK', SubmissionInv, Crash
    PROVE  SubmissionInv'
<1>1. UNCHANGED <<stage, queries, pushed, appended, arrived>>
  BY DEF Crash, store, server, past
<1>2. Base <= Base' /\ nextOffset' <= offset'
  BY Numbers, CurIsUpdate DEF Crash, Base, SubmissionInv, Frontier, store, process, Handling, Steps
<1>3. (cur # NoUpdate => nextOffset <= cur /\ \A w \in arrived : w < cur => w < nextOffset)'
  BY <1>1 DEF Crash, SubmissionInv, Frontier, process
<1>4. (\A u \in arrived : nextOffset <= u =>
          u \in batch \cup {cur} \/ \A b \in batch \cup {cur} : b < u)'
  BY <1>1, Numbers DEF Crash, SubmissionInv, Frontier, process
<1>5. (pc = "advance" => offset = cur + 1)' /\ AtItsStage'
  BY <1>1 DEF Crash, SubmissionInv, Frontier, AtItsStage, process, store
<1> QED
  BY <1>1, <1>2, <1>3, <1>4, <1>5, QuietStep

\* A new update is above everything that has a trace.
LEMMA ArriveInv ==
    ASSUME TypeOK, TypeOK', SubmissionInv, NEW x \in Updates, Arrive(x)
    PROVE  SubmissionInv'
<1>1. /\ UNCHANGED <<stage, queries, pushed, appended, offset, nextOffset, pc, batch, cur>>
      /\ arrived' = arrived \cup {x} /\ \A w \in arrived : w < x
  BY DEF Arrive, store, process, past
<1>2. Base' = Base /\ Touched' = Touched
  BY <1>1 DEF Base, Touched
<1>3. /\ arrived \subseteq Nat \ {0} /\ x \in Nat \ {0} /\ batch \subseteq arrived
      /\ cur \in arrived \cup {0}
  BY Numbers, UpdatesAssumption DEF UpdatesAssumption, TypeOK, ProcessTypeOK
<1>4. \A v \in arrived : ~(x < v)
  BY <1>1, <1>3
<1>5. Touched \subseteq arrived /\ nextOffset <= offset
  BY DEF SubmissionInv, Frontier
<1>6. \A v \in Touched', w \in arrived' : w < v => w < Base'
  BY <1>1, <1>2, <1>4, <1>5 DEF SubmissionInv, Frontier
<1>7. (cur # NoUpdate => nextOffset <= cur /\ \A w \in arrived : w < cur => w < nextOffset)'
  BY <1>1, <1>3, <1>4 DEF SubmissionInv, Frontier
<1>8. (\A u \in arrived : nextOffset <= u =>
          u \in batch \cup {cur} \/ \A b \in batch \cup {cur} : b < u)'
  <2>1. \A b \in batch \cup {cur} : b < x
    BY <1>1, <1>3
  <2> QED
    BY <1>1, <2>1 DEF SubmissionInv, Frontier
<1>9. Frontier'
  BY <1>1, <1>2, <1>5, <1>6, <1>7, <1>8 DEF SubmissionInv, Frontier
<1> QED
  BY <1>1, <1>2, <1>9 DEF SubmissionInv, StageIsTrue, AtItsStage

\* A step of the submission leaves a trace of the update in work only.
LEMMA SubmitFrontier ==
    ASSUME TypeOK, Frontier, pc \in Handling, pc' \in Handling, pc' # "advance",
           UNCHANGED <<arrived, nextOffset, offset, cur>>, batch' = batch,
           Touched' \subseteq Touched \cup {cur}
    PROVE  Frontier' /\ Base' = Base
<1>1. Base' = Base /\ Base = nextOffset
  BY DEF Base, Handling
<1>2. cur \in arrived /\ \A w \in arrived : w < cur => w < nextOffset
  BY CurIsUpdate DEF Frontier
<1>3. \A v \in Touched', w \in arrived' : w < v => w < Base'
  BY <1>1, <1>2 DEF Frontier
<1>4. Touched' \subseteq arrived'
  BY <1>2 DEF Frontier
<1> QED
  BY <1>1, <1>3, <1>4 DEF Frontier

\* Reserve creates or finds the record, and evicts only what is below the offset.
LEMMA ReserveInv ==
    ASSUME TypeOK, TypeOK', SubmissionInv, Reserve
    PROVE  SubmissionInv'
<1> DEFINE current == IF stage[cur] = "absent" THEN "reserved" ELSE stage[cur]
           stages == [stage EXCEPT ![cur] = current]
           idx == Append(index, cur)
           n == EvictedCount(idx, stages)
           evicted == Range(SubSeq(idx, 1, n))
<1>1. pc = "reserve" /\ pc \in Handling
  BY DEF Reserve, Checked, Handling, Steps
<1>2. /\ cur \in Updates /\ cur \in arrived /\ Base = nextOffset /\ Base <= cur
      /\ \A v \in Touched : v = cur \/ (v < cur /\ v < Base)
  BY <1>1, CurIsUpdate, CurIsFrontier DEF SubmissionInv
<1>3. /\ stage \in [Updates -> Stages] /\ stages \in [Updates -> Stages] /\ idx \in Seq(Updates)
      /\ stages[cur] = current /\ \A v \in Updates : v # cur => stages[v] = stage[v]
  BY <1>2, AppendProperties DEF TypeOK, StoreTypeOK, Stages
<1>4. \A u \in evicted : u \in Updates /\ stages[u] \in {"absent", "complete"}
  <2> HIDE DEF idx, stages
  <2> QED
    BY <1>3, EvictedIsComplete
<1>5. \/ UNCHANGED stage
      \/ /\ stage[cur] = "absent"
         /\ stage' = [u \in Updates |-> IF u \in evicted THEN "absent" ELSE stages[u]]
  BY DEF Reserve
<1>6. /\ UNCHANGED <<arrived, nextOffset, offset, cur, queries, pushed, appended>>
      /\ batch' = batch
      /\ \/ pc' = "refuse"
         \/ /\ pc' = AfterReserve(current)
            /\ IF stage[cur] = "absent"
               THEN stage' = [u \in Updates |-> IF u \in evicted THEN "absent" ELSE stages[u]]
               ELSE UNCHANGED stage
  BY <1>5 DEF Reserve, SubmitFailed, server, past
<1>7. current \in {"reserved", "message", "stats", "job", "complete"}
  BY <1>2, <1>3 DEF Stages
<1>8. pc' \in Handling /\ pc' # "advance"
  BY <1>6, <1>7 DEF AfterReserve, Handling, Steps
<1> HIDE DEF stages, idx, n, evicted
<1>9. stage[cur] = "absent" /\ ~UNCHANGED stage =>
         /\ stage'[cur] = "reserved"
         /\ \A v \in Updates : v >= Base /\ v # cur => stage'[v] = stage[v]
         /\ \A v \in Updates : stage'[v] # "absent" => v = cur \/ stage[v] # "absent"
  <2> SUFFICES ASSUME stage[cur] = "absent", ~UNCHANGED stage
               PROVE  /\ stage'[cur] = "reserved"
                      /\ \A v \in Updates : v >= Base /\ v # cur => stage'[v] = stage[v]
                      /\ \A v \in Updates : stage'[v] # "absent" => v = cur \/ stage[v] # "absent"
    OBVIOUS
  <2>1. \A u \in Updates : stage'[u] = IF u \in evicted THEN "absent" ELSE stages[u]
    BY <1>5
  <2>2. cur \notin evicted
    BY <1>3, <1>4
  <2>3. ASSUME NEW v \in Updates, v >= Base, v # cur
        PROVE  stage'[v] = stage[v]
    <3>1. stages[v] = stage[v] /\ (v \in evicted => stage[v] \in {"absent", "complete"})
      BY <1>3, <1>4, <2>3
    <3>2. stage[v] = "absent"
      <4>1. v \notin Touched
        BY <1>2, <2>3, Numbers
      <4> QED
        BY <4>1 DEF Touched
    <3> QED
      BY <2>1, <3>1, <3>2
  <2>4. stage'[cur] = "reserved"
    BY <1>2, <1>3, <2>1, <2>2
  <2> QED
    BY <1>3, <2>1, <2>3, <2>4
<1>10. Touched' \subseteq Touched \cup {cur}
  BY <1>5, <1>6, <1>9 DEF Touched
<1>11. Frontier' /\ Base' = Base
  BY <1>1, <1>6, <1>8, <1>10, SubmitFrontier DEF SubmissionInv
<1>12. StageIsTrue'
  <2>1. CASE UNCHANGED stage
    BY <1>6, <1>11, <2>1 DEF SubmissionInv, StageIsTrue
  <2>2. CASE stage[cur] = "absent" /\ ~UNCHANGED stage
    BY <1>2, <1>6, <1>9, <1>11, <2>2 DEF SubmissionInv, StageIsTrue
  <2> QED
    BY <1>5, <2>1, <2>2
<1>13. AtItsStage'
  <2>1. CASE pc' = "refuse"
    BY <2>1 DEF AtItsStage
  <2>2. CASE pc' = AfterReserve(current) /\ stage'[cur] = current
    BY <1>6, <1>7, <2>2 DEF AtItsStage, AfterReserve
  <2>3. pc' = "refuse" \/ (pc' = AfterReserve(current) /\ stage'[cur] = current)
    BY <1>2, <1>3, <1>4, <1>6
  <2> QED
    BY <2>1, <2>2, <2>3
<1> QED
  BY <1>6, <1>11, <1>12, <1>13 DEF SubmissionInv

\* The message is appended by the script that advances the stage.
LEMMA SubmitMessageInv ==
    ASSUME TypeOK, TypeOK', SubmissionInv, SubmitMessage
    PROVE  SubmissionInv'
<1>1. pc = "history" /\ pc \in Handling /\ stage[cur] = "reserved"
  BY DEF SubmitMessage, Handling, Steps, SubmissionInv, AtItsStage
<1>2. /\ cur \in Updates /\ Base <= cur
      /\ \A v \in Touched : v = cur \/ (v < cur /\ v < Base)
  BY <1>1, CurIsUpdate, CurIsFrontier DEF SubmissionInv
<1>3. /\ UNCHANGED <<arrived, nextOffset, offset, cur, queries, pushed>> /\ batch' = batch
      /\ \/ UNCHANGED <<stage, appended>> /\ pc' = "refuse"
         \/ /\ pc' \in {"refuse", "stats"}
            /\ stage' = [stage EXCEPT ![cur] = "message"] /\ appended' = Append(appended, cur)
  BY <1>1 DEF SubmitMessage, SubmitFailed, server, past
<1>4. stage' = [stage EXCEPT ![cur] = "message"] =>
         stage'[cur] = "message" /\ \A v \in Updates : v # cur => stage'[v] = stage[v]
  BY <1>2 DEF TypeOK, StoreTypeOK
<1>5. appended' = Append(appended, cur) => Range(appended') = Range(appended) \cup {cur}
  BY <1>2, AppendRange DEF TypeOK, StoreTypeOK, PastTypeOK
<1>6. Ascending(appended')
  <2>1. CASE UNCHANGED appended
    BY <2>1 DEF SubmissionInv, Ascending
  <2>2. CASE appended' = Append(appended, cur)
    <3>1. cur \notin Range(appended)
      BY <1>1, <1>2 DEF SubmissionInv, StageIsTrue
    <3>2. \A e \in Range(appended) : e \in Updates
      BY DEF TypeOK, StoreTypeOK, PastTypeOK, Range
    <3>3. \A e \in Range(appended) : e < cur
      BY <1>2, <3>1, <3>2 DEF Touched
    <3> QED
      BY <1>2, <2>2, <3>3, AscendingAppend DEF SubmissionInv, TypeOK, StoreTypeOK, PastTypeOK
  <2> QED
    BY <1>3, <2>1, <2>2
<1>7. Touched' \subseteq Touched \cup {cur}
  BY <1>3, <1>4, <1>5 DEF Touched
<1>8. Frontier' /\ Base' = Base
  <2>1. pc' \in Handling /\ pc' # "advance"
    BY <1>3 DEF Handling, Steps
  <2> QED
    BY <1>1, <1>3, <1>7, <2>1, SubmitFrontier DEF SubmissionInv
<1>9. StageIsTrue'
  <2> SUFFICES ASSUME NEW v \in Updates, v >= Base
               PROVE  /\ v \in Range(pushed') <=> stage'[v] \in {"job", "complete"}
                      /\ v \in Range(appended') <=> stage'[v] \in {"message", "stats", "job", "complete"}
                      /\ queries'[v] = 0 <=> stage'[v] \notin {"stats", "job", "complete"}
    BY <1>8 DEF StageIsTrue
  <2>1. /\ v \in Range(pushed) <=> stage[v] \in {"job", "complete"}
        /\ v \in Range(appended) <=> stage[v] \in {"message", "stats", "job", "complete"}
        /\ queries[v] = 0 <=> stage[v] \notin {"stats", "job", "complete"}
    BY DEF SubmissionInv, StageIsTrue
  <2>2. CASE UNCHANGED <<stage, appended>>
    BY <1>3, <2>1, <2>2
  <2>3. CASE stage' = [stage EXCEPT ![cur] = "message"] /\ appended' = Append(appended, cur)
    BY <1>1, <1>3, <1>4, <1>5, <2>1, <2>3
  <2> QED
    BY <1>3, <2>2, <2>3
<1>10. AtItsStage'
  BY <1>3, <1>4 DEF AtItsStage
<1> QED
  BY <1>3, <1>6, <1>8, <1>9, <1>10 DEF SubmissionInv

\* So is the query counted.
LEMMA SubmitStatsInv ==
    ASSUME TypeOK, TypeOK', SubmissionInv, SubmitStats
    PROVE  SubmissionInv'
<1>1. pc = "stats" /\ pc \in Handling /\ stage[cur] = "message"
  BY DEF SubmitStats, Handling, Steps, SubmissionInv, AtItsStage
<1>2. /\ cur \in Updates /\ Base <= cur
      /\ \A v \in Touched : v = cur \/ (v < cur /\ v < Base)
  BY <1>1, CurIsUpdate, CurIsFrontier DEF SubmissionInv
<1>3. /\ UNCHANGED <<arrived, nextOffset, offset, cur, pushed, appended>> /\ batch' = batch
      /\ \/ UNCHANGED <<stage, queries>> /\ pc' = "refuse"
         \/ /\ pc' \in {"refuse", "enqueue"}
            /\ stage' = [stage EXCEPT ![cur] = "stats"] /\ queries' = [queries EXCEPT ![cur] = @ + 1]
  BY <1>1 DEF SubmitStats, SubmitFailed, server, past
<1>4. stage' = [stage EXCEPT ![cur] = "stats"] =>
         stage'[cur] = "stats" /\ \A v \in Updates : v # cur => stage'[v] = stage[v]
  BY <1>2 DEF TypeOK, StoreTypeOK
<1>5. queries' = [queries EXCEPT ![cur] = @ + 1] =>
         queries'[cur] = 1 /\ \A v \in Updates : v # cur => queries'[v] = queries[v]
  <2>1. queries[cur] = 0
    BY <1>1, <1>2 DEF SubmissionInv, StageIsTrue
  <2> QED
    BY <1>2, <2>1 DEF TypeOK, StoreTypeOK
<1>6. \A u \in Updates : queries'[u] <= 1
  BY <1>3, <1>5 DEF SubmissionInv
<1>7. Touched' \subseteq Touched \cup {cur}
  BY <1>3, <1>4, <1>5 DEF Touched
<1>8. Frontier' /\ Base' = Base
  <2>1. pc' \in Handling /\ pc' # "advance"
    BY <1>3 DEF Handling, Steps
  <2> QED
    BY <1>1, <1>3, <1>7, <2>1, SubmitFrontier DEF SubmissionInv
<1>9. StageIsTrue'
  <2> SUFFICES ASSUME NEW v \in Updates, v >= Base
               PROVE  /\ v \in Range(pushed') <=> stage'[v] \in {"job", "complete"}
                      /\ v \in Range(appended') <=> stage'[v] \in {"message", "stats", "job", "complete"}
                      /\ queries'[v] = 0 <=> stage'[v] \notin {"stats", "job", "complete"}
    BY <1>8 DEF StageIsTrue
  <2>1. /\ v \in Range(pushed) <=> stage[v] \in {"job", "complete"}
        /\ v \in Range(appended) <=> stage[v] \in {"message", "stats", "job", "complete"}
        /\ queries[v] = 0 <=> stage[v] \notin {"stats", "job", "complete"}
    BY DEF SubmissionInv, StageIsTrue
  <2>2. CASE UNCHANGED <<stage, queries>>
    BY <1>3, <2>1, <2>2
  <2>3. CASE stage' = [stage EXCEPT ![cur] = "stats"] /\ queries' = [queries EXCEPT ![cur] = @ + 1]
    BY <1>1, <1>3, <1>4, <1>5, <2>1, <2>3
  <2> QED
    BY <1>3, <2>2, <2>3
<1>10. AtItsStage'
  BY <1>3, <1>4 DEF AtItsStage
<1> QED
  BY <1>3, <1>6, <1>8, <1>9, <1>10 DEF SubmissionInv

\* So is the job pushed.
LEMMA EnqueueTelegramInv ==
    ASSUME TypeOK, TypeOK', SubmissionInv, EnqueueTelegram
    PROVE  SubmissionInv'
<1>1. pc = "enqueue" /\ pc \in Handling /\ stage[cur] = "stats"
  BY DEF EnqueueTelegram, Handling, Steps, SubmissionInv, AtItsStage
<1>2. /\ cur \in Updates /\ Base <= cur
      /\ \A v \in Touched : v = cur \/ (v < cur /\ v < Base)
  BY <1>1, CurIsUpdate, CurIsFrontier DEF SubmissionInv
<1>3. /\ UNCHANGED <<arrived, nextOffset, offset, cur, queries, appended>> /\ batch' = batch
      /\ \/ UNCHANGED <<stage, pushed>> /\ pc' = "refuse"
         \/ /\ pc' \in {"refuse", "complete"}
            /\ stage' = [stage EXCEPT ![cur] = "job"] /\ pushed' = Append(pushed, cur)
  BY <1>1 DEF EnqueueTelegram, SubmitFailed, server, past, StageAfterPush
<1>4. stage' = [stage EXCEPT ![cur] = "job"] =>
         stage'[cur] = "job" /\ \A v \in Updates : v # cur => stage'[v] = stage[v]
  BY <1>2 DEF TypeOK, StoreTypeOK
<1>5. pushed' = Append(pushed, cur) => Range(pushed') = Range(pushed) \cup {cur}
  BY <1>2, AppendRange DEF TypeOK, StoreTypeOK, PastTypeOK
<1>6. Ascending(pushed')
  <2>1. CASE UNCHANGED pushed
    BY <2>1 DEF SubmissionInv, Ascending
  <2>2. CASE pushed' = Append(pushed, cur)
    <3>1. cur \notin Range(pushed)
      BY <1>1, <1>2 DEF SubmissionInv, StageIsTrue
    <3>2. \A e \in Range(pushed) : e \in Updates
      BY DEF TypeOK, StoreTypeOK, PastTypeOK, Range
    <3>3. \A e \in Range(pushed) : e < cur
      BY <1>2, <3>1, <3>2 DEF Touched
    <3> QED
      BY <1>2, <2>2, <3>3, AscendingAppend DEF SubmissionInv, TypeOK, StoreTypeOK, PastTypeOK
  <2> QED
    BY <1>3, <2>1, <2>2
<1>7. Touched' \subseteq Touched \cup {cur}
  BY <1>3, <1>4, <1>5 DEF Touched
<1>8. Frontier' /\ Base' = Base
  <2>1. pc' \in Handling /\ pc' # "advance"
    BY <1>3 DEF Handling, Steps
  <2> QED
    BY <1>1, <1>3, <1>7, <2>1, SubmitFrontier DEF SubmissionInv
<1>9. StageIsTrue'
  <2> SUFFICES ASSUME NEW v \in Updates, v >= Base
               PROVE  /\ v \in Range(pushed') <=> stage'[v] \in {"job", "complete"}
                      /\ v \in Range(appended') <=> stage'[v] \in {"message", "stats", "job", "complete"}
                      /\ queries'[v] = 0 <=> stage'[v] \notin {"stats", "job", "complete"}
    BY <1>8 DEF StageIsTrue
  <2>1. /\ v \in Range(pushed) <=> stage[v] \in {"job", "complete"}
        /\ v \in Range(appended) <=> stage[v] \in {"message", "stats", "job", "complete"}
        /\ queries[v] = 0 <=> stage[v] \notin {"stats", "job", "complete"}
    BY DEF SubmissionInv, StageIsTrue
  <2>2. CASE UNCHANGED <<stage, pushed>>
    BY <1>3, <2>1, <2>2
  <2>3. CASE stage' = [stage EXCEPT ![cur] = "job"] /\ pushed' = Append(pushed, cur)
    BY <1>1, <1>3, <1>4, <1>5, <2>1, <2>3
  <2> QED
    BY <1>3, <2>2, <2>3
<1>10. AtItsStage'
  BY <1>3, <1>4 DEF AtItsStage
<1> QED
  BY <1>3, <1>6, <1>8, <1>9, <1>10 DEF SubmissionInv

\* A record is completed only after its job is pushed.
LEMMA CompleteInv ==
    ASSUME TypeOK, TypeOK', SubmissionInv, Complete
    PROVE  SubmissionInv'
<1>1. pc = "complete" /\ pc \in Handling /\ stage[cur] = "job"
  BY DEF Complete, Handling, Steps, SubmissionInv, AtItsStage
<1>2. /\ cur \in Updates /\ Base <= cur
      /\ \A v \in Touched : v = cur \/ (v < cur /\ v < Base)
  BY <1>1, CurIsUpdate, CurIsFrontier DEF SubmissionInv
<1>3. /\ UNCHANGED <<arrived, nextOffset, offset, cur, queries, pushed, appended>> /\ batch' = batch
      /\ \/ UNCHANGED <<stage>> /\ pc' = "refuse"
         \/ /\ pc' \in {"refuse", "event"}
            /\ stage' = [stage EXCEPT ![cur] = "complete"]
  BY <1>1 DEF Complete, SubmitFailed, server, past
<1>4. stage' = [stage EXCEPT ![cur] = "complete"] =>
         stage'[cur] = "complete" /\ \A v \in Updates : v # cur => stage'[v] = stage[v]
  BY <1>2 DEF TypeOK, StoreTypeOK
<1>7. Touched' \subseteq Touched \cup {cur}
  BY <1>3, <1>4 DEF Touched
<1>8. Frontier' /\ Base' = Base
  <2>1. pc' \in Handling /\ pc' # "advance"
    BY <1>3 DEF Handling, Steps
  <2> QED
    BY <1>1, <1>3, <1>7, <2>1, SubmitFrontier DEF SubmissionInv
<1>9. StageIsTrue'
  <2> SUFFICES ASSUME NEW v \in Updates, v >= Base
               PROVE  /\ v \in Range(pushed') <=> stage'[v] \in {"job", "complete"}
                      /\ v \in Range(appended') <=> stage'[v] \in {"message", "stats", "job", "complete"}
                      /\ queries'[v] = 0 <=> stage'[v] \notin {"stats", "job", "complete"}
    BY <1>8 DEF StageIsTrue
  <2>1. /\ v \in Range(pushed) <=> stage[v] \in {"job", "complete"}
        /\ v \in Range(appended) <=> stage[v] \in {"message", "stats", "job", "complete"}
        /\ queries[v] = 0 <=> stage[v] \notin {"stats", "job", "complete"}
    BY DEF SubmissionInv, StageIsTrue
  <2>2. CASE UNCHANGED <<stage>>
    BY <1>3, <2>1, <2>2
  <2>3. CASE stage' = [stage EXCEPT ![cur] = "complete"]
    BY <1>1, <1>3, <1>4, <2>1, <2>3
  <2> QED
    BY <1>3, <2>2, <2>3
<1>10. AtItsStage'
  BY <1>3, <1>4 DEF AtItsStage
<1> QED
  BY <1>3, <1>8, <1>9, <1>10 DEF SubmissionInv

\* Every step keeps the invariant.
LEMMA SubmissionStep ==
    ASSUME TypeOK, TypeOK', SubmissionInv, [Next]_vars
    PROVE  SubmissionInv'
<1>1. CASE Poller
  BY <1>1, StartInv, LoadInv, ConnectInv, AbandonInv, GetUpdatesInv, NextUpdateInv, ObserveInv,
     LogEventInv, SetOffsetInv, AdvanceInv, ReserveInv, SubmitMessageInv, SubmitStatsInv,
     EnqueueTelegramInv, CompleteInv, RefuseInv DEF Poller, Submit
<1>2. CASE LoadHistory \/ Rotate \/ SetUsers \/ Crash
  BY <1>2, LoadHistoryInv, RotateInv, SetUsersInv, CrashInv
<1>3. CASE \E u \in Updates : Arrive(u)
  BY <1>3, ArriveInv
<1>4. CASE UNCHANGED vars
  BY <1>4 DEF vars, store, server, process, bounds, past, SubmissionInv, Frontier, StageIsTrue,
              AtItsStage, Ascending, Touched, Base
<1> QED
  BY <1>1, <1>2, <1>3, <1>4 DEF Next

\* Nothing has a trace at the start.
LEMMA SubmissionInit ==
    ASSUME Init
    PROVE  SubmissionInv
<1>1. Range(pushed) = {} /\ Range(appended) = {} /\ Touched = {}
  BY EmptySeq DEF Init, Range, Touched
<1>2. Frontier
  BY <1>1 DEF Init, Frontier
<1>3. StageIsTrue /\ AtItsStage
  BY <1>1 DEF Init, StageIsTrue, AtItsStage
<1>4. Ascending(pushed) /\ Ascending(appended) /\ \A u \in Updates : queries[u] <= 1
  BY DEF Init, Ascending
<1> QED
  BY <1>2, <1>3, <1>4 DEF SubmissionInv

\* The strengthened invariant holds in every reachable state: submissions are
\* made at the lowest update that is not below the offset, and there the stage
\* tells truly what has been done.
THEOREM SubmissionCorrect == Spec => [](TypeOK /\ SubmissionInv)
<1>1. Init => TypeOK /\ SubmissionInv
  BY TypeInit, SubmissionInit
<1>2. TypeOK /\ SubmissionInv /\ [Next]_vars => (TypeOK /\ SubmissionInv)'
  BY TypeStep, SubmissionStep
<1> QED
  BY <1>1, <1>2, PTL DEF Spec

\* What is ascending has no duplicates.
LEMMA AscendingIsInjective ==
    ASSUME NEW s \in Seq(Updates), Ascending(s)
    PROVE  IsInjective(s)
<1> SUFFICES ASSUME NEW i \in DOMAIN s, NEW j \in DOMAIN s, s[i] = s[j]
             PROVE  i = j
  BY DEF IsInjective
<1>1. i \in Nat /\ j \in Nat /\ s[i] \in Nat /\ s[j] \in Nat
  BY UpdatesAssumption DEF UpdatesAssumption
<1> QED
  BY <1>1 DEF Ascending

\* However often Telegram delivers an update, and wherever the process dies or
\* a command fails, an update gives at most one message, one query and one job.
THEOREM AtMostOncePerUpdate == Spec => []OncePerUpdate
<1>1. TypeOK /\ SubmissionInv => OncePerUpdate
  BY AscendingIsInjective DEF TypeOK, StoreTypeOK, PastTypeOK, SubmissionInv, OncePerUpdate
<1> QED
  BY <1>1, SubmissionCorrect, PTL

\* A step of the ingress pushes nothing, or the update in work, which is above
\* all that were pushed before.
LEMMA PushStep ==
    ASSUME TypeOK, SubmissionInv, [Next]_vars
    PROVE  [PushedLog!Next]_pushed
<1>1. CASE EnqueueTelegram
  <2>1. pc = "enqueue" /\ pc \in Handling /\ stage[cur] = "stats"
    BY <1>1 DEF EnqueueTelegram, Handling, Steps, SubmissionInv, AtItsStage
  <2>2. /\ cur \in Updates /\ Base <= cur
        /\ \A v \in Touched : v = cur \/ (v < cur /\ v < Base)
    BY <2>1, CurIsUpdate, CurIsFrontier DEF SubmissionInv
  <2>3. pushed' = pushed \/ pushed' = Append(pushed, cur)
    BY <1>1 DEF EnqueueTelegram
  <2>4. \A i \in DOMAIN pushed : pushed[i] < cur
    <3>1. cur \notin Range(pushed)
      BY <2>1, <2>2 DEF SubmissionInv, StageIsTrue
    <3>2. \A i \in DOMAIN pushed : pushed[i] \in Updates /\ pushed[i] \in Range(pushed)
      BY DEF TypeOK, StoreTypeOK, Range
    <3> QED
      BY <2>2, <3>1, <3>2 DEF Touched
  <2> QED
    BY <2>2, <2>3, <2>4 DEF PushedLog!Next, PushedLog!Push
<1>2. CASE Poller /\ ~EnqueueTelegram
  <2>1. pushed' = pushed
    BY <1>2 DEF Poller, Submit, Start, Load, Connect, Abandon, GetUpdates, NextUpdate, Observe,
       LogEvent, SetOffset, Advance, Reserve, SubmitMessage, SubmitStats, Complete, Refuse, store
  <2> QED
    BY <2>1
<1>3. CASE LoadHistory \/ Rotate \/ SetUsers \/ Crash \/ \E u \in Updates : Arrive(u)
  BY <1>3 DEF LoadHistory, Rotate, SetUsers, Crash, Arrive, store
<1>4. CASE UNCHANGED vars
  BY <1>4 DEF vars, store
<1> QED
  BY <1>1, <1>2, <1>3, <1>4 DEF Next

\* The jobs implement an ordered log: append-only, without duplicates, in the
\* order of the updates.
THEOREM PushesAreOrdered == Spec => OrderedOnce
<1>1. Init => PushedLog!Init
  BY DEF Init, PushedLog!Init
<1>2. TypeOK /\ SubmissionInv /\ [Next]_vars => [PushedLog!Next]_pushed
  BY PushStep
<1> QED
  BY <1>1, <1>2, SubmissionCorrect, PTL DEF Spec, OrderedOnce, PushedLog!Spec

-----------------------------------------------------------------------------
(* What Telegram may forget has been dealt with.                           *)

Dealt(u) == u \in events /\ Queued(u)
Finishing == {"event", "offset", "advance"}

\* Telegram is asked to forget only what is below the offset; what is below
\* the stored offset has been dealt with, which was so when the offset was set;
\* no update can arrive below it.
ConfirmationInv ==
    /\ confirmed <= Base
    /\ offset = 0 \/ \E w \in arrived : offset = w + 1
    /\ \A u \in arrived : u < offset => Dealt(u)
    /\ pc \in Finishing => Queued(cur)
    /\ pc \in {"offset", "advance"} => cur \in events

\* Events, jobs and refusals are never taken back.
LEMMA DealtStands ==
    ASSUME TypeOK, [Next]_vars
    PROVE  \A u \in Updates : (Queued(u) => Queued(u)') /\ (Dealt(u) => Dealt(u)')
<1>1. events \subseteq events' /\ denied \subseteq denied'
  <2>1. CASE Next
    BY <2>1 DEF Next, Poller, Submit, Start, Load, Connect, Abandon, GetUpdates, NextUpdate, Observe,
       LogEvent, SetOffset, Advance, Reserve, SubmitMessage, SubmitStats, EnqueueTelegram, Complete,
       Refuse, LoadHistory, Rotate, SetUsers, Crash, Arrive, store, past
  <2>2. CASE UNCHANGED vars
    BY <2>2 DEF vars, store, past
  <2> QED
    BY <2>1, <2>2
<1>2. Range(pushed) \subseteq Range(pushed')
  <2>1. CASE EnqueueTelegram
    <3>1. pushed' = pushed \/ pushed' = Append(pushed, cur)
      BY <2>1 DEF EnqueueTelegram
    <3>2. pushed \in Seq(Updates) /\ cur \in Updates
      BY <2>1, CurIsUpdate DEF EnqueueTelegram, TypeOK, StoreTypeOK, Handling, Steps
    <3>3. Range(Append(pushed, cur)) = Range(pushed) \cup {cur}
      BY <3>2, AppendRange
    <3> QED
      BY <3>1, <3>3
  <2>2. CASE Next /\ ~EnqueueTelegram
    <3>1. pushed' = pushed
      BY <2>2 DEF Next, Poller, Submit, Start, Load, Connect, Abandon, GetUpdates, NextUpdate, Observe,
         LogEvent, SetOffset, Advance, Reserve, SubmitMessage, SubmitStats, Complete,
         Refuse, LoadHistory, Rotate, SetUsers, Crash, Arrive, store
    <3> QED
      BY <3>1
  <2>3. CASE UNCHANGED vars
    BY <2>3 DEF vars, store
  <2> QED
    BY <2>1, <2>2, <2>3
<1> QED
  BY <1>1, <1>2 DEF Queued, Dealt

\* A step that leaves the offset and the server alone.
LEMMA ConfirmationStands ==
    ASSUME TypeOK, TypeOK', ConfirmationInv, [Next]_vars,
           UNCHANGED <<offset, arrived, confirmed>>, Base <= Base',
           (pc \in Finishing => Queued(cur))',
           (pc \in {"offset", "advance"} => cur \in events)'
    PROVE  ConfirmationInv'
<1>1. confirmed' <= Base'
  <2>1. confirmed \in Nat /\ Base \in Nat /\ Base' \in Nat
    BY Numbers DEF TypeOK, TypeOK, ServerTypeOK, StoreTypeOK, ProcessTypeOK, Base
  <2> QED
    BY <2>1 DEF ConfirmationInv
<1>2. \A u \in arrived : u < offset => Dealt(u)'
  BY DealtStands, Numbers DEF ConfirmationInv
<1> QED
  BY <1>1, <1>2 DEF ConfirmationInv, Dealt, Queued

\* The steps between an update and the next that say nothing of it.
LEMMA EarlyConfirmation ==
    ASSUME TypeOK, TypeOK', SubmissionInv, ConfirmationInv, [Next]_vars,
           Start \/ Load \/ LoadHistory \/ Connect \/ Abandon \/ Rotate \/ SetUsers \/ Crash
             \/ SubmitMessage \/ SubmitStats \/ Refuse
    PROVE  ConfirmationInv'
<1>1. UNCHANGED <<offset, arrived, confirmed>>
  BY DEF Start, Load, LoadHistory, Connect, Abandon, Rotate, SetUsers, Crash, SubmitMessage,
     SubmitStats, Refuse, store, server
<1>2. Base <= Base'
  <2>1. CASE Start \/ Load
    BY <2>1, Numbers DEF Start, Load, Goto, Base, store, SubmissionInv, Frontier
  <2>2. CASE Crash
    BY <2>2, Numbers DEF Crash, Base, store, SubmissionInv, Frontier
  <2>3. CASE LoadHistory \/ Rotate \/ SetUsers
    <3>1. pc' = pc /\ nextOffset' = nextOffset /\ offset' = offset
      BY <2>3 DEF LoadHistory, Rotate, SetUsers, store
    <3> QED
      BY <3>1, Numbers DEF Base
  <2>4. CASE Connect \/ Abandon \/ SubmitMessage \/ SubmitStats \/ Refuse
    <3>1. /\ pc \notin {"down", "load"} /\ pc' \notin {"down", "load"}
          /\ nextOffset' = nextOffset /\ offset' = offset
      BY <2>4 DEF Connect, Abandon, SubmitMessage, SubmitStats, Refuse, Retry, Goto, SubmitFailed,
         Checked, CheckedSteps, store
    <3> QED
      BY <3>1, Numbers DEF Base
  <2> QED
    BY <2>1, <2>2, <2>3, <2>4
<1>3. pc' \notin Finishing \/ (pc' = pc /\ cur' = cur /\ events' = events)
  BY DEF Start, Load, LoadHistory, Connect, Abandon, Rotate, SetUsers, Crash,
     SubmitMessage, SubmitStats, Refuse, Retry, Goto, SubmitFailed, Checked, CheckedSteps,
     store, process, Finishing
<1>4. (pc \in Finishing => Queued(cur))' /\ (pc \in {"offset", "advance"} => cur \in events)'
  <2>1. CASE pc' \notin Finishing
    BY <2>1 DEF Finishing
  <2>2. CASE pc' \in Finishing
    <3>1. pc' = pc /\ cur' = cur /\ events' = events /\ cur \in Updates
      BY <1>3, <2>2, CurIsUpdate DEF Finishing, Handling, Steps
    <3>2. Queued(cur)'
      <4>1. Queued(cur)
        BY <2>2, <3>1 DEF ConfirmationInv
      <4>2. \A u \in Updates : Queued(u) => Queued(u)'
        BY DealtStands
      <4> QED
        BY <3>1, <4>1, <4>2 DEF Queued
    <3> QED
      BY <3>1, <3>2 DEF ConfirmationInv
  <2> QED
    BY <2>1, <2>2
<1> QED
  BY <1>1, <1>2, <1>4, ConfirmationStands

\* Updates of a poll are confirmed by their number alone.
LEMMA GetUpdatesConfirmation ==
    ASSUME TypeOK, TypeOK', SubmissionInv, ConfirmationInv, [Next]_vars, GetUpdates
    PROVE  ConfirmationInv'
<1>1. /\ pc = "poll" /\ pc' \in {"poll", "next"} /\ UNCHANGED <<offset, arrived, nextOffset>>
      /\ confirmed' \in {confirmed, nextOffset}
  BY DEF GetUpdates, Checked, Goto, store
<1>2. Base = nextOffset /\ Base' = nextOffset
  BY <1>1 DEF Base
<1>3. confirmed' <= Base'
  BY <1>1, <1>2, Numbers DEF ConfirmationInv
<1>4. \A u \in arrived : u < offset => Dealt(u)'
  BY DealtStands, Numbers DEF ConfirmationInv
<1> QED
  BY <1>1, <1>3, <1>4 DEF ConfirmationInv, Finishing, Dealt, Queued

\* An update that is skipped is no text, or its sender is denied.
LEMMA NextUpdateConfirmation ==
    ASSUME TypeOK, TypeOK', SubmissionInv, ConfirmationInv, [Next]_vars, NextUpdate
    PROVE  ConfirmationInv'
<1>1. /\ pc = "next" /\ pc' \in {"poll", "next", "event", "observe"}
      /\ UNCHANGED <<offset, arrived, confirmed, nextOffset>>
  BY DEF NextUpdate, Checked, Goto, store, server
<1>2. Base <= Base'
  BY <1>1, Numbers DEF Base
<1>3. pc' = "event" => Queued(cur)'
  BY DEF NextUpdate, Queued
<1>4. (pc \in Finishing => Queued(cur))' /\ (pc \in {"offset", "advance"} => cur \in events)'
  BY <1>1, <1>3 DEF Finishing
<1> QED
  BY <1>1, <1>2, <1>4, ConfirmationStands

\* What is not a text needs no job.
LEMMA ObserveConfirmation ==
    ASSUME TypeOK, TypeOK', SubmissionInv, ConfirmationInv, [Next]_vars, Observe
    PROVE  ConfirmationInv'
<1>1. /\ pc = "observe" /\ pc' \in {"poll", "event", "reserve"}
      /\ UNCHANGED <<offset, arrived, confirmed, nextOffset>>
  BY DEF Observe, Checked, Goto, Retry, store, server
<1>2. Base <= Base'
  BY <1>1, Numbers DEF Base
<1>3. pc' = "event" => Queued(cur)'
  BY DEF Observe, Queued, Retry, Goto
<1>4. (pc \in Finishing => Queued(cur))' /\ (pc \in {"offset", "advance"} => cur \in events)'
  BY <1>1, <1>3 DEF Finishing
<1> QED
  BY <1>1, <1>2, <1>4, ConfirmationStands

LEMMA LogEventConfirmation ==
    ASSUME TypeOK, TypeOK', SubmissionInv, ConfirmationInv, [Next]_vars, LogEvent
    PROVE  ConfirmationInv'
<1>1. /\ pc = "event" /\ pc' \in {"poll", "offset"} /\ (pc' = "offset" => cur' = cur /\ cur \in events')
      /\ UNCHANGED <<offset, arrived, confirmed, nextOffset>>
  BY DEF LogEvent, Checked, Goto, Retry, Replied, Applied, server
<1>2. Base <= Base'
  BY <1>1, Numbers DEF Base
<1>3. pc' = "offset" => Queued(cur)'
  <2>1. Queued(cur) /\ cur \in Updates
    BY <1>1, CurIsUpdate DEF ConfirmationInv, Finishing, Handling, Steps
  <2>2. \A u \in Updates : Queued(u) => Queued(u)'
    BY DealtStands
  <2> QED
    BY <1>1, <2>1, <2>2 DEF Queued
<1>4. (pc \in Finishing => Queued(cur))' /\ (pc \in {"offset", "advance"} => cur \in events)'
  BY <1>1, <1>3 DEF Finishing
<1> QED
  BY <1>1, <1>2, <1>4, ConfirmationStands

\* The stored offset moves over the update in work, below which everything has
\* been dealt with.
LEMMA SetOffsetConfirmation ==
    ASSUME TypeOK, TypeOK', SubmissionInv, ConfirmationInv, [Next]_vars, SetOffset
    PROVE  ConfirmationInv'
<1>1. /\ pc = "offset" /\ pc' \in {"poll", "advance"} /\ (pc' = "advance" => cur' = cur)
      /\ offset' \in {offset, cur + 1}
      /\ UNCHANGED <<arrived, confirmed, nextOffset, events, pushed, denied>>
  BY DEF SetOffset, Checked, Goto, Retry, server, past
<1>2. cur \in arrived /\ cur \in Updates /\ Dealt(cur)
  BY <1>1, CurIsUpdate DEF ConfirmationInv, Finishing, Handling, Steps, Dealt
<1>3. Base = nextOffset /\ Base' = nextOffset
  BY <1>1 DEF Base
<1>4. \A u \in arrived : u < cur + 1 => Dealt(u)
  <2> SUFFICES ASSUME NEW u \in arrived, u < cur + 1 PROVE Dealt(u)
    OBVIOUS
  <2>1. u = cur \/ u < cur
    BY <1>2, Numbers
  <2>2. u < cur => u < offset
    <3>1. u < cur => u < nextOffset
      BY <1>1, <1>2, Numbers, CurIsUpdate DEF SubmissionInv, Frontier, Handling, Steps
    <3> QED
      BY <3>1, Numbers DEF SubmissionInv, Frontier
  <2> QED
    BY <1>2, <2>1, <2>2 DEF ConfirmationInv
<1>5. \A u \in arrived' : u < offset' => Dealt(u)'
  BY <1>1, <1>4 DEF ConfirmationInv, Dealt, Queued
<1>6. offset' = 0 \/ \E w \in arrived' : offset' = w + 1
  BY <1>1, <1>2 DEF ConfirmationInv
<1>7. (pc \in Finishing => Queued(cur))' /\ (pc \in {"offset", "advance"} => cur \in events)'
  BY <1>1, <1>2 DEF Finishing, Dealt, Queued
<1> QED
  BY <1>1, <1>3, <1>5, <1>6, <1>7 DEF ConfirmationInv

LEMMA AdvanceConfirmation ==
    ASSUME TypeOK, TypeOK', SubmissionInv, ConfirmationInv, [Next]_vars, Advance
    PROVE  ConfirmationInv'
<1>1. pc = "advance" /\ pc' = "next" /\ UNCHANGED <<offset, arrived, confirmed>> /\ nextOffset' = cur + 1
  BY DEF Advance, Checked, Goto, store, server
<1>2. nextOffset <= cur
  BY <1>1, CurIsUpdate DEF SubmissionInv, Frontier, Handling, Steps
<1>3. Base <= Base'
  BY <1>1, <1>2, Numbers DEF Base
<1>4. (pc \in Finishing => Queued(cur))' /\ (pc \in {"offset", "advance"} => cur \in events)'
  BY <1>1 DEF Finishing
<1> QED
  BY <1>1, <1>3, <1>4, ConfirmationStands

\* A submission that is found or made complete has its job: at the offset the
\* stage is true.
LEMMA SubmittedConfirmation ==
    ASSUME TypeOK, TypeOK', SubmissionInv, ConfirmationInv, [Next]_vars,
           Reserve \/ EnqueueTelegram \/ Complete
    PROVE  ConfirmationInv'
<1>1. /\ pc \in {"reserve", "enqueue", "complete"}
      /\ UNCHANGED <<offset, arrived, confirmed, nextOffset>>
  BY DEF Reserve, EnqueueTelegram, Complete, Checked, server
<1>2. cur \in Updates /\ Base = nextOffset /\ Base <= cur
  BY <1>1, CurIsUpdate, CurIsFrontier DEF SubmissionInv, Handling, Steps
<1>3. /\ pc' \in {"event", "history", "stats", "enqueue", "complete", "refuse"}
      /\ pc' = "event" => cur' = cur /\ stage[cur] \in {"job", "complete"}
  <2>1. CASE Reserve
    <3>1. stage[cur] \in Stages
      BY <1>2 DEF TypeOK, StoreTypeOK
    <3> QED
      BY <2>1, <3>1 DEF Reserve, SubmitFailed, Goto, AfterReserve, Stages
  <2>2. CASE EnqueueTelegram
    BY <2>2 DEF EnqueueTelegram, SubmitFailed, Goto
  <2>3. CASE Complete
    BY <2>3 DEF Complete, SubmitFailed, Goto, SubmissionInv, AtItsStage
  <2> QED
    BY <2>1, <2>2, <2>3
<1>4. Base <= Base'
  BY <1>1, <1>2, <1>3, Numbers DEF Base
<1>5. pc' = "event" => Queued(cur)'
  <2>1. stage[cur] \in {"job", "complete"} => Queued(cur)
    BY <1>2 DEF SubmissionInv, StageIsTrue, Queued
  <2>2. \A u \in Updates : Queued(u) => Queued(u)'
    BY DealtStands
  <2> QED
    BY <1>2, <1>3, <2>1, <2>2 DEF Queued
<1>6. (pc \in Finishing => Queued(cur))' /\ (pc \in {"offset", "advance"} => cur \in events)'
  BY <1>3, <1>5 DEF Finishing
<1> QED
  BY <1>1, <1>4, <1>6, ConfirmationStands

\* A new update is above every other one, and so not below the offset.
LEMMA ArriveConfirmation ==
    ASSUME TypeOK, TypeOK', SubmissionInv, ConfirmationInv, NEW v \in Updates, Arrive(v)
    PROVE  ConfirmationInv'
<1>1. /\ arrived' = arrived \cup {v} /\ \A w \in arrived : w < v
      /\ UNCHANGED <<offset, confirmed, nextOffset, pc, cur, events, pushed, denied>>
  BY DEF Arrive, store, process, past
<1>2. ~(v < offset)
  BY <1>1, Numbers DEF ConfirmationInv
<1>3. Base' = Base
  BY <1>1 DEF Base
<1>4. \A u \in arrived' : u < offset' => Dealt(u)'
  BY <1>1, <1>2 DEF ConfirmationInv, Dealt, Queued
<1> QED
  BY <1>1, <1>3, <1>4 DEF ConfirmationInv, Finishing, Queued

\* What Telegram has been allowed to forget has been dealt with: its event is
\* logged and a text that was not denied has its job (ConfirmedIsQueued,
\* service.go process and the poll loop).
THEOREM ConfirmedOnlyWhenQueued == Spec => []ConfirmedIsQueued
<1>1. Init => ConfirmationInv
  BY DEF Init, ConfirmationInv, Finishing, Base
<1>2. TypeOK /\ SubmissionInv /\ ConfirmationInv /\ [Next]_vars /\ TypeOK' => ConfirmationInv'
  <2> SUFFICES ASSUME TypeOK, SubmissionInv, ConfirmationInv, [Next]_vars, TypeOK'
               PROVE  ConfirmationInv'
    OBVIOUS
  <2>1. CASE Poller \/ LoadHistory \/ Rotate \/ SetUsers \/ Crash
    BY <2>1, EarlyConfirmation, GetUpdatesConfirmation, NextUpdateConfirmation, ObserveConfirmation,
       LogEventConfirmation, SetOffsetConfirmation, AdvanceConfirmation, SubmittedConfirmation
       DEF Poller, Submit
  <2>2. CASE \E u \in Updates : Arrive(u)
    BY <2>2, ArriveConfirmation
  <2>3. CASE UNCHANGED vars
    BY <2>3 DEF vars, store, server, process, past, ConfirmationInv, Finishing, Base, Dealt, Queued
  <2> QED
    BY <2>1, <2>2, <2>3 DEF Next
<1>3. TypeOK /\ SubmissionInv /\ ConfirmationInv => ConfirmedIsQueued
  <2> SUFFICES ASSUME TypeOK, SubmissionInv, ConfirmationInv, NEW u \in arrived, u < confirmed
               PROVE  Dealt(u)
    BY DEF ConfirmedIsQueued, Dealt
  <2>1. u \in Nat /\ confirmed \in Nat /\ Base \in Nat /\ offset \in Nat /\ nextOffset \in Nat
    BY Numbers DEF TypeOK, ServerTypeOK
  <2>2. Base <= offset
    BY <2>1 DEF SubmissionInv, Frontier, Base
  <2> QED
    BY <2>1, <2>2 DEF ConfirmationInv
<1> QED
  BY <1>1, <1>2, <1>3, SubmissionCorrect, PTL DEF Spec

-----------------------------------------------------------------------------
(* The places that remember a submission agree.                            *)

\* The list s holds the greatest elements of the list whole.
Newest(s, whole) ==
    /\ Range(s) \subseteq Range(whole)
    /\ \A x \in Range(whole) \ Range(s), y \in Range(s) : x < y

\* What is left of an ascending list when elements are taken from its front.
LEMMA FrontTaken ==
    ASSUME NEW s \in Seq(Updates), Ascending(s), NEW n \in 0..Len(s)
    PROVE  LET t == SubSeq(s, n + 1, Len(s)) IN
           /\ t \in Seq(Updates) /\ Len(t) = Len(s) - n /\ Ascending(t)
           /\ Newest(t, s)
           /\ \A x \in Updates : x \in Range(s) => x \in Range(t) \/ \E i \in 1..n : x = s[i]
           /\ \A i \in 1..n : s[i] \in Range(s) /\ s[i] \notin Range(t)
           /\ \A i \in (n + 1)..Len(s) : s[i] \in Range(t)
           /\ n < Len(s) => Head(t) = s[n + 1]
<1> DEFINE t == SubSeq(s, n + 1, Len(s))
<1>1. /\ Len(s) \in Nat /\ n \in Nat /\ n <= Len(s) /\ DOMAIN s = 1..Len(s)
      /\ \A i \in 1..Len(s) : s[i] \in Updates /\ s[i] \in Nat
      /\ \A i, j \in 1..Len(s) : i < j => s[i] < s[j]
      /\ Range(s) = {s[i] : i \in 1..Len(s)}
  BY LenProperties, ElementOfSeq, RangeEquality, UpdatesAssumption DEF UpdatesAssumption, Ascending
<1>2. /\ t \in Seq(Updates) /\ Len(t) = Len(s) - n
      /\ \A i \in 1..(Len(s) - n) : t[i] = s[n + i]
  <2>1. \A i \in (n + 1)..Len(s) : s[i] \in Updates
    BY <1>1
  <2>2. /\ t \in Seq(Updates)
        /\ Len(t) = IF n + 1 <= Len(s) THEN Len(s) - (n + 1) + 1 ELSE 0
        /\ \A i \in 1..(Len(s) - (n + 1) + 1) : t[i] = s[n + 1 + i - 1]
    BY <1>1, <2>1, SubSeqProperties
  <2> HIDE DEF t
  <2>3. Len(t) = Len(s) - n
    <3>1. \A k, m \in Nat : m <= k => (IF m + 1 <= k THEN k - (m + 1) + 1 ELSE 0) = k - m
      OBVIOUS
    <3> QED
      BY <1>1, <2>2, <3>1, Zenon
  <2>4. \A i \in 1..(Len(s) - n) : i \in 1..(Len(s) - (n + 1) + 1) /\ n + 1 + i - 1 = n + i
    BY <1>1
  <2> QED
    BY <2>2, <2>3, <2>4
<1>3. Range(t) = {s[i] : i \in (n + 1)..Len(s)}
  <2> HIDE DEF t
  <2>1. Range(t) = {t[i] : i \in 1..(Len(s) - n)}
    BY <1>2, RangeEquality
  <2>2. \A i \in 1..(Len(s) - n) : n + i \in (n + 1)..Len(s) /\ t[i] = s[n + i]
    BY <1>1, <1>2
  <2>3. \A i \in (n + 1)..Len(s) : i - n \in 1..(Len(s) - n) /\ n + (i - n) = i
    BY <1>1
  <2>4. \A i \in (n + 1)..Len(s) : t[i - n] = s[i]
    BY <2>2, <2>3
  <2>5. Range(t) \subseteq {s[i] : i \in (n + 1)..Len(s)}
    BY <2>1, <2>2
  <2>6. \A i \in (n + 1)..Len(s) : s[i] \in Range(t)
    BY <2>1, <2>3, <2>4
  <2> QED
    BY <2>5, <2>6
<1>4. \A i \in 1..n, j \in (n + 1)..Len(s) : s[i] < s[j] /\ s[i] \in Nat /\ s[j] \in Nat
  BY <1>1
<1>5. \A x \in Range(s) : x \in Range(t) \/ \E i \in 1..n : x = s[i]
  BY <1>1, <1>3
<1>6. \A i \in 1..n : s[i] \in Range(s) /\ s[i] \notin Range(t)
  BY <1>1, <1>3, <1>4
<1>7. Newest(t, s)
  <2> HIDE DEF t
  <2>1. Range(t) \subseteq Range(s)
    BY <1>1, <1>3
  <2>2. \A x \in Range(s) \ Range(t), y \in Range(t) : x < y
    BY <1>3, <1>4, <1>5
  <2> QED
    BY <2>1, <2>2 DEF Newest
<1>8. Ascending(t)
  <2> HIDE DEF t
  <2> SUFFICES ASSUME NEW i \in 1..(Len(s) - n), NEW j \in 1..(Len(s) - n), i < j
               PROVE  t[i] < t[j]
    BY <1>2 DEF Ascending
  <2>1. n + i \in 1..Len(s) /\ n + j \in 1..Len(s) /\ n + i < n + j
    BY <1>1
  <2> QED
    BY <1>1, <1>2, <2>1
<1>9. n < Len(s) => Head(t) = s[n + 1]
  <2> SUFFICES ASSUME n < Len(s) PROVE Head(t) = s[n + 1]
    OBVIOUS
  <2>1. n + 1 \in 1..Len(s) /\ Len(s) \in (n + 1)..Len(s)
    BY <1>1
  <2> QED
    BY <2>1, HeadTailOfSubSeq
<1> HIDE DEF t
<1>10. \A i \in (n + 1)..Len(s) : s[i] \in Range(t)
  BY <1>3
<1> QED
  BY <1>2, <1>5, <1>6, <1>7, <1>8, <1>9, <1>10 DEF t

\* An ascending list has as many elements as its length.
LEMMA AscendingSize ==
    ASSUME NEW s \in Seq(Updates), Ascending(s)
    PROVE  IsFiniteSet(Range(s)) /\ Cardinality(Range(s)) = Len(s)
<1>1. Len(s) \in Nat /\ DOMAIN s = 1..Len(s) /\ Range(s) = {s[i] : i \in 1..Len(s)}
  BY LenProperties, RangeEquality
<1>2. IsFiniteSet(1..Len(s)) /\ Cardinality(1..Len(s)) = Len(s)
  BY <1>1, FS_Interval
<1>3. s \in [1..Len(s) -> Range(s)] /\ IsInjective(s)
  BY <1>1, AscendingIsInjective
<1>4. s \in Surjection(1..Len(s), Range(s)) /\ s \in Injection(1..Len(s), Range(s))
  BY <1>1, <1>3 DEF Surjection, Injection, IsInjective
<1> QED
  BY <1>2, <1>4, FS_Surjection

\* A list trimmed to its newest n elements.
LEMMA KeepLastNewest ==
    ASSUME NEW s \in Seq(Updates), Ascending(s), NEW n \in Nat
    PROVE  LET t == KeepLast(s, n) IN
           /\ t \in Seq(Updates) /\ Ascending(t) /\ Newest(t, s) /\ Len(t) <= n
           /\ n > 0 /\ Len(s) > 0 => s[Len(s)] \in Range(t)
           /\ Len(s) > n => Len(t) = n
           /\ Len(s) <= n => t = s
<1>1. Len(s) \in Nat /\ Range(s) = {s[i] : i \in 1..Len(s)}
  BY LenProperties, RangeEquality
<1>2. CASE Len(s) <= n
  BY <1>1, <1>2 DEF KeepLast, Newest
<1>3. CASE ~(Len(s) <= n)
  <2>1. Len(s) - n \in 0..Len(s) /\ Len(s) - (Len(s) - n) = n
    BY <1>1, <1>3
  <2> DEFINE t == SubSeq(s, (Len(s) - n) + 1, Len(s))
  <2>2. KeepLast(s, n) = t
    BY <1>3 DEF KeepLast
  <2>3. /\ t \in Seq(Updates) /\ Len(t) = Len(s) - (Len(s) - n) /\ Ascending(t) /\ Newest(t, s)
        /\ \A i \in ((Len(s) - n) + 1)..Len(s) : s[i] \in Range(t)
    BY <2>1, FrontTaken
  <2> HIDE DEF t
  <2>4. n > 0 /\ Len(s) > 0 => Len(s) \in ((Len(s) - n) + 1)..Len(s)
    BY <1>1, <1>3
  <2> QED
    BY <1>1, <1>3, <2>1, <2>2, <2>3, <2>4
<1> QED
  BY <1>2, <1>3

\* The eviction stops at the first partial record or at the cap.
LEMMA EvictedStops ==
    ASSUME NEW idx \in Seq(Updates), NEW stages, NEW n, n = EvictedCount(idx, stages)
    PROVE  /\ n \in 0..Len(idx)
           /\ \A i \in 1..n : stages[idx[i]] \in {"absent", "complete"}
           /\ Len(idx) - n > IndexCap => stages[idx[n + 1]] \notin {"absent", "complete"}
<1> DEFINE S == {k \in 0..Len(idx) : /\ k = 0 \/ Len(idx) - k >= IndexCap
                                     /\ \A i \in 1..k : stages[idx[i]] \in {"absent", "complete"}}
<1>1. Len(idx) \in Nat /\ S \subseteq 0..Len(idx) /\ 0 \in S
  BY LenProperties
<1>2. n \in S /\ \A k \in S : n >= k
  <2>1. n = Max(S)
    BY DEF EvictedCount
  <2> HIDE DEF S
  <2> QED
    BY <1>1, <2>1, MaxExists
<1>3. n \in 0..Len(idx) /\ \A i \in 1..n : stages[idx[i]] \in {"absent", "complete"}
  BY <1>2
<1>4. ASSUME Len(idx) - n > IndexCap, stages[idx[n + 1]] \in {"absent", "complete"}
      PROVE  FALSE
  <2>1. IndexCap \in Nat /\ n \in Nat
    BY <1>3, CapsAssumption DEF CapsAssumption
  <2>2. n + 1 \in 0..Len(idx) /\ Len(idx) - (n + 1) >= IndexCap /\ ~(n >= n + 1)
    BY <1>1, <1>3, <1>4, <2>1
  <2>3. \A i \in 1..(n + 1) : i \in 1..n \/ i = n + 1
    BY <2>1
  <2>4. \A i \in 1..(n + 1) : stages[idx[i]] \in {"absent", "complete"}
    BY <1>3, <1>4, <2>3
  <2>5. n + 1 \in S
    BY <2>2, <2>4
  <2> HIDE DEF S
  <2> QED
    BY <1>2, <2>2, <2>5
<1> QED
  BY <1>3, <1>4

\* A message enters the conversation in memory as its newest: memory holds it,
\* nothing else is new, and a message it drops is not in the store any more.
LEMMA RememberKeepsStore ==
    ASSUME NEW stored \in Seq(Updates), NEW whole \in Seq(Updates), NEW c \in Updates,
           Ascending(stored), Newest(stored, whole), Len(stored) <= HistoryCap,
           memory \in Seq(Updates), Ascending(memory), Range(memory) \subseteq Range(whole),
           Len(memory) <= HistoryCap, c \in Range(whole), \A x \in Range(whole) : x = c \/ x < c,
           Remember(c)
    PROVE  /\ memory' \in Seq(Updates) /\ Ascending(memory') /\ c \in Range(memory')
           /\ Range(memory') \subseteq Range(whole)
           /\ Range(stored) \ Range(memory') \subseteq Range(stored) \ Range(memory)
<1>1. CASE c \in Range(memory)
  BY <1>1 DEF Remember
<1>2. CASE c \notin Range(memory)
  <2> DEFINE s == Append(memory, c)
             t == KeepLast(s, HistoryCap)
  <2>1. HistoryCap \in Nat /\ HistoryCap > 0
    BY CapsAssumption DEF CapsAssumption
  <2>2. memory' = t
    BY <1>2 DEF Remember
  <2>3. /\ s \in Seq(Updates) /\ Range(s) = Range(memory) \cup {c}
        /\ Len(s) = Len(memory) + 1 /\ s[Len(s)] = c /\ Len(memory) \in Nat
    BY AppendRange, AppendProperties, LenProperties
  <2>4. Ascending(s)
    BY <1>2, AscendingAppend
  <2> HIDE DEF s
  <2>5. /\ t \in Seq(Updates) /\ Ascending(t) /\ Newest(t, s) /\ s[Len(s)] \in Range(t)
        /\ Len(s) <= HistoryCap => t = s
    <3>1. /\ t \in Seq(Updates) /\ Ascending(t) /\ Newest(t, s)
          /\ HistoryCap > 0 /\ Len(s) > 0 => s[Len(s)] \in Range(t)
          /\ Len(s) <= HistoryCap => t = s
      BY <2>1, <2>3, <2>4, KeepLastNewest
    <3> QED
      BY <2>1, <2>3, <3>1
  <2> HIDE DEF t
  <2>6. Range(t) \subseteq Range(s)
    BY <2>5 DEF Newest
  <2>7. ASSUME NEW m \in Range(stored), m \in Range(memory), m \notin Range(t)
        PROVE  FALSE
    <3>1. ~(Len(s) <= HistoryCap) /\ m \in Range(s)
      BY <2>3, <2>5, <2>7
    <3>2. Range(s) \subseteq Range(stored)
      <4> SUFFICES ASSUME NEW x \in Range(s), x \notin Range(stored) PROVE FALSE
        OBVIOUS
      <4>1. x \in Range(whole) /\ x < m
        BY <2>3 DEF Newest
      <4>2. x \notin Range(t)
        <5>1. x \in Range(t) => m < x
          BY <2>5, <2>7, <3>1 DEF Newest
        <5>2. x \in Nat /\ m \in Nat
          <6>1. Range(s) \subseteq Updates
            BY <2>3, RangeOfSeq
          <6> QED
            BY <6>1, <3>1, UpdatesAssumption DEF UpdatesAssumption
        <5> QED
          BY <4>1, <5>1, <5>2
      <4>3. x = s[1] /\ m = s[1]
        <5>1. Len(s) = HistoryCap + 1 /\ Len(s) - HistoryCap = 1 /\ 1 \in 0..Len(s)
          BY <2>1, <2>3, <3>1
        <5>2. t = SubSeq(s, 1 + 1, Len(s))
          BY <3>1, <5>1 DEF t, KeepLast
        <5>3. \A y \in Updates : y \in Range(s) => y \in Range(t) \/ \E i \in 1..1 : y = s[i]
          BY <2>3, <2>4, <5>1, <5>2, FrontTaken
        <5>4. x \in Updates /\ m \in Updates
          BY <2>3, <3>1, RangeOfSeq
        <5> QED
          BY <2>7, <3>1, <4>2, <5>3, <5>4
      <4> QED
        BY <4>3
    <3>3. Cardinality(Range(s)) = Len(s) /\ Cardinality(Range(stored)) = Len(stored)
      BY <2>3, <2>4, AscendingSize
    <3>4. Cardinality(Range(s)) <= Cardinality(Range(stored))
      BY <3>2, AscendingSize, FS_Subset
    <3>5. Len(stored) \in Nat /\ Len(s) \in Nat
      BY <2>3, LenProperties
    <3> QED
      BY <2>1, <3>1, <3>3, <3>4, <3>5
  <2> QED
    BY <2>2, <2>3, <2>5, <2>6, <2>7
<1> QED
  BY <1>1, <1>2

\* The index holds the records in update order, and no completed one at the
\* front when it is over its cap.
IndexInv ==
    /\ Ascending(index)
    /\ \A u \in Updates : stage[u] # "absent" <=> u \in Range(index)
    /\ Len(index) > IndexCap => stage[Head(index)] # "complete"

\* The steps of a submission that is under way, and those after its message.
Submitting == {"history", "stats", "enqueue", "complete"}
AfterMessage == {"stats", "enqueue", "complete"}
InSubmission == {u \in Updates : stage[u] \in {"message", "stats", "job"}}

\* The store holds the newest messages ever appended.  Memory is in order too;
\* a stored message that it lacks is in submission, and a submission goes on
\* only with its message in memory.
ConversationInv ==
    /\ Ascending(history) /\ Newest(history, appended)
    /\ Ascending(memory) /\ Range(memory) \subseteq Range(appended)
    /\ ~loaded => memory = <<>> /\ pc \notin Submitting
    /\ pc \in AfterMessage => cur \in Range(memory)
    /\ loaded => Range(history) \ Range(memory) \subseteq InSubmission

\* What the update in work is told apart by.
LEMMA CurIsNewest ==
    ASSUME TypeOK, SubmissionInv, IndexInv, pc \in Handling
    PROVE  /\ cur \in Updates /\ Base <= cur
           /\ \A v \in Range(index) \cup Range(appended) : v = cur \/ v < cur
<1>1. /\ cur \in Updates /\ Base <= cur
      /\ \A v \in Touched : v = cur \/ (v < cur /\ v < Base)
  BY CurIsUpdate, CurIsFrontier DEF SubmissionInv
<1>2. Range(index) \cup Range(appended) \subseteq Updates
  BY RangeOfSeq DEF TypeOK, StoreTypeOK, PastTypeOK
<1>3. Range(index) \cup Range(appended) \subseteq Touched
  BY <1>2 DEF IndexInv, Touched
<1> QED
  BY <1>1, <1>3

\* A reservation appends the record of the update in work to the index, and
\* evicts completed ones from its front.
LEMMA ReserveIndex ==
    ASSUME TypeOK, SubmissionInv, IndexInv, Reserve
    PROVE  IndexInv' /\ InSubmission' = InSubmission
<1> DEFINE current == IF stage[cur] = "absent" THEN "reserved" ELSE stage[cur]
           stages == [stage EXCEPT ![cur] = current]
           idx == Append(index, cur)
           n == EvictedCount(idx, stages)
           kept == SubSeq(idx, n + 1, Len(idx))
           out == Range(SubSeq(idx, 1, n))
<1>1. pc = "reserve" /\ pc \in Handling
  BY DEF Reserve, Checked, Handling, Steps
<1>2. /\ cur \in Updates
      /\ \A v \in Range(index) : v = cur \/ v < cur
  BY <1>1, CurIsNewest
<1>3. index \in Seq(Updates) /\ stage \in [Updates -> Stages]
  BY DEF TypeOK, StoreTypeOK
<1>4. CASE UNCHANGED <<index, stage>>
  BY <1>4 DEF IndexInv, InSubmission, Ascending
<1>5. CASE /\ stage[cur] = "absent" /\ index' = kept
           /\ stage' = [u \in Updates |-> IF u \in out THEN "absent" ELSE stages[u]]
  <2>1. cur \notin Range(index)
    BY <1>2, <1>5 DEF IndexInv
  <2>2. /\ stages \in [Updates -> Stages] /\ stages[cur] = "reserved"
        /\ \A v \in Updates : v # cur => stages[v] = stage[v]
    BY <1>2, <1>3, <1>5 DEF Stages
  <2>3. /\ idx \in Seq(Updates) /\ Range(idx) = Range(index) \cup {cur} /\ Ascending(idx)
        /\ Len(idx) \in Nat
    BY <1>2, <1>3, <2>1, AppendRange, AscendingAppend, LenProperties DEF IndexInv
  <2> HIDE DEF idx, stages
  <2>4. /\ n \in 0..Len(idx)
        /\ \A i \in 1..n : stages[idx[i]] \in {"absent", "complete"}
        /\ Len(idx) - n > IndexCap => stages[idx[n + 1]] \notin {"absent", "complete"}
    BY <2>3, EvictedStops
  <2> HIDE DEF n
  <2>5. /\ kept \in Seq(Updates) /\ Len(kept) = Len(idx) - n /\ Ascending(kept) /\ Newest(kept, idx)
        /\ \A x \in Updates : x \in Range(idx) => x \in Range(kept) \/ \E i \in 1..n : x = idx[i]
        /\ \A i \in 1..n : idx[i] \in Range(idx) /\ idx[i] \notin Range(kept)
        /\ n < Len(idx) => Head(kept) = idx[n + 1]
    BY <2>3, <2>4, FrontTaken
  <2>6. out = {idx[i] : i \in 1..n} /\ out \subseteq Updates
    <3>1. /\ SubSeq(idx, 1, n) \in Seq(Updates) /\ Len(SubSeq(idx, 1, n)) = n
          /\ \A i \in 1..n : SubSeq(idx, 1, n)[i] = idx[i]
      BY <2>3, <2>4
    <3>2. Range(SubSeq(idx, 1, n)) = {SubSeq(idx, 1, n)[i] : i \in 1..n}
      BY <3>1, RangeEquality
    <3> QED
      BY <3>1, <3>2, RangeOfSeq
  <2> HIDE DEF kept, out
  <2>7. \A u \in Updates : u \in out => stages[u] \in {"absent", "complete"} /\ u \notin Range(kept)
    BY <2>4, <2>5, <2>6
  <2>8. \A u \in Updates : stage'[u] = IF u \in out THEN "absent" ELSE stages[u]
    BY <1>5
  <2>9. \A u \in Updates : stage'[u] # "absent" <=> u \in Range(kept)
    <3> TAKE u \in Updates
    <3>1. u \in out => stage'[u] = "absent" /\ u \notin Range(kept)
      BY <2>7, <2>8
    <3>2. u \notin out => (u \in Range(idx) <=> u \in Range(kept))
      BY <2>5, <2>6 DEF Newest
    <3>3. stages[u] # "absent" <=> u \in Range(idx)
      BY <2>2, <2>3 DEF IndexInv
    <3> QED
      BY <2>8, <3>1, <3>2, <3>3
  <2>10. InSubmission' = InSubmission
    <3>1. \A u \in Updates : stage'[u] \in {"message", "stats", "job"} <=> stage[u] \in {"message", "stats", "job"}
      BY <1>5, <2>2, <2>7, <2>8
    <3> QED
      BY <3>1 DEF InSubmission
  <2>11. Len(kept) > IndexCap => stage'[Head(kept)] # "complete"
    <3> SUFFICES ASSUME Len(kept) > IndexCap PROVE stage'[Head(kept)] # "complete"
      OBVIOUS
    <3>1. n < Len(idx) /\ n \in Nat
      BY <2>3, <2>4, <2>5, CapsAssumption DEF CapsAssumption
    <3>2. Head(kept) = idx[n + 1] /\ idx[n + 1] \in Updates
      BY <2>3, <2>5, <3>1, ElementOfSeq
    <3>3. stages[idx[n + 1]] # "complete"
      BY <2>4, <2>5
    <3> QED
      BY <2>8, <3>2, <3>3
  <2> QED
    BY <1>5, <2>5, <2>9, <2>10, <2>11 DEF IndexInv
<1> QED
  BY <1>4, <1>5 DEF Reserve

\* A stage that moves on leaves the index sound: the completed record is its
\* newest.
LEMMA StageIndex ==
    ASSUME TypeOK, SubmissionInv, IndexInv, index' = index, pc \in Handling,
           NEW new \in {"message", "stats", "job", "complete"},
           stage' = stage \/ (stage[cur] # "absent" /\ stage' = [stage EXCEPT ![cur] = new])
    PROVE  IndexInv'
<1>1. /\ cur \in Updates
      /\ \A v \in Range(index) : v = cur \/ v < cur
  BY CurIsNewest
<1>2. CASE stage' = stage
  BY <1>2 DEF IndexInv, Ascending
<1>3. CASE stage[cur] # "absent" /\ stage' = [stage EXCEPT ![cur] = new]
  <2>1. /\ index \in Seq(Updates) /\ stage \in [Updates -> Stages]
        /\ Len(index) \in Nat /\ DOMAIN index = 1..Len(index)
    BY LenProperties DEF TypeOK, StoreTypeOK
  <2>2. stage'[cur] = new /\ \A v \in Updates : v # cur => stage'[v] = stage[v]
    BY <1>1, <1>3, <2>1
  <2>3. ASSUME Len(index) > IndexCap PROVE stage'[Head(index)] # "complete"
    <3>1. 1 \in DOMAIN index /\ 2 \in DOMAIN index /\ Head(index) = index[1]
      BY <2>1, <2>3, CapsAssumption DEF CapsAssumption
    <3>2. index[1] < index[2] /\ index[1] \in Updates /\ index[2] \in Updates
      BY <2>1, <3>1 DEF IndexInv, Ascending
    <3>3. index[2] = cur \/ index[2] < cur
      BY <1>1, <3>1 DEF Range
    <3>4. index[1] # cur
      <4>1. index[1] \in Nat /\ index[2] \in Nat /\ cur \in Nat
        BY <1>1, <3>2, UpdatesAssumption DEF UpdatesAssumption
      <4>2. \A i, j, k \in Nat : i < j /\ (j = k \/ j < k) => i # k
        OBVIOUS
      <4> HIDE DEF Ascending
      <4> QED
        BY <3>2, <3>3, <4>1, <4>2, Zenon
    <3> QED
      BY <2>2, <2>3, <3>1, <3>2, <3>4 DEF IndexInv
  <2>4. \A u \in Updates : stage'[u] # "absent" <=> u \in Range(index)
    BY <1>3, <2>2 DEF IndexInv
  <2> QED
    BY <2>3, <2>4 DEF IndexInv, Ascending
<1> QED
  BY <1>2, <1>3

\* A step that leaves the conversation alone, and the poll goroutine outside a
\* submission or where it was.
LEMMA ConversationStands ==
    ASSUME ConversationInv, UNCHANGED <<history, appended, memory, loaded, stage>>,
           pc' \notin Submitting \/ (pc' = pc /\ cur' = cur)
    PROVE  ConversationInv'
<1>1. InSubmission' = InSubmission
  BY DEF InSubmission
<1>2. Ascending(history)' /\ Ascending(memory)' /\ Newest(history, appended)'
  BY DEF ConversationInv, Ascending, Newest
<1>3. (~loaded => memory = <<>> /\ pc \notin Submitting)' /\ (pc \in AfterMessage => cur \in Range(memory))'
  BY DEF ConversationInv, Submitting, AfterMessage
<1> QED
  BY <1>1, <1>2, <1>3 DEF ConversationInv

\* The process forgets the conversation when it dies and reads it from the store.
LEMMA CrashConversation ==
    ASSUME ConversationInv, Crash
    PROVE  ConversationInv'
<1>1. /\ memory' = <<>> /\ ~loaded' /\ pc' \notin Submitting /\ pc' \notin AfterMessage
      /\ UNCHANGED <<history, appended>>
  BY DEF Crash, store, past, Submitting, AfterMessage
<1>2. Range(memory') = {} /\ Ascending(memory)'
  BY <1>1 DEF Range, Ascending
<1>3. Ascending(history)' /\ Newest(history, appended)'
  BY <1>1 DEF ConversationInv, Ascending, Newest
<1> QED
  BY <1>1, <1>2, <1>3 DEF ConversationInv

LEMMA LoadHistoryConversation ==
    ASSUME TypeOK, ConversationInv, LoadHistory
    PROVE  ConversationInv'
<1>1. /\ UNCHANGED <<history, appended, stage, pc, cur>>
      /\ memory = <<>> /\ pc \notin Submitting
      /\ UNCHANGED <<memory, loaded>> \/ (loaded' /\ memory' = KeepLast(history \o memory, HistoryCap))
  BY DEF LoadHistory, ConversationInv, store, past
<1>2. CASE UNCHANGED <<memory, loaded>>
  BY <1>1, <1>2, ConversationStands
<1>3. CASE loaded' /\ memory' = KeepLast(history \o memory, HistoryCap)
  <2>1. history \in Seq(Updates) /\ Len(history) <= HistoryCap
    BY DEF TypeOK, StoreTypeOK
  <2>2. history \o memory = history
    BY <1>1, <2>1, ConcatEmptySeq
  <2>3. memory' = history
    BY <1>3, <2>1, <2>2 DEF KeepLast
  <2>4. pc' \notin Submitting /\ pc' \notin AfterMessage
    BY <1>1 DEF Submitting, AfterMessage
  <2>5. Ascending(history)' /\ Newest(history, appended)' /\ Ascending(memory)'
    BY <1>1, <2>3 DEF ConversationInv, Ascending, Newest
  <2>6. Range(memory') = Range(history) /\ Range(history') = Range(history) /\ Range(appended') = Range(appended)
    BY <1>1, <2>3
  <2> QED
    BY <1>3, <2>4, <2>5, <2>6 DEF ConversationInv, Newest
<1> QED
  BY <1>1, <1>2, <1>3

\* A message that enters memory: nothing of the store is lost from it.
LEMMA RememberConversation ==
    ASSUME TypeOK, SubmissionInv, IndexInv, ConversationInv, pc \in Handling,
           cur \in Range(appended), UNCHANGED <<history, appended, cur>>, Remember(cur)
    PROVE  /\ Ascending(memory') /\ cur \in Range(memory')
           /\ Range(memory') \subseteq Range(appended)
           /\ Range(history) \ Range(memory') \subseteq Range(history) \ Range(memory)
<1>1. /\ cur \in Updates
      /\ \A v \in Range(index) \cup Range(appended) : v = cur \/ v < cur
  BY CurIsNewest
<1>2. /\ history \in Seq(Updates) /\ appended \in Seq(Updates) /\ memory \in Seq(Updates)
      /\ Len(history) <= HistoryCap /\ Len(memory) <= HistoryCap
  BY DEF TypeOK, StoreTypeOK, PastTypeOK, ProcessTypeOK
<1> QED
  BY <1>1, <1>2, RememberKeepsStore DEF ConversationInv

\* A reservation that finds the message appended puts it into memory.
LEMMA ReserveConversation ==
    ASSUME TypeOK, SubmissionInv, IndexInv, ConversationInv, Reserve
    PROVE  ConversationInv'
<1> DEFINE current == IF stage[cur] = "absent" THEN "reserved" ELSE stage[cur]
<1>1. pc = "reserve" /\ pc \in Handling /\ loaded
  BY DEF Reserve, Checked, Handling, Steps
<1>2. /\ cur \in Updates /\ Base <= cur /\ stage[cur] \in Stages
  BY <1>1, CurIsNewest DEF TypeOK, StoreTypeOK
<1>3. InSubmission' = InSubmission
  BY ReserveIndex
<1>4. /\ UNCHANGED <<history, appended, loaded, cur>>
      /\ \/ pc' \notin AfterMessage /\ memory' = memory
         \/ stage[cur] \in {"message", "stats", "job"} /\ Remember(cur)
  <2>1. UNCHANGED <<history, appended, loaded, cur>>
    BY DEF Reserve, SubmitFailed, past
  <2>2. \/ pc' = "refuse" /\ memory' = memory
        \/ /\ pc' = AfterReserve(current)
           /\ IF current \in {"message", "stats", "job"} THEN Remember(cur) ELSE memory' = memory
    BY DEF Reserve, SubmitFailed
  <2>3. current \notin {"message", "stats", "job"} => AfterReserve(current) \in {"event", "history"}
    BY <1>2 DEF AfterReserve, Stages
  <2>4. current \in {"message", "stats", "job"} => stage[cur] = current
    OBVIOUS
  <2> HIDE DEF current
  <2> QED
    BY <2>1, <2>2, <2>3, <2>4 DEF AfterMessage
<1>5. Ascending(history)' /\ Newest(history, appended)'
  BY <1>4 DEF ConversationInv, Ascending, Newest
<1>6. CASE pc' \notin AfterMessage /\ memory' = memory
  <2>1. Ascending(memory)'
    BY <1>6 DEF ConversationInv, Ascending
  <2> QED
    BY <1>1, <1>3, <1>4, <1>5, <1>6, <2>1 DEF ConversationInv
<1>7. CASE stage[cur] \in {"message", "stats", "job"} /\ Remember(cur)
  <2>1. cur \in Range(appended)
    BY <1>2, <1>7 DEF SubmissionInv, StageIsTrue
  <2>2. /\ Ascending(memory)' /\ cur \in Range(memory')
        /\ Range(memory') \subseteq Range(appended)
        /\ Range(history) \ Range(memory') \subseteq Range(history) \ Range(memory)
    BY <1>1, <1>4, <1>7, <2>1, RememberConversation DEF Ascending
  <2> QED
    BY <1>1, <1>3, <1>4, <1>5, <2>2 DEF ConversationInv
<1> QED
  BY <1>4, <1>6, <1>7

\* The message in work becomes the newest of the store, and of memory when the
\* reply arrives.
LEMMA SubmitMessageConversation ==
    ASSUME TypeOK, SubmissionInv, IndexInv, ConversationInv, SubmitMessage
    PROVE  ConversationInv'
<1>1. pc = "history" /\ pc \in Handling /\ stage[cur] = "reserved" /\ loaded
  BY DEF SubmitMessage, Handling, Steps, SubmissionInv, AtItsStage, ConversationInv, Submitting
<1>2. /\ cur \in Updates /\ Base <= cur /\ \A v \in Range(appended) : v = cur \/ v < cur
  BY <1>1, CurIsNewest
<1>3. cur \notin Range(appended)
  BY <1>1, <1>2 DEF SubmissionInv, StageIsTrue
<1>4. /\ history \in Seq(Updates) /\ appended \in Seq(Updates) /\ memory \in Seq(Updates)
      /\ Len(history) <= HistoryCap /\ Len(memory) <= HistoryCap
      /\ stage \in [Updates -> Stages] /\ HistoryCap \in Nat /\ HistoryCap > 0
  BY CapsAssumption DEF CapsAssumption, TypeOK, StoreTypeOK, PastTypeOK, ProcessTypeOK
<1>5. CASE UNCHANGED <<history, appended, stage, memory, loaded>> /\ pc' = "refuse"
  BY <1>5, ConversationStands DEF Submitting
<1>6. CASE /\ history' = KeepLast(Append(history, cur), HistoryCap)
           /\ appended' = Append(appended, cur) /\ stage' = [stage EXCEPT ![cur] = "message"]
           /\ loaded' = loaded
           /\ \/ memory' = memory /\ pc' = "refuse"
              \/ Remember(cur) /\ pc' = "stats" /\ cur' = cur
  <2> DEFINE s == Append(history, cur)
  <2>1. /\ s \in Seq(Updates) /\ Range(s) = Range(history) \cup {cur}
        /\ appended' \in Seq(Updates) /\ Range(appended') = Range(appended) \cup {cur}
    BY <1>2, <1>4, <1>6, AppendRange
  <2>2. Ascending(s)
    BY <1>2, <1>3, <1>4, AscendingAppend DEF ConversationInv, Newest
  <2> HIDE DEF s
  <2>3. /\ history' \in Seq(Updates) /\ Ascending(history)' /\ Newest(history', s)
        /\ Len(history') <= HistoryCap
    <3>1. history' = KeepLast(s, HistoryCap)
      BY <1>6 DEF s
    <3>2. LET t == KeepLast(s, HistoryCap) IN
            t \in Seq(Updates) /\ Ascending(t) /\ Newest(t, s) /\ Len(t) <= HistoryCap
      BY <1>4, <2>1, <2>2, KeepLastNewest
    <3> QED
      BY <3>1, <3>2 DEF Ascending
  <2>4. Newest(history', appended')
    <3>1. Range(history') \subseteq Range(appended')
      BY <2>1, <2>3 DEF Newest, ConversationInv
    <3>2. ASSUME NEW x \in Range(appended'), x \notin Range(history'), NEW y \in Range(history')
          PROVE  x < y
      <4>1. CASE x \in Range(s)
        BY <2>3, <3>2, <4>1 DEF Newest
      <4>2. CASE x \notin Range(s)
        <5>1. x \in Range(appended) /\ x \notin Range(history) /\ x < cur
          BY <1>2, <2>1, <3>2, <4>2
        <5>2. y \in Range(history) \/ y = cur
          BY <2>1, <2>3, <3>2 DEF Newest
        <5> QED
          BY <5>1, <5>2 DEF Newest, ConversationInv
      <4> QED
        BY <4>1, <4>2
    <3> QED
      BY <3>1, <3>2 DEF Newest
  <2>5. Range(history') \subseteq Range(history) \cup {cur}
    BY <2>1, <2>3 DEF Newest
  <2>6. InSubmission' = InSubmission \cup {cur}
    BY <1>2, <1>4, <1>6 DEF InSubmission
  <2>7. Range(history) \ Range(memory) \subseteq InSubmission /\ Range(memory) \subseteq Range(appended)
    BY <1>1 DEF ConversationInv
  <2>8. CASE memory' = memory /\ pc' = "refuse"
    <3>1. Ascending(memory)' /\ pc' \notin AfterMessage
      BY <2>8 DEF ConversationInv, Ascending, AfterMessage
    <3> QED
      BY <1>1, <1>6, <2>1, <2>3, <2>4, <2>5, <2>6, <2>7, <2>8, <3>1 DEF ConversationInv
  <2>9. CASE Remember(cur) /\ pc' = "stats" /\ cur' = cur
    <3>1. \A x \in Range(appended') : x = cur \/ x < cur
      BY <1>2, <2>1
    <3>2. Ascending(history') /\ Ascending(memory)
      BY <2>3 DEF Ascending, ConversationInv
    <3>3. /\ Ascending(memory') /\ cur \in Range(memory') /\ Range(memory') \subseteq Range(appended')
          /\ Range(history') \ Range(memory') \subseteq Range(history') \ Range(memory)
      BY <1>2, <1>4, <2>1, <2>3, <2>4, <2>7, <2>9, <3>1, <3>2, RememberKeepsStore
    <3>4. Ascending(memory)'
      BY <3>3 DEF Ascending
    <3> QED
      BY <1>1, <1>6, <2>3, <2>4, <2>5, <2>6, <2>7, <2>9, <3>3, <3>4 DEF ConversationInv
  <2> QED
    BY <1>6, <2>8, <2>9
<1> QED
  BY <1>1, <1>5, <1>6 DEF SubmitMessage, SubmitFailed

\* The later stages change no list; the last one is taken with the message in
\* memory.
LEMMA StageConversation ==
    ASSUME TypeOK, SubmissionInv, IndexInv, ConversationInv, SubmitStats \/ EnqueueTelegram \/ Complete
    PROVE  ConversationInv'
<1>1. /\ pc \in {"stats", "enqueue", "complete"} /\ pc \in Handling /\ loaded /\ cur \in Range(memory)
      /\ UNCHANGED <<history, appended, memory, loaded, cur>>
  <2>1. /\ pc \in {"stats", "enqueue", "complete"}
        /\ UNCHANGED <<history, appended, memory, loaded, cur>>
    BY DEF SubmitStats, EnqueueTelegram, Complete, SubmitFailed, past
  <2> QED
    BY <2>1 DEF ConversationInv, Submitting, AfterMessage, Handling, Steps
<1>2. cur \in Updates /\ stage \in [Updates -> Stages]
  BY <1>1, CurIsNewest DEF TypeOK, StoreTypeOK
<1>3. \E new \in {"stats", "job", "complete"} :
        stage' = stage \/ stage' = [stage EXCEPT ![cur] = new]
  BY DEF SubmitStats, EnqueueTelegram, Complete, StageAfterPush
<1>4. InSubmission \ {cur} \subseteq InSubmission'
  BY <1>2, <1>3 DEF InSubmission
<1>5. Ascending(history)' /\ Ascending(memory)' /\ Newest(history, appended)'
  BY <1>1 DEF ConversationInv, Ascending, Newest
<1> QED
  BY <1>1, <1>4, <1>5 DEF ConversationInv

\* Every step keeps the stores in agreement.
LEMMA StoresStep ==
    ASSUME TypeOK, SubmissionInv, IndexInv, ConversationInv, [Next]_vars
    PROVE  IndexInv' /\ ConversationInv'
<1>1. CASE Reserve
  BY <1>1, ReserveIndex, ReserveConversation
<1>2. CASE SubmitMessage \/ SubmitStats \/ EnqueueTelegram \/ Complete
  <2>1. pc \in Handling /\ index' = index
    BY <1>2 DEF SubmitMessage, SubmitStats, EnqueueTelegram, Complete, Handling, Steps
  <2>2. \E new \in {"message", "stats", "job", "complete"} :
          stage' = stage \/ (stage[cur] # "absent" /\ stage' = [stage EXCEPT ![cur] = new])
    BY <1>2 DEF SubmitMessage, SubmitStats, EnqueueTelegram, Complete, StageAfterPush,
                SubmissionInv, AtItsStage
  <2>3. IndexInv'
    BY <2>1, <2>2, StageIndex
  <2> QED
    BY <1>2, <2>3, SubmitMessageConversation, StageConversation
<1>3. CASE Crash \/ LoadHistory
  <2>1. UNCHANGED <<index, stage>>
    BY <1>3 DEF Crash, LoadHistory, store
  <2>2. IndexInv'
    BY <2>1 DEF IndexInv, Ascending
  <2> QED
    BY <1>3, <2>2, CrashConversation, LoadHistoryConversation
<1>4. CASE \/ Start \/ Load \/ Connect \/ Abandon \/ GetUpdates \/ NextUpdate \/ Observe
           \/ LogEvent \/ SetOffset \/ Advance \/ Refuse
  <2>1. /\ UNCHANGED <<index, stage, history, appended, memory, loaded>> /\ pc' \notin Submitting
    BY <1>4 DEF Start, Load, Connect, Abandon, CheckedSteps, GetUpdates, NextUpdate, Observe, LogEvent, SetOffset,
       Advance, Refuse, Retry, Checked, store, past, Submitting
  <2>2. IndexInv'
    BY <2>1 DEF IndexInv, Ascending
  <2> QED
    BY <2>1, <2>2, ConversationStands
<1>5. CASE Rotate \/ SetUsers \/ (\E u \in Updates : Arrive(u)) \/ UNCHANGED vars
  <2>1. UNCHANGED <<index, stage, history, appended, memory, loaded, pc, cur>>
    BY <1>5 DEF Rotate, SetUsers, Arrive, vars, store, process, past
  <2>2. IndexInv'
    BY <2>1 DEF IndexInv, Ascending
  <2> QED
    BY <2>1, <2>2, ConversationStands
<1> QED
  BY <1>1, <1>2, <1>3, <1>4, <1>5 DEF Next, Poller, Submit

\* A record is in the index exactly while it exists, the index exceeds its cap
\* only behind a partial record, and the conversation in memory misses no
\* stored message but one whose submission is still under way (StoresAgree:
\* the scripts of chat.go submitTelegram and the trim of chat.Service.history).
THEOREM StoresAlwaysAgree == Spec => []StoresAgree
<1>1. Init => IndexInv /\ ConversationInv
  <2> SUFFICES ASSUME Init PROVE IndexInv /\ ConversationInv
    OBVIOUS
  <2>1. /\ index = <<>> /\ history = <<>> /\ memory = <<>> /\ appended = <<>> /\ pc = "down" /\ ~loaded
        /\ \A u \in Updates : stage[u] = "absent"
    BY DEF Init
  <2>2. /\ Range(index) = {} /\ Range(history) = {} /\ Range(memory) = {} /\ Range(appended) = {}
        /\ Ascending(index) /\ Ascending(history) /\ Ascending(memory) /\ Len(index) = 0
    BY <2>1 DEF Range, Ascending
  <2> QED
    BY <2>1, <2>2, CapsAssumption DEF CapsAssumption, IndexInv, ConversationInv, Newest, Submitting, AfterMessage
<1>2. TypeOK /\ SubmissionInv /\ IndexInv /\ ConversationInv /\ [Next]_vars => (IndexInv /\ ConversationInv)'
  BY StoresStep
<1>3. TypeOK /\ IndexInv /\ ConversationInv => StoresAgree
  <2> SUFFICES ASSUME TypeOK, IndexInv, ConversationInv PROVE StoresAgree
    OBVIOUS
  <2>1. IsInjective(index) /\ IsInjective(memory)
    BY AscendingIsInjective DEF TypeOK, StoreTypeOK, ProcessTypeOK, IndexInv, ConversationInv
  <2> QED
    BY <2>1 DEF StoresAgree, IndexSound, MemoryIsStore, IndexInv, ConversationInv, InSubmission
<1> QED
  BY <1>1, <1>2, <1>3, SubmissionCorrect, PTL DEF Spec
-----------------------------------------------------------------------------
(* The bot token and what hangs on it: theorems about TelegramBot, the     *)
(* other half of the service, for every set of tokens and every bound.  It *)
(* is instantiated, since the two halves name their steps alike.           *)

CONSTANTS Tokens, NoToken, Threshold, Chunks, FirstToken, Revocable, MaxRefreshes, MaxMishaps
VARIABLES file, valid, cached, refresh, outcome, slot, botPc, phase, token, context, status,
          failures, greeted, flags, recent, note, sender, refreshes, mishaps, good, authOpen,
          suspended, torn

Bot == INSTANCE TelegramBot WITH pc <- botPc

Kinds == {"auth", "conflict", "suspended", "delivery", "recovered", "connected"}
BotSteps == {"down", "resolve", "start", "request", "sleep", "noting", "ended", "ended auth",
             "wait secret", "wait auth", "greet note", "auth note", "suspend note",
             "conflict note", "recover note"}

\* The values of the variables the invariants speak about.
ProcessValues ==
    /\ file \in Tokens \cup {NoToken} /\ cached \in Tokens \cup {NoToken}
    /\ token \in Tokens \cup {NoToken}
    /\ refresh \in {"idle", "clear", "cancel", "send"} /\ slot \in {"empty", "ok", "failed"}
    /\ outcome \in {"ok", "failed"} /\ botPc \in BotSteps
    /\ context \in {"none", "live", "cancelled"}
NoteValues == note \in {Bot!NoNote} \cup [kind : Kinds, by : {"life", "reply"}]
Senders == [pc : {"idle", "sending", "failed", "noting"}, same : BOOLEAN,
            token : Tokens \cup {NoToken}, chunk : Nat]
SenderValues == sender \in Senders
FlagValues ==
    /\ flags \subseteq {"auth", "suspended", "conflict", "delivery"}
    /\ recent \subseteq {"suspended", "delivery"}
HistoryValues == torn \in BOOLEAN /\ authOpen \in BOOLEAN /\ suspended \in BOOLEAN
BotValues == ProcessValues /\ NoteValues /\ SenderValues /\ FlagValues /\ HistoryValues

\* How the steps of the two goroutines belong to the generation and to the note.
StepInv ==
    /\ context # "none" <=> botPc \notin Bot!Waits \cup {"down", "resolve", "start"}
    /\ token # NoToken <=> context # "none" \/ botPc = "start"
    /\ botPc = "noting" <=> note # Bot!NoNote /\ note.by = "life"
    /\ sender.pc = "noting" <=> note # Bot!NoNote /\ note.by = "reply"

\* Unless a refresh settles, the generation has the token read last, and so
\* has the resolver, which only a goroutine that waits for a secret may find
\* outdated: it will not ask before a revision says that one was read.
TokenInv ==
    /\ refresh = "idle" /\ slot = "empty" =>
        /\ context = "live" \/ botPc = "start" => token = good
        /\ cached \in {good, NoToken} \/ botPc = "wait secret"
    /\ refresh = "idle" /\ slot = "ok" => cached = good
    /\ refresh # "idle" /\ outcome = "ok" => cached = good
    /\ sender.pc = "sending" /\ sender.same /\ context # "none" => sender.token = token

\* While no command got lost, a flag stands for a notification that was told
\* or is in hand, and the notification in hand is not one that was told.
FlagInv ==
    ~torn =>
        /\ note # Bot!NoNote => Bot!Marks(note.kind) \subseteq flags
        /\ "conflict" \in flags => "suspended" \in flags
        /\ note.kind = "suspended" => "conflict" \notin flags
        /\ note.kind = "recovered" => "suspended" \notin flags
        /\ "suspended" \in flags => suspended \/ note.kind \in {"suspended", "conflict"}
        /\ note.kind = "auth" => ~authOpen
        /\ "auth" \in flags <=> authOpen \/ note.kind = "auth"

BotInv == BotValues /\ StepInv /\ TokenInv /\ FlagInv

USE DEF Bot!Outcome, Bot!Applied, Bot!Replied

-----------------------------------------------------------------------------
(* What raising a notification does.                                       *)

\* The notes of lifecycle are of the kinds there are.
LEMMA NoteAtKind ==
    ASSUME botPc \in DOMAIN Bot!NoteAt
    PROVE  Bot!NoteAt[botPc] \in {"auth", "conflict", "suspended", "recovered", "connected"}
  BY DEF Bot!NoteAt

\* What the flags, and the note in hand, are after a notification was raised:
\* a note is put in hand with its flags, and only if it is due.
Raised(kind, by) ==
    /\ note = Bot!NoNote
    /\ \/ note' = Bot!NoNote
       \/ (note' = [kind |-> kind, by |-> by] /\ note'.kind = kind /\ note'.by = by)
    /\ FlagValues'
    /\ torn' \in BOOLEAN
    /\ ~torn' => ~torn
    /\ ~torn' /\ note' = Bot!NoNote => flags' = flags
    /\ ~torn' /\ note' # Bot!NoNote =>
        /\ flags' = IF kind = "recovered" THEN flags \ {"suspended", "conflict"}
                    ELSE flags \cup Bot!Marks(kind)
        /\ kind = "auth" => "auth" \notin flags
        /\ kind = "suspended" => "suspended" \notin flags

\* Raising is due only when the flags, as far as they could be read, say so.
LEMMA RaiseEffect ==
    ASSUME FlagValues, HistoryValues, NEW by \in {"life", "reply"}, NEW kind \in Kinds,
           NEW read \in Bot!Outcome, NEW write \in Bot!Outcome, NEW live \in BOOLEAN,
           Bot!Raise(by, kind, read, write, live)
    PROVE  Raised(kind, by)
<1> USE DEF Raised, FlagValues, Bot!NoNote, Kinds
<1>1. PICK elapsed \in SUBSET (recent \cap Bot!Times(kind)) :
        LET seen(x) == IF Bot!Replied(read) THEN x ELSE {}
            due == live /\ Bot!Due(kind, seen(flags), seen(recent \ elapsed))
            wrote == due /\ Bot!Applied(write)
        IN  /\ note = Bot!NoNote
            /\ torn' = (torn \/ ~Bot!Replied(read) \/ ~Bot!Replied(write))
            /\ flags' = IF ~wrote THEN flags
                        ELSE IF kind = "recovered" THEN flags \ {"suspended", "conflict"}
                        ELSE flags \cup Bot!Marks(kind)
            /\ recent' = IF wrote THEN recent \cup Bot!Times(kind) ELSE recent
            /\ note' = IF due /\ (Bot!Replied(write) \/ kind = "recovered")
                       THEN [kind |-> kind, by |-> by] ELSE note
  BY Zenon DEF Bot!Raise
<1> DEFINE seen(x) == IF Bot!Replied(read) THEN x ELSE {}
           due == live /\ Bot!Due(kind, seen(flags), seen(recent \ elapsed))
           wrote == due /\ Bot!Applied(write)
<1>2. torn' \in BOOLEAN /\ (~torn' => ~torn /\ read = "ok" /\ write = "ok")
  BY <1>1 DEF HistoryValues
<1>3. note = Bot!NoNote
  BY <1>1
<1>4. note' = IF due /\ (write = "ok" \/ kind = "recovered") THEN [kind |-> kind, by |-> by]
              ELSE note
  BY <1>1
<1>5. \/ note' = Bot!NoNote
      \/ (note' = [kind |-> kind, by |-> by] /\ note'.kind = kind /\ note'.by = by)
  BY <1>3, <1>4
<1>6. FlagValues'
  BY <1>1 DEF Bot!Marks, Bot!Times
<1>7. ASSUME ~torn', note' = Bot!NoNote PROVE flags' = flags
  <2>1. ~due
    BY <1>2, <1>4, <1>7
  <2> QED
    BY <1>1, <2>1
<1>8. ASSUME ~torn', note' # Bot!NoNote
      PROVE  /\ flags' = IF kind = "recovered" THEN flags \ {"suspended", "conflict"}
                         ELSE flags \cup Bot!Marks(kind)
             /\ kind = "auth" => "auth" \notin flags
             /\ kind = "suspended" => "suspended" \notin flags
  <2>1. due /\ read = "ok" /\ write = "ok"
    BY <1>2, <1>3, <1>4, <1>8
  <2>2. flags' = IF kind = "recovered" THEN flags \ {"suspended", "conflict"}
                 ELSE flags \cup Bot!Marks(kind)
    BY <1>1, <2>1
  <2>3. (kind = "auth" => "auth" \notin flags) /\ (kind = "suspended" => "suspended" \notin flags)
    BY <2>1 DEF Bot!Due
  <2> QED
    BY <2>2, <2>3
<1> QED
  BY <1>2, <1>3, <1>5, <1>6, <1>7, <1>8, Zenon DEF Raised

\* A notification raised keeps what the flags say.
LEMMA RaiseFlags ==
    ASSUME FlagInv, HistoryValues, NEW by \in {"life", "reply"}, NEW kind \in Kinds,
           Raised(kind, by), UNCHANGED <<authOpen, suspended>>
    PROVE  FlagInv'
<1> USE DEF FlagInv, Raised, Bot!NoNote
<1>1. CASE torn'
  BY <1>1
<1>2. CASE ~torn' /\ note' = Bot!NoNote
  BY <1>2
<1>3. CASE ~torn' /\ note' # Bot!NoNote
  <2>1. note'.kind = kind
    BY <1>3
  <2>2. CASE kind = "recovered"
    BY <1>3, <2>1, <2>2 DEF Bot!Marks
  <2>3. CASE kind # "recovered"
    BY <1>3, <2>1, <2>3 DEF Bot!Marks, Kinds
  <2> QED
    BY <2>2, <2>3
<1> QED
  BY <1>1, <1>2, <1>3

\* The goroutine raises what its step calls for.
LEMMA LifeRaises ==
    ASSUME BotValues, Bot!LifeNotes
    PROVE  /\ Raised(Bot!NoteAt[botPc], "life") /\ botPc \in DOMAIN Bot!NoteAt
           /\ botPc' = IF note' # Bot!NoNote THEN "noting" ELSE Bot!After(Bot!NoteAt[botPc])
           /\ FlagInv => FlagInv'
<1>1. PICK read, write \in Bot!Outcome :
        /\ botPc \in DOMAIN Bot!NoteAt
        /\ Bot!Raise("life", Bot!NoteAt[botPc], read, write, context = "live")
        /\ botPc' = IF note' # Bot!NoNote THEN "noting" ELSE Bot!After(Bot!NoteAt[botPc])
        /\ UNCHANGED <<authOpen, suspended>>
  BY DEF Bot!LifeNotes
<1> DEFINE kind == Bot!NoteAt[botPc]
           live == context = "live"
<1>2. kind \in Kinds /\ live \in BOOLEAN
  BY <1>1, NoteAtKind DEF Kinds
<1>3. Raised(kind, "life")
  BY <1>1, <1>2, RaiseEffect DEF BotValues
<1>4. FlagInv => FlagInv'
  BY <1>1, <1>2, <1>3, RaiseFlags DEF BotValues
<1> QED
  BY <1>1, <1>3, <1>4

\* A delivery that failed raises its notification from the sender.
LEMMA ReplyRaises ==
    ASSUME BotValues, Bot!Fail
    PROVE  /\ Raised("delivery", "reply")
           /\ FlagInv => FlagInv'
<1>1. PICK read, write \in Bot!Outcome :
        /\ Bot!Raise("reply", "delivery", read, write, TRUE)
        /\ UNCHANGED <<authOpen, suspended>>
  BY DEF Bot!Fail
<1>2. Raised("delivery", "reply")
  BY <1>1, RaiseEffect DEF BotValues, Kinds
<1> QED
  BY <1>1, <1>2, RaiseFlags DEF BotValues, Kinds

\* A sender with nothing to send.
LEMMA IdleValues ==
    Bot!Idle \in Senders /\ Bot!Idle.pc = "idle" /\ ~Bot!Idle.same /\ Bot!Idle.chunk = 0
  BY DEF Bot!Idle, Senders

\* What creating a notification does besides the flags.
LEMMA NotifyFrame ==
    ASSUME NoteValues, Bot!Notify
    PROVE  /\ note # Bot!NoNote /\ note' = Bot!NoNote
           /\ UNCHANGED <<file, cached, refresh, outcome, good, slot, token, context>>
           /\ \/ /\ note.by = "life" /\ sender' = sender
                 /\ botPc' \in {"ended auth", "sleep", "request"}
              \/ note.by = "reply" /\ botPc' = botPc /\ sender' = Bot!Idle
<1>1. /\ note # Bot!NoNote /\ note' = Bot!NoNote
      /\ UNCHANGED <<file, cached, refresh, outcome, good, slot, token, context>>
      /\ botPc' = IF note.by = "life" THEN Bot!After(note.kind) ELSE botPc
      /\ sender' = IF note.by = "reply" THEN Bot!Idle ELSE sender
  BY DEF Bot!Notify, Bot!resolver
<1>2. note.by \in {"life", "reply"}
  BY <1>1 DEF NoteValues
<1>3. Bot!After(note.kind) \in {"ended auth", "sleep", "request"}
  BY DEF Bot!After
<1> QED
  BY <1>1, <1>2, <1>3

\* An authentication failure or a suspension counts as told when it was
\* created, and its flags go when it was not.
LEMMA NotifyFlags ==
    ASSUME NoteValues, FlagValues, HistoryValues, Bot!Notify
    PROVE  /\ FlagValues' /\ HistoryValues'
           /\ FlagInv => FlagInv'
<1>1. PICK o, p \in Bot!Outcome :
        LET live == note.by = "reply" \/ context = "live"
            applied == live /\ Bot!Applied(o)
            told == live /\ Bot!Replied(o)
            kind == note.kind
        IN  /\ note # Bot!NoNote
            /\ ~live => o = "ok"
            /\ IF o = "ok" THEN Bot!Fault(p) ELSE Bot!Fault(o) /\ p = "ok"
            /\ p # "ok" => IF told THEN kind = "connected"
                           ELSE kind \notin {"connected", "recovered"}
            /\ flags' = IF told /\ kind = "connected" /\ Bot!Applied(p) THEN flags \ {"auth"}
                        ELSE IF told \/ kind \in {"connected", "recovered"} THEN flags
                        ELSE flags \ Bot!Undo(kind, live, p)
            /\ recent' = IF told \/ ~Bot!Applied(p) THEN recent ELSE recent \ Bot!Times(kind)
            /\ torn' = (torn \/ o = "lost reply" \/ ~Bot!Replied(p))
            /\ greeted' = (greeted \/ (told /\ kind = "connected"))
            /\ authOpen' = IF told /\ kind = "connected" THEN FALSE
                            ELSE authOpen \/ (applied /\ kind = "auth")
            /\ suspended' = IF applied /\ kind = "recovered" THEN FALSE
                            ELSE suspended \/ (applied /\ kind \in {"suspended", "conflict"})
            /\ note' = Bot!NoNote
            /\ botPc' = IF note.by = "life" THEN Bot!After(kind) ELSE botPc
            /\ sender' = IF note.by = "reply" THEN Bot!Idle ELSE sender
            /\ UNCHANGED <<Bot!resolver, valid, slot, phase, token, context, status, failures>>
  BY DEF Bot!Notify
<1> DEFINE live == note.by = "reply" \/ context = "live"
           applied == live /\ Bot!Applied(o)
           told == live /\ Bot!Replied(o)
           kind == note.kind
<1>2. note \in [kind : Kinds, by : {"life", "reply"}] /\ kind \in Kinds /\ kind # "none"
  BY <1>1 DEF NoteValues, Kinds
<1>3. live \in BOOLEAN
  OBVIOUS
<1> HIDE DEF live
<1>4. FlagValues'
  <2>1. flags' \subseteq flags /\ recent' \subseteq recent
    BY <1>1
  <2> QED
    BY <2>1 DEF FlagValues
<1>5. HistoryValues'
  BY <1>1, <1>3 DEF HistoryValues
<1>6. ASSUME FlagInv PROVE FlagInv'
  <2>1. CASE torn'
    BY <2>1 DEF FlagInv
  <2>2. CASE ~torn'
    <3>1. ~torn /\ p = "ok" /\ (o = "ok" \/ o = "lost command")
      BY <1>1, <2>2 DEF HistoryValues
    <3>2. applied = told
      BY <3>1
    <3>3. FlagInv!2
      BY <1>6, <3>1 DEF FlagInv
    <3> QED
      BY <1>1, <1>2, <3>1, <3>2, <3>3 DEF FlagInv, Bot!Undo, Bot!Marks, Kinds, Bot!NoNote
  <2> QED
    BY <2>1, <2>2
<1> QED
  BY <1>4, <1>5, <1>6

\* What the steps of a delivery leave alone.
LEMMA DeliveryFrame ==
    ASSUME Bot!SendChunk \/ Bot!GiveUp \/ Bot!Succeed \/ Bot!Fail
    PROVE  UNCHANGED <<file, cached, refresh, outcome, good, slot, botPc, token, context>>
<1>1. CASE Bot!SendChunk
  BY <1>1 DEF Bot!SendChunk, Bot!resolver, Bot!process
<1>2. CASE Bot!GiveUp
  BY <1>2 DEF Bot!GiveUp, Bot!resolver, Bot!process
<1>3. CASE Bot!Succeed
  BY <1>3 DEF Bot!Succeed, Bot!resolver, Bot!process
<1>4. CASE Bot!Fail
  BY <1>4 DEF Bot!Fail, Bot!resolver, Bot!process
<1> QED
  BY <1>1, <1>2, <1>3, <1>4

\* A chunk leaves in an uncancelled generation that is still the sender's own.
LEMMA ChunkEffect ==
    ASSUME SenderValues, Bot!SendChunk
    PROVE  /\ sender.pc = "sending" /\ sender.same /\ context = "live"
           /\ SenderValues' /\ UNCHANGED note /\ sender'.pc \in {"sending", "failed"}
           /\ sender'.pc = "sending" => sender'.token = sender.token /\ sender'.same = sender.same
<1>1. PICK ok \in BOOLEAN :
        /\ sender.pc = "sending" /\ Bot!Current
        /\ sender' = IF ok THEN [sender EXCEPT !.chunk = @ + 1]
                     ELSE [Bot!Idle EXCEPT !.pc = "failed", !.same = TRUE]
        /\ UNCHANGED note
  BY DEF Bot!SendChunk, Bot!notes
<1>2. sender \in Senders
  BY DEF SenderValues
<1>3. CASE ok = TRUE
  <2>1. sender' = [sender EXCEPT !.chunk = sender.chunk + 1]
    BY <1>1, <1>3
  <2>2. sender'.pc = "sending" /\ sender'.token = sender.token /\ sender'.same = sender.same
    BY <1>1, <1>2, <2>1 DEF Senders
  <2>3. sender' \in Senders
    BY <1>2, <2>1 DEF Senders
  <2> QED
    BY <1>1, <2>2, <2>3 DEF Bot!Current, SenderValues
<1>4. CASE ok = FALSE
  <2>1. sender' = [Bot!Idle EXCEPT !.pc = "failed", !.same = TRUE]
    BY <1>1, <1>4
  <2>2. sender'.pc = "failed" /\ sender' \in Senders
    BY <2>1 DEF Bot!Idle, Senders
  <2> QED
    BY <1>1, <2>2 DEF Bot!Current, SenderValues
<1> QED
  BY <1>3, <1>4

\* A delivery that succeeded drops its flag and nothing else.
LEMMA SucceedEffect ==
    ASSUME HistoryValues, Bot!Succeed
    PROVE  /\ sender' = Bot!Idle /\ sender.pc = "sending" /\ UNCHANGED <<note, authOpen, suspended>>
           /\ note = Bot!NoNote
           /\ flags' = flags \/ flags' = flags \ {"delivery"}
           /\ torn' \in BOOLEAN /\ (~torn' => ~torn)
  BY DEF Bot!Succeed, Bot!Torn, HistoryValues

\* A delivery that failed ends, or waits for its notification.
LEMMA FailEffect ==
    ASSUME SenderValues, Bot!Fail
    PROVE  /\ sender.pc = "failed" /\ UNCHANGED <<authOpen, suspended>>
           /\ SenderValues'
           /\ note' # Bot!NoNote => sender'.pc = "noting" /\ sender'.chunk = sender.chunk
           /\ note' = Bot!NoNote => sender' = Bot!Idle
<1>1. /\ sender.pc = "failed" /\ UNCHANGED <<authOpen, suspended>>
      /\ sender' = IF note' # Bot!NoNote THEN [sender EXCEPT !.pc = "noting"] ELSE Bot!Idle
  BY DEF Bot!Fail
<1>2. CASE note' # Bot!NoNote
  <2>1. sender' = [sender EXCEPT !.pc = "noting"]
    BY <1>1, <1>2
  <2>2. sender' \in Senders /\ sender'.pc = "noting" /\ sender'.chunk = sender.chunk
    BY <2>1 DEF SenderValues, Senders
  <2> QED
    BY <1>1, <1>2, <2>2 DEF SenderValues
<1>3. CASE note' = Bot!NoNote
  BY <1>1, <1>3, IdleValues DEF SenderValues
<1> QED
  BY <1>2, <1>3

\* The callback of a refresh lets an authentication failure be told again.
LEMMA ClearEffect ==
    ASSUME HistoryValues, Bot!ClearAuth
    PROVE  /\ note = Bot!NoNote /\ UNCHANGED <<note, suspended>> /\ authOpen' = FALSE
           /\ torn' \in BOOLEAN /\ (~torn' => ~torn /\ flags' = flags \ {"auth"})
  BY DEF Bot!ClearAuth, Bot!Torn, HistoryValues

\* Where the goroutine goes with a note in hand or without.
LEMMA LifeNotesSteps ==
    ASSUME BotValues, StepInv, Bot!LifeNotes
    PROVE  StepInv'
<1>1. UNCHANGED <<token, context, sender>> /\ botPc \in DOMAIN Bot!NoteAt
  BY DEF Bot!LifeNotes
<1>2. /\ Raised(Bot!NoteAt[botPc], "life")
      /\ botPc' = IF note' # Bot!NoNote THEN "noting" ELSE Bot!After(Bot!NoteAt[botPc])
  BY LifeRaises
<1> DEFINE kind == Bot!NoteAt[botPc]
<1>3. kind \in {"auth", "conflict", "suspended", "recovered", "connected"}
  BY <1>1, NoteAtKind
<1>4. botPc \in {"greet note", "auth note", "suspend note", "conflict note", "recover note"}
  BY <1>1 DEF Bot!NoteAt
<1>5. Bot!After(kind) \in {"ended auth", "sleep", "request"}
  BY <1>3 DEF Bot!After
<1>11. Raised(kind, "life") /\ botPc' = IF note' # Bot!NoNote THEN "noting" ELSE Bot!After(kind)
  BY <1>2
<1> HIDE DEF kind
<1>6. botPc' # "noting" <=> note' = Bot!NoNote
  BY <1>11, <1>5
<1>7. note' # Bot!NoNote => note'.by = "life"
  BY <1>11 DEF Raised
<1>8. sender.pc # "noting"
  BY <1>11 DEF Raised, StepInv
<1>9. context' # "none" /\ token' # NoToken
  BY <1>1, <1>4 DEF StepInv, Bot!Waits
<1>10. botPc' \notin Bot!Waits \cup {"down", "resolve", "start"}
  BY <1>11, <1>5 DEF Bot!Waits
<1> QED
  BY <1>1, <1>6, <1>7, <1>8, <1>9, <1>10 DEF StepInv, Bot!NoNote

-----------------------------------------------------------------------------
(* The invariant is kept by every step.                                    *)

\* Every step keeps the values of the resolver and of the goroutine.
LEMMA ProcessValuesStep ==
    ASSUME ProcessValues, NoteValues, [Bot!Next]_(Bot!vars)
    PROVE  ProcessValues'
<1> USE DEF ProcessValues, BotSteps, Bot!resolver, Bot!process, Bot!notes, Bot!bounds
<1>1. CASE Bot!Refresh
  BY <1>1 DEF Bot!Refresh
<1>2. ASSUME NEW t \in Tokens \cup {NoToken}, Bot!Rewrite(t) PROVE ProcessValues'
  BY <1>2 DEF Bot!Rewrite
<1>3. CASE Bot!Crash
  BY <1>3 DEF Bot!Crash, Bot!Mishap, Bot!Idle
<1>4. ASSUME NEW t \in Revocable, Bot!Revoke(t) PROVE ProcessValues'
  BY <1>4 DEF Bot!Revoke
<1>5. CASE Bot!ClearAuth
  BY <1>5 DEF Bot!ClearAuth, Bot!Fault, Bot!Torn, Bot!Mishap
<1>6. CASE Bot!CancelGeneration
  BY <1>6 DEF Bot!CancelGeneration
<1>7. CASE Bot!SendRevision
  BY <1>7 DEF Bot!SendRevision, Bot!Newest
<1>8. CASE Bot!SuspendAsleep
  BY <1>8 DEF Bot!SuspendAsleep, Bot!Quiet, Bot!Life
<1>9. ASSUME NEW conflict \in BOOLEAN, NEW late \in BOOLEAN, Bot!Retry(conflict, late)
      PROVE ProcessValues'
  BY <1>9 DEF Bot!Retry, Bot!Life, Bot!Suspends, Bot!Mishap
<1>10. CASE Bot!Boot
  BY <1>10 DEF Bot!Boot, Bot!Quiet, Bot!Life
<1>11. CASE Bot!Resolve
  BY <1>11 DEF Bot!Resolve, Bot!Quiet, Bot!Life, Bot!Resolved
<1>12. CASE Bot!Start
  BY <1>12 DEF Bot!Start, Bot!Quiet, Bot!Life, Bot!Idle
<1>13. CASE Bot!Abandoned
  BY <1>13 DEF Bot!Abandoned, Bot!Quiet
<1>14. CASE Bot!Answered
  BY <1>14 DEF Bot!Answered, Bot!Quiet, Bot!Life
<1>15. CASE Bot!Unauthorized
  BY <1>15 DEF Bot!Unauthorized, Bot!Quiet, Bot!Life
<1>16. CASE Bot!Awake
  BY <1>16 DEF Bot!Awake, Bot!Quiet, Bot!Life
<1>17. CASE Bot!LifeNotes
  BY <1>17 DEF Bot!LifeNotes, Bot!NoteAt, Bot!After
<1>18. CASE Bot!Ended
  BY <1>18 DEF Bot!Ended, Bot!Quiet
<1>19. CASE Bot!TakeRevision
  BY <1>19 DEF Bot!TakeRevision, Bot!Quiet
<1>20. CASE Bot!Notify
  BY <1>20, NotifyFrame
<1>21. CASE Bot!Capture
  BY <1>21 DEF Bot!Capture, Bot!Idle
<1>22. CASE Bot!SendChunk
  BY <1>22, DeliveryFrame
<1>23. CASE Bot!GiveUp
  BY <1>23, DeliveryFrame
<1>24. CASE Bot!Succeed
  BY <1>24, DeliveryFrame
<1>25. CASE Bot!Fail
  BY <1>25, DeliveryFrame
<1>26. CASE UNCHANGED Bot!vars
  BY <1>26 DEF Bot!vars
<1> HIDE DEF ProcessValues, BotSteps, Bot!resolver, Bot!process, Bot!notes, Bot!bounds
<1> QED
  BY <1>1, <1>2, <1>3, <1>4, <1>5, <1>6, <1>7, <1>8, <1>9, <1>10, <1>11, <1>12, <1>13, <1>14,
      <1>15, <1>16, <1>17, <1>18, <1>19, <1>20, <1>21, <1>22, <1>23, <1>24, <1>25, <1>26, Zenon
      DEF Bot!Next, Bot!Operator, Bot!World, Bot!Callback, Bot!Trouble, Bot!Lifecycle, Bot!Deliver

\* Every step keeps the values of the sender.
LEMMA SenderValuesStep ==
    ASSUME BotValues, [Bot!Next]_(Bot!vars)
    PROVE  SenderValues'
<1> USE DEF BotValues, ProcessValues, SenderValues, Bot!resolver, Bot!process, Bot!notes, Bot!bounds
<1>1. CASE Bot!Refresh
  BY <1>1 DEF Bot!Refresh
<1>2. ASSUME NEW t \in Tokens \cup {NoToken}, Bot!Rewrite(t) PROVE SenderValues'
  BY <1>2 DEF Bot!Rewrite
<1>3. CASE Bot!Crash
  BY <1>3, IdleValues DEF Bot!Crash
<1>4. ASSUME NEW t \in Revocable, Bot!Revoke(t) PROVE SenderValues'
  BY <1>4 DEF Bot!Revoke
<1>5. CASE Bot!ClearAuth
  BY <1>5 DEF Bot!ClearAuth, Bot!Fault, Bot!Torn, Bot!Mishap
<1>6. CASE Bot!CancelGeneration
  BY <1>6 DEF Bot!CancelGeneration
<1>7. CASE Bot!SendRevision
  BY <1>7 DEF Bot!SendRevision, Bot!Newest
<1>8. CASE Bot!SuspendAsleep
  BY <1>8 DEF Bot!SuspendAsleep, Bot!Quiet, Bot!Life
<1>9. ASSUME NEW conflict \in BOOLEAN, NEW late \in BOOLEAN, Bot!Retry(conflict, late)
      PROVE SenderValues'
  BY <1>9 DEF Bot!Retry, Bot!Life, Bot!Suspends, Bot!Mishap
<1>10. CASE Bot!Boot
  BY <1>10 DEF Bot!Boot, Bot!Quiet, Bot!Life
<1>11. CASE Bot!Resolve
  BY <1>11 DEF Bot!Resolve, Bot!Quiet, Bot!Life, Bot!Resolved
<1>12. CASE Bot!Start
  BY <1>12, IdleValues DEF Bot!Start, Senders
<1>13. CASE Bot!Abandoned
  BY <1>13 DEF Bot!Abandoned, Bot!Quiet
<1>14. CASE Bot!Answered
  BY <1>14 DEF Bot!Answered, Bot!Quiet, Bot!Life
<1>15. CASE Bot!Unauthorized
  BY <1>15 DEF Bot!Unauthorized, Bot!Quiet, Bot!Life
<1>16. CASE Bot!Awake
  BY <1>16 DEF Bot!Awake, Bot!Quiet, Bot!Life
<1>17. CASE Bot!LifeNotes
  BY <1>17 DEF Bot!LifeNotes
<1>18. CASE Bot!Ended
  BY <1>18 DEF Bot!Ended, Bot!Quiet
<1>19. CASE Bot!TakeRevision
  BY <1>19 DEF Bot!TakeRevision, Bot!Quiet
<1>20. CASE Bot!Notify
  BY <1>20, NotifyFrame, IdleValues
<1>21. CASE Bot!Capture
  BY <1>21 DEF Bot!Capture, Senders
<1>22. CASE Bot!SendChunk
  BY <1>22, ChunkEffect
<1>23. CASE Bot!GiveUp
  BY <1>23, IdleValues DEF Bot!GiveUp
<1>24. CASE Bot!Succeed
  BY <1>24, SucceedEffect, IdleValues
<1>25. CASE Bot!Fail
  BY <1>25, FailEffect
<1>26. CASE UNCHANGED Bot!vars
  BY <1>26 DEF Bot!vars
<1> HIDE DEF BotValues, ProcessValues, SenderValues, Bot!resolver, Bot!process, Bot!notes,
            Bot!bounds
<1> QED
  BY <1>1, <1>2, <1>3, <1>4, <1>5, <1>6, <1>7, <1>8, <1>9, <1>10, <1>11, <1>12, <1>13, <1>14,
      <1>15, <1>16, <1>17, <1>18, <1>19, <1>20, <1>21, <1>22, <1>23, <1>24, <1>25, <1>26, Zenon
      DEF Bot!Next, Bot!Operator, Bot!World, Bot!Callback, Bot!Trouble, Bot!Lifecycle, Bot!Deliver

\* Every step keeps the values of the note in hand.
LEMMA NoteValuesStep ==
    ASSUME BotValues, [Bot!Next]_(Bot!vars)
    PROVE  NoteValues'
<1> USE DEF BotValues, NoteValues, Bot!NoNote, Bot!resolver, Bot!process, Bot!notes, Bot!bounds
<1>1. CASE Bot!Refresh
  BY <1>1 DEF Bot!Refresh
<1>2. ASSUME NEW t \in Tokens \cup {NoToken}, Bot!Rewrite(t) PROVE NoteValues'
  BY <1>2 DEF Bot!Rewrite
<1>3. CASE Bot!Crash
  BY <1>3 DEF Bot!Crash, Bot!Mishap, Bot!Idle
<1>4. ASSUME NEW t \in Revocable, Bot!Revoke(t) PROVE NoteValues'
  BY <1>4 DEF Bot!Revoke
<1>5. CASE Bot!ClearAuth
  BY <1>5 DEF Bot!ClearAuth, Bot!Fault, Bot!Torn, Bot!Mishap
<1>6. CASE Bot!CancelGeneration
  BY <1>6 DEF Bot!CancelGeneration
<1>7. CASE Bot!SendRevision
  BY <1>7 DEF Bot!SendRevision, Bot!Newest
<1>8. CASE Bot!SuspendAsleep
  BY <1>8 DEF Bot!SuspendAsleep, Bot!Quiet, Bot!Life
<1>9. ASSUME NEW conflict \in BOOLEAN, NEW late \in BOOLEAN, Bot!Retry(conflict, late)
      PROVE NoteValues'
  BY <1>9 DEF Bot!Retry, Bot!Life, Bot!Suspends, Bot!Mishap
<1>10. CASE Bot!Boot
  BY <1>10 DEF Bot!Boot, Bot!Quiet, Bot!Life
<1>11. CASE Bot!Resolve
  BY <1>11 DEF Bot!Resolve, Bot!Quiet, Bot!Life, Bot!Resolved
<1>12. CASE Bot!Start
  BY <1>12 DEF Bot!Start, Bot!Quiet, Bot!Life, Bot!Idle
<1>13. CASE Bot!Abandoned
  BY <1>13 DEF Bot!Abandoned, Bot!Quiet
<1>14. CASE Bot!Answered
  BY <1>14 DEF Bot!Answered, Bot!Quiet, Bot!Life
<1>15. CASE Bot!Unauthorized
  BY <1>15 DEF Bot!Unauthorized, Bot!Quiet, Bot!Life
<1>16. CASE Bot!Awake
  BY <1>16 DEF Bot!Awake, Bot!Quiet, Bot!Life
<1>17. CASE Bot!LifeNotes
  BY <1>17, LifeRaises, NoteAtKind DEF Raised, Kinds
<1>18. CASE Bot!Ended
  BY <1>18 DEF Bot!Ended, Bot!Quiet
<1>19. CASE Bot!TakeRevision
  BY <1>19 DEF Bot!TakeRevision, Bot!Quiet
<1>20. CASE Bot!Notify
  BY <1>20, NotifyFrame
<1>21. CASE Bot!Capture
  BY <1>21 DEF Bot!Capture, Bot!Idle
<1>22. CASE Bot!SendChunk
  BY <1>22, ChunkEffect
<1>23. CASE Bot!GiveUp
  BY <1>23 DEF Bot!GiveUp, Bot!Current, Bot!Idle
<1>24. CASE Bot!Succeed
  BY <1>24, SucceedEffect
<1>25. CASE Bot!Fail
  BY <1>25, ReplyRaises DEF Raised, Kinds
<1>26. CASE UNCHANGED Bot!vars
  BY <1>26 DEF Bot!vars
<1> HIDE DEF BotValues, NoteValues, Bot!NoNote, Bot!resolver, Bot!process, Bot!notes, Bot!bounds
<1> QED
  BY <1>1, <1>2, <1>3, <1>4, <1>5, <1>6, <1>7, <1>8, <1>9, <1>10, <1>11, <1>12, <1>13, <1>14,
      <1>15, <1>16, <1>17, <1>18, <1>19, <1>20, <1>21, <1>22, <1>23, <1>24, <1>25, <1>26, Zenon
      DEF Bot!Next, Bot!Operator, Bot!World, Bot!Callback, Bot!Trouble, Bot!Lifecycle, Bot!Deliver

\* Every step keeps the values of the flags and of the kinds notified before.
LEMMA FlagValuesStep ==
    ASSUME BotValues, [Bot!Next]_(Bot!vars)
    PROVE  FlagValues'
<1> USE DEF BotValues, FlagValues, Bot!resolver, Bot!process, Bot!notes, Bot!bounds
<1>1. CASE Bot!Refresh
  BY <1>1 DEF Bot!Refresh
<1>2. ASSUME NEW t \in Tokens \cup {NoToken}, Bot!Rewrite(t) PROVE FlagValues'
  BY <1>2 DEF Bot!Rewrite
<1>3. CASE Bot!Crash
  BY <1>3 DEF Bot!Crash, Bot!Mishap, Bot!Idle
<1>4. ASSUME NEW t \in Revocable, Bot!Revoke(t) PROVE FlagValues'
  BY <1>4 DEF Bot!Revoke
<1>5. CASE Bot!ClearAuth
  BY <1>5 DEF Bot!ClearAuth, Bot!Fault, Bot!Torn, Bot!Mishap
<1>6. CASE Bot!CancelGeneration
  BY <1>6 DEF Bot!CancelGeneration
<1>7. CASE Bot!SendRevision
  BY <1>7 DEF Bot!SendRevision, Bot!Newest
<1>8. CASE Bot!SuspendAsleep
  BY <1>8 DEF Bot!SuspendAsleep, Bot!Quiet, Bot!Life
<1>9. ASSUME NEW conflict \in BOOLEAN, NEW late \in BOOLEAN, Bot!Retry(conflict, late)
      PROVE FlagValues'
  BY <1>9 DEF Bot!Retry, Bot!Life, Bot!Suspends, Bot!Mishap
<1>10. CASE Bot!Boot
  BY <1>10 DEF Bot!Boot, Bot!Quiet, Bot!Life
<1>11. CASE Bot!Resolve
  BY <1>11 DEF Bot!Resolve, Bot!Quiet, Bot!Life, Bot!Resolved
<1>12. CASE Bot!Start
  BY <1>12 DEF Bot!Start, Bot!Quiet, Bot!Life, Bot!Idle
<1>13. CASE Bot!Abandoned
  BY <1>13 DEF Bot!Abandoned, Bot!Quiet
<1>14. CASE Bot!Answered
  BY <1>14 DEF Bot!Answered, Bot!Quiet, Bot!Life
<1>15. CASE Bot!Unauthorized
  BY <1>15 DEF Bot!Unauthorized, Bot!Quiet, Bot!Life
<1>16. CASE Bot!Awake
  BY <1>16 DEF Bot!Awake, Bot!Quiet, Bot!Life
<1>17. CASE Bot!LifeNotes
  BY <1>17, LifeRaises DEF Raised
<1>18. CASE Bot!Ended
  BY <1>18 DEF Bot!Ended, Bot!Quiet
<1>19. CASE Bot!TakeRevision
  BY <1>19 DEF Bot!TakeRevision, Bot!Quiet
<1>20. CASE Bot!Notify
  BY <1>20, NotifyFlags
<1>21. CASE Bot!Capture
  BY <1>21 DEF Bot!Capture, Bot!Idle
<1>22. CASE Bot!SendChunk
  BY <1>22 DEF Bot!SendChunk, Bot!Current, Bot!Mishap
<1>23. CASE Bot!GiveUp
  BY <1>23 DEF Bot!GiveUp, Bot!Current, Bot!Idle
<1>24. CASE Bot!Succeed
  BY <1>24 DEF Bot!Succeed, Bot!Fault, Bot!Torn, Bot!Mishap, Bot!Current
<1>25. CASE Bot!Fail
  BY <1>25, ReplyRaises DEF Raised
<1>26. CASE UNCHANGED Bot!vars
  BY <1>26 DEF Bot!vars
<1> HIDE DEF BotValues, FlagValues, Bot!resolver, Bot!process, Bot!notes, Bot!bounds
<1> QED
  BY <1>1, <1>2, <1>3, <1>4, <1>5, <1>6, <1>7, <1>8, <1>9, <1>10, <1>11, <1>12, <1>13, <1>14,
      <1>15, <1>16, <1>17, <1>18, <1>19, <1>20, <1>21, <1>22, <1>23, <1>24, <1>25, <1>26, Zenon
      DEF Bot!Next, Bot!Operator, Bot!World, Bot!Callback, Bot!Trouble, Bot!Lifecycle, Bot!Deliver

\* Every step keeps the values of the history.
LEMMA HistoryValuesStep ==
    ASSUME BotValues, [Bot!Next]_(Bot!vars)
    PROVE  HistoryValues'
<1> USE DEF BotValues, HistoryValues, Bot!resolver, Bot!process, Bot!notes, Bot!bounds
<1>1. CASE Bot!Refresh
  BY <1>1 DEF Bot!Refresh
<1>2. ASSUME NEW t \in Tokens \cup {NoToken}, Bot!Rewrite(t) PROVE HistoryValues'
  BY <1>2 DEF Bot!Rewrite
<1>3. CASE Bot!Crash
  BY <1>3 DEF Bot!Crash, Bot!Mishap, Bot!Idle
<1>4. ASSUME NEW t \in Revocable, Bot!Revoke(t) PROVE HistoryValues'
  BY <1>4 DEF Bot!Revoke
<1>5. CASE Bot!ClearAuth
  BY <1>5 DEF Bot!ClearAuth, Bot!Fault, Bot!Torn, Bot!Mishap
<1>6. CASE Bot!CancelGeneration
  BY <1>6 DEF Bot!CancelGeneration
<1>7. CASE Bot!SendRevision
  BY <1>7 DEF Bot!SendRevision, Bot!Newest
<1>8. CASE Bot!SuspendAsleep
  BY <1>8 DEF Bot!SuspendAsleep, Bot!Quiet, Bot!Life
<1>9. ASSUME NEW conflict \in BOOLEAN, NEW late \in BOOLEAN, Bot!Retry(conflict, late)
      PROVE HistoryValues'
  BY <1>9 DEF Bot!Retry, Bot!Life, Bot!Suspends, Bot!Mishap
<1>10. CASE Bot!Boot
  BY <1>10 DEF Bot!Boot, Bot!Quiet, Bot!Life
<1>11. CASE Bot!Resolve
  BY <1>11 DEF Bot!Resolve, Bot!Quiet, Bot!Life, Bot!Resolved
<1>12. CASE Bot!Start
  BY <1>12 DEF Bot!Start, Bot!Quiet, Bot!Life, Bot!Idle
<1>13. CASE Bot!Abandoned
  BY <1>13 DEF Bot!Abandoned, Bot!Quiet
<1>14. CASE Bot!Answered
  BY <1>14 DEF Bot!Answered, Bot!Quiet, Bot!Life
<1>15. CASE Bot!Unauthorized
  BY <1>15 DEF Bot!Unauthorized, Bot!Quiet, Bot!Life
<1>16. CASE Bot!Awake
  BY <1>16 DEF Bot!Awake, Bot!Quiet, Bot!Life
<1>17. CASE Bot!LifeNotes
  BY <1>17, LifeRaises DEF Raised, Bot!LifeNotes
<1>18. CASE Bot!Ended
  BY <1>18 DEF Bot!Ended, Bot!Quiet
<1>19. CASE Bot!TakeRevision
  BY <1>19 DEF Bot!TakeRevision, Bot!Quiet
<1>20. CASE Bot!Notify
  BY <1>20, NotifyFlags
<1>21. CASE Bot!Capture
  BY <1>21 DEF Bot!Capture, Bot!Idle
<1>22. CASE Bot!SendChunk
  BY <1>22 DEF Bot!SendChunk, Bot!Current, Bot!Mishap
<1>23. CASE Bot!GiveUp
  BY <1>23 DEF Bot!GiveUp, Bot!Current, Bot!Idle
<1>24. CASE Bot!Succeed
  BY <1>24, SucceedEffect
<1>25. CASE Bot!Fail
  BY <1>25, ReplyRaises, FailEffect DEF Raised
<1>26. CASE UNCHANGED Bot!vars
  BY <1>26 DEF Bot!vars
<1> HIDE DEF BotValues, HistoryValues, Bot!resolver, Bot!process, Bot!notes, Bot!bounds
<1> QED
  BY <1>1, <1>2, <1>3, <1>4, <1>5, <1>6, <1>7, <1>8, <1>9, <1>10, <1>11, <1>12, <1>13, <1>14,
      <1>15, <1>16, <1>17, <1>18, <1>19, <1>20, <1>21, <1>22, <1>23, <1>24, <1>25, <1>26, Zenon
      DEF Bot!Next, Bot!Operator, Bot!World, Bot!Callback, Bot!Trouble, Bot!Lifecycle, Bot!Deliver

\* Every step keeps the goroutines, the generation and the note in hand together.
LEMMA StepInvStep ==
    ASSUME BotValues, StepInv, Bot!TokensAssumption, [Bot!Next]_(Bot!vars)
    PROVE  StepInv'
<1> USE DEF BotValues, ProcessValues, StepInv, Bot!Waits, Bot!NoNote, Bot!TokensAssumption,
            Bot!resolver, Bot!process, Bot!notes, Bot!bounds
<1>1. CASE Bot!Refresh
  BY <1>1 DEF Bot!Refresh
<1>2. ASSUME NEW t \in Tokens \cup {NoToken}, Bot!Rewrite(t) PROVE StepInv'
  BY <1>2 DEF Bot!Rewrite
<1>3. CASE Bot!Crash
  BY <1>3 DEF Bot!Crash, Bot!Mishap, Bot!Idle
<1>4. ASSUME NEW t \in Revocable, Bot!Revoke(t) PROVE StepInv'
  BY <1>4 DEF Bot!Revoke
<1>5. CASE Bot!ClearAuth
  BY <1>5 DEF Bot!ClearAuth, Bot!Fault, Bot!Torn, Bot!Mishap
<1>6. CASE Bot!CancelGeneration
  BY <1>6 DEF Bot!CancelGeneration
<1>7. CASE Bot!SendRevision
  BY <1>7 DEF Bot!SendRevision, Bot!Newest
<1>8. CASE Bot!SuspendAsleep
  BY <1>8 DEF Bot!SuspendAsleep, Bot!Quiet, Bot!Life
<1>9. ASSUME NEW conflict \in BOOLEAN, NEW late \in BOOLEAN, Bot!Retry(conflict, late)
      PROVE StepInv'
  BY <1>9 DEF Bot!Retry, Bot!Life, Bot!Suspends, Bot!Mishap
<1>10. CASE Bot!Boot
  BY <1>10 DEF Bot!Boot, Bot!Quiet, Bot!Life
<1>11. CASE Bot!Resolve
  BY <1>11 DEF Bot!Resolve, Bot!Quiet, Bot!Life, Bot!Resolved
<1>12. CASE Bot!Start
  BY <1>12 DEF Bot!Start, Bot!Quiet, Bot!Life, Bot!Idle
<1>13. CASE Bot!Abandoned
  BY <1>13 DEF Bot!Abandoned, Bot!Quiet
<1>14. CASE Bot!Answered
  BY <1>14 DEF Bot!Answered, Bot!Quiet, Bot!Life
<1>15. CASE Bot!Unauthorized
  BY <1>15 DEF Bot!Unauthorized, Bot!Quiet, Bot!Life
<1>16. CASE Bot!Awake
  BY <1>16 DEF Bot!Awake, Bot!Quiet, Bot!Life
<1>17. CASE Bot!LifeNotes
  BY <1>17, LifeNotesSteps
<1>18. CASE Bot!Ended
  BY <1>18 DEF Bot!Ended, Bot!Quiet
<1>19. CASE Bot!TakeRevision
  BY <1>19 DEF Bot!TakeRevision, Bot!Quiet
<1>20. CASE Bot!Notify
  BY <1>20, NotifyFrame, IdleValues
<1>21. CASE Bot!Capture
  BY <1>21 DEF Bot!Capture, Bot!Idle
<1>22. CASE Bot!SendChunk
  BY <1>22, ChunkEffect, DeliveryFrame
<1>23. CASE Bot!GiveUp
  BY <1>23 DEF Bot!GiveUp, Bot!Current, Bot!Idle
<1>24. CASE Bot!Succeed
  BY <1>24, SucceedEffect, DeliveryFrame, IdleValues
<1>25. CASE Bot!Fail
  BY <1>25, ReplyRaises, FailEffect, DeliveryFrame, IdleValues DEF Raised
<1>26. CASE UNCHANGED Bot!vars
  BY <1>26 DEF Bot!vars
<1> HIDE DEF BotValues, ProcessValues, StepInv, Bot!Waits, Bot!NoNote, Bot!TokensAssumption,
            Bot!resolver, Bot!process, Bot!notes, Bot!bounds
<1> QED
  BY <1>1, <1>2, <1>3, <1>4, <1>5, <1>6, <1>7, <1>8, <1>9, <1>10, <1>11, <1>12, <1>13, <1>14,
      <1>15, <1>16, <1>17, <1>18, <1>19, <1>20, <1>21, <1>22, <1>23, <1>24, <1>25, <1>26, Zenon
      DEF Bot!Next, Bot!Operator, Bot!World, Bot!Callback, Bot!Trouble, Bot!Lifecycle, Bot!Deliver

\* Every step keeps the token in use the one read last, unless a refresh settles.
LEMMA TokenInvStep ==
    ASSUME BotValues, StepInv, TokenInv, [Bot!Next]_(Bot!vars)
    PROVE  TokenInv'
<1> USE DEF BotValues, ProcessValues, StepInv, TokenInv, Bot!Waits, Bot!resolver, Bot!process,
            Bot!notes, Bot!bounds
<1>1. CASE Bot!Refresh
  BY <1>1 DEF Bot!Refresh
<1>2. ASSUME NEW t \in Tokens \cup {NoToken}, Bot!Rewrite(t) PROVE TokenInv'
  BY <1>2 DEF Bot!Rewrite
<1>3. CASE Bot!Crash
  BY <1>3 DEF Bot!Crash, Bot!Mishap, Bot!Idle
<1>4. ASSUME NEW t \in Revocable, Bot!Revoke(t) PROVE TokenInv'
  BY <1>4 DEF Bot!Revoke
<1>5. CASE Bot!ClearAuth
  BY <1>5 DEF Bot!ClearAuth, Bot!Fault, Bot!Torn, Bot!Mishap
<1>6. CASE Bot!CancelGeneration
  BY <1>6 DEF Bot!CancelGeneration
<1>7. CASE Bot!SendRevision
  BY <1>7 DEF Bot!SendRevision, Bot!Newest
<1>8. CASE Bot!SuspendAsleep
  BY <1>8 DEF Bot!SuspendAsleep, Bot!Quiet, Bot!Life
<1>9. ASSUME NEW conflict \in BOOLEAN, NEW late \in BOOLEAN, Bot!Retry(conflict, late)
      PROVE TokenInv'
  BY <1>9 DEF Bot!Retry, Bot!Life, Bot!Suspends, Bot!Mishap
<1>10. CASE Bot!Boot
  BY <1>10 DEF Bot!Boot, Bot!Quiet, Bot!Life
<1>11. CASE Bot!Resolve
  BY <1>11 DEF Bot!Resolve, Bot!Quiet, Bot!Life, Bot!Resolved
<1>12. CASE Bot!Start
  BY <1>12 DEF Bot!Start, Bot!Quiet, Bot!Life, Bot!Idle
<1>13. CASE Bot!Abandoned
  BY <1>13 DEF Bot!Abandoned, Bot!Quiet
<1>14. CASE Bot!Answered
  BY <1>14 DEF Bot!Answered, Bot!Quiet, Bot!Life
<1>15. CASE Bot!Unauthorized
  BY <1>15 DEF Bot!Unauthorized, Bot!Quiet, Bot!Life
<1>16. CASE Bot!Awake
  BY <1>16 DEF Bot!Awake, Bot!Quiet, Bot!Life
<1>17. CASE Bot!LifeNotes
  BY <1>17 DEF Bot!LifeNotes, Bot!NoteAt, Bot!After
<1>18. CASE Bot!Ended
  BY <1>18 DEF Bot!Ended, Bot!Quiet
<1>19. CASE Bot!TakeRevision
  BY <1>19 DEF Bot!TakeRevision, Bot!Quiet
<1>20. CASE Bot!Notify
  BY <1>20, NotifyFrame, IdleValues
<1>21. CASE Bot!Capture
  BY <1>21 DEF Bot!Capture, Bot!Idle
<1>22. CASE Bot!SendChunk
  BY <1>22, ChunkEffect, DeliveryFrame
<1>23. CASE Bot!GiveUp
  BY <1>23 DEF Bot!GiveUp, Bot!Current, Bot!Idle
<1>24. CASE Bot!Succeed
  BY <1>24, SucceedEffect, DeliveryFrame, IdleValues
<1>25. CASE Bot!Fail
  BY <1>25, FailEffect, DeliveryFrame, IdleValues
<1>26. CASE UNCHANGED Bot!vars
  BY <1>26 DEF Bot!vars
<1> HIDE DEF BotValues, ProcessValues, StepInv, TokenInv, Bot!Waits, Bot!resolver, Bot!process,
            Bot!notes, Bot!bounds
<1> QED
  BY <1>1, <1>2, <1>3, <1>4, <1>5, <1>6, <1>7, <1>8, <1>9, <1>10, <1>11, <1>12, <1>13, <1>14,
      <1>15, <1>16, <1>17, <1>18, <1>19, <1>20, <1>21, <1>22, <1>23, <1>24, <1>25, <1>26, Zenon
      DEF Bot!Next, Bot!Operator, Bot!World, Bot!Callback, Bot!Trouble, Bot!Lifecycle, Bot!Deliver

\* Every step keeps the flags about what was told.
LEMMA FlagInvStep ==
    ASSUME BotValues, FlagInv, [Bot!Next]_(Bot!vars)
    PROVE  FlagInv'
<1> USE DEF BotValues, FlagInv, HistoryValues, Bot!NoNote, Bot!resolver, Bot!process, Bot!notes,
            Bot!bounds
<1>1. CASE Bot!Refresh
  BY <1>1 DEF Bot!Refresh
<1>2. ASSUME NEW t \in Tokens \cup {NoToken}, Bot!Rewrite(t) PROVE FlagInv'
  BY <1>2 DEF Bot!Rewrite
<1>3. CASE Bot!Crash
  BY <1>3 DEF Bot!Crash, Bot!Mishap, Bot!Idle
<1>4. ASSUME NEW t \in Revocable, Bot!Revoke(t) PROVE FlagInv'
  BY <1>4 DEF Bot!Revoke
<1>5. CASE Bot!ClearAuth
  BY <1>5, ClearEffect
<1>6. CASE Bot!CancelGeneration
  BY <1>6 DEF Bot!CancelGeneration
<1>7. CASE Bot!SendRevision
  BY <1>7 DEF Bot!SendRevision, Bot!Newest
<1>8. CASE Bot!SuspendAsleep
  BY <1>8 DEF Bot!SuspendAsleep, Bot!Quiet, Bot!Life
<1>9. ASSUME NEW conflict \in BOOLEAN, NEW late \in BOOLEAN, Bot!Retry(conflict, late)
      PROVE FlagInv'
  BY <1>9 DEF Bot!Retry, Bot!Life, Bot!Suspends, Bot!Mishap
<1>10. CASE Bot!Boot
  BY <1>10 DEF Bot!Boot, Bot!Quiet, Bot!Life
<1>11. CASE Bot!Resolve
  <2>1. UNCHANGED Bot!notes
    BY <1>11 DEF Bot!Resolve, Bot!Quiet
  <2> QED
    BY <2>1
<1>12. CASE Bot!Start
  BY <1>12 DEF Bot!Start, Bot!Quiet, Bot!Life, Bot!Idle
<1>13. CASE Bot!Abandoned
  BY <1>13 DEF Bot!Abandoned, Bot!Quiet
<1>14. CASE Bot!Answered
  BY <1>14 DEF Bot!Answered, Bot!Quiet, Bot!Life
<1>15. CASE Bot!Unauthorized
  BY <1>15 DEF Bot!Unauthorized, Bot!Quiet, Bot!Life
<1>16. CASE Bot!Awake
  BY <1>16 DEF Bot!Awake, Bot!Quiet, Bot!Life
<1>17. CASE Bot!LifeNotes
  BY <1>17, LifeRaises
<1>18. CASE Bot!Ended
  BY <1>18 DEF Bot!Ended, Bot!Quiet
<1>19. CASE Bot!TakeRevision
  BY <1>19 DEF Bot!TakeRevision, Bot!Quiet
<1>20. CASE Bot!Notify
  BY <1>20, NotifyFlags
<1>21. CASE Bot!Capture
  BY <1>21 DEF Bot!Capture, Bot!Idle
<1>22. CASE Bot!SendChunk
  BY <1>22 DEF Bot!SendChunk, Bot!Current, Bot!Mishap
<1>23. CASE Bot!GiveUp
  BY <1>23 DEF Bot!GiveUp, Bot!Current, Bot!Idle
<1>24. CASE Bot!Succeed
  BY <1>24, SucceedEffect
<1>25. CASE Bot!Fail
  BY <1>25, ReplyRaises
<1>26. CASE UNCHANGED Bot!vars
  BY <1>26 DEF Bot!vars
<1> HIDE DEF BotValues, FlagInv, HistoryValues, Bot!NoNote, Bot!resolver, Bot!process, Bot!notes,
            Bot!bounds
<1> QED
  BY <1>1, <1>2, <1>3, <1>4, <1>5, <1>6, <1>7, <1>8, <1>9, <1>10, <1>11, <1>12, <1>13, <1>14,
      <1>15, <1>16, <1>17, <1>18, <1>19, <1>20, <1>21, <1>22, <1>23, <1>24, <1>25, <1>26, Zenon
      DEF Bot!Next, Bot!Operator, Bot!World, Bot!Callback, Bot!Trouble, Bot!Lifecycle, Bot!Deliver

\* Only a chunk that is sent moves on to the next.
ChunkStays == sender'.chunk = sender.chunk \/ sender' = Bot!Idle

\* No other step does.
LEMMA ChunkStep ==
    ASSUME BotValues, ~Bot!Capture, ~Bot!SendChunk, [Bot!Next]_(Bot!vars)
    PROVE  ChunkStays
<1> USE DEF BotValues, ChunkStays, Bot!resolver, Bot!process, Bot!notes, Bot!bounds
<1>1. CASE Bot!Refresh
  BY <1>1 DEF Bot!Refresh
<1>2. ASSUME NEW t \in Tokens \cup {NoToken}, Bot!Rewrite(t) PROVE ChunkStays
  BY <1>2 DEF Bot!Rewrite
<1>3. CASE Bot!Crash
  BY <1>3 DEF Bot!Crash, Bot!Mishap, Bot!Idle
<1>4. ASSUME NEW t \in Revocable, Bot!Revoke(t) PROVE ChunkStays
  BY <1>4 DEF Bot!Revoke
<1>5. CASE Bot!ClearAuth
  BY <1>5 DEF Bot!ClearAuth, Bot!Fault, Bot!Torn, Bot!Mishap
<1>6. CASE Bot!CancelGeneration
  BY <1>6 DEF Bot!CancelGeneration
<1>7. CASE Bot!SendRevision
  BY <1>7 DEF Bot!SendRevision, Bot!Newest
<1>8. CASE Bot!SuspendAsleep
  BY <1>8 DEF Bot!SuspendAsleep, Bot!Quiet, Bot!Life
<1>9. ASSUME NEW conflict \in BOOLEAN, NEW late \in BOOLEAN, Bot!Retry(conflict, late)
      PROVE ChunkStays
  BY <1>9 DEF Bot!Retry, Bot!Life, Bot!Suspends, Bot!Mishap
<1>10. CASE Bot!Boot
  BY <1>10 DEF Bot!Boot, Bot!Quiet, Bot!Life
<1>11. CASE Bot!Resolve
  BY <1>11 DEF Bot!Resolve, Bot!Quiet, Bot!Life, Bot!Resolved
<1>12. CASE Bot!Start
  BY <1>12 DEF Bot!Start, SenderValues, Senders
<1>13. CASE Bot!Abandoned
  BY <1>13 DEF Bot!Abandoned, Bot!Quiet
<1>14. CASE Bot!Answered
  BY <1>14 DEF Bot!Answered, Bot!Quiet, Bot!Life
<1>15. CASE Bot!Unauthorized
  BY <1>15 DEF Bot!Unauthorized, Bot!Quiet, Bot!Life
<1>16. CASE Bot!Awake
  BY <1>16 DEF Bot!Awake, Bot!Quiet, Bot!Life
<1>17. CASE Bot!LifeNotes
  BY <1>17 DEF Bot!LifeNotes
<1>18. CASE Bot!Ended
  BY <1>18 DEF Bot!Ended, Bot!Quiet
<1>19. CASE Bot!TakeRevision
  BY <1>19 DEF Bot!TakeRevision, Bot!Quiet
<1>20. CASE Bot!Notify
  BY <1>20, NotifyFrame
<1>21. CASE Bot!Capture
  BY <1>21
<1>22. CASE Bot!SendChunk
  BY <1>22
<1>23. CASE Bot!GiveUp
  BY <1>23 DEF Bot!GiveUp, Bot!Current, Bot!Idle
<1>24. CASE Bot!Succeed
  BY <1>24, SucceedEffect
<1>25. CASE Bot!Fail
  BY <1>25, FailEffect
<1>26. CASE UNCHANGED Bot!vars
  BY <1>26 DEF Bot!vars
<1> HIDE DEF BotValues, ChunkStays, Bot!resolver, Bot!process, Bot!notes, Bot!bounds
<1> QED
  BY <1>1, <1>2, <1>3, <1>4, <1>5, <1>6, <1>7, <1>8, <1>9, <1>10, <1>11, <1>12, <1>13, <1>14,
      <1>15, <1>16, <1>17, <1>18, <1>19, <1>20, <1>21, <1>22, <1>23, <1>24, <1>25, <1>26, Zenon
      DEF Bot!Next, Bot!Operator, Bot!World, Bot!Callback, Bot!Trouble, Bot!Lifecycle, Bot!Deliver

\* A process that has not started yet.
LEMMA BotInit ==
    ASSUME Bot!TokensAssumption, Bot!Init
    PROVE  BotInv
<1> USE DEF Bot!Init
<1>1. ProcessValues /\ FlagValues /\ HistoryValues
  BY DEF ProcessValues, BotSteps, FlagValues, HistoryValues, Bot!TokensAssumption
<1>2. NoteValues /\ SenderValues
  BY IdleValues DEF NoteValues, SenderValues
<1>3. StepInv
  BY IdleValues DEF StepInv, Bot!Waits, Bot!NoNote
<1>4. TokenInv
  BY IdleValues DEF TokenInv
<1>5. FlagInv
  BY DEF FlagInv, Bot!NoNote
<1> QED
  BY <1>1, <1>2, <1>3, <1>4, <1>5 DEF BotInv, BotValues

\* Every step keeps the whole invariant.
LEMMA BotInvStep ==
    ASSUME Bot!TokensAssumption, BotInv, [Bot!Next]_(Bot!vars)
    PROVE  BotInv'
<1>1. BotValues /\ StepInv /\ TokenInv /\ FlagInv
  BY DEF BotInv
<1>2. ProcessValues /\ NoteValues
  BY <1>1 DEF BotValues
<1>3. ProcessValues' /\ SenderValues'
  BY <1>1, <1>2, ProcessValuesStep, SenderValuesStep
<1>4. NoteValues' /\ FlagValues' /\ HistoryValues'
  BY <1>1, NoteValuesStep, FlagValuesStep, HistoryValuesStep
<1>5. StepInv' /\ TokenInv' /\ FlagInv'
  BY <1>1, StepInvStep, TokenInvStep, FlagInvStep
<1> QED
  BY <1>3, <1>4, <1>5 DEF BotInv, BotValues

\* The invariant of every state the bot can be in.
LEMMA BotInvariant == ASSUME Bot!TokensAssumption PROVE Bot!Spec => []BotInv
<1>1. Bot!Init => BotInv
  BY BotInit
<1>2. BotInv /\ [Bot!Next]_(Bot!vars) => BotInv'
  BY BotInvStep
<1> QED
  BY <1>1, <1>2, PTL DEF Bot!Spec

\* The invariant gives what the property says of every state.
LEMMA BotTypes ==
    ASSUME BotInv
    PROVE  Bot!TypeOK
<1>1. ProcessValues /\ FlagValues /\ StepInv
  BY DEF BotInv, BotValues
<1>2. ~torn => (note # Bot!NoNote => Bot!Marks(note.kind) \subseteq flags)
               /\ ("conflict" \in flags => "suspended" \in flags)
  BY DEF BotInv, FlagInv
<1> QED
  BY <1>1, <1>2 DEF Bot!TypeOK, ProcessValues, FlagValues, StepInv

\* A chunk leaves only with the token of the generation that is in use.
LEMMA ChunkToken ==
    ASSUME BotInv, [Bot!Next]_(Bot!vars), sender'.chunk > sender.chunk, sender # Bot!Idle
    PROVE  sender.token = good \/ Bot!Settling
<1>1. SenderValues /\ TokenInv /\ BotValues /\ sender.chunk \in Nat
  BY DEF BotInv, BotValues, SenderValues, Senders
<1>2. ~Bot!Capture
  BY DEF Bot!Capture
<1>3. ~ChunkStays
  BY <1>1, IdleValues DEF ChunkStays
<1>4. Bot!SendChunk
  BY <1>1, <1>2, <1>3, ChunkStep
<1>5. sender.pc = "sending" /\ sender.same /\ context = "live"
  BY <1>1, <1>4, ChunkEffect
<1> QED
  BY <1>1, <1>5 DEF TokenInv, Bot!Settling, BotValues, ProcessValues

\* Unless the callback of a refresh is under way or its revision waits in the
\* slot, a generation that runs uncancelled uses the token read last, and no
\* chunk of a reply leaves with a token that a refresh has replaced; the steps
\* of goroutine, sender and note belong together.
THEOREM TokenIsInUse == ASSUME Bot!TokensAssumption PROVE Bot!Spec => Bot!TokenInUse
<1> DEFINE Used == /\ Bot!TypeOK' /\ (context = "live" => token = good \/ Bot!Settling)'
                   /\ sender'.chunk > sender.chunk /\ sender # Bot!Idle
                        => sender.token = good \/ Bot!Settling
<1>1. BotInv /\ BotInv' /\ [Bot!Next]_(Bot!vars) => [Used]_(Bot!vars)
  <2> SUFFICES ASSUME BotInv, BotInv', [Bot!Next]_(Bot!vars)
               PROVE  Used
    OBVIOUS
  <2>1. Bot!TypeOK'
    BY BotTypes, PTL
  <2>2. (context = "live" => token = good \/ Bot!Settling)'
    BY DEF BotInv, BotValues, ProcessValues, TokenInv, Bot!Settling
  <2>3. sender'.chunk > sender.chunk /\ sender # Bot!Idle => sender.token = good \/ Bot!Settling
    BY ChunkToken
  <2> QED
    BY <2>1, <2>2, <2>3
<1> QED
  BY <1>1, BotInvariant, PTL DEF Bot!Spec, Bot!TokenInUse

\* Between two notifications the flags in Valkey stand for notifications the
\* operator has, so that a recovery is told for a suspension that was told,
\* and an authentication failure is told once until a refresh or a connection.
THEOREM EveryFailureIsTold == ASSUME Bot!TokensAssumption PROVE Bot!Spec => Bot!FailuresAreTold
<1> DEFINE Told == /\ Bot!FlaggedIsTold'
                   /\ \/ ~authOpen \/ torn
                      \/ ~(note.kind = "auth" /\ note' = Bot!NoNote /\ "auth" \in flags')
<1>1. BotInv /\ BotInv' /\ [Bot!Next]_(Bot!vars) => [Told]_(Bot!vars)
  <2> SUFFICES ASSUME BotInv, BotInv'
               PROVE  Told
    OBVIOUS
  <2>1. Bot!FlaggedIsTold'
    BY DEF BotInv, FlagInv, Bot!FlaggedIsTold, Bot!NoNote
  <2>2. ~authOpen \/ torn \/ ~(note.kind = "auth")
    BY DEF BotInv, FlagInv
  <2> QED
    BY <2>1, <2>2
<1> QED
  BY <1>1, BotInvariant, PTL DEF Bot!Spec, Bot!FailuresAreTold
=============================================================================
