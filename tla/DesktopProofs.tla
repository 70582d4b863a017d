--------------------------- MODULE DesktopProofs ---------------------------
(***************************************************************************)
(* Theorems about Desktop, for every set of tools, pages and scripts,      *)
(* however the model answers and the browsers switch: the mouse has one    *)
(* hand on it, and a prompt that goes to the model fits its context, is    *)
(* whole, and shows the page it calls unchanged.                           *)
(***************************************************************************)
EXTENDS Desktop, SequenceTheorems, FiniteSetTheorems, WellFoundedInduction, TLAPS

-----------------------------------------------------------------------------
(* The two hands on the mouse.                                             *)

InBurst == hand \in {"checking", "moving"}
Holder == IF phase \in Holding THEN "tool" ELSE IF InBurst THEN "jiggler" ELSE "free"

\* Why OneHand holds: the lock says who is at the mouse, and a point is only
\* moved after the setting was looked at, which is on whenever late is 0.
HandInv ==
    /\ lock = Holder
    /\ ~(phase \in Holding /\ InBurst)
    /\ late \in {0, 1}
    /\ enabled \/ hand = "moving" => late = 0

mouseVars == <<lock, hand, late, enabled>>

\* A step that moves the turn and not the mouse, and neither takes the lock nor
\* lets it go.
LEMMA TurnKeepsHand ==
    ASSUME HandInv, phase' \in Holding <=> phase \in Holding, UNCHANGED mouseVars
    PROVE  HandInv'
BY DEF HandInv, Holder, InBurst, mouseVars

\* The tool lets the lock go when its input is over.
LEMMA ReturnKeepsHand ==
    ASSUME HandInv, phase \in Holding, phase' \notin Holding, lock' = "free",
           UNCHANGED <<hand, late, enabled>>
    PROVE  HandInv'
BY DEF HandInv, Holder, InBurst

\* The mouse has one hand on it (OneHand): the lock is held by the tool between
\* its first pause and its last, or by the jiggler's burst, and never by both; the
\* jiggler moves at most one point after it was switched off (jiggler.go:261-300,
\* tools.go:334-380).
THEOREM OneHandAlways == Spec => []OneHand
<1> USE DEF Holding
<1>1. Init => HandInv
  BY DEF Init, HandInv, Holder, InBurst
<1>2. HandInv /\ [Next]_vars => HandInv'
  <2> SUFFICES ASSUME HandInv, [Next]_vars PROVE HandInv'
    OBVIOUS
  <2>1. CASE LimitReached \/ Attempt \/ DropRound \/ HalvePage \/ ForgetHistory \/ Send
    <3>1. phase \notin Holding /\ phase' \notin Holding /\ UNCHANGED mouseVars
      BY <2>1 DEF LimitReached, Finish, Attempt, DropRound, HalvePage, ForgetHistory, Send,
         turnVars, jigVars, mouseVars
    <3> QED
      BY <3>1, TurnKeepsHand
  <2>2. CASE Recover \/ RequestAborted \/ RequestFails \/ Answer \/ CallTools \/ ServerOverflow
    <3>1. phase \notin Holding /\ phase' \notin Holding /\ UNCHANGED mouseVars
      BY <2>2 DEF Recover, RequestAborted, RequestFails, Answer, CallTools, ServerOverflow, Finish,
         turnVars, jigVars, mouseVars
    <3> QED
      BY <3>1, TurnKeepsHand
  <2>3. CASE RunTool \/ RoundDone \/ Begin
    <3>1. phase \notin Holding /\ phase' \notin Holding /\ UNCHANGED mouseVars
      BY <2>3 DEF RunTool, RoundDone, Begin, jigVars, mouseVars
    <3> QED
      BY <3>1, TurnKeepsHand
  <2>4. CASE Press \/ PressFails \/ Cancel
    <3>1. phase' \in Holding <=> phase \in Holding
      BY <2>4 DEF Press, PressFails, Cancel
    <3>2. UNCHANGED mouseVars
      BY <2>4 DEF Press, PressFails, Cancel, jigVars, mouseVars
    <3> QED
      BY <3>1, <3>2, TurnKeepsHand
  <2>5. CASE Acquire
    BY <2>5 DEF Acquire, HandInv, Holder, InBurst, jigVars
  <2>6. CASE PauseFirst
    <3>1. CASE cancelled
      BY <2>6, <3>1, ReturnKeepsHand DEF PauseFirst, Return, jigVars
    <3>2. CASE ~cancelled
      BY <2>6, <3>2, TurnKeepsHand DEF PauseFirst, jigVars, mouseVars
    <3> QED
      BY <3>1, <3>2
  <2>7. CASE ToolEnds
    BY <2>7, ReturnKeepsHand DEF ToolEnds, Return, jigVars
  <2>8. CASE SetStored \/ Wake \/ SetCached
    BY <2>8 DEF SetStored, Wake, SetCached, HandInv, Holder, InBurst, agent, turnVars
  <2>9. CASE Burst
    BY <2>9 DEF Burst, CanMove, HandInv, Holder, InBurst, agent, turnVars
  <2>10. CASE CheckPoint
    BY <2>10 DEF CheckPoint, LetGo, HandInv, Holder, InBurst, agent, turnVars
  <2>11. CASE MovePoint
    BY <2>11 DEF MovePoint, LetGo, Lesser, HandInv, Holder, InBurst, agent, turnVars
  <2>12. CASE UNCHANGED vars
    BY <2>12, TurnKeepsHand DEF vars, turnVars, jigVars, mouseVars
  <2> QED
    BY <2>1, <2>2, <2>3, <2>4, <2>5, <2>6, <2>7, <2>8, <2>9, <2>10, <2>11, <2>12 DEF Next, TurnNext
<1>3. HandInv => OneHand
  BY DEF HandInv, OneHand, Holder, InBurst
<1> QED
  BY <1>1, <1>2, <1>3, PTL DEF Spec

-----------------------------------------------------------------------------
(* Least and greatest elements, and ranks.                                 *)

\* A set of natural numbers that is not empty has a least element.
LEMMA MinExists ==
    ASSUME NEW S, S \subseteq Nat, S # {}
    PROVE  Min(S) \in S /\ \A y \in S : Min(S) <= y
<1> DEFINE R == OpToRel(<, Nat)
<1>1. PICK x \in S : \A y \in S : <<y, x>> \notin R
  <2>1. IsWellFoundedOn(R, Nat)
    BY NatLessThanWellFounded
  <2> HIDE DEF R
  <2>2. \E x \in S : \A y \in S : ~(<<y, x>> \in R)
    BY <2>1, WFMin, Zenon
  <2> QED
    BY <2>2
<1>2. \A y \in S : ~(y < x)
  BY <1>1 DEF OpToRel
<1>3. \A y \in S : x <= y
  <2> TAKE y \in S
  <2>1. x \in Nat /\ y \in Nat /\ ~(y < x)
    BY <1>2
  <2> QED
    BY <2>1
<1> QED
  BY <1>3 DEF Min

\* MaxOr0 of positions is the last of them, or 0 if there is none.
LEMMA MaxOr0Is ==
    ASSUME NEW n \in Nat, NEW S, S \subseteq 1..n
    PROVE  /\ MaxOr0(S) \in 0..n
           /\ MaxOr0(S) = 0 <=> S = {}
           /\ MaxOr0(S) # 0 => MaxOr0(S) \in S
           /\ \A y \in S : y <= MaxOr0(S)
<1>1. CASE S = {}
  BY <1>1 DEF MaxOr0
<1>2. CASE S # {}
  <2> DEFINE T == {n - y : y \in S}
  <2>1. T \subseteq Nat /\ T # {}
    <3>1. \A y \in 1..n : n - y \in Nat
      OBVIOUS
    <3> QED
      BY <1>2, <3>1
  <2>2. Min(T) \in T /\ \A z \in T : Min(T) <= z
    BY <2>1, MinExists
  <2>3. PICK x \in S : Min(T) = n - x
    BY <2>2
  <2>4. \A y \in S : x >= y
    <3> TAKE y \in S
    <3>1. n - x <= n - y /\ x \in 1..n /\ y \in 1..n
      BY <2>2, <2>3
    <3> QED
      BY <3>1
  <2>5. Max(S) \in S /\ \A y \in S : Max(S) >= y
    BY <2>4 DEF Max
  <2>6. Max(S) \in 1..n /\ MaxOr0(S) = Max(S)
    BY <1>2, <2>5 DEF MaxOr0
  <2> HIDE DEF T
  <2> QED
    BY <1>2, <2>5, <2>6
<1> QED
  BY <1>1, <1>2

\* A rank is a place in the set, and no two elements have the same.
LEMMA RankIs ==
    ASSUME NEW n \in Nat, NEW S, S \subseteq 1..n
    PROVE  /\ IsFiniteSet(S) /\ Cardinality(S) \in Nat
           /\ \A i \in S : Rank(S, i) \in 1..Cardinality(S)
           /\ \A i, j \in S : Rank(S, i) = Rank(S, j) => i = j
<1>1. IsFiniteSet(S) /\ Cardinality(S) \in Nat
  <2>1. IsFiniteSet(1..n) /\ S \in SUBSET (1..n)
    BY FS_Interval
  <2> QED
    BY <2>1, FS_Subset, FS_CardinalityType
<1>2. ASSUME NEW i \in S PROVE Rank(S, i) \in 1..Cardinality(S)
  <2> DEFINE B == {m \in S : m <= i}
  <2>1. B \in SUBSET S /\ i \in B
    OBVIOUS
  <2>2. /\ IsFiniteSet(B) /\ Cardinality(B) <= Cardinality(S)
        /\ Cardinality(B) \in Nat /\ Cardinality(B) # 0
    BY <1>1, <2>1, FS_Subset, FS_CardinalityType, FS_EmptySet
  <2> QED
    BY <1>1, <2>2 DEF Rank
<1>3. ASSUME NEW i \in S, NEW j \in S, i < j PROVE Rank(S, i) # Rank(S, j)
  <2> DEFINE B == {m \in S : m <= i}
             C == {m \in S : m <= j}
  <2>1. B \in SUBSET C /\ j \in C /\ j \notin B /\ C \in SUBSET S
    <3>1. i \in Int /\ j \in Int /\ \A m \in S : m \in Int
      OBVIOUS
    <3>2. \A m \in S : m <= i => m <= j
      BY <1>3, <3>1
    <3>3. j <= j /\ ~(j <= i)
      BY <1>3, <3>1
    <3> QED
      BY <3>2, <3>3
  <2>2. IsFiniteSet(C) /\ B # C
    BY <1>1, <2>1, FS_Subset
  <2>3. Cardinality(B) # Cardinality(C)
    BY <2>1, <2>2, FS_Subset
  <2> QED
    BY <2>3 DEF Rank
<1>4. ASSUME NEW i \in S, NEW j \in S, Rank(S, i) = Rank(S, j) PROVE i = j
  <2>1. i < j \/ j < i \/ i = j
    OBVIOUS
  <2> QED
    BY <1>3, <1>4, <2>1
<1> QED
  BY <1>1, <1>2, <1>4

\* Every place is the rank of an element.
LEMMA RankOnto ==
    ASSUME NEW n \in Nat, NEW S, S \subseteq 1..n, NEW k \in 1..Cardinality(S)
    PROVE  \E i \in S : Rank(S, i) = k
<1> DEFINE m == Cardinality(S)
           f == [i \in S |-> Rank(S, i)]
<1>1. IsFiniteSet(S) /\ m \in Nat
  BY RankIs
<1>2. f \in Injection(S, 1..m)
  BY RankIs DEF Injection, IsInjective
<1>3. IsFiniteSet(1..m) /\ Cardinality(1..m) = m
  BY <1>1, FS_Interval
<1>4. f \in Surjection(S, 1..m)
  BY <1>2, <1>3, FS_Injection
<1> QED
  BY <1>4 DEF Surjection

-----------------------------------------------------------------------------
(* Whole rounds, and the cuts that keep them whole.                        *)

\* Neither a round of tool calls nor a result.
Plain(m) == ~IsRound(m) /\ m.role # "tool"

\* The rounds are whole but for n results the last of them still waits for.
Whole(ms, n) ==
    /\ \A i \in DOMAIN ms : IsRound(ms[i]) =>
         /\ i + ms[i].calls <= Len(ms) + n
         /\ \A j \in i + 1..i + ms[i].calls : j <= Len(ms) => ms[j].role = "tool"
    /\ \A i \in DOMAIN ms : ms[i].role = "tool" =>
         \E r \in 1..i - 1 : IsRound(ms[r]) /\ i <= r + ms[r].calls
    /\ n > 0 => \E r \in DOMAIN ms : IsRound(ms[r]) /\ r + ms[r].calls = Len(ms) + n

\* Two messages that differ at most in what their text is.
SameKind(m, o) == m.role = o.role /\ m.calls = o.calls

\* After k plain messages, `new' goes on as `old' does, d positions further on.
Shifted(old, new, k, d) ==
    /\ k \in 0..Len(new) /\ d \in Int /\ Len(new) + d = Len(old) /\ k + d \in Nat
    /\ \A i \in 1..k : Plain(new[i])
    /\ \A i \in k + 1..Len(new) : SameKind(new[i], old[i + d])

\* No round among the first n messages has results beyond them.
NoneAcross(ms, n) == \A r \in 1..n : IsRound(ms[r]) => r + ms[r].calls <= n

\* What a message is made of.
LEMMA MessageIs ==
    ASSUME NEW m \in Messages
    PROVE  /\ m.role \in {"system", "user", "assistant", "tool"} /\ m.what \in Contents
           /\ m.page \in Pages \cup {NoPage} /\ m.image \in BOOLEAN
           /\ m.calls \in Nat /\ m.size \in Nat
BY DEF Messages

\* The messages of a prompt are messages.
LEMMA PromptIs ==
    ASSUME NEW ms \in Seq(Messages)
    PROVE  /\ Len(ms) \in Nat /\ DOMAIN ms = 1..Len(ms)
           /\ \A i \in 1..Len(ms) : ms[i] \in Messages /\ ms[i].calls \in Nat
<1>1. Len(ms) \in Nat /\ DOMAIN ms = 1..Len(ms)
  BY LenProperties
<1>2. \A i \in 1..Len(ms) : ms[i] \in Messages
  BY ElementOfSeq
<1> QED
  BY <1>1, <1>2, MessageIs

\* A cut between rounds leaves whole rounds.
LEMMA ShiftedWhole ==
    ASSUME NEW old \in Seq(Messages), NEW new \in Seq(Messages), NEW k, NEW d,
           Shifted(old, new, k, d), Whole(old, 0), NoneAcross(old, k + d)
    PROVE  Whole(new, 0)
<1>1. /\ Len(new) \in Nat /\ DOMAIN new = 1..Len(new) /\ Len(old) \in Nat /\ DOMAIN old = 1..Len(old)
      /\ \A i \in 1..Len(new) : new[i].calls \in Nat
      /\ \A i \in 1..Len(old) : old[i].calls \in Nat
  BY PromptIs
<1>2. k \in 0..Len(new) /\ d \in Int /\ Len(new) + d = Len(old) /\ k + d \in Nat
  BY DEF Shifted
<1>3. ASSUME NEW i \in 1..Len(new), ~Plain(new[i])
      PROVE  /\ i \in k + 1..Len(new) /\ i + d \in 1..Len(old) /\ i + d > k + d
             /\ new[i].role = old[i + d].role /\ new[i].calls = old[i + d].calls
             /\ IsRound(new[i]) <=> IsRound(old[i + d])
  <2>1. i \in k + 1..Len(new)
    BY <1>1, <1>2, <1>3 DEF Shifted
  <2>2. new[i].role = old[i + d].role /\ new[i].calls = old[i + d].calls
    BY <2>1 DEF Shifted, SameKind
  <2> QED
    BY <1>1, <1>2, <2>1, <2>2 DEF IsRound
<1>4. ASSUME NEW i \in 1..Len(new), IsRound(new[i])
      PROVE  /\ i + new[i].calls <= Len(new)
             /\ \A j \in i + 1..i + new[i].calls : j <= Len(new) => new[j].role = "tool"
  <2>1. /\ i \in k + 1..Len(new) /\ i + d \in 1..Len(old)
        /\ new[i].calls = old[i + d].calls /\ IsRound(old[i + d])
    BY <1>3, <1>4 DEF Plain
  <2>2. /\ i + d + old[i + d].calls <= Len(old)
        /\ \A j \in i + d + 1..i + d + old[i + d].calls : j <= Len(old) => old[j].role = "tool"
    BY <1>1, <2>1 DEF Whole
  <2>3. i + new[i].calls <= Len(new)
    BY <1>1, <1>2, <2>1, <2>2
  <2> DEFINE c == new[i].calls
             e == i + d
  <2>4. c \in Nat /\ e \in Int /\ e = i + d /\ \A b \in e + 1..e + c : b <= Len(old) => old[b].role = "tool"
    BY <1>1, <1>2, <2>1, <2>2
  <2>5. i \in Int /\ i \in k + 1..Len(new) /\ k \in Int /\ Len(new) \in Int
    BY <1>1, <1>2, <2>1
  <2> HIDE DEF c, e
  <2>6. ASSUME NEW j \in i + 1..i + c, j <= Len(new) PROVE new[j].role = "tool"
    <3> DEFINE f == j + d
    <3>1. j \in Int /\ j >= i + 1 /\ j <= i + c
      BY <2>4, <2>5
    <3>2. f \in Int /\ f = j + d /\ Len(new) + d = Len(old) /\ d \in Int /\ Len(old) \in Int
      <4>1. Len(new) + d = Len(old) /\ d \in Int
        BY <1>2
      <4>2. Len(old) \in Int
        BY <1>1
      <4>3. f \in Int
        BY <3>1, <4>1
      <4> QED
        BY <4>1, <4>2, <4>3
    <3> HIDE DEF f
    <3>3. j \in k + 1..Len(new)
      BY <2>5, <2>6, <3>1
    <3>4. f \in e + 1..e + c /\ f <= Len(old)
      BY <2>4, <2>5, <2>6, <3>1, <3>2
    <3>5. old[f].role = "tool"
      BY <2>4, <3>4
    <3>6. SameKind(new[j], old[j + d])
      BY <3>3 DEF Shifted
    <3>7. SameKind(new[j], old[f])
      BY <3>2, <3>6
    <3> QED
      BY <3>5, <3>7 DEF SameKind
  <2>7. \A j \in i + 1..i + new[i].calls : j <= Len(new) => new[j].role = "tool"
    BY <2>6 DEF c
  <2> QED
    BY <2>3, <2>7
<1>5. ASSUME NEW i \in 1..Len(new), new[i].role = "tool"
      PROVE  \E r \in 1..i - 1 : IsRound(new[r]) /\ i <= r + new[r].calls
  <2>1. i \in k + 1..Len(new) /\ i + d \in 1..Len(old) /\ i + d > k + d /\ old[i + d].role = "tool"
    BY <1>3, <1>5 DEF Plain
  <2> DEFINE e == i + d
  <2>2. e \in DOMAIN old /\ old[e].role = "tool" /\ e \in Nat
    BY <1>1, <2>1
  <2>3. PICK r \in 1..e - 1 : IsRound(old[r]) /\ e <= r + old[r].calls
    BY <2>2, Zenon DEF Whole
  <2>4. r \in Nat /\ r \in 1..Len(old) /\ old[r].calls \in Nat /\ e > r
    <3> HIDE DEF e
    <3> QED
      BY <1>1, <2>2, <2>3
  <2>5. r > k + d
    <3>1. r <= k + d => r + old[r].calls <= k + d
      BY <1>2, <2>3, <2>4 DEF NoneAcross
    <3> QED
      BY <1>2, <2>1, <2>3, <2>4, <3>1
  <2>6. r - d \in 1..i - 1 /\ r - d \in k + 1..Len(new) /\ (r - d) + d = r
    BY <1>1, <1>2, <2>1, <2>4, <2>5
  <2>7. new[r - d].role = old[r].role /\ new[r - d].calls = old[r].calls
    <3> DEFINE b == r - d
    <3>1. b \in k + 1..Len(new) /\ b + d = r
      BY <2>6
    <3> HIDE DEF b
    <3>2. SameKind(new[b], old[b + d])
      BY <3>1 DEF Shifted
    <3>3. SameKind(new[b], old[r])
      BY <3>1, <3>2
    <3> QED
      BY <3>3 DEF SameKind, b
  <2>8. IsRound(new[r - d]) /\ i <= (r - d) + new[r - d].calls
    BY <1>2, <2>1, <2>3, <2>4, <2>7 DEF IsRound
  <2> QED
    BY <2>6, <2>8
<1> QED
  BY <1>1, <1>4, <1>5 DEF Whole

\* A round begins where no other is left open.
LEMMA NoneAcrossStart ==
    ASSUME NEW ms \in Seq(Messages), Whole(ms, 0), NEW r \in 1..Len(ms), IsRound(ms[r])
    PROVE  NoneAcross(ms, r - 1)
<1>1. Len(ms) \in Nat /\ DOMAIN ms = 1..Len(ms) /\ \A i \in 1..Len(ms) : ms[i].calls \in Nat
  BY PromptIs
<1>2. ASSUME NEW i \in 1..r - 1, IsRound(ms[i]) PROVE i + ms[i].calls <= r - 1
  <2>1. i \in 1..Len(ms) /\ ms[i].calls \in Nat
    BY <1>1
  <2>2. \A j \in i + 1..i + ms[i].calls : j <= Len(ms) => ms[j].role = "tool"
    BY <1>1, <1>2, <2>1 DEF Whole
  <2>3. ms[r].role # "tool"
    BY DEF IsRound
  <2>4. r \notin i + 1..i + ms[i].calls
    BY <1>1, <2>2, <2>3
  <2> QED
    BY <1>1, <2>1, <2>4
<1> QED
  BY <1>2 DEF NoneAcross

-----------------------------------------------------------------------------
(* Stubs and the observations they speak of.                               *)

\* The first h messages: the system prompt and texts.
Opening(ms, h) ==
    /\ h \in 1..Len(ms) /\ ms[1].role = "system"
    /\ \A i \in 1..h : Plain(ms[i]) /\ ms[i].what = "text"

\* Stubs are results, and observations the user's messages.
Shape(ms) == \A i \in DOMAIN ms :
    /\ ms[i].what = "stub" => ms[i].role = "tool"
    /\ ms[i].what \in {"page", "same"} => ms[i].role = "user" /\ ms[i].calls = 0

\* No round has more stubs than observations.
Pairs(ms, h) == \A r \in RoundStarts(ms, h) :
    Cardinality(Stubs(ms, h, r)) <= Cardinality(Observations(ms, h, r))

\* The last round that begins at or before a position.
LEMMA RoundOfIs ==
    ASSUME NEW ms \in Seq(Messages), NEW h \in Nat, NEW r \in RoundStarts(ms, h), NEW i \in 1..Len(ms)
    PROVE  /\ r \in h + 1..Len(ms) /\ IsRound(ms[r])
           /\ RoundOf(ms, h, i) = r <=> r <= i /\ \A s \in RoundStarts(ms, h) : s <= i => s <= r
<1> DEFINE S == {s \in RoundStarts(ms, h) : s <= i}
<1>1. Len(ms) \in Nat /\ RoundStarts(ms, h) \subseteq 1..Len(ms) /\ S \subseteq 1..Len(ms)
  BY PromptIs DEF RoundStarts
<1>2. RoundOf(ms, h, i) = MaxOr0(S)
  BY DEF RoundOf
<1>3. r \in h + 1..Len(ms) /\ IsRound(ms[r]) /\ r \in Nat
  BY <1>1 DEF RoundStarts
<1> HIDE DEF S
<1>4. /\ MaxOr0(S) \in 0..Len(ms)
      /\ MaxOr0(S) # 0 => MaxOr0(S) \in S
      /\ \A y \in S : y <= MaxOr0(S)
  BY <1>1, MaxOr0Is
<1>5. \A s \in RoundStarts(ms, h) : s \in Nat /\ s # 0 /\ (s \in S <=> s <= i)
  BY <1>1 DEF S
<1>6. ASSUME RoundOf(ms, h, i) = r
      PROVE  r <= i /\ \A s \in RoundStarts(ms, h) : s <= i => s <= r
  BY <1>2, <1>3, <1>4, <1>5, <1>6
<1>7. ASSUME r <= i, \A s \in RoundStarts(ms, h) : s <= i => s <= r
      PROVE  RoundOf(ms, h, i) = r
  <2>1. r \in S /\ r <= MaxOr0(S) /\ MaxOr0(S) \in S
    BY <1>1, <1>3, <1>4, <1>5, <1>7
  <2>2. MaxOr0(S) \in RoundStarts(ms, h) /\ MaxOr0(S) <= i
    BY <2>1 DEF S
  <2>3. MaxOr0(S) <= r
    BY <1>7, <2>2
  <2> QED
    BY <1>2, <1>3, <1>4, <2>1, <2>3
<1> QED
  BY <1>3, <1>6, <1>7

\* Behind a cut the rounds are those that were there, d positions back.
LEMMA ShiftedRounds ==
    ASSUME NEW old \in Seq(Messages), NEW new \in Seq(Messages), NEW k, NEW d,
           Shifted(old, new, k, d), NEW h \in 0..k, NEW g \in 0..k + d,
           NEW r \in RoundStarts(new, h)
    PROVE  /\ r \in k + 1..Len(new) /\ r + d \in RoundStarts(old, g) /\ r + d \in 1..Len(old)
           /\ \A i \in r..Len(new) :
                 /\ i + d \in r + d..Len(old)
                 /\ RoundOf(new, h, i) = r <=> RoundOf(old, g, i + d) = r + d
<1>1. Len(new) \in Nat /\ Len(old) \in Nat
  BY PromptIs
<1>2. k \in 0..Len(new) /\ d \in Int /\ Len(new) + d = Len(old) /\ k + d \in Nat /\ h \in Nat /\ g \in Nat
  BY <1>1 DEF Shifted
<1>3. ASSUME NEW s \in RoundStarts(new, h)
      PROVE  s \in k + 1..Len(new) /\ s + d \in RoundStarts(old, g) /\ s + d \in 1..Len(old)
  <2>1. s \in h + 1..Len(new) /\ IsRound(new[s])
    BY DEF RoundStarts
  <2>2. s \in k + 1..Len(new)
    BY <1>1, <1>2, <2>1 DEF Shifted, Plain
  <2>3. new[s].role = old[s + d].role /\ new[s].calls = old[s + d].calls
    BY <2>2 DEF Shifted, SameKind
  <2>4. s + d \in g + 1..Len(old) /\ IsRound(old[s + d]) /\ s + d \in 1..Len(old)
    BY <1>1, <1>2, <2>1, <2>2, <2>3 DEF IsRound
  <2> QED
    BY <2>2, <2>4 DEF RoundStarts
<1>4. ASSUME NEW i \in r..Len(new)
      PROVE  /\ i + d \in r + d..Len(old)
             /\ RoundOf(new, h, i) = r <=> RoundOf(old, g, i + d) = r + d
  <2>1. /\ r \in k + 1..Len(new) /\ r + d \in RoundStarts(old, g) /\ r \in Int /\ i \in Int
        /\ i \in 1..Len(new) /\ i + d \in 1..Len(old) /\ i + d \in r + d..Len(old) /\ r <= i
    BY <1>1, <1>2, <1>3
  <2>2. RoundOf(new, h, i) = r <=> \A s \in RoundStarts(new, h) : s <= i => s <= r
    BY <1>2, <2>1, RoundOfIs
  <2> DEFINE e == i + d
             q == r + d
  <2>3. RoundOf(old, g, e) = q <=> q <= e /\ \A s \in RoundStarts(old, g) : s <= e => s <= q
    <3>1. e \in 1..Len(old) /\ q \in RoundStarts(old, g)
      BY <2>1
    <3> HIDE DEF e, q
    <3> QED
      BY <1>2, <3>1, RoundOfIs
  <2>4. q <= e
    BY <1>2, <2>1
  <2>5. ASSUME \A s \in RoundStarts(new, h) : s <= i => s <= r, NEW s \in RoundStarts(old, g), s <= e
        PROVE  s <= q
    <3>1. s \in Nat /\ s \in g + 1..Len(old) /\ IsRound(old[s])
      BY <1>2 DEF RoundStarts
    <3>2. CASE s <= k + d
      BY <1>2, <2>1, <3>1, <3>2
    <3>3. CASE s > k + d
      <4>1. s - d \in k + 1..Len(new) /\ (s - d) + d = s /\ s - d <= i
        BY <1>1, <1>2, <2>1, <2>5, <3>1, <3>3
      <4>2. new[s - d].role = old[s].role /\ new[s - d].calls = old[s].calls
        BY <4>1 DEF Shifted, SameKind
      <4>3. s - d \in RoundStarts(new, h)
        <5>1. s - d \in h + 1..Len(new)
          BY <1>1, <1>2, <4>1
        <5> QED
          BY <3>1, <4>2, <5>1 DEF RoundStarts, IsRound
      <4>4. s - d <= r
        BY <2>5, <4>1, <4>3
      <4> QED
        BY <1>2, <2>1, <3>1, <4>4
    <3> QED
      BY <1>2, <3>1, <3>2, <3>3
  <2>6. ASSUME \A s \in RoundStarts(old, g) : s <= e => s <= q, NEW s \in RoundStarts(new, h), s <= i
        PROVE  s <= r
    <3>1. s \in Int /\ s + d \in RoundStarts(old, g)
      BY <1>1, <1>2, <1>3
    <3>2. s + d <= e
      BY <1>2, <2>1, <2>6, <3>1
    <3>3. s + d <= q
      BY <2>6, <3>1, <3>2
    <3> QED
      BY <1>2, <2>1, <3>1, <3>3
  <2> QED
    BY <2>1, <2>2, <2>3, <2>4, <2>5, <2>6
<1> QED
  BY <1>3, <1>4

\* A set moved by d has as many elements.
LEMMA MovedSet ==
    ASSUME NEW n \in Nat, NEW A \in SUBSET (1..n), NEW B, NEW d \in Int,
           \A i \in A : i + d \in B, \A j \in B : j \in Int /\ j - d \in A
    PROVE  Cardinality(A) = Cardinality(B)
<1> DEFINE f == [i \in A |-> i + d]
<1>1. IsFiniteSet(A)
  <2>1. IsFiniteSet(1..n)
    BY FS_Interval
  <2> QED
    BY <2>1, FS_Subset
<1>2. f \in [A -> B]
  OBVIOUS
<1>3. \A i, j \in A : f[i] = f[j] => i = j
  OBVIOUS
<1>4. \A j \in B : \E i \in A : f[i] = j
  <2> TAKE j \in B
  <2>1. j - d \in A /\ f[j - d] = j
    OBVIOUS
  <2> QED
    BY <2>1
<1>5. f \in Bijection(A, B)
  <2> HIDE DEF f
  <2> QED
    BY <1>2, <1>3, <1>4 DEF Bijection, Injection, IsInjective, Surjection
<1> QED
  BY <1>1, <1>5, FS_Bijection DEF ExistsBijection

\* A cut leaves the rounds behind it as many stubs and observations.
LEMMA ShiftedPairs ==
    ASSUME NEW old \in Seq(Messages), NEW new \in Seq(Messages), NEW k, NEW d,
           Shifted(old, new, k, d), NEW h \in 0..k, NEW g \in 0..k + d,
           \A i \in k + 1..Len(new) : new[i].what = old[i + d].what,
           Pairs(old, g)
    PROVE  Pairs(new, h)
<1>1. Len(new) \in Nat /\ Len(old) \in Nat
  BY PromptIs
<1>2. k \in 0..Len(new) /\ d \in Int /\ Len(new) + d = Len(old) /\ k + d \in Nat
  BY <1>1 DEF Shifted
<1>3. ASSUME NEW r \in RoundStarts(new, h)
      PROVE  Cardinality(Stubs(new, h, r)) <= Cardinality(Observations(new, h, r))
  <2>1. r \in k + 1..Len(new) /\ r + d \in RoundStarts(old, g) /\ r + d \in 1..Len(old)
    BY ShiftedRounds
  <2>2. ASSUME NEW i \in r..Len(new)
        PROVE  /\ i + d \in r + d..Len(old) /\ i \in k + 1..Len(new)
               /\ RoundOf(new, h, i) = r <=> RoundOf(old, g, i + d) = r + d
               /\ new[i].what = old[i + d].what /\ new[i].role = old[i + d].role
    <3>1. i \in k + 1..Len(new)
      BY <1>1, <1>2, <2>1
    <3>2. new[i].what = old[i + d].what /\ new[i].role = old[i + d].role
      BY <3>1 DEF Shifted, SameKind
    <3> QED
      BY <3>1, <3>2, ShiftedRounds
  <2>3. ASSUME NEW j \in r + d..Len(old)
        PROVE  j \in Int /\ j - d \in r..Len(new) /\ (j - d) + d = j
    BY <1>1, <1>2, <2>1
  <2>4. Cardinality(Stubs(new, h, r)) = Cardinality(Stubs(old, g, r + d))
    <3> DEFINE A == Stubs(new, h, r)
               B == Stubs(old, g, r + d)
    <3>1. A \in SUBSET (1..Len(new))
      BY <1>1, <1>2, <2>1 DEF Stubs
    <3>2. \A i \in A : i + d \in B
      BY <2>2 DEF Stubs
    <3>3. ASSUME NEW j \in B PROVE j \in Int /\ j - d \in A
      <4>1. j \in r + d..Len(old) /\ old[j].what = "stub" /\ RoundOf(old, g, j) = r + d
        BY DEF Stubs
      <4>2. j \in Int /\ j - d \in r..Len(new) /\ (j - d) + d = j
        BY <2>3, <4>1
      <4>3. new[j - d].what = "stub" /\ RoundOf(new, h, j - d) = r
        BY <2>2, <4>1, <4>2
      <4> QED
        BY <4>2, <4>3 DEF Stubs
    <3> HIDE DEF A, B
    <3> QED
      BY <1>1, <1>2, <3>1, <3>2, <3>3, MovedSet DEF A, B
  <2>5. Cardinality(Observations(new, h, r)) = Cardinality(Observations(old, g, r + d))
    <3> DEFINE A == Observations(new, h, r)
               B == Observations(old, g, r + d)
    <3>1. A \in SUBSET (1..Len(new))
      BY <1>1, <1>2, <2>1 DEF Observations
    <3>2. \A i \in A : i + d \in B
      BY <2>2 DEF Observations, IsObservation
    <3>3. ASSUME NEW j \in B PROVE j \in Int /\ j - d \in A
      <4>1. j \in r + d..Len(old) /\ IsObservation(old[j]) /\ RoundOf(old, g, j) = r + d
        BY DEF Observations
      <4>2. j \in Int /\ j - d \in r..Len(new) /\ (j - d) + d = j
        BY <2>3, <4>1
      <4>3. IsObservation(new[j - d]) /\ RoundOf(new, h, j - d) = r
        BY <2>2, <4>1, <4>2 DEF IsObservation
      <4> QED
        BY <4>2, <4>3 DEF Observations
    <3> HIDE DEF A, B
    <3> QED
      BY <1>1, <1>2, <3>1, <3>2, <3>3, MovedSet DEF A, B
  <2> QED
    BY <2>1, <2>4, <2>5 DEF Pairs
<1> QED
  BY <1>3 DEF Pairs

\* A result belongs to the last round that began before it.
LEMMA ResultsRound ==
    ASSUME NEW ms \in Seq(Messages), NEW h, Opening(ms, h), Whole(ms, 0),
           NEW s \in 1..Len(ms), ms[s].role = "tool"
    PROVE  \E r \in RoundStarts(ms, h) :
              RoundOf(ms, h, s) = r /\ r < s /\ s <= r + ms[r].calls
<1>1. /\ Len(ms) \in Nat /\ DOMAIN ms = 1..Len(ms) /\ h \in 1..Len(ms)
      /\ \A i \in 1..Len(ms) : ms[i].calls \in Nat
  BY PromptIs DEF Opening
<1>2. PICK r \in 1..s - 1 : IsRound(ms[r]) /\ s <= r + ms[r].calls
  BY <1>1, Zenon DEF Whole
<1>3. r \in Nat /\ s \in Nat /\ r < s /\ r \in 1..Len(ms) /\ ms[r].calls \in Nat
  BY <1>1
<1>4. r \in RoundStarts(ms, h)
  <2>1. r > h
    BY <1>1, <1>2, <1>3 DEF Opening, Plain
  <2> QED
    BY <1>1, <1>2, <1>3, <2>1 DEF RoundStarts
<1>5. ASSUME NEW q \in RoundStarts(ms, h), q <= s PROVE q <= r
  <2>1. q \in 1..Len(ms) /\ IsRound(ms[q])
    BY <1>1 DEF RoundStarts
  <2>2. \A j \in r + 1..r + ms[r].calls : j <= Len(ms) => ms[j].role = "tool"
    BY <1>1, <1>2, <1>3 DEF Whole
  <2>3. q \notin r + 1..r + ms[r].calls
    BY <2>1, <2>2 DEF IsRound
  <2> QED
    BY <1>2, <1>3, <1>5, <2>1, <2>3
<1>6. RoundOf(ms, h, s) = r
  <2>1. h \in Nat /\ s \in 1..Len(ms) /\ r <= s
    BY <1>1, <1>3
  <2>2. RoundOf(ms, h, s) = r <=> r <= s /\ \A q \in RoundStarts(ms, h) : q <= s => q <= r
    BY <1>4, <2>1, RoundOfIs
  <2> QED
    BY <1>5, <2>1, <2>2
<1> QED
  BY <1>2, <1>3, <1>4, <1>6

\* Where no round has more stubs than observations, each stub has its own, which
\* comes after it.
LEMMA PairsGiveObservations ==
    ASSUME NEW ms \in Seq(Messages), NEW h, Opening(ms, h), Shape(ms), Whole(ms, 0), Pairs(ms, h),
           NEW s \in DOMAIN ms, ms[s].what = "stub"
    PROVE  \E o \in s + 1..Len(ms) : IsPaired(ms, h, s, o)
<1>1. /\ Len(ms) \in Nat /\ DOMAIN ms = 1..Len(ms) /\ h \in 1..Len(ms)
      /\ \A i \in 1..Len(ms) : ms[i].calls \in Nat
  BY PromptIs DEF Opening
<1>2. PICK r \in RoundStarts(ms, h) : RoundOf(ms, h, s) = r /\ r < s /\ s <= r + ms[r].calls
  BY <1>1, ResultsRound DEF Shape
<1>3. r \in 1..Len(ms) /\ IsRound(ms[r])
  BY <1>1 DEF RoundStarts
<1> DEFINE A == Stubs(ms, h, r)
           B == Observations(ms, h, r)
<1>4. A \subseteq 1..Len(ms) /\ B \subseteq 1..Len(ms) /\ s \in A
  BY <1>1, <1>2, <1>3 DEF Stubs, Observations
<1>5. Rank(A, s) \in 1..Cardinality(B)
  <2>1. Cardinality(A) <= Cardinality(B)
    BY DEF Pairs
  <2>2. Rank(A, s) \in 1..Cardinality(A) /\ Cardinality(A) \in Nat
    <3> HIDE DEF A, B
    <3> QED
      BY <1>1, <1>4, RankIs
  <2>3. Cardinality(B) \in Nat
    <3> HIDE DEF A, B
    <3> QED
      BY <1>1, <1>4, RankIs
  <2> HIDE DEF A, B
  <2> QED
    BY <2>1, <2>2, <2>3
<1>6. PICK o \in B : Rank(B, o) = Rank(A, s)
  <2> HIDE DEF A, B
  <2> QED
    BY <1>1, <1>4, <1>5, RankOnto
<1>7. o \in s + 1..Len(ms)
  <2>1. o \in r..Len(ms) /\ ms[o].role = "user"
    BY DEF Observations, IsObservation
  <2>2. \A j \in r + 1..r + ms[r].calls : j <= Len(ms) => ms[j].role = "tool"
    BY <1>1, <1>3 DEF Whole
  <2>3. o \notin r + 1..r + ms[r].calls /\ o # r
    BY <1>3, <2>1, <2>2 DEF IsRound
  <2> QED
    BY <1>1, <1>2, <1>3, <2>1, <2>3
<1>8. IsPaired(ms, h, s, o)
  BY <1>2, <1>3, <1>6 DEF IsPaired
<1> QED
  BY <1>7, <1>8

-----------------------------------------------------------------------------
(* What the compaction keeps.                                              *)

\* The pieces a prompt is made of are messages.
LEMMA PiecesAre ==
    /\ \A role \in {"system", "user", "assistant", "tool"}, n \in Nat : Text(role, n) \in Messages
    /\ \A n \in Nat : Round(n) \in Messages
    /\ Stub \in Messages
    /\ \A p \in Pages \cup {NoPage}, n \in Nat, image \in BOOLEAN : Page(p, n, image) \in Messages
    /\ \A p \in Pages \cup {NoPage} : Same(p) \in Messages
BY DEF Text, Round, Stub, Page, Same, Messages, Contents

\* The newest page and the newest "unchanged" behind it.
LEMMA LatestIs ==
    ASSUME NEW ms \in Seq(Messages), NEW h \in Nat
    PROVE  /\ LatestPage(ms, h) \in 0..Len(ms)
           /\ LatestPage(ms, h) # 0 =>
                 LatestPage(ms, h) \in h + 1..Len(ms) /\ ms[LatestPage(ms, h)].what = "page"
           /\ \A i \in h + 1..Len(ms) : ms[i].what = "page" =>
                 i <= LatestPage(ms, h) /\ LatestPage(ms, h) # 0
           /\ LatestSame(ms, h) \in 0..Len(ms)
           /\ LatestSame(ms, h) # 0 =>
                 /\ LatestSame(ms, h) \in h + 1..Len(ms) /\ ms[LatestSame(ms, h)].what = "same"
                 /\ LatestSame(ms, h) > LatestPage(ms, h)
<1>1. Len(ms) \in Nat
  BY PromptIs
<1> DEFINE P == {i \in h + 1..Len(ms) : ms[i].what = "page"}
           p == LatestPage(ms, h)
           S == {i \in h + 1..Len(ms) : ms[i].what = "same" /\ i > p}
<1>2. P \subseteq 1..Len(ms) /\ S \subseteq 1..Len(ms) /\ p = MaxOr0(P) /\ LatestSame(ms, h) = MaxOr0(S)
  BY <1>1 DEF LatestPage, LatestSame
<1>3. /\ p \in 0..Len(ms) /\ (p # 0 => p \in P)
      /\ \A i \in P : i <= p /\ p # 0
  <2> HIDE DEF P, p
  <2>1. /\ MaxOr0(P) \in 0..Len(ms)
        /\ MaxOr0(P) = 0 <=> P = {}
        /\ MaxOr0(P) # 0 => MaxOr0(P) \in P
        /\ \A i \in P : i <= MaxOr0(P)
    BY <1>1, <1>2, MaxOr0Is
  <2> QED
    BY <1>2, <2>1
<1>4. MaxOr0(S) \in 0..Len(ms) /\ (MaxOr0(S) # 0 => MaxOr0(S) \in S)
  <2> HIDE DEF S
  <2> QED
    BY <1>1, <1>2, MaxOr0Is
<1> QED
  BY <1>2, <1>3, <1>4

\* The newest rounds begin at a round or right after the opening.
LEMMA KeptFromIs ==
    ASSUME NEW ms \in Seq(Messages), NEW h \in 0..Len(ms)
    PROVE  KeptFrom(ms, h) = h + 1 \/ KeptFrom(ms, h) \in RoundStarts(ms, h)
<1> DEFINE S == RoundStarts(ms, h)
           T == {r \in S : Cardinality(Newer(ms, h, r)) <= MaxToolRounds}
<1> SUFFICES ASSUME Cardinality(S) > MaxToolRounds PROVE KeptFrom(ms, h) \in S
  BY DEF KeptFrom
<1>1. Len(ms) \in Nat /\ S \subseteq 1..Len(ms) /\ MaxToolRounds \in Nat \ {0}
  BY PromptIs, PromptAssumption DEF RoundStarts
<1>2. S # {}
  <2>1. Cardinality(S) # 0
    BY <1>1
  <2> QED
    BY <2>1, FS_EmptySet
<1> DEFINE r == MaxOr0(S)
<1>3. r \in S /\ \A s \in S : s <= r
  <2> HIDE DEF S
  <2> QED
    BY <1>1, <1>2, MaxOr0Is
<1>4. Newer(ms, h, r) = {r}
  <2>1. \A s \in S : s >= r => s = r
    BY <1>1, <1>3
  <2>2. r >= r
    BY <1>1, <1>3
  <2>3. Newer(ms, h, r) = {s \in S : s >= r}
    BY DEF Newer
  <2> HIDE DEF S, r
  <2> QED
    BY <1>3, <2>1, <2>2, <2>3
<1>5. r \in T
  <2>1. Cardinality({r}) = 1
    BY FS_Singleton
  <2>2. Cardinality(Newer(ms, h, r)) <= MaxToolRounds
    <3> HIDE DEF S, r
    <3> QED
      BY <1>1, <1>4, <2>1
  <2> HIDE DEF r
  <2> QED
    BY <1>3, <2>2
<1>6. T \subseteq Nat /\ T # {}
  BY <1>1, <1>5
<1>7. Min(T) \in T
  <2> HIDE DEF T
  <2> QED
    BY <1>6, MinExists
<1> QED
  BY <1>7 DEF KeptFrom

\* The conversation `ms' after the compaction: its opening, the current page if
\* its round fell out, and the newest rounds without what is superseded.
Compacted(ms, h, new, k, d) ==
    LET page == LatestPage(ms, h)
        from == KeptFrom(ms, h)
    IN  /\ k + d = from - 1
        /\ \A i \in 1..h : new[i] = ms[i]
        /\ IF page # 0 /\ page < from THEN k = h + 1 /\ new[k] = ms[page] ELSE k = h
        /\ \A i \in k + 1..Len(new) : new[i] = Superseded(ms, h, Current(ms, h), i + d)

\* What stands for a message after the compaction is a message.
LEMMA SupersededType ==
    ASSUME NEW ms \in Seq(Messages), NEW h, NEW current, NEW i \in 1..Len(ms)
    PROVE  Superseded(ms, h, current, i) \in Messages
<1> DEFINE m == Superseded(ms, h, current, i)
<1>1. ms[i] \in Messages
  BY PromptIs
<1>2. m \in {[Text("user", 0) EXCEPT !.what = "old"], [ms[i] EXCEPT !.what = "gone"], ms[i]}
  BY DEF Superseded
<1>3. /\ [Text("user", 0) EXCEPT !.what = "old"] \in Messages
      /\ [ms[i] EXCEPT !.what = "gone"] \in Messages
  BY <1>1 DEF Text, Messages, Contents
<1> HIDE DEF m
<1>4. m \in Messages
  BY <1>1, <1>2, <1>3
<1> QED
  BY <1>4 DEF m

\* The same, and what it is.
LEMMA SupersededIs ==
    ASSUME NEW ms \in Seq(Messages), NEW h, NEW current, NEW i \in 1..Len(ms), Shape(ms)
    PROVE  LET m == Superseded(ms, h, current, i)
           IN  /\ m \in Messages /\ SameKind(m, ms[i])
               /\ m.what = "stub" => m = ms[i] /\ \E o \in current : IsPaired(ms, h, i, o)
               /\ m.what \in {"page", "same"} => m = ms[i] /\ i \in current
               /\ ms[i].what \in {"page", "same"} /\ i \in current => m = ms[i]
<1> DEFINE m == Superseded(ms, h, current, i)
<1>1. ms[i] \in Messages /\ i \in DOMAIN ms
  BY PromptIs
<1>2. /\ ms[i].what = "stub" => ms[i].role = "tool"
      /\ ms[i].what \in {"page", "same"} => ms[i].role = "user" /\ ms[i].calls = 0
  BY <1>1 DEF Shape
<1>3. CASE IsObservation(ms[i]) /\ i \notin current
  <2>1. m = [Text("user", 0) EXCEPT !.what = "old"]
    BY <1>3 DEF Superseded, IsObservation
  <2>2. m \in Messages /\ m.role = "user" /\ m.calls = 0 /\ m.what = "old"
    <3> HIDE DEF m
    <3> QED
      BY <2>1 DEF Text, Messages, Contents
  <2> QED
    BY <1>2, <1>3, <2>2 DEF SameKind, IsObservation
<1>4. CASE ~(IsObservation(ms[i]) /\ i \notin current)
  <2>1. CASE ms[i].what = "stub" /\ ~\E o \in current : IsPaired(ms, h, i, o)
    <3>1. m = [ms[i] EXCEPT !.what = "gone"]
      BY <1>4, <2>1 DEF Superseded, IsObservation
    <3>2. m \in Messages /\ m.role = ms[i].role /\ m.calls = ms[i].calls /\ m.what = "gone"
      BY <1>1, <3>1 DEF Messages, Contents
    <3> QED
      BY <2>1, <3>2 DEF SameKind
  <2>2. CASE ~(ms[i].what = "stub" /\ ~\E o \in current : IsPaired(ms, h, i, o))
    <3>1. m = ms[i]
      BY <1>4, <2>2 DEF Superseded
    <3> QED
      BY <1>1, <1>2, <1>4, <2>2, <3>1 DEF SameKind, IsObservation
  <2> QED
    BY <2>1, <2>2
<1> QED
  BY <1>3, <1>4

\* Where the messages of a compaction come from.
Placed(ms, h, new, k, d) ==
    /\ k \in 0..Len(new) /\ d \in Int /\ Len(new) + d = Len(ms) /\ k + d \in Nat
    /\ h <= k /\ k <= h + 1
    /\ \A i \in k + 1..Len(new) : i + d \in 1..Len(ms)

\* The compaction keeps what Compacted says, whatever the first h messages are.
LEMMA CompactCut ==
    ASSUME NEW ms \in Seq(Messages), NEW h \in 1..Len(ms)
    PROVE  /\ CompactTask(ms, h) \in Seq(Messages)
           /\ \E k, d : /\ Compacted(ms, h, CompactTask(ms, h), k, d)
                        /\ Placed(ms, h, CompactTask(ms, h), k, d)
<1> DEFINE n == Len(ms)
           page == LatestPage(ms, h)
           from == KeptFrom(ms, h)
           c == Carried(ms, h, from)
           sup == [i \in DOMAIN ms |-> Superseded(ms, h, Current(ms, h), i)]
           front == SubSeq(ms, 1, h)
           back == SubSeq(sup, from, n)
           new == CompactTask(ms, h)
           k == h + Len(c)
           d == from - 1 - k
<1>1. /\ n \in Nat /\ DOMAIN ms = 1..n /\ h \in 1..n /\ h \in Nat /\ h \in 0..n
      /\ \A i \in 1..n : ms[i] \in Messages
  BY PromptIs
<1>2. from \in h + 1..n + 1 /\ from \in Nat
  <2>1. from = h + 1 \/ from \in h + 1..n
    BY <1>1, KeptFromIs DEF RoundStarts
  <2> HIDE DEF from
  <2> QED
    BY <1>1, <2>1
<1>3. sup \in Seq(Messages) /\ Len(sup) = n
  <2>1. \A i \in 1..n : Superseded(ms, h, Current(ms, h), i) \in Messages
    BY <1>1, SupersededType
  <2>2. sup \in [1..n -> Messages]
    BY <1>1, <2>1
  <2> HIDE DEF sup
  <2> QED
    BY <1>1, <2>2, SeqDef
<1>4. page \in 0..n /\ (page # 0 => page \in h + 1..n /\ ms[page].what = "page")
  BY <1>1, LatestIs
<1>5. /\ c \in Seq(Messages)
      /\ IF page # 0 /\ page < from THEN Len(c) = 1 /\ c[1] = ms[page] ELSE Len(c) = 0
  <2> HIDE DEF from
  <2>1. CASE page # 0 /\ page < from
    <3>1. c = <<ms[page]>> /\ ms[page] \in Messages
      BY <1>1, <1>4, <2>1 DEF Carried
    <3> HIDE DEF c, page
    <3> QED
      BY <2>1, <3>1
  <2>2. CASE ~(page # 0 /\ page < from)
    <3>1. c = <<>>
      BY <2>2 DEF Carried
    <3> HIDE DEF c, page
    <3> QED
      BY <2>2, <3>1, EmptySeq
  <2> QED
    BY <2>1, <2>2
<1>6. front \in Seq(Messages) /\ Len(front) = h /\ \A i \in 1..h : front[i] = ms[i]
  BY <1>1
<1>7. /\ back \in Seq(Messages) /\ Len(back) = n - from + 1
      /\ \A i \in 1..n - from + 1 : back[i] = sup[from + i - 1]
  <2> HIDE DEF sup, from
  <2>1. \A i \in from..n : sup[i] \in Messages
    BY <1>1, <1>2, <1>3, ElementOfSeq
  <2> QED
    BY <1>1, <1>2, <2>1, SubSeqProperties
<1>8. new = front \o c \o back
  BY DEF CompactTask
<1> HIDE DEF front, back, new
<1>9. /\ front \o c \in Seq(Messages) /\ Len(front \o c) = k /\ k \in Nat /\ k \in h..h + 1
      /\ \A i \in 1..k : (front \o c)[i] = IF i <= h THEN front[i] ELSE c[i - h]
  <2> HIDE DEF c, from, page
  <2>1. Len(c) \in 0..1
    BY <1>5
  <2>2. /\ front \o c \in Seq(Messages) /\ Len(front \o c) = Len(front) + Len(c)
        /\ \A i \in 1..Len(front) + Len(c) :
              (front \o c)[i] = IF i <= Len(front) THEN front[i] ELSE c[i - Len(front)]
    BY <1>5, <1>6, ConcatProperties
  <2> QED
    BY <1>1, <1>6, <2>1, <2>2
<1>10. /\ new \in Seq(Messages) /\ Len(new) = k + (n - from + 1)
       /\ \A i \in 1..Len(new) : new[i] = IF i <= k THEN (front \o c)[i] ELSE back[i - k]
  <2> DEFINE fc == front \o c
  <2>1. fc \in Seq(Messages) /\ Len(fc) = k /\ new = fc \o back
    BY <1>8, <1>9
  <2> HIDE DEF fc
  <2>2. /\ fc \o back \in Seq(Messages) /\ Len(fc \o back) = Len(fc) + Len(back)
        /\ \A i \in 1..Len(fc) + Len(back) :
              (fc \o back)[i] = IF i <= Len(fc) THEN fc[i] ELSE back[i - Len(fc)]
    <3>1. back \in Seq(Messages)
      BY <1>7
    <3>2. fc \in Seq(Messages)
      BY <2>1
    <3> QED
      BY <3>1, <3>2, ConcatProperties
  <2>3. /\ new \in Seq(Messages) /\ Len(new) = k + (n - from + 1)
        /\ \A i \in 1..Len(new) : new[i] = IF i <= k THEN fc[i] ELSE back[i - k]
    <3> HIDE DEF c, from, k
    <3> QED
      BY <1>7, <2>1, <2>2
  <2> HIDE DEF k, from
  <2> QED
    BY <2>3 DEF fc
<1>11. k \in 0..Len(new) /\ d \in Int /\ Len(new) + d = n /\ k + d \in Nat /\ k + d = from - 1
  <2> HIDE DEF c, from
  <2> QED
    BY <1>1, <1>2, <1>9, <1>10
<1>12. \A i \in 1..h : new[i] = ms[i]
  <2> TAKE i \in 1..h
  <2>1. i \in 1..k /\ i \in 1..Len(new) /\ i <= k /\ i <= h
    <3> HIDE DEF c, from, k, d
    <3>1. h <= k /\ k \in Nat /\ h \in Nat
      BY <1>1, <1>9
    <3>2. k <= Len(new) /\ Len(new) \in Int
      BY <1>10, <1>11, PromptIs
    <3> QED
      BY <3>1, <3>2
  <2>2. new[i] = (front \o c)[i]
    <3> HIDE DEF c, from, k
    <3> QED
      BY <1>10, <2>1
  <2>3. (front \o c)[i] = front[i]
    <3> HIDE DEF c, from, k
    <3> QED
      BY <1>9, <2>1
  <2> HIDE DEF c, from, k
  <2> QED
    BY <1>6, <2>2, <2>3
<1>13. IF page # 0 /\ page < from THEN k = h + 1 /\ new[k] = ms[page] ELSE k = h
  <2>1. CASE page # 0 /\ page < from
    <3>1. Len(c) = 1 /\ c[1] = ms[page]
      BY <1>5, <2>1
    <3> HIDE DEF c, from, page
    <3>2. k = h + 1 /\ k \in 1..Len(new) /\ k - h = 1
      BY <1>1, <1>11, <3>1
    <3>3. new[k] = c[1]
      BY <1>1, <1>9, <1>10, <3>2
    <3> QED
      BY <2>1, <3>1, <3>2, <3>3
  <2>2. CASE ~(page # 0 /\ page < from)
    <3> HIDE DEF c, from, page
    <3> QED
      BY <1>1, <1>5, <2>2
  <2> QED
    BY <2>1, <2>2
<1>14. \A i \in k + 1..Len(new) : i + d \in 1..n /\ new[i] = Superseded(ms, h, Current(ms, h), i + d)
  <2> TAKE i \in k + 1..Len(new)
  <2>1. i + d \in 1..n /\ i - k \in 1..n - from + 1 /\ from + (i - k) - 1 = i + d /\ i \in 1..Len(new) /\ ~(i <= k)
    <3> HIDE DEF c, from
    <3> QED
      BY <1>1, <1>2, <1>9, <1>10, <1>11
  <2>2. new[i] = sup[i + d]
    <3> HIDE DEF sup, c, from, k, d
    <3> QED
      BY <1>7, <1>10, <2>1
  <2> HIDE DEF new, d
  <2> QED
    BY <1>1, <2>1, <2>2
<1>15. Compacted(ms, h, new, k, d)
  <2> HIDE DEF new, k, d
  <2> QED
    BY <1>11, <1>12, <1>13, <1>14 DEF Compacted
<1>16. Placed(ms, h, new, k, d)
  <2>1. h <= k /\ k <= h + 1
    <3> HIDE DEF k
    <3> QED
      BY <1>1, <1>9
  <2> HIDE DEF new, k, d
  <2> QED
    BY <1>11, <1>14, <2>1 DEF Placed
<1> HIDE DEF k, d
<1> QED
  BY <1>10, <1>15, <1>16 DEF new

\* The compaction is a cut, and keeps what Compacted says.
LEMMA CompactIs ==
    ASSUME NEW ms \in Seq(Messages), NEW h, Opening(ms, h), Shape(ms)
    PROVE  /\ CompactTask(ms, h) \in Seq(Messages)
           /\ \E k, d : /\ Compacted(ms, h, CompactTask(ms, h), k, d)
                        /\ Shifted(ms, CompactTask(ms, h), k, d) /\ h <= k
<1> DEFINE new == CompactTask(ms, h)
<1>1. h \in 1..Len(ms)
  BY DEF Opening
<1>2. new \in Seq(Messages)
  BY <1>1, CompactCut
<1>3. PICK k, d : Compacted(ms, h, new, k, d) /\ Placed(ms, h, new, k, d)
  BY <1>1, CompactCut
<1> HIDE DEF new
<1>4. /\ Len(ms) \in Nat /\ DOMAIN ms = 1..Len(ms) /\ Len(new) \in Nat /\ h \in Nat
      /\ k \in 0..Len(new) /\ k \in Nat /\ d \in Int /\ Len(new) + d = Len(ms) /\ k + d \in Nat
      /\ h <= k /\ k <= h + 1
  BY <1>1, <1>2, <1>3, PromptIs DEF Placed
<1>5. ASSUME NEW i \in 1..k PROVE Plain(new[i])
  <2>1. CASE i <= h
    <3>1. i \in 1..h
      BY <1>4, <2>1
    <3> QED
      BY <1>3, <3>1 DEF Compacted, Opening
  <2>2. CASE i > h
    <3>1. k = h + 1 /\ i = k
      BY <1>4, <2>2
    <3>2. LatestPage(ms, h) # 0 /\ new[k] = ms[LatestPage(ms, h)]
      BY <1>3, <1>4, <3>1 DEF Compacted
    <3>3. LatestPage(ms, h) \in 1..Len(ms) /\ ms[LatestPage(ms, h)].what = "page"
      <4> DEFINE p == LatestPage(ms, h)
      <4>1. p \in h + 1..Len(ms) /\ ms[p].what = "page"
        BY <1>4, <3>2, LatestIs
      <4> HIDE DEF p
      <4>2. p \in 1..Len(ms)
        BY <1>4, <4>1
      <4> QED
        BY <4>1, <4>2 DEF p
    <3>4. ms[LatestPage(ms, h)].role = "user"
      BY <1>4, <3>3 DEF Shape
    <3> QED
      BY <3>1, <3>2, <3>4 DEF Plain, IsRound
  <2> QED
    BY <1>1, <1>4, <2>1, <2>2
<1>6. ASSUME NEW i \in k + 1..Len(new) PROVE SameKind(new[i], ms[i + d])
  <2>1. i + d \in 1..Len(ms) /\ new[i] = Superseded(ms, h, Current(ms, h), i + d)
    BY <1>3 DEF Compacted, Placed
  <2> QED
    BY <2>1, SupersededIs
<1>7. Shifted(ms, new, k, d)
  BY <1>4, <1>5, <1>6 DEF Shifted
<1> QED
  BY <1>2, <1>3, <1>4, <1>7 DEF new

\* Where the compaction keeps a prompt from, no round is cut in two.
LEMMA NoneAcrossKept ==
    ASSUME NEW ms \in Seq(Messages), NEW h, Opening(ms, h), Whole(ms, 0)
    PROVE  NoneAcross(ms, KeptFrom(ms, h) - 1)
<1>1. Len(ms) \in Nat /\ h \in 1..Len(ms) /\ h \in 0..Len(ms)
  BY PromptIs DEF Opening
<1>2. CASE KeptFrom(ms, h) = h + 1
  <2>1. KeptFrom(ms, h) - 1 = h
    BY <1>1, <1>2
  <2> QED
    BY <2>1 DEF Opening, Plain, NoneAcross
<1>3. CASE KeptFrom(ms, h) \in RoundStarts(ms, h)
  <2> DEFINE r == KeptFrom(ms, h)
  <2>1. r \in 1..Len(ms) /\ IsRound(ms[r])
    BY <1>1, <1>3 DEF RoundStarts
  <2> HIDE DEF r
  <2>2. NoneAcross(ms, r - 1)
    BY <2>1, NoneAcrossStart
  <2> QED
    BY <2>2 DEF r
<1> QED
  BY <1>1, <1>2, <1>3, KeptFromIs

\* The compaction leaves a whole prompt whole.
LEMMA CompactWhole ==
    ASSUME NEW ms \in Seq(Messages), NEW h, Opening(ms, h), Shape(ms), Whole(ms, 0)
    PROVE  Whole(CompactTask(ms, h), 0)
<1> DEFINE new == CompactTask(ms, h)
<1>1. new \in Seq(Messages)
  BY CompactIs
<1>2. PICK k, d : Compacted(ms, h, new, k, d) /\ Shifted(ms, new, k, d) /\ h <= k
  BY CompactIs
<1>3. NoneAcross(ms, k + d)
  BY <1>2, NoneAcrossKept DEF Compacted
<1> HIDE DEF new
<1>4. Whole(new, 0)
  BY <1>1, <1>2, <1>3, ShiftedWhole
<1> QED
  BY <1>4 DEF new

\* The compaction leaves the opening, and results and observations where they belong.
LEMMA CompactShape ==
    ASSUME NEW ms \in Seq(Messages), NEW h, Opening(ms, h), Shape(ms)
    PROVE  Opening(CompactTask(ms, h), h) /\ Shape(CompactTask(ms, h))
<1> DEFINE new == CompactTask(ms, h)
<1>1. new \in Seq(Messages)
  BY CompactIs
<1>2. PICK k, d : Compacted(ms, h, new, k, d) /\ Shifted(ms, new, k, d) /\ h <= k
  BY CompactIs
<1> HIDE DEF new
<1>3. /\ Len(ms) \in Nat /\ DOMAIN ms = 1..Len(ms) /\ Len(new) \in Nat /\ DOMAIN new = 1..Len(new)
      /\ h \in 1..Len(ms) /\ k \in 0..Len(new) /\ d \in Int /\ Len(new) + d = Len(ms) /\ k + d \in Nat
  BY <1>1, <1>2, PromptIs DEF Opening, Shifted
<1>4. h \in 1..Len(new)
  BY <1>2, <1>3
<1>5. \A i \in 1..h : new[i] = ms[i]
  BY <1>2 DEF Compacted
<1>6. Opening(new, h)
  BY <1>3, <1>4, <1>5 DEF Opening
<1>7. ASSUME NEW i \in 1..Len(new)
      PROVE  /\ new[i].what = "stub" => new[i].role = "tool"
             /\ new[i].what \in {"page", "same"} => new[i].role = "user" /\ new[i].calls = 0
  <2>1. CASE i <= h
    BY <1>3, <1>5, <2>1 DEF Shape
  <2>2. CASE i > h /\ i <= k
    <3>1. LatestPage(ms, h) # 0 /\ i = k /\ new[k] = ms[LatestPage(ms, h)]
      <4>1. k = h + 1 /\ LatestPage(ms, h) # 0 /\ new[k] = ms[LatestPage(ms, h)]
        BY <1>2, <1>3, <2>2 DEF Compacted
      <4>2. i \in Int /\ h \in Int /\ k \in Int /\ k = h + 1
        BY <1>3, <4>1
      <4>3. i = k
        BY <2>2, <4>2
      <4> QED
        BY <4>1, <4>3
    <3>2. LatestPage(ms, h) \in 1..Len(ms)
      BY <1>3, <3>1, LatestIs
    <3> QED
      BY <1>3, <3>1, <3>2 DEF Shape
  <2>3. CASE i > k
    <3> DEFINE e == i + d
    <3>1. i \in k + 1..Len(new) /\ e \in 1..Len(ms)
      BY <1>3, <2>3
    <3>2. new[i] = Superseded(ms, h, Current(ms, h), e)
      BY <1>2, <3>1 DEF Compacted
    <3> HIDE DEF e
    <3>3. /\ ms[e].what = "stub" => ms[e].role = "tool"
          /\ ms[e].what \in {"page", "same"} => ms[e].role = "user" /\ ms[e].calls = 0
      BY <1>3, <3>1 DEF Shape
    <3> QED
      BY <3>1, <3>2, <3>3, SupersededIs
  <2> QED
    BY <1>3, <2>1, <2>2, <2>3
<1>8. Shape(new)
  BY <1>3, <1>7 DEF Shape
<1> QED
  BY <1>6, <1>8 DEF new

\* A stub survives the compaction only with its observation, and no two have the
\* same: so no round has more stubs than observations.
LEMMA CompactPairs ==
    ASSUME NEW ms \in Seq(Messages), NEW h, Opening(ms, h), Shape(ms)
    PROVE  Pairs(CompactTask(ms, h), h)
<1> DEFINE new == CompactTask(ms, h)
<1>1. new \in Seq(Messages)
  BY CompactIs
<1>2. PICK k, d : Compacted(ms, h, new, k, d) /\ Shifted(ms, new, k, d) /\ h <= k
  BY CompactIs
<1> HIDE DEF new
<1>3. /\ Len(ms) \in Nat /\ Len(new) \in Nat /\ h \in 1..Len(ms) /\ h \in Nat
      /\ k \in 0..Len(new) /\ d \in Int /\ Len(new) + d = Len(ms) /\ k + d \in Nat
  BY <1>1, <1>2, PromptIs DEF Opening, Shifted
<1>4. h \in 0..k /\ h \in 0..k + d
  <2>1. KeptFrom(ms, h) = h + 1 \/ KeptFrom(ms, h) \in h + 1..Len(ms)
    BY <1>3, KeptFromIs DEF RoundStarts
  <2>2. k + d >= h
    BY <1>2, <1>3, <2>1 DEF Compacted
  <2> QED
    BY <1>2, <1>3, <2>2
<1>5. ASSUME NEW r \in RoundStarts(new, h)
      PROVE  Cardinality(Stubs(new, h, r)) <= Cardinality(Observations(new, h, r))
  <2> DEFINE A == Stubs(new, h, r)
             B == Observations(new, h, r)
             q == r + d
             mate(s, o) == IsPaired(ms, h, s + d, o + d) /\ o + d \in Current(ms, h)
  <2>1. /\ r \in k + 1..Len(new) /\ q \in RoundStarts(ms, h) /\ q \in 1..Len(ms)
        /\ \A i \in r..Len(new) : i + d \in q..Len(ms) /\ (RoundOf(new, h, i) = r <=> RoundOf(ms, h, i + d) = q)
    BY <1>1, <1>2, <1>4, ShiftedRounds
  <2>2. A \subseteq 1..Len(new) /\ B \subseteq 1..Len(new)
    BY <1>3, <2>1 DEF Stubs, Observations
  <2>3. ASSUME NEW i \in r..Len(new)
        PROVE  i + d \in 1..Len(ms) /\ new[i] = Superseded(ms, h, Current(ms, h), i + d)
    <3>1. i \in k + 1..Len(new)
      BY <1>3, <2>1
    <3> QED
      BY <1>2, <1>3, <3>1 DEF Compacted
  <2>4. ASSUME NEW s \in A
        PROVE  /\ s + d \in Stubs(ms, h, q) /\ RoundOf(ms, h, s + d) = q
               /\ \E o \in B : mate(s, o)
    <3>1. s \in r..Len(new) /\ new[s].what = "stub" /\ RoundOf(new, h, s) = r
      BY DEF Stubs
    <3> DEFINE e == s + d
    <3>2. e \in q..Len(ms) /\ e \in 1..Len(ms) /\ RoundOf(ms, h, e) = q
      BY <2>1, <2>3, <3>1
    <3>3. new[s] = Superseded(ms, h, Current(ms, h), e)
      BY <2>3, <3>1
    <3> HIDE DEF e, q
    <3>4. ms[e].what = "stub" /\ \E x \in Current(ms, h) : IsPaired(ms, h, e, x)
      BY <3>1, <3>2, <3>3, SupersededIs
    <3>5. PICK x \in Current(ms, h) : IsPaired(ms, h, e, x)
      BY <3>4
    <3>6. x \in Observations(ms, h, q)
      BY <3>2, <3>5 DEF IsPaired
    <3>7. x \in q..Len(ms) /\ IsObservation(ms[x]) /\ RoundOf(ms, h, x) = q
      BY <3>6 DEF Observations
    <3> DEFINE o == x - d
    <3>8. o \in r..Len(new) /\ o + d = x /\ x \in 1..Len(ms)
      BY <1>3, <2>1, <3>7 DEF q
    <3>9. new[o] = Superseded(ms, h, Current(ms, h), x)
      BY <2>3, <3>8
    <3> HIDE DEF o
    <3>10. new[o] = ms[x]
      BY <3>7, <3>8, <3>9, SupersededIs DEF IsObservation
    <3>11. RoundOf(new, h, o) = r
      BY <2>1, <3>7, <3>8
    <3>12. o \in B
      BY <3>7, <3>8, <3>10, <3>11 DEF Observations
    <3>13. mate(s, o)
      BY <3>5, <3>8 DEF e
    <3>14. e \in Stubs(ms, h, q)
      BY <3>2, <3>4 DEF Stubs
    <3> HIDE DEF mate, B
    <3> QED
      BY <3>2, <3>12, <3>13, <3>14 DEF e
  <2> DEFINE f == [s \in A |-> CHOOSE o \in B : mate(s, o)]
  <2>5. ASSUME NEW s \in A PROVE f[s] \in B /\ mate(s, f[s])
    <3>1. \E o \in B : mate(s, o)
      BY <2>4
    <3> HIDE DEF mate, A, B
    <3> QED
      BY <3>1
  <2>6. ASSUME NEW s \in A, NEW t \in A, f[s] = f[t] PROVE s = t
    <3> DEFINE o == f[s] + d
               S == Stubs(ms, h, q)
    <3>1. IsPaired(ms, h, s + d, o) /\ IsPaired(ms, h, t + d, o)
      <4> HIDE DEF f, A, B
      <4> QED
        BY <2>5, <2>6
    <3>2. s + d \in S /\ t + d \in S /\ RoundOf(ms, h, s + d) = q /\ RoundOf(ms, h, t + d) = q
      BY <2>4
    <3> HIDE DEF f, o, q
    <3>3. Rank(S, s + d) = Rank(S, t + d)
      BY <3>1, <3>2, Zenon DEF IsPaired
    <3>4. S \subseteq 1..Len(ms)
      BY <1>3, <2>1 DEF Stubs
    <3> HIDE DEF S
    <3>5. s + d = t + d
      BY <1>3, <3>2, <3>3, <3>4, RankIs
    <3>6. s \in Int /\ t \in Int
      BY <1>3, <2>2
    <3> QED
      BY <1>3, <3>5, <3>6
  <2>7. f \in Injection(A, B)
    <3>1. f \in [A -> B]
      <4>1. \A s \in A : f[s] \in B
        BY <2>5
      <4> HIDE DEF mate, A, B
      <4> QED
        BY <4>1
    <3> HIDE DEF f, A, B
    <3> QED
      BY <2>6, <3>1 DEF Injection, IsInjective
  <2>8. IsFiniteSet(B)
    <3> HIDE DEF A, B
    <3> QED
      BY <1>3, <2>2, RankIs
  <2> HIDE DEF f, A, B
  <2>9. Cardinality(A) <= Cardinality(B)
    BY <2>7, <2>8, FS_Injection
  <2> QED
    BY <2>9 DEF A, B
<1>6. Pairs(new, h)
  BY <1>5 DEF Pairs
<1> QED
  BY <1>6 DEF new

-----------------------------------------------------------------------------
(* The page the model is told of.                                          *)

\* The newest page of s is q, and what is said to be unchanged since then is it.
Newest(s, q) == \E p \in DOMAIN s :
    /\ s[p].what = "page" /\ s[p].page = q
    /\ \A i \in DOMAIN s : i > p => s[i].what # "page" /\ (s[i].what = "same" => s[i].page = q)

\* s shows no page, and what it calls unchanged is q.
NoNewer(s, q) == \A i \in DOMAIN s : s[i].what # "page" /\ (s[i].what = "same" => s[i].page = q)

\* s calls nothing unchanged.
Silent(s) == \A i \in DOMAIN s : s[i].what # "same"

\* What s calls unchanged is in s (HasItsPage).
Backed(s) == \A i \in DOMAIN s : s[i].what = "same" =>
    \E p \in 1..i - 1 : s[p].what = "page" /\ s[p].page = s[i].page

\* The compaction keeps the newest page, before all that speaks of it.
LEMMA CompactShows ==
    ASSUME NEW ms \in Seq(Messages), NEW h, Opening(ms, h), Shape(ms), NEW q, Newest(ms, q)
    PROVE  Newest(CompactTask(ms, h), q) /\ Backed(CompactTask(ms, h))
<1> DEFINE new == CompactTask(ms, h)
           from == KeptFrom(ms, h)
<1>1. new \in Seq(Messages)
  BY CompactIs
<1>2. PICK k, d : Compacted(ms, h, new, k, d) /\ Shifted(ms, new, k, d) /\ h <= k
  BY CompactIs
<1> HIDE DEF new
<1>3. /\ Len(ms) \in Nat /\ DOMAIN ms = 1..Len(ms) /\ Len(new) \in Nat /\ DOMAIN new = 1..Len(new)
      /\ h \in 1..Len(ms) /\ h \in Nat
      /\ k \in 0..Len(new) /\ d \in Int /\ Len(new) + d = Len(ms) /\ k + d \in Nat
  BY <1>1, <1>2, PromptIs DEF Opening, Shifted
<1>4. PICK p \in 1..Len(ms) :
         /\ ms[p].what = "page" /\ ms[p].page = q
         /\ \A i \in 1..Len(ms) : i > p => ms[i].what # "page" /\ (ms[i].what = "same" => ms[i].page = q)
  BY <1>3 DEF Newest
<1>5. p > h
  BY <1>3, <1>4 DEF Opening
<1>6. LatestPage(ms, h) = p
  <2> DEFINE L == LatestPage(ms, h)
  <2>1. p \in h + 1..Len(ms)
    BY <1>3, <1>5
  <2>2. L # 0 /\ p <= L /\ L \in 1..Len(ms) /\ ms[L].what = "page"
    <3>1. L \in 0..Len(ms) /\ (L # 0 => ms[L].what = "page")
      BY <1>3, LatestIs
    <3>2. \A i \in h + 1..Len(ms) : ms[i].what = "page" => i <= L /\ L # 0
      BY <1>3, LatestIs
    <3> HIDE DEF L
    <3> QED
      BY <1>3, <1>4, <2>1, <3>1, <3>2
  <2> HIDE DEF L
  <2>3. ~(L > p)
    BY <1>4, <2>2
  <2> QED
    BY <1>3, <2>2, <2>3 DEF L
<1>7. /\ p \in Current(ms, h)
      /\ \A j \in Current(ms, h) : j \in 1..Len(ms) /\ (j = p \/ (j > p /\ ms[j].what = "same"))
  <2>1. p # 0
    BY <1>3
  <2>2. LatestSame(ms, h) # 0 =>
           LatestSame(ms, h) \in 1..Len(ms) /\ ms[LatestSame(ms, h)].what = "same" /\ LatestSame(ms, h) > p
    <3> DEFINE S == LatestSame(ms, h)
    <3>1. S \in 0..Len(ms) /\ (S # 0 => ms[S].what = "same" /\ S > p)
      BY <1>3, <1>6, LatestIs
    <3> HIDE DEF S
    <3>2. S # 0 => S \in 1..Len(ms)
      BY <1>3, <3>1
    <3> QED
      BY <3>1, <3>2 DEF S
  <2> QED
    BY <1>6, <2>1, <2>2 DEF Current
<1>8. ASSUME NEW i \in k + 1..Len(new)
      PROVE  /\ i + d \in 1..Len(ms)
             /\ new[i].what \in {"page", "same"} => new[i] = ms[i + d] /\ i + d \in Current(ms, h)
             /\ i + d = p => new[i] = ms[p]
  <2> DEFINE e == i + d
  <2>1. e \in 1..Len(ms)
    BY <1>3
  <2>2. new[i] = Superseded(ms, h, Current(ms, h), e)
    BY <1>2 DEF Compacted
  <2> HIDE DEF e
  <2>3. /\ new[i].what \in {"page", "same"} => new[i] = ms[e] /\ e \in Current(ms, h)
        /\ e = p => new[i] = ms[p]
    BY <1>4, <1>7, <2>1, <2>2, SupersededIs
  <2> QED
    BY <2>1, <2>3 DEF e
<1>9. \E z \in 1..Len(new) :
         /\ new[z] = ms[p] /\ z >= k
         /\ \A i \in k + 1..Len(new) : i + d > p => i > z
         /\ \A i \in 1..Len(new) : i > z => i \in k + 1..Len(new) /\ i + d > p
  <2>1. from - 1 = k + d /\ from \in Int
    <3>1. from \in Int
      BY <1>3, KeptFromIs DEF RoundStarts
    <3> QED
      BY <1>2, <1>3, <3>1 DEF Compacted
  <2>2. CASE p < from
    <3>1. k = h + 1 /\ new[k] = ms[p]
      BY <1>2, <1>3, <1>6, <2>2 DEF Compacted
    <3> HIDE DEF from
    <3>2. k \in 1..Len(new) /\ \A i \in 1..Len(new) : i > k => i \in k + 1..Len(new) /\ i + d > p
      BY <1>3, <2>1, <2>2, <3>1
    <3> QED
      BY <1>3, <3>1, <3>2
  <2>3. CASE p >= from
    <3> DEFINE z == p - d
    <3> HIDE DEF from
    <3>1. z \in k + 1..Len(new) /\ z + d = p /\ z \in 1..Len(new) /\ z >= k
      BY <1>3, <1>4, <2>1, <2>3
    <3>2. /\ \A i \in k + 1..Len(new) : i + d > p => i > z
          /\ \A i \in 1..Len(new) : i > z => i \in k + 1..Len(new) /\ i + d > p
      BY <1>3, <1>4, <3>1
    <3> HIDE DEF z
    <3>3. new[z] = ms[p]
      BY <1>8, <3>1
    <3> QED
      BY <3>1, <3>2, <3>3
  <2> QED
    BY <1>3, <2>1, <2>2, <2>3
<1>10. PICK z \in 1..Len(new) :
         /\ new[z] = ms[p] /\ z >= k
         /\ \A i \in k + 1..Len(new) : i + d > p => i > z
         /\ \A i \in 1..Len(new) : i > z => i \in k + 1..Len(new) /\ i + d > p
  BY <1>9
<1>11. ASSUME NEW i \in 1..Len(new), i > z
       PROVE  new[i].what # "page" /\ (new[i].what = "same" => new[i].page = q)
  <2> DEFINE e == i + d
  <2>1. i \in k + 1..Len(new) /\ e > p /\ e \in 1..Len(ms)
    BY <1>8, <1>10, <1>11
  <2>2. new[i].what \in {"page", "same"} => new[i] = ms[e]
    BY <1>8, <2>1
  <2> HIDE DEF e
  <2> QED
    BY <1>4, <2>1, <2>2
<1>12. Newest(new, q)
  BY <1>3, <1>4, <1>10, <1>11 DEF Newest
<1>13. ASSUME NEW i \in 1..Len(new), new[i].what = "same"
       PROVE  \E j \in 1..i - 1 : new[j].what = "page" /\ new[j].page = new[i].page
  <2>1. i > k
    <3>1. CASE i <= h
      <4>1. new[i] = ms[i]
        BY <1>2, <1>3, <3>1 DEF Compacted
      <4> QED
        BY <1>3, <1>13, <3>1, <4>1 DEF Opening
    <3>2. CASE i > h /\ i <= k
      <4>1. i = k /\ new[k] = ms[p]
        BY <1>2, <1>3, <1>6, <3>2 DEF Compacted
      <4> QED
        BY <1>4, <1>13, <4>1
    <3> QED
      BY <1>3, <3>1, <3>2
  <2> DEFINE e == i + d
  <2>2. i \in k + 1..Len(new) /\ new[i] = ms[e] /\ e \in Current(ms, h)
    <3>1. i \in k + 1..Len(new)
      BY <1>3, <2>1
    <3>2. new[i].what \in {"page", "same"}
      BY <1>13
    <3> QED
      BY <1>8, <3>1, <3>2
  <2>3. e > p
    <3> HIDE DEF e
    <3> QED
      BY <1>4, <1>7, <1>13, <2>2
  <2>4. i > z
    BY <1>10, <2>2, <2>3
  <2>5. new[i].page = q /\ new[z].what = "page" /\ new[z].page = q
    BY <1>4, <1>10, <1>11, <1>13, <2>4
  <2>6. z \in 1..i - 1
    BY <1>3, <2>4
  <2> QED
    BY <2>5, <2>6
<1>14. Backed(new)
  BY <1>3, <1>13 DEF Backed
<1> QED
  BY <1>12, <1>14 DEF new

\* The compaction says nothing new.
LEMMA CompactSilent ==
    ASSUME NEW ms \in Seq(Messages), NEW h, Opening(ms, h), Shape(ms), Silent(ms)
    PROVE  Silent(CompactTask(ms, h))
<1> DEFINE new == CompactTask(ms, h)
<1>1. new \in Seq(Messages)
  BY CompactIs
<1>2. PICK k, d : Compacted(ms, h, new, k, d) /\ Shifted(ms, new, k, d) /\ h <= k
  BY CompactIs
<1> HIDE DEF new
<1>3. /\ Len(ms) \in Nat /\ DOMAIN ms = 1..Len(ms) /\ Len(new) \in Nat /\ DOMAIN new = 1..Len(new)
      /\ h \in 1..Len(ms) /\ h \in Nat
      /\ k \in 0..Len(new) /\ d \in Int /\ Len(new) + d = Len(ms) /\ k + d \in Nat
  BY <1>1, <1>2, PromptIs DEF Opening, Shifted
<1>4. ASSUME NEW i \in 1..Len(new) PROVE new[i].what # "same"
  <2>1. CASE i <= h
    <3>1. new[i] = ms[i]
      BY <1>2, <1>3, <2>1 DEF Compacted
    <3> QED
      BY <1>3, <2>1, <3>1 DEF Opening
  <2>2. CASE i > h /\ i <= k
    <3>1. k = h + 1 /\ LatestPage(ms, h) # 0 /\ new[k] = ms[LatestPage(ms, h)]
      BY <1>2, <1>3, <2>2 DEF Compacted
    <3>2. i = k
      BY <1>3, <2>2, <3>1
    <3>3. ms[LatestPage(ms, h)].what = "page"
      BY <1>3, <3>1, LatestIs
    <3> QED
      BY <3>1, <3>2, <3>3
  <2>3. CASE i > k
    <3> DEFINE e == i + d
    <3>1. i \in k + 1..Len(new) /\ e \in 1..Len(ms)
      BY <1>3, <2>3
    <3>2. new[i] = Superseded(ms, h, Current(ms, h), e)
      BY <1>2, <3>1 DEF Compacted
    <3> HIDE DEF e
    <3>3. ms[e].what # "same"
      BY <1>3, <3>1 DEF Silent
    <3> QED
      BY <3>1, <3>2, <3>3, SupersededIs
  <2> QED
    BY <1>3, <2>1, <2>2, <2>3
<1>5. Silent(new)
  BY <1>3, <1>4 DEF Silent
<1> QED
  BY <1>5 DEF new

-----------------------------------------------------------------------------
(* The cuts that leave every message its place.                            *)

\* Message for message the same but for sizes, and pages that lost their image.
Fainter(old, new) ==
    /\ Len(new) = Len(old)
    /\ \A i \in 1..Len(old) :
         /\ SameKind(new[i], old[i]) /\ new[i].page = old[i].page
         /\ new[i].what = old[i].what \/ (old[i].what = "page" /\ new[i].what = "bare")

\* The same but for sizes.
Alike(old, new) ==
    /\ Len(new) = Len(old)
    /\ \A i \in 1..Len(old) :
         SameKind(new[i], old[i]) /\ new[i].page = old[i].page /\ new[i].what = old[i].what

\* What such a cut leaves as it was.
LEMMA FainterKeeps ==
    ASSUME NEW old \in Seq(Messages), NEW new \in Seq(Messages), Fainter(old, new), NEW h,
           Opening(old, h), Shape(old), Whole(old, 0)
    PROVE  Opening(new, h) /\ Shape(new) /\ Whole(new, 0)
<1>1. /\ Len(old) \in Nat /\ DOMAIN old = 1..Len(old) /\ DOMAIN new = 1..Len(old)
      /\ h \in 1..Len(old) /\ Len(new) = Len(old)
  BY PromptIs DEF Opening, Fainter
<1>2. ASSUME NEW i \in 1..Len(old)
      PROVE  /\ new[i].role = old[i].role /\ new[i].calls = old[i].calls
             /\ new[i].what = old[i].what \/ (old[i].what = "page" /\ new[i].what = "bare")
             /\ IsRound(new[i]) <=> IsRound(old[i])
             /\ Plain(new[i]) <=> Plain(old[i])
  BY DEF Fainter, SameKind, IsRound, Plain
<1>3. Opening(new, h)
  BY <1>1, <1>2 DEF Opening
<1>4. Shape(new)
  BY <1>1, <1>2 DEF Shape
<1>5. Shifted(old, new, 0, 0)
  BY <1>1 DEF Shifted, Fainter
<1>6. NoneAcross(old, 0 + 0)
  BY DEF NoneAcross
<1>7. Whole(new, 0)
  BY <1>5, <1>6, ShiftedWhole
<1> QED
  BY <1>3, <1>4, <1>7

LEMMA AlikeKeeps ==
    ASSUME NEW old \in Seq(Messages), NEW new \in Seq(Messages), Alike(old, new), NEW h, Opening(old, h)
    PROVE  /\ Fainter(old, new)
           /\ Pairs(old, h) => Pairs(new, h)
           /\ Silent(old) => Silent(new)
           /\ Backed(old) => Backed(new)
           /\ \A q : Newest(old, q) => Newest(new, q)
<1>1. /\ Len(old) \in Nat /\ DOMAIN old = 1..Len(old) /\ DOMAIN new = 1..Len(old)
      /\ h \in 1..Len(old) /\ Len(new) = Len(old)
  BY PromptIs DEF Opening, Alike
<1>2. Fainter(old, new)
  BY DEF Fainter, Alike
<1>3. ASSUME Pairs(old, h) PROVE Pairs(new, h)
  <2>1. \A i \in 1..h : Plain(new[i])
    BY <1>1 DEF Opening, Alike, SameKind, Plain, IsRound
  <2>2. Shifted(old, new, h, 0)
    <3>1. \A i \in h + 1..Len(new) : i + 0 = i /\ i \in 1..Len(old)
      BY <1>1
    <3>2. \A i \in h + 1..Len(new) : SameKind(new[i], old[i + 0])
      BY <1>1, <3>1 DEF Alike
    <3> QED
      BY <1>1, <2>1, <3>2 DEF Shifted
  <2>3. h \in 0..h /\ h \in 0..h + 0 /\ \A i \in h + 1..Len(new) : new[i].what = old[i + 0].what
    <3>1. \A i \in h + 1..Len(new) : i + 0 = i /\ i \in 1..Len(old)
      BY <1>1
    <3> QED
      BY <1>1, <3>1 DEF Alike
  <2> QED
    BY <1>3, <2>2, <2>3, ShiftedPairs
<1>4. Silent(old) => Silent(new)
  BY <1>1 DEF Silent, Alike
<1>5. ASSUME Backed(old) PROVE Backed(new)
  <2>1. ASSUME NEW i \in 1..Len(old), new[i].what = "same"
        PROVE  \E p \in 1..i - 1 : new[p].what = "page" /\ new[p].page = new[i].page
    <3>1. old[i].what = "same" /\ old[i].page = new[i].page
      BY <2>1 DEF Alike
    <3>2. PICK p \in 1..i - 1 : old[p].what = "page" /\ old[p].page = old[i].page
      BY <1>1, <1>5, <3>1 DEF Backed
    <3>3. p \in 1..Len(old)
      BY <1>1
    <3> QED
      BY <3>1, <3>2, <3>3 DEF Alike
  <2> QED
    BY <1>1, <2>1 DEF Backed
<1>6. \A q : Newest(old, q) => Newest(new, q)
  BY <1>1 DEF Newest, Alike
<1> QED
  BY <1>2, <1>3, <1>4, <1>5, <1>6

\* Cutting the older results short changes sizes only.
LEMMA OlderAlike ==
    ASSUME NEW ms \in Seq(Messages), NEW h
    PROVE  OlderToolText(ms, h) \in Seq(Messages) /\ Alike(ms, OlderToolText(ms, h))
<1> DEFINE starts == RoundStarts(ms, h)
           older(i) == /\ Cardinality(starts) > 1 /\ i \in Min(starts)..Max(starts) - 1
                       /\ ms[i].role = "tool" /\ ms[i].what = "text"
           cut(i) == IF older(i) THEN [ms[i] EXCEPT !.size = Lesser(@, OldText)] ELSE ms[i]
           new == [i \in DOMAIN ms |-> cut(i)]
<1>1. Len(ms) \in Nat /\ DOMAIN ms = 1..Len(ms) /\ \A i \in 1..Len(ms) : ms[i] \in Messages
  BY PromptIs
<1>2. ASSUME NEW i \in 1..Len(ms)
      PROVE  /\ cut(i) \in Messages /\ SameKind(cut(i), ms[i])
             /\ cut(i).page = ms[i].page /\ cut(i).what = ms[i].what
  <2>1. ms[i] \in Messages /\ ms[i].size \in Nat
    BY <1>1, MessageIs
  <2>2. Lesser(ms[i].size, OldText) \in Nat
    BY <2>1, PromptAssumption DEF Lesser
  <2>3. CASE older(i)
    <3> DEFINE m == [ms[i] EXCEPT !.size = Lesser(ms[i].size, OldText)]
    <3>1. cut(i) = m
      BY <2>3
    <3>2. m \in Messages /\ m.role = ms[i].role /\ m.calls = ms[i].calls /\ m.page = ms[i].page /\ m.what = ms[i].what
      BY <2>1, <2>2 DEF Messages
    <3> HIDE DEF cut, m
    <3> QED
      BY <3>1, <3>2 DEF SameKind
  <2>4. CASE ~older(i)
    <3>1. cut(i) = ms[i]
      BY <2>4
    <3> HIDE DEF cut
    <3> QED
      BY <2>1, <3>1 DEF SameKind
  <2> QED
    BY <2>3, <2>4
<1> HIDE DEF cut
<1>3. new \in Seq(Messages) /\ Len(new) = Len(ms) /\ \A i \in 1..Len(ms) : new[i] = cut(i)
  <2>1. new \in [1..Len(ms) -> Messages] /\ \A i \in 1..Len(ms) : new[i] = cut(i)
    BY <1>1, <1>2
  <2> HIDE DEF new
  <2>2. new \in Seq(Messages)
    BY <1>1, <2>1, SeqDef
  <2> QED
    BY <1>1, <2>1, <2>2, LenProperties
<1> HIDE DEF new
<1>4. SubSeq(new, 1, Len(new)) = new
  BY <1>3, SubSeqFull
<1>5. OlderToolText(ms, h) = SubSeq(new, 1, Len(ms))
  BY DEF OlderToolText, new, cut
<1> QED
  BY <1>2, <1>3, <1>4, <1>5 DEF Alike

\* Halving the newest page leaves its message; taking the image out leaves it bare.
LEMMA ShrunkIs ==
    ASSUME NEW ms \in Seq(Messages), LatestPage(ms, 0) # 0, NEW dropImage \in BOOLEAN
    PROVE  /\ ShrinkLatest(ms, dropImage) \in Seq(Messages)
           /\ Fainter(ms, ShrinkLatest(ms, dropImage))
           /\ ~dropImage => Alike(ms, ShrinkLatest(ms, dropImage))
<1> DEFINE p == LatestPage(ms, 0)
           half == [ms[p] EXCEPT !.size = Greater(1, ms[p].size \div 2)]
           m == IF dropImage THEN Unpictured(half) ELSE half
           new == [ms EXCEPT ![p] = m]
<1>1. p \in 1..Len(ms) /\ ms[p].what = "page" /\ ms[p] \in Messages
  <2>1. p \in 0 + 1..Len(ms) /\ ms[p].what = "page"
    BY LatestIs
  <2>2. p \in 1..Len(ms)
    <3> HIDE DEF p
    <3> QED
      BY <2>1
  <2> HIDE DEF p
  <2> QED
    BY <2>1, <2>2, ElementOfSeq
<1> HIDE DEF p
<1>2. /\ half \in Messages /\ half.role = ms[p].role /\ half.calls = ms[p].calls
      /\ half.page = ms[p].page /\ half.what = "page"
  <2>1. Greater(1, ms[p].size \div 2) \in Nat
    <3>1. ms[p].size \in Nat
      BY <1>1, MessageIs
    <3> QED
      BY <3>1 DEF Greater
  <2> QED
    BY <1>1, <2>1 DEF Messages
<1> HIDE DEF half
<1>3. /\ m \in Messages /\ m.role = ms[p].role /\ m.calls = ms[p].calls /\ m.page = ms[p].page
      /\ m.what \in {"page", "bare"} /\ (~dropImage => m.what = "page")
  <2>1. CASE ~dropImage
    BY <1>2, <2>1
  <2>2. CASE dropImage
    <3>1. CASE half.image
      <4> DEFINE b == [half EXCEPT !.image = FALSE, !.what = "bare"]
      <4>1. m = b
        BY <2>2, <3>1 DEF Unpictured
      <4>2. b \in Messages /\ b.role = half.role /\ b.calls = half.calls /\ b.page = half.page /\ b.what = "bare"
        BY <1>2 DEF Messages, Contents
      <4> HIDE DEF b, m
      <4> QED
        BY <1>2, <2>2, <4>1, <4>2
    <3>2. CASE ~half.image
      <4>1. m = half
        BY <2>2, <3>2 DEF Unpictured
      <4> HIDE DEF m
      <4> QED
        BY <1>2, <2>2, <4>1
    <3> QED
      BY <3>1, <3>2
  <2> QED
    BY <2>1, <2>2
<1> HIDE DEF m
<1>4. /\ new \in Seq(Messages) /\ Len(new) = Len(ms)
      /\ \A j \in 1..Len(ms) : new[j] = IF j = p THEN m ELSE ms[j]
  BY <1>1, <1>3, ExceptSeq
<1> HIDE DEF new
<1>5. Fainter(ms, new) /\ (~dropImage => Alike(ms, new))
  BY <1>1, <1>3, <1>4 DEF Fainter, Alike, SameKind
<1>6. ShrinkLatest(ms, dropImage) = new
  BY DEF ShrinkLatest, new, m, half, p
<1> QED
  BY <1>4, <1>5, <1>6

-----------------------------------------------------------------------------
(* The cuts that take messages away.                                       *)

LEMMA LesserIs ==
    ASSUME NEW a \in Int, NEW b \in Int, a <= b
    PROVE  Lesser(a, b) = a
BY DEF Lesser

\* A sequence followed by another.
LEMMA ConcatIs ==
    ASSUME NEW s \in Seq(Messages), NEW t \in Seq(Messages)
    PROVE  /\ s \o t \in Seq(Messages) /\ Len(s \o t) = Len(s) + Len(t)
           /\ \A i \in 1..Len(s) : (s \o t)[i] = s[i]
           /\ \A i \in Len(s) + 1..Len(s) + Len(t) : i - Len(s) \in 1..Len(t) /\ (s \o t)[i] = t[i - Len(s)]
<1>1. Len(s) \in Nat /\ Len(t) \in Nat
  BY PromptIs
<1>2. /\ s \o t \in Seq(Messages) /\ Len(s \o t) = Len(s) + Len(t)
      /\ \A i \in 1..Len(s) + Len(t) : (s \o t)[i] = IF i <= Len(s) THEN s[i] ELSE t[i - Len(s)]
  BY ConcatProperties
<1>3. \A i \in 1..Len(s) : i \in 1..Len(s) + Len(t) /\ i <= Len(s)
  BY <1>1
<1>4. \A i \in Len(s) + 1..Len(s) + Len(t) :
         i \in 1..Len(s) + Len(t) /\ ~(i <= Len(s)) /\ i - Len(s) \in 1..Len(t)
  BY <1>1
<1> QED
  BY <1>2, <1>3, <1>4

\* The end of a sequence from a place on.
LEMMA EndIs ==
    ASSUME NEW s \in Seq(Messages), NEW a \in 1..Len(s) + 1
    PROVE  /\ SubSeq(s, a, Len(s)) \in Seq(Messages) /\ Len(SubSeq(s, a, Len(s))) = Len(s) - a + 1
           /\ \A i \in 1..Len(s) - a + 1 : SubSeq(s, a, Len(s))[i] = s[a + i - 1]
<1>1. Len(s) \in Nat
  BY PromptIs
<1>2. \A i \in a..Len(s) : s[i] \in Messages
  BY <1>1, ElementOfSeq
<1> QED
  BY <1>1, <1>2, SubSeqProperties

\* Before the first round of the task nothing is called and nothing results.
LEMMA PlainBefore ==
    ASSUME NEW ms \in Seq(Messages), NEW h, Opening(ms, h), Whole(ms, 0), NEW i \in 1..Len(ms),
           \A r \in RoundStarts(ms, h) : i < r
    PROVE  Plain(ms[i])
<1>1. Len(ms) \in Nat /\ h \in 1..Len(ms)
  BY PromptIs DEF Opening
<1>2. ~IsRound(ms[i])
  <2>1. CASE i <= h
    BY <1>1, <2>1 DEF Opening, Plain
  <2>2. CASE i > h
    <3>1. i \in h + 1..Len(ms) /\ ~(i < i)
      BY <1>1, <2>2
    <3> QED
      BY <3>1 DEF RoundStarts
  <2> QED
    BY <1>1, <2>1, <2>2
<1>3. ms[i].role # "tool"
  <2> SUFFICES ASSUME ms[i].role = "tool" PROVE FALSE
    OBVIOUS
  <2>1. PICK r \in RoundStarts(ms, h) : r < i
    BY ResultsRound
  <2>2. r \in Int /\ i < r
    BY <1>1 DEF RoundStarts
  <2> QED
    BY <1>1, <2>1, <2>2
<1> QED
  BY <1>2, <1>3 DEF Plain

\* The cut of the oldest round takes what is between its start a and the next one b.
LEMMA DropCut ==
    ASSUME NEW ms \in Seq(Messages), NEW h \in 1..Len(ms), Droppable(ms, h)
    PROVE  LET new == DropOldestRound(ms, h)
           IN  /\ new \in Seq(Messages)
               /\ \E a, b \in RoundStarts(ms, h) :
                    /\ a < b /\ \A s \in RoundStarts(ms, h) : a <= s
                    /\ Len(new) = (a - 1) + (Len(ms) - b + 1)
                    /\ \A i \in 1..a - 1 : new[i] = ms[i]
                    /\ \A i \in a..Len(new) : i + (b - a) \in 1..Len(ms) /\ new[i] = ms[i + (b - a)]
<1> DEFINE n == Len(ms)
           S == RoundStarts(ms, h)
           a == Min(S)
           b == Min(S \ {a})
           front == SubSeq(ms, 1, a - 1)
           back == SubSeq(ms, b, n)
           new == DropOldestRound(ms, h)
           k == a - 1
           d == b - a
<1>1. /\ n \in Nat /\ DOMAIN ms = 1..n /\ h \in 1..n /\ \A i \in 1..n : ms[i] \in Messages
      /\ S \subseteq h + 1..n /\ \A s \in S : IsRound(ms[s])
  BY PromptIs DEF RoundStarts
<1>2. Cardinality(S) > 1 /\ new = front \o back
  BY DEF Droppable, DropOldestRound
<1> HIDE DEF S
<1>3. S \subseteq 1..n /\ S \subseteq Nat /\ IsFiniteSet(S) /\ Cardinality(S) \in Nat
  <2>1. S \subseteq 1..n /\ S \subseteq Nat
    BY <1>1
  <2> QED
    BY <1>1, <2>1, RankIs
<1>4. a \in S /\ \A s \in S : a <= s
  <2>1. S # {}
    <3>1. Cardinality(S) # 0
      BY <1>2, <1>3
    <3> QED
      BY <3>1, FS_EmptySet
  <2> QED
    BY <1>3, <2>1, MinExists
<1> HIDE DEF a
<1>5. b \in S /\ b > a
  <2> DEFINE T == S \ {a}
  <2>1. T \subseteq Nat /\ IsFiniteSet(T) /\ Cardinality(T) = Cardinality(S) - 1
    BY <1>3, <1>4, FS_RemoveElement
  <2>2. Cardinality(T) # 0
    <3> HIDE DEF T
    <3> QED
      BY <1>2, <1>3, <2>1
  <2>3. T # {}
    <3> HIDE DEF T
    <3> QED
      BY <2>1, <2>2, FS_EmptySet
  <2>4. b \in T
    <3> HIDE DEF T
    <3>1. Min(T) \in T
      BY <2>1, <2>3, MinExists
    <3> QED
      BY <3>1 DEF T
  <2>5. b \in S /\ b # a /\ a <= b /\ a \in Nat /\ b \in Nat
    <3> HIDE DEF b
    <3> QED
      BY <1>3, <1>4, <2>4
  <2> HIDE DEF b, T
  <2> QED
    BY <2>5
<1> HIDE DEF b, front, back, new
<1>6. a \in h + 1..n /\ b \in h + 1..n /\ a \in Nat /\ b \in Nat /\ k \in h..n /\ k \in Nat /\ d \in Nat /\ d > 0
  BY <1>1, <1>4, <1>5
<1>7. front \in Seq(Messages) /\ Len(front) = k /\ \A i \in 1..k : front[i] = ms[i]
  <2>1. k \in 0..n
    BY <1>1, <1>6
  <2> QED
    BY <2>1, <1>1 DEF front
<1>8. /\ back \in Seq(Messages) /\ Len(back) = n - b + 1
      /\ \A i \in 1..n - b + 1 : back[i] = ms[b + i - 1]
  <2>1. b \in 1..n + 1
    BY <1>1, <1>6
  <2> QED
    BY <2>1, EndIs DEF back
<1> HIDE DEF k, d
<1>9. /\ new \in Seq(Messages) /\ Len(new) = k + (n - b + 1)
      /\ \A i \in 1..k : new[i] = front[i]
      /\ \A i \in k + 1..k + (n - b + 1) : i - k \in 1..n - b + 1 /\ new[i] = back[i - k]
  <2>1. /\ front \o back \in Seq(Messages) /\ Len(front \o back) = Len(front) + Len(back)
        /\ \A i \in 1..Len(front) : (front \o back)[i] = front[i]
        /\ \A i \in Len(front) + 1..Len(front) + Len(back) :
              i - Len(front) \in 1..Len(back) /\ (front \o back)[i] = back[i - Len(front)]
    BY <1>7, <1>8, ConcatIs
  <2> QED
    BY <1>2, <1>7, <1>8, <2>1
<1>10. \A i \in 1..a - 1 : new[i] = ms[i]
  BY <1>7, <1>9 DEF k
<1>11. ASSUME NEW i \in a..Len(new) PROVE i + (b - a) \in 1..n /\ new[i] = ms[i + (b - a)]
  <2>1. i \in k + 1..k + (n - b + 1)
    BY <1>1, <1>6, <1>9 DEF k
  <2>2. i - k \in 1..n - b + 1 /\ new[i] = back[i - k]
    BY <1>9, <2>1
  <2>3. b + (i - k) - 1 = i + (b - a) /\ i + (b - a) \in 1..n
    BY <1>1, <1>6, <2>1 DEF k
  <2>4. back[i - k] = ms[b + (i - k) - 1]
    BY <1>8, <2>2
  <2> QED
    BY <2>2, <2>3, <2>4
<1>12. a < b
  BY <1>5, <1>6
<1>13. /\ a \in S /\ b \in S /\ a < b /\ \A s \in S : a <= s
       /\ Len(new) = (a - 1) + (n - b + 1)
  BY <1>4, <1>5, <1>9, <1>12 DEF k
<1> QED
  BY <1>9, <1>10, <1>11, <1>13 DEF new, S

\* Without its oldest round a prompt is what it should be.
LEMMA DropKeeps ==
    ASSUME NEW ms \in Seq(Messages), NEW h, Opening(ms, h), Shape(ms), Whole(ms, 0), Pairs(ms, h),
           Droppable(ms, h)
    PROVE  LET new == DropOldestRound(ms, h)
           IN  new \in Seq(Messages) /\ Opening(new, h) /\ Shape(new) /\ Whole(new, 0) /\ Pairs(new, h)
<1> DEFINE n == Len(ms)
           S == RoundStarts(ms, h)
           new == DropOldestRound(ms, h)
<1>1. /\ n \in Nat /\ DOMAIN ms = 1..n /\ h \in 1..n /\ \A i \in 1..n : ms[i] \in Messages
      /\ S \subseteq h + 1..n /\ \A s \in S : IsRound(ms[s])
  BY PromptIs DEF Opening, RoundStarts
<1>2. new \in Seq(Messages)
  BY <1>1, DropCut
<1>3. PICK a \in S, b \in S :
         /\ a < b /\ \A s \in S : a <= s
         /\ Len(new) = (a - 1) + (n - b + 1)
         /\ \A i \in 1..a - 1 : new[i] = ms[i]
         /\ \A i \in a..Len(new) : i + (b - a) \in 1..n /\ new[i] = ms[i + (b - a)]
  BY <1>1, DropCut
<1> DEFINE k == a - 1
           d == b - a
<1> HIDE DEF S, new
<1>6. a \in h + 1..n /\ b \in h + 1..n /\ a \in Nat /\ b \in Nat /\ k \in h..n /\ k \in Nat /\ d \in Nat /\ d > 0
  BY <1>1, <1>3
<1> HIDE DEF k, d
<1>10. k \in 0..Len(new) /\ d \in Int /\ Len(new) + d = n /\ k + d = b - 1 /\ k + d \in Nat /\ h <= k
  BY <1>1, <1>3, <1>6 DEF k, d
<1>11. \A i \in 1..k : new[i] = ms[i] /\ i \in 1..n
  BY <1>1, <1>3, <1>6 DEF k
<1>12. ASSUME NEW i \in k + 1..Len(new) PROVE new[i] = ms[i + d] /\ i + d \in 1..n
  <2>1. i \in a..Len(new)
    BY <1>6 DEF k
  <2> QED
    BY <1>3, <2>1 DEF d
<1>13. Shifted(ms, new, k, d)
  <2>1. ASSUME NEW i \in 1..k PROVE Plain(new[i])
    <3>1. i \in 1..n /\ \A r \in S : i < r
      BY <1>1, <1>3, <1>6 DEF k
    <3>2. Plain(ms[i])
      BY <3>1, PlainBefore DEF S
    <3> QED
      BY <1>11, <3>2
  <2>2. \A i \in k + 1..Len(new) : SameKind(new[i], ms[i + d])
    BY <1>12 DEF SameKind
  <2> QED
    BY <1>10, <2>1, <2>2 DEF Shifted
<1>14. NoneAcross(ms, k + d)
  <2>1. NoneAcross(ms, b - 1)
    <3>1. b \in 1..n /\ IsRound(ms[b])
      BY <1>1, <1>6
    <3> QED
      BY <1>1, <3>1, NoneAcrossStart
  <2> QED
    BY <1>10, <2>1
<1>15. Whole(new, 0)
  BY <1>2, <1>13, <1>14, ShiftedWhole
<1>16. Pairs(new, h)
  <2>1. h \in 0..k /\ h \in 0..k + d
    BY <1>1, <1>6, <1>10
  <2> QED
    BY <1>2, <1>12, <1>13, <2>1, ShiftedPairs
<1>17. Opening(new, h)
  <2>1. h \in 1..Len(new) /\ \A i \in 1..h : new[i] = ms[i]
    BY <1>1, <1>6, <1>10, <1>11
  <2> QED
    BY <1>1, <2>1 DEF Opening
<1>18. Shape(new)
  <2>1. Len(new) \in Nat /\ DOMAIN new = 1..Len(new)
    BY <1>2, PromptIs
  <2>2. ASSUME NEW i \in 1..Len(new) PROVE \E j \in 1..n : new[i] = ms[j]
    <3>1. i \in 1..k \/ i \in k + 1..Len(new)
      BY <1>10, <2>1
    <3> QED
      BY <1>11, <1>12, <3>1
  <2> QED
    BY <1>1, <2>1, <2>2 DEF Shape
<1> QED
  BY <1>2, <1>15, <1>16, <1>17, <1>18 DEF new

\* What CompactHard starts from: the system prompt, a question of the user, the
\* page if it is still spoken of, and the newest round.
LEMMA HardKeptIs ==
    ASSUME NEW ms \in Seq(Messages), NEW h, Opening(ms, h), HasQuestion(ms, h), Shape(ms), Whole(ms, 0)
    PROVE  LET kept == HardKept(ms, h)
           IN  /\ kept \in Seq(Messages) /\ Opening(kept, 2) /\ HasQuestion(kept, 2)
               /\ Shape(kept) /\ Whole(kept, 0)
<1> DEFINE n == Len(ms)
           q == MaxOr0({i \in 2..Lesser(h, Len(ms)) : ms[i].role = "user"})
           S == RoundStarts(ms, h)
           r == MaxOr0(S)
           P == {i \in h + 1..r - 1 : ms[i].what = "page"}
           p == MaxOr0(P)
           speaks == r # 0 /\ \E i \in r..Len(ms) : ms[i].what = "same"
           first == <<ms[1]>>
           question == <<ms[q]>>
           page == IF speaks /\ p # 0 THEN <<ms[p]>> ELSE <<>>
           b == IF r = 0 THEN n + 1 ELSE r
           back == SubSeq(ms, b, n)
           new == HardKept(ms, h)
           mid == first \o question
           front == mid \o page
           k == 2 + Len(page)
           d == b - 1 - k
<1>1. /\ n \in Nat /\ DOMAIN ms = 1..n /\ h \in 2..n /\ h \in Nat /\ \A i \in 1..n : ms[i] \in Messages
      /\ S \subseteq 1..n
  <2>1. PICK u \in 2..h : ms[u].role = "user"
    BY DEF HasQuestion
  <2> QED
    BY <2>1, PromptIs DEF Opening, RoundStarts
<1>2. q \in 2..h /\ q # 0 /\ ms[q].role = "user"
  <2> DEFINE Q == {i \in 2..h : ms[i].role = "user"}
  <2>1. Lesser(h, Len(ms)) = h
    BY <1>1, LesserIs
  <2>2. q = MaxOr0(Q)
    BY <2>1
  <2>3. Q \subseteq 1..n /\ Q # {}
    BY <1>1 DEF HasQuestion
  <2> HIDE DEF Q
  <2>4. MaxOr0(Q) \in Q
    BY <1>1, <2>3, MaxOr0Is
  <2> HIDE DEF q
  <2>5. q \in Q
    BY <2>2, <2>4
  <2> QED
    BY <1>1, <2>5 DEF Q
<1>3. r \in 0..n /\ (r # 0 => r \in S)
  <2> HIDE DEF S
  <2> QED
    BY <1>1, MaxOr0Is
<1>4. r # 0 => r \in h + 1..n /\ IsRound(ms[r])
  BY <1>3 DEF RoundStarts
<1>5. p \in 0..n /\ (p # 0 => ms[p].what = "page")
  <2>1. P \subseteq 1..n
    <3> HIDE DEF r
    <3> QED
      BY <1>1, <1>3
  <2> HIDE DEF P
  <2>2. p \in 0..n /\ (p # 0 => p \in P)
    BY <1>1, <2>1, MaxOr0Is
  <2> HIDE DEF p
  <2> QED
    BY <2>2 DEF P
<1>6. page \in Seq(Messages) /\ Len(page) \in 0..1 /\ (Len(page) = 1 => page[1] = ms[p] /\ p # 0)
  <2>1. CASE speaks /\ p # 0
    <3>1. page = <<ms[p]>>
      BY <2>1
    <3>2. ms[p] \in Messages
      <4> HIDE DEF p
      <4> QED
        BY <1>1, <1>5, <2>1
    <3> HIDE DEF page, p
    <3> QED
      BY <2>1, <3>1, <3>2
  <2>2. CASE ~(speaks /\ p # 0)
    <3>1. page = <<>>
      BY <2>2
    <3> HIDE DEF page, p
    <3> QED
      BY <3>1, EmptySeq
  <2> QED
    BY <2>1, <2>2
<1>7. new = front \o back
  <2>1. new = mid \o page \o (IF r = 0 THEN <<>> ELSE SubSeq(ms, r, n))
    BY <1>2 DEF HardKept
  <2>2. r = 0 => back = <<>>
    <3> SUFFICES ASSUME r = 0 PROVE SubSeq(ms, n + 1, n) = <<>>
      OBVIOUS
    <3> QED
      BY <1>1, SubSeqEmpty
  <2>3. back = IF r = 0 THEN <<>> ELSE SubSeq(ms, r, n)
    BY <2>2
  <2> HIDE DEF r, back
  <2> QED
    BY <2>1, <2>3
<1>8. b \in 3..n + 1 /\ NoneAcross(ms, b - 1)
  <2>1. CASE r = 0
    <3>1. b = n + 1 /\ b - 1 = n
      BY <1>1, <2>1
    <3>2. NoneAcross(ms, n)
      BY <1>1 DEF NoneAcross, Whole
    <3> HIDE DEF b, r
    <3> QED
      BY <1>1, <3>1, <3>2
  <2>2. CASE r # 0
    <3>1. b = r
      BY <2>2
    <3> HIDE DEF b, r
    <3>2. r \in 1..n
      BY <1>1, <1>4, <2>2
    <3>3. NoneAcross(ms, r - 1)
      BY <1>4, <2>2, <3>2, NoneAcrossStart
    <3> QED
      BY <1>1, <1>4, <2>2, <3>1, <3>3
  <2> QED
    BY <2>1, <2>2
<1> HIDE DEF r, q, p, b, page, new, back, front, mid, first, question
<1>9. back \in Seq(Messages) /\ Len(back) = n - b + 1 /\ \A i \in 1..n - b + 1 : back[i] = ms[b + i - 1]
  <2>1. b \in 1..n + 1
    BY <1>1, <1>8
  <2> QED
    BY <2>1, EndIs DEF back
<1>10. mid \in Seq(Messages) /\ Len(mid) = 2 /\ mid[1] = ms[1] /\ mid[2] = ms[q]
  <2>1. ms[1] \in Messages /\ ms[q] \in Messages
    BY <1>1, <1>2
  <2> QED
    BY <2>1 DEF mid, first, question
<1>11. /\ front \in Seq(Messages) /\ Len(front) = k /\ front[1] = ms[1] /\ front[2] = ms[q]
       /\ k \in 2..3 /\ (k = 3 => front[3] = ms[p] /\ p # 0)
  <2>1. /\ front \in Seq(Messages) /\ Len(front) = 2 + Len(page)
        /\ \A i \in 1..2 : front[i] = mid[i]
        /\ \A i \in 2 + 1..2 + Len(page) : front[i] = page[i - 2]
    <3>1. /\ mid \o page \in Seq(Messages) /\ Len(mid \o page) = Len(mid) + Len(page)
          /\ \A i \in 1..Len(mid) : (mid \o page)[i] = mid[i]
          /\ \A i \in Len(mid) + 1..Len(mid) + Len(page) :
                i - Len(mid) \in 1..Len(page) /\ (mid \o page)[i] = page[i - Len(mid)]
      BY <1>6, <1>10, ConcatIs
    <3> QED
      BY <1>10, <3>1 DEF front
  <2>2. k = 3 => Len(page) = 1 /\ front[3] = page[1]
    BY <1>6, <2>1
  <2> QED
    BY <1>6, <1>10, <2>1, <2>2
<1> HIDE DEF k, d
<1>12. /\ new \in Seq(Messages) /\ Len(new) = k + (n - b + 1)
       /\ \A i \in 1..k : new[i] = front[i]
       /\ \A i \in k + 1..k + (n - b + 1) : i - k \in 1..n - b + 1 /\ new[i] = back[i - k]
  <2>1. /\ front \o back \in Seq(Messages) /\ Len(front \o back) = Len(front) + Len(back)
        /\ \A i \in 1..Len(front) : (front \o back)[i] = front[i]
        /\ \A i \in Len(front) + 1..Len(front) + Len(back) :
              i - Len(front) \in 1..Len(back) /\ (front \o back)[i] = back[i - Len(front)]
    BY <1>9, <1>11, ConcatIs
  <2> QED
    BY <1>7, <1>9, <1>11, <2>1
<1>13. k \in 0..Len(new) /\ d \in Int /\ Len(new) + d = n /\ k + d = b - 1 /\ k + d \in Nat /\ 2 \in 2..Len(new)
  BY <1>1, <1>8, <1>11, <1>12 DEF d
<1>14. ASSUME NEW i \in k + 1..Len(new) PROVE new[i] = ms[i + d] /\ i + d \in 1..n
  <2>1. i \in k + 1..k + (n - b + 1)
    BY <1>12
  <2>2. i - k \in 1..n - b + 1 /\ new[i] = back[i - k]
    BY <1>12, <2>1
  <2>3. b + (i - k) - 1 = i + d /\ i + d \in 1..n
    BY <1>1, <1>8, <1>11, <1>12, <1>13, <2>1
  <2>4. back[i - k] = ms[b + (i - k) - 1]
    BY <1>9, <2>2
  <2> QED
    BY <2>2, <2>3, <2>4
<1>15. new[1] = ms[1] /\ new[2] = ms[q] /\ (k = 3 => new[3] = ms[p] /\ p \in 1..n /\ ms[p].what = "page")
  BY <1>1, <1>5, <1>11, <1>12
<1>16. /\ Plain(new[1]) /\ new[1].what = "text" /\ new[1].role = "system"
       /\ Plain(new[2]) /\ new[2].what = "text" /\ new[2].role = "user"
       /\ k = 3 => Plain(new[3]) /\ new[3].what = "page" /\ new[3].role = "user" /\ new[3].calls = 0
  <2>1. 1 \in 1..h /\ q \in 1..h
    BY <1>1, <1>2
  <2>2. k = 3 => new[3].what = "page" /\ new[3].role = "user" /\ new[3].calls = 0
    BY <1>1, <1>15 DEF Shape
  <2>3. k = 3 => Plain(new[3])
    BY <2>2 DEF Plain, IsRound
  <2> QED
    BY <1>2, <1>15, <2>1, <2>2, <2>3 DEF Opening
<1>17. \A i \in 1..k : i = 1 \/ i = 2 \/ (i = 3 /\ k = 3)
  BY <1>11
<1>18. Shifted(ms, new, k, d)
  <2>1. \A i \in 1..k : Plain(new[i])
    BY <1>16, <1>17
  <2>2. \A i \in k + 1..Len(new) : SameKind(new[i], ms[i + d])
    BY <1>14 DEF SameKind
  <2> QED
    BY <1>13, <2>1, <2>2 DEF Shifted
<1>19. Whole(new, 0)
  BY <1>8, <1>12, <1>13, <1>18, ShiftedWhole
<1>20. Opening(new, 2) /\ HasQuestion(new, 2)
  BY <1>13, <1>16 DEF Opening, HasQuestion
<1>21. Shape(new)
  <2>1. Len(new) \in Nat /\ DOMAIN new = 1..Len(new)
    BY <1>12, PromptIs
  <2>2. ASSUME NEW i \in 1..Len(new)
        PROVE  /\ new[i].what = "stub" => new[i].role = "tool"
               /\ new[i].what \in {"page", "same"} => new[i].role = "user" /\ new[i].calls = 0
    <3>1. i \in 1..k \/ i \in k + 1..Len(new)
      BY <1>13, <2>1
    <3>2. CASE i \in 1..k
      BY <1>16, <1>17, <3>2
    <3>3. CASE i \in k + 1..Len(new)
      BY <1>1, <1>14, <3>3 DEF Shape
    <3> QED
      BY <3>1, <3>2, <3>3
  <2> QED
    BY <2>1, <2>2 DEF Shape
<1> QED
  BY <1>12, <1>19, <1>20, <1>21 DEF new

\* A hard compaction leaves a prompt with a question what it should be.
LEMMA HardKeeps ==
    ASSUME NEW ms \in Seq(Messages), NEW h, Opening(ms, h), HasQuestion(ms, h), Shape(ms), Whole(ms, 0)
    PROVE  LET new == CompactHard(HardKept(ms, h))
           IN  /\ new \in Seq(Messages) /\ Lesser(2, Len(new)) = 2 /\ HasQuestion(new, 2)
               /\ Opening(new, 2) /\ Shape(new) /\ Whole(new, 0) /\ Pairs(new, 2)
<1> DEFINE kept == HardKept(ms, h)
           new == CompactTask(kept, 2)
<1>1. /\ kept \in Seq(Messages) /\ Opening(kept, 2) /\ HasQuestion(kept, 2)
      /\ Shape(kept) /\ Whole(kept, 0)
  BY HardKeptIs
<1> HIDE DEF kept
<1>2. CompactHard(kept) = new
  <2>1. Len(kept) \in Nat /\ 2 \in 1..Len(kept)
    BY <1>1, PromptIs DEF Opening
  <2>2. Lesser(2, Len(kept)) = 2
    BY <2>1, LesserIs
  <2> QED
    BY <2>2 DEF CompactHard
<1>3. new \in Seq(Messages) /\ Opening(new, 2) /\ Shape(new) /\ Whole(new, 0) /\ Pairs(new, 2)
  BY <1>1, CompactIs, CompactShape, CompactWhole, CompactPairs
<1>4. HasQuestion(new, 2)
  <2>1. \A i \in 1..2 : new[i] = kept[i]
    BY <1>1, CompactIs DEF Compacted
  <2> HIDE DEF new
  <2> QED
    BY <1>1, <2>1 DEF HasQuestion
<1> HIDE DEF new
<1>5. Lesser(2, Len(new)) = 2
  <2>1. Len(new) \in Nat /\ 2 \in 1..Len(new)
    BY <1>3, PromptIs DEF Opening
  <2> QED
    BY <2>1, LesserIs
<1> QED
  BY <1>2, <1>3, <1>4, <1>5 DEF kept

\* Whatever the first h messages are, it leaves the system prompt.
LEMMA HardCut ==
    ASSUME NEW ms \in Seq(Messages), NEW h \in 1..Len(ms)
    PROVE  LET new == CompactHard(HardKept(ms, h))
           IN  /\ new \in Seq(Messages) /\ new[1] = ms[1]
               /\ Lesser(2, Len(new)) \in 1..Len(new) /\ (Len(new) = 1 => Lesser(2, Len(new)) = 1)
<1> DEFINE n == Len(ms)
           q == MaxOr0({i \in 2..Lesser(h, Len(ms)) : ms[i].role = "user"})
           r == MaxOr0(RoundStarts(ms, h))
           p == MaxOr0({i \in h + 1..r - 1 : ms[i].what = "page"})
           speaks == r # 0 /\ \E i \in r..Len(ms) : ms[i].what = "same"
           question == IF q = 0 THEN <<>> ELSE <<ms[q]>>
           page == IF speaks /\ p # 0 THEN <<ms[p]>> ELSE <<>>
           back == IF r = 0 THEN <<>> ELSE SubSeq(ms, r, Len(ms))
           first == <<ms[1]>>
           kept == HardKept(ms, h)
<1>1. n \in Nat /\ h \in Nat /\ 1 \in 1..n /\ h <= n /\ \A i \in 1..n : ms[i] \in Messages
  BY PromptIs
<1>2. kept = first \o question \o page \o back
  BY DEF HardKept
<1>3. q \in 0..n
  <2>1. {i \in 2..Lesser(h, Len(ms)) : ms[i].role = "user"} \subseteq 1..n
    BY <1>1, LesserIs
  <2> QED
    BY <1>1, <2>1, MaxOr0Is
<1>4. r \in 0..n
  <2>1. RoundStarts(ms, h) \subseteq 1..n
    BY <1>1 DEF RoundStarts
  <2> QED
    BY <1>1, <2>1, MaxOr0Is
<1>5. p \in 0..n
  <2>1. {i \in h + 1..r - 1 : ms[i].what = "page"} \subseteq 1..n
    <3> HIDE DEF r
    <3> QED
      BY <1>1, <1>4
  <2> QED
    BY <1>1, <2>1, MaxOr0Is
<1> HIDE DEF q, r, p, speaks, kept
<1>6. first \in Seq(Messages) /\ Len(first) = 1 /\ first[1] = ms[1]
  BY <1>1
<1>7. question \in Seq(Messages)
  BY <1>1, <1>3, EmptySeq
<1>8. page \in Seq(Messages)
  BY <1>1, <1>5, EmptySeq
<1>9. back \in Seq(Messages)
  BY <1>1, <1>4, EmptySeq, EndIs
<1> HIDE DEF first, question, page, back
<1>10. /\ first \o question \in Seq(Messages) /\ Len(first \o question) >= 1
       /\ (first \o question)[1] = ms[1]
  <2>1. first \o question \in Seq(Messages) /\ Len(first \o question) = Len(first) + Len(question)
        /\ \A i \in 1..Len(first) : (first \o question)[i] = first[i]
    BY <1>6, <1>7, ConcatIs
  <2>2. Len(question) \in Nat
    BY <1>7, PromptIs
  <2> QED
    BY <1>6, <2>1, <2>2
<1> DEFINE two == first \o question
<1> HIDE DEF two
<1>11. two \o page \in Seq(Messages) /\ Len(two \o page) >= 1 /\ (two \o page)[1] = ms[1]
  BY <1>8, <1>10, ConcatIs, PromptIs DEF two
<1> DEFINE three == two \o page
<1> HIDE DEF three
<1>12. three \o back \in Seq(Messages) /\ Len(three \o back) >= 1 /\ (three \o back)[1] = ms[1]
  BY <1>9, <1>11, ConcatIs, PromptIs DEF three
<1>13. kept \in Seq(Messages) /\ Len(kept) >= 1 /\ kept[1] = ms[1]
  BY <1>2, <1>12 DEF two, three
<1> DEFINE g == Lesser(2, Len(kept))
           new == CompactTask(kept, g)
<1>14. g \in 1..Len(kept)
  BY <1>13, PromptIs DEF Lesser
<1>15. CompactHard(kept) = new
  BY DEF CompactHard
<1> HIDE DEF g
<1>16. new \in Seq(Messages)
  BY <1>13, <1>14, CompactCut
<1>17. PICK k, d : Compacted(kept, g, new, k, d) /\ Placed(kept, g, new, k, d)
  BY <1>13, <1>14, CompactCut
<1> HIDE DEF new
<1>18. new[1] = ms[1]
  <2>1. g \in Nat /\ 1 \in 1..g
    <3>1. Len(kept) \in Nat
      BY <1>13, PromptIs
    <3> QED
      BY <1>14, <3>1
  <2>2. \A i \in 1..g : new[i] = kept[i]
    BY <1>17 DEF Compacted
  <2> QED
    BY <1>13, <2>1, <2>2
<1>19. Len(new) \in Nat /\ Len(new) >= 1
  BY <1>13, <1>14, <1>16, <1>17, PromptIs DEF Placed
<1>20. Lesser(2, Len(new)) \in 1..Len(new) /\ (Len(new) = 1 => Lesser(2, Len(new)) = 1)
  <2> DEFINE z == Len(new)
  <2>1. z \in Nat /\ z >= 1
    BY <1>19
  <2> HIDE DEF z
  <2>2. Lesser(2, z) \in 1..z /\ (z = 1 => Lesser(2, z) = 1)
    BY <2>1 DEF Lesser
  <2> QED
    BY <2>2 DEF z
<1> QED
  BY <1>15, <1>16, <1>18, <1>20 DEF kept

\* Where it leaves nothing but that, the prompt is what it should be.
LEMMA HardMute ==
    ASSUME NEW ms \in Seq(Messages), NEW h, Opening(ms, h), NEW new \in Seq(Messages),
           Len(new) = 1, new[1] = ms[1]
    PROVE  Opening(new, 1) /\ Shape(new) /\ Whole(new, 0) /\ Pairs(new, 1)
<1>1. DOMAIN new = {1} /\ 1..Len(new) = {1}
  BY PromptIs
<1>2. Plain(new[1]) /\ new[1].what = "text" /\ new[1].role = "system"
  BY DEF Opening
<1>3. Opening(new, 1) /\ Shape(new)
  BY <1>1, <1>2 DEF Opening, Shape
<1>4. Whole(new, 0)
  BY <1>1, <1>2 DEF Whole, Plain
<1>5. RoundStarts(new, 1) = {}
  BY DEF RoundStarts
<1> QED
  BY <1>3, <1>4, <1>5 DEF Pairs

-----------------------------------------------------------------------------
(* The estimate of the tokens.                                             *)

\* A prompt's tokens are a number: the sum over its messages exists.
LEMMA TokensType ==
    ASSUME NEW ms \in Seq(Messages), NEW rate \in Nat
    PROVE  Tokens(ms, rate) \in Int
<1> DEFINE w(n) == rate * ms[n].size + (IF ms[n].image THEN ImageTokens ELSE 0)
           F(f) == [n \in 0..Len(ms) |->
                      IF n = 0 THEN 0
                      ELSE f[n - 1] + rate * ms[n].size + (IF ms[n].image THEN ImageTokens ELSE 0)]
           first == CHOOSE f : f = F(f)
           good(n, g) == g \in [0..n -> Int] /\ g[0] = 0 /\ \A m \in 1..n : g[m] = g[m - 1] + w(m)
<1>1. Len(ms) \in Nat /\ \A i \in 1..Len(ms) : ms[i] \in Messages
  BY PromptIs
<1>2. ASSUME NEW n \in 1..Len(ms)
      PROVE  /\ w(n) \in Int
             /\ \A x \in Int : x + rate * ms[n].size + (IF ms[n].image THEN ImageTokens ELSE 0) = x + w(n)
  <2>1. ms[n].size \in Nat /\ ImageTokens \in Nat
    BY <1>1, MessageIs, PromptAssumption
  <2>2. rate * ms[n].size \in Int
    BY <2>1
  <2>3. (IF ms[n].image THEN ImageTokens ELSE 0) \in Int
    BY <2>1
  <2> QED
    BY <2>2, <2>3
<1> HIDE DEF w
<1>3. \A n \in 0..Len(ms) : \E g : good(n, g)
  <2> DEFINE S == {n \in 0..Len(ms) : ~\E g : good(n, g)}
             m == Min(S)
  <2> SUFFICES ASSUME S # {} PROVE FALSE
    OBVIOUS
  <2>1. S \subseteq Nat
    BY <1>1
  <2>2. m \in S /\ \A n \in S : m <= n
    <3> HIDE DEF S
    <3> QED
      BY <2>1, MinExists
  <2> HIDE DEF m
  <2>3. m \in 0..Len(ms) /\ ~\E g : good(m, g)
    BY <2>2
  <2>4. CASE m = 0
    <3> DEFINE g == [i \in 0..0 |-> 0]
    <3>1. good(0, g)
      OBVIOUS
    <3> HIDE DEF good
    <3> QED
      BY <2>3, <2>4, <3>1
  <2>5. CASE m # 0
    <3>1. m \in 1..Len(ms) /\ m - 1 \in 0..Len(ms) /\ m - 1 \notin S
      <4>1. m \in 1..Len(ms) /\ m - 1 \in 0..Len(ms) /\ ~(m <= m - 1)
        BY <1>1, <2>3, <2>5
      <4> HIDE DEF S
      <4> QED
        BY <2>2, <4>1
    <3>2. \E g : good(m - 1, g)
      <4> HIDE DEF good
      <4> QED
        BY <3>1
    <3>3. PICK g : good(m - 1, g)
      BY <3>2
    <3> DEFINE e == [i \in 0..m |-> IF i = m THEN g[m - 1] + w(m) ELSE g[i]]
    <3>4. g[m - 1] \in Int /\ \A i \in 0..m - 1 : g[i] \in Int
      BY <3>1, <3>3
    <3>5. e \in [0..m -> Int]
      <4>1. \A i \in 0..m : i = m \/ i \in 0..m - 1
        BY <3>1
      <4> DEFINE x == g[m - 1] + w(m)
      <4>2. w(m) \in Int
        BY <1>2, <3>1
      <4>3. x \in Int
        BY <3>4, <4>2
      <4> HIDE DEF x
      <4>4. \A i \in 0..m : (IF i = m THEN x ELSE g[i]) \in Int
        BY <3>4, <4>1, <4>3
      <4> QED
        BY <4>4 DEF x
    <3>6. e[0] = 0
      BY <3>1, <3>3
    <3>7. ASSUME NEW i \in 1..m PROVE e[i] = e[i - 1] + w(i)
      <4>1. i \in 0..m /\ i - 1 \in 0..m /\ i - 1 # m /\ e[i - 1] = g[i - 1]
        BY <3>1
      <4>2. CASE i = m
        <5>1. e[i] = g[m - 1] + w(m)
          BY <4>1, <4>2
        <5> HIDE DEF e
        <5> QED
          BY <4>1, <4>2, <5>1
      <4>3. CASE i # m
        <5>1. e[i] = g[i] /\ i \in 1..m - 1
          BY <3>1, <4>1, <4>3
        <5>2. g[i] = g[i - 1] + w(i)
          BY <3>3, <5>1
        <5> HIDE DEF e
        <5> QED
          BY <4>1, <5>1, <5>2
      <4> QED
        BY <4>2, <4>3
    <3> HIDE DEF e
    <3>8. good(m, e)
      BY <3>5, <3>6, <3>7
    <3> HIDE DEF good
    <3> QED
      BY <2>3, <3>8
  <2> QED
    BY <2>4, <2>5
<1>4. PICK g : good(Len(ms), g)
  <2>1. Len(ms) \in 0..Len(ms)
    BY <1>1
  <2> HIDE DEF good
  <2> QED
    BY <1>3, <2>1
<1>5. g = F(g)
  <2>1. \A n \in 0..Len(ms) :
           g[n] = IF n = 0 THEN 0
                  ELSE g[n - 1] + rate * ms[n].size + (IF ms[n].image THEN ImageTokens ELSE 0)
    <3> TAKE n \in 0..Len(ms)
    <3>1. CASE n = 0
      BY <1>4, <3>1
    <3>2. CASE n # 0
      <4>1. n \in 1..Len(ms) /\ n - 1 \in 0..Len(ms)
        BY <1>1, <3>2
      <4>2. g[n - 1] \in Int /\ g[n] = g[n - 1] + w(n)
        BY <1>4, <4>1
      <4> QED
        BY <1>2, <3>2, <4>1, <4>2
    <3> QED
      BY <3>1, <3>2
  <2>2. g = [n \in 0..Len(ms) |-> g[n]]
    BY <1>4
  <2> QED
    BY <2>1, <2>2
<1>6. first = F(first)
  <2> HIDE DEF F
  <2> QED
    BY <1>5
<1>7. \A n \in 0..Len(ms) : first[n] \in Int
  <2> DEFINE S == {n \in 0..Len(ms) : first[n] \notin Int}
             m == Min(S)
  <2> SUFFICES ASSUME S # {} PROVE FALSE
    OBVIOUS
  <2>1. S \subseteq Nat
    BY <1>1
  <2>2. m \in S /\ \A n \in S : m <= n
    <3> HIDE DEF S
    <3> QED
      BY <2>1, MinExists
  <2> HIDE DEF m
  <2>3. m \in 0..Len(ms) /\ first[m] \notin Int
    BY <2>2
  <2>4. first[m] = IF m = 0 THEN 0
                   ELSE first[m - 1] + rate * ms[m].size + (IF ms[m].image THEN ImageTokens ELSE 0)
    <3> HIDE DEF first
    <3> QED
      BY <1>6, <2>3
  <2>5. CASE m = 0
    BY <2>3, <2>4, <2>5
  <2>6. CASE m # 0
    <3>1. m \in 1..Len(ms) /\ m - 1 \in 0..Len(ms) /\ ~(m <= m - 1)
      BY <1>1, <2>3, <2>6
    <3>2. m - 1 \notin S
      <4> HIDE DEF S
      <4> QED
        BY <2>2, <3>1
    <3>3. first[m - 1] \in Int
      <4> HIDE DEF first
      <4> QED
        BY <3>1, <3>2
    <3> HIDE DEF first
    <3>4. first[m] = first[m - 1] + w(m)
      BY <1>2, <2>4, <2>6, <3>1, <3>3
    <3>5. w(m) \in Int
      BY <1>2, <3>1
    <3> QED
      BY <2>3, <3>3, <3>4, <3>5
  <2> QED
    BY <2>5, <2>6
<1>8. Tokens(ms, rate) = first[Len(ms)]
  BY DEF Tokens
<1> HIDE DEF first
<1> QED
  BY <1>1, <1>7, <1>8

\* What fits the budget leaves room for the reserve and the completion asked for.
LEMMA FitsIs ==
    ASSUME NEW ms \in Seq(Messages), NEW rate \in Nat, Fits(ms, rate)
    PROVE  Tokens(ms, rate) + Margin + MaxTokens(Tokens(ms, rate)) <= ContextTokens
<1> DEFINE t == Tokens(ms, rate)
           room == Greater(ContextTokens - t - Margin, MinCompletion)
           most == Greater(1, ContextTokens \div 4)
<1>1. t \in Int /\ t <= ContextTokens - Margin - MinCompletion
  BY TokensType DEF Fits, Budget
<1>2. ContextTokens \in Nat /\ Margin \in Nat /\ MinCompletion \in Nat
  BY PromptAssumption
<1> HIDE DEF t
<1>3. room = ContextTokens - t - Margin
  BY <1>1, <1>2 DEF Greater
<1>4. most \in Int
  <2>1. ContextTokens \div 4 \in Int
    BY <1>2
  <2> QED
    BY <2>1 DEF Greater
<1> HIDE DEF room, most
<1>5. Lesser(room, most) \in Int /\ Lesser(room, most) <= room
  BY <1>1, <1>2, <1>3, <1>4 DEF Lesser
<1>6. MaxTokens(t) = Lesser(room, most)
  BY DEF MaxTokens, room, most
<1>7. t + Margin + MaxTokens(t) <= ContextTokens
  BY <1>1, <1>2, <1>3, <1>5, <1>6
<1> QED
  BY <1>7 DEF t

-----------------------------------------------------------------------------
(* How a prompt grows.                                                     *)

\* A message more.
LEMMA AppendIs ==
    ASSUME NEW ms \in Seq(Messages), NEW m \in Messages
    PROVE  LET new == Append(ms, m)
           IN  /\ new \in Seq(Messages) /\ Len(ms) \in Nat /\ Len(new) = Len(ms) + 1
               /\ DOMAIN ms = 1..Len(ms) /\ DOMAIN new = 1..Len(ms) + 1
               /\ \A i \in 1..Len(ms) : new[i] = ms[i]
               /\ new[Len(ms) + 1] = m
<1>1. Append(ms, m) \in Seq(Messages) /\ Len(Append(ms, m)) = Len(ms) + 1
  BY AppendProperties
<1>2. Len(ms) \in Nat /\ DOMAIN ms = 1..Len(ms) /\ DOMAIN Append(ms, m) = 1..Len(Append(ms, m))
  BY <1>1, PromptIs
<1> QED
  BY <1>1, <1>2, AppendProperties

LEMMA AppendShape ==
    ASSUME NEW ms \in Seq(Messages), NEW m \in Messages, NEW h, Opening(ms, h), Shape(ms),
           m.what = "stub" => m.role = "tool", m.what \notin {"page", "same"}
    PROVE  Opening(Append(ms, m), h) /\ Shape(Append(ms, m))
<1> DEFINE new == Append(ms, m)
           n == Len(ms)
<1>1. /\ new \in Seq(Messages) /\ n \in Nat /\ Len(new) = n + 1 /\ DOMAIN ms = 1..n /\ DOMAIN new = 1..n + 1
      /\ \A i \in 1..n : new[i] = ms[i]
      /\ new[n + 1] = m
  BY AppendIs
<1> HIDE DEF new, n
<1>2. h \in 1..n
  BY DEF Opening, n
<1>3. Opening(new, h)
  <2>1. h \in 1..Len(new) /\ \A i \in 1..h : new[i] = ms[i]
    BY <1>1, <1>2
  <2> QED
    BY <1>2, <2>1 DEF Opening
<1>4. Shape(new)
  <2>1. \A i \in 1..n + 1 : i \in 1..n \/ i = n + 1
    BY <1>1
  <2> QED
    BY <1>1, <2>1 DEF Shape
<1> QED
  BY <1>3, <1>4 DEF new

\* The model calls n tools.
LEMMA CalledWhole ==
    ASSUME NEW ms \in Seq(Messages), Whole(ms, 0), NEW n \in Nat
    PROVE  Whole(Append(ms, Round(n)), n)
<1> DEFINE new == Append(ms, Round(n))
           z == Len(ms)
<1>1. Round(n) \in Messages /\ Round(n).role = "assistant" /\ Round(n).calls = n
  BY PiecesAre DEF Round, Text
<1>2. /\ new \in Seq(Messages) /\ z \in Nat /\ Len(new) = z + 1 /\ DOMAIN ms = 1..z /\ DOMAIN new = 1..z + 1
      /\ \A i \in 1..z : new[i] = ms[i]
      /\ new[z + 1] = Round(n)
  BY <1>1, AppendIs
<1>3. \A i \in 1..z : ms[i].calls \in Nat
  BY PromptIs
<1> HIDE DEF new
<1>4. ASSUME NEW i \in 1..z + 1, IsRound(new[i])
      PROVE  /\ i + new[i].calls <= z + 1 + n
             /\ \A j \in i + 1..i + new[i].calls : j <= z + 1 => new[j].role = "tool"
  <2>1. CASE i = z + 1
    BY <1>1, <1>2, <2>1
  <2>2. CASE i # z + 1
    <3>1. i \in 1..z /\ new[i] = ms[i]
      BY <1>2, <2>2
    <3>2. /\ i + ms[i].calls <= z /\ ms[i].calls \in Nat
          /\ \A j \in i + 1..i + ms[i].calls : j <= z => ms[j].role = "tool"
      BY <1>2, <1>3, <1>4, <3>1 DEF Whole
    <3>3. \A j \in i + 1..i + ms[i].calls : j \in 1..z /\ j <= z
      BY <1>2, <3>1, <3>2
    <3> QED
      BY <1>2, <3>1, <3>2, <3>3
  <2> QED
    BY <2>1, <2>2
<1>5. ASSUME NEW i \in 1..z + 1, new[i].role = "tool"
      PROVE  \E r \in 1..i - 1 : IsRound(new[r]) /\ i <= r + new[r].calls
  <2>1. i \in 1..z /\ ms[i].role = "tool" /\ i \in DOMAIN ms
    BY <1>1, <1>2, <1>5
  <2>2. PICK r \in 1..i - 1 : IsRound(ms[r]) /\ i <= r + ms[r].calls
    BY <2>1, Zenon DEF Whole
  <2>3. r \in 1..z
    BY <1>2, <2>1
  <2> QED
    BY <1>2, <2>2, <2>3
<1>6. n > 0 => \E r \in DOMAIN new : IsRound(new[r]) /\ r + new[r].calls = Len(new) + n
  <2>1. z + 1 \in DOMAIN new /\ z + 1 + n = Len(new) + n
    BY <1>2
  <2> QED
    BY <1>1, <1>2, <2>1 DEF IsRound
<1> QED
  BY <1>2, <1>4, <1>5, <1>6 DEF Whole, new

\* The result of a call comes in.
LEMMA ResultWhole ==
    ASSUME NEW ms \in Seq(Messages), NEW n \in Nat, n # 0, Whole(ms, n),
           NEW m \in Messages, m.role = "tool"
    PROVE  Whole(Append(ms, m), n - 1)
<1> DEFINE new == Append(ms, m)
           z == Len(ms)
<1>1. /\ new \in Seq(Messages) /\ z \in Nat /\ Len(new) = z + 1 /\ DOMAIN ms = 1..z /\ DOMAIN new = 1..z + 1
      /\ \A i \in 1..z : new[i] = ms[i]
      /\ new[z + 1] = m
  BY AppendIs
<1>2. \A i \in 1..z : ms[i].calls \in Nat
  BY PromptIs
<1> HIDE DEF new
<1>3. ASSUME NEW i \in 1..z + 1, IsRound(new[i])
      PROVE  /\ i + new[i].calls <= z + 1 + (n - 1)
             /\ \A j \in i + 1..i + new[i].calls : j <= z + 1 => new[j].role = "tool"
  <2>1. i \in 1..z /\ new[i] = ms[i]
    <3>1. i # z + 1
      BY <1>1, <1>3 DEF IsRound
    <3> QED
      BY <1>1, <3>1
  <2>2. /\ i + ms[i].calls <= z + n /\ ms[i].calls \in Nat
        /\ \A j \in i + 1..i + ms[i].calls : j <= z => ms[j].role = "tool"
    BY <1>1, <1>2, <1>3, <2>1 DEF Whole
  <2>3. ASSUME NEW j \in i + 1..i + ms[i].calls, j <= z + 1 PROVE new[j].role = "tool"
    <3>1. CASE j = z + 1
      BY <1>1, <3>1
    <3>2. CASE j # z + 1
      <4>1. j \in 1..z /\ j <= z
        BY <1>1, <2>1, <2>2, <2>3, <3>2
      <4> QED
        BY <1>1, <2>2, <4>1
    <3> QED
      BY <3>1, <3>2
  <2> QED
    BY <1>1, <2>1, <2>2, <2>3
<1>4. PICK q \in 1..z : IsRound(ms[q]) /\ q + ms[q].calls = z + n
  BY <1>1 DEF Whole
<1>5. ASSUME NEW i \in 1..z + 1, new[i].role = "tool"
      PROVE  \E r \in 1..i - 1 : IsRound(new[r]) /\ i <= r + new[r].calls
  <2>1. CASE i = z + 1
    <3>1. q \in 1..i - 1 /\ i <= q + ms[q].calls /\ new[q] = ms[q]
      BY <1>1, <1>2, <1>4, <2>1
    <3> QED
      BY <1>4, <3>1
  <2>2. CASE i # z + 1
    <3>1. i \in 1..z /\ ms[i].role = "tool" /\ i \in DOMAIN ms
      BY <1>1, <1>5, <2>2
    <3>2. PICK r \in 1..i - 1 : IsRound(ms[r]) /\ i <= r + ms[r].calls
      BY <3>1, Zenon DEF Whole
    <3>3. r \in 1..z
      BY <1>1, <3>1
    <3> QED
      BY <1>1, <3>2, <3>3
  <2> QED
    BY <2>1, <2>2
<1>6. \E r \in DOMAIN new : IsRound(new[r]) /\ r + new[r].calls = Len(new) + (n - 1)
  <2>1. q \in DOMAIN new /\ new[q] = ms[q] /\ z + n = Len(new) + (n - 1)
    BY <1>1
  <2> QED
    BY <1>4, <2>1
<1> QED
  BY <1>1, <1>3, <1>5, <1>6 DEF Whole, new

\* The observations of a round go after its results.
LEMMA ObservedKeeps ==
    ASSUME NEW ms \in Seq(Messages), NEW obs \in Seq(Messages), NEW h, Opening(ms, h), Shape(ms),
           \A i \in DOMAIN obs : IsObservation(obs[i]) /\ obs[i].calls = 0
    PROVE  /\ ms \o obs \in Seq(Messages)
           /\ Opening(ms \o obs, h) /\ Shape(ms \o obs)
           /\ Whole(ms, 0) => Whole(ms \o obs, 0)
<1> DEFINE new == ms \o obs
           z == Len(ms)
<1>1. /\ z \in Nat /\ DOMAIN ms = 1..z /\ Len(obs) \in Nat /\ DOMAIN obs = 1..Len(obs)
      /\ \A i \in 1..z : ms[i].calls \in Nat
  BY PromptIs
<1>2. /\ new \in Seq(Messages) /\ Len(new) = z + Len(obs)
      /\ \A i \in 1..z : new[i] = ms[i]
      /\ \A i \in z + 1..z + Len(obs) : i - z \in 1..Len(obs) /\ new[i] = obs[i - z]
  BY ConcatIs
<1> HIDE DEF new
<1>3. DOMAIN new = 1..Len(new)
  BY <1>2, PromptIs
<1>4. ASSUME NEW i \in 1..Len(new)
      PROVE  (i \in 1..z /\ new[i] = ms[i])
             \/ (new[i].role = "user" /\ new[i].what \in {"page", "same"} /\ new[i].calls = 0)
  <2>1. CASE i \in 1..z
    BY <1>2, <2>1
  <2>2. CASE i \notin 1..z
    <3>1. i \in z + 1..z + Len(obs)
      BY <1>1, <1>2, <2>2
    <3>2. i - z \in DOMAIN obs /\ new[i] = obs[i - z]
      BY <1>1, <1>2, <3>1
    <3>3. IsObservation(new[i]) /\ new[i].calls = 0
      BY <3>2
    <3> QED
      BY <3>3 DEF IsObservation
  <2> QED
    BY <2>1, <2>2
<1>5. Opening(new, h)
  <2>1. h \in 1..Len(new) /\ \A i \in 1..h : new[i] = ms[i]
    BY <1>1, <1>2 DEF Opening
  <2> QED
    BY <1>1, <2>1 DEF Opening
<1>6. Shape(new)
  BY <1>1, <1>3, <1>4 DEF Shape
<1>7. ASSUME Whole(ms, 0) PROVE Whole(new, 0)
  <2>1. ASSUME NEW i \in 1..Len(new), IsRound(new[i])
        PROVE  /\ i + new[i].calls <= Len(new)
               /\ \A j \in i + 1..i + new[i].calls : j <= Len(new) => new[j].role = "tool"
    <3>1. i \in 1..z /\ new[i] = ms[i]
      BY <1>4, <2>1 DEF IsRound
    <3>2. /\ i + ms[i].calls <= z /\ ms[i].calls \in Nat
          /\ \A j \in i + 1..i + ms[i].calls : j <= z => ms[j].role = "tool"
      BY <1>1, <1>7, <2>1, <3>1 DEF Whole
    <3>3. \A j \in i + 1..i + ms[i].calls : j \in 1..z /\ j <= z
      BY <1>1, <3>1, <3>2
    <3> QED
      BY <1>1, <1>2, <3>1, <3>2, <3>3
  <2>2. ASSUME NEW i \in 1..Len(new), new[i].role = "tool"
        PROVE  \E r \in 1..i - 1 : IsRound(new[r]) /\ i <= r + new[r].calls
    <3>1. i \in 1..z /\ ms[i].role = "tool" /\ i \in DOMAIN ms
      BY <1>1, <1>4, <2>2
    <3>2. PICK r \in 1..i - 1 : IsRound(ms[r]) /\ i <= r + ms[r].calls
      BY <1>7, <3>1, Zenon DEF Whole
    <3>3. r \in 1..z
      BY <1>1, <3>1
    <3> QED
      BY <1>2, <3>2, <3>3
  <2> QED
    <3>1. Len(new) \in Nat /\ Len(new) + 0 = Len(new)
      BY <1>1, <1>2
    <3> QED
      BY <1>3, <2>1, <2>2, <3>1 DEF Whole
<1> QED
  BY <1>2, <1>5, <1>6, <1>7 DEF new

\* What has been shown: the newest page, in the prompt or among the observations
\* of the round, is the one lastShown speaks of.
Shown(ms, obs, last) ==
    \/ Newest(obs, last.page)
    \/ Newest(ms, last.page) /\ NoNewer(obs, last.page)
    \/ last = NothingShown /\ Silent(ms) /\ Silent(obs)

LEMMA ShownAppend ==
    ASSUME NEW ms \in Seq(Messages), NEW m \in Messages, m.what \notin {"page", "same"},
           NEW obs, NEW last, Shown(ms, obs, last)
    PROVE  Shown(Append(ms, m), obs, last)
<1> DEFINE new == Append(ms, m)
           n == Len(ms)
<1>1. /\ n \in Nat /\ DOMAIN ms = 1..n /\ DOMAIN new = 1..n + 1
      /\ \A i \in 1..n : new[i] = ms[i]
      /\ new[n + 1] = m
  BY AppendIs
<1> HIDE DEF new, n
<1>2. \A i \in 1..n + 1 : i \in 1..n \/ i = n + 1
  BY <1>1
<1>3. ASSUME NEW q, Newest(ms, q) PROVE Newest(new, q)
  <2>1. PICK p \in 1..n : /\ ms[p].what = "page" /\ ms[p].page = q
                          /\ \A i \in 1..n : i > p => ms[i].what # "page" /\ (ms[i].what = "same" => ms[i].page = q)
    BY <1>1, <1>3 DEF Newest
  <2>2. p \in 1..n + 1 /\ new[p] = ms[p]
    BY <1>1
  <2> QED
    BY <1>1, <1>2, <2>1, <2>2 DEF Newest
<1>4. Silent(ms) => Silent(new)
  BY <1>1, <1>2 DEF Silent
<1> QED
  BY <1>3, <1>4 DEF Shown, new

LEMMA ShownConcat ==
    ASSUME NEW ms \in Seq(Messages), NEW obs \in Seq(Messages), NEW last, Shown(ms, obs, last)
    PROVE  Shown(ms \o obs, <<>>, last)
<1> DEFINE new == ms \o obs
           z == Len(ms)
<1>1. /\ z \in Nat /\ DOMAIN ms = 1..z /\ Len(obs) \in Nat /\ DOMAIN obs = 1..Len(obs)
  BY PromptIs
<1>2. /\ new \in Seq(Messages) /\ Len(new) = z + Len(obs)
      /\ \A i \in 1..z : new[i] = ms[i]
      /\ \A i \in z + 1..z + Len(obs) : i - z \in 1..Len(obs) /\ new[i] = obs[i - z]
  BY ConcatIs
<1> HIDE DEF new
<1>3. DOMAIN new = 1..z + Len(obs)
  BY <1>2, PromptIs
<1> HIDE DEF z
<1>4. \A i \in 1..z + Len(obs) : i \in 1..z \/ i \in z + 1..z + Len(obs)
  BY <1>1
<1>5. ASSUME NEW q, Newest(obs, q) PROVE Newest(new, q)
  <2>1. PICK p \in 1..Len(obs) :
           /\ obs[p].what = "page" /\ obs[p].page = q
           /\ \A i \in 1..Len(obs) : i > p => obs[i].what # "page" /\ (obs[i].what = "same" => obs[i].page = q)
    BY <1>1, <1>5 DEF Newest
  <2>2. p + z \in z + 1..z + Len(obs) /\ p + z \in 1..z + Len(obs) /\ (p + z) - z = p
    BY <1>1
  <2>3. new[p + z] = obs[p]
    BY <1>2, <2>2
  <2>4. ASSUME NEW i \in 1..z + Len(obs), i > p + z
        PROVE  new[i].what # "page" /\ (new[i].what = "same" => new[i].page = q)
    <3>1. i \in z + 1..z + Len(obs) /\ i - z > p
      BY <1>1, <2>4
    <3>2. i - z \in 1..Len(obs) /\ new[i] = obs[i - z]
      BY <1>2, <3>1
    <3> QED
      BY <2>1, <3>1, <3>2
  <2> QED
    BY <1>3, <2>1, <2>2, <2>3, <2>4 DEF Newest
<1>6. ASSUME NEW q, Newest(ms, q), NoNewer(obs, q) PROVE Newest(new, q)
  <2>1. PICK p \in 1..z :
           /\ ms[p].what = "page" /\ ms[p].page = q
           /\ \A i \in 1..z : i > p => ms[i].what # "page" /\ (ms[i].what = "same" => ms[i].page = q)
    BY <1>1, <1>6 DEF Newest
  <2>2. p \in 1..z + Len(obs) /\ new[p] = ms[p]
    BY <1>1, <1>2
  <2>3. \A i \in 1..Len(obs) : obs[i].what # "page" /\ (obs[i].what = "same" => obs[i].page = q)
    BY <1>1, <1>6 DEF NoNewer
  <2>4. ASSUME NEW i \in 1..z + Len(obs), i > p
        PROVE  new[i].what # "page" /\ (new[i].what = "same" => new[i].page = q)
    <3>1. CASE i \in 1..z
      BY <1>2, <2>1, <2>4, <3>1
    <3>2. CASE i \in z + 1..z + Len(obs)
      <4>1. i - z \in 1..Len(obs) /\ new[i] = obs[i - z]
        BY <1>2, <3>2
      <4> QED
        BY <2>3, <4>1
    <3> QED
      BY <1>4, <3>1, <3>2
  <2> QED
    BY <1>3, <2>1, <2>2, <2>4 DEF Newest
<1>7. ASSUME Silent(ms), Silent(obs) PROVE Silent(new)
  <2>1. ASSUME NEW i \in 1..z + Len(obs) PROVE new[i].what # "same"
    <3>1. CASE i \in 1..z
      BY <1>1, <1>2, <1>7, <3>1 DEF Silent
    <3>2. CASE i \in z + 1..z + Len(obs)
      <4>1. i - z \in DOMAIN obs /\ new[i] = obs[i - z]
        BY <1>1, <1>2, <3>2
      <4> QED
        BY <1>7, <4>1 DEF Silent
    <3> QED
      BY <1>4, <3>1, <3>2
  <2> QED
    BY <1>3, <2>1 DEF Silent
<1>8. (\A q : NoNewer(<<>>, q)) /\ Silent(<<>>)
  BY DEF NoNewer, Silent
<1> QED
  BY <1>5, <1>6, <1>7, <1>8 DEF Shown, new

LEMMA ShownObserve ==
    ASSUME NEW ms \in Seq(Messages), NEW obs \in Seq(Messages), NEW last, Shown(ms, obs, last),
           NEW m \in Messages, NEW now, now.page = m.page,
           m.what = "page" \/ (m.what = "same" /\ last = now /\ last # NothingShown)
    PROVE  Shown(ms, Append(obs, m), now)
<1> DEFINE new == Append(obs, m)
           n == Len(obs)
<1>1. /\ n \in Nat /\ DOMAIN obs = 1..n /\ DOMAIN new = 1..n + 1
      /\ \A i \in 1..n : new[i] = obs[i]
      /\ new[n + 1] = m
  BY AppendIs
<1> HIDE DEF new, n
<1>2. \A i \in 1..n + 1 : i \in 1..n \/ i = n + 1
  BY <1>1
<1>3. CASE m.what = "page"
  <2>1. n + 1 \in 1..n + 1 /\ \A i \in 1..n + 1 : ~(i > n + 1)
    BY <1>1
  <2>2. Newest(new, m.page)
    BY <1>1, <1>3, <2>1 DEF Newest
  <2> QED
    BY <2>2 DEF Shown, new
<1>4. CASE m.what = "same" /\ last = now /\ last # NothingShown
  <2> DEFINE q == now.page
  <2>1. CASE Newest(obs, q)
    <3>1. PICK p \in 1..n :
             /\ obs[p].what = "page" /\ obs[p].page = q
             /\ \A i \in 1..n : i > p => obs[i].what # "page" /\ (obs[i].what = "same" => obs[i].page = q)
      BY <1>1, <2>1 DEF Newest
    <3>2. p \in 1..n + 1 /\ new[p] = obs[p]
      BY <1>1
    <3>3. ASSUME NEW i \in 1..n + 1, i > p
          PROVE  new[i].what # "page" /\ (new[i].what = "same" => new[i].page = q)
      BY <1>1, <1>2, <1>4, <3>1, <3>3
    <3>4. Newest(new, q)
      BY <1>1, <3>1, <3>2, <3>3 DEF Newest
    <3> QED
      BY <3>4 DEF Shown, new
  <2>2. CASE Newest(ms, q) /\ NoNewer(obs, q)
    <3>1. NoNewer(new, q)
      BY <1>1, <1>2, <1>4, <2>2 DEF NoNewer
    <3> QED
      BY <2>2, <3>1 DEF Shown, new
  <2> QED
    BY <1>4, <2>1, <2>2 DEF Shown
<1> QED
  BY <1>3, <1>4

-----------------------------------------------------------------------------
(* The scalars of a turn.                                                  *)

Prompted == (phase = "planning" /\ step < MaxSteps) \/ phase \in {"fitting", "asked", "overflow"}
InRound == phase \in {"acting", "waiting"} \cup Holding

Bools ==
    /\ enabled \in BOOLEAN /\ wake \in BOOLEAN /\ cancelled \in BOOLEAN
    /\ retried \in BOOLEAN /\ prose \in BOOLEAN /\ lostPage \in BOOLEAN
Scalars ==
    /\ phase \in {"idle", "planning", "fitting", "asked", "overflow", "acting", "waiting"} \cup Holding
    /\ step \in 0..MaxSteps /\ attempt \in 1..3 /\ presses \in Nat
    /\ Bools /\ stored \in Switch \cup {"unset"} /\ setting \in Switch \cup {NoSetting}
    /\ script \in Scripts /\ density \in Nat
    /\ calls \in Seq(DOMAIN Tools)
    /\ phase \in {"waiting"} \cup Holding => calls # <<>>

LEMMA ToolIs ==
    ASSUME NEW t \in DOMAIN Tools
    PROVE  /\ Tools[t].inputs \in Nat /\ Tools[t].shows \in BOOLEAN
           /\ Tools[t].image \in BOOLEAN /\ Tools[t].size \in Nat
<1>1. Tools[t] \in [inputs : Nat, shows : BOOLEAN, image : BOOLEAN, size : Nat]
  BY ToolsAssumption
<1> QED
  BY <1>1

LEMMA ScriptIs ==
    ASSUME Scalars
    PROVE  /\ script.replies \subseteq Seq(DOMAIN Tools) /\ script.pages \subseteq Pages
           /\ script.densities \subseteq Nat /\ script.stored \subseteq Switch \cup {"unset"}
BY ScriptsAssumption DEF Scalars, Switch

LEMMA CallsAre ==
    ASSUME Scalars, calls # <<>>
    PROVE  /\ Head(calls) \in DOMAIN Tools /\ Tail(calls) \in Seq(DOMAIN Tools)
           /\ Len(calls) \in Nat /\ Len(calls) # 0 /\ Len(Tail(calls)) = Len(calls) - 1
<1>1. calls \in Seq(DOMAIN Tools)
  BY DEF Scalars
<1>2. Len(calls) \in Nat /\ Len(calls) # 0
  BY <1>1, LenProperties, EmptySeq
<1> QED
  BY <1>1, <1>2, HeadTailProperties

LEMMA ScalarsInit == Init => Scalars
<1> SUFFICES ASSUME Init PROVE Scalars
  OBVIOUS
<1>1. Density \in Nat /\ MaxSteps \in Nat
  BY DesktopAssumption
<1>2. script \in Scripts /\ stored \in Switch \cup {"unset"}
  BY ScriptsAssumption DEF Init, Switch
<1>3. <<>> \in Seq(DOMAIN Tools)
  BY EmptySeq
<1>4. calls \in Seq(DOMAIN Tools)
  BY <1>3 DEF Init
<1>5. Bools
  BY DEF Init, Bools
<1> QED
  BY <1>1, <1>2, <1>4, <1>5 DEF Init, Scalars, Holding, NoSetting, Switch

\* A turn that ends.
LEMMA FinishScalars == ASSUME Scalars, Finish, density' \in Nat, script' = script PROVE Scalars'
<1>1. calls' \in Seq(DOMAIN Tools)
  <2>1. <<>> \in Seq(DOMAIN Tools)
    BY EmptySeq
  <2> QED
    BY <2>1 DEF Finish
<1>2. MaxSteps \in Nat
  BY DesktopAssumption
<1>3. Bools'
  BY DEF Scalars, Bools, Finish, jigVars
<1> QED
  BY <1>1, <1>2, <1>3 DEF Scalars, Finish, jigVars, Holding

\* What the ladder of an overflow does to a prompt, short of ending the turn.
LEMMA RecoverIs ==
    ASSUME Recover, ~Finish
    PROVE  /\ phase = "overflow" /\ phase' = "planning" /\ attempt' \in 1..3 /\ lostPage' = TRUE
           /\ UNCHANGED <<step, retried, prose, calls, presses, cancelled, observed, lastShown, jigVars, density, bounds>>
           /\ \/ CutHard
              \/ /\ LatestPage(messages, 0) # 0 /\ messages' = ShrinkLatest(messages, TRUE)
                 /\ UNCHANGED <<historyEnd, opening>>
<1> DEFINE Rest == UNCHANGED <<step, retried, prose, calls, presses, cancelled, observed, lastShown, jigVars>>
           Bare == /\ LatestPage(messages, 0) # 0 /\ messages' = ShrinkLatest(messages, TRUE)
                   /\ UNCHANGED <<historyEnd, opening>>
<1>1. phase = "overflow" /\ UNCHANGED <<density, bounds>>
  BY DEF Recover
<1>2. \/ attempt' = 2 /\ phase' = "planning" /\ Rest /\ CutHard
      \/ attempt' = 3 /\ phase' = "planning" /\ lostPage' = TRUE /\ Rest /\ Bare
  BY Zenon DEF Recover
<1>3. CutHard => lostPage' = TRUE
  BY DEF CutHard
<1>4. attempt' \in 1..3 /\ phase' = "planning" /\ lostPage' = TRUE /\ Rest /\ (CutHard \/ Bare)
  <2> HIDE DEF Rest, Bare
  <2> QED
    BY <1>2, <1>3
<1> QED
  BY <1>1, <1>4

LEMMA TurnScalars ==
    ASSUME Scalars, LimitReached \/ Attempt \/ DropRound \/ HalvePage \/ ForgetHistory \/ Send \/ Recover
                    \/ RequestAborted \/ RequestFails \/ ServerOverflow \/ Answer \/ CallTools
    PROVE  Scalars'
<1> USE DEF Scalars, Holding
<1>1. CASE LimitReached
  BY <1>1, FinishScalars DEF LimitReached, bounds
<1>2. CASE Attempt \/ DropRound \/ HalvePage \/ ForgetHistory \/ Send \/ ServerOverflow
  <2>1. Bools'
    BY <1>2 DEF Attempt, DropRound, HalvePage, ForgetHistory, CutHard, Send, ServerOverflow, jigVars, turnVars, promptVars, Bools
  <2> QED
    BY <1>2, <2>1 DEF Attempt, DropRound, HalvePage, ForgetHistory, Send, ServerOverflow, jigVars, turnVars, bounds, promptVars
<1>3. CASE Recover
  <2>1. CASE Finish
    BY <1>3, <2>1, FinishScalars DEF Recover, bounds
  <2>2. CASE ~Finish
    <3>1. Bools'
      BY <1>3, <2>2, RecoverIs DEF jigVars, Bools
    <3>2. /\ phase' = "planning" /\ attempt' \in 1..3
          /\ UNCHANGED <<step, presses, stored, setting, script, density, calls>>
      BY <1>3, <2>2, RecoverIs DEF jigVars, bounds
    <3> QED
      BY <3>1, <3>2
  <2> QED
    BY <2>1, <2>2
<1>4. CASE RequestAborted
  BY <1>4, FinishScalars DEF RequestAborted, bounds
<1>5. CASE RequestFails
  BY <1>5, FinishScalars DEF RequestFails
<1>6. CASE Answer
  <2>1. density' \in Nat
    BY <1>6, ScriptIs DEF Answer
  <2>2. CASE Finish
    BY <1>6, <2>1, <2>2, FinishScalars DEF Answer, bounds
  <2>3. CASE ~Finish
    <3>1. Bools'
      BY <1>6, <2>3 DEF Answer, jigVars, promptVars, Bools
    <3> QED
      BY <1>6, <2>1, <2>3, <3>1 DEF Answer, jigVars, bounds, promptVars
  <2> QED
    BY <2>2, <2>3
<1>7. CASE CallTools
  <2>1. density' \in Nat
    BY <1>7, ScriptIs DEF CallTools
  <2>2. PICK called \in script.replies, text \in BOOLEAN : calls' = called /\ prose' = (prose \/ text)
    BY <1>7 DEF CallTools
  <2>3. calls' \in Seq(DOMAIN Tools)
    BY <2>2, ScriptIs
  <2>4. Bools'
    <3>1. prose' \in BOOLEAN
      BY <2>2
    <3> QED
      BY <1>7, <3>1 DEF CallTools, jigVars, Bools
  <2> QED
    BY <1>7, <2>1, <2>3, <2>4 DEF CallTools, jigVars, bounds
<1> QED
  BY <1>1, <1>2, <1>3, <1>4, <1>5, <1>6, <1>7

LEMMA RestScalars ==
    ASSUME Scalars, Begin \/ RunTool \/ RoundDone \/ Acquire \/ PauseFirst \/ Press \/ PressFails \/ ToolEnds \/ Cancel
    PROVE  Scalars'
<1> USE DEF Scalars, Holding
<1>1. CASE Begin
  <2>1. MaxSteps \in Nat
    BY DesktopAssumption
  <2>2. Bools'
    BY <1>1 DEF Begin, jigVars, Bools
  <2> QED
    BY <1>1, <2>1, <2>2 DEF Begin, jigVars, bounds
<1>2. CASE RunTool
  <2>1. step' \in 0..MaxSteps
    BY <1>2, DesktopAssumption DEF RunTool
  <2>2. calls' \in Seq(DOMAIN Tools) /\ phase' \in {"acting", "waiting"} /\ (phase' = "waiting" => calls' # <<>>)
    BY <1>2, CallsAre DEF RunTool
  <2>3. Bools'
    BY <1>2 DEF RunTool, jigVars, Bools
  <2> QED
    BY <1>2, <2>1, <2>2, <2>3 DEF RunTool, jigVars, bounds
<1>3. CASE RoundDone
  <2>1. <<>> \in Seq(DOMAIN Tools)
    BY EmptySeq
  <2>2. Bools'
    BY <1>3 DEF RoundDone, jigVars, Bools
  <2> QED
    BY <1>3, <2>1, <2>2 DEF RoundDone, jigVars, bounds
<1>4. CASE Acquire \/ Press \/ PressFails \/ Cancel
  <2>1. phase' \in {"idle", "planning", "fitting", "asked", "overflow", "acting", "waiting"} \cup Holding
    BY <1>4 DEF Acquire, Press, PressFails, Cancel
  <2>2. presses' \in Nat
    BY <1>4 DEF Acquire, Press, PressFails, Cancel
  <2>3. Bools'
    BY <1>4 DEF Acquire, Press, PressFails, Cancel, promptVars, jigVars, Bools
  <2> QED
    BY <1>4, <2>1, <2>2, <2>3 DEF Acquire, Press, PressFails, Cancel, jigVars, bounds, promptVars
<1>5. CASE PauseFirst \/ ToolEnds
  <2>1. calls' \in Seq(DOMAIN Tools)
    BY <1>5, CallsAre DEF PauseFirst, ToolEnds, Return
  <2>2. presses' \in Nat
    <3>1. Tools[Head(calls)].inputs \in Nat
      BY <1>5, CallsAre, ToolIs DEF PauseFirst, ToolEnds
    <3> QED
      BY <1>5, <3>1 DEF PauseFirst, ToolEnds, Return
  <2>3. phase' \in {"acting", "pressing"} /\ (phase' = "pressing" => calls' = calls /\ phase = "pausing")
    BY <1>5 DEF PauseFirst, ToolEnds, Return
  <2>4. Bools'
    BY <1>5 DEF PauseFirst, ToolEnds, jigVars, Bools
  <2> QED
    BY <1>5, <2>1, <2>2, <2>3, <2>4 DEF PauseFirst, ToolEnds, jigVars, bounds
<1> QED
  BY <1>1, <1>2, <1>3, <1>4, <1>5

LEMMA JigglerScalars ==
    ASSUME Scalars, SetStored \/ SetCached \/ Wake \/ Burst \/ CheckPoint \/ MovePoint
    PROVE  Scalars'
<1> USE DEF Scalars, Holding, agent, turnVars, promptVars, bounds
<1>1. CASE SetStored
  <2>1. Bools'
    BY <1>1 DEF SetStored, Bools
  <2> QED
    BY <1>1, <2>1 DEF SetStored, Mishap
<1>2. CASE SetCached
  <2>1. enabled' \in BOOLEAN /\ wake' \in BOOLEAN
    BY <1>2 DEF SetCached
  <2>2. Bools'
    BY <1>2, <2>1 DEF SetCached, Bools
  <2> QED
    BY <1>2, <2>2 DEF SetCached
<1>3. CASE Wake \/ Burst \/ CheckPoint \/ MovePoint
  <2>1. Bools'
    BY <1>3 DEF Wake, Burst, CheckPoint, MovePoint, Bools
  <2> QED
    BY <1>3, <2>1 DEF Wake, Burst, CheckPoint, MovePoint
<1> QED
  BY <1>1, <1>2, <1>3

LEMMA NextScalars == Scalars /\ [Next]_vars => Scalars'
<1> SUFFICES ASSUME Scalars, [Next]_vars PROVE Scalars'
  OBVIOUS
<1>1. CASE UNCHANGED vars
  BY <1>1 DEF Scalars, Bools, Holding, vars, turnVars, promptVars, bounds, jigVars
<1> QED
  BY <1>1, TurnScalars, RestScalars, JigglerScalars DEF Next, TurnNext

-----------------------------------------------------------------------------
(* The prompt of a turn.                                                   *)

Typed ==
    /\ messages \in Seq(Messages) /\ historyEnd \in 0..Len(messages) /\ observed \in Seq(Messages)
    /\ lastShown \in [tool : DOMAIN Tools \cup {"none"}, page : Pages \cup {NoPage}]
Watched == \A i \in DOMAIN observed : IsObservation(observed[i]) /\ observed[i].calls = 0
Content ==
    /\ Typed /\ Watched
    /\ ~InRound => observed = <<>>
    /\ phase # "idle" => Opening(messages, historyEnd) /\ Shape(messages)
    /\ Prompted => Whole(messages, 0)
    /\ InRound => Whole(messages, Len(calls))
    /\ phase \in {"fitting", "asked"} => Pairs(messages, historyEnd)
    /\ phase # "idle" /\ ~lostPage => Shown(messages, observed, lastShown)
    /\ phase \in {"fitting", "asked"} /\ ~lostPage => Backed(messages)

\* A step that leaves the prompt alone.
LEMMA ContentStays ==
    ASSUME Content, UNCHANGED <<messages, historyEnd, observed, lastShown, lostPage, calls>>,
           phase' # "idle" => phase # "idle", Prompted' => Prompted, InRound' <=> InRound,
           phase' \in {"fitting", "asked"} => phase \in {"fitting", "asked"}
    PROVE  Content'
<1>1. Typed' /\ Watched'
  BY DEF Content, Typed, Watched
<1>2. (~InRound => observed = <<>>)' /\ (InRound => Whole(messages, Len(calls)))' /\ (Prompted => Whole(messages, 0))'
  BY DEF Content
<1>3. /\ phase' # "idle" => Opening(messages', historyEnd') /\ Shape(messages')
      /\ phase' \in {"fitting", "asked"} => Pairs(messages', historyEnd')
  BY DEF Content
<1>4. /\ phase' # "idle" /\ ~lostPage' => Shown(messages', observed', lastShown')
      /\ phase' \in {"fitting", "asked"} /\ ~lostPage' => Backed(messages')
  BY DEF Content
<1> QED
  BY <1>1, <1>2, <1>3, <1>4 DEF Content

\* A step that leaves a whole prompt, with no observation waiting, before the model
\* is asked.
LEMMA ContentWhole ==
    ASSUME NEW ms \in Seq(Messages), NEW h, messages' = ms, historyEnd' = h, observed' = <<>>,
           Opening(ms, h), Shape(ms), Whole(ms, 0),
           lastShown' \in [tool : DOMAIN Tools \cup {"none"}, page : Pages \cup {NoPage}],
           phase' \in {"planning", "fitting"}, phase' = "fitting" => Pairs(ms, h),
           ~lostPage' => Shown(ms, <<>>, lastShown'),
           phase' = "fitting" /\ ~lostPage' => Backed(ms)
    PROVE  Content'
<1>1. <<>> \in Seq(Messages) /\ DOMAIN <<>> = {}
  BY EmptySeq
<1>2. h \in 0..Len(ms)
  BY PromptIs DEF Opening
<1>3. Typed'
  BY <1>1, <1>2 DEF Typed
<1>4. Watched'
  BY <1>1 DEF Watched
<1>5. ~InRound'
  BY DEF InRound, Holding
<1> QED
  BY <1>3, <1>4, <1>5 DEF Content

LEMMA FinishContent == ASSUME Finish PROVE Content'
<1>1. <<>> \in Seq(Messages) /\ Len(<<>>) = 0 /\ DOMAIN <<>> = {}
  BY EmptySeq
<1>2. lastShown' \in [tool : DOMAIN Tools \cup {"none"}, page : Pages \cup {NoPage}]
  BY DEF Finish, NothingShown
<1>3. Typed'
  BY <1>1, <1>2 DEF Finish, Typed
<1>4. Watched'
  BY <1>1 DEF Finish, Watched
<1>5. phase' = "idle" /\ observed' = <<>>
  BY DEF Finish
<1>6. ~InRound' /\ ~Prompted'
  BY <1>5 DEF InRound, Prompted, Holding
<1> QED
  BY <1>3, <1>4, <1>5, <1>6 DEF Content

LEMMA ContentInit == Init => Content
<1> SUFFICES ASSUME Init PROVE Content
  OBVIOUS
<1>1. <<>> \in Seq(Messages) /\ Len(<<>>) = 0 /\ DOMAIN <<>> = {}
  BY EmptySeq
<1>2. lastShown \in [tool : DOMAIN Tools \cup {"none"}, page : Pages \cup {NoPage}]
  BY DEF Init, NothingShown
<1>3. Typed
  BY <1>1, <1>2 DEF Init, Typed
<1>4. Watched
  BY <1>1 DEF Init, Watched
<1>5. phase = "idle" /\ observed = <<>>
  BY DEF Init
<1>6. ~InRound /\ ~Prompted
  BY <1>5 DEF InRound, Prompted, Holding
<1> QED
  BY <1>3, <1>4, <1>5, <1>6 DEF Content

\* What a turn starts from: the system prompt and the conversation, or the task.
LEMMA StartIs ==
    ASSUME NEW asked \in Seq(Messages),
           \A i \in DOMAIN asked : asked[i].what = "text" /\ asked[i].role # "tool" /\ asked[i].calls = 0
    PROVE  LET start == <<Text("system", 1)>> \o asked
           IN  /\ start \in Seq(Messages) /\ Opening(start, Len(start))
               /\ Shape(start) /\ Whole(start, 0) /\ Silent(start)
<1> DEFINE first == Text("system", 1)
           one == <<first>>
           start == one \o asked
<1>1. first \in Messages /\ first.role = "system" /\ first.what = "text" /\ first.calls = 0
  BY PiecesAre DEF Text
<1> HIDE DEF first
<1>2. one \in Seq(Messages) /\ Len(one) = 1 /\ one[1] = first
  BY <1>1
<1>3. Len(asked) \in Nat /\ DOMAIN asked = 1..Len(asked)
  BY PromptIs
<1> HIDE DEF one
<1>4. /\ start \in Seq(Messages) /\ Len(start) = 1 + Len(asked)
      /\ \A i \in 1..1 : start[i] = one[i]
      /\ \A i \in 1 + 1..1 + Len(asked) : i - 1 \in 1..Len(asked) /\ start[i] = asked[i - 1]
  <2>1. /\ one \o asked \in Seq(Messages) /\ Len(one \o asked) = Len(one) + Len(asked)
        /\ \A i \in 1..Len(one) : (one \o asked)[i] = one[i]
        /\ \A i \in Len(one) + 1..Len(one) + Len(asked) : i - Len(one) \in 1..Len(asked) /\ (one \o asked)[i] = asked[i - Len(one)]
    BY <1>2, ConcatIs
  <2> QED
    BY <2>1, <1>2
<1> HIDE DEF start
<1>5. start[1] = first
  BY <1>2, <1>4
<1>6. \A i \in 1..Len(start) : start[i].what = "text" /\ start[i].role # "tool" /\ start[i].calls = 0
  <2> SUFFICES ASSUME NEW i \in 1..Len(start)
               PROVE  start[i].what = "text" /\ start[i].role # "tool" /\ start[i].calls = 0
    OBVIOUS
  <2>1. CASE i = 1
    BY <2>1, <1>5, <1>1
  <2>2. CASE i # 1
    BY <2>2, <1>3, <1>4
  <2> QED
    BY <2>1, <2>2
<1>7. DOMAIN start = 1..Len(start)
  BY <1>4, PromptIs
<1>8. Len(start) \in 1..Len(start)
  BY <1>3, <1>4
<1>9. Opening(start, Len(start))
  BY <1>1, <1>5, <1>6, <1>8 DEF Opening, Plain, IsRound
<1>10. Shape(start) /\ Silent(start)
  BY <1>6, <1>7 DEF Shape, Silent
<1>11. Whole(start, 0)
  BY <1>6, <1>7 DEF Whole, IsRound
<1> QED
  BY <1>4, <1>9, <1>10, <1>11 DEF start, one, first

\* What a turn may find: nothing, an answer, a question, or its task.
LEMMA BeginIs ==
    ASSUME Scalars, Begin
    PROVE  \E start \in Seq(Messages) :
              /\ Opening(start, Len(start)) /\ Shape(start) /\ Whole(start, 0) /\ Silent(start)
              /\ messages' = start /\ historyEnd' = Len(start)
<1>1. PICK asked \in script.starts :
         messages' = <<Text("system", 1)>> \o asked /\ historyEnd' = Len(messages')
  BY DEF Begin
<1>2. asked \in Histories \cup {Task}
  BY ScriptsAssumption DEF Scalars
<1>3. /\ asked \in Seq(Messages)
      /\ \A i \in DOMAIN asked : asked[i].what = "text" /\ asked[i].role # "tool" /\ asked[i].calls = 0
  <2>1. CASE asked \in Histories
    BY <2>1, HistoryAssumption
  <2>2. CASE asked = Task
    <3>1. Text("user", 1) \in Messages
      BY PiecesAre
    <3> QED
      BY <2>2, <3>1 DEF Task, Text
  <2> QED
    BY <1>2, <2>1, <2>2
<1> DEFINE start == <<Text("system", 1)>> \o asked
<1>4. start \in Seq(Messages) /\ Opening(start, Len(start)) /\ Shape(start) /\ Whole(start, 0) /\ Silent(start)
  BY <1>3, StartIs
<1>5. messages' = start /\ historyEnd' = Len(start)
  BY <1>1
<1> HIDE DEF start
<1> QED
  BY <1>4, <1>5

LEMMA BeginContent == ASSUME Scalars, Begin PROVE Content'
<1>1. PICK start \in Seq(Messages) :
        /\ Opening(start, Len(start)) /\ Shape(start) /\ Whole(start, 0) /\ Silent(start)
        /\ messages' = start /\ historyEnd' = Len(start)
  BY BeginIs
<1>2. phase' = "planning" /\ observed' = <<>> /\ lastShown' = NothingShown
  BY DEF Begin
<1>3. lastShown' \in [tool : DOMAIN Tools \cup {"none"}, page : Pages \cup {NoPage}]
  BY <1>2 DEF NothingShown
<1>4. Shown(start, <<>>, lastShown')
  BY <1>1, <1>2, EmptySeq DEF Shown, Silent
<1> QED
  BY <1>1, <1>2, <1>3, <1>4, ContentWhole

\* The same pages and the same of what is said of them.
LEMMA ShownAlike ==
    ASSUME NEW old \in Seq(Messages), NEW new \in Seq(Messages), Alike(old, new), NEW h, Opening(old, h),
           NEW last, Shown(old, <<>>, last)
    PROVE  Shown(new, <<>>, last)
<1>1. /\ Silent(old) => Silent(new)
      /\ \A q : Newest(old, q) => Newest(new, q)
  BY AlikeKeeps
<1> QED
  BY <1>1 DEF Shown

\* What attemptCompletion does to a prompt before it cuts.
LEMMA AttemptKeeps ==
    ASSUME NEW ms \in Seq(Messages), NEW h, Opening(ms, h), Shape(ms), Whole(ms, 0)
    PROVE  LET new == OlderToolText(CompactTask(ms, h), h)
           IN  /\ new \in Seq(Messages) /\ Opening(new, h) /\ Shape(new) /\ Whole(new, 0) /\ Pairs(new, h)
               /\ \A last : Shown(ms, <<>>, last) => Shown(new, <<>>, last) /\ Backed(new)
<1> DEFINE tidy == CompactTask(ms, h)
           new == OlderToolText(tidy, h)
<1>1. tidy \in Seq(Messages) /\ Opening(tidy, h) /\ Shape(tidy) /\ Whole(tidy, 0) /\ Pairs(tidy, h)
  BY CompactIs, CompactShape, CompactWhole, CompactPairs
<1>2. \A last : Shown(ms, <<>>, last) => Shown(tidy, <<>>, last) /\ Backed(tidy)
  <2> SUFFICES ASSUME NEW last, Shown(ms, <<>>, last) PROVE Shown(tidy, <<>>, last) /\ Backed(tidy)
    OBVIOUS
  <2>1. DOMAIN <<>> = {}
    OBVIOUS
  <2>2. ~Newest(<<>>, last.page) /\ NoNewer(<<>>, last.page) /\ Silent(<<>>)
    BY <2>1 DEF Newest, NoNewer, Silent
  <2>3. CASE Newest(ms, last.page)
    BY <2>2, <2>3, CompactShows DEF Shown
  <2>4. CASE last = NothingShown /\ Silent(ms)
    <3>1. Silent(tidy)
      BY <2>4, CompactSilent
    <3>2. Backed(tidy)
      BY <3>1 DEF Silent, Backed
    <3> QED
      BY <2>2, <2>4, <3>1, <3>2 DEF Shown
  <2> QED
    BY <2>2, <2>3, <2>4 DEF Shown
<1> HIDE DEF tidy
<1>3. new \in Seq(Messages) /\ Alike(tidy, new)
  BY <1>1, OlderAlike
<1> HIDE DEF new
<1>4. /\ Fainter(tidy, new) /\ Pairs(new, h)
      /\ Backed(tidy) => Backed(new)
  BY <1>1, <1>3, AlikeKeeps
<1>5. Opening(new, h) /\ Shape(new) /\ Whole(new, 0)
  BY <1>1, <1>3, <1>4, FainterKeeps
<1>6. \A last : Shown(tidy, <<>>, last) => Shown(new, <<>>, last)
  BY <1>1, <1>3, ShownAlike
<1> QED
  BY <1>2, <1>3, <1>4, <1>5, <1>6 DEF new, tidy

\* What holds of a prompt before the model has been asked.
LEMMA PromptedIs ==
    ASSUME Content, Prompted
    PROVE  /\ messages \in Seq(Messages) /\ observed = <<>>
           /\ Opening(messages, historyEnd) /\ Shape(messages) /\ Whole(messages, 0)
           /\ lastShown \in [tool : DOMAIN Tools \cup {"none"}, page : Pages \cup {NoPage}]
           /\ ~lostPage => Shown(messages, <<>>, lastShown)
<1>1. phase # "idle" /\ ~InRound
  BY DEF Prompted, InRound, Holding
<1> QED
  BY <1>1 DEF Content, Typed

LEMMA AttemptContent == ASSUME Content, Attempt PROVE Content'
<1>1. /\ Prompted /\ phase' = "fitting"
      /\ UNCHANGED <<historyEnd, lostPage, lastShown, observed>>
      /\ messages' = OlderToolText(CompactTask(messages, historyEnd), historyEnd)
  BY DEF Attempt, Prompted
<1> DEFINE new == OlderToolText(CompactTask(messages, historyEnd), historyEnd)
<1>2. /\ new \in Seq(Messages) /\ Opening(new, historyEnd) /\ Shape(new) /\ Whole(new, 0)
      /\ Pairs(new, historyEnd)
      /\ \A last : Shown(messages, <<>>, last) => Shown(new, <<>>, last) /\ Backed(new)
  BY <1>1, PromptedIs, AttemptKeeps
<1>3. messages' = new
  BY <1>1
<1> HIDE DEF new
<1>4. ~lostPage' => Shown(new, <<>>, lastShown') /\ Backed(new)
  BY <1>1, <1>2, PromptedIs
<1> QED
  BY <1>1, <1>2, <1>3, <1>4, PromptedIs, ContentWhole

LEMMA DropRoundContent == ASSUME Content, DropRound PROVE Content'
<1>1. /\ Prompted /\ phase = "fitting" /\ phase' = "fitting" /\ lostPage' = TRUE
      /\ UNCHANGED <<historyEnd, lastShown, observed>> /\ Droppable(messages, historyEnd)
      /\ messages' = DropOldestRound(messages, historyEnd)
  BY DEF DropRound, Prompted, turnVars
<1> DEFINE new == DropOldestRound(messages, historyEnd)
<1>2. Pairs(messages, historyEnd)
  BY <1>1 DEF Content
<1>3. /\ new \in Seq(Messages) /\ Opening(new, historyEnd) /\ Shape(new) /\ Whole(new, 0)
      /\ Pairs(new, historyEnd)
  BY <1>1, <1>2, PromptedIs, DropKeeps
<1>4. messages' = new
  BY <1>1
<1> HIDE DEF new
<1> QED
  BY <1>1, <1>3, <1>4, PromptedIs, ContentWhole

LEMMA HalvePageContent == ASSUME Content, HalvePage PROVE Content'
<1>1. /\ Prompted /\ phase = "fitting" /\ phase' = "fitting"
      /\ UNCHANGED <<historyEnd, lostPage, lastShown, observed>> /\ LatestPage(messages, 0) # 0
      /\ messages' = ShrinkLatest(messages, FALSE)
  BY DEF HalvePage, Prompted, turnVars, Shrinkable
<1> DEFINE new == ShrinkLatest(messages, FALSE)
<1>2. /\ Pairs(messages, historyEnd)
      /\ ~lostPage => Backed(messages)
  BY <1>1 DEF Content
<1>3. new \in Seq(Messages) /\ Alike(messages, new)
  BY <1>1, PromptedIs, ShrunkIs
<1>4. messages' = new
  BY <1>1
<1> HIDE DEF new
<1>5. /\ Fainter(messages, new) /\ Pairs(new, historyEnd)
      /\ ~lostPage => Backed(new)
  BY <1>1, <1>2, <1>3, PromptedIs, AlikeKeeps
<1>6. Opening(new, historyEnd) /\ Shape(new) /\ Whole(new, 0)
  BY <1>1, <1>3, <1>5, PromptedIs, FainterKeeps
<1>7. ~lostPage' => Shown(new, <<>>, lastShown')
  BY <1>1, <1>3, PromptedIs, ShownAlike
<1> QED
  BY <1>1, <1>3, <1>4, <1>5, <1>6, <1>7, PromptedIs, ContentWhole

\* The hard compaction, after which the turn goes on with phase': the prompt is what
\* it should be if it had a question, or if nothing of the task was left in it.
LEMMA HardContent ==
    ASSUME Content, Prompted, phase' \in {"planning", "fitting"}, UNCHANGED <<lastShown, observed>>,
           opening = "asked" => HasQuestion(messages, historyEnd), opening \in {"asked", "mute"},
           CutHard, opening' # "misread"
    PROVE  Content'
<1> DEFINE new == CompactHard(HardKept(messages, historyEnd))
<1>1. /\ messages' = new /\ historyEnd' = Lesser(2, Len(new)) /\ lostPage' = TRUE
      /\ opening = "mute" => Len(new) <= 1
  <2>1. /\ messages' = new /\ historyEnd' = Lesser(2, Len(messages')) /\ lostPage' = TRUE
        /\ opening' = IF opening = "mute" /\ Len(messages') > 1 THEN "misread" ELSE opening
    BY DEF CutHard
  <2>2. messages \in Seq(Messages) /\ historyEnd \in 1..Len(messages)
    BY PromptedIs DEF Opening
  <2>3. new \in Seq(Messages)
    BY <2>2, HardCut
  <2> HIDE DEF new
  <2>4. Len(new) \in Nat
    BY <2>3, PromptIs
  <2> QED
    BY <2>1, <2>4
<1>2. CASE opening = "asked"
  <2>1. /\ new \in Seq(Messages) /\ Lesser(2, Len(new)) = 2
        /\ Opening(new, 2) /\ Shape(new) /\ Whole(new, 0) /\ Pairs(new, 2)
    BY <1>2, PromptedIs, HardKeeps
  <2> HIDE DEF new
  <2> QED
    BY <1>1, <2>1, PromptedIs, ContentWhole
<1>3. CASE opening = "mute"
  <2>1. messages \in Seq(Messages) /\ Opening(messages, historyEnd) /\ historyEnd \in 1..Len(messages)
    BY PromptedIs DEF Opening
  <2>2. /\ new \in Seq(Messages) /\ new[1] = messages[1]
        /\ Lesser(2, Len(new)) \in 1..Len(new) /\ (Len(new) = 1 => Lesser(2, Len(new)) = 1)
    BY <2>1, HardCut
  <2> HIDE DEF new
  <2>3. Len(new) = 1 /\ Lesser(2, Len(new)) = 1
    <3>1. Len(new) \in Nat /\ Len(new) <= 1
      BY <1>1, <1>3, <2>2, PromptIs
    <3> DEFINE z == Len(new)
               l == Lesser(2, z)
    <3>2. z \in Nat /\ z <= 1 /\ l \in 1..z
      BY <2>2, <3>1
    <3> HIDE DEF z, l
    <3>3. z = 1
      BY <3>2
    <3> QED
      BY <2>2, <3>3 DEF z, l
  <2>4. Opening(new, 1) /\ Shape(new) /\ Whole(new, 0) /\ Pairs(new, 1)
    BY <2>1, <2>2, <2>3, HardMute
  <2> QED
    BY <1>1, <2>2, <2>3, <2>4, PromptedIs, ContentWhole
<1> QED
  BY <1>2, <1>3

LEMMA ForgetHistoryContent ==
    ASSUME Content, ForgetHistory, opening' # "misread", opening \in {"asked", "mute"},
           opening = "asked" => HasQuestion(messages, historyEnd)
    PROVE  Content'
<1>1. Prompted /\ phase' = "fitting" /\ UNCHANGED <<lastShown, observed>> /\ CutHard
  BY DEF ForgetHistory, Prompted, turnVars
<1> QED
  BY <1>1, HardContent

LEMMA RecoverContent ==
    ASSUME Content, Recover, opening' # "misread", opening \in {"asked", "mute"},
           opening = "asked" => HasQuestion(messages, historyEnd)
    PROVE  Content'
<1>1. CASE Finish
  BY <1>1, FinishContent
<1>2. CASE ~Finish
  <2>1. Prompted /\ phase' = "planning" /\ lostPage' = TRUE /\ UNCHANGED <<lastShown, observed>>
    BY <1>2, RecoverIs DEF Prompted
  <2>2. CASE CutHard
    BY <2>1, <2>2, HardContent
  <2>3. CASE /\ LatestPage(messages, 0) # 0 /\ messages' = ShrinkLatest(messages, TRUE)
             /\ UNCHANGED <<historyEnd, opening>>
    <3> DEFINE new == ShrinkLatest(messages, TRUE)
    <3>1. new \in Seq(Messages) /\ Fainter(messages, new)
      BY <2>1, <2>3, PromptedIs, ShrunkIs
    <3>2. messages' = new
      BY <2>3
    <3> HIDE DEF new
    <3>3. Opening(new, historyEnd) /\ Shape(new) /\ Whole(new, 0)
      BY <2>1, <3>1, PromptedIs, FainterKeeps
    <3> QED
      BY <2>1, <2>3, <3>1, <3>2, <3>3, PromptedIs, ContentWhole
  <2> QED
    BY <1>2, <2>2, <2>3, RecoverIs
<1> QED
  BY <1>1, <1>2
\* A round the model calls: all its results are still to come.
LEMMA CallToolsContent == ASSUME Scalars, Content, CallTools PROVE Content'
<1>1. PICK called \in script.replies, text \in BOOLEAN :
        calls' = called /\ messages' = Append(messages, Round(Len(called)))
  BY DEF CallTools
<1>2. /\ Prompted /\ phase # "idle" /\ phase' = "acting"
      /\ UNCHANGED <<historyEnd, lostPage, lastShown, observed>>
  BY DEF CallTools, Prompted
<1>3. called \in Seq(DOMAIN Tools)
  BY <1>1, ScriptIs
<1>4. Len(called) \in Nat
  BY <1>3, LenProperties
<1> DEFINE n == Len(called)
           round == Round(n)
           new == Append(messages, round)
<1>5. round \in Messages /\ round.what = "text"
  <2>1. round \in Messages
    BY <1>4, PiecesAre
  <2>2. round.what = "text"
    BY DEF Round, Text
  <2> QED
    BY <2>1, <2>2
<1>6. Whole(new, n)
  BY <1>2, <1>4, PromptedIs, CalledWhole
<1> HIDE DEF round
<1>7. new \in Seq(Messages) /\ historyEnd \in 0..Len(new)
  <2>1. new \in Seq(Messages) /\ Len(messages) \in Nat /\ Len(new) = Len(messages) + 1
    BY <1>2, <1>5, PromptedIs, AppendIs
  <2>2. historyEnd \in 0..Len(messages)
    BY DEF Content, Typed
  <2> HIDE DEF new
  <2> QED
    BY <2>1, <2>2
<1>8. Opening(new, historyEnd) /\ Shape(new)
  BY <1>2, <1>5, PromptedIs, AppendShape
<1>9. ~lostPage => Shown(new, <<>>, lastShown)
  BY <1>2, <1>5, PromptedIs, ShownAppend
<1>10. messages' = new /\ calls' = called /\ Len(calls') = n
  BY <1>1 DEF round
<1> HIDE DEF new, n
<1>11. InRound' /\ ~Prompted' /\ observed' = <<>>
  BY <1>2, PromptedIs DEF InRound, Prompted
<1>12. Typed' /\ Watched'
  <2>1. <<>> \in Seq(Messages) /\ DOMAIN <<>> = {}
    BY EmptySeq
  <2> QED
    BY <1>2, <1>7, <1>10, <1>11, <2>1, PromptedIs DEF Typed, Watched
<1> QED
  BY <1>2, <1>6, <1>8, <1>9, <1>10, <1>11, <1>12 DEF Content

\* A tool that ends shows something or says something.
LEMMA ToolShows ==
    ASSUME Scalars, NEW t \in DOMAIN Tools, Results(t) \/ Errors(t)
    PROVE  (\E p \in Pages \cup {NoPage} : Shows(t, p)) \/ Says(t)
<1>1. script.pages \subseteq Pages
  BY ScriptIs
<1>2. CASE Results(t)
  <2> HIDE DEF Shows, Says
  <2> QED
    BY <1>1, <1>2 DEF Results
<1>3. CASE Errors(t)
  <2> HIDE DEF Shows, Says
  <2> QED
    BY <1>3 DEF Errors
<1> QED
  BY <1>2, <1>3

\* The observation of a tool is a page, or an "unchanged" of the page shown last.
LEMMA ObservationIs ==
    ASSUME NEW t \in DOMAIN Tools, NEW p \in Pages \cup {NoPage}
    PROVE  LET m == Observation(t, p)
           IN  /\ m \in Messages /\ IsObservation(m) /\ m.calls = 0 /\ m.page = p
               /\ m.what = "page" \/ (m.what = "same" /\ lastShown = [tool |-> t, page |-> p])
<1>1. /\ Same(p).role = "user" /\ Same(p).what = "same" /\ Same(p).calls = 0 /\ Same(p).page = p
      /\ Same(p) \in Messages
  BY PiecesAre DEF Same, Text
<1>2. \A n \in Nat, image \in BOOLEAN :
        /\ Page(p, n, image).role = "user" /\ Page(p, n, image).what = "page"
        /\ Page(p, n, image).calls = 0 /\ Page(p, n, image).page = p
        /\ Page(p, n, image) \in Messages
  <2> SUFFICES ASSUME NEW n \in Nat, NEW image \in BOOLEAN
               PROVE /\ Page(p, n, image).role = "user" /\ Page(p, n, image).what = "page"
                     /\ Page(p, n, image).calls = 0 /\ Page(p, n, image).page = p
                     /\ Page(p, n, image) \in Messages
    OBVIOUS
  <2>1. Page(p, n, image) \in Messages
    BY PiecesAre
  <2> QED
    BY <2>1 DEF Page, Text
<1>3. Tools[t].size \in Nat /\ Tools[t].image \in BOOLEAN /\ 1 \in Nat /\ FALSE \in BOOLEAN
  BY ToolIs
<1>4. CASE lastShown = [tool |-> t, page |-> p]
  <2>1. Observation(t, p) = Same(p)
    BY <1>4 DEF Observation
  <2> DEFINE m == Observation(t, p)
  <2>2. m.role = "user" /\ m.what = "same" /\ m.calls = 0 /\ m.page = p /\ m \in Messages
    BY <1>1, <2>1
  <2> HIDE DEF m
  <2>3. IsObservation(m)
    BY <2>2 DEF IsObservation
  <2> QED
    BY <1>4, <2>2, <2>3 DEF m
<1>5. CASE lastShown # [tool |-> t, page |-> p]
  <2>1. Observation(t, p) = Page(p, 1, FALSE) \/ Observation(t, p) = Page(p, Tools[t].size, Tools[t].image)
    BY <1>5 DEF Observation
  <2> DEFINE m == Observation(t, p)
  <2>2. m.role = "user" /\ m.what = "page" /\ m.calls = 0 /\ m.page = p /\ m \in Messages
    <3>1. m = Page(p, 1, FALSE) \/ m = Page(p, Tools[t].size, Tools[t].image)
      BY <2>1
    <3> HIDE DEF m
    <3>2. CASE m = Page(p, 1, FALSE)
      BY <1>2, <1>3, <3>2
    <3>3. CASE m = Page(p, Tools[t].size, Tools[t].image)
      BY <1>2, <1>3, <3>3
    <3> QED
      BY <3>1, <3>2, <3>3
  <2> HIDE DEF m
  <2>3. IsObservation(m)
    BY <2>2 DEF IsObservation
  <2> QED
    BY <2>2, <2>3 DEF m
<1> QED
  BY <1>4, <1>5

\* What holds of a prompt while the tools of a round run.
LEMMA InRoundIs ==
    ASSUME Scalars, Content, InRound
    PROVE  /\ messages \in Seq(Messages) /\ observed \in Seq(Messages) /\ phase # "idle"
           /\ Opening(messages, historyEnd) /\ Shape(messages) /\ Whole(messages, Len(calls))
           /\ historyEnd \in 0..Len(messages)
           /\ lastShown \in [tool : DOMAIN Tools \cup {"none"}, page : Pages \cup {NoPage}]
           /\ ~lostPage => Shown(messages, observed, lastShown)
<1>1. phase # "idle"
  BY DEF InRound, Holding
<1> QED
  BY <1>1 DEF Content, Typed

\* A result m goes into the prompt, and perhaps an observation waits for the others.
LEMMA ResultContent ==
    ASSUME Scalars, Content, InRound, calls # <<>>, NEW m \in Messages, m.role = "tool",
           m.what \notin {"page", "same"}, messages' = Append(messages, m), calls' = Tail(calls),
           phase' = "acting", UNCHANGED <<historyEnd, lostPage>>,
           observed' \in Seq(Messages), Watched',
           lastShown' \in [tool : DOMAIN Tools \cup {"none"}, page : Pages \cup {NoPage}],
           Shown(messages, observed, lastShown) => Shown(messages, observed', lastShown')
    PROVE  Content'
<1> DEFINE n == Len(calls)
           new == Append(messages, m)
<1>1. n \in Nat /\ n # 0 /\ Len(Tail(calls)) = n - 1
  BY CallsAre
<1>2. Whole(new, n - 1)
  BY <1>1, InRoundIs, ResultWhole
<1>3. new \in Seq(Messages) /\ Len(messages) \in Nat /\ Len(new) = Len(messages) + 1
  BY InRoundIs, AppendIs
<1>4. Opening(new, historyEnd) /\ Shape(new)
  BY InRoundIs, AppendShape
<1>5. ~lostPage => Shown(new, observed', lastShown')
  <2>1. ~lostPage => Shown(messages, observed', lastShown')
    BY InRoundIs
  <2> DEFINE obs == observed'
             last == lastShown'
  <2>2. ~lostPage => Shown(messages, obs, last)
    BY <2>1
  <2> HIDE DEF obs, last
  <2>3. ~lostPage => Shown(new, obs, last)
    BY <2>2, InRoundIs, ShownAppend
  <2> QED
    BY <2>3 DEF obs, last
<1>6. messages' = new /\ Len(calls') = n - 1
  BY <1>1
<1> HIDE DEF new, n
<1>7. historyEnd' \in 0..Len(new)
  BY <1>3, InRoundIs
<1>8. Typed'
  BY <1>3, <1>6, <1>7 DEF Typed
<1>9. InRound' /\ ~Prompted'
  BY DEF InRound, Prompted
<1> QED
  BY <1>2, <1>4, <1>5, <1>6, <1>8, <1>9 DEF Content

LEMMA ToolContent ==
    ASSUME Scalars, Content, InRound, calls # <<>>, Results(Head(calls)) \/ Errors(Head(calls)),
           calls' = Tail(calls), phase' = "acting", UNCHANGED <<historyEnd, lostPage>>
    PROVE  Content'
<1> DEFINE t == Head(calls)
<1>1. t \in DOMAIN Tools
  BY CallsAre
<1>2. CASE \E p \in Pages \cup {NoPage} : Shows(t, p)
  <2>1. PICK p \in Pages \cup {NoPage} : Shows(t, p)
    BY <1>2
  <2> DEFINE m == Observation(t, p)
             now == [tool |-> t, page |-> p]
  <2>2. /\ m \in Messages /\ IsObservation(m) /\ m.calls = 0 /\ m.page = p
        /\ m.what = "page" \/ (m.what = "same" /\ lastShown = now)
    BY <1>1, ObservationIs
  <2>3. messages' = Append(messages, Stub) /\ observed' = Append(observed, m) /\ lastShown' = now
    BY <2>1 DEF Shows
  <2>4. now.page = p /\ now # NothingShown /\ now \in [tool : DOMAIN Tools \cup {"none"}, page : Pages \cup {NoPage}]
    <3>1. t # "none"
      BY <1>1, ToolsAssumption
    <3> QED
      BY <1>1, <3>1 DEF NothingShown
  <2>5. Stub \in Messages /\ Stub.role = "tool" /\ Stub.what \notin {"page", "same"}
    BY PiecesAre DEF Stub, Text
  <2> HIDE DEF m, now, t
  <2>6. Shown(messages, observed, lastShown) => Shown(messages, observed', lastShown')
    <3>1. Shown(messages, observed, lastShown) => Shown(messages, Append(observed, m), now)
      BY <2>2, <2>4, InRoundIs, ShownObserve
    <3> QED
      BY <2>3, <3>1
  <2> DEFINE obs == Append(observed, m)
  <2>7. obs \in Seq(Messages) /\ \A i \in DOMAIN obs : IsObservation(obs[i]) /\ obs[i].calls = 0
    <3>1. /\ obs \in Seq(Messages) /\ DOMAIN observed = 1..Len(observed) /\ DOMAIN obs = 1..Len(observed) + 1
          /\ Len(observed) \in Nat /\ \A i \in 1..Len(observed) : obs[i] = observed[i]
          /\ obs[Len(observed) + 1] = m
      BY <2>2, InRoundIs, AppendIs
    <3>2. \A i \in 1..Len(observed) : IsObservation(observed[i]) /\ observed[i].calls = 0
      BY <3>1 DEF Content, Watched
    <3> HIDE DEF obs
    <3>3. ASSUME NEW i \in 1..Len(observed) + 1 PROVE IsObservation(obs[i]) /\ obs[i].calls = 0
      <4>1. CASE i = Len(observed) + 1
        BY <2>2, <3>1, <4>1
      <4>2. CASE i # Len(observed) + 1
        <5>1. i \in 1..Len(observed)
          BY <3>1, <4>2
        <5> QED
          BY <3>1, <3>2, <5>1
      <4> QED
        BY <4>1, <4>2
    <3> QED
      BY <3>1, <3>3
  <2>8. observed' = obs
    BY <2>3
  <2> HIDE DEF obs
  <2>9. observed' \in Seq(Messages) /\ Watched'
    BY <2>7, <2>8 DEF Watched
  <2> QED
    BY <2>3, <2>4, <2>5, <2>6, <2>9, ResultContent
<1>3. CASE Says(t)
  <2> DEFINE m == Text("tool", Tools[t].size)
  <2>1. m \in Messages /\ m.role = "tool" /\ m.what \notin {"page", "same"}
    <3>1. Tools[t].size \in Nat
      BY <1>1, ToolIs
    <3>2. m \in Messages
      BY <3>1, PiecesAre
    <3> QED
      BY <3>2 DEF Text
  <2>2. messages' = Append(messages, m) /\ UNCHANGED <<observed, lastShown>>
    BY <1>3 DEF Says
  <2> HIDE DEF m, t
  <2>3. observed' \in Seq(Messages) /\ Watched'
    BY <2>2, InRoundIs DEF Watched, Content
  <2> QED
    BY <2>1, <2>2, <2>3, InRoundIs, ResultContent
<1> QED
  BY <1>1, <1>2, <1>3, ToolShows

\* The observations of a round go after its results.
LEMMA RoundDoneContent == ASSUME Scalars, Content, RoundDone PROVE Content'
<1>1. /\ InRound /\ phase' = "planning" /\ (calls = <<>> \/ step >= MaxSteps)
      /\ messages' = messages \o observed /\ observed' = <<>> /\ UNCHANGED <<historyEnd, lastShown, lostPage, step>>
  BY DEF RoundDone, InRound
<1> DEFINE new == messages \o observed
<1>2. /\ new \in Seq(Messages) /\ Opening(new, historyEnd) /\ Shape(new)
      /\ Whole(messages, 0) => Whole(new, 0)
  <2>1. \A i \in DOMAIN observed : IsObservation(observed[i]) /\ observed[i].calls = 0
    BY DEF Content, Watched
  <2> QED
    BY <1>1, <2>1, InRoundIs, ObservedKeeps
<1>3. ~lostPage => Shown(new, <<>>, lastShown)
  BY <1>1, InRoundIs, ShownConcat
<1>4. messages' = new
  BY <1>1
<1> HIDE DEF new
<1>5. CASE calls = <<>>
  <2>1. Len(calls) = 0
    BY <1>5
  <2>2. Whole(messages, 0)
    BY <1>1, <2>1, InRoundIs
  <2> QED
    BY <1>1, <1>2, <1>3, <1>4, <2>2, InRoundIs, ContentWhole
<1>6. CASE step >= MaxSteps
  <2>1. ~Prompted' /\ ~InRound' /\ phase' = "planning"
    <3>1. step' \in Int /\ MaxSteps \in Int /\ step' >= MaxSteps
      BY <1>1, <1>6, DesktopAssumption DEF Scalars
    <3>2. ~(step' < MaxSteps)
      BY <3>1
    <3> QED
      BY <1>1, <3>2 DEF Prompted, InRound, Holding
  <2>2. <<>> \in Seq(Messages) /\ DOMAIN <<>> = {}
    BY EmptySeq
  <2>3. Typed' /\ Watched'
    <3>1. historyEnd \in 0..Len(new)
      BY <1>2, PromptIs DEF Opening
    <3> QED
      BY <1>1, <1>2, <1>4, <2>2, <3>1, InRoundIs DEF Typed, Watched
  <2> QED
    BY <1>1, <1>2, <1>3, <1>4, <2>1, <2>3 DEF Content
<1> QED
  BY <1>1, <1>5, <1>6
\* The steps that leave the prompt alone.
LEMMA QuietContent ==
    ASSUME Content, \/ Send \/ ServerOverflow \/ Acquire \/ Press \/ PressFails \/ Cancel
                    \/ SetStored \/ SetCached \/ Wake \/ Burst \/ CheckPoint \/ MovePoint
    PROVE  Content'
<1>1. CASE Send
  <2>1. UNCHANGED <<messages, historyEnd, observed, lastShown, lostPage, calls>>
    BY <1>1 DEF Send, promptVars
  <2>2. phase = "fitting" /\ phase' \in {"asked", "overflow"}
    BY <1>1 DEF Send
  <2>3. Prompted /\ ~InRound /\ ~InRound'
    BY <2>2 DEF Prompted, InRound, Holding
  <2>4. phase' \in {"fitting", "asked"} => phase \in {"fitting", "asked"}
    BY <2>2
  <2> QED
    BY <2>1, <2>2, <2>3, <2>4, ContentStays
<1>2. CASE ServerOverflow
  <2>1. UNCHANGED <<messages, historyEnd, observed, lastShown, lostPage, calls>>
    BY <1>2 DEF ServerOverflow, promptVars
  <2>2. phase = "asked" /\ phase' = "overflow"
    BY <1>2 DEF ServerOverflow
  <2>3. Prompted /\ ~InRound /\ ~InRound'
    BY <2>2 DEF Prompted, InRound, Holding
  <2> QED
    BY <2>1, <2>2, <2>3, ContentStays
<1>3. CASE Acquire \/ Press \/ PressFails
  <2>1. UNCHANGED <<messages, historyEnd, observed, lastShown, lostPage, calls>>
    BY <1>3 DEF Acquire, Press, PressFails, promptVars
  <2>2. phase \in {"waiting"} \cup Holding /\ phase' \in Holding
    BY <1>3 DEF Acquire, Press, PressFails, Holding
  <2>3. InRound /\ InRound' /\ ~Prompted'
    BY <2>2 DEF Prompted, InRound, Holding
  <2>4. phase # "idle" /\ phase' \notin {"fitting", "asked"}
    BY <2>2 DEF Holding
  <2> QED
    BY <2>1, <2>3, <2>4, ContentStays
<1>4. CASE Cancel \/ SetStored \/ SetCached \/ Wake \/ Burst \/ CheckPoint \/ MovePoint
  <2>1. UNCHANGED <<messages, historyEnd, observed, lastShown, lostPage, calls, phase, step>>
    BY <1>4 DEF Cancel, SetStored, SetCached, Wake, Burst, CheckPoint, MovePoint, agent, promptVars, turnVars
  <2>2. (Prompted' <=> Prompted) /\ (InRound' <=> InRound)
    BY <2>1 DEF Prompted, InRound
  <2> QED
    BY <2>1, <2>2, ContentStays
<1> QED
  BY <1>1, <1>2, <1>3, <1>4

LEMMA AnswerContent == ASSUME Content, Answer PROVE Content'
<1>1. CASE Finish
  BY <1>1, FinishContent
<1>2. CASE ~Finish
  <2>1. phase = "asked" /\ phase' = "planning" /\ UNCHANGED <<messages, historyEnd, observed, lastShown, lostPage, calls>>
    BY <1>2 DEF Answer, promptVars
  <2>2. Prompted /\ ~InRound /\ ~InRound'
    BY <2>1 DEF Prompted, InRound, Holding
  <2> QED
    BY <2>1, <2>2, ContentStays
<1> QED
  BY <1>1, <1>2

\* The steps of a tool.
LEMMA RunToolContent == ASSUME Scalars, Content, RunTool PROVE Content'
<1>1. InRound /\ phase = "acting" /\ calls # <<>> /\ UNCHANGED <<historyEnd, lostPage, density>>
  BY DEF RunTool, InRound
<1>2. CASE UsesXdotool(Head(calls))
  <2>1. phase' = "waiting" /\ UNCHANGED <<messages, observed, lastShown, calls>>
    BY <1>2 DEF RunTool
  <2>2. InRound' /\ ~Prompted'
    BY <2>1 DEF InRound, Prompted
  <2> QED
    BY <1>1, <2>1, <2>2, ContentStays
<1>3. CASE ~UsesXdotool(Head(calls))
  <2>1. /\ Results(Head(calls)) \/ Errors(Head(calls))
        /\ calls' = Tail(calls) /\ phase' = "acting"
    BY <1>3 DEF RunTool
  <2> QED
    BY <1>1, <2>1, ToolContent
<1> QED
  BY <1>2, <1>3

LEMMA HeldContent == ASSUME Scalars, Content, PauseFirst \/ ToolEnds PROVE Content'
<1>1. phase \in Holding /\ UNCHANGED <<historyEnd, lostPage, density>>
  BY DEF PauseFirst, ToolEnds, Holding
<1>2. InRound /\ calls # <<>>
  BY <1>1 DEF InRound, Scalars
<1>3. CASE PauseFirst /\ ~cancelled
  <2>1. phase' = "pressing" /\ UNCHANGED <<messages, observed, lastShown, calls>>
    BY <1>3 DEF PauseFirst
  <2>2. InRound' /\ ~Prompted' /\ phase # "idle"
    BY <1>1, <2>1 DEF InRound, Prompted, Holding
  <2> QED
    BY <1>1, <1>2, <2>1, <2>2, ContentStays
<1>4. CASE ToolEnds \/ (PauseFirst /\ cancelled)
  <2>1. \E fine \in BOOLEAN : Return(Head(calls), fine)
    <3>1. CASE PauseFirst /\ cancelled
      BY <3>1 DEF PauseFirst
    <3>2. CASE ToolEnds
      <4>1. Return(Head(calls), presses = 0) /\ (presses = 0) \in BOOLEAN
        BY <3>2 DEF ToolEnds
      <4> QED
        BY <4>1
    <3> QED
      BY <1>4, <3>1, <3>2
  <2>2. /\ Results(Head(calls)) \/ Errors(Head(calls))
        /\ calls' = Tail(calls) /\ phase' = "acting"
    BY <2>1 DEF Return
  <2> QED
    BY <1>1, <1>2, <2>2, ToolContent
<1> QED
  BY <1>3, <1>4

-----------------------------------------------------------------------------
(* What holds of every prompt, that of a misread turn too.                 *)

\* The system prompt is there, and the question if there was one; what was asked fits.
Frame ==
    /\ messages \in Seq(Messages) /\ observed \in Seq(Messages) /\ historyEnd \in 0..Len(messages)
    /\ opening \in {"asked", "mute", "misread"} /\ (opening = "misread" => lostPage)
    /\ phase # "idle" => historyEnd # 0 /\ messages[1].role = "system"
    /\ phase # "idle" /\ opening = "asked" => HasQuestion(messages, historyEnd)
    /\ phase = "asked" => Fits(messages, density)

FrameVars == <<messages, observed, historyEnd, opening, lostPage>>

\* A step that leaves the prompt alone.
LEMMA FrameStays ==
    ASSUME Frame, UNCHANGED FrameVars, phase' # "idle" => phase # "idle",
           phase' = "asked" => Fits(messages, density')
    PROVE  Frame'
<1>1. UNCHANGED <<messages, observed, historyEnd, opening, lostPage>>
  BY DEF FrameVars
<1>2. /\ messages' \in Seq(Messages) /\ observed' \in Seq(Messages) /\ historyEnd' \in 0..Len(messages')
      /\ opening' \in {"asked", "mute", "misread"} /\ (opening' = "misread" => lostPage')
      /\ phase' # "idle" => historyEnd' # 0 /\ messages'[1].role = "system"
      /\ phase' # "idle" /\ opening' = "asked" => HasQuestion(messages', historyEnd')
      /\ phase' = "asked" => Fits(messages', density')
  BY <1>1 DEF Frame
<1> QED
  BY <1>2 DEF Frame

\* A step after which the first h messages are those that were there.
LEMMA FrameKept ==
    ASSUME Frame, phase # "idle", phase' # "asked", NEW new \in Seq(Messages), messages' = new,
           observed' \in Seq(Messages), UNCHANGED <<historyEnd, opening>>,
           lostPage' \in {lostPage, TRUE}, historyEnd <= Len(new),
           \A i \in 1..historyEnd : new[i].role = messages[i].role
    PROVE  Frame'
<1>1. Len(messages) \in Nat /\ Len(new) \in Nat /\ historyEnd \in 0..Len(messages) /\ historyEnd # 0
  BY PromptIs DEF Frame
<1>2. historyEnd \in 0..Len(new) /\ 1 \in 1..historyEnd /\ \A i \in 2..historyEnd : i \in 1..historyEnd
  BY <1>1
<1>3. new[1].role = "system"
  BY <1>2 DEF Frame
<1>4. opening = "asked" => HasQuestion(new, historyEnd)
  BY <1>2 DEF Frame, HasQuestion
<1> QED
  BY <1>1, <1>2, <1>3, <1>4 DEF Frame

\* Where a turn is, its prompt has a system prompt and its history ends inside it.
LEMMA FrameIs ==
    ASSUME Frame, phase # "idle"
    PROVE  /\ messages \in Seq(Messages) /\ observed \in Seq(Messages) /\ Len(messages) \in Nat
           /\ historyEnd \in 1..Len(messages) /\ historyEnd <= Len(messages)
<1>1. /\ messages \in Seq(Messages) /\ observed \in Seq(Messages)
      /\ historyEnd \in 0..Len(messages) /\ historyEnd # 0
  BY DEF Frame
<1>2. Len(messages) \in Nat
  BY <1>1, PromptIs
<1> QED
  BY <1>1, <1>2

LEMMA FinishFrame == ASSUME Finish PROVE Frame'
<1>1. <<>> \in Seq(Messages) /\ Len(<<>>) = 0
  BY EmptySeq
<1> QED
  BY <1>1 DEF Finish, Frame

LEMMA InitFrame == Init => Frame
<1>1. <<>> \in Seq(Messages) /\ Len(<<>>) = 0
  BY EmptySeq
<1> QED
  BY <1>1 DEF Init, Frame

LEMMA BeginFrame == ASSUME Scalars, Begin PROVE Frame'
<1>1. PICK start \in Seq(Messages) :
        Opening(start, Len(start)) /\ messages' = start /\ historyEnd' = Len(start)
  BY BeginIs
<1>2. Len(start) \in Nat /\ Len(start) # 0 /\ start[1].role = "system"
  BY <1>1, PromptIs DEF Opening
<1>3. <<>> \in Seq(Messages)
  BY EmptySeq
<1>4. phase' = "planning" /\ observed' = <<>>
  BY DEF Begin
<1>5. /\ opening' \in {"asked", "mute"}
      /\ opening' = "asked" => HasQuestion(start, Len(start))
  <2>1. opening' = IF HasQuestion(messages', historyEnd') THEN "asked" ELSE "mute"
    BY DEF Begin
  <2>2. opening' = IF HasQuestion(start, Len(start)) THEN "asked" ELSE "mute"
    BY <1>1, <2>1
  <2> QED
    BY <2>2
<1> QED
  BY <1>1, <1>2, <1>3, <1>4, <1>5 DEF Frame

\* The cuts before the model is asked, and those of the older results.
LEMMA CutFrame ==
    ASSUME Frame, Attempt \/ DropRound \/ HalvePage
    PROVE  Frame'
<1>1. /\ phase \in {"planning", "fitting"} /\ phase' = "fitting" /\ lostPage' \in {lostPage, TRUE}
      /\ UNCHANGED <<historyEnd, opening, observed>>
  BY DEF Attempt, DropRound, HalvePage, turnVars
<1>2. messages \in Seq(Messages) /\ Len(messages) \in Nat /\ historyEnd \in 1..Len(messages) /\ observed \in Seq(Messages)
  BY <1>1, FrameIs
<1>3. CASE Attempt
  <2> DEFINE tidy == CompactTask(messages, historyEnd)
             new == OlderToolText(tidy, historyEnd)
  <2>1. messages' = new
    BY <1>3 DEF Attempt
  <2>2. tidy \in Seq(Messages)
    BY <1>2, CompactCut
  <2>3. PICK k, d : Compacted(messages, historyEnd, tidy, k, d) /\ Placed(messages, historyEnd, tidy, k, d)
    BY <1>2, CompactCut
  <2> HIDE DEF tidy
  <2>4. new \in Seq(Messages) /\ Alike(tidy, new)
    BY <2>2, OlderAlike
  <2> HIDE DEF new
  <2>5. historyEnd <= Len(tidy) /\ Len(tidy) \in Nat
    <3>1. Len(tidy) \in Nat
      BY <2>2, PromptIs
    <3> QED
      BY <1>2, <2>3, <3>1 DEF Placed
  <2>6. historyEnd <= Len(new)
    BY <2>4, <2>5 DEF Alike
  <2>7. ASSUME NEW i \in 1..historyEnd PROVE new[i].role = messages[i].role
    <3>1. i \in 1..Len(tidy)
      BY <1>2, <2>5
    <3>2. tidy[i] = messages[i]
      BY <2>3 DEF Compacted
    <3> QED
      BY <2>4, <3>1, <3>2 DEF Alike, SameKind
  <2> QED
    BY <1>1, <1>2, <2>1, <2>4, <2>6, <2>7, FrameKept
<1>4. CASE DropRound
  <2> DEFINE new == DropOldestRound(messages, historyEnd)
  <2>1. messages' = new /\ Droppable(messages, historyEnd)
    BY <1>4 DEF DropRound
  <2>2. new \in Seq(Messages)
    BY <1>2, <2>1, DropCut
  <2>3. PICK a \in RoundStarts(messages, historyEnd), b \in RoundStarts(messages, historyEnd) :
          /\ a < b
          /\ Len(new) = (a - 1) + (Len(messages) - b + 1)
          /\ \A i \in 1..a - 1 : new[i] = messages[i]
    BY <1>2, <2>1, DropCut
  <2> HIDE DEF new
  <2>4. a \in historyEnd + 1..Len(messages) /\ b \in historyEnd + 1..Len(messages)
    BY DEF RoundStarts
  <2>5. historyEnd <= Len(new) /\ \A i \in 1..historyEnd : i \in 1..a - 1
    BY <1>2, <2>3, <2>4
  <2>6. \A i \in 1..historyEnd : new[i].role = messages[i].role
    BY <2>3, <2>5
  <2> QED
    BY <1>1, <1>2, <2>1, <2>2, <2>5, <2>6, FrameKept
<1>5. CASE HalvePage
  <2> DEFINE new == ShrinkLatest(messages, FALSE)
  <2>1. messages' = new /\ LatestPage(messages, 0) # 0
    BY <1>5 DEF HalvePage, Shrinkable
  <2>2. new \in Seq(Messages) /\ Alike(messages, new)
    BY <1>2, <2>1, ShrunkIs
  <2> HIDE DEF new
  <2>3. historyEnd <= Len(new) /\ \A i \in 1..historyEnd : new[i].role = messages[i].role
    BY <1>2, <2>2 DEF Alike, SameKind
  <2> QED
    BY <1>1, <1>2, <2>1, <2>2, <2>3, FrameKept
<1> QED
  BY <1>3, <1>4, <1>5

\* The hard compaction leaves the system prompt, and the question if there is one.
LEMMA HardFrame ==
    ASSUME Frame, opening = "asked" => Content, Prompted, phase' \in {"planning", "fitting"},
           CutHard, UNCHANGED observed
    PROVE  Frame'
<1> DEFINE new == CompactHard(HardKept(messages, historyEnd))
<1>1. /\ messages' = new /\ historyEnd' = Lesser(2, Len(new)) /\ lostPage' = TRUE
      /\ opening' = IF opening = "mute" /\ Len(new) > 1 THEN "misread" ELSE opening
  <2>1. /\ messages' = new /\ historyEnd' = Lesser(2, Len(messages')) /\ lostPage' = TRUE
        /\ opening' = IF opening = "mute" /\ Len(messages') > 1 THEN "misread" ELSE opening
    BY DEF CutHard
  <2> HIDE DEF new
  <2> QED
    BY <2>1
<1>2. phase # "idle"
  BY DEF Prompted
<1>3. messages \in Seq(Messages) /\ historyEnd \in 1..Len(messages) /\ observed \in Seq(Messages)
  BY <1>2, FrameIs
<1>4. new \in Seq(Messages) /\ new[1] = messages[1] /\ Lesser(2, Len(new)) \in 1..Len(new)
  BY <1>3, HardCut
<1>5. ASSUME opening = "asked" PROVE HasQuestion(new, Lesser(2, Len(new)))
  <2>1. HasQuestion(messages, historyEnd)
    BY <1>2, <1>5 DEF Frame
  <2>2. Lesser(2, Len(new)) = 2 /\ HasQuestion(new, 2)
    BY <1>5, <2>1, PromptedIs, HardKeeps
  <2> HIDE DEF new
  <2> QED
    BY <2>2
<1> HIDE DEF new
<1>6. messages[1].role = "system" /\ opening \in {"asked", "mute", "misread"}
  BY <1>2 DEF Frame
<1>7. opening' \in {"asked", "mute", "misread"} /\ (opening' = "asked" => opening = "asked")
  BY <1>1, <1>6
<1>8. Lesser(2, Len(new)) \in 0..Len(new) /\ Lesser(2, Len(new)) # 0
  <2>1. Len(new) \in Nat
    BY <1>4, PromptIs
  <2> QED
    BY <1>4, <2>1
<1> QED
  BY <1>1, <1>3, <1>4, <1>5, <1>6, <1>7, <1>8 DEF Frame

LEMMA ForgetHistoryFrame == ASSUME Frame, opening = "asked" => Content, ForgetHistory PROVE Frame'
<1>1. Prompted /\ phase' = "fitting" /\ UNCHANGED observed /\ CutHard
  BY DEF ForgetHistory, Prompted, turnVars
<1> QED
  BY <1>1, HardFrame

LEMMA RecoverFrame == ASSUME Frame, opening = "asked" => Content, Recover PROVE Frame'
<1>1. CASE Finish
  BY <1>1, FinishFrame
<1>2. CASE ~Finish
  <2>1. /\ Prompted /\ phase # "idle" /\ phase' = "planning" /\ lostPage' = TRUE /\ UNCHANGED observed
        /\ \/ CutHard
           \/ /\ LatestPage(messages, 0) # 0 /\ messages' = ShrinkLatest(messages, TRUE)
              /\ UNCHANGED <<historyEnd, opening>>
    BY <1>2, RecoverIs DEF Prompted
  <2>2. CASE CutHard
    BY <2>1, <2>2, HardFrame
  <2>3. CASE /\ LatestPage(messages, 0) # 0 /\ messages' = ShrinkLatest(messages, TRUE)
             /\ UNCHANGED <<historyEnd, opening>>
    <3> DEFINE new == ShrinkLatest(messages, TRUE)
    <3>1. messages \in Seq(Messages) /\ Len(messages) \in Nat /\ historyEnd \in 1..Len(messages) /\ observed \in Seq(Messages)
      BY <2>1, FrameIs
    <3>2. new \in Seq(Messages) /\ Fainter(messages, new) /\ messages' = new
      BY <2>3, <3>1, ShrunkIs
    <3> HIDE DEF new
    <3>3. historyEnd <= Len(new) /\ \A i \in 1..historyEnd : new[i].role = messages[i].role
      BY <3>1, <3>2 DEF Fainter, SameKind
    <3> QED
      BY <2>1, <2>3, <3>1, <3>2, <3>3, FrameKept
  <2> QED
    BY <2>1, <2>2, <2>3
<1> QED
  BY <1>1, <1>2

\* A message more at the end.
LEMMA AppendFrame ==
    ASSUME Frame, phase # "idle", phase' # "asked", NEW m \in Messages, messages' = Append(messages, m),
           observed' \in Seq(Messages), UNCHANGED <<historyEnd, opening, lostPage>>
    PROVE  Frame'
<1> DEFINE new == Append(messages, m)
<1>1. messages \in Seq(Messages) /\ Len(messages) \in Nat /\ historyEnd \in 1..Len(messages)
  BY FrameIs
<1>2. new \in Seq(Messages) /\ Len(new) = Len(messages) + 1 /\ \A i \in 1..Len(messages) : new[i] = messages[i]
  BY <1>1, AppendIs
<1>3. messages' = new
  OBVIOUS
<1> HIDE DEF new
<1>4. historyEnd <= Len(new) /\ \A i \in 1..historyEnd : new[i].role = messages[i].role
  BY <1>1, <1>2
<1> QED
  BY <1>2, <1>3, <1>4, FrameKept

LEMMA CallToolsFrame == ASSUME Scalars, Frame, CallTools PROVE Frame'
<1>1. PICK called \in script.replies : messages' = Append(messages, Round(Len(called)))
  BY DEF CallTools
<1>2. phase # "idle" /\ phase' = "acting" /\ UNCHANGED <<historyEnd, opening, lostPage, observed>>
  BY DEF CallTools
<1>3. called \in Seq(DOMAIN Tools)
  BY <1>1, ScriptIs
<1>4. Round(Len(called)) \in Messages
  BY <1>3, LenProperties, PiecesAre
<1>5. observed \in Seq(Messages)
  BY DEF Frame
<1> QED
  BY <1>1, <1>2, <1>4, <1>5, AppendFrame

\* A tool that ends.
LEMMA ToolFrame ==
    ASSUME Scalars, Frame, phase # "idle", calls # <<>>, Results(Head(calls)) \/ Errors(Head(calls)),
           phase' = "acting", UNCHANGED <<historyEnd, opening, lostPage>>
    PROVE  Frame'
<1> DEFINE t == Head(calls)
<1>1. t \in DOMAIN Tools /\ observed \in Seq(Messages)
  BY CallsAre DEF Frame
<1>2. CASE \E p \in Pages \cup {NoPage} : Shows(t, p)
  <2>1. PICK p \in Pages \cup {NoPage} : Shows(t, p)
    BY <1>2
  <2> DEFINE m == Observation(t, p)
  <2>2. m \in Messages
    BY <1>1, ObservationIs
  <2>3. messages' = Append(messages, Stub) /\ observed' = Append(observed, m)
    BY <2>1 DEF Shows
  <2> HIDE DEF m, t
  <2>4. observed' \in Seq(Messages) /\ Stub \in Messages
    BY <1>1, <2>2, <2>3, AppendIs, PiecesAre
  <2> QED
    BY <2>3, <2>4, AppendFrame
<1>3. CASE Says(t)
  <2> DEFINE m == Text("tool", Tools[t].size)
  <2>1. m \in Messages
    BY <1>1, ToolIs, PiecesAre
  <2>2. messages' = Append(messages, m) /\ observed' = observed
    BY <1>3 DEF Says
  <2> HIDE DEF m, t
  <2> QED
    BY <1>1, <2>1, <2>2, AppendFrame
<1> QED
  BY <1>1, <1>2, <1>3, ToolShows

LEMMA RoundDoneFrame == ASSUME Frame, RoundDone PROVE Frame'
<1>1. /\ phase # "idle" /\ phase' = "planning" /\ messages' = messages \o observed /\ observed' = <<>>
      /\ UNCHANGED <<historyEnd, opening, lostPage>>
  BY DEF RoundDone
<1> DEFINE new == messages \o observed
<1>2. messages \in Seq(Messages) /\ Len(messages) \in Nat /\ historyEnd \in 1..Len(messages) /\ observed \in Seq(Messages)
  BY <1>1, FrameIs
<1>3. /\ new \in Seq(Messages) /\ Len(new) = Len(messages) + Len(observed) /\ Len(observed) \in Nat
      /\ \A i \in 1..Len(messages) : new[i] = messages[i]
  BY <1>2, ConcatIs, PromptIs
<1>4. messages' = new /\ <<>> \in Seq(Messages)
  BY <1>1, EmptySeq
<1> HIDE DEF new
<1>5. historyEnd <= Len(new) /\ \A i \in 1..historyEnd : new[i].role = messages[i].role
  BY <1>2, <1>3
<1> QED
  BY <1>1, <1>3, <1>4, <1>5, FrameKept

\* The steps that leave the prompt alone.
LEMMA QuietFrame ==
    ASSUME Frame, \/ Send \/ ServerOverflow \/ Acquire \/ Press \/ PressFails \/ Cancel
                  \/ SetStored \/ SetCached \/ Wake \/ Burst \/ CheckPoint \/ MovePoint \/ UNCHANGED vars
    PROVE  Frame'
<1>1. CASE Send
  <2>1. UNCHANGED FrameVars /\ UNCHANGED density /\ phase # "idle" /\ (phase' = "asked" => Sendable)
    BY <1>1 DEF Send, promptVars, FrameVars
  <2>2. phase' = "asked" => Fits(messages, density')
    BY <2>1 DEF Sendable
  <2> QED
    BY <2>1, <2>2, FrameStays
<1>2. CASE ServerOverflow \/ Acquire \/ Press \/ PressFails
  <2>1. UNCHANGED FrameVars /\ phase # "idle" /\ phase' # "asked"
    BY <1>2 DEF ServerOverflow, Acquire, Press, PressFails, promptVars, FrameVars
  <2> QED
    BY <2>1, FrameStays
<1>3. CASE \/ Cancel \/ SetStored \/ SetCached \/ Wake \/ Burst \/ CheckPoint \/ MovePoint \/ UNCHANGED vars
  <2>1. UNCHANGED FrameVars /\ UNCHANGED <<phase, density, messages>>
    BY <1>3 DEF Cancel, SetStored, SetCached, Wake, Burst, CheckPoint, MovePoint, agent, promptVars, turnVars,
       FrameVars, vars
  <2>2. phase' = "asked" => Fits(messages, density')
    BY <2>1 DEF Frame
  <2> QED
    BY <2>1, <2>2, FrameStays
<1> QED
  BY <1>1, <1>2, <1>3

LEMMA AnswerFrame == ASSUME Frame, Answer PROVE Frame'
<1>1. CASE Finish
  BY <1>1, FinishFrame
<1>2. CASE ~Finish
  <2>1. phase = "asked" /\ phase' = "planning" /\ UNCHANGED FrameVars
    BY <1>2 DEF Answer, promptVars, FrameVars
  <2> QED
    BY <2>1, FrameStays
<1> QED
  BY <1>1, <1>2

\* The steps of a tool.
LEMMA ToolsFrame == ASSUME Scalars, Frame, RunTool \/ PauseFirst \/ ToolEnds PROVE Frame'
<1>1. phase # "idle" /\ calls # <<>> /\ UNCHANGED <<historyEnd, opening, lostPage>>
  BY DEF RunTool, PauseFirst, ToolEnds, Scalars, Holding
<1>2. \/ (Results(Head(calls)) \/ Errors(Head(calls))) /\ phase' = "acting"
      \/ UNCHANGED <<messages, observed>> /\ phase' \in {"waiting", "pressing"}
  <2>1. CASE RunTool
    BY <2>1, Zenon DEF RunTool
  <2>2. CASE PauseFirst
    BY <2>2 DEF PauseFirst, Return
  <2>3. CASE ToolEnds
    BY <2>3 DEF ToolEnds, Return
  <2> QED
    BY <2>1, <2>2, <2>3
<1>3. CASE (Results(Head(calls)) \/ Errors(Head(calls))) /\ phase' = "acting"
  BY <1>1, <1>3, ToolFrame
<1>4. CASE UNCHANGED <<messages, observed>> /\ phase' \in {"waiting", "pressing"}
  <2>1. UNCHANGED FrameVars
    BY <1>1, <1>4 DEF FrameVars
  <2> QED
    BY <1>1, <1>4, <2>1, FrameStays
<1> QED
  BY <1>2, <1>3, <1>4

LEMMA NextFrame == Scalars /\ Frame /\ (opening # "misread" => Content) /\ [Next]_vars => Frame'
<1> SUFFICES ASSUME Scalars, Frame, opening # "misread" => Content, [Next]_vars PROVE Frame'
  OBVIOUS
<1>1. opening = "asked" => Content
  OBVIOUS
<1>2. CASE LimitReached \/ RequestAborted \/ RequestFails
  <2>1. Finish
    BY <1>2 DEF LimitReached, RequestAborted, RequestFails
  <2> QED
    BY <2>1, FinishFrame
<1>3. CASE Attempt \/ DropRound \/ HalvePage
  BY <1>3, CutFrame
<1>4. CASE ForgetHistory \/ Recover
  BY <1>1, <1>4, ForgetHistoryFrame, RecoverFrame
<1>5. CASE RunTool \/ PauseFirst \/ ToolEnds \/ RoundDone \/ CallTools \/ Answer \/ Begin
  BY <1>5, ToolsFrame, RoundDoneFrame, CallToolsFrame, AnswerFrame, BeginFrame
<1> QED
  BY <1>2, <1>3, <1>4, <1>5, QuietFrame DEF Next, TurnNext

\* A misread turn stays one.
LEMMA MisreadStays ==
    ASSUME [Next]_vars, opening = "misread", opening' # "misread"
    PROVE  Finish \/ Begin
<1>1. CASE LimitReached \/ RequestAborted \/ RequestFails
  BY <1>1 DEF LimitReached, RequestAborted, RequestFails
<1>2. CASE Answer
  BY <1>2 DEF Answer, promptVars
<1>3. ~CutHard
  BY DEF CutHard
<1>4. CASE ForgetHistory \/ Recover
  <2>1. CASE ForgetHistory
    BY <1>3, <2>1 DEF ForgetHistory
  <2>2. CASE Recover
    BY <1>3, <2>2, RecoverIs
  <2> QED
    BY <1>4, <2>1, <2>2
<1>5. ~(Attempt \/ DropRound \/ HalvePage \/ Send \/ ServerOverflow \/ CallTools \/ RunTool \/ RoundDone)
  BY DEF Attempt, DropRound, HalvePage, Send, ServerOverflow, CallTools, RunTool, RoundDone, promptVars
<1>6. ~(Acquire \/ PauseFirst \/ Press \/ PressFails \/ ToolEnds \/ Cancel)
  BY DEF Acquire, PauseFirst, Press, PressFails, ToolEnds, Cancel, promptVars
<1>7. ~(SetStored \/ SetCached \/ Wake \/ Burst \/ CheckPoint \/ MovePoint \/ UNCHANGED vars)
  BY DEF SetStored, SetCached, Wake, Burst, CheckPoint, MovePoint, agent, promptVars, vars
<1> QED
  BY <1>1, <1>2, <1>4, <1>5, <1>6, <1>7 DEF Next, TurnNext

LEMMA NextContent ==
    Scalars /\ Frame /\ (opening # "misread" => Content) /\ [Next]_vars => (opening # "misread" => Content)'
<1> SUFFICES ASSUME Scalars, Frame, opening # "misread" => Content, [Next]_vars, opening' # "misread"
             PROVE  Content'
  OBVIOUS
<1>1. CASE opening = "misread"
  <2>1. Finish \/ Begin
    BY <1>1, MisreadStays
  <2> QED
    BY <2>1, FinishContent, BeginContent
<1>2. CASE opening # "misread"
  <2>1. Content /\ opening \in {"asked", "mute"}
    BY <1>2 DEF Frame
  <2>2. CASE UNCHANGED vars
    <3>1. UNCHANGED <<messages, historyEnd, observed, lastShown, lostPage, calls, phase, step>>
      BY <2>2 DEF vars, promptVars, turnVars
    <3>2. (Prompted' <=> Prompted) /\ (InRound' <=> InRound)
      BY <3>1 DEF Prompted, InRound
    <3> QED
      BY <2>1, <3>1, <3>2, ContentStays
  <2>3. CASE LimitReached \/ RequestAborted \/ RequestFails
    <3>1. Finish
      BY <2>3 DEF LimitReached, RequestAborted, RequestFails
    <3> QED
      BY <3>1, FinishContent
  <2>4. CASE Attempt \/ DropRound \/ HalvePage
    BY <2>1, <2>4, AttemptContent, DropRoundContent, HalvePageContent
  <2>5. CASE ForgetHistory \/ Recover
    <3>1. opening = "asked" => HasQuestion(messages, historyEnd)
      <4>1. phase # "idle"
        BY <2>5 DEF ForgetHistory, Recover
      <4> QED
        BY <4>1 DEF Frame
    <3> QED
      BY <2>1, <2>5, <3>1, ForgetHistoryContent, RecoverContent
  <2>6. CASE RunTool \/ RoundDone \/ PauseFirst \/ ToolEnds \/ CallTools
    BY <2>1, <2>6, RunToolContent, RoundDoneContent, HeldContent, CallToolsContent
  <2> QED
    BY <2>1, <2>2, <2>3, <2>4, <2>5, <2>6, QuietContent, AnswerContent, BeginContent DEF Next, TurnNext
<1> QED
  BY <1>1, <1>2

PromptInv == Scalars /\ Frame /\ (opening # "misread" => Content)

LEMMA PromptInvariant == Spec => []PromptInv
<1>1. Init => PromptInv
  BY ScalarsInit, ContentInit, InitFrame DEF PromptInv
<1>2. PromptInv /\ [Next]_vars => PromptInv'
  BY NextScalars, NextFrame, NextContent DEF PromptInv
<1> QED
  BY <1>1, <1>2, PTL DEF Spec

\* The prompt that goes to the model is whole, however many rounds the compaction,
\* the cut of the oldest round and the ladder of an overflow took out of it, and
\* whichever results were still to come when a turn was cancelled or reached its
\* limit: agent.go and budget.go work on positions, and a server refuses an orphan.
\* The turn may have started from any history, an empty one too; only where a hard
\* cut of a history without a question took a message of the task into it, and
\* compactAfterContextError counts that message as history, nothing is said.
THEOREM PromptsStayWhole == Spec => []PromptsAreWhole
<1>1. PromptInv => PromptsAreWhole
  <2> SUFFICES ASSUME Scalars, Frame, opening # "misread" => Content PROVE PromptsAreWhole
    BY DEF PromptInv
  <2>1. TypeOK
    <3>1. {enabled, wake, cancelled, retried, prose, lostPage} \subseteq BOOLEAN
      BY DEF Scalars, Bools
    <3> QED
      BY <3>1 DEF TypeOK, Scalars, Frame
  <2>2. CASE phase = "asked" /\ opening # "misread"
    <3>1. Prompted
      BY <2>2 DEF Prompted
    <3>2. /\ messages \in Seq(Messages) /\ Opening(messages, historyEnd) /\ Shape(messages)
          /\ Whole(messages, 0) /\ Pairs(messages, historyEnd)
      BY <2>2, <3>1, PromptedIs DEF Content
    <3>3. WholeRounds(messages, historyEnd)
      <4>1. Len(messages) \in Nat /\ DOMAIN messages = 1..Len(messages)
            /\ \A i \in 1..Len(messages) : messages[i].calls \in Nat
        BY <3>2, PromptIs
      <4>2. ASSUME NEW i \in DOMAIN messages, IsRound(messages[i])
            PROVE  /\ i + messages[i].calls <= Len(messages)
                   /\ \A j \in i + 1..i + messages[i].calls : messages[j].role = "tool"
        <5>1. /\ i + messages[i].calls <= Len(messages) + 0
              /\ \A j \in i + 1..i + messages[i].calls : j <= Len(messages) => messages[j].role = "tool"
          BY <3>2, <4>2 DEF Whole
        <5> QED
          BY <4>1, <5>1
      <4>3. \A i \in DOMAIN messages : messages[i].role = "tool" =>
              \E r \in 1..i - 1 : IsRound(messages[r]) /\ i <= r + messages[r].calls
        BY <3>2 DEF Whole
      <4> QED
        BY <4>2, <4>3 DEF WholeRounds
    <3>4. \A s \in DOMAIN messages : messages[s].what = "stub" =>
            \E o \in s + 1..Len(messages) : IsPaired(messages, historyEnd, s, o)
      BY <3>2, PairsGiveObservations
    <3> QED
      BY <2>1, <3>3, <3>4 DEF PromptsAreWhole
  <2>3. CASE ~(phase = "asked" /\ opening # "misread")
    BY <2>1, <2>3 DEF PromptsAreWhole
  <2> QED
    BY <2>2, <2>3
<1> QED
  BY <1>1, PromptInvariant, PTL

\* The model is told "page unchanged" only of a page its prompt still shows: the
\* retention of the newest rounds carries the page over (compactTaskMessages), and
\* nothing else takes it but a cut for space or after an overflow.
THEOREM PageStays == Spec => []PageIsKept
<1>1. PromptInv => PageIsKept
  BY DEF PromptInv, Frame, Content, PageIsKept, Backed, HasItsPage
<1> QED
  BY <1>1, PromptInvariant, PTL

\* What is sent fits the context with the reserve and the completion asked for
\* (prepareCompletion, maxTokens), whatever the turn started from; and if a question
\* was in the history it started from, one is in the prompt even after the history
\* was forgotten (compactAfterContextError).
THEOREM SentPromptsFit == Spec => []SentFits
<1>1. PromptInv => SentFits
  <2> SUFFICES ASSUME Scalars, Frame, phase = "asked" PROVE SentFits
    BY DEF SentFits, PromptInv
  <2>1. messages \in Seq(Messages) /\ density \in Nat /\ Fits(messages, density)
    BY DEF Frame, Scalars
  <2>2. Tokens(messages, density) + Margin + MaxTokens(Tokens(messages, density)) <= ContextTokens
    BY <2>1, FitsIs
  <2>3. messages[1].role = "system" /\ (opening = "asked" => HasQuestion(messages, historyEnd))
    BY DEF Frame
  <2> QED
    BY <2>2, <2>3 DEF SentFits
<1> QED
  BY <1>1, PromptInvariant, PTL
=============================================================================
