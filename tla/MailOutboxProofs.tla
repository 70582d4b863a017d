------------------------- MODULE MailOutboxProofs -------------------------
(***************************************************************************)
(* For any number of submissions and mishaps and any cap: the list in      *)
(* Valkey is the outbox whenever the last writing went well, and the       *)
(* outbox keeps the latest submissions, in order, until an error loses     *)
(* them; an entry that is marked as left or cleared never changes again,   *)
(* and its message is gone, except through the three gaps that             *)
(* FinishedIsGone names.                                                   *)
(***************************************************************************)
EXTENDS MailOutbox, SequenceTheorems, FiniteSetTheorems, TLAPS

-----------------------------------------------------------------------------
(* What the list commands do to the elements of a list.                    *)

\* LTRIM keeps a list of the same elements, no longer than its cap.
LEMMA KeepLastType ==
    ASSUME NEW S, NEW s \in Seq(S), NEW n \in Nat
    PROVE  KeepLast(s, n) \in Seq(S) /\ Len(KeepLast(s, n)) <= n
<1>1. CASE Len(s) <= n
  BY <1>1 DEF KeepLast
<1>2. CASE ~(Len(s) <= n)
  <2>1. /\ Len(s) \in Nat
        /\ Len(s) - n + 1 \in 1..(Len(s) + 1)
    BY <1>2, LenProperties
  <2>2. /\ SubSeq(s, Len(s) - n + 1, Len(s)) \in Seq(S)
        /\ Len(SubSeq(s, Len(s) - n + 1, Len(s))) <= n
    BY <2>1, SubSeqProperties, \A i \in 1..Len(s) : s[i] \in S
  <2>3. QED
    BY <1>2, <2>2 DEF KeepLast
<1>3. QED
  BY <1>1, <1>2

\* RPUSH adds one element and keeps the others.
LEMMA AppendRange ==
    ASSUME NEW S, NEW s \in Seq(S), NEW x \in S
    PROVE  /\ Append(s, x) \in Seq(S)
           /\ Range(Append(s, x)) = Range(s) \cup {x}
<1>1. /\ Append(s, x) \in Seq(S)
      /\ Len(Append(s, x)) = Len(s) + 1
      /\ \A i \in 1..Len(s) : Append(s, x)[i] = s[i]
      /\ Append(s, x)[Len(s) + 1] = x
  BY AppendProperties
<1>2. Range(Append(s, x)) = {Append(s, x)[i] : i \in 1..(Len(s) + 1)}
  BY <1>1, RangeEquality
<1>3. Range(s) = {s[i] : i \in 1..Len(s)}
  BY RangeEquality
<1>4. Len(s) \in Nat
  BY LenProperties
<1>5. QED
  BY <1>1, <1>2, <1>3, <1>4

\* The list t consists of elements that s has at distinct positions.
Selected(t, s) ==
    \E from \in [DOMAIN t -> DOMAIN s] :
        /\ \A i, k \in DOMAIN t : from[i] = from[k] => i = k
        /\ \A i \in DOMAIN t : t[i] = s[from[i]]

\* LTRIM selects, too.
LEMMA KeepLastSelected ==
    ASSUME NEW S, NEW s \in Seq(S), NEW n \in Nat
    PROVE  Selected(KeepLast(s, n), s)
<1>1. Len(s) \in Nat /\ DOMAIN s = 1..Len(s)
  BY LenProperties
<1>2. CASE Len(s) <= n
  <2>1. KeepLast(s, n) = s
    BY <1>2 DEF KeepLast
  <2> DEFINE from == [i \in DOMAIN s |-> i]
  <2>2. from \in [DOMAIN s -> DOMAIN s]
    OBVIOUS
  <2>3. (\A i, k \in DOMAIN s : from[i] = from[k] => i = k) /\ \A i \in DOMAIN s : s[i] = s[from[i]]
    OBVIOUS
  <2> HIDE DEF from
  <2>4. QED
    BY <2>1, <2>2, <2>3 DEF Selected
<1>3. CASE ~(Len(s) <= n)
  <2> DEFINE t == SubSeq(s, Len(s) - n + 1, Len(s))
             from == [i \in 1..n |-> i + (Len(s) - n)]
  <2>1. KeepLast(s, n) = t /\ Len(s) - n \in Nat
    BY <1>1, <1>3 DEF KeepLast
  <2>2. DOMAIN t = 1..n /\ \A i \in 1..n : t[i] = s[i + (Len(s) - n)]
    BY <1>1, <2>1
  <2>3. from \in [1..n -> 1..Len(s)] /\ \A i, k \in 1..n : from[i] = from[k] => i = k
    BY <1>1, <2>1
  <2>4. \A i \in 1..n : t[i] = s[from[i]]
    BY <2>2
  <2> HIDE DEF t, from
  <2>5. /\ from \in [DOMAIN t -> DOMAIN s]
        /\ \A i, k \in DOMAIN t : from[i] = from[k] => i = k
        /\ \A i \in DOMAIN t : t[i] = s[from[i]]
    BY <1>1, <2>2, <2>3, <2>4
  <2>6. Selected(t, s)
    BY <2>5 DEF Selected
  <2>7. QED
    BY <2>1, <2>6
<1>4. QED
  BY <1>2, <1>3

-----------------------------------------------------------------------------
(* What LTRIM keeps, element by element.                                   *)

Cut(s, n) == IF Len(s) <= n THEN 0 ELSE Len(s) - n

LEMMA KeepLastElements ==
    ASSUME NEW S, NEW s \in Seq(S), NEW n \in Nat
    PROVE  /\ Len(s) \in Nat /\ Cut(s, n) \in 0..Len(s)
           /\ KeepLast(s, n) \in Seq(S) /\ Len(KeepLast(s, n)) = Len(s) - Cut(s, n)
           /\ \A i \in 1..Len(s) - Cut(s, n) : KeepLast(s, n)[i] = s[Cut(s, n) + i]
<1>1. Len(s) \in Nat /\ \A i \in 1..Len(s) : s[i] \in S
  BY LenProperties, ElementOfSeq
<1>2. CASE Len(s) <= n
  BY <1>1, <1>2 DEF KeepLast, Cut
<1>3. CASE ~(Len(s) <= n)
  <2> DEFINE m == Len(s) - n + 1
  <2>1. m \in Int /\ Len(s) \in Int /\ m = Len(s) - n + 1 /\ \A i \in m..Len(s) : s[i] \in S
    BY <1>1, <1>3
  <2> HIDE DEF m
  <2>2. /\ SubSeq(s, m, Len(s)) \in Seq(S)
        /\ Len(SubSeq(s, m, Len(s))) = IF m <= Len(s) THEN Len(s) - m + 1 ELSE 0
        /\ \A i \in 1..Len(s) - m + 1 : SubSeq(s, m, Len(s))[i] = s[m + i - 1]
    BY <2>1, SubSeqProperties
  <2>3. Len(SubSeq(s, m, Len(s))) = n
    BY <1>1, <1>3, <2>1, <2>2
  <2>4. \A i \in 1..n : SubSeq(s, m, Len(s))[i] = s[Len(s) - n + i]
    <3>1. \A i \in 1..n : i \in 1..Len(s) - m + 1 /\ m + i - 1 = Len(s) - n + i
      BY <1>1, <2>1
    <3> QED
      BY <2>2, <3>1
  <2>5. Cut(s, n) = Len(s) - n /\ Len(s) - Cut(s, n) = n /\ Cut(s, n) \in 0..Len(s)
    BY <1>1, <1>3 DEF Cut
  <2>6. KeepLast(s, n) = SubSeq(s, m, Len(s))
    BY <1>3, <2>1 DEF KeepLast
  <2> QED
    BY <1>1, <2>2, <2>3, <2>4, <2>5, <2>6
<1> QED
  BY <1>2, <1>3

\* Trimming twice is trimming once.
LEMMA KeepLastTwice ==
    ASSUME NEW S, NEW s \in Seq(S), NEW n \in Nat
    PROVE  KeepLast(KeepLast(s, n), n) = KeepLast(s, n)
<1>1. Len(KeepLast(s, n)) <= n
  BY KeepLastType
<1> QED
  BY <1>1 DEF KeepLast

\* Trimming before one more is appended changes nothing of what is kept.
LEMMA KeepLastAppend ==
    ASSUME NEW S, NEW s \in Seq(S), NEW x \in S, NEW n \in Nat \ {0}
    PROVE  KeepLast(Append(KeepLast(s, n), x), n) = KeepLast(Append(s, x), n)
<1> DEFINE kept == KeepLast(s, n)
           left == Append(kept, x)
           right == Append(s, x)
           k == Cut(s, n)
<1>0. n \in Nat
  OBVIOUS
<1>1. /\ Len(s) \in Nat /\ k \in 0..Len(s) /\ kept \in Seq(S) /\ Len(kept) = Len(s) - k
      /\ \A i \in 1..Len(s) - k : kept[i] = s[k + i]
  BY <1>0, KeepLastElements
<1>2. k = IF Len(s) <= n THEN 0 ELSE Len(s) - n
  BY DEF Cut
<1> HIDE DEF kept, k
<1>3. /\ left \in Seq(S) /\ Len(left) = Len(s) - k + 1 /\ left[Len(s) - k + 1] = x
      /\ \A i \in 1..Len(s) - k : left[i] = kept[i]
  BY <1>1, AppendProperties
<1>4. /\ right \in Seq(S) /\ Len(right) = Len(s) + 1 /\ right[Len(s) + 1] = x
      /\ \A i \in 1..Len(s) : right[i] = s[i]
  BY AppendProperties
<1>5. \A i \in 1..Len(s) - k + 1 : left[i] = right[k + i]
  <2> SUFFICES ASSUME NEW i \in 1..Len(s) - k + 1 PROVE left[i] = right[k + i]
    OBVIOUS
  <2>1. CASE i = Len(s) - k + 1
    <3>1. k + i = Len(s) + 1
      BY <1>1, <2>1
    <3> QED
      BY <1>3, <1>4, <2>1, <3>1
  <2>2. CASE i # Len(s) - k + 1
    <3>1. i \in 1..Len(s) - k /\ k + i \in 1..Len(s)
      BY <1>1, <2>2
    <3> QED
      BY <1>1, <1>3, <1>4, <3>1
  <2> QED
    BY <2>1, <2>2
<1> HIDE DEF left, right
<1> DEFINE a == Cut(left, n)
           b == Cut(right, n)
<1>6. /\ a \in 0..Len(left) /\ KeepLast(left, n) \in Seq(S) /\ Len(KeepLast(left, n)) = Len(left) - a
      /\ \A i \in 1..Len(left) - a : KeepLast(left, n)[i] = left[a + i]
  <2>1. left \in Seq(S)
    BY <1>3
  <2> QED
    BY ONLY <1>0, <2>1, KeepLastElements
<1>7. /\ b \in 0..Len(right) /\ KeepLast(right, n) \in Seq(S) /\ Len(KeepLast(right, n)) = Len(right) - b
      /\ \A i \in 1..Len(right) - b : KeepLast(right, n)[i] = right[b + i]
  <2>1. right \in Seq(S)
    BY <1>4
  <2> QED
    BY ONLY <1>0, <2>1, KeepLastElements
<1>8. Len(left) - a = Len(right) - b /\ b = k + a /\ a \in Nat
  <2>1. /\ a = IF Len(s) - k + 1 <= n THEN 0 ELSE Len(s) - k + 1 - n
        /\ b = IF Len(s) + 1 <= n THEN 0 ELSE Len(s) + 1 - n
        /\ Len(s) \in Nat /\ k \in 0..Len(s) /\ Len(left) = Len(s) - k + 1 /\ Len(right) = Len(s) + 1
    BY <1>1, <1>3, <1>4 DEF Cut
  <2> HIDE DEF a, b
  <2>2. CASE Len(s) <= n
    <3>1. k = 0
      BY <1>2, <2>2
    <3> QED
      BY <1>0, <2>1, <2>2, <3>1
  <2>3. CASE ~(Len(s) <= n)
    <3>1. k = Len(s) - n
      BY <1>2, <2>3
    <3>2. Len(s) - k + 1 = n + 1
      BY <1>0, <2>1, <3>1
    <3>3. a = 1
      BY <1>0, <2>1, <3>2
    <3>4. b = Len(s) + 1 - n
      BY <1>0, <2>1, <2>3
    <3>5. Len(left) - a = n
      BY <1>0, <2>1, <3>2, <3>3
    <3>6. Len(right) - b = n
      BY <1>0, <2>1, <3>4
    <3>7. b = k + a
      BY <1>0, <2>1, <3>1, <3>3, <3>4
    <3> QED
      BY <3>3, <3>5, <3>6, <3>7
  <2> QED
    BY <2>2, <2>3
<1> HIDE DEF a, b
<1>9. \A i \in 1..Len(left) - a : KeepLast(left, n)[i] = KeepLast(right, n)[i]
  <2> SUFFICES ASSUME NEW i \in 1..Len(left) - a
               PROVE  KeepLast(left, n)[i] = KeepLast(right, n)[i]
    OBVIOUS
  <2>1. a + i \in 1..Len(s) - k + 1 /\ k + (a + i) = b + i
    BY <1>1, <1>3, <1>8
  <2> QED
    BY <1>5, <1>6, <1>7, <1>8, <2>1
<1> QED
  BY <1>6, <1>7, <1>8, <1>9, SeqEqual DEF left, right, kept

-----------------------------------------------------------------------------
(* The submissions of a list of entries.                                   *)

Requests(entries) == [i \in DOMAIN entries |-> entries[i].req]

\* Their number and their type.
LEMMA RequestsType ==
    ASSUME NEW s \in Seq(Entries)
    PROVE  /\ Requests(s) \in Seq(Sends) /\ Len(Requests(s)) = Len(s) /\ Len(s) \in Nat
           /\ \A i \in 1..Len(s) : Requests(s)[i] = s[i].req
<1>1. Len(s) \in Nat /\ DOMAIN s = 1..Len(s) /\ \A i \in 1..Len(s) : s[i] \in Entries
  BY LenProperties, ElementOfSeq
<1>2. \A i \in 1..Len(s) : s[i].req \in Sends
  BY <1>1 DEF Entries
<1>3. Requests(s) = [i \in 1..Len(s) |-> s[i].req]
  BY <1>1 DEF Requests
<1> QED
  BY <1>1, <1>2, <1>3

\* The newest entries are those of the newest submissions.
LEMMA RequestsKept ==
    ASSUME NEW s \in Seq(Entries), NEW n \in Nat
    PROVE  Requests(KeepLast(s, n)) = KeepLast(Requests(s), n)
<1> DEFINE r == Requests(s)
           k == Cut(s, n)
<1>1. r \in Seq(Sends) /\ Len(r) = Len(s) /\ Len(s) \in Nat /\ \A i \in 1..Len(s) : r[i] = s[i].req
  BY RequestsType
<1> HIDE DEF r
<1>2. Cut(r, n) = k
  BY <1>1 DEF Cut
<1>3. /\ k \in 0..Len(s) /\ KeepLast(s, n) \in Seq(Entries) /\ Len(KeepLast(s, n)) = Len(s) - k
      /\ \A i \in 1..Len(s) - k : KeepLast(s, n)[i] = s[k + i]
  BY KeepLastElements
<1>4. /\ KeepLast(r, n) \in Seq(Sends) /\ Len(KeepLast(r, n)) = Len(s) - k
      /\ \A i \in 1..Len(s) - k : KeepLast(r, n)[i] = r[k + i]
  BY <1>1, <1>2, KeepLastElements
<1> HIDE DEF k
<1>5. /\ Requests(KeepLast(s, n)) \in Seq(Sends) /\ Len(Requests(KeepLast(s, n))) = Len(s) - k
      /\ \A i \in 1..Len(s) - k : Requests(KeepLast(s, n))[i] = KeepLast(s, n)[i].req
  BY <1>3, RequestsType
<1>6. \A i \in 1..Len(s) - k : Requests(KeepLast(s, n))[i] = KeepLast(r, n)[i]
  <2>1. \A i \in 1..Len(s) - k : k + i \in 1..Len(s)
    BY <1>1, <1>3
  <2> QED
    BY <1>1, <1>3, <1>4, <1>5, <2>1
<1> QED
  BY <1>4, <1>5, <1>6, SeqEqual DEF r

\* A new entry adds its submission.
LEMMA RequestsAppend ==
    ASSUME NEW s \in Seq(Entries), NEW e \in Entries
    PROVE  Requests(Append(s, e)) = Append(Requests(s), e.req)
<1> DEFINE r == Requests(s)
           longer == Append(s, e)
<1>1. r \in Seq(Sends) /\ Len(r) = Len(s) /\ Len(s) \in Nat /\ \A i \in 1..Len(s) : r[i] = s[i].req
  BY RequestsType
<1>2. /\ longer \in Seq(Entries) /\ Len(longer) = Len(s) + 1 /\ longer[Len(s) + 1] = e
      /\ \A i \in 1..Len(s) : longer[i] = s[i]
  BY AppendProperties
<1> HIDE DEF r, longer
<1>3. /\ Requests(longer) \in Seq(Sends) /\ Len(Requests(longer)) = Len(s) + 1
      /\ \A i \in 1..Len(s) + 1 : Requests(longer)[i] = longer[i].req
  BY <1>2, RequestsType
<1>4. e.req \in Sends
  BY DEF Entries
<1>5. /\ Append(r, e.req) \in Seq(Sends) /\ Len(Append(r, e.req)) = Len(s) + 1
      /\ Append(r, e.req)[Len(s) + 1] = e.req
      /\ \A i \in 1..Len(s) : Append(r, e.req)[i] = r[i]
  BY <1>1, <1>4, AppendProperties
<1>6. \A i \in 1..Len(s) + 1 : Requests(longer)[i] = Append(r, e.req)[i]
  <2>1. \A i \in 1..Len(s) + 1 : i = Len(s) + 1 \/ i \in 1..Len(s)
    BY <1>1
  <2>2. Len(s) + 1 \in 1..Len(s) + 1 /\ \A i \in 1..Len(s) : i \in 1..Len(s) + 1
    BY <1>1
  <2> QED
    BY <1>1, <1>2, <1>3, <1>5, <2>1, <2>2
<1> QED
  BY <1>3, <1>5, <1>6, SeqEqual DEF r, longer

-----------------------------------------------------------------------------
(* The inductive invariant.                                                *)

Steps == {"idle", "submit", "record", "done"}
SendSteps == [pc : Steps, before : SUBSET Sends]
ValuesInv ==
    /\ spool \subseteq Sends /\ bounced \subseteq Sends
    /\ raced \subseteq Sends /\ shared \subseteq Sends /\ spared \subseteq Sends
    /\ send \in [Sends -> SendSteps]
    /\ refresh \in [pc : {"idle", "apply"}, seen : SUBSET Sends, errors : SUBSET Sends]
    /\ clear \in [pc : {"idle", "remove"}, left : SUBSET Sends]

\* A process that is down holds nothing.
LifeInv ==
    /\ up \in BOOLEAN /\ behind \in BOOLEAN /\ lost \in BOOLEAN
    /\ mu \in {"free", "push"}
    /\ ~up => /\ mu = "free" /\ refresh = NoRefresh /\ clear = NoClear /\ outbox = <<>>
              /\ \A r \in Sends : send[r].pc \in {"idle", "done"}

\* Between DEL and RPUSH the list is empty unless the DEL failed; else it is
\* the outbox unless one of them failed; while the process is down, it is what
\* the outbox was unless that was lost.
ListsInv ==
    /\ outbox \in Seq(Entries) /\ store \in Seq(Entries) /\ recorded \in Seq(Sends)
    /\ mu = "push" => Len(outbox) <= Cap /\ (~behind => store = <<>>)
    /\ up /\ mu = "free" /\ ~behind => store = outbox
    /\ up /\ ~lost => Requests(outbox) = KeepLast(recorded, Cap)
    /\ ~up /\ ~lost => Requests(store) = KeepLast(recorded, Cap)

Inv == ValuesInv /\ LifeInv /\ ListsInv

listVars == <<outbox, store, mu, up, recorded, behind, lost>>

LEMMA CapIsNat == Cap \in Nat /\ Cap \in Nat \ {0}
BY BoundsAssumption DEF BoundsAssumption

\* A step that writes no list keeps what the invariant says of them.
LEMMA ListsStand == ASSUME ListsInv, UNCHANGED listVars PROVE ListsInv'
BY DEF ListsInv, listVars

\* DEL begins to write a new outbox of the latest submissions.
LEMMA PersistStep ==
    ASSUME ListsInv, LifeInv, up, UNCHANGED <<up, lost>>,
           NEW entries \in Seq(Entries), NEW o, Persist(entries, o),
           recorded' \in Seq(Sends),
           ~lost => KeepLast(Requests(entries), Cap) = KeepLast(recorded', Cap)
    PROVE  /\ ListsInv'
           /\ mu' = "push" /\ behind' \in BOOLEAN
<1>1. /\ outbox' = KeepLast(entries, Cap) /\ mu' = "push"
      /\ store' = (IF Applied(o) THEN <<>> ELSE store) /\ behind' = ~Applied(o)
  BY DEF Persist, Trim, Deleted
<1>2. outbox' \in Seq(Entries) /\ Len(outbox') <= Cap
  BY <1>1, CapIsNat, KeepLastType
<1>3. Requests(outbox') = KeepLast(Requests(entries), Cap)
  BY <1>1, CapIsNat, RequestsKept
<1>4. store' \in Seq(Entries) /\ (~behind' => store' = <<>>) /\ behind' \in BOOLEAN
  <2>1. CASE o = "lost command"
    <3>1. store' = store /\ behind' = TRUE
      BY <1>1, <2>1 DEF Applied
    <3> QED
      BY <3>1 DEF ListsInv
  <2>2. CASE o # "lost command"
    <3>1. store' = <<>> /\ behind' = FALSE
      BY <1>1, <2>2 DEF Applied
    <3> QED
      BY <3>1, EmptySeq
  <2> QED
    BY <2>1, <2>2
<1> QED
  BY <1>1, <1>2, <1>3, <1>4 DEF ListsInv

\* A refresh or a clear changes the status of entries and nothing else.
LEMMA ChangeStep ==
    ASSUME ListsInv, LifeInv, up, mu = "free", UNCHANGED <<up, lost, recorded>>,
           NEW changed \in Seq(Entries), Requests(changed) = Requests(outbox),
           NEW o, ChangeTo(changed, o)
    PROVE  /\ ListsInv'
           /\ mu' \in {"free", "push"} /\ behind' \in BOOLEAN
<1>1. CASE changed = outbox
  <2>1. UNCHANGED <<outbox, store, behind, mu>>
    BY <1>1 DEF ChangeTo
  <2> QED
    BY <2>1 DEF ListsInv, LifeInv
<1>2. CASE changed # outbox
  <2>1. Persist(changed, o)
    BY <1>2 DEF ChangeTo
  <2>2. ~lost => KeepLast(Requests(changed), Cap) = KeepLast(recorded', Cap)
    <3>1. ~lost => Requests(outbox) = KeepLast(recorded, Cap)
      BY DEF ListsInv
    <3>2. KeepLast(KeepLast(recorded, Cap), Cap) = KeepLast(recorded, Cap)
      BY CapIsNat, KeepLastTwice DEF ListsInv
    <3> QED
      BY <3>1, <3>2
  <2>3. recorded' \in Seq(Sends)
    BY DEF ListsInv
  <2> QED
    BY <2>1, <2>2, <2>3, PersistStep
<1> QED
  BY <1>1, <1>2

LEMMA RefreshedEntries ==
    ASSUME NEW s \in Seq(Entries)
    PROVE  /\ [i \in DOMAIN s |-> Refreshed(s[i])] \in Seq(Entries)
           /\ Requests([i \in DOMAIN s |-> Refreshed(s[i])]) = Requests(s)
<1>1. Len(s) \in Nat /\ DOMAIN s = 1..Len(s) /\ \A i \in 1..Len(s) : s[i] \in Entries
  BY LenProperties, ElementOfSeq
<1>2. \A e \in Entries : Refreshed(e) \in Entries /\ Refreshed(e).req = e.req
  BY DEF Refreshed, Entries, Open
<1>3. \A i \in 1..Len(s) : Refreshed(s[i]) \in Entries /\ Refreshed(s[i]).req = s[i].req
  BY <1>1, <1>2
<1> QED
  BY <1>1, <1>3 DEF Requests

LEMMA ClearedEntries ==
    ASSUME NEW s \in Seq(Entries)
    PROVE  /\ [i \in DOMAIN s |-> Cleared(s[i])] \in Seq(Entries)
           /\ Requests([i \in DOMAIN s |-> Cleared(s[i])]) = Requests(s)
<1>1. Len(s) \in Nat /\ DOMAIN s = 1..Len(s) /\ \A i \in 1..Len(s) : s[i] \in Entries
  BY LenProperties, ElementOfSeq
<1>2. \A e \in Entries : Cleared(e) \in Entries /\ Cleared(e).req = e.req
  BY DEF Cleared, Entries, Open
<1>3. \A i \in 1..Len(s) : Cleared(s[i]) \in Entries /\ Cleared(s[i]).req = s[i].req
  BY <1>1, <1>2
<1> QED
  BY <1>1, <1>3 DEF Requests

-----------------------------------------------------------------------------
(* The steps.                                                              *)

\* A submission's entry is the newest one.
LEMMA RecordStep ==
    ASSUME Inv, NEW r \in Sends, Record(r)
    PROVE  Inv'
<1> USE DEF Inv
<1>1. PICK o \in Outcome, ok \in BOOLEAN, id \in Sends \cup {NoId} :
         /\ send[r].pc = "record" /\ mu = "free"
         /\ Persist(Append(outbox, [req |-> r, id |-> id, status |-> "queued"]), o)
         /\ send' = [send EXCEPT ![r] = Gone]
         /\ recorded' = Append(recorded, r)
         /\ raced' = raced \cup {q \in {r, id} : Missed(q)}
         /\ spared' = IF ok THEN spared ELSE spared \cup {r}
         /\ UNCHANGED <<queues, refresh, clear, up, shared, lost>>
  BY DEF Record
<1> DEFINE e == [req |-> r, id |-> id, status |-> "queued"]
           entries == Append(outbox, e)
<1>2. up
  BY <1>1 DEF LifeInv
<1>3. e \in Entries /\ e.req = r
  BY DEF Entries, Open
<1> HIDE DEF e
<1>4. entries \in Seq(Entries) /\ recorded' \in Seq(Sends) /\ recorded \in Seq(Sends)
  BY <1>1, <1>3, AppendProperties DEF ListsInv
<1>5. ~lost => KeepLast(Requests(entries), Cap) = KeepLast(recorded', Cap)
  <2> SUFFICES ASSUME ~lost PROVE KeepLast(Requests(entries), Cap) = KeepLast(recorded', Cap)
    OBVIOUS
  <2>1. Requests(entries) = Append(KeepLast(recorded, Cap), r)
    BY <1>2, <1>3, RequestsAppend DEF ListsInv
  <2>2. KeepLast(Append(KeepLast(recorded, Cap), r), Cap) = KeepLast(Append(recorded, r), Cap)
    BY <1>4, CapIsNat, KeepLastAppend
  <2> QED
    BY <1>1, <2>1, <2>2
<1>6. Persist(entries, o)
  BY <1>1 DEF e
<1> HIDE DEF entries
<1>7. ListsInv' /\ mu' = "push" /\ behind' \in BOOLEAN
  BY <1>1, <1>2, <1>4, <1>5, <1>6, PersistStep
<1>8. ValuesInv'
  <2>1. raced' \subseteq Sends /\ spared' \subseteq Sends
    BY <1>1 DEF ValuesInv, Missed
  <2> QED
    BY <1>1, <2>1 DEF ValuesInv, SendSteps, Steps, Gone, queues
<1>9. LifeInv'
  BY <1>1, <1>2, <1>7 DEF LifeInv
<1> QED
  BY <1>7, <1>8, <1>9

\* RPUSH completes what DEL began.
LEMMA PushStep ==
    ASSUME Inv, Push
    PROVE  Inv'
<1> USE DEF Inv
<1>1. PICK o \in Outcome :
         /\ mu = "push" /\ mu' = "free"
         /\ store' = (IF Applied(o) THEN store \o outbox ELSE store)
         /\ behind' = (behind \/ ~Applied(o))
         /\ UNCHANGED <<queues, send, refresh, clear, outbox, up, recorded, raced, shared, lost, spared>>
  BY DEF Push
<1>2. up
  BY <1>1 DEF LifeInv
<1>3. store' \in Seq(Entries) /\ behind' \in BOOLEAN /\ (~behind' => store' = outbox)
  <2>1. CASE o = "lost command"
    <3>1. store' = store /\ behind' = TRUE
      BY <1>1, <2>1 DEF Applied, LifeInv
    <3> QED
      BY <3>1 DEF ListsInv
  <2>2. CASE o # "lost command"
    <3>1. store' = store \o outbox /\ behind' = behind
      BY <1>1, <2>2 DEF Applied, LifeInv
    <3>2. store' \in Seq(Entries)
      BY <3>1, ConcatProperties DEF ListsInv
    <3>3. ~behind => store \o outbox = outbox
      BY <1>1, ConcatEmptySeq DEF ListsInv
    <3> QED
      BY <3>1, <3>2, <3>3 DEF LifeInv
  <2> QED
    BY <2>1, <2>2
<1>4. ListsInv'
  BY <1>1, <1>2, <1>3 DEF ListsInv
<1>5. LifeInv'
  BY <1>1, <1>2, <1>3 DEF LifeInv
<1>6. ValuesInv'
  BY <1>1 DEF ValuesInv, queues
<1> QED
  BY <1>4, <1>5, <1>6

\* A refresh and a clear take the mutex to change entries.
LEMMA ApplyRefreshStep ==
    ASSUME Inv, ApplyRefresh
    PROVE  Inv'
<1> USE DEF Inv
<1> DEFINE changed == [i \in DOMAIN outbox |-> Refreshed(outbox[i])]
<1>1. PICK o \in Outcome :
         /\ refresh.pc = "apply" /\ mu = "free" /\ refresh' = NoRefresh /\ ChangeTo(changed, o)
         /\ UNCHANGED <<queues, send, clear, up, recorded, raced, shared, lost, spared>>
  BY DEF ApplyRefresh
<1>2. up
  BY <1>1 DEF LifeInv, NoRefresh
<1>3. changed \in Seq(Entries) /\ Requests(changed) = Requests(outbox)
  BY RefreshedEntries DEF ListsInv
<1> HIDE DEF changed
<1>4. ListsInv' /\ mu' \in {"free", "push"} /\ behind' \in BOOLEAN
  BY <1>1, <1>2, <1>3, ChangeStep
<1>5. LifeInv'
  BY <1>1, <1>2, <1>4 DEF LifeInv
<1>6. ValuesInv'
  BY <1>1 DEF ValuesInv, queues, NoRefresh
<1> QED
  BY <1>4, <1>5, <1>6

LEMMA MarkClearedStep ==
    ASSUME Inv, MarkCleared
    PROVE  Inv'
<1> USE DEF Inv
<1> DEFINE changed == [i \in DOMAIN outbox |-> Cleared(outbox[i])]
<1>1. PICK o \in Outcome :
         /\ clear.pc = "remove" /\ mu = "free" /\ clear' = NoClear /\ ChangeTo(changed, o)
         /\ UNCHANGED <<queues, send, refresh, up, recorded, raced, shared, lost, spared>>
  BY DEF MarkCleared
<1>2. up
  BY <1>1 DEF LifeInv, NoClear
<1>3. changed \in Seq(Entries) /\ Requests(changed) = Requests(outbox)
  BY ClearedEntries DEF ListsInv
<1> HIDE DEF changed
<1>4. ListsInv' /\ mu' \in {"free", "push"} /\ behind' \in BOOLEAN
  BY <1>1, <1>2, <1>3, ChangeStep
<1>5. LifeInv'
  BY <1>1, <1>2, <1>4 DEF LifeInv
<1>6. ValuesInv'
  BY <1>1 DEF ValuesInv, queues, NoClear
<1> QED
  BY <1>4, <1>5, <1>6

\* Reading the spool, handing a message over, removing files, and what dma does
\* touch no list.
LEMMA SpoolStep ==
    ASSUME Inv,
           \/ \E r \in Sends : Before(r) \/ Submit(r)
           \/ ReadSpool \/ ListFiles \/ \E q \in Sends : RemoveFile(q) \/ Leave(q) \/ Bounce(q)
    PROVE  Inv'
<1> USE DEF Inv
<1>1. ASSUME NEW r \in Sends, Before(r) PROVE Inv'
  <2>1. up /\ UNCHANGED listVars /\ UNCHANGED <<refresh, clear>>
    BY <1>1 DEF Before, listVars
  <2>2. send' \in [Sends -> SendSteps] /\ spared' \subseteq Sends /\ shared' \subseteq Sends
    BY <1>1 DEF Before, ValuesInv, SendSteps, Steps
  <2>3. ValuesInv'
    BY <1>1, <2>1, <2>2 DEF Before, ValuesInv, queues
  <2> QED
    BY <2>1, <2>3, ListsStand DEF LifeInv, listVars
<1>2. ASSUME NEW r \in Sends, Submit(r) PROVE Inv'
  <2>1. UNCHANGED listVars /\ UNCHANGED <<refresh, clear>> /\ send[r].pc = "submit"
    BY <1>2 DEF Submit, listVars, histories
  <2>2. up
    BY <2>1 DEF LifeInv
  <2>3. send' \in [Sends -> SendSteps]
    BY <1>2 DEF Submit, ValuesInv, SendSteps, Steps, Gone
  <2>4. spool' \subseteq Sends /\ UNCHANGED <<bounced, raced, shared, spared>>
    BY <1>2 DEF Submit, ValuesInv, histories
  <2>5. ValuesInv'
    BY <2>1, <2>3, <2>4 DEF ValuesInv
  <2> QED
    BY <2>1, <2>2, <2>5, ListsStand DEF LifeInv, listVars
<1>3. CASE ReadSpool
  <2>1. up /\ UNCHANGED listVars
    BY <1>3 DEF ReadSpool, listVars, histories
  <2>2. ValuesInv'
    BY <1>3 DEF ReadSpool, ValuesInv, queues, histories
  <2> QED
    BY <2>1, <2>2, ListsStand DEF LifeInv, listVars
<1>4. CASE ListFiles
  <2>1. up /\ UNCHANGED listVars
    BY <1>4 DEF ListFiles, listVars
  <2>2. ValuesInv'
    BY <1>4 DEF ListFiles, ValuesInv, queues
  <2> QED
    BY <2>1, <2>2, ListsStand DEF LifeInv, listVars
<1>5. ASSUME NEW q \in Sends, RemoveFile(q) PROVE Inv'
  <2>1. UNCHANGED listVars /\ UNCHANGED <<send, refresh>> /\ q \in clear.left
    BY <1>5 DEF RemoveFile, listVars
  <2>2. up
    BY <2>1 DEF LifeInv, NoClear
  <2>3. ValuesInv'
    BY <1>5 DEF RemoveFile, ValuesInv
  <2> QED
    BY <2>1, <2>2, <2>3, ListsStand DEF LifeInv, listVars
<1>6. ASSUME NEW q \in Sends, Leave(q) \/ Bounce(q) PROVE Inv'
  <2>1. UNCHANGED listVars /\ UNCHANGED <<send, refresh, clear>>
    BY <1>6 DEF Leave, Bounce, listVars, histories
  <2>2. ValuesInv'
    BY <1>6 DEF Leave, Bounce, ValuesInv, histories
  <2> QED
    BY <2>1, <2>2, ListsStand DEF LifeInv, listVars
<1> QED
  BY <1>1, <1>2, <1>3, <1>4, <1>5, <1>6

\* The process dies and comes back with what the list has.
LEMMA CrashStep ==
    ASSUME Inv, Crash
    PROVE  Inv'
<1> USE DEF Inv
<1>1. /\ up /\ up' = FALSE /\ outbox' = <<>> /\ mu' = "free"
      /\ refresh' = NoRefresh /\ clear' = NoClear
      /\ send' = [r \in Sends |-> IF send[r] = Waiting THEN Waiting ELSE Gone]
      /\ UNCHANGED <<store, recorded, behind, spool, bounced, raced, shared, spared>>
  BY DEF Crash, queues
<1>2. lost' = (lost \/ behind \/ mu = "push")
  BY DEF Crash
<1>3. lost' \in BOOLEAN /\ (~lost' => ~lost /\ ~behind /\ mu = "free")
  BY <1>2 DEF LifeInv
<1>4. ~lost' => Requests(store') = KeepLast(recorded', Cap)
  BY <1>1, <1>3 DEF ListsInv
<1>5. ListsInv'
  BY <1>1, <1>4, EmptySeq DEF ListsInv
<1>6. LifeInv'
  BY <1>1, <1>3 DEF LifeInv, Waiting, Gone
<1>7. ValuesInv'
  BY <1>1 DEF ValuesInv, SendSteps, Steps, Waiting, Gone, NoRefresh, NoClear
<1> QED
  BY <1>5, <1>6, <1>7

LEMMA BootStep ==
    ASSUME Inv, Boot
    PROVE  Inv'
<1> USE DEF Inv
<1>1. PICK o \in Outcome :
         /\ ~up /\ up' = TRUE
         /\ outbox' = (IF Replied(o) THEN store ELSE <<>>)
         /\ behind' = ~Replied(o)
         /\ lost' = (lost \/ ~Replied(o))
         /\ UNCHANGED <<queues, send, refresh, clear, store, mu, recorded, raced, shared, spared>>
  BY DEF Boot
<1>2. mu' = "free"
  BY <1>1 DEF LifeInv
<1>3. CASE o = "ok"
  <2>1. outbox' = store /\ behind' = FALSE /\ lost' = lost
    BY <1>1, <1>3 DEF Replied, LifeInv
  <2>2. ListsInv' /\ LifeInv'
    BY <1>1, <1>2, <2>1 DEF ListsInv, LifeInv
  <2> QED
    BY <1>1, <2>2 DEF ValuesInv, queues
<1>4. CASE o # "ok"
  <2>1. outbox' = <<>> /\ behind' = TRUE /\ lost' = TRUE
    BY <1>1, <1>4 DEF Replied, LifeInv
  <2>2. ListsInv' /\ LifeInv'
    BY <1>1, <1>2, <2>1, EmptySeq DEF ListsInv, LifeInv
  <2> QED
    BY <1>1, <2>2 DEF ValuesInv, queues
<1> QED
  BY <1>3, <1>4

-----------------------------------------------------------------------------
(* The theorem.                                                            *)

LEMMA InvAlways == Spec => []Inv
<1>1. Init => Inv
  <2> SUFFICES ASSUME Init PROVE Inv
    OBVIOUS
  <2>1. ValuesInv
    BY DEF Init, ValuesInv, SendSteps, Steps, Waiting, NoRefresh, NoClear
  <2>2. LifeInv
    BY DEF Init, LifeInv, Waiting
  <2>3. Requests(<<>>) = KeepLast(<<>>, Cap)
    BY CapIsNat, EmptySeq DEF Requests, KeepLast
  <2>4. ListsInv
    BY <2>3, EmptySeq DEF Init, ListsInv
  <2> QED
    BY <2>1, <2>2, <2>4 DEF Inv
<1>2. Inv /\ [Next]_vars => Inv'
  <2> SUFFICES ASSUME Inv, [Next]_vars PROVE Inv'
    OBVIOUS
  <2>1. CASE UNCHANGED vars
    BY <2>1 DEF Inv, ValuesInv, LifeInv, ListsInv, vars, queues, histories
  <2>2. CASE Next
    BY <2>2, RecordStep, PushStep, ApplyRefreshStep, MarkClearedStep, SpoolStep, CrashStep, BootStep
       DEF Next, Sending, Refreshing, Clearing, Dma
  <2> QED
    BY <2>1, <2>2
<1> QED
  BY <1>1, <1>2, PTL DEF Spec

\* Whenever nobody writes and the last writing did not fail, the Valkey list is
\* the outbox, and unless an error or a crash between DEL and RPUSH lost
\* entries, it has the latest submissions in their order (StoreIsOutbox,
\* mail/service.go persistOutboxLocked and loadOutbox).
THEOREM OutboxIsKept == Spec => []StoreIsOutbox
<1>1. Inv => StoreIsOutbox
  <2> SUFFICES ASSUME Inv PROVE StoreIsOutbox
    OBVIOUS
  <2> USE DEF Inv
  <2>1. Len(outbox) > Cap => lost
    <3> SUFFICES ASSUME ~lost PROVE ~(Len(outbox) > Cap)
      BY DEF LifeInv
    <3>1. CASE up
      <4>1. Len(Requests(outbox)) = Len(outbox) /\ Len(outbox) \in Nat
        BY RequestsType DEF ListsInv
      <4>2. Len(KeepLast(recorded, Cap)) <= Cap
        BY CapIsNat, KeepLastType DEF ListsInv
      <4>3. Requests(outbox) = KeepLast(recorded, Cap)
        BY <3>1 DEF ListsInv
      <4> QED
        BY <4>1, <4>2, <4>3, CapIsNat
    <3>2. CASE ~up
      <4>1. Len(outbox) = 0
        BY <3>2, EmptySeq DEF LifeInv
      <4> QED
        BY <4>1, CapIsNat
    <3> QED
      BY <3>1, <3>2
  <2>2. /\ \A i \in DOMAIN outbox : outbox[i] \in Entries
        /\ \A i \in DOMAIN store : store[i] \in Entries
    BY LenProperties, ElementOfSeq DEF ListsInv
  <2>3. {spool, bounced, raced, shared, spared} \subseteq SUBSET Sends
    BY DEF ValuesInv
  <2>4. \A r \in Sends : send[r].pc \in {"idle", "submit", "record", "done"} /\ send[r].before \subseteq Sends
    BY DEF ValuesInv, SendSteps, Steps
  <2>5. refresh.pc \in {"idle", "apply"} /\ clear.pc \in {"idle", "remove"}
    BY DEF ValuesInv
  <2>6. mu = "push" => up /\ Len(outbox) <= Cap
    BY DEF LifeInv, ListsInv
  <2>7. refresh # NoRefresh \/ clear # NoClear => up
    BY DEF LifeInv
  <2>8. TypeOK
    BY <2>1, <2>2, <2>3, <2>4, <2>5, <2>6, <2>7 DEF TypeOK
  <2> QED
    BY <2>8 DEF StoreIsOutbox, ListsInv, Requests
<1> QED
  BY <1>1, InvAlways, PTL

-----------------------------------------------------------------------------
(* Left and cleared are final.                                             *)

\* What is true of an entry, whichever copy of the outbox has it: when it is
\* finished the message with its id is gone; its id is its own unless
\* submissions overlapped or a reading failed, and missing only when its own
\* message is gone; its submission has ended.
Sound(e) ==
    /\ e.status \notin Open => e.id \notin spool \ (raced \cup spared)
    /\ e.req \notin shared /\ e.id \notin spared => e.id \in {e.req, NoId}
    /\ e.req \notin shared \cup spared => e.id \in {e.req, NoId} /\ (e.id = NoId => e.req \notin spool)
    /\ e.id \in Sends => send[e.id].pc \in {"record", "done"}
    /\ send[e.req].pc = "done"
EntriesInv == \A e \in Range(outbox) \cup Range(store) : Sound(e)

\* What a submission finds new is its own message, another's that overlaps it,
\* or was there when the reading before it failed.
InProgress == {r \in Sends : send[r].pc \in {"submit", "record"}}
SendsInv ==
    /\ \A q \in spool : send[q].pc \in {"record", "done"}
    /\ \A q, r \in InProgress : q # r => r \in shared
    /\ \A r \in InProgress : r \notin send[r].before
    /\ \A r \in InProgress, q \in spool :
          q # r /\ q \notin send[r].before => (q \in spared /\ r \in spared) \/ r \in shared

\* A message of the outbox that a reading of the spool has missed came after it.
Covered(q) ==
    q \in spool =>
        /\ refresh.pc = "apply" => q \in refresh.seen \cup raced
        /\ clear.pc = "remove" => q \in clear.left \cup raced \cup spared
ReadersInv == \A e \in Range(outbox) : Covered(e.id)

\* A submission is recorded once.
OnceInv == IsInjective(recorded) /\ \A r \in Range(recorded) : send[r].pc = "done"

FinalInv == EntriesInv /\ SendsInv /\ ReadersInv /\ OnceInv

\* No step takes back what an entry is excused by, and only a submission puts a
\* message into the queue.
LEMMA ExcusesStand ==
    ASSUME Inv, Next
    PROVE  /\ shared \subseteq shared' /\ spared \subseteq spared'
           /\ \A q \in Sends :
                /\ send[q].pc \in {"record", "done"} => send'[q].pc \in {"record", "done"}
                /\ send[q].pc = "done" => send'[q].pc = "done"
                /\ q \in spool' => q \in spool \/ send[q].pc = "submit"
                /\ q \in spool' \ (raced' \cup spared') =>
                      q \in spool \ (raced \cup spared) \/ send[q].pc = "submit"
<1> USE DEF Inv
<1>1. send \in [Sends -> SendSteps]
  BY DEF ValuesInv
<1>2. ASSUME NEW r \in Sends, Before(r) \/ Submit(r) \/ Record(r)
      PROVE  /\ shared \subseteq shared' /\ spared \subseteq spared'
             /\ \A q \in Sends :
                  /\ send[q].pc \in {"record", "done"} => send'[q].pc \in {"record", "done"}
                  /\ send[q].pc = "done" => send'[q].pc = "done"
                  /\ q \in spool' => q \in spool \/ send[q].pc = "submit"
                  /\ q \in spool' \ (raced' \cup spared') =>
                        q \in spool \ (raced \cup spared) \/ send[q].pc = "submit"
  <2>1. CASE Before(r)
    BY <1>1, <2>1 DEF Before, SendSteps, queues
  <2>2. CASE Submit(r)
    BY <1>1, <2>2 DEF Submit, SendSteps, Gone, histories
  <2>3. CASE Record(r)
    BY <1>1, <2>3 DEF Record, SendSteps, Gone, queues
  <2> QED
    BY <1>2, <2>1, <2>2, <2>3
<1>3. ASSUME NEW r \in Sends, RemoveFile(r) \/ Leave(r) \/ Bounce(r)
      PROVE  /\ shared' = shared /\ spared \subseteq spared' /\ send' = send
             /\ spool' \subseteq spool
             /\ spool' \ (raced' \cup spared') \subseteq spool \ (raced \cup spared)
  BY <1>3 DEF RemoveFile, Leave, Bounce, histories
<1>4. CASE Push \/ ReadSpool \/ ApplyRefresh \/ ListFiles \/ MarkCleared \/ Boot
  <2>1. UNCHANGED <<shared, send, spool, raced>> /\ spared \subseteq spared'
    BY <1>4 DEF Push, ReadSpool, ApplyRefresh, ListFiles, MarkCleared, Boot, queues, histories
  <2> QED
    BY <2>1
<1>5. CASE Crash
  <2>1. UNCHANGED <<shared, spared, spool, raced>>
        /\ send' = [r \in Sends |-> IF send[r] = Waiting THEN Waiting ELSE Gone]
    BY <1>5 DEF Crash, queues
  <2> QED
    BY <1>1, <2>1 DEF Waiting, Gone
<1> QED
  BY <1>2, <1>3, <1>4, <1>5 DEF Next, Sending, Refreshing, Clearing, Dma

\* Submissions note each other.
LEMMA SendsStep ==
    ASSUME Inv, SendsInv, Next
    PROVE  SendsInv'
<1> USE DEF Inv
<1>1. send \in [Sends -> SendSteps] /\ spool \subseteq Sends
  BY DEF ValuesInv
<1>2. ASSUME NEW r \in Sends, Before(r) PROVE SendsInv'
  <2>1. PICK ok \in BOOLEAN :
           /\ send[r].pc = "idle" /\ spool' = spool
           /\ spared' = IF ok THEN spared ELSE spared \cup IF spool = {} THEN {} ELSE spool \cup {r}
           /\ send' = [send EXCEPT ![r] = [pc |-> "submit", before |-> IF ok THEN spool ELSE {}]]
    BY <1>2 DEF Before, queues
  <2>2. shared' = IF InProgress = {} THEN shared ELSE shared \cup InProgress \cup {r}
    BY <1>2 DEF Before, InProgress
  <2>3. /\ send'[r].pc = "submit" /\ send'[r].before = IF ok THEN spool ELSE {}
        /\ \A q \in Sends : q # r => send'[q] = send[q]
    BY <1>1, <2>1
  <2>4. InProgress' = InProgress \cup {r} /\ r \notin InProgress /\ InProgress \subseteq Sends
    BY <2>1, <2>3 DEF InProgress
  <2>5. \A q \in spool' : send'[q].pc \in {"record", "done"}
    BY <1>1, <2>1, <2>3 DEF SendsInv
  <2>6. ASSUME NEW p \in InProgress', NEW q \in InProgress', q # p PROVE p \in shared'
    BY <2>2, <2>4, <2>6 DEF SendsInv
  <2>7. ASSUME NEW p \in InProgress', NEW q \in spool', q # p, q \notin send'[p].before
        PROVE  (q \in spared' /\ p \in spared') \/ p \in shared'
    <3>1. CASE p = r
      BY <2>1, <2>3, <2>7, <3>1
    <3>2. CASE p # r
      BY <2>1, <2>2, <2>3, <2>4, <2>7, <3>2 DEF SendsInv
    <3> QED
      BY <3>1, <3>2
  <2>8. ASSUME NEW p \in InProgress' PROVE p \notin send'[p].before
    <3>1. r \notin spool
      BY <2>1 DEF SendsInv
    <3> QED
      BY <2>1, <2>3, <2>4, <2>8, <3>1 DEF SendsInv
  <2> QED
    BY <2>5, <2>6, <2>7, <2>8 DEF SendsInv
<1>3. ASSUME NEW r \in Sends, Submit(r) PROVE SendsInv'
  <2>1. send[r].pc = "submit" /\ UNCHANGED <<shared, spared>> /\ r \in InProgress
    BY <1>3 DEF Submit, InProgress, histories
  <2>2. CASE spool' = spool \cup {r} /\ send' = [send EXCEPT ![r].pc = "record"]
    <3>1. /\ send'[r].pc = "record" /\ send'[r].before = send[r].before
          /\ \A q \in Sends : q # r => send'[q] = send[q]
      BY <1>1, <2>2 DEF SendSteps
    <3>2. InProgress' = InProgress
      BY <2>1, <3>1 DEF InProgress
    <3>3. \A p \in InProgress : send'[p].before = send[p].before
      BY <3>1 DEF InProgress
    <3>4. \A q \in spool' : send'[q].pc \in {"record", "done"}
      BY <1>1, <2>2, <3>1 DEF SendsInv
    <3> QED
      BY <2>1, <2>2, <3>2, <3>3, <3>4 DEF SendsInv
  <2>3. CASE spool' = spool /\ send' = [send EXCEPT ![r] = Gone]
    <3>1. send'[r].pc = "done" /\ \A q \in Sends : q # r => send'[q] = send[q]
      BY <1>1, <2>3 DEF Gone
    <3>2. InProgress' \subseteq InProgress /\ \A p \in InProgress' : send'[p] = send[p]
      BY <3>1 DEF InProgress
    <3>3. \A q \in spool' : send'[q].pc \in {"record", "done"}
      BY <1>1, <2>3, <3>1 DEF SendsInv
    <3> QED
      BY <2>1, <2>3, <3>2, <3>3 DEF SendsInv
  <2> QED
    BY <1>3, <2>2, <2>3 DEF Submit
<1>4. ASSUME NEW r \in Sends, Record(r) PROVE SendsInv'
  <2>1. send' = [send EXCEPT ![r] = Gone] /\ UNCHANGED <<shared, spool>> /\ spared \subseteq spared'
    BY <1>4 DEF Record, queues
  <2>2. send'[r].pc = "done" /\ \A q \in Sends : q # r => send'[q] = send[q]
    BY <1>1, <2>1 DEF Gone
  <2>3. InProgress' \subseteq InProgress /\ \A p \in InProgress' : send'[p] = send[p]
    BY <2>2 DEF InProgress
  <2>4. \A q \in spool' : send'[q].pc \in {"record", "done"}
    BY <1>1, <2>1, <2>2 DEF SendsInv
  <2> QED
    BY <2>1, <2>3, <2>4 DEF SendsInv
<1>5. CASE Crash
  <2>1. /\ send' = [r \in Sends |-> IF send[r] = Waiting THEN Waiting ELSE Gone]
        /\ UNCHANGED spool
    BY <1>5 DEF Crash, queues
  <2>2. \A q \in Sends : send'[q].pc \in {"idle", "done"} /\ (send[q].pc # "idle" => send'[q].pc = "done")
    BY <2>1 DEF Waiting, Gone
  <2>3. InProgress' = {}
    BY <2>2 DEF InProgress
  <2> QED
    BY <1>1, <2>1, <2>2, <2>3 DEF SendsInv
<1>6. CASE \/ Push \/ ReadSpool \/ ApplyRefresh \/ ListFiles \/ MarkCleared \/ Boot
           \/ \E q \in Sends : RemoveFile(q) \/ Leave(q) \/ Bounce(q)
  <2>1. /\ UNCHANGED <<send, shared>> /\ spool' \subseteq spool /\ spared \subseteq spared'
    BY <1>6 DEF Push, ReadSpool, ApplyRefresh, ListFiles, MarkCleared, Boot, RemoveFile, Leave, Bounce,
                queues, histories
  <2>2. InProgress' = InProgress
    BY <2>1 DEF InProgress
  <2> QED
    BY <2>1, <2>2 DEF SendsInv
<1> QED
  BY <1>2, <1>3, <1>4, <1>5, <1>6 DEF Next, Sending, Refreshing, Clearing, Dma

\* Trimming adds nothing.
LEMMA KeepLastRange ==
    ASSUME NEW S, NEW s \in Seq(S), NEW n \in Nat
    PROVE  Range(KeepLast(s, n)) \subseteq Range(s)
BY KeepLastSelected DEF Selected, Range

\* A writing of the outbox brings only the entries it is given.
LEMMA PersistEntries ==
    ASSUME Inv, NEW entries \in Seq(Entries), NEW o, Persist(entries, o) \/ ChangeTo(entries, o)
    PROVE  Range(outbox') \subseteq Range(entries) /\ Range(store') \subseteq Range(store)
<1>1. Range(KeepLast(entries, Cap)) \subseteq Range(entries)
  BY CapIsNat, KeepLastRange
<1>2. Range(<<>>) = {}
  BY DEF Range
<1>3. CASE entries = outbox /\ UNCHANGED <<outbox, store>>
  BY <1>3
<1>4. CASE Persist(entries, o)
  BY <1>1, <1>2, <1>4 DEF Persist, Trim, Deleted
<1> QED
  BY <1>3, <1>4 DEF ChangeTo

\* The values that a refresh and a clear give the entries.
LEMMA MappedRange ==
    ASSUME NEW s \in Seq(Entries)
    PROVE  /\ Range([i \in DOMAIN s |-> Refreshed(s[i])]) = {Refreshed(e) : e \in Range(s)}
           /\ Range([i \in DOMAIN s |-> Cleared(s[i])]) = {Cleared(e) : e \in Range(s)}
  BY DEF Range

\* A message of the outbox that comes while the spool is being read is marked.
LEMMA ReadersStep ==
    ASSUME Inv, EntriesInv, ReadersInv, Next
    PROVE  ReadersInv'
<1> USE DEF Inv
<1>0. outbox \in Seq(Entries) /\ Range(outbox) \subseteq Entries
  BY RangeOfSeq DEF ListsInv
<1>1. ASSUME NEW r \in Sends, Submit(r) PROVE ReadersInv'
  <2>1. /\ UNCHANGED <<refresh, clear, outbox, raced, spared>> /\ send[r].pc = "submit"
        /\ spool' \subseteq spool \cup {r}
    BY <1>1 DEF Submit, histories
  <2>2. \A e \in Range(outbox) : e.id # r
    BY <2>1 DEF EntriesInv, Sound
  <2> QED
    BY <2>1, <2>2 DEF ReadersInv, Covered
<1>2. ASSUME NEW r \in Sends, Record(r) PROVE ReadersInv'
  <2>1. PICK o \in Outcome, id \in Sends \cup {NoId} :
           /\ Persist(Append(outbox, [req |-> r, id |-> id, status |-> "queued"]), o)
           /\ raced' = raced \cup {q \in {r, id} : Missed(q)}
           /\ UNCHANGED <<spool, refresh, clear>> /\ spared \subseteq spared'
    BY <1>2 DEF Record, queues
  <2> DEFINE new == [req |-> r, id |-> id, status |-> "queued"]
  <2>2. new \in Entries /\ new.id = id
    BY DEF Entries, Open
  <2> HIDE DEF new
  <2>3. Persist(Append(outbox, new), o)
    BY <2>1 DEF new
  <2>4. Append(outbox, new) \in Seq(Entries) /\ Range(Append(outbox, new)) = Range(outbox) \cup {new}
    BY <1>0, <2>2, AppendRange
  <2>5. Range(outbox') \subseteq Range(outbox) \cup {new}
    BY <2>3, <2>4, PersistEntries
  <2>6. Covered(id)'
    BY <2>1 DEF Covered, Missed
  <2>7. \A e \in Range(outbox) : Covered(e.id)'
    BY <2>1 DEF ReadersInv, Covered
  <2> QED
    BY <2>2, <2>5, <2>6, <2>7 DEF ReadersInv
<1>3. CASE ApplyRefresh \/ MarkCleared
  <2>1. PICK changed \in Seq(Entries), o \in Outcome :
           /\ ChangeTo(changed, o)
           /\ \/ Range(changed) = {Refreshed(e) : e \in Range(outbox)}
              \/ Range(changed) = {Cleared(e) : e \in Range(outbox)}
    BY <1>0, <1>3, RefreshedEntries, ClearedEntries, MappedRange DEF ApplyRefresh, MarkCleared
  <2>2. Range(outbox') \subseteq Range(changed)
    BY <2>1, PersistEntries
  <2>3. \A e \in Entries : Refreshed(e).id = e.id /\ Cleared(e).id = e.id
    BY DEF Refreshed, Cleared, Entries
  <2>4. \A x \in Range(outbox') : \E e \in Range(outbox) : x.id = e.id
    BY <1>0, <2>1, <2>2, <2>3
  <2>5. /\ UNCHANGED <<spool, raced, spared>>
        /\ refresh' = refresh \/ refresh' = NoRefresh
        /\ clear' = clear \/ clear' = NoClear
    BY <1>3 DEF ApplyRefresh, MarkCleared, queues
  <2>6. NoRefresh.pc # "apply" /\ NoClear.pc # "remove"
    BY DEF NoRefresh, NoClear
  <2>7. \A e \in Range(outbox) : Covered(e.id)'
    BY <2>5, <2>6 DEF ReadersInv, Covered
  <2> QED
    BY <2>4, <2>7 DEF ReadersInv, Covered
<1>4. ASSUME NEW q \in Sends, RemoveFile(q) PROVE ReadersInv'
  <2>1. PICK ok \in BOOLEAN :
           /\ clear' = [clear EXCEPT !.left = @ \ {q}] /\ UNCHANGED <<refresh, outbox>>
           /\ spool' = (IF ok THEN spool \ {q} ELSE spool) /\ raced' = raced \cap spool'
           /\ spared' = IF ok THEN spared ELSE spared \cup {q}
    BY <1>4 DEF RemoveFile
  <2>2. clear'.pc = clear.pc /\ clear'.left = clear.left \ {q}
    BY <2>1 DEF ValuesInv
  <2> QED
    BY <2>1, <2>2 DEF ReadersInv, Covered
<1>5. ASSUME NEW q \in Sends, Leave(q) \/ Bounce(q) PROVE ReadersInv'
  BY <1>5 DEF Leave, Bounce, histories, ReadersInv, Covered
<1>6. CASE ReadSpool
  BY <1>6 DEF ReadSpool, queues, histories, ReadersInv, Covered
<1>7. CASE ListFiles
  BY <1>7 DEF ListFiles, queues, ReadersInv, Covered
<1>8. CASE Crash \/ Boot
  <2>1. refresh' = NoRefresh /\ clear' = NoClear
    BY <1>8 DEF Crash, Boot, LifeInv
  <2> QED
    BY <2>1 DEF ReadersInv, Covered, NoRefresh, NoClear
<1>9. CASE Push \/ \E r \in Sends : Before(r)
  <2>1. UNCHANGED <<refresh, clear, outbox, spool, raced>> /\ spared \subseteq spared'
    BY <1>9 DEF Push, Before, queues
  <2> QED
    BY <2>1 DEF ReadersInv, Covered
<1> QED
  BY <1>1, <1>2, <1>3, <1>4, <1>5, <1>6, <1>7, <1>8, <1>9 DEF Next, Sending, Refreshing, Clearing, Dma

\* Recording ends a submission.
LEMMA OnceStep ==
    ASSUME Inv, OnceInv, Next
    PROVE  OnceInv'
<1> USE DEF Inv
<1>1. recorded \in Seq(Sends) /\ send \in [Sends -> SendSteps] /\ Range(recorded) \subseteq Sends
  BY RangeOfSeq DEF ListsInv, ValuesInv
<1>2. ASSUME NEW r \in Sends, Record(r) PROVE OnceInv'
  <2>1. send[r].pc = "record" /\ send' = [send EXCEPT ![r] = Gone] /\ recorded' = Append(recorded, r)
    BY <1>2 DEF Record
  <2>2. r \notin Range(recorded)
    BY <2>1 DEF OnceInv
  <2>3. /\ recorded' \in Seq(Sends) /\ Range(recorded') = Range(recorded) \cup {r}
        /\ Len(recorded) \in Nat /\ Len(recorded') = Len(recorded) + 1
        /\ \A i \in 1..Len(recorded) : recorded'[i] = recorded[i]
        /\ recorded'[Len(recorded) + 1] = r
    BY <1>1, <2>1, AppendRange, AppendProperties, LenProperties
  <2>4. DOMAIN recorded = 1..Len(recorded) /\ DOMAIN recorded' = 1..(Len(recorded) + 1)
    BY <1>1, <2>3, LenProperties
  <2>5. \A i \in 1..Len(recorded) : recorded[i] \in Range(recorded)
    BY <2>4 DEF Range
  <2>6. IsInjective(recorded')
    <3> SUFFICES ASSUME NEW i \in 1..(Len(recorded) + 1), NEW k \in 1..(Len(recorded) + 1),
                        recorded'[i] = recorded'[k]
                 PROVE  i = k
      BY <2>4 DEF IsInjective
    <3>1. (i \in 1..Len(recorded) \/ i = Len(recorded) + 1) /\ (k \in 1..Len(recorded) \/ k = Len(recorded) + 1)
      BY <2>3
    <3> QED
      BY <2>2, <2>3, <2>4, <2>5, <3>1 DEF OnceInv, IsInjective
  <2>7. \A q \in Range(recorded') : send'[q].pc = "done"
    BY <1>1, <2>1, <2>3 DEF OnceInv, Gone
  <2> QED
    BY <2>6, <2>7 DEF OnceInv, IsInjective
<1>3. CASE ~\E r \in Sends : Record(r)
  <2>1. recorded' = recorded
    BY <1>3 DEF Next, Sending, Refreshing, Clearing, Dma, Push, ReadSpool, ApplyRefresh, ListFiles,
                MarkCleared, Boot, RemoveFile, Leave, Bounce, Before, Submit, Crash, histories
  <2>2. \A q \in Sends : send[q].pc = "done" => send'[q].pc = "done"
    BY ExcusesStand
  <2> QED
    BY <1>1, <2>1, <2>2 DEF OnceInv, IsInjective
<1> QED
  BY <1>2, <1>3

\* What is true of an entry stays true of it.
LEMMA SoundStands ==
    ASSUME Inv, SendsInv, Next, NEW e \in Entries, Sound(e)
    PROVE  Sound(e)'
<1>1. e.id \in Sends => (e.id \in spool' \ (raced' \cup spared') => e.id \in spool \ (raced \cup spared))
  BY ExcusesStand DEF Sound
<1>2. spool' \subseteq Sends
  <2>1. spool \subseteq Sends
    BY DEF Inv, ValuesInv
  <2> QED
    BY <2>1 DEF Next, Sending, Refreshing, Clearing, Dma, Push, ReadSpool, ApplyRefresh, ListFiles,
                MarkCleared, Boot, RemoveFile, Leave, Bounce, Before, Submit, Record, Crash, queues
<1>3. shared \subseteq shared' /\ spared \subseteq spared'
  BY ExcusesStand
<1>4. e.id \in Sends => send'[e.id].pc \in {"record", "done"}
  BY ExcusesStand DEF Sound
<1>5. e.req \in Sends /\ send'[e.req].pc = "done" /\ (e.req \in spool' => e.req \in spool)
  <2>1. e.req \in Sends
    BY DEF Entries
  <2> QED
    BY <2>1, ExcusesStand DEF Sound
<1> QED
  BY <1>1, <1>2, <1>3, <1>4, <1>5 DEF Sound

\* Every entry, old or new, is sound.
LEMMA EntriesStep ==
    ASSUME Inv, FinalInv, Next
    PROVE  EntriesInv'
<1> USE DEF Inv, FinalInv
<1>1. /\ outbox \in Seq(Entries) /\ store \in Seq(Entries)
      /\ Range(outbox) \subseteq Entries /\ Range(store) \subseteq Entries
  BY RangeOfSeq DEF ListsInv
<1>2. \A e \in Range(outbox) \cup Range(store) : Sound(e)'
  BY <1>1, SoundStands DEF EntriesInv
<1>3. ASSUME NEW r \in Sends, Record(r) PROVE EntriesInv'
  <2>1. PICK o \in Outcome, ok \in BOOLEAN, id \in Sends \cup {NoId} :
           /\ send[r].pc = "record"
           /\ LET new == NewIds(r, IF ok THEN spool ELSE {}) IN IF new = {} THEN id = NoId ELSE id \in new
           /\ Persist(Append(outbox, [req |-> r, id |-> id, status |-> "queued"]), o)
           /\ send' = [send EXCEPT ![r] = Gone]
           /\ spared' = IF ok THEN spared ELSE spared \cup {r}
           /\ UNCHANGED <<spool, shared>>
    BY <1>3 DEF Record, queues
  <2> DEFINE e == [req |-> r, id |-> id, status |-> "queued"]
  <2>2. e \in Entries /\ e.req = r /\ e.id = id /\ e.status \in Open
    BY DEF Entries, Open
  <2>3. id \in Sends => id \in spool /\ id \notin send[r].before
    BY <2>1, SendsAssumption DEF NewIds, SendsAssumption
  <2>4. id \in Sends => send'[id].pc \in {"record", "done"}
    BY <2>1, <2>3, ExcusesStand DEF SendsInv
  <2>5. /\ r \notin shared' /\ id \notin spared' => id \in {r, NoId}
        /\ r \notin shared' \cup spared' => id \in {r, NoId} /\ (id = NoId => r \notin spool')
    <3>1. r \in InProgress
      BY <2>1 DEF InProgress
    <3>2. r \notin send[r].before
      BY <3>1 DEF SendsInv
    <3>3. r \notin spared' => (id = NoId => r \notin spool')
      <4>1. NoId \notin spool
        BY SendsAssumption DEF ValuesInv, SendsAssumption
      <4> QED
        BY <2>1, <3>2, <4>1 DEF NewIds
    <3>4. shared' = shared /\ spared \subseteq spared'
      BY <2>1
    <3>5. id \notin {r, NoId} => (id \in spared' /\ r \in spared') \/ r \in shared'
      BY <2>3, <3>1, <3>4 DEF SendsInv
    <3> QED
      BY <3>3, <3>5
  <2>9. send'[r].pc = "done"
    BY <2>1 DEF ValuesInv, Gone
  <2> HIDE DEF e
  <2>6. Sound(e)'
    BY <2>2, <2>4, <2>5, <2>9 DEF Sound
  <2>7. Append(outbox, e) \in Seq(Entries) /\ Range(Append(outbox, e)) = Range(outbox) \cup {e}
    BY <1>1, <2>2, AppendRange
  <2>8. Range(outbox') \subseteq Range(outbox) \cup {e} /\ Range(store') \subseteq Range(store)
    <3>1. Persist(Append(outbox, e), o)
      BY <2>1 DEF e
    <3> QED
      BY <2>7, <3>1, PersistEntries
  <2> QED
    BY <1>2, <2>6, <2>8 DEF EntriesInv
<1>4. CASE Push
  <2>1. outbox' = outbox /\ (store' = store \/ store' = store \o outbox)
    BY <1>4 DEF Push
  <2>2. Range(store \o outbox) = Range(store) \cup Range(outbox)
    BY <1>1, RangeConcatenation
  <2> QED
    BY <1>2, <2>1, <2>2 DEF EntriesInv
<1>5. CASE ApplyRefresh
  <2> DEFINE changed == [i \in DOMAIN outbox |-> Refreshed(outbox[i])]
  <2>1. PICK o \in Outcome :
           /\ refresh.pc = "apply" /\ ChangeTo(changed, o) /\ UNCHANGED <<spool, send, raced, shared, spared>>
    BY <1>5 DEF ApplyRefresh, queues
  <2>2. changed \in Seq(Entries) /\ Range(changed) = {Refreshed(e) : e \in Range(outbox)}
    BY <1>1, RefreshedEntries, MappedRange
  <2> HIDE DEF changed
  <2>3. Range(outbox') \subseteq {Refreshed(e) : e \in Range(outbox)} /\ Range(store') \subseteq Range(store)
    BY <2>1, <2>2, PersistEntries
  <2>4. ASSUME NEW e \in Range(outbox), NEW x, x = Refreshed(e) PROVE Sound(x)'
    <3>1. e \in Entries /\ Sound(e)
      BY <1>1 DEF EntriesInv
    <3>2. \/ x = e
          \/ x = [e EXCEPT !.status = "left_queue"] /\ e.id \notin refresh.seen
          \/ x = [e EXCEPT !.status = "error"]
      BY <2>4 DEF Refreshed
    <3>3. e.id \notin refresh.seen => e.id \notin spool \ (raced \cup spared)
      BY <2>1 DEF ReadersInv, Covered
    <3>4. /\ x.req = e.req /\ x.id = e.id
          /\ x.status = e.status \/ x.status = "error" \/ e.id \notin refresh.seen
      BY <3>1, <3>2 DEF Entries
    <3>5. x.status \notin Open => x.id \notin spool \ (raced \cup spared)
      BY <3>1, <3>3, <3>4 DEF Sound, Open
    <3>6. Sound(x)
      BY <3>1, <3>4, <3>5 DEF Sound
    <3> QED
      BY <2>1, <3>6 DEF Sound
  <2> QED
    BY <1>2, <2>3, <2>4 DEF EntriesInv
<1>6. CASE MarkCleared
  <2> DEFINE changed == [i \in DOMAIN outbox |-> Cleared(outbox[i])]
  <2>1. PICK o \in Outcome :
           /\ clear.pc = "remove" /\ clear.left = {}
           /\ ChangeTo(changed, o) /\ UNCHANGED <<spool, send, raced, shared, spared>>
    BY <1>6 DEF MarkCleared, queues
  <2>2. changed \in Seq(Entries) /\ Range(changed) = {Cleared(e) : e \in Range(outbox)}
    BY <1>1, ClearedEntries, MappedRange
  <2> HIDE DEF changed
  <2>3. Range(outbox') \subseteq {Cleared(e) : e \in Range(outbox)} /\ Range(store') \subseteq Range(store)
    BY <2>1, <2>2, PersistEntries
  <2>4. ASSUME NEW e \in Range(outbox), NEW x, x = Cleared(e) PROVE Sound(x)'
    <3>1. e \in Entries /\ Sound(e)
      BY <1>1 DEF EntriesInv
    <3>2. e.id \notin spool \ (raced \cup spared)
      BY <2>1 DEF ReadersInv, Covered
    <3>3. x.req = e.req /\ x.id = e.id
      BY <2>4, <3>1 DEF Cleared, Entries
    <3>4. Sound(x)
      BY <3>1, <3>2, <3>3 DEF Sound
    <3> QED
      BY <2>1, <3>4 DEF Sound
  <2> QED
    BY <1>2, <2>3, <2>4 DEF EntriesInv
<1>7. CASE Crash \/ Boot
  <2>1. /\ outbox' = <<>> \/ outbox' = store
        /\ store' = store
    BY <1>7 DEF Crash, Boot
  <2>2. Range(<<>>) = {}
    BY DEF Range
  <2> QED
    BY <1>2, <2>1, <2>2 DEF EntriesInv
<1>8. CASE \/ ReadSpool \/ ListFiles \/ \E q \in Sends : RemoveFile(q) \/ Leave(q) \/ Bounce(q)
           \/ \E r \in Sends : Before(r) \/ Submit(r)
  <2>1. UNCHANGED <<outbox, store>>
    BY <1>8 DEF ReadSpool, ListFiles, RemoveFile, Leave, Bounce, Before, Submit
  <2> QED
    BY <1>2, <2>1 DEF EntriesInv
<1> QED
  BY <1>3, <1>4, <1>5, <1>6, <1>7, <1>8 DEF Next, Sending, Refreshing, Clearing, Dma

\* While nothing was lost, the outbox has each submission once, all recorded.
LEMMA EntriesDistinct ==
    ASSUME Inv, OnceInv, up, ~lost
    PROVE  \A x, y \in Range(outbox) :
              /\ x.req \in Range(recorded)
              /\ x.req = y.req => x = y
<1>1. /\ outbox \in Seq(Entries) /\ recorded \in Seq(Sends)
      /\ Requests(outbox) = KeepLast(recorded, Cap)
  BY DEF Inv, ListsInv
<1>2. /\ Len(outbox) \in Nat /\ DOMAIN outbox = 1..Len(outbox)
      /\ Len(Requests(outbox)) = Len(outbox)
      /\ \A i \in 1..Len(outbox) : Requests(outbox)[i] = outbox[i].req
  BY <1>1, LenProperties, RequestsType
<1> DEFINE k == Cut(recorded, Cap)
<1>3. /\ Len(recorded) \in Nat /\ k \in 0..Len(recorded) /\ Len(outbox) = Len(recorded) - k
      /\ \A i \in 1..(Len(recorded) - k) : Requests(outbox)[i] = recorded[k + i]
      /\ DOMAIN recorded = 1..Len(recorded)
  <2>1. /\ Len(recorded) \in Nat /\ k \in 0..Len(recorded)
        /\ Len(KeepLast(recorded, Cap)) = Len(recorded) - k
        /\ \A i \in 1..(Len(recorded) - k) : KeepLast(recorded, Cap)[i] = recorded[k + i]
    BY <1>1, CapIsNat, KeepLastElements
  <2>2. DOMAIN recorded = 1..Len(recorded)
    BY <1>1, LenProperties
  <2> HIDE DEF k
  <2> QED
    BY <1>1, <1>2, <2>1, <2>2
<1> HIDE DEF k
<1>4. \A i \in 1..Len(outbox) : k + i \in DOMAIN recorded /\ outbox[i].req = recorded[k + i]
  BY <1>2, <1>3
<1>5. \A i, j \in 1..Len(outbox) : outbox[i].req = outbox[j].req => i = j
  <2> SUFFICES ASSUME NEW i \in 1..Len(outbox), NEW j \in 1..Len(outbox), outbox[i].req = outbox[j].req
               PROVE  i = j
    OBVIOUS
  <2>1. k + i = k + j
    BY <1>4 DEF OnceInv, IsInjective
  <2> QED
    BY <1>3, <2>1
<1>6. \A x \in Range(outbox) : \E i \in 1..Len(outbox) : x = outbox[i]
  BY <1>2 DEF Range
<1>7. \A i \in DOMAIN recorded : recorded[i] \in Range(recorded)
  BY DEF Range
<1> QED
  BY <1>4, <1>5, <1>6, <1>7

\* An entry that is finished keeps its status, and its submission gets no
\* second entry.
LEMMA StatusStands ==
    ASSUME Inv, FinalInv, Next, up, up', ~lost
    PROVE  \A x \in Range(outbox), y \in Range(outbox') :
              x.status \notin Open /\ y.req = x.req => y.status = x.status
<1> USE DEF FinalInv
<1>1. outbox \in Seq(Entries) /\ Range(outbox) \subseteq Entries
  BY RangeOfSeq DEF Inv, ListsInv
<1>2. \A x, y \in Range(outbox) : x.req \in Range(recorded) /\ (x.req = y.req => x = y)
  BY EntriesDistinct, Zenon
<1>3. ASSUME NEW r \in Sends, Record(r)
      PROVE  \A x \in Range(outbox), y \in Range(outbox') : y.req = x.req => y = x
  <2>1. PICK o \in Outcome, id \in Sends \cup {NoId} :
           /\ send[r].pc = "record"
           /\ Persist(Append(outbox, [req |-> r, id |-> id, status |-> "queued"]), o)
    BY <1>3 DEF Record
  <2> DEFINE e == [req |-> r, id |-> id, status |-> "queued"]
  <2>2. e \in Entries /\ e.req = r
    BY DEF Entries, Open
  <2>3. Persist(Append(outbox, e), o)
    BY <2>1
  <2> HIDE DEF e
  <2>4. Append(outbox, e) \in Seq(Entries) /\ Range(Append(outbox, e)) = Range(outbox) \cup {e}
    BY <1>1, <2>2, AppendRange
  <2>5. Range(outbox') \subseteq Range(outbox) \cup {e}
    BY <2>3, <2>4, PersistEntries
  <2>6. r \notin Range(recorded)
    BY <2>1 DEF OnceInv
  <2> QED
    BY <1>2, <2>2, <2>5, <2>6
<1>4. CASE ApplyRefresh \/ MarkCleared
  <2>1. PICK changed \in Seq(Entries), o \in Outcome :
           /\ ChangeTo(changed, o)
           /\ \/ Range(changed) = {Refreshed(e) : e \in Range(outbox)}
              \/ Range(changed) = {Cleared(e) : e \in Range(outbox)}
    BY <1>1, <1>4, RefreshedEntries, ClearedEntries, MappedRange DEF ApplyRefresh, MarkCleared
  <2>2. Range(outbox') \subseteq Range(changed)
    BY <2>1, PersistEntries
  <2>3. \A e \in Entries :
          /\ Refreshed(e).req = e.req /\ Cleared(e).req = e.req
          /\ e.status \notin Open => Refreshed(e) = e /\ Cleared(e) = e
    BY DEF Refreshed, Cleared, Entries
  <2> SUFFICES ASSUME NEW x \in Range(outbox), NEW y \in Range(outbox'), x.status \notin Open, y.req = x.req
               PROVE  y.status = x.status
    OBVIOUS
  <2>4. PICK e \in Range(outbox) : y = Refreshed(e) \/ y = Cleared(e)
    BY <2>1, <2>2
  <2>5. e = x
    <3>1. e \in Entries
      BY <1>1
    <3>2. Refreshed(e).req = e.req /\ Cleared(e).req = e.req
      BY <2>3, <3>1, Zenon
    <3>3. y.req = e.req
      BY <2>4, <3>2, Zenon
    <3> QED
      BY <1>2, <3>3
  <2>6. Refreshed(x) = x /\ Cleared(x) = x
    BY <1>1, <2>3, Zenon
  <2> QED
    BY <2>4, <2>5, <2>6, Zenon
<1>5. CASE ~ApplyRefresh /\ ~MarkCleared /\ ~\E r \in Sends : Record(r)
  <2>1. outbox' = outbox
    BY <1>5 DEF Next, Sending, Refreshing, Clearing, Dma, Push, ReadSpool, ListFiles,
                Boot, RemoveFile, Leave, Bounce, Before, Submit, Crash
  <2> QED
    BY <1>2, <2>1
<1> QED
  BY <1>3, <1>4, <1>5

\* The message of an entry shown as left or cleared is not in the queue, unless
\* it came after the reading that decided so, submissions overlapped, or a
\* reading or a removal failed; but for the last two an entry's id is its own;
\* and the two states are final (FinishedIsFinal: mail/service.go send, refresh
\* and ClearQueue).
THEOREM FinishedStands == Spec => FinishedIsFinal
<1>1. Init => FinalInv
  <2> SUFFICES ASSUME Init PROVE FinalInv
    OBVIOUS
  <2>1. Range(<<>>) = {}
    BY DEF Range
  <2>2. EntriesInv
    BY <2>1 DEF Init, EntriesInv
  <2>3. SendsInv /\ ReadersInv
    BY <2>1 DEF Init, SendsInv, ReadersInv, InProgress, Waiting
  <2>4. OnceInv
    BY <2>1 DEF Init, OnceInv, IsInjective
  <2> QED
    BY <2>2, <2>3, <2>4 DEF FinalInv
<1>2. Inv /\ FinalInv /\ [Next]_vars => FinalInv'
  <2> SUFFICES ASSUME Inv, FinalInv, [Next]_vars PROVE FinalInv'
    OBVIOUS
  <2>1. CASE Next
    BY <2>1, EntriesStep, SendsStep, ReadersStep, OnceStep DEF FinalInv
  <2>2. CASE UNCHANGED vars
    BY <2>2 DEF vars, queues, histories, FinalInv, EntriesInv, SendsInv, ReadersInv, Covered, OnceInv, Sound,
                InProgress, IsInjective
  <2> QED
    BY <2>1, <2>2
<1>3. Inv /\ FinalInv => FinishedIsGone
  <2> SUFFICES ASSUME Inv, FinalInv, NEW e \in Range(outbox)
               PROVE  /\ e.status \notin Open => /\ e.id \notin spool \ (raced \cup spared)
                                                /\ e.req \notin spool \ (raced \cup spared \cup shared)
                      /\ e.req \notin shared /\ e.id \notin spared => e.id \in {e.req, NoId}
    BY DEF Range, FinishedIsGone
  <2>1. Sound(e)
    BY DEF FinalInv, EntriesInv
  <2> QED
    BY <2>1 DEF Sound
<1>4. Inv /\ FinalInv /\ Next =>
         (up /\ up' /\ ~lost => \A i \in DOMAIN outbox : outbox[i].status \notin Open =>
             \A k \in DOMAIN outbox' :
                 outbox'[k].req = outbox[i].req => outbox'[k].status = outbox[i].status)
  <2>1. /\ \A i \in DOMAIN outbox : outbox[i] \in Range(outbox)
        /\ \A i \in DOMAIN outbox' : outbox'[i] \in Range(outbox')
    BY DEF Range
  <2> QED
    BY <2>1, StatusStands
<1> QED
  BY <1>1, <1>2, <1>3, <1>4, InvAlways, PTL DEF Spec, FinishedIsFinal
=============================================================================
