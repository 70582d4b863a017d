------------------------- MODULE NotificationsProofs -------------------------
(***************************************************************************)
(* Proofs about Notifications: what is stored is never dropped from a      *)
(* snapshot, what was read stays read, and a browser with nothing under    *)
(* way shows the store.                                                    *)
(***************************************************************************)
EXTENDS Notifications, SequenceTheorems, FiniteSetTheorems, TLAPS

-----------------------------------------------------------------------------
(* Validation: what was cleaned once is clean.                             *)

\* The places a sieve takes its elements from: each chosen position once, in order.
Places(keep) ==
    LET rank == [i \in keep |-> Cardinality({m \in keep : m <= i})]
    IN  [k \in 1..Cardinality(keep) |-> CHOOSE i \in keep : rank[i] = k]

\* The places of what a sieve keeps run through all of it, in order.
LEMMA SievePlaces ==
    ASSUME NEW n \in Nat, NEW keep \in SUBSET (1..n)
    PROVE  /\ Cardinality(keep) \in Nat
           /\ Places(keep) \in [1..Cardinality(keep) -> keep]
           /\ \A i \in keep : \E k \in 1..Cardinality(keep) : Places(keep)[k] = i
           /\ \A j, k \in 1..Cardinality(keep) : j < k => Places(keep)[j] < Places(keep)[k]
<1> DEFINE below(i) == {m \in keep : m <= i}
           rank == [i \in keep |-> Cardinality(below(i))]
           c == Cardinality(keep)
           nth == [k \in 1..c |-> CHOOSE i \in keep : rank[i] = k]
<1>1. \A i \in keep : i \in Nat
  OBVIOUS
<1>2. IsFiniteSet(keep) /\ c \in Nat
  <2>1. IsFiniteSet(1..n)
    BY FS_Interval
  <2>2. IsFiniteSet(keep)
    BY <2>1, FS_Subset
  <2>3. QED
    BY <2>2, FS_CardinalityType
<1>3. ASSUME NEW i \in keep PROVE rank[i] \in 1..c
  <2>1. below(i) \in SUBSET keep
    OBVIOUS
  <2>2. IsFiniteSet(below(i)) /\ Cardinality(below(i)) <= c
    BY <1>2, <2>1, FS_Subset
  <2>3. Cardinality(below(i)) \in Nat /\ Cardinality(below(i)) # 0
    <3>1. i \in below(i)
      BY <1>1
    <3>2. QED
      BY <2>2, <3>1, FS_CardinalityType, FS_EmptySet
  <2>4. QED
    BY <1>2, <2>2, <2>3
<1>4. ASSUME NEW i \in keep, NEW j \in keep, i < j PROVE rank[i] < rank[j]
  <2>1. below(i) \in SUBSET below(j) /\ below(i) # below(j)
    <3>1. j \in below(j) /\ j \notin below(i)
      BY <1>1, <1>4
    <3>2. \A m \in below(i) : m \in below(j)
      BY <1>1, <1>4
    <3>3. QED
      BY <3>1, <3>2
  <2>2. below(j) \in SUBSET keep /\ IsFiniteSet(below(j))
    BY <1>2, FS_Subset
  <2>3. /\ Cardinality(below(i)) <= Cardinality(below(j))
        /\ Cardinality(below(i)) # Cardinality(below(j))
    BY <2>1, <2>2, FS_Subset
  <2>4. Cardinality(below(i)) = rank[i] /\ Cardinality(below(j)) = rank[j]
    OBVIOUS
  <2>5. rank[i] \in Nat /\ rank[j] \in Nat
    BY <1>3, <1>2
  <2> HIDE DEF rank, below
  <2>6. QED
    BY <2>3, <2>4, <2>5
<1>5. rank \in Surjection(keep, 1..c) /\ rank \in Injection(keep, 1..c)
  <2>1. rank \in [keep -> 1..c]
    BY <1>3
  <2>2. \A i, j \in keep : rank[i] = rank[j] => i = j
    <3> SUFFICES ASSUME NEW i \in keep, NEW j \in keep, i # j PROVE rank[i] # rank[j]
      OBVIOUS
    <3>1. i < j \/ j < i
      BY <1>1
    <3>2. rank[i] \in Nat /\ rank[j] \in Nat
      BY <1>2, <1>3
    <3> HIDE DEF rank
    <3>3. QED
      BY <1>4, <3>1, <3>2
  <2>3. rank \in Injection(keep, 1..c)
    BY <2>1, <2>2 DEF Injection, IsInjective
  <2>4. IsFiniteSet(1..c) /\ Cardinality(1..c) = c
    BY <1>2, FS_Interval
  <2>5. QED
    BY <2>3, <2>4, FS_Injection
<1>6. ASSUME NEW k \in 1..c PROVE nth[k] \in keep /\ rank[nth[k]] = k
  BY <1>5 DEF Surjection
<1>7. ASSUME NEW i \in keep PROVE \E k \in 1..c : nth[k] = i
  <2> DEFINE k == rank[i]
  <2>1. k \in 1..c
    BY <1>3
  <2>2. nth[k] \in keep /\ rank[nth[k]] = k
    BY <2>1, <1>6
  <2>3. nth[k] = i
    BY <1>5, <2>2 DEF Injection, IsInjective
  <2>4. QED
    BY <2>1, <2>3
<1>8. ASSUME NEW j \in 1..c, NEW k \in 1..c, j < k PROVE nth[j] < nth[k]
  <2>1. /\ nth[j] \in keep /\ nth[k] \in keep
        /\ rank[nth[j]] = j /\ rank[nth[k]] = k
    BY <1>6
  <2>2. nth[j] \in Nat /\ nth[k] \in Nat /\ j \in Nat /\ k \in Nat
    <3>1. j \in Nat /\ k \in Nat
      BY <1>2
    <3>2. nth[j] \in Nat /\ nth[k] \in Nat
      BY <1>1, <2>1, Zenon
    <3>3. QED
      BY <3>1, <3>2
  <2>3. ASSUME nth[k] < nth[j] PROVE FALSE
    <3>1. rank[nth[k]] < rank[nth[j]]
      BY <1>4, <2>1, <2>3
    <3>2. k < j
      BY <2>1, <3>1, Zenon
    <3>3. QED
      BY <1>8, <2>2, <3>2
  <2>4. ASSUME nth[k] = nth[j] PROVE FALSE
    <3>1. k = j
      BY <2>1, <2>4, Zenon
    <3>2. QED
      BY <1>8, <2>2, <3>1
  <2> HIDE DEF nth, rank
  <2>5. QED
    BY <2>2, <2>3, <2>4
<1>9. Places(keep) = nth
  BY DEF Places
<1>10. nth \in [1..c -> keep]
  <2> HIDE DEF rank
  <2>1. QED
    BY <1>6
<1> HIDE DEF nth, rank
<1>11. QED
  BY <1>2, <1>7, <1>8, <1>9, <1>10

\* A sieve that keeps every position keeps the list.
LEMMA SieveAll ==
    ASSUME NEW S, NEW s \in Seq(S)
    PROVE  Sieve(s, 1..Len(s)) = s
<1> DEFINE n == Len(s)
           keep == 1..n
           rank == [i \in keep |-> Cardinality({m \in keep : m <= i})]
           nth == [k \in 1..Cardinality(keep) |-> CHOOSE i \in keep : rank[i] = k]
<1>1. n \in Nat /\ Cardinality(keep) = n /\ DOMAIN s = 1..n /\ s = [k \in 1..n |-> s[k]]
  <2>1. n \in Nat /\ DOMAIN s = 1..n /\ s = [k \in 1..n |-> s[k]]
    OBVIOUS
  <2>2. Cardinality(1..n) = n
    BY <2>1, FS_Interval
  <2>3. QED
    BY <2>1, <2>2
<1>2. ASSUME NEW i \in keep PROVE rank[i] = i
  <2>1. {m \in keep : m <= i} = 1..i /\ i \in Nat
    BY <1>1
  <2>2. Cardinality(1..i) = i
    BY <2>1, FS_Interval
  <2>3. QED
    BY <2>1, <2>2
<1>3. Sieve(s, keep) = [k \in 1..n |-> s[nth[k]]]
  BY <1>1 DEF Sieve
<1>4. ASSUME NEW k \in 1..n PROVE nth[k] = k
  <2>1. nth[k] = CHOOSE i \in keep : rank[i] = k
    BY <1>1
  <2> HIDE DEF rank, nth
  <2>2. k \in keep /\ rank[k] = k
    BY <1>2
  <2>3. (CHOOSE i \in keep : rank[i] = k) \in keep /\ rank[CHOOSE i \in keep : rank[i] = k] = k
    BY <2>2
  <2>4. QED
    BY <2>1, <2>3, <1>2
<1> HIDE DEF nth
<1>5. Sieve(s, keep) = [k \in 1..n |-> s[k]]
  BY <1>3, <1>4
<1>6. QED
  BY <1>1, <1>5

\* Every rune of a cleaned text is one that cleaning keeps: it is solid, or a space
\* right behind a solid rune with another one to come.
LEMMA SanitizedIsClean ==
    ASSUME NEW text \in Runes
    PROVE  /\ SanitizeText(text) \in Runes
           /\ \A i \in 1..Len(SanitizeText(text)) :
                  Solid(SanitizeText(text), i) \/ Separates(SanitizeText(text), i)
<1> DEFINE keep == {i \in 1..Len(text) : Solid(text, i) \/ Separates(text, i)}
           c == Cardinality(keep)
           at == Places(keep)
           t == SanitizeText(text)
<1>1. Len(text) \in Nat /\ keep \in SUBSET (1..Len(text)) /\ t = Sieve(text, keep)
  BY LenProperties DEF Runes, SanitizeText
<1>2. \A i \in 1..Len(text) : text[i] \in {"a", "space", "control"}
  BY DEF Runes
<1>3. \A i \in keep : i \in 1..Len(text) /\ (Solid(text, i) \/ Separates(text, i))
  OBVIOUS
<1>4. \A i \in 1..Len(text) : Solid(text, i) => i \in keep
  OBVIOUS
<1>5. \A i \in 1..Len(text) : text[i] = "control" => i \notin keep
  BY DEF Solid, Separates
<1> HIDE DEF keep, t
<1>6. /\ c \in Nat /\ t = [k \in 1..c |-> text[at[k]]]
      /\ at \in [1..c -> keep]
      /\ \A i \in keep : \E k \in 1..c : at[k] = i
      /\ \A j, k \in 1..c : j < k => at[j] < at[k]
  <2>1. t = [k \in 1..c |-> text[at[k]]]
    BY <1>1 DEF Sieve, Places
  <2>2. /\ c \in Nat /\ at \in [1..c -> keep]
        /\ \A i \in keep : \E k \in 1..c : at[k] = i
        /\ \A j, k \in 1..c : j < k => at[j] < at[k]
    BY <1>1, SievePlaces
  <2>3. QED
    BY <2>1, <2>2
<1> HIDE DEF at, c
<1>7. /\ t \in Runes /\ Len(t) = c
      /\ \A k \in 1..c : t[k] = text[at[k]] /\ at[k] \in keep /\ at[k] \in 1..Len(text)
  <2>1. \A k \in 1..c : t[k] = text[at[k]] /\ at[k] \in keep /\ at[k] \in 1..Len(text)
    BY <1>3, <1>6
  <2>2. t \in [1..c -> {"a", "space", "control"}]
    BY <1>2, <1>6, <2>1
  <2>3. t \in Seq({"a", "space", "control"}) /\ Len(t) = c
    BY <1>6, <2>2, SeqDef, LenProperties
  <2>4. QED
    BY <2>1, <2>3 DEF Runes
\* the order of the places is the order of the positions
<1>8. \A j, k \in 1..c : at[j] < at[k] => j < k
  <2> SUFFICES ASSUME NEW j \in 1..c, NEW k \in 1..c, at[j] < at[k], ~(j < k) PROVE FALSE
    OBVIOUS
  <2>1. at[j] \in Nat /\ at[k] \in Nat /\ j \in Nat /\ k \in Nat
    BY <1>1, <1>6, <1>7
  <2>2. k = j \/ k < j
    BY <2>1
  <2>3. QED
    BY <1>6, <2>1, <2>2
<1>9. ASSUME NEW i \in 1..c, ~Solid(t, i) PROVE Separates(t, i)
  <2>1. at[i] \in keep /\ at[i] \in 1..Len(text) /\ t[i] = text[at[i]]
    BY <1>7
  <2>2. Separates(text, at[i])
    BY <1>3, <1>9, <2>1 DEF Solid
  <2>3. PICK j \in 1..(at[i] - 1) : Solid(text, j) /\ \A k \in j+1..(at[i] - 1) : text[k] = "control"
    BY <2>2 DEF Separates
  <2>4. PICK m \in (at[i] + 1)..Len(text) : Solid(text, m)
    BY <2>2 DEF Separates
  <2>5. j \in 1..Len(text) /\ m \in 1..Len(text) /\ j < at[i] /\ at[i] < m
    BY <2>1, <2>3, <2>4, <1>1
  <2>6. PICK q \in 1..c : at[q] = j
    BY <1>4, <1>6, <2>3, <2>5
  <2>7. PICK r \in 1..c : at[r] = m
    BY <1>4, <1>6, <2>4, <2>5
  <2>8. q < i /\ i < r
    BY <1>8, <2>5, <2>6, <2>7
  <2>9. q = i - 1
    <3> SUFFICES ASSUME q # i - 1 PROVE FALSE
      OBVIOUS
    <3>1. q + 1 \in 1..c /\ q < q + 1 /\ q + 1 < i
      BY <1>6, <2>8
    <3>2. at[q] < at[q + 1] /\ at[q + 1] < at[i] /\ at[q + 1] \in keep /\ at[q + 1] \in 1..Len(text)
      BY <1>6, <1>7, <3>1
    <3>3. at[q + 1] \in j+1..(at[i] - 1)
      BY <2>1, <2>5, <2>6, <3>2
    <3>4. text[at[q + 1]] = "control"
      BY <2>3, <3>3
    <3>5. QED
      BY <1>5, <3>2, <3>4
  <2>10. Solid(t, q) /\ Solid(t, r)
    BY <1>7, <2>3, <2>4, <2>6, <2>7 DEF Solid
  <2>11. t[i] = "space"
    BY <2>1, <2>2 DEF Separates
  <2>12. q \in 1..(i - 1) /\ \A k \in (q + 1)..(i - 1) : t[k] = "control"
    BY <2>8, <2>9, <1>6
  <2>13. r \in (i + 1)..Len(t)
    BY <1>6, <1>7, <2>8
  <2>14. QED
    BY <2>10, <2>11, <2>12, <2>13 DEF Separates
<1>10. \A i \in 1..Len(t) : Solid(t, i) \/ Separates(t, i)
  BY <1>7, <1>9
<1>11. QED
  BY <1>7, <1>10 DEF t

\* Cleaning a text again changes nothing.
LEMMA SanitizeAgain ==
    ASSUME NEW text \in Runes
    PROVE  SanitizeText(text) \in Runes /\ SanitizeText(SanitizeText(text)) = SanitizeText(text)
<1> DEFINE t == SanitizeText(text)
<1>1. t \in Runes /\ \A i \in 1..Len(t) : Solid(t, i) \/ Separates(t, i)
  BY SanitizedIsClean
<1> HIDE DEF t
<1>2. {i \in 1..Len(t) : Solid(t, i) \/ Separates(t, i)} = 1..Len(t)
  BY <1>1
<1>3. Sieve(t, 1..Len(t)) = t
  BY <1>1, SieveAll DEF Runes
<1>4. SanitizeText(t) = t
  BY <1>2, <1>3 DEF SanitizeText
<1>5. QED
  BY <1>1, <1>4 DEF t

\* ... and so for a detail: its keys and strings, and how many there are.
LEMMA DetailAgain ==
    ASSUME NEW detail \in SUBSET (Runes \X Runes), IsFiniteSet(detail)
    PROVE  /\ SanitizeDetail(SanitizeDetail(detail)) = SanitizeDetail(detail)
           /\ GoodDetail(detail) => GoodDetail(SanitizeDetail(detail))
<1> DEFINE clean == SanitizeDetail(detail)
           both == [p \in detail |-> <<SanitizeText(p[1]), SanitizeText(p[2])>>]
           keys == {SanitizeText(p[1]) : p \in detail}
           again == {SanitizeText(p[1]) : p \in clean}
<1>1. \A p \in detail : /\ SanitizeText(p[1]) \in Runes /\ SanitizeText(SanitizeText(p[1])) = SanitizeText(p[1])
                        /\ SanitizeText(p[2]) \in Runes /\ SanitizeText(SanitizeText(p[2])) = SanitizeText(p[2])
  <2> TAKE p \in detail
  <2>1. p[1] \in Runes /\ p[2] \in Runes
    OBVIOUS
  <2>2. QED
    BY <2>1, SanitizeAgain
<1>2. clean = {<<SanitizeText(p[1]), SanitizeText(p[2])>> : p \in detail}
  BY DEF SanitizeDetail
<1>3. \A p \in clean : <<SanitizeText(p[1]), SanitizeText(p[2])>> = p
  BY <1>1, <1>2
<1>4. SanitizeDetail(clean) = clean
  <2> HIDE DEF clean
  <2>1. SanitizeDetail(clean) = {<<SanitizeText(p[1]), SanitizeText(p[2])>> : p \in clean}
    BY DEF SanitizeDetail
  <2>2. QED
    BY <2>1, <1>3
<1>5. again = keys
  <2>1. \A p \in detail : SanitizeText(<<SanitizeText(p[1]), SanitizeText(p[2])>>[1]) = SanitizeText(p[1])
    BY <1>1
  <2>2. \A k \in again : k \in keys
    BY <1>2, <2>1
  <2>3. \A k \in keys : k \in again
    BY <1>2, <2>1
  <2> HIDE DEF again, keys
  <2>4. QED
    BY <2>2, <2>3
<1>6. IsFiniteSet(clean) /\ Cardinality(clean) <= Cardinality(detail)
  <2>1. both \in Surjection(detail, clean)
    <3>1. \A p \in detail : both[p] \in clean
      BY <1>2
    <3>2. \A q \in clean : \E p \in detail : both[p] = q
      BY <1>2
    <3> HIDE DEF clean
    <3>3. both \in [detail -> clean]
      BY <3>1
    <3>4. QED
      BY <3>2, <3>3 DEF Surjection
  <2>2. QED
    BY <2>1, FS_Surjection
<1>7. Cardinality(keys) <= Cardinality(clean)
  <2> DEFINE key == [p \in clean |-> SanitizeText(p[1])]
  <2>1. key \in Surjection(clean, again)
    <3> HIDE DEF clean
    <3>1. key \in [clean -> again] /\ \A k \in again : \E p \in clean : key[p] = k
      OBVIOUS
    <3>2. QED
      BY <3>1 DEF Surjection
  <2>2. QED
    BY <1>5, <1>6, <2>1, FS_Surjection
<1>8. Cardinality(clean) \in Nat /\ Cardinality(detail) \in Nat
  BY <1>6, FS_CardinalityType
<1>9. ASSUME GoodDetail(detail) PROVE GoodDetail(clean)
  <2>1. /\ Cardinality(detail) <= MaxNodes
        /\ Cardinality(keys) = Cardinality(detail)
        /\ \A p \in clean : Fits(p[1], 1) /\ Fits(p[2], 0)
    BY <1>9 DEF GoodDetail
  <2> HIDE DEF keys, again, clean
  <2>2. Cardinality(clean) = Cardinality(detail)
    BY <1>6, <1>7, <1>8, <2>1
  <2>3. Cardinality(clean) <= MaxNodes /\ Cardinality(again) = Cardinality(clean)
    BY <1>5, <2>1, <2>2
  <2>4. QED
    BY <1>4, <2>1, <2>3 DEF GoodDetail, again
<1>10. QED
  BY <1>4, <1>9

\* What validation accepts and cleans is canonical: a snapshot shows it.
LEMMA CleanIsCanonical ==
    ASSUME NEW n \in Accepted
    PROVE  Clean[n] \in Canonical
<1> DEFINE raw == Raw[n]
           clean == ValidateCreate(raw)
<1>1. n \in Notices /\ Valid(raw) /\ Clean[n] = clean /\ Clean[n] \in Range(Clean)
  BY DEF Accepted, Clean, Range
<1>2. /\ raw.title \in Runes /\ raw.detail \in SUBSET (Runes \X Runes) /\ IsFiniteSet(raw.detail)
  BY <1>1, NoticesAssumption DEF Content
<1>3. clean.title = SanitizeText(raw.title) /\ clean.detail = SanitizeDetail(raw.detail)
  BY DEF ValidateCreate
<1>4. SanitizeText(clean.title) = clean.title
  BY <1>2, <1>3, SanitizeAgain
<1>5. /\ SanitizeDetail(clean.detail) = clean.detail
      /\ GoodDetail(raw.detail) => GoodDetail(clean.detail)
  BY <1>2, <1>3, DetailAgain
<1>6. Valid(clean)
  BY <1>1, <1>3, <1>4, <1>5 DEF Valid
<1>7. ValidateCreate(clean) = clean
  <2>1. ValidateCreate(clean) = [title |-> SanitizeText(clean.title), detail |-> SanitizeDetail(clean.detail)]
    BY DEF ValidateCreate
  <2>2. clean = [title |-> SanitizeText(raw.title), detail |-> SanitizeDetail(raw.detail)]
    BY DEF ValidateCreate
  <2>3. QED
    BY <2>1, <2>2, <1>3, <1>4, <1>5
<1>8. QED
  BY <1>1, <1>6, <1>7 DEF Canonical

\* A snapshot of a store whose texts are canonical has a row for each id, in order.
LEMMA RowsOf ==
    ASSUME NEW ord \in Seq(Notices), NEW it, \A k \in 1..Len(ord) : it[ord[k]] \in Canonical
    PROVE  Sieve(ord, {k \in 1..Len(ord) : it[ord[k]] \in Canonical}) = ord
<1>1. {k \in 1..Len(ord) : it[ord[k]] \in Canonical} = 1..Len(ord)
  OBVIOUS
<1>2. QED
  BY <1>1, SieveAll

-----------------------------------------------------------------------------
(* The invariant.                                                          *)

Entries == [id : Notices, read : BOOLEAN]
StateFrames == [type : {"state"}, rows : SUBSET Entries, unread : Nat, change : Change]
PageFrames == [type : {"page"}, rows : SUBSET Entries, done : BOOLEAN, next : Notices \cup {NoNotice}]
ErrorFrames == [type : {"error"}, of : {"state", "page", "read", "read-all"},
                code : {"failed", "not_found"}, id : Notices \cup {NoNotice}]
Frames == StateFrames \cup PageFrames \cup ErrorFrames
Requests == [type : {"state", "read-all"}] \cup [type : {"page"}, before : Notices \cup {NoNotice}]
            \cup [type : {"read"}, id : Notices]

Replies == {f \in Frames : f.type = "page" \/ (f.type = "error" /\ f.of = "page")}
PageRequests == {r \in Requests : r.type = "page"}
Snapshots == {f \in Frames : (f.type = "state" /\ f.change.kind = "none") \/ (f.type = "error" /\ f.of = "state")}

Types ==
    /\ conn \in [Browsers -> {"off", "joining", "live"}]
    /\ hand \in [Browsers -> SUBSET Snapshots] /\ \A b \in Browsers : \A f, g \in hand[b] : f = g
    /\ inbox \in [Browsers -> Seq(Frames)] /\ outbox \in [Browsers -> Seq(Requests)]
    /\ view \in [Browsers -> View] /\ reading \in [Browsers -> SUBSET Notices]
    /\ stale \subseteq Browsers

\* What is stored was accepted, and is what validation made of it.
StoreOK ==
    /\ order \in Seq(Notices) /\ IsInjective(order) /\ Len(order) <= Retain
    /\ DOMAIN items = Range(order) /\ read \subseteq Range(order) /\ asked \subseteq Notices
    /\ \A i \in Range(order) : i \in Accepted /\ items[i] = Clean[i]

\* None, or exactly one, of the elements of s is in T.
NoneOf(s, T) == \A i \in 1..Len(s) : s[i] \notin T
OneOf(s, T) == \E i \in 1..Len(s) : s[i] \in T /\ \A j \in 1..Len(s) : s[j] \in T => j = i

\* A page that waits has one request or one answer under way, for the page it
\* waits for; a page that does not has none.
Wanted(v) == IF v.request = "replace" THEN NoNotice ELSE v.next
ExchangeOK(in, out, v) ==
    /\ \/ v.request = "none" /\ NoneOf(out, PageRequests) /\ NoneOf(in, Replies)
       \/ v.request # "none" /\ OneOf(out, PageRequests) /\ NoneOf(in, Replies)
       \/ v.request # "none" /\ NoneOf(out, PageRequests) /\ OneOf(in, Replies)
    /\ \A i \in 1..Len(out) : out[i] \in PageRequests => out[i].before = Wanted(v)

\* The last state on its way to a browser, or else the one it shows, is that of
\* the store.
RowsNow(T, rd) == {[id |-> i, read |-> i \in rd] : i \in T}
Current(x, ord, rd) ==
    /\ x.rows = RowsNow(FirstOf(ord, Recent), rd)
    /\ x.unread = Cardinality(Range(ord) \ rd)
StateOK(cn, h, in, v, ord, rd) ==
    /\ \A f \in h : IF f.type = "state" THEN Current(f, ord, rd) ELSE cn = "live"
    /\ \A i \in 1..Len(in) :
          in[i].type = "state" /\ (\A k \in i+1..Len(in) : in[k].type # "state") => Current(in[i], ord, rd)
    /\ cn = "live" /\ (\A k \in 1..Len(in) : in[k].type # "state") => Current(v, ord, rd)

\* No frame behind position i tells of a creation.
Announces(f) == f.type = "state" /\ f.change.kind = "created"
Fresh(in, i) == \A k \in i+1..Len(in) : ~Announces(in[k])

\* rows are those from j to k of the list, and x says where it goes on.
Ids(rows) == {r.id : r \in rows}
Spans(rows, ord, j, k) == Ids(rows) = {ord[x] : x \in j+1..k}
EndsAt(x, ord, k) == (x.done <=> k = Len(ord)) /\ (~x.done => k > 0 /\ x.next = ord[k])
Continues(f, ord, k) == \E m \in k..Len(ord) : Spans(f.rows, ord, k, m) /\ EndsAt(f, ord, m)

\* The list of the page will stay: nothing was created since, nothing failed.
Settled(in, v) == Fresh(in, 0) /\ ~v.reload /\ ~v.failed /\ v.request # "replace"
ListOK(in, v, ord) ==
    /\ v.reload => v.request # "none" \/ v.failed
    /\ Settled(in, v) => \E k \in 0..Len(ord) :
          /\ Spans(v.loaded, ord, 0, k) /\ EndsAt(v, ord, k)
          /\ v.request = "older" => k < Len(ord)
          /\ \A i \in 1..Len(in) : in[i].type = "page" => Continues(in[i], ord, k)
    /\ v.request = "replace" =>
          \A i \in 1..Len(in) : in[i].type = "page" /\ Fresh(in, i) => Continues(in[i], ord, 0)

\* A mark that rows lack is told by a frame behind them.
Covers(f, n) ==
    f.type = "state" /\ (f.change.kind = "read-all" \/ (f.change.kind = "read" /\ f.change.id = n))
Marked(rows, in, i, rd) == \A r \in rows :
    /\ r.read => r.id \in rd
    /\ r.id \in rd => r.read \/ \E k \in i+1..Len(in) : Covers(in[k], r.id)
MarksOK(in, v, ord, rd) ==
    /\ Settled(in, v) => Marked(v.loaded, in, 0, rd)
    /\ \A i \in 1..Len(in) : in[i].type \in {"state", "page"} /\ Fresh(in, i) => Marked(in[i].rows, in, i, rd)
    /\ \A i \in 1..Len(in) : in[i].type = "state" /\ Fresh(in, i) =>
          /\ in[i].change.kind = "read" => in[i].change.id \in rd
          /\ in[i].change.kind = "read-all" => Range(ord) \subseteq rd

BrowserOK(b, cn, h, in, out, v, st, ord, rd) ==
    /\ cn = "off" => h = {} /\ in = <<>> /\ out = <<>>
    /\ ExchangeOK(in, out, v)
    /\ cn # "off" /\ b \notin st =>
          StateOK(cn, h, in, v, ord, rd) /\ ListOK(in, v, ord) /\ MarksOK(in, v, ord, rd)

NotificationsInv ==
    /\ Types /\ StoreOK
    /\ \A b \in Browsers :
          BrowserOK(b, conn[b], hand[b], inbox[b], outbox[b], view[b], stale, order, read)

-----------------------------------------------------------------------------
(* Lists that get an element at the end, or lose their first.              *)

\* What appending does to the elements of a sequence.
LEMMA Longer ==
    ASSUME NEW S, NEW s \in Seq(S), NEW x \in S
    PROVE  /\ Append(s, x) \in Seq(S) /\ Len(s) \in Nat /\ Len(Append(s, x)) = Len(s) + 1
           /\ \A i \in 1..Len(s) : Append(s, x)[i] = s[i]
           /\ Append(s, x)[Len(s) + 1] = x
BY AppendProperties

\* What taking the head does to them.
LEMMA Shorter ==
    ASSUME NEW S, NEW s \in Seq(S), s # <<>>
    PROVE  /\ Tail(s) \in Seq(S) /\ Len(Tail(s)) \in Nat /\ Len(s) = Len(Tail(s)) + 1
           /\ Head(s) = s[1] /\ Head(s) \in S
           /\ \A i \in 1..Len(Tail(s)) : Tail(s)[i] = s[i + 1]
<1>1. Tail(s) \in Seq(S) /\ Head(s) \in S /\ Head(s) = s[1] /\ Len(Tail(s)) = Len(s) - 1
  BY HeadTailProperties
<1>2. Len(s) \in Nat /\ Len(s) # 0 /\ Len(Tail(s)) \in Nat
  BY <1>1, EmptySeq
<1>3. \A i \in 1..Len(Tail(s)) : Tail(s)[i] = s[i + 1]
  BY HeadTailProperties
<1>4. QED
  BY <1>1, <1>2, <1>3

\* An element of another kind changes nothing about those of a kind.
LEMMA NoneLonger ==
    ASSUME NEW S, NEW s \in Seq(S), NEW x \in S, NEW T, x \notin T, NoneOf(s, T)
    PROVE  NoneOf(Append(s, x), T)
<1>1. /\ Len(s) \in Nat /\ Len(Append(s, x)) = Len(s) + 1 /\ Append(s, x)[Len(s) + 1] = x
      /\ \A i \in 1..Len(s) : Append(s, x)[i] = s[i]
  BY Longer
<1>2. ASSUME NEW i \in 1..Len(Append(s, x)) PROVE Append(s, x)[i] \notin T
  <2>1. i \in 1..Len(s) \/ i = Len(s) + 1
    BY <1>1
  <2>2. QED
    BY <1>1, <2>1 DEF NoneOf
<1>3. QED
  BY <1>2 DEF NoneOf

\* Nor does it when there is one of the kind.
LEMMA OneLonger ==
    ASSUME NEW S, NEW s \in Seq(S), NEW x \in S, NEW T, x \notin T, OneOf(s, T)
    PROVE  OneOf(Append(s, x), T)
<1>1. /\ Len(s) \in Nat /\ Len(Append(s, x)) = Len(s) + 1 /\ Append(s, x)[Len(s) + 1] = x
      /\ \A i \in 1..Len(s) : Append(s, x)[i] = s[i]
  BY Longer
<1>2. PICK i \in 1..Len(s) : s[i] \in T /\ \A j \in 1..Len(s) : s[j] \in T => j = i
  BY DEF OneOf
<1>3. i \in 1..Len(Append(s, x)) /\ Append(s, x)[i] \in T
  BY <1>1, <1>2
<1>4. ASSUME NEW j \in 1..Len(Append(s, x)), Append(s, x)[j] \in T PROVE j = i
  <2>1. j \in 1..Len(s) \/ j = Len(s) + 1
    BY <1>1
  <2>2. QED
    BY <1>1, <1>2, <1>4, <2>1
<1>5. QED
  BY <1>3, <1>4 DEF OneOf

\* The first of a kind is the only one.
LEMMA OneNew ==
    ASSUME NEW S, NEW s \in Seq(S), NEW x \in S, NEW T, x \in T, NoneOf(s, T)
    PROVE  OneOf(Append(s, x), T)
<1>1. /\ Len(s) \in Nat /\ Len(Append(s, x)) = Len(s) + 1 /\ Append(s, x)[Len(s) + 1] = x
      /\ \A i \in 1..Len(s) : Append(s, x)[i] = s[i]
  BY Longer
<1>2. Len(s) + 1 \in 1..Len(Append(s, x))
  BY <1>1
<1>3. ASSUME NEW j \in 1..Len(Append(s, x)), Append(s, x)[j] \in T PROVE j = Len(s) + 1
  <2>1. j \in 1..Len(s) \/ j = Len(s) + 1
    BY <1>1
  <2>2. QED
    BY <1>1, <1>3, <2>1 DEF NoneOf
<1>4. QED
  BY <1>1, <1>2, <1>3 DEF OneOf

\* A sequence without a kind stays without it when its head is taken.
LEMMA NoneShorter ==
    ASSUME NEW S, NEW s \in Seq(S), s # <<>>, NEW T, NoneOf(s, T)
    PROVE  Head(s) \notin T /\ NoneOf(Tail(s), T)
<1>1. /\ Len(Tail(s)) \in Nat /\ Len(s) = Len(Tail(s)) + 1 /\ Head(s) = s[1]
      /\ \A i \in 1..Len(Tail(s)) : Tail(s)[i] = s[i + 1]
  BY Shorter
<1>2. 1 \in 1..Len(s) /\ \A i \in 1..Len(Tail(s)) : i + 1 \in 1..Len(s)
  BY <1>1
<1>3. QED
  BY <1>1, <1>2 DEF NoneOf

\* One with a single element of a kind keeps it, or had it at its head.
LEMMA OneShorter ==
    ASSUME NEW S, NEW s \in Seq(S), s # <<>>, NEW T, OneOf(s, T)
    PROVE  IF Head(s) \in T THEN NoneOf(Tail(s), T) ELSE OneOf(Tail(s), T)
<1>1. /\ Len(Tail(s)) \in Nat /\ Len(s) = Len(Tail(s)) + 1 /\ Head(s) = s[1]
      /\ \A i \in 1..Len(Tail(s)) : Tail(s)[i] = s[i + 1]
  BY Shorter
<1>2. PICK i \in 1..Len(s) : s[i] \in T /\ \A j \in 1..Len(s) : s[j] \in T => j = i
  BY DEF OneOf
<1>3. 1 \in 1..Len(s) /\ \A j \in 1..Len(Tail(s)) : j + 1 \in 1..Len(s) /\ j + 1 # 1
  BY <1>1
<1>4. CASE Head(s) \in T
  <2>1. i = 1
    BY <1>1, <1>2, <1>3, <1>4
  <2>2. \A j \in 1..Len(Tail(s)) : Tail(s)[j] \notin T
    BY <1>1, <1>2, <1>3, <2>1
  <2>3. QED
    BY <1>4, <2>2 DEF NoneOf
<1>5. CASE Head(s) \notin T
  <2>1. i # 1
    BY <1>1, <1>2, <1>5
  <2>2. i - 1 \in 1..Len(Tail(s)) /\ (i - 1) + 1 = i
    BY <1>1, <2>1
  <2>3. Tail(s)[i - 1] \in T
    BY <1>1, <1>2, <2>2
  <2>4. ASSUME NEW j \in 1..Len(Tail(s)), Tail(s)[j] \in T PROVE j = i - 1
    <3>1. j + 1 = i
      BY <1>1, <1>2, <1>3, <2>4
    <3>2. QED
      BY <1>1, <3>1
  <2>5. QED
    BY <1>5, <2>2, <2>3, <2>4 DEF OneOf
<1>6. QED
  BY <1>4, <1>5

-----------------------------------------------------------------------------
(* One page request at a time.                                             *)

\* A page that waits for nothing has nothing under way.
LEMMA ExchangeIdle ==
    ASSUME NEW in, NEW out, NEW v, ExchangeOK(in, out, v), v.request = "none"
    PROVE  NoneOf(out, PageRequests) /\ NoneOf(in, Replies)
BY DEF ExchangeOK

\* A frame that answers no page request.
LEMMA ExchangeHears ==
    ASSUME NEW in \in Seq(Frames), NEW out, NEW v, ExchangeOK(in, out, v),
           NEW f \in Frames, f \notin Replies
    PROVE  ExchangeOK(Append(in, f), out, v)
<1>1. NoneOf(in, Replies) => NoneOf(Append(in, f), Replies)
  BY NoneLonger
<1>2. OneOf(in, Replies) => OneOf(Append(in, f), Replies)
  BY OneLonger
<1>3. QED
  BY <1>1, <1>2 DEF ExchangeOK

\* The service takes a request that is not for a page.
LEMMA ExchangeTakes ==
    ASSUME NEW in, NEW out \in Seq(Requests), NEW v, ExchangeOK(in, out, v),
           out # <<>>, Head(out) \notin PageRequests
    PROVE  ExchangeOK(in, Tail(out), v)
<1>1. /\ NoneOf(out, PageRequests) => NoneOf(Tail(out), PageRequests)
      /\ OneOf(out, PageRequests) => OneOf(Tail(out), PageRequests)
  BY NoneShorter, OneShorter
<1>2. \A i \in 1..Len(Tail(out)) : Tail(out)[i] \in PageRequests => Tail(out)[i].before = Wanted(v)
  <2>1. /\ Len(Tail(out)) \in Nat /\ Len(out) = Len(Tail(out)) + 1
        /\ \A i \in 1..Len(Tail(out)) : Tail(out)[i] = out[i + 1]
    BY Shorter
  <2>2. \A i \in 1..Len(Tail(out)) : i + 1 \in 1..Len(out)
    BY <2>1
  <2>3. QED
    BY <2>1, <2>2 DEF ExchangeOK
<1>3. QED
  BY <1>1, <1>2 DEF ExchangeOK

\* It answers the one for a page.
LEMMA ExchangeAnswers ==
    ASSUME NEW in \in Seq(Frames), NEW out \in Seq(Requests), NEW v, ExchangeOK(in, out, v),
           out # <<>>, Head(out) \in PageRequests, NEW f \in Frames, f \in Replies
    PROVE  /\ ExchangeOK(Append(in, f), Tail(out), v)
           /\ v.request # "none" /\ Head(out).before = Wanted(v) /\ NoneOf(in, Replies)
<1>1. Head(out) = out[1] /\ 1 \in 1..Len(out)
  BY Shorter
<1>2. ~NoneOf(out, PageRequests)
  BY <1>1 DEF NoneOf
<1>3. v.request # "none" /\ OneOf(out, PageRequests) /\ NoneOf(in, Replies)
  BY <1>2 DEF ExchangeOK
<1>4. Head(out).before = Wanted(v)
  BY <1>1 DEF ExchangeOK
<1>5. NoneOf(Tail(out), PageRequests)
  BY <1>3, OneShorter
<1>6. OneOf(Append(in, f), Replies)
  BY <1>3, OneNew
<1>7. \A i \in 1..Len(Tail(out)) : Tail(out)[i] \notin PageRequests
  BY <1>5 DEF NoneOf
<1>8. QED
  BY <1>3, <1>4, <1>5, <1>6, <1>7 DEF ExchangeOK

\* The page reads a frame that answers no page request.
LEMMA ExchangeReads ==
    ASSUME NEW in \in Seq(Frames), NEW out, NEW v, ExchangeOK(in, out, v),
           in # <<>>, Head(in) \notin Replies, NEW w, w.request = v.request, w.next = v.next
    PROVE  ExchangeOK(Tail(in), out, w)
<1>1. /\ NoneOf(in, Replies) => NoneOf(Tail(in), Replies)
      /\ OneOf(in, Replies) => OneOf(Tail(in), Replies)
  BY NoneShorter, OneShorter
<1>2. Wanted(w) = Wanted(v)
  BY DEF Wanted
<1>3. QED
  BY <1>1, <1>2 DEF ExchangeOK

\* It reads the answer it waits for, and nothing else of that kind is under way.
LEMMA ExchangeEnds ==
    ASSUME NEW in \in Seq(Frames), NEW out, NEW v, ExchangeOK(in, out, v),
           in # <<>>, Head(in) \in Replies
    PROVE  v.request # "none" /\ NoneOf(out, PageRequests) /\ NoneOf(Tail(in), Replies)
<1>1. Head(in) = in[1] /\ 1 \in 1..Len(in)
  BY Shorter
<1>2. ~NoneOf(in, Replies)
  BY <1>1 DEF NoneOf
<1>3. v.request # "none" /\ NoneOf(out, PageRequests) /\ OneOf(in, Replies)
  BY <1>2 DEF ExchangeOK
<1>4. NoneOf(Tail(in), Replies)
  BY <1>3, OneShorter
<1>5. QED
  BY <1>3, <1>4

\* It sends a request that is not for a page.
LEMMA ExchangeSends ==
    ASSUME NEW in, NEW out \in Seq(Requests), NEW v, ExchangeOK(in, out, v),
           NEW r \in Requests, r \notin PageRequests
    PROVE  ExchangeOK(in, Append(out, r), v)
<1>1. NoneOf(out, PageRequests) => NoneOf(Append(out, r), PageRequests)
  BY NoneLonger
<1>2. OneOf(out, PageRequests) => OneOf(Append(out, r), PageRequests)
  BY OneLonger
<1>3. ASSUME NEW i \in 1..Len(Append(out, r)), Append(out, r)[i] \in PageRequests
      PROVE  Append(out, r)[i].before = Wanted(v)
  <2>1. /\ Len(out) \in Nat /\ Len(Append(out, r)) = Len(out) + 1 /\ Append(out, r)[Len(out) + 1] = r
        /\ \A k \in 1..Len(out) : Append(out, r)[k] = out[k]
    BY Longer
  <2>2. i \in 1..Len(out)
    BY <1>3, <2>1
  <2>3. QED
    BY <1>3, <2>1, <2>2 DEF ExchangeOK
<1>4. QED
  BY <1>1, <1>2, <1>3 DEF ExchangeOK

\* It asks for a page when nothing of that kind is under way.
LEMMA ExchangeAsks ==
    ASSUME NEW in, NEW out \in Seq(Requests), NoneOf(out, PageRequests), NoneOf(in, Replies),
           NEW r \in Requests, r \in PageRequests, NEW w, w.request # "none", r.before = Wanted(w)
    PROVE  ExchangeOK(in, Append(out, r), w)
<1>1. OneOf(Append(out, r), PageRequests)
  BY OneNew
<1>2. ASSUME NEW i \in 1..Len(Append(out, r)), Append(out, r)[i] \in PageRequests
      PROVE  Append(out, r)[i].before = Wanted(w)
  <2>1. /\ Len(out) \in Nat /\ Len(Append(out, r)) = Len(out) + 1 /\ Append(out, r)[Len(out) + 1] = r
        /\ \A k \in 1..Len(out) : Append(out, r)[k] = out[k]
    BY Longer
  <2>2. i \in 1..Len(out) \/ i = Len(out) + 1
    BY <2>1
  <2>3. QED
    BY <1>2, <2>1, <2>2 DEF NoneOf
<1>3. QED
  BY <1>1, <1>2 DEF ExchangeOK

\* Nothing is asked for and nothing is awaited.
LEMMA ExchangeRests ==
    ASSUME NEW in, NEW out, NoneOf(out, PageRequests), NoneOf(in, Replies), NEW w, w.request = "none"
    PROVE  ExchangeOK(in, out, w)
BY DEF ExchangeOK, NoneOf

-----------------------------------------------------------------------------
(* What a browser will show, as frames come and are read.                  *)

\* A frame has the fields of its type.
LEMMA FrameTypes ==
    ASSUME NEW f \in Frames
    PROVE  /\ f.type \in {"state", "page", "error"}
           /\ f.type = "state" => f \in StateFrames
           /\ f.type = "page" => f \in PageFrames
           /\ f.type = "error" => f \in ErrorFrames
<1>1. CASE f \in StateFrames
  BY <1>1 DEF StateFrames
<1>2. CASE f \in PageFrames
  BY <1>2 DEF PageFrames
<1>3. CASE f \in ErrorFrames
  BY <1>3 DEF ErrorFrames
<1>4. QED
  BY <1>1, <1>2, <1>3 DEF Frames

\* What announces nothing leaves as fresh what was.
LEMMA FreshLonger ==
    ASSUME NEW in \in Seq(Frames), NEW f \in Frames, ~Announces(f), NEW i \in Nat, i <= Len(in),
           Fresh(Append(in, f), i)
    PROVE  Fresh(in, i)
<1>1. /\ Len(in) \in Nat /\ Len(Append(in, f)) = Len(in) + 1
      /\ \A k \in 1..Len(in) : Append(in, f)[k] = in[k]
  BY Longer
<1>2. \A k \in i+1..Len(in) : k \in 1..Len(in) /\ k \in i+1..Len(Append(in, f))
  BY <1>1
<1>3. QED
  BY <1>1, <1>2 DEF Fresh

\* Reading moves every position down by one.
LEMMA FreshShorter ==
    ASSUME NEW in \in Seq(Frames), in # <<>>, NEW i \in Nat
    PROVE  /\ Fresh(Tail(in), i) => Fresh(in, i + 1)
           /\ Fresh(in, i) => Fresh(Tail(in), i)
           /\ Fresh(Tail(in), 0) /\ ~Announces(Head(in)) => Fresh(in, 0)
<1>1. /\ Len(Tail(in)) \in Nat /\ Len(in) = Len(Tail(in)) + 1 /\ Head(in) = in[1]
      /\ \A k \in 1..Len(Tail(in)) : Tail(in)[k] = in[k + 1]
  BY Shorter
<1>2. ASSUME NEW j \in Nat, Fresh(Tail(in), j), NEW k \in (j + 1) + 1..Len(in) PROVE ~Announces(in[k])
  <2> DEFINE m == k - 1
  <2>1. m \in j+1..Len(Tail(in)) /\ m \in 1..Len(Tail(in)) /\ k = m + 1
    BY <1>1
  <2> HIDE DEF m
  <2>2. QED
    BY <1>1, <1>2, <2>1 DEF Fresh
<1>3. Fresh(Tail(in), i) => Fresh(in, i + 1)
  BY <1>2 DEF Fresh
<1>4. ASSUME Fresh(in, i), NEW k \in i+1..Len(Tail(in)) PROVE ~Announces(Tail(in)[k])
  <2>1. k \in 1..Len(Tail(in)) /\ k + 1 \in i+1..Len(in)
    BY <1>1
  <2>2. QED
    BY <1>1, <1>4, <2>1 DEF Fresh
<1>5. Fresh(in, i) => Fresh(Tail(in), i)
  BY <1>4 DEF Fresh
<1>6. ASSUME Fresh(Tail(in), 0), ~Announces(Head(in)), NEW k \in 0+1..Len(in) PROVE ~Announces(in[k])
  <2>1. k = 1 \/ k \in (0 + 1) + 1..Len(in)
    BY <1>1
  <2>2. QED
    BY <1>1, <1>2, <1>6, <2>1
<1>7. Fresh(Tail(in), 0) /\ ~Announces(Head(in)) => Fresh(in, 0)
  BY <1>6 DEF Fresh
<1>8. QED
  BY <1>3, <1>5, <1>7

\* A state that comes is the last one; another frame leaves the last one.
LEMMA StateHears ==
    ASSUME NEW cn, NEW h, NEW in \in Seq(Frames), NEW v, NEW ord, NEW rd, StateOK(cn, h, in, v, ord, rd),
           NEW f \in Frames, NEW cn2, NEW ord2, NEW rd2,
           IF f.type = "state" THEN Current(f, ord2, rd2)
           ELSE ord2 = ord /\ rd2 = rd /\ (cn2 = "live" => cn = "live")
    PROVE  StateOK(cn2, {}, Append(in, f), v, ord2, rd2)
<1> DEFINE t == Append(in, f)
<1>1. /\ Len(in) \in Nat /\ Len(t) = Len(in) + 1 /\ t[Len(in) + 1] = f
      /\ \A k \in 1..Len(in) : t[k] = in[k]
  BY Longer
<1> HIDE DEF t
<1>2. ASSUME NEW i \in 1..Len(t), t[i].type = "state", \A k \in i+1..Len(t) : t[k].type # "state"
      PROVE  Current(t[i], ord2, rd2)
  <2>1. CASE i = Len(in) + 1
    BY <1>1, <1>2, <2>1
  <2>2. CASE i \in 1..Len(in)
    <3>1. Len(t) \in i+1..Len(t) /\ f.type # "state"
      BY <1>1, <1>2, <2>2
    <3>2. \A k \in i+1..Len(in) : k \in i+1..Len(t) /\ t[k] = in[k]
      BY <1>1, <2>2
    <3>3. \A k \in i+1..Len(in) : in[k].type # "state"
      BY <1>2, <3>2
    <3>4. in[i].type = "state" /\ t[i] = in[i]
      BY <1>1, <1>2, <2>2
    <3>5. Current(in[i], ord, rd)
      BY <2>2, <3>3, <3>4 DEF StateOK
    <3>6. QED
      BY <3>1, <3>4, <3>5
  <2>3. QED
    BY <1>1, <2>1, <2>2
<1>3. ASSUME cn2 = "live", \A k \in 1..Len(t) : t[k].type # "state" PROVE Current(v, ord2, rd2)
  <2>1. f.type # "state"
    BY <1>1, <1>3
  <2>2. \A k \in 1..Len(in) : in[k].type # "state"
    BY <1>1, <1>3
  <2>3. QED
    BY <1>3, <2>1, <2>2 DEF StateOK
<1>4. StateOK(cn2, {}, t, v, ord2, rd2)
  BY <1>2, <1>3 DEF StateOK
<1>5. QED
  BY <1>4 DEF t

\* The page shows the newest and the badge of a state it reads.
LEMMA StateReads ==
    ASSUME NEW cn, NEW h, NEW in \in Seq(Frames), NEW v, NEW ord, NEW rd, StateOK(cn, h, in, v, ord, rd),
           in # <<>>, NEW w,
           IF Head(in).type = "state" THEN w.rows = Head(in).rows /\ w.unread = Head(in).unread
           ELSE w.rows = v.rows /\ w.unread = v.unread
    PROVE  StateOK(cn, h, Tail(in), w, ord, rd)
<1> DEFINE t == Tail(in)
<1>1. /\ Len(t) \in Nat /\ Len(in) = Len(t) + 1 /\ Head(in) = in[1]
      /\ \A k \in 1..Len(t) : t[k] = in[k + 1]
  BY Shorter
<1> HIDE DEF t
<1>2. ASSUME NEW i \in Nat, \A k \in i+1..Len(t) : t[k].type # "state", NEW k \in (i + 1) + 1..Len(in)
      PROVE  in[k].type # "state"
  <2> DEFINE m == k - 1
  <2>1. m \in i+1..Len(t) /\ m \in 1..Len(t) /\ k = m + 1
    BY <1>1
  <2> HIDE DEF m
  <2>2. QED
    BY <1>1, <1>2, <2>1
<1>3. ASSUME NEW i \in 1..Len(t), t[i].type = "state", \A k \in i+1..Len(t) : t[k].type # "state"
      PROVE  Current(t[i], ord, rd)
  <2>1. i + 1 \in 1..Len(in) /\ t[i] = in[i + 1] /\ i \in Nat
    BY <1>1
  <2>2. \A k \in (i + 1) + 1..Len(in) : in[k].type # "state"
    BY <1>2, <1>3, <2>1
  <2>3. QED
    BY <1>3, <2>1, <2>2 DEF StateOK
<1>4. ASSUME cn = "live", \A k \in 1..Len(t) : t[k].type # "state" PROVE Current(w, ord, rd)
  <2>1. \A k \in 0+1..Len(t) : t[k].type # "state"
    BY <1>4
  <2>2. \A k \in (0 + 1) + 1..Len(in) : in[k].type # "state"
    BY <1>2, <2>1
  <2>3. CASE Head(in).type = "state"
    <3>1. 1 \in 1..Len(in) /\ \A k \in 1+1..Len(in) : in[k].type # "state"
      BY <1>1, <2>2
    <3>2. Current(in[1], ord, rd)
      BY <1>1, <2>3, <3>1 DEF StateOK
    <3>3. QED
      BY <1>1, <2>3, <3>2 DEF Current
  <2>4. CASE Head(in).type # "state"
    <3>1. \A k \in 1..Len(in) : k = 1 \/ k \in (0 + 1) + 1..Len(in)
      BY <1>1
    <3>2. \A k \in 1..Len(in) : in[k].type # "state"
      BY <1>1, <2>2, <2>4, <3>1
    <3>3. Current(v, ord, rd)
      BY <1>4, <3>2 DEF StateOK
    <3>4. QED
      BY <2>4, <3>3 DEF Current
  <2>5. QED
    BY <2>3, <2>4
<1>5. StateOK(cn, h, t, w, ord, rd)
  BY <1>3, <1>4 DEF StateOK
<1>6. QED
  BY <1>5 DEF t

\* A page that comes goes on where the list ends, or starts it anew.
LEMMA ListHears ==
    ASSUME NEW in \in Seq(Frames), NEW v, NEW ord, ListOK(in, v, ord),
           NEW f \in Frames, ~Announces(f),
           f.type = "page" /\ v.request = "replace" => Continues(f, ord, 0),
           f.type = "page" /\ v.request # "replace" => \A k \in 0..Len(ord) :
               EndsAt(v, ord, k) /\ (v.request = "older" => k < Len(ord)) => Continues(f, ord, k)
    PROVE  ListOK(Append(in, f), v, ord)
<1> DEFINE t == Append(in, f)
<1>1. /\ Len(in) \in Nat /\ Len(t) = Len(in) + 1 /\ t[Len(in) + 1] = f
      /\ \A k \in 1..Len(in) : t[k] = in[k]
  BY Longer
<1>2. \A i \in 0..Len(in) : Fresh(t, i) => Fresh(in, i)
  BY <1>1, FreshLonger
<1> HIDE DEF t
<1>3. \A i \in 1..Len(t) : i \in 1..Len(in) \/ i = Len(in) + 1
  BY <1>1
<1>4. ASSUME Settled(t, v) PROVE \E k \in 0..Len(ord) :
          /\ Spans(v.loaded, ord, 0, k) /\ EndsAt(v, ord, k)
          /\ v.request = "older" => k < Len(ord)
          /\ \A i \in 1..Len(t) : t[i].type = "page" => Continues(t[i], ord, k)
  <2>1. Settled(in, v)
    BY <1>1, <1>2, <1>4 DEF Settled
  <2>2. PICK k \in 0..Len(ord) :
          /\ Spans(v.loaded, ord, 0, k) /\ EndsAt(v, ord, k)
          /\ v.request = "older" => k < Len(ord)
          /\ \A i \in 1..Len(in) : in[i].type = "page" => Continues(in[i], ord, k)
    BY <2>1 DEF ListOK
  <2>3. f.type = "page" => Continues(f, ord, k)
    BY <1>4, <2>2 DEF Settled
  <2>4. \A i \in 1..Len(t) : t[i].type = "page" => Continues(t[i], ord, k)
    BY <1>1, <1>3, <2>2, <2>3
  <2>5. QED
    BY <2>2, <2>4
<1>5. ASSUME v.request = "replace", NEW i \in 1..Len(t), t[i].type = "page", Fresh(t, i)
      PROVE  Continues(t[i], ord, 0)
  <2>1. CASE i = Len(in) + 1
    BY <1>1, <1>5, <2>1
  <2>2. CASE i \in 1..Len(in)
    <3>1. Fresh(in, i) /\ t[i] = in[i]
      BY <1>1, <1>2, <1>5, <2>2
    <3>2. QED
      BY <1>5, <2>2, <3>1 DEF ListOK
  <2>3. QED
    BY <1>3, <2>1, <2>2
<1>6. v.reload => v.request # "none" \/ v.failed
  BY DEF ListOK
<1>7. ListOK(t, v, ord)
  BY <1>4, <1>5, <1>6 DEF ListOK
<1>8. QED
  BY <1>7 DEF t

\* Behind the frame that tells of a creation nothing has come yet.
LEMMA Announced ==
    ASSUME NEW in \in Seq(Frames), NEW f \in Frames, Announces(f), NEW i \in Nat, i <= Len(in)
    PROVE  ~Fresh(Append(in, f), i)
<1>1. Len(in) \in Nat /\ Len(Append(in, f)) = Len(in) + 1 /\ Append(in, f)[Len(in) + 1] = f
  BY Longer
<1>2. Len(in) + 1 \in i+1..Len(Append(in, f))
  BY <1>1
<1>3. QED
  BY <1>1, <1>2 DEF Fresh

\* After a creation the list may be anything: it will be loaded again.
LEMMA ListAnnounced ==
    ASSUME NEW in \in Seq(Frames), NEW v, NEW ord, ListOK(in, v, ord),
           NEW f \in Frames, Announces(f), NEW ord2
    PROVE  ListOK(Append(in, f), v, ord2)
<1> DEFINE t == Append(in, f)
<1>1. Len(in) \in Nat /\ Len(t) = Len(in) + 1 /\ t[Len(in) + 1] = f
  BY Longer
<1>2. \A i \in 0..Len(in) : ~Fresh(t, i)
  BY <1>1, Announced
<1> HIDE DEF t
<1>3. ~Settled(t, v)
  BY <1>1, <1>2 DEF Settled
<1>4. \A i \in 1..Len(t) : ~(t[i].type = "page" /\ Fresh(t, i))
  <2>1. \A i \in 1..Len(t) : i \in 0..Len(in) \/ i = Len(in) + 1
    BY <1>1
  <2>2. t[Len(in) + 1].type # "page"
    BY <1>1 DEF Announces
  <2>3. QED
    BY <1>2, <2>1, <2>2
<1>5. v.reload => v.request # "none" \/ v.failed
  BY DEF ListOK
<1>6. ListOK(t, v, ord2)
  BY <1>3, <1>4, <1>5 DEF ListOK
<1>7. QED
  BY <1>6 DEF t

\* The page reads a frame that leaves the ids of its list.
LEMMA ListReads ==
    ASSUME NEW in \in Seq(Frames), NEW v, NEW ord, ListOK(in, v, ord), in # <<>>,
           ~Announces(Head(in)), NEW w,
           w.request = v.request, w.reload <=> v.reload, w.failed = v.failed, w.next = v.next, w.done = v.done,
           Ids(w.loaded) = Ids(v.loaded)
    PROVE  ListOK(Tail(in), w, ord)
<1> DEFINE t == Tail(in)
<1>1. /\ Len(t) \in Nat /\ Len(in) = Len(t) + 1
      /\ \A k \in 1..Len(t) : t[k] = in[k + 1] /\ k + 1 \in 1..Len(in)
  <2>1. /\ Len(t) \in Nat /\ Len(in) = Len(t) + 1
        /\ \A k \in 1..Len(t) : t[k] = in[k + 1]
    BY Shorter
  <2>2. QED
    BY <2>1
<1>2. /\ \A i \in 1..Len(t) : Fresh(t, i) => Fresh(in, i + 1)
      /\ Fresh(t, 0) => Fresh(in, 0)
  BY <1>1, FreshShorter
<1> HIDE DEF t
<1>3. ASSUME Settled(t, w) PROVE \E k \in 0..Len(ord) :
          /\ Spans(w.loaded, ord, 0, k) /\ EndsAt(w, ord, k)
          /\ w.request = "older" => k < Len(ord)
          /\ \A i \in 1..Len(t) : t[i].type = "page" => Continues(t[i], ord, k)
  <2>1. Settled(in, v)
    BY <1>2, <1>3 DEF Settled
  <2>2. PICK k \in 0..Len(ord) :
          /\ Spans(v.loaded, ord, 0, k) /\ EndsAt(v, ord, k)
          /\ v.request = "older" => k < Len(ord)
          /\ \A i \in 1..Len(in) : in[i].type = "page" => Continues(in[i], ord, k)
    BY <2>1 DEF ListOK
  <2>3. Spans(w.loaded, ord, 0, k) /\ EndsAt(w, ord, k)
    BY <2>2 DEF Spans, EndsAt
  <2>4. \A i \in 1..Len(t) : t[i].type = "page" => Continues(t[i], ord, k)
    BY <1>1, <2>2
  <2>5. QED
    BY <2>2, <2>3, <2>4
<1>4. ASSUME w.request = "replace", NEW i \in 1..Len(t), t[i].type = "page", Fresh(t, i)
      PROVE  Continues(t[i], ord, 0)
  <2>1. i + 1 \in 1..Len(in) /\ t[i] = in[i + 1] /\ Fresh(in, i + 1) /\ v.request = "replace"
    BY <1>1, <1>2, <1>4
  <2>2. QED
    BY <1>4, <2>1 DEF ListOK
<1>5. w.reload => w.request # "none" \/ w.failed
  BY DEF ListOK
<1>6. ListOK(t, w, ord)
  BY <1>3, <1>4, <1>5 DEF ListOK
<1>7. QED
  BY <1>6 DEF t

\* The page reads that one was created: its list has to be loaded again.
LEMMA ListReloads ==
    ASSUME NEW in \in Seq(Frames), NEW v, NEW ord, ListOK(in, v, ord), in # <<>>, NEW w,
           w.reload \/ w.failed \/ w.request = "replace", w.reload => w.request # "none" \/ w.failed,
           w.request = "replace" => v.request = "replace" \/ NoneOf(Tail(in), Replies)
    PROVE  ListOK(Tail(in), w, ord)
<1> DEFINE t == Tail(in)
<1>1. /\ Len(t) \in Nat /\ Len(in) = Len(t) + 1
      /\ \A k \in 1..Len(t) : t[k] = in[k + 1] /\ k + 1 \in 1..Len(in)
  <2>1. /\ Len(t) \in Nat /\ Len(in) = Len(t) + 1
        /\ \A k \in 1..Len(t) : t[k] = in[k + 1]
    BY Shorter
  <2>2. QED
    BY <2>1
<1>2. \A i \in 1..Len(t) : Fresh(t, i) => Fresh(in, i + 1)
  BY <1>1, FreshShorter
<1> HIDE DEF t
<1>3. ~Settled(t, w)
  BY DEF Settled
<1>4. ASSUME w.request = "replace", NEW i \in 1..Len(t), t[i].type = "page", Fresh(t, i)
      PROVE  Continues(t[i], ord, 0)
  <2>1. i + 1 \in 1..Len(in) /\ t[i] = in[i + 1] /\ Fresh(in, i + 1)
    BY <1>1, <1>2, <1>4
  <2>2. in[i + 1] \in Frames
    BY <2>1
  <2>3. in[i + 1] \in Replies
    BY <1>4, <2>1, <2>2 DEF Replies
  <2>4. v.request = "replace"
    BY <1>4, <2>1, <2>3 DEF NoneOf, t
  <2>5. QED
    BY <1>4, <2>1, <2>4 DEF ListOK
<1>5. ListOK(t, w, ord)
  BY <1>3, <1>4 DEF ListOK
<1>6. QED
  BY <1>5 DEF t

\* The page reads the page it waits for: rows that start the list, or go on with it.
LEMMA ListTurns ==
    ASSUME NEW in \in Seq(Frames), NEW v, NEW ord \in Seq(Notices), ListOK(in, v, ord), in # <<>>,
           Head(in).type = "page", v.request # "none", NoneOf(Tail(in), Replies), NEW w,
           ~w.reload, w.request = IF v.reload THEN "replace" ELSE "none",
           w.done = Head(in).done, ~v.reload => w.next = Head(in).next,
           ~w.failed => ~v.failed \/ v.request = "replace",
           v.request = "replace" => w.loaded = Head(in).rows,
           v.request # "replace" =>
               w.loaded = v.loaded \cup {r \in Head(in).rows : ~\E l \in v.loaded : l.id = r.id}
    PROVE  ListOK(Tail(in), w, ord)
<1> DEFINE t == Tail(in)
           f == Head(in)
<1>1. /\ Len(t) \in Nat /\ Len(in) = Len(t) + 1 /\ f = in[1] /\ f \in Frames /\ 1 \in 1..Len(in)
      /\ \A k \in 1..Len(t) : t[k] = in[k + 1] /\ k + 1 \in 1..Len(in)
  <2>1. /\ Len(t) \in Nat /\ Len(in) = Len(t) + 1 /\ f = in[1] /\ f \in Frames
        /\ \A k \in 1..Len(t) : t[k] = in[k + 1]
    BY Shorter
  <2>2. QED
    BY <2>1
<1>2. ~Announces(f)
  BY DEF Announces
<1>3. /\ Fresh(t, 0) => Fresh(in, 1)
      /\ Fresh(t, 0) => Fresh(in, 0)
  <2>1. Fresh(t, 0) => Fresh(in, 0 + 1)
    BY FreshShorter
  <2>2. Fresh(t, 0) => Fresh(in, 0)
    BY <1>2, FreshShorter
  <2>3. QED
    BY <2>1, <2>2
<1>4. \A i \in 1..Len(t) : t[i].type # "page"
  <2>1. ASSUME NEW i \in 1..Len(t), t[i].type = "page" PROVE FALSE
    <3>1. t[i] \in Frames
      BY <1>1
    <3>2. t[i] \in Replies
      BY <2>1, <3>1 DEF Replies
    <3>3. QED
      BY <2>1, <3>2 DEF NoneOf
  <2>2. QED
    BY <2>1
<1> HIDE DEF t, f
<1>5. ASSUME Settled(t, w)
      PROVE  \E k \in 0..Len(ord) : Spans(w.loaded, ord, 0, k) /\ EndsAt(w, ord, k)
  <2>1. ~v.reload /\ Fresh(in, 1) /\ Fresh(in, 0) /\ w.next = f.next /\ w.done = f.done
    BY <1>3, <1>5 DEF Settled, f
  <2>2. CASE v.request = "replace"
    <3>1. Continues(f, ord, 0)
      BY <1>1, <2>1, <2>2 DEF ListOK, f
    <3>2. PICK m \in 0..Len(ord) : Spans(f.rows, ord, 0, m) /\ EndsAt(f, ord, m)
      BY <3>1 DEF Continues
    <3>3. Spans(w.loaded, ord, 0, m) /\ EndsAt(w, ord, m)
      BY <2>1, <2>2, <3>2 DEF EndsAt, f
    <3>4. QED
      BY <3>3
  <2>3. CASE v.request # "replace"
    <3>1. Settled(in, v)
      BY <1>5, <2>1, <2>3 DEF Settled
    <3>2. PICK k \in 0..Len(ord) : /\ Spans(v.loaded, ord, 0, k)
                                   /\ \A i \in 1..Len(in) : in[i].type = "page" => Continues(in[i], ord, k)
      BY <3>1 DEF ListOK
    <3>3. Continues(f, ord, k)
      BY <1>1, <3>2 DEF f
    <3>4. PICK m \in k..Len(ord) : Spans(f.rows, ord, k, m) /\ EndsAt(f, ord, m)
      BY <3>3 DEF Continues
    <3>5. Len(ord) \in Nat /\ m \in 0..Len(ord) /\ k <= m /\ k \in Nat /\ m \in Nat
      BY <3>2, <3>4, LenProperties
    <3>6. Ids(w.loaded) = Ids(v.loaded) \cup Ids(f.rows)
      <4>1. w.loaded = v.loaded \cup {r \in f.rows : ~\E l \in v.loaded : l.id = r.id}
        BY <2>3 DEF f
      <4>2. QED
        BY <4>1 DEF Ids
    <3>7. {ord[x] : x \in 0+1..m} = {ord[x] : x \in 0+1..k} \cup {ord[x] : x \in k+1..m}
      <4>1. 0+1..m = (0+1..k) \cup (k+1..m)
        BY <3>5
      <4>2. QED
        BY <4>1
    <3>8. Spans(w.loaded, ord, 0, m)
      BY <3>2, <3>4, <3>6, <3>7 DEF Spans
    <3>9. EndsAt(w, ord, m)
      BY <2>1, <3>4 DEF EndsAt
    <3>10. QED
      BY <3>5, <3>8, <3>9
  <2>4. QED
    BY <2>2, <2>3
<1>6. w.request # "older"
  OBVIOUS
<1>7. ListOK(t, w, ord)
  BY <1>4, <1>5, <1>6 DEF ListOK
<1>8. QED
  BY <1>7 DEF t

\* Rows as the store has them now.
TrueRows(rows, rd) == \A r \in rows : r.read <=> r.id \in rd

\* What is said of rows stays said when a frame comes that may mark more.
LEMMA MarkedLonger ==
    ASSUME NEW in \in Seq(Frames), NEW rows, NEW i \in Nat, i <= Len(in), NEW rd, Marked(rows, in, i, rd),
           NEW f \in Frames, NEW rd2, rd \subseteq rd2, \A n \in rd2 \ rd : Covers(f, n)
    PROVE  Marked(rows, Append(in, f), i, rd2)
<1> DEFINE t == Append(in, f)
<1>1. /\ Len(in) \in Nat /\ Len(t) = Len(in) + 1 /\ t[Len(in) + 1] = f
      /\ \A k \in 1..Len(in) : t[k] = in[k]
  BY Longer
<1> HIDE DEF t
<1>2. Len(in) + 1 \in i+1..Len(t) /\ \A k \in i+1..Len(in) : k \in 1..Len(in) /\ k \in i+1..Len(t)
  BY <1>1
<1>3. ASSUME NEW r \in rows PROVE r.read => r.id \in rd2
  BY DEF Marked
<1>4. ASSUME NEW r \in rows, r.id \in rd2, ~r.read PROVE \E k \in i+1..Len(t) : Covers(t[k], r.id)
  <2>1. CASE r.id \in rd
    <3>1. PICK k \in i+1..Len(in) : Covers(in[k], r.id)
      BY <1>4, <2>1 DEF Marked
    <3>2. QED
      BY <1>1, <1>2, <3>1
  <2>2. CASE r.id \notin rd
    BY <1>1, <1>2, <1>4, <2>2
  <2>3. QED
    BY <2>1, <2>2
<1>5. Marked(rows, t, i, rd2)
  BY <1>3, <1>4 DEF Marked
<1>6. QED
  BY <1>5 DEF t

\* Marks told behind a position are told behind it after a read.
LEMMA MarkedShorter ==
    ASSUME NEW in \in Seq(Frames), in # <<>>, NEW rows, NEW i \in Nat, NEW rd, Marked(rows, in, i + 1, rd)
    PROVE  Marked(rows, Tail(in), i, rd)
<1> DEFINE t == Tail(in)
<1>1. /\ Len(t) \in Nat /\ Len(in) = Len(t) + 1
      /\ \A k \in 1..Len(t) : t[k] = in[k + 1]
  BY Shorter
<1> HIDE DEF t
<1>2. ASSUME NEW r \in rows, r.id \in rd, ~r.read PROVE \E k \in i+1..Len(t) : Covers(t[k], r.id)
  <2>1. PICK k \in (i + 1) + 1..Len(in) : Covers(in[k], r.id)
    BY <1>2 DEF Marked
  <2> DEFINE m == k - 1
  <2>2. m \in i+1..Len(t) /\ m \in 1..Len(t) /\ k = m + 1
    BY <1>1
  <2> HIDE DEF m
  <2>3. Covers(t[m], r.id)
    BY <1>1, <2>1, <2>2
  <2>4. QED
    BY <2>2, <2>3
<1>3. \A r \in rows : r.read => r.id \in rd
  BY DEF Marked
<1>4. Marked(rows, t, i, rd)
  BY <1>2, <1>3 DEF Marked
<1>5. QED
  BY <1>4 DEF t

\* A frame comes that tells of marks, or of nothing; its rows are those of the store.
LEMMA MarksHears ==
    ASSUME NEW in \in Seq(Frames), NEW v, NEW ord, NEW rd, MarksOK(in, v, ord, rd),
           NEW f \in Frames, ~Announces(f),
           NEW rd2, rd \subseteq rd2, \A n \in rd2 \ rd : Covers(f, n),
           f.type \in {"state", "page"} => TrueRows(f.rows, rd2),
           f.type = "state" => /\ f.change.kind = "read" => f.change.id \in rd2
                               /\ f.change.kind = "read-all" => Range(ord) \subseteq rd2
    PROVE  MarksOK(Append(in, f), v, ord, rd2)
<1> DEFINE t == Append(in, f)
<1>1. /\ Len(in) \in Nat /\ Len(t) = Len(in) + 1 /\ t[Len(in) + 1] = f
      /\ \A k \in 1..Len(in) : t[k] = in[k]
  BY Longer
<1>2. \A i \in 0..Len(in) : Fresh(t, i) => Fresh(in, i)
  BY <1>1, FreshLonger
<1>3. \A i \in 0..Len(in) : \A rows : Marked(rows, in, i, rd) => Marked(rows, t, i, rd2)
  BY <1>1, MarkedLonger
<1> HIDE DEF t
<1>4. \A i \in 1..Len(t) : i \in 1..Len(in) \/ i = Len(in) + 1
  BY <1>1
<1>5. Settled(t, v) => Marked(v.loaded, t, 0, rd2)
  <2>1. Settled(t, v) => Settled(in, v)
    BY <1>1, <1>2 DEF Settled
  <2>2. QED
    BY <1>1, <1>3, <2>1 DEF MarksOK
<1>6. ASSUME NEW i \in 1..Len(t), t[i].type \in {"state", "page"}, Fresh(t, i)
      PROVE  Marked(t[i].rows, t, i, rd2)
  <2>1. CASE i = Len(in) + 1
    <3>1. TrueRows(t[i].rows, rd2)
      BY <1>1, <1>6, <2>1
    <3>2. QED
      BY <3>1 DEF TrueRows, Marked
  <2>2. CASE i \in 1..Len(in)
    <3>1. Fresh(in, i) /\ t[i] = in[i] /\ i \in 0..Len(in)
      BY <1>1, <1>2, <1>6, <2>2
    <3>2. Marked(in[i].rows, in, i, rd)
      BY <1>6, <2>2, <3>1 DEF MarksOK
    <3>3. QED
      BY <1>3, <3>1, <3>2
  <2>3. QED
    BY <1>4, <2>1, <2>2
<1>7. ASSUME NEW i \in 1..Len(t), t[i].type = "state", Fresh(t, i)
      PROVE  /\ t[i].change.kind = "read" => t[i].change.id \in rd2
             /\ t[i].change.kind = "read-all" => Range(ord) \subseteq rd2
  <2>1. CASE i = Len(in) + 1
    BY <1>1, <1>7, <2>1
  <2>2. CASE i \in 1..Len(in)
    <3>1. Fresh(in, i) /\ t[i] = in[i]
      BY <1>1, <1>2, <1>7, <2>2
    <3>2. /\ in[i].change.kind = "read" => in[i].change.id \in rd
          /\ in[i].change.kind = "read-all" => Range(ord) \subseteq rd
      BY <1>7, <2>2, <3>1 DEF MarksOK
    <3>3. QED
      BY <3>1, <3>2
  <2>3. QED
    BY <1>4, <2>1, <2>2
<1>8. MarksOK(t, v, ord, rd2)
  BY <1>5, <1>6, <1>7 DEF MarksOK
<1>9. QED
  BY <1>8 DEF t

\* After a creation only the rows that came with it are known to be marked.
LEMMA MarksAnnounced ==
    ASSUME NEW in \in Seq(Frames), NEW v, NEW f \in Frames, Announces(f),
           NEW ord2, NEW rd2, TrueRows(f.rows, rd2)
    PROVE  MarksOK(Append(in, f), v, ord2, rd2)
<1> DEFINE t == Append(in, f)
<1>1. Len(in) \in Nat /\ Len(t) = Len(in) + 1 /\ t[Len(in) + 1] = f
  BY Longer
<1>2. \A i \in 0..Len(in) : ~Fresh(t, i)
  BY <1>1, Announced
<1> HIDE DEF t
<1>3. ~Settled(t, v)
  BY <1>1, <1>2 DEF Settled
<1>4. \A i \in 1..Len(t) : Fresh(t, i) => t[i] = f
  BY <1>1, <1>2
<1>5. \A i : Marked(f.rows, t, i, rd2)
  BY DEF Marked, TrueRows
<1>6. f.change.kind # "read" /\ f.change.kind # "read-all"
  BY DEF Announces
<1>7. MarksOK(t, v, ord2, rd2)
  BY <1>3, <1>4, <1>5, <1>6 DEF MarksOK
<1>8. QED
  BY <1>7 DEF t

\* The page reads a frame, and the marks of its list are as they should be.
LEMMA MarksReads ==
    ASSUME NEW in \in Seq(Frames), in # <<>>, NEW v, NEW ord, NEW rd, MarksOK(in, v, ord, rd), NEW w,
           Settled(Tail(in), w) => Marked(w.loaded, Tail(in), 0, rd)
    PROVE  MarksOK(Tail(in), w, ord, rd)
<1> DEFINE t == Tail(in)
<1>1. \A i \in 1..Len(t) : i \in Nat /\ i + 1 \in 1..Len(in) /\ t[i] = in[i + 1]
  <2>1. /\ Len(t) \in Nat /\ Len(in) = Len(t) + 1
        /\ \A k \in 1..Len(t) : t[k] = in[k + 1]
    BY Shorter
  <2>2. QED
    BY <2>1
<1>2. \A i \in 1..Len(t) : Fresh(t, i) => Fresh(in, i + 1)
  BY <1>1, FreshShorter
<1>3. \A i \in 1..Len(t) : \A rows : Marked(rows, in, i + 1, rd) => Marked(rows, t, i, rd)
  BY <1>1, MarkedShorter
<1> HIDE DEF t
<1>4. ASSUME NEW i \in 1..Len(t), t[i].type \in {"state", "page"}, Fresh(t, i)
      PROVE  Marked(t[i].rows, t, i, rd)
  <2>1. Marked(in[i + 1].rows, in, i + 1, rd)
    BY <1>1, <1>2, <1>4 DEF MarksOK
  <2>2. QED
    BY <1>1, <1>3, <2>1
<1>5. ASSUME NEW i \in 1..Len(t), t[i].type = "state", Fresh(t, i)
      PROVE  /\ t[i].change.kind = "read" => t[i].change.id \in rd
             /\ t[i].change.kind = "read-all" => Range(ord) \subseteq rd
  <2>1. i + 1 \in 1..Len(in) /\ t[i] = in[i + 1] /\ Fresh(in, i + 1)
    BY <1>1, <1>2, <1>5
  <2>2. QED
    BY <1>5, <2>1 DEF MarksOK
<1>6. MarksOK(t, w, ord, rd)
  BY <1>4, <1>5 DEF MarksOK, t
<1>7. QED
  BY <1>6 DEF t

\* A list that takes over the change and the rows of a frame lists the same ids.
LEMMA MergedType ==
    ASSUME NEW loaded \in SUBSET Entries, NEW f \in StateFrames
    PROVE  /\ Merged(loaded, f) \in SUBSET Entries /\ Ids(Merged(loaded, f)) = Ids(loaded)
           /\ \A r \in Merged(loaded, f) :
                 \/ r \in f.rows
                 \/ \E l \in loaded : r.id = l.id /\ (r.read <=> l.read \/ Covers(f, l.id))
<1> DEFINE applied == AppliedChange(loaded, f.change)
           pick(l) == IF \E r \in f.rows : r.id = l.id THEN CHOOSE r \in f.rows : r.id = l.id ELSE l
<1>1. f.rows \in SUBSET Entries /\ f.type = "state"
  BY DEF StateFrames
<1>2. \A a \in applied : /\ a \in Entries
                         /\ \E l \in loaded : a.id = l.id /\ (a.read <=> l.read \/ Covers(f, l.id))
  <2> SUFFICES ASSUME NEW l \in loaded,
                      NEW a, a = [l EXCEPT !.read = l.read \/ f.change.kind = "read-all"
                                                   \/ (f.change.kind = "read" /\ l.id = f.change.id)]
               PROVE  a \in Entries /\ a.id = l.id /\ (a.read <=> l.read \/ Covers(f, l.id))
    BY DEF AppliedChange
  <2>1. l \in Entries
    OBVIOUS
  <2> DEFINE m == l.read \/ f.change.kind = "read-all" \/ (f.change.kind = "read" /\ l.id = f.change.id)
  <2>2. m \in BOOLEAN /\ (m <=> l.read \/ Covers(f, l.id))
    BY <1>1 DEF Covers
  <2>3. a = [l EXCEPT !.read = m]
    OBVIOUS
  <2> HIDE DEF m
  <2>4. a \in Entries /\ a.id = l.id /\ a.read = m
    BY <2>1, <2>2, <2>3 DEF Entries
  <2>5. QED
    BY <2>2, <2>4
<1>3. \A l \in loaded : \E a \in applied : a.id = l.id
  <2> TAKE l \in loaded
  <2> DEFINE a == [l EXCEPT !.read = l.read \/ f.change.kind = "read-all"
                                     \/ (f.change.kind = "read" /\ l.id = f.change.id)]
  <2>1. a \in applied
    BY DEF AppliedChange
  <2>2. a.id = l.id
    BY DEF Entries
  <2>3. QED
    BY <2>1, <2>2
<1>4. \A l \in applied : pick(l).id = l.id /\ (pick(l) \in f.rows \/ pick(l) = l)
  OBVIOUS
<1>5. Merged(loaded, f) = {pick(l) : l \in applied}
  BY DEF Merged
<1> HIDE DEF applied, pick
<1>6. Merged(loaded, f) \in SUBSET Entries
  BY <1>1, <1>2, <1>4, <1>5
<1>7. \A r \in Merged(loaded, f) :
         \/ r \in f.rows
         \/ \E l \in loaded : r.id = l.id /\ (r.read <=> l.read \/ Covers(f, l.id))
  BY <1>2, <1>4, <1>5
<1>8. Ids(Merged(loaded, f)) = Ids(loaded)
  <2>1. \A r \in Merged(loaded, f) : \E l \in loaded : r.id = l.id
    BY <1>2, <1>4, <1>5
  <2>2. \A l \in loaded : \E r \in Merged(loaded, f) : r.id = l.id
    BY <1>3, <1>4, <1>5
  <2>3. QED
    BY <2>1, <2>2 DEF Ids
<1>9. QED
  BY <1>6, <1>7, <1>8

\* ... and it misses no mark that a frame behind does not tell.
LEMMA MergedMarks ==
    ASSUME NEW in \in Seq(Frames), in # <<>>, NEW f, f = Head(in), f \in StateFrames,
           NEW loaded \in SUBSET Entries, NEW ord, NEW rd,
           Marked(loaded, in, 0, rd), Marked(f.rows, in, 1, rd), Ids(loaded) \subseteq Range(ord),
           f.change.kind = "read" => f.change.id \in rd,
           f.change.kind = "read-all" => Range(ord) \subseteq rd
    PROVE  Marked(Merged(loaded, f), Tail(in), 0, rd)
<1> DEFINE t == Tail(in)
<1>1. /\ Len(t) \in Nat /\ Len(in) = Len(t) + 1 /\ f = in[1]
      /\ \A k \in 1..Len(t) : t[k] = in[k + 1]
  BY Shorter
<1>2. Marked(f.rows, t, 0, rd)
  <2>1. Marked(f.rows, in, 0 + 1, rd)
    OBVIOUS
  <2>2. QED
    BY <2>1, MarkedShorter
<1> HIDE DEF t
<1>3. ASSUME NEW l \in loaded, l.read \/ Covers(f, l.id) PROVE l.id \in rd
  <2>1. l.id \in Range(ord)
    BY DEF Ids
  <2>2. CASE l.read
    BY <2>2 DEF Marked
  <2>3. CASE Covers(f, l.id)
    BY <2>1, <2>3 DEF Covers
  <2>4. QED
    BY <1>3, <2>2, <2>3
<1>4. ASSUME NEW l \in loaded, l.id \in rd, ~l.read, ~Covers(f, l.id)
      PROVE  \E k \in 0+1..Len(t) : Covers(t[k], l.id)
  <2>1. PICK k \in 0+1..Len(in) : Covers(in[k], l.id)
    BY <1>4 DEF Marked
  <2> DEFINE m == k - 1
  <2>2. k # 1
    BY <1>1, <1>4, <2>1
  <2>3. m \in 0+1..Len(t) /\ m \in 1..Len(t) /\ k = m + 1
    BY <1>1, <2>2
  <2> HIDE DEF m
  <2>4. Covers(t[m], l.id)
    BY <1>1, <2>1, <2>3
  <2>5. QED
    BY <2>3, <2>4
<1>5. ASSUME NEW r \in Merged(loaded, f)
      PROVE  /\ r.read => r.id \in rd
             /\ r.id \in rd => r.read \/ \E k \in 0+1..Len(t) : Covers(t[k], r.id)
  <2>1. CASE r \in f.rows
    BY <1>2, <2>1 DEF Marked
  <2>2. CASE r \notin f.rows
    <3>1. PICK l \in loaded : r.id = l.id /\ (r.read <=> l.read \/ Covers(f, l.id))
      BY <2>2, MergedType
    <3>2. QED
      BY <1>3, <1>4, <3>1
  <2>3. QED
    BY <2>1, <2>2
<1>6. Marked(Merged(loaded, f), t, 0, rd)
  BY <1>5 DEF Marked
<1>7. QED
  BY <1>6 DEF t

-----------------------------------------------------------------------------
(* The store, and the frames that are made from it.                        *)

\* A list has finitely many elements, so those unread can be counted.
LEMMA RangeFinite ==
    ASSUME NEW S, NEW s \in Seq(S), NEW T
    PROVE  Cardinality(Range(s) \ T) \in Nat
<1>1. Len(s) \in Nat /\ DOMAIN s = 1..Len(s) /\ IsFiniteSet(1..Len(s))
  BY FS_Interval
<1>2. s \in Surjection(1..Len(s), Range(s))
  <2>1. s \in [1..Len(s) -> Range(s)]
    BY <1>1 DEF Range
  <2>2. \A y \in Range(s) : \E i \in 1..Len(s) : s[i] = y
    BY <1>1 DEF Range
  <2>3. QED
    BY <2>1, <2>2 DEF Surjection
<1>3. IsFiniteSet(Range(s))
  BY <1>1, <1>2, FS_Surjection
<1>4. IsFiniteSet(Range(s) \ T)
  <2>1. Range(s) \ T \in SUBSET Range(s)
    OBVIOUS
  <2>2. QED
    BY <1>3, <2>1, FS_Subset
<1>5. QED
  BY <1>4, FS_CardinalityType

\* Rows made from the store have its marks.
LEMMA RowsAreTrue ==
    ASSUME NEW T, NEW rd
    PROVE  /\ TrueRows(RowsNow(T, rd), rd) /\ Ids(RowsNow(T, rd)) = T
           /\ T \subseteq Notices => RowsNow(T, rd) \in SUBSET Entries
<1>1. ASSUME NEW i \in T
      PROVE  LET r == [id |-> i, read |-> i \in rd] IN
             r.id = i /\ (r.read <=> i \in rd) /\ (i \in Notices => r \in Entries)
  <2> DEFINE m == i \in rd
             r == [id |-> i, read |-> m]
  <2>1. m \in BOOLEAN
    OBVIOUS
  <2> HIDE DEF m
  <2>2. r.id = i /\ r.read = m
    OBVIOUS
  <2>3. i \in Notices => r \in Entries
    BY <2>1 DEF Entries
  <2> HIDE DEF r
  <2>4. r.read <=> i \in rd
    BY <2>2 DEF m
  <2>5. r.id = i /\ (r.read <=> i \in rd) /\ (i \in Notices => r \in Entries)
    BY <2>2, <2>3, <2>4
  <2>6. QED
    BY <2>5 DEF r, m
<1>2. ASSUME NEW r \in RowsNow(T, rd) PROVE \E i \in T : r = [id |-> i, read |-> i \in rd]
  BY DEF RowsNow
<1>3. ASSUME NEW r \in RowsNow(T, rd)
      PROVE  r.id \in T /\ (r.read <=> r.id \in rd) /\ (r.id \in Notices => r \in Entries)
  <2>1. PICK i \in T : r = [id |-> i, read |-> i \in rd]
    BY <1>2
  <2>2. r.id = i /\ (r.read <=> i \in rd) /\ (i \in Notices => r \in Entries)
    BY <1>1, <2>1
  <2>3. QED
    BY <2>2
<1>4. ASSUME NEW i \in T PROVE \E r \in RowsNow(T, rd) : r.id = i
  BY <1>1 DEF RowsNow
<1>5. Ids(RowsNow(T, rd)) = T
  BY <1>3, <1>4 DEF Ids
<1>6. QED
  BY <1>3, <1>5 DEF TrueRows

\* A state frame shows the newest rows, with their marks, and the number unread.
Snapshot(ord, rd, change) ==
    [type |-> "state", rows |-> RowsNow(FirstOf(ord, Recent), rd),
     unread |-> Cardinality(Range(ord) \ rd), change |-> change]

\* Such a frame is the state of the store it was made from.
LEMMA SnapshotIs ==
    ASSUME NEW ord \in Seq(Notices), NEW rd, NEW change \in Change
    PROVE  LET f == Snapshot(ord, rd, change) IN
           /\ f \in Frames /\ f \in StateFrames /\ f.type = "state" /\ f.change = change
           /\ Current(f, ord, rd) /\ TrueRows(f.rows, rd)
<1> DEFINE f == Snapshot(ord, rd, change)
           r == RowsNow(FirstOf(ord, Recent), rd)
           u == Cardinality(Range(ord) \ rd)
<1>1. FirstOf(ord, Recent) \subseteq Notices
  BY DEF FirstOf
<1>2. r \in SUBSET Entries /\ TrueRows(r, rd)
  BY <1>1, RowsAreTrue
<1>3. u \in Nat
  BY RangeFinite
<1>4. f = [type |-> "state", rows |-> r, unread |-> u, change |-> change]
  BY DEF Snapshot
<1> HIDE DEF f, r, u
<1>5. f.type = "state" /\ f.rows = r /\ f.unread = u /\ f.change = change
  BY <1>4
<1>6. f \in StateFrames
  BY <1>2, <1>3, <1>4 DEF StateFrames
<1>7. Current(f, ord, rd)
  BY <1>5 DEF Current, r, u
<1>8. f \in Frames /\ TrueRows(f.rows, rd)
  BY <1>2, <1>5, <1>6 DEF Frames
<1>9. QED
  BY <1>5, <1>6, <1>7, <1>8 DEF f

\* Everything stored is in the form validation gives it.
LEMMA CanonicalStore ==
    ASSUME NEW ord \in Seq(Notices), NEW it, \A i \in Range(ord) : i \in Accepted /\ it[i] = Clean[i]
    PROVE  \A k \in 1..Len(ord) : it[ord[k]] \in Canonical
<1>1. \A k \in 1..Len(ord) : ord[k] \in Range(ord)
  BY DEF Range
<1>2. QED
  BY <1>1, CleanIsCanonical

\* A snapshot shows what is stored, all of it and in its order.
LEMMA RowsAreOrder ==
    ASSUME StoreOK
    PROVE  Rows = order
<1>1. order \in Seq(Notices) /\ \A k \in 1..Len(order) : items[order[k]] \in Canonical
  BY CanonicalStore DEF StoreOK
<1>2. QED
  BY <1>1, RowsOf DEF Rows

\* The frame a handler reads is a snapshot of the store.
LEMMA StateFrameNow ==
    ASSUME StoreOK, NEW change
    PROVE  StateFrame(change) = Snapshot(order, read, change)
BY RowsAreOrder DEF StateFrame, Snapshot, RowsNow, Row

\* So is the one made after a script, of the store it left.
LEMMA StateFrameNext ==
    ASSUME StoreOK', NEW change
    PROVE  StateFrame(change)' = Snapshot(order', read', change)
<1>1. order' \in Seq(Notices) /\ \A k \in 1..Len(order') : items'[order'[k]] \in Canonical
  BY CanonicalStore DEF StoreOK
<1>2. Rows' = order'
  BY <1>1, RowsOf DEF Rows
<1>3. QED
  BY <1>2 DEF StateFrame, Snapshot, RowsNow, Row

\* A page holds the rows behind its cursor, and says where the next one starts.
LEMMA PageIs ==
    ASSUME StoreOK, NEW before, NEW start \in 0..Len(order),
           IF before = NoNotice THEN start = 0 ELSE start > 0 /\ before = order[start],
           NEW cut \in {1, Limit}
    PROVE  /\ PageOf(before, cut) \in Frames /\ PageOf(before, cut).type = "page"
           /\ Continues(PageOf(before, cut), order, start) /\ TrueRows(PageOf(before, cut).rows, read)
<1> DEFINE f == PageOf(before, cut)
           n == Len(order)
           full == IF start + Limit < n THEN start + Limit ELSE n
           end == IF full - start > cut THEN start + cut ELSE full
           ids == {order[k] : k \in start+1..end}
           rows == RowsNow(ids, read)
<1>1. order \in Seq(Notices) /\ n \in Nat /\ DOMAIN order = 1..n /\ start \in Nat
  BY DEF StoreOK
<1>2. Limit \in Nat /\ Limit > 0 /\ cut \in Nat /\ cut > 0
  BY SizesAssumption
<1>3. before # NoNotice => (CHOOSE k \in DOMAIN order : order[k] = before) = start
  <2> SUFFICES ASSUME before # NoNotice PROVE (CHOOSE k \in DOMAIN order : order[k] = before) = start
    OBVIOUS
  <2>1. start \in DOMAIN order /\ order[start] = before
    BY <1>1
  <2>2. \A k \in DOMAIN order : order[k] = before => k = start
    BY <2>1 DEF StoreOK, IsInjective
  <2>3. QED
    BY <2>1, <2>2
<1>4. f = [type |-> "page", rows |-> rows, done |-> end = n,
           next |-> IF end < n THEN order[end] ELSE NoNotice]
  <2>1. f = [type |-> "page", rows |-> {Row(order[k]) : k \in start+1..end}, done |-> end = n,
             next |-> IF end < n THEN order[end] ELSE NoNotice]
    <3> DEFINE first == IF before = NoNotice THEN 0 ELSE CHOOSE k \in DOMAIN order : order[k] = before
               last(s) == IF s + Limit < n THEN s + Limit ELSE n
               stop(s) == IF last(s) - s > cut THEN s + cut ELSE last(s)
               told(s) == [type |-> "page", rows |-> {Row(order[k]) : k \in s+1..stop(s)}, done |-> stop(s) = n,
                           next |-> IF stop(s) < n THEN order[stop(s)] ELSE NoNotice]
    <3>1. first = start
      BY <1>3
    <3>2. f = told(first)
      <4>1. Rows = order
        BY RowsAreOrder
      <4>2. QED
        BY <4>1 DEF PageOf
    <3>3. told(first) = told(start)
      <4> HIDE DEF first, told
      <4>1. QED
        BY <3>1
    <3>4. QED
      BY <3>2, <3>3
  <2>2. {Row(order[k]) : k \in start+1..end} = rows
    <3> HIDE DEF end, full
    <3>1. QED
      BY DEF Row, RowsNow
  <2>3. QED
    BY <2>1, <2>2
<1>5. end \in start..n /\ end \in Nat /\ (end < n => end > 0)
  <2>1. full \in start..n /\ full \in Nat
    BY <1>1, <1>2
  <2> HIDE DEF full
  <2>2. CASE full - start > cut
    <3>1. end = start + cut
      BY <2>2
    <3> HIDE DEF end
    <3>2. QED
      BY <1>1, <1>2, <2>1, <2>2, <3>1
  <2>3. CASE ~(full - start > cut)
    <3>1. end = full
      BY <2>3
    <3>2. full < n => full = start + Limit
      BY <1>1, <1>2 DEF full
    <3> HIDE DEF end
    <3>3. QED
      BY <1>1, <1>2, <2>1, <3>1, <3>2
  <2>4. QED
    BY <2>2, <2>3
<1>6. end < n => end > 0 /\ end \in 1..n /\ order[end] \in Notices
  BY <1>1, <1>5
<1> HIDE DEF f, end, full
<1>7. ids \subseteq Notices
  BY <1>1, <1>5
<1>8. rows \in SUBSET Entries /\ Ids(rows) = ids /\ TrueRows(rows, read)
  <2> HIDE DEF ids
  <2>1. QED
    BY <1>7, RowsAreTrue
<1> HIDE DEF rows
<1>9. f.type = "page" /\ f.rows = rows /\ f.done = (end = n) /\ f.next = IF end < n THEN order[end] ELSE NoNotice
  BY <1>4
<1>10. f \in Frames
  <2> DEFINE d == end = n
             x == IF end < n THEN order[end] ELSE NoNotice
  <2>1. d \in BOOLEAN /\ x \in Notices \cup {NoNotice}
    BY <1>6
  <2>2. f = [type |-> "page", rows |-> rows, done |-> d, next |-> x]
    BY <1>4
  <2> HIDE DEF d, x, rows
  <2>3. f \in PageFrames
    BY <1>8, <2>1, <2>2 DEF PageFrames
  <2>4. QED
    BY <2>3 DEF Frames
<1>12. TrueRows(f.rows, read)
  BY <1>8, <1>9
<1>13. (f.done <=> end = n) /\ (~f.done => end > 0 /\ f.next = order[end])
  <2>1. f.done <=> end = n
    BY <1>9
  <2>2. end # n => end < n
    <3>1. end \in Nat /\ n \in Nat /\ end <= n
      BY <1>1, <1>5
    <3>2. QED
      BY <3>1
  <2>3. QED
    BY <1>6, <1>9, <2>1, <2>2
<1>14. Continues(f, order, start)
  BY <1>5, <1>8, <1>9, <1>13 DEF Continues, Spans, EndsAt
<1>15. QED
  BY <1>9, <1>10, <1>12, <1>14 DEF f

\* Creating keeps a list of distinct notifications that were all accepted.
LEMMA CreatedStore ==
    ASSUME StoreOK, NEW n \in Accepted, n \notin DOMAIN items, Created(n), asked' \subseteq Notices
    PROVE  StoreOK' /\ read' = read \cap Range(order')
<1> DEFINE s == <<n>> \o order
           top == IF Len(order) < Retain THEN Len(order) + 1 ELSE Retain
           kept == SubSeq(s, 1, top)
<1>1. /\ order \in Seq(Notices) /\ Len(order) \in Nat /\ DOMAIN order = 1..Len(order)
      /\ n \in Notices /\ Retain \in Nat /\ Retain > 0 /\ Len(order) <= Retain
  BY SizesAssumption DEF StoreOK, Accepted
<1>2. /\ s \in Seq(Notices) /\ Len(s) = Len(order) + 1 /\ s[1] = n
      /\ \A i \in 1..Len(order) : s[i + 1] = order[i]
  <2>1. <<n>> \in Seq(Notices) /\ Len(<<n>>) = 1 /\ <<n>>[1] = n
    BY <1>1
  <2>2. s \in Seq(Notices) /\ Len(s) = 1 + Len(order)
    BY <1>1, <2>1, ConcatProperties
  <2>3. \A i \in 1..Len(s) : s[i] = IF i <= Len(<<n>>) THEN <<n>>[i] ELSE order[i - Len(<<n>>)]
    BY <1>1, <2>1, ConcatProperties
  <2>4. s[1] = n
    BY <1>1, <2>1, <2>2, <2>3
  <2>5. ASSUME NEW i \in 1..Len(order) PROVE s[i + 1] = order[i]
    <3>1. i + 1 \in 1..Len(s) /\ ~(i + 1 <= 1) /\ (i + 1) - 1 = i
      BY <1>1, <2>2
    <3>2. QED
      BY <2>1, <2>3, <3>1
  <2>6. QED
    BY <1>1, <2>2, <2>4, <2>5
<1>3. top \in 1..Len(s) /\ top <= Retain
  BY <1>1, <1>2
<1> HIDE DEF s, top
<1>4. /\ kept \in Seq(Notices) /\ Len(kept) = top /\ DOMAIN kept = 1..top
      /\ \A i \in 1..top : kept[i] = s[i]
  <2>1. kept \in Seq(Notices)
    BY <1>2, <1>3
  <2>2. Len(kept) = top /\ \A i \in 1..top : kept[i] = s[i]
    BY <1>1, <1>2, <1>3
  <2>3. QED
    BY <1>2, <1>3, <2>1, <2>2
<1>5. order' = kept
  BY DEF Created, Kept, s, top
<1> HIDE DEF kept
<1>6. \A i \in 1..top : i = 1 \/ (i - 1 \in 1..Len(order) /\ kept[i] = order[i - 1])
  <2> TAKE i \in 1..top
  <2> DEFINE j == i - 1
  <2>1. i # 1 => j \in 1..Len(order) /\ i = j + 1
    BY <1>1, <1>2, <1>3
  <2>2. i # 1 => s[j + 1] = order[j]
    BY <1>2, <2>1
  <2> HIDE DEF j
  <2>3. i # 1 => j \in 1..Len(order) /\ kept[i] = order[j]
    BY <1>4, <2>1, <2>2
  <2>4. QED
    BY <2>3 DEF j
<1>7. kept[1] = n
  BY <1>2, <1>3, <1>4
<1>8. n \notin Range(order)
  BY DEF StoreOK
<1>9. Range(kept) \subseteq {n} \cup Range(order) /\ n \in Range(kept)
  <2>1. 1 \in DOMAIN kept /\ n \in Range(kept)
    BY <1>3, <1>4, <1>7 DEF Range
  <2>2. \A i \in 1..top : kept[i] = n \/ kept[i] \in Range(order)
    <3> TAKE i \in 1..top
    <3>1. CASE i = 1
      BY <1>7, <3>1
    <3>2. CASE i # 1
      <4>1. i - 1 \in DOMAIN order /\ kept[i] = order[i - 1]
        BY <1>1, <1>6, <3>2
      <4>2. QED
        BY <4>1 DEF Range
    <3>3. QED
      BY <3>1, <3>2
  <2>3. QED
    BY <1>4, <2>1, <2>2 DEF Range
<1>10. IsInjective(kept)
  <2> SUFFICES ASSUME NEW i \in 1..top, NEW k \in 1..top, kept[i] = kept[k], i # k PROVE FALSE
    BY <1>4 DEF IsInjective
  <2>1. CASE i = 1
    BY <1>1, <1>6, <1>7, <1>8, <2>1 DEF Range
  <2>2. CASE k = 1
    BY <1>1, <1>6, <1>7, <1>8, <2>2 DEF Range
  <2>3. CASE i # 1 /\ k # 1
    <3>1. /\ i - 1 \in DOMAIN order /\ k - 1 \in DOMAIN order /\ order[i - 1] = order[k - 1]
          /\ i - 1 # k - 1
      BY <1>1, <1>6, <2>3
    <3>2. QED
      BY <3>1 DEF StoreOK, IsInjective
  <2>4. QED
    BY <2>1, <2>2, <2>3
<1>11. /\ items' = [i \in Range(kept) |-> IF i = n THEN Clean[n] ELSE items[i]]
       /\ read' = read \cap Range(kept)
  BY <1>5 DEF Created
<1>12. \A i \in Range(kept) : i \in Accepted /\ items'[i] = Clean[i]
  BY <1>9, <1>11 DEF StoreOK
<1>13. QED
  BY <1>3, <1>4, <1>5, <1>10, <1>11, <1>12 DEF StoreOK

-----------------------------------------------------------------------------
(* What keeps a browser right.                                             *)

\* A frame that comes: a state of the store now, perhaps with new marks, or the
\* news that a state or a mark failed.
LEMMA BrowserHears ==
    ASSUME NEW b, NEW cn, NEW h, NEW in \in Seq(Frames), NEW out, NEW v, NEW st, NEW ord, NEW rd,
           BrowserOK(b, cn, h, in, out, v, st, ord, rd), cn # "off",
           NEW f \in Frames, f \notin Replies, ~Announces(f),
           NEW cn2, cn2 # "off", NEW h2, NEW st2, b \notin st2 => b \notin st /\ h2 = {},
           NEW rd2, rd \subseteq rd2, \A n \in rd2 \ rd : b \in st2 \/ Covers(f, n),
           b \notin st2 =>
               IF f.type = "state"
               THEN /\ Current(f, ord, rd2) /\ TrueRows(f.rows, rd2)
                    /\ f.change.kind = "read" => f.change.id \in rd2
                    /\ f.change.kind = "read-all" => Range(ord) \subseteq rd2
               ELSE rd2 = rd /\ (cn2 = "live" => cn = "live")
    PROVE  BrowserOK(b, cn2, h2, Append(in, f), out, v, st2, ord, rd2)
<1>1. ExchangeOK(Append(in, f), out, v)
  BY ExchangeHears DEF BrowserOK
<1>2. f.type # "page"
  BY DEF Replies
<1>3. ASSUME b \notin st2
      PROVE  StateOK(cn2, h2, Append(in, f), v, ord, rd2) /\ ListOK(Append(in, f), v, ord)
             /\ MarksOK(Append(in, f), v, ord, rd2)
  <2>1. StateOK(cn, h, in, v, ord, rd) /\ ListOK(in, v, ord) /\ MarksOK(in, v, ord, rd) /\ h2 = {}
    BY <1>3 DEF BrowserOK
  <2>2. StateOK(cn2, {}, Append(in, f), v, ord, rd2)
    BY <1>3, <2>1, StateHears
  <2>3. ListOK(Append(in, f), v, ord)
    BY <1>2, <2>1, ListHears
  <2>4. \A n \in rd2 \ rd : Covers(f, n)
    BY <1>3
  <2>5. /\ f.type \in {"state", "page"} => TrueRows(f.rows, rd2)
        /\ f.type = "state" => /\ f.change.kind = "read" => f.change.id \in rd2
                               /\ f.change.kind = "read-all" => Range(ord) \subseteq rd2
    BY <1>2, <1>3
  <2>6. MarksOK(Append(in, f), v, ord, rd2)
    BY <2>1, <2>4, <2>5, MarksHears
  <2>7. QED
    BY <2>1, <2>2, <2>3, <2>6
<1>4. QED
  BY <1>1, <1>3 DEF BrowserOK

\* The state that tells of a creation.
LEMMA BrowserAnnounced ==
    ASSUME NEW b, NEW cn, NEW h, NEW in \in Seq(Frames), NEW out, NEW v, NEW st, NEW ord, NEW rd,
           BrowserOK(b, cn, h, in, out, v, st, ord, rd), cn # "off",
           NEW f \in Frames, Announces(f), NEW st2, b \notin st2 => b \notin st /\ h = {},
           NEW ord2, NEW rd2, Current(f, ord2, rd2), TrueRows(f.rows, rd2)
    PROVE  BrowserOK(b, cn, h, Append(in, f), out, v, st2, ord2, rd2)
<1>1. f \notin Replies /\ f.type = "state"
  BY DEF Announces, Replies
<1>2. ExchangeOK(Append(in, f), out, v)
  BY <1>1, ExchangeHears DEF BrowserOK
<1>3. ASSUME b \notin st2
      PROVE  StateOK(cn, h, Append(in, f), v, ord2, rd2) /\ ListOK(Append(in, f), v, ord2)
             /\ MarksOK(Append(in, f), v, ord2, rd2)
  <2>1. StateOK(cn, h, in, v, ord, rd) /\ ListOK(in, v, ord) /\ h = {}
    BY <1>3 DEF BrowserOK
  <2>2. StateOK(cn, {}, Append(in, f), v, ord2, rd2)
    BY <1>1, <2>1, StateHears
  <2>3. QED
    BY <2>1, <2>2, ListAnnounced, MarksAnnounced
<1>4. QED
  BY <1>2, <1>3 DEF BrowserOK

\* The answer to a request for a page.
LEMMA BrowserAnswered ==
    ASSUME NEW b, NEW cn, NEW h, NEW in \in Seq(Frames), NEW out \in Seq(Requests), NEW v \in View, NEW st,
           NEW ord, NEW rd, BrowserOK(b, cn, h, in, out, v, st, ord, rd), cn # "off", h = {},
           out # <<>>, Head(out) \in PageRequests, NEW f \in Frames, f \in Replies,
           f.type = "page" => TrueRows(f.rows, rd),
           f.type = "page" /\ Head(out).before = NoNotice => Continues(f, ord, 0),
           f.type = "page" => \A k \in 1..Len(ord) : Head(out).before = ord[k] => Continues(f, ord, k)
    PROVE  BrowserOK(b, cn, h, Append(in, f), Tail(out), v, st, ord, rd)
<1>1. /\ ExchangeOK(Append(in, f), Tail(out), v)
      /\ v.request # "none" /\ Head(out).before = Wanted(v)
  BY ExchangeAnswers DEF BrowserOK
<1>2. ~Announces(f) /\ f.type # "state"
  BY DEF Announces, Replies
<1>3. ASSUME b \notin st
      PROVE  StateOK(cn, h, Append(in, f), v, ord, rd) /\ ListOK(Append(in, f), v, ord)
             /\ MarksOK(Append(in, f), v, ord, rd)
  <2>1. StateOK(cn, h, in, v, ord, rd) /\ ListOK(in, v, ord) /\ MarksOK(in, v, ord, rd)
    BY <1>3 DEF BrowserOK
  <2>2. StateOK(cn, {}, Append(in, f), v, ord, rd)
    BY <1>2, <2>1, StateHears
  <2>3. f.type = "page" /\ v.request = "replace" => Continues(f, ord, 0)
    BY <1>1 DEF Wanted
  <2>4. ASSUME f.type = "page", v.request # "replace", NEW k \in 0..Len(ord), EndsAt(v, ord, k),
               v.request = "older" => k < Len(ord)
        PROVE  Continues(f, ord, k)
    <3>1. ~v.done
      <4>1. v.request = "older"
        BY <1>1, <2>4 DEF View
      <4>2. k # Len(ord)
        BY <2>4, <4>1
      <4>3. QED
        BY <2>4, <4>2 DEF EndsAt
    <3>2. k > 0 /\ v.next = ord[k] /\ k \in 1..Len(ord)
      BY <2>4, <3>1 DEF EndsAt
    <3>3. QED
      BY <1>1, <2>4, <3>2 DEF Wanted
  <2>5. ListOK(Append(in, f), v, ord)
    BY <1>2, <2>1, <2>3, <2>4, ListHears
  <2>6. rd \subseteq rd /\ \A n \in rd \ rd : Covers(f, n)
    OBVIOUS
  <2>7. f.type \in {"state", "page"} => TrueRows(f.rows, rd)
    BY <1>2
  <2>8. MarksOK(Append(in, f), v, ord, rd)
    BY <1>2, <2>1, <2>6, <2>7, MarksHears
  <2>9. QED
    BY <2>2, <2>5, <2>8
<1>4. QED
  BY <1>1, <1>3 DEF BrowserOK

\* Requests come and go without a trace, other than those for a page.
LEMMA BrowserTakes ==
    ASSUME NEW b, NEW cn, NEW h, NEW in, NEW out \in Seq(Requests), NEW v, NEW st, NEW ord, NEW rd,
           BrowserOK(b, cn, h, in, out, v, st, ord, rd), out # <<>>, Head(out) \notin PageRequests
    PROVE  BrowserOK(b, cn, h, in, Tail(out), v, st, ord, rd)
BY ExchangeTakes DEF BrowserOK

\* The same of a request that is sent.
LEMMA BrowserSends ==
    ASSUME NEW b, NEW cn, NEW h, NEW in, NEW out \in Seq(Requests), NEW v, NEW st, NEW ord, NEW rd,
           BrowserOK(b, cn, h, in, out, v, st, ord, rd), cn # "off",
           NEW r \in Requests, r \notin PageRequests
    PROVE  BrowserOK(b, cn, h, in, Append(out, r), v, st, ord, rd)
BY ExchangeSends DEF BrowserOK

\* A frame that marks nothing takes no mark with it when it is read.
LEMMA MarkedBehind ==
    ASSUME NEW in \in Seq(Frames), in # <<>>, Head(in).type # "state", NEW rows, NEW rd, Marked(rows, in, 0, rd)
    PROVE  Marked(rows, Tail(in), 0, rd)
<1>1. Head(in) = in[1] /\ Len(in) \in Nat
  BY Shorter
<1>2. \A n : ~Covers(in[1], n)
  BY <1>1 DEF Covers
<1>3. ASSUME NEW r \in rows, r.id \in rd, ~r.read PROVE \E k \in (0 + 1) + 1..Len(in) : Covers(in[k], r.id)
  <2>1. PICK k \in 0+1..Len(in) : Covers(in[k], r.id)
    BY <1>3 DEF Marked
  <2>2. k # 1
    BY <1>2, <2>1
  <2>3. k \in (0 + 1) + 1..Len(in)
    BY <1>1, <2>2
  <2>4. QED
    BY <2>1, <2>3
<1>4. \A r \in rows : r.read => r.id \in rd
  BY DEF Marked
<1>5. Marked(rows, in, 0 + 1, rd)
  BY <1>3, <1>4 DEF Marked
<1>6. QED
  BY <1>5, MarkedShorter

\* The page reads a state.
LEMMA BrowserReadsState ==
    ASSUME NEW b, NEW cn, NEW h, NEW in \in Seq(Frames), NEW out \in Seq(Requests), NEW v \in View, NEW st,
           NEW ord \in Seq(Notices), NEW rd, BrowserOK(b, cn, h, in, out, v, st, ord, rd),
           in # <<>>, NEW f, f = Head(in), f.type = "state", NEW w, NEW out2,
           w.rows = f.rows, w.unread = f.unread, w.loaded = Merged(v.loaded, f), w.done = v.done,
           w.failed = v.failed,
           w.reload <=> v.reload \/ (f.change.kind = "created" /\ v.request # "none"),
           IF f.change.kind = "created" /\ v.request = "none"
           THEN w.request = "replace" /\ w.next = NoNotice /\ out2 = Append(out, PageRequest(NoNotice))
           ELSE w.request = v.request /\ w.next = v.next /\ out2 = out
    PROVE  BrowserOK(b, cn, h, Tail(in), out2, w, st, ord, rd)
<1> DEFINE again == f.change.kind = "created"
<1>1. cn # "off" /\ ExchangeOK(in, out, v)
  BY DEF BrowserOK
<1>2. f \in Frames /\ f \in StateFrames /\ f = in[1] /\ 1 \in 1..Len(in)
  <2>1. f \in Frames /\ f = in[1] /\ 1 \in 1..Len(in)
    BY Shorter
  <2>2. QED
    BY <2>1, FrameTypes
<1>3. f \notin Replies
  BY DEF Replies
<1>4. again <=> Announces(f)
  BY DEF Announces
<1>5. v.request = "none" => NoneOf(out, PageRequests) /\ NoneOf(Tail(in), Replies)
  BY <1>1, ExchangeIdle, NoneShorter
<1>6. ExchangeOK(Tail(in), out2, w)
  <2>1. CASE again /\ v.request = "none"
    <3>1. PageRequest(NoNotice) \in Requests /\ PageRequest(NoNotice) \in PageRequests
          /\ PageRequest(NoNotice).before = NoNotice
      BY DEF PageRequest, PageRequests, Requests
    <3>2. Wanted(w) = NoNotice /\ w.request # "none"
      BY <2>1 DEF Wanted
    <3>3. QED
      BY <1>5, <2>1, <3>1, <3>2, ExchangeAsks
  <2>2. CASE ~(again /\ v.request = "none")
    BY <1>1, <1>3, <2>2, ExchangeReads
  <2>3. QED
    BY <2>1, <2>2
<1>7. v.loaded \in SUBSET Entries
  BY DEF View, Entries
<1>8. ASSUME b \notin st
      PROVE  StateOK(cn, h, Tail(in), w, ord, rd) /\ ListOK(Tail(in), w, ord) /\ MarksOK(Tail(in), w, ord, rd)
  <2>1. StateOK(cn, h, in, v, ord, rd) /\ ListOK(in, v, ord) /\ MarksOK(in, v, ord, rd)
    BY <1>1, <1>8 DEF BrowserOK
  <2>2. StateOK(cn, h, Tail(in), w, ord, rd)
    BY <2>1, StateReads
  <2>3. ListOK(Tail(in), w, ord)
    <3>1. CASE ~again
      <4>1. ~Announces(Head(in)) /\ Ids(w.loaded) = Ids(v.loaded)
        BY <1>2, <1>4, <1>7, <3>1, MergedType
      <4>2. w.reload <=> v.reload
        BY <3>1
      <4>3. QED
        BY <2>1, <3>1, <4>1, <4>2, ListReads
    <3>2. CASE again
      <4>1. w.reload \/ w.request = "replace"
        BY <3>2
      <4>2. w.reload => w.request # "none" \/ w.failed
        BY <2>1, <3>2 DEF ListOK
      <4>3. w.request = "replace" => v.request = "replace" \/ NoneOf(Tail(in), Replies)
        BY <1>5, <3>2
      <4>4. QED
        BY <2>1, <4>1, <4>2, <4>3, ListReloads
    <3>3. QED
      BY <3>1, <3>2
  <2>4. ASSUME Settled(Tail(in), w) PROVE Marked(w.loaded, Tail(in), 0, rd)
    <3>1. ~again /\ ~w.reload /\ ~w.failed /\ w.request # "replace" /\ Fresh(Tail(in), 0)
      BY <2>4 DEF Settled
    <3>2. Fresh(in, 0) /\ Fresh(in, 0 + 1)
      BY <1>4, <3>1, FreshShorter
    <3>3. Settled(in, v)
      BY <3>1, <3>2 DEF Settled
    <3>4. Marked(v.loaded, in, 0, rd)
      BY <2>1, <3>3 DEF MarksOK
    <3>5. /\ Marked(f.rows, in, 1, rd)
          /\ f.change.kind = "read" => f.change.id \in rd
          /\ f.change.kind = "read-all" => Range(ord) \subseteq rd
      <4>1. Fresh(in, 1)
        BY <3>2
      <4>2. QED
        BY <1>2, <2>1, <4>1 DEF MarksOK
    <3>6. Ids(v.loaded) \subseteq Range(ord)
      <4>1. PICK k \in 0..Len(ord) : Spans(v.loaded, ord, 0, k)
        BY <2>1, <3>3 DEF ListOK
      <4>2. \A x \in 0+1..k : x \in DOMAIN ord
        OBVIOUS
      <4>3. QED
        BY <4>1, <4>2 DEF Spans, Range
    <3>7. QED
      BY <1>2, <1>7, <3>4, <3>5, <3>6, MergedMarks
  <2>5. MarksOK(Tail(in), w, ord, rd)
    BY <2>1, <2>4, MarksReads
  <2>6. QED
    BY <2>2, <2>3, <2>5
<1>9. QED
  BY <1>1, <1>6, <1>8 DEF BrowserOK

\* What the list becomes with the rows of a page.
PageTaken(v, f) == IF v.request = "replace" THEN f.rows
                   ELSE v.loaded \cup {r \in f.rows : ~\E l \in v.loaded : l.id = r.id}

\* The page reads a page.
LEMMA BrowserReadsPage ==
    ASSUME NEW b, NEW cn, NEW h, NEW in \in Seq(Frames), NEW out \in Seq(Requests), NEW v, NEW st,
           NEW ord \in Seq(Notices), NEW rd, BrowserOK(b, cn, h, in, out, v, st, ord, rd),
           in # <<>>, NEW f, f = Head(in), f.type = "page", NEW w, NEW out2,
           w.rows = v.rows, w.unread = v.unread, w.done = f.done, ~w.reload,
           w.failed <=> v.failed /\ v.request # "replace",
           w.loaded = PageTaken(v, f),
           w.request = IF v.reload THEN "replace" ELSE "none",
           w.next = IF v.reload THEN NoNotice ELSE f.next,
           out2 = IF v.reload THEN Append(out, PageRequest(NoNotice)) ELSE out
    PROVE  BrowserOK(b, cn, h, Tail(in), out2, w, st, ord, rd)
<1>1. cn # "off" /\ ExchangeOK(in, out, v)
  BY DEF BrowserOK
<1>2. f \in Frames /\ f \in Replies /\ f = in[1] /\ 1 \in 1..Len(in)
  <2>1. f \in Frames /\ f = in[1] /\ 1 \in 1..Len(in)
    BY Shorter
  <2>2. QED
    BY <2>1 DEF Replies
<1>3. v.request # "none" /\ NoneOf(out, PageRequests) /\ NoneOf(Tail(in), Replies)
  BY <1>1, <1>2, ExchangeEnds
<1>4. ExchangeOK(Tail(in), out2, w)
  <2>1. CASE v.reload
    <3>1. PageRequest(NoNotice) \in Requests /\ PageRequest(NoNotice) \in PageRequests
          /\ PageRequest(NoNotice).before = NoNotice
      BY DEF PageRequest, PageRequests, Requests
    <3>2. Wanted(w) = NoNotice /\ w.request # "none" /\ out2 = Append(out, PageRequest(NoNotice))
      BY <2>1 DEF Wanted
    <3>3. QED
      BY <1>3, <3>1, <3>2, ExchangeAsks
  <2>2. CASE ~v.reload
    <3>1. w.request = "none" /\ out2 = out
      BY <2>2
    <3>2. QED
      BY <1>3, <3>1, ExchangeRests
  <2>3. QED
    BY <2>1, <2>2
<1>5. ASSUME b \notin st
      PROVE  StateOK(cn, h, Tail(in), w, ord, rd) /\ ListOK(Tail(in), w, ord) /\ MarksOK(Tail(in), w, ord, rd)
  <2>1. StateOK(cn, h, in, v, ord, rd) /\ ListOK(in, v, ord) /\ MarksOK(in, v, ord, rd)
    BY <1>1, <1>5 DEF BrowserOK
  <2>2. StateOK(cn, h, Tail(in), w, ord, rd)
    BY <2>1, StateReads
  <2>3. ListOK(Tail(in), w, ord)
    <3>1. /\ ~w.failed => ~v.failed \/ v.request = "replace"
          /\ v.request = "replace" => w.loaded = Head(in).rows
          /\ v.request # "replace" =>
                w.loaded = v.loaded \cup {r \in Head(in).rows : ~\E l \in v.loaded : l.id = r.id}
          /\ ~v.reload => w.next = Head(in).next
      BY DEF PageTaken
    <3>2. QED
      BY <1>3, <2>1, <3>1, ListTurns
  <2>4. ASSUME Settled(Tail(in), w) PROVE Marked(w.loaded, Tail(in), 0, rd)
    <3>1. ~v.reload /\ ~w.failed /\ Fresh(Tail(in), 0)
      BY <2>4 DEF Settled
    <3>2. Fresh(in, 0) /\ Fresh(in, 0 + 1)
      BY <3>1, FreshShorter DEF Announces
    <3>3. Marked(f.rows, in, 0 + 1, rd)
      <4>1. Fresh(in, 1) /\ in[1].type \in {"state", "page"}
        BY <1>2, <3>2
      <4>2. Marked(in[1].rows, in, 1, rd)
        BY <1>2, <2>1, <4>1 DEF MarksOK
      <4>3. QED
        BY <1>2, <4>2
    <3>4. Marked(f.rows, Tail(in), 0, rd)
      BY <3>3, MarkedShorter
    <3>5. CASE v.request = "replace"
      BY <3>4, <3>5 DEF PageTaken
    <3>6. CASE v.request # "replace"
      <4>1. Settled(in, v)
        BY <3>1, <3>2, <3>6 DEF Settled
      <4>2. Marked(v.loaded, in, 0, rd)
        BY <2>1, <4>1 DEF MarksOK
      <4>3. Marked(v.loaded, Tail(in), 0, rd)
        BY <4>2, MarkedBehind
      <4>4. w.loaded \subseteq v.loaded \cup f.rows
        BY <3>6 DEF PageTaken
      <4>5. QED
        BY <3>4, <4>3, <4>4 DEF Marked
    <3>7. QED
      BY <3>5, <3>6
  <2>5. MarksOK(Tail(in), w, ord, rd)
    BY <2>1, <2>4, MarksReads
  <2>6. QED
    BY <2>2, <2>3, <2>5
<1>6. QED
  BY <1>1, <1>4, <1>5 DEF BrowserOK

\* The page reads that a request failed.
LEMMA BrowserReadsError ==
    ASSUME NEW b, NEW cn, NEW h, NEW in \in Seq(Frames), NEW out \in Seq(Requests), NEW v, NEW st,
           NEW ord \in Seq(Notices), NEW rd, BrowserOK(b, cn, h, in, out, v, st, ord, rd),
           in # <<>>, NEW f, f = Head(in), f.type = "error", NEW w, NEW out2, NEW expired \in BOOLEAN,
           IF f.of = "page"
           THEN /\ w.rows = v.rows /\ w.unread = v.unread /\ w.failed
                /\ w.request = IF expired THEN "replace" ELSE "none"
                /\ w.next = IF expired THEN NoNotice ELSE v.next
                /\ out2 = IF expired THEN Append(out, PageRequest(NoNotice)) ELSE out
           ELSE w = v /\ out2 = out
    PROVE  BrowserOK(b, cn, h, Tail(in), out2, w, st, ord, rd)
<1>1. cn # "off" /\ ExchangeOK(in, out, v)
  BY DEF BrowserOK
<1>2. f \in Frames /\ ~Announces(f) /\ f.type # "state"
  <2>1. f \in Frames
    BY Shorter
  <2>2. QED
    BY <2>1 DEF Announces
<1>3. ASSUME b \notin st
      PROVE  StateOK(cn, h, in, v, ord, rd) /\ ListOK(in, v, ord) /\ MarksOK(in, v, ord, rd)
  BY <1>1, <1>3 DEF BrowserOK
<1>4. CASE f.of = "page"
  <2>1. v.request # "none" /\ NoneOf(out, PageRequests) /\ NoneOf(Tail(in), Replies)
    <3>1. f \in Replies
      BY <1>2, <1>4 DEF Replies
    <3>2. QED
      BY <1>1, <3>1, ExchangeEnds
  <2>2. ExchangeOK(Tail(in), out2, w)
    <3>1. CASE expired
      <4>1. PageRequest(NoNotice) \in Requests /\ PageRequest(NoNotice) \in PageRequests
            /\ PageRequest(NoNotice).before = NoNotice
        BY DEF PageRequest, PageRequests, Requests
      <4>2. Wanted(w) = NoNotice /\ w.request # "none" /\ out2 = Append(out, PageRequest(NoNotice))
        BY <1>4, <3>1 DEF Wanted
      <4>3. QED
        BY <2>1, <4>1, <4>2, ExchangeAsks
    <3>2. CASE ~expired
      <4>1. w.request = "none" /\ out2 = out
        BY <1>4, <3>2
      <4>2. QED
        BY <2>1, <4>1, ExchangeRests
    <3>3. QED
      BY <3>1, <3>2
  <2>3. ASSUME b \notin st
        PROVE  StateOK(cn, h, Tail(in), w, ord, rd) /\ ListOK(Tail(in), w, ord) /\ MarksOK(Tail(in), w, ord, rd)
    <3>1. StateOK(cn, h, Tail(in), w, ord, rd)
      BY <1>2, <1>3, <1>4, <2>3, StateReads
    <3>2. ListOK(Tail(in), w, ord)
      <4>1. w.failed
        BY <1>4
      <4>2. QED
        BY <1>3, <2>1, <2>3, <4>1, ListReloads
    <3>3. Settled(Tail(in), w) => Marked(w.loaded, Tail(in), 0, rd)
      BY <1>4 DEF Settled
    <3>4. MarksOK(Tail(in), w, ord, rd)
      BY <1>3, <2>3, <3>3, MarksReads
    <3>5. QED
      BY <3>1, <3>2, <3>4
  <2>4. QED
    BY <1>1, <2>2, <2>3 DEF BrowserOK
<1>5. CASE f.of # "page"
  <2>1. f \notin Replies /\ w = v /\ out2 = out
    BY <1>5 DEF Replies
  <2>2. ExchangeOK(Tail(in), out2, w)
    BY <1>1, <2>1, ExchangeReads
  <2>3. ASSUME b \notin st
        PROVE  StateOK(cn, h, Tail(in), v, ord, rd) /\ ListOK(Tail(in), v, ord) /\ MarksOK(Tail(in), v, ord, rd)
    <3>1. StateOK(cn, h, Tail(in), v, ord, rd)
      BY <1>2, <1>3, <2>3, StateReads
    <3>2. ListOK(Tail(in), v, ord)
      BY <1>2, <1>3, <2>3, ListReads
    <3>3. Settled(Tail(in), v) => Marked(v.loaded, Tail(in), 0, rd)
      <4>1. Settled(Tail(in), v) => Settled(in, v)
        BY <1>2, FreshShorter DEF Settled
      <4>2. Settled(in, v) => Marked(v.loaded, in, 0, rd)
        BY <1>3, <2>3 DEF MarksOK
      <4>3. QED
        BY <1>2, <4>1, <4>2, MarkedBehind
    <3>4. MarksOK(Tail(in), v, ord, rd)
      BY <1>3, <2>3, <3>3, MarksReads
    <3>5. QED
      BY <3>1, <3>2, <3>4
  <2>4. QED
    BY <1>1, <2>1, <2>2, <2>3 DEF BrowserOK
<1>6. QED
  BY <1>4, <1>5

\* The page asks for older rows: it has a list that is not whole.
LEMMA BrowserAsks ==
    ASSUME NEW b, NEW cn, NEW h, NEW in \in Seq(Frames), NEW out \in Seq(Requests), NEW v, NEW st,
           NEW ord \in Seq(Notices), NEW rd, BrowserOK(b, cn, h, in, out, v, st, ord, rd), cn # "off",
           v.request = "none", ~v.done, NEW w,
           w.request = "older", w.next = v.next, w.rows = v.rows, w.unread = v.unread, w.loaded = v.loaded,
           w.done = v.done, w.reload = v.reload, w.failed = v.failed, PageRequest(v.next) \in Requests
    PROVE  BrowserOK(b, cn, h, in, Append(out, PageRequest(v.next)), w, st, ord, rd)
<1>1. ExchangeOK(in, out, v)
  BY DEF BrowserOK
<1>2. NoneOf(out, PageRequests) /\ NoneOf(in, Replies)
  BY <1>1, ExchangeIdle
<1>3. PageRequest(v.next) \in PageRequests /\ PageRequest(v.next).before = Wanted(w)
  BY DEF PageRequest, PageRequests, Wanted
<1>4. ExchangeOK(in, Append(out, PageRequest(v.next)), w)
  BY <1>2, <1>3, ExchangeAsks
<1>5. ASSUME b \notin st
      PROVE  StateOK(cn, h, in, w, ord, rd) /\ ListOK(in, w, ord) /\ MarksOK(in, w, ord, rd)
  <2>1. StateOK(cn, h, in, v, ord, rd) /\ ListOK(in, v, ord) /\ MarksOK(in, v, ord, rd)
    BY <1>5 DEF BrowserOK
  <2>2. StateOK(cn, h, in, w, ord, rd)
    BY <2>1 DEF StateOK, Current
  <2>3. Settled(in, w) => Settled(in, v)
    BY DEF Settled
  <2>4. MarksOK(in, w, ord, rd)
    BY <2>1, <2>3 DEF MarksOK
  <2>5. ASSUME Settled(in, w) PROVE \E k \in 0..Len(ord) :
            /\ Spans(w.loaded, ord, 0, k) /\ EndsAt(w, ord, k)
            /\ w.request = "older" => k < Len(ord)
            /\ \A i \in 1..Len(in) : in[i].type = "page" => Continues(in[i], ord, k)
    <3>1. PICK k \in 0..Len(ord) :
            /\ Spans(v.loaded, ord, 0, k) /\ EndsAt(v, ord, k)
            /\ \A i \in 1..Len(in) : in[i].type = "page" => Continues(in[i], ord, k)
      BY <2>1, <2>3, <2>5 DEF ListOK
    <3>2. k # Len(ord)
      BY <3>1 DEF EndsAt
    <3>3. k < Len(ord)
      BY <3>2
    <3>4. EndsAt(w, ord, k)
      BY <3>1 DEF EndsAt
    <3>5. QED
      BY <3>1, <3>3, <3>4
  <2>6. ListOK(in, w, ord)
    BY <2>5 DEF ListOK
  <2>7. QED
    BY <2>2, <2>4, <2>6
<1>6. QED
  BY <1>4, <1>5 DEF BrowserOK

-----------------------------------------------------------------------------
(* Every step keeps the invariant.                                         *)

\* Calling more browsers stale asks less of them.
LEMMA BrowserStale ==
    ASSUME NEW b, NEW cn, NEW h, NEW in, NEW out, NEW v, NEW st, NEW ord, NEW rd, NEW st2,
           BrowserOK(b, cn, h, in, out, v, st, ord, rd), b \in st => b \in st2
    PROVE  BrowserOK(b, cn, h, in, out, v, st2, ord, rd)
BY DEF BrowserOK

\* A browser that misses a frame owes nothing to the store any more.
LEMMA BrowserMisses ==
    ASSUME NEW b, NEW cn, NEW h, NEW in, NEW out, NEW v, NEW st, NEW ord, NEW rd, NEW st2,
           BrowserOK(b, cn, h, in, out, v, st, ord, rd), cn = "off" \/ b \in st2, NEW ord2, NEW rd2
    PROVE  BrowserOK(b, cn, h, in, out, v, st2, ord2, rd2)
BY DEF BrowserOK

Unmoved(b) ==
    /\ conn = [conn EXCEPT ![b] = conn[b]] /\ hand = [hand EXCEPT ![b] = hand[b]]
    /\ inbox = [inbox EXCEPT ![b] = inbox[b]] /\ outbox = [outbox EXCEPT ![b] = outbox[b]]
    /\ view = [view EXCEPT ![b] = view[b]] /\ reading = [reading EXCEPT ![b] = reading[b]]

\* What the invariant says of one browser.
LEMMA StaysItself ==
    ASSUME NotificationsInv, NEW b \in Browsers
    PROVE  /\ Unmoved(b)
           /\ conn[b] \in {"off", "joining", "live"} /\ hand[b] \in SUBSET Snapshots
           /\ (\A f, g \in hand[b] : f = g) /\ inbox[b] \in Seq(Frames) /\ outbox[b] \in Seq(Requests)
           /\ view[b] \in View /\ reading[b] \in SUBSET Notices
           /\ BrowserOK(b, conn[b], hand[b], inbox[b], outbox[b], view[b], stale, order, read)
BY DEF NotificationsInv, Types, Unmoved

\* A step of one browser, its handler or its page.
Moved(b, cn, h, in, out, v, rg) ==
    /\ conn' = [conn EXCEPT ![b] = cn] /\ hand' = [hand EXCEPT ![b] = h]
    /\ inbox' = [inbox EXCEPT ![b] = in] /\ outbox' = [outbox EXCEPT ![b] = out]
    /\ view' = [view EXCEPT ![b] = v] /\ reading' = [reading EXCEPT ![b] = rg]
    /\ UNCHANGED server /\ stale' \subseteq stale \cup {b} /\ stale \subseteq stale' \cup {b}

\* Such a step keeps the invariant when it keeps it for its browser.
LEMMA Moves ==
    ASSUME NotificationsInv, NEW b \in Browsers,
           NEW cn \in {"off", "joining", "live"}, NEW h \in SUBSET Snapshots, \A f, g \in h : f = g,
           NEW in \in Seq(Frames), NEW out \in Seq(Requests), NEW v \in View, NEW rg \in SUBSET Notices,
           Moved(b, cn, h, in, out, v, rg),
           BrowserOK(b, cn, h, in, out, v, stale', order, read)
    PROVE  NotificationsInv'
<1>1. Types'
  BY DEF NotificationsInv, Types, Moved
<1>2. StoreOK'
  BY DEF NotificationsInv, StoreOK, server, store, Moved
<1>3. ASSUME NEW c \in Browsers
      PROVE  BrowserOK(c, conn'[c], hand'[c], inbox'[c], outbox'[c], view'[c], stale', order', read')
  <2>1. order' = order /\ read' = read
    BY DEF server, store, Moved
  <2>2. CASE c = b
    <3>1. conn'[c] = cn /\ hand'[c] = h /\ inbox'[c] = in /\ outbox'[c] = out /\ view'[c] = v
      BY <2>2 DEF NotificationsInv, Types, Moved
    <3>2. QED
      BY <2>1, <2>2, <3>1
  <2>3. CASE c # b
    <3>1. /\ conn'[c] = conn[c] /\ hand'[c] = hand[c] /\ inbox'[c] = inbox[c]
          /\ outbox'[c] = outbox[c] /\ view'[c] = view[c]
      BY <2>3 DEF NotificationsInv, Types, Moved
    <3>2. BrowserOK(c, conn[c], hand[c], inbox[c], outbox[c], view[c], stale, order, read)
      BY DEF NotificationsInv
    <3>3. c \in stale => c \in stale'
      BY <2>3 DEF Moved
    <3>4. BrowserOK(c, conn[c], hand[c], inbox[c], outbox[c], view[c], stale', order, read)
      BY <3>2, <3>3, BrowserStale
    <3>5. QED
      BY <2>1, <3>1, <3>4
  <2>4. QED
    BY <2>2, <2>3
<1>4. QED
  BY <1>1, <1>2, <1>3 DEF NotificationsInv

\* A step that changes the store or what the producers have asked for.
LEMMA Spreads ==
    ASSUME NotificationsInv, StoreOK', UNCHANGED <<conn, hand, view, reading>>,
           inbox' \in [Browsers -> Seq(Frames)], outbox' \in [Browsers -> Seq(Requests)], stale' \subseteq Browsers,
           \A c \in Browsers :
               BrowserOK(c, conn[c], hand[c], inbox'[c], outbox'[c], view[c], stale', order', read')
    PROVE  NotificationsInv'
BY DEF NotificationsInv, Types

\* A state that tells of no change is a change of the kind none.
LEMMA NoChangeIsNone ==
    NoChange \in Change /\ NoChange.kind = "none"
BY DEF NoChange, Change

\* The news that a request failed.
LEMMA ErrorIs ==
    ASSUME NEW of \in {"state", "page", "read", "read-all"}, NEW code \in {"failed", "not_found"},
           NEW id \in Notices \cup {NoNotice}
    PROVE  LET f == ErrorFrame(of, code, id) IN
           /\ f \in Frames /\ f.type = "error" /\ f.of = of /\ ~Announces(f)
           /\ f \in Replies <=> of = "page"
<1>1. ErrorFrame(of, code, id) = [type |-> "error", of |-> of, code |-> code, id |-> id]
  BY DEF ErrorFrame
<1>2. ErrorFrame(of, code, id) \in ErrorFrames
  BY <1>1 DEF ErrorFrames
<1>3. ErrorFrame(of, code, id) \in Frames
  BY <1>2 DEF Frames
<1>4. QED
  BY <1>1, <1>3 DEF Replies, Announces

\* What the handler of a connection reads for its browser.
LEMMA SnapshotRead ==
    ASSUME StoreOK, NEW o \in Outcome, NEW f,
           f = IF Replied(o) THEN StateFrame(NoChange) ELSE ErrorFrame("state", "failed", NoNotice)
    PROVE  /\ f \in Snapshots
           /\ Replied(o) => f.type = "state" /\ Current(f, order, read)
           /\ ~Replied(o) => f.type = "error"
<1>1. CASE Replied(o)
  <2>1. f = Snapshot(order, read, NoChange) /\ order \in Seq(Notices)
    BY <1>1, StateFrameNow DEF StoreOK
  <2>2. f \in Frames /\ f.type = "state" /\ f.change = NoChange /\ Current(f, order, read)
    BY <2>1, SnapshotIs, NoChangeIsNone
  <2>3. f \in Snapshots
    BY <2>2, NoChangeIsNone DEF Snapshots
  <2>4. QED
    BY <1>1, <2>2, <2>3
<1>2. CASE ~Replied(o)
  <2>1. f = ErrorFrame("state", "failed", NoNotice)
    BY <1>2
  <2>2. f \in Frames /\ f.type = "error" /\ f.of = "state"
    BY <2>1, ErrorIs
  <2>3. f \in Snapshots
    BY <2>2 DEF Snapshots
  <2>4. QED
    BY <1>2, <2>2, <2>3
<1>3. QED
  BY <1>1, <1>2

\* A frame in hand neither answers a page nor announces a creation.
LEMMA SnapshotFrames ==
    ASSUME NEW f \in Snapshots
    PROVE  /\ f \in Frames /\ f \notin Replies /\ ~Announces(f)
           /\ f.type = "state" => f.change.kind = "none"
BY DEF Snapshots, Replies, Announces

\* A handler that has read a frame for its browser.
LEMMA BrowserTold ==
    ASSUME NEW b, NEW cn, NEW in, NEW out, NEW v, NEW st, NEW ord, NEW rd, NEW h,
           BrowserOK(b, cn, h, in, out, v, st, ord, rd), cn # "off", NEW f, NEW st2,
           b \notin st2 => b \notin st /\ IF f.type = "state" THEN Current(f, ord, rd) ELSE cn = "live"
    PROVE  BrowserOK(b, cn, {f}, in, out, v, st2, ord, rd)
<1>1. ASSUME b \notin st2
      PROVE  StateOK(cn, {f}, in, v, ord, rd) /\ ListOK(in, v, ord) /\ MarksOK(in, v, ord, rd)
  <2>1. StateOK(cn, h, in, v, ord, rd) /\ ListOK(in, v, ord) /\ MarksOK(in, v, ord, rd)
    BY <1>1 DEF BrowserOK
  <2>2. \A g \in {f} : IF g.type = "state" THEN Current(g, ord, rd) ELSE cn = "live"
    BY <1>1
  <2>3. QED
    BY <2>1, <2>2 DEF StateOK
<1>2. QED
  BY <1>1 DEF BrowserOK

\* A connection reads its first state.
LEMMA GreetStep ==
    ASSUME NotificationsInv, NEW b \in Browsers, Greet(b)
    PROVE  NotificationsInv'
<1>1. PICK o \in Outcome :
         /\ conn[b] = "joining" /\ hand[b] = {}
         /\ hand' = [hand EXCEPT ![b] = {IF Replied(o) THEN StateFrame(NoChange)
                                         ELSE ErrorFrame("state", "failed", NoNotice)}]
         /\ stale' = IF Replied(o) THEN stale ELSE stale \cup {b}
         /\ UNCHANGED <<server, conn, inbox, outbox, view, reading>>
  BY DEF Greet
<1> DEFINE f == IF Replied(o) THEN StateFrame(NoChange) ELSE ErrorFrame("state", "failed", NoNotice)
<1>2. hand' = [hand EXCEPT ![b] = {f}]
  BY <1>1
<1>3. /\ f \in Snapshots
      /\ Replied(o) => f.type = "state" /\ Current(f, order, read)
      /\ ~Replied(o) => f.type = "error"
  BY SnapshotRead DEF NotificationsInv
<1> HIDE DEF f
<1>4. BrowserOK(b, conn[b], {f}, inbox[b], outbox[b], view[b], stale', order, read)
  <2>1. BrowserOK(b, conn[b], hand[b], inbox[b], outbox[b], view[b], stale, order, read)
    BY StaysItself
  <2>2. b \notin stale' => b \notin stale /\ IF f.type = "state" THEN Current(f, order, read) ELSE conn[b] = "live"
    BY <1>1, <1>3
  <2>3. QED
    BY <1>1, <2>1, <2>2, BrowserTold
<1>5. {f} \in SUBSET Snapshots /\ \A g, k \in {f} : g = k
  BY <1>3
<1>6. stale' \subseteq stale \cup {b} /\ stale \subseteq stale' \cup {b}
  BY <1>1
<1>7. Moved(b, conn[b], {f}, inbox[b], outbox[b], view[b], reading[b])
  BY <1>1, <1>2, <1>6, StaysItself DEF Moved, Unmoved
<1>8. QED
  BY <1>4, <1>5, <1>7, StaysItself, Moves

\* The handler reads a state that was asked for.
LEMMA ServeStateStep ==
    ASSUME NotificationsInv, NEW b \in Browsers, ServeState(b)
    PROVE  NotificationsInv'
<1>1. PICK o \in Outcome :
         /\ Serving(b, "state") /\ Taken(b)
         /\ hand' = [hand EXCEPT ![b] = {IF Replied(o) THEN StateFrame(NoChange)
                                         ELSE ErrorFrame("state", "failed", NoNotice)}]
         /\ UNCHANGED <<server, conn, inbox, view, reading, stale>>
  BY DEF ServeState
<1> DEFINE f == IF Replied(o) THEN StateFrame(NoChange) ELSE ErrorFrame("state", "failed", NoNotice)
<1>2. hand' = [hand EXCEPT ![b] = {f}]
  BY <1>1
<1>3. /\ f \in Snapshots
      /\ Replied(o) => f.type = "state" /\ Current(f, order, read)
      /\ ~Replied(o) => f.type = "error"
  BY SnapshotRead DEF NotificationsInv
<1> HIDE DEF f
<1>4. /\ conn[b] = "live" /\ hand[b] = {} /\ outbox[b] # <<>> /\ Head(outbox[b]) \notin PageRequests
      /\ outbox' = [outbox EXCEPT ![b] = Tail(outbox[b])]
  BY <1>1, StaysItself DEF Serving, Taken, PageRequests
<1>5. Tail(outbox[b]) \in Seq(Requests)
  BY <1>4, StaysItself, Shorter
<1>6. BrowserOK(b, conn[b], {f}, inbox[b], Tail(outbox[b]), view[b], stale', order, read)
  <2>1. BrowserOK(b, conn[b], hand[b], inbox[b], Tail(outbox[b]), view[b], stale, order, read)
    BY <1>4, StaysItself, BrowserTakes
  <2>2. b \notin stale' => b \notin stale /\ IF f.type = "state" THEN Current(f, order, read) ELSE conn[b] = "live"
    BY <1>1, <1>3, <1>4
  <2>3. QED
    BY <1>4, <2>1, <2>2, BrowserTold
<1>7. {f} \in SUBSET Snapshots /\ \A g, k \in {f} : g = k
  BY <1>3
<1>8. stale' \subseteq stale \cup {b} /\ stale \subseteq stale' \cup {b}
  BY <1>1
<1>9. Moved(b, conn[b], {f}, inbox[b], Tail(outbox[b]), view[b], reading[b])
  BY <1>1, <1>2, <1>4, <1>8, StaysItself DEF Moved, Unmoved
<1>10. QED
  BY <1>5, <1>6, <1>7, <1>9, StaysItself, Moves

\* The handler writes what it read; nobody overtook it, or its browser is stale.
LEMMA WrittenStep ==
    ASSUME NotificationsInv, NEW b \in Browsers, Written(b)
    PROVE  NotificationsInv'
<1>1. PICK f \in hand[b] :
         /\ inbox' = [inbox EXCEPT ![b] = Append(inbox[b], f)]
         /\ hand' = [hand EXCEPT ![b] = {}]
         /\ conn' = [conn EXCEPT ![b] = "live"]
         /\ UNCHANGED <<server, outbox, view, reading, mishaps, stale>>
  BY StaysItself DEF Written
<1>2. f \in Frames /\ f \notin Replies /\ ~Announces(f) /\ (f.type = "state" => f.change.kind = "none")
  BY StaysItself, SnapshotFrames
<1>3. conn[b] # "off"
  BY StaysItself DEF BrowserOK
<1>4. ASSUME b \notin stale
      PROVE  IF f.type = "state" THEN Current(f, order, read) /\ TrueRows(f.rows, read) ELSE conn[b] = "live"
  <2>1. StateOK(conn[b], hand[b], inbox[b], view[b], order, read)
    BY <1>3, <1>4, StaysItself DEF BrowserOK
  <2>2. IF f.type = "state" THEN Current(f, order, read) ELSE conn[b] = "live"
    BY <2>1 DEF StateOK
  <2>3. Current(f, order, read) => TrueRows(f.rows, read)
    BY RowsAreTrue DEF Current
  <2>4. QED
    BY <2>2, <2>3
<1>5. BrowserOK(b, "live", {}, Append(inbox[b], f), outbox[b], view[b], stale', order, read)
  <2>1. stale' = stale /\ read \subseteq read /\ \A n \in read \ read : b \in stale' \/ Covers(f, n)
    BY <1>1
  <2>2. b \notin stale' =>
           IF f.type = "state"
           THEN /\ Current(f, order, read) /\ TrueRows(f.rows, read)
                /\ f.change.kind = "read" => f.change.id \in read
                /\ f.change.kind = "read-all" => Range(order) \subseteq read
           ELSE read = read /\ ("live" = "live" => conn[b] = "live")
    BY <1>2, <1>4, <2>1
  <2>3. QED
    BY <1>2, <1>3, <2>1, <2>2, StaysItself, BrowserHears
<1>6. Append(inbox[b], f) \in Seq(Frames)
  BY <1>2, StaysItself, Longer
<1>7. stale' \subseteq stale \cup {b} /\ stale \subseteq stale' \cup {b}
  BY <1>1
<1>8. Moved(b, "live", {}, Append(inbox[b], f), outbox[b], view[b], reading[b])
  BY <1>1, <1>7, StaysItself DEF Moved, Unmoved
<1>9. QED
  BY <1>5, <1>6, <1>8, StaysItself, Moves

\* A browser connects and asks for everything anew.
LEMMA ConnectStep ==
    ASSUME NotificationsInv, NEW b \in Browsers, Connect(b)
    PROVE  NotificationsInv'
<1> DEFINE v == [view[b] EXCEPT !.request = "replace", !.next = NoNotice, !.failed = FALSE]
           out == <<[type |-> "state"], [type |-> "page", before |-> NoNotice]>>
<1>1. /\ conn[b] = "off" /\ conn' = [conn EXCEPT ![b] = "joining"]
      /\ outbox' = [outbox EXCEPT ![b] = out] /\ view' = [view EXCEPT ![b] = v]
      /\ stale' = stale \ {b} /\ UNCHANGED <<server, hand, inbox, reading, mishaps>>
  BY DEF Connect
<1>2. hand[b] = {} /\ inbox[b] = <<>>
  BY <1>1, StaysItself DEF BrowserOK
<1>3. v \in View /\ v.request = "replace" /\ v.next = NoNotice
  <2> DEFINE u == view[b]
  <2>1. u \in View
    BY StaysItself
  <2> HIDE DEF u
  <2>2. [u EXCEPT !.request = "replace", !.next = NoNotice, !.failed = FALSE] \in View
    BY <2>1 DEF View
  <2>3. v \in View
    BY <2>2 DEF u
  <2>4. v.request = "replace" /\ v.next = NoNotice
    BY <2>1 DEF u, View
  <2>5. QED
    BY <2>3, <2>4
<1>4. /\ out \in Seq(Requests) /\ Len(out) = 2
      /\ out[1] \notin PageRequests /\ out[2] \in PageRequests /\ out[2].before = NoNotice
  <2>1. [type |-> "state"] \in Requests /\ [type |-> "page", before |-> NoNotice] \in Requests
    BY DEF Requests
  <2>2. QED
    BY <2>1 DEF PageRequests
<1> HIDE DEF v, out
<1>5. OneOf(out, PageRequests) /\ NoneOf(<<>>, Replies)
  <2>1. \A i \in 1..Len(out) : i = 1 \/ i = 2
    BY <1>4
  <2>2. QED
    BY <1>4, <2>1 DEF OneOf, NoneOf
<1>6. ExchangeOK(<<>>, out, v)
  <2>1. \A i \in 1..Len(out) : out[i] \in PageRequests => out[i].before = Wanted(v)
    <3>1. \A i \in 1..Len(out) : i = 1 \/ i = 2
      BY <1>4
    <3>2. QED
      BY <1>3, <1>4, <3>1 DEF Wanted
  <2>2. QED
    BY <1>3, <1>5, <2>1 DEF ExchangeOK
<1>7. BrowserOK(b, "joining", {}, <<>>, out, v, stale', order, read)
  <2>1. StateOK("joining", {}, <<>>, v, order, read)
    BY DEF StateOK
  <2>2. ListOK(<<>>, v, order)
    BY <1>3 DEF ListOK, Settled
  <2>3. MarksOK(<<>>, v, order, read)
    BY <1>3 DEF MarksOK, Settled
  <2>4. QED
    BY <1>6, <2>1, <2>2, <2>3 DEF BrowserOK
<1>8. stale' \subseteq stale \cup {b} /\ stale \subseteq stale' \cup {b}
  BY <1>1
<1>9. Moved(b, "joining", {}, <<>>, out, v, reading[b])
  BY <1>1, <1>2, <1>8, StaysItself DEF Moved, Unmoved
<1>10. QED
  BY <1>2, <1>3, <1>4, <1>7, <1>9, StaysItself, Moves

\* A connection ends and takes with it what was under way.
LEMMA DisconnectStep ==
    ASSUME NotificationsInv, NEW b \in Browsers, Disconnect(b)
    PROVE  NotificationsInv'
<1> DEFINE v == [view[b] EXCEPT !.request = "none"]
<1>1. /\ conn' = [conn EXCEPT ![b] = "off"] /\ hand' = [hand EXCEPT ![b] = {}]
      /\ inbox' = [inbox EXCEPT ![b] = <<>>] /\ outbox' = [outbox EXCEPT ![b] = <<>>]
      /\ view' = [view EXCEPT ![b] = v] /\ reading' = [reading EXCEPT ![b] = {}]
      /\ UNCHANGED server /\ stale' = stale
  BY DEF Disconnect
<1>2. v \in View /\ v.request = "none"
  BY StaysItself DEF View
<1> HIDE DEF v
<1>3. ExchangeOK(<<>>, <<>>, v)
  BY <1>2 DEF ExchangeOK, NoneOf
<1>4. BrowserOK(b, "off", {}, <<>>, <<>>, v, stale', order, read)
  BY <1>3 DEF BrowserOK
<1>5. <<>> \in Seq(Frames) /\ <<>> \in Seq(Requests) /\ {} \in SUBSET Snapshots /\ {} \in SUBSET Notices
  OBVIOUS
<1>6. stale' \subseteq stale \cup {b} /\ stale \subseteq stale' \cup {b}
  BY <1>1
<1>7. Moved(b, "off", {}, <<>>, <<>>, v, {})
  BY <1>1, <1>6, StaysItself DEF Moved, Unmoved
<1>8. QED
  BY <1>2, <1>4, <1>5, <1>7, StaysItself, Moves

\* The handler answers with the page that was asked for, or with an error.
LEMMA ServePageStep ==
    ASSUME NotificationsInv, NEW b \in Browsers, ServePage(b)
    PROVE  NotificationsInv'
<1> DEFINE before == Head(outbox[b]).before
           answer(o, cut) == IF ~Replied(o) THEN ErrorFrame("page", "failed", NoNotice)
                             ELSE IF before # NoNotice /\ before \notin Range(Rows)
                             THEN ErrorFrame("page", "not_found", NoNotice)
                             ELSE PageOf(before, cut)
<1>1. PICK o \in Outcome, cut \in {1, Limit} :
         /\ Serving(b, "page") /\ Taken(b)
         /\ Answer(b, answer(o, cut))
         /\ UNCHANGED <<server, conn, hand, view, reading, stale>>
  BY DEF ServePage
<1> DEFINE f == answer(o, cut)
<1>2. /\ conn[b] = "live" /\ hand[b] = {} /\ outbox[b] # <<>> /\ Head(outbox[b]).type = "page"
      /\ outbox' = [outbox EXCEPT ![b] = Tail(outbox[b])]
      /\ inbox' = [inbox EXCEPT ![b] = Append(inbox[b], f)]
  BY <1>1, StaysItself DEF Serving, Taken, Answer
<1>3. Head(outbox[b]) \in PageRequests /\ Tail(outbox[b]) \in Seq(Requests)
  BY <1>2, StaysItself, Shorter DEF PageRequests
<1>4. StoreOK /\ Rows = order /\ order \in Seq(Notices)
  BY RowsAreOrder DEF NotificationsInv, StoreOK
<1> HIDE DEF before
<1>5. /\ f \in Frames /\ f \in Replies
      /\ f.type = "page" => TrueRows(f.rows, read)
      /\ f.type = "page" /\ before = NoNotice => Continues(f, order, 0)
      /\ f.type = "page" => \A k \in 1..Len(order) : before = order[k] => Continues(f, order, k)
  <2>1. CASE Replied(o) /\ (before = NoNotice \/ before \in Range(Rows))
    <3>1. f = PageOf(before, cut)
      BY <2>1
    <3>2. ASSUME NEW k \in 0..Len(order), IF before = NoNotice THEN k = 0 ELSE k > 0 /\ before = order[k]
          PROVE  /\ f \in Frames /\ f.type = "page"
                 /\ Continues(f, order, k) /\ TrueRows(f.rows, read)
      BY <1>4, <3>1, <3>2, PageIs
    <3>3. \E k \in 0..Len(order) : IF before = NoNotice THEN k = 0 ELSE k > 0 /\ before = order[k]
      <4>1. CASE before = NoNotice
        <5>1. 0 \in 0..Len(order)
          BY <1>4
        <5>2. QED
          BY <4>1, <5>1
      <4>2. CASE before # NoNotice
        <5>1. PICK k \in DOMAIN order : before = order[k]
          BY <1>4, <2>1, <4>2 DEF Range
        <5>2. k \in 0..Len(order) /\ k > 0
          BY <1>4
        <5>3. QED
          BY <4>2, <5>1, <5>2
      <4>3. QED
        BY <4>1, <4>2
    <3> HIDE DEF f
    <3>4. f \in Frames /\ f.type = "page" /\ TrueRows(f.rows, read)
      BY <3>2, <3>3
    <3>5. before = NoNotice => Continues(f, order, 0)
      <4>1. 0 \in 0..Len(order)
        BY <1>4
      <4>2. QED
        BY <3>2, <4>1
    <3>6. \A k \in 1..Len(order) : before = order[k] => Continues(f, order, k)
      <4> TAKE k \in 1..Len(order)
      <4>1. k \in 0..Len(order) /\ k > 0 /\ order[k] \in Notices
        BY <1>4
      <4>2. before = order[k] => before # NoNotice
        BY <4>1, NoticesAssumption
      <4>3. QED
        BY <3>2, <4>1, <4>2
    <3>7. f \in Replies
      BY <3>4 DEF Replies
    <3>8. QED
      BY <3>4, <3>5, <3>6, <3>7
  <2>2. CASE ~(Replied(o) /\ (before = NoNotice \/ before \in Range(Rows)))
    <3>1. f = ErrorFrame("page", "failed", NoNotice) \/ f = ErrorFrame("page", "not_found", NoNotice)
      BY <2>2
    <3>2. f \in Frames /\ f.type = "error" /\ f \in Replies
      BY <3>1, ErrorIs
    <3>3. f.type # "page"
      BY <3>2
    <3>4. QED
      BY <3>2, <3>3
  <2>3. QED
    BY <2>1, <2>2
<1> HIDE DEF f
<1>6. BrowserOK(b, conn[b], hand[b], Append(inbox[b], f), Tail(outbox[b]), view[b], stale', order, read)
  <2>1. conn[b] # "off" /\ stale' = stale
    BY <1>1, <1>2
  <2>2. BrowserOK(b, conn[b], hand[b], Append(inbox[b], f), Tail(outbox[b]), view[b], stale, order, read)
    BY <1>2, <1>3, <1>5, <2>1, StaysItself, BrowserAnswered DEF before
  <2>3. QED
    BY <2>1, <2>2
<1>7. Append(inbox[b], f) \in Seq(Frames)
  BY <1>5, StaysItself, Longer
<1>8. Moved(b, conn[b], hand[b], Append(inbox[b], f), Tail(outbox[b]), view[b], reading[b])
  BY <1>1, <1>2, StaysItself DEF Moved, Unmoved
<1>9. QED
  BY <1>3, <1>6, <1>7, <1>8, StaysItself, Moves

\* The page takes the rows, the marks and the news of a state.
LEMMA ReceiveStateStep ==
    ASSUME NotificationsInv, NEW b \in Browsers, ReceiveState(b)
    PROVE  NotificationsInv'
<1> DEFINE f == Head(inbox[b])
           v == view[b]
           again == f.change.kind = "created"
           loaded == Merged(v.loaded, f)
           reload == v.reload \/ (again /\ v.request # "none")
           request == IF again /\ v.request = "none" THEN "replace" ELSE v.request
           next == IF again /\ v.request = "none" THEN NoNotice ELSE v.next
           w == [v EXCEPT !.rows = f.rows, !.unread = f.unread, !.loaded = loaded, !.reload = reload,
                          !.request = request, !.next = next]
           out == IF again /\ v.request = "none" THEN Append(outbox[b], PageRequest(NoNotice)) ELSE outbox[b]
           rg == IF f.change.kind = "read-all" \/ f.unread = 0 THEN {}
                 ELSE {i \in reading[b] : ~\E r \in f.rows \cup loaded : r.id = i /\ r.read}
<1>1. /\ inbox[b] # <<>> /\ f.type = "state"
      /\ view' = [view EXCEPT ![b] = w]
      /\ IF again /\ v.request = "none" THEN Send(b, PageRequest(NoNotice)) ELSE UNCHANGED outbox
      /\ reading' = [reading EXCEPT ![b] = rg]
      /\ inbox' = [inbox EXCEPT ![b] = Tail(inbox[b])]
      /\ UNCHANGED <<server, conn, hand, mishaps, stale>>
  BY StaysItself DEF ReceiveState
<1>2. outbox' = [outbox EXCEPT ![b] = out]
  BY <1>1, StaysItself DEF Send, Unmoved
<1>3. v \in View /\ f \in Frames /\ f \in StateFrames /\ Tail(inbox[b]) \in Seq(Frames)
  <2>1. v \in View /\ f \in Frames /\ Tail(inbox[b]) \in Seq(Frames)
    BY <1>1, StaysItself, Shorter
  <2>2. QED
    BY <1>1, <2>1, FrameTypes
<1>4. v.loaded \in SUBSET Entries /\ f.rows \in SUBSET Entries /\ f.unread \in Nat
  BY <1>3 DEF View, StateFrames, Entries
<1>5. loaded \in SUBSET Entries
  BY <1>3, <1>4, MergedType
<1>6. reload \in BOOLEAN /\ request \in {"none", "replace", "older"} /\ next \in Notices \cup {NoNotice}
  BY <1>3 DEF View
<1>7. rg \in SUBSET Notices
  BY StaysItself
<1>8. PageRequest(NoNotice) \in Requests
  BY DEF PageRequest, Requests
<1>9. out \in Seq(Requests)
  BY <1>8, StaysItself, Longer
<1> HIDE DEF f, v, loaded, reload, request, next
<1>10. /\ w \in View /\ w.rows = f.rows /\ w.unread = f.unread /\ w.loaded = loaded /\ w.done = v.done
       /\ w.failed = v.failed /\ w.reload = reload /\ w.request = request /\ w.next = next
  <2>1. f.rows \in SUBSET [id : Notices, read : BOOLEAN] /\ loaded \in SUBSET [id : Notices, read : BOOLEAN]
    BY <1>4, <1>5 DEF Entries
  <2>2. w \in View
    BY <1>3, <1>4, <1>6, <2>1 DEF View
  <2>3. w.rows = f.rows /\ w.unread = f.unread /\ w.loaded = loaded /\ w.done = v.done
    BY <1>3 DEF View
  <2>4. w.failed = v.failed /\ w.reload = reload /\ w.request = request /\ w.next = next
    BY <1>3 DEF View
  <2>5. QED
    BY <2>2, <2>3, <2>4
<1> HIDE DEF w, rg
<1>11. BrowserOK(b, conn[b], hand[b], Tail(inbox[b]), out, w, stale', order, read)
  <2>1. BrowserOK(b, conn[b], hand[b], inbox[b], outbox[b], v, stale, order, read) /\ order \in Seq(Notices)
    BY StaysItself DEF v, NotificationsInv, StoreOK
  <2>2. /\ w.loaded = Merged(v.loaded, f)
        /\ w.reload <=> v.reload \/ (f.change.kind = "created" /\ v.request # "none")
    BY <1>10 DEF loaded, reload
  <2>3. IF f.change.kind = "created" /\ v.request = "none"
        THEN w.request = "replace" /\ w.next = NoNotice /\ out = Append(outbox[b], PageRequest(NoNotice))
        ELSE w.request = v.request /\ w.next = v.next /\ out = outbox[b]
    BY <1>10 DEF request, next
  <2>4. f = Head(inbox[b])
    BY DEF f
  <2> HIDE DEF out
  <2>5. /\ inbox[b] \in Seq(Frames) /\ outbox[b] \in Seq(Requests) /\ inbox[b] # <<>>
        /\ f.type = "state" /\ v \in View /\ stale' = stale
        /\ w.rows = f.rows /\ w.unread = f.unread /\ w.done = v.done /\ w.failed = v.failed
    BY <1>1, <1>3, <1>10, StaysItself
  <2> HIDE DEF again
  <2>6. BrowserOK(b, conn[b], hand[b], Tail(inbox[b]), out, w, stale, order, read)
    BY <2>1, <2>2, <2>3, <2>4, <2>5, BrowserReadsState
  <2>7. QED
    BY <2>5, <2>6
<1>12. Moved(b, conn[b], hand[b], Tail(inbox[b]), out, w, rg)
  BY <1>1, <1>2, StaysItself DEF Moved, Unmoved
<1>13. QED
  BY <1>3, <1>7, <1>9, <1>10, <1>11, <1>12, StaysItself, Moves

\* The page takes a page into its list, or starts again.
LEMMA ReceivePageStep ==
    ASSUME NotificationsInv, NEW b \in Browsers, ReceivePage(b)
    PROVE  NotificationsInv'
<1> DEFINE f == Head(inbox[b])
           v == view[b]
           loaded == IF v.request = "replace" THEN f.rows
                     ELSE v.loaded \cup {r \in f.rows : ~\E l \in v.loaded : l.id = r.id}
           failed == v.failed /\ v.request # "replace"
           request == IF v.reload THEN "replace" ELSE "none"
           next == IF v.reload THEN NoNotice ELSE f.next
           w == [v EXCEPT !.loaded = loaded, !.next = next, !.done = f.done, !.failed = failed,
                          !.request = request, !.reload = FALSE]
           out == IF v.reload THEN Append(outbox[b], PageRequest(NoNotice)) ELSE outbox[b]
<1>1. /\ inbox[b] # <<>> /\ f.type = "page"
      /\ view' = [view EXCEPT ![b] = w]
      /\ IF v.reload THEN Send(b, PageRequest(NoNotice)) ELSE UNCHANGED outbox
      /\ inbox' = [inbox EXCEPT ![b] = Tail(inbox[b])]
      /\ UNCHANGED <<server, conn, hand, reading, mishaps, stale>>
  BY StaysItself DEF ReceivePage
<1>2. outbox' = [outbox EXCEPT ![b] = out]
  BY <1>1, StaysItself DEF Send, Unmoved
<1>3. v \in View /\ f \in Frames /\ f \in PageFrames /\ Tail(inbox[b]) \in Seq(Frames)
  <2>1. v \in View /\ f \in Frames /\ Tail(inbox[b]) \in Seq(Frames)
    BY <1>1, StaysItself, Shorter
  <2>2. QED
    BY <1>1, <2>1, FrameTypes
<1>4. /\ v.loaded \in SUBSET Entries /\ f.rows \in SUBSET Entries /\ f.done \in BOOLEAN
      /\ f.next \in Notices \cup {NoNotice}
  BY <1>3 DEF View, PageFrames, Entries
<1>5. loaded \in SUBSET Entries
  BY <1>4
<1>6. failed \in BOOLEAN /\ request \in {"none", "replace", "older"} /\ next \in Notices \cup {NoNotice}
  BY <1>3, <1>4 DEF View
<1>7. PageRequest(NoNotice) \in Requests
  BY DEF PageRequest, Requests
<1>8. out \in Seq(Requests)
  BY <1>7, StaysItself, Longer
<1> HIDE DEF f, v, loaded, failed, request, next
<1>9. /\ w \in View /\ w.rows = v.rows /\ w.unread = v.unread /\ w.loaded = loaded /\ w.done = f.done
      /\ w.failed = failed /\ w.reload = FALSE /\ w.request = request /\ w.next = next
  <2>1. loaded \in SUBSET [id : Notices, read : BOOLEAN]
    BY <1>5 DEF Entries
  <2>2. w \in View
    BY <1>3, <1>4, <1>6, <2>1 DEF View
  <2>3. w.rows = v.rows /\ w.unread = v.unread /\ w.loaded = loaded /\ w.done = f.done
    BY <1>3 DEF View
  <2>4. w.failed = failed /\ w.reload = FALSE /\ w.request = request /\ w.next = next
    BY <1>3 DEF View
  <2>5. QED
    BY <2>2, <2>3, <2>4
<1> HIDE DEF w
<1>10. BrowserOK(b, conn[b], hand[b], Tail(inbox[b]), out, w, stale', order, read)
  <2>1. BrowserOK(b, conn[b], hand[b], inbox[b], outbox[b], v, stale, order, read) /\ order \in Seq(Notices)
    BY StaysItself DEF v, NotificationsInv, StoreOK
  <2>2. /\ ~w.reload
        /\ w.failed <=> v.failed /\ v.request # "replace"
        /\ w.loaded = PageTaken(v, f)
        /\ w.request = IF v.reload THEN "replace" ELSE "none"
        /\ w.next = IF v.reload THEN NoNotice ELSE f.next
        /\ out = IF v.reload THEN Append(outbox[b], PageRequest(NoNotice)) ELSE outbox[b]
    BY <1>9 DEF loaded, failed, request, next, PageTaken
  <2>3. f = Head(inbox[b])
    BY DEF f
  <2> HIDE DEF out
  <2>4. /\ inbox[b] \in Seq(Frames) /\ outbox[b] \in Seq(Requests) /\ inbox[b] # <<>>
        /\ f.type = "page" /\ stale' = stale
        /\ w.rows = v.rows /\ w.unread = v.unread /\ w.done = f.done
    BY <1>1, <1>9, StaysItself
  <2>5. BrowserOK(b, conn[b], hand[b], Tail(inbox[b]), out, w, stale, order, read)
    BY <2>1, <2>2, <2>3, <2>4, BrowserReadsPage
  <2>6. QED
    BY <2>4, <2>5
<1>11. Moved(b, conn[b], hand[b], Tail(inbox[b]), out, w, reading[b])
  BY <1>1, <1>2, StaysItself DEF Moved, Unmoved
<1> HIDE DEF out
<1>12. QED
  BY <1>3, <1>8, <1>9, <1>10, <1>11, StaysItself, Moves

\* The page gives up a request, or starts again behind an evicted cursor.
LEMMA ReceiveErrorStep ==
    ASSUME NotificationsInv, NEW b \in Browsers, ReceiveError(b)
    PROVE  NotificationsInv'
<1> DEFINE f == Head(inbox[b])
           v == view[b]
           expired == Expired(f, v)
           request == IF expired THEN "replace" ELSE "none"
           next == IF expired THEN NoNotice ELSE v.next
           failing == [v EXCEPT !.failed = TRUE, !.request = request, !.next = next]
           w == IF f.of = "page" THEN failing ELSE v
           out == IF f.of = "page" /\ expired THEN Append(outbox[b], PageRequest(NoNotice)) ELSE outbox[b]
           rg == IF f.of = "page" THEN reading[b]
                 ELSE IF f.of = "read" THEN reading[b] \ {f.id} ELSE reading[b]
<1>1. /\ inbox[b] # <<>> /\ f.type = "error"
      /\ IF f.of = "page"
         THEN /\ view' = [view EXCEPT ![b] = PageFailed(f, v)]
              /\ IF Expired(f, v) THEN Send(b, PageRequest(NoNotice)) ELSE UNCHANGED outbox
              /\ UNCHANGED reading
         ELSE /\ reading' = [reading EXCEPT ![b] = IF f.of = "read" THEN reading[b] \ {f.id} ELSE reading[b]]
              /\ UNCHANGED <<view, outbox>>
      /\ inbox' = [inbox EXCEPT ![b] = Tail(inbox[b])]
      /\ UNCHANGED <<server, conn, hand, mishaps, stale>>
  BY StaysItself DEF ReceiveError
<1>2. PageFailed(f, v) = failing
  BY DEF PageFailed
<1> HIDE DEF f, v, expired, failing
<1>3. view' = [view EXCEPT ![b] = w] /\ reading' = [reading EXCEPT ![b] = rg]
  BY <1>1, <1>2, StaysItself DEF Unmoved, v
<1>4. outbox' = [outbox EXCEPT ![b] = out]
  BY <1>1, StaysItself DEF Send, Unmoved, expired
<1>5. v \in View /\ Tail(inbox[b]) \in Seq(Frames) /\ rg \in SUBSET Notices
  BY <1>1, StaysItself, Shorter DEF v
<1>6. PageRequest(NoNotice) \in Requests
  BY DEF PageRequest, Requests
<1>7. out \in Seq(Requests)
  BY <1>6, StaysItself, Longer
<1>8. request \in {"none", "replace", "older"} /\ next \in Notices \cup {NoNotice}
  BY <1>5 DEF View
<1>9. expired \in BOOLEAN
  BY DEF expired, Expired
<1>10. /\ failing \in View /\ failing.rows = v.rows /\ failing.unread = v.unread /\ failing.failed = TRUE
       /\ failing.request = request /\ failing.next = next
  <2> HIDE DEF request, next
  <2>1. failing \in View
    BY <1>5, <1>8 DEF View, failing
  <2>2. failing.rows = v.rows /\ failing.unread = v.unread /\ failing.failed = TRUE
    BY <1>5 DEF View, failing
  <2>3. failing.request = request /\ failing.next = next
    BY <1>5 DEF View, failing
  <2>4. QED
    BY <2>1, <2>2, <2>3
<1>11. BrowserOK(b, conn[b], hand[b], Tail(inbox[b]), out, w, stale', order, read)
  <2>1. BrowserOK(b, conn[b], hand[b], inbox[b], outbox[b], v, stale, order, read) /\ order \in Seq(Notices)
    BY StaysItself DEF v, NotificationsInv, StoreOK
  <2>2. IF f.of = "page"
        THEN /\ w.rows = v.rows /\ w.unread = v.unread /\ w.failed
             /\ w.request = IF expired THEN "replace" ELSE "none"
             /\ w.next = IF expired THEN NoNotice ELSE v.next
             /\ out = IF expired THEN Append(outbox[b], PageRequest(NoNotice)) ELSE outbox[b]
        ELSE w = v /\ out = outbox[b]
    BY <1>10
  <2>3. f = Head(inbox[b])
    BY DEF f
  <2> HIDE DEF out, w
  <2>4. BrowserOK(b, conn[b], hand[b], Tail(inbox[b]), out, w, stale, order, read)
    BY <1>1, <1>9, <2>1, <2>2, <2>3, StaysItself, BrowserReadsError
  <2>5. QED
    BY <1>1, <2>4
<1>12. w \in View
  BY <1>5, <1>10
<1>13. Moved(b, conn[b], hand[b], Tail(inbox[b]), out, w, rg)
  BY <1>1, <1>3, <1>4, StaysItself DEF Moved, Unmoved
<1> HIDE DEF w, out, rg
<1>14. QED
  BY <1>5, <1>7, <1>11, <1>12, <1>13, StaysItself, Moves

\* The user reads one.
LEMMA SendReadStep ==
    ASSUME NotificationsInv, NEW b \in Browsers, NEW i \in Notices, SendRead(b, i)
    PROVE  NotificationsInv'
<1> DEFINE r == [type |-> "read", id |-> i]
<1>1. /\ conn[b] # "off" /\ reading' = [reading EXCEPT ![b] = reading[b] \cup {i}]
      /\ outbox' = [outbox EXCEPT ![b] = Append(outbox[b], r)]
      /\ UNCHANGED <<server, conn, hand, inbox, view, mishaps, stale>>
  BY StaysItself DEF SendRead, May, Send
<1>2. r \in Requests /\ r \notin PageRequests
  BY DEF Requests, PageRequests
<1> HIDE DEF r
<1>3. Append(outbox[b], r) \in Seq(Requests) /\ reading[b] \cup {i} \in SUBSET Notices
  BY <1>2, StaysItself, Longer
<1>4. BrowserOK(b, conn[b], hand[b], inbox[b], Append(outbox[b], r), view[b], stale', order, read)
  <2>1. BrowserOK(b, conn[b], hand[b], inbox[b], Append(outbox[b], r), view[b], stale, order, read)
    BY <1>1, <1>2, StaysItself, BrowserSends
  <2>2. QED
    BY <1>1, <2>1
<1>5. Moved(b, conn[b], hand[b], inbox[b], Append(outbox[b], r), view[b], reading[b] \cup {i})
  BY <1>1, StaysItself DEF Moved, Unmoved
<1>6. QED
  BY <1>3, <1>4, <1>5, StaysItself, Moves

\* The user reads all.
LEMMA MarkAllStep ==
    ASSUME NotificationsInv, NEW b \in Browsers, MarkAll(b)
    PROVE  NotificationsInv'
<1> DEFINE r == [type |-> "read-all"]
<1>1. /\ conn[b] # "off" /\ outbox' = [outbox EXCEPT ![b] = Append(outbox[b], r)]
      /\ UNCHANGED <<server, conn, hand, inbox, view, reading, mishaps, stale>>
  BY StaysItself DEF MarkAll, May, Send
<1>2. r \in Requests /\ r \notin PageRequests
  BY DEF Requests, PageRequests
<1> HIDE DEF r
<1>3. Append(outbox[b], r) \in Seq(Requests)
  BY <1>2, StaysItself, Longer
<1>4. BrowserOK(b, conn[b], hand[b], inbox[b], Append(outbox[b], r), view[b], stale', order, read)
  <2>1. BrowserOK(b, conn[b], hand[b], inbox[b], Append(outbox[b], r), view[b], stale, order, read)
    BY <1>1, <1>2, StaysItself, BrowserSends
  <2>2. QED
    BY <1>1, <2>1
<1>5. Moved(b, conn[b], hand[b], inbox[b], Append(outbox[b], r), view[b], reading[b])
  BY <1>1, StaysItself DEF Moved, Unmoved
<1>6. QED
  BY <1>3, <1>4, <1>5, StaysItself, Moves

\* The user asks for what is older than the list.
LEMMA LoadOlderStep ==
    ASSUME NotificationsInv, NEW b \in Browsers, LoadOlder(b)
    PROVE  NotificationsInv'
<1> DEFINE v == view[b]
           w == [v EXCEPT !.request = "older"]
<1>1. /\ conn[b] # "off" /\ v.request = "none" /\ ~v.done
      /\ view' = [view EXCEPT ![b] = w]
      /\ outbox' = [outbox EXCEPT ![b] = Append(outbox[b], PageRequest(v.next))]
      /\ UNCHANGED <<server, conn, hand, inbox, reading, mishaps, stale>>
  BY StaysItself DEF LoadOlder, May, Send
<1>2. v \in View
  BY StaysItself
<1> HIDE DEF v
<1>3. w \in View /\ w.request = "older"
  BY <1>2 DEF View
<1>4. /\ w.next = v.next /\ w.rows = v.rows /\ w.unread = v.unread /\ w.loaded = v.loaded
      /\ w.done = v.done /\ w.reload = v.reload /\ w.failed = v.failed
  BY <1>2 DEF View
<1>5. PageRequest(v.next) \in Requests
  <2>1. v.next \in Notices \cup {NoNotice}
    BY <1>2 DEF View
  <2>2. QED
    BY <2>1 DEF PageRequest, Requests
<1> HIDE DEF w
<1>6. BrowserOK(b, conn[b], hand[b], inbox[b], Append(outbox[b], PageRequest(v.next)), w, stale', order, read)
  <2>1. BrowserOK(b, conn[b], hand[b], inbox[b], outbox[b], v, stale, order, read) /\ order \in Seq(Notices)
    BY StaysItself DEF v, NotificationsInv, StoreOK
  <2>2. BrowserOK(b, conn[b], hand[b], inbox[b], Append(outbox[b], PageRequest(v.next)), w, stale, order, read)
    BY <1>1, <1>3, <1>4, <1>5, <2>1, StaysItself, BrowserAsks
  <2>3. QED
    BY <1>1, <2>2
<1>7. Append(outbox[b], PageRequest(v.next)) \in Seq(Requests)
  BY <1>5, StaysItself, Longer
<1>8. Moved(b, conn[b], hand[b], inbox[b], Append(outbox[b], PageRequest(v.next)), w, reading[b])
  BY <1>1, StaysItself DEF Moved, Unmoved
<1>9. QED
  BY <1>3, <1>6, <1>7, <1>8, StaysItself, Moves

\* A restarted lifecycle asks again; nothing else changes.
LEMMA AsksAgain ==
    ASSUME NotificationsInv, UNCHANGED <<store, page, stale>>, asked' \subseteq Notices
    PROVE  NotificationsInv'
<1>1. Types'
  BY DEF NotificationsInv, Types, page
<1>2. StoreOK'
  BY DEF NotificationsInv, StoreOK, store
<1>3. ASSUME NEW c \in Browsers
      PROVE  BrowserOK(c, conn'[c], hand'[c], inbox'[c], outbox'[c], view'[c], stale', order', read')
  BY DEF NotificationsInv, store, page
<1>4. QED
  BY <1>1, <1>2, <1>3 DEF NotificationsInv

\* The lifecycle forgets that it created a notification.
LEMMA ForgetStep ==
    ASSUME NotificationsInv, NEW n \in Notices, Forget(n)
    PROVE  NotificationsInv'
<1>1. UNCHANGED <<store, page, stale>> /\ asked' = asked \ {n}
  BY DEF Forget
<1>2. asked' \subseteq Notices
  BY <1>1 DEF NotificationsInv, StoreOK
<1>3. QED
  BY <1>1, <1>2, AsksAgain

\* A creation is told to every browser, or every browser misses it.
LEMMA CreateStep ==
    ASSUME NotificationsInv, NEW n \in Notices, Create(n)
    PROVE  NotificationsInv'
<1> DEFINE change == [kind |-> "created", id |-> n]
<1>1. PICK o \in Outcome, p \in Outcome :
         /\ n \in Accepted
         /\ asked' = IF n \in Exact /\ ~Replied(o) THEN asked ELSE asked \cup {n}
         /\ IF Applied(o) /\ MayCreate(n) THEN Created(n) ELSE UNCHANGED store
         /\ IF Applied(o) /\ MayCreate(n)
            THEN Broadcast(change, IF Replied(o) THEN p ELSE "failed")
            ELSE UNCHANGED <<inbox, stale>>
         /\ UNCHANGED <<conn, hand, outbox, view, reading>>
  BY DEF Create
<1>2. asked' \subseteq Notices
  BY <1>1 DEF NotificationsInv, StoreOK
<1>3. CASE ~(Applied(o) /\ MayCreate(n))
  <2>1. UNCHANGED <<store, page, stale>>
    BY <1>1, <1>3 DEF page
  <2>2. QED
    BY <1>2, <2>1, AsksAgain
<1>4. CASE Applied(o) /\ MayCreate(n)
  <2> DEFINE q == IF Replied(o) THEN p ELSE "failed"
             f == StateFrame(change)'
  <2>1. Created(n) /\ Broadcast(change, q)
    BY <1>1, <1>4
  <2>2. StoreOK' /\ order' \in Seq(Notices)
    <3>1. StoreOK'
      BY <1>1, <1>2, <1>4, <2>1, CreatedStore DEF MayCreate, NotificationsInv
    <3>2. QED
      BY <3>1 DEF StoreOK
  <2>3. change \in Change /\ change.kind = "created"
    BY DEF Change
  <2> HIDE DEF change, q
  <2>4. f = Snapshot(order', read', change)
    BY <2>2, StateFrameNext
  <2> HIDE DEF f
  <2>5. /\ f \in Frames /\ Announces(f)
        /\ Current(f, order', read') /\ TrueRows(f.rows, read')
    BY <2>2, <2>3, <2>4, SnapshotIs DEF Announces
  <2>6. /\ inbox' = [c \in Browsers |-> IF c \in Connected /\ Replied(q) THEN Append(inbox[c], f) ELSE inbox[c]]
        /\ stale' = stale \cup {c \in Connected : hand[c] # {} \/ ~Replied(q)}
    BY <2>1 DEF Broadcast, f
  <2>7. ASSUME NEW c \in Browsers
        PROVE  /\ inbox'[c] \in Seq(Frames)
               /\ BrowserOK(c, conn[c], hand[c], inbox'[c], outbox'[c], view[c], stale', order', read')
    <3>1. outbox' = outbox
      BY <1>1
    <3>2. /\ inbox[c] \in Seq(Frames)
          /\ BrowserOK(c, conn[c], hand[c], inbox[c], outbox[c], view[c], stale, order, read)
      BY StaysItself
    <3>3. CASE c \in Connected /\ Replied(q)
      <4>1. inbox'[c] = Append(inbox[c], f) /\ conn[c] # "off"
        BY <2>6, <3>3 DEF Connected
      <4>2. c \notin stale' => c \notin stale /\ hand[c] = {}
        BY <2>6, <3>3
      <4>3. BrowserOK(c, conn[c], hand[c], Append(inbox[c], f), outbox[c], view[c], stale', order', read')
        BY <2>5, <3>2, <4>1, <4>2, BrowserAnnounced
      <4>4. Append(inbox[c], f) \in Seq(Frames)
        BY <2>5, <3>2, Longer
      <4>5. QED
        BY <3>1, <4>1, <4>3, <4>4
    <3>4. CASE ~(c \in Connected /\ Replied(q))
      <4>1. inbox'[c] = inbox[c]
        BY <2>6, <3>4
      <4>2. conn[c] = "off" \/ c \in stale'
        BY <2>6, <3>4 DEF Connected
      <4>3. BrowserOK(c, conn[c], hand[c], inbox[c], outbox[c], view[c], stale', order', read')
        BY <3>2, <4>2, BrowserMisses
      <4>4. QED
        BY <3>1, <3>2, <4>1, <4>3
    <3>5. QED
      BY <3>3, <3>4
  <2>8. inbox' \in [Browsers -> Seq(Frames)]
    BY <2>6, <2>7
  <2>9. outbox' \in [Browsers -> Seq(Requests)] /\ stale' \subseteq Browsers
    BY <1>1, <2>6 DEF NotificationsInv, Types, Connected
  <2>10. QED
    BY <1>1, <2>2, <2>7, <2>8, <2>9, Spreads
<1>5. QED
  BY <1>3, <1>4

\* A handler takes its request off the connection.
LEMMA RequestTaken ==
    ASSUME NotificationsInv, NEW b \in Browsers, outbox[b] # <<>>, Head(outbox[b]) \notin PageRequests, Taken(b)
    PROVE  /\ outbox' \in [Browsers -> Seq(Requests)]
           /\ \A c \in Browsers :
                 BrowserOK(c, conn[c], hand[c], inbox[c], outbox'[c], view[c], stale, order, read)
<1>1. outbox' = [outbox EXCEPT ![b] = Tail(outbox[b])] /\ outbox \in [Browsers -> Seq(Requests)]
  BY DEF Taken, NotificationsInv, Types
<1>2. Tail(outbox[b]) \in Seq(Requests)
  BY StaysItself, Shorter
<1>3. BrowserOK(b, conn[b], hand[b], inbox[b], Tail(outbox[b]), view[b], stale, order, read)
  BY StaysItself, BrowserTakes
<1>4. ASSUME NEW c \in Browsers
      PROVE  BrowserOK(c, conn[c], hand[c], inbox[c], outbox'[c], view[c], stale, order, read)
  <2>1. CASE c = b
    BY <1>1, <1>3, <2>1
  <2>2. CASE c # b
    <3>1. outbox'[c] = outbox[c]
      BY <1>1, <2>2
    <3>2. QED
      BY <3>1, StaysItself
  <2>3. QED
    BY <2>1, <2>2
<1>5. QED
  BY <1>1, <1>2, <1>4

\* A frame for one browser.
LEMMA Answered ==
    ASSUME NotificationsInv, NEW b \in Browsers, NEW f \in Frames, Answer(b, f)
    PROVE  /\ inbox' \in [Browsers -> Seq(Frames)] /\ inbox'[b] = Append(inbox[b], f)
           /\ \A c \in Browsers : c # b => inbox'[c] = inbox[c]
<1>1. inbox' = [inbox EXCEPT ![b] = Append(inbox[b], f)] /\ inbox \in [Browsers -> Seq(Frames)]
  BY DEF Answer, NotificationsInv, Types
<1>2. Append(inbox[b], f) \in Seq(Frames)
  BY StaysItself, Longer
<1>3. QED
  BY <1>1, <1>2

\* A mark is told to every browser, or every other browser misses it; one that
\* changes nothing is answered to its browser alone.
LEMMA MarkStep ==
    ASSUME NotificationsInv, NEW b \in Browsers, conn[b] = "live", hand[b] = {},
           outbox[b] # <<>>, Head(outbox[b]) \notin PageRequests, Taken(b),
           NEW ids \in SUBSET Range(order), NEW kind \in {"read", "read-all"}, NEW id \in Notices \cup {NoNotice},
           IF kind = "read" THEN ids = {id} ELSE ids = Range(order),
           NEW o \in Outcome, NEW p \in Outcome, Mark(b, ids, kind, id, o, p)
    PROVE  NotificationsInv'
<1> DEFINE changed == ids \ read
           told == Replied(o) /\ changed # {} /\ Replied(p)
           news == Applied(o) /\ changed # {}
           change == [kind |-> kind, id |-> id]
           f == StateFrame(change)'
           g == IF Replied(o) /\ Replied(p) THEN StateFrame(NoChange)' ELSE ErrorFrame(kind, "failed", id)
<1>1. /\ UNCHANGED <<order, items, asked, conn, hand, view, reading>>
      /\ read' = IF Applied(o) THEN read \cup ids ELSE read
      /\ IF told THEN Broadcast(change, "ok")
         ELSE Answer(b, g) /\ stale' = IF news THEN stale \cup Connected ELSE stale
  BY DEF Mark
<1>2. read \subseteq read' /\ read' \subseteq read \cup ids /\ (Applied(o) => ids \subseteq read')
      /\ (~news => read' = read)
  BY <1>1
<1>3. StoreOK' /\ order' = order /\ order \in Seq(Notices)
  BY <1>1, <1>2 DEF NotificationsInv, StoreOK
<1>4. /\ outbox' \in [Browsers -> Seq(Requests)]
      /\ \A c \in Browsers :
            BrowserOK(c, conn[c], hand[c], inbox[c], outbox'[c], view[c], stale, order, read)
  BY RequestTaken
<1>5. change \in Change /\ change.kind = kind /\ change.id = id
  BY DEF Change
<1> HIDE DEF changed, told, news, change
<1>6. f = Snapshot(order, read', change) /\ StateFrame(NoChange)' = Snapshot(order, read', NoChange)
  BY <1>3, StateFrameNext
<1> HIDE DEF f
<1>7. CASE told
  <2>1. /\ inbox' = [c \in Browsers |-> IF c \in Connected THEN Append(inbox[c], f) ELSE inbox[c]]
        /\ stale' = stale \cup {c \in Connected : hand[c] # {}}
    BY <1>1, <1>7 DEF Broadcast, f, Replied
  <2>2. /\ f \in Frames /\ f.type = "state" /\ f.change = change
        /\ Current(f, order, read') /\ TrueRows(f.rows, read')
    BY <1>3, <1>5, <1>6, SnapshotIs
  <2>3. f \notin Replies /\ ~Announces(f) /\ f.change.kind = kind /\ f.change.id = id
    BY <1>5, <2>2 DEF Replies, Announces
  <2>4. Applied(o)
    BY <1>7 DEF told, Applied, Replied
  <2>5. /\ f.change.kind = "read" => f.change.id \in read'
        /\ f.change.kind = "read-all" => Range(order) \subseteq read'
    BY <1>2, <2>3, <2>4
  <2>6. \A m \in read' \ read : Covers(f, m)
    <3> TAKE m \in read' \ read
    <3>1. m \in ids
      BY <1>2
    <3>2. QED
      BY <2>2, <2>3, <3>1 DEF Covers
  <2>7. ASSUME NEW c \in Browsers
        PROVE  /\ inbox'[c] \in Seq(Frames)
               /\ BrowserOK(c, conn[c], hand[c], inbox'[c], outbox'[c], view[c], stale', order', read')
    <3>1. inbox[c] \in Seq(Frames)
      BY StaysItself
    <3>2. BrowserOK(c, conn[c], hand[c], inbox[c], outbox'[c], view[c], stale, order, read)
      BY <1>4
    <3>3. CASE c \in Connected
      <4>1. inbox'[c] = Append(inbox[c], f) /\ conn[c] # "off"
        BY <2>1, <3>3 DEF Connected
      <4>2. c \notin stale' => c \notin stale /\ hand[c] = {}
        BY <2>1, <3>3
      <4>3. BrowserOK(c, conn[c], hand[c], Append(inbox[c], f), outbox'[c], view[c], stale', order, read')
        BY <1>2, <2>2, <2>3, <2>5, <2>6, <3>1, <3>2, <4>1, <4>2, BrowserHears
      <4>4. Append(inbox[c], f) \in Seq(Frames)
        BY <2>2, <3>1, Longer
      <4>5. QED
        BY <1>3, <4>1, <4>3, <4>4
    <3>4. CASE c \notin Connected
      <4>1. inbox'[c] = inbox[c] /\ conn[c] = "off"
        BY <2>1, <3>4 DEF Connected
      <4>2. BrowserOK(c, conn[c], hand[c], inbox[c], outbox'[c], view[c], stale', order', read')
        BY <3>2, <4>1, BrowserMisses
      <4>3. QED
        BY <3>1, <4>1, <4>2
    <3>5. QED
      BY <3>3, <3>4
  <2>8. inbox' \in [Browsers -> Seq(Frames)]
    BY <2>1, <2>7
  <2>9. stale' \subseteq Browsers
    BY <2>1 DEF NotificationsInv, Types, Connected
  <2>10. QED
    BY <1>1, <1>3, <1>4, <2>7, <2>8, <2>9, Spreads
<1>8. CASE ~told
  <2>1. Answer(b, g) /\ stale' = IF news THEN stale \cup Connected ELSE stale
    BY <1>1, <1>8
  <2>2. /\ g \in Frames /\ g \notin Replies /\ ~Announces(g)
        /\ g.type = "state" => /\ Current(g, order, read') /\ TrueRows(g.rows, read')
                               /\ g.change.kind = "none"
    <3>1. CASE Replied(o) /\ Replied(p)
      <4>1. g = Snapshot(order, read', NoChange)
        BY <1>6, <3>1
      <4> HIDE DEF g
      <4>2. /\ g \in Frames /\ g.type = "state" /\ g.change = NoChange
            /\ Current(g, order, read') /\ TrueRows(g.rows, read')
        BY <1>3, <4>1, SnapshotIs, NoChangeIsNone
      <4>3. QED
        BY <4>2, NoChangeIsNone DEF Replies, Announces
    <3>2. CASE ~(Replied(o) /\ Replied(p))
      <4>1. g = ErrorFrame(kind, "failed", id)
        BY <3>2
      <4> HIDE DEF g
      <4>2. g \in Frames /\ g.type = "error" /\ g \notin Replies /\ ~Announces(g)
        BY <4>1, ErrorIs
      <4>3. QED
        BY <4>2
    <3>3. QED
      BY <3>1, <3>2
  <2> HIDE DEF g
  <2>3. /\ inbox' \in [Browsers -> Seq(Frames)] /\ inbox'[b] = Append(inbox[b], g)
        /\ \A c \in Browsers : c # b => inbox'[c] = inbox[c]
    BY <2>1, <2>2, Answered
  <2>4. ASSUME NEW c \in Browsers, c # b
        PROVE  BrowserOK(c, conn[c], hand[c], inbox'[c], outbox'[c], view[c], stale', order', read')
    <3>1. BrowserOK(c, conn[c], hand[c], inbox[c], outbox'[c], view[c], stale, order, read) /\ inbox'[c] = inbox[c]
      BY <1>4, <2>3, <2>4
    <3>2. CASE news
      <4>1. conn[c] = "off" \/ c \in stale'
        BY <2>1, <3>2 DEF Connected
      <4>2. BrowserOK(c, conn[c], hand[c], inbox[c], outbox'[c], view[c], stale', order', read')
        BY <3>1, <4>1, BrowserMisses
      <4>3. QED
        BY <3>1, <4>2
    <3>3. CASE ~news
      BY <1>2, <1>3, <2>1, <3>1, <3>3
    <3>4. QED
      BY <3>2, <3>3
  <2>5. BrowserOK(b, conn[b], hand[b], inbox'[b], outbox'[b], view[b], stale', order', read')
    <3>1. BrowserOK(b, conn[b], hand[b], inbox[b], outbox'[b], view[b], stale, order, read)
      BY <1>4
    <3>2. inbox[b] \in Seq(Frames) /\ conn[b] # "off"
      BY StaysItself
    <3>3. b \notin stale' => ~news /\ b \notin stale
      BY <2>1 DEF Connected
    <3>4. \A m \in read' \ read : b \in stale' \/ Covers(g, m)
      BY <1>2, <3>3
    <3>5. b \notin stale' =>
             IF g.type = "state"
             THEN /\ Current(g, order, read') /\ TrueRows(g.rows, read')
                  /\ g.change.kind = "read" => g.change.id \in read'
                  /\ g.change.kind = "read-all" => Range(order) \subseteq read'
             ELSE read' = read /\ (conn[b] = "live" => conn[b] = "live")
      BY <1>2, <2>2, <3>3
    <3>6. BrowserOK(b, conn[b], hand[b], Append(inbox[b], g), outbox'[b], view[b], stale', order, read')
      BY <1>2, <2>2, <3>1, <3>2, <3>3, <3>4, <3>5, BrowserHears
    <3>7. QED
      BY <1>3, <2>3, <3>6
  <2>6. stale' \subseteq Browsers
    BY <2>1 DEF NotificationsInv, Types, Connected
  <2>7. \A c \in Browsers : BrowserOK(c, conn[c], hand[c], inbox'[c], outbox'[c], view[c], stale', order', read')
    BY <2>4, <2>5
  <2>8. QED
    BY <1>1, <1>3, <1>4, <2>3, <2>6, <2>7, Spreads
<1>9. QED
  BY <1>7, <1>8

\* The handler marks all that are retained.
LEMMA ServeReadAllStep ==
    ASSUME NotificationsInv, NEW b \in Browsers, ServeReadAll(b)
    PROVE  NotificationsInv'
<1>1. PICK o \in Outcome, p \in Outcome :
         Serving(b, "read-all") /\ Taken(b) /\ Mark(b, Range(order), "read-all", NoNotice, o, p)
  BY DEF ServeReadAll
<1>2. conn[b] = "live" /\ hand[b] = {} /\ outbox[b] # <<>> /\ Head(outbox[b]) \notin PageRequests
  BY <1>1 DEF Serving, PageRequests
<1> DEFINE ids == Range(order)
           kind == "read-all"
<1>3. ids \in SUBSET Range(order) /\ kind \in {"read", "read-all"} /\ kind # "read" /\ ids = Range(order)
      /\ Mark(b, ids, kind, NoNotice, o, p)
  BY <1>1
<1> HIDE DEF ids, kind
<1>4. QED
  BY <1>1, <1>2, <1>3, MarkStep

\* The handler marks one, or says that it is gone.
LEMMA ServeReadStep ==
    ASSUME NotificationsInv, NEW b \in Browsers, ServeRead(b)
    PROVE  NotificationsInv'
<1>1. PICK o \in Outcome, p \in Outcome, id \in Notices :
         /\ Serving(b, "read") /\ Head(outbox[b]).id = id /\ Taken(b)
         /\ IF id \in DOMAIN items THEN Mark(b, {id}, "read", id, o, p)
            ELSE /\ o = "ok" /\ p = "ok"
                 /\ Answer(b, ErrorFrame("read", "not_found", id))
                 /\ UNCHANGED <<server, conn, hand, view, reading, mishaps, stale>>
  BY DEF ServeRead
<1>2. conn[b] = "live" /\ hand[b] = {} /\ outbox[b] # <<>> /\ Head(outbox[b]) \notin PageRequests
  BY <1>1 DEF Serving, PageRequests
<1>3. CASE id \in DOMAIN items
  <2> DEFINE ids == {id}
             kind == "read"
  <2>1. ids \in SUBSET Range(order) /\ kind \in {"read", "read-all"} /\ ids = {id}
        /\ Mark(b, ids, kind, id, o, p)
    BY <1>1, <1>3 DEF NotificationsInv, StoreOK
  <2>2. kind = "read"
    OBVIOUS
  <2> HIDE DEF ids, kind
  <2>3. QED
    BY <1>1, <1>2, <2>1, <2>2, MarkStep
<1>4. CASE id \notin DOMAIN items
  <2> DEFINE f == ErrorFrame("read", "not_found", id)
  <2>1. Answer(b, f) /\ UNCHANGED <<server, conn, hand, view, reading, stale>>
    BY <1>1, <1>4
  <2>2. f \in Frames /\ f.type = "error" /\ f \notin Replies /\ ~Announces(f)
    BY ErrorIs
  <2> HIDE DEF f
  <2>3. Tail(outbox[b]) \in Seq(Requests) /\ Append(inbox[b], f) \in Seq(Frames)
    BY <1>2, <2>2, StaysItself, Shorter, Longer
  <2>4. BrowserOK(b, conn[b], hand[b], Append(inbox[b], f), Tail(outbox[b]), view[b], stale', order, read)
    <3>1. BrowserOK(b, conn[b], hand[b], inbox[b], Tail(outbox[b]), view[b], stale, order, read)
      BY <1>2, StaysItself, BrowserTakes
    <3>2. stale' = stale /\ inbox[b] \in Seq(Frames) /\ conn[b] # "off" /\ read \subseteq read
      BY <1>2, <2>1, StaysItself
    <3>3. \A m \in read \ read : b \in stale' \/ Covers(f, m)
      OBVIOUS
    <3>4. b \notin stale' => IF f.type = "state"
                             THEN /\ Current(f, order, read) /\ TrueRows(f.rows, read)
                                  /\ f.change.kind = "read" => f.change.id \in read
                                  /\ f.change.kind = "read-all" => Range(order) \subseteq read
                             ELSE read = read /\ (conn[b] = "live" => conn[b] = "live")
      BY <2>2
    <3>5. QED
      BY <1>2, <2>2, <3>1, <3>2, <3>3, <3>4, BrowserHears
  <2>5. Moved(b, conn[b], hand[b], Append(inbox[b], f), Tail(outbox[b]), view[b], reading[b])
    BY <1>1, <2>1, StaysItself DEF Moved, Unmoved, Answer, Taken
  <2>6. QED
    BY <2>3, <2>4, <2>5, StaysItself, Moves
<1>5. QED
  BY <1>3, <1>4
-----------------------------------------------------------------------------
(* The theorems.                                                           *)

\* Before the first step nothing is stored and nobody is connected.
LEMMA InitInv ==
    ASSUME Init
    PROVE  NotificationsInv
<1>1. StoreOK
  <2>1. <<>> \in Seq(Notices) /\ IsInjective(<<>>) /\ Len(<<>>) <= Retain /\ Range(<<>>) = {} /\ DOMAIN <<>> = {}
    BY SizesAssumption DEF IsInjective, Range
  <2>2. QED
    BY <2>1 DEF Init, StoreOK
<1>2. NewView \in View /\ NewView.request = "none"
  BY DEF NewView, View
<1>3. ExchangeOK(<<>>, <<>>, NewView)
  BY <1>2 DEF ExchangeOK, NoneOf
<1>4. Types
  <2>1. <<>> \in Seq(Frames) /\ <<>> \in Seq(Requests)
    OBVIOUS
  <2>2. QED
    BY <1>2, <2>1 DEF Init, Types
<1>5. \A b \in Browsers : BrowserOK(b, conn[b], hand[b], inbox[b], outbox[b], view[b], stale, order, read)
  <2> TAKE b \in Browsers
  <2>1. conn[b] = "off" /\ hand[b] = {} /\ inbox[b] = <<>> /\ outbox[b] = <<>> /\ view[b] = NewView
    BY DEF Init
  <2>2. BrowserOK(b, "off", {}, <<>>, <<>>, NewView, stale, order, read)
    BY <1>3 DEF BrowserOK
  <2>3. QED
    BY <2>1, <2>2
<1>6. QED
  BY <1>1, <1>4, <1>5 DEF NotificationsInv

\* Nothing happens, or one of the actions.
LEMMA Actions ==
    ASSUME [Next]_vars
    PROVE  \/ UNCHANGED vars
           \/ \E n \in Notices : Create(n) \/ Forget(n)
           \/ \E b \in Browsers : Greet(b) \/ Written(b) \/ ServeState(b) \/ ServePage(b)
           \/ \E b \in Browsers : ServeRead(b) \/ ServeReadAll(b)
           \/ \E b \in Browsers : ReceiveState(b) \/ ReceivePage(b) \/ ReceiveError(b)
           \/ \E b \in Browsers : Connect(b) \/ Disconnect(b) \/ MarkAll(b) \/ LoadOlder(b)
           \/ \E b \in Browsers : \E i \in Notices : SendRead(b, i)
BY DEF Next, Producer, Handler, Receive, User

\* Every action keeps the invariant.
LEMMA StepInv ==
    ASSUME NotificationsInv, [Next]_vars
    PROVE  NotificationsInv'
<1>1. CASE UNCHANGED vars
  <2>1. UNCHANGED <<store, page, stale>> /\ asked' = asked
    BY <1>1 DEF vars, server
  <2>2. asked' \subseteq Notices
    BY <2>1 DEF NotificationsInv, StoreOK
  <2>3. QED
    BY <2>1, <2>2, AsksAgain
<1>2. ASSUME NEW n \in Notices, Create(n) \/ Forget(n) PROVE NotificationsInv'
  BY <1>2, CreateStep, ForgetStep
<1>3. ASSUME NEW b \in Browsers, Greet(b) \/ Written(b) \/ ServeState(b) \/ ServePage(b)
      PROVE  NotificationsInv'
  BY <1>3, GreetStep, WrittenStep, ServeStateStep, ServePageStep
<1>4. ASSUME NEW b \in Browsers, ServeRead(b) \/ ServeReadAll(b) PROVE NotificationsInv'
  BY <1>4, ServeReadStep, ServeReadAllStep
<1>5. ASSUME NEW b \in Browsers, ReceiveState(b) \/ ReceivePage(b) \/ ReceiveError(b) PROVE NotificationsInv'
  BY <1>5, ReceiveStateStep, ReceivePageStep, ReceiveErrorStep
<1>6. ASSUME NEW b \in Browsers, Connect(b) \/ Disconnect(b) \/ MarkAll(b) \/ LoadOlder(b)
      PROVE  NotificationsInv'
  BY <1>6, ConnectStep, DisconnectStep, MarkAllStep, LoadOlderStep
<1>7. ASSUME NEW b \in Browsers, NEW i \in Notices, SendRead(b, i) PROVE NotificationsInv'
  BY <1>7, SendReadStep
<1>8. QED
  BY <1>1, <1>2, <1>3, <1>4, <1>5, <1>6, <1>7, Actions

\* The store holds what was accepted, and what a browser shows, what it waits
\* for and what is under way to it add up to the store, whatever is created,
\* marked or evicted and whatever is lost meanwhile.
THEOREM NotificationsInvariant == Spec => []NotificationsInv
<1>1. Init => NotificationsInv
  BY InitInv
<1>2. NotificationsInv /\ [Next]_vars => NotificationsInv'
  BY StepInv
<1>3. QED
  BY <1>1, <1>2, PTL DEF Spec

\* The invariant types every state.
LEMMA InvTypes ==
    ASSUME NotificationsInv
    PROVE  TypeOK
<1>1. ASSUME NEW b \in Browsers PROVE Cardinality(hand[b]) <= 1
  <2>1. CASE hand[b] = {}
    BY <2>1, FS_EmptySet
  <2>2. CASE hand[b] # {}
    <3>1. PICK f \in hand[b] : hand[b] = {f}
      BY <2>2, StaysItself
    <3>2. Cardinality(hand[b]) = 1
      BY <3>1, FS_Singleton
    <3>3. QED
      BY <3>2
  <2>3. QED
    BY <2>1, <2>2
<1>2. QED
  BY <1>1 DEF NotificationsInv, Types, StoreOK, TypeOK

\* Rows with the marks of the store are the store's.
LEMMA TrueRowsAre ==
    ASSUME NEW rows \in SUBSET Entries, NEW T, NEW rd, TrueRows(rows, rd), Ids(rows) = T
    PROVE  rows = RowsNow(T, rd)
<1>1. ASSUME NEW r \in rows PROVE r = [id |-> r.id, read |-> r.id \in rd] /\ r.id \in T
  <2> DEFINE m == r.id \in rd
  <2>1. r = [id |-> r.id, read |-> r.read] /\ r.read \in BOOLEAN /\ m \in BOOLEAN
    BY DEF Entries
  <2>2. r.read <=> m
    BY DEF TrueRows
  <2>3. r.read = m
    BY <2>1, <2>2
  <2>4. r.id \in T
    BY DEF Ids
  <2>5. QED
    BY <2>1, <2>3, <2>4
<1>2. rows \subseteq RowsNow(T, rd)
  BY <1>1 DEF RowsNow
<1>3. ASSUME NEW i \in T PROVE [id |-> i, read |-> i \in rd] \in rows
  <2>1. PICK r \in rows : r.id = i
    BY DEF Ids
  <2>2. r = [id |-> i, read |-> i \in rd]
    BY <1>1, <2>1
  <2>3. QED
    BY <2>2
<1>4. RowsNow(T, rd) \subseteq rows
  BY <1>3 DEF RowsNow
<1>5. QED
  BY <1>2, <1>4

\* With nothing under way there is nothing a browser waits for: what it shows
\* is the store.
LEMMA QuietShows ==
    ASSUME NotificationsInv, NEW b \in Browsers, Quiet(b), b \notin stale
    PROVE  ShowsStore(b)
<1> DEFINE v == view[b]
<1>1. conn[b] = "live" /\ hand[b] = {} /\ inbox[b] = <<>> /\ outbox[b] = <<>> /\ ~v.failed
  BY DEF Quiet
<1>2. v \in View /\ order \in Seq(Notices)
  BY StaysItself DEF NotificationsInv, StoreOK
<1> HIDE DEF v
<1>3. /\ ExchangeOK(<<>>, <<>>, v) /\ StateOK("live", {}, <<>>, v, order, read)
      /\ ListOK(<<>>, v, order) /\ MarksOK(<<>>, v, order, read)
  BY <1>1, StaysItself DEF BrowserOK, v
<1>4. Len(<<>>) = 0 /\ \A i : i \notin 1..0
  OBVIOUS
<1>5. v.request = "none"
  <2>1. ~OneOf(<<>>, PageRequests) /\ ~OneOf(<<>>, Replies)
    BY <1>4 DEF OneOf
  <2>2. QED
    BY <1>3, <2>1 DEF ExchangeOK
<1>6. Settled(<<>>, v)
  <2>1. Fresh(<<>>, 0)
    BY DEF Fresh
  <2>2. ~v.reload
    BY <1>1, <1>3, <1>5 DEF ListOK, v
  <2>3. ~v.failed
    BY <1>1 DEF v
  <2>4. QED
    BY <1>5, <2>1, <2>2, <2>3 DEF Settled
<1>7. Current(v, order, read)
  BY <1>3, <1>4 DEF StateOK
<1>8. PICK k \in 0..Len(order) : Spans(v.loaded, order, 0, k) /\ EndsAt(v, order, k)
  BY <1>3, <1>6 DEF ListOK
<1>9. TrueRows(v.loaded, read)
  <2>1. Marked(v.loaded, <<>>, 0, read)
    BY <1>3, <1>6 DEF MarksOK
  <2>2. QED
    BY <1>4, <2>1 DEF Marked, TrueRows
<1> DEFINE ids == {order[j] : j \in 1..k}
<1>10. v.loaded = RowsNow(ids, read)
  <2>1. v.loaded \in SUBSET Entries
    BY <1>2 DEF View, Entries
  <2>2. Ids(v.loaded) = ids
    BY <1>8 DEF Spans
  <2> HIDE DEF ids
  <2>3. QED
    BY <1>9, <2>1, <2>2, TrueRowsAre
<1>11. RowsNow(ids, read) = {Row(order[j]) : j \in 1..k}
  BY DEF RowsNow, Row
<1>12. v.rows = {Row(i) : i \in FirstOf(order, Recent)} /\ v.unread = Cardinality(Range(order) \ read)
  BY <1>7 DEF Current, RowsNow, Row
<1>13. v.done <=> k = Len(order)
  BY <1>8 DEF EndsAt
<1>14. QED
  BY <1>10, <1>11, <1>12, <1>13 DEF ShowsStore, v

\* The invariant says what a quiet browser shows.
LEMMA InvShows ==
    ASSUME NotificationsInv
    PROVE  QuietShowsStore
<1>1. TypeOK
  BY InvTypes
<1>2. StoredIsShown
  BY RowsAreOrder DEF NotificationsInv, StoredIsShown
<1>3. QED
  BY <1>1, <1>2, QuietShows DEF QuietShowsStore

\* A browser that was not overtaken and has nothing under way shows the newest
\* notifications, their number unread and, without a gap, its list, all with
\* their marks; and no notification that was stored is dropped as malformed.
THEOREM QuietBrowserShowsStore == Spec => []QuietShowsStore
<1>1. NotificationsInv => QuietShowsStore
  BY InvShows
<1>2. QED
  BY <1>1, NotificationsInvariant, PTL

\* No step takes a read time from a notification it keeps, neither a creation
\* nor a mark, whatever becomes of their commands.
LEMMA ReadIsKept ==
    ASSUME [Next]_vars
    PROVE  read \cap Range(order') \subseteq read'
<1>1. CASE UNCHANGED read
  BY <1>1
<1>2. ASSUME NEW n \in Notices, Create(n) PROVE read \cap Range(order') \subseteq read'
  <2>1. PICK o \in Outcome : IF Applied(o) /\ MayCreate(n) THEN Created(n) ELSE UNCHANGED store
    BY <1>2 DEF Create
  <2>2. CASE Applied(o) /\ MayCreate(n)
    BY <2>1, <2>2 DEF Created
  <2>3. CASE ~(Applied(o) /\ MayCreate(n))
    BY <2>1, <2>3 DEF store
  <2>4. QED
    BY <2>2, <2>3
<1>3. ASSUME NEW b \in Browsers, NEW ids, NEW kind, NEW id, NEW o, NEW p, Mark(b, ids, kind, id, o, p)
      PROVE  read \subseteq read'
  BY <1>3 DEF Mark
<1>4. ASSUME NEW b \in Browsers, ServeRead(b) PROVE read \subseteq read'
  <2>1. PICK o \in Outcome, p \in Outcome, id \in Notices :
           Mark(b, {id}, "read", id, o, p) \/ UNCHANGED server
    BY <1>4 DEF ServeRead
  <2>2. CASE Mark(b, {id}, "read", id, o, p)
    BY <1>3, <2>2
  <2>3. CASE UNCHANGED server
    BY <2>3 DEF server, store
  <2>4. QED
    BY <2>1, <2>2, <2>3
<1>5. ASSUME NEW b \in Browsers, ServeReadAll(b) PROVE read \subseteq read'
  <2>1. PICK o \in Outcome, p \in Outcome : Mark(b, Range(order), "read-all", NoNotice, o, p)
    BY <1>5 DEF ServeReadAll
  <2>2. QED
    BY <1>3, <2>1
<1>6. ASSUME NEW n \in Notices, Forget(n) PROVE UNCHANGED read
  BY <1>6 DEF Forget, store
<1>7. ASSUME NEW b \in Browsers, Greet(b) \/ Written(b) \/ ServeState(b) \/ ServePage(b) PROVE UNCHANGED read
  BY <1>7 DEF Greet, Written, ServeState, ServePage, server, store
<1>8. ASSUME NEW b \in Browsers, ReceiveState(b) \/ ReceivePage(b) \/ ReceiveError(b) PROVE UNCHANGED read
  BY <1>8 DEF ReceiveState, ReceivePage, ReceiveError, server, store
<1>9. ASSUME NEW b \in Browsers, Connect(b) \/ Disconnect(b) \/ MarkAll(b) \/ LoadOlder(b) PROVE UNCHANGED read
  BY <1>9 DEF Connect, Disconnect, MarkAll, LoadOlder, server, store
<1>10. ASSUME NEW b \in Browsers, NEW i \in Notices, SendRead(b, i) PROVE UNCHANGED read
  BY <1>10 DEF SendRead, server, store
<1>11. CASE UNCHANGED vars
  BY <1>11 DEF vars, server, store
<1>12. QED
  BY <1>1, <1>2, <1>4, <1>5, <1>6, <1>7, <1>8, <1>9, <1>10, <1>11, Actions

\* What was read stays read while it is retained, also when the lifecycle
\* creates it again after a restart and when scripts fail half-way.
THEOREM ReadNoticesStayRead == Spec => ReadStaysRead
<1>1. [Next]_vars => [read \cap Range(order') \subseteq read']_vars
  BY ReadIsKept
<1>2. QED
  BY <1>1, PTL DEF Spec, ReadStaysRead
=============================================================================
