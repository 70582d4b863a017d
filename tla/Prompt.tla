------------------------------- MODULE Prompt -------------------------------
(* agent/agent.go and agent/budget.go: how the browser agent fits its           *)
(* conversation with the model into the context window.  A message is a record  *)
(* of what the budget and the compaction look at.  Sizes are in units of 256    *)
(* bytes, the least an observation is ever cut to; a unit of text costs         *)
(* `density' tokens, an image a fixed number.                                   *)
EXTENDS Integers, Sequences, FiniteSets, FiniteSetsExt

CONSTANTS Pages,           \* what an observation can show
          NoPage,
          MaxToolRounds,   \* maxToolRounds
          ContextTokens, Margin, MinCompletion, ImageTokens,
          OldText          \* olderToolTextCap

ASSUME PromptAssumption ==
    /\ NoPage \notin Pages
    /\ MaxToolRounds \in Nat \ {0}
    /\ {ContextTokens, Margin, MinCompletion, ImageTokens, OldText} \subseteq Nat \ {0}
    /\ Margin + MinCompletion < ContextTokens

\* `what' tells apart the contents the code tells apart:
\*   text   ordinary text            stub   "use the following observation message"
\*   page   an observation in full   gone   the stub of a superseded observation
\*   same   "Page unchanged ..."     old    "[observation superseded by a newer one]"
\*   bare   an image observation whose image was taken out
Contents == {"text", "page", "same", "bare", "old", "stub", "gone"}
Messages == [role : {"system", "user", "assistant", "tool"}, what : Contents, page : Pages \cup {NoPage},
             image : BOOLEAN, calls : Nat, size : Nat]

Text(role, size) ==
    [role |-> role, what |-> "text", page |-> NoPage, image |-> FALSE, calls |-> 0, size |-> size]
Round(n) == [Text("assistant", n) EXCEPT !.calls = n]    \* an assistant message with n tool calls
Stub     == [Text("tool", 0) EXCEPT !.what = "stub"]
Page(p, size, image) == [Text("user", size) EXCEPT !.what = "page", !.page = p, !.image = image]
Same(p)  == [Text("user", 0) EXCEPT !.what = "same", !.page = p]

IsObservation(m) == m.role = "user" /\ m.what \in {"page", "same"}
IsRound(m)       == m.role = "assistant" /\ m.calls > 0
MaxOr0(S)        == IF S = {} THEN 0 ELSE Max(S)
Lesser(a, b)     == IF a < b THEN a ELSE b
Greater(a, b)    == IF a < b THEN b ELSE a

\* The task's messages follow the first h, which are the system prompt and the history.
RoundStarts(ms, h)  == {i \in h + 1..Len(ms) : IsRound(ms[i])}
Newer(ms, h, r)     == {s \in RoundStarts(ms, h) : s >= r}
RoundOf(ms, h, i)   == MaxOr0({r \in RoundStarts(ms, h) : r <= i})
LatestPage(ms, h)   == MaxOr0({i \in h + 1..Len(ms) : ms[i].what = "page"})
LatestSame(ms, h)   == MaxOr0({i \in h + 1..Len(ms) : ms[i].what = "same" /\ i > LatestPage(ms, h)})

\* The k-th stub of a round belongs to the k-th observation of the round.
Observations(ms, h, r) == {i \in r..Len(ms) : IsObservation(ms[i]) /\ RoundOf(ms, h, i) = r}
Stubs(ms, h, r)        == {i \in r..Len(ms) : ms[i].what = "stub" /\ RoundOf(ms, h, i) = r}
Rank(S, i)             == Cardinality({j \in S : j <= i})
IsPaired(ms, h, s, o) ==
    LET r == RoundOf(ms, h, s)
    IN  r # 0 /\ o \in Observations(ms, h, r) /\ Rank(Stubs(ms, h, r), s) = Rank(Observations(ms, h, r), o)

\* Mutant: the last page is not carried over when its round falls out.
Carried_Never(ms, h, from) == <<>>
Carried(ms, h, from) ==
    LET p == LatestPage(ms, h) IN IF p # 0 /\ p < from THEN <<ms[p]>> ELSE <<>>

Current(ms, h) == {LatestPage(ms, h), LatestSame(ms, h)} \ {0}

\* Mutant: the stub of a superseded observation keeps pointing at it.
Superseded_StubKept(ms, h, current, i) ==
    IF IsObservation(ms[i]) /\ i \notin current THEN [Text("user", 0) EXCEPT !.what = "old"] ELSE ms[i]
Superseded(ms, h, current, i) ==
    CASE IsObservation(ms[i]) /\ i \notin current -> [Text("user", 0) EXCEPT !.what = "old"]
      [] ms[i].what = "stub" /\ ~\E o \in current : IsPaired(ms, h, i, o) -> [ms[i] EXCEPT !.what = "gone"]
      [] OTHER -> ms[i]

\* Where the newest rounds begin.
KeptFrom(ms, h) ==
    IF Cardinality(RoundStarts(ms, h)) > MaxToolRounds
    THEN Min({r \in RoundStarts(ms, h) : Cardinality(Newer(ms, h, r)) <= MaxToolRounds})
    ELSE h + 1
CompactTask(ms, h) ==    \* keep the newest rounds and the current page
    LET current == Current(ms, h)
        from    == KeptFrom(ms, h)
    IN  SubSeq(ms, 1, h) \o Carried(ms, h, from)
            \o SubSeq([i \in DOMAIN ms |-> Superseded(ms, h, current, i)], from, Len(ms))

\* The system prompt, the last question of the history and the newest round, with
\* the page that an "unchanged" in that round speaks of.
HardKept(ms, h) ==
    LET question == MaxOr0({i \in 2..Lesser(h, Len(ms)) : ms[i].role = "user"})
        newest   == MaxOr0(RoundStarts(ms, h))
        page     == MaxOr0({i \in h + 1..newest - 1 : ms[i].what = "page"})
        speaks   == newest # 0 /\ \E i \in newest..Len(ms) : ms[i].what = "same"
    IN  <<ms[1]>> \o (IF question = 0 THEN <<>> ELSE <<ms[question]>>)
            \o (IF speaks /\ page # 0 THEN <<ms[page]>> ELSE <<>>)
            \o (IF newest = 0 THEN <<>> ELSE SubSeq(ms, newest, Len(ms)))
CompactHard(kept) == CompactTask(kept, Lesser(2, Len(kept)))

OlderToolText(ms, h) ==    \* ordinary results before the newest round lose all but a line
    LET starts == RoundStarts(ms, h)
        older(i) == /\ Cardinality(starts) > 1 /\ i \in Min(starts)..Max(starts) - 1
                    /\ ms[i].role = "tool" /\ ms[i].what = "text"
        cut(i)   == IF older(i) THEN [ms[i] EXCEPT !.size = Lesser(@, OldText)] ELSE ms[i]
    IN  SubSeq([i \in DOMAIN ms |-> cut(i)], 1, Len(ms))

Droppable(ms, h) == Cardinality(RoundStarts(ms, h)) > 1
DropOldestRound(ms, h) ==
    LET oldest == Min(RoundStarts(ms, h))
        next   == Min(RoundStarts(ms, h) \ {oldest})
    IN  SubSeq(ms, 1, oldest - 1) \o SubSeq(ms, next, Len(ms))

\* shrinkLatestObservation: half the text, but a unit; on demand without the image.
Shrinkable(ms) == LatestPage(ms, 0) # 0 /\ ms[LatestPage(ms, 0)].size > 1
Unpictured(m) == IF m.image THEN [m EXCEPT !.image = FALSE, !.what = "bare"] ELSE m
ShrinkLatest(ms, dropImage) ==
    LET half(m) == [m EXCEPT !.size = Greater(1, @ \div 2)]
    IN  [ms EXCEPT ![LatestPage(ms, 0)] = IF dropImage THEN Unpictured(half(@)) ELSE half(@)]

Tokens(ms, density) ==
    LET first[n \in 0..Len(ms)] ==    \* those of the first n messages
            IF n = 0 THEN 0
            ELSE first[n - 1] + density * ms[n].size + (IF ms[n].image THEN ImageTokens ELSE 0)
    IN  first[Len(ms)]
Budget == ContextTokens - Margin - MinCompletion
Fits(ms, density) == Tokens(ms, density) <= Budget

MaxTokens(tokens) ==
    Lesser(Greater(ContextTokens - tokens - Margin, MinCompletion), Greater(1, ContextTokens \div 4))
=============================================================================
