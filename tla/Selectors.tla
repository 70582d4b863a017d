------------------------------ MODULE Selectors ------------------------------
(* jobs/selector.go: which days and which part of the day a recurring task      *)
(* belongs to.  An instant is the number of whole hours since a Sunday 00:00 of *)
(* the controller's local clock: every boundary the code compares with lies on  *)
(* the hour.  A selector text is given as its words after ToLower/Fields, each  *)
(* word split at its commas.                                                    *)
EXTENDS Integers, Sequences, FiniteSets, SequencesExt

Weekdays == 0..6     \* time.Weekday: Sunday is 0
DayTokens == [sun |-> 0, mon |-> 1, tue |-> 2, wed |-> 3, thu |-> 4, fri |-> 5, sat |-> 6]

\* [first hour, first hour after the bucket)
Buckets == {"early-morning", "morning", "afternoon", "evening", "night", "late-night", "anytime"}
BucketHours ==
    [b \in Buckets |->
        CASE b = "early-morning" -> <<5, 8>>   [] b = "morning"    -> <<8, 12>>
          [] b = "afternoon"     -> <<12, 17>> [] b = "evening"    -> <<17, 21>>
          [] b = "night"         -> <<21, 24>> [] b = "late-night" -> <<0, 5>>
          [] b = "anytime"       -> <<0, 24>>]

Refused == [ok |-> FALSE]
Parsed(days, bucket) == [ok |-> TRUE, days |-> days, bucket |-> bucket]

DaysOf(tokens) ==    \* the days part: a group word, or day names without repetition
    CASE tokens = <<"everyday">> -> Parsed(Weekdays, "")
      [] tokens = <<"weekday">>  -> Parsed(1..5, "")
      [] tokens = <<"weekend">>  -> Parsed({0, 6}, "")
      [] OTHER -> IF ToSet(tokens) \subseteq DOMAIN DayTokens /\ IsInjective(tokens)
                  THEN Parsed({DayTokens[d] : d \in ToSet(tokens)}, "") ELSE Refused

IsBucket(word) == Len(word) = 1 /\ word[1] \in Buckets

Parse(words) ==
    IF Len(words) \notin 1..2 THEN Refused
    ELSE LET named  == IsBucket(Last(words))
             bucket == IF named THEN Last(words)[1] ELSE "anytime"
             days   == IF named /\ Len(words) = 1 THEN <<"everyday">> ELSE words[1]
         IN  IF ~named /\ Len(words) = 2 THEN Refused
             ELSE IF DaysOf(days).ok THEN [DaysOf(days) EXCEPT !.bucket = bucket]
             ELSE Refused

Weekday(t) == (t \div 24) % 7
Hour(t)    == t % 24

Matches(s, t) ==
    /\ Weekday(t) \in s.days
    /\ Hour(t) >= BucketHours[s.bucket][1]
    /\ Hour(t) < BucketHours[s.bucket][2]

\* The current or the next occurrence as <<start, end>>; the code looks at today
\* and the seven days after it, and answers the zero time when no day is set.
Offsets == 0..7
NoWindow == <<0, 0>>
BucketWindow(s, t) ==
    LET start(o) == 24 * (t \div 24 + o) + BucketHours[s.bucket][1]
        end(o)   == 24 * (t \div 24 + o) + BucketHours[s.bucket][2]
        fits(o)  == Weekday(24 * (t \div 24 + o)) \in s.days /\ (o > 0 \/ t < end(o))
        hits     == {o \in Offsets : fits(o)}
    IN  IF hits = {} THEN NoWindow ELSE <<start(Min(hits)), end(Min(hits))>>

\* The tokens that name this instant, as the prompt and /status show them.
Parts == <<"late-night", "early-morning", "morning", "afternoon", "evening", "night">>
ActiveBuckets(t) ==
    LET now  == SelectSeq(Parts, LAMBDA b : BucketHours[b][1] <= Hour(t) /\ Hour(t) < BucketHours[b][2])
        day  == CHOOSE d \in DOMAIN DayTokens : DayTokens[d] = Weekday(t)
        kind == IF Weekday(t) \in {0, 6} THEN "weekend" ELSE "weekday"
    IN  <<IF now = <<>> THEN "anytime" ELSE now[1], "anytime", day, kind, "everyday">>
=============================================================================
