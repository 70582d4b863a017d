---- MODULE MCProjects ----
\* Two days of a week, Monday and Tuesday: an instant in the morning and one in
\* the evening of the first day, one in the morning of the second.
EXTENDS Projects
CONSTANTS p1, t1

MCWeekdayMorning == [days |-> 1..5, bucket |-> "morning"]
MCMondayAnytime  == [days |-> {1}, bucket |-> "anytime"]
MCOffered  == {MCWeekdayMorning, MCMondayAnytime}
MCInstants == <<32, 42, 58>>
MCCombined == {[task |-> t1, enabled |-> TRUE]}
====
