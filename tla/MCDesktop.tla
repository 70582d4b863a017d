---- MODULE MCDesktop ----
\* Sizes are units of 256 bytes.  One behaviour either explores the prompt (long
\* turns, pages that stay or change, overflows), or a turn whose question is not in
\* the history, or the two hands on the mouse (bursts, switches, Stop, faults), or
\* Stop and faults on the way through overflows.
EXTENDS Desktop
CONSTANTS home, other

MCTools ==
    [read  |-> [inputs |-> 0, shows |-> TRUE,  image |-> FALSE, size |-> 4],
     look  |-> [inputs |-> 0, shows |-> TRUE,  image |-> TRUE,  size |-> 1],
     bash  |-> [inputs |-> 0, shows |-> FALSE, image |-> FALSE, size |-> 3],
     click |-> [inputs |-> 1, shows |-> FALSE, image |-> FALSE, size |-> 1],
     goto  |-> [inputs |-> 2, shows |-> TRUE,  image |-> FALSE, size |-> 1]]
Asked  == <<Text("user", 2), Text("assistant", 1), Text("user", 1)>>
Passed == <<Text("user", 1), Text("user", 2), Text("assistant", 1)>>    \* the reply to the first came last
Mute   == <<Text("assistant", 2), Text("assistant", 1)>>    \* a clear took the questions
MCHistories == {Asked, Passed, Mute, <<>>}

Thinking == [steps |-> 4, replies |-> {<<"read">>, <<"look">>, <<"bash">>, <<"bash", "read">>, <<"read", "read">>},
             densities |-> {2}, pages |-> {home, other}, starts |-> {Asked, Passed, Task},
             stored |-> {"off"}, toggles |-> 0, points |-> {1}, overflows |-> 2, mishaps |-> 0, stops |-> FALSE]
\* A turn nobody asked for is long enough for the retention to cut what a hard cut left.
Unheard  == [steps |-> 5, replies |-> {<<"read">>, <<"read", "read">>},
             densities |-> {}, pages |-> {home, other}, starts |-> {Mute, <<>>},
             stored |-> {"off"}, toggles |-> 0, points |-> {1}, overflows |-> 1, mishaps |-> 0, stops |-> FALSE]
Moving   == [steps |-> 2, replies |-> {<<"click">>, <<"goto">>, <<"look", "click">>},
             densities |-> {}, pages |-> {home}, starts |-> {Task},
             stored |-> {"unset", "off"}, toggles |-> 2, points |-> 1..2, overflows |-> 0, mishaps |-> 1, stops |-> TRUE]
Stopping == [steps |-> 3, replies |-> {<<"read">>, <<"click">>},
             densities |-> {}, pages |-> {home}, starts |-> {Asked},
             stored |-> {"off"}, toggles |-> 0, points |-> {1}, overflows |-> 2, mishaps |-> 1, stops |-> TRUE]
MCScripts == {Thinking, Unheard, Moving, Stopping}
====
