------------------------------- MODULE Desktop -------------------------------
(* The virtual desktop's two users: the browser agent's turn (agent/agent.go,   *)
(* tools.go, humanize.go), which asks the model, runs the tools it calls and    *)
(* feeds what they show back into the prompt, and the jiggler                   *)
(* (jiggler/jiggler.go), which moves the mouse between its inputs.  They share  *)
(* the actuation lock (actuation/actuation.go).  The job queue runs one turn at *)
(* a time; a turn's cancellation (Stop, a browser that left) can come at any    *)
(* point of it.                                                                 *)
EXTENDS Prompt

CONSTANTS Tools,       \* tool name -> [inputs |-> xdotool calls it makes, shows |-> BOOLEAN,
                       \*               image |-> BOOLEAN, size |-> size of its text]
          MaxSteps,    \* Config.MaxSteps
          Histories,   \* what the shared conversation can hold when a turn asks for it
          Density,     \* defaultBytesPerToken, as the tokens a unit of text costs
          Scripts,     \* the inputs a behaviour draws from, see script
          MaxTurns

ASSUME DesktopAssumption ==
    /\ MaxSteps \in Nat \ {0} /\ MaxTurns \in Nat
    /\ Density \in Nat \ {0}
ASSUME ToolsAssumption ==
    /\ Tools \in [DOMAIN Tools -> [inputs : Nat, shows : BOOLEAN, image : BOOLEAN, size : Nat]]
    /\ "none" \notin DOMAIN Tools    \* that is what NothingShown was shown by
\* Nothing after a clear or before the load, and not always a question at the end.
ASSUME HistoryAssumption == \A history \in Histories :
    /\ history \in Seq(Messages)
    /\ \A i \in DOMAIN history :
         history[i].what = "text" /\ history[i].role \in {"user", "assistant"} /\ history[i].calls = 0
Task == <<Text("user", 1)>>
ASSUME ScriptsAssumption == \A s \in Scripts :
    /\ s.starts \subseteq Histories \cup {Task} /\ s.replies \subseteq Seq(DOMAIN Tools) /\ s.pages \subseteq Pages
    /\ s.densities \subseteq Nat /\ s.stored \subseteq {"on", "off", "unset"}

VARIABLES
    phase,       \* where the turn is: idle planning fitting asked overflow acting waiting pausing pressing ending
    messages, historyEnd,
    step,        \* Agent.step
    attempt,     \* which of the three attempts at a completion this is
    retried,     \* retriedEmptyCompletion
    prose,       \* some text has been streamed
    lastShown,   \* lastObservationHash: what the last observation in full showed
    calls,       \* the tool calls of this round still to run, the running one first
    observed,    \* observationMessages
    presses,     \* xdotool calls the running tool still has to make
    density,     \* bytesPerToken: the estimate, calibrated by what the server counted
    cancelled,   \* the turn's context is cancelled
    turns,
    lock,        \* actuation.global: free, tool or jiggler
    enabled,     \* jiggler: the cached setting
    stored,      \* jiggler: the persisted one
    setting,     \* the value a browser's request has stored and not yet cached
    wake,        \* a token in the wake channel
    hand,        \* jiggler loop: silent, soon, checking, moving
    points,      \* points of the burst still to move to
    late,        \* points moved since the jiggler was switched off
    lostPage,    \* a cut of this turn may have taken the current page
    opening,     \* what the turn started from: asked (a question of the user is in it), mute,
                 \* or misread, when a hard cut of a mute one has taken a round for history
    script,      \* what this behaviour's model and browsers may do
    toggles, overflows, mishaps

promptVars == <<messages, historyEnd, lastShown, observed, lostPage, opening>>
turnVars   == <<phase, step, attempt, retried, prose, calls, presses, cancelled, turns>>
jigVars    == <<enabled, stored, setting, wake, hand, points, late>>
bounds     == <<script, toggles, overflows, mishaps>>
vars       == <<promptVars, turnVars, density, lock, jigVars, bounds>>

NothingShown == [tool |-> "none", page |-> NoPage]
NoSetting    == "none"
Switch       == {"on", "off"}
Holding      == {"pausing", "pressing", "ending"}    \* between Lock and Unlock
UsesXdotool(t) == Tools[t].inputs > 0

Init ==
    /\ phase = "idle" /\ messages = <<>> /\ historyEnd = 0 /\ step = 0 /\ attempt = 1
    /\ retried = FALSE /\ prose = FALSE /\ lastShown = NothingShown /\ calls = <<>> /\ observed = <<>>
    /\ presses = 0 /\ density = Density /\ cancelled = FALSE /\ turns = 0
    /\ lock = "free" /\ setting = NoSetting /\ wake = FALSE /\ hand = "silent" /\ points = 0 /\ late = 0
    /\ lostPage = FALSE /\ opening = "mute" /\ toggles = 0 /\ overflows = 0 /\ mishaps = 0
    /\ script \in Scripts
    /\ stored \in script.stored        \* Start: anything but a stored "0" is on
    /\ enabled = (stored # "off")

Mishap == mishaps < script.mishaps /\ mishaps' = mishaps + 1

HasQuestion(ms, h) == \E i \in 2..h : ms[i].role = "user"

\* Handle and HandleFresh: beginTask, then the conversation as it is or the task alone.
Begin ==
    /\ phase = "idle" /\ turns < MaxTurns /\ turns' = turns + 1
    /\ \E start \in script.starts : messages' = <<Text("system", 1)>> \o start
    /\ historyEnd' = Len(messages')
    /\ opening' = IF HasQuestion(messages', historyEnd') THEN "asked" ELSE "mute"
    /\ phase' = "planning" /\ step' = 0 /\ attempt' = 1 /\ retried' = FALSE /\ prose' = FALSE
    /\ lastShown' = NothingShown /\ observed' = <<>> /\ lostPage' = FALSE
    /\ UNCHANGED <<calls, presses, cancelled, density, lock, jigVars, bounds>>

\* Nothing of a turn outlives it but the calibration of the estimate.
Finish ==
    /\ phase' = "idle" /\ messages' = <<>> /\ historyEnd' = 0 /\ step' = 0 /\ attempt' = 1
    /\ retried' = FALSE /\ prose' = FALSE /\ lastShown' = NothingShown /\ observed' = <<>>
    /\ lostPage' = FALSE /\ opening' = "mute" /\ cancelled' = FALSE /\ calls' = <<>>
    /\ UNCHANGED <<presses, turns, lock, jigVars>>

LimitReached == phase = "planning" /\ step >= MaxSteps /\ Finish /\ UNCHANGED <<density, bounds>>

\* attemptCompletion: compact the prompt, cut it until it fits, send it if it does.
Attempt ==
    /\ phase = "planning" /\ step < MaxSteps /\ phase' = "fitting"
    /\ \E tidy \in {CompactTask(messages, historyEnd)} : messages' = OlderToolText(tidy, historyEnd)
    /\ UNCHANGED <<historyEnd, lostPage, opening, step, attempt, retried, prose, calls, presses, cancelled, turns,
                   lastShown, observed, density, lock, jigVars, bounds>>

\* Mutant: the prompt goes out whatever the last cut left of it.
Sendable_AfterCuts == Fits(messages, density) \/ historyEnd <= 2
Sendable == Fits(messages, density)

Cuttable == Droppable(messages, historyEnd) \/ Shrinkable(messages)

DropRound ==
    /\ phase = "fitting" /\ ~Sendable /\ Droppable(messages, historyEnd)
    /\ messages' = DropOldestRound(messages, historyEnd)
    /\ lostPage' = TRUE
    /\ UNCHANGED <<historyEnd, opening, turnVars, lastShown, observed, density, lock, jigVars, bounds>>

HalvePage ==
    /\ phase = "fitting" /\ ~Sendable /\ ~Droppable(messages, historyEnd) /\ Shrinkable(messages)
    /\ messages' = ShrinkLatest(messages, FALSE)
    /\ UNCHANGED <<historyEnd, lostPage, opening, turnVars, lastShown, observed, density, lock, jigVars, bounds>>

\* The two messages that are history afterwards are the system prompt and the question:
\* without a question the second is what the task left, its newest round most likely.
CutHard ==
    /\ \E kept \in {HardKept(messages, historyEnd)} : messages' = CompactHard(kept)
    /\ historyEnd' = Lesser(2, Len(messages')) /\ lostPage' = TRUE
    /\ opening' = IF opening = "mute" /\ Len(messages') > 1 THEN "misread" ELSE opening

ForgetHistory ==
    /\ phase = "fitting" /\ ~Sendable /\ ~Cuttable /\ historyEnd > 2 /\ CutHard
    /\ UNCHANGED <<turnVars, lastShown, observed, density, lock, jigVars, bounds>>

Send ==
    /\ phase = "fitting"
    /\ \/ Sendable /\ phase' = "asked"
       \/ ~Sendable /\ ~Cuttable /\ historyEnd <= 2 /\ phase' = "overflow"
    /\ UNCHANGED <<promptVars, step, attempt, retried, prose, calls, presses, cancelled, turns,
                   density, lock, jigVars, bounds>>

ServerOverflow ==    \* the model server finds the prompt too long all the same
    /\ phase = "asked" /\ overflows < script.overflows /\ overflows' = overflows + 1
    /\ phase' = "overflow"
    /\ UNCHANGED <<promptVars, step, attempt, retried, prose, calls, presses, cancelled, turns,
                   density, lock, jigVars, script, toggles, mishaps>>

\* The ladder: compact hard, then halve the page and take its image out, then fail.
Recover ==
    /\ phase = "overflow"
    /\ \/ /\ attempt = 1 /\ CutHard
          /\ attempt' = 2 /\ phase' = "planning"
          /\ UNCHANGED <<step, retried, prose, calls, presses, cancelled, turns, lastShown, observed, lock, jigVars>>
       \/ /\ attempt = 2 /\ LatestPage(messages, 0) # 0
          /\ messages' = ShrinkLatest(messages, TRUE)
          /\ attempt' = 3 /\ phase' = "planning" /\ lostPage' = TRUE
          /\ UNCHANGED <<historyEnd, opening, step, retried, prose, calls, presses, cancelled, turns,
                         lastShown, observed, lock, jigVars>>
       \/ (attempt = 3 \/ (attempt = 2 /\ LatestPage(messages, 0) = 0)) /\ Finish
    /\ UNCHANGED <<density, bounds>>

\* Mutant: the request does not carry the turn's context.
RequestAborted_Never == FALSE
RequestAborted == phase = "asked" /\ cancelled /\ Finish /\ UNCHANGED <<density, bounds>>

RequestFails ==
    /\ phase = "asked" /\ ~cancelled /\ Mishap /\ Finish
    /\ UNCHANGED <<density, script, toggles, overflows>>

\* A completed reply without calls ends the turn; an empty one is asked for once more.
Answer ==
    /\ phase = "asked"
    /\ density' \in script.densities \cup {density}
    /\ \/ Finish
       \/ /\ ~prose /\ ~retried /\ retried' = TRUE
          /\ phase' = "planning" /\ attempt' = 1
          /\ UNCHANGED <<promptVars, step, prose, calls, presses, cancelled, turns, lock, jigVars>>
    /\ UNCHANGED bounds

CallTools ==
    /\ phase = "asked" /\ step < script.steps
    /\ density' \in script.densities \cup {density}
    /\ \E called \in script.replies, text \in BOOLEAN :
         /\ calls' = called
         /\ messages' = Append(messages, Round(Len(called)))
         /\ prose' = (prose \/ text)
    /\ phase' = "acting" /\ attempt' = 1
    /\ UNCHANGED <<historyEnd, lastShown, observed, lostPage, opening, step, retried, presses, cancelled, turns,
                   lock, jigVars, bounds>>

\* makeObservationMessage: a hash equal to the last one stands for the page.
Observation(t, p) ==
    CASE lastShown = [tool |-> t, page |-> p] -> Same(p)
      [] lastShown # [tool |-> t, page |-> p] /\ p = NoPage -> Page(p, 1, FALSE)    \* an error
      [] OTHER -> Page(p, Tools[t].size, Tools[t].image)

\* What a tool that ended leaves in the prompt.
Shows(t, p) ==
    /\ messages' = Append(messages, Stub)
    /\ observed' = Append(observed, Observation(t, p))
    /\ lastShown' = [tool |-> t, page |-> p]
Says(t) ==
    /\ messages' = Append(messages, Text("tool", Tools[t].size))
    /\ UNCHANGED <<observed, lastShown>>
Results(t) == \/ Tools[t].shows /\ \E p \in script.pages : Shows(t, p)
              \/ ~Tools[t].shows /\ Says(t)
\* An error becomes the tool's text, and of the tools that only look an observation.
Errors(t) == IF Tools[t].shows /\ ~UsesXdotool(t) THEN Shows(t, NoPage) ELSE Says(t)

RunTool ==    \* the tools that need no input device, and the wait for it of the others
    /\ phase = "acting" /\ calls # <<>> /\ step < MaxSteps
    /\ step' = step + 1
    /\ LET t == Head(calls) IN
         \/ /\ UsesXdotool(t) /\ phase' = "waiting"
            /\ UNCHANGED <<messages, observed, lastShown, calls, mishaps>>
         \/ /\ ~UsesXdotool(t)
            /\ \/ ~cancelled /\ Results(t) /\ UNCHANGED mishaps
               \/ cancelled /\ Errors(t) /\ UNCHANGED mishaps
               \/ ~cancelled /\ Mishap /\ Errors(t)
            /\ calls' = Tail(calls) /\ UNCHANGED phase
    /\ UNCHANGED <<historyEnd, lostPage, opening, attempt, retried, prose, presses, cancelled, turns,
                   density, lock, jigVars, script, toggles, overflows>>

RoundDone ==    \* the observations follow all the results; at the step limit calls stay unanswered
    /\ phase = "acting" /\ (calls = <<>> \/ step >= MaxSteps)
    /\ messages' = messages \o observed /\ observed' = <<>>
    /\ calls' = <<>> /\ phase' = "planning"
    /\ UNCHANGED <<historyEnd, lastShown, lostPage, opening, step, attempt, retried, prose, presses, cancelled, turns,
                   density, lock, jigVars, bounds>>

Acquire ==    \* actuation.Lock waits, whatever becomes of the context
    /\ phase = "waiting" /\ lock = "free"
    /\ lock' = "tool" /\ phase' = "pausing"
    /\ UNCHANGED <<promptVars, step, attempt, retried, prose, calls, presses, cancelled, turns,
                   density, jigVars, bounds>>

\* Unlock, and the result goes into the prompt.
Return(t, fine) ==
    /\ lock' = "free" /\ presses' = 0
    /\ IF fine THEN Results(t) ELSE Errors(t)
    /\ calls' = Tail(calls) /\ phase' = "acting"

PauseFirst ==    \* pauseTool: a cancelled context ends the tool before its first input
    /\ phase = "pausing"
    /\ \/ cancelled /\ Return(Head(calls), FALSE)
       \/ ~cancelled /\ phase' = "pressing" /\ presses' = Tools[Head(calls)].inputs
          /\ UNCHANGED <<messages, observed, lastShown, calls, lock>>
    /\ UNCHANGED <<historyEnd, lostPage, opening, step, attempt, retried, prose, cancelled, turns,
                   density, jigVars, bounds>>

Press ==    \* one xdotool call, and the pause after it
    /\ phase = "pressing" /\ ~cancelled /\ presses > 0
    /\ presses' = presses - 1
    /\ phase' = IF presses = 1 THEN "ending" ELSE "pressing"
    /\ UNCHANGED <<promptVars, step, attempt, retried, prose, calls, cancelled, turns, density, lock, jigVars, bounds>>

\* xdotool failed or was not started, a pause was cut short: the rest is not typed.
PressFails ==
    /\ phase = "pressing"
    /\ (cancelled /\ UNCHANGED mishaps) \/ (~cancelled /\ Mishap)
    /\ phase' = "ending"
    /\ UNCHANGED <<promptVars, step, attempt, retried, prose, calls, presses, cancelled, turns, density, lock, jigVars,
                   script, toggles, overflows>>

ToolEnds ==    \* the page settles, the trailing pause (not cancellable) passes
    /\ phase = "ending"
    /\ Return(Head(calls), presses = 0)
    /\ UNCHANGED <<historyEnd, lostPage, opening, step, attempt, retried, prose, cancelled, turns,
                   density, jigVars, bounds>>

Cancel ==
    /\ phase # "idle" /\ ~cancelled /\ script.stops /\ cancelled' = TRUE
    /\ UNCHANGED <<promptVars, phase, step, attempt, retried, prose, calls, presses, turns, density, lock, jigVars, bounds>>
-----------------------------------------------------------------------------
agent == <<promptVars, turnVars, density>>

\* SetEnabled: the store first, then the cache; a reply can be lost on the way.
SetStored ==
    /\ setting = NoSetting /\ toggles < script.toggles /\ toggles' = toggles + 1
    /\ \E v \in Switch :
         \/ stored' = v /\ setting' = v /\ UNCHANGED mishaps
         \/ Mishap /\ stored' \in {v, stored} /\ UNCHANGED setting
    /\ UNCHANGED <<agent, lock, enabled, wake, hand, points, late, script, overflows>>

SetCached ==
    /\ setting # NoSetting /\ setting' = NoSetting
    /\ enabled' = (setting = "on")
    /\ wake' = (wake \/ (setting = "on" /\ ~enabled))
    /\ late' = 0
    /\ UNCHANGED <<agent, lock, stored, hand, points, bounds>>

Wake ==
    /\ hand = "silent" /\ wake /\ wake' = FALSE /\ hand' = "soon"
    /\ UNCHANGED <<agent, lock, enabled, stored, setting, points, late, bounds>>

\* Mutant: a burst starts without the lock.
CanMove_Unlocked == enabled
CanMove == enabled /\ lock = "free"

Burst ==    \* from the silence or three seconds after it was switched on
    /\ hand \in {"silent", "soon"} /\ (hand = "soon" \/ enabled)
    /\ \/ /\ CanMove /\ lock' = "jiggler" /\ hand' = "checking"
          /\ \E n \in script.points : points' = n
       \/ ~CanMove /\ hand' = "silent" /\ UNCHANGED <<lock, points>>
    /\ UNCHANGED <<agent, enabled, stored, setting, wake, late, bounds>>

LetGo == lock' = "free" /\ hand' = "silent" /\ points' = 0

CheckPoint ==
    /\ hand = "checking"
    /\ \/ ~enabled /\ LetGo
       \/ enabled /\ hand' = "moving" /\ UNCHANGED <<lock, points>>
    /\ UNCHANGED <<agent, enabled, stored, setting, wake, late, bounds>>

MovePoint ==
    /\ hand = "moving"
    /\ late' = IF enabled THEN 0 ELSE Lesser(late + 1, 2)
    /\ \/ points > 1 /\ points' = points - 1 /\ hand' = "checking" /\ UNCHANGED <<lock, mishaps>>
       \/ points = 1 /\ LetGo /\ UNCHANGED mishaps
       \/ Mishap /\ LetGo
    /\ UNCHANGED <<agent, enabled, stored, setting, wake, script, toggles, overflows>>

TurnNext ==
    \/ LimitReached \/ Attempt \/ DropRound \/ HalvePage \/ ForgetHistory \/ Send \/ Recover
    \/ RunTool \/ RoundDone \/ PauseFirst \/ Press \/ PressFails \/ ToolEnds \/ RequestAborted
Next ==
    \/ TurnNext \/ Acquire \/ Begin \/ ServerOverflow \/ RequestFails \/ Answer \/ CallTools \/ Cancel
    \/ SetStored \/ SetCached \/ Wake \/ Burst \/ CheckPoint \/ MovePoint
Spec == Init /\ [][Next]_vars

\* A cancelled turn's own steps and a burst go on; nobody has to answer, and Go's
\* mutex gives a waiting tool its turn (the jiggler only ever tries).
FairSpec ==
    /\ Spec /\ WF_vars(cancelled /\ TurnNext) /\ SF_vars(Acquire)
    /\ WF_vars(CheckPoint) /\ WF_vars(MovePoint)
-----------------------------------------------------------------------------
TypeOK ==
    /\ phase \in {"idle", "planning", "fitting", "asked", "overflow", "acting", "waiting"} \cup Holding
    /\ messages \in Seq(Messages) /\ historyEnd \in 0..Len(messages)
    /\ step \in 0..MaxSteps /\ attempt \in 1..3 /\ presses \in Nat
    /\ {enabled, wake, cancelled, retried, prose, lostPage} \subseteq BOOLEAN
    /\ opening \in {"asked", "mute", "misread"}
    /\ stored \in Switch \cup {"unset"} /\ setting \in Switch \cup {NoSetting}

\* A prompt that goes to the model is whole: every round comes with the results of
\* all its calls and no result without its round, and a result that tells the
\* model to use an observation has that observation in its round.  The cuts of
\* agent.go and budget.go work on positions, and a server refuses an orphan.  One
\* turn is left out: it started without a question (the history was empty or held
\* replies only) and a hard cut has counted a message of the task as history, which
\* the next compaction takes for more than it is.
WholeRounds(ms, h) ==
    /\ \A i \in DOMAIN ms : IsRound(ms[i]) =>
         /\ i + ms[i].calls <= Len(ms)
         /\ \A j \in i + 1..i + ms[i].calls : ms[j].role = "tool"
    /\ \A i \in DOMAIN ms : ms[i].role = "tool" =>
         \E r \in 1..i - 1 : IsRound(ms[r]) /\ i <= r + ms[r].calls
PromptsAreWhole ==
    /\ TypeOK
    /\ phase = "asked" /\ opening # "misread" =>
        /\ WholeRounds(messages, historyEnd)
        /\ \A s \in DOMAIN messages : messages[s].what = "stub" =>
             \E o \in s + 1..Len(messages) : IsPaired(messages, historyEnd, s, o)

\* "Page unchanged" is only said of a page the prompt still shows, as long as no
\* round had to go for space and the server refused no prompt of this turn: the
\* retention of four rounds alone never takes the current page away.
HasItsPage == \A s \in DOMAIN messages : messages[s].what = "same" =>
                \E p \in 1..s - 1 : messages[p].what = "page" /\ messages[p].page = messages[s].page
PageIsKept == phase = "asked" /\ ~lostPage => HasItsPage

\* The same without the exception, as specs/034-agent-context-budget.md says it.
UnchangedHasItsPage == phase = "asked" => HasItsPage

\* A prompt is sent only when it, the reserve and the completion asked for fit the
\* model's context, and a question the turn started from is in it to the end: every
\* cut, of rounds or of the history, leaves the system prompt and a question.
SentFits ==
    phase = "asked" =>
        /\ Tokens(messages, density) + Margin + MaxTokens(Tokens(messages, density)) <= ContextTokens
        /\ messages[1].role = "system"
        /\ opening = "asked" => HasQuestion(messages, historyEnd)

\* The mouse has one hand on it: the lock is held by the tool between its first
\* pause and its last, or by the jiggler's burst, never by both nor by nobody in
\* sight; and the jiggler rests after at most one point once it is switched off.
OneHand ==
    /\ ~(phase \in Holding /\ hand \in {"checking", "moving"})
    /\ lock = (IF phase \in Holding THEN "tool"
               ELSE IF hand \in {"checking", "moving"} THEN "jiggler" ELSE "free")
    /\ late <= 1

\* A cancelled turn ends, wherever the cancellation finds it: in the wait for the
\* lock the jiggler holds, in the middle of typing, in the ladder of an overflow.
StopEndsTheTurn == cancelled ~> phase = "idle"
=============================================================================
