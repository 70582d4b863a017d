---------------------------- MODULE TelegramBot ----------------------------
(***************************************************************************)
(* The bot token and what hangs on it: the secret resolver of              *)
(* internal/config/secret.go, the token lifecycle, the deliveries and the  *)
(* notification episodes of internal/telegram/service.go.                  *)
(*                                                                         *)
(* An operator rewrites the secret file and asks for a refresh.  The       *)
(* refresh calls back into the service, which cancels the generation of    *)
(* the old token and hands the revision to the goroutine `lifecycle' over  *)
(* a channel of one slot.  Flags in Valkey remember which notifications    *)
(* are active, across restarts.  Updates are the matter of TelegramIngress.*)
(***************************************************************************)
EXTENDS ValkeyLists

CONSTANTS
    Tokens, NoToken,
    Threshold,    \* failures until polling counts as suspended, 5
    Chunks,       \* chunks of every message that is delivered
    FirstToken,   \* in the file at the beginning
    Revocable,    \* tokens that Telegram may stop to accept
    MaxRefreshes, \* bound: refreshes; the file is rewritten before the last of them
    MaxMishaps    \* bound: requests that fail for other reasons than the token, commands
                  \* and notifications that fail, crashes

ASSUME TokensAssumption == NoToken \notin Tokens /\ FirstToken \in Tokens /\ Revocable \subseteq Tokens
ASSUME BoundsAssumption ==
    /\ {Threshold, Chunks} \subseteq Nat \ {0}
    /\ {MaxRefreshes, MaxMishaps} \subseteq Nat

VARIABLES
    file,      \* the secret file: a token, or NoToken for whatever read refuses
    valid,     \* tokens that Telegram accepts
    cached,    \* the resolver's value
    refresh,   \* step of the refresh handler, which holds the reference's lock unless "idle"
    outcome,   \* whether this refresh read a token: "ok" or "failed"
    slot,      \* s.revisions: "empty", "ok", "failed"
    pc,        \* step of the goroutine lifecycle
    phase,     \* the request runGeneration makes: "getMe" until it succeeds, then "poll"
    token,     \* activeToken, or the resolved one before the generation starts
    context,   \* activeCtx and cancelGen: "none", "live", "cancelled"
    status,    \* status.State
    failures,  \* consecutive failures, up to the threshold
    greeted,   \* connectedNotified
    flags,     \* Valkey: active notifications
    recent,    \* Valkey: kinds notified before, perhaps less than 15 minutes ago
    note,      \* notification about to be created by whoever holds notifyMu
    sender,    \* the job that delivers its reply: its step, the token it captured and
               \* whether its generation is still the last one, the next chunk
    refreshes, mishaps,  \* the bounded counters
    good,      \* history: what the last reading gave, by a refresh or for a generation
    authOpen,  \* history: an authentication failure was reported for the token in use
    suspended, \* history: a suspension was reported and no recovery since
    torn       \* history: a flag command failed, or the process died with a note in hand

resolver == <<file, cached, refresh, outcome, good>>
process == <<pc, phase, token, context, status, failures, greeted>>
notes == <<flags, recent, note, authOpen, suspended, torn>>
bounds == <<refreshes, mishaps>>
vars == <<resolver, valid, slot, process, notes, sender, bounds>>

NoNote == [kind |-> "none", by |-> "life"]
Idle == [pc |-> "idle", same |-> FALSE, token |-> NoToken, chunk |-> 0]
Waits == {"wait secret", "wait auth"}

-----------------------------------------------------------------------------
(* The resolver.                                                           *)

Rewrite(t) ==
    /\ t # file /\ refreshes < MaxRefreshes /\ file' = t
    /\ UNCHANGED <<cached, refresh, outcome, good, valid, slot, process, notes, sender, bounds>>

Revoke(t) ==
    /\ t \in valid /\ valid' = valid \ {t}
    /\ UNCHANGED <<resolver, slot, process, notes, sender, bounds>>

\* Refresh: read, replace the cached value or keep it, then call back.
Refresh ==
    /\ pc # "down" /\ refresh = "idle" /\ refreshes < MaxRefreshes
    /\ refreshes' = refreshes + 1
    /\ refresh' = "clear"
    /\ outcome' = IF file # NoToken THEN "ok" ELSE "failed"
    /\ cached' = IF file # NoToken THEN file ELSE cached
    /\ good' = file
    /\ UNCHANGED <<file, valid, slot, process, notes, sender, mishaps>>

\* Resolve: the cached value until it expires, then the file's.  A value that
\* has expired counts as none, also when the file gives no other.
Resolved(expired) == IF cached # NoToken /\ ~expired THEN cached ELSE file

-----------------------------------------------------------------------------
(* Flag commands.                                                          *)

Mishap == mishaps < MaxMishaps /\ mishaps' = mishaps + 1

Fault(o) ==
    /\ IF o = "ok" THEN UNCHANGED mishaps ELSE Mishap
    /\ UNCHANGED refreshes

Torn(o) == torn' = (torn \/ ~Replied(o))

\* The callback, in its three steps: HDEL auth_active, cancel, send.
ClearAuth == \E o \in Outcome :
    /\ refresh = "clear" /\ note = NoNote
    /\ Fault(o) /\ Torn(o)
    /\ refresh' = "cancel"
    /\ flags' = IF Applied(o) THEN flags \ {"auth"} ELSE flags
    /\ authOpen' = FALSE
    /\ UNCHANGED <<file, cached, outcome, good, valid, slot, process, recent, note, suspended, sender>>

CancelGeneration ==
    /\ refresh = "cancel" /\ refresh' = "send"
    /\ context' = IF context = "live" THEN "cancelled" ELSE context
    /\ UNCHANGED <<file, cached, outcome, good, valid, slot, pc, phase, token, status, failures, greeted>>
    /\ UNCHANGED <<notes, sender, bounds>>

\* Mutant: a revision that finds the slot taken is dropped.
Newest_First(old, new) == IF old = "empty" THEN new ELSE old

\* A revision that finds the slot taken replaces what is in it.
Newest(old, new) == new

SendRevision ==
    /\ refresh = "send" /\ refresh' = "idle"
    /\ slot' = Newest(slot, outcome)
    /\ UNCHANGED <<file, cached, outcome, good, valid, process, notes, sender, bounds>>

-----------------------------------------------------------------------------
(* Notifications.  notifyMu is held from the flags to the creation.        *)

\* The flags a notification sets.
Marks(kind) == CASE kind = "conflict" -> {"suspended", "conflict"}
                 [] kind \in {"auth", "suspended", "delivery"} -> {kind}
                 [] OTHER -> {}
Times(kind) == CASE kind \in {"suspended", "conflict"} -> {"suspended"}
                 [] kind = "delivery" -> {"delivery"}
                 [] OTHER -> {}

\* Mutant: an authentication failure is told whenever it happens.
Due_Always(kind, f, r) == kind # "recovered" \/ "suspended" \in f

\* HGETALL: an error reads as no flags at all.
Due(kind, f, r) ==
    CASE kind = "auth" -> "auth" \notin f
      [] kind = "conflict" -> "conflict" \notin f
      [] kind = "suspended" -> "suspended" \notin f /\ "suspended" \notin r
      [] kind = "delivery" -> status # "auth_failed" /\ "delivery" \notin r
      [] kind = "recovered" -> "suspended" \in f
      [] kind = "connected" -> ~greeted

\* Flags first, then the notification: HSET, or for a recovery HDEL.  The 15
\* minutes since the last notification of the kind may have elapsed.
Raise(by, kind, read, write, live) == \E elapsed \in SUBSET (recent \cap Times(kind)) :
    LET seen(x) == IF Replied(read) THEN x ELSE {}
        due == live /\ Due(kind, seen(flags), seen(recent \ elapsed))
        wrote == due /\ Applied(write)
    IN  /\ note = NoNote
        /\ IF Replied(read) THEN Fault(write) ELSE Fault(read) /\ write = "ok"
        /\ ~live \/ kind = "connected" => read = "ok"
        /\ ~due \/ kind = "connected" => write = "ok"
        /\ torn' = (torn \/ ~Replied(read) \/ ~Replied(write))
        /\ flags' = IF ~wrote THEN flags
                    ELSE IF kind = "recovered" THEN flags \ {"suspended", "conflict"}
                    ELSE flags \cup Marks(kind)
        /\ recent' = IF wrote THEN recent \cup Times(kind) ELSE recent
        /\ note' = IF due /\ (Replied(write) \/ kind = "recovered")
                   THEN [kind |-> kind, by |-> by] ELSE note

\* What a kind of notification is followed by in lifecycle.
After(kind) == CASE kind = "auth" -> "ended auth"
                 [] kind \in {"suspended", "conflict"} -> "sleep"
                 [] OTHER -> "request"

Undo(kind, live, o) == IF Applied(o) THEN Marks(kind) ELSE {}

\* createNotification, and what its error undoes.  A cancelled generation
\* creates nothing.
Notify == \E o, p \in Outcome :
    LET live == note.by = "reply" \/ context = "live"
        applied == live /\ Applied(o)
        told == live /\ Replied(o)
        kind == note.kind
    IN  /\ note # NoNote
        /\ ~live => o = "ok"
        /\ IF o = "ok" THEN Fault(p) ELSE Fault(o) /\ p = "ok"
        /\ p # "ok" => IF told THEN kind = "connected" ELSE kind \notin {"connected", "recovered"}
        /\ flags' = IF told /\ kind = "connected" /\ Applied(p) THEN flags \ {"auth"}
                    ELSE IF told \/ kind \in {"connected", "recovered"} THEN flags
                    ELSE flags \ Undo(kind, live, p)
        /\ recent' = IF told \/ ~Applied(p) THEN recent ELSE recent \ Times(kind)
        /\ torn' = (torn \/ o = "lost reply" \/ ~Replied(p))
        /\ greeted' = (greeted \/ (told /\ kind = "connected"))
        /\ authOpen' = IF told /\ kind = "connected" THEN FALSE ELSE authOpen \/ (applied /\ kind = "auth")
        /\ suspended' = IF applied /\ kind = "recovered" THEN FALSE
                        ELSE suspended \/ (applied /\ kind \in {"suspended", "conflict"})
        /\ note' = NoNote
        /\ pc' = IF note.by = "life" THEN After(kind) ELSE pc
        /\ sender' = IF note.by = "reply" THEN Idle ELSE sender
        /\ UNCHANGED <<resolver, valid, slot, phase, token, context, status, failures>>

-----------------------------------------------------------------------------
(* The goroutine lifecycle.                                                *)

Life(step) == pc = step
Quiet == UNCHANGED <<valid, notes, sender, bounds>>

\* Resolve waits for a refresh, its callback included.
Resolve == \E expired \in BOOLEAN :
    /\ Life("resolve") /\ refresh = "idle"
    /\ cached' = Resolved(expired)
    /\ good' = IF cached = NoToken \/ expired THEN file ELSE good
    /\ IF Resolved(expired) = NoToken
       THEN pc' = "wait secret" /\ status' = "secret_unavailable" /\ UNCHANGED token
       ELSE pc' = "start" /\ token' = Resolved(expired) /\ UNCHANGED status
    /\ UNCHANGED <<file, refresh, outcome, slot, phase, context, failures, greeted>> /\ Quiet

Start ==
    /\ Life("start")
    /\ pc' = "request" /\ phase' = "getMe"
    /\ context' = "live" /\ status' = "connecting" /\ failures' = 0
    /\ sender' = IF sender = Idle THEN Idle ELSE [sender EXCEPT !.same = FALSE]
    /\ UNCHANGED <<resolver, slot, token, greeted, valid, notes, bounds>>

\* The request comes to nothing when the generation is cancelled.
Abandoned ==
    /\ pc \in {"request", "sleep"} /\ context = "cancelled"
    /\ pc' = "ended"
    /\ UNCHANGED <<resolver, slot, phase, token, context, status, failures, greeted>> /\ Quiet

Answered ==
    /\ Life("request") /\ context = "live" /\ token \in valid
    /\ status' = "connected" /\ failures' = 0 /\ phase' = "poll"
    /\ pc' = IF phase = "getMe" THEN "greet note"
             ELSE IF status = "polling_suspended" THEN "recover note" ELSE "request"
    /\ UNCHANGED <<resolver, slot, token, context, greeted>> /\ Quiet

Unauthorized ==
    /\ Life("request") /\ context = "live" /\ token \notin valid
    /\ status' = "auth_failed" /\ pc' = "auth note"
    /\ UNCHANGED <<resolver, slot, phase, token, context, failures, greeted>> /\ Quiet

\* retry: 60 seconds without success count like failures in a row.
Suspends(conflict, late) ==
    status = "polling_suspended" \/ conflict \/ late \/ failures + 1 >= Threshold
Retry(conflict, late) ==
    /\ Life("request") /\ context = "live" /\ Mishap
    /\ conflict => phase = "poll"
    /\ failures' = IF failures < Threshold THEN failures + 1 ELSE failures
    /\ status' = IF Suspends(conflict, late) THEN "polling_suspended" ELSE "backing_off"
    /\ pc' = IF ~Suspends(conflict, late) THEN "sleep" ELSE IF conflict THEN "conflict note" ELSE "suspend note"
    /\ UNCHANGED <<resolver, valid, slot, phase, token, context, greeted, notes, sender, refreshes>>

\* The 60 seconds end during the sleep.
SuspendAsleep ==
    /\ Life("sleep") /\ context = "live" /\ status = "backing_off"
    /\ status' = "polling_suspended" /\ pc' = "suspend note"
    /\ UNCHANGED <<resolver, slot, phase, token, context, failures, greeted>> /\ Quiet

Awake ==
    /\ Life("sleep") /\ context = "live" /\ pc' = "request"
    /\ UNCHANGED <<resolver, slot, phase, token, context, status, failures, greeted>> /\ Quiet

NoteAt == [step \in {"greet note", "auth note", "suspend note", "conflict note", "recover note"} |->
    CASE step = "greet note" -> "connected" [] step = "auth note" -> "auth"
      [] step = "conflict note" -> IF "conflict" \in flags THEN "suspended" ELSE "conflict"
      [] step = "suspend note" -> "suspended" [] OTHER -> "recovered"]
LifeNotes == \E read, write \in Outcome :
    /\ pc \in DOMAIN NoteAt
    /\ Raise("life", NoteAt[pc], read, write, context = "live")
    /\ pc' = IF note' # NoNote THEN "noting" ELSE After(NoteAt[pc])
    /\ UNCHANGED <<resolver, valid, slot, phase, token, context, status, failures, greeted>>
    /\ UNCHANGED <<authOpen, suspended, sender>>

\* The end of a generation: a revision that waits is taken, after an
\* authentication failure one is waited for.
Ended ==
    /\ pc \in {"ended", "ended auth"}
    /\ context' = "none" /\ token' = NoToken
    /\ pc' = CASE pc = "ended auth" -> "wait auth"
               [] pc = "ended" /\ slot = "failed" -> "wait secret"
               [] pc = "ended" /\ slot # "failed" -> "resolve"
    /\ status' = IF pc = "ended" /\ slot = "failed" THEN "secret_unavailable" ELSE status
    /\ slot' = IF pc = "ended" THEN "empty" ELSE slot
    /\ UNCHANGED <<resolver, phase, failures, greeted>> /\ Quiet

TakeRevision ==
    /\ pc \in Waits /\ slot # "empty"
    /\ slot' = "empty"
    /\ IF slot = "ok" THEN pc' = "resolve" /\ UNCHANGED status
       ELSE pc' = "wait secret" /\ status' = "secret_unavailable"
    /\ UNCHANGED <<resolver, phase, token, context, failures, greeted>> /\ Quiet

-----------------------------------------------------------------------------
(* Deliveries.                                                             *)

\* Mutant: only the number of the generation is compared.
Current_NumberOnly == sender.same

\* generationCurrent
Current == sender.same /\ context = "live"

Capture ==
    /\ sender = Idle /\ context # "none"
    /\ sender' = [pc |-> "sending", same |-> TRUE, token |-> token, chunk |-> 1]
    /\ UNCHANGED <<resolver, valid, slot, process, notes, bounds>>

\* One chunk, or the end of the message before or after its last.
SendChunk == \E ok \in BOOLEAN :
    /\ sender.pc = "sending" /\ Current /\ sender.chunk <= Chunks
    /\ ok => sender.token \in valid
    /\ IF ~ok /\ sender.token \in valid THEN Mishap ELSE UNCHANGED mishaps
    /\ sender' = IF ok THEN [sender EXCEPT !.chunk = @ + 1] ELSE [Idle EXCEPT !.pc = "failed", !.same = TRUE]
    /\ UNCHANGED <<resolver, valid, slot, process, notes, refreshes>>

GiveUp ==
    /\ sender.pc = "sending" /\ ~Current
    /\ sender' = Idle
    /\ UNCHANGED <<resolver, valid, slot, process, notes, bounds>>

\* deliverySucceeded
Succeed == \E o \in Outcome :
    /\ sender.pc = "sending" /\ Current /\ sender.chunk > Chunks
    /\ note = NoNote /\ Fault(o) /\ Torn(o)
    /\ flags' = IF Applied(o) THEN flags \ {"delivery"} ELSE flags
    /\ sender' = Idle
    /\ UNCHANGED <<resolver, valid, slot, process, recent, note, authOpen, suspended>>

\* deliveryFailed
Fail == \E read, write \in Outcome :
    /\ sender.pc = "failed"
    /\ Raise("reply", "delivery", read, write, TRUE)
    /\ sender' = IF note' # NoNote THEN [sender EXCEPT !.pc = "noting"] ELSE Idle
    /\ UNCHANGED <<resolver, valid, slot, process, authOpen, suspended>>

-----------------------------------------------------------------------------
(* The process.                                                            *)

Crash ==
    /\ pc # "down" /\ Mishap
    /\ pc' = "down" /\ phase' = "getMe" /\ token' = NoToken /\ context' = "none"
    /\ status' = "connecting" /\ failures' = 0 /\ greeted' = FALSE
    /\ cached' = NoToken /\ refresh' = "idle" /\ outcome' = "ok" /\ slot' = "empty"
    /\ note' = NoNote /\ torn' = (torn \/ note # NoNote)
    /\ sender' = Idle
    /\ UNCHANGED <<file, good, valid, flags, recent, authOpen, suspended, refreshes>>

Boot ==
    /\ Life("down") /\ pc' = "resolve"
    /\ UNCHANGED <<resolver, slot, phase, token, context, status, failures, greeted>> /\ Quiet

Init ==
    /\ file = FirstToken /\ valid = Tokens
    /\ cached = NoToken /\ refresh = "idle" /\ outcome = "ok" /\ slot = "empty"
    /\ pc = "down" /\ phase = "getMe" /\ token = NoToken /\ context = "none"
    /\ status = "connecting" /\ failures = 0 /\ greeted = FALSE
    /\ flags = {} /\ recent = {} /\ note = NoNote /\ sender = Idle
    /\ refreshes = 0 /\ mishaps = 0
    /\ good = NoToken /\ authOpen = FALSE /\ suspended = FALSE /\ torn = FALSE

Operator == Refresh \/ \E t \in Tokens \cup {NoToken} : Rewrite(t)
World == Crash \/ (\E t \in Revocable : Revoke(t))
Callback == ClearAuth \/ CancelGeneration \/ SendRevision
Trouble == SuspendAsleep \/ \E conflict, late \in BOOLEAN : Retry(conflict, late)
Lifecycle == Boot \/ Resolve \/ Start \/ Abandoned \/ Answered \/ Unauthorized \/ Awake
             \/ LifeNotes \/ Ended \/ TakeRevision
Deliver == Capture \/ SendChunk \/ GiveUp \/ Succeed \/ Fail

Next == Operator \/ World \/ Callback \/ Trouble \/ Lifecycle \/ Notify \/ Deliver

Spec == Init /\ [][Next]_vars

\* Goroutines run, and a mutex is handed to whoever waits for it long enough.
FairSpec == Spec /\ SF_vars(Callback) /\ SF_vars(Lifecycle) /\ WF_vars(Notify)

-----------------------------------------------------------------------------
(* Properties.                                                             *)

\* Values, and how the steps of the goroutines and their notes belong
\* together: a note in hand has its flags set and its author waiting.
TypeOK ==
    /\ file \in Tokens \cup {NoToken} /\ cached \in Tokens \cup {NoToken}
    /\ refresh \in {"idle", "clear", "cancel", "send"} /\ slot \in {"empty", "ok", "failed"}
    /\ flags \subseteq {"auth", "suspended", "conflict", "delivery"}
    /\ recent \subseteq {"suspended", "delivery"}
    /\ context # "none" <=> pc \notin Waits \cup {"down", "resolve", "start"}
    /\ token # NoToken <=> context # "none" \/ pc = "start"
    /\ pc = "noting" <=> note # NoNote /\ note.by = "life"
    /\ sender.pc = "noting" <=> note # NoNote /\ note.by = "reply"
    /\ note # NoNote /\ ~torn => Marks(note.kind) \subseteq flags
    /\ "conflict" \in flags /\ ~torn => "suspended" \in flags

\* Unless the callback of a refresh is under way or its revision waits in the
\* slot, a generation that runs uncancelled uses the token read last, and no
\* chunk leaves with a token that a refresh has replaced.
Settling == refresh # "idle" \/ slot # "empty"
TokenInUse ==
    [][ /\ TypeOK' /\ (context = "live" => token = good \/ Settling)'
        /\ sender'.chunk > sender.chunk /\ sender # Idle => sender.token = good \/ Settling ]_vars

\* An authentication failure is reported once until a refresh or a connection.
\* Between two notifications, the flags in Valkey stand for notifications that
\* the operator has: a recovery is then told for a suspension that was told,
\* and what silences an authentication failure is one that was told.
FlaggedIsTold ==
    note = NoNote /\ ~torn =>
        /\ "suspended" \in flags => suspended
        /\ "auth" \in flags => authOpen
FailuresAreTold ==
    [][ /\ FlaggedIsTold'
        /\ ~authOpen \/ torn \/ ~(note.kind = "auth" /\ note' = NoNote /\ "auth" \in flags') ]_vars

\* When the last reading gave the only token that Telegram accepts and the file
\* keeps it, the service ends up polling with it.
ConnectsInTheEnd ==
    <>[](good = file /\ valid = {file}) => <>[](status = "connected" /\ token = file)
=============================================================================
