--------------------------- MODULE Notifications ---------------------------
(***************************************************************************)
(* The list of notifications: internal/notifications/service.go with the   *)
(* validation of notifications.go, and what a browser on the notifications *)
(* page makes of its frames (web/static/js/notifications.js).              *)
(*                                                                         *)
(* The service holds one mutex while it changes the store, reads it again  *)
(* and writes to every browser, so a request is one step here.  Two replies*)
(* escape the mutex: the state a browser gets when it connects and the one *)
(* it asks for are read under it and written after it.                     *)
(***************************************************************************)
EXTENDS ValkeyLists

CONSTANTS
    Notices,     \* notifications, each with an id of its own
    Exact,       \* those whose id the lifecycle marker reserved; recreated until acknowledged
    Raw,         \* Raw[n]: its title and detail as the producer gives them, see Content
    MaxText,     \* longest text accepted: title 120, summary 240, key 64, string 2048
    MaxNodes,    \* members of a detail, 256
    Browsers,
    Retain,      \* retain, 500
    Recent,      \* notifications in a state frame, 20
    Limit,       \* notifications asked for in a page, 50
    NoNotice,
    MaxMishaps,  \* bound: scripts that fail, connections that end, restarts
    MaxRequests  \* bound: a user acts while fewer frames and requests than this are under way

\* Texts are sequences of runes; a detail is a set of keys with their strings.
Runes == Seq({"a", "space", "control"})
Content == [title : Runes, detail : SUBSET (Runes \X Runes)]

ASSUME NoticesAssumption ==
    /\ Exact \subseteq Notices /\ NoNotice \notin Notices
    /\ Raw \in [Notices -> Content] /\ \A n \in Notices : IsFiniteSet(Raw[n].detail)

ASSUME SizesAssumption ==
    /\ {Retain, Recent, Limit, MaxText, MaxNodes} \subseteq Nat \ {0}
    /\ {MaxMishaps, MaxRequests} \subseteq Nat

VARIABLES
    order,     \* Valkey: ids, newest first
    items,     \* Valkey: id -> content
    read,      \* Valkey: ids with a read time
    asked,     \* notices a producer has tried to create, or for Exact succeeded in
    conn,      \* "off", "joining", "live"
    hand,      \* frame the handler of a connection read and has not written yet, as a set
    inbox,     \* frames on their way to a browser
    outbox,    \* requests on their way to the service
    view,      \* state of the page, see View
    reading,   \* its readRequests
    mishaps,
    stale      \* history: browsers that were overtaken by a state of their own, or missed one

store == <<order, items, read>>
server == <<store, asked>>
page == <<conn, hand, inbox, outbox, view, reading>>
vars == <<server, page, mishaps, stale>>

-----------------------------------------------------------------------------
(* Validation.                                                             *)

\* Of the runes that are removed nothing is left.  A space is written after a
\* rune that was, and is trimmed unless another such rune follows.
Solid(text, i) == text[i] \notin {"space", "control"}
Separates(text, i) ==
    /\ text[i] = "space"
    /\ \E j \in 1..i-1 : Solid(text, j) /\ \A k \in j+1..i-1 : text[k] = "control"
    /\ \E j \in i+1..Len(text) : Solid(text, j)
SanitizeText(text) == Sieve(text, {i \in 1..Len(text) : Solid(text, i) \/ Separates(text, i)})

Fits(text, least) == Len(text) \in least..MaxText

\* sanitizeDetail: keys are cleaned before they are compared.
SanitizeDetail(detail) == {<<SanitizeText(p[1]), SanitizeText(p[2])>> : p \in detail}
GoodDetail(detail) ==
    /\ Cardinality(detail) <= MaxNodes
    /\ Cardinality({SanitizeText(p[1]) : p \in detail}) = Cardinality(detail)
    /\ \A p \in SanitizeDetail(detail) : Fits(p[1], 1) /\ Fits(p[2], 0)

\* validateCreate: what it accepts, and what it makes of that.
Valid(content) == Fits(SanitizeText(content.title), 1) /\ GoodDetail(content.detail)
ValidateCreate(content) ==
    [title |-> SanitizeText(content.title), detail |-> SanitizeDetail(content.detail)]

Clean == [n \in Notices |-> ValidateCreate(Raw[n])]
Accepted == {n \in Notices : Valid(Raw[n])}

\* validateExact accepts what validation would not change.
Canonical == {content \in Range(Clean) : Valid(content) /\ ValidateCreate(content) = content}

\* ulidGenerator: entropy is read anew when the clock has moved on, else
\* incremented; after an overflow it waits for the clock.
Entropy == 0..1
Stamps == [ms : 0..3, random : Entropy]
Overflows(last) == last.random = 1

NextStamp(last, now, seed) ==
    IF now > last.ms THEN [ms |-> now, random |-> seed]
    ELSE IF Overflows(last) THEN [ms |-> last.ms + 1, random |-> seed]
    ELSE [ms |-> last.ms, random |-> last.random + 1]

-----------------------------------------------------------------------------
(* The scripts and what they leave.                                        *)

Command(o) == IF o = "ok" THEN UNCHANGED mishaps ELSE mishaps < MaxMishaps /\ mishaps' = mishaps + 1

Kept(n) == SubSeq(<<n>> \o order, 1, IF Len(order) < Retain THEN Len(order) + 1 ELSE Retain)

\* Mutant: the first index of the evicted is one too low.
Created_MarksOffByOne(n) ==
    /\ order' = Kept(n)
    /\ items' = [i \in Range(Kept(n)) |-> IF i = n THEN Clean[n] ELSE items[i]]
    /\ read' = {i \in read : \E k \in 1..Len(Kept(n)) : Kept(n)[k] = i /\ k < Retain}

\* createScript for a new id: HSET, LPUSH, LTRIM, HDEL of what was trimmed.
Created(n) ==
    /\ order' = Kept(n)
    /\ items' = [i \in Range(Kept(n)) |-> IF i = n THEN Clean[n] ELSE items[i]]
    /\ read' = read \cap Range(Kept(n))

\* snapshotLocked drops rows that are not canonical.
Rows == Sieve(order, {k \in 1..Len(order) : items[order[k]] \in Canonical})
Row(i) == [id |-> i, read |-> i \in read]
FirstOf(s, k) == {s[j] : j \in {x \in 1..Len(s) : x <= k}}

Change == [kind : {"none", "created", "read", "read-all"}, id : Notices \cup {NoNotice}]
NoChange == [kind |-> "none", id |-> NoNotice]
StateFrame(change) ==
    [type |-> "state", rows |-> {Row(i) : i \in FirstOf(Rows, Recent)},
     unread |-> Cardinality(Range(Rows) \ read), change |-> change]

ErrorFrame(of, code, id) == [type |-> "error", of |-> of, code |-> code, id |-> id]

Connected == {b \in Browsers : conn[b] # "off"}

\* broadcastStateLocked, after a script that changed something.
Broadcast(change, o) ==
    /\ inbox' = [b \in Browsers |-> IF b \in Connected /\ Replied(o)
                                    THEN Append(inbox[b], StateFrame(change)') ELSE inbox[b]]
    /\ stale' = stale \cup {b \in Connected : hand[b] # {} \/ ~Replied(o)}

-----------------------------------------------------------------------------
(* Producers: Create, and createExact of the lifecycle.                    *)

\* The script refuses an id that exists.
MayCreate(n) == n \notin DOMAIN items

\* A producer creates its notification once; only the lifecycle tries again,
\* and it does so until it has an answer, perhaps after a restart.
Create(n) == \E o, p \in Outcome :
    /\ n \notin asked
    /\ n \in Accepted
    /\ IF o = "ok" THEN Command(p) ELSE Command(o) /\ p = "ok"
    /\ ~MayCreate(n) => p = "ok"
    /\ asked' = IF n \in Exact /\ ~Replied(o) THEN asked ELSE asked \cup {n}
    /\ IF Applied(o) /\ MayCreate(n) THEN Created(n) ELSE UNCHANGED store
    /\ IF Applied(o) /\ MayCreate(n)
       THEN Broadcast([kind |-> "created", id |-> n], IF Replied(o) THEN p ELSE "failed")
       ELSE UNCHANGED <<inbox, stale>>
    /\ UNCHANGED <<conn, hand, outbox, view, reading>>

\* The lifecycle creates it again: it died after the script and before the
\* marker said so.
Forget(n) ==
    /\ n \in Exact /\ n \in asked /\ mishaps < MaxMishaps
    /\ mishaps' = mishaps + 1 /\ asked' = asked \ {n}
    /\ UNCHANGED <<store, page, stale>>

-----------------------------------------------------------------------------
(* A connection.                                                           *)

\* rows, unread: the newest and the badge.  loaded, next, done: the list, its
\* cursor and whether it is whole.  request, reload: the page asked for, and
\* whether to ask again.  failed: a page failed and no list came since.
View == [rows : SUBSET [id : Notices, read : BOOLEAN], unread : Nat,
         loaded : SUBSET [id : Notices, read : BOOLEAN], next : Notices \cup {NoNotice},
         done : BOOLEAN, request : {"none", "replace", "older"}, reload : BOOLEAN,
         failed : BOOLEAN]
NewView == [rows |-> {}, unread |-> 0, loaded |-> {}, next |-> NoNotice, done |-> TRUE,
            request |-> "none", reload |-> FALSE, failed |-> FALSE]

\* HandleUpgrade registers; the page, told that the socket is live, asks for
\* the state and for the first page.
Connect(b) ==
    /\ conn[b] = "off"
    /\ conn' = [conn EXCEPT ![b] = "joining"]
    /\ outbox' = [outbox EXCEPT ![b] = <<[type |-> "state"], [type |-> "page", before |-> NoNotice]>>]
    /\ view' = [view EXCEPT ![b] = [view[b] EXCEPT !.request = "replace", !.next = NoNotice, !.failed = FALSE]]
    /\ stale' = stale \ {b}
    /\ UNCHANGED <<server, hand, inbox, reading, mishaps>>

\* sendNotificationSnapshot: the message, and below the write.
Greet(b) == \E o \in Outcome :
    /\ conn[b] = "joining" /\ hand[b] = {}
    /\ Command(o)
    /\ hand' = [hand EXCEPT ![b] = {IF Replied(o) THEN StateFrame(NoChange)
                                    ELSE ErrorFrame("state", "failed", NoNotice)}]
    /\ stale' = IF Replied(o) THEN stale ELSE stale \cup {b}
    /\ UNCHANGED <<server, conn, inbox, outbox, view, reading>>

Written(b) == \E f \in hand[b] :
    /\ inbox' = [inbox EXCEPT ![b] = Append(@, f)]
    /\ hand' = [hand EXCEPT ![b] = {}]
    /\ conn' = [conn EXCEPT ![b] = "live"]
    /\ UNCHANGED <<server, outbox, view, reading, mishaps, stale>>

\* The page forgets what it waited for.
Disconnect(b) ==
    /\ conn[b] # "off" /\ mishaps < MaxMishaps
    /\ mishaps' = mishaps + 1
    /\ conn' = [conn EXCEPT ![b] = "off"]
    /\ hand' = [hand EXCEPT ![b] = {}] /\ inbox' = [inbox EXCEPT ![b] = <<>>]
    /\ outbox' = [outbox EXCEPT ![b] = <<>>]
    /\ view' = [view EXCEPT ![b].request = "none"]
    /\ reading' = [reading EXCEPT ![b] = {}]
    /\ UNCHANGED <<server, stale>>

-----------------------------------------------------------------------------
(* handleMessage: the handler of a connection serves one request.          *)

Serving(b, type) == conn[b] = "live" /\ hand[b] = {} /\ outbox[b] # <<>> /\ Head(outbox[b]).type = type
Taken(b) == outbox' = [outbox EXCEPT ![b] = Tail(@)]
Answer(b, frame) == inbox' = [inbox EXCEPT ![b] = Append(@, frame)]

\* notifications-req.
ServeState(b) == \E o \in Outcome :
    /\ Serving(b, "state") /\ Taken(b)
    /\ Command(o)
    /\ hand' = [hand EXCEPT ![b] = {IF Replied(o) THEN StateFrame(NoChange)
                                    ELSE ErrorFrame("state", "failed", NoNotice)}]
    /\ UNCHANGED <<server, conn, inbox, view, reading, stale>>

\* Marking, then a broadcast of the change or, without one, a state for this
\* browser only.
Mark(b, ids, kind, id, o, p) ==
    LET changed == ids \ read IN
    /\ IF o = "ok" THEN Command(p) ELSE Command(o) /\ p = "ok"
    /\ UNCHANGED <<order, items, asked, conn, hand, view, reading>>
    /\ read' = IF Applied(o) THEN read \cup ids ELSE read
    /\ IF Replied(o) /\ changed # {} /\ Replied(p)
       THEN Broadcast([kind |-> kind, id |-> id], "ok")
       ELSE /\ Answer(b, IF Replied(o) /\ Replied(p) THEN StateFrame(NoChange)'
                         ELSE ErrorFrame(kind, "failed", id))
            /\ stale' = IF Applied(o) /\ changed # {} THEN stale \cup Connected ELSE stale

ServeRead(b) == \E o, p \in Outcome, id \in Notices :
    /\ Serving(b, "read") /\ Head(outbox[b]).id = id /\ Taken(b)
    /\ IF id \in DOMAIN items THEN Mark(b, {id}, "read", id, o, p)
       ELSE /\ o = "ok" /\ p = "ok"
            /\ Answer(b, ErrorFrame("read", "not_found", id))
            /\ UNCHANGED <<server, conn, hand, view, reading, mishaps, stale>>

ServeReadAll(b) == \E o, p \in Outcome :
    /\ Serving(b, "read-all") /\ Taken(b)
    /\ Mark(b, Range(order), "read-all", NoNotice, o, p)

\* The rows after the cursor; a frame too large for the socket is cut and
\* says that there is more.
PageOf(before, cut) ==
    LET start == IF before = NoNotice THEN 0 ELSE CHOOSE k \in DOMAIN Rows : Rows[k] = before
        full == IF start + Limit < Len(Rows) THEN start + Limit ELSE Len(Rows)
        end == IF full - start > cut THEN start + cut ELSE full
    IN  [type |-> "page", rows |-> {Row(Rows[k]) : k \in start+1..end},
         done |-> end = Len(Rows), next |-> IF end < Len(Rows) THEN Rows[end] ELSE NoNotice]

ServePage(b) == \E o \in Outcome, cut \in {1, Limit} :
    LET before == Head(outbox[b]).before IN
    /\ Serving(b, "page") /\ Taken(b)
    /\ Command(o) /\ (~Replied(o) => cut = Limit)
    /\ Answer(b, IF ~Replied(o) THEN ErrorFrame("page", "failed", NoNotice)
                 ELSE IF before # NoNotice /\ before \notin Range(Rows)
                 THEN ErrorFrame("page", "not_found", NoNotice)
                 ELSE PageOf(before, cut))
    /\ UNCHANGED <<server, conn, hand, view, reading, stale>>

-----------------------------------------------------------------------------
(* The page.                                                               *)

Send(b, request) == outbox' = [outbox EXCEPT ![b] = Append(@, request)]
PageRequest(before) == [type |-> "page", before |-> before]

\* applyChange, then the rows of the frame replace those loaded.
AppliedChange(rows, change) ==
    {[r EXCEPT !.read = r.read \/ change.kind = "read-all" \/ (change.kind = "read" /\ r.id = change.id)]
        : r \in rows}
Merged(loaded, f) ==
    {IF \E r \in f.rows : r.id = l.id THEN CHOOSE r \in f.rows : r.id = l.id ELSE l
        : l \in AppliedChange(loaded, f.change)}

\* notifications-state: a creation makes the page load its list again.
ReceiveState(b) == LET f == Head(inbox[b]) v == view[b]
                       loaded == Merged(v.loaded, f)
                       again == f.change.kind = "created" IN
    /\ inbox[b] # <<>> /\ f.type = "state"
    /\ view' = [view EXCEPT ![b] =
            [v EXCEPT !.rows = f.rows, !.unread = f.unread, !.loaded = loaded,
                      !.reload = v.reload \/ (again /\ v.request # "none"),
                      !.request = IF again /\ v.request = "none" THEN "replace" ELSE v.request,
                      !.next = IF again /\ v.request = "none" THEN NoNotice ELSE v.next]]
    /\ IF again /\ v.request = "none" THEN Send(b, PageRequest(NoNotice)) ELSE UNCHANGED outbox
    /\ reading' = [reading EXCEPT ![b] =
            IF f.change.kind = "read-all" \/ f.unread = 0 THEN {}
            ELSE {i \in reading[b] : ~\E r \in f.rows \cup loaded : r.id = i /\ r.read}]
    /\ inbox' = [inbox EXCEPT ![b] = Tail(@)]
    /\ UNCHANGED <<server, conn, hand, mishaps, stale>>

\* Mutant: a creation during a request is forgotten.
ReceivePage_NoReload(b) == LET f == Head(inbox[b]) v == view[b] IN
    /\ inbox[b] # <<>> /\ f.type = "page"
    /\ view' = [view EXCEPT ![b] =
            [v EXCEPT !.loaded = IF v.request = "replace" THEN f.rows
                                 ELSE v.loaded \cup {r \in f.rows : ~\E l \in v.loaded : l.id = r.id},
                      !.next = f.next, !.done = f.done, !.failed = v.failed /\ v.request # "replace",
                      !.request = "none", !.reload = FALSE]]
    /\ inbox' = [inbox EXCEPT ![b] = Tail(@)]
    /\ UNCHANGED <<server, conn, hand, outbox, reading, mishaps, stale>>

ReceivePage(b) == LET f == Head(inbox[b]) v == view[b] IN
    /\ inbox[b] # <<>> /\ f.type = "page"
    /\ view' = [view EXCEPT ![b] =
            [v EXCEPT !.loaded = IF v.request = "replace" THEN f.rows
                                 ELSE v.loaded \cup {r \in f.rows : ~\E l \in v.loaded : l.id = r.id},
                      !.next = IF v.reload THEN NoNotice ELSE f.next,
                      !.done = f.done, !.failed = v.failed /\ v.request # "replace",
                      !.request = IF v.reload THEN "replace" ELSE "none", !.reload = FALSE]]
    /\ IF v.reload THEN Send(b, PageRequest(NoNotice)) ELSE UNCHANGED outbox
    /\ inbox' = [inbox EXCEPT ![b] = Tail(@)]
    /\ UNCHANGED <<server, conn, hand, reading, mishaps, stale>>

Expired(f, v) == f.code = "not_found" /\ v.next # NoNotice

\* Mutant: only a page ends the request.
PageFailed_KeepsRequest(f, v) == [v EXCEPT !.failed = TRUE]

PageFailed(f, v) ==
    [v EXCEPT !.failed = TRUE, !.request = IF Expired(f, v) THEN "replace" ELSE "none",
              !.next = IF Expired(f, v) THEN NoNotice ELSE v.next]

\* notification-error: a page behind an evicted cursor is asked for from the
\* start; a mark may be tried again.
ReceiveError(b) == LET f == Head(inbox[b]) v == view[b] IN
    /\ inbox[b] # <<>> /\ f.type = "error"
    /\ IF f.of = "page"
       THEN /\ view' = [view EXCEPT ![b] = PageFailed(f, v)]
            /\ IF Expired(f, v) THEN Send(b, PageRequest(NoNotice)) ELSE UNCHANGED outbox
            /\ UNCHANGED reading
       ELSE /\ reading' = [reading EXCEPT ![b] = IF f.of = "read" THEN reading[b] \ {f.id} ELSE reading[b]]
            /\ UNCHANGED <<view, outbox>>
    /\ inbox' = [inbox EXCEPT ![b] = Tail(@)]
    /\ UNCHANGED <<server, conn, hand, mishaps, stale>>

May(b) == conn[b] # "off" /\ Len(outbox[b]) + Len(inbox[b]) < MaxRequests

\* sendRead of what the page shows as unread and has not asked for yet.
SendRead(b, i) ==
    /\ May(b) /\ i \notin reading[b]
    /\ \E r \in view[b].rows \cup view[b].loaded : r.id = i /\ ~r.read
    /\ reading' = [reading EXCEPT ![b] = @ \cup {i}]
    /\ Send(b, [type |-> "read", id |-> i])
    /\ UNCHANGED <<server, conn, hand, inbox, view, mishaps, stale>>

MarkAll(b) ==
    /\ May(b) /\ view[b].unread > 0
    /\ Send(b, [type |-> "read-all"])
    /\ UNCHANGED <<server, conn, hand, inbox, view, reading, mishaps, stale>>

\* "Load older".
LoadOlder(b) ==
    /\ May(b) /\ view[b].request = "none" /\ ~view[b].done
    /\ view' = [view EXCEPT ![b].request = "older"]
    /\ Send(b, PageRequest(view[b].next))
    /\ UNCHANGED <<server, conn, hand, inbox, reading, mishaps, stale>>

-----------------------------------------------------------------------------
Producer == \E n \in Notices : Create(n) \/ Forget(n)
Handler(b) == Greet(b) \/ Written(b) \/ ServeState(b) \/ ServeRead(b) \/ ServeReadAll(b) \/ ServePage(b)
Receive(b) == ReceiveState(b) \/ ReceivePage(b) \/ ReceiveError(b)
User(b) == Connect(b) \/ Disconnect(b) \/ MarkAll(b) \/ LoadOlder(b) \/ \E i \in Notices : SendRead(b, i)

Init ==
    /\ order = <<>> /\ items = <<>> /\ read = {} /\ asked = {}
    /\ conn = [b \in Browsers |-> "off"] /\ hand = [b \in Browsers |-> {}]
    /\ inbox = [b \in Browsers |-> <<>>] /\ outbox = [b \in Browsers |-> <<>>]
    /\ view = [b \in Browsers |-> NewView] /\ reading = [b \in Browsers |-> {}]
    /\ mishaps = 0 /\ stale = {}

Next == Producer \/ \E b \in Browsers : Handler(b) \/ Receive(b) \/ User(b)

Spec == Init /\ [][Next]_vars

\* Handlers and pages run; nobody has to create, read or connect.
FairSpec == Spec /\ \A b \in Browsers : WF_vars(Handler(b)) /\ WF_vars(Receive(b))

-----------------------------------------------------------------------------
(* Properties.                                                             *)

\* Order, texts and marks are about the same notifications, none twice, never
\* more than are retained, and a page shows at most what it could have got.
TypeOK ==
    /\ IsInjective(order) /\ Len(order) <= Retain
    /\ DOMAIN items = Range(order) /\ read \subseteq Range(order) /\ asked \subseteq Notices
    /\ conn \in [Browsers -> {"off", "joining", "live"}]
    /\ \A b \in Browsers : Cardinality(hand[b]) <= 1
    /\ view \in [Browsers -> View] /\ reading \in [Browsers -> SUBSET Notices]
    /\ stale \subseteq Browsers

\* Ids grow, also when the clock stands still or goes back: the page sorts by
\* them what was created in the same millisecond.
Later(s, t) == s.ms > t.ms \/ (s.ms = t.ms /\ s.random > t.random)
IdsIncrease == \A last \in Stamps, now \in 0..3, seed \in Entropy : Later(NextStamp(last, now, seed), last)

\* A notification that was stored is never dropped from a snapshot as
\* malformed: validating what was validated changes nothing.
StoredIsShown == Rows = order

\* What was read stays read while it is retained, also when the lifecycle
\* creates it again.
ReadStaysRead == [][read \cap Range(order') \subseteq read']_vars

\* Every state is typed, and a browser with nothing under way, whose requests
\* and frames all succeeded in their order, shows the newest notifications,
\* their number unread and, in its list, all from the newest down without a
\* gap, with their marks.
Quiet(b) ==
    /\ conn[b] = "live" /\ hand[b] = {} /\ inbox[b] = <<>> /\ outbox[b] = <<>> /\ ~view[b].failed
ShowsStore(b) == LET v == view[b] IN
    /\ v.rows = {Row(i) : i \in FirstOf(order, Recent)}
    /\ v.unread = Cardinality(Range(order) \ read)
    /\ \E k \in 0..Len(order) : /\ v.loaded = {Row(order[j]) : j \in 1..k}
                                /\ v.done <=> k = Len(order)
QuietShowsStore ==
    /\ TypeOK /\ StoredIsShown
    /\ \A b \in Browsers : Quiet(b) /\ b \notin stale => ShowsStore(b)

\* A page request is answered or given up with its connection: the list does
\* not wait for ever, whatever is created, evicted or fails meanwhile.
PageAnswered == \A b \in Browsers : view[b].request # "none" ~> view[b].request = "none"
=============================================================================
