---------------------------- MODULE MailOutbox ----------------------------
(***************************************************************************)
(* The outbox of internal/mail/service.go: what the controller remembers   *)
(* of the messages it handed to dma, in memory and in a Valkey list.       *)
(*                                                                         *)
(* dma owns the spool.  A submission notes the queue ids before and after, *)
(* to learn its own; a refresh compares the outbox with the spool; `Clear  *)
(* queue' empties the spool and marks the outbox.  They are goroutines of  *)
(* their own: service.mu covers the outbox and its writing to Valkey, but  *)
(* no reading of the spool.                                                *)
(***************************************************************************)
EXTENDS ValkeyLists

CONSTANTS
    Sends,      \* submissions; the queue id that dma gives to one has its name
    NoId,       \* the queue id of an entry that found none
    Cap,        \* outboxCap, 200
    MaxMishaps  \* bound: failing commands and directory operations, crashes

ASSUME SendsAssumption == NoId \notin Sends
ASSUME BoundsAssumption == Cap \in Nat \ {0} /\ MaxMishaps \in Nat

VARIABLES
    spool,      \* queue ids with a Q file
    bounced,    \* of these, the ones with an error in the envelope or the flush log
    send,       \* per submission its step and the ids it saw before
    refresh,    \* the refresh that holds refreshMu: step, ids and errors it read
    clear,      \* ClearQueue: step, files it has still to remove
    outbox,     \* service.outbox, oldest first
    store,      \* Valkey: the list outboxKey
    mu,         \* "push" between the DEL and the RPUSH, else "free"
    up,         \* the process serves
    mishaps,    \* the bounded counter
    recorded,   \* history: submissions in the order of their entries
    raced,      \* history: messages whose entry came while a refresh or a clear was under way that had missed them
    shared,     \* history: submissions that overlapped another
    behind,     \* history: the list is not the outbox: the last writing failed
    lost,       \* history: a crash or a failed start lost entries
    spared      \* history: messages and submissions that a failed reading or removal concerned

queues == <<spool, bounced>>
histories == <<recorded, raced, shared, behind, lost, spared>>
vars == <<queues, send, refresh, clear, outbox, store, mu, up, mishaps, histories>>

Open == {"queued", "error"}
NoRefresh == [pc |-> "idle", seen |-> {}, errors |-> {}]
NoClear == [pc |-> "idle", left |-> {}]
Waiting == [pc |-> "idle", before |-> {}]
Gone == [pc |-> "done", before |-> {}]

Faults(n) == mishaps + n <= MaxMishaps /\ mishaps' = mishaps + n
Mishap == Faults(1)
Bad(o) == IF o = "ok" THEN 0 ELSE 1
Fault(o) == Faults(Bad(o))

-----------------------------------------------------------------------------
(* Writing the outbox.                                                     *)

Trim(entries) == KeepLast(entries, Cap)

\* Mutant: the list is not deleted first.
Deleted_Not(list, o) == list

Deleted(list, o) == IF Applied(o) THEN <<>> ELSE list

\* persistOutboxLocked: DEL now, RPUSH in the next step, both without a look
\* at the reply.
Persist(entries, o) ==
    /\ outbox' = Trim(entries)
    /\ store' = Deleted(store, o)
    /\ behind' = ~Applied(o)
    /\ mu' = "push"

Push == \E o \in Outcome :
    /\ mu = "push" /\ Fault(o)
    /\ mu' = "free"
    /\ store' = IF Applied(o) THEN store \o outbox ELSE store
    /\ behind' = (behind \/ ~Applied(o))
    /\ UNCHANGED <<queues, send, refresh, clear, outbox, up, recorded, raced, shared, lost, spared>>

-----------------------------------------------------------------------------
(* send                                                                    *)

\* spoolIDs: a directory that cannot be read counts as empty.
Before(r) == \E ok \in BOOLEAN :
    /\ up /\ send[r].pc = "idle"
    /\ IF ok THEN UNCHANGED <<mishaps, spared>>
       ELSE Mishap /\ spared' = spared \cup IF spool = {} THEN {} ELSE spool \cup {r}
    /\ send' = [send EXCEPT ![r] = [pc |-> "submit", before |-> IF ok THEN spool ELSE {}]]
    /\ LET others == {q \in Sends : send[q].pc \in {"submit", "record"}}
       IN  shared' = IF others = {} THEN shared ELSE shared \cup others \cup {r}
    /\ UNCHANGED <<queues, refresh, clear, outbox, store, mu, up, recorded, raced, behind, lost>>

\* sendmail takes the message, or the result is an error.
Submit(r) ==
    /\ send[r].pc = "submit"
    /\ \/ /\ spool' = spool \cup {r}
          /\ send' = [send EXCEPT ![r].pc = "record"]
       \/ send' = [send EXCEPT ![r] = Gone] /\ UNCHANGED spool
    /\ UNCHANGED <<bounced, refresh, clear, outbox, store, mu, up, mishaps, histories>>

NewIds(r, listing) == listing \ send[r].before

\* A refresh or a clear that is under way has not seen the message.
Missed(q) ==
    /\ q \in spool
    /\ \/ refresh.pc = "apply" /\ q \notin refresh.seen
       \/ clear.pc = "remove" /\ q \notin clear.left

\* The second spoolIDs: where the directory cannot be read the entry has no
\* id, as if its message had left.
Record(r) == \E o \in Outcome : \E ok \in BOOLEAN : \E id \in Sends \cup {NoId} :
    LET new == NewIds(r, IF ok THEN spool ELSE {})
    IN  /\ send[r].pc = "record" /\ mu = "free"
        /\ Faults(Bad(o) + IF ok THEN 0 ELSE 1)
        /\ IF new = {} THEN id = NoId ELSE id \in new
        /\ Persist(Append(outbox, [req |-> r, id |-> id, status |-> "queued"]), o)
        /\ send' = [send EXCEPT ![r] = Gone]
        /\ recorded' = Append(recorded, r)
        /\ raced' = raced \cup {q \in {r, id} : Missed(q)}
        /\ spared' = IF ok THEN spared ELSE spared \cup {r}
        /\ UNCHANGED <<queues, refresh, clear, up, shared, lost>>

-----------------------------------------------------------------------------
(* refresh                                                                 *)

\* A directory that cannot be read ends the refresh with the entries as they
\* are, which is no step.
ReadSpool ==
    /\ up /\ refresh = NoRefresh
    /\ refresh' = [pc |-> "apply", seen |-> spool, errors |-> bounced]
    /\ UNCHANGED <<queues, send, clear, outbox, store, mu, up, mishaps, histories>>

\* Mutant: an entry with an error waits for another attempt.
Refreshed_QueuedOnly(e) ==
    IF e.status # "queued" THEN e
    ELSE IF e.id \notin refresh.seen THEN [e EXCEPT !.status = "left_queue"]
    ELSE IF e.id \in refresh.errors THEN [e EXCEPT !.status = "error"] ELSE e

\* Mutant: an entry that was cleared may still turn out to have left.
Refreshed_Always(e) ==
    IF e.id \notin refresh.seen THEN [e EXCEPT !.status = "left_queue"]
    ELSE IF e.id \in refresh.errors THEN [e EXCEPT !.status = "error"] ELSE e

Refreshed(e) ==
    IF e.status \notin Open THEN e
    ELSE IF e.id \notin refresh.seen THEN [e EXCEPT !.status = "left_queue"]
    ELSE IF e.id \in refresh.errors THEN [e EXCEPT !.status = "error"] ELSE e

\* The outbox is written only when an entry changed.
ChangeTo(entries, o) ==
    IF entries = outbox THEN o = "ok" /\ UNCHANGED <<outbox, store, behind, mu, mishaps>>
    ELSE Fault(o) /\ Persist(entries, o)

ApplyRefresh == \E o \in Outcome :
    /\ refresh.pc = "apply" /\ mu = "free"
    /\ refresh' = NoRefresh
    /\ ChangeTo([i \in DOMAIN outbox |-> Refreshed(outbox[i])], o)
    /\ UNCHANGED <<queues, send, clear, up, recorded, raced, shared, lost, spared>>

-----------------------------------------------------------------------------
(* ClearQueue                                                              *)

\* Where the directory cannot be read no file is removed, and the entries are
\* marked all the same.
ListFiles == \E ok \in BOOLEAN :
    /\ up /\ clear = NoClear
    /\ clear' = [pc |-> "remove", left |-> IF ok THEN spool ELSE {}]
    /\ IF ok THEN UNCHANGED <<mishaps, spared>> ELSE Mishap /\ spared' = spared \cup spool
    /\ UNCHANGED <<queues, send, refresh, outbox, store, mu, up, recorded, raced, shared, behind, lost>>

RemoveFile(q) == \E ok \in BOOLEAN :
    /\ q \in clear.left
    /\ clear' = [clear EXCEPT !.left = @ \ {q}]
    /\ spool' = IF ok THEN spool \ {q} ELSE spool
    /\ bounced' = bounced \cap spool' /\ raced' = raced \cap spool'
    /\ IF ok THEN UNCHANGED <<mishaps, spared>> ELSE Mishap /\ spared' = spared \cup {q}
    /\ UNCHANGED <<send, refresh, outbox, store, mu, up, recorded, shared, behind, lost>>

Cleared(e) == IF e.status \in Open THEN [e EXCEPT !.status = "cleared"] ELSE e

MarkCleared == \E o \in Outcome :
    /\ clear.pc = "remove" /\ clear.left = {} /\ mu = "free"
    /\ clear' = NoClear
    /\ ChangeTo([i \in DOMAIN outbox |-> Cleared(outbox[i])], o)
    /\ UNCHANGED <<queues, send, refresh, up, recorded, raced, shared, lost, spared>>

-----------------------------------------------------------------------------
(* dma and the process.                                                    *)

Leave(q) ==
    /\ q \in spool /\ spool' = spool \ {q} /\ bounced' = bounced \ {q} /\ raced' = raced \ {q}
    /\ UNCHANGED <<send, refresh, clear, outbox, store, mu, up, mishaps, recorded, shared, behind, lost, spared>>

Bounce(q) ==
    /\ q \in spool \ bounced /\ bounced' = bounced \cup {q}
    /\ UNCHANGED <<spool, send, refresh, clear, outbox, store, mu, up, mishaps, histories>>

Crash ==
    /\ up /\ Mishap
    /\ up' = FALSE
    /\ send' = [r \in Sends |-> IF send[r] = Waiting THEN Waiting ELSE Gone]
    /\ refresh' = NoRefresh /\ clear' = NoClear
    /\ outbox' = <<>> /\ mu' = "free"
    /\ lost' = (lost \/ behind \/ mu = "push")
    /\ UNCHANGED <<queues, store, recorded, raced, shared, behind, spared>>

\* loadOutbox: an error leaves the outbox empty, and the next writing deletes
\* what was not loaded.
Boot == \E o \in Outcome :
    /\ ~up /\ up' = TRUE /\ Fault(o)
    /\ outbox' = IF Replied(o) THEN store ELSE <<>>
    /\ behind' = ~Replied(o)
    /\ lost' = (lost \/ ~Replied(o))
    /\ UNCHANGED <<queues, send, refresh, clear, store, mu, recorded, raced, shared, spared>>

Init ==
    /\ spool = {} /\ bounced = {}
    /\ send = [r \in Sends |-> Waiting]
    /\ refresh = NoRefresh /\ clear = NoClear
    /\ outbox = <<>> /\ store = <<>> /\ mu = "free" /\ up = FALSE
    /\ mishaps = 0
    /\ recorded = <<>> /\ raced = {} /\ shared = {} /\ spared = {}
    /\ behind = FALSE /\ lost = FALSE

Sending(r) == Before(r) \/ Submit(r) \/ Record(r)
Refreshing == ReadSpool \/ ApplyRefresh
Clearing == ListFiles \/ MarkCleared \/ \E q \in Sends : RemoveFile(q)
Dma == \E q \in Sends : Leave(q) \/ Bounce(q)

Next == (\E r \in Sends : Sending(r)) \/ Push \/ Refreshing \/ Clearing \/ Dma \/ Crash \/ Boot

Spec == Init /\ [][Next]_vars

\* The process is restarted, a page is open, whose ticker refreshes, and the
\* mutex is handed on.
FairSpec == Spec /\ WF_vars(Boot) /\ WF_vars(Push) /\ WF_vars(ReadSpool) /\ SF_vars(ApplyRefresh)

-----------------------------------------------------------------------------
(* Properties.                                                             *)

Entries == [req : Sends, id : Sends \cup {NoId}, status : Open \cup {"left_queue", "cleared"}]

\* Values; a mutex is held only by a process that serves; the outbox exceeds
\* its cap only after a start that read a list written twice.
TypeOK ==
    /\ {spool, bounced, raced, shared, spared} \subseteq SUBSET Sends
    /\ \A r \in Sends : send[r].pc \in {"idle", "submit", "record", "done"} /\ send[r].before \subseteq Sends
    /\ refresh.pc \in {"idle", "apply"} /\ clear.pc \in {"idle", "remove"}
    /\ \A i \in DOMAIN outbox : outbox[i] \in Entries
    /\ \A i \in DOMAIN store : store[i] \in Entries
    /\ mu = "push" => up /\ Len(outbox) <= Cap
    /\ Len(outbox) > Cap => lost
    /\ refresh # NoRefresh \/ clear # NoClear => up

\* Whenever nobody writes and the last writing did not fail, Valkey holds the
\* outbox; unless entries were lost, the outbox has the latest submissions,
\* each once and in order, across restarts.
StoreIsOutbox ==
    /\ TypeOK
    /\ up /\ mu = "free" /\ ~behind => store = outbox
    /\ up /\ ~lost => [i \in DOMAIN outbox |-> outbox[i].req] = KeepLast(recorded, Cap)

\* The message of an entry shown as left or cleared is not in the queue, and
\* neither is the one whose id the entry has; an entry's id is its own, or none.
\* The code keeps this up to three gaps, and the invariant excepts no more: an
\* entry recorded after a refresh or a clear read the queue, and before it
\* marks the entries, whose message came too late to be read (raced); submissions
\* that overlap, which may take each other's id (shared); and a directory that
\* could not be read or a file that could not be removed, which count as if
\* nothing were there (spared).
FinishedIsGone ==
    \A i \in DOMAIN outbox : LET e == outbox[i] IN
        /\ e.status \notin Open => /\ e.id \notin spool \ (raced \cup spared)
                                  /\ e.req \notin spool \ (raced \cup spared \cup shared)
        /\ e.req \notin shared /\ e.id \notin spared => e.id \in {e.req, NoId}

\* And left and cleared are final.
FinishedIsFinal ==
    [][ /\ FinishedIsGone'
        /\ up /\ up' /\ ~lost => \A i \in DOMAIN outbox : outbox[i].status \notin Open =>
              \A k \in DOMAIN outbox' :
                  outbox'[k].req = outbox[i].req => outbox'[k].status = outbox[i].status ]_vars

\* An entry whose message has left the queue does not stay open.
OpenAndGone(r) == \E i \in DOMAIN outbox :
    outbox[i].req = r /\ outbox[i].status \in Open /\ outbox[i].id \notin spool
EventuallyFinished == \A r \in Sends : OpenAndGone(r) ~> ~OpenAndGone(r)
=============================================================================
