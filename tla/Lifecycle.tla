----------------------------- MODULE Lifecycle -----------------------------
(***************************************************************************)
(* Saving a configuration and restarting into it, and the evidence of how  *)
(* each run of the controller ended: internal/configapi/api.go,            *)
(* internal/notifications/lifecycle.go, the create script of               *)
(* internal/notifications/service.go, and the start and end of             *)
(* cmd/controller/main.go.                                                 *)
(*                                                                         *)
(* A configuration gives every other service a value.  A service reads the *)
(* generated environment when it starts; the controller reads the file.    *)
(* The marker file says what the last run was doing; a notification is     *)
(* reserved in it before it is created in the store, so that the next run  *)
(* can create it again.  The process may die between any two steps; a file *)
(* is replaced by rename, so a write that fails has either changed nothing *)
(* or, when the directory sync fails, replaced the file and still failed.  *)
(***************************************************************************)
EXTENDS ValkeyLists, FiniteSets

CONSTANTS
    ServiceOrder,  \* the other services, in the order they are restarted
    Values,        \* values of the options a service owns
    Default,       \* the value in the first configuration
    MaxSaves,      \* bound: saves
    MaxEnds,       \* bound: crashes and signals
    MaxFaults      \* bound: failing writes, commands and service restarts

ASSUME LifecycleAssumption ==
    /\ ServiceOrder \in Seq(Range(ServiceOrder)) /\ IsInjective(ServiceOrder)
    /\ Default \in Values
    /\ {MaxSaves, MaxEnds, MaxFaults} \subseteq Nat

VARIABLES
    file,       \* the configuration file
    env,        \* /run/virtualme/config.env, generated from the file
    runs,       \* value each service was started with
    marker,     \* controller-lifecycle.json
    notices,    \* lifecycle notifications in the store
    run,        \* number of the current or last controller process
    pc,         \* next step of main
    signalled,  \* SIGTERM arrived
    requested,  \* restartRequests: "no", "sent" or "taken" by main
    startup, current, restarting,  \* configapi.Service
    op,         \* step of the restart handler that holds operationMu
    plan,       \* services to restart
    saves, ends, faults,           \* the bounded counters
    killed,     \* history: runs that died leaving "running" behind
    accepted,   \* history: runs that answered 202, unless minutes have passed since
    incomplete  \* history: some Startup returned an error

disk == <<file, env, runs, marker, notices>>
main == <<run, pc, signalled, requested>>
api == <<startup, current, restarting, op, plan>>
bounds == <<saves, ends, faults>>
past == <<killed, accepted, incomplete>>
vars == <<disk, main, api, bounds, past>>

Services == Range(ServiceOrder)
Configs == [Services -> Values]
Shutdowns == {"container-stop", "config-restart"}
Reasons == Shutdowns \cup {"unclean-recovery", "config-restart-startup"}
Steps == {"down", "read", "recover", "complete", "unclean", "create", "run", "serve",
          "stop", "stopcreate", "stopclean", "drain", "services"}

Fault(o) ==
    /\ o # "ok" => faults < MaxFaults
    /\ faults' = IF o = "ok" THEN faults ELSE faults + 1
    /\ UNCHANGED <<saves, ends>>

Goto(step) == pc' = step /\ UNCHANGED <<run, signalled, requested>>

-----------------------------------------------------------------------------
(* The marker and the notification reserved in it.  "by" is the run that   *)
(* reserved it, and so its identity; "fresh" says that the deadline of a   *)
(* planned restart is at most five minutes past.                           *)

NoMarker == [state |-> "absent", run |-> 0, reason |-> "none", by |-> 0, fresh |-> FALSE]
Running == [state |-> "running", run |-> run, reason |-> "none", by |-> 0, fresh |-> FALSE]
Planned == [marker EXCEPT !.state = "planned-restart", !.reason = "config-restart", !.fresh = TRUE]
Pending(reason) == [state |-> "clean-pending", run |-> marker.run, reason |-> reason,
                    by |-> run, fresh |-> FALSE]
Clean == [marker EXCEPT !.state = "clean"]

Reserved(m) == [reason |-> m.reason, run |-> m.run, by |-> m.by]

WriteMarker(m, o) ==
    /\ Fault(o)
    /\ marker' = IF Applied(o) THEN m ELSE marker

\* The marker is not the one the operation starts from: it writes nothing.
WritesNothing(o) == o = "lost command" /\ UNCHANGED <<marker, bounds>>

\* createExact: the script creates the notification unless it is there.
CreateExact(o) ==
    /\ Fault(o)
    /\ notices' = IF Applied(o) THEN notices \cup {Reserved(marker)} ELSE notices

-----------------------------------------------------------------------------
(* Lifecycle.Startup, before the HTTP server listens.                      *)

\* s6 starts the process; a container start also generates the environment
\* and starts every service.
Boot == \E container \in BOOLEAN :
    /\ pc = "down"
    /\ run' = run + 1 /\ pc' = "read" /\ signalled' = FALSE /\ requested' = "no"
    /\ startup' = file /\ current' = file /\ restarting' = FALSE
    /\ op' = "none" /\ plan' = <<>>
    /\ env' = IF container THEN file ELSE env
    /\ runs' = IF container THEN file ELSE runs
    /\ UNCHANGED <<file, marker, notices, bounds, past>>

AfterRead_SkipPending(m) ==  \* mutant: a reserved notification is not recovered
    CASE m.state \in {"absent", "clean-pending"} -> "run"
      [] m.state = "clean" -> IF m.reason = "config-restart" THEN "complete" ELSE "run"
      [] m.state = "planned-restart" /\ m.fresh -> "complete"
      [] OTHER -> "unclean"

AfterRead(m) ==
    CASE m.state = "absent" -> "run"
      [] m.state = "clean-pending" -> "recover"
      [] m.state = "clean" -> IF m.reason = "config-restart" THEN "complete" ELSE "run"
      [] m.state = "planned-restart" /\ m.fresh -> "complete"
      [] OTHER -> "unclean"

ReadMarker ==
    /\ pc = "read"
    /\ Goto(AfterRead(marker))
    /\ UNCHANGED <<disk, api, bounds, past>>

\* A step of Startup that fails ends it; the controller serves all the same.
StartupStep(o, next) ==
    /\ Goto(IF Replied(o) THEN next ELSE "serve")
    /\ incomplete' = (incomplete \/ ~Replied(o))
    /\ UNCHANGED <<api, killed, accepted>>

\* uncleanRecovery and restartComplete reserve their notification.
Reserve(step, reason) == \E o \in Outcome :
    /\ pc = step
    /\ WriteMarker(Pending(reason), o)
    /\ StartupStep(o, "create")
    /\ UNCHANGED <<file, env, runs, notices>>

AfterRecover(m) == IF m.reason = "config-restart" THEN "complete" ELSE "run"

RecoverPending == \E o \in Outcome :
    /\ pc = "recover"
    /\ CreateExact(o)
    /\ StartupStep(o, AfterRecover(marker))
    /\ UNCHANGED <<file, env, runs, marker>>

CreateReserved == \E o \in Outcome :
    /\ pc = "create"
    /\ CreateExact(o)
    /\ StartupStep(o, "run")
    /\ UNCHANGED <<file, env, runs, marker>>

MarkRunning == \E o \in Outcome :
    /\ pc = "run"
    /\ WriteMarker(Running, o)
    /\ StartupStep(o, "serve")
    /\ UNCHANGED <<file, env, runs, notices>>

Startup ==
    \/ ReadMarker
    \/ Reserve("complete", "config-restart-startup") \/ Reserve("unclean", "unclean-recovery")
    \/ RecoverPending \/ CreateReserved \/ MarkRunning

-----------------------------------------------------------------------------
(* The HTTP handlers.  operationMu serialises them; a save holds it for    *)
(* the whole request and is one step.                                      *)

Serving == pc \in {"serve", "stop", "stopcreate", "stopclean", "drain"}

Put == \E o \in Outcome, new \in Configs :
    /\ Serving /\ op = "none" /\ ~restarting
    /\ saves < MaxSaves /\ saves' = saves + 1
    /\ o # "ok" => faults < MaxFaults
    /\ faults' = IF o = "ok" THEN faults ELSE faults + 1
    /\ file' = IF Applied(o) THEN new ELSE file
    /\ current' = IF Replied(o) THEN new ELSE current
    /\ UNCHANGED <<env, runs, marker, notices, main, startup, restarting, op, plan, ends, past>>

Changed == Sieve(ServiceOrder, {i \in DOMAIN ServiceOrder :
                                  startup[ServiceOrder[i]] # current[ServiceOrder[i]]})

RestartBegin ==
    /\ Serving /\ op = "none" /\ ~restarting
    /\ current # startup
    /\ op' = "preflight" /\ plan' = Changed
    /\ UNCHANGED <<disk, main, startup, current, restarting, bounds, past>>

\* configctl preflight generates the environment from the file.
Preflight == \E o \in Outcome :
    /\ op = "preflight"
    /\ Fault(o)
    /\ env' = IF Applied(o) THEN file ELSE env
    /\ op' = IF Replied(o) THEN "match" ELSE "none"
    /\ UNCHANGED <<file, runs, marker, notices, main, startup, current, restarting, plan, past>>

Matches_MemoryOnly == current # startup  \* mutant: the file is not read again
Matches == current # startup /\ file = current

\* pendingRevisionMatches
MatchRevision ==
    /\ op = "match"
    /\ op' = IF Matches THEN "plan" ELSE "none"
    /\ restarting' = Matches
    /\ UNCHANGED <<disk, main, startup, current, plan, bounds, past>>

\* PlanConfigRestart; Shutdown holds the lifecycle mutex from its first write.
PlanRestart == \E o \in Outcome :
    /\ op = "plan" /\ pc \notin {"stopcreate", "stopclean"}
    /\ IF marker.state = "running"
       THEN WriteMarker(Planned, o)
       ELSE WritesNothing(o)
    /\ op' = IF Replied(o) THEN "accepted" ELSE "none"
    /\ restarting' = Replied(o)
    /\ UNCHANGED <<file, env, runs, notices, main, startup, current, plan, past>>

\* 202, then the plan is sent to main.
Accept ==
    /\ op = "accepted"
    /\ op' = "none" /\ requested' = "sent"
    /\ accepted' = accepted \cup {run}
    /\ UNCHANGED <<disk, run, pc, signalled, startup, current, restarting, plan, bounds>>
    /\ UNCHANGED <<killed, incomplete>>

Handlers == Preflight \/ MatchRevision \/ PlanRestart \/ Accept

-----------------------------------------------------------------------------
(* The end of a run.                                                       *)

Signal ==
    /\ pc # "down" /\ ~signalled /\ ends < MaxEnds
    /\ signalled' = TRUE /\ ends' = ends + 1
    /\ UNCHANGED <<disk, run, pc, requested, api, saves, faults, past>>

\* main's select takes either reason.
BeginStop ==
    /\ pc = "serve"
    /\ \/ signalled /\ UNCHANGED requested
       \/ requested = "sent" /\ requested' = "taken"
    /\ pc' = "stop"
    /\ UNCHANGED <<disk, run, signalled, api, bounds, past>>

\* Lifecycle.Shutdown: a failing step ends it.
StopStep(o, next) ==
    /\ Goto(IF Replied(o) THEN next ELSE "drain")
    /\ UNCHANGED <<api, past>>

StopReason_Signal(m) == "container-stop"  \* mutant: the plan is not looked at
StopReason(m) ==
    IF m.state = "planned-restart" /\ m.fresh THEN "config-restart" ELSE "container-stop"

StopPending == \E o \in Outcome :
    /\ pc = "stop"
    /\ IF marker.state # "absent"
       THEN WriteMarker(Pending(StopReason(marker)), o)
       ELSE WritesNothing(o)
    /\ StopStep(o, "stopcreate")
    /\ UNCHANGED <<file, env, runs, notices>>

StopCreate == \E o \in Outcome :
    /\ pc = "stopcreate"
    /\ CreateExact(o)
    /\ StopStep(o, "stopclean")
    /\ UNCHANGED <<file, env, runs, marker>>

StopClean == \E o \in Outcome :
    /\ pc = "stopclean"
    /\ WriteMarker(Clean, o)
    /\ StopStep(o, "drain")
    /\ UNCHANGED <<file, env, runs, notices>>

\* server.Shutdown, then the coordinator or the end of the process.
Drain ==
    /\ pc = "drain"
    /\ Goto(IF requested = "taken" THEN "services" ELSE "down")
    /\ op' = IF requested = "taken" THEN op ELSE "none"
    /\ UNCHANGED <<disk, startup, current, restarting, plan, bounds, past>>

AfterService_Retry(p) == p  \* mutant: the same service is restarted again
AfterService(p) == Tail(p)

\* coordinator.Restart stops at the first service that fails.
RestartService == \E o \in Outcome :
    /\ pc = "services"
    /\ IF plan = <<>>
       THEN o = "ok" /\ UNCHANGED <<runs, plan, bounds>> /\ Goto("down")
       ELSE /\ Fault(o)
            /\ runs' = IF Applied(o) THEN [runs EXCEPT ![Head(plan)] = env[Head(plan)]] ELSE runs
            /\ plan' = AfterService(plan)
            /\ Goto(IF Replied(o) THEN "services" ELSE "down")
    /\ UNCHANGED <<file, env, marker, notices, startup, current, restarting, op, past>>

Crash ==
    /\ pc # "down" /\ ends < MaxEnds
    /\ ends' = ends + 1
    /\ pc' = "down" /\ op' = "none"
    /\ killed' = IF marker = Running THEN killed \cup {run} ELSE killed
    /\ UNCHANGED <<disk, run, signalled, requested, startup, current, restarting, plan>>
    /\ UNCHANGED <<saves, faults, accepted, incomplete>>

\* More than five minutes pass after the deadline of a plan.
Elapse ==
    /\ pc = "down" \/ (pc = "serve" /\ ~restarting)
    /\ marker.fresh
    /\ marker' = [marker EXCEPT !.fresh = FALSE]
    /\ accepted' = accepted \ {marker.run}
    /\ UNCHANGED <<file, env, runs, notices, main, api, bounds, killed, incomplete>>

\* s6 restarts a service that ended by itself.
ServiceRespawn(s) ==
    /\ runs' = [runs EXCEPT ![s] = env[s]]
    /\ UNCHANGED <<file, env, marker, notices, main, api, bounds, past>>

Main ==
    \/ Boot \/ Startup
    \/ BeginStop \/ StopPending \/ StopCreate \/ StopClean \/ Drain \/ RestartService

Init ==
    /\ file = [s \in Services |-> Default] /\ env = file /\ runs = file
    /\ marker = NoMarker /\ notices = {}
    /\ run = 0 /\ pc = "down" /\ signalled = FALSE /\ requested = "no"
    /\ startup = file /\ current = file /\ restarting = FALSE /\ op = "none" /\ plan = <<>>
    /\ saves = 0 /\ ends = 0 /\ faults = 0
    /\ killed = {} /\ accepted = {} /\ incomplete = FALSE

Next ==
    \/ Main \/ Handlers \/ Put \/ RestartBegin
    \/ Signal \/ Crash \/ Elapse
    \/ \E s \in Services : ServiceRespawn(s)

Spec == Init /\ [][Next]_vars

\* main and the handlers are goroutines; s6 starts the controller again.
FairSpec == Spec /\ WF_vars(Main) /\ WF_vars(Handlers)

-----------------------------------------------------------------------------
(* Properties.                                                             *)

MarkerType == [
    state : {"absent", "running", "planned-restart", "clean-pending", "clean"},
    run : Nat, reason : Reasons \cup {"none"}, by : Nat, fresh : BOOLEAN ]

\* What validateLifecycleMarker accepts, and a run can leave behind.
ValidMarker(m) ==
    /\ m.state = "running" => m.reason = "none" /\ m.by = 0
    /\ m.state = "planned-restart" => m.reason = "config-restart" /\ m.by = 0
    /\ m.state = "clean-pending" => m.reason \in Reasons /\ m.by # 0
    /\ m.state = "clean" => m.reason \in Shutdowns /\ m.by # 0
    /\ m.fresh => m.state = "planned-restart"

\* Types, and every marker is one that the next run accepts as valid.
TypeOK ==
    /\ {file, env, runs, startup, current} \subseteq Configs
    /\ marker \in MarkerType /\ ValidMarker(marker)
    /\ notices \subseteq [reason : Reasons, run : Nat, by : Nat]
    /\ run \in Nat /\ pc \in Steps /\ {signalled, restarting, incomplete} \subseteq BOOLEAN
    /\ requested \in {"no", "sent", "taken"}
    /\ op \in {"none", "preflight", "match", "plan", "accepted"}
    /\ plan \in Seq(Services)
    /\ saves \in 0..MaxSaves /\ ends \in 0..MaxEnds /\ faults \in 0..MaxFaults
    /\ killed \subseteq Nat /\ accepted \subseteq Nat

About(r, reasons) == {n \in notices : n.run = r /\ n.reason \in reasons}

\* Every run that was killed is reported by the run that has taken over, and
\* a run is reported once and in one way, stopped or lost, never both, however
\* often later runs are killed too (unless a Startup returned an error).
EndsReported ==
    /\ TypeOK
    /\ marker.state = "running" /\ ~incomplete =>
          \A r \in killed : r < marker.run => About(r, {"unclean-recovery"}) # {}
    /\ ~incomplete =>
          \A r \in 1..run : Cardinality(About(r, Shutdowns \cup {"unclean-recovery"})) <= 1

\* A run that accepted a restart is not reported as lost or as stopped,
\* wherever it or the next runs were killed, and a configuration restart is
\* reported on both sides.
RestartReported ==
    ~incomplete =>
        /\ \A r \in accepted : About(r, {"unclean-recovery", "container-stop"}) = {}
        /\ marker.state = "running" =>
              \A n \in notices : n.reason = "config-restart" /\ n.run < marker.run
                  => Cardinality(About(n.run, {"config-restart-startup"})) = 1

\* What is restarted starts with the configuration that was accepted.
RestartsWithAccepted ==
    pc = "services" => env = current /\ file = current

\* An accepted restart ends in a controller that serves what was accepted.
RestartCompletes == requested = "sent" ~> (pc = "serve" /\ ~restarting /\ current = file)

=============================================================================
