-------------------------- MODULE LifecycleProofs --------------------------
(***************************************************************************)
(* For every list of services, all values and any number of saves, crashes *)
(* and failures: what is reported of the runs of the controller is true of *)
(* them, and a restart applies the configuration that was accepted.        *)
(***************************************************************************)
EXTENDS Lifecycle, SequenceTheorems, FiniteSetTheorems, TLAPS

-----------------------------------------------------------------------------
(* What the list commands do to the elements of a list.                    *)

\* A sieve returns a sequence of the elements at the chosen positions, all of them,
\* each once.
LEMMA SieveRange ==
    ASSUME NEW S, NEW s \in Seq(S), NEW keep \in SUBSET (1..Len(s))
    PROVE  /\ Sieve(s, keep) \in Seq(S)
           /\ Range(Sieve(s, keep)) = {s[i] : i \in keep}
<1> DEFINE n == Cardinality(keep)
           below(i) == {m \in keep : m <= i}
           rank == [i \in keep |-> Cardinality({m \in keep : m <= i})]
           nth == [k \in 1..n |-> CHOOSE i \in keep : rank[i] = k]
<1>1. Len(s) \in Nat /\ IsFiniteSet(1..Len(s))
  BY LenProperties, FS_Interval
<1>2. IsFiniteSet(keep) /\ n \in Nat
  BY <1>1, FS_Subset, FS_CardinalityType
<1>3. ASSUME NEW i \in keep PROVE rank[i] \in 1..n
  <2>1. below(i) \in SUBSET keep /\ i \in below(i)
    BY <1>1
  <2>2. /\ IsFiniteSet(below(i)) /\ Cardinality(below(i)) <= n
        /\ Cardinality(below(i)) \in Nat /\ Cardinality(below(i)) # 0
    BY <1>2, <2>1, FS_Subset, FS_CardinalityType, FS_EmptySet
  <2>3. QED
    BY <1>2, <2>2
<1>4. ASSUME NEW i \in keep, NEW j \in keep, i < j PROVE rank[i] # rank[j]
  <2>1. below(i) \in SUBSET below(j) /\ j \in below(j) /\ j \notin below(i)
    <3>1. i \in Int /\ j \in Int /\ \A m \in keep : m \in Int
      BY <1>1
    <3>2. \A m \in keep : m <= i => m <= j
      BY <1>4, <3>1
    <3>3. j <= j /\ ~(j <= i)
      BY <1>4, <3>1
    <3>4. QED
      BY <3>2, <3>3
  <2>2. below(j) \in SUBSET keep /\ IsFiniteSet(below(j))
    BY <1>2, FS_Subset
  <2>3. Cardinality(below(i)) # Cardinality(below(j))
    BY <2>1, <2>2, FS_Subset
  <2>4. QED
    BY <2>3
<1>5. rank \in Injection(keep, 1..n)
  <2>1. rank \in [keep -> 1..n]
    BY <1>3
  <2>2. \A i, j \in keep : rank[i] = rank[j] => i = j
    <3> SUFFICES ASSUME NEW i \in keep, NEW j \in keep, i # j PROVE rank[i] # rank[j]
      OBVIOUS
    <3>1. i < j \/ j < i
      BY <1>1
    <3>2. QED
      BY <1>4, <3>1
  <2>3. QED
    BY <2>1, <2>2 DEF Injection, IsInjective
<1>6. rank \in Surjection(keep, 1..n)
  <2>1. IsFiniteSet(1..n) /\ Cardinality(1..n) = n
    BY <1>2, FS_Interval
  <2>2. QED
    BY <1>5, <2>1, FS_Injection
<1>7. ASSUME NEW k \in 1..n PROVE nth[k] \in keep /\ rank[nth[k]] = k
  BY <1>6 DEF Surjection
<1>8. ASSUME NEW i \in keep PROVE nth[rank[i]] = i
  BY <1>3, <1>5, <1>7 DEF Injection, IsInjective
<1>9. Sieve(s, keep) = [k \in 1..n |-> s[nth[k]]]
  BY DEF Sieve
<1>10. \A k \in 1..n : s[nth[k]] \in S
  BY <1>7, ElementOfSeq
<1>11. Sieve(s, keep) \in Seq(S) /\ DOMAIN Sieve(s, keep) = 1..n
  <2> HIDE DEF n, nth
  <2>1. Sieve(s, keep) \in [1..n -> S]
    BY <1>9, <1>10
  <2>2. QED
    BY <1>2, <2>1, SeqDef
<1>12. Range(Sieve(s, keep)) = {s[nth[k]] : k \in 1..n}
  <2> HIDE DEF n, nth
  <2>1. QED
    BY <1>9, <1>11 DEF Range
<1>13. Range(Sieve(s, keep)) \subseteq {s[i] : i \in keep}
  <2> HIDE DEF n, nth
  <2>1. QED
    BY <1>7, <1>12
<1>14. {s[i] : i \in keep} \subseteq Range(Sieve(s, keep))
  <2> SUFFICES ASSUME NEW i \in keep PROVE s[i] \in Range(Sieve(s, keep))
    OBVIOUS
  <2>1. rank[i] \in 1..n /\ nth[rank[i]] = i
    BY <1>3, <1>8
  <2> HIDE DEF n, nth, rank
  <2>2. QED
    BY <1>12, <2>1
<1>15. QED
  BY <1>11, <1>13, <1>14

-----------------------------------------------------------------------------
(* Types.                                                                  *)

Notices == [reason : Reasons, run : Nat, by : Nat]

\* The bounds are numbers.
LEMMA BoundsType == MaxSaves \in Nat /\ MaxEnds \in Nat /\ MaxFaults \in Nat
BY LifecycleAssumption

\* A step that may fail keeps the counters in their bounds.
LEMMA FaultType ==
    ASSUME TypeOK, NEW o \in Outcome, Fault(o)
    PROVE  saves' \in 0..MaxSaves /\ ends' \in 0..MaxEnds /\ faults' \in 0..MaxFaults
<1>1. saves \in 0..MaxSaves /\ ends \in 0..MaxEnds /\ faults \in 0..MaxFaults
  BY DEF TypeOK
<1>2. UNCHANGED <<saves, ends>>
  BY DEF Fault
<1>3. (o # "ok" => faults < MaxFaults) /\ faults' = IF o = "ok" THEN faults ELSE faults + 1
  BY DEF Fault
<1>4. faults' \in 0..MaxFaults
  BY <1>1, <1>3, BoundsType
<1> QED
  BY <1>1, <1>2, <1>4

\* The markers that are written are valid.
LEMMA MarkerWrites ==
    ASSUME TypeOK
    PROVE  /\ Running \in MarkerType /\ ValidMarker(Running)
           /\ marker.state = "running" => Planned \in MarkerType /\ ValidMarker(Planned)
           /\ run # 0 => \A reason \in Reasons : 
                 Pending(reason) \in MarkerType /\ ValidMarker(Pending(reason))
           /\ marker.state = "clean-pending" /\ marker.reason \in Shutdowns => 
                 Clean \in MarkerType /\ ValidMarker(Clean)
<1>1. marker \in MarkerType /\ ValidMarker(marker) /\ run \in Nat
  BY DEF TypeOK
<1>2. /\ marker.state \in {"absent", "running", "planned-restart", "clean-pending", "clean"}
      /\ marker.run \in Nat /\ marker.reason \in Reasons \cup {"none"} /\ marker.by \in Nat
      /\ marker.fresh \in BOOLEAN
  BY <1>1 DEF MarkerType
<1>3. Running \in MarkerType /\ ValidMarker(Running)
  BY <1>1 DEF Running, MarkerType, ValidMarker
<1>4. ASSUME marker.state = "running" PROVE Planned \in MarkerType /\ ValidMarker(Planned)
  <2>1. Planned \in MarkerType
    BY <1>1 DEF Planned, MarkerType, Reasons, Shutdowns
  <2>2. /\ Planned.state = "planned-restart" /\ Planned.reason = "config-restart"
        /\ Planned.by = marker.by /\ Planned.fresh = TRUE
    BY <1>1 DEF Planned, MarkerType
  <2>3. marker.by = 0
    BY <1>1, <1>4 DEF ValidMarker
  <2> QED
    BY <2>1, <2>2, <2>3 DEF ValidMarker
<1>5. ASSUME run # 0, NEW reason \in Reasons
      PROVE  Pending(reason) \in MarkerType /\ ValidMarker(Pending(reason))
  BY <1>1, <1>2, <1>5 DEF Pending, MarkerType, ValidMarker
<1>6. ASSUME marker.state = "clean-pending", marker.reason \in Shutdowns
      PROVE  Clean \in MarkerType /\ ValidMarker(Clean)
  <2>1. Clean \in MarkerType
    BY <1>1 DEF Clean, MarkerType
  <2>2. /\ Clean.state = "clean" /\ Clean.reason = marker.reason
        /\ Clean.by = marker.by /\ Clean.fresh = marker.fresh
    BY <1>1 DEF Clean, MarkerType
  <2>3. marker.by # 0 /\ ~marker.fresh
    BY <1>1, <1>2, <1>6 DEF ValidMarker
  <2> QED
    BY <1>6, <2>1, <2>2, <2>3 DEF ValidMarker
<1> QED
  BY <1>3, <1>4, <1>5, <1>6

\* The script creates a notification of a marker that has one reserved.
LEMMA CreateType ==
    ASSUME TypeOK, NEW o \in Outcome, CreateExact(o), marker.state = "clean-pending"
    PROVE  notices' \subseteq Notices
<1>1. marker \in MarkerType /\ ValidMarker(marker) /\ notices \subseteq Notices
  BY DEF TypeOK, Notices
<1>2. marker.reason \in Reasons /\ marker.run \in Nat /\ marker.by \in Nat
  BY <1>1 DEF MarkerType, ValidMarker
<1>3. Reserved(marker) \in Notices
  BY <1>2 DEF Reserved, Notices
<1> QED
  BY <1>1, <1>3 DEF CreateExact

\* The services to restart are a sequence of services.
LEMMA ChangedType == Changed \in Seq(Services)
<1> DEFINE at == {i \in DOMAIN ServiceOrder : startup[ServiceOrder[i]] # current[ServiceOrder[i]]}
<1>1. ServiceOrder \in Seq(Services)
  BY LifecycleAssumption DEF Services
<1>2. DOMAIN ServiceOrder = 1..Len(ServiceOrder)
  BY <1>1
<1>3. at \in SUBSET (1..Len(ServiceOrder))
  BY <1>2
<1>4. Changed = Sieve(ServiceOrder, at)
  BY DEF Changed
<1> HIDE DEF at
<1> QED
  BY <1>1, <1>3, <1>4, SieveRange

-----------------------------------------------------------------------------
(* What holds whatever failed: the phase of main, and the configuration a  *)
(* restart works on.                                                       *)

\* A handler runs while the server does; the notification of a step that
\* creates one is reserved in the marker.
PhaseInv ==
    /\ op # "none" => Serving
    /\ pc \in {"recover", "create"} => marker.state = "clean-pending"
    /\ pc \in {"stopcreate", "stopclean"} =>
          marker.state = "clean-pending" /\ marker.reason \in Shutdowns
    /\ pc # "down" => run # 0
    /\ pc = "services" => requested = "taken"

\* From the check of the file until the controller ends, the generated
\* environment, the file and the configuration in memory stay the same: no
\* save starts once a restart was accepted.
RevisionInv ==
    /\ op \in {"match", "plan", "accepted"} => env = file
    /\ op \in {"plan", "accepted"} => file = current /\ restarting
    /\ requested # "no" => op = "none" /\ restarting /\ env = file /\ file = current

Core == TypeOK /\ PhaseInv /\ RevisionInv /\ marker.run <= run

LEMMA InitCore == Init => Core
<1> SUFFICES ASSUME Init PROVE Core
  OBVIOUS
<1>1. file \in Configs /\ env = file /\ runs = file /\ startup = file /\ current = file
  BY LifecycleAssumption DEF Init, Configs
<1>2. marker \in MarkerType /\ ValidMarker(marker) /\ marker.run = 0 /\ run = 0 /\ pc = "down"
  BY DEF Init, NoMarker, MarkerType, ValidMarker
<1>3. TypeOK
  <2>1. {signalled, restarting, incomplete} \subseteq BOOLEAN /\ pc \in Steps
    BY DEF Init, Steps
  <2>2. saves \in 0..MaxSaves /\ ends \in 0..MaxEnds /\ faults \in 0..MaxFaults
    BY BoundsType DEF Init
  <2>3. plan \in Seq(Services) /\ run \in Nat /\ requested = "no" /\ op = "none"
    BY DEF Init
  <2>4. killed \subseteq Nat /\ accepted \subseteq Nat /\ notices \subseteq Notices
    BY DEF Init
  <2> QED
    BY <1>1, <1>2, <2>1, <2>2, <2>3, <2>4 DEF TypeOK, Notices
<1> QED
  BY <1>1, <1>2, <1>3 DEF Core, PhaseInv, RevisionInv, Init

\* A step of main that moves no configuration keeps what a restart works on.
LEMMA SameRevision ==
    ASSUME RevisionInv, UNCHANGED <<file, env, current, restarting, requested, op>>
    PROVE  RevisionInv'
BY DEF RevisionInv

LEMMA BootCore == Core /\ Boot => Core'
<1> SUFFICES ASSUME Core, Boot PROVE Core'
  OBVIOUS
<1>1. TypeOK /\ marker.run <= run /\ run \in Nat /\ marker \in MarkerType
  BY DEF Core, TypeOK
<1>2. /\ run' = run + 1 /\ pc' = "read" /\ signalled' = FALSE /\ requested' = "no"
      /\ startup' = file /\ current' = file /\ restarting' = FALSE
      /\ op' = "none" /\ plan' = <<>> /\ env' \in {env, file} /\ runs' \in {runs, file}
      /\ UNCHANGED <<file, marker, notices, bounds, past>>
  BY DEF Boot
<1>3. TypeOK'
  <2>1. {file', env', runs', startup', current'} \subseteq Configs
    BY <1>1, <1>2 DEF TypeOK
  <2>2. {signalled', restarting', incomplete'} \subseteq BOOLEAN /\ pc' \in Steps
    BY <1>1, <1>2 DEF TypeOK, past, Steps
  <2>3. plan' \in Seq(Services) /\ run' \in Nat
    BY <1>1, <1>2
  <2> QED
    BY <1>1, <1>2, <2>1, <2>2, <2>3 DEF TypeOK, bounds, past
<1>4. run' # 0 /\ marker'.run <= run'
  <2>1. marker.run \in Nat
    BY <1>1 DEF MarkerType
  <2> QED
    BY <1>1, <1>2, <2>1
<1>5. PhaseInv' /\ RevisionInv'
  BY <1>2, <1>4 DEF PhaseInv, RevisionInv
<1> QED
  BY <1>3, <1>4, <1>5 DEF Core

\* A step of Startup that writes a valid marker and creates what is valid, with
\* the phase it goes to right.
LEMMA StartupCore ==
    ASSUME Core, ~Serving, pc # "services", pc # "down",
           NEW o \in Outcome, NEW next \in {"recover", "complete", "unclean", "create", "run", "serve"},
           StartupStep(o, next), UNCHANGED <<file, env, runs>>,
           saves' \in 0..MaxSaves, ends' \in 0..MaxEnds, faults' \in 0..MaxFaults,
           marker' \in MarkerType, ValidMarker(marker'), marker'.run <= run,
           notices' \subseteq Notices,
           next \in {"recover", "create"} /\ Replied(o) => marker'.state = "clean-pending"
    PROVE  Core'
<1>1. TypeOK /\ PhaseInv /\ RevisionInv
  BY DEF Core
<1>2. /\ pc' = IF Replied(o) THEN next ELSE "serve"
      /\ UNCHANGED <<run, signalled, requested>>
      /\ incomplete' = (incomplete \/ ~Replied(o))
      /\ UNCHANGED <<startup, current, restarting, op, plan, killed, accepted>>
  BY DEF StartupStep, Goto, api
<1>3. TypeOK'
  <2>1. pc' \in Steps /\ incomplete' \in BOOLEAN
    BY <1>2 DEF Steps, Replied
  <2> QED
    BY <1>1, <1>2, <2>1 DEF TypeOK, Notices
<1>4. op' = "none" /\ pc' \notin {"stopcreate", "stopclean", "services", "down"} /\ run' # 0
  BY <1>1, <1>2 DEF PhaseInv
<1>5. PhaseInv'
  BY <1>2, <1>4 DEF PhaseInv
<1>6. RevisionInv'
  BY <1>1, <1>2, SameRevision
<1> QED
  BY <1>2, <1>3, <1>5, <1>6 DEF Core

LEMMA ReadMarkerCore == Core /\ ReadMarker => Core'
<1> SUFFICES ASSUME Core, ReadMarker PROVE Core'
  OBVIOUS
<1>1. TypeOK /\ PhaseInv /\ RevisionInv /\ marker.run <= run
  BY DEF Core
<1>2. /\ pc = "read" /\ pc' = AfterRead(marker) /\ UNCHANGED <<run, signalled, requested>>
      /\ UNCHANGED <<disk, api, bounds, past>>
  BY DEF ReadMarker, Goto
<1>3. /\ pc' \in {"run", "recover", "complete", "unclean"}
      /\ pc' = "recover" => marker.state = "clean-pending"
  BY <1>2 DEF AfterRead
<1>4. TypeOK'
  <2>1. pc' \in Steps
    BY <1>3 DEF Steps
  <2> QED
    BY <1>1, <1>2, <2>1 DEF TypeOK, disk, api, bounds, past
<1>5. PhaseInv'
  BY <1>1, <1>2, <1>3 DEF PhaseInv, Serving, disk, api
<1>6. RevisionInv'
  BY <1>1, <1>2, SameRevision DEF disk, api
<1> QED
  BY <1>1, <1>2, <1>4, <1>5, <1>6 DEF Core, disk

\* What a write of the marker leaves: the old one, or the one to be written.
LEMMA WriteOutcome ==
    ASSUME NEW m, NEW o \in Outcome, WriteMarker(m, o)
    PROVE  marker' \in {marker, m} /\ (Replied(o) => marker' = m)
BY DEF WriteMarker, Outcome, Applied, Replied

LEMMA ReserveCore ==
    ASSUME Core, NEW step \in {"complete", "unclean"},
           NEW reason \in {"config-restart-startup", "unclean-recovery"}, Reserve(step, reason)
    PROVE  Core'
<1>1. PICK o \in Outcome :
        /\ pc = step /\ WriteMarker(Pending(reason), o) /\ StartupStep(o, "create")
        /\ UNCHANGED <<file, env, runs, notices>>
  BY DEF Reserve
<1>2. TypeOK /\ PhaseInv /\ marker.run <= run
  BY DEF Core
<1>3. reason \in Reasons /\ run # 0
  BY <1>1, <1>2 DEF Reasons, PhaseInv
<1>4. /\ Pending(reason) \in MarkerType /\ ValidMarker(Pending(reason))
      /\ Pending(reason).state = "clean-pending" /\ Pending(reason).run = marker.run
  BY <1>2, <1>3, MarkerWrites DEF Pending
<1>5. marker' \in {marker, Pending(reason)} /\ (Replied(o) => marker' = Pending(reason))
  BY <1>1, WriteOutcome
<1>6. marker' \in MarkerType /\ ValidMarker(marker') /\ marker'.run <= run
  BY <1>2, <1>4, <1>5 DEF TypeOK
<1>7. saves' \in 0..MaxSaves /\ ends' \in 0..MaxEnds /\ faults' \in 0..MaxFaults
  BY <1>1, <1>2, FaultType DEF WriteMarker
<1>8. notices' \subseteq Notices
  BY <1>1, <1>2 DEF TypeOK, Notices
<1> QED
  BY <1>1, <1>4, <1>5, <1>6, <1>7, <1>8, StartupCore DEF Serving

\* RecoverPending and CreateReserved: the marker stays.
LEMMA CreateCore ==
    ASSUME Core, pc \in {"recover", "create"}, NEW o \in Outcome, CreateExact(o),
           NEW next \in {"complete", "run"}, StartupStep(o, next),
           UNCHANGED <<file, env, runs, marker>>
    PROVE  Core'
<1>1. TypeOK /\ PhaseInv /\ marker.run <= run
  BY DEF Core
<1>2. notices' \subseteq Notices
  BY <1>1, CreateType DEF PhaseInv
<1>3. saves' \in 0..MaxSaves /\ ends' \in 0..MaxEnds /\ faults' \in 0..MaxFaults
  BY <1>1, FaultType DEF CreateExact
<1>4. marker' \in MarkerType /\ ValidMarker(marker') /\ marker'.run <= run
  BY <1>1 DEF TypeOK
<1> QED
  BY <1>2, <1>3, <1>4, StartupCore DEF Serving

LEMMA MarkRunningCore == Core /\ MarkRunning => Core'
<1> SUFFICES ASSUME Core, MarkRunning PROVE Core'
  OBVIOUS
<1>1. PICK o \in Outcome :
        /\ pc = "run" /\ WriteMarker(Running, o) /\ StartupStep(o, "serve")
        /\ UNCHANGED <<file, env, runs, notices>>
  BY DEF MarkRunning
<1>2. TypeOK /\ marker.run <= run /\ run \in Nat
  BY DEF Core, TypeOK
<1>3. Running \in MarkerType /\ ValidMarker(Running) /\ Running.run = run /\ run <= run
  BY <1>2, MarkerWrites DEF Running
<1>4. marker' \in {marker, Running}
  BY <1>1, WriteOutcome
<1>5. marker' \in MarkerType /\ ValidMarker(marker') /\ marker'.run <= run
  BY <1>2, <1>3, <1>4 DEF TypeOK
<1>6. saves' \in 0..MaxSaves /\ ends' \in 0..MaxEnds /\ faults' \in 0..MaxFaults
  BY <1>1, <1>2, FaultType DEF WriteMarker
<1>7. notices' \subseteq Notices
  BY <1>1, <1>2 DEF TypeOK, Notices
<1> QED
  BY <1>1, <1>5, <1>6, <1>7, StartupCore DEF Serving

LEMMA StartupKeepsCore == Core /\ Startup => Core'
<1> SUFFICES ASSUME Core, Startup PROVE Core'
  OBVIOUS
<1>1. CASE ReadMarker
  BY <1>1, ReadMarkerCore
<1>2. CASE Reserve("complete", "config-restart-startup") \/ Reserve("unclean", "unclean-recovery")
  BY <1>2, ReserveCore
<1>3. CASE RecoverPending
  <2>1. AfterRecover(marker) \in {"complete", "run"}
    BY DEF AfterRecover
  <2> QED
    BY <1>3, <2>1, CreateCore DEF RecoverPending
<1>4. CASE CreateReserved
  BY <1>4, CreateCore DEF CreateReserved
<1>5. CASE MarkRunning
  BY <1>5, MarkRunningCore
<1> QED
  BY <1>1, <1>2, <1>3, <1>4, <1>5 DEF Startup

\* A handler: main, the services and the notifications stay.
LEMMA HandlerCore ==
    ASSUME Core, UNCHANGED <<runs, notices, run, pc, signalled, startup, killed, incomplete>>,
           file' \in Configs, env' \in Configs, current' \in Configs,
           marker' \in MarkerType, ValidMarker(marker'), marker'.run = marker.run,
           op' \in {"none", "preflight", "match", "plan", "accepted"}, op' # "none" => Serving,
           marker' = marker \/ pc \notin {"recover", "create", "stopcreate", "stopclean"},
           requested' \in {"no", "sent", "taken"}, pc = "services" => requested' = "taken",
           restarting' \in BOOLEAN, plan' \in Seq(Services), accepted' \subseteq Nat,
           saves' \in 0..MaxSaves, ends' \in 0..MaxEnds, faults' \in 0..MaxFaults, RevisionInv'
    PROVE  Core'
<1>1. TypeOK /\ PhaseInv /\ marker.run <= run
  BY DEF Core
<1>2. TypeOK'
  BY <1>1 DEF TypeOK
<1>3. PhaseInv'
  BY <1>1 DEF PhaseInv, Serving
<1> QED
  BY <1>1, <1>2, <1>3 DEF Core

\* What the handlers leave alone has its type.
LEMMA CoreTypes ==
    ASSUME Core
    PROVE  /\ file \in Configs /\ env \in Configs /\ current \in Configs /\ startup \in Configs
           /\ marker \in MarkerType /\ ValidMarker(marker) /\ run \in Nat
           /\ op \in {"none", "preflight", "match", "plan", "accepted"} /\ (op # "none" => Serving)
           /\ requested \in {"no", "sent", "taken"} /\ (pc = "services" => requested = "taken")
           /\ restarting \in BOOLEAN /\ plan \in Seq(Services) /\ accepted \subseteq Nat
           /\ saves \in 0..MaxSaves /\ ends \in 0..MaxEnds /\ faults \in 0..MaxFaults
           /\ RevisionInv
BY DEF Core, TypeOK, PhaseInv

LEMMA PutCore == Core /\ Put => Core'
<1> SUFFICES ASSUME Core, Put PROVE Core'
  OBVIOUS
<1>1. PICK o \in Outcome, new \in Configs :
        /\ Serving /\ op = "none" /\ ~restarting
        /\ saves < MaxSaves /\ saves' = saves + 1
        /\ o # "ok" => faults < MaxFaults
        /\ faults' = IF o = "ok" THEN faults ELSE faults + 1
        /\ file' = IF Applied(o) THEN new ELSE file
        /\ current' = IF Replied(o) THEN new ELSE current
        /\ UNCHANGED <<env, runs, marker, notices, main, startup, restarting, op, plan, ends, past>>
  BY DEF Put
<1> USE CoreTypes
<1>2. saves' \in 0..MaxSaves /\ faults' \in 0..MaxFaults
  BY <1>1, BoundsType
<1>3. RevisionInv'
  BY <1>1 DEF RevisionInv, main
<1> QED
  BY <1>1, <1>2, <1>3, HandlerCore DEF main, past

LEMMA RestartBeginCore == Core /\ RestartBegin => Core'
<1> SUFFICES ASSUME Core, RestartBegin PROVE Core'
  OBVIOUS
<1> USE CoreTypes
<1>1. RevisionInv'
  BY DEF RestartBegin, RevisionInv, main, disk
<1> QED
  BY <1>1, ChangedType, HandlerCore DEF RestartBegin, main, disk, past, bounds

LEMMA PreflightCore == Core /\ Preflight => Core'
<1> SUFFICES ASSUME Core, Preflight PROVE Core'
  OBVIOUS
<1> USE CoreTypes
<1>1. PICK o \in Outcome :
        /\ op = "preflight"
        /\ Fault(o)
        /\ env' = IF Applied(o) THEN file ELSE env
        /\ op' = IF Replied(o) THEN "match" ELSE "none"
        /\ UNCHANGED <<file, runs, marker, notices, main, startup, current, restarting, plan, past>>
  BY DEF Preflight
<1>2. saves' \in 0..MaxSaves /\ ends' \in 0..MaxEnds /\ faults' \in 0..MaxFaults
  BY <1>1, FaultType DEF Core
<1>3. RevisionInv'
  <2>1. op' = "match" => env' = file
    BY <1>1 DEF Applied, Replied
  <2>2. requested' = "no"
    BY <1>1 DEF RevisionInv, main
  <2> QED
    BY <1>1, <2>1, <2>2 DEF RevisionInv
<1> QED
  BY <1>1, <1>2, <1>3, HandlerCore DEF main, past

LEMMA MatchRevisionCore == Core /\ MatchRevision => Core'
<1> SUFFICES ASSUME Core, MatchRevision PROVE Core'
  OBVIOUS
<1> USE CoreTypes
<1>1. RevisionInv'
  BY DEF MatchRevision, RevisionInv, main, disk, Matches
<1>2. restarting' \in BOOLEAN
  BY DEF MatchRevision, Matches
<1> QED
  BY <1>1, <1>2, HandlerCore DEF MatchRevision, main, disk, past, bounds

LEMMA PlanRestartCore == Core /\ PlanRestart => Core'
<1> SUFFICES ASSUME Core, PlanRestart PROVE Core'
  OBVIOUS
<1> USE CoreTypes
<1>1. PICK o \in Outcome :
        /\ op = "plan" /\ pc \notin {"stopcreate", "stopclean"}
        /\ IF marker.state = "running" THEN WriteMarker(Planned, o)
           ELSE WritesNothing(o)
        /\ op' = IF Replied(o) THEN "accepted" ELSE "none"
        /\ restarting' = Replied(o)
        /\ UNCHANGED <<file, env, runs, notices, main, startup, current, plan, past>>
  BY DEF PlanRestart
<1>2. saves' \in 0..MaxSaves /\ ends' \in 0..MaxEnds /\ faults' \in 0..MaxFaults
  BY <1>1, FaultType DEF Core, WriteMarker, WritesNothing, bounds
<1>3. RevisionInv'
  BY <1>1 DEF RevisionInv, main
<1>4. marker' \in MarkerType /\ ValidMarker(marker') /\ marker'.run = marker.run
  <2>1. CASE marker.state = "running"
    <3>1. marker' \in {marker, Planned}
      BY <1>1, <2>1, WriteOutcome
    <3>2. Planned \in MarkerType /\ ValidMarker(Planned)
      BY <2>1, MarkerWrites DEF Core
    <3>3. Planned.run = marker.run
      BY DEF Planned, MarkerType
    <3> QED
      BY <3>1, <3>2, <3>3
  <2>2. CASE marker.state # "running"
    BY <1>1, <2>2 DEF WritesNothing
  <2> QED
    BY <2>1, <2>2
<1>5. restarting' \in BOOLEAN
  BY <1>1 DEF Replied
<1>6. pc \notin {"recover", "create", "stopcreate", "stopclean"}
  BY <1>1 DEF Serving
<1> QED
  BY <1>1, <1>2, <1>3, <1>4, <1>5, <1>6, HandlerCore DEF main, past

LEMMA AcceptCore == Core /\ Accept => Core'
<1> SUFFICES ASSUME Core, Accept PROVE Core'
  OBVIOUS
<1> USE CoreTypes
<1>1. RevisionInv'
  BY DEF Accept, RevisionInv, disk
<1>2. Serving /\ accepted' \subseteq Nat
  BY DEF Accept
<1> QED
  BY <1>1, <1>2, HandlerCore DEF Accept, disk, bounds, Serving

\* The step that the time passes, or that a service starts by itself.
LEMMA ElapseCore == Core /\ Elapse => Core'
<1> SUFFICES ASSUME Core, Elapse PROVE Core'
  OBVIOUS
<1> USE CoreTypes
<1>1. marker' \in MarkerType /\ marker'.run = marker.run /\ marker'.state = marker.state
      /\ marker'.reason = marker.reason /\ marker'.by = marker.by /\ marker'.fresh = FALSE
  BY DEF Elapse, MarkerType
<1>2. ValidMarker(marker')
  BY <1>1 DEF ValidMarker
<1>3. RevisionInv'
  BY DEF Elapse, RevisionInv, main, api
<1> QED
  BY <1>1, <1>2, <1>3, HandlerCore DEF Elapse, main, api, bounds

LEMMA SignalCore == Core /\ Signal => Core'
<1> SUFFICES ASSUME Core, Signal PROVE Core'
  OBVIOUS
<1>1. TypeOK /\ PhaseInv /\ RevisionInv /\ marker.run <= run
  BY DEF Core
<1>2. ends' \in 0..MaxEnds /\ signalled' \in BOOLEAN
  BY <1>1, BoundsType DEF Signal, TypeOK
<1>3. TypeOK'
  BY <1>1, <1>2 DEF Signal, TypeOK, disk, api, past
<1>4. PhaseInv'
  BY <1>1 DEF Signal, PhaseInv, Serving, disk, api
<1>5. RevisionInv'
  BY <1>1, SameRevision DEF Signal, disk, api
<1> QED
  BY <1>1, <1>3, <1>4, <1>5 DEF Core, Signal, disk

LEMMA RespawnCore == ASSUME Core, NEW s \in Services, ServiceRespawn(s) PROVE Core'
<1>1. TypeOK /\ PhaseInv /\ RevisionInv /\ marker.run <= run
  BY DEF Core
<1>2. runs' \in Configs
  BY <1>1 DEF ServiceRespawn, TypeOK, Configs
<1>3. TypeOK'
  BY <1>1, <1>2 DEF ServiceRespawn, TypeOK, main, api, bounds, past
<1>4. PhaseInv'
  BY <1>1 DEF ServiceRespawn, PhaseInv, Serving, main, api
<1>5. RevisionInv'
  BY <1>1, SameRevision DEF ServiceRespawn, main, api
<1> QED
  BY <1>1, <1>3, <1>4, <1>5 DEF Core, ServiceRespawn, main

\* A step of the end of a run: the configuration stays, and the phase it goes to
\* is right.
LEMMA EndCore ==
    ASSUME Core, pc # "down",
           UNCHANGED <<file, env, run, startup, current, restarting>>,
           runs' \in Configs, marker' \in MarkerType, ValidMarker(marker'), marker'.run = marker.run,
           notices' \subseteq Notices, signalled' \in BOOLEAN, incomplete' \in BOOLEAN,
           pc' \in {"stop", "stopcreate", "stopclean", "drain", "services", "down"},
           pc' \in {"stopcreate", "stopclean"} =>
              marker'.state = "clean-pending" /\ marker'.reason \in Shutdowns,
           pc' = "services" => requested' = "taken",
           pc' \in {"services", "down"} => op' = "none",
           requested' = requested \/ (requested # "no" /\ requested' = "taken"),
           op' \in {op, "none"}, op' # "none" => Serving,
           plan' \in Seq(Services), killed' \subseteq Nat, accepted' = accepted,
           saves' \in 0..MaxSaves, ends' \in 0..MaxEnds, faults' \in 0..MaxFaults
    PROVE  Core'
<1>1. TypeOK /\ PhaseInv /\ RevisionInv /\ marker.run <= run
  BY DEF Core
<1>2. TypeOK'
  <2>1. pc' \in Steps /\ requested' \in {"no", "sent", "taken"}
    BY <1>1 DEF Steps, TypeOK
  <2> QED
    BY <1>1, <2>1 DEF TypeOK, Notices
<1>3. PhaseInv'
  BY <1>1 DEF PhaseInv, Serving
<1>4. RevisionInv'
  BY <1>1 DEF RevisionInv
<1> QED
  BY <1>1, <1>2, <1>3, <1>4 DEF Core

\* What such a step leaves alone has its type.
LEMMA EndTypes ==
    ASSUME Core
    PROVE  /\ runs \in Configs /\ env \in Configs /\ notices \subseteq Notices
           /\ signalled \in BOOLEAN /\ incomplete \in BOOLEAN /\ killed \subseteq Nat
           /\ TypeOK /\ (pc # "down" => run # 0)
BY DEF Core, TypeOK, PhaseInv, Notices

LEMMA BeginStopCore == Core /\ BeginStop => Core'
<1> SUFFICES ASSUME Core, BeginStop PROVE Core'
  OBVIOUS
<1> USE CoreTypes, EndTypes
<1>1. pc = "serve" /\ pc' = "stop"
  BY DEF BeginStop
<1>2. requested' = requested \/ (requested # "no" /\ requested' = "taken")
  BY DEF BeginStop
<1> QED
  BY <1>1, <1>2, EndCore DEF BeginStop, disk, api, bounds, past, Serving

\* A step of Lifecycle.Shutdown.
LEMMA StopStepCore ==
    ASSUME Core, pc \in {"stop", "stopcreate", "stopclean"}, NEW o \in Outcome,
           NEW next \in {"stopcreate", "stopclean", "drain"}, StopStep(o, next),
           UNCHANGED <<file, env, runs>>,
           marker' \in MarkerType, ValidMarker(marker'), marker'.run = marker.run,
           notices' \subseteq Notices,
           Replied(o) /\ next # "drain" => marker'.state = "clean-pending" /\ marker'.reason \in Shutdowns,
           saves' \in 0..MaxSaves, ends' \in 0..MaxEnds, faults' \in 0..MaxFaults
    PROVE  Core'
<1> USE CoreTypes, EndTypes
<1>1. /\ pc' = IF Replied(o) THEN next ELSE "drain"
      /\ UNCHANGED <<run, signalled, requested, api, past>>
  BY DEF StopStep, Goto
<1>2. /\ pc' \in {"stopcreate", "stopclean", "drain"}
      /\ pc' \in {"stopcreate", "stopclean"} =>
           marker'.state = "clean-pending" /\ marker'.reason \in Shutdowns
  BY <1>1
<1> QED
  BY <1>1, <1>2, EndCore DEF api, past, Serving

LEMMA StopPendingCore == Core /\ StopPending => Core'
<1> SUFFICES ASSUME Core, StopPending PROVE Core'
  OBVIOUS
<1> USE CoreTypes, EndTypes
<1>1. PICK o \in Outcome :
        /\ pc = "stop"
        /\ IF marker.state # "absent" THEN WriteMarker(Pending(StopReason(marker)), o) ELSE WritesNothing(o)
        /\ StopStep(o, "stopcreate")
        /\ UNCHANGED <<file, env, runs, notices>>
  BY DEF StopPending
<1>2. StopReason(marker) \in Shutdowns /\ StopReason(marker) \in Reasons /\ run # 0
  BY <1>1 DEF StopReason, Shutdowns, Reasons
<1>3. /\ Pending(StopReason(marker)) \in MarkerType /\ ValidMarker(Pending(StopReason(marker)))
      /\ Pending(StopReason(marker)).state = "clean-pending"
      /\ Pending(StopReason(marker)).reason \in Shutdowns
      /\ Pending(StopReason(marker)).run = marker.run
  BY <1>2, MarkerWrites DEF Pending
<1>4. /\ marker' \in {marker, Pending(StopReason(marker))}
      /\ Replied(o) => marker' = Pending(StopReason(marker))
  BY <1>1, WriteOutcome DEF WritesNothing, Replied
<1>5. saves' \in 0..MaxSaves /\ ends' \in 0..MaxEnds /\ faults' \in 0..MaxFaults
  BY <1>1, FaultType DEF WriteMarker, WritesNothing, bounds
<1> QED
  BY <1>1, <1>3, <1>4, <1>5, StopStepCore

LEMMA StopCreateCore == Core /\ StopCreate => Core'
<1> SUFFICES ASSUME Core, StopCreate PROVE Core'
  OBVIOUS
<1> USE CoreTypes, EndTypes
<1>1. PICK o \in Outcome :
        /\ pc = "stopcreate" /\ CreateExact(o) /\ StopStep(o, "stopclean")
        /\ UNCHANGED <<file, env, runs, marker>>
  BY DEF StopCreate
<1>2. marker.state = "clean-pending" /\ marker.reason \in Shutdowns
  BY <1>1 DEF Core, PhaseInv
<1>3. notices' \subseteq Notices
  BY <1>1, <1>2, CreateType
<1>4. saves' \in 0..MaxSaves /\ ends' \in 0..MaxEnds /\ faults' \in 0..MaxFaults
  BY <1>1, FaultType DEF CreateExact
<1> QED
  BY <1>1, <1>2, <1>3, <1>4, StopStepCore

LEMMA StopCleanCore == Core /\ StopClean => Core'
<1> SUFFICES ASSUME Core, StopClean PROVE Core'
  OBVIOUS
<1> USE CoreTypes, EndTypes
<1>1. PICK o \in Outcome :
        /\ pc = "stopclean" /\ WriteMarker(Clean, o) /\ StopStep(o, "drain")
        /\ UNCHANGED <<file, env, runs, notices>>
  BY DEF StopClean
<1>2. marker.state = "clean-pending" /\ marker.reason \in Shutdowns
  BY <1>1 DEF Core, PhaseInv
<1>3. Clean \in MarkerType /\ ValidMarker(Clean)
  BY <1>2, MarkerWrites
<1>4. Clean.run = marker.run
  BY DEF Clean, MarkerType
<1>5. marker' \in {marker, Clean}
  BY <1>1, WriteOutcome
<1>6. saves' \in 0..MaxSaves /\ ends' \in 0..MaxEnds /\ faults' \in 0..MaxFaults
  BY <1>1, FaultType DEF WriteMarker
<1> QED
  BY <1>1, <1>3, <1>4, <1>5, <1>6, StopStepCore

LEMMA DrainCore == Core /\ Drain => Core'
<1> SUFFICES ASSUME Core, Drain PROVE Core'
  OBVIOUS
<1> USE CoreTypes, EndTypes
<1>1. /\ pc = "drain" /\ pc' = IF requested = "taken" THEN "services" ELSE "down"
      /\ op' = IF requested = "taken" THEN op ELSE "none"
      /\ UNCHANGED <<run, signalled, requested>>
      /\ UNCHANGED <<disk, startup, current, restarting, plan, bounds, past>>
  BY DEF Drain, Goto
<1>2. op' = "none"
  BY <1>1 DEF RevisionInv
<1>3. pc' \in {"services", "down"} /\ (pc' = "services" => requested' = "taken")
  BY <1>1
<1> QED
  BY <1>1, <1>2, <1>3, EndCore DEF disk, bounds, past

LEMMA RestartServiceCore == Core /\ RestartService => Core'
<1> SUFFICES ASSUME Core, RestartService PROVE Core'
  OBVIOUS
<1> USE CoreTypes, EndTypes
<1>1. PICK o \in Outcome :
        /\ pc = "services"
        /\ IF plan = <<>>
           THEN o = "ok" /\ UNCHANGED <<runs, plan, bounds>> /\ Goto("down")
           ELSE /\ Fault(o)
                /\ runs' = IF Applied(o) THEN [runs EXCEPT ![Head(plan)] = env[Head(plan)]] ELSE runs
                /\ plan' = AfterService(plan)
                /\ Goto(IF Replied(o) THEN "services" ELSE "down")
        /\ UNCHANGED <<file, env, marker, notices, startup, current, restarting, op, past>>
  BY DEF RestartService
<1>2. op = "none" /\ requested = "taken"
  BY <1>1 DEF Core, PhaseInv, Serving
<1>3. pc' \in {"services", "down"} /\ UNCHANGED <<run, signalled, requested>>
  BY <1>1 DEF Goto
<1>4. CASE plan = <<>>
  BY <1>1, <1>2, <1>3, <1>4, EndCore DEF bounds, past
<1>5. CASE plan # <<>>
  <2>1. Head(plan) \in Services /\ plan' \in Seq(Services)
    BY <1>1, <1>5 DEF AfterService
  <2>2. runs' \in Configs
    BY <1>1, <1>5, <2>1 DEF Configs
  <2>3. saves' \in 0..MaxSaves /\ ends' \in 0..MaxEnds /\ faults' \in 0..MaxFaults
    BY <1>1, <1>5, FaultType
  <2> QED
    BY <1>1, <1>2, <1>3, <2>1, <2>2, <2>3, EndCore DEF past
<1> QED
  BY <1>4, <1>5

LEMMA CrashCore == Core /\ Crash => Core'
<1> SUFFICES ASSUME Core, Crash PROVE Core'
  OBVIOUS
<1> USE CoreTypes, EndTypes
<1>1. pc # "down" /\ pc' = "down" /\ op' = "none" /\ killed' \in {killed, killed \cup {run}}
  BY DEF Crash
<1>2. ends' \in 0..MaxEnds
  BY BoundsType DEF Crash
<1>3. killed' \subseteq Nat
  BY <1>1
<1> QED
  BY <1>1, <1>2, <1>3, EndCore DEF Crash, disk

LEMMA NextCore == Core /\ [Next]_vars => Core'
<1> SUFFICES ASSUME Core, [Next]_vars PROVE Core'
  OBVIOUS
<1>1. CASE Main
  BY <1>1, BootCore, StartupKeepsCore, BeginStopCore, StopPendingCore, StopCreateCore,
     StopCleanCore, DrainCore, RestartServiceCore DEF Main
<1>2. CASE Handlers \/ Put \/ RestartBegin
  BY <1>2, PreflightCore, MatchRevisionCore, PlanRestartCore, AcceptCore, PutCore,
     RestartBeginCore DEF Handlers
<1>3. CASE Signal \/ Crash \/ Elapse \/ \E s \in Services : ServiceRespawn(s)
  BY <1>3, SignalCore, CrashCore, ElapseCore, RespawnCore
<1>4. CASE UNCHANGED vars
  BY <1>4 DEF vars, disk, main, api, bounds, past, Core, TypeOK, PhaseInv, RevisionInv, Serving
<1> QED
  BY <1>1, <1>2, <1>3, <1>4 DEF Next

\* What is restarted starts with the configuration that was accepted
\* (RestartsWithAccepted): from the check of the file under operationMu
\* (api.go:297-303) to the coordinator (main.go:839-845), no save and no other
\* preflight comes between, whatever failed before and wherever the process ended.
THEOREM RestartsWithAcceptedAlways == Spec => []RestartsWithAccepted
<1>1. Core => RestartsWithAccepted
  BY DEF Core, PhaseInv, RevisionInv, RestartsWithAccepted
<1> QED
  BY InitCore, NextCore, <1>1, PTL DEF Spec

-----------------------------------------------------------------------------
(* What is reported, as long as no Startup returned an error.  A run has   *)
(* its entry in the marker until the next one has written its own, and     *)
(* what the notifications say of it goes with the state of that entry.     *)

Ends == Shutdowns \cup {"unclean-recovery"}
Created == Reserved(marker) \in notices
StartupPcs == {"read", "recover", "complete", "unclean", "create", "run"}

\* Where the marker is at each step of main: of an earlier run until this one
\* has written its own, and the step decided by its state.
PlaceInv ==
    /\ pc \in StartupPcs => marker.run < run
    /\ pc = "complete" =>
          \/ marker.state = "planned-restart" /\ marker.fresh
          \/ marker.state = "clean" /\ marker.reason = "config-restart"
          \/ marker.state = "clean-pending" /\ marker.reason = "config-restart" /\ Created
    /\ pc = "unclean" =>
          \/ marker.state = "running"
          \/ marker.state = "planned-restart" /\ ~marker.fresh
    /\ pc = "create" => marker.reason \in {"config-restart-startup", "unclean-recovery"}
    /\ pc = "run" =>
          \/ marker.state = "absent"
          \/ marker.state = "clean" /\ marker.reason # "config-restart"
          \/ marker.state = "clean-pending" /\ marker.reason # "config-restart" /\ Created
    /\ Serving => marker.run = run
    /\ pc \in {"serve", "stop"} => marker.state \in {"running", "planned-restart"}
    /\ pc = "stopclean" => Created
    /\ marker.state = "clean" => Created

\* A run ends once and is started over once, and what is said of the run in the
\* marker is what is reserved there, or was on the way to it.
NoticesInv ==
    /\ \A n \in notices : n.run <= marker.run
    /\ \A n1, n2 \in notices :
          n1.run = n2.run /\ n1.reason \in Ends /\ n2.reason \in Ends => n1 = n2
    /\ \A n1, n2 \in notices :
          n1.run = n2.run /\ n1.reason = "config-restart-startup"
             /\ n2.reason = "config-restart-startup" => n1 = n2
    /\ \A n \in notices : n.run = marker.run =>
          /\ n.reason \in Ends =>
                /\ marker.state \in {"clean-pending", "clean"}
                /\ marker.reason \in Ends => n = Reserved(marker)
          /\ n.reason = "config-restart-startup" =>
                marker.state = "clean-pending" /\ n = Reserved(marker)
          /\ n.reason = "config-restart" =>
                marker.reason \in {"config-restart", "config-restart-startup"}
    /\ \A n \in notices : n.reason = "config-restart" /\ n.run < marker.run =>
          About(n.run, {"config-restart-startup"}) # {}

\* A run that was killed is reported, or its entry still says what will be.
KilledInv ==
    /\ \A r \in killed : r <= marker.run /\ (r < marker.run => About(r, {"unclean-recovery"}) # {})
    /\ marker.run \in killed =>
          \/ marker.state = "running"
          \/ marker.state = "clean-pending" /\ marker.reason = "unclean-recovery"
    /\ pc # "down" => run \notin killed

Promised == accepted \cup {r \in {run} : op = "accepted"}

\* A run that accepted a restart, or is about to, has a plan in its entry or what
\* came of the plan.
AcceptedInv ==
    \A r \in Promised :
        /\ r <= marker.run
        /\ About(r, {"unclean-recovery", "container-stop"}) = {}
        /\ r = marker.run =>
              \/ marker.state = "planned-restart" /\ marker.fresh
              \/ /\ marker.state \in {"clean-pending", "clean"}
                 /\ marker.reason \in {"config-restart", "config-restart-startup"}

Report == PlaceInv /\ NoticesInv /\ KilledInv /\ AcceptedInv

Inv == Core /\ (~incomplete => Report)

-----------------------------------------------------------------------------
(* How the notifications stay consistent with the marker.                  *)

\* Every reason is that of an end or of a start after a restart.
LEMMA ReasonsSplit ==
    ASSUME TypeOK, NEW n \in notices
    PROVE  n.reason \in Ends \/ n.reason = "config-restart-startup"
BY DEF TypeOK, Reasons, Ends

\* Of a run whose entry says that it runs, nothing was said.
LEMMA NothingSaid ==
    ASSUME TypeOK, NoticesInv, marker.state \in {"running", "planned-restart", "absent"}
    PROVE  \A n \in notices : n.run # marker.run
BY ReasonsSplit DEF NoticesInv

LEMMA NumbersType ==
    ASSUME TypeOK
    PROVE  /\ marker.run \in Nat /\ run \in Nat /\ killed \subseteq Nat /\ accepted \subseteq Nat
           /\ \A n \in notices : n.run \in Nat
BY DEF TypeOK, MarkerType

\* The marker changes only what the notifications do not depend on.
LEMMA SameEntry ==
    ASSUME NoticesInv, UNCHANGED notices, marker'.run = marker.run, marker'.state = marker.state,
           marker'.reason = marker.reason, marker'.by = marker.by
    PROVE  NoticesInv'
BY DEF NoticesInv, About, Reserved

\* The state of an entry changes before anything is said of its run.
LEMMA EntryBeforeNotice ==
    ASSUME TypeOK, NoticesInv, UNCHANGED notices, marker'.run = marker.run,
           marker.state \in {"running", "planned-restart"}
    PROVE  NoticesInv'
BY NothingSaid DEF NoticesInv, About

\* The reserved notification is created.
LEMMA ReservedCreated ==
    ASSUME TypeOK, NoticesInv, UNCHANGED marker, marker.state = "clean-pending",
           notices' \in {notices, notices \cup {Reserved(marker)}}
    PROVE  NoticesInv'
<1> DEFINE new == Reserved(marker)
<1>1. new.run = marker.run /\ new.reason = marker.reason
  BY DEF Reserved
<1>2. \A n \in notices' : n \in notices \/ n = new
  OBVIOUS
<1>3. \A n \in notices : n.run = new.run =>
         /\ n.reason \in Ends /\ new.reason \in Ends => n = new
         /\ n.reason = "config-restart-startup" => n = new
  BY <1>1 DEF NoticesInv
<1> HIDE DEF new
<1>4. \A n \in notices' : n.run <= marker'.run
  BY <1>1, <1>2, NumbersType DEF NoticesInv
<1>5. \A n1, n2 \in notices' :
         n1.run = n2.run /\ n1.reason \in Ends /\ n2.reason \in Ends => n1 = n2
  BY <1>2, <1>3 DEF NoticesInv
<1>6. \A n1, n2 \in notices' :
         n1.run = n2.run /\ n1.reason = "config-restart-startup"
            /\ n2.reason = "config-restart-startup" => n1 = n2
  BY <1>2, <1>3 DEF NoticesInv
<1>7. \A n \in notices' : n.run = marker'.run =>
         /\ n.reason \in Ends =>
               /\ marker'.state \in {"clean-pending", "clean"}
               /\ marker'.reason \in Ends => n = new
         /\ n.reason = "config-restart-startup" => marker'.state = "clean-pending" /\ n = new
         /\ n.reason = "config-restart" =>
               marker'.reason \in {"config-restart", "config-restart-startup"}
  BY <1>1, <1>2, <1>3 DEF NoticesInv
<1>8. \A n \in notices' : n.reason = "config-restart" /\ n.run < marker'.run =>
         About(n.run, {"config-restart-startup"})' # {}
  <2> SUFFICES ASSUME NEW n \in notices', n.reason = "config-restart", n.run < marker'.run
               PROVE  About(n.run, {"config-restart-startup"})' # {}
    OBVIOUS
  <2>1. n \in notices
    BY <1>1, <1>2, NumbersType
  <2>2. About(n.run, {"config-restart-startup"}) # {}
    BY <2>1 DEF NoticesInv
  <2> QED
    BY <2>2 DEF About
<1> QED
  BY <1>4, <1>5, <1>6, <1>7, <1>8 DEF NoticesInv, new

-----------------------------------------------------------------------------
(* Steps that write neither the marker nor a notification.                 *)

LEMMA SameAccepted ==
    ASSUME AcceptedInv, UNCHANGED <<marker, notices>>, Promised' \subseteq Promised
    PROVE  AcceptedInv'
BY DEF AcceptedInv, About

LEMMA SameKilled ==
    ASSUME KilledInv, UNCHANGED <<marker, notices, killed, run>>, pc' = "down" \/ pc # "down"
    PROVE  KilledInv'
BY DEF KilledInv, About

LEMMA SameNotices == ASSUME NoticesInv, UNCHANGED <<marker, notices>> PROVE NoticesInv'
BY DEF NoticesInv, About, Reserved

\* A handler that does not write the marker.
LEMMA QuietReport ==
    ASSUME Report, UNCHANGED <<marker, notices, killed, run, pc>>, Promised' \subseteq Promised
    PROVE  Report'
<1>1. PlaceInv'
  BY DEF Report, PlaceInv, Created, Reserved, Serving, StartupPcs
<1>2. KilledInv'
  BY SameKilled DEF Report
<1> QED
  BY <1>1, <1>2, SameNotices, SameAccepted DEF Report

\* main goes on to a step whose marker is right.
LEMMA MoveReport ==
    ASSUME Report, UNCHANGED <<marker, notices>>, Promised' \subseteq Promised, PlaceInv', KilledInv'
    PROVE  Report'
BY SameNotices, SameAccepted DEF Report

LEMMA HandlerReport ==
    ASSUME Core, Report,
           \/ Put \/ RestartBegin \/ Preflight \/ MatchRevision \/ Accept \/ Signal
           \/ \E s \in Services : ServiceRespawn(s)
    PROVE  Report'
<1>1. CASE Put
  <2>1. UNCHANGED <<marker, notices, killed, run, pc, op, accepted>>
    BY <1>1 DEF Put, main, past
  <2> QED
    BY <2>1, QuietReport DEF Promised
<1>2. CASE RestartBegin
  <2>1. UNCHANGED <<marker, notices, killed, run, pc, accepted>> /\ op' = "preflight"
    BY <1>2 DEF RestartBegin, main, past, disk
  <2> QED
    BY <2>1, QuietReport DEF Promised
<1>3. CASE Preflight
  <2>1. UNCHANGED <<marker, notices, killed, run, pc, accepted>> /\ op' # "accepted"
    BY <1>3 DEF Preflight, main, past
  <2> QED
    BY <2>1, QuietReport DEF Promised
<1>4. CASE MatchRevision
  <2>1. UNCHANGED <<marker, notices, killed, run, pc, accepted>> /\ op' # "accepted"
    BY <1>4 DEF MatchRevision, main, past, disk
  <2> QED
    BY <2>1, QuietReport DEF Promised
<1>5. CASE Accept
  <2>1. /\ UNCHANGED <<marker, notices, killed, run, pc>> /\ op = "accepted" /\ op' = "none"
        /\ accepted' = accepted \cup {run}
    BY <1>5 DEF Accept, disk
  <2> QED
    BY <2>1, QuietReport DEF Promised
<1>6. CASE Signal
  <2>1. UNCHANGED <<marker, notices, killed, run, pc, op, accepted>>
    BY <1>6 DEF Signal, disk, api, past
  <2> QED
    BY <2>1, QuietReport DEF Promised
<1>7. CASE \E s \in Services : ServiceRespawn(s)
  <2>1. UNCHANGED <<marker, notices, killed, run, pc, op, accepted>>
    BY <1>7 DEF ServiceRespawn, main, api, past
  <2> QED
    BY <2>1, QuietReport DEF Promised
<1> QED
  BY <1>1, <1>2, <1>3, <1>4, <1>5, <1>6, <1>7

LEMMA BootReport == ASSUME Core, Report, Boot PROVE Report'
<1>1. TypeOK /\ marker.run <= run
  BY DEF Core
<1>2. /\ run' = run + 1 /\ pc' = "read" /\ op' = "none"
      /\ UNCHANGED <<marker, notices, killed, accepted>>
  BY DEF Boot, past
<1>3. marker'.run < run'
  BY <1>1, <1>2, NumbersType
<1>4. PlaceInv'
  BY <1>2, <1>3 DEF Report, PlaceInv, Serving, Created, Reserved
<1>5. KilledInv'
  <2>1. \A r \in killed : r <= marker.run /\ r \in Nat
    BY <1>1, NumbersType DEF Report, KilledInv
  <2>2. run' \notin killed'
    BY <1>1, <1>2, <2>1, NumbersType
  <2> QED
    BY <1>2, <2>2 DEF Report, KilledInv, About
<1>6. Promised' \subseteq Promised
  BY <1>2 DEF Promised
<1> QED
  BY <1>2, <1>4, <1>5, <1>6, MoveReport

LEMMA ReadMarkerReport == ASSUME Core, Report, ReadMarker PROVE Report'
<1>1. /\ pc = "read" /\ pc' = AfterRead(marker)
      /\ UNCHANGED <<marker, notices, killed, run, op, accepted>>
  BY DEF ReadMarker, Goto, disk, api, past
<1>2. marker.state \in {"absent", "running", "planned-restart", "clean-pending", "clean"}
  BY DEF Core, TypeOK, MarkerType
<1>3. PlaceInv'
  BY <1>1, <1>2 DEF AfterRead, Report, PlaceInv, Serving, StartupPcs, Created, Reserved
<1>4. KilledInv'
  BY <1>1, SameKilled DEF Report
<1> QED
  BY <1>1, <1>3, <1>4, MoveReport DEF Promised

LEMMA EndReport == ASSUME Core, Report, BeginStop \/ Drain \/ RestartService PROVE Report'
<1>1. UNCHANGED <<marker, notices, killed, run, accepted>> /\ op' \in {op, "none"}
  BY DEF BeginStop, Drain, RestartService, Goto, disk, api, past
<1>2. \/ pc = "serve" /\ pc' = "stop"
      \/ pc = "drain" /\ pc' \in {"services", "down"}
      \/ pc = "services" /\ pc' \in {"services", "down"}
  BY DEF BeginStop, Drain, RestartService, Goto
<1>3. PlaceInv'
  BY <1>1, <1>2 DEF Report, PlaceInv, Serving, StartupPcs, Created, Reserved
<1>4. KilledInv'
  BY <1>1, <1>2, SameKilled DEF Report
<1> QED
  BY <1>1, <1>3, <1>4, MoveReport DEF Promised

LEMMA CrashReport == ASSUME Core, Report, Crash PROVE Report'
<1>1. /\ pc # "down" /\ pc' = "down" /\ op' = "none"
      /\ killed' = IF marker = Running THEN killed \cup {run} ELSE killed
      /\ UNCHANGED <<marker, notices, run, accepted>>
  BY DEF Crash, disk
<1>2. PlaceInv'
  BY <1>1 DEF Report, PlaceInv, Serving, StartupPcs, Created, Reserved
<1>3. KilledInv'
  <2>1. CASE marker = Running
    <3>1. marker.run = run /\ marker.state = "running"
      BY <2>1 DEF Running
    <3>2. ~(run < marker.run) /\ run <= marker.run
      BY <3>1, NumbersType DEF Core
    <3> QED
      BY <1>1, <2>1, <3>1, <3>2 DEF Report, KilledInv, About
  <2>2. CASE marker # Running
    BY <1>1, <2>2, SameKilled DEF Report
  <2> QED
    BY <2>1, <2>2
<1> QED
  BY <1>1, <1>2, <1>3, MoveReport DEF Promised

-----------------------------------------------------------------------------
(* Steps that write the marker.                                            *)

\* The entry stays that of the same run.
LEMMA WrittenAccepted ==
    ASSUME AcceptedInv, UNCHANGED notices, marker'.run = marker.run, Promised' \subseteq Promised,
           marker.run \in Promised' =>
              \/ marker'.state = "planned-restart" /\ marker'.fresh
              \/ /\ marker'.state \in {"clean-pending", "clean"}
                 /\ marker'.reason \in {"config-restart", "config-restart-startup"}
    PROVE  AcceptedInv'
BY DEF AcceptedInv, About

LEMMA WrittenKilled ==
    ASSUME KilledInv, UNCHANGED <<notices, killed, run>>, marker'.run = marker.run,
           pc' = "down" \/ pc # "down",
           marker.run \in killed =>
              \/ marker'.state = "running"
              \/ marker'.state = "clean-pending" /\ marker'.reason = "unclean-recovery"
    PROVE  KilledInv'
BY DEF KilledInv, About

LEMMA ElapseReport == ASSUME Core, Report, Elapse PROVE Report'
<1>1. marker \in MarkerType /\ ValidMarker(marker)
  BY DEF Core, TypeOK
<1>2. /\ marker.state = "planned-restart" /\ marker'.state = "planned-restart"
      /\ marker'.run = marker.run /\ marker'.reason = marker.reason /\ marker'.by = marker.by
  BY <1>1 DEF Elapse, MarkerType, ValidMarker
<1>3. UNCHANGED <<notices, killed, run, pc, op>> /\ pc \in {"down", "serve"}
  BY DEF Elapse, main, api
<1>4. PlaceInv'
  BY <1>2, <1>3 DEF Report, PlaceInv, Serving, StartupPcs
<1>5. NoticesInv'
  BY <1>2, <1>3, SameEntry DEF Report
<1>6. KilledInv'
  BY <1>2, <1>3, WrittenKilled DEF Report, KilledInv
<1>7. AcceptedInv'
  <2>1. op # "accepted"
    BY DEF Elapse, Core, PhaseInv, RevisionInv, Serving
  <2>2. Promised' \subseteq Promised /\ marker.run \notin Promised'
    BY <1>3, <2>1 DEF Elapse, Promised
  <2> QED
    BY <1>2, <1>3, <2>2, WrittenAccepted DEF Report
<1> QED
  BY <1>4, <1>5, <1>6, <1>7 DEF Report

LEMMA PlanRestartReport == ASSUME Core, Report, PlanRestart PROVE Report'
<1>1. PICK o \in Outcome :
        /\ op = "plan" /\ pc \notin {"stopcreate", "stopclean"}
        /\ IF marker.state = "running" THEN WriteMarker(Planned, o) ELSE WritesNothing(o)
        /\ op' = IF Replied(o) THEN "accepted" ELSE "none"
        /\ UNCHANGED <<notices, main, past>>
  BY DEF PlanRestart
<1>2. UNCHANGED <<notices, run, pc, killed, accepted>> /\ Serving /\ marker.run = run
  BY <1>1 DEF main, past, Core, PhaseInv, Report, PlaceInv
<1>3. Promised' \subseteq accepted \cup {run} /\ accepted \subseteq Promised
  BY <1>2 DEF Promised
<1>4. CASE marker.state = "running"
  <2>1. marker' \in {marker, Planned} /\ (Replied(o) => marker' = Planned)
    BY <1>1, <1>4, WriteOutcome
  <2>2. /\ Planned.state = "planned-restart" /\ Planned.run = marker.run
        /\ Planned.reason = "config-restart" /\ Planned.fresh = TRUE
    BY DEF Core, TypeOK, Planned, MarkerType
  <2>3. marker'.run = marker.run /\ marker'.state \in {"running", "planned-restart"}
    BY <1>4, <2>1, <2>2
  <2>4. PlaceInv'
    BY <1>1, <1>2, <2>3 DEF Report, PlaceInv, Serving, StartupPcs
  <2>5. NoticesInv'
    BY <1>2, <1>4, <2>3, EntryBeforeNotice DEF Report, Core
  <2>6. KilledInv'
    <3>1. marker.run \notin killed /\ pc # "down"
      BY <1>2 DEF Report, KilledInv, Serving
    <3> QED
      BY <1>2, <2>3, <3>1, WrittenKilled DEF Report
  <2>7. AcceptedInv'
    <3>1. marker.run \notin accepted
      BY <1>3, <1>4 DEF Report, AcceptedInv
    <3>2. About(run, {"unclean-recovery", "container-stop"})' = {}
      BY <1>2, <1>4, NothingSaid DEF Core, Report, About
    <3>3. \A r \in accepted : r <= marker.run /\ About(r, {"unclean-recovery", "container-stop"}) = {}
      BY <1>3 DEF Report, AcceptedInv
    <3>4. Promised' \subseteq accepted \/ Replied(o)
      BY <1>1, <1>2 DEF Promised
    <3>5. run <= run
      BY NumbersType DEF Core
    <3> QED
      BY <1>2, <1>3, <2>1, <2>2, <2>3, <3>1, <3>2, <3>3, <3>4, <3>5 DEF AcceptedInv, About
  <2> QED
    BY <2>4, <2>5, <2>6, <2>7 DEF Report
<1>5. CASE marker.state # "running"
  <2>1. UNCHANGED marker /\ op' = "none"
    BY <1>1, <1>5 DEF WritesNothing, Replied
  <2> QED
    BY <1>2, <2>1, QuietReport DEF Promised
<1> QED
  BY <1>4, <1>5

LEMMA StopPendingReport == ASSUME Core, Report, StopPending PROVE Report'
<1>1. PICK o \in Outcome :
        /\ pc = "stop"
        /\ IF marker.state # "absent" THEN WriteMarker(Pending(StopReason(marker)), o) ELSE WritesNothing(o)
        /\ StopStep(o, "stopcreate")
        /\ UNCHANGED <<file, env, runs, notices>>
  BY DEF StopPending
<1>2. /\ pc' \in {"stopcreate", "drain"} /\ UNCHANGED <<notices, run, killed, op, accepted>>
      /\ Serving /\ marker.run = run /\ marker.state \in {"running", "planned-restart"}
  BY <1>1 DEF StopStep, Goto, api, past, Report, PlaceInv, Serving
<1>3. marker' \in {marker, Pending(StopReason(marker))}
  BY <1>1, <1>2, WriteOutcome
<1>4. /\ Pending(StopReason(marker)).state = "clean-pending"
      /\ Pending(StopReason(marker)).run = marker.run
      /\ Pending(StopReason(marker)).reason = StopReason(marker)
  BY DEF Pending
<1>5. marker'.run = marker.run /\ marker'.state # "clean"
  BY <1>2, <1>3, <1>4
<1>6. PlaceInv'
  BY <1>2, <1>5 DEF PlaceInv, Serving, StartupPcs
<1>7. NoticesInv'
  BY <1>2, <1>5, EntryBeforeNotice DEF Core, Report
<1>8. KilledInv'
  <2>1. marker.run \notin killed /\ pc # "down"
    BY <1>1, <1>2 DEF Report, KilledInv
  <2> QED
    BY <1>2, <1>5, <2>1, WrittenKilled DEF Report
<1>9. AcceptedInv'
  <2>1. Promised' \subseteq Promised
    BY <1>2 DEF Promised
  <2>2. marker.run \in Promised => marker.state = "planned-restart" /\ marker.fresh
    BY <1>2 DEF Report, AcceptedInv
  <2>3. marker.run \in Promised => StopReason(marker) = "config-restart"
    BY <2>2 DEF StopReason
  <2> QED
    BY <1>2, <1>3, <1>4, <1>5, <2>1, <2>2, <2>3, WrittenAccepted DEF Report
<1> QED
  BY <1>6, <1>7, <1>8, <1>9 DEF Report

LEMMA StopCleanReport == ASSUME Core, Report, StopClean PROVE Report'
<1>1. PICK o \in Outcome :
        /\ pc = "stopclean" /\ WriteMarker(Clean, o) /\ StopStep(o, "drain")
        /\ UNCHANGED <<file, env, runs, notices>>
  BY DEF StopClean
<1>2. /\ pc' = "drain" /\ UNCHANGED <<notices, run, killed, op, accepted>>
      /\ marker.run = run /\ Created
      /\ marker.state = "clean-pending" /\ marker.reason \in Shutdowns
  BY <1>1 DEF StopStep, Goto, api, past, Core, PhaseInv, Report, PlaceInv, Serving
<1>3. marker' \in {marker, Clean}
  BY <1>1, WriteOutcome
<1>4. /\ Clean.state = "clean" /\ Clean.run = marker.run
      /\ Clean.reason = marker.reason /\ Clean.by = marker.by
  BY DEF Core, TypeOK, Clean, MarkerType
<1>5. /\ marker'.run = marker.run /\ marker'.reason = marker.reason /\ marker'.by = marker.by
      /\ marker'.state \in {"clean-pending", "clean"}
  BY <1>2, <1>3, <1>4
<1>6. Created'
  BY <1>2, <1>5 DEF Created, Reserved
<1>7. PlaceInv'
  BY <1>2, <1>5, <1>6 DEF PlaceInv, Serving, StartupPcs
<1>8. NoticesInv'
  <2>1. Reserved(marker)' = Reserved(marker)
    BY <1>5 DEF Reserved
  <2>2. \A n \in notices : n.run = marker.run => n.reason # "config-restart-startup"
    BY <1>2 DEF Report, NoticesInv, Reserved, Shutdowns
  <2> QED
    BY <1>2, <1>5, <2>1, <2>2 DEF Report, NoticesInv, About
<1>9. KilledInv'
  <2>1. marker.run \notin killed /\ pc # "down"
    BY <1>1, <1>2 DEF Report, KilledInv
  <2> QED
    BY <1>2, <1>5, <2>1, WrittenKilled DEF Report
<1>10. AcceptedInv'
  <2>1. Promised' = Promised
    BY <1>2 DEF Promised
  <2> QED
    BY <1>2, <1>5, <2>1, WrittenAccepted DEF Report, AcceptedInv
<1> QED
  BY <1>7, <1>8, <1>9, <1>10 DEF Report

\* A reservation at the start of a run, answered.
LEMMA ReserveReport ==
    ASSUME Core, Report, NEW step, NEW reason, Reserve(step, reason), ~incomplete',
           \/ step = "complete" /\ reason = "config-restart-startup"
           \/ step = "unclean" /\ reason = "unclean-recovery"
    PROVE  Report'
<1>1. PICK o \in Outcome :
        /\ pc = step /\ WriteMarker(Pending(reason), o) /\ StartupStep(o, "create")
        /\ UNCHANGED <<file, env, runs, notices>>
  BY DEF Reserve
<1>2. Replied(o) /\ pc' = "create" /\ UNCHANGED <<notices, run, killed, op, accepted>>
  BY <1>1 DEF StartupStep, Goto, api
<1>3. marker' = Pending(reason)
  BY <1>1, <1>2, WriteOutcome
<1>4. /\ marker'.state = "clean-pending" /\ marker'.run = marker.run
      /\ marker'.reason = reason /\ marker.run < run
  BY <1>1, <1>3 DEF Pending, Report, PlaceInv, StartupPcs
<1>5. PlaceInv'
  BY <1>2, <1>4 DEF PlaceInv, Serving
<1>6. CASE step = "complete"
  <2>1. \/ marker.state = "planned-restart" /\ marker.fresh
        \/ marker.state \in {"clean", "clean-pending"} /\ marker.reason = "config-restart"
    BY <1>1, <1>6 DEF Report, PlaceInv
  <2>2. NoticesInv'
    <3>1. CASE marker.state = "planned-restart"
      BY <1>2, <1>4, <3>1, EntryBeforeNotice DEF Core, Report
    <3>2. CASE marker.state \in {"clean", "clean-pending"} /\ marker.reason = "config-restart"
      <4>1. reason = "config-restart-startup" /\ reason \notin Ends
        BY <1>6 DEF Ends, Shutdowns
      <4>2. \A n \in notices : n.run = marker.run => n.reason # "config-restart-startup"
        BY <3>2 DEF Report, NoticesInv, Reserved
      <4> QED
        BY <1>2, <1>4, <4>1, <4>2 DEF Report, NoticesInv, About
    <3> QED
      BY <2>1, <3>1, <3>2
  <2>3. KilledInv'
    <3>1. marker.run \notin killed
      BY <2>1 DEF Report, KilledInv
    <3> QED
      BY <1>1, <1>2, <1>4, <3>1, WrittenKilled DEF Report
  <2>4. AcceptedInv'
    <3>1. Promised' = Promised
      BY <1>2 DEF Promised
    <3> QED
      BY <1>2, <1>4, <1>6, <3>1, WrittenAccepted DEF Report
  <2> QED
    BY <1>5, <2>2, <2>3, <2>4 DEF Report
<1>7. CASE step = "unclean"
  <2>1. \/ marker.state = "running"
        \/ marker.state = "planned-restart" /\ ~marker.fresh
    BY <1>1, <1>7 DEF Report, PlaceInv
  <2>2. NoticesInv'
    BY <1>2, <1>4, <2>1, EntryBeforeNotice DEF Core, Report
  <2>3. KilledInv'
    BY <1>1, <1>2, <1>4, <1>7, WrittenKilled DEF Report
  <2>4. AcceptedInv'
    <3>1. Promised' = Promised
      BY <1>2 DEF Promised
    <3>2. marker.run \notin Promised
      BY <2>1 DEF Report, AcceptedInv
    <3> QED
      BY <1>2, <1>4, <3>1, <3>2, WrittenAccepted DEF Report
  <2> QED
    BY <1>5, <2>2, <2>3, <2>4 DEF Report
<1> QED
  BY <1>6, <1>7

-----------------------------------------------------------------------------
(* Steps that create the reserved notification.                            *)

LEMMA CreatedReport ==
    ASSUME Core, Report, marker.state = "clean-pending", NEW o \in Outcome, CreateExact(o),
           UNCHANGED <<marker, killed, run, op, accepted>>, pc # "down", PlaceInv'
    PROVE  Report'
<1>1. notices' \in {notices, notices \cup {Reserved(marker)}} /\ notices \subseteq notices'
  BY DEF CreateExact
<1>2. NoticesInv'
  BY <1>1, ReservedCreated DEF Core, Report
<1>3. KilledInv'
  <2>1. \A r : About(r, {"unclean-recovery"}) \subseteq About(r, {"unclean-recovery"})'
    BY <1>1 DEF About
  <2> QED
    BY <2>1 DEF Report, KilledInv
<1>4. AcceptedInv'
  <2>1. Promised' = Promised
    BY DEF Promised
  <2>2. Reserved(marker).run = marker.run /\ Reserved(marker).reason = marker.reason
    BY DEF Reserved
  <2>3. ASSUME NEW r \in Promised PROVE About(r, {"unclean-recovery", "container-stop"})' = {}
    <3>1. About(r, {"unclean-recovery", "container-stop"}) = {}
      BY DEF Report, AcceptedInv
    <3>2. r = marker.run => marker.reason \notin {"unclean-recovery", "container-stop"}
      BY DEF Report, AcceptedInv
    <3> QED
      BY <1>1, <2>2, <3>1, <3>2 DEF About
  <2> QED
    BY <2>1, <2>3 DEF Report, AcceptedInv
<1> QED
  BY <1>2, <1>3, <1>4 DEF Report

\* What was answered is created.
LEMMA CreatedNow == ASSUME NEW o, CreateExact(o), Replied(o), UNCHANGED marker PROVE Created'
BY DEF CreateExact, Replied, Applied, Created, Reserved

LEMMA StopCreateReport == ASSUME Core, Report, StopCreate PROVE Report'
<1>1. PICK o \in Outcome :
        /\ pc = "stopcreate" /\ CreateExact(o) /\ StopStep(o, "stopclean")
        /\ UNCHANGED <<file, env, runs, marker>>
  BY DEF StopCreate
<1>2. /\ pc' = IF Replied(o) THEN "stopclean" ELSE "drain"
      /\ UNCHANGED <<marker, run, killed, op, accepted>>
  BY <1>1 DEF StopStep, Goto, api, past
<1>3. marker.state = "clean-pending" /\ marker.run = run
  BY <1>1 DEF Core, PhaseInv, Report, PlaceInv, Serving
<1>4. PlaceInv'
  BY <1>1, <1>2, <1>3, CreatedNow DEF PlaceInv, Serving, StartupPcs
<1> QED
  BY <1>1, <1>2, <1>3, <1>4, CreatedReport

LEMMA StartupCreateReport ==
    ASSUME Core, Report, RecoverPending \/ CreateReserved, ~incomplete'
    PROVE  Report'
<1>1. PICK o \in Outcome :
        /\ \/ pc = "recover" /\ StartupStep(o, AfterRecover(marker))
           \/ pc = "create" /\ StartupStep(o, "run")
        /\ CreateExact(o) /\ UNCHANGED marker
  BY DEF RecoverPending, CreateReserved
<1>2. Replied(o) /\ UNCHANGED <<run, killed, op, accepted>>
  BY <1>1 DEF StartupStep, Goto, api
<1>3. marker.state = "clean-pending" /\ marker.run < run
  BY <1>1 DEF Core, PhaseInv, Report, PlaceInv, StartupPcs
<1>4. Created'
  BY <1>1, <1>2, CreatedNow
<1>5. \/ pc' = "complete" /\ marker.reason = "config-restart"
      \/ pc' = "run" /\ marker.reason # "config-restart"
  BY <1>1, <1>2 DEF StartupStep, Goto, AfterRecover, Report, PlaceInv
<1>6. PlaceInv'
  BY <1>1, <1>2, <1>3, <1>4, <1>5 DEF PlaceInv, Serving
<1> QED
  BY <1>1, <1>2, <1>3, <1>6, CreatedReport

-----------------------------------------------------------------------------
(* A run takes over: the marker gets its entry, and everything that was to *)
(* be said of the earlier run has been said.                               *)

LEMMA MarkRunningReport == ASSUME Core, Report, MarkRunning, ~incomplete' PROVE Report'
<1>1. PICK o \in Outcome :
        /\ pc = "run" /\ WriteMarker(Running, o) /\ StartupStep(o, "serve")
        /\ UNCHANGED <<file, env, runs, notices>>
  BY DEF MarkRunning
<1>2. /\ Replied(o) /\ pc' = "serve" /\ UNCHANGED <<notices, run, killed, op, accepted>>
      /\ op = "none"
  BY <1>1 DEF StartupStep, Goto, api, Core, PhaseInv, Serving
<1>3. marker' = Running
  BY <1>1, <1>2, WriteOutcome
<1>4. marker'.state = "running" /\ marker'.run = run /\ marker.run < run /\ marker'.reason = "none"
  BY <1>1, <1>3 DEF Running, Report, PlaceInv, StartupPcs
<1>5. \/ marker.state = "absent"
      \/ marker.state = "clean" /\ marker.reason = "container-stop"
      \/ marker.state = "clean-pending" /\ marker.reason # "config-restart" /\ Created
  BY <1>1 DEF Report, PlaceInv, Core, TypeOK, ValidMarker, Shutdowns
<1>6. PlaceInv'
  BY <1>2, <1>4 DEF PlaceInv, Serving, StartupPcs
<1>7. \A n \in notices : n.run < run
  BY <1>4, NumbersType DEF Core, Report, NoticesInv
<1>8. ASSUME NEW n \in notices, n.reason = "config-restart"
      PROVE  About(n.run, {"config-restart-startup"}) # {}
  <2>1. CASE n.run = marker.run
    <3>1. /\ marker.state \in {"clean-pending", "clean"}
          /\ marker.reason \in {"config-restart", "config-restart-startup"}
      BY <1>8, <2>1 DEF Report, NoticesInv, Ends, Shutdowns
    <3>2. Created /\ marker.reason = "config-restart-startup"
      BY <1>5, <3>1
    <3> QED
      BY <2>1, <3>2 DEF Created, About, Reserved
  <2>2. CASE n.run # marker.run
    <3>1. n.run < marker.run
      BY <2>2, NumbersType DEF Core, Report, NoticesInv
    <3> QED
      BY <1>8, <3>1 DEF Report, NoticesInv
  <2> QED
    BY <2>1, <2>2
<1>9. NoticesInv'
  <2>1. \A n \in notices : n.run <= run /\ n.run # run
    BY <1>7, NumbersType DEF Core
  <2> QED
    BY <1>2, <1>4, <1>8, <2>1 DEF Report, NoticesInv, About
<1>10. KilledInv'
  <2>1. ASSUME NEW r \in killed
        PROVE  r <= run /\ About(r, {"unclean-recovery"}) # {}
    <3>1. r <= run
      BY <1>4, NumbersType DEF Core, Report, KilledInv
    <3>2. CASE r = marker.run
      <4>1. Created /\ marker.reason = "unclean-recovery"
        BY <1>5, <3>2 DEF Report, KilledInv
      <4> QED
        BY <3>1, <3>2, <4>1 DEF Created, About, Reserved
    <3>3. CASE r # marker.run
      <4>1. r < marker.run
        BY <3>3, NumbersType DEF Core, Report, KilledInv
      <4> QED
        BY <3>1, <4>1 DEF Report, KilledInv
    <3> QED
      BY <3>2, <3>3
  <2>2. run \notin killed
    BY <1>1 DEF Report, KilledInv
  <2> QED
    BY <1>2, <1>4, <2>1, <2>2 DEF KilledInv, About
<1>11. AcceptedInv'
  <2>1. Promised' \subseteq Promised /\ \A r \in Promised' : r \in Nat
    BY <1>2, NumbersType DEF Promised, Core
  <2>2. \A r \in Promised' : r < run
    BY <1>4, <2>1, NumbersType DEF Core, Report, AcceptedInv
  <2>3. \A r \in Promised' : r <= run /\ r # run
    BY <2>1, <2>2, NumbersType DEF Core
  <2> QED
    BY <1>2, <1>4, <2>1, <2>3 DEF Report, AcceptedInv, About
<1> QED
  BY <1>6, <1>9, <1>10, <1>11 DEF Report

-----------------------------------------------------------------------------
(* The invariant and what follows from it.                                 *)

LEMMA InitInv == Init => Inv
<1> SUFFICES ASSUME Init PROVE Inv
  OBVIOUS
<1>1. marker.state = "absent" /\ marker.run = 0 /\ run = 0 /\ pc = "down"
  BY DEF Init, NoMarker
<1>2. PlaceInv
  BY <1>1 DEF PlaceInv, Serving, StartupPcs
<1>3. NoticesInv /\ KilledInv /\ AcceptedInv
  BY DEF Init, NoticesInv, KilledInv, AcceptedInv, Promised
<1> QED
  BY <1>2, <1>3, InitCore DEF Inv, Report

\* An error of a Startup is never forgotten.
LEMMA IncompleteStays == ASSUME [Next]_vars, incomplete \in BOOLEAN PROVE incomplete => incomplete'
<1>1. CASE Main
  BY <1>1 DEF Main, Boot, Startup, ReadMarker, Reserve, RecoverPending, CreateReserved, MarkRunning,
     StartupStep, BeginStop, StopPending, StopCreate, StopClean, StopStep, Drain, RestartService, past
<1>2. CASE Handlers \/ Put \/ RestartBegin
  BY <1>2 DEF Handlers, Preflight, MatchRevision, PlanRestart, Accept, Put, RestartBegin, past
<1>3. CASE Signal \/ Crash \/ Elapse \/ \E s \in Services : ServiceRespawn(s)
  BY <1>3 DEF Signal, Crash, Elapse, ServiceRespawn, past
<1>4. CASE UNCHANGED vars
  BY <1>4 DEF vars, past
<1> QED
  BY <1>1, <1>2, <1>3, <1>4 DEF Next

LEMMA NextInv == Inv /\ [Next]_vars => Inv'
<1> SUFFICES ASSUME Inv, [Next]_vars PROVE Inv'
  OBVIOUS
<1>1. Core /\ Core'
  BY NextCore DEF Inv
<1>2. ASSUME ~incomplete' PROVE Report'
  <2>1. Report
    BY <1>1, <1>2, IncompleteStays DEF Inv, Core, TypeOK
  <2>2. CASE Startup
    BY <1>1, <1>2, <2>1, <2>2, ReadMarkerReport, ReserveReport, StartupCreateReport,
       MarkRunningReport DEF Startup
  <2>3. CASE Boot \/ BeginStop \/ StopPending \/ StopCreate \/ StopClean \/ Drain \/ RestartService
    BY <1>1, <2>1, <2>3, BootReport, EndReport, StopPendingReport, StopCreateReport, StopCleanReport
  <2>4. CASE Handlers \/ Put \/ RestartBegin
    BY <1>1, <2>1, <2>4, HandlerReport, PlanRestartReport DEF Handlers
  <2>5. CASE Signal \/ Crash \/ Elapse \/ \E s \in Services : ServiceRespawn(s)
    BY <1>1, <2>1, <2>5, HandlerReport, CrashReport, ElapseReport
  <2>6. CASE UNCHANGED vars
    BY <2>1, <2>6, QuietReport DEF vars, disk, main, api, past, Promised
  <2> QED
    BY <2>2, <2>3, <2>4, <2>5, <2>6 DEF Next, Main
<1> QED
  BY <1>1, <1>2 DEF Inv

LEMMA AtMostOne ==
    ASSUME NEW S, \A x, y \in S : x = y
    PROVE  IsFiniteSet(S) /\ (S = {} => Cardinality(S) = 0) /\ (S # {} => Cardinality(S) = 1)
<1>1. CASE S = {}
  BY <1>1, FS_EmptySet
<1>2. CASE S # {}
  <2>1. PICK x : x \in S
    BY <1>2
  <2>2. S = {x}
    BY <2>1
  <2> QED
    BY <1>2, <2>2, FS_Singleton
<1> QED
  BY <1>1, <1>2

\* Every run that was killed is reported by the run that has taken over, and a run
\* is reported once, as stopped or as lost (EndsReported): the notification is
\* reserved in the marker before it is created and created from it again by the
\* next run (lifecycle.go:85-216, 241-286), so a run killed anywhere leaves an
\* entry that says what is still to be told of its predecessor.
THEOREM EndsAreReported == Spec => []EndsReported
<1>1. Inv => EndsReported
  <2> SUFFICES ASSUME Inv PROVE EndsReported
    OBVIOUS
  <2>1. TypeOK
    BY DEF Inv, Core
  <2>2. ~incomplete => \A r \in killed : r < marker.run => About(r, {"unclean-recovery"}) # {}
    BY DEF Inv, Report, KilledInv
  <2>3. ASSUME ~incomplete, NEW r \in 1..run
        PROVE  Cardinality(About(r, Shutdowns \cup {"unclean-recovery"})) <= 1
    <3>1. \A n1, n2 \in About(r, Shutdowns \cup {"unclean-recovery"}) : n1 = n2
      BY <2>3 DEF Inv, Report, NoticesInv, About, Ends
    <3> QED
      BY <3>1, AtMostOne
  <2> QED
    BY <2>1, <2>2, <2>3 DEF EndsReported
<1> QED
  BY InitInv, NextInv, <1>1, PTL DEF Spec

\* A run that accepted a restart is not reported as lost or as stopped, and a
\* restart is reported on both sides (RestartReported): the plan in the entry of
\* the run decides what becomes of it (lifecycle.go:98-121, 249-257), whichever of
\* the two runs is killed, and however often the next ones are.
THEOREM RestartIsReported == Spec => []RestartReported
<1>1. Inv => RestartReported
  <2> SUFFICES ASSUME Inv, ~incomplete
               PROVE  /\ \A r \in accepted : About(r, {"unclean-recovery", "container-stop"}) = {}
                      /\ marker.state = "running" =>
                           \A n \in notices : n.reason = "config-restart" /\ n.run < marker.run
                             => Cardinality(About(n.run, {"config-restart-startup"})) = 1
    BY DEF RestartReported
  <2>1. \A r \in accepted : About(r, {"unclean-recovery", "container-stop"}) = {}
    BY DEF Inv, Report, AcceptedInv, Promised
  <2>2. ASSUME NEW n \in notices, n.reason = "config-restart", n.run < marker.run
        PROVE  Cardinality(About(n.run, {"config-restart-startup"})) = 1
    <3>1. About(n.run, {"config-restart-startup"}) # {}
      BY <2>2 DEF Inv, Report, NoticesInv
    <3>2. \A n1, n2 \in About(n.run, {"config-restart-startup"}) : n1 = n2
      BY DEF Inv, Report, NoticesInv, About
    <3> QED
      BY <3>1, <3>2, AtMostOne
  <2> QED
    BY <2>1, <2>2
<1> QED
  BY InitInv, NextInv, <1>1, PTL DEF Spec
=============================================================================
