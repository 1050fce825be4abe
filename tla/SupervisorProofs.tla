-------------------------- MODULE SupervisorProofs --------------------------
(***************************************************************************)
(* For every set of tiers, monitors and helpers and every number of        *)
(* faults: the types of Supervisor, whatever goes wrong; and, as long as   *)
(* the probes, the helper script and its start work (Dependable), that     *)
(* restarts never overlap, never touch a server that works, and that a     *)
(* request generates at the tier it was promised.                          *)
(***************************************************************************)
EXTENDS Supervisor, FiniteSetTheorems, TLAPS

\* What the safety of a restart rests on.  The server may crash or fail to load and
\* clients may leave, as often as they like.
Dependable ==
    /\ FaultKinds \cap {"probe", "spawn", "helper"} = {}
    /\ "loading" \notin InitialPhases
    /\ ~SlowStarts

Waiting == pc \in {"wait", "waitback"}
NoRestart == \A h \in Helpers : helper[h] = NotRunning
Seen == probe[Handler]

\* A process that is not there does nothing, one that is there serves a tier.
ServerIsSound ==
    /\ server.phase = "down" => server = Stopped
    /\ server.phase # "down" => server.context \in Tiers
    /\ server.phase = "loading" => server.job = "none"

\* Only a Handler that waits has a restart under way, and never two.
OnlyWaitersRestart ==
    /\ ~Waiting => NoRestart /\ server.phase # "loading"
    /\ \A g, h \in Helpers : helper[g] # NotRunning /\ helper[h] # NotRunning => g = h

\* The helper starts the tier that is waited for: before it has stopped the server that
\* cannot be mistaken for the new one and has no work, after it there is none.
RestartIsForAwaited ==
    \A h \in Helpers : helper[h] # NotRunning =>
        /\ helper[h].context = Awaited
        /\ server.phase = "down"
           \/ (helper[h].stage = "stop" /\ server.phase = "up" /\ server.job = "none"
               /\ server.context # Awaited)

\* Once the helper is done, what runs is what is waited for.
RestartedIsAwaited ==
    Waiting /\ NoRestart =>
        server.phase = "down" \/ (server.context = Awaited /\ server.job = "none")

\* A probe that shows the awaited tier was answered by the restarted server.
SeenIsRestarted ==
    Waiting /\ Seen.context = Awaited => NoRestart /\ server.phase # "loading"

\* The deadline ends a wait that has nothing left to wait for.
ExpiredIsHopeless ==
    (Waiting /\ deadlinePassed) \/ pc = "rollback" => NoRestart /\ server.phase = "down"

\* The probe at the head of switch_context can be outdated only by a crash.
CheckIsCurrent ==
    pc = "check" /\ server.phase = "up" =>
        /\ Seen.at \in {"slots", "models", "done"} => Seen.healthy
        /\ Seen.at # "models"
        /\ Seen.at = "done" => /\ Seen.context = server.context
                               /\ ~Seen.processing => server.job = "none"

\* A server that is to be stopped is idle and serves another tier.
RestartIsDue ==
    pc = "restart" => server.phase = "down" \/ (server.context # target /\ server.job = "none")

\* A request is passed on to an idle server of its tier, and keeps it.
ForwardIsServed ==
    /\ pc = "forward" /\ server.phase = "up" => server.context = target /\ server.job = "none"
    /\ server.job = "relay" => pc = "generating"
    /\ pc = "generating" /\ server.job = "relay" => server.context = target

TargetSuffices == pc \notin {"idle", "refresh", "decide"} => needed <= target

\* Between two polls, and before the first, nothing has been seen.
NothingSeenYet ==
    /\ Seen.at = "off" => Seen = ProbeOff
    /\ pc \in {"restart", "rollback"} => Seen.at = "off"

RestartInv ==
    /\ ServerIsSound /\ OnlyWaitersRestart
    /\ RestartIsForAwaited /\ RestartedIsAwaited /\ SeenIsRestarted /\ ExpiredIsHopeless
    /\ CheckIsCurrent /\ RestartIsDue /\ ForwardIsServed /\ TargetSuffices /\ NothingSeenYet

-----------------------------------------------------------------------------

SupervisorAssumptions ==
    /\ Tiers \subseteq Nat \ {0} /\ NoContext = 0
    /\ Handler \in Actors
    /\ Monitors \subseteq Actors /\ Handler \notin Monitors
    /\ MaxFaults \in Nat
    /\ InitialPhases \subseteq Phases

LEMMA Assumed == SupervisorAssumptions
  BY TiersAssumption, ActorsAssumption, FaultsAssumption, InitialAssumption
     DEF SupervisorAssumptions, Actors, NoContext

\* A fault is counted, and only the kinds that are allowed happen.
LEMMA FaultIsCounted ==
    ASSUME TypeOK, NEW kind, Fault(kind)
    PROVE  kind \in FaultKinds /\ faults' \in 0..MaxFaults
  BY Assumed DEF TypeOK, Fault, SupervisorAssumptions

\* What one read leaves in the probe of the actor that made it.
ProbeTypes == [at : {"off", "health", "slots", "models", "done"}, healthy : BOOLEAN,
               context : Tiers \cup {NoContext}, processing : BOOLEAN]

LEMMA ConstantsAreTyped ==
    /\ Stopped \in [phase : Phases, context : Tiers \cup {NoContext},
                    job : {"none", "relay", "orphan"}]
    /\ NotRunning \in [stage : {"none", "stop", "start"}, context : Tiers \cup {NoContext}]
    /\ ProbeOff \in ProbeTypes /\ ProbeStart \in ProbeTypes
    /\ ProbeStart.at = "health" /\ ProbeStart.context = NoContext
  <1>1. FALSE \in BOOLEAN
    OBVIOUS
  <1>2. ProbeOff \in ProbeTypes
    BY <1>1 DEF ProbeOff, ProbeTypes
  <1>3. ProbeStart.at = "health" /\ ProbeStart.context = NoContext
    BY DEF ProbeStart, ProbeOff
  <1>4. ProbeStart \in ProbeTypes
    BY <1>2 DEF ProbeStart, ProbeTypes
  <1>5. Stopped \in [phase : Phases, context : Tiers \cup {NoContext},
                     job : {"none", "relay", "orphan"}]
    BY DEF Stopped, Phases
  <1>6. NotRunning \in [stage : {"none", "stop", "start"}, context : Tiers \cup {NoContext}]
    BY DEF NotRunning
  <1> QED BY <1>2, <1>3, <1>4, <1>5, <1>6

Reads(a) == ReadHealth(a) \/ ReadSlots(a) \/ ReadModels(a)

\* A read changes the probe of its actor only.
LEMMA ReadIsTyped ==
    ASSUME TypeOK, NEW a \in Actors, Reads(a)
    PROVE  /\ probe' \in [Actors -> ProbeTypes]
           /\ \A b \in Actors : b # a => probe'[b] = probe[b]
           /\ faults' \in 0..MaxFaults
           /\ UNCHANGED <<server, helper, pc, needed, target, old, currentContext,
                          deadlinePassed>>
  <1>1. /\ probe \in [Actors -> ProbeTypes] /\ faults \in 0..MaxFaults
        /\ server.context \in Tiers \cup {NoContext}
    BY DEF TypeOK, ProbeTypes
  <1>2. probe[a] \in ProbeTypes
    BY <1>1
  <1>3. Up \in BOOLEAN /\ (server.job # "none") \in BOOLEAN
    BY DEF Up
  <1>4. CASE ReadHealth(a)
    <2>1. [probe[a] EXCEPT !.at = "slots", !.healthy = Up] \in ProbeTypes
      BY <1>2, <1>3 DEF ProbeTypes
    <2>2. [probe[a] EXCEPT !.at = "slots"] \in ProbeTypes
      BY <1>2 DEF ProbeTypes
    <2>3. \E p \in ProbeTypes : probe' = [probe EXCEPT ![a] = p]
      BY <1>4, <2>1, <2>2 DEF ReadHealth
    <2>4. faults' \in 0..MaxFaults
      BY <1>1, <1>4, FaultIsCounted DEF ReadHealth
    <2> QED BY <1>1, <1>4, <2>3, <2>4 DEF ReadHealth
  <1>5. CASE ReadSlots(a)
    <2>1. [probe[a] EXCEPT !.at = "done", !.context = server.context,
                           !.processing = (server.job # "none")] \in ProbeTypes
      BY <1>1, <1>2, <1>3 DEF ProbeTypes
    <2>2. [probe[a] EXCEPT !.at = "models"] \in ProbeTypes
      BY <1>2 DEF ProbeTypes
    <2>3. \E p \in ProbeTypes : probe' = [probe EXCEPT ![a] = p]
      BY <1>5, <2>1, <2>2 DEF ReadSlots
    <2>4. faults' \in 0..MaxFaults
      BY <1>1, <1>5, FaultIsCounted DEF ReadSlots
    <2> QED BY <1>1, <1>5, <2>3, <2>4 DEF ReadSlots
  <1>6. CASE ReadModels(a)
    <2>1. [probe[a] EXCEPT !.at = "done",
                           !.context = IF Up THEN server.context ELSE NoContext] \in ProbeTypes
      BY <1>1, <1>2 DEF ProbeTypes
    <2>2. [probe[a] EXCEPT !.at = "done"] \in ProbeTypes
      BY <1>2 DEF ProbeTypes
    <2>3. \E p \in ProbeTypes : probe' = [probe EXCEPT ![a] = p]
      BY <1>6, <2>1, <2>2 DEF ReadModels
    <2>4. faults' \in 0..MaxFaults
      BY <1>1, <1>6, FaultIsCounted DEF ReadModels
    <2> QED BY <1>1, <1>6, <2>3, <2>4 DEF ReadModels
  <1> QED BY <1>4, <1>5, <1>6 DEF Reads

\* A probe whose reads all work shows what the server was at each of them.
LEMMA HandlerReads ==
    ASSUME TypeOK, "probe" \notin FaultKinds, Reads(Handler)
    PROVE  /\ UNCHANGED <<server, helper, pc, needed, target, old, currentContext,
                          deadlinePassed>>
           /\ \/ /\ Seen.at = "health" /\ Seen'.at = "slots"
                 /\ Seen'.healthy = Up
                 /\ Seen'.context = Seen.context
              \/ /\ Seen.at = "slots" /\ Seen'.at = "done" /\ Up
                 /\ Seen'.healthy = Seen.healthy
                 /\ Seen'.context = server.context
                 /\ Seen'.processing = (server.job # "none")
              \/ /\ Seen.at = "slots" /\ Seen'.at = "models" /\ ~Up
                 /\ Seen'.context = Seen.context
              \/ /\ Seen.at = "models" /\ Seen'.at = "done"
                 /\ Seen'.healthy = Seen.healthy
                 /\ Seen'.context = IF Up THEN server.context ELSE NoContext
  <1>1. probe \in [Actors -> ProbeTypes] /\ Handler \in Actors
    BY Assumed DEF TypeOK, ProbeTypes, SupervisorAssumptions
  <1>2. ~Fault("probe")
    BY DEF Fault
  <1>3. CASE ReadHealth(Handler)
    BY <1>1, <1>2, <1>3 DEF ReadHealth, Seen, ProbeTypes
  <1>4. CASE ReadSlots(Handler)
    BY <1>1, <1>2, <1>4 DEF ReadSlots, Seen, ProbeTypes
  <1>5. CASE ReadModels(Handler)
    BY <1>1, <1>2, <1>5 DEF ReadModels, Seen, ProbeTypes
  <1> QED BY <1>3, <1>4, <1>5 DEF Reads

\* A probe that is over, one way or another, and what is taken from it.
LEMMA ProbesAreTyped ==
    ASSUME TypeOK, NEW a \in Actors, NEW p \in ProbeTypes
    PROVE  /\ [probe EXCEPT ![a] = p] \in [Actors -> ProbeTypes]
           /\ [probe EXCEPT ![a] = p][a] = p
           /\ \A b \in Actors : b # a => [probe EXCEPT ![a] = p][b] = probe[b]
           /\ RefreshedContext(a) \in Tiers
  <1>1. probe \in [Actors -> ProbeTypes] /\ currentContext \in Tiers
    BY DEF TypeOK, ProbeTypes
  <1>2. RefreshedContext(a) \in Tiers
    BY <1>1 DEF RefreshedContext, ProbeTypes
  <1> QED BY <1>1, <1>2

Stages == {"none", "stop", "start"}
HelperTypes == [stage : Stages, context : Tiers \cup {NoContext}]
ServerTypes == [phase : Phases, context : Tiers \cup {NoContext},
                job : {"none", "relay", "orphan"}]
PlacesOfHandler == {"idle", "refresh", "decide", "check", "restart", "wait", "rollback",
                    "waitback", "forward", "generating"}

\* The types in the names of this module.
LEMMA TypesAreNamed ==
    TypeOK <=>
        /\ server \in ServerTypes
        /\ helper \in [Helpers -> HelperTypes]
        /\ probe \in [Actors -> ProbeTypes]
        /\ pc \in PlacesOfHandler
        /\ needed \in Tiers /\ target \in Tiers /\ old \in Tiers /\ currentContext \in Tiers
        /\ deadlinePassed \in BOOLEAN
        /\ faults \in 0..MaxFaults
  BY DEF TypeOK, ServerTypes, HelperTypes, Stages, ProbeTypes, PlacesOfHandler

LEMMA TypeInit == Init => TypeOK
  <1> SUFFICES ASSUME Init PROVE TypeOK
    OBVIOUS
  <1> USE DEF Init
  <1>1. server \in ServerTypes
    BY ConstantsAreTyped, Assumed DEF ServerTypes, SupervisorAssumptions, Phases
  <1>2. helper \in [Helpers -> HelperTypes]
    BY ConstantsAreTyped DEF HelperTypes, Stages
  <1>3. probe \in [Actors -> ProbeTypes]
    BY ConstantsAreTyped
  <1>4. pc \in PlacesOfHandler
    BY DEF PlacesOfHandler
  <1>5. deadlinePassed \in BOOLEAN
    OBVIOUS
  <1>6. faults \in 0..MaxFaults
    BY Assumed DEF SupervisorAssumptions
  <1> QED BY <1>1, <1>2, <1>3, <1>4, <1>5, <1>6, TypesAreNamed

\* A started helper is typed, and its start begins a new deadline.
LEMMA SpawnIsTyped ==
    ASSUME TypeOK, NEW h \in Helpers, NEW c \in Tiers, Spawn(h, c)
    PROVE  helper' \in [Helpers -> HelperTypes] /\ deadlinePassed' \in BOOLEAN
  <1>1. [stage |-> "stop", context |-> c] \in HelperTypes
    BY DEF HelperTypes, Stages
  <1>2. helper \in [Helpers -> HelperTypes]
    BY TypesAreNamed
  <1>3. FALSE \in BOOLEAN
    OBVIOUS
  <1> QED BY <1>1, <1>2, <1>3 DEF Spawn

\* Every step keeps the types, whatever faults happen.
LEMMA TypeStep == TypeOK /\ [Next]_vars => TypeOK'
  <1> SUFFICES ASSUME TypeOK, [Next]_vars PROVE TypeOK'
    OBVIOUS
  <1>0. /\ server \in ServerTypes /\ helper \in [Helpers -> HelperTypes]
        /\ probe \in [Actors -> ProbeTypes] /\ pc \in PlacesOfHandler
        /\ needed \in Tiers /\ target \in Tiers /\ old \in Tiers /\ currentContext \in Tiers
        /\ faults \in 0..MaxFaults /\ Handler \in Actors /\ Monitors \subseteq Actors
    BY TypesAreNamed, Assumed DEF SupervisorAssumptions
  <1>d. deadlinePassed \in BOOLEAN
    BY TypesAreNamed
  <1>s. Stopped \in ServerTypes /\ NotRunning \in HelperTypes
    BY ConstantsAreTyped DEF ServerTypes, HelperTypes, Stages
  <1> DEFINE Keeps ==
        /\ server' \in ServerTypes /\ helper' \in [Helpers -> HelperTypes]
        /\ probe' \in [Actors -> ProbeTypes] /\ pc' \in PlacesOfHandler
        /\ needed' \in Tiers /\ target' \in Tiers /\ old' \in Tiers /\ currentContext' \in Tiers
        /\ faults' \in 0..MaxFaults
  <1>q. Keeps /\ deadlinePassed' \in BOOLEAN => TypeOK'
    BY TypesAreNamed DEF TypeOK, ServerTypes, HelperTypes, Stages, ProbeTypes, PlacesOfHandler
  <1>1. ASSUME NEW n \in Tiers, Receive(n)
        PROVE  TypeOK'
    <2>1. probe' \in [Actors -> ProbeTypes]
      BY <1>0, <1>1, ConstantsAreTyped, ProbesAreTyped DEF Receive
    <2> QED BY <1>0, <1>1, <1>d, <1>q, <2>1 DEF Receive, PlacesOfHandler
  <1>2. ASSUME NEW a \in Actors, ReadProbe(a)
        PROVE  TypeOK'
    <2>1. CASE Reads(a)
      BY <1>0, <1>d, <1>q, <2>1, ReadIsTyped
    <2>2. CASE ProbeBreaks(a)
      <3>1. probe' \in [Actors -> ProbeTypes] /\ faults' \in 0..MaxFaults
        BY <2>2, ConstantsAreTyped, ProbesAreTyped, FaultIsCounted DEF ProbeBreaks
      <3>2. pc' \in PlacesOfHandler
        BY <1>0, <2>2 DEF ProbeBreaks, PlacesOfHandler
      <3> QED BY <1>0, <1>d, <1>q, <2>2, <3>1, <3>2 DEF ProbeBreaks
    <2> QED BY <1>2, <2>1, <2>2 DEF ReadProbe, Reads
  <1>3. CASE Refresh
    <2>1. currentContext' \in Tiers
      BY <1>0, <1>3, ConstantsAreTyped, ProbesAreTyped DEF Refresh
    <2> QED BY <1>0, <1>3, <1>d, <1>q, <2>1 DEF Refresh, PlacesOfHandler
  <1>4. CASE Decide
    <2>1. probe' \in [Actors -> ProbeTypes]
      BY <1>0, <1>4, ConstantsAreTyped, ProbesAreTyped DEF Decide
    <2>2. target' \in Tiers
      BY <1>0, <1>4 DEF Decide
    <2> QED BY <1>0, <1>4, <1>d, <1>q, <2>1, <2>2 DEF Decide, PlacesOfHandler
  <1>5. CASE Check
    <2>1. probe' \in [Actors -> ProbeTypes] /\ currentContext' \in Tiers /\ old' \in Tiers
      BY <1>0, <1>5, ConstantsAreTyped, ProbesAreTyped DEF Check
    <2>2. pc' \in PlacesOfHandler
      BY <1>5 DEF Check, PlacesOfHandler
    <2> QED BY <1>0, <1>5, <1>d, <1>q, <2>1, <2>2 DEF Check
  <1>6. ASSUME NEW h \in Helpers, RunRestart(h) \/ RunRollback(h)
        PROVE  TypeOK'
    <2>1. helper' \in [Helpers -> HelperTypes] /\ deadlinePassed' \in BOOLEAN
      BY <1>0, <1>6, SpawnIsTyped DEF RunRestart, RunRollback
    <2> QED BY <1>0, <1>6, <1>q, <2>1 DEF RunRestart, RunRollback, PlacesOfHandler
  <1>7. CASE RestartFails \/ RollbackFails
    <2>1. faults' \in 0..MaxFaults
      BY <1>7, FaultIsCounted DEF RestartFails, RollbackFails
    <2>2. server' \in ServerTypes
      BY <1>0, <1>7, <1>s DEF RestartFails, RollbackFails
    <2> QED
      BY <1>0, <1>7, <1>d, <1>q, <2>1, <2>2 DEF RestartFails, RollbackFails, PlacesOfHandler
  <1>8. CASE Poll
    <2>1. probe' \in [Actors -> ProbeTypes]
      BY <1>0, <1>8, ConstantsAreTyped, ProbesAreTyped DEF Poll
    <2> QED BY <1>0, <1>8, <1>d, <1>q, <2>1 DEF Poll
  <1>9. CASE PollAnswered
    <2>1. probe' \in [Actors -> ProbeTypes]
      BY <1>0, <1>9, ConstantsAreTyped, ProbesAreTyped DEF PollAnswered
    <2>2. currentContext' \in Tiers /\ pc' \in PlacesOfHandler
      BY <1>0, <1>9 DEF PollAnswered, Awaited, PlacesOfHandler
    <2> QED BY <1>0, <1>9, <1>d, <1>q, <2>1, <2>2 DEF PollAnswered
  <1>10. CASE WaitExpires
    BY <1>0, <1>10, <1>d, <1>q DEF WaitExpires, PlacesOfHandler
  <1>11. CASE Forward
    <2>1. server' \in ServerTypes
      BY <1>0, <1>11 DEF Forward, ServerTypes
    <2> QED BY <1>0, <1>11, <1>d, <1>q, <2>1 DEF Forward, PlacesOfHandler
  <1>12. CASE GenerationEnds \/ GenerationLost \/ Abandon
    <2>1. server' \in ServerTypes
      BY <1>0, <1>12 DEF GenerationEnds, GenerationLost, Abandon, ServerTypes
    <2>2. faults' \in 0..MaxFaults
      BY <1>0, <1>12, FaultIsCounted DEF GenerationEnds, GenerationLost, Abandon
    <2> QED BY <1>0, <1>12, <1>d, <1>q, <2>1, <2>2
            DEF GenerationEnds, GenerationLost, Abandon, PlacesOfHandler
  <1>13. ASSUME NEW m \in Monitors, MonitorStarts(m) \/ MonitorWrites(m)
         PROVE  TypeOK'
    <2>1. probe' \in [Actors -> ProbeTypes] /\ currentContext' \in Tiers
      BY <1>0, <1>13, ConstantsAreTyped, ProbesAreTyped DEF MonitorStarts, MonitorWrites
    <2> QED BY <1>0, <1>13, <1>d, <1>q, <2>1 DEF MonitorStarts, MonitorWrites
  <1>14. ASSUME NEW h \in Helpers, HelperStep(h) \/ HelperThrows(h)
         PROVE  TypeOK'
    <2>1. helper[h] \in HelperTypes /\ [helper[h] EXCEPT !.stage = "start"] \in HelperTypes
      BY <1>0 DEF HelperTypes, Stages
    <2>2. helper' \in [Helpers -> HelperTypes]
      BY <1>0, <1>14, <1>s, <2>1 DEF HelperStep, HelperStops, HelperStarts, HelperThrows
    <2>3. [phase |-> "loading", context |-> helper[h].context, job |-> "none"] \in ServerTypes
      BY <2>1 DEF HelperTypes, ServerTypes, Phases
    <2>4. server' \in ServerTypes
      BY <1>0, <1>14, <1>s, <2>3 DEF HelperStep, HelperStops, HelperStarts, HelperThrows
    <2>5. faults' \in 0..MaxFaults
      BY <1>0, <1>14, FaultIsCounted DEF HelperStep, HelperStops, HelperStarts, HelperThrows
    <2> QED BY <1>0, <1>14, <1>d, <1>q, <2>2, <2>4, <2>5
            DEF HelperStep, HelperStops, HelperStarts, HelperThrows
  <1>15. CASE Loaded \/ OrphanEnds
    <2>1. server' \in ServerTypes
      BY <1>0, <1>15 DEF Loaded, OrphanEnds, ServerTypes, Phases
    <2> QED BY <1>0, <1>15, <1>d, <1>q, <2>1 DEF Loaded, OrphanEnds
  <1>16. CASE ServerDies
    <2>1. faults' \in 0..MaxFaults
      BY <1>16, FaultIsCounted DEF ServerDies
    <2> QED BY <1>0, <1>16, <1>d, <1>q, <1>s, <2>1 DEF ServerDies
  <1>17. CASE DeadlinePasses
    <2>1. deadlinePassed' \in BOOLEAN
      BY <1>17 DEF DeadlinePasses
    <2> QED BY <1>0, <1>17, <1>q, <2>1 DEF DeadlinePasses
  <1>18. CASE UNCHANGED vars
    BY <1>0, <1>18, <1>d, <1>q DEF vars
  <1> QED
    BY <1>0, <1>1, <1>2, <1>3, <1>4, <1>5, <1>6, <1>7, <1>8, <1>9, <1>10, <1>11, <1>12, <1>13,
       <1>14, <1>15, <1>16, <1>17, <1>18 DEF Next, HandlerStep, MonitorStep

\* The supervisor's variables keep their types, whatever goes wrong.
THEOREM TypeCorrect == Spec => []TypeOK
  BY TypeInit, TypeStep, PTL DEF Spec

-----------------------------------------------------------------------------
(* Restarts, when probes and helpers are dependable. *)

\* The initial states satisfy the invariant.
LEMMA RestartInit ==
    ASSUME Dependable
    PROVE  Init => RestartInv
  <1> SUFFICES ASSUME Init PROVE RestartInv
    OBVIOUS
  <1> USE DEF Init, Waiting, NoRestart, Seen
  <1>1. pc = "idle" /\ (\A h \in Helpers : helper[h] = NotRunning) /\ Seen = ProbeOff
    BY Assumed DEF SupervisorAssumptions
  <1>2. server.phase # "loading" /\ server.job = "none"
        /\ (server.phase = "down" => server = Stopped)
        /\ (server.phase # "down" => server.context \in Tiers)
    BY DEF Dependable, Stopped
  <1>3. ServerIsSound /\ OnlyWaitersRestart
    BY <1>1, <1>2 DEF ServerIsSound, OnlyWaitersRestart
  <1>4. RestartIsForAwaited /\ RestartedIsAwaited /\ SeenIsRestarted /\ ExpiredIsHopeless
    BY <1>1 DEF RestartIsForAwaited, RestartedIsAwaited, SeenIsRestarted, ExpiredIsHopeless
  <1>5. CheckIsCurrent /\ RestartIsDue /\ ForwardIsServed /\ TargetSuffices /\ NothingSeenYet
    BY <1>1, <1>2 DEF CheckIsCurrent, RestartIsDue, ForwardIsServed, TargetSuffices, NothingSeenYet
  <1> QED BY <1>3, <1>4, <1>5 DEF RestartInv

\* A step of a monitor, or one that changes none of these, is none of a restart's business.
LEMMA RestartStutter ==
    ASSUME RestartInv,
           UNCHANGED <<server, helper, pc, needed, target, old, deadlinePassed>>, Seen' = Seen
    PROVE  RestartInv'
  <1> USE DEF Waiting, NoRestart, Awaited
  <1>1. ServerIsSound' /\ OnlyWaitersRestart'
    BY DEF RestartInv, ServerIsSound, OnlyWaitersRestart
  <1>2. RestartIsForAwaited' /\ RestartedIsAwaited' /\ SeenIsRestarted' /\ ExpiredIsHopeless'
    BY DEF RestartInv, RestartIsForAwaited, RestartedIsAwaited, SeenIsRestarted, ExpiredIsHopeless
  <1>3. CheckIsCurrent' /\ RestartIsDue' /\ ForwardIsServed' /\ TargetSuffices' /\ NothingSeenYet'
    BY DEF RestartInv, CheckIsCurrent, RestartIsDue, ForwardIsServed, TargetSuffices, NothingSeenYet
  <1> QED BY <1>1, <1>2, <1>3 DEF RestartInv

\* A read of the Handler's probe.
LEMMA RestartRead ==
    ASSUME TypeOK, Dependable, RestartInv, Reads(Handler)
    PROVE  RestartInv'
  <1>0. TypeOK' /\ Awaited \in Tiers /\ NoContext \notin Tiers /\ Seen \in ProbeTypes
    <2>1. [Next]_vars
      BY DEF Next, HandlerStep, ReadProbe, Reads
    <2> QED BY <2>1, TypeStep, TypesAreNamed, Assumed DEF Awaited, Seen, SupervisorAssumptions
  <1>1. "probe" \notin FaultKinds
    BY DEF Dependable
  <1>2. UNCHANGED <<server, helper, pc, needed, target, old, deadlinePassed>>
    BY <1>1, HandlerReads
  <1> USE DEF Waiting, NoRestart
  <1>3. ServerIsSound' /\ OnlyWaitersRestart' /\ RestartIsForAwaited' /\ RestartedIsAwaited'
        /\ ExpiredIsHopeless' /\ RestartIsDue' /\ ForwardIsServed' /\ TargetSuffices'
    BY <1>2 DEF RestartInv, ServerIsSound, OnlyWaitersRestart, RestartIsForAwaited,
                RestartedIsAwaited, ExpiredIsHopeless, RestartIsDue, ForwardIsServed,
                TargetSuffices, Awaited
  <1>4. Seen.at # "off" /\ Seen'.at # "off"
    BY <1>1, HandlerReads
  <1>5. NothingSeenYet'
    BY <1>2, <1>4 DEF RestartInv, NothingSeenYet
  <1>6. SeenIsRestarted'
    <2> SUFFICES ASSUME Waiting, Seen'.context = Awaited
                 PROVE  NoRestart /\ server.phase # "loading"
      BY <1>2 DEF SeenIsRestarted, Awaited
    <2>1. CASE Seen.context = Awaited
      BY <2>1 DEF RestartInv, SeenIsRestarted
    <2>2. CASE Seen.context # Awaited
      <3>1. Up /\ server.context = Awaited
        BY <1>0, <1>1, <2>2, HandlerReads
      <3> QED BY <3>1 DEF Up, RestartInv, RestartIsForAwaited
    <2> QED BY <2>1, <2>2
  <1>7. CheckIsCurrent'
    <2> SUFFICES ASSUME pc = "check", server.phase = "up"
                 PROVE  /\ Seen'.at \in {"slots", "models", "done"} => Seen'.healthy
                        /\ Seen'.at # "models"
                        /\ Seen'.at = "done" => /\ Seen'.context = server.context
                                                /\ ~Seen'.processing => server.job = "none"
      BY <1>2 DEF CheckIsCurrent
    <2> QED BY <1>1, HandlerReads DEF RestartInv, CheckIsCurrent, Up
  <1> QED BY <1>3, <1>5, <1>6, <1>7 DEF RestartInv

\* Receiving, refreshing, deciding and checking: no restart is under way, and the check
\* lets only a server be restarted that is idle and serves another tier.
LEMMA RestartPrepares ==
    ASSUME TypeOK, RestartInv,
           (\E n \in Tiers : Receive(n)) \/ Refresh \/ Decide \/ Check
    PROVE  RestartInv'
  <1>0. /\ probe \in [Actors -> ProbeTypes] /\ Handler \in Actors
        /\ Tiers \subseteq Nat /\ needed \in Tiers /\ currentContext \in Tiers
    BY TypesAreNamed, Assumed DEF SupervisorAssumptions
  <1>1. /\ UNCHANGED <<server, helper, deadlinePassed>> /\ ~Waiting
        /\ pc \in {"idle", "refresh", "decide", "check"}
        /\ pc' \in {"refresh", "decide", "check", "idle", "forward", "restart"}
    BY DEF Receive, Refresh, Decide, Check, Waiting
  <1>2. ServerIsSound' /\ OnlyWaitersRestart' /\ RestartIsForAwaited' /\ RestartedIsAwaited'
        /\ SeenIsRestarted' /\ ExpiredIsHopeless'
    BY <1>1 DEF RestartInv, ServerIsSound, OnlyWaitersRestart, RestartIsForAwaited,
                RestartedIsAwaited, SeenIsRestarted, ExpiredIsHopeless, Waiting, NoRestart
  <1>3. CASE \E n \in Tiers : Receive(n)
    <2>1. pc' = "refresh" /\ Seen' = ProbeStart
      BY <1>0, <1>3 DEF Receive, Seen
    <2>2. CheckIsCurrent' /\ RestartIsDue' /\ TargetSuffices' /\ NothingSeenYet'
      BY <2>1, ConstantsAreTyped DEF CheckIsCurrent, RestartIsDue, TargetSuffices, NothingSeenYet
    <2>3. ForwardIsServed'
      BY <1>1, <2>1 DEF RestartInv, ForwardIsServed
    <2> QED BY <1>2, <2>2, <2>3 DEF RestartInv
  <1>4. CASE Refresh
    <2>1. pc' = "decide" /\ Seen' = Seen
      BY <1>4 DEF Refresh, Seen
    <2>2. CheckIsCurrent' /\ RestartIsDue' /\ TargetSuffices' /\ NothingSeenYet'
      BY <2>1 DEF RestartInv, CheckIsCurrent, RestartIsDue, TargetSuffices, NothingSeenYet
    <2>3. ForwardIsServed'
      BY <1>1, <2>1 DEF RestartInv, ForwardIsServed
    <2> QED BY <1>2, <2>2, <2>3 DEF RestartInv
  <1>5. CASE Decide
    <2>1. pc' = "check" /\ Seen' = ProbeStart /\ needed' = needed /\ needed <= target'
      BY <1>0, <1>5 DEF Decide, Seen
    <2>2. CheckIsCurrent' /\ RestartIsDue' /\ TargetSuffices' /\ NothingSeenYet'
      BY <2>1, ConstantsAreTyped DEF CheckIsCurrent, RestartIsDue, TargetSuffices, NothingSeenYet
    <2>3. ForwardIsServed'
      BY <1>1, <2>1 DEF RestartInv, ForwardIsServed
    <2> QED BY <1>2, <2>2, <2>3 DEF RestartInv
  <1>6. CASE Check
    <2>1. /\ Seen' = ProbeOff /\ UNCHANGED <<needed, target>> /\ pc' # "check"
          /\ pc = "check" /\ Seen.at = "done"
      BY <1>0, <1>6 DEF Check, Seen, Probed
    <2>2. server.phase = "up" => /\ Seen.healthy /\ Seen.context = server.context
                                 /\ ~Seen.processing => server.job = "none"
      BY <2>1 DEF RestartInv, CheckIsCurrent
    <2>3. server.phase # "loading"
      BY <1>1 DEF RestartInv, OnlyWaitersRestart
    <2>4. server.phase = "down" \/ server.phase = "up"
      BY <2>3, TypesAreNamed DEF ServerTypes, Phases
    <2>5. pc' = "forward" => Ready(target)
      BY <1>6 DEF Check
    <2>6. pc' = "restart" => ~Ready(target) /\ ~Seen.processing
      BY <1>6 DEF Check, Seen
    <2>7. pc' = "restart" =>
            server'.phase = "down" \/ (server'.context # target' /\ server'.job = "none")
      BY <1>1, <2>1, <2>2, <2>4, <2>6 DEF Ready, Seen
    <2>8. ForwardIsServed'
      <3>1. pc' = "forward" /\ server.phase = "up" => server.context = target /\ server.job = "none"
        BY <2>2, <2>5 DEF Ready, Seen
      <3>2. server.job # "relay" /\ pc' # "generating"
        BY <1>1, <2>1 DEF RestartInv, ForwardIsServed
      <3> QED BY <1>1, <2>1, <3>1, <3>2 DEF ForwardIsServed
    <2>9. NothingSeenYet' /\ CheckIsCurrent'
      BY <2>1 DEF NothingSeenYet, CheckIsCurrent, ProbeOff
    <2>10. TargetSuffices'
      BY <2>1 DEF RestartInv, TargetSuffices
    <2> QED BY <1>2, <2>7, <2>8, <2>9, <2>10 DEF RestartInv, RestartIsDue
  <1> QED BY <1>3, <1>4, <1>5, <1>6

\* A restart or a rollback begins when none is under way, and waits for its own tier.
LEMMA RestartBegins ==
    ASSUME TypeOK, RestartInv, NEW h \in Helpers, RunRestart(h) \/ RunRollback(h)
    PROVE  RestartInv'
  <1>0. /\ helper \in [Helpers -> HelperTypes] /\ NoContext \notin Tiers
        /\ target \in Tiers /\ old \in Tiers
    BY TypesAreNamed, Assumed DEF SupervisorAssumptions
  <1>1. /\ UNCHANGED <<server, probe, needed, target, old>> /\ ~deadlinePassed'
        /\ ~Waiting /\ Waiting' /\ pc \in {"restart", "rollback"}
        /\ pc' \in {"wait", "waitback"} /\ Awaited' \in Tiers
        /\ helper' = [helper EXCEPT ![h] = [stage |-> "stop", context |-> Awaited']]
    BY <1>0 DEF RunRestart, RunRollback, Spawn, Waiting, Awaited
  <1>2. /\ helper'[h] = [stage |-> "stop", context |-> Awaited'] /\ helper'[h] # NotRunning
        /\ \A g \in Helpers : g # h => helper'[g] = NotRunning
    BY <1>0, <1>1 DEF RestartInv, OnlyWaitersRestart, NoRestart, NotRunning
  <1>3. Seen' = Seen /\ Seen = ProbeOff
    BY <1>1 DEF RestartInv, NothingSeenYet, Seen
  <1>4. /\ server.phase # "loading"
        /\ server.phase = "down" \/ (server.context # Awaited' /\ server.job = "none")
    <2>1. CASE RunRestart(h)
      BY <1>1, <2>1 DEF RestartInv, OnlyWaitersRestart, RestartIsDue, RunRestart, Awaited
    <2>2. CASE RunRollback(h)
      BY <1>1, <2>2 DEF RestartInv, OnlyWaitersRestart, ExpiredIsHopeless, RunRollback
    <2> QED BY <2>1, <2>2
  <1>5. server.phase = "down" \/ server.phase = "up"
    BY <1>4, TypesAreNamed DEF ServerTypes, Phases
  <1>6. ServerIsSound'
    BY <1>1 DEF RestartInv, ServerIsSound
  <1>7. OnlyWaitersRestart' /\ RestartedIsAwaited'
    BY <1>1, <1>2 DEF OnlyWaitersRestart, RestartedIsAwaited, NoRestart
  <1>8. RestartIsForAwaited'
    BY <1>1, <1>2, <1>4, <1>5 DEF RestartIsForAwaited
  <1>9. SeenIsRestarted'
    BY <1>0, <1>1, <1>3 DEF SeenIsRestarted, ProbeOff
  <1>10. ExpiredIsHopeless' /\ CheckIsCurrent' /\ RestartIsDue' /\ NothingSeenYet'
    BY <1>1, <1>3 DEF ExpiredIsHopeless, CheckIsCurrent, RestartIsDue, NothingSeenYet
  <1>11. ForwardIsServed' /\ TargetSuffices'
    BY <1>1 DEF RestartInv, ForwardIsServed, TargetSuffices
  <1> QED BY <1>6, <1>7, <1>8, <1>9, <1>10, <1>11 DEF RestartInv

\* The turns of the wait: an answer is taken for ready only when the restart is complete,
\* and the wait is given up only when nothing is left of it.
LEMMA RestartWaits ==
    ASSUME TypeOK, Dependable, RestartInv, Poll \/ PollAnswered \/ WaitExpires \/ DeadlinePasses
    PROVE  RestartInv'
  <1>0. /\ probe \in [Actors -> ProbeTypes] /\ Handler \in Actors
        /\ NoContext \notin Tiers /\ Awaited \in Tiers
    BY TypesAreNamed, Assumed DEF SupervisorAssumptions, Awaited
  <1>1. UNCHANGED <<server, helper, needed, target, old>> /\ Waiting
    BY DEF Poll, PollAnswered, WaitExpires, DeadlinePasses, Waiting
  <1>2. ServerIsSound'
    BY <1>1 DEF RestartInv, ServerIsSound
  <1>w. server.job # "relay"
    BY <1>1 DEF RestartInv, ForwardIsServed, Waiting
  <1>3. ASSUME pc' = pc, deadlinePassed' = deadlinePassed, Seen' = ProbeStart \/ Seen' = ProbeOff
        PROVE  RestartInv'
    <2>1. Awaited' = Awaited /\ Waiting'
      BY <1>1, <1>3 DEF Awaited, Waiting
    <2>2. Seen'.context = NoContext
      BY <1>3, ConstantsAreTyped DEF ProbeOff
    <2>3. SeenIsRestarted'
      BY <1>0, <2>1, <2>2 DEF SeenIsRestarted
    <2>4. OnlyWaitersRestart' /\ RestartIsForAwaited' /\ RestartedIsAwaited' /\ ExpiredIsHopeless'
      BY <1>1, <1>3, <2>1 DEF RestartInv, OnlyWaitersRestart, RestartIsForAwaited,
                              RestartedIsAwaited, ExpiredIsHopeless, NoRestart
    <2>5. CheckIsCurrent' /\ RestartIsDue' /\ NothingSeenYet'
      BY <1>1, <1>3, ConstantsAreTyped
         DEF CheckIsCurrent, RestartIsDue, NothingSeenYet, Waiting
    <2>6. ForwardIsServed' /\ TargetSuffices'
      BY <1>1, <1>3 DEF RestartInv, ForwardIsServed, TargetSuffices
    <2> QED BY <1>2, <2>3, <2>4, <2>5, <2>6 DEF RestartInv
  <1>4. CASE Poll
    BY <1>0, <1>3, <1>4 DEF Poll, Seen
  <1>5. CASE PollAnswered
    <2>1. Seen' = ProbeOff /\ UNCHANGED deadlinePassed
      BY <1>0, <1>5 DEF PollAnswered, Seen
    <2>2. CASE ~Ready(Awaited)
      BY <1>3, <1>5, <2>1, <2>2 DEF PollAnswered
    <2>3. CASE Ready(Awaited)
      <3>1. NoRestart /\ server.phase # "loading"
        BY <1>1, <2>3 DEF RestartInv, SeenIsRestarted, Ready, Seen
      <3>2. server.phase = "down" \/ (server.context = Awaited /\ server.job = "none")
        BY <1>1, <3>1 DEF RestartInv, RestartedIsAwaited
      <3>3. \/ pc = "wait" /\ pc' = "forward" /\ Awaited = target
            \/ pc = "waitback" /\ pc' = "idle"
        BY <1>1, <1>5, <2>3 DEF PollAnswered, Waiting, Awaited
      <3>4. OnlyWaitersRestart' /\ RestartIsForAwaited' /\ RestartedIsAwaited' /\ SeenIsRestarted'
            /\ ExpiredIsHopeless'
        BY <1>1, <3>1, <3>3 DEF OnlyWaitersRestart, RestartIsForAwaited, RestartedIsAwaited,
                                SeenIsRestarted, ExpiredIsHopeless, NoRestart, Waiting
      <3>5. CheckIsCurrent' /\ RestartIsDue' /\ NothingSeenYet'
        BY <2>1, <3>3 DEF CheckIsCurrent, RestartIsDue, NothingSeenYet
      <3>6. ForwardIsServed'
        BY <1>1, <1>w, <3>2, <3>3 DEF ForwardIsServed
      <3>7. TargetSuffices'
        BY <1>1, <3>3 DEF RestartInv, TargetSuffices
      <3> QED BY <1>2, <3>4, <3>5, <3>6, <3>7 DEF RestartInv
    <2> QED BY <2>2, <2>3
  <1>6. CASE WaitExpires
    <2>1. NoRestart /\ server.phase = "down" /\ UNCHANGED probe /\ Seen.at = "off"
      BY <1>1, <1>6 DEF RestartInv, ExpiredIsHopeless, WaitExpires, Seen
    <2>2. pc' \in {"rollback", "idle"} /\ Seen' = Seen
      BY <1>6, <2>1 DEF WaitExpires, Seen
    <2>3. OnlyWaitersRestart' /\ RestartIsForAwaited' /\ RestartedIsAwaited' /\ SeenIsRestarted'
          /\ ExpiredIsHopeless'
      BY <1>1, <2>1, <2>2 DEF OnlyWaitersRestart, RestartIsForAwaited, RestartedIsAwaited,
                              SeenIsRestarted, ExpiredIsHopeless, NoRestart, Waiting
    <2>4. CheckIsCurrent' /\ RestartIsDue' /\ NothingSeenYet'
      BY <2>1, <2>2 DEF RestartInv, CheckIsCurrent, RestartIsDue, NothingSeenYet
    <2>5. ForwardIsServed' /\ TargetSuffices'
      BY <1>1, <1>w, <2>2 DEF RestartInv, ForwardIsServed, TargetSuffices, Waiting
    <2> QED BY <1>2, <2>3, <2>4, <2>5 DEF RestartInv
  <1>7. CASE DeadlinePasses
    <2>1. pc' = pc /\ Seen' = Seen /\ Hopeless /\ Awaited' = Awaited
      BY <1>1, <1>7 DEF DeadlinePasses, Dependable, Seen, Awaited
    <2>2. NoRestart /\ server.phase # "loading" /\ ~(Up /\ server.context = Awaited /\ server.job = "none")
      BY <2>1 DEF Hopeless, NoRestart
    <2>3. server.phase = "down"
      BY <1>1, <2>2, TypesAreNamed DEF RestartInv, RestartedIsAwaited, Up, ServerTypes, Phases
    <2>4. ExpiredIsHopeless'
      BY <1>1, <2>2, <2>3 DEF ExpiredIsHopeless, NoRestart
    <2>5. OnlyWaitersRestart' /\ RestartIsForAwaited' /\ RestartedIsAwaited' /\ SeenIsRestarted'
      BY <1>1, <2>1 DEF RestartInv, OnlyWaitersRestart, RestartIsForAwaited, RestartedIsAwaited,
                        SeenIsRestarted, NoRestart, Waiting
    <2>6. CheckIsCurrent' /\ RestartIsDue' /\ NothingSeenYet' /\ ForwardIsServed' /\ TargetSuffices'
      BY <1>1, <2>1 DEF RestartInv, CheckIsCurrent, RestartIsDue, NothingSeenYet,
                        ForwardIsServed, TargetSuffices
    <2> QED BY <1>2, <2>4, <2>5, <2>6 DEF RestartInv
  <1> QED BY <1>4, <1>5, <1>6, <1>7

\* Passing the request on and its end, while no restart is under way.
LEMMA RestartForwards ==
    ASSUME TypeOK, RestartInv, Forward \/ GenerationEnds \/ GenerationLost \/ Abandon
    PROVE  RestartInv'
  <1>1. /\ UNCHANGED <<helper, probe, needed, target, old, deadlinePassed>>
        /\ pc \in {"forward", "generating"} /\ pc' \in {"generating", "idle"}
        /\ ~Waiting /\ Seen' = Seen
    BY DEF Forward, GenerationEnds, GenerationLost, Abandon, Waiting, Seen
  <1>2. NoRestart /\ server.phase # "loading"
    BY <1>1 DEF RestartInv, OnlyWaitersRestart
  <1>3. /\ server'.phase = server.phase /\ server'.context = server.context
        /\ server.phase = "down" => server' = server
        /\ server'.job = "relay" => /\ pc' = "generating" /\ server.context = target
    BY <1>1, TypesAreNamed
       DEF Forward, GenerationEnds, GenerationLost, Abandon, RestartInv, ServerIsSound,
           ForwardIsServed, Up, Stopped, ServerTypes
  <1>4. ServerIsSound'
    BY <1>2, <1>3 DEF RestartInv, ServerIsSound
  <1>5. OnlyWaitersRestart' /\ RestartIsForAwaited' /\ RestartedIsAwaited' /\ SeenIsRestarted'
        /\ ExpiredIsHopeless'
    BY <1>1, <1>2, <1>3 DEF OnlyWaitersRestart, RestartIsForAwaited, RestartedIsAwaited,
                            SeenIsRestarted, ExpiredIsHopeless, NoRestart, Waiting
  <1>6. CheckIsCurrent' /\ RestartIsDue' /\ NothingSeenYet'
    BY <1>1 DEF RestartInv, CheckIsCurrent, RestartIsDue, NothingSeenYet
  <1>7. ForwardIsServed' /\ TargetSuffices'
    BY <1>1, <1>3 DEF RestartInv, ForwardIsServed, TargetSuffices
  <1> QED BY <1>4, <1>5, <1>6, <1>7 DEF RestartInv

\* The helper stops an idle server and starts the awaited tier in its place.
LEMMA RestartHelps ==
    ASSUME TypeOK, RestartInv, NEW h \in Helpers, HelperStep(h)
    PROVE  RestartInv'
  <1>0. helper \in [Helpers -> HelperTypes] /\ Awaited \in Tiers
    BY TypesAreNamed DEF Awaited
  <1>1. /\ UNCHANGED <<probe, pc, needed, target, old, deadlinePassed>> /\ Seen' = Seen
        /\ helper[h] # NotRunning /\ Awaited' = Awaited
    BY DEF HelperStep, HelperStops, HelperStarts, NotRunning, Seen, Awaited
  <1>2. Waiting /\ Waiting' /\ helper[h].context = Awaited
        /\ \A g \in Helpers : g # h => helper[g] = NotRunning
    BY <1>1 DEF RestartInv, OnlyWaitersRestart, NoRestart, RestartIsForAwaited, Waiting
  <1>3. Seen.context # Awaited /\ ~deadlinePassed
    BY <1>1, <1>2 DEF RestartInv, SeenIsRestarted, ExpiredIsHopeless, NoRestart
  <1>4. SeenIsRestarted' /\ ExpiredIsHopeless'
    BY <1>1, <1>2, <1>3 DEF SeenIsRestarted, ExpiredIsHopeless, Waiting
  <1>5. CheckIsCurrent' /\ RestartIsDue' /\ NothingSeenYet' /\ TargetSuffices'
    BY <1>1, <1>2 DEF RestartInv, CheckIsCurrent, RestartIsDue, NothingSeenYet, TargetSuffices,
                      Waiting
  <1>6. CASE HelperStops(h)
    <2>1. server' = Stopped /\ helper' = [helper EXCEPT ![h].stage = "start"]
      BY <1>6 DEF HelperStops
    <2>2. /\ helper'[h].stage = "start" /\ helper'[h].context = helper[h].context
          /\ \A g \in Helpers : g # h => helper'[g] = helper[g]
      BY <1>0, <2>1 DEF HelperTypes
    <2>3. helper'[h] # NotRunning
      BY <2>2 DEF NotRunning
    <2>4. ServerIsSound' /\ ForwardIsServed'
      BY <2>1 DEF ServerIsSound, ForwardIsServed, Stopped
    <2>5. OnlyWaitersRestart' /\ RestartedIsAwaited'
      BY <1>2, <2>2, <2>3 DEF OnlyWaitersRestart, RestartedIsAwaited, NoRestart
    <2>6. RestartIsForAwaited'
      BY <1>1, <1>2, <2>1, <2>2 DEF RestartIsForAwaited, Stopped
    <2> QED BY <1>4, <1>5, <2>4, <2>5, <2>6 DEF RestartInv
  <1>7. CASE HelperStarts(h)
    <2>1. server.phase = "down"
      BY <1>1, <1>7 DEF HelperStarts, RestartInv, RestartIsForAwaited
    <2>2. server' = [phase |-> "loading", context |-> Awaited, job |-> "none"]
      BY <1>2, <1>7, <2>1 DEF HelperStarts
    <2>3. \A g \in Helpers : helper'[g] = NotRunning
      BY <1>0, <1>2, <1>7 DEF HelperStarts
    <2>4. ServerIsSound' /\ ForwardIsServed'
      BY <1>0, <1>1, <1>2, <2>2 DEF ServerIsSound, ForwardIsServed, Waiting
    <2>5. OnlyWaitersRestart' /\ RestartedIsAwaited' /\ RestartIsForAwaited'
      BY <1>1, <1>2, <2>2, <2>3
         DEF OnlyWaitersRestart, RestartedIsAwaited, RestartIsForAwaited, NoRestart
    <2> QED BY <1>4, <1>5, <2>4, <2>5 DEF RestartInv
  <1> QED BY <1>6, <1>7 DEF HelperStep

\* What the server does by itself: it finishes loading, dies, or ends what nobody awaits.
LEMMA RestartServer ==
    ASSUME TypeOK, RestartInv, Loaded \/ ServerDies \/ OrphanEnds
    PROVE  RestartInv'
  <1>1. /\ UNCHANGED <<helper, probe, pc, needed, target, old, deadlinePassed>>
        /\ Seen' = Seen /\ Awaited' = Awaited /\ Waiting' = Waiting
    BY DEF Loaded, ServerDies, OrphanEnds, Seen, Awaited, Waiting
  <1>2. TargetSuffices' /\ NothingSeenYet'
    BY <1>1 DEF RestartInv, TargetSuffices, NothingSeenYet
  <1>3. CASE ServerDies
    <2>1. server' = Stopped
      BY <1>3 DEF ServerDies
    <2>2. ServerIsSound' /\ CheckIsCurrent' /\ RestartIsDue' /\ ForwardIsServed'
      BY <2>1 DEF ServerIsSound, CheckIsCurrent, RestartIsDue, ForwardIsServed, Stopped
    <2>3. OnlyWaitersRestart' /\ RestartIsForAwaited' /\ RestartedIsAwaited' /\ SeenIsRestarted'
          /\ ExpiredIsHopeless'
      BY <1>1, <2>1 DEF RestartInv, OnlyWaitersRestart, RestartIsForAwaited, RestartedIsAwaited,
                        SeenIsRestarted, ExpiredIsHopeless, NoRestart, Stopped
    <2> QED BY <1>2, <2>2, <2>3 DEF RestartInv
  <1>4. CASE Loaded
    <2>1. /\ server.phase = "loading" /\ server'.phase = "up"
          /\ server'.context = server.context /\ server'.job = server.job
      BY <1>4, TypesAreNamed DEF Loaded, ServerTypes
    <2>2. Waiting /\ NoRestart /\ ~deadlinePassed /\ server.job = "none"
      BY <2>1 DEF RestartInv, OnlyWaitersRestart, NoRestart, RestartIsForAwaited,
                  ExpiredIsHopeless, ServerIsSound
    <2>3. ServerIsSound' /\ CheckIsCurrent' /\ RestartIsDue' /\ ForwardIsServed'
      BY <1>1, <2>1, <2>2 DEF RestartInv, ServerIsSound, CheckIsCurrent, RestartIsDue,
                              ForwardIsServed, Waiting
    <2>4. OnlyWaitersRestart' /\ RestartIsForAwaited' /\ RestartedIsAwaited' /\ SeenIsRestarted'
          /\ ExpiredIsHopeless'
      BY <1>1, <2>1, <2>2 DEF RestartInv, OnlyWaitersRestart, RestartIsForAwaited,
                              RestartedIsAwaited, SeenIsRestarted, ExpiredIsHopeless, NoRestart,
                              Waiting
    <2> QED BY <1>2, <2>3, <2>4 DEF RestartInv
  <1>5. CASE OrphanEnds
    <2>1. /\ server.job = "orphan" /\ server'.phase = server.phase
          /\ server'.context = server.context /\ server'.job = "none"
      BY <1>5, TypesAreNamed DEF OrphanEnds, ServerTypes
    <2>2. server.phase # "down"
      BY <2>1 DEF RestartInv, ServerIsSound, Stopped
    <2>3. ServerIsSound' /\ CheckIsCurrent' /\ RestartIsDue' /\ ForwardIsServed'
      BY <1>1, <2>1, <2>2 DEF RestartInv, ServerIsSound, CheckIsCurrent, RestartIsDue,
                              ForwardIsServed
    <2>4. OnlyWaitersRestart' /\ RestartIsForAwaited' /\ RestartedIsAwaited' /\ SeenIsRestarted'
          /\ ExpiredIsHopeless'
      BY <1>1, <2>1, <2>2 DEF RestartInv, OnlyWaitersRestart, RestartIsForAwaited,
                              RestartedIsAwaited, SeenIsRestarted, ExpiredIsHopeless, NoRestart
    <2> QED BY <1>2, <2>3, <2>4 DEF RestartInv
  <1> QED BY <1>3, <1>4, <1>5

\* Every step preserves the invariant, for the parts of a restart are dependable.
LEMMA RestartStep ==
    ASSUME Dependable
    PROVE  TypeOK /\ RestartInv /\ [Next]_vars => RestartInv'
  <1> SUFFICES ASSUME TypeOK, RestartInv, [Next]_vars PROVE RestartInv'
    OBVIOUS
  <1>1. ~Fault("probe") /\ ~Fault("spawn") /\ ~Fault("helper")
    BY DEF Dependable, Fault
  <1>2. ASSUME NEW n \in Tiers, Receive(n)
        PROVE  RestartInv'
    BY <1>2, RestartPrepares
  <1>3. CASE HandlerStep
    <2>1. \A a \in Actors : ~ProbeBreaks(a)
      BY <1>1 DEF ProbeBreaks
    <2>2. ReadProbe(Handler) => Reads(Handler)
      BY <2>1, Assumed DEF ReadProbe, Reads, SupervisorAssumptions
    <2>3. ~RestartFails /\ ~RollbackFails
      BY <1>1 DEF RestartFails, RollbackFails
    <2> QED BY <1>3, <2>2, <2>3, RestartRead, RestartPrepares, RestartBegins, RestartWaits,
               RestartForwards DEF HandlerStep
  <1>4. CASE Abandon
    BY <1>4, RestartForwards
  <1>5. ASSUME NEW m \in Monitors, MonitorStep(m)
        PROVE  RestartInv'
    <2>1. m \in Actors /\ m # Handler /\ Handler \in Actors /\ ~ProbeBreaks(m)
      BY <1>1, Assumed DEF SupervisorAssumptions, ProbeBreaks
    <2>2. UNCHANGED <<server, helper, pc, needed, target, old, deadlinePassed>>
      BY <1>5, <2>1, ReadIsTyped DEF MonitorStep, MonitorStarts, MonitorWrites, ReadProbe, Reads
    <2>3. Seen' = Seen
      <3>1. probe \in [Actors -> ProbeTypes]
        BY TypesAreNamed
      <3>2. CASE Reads(m)
        BY <2>1, <3>2, ReadIsTyped DEF Seen
      <3>3. CASE MonitorStarts(m) \/ MonitorWrites(m)
        BY <2>1, <3>1, <3>3 DEF MonitorStarts, MonitorWrites, Seen
      <3> QED BY <1>5, <2>1, <3>2, <3>3 DEF MonitorStep, ReadProbe, Reads
    <2> QED BY <2>2, <2>3, RestartStutter
  <1>6. ASSUME NEW h \in Helpers, HelperStep(h) \/ HelperThrows(h)
        PROVE  RestartInv'
    BY <1>1, <1>6, RestartHelps DEF HelperThrows
  <1>7. CASE Loaded \/ ServerDies \/ OrphanEnds
    BY <1>7, RestartServer
  <1>8. CASE DeadlinePasses
    BY <1>8, RestartWaits
  <1>9. CASE UNCHANGED vars
    BY <1>9, RestartStutter DEF vars, Seen
  <1> QED BY <1>2, <1>3, <1>4, <1>5, <1>6, <1>7, <1>8, <1>9 DEF Next

LEMMA RestartInvariant ==
    ASSUME Dependable
    PROVE  Spec => []RestartInv
  <1>1. Init => RestartInv
    BY RestartInit
  <1>2. TypeOK /\ RestartInv /\ [Next]_vars => RestartInv'
    BY RestartStep
  <1> QED BY <1>1, <1>2, TypeCorrect, PTL DEF Spec

\* switch_context and its detached helper: however the server crashes and whatever
\* monitors write, a forwarded request works at the tier its budget was computed for.
THEOREM GeneratesAtItsTarget ==
    ASSUME Dependable
    PROVE  Spec => []GeneratesAtTarget
  <1>1. TypeOK /\ RestartInv => GeneratesAtTarget
    <2> SUFFICES ASSUME TypeOK, RestartInv, pc = "generating", server.job = "relay"
                 PROVE  server.context = target /\ server.context >= needed
      BY DEF GeneratesAtTarget
    <2>1. server.context = target /\ needed <= target
      BY DEF RestartInv, ForwardIsServed, TargetSuffices
    <2>2. needed \in Nat /\ target \in Nat
      BY Assumed, TypesAreNamed DEF SupervisorAssumptions
    <2> QED BY <2>1, <2>2
  <1> QED BY <1>1, RestartInvariant, TypeCorrect, PTL

\* One physical server: a rollback begins only when the restart before it is over.
THEOREM RestartsDoNotOverlap ==
    ASSUME Dependable
    PROVE  Spec => []OneRestartAtATime
  <1>1. RestartInv => OneRestartAtATime
    <2> SUFFICES ASSUME RestartInv
                 PROVE  Cardinality({h \in Helpers : helper[h] # NotRunning}) <= 1
      BY DEF OneRestartAtATime
    <2> DEFINE Running == {h \in Helpers : helper[h] # NotRunning}
    <2>1. \A g, h \in Running : g = h
      BY DEF RestartInv, OnlyWaitersRestart
    <2>2. CASE Running = {}
      BY <2>2, FS_EmptySet
    <2>3. CASE Running # {}
      <3>1. PICK h \in Running : TRUE
        BY <2>3
      <3>2. Running = {h}
        BY <2>1, <3>1
      <3>3. Cardinality({h}) = 1
        BY FS_Singleton
      <3> QED BY <3>2, <3>3
    <2> QED BY <2>2, <2>3
  <1> QED BY <1>1, RestartInvariant, PTL

\* ensure_server_available: a request it let through keeps its server, no helper that
\* was started before is still on its way to it.
THEOREM EnsuredServersStay ==
    ASSUME Dependable
    PROVE  Spec => []EnsuredServerStays
  <1>1. RestartInv => EnsuredServerStays
    BY DEF RestartInv, OnlyWaitersRestart, NoRestart, Waiting, EnsuredServerStays
  <1> QED BY <1>1, RestartInvariant, PTL

\* Start-LocalQwen.ps1 stops whatever server it finds; it never finds one that works,
\* for the relay or for a client that left.
THEOREM WorkIsNotKilled ==
    ASSUME Dependable
    PROVE  Spec => NoWorkIsKilled
  <1>1. RestartInv /\ [Next]_vars => [\A h \in Helpers : HelperStops(h) => server.job = "none"]_vars
    <2> SUFFICES ASSUME RestartInv, NEW h \in Helpers, HelperStops(h)
                 PROVE  server.job = "none"
      OBVIOUS
    <2>1. helper[h] # NotRunning
      BY DEF HelperStops, NotRunning
    <2>2. server.phase = "down" \/ server.job = "none"
      BY <2>1 DEF RestartInv, RestartIsForAwaited
    <2> QED BY <2>2 DEF RestartInv, ServerIsSound, Stopped
  <1> QED BY <1>1, RestartInvariant, PTL DEF Spec, NoWorkIsKilled
=============================================================================
