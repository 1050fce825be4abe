----------------------------- MODULE Supervisor -----------------------------
(***************************************************************************)
(* How the relay supervises the one physical llama-server: the three-read  *)
(* probe, refresh_server_state, switch_context with its detached restart   *)
(* helper, its wait and its single rollback (local_brain_runtime.py), the  *)
(* helper script (Start-LocalQwen.ps1) and the server itself.  The Handler *)
(* is the request that holds the admission slot; Monitors are the /health  *)
(* and /vc-local-brain/status threads, which probe without the slot.       *)
(*                                                                         *)
(* ContextManager.decision is reduced to what a restart depends on: the    *)
(* smallest sufficient tier, or the current one while demotion is held     *)
(* back.  ContextManager has the whole policy.                             *)
(***************************************************************************)
EXTENDS Integers, FiniteSets

CONSTANTS
    Tiers,          \* the physical context tiers
    Handler,        \* the request that holds the admission slot
    Monitors,       \* concurrent health and status requests
    Helpers,        \* identities of helper processes, at most this many at once
    FaultKinds,     \* which faults may happen, of AllFaults
    MaxFaults,      \* bound on how many do
    InitialPhases,  \* what the server may be doing when the relay starts
    SlowStarts      \* TRUE: 240 s may pass before a restart has completed

AllFaults == {"crash", "load", "helper", "spawn", "abandon", "probe"}
Phases == {"down", "loading", "up"}

ASSUME TiersAssumption == Tiers \subseteq Nat \ {0} /\ Tiers # {}
ASSUME ActorsAssumption == Handler \notin Monitors
ASSUME FaultsAssumption == FaultKinds \subseteq AllFaults /\ MaxFaults \in Nat
ASSUME InitialAssumption == InitialPhases \subseteq Phases
ASSUME SlowStartsAssumption == SlowStarts \in BOOLEAN

VARIABLES
    server,          \* the llama-server process: phase, tier and what it works on
    helper,          \* the running helper processes
    probe,           \* the probe each actor is in the middle of
    pc,              \* where the Handler is
    needed,          \* the tier its request needs
    target,          \* the tier it asks switch_context for
    old,             \* old_context, where a failed switch rolls back to
    currentContext,  \* ContextManager.current_context, shared and unlocked
    deadlinePassed,  \* the 240 s of _wait_for_context are over
    faults           \* how many faults have happened

vars == <<server, helper, probe, pc, needed, target, old, currentContext,
          deadlinePassed, faults>>

Actors == Monitors \cup {Handler}
NoContext == 0

Stopped == [phase |-> "down", context |-> NoContext, job |-> "none"]
NotRunning == [stage |-> "none", context |-> NoContext]
ProbeOff == [at |-> "off", healthy |-> FALSE, context |-> NoContext, processing |-> FALSE]
ProbeStart == [ProbeOff EXCEPT !.at = "health"]

Init ==
    /\ \E p \in InitialPhases, c \in Tiers :
          server = IF p = "down" THEN Stopped
                   ELSE [phase |-> p, context |-> c, job |-> "none"]
    /\ helper = [h \in Helpers |-> NotRunning]
    /\ probe = [a \in Actors |-> ProbeOff]
    /\ pc = "idle"
    /\ needed \in Tiers
    /\ target = needed
    /\ old = needed
    /\ currentContext \in Tiers
    /\ deadlinePassed = FALSE
    /\ faults = 0

-----------------------------------------------------------------------------
(* Faults and probes. *)

Fault(kind) ==
    /\ kind \in FaultKinds
    /\ faults < MaxFaults
    /\ faults' = faults + 1

Up == server.phase = "up"

\* GET /health: 200 and "ok" only when the model is loaded.
ReadHealth(a) ==
    /\ probe[a].at = "health"
    /\ \/ probe' = [probe EXCEPT ![a].at = "slots", ![a].healthy = Up]
          /\ UNCHANGED faults
       \/ probe' = [probe EXCEPT ![a].at = "slots"]
          /\ Fault("probe")
    /\ UNCHANGED <<server, helper, pc, needed, target, old, currentContext, deadlinePassed>>

\* GET /slots: the served context, and whether a slot is processing.
ReadSlots(a) ==
    /\ probe[a].at = "slots"
    /\ \/ /\ Up
          /\ probe' = [probe EXCEPT ![a].at = "done",
                                    ![a].context = server.context,
                                    ![a].processing = (server.job # "none")]
          /\ UNCHANGED faults
       \/ /\ ~Up
          /\ probe' = [probe EXCEPT ![a].at = "models"]
          /\ UNCHANGED faults
       \/ /\ probe' = [probe EXCEPT ![a].at = "models"]
          /\ Fault("probe")
    /\ UNCHANGED <<server, helper, pc, needed, target, old, currentContext, deadlinePassed>>

\* GET /v1/models, the fallback: it knows the context but not the slots.
ReadModels(a) ==
    /\ probe[a].at = "models"
    /\ \/ probe' = [probe EXCEPT ![a].at = "done",
                                 ![a].context = IF Up THEN server.context ELSE NoContext]
          /\ UNCHANGED faults
       \/ probe' = [probe EXCEPT ![a].at = "done"]
          /\ Fault("probe")
    /\ UNCHANGED <<server, helper, pc, needed, target, old, currentContext, deadlinePassed>>

\* A connection that breaks while a body is being read raises what probe_server
\* does not catch: the probe ends without a result.  _wait_for_context shrugs it
\* off; any other request ends with it.
ProbeBreaks(a) ==
    /\ probe[a].at \in {"health", "slots", "models"}
    /\ Fault("probe")
    /\ probe' = [probe EXCEPT ![a] = ProbeOff]
    /\ pc' = IF a = Handler /\ pc \in {"refresh", "check"} THEN "idle" ELSE pc
    /\ UNCHANGED <<server, helper, needed, target, old, currentContext, deadlinePassed>>

Probed(a) == probe[a].at = "done"

\* refresh_server_state's unlocked assignment, once the probe is complete.
RefreshedContext(a) ==
    IF probe[a].context # NoContext THEN probe[a].context ELSE currentContext

MonitorStarts(m) ==
    /\ probe[m].at = "off"
    /\ probe' = [probe EXCEPT ![m] = ProbeStart]
    /\ UNCHANGED <<server, helper, pc, needed, target, old, currentContext, deadlinePassed,
                   faults>>

MonitorWrites(m) ==
    /\ Probed(m)
    /\ currentContext' = RefreshedContext(m)
    /\ probe' = [probe EXCEPT ![m] = ProbeOff]
    /\ UNCHANGED <<server, helper, pc, needed, target, old, deadlinePassed, faults>>

-----------------------------------------------------------------------------
(* The Handler: prepare_chat_request and switch_context. *)

Receive(n) ==
    /\ pc = "idle"
    /\ needed' = n
    /\ pc' = "refresh"
    /\ probe' = [probe EXCEPT ![Handler] = ProbeStart]
    /\ UNCHANGED <<server, helper, target, old, currentContext, deadlinePassed, faults>>

Refresh ==
    /\ pc = "refresh"
    /\ Probed(Handler)
    /\ currentContext' = RefreshedContext(Handler)
    /\ pc' = "decide"
    /\ UNCHANGED <<server, helper, probe, needed, target, old, deadlinePassed, faults>>

\* The decision, then the probe at the head of switch_context.
Decide ==
    /\ pc = "decide"
    /\ target' \in IF needed < currentContext THEN {needed, currentContext} ELSE {needed}
    /\ pc' = "check"
    /\ probe' = [probe EXCEPT ![Handler] = ProbeStart]
    /\ UNCHANGED <<server, helper, needed, old, currentContext, deadlinePassed, faults>>

Ready(context) ==
    /\ probe[Handler].healthy
    /\ probe[Handler].context = context
    /\ ~probe[Handler].processing

\* Fault: a server that is still generating is restarted all the same.
CheckIgnoresProcessing ==
    /\ pc = "check"
    /\ Probed(Handler)
    /\ currentContext' = RefreshedContext(Handler)
    /\ old' = RefreshedContext(Handler)
    /\ pc' = IF Ready(target) THEN "forward" ELSE "restart"
    /\ probe' = [probe EXCEPT ![Handler] = ProbeOff]
    /\ UNCHANGED <<server, helper, needed, target, deadlinePassed, faults>>

\* Fault: the probe is not compared with the wanted tier.
CheckAcceptsAnyTier ==
    /\ pc = "check"
    /\ Probed(Handler)
    /\ currentContext' = RefreshedContext(Handler)
    /\ old' = RefreshedContext(Handler)
    /\ pc' = CASE probe[Handler].healthy /\ ~probe[Handler].processing -> "forward"
               [] probe[Handler].processing -> "idle"
               [] OTHER -> "restart"
    /\ probe' = [probe EXCEPT ![Handler] = ProbeOff]
    /\ UNCHANGED <<server, helper, needed, target, deadlinePassed, faults>>

Check ==
    /\ pc = "check"
    /\ Probed(Handler)
    /\ currentContext' = RefreshedContext(Handler)
    /\ old' = RefreshedContext(Handler)
    /\ pc' = CASE Ready(target) -> "forward"
               [] ~Ready(target) /\ probe[Handler].processing -> "idle"
               [] OTHER -> "restart"
    /\ probe' = [probe EXCEPT ![Handler] = ProbeOff]
    /\ UNCHANGED <<server, helper, needed, target, deadlinePassed, faults>>

\* _run_restart detaches a helper and does not wait for it.
Spawn(h, context) ==
    /\ helper[h] = NotRunning
    /\ helper' = [helper EXCEPT ![h] = [stage |-> "stop", context |-> context]]
    /\ deadlinePassed' = FALSE

\* Fault: the helper is started for the tier that is already served.
RestartUnchanged(h) ==
    /\ pc = "restart"
    /\ Spawn(h, old)
    /\ pc' = "wait"
    /\ UNCHANGED <<server, probe, needed, target, old, currentContext, faults>>

RunRestart(h) ==
    /\ pc = "restart"
    /\ Spawn(h, target)
    /\ pc' = "wait"
    /\ UNCHANGED <<server, probe, needed, target, old, currentContext, faults>>

\* The helper cannot be started, or is seen to exit with an error within 0.2 s, maybe
\* after it has stopped the server.
RestartFails ==
    /\ pc = "restart"
    /\ Fault("spawn")
    /\ pc' = "rollback"
    /\ server' \in {server, Stopped}
    /\ UNCHANGED <<helper, probe, needed, target, old, currentContext, deadlinePassed>>

\* Exactly one recovery attempt.
RunRollback(h) ==
    /\ pc = "rollback"
    /\ Spawn(h, old)
    /\ pc' = "waitback"
    /\ UNCHANGED <<server, probe, needed, target, old, currentContext, faults>>

RollbackFails ==
    /\ pc = "rollback"
    /\ Fault("spawn")
    /\ pc' = "idle"
    /\ server' \in {server, Stopped}
    /\ UNCHANGED <<helper, probe, needed, target, old, currentContext, deadlinePassed>>

Awaited == IF pc = "wait" THEN target ELSE old

\* Fault: the wait takes any healthy server for the new one.
WaitAcceptsAnyTier ==
    /\ pc \in {"wait", "waitback"}
    /\ Probed(Handler)
    /\ probe' = [probe EXCEPT ![Handler] = ProbeOff]
    /\ IF probe[Handler].healthy
       THEN /\ currentContext' = Awaited
            /\ pc' = IF pc = "wait" THEN "forward" ELSE "idle"
       ELSE UNCHANGED <<currentContext, pc>>
    /\ UNCHANGED <<server, helper, needed, target, old, deadlinePassed, faults>>

\* One turn of _wait_for_context: poll until ready ...
Poll ==
    /\ pc \in {"wait", "waitback"}
    /\ probe[Handler].at = "off"
    /\ ~deadlinePassed
    /\ probe' = [probe EXCEPT ![Handler] = ProbeStart]
    /\ UNCHANGED <<server, helper, pc, needed, target, old, currentContext, deadlinePassed,
                   faults>>

\* ... which records the switch, or the rollback with the request still refused ...
PollAnswered ==
    /\ pc \in {"wait", "waitback"}
    /\ Probed(Handler)
    /\ probe' = [probe EXCEPT ![Handler] = ProbeOff]
    /\ IF Ready(Awaited)
       THEN /\ currentContext' = Awaited
            /\ pc' = IF pc = "wait" THEN "forward" ELSE "idle"
       ELSE UNCHANGED <<currentContext, pc>>
    /\ UNCHANGED <<server, helper, needed, target, old, deadlinePassed, faults>>

\* Fault: the deadline is never looked at.
WaitsOn == FALSE

\* ... or until the deadline has passed.
WaitExpires ==
    /\ pc \in {"wait", "waitback"}
    /\ probe[Handler].at = "off"
    /\ deadlinePassed
    /\ pc' = IF pc = "wait" THEN "rollback" ELSE "idle"
    /\ UNCHANGED <<server, helper, probe, needed, target, old, currentContext,
                   deadlinePassed, faults>>

\* The request reaches the server, or is answered 503.
Forward ==
    /\ pc = "forward"
    /\ server' = IF Up THEN [server EXCEPT !.job = "relay"] ELSE server
    /\ pc' = IF Up THEN "generating" ELSE "idle"
    /\ UNCHANGED <<helper, probe, needed, target, old, currentContext, deadlinePassed, faults>>

GenerationEnds ==
    /\ pc = "generating"
    /\ server.job = "relay"
    /\ server' = [server EXCEPT !.job = "none"]
    /\ pc' = "idle"
    /\ UNCHANGED <<helper, probe, needed, target, old, currentContext, deadlinePassed, faults>>

\* The connection to the server breaks.
GenerationLost ==
    /\ pc = "generating"
    /\ server.job # "relay"
    /\ pc' = "idle"
    /\ UNCHANGED <<server, helper, probe, needed, target, old, currentContext,
                   deadlinePassed, faults>>

\* The client goes away or the relay's 185 s run out; the server works on for a while.
Abandon ==
    /\ pc = "generating"
    /\ server.job = "relay"
    /\ Fault("abandon")
    /\ server' = [server EXCEPT !.job = "orphan"]
    /\ pc' = "idle"
    /\ UNCHANGED <<helper, probe, needed, target, old, currentContext, deadlinePassed>>

-----------------------------------------------------------------------------
(* The helper script, the server and the clock. *)

\* Stop-Process on the matching server, if there is one.
HelperStops(h) ==
    /\ helper[h].stage = "stop"
    /\ server' = Stopped
    /\ helper' = [helper EXCEPT ![h].stage = "start"]
    /\ UNCHANGED <<probe, pc, needed, target, old, currentContext, deadlinePassed, faults>>

\* Start-Process, unless a server is (again) running, which ends the script.
HelperStarts(h) ==
    /\ helper[h].stage = "start"
    /\ server' = IF server.phase = "down"
                 THEN [phase |-> "loading", context |-> helper[h].context, job |-> "none"]
                 ELSE server
    /\ helper' = [helper EXCEPT ![h] = NotRunning]
    /\ UNCHANGED <<probe, pc, needed, target, old, currentContext, deadlinePassed, faults>>

\* A throw in the script: a missing file, a process that does not stop, no handle.
HelperThrows(h) ==
    /\ helper[h] # NotRunning
    /\ Fault("helper")
    /\ helper' = [helper EXCEPT ![h] = NotRunning]
    /\ UNCHANGED <<server, probe, pc, needed, target, old, currentContext, deadlinePassed>>

Loaded ==
    /\ server.phase = "loading"
    /\ server' = [server EXCEPT !.phase = "up"]
    /\ UNCHANGED <<helper, probe, pc, needed, target, old, currentContext, deadlinePassed,
                   faults>>

ServerDies ==
    /\ \/ server.phase = "loading" /\ Fault("load")
       \/ server.phase = "up" /\ Fault("crash")
    /\ server' = Stopped
    /\ UNCHANGED <<helper, probe, pc, needed, target, old, currentContext, deadlinePassed>>

OrphanEnds ==
    /\ server.job = "orphan"
    /\ server' = [server EXCEPT !.job = "none"]
    /\ UNCHANGED <<helper, probe, pc, needed, target, old, currentContext, deadlinePassed,
                   faults>>

\* Nothing is under way that would still bring up the awaited tier.
Hopeless ==
    /\ \A h \in Helpers : helper[h] = NotRunning
    /\ server.phase # "loading"
    /\ ~(Up /\ server.context = Awaited /\ server.job = "none")

DeadlinePasses ==
    /\ pc \in {"wait", "waitback"}
    /\ ~deadlinePassed
    /\ SlowStarts \/ Hopeless
    /\ deadlinePassed' = TRUE
    /\ UNCHANGED <<server, helper, probe, pc, needed, target, old, currentContext, faults>>

-----------------------------------------------------------------------------

ReadProbe(a) == ReadHealth(a) \/ ReadSlots(a) \/ ReadModels(a) \/ ProbeBreaks(a)

\* What the Handler's thread does next.
HandlerStep ==
    \/ ReadProbe(Handler)
    \/ Refresh \/ Decide \/ Check
    \/ (\E h \in Helpers : RunRestart(h)) \/ RestartFails
    \/ (\E h \in Helpers : RunRollback(h)) \/ RollbackFails
    \/ Poll \/ PollAnswered \/ WaitExpires
    \/ Forward \/ GenerationEnds \/ GenerationLost

MonitorStep(m) == MonitorStarts(m) \/ ReadProbe(m) \/ MonitorWrites(m)

HelperStep(h) == HelperStops(h) \/ HelperStarts(h)

Next ==
    \/ \E n \in Tiers : Receive(n)
    \/ HandlerStep
    \/ Abandon
    \/ \E m \in Monitors : MonitorStep(m)
    \/ \E h \in Helpers : HelperStep(h) \/ HelperThrows(h)
    \/ Loaded \/ ServerDies \/ OrphanEnds
    \/ DeadlinePasses

Spec == Init /\ [][Next]_vars

\* Threads run, a started helper and a loading model get somewhere, an abandoned
\* generation ends, and time passes.
FairSpec ==
    /\ Spec
    /\ WF_vars(HandlerStep)
    /\ \A h \in Helpers : WF_vars(HelperStep(h))
    /\ WF_vars(Loaded)
    /\ WF_vars(OrphanEnds)
    /\ WF_vars(DeadlinePasses)

-----------------------------------------------------------------------------
(* Properties. *)

TypeOK ==
    /\ server \in [phase : Phases, context : Tiers \cup {NoContext},
                   job : {"none", "relay", "orphan"}]
    /\ helper \in [Helpers -> [stage : {"none", "stop", "start"},
                               context : Tiers \cup {NoContext}]]
    /\ probe \in [Actors -> [at : {"off", "health", "slots", "models", "done"},
                             healthy : BOOLEAN, context : Tiers \cup {NoContext},
                             processing : BOOLEAN]]
    /\ pc \in {"idle", "refresh", "decide", "check", "restart", "wait", "rollback",
               "waitback", "forward", "generating"}
    /\ needed \in Tiers /\ target \in Tiers /\ old \in Tiers /\ currentContext \in Tiers
    /\ deadlinePassed \in BOOLEAN
    /\ faults \in 0..MaxFaults

\* While a forwarded request generates, the server works for it at the tier its
\* output budget was computed for, whatever probes, monitors and restarts did.
GeneratesAtTarget ==
    pc = "generating" /\ server.job = "relay" =>
        server.context = target /\ server.context >= needed

\* No helper stops a server that is generating, be it for the relay's request or
\* for one that was abandoned.
NoWorkIsKilled ==
    [][\A h \in Helpers : HelperStops(h) => server.job = "none"]_vars

\* There is deliberately one physical server: restarts never overlap.
OneRestartAtATime ==
    Cardinality({h \in Helpers : helper[h] # NotRunning}) <= 1

\* A request that ensure_server_available let through has no restart hanging over
\* it: the healthy server it was promised stays.
EnsuredServerStays ==
    pc = "generating" => \A h \in Helpers : helper[h] = NotRunning

\* The policy decides on the context the server was just seen to serve.
PolicyUsesActualContext ==
    pc = "decide" /\ probe[Handler].context # NoContext =>
        currentContext = probe[Handler].context

\* Every request ends: served, refused or lost.
RequestEnds == pc # "idle" ~> pc = "idle"

\* Once faults have stopped, a request that starts with nobody else's work on the
\* server is served, whatever state the faults left behind.
ServedOnceFaultsStop ==
    (faults = MaxFaults /\ pc = "refresh" /\ server.job = "none") ~> pc = "generating"
=============================================================================
