--------------------------- MODULE ContextManager ---------------------------
(***************************************************************************)
(* ContextManager and the part of prepare_chat_request that drives it:     *)
(* refresh the server's tier, decide, make sure the tier is served, record *)
(* the request, send it, generate.  Requests pass one at a time            *)
(* (AdmissionGate).  The server is looked at three times, to decide, to    *)
(* check and by sending, and may be stopped or replaced between any two.   *)
(* A restart is asked for and awaited here; how the relay sees it come up, *)
(* read by read, is in Supervisor.                                         *)
(***************************************************************************)
EXTENDS ContextPolicy

CONSTANTS
    IdleDemote,          \* idle_demote_seconds
    MinInterval,         \* active_demotion_min_interval_seconds
    PressureThreshold,   \* active_demotion_pressure_threshold
    StreakNeeded,        \* active_demotion_streak
    PostCompactionCalls, \* values callers pass for post_compaction
    InitialContexts,     \* what the server may serve when the relay starts
    ManualContexts,      \* contexts, besides the tiers, that it may be started with
    Prompts, Limits, Reasonings, \* the requests: prompt, max_tokens, reasoning tokens
    MaxTime              \* bound on the clock

ASSUME TimesAssumption ==
    /\ IdleDemote \in Nat /\ MinInterval \in Nat /\ MaxTime \in Nat
    /\ PressureThreshold \in Nat
\* from_mapping also accepts a streak of 0, which switches the hysteresis off.
ASSUME StreakAssumption == StreakNeeded \in Nat \ {0}
ASSUME CallsAssumption == PostCompactionCalls \subseteq BOOLEAN
ASSUME ContextsAssumption ==
    InitialContexts \subseteq Nat \ {0} /\ ManualContexts \subseteq Nat \ {0}
ASSUME RequestsAssumption ==
    Prompts \subseteq Nat /\ Limits \subseteq Nat /\ Reasonings \subseteq Nat

VARIABLES
    now,                  \* the clock
    currentContext,       \* self.current_context
    lastRequestAt,        \* self.last_request_at
    lastSwitchAt,         \* self.last_switch_at, or Never
    lowPressureStreak,    \* self._low_pressure_streak
    pressureDropEligible, \* self._pressure_drop_eligible
    serverContext,        \* the tier the physical server serves, or Down
    phase,                \* how far the request is
    request,              \* its prompt, limit, reserve and required context
    decision,             \* the last ContextDecision
    maxTokens,            \* the outbound max_tokens
    replaced              \* history, read by no action: the server was stopped or
                          \* replaced since the request under way last looked at it

managerVars == <<currentContext, lastRequestAt, lastSwitchAt, lowPressureStreak,
                 pressureDropEligible>>
requestVars == <<phase, request, maxTokens, replaced>>
vars == <<now, managerVars, serverContext, requestVars, decision>>

Never == -1
Down == 0

\* Between "switching" and "ready" a restart is awaited; "rollingBack" awaits the one
\* that is to undo it; "ready" is everything between the check and urlopen.
Phases == {"none", "prepared", "switching", "rollingBack", "ready", "generating"}
Actions == {"none", "compact", "promote", "keep", "demote"}
Reasons == {"none", "max_physical_context_reached", "required_context_exceeds_current",
            "current_tier_satisfies_request", "server_idle_long_enough",
            "post_compaction_pressure_drop", "demotion_hysteresis"}

NoRequest == [prompt |-> 0, explicit |-> NoLimit, reserve |-> 0, required |-> 0]
NoDecision == [action |-> "none", reason |-> "none", target |-> NoTier]

Init ==
    /\ now = 0
    /\ currentContext \in InitialContexts
    /\ serverContext = currentContext
    /\ lastRequestAt = 0
    /\ lastSwitchAt = Never
    /\ lowPressureStreak = 0
    /\ pressureDropEligible = FALSE
    /\ phase = "none"
    /\ request = NoRequest
    /\ decision = NoDecision
    /\ maxTokens = 0
    /\ replaced = FALSE

-----------------------------------------------------------------------------
(* ContextManager.decision, for the context the server was just seen with. *)

\* Fault: the minimum interval since the last switch is not looked at.
IntervalIgnored == TRUE

IntervalOk == lastSwitchAt = Never \/ now - lastSwitchAt >= MinInterval

IdleLongEnough == now - lastRequestAt >= IdleDemote

\* The streak of low-pressure decisions once this one is counted in.
StreakAfter(required, target, postCompaction) ==
    IF /\ postCompaction
       /\ pressureDropEligible
       /\ 10 * required <= 8 * target
       /\ IntervalOk
    THEN lowPressureStreak + 1
    ELSE 0

Decide(required, current, postCompaction) ==
    LET target == ChooseTier(required)
        streak == StreakAfter(required, target, postCompaction)
        Is(action, reason, context, newStreak) ==
            /\ decision' = [action |-> action, reason |-> reason, target |-> context]
            /\ lowPressureStreak' = newStreak
    IN
    \/ /\ target = NoTier \/ required > MaxPhysicalContext
       /\ Is("compact", "max_physical_context_reached", NoTier, lowPressureStreak)
    \/ /\ target # NoTier /\ required <= MaxPhysicalContext
       /\ \/ /\ target > current
             /\ Is("promote", "required_context_exceeds_current", target, lowPressureStreak)
          \/ /\ target = current
             /\ Is("keep", "current_tier_satisfies_request", target, lowPressureStreak)
          \/ /\ target < current
             /\ \/ /\ IdleLongEnough
                   /\ Is("demote", "server_idle_long_enough", target, 0)
                \/ /\ ~IdleLongEnough
                   /\ streak >= StreakNeeded
                   /\ Is("demote", "post_compaction_pressure_drop", target, 0)
                \/ /\ ~IdleLongEnough
                   /\ streak < StreakNeeded
                   /\ Is("keep", "demotion_hysteresis", current, streak)

-----------------------------------------------------------------------------
(* prepare_chat_request *)

\* refresh_server_state: a dead server leaves the cached context in place.
SeenContext == IF serverContext # Down THEN serverContext ELSE currentContext

\* Everything up to ensure_server_available.  A compact decision and a rejected
\* explicit limit end the request with ContextCapacityError.
Prepare(prompt, explicit, reasoning, hasTools, postCompaction) ==
    LET reserve == CompletionReserve(explicit, reasoning, hasTools)
        required == RequiredContext(prompt, reserve)
        effective == EffectiveMaxTokens(explicit, decision'.target, prompt)
        refused == decision'.action = "compact" \/ effective = Rejected
    IN
    /\ phase = "none"
    /\ currentContext' = SeenContext
    /\ Decide(required, SeenContext, postCompaction)
    /\ phase' = IF refused THEN "none" ELSE "prepared"
    /\ request' = IF refused THEN NoRequest
                  ELSE [prompt |-> prompt, explicit |-> explicit,
                        reserve |-> reserve, required |-> required]
    /\ maxTokens' = IF refused THEN 0 ELSE effective
    /\ replaced' = FALSE
    /\ UNCHANGED <<now, lastRequestAt, lastSwitchAt, pressureDropEligible,
                   serverContext>>

\* The request ends, answered or refused.
EndRequest ==
    /\ phase' = "none"
    /\ request' = NoRequest
    /\ maxTokens' = 0
    /\ replaced' = FALSE

\* The relay has just seen the wanted tier served; the request may be sent.
Approve ==
    /\ phase' = "ready"
    /\ replaced' = FALSE
    /\ UNCHANGED <<request, maxTokens>>

\* record_request, which prepare_chat_request calls last.
RecordRequest ==
    /\ lastRequestAt' = now
    /\ pressureDropEligible' =
          (pressureDropEligible \/ request.prompt >= PressureThreshold)
    /\ lowPressureStreak' = IF request.prompt >= PressureThreshold THEN 0
                            ELSE lowPressureStreak

\* Fault: the tier is taken for granted once the request has been sized.
TakenForGranted ==
    /\ phase = "prepared"
    /\ currentContext' = SeenContext
    /\ RecordRequest
    /\ Approve
    /\ UNCHANGED <<now, lastSwitchAt, serverContext, decision>>

\* switch_context finds the wanted tier served.
Available ==
    /\ phase = "prepared"
    /\ serverContext = decision.target
    /\ currentContext' = SeenContext
    /\ RecordRequest
    /\ Approve
    /\ UNCHANGED <<now, lastSwitchAt, serverContext, decision>>

\* It finds the server generating for somebody else, an abandoned request for
\* instance: the request is refused, whatever tier it wants.
SwitchDeferred ==
    /\ phase = "prepared"
    /\ serverContext # Down
    /\ currentContext' = SeenContext
    /\ EndRequest
    /\ UNCHANGED <<now, lastRequestAt, lastSwitchAt, lowPressureStreak,
                   pressureDropEligible, serverContext, decision>>

\* It finds another tier, or no server: the helper is started and awaited.  What it
\* would roll back to is what it has just put into currentContext.
SwitchBegins ==
    /\ phase = "prepared"
    /\ serverContext # decision.target
    /\ currentContext' = SeenContext
    /\ phase' = "switching"
    /\ UNCHANGED <<now, lastRequestAt, lastSwitchAt, lowPressureStreak,
                   pressureDropEligible, serverContext, request, decision, maxTokens,
                   replaced>>

\* The wait sees the wanted tier: record_switch, then record_request.
SwitchSucceeds ==
    /\ phase = "switching"
    /\ serverContext = decision.target
    /\ currentContext' = decision.target
    /\ lastSwitchAt' = now
    /\ lastRequestAt' = now
    /\ pressureDropEligible' = (request.prompt >= PressureThreshold)
    /\ lowPressureStreak' = 0
    /\ Approve
    /\ UNCHANGED <<now, serverContext, decision>>

\* The helper could not be started, or the wait has expired: one rollback to the old
\* context.
SwitchFails ==
    /\ phase = "switching"
    /\ phase' = "rollingBack"
    /\ UNCHANGED <<now, managerVars, serverContext, request, decision, maxTokens, replaced>>

\* The rollback ends too, the old context served or not, and with it the request
\* (ContextSwitchError).  Nobody asks what becomes of the helpers.
RollBackEnds ==
    /\ phase = "rollingBack"
    /\ EndRequest
    /\ UNCHANGED <<now, managerVars, serverContext, decision>>

\* urlopen: whatever is served by now gets the request, and a dead server none.
Send ==
    /\ phase = "ready"
    /\ \/ /\ serverContext # Down
          /\ phase' = "generating"
          /\ UNCHANGED <<request, maxTokens, replaced>>
       \/ /\ serverContext = Down
          /\ EndRequest
    /\ UNCHANGED <<now, managerVars, serverContext, decision>>

\* The response has been relayed, or was abandoned.
Finish ==
    /\ phase = "generating"
    /\ EndRequest
    /\ UNCHANGED <<now, managerVars, serverContext, decision>>

-----------------------------------------------------------------------------
(* The environment. *)

Tick ==
    /\ now < MaxTime
    /\ now' = now + 1
    /\ UNCHANGED <<managerVars, serverContext, requestVars, decision>>

\* The server goes, a request in flight with it.
Becomes(context) ==
    /\ serverContext' = context
    /\ \/ /\ phase = "generating"
          /\ EndRequest
       \/ /\ phase # "generating"
          /\ replaced' = (phase # "none")
          /\ UNCHANGED <<phase, request, maxTokens>>
    /\ UNCHANGED <<now, managerVars, decision>>

\* It crashes, or the helper stops it and starts no other.
ServerDies ==
    /\ serverContext # Down
    /\ Becomes(Down)

\* The helper script replaces it: for the switch or the rollback that is awaited, late
\* for one that was given up, or run by hand.
Restarted == \E context \in Tiers \cup ManualContexts \cup InitialContexts : Becomes(context)

Next ==
    \/ \E prompt \in Prompts, explicit \in Limits \cup {NoLimit}, reasoning \in Reasonings,
          hasTools \in BOOLEAN, postCompaction \in PostCompactionCalls :
          Prepare(prompt, explicit, reasoning, hasTools, postCompaction)
    \/ Available
    \/ SwitchDeferred
    \/ SwitchBegins
    \/ SwitchSucceeds
    \/ SwitchFails
    \/ RollBackEnds
    \/ Send
    \/ Finish
    \/ Tick
    \/ ServerDies
    \/ Restarted

Spec == Init /\ [][Next]_vars

-----------------------------------------------------------------------------
(* Properties. *)

TypeOK ==
    /\ now \in 0..MaxTime
    /\ currentContext \in Nat \ {0}
    /\ lastRequestAt \in 0..now
    /\ lastSwitchAt \in (0..now) \cup {Never}
    /\ lowPressureStreak \in Nat
    /\ pressureDropEligible \in BOOLEAN
    /\ serverContext \in Nat
    /\ phase \in Phases
    /\ request \in [prompt : Nat, explicit : Nat \cup {NoLimit}, reserve : Nat, required : Nat]
    /\ decision \in [action : Actions, reason : Reasons, target : Nat]
    /\ maxTokens \in Nat
    /\ replaced \in BOOLEAN

\* What a server generates fits it: prompt, output allowance and safety margin never
\* exceed its context, although the allowance was computed before the tier was checked
\* or switched to, and the server may have crashed and come back in between as
\* something else.  This is for the server that switch_context saw last.  The
\* program does not look again before urlopen: one that is replaced in that window gets
\* the request unchecked, which the model allows and "replaced" marks.
FitsServedTier ==
    phase = "generating" /\ ~replaced =>
        request.prompt + maxTokens + SafetyMargin <= serverContext

\* The caller gets the output it was sized for: an explicit max_tokens arrives
\* unchanged, and an omitted one becomes at least the reserve the tier was chosen
\* with (unless the configuration caps the backend).
BudgetHonoured ==
    phase \in {"ready", "generating"} =>
        IF request.explicit # NoLimit
        THEN maxTokens = request.explicit
        ELSE maxTokens >= request.reserve \/ maxTokens = BackendCap

\* A healthy server is not taken down for a smaller tier soon after a switch, whatever
\* the decision was called: such a restart is asked for at least the minimum
\* interval, or the idle time, after the previous switch.  This is for the
\* server the decision was made about; one that was replaced before switch_context looks
\* is restarted at the tier that was decided for its predecessor.
NoFlapping ==
    [][/\ phase = "prepared" /\ phase' = "switching"
       /\ serverContext # Down
       /\ decision.target < serverContext
       /\ ~replaced
       /\ lastSwitchAt # Never
       => \/ now - lastSwitchAt >= MinInterval
          \/ now - lastSwitchAt >= IdleDemote]_vars
=============================================================================
