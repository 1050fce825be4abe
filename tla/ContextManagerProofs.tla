----------------------- MODULE ContextManagerProofs -----------------------
(***************************************************************************)
(* The sizing rules and the budget of a forwarded request, for every set   *)
(* of tiers, every configuration and every request.                        *)
(***************************************************************************)
EXTENDS ContextManager, WellFoundedInduction, TLAPS

-----------------------------------------------------------------------------
(* Lemmas about the sizing rules. *)

\* Every non-empty set of naturals has a least element.
LEMMA LeastElement ==
    ASSUME NEW S \in SUBSET Nat, S # {}
    PROVE  \E m \in S : \A n \in S : m <= n
<1> DEFINE R == OpToRel(<, Nat)
<1>1. IsWellFoundedOn(R, Nat)
  BY NatLessThanWellFounded
<1>2. \A n, m \in Nat : <<n, m>> \in R <=> n < m
  BY DEF OpToRel
<1> HIDE DEF R
<1>3. PICK m \in S : \A n \in S : ~ (<<n, m>> \in R)
  BY <1>1, WFMin
<1>4. \A n \in S : m <= n
  <2> SUFFICES ASSUME NEW n \in S PROVE m <= n
    OBVIOUS
  <2>1. n \in Nat /\ m \in Nat /\ ~(n < m)
    BY <1>2, <1>3
  <2> QED BY <2>1
<1> QED BY <1>4

\* choose_context_tier returns the smallest tier that holds the request, and
\* nothing only when no tier does.
LEMMA ChooseTierIsLeastFit ==
    ASSUME NEW required \in Nat
    PROVE  /\ ChooseTier(required) \in Nat
           /\ ChooseTier(required) = NoTier <=> \A t \in Tiers : t < required
           /\ ChooseTier(required) # NoTier =>
                 /\ ChooseTier(required) \in Tiers
                 /\ required <= ChooseTier(required)
                 /\ \A t \in Tiers : required <= t => ChooseTier(required) <= t
<1> DEFINE Fit == FittingTiers(required)
<1>1. Fit \in SUBSET Nat /\ \A t \in Fit : t # 0
  BY TiersAssumption DEF FittingTiers
<1>2. Fit = {} <=> \A t \in Tiers : t < required
  <2>1. \A t \in Tiers : t \in Nat /\ (t >= required <=> ~(t < required))
    BY TiersAssumption
  <2>2. \A t \in Tiers : t \in Fit <=> ~(t < required)
    BY <2>1 DEF FittingTiers
  <2>3. Fit \subseteq Tiers
    BY DEF FittingTiers
  <2> QED BY <2>2, <2>3
<1>3. CASE Fit = {}
  BY <1>2, <1>3 DEF ChooseTier, NoTier
<1>4. CASE Fit # {}
  <2> DEFINE m == CHOOSE t \in Fit : \A u \in Fit : t <= u
  <2>1. \E t \in Fit : \A u \in Fit : t <= u
    BY <1>1, <1>4, LeastElement
  <2>2. m \in Fit /\ \A u \in Fit : m <= u
    BY <2>1
  <2>3. ChooseTier(required) = m
    BY <1>4 DEF ChooseTier
  <2> HIDE DEF m
  <2>4. m # NoTier /\ m \in Nat
    BY <1>1, <2>2 DEF NoTier
  <2>5. m \in Tiers /\ required <= m /\ \A t \in Tiers : required <= t => m <= t
    BY <2>2 DEF FittingTiers
  <2>6. ~ \A t \in Tiers : t < required
    BY <1>2, <1>4
  <2> QED BY <2>3, <2>4, <2>5, <2>6
<1> QED BY <1>3, <1>4

\* An accepted allowance leaves the prompt and the safety margin room in the tier.
LEMMA EffectiveFits ==
    ASSUME NEW explicit \in Nat \cup {NoLimit}, NEW ctx \in Nat, NEW prompt \in Nat,
           prompt + SafetyMargin <= ctx,
           EffectiveMaxTokens(explicit, ctx, prompt) # Rejected
    PROVE  /\ EffectiveMaxTokens(explicit, ctx, prompt) \in Nat
           /\ prompt + EffectiveMaxTokens(explicit, ctx, prompt) + SafetyMargin <= ctx
<1>1. SafetyMargin \in Nat /\ BackendCap \in Nat \cup {NoLimit}
  BY SafetyMarginAssumption, BackendCapAssumption
<1>2. /\ SafeCapacity(ctx, prompt) \in Nat
      /\ prompt + SafeCapacity(ctx, prompt) + SafetyMargin <= ctx
  BY <1>1 DEF SafeCapacity
<1>3. /\ CappedCapacity(ctx, prompt) \in Nat
      /\ CappedCapacity(ctx, prompt) <= SafeCapacity(ctx, prompt)
  BY <1>1, <1>2 DEF CappedCapacity, NoLimit
<1>4. CASE explicit = NoLimit
  <2>1. EffectiveMaxTokens(explicit, ctx, prompt) = CappedCapacity(ctx, prompt)
    BY <1>4 DEF EffectiveMaxTokens
  <2> QED BY <1>1, <1>2, <1>3, <2>1
<1>5. CASE explicit # NoLimit
  <2>1. /\ explicit <= CappedCapacity(ctx, prompt)
        /\ EffectiveMaxTokens(explicit, ctx, prompt) = explicit
    BY <1>5 DEF EffectiveMaxTokens
  <2> QED BY <1>1, <1>2, <1>3, <1>5, <2>1
<1> QED BY <1>4, <1>5

\* An explicit limit is kept exactly; an omitted one gets at least the reserve when
\* the tier holds the required context, unless the backend is capped.
LEMMA EffectiveHonoursRequest ==
    ASSUME NEW explicit \in Nat \cup {NoLimit}, NEW ctx \in Nat, NEW prompt \in Nat,
           NEW reserve \in Nat, RequiredContext(prompt, reserve) <= ctx,
           EffectiveMaxTokens(explicit, ctx, prompt) # Rejected
    PROVE  IF explicit # NoLimit
           THEN EffectiveMaxTokens(explicit, ctx, prompt) = explicit
           ELSE \/ EffectiveMaxTokens(explicit, ctx, prompt) >= reserve
                \/ EffectiveMaxTokens(explicit, ctx, prompt) = BackendCap
<1>1. SafetyMargin \in Nat /\ BackendCap \in Nat \cup {NoLimit}
  BY SafetyMarginAssumption, BackendCapAssumption
<1>2. SafeCapacity(ctx, prompt) >= reserve
  BY <1>1 DEF SafeCapacity, RequiredContext
<1>3. CASE explicit = NoLimit
  <2>1. EffectiveMaxTokens(explicit, ctx, prompt) = CappedCapacity(ctx, prompt)
    BY <1>3 DEF EffectiveMaxTokens
  <2> QED BY <1>2, <1>3, <2>1 DEF CappedCapacity
<1>4. CASE explicit # NoLimit
  BY <1>4 DEF EffectiveMaxTokens
<1> QED BY <1>3, <1>4

-----------------------------------------------------------------------------
(* The inductive invariant. *)

Honoured ==
    IF request.explicit # NoLimit
    THEN maxTokens = request.explicit
    ELSE maxTokens >= request.reserve \/ maxTokens = BackendCap

Distance ==
    lastSwitchAt # Never =>
        now - lastSwitchAt >= MinInterval \/ now - lastSwitchAt >= IdleDemote

\* From the decision on, the request fits the tier it was sized for.
SizedInv ==
    phase \in {"prepared", "switching", "ready", "generating"} =>
        /\ decision.target # NoTier
        /\ request.prompt + maxTokens + SafetyMargin <= decision.target
        /\ Honoured

\* If the server has not been replaced since the decision, what would take it down a
\* tier was a demotion, which was allowed then (time only adds to that).
DistanceInv ==
    /\ phase = "prepared" /\ ~replaced
    /\ serverContext # Down /\ decision.target < serverContext
    => Distance

\* If it has not been replaced since the check, it serves the tier that was ensured.
ServedInv ==
    phase \in {"ready", "generating"} /\ ~replaced => serverContext = decision.target

IInv ==
    /\ TypeOK
    /\ SizedInv
    /\ DistanceInv
    /\ ServedInv
    /\ lastSwitchAt <= lastRequestAt

LEMMA ConstantTypes ==
    /\ IdleDemote \in Nat /\ MinInterval \in Nat /\ MaxTime \in Nat
    /\ PressureThreshold \in Nat /\ StreakNeeded \in Nat \ {0}
    /\ SafetyMargin \in Nat /\ VisibleReserveNoTools \in Nat /\ VisibleReserveWithTools \in Nat
    /\ MaxPhysicalContext \in Nat
    /\ Prompts \subseteq Nat /\ Limits \subseteq Nat /\ Reasonings \subseteq Nat
    /\ InitialContexts \subseteq Nat \ {0} /\ ManualContexts \subseteq Nat \ {0}
    /\ PostCompactionCalls \subseteq BOOLEAN
BY TimesAssumption, StreakAssumption, SafetyMarginAssumption, ReserveAssumption,
   MaxPhysicalContextAssumption, RequestsAssumption, ContextsAssumption, CallsAssumption

LEMMA InitInv == Init => IInv
<1> SUFFICES ASSUME Init PROVE IInv
  OBVIOUS
<1>1. TypeOK
  <2>1. now \in 0..MaxTime /\ currentContext \in Nat \ {0} /\ serverContext \in Nat
    BY ConstantTypes DEF Init
  <2>2. request \in [prompt : Nat, explicit : Nat \cup {NoLimit}, reserve : Nat, required : Nat]
    BY DEF Init, NoRequest
  <2>3. decision \in [action : Actions, reason : Reasons, target : Nat]
    BY DEF Init, NoDecision, NoTier, Actions, Reasons
  <2>4. /\ lastRequestAt \in 0..now
        /\ lastSwitchAt \in (0..now) \cup {Never}
        /\ lowPressureStreak \in Nat /\ maxTokens \in Nat
    BY DEF Init, Never
  <2>5. pressureDropEligible \in BOOLEAN /\ phase \in Phases /\ replaced \in BOOLEAN
    BY DEF Init, Phases
  <2> QED BY <2>1, <2>2, <2>3, <2>4, <2>5 DEF TypeOK
<1>2. SizedInv /\ DistanceInv /\ ServedInv /\ lastSwitchAt <= lastRequestAt
  BY DEF Init, SizedInv, DistanceInv, ServedInv, Never
<1> QED BY <1>1, <1>2 DEF IInv

\* What a decision promises, whichever branch took it.
LEMMA DecisionFits ==
    ASSUME IInv, NEW required \in Nat, NEW current \in Nat, NEW post \in BOOLEAN,
           Decide(required, current, post)
    PROVE  /\ decision' \in [action : Actions, reason : Reasons, target : Nat]
           /\ lowPressureStreak' \in Nat
           /\ decision'.action # "compact" =>
                 decision'.target # NoTier /\ required <= decision'.target
           /\ decision'.action # "compact" /\ decision'.target < current => Distance
<1> DEFINE target == ChooseTier(required)
           streak == StreakAfter(required, target, post)
<1>1. /\ target \in Nat
      /\ target # NoTier => required <= target
  BY ChooseTierIsLeastFit
<1>2. /\ lowPressureStreak \in Nat /\ now \in Nat /\ lastRequestAt \in 0..now
      /\ lastSwitchAt \in (0..now) \cup {Never} /\ lastSwitchAt <= lastRequestAt
  BY DEF IInv, TypeOK
<1>3. /\ streak \in Nat
      /\ streak # 0 => IntervalOk
  BY <1>2 DEF StreakAfter
<1> HIDE DEF target, streak
<1>4. \/ decision' = [action |-> "compact", reason |-> "max_physical_context_reached",
                      target |-> NoTier]
         /\ lowPressureStreak' = lowPressureStreak
      \/ /\ target # NoTier
         /\ \/ /\ target > current
               /\ decision' = [action |-> "promote", target |-> target,
                               reason |-> "required_context_exceeds_current"]
               /\ lowPressureStreak' = lowPressureStreak
            \/ /\ target = current
               /\ decision' = [action |-> "keep", target |-> target,
                               reason |-> "current_tier_satisfies_request"]
               /\ lowPressureStreak' = lowPressureStreak
            \/ /\ IdleLongEnough
               /\ decision' = [action |-> "demote", target |-> target,
                               reason |-> "server_idle_long_enough"]
               /\ lowPressureStreak' = 0
            \/ /\ streak >= StreakNeeded
               /\ decision' = [action |-> "demote", target |-> target,
                               reason |-> "post_compaction_pressure_drop"]
               /\ lowPressureStreak' = 0
            \/ /\ target < current
               /\ decision' = [action |-> "keep", target |-> current,
                               reason |-> "demotion_hysteresis"]
               /\ lowPressureStreak' = streak
  BY DEF Decide, target, streak
<1>5. /\ decision' \in [action : Actions, reason : Reasons, target : Nat]
      /\ lowPressureStreak' \in Nat
  BY <1>1, <1>2, <1>3, <1>4 DEF Actions, Reasons, NoTier
<1>6. decision'.action # "compact" =>
         decision'.target # NoTier /\ required <= decision'.target
  BY <1>1, <1>4 DEF NoTier
<1>7. decision'.action # "compact" /\ decision'.target < current => Distance
  <2> SUFFICES ASSUME decision'.action # "compact", decision'.target < current,
                      lastSwitchAt # Never
               PROVE  now - lastSwitchAt >= MinInterval \/ now - lastSwitchAt >= IdleDemote
    BY DEF Distance
  <2>1. IdleLongEnough \/ streak >= StreakNeeded
    BY <1>1, <1>4
  <2>2. CASE IdleLongEnough
    BY <1>2, <2>2, ConstantTypes DEF IdleLongEnough, Never
  <2>3. CASE streak >= StreakNeeded
    <3>1. IntervalOk
      BY <1>3, <2>3, ConstantTypes
    <3> QED BY <3>1 DEF IntervalOk
  <2> QED BY <2>1, <2>2, <2>3
<1> QED BY <1>5, <1>6, <1>7

LEMMA PrepareKeepsInv ==
    ASSUME IInv,
           NEW prompt \in Prompts, NEW explicit \in Limits \cup {NoLimit},
           NEW reasoning \in Reasonings, NEW hasTools \in BOOLEAN,
           NEW post \in PostCompactionCalls,
           Prepare(prompt, explicit, reasoning, hasTools, post)
    PROVE  IInv'
<1> DEFINE reserve == CompletionReserve(explicit, reasoning, hasTools)
           required == RequiredContext(prompt, reserve)
           effective == EffectiveMaxTokens(explicit, decision'.target, prompt)
           refused == decision'.action = "compact" \/ effective = Rejected
<1>1. /\ prompt \in Nat /\ explicit \in Nat \cup {NoLimit} /\ post \in BOOLEAN
      /\ reserve \in Nat /\ required \in Nat
      /\ required = prompt + reserve + SafetyMargin
  BY ConstantTypes DEF CompletionReserve, RequiredContext
<1>2. /\ Decide(required, SeenContext, post)
      /\ currentContext' = SeenContext
      /\ phase' = IF refused THEN "none" ELSE "prepared"
      /\ request' = IF refused THEN NoRequest
                    ELSE [prompt |-> prompt, explicit |-> explicit,
                          reserve |-> reserve, required |-> required]
      /\ maxTokens' = IF refused THEN 0 ELSE effective
      /\ replaced' = FALSE
      /\ UNCHANGED <<now, lastRequestAt, lastSwitchAt, pressureDropEligible,
                     serverContext>>
  BY DEF Prepare
<1>3. /\ SeenContext \in Nat \ {0}
      /\ serverContext # Down => SeenContext = serverContext
  BY DEF SeenContext, IInv, TypeOK, Down
<1>4. /\ decision' \in [action : Actions, reason : Reasons, target : Nat]
      /\ lowPressureStreak' \in Nat
      /\ decision'.action # "compact" =>
            decision'.target # NoTier /\ required <= decision'.target
      /\ decision'.action # "compact" /\ decision'.target < SeenContext => Distance
  BY <1>1, <1>2, <1>3, DecisionFits
<1>5. ~refused =>
         /\ effective \in Nat
         /\ prompt + effective + SafetyMargin <= decision'.target
         /\ IF explicit # NoLimit THEN effective = explicit
            ELSE effective >= reserve \/ effective = BackendCap
  <2> SUFFICES ASSUME ~refused
               PROVE  /\ effective \in Nat
                      /\ prompt + effective + SafetyMargin <= decision'.target
                      /\ IF explicit # NoLimit THEN effective = explicit
                         ELSE effective >= reserve \/ effective = BackendCap
    OBVIOUS
  <2> DEFINE ctx == decision'.target
  <2>1. ctx \in Nat /\ RequiredContext(prompt, reserve) <= ctx
    BY <1>4
  <2>2. prompt + SafetyMargin <= ctx
    BY <1>1, <2>1, ConstantTypes
  <2>3. EffectiveMaxTokens(explicit, ctx, prompt) # Rejected
    OBVIOUS
  <2> HIDE DEF ctx, reserve
  <2>4. /\ EffectiveMaxTokens(explicit, ctx, prompt) \in Nat
        /\ prompt + EffectiveMaxTokens(explicit, ctx, prompt) + SafetyMargin <= ctx
    BY <1>1, <2>1, <2>2, <2>3, EffectiveFits
  <2>5. IF explicit # NoLimit
        THEN EffectiveMaxTokens(explicit, ctx, prompt) = explicit
        ELSE \/ EffectiveMaxTokens(explicit, ctx, prompt) >= reserve
             \/ EffectiveMaxTokens(explicit, ctx, prompt) = BackendCap
    BY <1>1, <2>1, <2>3, EffectiveHonoursRequest
  <2> QED BY <2>4, <2>5 DEF ctx
<1> HIDE DEF effective, refused, reserve, required
<1>6. TypeOK'
  <2>1. request' \in [prompt : Nat, explicit : Nat \cup {NoLimit}, reserve : Nat, required : Nat]
    BY <1>1, <1>2 DEF NoRequest
  <2>2. maxTokens' \in Nat /\ phase' \in Phases /\ replaced' \in BOOLEAN
    BY <1>2, <1>5 DEF Phases
  <2> QED BY <1>2, <1>3, <1>4, <2>1, <2>2 DEF IInv, TypeOK
<1>7. SizedInv' /\ DistanceInv'
  <2> SUFFICES ASSUME ~refused PROVE SizedInv' /\ DistanceInv'
    BY <1>2 DEF SizedInv, DistanceInv
  <2>1. decision'.action # "compact"
    BY DEF refused
  <2>2. /\ request'.prompt = prompt /\ request'.explicit = explicit
        /\ request'.reserve = reserve /\ maxTokens' = effective
    BY <1>2
  <2>3. Honoured'
    BY <1>5, <2>2 DEF Honoured
  <2>4. DistanceInv'
    BY <1>2, <1>3, <1>4, <2>1 DEF DistanceInv, Distance
  <2> QED BY <1>2, <1>4, <1>5, <2>1, <2>2, <2>3, <2>4 DEF SizedInv
<1>8. ServedInv'
  BY <1>2 DEF ServedInv
<1> QED BY <1>2, <1>6, <1>7, <1>8 DEF IInv

\* The two ways to have the wanted tier served, found or brought about.
LEMMA ApprovalKeepsInv ==
    ASSUME IInv, Available \/ SwitchSucceeds
    PROVE  IInv'
<1>1. /\ phase \in {"prepared", "switching"} /\ phase' = "ready" /\ replaced' = FALSE
      /\ serverContext = decision.target
      /\ UNCHANGED <<now, serverContext, request, decision, maxTokens>>
  BY DEF Available, SwitchSucceeds, Approve
<1>2. /\ decision.target # NoTier
      /\ request.prompt + maxTokens + SafetyMargin <= decision.target
      /\ Honoured
  BY <1>1 DEF IInv, SizedInv
<1>3. /\ currentContext' \in Nat \ {0}
      /\ lastRequestAt' = now
      /\ lastSwitchAt' \in {lastSwitchAt, now}
      /\ lowPressureStreak' \in Nat /\ pressureDropEligible' \in BOOLEAN
  <2>1. CASE Available
    BY <1>1, <1>2, <2>1
       DEF Available, RecordRequest, SeenContext, IInv, TypeOK, Down, NoTier
  <2>2. CASE SwitchSucceeds
    BY <1>1, <1>2, <2>2 DEF SwitchSucceeds, IInv, TypeOK, NoTier
  <2> QED BY <2>1, <2>2
<1>4. TypeOK' /\ lastSwitchAt' <= lastRequestAt'
  <2>1. /\ lastRequestAt' \in 0..now' /\ lastSwitchAt' \in (0..now') \cup {Never}
        /\ lastSwitchAt' <= lastRequestAt'
    BY <1>1, <1>3 DEF IInv, TypeOK, Never
  <2>2. phase' \in Phases /\ replaced' \in BOOLEAN
    BY <1>1 DEF Phases
  <2> QED BY <1>1, <1>3, <2>1, <2>2 DEF IInv, TypeOK
<1>5. SizedInv' /\ DistanceInv' /\ ServedInv'
  BY <1>1, <1>2 DEF SizedInv, DistanceInv, ServedInv, Honoured
<1> QED BY <1>4, <1>5 DEF IInv

\* A switch under way, and the sending, leave the sizing and the switch times alone.
LEMMA ProgressKeepsInv ==
    ASSUME IInv, SwitchBegins \/ SwitchFails \/ (Send /\ serverContext # Down)
    PROVE  IInv'
<1>1. /\ \/ phase = "prepared" /\ phase' = "switching"
         \/ phase = "switching" /\ phase' = "rollingBack"
         \/ phase = "ready" /\ phase' = "generating"
      /\ currentContext' \in Nat \ {0}
      /\ UNCHANGED <<now, lastRequestAt, lastSwitchAt, lowPressureStreak,
                     pressureDropEligible, serverContext, request, decision, maxTokens,
                     replaced>>
  BY DEF SwitchBegins, SwitchFails, Send, SeenContext, managerVars, IInv, TypeOK, Down
<1>2. TypeOK' /\ lastSwitchAt' <= lastRequestAt'
  <2>1. phase' \in Phases
    BY <1>1 DEF Phases
  <2> QED BY <1>1, <2>1 DEF IInv, TypeOK
<1>3. SizedInv' /\ DistanceInv' /\ ServedInv'
  BY <1>1 DEF IInv, SizedInv, DistanceInv, ServedInv, Honoured
<1> QED BY <1>2, <1>3 DEF IInv

LEMMA EndKeepsInv ==
    ASSUME IInv, SwitchDeferred \/ RollBackEnds \/ (Send /\ serverContext = Down) \/ Finish
    PROVE  IInv'
<1>1. /\ EndRequest
      /\ currentContext' \in Nat \ {0}
      /\ UNCHANGED <<now, lastRequestAt, lastSwitchAt, lowPressureStreak,
                     pressureDropEligible, serverContext, decision>>
  BY DEF SwitchDeferred, RollBackEnds, Send, Finish, SeenContext, managerVars, IInv, TypeOK,
         Down
<1>2. TypeOK'
  BY <1>1 DEF EndRequest, IInv, TypeOK, Phases, NoRequest, NoLimit
<1> QED BY <1>1, <1>2 DEF EndRequest, IInv, SizedInv, DistanceInv, ServedInv

LEMMA TickKeepsInv ==
    ASSUME IInv, Tick
    PROVE  IInv'
<1>1. /\ now \in Nat /\ now' = now + 1 /\ now < MaxTime
      /\ UNCHANGED <<managerVars, serverContext, requestVars, decision>>
  BY DEF Tick, IInv, TypeOK
<1>2. TypeOK'
  BY <1>1, ConstantTypes DEF IInv, TypeOK, managerVars, requestVars
<1>3. DistanceInv'
  BY <1>1, ConstantTypes
     DEF IInv, TypeOK, DistanceInv, Distance, managerVars, requestVars, Never
<1>4. SizedInv' /\ ServedInv' /\ lastSwitchAt' <= lastRequestAt'
  BY <1>1 DEF IInv, SizedInv, ServedInv, Honoured, managerVars, requestVars
<1> QED BY <1>2, <1>3, <1>4 DEF IInv

\* A server that goes leaves a request that knows nothing of it marked.
LEMMA ReplacementKeepsInv ==
    ASSUME IInv, NEW context \in Nat, Becomes(context)
    PROVE  IInv'
<1>1. /\ serverContext' = context
      /\ UNCHANGED <<now, managerVars, decision>>
  BY DEF Becomes
<1>2. CASE EndRequest
  <2>1. TypeOK'
    BY <1>1, <1>2 DEF EndRequest, IInv, TypeOK, managerVars, Phases, NoRequest, NoLimit
  <2> QED BY <1>1, <1>2, <2>1
          DEF EndRequest, IInv, SizedInv, DistanceInv, ServedInv, managerVars
<1>3. CASE phase # "generating" /\ replaced' = (phase # "none")
           /\ UNCHANGED <<phase, request, maxTokens>>
  <2>1. TypeOK'
    BY <1>1, <1>3 DEF IInv, TypeOK, managerVars
  <2>2. SizedInv' /\ DistanceInv' /\ ServedInv'
    BY <1>1, <1>3 DEF IInv, SizedInv, DistanceInv, ServedInv, Honoured, managerVars
  <2> QED BY <1>1, <2>1, <2>2 DEF IInv, managerVars
<1> QED BY <1>2, <1>3 DEF Becomes

LEMMA EnvironmentKeepsInv ==
    ASSUME IInv, ServerDies \/ Restarted
    PROVE  IInv'
<1>1. PICK context \in Nat : Becomes(context)
  BY ConstantTypes, TiersAssumption DEF ServerDies, Restarted, Down
<1> QED BY <1>1, ReplacementKeepsInv

LEMMA NextKeepsInv == IInv /\ [Next]_vars => IInv'
<1> SUFFICES ASSUME IInv, [Next]_vars PROVE IInv'
  OBVIOUS
<1>1. CASE UNCHANGED vars
  BY <1>1 DEF vars, managerVars, requestVars, IInv, TypeOK, SizedInv, DistanceInv, Distance,
              ServedInv, Honoured
<1>2. CASE \E prompt \in Prompts, explicit \in Limits \cup {NoLimit},
              reasoning \in Reasonings, hasTools \in BOOLEAN,
              post \in PostCompactionCalls :
              Prepare(prompt, explicit, reasoning, hasTools, post)
  BY <1>2, PrepareKeepsInv
<1>3. CASE Available \/ SwitchSucceeds
  BY <1>3, ApprovalKeepsInv
<1>4. CASE SwitchBegins \/ SwitchFails
  BY <1>4, ProgressKeepsInv
<1>5. CASE Send
  BY <1>5, ProgressKeepsInv, EndKeepsInv
<1>6. CASE SwitchDeferred \/ RollBackEnds \/ Finish
  BY <1>6, EndKeepsInv
<1>7. CASE Tick
  BY <1>7, TickKeepsInv
<1>8. CASE ServerDies \/ Restarted
  BY <1>8, EnvironmentKeepsInv
<1> QED BY <1>1, <1>2, <1>3, <1>4, <1>5, <1>6, <1>7, <1>8 DEF Next

LEMMA Inductive == Spec => []IInv
BY InitInv, NextKeepsInv, PTL DEF Spec

-----------------------------------------------------------------------------
\* The manager's and the request's variables have their types.
THEOREM TypeCorrect == Spec => []TypeOK
<1>1. IInv => TypeOK
  BY DEF IInv
<1> QED BY <1>1, Inductive, PTL

\* Whatever the tiers, margins and requests: what the server that was seen last generates
\* fits it, prompt, output allowance and safety margin together, although crashes and
\* restarts may come between any two steps of the relay.
THEOREM ForwardedRequestFits == Spec => []FitsServedTier
<1>1. IInv => FitsServedTier
  BY DEF IInv, SizedInv, ServedInv, FitsServedTier
<1> QED BY <1>1, Inductive, PTL

\* The caller's explicit limit, or the reserve the tier was chosen with, is honoured.
THEOREM OutputBudgetHonoured == Spec => []BudgetHonoured
<1>1. IInv => BudgetHonoured
  BY DEF IInv, SizedInv, Honoured, BudgetHonoured
<1> QED BY <1>1, Inductive, PTL

\* A restart that takes the server the decision was made about to a smaller tier keeps
\* its distance from the previous switch, under whatever name it was decided.
THEOREM DemotionsKeepTheirDistance == Spec => NoFlapping
<1> DEFINE Kept ==
      /\ phase = "prepared" /\ phase' = "switching"
      /\ serverContext # Down
      /\ decision.target < serverContext
      /\ ~replaced
      /\ lastSwitchAt # Never
      => \/ now - lastSwitchAt >= MinInterval
         \/ now - lastSwitchAt >= IdleDemote
<1>1. IInv /\ [Next]_vars => [Kept]_vars
  BY DEF IInv, DistanceInv, Distance
<1>2. [][Kept]_vars => NoFlapping
  BY DEF NoFlapping
<1> HIDE DEF Kept
<1> QED BY <1>1, <1>2, Inductive, PTL DEF Spec
=============================================================================
