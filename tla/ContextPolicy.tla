--------------------------- MODULE ContextPolicy ---------------------------
(***************************************************************************)
(* The request-based sizing rules of src/runtime/local_brain_context.py:   *)
(* how much context a request needs, which physical tier that selects, and *)
(* how many output tokens the chosen tier leaves.  Token counts that reach *)
(* these functions are non-negative integers (coerce_optional_nonnegative_ *)
(* int and the prompt estimator see to that).                              *)
(***************************************************************************)
EXTENDS Integers

CONSTANTS
    Tiers,                    \* physical_context_tiers
    MaxPhysicalContext,       \* max_physical_context
    SafetyMargin,             \* safety_margin_tokens
    VisibleReserveNoTools,    \* VISIBLE_OUTPUT_RESERVE_NO_TOOLS
    VisibleReserveWithTools,  \* VISIBLE_OUTPUT_RESERVE_WITH_TOOLS
    BackendCap                \* backend_completion_cap, or NoLimit

NoLimit == -1     \* an omitted max_tokens, or no backend cap
NoTier == 0       \* choose_context_tier found nothing
Rejected == -2    \* compute_effective_max_tokens raised ValueError

ASSUME TiersAssumption == Tiers \subseteq Nat \ {0}
ASSUME MaxPhysicalContextAssumption == MaxPhysicalContext \in Nat
ASSUME SafetyMarginAssumption == SafetyMargin \in Nat
ASSUME ReserveAssumption ==
    VisibleReserveNoTools \in Nat \ {0} /\ VisibleReserveWithTools \in Nat \ {0}
ASSUME BackendCapAssumption == BackendCap \in (Nat \ {0}) \cup {NoLimit}

-----------------------------------------------------------------------------
\* estimate_completion_reserve: an explicit limit already includes the reasoning.
CompletionReserve(explicit, reasoning, hasTools) ==
    IF explicit # NoLimit
    THEN explicit
    ELSE reasoning + IF hasTools THEN VisibleReserveWithTools ELSE VisibleReserveNoTools

\* Fault: the safety margin is forgotten.
RequiredWithoutMargin(prompt, reserve) == prompt + reserve

RequiredContext(prompt, reserve) == prompt + reserve + SafetyMargin

FittingTiers(required) == {t \in Tiers : t >= required}

\* The smallest tier that holds the request.
ChooseTier(required) ==
    IF FittingTiers(required) = {}
    THEN NoTier
    ELSE CHOOSE t \in FittingTiers(required) : \A u \in FittingTiers(required) : t <= u

\* safe_completion_capacity
SafeCapacity(ctx, prompt) ==
    IF ctx - prompt - SafetyMargin > 0 THEN ctx - prompt - SafetyMargin ELSE 0

CappedCapacity(ctx, prompt) ==
    IF BackendCap # NoLimit /\ BackendCap < SafeCapacity(ctx, prompt)
    THEN BackendCap
    ELSE SafeCapacity(ctx, prompt)

\* compute_effective_max_tokens: an explicit limit is kept exactly or rejected.
EffectiveMaxTokens(explicit, ctx, prompt) ==
    CASE explicit = NoLimit -> CappedCapacity(ctx, prompt)
      [] explicit # NoLimit /\ explicit <= CappedCapacity(ctx, prompt) -> explicit
      [] OTHER -> Rejected
=============================================================================
