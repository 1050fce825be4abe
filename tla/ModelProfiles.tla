--------------------------- MODULE ModelProfiles ---------------------------
(***************************************************************************)
(* What one configured route of src/dsh/llm-pi-ai/index.js serves: the     *)
(* profile is laid over the installed catalog (resolveRouteModels), a      *)
(* provider is built for it (buildProvider), calls are prepared against    *)
(* the resolved models and sent while the profile is being rewritten.      *)
(* A wire value, a name or an endpoint is present or absent; contextWindow,*)
(* input and name are layered as maxTokens is and left out.                *)
(***************************************************************************)
EXTENDS FiniteSets

CONSTANTS
    Catalog,      \* the shipped providers: [models, endpoint]
    NoModel,      \* the record of a model the catalog does not describe
    Offers,       \* COMPAT_GATES: the switches each protocol offers
    Protocols,    \* PROTOCOLS: what createProvider can be given
    LocalRoutes,  \* isLocalBrainRoute: <<provider, model>> pairs
    Completions,  \* "openai-completions"
    Profiles,     \* what may be written for the route
    Unset         \* undefined

\* Every pi-ai thinking level; those of Base are supported unless a model's map says
\* otherwise, the others only if it says so.
Levels == {"off", "minimal", "low", "medium", "high", "xhigh", "max"}
BaseLevels == Levels \ {"xhigh", "max"}

ASSUME ProtocolsAssumption == Protocols \subseteq DOMAIN Offers
ASSUME CompletionsAssumption == Completions \in Protocols
ASSUME CatalogAssumption ==
    \A p \in DOMAIN Catalog : \A id \in DOMAIN Catalog[p].models :
        Catalog[p].models[id].api \in DOMAIN Offers

ASSUME NoModelAssumption == NoModel.api = Unset

\* The schema of reasoningEfforts: the keys are levels and a value is a text or missing
\* ("silent"), never pi-ai's null.
Declared(e) == e = Unset \/ (DOMAIN e \subseteq Levels /\ \A l \in DOMAIN e : e[l] # "null")

ASSUME ProfilesAssumption ==
    \A f \in Profiles :
        /\ \A id \in DOMAIN f.models : Declared(f.models[id].efforts)
        /\ \A id \in DOMAIN f.overrides : Declared(f.overrides[id].efforts)

VARIABLES
    source,       \* the profile in force
    held,         \* the profile of the snapshot a call was prepared with
    model,        \* the model it names
    phase,        \* idle, prepared, sent or refused
    info,         \* modelInfo: what the harness was told of the model
    asked,        \* what the harness asks: [effort, cap]
    payload       \* what pi-ai puts on the wire

profileVars == <<source, held, model, phase, info, asked, payload>>

-----------------------------------------------------------------------------
(* The catalog under the profile. *)

Or(a, b) == IF a # Unset THEN a ELSE b          \* a ?? b

CatalogModels(p) == IF p \in DOMAIN Catalog THEN Catalog[p].models ELSE <<>>

Installed(p, id) ==
    IF id \in DOMAIN CatalogModels(p) THEN CatalogModels(p)[id] ELSE NoModel

CatalogApis(p) == {CatalogModels(p)[id].api : id \in DOMAIN CatalogModels(p)}

SharedCatalogApi(p) ==
    IF Cardinality(CatalogApis(p)) = 1 THEN CHOOSE a \in CatalogApis(p) : TRUE ELSE Unset

Plain == [efforts |-> Unset, cap |-> Unset, compat |-> <<>>]

\* The configured models, or the catalog's with the overrides of some.
Entries(f) ==
    IF DOMAIN f.models # {} THEN f.models
    ELSE [id \in DOMAIN CatalogModels(f.provider) |->
            IF id \in DOMAIN f.overrides THEN f.overrides[id] ELSE Plain]

Api(f, id) == Or(f.api, Or(Installed(f.provider, id).api, SharedCatalogApi(f.provider)))

HasEndpoint(f) == f.endpoint \/ (f.provider \in DOMAIN Catalog /\ Catalog[f.provider].endpoint)

Cap(f, id) == Or(Entries(f)[id].cap, Or(Installed(f.provider, id).cap, f.cap))

-----------------------------------------------------------------------------
(* Reasoning.  An entry declares no efforts (Unset), none at all (the empty *)
(* function, false in the profile), or a wire value per level, "silent" for *)
(* an off that sends nothing.                                              *)

\* Fault: undeclared levels are left for pi-ai to default.
Unpinned(e) == [l \in {k \in DOMAIN e : e[k] # "silent"} |-> e[l]]

\* Every level decided: declared ones carry their value, the others null.
LevelMap(e) ==
    [l \in {k \in Levels : k \notin DOMAIN e \/ e[k] # "silent"} |->
        IF l \in DOMAIN e THEN e[l] ELSE "null"]

EffortsOk(e) ==
    \/ e = Unset \/ DOMAIN e = {}
    \/ /\ \A l \in DOMAIN e : e[l] = "silent" => l = "off"
       /\ DOMAIN e \ {"off"} # {}

Reasoning(f, id) ==
    LET e == Entries(f)[id].efforts base == Installed(f.provider, id)
    IN  IF e = Unset THEN [reasons |-> base.reasons, levels |-> base.levels]
        ELSE [reasons |-> DOMAIN e # {},
              levels |-> IF DOMAIN e = {} THEN base.levels ELSE LevelMap(e)]

\* getSupportedThinkingLevels of pi-ai.
SupportedLevels(r) ==
    IF ~r.reasons THEN {"off"}
    ELSE {l \in Levels : IF l \in DOMAIN r.levels THEN r.levels[l] # "null"
                         ELSE l \in BaseLevels}

-----------------------------------------------------------------------------
(* Compatibility switches. *)

OfferedBySome(s) == \E api \in DOMAIN Offers : s \in Offers[api]

\* {...b, ...a}
Over(a, b) == [s \in DOMAIN a \cup DOMAIN b |-> IF s \in DOMAIN a THEN a[s] ELSE b[s]]

Taken(api, compat) == [s \in DOMAIN compat \cap Offers[api] |-> compat[s]]

\* Fault: the route's switch is laid over the model's.
RouteOverModel(api, route, entry) == Over(Taken(api, route), entry)

\* A route switch skips the models whose protocol does not take it; a model's own
\* switch wins.
Configured(api, route, entry) == Over(entry, Taken(api, route))

\* Without any configured switch the catalog entry is spread as it is.
Compat(f, id) ==
    LET api == Api(f, id)
        base == Installed(f.provider, id)
        switches == Configured(api, f.compat, Entries(f)[id].compat)
    IN  IF DOMAIN switches = {} \/ base.api = api THEN Over(switches, base.compat)
        ELSE switches

-----------------------------------------------------------------------------
(* resolveProfiles: accepted, or refused where it is written. *)

OverridesOk(f) ==
    DOMAIN f.overrides # {} =>
        DOMAIN f.models = {} /\ DOMAIN f.overrides \subseteq DOMAIN CatalogModels(f.provider)

SwitchesOk(f) ==
    /\ \A s \in DOMAIN f.compat : OfferedBySome(s)
    /\ \A id \in DOMAIN Entries(f) : \A s \in DOMAIN Entries(f)[id].compat :
        s \in Offers[Api(f, id)]
    /\ \A s \in DOMAIN f.compat : \E id \in DOMAIN Entries(f) : s \in Offers[Api(f, id)]

Serviceable(f) ==
    /\ OverridesOk(f)
    /\ DOMAIN Entries(f) # {}
    /\ \A id \in DOMAIN Entries(f) : Api(f, id) # Unset /\ EffortsOk(Entries(f)[id].efforts)
    /\ HasEndpoint(f)
    /\ SwitchesOk(f)
    /\ f.api # Unset => f.api \in Protocols

Accepted == {f \in Profiles : Serviceable(f)}

\* buildProvider: a catalog route that keeps its protocol keeps the catalog's
\* implementations; any other speaks the one protocol it names.
Speaks(f) == IF f.api = Unset THEN CatalogApis(f.provider) ELSE {f.api}

-----------------------------------------------------------------------------
(* Calls. *)

DescribableLevel(f, id) ==
    IF f.reasoning \in SupportedLevels(Reasoning(f, id)) THEN f.reasoning ELSE Unset

\* Fault: the capability is reported as the configured limit.
ResolvedCap(f, id) == Cap(f, id)

ConfiguredCap(f, id) == Entries(f)[id].cap

\* reasoningInfo: a model that does not reason offers no efforts, not even off.
SelectableEfforts(f, id) ==
    IF Reasoning(f, id).reasons THEN SupportedLevels(Reasoning(f, id)) ELSE {}

ModelInfo(f, id) ==
    [efforts |-> SelectableEfforts(f, id), effort |-> DescribableLevel(f, id),
     cap |-> ConfiguredCap(f, id)]

Nothing == [efforts |-> {}, effort |-> Unset, cap |-> Unset]
NoQuestion == [effort |-> Unset, cap |-> Unset]
NoPayload == [api |-> Unset, level |-> Unset, cap |-> Unset, compat |-> <<>>]

ProfilesInit ==
    /\ source \in Accepted
    /\ held = source
    /\ model = Unset
    /\ phase = "idle"
    /\ info = Nothing /\ asked = NoQuestion /\ payload = NoPayload

\* The settings change, to another accepted profile: assertServiceable refuses the rest
\* where they are written.
Write(f) ==
    /\ f.provider = source.provider
    /\ source' = f
    /\ UNCHANGED <<held, model, phase, info, asked, payload>>

PrepareCall(id) ==
    /\ id \in DOMAIN Entries(source)
    /\ held' = source /\ model' = id /\ phase' = "prepared"
    /\ info' = ModelInfo(source, id)
    /\ asked' = NoQuestion /\ payload' = NoPayload
    /\ UNCHANGED source

IsLocalBrainRoute(f, id) == <<f.provider, id>> \in LocalRoutes

\* pi-ai falls back to the model's maxTokens; dropLocalBrainInheritedMaxTokens takes
\* that away again.
WireCap(f, id, cap) ==
    IF cap # Unset THEN cap
    ELSE IF IsLocalBrainRoute(f, id) /\ Api(f, id) = Completions THEN Unset
    ELSE Cap(f, id)

\* modelOf: the model is still among those of the snapshot.
Known(f) == model \in DOMAIN Entries(f)

\* resolveReasoningLevel refuses what the model does not support.
Takes(f, level) == level = Unset \/ level \in SupportedLevels(Reasoning(f, model))

\* profileOptions sends off by sending nothing.
ReasoningOption(level) == IF level = "off" THEN Unset ELSE level

Sends(f, effort, cap) ==
    LET level == Or(effort, f.reasoning)
    IN  IF ~Known(f) \/ ~Takes(f, level)
        THEN phase' = "refused" /\ UNCHANGED payload
        ELSE /\ phase' = "sent"
             /\ payload' = [api |-> Api(f, model), level |-> ReasoningOption(level),
                            cap |-> WireCap(f, model, cap), compat |-> Compat(f, model)]

\* Fault: the call is made under the settings of the moment.
StreamUnderCurrent(effort, cap) ==
    /\ phase = "prepared"
    /\ asked' = [effort |-> effort, cap |-> Or(cap, info.cap)]
    /\ Sends(source, effort, asked'.cap)
    /\ UNCHANGED <<source, held, model, info>>

\* The harness asks for an effort it was told of, or none, and fills in the limit it
\* was told of when its caller names none.
Stream(effort, cap) ==
    /\ phase = "prepared"
    /\ asked' = [effort |-> effort, cap |-> Or(cap, info.cap)]
    /\ Sends(held, effort, asked'.cap)
    /\ UNCHANGED <<source, held, model, info>>

CallStep ==
    \/ \E id \in DOMAIN Entries(source) : PrepareCall(id)
    \/ \E effort \in info.efforts \cup {Unset}, cap \in {Unset, "asked"} : Stream(effort, cap)

ProfilesNext == CallStep \/ \E f \in Accepted : Write(f)

ProfilesSpec == ProfilesInit /\ [][ProfilesNext]_profileVars

-----------------------------------------------------------------------------
(* Properties. *)

\* A model whose levels the profile declares offers exactly those, whatever pi-ai
\* assumes of a level it is told nothing about.
DeclaredLevelsAreOffered ==
    phase # "idle" =>
        LET e == Entries(held)[model].efforts
        IN  e # Unset => info.efforts = DOMAIN e

\* Every switch of an accepted profile takes effect: a model's own on that model, a
\* route's on each model that takes it and does not say otherwise, and on one at least.
\* None reaches a model whose protocol does not take it.
SwitchesTakeEffect ==
    /\ \A id \in DOMAIN Entries(source) :
        LET own == Entries(source)[id].compat
            offered == Offers[Api(source, id)]
            compat == Compat(source, id)
        IN  /\ \A s \in DOMAIN own : compat[s] = own[s]
            /\ \A s \in (DOMAIN source.compat \cap offered) \ DOMAIN own :
                compat[s] = source.compat[s]
            /\ DOMAIN compat \subseteq offered \cup DOMAIN Installed(source.provider, id).compat
    /\ \A s \in DOMAIN source.compat : \E id \in DOMAIN Entries(source) :
        s \in DOMAIN Compat(source, id)

\* The relay is told a limit only if the caller named it or the profile did for this
\* model: what the model can do, or the default of the route, is never sent as a limit.
CapOnlyWhenNamed ==
    phase = "sent" /\ IsLocalBrainRoute(held, model) /\ payload.api = Completions =>
        payload.cap \in {"asked", Entries(held)[model].cap}

\* A prepared call that asks for an effort it was told of is sent, at that effort, over
\* a protocol the route's provider implements, although the profile may have been
\* rewritten meanwhile.
PreparedCallsAreHonoured ==
    /\ phase = "refused" => asked.effort = Unset
    /\ phase = "sent" =>
        /\ asked.effort # Unset => payload.level = IF asked.effort = "off" THEN Unset
                                                   ELSE asked.effort
        /\ payload.api \in Speaks(held)
=============================================================================
